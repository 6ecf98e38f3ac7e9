------------------------------- MODULE IdStage -------------------------------
(***************************************************************************)
(* The decode and execute stage, rtl/ibex_id_stage.sv: when the            *)
(* instruction in ID may execute, why it stalls, and when it is done.      *)
(* With a writeback stage it is held back until the outcome of an older    *)
(* load or store is known, so that memory errors are precise; a branch or  *)
(* jump may start its fetch before that.                                   *)
(***************************************************************************)
EXTENDS Controller

VARIABLES
  id_fsm,                 \* id_fsm_q
  branch_set_raw_q,
  branch_jump_set_done    \* branch_jump_set_done_q

idVars == <<id_fsm, branch_set_raw_q, branch_jump_set_done>>

lsu_req_dec    == instr.kind \in AccessType
jump_in_dec    == instr.kind = "jump"
branch_in_dec  == instr.kind \in {"branch_taken", "branch_not_taken"}
multdiv_en_dec == instr.kind = "muldiv"
branch_decision == instr.kind = "branch_taken"

first_cycle == id_fsm = "FIRST_CYCLE"

outstanding_memory_access(in) ==
  (outstanding_load_wb \/ outstanding_store_wb) /\ ~lsu_resp_valid(in)

data_req_allowed(in) ==
  IF WritebackStage THEN ~outstanding_memory_access(in)
                    ELSE instr_valid /\ first_cycle

\* The instruction reads what a load in writeback has not received yet.
stall_ld_hz ==
  /\ WritebackStage /\ outstanding_load_wb
  /\ instr_valid /\ instr.reads /\ ~instr.fetch_err /\ ~illegal_insn_o

instr_executing_spec ==
  instr_valid /\ ~instr.fetch_err /\ controller_run /\ ~stall_ld_hz

instr_executing(in) ==
  /\ instr_executing_spec
  /\ WritebackStage => /\ ~wb_exception(in) /\ ~id_exception(in)
                       /\ ~outstanding_memory_access(in)

lsu_req(in) == instr_executing(in) /\ data_req_allowed(in) /\ lsu_req_dec

\* The LSU takes the last part of the access; it may finish one it has begun.
lsu_req_done(in) == in.done /\ (lsu_req(in) \/ lsu_busy)

multicycle_done(in) ==
  IF ~lsu_req_dec THEN multdiv_en_dec => in.ex_valid
  ELSE IF WritebackStage
    THEN ~(outstanding_memory_access(in) \/ ~lsu_req_done(in))
  ELSE lsu_resp_valid(in)

\* Does the instruction need a further cycle when its first one is over?
stays(in) ==
  \/ lsu_req_dec /\ (WritebackStage => ~lsu_req_done(in))
  \/ multdiv_en_dec /\ ~in.ex_valid
  \/ instr.kind = "alu_multi"
  \/ ~BranchTargetALU /\ (jump_in_dec \/ (branch_in_dec /\ branch_decision))

leaves_multi(in) == multicycle_done(in) /\ ready_wb(in)

\* Loads and stores stall by stall_mem.
stall_fsm(in) ==
  /\ instr_executing_spec
  /\ IF first_cycle
       THEN ~lsu_req_dec /\ stays(in)
       ELSE (multdiv_en_dec \/ jump_in_dec \/ branch_in_dec) /\ ~leaves_multi(in)

stall_mem(in) ==
  /\ instr_valid
  /\ IF WritebackStage
       THEN outstanding_memory_access(in) \/ (lsu_req_dec /\ ~lsu_req_done(in))
       ELSE lsu_req_dec /\ (~lsu_resp_valid(in) \/ first_cycle)

stall_id(in) == stall_ld_hz \/ stall_mem(in) \/ stall_fsm(in)

instr_done(in) == ~stall_id(in) /\ ~flush_id /\ instr_executing(in)

stall_wb(in) == WritebackStage /\ instr_done(in) /\ ~ready_wb(in)

instr_id_done(in) == instr_done(in) /\ ready_wb(in)

stall(in) == stall_id(in) \/ stall_wb(in)

csr_pipe_flush(in) == Is("csr") /\ instr_id_done(in)

\* Only the first cycle of a branch or jump sets the PC.  Without the extra
\* adder the decision on a branch is registered.
branch_set_raw_d ==
  instr_executing_spec /\ first_cycle /\ branch_in_dec /\ branch_decision

branch_set_raw == IF BranchTargetALU THEN branch_set_raw_d ELSE branch_set_raw_q

jump_set_raw == instr_executing_spec /\ first_cycle /\ jump_in_dec

branch_set == branch_set_raw /\ ~branch_jump_set_done
jump_set   == jump_set_raw /\ ~branch_jump_set_done

\* Without the extra adder the ALU computes the target of a branch in the cycle
\* after the first; in the first it compares, and its result is no address of
\* the program.
branch_target ==
  IF branch_in_dec /\ ~BranchTargetALU /\ first_cycle THEN Pc ELSE {instr.target}

IdInit ==
  /\ id_fsm = "FIRST_CYCLE"
  /\ branch_set_raw_q = FALSE
  /\ branch_jump_set_done = FALSE

\* One clock edge.
IdCycle(in) ==
  /\ id_fsm' =
       IF ~instr_executing(in) THEN id_fsm
       ELSE IF first_cycle
         THEN IF stays(in) THEN "MULTI_CYCLE" ELSE "FIRST_CYCLE"
       ELSE IF leaves_multi(in) THEN "FIRST_CYCLE" ELSE "MULTI_CYCLE"
  /\ branch_set_raw_q' = branch_set_raw_d
  /\ branch_jump_set_done' =
       /\ branch_set_raw \/ jump_set_raw \/ branch_jump_set_done
       /\ ~instr_valid_clear(in, stall(in), csr_pipe_flush(in))
=============================================================================
