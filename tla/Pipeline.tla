------------------------------- MODULE Pipeline -------------------------------
(***************************************************************************)
(* The pipeline of rtl/ibex_core.sv: the end of the fetch stage, the ID    *)
(* stage, the writeback stage and the controller, clocked together, with   *)
(* the load/store unit's port, the instruction stream, the interrupt lines *)
(* and the debug module around them.                                       *)
(***************************************************************************)
EXTENDS IdStage, Sequences

CONSTANTS
  IrqLines,        \* interrupt lines that are used
  NmiLine,         \* values the external NMI line takes
  DebugReqLine,    \* values debug_req takes
  FetchEnable,     \* values of the fetch enable input
  HoldDebugReq     \* does debug_req stay high until debug mode is entered?

ASSUME PipelineAssumption ==
  /\ IrqLines \subseteq IrqLine
  /\ NmiLine \subseteq BOOLEAN /\ DebugReqLine \subseteq BOOLEAN
  /\ FetchEnable \subseteq BOOLEAN /\ HoldDebugReq \in BOOLEAN

VARIABLES
  offered,     \* the fetch stage has the instruction at pc_if
  requested,   \* debug_req was high in the last cycle, outside debug mode
  retired,     \* instructions that completed in the last cycle
  transfer,    \* <<transfer of control of the last cycle>>
  stepped      \* completions and traps since debug mode was left, up to two

envVars == <<offered, requested, retired, transfer, stepped>>
vars == <<config, ifVars, portVars, wbVars, ctrlVars, idVars, envVars>>

-----------------------------------------------------------------------------
(* The ports of the controller. *)

en_wb(in) == instr_done(in)

instr_type_wb == IF lsu_req_dec THEN instr.kind ELSE "other"

pc_set(in) ==
  \/ redirect(in) # {}
  \/ controller_run /\ (branch_set \/ jump_set)

targets(in) == IF controller_run THEN branch_target ELSE redirect(in)

-----------------------------------------------------------------------------
(* What the programmer sees of a cycle. *)

\* A load or store completes when it is answered without an error, mret and dret
\* when they return, any other instruction when it leaves ID.
MemRetires(in) == in.resp = "ok"

IdRetires(in) ==
  /\ instr_id_done(in) /\ ~exc_req_d
  /\ instr.kind \notin AccessType \cup {"mret", "dret"}

Completed(pc, next) == <<[pc |-> pc, next |-> next]>>

Retired(in) ==
  LET mem_pc == IF WritebackStage THEN wb_pc ELSE pc_id
  IN  (IF MemRetires(in) THEN Completed(mem_pc, NextPc(mem_pc)) ELSE <<>>) \o
      (IF IdRetires(in) THEN Completed(pc_id, Follow(instr, pc_id)) ELSE <<>>)

Lines(in) == in.irqs \cup (IF in.nm_ext THEN {"nmi"} ELSE {})
                     \cup (IF irq_nm_int THEN {"nmi_int"} ELSE {})

Transfer(kind, cause, lines) ==
  <<[kind |-> kind, cause |-> cause, pc |-> saved_pc, lines |-> lines]>>

Transferred(in) ==
  CASE ctrl_fsm \in {"RESET", "BOOT_SET"} ->
         <<[kind |-> "boot", cause |-> "none", pc |-> pc_if, lines |-> {}]>>
    [] ctrl_fsm = "IRQ_TAKEN" /\ handle_irq(in) ->
         Transfer("interrupt", irq_cause(in), Lines(in))
    [] ctrl_fsm = "DBG_TAKEN_IF" -> Transfer("debug", debug_cause, {})
    [] ctrl_fsm = "DBG_TAKEN_ID" ->
         Transfer("debug", IF debug_mode THEN "reentry" ELSE debug_cause, {})
    [] ctrl_fsm = "FLUSH" /\ takes_exception /\ ~ebreak_to_debug ->
         Transfer("exception", exception_prio, {})
    [] ctrl_fsm = "FLUSH" /\ ~takes_exception /\ (Is("mret") \/ Is("dret")) ->
         Transfer(instr.kind, "none", {})
    [] OTHER -> <<>>

MinOf(a, b) == IF a < b THEN a ELSE b

Observed(in) ==
  LET trap == ctrl_fsm = "FLUSH" /\ takes_exception /\ ~ebreak_to_debug
      new  == in.fetch /\ id_in_ready(in, stall(in), csr_pipe_flush(in))
  IN  /\ offered' = (in.fetch /\ ~new /\ ~pc_set(in))
      /\ requested' = (HoldDebugReq /\ in.debug_req /\ ~debug_mode')
      /\ retired' = Retired(in)
      /\ transfer' = Transferred(in)
      /\ stepped' = IF debug_mode' \/ debug_mode THEN 0
                    ELSE MinOf(2, stepped + Len(Retired(in)) +
                                  (IF trap THEN 1 ELSE 0))

-----------------------------------------------------------------------------
\* The fetch stage keeps an instruction until it is taken or the PC is set.
\* Lines and answers that do not matter in a state have one value there: debug mode
\* looks at no interrupt and no debug request, an integrity error adds nothing to one that
\* is pending, and but for FIRST_FETCH an instruction that fetch enable holds back is like
\* one that has not arrived.
Inputs ==
  [fetch : IF offered THEN {TRUE} ELSE BOOLEAN,
   done : IF lsu_busy \/ (instr_valid /\ lsu_req_dec) THEN BOOLEAN ELSE {FALSE},
   resp : Responses,
   intg : IF MemECC /\ ~intg_err_pending THEN BOOLEAN ELSE {FALSE},
   ex_valid : IF instr_valid /\ multdiv_en_dec THEN BOOLEAN ELSE {TRUE},
   nm_ext : IF debug_mode THEN {FALSE} ELSE NmiLine,
   irqs : IF debug_mode THEN {{}} ELSE SUBSET IrqLines,
   irq_enabled : IF IrqLines = {} THEN {FALSE} ELSE BOOLEAN,
   debug_req : IF debug_mode THEN {FALSE}
               ELSE IF requested THEN {TRUE} ELSE DebugReqLine,
   exec : IF ctrl_fsm = "FIRST_FETCH" THEN FetchEnable ELSE {TRUE}]

\* An integrity error comes with what the memory answers for an access or for its
\* first part; whether interrupts are enabled matters only if one is pending, and in
\* U mode they always are.
Cycle(in) ==
  /\ in.irqs = {} => ~in.irq_enabled
  /\ priv_mode = "U" /\ in.irqs # {} => in.irq_enabled
  /\ UNCHANGED config
  /\ in.intg => in.resp # "none" \/ lsu_busy
  /\ IfCycle(in.fetch, id_in_ready(in, stall(in), csr_pipe_flush(in)),
             instr_valid_clear(in, stall(in), csr_pipe_flush(in)),
             pc_set(in), targets(in))
  /\ PortCycle(lsu_req(in), instr.kind, lsu_req_done(in), in.resp)
  /\ WbCycle(in, en_wb(in), instr_type_wb)
  /\ CtrlCycle(in, stall(in), csr_pipe_flush(in))
  /\ IdCycle(in)
  /\ Observed(in)

Init ==
  /\ config \in Configurations
  /\ IfInit /\ PortInit /\ WbInit /\ CtrlInit /\ IdInit
  /\ offered = FALSE /\ requested = FALSE /\ retired = <<>> /\ transfer = <<>> /\ stepped = 0

Next == \E in \in Inputs : Cycle(in)

Spec == Init /\ [][Next]_vars

-----------------------------------------------------------------------------
(* Properties. *)

\* Type invariant; "both" in lsu_owed is left out.
TypeOK ==
  /\ config \in Configurations
  /\ pc_if \in Pc /\ pc_id \in Pc /\ wb_pc \in Pc
  /\ instr_valid \in BOOLEAN /\ instr \in Instrs \cup {NoInstr}
  /\ lsu_busy \in BOOLEAN /\ lsu_owed \in Owed \ {"both"}
  /\ wb_valid \in BOOLEAN /\ wb_type \in WbType
  /\ ctrl_fsm \in CtrlState /\ debug_cause \in DebugCause
  /\ nmi_mode \in BOOLEAN /\ debug_mode \in BOOLEAN
  /\ do_single_step \in BOOLEAN /\ enter_debug_mode_prio \in BOOLEAN
  /\ load_err_q \in BOOLEAN /\ store_err_q \in BOOLEAN
  /\ exc_req \in BOOLEAN /\ illegal_insn \in BOOLEAN
  /\ intg_err_pending \in BOOLEAN /\ dcsr \in Dcsr /\ priv_mode \in Priv
  /\ id_fsm \in {"FIRST_CYCLE", "MULTI_CYCLE"}
  /\ branch_set_raw_q \in BOOLEAN /\ branch_jump_set_done \in BOOLEAN
  /\ offered \in BOOLEAN /\ requested \in BOOLEAN /\ stepped \in 0 .. 2

\* The first instruction that has not completed: the oldest one in the pipeline
\* that has not, else the next one to fetch.
hart_pc ==
  LET mem_in_wb == wb_valid /\ wb_type # "other"
      done_in_id == ctrl_fsm = "FLUSH" /\ ~takes_exception /\
                      instr.kind \in {"wfi", "csr"}
  IN  IF WritebackStage /\ (mem_in_wb \/ lsu_err_q) THEN wb_pc
      ELSE IF ctrl_fsm = "DBG_TAKEN_ID" THEN pc_id
      ELSE IF instr_valid /\ ~done_in_id THEN pc_id
      ELSE pc_if

\* The pipeline executes like a hart that completes one instruction after the
\* other: none is lost, repeated, executed after a jump away from it or after an
\* older one that fails, and every trap saves the right address.
Promise == INSTANCE Hart WITH
  Pcs <- Pc, Vectors <- Vector,
  breakpoints <- IF DbgTriggerEn THEN Trigger ELSE {},
  pc <- hart_pc, debug <- debug_mode
ImplementsHart == Promise!Spec

\* An access that the LSU has begun belongs to the instruction in ID, which stays
\* until the last part is granted; an answer that is owed belongs to the
\* instruction in writeback, or in ID if there is no writeback stage.
AccessOwned ==
  /\ lsu_busy => /\ controller_run /\ instr_valid /\ lsu_req_dec
                 /\ id_fsm = "MULTI_CYCLE"
  /\ IF WritebackStage
       THEN lsu_owed = IF wb_valid /\ wb_type # "other" THEN wb_type ELSE "none"
       ELSE lsu_owed # "none" => instr_valid /\ instr.kind = lsu_owed

\* An interrupt or debug mode is entered with nothing in ID and no access in
\* flight; nor does the core sleep over an access (PipeEmptyOnIrq).
EmptyWhenTaken ==
  ctrl_fsm \in {"IRQ_TAKEN", "DBG_TAKEN_IF", "WAIT_SLEEP", "SLEEP"} =>
    ~instr_valid /\ lsu_owed = "none" /\ ~lsu_busy

\* With dcsr.step the hart completes one instruction, or takes the trap of one,
\* and is back in debug mode.
SingleStepOne == dcsr.step /\ ~debug_mode => stepped <= 1

\* An integrity error is remembered until the NMI for it is taken.
IntegrityErrorNotLost ==
  [][intg_err_pending /\ ~intg_err_pending' =>
       transfer' # <<>> /\ transfer'[1].cause = "nmi_int"]_vars

\* The cause of an interrupt is one that is there in the cycle it is recorded in,
\* one cycle after the decision to take it, and every entry into debug mode has a
\* cause, if the debug module holds its request until the hart has entered it.
CauseReal ==
  transfer # <<>> =>
    CASE transfer[1].kind = "interrupt" -> transfer[1].cause \in transfer[1].lines
      [] transfer[1].kind = "debug"     -> transfer[1].cause # "none"
      [] OTHER                          -> TRUE

\* Without the adder for branch targets a branch sets the PC in the cycle after
\* its first one, where the ALU computes the target (comment on
\* g_branch_set_flop).
BranchTargetComputed ==
  controller_run /\ branch_in_dec /\ branch_set /\ ~BranchTargetALU =>
    ~first_cycle

\* The state of the pipeline as a whole: who owns the accesses, what is in it when the
\* core turns away from the program, why it does so, and where a branch goes.
PipelineInv ==
  TypeOK /\ AccessOwned /\ EmptyWhenTaken /\ SingleStepOne /\ CauseReal /\ BranchTargetComputed
=============================================================================
