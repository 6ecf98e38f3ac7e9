---------------------------- MODULE PipelineProofs ----------------------------
(***************************************************************************)
(* What the pipeline does for any program, any number of addresses,        *)
(* vectors, breakpoints and interrupt lines.  The pipeline's invariants    *)
(* speak of one moment each; the inductive invariant says what is in each  *)
(* stage in each state of the controller.  A cycle is taken apart by       *)
(* whether the controller decodes (DecodeStep) or not (QuietStep) and by   *)
(* what becomes of the instruction in ID.                                  *)
(***************************************************************************)
EXTENDS Pipeline, SequenceTheorems, TLAPS

\* In every build that ibex_configs.yaml names a writeback stage comes with the
\* adder for branch targets.
Supported == \A c \in Configurations : c.WritebackStage => c.BranchTargetALU

-----------------------------------------------------------------------------
(* The inductive invariant. *)

\* A load or a store waits in writeback for its answer.
mem_in_wb == wb_valid /\ wb_type # "other"

\* Without the stage nothing is in it.
NoStage == ~WritebackStage => ~wb_valid

\* Instructions are in ID while it decodes and while its last one is flushed; accesses
\* are in flight only while it decodes.  The error of one is known in the cycle after
\* its answer, in which the controller flushes.
InFlight ==
  /\ instr_valid => ctrl_fsm \in {"DECODE", "FLUSH"}
  /\ mem_in_wb \/ lsu_owed # "none" \/ lsu_busy => ctrl_fsm = "DECODE"
  /\ lsu_err_q => /\ ctrl_fsm = "FLUSH"
                  /\ ~WritebackStage => instr_valid /\ lsu_req_dec /\ ~instr.fetch_err
  /\ lsu_busy => lsu_owed = "none"
  /\ lsu_owed # "none" /\ ~WritebackStage => id_fsm = "MULTI_CYCLE"

\* Which instructions need more than one cycle; none of them has an older access
\* before it.
Multi ==
  id_fsm = "MULTI_CYCLE" =>
    /\ instr_valid /\ ctrl_fsm = "DECODE" /\ ~mem_in_wb /\ ~instr.fetch_err
    /\ instr.kind \in AccessType \cup {"muldiv", "alu_multi", "jump", "branch_taken"}
    /\ BranchTargetALU => ~jump_in_dec /\ ~branch_in_dec
    /\ lsu_req_dec => lsu_busy \/ (~WritebackStage /\ lsu_owed # "none")

\* The instructions in WB, ID and IF follow each other, but for a jump in ID that has
\* set the PC before it is done.
Fetching ==
  /\ branch_jump_set_done =>
       /\ instr_valid /\ instr.kind \in {"jump", "branch_taken"} /\ ~instr.fetch_err
       /\ controller_run => pc_if = instr.target
  /\ controller_run /\ instr_valid /\ ~branch_jump_set_done => pc_if = NextPc(pc_id)
  /\ mem_in_wb => NextPc(wb_pc) = IF instr_valid THEN pc_id ELSE pc_if

\* Without the adder a jump sets the PC in its first cycle, a branch in its second.
Branching ==
  ~BranchTargetALU =>
    /\ branch_set_raw_q => id_fsm = "MULTI_CYCLE" /\ branch_decision
    /\ id_fsm = "MULTI_CYCLE" =>
         /\ branch_decision => branch_set_raw_q /\ ~branch_jump_set_done
         /\ jump_in_dec => branch_jump_set_done
    /\ first_cycle => ~branch_jump_set_done

\* What the controller flushes for is in its registers and still in ID.
Flushing ==
  ctrl_fsm = "FLUSH" =>
    /\ exc_req <=> Is("ecall") \/ Is("ebreak") \/ illegal_insn_o \/ instr_fetch_err
    /\ illegal_insn <=> illegal_insn_o
    /\ \/ takes_exception \/ Is("mret") \/ (Is("dret") /\ debug_mode)
       \/ Is("wfi") \/ Is("csr")

\* Why the controller has left the program.
Reasons ==
  /\ ctrl_fsm = "IRQ_TAKEN" => ~debug_mode /\ ~trigger_match /\ ~dcsr.step
  /\ ctrl_fsm = "DBG_TAKEN_IF" =>
       ~debug_mode /\ (HoldDebugReq => debug_cause # "none")
  /\ ctrl_fsm = "DBG_TAKEN_ID" /\ ~debug_mode => debug_cause # "none"
  /\ ctrl_fsm = "FLUSH" /\ enter_debug_mode_prio => ~debug_mode
  /\ enter_debug_mode_prio /\ ~debug_mode /\ HoldDebugReq => requested \/ do_single_step
  /\ do_single_step /\ ~debug_mode => dcsr.step

\* Outside debug mode no instruction at a breakpoint gets into the pipeline.
NoBreakpoint ==
  DbgTriggerEn /\ ~debug_mode =>
    /\ instr_valid => pc_id \notin Trigger
    /\ mem_in_wb => wb_pc \notin Trigger

\* Is there an instruction in the pipeline that has not completed?
open_in_id ==
  /\ instr_valid
  /\ ~(ctrl_fsm = "FLUSH" /\ ~takes_exception /\ instr.kind \in {"wfi", "csr"})
open_in_wb == mem_in_wb \/ (WritebackStage /\ lsu_err_q)

\* While the hart steps, the fetch stops behind the first instruction.
Stepping ==
  dcsr.step /\ ~debug_mode =>
    /\ open_in_wb => ~instr_valid
    /\ open_in_wb \/ stepped # 0 => do_single_step
    /\ stepped # 0 => ~open_in_id /\ ~open_in_wb
    /\ stepped <= 1

IInv ==
  /\ TypeOK /\ AccessOwned /\ NoStage /\ InFlight /\ Multi /\ Fetching /\ Branching
  /\ Flushing /\ Reasons /\ NoBreakpoint /\ Stepping

-----------------------------------------------------------------------------
(* Addresses, and what a cycle gives the pipeline. *)

\* Addresses follow each other in Pc, and vectors and breakpoints are addresses.
LEMMA Addresses ==
  /\ 0 \in Pc
  /\ \A p \in Pc : NextPc(p) \in Pc
  /\ \A f \in FixedPc : Vector[f] \in Pc
  /\ Trigger \subseteq Pc
  BY IfAssumption, ControllerAssumption DEF Pc, NextPc

\* What an instruction in ID is made of.
LEMMA InstrFields ==
  ASSUME NEW i \in Instrs \cup {NoInstr}
  PROVE  /\ i.kind \in Kind /\ i.target \in Pc
         /\ i.reads \in BOOLEAN /\ i.fetch_err \in BOOLEAN
         /\ i.reads => i.kind \notin NoSource
<1>1. CASE i = NoInstr
  BY <1>1, Addresses DEF NoInstr, Kind
<1>2. CASE i \in Instrs
  BY <1>2, IfAssumption DEF Instr
<1>3. QED
  BY <1>1, <1>2

\* The parameters of the build, and what is supported.
LEMMA Builds ==
  ASSUME TypeOK
  PROVE  /\ WritebackStage \in BOOLEAN /\ BranchTargetALU \in BOOLEAN
         /\ DbgTriggerEn \in BOOLEAN /\ MemECC \in BOOLEAN
         /\ Supported /\ WritebackStage => BranchTargetALU
  BY ConfigurationAssumption
  DEF TypeOK, Parameters, WritebackStage, BranchTargetALU, DbgTriggerEn, MemECC, Supported

\* What the inputs of a cycle are made of.
LEMMA InputFields ==
  ASSUME TypeOK, NEW in \in Inputs
  PROVE  /\ in.fetch \in BOOLEAN /\ in.done \in BOOLEAN /\ in.ex_valid \in BOOLEAN
         /\ in.intg \in BOOLEAN /\ in.nm_ext \in BOOLEAN /\ in.irq_enabled \in BOOLEAN
         /\ in.debug_req \in BOOLEAN /\ in.exec \in BOOLEAN
         /\ in.irqs \subseteq IrqLine
         /\ in.resp \in Response /\ in.resp \in Responses
         /\ in.done => lsu_busy \/ (instr_valid /\ lsu_req_dec)
         /\ requested /\ ~debug_mode => in.debug_req
  BY PipelineAssumption DEF Inputs, TypeOK, Responses, Response

-----------------------------------------------------------------------------
(* The pipeline in one cycle. *)

Ready(in)   == id_in_ready(in, stall(in), csr_pipe_flush(in))
Clear(in)   == instr_valid_clear(in, stall(in), csr_pipe_flush(in))
Special(in) == special_req(in, csr_pipe_flush(in))

\* An instruction moves from IF to ID.
New(in) == in.fetch /\ Ready(in) /\ ~pc_set(in)

\* The load or store before the instruction in ID, or without a writeback stage the
\* one in ID, is answered only while the controller decodes.
LEMMA Answers ==
  ASSUME IInv, NEW in \in Inputs
  PROVE  /\ in.resp # "none" => /\ lsu_owed \in AccessType /\ ~lsu_busy /\ controller_run
                                /\ IF WritebackStage THEN mem_in_wb /\ wb_type = lsu_owed
                                   ELSE instr_valid /\ instr.kind = lsu_owed /\ ~first_cycle
         /\ outstanding_memory_access(in) <=> mem_in_wb /\ in.resp = "none"
         /\ ready_wb(in) <=> ~outstanding_memory_access(in)
         /\ exc_req_lsu(in) <=> in.resp = "error"
         /\ ~WritebackStage => ready_wb(in)
<1>. USE DEF mem_in_wb
<1>1. in.resp \in Responses /\ in.resp \in Response
  BY InputFields DEF IInv
<1>2. lsu_owed \in {"none", "load", "store"} /\ wb_type \in {"load", "store", "other"}
      /\ lsu_busy \in BOOLEAN /\ wb_valid \in BOOLEAN /\ instr_valid \in BOOLEAN
  BY DEF IInv, TypeOK, Owed, WbType, AccessType
<1>3. in.resp # "none" => lsu_owed \in AccessType /\ ~lsu_busy
  BY <1>1 DEF Responses
<1>4. in.resp # "none" => controller_run
  BY <1>3 DEF IInv, InFlight, AccessType, controller_run
<1>5. in.resp # "none" => IF WritebackStage THEN mem_in_wb /\ wb_type = lsu_owed
                          ELSE instr_valid /\ instr.kind = lsu_owed /\ ~first_cycle
  BY <1>2, <1>3 DEF IInv, AccessOwned, AccessType, InFlight, first_cycle
<1>6. outstanding_memory_access(in) <=> mem_in_wb /\ in.resp = "none"
  BY <1>2 DEF outstanding_memory_access, outstanding_load_wb, outstanding_store_wb, lsu_resp_valid
<1>7. ready_wb(in) <=> ~outstanding_memory_access(in)
  BY <1>2, <1>6 DEF ready_wb, wb_done, lsu_resp_valid
<1>8. exc_req_lsu(in) <=> in.resp = "error"
  BY <1>1, <1>2, <1>3 DEF exc_req_lsu, load_err, store_err, AccessType
<1>9. ~WritebackStage => ready_wb(in)
  BY DEF IInv, NoStage, ready_wb
<1>10. QED
  BY <1>3, <1>4, <1>5, <1>6, <1>7, <1>8, <1>9

\* An instruction in ID stalls or is done; nothing else makes it leave while the
\* controller decodes, and it executes only when the access before it is answered.
LEMMA Leaving ==
  ASSUME IInv, Supported, NEW in \in Inputs
  PROVE  /\ stall(in) => instr_valid
         /\ instr_executing(in) =>
              /\ instr_valid /\ ~instr.fetch_err /\ controller_run
              /\ ready_wb(in) /\ ~(WritebackStage /\ in.resp = "error")
         /\ instr_id_done(in) <=> instr_executing(in) /\ ~stall(in)
         /\ controller_run /\ instr_valid /\ ~stall(in) /\ ~Special(in) =>
              instr_id_done(in)
<1>1. stall(in) => instr_valid
  BY DEF stall, stall_id, stall_ld_hz, stall_mem, stall_fsm, stall_wb, instr_done,
         instr_executing_spec, instr_executing
<1>2. instr_executing(in) => instr_valid /\ ~instr.fetch_err /\ controller_run
  BY DEF instr_executing, instr_executing_spec
<1>3. instr_executing(in) => ready_wb(in)
  BY Answers DEF instr_executing
<1>4. instr_executing(in) => ~(WritebackStage /\ in.resp = "error")
  BY Answers DEF instr_executing, wb_exception
<1>5. controller_run => ~flush_id
  BY DEF controller_run, flush_id
<1>6. instr_id_done(in) <=> instr_executing(in) /\ ~stall(in)
  BY <1>2, <1>3, <1>5 DEF instr_id_done, instr_done, stall, stall_wb
<1>7. ASSUME controller_run, instr_valid, ~stall(in), ~Special(in)
      PROVE  instr_executing(in)
  <2>1. ~exc_req_d /\ ~exc_req_lsu(in)
    BY <1>7 DEF Special, special_req
  <2>2. ~lsu_err_q
    BY <1>7 DEF IInv, InFlight, controller_run
  <2>3. ~instr.fetch_err
    BY <1>7, <2>1 DEF exc_req_d, instr_fetch_err, controller_run
  <2>4. ~stall_ld_hz /\ (WritebackStage => ~outstanding_memory_access(in))
    BY <1>7 DEF stall, stall_id, stall_mem
  <2>5. QED
    BY <1>7, <2>1, <2>2, <2>3, <2>4
    DEF instr_executing, instr_executing_spec, wb_exception, id_exception
<1>8. QED
  BY <1>1, <1>2, <1>3, <1>4, <1>6, <1>7

\* Unless it decodes the controller lets nothing execute, and what is in ID is dropped.
LEMMA Quiet ==
  ASSUME IInv, Supported, NEW in \in Inputs, ~controller_run
  PROVE  /\ in.resp = "none" /\ ~lsu_busy /\ lsu_owed = "none" /\ ~mem_in_wb /\ first_cycle
         /\ ~instr_executing(in) /\ ~instr_done(in) /\ ~instr_id_done(in)
         /\ ~lsu_req(in) /\ ~lsu_req_done(in) /\ ~csr_pipe_flush(in)
         /\ ~branch_set_raw_d /\ ~jump_set_raw
         /\ instr_valid => Clear(in)
         /\ Retired(in) = <<>>
<1>1. in.resp = "none" /\ ~lsu_busy /\ lsu_owed = "none" /\ ~mem_in_wb /\ first_cycle
  BY Answers DEF IInv, InFlight, Multi, TypeOK, controller_run, first_cycle
<1>2. /\ ~instr_executing(in) /\ ~instr_done(in) /\ ~instr_id_done(in)
      /\ ~lsu_req(in) /\ ~lsu_req_done(in) /\ ~csr_pipe_flush(in)
      /\ ~branch_set_raw_d /\ ~jump_set_raw
  BY <1>1 DEF instr_executing, instr_executing_spec, instr_done, instr_id_done, lsu_req,
              lsu_req_done, csr_pipe_flush, branch_set_raw_d, jump_set_raw
<1>3. ASSUME instr_valid
      PROVE  Clear(in)
  <2>1. ctrl_fsm = "FLUSH"
    BY <1>3 DEF IInv, InFlight, controller_run
  <2>2. CASE ~ebreak_to_debug
    BY <2>1, <2>2 DEF Clear, instr_valid_clear, flush_id
  <2>3. CASE ebreak_to_debug
    <3>1. ~lsu_req_dec
      BY <2>1, <2>3 DEF IInv, Flushing, InFlight, ebreak_to_debug, ebrk_insn_prio, exception_prio, id_prio,
         wb_prio, Is, lsu_req_dec, takes_exception, AccessType
    <3>2. ~stall(in)
      BY <1>1, <1>2, <3>1 DEF stall, stall_id, stall_ld_hz, stall_mem, stall_fsm, stall_wb,
        instr_executing_spec, controller_run, outstanding_memory_access, mem_in_wb,
        outstanding_load_wb, outstanding_store_wb
    <3>3. QED
      BY <2>1, <3>2 DEF Clear, instr_valid_clear, retain_id
  <2>4. QED
    BY <2>2, <2>3
<1>4. Retired(in) = <<>>
  BY <1>1, <1>2 DEF Retired, MemRetires, IdRetires
<1>5. QED
  BY <1>1, <1>2, <1>3, <1>4

-----------------------------------------------------------------------------
(* What a cycle does to the registers. *)

\* What the fetch stage hands to ID.
LEMMA IfStep ==
  ASSUME TypeOK, NEW in \in Inputs, Cycle(in)
  PROVE  /\ New(in) => /\ instr_valid' /\ instr' \in Instrs
                       /\ pc_id' = pc_if /\ pc_if' = NextPc(pc_if)
                       /\ ~pc_set(in) /\ ~stall(in) /\ ~retain_id(in, csr_pipe_flush(in))
                       /\ ~halt_if(in, stall(in), csr_pipe_flush(in))
         /\ ~New(in) => /\ instr_valid' <=> instr_valid /\ ~Clear(in)
                        /\ pc_id' = pc_id
                        /\ instr_valid' => instr' = instr
         /\ ~New(in) /\ ~pc_set(in) => pc_if' = pc_if
         /\ pc_set(in) => pc_if' \in targets(in)
         /\ instr_valid' \in BOOLEAN /\ instr' \in Instrs \cup {NoInstr}
<1>. DEFINE new  == in.fetch /\ Ready(in) /\ ~pc_set(in)
            keep == instr_valid /\ ~Clear(in)
<1>1. /\ instr_valid' = (new \/ keep)
      /\ instr' \in IF new THEN Instrs ELSE IF keep THEN {instr} ELSE {NoInstr}
      /\ pc_id' = IF new THEN pc_if ELSE pc_id
      /\ pc_if' \in IF pc_set(in) THEN targets(in)
                    ELSE IF new THEN {NextPc(pc_if)} ELSE {pc_if}
  BY DEF Cycle, IfCycle, Ready, Clear
<1>2. new <=> New(in)
  BY DEF New
<1>3. Ready(in) => /\ ~stall(in) /\ ~retain_id(in, csr_pipe_flush(in))
                   /\ ~halt_if(in, stall(in), csr_pipe_flush(in))
  BY DEF Ready, id_in_ready
<1>4. new => Ready(in) /\ ~pc_set(in)
  OBVIOUS
<1>5. instr \in Instrs \cup {NoInstr}
  BY DEF TypeOK
<1>6. (instr_valid /\ ~Clear(in)) \in BOOLEAN /\ new \in BOOLEAN
  OBVIOUS
<1>. HIDE DEF new
<1>7. QED
  BY <1>1, <1>2, <1>3, <1>4, <1>5, <1>6

\* The states in which a new instruction arrives.
LEMMA Arrival ==
  ASSUME IInv, Supported, NEW in \in Inputs, New(in)
  PROVE  /\ ctrl_fsm \in {"FIRST_FETCH", "DECODE", "IRQ_TAKEN"}
         /\ ~debug_mode => ~trigger_match
         /\ ~debug_mode /\ dcsr.step => ~do_single_step /\ ~instr_valid
         /\ ctrl_fsm = "IRQ_TAKEN" => ~handle_irq(in)
         /\ controller_run => ~Special(in) /\ (instr_valid => instr_id_done(in))

<1>1. Ready(in) /\ ~pc_set(in)
  BY DEF New
<1>2. ~stall(in) /\ ~retain_id(in, csr_pipe_flush(in)) /\ ~pending_halt(in, stall(in), csr_pipe_flush(in))
  BY <1>1 DEF Ready, id_in_ready, halt_if
<1>3. redirect(in) = {}
  BY <1>1 DEF pc_set
<1>4. ctrl_fsm \in {"FIRST_FETCH", "DECODE", "IRQ_TAKEN"} /\ (ctrl_fsm = "IRQ_TAKEN" => ~handle_irq(in))
  <2>1. ctrl_fsm \notin {"RESET", "BOOT_SET", "DBG_TAKEN_IF", "DBG_TAKEN_ID"}
    BY <1>3 DEF redirect
  <2>2. ctrl_fsm = "IRQ_TAKEN" => ~handle_irq(in)
    BY <1>3 DEF redirect
  <2>3. ctrl_fsm \notin {"WAIT_SLEEP", "SLEEP", "FLUSH"}
    BY <1>2 DEF pending_halt
  <2>4. QED
    BY <2>1, <2>2, <2>3 DEF IInv, TypeOK, CtrlState
<1>5. controller_run => ~Special(in)
  BY <1>2 DEF retain_id, controller_run, Special
<1>6. ctrl_fsm # "IRQ_TAKEN" => ~enter_debug_mode(in)
  BY <1>2, <1>4, <1>5 DEF pending_halt, Special, controller_run
<1>7. ~debug_mode => ~trigger_match
  BY <1>6 DEF enter_debug_mode, IInv, Reasons
<1>8. ~debug_mode /\ dcsr.step => ~do_single_step /\ ~instr_valid
  <2>1. CASE ctrl_fsm = "IRQ_TAKEN"
    BY <2>1 DEF IInv, Reasons
  <2>2. CASE ctrl_fsm # "IRQ_TAKEN"
    BY <2>2, <1>6 DEF enter_debug_mode, enter_debug_mode_prio_d, do_single_step_d
  <2>3. QED
    BY <2>1, <2>2
<1>9. controller_run /\ instr_valid => instr_id_done(in)
  BY <1>2, <1>5, Leaving
<1>10. QED
  BY <1>4, <1>5, <1>7, <1>8, <1>9

\* A cycle in which the controller does not decode leaves the pipeline empty, but for
\* a new instruction.
LEMMA QuietStep ==
  ASSUME IInv, Supported, NEW in \in Inputs, Cycle(in), ~controller_run
  PROVE  /\ lsu_busy' = FALSE /\ lsu_owed' = "none"
         /\ wb_valid' = FALSE /\ wb_type' = wb_type /\ wb_pc' = wb_pc
         /\ id_fsm' = "FIRST_CYCLE" /\ branch_set_raw_q' = FALSE
         /\ branch_jump_set_done' = FALSE
         /\ load_err_q' = FALSE /\ store_err_q' = FALSE
         /\ dcsr' = dcsr /\ retired' = <<>>
         /\ instr_valid' <=> New(in)
         /\ pc_set(in) <=> redirect(in) # {}
         /\ targets(in) = redirect(in)
<1>1. lsu_busy' = FALSE /\ lsu_owed' = "none"
  <2>1. ~(lsu_req(in) \/ lsu_busy) /\ lsu_owed = "none" /\ ~lsu_req_done(in)
    BY Quiet
  <2>2. PortCycle(lsu_req(in), instr.kind, lsu_req_done(in), in.resp)
    BY DEF Cycle
  <2>3. QED
    BY <2>1, <2>2 DEF PortCycle
<1>2. wb_valid' = FALSE /\ wb_type' = wb_type /\ wb_pc' = wb_pc
  <2>1. ~en_wb(in) /\ (wb_valid => wb_done(in)) /\ wb_valid \in BOOLEAN /\ wb_type \in WbType
    BY Quiet DEF en_wb, mem_in_wb, wb_done, IInv, TypeOK
  <2>2. WbCycle(in, en_wb(in), instr_type_wb)
    BY DEF Cycle
  <2>3. QED
    BY <2>1, <2>2 DEF WbCycle
<1>3. id_fsm' = "FIRST_CYCLE" /\ branch_set_raw_q' = FALSE
  BY Quiet DEF Cycle, IdCycle, first_cycle
<1>4. branch_jump_set_done' = FALSE
  <2>1. ~branch_set_raw /\ ~jump_set_raw
    BY Quiet DEF branch_set_raw, IInv, Branching, TypeOK, first_cycle
  <2>2. branch_jump_set_done => Clear(in)
    BY Quiet DEF IInv, Fetching
  <2>3. branch_jump_set_done' =
          (/\ branch_set_raw \/ jump_set_raw \/ branch_jump_set_done
           /\ ~Clear(in))
    BY DEF Cycle, IdCycle, Clear
  <2>4. QED
    BY <2>1, <2>2, <2>3
<1>5. load_err_q' = FALSE /\ store_err_q' = FALSE /\ dcsr' = dcsr
  BY Quiet DEF Cycle, CtrlCycle, load_err, store_err
<1>6. retired' = <<>>
  BY Quiet DEF Cycle, Observed
<1>7. instr_valid' <=> New(in)
  BY Quiet, IfStep DEF IInv
<1>8. (pc_set(in) <=> redirect(in) # {}) /\ targets(in) = redirect(in)
  BY DEF pc_set, targets
<1>9. QED
  BY <1>1, <1>2, <1>3, <1>4, <1>5, <1>6, <1>7, <1>8

\* A cycle in which it decodes.
LEMMA DecodeStep ==
  ASSUME IInv, Supported, NEW in \in Inputs, Cycle(in), controller_run
  PROVE  /\ debug_mode' = debug_mode /\ nmi_mode' = nmi_mode /\ transfer' = <<>>
         /\ targets(in) = branch_target /\ (pc_set(in) <=> branch_set \/ jump_set)
         /\ Clear(in) <=> ~stall(in) /\ ~Special(in)
         /\ retain_id(in, csr_pipe_flush(in)) <=> Special(in)
         /\ ctrl_fsm' = "FLUSH" <=> Special(in) /\ (ready_wb(in) \/ wb_exception(in))
         /\ ctrl_fsm' \in {"FLUSH", "DECODE", "DBG_TAKEN_IF", "IRQ_TAKEN"}
         /\ ctrl_fsm' \in {"DBG_TAKEN_IF", "IRQ_TAKEN"} =>
              /\ ~Special(in) /\ ~instr_valid /\ ready_wb(in) /\ ~New(in)
              /\ IF ctrl_fsm' = "DBG_TAKEN_IF" THEN enter_debug_mode(in)
                 ELSE handle_irq(in) /\ ~enter_debug_mode(in)
<1>1. Decode(in, stall(in), csr_pipe_flush(in))
  BY DEF Cycle, CtrlCycle, CtrlFsm, Boot, FallAsleep, Sleep, FirstFetch, IrqTaken, DbgTaken,
         Flush, controller_run
<1>2. debug_mode' = debug_mode /\ nmi_mode' = nmi_mode
  BY <1>1 DEF Decode, KeepModes
<1>3. transfer' = <<>>
  BY DEF Cycle, Observed, Transferred, controller_run
<1>4. targets(in) = branch_target /\ (pc_set(in) <=> branch_set \/ jump_set)
  BY DEF targets, pc_set, redirect, controller_run
<1>5. retain_id(in, csr_pipe_flush(in)) <=> Special(in)
  BY DEF retain_id, Special, controller_run
<1>6. Clear(in) <=> ~stall(in) /\ ~Special(in)
  BY <1>5 DEF Clear, instr_valid_clear, flush_id, controller_run
<1>7. ctrl_fsm' =
        (IF Special(in)
           THEN IF ready_wb(in) \/ wb_exception(in) THEN "FLUSH" ELSE "DECODE"
         ELSE IF stall(in) \/ id_wb_pending(in) THEN "DECODE"
         ELSE IF enter_debug_mode(in) THEN "DBG_TAKEN_IF"
         ELSE IF handle_irq(in) THEN "IRQ_TAKEN"
         ELSE "DECODE")
  BY <1>1 DEF Decode, ToState, Special
<1>8. ctrl_fsm' \in {"FLUSH", "DECODE", "DBG_TAKEN_IF", "IRQ_TAKEN"}
  BY <1>7
<1>9. ctrl_fsm' = "FLUSH" <=> Special(in) /\ (ready_wb(in) \/ wb_exception(in))
  BY <1>7
<1>10. ASSUME ctrl_fsm' \in {"DBG_TAKEN_IF", "IRQ_TAKEN"}
       PROVE  /\ ~Special(in) /\ ~instr_valid /\ ready_wb(in) /\ ~New(in)
              /\ IF ctrl_fsm' = "DBG_TAKEN_IF" THEN enter_debug_mode(in)
                 ELSE handle_irq(in) /\ ~enter_debug_mode(in)
  <2>1. /\ ~Special(in) /\ ~id_wb_pending(in)
        /\ IF ctrl_fsm' = "DBG_TAKEN_IF" THEN enter_debug_mode(in)
           ELSE handle_irq(in) /\ ~enter_debug_mode(in)
    BY <1>7, <1>10
  <2>2. pending_halt(in, stall(in), csr_pipe_flush(in))
    BY <2>1 DEF pending_halt, controller_run, Special
  <2>3. QED
    BY <2>1, <2>2 DEF id_wb_pending, New, Ready, id_in_ready, halt_if
<1>11. QED
  BY <1>2, <1>3, <1>4, <1>5, <1>6, <1>8, <1>9, <1>10

-----------------------------------------------------------------------------
(* Accesses. *)

\* An instruction that is not in its first cycle executes.
LEMMA MultiExecutes ==
  ASSUME IInv, Supported, NEW in \in Inputs, id_fsm = "MULTI_CYCLE"
  PROVE  instr_executing(in) /\ ~exc_req_d
<1>1. /\ instr_valid /\ controller_run /\ ~mem_in_wb /\ ~instr.fetch_err
      /\ instr.kind \in AccessType \cup {"muldiv", "alu_multi", "jump", "branch_taken"}
  BY DEF IInv, Multi, controller_run
<1>2. ~exc_req_d
  BY <1>1 DEF exc_req_d, Is, illegal_insn_d, illegal_insn_o, instr_fetch_err, AccessType
<1>3. ~lsu_err_q
  BY <1>1 DEF IInv, InFlight, controller_run
<1>4. ~outstanding_memory_access(in) /\ (WritebackStage => in.resp = "none")
  BY <1>1, Answers
<1>5. ~stall_ld_hz
  BY <1>1 DEF stall_ld_hz, outstanding_load_wb, mem_in_wb
<1>6. QED
  BY <1>1, <1>2, <1>3, <1>4, <1>5, Answers
  DEF instr_executing, instr_executing_spec, wb_exception, id_exception

\* The instruction an access belongs to.
LEMMA Requesting ==
  ASSUME IInv, Supported, NEW in \in Inputs, lsu_req(in) \/ lsu_busy
  PROVE  /\ controller_run /\ instr_valid /\ lsu_req_dec /\ instr_executing(in)
         /\ ready_wb(in) /\ ~Special(in)
         /\ lsu_owed # "none" => WritebackStage /\ in.resp # "none"
         /\ ~WritebackStage => in.resp = "none" /\ (~lsu_busy => first_cycle)
<1>1. instr_executing(in) /\ lsu_req_dec
  BY MultiExecutes DEF IInv, AccessOwned, lsu_req
<1>2. controller_run /\ instr_valid /\ ready_wb(in) /\ ~instr.fetch_err
      /\ ~(WritebackStage /\ in.resp = "error")
  BY <1>1, Leaving
<1>3. ~WritebackStage => lsu_owed = "none" /\ (~lsu_busy => first_cycle)
  BY DEF IInv, InFlight, lsu_req, data_req_allowed, first_cycle
<1>4. ~WritebackStage => in.resp = "none"
  BY <1>3, Answers DEF AccessType
<1>5. lsu_owed # "none" => WritebackStage /\ in.resp # "none"
  BY <1>2, <1>3, Answers DEF IInv, AccessOwned, mem_in_wb
<1>6. ~exc_req_lsu(in)
  BY <1>2, <1>4, Answers
<1>7. ~Special(in)
  BY <1>1, <1>2, <1>6
  DEF Special, special_req, Is, csr_pipe_flush, exc_req_d, illegal_insn_d, illegal_insn_o,
      instr_fetch_err, lsu_req_dec, AccessType
<1>8. QED
  BY <1>1, <1>2, <1>3, <1>4, <1>5, <1>7

\* What the port of the load/store unit does in a cycle.
LEMMA PortStep ==
  ASSUME IInv, Supported, NEW in \in Inputs, Cycle(in)
  PROVE  /\ lsu_busy' = ((lsu_req(in) \/ lsu_busy) /\ ~in.done)
         /\ lsu_req_done(in) <=> (lsu_req(in) \/ lsu_busy) /\ in.done
         /\ lsu_owed' = IF lsu_req_done(in) THEN instr.kind
                        ELSE IF in.resp = "none" THEN lsu_owed ELSE "none"
         /\ lsu_owed' \in AccessType \cup {"none"}
<1>1. /\ lsu_busy \in BOOLEAN /\ lsu_owed \in {"none", "load", "store"}
      /\ in.done \in BOOLEAN /\ in.resp \in Response
  BY InputFields DEF IInv, TypeOK, Owed, AccessType
<1>2. PortCycle(lsu_req(in), instr.kind, lsu_req_done(in), in.resp)
  BY DEF Cycle
<1>3. lsu_req_done(in) <=> (lsu_req(in) \/ lsu_busy) /\ in.done
  BY <1>1 DEF lsu_req_done
<1>4. lsu_req_done(in) => instr.kind \in AccessType /\ (lsu_owed = "none" \/ in.resp # "none")
  BY <1>3, Requesting DEF lsu_req_dec
<1>5. lsu_req(in) \in BOOLEAN
  BY DEF lsu_req
<1>6. lsu_busy' = ((lsu_req(in) \/ lsu_busy) /\ ~in.done)
  BY <1>1, <1>2, <1>3, <1>5 DEF PortCycle
<1>7. lsu_owed' = IF lsu_req_done(in) THEN instr.kind
                  ELSE IF in.resp = "none" THEN lsu_owed ELSE "none"
  BY <1>1, <1>2, <1>3, <1>4 DEF PortCycle
<1>8. lsu_owed' \in AccessType \cup {"none"}
  BY <1>1, <1>4, <1>7 DEF AccessType
<1>9. QED
  BY <1>3, <1>6, <1>7, <1>8

\* The instruction in WB.
LEMMA WbStep ==
  ASSUME IInv, Supported, NEW in \in Inputs, Cycle(in)
  PROVE  /\ wb_valid' \in BOOLEAN
         /\ ~WritebackStage => ~wb_valid' /\ wb_type' = wb_type /\ wb_pc' = wb_pc
         /\ WritebackStage /\ instr_id_done(in) =>
              wb_valid' /\ wb_type' = instr_type_wb /\ wb_pc' = pc_id
         /\ ~instr_id_done(in) => (wb_valid' => wb_valid /\ ~wb_done(in))
         /\ WritebackStage /\ ~instr_id_done(in) =>
              /\ wb_valid' <=> wb_valid /\ ~wb_done(in)
              /\ wb_type' = wb_type /\ wb_pc' = wb_pc
<1>1. instr_id_done(in) => ready_wb(in)
  BY Leaving
<1>2. en_wb(in) <=> instr_id_done(in)
  BY Leaving DEF en_wb, instr_id_done, instr_done
<1>3. WbCycle(in, en_wb(in), instr_type_wb)
  BY DEF Cycle
<1>4. WritebackStage \in BOOLEAN
  BY Builds DEF IInv
<1>5. /\ wb_valid' = (WritebackStage /\ ((en_wb(in) /\ ready_wb(in)) \/ (wb_valid /\ ~wb_done(in))))
      /\ IF WritebackStage /\ en_wb(in)
           THEN wb_type' = instr_type_wb /\ wb_pc' = pc_id
           ELSE wb_type' = wb_type /\ wb_pc' = wb_pc
  BY <1>3 DEF WbCycle
<1>6. QED
  BY <1>1, <1>2, <1>4, <1>5

\* The load or store in WB.
LEMMA MemStep ==
  ASSUME IInv, Supported, NEW in \in Inputs, Cycle(in)
  PROVE  /\ instr_id_done(in) => (mem_in_wb' <=> WritebackStage /\ lsu_req_dec)
         /\ ~instr_id_done(in) =>
              /\ mem_in_wb' <=> mem_in_wb /\ in.resp = "none"
              /\ wb_type' = wb_type /\ wb_pc' = wb_pc
         /\ WritebackStage /\ lsu_req_dec => (instr_id_done(in) <=> lsu_req_done(in))
<1>1. mem_in_wb' <=> wb_valid' /\ wb_type' # "other"
  BY DEF mem_in_wb
<1>2. instr_type_wb # "other" <=> lsu_req_dec
  BY DEF instr_type_wb, lsu_req_dec, AccessType
<1>3. wb_valid /\ ~wb_done(in) <=> mem_in_wb /\ in.resp = "none"
  BY DEF IInv, TypeOK, wb_done, lsu_resp_valid, mem_in_wb
<1>4. mem_in_wb => WritebackStage
  BY DEF IInv, NoStage, mem_in_wb
<1>5. instr_id_done(in) => (mem_in_wb' <=> WritebackStage /\ lsu_req_dec)
  BY <1>1, <1>2, WbStep
<1>6. ~instr_id_done(in) => /\ mem_in_wb' <=> mem_in_wb /\ in.resp = "none"
                            /\ wb_type' = wb_type /\ wb_pc' = wb_pc
  BY <1>1, <1>3, <1>4, WbStep DEF mem_in_wb
<1>7. ASSUME WritebackStage, lsu_req_dec
      PROVE  instr_id_done(in) <=> lsu_req_done(in)
  <2>1. instr_id_done(in) => lsu_req_done(in)
    BY <1>7, Leaving DEF stall, stall_id, stall_mem
  <2>2. ASSUME lsu_req_done(in)
        PROVE  instr_id_done(in)
    <3>1. instr_executing(in) /\ ready_wb(in) /\ instr_valid
      BY <2>2, PortStep, Requesting
    <3>2. ~stall_ld_hz
      BY <3>1 DEF instr_executing, instr_executing_spec
    <3>3. ~stall_mem(in)
      BY <1>7, <2>2, <3>1, Answers DEF stall_mem
    <3>4. ~stall_fsm(in)
      BY <1>7 DEF stall_fsm, lsu_req_dec, multdiv_en_dec, jump_in_dec, branch_in_dec, AccessType
    <3>5. ~stall(in)
      BY <3>1, <3>2, <3>3, <3>4 DEF stall, stall_id, stall_wb
    <3>6. QED
      BY <3>1, <3>5, Leaving
  <2>3. QED
    BY <2>1, <2>2
<1>8. QED
  BY <1>5, <1>6, <1>7

-----------------------------------------------------------------------------
(* Each part of the invariant is kept. *)

\* The registers have their types.
LEMMA TypeKept ==
  ASSUME IInv, Supported, NEW in \in Inputs, Cycle(in)
  PROVE  TypeOK'
<1>. USE DEF IInv, TypeOK
<1>1. config' \in Configurations
  BY DEF Cycle
<1>2. pc_id' \in Pc /\ wb_pc' \in Pc
  BY IfStep, WbStep, MemStep
<1>3. pc_if' \in Pc
  <2>1. NextPc(pc_if) \in Pc
    BY Addresses
  <2>2. targets(in) \subseteq Pc
    BY Addresses, InstrFields DEF targets, branch_target, redirect, FixedPc
  <2>3. QED
    BY <2>1, <2>2, IfStep
<1>4. instr_valid' \in BOOLEAN /\ instr' \in Instrs \cup {NoInstr}
  BY IfStep
<1>5. lsu_busy' \in BOOLEAN
  BY PortStep
<1>6. lsu_owed' \in Owed \ {"both"}
  BY PortStep DEF Owed, AccessType
<1>7. wb_valid' \in BOOLEAN
  BY WbStep
<1>8. wb_type' \in WbType
  BY WbStep, MemStep DEF instr_type_wb, WbType, lsu_req_dec
<1>9. ctrl_fsm' \in CtrlState
  BY DEF Cycle, CtrlCycle, CtrlFsm, Boot, FallAsleep, Sleep, FirstFetch, Decode, IrqTaken,
         DbgTaken, Flush, ToState, after_flush, CtrlState
<1>10. debug_cause' \in DebugCause
  BY DEF Cycle, CtrlCycle, debug_cause_d, DebugCause
<1>11. nmi_mode' \in BOOLEAN /\ debug_mode' \in BOOLEAN
  BY DEF Cycle, CtrlCycle, CtrlFsm, Boot, FallAsleep, Sleep, FirstFetch, Decode, IrqTaken,
         DbgTaken, Flush, KeepModes
<1>12. /\ do_single_step' \in BOOLEAN /\ enter_debug_mode_prio' \in BOOLEAN
  BY InputFields DEF Cycle, CtrlCycle, do_single_step_d, enter_debug_mode_prio_d
<1>13. /\ load_err_q' \in BOOLEAN /\ store_err_q' \in BOOLEAN
       /\ exc_req' \in BOOLEAN /\ illegal_insn' \in BOOLEAN
  BY DEF Cycle, CtrlCycle, load_err, store_err, exc_req_d, illegal_insn_d
<1>14. intg_err_pending' \in BOOLEAN
  BY InputFields, Builds DEF Cycle, CtrlCycle, intg_err_clear
<1>15. dcsr' \in Dcsr /\ priv_mode' \in Priv
  <2>1. dcsr' \in Dcsr
    BY ControllerAssumption DEF Cycle, CtrlCycle
  <2>2. priv_mode' \in Priv
    BY DEF Cycle, CtrlCycle, Priv
  <2>3. QED
    BY <2>1, <2>2
<1>16. id_fsm' \in {"FIRST_CYCLE", "MULTI_CYCLE"}
  BY DEF Cycle, IdCycle
<1>17. branch_set_raw_q' \in BOOLEAN /\ branch_jump_set_done' \in BOOLEAN
  BY DEF Cycle, IdCycle, branch_set_raw_d
<1>18. offered' \in BOOLEAN /\ requested' \in BOOLEAN
  BY DEF Cycle, Observed
<1>19. stepped' \in 0 .. 2
  <2>1. Len(Retired(in)) \in Nat
    BY DEF Retired, Completed
  <2>2. stepped' = 0 \/ stepped' = MinOf(2, stepped + Len(Retired(in)) + 0)
                     \/ stepped' = MinOf(2, stepped + Len(Retired(in)) + 1)
    BY DEF Cycle, Observed
  <2>3. QED
    BY <2>1, <2>2 DEF MinOf
<1>20. QED
  BY <1>1, <1>2, <1>3, <1>4, <1>5, <1>6, <1>7, <1>8, <1>9, <1>10, <1>11, <1>12, <1>13,
     <1>14, <1>15, <1>16, <1>17, <1>18, <1>19

\* An instruction that stalls, and whatever a special request retains, stays in ID.
LEMMA Staying ==
  ASSUME IInv, Supported, NEW in \in Inputs, Cycle(in), controller_run,
         stall(in) \/ Special(in)
  PROVE  /\ ~New(in) /\ instr_valid' = instr_valid /\ pc_id' = pc_id
         /\ instr_valid => instr' = instr
         /\ stall(in) /\ ~Special(in) => ctrl_fsm' = "DECODE"
<1>1. ~New(in)
  BY IfStep, DecodeStep DEF IInv
<1>2. ~Clear(in)
  BY DecodeStep
<1>3. instr_valid' = instr_valid /\ pc_id' = pc_id /\ (instr_valid => instr' = instr)
  BY <1>1, <1>2, IfStep, Zenon DEF IInv, TypeOK
<1>4. stall(in) /\ ~Special(in) => ctrl_fsm' = "DECODE"
  BY DEF Cycle, CtrlCycle, CtrlFsm, Boot, FallAsleep, Sleep, FirstFetch, IrqTaken, DbgTaken,
         Flush, Decode, ToState, controller_run, Special
<1>5. QED
  BY <1>1, <1>3, <1>4

\* Without a writeback stage an access that is not answered holds its instruction.
LEMMA Holding ==
  ASSUME IInv, Supported, NEW in \in Inputs, Cycle(in), ~WritebackStage, lsu_owed' # "none"
  PROVE  /\ controller_run /\ instr_valid /\ lsu_req_dec /\ instr.kind = lsu_owed'
         /\ stall(in) /\ ~Special(in) /\ in.resp = "none" /\ instr_executing(in)
<1>1. CASE lsu_req_done(in)
  <2>1. lsu_req(in) \/ lsu_busy
    BY <1>1, PortStep
  <2>2. controller_run /\ instr_valid /\ lsu_req_dec /\ in.resp = "none" /\ ~Special(in)
      /\ instr_executing(in)
    BY <2>1, Requesting
  <2>3. stall(in)
    BY <2>2 DEF stall, stall_id, stall_mem, lsu_resp_valid
  <2>4. QED
    BY <1>1, <2>2, <2>3, PortStep
<1>2. CASE ~lsu_req_done(in)
  <2>1. in.resp = "none" /\ lsu_owed' = lsu_owed
    BY <1>2, PortStep
  <2>2. instr_valid /\ instr.kind = lsu_owed /\ controller_run /\ id_fsm = "MULTI_CYCLE"
    BY <2>1 DEF IInv, AccessOwned, InFlight, controller_run
  <2>3. lsu_req_dec
    BY <2>1, <2>2 DEF IInv, TypeOK, Owed, lsu_req_dec
  <2>4. stall(in)
    BY <2>1, <2>2, <2>3 DEF stall, stall_id, stall_mem, lsu_resp_valid
  <2>5. ~Special(in)
    BY <2>1, <2>2, <2>3, MultiExecutes, Answers
    DEF Special, special_req, Is, csr_pipe_flush, lsu_req_dec, AccessType
  <2>6. QED
    BY <2>1, <2>2, <2>3, <2>4, <2>5, MultiExecutes
<1>3. QED
  BY <1>1, <1>2

\* An access that is in flight belongs to an instruction in ID or WB.
LEMMA AccessKept ==
  ASSUME IInv, Supported, NEW in \in Inputs, Cycle(in)
  PROVE  AccessOwned'
<1>1. config' = config
  BY DEF Cycle
<1>2. WritebackStage' = WritebackStage
  BY <1>1 DEF WritebackStage
<1>3. ASSUME lsu_busy'
      PROVE  controller_run' /\ instr_valid' /\ lsu_req_dec' /\ id_fsm' = "MULTI_CYCLE"
  <2>1. lsu_req(in) \/ lsu_busy
    BY <1>3, PortStep
  <2>2. ~in.done /\ ~lsu_req_done(in)
    BY <1>3, PortStep
  <2>3. /\ controller_run /\ instr_valid /\ lsu_req_dec /\ instr_executing(in)
        /\ ~Special(in) /\ (~WritebackStage => in.resp = "none")
    BY <2>1, Requesting
  <2>4. stall(in)
    BY <2>2, <2>3 DEF stall, stall_id, stall_mem, lsu_resp_valid
  <2>5. instr_valid' /\ instr' = instr /\ ctrl_fsm' = "DECODE"
    BY <2>3, <2>4, Staying
  <2>6. stays(in) /\ ~leaves_multi(in)
    BY <2>2, <2>3 DEF stays, leaves_multi, multicycle_done, lsu_resp_valid
  <2>7. id_fsm' = "MULTI_CYCLE"
    BY <2>3, <2>6 DEF Cycle, IdCycle
  <2>8. QED
    BY <2>3, <2>5, <2>7 DEF controller_run, lsu_req_dec
<1>4. ASSUME WritebackStage
      PROVE  lsu_owed' = IF mem_in_wb' THEN wb_type' ELSE "none"
  <2>1. lsu_owed = IF mem_in_wb THEN wb_type ELSE "none"
    BY <1>4 DEF IInv, AccessOwned, mem_in_wb
  <2>2. CASE lsu_req_done(in)
    <3>1. lsu_req_dec
      BY <2>2, PortStep, Requesting
    <3>2. instr_id_done(in)
      BY <1>4, <2>2, <3>1, MemStep
    <3>3. mem_in_wb' /\ wb_type' = instr.kind
      BY <1>4, <3>1, <3>2, MemStep, WbStep DEF instr_type_wb
    <3>4. QED
      BY <2>2, <3>3, PortStep
  <2>3. CASE ~lsu_req_done(in) /\ instr_id_done(in)
    <3>1. ~mem_in_wb'
      BY <1>4, <2>3, MemStep
    <3>2. lsu_owed' = "none"
      BY <2>1, <2>3, PortStep, Leaving, Answers
    <3>3. QED
      BY <3>1, <3>2
  <2>4. CASE ~lsu_req_done(in) /\ ~instr_id_done(in)
    BY <2>1, <2>4, PortStep, MemStep
  <2>5. QED
    BY <2>2, <2>3, <2>4
<1>5. ASSUME ~WritebackStage, lsu_owed' # "none"
      PROVE  instr_valid' /\ instr'.kind = lsu_owed'
  BY <1>5, Holding, Staying
<1>6. QED
  BY <1>2, <1>3, <1>4, <1>5 DEF AccessOwned, mem_in_wb

\* The build does not change.
LEMMA ConfigKept ==
  ASSUME NEW in, Cycle(in)
  PROVE  /\ WritebackStage' = WritebackStage /\ BranchTargetALU' = BranchTargetALU
         /\ DbgTriggerEn' = DbgTriggerEn /\ MemECC' = MemECC
<1>1. config' = config
  BY DEF Cycle
<1>2. QED
  BY <1>1 DEF WritebackStage, BranchTargetALU, DbgTriggerEn, MemECC

\* Without a writeback stage nothing gets into it.
LEMMA NoStageKept ==
  ASSUME IInv, Supported, NEW in \in Inputs, Cycle(in)
  PROVE  NoStage'
  BY ConfigKept, WbStep DEF NoStage

\* Where the controller goes from the other states.
LEMMA QuietGoes ==
  ASSUME IInv, Supported, NEW in \in Inputs, Cycle(in), ~controller_run
  PROVE  /\ ctrl_fsm' # "FLUSH"
         /\ New(in) => ctrl_fsm' = "DECODE"
<1>1. CtrlFsm(in, stall(in), csr_pipe_flush(in))
  BY DEF Cycle, CtrlCycle
<1>2. ctrl_fsm' # "FLUSH"
  BY <1>1 DEF CtrlFsm, Boot, FallAsleep, Sleep, FirstFetch, IrqTaken, DbgTaken, Flush, Decode,
              ToState, after_flush, controller_run
<1>3. ASSUME New(in)
      PROVE  ctrl_fsm' = "DECODE"
  <2>1. ctrl_fsm \in {"FIRST_FETCH", "IRQ_TAKEN"} /\ Ready(in)
    BY <1>3, Arrival DEF controller_run, New
  <2>2. CASE ctrl_fsm = "IRQ_TAKEN"
    BY <1>1, <2>2
    DEF CtrlFsm, Boot, FallAsleep, Sleep, FirstFetch, IrqTaken, DbgTaken, Flush, Decode, ToState
  <2>3. CASE ctrl_fsm = "FIRST_FETCH"
    <3>1. FirstFetch(in, stall(in), csr_pipe_flush(in))
      BY <1>1, <2>3
      DEF CtrlFsm, Boot, FallAsleep, Sleep, IrqTaken, DbgTaken, Flush, Decode
    <3>2. ~enter_debug_mode(in) /\ ~handle_irq(in)
      BY <2>1, <2>3 DEF Ready, id_in_ready, halt_if, pending_halt
    <3>3. QED
      BY <2>1, <3>1, <3>2 DEF FirstFetch, ToState, Ready
  <2>4. QED
    BY <2>1, <2>2, <2>3
<1>4. QED
  BY <1>2, <1>3

\* What is in the pipeline in which state of the controller.
LEMMA InFlightKept ==
  ASSUME IInv, Supported, NEW in \in Inputs, Cycle(in)
  PROVE  InFlight'
<1>. USE ConfigKept
<1>1. instr_valid' => ctrl_fsm' \in {"DECODE", "FLUSH"}
  <2>1. CASE controller_run
    BY <2>1, DecodeStep, IfStep DEF IInv
  <2>2. CASE ~controller_run
    BY <2>2, QuietStep, QuietGoes
  <2>3. QED
    BY <2>1, <2>2
<1>2. mem_in_wb' => ctrl_fsm' = "DECODE"
  <2>1. SUFFICES ASSUME mem_in_wb'
                 PROVE  ctrl_fsm' = "DECODE"
    OBVIOUS
  <2>2. controller_run
    BY <2>1, QuietStep DEF mem_in_wb
  <2>3. CASE instr_id_done(in)
    <3>1. lsu_req_done(in)
      BY <2>1, <2>3, MemStep
    <3>2. instr_valid /\ ~Special(in)
      BY <3>1, PortStep, Requesting
    <3>3. QED
      BY <2>2, <3>2, DecodeStep
  <2>4. CASE ~instr_id_done(in)
    <3>1. mem_in_wb /\ in.resp = "none"
      BY <2>1, <2>4, MemStep
    <3>2. ~ready_wb(in) /\ ~wb_exception(in)
      BY <2>2, <3>1, Answers DEF wb_exception, IInv, InFlight, controller_run
    <3>3. QED
      BY <2>2, <3>2, DecodeStep
  <2>5. QED
    BY <2>3, <2>4
<1>3. lsu_busy' => ctrl_fsm' = "DECODE"
  BY AccessKept DEF AccessOwned, controller_run
<1>4. lsu_owed' # "none" => ctrl_fsm' = "DECODE"
  <2>1. CASE WritebackStage
    BY <2>1, <1>2, AccessKept DEF AccessOwned, mem_in_wb
  <2>2. CASE ~WritebackStage
    BY <2>2, Holding, Staying
  <2>3. QED
    BY <2>1, <2>2
<1>5. ASSUME lsu_err_q'
      PROVE  /\ ctrl_fsm' = "FLUSH"
             /\ ~WritebackStage' => instr_valid' /\ lsu_req_dec' /\ ~instr.fetch_err'
  <2>1. in.resp = "error"
    BY <1>5 DEF lsu_err_q, Cycle, CtrlCycle, load_err, store_err
  <2>2. controller_run /\ Special(in) /\ ready_wb(in)
    BY <2>1, Answers DEF Special, special_req
  <2>3. ~WritebackStage => instr_valid /\ lsu_req_dec /\ ~instr.fetch_err
    BY <2>1, Answers DEF lsu_req_dec, IInv, Multi, TypeOK, first_cycle
  <2>4. QED
    BY <2>2, <2>3, DecodeStep, Staying DEF lsu_req_dec
<1>6. lsu_busy' => lsu_owed' = "none"
  BY PortStep, Requesting
<1>7. ASSUME lsu_owed' # "none", ~WritebackStage
      PROVE  id_fsm' = "MULTI_CYCLE"
  <2>1. lsu_req_dec /\ in.resp = "none" /\ instr_executing(in)
    BY <1>7, Holding
  <2>2. stays(in) /\ ~leaves_multi(in)
    BY <1>7, <2>1 DEF stays, leaves_multi, multicycle_done, lsu_resp_valid
  <2>3. QED
    BY <2>1, <2>2 DEF Cycle, IdCycle
<1>8. QED
  BY <1>1, <1>2, <1>3, <1>4, <1>5, <1>6, <1>7 DEF InFlight

\* An instruction that goes on for another cycle stalls and stays.
LEMMA Continuing ==
  ASSUME IInv, Supported, NEW in \in Inputs, Cycle(in), id_fsm' = "MULTI_CYCLE"
  PROVE  /\ controller_run /\ instr_executing(in) /\ stall(in) /\ ~Special(in)
         /\ first_cycle => stays(in)
         /\ ~first_cycle => ~leaves_multi(in)
<1>1. controller_run
  BY QuietStep
<1>2. instr_executing(in) /\ IF first_cycle THEN stays(in) ELSE ~leaves_multi(in)
  <2>1. CASE first_cycle
    BY <2>1 DEF Cycle, IdCycle, first_cycle
  <2>2. CASE ~first_cycle
    BY <2>2, MultiExecutes DEF Cycle, IdCycle, first_cycle, IInv, TypeOK
  <2>3. QED
    BY <2>1, <2>2
<1>3. /\ instr_valid /\ ready_wb(in) /\ ~instr.fetch_err /\ instr_executing_spec
      /\ ~(WritebackStage /\ in.resp = "error")
  BY <1>2, Leaving DEF instr_executing
<1>4. CASE lsu_req_dec
  <2>1. IF WritebackStage THEN ~lsu_req_done(in) ELSE ~lsu_resp_valid(in) \/ first_cycle
    BY <1>2, <1>3, <1>4, Answers DEF stays, leaves_multi, multicycle_done, lsu_req_dec,
       multdiv_en_dec, jump_in_dec, branch_in_dec, AccessType
  <2>2. stall(in)
    BY <1>3, <1>4, <2>1 DEF stall, stall_id, stall_mem
  <2>3. lsu_req(in) \/ lsu_busy \/ (~WritebackStage /\ lsu_owed # "none")
    <3>1. CASE first_cycle
      BY <1>2, <1>3, <1>4, <3>1, Answers DEF lsu_req, data_req_allowed
    <3>2. CASE ~first_cycle
      BY <1>4, <3>2 DEF IInv, Multi, TypeOK, first_cycle
    <3>3. QED
      BY <3>1, <3>2
  <2>4. CASE lsu_req(in) \/ lsu_busy
    BY <1>1, <1>2, <2>2, <2>4, Requesting
  <2>5. CASE ~WritebackStage /\ lsu_owed # "none"
    <3>1. ~first_cycle
      BY <2>5 DEF IInv, InFlight, first_cycle
    <3>2. in.resp = "none"
      BY <2>1, <2>5, <3>1 DEF lsu_resp_valid
    <3>3. ~exc_req_lsu(in) /\ ~exc_req_d
      BY <3>1, <3>2, Answers, MultiExecutes DEF IInv, TypeOK, first_cycle
    <3>4. ~Special(in)
      BY <1>4, <3>3 DEF Special, special_req, Is, csr_pipe_flush, lsu_req_dec, AccessType
    <3>5. QED
      BY <1>1, <1>2, <2>2, <3>4
  <2>6. QED
    BY <2>3, <2>4, <2>5
<1>5. CASE ~lsu_req_dec
  <2>1. stall_fsm(in)
    BY <1>2, <1>3, <1>5 DEF stall_fsm, leaves_multi, multicycle_done
  <2>2. instr.kind \in {"muldiv", "alu_multi", "jump", "branch_taken"}
    <3>1. CASE first_cycle
      BY <1>2, <1>5, <3>1 DEF stays, multdiv_en_dec, jump_in_dec, branch_in_dec, branch_decision
    <3>2. CASE ~first_cycle
      BY <1>5, <3>2 DEF IInv, Multi, TypeOK, first_cycle, lsu_req_dec
    <3>3. QED
      BY <3>1, <3>2
  <2>3. ~exc_req_lsu(in)
    BY <1>3, <1>5, Answers DEF lsu_req_dec
  <2>4. ~Special(in)
    BY <1>3, <2>2, <2>3
    DEF Special, special_req, Is, csr_pipe_flush, exc_req_d, illegal_insn_d, illegal_insn_o, instr_fetch_err
  <2>5. QED
    BY <1>1, <1>2, <2>1, <2>4 DEF stall, stall_id
<1>6. QED
  BY <1>4, <1>5

\* The second state of the ID FSM has its instruction.
LEMMA MultiKept ==
  ASSUME IInv, Supported, NEW in \in Inputs, Cycle(in)
  PROVE  Multi'
<1>. USE ConfigKept
<1>1. SUFFICES ASSUME id_fsm' = "MULTI_CYCLE"
               PROVE  /\ instr_valid' /\ ctrl_fsm' = "DECODE" /\ ~mem_in_wb' /\ ~instr.fetch_err'
                      /\ instr.kind' \in AccessType \cup {"muldiv", "alu_multi", "jump", "branch_taken"}
                      /\ BranchTargetALU' => ~jump_in_dec' /\ ~branch_in_dec'
                      /\ lsu_req_dec' => lsu_busy' \/ (~WritebackStage' /\ lsu_owed' # "none")
  BY DEF Multi
<1>2. /\ controller_run /\ instr_executing(in) /\ stall(in) /\ ~Special(in)
      /\ first_cycle => stays(in)
      /\ ~first_cycle => ~leaves_multi(in)
  BY <1>1, Continuing
<1>3. instr_valid /\ ~instr.fetch_err /\ ready_wb(in)
  BY <1>2, Leaving
<1>4. instr_valid' /\ instr' = instr /\ ctrl_fsm' = "DECODE"
  BY <1>2, <1>3, Staying
<1>5. ~mem_in_wb'
  BY <1>2, <1>3, MemStep, Leaving, Answers
<1>6. /\ instr.kind \in AccessType \cup {"muldiv", "alu_multi", "jump", "branch_taken"}
      /\ BranchTargetALU => ~jump_in_dec /\ ~branch_in_dec
  <2>1. CASE first_cycle
    BY <1>2, <2>1 DEF stays, multdiv_en_dec, jump_in_dec, branch_in_dec, branch_decision,
       lsu_req_dec, AccessType
  <2>2. CASE ~first_cycle
    BY <2>2 DEF IInv, Multi, TypeOK, first_cycle
  <2>3. QED
    BY <2>1, <2>2
<1>7. ASSUME lsu_req_dec
      PROVE  lsu_busy' \/ (~WritebackStage /\ lsu_owed' # "none")
  <2>1. CASE lsu_req(in) \/ lsu_busy
    <3>1. CASE in.done
      <4>1. lsu_req_done(in)
        BY <2>1, <3>1, PortStep
      <4>2. ~WritebackStage
        BY <1>2, <1>7, <4>1, MemStep, Leaving
      <4>3. QED
        BY <1>7, <4>1, <4>2, PortStep DEF lsu_req_dec, AccessType
    <3>2. CASE ~in.done
      BY <2>1, <3>2, PortStep
    <3>3. QED
      BY <3>1, <3>2
  <2>2. CASE ~(lsu_req(in) \/ lsu_busy)
    <3>1. ~first_cycle
      BY <1>2, <1>3, <1>7, <2>2, Answers DEF lsu_req, data_req_allowed
    <3>2. ~WritebackStage /\ lsu_owed # "none"
      BY <1>7, <2>2, <3>1 DEF IInv, Multi, TypeOK, first_cycle
    <3>3. in.resp = "none"
      BY <1>2, <1>7, <3>1, <3>2, Answers DEF leaves_multi, multicycle_done, lsu_resp_valid
    <3>4. QED
      BY <2>2, <3>2, <3>3, PortStep
  <2>3. QED
    BY <2>1, <2>2
<1>8. QED
  BY <1>3, <1>4, <1>5, <1>6, <1>7 DEF jump_in_dec, branch_in_dec, lsu_req_dec

\* An instruction that is done leaves; a special one stays to be flushed.
LEMMA Departing ==
  ASSUME IInv, Supported, NEW in \in Inputs, Cycle(in), controller_run, ~New(in)
  PROVE  instr_valid' <=> instr_valid /\ (stall(in) \/ Special(in))
  BY DecodeStep, IfStep DEF IInv

\* A jump or branch sets the PC to its target.
LEMMA Setting ==
  ASSUME IInv, Supported, NEW in \in Inputs, Cycle(in), controller_run
  PROVE  /\ pc_set(in) => /\ instr_valid /\ ~instr.fetch_err /\ pc_if' = instr.target
                          /\ instr.kind \in {"jump", "branch_taken"}
                          /\ ~New(in) /\ ~branch_jump_set_done
         /\ branch_set_raw \/ jump_set_raw => pc_set(in) \/ branch_jump_set_done
         /\ branch_jump_set_done' <=>
              (pc_set(in) \/ branch_jump_set_done) /\ (stall(in) \/ Special(in))
<1>1. pc_set(in) <=> branch_set \/ jump_set
  BY DecodeStep
<1>2. ASSUME pc_set(in)
      PROVE  /\ instr_valid /\ ~instr.fetch_err /\ branch_target = {instr.target}
             /\ instr.kind \in {"jump", "branch_taken"}
  <2>1. CASE jump_set
    BY <2>1 DEF jump_set, jump_set_raw, jump_in_dec, branch_in_dec, instr_executing_spec, branch_target
  <2>2. CASE branch_set /\ BranchTargetALU
    BY <2>2 DEF branch_set, branch_set_raw, branch_set_raw_d, branch_in_dec, branch_decision,
                instr_executing_spec, branch_target
  <2>3. CASE branch_set /\ ~BranchTargetALU
    <3>1. id_fsm = "MULTI_CYCLE" /\ branch_decision
      BY <2>3 DEF branch_set, branch_set_raw, IInv, Branching
    <3>2. QED
      BY <3>1 DEF IInv, Multi, branch_decision, branch_target, first_cycle
  <2>4. QED
    BY <1>1, <1>2, <2>1, <2>2, <2>3
<1>3. pc_set(in) => pc_if' = instr.target /\ ~New(in)
  BY <1>2, IfStep, DecodeStep DEF IInv
<1>4. pc_set(in) => ~branch_jump_set_done
  BY <1>1 DEF branch_set, jump_set
<1>5. branch_set_raw \/ jump_set_raw => pc_set(in) \/ branch_jump_set_done
  BY <1>1 DEF branch_set, jump_set
<1>6. branch_jump_set_done' <=> (branch_set_raw \/ jump_set_raw \/ branch_jump_set_done) /\ ~Clear(in)
  BY DEF Cycle, IdCycle, Clear
<1>7. branch_jump_set_done' <=>
        (pc_set(in) \/ branch_jump_set_done) /\ (stall(in) \/ Special(in))
  BY <1>1, <1>5, <1>6, DecodeStep DEF branch_set, jump_set
<1>8. QED
  BY <1>2, <1>3, <1>4, <1>5, <1>7

\* Instructions in the pipeline follow each other.
LEMMA FetchingKept ==
  ASSUME IInv, Supported, NEW in \in Inputs, Cycle(in)
  PROVE  Fetching'
<1>1. CASE ~controller_run
  <2>1. ~branch_jump_set_done' /\ ~mem_in_wb'
    BY <1>1, QuietStep DEF mem_in_wb
  <2>2. instr_valid' => pc_if' = NextPc(pc_id')
    BY <1>1, QuietStep, IfStep DEF IInv
  <2>3. QED
    BY <2>1, <2>2 DEF Fetching, NextPc
<1>2. CASE controller_run
  <2>1. /\ branch_jump_set_done => /\ instr_valid /\ instr.kind \in {"jump", "branch_taken"}
                                   /\ ~instr.fetch_err /\ pc_if = instr.target
        /\ instr_valid /\ ~branch_jump_set_done => pc_if = NextPc(pc_id)
        /\ mem_in_wb => NextPc(wb_pc) = IF instr_valid THEN pc_id ELSE pc_if
    BY <1>2 DEF IInv, Fetching
  <2>2. ASSUME branch_jump_set_done'
        PROVE  /\ instr_valid' /\ instr.kind' \in {"jump", "branch_taken"} /\ ~instr.fetch_err'
               /\ pc_if' = instr.target'
    <3>1. stall(in) \/ Special(in)
      BY <1>2, <2>2, Setting
    <3>2. /\ instr_valid /\ instr.kind \in {"jump", "branch_taken"} /\ ~instr.fetch_err
          /\ pc_if' = instr.target
      BY <1>2, <2>1, <2>2, <3>1, Setting, Staying, IfStep DEF IInv
    <3>3. QED
      BY <1>2, <3>1, <3>2, Staying
  <2>3. ASSUME instr_valid', ~branch_jump_set_done'
        PROVE  pc_if' = NextPc(pc_id')
    <3>1. CASE New(in)
      BY <3>1, IfStep DEF IInv
    <3>2. CASE ~New(in)
      <4>1. instr_valid /\ (stall(in) \/ Special(in))
        BY <1>2, <2>3, <3>2, Departing
      <4>2. ~pc_set(in) /\ ~branch_jump_set_done
        BY <1>2, <2>3, <4>1, Setting
      <4>3. QED
        BY <2>1, <3>2, <4>1, <4>2, IfStep DEF IInv
    <3>3. QED
      BY <3>1, <3>2
  <2>4. ASSUME mem_in_wb'
        PROVE  NextPc(wb_pc') = IF instr_valid' THEN pc_id' ELSE pc_if'
    <3>1. CASE instr_id_done(in)
      <4>1. lsu_req_done(in) /\ WritebackStage /\ lsu_req_dec
        BY <2>4, <3>1, MemStep
      <4>2. wb_pc' = pc_id
        BY <3>1, <4>1, WbStep
      <4>3. instr_valid /\ ~stall(in) /\ ~Special(in)
        BY <3>1, <4>1, PortStep, Requesting, Leaving
      <4>4. ~pc_set(in) /\ ~branch_jump_set_done
        BY <1>2, <2>1, <4>1, Setting DEF lsu_req_dec, AccessType
      <4>5. NextPc(wb_pc') = pc_if
        BY <2>1, <4>2, <4>3, <4>4
      <4>6. CASE New(in)
        BY <4>5, <4>6, IfStep DEF IInv
      <4>7. CASE ~New(in)
        BY <1>2, <4>3, <4>4, <4>5, <4>7, IfStep, Departing DEF IInv
      <4>8. QED
        BY <4>6, <4>7
    <3>2. CASE ~instr_id_done(in)
      <4>1. mem_in_wb /\ wb_pc' = wb_pc
        BY <2>4, <3>2, MemStep
      <4>2. CASE instr_valid
        <5>1. stall(in) \/ Special(in)
          BY <1>2, <3>2, <4>2, Leaving
        <5>2. QED
          BY <1>2, <2>1, <4>1, <4>2, <5>1, Staying
      <4>3. CASE ~instr_valid
        BY <1>2, <2>1, <4>1, <4>3, Setting, IfStep DEF IInv
      <4>4. QED
        BY <4>2, <4>3
    <3>3. QED
      BY <3>1, <3>2
  <2>5. QED
    BY <2>2, <2>3, <2>4 DEF Fetching, NextPc
<1>3. QED
  BY <1>1, <1>2

\* Jumps and branches that need two cycles set the PC once.
LEMMA BranchingKept ==
  ASSUME IInv, Supported, NEW in \in Inputs, Cycle(in)
  PROVE  Branching'
<1>. SUFFICES ASSUME ~BranchTargetALU
              PROVE  Branching'
  BY ConfigKept DEF Branching
<1>1. ~WritebackStage
  BY Builds DEF IInv
<1>2. CASE ~controller_run
  BY <1>2, QuietStep DEF Branching
<1>3. CASE controller_run
  <2>1. id_fsm' = "MULTI_CYCLE" =>
          /\ instr_valid' /\ instr' = instr /\ stall(in) /\ ~Special(in)
          /\ instr_executing_spec /\ (first_cycle => stays(in)) /\ (~first_cycle => ~leaves_multi(in))
    BY <1>3, Continuing, Staying, Leaving DEF instr_executing
  <2>2. jump_in_dec \/ branch_in_dec => ~lsu_req_dec /\ ~multdiv_en_dec
    BY DEF jump_in_dec, branch_in_dec, lsu_req_dec, multdiv_en_dec, AccessType
  <2>3. ready_wb(in)
    BY <1>1, Answers
  <2>4. jump_in_dec \/ branch_in_dec => leaves_multi(in)
    BY <2>2, <2>3 DEF leaves_multi, multicycle_done
  <2>5. ASSUME branch_set_raw_q'
        PROVE  id_fsm' = "MULTI_CYCLE" /\ branch_decision'
    <3>1. instr_executing_spec /\ first_cycle /\ branch_in_dec /\ branch_decision
      BY <2>5 DEF Cycle, IdCycle, branch_set_raw_d
    <3>2. instr_executing(in) /\ stays(in)
      BY <1>1, <3>1 DEF instr_executing, stays
    <3>3. id_fsm' = "MULTI_CYCLE"
      BY <3>1, <3>2 DEF Cycle, IdCycle
    <3>4. QED
      BY <2>1, <3>1, <3>3 DEF branch_decision
  <2>6. ASSUME id_fsm' = "MULTI_CYCLE"
        PROVE  /\ branch_decision' => branch_set_raw_q' /\ ~branch_jump_set_done'
               /\ jump_in_dec' => branch_jump_set_done'
    <3>1. (jump_in_dec' <=> jump_in_dec) /\ (branch_decision' <=> branch_decision)
      BY <2>1, <2>6 DEF jump_in_dec, branch_decision
    <3>2. jump_in_dec \/ branch_decision => first_cycle
      BY <2>1, <2>4, <2>6 DEF branch_in_dec, branch_decision
    <3>3. branch_decision => branch_set_raw_q'
      BY <2>1, <2>6, <3>2 DEF Cycle, IdCycle, branch_set_raw_d, branch_in_dec, branch_decision
    <3>4. branch_decision => ~branch_jump_set_done'
      <4>1. SUFFICES ASSUME branch_decision
                     PROVE  ~branch_jump_set_done /\ ~pc_set(in)
        BY <1>3, Setting
      <4>2. ~branch_jump_set_done /\ ~branch_set_raw_q
        BY <3>2, <4>1 DEF IInv, Branching, first_cycle
      <4>3. ~branch_set /\ ~jump_set
        BY <4>1, <4>2 DEF branch_set, branch_set_raw, jump_set, jump_set_raw, jump_in_dec, branch_decision
      <4>4. QED
        BY <1>3, <4>2, <4>3, DecodeStep
    <3>5. jump_in_dec => branch_jump_set_done'
      <4>1. jump_in_dec => jump_set_raw
        BY <2>1, <2>6, <3>2 DEF jump_set_raw
      <4>2. QED
        BY <1>3, <2>1, <2>6, <4>1, Setting
    <3>6. QED
      BY <3>1, <3>3, <3>4, <3>5
  <2>7. ASSUME branch_jump_set_done', id_fsm' = "FIRST_CYCLE"
        PROVE  FALSE
    <3>1. (pc_set(in) \/ branch_jump_set_done) /\ (stall(in) \/ Special(in))
      BY <1>3, <2>7, Setting
    <3>2. /\ instr_valid /\ ~instr.fetch_err /\ instr.kind \in {"jump", "branch_taken"}
      BY <1>3, <3>1, Setting DEF IInv, Fetching
    <3>3. jump_in_dec \/ (branch_in_dec /\ branch_decision)
      BY <3>2 DEF jump_in_dec, branch_in_dec, branch_decision
    <3>4. instr_executing_spec /\ instr_executing(in)
      BY <1>1, <1>3, <3>2 DEF instr_executing, instr_executing_spec, stall_ld_hz
    <3>5. ~first_cycle
      BY <2>7, <3>3, <3>4 DEF Cycle, IdCycle, stays
    <3>6. ~stall(in)
      BY <1>1, <2>2, <2>4, <3>3, <3>4, <3>5
      DEF stall, stall_id, stall_ld_hz, stall_mem, stall_fsm, stall_wb
    <3>7. ~Special(in)
      BY <1>1, <3>2, <3>3, Answers, <2>2
      DEF Special, special_req, Is, csr_pipe_flush, exc_req_d, illegal_insn_d, illegal_insn_o,
          instr_fetch_err, lsu_req_dec
    <3>8. QED
      BY <3>1, <3>6, <3>7
  <2>8. first_cycle' => id_fsm' = "FIRST_CYCLE"
    BY DEF first_cycle
  <2>9. QED
    BY <2>5, <2>6, <2>7, <2>8 DEF Branching
<1>4. QED
  BY <1>2, <1>3

\* A flush knows its reason.
LEMMA FlushingKept ==
  ASSUME IInv, Supported, NEW in \in Inputs, Cycle(in)
  PROVE  Flushing'
<1>1. SUFFICES ASSUME ctrl_fsm' = "FLUSH"
               PROVE  /\ exc_req' <=> Is("ecall")' \/ Is("ebreak")' \/ illegal_insn_o' \/ instr_fetch_err'
                      /\ illegal_insn' <=> illegal_insn_o'
                      /\ \/ takes_exception' \/ Is("mret")' \/ (Is("dret")' /\ debug_mode')
                         \/ Is("wfi")' \/ Is("csr")'
  BY DEF Flushing
<1>2. controller_run /\ Special(in)
  BY <1>1, QuietGoes, DecodeStep
<1>3. instr_valid' = instr_valid /\ (instr_valid => instr' = instr) /\ debug_mode' = debug_mode
  BY <1>2, Staying, DecodeStep
<1>3p. priv_mode' = priv_mode
  BY <1>2 DEF Cycle, CtrlCycle, csr_save_cause, csr_restore, controller_run
<1>4. /\ Is("ecall")' <=> Is("ecall")
      /\ Is("ebreak")' <=> Is("ebreak")
      /\ Is("mret")' <=> Is("mret")
      /\ Is("dret")' <=> Is("dret")
      /\ Is("wfi")' <=> Is("wfi")
      /\ Is("csr")' <=> Is("csr")
      /\ illegal_insn_o' <=> illegal_insn_o
      /\ instr_fetch_err' <=> instr_fetch_err
  BY <1>3, <1>3p DEF Is, illegal_insn_o, instr_fetch_err
<1>5. /\ exc_req' <=> Is("ecall") \/ Is("ebreak") \/ illegal_insn_o \/ instr_fetch_err
      /\ illegal_insn' <=> illegal_insn_o
  BY <1>2 DEF Cycle, CtrlCycle, exc_req_d, illegal_insn_d, controller_run
<1>6. \/ takes_exception' \/ Is("mret") \/ (Is("dret") /\ debug_mode)
      \/ Is("wfi") \/ Is("csr")
  <2>1. exc_req_d => exc_req'
    BY DEF Cycle, CtrlCycle
  <2>2. exc_req_lsu(in) => lsu_err_q'
    BY DEF Cycle, CtrlCycle, exc_req_lsu, lsu_err_q
  <2>3. Is("dret") /\ ~debug_mode => exc_req_d
    BY <1>2 DEF exc_req_d, illegal_insn_d, illegal_insn_o, controller_run
  <2>4. QED
    BY <1>2, <2>1, <2>2, <2>3 DEF Special, special_req, csr_pipe_flush, takes_exception
<1>7. QED
  BY <1>3, <1>4, <1>5, <1>6

\* Debug mode is left by dret, with nothing in flight, and entered only from outside.
LEMMA Modes ==
  ASSUME IInv, Supported, NEW in \in Inputs, Cycle(in)
  PROVE  /\ debug_mode /\ ~debug_mode' => ctrl_fsm = "FLUSH" /\ Is("dret") /\ ~takes_exception
         /\ ~debug_mode /\ debug_mode' => ctrl_fsm \in {"DBG_TAKEN_IF", "DBG_TAKEN_ID"}
         /\ ~debug_mode => dcsr' = dcsr
  BY DEF IInv, TypeOK, Cycle, CtrlCycle, CtrlFsm, Boot, FallAsleep, Sleep, FirstFetch, Decode,
         IrqTaken, DbgTaken, Flush, KeepModes

\* Interrupts and debug mode have their reasons.
LEMMA ReasonsKept ==
  ASSUME IInv, Supported, NEW in \in Inputs, Cycle(in)
  PROVE  Reasons'
<1>1. /\ do_single_step' = do_single_step_d
      /\ enter_debug_mode_prio' = enter_debug_mode_prio_d(in)
      /\ debug_cause' = debug_cause_d(in)
      /\ requested' = (HoldDebugReq /\ in.debug_req /\ ~debug_mode')
      /\ CtrlFsm(in, stall(in), csr_pipe_flush(in))
  BY DEF Cycle, CtrlCycle, Observed
<1>2. ASSUME ctrl_fsm' \in {"IRQ_TAKEN", "DBG_TAKEN_IF"}, ctrl_fsm # "FLUSH"
      PROVE  /\ ~New(in) /\ ~pc_set(in)
             /\ IF ctrl_fsm' = "DBG_TAKEN_IF" THEN enter_debug_mode(in)
                ELSE handle_irq(in) /\ ~enter_debug_mode(in)
  <2>1. CASE controller_run
    BY <1>2, <2>1, DecodeStep, Setting
  <2>2. CASE ~controller_run
    <3>1. FirstFetch(in, stall(in), csr_pipe_flush(in))
      BY <1>1, <1>2, <2>2
      DEF CtrlFsm, Boot, FallAsleep, Sleep, Decode, IrqTaken, DbgTaken, Flush, ToState,
          controller_run
    <3>2. IF ctrl_fsm' = "DBG_TAKEN_IF" THEN enter_debug_mode(in)
          ELSE handle_irq(in) /\ ~enter_debug_mode(in)
      BY <1>2, <3>1 DEF FirstFetch, ToState
    <3>3. pending_halt(in, stall(in), csr_pipe_flush(in))
      BY <3>1, <3>2 DEF FirstFetch, pending_halt
    <3>4. ~New(in)
      BY <3>3 DEF New, Ready, id_in_ready, halt_if
    <3>5. ~pc_set(in)
      BY <2>2, <3>1 DEF FirstFetch, pc_set, redirect
    <3>6. QED
      BY <3>2, <3>4, <3>5
  <2>3. QED
    BY <2>1, <2>2
<1>3. ASSUME ctrl_fsm = "FLUSH", ctrl_fsm' # ctrl_fsm
      PROVE  Flush
  BY <1>1, <1>3
  DEF CtrlFsm, Boot, FallAsleep, Sleep, FirstFetch, Decode, IrqTaken, DbgTaken, Flush
<1>4. ASSUME ctrl_fsm' = "IRQ_TAKEN"
      PROVE  ~debug_mode' /\ ~trigger_match' /\ ~dcsr.step'
  <2>1. ctrl_fsm # "FLUSH"
    BY <1>3, <1>4 DEF Flush, ToState, after_flush
  <2>2. /\ ~New(in) /\ ~pc_set(in) /\ handle_irq(in) /\ ~enter_debug_mode(in)
    BY <1>2, <1>4, <2>1
  <2>3. ~debug_mode /\ ~trigger_match /\ ~dcsr.step
    BY <2>2 DEF handle_irq, enter_debug_mode
  <2>4. pc_if' = pc_if
    BY <2>2, IfStep DEF IInv
  <2>5. ~debug_mode'
    <3>1. ctrl_fsm \notin {"DBG_TAKEN_IF", "DBG_TAKEN_ID"}
      BY <1>1, <1>4 DEF CtrlFsm, Boot, FallAsleep, Sleep, FirstFetch, Decode, IrqTaken, DbgTaken,
         Flush, ToState
    <3>2. QED
      BY <2>3, <3>1, Modes DEF IInv, TypeOK
  <2>6. dcsr' = dcsr
    BY <2>3, Modes
  <2>7. QED
    BY <2>3, <2>4, <2>5, <2>6, ConfigKept DEF trigger_match
<1>5. ASSUME ctrl_fsm' = "DBG_TAKEN_IF"
      PROVE  ~debug_mode' /\ (HoldDebugReq => debug_cause' # "none")
  <2>1. CASE ctrl_fsm # "FLUSH"
    <3>1. enter_debug_mode(in)
      BY <1>2, <1>5, <2>1
    <3>2. ~debug_mode /\ debug_cause_d(in) # "none"
      BY <3>1 DEF enter_debug_mode, enter_debug_mode_prio_d, debug_cause_d
    <3>3. ctrl_fsm \notin {"DBG_TAKEN_IF", "DBG_TAKEN_ID"}
      BY <1>1, <1>5 DEF CtrlFsm, Boot, FallAsleep, Sleep, FirstFetch, Decode, IrqTaken, DbgTaken,
         Flush, ToState
    <3>4. QED
      BY <1>1, <3>2, <3>3, Modes
  <2>2. CASE ctrl_fsm = "FLUSH"
    <3>1. enter_debug_mode_prio
      BY <1>3, <1>5, <2>2 DEF Flush, ToState, after_flush
    <3>2. ~debug_mode /\ ~debug_mode'
      BY <2>2, <3>1, Modes DEF IInv, Reasons
    <3>3. HoldDebugReq => in.debug_req \/ do_single_step_d
      BY <3>1, <3>2, InputFields DEF IInv, Reasons, do_single_step_d
    <3>4. QED
      BY <1>1, <3>2, <3>3 DEF debug_cause_d
  <2>3. QED
    BY <2>1, <2>2
<1>6. ASSUME ctrl_fsm' = "DBG_TAKEN_ID", ~debug_mode'
      PROVE  debug_cause' # "none"
  <2>1. ctrl_fsm = "FLUSH" /\ Flush
    BY <1>1, <1>6 DEF CtrlFsm, Boot, FallAsleep, Sleep, FirstFetch, Decode, IrqTaken, DbgTaken,
         Flush, ToState
  <2>2. ebreak_to_debug
    BY <1>6, <2>1 DEF Flush, ToState, after_flush
  <2>3. ~debug_mode
    BY <1>6, <2>2, Modes DEF ebreak_to_debug
  <2>4. QED
    BY <1>1, <2>2, <2>3 DEF ebreak_to_debug, debug_cause_d
<1>7. ASSUME ctrl_fsm' = "FLUSH", enter_debug_mode_prio'
      PROVE  ~debug_mode'
  BY <1>1, <1>7, QuietGoes, DecodeStep DEF enter_debug_mode_prio_d
<1>8. ASSUME enter_debug_mode_prio', ~debug_mode', HoldDebugReq
      PROVE  requested' \/ do_single_step'
  BY <1>1, <1>8 DEF enter_debug_mode_prio_d
<1>9. ASSUME do_single_step', ~debug_mode'
      PROVE  dcsr.step'
  <2>1. CASE debug_mode
    BY <1>1, <1>9, <2>1, Modes DEF do_single_step_d, Is
  <2>2. CASE ~debug_mode
    BY <1>1, <1>9, <2>2, Modes DEF do_single_step_d, IInv, Reasons
  <2>3. QED
    BY <2>1, <2>2
<1>10. QED
  BY <1>4, <1>5, <1>6, <1>7, <1>8, <1>9 DEF Reasons

\* An instruction at a breakpoint is not executed.
LEMMA NoBreakpointKept ==
  ASSUME IInv, Supported, NEW in \in Inputs, Cycle(in)
  PROVE  NoBreakpoint'
<1>1. SUFFICES ASSUME DbgTriggerEn, ~debug_mode'
               PROVE  /\ instr_valid' => pc_id' \notin Trigger
                      /\ mem_in_wb' => wb_pc' \notin Trigger
  BY ConfigKept DEF NoBreakpoint
<1>2. CASE debug_mode
  <2>1. ctrl_fsm = "FLUSH"
    BY <1>1, <1>2, Modes
  <2>2. QED
    BY <2>1, QuietStep, Arrival DEF controller_run, mem_in_wb
<1>3. CASE ~debug_mode
  <2>1. /\ instr_valid => pc_id \notin Trigger
        /\ mem_in_wb => wb_pc \notin Trigger
    BY <1>1, <1>3 DEF IInv, NoBreakpoint
  <2>2. New(in) => pc_if \notin Trigger
    BY <1>1, <1>3, Arrival DEF trigger_match
  <2>3. instr_valid' => pc_id' \notin Trigger
    BY <2>1, <2>2, IfStep DEF IInv
  <2>4. mem_in_wb' => wb_pc' \notin Trigger
    BY <2>1, MemStep, WbStep, Leaving
  <2>5. QED
    BY <2>3, <2>4
<1>4. QED
  BY <1>2, <1>3

-----------------------------------------------------------------------------
(* Completion. *)

\* The load or store that completes is the one in WB, or without a writeback stage the
\* one in ID; then it leaves.
LEMMA MemCompletes ==
  ASSUME IInv, Supported, NEW in \in Inputs, Cycle(in), MemRetires(in)
  PROVE  /\ controller_run /\ ~lsu_err_q'
         /\ WritebackStage => mem_in_wb
         /\ ~WritebackStage => instr_valid /\ lsu_req_dec /\ ~stall(in) /\ ~Special(in)
<1>1. in.resp = "ok"
  BY DEF MemRetires
<1>2. controller_run /\ (WritebackStage => mem_in_wb)
  BY <1>1, Answers
<1>3. ~lsu_err_q'
  BY <1>1 DEF Cycle, CtrlCycle, load_err, store_err, lsu_err_q
<1>4. ASSUME ~WritebackStage
      PROVE  instr_valid /\ lsu_req_dec /\ ~stall(in) /\ ~Special(in)
  <2>1. instr_valid /\ lsu_req_dec /\ id_fsm = "MULTI_CYCLE"
    BY <1>1, <1>4, Answers DEF lsu_req_dec, IInv, TypeOK, first_cycle
  <2>2. ~first_cycle /\ ~exc_req_d /\ ~exc_req_lsu(in)
    BY <1>1, <2>1, MultiExecutes, Answers DEF first_cycle
  <2>3. ~stall(in)
    BY <1>1, <1>4, <2>1, <2>2
    DEF stall, stall_id, stall_ld_hz, stall_mem, stall_fsm, stall_wb, lsu_resp_valid,
        lsu_req_dec, multdiv_en_dec, jump_in_dec, branch_in_dec, AccessType
  <2>4. ~Special(in)
    BY <2>1, <2>2 DEF Special, special_req, Is, csr_pipe_flush, lsu_req_dec, AccessType
  <2>5. QED
    BY <2>1, <2>3, <2>4
<1>5. QED
  BY <1>2, <1>3, <1>4

\* An instruction that completes in ID leaves it, but for one that flushes.
LEMMA IdCompletes ==
  ASSUME IInv, Supported, NEW in \in Inputs, Cycle(in), IdRetires(in)
  PROVE  /\ controller_run /\ instr_valid /\ ~lsu_req_dec /\ ~lsu_err_q' /\ ~exc_req'
         /\ ~stall(in) /\ ready_wb(in)
         /\ Special(in) => instr.kind \in {"wfi", "csr"} /\ ctrl_fsm' = "FLUSH"
         /\ instr.kind \in {"wfi", "csr"} => Special(in)
<1>1. /\ instr_id_done(in) /\ ~exc_req_d
      /\ ~lsu_req_dec /\ instr.kind \notin {"mret", "dret"}
  BY DEF IdRetires, lsu_req_dec
<1>2. /\ controller_run /\ instr_valid /\ ~stall(in) /\ ready_wb(in)
      /\ ~(WritebackStage /\ in.resp = "error")
  BY <1>1, Leaving
<1>3. ~exc_req_lsu(in)
  BY <1>1, <1>2, Answers DEF lsu_req_dec
<1>4. ~lsu_err_q' /\ ~exc_req'
  BY <1>1, <1>3 DEF Cycle, CtrlCycle, lsu_err_q, exc_req_lsu
<1>5. Special(in) => instr.kind \in {"wfi", "csr"}
  BY <1>1, <1>3 DEF Special, special_req, csr_pipe_flush, Is
<1>6. instr.kind \in {"wfi", "csr"} => Special(in)
  BY <1>1, <1>2 DEF Special, special_req, csr_pipe_flush, Is
<1>7. Special(in) => ctrl_fsm' = "FLUSH"
  BY <1>2, DecodeStep
<1>8. QED
  BY <1>1, <1>2, <1>4, <1>5, <1>6, <1>7

\* The completions of a cycle, as a sequence.
LEMMA Joined ==
  ASSUME NEW a, NEW b
  PROVE  /\ <<a>> \o <<b>> = <<a, b>> /\ <<a>> \o <<>> = <<a>>
         /\ <<>> \o <<b>> = <<b>> /\ <<>> \o <<>> = <<>>
<1>. DEFINE S == {a, b}
<1>1. <<a>> \in Seq(S) /\ <<b>> \in Seq(S) /\ <<>> \in Seq(S) /\ <<a, b>> \in Seq(S)
  OBVIOUS
<1>2. <<a>> \o <<>> = <<a>> /\ <<>> \o <<b>> = <<b>> /\ <<>> \o <<>> = <<>>
  BY <1>1, ConcatEmptySeq
<1>3. <<a>> \o <<b>> = <<a, b>>
  <2>. DEFINE c == <<a>> \o <<b>>
  <2>1. /\ c \in Seq(S) /\ Len(c) = Len(<<a>>) + Len(<<b>>)
        /\ \A i \in 1 .. Len(<<a>>) + Len(<<b>>) :
             c[i] = IF i <= Len(<<a>>) THEN <<a>>[i] ELSE <<b>>[i - Len(<<a>>)]
    BY <1>1, ConcatProperties
  <2>. HIDE DEF c
  <2>2. Len(c) = 2 /\ c[1] = a /\ c[2] = b
    BY <2>1
  <2>3. Len(<<a, b>>) = Len(c) /\ \A i \in 1 .. Len(c) : c[i] = <<a, b>>[i]
    BY <2>2
  <2>4. QED
    BY <1>1, <2>1, <2>3, SeqEqual DEF c
<1>4. QED
  BY <1>2, <1>3

\* What is observed of a cycle.
LEMMA Completions ==
  ASSUME IInv, Supported, NEW in \in Inputs, Cycle(in)
  PROVE  LET mem == [pc |-> IF WritebackStage THEN wb_pc ELSE pc_id,
                     next |-> NextPc(IF WritebackStage THEN wb_pc ELSE pc_id)]
             id  == [pc |-> pc_id, next |-> Follow(instr, pc_id)]
         IN  /\ MemRetires(in) /\ IdRetires(in) => retired' = <<mem, id>>
             /\ MemRetires(in) /\ ~IdRetires(in) => retired' = <<mem>>
             /\ ~MemRetires(in) /\ IdRetires(in) => retired' = <<id>>
             /\ ~MemRetires(in) /\ ~IdRetires(in) => retired' = <<>>
<1>. DEFINE mem_pc == IF WritebackStage THEN wb_pc ELSE pc_id
            mem == [pc |-> mem_pc, next |-> NextPc(mem_pc)]
            id  == [pc |-> pc_id, next |-> Follow(instr, pc_id)]
<1>1. retired' = (IF MemRetires(in) THEN <<mem>> ELSE <<>>) \o
                 (IF IdRetires(in) THEN <<id>> ELSE <<>>)
  BY DEF Cycle, Observed, Retired, Completed
<1>. HIDE DEF mem, id
<1>2. /\ MemRetires(in) /\ IdRetires(in) => retired' = <<mem, id>>
      /\ MemRetires(in) /\ ~IdRetires(in) => retired' = <<mem>>
      /\ ~MemRetires(in) /\ IdRetires(in) => retired' = <<id>>
      /\ ~MemRetires(in) /\ ~IdRetires(in) => retired' = <<>>
  BY <1>1, Joined
<1>3. QED
  BY <1>2 DEF mem, id

Trap == ctrl_fsm = "FLUSH" /\ takes_exception /\ ~ebreak_to_debug

\* How stepped counts completions and transfers.
LEMMA Counting ==
  ASSUME IInv, Supported, NEW in \in Inputs, Cycle(in)
  PROVE  /\ debug_mode \/ debug_mode' => stepped' = 0
         /\ ~debug_mode /\ ~debug_mode' =>
              /\ ~MemRetires(in) /\ ~IdRetires(in) /\ ~Trap => stepped' = stepped
              /\ stepped = 0 /\ ~(MemRetires(in) /\ IdRetires(in))
                   /\ ~(Trap /\ (MemRetires(in) \/ IdRetires(in)))
                 => stepped' <= 1
<1>1. stepped' = IF debug_mode' \/ debug_mode THEN 0
                 ELSE MinOf(2, stepped + Len(Retired(in)) + (IF Trap THEN 1 ELSE 0))
  BY DEF Cycle, Observed, Trap
<1>2. /\ ~MemRetires(in) /\ ~IdRetires(in) => Len(Retired(in)) = 0
      /\ ~(MemRetires(in) /\ IdRetires(in)) => Len(Retired(in)) \in {0, 1}
  BY DEF Retired, Completed
<1>3. stepped \in 0 .. 2
  BY DEF IInv, TypeOK
<1>4. ~MemRetires(in) /\ ~IdRetires(in) /\ ~Trap => MinOf(2, stepped + Len(Retired(in)) + (IF Trap THEN 1 ELSE 0)) = stepped
  BY <1>2, <1>3 DEF MinOf
<1>5. ASSUME stepped = 0, ~(MemRetires(in) /\ IdRetires(in)),
             ~(Trap /\ (MemRetires(in) \/ IdRetires(in)))
      PROVE  MinOf(2, stepped + Len(Retired(in)) + (IF Trap THEN 1 ELSE 0)) <= 1
  <2>1. CASE Trap
    BY <1>2, <1>5, <2>1 DEF MinOf
  <2>2. CASE ~Trap
    <3>1. PICK n \in {0, 1} : Len(Retired(in)) = n
      BY <1>2, <1>5
    <3>2. MinOf(2, 0 + n + 0) <= 1
      BY DEF MinOf
    <3>3. QED
      BY <1>5, <2>2, <3>1, <3>2
  <2>3. QED
    BY <2>1, <2>2
<1>6. QED
  BY <1>1, <1>4, <1>5, <1>3

\* A single step lets one instruction complete.
LEMMA SteppingKept ==
  ASSUME IInv, Supported, NEW in \in Inputs, Cycle(in)
  PROVE  Stepping'
<1>. SUFFICES ASSUME dcsr'.step, ~debug_mode'
              PROVE  /\ open_in_wb' => ~instr_valid'
                     /\ open_in_wb' \/ stepped' # 0 => do_single_step'
                     /\ stepped' # 0 => ~open_in_id' /\ ~open_in_wb'
                     /\ stepped' <= 1
  BY DEF Stepping
<1>1. open_in_wb' <=> mem_in_wb' \/ (WritebackStage /\ lsu_err_q')
  BY ConfigKept DEF open_in_wb
<1>2. lsu_err_q' => in.resp = "error"
  BY DEF Cycle, CtrlCycle, lsu_err_q, load_err, store_err
<1>3. CASE debug_mode
  <2>1. ctrl_fsm = "FLUSH"
    BY <1>3, Modes
  <2>2. ~open_in_wb'
    BY <1>1, <2>1, QuietStep DEF controller_run, mem_in_wb, lsu_err_q
  <2>3. stepped' = 0
    BY <1>3, Counting
  <2>4. QED
    BY <2>2, <2>3
<1>4. CASE ~debug_mode
  <2>1. dcsr.step
    BY <1>4, Modes
  <2>2. /\ open_in_wb => ~instr_valid
        /\ open_in_wb \/ stepped # 0 => do_single_step
        /\ stepped # 0 => ~open_in_id /\ ~open_in_wb
        /\ stepped <= 1
    BY <1>4, <2>1 DEF IInv, Stepping
  <2>3. do_single_step' <=> instr_valid \/ do_single_step
    BY <1>4, <2>1 DEF Cycle, CtrlCycle, do_single_step_d, IInv, TypeOK
  <2>4. New(in) => ~instr_valid /\ ~do_single_step
    BY <1>4, <2>1, Arrival
  <2>5. MemRetires(in) \/ in.resp = "error" =>
          controller_run /\ IF WritebackStage THEN open_in_wb ELSE instr_valid
    BY Answers DEF MemRetires, open_in_wb
  <2>6. Trap => instr_valid \/ open_in_wb
    BY DEF Trap, takes_exception, IInv, Flushing, InFlight, Is, illegal_insn_o, instr_fetch_err, open_in_wb
  <2>7. Trap => open_in_id \/ open_in_wb
    BY <2>6 DEF Trap, open_in_id
  <2>8. IdRetires(in) => controller_run /\ instr_valid
    BY IdCompletes
  <2>9. controller_run /\ instr_valid => open_in_id
    BY DEF controller_run, open_in_id
  <2>10. open_in_wb' => ~instr_valid' /\ do_single_step'
    <3>1. CASE mem_in_wb' /\ instr_id_done(in)
      <4>1. lsu_req_done(in)
        BY <3>1, MemStep
      <4>2. controller_run /\ instr_valid /\ ~stall(in) /\ ~Special(in)
        BY <3>1, <4>1, PortStep, Requesting, Leaving
      <4>3. ~instr_valid'
        BY <2>4, <4>2, Departing
      <4>4. QED
        BY <2>3, <4>2, <4>3
    <3>2. CASE (mem_in_wb' /\ ~instr_id_done(in)) \/ (WritebackStage /\ lsu_err_q')
      <4>1. open_in_wb
        BY <1>2, <2>5, <3>2, MemStep DEF open_in_wb
      <4>2. ~instr_valid /\ do_single_step /\ ~New(in)
        BY <2>2, <2>4, <4>1
      <4>3. ~instr_valid'
        BY <4>2, IfStep DEF IInv
      <4>4. QED
        BY <2>3, <4>2, <4>3
    <3>3. QED
      BY <1>1, <3>1, <3>2
  <2>11. CASE stepped # 0
    <3>1. ~open_in_id /\ ~open_in_wb /\ do_single_step /\ ~New(in)
      BY <2>2, <2>4, <2>11
    <3>2. ~MemRetires(in) /\ in.resp # "error" /\ ~IdRetires(in) /\ ~Trap
      BY <2>5, <2>7, <2>8, <2>9, <3>1
    <3>3. stepped' = stepped
      BY <1>4, <3>2, Counting
    <3>4. ~open_in_id'
      <4>1. CASE instr_valid
        <5>1. ~controller_run
          BY <2>9, <3>1, <4>1
        <5>2. QED
          BY <3>1, <5>1, QuietStep DEF open_in_id
      <4>2. CASE ~instr_valid
        BY <3>1, <4>2, IfStep DEF IInv, open_in_id
      <4>3. QED
        BY <4>1, <4>2
    <3>5. ~open_in_wb'
      <4>1. ~instr_id_done(in)
        BY <2>9, <3>1, Leaving
      <4>2. QED
        BY <1>1, <1>2, <3>1, <3>2, <4>1, MemStep DEF open_in_wb
    <3>6. QED
      BY <2>2, <2>3, <3>1, <3>3, <3>4, <3>5
  <2>12. CASE stepped = 0
    <3>1. MemRetires(in) => ~IdRetires(in)
      BY <2>2, <2>5, <2>8, MemCompletes, IdCompletes
    <3>2. Trap => ~MemRetires(in) /\ ~IdRetires(in)
      BY <2>5, <2>8 DEF Trap, controller_run
    <3>3. stepped' <= 1
      BY <1>4, <2>12, <3>1, <3>2, Counting
    <3>4. stepped' # 0 => MemRetires(in) \/ IdRetires(in) \/ Trap
      BY <1>4, <2>12, Counting
    <3>5. stepped' # 0 => do_single_step' /\ ~New(in)
      BY <2>2, <2>3, <2>4, <2>5, <2>6, <2>8, <3>4
    <3>6. CASE MemRetires(in)
      <4>1. controller_run /\ ~lsu_err_q' /\ ~New(in)
        BY <2>2, <2>4, <2>5, <3>6, MemCompletes
      <4>2. ~instr_valid'
        BY <2>2, <2>5, <3>6, <4>1, MemCompletes, Departing
      <4>3. ~mem_in_wb'
        <5>1. WritebackStage => ~instr_id_done(in)
          BY <2>2, <2>5, <3>6, Leaving
        <5>2. QED
          BY <3>6, <5>1, MemStep DEF MemRetires
      <4>4. QED
        BY <1>1, <2>10, <3>3, <3>5, <4>1, <4>2, <4>3 DEF open_in_id
    <3>7. CASE IdRetires(in)
      <4>1. /\ controller_run /\ instr_valid /\ ~lsu_req_dec /\ ~lsu_err_q' /\ ~exc_req'
            /\ ~stall(in) /\ instr_id_done(in) /\ ~New(in)
            /\ Special(in) => instr.kind \in {"wfi", "csr"} /\ ctrl_fsm' = "FLUSH"
        BY <2>4, <3>7, IdCompletes DEF IdRetires
      <4>2. ~open_in_id'
        <5>1. CASE Special(in)
          BY <4>1, <5>1, Staying DEF open_in_id, takes_exception
        <5>2. CASE ~Special(in)
          BY <4>1, <5>2, Departing DEF open_in_id
        <5>3. QED
          BY <5>1, <5>2
      <4>3. ~open_in_wb'
        BY <1>1, <4>1, MemStep
      <4>4. QED
        BY <2>10, <3>3, <3>5, <4>2, <4>3
    <3>8. CASE Trap
      <4>1. ~controller_run
        BY <3>8 DEF Trap, controller_run
      <4>2. ~New(in)
        BY <3>8, Arrival DEF Trap
      <4>3. ~instr_valid' /\ ~open_in_wb'
        BY <1>1, <4>1, <4>2, QuietStep DEF mem_in_wb, lsu_err_q
      <4>4. do_single_step'
        BY <2>2, <2>3, <2>6, <3>8
      <4>5. QED
        BY <3>3, <4>3, <4>4 DEF open_in_id
    <3>9. CASE stepped' = 0
      BY <2>10, <3>9
    <3>10. QED
      BY <3>4, <3>6, <3>7, <3>8, <3>9
  <2>13. QED
    BY <2>11, <2>12
<1>5. QED
  BY <1>3, <1>4

-----------------------------------------------------------------------------
(* The theorems. *)

\* The invariant holds at reset.
LEMMA InitIInv == Init => IInv
<1>. SUFFICES ASSUME Init
              PROVE  IInv
  OBVIOUS
<1>. USE DEF Init, IfInit, PortInit, WbInit, CtrlInit, IdInit
<1>1. TypeOK
  <2>1. pc_if \in Pc /\ pc_id \in Pc /\ wb_pc \in Pc
    BY Addresses DEF FixedPc
  <2>2. dcsr \in Dcsr /\ priv_mode \in Priv
    BY DEF Dcsr, Priv
  <2>3. stepped \in 0 .. 2
    OBVIOUS
  <2>4. QED
    BY <2>1, <2>2, <2>3 DEF TypeOK, Owed, AccessType, WbType, CtrlState, DebugCause
<1>2. AccessOwned /\ NoStage
  BY DEF AccessOwned, NoStage
<1>3. InFlight /\ Multi
  BY DEF InFlight, Multi, mem_in_wb, lsu_err_q
<1>4. Fetching /\ Branching
  BY DEF Fetching, Branching, controller_run, mem_in_wb
<1>5. Flushing /\ Reasons /\ NoBreakpoint
  BY DEF Flushing, Reasons, NoBreakpoint, mem_in_wb
<1>6. Stepping
  BY DEF Stepping, open_in_wb, open_in_id, mem_in_wb, lsu_err_q
<1>7. QED
  BY <1>1, <1>2, <1>3, <1>4, <1>5, <1>6 DEF IInv

\* Every cycle keeps the invariant.
LEMMA NextIInv ==
  ASSUME IInv, Supported, Next
  PROVE  IInv'
<1>1. PICK in \in Inputs : Cycle(in)
  BY DEF Next
<1>2. QED
  BY <1>1, TypeKept, AccessKept, NoStageKept, InFlightKept, MultiKept, FetchingKept,
     BranchingKept, FlushingKept, ReasonsKept, NoBreakpointKept, SteppingKept DEF IInv

\* The invariant is one of the registers alone.
LEMMA StutterIInv ==
  ASSUME IInv, UNCHANGED vars
  PROVE  IInv'
<1>. USE DEF vars, ifVars, portVars, wbVars, ctrlVars, idVars, envVars
<1>1. TypeOK' /\ AccessOwned' /\ NoStage'
  BY DEF IInv, TypeOK, AccessOwned, NoStage, WritebackStage, controller_run, lsu_req_dec
<1>2. InFlight' /\ Multi'
  BY DEF IInv, InFlight, Multi, mem_in_wb, lsu_err_q, lsu_req_dec, jump_in_dec, branch_in_dec,
         WritebackStage, BranchTargetALU
<1>3. Fetching' /\ Branching'
  BY DEF IInv, Fetching, Branching, mem_in_wb, controller_run, first_cycle, jump_in_dec,
         branch_decision, BranchTargetALU, NextPc
<1>4. Flushing'
  BY DEF IInv, Flushing, Is, illegal_insn_o, instr_fetch_err, takes_exception, lsu_err_q
<1>5. Reasons' /\ NoBreakpoint'
  BY DEF IInv, Reasons, NoBreakpoint, mem_in_wb, trigger_match, DbgTriggerEn
<1>6. Stepping'
  BY DEF IInv, Stepping, open_in_wb, open_in_id, mem_in_wb, takes_exception, lsu_err_q, WritebackStage
<1>7. QED
  BY <1>1, <1>2, <1>3, <1>4, <1>5, <1>6 DEF IInv

\* The invariant of the pipeline.
LEMMA Inductive ==
  ASSUME Supported
  PROVE  Spec => []IInv
<1>1. IInv /\ [Next]_vars => IInv'
  BY NextIInv, StutterIInv
<1>2. QED
  BY InitIInv, <1>1, PTL DEF Spec

\* At reset there is no cause to be wrong.
LEMMA CauseInit == Init => CauseReal
  BY DEF Init, CauseReal

\* A cause of a transfer is real in the cycle in which control is transferred.
LEMMA CauseKept ==
  ASSUME IInv, Supported, HoldDebugReq, NEW in \in Inputs, Cycle(in)
  PROVE  CauseReal'
<1>1. transfer' = Transferred(in)
  BY DEF Cycle, Observed
<1>2. CASE ctrl_fsm = "IRQ_TAKEN" /\ handle_irq(in)
  <2>1. transfer' = Transfer("interrupt", irq_cause(in), Lines(in))
    BY <1>1, <1>2 DEF Transferred
  <2>2. irq_cause(in) \in Lines(in)
    BY <1>2, InputFields DEF handle_irq, irq_cause, Lines, irq_nm, irq_pending, IrqLine, IInv
  <2>3. QED
    BY <2>1, <2>2 DEF Transfer, CauseReal
<1>3. CASE ctrl_fsm \in {"DBG_TAKEN_IF", "DBG_TAKEN_ID"}
  <2>1. debug_mode \/ debug_cause # "none"
    BY <1>3 DEF IInv, Reasons
  <2>2. ctrl_fsm = "DBG_TAKEN_IF" => debug_cause # "none"
    BY DEF IInv, Reasons
  <2>3. \E c : transfer' = Transfer("debug", c, {}) /\ c # "none"
    BY <1>1, <1>3, <2>1, <2>2 DEF Transferred
  <2>4. QED
    BY <2>3 DEF Transfer, CauseReal
<1>4. CASE ~(ctrl_fsm = "IRQ_TAKEN" /\ handle_irq(in))
           /\ ctrl_fsm \notin {"DBG_TAKEN_IF", "DBG_TAKEN_ID"}
  <2>1. transfer' # <<>> => transfer'[1].kind \notin {"interrupt", "debug"}
    BY <1>1, <1>4 DEF Transferred, Transfer, Is
  <2>2. QED
    BY <2>1 DEF CauseReal
<1>5. QED
  BY <1>2, <1>3, <1>4

\* The invariant implies what the runs check of a state.
LEMMA Consequences ==
  ASSUME IInv
  PROVE  TypeOK /\ AccessOwned /\ EmptyWhenTaken /\ SingleStepOne /\ BranchTargetComputed
<1>1. EmptyWhenTaken
  BY DEF IInv, InFlight, EmptyWhenTaken
<1>2. SingleStepOne
  BY DEF IInv, Stepping, SingleStepOne
<1>3. BranchTargetComputed
  BY DEF IInv, Branching, BranchTargetComputed, branch_set, branch_set_raw, first_cycle
<1>4. QED
  BY <1>1, <1>2, <1>3 DEF IInv

\* In every build that is supported, whatever the program, and whatever the memory, the
\* interrupt lines and the debug module do, if the debug module holds its request:
\* accesses belong to the instructions that made them, the pipeline is empty when the
\* core turns to an interrupt or to debug mode or sleeps, and has a reason to; a hart
\* that steps completes one instruction; a branch goes to an address that is computed.
THEOREM PipelineSound ==
  ASSUME Supported, HoldDebugReq
  PROVE  Spec => []PipelineInv
<1>1. IInv /\ CauseReal /\ [Next]_vars => CauseReal'
  <2>1. ASSUME IInv, Next
        PROVE  CauseReal'
    BY <2>1, CauseKept DEF Next
  <2>2. ASSUME CauseReal, UNCHANGED vars
        PROVE  CauseReal'
    BY <2>2 DEF CauseReal, vars, envVars
  <2>3. QED
    BY <2>1, <2>2
<1>2. IInv /\ CauseReal => PipelineInv
  BY Consequences DEF PipelineInv
<1>3. QED
  BY Inductive, CauseInit, <1>1, <1>2, PTL DEF Spec

\* An integrity error of the memory is not forgotten before the NMI for it is taken, in
\* any build.
THEOREM IntegrityErrorKept == Spec => IntegrityErrorNotLost
<1>1. ASSUME NEW in \in Inputs, Cycle(in), intg_err_pending, ~intg_err_pending'
      PROVE  transfer' # <<>> /\ transfer'[1].cause = "nmi_int"
  <2>1. nmi_mode' /\ ~nmi_mode /\ ~in.nm_ext
    BY <1>1 DEF Cycle, CtrlCycle, intg_err_clear
  <2>2. IrqTaken(in)
    BY <1>1, <2>1 DEF Cycle, CtrlCycle, CtrlFsm, Boot, FallAsleep, Sleep, FirstFetch, Decode, DbgTaken, Flush, KeepModes
  <2>3. ctrl_fsm = "IRQ_TAKEN" /\ handle_irq(in) /\ irq_cause(in) = "nmi_int"
    BY <2>1, <2>2 DEF IrqTaken, irq_cause
  <2>4. transfer' = Transfer("interrupt", "nmi_int", Lines(in))
    BY <1>1, <2>3 DEF Cycle, Observed, Transferred
  <2>5. QED
    BY <2>4 DEF Transfer
<1>2. [Next]_vars => [intg_err_pending /\ ~intg_err_pending' =>
                        transfer' # <<>> /\ transfer'[1].cause = "nmi_int"]_vars
  BY <1>1 DEF Next
<1>3. QED
  BY <1>2, PTL DEF Spec, IntegrityErrorNotLost

-----------------------------------------------------------------------------
(* The pipeline implements a hart. *)

\* Where the hart stands.
LEMMA HartPc ==
  ASSUME IInv
  PROVE  hart_pc = IF open_in_wb THEN wb_pc
                   ELSE IF ctrl_fsm = "DBG_TAKEN_ID" \/ open_in_id THEN pc_id
                   ELSE pc_if
<1>1. open_in_wb <=> WritebackStage /\ (mem_in_wb \/ lsu_err_q)
  BY DEF open_in_wb, IInv, NoStage, mem_in_wb
<1>2. QED
  BY <1>1 DEF hart_pc, mem_in_wb, open_in_id

\* ... and after a cycle.
LEMMA HartPcNext ==
  ASSUME IInv, Supported, NEW in \in Inputs, Cycle(in)
  PROVE  hart_pc' = IF open_in_wb' THEN wb_pc'
                    ELSE IF ctrl_fsm' = "DBG_TAKEN_ID" \/ open_in_id' THEN pc_id'
                    ELSE pc_if'
<1>1. open_in_wb' <=> WritebackStage' /\ (mem_in_wb' \/ lsu_err_q')
  BY NoStageKept DEF open_in_wb, NoStage, mem_in_wb
<1>2. QED
  BY <1>1 DEF hart_pc, mem_in_wb, open_in_id

\* A jump or a branch that is done has set the PC.
LEMMA JumpDone ==
  ASSUME IInv, Supported, NEW in \in Inputs, Cycle(in), instr_id_done(in),
         instr.kind \in {"jump", "branch_taken"}
  PROVE  pc_set(in) \/ branch_jump_set_done
<1>1. /\ instr_executing(in) /\ instr_executing_spec /\ controller_run /\ ~stall(in)
  BY Leaving DEF instr_executing
<1>2. CASE first_cycle
  <2>1. BranchTargetALU
    BY <1>1, <1>2 DEF stall, stall_id, stall_fsm, stays, lsu_req_dec, jump_in_dec, branch_in_dec,
       branch_decision, AccessType
  <2>2. branch_set_raw \/ jump_set_raw
    BY <1>1, <1>2, <2>1 DEF branch_set_raw, branch_set_raw_d, jump_set_raw, jump_in_dec,
       branch_in_dec, branch_decision
  <2>3. QED
    BY <1>1, <2>2, Setting
<1>3. CASE ~first_cycle
  <2>1. id_fsm = "MULTI_CYCLE" /\ ~BranchTargetALU
    BY <1>3 DEF IInv, TypeOK, Multi, first_cycle, jump_in_dec, branch_in_dec
  <2>2. branch_jump_set_done \/ branch_set_raw
    BY <2>1 DEF IInv, Branching, jump_in_dec, branch_decision, branch_set_raw
  <2>3. QED
    BY <1>1, <2>2, Setting
<1>4. QED
  BY <1>2, <1>3

\* A wfi is done in the cycle that sends the controller to flush for it.
LEMMA WfiDone ==
  ASSUME IInv, Supported, NEW in \in Inputs, controller_run, Is("wfi"),
         ~exc_req_d, ~exc_req_lsu(in), ready_wb(in)
  PROVE  IdRetires(in)
<1>1. instr_valid /\ instr.kind = "wfi"
  BY DEF Is
<1>2. ~instr.fetch_err /\ ~lsu_err_q
  BY <1>1 DEF exc_req_d, instr_fetch_err, controller_run, IInv, InFlight
<1>3. ~instr.reads
  BY <1>1, InstrFields DEF IInv, TypeOK, NoSource
<1>4. ~outstanding_memory_access(in) /\ ~stall_ld_hz
  BY <1>3, Answers DEF stall_ld_hz
<1>5. instr_executing(in)
  BY <1>1, <1>2, <1>4 DEF instr_executing, instr_executing_spec, wb_exception, id_exception
<1>6. first_cycle
  BY <1>1 DEF IInv, Multi, TypeOK, first_cycle, AccessType
<1>7. ~stall(in)
  BY <1>1, <1>4, <1>6 DEF stall, stall_id, stall_mem, stall_fsm, stall_wb, stays, lsu_req_dec, multdiv_en_dec,
    jump_in_dec, branch_in_dec, AccessType
<1>8. QED
  BY <1>1, <1>5, <1>7, Leaving DEF IdRetires, AccessType

\* An instruction that stays in ID and does not complete is still to complete.
LEMMA StaysOpen ==
  ASSUME IInv, Supported, NEW in \in Inputs, Cycle(in), controller_run, instr_valid,
         ~IdRetires(in), stall(in) \/ Special(in)
  PROVE  open_in_id' /\ pc_id' = pc_id /\ ~New(in)
<1>1. instr_valid' /\ instr' = instr /\ pc_id' = pc_id /\ ~New(in)
  BY Staying
<1>2. SUFFICES ASSUME ctrl_fsm' = "FLUSH", ~takes_exception', instr.kind \in {"wfi", "csr"}
               PROVE  FALSE
  BY <1>1 DEF open_in_id
<1>3. Special(in) /\ (ready_wb(in) \/ wb_exception(in))
  BY <1>2, DecodeStep
<1>4. ~exc_req_d /\ ~exc_req_lsu(in)
  BY <1>2 DEF Cycle, CtrlCycle, takes_exception, lsu_err_q, exc_req_lsu
<1>5. ready_wb(in)
  BY <1>3, <1>4 DEF wb_exception, IInv, InFlight, controller_run
<1>6. ~Is("wfi")
  BY <1>4, <1>5, WfiDone
<1>7. instr.kind = "csr" /\ csr_pipe_flush(in)
  BY <1>2, <1>3, <1>4, <1>6 DEF Special, special_req, Is
<1>8. IdRetires(in)
  BY <1>4, <1>7 DEF IdRetires, csr_pipe_flush, AccessType
<1>9. QED
  BY <1>8

\* The hart after a cycle that leaves no access in WB.
LEMMA AfterId ==
  ASSUME IInv, Supported, NEW in \in Inputs, Cycle(in), controller_run, ~open_in_wb'
  PROVE  hart_pc' = IF ~instr_valid THEN pc_if
                    ELSE IF IdRetires(in) THEN Follow(instr, pc_id)
                    ELSE IF ~WritebackStage /\ MemRetires(in) THEN NextPc(pc_id)
                    ELSE pc_id
<1>1. ctrl_fsm' # "DBG_TAKEN_ID"
  BY DecodeStep
<1>2. hart_pc' = IF open_in_id' THEN pc_id' ELSE pc_if'
  BY <1>1, HartPcNext
<1>3. ASSUME New(in)
      PROVE  open_in_id' /\ pc_id' = pc_if
  <2>1. ~Special(in) /\ instr_valid' /\ pc_id' = pc_if
    BY <1>3, Arrival, IfStep DEF IInv
  <2>2. ctrl_fsm' # "FLUSH"
    BY <2>1, DecodeStep
  <2>3. QED
    BY <2>1, <2>2 DEF open_in_id
<1>4. CASE ~instr_valid
  <2>1. ~pc_set(in)
    BY <1>4, Setting
  <2>2. CASE New(in)
    BY <1>2, <1>3, <1>4, <2>2
  <2>3. CASE ~New(in)
    <3>1. ~open_in_id' /\ pc_if' = pc_if
      BY <1>4, <2>1, <2>3, IfStep DEF IInv, open_in_id
    <3>2. QED
      BY <1>2, <1>4, <3>1
  <2>4. QED
    BY <2>2, <2>3
<1>5. CASE instr_valid /\ (IdRetires(in) \/ (~WritebackStage /\ MemRetires(in)))
  <2>1. /\ ~stall(in)
        /\ Special(in) => IdRetires(in) /\ instr.kind \in {"wfi", "csr"} /\ ctrl_fsm' = "FLUSH"
                          /\ ~takes_exception'
    BY <1>5, IdCompletes, MemCompletes DEF takes_exception
  <2>. DEFINE next == IF IdRetires(in) THEN Follow(instr, pc_id) ELSE NextPc(pc_id)
  <2>2. ~pc_set(in) => pc_if = next
    <3>1. SUFFICES ASSUME ~pc_set(in)
                   PROVE  pc_if = next
      OBVIOUS
    <3>2. CASE IdRetires(in) /\ instr.kind \in {"jump", "branch_taken"}
      <4>1. branch_jump_set_done
        BY <3>1, <3>2, JumpDone DEF IdRetires
      <4>2. QED
        BY <3>2, <4>1 DEF IInv, Fetching, Follow
    <3>3. CASE ~(IdRetires(in) /\ instr.kind \in {"jump", "branch_taken"})
      <4>1. instr.kind \notin {"jump", "branch_taken"}
        BY <1>5, <3>3, MemCompletes DEF lsu_req_dec, AccessType
      <4>2. pc_if = NextPc(pc_id)
        BY <1>5, <4>1 DEF IInv, Fetching
      <4>3. QED
        BY <4>1, <4>2 DEF Follow
    <3>4. QED
      BY <3>2, <3>3
  <2>3. pc_set(in) => pc_if' = next /\ ~New(in)
    <3>1. pc_set(in) => /\ pc_if' = instr.target /\ ~New(in)
                        /\ instr.kind \in {"jump", "branch_taken"}
      BY Setting
    <3>2. instr.kind \in {"jump", "branch_taken"} => IdRetires(in)
      BY <1>5, MemCompletes DEF lsu_req_dec, AccessType
    <3>3. QED
      BY <3>1, <3>2 DEF Follow
  <2>4. CASE New(in)
    BY <1>2, <1>3, <1>5, <2>2, <2>3, <2>4
  <2>5. CASE ~New(in)
    <3>1. ~open_in_id'
      <4>1. CASE Special(in)
        BY <1>5, <2>1, <4>1, Staying DEF open_in_id
      <4>2. CASE ~Special(in)
        BY <2>1, <2>5, <4>2, Departing DEF open_in_id
      <4>3. QED
        BY <4>1, <4>2
    <3>2. pc_if' = next
      BY <2>2, <2>3, <2>5, IfStep DEF IInv
    <3>3. QED
      BY <1>2, <1>5, <3>1, <3>2
  <2>6. QED
    BY <2>4, <2>5
<1>6. CASE instr_valid /\ ~IdRetires(in) /\ ~(~WritebackStage /\ MemRetires(in))
  <2>1. stall(in) \/ Special(in)
    <3>1. SUFFICES ASSUME ~stall(in), ~Special(in)
                   PROVE  FALSE
      OBVIOUS
    <3>2. instr_id_done(in) /\ ~exc_req_d /\ ~exc_req_lsu(in)
      BY <1>6, <3>1, Leaving DEF Special, special_req
    <3>3. instr.kind \notin {"mret", "dret"}
      BY <1>6, <3>1 DEF Special, special_req, Is
    <3>4. lsu_req_dec
      BY <1>6, <3>2, <3>3 DEF IdRetires, lsu_req_dec
    <3>5. ~WritebackStage
      BY <3>2, <3>4, MemStep, ConfigKept DEF open_in_wb
    <3>6. in.resp # "none"
      BY <1>6, <3>1, <3>4, <3>5 DEF stall, stall_id, stall_mem, lsu_resp_valid
    <3>7. in.resp = "ok"
      BY <3>2, <3>6, Answers, InputFields DEF IInv, Response
    <3>8. QED
      BY <1>6, <3>5, <3>7 DEF MemRetires
  <2>2. QED
    BY <1>2, <1>6, <2>1, StaysOpen
<1>7. QED
  BY <1>4, <1>5, <1>6

\* While the controller decodes, the hart continues.
LEMMA DecodeContinues ==
  ASSUME IInv, Supported, NEW in \in Inputs, Cycle(in), controller_run
  PROVE  Promise!Next
<1>. DEFINE mem_pc == IF WritebackStage THEN wb_pc ELSE pc_id
            mem == [pc |-> mem_pc, next |-> NextPc(mem_pc)]
            id  == [pc |-> pc_id, next |-> Follow(instr, pc_id)]
            bps == IF DbgTriggerEn THEN Trigger ELSE {}
<1>1. transfer' = <<>> /\ debug_mode' = debug_mode
  BY DecodeStep
<1>2. /\ MemRetires(in) /\ IdRetires(in) => retired' = <<mem, id>>
      /\ MemRetires(in) /\ ~IdRetires(in) => retired' = <<mem>>
      /\ ~MemRetires(in) /\ IdRetires(in) => retired' = <<id>>
      /\ ~MemRetires(in) /\ ~IdRetires(in) => retired' = <<>>
  BY Completions
<1>3. /\ open_in_wb <=> mem_in_wb
      /\ instr_valid => open_in_id
      /\ ctrl_fsm # "DBG_TAKEN_ID"
      /\ mem_in_wb => WritebackStage
  BY DEF open_in_wb, open_in_id, IInv, InFlight, NoStage, mem_in_wb, controller_run
<1>4. hart_pc = IF mem_in_wb THEN wb_pc ELSE IF instr_valid THEN pc_id ELSE pc_if
  BY <1>3, HartPc DEF open_in_id
<1>5. mem_in_wb => NextPc(wb_pc) = IF instr_valid THEN pc_id ELSE pc_if
  BY DEF IInv, Fetching
<1>6. /\ MemRetires(in) => IF WritebackStage THEN mem_in_wb ELSE instr_valid /\ ~IdRetires(in) /\ ~mem_in_wb
      /\ IdRetires(in) => instr_valid /\ ready_wb(in) /\ ~lsu_req_dec /\ instr_id_done(in)
  BY <1>3, MemCompletes, IdCompletes DEF IdRetires
<1>7. IdRetires(in) /\ mem_in_wb => MemRetires(in)
  <2>1. SUFFICES ASSUME IdRetires(in), mem_in_wb
                 PROVE  in.resp = "ok"
    BY DEF MemRetires
  <2>2. instr_executing(in) /\ WritebackStage
    BY <1>3, <1>6, <2>1, Leaving
  <2>3. in.resp # "none" /\ in.resp # "error"
    BY <2>1, <2>2, Leaving, Answers
  <2>4. QED
    BY <2>3, InputFields DEF IInv, Response
\* Nothing completes at a breakpoint.
<1>8. /\ ~debug_mode /\ instr_valid => pc_id \notin bps
      /\ ~debug_mode /\ mem_in_wb => wb_pc \notin bps
  BY DEF IInv, NoBreakpoint
<1>. HIDE DEF bps
<1>9. Promise!Stream /\ Len(retired') <= 2
  <2>1. CASE MemRetires(in) /\ IdRetires(in)
    <3>1. WritebackStage /\ mem_in_wb /\ instr_valid
      BY <1>6, <2>1
    <3>2. mem.pc = hart_pc /\ id.pc = mem.next
      BY <1>4, <1>5, <3>1
    <3>3. ~debug_mode => mem.pc \notin bps /\ id.pc \notin bps
      BY <1>8, <3>1
    <3>. HIDE DEF mem, id
    <3>4. retired' = <<mem, id>>
      BY <1>2, <2>1
    <3>5. QED
      BY <3>2, <3>3, <3>4 DEF Promise!Stream, bps
  <2>2. CASE MemRetires(in) /\ ~IdRetires(in)
    <3>1. mem.pc = hart_pc
      BY <1>4, <1>6, <2>2
    <3>2. ~debug_mode => mem.pc \notin bps
      BY <1>6, <1>8, <2>2
    <3>. HIDE DEF mem, id
    <3>3. retired' = <<mem>>
      BY <1>2, <2>2
    <3>4. QED
      BY <3>1, <3>2, <3>3 DEF Promise!Stream, bps
  <2>3. CASE ~MemRetires(in) /\ IdRetires(in)
    <3>1. id.pc = hart_pc
      BY <1>4, <1>6, <1>7, <2>3
    <3>2. ~debug_mode => id.pc \notin bps
      BY <1>6, <1>8, <2>3
    <3>. HIDE DEF mem, id
    <3>3. retired' = <<id>>
      BY <1>2, <2>3
    <3>4. QED
      BY <3>1, <3>2, <3>3 DEF Promise!Stream, bps
  <2>4. CASE ~MemRetires(in) /\ ~IdRetires(in)
    BY <1>2, <2>4 DEF Promise!Stream
  <2>5. QED
    BY <2>1, <2>2, <2>3, <2>4
\* Where the hart stands after what has completed.
<1>10. Promise!reached = IF IdRetires(in) THEN Follow(instr, pc_id)
                         ELSE IF MemRetires(in) THEN NextPc(mem_pc)
                         ELSE hart_pc
  <2>1. /\ MemRetires(in) /\ IdRetires(in) => Promise!reached = id.next
        /\ MemRetires(in) /\ ~IdRetires(in) => Promise!reached = mem.next
        /\ ~MemRetires(in) /\ IdRetires(in) => Promise!reached = id.next
        /\ ~MemRetires(in) /\ ~IdRetires(in) => Promise!reached = hart_pc
    <3>. HIDE DEF mem, id
    <3>1. QED
      BY <1>2 DEF Promise!reached
  <2>2. QED
    BY <2>1
<1>11. hart_pc' = Promise!reached
  <2>1. open_in_wb' <=> mem_in_wb' \/ (WritebackStage /\ lsu_err_q')
    BY ConfigKept DEF open_in_wb
  <2>2. lsu_err_q' <=> in.resp = "error"
    BY Answers DEF Cycle, CtrlCycle, lsu_err_q, exc_req_lsu
  <2>3. CASE open_in_wb'
    <3>1. hart_pc' = wb_pc'
      BY <2>3, HartPcNext
    <3>2. CASE instr_id_done(in)
      <4>1. instr_executing(in)
        BY <3>2, Leaving
      <4>2. mem_in_wb' /\ WritebackStage /\ lsu_req_dec
        BY <2>1, <2>2, <2>3, <3>2, <4>1, Leaving, MemStep
      <4>3. wb_pc' = pc_id /\ ~IdRetires(in) /\ instr_valid
        BY <3>2, <4>1, <4>2, WbStep, Leaving DEF IdRetires, lsu_req_dec
      <4>4. mem_in_wb => MemRetires(in)
        BY <4>1, <4>2, Leaving, Answers, InputFields DEF IInv, Response, MemRetires
      <4>5. QED
        BY <1>4, <1>5, <1>6, <1>10, <3>1, <4>2, <4>3, <4>4
    <3>3. CASE ~instr_id_done(in)
      <4>1. mem_in_wb /\ wb_pc' = wb_pc /\ ~MemRetires(in)
        BY <2>1, <2>2, <2>3, <3>3, Answers, MemStep DEF MemRetires
      <4>2. ~IdRetires(in)
        BY <3>3 DEF IdRetires
      <4>3. QED
        BY <1>4, <1>10, <3>1, <4>1, <4>2
    <3>4. QED
      BY <3>2, <3>3
  <2>4. CASE ~open_in_wb'
    <3>1. hart_pc' = IF ~instr_valid THEN pc_if
                     ELSE IF IdRetires(in) THEN Follow(instr, pc_id)
                     ELSE IF ~WritebackStage /\ MemRetires(in) THEN NextPc(pc_id)
                     ELSE pc_id
      BY <2>4, AfterId
    <3>2. mem_in_wb => MemRetires(in)
      <4>1. mem_in_wb /\ ~instr_id_done(in) => in.resp # "none"
        BY <2>1, <2>4, MemStep
      <4>2. mem_in_wb /\ instr_id_done(in) => in.resp # "none"
        BY Leaving, Answers
      <4>3. mem_in_wb => in.resp # "error"
        BY <1>3, <2>1, <2>2, <2>4
      <4>4. QED
        BY <4>1, <4>2, <4>3, InputFields DEF IInv, Response, MemRetires
    <3>3. QED
      BY <1>4, <1>5, <1>6, <1>10, <3>1, <3>2
  <2>5. QED
    BY <2>3, <2>4
<1>12. Promise!Continue
  BY <1>1, <1>11 DEF Promise!Continue
<1>13. QED
  BY <1>9, <1>12 DEF Promise!Next

\* In the other states control is transferred, with the address of the first
\* instruction that has not completed, or nothing happens.
LEMMA QuietTransfers ==
  ASSUME IInv, Supported, NEW in \in Inputs, Cycle(in), ~controller_run
  PROVE  Promise!Next
<1>1. retired' = <<>> /\ transfer' = Transferred(in)
  BY QuietStep DEF Cycle, Observed
<1>2. Promise!reached = hart_pc /\ Promise!Stream /\ Len(retired') <= 2
  BY <1>1 DEF Promise!reached, Promise!Stream
<1>3. CtrlFsm(in, stall(in), csr_pipe_flush(in))
  BY DEF Cycle, CtrlCycle
<1>4. ~mem_in_wb /\ (open_in_wb <=> WritebackStage /\ lsu_err_q)
  BY Quiet DEF open_in_wb
<1>5. ctrl_fsm # "FLUSH" => ~open_in_wb /\ ~open_in_id
  BY <1>4 DEF IInv, InFlight, controller_run, open_in_id
<1>6. ctrl_fsm \notin {"FLUSH", "DBG_TAKEN_ID"} => hart_pc = pc_if
  BY <1>5, HartPc
<1>7. hart_pc' = IF ctrl_fsm' = "DBG_TAKEN_ID" THEN pc_id
                 ELSE IF pc_set(in) THEN pc_if' ELSE pc_if
  <2>1. ~open_in_wb'
    BY QuietStep DEF open_in_wb, mem_in_wb, lsu_err_q
  <2>2. CASE New(in)
    <3>1. ctrl_fsm' = "DECODE" /\ instr_valid' /\ pc_id' = pc_if /\ ~pc_set(in)
      BY <2>2, QuietGoes, IfStep DEF IInv
    <3>2. QED
      BY <2>1, <3>1, HartPcNext DEF open_in_id
  <2>3. CASE ~New(in)
    <3>1. ~instr_valid' /\ pc_id' = pc_id /\ (~pc_set(in) => pc_if' = pc_if)
      BY <2>3, QuietStep, IfStep DEF IInv
    <3>2. QED
      BY <2>1, <3>1, HartPcNext DEF open_in_id
  <2>4. QED
    BY <2>2, <2>3
<1>8. pc_set(in) <=> redirect(in) # {}
  BY QuietStep
<1>9. pc_set(in) => pc_if' \in redirect(in)
  BY QuietStep, IfStep DEF IInv
<1>10. CASE ctrl_fsm \in {"RESET", "BOOT_SET"}
  <2>1. Boot
    BY <1>3, <1>10
    DEF CtrlFsm, FallAsleep, Sleep, FirstFetch, Decode, IrqTaken, DbgTaken, Flush
  <2>2. redirect(in) = {Vector["BOOT"]}
    BY <1>10 DEF redirect
  <2>3. hart_pc' = Vector["BOOT"]
    BY <1>7, <1>8, <1>9, <2>1, <2>2 DEF Boot, ToState
  <2>4. transfer' = <<[kind |-> "boot", cause |-> "none", pc |-> pc_if, lines |-> {}]>>
    BY <1>1, <1>10 DEF Transferred
  <2>5. debug_mode' = debug_mode
    BY <2>1 DEF Boot, KeepModes
  <2>6. Promise!Boot
    BY <1>2, <1>6, <1>10, <2>3, <2>4, <2>5 DEF Promise!Boot, Promise!To
  <2>7. QED
    BY <1>2, <2>6 DEF Promise!Next
<1>11. CASE ctrl_fsm \in {"WAIT_SLEEP", "SLEEP", "FIRST_FETCH"}
            \/ (ctrl_fsm = "IRQ_TAKEN" /\ ~handle_irq(in))
  <2>1. redirect(in) = {} /\ transfer' = <<>>
    BY <1>1, <1>11 DEF redirect, Transferred
  <2>2. debug_mode' = debug_mode /\ ctrl_fsm' # "DBG_TAKEN_ID"
    BY <1>3, <1>11
    DEF CtrlFsm, Boot, FallAsleep, Sleep, FirstFetch, Decode, IrqTaken, DbgTaken, Flush, KeepModes, ToState
  <2>3. hart_pc' = hart_pc
    BY <1>6, <1>7, <1>8, <1>11, <2>1, <2>2
  <2>4. QED
    BY <1>2, <2>1, <2>2, <2>3 DEF Promise!Next, Promise!Continue
<1>12. CASE ctrl_fsm = "IRQ_TAKEN" /\ handle_irq(in)
  <2>1. IrqTaken(in)
    BY <1>3, <1>12
    DEF CtrlFsm, Boot, FallAsleep, Sleep, FirstFetch, Decode, DbgTaken, Flush
  <2>2. redirect(in) = {Vector["IRQ"]}
    BY <1>12 DEF redirect
  <2>3. hart_pc' = Vector["IRQ"]
    BY <1>7, <1>8, <1>9, <2>1, <2>2 DEF IrqTaken, ToState
  <2>4. transfer' = Transfer("interrupt", irq_cause(in), Lines(in)) /\ saved_pc = pc_if
    BY <1>1, <1>12 DEF Transferred, saved_pc
  <2>5. ~debug_mode /\ debug_mode' = debug_mode
    BY <1>12, <2>1 DEF IrqTaken, handle_irq
  <2>6. Promise!Interrupt
    BY <1>2, <1>6, <1>12, <2>3, <2>4, <2>5 DEF Promise!Interrupt, Promise!To, Transfer
  <2>7. QED
    BY <1>2, <2>6 DEF Promise!Next
<1>13. CASE ctrl_fsm \in {"DBG_TAKEN_IF", "DBG_TAKEN_ID"}
  <2>1. DbgTaken
    BY <1>3, <1>13
    DEF CtrlFsm, Boot, FallAsleep, Sleep, FirstFetch, Decode, IrqTaken, Flush
  <2>2. redirect(in) = {Vector["DBD"]}
    BY <1>13 DEF redirect
  <2>3. hart_pc' = Vector["DBD"]
    BY <1>7, <1>8, <1>9, <2>1, <2>2 DEF DbgTaken, ToState
  <2>4. saved_pc = hart_pc
    BY <1>5, <1>6, <1>13, HartPc DEF saved_pc
  <2>5. \E c : transfer' = Transfer("debug", c, {})
    BY <1>1, <1>13 DEF Transferred
  <2>6. debug_mode' = TRUE
    BY <2>1 DEF DbgTaken
  <2>7. Promise!Debug
    BY <1>2, <2>3, <2>4, <2>5, <2>6 DEF Promise!Debug, Promise!To, Transfer
  <2>8. QED
    BY <1>2, <2>7 DEF Promise!Next
<1>14. CASE ctrl_fsm = "FLUSH"
  <2>1. Flush
    BY <1>3, <1>14
    DEF CtrlFsm, Boot, FallAsleep, Sleep, FirstFetch, Decode, IrqTaken, DbgTaken
  <2>2. ctrl_fsm' = "DBG_TAKEN_ID" <=> ebreak_to_debug
    <3>1. enter_debug_mode_prio => ~debug_mode
      BY <1>14 DEF IInv, Reasons
    <3>2. QED
      BY <2>1, <3>1 DEF Flush, ToState, after_flush, ebreak_to_debug
  <2>3. takes_exception => debug_mode' = debug_mode
    BY <2>1 DEF Flush, IInv, TypeOK
  <2>4. exc_req \/ (lsu_err_q /\ ~WritebackStage) => instr_valid
    BY <1>14 DEF IInv, Flushing, InFlight, Is, illegal_insn_o, instr_fetch_err
  <2>5. CASE ebreak_to_debug
    <3>1. takes_exception /\ ebrk_insn_prio
      BY <2>5 DEF ebreak_to_debug
    <3>2. ~(WritebackStage /\ lsu_err_q)
      BY <3>1 DEF ebrk_insn_prio, exception_prio, wb_prio, lsu_err_q
    <3>3. open_in_id /\ ~open_in_wb
      BY <1>4, <2>4, <3>1, <3>2 DEF open_in_id, takes_exception
    <3>4. hart_pc = pc_id /\ hart_pc' = pc_id
      BY <1>7, <2>2, <2>5, <3>3, HartPc
    <3>5. transfer' = <<>>
      BY <1>1, <1>14, <2>5, <3>1 DEF Transferred
    <3>6. QED
      BY <1>2, <2>3, <3>1, <3>4, <3>5 DEF Promise!Next, Promise!Continue
  <2>6. CASE takes_exception /\ ~ebreak_to_debug
    <3>1. redirect(in) = {IF debug_mode THEN Vector["DBG_EXC"] ELSE Vector["EXC"]}
      BY <1>14, <2>6 DEF redirect
    <3>2. hart_pc' = IF debug_mode THEN Vector["DBG_EXC"] ELSE Vector["EXC"]
      BY <1>7, <1>8, <1>9, <2>2, <2>6, <3>1
    <3>3. saved_pc = hart_pc
      <4>1. CASE WritebackStage /\ lsu_err_q
        BY <1>4, <1>14, <4>1, HartPc DEF saved_pc
      <4>2. CASE ~(WritebackStage /\ lsu_err_q)
        <5>1. open_in_id
          BY <2>4, <2>6, <4>2, Builds DEF open_in_id, takes_exception, IInv
        <5>2. QED
          BY <1>4, <1>14, <4>2, <5>1, HartPc DEF saved_pc
      <4>3. QED
        BY <4>1, <4>2
    <3>4. transfer' = Transfer("exception", exception_prio, {})
      BY <1>1, <1>14, <2>6 DEF Transferred
    <3>5. Promise!Exception
      BY <1>2, <2>3, <2>6, <3>2, <3>3, <3>4 DEF Promise!Exception, Promise!To, Transfer
    <3>6. QED
      BY <1>2, <3>5 DEF Promise!Next
  <2>7. CASE ~takes_exception /\ (Is("mret") \/ Is("dret"))
    <3>1. ctrl_fsm' # "DBG_TAKEN_ID" /\ ~lsu_err_q
      BY <2>2, <2>7 DEF ebreak_to_debug, takes_exception
    <3>2. redirect(in) = Pc
      BY <1>14, <2>7 DEF redirect, ebreak_to_debug
    <3>3. hart_pc' \in Pc
      BY <1>7, <1>8, <1>9, <3>1, <3>2, Addresses
    <3>4. open_in_id
      BY <2>7 DEF open_in_id, Is
    <3>5. hart_pc = pc_id /\ saved_pc = pc_id
      BY <1>4, <1>14, <3>1, <3>4, HartPc DEF saved_pc
    <3>6. transfer' = Transfer(instr.kind, "none", {})
      BY <1>1, <1>14, <2>7 DEF Transferred
    <3>7. CASE Is("mret")
      <4>1. debug_mode' = debug_mode
        BY <2>1, <3>7 DEF Flush, IInv, TypeOK
      <4>2. Promise!Return
        BY <1>2, <3>3, <3>5, <3>6, <3>7, <4>1 DEF Promise!Return, Promise!To, Transfer, Is
      <4>3. QED
        BY <1>2, <4>2 DEF Promise!Next
    <3>8. CASE Is("dret") /\ ~Is("mret")
      <4>1. debug_mode /\ debug_mode' = FALSE
        BY <1>14, <2>1, <2>7, <3>8 DEF Flush, IInv, Flushing, TypeOK, Is
      <4>2. Promise!DebugExit
        BY <1>2, <3>3, <3>5, <3>6, <3>8, <4>1 DEF Promise!DebugExit, Promise!To, Transfer, Is
      <4>3. QED
        BY <1>2, <4>2 DEF Promise!Next
    <3>9. QED
      BY <2>7, <3>7, <3>8
  <2>8. CASE ~takes_exception /\ ~Is("mret") /\ ~Is("dret")
    <3>1. Is("wfi") \/ Is("csr")
      BY <1>14, <2>8 DEF IInv, Flushing
    <3>2. ~open_in_id /\ ~open_in_wb
      BY <1>4, <1>14, <2>8, <3>1 DEF open_in_id, takes_exception, Is
    <3>3. redirect(in) = {} /\ transfer' = <<>>
      BY <1>1, <1>14, <2>8 DEF redirect, Transferred, ebreak_to_debug
    <3>4. hart_pc = pc_if /\ hart_pc' = pc_if
      BY <1>7, <1>8, <1>14, <2>2, <2>8, <3>2, <3>3, HartPc DEF ebreak_to_debug
    <3>5. debug_mode' = debug_mode
      BY <2>1, <2>8 DEF Flush, IInv, TypeOK
    <3>6. QED
      BY <1>2, <3>3, <3>4, <3>5 DEF Promise!Next, Promise!Continue
  <2>9. QED
    BY <2>5, <2>6, <2>7, <2>8
<1>15. QED
  BY <1>10, <1>11, <1>12, <1>13, <1>14 DEF IInv, TypeOK, CtrlState, controller_run

\* In every build that is supported the pipeline executes any program like a hart that
\* completes one instruction after the other: none is lost, repeated, executed behind a
\* jump, at a breakpoint or after one that fails, and every trap saves the address of
\* the first one that has not completed.
THEOREM PipelineIsHart ==
  ASSUME Supported
  PROVE  Spec => ImplementsHart
<1>1. Init => Promise!Init
  <2>1. ASSUME Init
        PROVE  hart_pc = Vector["BOOT"] /\ Vector["BOOT"] \in Pc
    BY <2>1, Addresses DEF Init, IfInit, WbInit, CtrlInit, hart_pc, lsu_err_q, FixedPc
  <2>2. QED
    BY <2>1 DEF Init, CtrlInit, Promise!Init
<1>2. IInv /\ [Next]_vars => [Promise!Next]_Promise!hartVars
  <2>1. ASSUME IInv, Next
        PROVE  Promise!Next
    <3>1. PICK in \in Inputs : Cycle(in)
      BY <2>1 DEF Next
    <3>2. QED
      BY <2>1, <3>1, DecodeContinues, QuietTransfers
  <2>2. ASSUME UNCHANGED vars
        PROVE  UNCHANGED Promise!hartVars
    BY <2>2 DEF vars, ifVars, portVars, wbVars, ctrlVars, envVars, Promise!hartVars, hart_pc,
       takes_exception, lsu_err_q, WritebackStage
  <2>3. QED
    BY <2>1, <2>2
<1>3. QED
  BY Inductive, <1>1, <1>2, PTL DEF Spec, ImplementsHart, Promise!Spec

=============================================================================
