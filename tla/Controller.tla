------------------------------ MODULE Controller ------------------------------
(***************************************************************************)
(* The core controller, rtl/ibex_controller.sv: it starts the core, puts   *)
(* it to sleep, and decides when an exception, an interrupt, a debug       *)
(* request or a returning instruction redirects the pipeline.              *)
(*                                                                         *)
(* One step is one clock edge.  The inputs of a cycle are a record `in':   *)
(* fetch (an instruction is there at pc_if), done, resp and intg (the LSU: *)
(* last part granted, answer, answer with an integrity error), ex_valid    *)
(* (the multiplier or divider has its result), nm_ext, irqs and            *)
(* irq_enabled (external NMI; pending interrupts; mstatus.MIE or U mode),  *)
(* debug_req, and exec (fetch enable).                                     *)
(***************************************************************************)
EXTENDS WritebackStage, FiniteSets

CONSTANTS
  Trigger,     \* addresses with a hardware breakpoint
  DcsrValues   \* what a debugger writes to dcsr

Dcsr == [step : BOOLEAN, ebreakm : BOOLEAN, ebreaku : BOOLEAN]

ASSUME ControllerAssumption ==
  /\ Trigger \subseteq Pc
  /\ DcsrValues \subseteq Dcsr

IrqLine == {"fast", "external", "software", "timer"}

VARIABLES
  ctrl_fsm,                  \* ctrl_fsm_cs
  nmi_mode,
  debug_mode,
  do_single_step,            \* do_single_step_q
  enter_debug_mode_prio,     \* enter_debug_mode_prio_q
  load_err_q, store_err_q,
  exc_req, illegal_insn,     \* exc_req_q, illegal_insn_q
  debug_cause,               \* debug_cause_q
  intg_err_pending,          \* mem_resp_intg_err_irq_pending_q
  priv_mode,                 \* priv_lvl_q, in the CSR file
  dcsr                       \* the bits of dcsr the controller reads, there too

ctrlVars == <<ctrl_fsm, nmi_mode, debug_mode, do_single_step,
              enter_debug_mode_prio, load_err_q, store_err_q, exc_req,
              illegal_insn, debug_cause, intg_err_pending, priv_mode, dcsr>>

CtrlState == {"RESET", "BOOT_SET", "WAIT_SLEEP", "SLEEP", "FIRST_FETCH",
              "DECODE", "FLUSH", "IRQ_TAKEN", "DBG_TAKEN_IF", "DBG_TAKEN_ID"}

DebugCause == {"none", "trigger", "ebreak", "haltreq", "step"}

-----------------------------------------------------------------------------
(* Exceptions. *)

Is(kind) == instr_valid /\ instr.kind = kind

load_err(in)  == in.resp = "error" /\ lsu_owed = "load"
store_err(in) == in.resp = "error" /\ lsu_owed = "store"
exc_req_lsu(in) == load_err(in) \/ store_err(in)

\* dret outside debug mode and mret in U mode are illegal; a wfi that mstatus.TW
\* traps is like an illegal instruction.
illegal_insn_o ==
  \/ Is("illegal")
  \/ Is("dret") /\ ~debug_mode
  \/ Is("mret") /\ priv_mode = "U"

illegal_insn_d == illegal_insn_o /\ ctrl_fsm # "FLUSH"

instr_fetch_err == instr_valid /\ instr.fetch_err

exc_req_d ==
  /\ Is("ecall") \/ Is("ebreak") \/ illegal_insn_d \/ instr_fetch_err
  /\ ctrl_fsm # "FLUSH"

lsu_err_q == load_err_q \/ store_err_q

wb_exception(in) == WritebackStage /\ (lsu_err_q \/ exc_req_lsu(in))
id_exception(in) == exc_req_d /\ ~wb_exception(in)

\* A CSR write asks for a flush in the cycle in which it is done.
special_req(in, csr_done) ==
  \/ Is("mret") \/ Is("dret") \/ Is("wfi") \/ csr_done
  \/ exc_req_d \/ exc_req_lsu(in)

id_wb_pending(in) == instr_valid \/ ~ready_wb(in)

\* The requests of the instruction in ID, in the order of their priority.
id_prio ==
  IF instr_fetch_err THEN "instr_fetch_err"
  ELSE IF illegal_insn THEN "illegal_insn"
  ELSE IF Is("ecall") THEN "ecall_insn"
  ELSE IF Is("ebreak") THEN "ebrk_insn"
  ELSE "none"

wb_prio ==
  IF store_err_q THEN "store_err" ELSE IF load_err_q THEN "load_err" ELSE "none"

\* With a writeback stage a memory error belongs to an older instruction.
exception_prio ==
  LET older   == IF WritebackStage THEN wb_prio ELSE id_prio
      younger == IF WritebackStage THEN id_prio ELSE wb_prio
  IN  IF older # "none" THEN older ELSE younger

ebrk_insn_prio == exception_prio = "ebrk_insn"

\* EBREAK enters debug mode instead of the exception handler.
ebreak_into_debug == IF priv_mode = "M" THEN dcsr.ebreakm ELSE dcsr.ebreaku

-----------------------------------------------------------------------------
(* Interrupts and debug requests. *)

irq_nm_int == MemECC /\ intg_err_pending
irq_nm(in) == in.nm_ext \/ irq_nm_int
irq_pending(in) == in.irqs # {}

\* Mutant: in IRQ_TAKEN the interrupt is not looked at again.
handle_irq_Latched(in) ==
  \/ ctrl_fsm = "IRQ_TAKEN"
  \/ /\ ~debug_mode /\ ~dcsr.step /\ ~nmi_mode
     /\ irq_nm(in) \/ (irq_pending(in) /\ in.irq_enabled)

handle_irq(in) ==
  /\ ~debug_mode /\ ~dcsr.step /\ ~nmi_mode
  /\ irq_nm(in) \/ (irq_pending(in) /\ in.irq_enabled)

do_single_step_d ==
  IF instr_valid THEN ~debug_mode /\ dcsr.step ELSE do_single_step

trigger_match == DbgTriggerEn /\ pc_if \in Trigger

enter_debug_mode_prio_d(in) == (in.debug_req \/ do_single_step_d) /\ ~debug_mode

enter_debug_mode(in) ==
  enter_debug_mode_prio_d(in) \/ (trigger_match /\ ~debug_mode)

debug_cause_d(in) ==
  IF trigger_match THEN "trigger"
  ELSE IF ebrk_insn_prio /\ ebreak_into_debug THEN "ebreak"
  ELSE IF in.debug_req THEN "haltreq"
  ELSE IF do_single_step_d THEN "step"
  ELSE "none"

\* Highest priority first; irq_fast stands for the fast interrupts.
irq_cause(in) ==
  IF irq_nm(in) /\ ~nmi_mode THEN IF in.nm_ext THEN "nmi" ELSE "nmi_int"
  ELSE IF "fast" \in in.irqs THEN "fast"
  ELSE IF "external" \in in.irqs THEN "external"
  ELSE IF "software" \in in.irqs THEN "software"
  ELSE "timer"

-----------------------------------------------------------------------------
(* The state machine.  What a state asks of the pipeline is in the outputs  *)
(* of the next section; the actions give the next state and the modes.      *)
(* sets: the instruction in ID redirects the fetch; csr_done: it is a CSR   *)
(* write that is done; stall: it cannot complete in this cycle.             *)

ToState(s) == ctrl_fsm' = s
KeepModes  == UNCHANGED <<nmi_mode, debug_mode>>

\* FIRST_FETCH, SLEEP and DECODE stop the IF stage in these cases.
pending_halt(in, stall, csr_done) ==
  CASE ctrl_fsm = "FIRST_FETCH" -> enter_debug_mode(in) \/ handle_irq(in)
    [] ctrl_fsm = "DECODE" ->
         /\ enter_debug_mode(in) \/ handle_irq(in)
         /\ stall \/ id_wb_pending(in) \/ ~special_req(in, csr_done)
    [] OTHER -> ctrl_fsm \in {"WAIT_SLEEP", "SLEEP", "FLUSH"}

halt_if(in, stall, csr_done) == pending_halt(in, stall, csr_done) \/ ~in.exec

retain_id(in, csr_done) == ctrl_fsm = "DECODE" /\ special_req(in, csr_done)

id_in_ready(in, stall, csr_done) ==
  ~stall /\ ~halt_if(in, stall, csr_done) /\ ~retain_id(in, csr_done)

controller_run == ctrl_fsm = "DECODE"

Boot ==
  /\ ctrl_fsm \in {"RESET", "BOOT_SET"}
  /\ ToState(IF ctrl_fsm = "RESET" THEN "BOOT_SET" ELSE "FIRST_FETCH")
  /\ KeepModes

FallAsleep ==
  ctrl_fsm = "WAIT_SLEEP" /\ ToState("SLEEP") /\ KeepModes

\* In debug mode and while stepping wfi is a nop.
wake(in) ==
  irq_nm(in) \/ irq_pending(in) \/ in.debug_req \/ debug_mode \/ dcsr.step

\* Mutant: an interrupt that is masked does not wake the core.
Sleep_EnabledOnly(in) ==
  /\ ctrl_fsm = "SLEEP"
  /\ ToState(IF handle_irq(in) \/ in.debug_req \/ debug_mode \/ dcsr.step
               THEN "FIRST_FETCH" ELSE "SLEEP")
  /\ KeepModes

Sleep(in) ==
  /\ ctrl_fsm = "SLEEP"
  /\ ToState(IF wake(in) THEN "FIRST_FETCH" ELSE "SLEEP")
  /\ KeepModes

FirstFetch(in, stall, csr_done) ==
  /\ ctrl_fsm = "FIRST_FETCH"
  /\ ToState(IF enter_debug_mode(in) THEN "DBG_TAKEN_IF"
             ELSE IF handle_irq(in) THEN "IRQ_TAKEN"
             ELSE IF id_in_ready(in, stall, csr_done) THEN "DECODE"
             ELSE "FIRST_FETCH")
  /\ KeepModes

\* Mutant: debug requests and interrupts wait for an ID stage that takes instructions,
\* while that waits for them.
Decode_WhenReady(in, stall, csr_done) ==
  /\ ctrl_fsm = "DECODE"
  /\ ToState(IF special_req(in, csr_done)
               THEN IF ready_wb(in) \/ wb_exception(in) THEN "FLUSH" ELSE "DECODE"
             ELSE IF ~id_in_ready(in, stall, csr_done) \/ id_wb_pending(in) THEN "DECODE"
             ELSE IF enter_debug_mode(in) THEN "DBG_TAKEN_IF"
             ELSE IF handle_irq(in) THEN "IRQ_TAKEN"
             ELSE "DECODE")
  /\ KeepModes

\* A special request waits until the instruction in writeback has completed or
\* failed; debug requests and interrupts wait until ID and WB are empty.
Decode(in, stall, csr_done) ==
  /\ ctrl_fsm = "DECODE"
  /\ ToState(IF special_req(in, csr_done)
               THEN IF ready_wb(in) \/ wb_exception(in) THEN "FLUSH" ELSE "DECODE"
             ELSE IF stall \/ id_wb_pending(in) THEN "DECODE"
             ELSE IF enter_debug_mode(in) THEN "DBG_TAKEN_IF"
             ELSE IF handle_irq(in) THEN "IRQ_TAKEN"
             ELSE "DECODE")
  /\ KeepModes

\* The interrupt may have gone since it was seen.
IrqTaken(in) ==
  /\ ctrl_fsm = "IRQ_TAKEN"
  /\ ToState("DECODE")
  /\ nmi_mode' = (nmi_mode \/ (handle_irq(in) /\ irq_nm(in)))
  /\ UNCHANGED debug_mode

DbgTaken ==
  /\ ctrl_fsm \in {"DBG_TAKEN_IF", "DBG_TAKEN_ID"}
  /\ ToState("DECODE")
  /\ debug_mode' = TRUE
  /\ UNCHANGED nmi_mode

takes_exception == exc_req \/ lsu_err_q

ebreak_to_debug ==
  takes_exception /\ ebrk_insn_prio /\ (debug_mode \/ ebreak_into_debug)

\* FLUSH: the state after it, unless debug mode is entered with priority.
after_flush ==
  IF ebreak_to_debug THEN "DBG_TAKEN_ID"
  ELSE IF ~takes_exception /\ Is("wfi") THEN "WAIT_SLEEP"
  ELSE "DECODE"

Flush ==
  /\ ctrl_fsm = "FLUSH"
  /\ ToState(IF enter_debug_mode_prio /\ ~(ebrk_insn_prio /\ ebreak_into_debug)
               THEN "DBG_TAKEN_IF" ELSE after_flush)
  /\ nmi_mode' = (nmi_mode /\ ~(~takes_exception /\ Is("mret")))
  /\ debug_mode' = (debug_mode /\ ~(~takes_exception /\ ~Is("mret") /\ Is("dret")))

CtrlFsm(in, stall, csr_done) ==
  \/ Boot \/ FallAsleep \/ Sleep(in)
  \/ FirstFetch(in, stall, csr_done) \/ Decode(in, stall, csr_done)
  \/ IrqTaken(in) \/ DbgTaken \/ Flush

-----------------------------------------------------------------------------
(* Outputs. *)

flush_id ==
  \/ ctrl_fsm \in {"WAIT_SLEEP", "SLEEP", "DBG_TAKEN_IF", "DBG_TAKEN_ID"}
  \/ ctrl_fsm = "FLUSH" /\ ~ebreak_to_debug

instr_valid_clear(in, stall, csr_done) ==
  ~(stall \/ retain_id(in, csr_done)) \/ flush_id

\* Where the PC multiplexer leads in this cycle, if the PC is set; the return
\* addresses mepc and depc, which the CSR file keeps, may be any address.
redirect(in) ==
  CASE ctrl_fsm \in {"RESET", "BOOT_SET"} -> {Vector["BOOT"]}
    [] ctrl_fsm = "IRQ_TAKEN" -> IF handle_irq(in) THEN {Vector["IRQ"]} ELSE {}
    [] ctrl_fsm \in {"DBG_TAKEN_IF", "DBG_TAKEN_ID"} -> {Vector["DBD"]}
    [] ctrl_fsm = "FLUSH" ->
         IF ebreak_to_debug THEN {}
         ELSE IF takes_exception
           THEN {IF debug_mode THEN Vector["DBG_EXC"] ELSE Vector["EXC"]}
         ELSE IF Is("mret") \/ Is("dret") THEN Pc
         ELSE {}
    [] OTHER -> {}

\* Mutant: the address of the failing access is lost to the instruction in ID.
saved_pc_IdOnly == IF ctrl_fsm \in {"IRQ_TAKEN", "DBG_TAKEN_IF"} THEN pc_if ELSE pc_id

\* The address csr_save_if_o, csr_save_id_o or csr_save_wb_o selects.
saved_pc ==
  IF ctrl_fsm \in {"IRQ_TAKEN", "DBG_TAKEN_IF"} THEN pc_if
  ELSE IF ctrl_fsm = "FLUSH" /\ WritebackStage /\ lsu_err_q THEN wb_pc
  ELSE pc_id

\* The CSR file saves the state it interrupts, and goes to M mode.
csr_save_cause(in) ==
  \/ ctrl_fsm = "IRQ_TAKEN" /\ handle_irq(in)
  \/ ctrl_fsm = "DBG_TAKEN_IF"
  \/ ctrl_fsm = "DBG_TAKEN_ID" /\ ebreak_into_debug /\ ~debug_mode
  \/ ctrl_fsm = "FLUSH" /\ takes_exception /\ ~ebreak_to_debug

\* A return restores the level in mstatus or dcsr, which may be any.
csr_restore ==
  ctrl_fsm = "FLUSH" /\ ~takes_exception /\ (Is("mret") \/ Is("dret"))

Priv == {"M", "U"}

\* Mutant: taking an external NMI drops the pending integrity error.
intg_err_clear_AnyNmi(in) == nmi_mode' /\ ~nmi_mode

\* The pending integrity error is cleared when the NMI is entered for it.
intg_err_clear(in) == nmi_mode' /\ ~nmi_mode /\ ~in.nm_ext

CtrlInit ==
  /\ ctrl_fsm = "RESET"
  /\ nmi_mode = FALSE /\ debug_mode = FALSE /\ do_single_step = FALSE
  /\ enter_debug_mode_prio = FALSE
  /\ load_err_q = FALSE /\ store_err_q = FALSE
  /\ exc_req = FALSE /\ illegal_insn = FALSE
  /\ debug_cause = "none"
  /\ intg_err_pending = FALSE
  /\ priv_mode = "M"
  /\ dcsr = [step |-> FALSE, ebreakm |-> FALSE, ebreaku |-> FALSE]

\* One clock edge.
CtrlCycle(in, stall, csr_done) ==
  /\ CtrlFsm(in, stall, csr_done)
  /\ do_single_step' = do_single_step_d
  /\ enter_debug_mode_prio' = enter_debug_mode_prio_d(in)
  /\ load_err_q' = load_err(in)
  /\ store_err_q' = store_err(in)
  /\ exc_req' = exc_req_d
  /\ illegal_insn' = illegal_insn_d
  /\ debug_cause' = debug_cause_d(in)
  /\ intg_err_pending' =
       IF intg_err_pending THEN ~intg_err_clear(in) ELSE MemECC /\ in.intg
  /\ priv_mode' \in IF csr_save_cause(in) THEN {"M"}
                    ELSE IF csr_restore THEN Priv ELSE {priv_mode}
  /\ dcsr' \in IF debug_mode /\ csr_done THEN DcsrValues ELSE {dcsr}
=============================================================================
