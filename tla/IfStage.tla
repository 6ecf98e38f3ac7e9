------------------------------- MODULE IfStage -------------------------------
(***************************************************************************)
(* The end of the instruction fetch stage, rtl/ibex_if_stage.sv: the       *)
(* address of the next instruction, the PC multiplexer and the IF-ID       *)
(* pipeline register.  The instruction stream itself is what InstrStream   *)
(* promises: in each cycle the instruction at pc_if is there or is not.    *)
(*                                                                         *)
(* Data abstraction: addresses are a small ring, in which every            *)
(* instruction is one address long.  An instruction is what the pipeline   *)
(* control tells apart: its kind, the target it jumps to, whether it reads *)
(* the register the instruction before it writes, and whether its fetch    *)
(* failed (then the other fields are what the decoder makes of junk).      *)
(***************************************************************************)
EXTENDS Naturals

CONSTANTS
  PCS,      \* number of instruction addresses
  Vector,   \* where the PC multiplexer's fixed inputs lead
  Instrs    \* the instructions of the programs considered

Pc == 0 .. PCS - 1

NextPc(pc) == (pc + 1) % PCS

Kind == {"alu", "alu_multi", "muldiv", "load", "store", "jump",
         "branch_taken", "branch_not_taken", "ecall", "ebreak", "illegal",
         "mret", "dret", "wfi", "csr"}

\* The decoder reads no register for these.
NoSource == {"ecall", "ebreak", "mret", "dret", "wfi"}

Instr ==
  {i \in [kind : Kind, target : Pc, reads : BOOLEAN, fetch_err : BOOLEAN] :
     i.reads => i.kind \notin NoSource}

FixedPc == {"BOOT", "EXC", "IRQ", "DBD", "DBG_EXC"}

ASSUME IfAssumption ==
  /\ PCS \in Nat \ {0}
  /\ Vector \in [FixedPc -> Pc]
  /\ Instrs \subseteq Instr

VARIABLES
  pc_if,          \* address of the instruction in IF
  instr_valid,    \* instr_valid_id_q
  instr,          \* the instruction in ID
  pc_id           \* its address

ifVars == <<pc_if, instr_valid, instr, pc_id>>

\* An invalid instruction register holds a stale instruction that every reader
\* masks with instr_valid; the model stores NoInstr.
NoInstr == [kind |-> "alu", target |-> 0, reads |-> FALSE, fetch_err |-> FALSE]

\* Where an instruction that completes continues.
Follow(i, pc) ==
  IF i.kind \in {"jump", "branch_taken"} THEN i.target ELSE NextPc(pc)

IfInit ==
  /\ pc_if = Vector["BOOT"]
  /\ instr_valid = FALSE
  /\ instr = NoInstr
  /\ pc_id = Vector["BOOT"]

\* One clock edge: fetched says that the instruction at pc_if is there; pc_set
\* restarts the fetch at one of the targets.
IfCycle(fetched, id_in_ready, instr_valid_clear, pc_set, targets) ==
  LET new  == fetched /\ id_in_ready /\ ~pc_set
      keep == instr_valid /\ ~instr_valid_clear
  IN  /\ instr_valid' = (new \/ keep)
      /\ instr' \in IF new THEN Instrs ELSE IF keep THEN {instr} ELSE {NoInstr}
      /\ pc_id' = IF new THEN pc_if ELSE pc_id
      /\ pc_if' \in IF pc_set THEN targets
                    ELSE IF new THEN {NextPc(pc_if)} ELSE {pc_if}
=============================================================================
