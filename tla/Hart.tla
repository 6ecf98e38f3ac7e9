--------------------------------- MODULE Hart ---------------------------------
(***************************************************************************)
(* What the pipeline promises the programmer: a hart that executes one     *)
(* instruction after the other.  Control leaves the stream of instructions *)
(* only between two of them, and the address that is saved is that of the  *)
(* first instruction that has not completed.                               *)
(***************************************************************************)
EXTENDS Naturals, Sequences

CONSTANTS
  Pcs,          \* instruction addresses
  Vectors       \* handler addresses

VARIABLES
  pc,         \* the first instruction that has not completed
  debug,      \* debug mode
  breakpoints,   \* addresses at which no instruction completes
  retired,    \* <<[pc, next], ...>> instructions that completed
  transfer    \* <<[kind, cause, pc]>> transfer of control, if there was one

hartVars == <<pc, debug, retired, transfer>>

\* The instructions completed follow each other from the current pc; outside
\* debug mode none of them is at a breakpoint.
Stream ==
  \A i \in 1 .. Len(retired') :
    /\ retired'[i].pc = IF i = 1 THEN pc ELSE retired'[i - 1].next
    /\ ~debug => retired'[i].pc \notin breakpoints

\* Where the stream stands after them.
reached == IF retired' = <<>> THEN pc ELSE retired'[Len(retired')].next

Continue ==
  /\ transfer' = <<>>
  /\ pc' = reached
  /\ UNCHANGED debug

\* Control is transferred, with the address it is transferred from.
To(kind, targets) ==
  /\ transfer' # <<>>
  /\ transfer'[1].kind = kind
  /\ transfer'[1].pc = reached
  /\ pc' \in targets

Boot      == To("boot", {Vectors["BOOT"]}) /\ UNCHANGED debug
Exception == /\ To("exception", {Vectors[IF debug THEN "DBG_EXC" ELSE "EXC"]})
             /\ UNCHANGED debug
Interrupt == To("interrupt", {Vectors["IRQ"]}) /\ ~debug /\ UNCHANGED debug
Debug     == To("debug", {Vectors["DBD"]}) /\ debug' = TRUE
Return    == /\ To("mret", Pcs) /\ UNCHANGED debug
DebugExit == To("dret", Pcs) /\ debug /\ debug' = FALSE

Next ==
  /\ Len(retired') <= 2
  /\ Stream
  /\ \/ Continue \/ Boot \/ Exception \/ Interrupt \/ Debug \/ Return
     \/ DebugExit

Init == debug = FALSE /\ retired = <<>> /\ transfer = <<>> /\ pc \in Pcs

Spec == Init /\ [][Next]_hartVars
=============================================================================
