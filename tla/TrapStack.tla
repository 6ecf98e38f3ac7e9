------------------------------- MODULE TrapStack -------------------------------
(***************************************************************************)
(* What the trap registers promise to software: a stack of the contexts    *)
(* that traps have interrupted.  One level is kept, two from an NMI until  *)
(* the first return after it; software has to save the levels below.       *)
(* Debug mode has a level of its own, beside the stack.                    *)
(***************************************************************************)
EXTENDS Naturals, Sequences

CONSTANT Pcs   \* addresses

VARIABLES
  pc, priv, mie,   \* the context that is running
  saved,           \* contexts to return to, with the cause that interrupted them
  debug,           \* debug mode
  dsaved           \* the context debug mode has interrupted

stackVars == <<pc, priv, mie, saved, debug, dsaved>>

Priv  == {"M", "U"}
Cause == {"exception", "irq", "nmi"}
Frame == [pc : Pcs, priv : Priv, mie : BOOLEAN, cause : Cause]

two == Len(saved) = 2

Interrupted(cause) == [pc |-> pc, priv |-> priv, mie |-> mie, cause |-> cause]

\* The handler runs in M mode with interrupts disabled.
Handler == pc' \in Pcs /\ priv' = "M" /\ mie' = FALSE

Init ==
  /\ pc \in Pcs /\ priv = "M" /\ mie = FALSE
  /\ \E f \in Frame : saved = <<f>>
  /\ debug = FALSE /\ dsaved \in [pc : Pcs, priv : Priv]

Run == pc' \in Pcs /\ UNCHANGED <<priv, mie, saved, debug, dsaved>>

\* M mode software, or the debugger, prepares a return, or enables and disables interrupts.
Software ==
  /\ priv = "M"
  /\ \E f \in Frame : saved' = [saved EXCEPT ![1] = f]
  /\ mie' \in BOOLEAN
  /\ UNCHANGED <<pc, priv, debug, dsaved>>

Trap(cause) ==
  /\ ~debug
  /\ saved' = IF two \/ cause = "nmi"
                THEN <<Interrupted(cause), saved[1]>>
                ELSE <<Interrupted(cause)>>
  /\ Handler
  /\ UNCHANGED <<debug, dsaved>>

Exception == Trap("exception")
Interrupt == Trap("irq") /\ ~two /\ (mie \/ priv = "U")
Nmi       == Trap("nmi") /\ ~two

Return ==
  /\ priv = "M" /\ ~debug
  /\ pc' = saved[1].pc /\ priv' = saved[1].priv /\ mie' = saved[1].mie
  /\ saved' = IF two THEN <<saved[2]>>
              ELSE <<[pc |-> saved[1].pc, priv |-> "U", mie |-> TRUE,
                        cause |-> saved[1].cause]>>
  /\ UNCHANGED <<debug, dsaved>>

DebugEntry ==
  /\ ~debug /\ debug' = TRUE
  /\ dsaved' = [pc |-> pc, priv |-> priv]
  /\ pc' \in Pcs /\ priv' = "M"
  /\ UNCHANGED <<mie, saved>>

Debugger ==
  /\ debug
  /\ dsaved' \in [pc : Pcs, priv : Priv]
  /\ UNCHANGED <<pc, priv, mie, saved, debug>>

DebugExit ==
  /\ debug /\ debug' = FALSE
  /\ pc' = dsaved.pc /\ priv' = dsaved.priv
  /\ UNCHANGED <<mie, saved, dsaved>>

Next ==
  \/ Run \/ Software \/ Exception \/ Interrupt \/ Nmi \/ Return
  \/ DebugEntry \/ Debugger \/ DebugExit

Spec == Init /\ [][Next]_stackVars
=============================================================================
