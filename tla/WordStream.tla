------------------------------ MODULE WordStream ------------------------------
(***************************************************************************)
(* What an instruction cache promises: the words of memory one after the   *)
(* other from a branch target on, each as it was read after the last       *)
(* FENCE.I, and an error exactly if the bus reported one for that word.    *)
(* Between FENCE.I and its jump old words may still come.  A core that is  *)
(* given an error branches next, to its handler: until then nothing is     *)
(* promised.                                                               *)
(***************************************************************************)
EXTENDS Naturals

CONSTANTS Words, After(_), Data

VARIABLES
  next,       \* the word the core is owed next
  last,       \* <<word>> the core took in the last step
  running,    \* has there been a branch, and no error since?
  fenced      \* has there been a FENCE.I, and no branch since?

Init == next \in Words /\ last = <<>> /\ ~running /\ ~fenced

Redirect(w) == next' = w /\ last' = <<>> /\ running' = TRUE /\ fenced' = FALSE

\* A FENCE.I may come with any step but a jump of its own.
Fence == fenced' = TRUE \/ UNCHANGED fenced

Deliver(d) ==
  /\ running
  /\ d.word = next
  /\ d.old => fenced
  /\ last' = <<[datum |-> d, err |-> FALSE]>>
  /\ next' = After(next)
  /\ UNCHANGED running
  /\ Fence

DeliverError ==
  /\ running
  /\ \E d \in Data : d.bad /\ d.word = next /\ last' = <<[datum |-> d, err |-> TRUE]>>
  /\ running' = FALSE
  /\ next' \in Words
  /\ Fence

Nothing == last' = <<>> /\ UNCHANGED <<next, running>> /\ Fence

\* Before the first branch and after an error.
Unspecified == ~running /\ next' \in Words /\ UNCHANGED running /\ Fence

Next ==
  \/ \E w \in Words : Redirect(w)
  \/ \E d \in Data : ~d.bad /\ Deliver(d)
  \/ DeliverError
  \/ Nothing
  \/ Unspecified

Spec == Init /\ [][Next]_<<next, last, running, fenced>>
=============================================================================
