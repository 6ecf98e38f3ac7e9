---------------------------- MODULE InstrStream ----------------------------
(***************************************************************************)
(* What an instruction fetch unit promises the core: after a branch to an  *)
(* address it hands over the instructions from that address on, each one   *)
(* assembled from the memory words that hold it, none skipped, none twice, *)
(* with the errors the memory reported for these words, until the next     *)
(* branch.  What is on the bus and how words are buffered is not visible   *)
(* here; how far ahead it has read is, as the words it has been given.     *)
(***************************************************************************)
EXTENDS Naturals, Sequences

CONSTANTS Words, Next4(_)     \* word addresses and the one after each
CONSTANT  Branches            \* addresses the core branches to

VARIABLES
  pc,         \* address of the next instruction
  got,        \* words read since the branch and not used up, oldest first
  last,       \* <<instruction>> handed over by the last step
  running     \* has there been a branch?

Halves == {0, 1}
Address == [word : Words, half : Halves]

\* A memory word as in FetchFifo: which halves start like a compressed
\* instruction, and whether reading it failed.
Word32 == [word : Words, lo : BOOLEAN, hi : BOOLEAN, err : BOOLEAN]

\* The instruction at address a is in the first of the words s, or in the first
\* two.  One that cannot be read is taken to be 32 bits long.
IsCompressed(a, s) == ~s[1].err /\ (IF a.half = 0 THEN s[1].lo ELSE s[1].hi)
Spans(a, s)        == a.half = 1 /\ ~IsCompressed(a, s)

\* Its first word holds the instruction after it as well.
Shares(a, s)       == a.half = 0 /\ IsCompressed(a, s)

Assemble(a, s) ==
  [pc         |-> a,
   compressed |-> IsCompressed(a, s),
   low        |-> s[1].word,
   high       |-> IF Spans(a, s) THEN s[2].word ELSE s[1].word,
   err        |-> s[1].err \/ (Spans(a, s) /\ s[2].err),
   err_plus2  |-> Spans(a, s) /\ ~s[1].err /\ s[2].err]

After(a, s) ==
  [word |-> IF Shares(a, s) THEN a.word ELSE Next4(a.word),
   half |-> IF IsCompressed(a, s) THEN 1 - a.half ELSE a.half]

Init == pc \in Address /\ got = <<>> /\ last = <<>> /\ ~running

Redirect(a) == pc' = a /\ got' = <<>> /\ last' = <<>> /\ running' = TRUE

\* The words there are in a step: one may arrive, and be used at once.
Given == {got} \cup {Append(got, w) : w \in Word32}

Deliver(s) ==
  /\ running
  /\ s # <<>> /\ s[1].word = pc.word
  /\ Spans(pc, s) => Len(s) > 1 /\ s[2].word = Next4(pc.word)
  /\ last' = <<Assemble(pc, s)>>
  /\ pc' = After(pc, s)
  /\ got' = IF Shares(pc, s) THEN s ELSE Tail(s)
  /\ UNCHANGED running

Nothing(s) == got' = s /\ last' = <<>> /\ UNCHANGED <<pc, running>>

Next ==
  \/ \E a \in Branches : Redirect(a)
  \/ \E s \in Given : Deliver(s) \/ Nothing(s)

Spec == Init /\ [][Next]_<<pc, got, last, running>>
=============================================================================
