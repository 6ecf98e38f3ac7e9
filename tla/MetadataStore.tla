----------------------------- MODULE MetadataStore ----------------------------
(***************************************************************************)
(* What the metadata is to the scripts: a set of fields to which one script *)
(* at a time adds some of its own, until it is destroyed.                   *)
(***************************************************************************)
CONSTANTS Scripts, Fields

VARIABLES db, lost

Init == db = {} /\ lost = FALSE

Update(s) == ~lost /\ UNCHANGED lost /\ \E f \in SUBSET Fields[s] : db' = db \cup f

Destroy == lost' = TRUE /\ db' = {}

Next == Destroy \/ \E s \in Scripts : Update(s)

Spec == Init /\ [][Next]_<<db, lost>>
=============================================================================
