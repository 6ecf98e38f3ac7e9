--------------------------- MODULE MCLoadStoreUnit ---------------------------
(* Instances of LoadStoreUnit for TLC. *)
EXTENDS LoadStoreUnit

\* Words 1 and 2 of four are forbidden: an access that crosses a boundary finds
\* its second part, both, its first part or none of them forbidden.
MCDenied == {1, 2}

\* Words at every offset and split half words in every word; half words and bytes
\* that are not split in a word that is allowed and in one that is forbidden;
\* loads and stores; sign extension for split half words.
Offsets == [W |-> Lane, H |-> {1, 3}, B |-> {2}]
MCAccesses ==
  {a \in Access : /\ OffsetOf(a.addr) \in Offsets[a.type]
                  /\ a.type # "W" /\ OffsetOf(a.addr) # 3 => WordOf(a.addr) \in {0, 1}
                  /\ a.sext => ~a.we /\ a.type = "H" /\ OffsetOf(a.addr) = 3}
=============================================================================
