--------------------------------- MODULE MCPmp ---------------------------------
(* Instances of Pmp for TLC. *)
EXTENDS Pmp

MCDm == {1}

\* Matching: every mode and address, one permission to tell the entries apart.
Matching ==
  [cfg  |-> [lock : {FALSE}, mode : Mode, perm : {{}, {"R"}}],
   addr |-> 0 .. 2^WIDTH - 1,
   sec  |-> {}]

\* Permissions: every rule under every mseccfg, at one word.
Permissions ==
  [cfg  |-> [lock : BOOLEAN, mode : {"NA4"}, perm : SUBSET Access],
   addr |-> {0},
   sec  |-> Sec]

\* Locks: regions side by side and overlapping.
Locks ==
  [cfg  |-> [lock : BOOLEAN, mode : {"OFF", "TOR", "NAPOT"},
             perm : {{}, {"W"}, {"X"}}],
   addr |-> 0 .. 3,
   sec  |-> Sec]

MCPrograms == {Matching, Permissions, Locks}
=============================================================================
