------------------------------ MODULE PmpReference ------------------------------
(***************************************************************************)
(* The physical memory protection of the RISC-V privileged architecture,   *)
(* with the Smepmp extension: which words an entry covers, and which       *)
(* accesses the entries allow.  An address is the index of a word.         *)
(***************************************************************************)
EXTENDS Integers, FiniteSetsExt

\* Powers of two, by recursion so that they can be reasoned about.
Pow2[n \in Nat] == IF n = 0 THEN 1 ELSE 2 * Pow2[n - 1]

Priv   == {"M", "U"}
Access == {"R", "W", "X"}

\* An entry: its mode, and the permissions given as the set of bits that are set.
Mode == {"OFF", "TOR", "NA4", "NAPOT"}
Cfg  == [lock : BOOLEAN, mode : Mode, perm : SUBSET Access]

\* The size of a naturally aligned region is given by the ones at the end.
TrailingOnes(addr, width) ==
  CHOOSE n \in 0 .. width :
    /\ addr % Pow2[n] = Pow2[n] - 1
    /\ n < width => addr % Pow2[n + 1] # Pow2[n + 1] - 1

\* The words that an entry covers; below is the address of the entry before it.
\* A granule of 2^G words is inside or outside as a whole.
RegionOf(mode, addr, below, G, width) ==
  LET size == Pow2[TrailingOnes(addr, width) + 1]
      from(a) == (a \div Pow2[G]) * Pow2[G]
  IN  CASE mode = "OFF"   -> {}
        [] mode = "NA4"   -> {addr}
        [] mode = "NAPOT" -> {w \in 0 .. Pow2[width] - 1 : w \div size = addr \div size}
        [] mode = "TOR"   -> from(below) .. from(addr) - 1

\* Smepmp: there are rules that M and U mode share.  Any other is a rule of M
\* mode when it is locked, and of U mode when it is not.
SmepmpAllows(cfg, priv) ==
  LET shared(m, u) == IF priv = "M" THEN m ELSE u
  IN  CASE ~cfg.lock /\ cfg.perm = {"W"}      -> shared({"R", "W"}, {"R"})
        [] ~cfg.lock /\ cfg.perm = {"W", "X"} -> shared({"R", "W"}, {"R", "W"})
        [] cfg.lock /\ cfg.perm = {"W"}       -> shared({"X"}, {"X"})
        [] cfg.lock /\ cfg.perm = {"W", "X"}  -> shared({"R", "X"}, {"X"})
        [] cfg.lock /\ cfg.perm = Access      -> shared({"R"}, {"R"})
        [] OTHER -> IF cfg.lock = (priv = "M") THEN cfg.perm ELSE {}

\* What a rule allows.  Without MML a rule binds M mode only when it is locked.
Allows(cfg, priv, mml) ==
  IF mml THEN SmepmpAllows(cfg, priv)
  ELSE IF priv = "M" /\ ~cfg.lock THEN Access ELSE cfg.perm

\* What is allowed where no entry matches.
AllowsElsewhere(priv, mseccfg) ==
  IF priv = "U" \/ mseccfg.mmwp THEN {}
  ELSE IF mseccfg.mml THEN Access \ {"X"} ELSE Access

\* The entry with the lowest number that covers the word decides.
Denied(entries, region, mseccfg, priv, access, word) ==
  LET hits == {r \in DOMAIN entries : word \in region[r]}
  IN  access \notin IF hits = {} THEN AllowsElsewhere(priv, mseccfg)
                    ELSE Allows(entries[Min(hits)], priv, mseccfg.mml)
=============================================================================
