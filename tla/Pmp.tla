---------------------------------- MODULE Pmp ----------------------------------
(***************************************************************************)
(* Physical memory protection: the PMP registers of                        *)
(* rtl/ibex_cs_registers.sv, which software writes under the rules of      *)
(* their locks, and the check of every access in rtl/ibex_pmp.sv.  An      *)
(* address is the index of a word, that is bits 33 to 2 of the code's.     *)
(***************************************************************************)
EXTENDS PmpReference

CONSTANTS
  PMPNumRegions, PMPGranularity,
  WIDTH,         \* bits of a word's address
  DmWords,       \* words of the debug module
  Programs       \* programs: the fields of pmpcfg, the values of pmpaddr and
                 \* the values of mseccfg that each of them writes

Region == 0 .. PMPNumRegions - 1
Sec    == [mml : BOOLEAN, mmwp : BOOLEAN, rlb : BOOLEAN]

ASSUME PmpAssumption ==
  /\ PMPNumRegions \in 1 .. 16 /\ PMPGranularity \in Nat
  /\ WIDTH \in Nat /\ PMPGranularity <= WIDTH
  /\ Programs \subseteq [cfg  : SUBSET Cfg,
                          addr : SUBSET (0 .. Pow2[WIDTH] - 1),
                          sec  : SUBSET Sec]

VARIABLES
  pmp_cfg, pmp_addr, pmp_mseccfg,
  program   \* the program that runs, always the same

vars == <<pmp_cfg, pmp_addr, pmp_mseccfg, program>>

-----------------------------------------------------------------------------
(* The registers. *)

\* Low bits of an address that are not kept.
Dropped == IF PMPGranularity = 0 THEN 0 ELSE PMPGranularity - 1

\* What a pmpaddr register reads as, and the check uses, depends on the mode.
pmp_addr_rdata(r) ==
  LET ones == pmp_addr[r] * Pow2[Dropped] + Pow2[Dropped] - 1
  IN  IF PMPGranularity > 0 /\ pmp_cfg[r].mode \in {"OFF", "TOR"}
        THEN (ones \div Pow2[PMPGranularity]) * Pow2[PMPGranularity] ELSE ones

pmp_cfg_locked(r) == pmp_cfg[r].lock /\ ~pmp_mseccfg.rlb

\* Mutant: the reserved combination is kept.
pmp_cfg_wdata_Reserved(w) ==
  [w EXCEPT !.mode = IF w.mode = "NA4" /\ PMPGranularity > 0 THEN "OFF" ELSE w.mode]

\* W without R is reserved without MML; there is no NA4 in a larger granule.
pmp_cfg_wdata(w) ==
  [w EXCEPT !.mode = IF w.mode = "NA4" /\ PMPGranularity > 0 THEN "OFF" ELSE w.mode,
            !.perm = IF pmp_mseccfg.mml \/ "R" \in w.perm THEN w.perm
                     ELSE w.perm \ {"W"}]

\* Mutant: rules shared by M and U mode are forgotten.
is_mml_m_exec_cfg_NotShared(cfg) ==
  cfg.lock /\ cfg.perm \in {{"X"}, {"R", "X"}}

is_mml_m_exec_cfg(cfg) ==
  cfg.lock /\ cfg.perm \in {{"X"}, {"W"}, {"W", "X"}, {"R", "X"}}

pmp_cfg_wr_suppress(w) ==
  pmp_mseccfg.mml /\ ~pmp_mseccfg.rlb /\ is_mml_m_exec_cfg(pmp_cfg_wdata(w))

\* A pmpcfg register holds the fields of four entries, each with its own lock.
WritePmpcfg ==
  \E n \in {r \div 4 : r \in Region} :
    \E w \in [{r \in Region : r \div 4 = n} -> program.cfg] :
      /\ pmp_cfg' = [r \in Region |->
           IF r \in DOMAIN w /\ ~pmp_cfg_locked(r) /\ ~pmp_cfg_wr_suppress(w[r])
             THEN pmp_cfg_wdata(w[r]) ELSE pmp_cfg[r]]
      /\ UNCHANGED <<pmp_addr, pmp_mseccfg, program>>

\* Mutant: the lock of the region above does not count.
pmp_addr_we_OwnLock(r) == ~pmp_cfg_locked(r)

\* The address is also the bottom of the region above, when that is TOR.
pmp_addr_we(r) ==
  /\ ~pmp_cfg_locked(r)
  /\ r < PMPNumRegions - 1 =>
       ~pmp_cfg_locked(r + 1) \/ pmp_cfg[r + 1].mode # "TOR"

WritePmpaddr ==
  \E r \in Region, w \in program.addr :
    /\ pmp_addr_we(r)
    /\ pmp_addr' = [pmp_addr EXCEPT ![r] = w \div Pow2[Dropped]]
    /\ UNCHANGED <<pmp_cfg, pmp_mseccfg, program>>

any_pmp_entry_locked == \E r \in Region : pmp_cfg_locked(r)

WriteMseccfg ==
  \E w \in program.sec :
    /\ pmp_mseccfg' = [mml  |-> pmp_mseccfg.mml \/ w.mml,
                       mmwp |-> pmp_mseccfg.mmwp \/ w.mmwp,
                       rlb  |-> ~any_pmp_entry_locked /\ w.rlb]
    /\ UNCHANGED <<pmp_cfg, pmp_addr, program>>

Init ==
  /\ program \in Programs
  /\ pmp_cfg = [r \in Region |-> [lock |-> FALSE, mode |-> "OFF", perm |-> {}]]
  /\ pmp_addr = [r \in Region |-> 0]
  /\ pmp_mseccfg = [mml |-> FALSE, mmwp |-> FALSE, rlb |-> FALSE]

Next == WritePmpcfg \/ WritePmpaddr \/ WriteMseccfg

Spec == Init /\ [][Next]_vars

-----------------------------------------------------------------------------
(* The check of an access to a word. *)

Bit(a, b) == (a \div Pow2[b]) % 2

region_start_addr(r) ==
  IF pmp_cfg[r].mode # "TOR" THEN pmp_addr_rdata(r)
  ELSE IF r = 0 THEN 0 ELSE pmp_addr_rdata(r - 1)

\* Bits to compare: a NAPOT entry leaves out those with only ones below them.
region_addr_mask(r, b) ==
  \/ pmp_cfg[r].mode # "NAPOT"
  \/ \E k \in Dropped .. b - 1 : Bit(pmp_addr_rdata(r), k) = 0

region_match_eq(r, word) ==
  \A b \in PMPGranularity .. WIDTH - 1 :
    region_addr_mask(r, b) => Bit(word, b) = Bit(region_start_addr(r), b)

Granule(a) == a \div Pow2[PMPGranularity]

\* Mutant: a TOR region has its top too.
region_match_WithTop(r, word) ==
  CASE pmp_cfg[r].mode = "OFF"              -> FALSE
    [] pmp_cfg[r].mode \in {"NA4", "NAPOT"} -> region_match_eq(r, word)
    [] pmp_cfg[r].mode = "TOR" ->
         /\ \/ region_match_eq(r, word)
            \/ Granule(word) > Granule(region_start_addr(r))
         /\ Granule(word) <= Granule(pmp_addr_rdata(r))

region_match_all(r, word) ==
  CASE pmp_cfg[r].mode = "OFF"              -> FALSE
    [] pmp_cfg[r].mode \in {"NA4", "NAPOT"} -> region_match_eq(r, word)
    [] pmp_cfg[r].mode = "TOR" ->
         /\ \/ region_match_eq(r, word)
            \/ Granule(word) > Granule(region_start_addr(r))
         /\ Granule(word) < Granule(pmp_addr_rdata(r))

mml_perm_check(cfg, access, priv) ==
  IF "R" \notin cfg.perm /\ "W" \in cfg.perm
    THEN CASE ~cfg.lock /\ "X" \notin cfg.perm ->
                access = "R" \/ (access = "W" /\ priv = "M")
           [] ~cfg.lock /\ "X" \in cfg.perm -> access \in {"R", "W"}
           [] cfg.lock /\ "X" \notin cfg.perm -> access = "X"
           [] cfg.lock /\ "X" \in cfg.perm ->
                access = "X" \/ (access = "R" /\ priv = "M")
    ELSE IF cfg.perm = Access /\ cfg.lock THEN access = "R"
    ELSE access \in cfg.perm /\ (IF priv = "M" THEN cfg.lock ELSE ~cfg.lock)

orig_perm_check(cfg, access, priv) ==
  (priv = "M" /\ ~cfg.lock) \/ access \in cfg.perm

region_perm_check(r, access, priv) ==
  IF pmp_mseccfg.mml THEN mml_perm_check(pmp_cfg[r], access, priv)
  ELSE orig_perm_check(pmp_cfg[r], access, priv)

\* Where nothing matches: denied by mmwp, in U mode, or to execute under MML.
access_fault_check(word, access, priv) ==
  LET matched == {r \in Region : region_match_all(r, word)}
  IN  IF matched # {}
        THEN ~region_perm_check(Min(matched), access, priv)
        ELSE \/ pmp_mseccfg.mmwp \/ priv # "M"
             \/ pmp_mseccfg.mml /\ access = "X"

pmp_req_err(word, access, priv, debug_mode) ==
  ~(debug_mode /\ word \in DmWords) /\ access_fault_check(word, access, priv)

-----------------------------------------------------------------------------
(* Properties. *)

\* The words an entry covers in the architecture.
Covers(r) ==
  RegionOf(pmp_cfg[r].mode, pmp_addr_rdata(r),
           IF r = 0 THEN 0 ELSE pmp_addr_rdata(r - 1), PMPGranularity, WIDTH)

\* The comparators, masks and permission logic decide every access as the
\* architecture does; nothing keeps debug mode from the debug module.
DecidesAsSpecified ==
  \A word \in 0 .. Pow2[WIDTH] - 1, access \in Access, priv \in Priv, debug \in BOOLEAN :
    pmp_req_err(word, access, priv, debug)
      = IF debug /\ word \in DmWords THEN FALSE
        ELSE Denied(pmp_cfg, [r \in Region |-> Covers(r)], pmp_mseccfg,
                    priv, access, word)

\* Without MML no entry is left with the reserved combination, also not one
\* written before.
NoReservedRule ==
  ~pmp_mseccfg.mml =>
    \A r \in Region : "W" \in pmp_cfg[r].perm => "R" \in pmp_cfg[r].perm

\* No sequence of writes changes a locked rule, its permissions or the words it
\* covers, nor frees it.
LockedRuleKept ==
  [][\A r \in Region : pmp_cfg_locked(r) =>
       /\ pmp_cfg_locked(r)'
       /\ pmp_cfg'[r] = pmp_cfg[r]
       /\ Covers(r)' = Covers(r)]_vars

\* Under MML, without RLB, no rule that lets M mode execute can be added.
MExec(r) ==
  pmp_cfg[r].mode # "OFF" /\ "X" \in SmepmpAllows(pmp_cfg[r], "M")

NoNewMExec ==
  [][pmp_mseccfg.mml /\ ~pmp_mseccfg.rlb =>
       \A r \in Region : MExec(r)' => MExec(r)]_vars
=============================================================================
