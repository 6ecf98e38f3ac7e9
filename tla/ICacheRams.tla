------------------------------ MODULE ICacheRams ------------------------------
(***************************************************************************)
(* The memories of the instruction cache, rtl/ibex_icache.sv: the tag and  *)
(* data RAMs, the lookup that is in pipeline stage IC1, the choice of a    *)
(* way, the correction of ECC errors, and the invalidation that rewrites   *)
(* all tags under a new scramble key (the key handling is in ibex_top.sv). *)
(*                                                                         *)
(* A word of the address space is a number.  The data of the cache are the *)
(* words they were read from; `old' says that the last FENCE.I came after, *)
(* `bad' that the bus reported an error.                                   *)
(***************************************************************************)
EXTENDS Naturals, FiniteSets

CONSTANTS
  NUM_FB,          \* fill buffers
  WAYS,            \* IC_NUM_WAYS
  BEATS,           \* IC_LINE_BEATS, words in a line
  INDEXES,         \* IC_NUM_LINES, lines in a way
  LINES,           \* lines in the address space
  ICacheECC,       \* are RAM errors detected?
  ICacheScramble   \* does every invalidation change the scramble key?

ASSUME ICacheAssumption ==
  /\ {NUM_FB, WAYS, BEATS, INDEXES, LINES} \subseteq Nat \ {0}
  /\ NUM_FB >= 2
  /\ LINES % INDEXES = 0
  /\ {ICacheECC, ICacheScramble} \subseteq BOOLEAN

FB    == 0 .. NUM_FB - 1
Way   == 0 .. WAYS - 1
Beat  == 0 .. BEATS - 1
Index == 0 .. INDEXES - 1
Line  == 0 .. LINES - 1
Word  == 0 .. LINES * BEATS - 1

LineOf(w)  == w \div BEATS
BeatOf(w)  == w % BEATS
IndexOf(l) == l % INDEXES
TagOf(l)   == l \div INDEXES

WordAt(l, b) == l * BEATS + b
NextWord(w)  == (w + 1) % (LINES * BEATS)

\* What a tag RAM holds.  Unknown: never written, or under another key.
Invalid == LINES
Unknown == LINES + 1
Tag     == 0 .. LINES + 1

NoWord  == LINES * BEATS
Datum   == [word : Word \cup {NoWord}, old : BOOLEAN, bad : BOOLEAN]
Junk    == [word |-> NoWord, old |-> FALSE, bad |-> FALSE]
NoData  == [b \in Beat |-> Junk]
Aged(d) == [b \in Beat |-> [d[b] EXCEPT !.old = TRUE]]

\* An OR of data that differ is neither of them.
Merged(ds) == IF Cardinality(ds) = 1 THEN CHOOSE d \in ds : TRUE ELSE NoData

VARIABLES
  tags, data,             \* the RAMs: by index and way
  lookup,                 \* the lookup in IC1 with what the RAMs returned
  round_robin_way_q,
  ecc_correction,         \* tags to be invalidated after an ECC error
  inval_state_q,
  inval_index_q,
  scramble_req_q,         \* ibex_top waits for a new scramble key
  scramble_key_valid_q

ramVars   == <<tags, data, lookup, round_robin_way_q, ecc_correction>>
invalVars == <<inval_state_q, inval_index_q, scramble_req_q, scramble_key_valid_q>>

InvalState == {"OUT_OF_RESET", "AWAIT_SCRAMBLE_KEY", "INVAL_CACHE", "IDLE"}

NoLookup == [valid |-> FALSE, fb |-> 0, line |-> 0,
             tags |-> [w \in Way |-> Invalid], data |-> [w \in Way |-> NoData]]

NoCorrection == [write |-> FALSE, ways |-> {}, index |-> 0]

-----------------------------------------------------------------------------
(* Stage IC1. *)

tag_match_ic1 ==
  {w \in Way : lookup.valid /\ lookup.tags[w] = TagOf(lookup.line)}

tag_hit_ic1  == tag_match_ic1 # {}
hit_data_ic1 == Merged({lookup.data[w] : w \in tag_match_ic1})

invalid_ways == {w \in Way : lookup.tags[w] = Invalid}

\* A tag with an error may read as invalid: the way is anybody's choice.
sel_way_ic1(in) ==
  IF in.tag_err THEN in.way
  ELSE IF invalid_ways # {} THEN CHOOSE w \in invalid_ways :
                                   \A v \in invalid_ways : w <= v
  ELSE round_robin_way_q

ecc_err_ic1(in) ==
  lookup.valid /\ (in.tag_err \/ (in.data_err /\ tag_hit_ic1))

ecc_correction_d(in) ==
  IF ecc_err_ic1(in)
    THEN [write |-> TRUE,
          ways  |-> IF in.tag_err THEN Way ELSE tag_match_ic1,
          index |-> IndexOf(lookup.line)]
    ELSE NoCorrection

-----------------------------------------------------------------------------
(* Invalidation. *)

inval_write_req == inval_state_q = "INVAL_CACHE"

inval_block_cache(in) == inval_state_q # "IDLE" \/ in.inval

ic_scr_key_req(in) ==
  \/ inval_state_q = "OUT_OF_RESET" /\ ~scramble_key_valid_q
  \/ inval_state_q \in {"INVAL_CACHE", "IDLE"} /\ in.inval

\* Mutant: the tags are invalidated without waiting for the key.
inval_state_d_NoWait(in) ==
  CASE inval_state_q \in {"OUT_OF_RESET", "AWAIT_SCRAMBLE_KEY"} -> "INVAL_CACHE"
    [] inval_state_q = "INVAL_CACHE" ->
         IF inval_index_q = INDEXES - 1 THEN "IDLE" ELSE inval_state_q
    [] inval_state_q = "IDLE" -> IF in.inval THEN "INVAL_CACHE" ELSE inval_state_q

inval_state_d(in) ==
  CASE inval_state_q = "OUT_OF_RESET" -> "AWAIT_SCRAMBLE_KEY"
    [] inval_state_q = "AWAIT_SCRAMBLE_KEY" ->
         IF scramble_key_valid_q THEN "INVAL_CACHE" ELSE inval_state_q
    [] inval_state_q = "INVAL_CACHE" ->
         IF in.inval THEN "AWAIT_SCRAMBLE_KEY"
         ELSE IF inval_index_q = INDEXES - 1 THEN "IDLE" ELSE inval_state_q
    [] inval_state_q = "IDLE" ->
         IF in.inval THEN "AWAIT_SCRAMBLE_KEY" ELSE inval_state_q

inval_index_d ==
  CASE inval_state_q = "AWAIT_SCRAMBLE_KEY" /\ scramble_key_valid_q -> 0
    [] inval_state_q = "INVAL_CACHE" -> (inval_index_q + 1) % INDEXES
    [] OTHER -> inval_index_q

\* A new key arrives: what the RAMs hold can no longer be read.
new_key(in) == scramble_req_q /\ in.key

InvalCycle(in) ==
  /\ inval_state_q' = inval_state_d(in)
  /\ inval_index_q' = inval_index_d
  /\ scramble_req_q' =
       (ICacheScramble /\ IF scramble_req_q THEN ~in.key ELSE ic_scr_key_req(in))
  /\ scramble_key_valid_q' =
       (ICacheScramble =>
          IF scramble_req_q THEN in.key
          ELSE scramble_key_valid_q /\ ~ic_scr_key_req(in))

RamsInit ==
  /\ tags = [i \in Index |-> [w \in Way |-> Unknown]]
  /\ data = [i \in Index |-> [w \in Way |-> NoData]]
  /\ lookup = NoLookup
  /\ round_robin_way_q = 0
  /\ ecc_correction = NoCorrection
  /\ inval_state_q = "OUT_OF_RESET"
  /\ inval_index_q = 0
  /\ scramble_req_q = FALSE
  /\ scramble_key_valid_q = TRUE

RamsTypeOK ==
  /\ tags \in [Index -> [Way -> Tag]]
  /\ data \in [Index -> [Way -> [Beat -> Datum]]]
  /\ lookup \in [valid : BOOLEAN, fb : FB, line : Line, tags : [Way -> Tag],
                 data : [Way -> [Beat -> Datum]]]
  /\ round_robin_way_q \in Way
  /\ ecc_correction \in [write : BOOLEAN, ways : SUBSET Way, index : Index]
  /\ inval_state_q \in InvalState
  /\ inval_index_q \in Index
  /\ scramble_req_q \in BOOLEAN
  /\ scramble_key_valid_q \in BOOLEAN
=============================================================================
