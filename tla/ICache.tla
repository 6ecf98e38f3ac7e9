-------------------------------- MODULE ICache --------------------------------
(***************************************************************************)
(* The instruction cache, rtl/ibex_icache.sv: stage IC0, where lookups,    *)
(* fills, corrections and the invalidation compete for the RAMs, joined to *)
(* the RAMs and the fill buffers, with the bus and the core outside.       *)
(* The output stage, which cuts the words into instructions, is outside    *)
(* too: it takes a word or not (output_ready) and selects it with the      *)
(* address it is at (out_word).                                            *)
(***************************************************************************)
EXTENDS ICacheFill, Sequences

CONSTANTS
  Targets,           \* words the core branches to
  Faults,            \* words the bus may report an error for
  Enables,           \* values of icache_enable_i
  Fences,            \* values of icache_inval_i
  Readies,           \* values of output_ready while a word is offered
  MAX_OUTSTANDING,   \* requests the bus accepts before it answers one
  MAX_ABANDONED,     \* stale buffers there may be when the core branches
  MAX_UNASKED        \* busy buffers there may be when it requests nothing

ASSUME ICacheEnvAssumption ==
  /\ Targets \subseteq Word /\ Faults \subseteq Word
  /\ {Enables, Fences, Readies} \subseteq SUBSET BOOLEAN
  /\ MAX_OUTSTANDING \in Nat \ {0}
  /\ {MAX_ABANDONED, MAX_UNASKED} \subseteq Nat

VARIABLES
  prefetch_addr_q,   \* where the next lookup goes
  out_word,          \* the word the output stage wants: output_addr_q, or the
                     \* next one if the skid buffer holds half of that
  \* Observed:
  started,           \* the core has made its boot branch
  bus,               \* granted requests, oldest first, with the buffer that made each
  seen,              \* <<word>> requested in the last cycle and not granted
  taken,             \* <<word>> the core took in the last cycle
  running,           \* a branch, and no error taken since
  fenced             \* FENCE.I, and no branch since

envVars == <<started, bus, seen, taken, running, fenced>>
vars == <<ramVars, invalVars, fb, prefetch_addr_q, out_word, envVars>>

Request == [word : Word, fb : FB, old : BOOLEAN]

-----------------------------------------------------------------------------
(* Stage IC0.                                                               *)

FB_THRESHOLD == NUM_FB - 2

lookup_throttle == Cardinality(Live) > FB_THRESHOLD

\* A lookup comes before everything else, so it is granted when requested.
lookup_grant_ic0(in) ==
  /\ in.req
  /\ Busy # FB
  /\ in.branch \/ ~lookup_throttle
  /\ ~ecc_correction.write

lookup_actual_ic0(in) ==
  lookup_grant_ic0(in) /\ in.enable /\ ~inval_block_cache(in)

lookup_addr_ic0(in) == IF in.branch THEN in.addr ELSE prefetch_addr_q

prefetch_addr_d(in) ==
  IF lookup_grant_ic0(in)
    THEN WordAt((LineOf(lookup_addr_ic0(in)) + 1) % LINES, 0)
  ELSE IF in.branch THEN in.addr
  ELSE prefetch_addr_q

fill_grant_ic0(in) ==
  /\ fill_ram_req # {}
  /\ ~lookup_grant_ic0(in) /\ ~inval_write_req /\ ~ecc_correction.write

tag_write_ic0(in) ==
  fill_grant_ic0(in) \/ inval_write_req \/ ecc_correction.write

\* The buffer whose line is written.
ram_fb(in) == CHOOSE f \in fill_ram_arb(fill_grant_ic0(in)) : TRUE

tag_index_ic0(in) ==
  IF inval_write_req THEN inval_index_q
  ELSE IF ecc_correction.write THEN ecc_correction.index
  ELSE IndexOf(LineOf(fb[ram_fb(in)].addr))

tag_banks_ic0(in) ==
  IF ecc_correction.write THEN ecc_correction.ways
  ELSE IF fill_grant_ic0(in) THEN {fb[ram_fb(in)].way}
  ELSE Way

tag_wdata_ic0(in) ==
  IF inval_write_req \/ ecc_correction.write THEN Invalid
  ELSE TagOf(LineOf(fb[ram_fb(in)].addr))

\* What is written to the RAMs, by index and way.  They take no request while
\* ibex_top has no key for them.
Written(in) ==
  IF tag_write_ic0(in) /\ scramble_key_valid_q
    THEN {tag_index_ic0(in)} \X tag_banks_ic0(in) ELSE {}

tags_d(in) ==
  LET written == Written(in)
  IN  [i \in Index |-> [w \in Way |->
         IF new_key(in) THEN Unknown
         ELSE IF <<i, w>> \in written THEN tag_wdata_ic0(in)
         ELSE tags[i][w]]]

\* The data of an invalid line are never read.
data_d(in) ==
  LET written == Written(in)
      kept(d) == IF in.inval THEN Aged(d) ELSE d
  IN  [i \in Index |-> [w \in Way |->
         IF new_key(in) THEN NoData
         ELSE IF <<i, w>> \notin written THEN kept(data[i][w])
         ELSE IF tag_wdata_ic0(in) = Invalid THEN NoData
         ELSE kept(fb[ram_fb(in)].data)]]

lookup_d(in) ==
  IF lookup_actual_ic0(in)
    THEN LET line == LineOf(lookup_addr_ic0(in))
         IN  [valid |-> TRUE,
              fb    |-> CHOOSE f \in fill_alloc_sel : TRUE,
              line  |-> line,
              tags  |-> tags[IndexOf(line)],
              data  |-> data[IndexOf(line)]]
    ELSE NoLookup

Rams(in) ==
  /\ tags' = tags_d(in)
  /\ data' = data_d(in)
  /\ lookup' = lookup_d(in)
  /\ round_robin_way_q' = IF lookup.valid THEN (round_robin_way_q + 1) % WAYS
                                          ELSE round_robin_way_q
  /\ ecc_correction' = ecc_correction_d(in)

-----------------------------------------------------------------------------
(* The bus and the core. *)

instr_req(in) ==
  \/ (~in.enable \/ in.branch) /\ lookup_grant_ic0(in)
  \/ fill_ext_req(in) # {}

instr_fb(in) ==
  CHOOSE f \in IF fill_ext_req(in) # {} THEN fill_ext_arb(in)
                                        ELSE fill_alloc_sel : TRUE

instr_addr(in) ==
  IF fill_ext_req(in) # {} THEN ext_word(instr_fb(in)) ELSE lookup_addr_ic0(in)

data_valid(in) == fill_out_arb(in) # {}

\* What does not matter in a cycle has one value.
Idle == [req |-> FALSE, branch |-> FALSE, addr |-> 0, take |-> FALSE,
         gnt |-> FALSE, rvalid |-> FALSE, err |-> FALSE, rdata |-> Junk,
         enable |-> FALSE, inval |-> FALSE, key |-> FALSE,
         tag_err |-> FALSE, data_err |-> FALSE, way |-> 0]

Possible(b) == IF b THEN BOOLEAN ELSE {FALSE}

\* The controller makes the boot branch before, or with, its first request.
CoreInput(branch, addr, enable, inval) ==
  [Idle EXCEPT !.req = started \/ branch, !.branch = branch,
               !.addr = IF branch THEN addr ELSE 0,
               !.enable = enable, !.inval = inval]

\* It requests nothing while the core sleeps or may not fetch; the cache uses the
\* request for a lookup only.
MayDropRequest(in) ==
  IF lookup_grant_ic0(in) /\ Cardinality(Busy) <= MAX_UNASKED
  THEN {in, [in EXCEPT !.req = FALSE]} ELSE {in}

RamErrors(in) ==
  {in}
  \cup {[in EXCEPT !.data_err = e] : e \in Possible(ICacheECC /\ tag_hit_ic1)}
  \cup {[in EXCEPT !.tag_err = TRUE, !.way = w] :
          w \in IF ICacheECC /\ lookup.valid THEN Way ELSE {}}

Answer(in, err) ==
  [in EXCEPT !.rvalid = TRUE, !.err = err,
             !.rdata = [word |-> Head(bus).word, old |-> Head(bus).old, bad |-> err]]

Answers(in) ==
  IF bus = <<>> THEN {in}
  ELSE {in} \cup {Answer(in, err) : err \in Possible(Head(bus).word \in Faults)}

Branches   == Possible(Cardinality(Busy \ Live) <= MAX_ABANDONED)
Takes(in)  == IF data_valid(in) THEN Readies ELSE {FALSE}
Grants(in) == Possible(instr_req(in) /\ Len(bus) < MAX_OUTSTANDING)

Core(in) ==
  LET word  == output(in, BeatOf(out_word))
      takes == data_valid(in) /\ in.take
  IN  /\ started' = (started \/ in.branch)
      /\ taken' = IF takes /\ ~in.branch THEN <<word>> ELSE <<>>
      /\ running' = (in.branch \/ (running /\ ~(takes /\ word.err)))
      /\ fenced' = (~in.branch /\ (fenced \/ in.inval))
      /\ out_word' = IF in.branch THEN in.addr
                     ELSE IF takes THEN NextWord(out_word)
                     ELSE out_word

Bus(in) ==
  LET req   == instr_req(in)
      made  == [word |-> instr_addr(in), fb |-> instr_fb(in), old |-> FALSE]
      aged  == [i \in DOMAIN bus |-> [bus[i] EXCEPT !.old = @ \/ in.inval]]
      after == IF req /\ in.gnt THEN Append(aged, made) ELSE aged
  IN  /\ bus' = IF in.rvalid THEN Tail(after) ELSE after
      /\ seen' = IF req /\ ~in.gnt THEN <<instr_addr(in)>> ELSE <<>>

-----------------------------------------------------------------------------
Init ==
  /\ RamsInit
  /\ FillInit
  /\ prefetch_addr_q = 0
  /\ out_word = 0
  /\ started = FALSE
  /\ bus = <<>>
  /\ seen = <<>>
  /\ taken = <<>>
  /\ running = FALSE
  /\ fenced = FALSE

\* One clock edge.
Cycle(in) ==
  /\ Rams(in)
  /\ InvalCycle(in)
  /\ FillCycle(in, IF lookup_grant_ic0(in) THEN fill_alloc_sel ELSE {},
               lookup_addr_ic0(in), fill_grant_ic0(in), in.take)
  /\ prefetch_addr_q' = prefetch_addr_d(in)
  /\ Core(in)
  /\ Bus(in)

Next ==
  \E branch \in Branches, addr \in Targets, enable \in Enables, inval \in Fences :
    \E core \in MayDropRequest(CoreInput(branch, addr, enable, inval)) :
     \E ram \in RamErrors(core), key \in Possible(scramble_req_q) :
      \E in \in Answers([ram EXCEPT !.key = key]) :
        \E take \in Takes(in), gnt \in Grants(in) :
          Cycle([in EXCEPT !.take = take, !.gnt = gnt])

Spec == Init /\ [][Next]_vars

-----------------------------------------------------------------------------
(* Properties. *)

\* Type invariant.
TypeOK ==
  /\ RamsTypeOK
  /\ FillTypeOK
  /\ prefetch_addr_q \in Word
  /\ out_word \in Word
  /\ started \in BOOLEAN
  /\ bus \in Seq(Request)
  /\ seen \in {<<>>} \cup {<<w>> : w \in Word}
  /\ taken \in {<<>>} \cup {<<t>> : t \in [datum : Datum, err : BOOLEAN]}
  /\ running \in BOOLEAN
  /\ fenced \in BOOLEAN

\* The older bits of the busy buffers order them by age.
AgeIsOrder ==
  \A f, g \in Busy :
    /\ fb[f].older \subseteq Busy \ {f}
    /\ f # g => (g \in fb[f].older <=> f \notin fb[g].older)
    /\ g \in fb[f].older => fb[g].older \subseteq fb[f].older

\* What each buffer has counted is what the bus still owes it, word by word.
OwedByBus(f) == {i \in DOMAIN bus : bus[i].fb = f}

CountsMatchBus ==
  \A f \in FB :
    /\ Cardinality(OwedByBus(f)) = fb[f].ext_cnt - fb[f].rvd_cnt
    /\ \A i \in OwedByBus(f) :
         bus[i].word =
           WordAt(LineOf(fb[f].addr),
                  (fill_rvd_beat(f) + Cardinality({j \in OwedByBus(f) : j < i}))
                    % BEATS)

\* The next answer goes to the buffer that asked for it, and while one is owed
\* the cache is busy, so that the clock runs.
AnswerFindsOwner ==
  bus # <<>> => Oldest(fill_rvd_exp) = {Head(bus).fb} /\ busy_o

\* A request that was not granted is made again, with the same address, whether
\* the core branches, the lookup turns out to hit, or a RAM error shows.
HeldRequestStable ==
  seen # <<>> =>
    \A branch, data_err, tag_err, enable \in BOOLEAN :
      LET in == [Idle EXCEPT !.branch = branch, !.data_err = data_err,
                             !.tag_err = tag_err, !.enable = enable]
      IN  instr_req(in) /\ instr_addr(in) = seen[1]

\* The buffers and the bus agree: no answer reaches a buffer that did not ask for
\* it, although answers carry no name and buffers are only told apart by age.
FillsTracked ==
  AgeIsOrder /\ CountsMatchBus /\ AnswerFindsOwner /\ HeldRequestStable

\* Lookups in the tag RAM always give a known result, as the assertions TagHitKnown
\* and TagInvalidKnown say: none happens before the RAMs are initialised, or
\* under another key than they were written with.
TagsKnown == lookup.valid => \A w \in Way : lookup.tags[w] # Unknown

\* A valid tag is above the words of its line, read without an error, and
\* when the invalidation is over none is left from before.
RamsMatchMemory ==
  \A i \in Index, w \in Way : tags[i][w] \notin {Invalid, Unknown} =>
    \A b \in Beat :
      /\ data[i][w][b].word = WordAt(tags[i][w] * INDEXES + i, b)
      /\ ~data[i][w][b].bad
      /\ inval_state_q = "IDLE" => ~data[i][w][b].old

\* What the RAMs return can be used.
RamsCoherent == TagsKnown /\ RamsMatchMemory

\* The cache hands the core the words WordStream promises: nothing from before the
\* last FENCE.I, whatever lookups, fills and errors were under way at that time.
Promise == INSTANCE WordStream WITH
  Words <- Word, After <- NextWord, Data <- Datum, next <- out_word,
  last <- taken
ImplementsWordStream == Promise!Spec

\* The state of the cache as a whole: its buffers agree with the bus, and its RAMs
\* with memory and the last FENCE.I.
CacheInv == TypeOK /\ FillsTracked /\ RamsCoherent
=============================================================================
