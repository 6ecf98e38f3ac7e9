------------------------------ MODULE ICacheFill ------------------------------
(***************************************************************************)
(* The fill buffers of the instruction cache, rtl/ibex_icache.sv.  Every   *)
(* granted lookup gets a buffer, which asks the bus for the words of its   *)
(* line (unless the lookup hits), hands them to the core in order, and     *)
(* writes the line to the RAMs.  Age decides wherever buffers compete.     *)
(*                                                                         *)
(* The registers of a buffer that is not busy are set before they are read *)
(* again, so such a buffer is always Free here.                            *)
(***************************************************************************)
EXTENDS ICacheRams

VARIABLE fb    \* the fill buffers, fill_..._q

Buffer == [busy : BOOLEAN, older : SUBSET FB, stale : BOOLEAN,
           cache : BOOLEAN, hit : BOOLEAN,
           ext_cnt : 0 .. BEATS, ext_hold : BOOLEAN, ext_done : BOOLEAN,
           rvd_cnt : 0 .. BEATS, ram_done : BOOLEAN, out_cnt : 0 .. BEATS,
           addr : Word, way : Way, data : [Beat -> Datum], err : SUBSET Beat]

Free == [busy |-> FALSE, older |-> {}, stale |-> FALSE,
         cache |-> FALSE, hit |-> FALSE,
         ext_cnt |-> 0, ext_hold |-> FALSE, ext_done |-> FALSE,
         rvd_cnt |-> 0, ram_done |-> FALSE, out_cnt |-> 0,
         addr |-> 0, way |-> 0, data |-> NoData, err |-> {}]

Busy == {f \in FB : fb[f].busy}
Live == {f \in Busy : ~fb[f].stale}

\* The buffer of S that was allocated first: age based arbitration.
Oldest(S) == {f \in S : fb[f].older \cap S = {}}

\* Allocation takes the lowest free buffer.
fill_alloc_sel == {f \in FB \ Busy : \A g \in FB \ Busy : f <= g}

fill_hit_ic1(in, f) ==
  lookup.valid /\ lookup.fb = f /\ tag_hit_ic1 /\ ~ecc_err_ic1(in)

fill_ext_beat(f) == BeatOf(fb[f].addr) + fb[f].ext_cnt
fill_rvd_beat(f) == BeatOf(fb[f].addr) + fb[f].rvd_cnt
fill_rvd_off(f)  == fill_rvd_beat(f) % BEATS
fill_out_done(f) == fb[f].out_cnt = BEATS

-----------------------------------------------------------------------------
(* Requests to the bus and answers from it. *)

\* All words are requested, or no more are wanted.
fill_ext_done_d(in, f) ==
  /\ \/ fb[f].ext_cnt = BEATS
     \/ fill_hit_ic1(in, f) \/ fb[f].hit
     \/ ~fb[f].cache /\ (in.branch \/ fb[f].stale \/ fill_ext_beat(f) >= BEATS)
  /\ ~fb[f].ext_hold

fill_ext_req(in) == {f \in Busy : ~fill_ext_done_d(in, f)}
fill_ext_arb(in) == Oldest(fill_ext_req(in))

ext_word(f) == WordAt(LineOf(fb[f].addr), fill_ext_beat(f) % BEATS)

fill_rvd_done(f) ==
  fb[f].ext_done /\ ~fb[f].ext_hold /\ fb[f].rvd_cnt = fb[f].ext_cnt

fill_rvd_exp == {f \in Busy : ~fill_rvd_done(f)}

fill_rvd_arb(in) == IF in.rvalid THEN Oldest(fill_rvd_exp) ELSE {}

busy_o == inval_state_q # "IDLE" \/ fill_rvd_exp # {}

-----------------------------------------------------------------------------
(* Writing the line to the RAMs. *)

fill_ram_req ==
  {f \in Busy : /\ fb[f].rvd_cnt = BEATS
                /\ ~fb[f].hit /\ fb[f].cache /\ fb[f].err = {}
                /\ ~fb[f].ram_done}

fill_ram_arb(grant) == IF grant THEN Oldest(fill_ram_req) ELSE {}

-----------------------------------------------------------------------------
(* Handing words to the core. *)

\* Mutant: younger buffers need not wait for older ones.
fill_data_sel_AnyAge == FB

\* The oldest buffer that still has words for the core.
fill_data_sel ==
  {f \in FB : fb[f].older \cap {g \in Live : ~fill_out_done(g)} = {}}

fill_out_req(in) ==
  {f \in Live : /\ ~fill_out_done(f)
                /\ \/ fill_hit_ic1(in, f) \/ fb[f].hit
                   \/ fill_rvd_beat(f) > fb[f].out_cnt
                   \/ f \in fill_rvd_arb(in)}

fill_out_arb(in) == fill_out_req(in) \cap fill_data_sel

fill_data_reg ==
  {f \in Live \cap fill_data_sel :
     /\ ~fill_out_done(f)
     /\ fill_rvd_beat(f) > fb[f].out_cnt \/ fb[f].hit \/ fb[f].err # {}}

fill_data_hit(in) ==
  {f \in Busy \cap fill_data_sel : fill_hit_ic1(in, f)}

fill_data_rvd(in) ==
  {f \in fill_rvd_arb(in) \cap Live \cap fill_data_sel :
     /\ ~fb[f].hit /\ ~fill_hit_ic1(in, f) /\ ~fill_out_done(f)
     /\ fill_rvd_beat(f) = fb[f].out_cnt}

\* The word the core is offered, and its error flag.  The word is selected in
\* its line by the address the core is at.
line_data(in) ==
  IF fill_data_hit(in) # {} THEN hit_data_ic1
  ELSE Merged({fb[f].data : f \in fill_data_reg})

line_err(in) ==
  IF fill_data_hit(in) # {} THEN {}
  ELSE UNION {fb[f].err : f \in {g \in fill_data_reg : ~fb[g].hit}}

output(in, beat) ==
  IF fill_data_rvd(in) # {}
    THEN [datum |-> in.rdata, err |-> in.err]
    ELSE [datum |-> line_data(in)[beat], err |-> beat \in line_err(in)]

-----------------------------------------------------------------------------
(* The next state of the buffers. *)

\* All its actions are completed.
fill_done(in) ==
  {f \in Busy :
     /\ fb[f].ram_done \/ fb[f].hit \/ ~fb[f].cache \/ fb[f].err # {}
     /\ fill_out_done(f) \/ fb[f].stale \/ in.branch
     /\ fill_rvd_done(f)}

\* A request is made in the cycle of the lookup for a branch, or if the cache
\* is disabled and a hit is impossible.
fill_spec_req(in) == (~in.enable \/ in.branch) /\ fill_ext_req(in) = {}

NewBuffer(in, word, done) ==
  [Free EXCEPT
     !.busy = TRUE,
     !.older = Busy \ done,
     !.cache = in.enable /\ ~inval_block_cache(in),
     !.ext_cnt = IF fill_spec_req(in) /\ in.gnt THEN 1 ELSE 0,
     !.ext_hold = fill_spec_req(in) /\ ~in.gnt,
     !.out_cnt = BeatOf(word),
     !.addr = word]

\* A line is not cached if the cache was disabled or invalidated meanwhile.
fill_cache_d(in, f) == fb[f].cache /\ in.enable /\ ~in.inval

\* Data of a hit, or a word from the bus in its place.
fill_data_d(in, f, receives) ==
  IF fill_hit_ic1(in, f) THEN hit_data_ic1
  ELSE IF receives /\ ~fb[f].hit
    THEN [fb[f].data EXCEPT ![fill_rvd_off(f)] = in.rdata]
    ELSE fb[f].data

One(b) == IF b THEN 1 ELSE 0

\* A busy buffer that requests, receives, writes its line or hands over a word.
Progressed(in, f, requests, receives, writes, hands_over) ==
  [fb[f] EXCEPT
     !.stale = @ \/ in.branch,
     !.cache = fill_cache_d(in, f),
     !.hit = @ \/ fill_hit_ic1(in, f),
     !.ext_cnt = @ + One(requests /\ in.gnt),
     !.ext_hold = requests /\ ~in.gnt,
     !.ext_done = fill_ext_done_d(in, f),
     !.rvd_cnt = @ + One(receives),
     !.ram_done = @ \/ writes,
     !.out_cnt = @ + One(hands_over),
     !.way = IF lookup.valid /\ lookup.fb = f THEN sel_way_ic1(in) ELSE @,
     !.data = fill_data_d(in, f, receives),
     !.err = @ \cup IF receives /\ in.err THEN {fill_rvd_off(f)} ELSE {}]

\* FENCE.I: what was read before is old from now on.
Observed(in, b) == IF in.inval THEN [b EXCEPT !.data = Aged(@)] ELSE b

\* `alloc' is the set with the buffer a granted lookup of `word' takes, if any;
\* `grant' says whether a line may be written to the RAMs, `take' whether
\* the output stage takes a word.
FillCycle(in, alloc, word, grant, take) ==
  LET done == fill_done(in)
      ext  == fill_ext_arb(in)
      rvd  == fill_rvd_arb(in)
      ram  == fill_ram_arb(grant)
      out  == IF take THEN fill_out_arb(in) ELSE {}
  IN  fb' = [f \in FB |->
               IF f \in alloc THEN NewBuffer(in, word, done)
               ELSE IF f \notin Busy \ done THEN Free
               ELSE Observed(in, [Progressed(in, f, f \in ext, f \in rvd,
                                             f \in ram, f \in out)
                                    EXCEPT !.older = @ \ done])]

FillInit == fb = [f \in FB |-> Free]

FillTypeOK == fb \in [FB -> Buffer]
=============================================================================
