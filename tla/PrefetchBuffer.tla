--------------------------- MODULE PrefetchBuffer ---------------------------
(***************************************************************************)
(* The prefetch buffer, rtl/ibex_prefetch_buffer.sv, with the fetch FIFO   *)
(* inside it and the instruction bus and memory outside.  It runs ahead of *)
(* the core: it requests consecutive words, keeps at most NUM_REQS of them *)
(* outstanding, and on a branch starts again from the new address while    *)
(* responses to the old requests are still on their way.                   *)
(*                                                                         *)
(* One step is one clock edge.  The inputs of a cycle are a record `in':   *)
(* req (the core wants instructions), branch and addr, ready (the core     *)
(* takes the offered instruction), gnt, rvalid and word (the bus).         *)
(***************************************************************************)
EXTENDS FetchFifo, Sequences

CONSTANTS
  Targets,    \* addresses the core branches to
  ResetAll    \* the RTL parameter: are address flops reset?

\* ibex_prefetch_buffer.sv fixes the number of requests at two.
ASSUME PrefetchAssumption ==
  /\ NUM_REQS = 2
  /\ Targets \subseteq Addr
  /\ ResetAll \in BOOLEAN

VARIABLES
  valid_req_q,           \* a request is on the bus, not granted yet
  discard_req_q,         \* ... and a branch has overtaken it
  rdata_outstanding_q,   \* granted requests without a response, a bit each
  branch_discard_q,      \* ... whose response must be thrown away
  stored_addr_q,         \* address of the request on the bus
  fetch_addr_q,          \* address of the next request
  \* The environment and what it observes:
  started,               \* the core has made its boot branch
  bus,                   \* granted requests, oldest first; a request is stale
                         \* when the core has branched since it was first made
  seen,                  \* ungranted request the memory saw in the last cycle
  got,                   \* words the memory has answered since the last branch
                         \* and the core has not used up, oldest first
  taken                  \* <<instruction>> the core took in the last cycle

reqVars == <<valid_req_q, discard_req_q, rdata_outstanding_q,
             branch_discard_q, stored_addr_q, fetch_addr_q>>
envVars == <<started, bus, seen, got, taken>>
vars    == <<fifoVars, reqVars, envVars>>

Request   == [word : Word, stale : BOOLEAN]
NoRequest == [req |-> FALSE, word |-> 0, stale |-> FALSE]

Instr == [pc : Addr, compressed : BOOLEAN, low : Word, high : Word,
          err : BOOLEAN, err_plus2 : BOOLEAN]

ResetAddr == [word |-> 0, half |-> 0]

-----------------------------------------------------------------------------
(* Combinational signals. *)

Slot == 0 .. NUM_REQS - 1
Top  == NUM_REQS - 1

\* FIFO entries above the lowest NUM_REQS overlaid with the outstanding
\* requests, counted from the other end.
fifo_busy(i) == valid_q[i + 1]

fifo_ready ==
  \E i \in Slot : ~fifo_busy(i) /\ ~rdata_outstanding_q[Top - i]

valid_new_req(in) ==
  in.req /\ (fifo_ready \/ in.branch) /\ ~rdata_outstanding_q[Top]

valid_req(in) == valid_req_q \/ valid_new_req(in)

\* Mutant: the branch is forgotten while the old request waits for its grant.
discard_req_d_Forgets(in) == valid_req_q /\ in.branch

discard_req_d(in) == valid_req_q /\ (in.branch \/ discard_req_q)

granted(in) == valid_req(in) /\ in.gnt

new_request(in) == valid_new_req(in) /\ ~valid_req_q

instr_addr(in) ==
  IF valid_req_q THEN stored_addr_q
  ELSE IF in.branch THEN in.addr
  ELSE fetch_addr_q

PlusFour(a) == [a EXCEPT !.word = NextWord(@)]

fetch_addr_d(in) ==
  LET base == IF in.branch THEN in.addr ELSE [fetch_addr_q EXCEPT !.half = 0]
  IN  IF new_request(in) THEN PlusFour(base) ELSE base

rdata_outstanding_n(in, i) ==
  \/ granted(in) /\ (i > 0 => rdata_outstanding_q[i - 1])
  \/ rdata_outstanding_q[i]

branch_discard_n(in, i) ==
  \/ granted(in) /\ discard_req_d(in) /\ (i > 0 => rdata_outstanding_q[i - 1])
  \/ in.branch /\ rdata_outstanding_q[i]
  \/ branch_discard_q[i]

\* Entries shift down on a response.
Shifted(in, bits) ==
  [i \in Slot |-> IF in.rvalid THEN i < Top /\ bits[i + 1] ELSE bits[i]]

fifo_in(in) ==
  [clear |-> in.branch,
   addr  |-> in.addr,
   valid |-> in.rvalid /\ ~branch_discard_q[0],
   word  |-> in.word,
   ready |-> in.ready]

busy == \E i \in Slot : rdata_outstanding_q[i]
busy_o(in) == busy \/ valid_req(in)

-----------------------------------------------------------------------------
(* Inputs a cycle can have.  The memory answers granted requests in order,  *)
(* at the earliest in the cycle after the grant; the data lines carry       *)
(* nothing in particular without a response.                                *)

\* The content of an erroneous word is unknown: one value stands for all.
MemoryWord(w) ==
  {x \in FetchWord : x.word = w /\ (x.err => ~x.lo /\ ~x.hi)}

BusData(rvalid) == IF rvalid THEN MemoryWord(Head(bus).word) ELSE {StaleWord}

CycleInputs(rvalid) ==
  [req : BOOLEAN, branch : BOOLEAN, addr : Targets, ready : BOOLEAN,
   gnt : BOOLEAN, rvalid : {rvalid}, word : BusData(rvalid)]

\* The controller makes the boot branch before, or with, its first request.
Inputs ==
  {in \in UNION {CycleInputs(rvalid) : rvalid \in {FALSE, bus # <<>>}} :
     in.req => started \/ in.branch}

\* Is the request on the bus in this cycle made for an abandoned address?
overtaken(in) == seen.req /\ (seen.stale \/ in.branch)

BusAfterBranch(in) ==
  [i \in DOMAIN bus |-> [bus[i] EXCEPT !.stale = @ \/ in.branch]]

BusAfterGrant(in) ==
  IF granted(in)
    THEN Append(BusAfterBranch(in),
                [word  |-> instr_addr(in).word,
                 stale |-> overtaken(in)])
    ELSE BusAfterBranch(in)

Answered(in) ==
  IF in.rvalid /\ ~Head(bus).stale THEN Append(got, in.word) ELSE got

\* An instruction the core takes uses up the word it starts in, unless it is
\* compressed and in the lower half.
UsesWord(in) ==
  /\ out_fire(fifo_in(in))
  /\ ~(out_compressed(fifo_in(in)) /\ instr_addr_q.half = 0)

Environment(in) ==
  /\ started' = (started \/ in.branch)
  /\ bus' = IF in.rvalid THEN Tail(BusAfterGrant(in)) ELSE BusAfterGrant(in)
  /\ seen' = IF valid_req(in) /\ ~in.gnt
               THEN [req |-> TRUE, word |-> instr_addr(in).word,
                     stale |-> overtaken(in)]
               ELSE NoRequest
  /\ got' = IF in.branch THEN <<>>
             ELSE IF UsesWord(in) THEN Tail(Answered(in)) ELSE Answered(in)
  /\ taken' = IF out_fire(fifo_in(in)) /\ ~in.branch
                THEN <<out_instr(fifo_in(in))>> ELSE <<>>

-----------------------------------------------------------------------------
Init ==
  LET addrs == IF ResetAll THEN {ResetAddr} ELSE Addr
  IN  /\ FifoInit(addrs)
      /\ valid_req_q = FALSE
      /\ discard_req_q = FALSE
      /\ rdata_outstanding_q = [i \in Slot |-> FALSE]
      /\ branch_discard_q = [i \in Slot |-> FALSE]
      /\ stored_addr_q \in addrs
      /\ fetch_addr_q \in addrs
      /\ started = FALSE
      /\ bus = <<>>
      /\ seen = NoRequest
      /\ got = <<>>
      /\ taken = <<>>

Requests(in) ==
  /\ valid_req_q' = (valid_req(in) /\ ~in.gnt)
  /\ discard_req_q' = discard_req_d(in)
  /\ rdata_outstanding_q' = Shifted(in, [i \in Slot |-> rdata_outstanding_n(in, i)])
  /\ branch_discard_q' = Shifted(in, [i \in Slot |-> branch_discard_n(in, i)])
  /\ stored_addr_q' = IF new_request(in) /\ ~in.gnt
                        THEN instr_addr(in) ELSE stored_addr_q
  /\ fetch_addr_q' = IF in.branch \/ new_request(in)
                       THEN fetch_addr_d(in) ELSE fetch_addr_q

\* One clock edge: the FIFO, the request logic and the world outside.
Cycle(in) == FifoCycle(fifo_in(in)) /\ Requests(in) /\ Environment(in)

Next == \E in \in Inputs : Cycle(in)

Spec == Init /\ [][Next]_vars

-----------------------------------------------------------------------------
(* Properties. *)

\* Type invariant; in particular every address stays in the address space.
TypeOK ==
  /\ FifoTypeOK
  /\ valid_req_q \in BOOLEAN
  /\ discard_req_q \in BOOLEAN
  /\ rdata_outstanding_q \in [Slot -> BOOLEAN]
  /\ branch_discard_q \in [Slot -> BOOLEAN]
  /\ stored_addr_q \in Addr
  /\ fetch_addr_q \in Addr
  /\ started \in BOOLEAN
  /\ bus \in Seq(Request)
  /\ seen \in [req : BOOLEAN, word : Word, stale : BOOLEAN]
  /\ got \in Seq(FetchWord)
  /\ taken \in {<<>>} \cup {<<i>> : i \in Instr}

\* What a word that may arrive in the next cycle finds: the request logic has
\* kept an entry free for it.  This is the FIFO's assertion
\* IbexFetchFifoPushFull, for every cycle and whatever the core takes.
NoPushWhenFull ==
  bus # <<>> /\ ~branch_discard_q[0] => ~valid_q[NUM_REQS]

\* The outstanding bits count the responses the memory still owes, so that the
\* core, which may stop its clock when busy_o is low, misses none.
OutstandingMatchesBus ==
  /\ Len(bus) <= NUM_REQS
  /\ \A i \in Slot : rdata_outstanding_q[i] <=> i < Len(bus)

\* A response is thrown away exactly if the core has branched since its
\* request was made, also when the branch came before the grant.
DiscardMatchesStale ==
  /\ \A i \in Slot : branch_discard_q[i] <=> i < Len(bus) /\ bus[i + 1].stale
  /\ valid_req_q => (discard_req_q <=> seen.stale)

\* A request that was not granted is repeated with the same address.
HeldRequestStable ==
  /\ valid_req_q <=> seen.req
  /\ valid_req_q => stored_addr_q.word = seen.word

\* What the buffer remembers of its requests is what is on the bus: every answer
\* that is owed, which of them to throw away, and the request that is held.
RequestsTracked ==
  OutstandingMatchesBus /\ DiscardMatchesStale /\ HeldRequestStable

\* The words the FIFO holds, the live ones on their way and the one being
\* requested follow each other: After(w, p) is the word that comes next if a
\* place of this stream that should hold w is filled.
After(w, filled) == IF filled THEN NextWord(w) ELSE w

LiveOnBus(k) == k <= Len(bus) /\ ~bus[k].stale
LiveHeld     == seen.req /\ ~seen.stale

AtEntry1 == After(instr_addr_q.word, valid_q[0])
AtEntry2 == After(AtEntry1, valid_q[1])
AtBus1   == After(AtEntry2, valid_q[2])
AtBus2   == After(AtBus1, LiveOnBus(1))
AtHeld   == After(AtBus2, LiveOnBus(2))
AtFetch  == After(AtHeld, LiveHeld)

\* From the word of the next instruction to the address of the next fetch no
\* word is lost, repeated or out of order, and none that was requested before a
\* branch is among them.
StreamInOrder ==
  started =>
    /\ valid_q[0] => data_q[0].word = instr_addr_q.word
    /\ valid_q[1] => data_q[1].word = AtEntry1
    /\ valid_q[2] => data_q[2].word = AtEntry2
    /\ LiveOnBus(1) => bus[1].word = AtBus1
    /\ LiveOnBus(2) => bus[2].word = AtBus2
    /\ LiveHeld => seen.word = AtHeld
    /\ fetch_addr_q.word = AtFetch

\* The prefetch buffer hands the core the instruction stream InstrStream
\* promises, made of the words the memory has answered for it: an error of either
\* half of an instruction is reported, and told apart by err_plus2, and an error of
\* a word the instruction does not use is not.
Promise == INSTANCE InstrStream WITH
  Words <- Word, Next4 <- NextWord, Branches <- Targets,
  pc <- instr_addr_q, last <- taken, running <- started
ImplementsInstrStream == Promise!Spec

-----------------------------------------------------------------------------
(* Progress.  The bus protocol grants a request that is held and answers    *)
(* every granted request, in the end; neither is assumed of one cycle.      *)

Grant   == valid_req_q /\ \E in \in Inputs : in.gnt /\ Cycle(in)
Respond == \E in \in Inputs : in.rvalid /\ Cycle(in)

\* The core keeps asking and does not branch.
Calm == \E in \in Inputs : in.req /\ ~in.branch /\ Cycle(in)

FairSpec == Spec /\ WF_vars(Calm) /\ WF_vars(Grant) /\ WF_vars(Respond)

\* The core took an instruction, or is offered one from the FIFO alone.
NoInput == [clear |-> FALSE, addr |-> instr_addr_q, valid |-> FALSE,
            word |-> StaleWord, ready |-> FALSE]

Available == taken # <<>> \/ out_valid(NoInput)

\* If after its boot branch the core from some point on keeps asking and does
\* not branch, it is not starved: it is offered instructions again and again, whatever was
\* outstanding or being discarded before.
CalmNotStarved == <>started /\ <>[][Calm]_vars => []<>Available

\* The state of the buffer as a whole: the FIFO has room for every response that is
\* still to come, the marks of the outstanding requests say which of these the core
\* has branched away from, and what is left is the stream the last branch started.
FetchInv == TypeOK /\ NoPushWhenFull /\ RequestsTracked /\ StreamInOrder

-----------------------------------------------------------------------------
\* For TLC: an aligned target, and one in the middle of the last word, so that a
\* 32-bit instruction wraps around the end of the address space.
MCTargets == {[word |-> 1, half |-> 0], [word |-> WORDS - 1, half |-> 1]}
=============================================================================
