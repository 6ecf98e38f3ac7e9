------------------------ MODULE PrefetchBufferProofs ------------------------
(***************************************************************************)
(* What holds of the fetch FIFO in any surroundings, and of the prefetch   *)
(* buffer with its two requests, for every size of the address space, all  *)
(* branch targets and any memory and bus.                                  *)
(***************************************************************************)
EXTENDS PrefetchBuffer, TLAPS

LEMMA NextWordType == ASSUME NEW w \in Word PROVE NextWord(w) \in Word
  BY FifoAssumption DEF Word, NextWord

LEMMA EntryZero == 0 \in Entry /\ 1 \in Entry
  BY FifoAssumption DEF Entry

\* One clock edge keeps the type of the FIFO's registers, whatever the inputs.
LEMMA FifoTypeStep ==
  ASSUME FifoTypeOK, NEW in \in FifoInput, FifoCycle(in)
  PROVE  FifoTypeOK'
<1> USE DEF FifoTypeOK
<1>1. valid_q' \in [Entry -> BOOLEAN]
  BY DEF FifoCycle, valid_d
<1>2. data_q' \in [Entry -> FetchWord]
  <2>1. StaleWord \in FetchWord
    BY FifoAssumption DEF StaleWord, FetchWord, Word
  <2>2. ASSUME NEW i \in Entry PROVE data_d(in, i) \in FetchWord
    <3>1. in.word \in FetchWord
      BY DEF FifoInput
    <3>2. i < NUM_REQS => i + 1 \in Entry
      BY FifoAssumption DEF Entry
    <3>3. QED
      BY <3>1, <3>2 DEF data_d
  <2>3. QED
    BY <2>1, <2>2 DEF FifoCycle
<1>3. instr_addr_q' \in Addr
  <2>1. in.addr \in Addr
    BY DEF FifoInput
  <2>2. instr_addr_next(in) \in Addr
    BY NextWordType DEF instr_addr_next, Addr
  <2>3. QED
    BY <2>1, <2>2 DEF FifoCycle
<1>4. QED
  BY <1>1, <1>2, <1>3

\* ... and leaves no gap between the valid entries.
LEMMA ContiguousStep ==
  ASSUME FifoTypeOK, Contiguous, NEW in \in FifoInput, FifoCycle(in)
  PROVE  Contiguous'
<1> SUFFICES ASSUME NEW i \in 1 .. NUM_REQS, valid_q'[i] PROVE valid_q'[i - 1]
  BY DEF Contiguous
<1>1. i \in Entry /\ i - 1 \in Entry /\ i \in Nat /\ i > 0 /\ i <= NUM_REQS
  BY FifoAssumption DEF Entry
<1>2. valid_d(in, i)
  BY <1>1 DEF FifoCycle
<1>3. ASSUME NEW j \in 1 .. NUM_REQS, valid_pushed(in, j)
      PROVE  valid_pushed(in, j - 1)
  BY <1>3, FifoAssumption DEF Contiguous, valid_pushed, lowest_free_entry
<1>4. valid_d(in, i - 1)
  <2>1. CASE pop_fifo(in)
    <3>1. i < NUM_REQS /\ valid_pushed(in, i + 1)
      BY <1>2, <2>1 DEF valid_d, valid_popped
    <3>2. valid_pushed(in, i)
      BY <1>1, <1>3, <3>1, FifoAssumption
    <3>3. (i - 1) + 1 = i /\ i - 1 < NUM_REQS
      BY <1>1, FifoAssumption
    <3>4. valid_pushed(in, (i - 1) + 1)
      BY <3>2, <3>3
    <3>5. QED
      BY <1>2, <2>1, <3>3, <3>4 DEF valid_d, valid_popped
  <2>2. CASE ~pop_fifo(in)
    BY <1>2, <1>3, <2>2 DEF valid_d, valid_popped
  <2>3. QED
    BY <2>1, <2>2
<1>5. QED
  BY <1>1, <1>4 DEF FifoCycle

\* In any surroundings the valid bits of the FIFO are a thermometer code.  Of its
\* depth only FifoAssumption is used, so this holds of a FIFO of any depth.
THEOREM FifoContiguous == FifoSpec => [](FifoTypeOK /\ Contiguous)
<1>1. FifoInit(Addr) => FifoTypeOK /\ Contiguous
  <2>1. StaleWord \in FetchWord
    BY FifoAssumption DEF StaleWord, FetchWord, Word
  <2>2. QED
    BY <2>1, FifoAssumption DEF FifoInit, FifoTypeOK, Contiguous, Entry
<1>2. FifoTypeOK /\ Contiguous /\ [FifoNext]_fifoVars => (FifoTypeOK /\ Contiguous)'
  <2>1. CASE FifoNext
    BY <2>1, FifoTypeStep, ContiguousStep DEF FifoNext
  <2>2. CASE UNCHANGED fifoVars
    BY <2>2 DEF fifoVars, FifoTypeOK, Contiguous
  <2>3. QED
    BY <2>1, <2>2
<1>3. QED
  BY <1>1, <1>2, PTL DEF FifoSpec

-----------------------------------------------------------------------------
(* The invariant of the buffer. *)

N(b) == IF b THEN 1 ELSE 0

\* Every word that is held, on its way or requested for the present branch has an
\* entry of the FIFO to go to.
RoomKept ==
  N(valid_q[0]) + N(valid_q[1]) + N(valid_q[2])
    + N(LiveOnBus(1)) + N(LiveOnBus(2)) + N(LiveHeld) <= 3

\* A request that waits for its grant has its outstanding bit free.
HeldHasSlot == valid_req_q => Len(bus) < NUM_REQS

\* Nothing happens before the boot branch.
Unstarted == ~started => bus = <<>> /\ ~valid_req_q /\ \A i \in Entry : ~valid_q[i]

\* What a branch has overtaken is older than what it has not: when a request to be
\* thrown away is granted, the mark may go to all that is outstanding.
StaleFirst ==
  /\ valid_req_q /\ seen.stale => \A k \in 1 .. Len(bus) : bus[k].stale
  /\ Len(bus) = 2 /\ bus[2].stale => bus[1].stale

\* The words the memory has answered for the core and it has not used up are those in
\* the FIFO.
Supplied ==
  /\ Len(got) = N(valid_q[0]) + N(valid_q[1]) + N(valid_q[2])
  /\ \A i \in Entry : valid_q[i] => got[i + 1] = data_q[i]

BufferInv ==
  /\ Contiguous /\ FetchInv /\ RoomKept /\ HeldHasSlot /\ StaleFirst /\ Unstarted
  /\ Supplied

-----------------------------------------------------------------------------
(* What one clock edge does to each part. *)

LEMMA Sizes == /\ NUM_REQS = 2 /\ Entry = {0, 1, 2} /\ Slot = {0, 1} /\ Top = 1
               /\ 0 \in Word /\ StaleWord \in FetchWord
<1>1. 0 \in Word
  BY FifoAssumption DEF Word
<1>2. QED
  BY <1>1, PrefetchAssumption DEF Entry, Slot, Top, StaleWord, FetchWord

LEMMA InputTypes ==
  ASSUME TypeOK, NEW in \in Inputs
  PROVE  /\ in.req \in BOOLEAN /\ in.branch \in BOOLEAN /\ in.ready \in BOOLEAN
         /\ in.gnt \in BOOLEAN /\ in.rvalid \in BOOLEAN /\ in.addr \in Targets /\ in.addr \in Addr
         /\ in.word \in FetchWord /\ (in.req => started \/ in.branch)
         /\ in.rvalid => bus # <<>> /\ in.word.word = bus[1].word
         /\ fifo_in(in) \in FifoInput
<1>1. PICK rvalid \in {FALSE, bus # <<>>} : in \in CycleInputs(rvalid)
  BY DEF Inputs
<1>2. /\ in.req \in BOOLEAN /\ in.branch \in BOOLEAN /\ in.ready \in BOOLEAN
      /\ in.gnt \in BOOLEAN /\ in.rvalid = rvalid /\ in.addr \in Targets
      /\ in.word \in BusData(rvalid)
  BY <1>1 DEF CycleInputs
<1>3. in.addr \in Addr
  BY <1>2, PrefetchAssumption
<1>4. in.word \in FetchWord /\ (in.rvalid => bus # <<>> /\ in.word.word = bus[1].word)
  <2>1. CASE rvalid
    <3>1. bus # <<>> /\ in.word \in MemoryWord(Head(bus).word) /\ Head(bus) = bus[1]
      <4>1. bus # <<>>
        BY <1>1, <2>1
      <4>2. bus \in Seq(Request)
        BY DEF TypeOK
      <4>3. Head(bus) = bus[1]
        BY <4>1, <4>2
      <4>4. QED
        BY <1>2, <2>1, <4>1, <4>3 DEF BusData
    <3>2. QED
      BY <3>1 DEF MemoryWord
  <2>2. CASE ~rvalid
    BY <1>2, <2>2, Sizes DEF BusData
  <2>3. QED
    BY <2>1, <2>2
<1>5. in.req => started \/ in.branch
  BY DEF Inputs
<1>6. fifo_in(in) \in FifoInput
  BY <1>1, <1>2, <1>3, <1>4 DEF fifo_in, FifoInput
<1>7. QED
  BY <1>1, <1>2, <1>3, <1>4, <1>5, <1>6

\* The word of an entry after a push.
Pushed(in, i) == IF valid_q[i] THEN data_q[i] ELSE in.word

\* The FIFO pushes, then pops; its address moves on by a word when it pops.
LEMMA FifoEffect ==
  ASSUME FifoTypeOK, Contiguous, NEW in \in FifoInput, FifoCycle(in)
  PROVE  /\ in.clear => instr_addr_q' = in.addr /\ \A i \in Entry : ~valid_q'[i]
         /\ ~in.clear /\ pop_fifo(in) =>
              /\ valid_pushed(in, 0)
              /\ instr_addr_q'.word = NextWord(instr_addr_q.word)
              /\ (valid_q'[0] <=> valid_pushed(in, 1)) /\ (valid_q'[1] <=> valid_pushed(in, 2))
              /\ ~valid_q'[2]
              /\ valid_q'[0] => data_q'[0] = Pushed(in, 1)
              /\ valid_q'[1] => data_q'[1] = Pushed(in, 2)
         /\ ~in.clear /\ ~pop_fifo(in) =>
              /\ instr_addr_q'.word = instr_addr_q.word
              /\ \A i \in Entry : /\ valid_q'[i] <=> valid_pushed(in, i)
                                  /\ valid_q'[i] => data_q'[i] = Pushed(in, i)
<1>1. /\ 0 \in Entry /\ 1 \in Entry /\ 2 \in Entry /\ Entry = {0, 1, 2} /\ NUM_REQS = 2
      /\ (valid_q[1] => valid_q[0]) /\ (valid_q[2] => valid_q[1])
  BY Sizes DEF Contiguous
<1>2. \A i \in Entry : /\ valid_q'[i] <=> valid_d(in, i)
                       /\ data_q'[i] = IF ~valid_d(in, i) THEN StaleWord
                                       ELSE IF entry_en(in, i) THEN data_d(in, i) ELSE data_q[i]
  BY DEF FifoCycle
<1>3. CASE in.clear
  BY <1>2, <1>3 DEF FifoCycle, valid_d
<1>4. CASE ~in.clear /\ pop_fifo(in)
  <2>1. (valid_q'[0] <=> valid_pushed(in, 1)) /\ (valid_q'[1] <=> valid_pushed(in, 2)) /\ ~valid_q'[2]
    BY <1>1, <1>2, <1>4 DEF valid_d, valid_popped
  <2>2. valid_pushed(in, 0)
    BY <1>1, <1>4 DEF pop_fifo, out_fire, out_valid, valid, valid_unaligned, valid_pushed,
       lowest_free_entry
  <2>3. instr_addr_q'.word = NextWord(instr_addr_q.word)
    BY <1>4 DEF FifoCycle, pop_fifo, instr_addr_next, out_compressed
  <2>4. valid_q'[0] => data_q'[0] = Pushed(in, 1)
    BY <1>1, <1>2, <1>4, <2>1 DEF entry_en, data_d, Pushed, valid_pushed
  <2>5. valid_q'[1] => data_q'[1] = Pushed(in, 2)
    BY <1>1, <1>2, <1>4, <2>1 DEF entry_en, data_d, Pushed, valid_pushed
  <2>6. QED
    BY <1>4, <2>1, <2>2, <2>3, <2>4, <2>5
<1>5. CASE ~in.clear /\ ~pop_fifo(in)
  <2>1. \A i \in Entry : valid_q'[i] <=> valid_pushed(in, i)
    BY <1>2, <1>5 DEF valid_d, valid_popped
  <2>2. instr_addr_q'.word = instr_addr_q.word
    BY <1>5 DEF FifoCycle, FifoTypeOK, pop_fifo, instr_addr_next, out_compressed
  <2>3. ASSUME NEW i \in Entry, valid_q'[i] PROVE data_q'[i] = Pushed(in, i)
    BY <1>1, <1>2, <1>5, <2>1, <2>3 DEF entry_en, data_d, Pushed, valid_pushed, lowest_free_entry
  <2>4. QED
    BY <1>5, <2>1, <2>2, <2>3
<1>6. QED
  BY <1>3, <1>4, <1>5

\* A grant adds a request to the bus, a response takes the oldest away.
LEMMA BusEffect ==
  ASSUME TypeOK, NEW in \in Inputs, Environment(in), HeldHasSlot, OutstandingMatchesBus,
         instr_addr(in) \in Addr
  PROVE  LET n == Len(bus) g == granted(in) IN
         /\ bus' \in Seq(Request) /\ n \in 0 .. 2 /\ (g => n < 2) /\ (in.rvalid => n > 0)
         /\ Len(bus') = n + N(g) - N(in.rvalid)
         /\ \A k \in 1 .. n - N(in.rvalid) :
              /\ bus'[k].word = bus[k + N(in.rvalid)].word
              /\ bus'[k].stale <=> bus[k + N(in.rvalid)].stale \/ in.branch
         /\ g => /\ bus'[n + 1 - N(in.rvalid)].word = instr_addr(in).word
                 /\ bus'[n + 1 - N(in.rvalid)].stale <=> overtaken(in)
<1> DEFINE n == Len(bus)
           g == granted(in)
           A == BusAfterGrant(in)
           r == [word |-> instr_addr(in).word, stale |-> overtaken(in)]
<1>1. bus \in Seq(Request) /\ n \in 0 .. 2 /\ (in.rvalid => n > 0)
  <2>1. bus \in Seq(Request)
    BY DEF TypeOK
  <2>2. in.rvalid => bus # <<>>
    BY InputTypes
  <2>3. n <= NUM_REQS
    BY DEF OutstandingMatchesBus
  <2>4. n \in Nat /\ (bus # <<>> => n > 0)
    BY <2>1
  <2> HIDE DEF n
  <2>5. QED
    BY <2>1, <2>2, <2>3, <2>4, PrefetchAssumption
<1>2. g => n < 2
  BY <1>1, Sizes DEF granted, valid_req, valid_new_req, HeldHasSlot, OutstandingMatchesBus
<1>3. /\ BusAfterBranch(in) \in Seq(Request) /\ Len(BusAfterBranch(in)) = n
      /\ \A k \in 1 .. n : /\ BusAfterBranch(in)[k].word = bus[k].word
                           /\ BusAfterBranch(in)[k].stale <=> bus[k].stale \/ in.branch
  <2> DEFINE f(k) == [bus[k] EXCEPT !.stale = @ \/ in.branch]
  <2>1. ASSUME NEW k \in 1 .. n
        PROVE  /\ f(k) \in Request /\ f(k).word = bus[k].word
               /\ f(k).stale <=> bus[k].stale \/ in.branch
    <3>1. bus[k] \in Request
      BY <1>1
    <3> DEFINE b == bus[k].stale \/ in.branch
    <3>2. f(k) = [bus[k] EXCEPT !.stale = b] /\ b \in BOOLEAN
      BY <3>1
    <3> HIDE DEF b
    <3>3. [bus[k] EXCEPT !.stale = b] = [word |-> bus[k].word, stale |-> b]
      BY <3>1 DEF Request
    <3>4. QED
      BY <3>1, <3>2, <3>3 DEF Request, b
  <2> HIDE DEF f
  <2>2. BusAfterBranch(in) = [k \in 1 .. n |-> f(k)]
    BY <1>1 DEF BusAfterBranch, f
  <2>3. QED
    BY <1>1, <2>1, <2>2
<1>4. r \in Request
  BY DEF Request, Addr, overtaken
<1>5. /\ A \in Seq(Request) /\ Len(A) = n + N(g)
      /\ \A k \in 1 .. n : /\ A[k].word = bus[k].word
                           /\ A[k].stale <=> bus[k].stale \/ in.branch
      /\ g => A[n + 1].word = instr_addr(in).word /\ (A[n + 1].stale <=> overtaken(in))
  <2> HIDE DEF r
  <2>1. A = IF g THEN Append(BusAfterBranch(in), r) ELSE BusAfterBranch(in)
    BY DEF BusAfterGrant, r
  <2>2. r.word = instr_addr(in).word /\ (r.stale <=> overtaken(in))
    BY DEF r
  <2>3. CASE g
    BY <1>1, <1>3, <1>4, <2>1, <2>2, <2>3 DEF N
  <2>4. CASE ~g
    BY <1>1, <1>3, <2>1, <2>4 DEF N
  <2>5. QED
    BY <2>3, <2>4
<1>6. bus' = IF in.rvalid THEN Tail(A) ELSE A
  BY DEF Environment
<1> HIDE DEF A
<1>7. CASE in.rvalid
  <2>1. A # <<>> /\ Len(A) = n + N(g) /\ n > 0
    BY <1>1, <1>5, <1>7 DEF N
  <2>2. bus' \in Seq(Request) /\ Len(bus') = Len(A) - 1 /\ \A k \in 1 .. Len(A) - 1 : bus'[k] = A[k + 1]
    BY <1>5, <1>6, <1>7, <2>1
  <2>3. QED
    BY <1>1, <1>2, <1>5, <1>7, <2>1, <2>2 DEF N
<1>8. CASE ~in.rvalid
  BY <1>1, <1>2, <1>5, <1>6, <1>8 DEF N
<1>9. QED
  BY <1>7, <1>8

-----------------------------------------------------------------------------
(* One clock edge keeps the invariant. *)

LEMMA AddrTypes ==
  ASSUME TypeOK, NEW in \in Inputs
  PROVE  instr_addr(in) \in Addr /\ fetch_addr_d(in) \in Addr
<1>1. in.addr \in Addr /\ fetch_addr_q \in Addr /\ stored_addr_q \in Addr
  BY InputTypes DEF TypeOK
<1>2. ASSUME NEW a \in Addr PROVE PlusFour(a) \in Addr /\ PlusFour(a).word = NextWord(a.word)
  BY NextWordType DEF PlusFour, Addr
<1>3. [fetch_addr_q EXCEPT !.half = 0] \in Addr
  BY <1>1 DEF Addr
<1>4. QED
  BY <1>1, <1>2, <1>3 DEF instr_addr, fetch_addr_d

\* The address of the next fetch moves on by the word that is requested.
LEMMA FetchAddr ==
  ASSUME TypeOK, NEW in \in Inputs, Requests(in)
  PROVE  LET base == IF in.branch THEN in.addr.word ELSE fetch_addr_q.word
         IN  fetch_addr_q'.word = IF new_request(in) THEN NextWord(base) ELSE base
<1>1. in.addr \in Addr /\ fetch_addr_q \in Addr
  BY InputTypes DEF TypeOK
<1>2. ASSUME NEW a \in Addr PROVE PlusFour(a).word = NextWord(a.word)
  BY <1>2 DEF PlusFour, Addr
<1>3. LET b == [fetch_addr_q EXCEPT !.half = 0] IN b \in Addr /\ b.word = fetch_addr_q.word
  BY <1>1 DEF Addr
<1>4. QED
  BY <1>1, <1>2, <1>3 DEF Requests, fetch_addr_d

\* A word goes into the FIFO exactly if the oldest request on the bus is live.
LEMMA PushEffect ==
  ASSUME BufferInv, NEW in \in Inputs
  PROVE  LET f == fifo_in(in) IN
         /\ f.clear = in.branch /\ f.addr = in.addr /\ f.word = in.word
         /\ f.valid <=> in.rvalid /\ LiveOnBus(1)
         /\ f.valid => ~valid_q[2] /\ f.word.word = bus[1].word
         /\ valid_pushed(f, 0) <=> valid_q[0] \/ f.valid
         /\ valid_pushed(f, 1) <=> valid_q[1] \/ (f.valid /\ valid_q[0])
         /\ valid_pushed(f, 2) <=> valid_q[2] \/ (f.valid /\ valid_q[1])
<1>1. TypeOK /\ OutstandingMatchesBus /\ DiscardMatchesStale /\ NoPushWhenFull /\ Contiguous
  BY DEF BufferInv, FetchInv, RequestsTracked
<1> DEFINE f == fifo_in(in)
<1>2. f.clear = in.branch /\ f.addr = in.addr /\ f.word = in.word
      /\ (f.valid <=> in.rvalid /\ ~branch_discard_q[0])
  BY DEF fifo_in
<1>3. in.rvalid => bus # <<>> /\ in.word.word = bus[1].word
  BY <1>1, InputTypes
<1>4. bus # <<>> => Len(bus) > 0
  BY <1>1 DEF TypeOK
<1>5. f.valid <=> in.rvalid /\ LiveOnBus(1)
  BY <1>1, <1>2, <1>3, <1>4, Sizes DEF LiveOnBus, DiscardMatchesStale, TypeOK
<1>6. f.valid => ~valid_q[2] /\ f.word.word = bus[1].word
  BY <1>1, <1>2, <1>3, Sizes DEF NoPushWhenFull
<1>7. (valid_q[1] => valid_q[0]) /\ (valid_q[2] => valid_q[1])
  BY <1>1, Sizes DEF Contiguous
<1> HIDE DEF f
<1>8. /\ valid_pushed(f, 0) <=> valid_q[0] \/ f.valid
      /\ valid_pushed(f, 1) <=> valid_q[1] \/ (f.valid /\ valid_q[0])
      /\ valid_pushed(f, 2) <=> valid_q[2] \/ (f.valid /\ valid_q[1])
  BY <1>7 DEF valid_pushed, lowest_free_entry
<1>9. QED
  BY <1>2, <1>5, <1>6, <1>8 DEF f

\* The words there are for the core in a cycle are those of the FIFO after its push.
LEMMA AnsweredWords ==
  ASSUME BufferInv, NEW in \in Inputs
  PROVE  LET f == fifo_in(in) s == Answered(in) IN
         /\ s \in Seq(FetchWord)
         /\ Len(s) = N(valid_pushed(f, 0)) + N(valid_pushed(f, 1)) + N(valid_pushed(f, 2))
         /\ \A i \in Entry : valid_pushed(f, i) => s[i + 1] = Pushed(f, i)
<1> DEFINE f == fifo_in(in)
           s == Answered(in)
           full(i) == valid_pushed(f, i)
<1>1. TypeOK /\ Supplied /\ Contiguous
  BY DEF BufferInv, FetchInv
<1>2. /\ f.word = in.word /\ (f.valid <=> in.rvalid /\ LiveOnBus(1)) /\ (f.valid => ~valid_q[2])
      /\ full(0) <=> valid_q[0] \/ f.valid
      /\ full(1) <=> valid_q[1] \/ (f.valid /\ valid_q[0])
      /\ full(2) <=> valid_q[2] \/ (f.valid /\ valid_q[1])
  BY PushEffect
<1>3. in.word \in FetchWord /\ (in.rvalid => bus # <<>>) /\ bus \in Seq(Request)
  BY <1>1, InputTypes DEF TypeOK
<1>4. in.rvalid => (LiveOnBus(1) <=> ~Head(bus).stale)
  BY <1>3 DEF LiveOnBus
<1>5. (valid_q[1] => valid_q[0]) /\ (valid_q[2] => valid_q[1])
  BY <1>1, Sizes DEF Contiguous
<1>6. /\ got \in Seq(FetchWord) /\ Len(got) = N(valid_q[0]) + N(valid_q[1]) + N(valid_q[2])
      /\ \A i \in Entry : valid_q[i] => got[i + 1] = data_q[i]
  BY <1>1 DEF TypeOK, Supplied
<1> HIDE DEF f, s, full
<1>7. CASE f.valid
  <2>1. s = Append(got, in.word)
    BY <1>2, <1>4, <1>7 DEF s, Answered
  <2>2. s \in Seq(FetchWord) /\ Len(s) = Len(got) + 1 /\ s[Len(got) + 1] = in.word
        /\ \A k \in 1 .. Len(got) : s[k] = got[k]
    BY <1>3, <1>6, <2>1
  <2>3. Len(s) = N(full(0)) + N(full(1)) + N(full(2))
    BY <1>2, <1>5, <1>6, <1>7, <2>2 DEF N
  <2>4. ASSUME NEW i \in Entry, full(i) PROVE s[i + 1] = Pushed(f, i)
    <3>1. i \in {0, 1, 2}
      BY Sizes
    <3>2. CASE valid_q[i]
      <4>1. i + 1 \in 1 .. Len(got)
        BY <1>5, <1>6, <3>1, <3>2 DEF N
      <4>2. QED
        BY <1>6, <2>2, <3>2, <4>1 DEF Pushed
    <3>3. CASE ~valid_q[i]
      <4>1. i = Len(got)
        BY <1>2, <1>5, <1>6, <2>4, <3>1, <3>3 DEF N
      <4>2. QED
        BY <1>2, <2>2, <3>3, <4>1 DEF Pushed
    <3>4. QED
      BY <3>2, <3>3
  <2>5. QED
    BY <2>2, <2>3, <2>4 DEF f, s, full
<1>8. CASE ~f.valid
  <2>1. s = got
    BY <1>2, <1>4, <1>8 DEF s, Answered
  <2>2. \A i \in Entry : full(i) <=> valid_q[i]
    BY <1>2, <1>8, Sizes
  <2>3. Len(s) = N(full(0)) + N(full(1)) + N(full(2))
    <3>1. /\ full(0) <=> valid_q[0]
          /\ full(1) <=> valid_q[1]
          /\ full(2) <=> valid_q[2]
      BY <2>2, Sizes
    <3>2. QED
      BY <1>6, <2>1, <3>1 DEF N
  <2>4. \A i \in Entry : full(i) => s[i + 1] = Pushed(f, i)
    BY <1>6, <2>1, <2>2 DEF Pushed
  <2>5. QED
    BY <1>6, <2>1, <2>3, <2>4 DEF f, s, full
<1>9. QED
  BY <1>7, <1>8

\* The core uses up a word exactly when the FIFO pops.
LEMMA SuppliedStep ==
  ASSUME BufferInv, NEW in \in Inputs, Cycle(in)
  PROVE  got' \in Seq(FetchWord) /\ Supplied'
<1> DEFINE f == fifo_in(in)
           s == Answered(in)
           full(i) == valid_pushed(f, i)
<1>1. TypeOK /\ FifoTypeOK /\ Contiguous
  BY DEF BufferInv, FetchInv, TypeOK
<1>2. f \in FifoInput /\ f.clear = in.branch
  BY <1>1, InputTypes, PushEffect
<1>3. FifoCycle(f)
  BY DEF Cycle
<1>4. UsesWord(in) <=> pop_fifo(f)
  <2>1. instr_addr_q.half \in {0, 1}
    BY <1>1 DEF FifoTypeOK, Addr
  <2>2. QED
    BY <2>1 DEF UsesWord, pop_fifo, out_compressed, unaligned
<1>5. got' = IF in.branch THEN <<>> ELSE IF UsesWord(in) THEN Tail(s) ELSE s
  BY DEF Cycle, Environment
<1>6. /\ s \in Seq(FetchWord) /\ Len(s) = N(full(0)) + N(full(1)) + N(full(2))
      /\ \A i \in Entry : full(i) => s[i + 1] = Pushed(f, i)
  BY AnsweredWords
<1>7. (full(1) => full(0)) /\ (full(2) => full(1))
  <2>1. (valid_q[1] => valid_q[0]) /\ (valid_q[2] => valid_q[1])
    BY <1>1, Sizes DEF Contiguous
  <2>2. QED
    BY <2>1, PushEffect
<1> HIDE DEF s, full
<1>8. CASE in.branch
  <2>1. got' = <<>> /\ \A i \in Entry : ~valid_q'[i]
    BY <1>1, <1>2, <1>3, <1>5, <1>8, FifoEffect
  <2>2. QED
    BY <2>1, Sizes DEF Supplied, N
<1>9. CASE ~in.branch /\ pop_fifo(f)
  <2>1. /\ full(0) /\ (valid_q'[0] <=> full(1)) /\ (valid_q'[1] <=> full(2)) /\ ~valid_q'[2]
        /\ valid_q'[0] => data_q'[0] = Pushed(f, 1)
        /\ valid_q'[1] => data_q'[1] = Pushed(f, 2)
    BY <1>1, <1>2, <1>3, <1>9, FifoEffect DEF full
  <2> HIDE DEF f
  <2>2. got' = Tail(s) /\ s # <<>>
    BY <1>4, <1>5, <1>6, <1>7, <1>9, <2>1 DEF N, f
  <2>3. /\ got' \in Seq(FetchWord) /\ Len(got') = Len(s) - 1
        /\ \A k \in 1 .. Len(s) - 1 : got'[k] = s[k + 1]
    BY <1>6, <2>2
  <2>4. Len(got') = N(valid_q'[0]) + N(valid_q'[1]) + N(valid_q'[2])
    BY <1>6, <1>7, <2>1, <2>3 DEF N
  <2>5. valid_q'[0] => got'[1] = data_q'[0]
    BY <1>6, <1>7, <2>1, <2>3, Sizes DEF N
  <2>6. valid_q'[1] => got'[2] = data_q'[1]
    BY <1>6, <1>7, <2>1, <2>3, Sizes DEF N
  <2>7. QED
    BY <2>1, <2>3, <2>4, <2>5, <2>6, Sizes DEF Supplied
<1>10. CASE ~in.branch /\ ~pop_fifo(f)
  <2>1. \A i \in Entry : /\ valid_q'[i] <=> full(i)
                         /\ valid_q'[i] => data_q'[i] = Pushed(f, i)
    BY <1>1, <1>2, <1>3, <1>10, FifoEffect DEF full
  <2>2. got' = s
    BY <1>4, <1>5, <1>10
  <2> HIDE DEF f
  <2>3. Len(got') = N(valid_q'[0]) + N(valid_q'[1]) + N(valid_q'[2])
    <3>1. /\ valid_q'[0] <=> full(0)
          /\ valid_q'[1] <=> full(1)
          /\ valid_q'[2] <=> full(2)
      BY <2>1, Sizes
    <3>2. QED
      BY <1>6, <2>2, <3>1 DEF N
  <2>4. QED
    BY <1>6, <2>1, <2>2, <2>3 DEF Supplied
<1>11. QED
  BY <1>8, <1>9, <1>10

LEMMA TypeStep ==
  ASSUME BufferInv, NEW in \in Inputs, Cycle(in)
  PROVE  TypeOK'
<1>1. TypeOK /\ HeldHasSlot /\ OutstandingMatchesBus /\ Contiguous
  BY DEF BufferInv, FetchInv, RequestsTracked
<1>2. FifoTypeOK'
  BY <1>1, InputTypes, FifoTypeStep DEF Cycle, TypeOK
<1>3. /\ valid_req_q' \in BOOLEAN /\ discard_req_q' \in BOOLEAN
      /\ rdata_outstanding_q' \in [Slot -> BOOLEAN] /\ branch_discard_q' \in [Slot -> BOOLEAN]
  <2>1. \A i \in Slot : /\ rdata_outstanding_n(in, i) \in BOOLEAN
                        /\ branch_discard_n(in, i) \in BOOLEAN
    BY <1>1, InputTypes DEF TypeOK, rdata_outstanding_n, branch_discard_n
  <2>2. \A bits \in [Slot -> BOOLEAN] : Shifted(in, bits) \in [Slot -> BOOLEAN]
    BY Sizes DEF Shifted
  <2>3. QED
    BY <1>1, <2>1, <2>2, InputTypes DEF Cycle, Requests, TypeOK, discard_req_d
<1>4. stored_addr_q' \in Addr /\ fetch_addr_q' \in Addr
  BY <1>1, AddrTypes DEF Cycle, Requests, TypeOK
<1>5. started' \in BOOLEAN /\ bus' \in Seq(Request)
  BY <1>1, InputTypes, AddrTypes, BusEffect DEF Cycle, Environment, TypeOK
<1>6. seen' \in [req : BOOLEAN, word : Word, stale : BOOLEAN]
  BY <1>1, InputTypes, AddrTypes, Sizes DEF Cycle, Environment, TypeOK, NoRequest, overtaken, Addr
<1>7. taken' \in {<<>>} \cup {<<i>> : i \in Instr}
  <2>1. out_instr(fifo_in(in)) \in Instr
    <3> DEFINE f == fifo_in(in)
    <3>1. /\ first(f) \in FetchWord /\ second(f) \in FetchWord /\ f.word \in FetchWord
          /\ instr_addr_q \in Addr
      BY <1>1, InputTypes, Sizes DEF first, second, TypeOK, FifoTypeOK, FifoInput
    <3>2. out_compressed(f) \in BOOLEAN
      BY <3>1 DEF out_compressed, unaligned_is_compressed, aligned_is_compressed, FetchWord
    <3>3. out_err(f) \in BOOLEAN /\ (out_err(f) /\ out_err_plus2(f)) \in BOOLEAN
      BY <3>1 DEF out_err, err_unaligned, out_err_plus2, FetchWord
    <3>4. QED
      BY <3>1, <3>2, <3>3 DEF out_instr, Instr, FetchWord
  <2>2. QED
    BY <2>1 DEF Cycle, Environment
<1>8. got' \in Seq(FetchWord)
  BY SuppliedStep
<1>9. QED
  BY <1>2, <1>3, <1>4, <1>5, <1>6, <1>7, <1>8 DEF TypeOK

LEMMA TrackedStep ==
  ASSUME BufferInv, NEW in \in Inputs, Cycle(in)
  PROVE  RequestsTracked' /\ HeldHasSlot' /\ StaleFirst'
<1> DEFINE n == Len(bus)
           g == granted(in)
<1>1. /\ TypeOK /\ HeldHasSlot /\ OutstandingMatchesBus /\ DiscardMatchesStale /\ HeldRequestStable
      /\ StaleFirst
  BY DEF BufferInv, FetchInv, RequestsTracked
<1>2. Requests(in) /\ Environment(in)
  BY DEF Cycle
<1>3. /\ n \in 0 .. 2 /\ (g => n < 2) /\ (in.rvalid => n > 0)
      /\ Len(bus') = n + N(g) - N(in.rvalid)
      /\ \A k \in 1 .. n - N(in.rvalid) :
              bus'[k].stale <=> bus[k + N(in.rvalid)].stale \/ in.branch
      /\ g => bus'[n + 1 - N(in.rvalid)].stale <=> overtaken(in)
  BY <1>1, <1>2, AddrTypes, BusEffect
<1>4. /\ rdata_outstanding_q[0] <=> n > 0
      /\ rdata_outstanding_q[1] <=> n > 1
      /\ branch_discard_q[0] <=> n > 0 /\ bus[1].stale
      /\ branch_discard_q[1] <=> n > 1 /\ bus[2].stale
  BY <1>1, <1>3, Sizes DEF OutstandingMatchesBus, DiscardMatchesStale
<1>5. /\ rdata_outstanding_n(in, 0) <=> g \/ n > 0
      /\ rdata_outstanding_n(in, 1) <=> (g /\ n > 0) \/ n > 1
      /\ branch_discard_n(in, 0) <=> \/ g /\ discard_req_d(in)
                                     \/ n > 0 /\ (in.branch \/ bus[1].stale)
      /\ branch_discard_n(in, 1) <=> \/ g /\ discard_req_d(in) /\ n > 0
                                     \/ n > 1 /\ (in.branch \/ bus[2].stale)
  BY <1>4 DEF rdata_outstanding_n, branch_discard_n
<1> HIDE DEF n, g
<1>6. /\ rdata_outstanding_q'[0] <=> IF in.rvalid THEN rdata_outstanding_n(in, 1)
                                    ELSE rdata_outstanding_n(in, 0)
      /\ rdata_outstanding_q'[1] <=> ~in.rvalid /\ rdata_outstanding_n(in, 1)
      /\ branch_discard_q'[0] <=> IF in.rvalid THEN branch_discard_n(in, 1)
                                 ELSE branch_discard_n(in, 0)
      /\ branch_discard_q'[1] <=> ~in.rvalid /\ branch_discard_n(in, 1)
  <2> DEFINE R == [i \in Slot |-> rdata_outstanding_n(in, i)]
             D == [i \in Slot |-> branch_discard_n(in, i)]
  <2>1. /\ R[0] <=> rdata_outstanding_n(in, 0)
        /\ R[1] <=> rdata_outstanding_n(in, 1)
        /\ D[0] <=> branch_discard_n(in, 0)
        /\ D[1] <=> branch_discard_n(in, 1)
    BY Sizes
  <2>2. rdata_outstanding_q' = Shifted(in, R) /\ branch_discard_q' = Shifted(in, D)
    BY <1>2 DEF Requests
  <2>a. R \in [Slot -> BOOLEAN] /\ D \in [Slot -> BOOLEAN]
    BY DEF rdata_outstanding_n, branch_discard_n
  <2> HIDE DEF R, D
  <2>3. \A b \in [Slot -> BOOLEAN] : /\ Shifted(in, b)[0] <=> IF in.rvalid THEN b[1] ELSE b[0]
                                     /\ Shifted(in, b)[1] <=> ~in.rvalid /\ b[1]
    <3>1. SUFFICES ASSUME NEW b \in [Slot -> BOOLEAN]
                   PROVE  /\ Shifted(in, b)[0] <=> IF in.rvalid THEN b[1] ELSE b[0]
                          /\ Shifted(in, b)[1] <=> ~in.rvalid /\ b[1]
      OBVIOUS
    <3>2. b[0] \in BOOLEAN /\ b[1] \in BOOLEAN
      BY Sizes
    <3>3. CASE in.rvalid
      <4>1. Shifted(in, b) = [i \in {0, 1} |-> i < 1 /\ b[i + 1]]
        BY <3>3, Sizes DEF Shifted
      <4>2. Shifted(in, b)[0] <=> b[1]
        BY <3>2, <4>1
      <4>3. ~Shifted(in, b)[1]
        <5>1. Shifted(in, b)[1] = (1 < 1 /\ b[1 + 1])
          BY <4>1, Zenon
        <5>2. ~(1 < 1)
          OBVIOUS
        <5>3. QED
          BY <5>1, <5>2, Zenon
      <4>4. QED
        BY <3>3, <4>2, <4>3
    <3>4. CASE ~in.rvalid
      BY <3>2, <3>4, Sizes DEF Shifted
    <3>5. QED
      BY <3>3, <3>4
  <2>4. QED
    BY <2>1, <2>2, <2>a, <2>3
<1>7. /\ discard_req_d(in) <=> overtaken(in)
      /\ overtaken(in) => \A k \in 1 .. n : in.branch \/ bus[k].stale
  BY <1>1 DEF discard_req_d, overtaken, DiscardMatchesStale, HeldRequestStable, StaleFirst, n
<1>8. OutstandingMatchesBus'
  <2>1. Len(bus') <= 2
    BY <1>3 DEF N
  <2>2. rdata_outstanding_q'[0] <=> 0 < Len(bus')
    BY <1>3, <1>5, <1>6 DEF N
  <2>3. rdata_outstanding_q'[1] <=> 1 < Len(bus')
    BY <1>3, <1>5, <1>6 DEF N
  <2>4. QED
    BY <2>1, <2>2, <2>3, Sizes DEF OutstandingMatchesBus
<1>9. DiscardMatchesStale'
  <2>1. branch_discard_q'[0] <=> 0 < Len(bus') /\ bus'[1].stale
    <3>1. CASE in.rvalid /\ n = 1
      BY <1>3, <1>5, <1>6, <1>7, <3>1 DEF N
    <3>2. CASE in.rvalid /\ n = 2
      BY <1>3, <1>5, <1>6, <1>7, <3>2 DEF N
    <3>3. CASE ~in.rvalid /\ n = 0
      BY <1>3, <1>5, <1>6, <1>7, <3>3 DEF N
    <3>4. CASE ~in.rvalid /\ n > 0
      BY <1>3, <1>5, <1>6, <1>7, <3>4 DEF N
    <3>5. QED
      BY <1>3, <3>1, <3>2, <3>3, <3>4
  <2>2. branch_discard_q'[1] <=> 1 < Len(bus') /\ bus'[2].stale
    BY <1>3, <1>5, <1>6, <1>7 DEF N
  <2>3. valid_req_q' => (discard_req_q' <=> seen'.stale)
    BY <1>2, <1>7 DEF Requests, Environment
  <2>4. QED
    BY <2>1, <2>2, <2>3, Sizes DEF DiscardMatchesStale
<1>10. HeldRequestStable'
  BY <1>1, <1>2 DEF HeldRequestStable, Requests, Environment, new_request, valid_req, instr_addr, NoRequest
<1>11. HeldHasSlot'
  <2>1. SUFFICES ASSUME valid_req_q' PROVE Len(bus') < 2
    BY Sizes DEF HeldHasSlot
  <2>2. valid_req(in) /\ ~in.gnt
    BY <1>2, <2>1 DEF Requests
  <2>3. n < 2
    BY <1>1, <1>3, <1>4, <2>2, Sizes DEF valid_req, valid_new_req, HeldHasSlot, n
  <2>4. QED
    BY <1>3, <2>2, <2>3 DEF N, g, granted
<1>12. StaleFirst'
  <2>1. ASSUME valid_req_q', seen'.stale, NEW k \in 1 .. Len(bus') PROVE bus'[k].stale
    <3>1. overtaken(in) /\ ~g
      BY <1>2, <2>1 DEF Requests, Environment, NoRequest, g, granted
    <3>2. k \in 1 .. n - N(in.rvalid) /\ k + N(in.rvalid) \in 1 .. n
      BY <1>3, <2>1, <3>1 DEF N
    <3>3. QED
      BY <1>3, <1>7, <3>1, <3>2
  <2>2. ASSUME Len(bus') = 2, bus'[2].stale PROVE bus'[1].stale
    <3>1. CASE in.rvalid
      <4>1. Len(bus') < 2
        BY <1>3, <3>1 DEF N
      <4>2. QED
        BY <2>2, <4>1
    <3>2. CASE ~in.rvalid /\ n = 2
      BY <1>1, <1>3, <2>2, <3>2 DEF N, StaleFirst, n
    <3>3. CASE ~in.rvalid /\ n < 2
      BY <1>3, <1>7, <2>2, <3>3 DEF N
    <3>4. QED
      BY <1>3, <3>1, <3>2, <3>3
  <2>3. QED
    BY <2>1, <2>2 DEF StaleFirst
<1>13. QED
  BY <1>8, <1>9, <1>10, <1>11, <1>12 DEF RequestsTracked

\* What is live on the bus and held after a clock edge: what was live and is not
\* overtaken now, and what is granted or held for the present branch.
LEMMA LiveEffect ==
  ASSUME BufferInv, NEW in \in Inputs, Cycle(in)
  PROVE  LET n == Len(bus)
             g == granted(in) /\ ~overtaken(in)
             live(k) == LiveOnBus(k) /\ ~in.branch
         IN
         /\ in.rvalid =>
              /\ LiveOnBus(1)' <=> live(2) \/ (n = 1 /\ g)
              /\ ~LiveOnBus(2)'
              /\ live(2) => bus'[1].word = bus[2].word
              /\ n = 1 /\ g => bus'[1].word = instr_addr(in).word
         /\ ~in.rvalid =>
              /\ LiveOnBus(1)' <=> live(1) \/ (n = 0 /\ g)
              /\ LiveOnBus(2)' <=> live(2) \/ (n = 1 /\ g)
              /\ live(1) => bus'[1].word = bus[1].word
              /\ live(2) => bus'[2].word = bus[2].word
              /\ n = 0 /\ g => bus'[1].word = instr_addr(in).word
              /\ n = 1 /\ g => bus'[2].word = instr_addr(in).word
         /\ LiveHeld' <=> valid_req(in) /\ ~in.gnt /\ ~overtaken(in)
         /\ LiveHeld' => seen'.word = instr_addr(in).word
<1> DEFINE n == Len(bus)
           g == granted(in) /\ ~overtaken(in)
<1>1. TypeOK /\ HeldHasSlot /\ OutstandingMatchesBus
  BY DEF BufferInv, FetchInv, RequestsTracked
<1>2. Environment(in)
  BY DEF Cycle
<1>3. /\ n \in 0 .. 2 /\ (granted(in) => n < 2) /\ (in.rvalid => n > 0)
      /\ Len(bus') = n + N(granted(in)) - N(in.rvalid)
      /\ \A k \in 1 .. n - N(in.rvalid) :
              /\ bus'[k].word = bus[k + N(in.rvalid)].word
              /\ bus'[k].stale <=> bus[k + N(in.rvalid)].stale \/ in.branch
      /\ granted(in) => /\ bus'[n + 1 - N(in.rvalid)].word = instr_addr(in).word
                        /\ bus'[n + 1 - N(in.rvalid)].stale <=> overtaken(in)
  BY <1>1, <1>2, AddrTypes, BusEffect
<1> HIDE DEF n
<1>4. LiveHeld' <=> valid_req(in) /\ ~in.gnt /\ ~overtaken(in)
  BY <1>2 DEF Environment, LiveHeld, NoRequest
<1>5. LiveHeld' => seen'.word = instr_addr(in).word
  BY <1>2, <1>4 DEF Environment
<1>6. CASE in.rvalid
  <2>1. n \in {1, 2} /\ N(in.rvalid) = 1 /\ (granted(in) => n = 1)
    BY <1>3, <1>6 DEF N
  <2>2. CASE n = 2
    <3>1. ~granted(in) /\ Len(bus') = 1
      BY <1>3, <2>1, <2>2 DEF N
    <3>2. 1 \in 1 .. n - N(in.rvalid) /\ 1 + N(in.rvalid) = 2
      BY <2>1, <2>2
    <3>3. bus'[1].word = bus[2].word /\ (bus'[1].stale <=> bus[2].stale \/ in.branch)
      BY <1>3, <3>2
    <3>4. /\ LiveOnBus(1)' <=> ~bus'[1].stale
          /\ ~LiveOnBus(2)'
          /\ LiveOnBus(2) <=> ~bus[2].stale
      BY <2>2, <3>1 DEF LiveOnBus, n
    <3>5. QED
      BY <1>4, <1>5, <1>6, <2>2, <3>1, <3>3, <3>4 DEF n
  <2>3. CASE n = 1
    <3>1. n + 1 - N(in.rvalid) = 1 /\ Len(bus') = N(granted(in)) /\ Len(bus) = 1
      BY <1>3, <2>1, <2>3 DEF N, n
    <3>2. granted(in) => bus'[1].word = instr_addr(in).word /\ (bus'[1].stale <=> overtaken(in))
      BY <1>3, <3>1
    <3>3. /\ LiveOnBus(1)' <=> granted(in) /\ ~bus'[1].stale
          /\ ~LiveOnBus(2)' /\ ~LiveOnBus(2)
      BY <3>1 DEF LiveOnBus, N
    <3>4. QED
      BY <1>4, <1>5, <1>6, <3>1, <3>2, <3>3
  <2>4. QED
    BY <2>1, <2>2, <2>3
<1>7. CASE ~in.rvalid
  <2>1. /\ n \in 0 .. 2 /\ Len(bus') = n + N(granted(in))
        /\ n > 0 => bus'[1].word = bus[1].word /\ (bus'[1].stale <=> bus[1].stale \/ in.branch)
        /\ n = 2 => bus'[2].word = bus[2].word /\ (bus'[2].stale <=> bus[2].stale \/ in.branch)
        /\ granted(in) => bus'[n + 1].word = instr_addr(in).word
                          /\ (bus'[n + 1].stale <=> overtaken(in))
    BY <1>3, <1>7 DEF N
  <2>2. CASE granted(in)
    BY <1>3, <1>4, <1>5, <1>7, <2>1, <2>2 DEF LiveOnBus, n, N
  <2>3. CASE ~granted(in)
    BY <1>3, <1>4, <1>5, <1>7, <2>1, <2>3 DEF LiveOnBus, n, N
  <2>4. QED
    BY <2>2, <2>3
<1>8. QED
  BY <1>6, <1>7

\* A new request is only made when the FIFO will have room for its word.
LEMMA NewRequest ==
  ASSUME BufferInv, NEW in \in Inputs, new_request(in)
  PROVE  /\ ~valid_req_q /\ ~LiveHeld /\ ~overtaken(in) /\ Len(bus) < 2
         /\ in.branch \/ (~valid_q[1] /\ ~valid_q[2])
                      \/ (~valid_q[2] /\ Len(bus) = 0)
<1>1. TypeOK /\ OutstandingMatchesBus /\ HeldRequestStable /\ Contiguous
  BY DEF BufferInv, FetchInv, RequestsTracked
<1>2. valid_new_req(in) /\ ~valid_req_q
  BY DEF new_request
<1>3. ~LiveHeld /\ ~overtaken(in)
  BY <1>1, <1>2 DEF HeldRequestStable, LiveHeld, overtaken
<1>4. /\ rdata_outstanding_q[0] <=> 0 < Len(bus)
      /\ rdata_outstanding_q[1] <=> 1 < Len(bus)
      /\ Len(bus) \in Nat
  BY <1>1, Sizes DEF OutstandingMatchesBus, TypeOK
<1>5. fifo_ready => (~valid_q[1] /\ ~rdata_outstanding_q[1]) \/ (~valid_q[2] /\ ~rdata_outstanding_q[0])
  BY Sizes DEF fifo_ready, fifo_busy
<1>6. valid_q[2] => valid_q[1]
  BY <1>1, Sizes DEF Contiguous
<1>7. QED
  BY <1>2, <1>3, <1>4, <1>5, <1>6, Sizes DEF valid_new_req

LEMMA UnstartedStep ==
  ASSUME BufferInv, NEW in \in Inputs, Cycle(in)
  PROVE  Unstarted'
<1> SUFFICES ASSUME ~started'
             PROVE  bus' = <<>> /\ ~valid_req_q' /\ \A i \in Entry : ~valid_q'[i]
  BY DEF Unstarted
<1>1. TypeOK /\ HeldHasSlot /\ OutstandingMatchesBus /\ Unstarted
  BY DEF BufferInv, FetchInv, RequestsTracked
<1>2. ~started /\ ~in.branch
  BY DEF Cycle, Environment
<1>3. bus = <<>> /\ ~valid_req_q /\ (\A i \in Entry : ~valid_q[i]) /\ ~in.req /\ ~in.rvalid
  BY <1>1, <1>2, InputTypes DEF Unstarted
<1>4. ~valid_req(in) /\ ~granted(in)
  BY <1>3 DEF valid_req, valid_new_req, granted
<1>5. bus' = <<>>
  <2>1. bus' = BusAfterBranch(in)
    BY <1>3, <1>4 DEF Cycle, Environment, BusAfterGrant
  <2>2. BusAfterBranch(in) = <<>>
    BY <1>3 DEF BusAfterBranch
  <2>3. QED
    BY <2>1, <2>2
<1>6. ~valid_req_q'
  BY <1>4 DEF Cycle, Requests
<1>7. ASSUME NEW i \in Entry PROVE ~valid_q'[i]
  <2>1. ~valid_d(fifo_in(in), i) /\ valid_q' = [k \in Entry |-> valid_d(fifo_in(in), k)]
    <3>1. ~fifo_in(in).valid
      BY <1>3 DEF fifo_in
    <3>2. i < NUM_REQS => i + 1 \in Entry
      BY Sizes
    <3>3. QED
      BY <1>3, <3>1, <3>2 DEF Cycle, FifoCycle, valid_d, valid_popped, valid_pushed
  <2>2. QED
    BY <2>1
<1>8. QED
  BY <1>5, <1>6, <1>7

LEMMA RoomStep ==
  ASSUME BufferInv, NEW in \in Inputs, Cycle(in)
  PROVE  RoomKept'
<1> DEFINE f == fifo_in(in)
           Fill == N(valid_q[0]) + N(valid_q[1]) + N(valid_q[2])
           NewFill == N(valid_q'[0]) + N(valid_q'[1]) + N(valid_q'[2])
           NewLive == N(LiveOnBus(1)') + N(LiveOnBus(2)') + N(LiveHeld')
           LiveReq == valid_req(in) /\ ~overtaken(in)
<1>1. TypeOK /\ Contiguous /\ RoomKept /\ OutstandingMatchesBus /\ HeldRequestStable /\ HeldHasSlot
  BY DEF BufferInv, FetchInv, RequestsTracked
<1>2. f \in FifoInput /\ FifoTypeOK /\ FifoCycle(f) /\ Len(bus) \in 0 .. 2
  <2>1. bus \in Seq(Request) /\ FifoTypeOK
    BY <1>1 DEF TypeOK
  <2>2. Len(bus) \in 0 .. 2
    <3>1. Len(bus) \in Nat
      BY <2>1
    <3>2. Len(bus) <= 2
      BY <1>1, PrefetchAssumption DEF OutstandingMatchesBus
    <3>3. \A n \in Nat : n <= 2 => n \in 0 .. 2
      OBVIOUS
    <3>4. QED
      BY <3>1, <3>2, <3>3
  <2>3. QED
    BY <1>1, <2>1, <2>2, InputTypes DEF Cycle
<1>3. CASE in.branch
  <2>1. NewFill = 0
    BY <1>1, <1>2, <1>3, FifoEffect, PushEffect, Sizes DEF N
  <2>2. NewLive <= 1
    <3>1. /\ ~(LiveOnBus(1)' /\ LiveOnBus(2)')
          /\ LiveOnBus(1)' \/ LiveOnBus(2)' => granted(in)
          /\ LiveHeld' => ~in.gnt
      BY <1>3, LiveEffect
    <3>2. granted(in) => in.gnt
      BY DEF granted
    <3>3. QED
      BY <3>1, <3>2 DEF N
  <2>3. QED
    BY <2>1, <2>2 DEF RoomKept, N
<1>4. CASE ~in.branch
  <2>1. NewFill <= Fill + N(f.valid)
    <3>1. /\ valid_pushed(f, 0) <=> valid_q[0] \/ f.valid
          /\ valid_pushed(f, 1) <=> valid_q[1] \/ (f.valid /\ valid_q[0])
          /\ valid_pushed(f, 2) <=> valid_q[2] \/ (f.valid /\ valid_q[1])
          /\ f.clear <=> in.branch
      BY PushEffect
    <3>2. (valid_q[1] => valid_q[0]) /\ (valid_q[2] => valid_q[1])
      BY <1>1, Sizes DEF Contiguous
    <3> HIDE DEF f
    <3>3. N(valid_pushed(f, 0)) + N(valid_pushed(f, 1)) + N(valid_pushed(f, 2)) <= Fill + N(f.valid)
      BY <3>1, <3>2 DEF N
    <3>4. \/ /\ valid_q'[0] <=> valid_pushed(f, 1)
             /\ valid_q'[1] <=> valid_pushed(f, 2)
             /\ ~valid_q'[2]
          \/ /\ valid_q'[0] <=> valid_pushed(f, 0)
             /\ valid_q'[1] <=> valid_pushed(f, 1)
             /\ valid_q'[2] <=> valid_pushed(f, 2)
      BY <1>1, <1>2, <1>4, <3>1, FifoEffect, Sizes
    <3>5. NewFill <= N(valid_pushed(f, 0)) + N(valid_pushed(f, 1)) + N(valid_pushed(f, 2))
      BY <3>4 DEF N
    <3>6. NewFill \in Nat /\ Fill \in Nat /\ N(f.valid) \in Nat
          /\ N(valid_pushed(f, 0)) + N(valid_pushed(f, 1)) + N(valid_pushed(f, 2)) \in Nat
      BY DEF N
    <3>7. QED
      BY <3>3, <3>5, <3>6
  <2>2. NewLive + N(f.valid) <= N(LiveOnBus(1)) + N(LiveOnBus(2)) + N(LiveReq)
    <3>1. f.valid <=> in.rvalid /\ LiveOnBus(1)
      BY PushEffect
    <3>2. /\ in.rvalid => /\ LiveOnBus(1)' <=> LiveOnBus(2) \/ (Len(bus) = 1 /\ granted(in) /\ ~overtaken(in))
                          /\ ~LiveOnBus(2)'
          /\ ~in.rvalid => /\ LiveOnBus(1)' <=> LiveOnBus(1) \/ (Len(bus) = 0 /\ granted(in) /\ ~overtaken(in))
                           /\ LiveOnBus(2)' <=> LiveOnBus(2) \/ (Len(bus) = 1 /\ granted(in) /\ ~overtaken(in))
          /\ LiveHeld' <=> valid_req(in) /\ ~in.gnt /\ ~overtaken(in)
      BY <1>4, LiveEffect
    <3>3. granted(in) <=> valid_req(in) /\ in.gnt
      BY DEF granted
    <3>4. ~(Len(bus) = 0 /\ Len(bus) = 1)
      OBVIOUS
    <3> HIDE DEF f
    <3>5. QED
      BY <3>1, <3>2, <3>3, <3>4 DEF N
  <2>3. CASE new_request(in)
    <3>1. (~valid_q[1] /\ ~valid_q[2] /\ Len(bus) < 2) \/ (~valid_q[2] /\ Len(bus) = 0)
      BY <1>4, <2>3, NewRequest
    <3>2. /\ Len(bus) < 2 => ~LiveOnBus(2)
          /\ Len(bus) = 0 => ~LiveOnBus(1) /\ ~LiveOnBus(2)
      BY DEF LiveOnBus
    <3>3. Fill + N(LiveOnBus(1)) + N(LiveOnBus(2)) <= 2
      BY <3>1, <3>2 DEF N
    <3>4. QED
      BY <2>1, <2>2, <3>3 DEF RoomKept, N
  <2>4. CASE ~new_request(in)
    <3>1. LiveReq => LiveHeld
      BY <1>1, <2>4 DEF new_request, valid_req, overtaken, LiveHeld, HeldRequestStable
    <3>2. N(LiveReq) <= N(LiveHeld)
      BY <3>1 DEF N
    <3>3. Fill + N(LiveOnBus(1)) + N(LiveOnBus(2)) + N(LiveHeld) <= 3
      BY <1>1 DEF RoomKept
    <3>4. NewFill + NewLive <= 3
      BY <2>1, <2>2, <3>2, <3>3 DEF N
    <3>5. QED
      BY <3>4 DEF RoomKept, N
  <2>5. QED
    BY <2>3, <2>4
<1>5. QED
  BY <1>3, <1>4

\* A response that is kept finds an entry free.
LEMMA NoPushStep ==
  ASSUME BufferInv, NEW in \in Inputs, Cycle(in)
  PROVE  NoPushWhenFull'
<1>1. TypeOK' /\ RequestsTracked' /\ RoomKept'
  BY TypeStep, TrackedStep, RoomStep
<1>2. Contiguous'
  BY InputTypes, ContiguousStep DEF BufferInv, FetchInv, TypeOK, Cycle
<1>3. SUFFICES ASSUME bus' # <<>>, ~branch_discard_q'[0], valid_q'[2] PROVE FALSE
  BY Sizes DEF NoPushWhenFull
<1>4. LiveOnBus(1)'
  <2>1. bus' \in Seq(Request)
    BY <1>1 DEF TypeOK
  <2>2. Len(bus') > 0
    BY <1>3, <2>1
  <2>3. ~bus'[1].stale
    BY <1>1, <1>3, <2>2, Sizes DEF RequestsTracked, DiscardMatchesStale
  <2>4. QED
    BY <2>1, <2>2, <2>3 DEF LiveOnBus
<1>5. valid_q'[0] /\ valid_q'[1] /\ valid_q'[2]
  BY <1>2, <1>3, Sizes DEF Contiguous
<1>6. QED
  BY <1>1, <1>4, <1>5 DEF RoomKept, N

\* As long as the core does not branch, the entries go on holding the words that
\* follow the address, and a word that is pushed is the one that was due.
LEMMA FifoStream ==
  ASSUME BufferInv, started, NEW in \in Inputs, Cycle(in), ~in.branch
  PROVE  /\ valid_q'[0] => data_q'[0].word = instr_addr_q'.word
         /\ valid_q'[1] => data_q'[1].word = AtEntry1'
         /\ valid_q'[2] => data_q'[2].word = AtEntry2'
         /\ AtBus1' = After(AtBus1, in.rvalid /\ LiveOnBus(1))
<1> DEFINE f == fifo_in(in)
           E1 == After(instr_addr_q.word, valid_pushed(f, 0))
           E2 == After(E1, valid_pushed(f, 1))
           E3 == After(E2, valid_pushed(f, 2))
<1>1. TypeOK /\ Contiguous /\ StreamInOrder
  BY DEF BufferInv, FetchInv
<1>2. f \in FifoInput /\ FifoTypeOK /\ FifoCycle(f)
  BY <1>1, InputTypes DEF Cycle, TypeOK
<1>3. /\ valid_pushed(f, 0) <=> valid_q[0] \/ f.valid
      /\ valid_pushed(f, 1) <=> valid_q[1] \/ (f.valid /\ valid_q[0])
      /\ valid_pushed(f, 2) <=> valid_q[2] \/ (f.valid /\ valid_q[1])
      /\ ~f.clear
      /\ f.valid <=> in.rvalid /\ LiveOnBus(1)
      /\ f.valid => ~valid_q[2] /\ f.word.word = bus[1].word
  BY PushEffect
<1>4. (valid_q[1] => valid_q[0]) /\ (valid_q[2] => valid_q[1])
  BY <1>1, Sizes DEF Contiguous
<1>5. /\ valid_q[0] => data_q[0].word = instr_addr_q.word
      /\ valid_q[1] => data_q[1].word = AtEntry1
      /\ valid_q[2] => data_q[2].word = AtEntry2
      /\ f.valid => f.word.word = AtBus1
  BY <1>1, <1>3 DEF StreamInOrder
<1> HIDE DEF f
<1>6. /\ valid_pushed(f, 0) => Pushed(f, 0).word = instr_addr_q.word
      /\ valid_pushed(f, 1) => Pushed(f, 1).word = E1
      /\ valid_pushed(f, 2) => Pushed(f, 2).word = E2
      /\ E3 = After(AtBus1, f.valid)
  BY <1>3, <1>4, <1>5 DEF Pushed, After, AtEntry1, AtEntry2, AtBus1
<1> DEFINE a == instr_addr_q'.word
<1>7. /\ valid_q'[0] => data_q'[0].word = a
      /\ valid_q'[1] => data_q'[1].word = After(a, valid_q'[0])
      /\ valid_q'[2] => data_q'[2].word = After(After(a, valid_q'[0]), valid_q'[1])
      /\ After(After(After(a, valid_q'[0]), valid_q'[1]), valid_q'[2]) = E3
  <2>1. CASE pop_fifo(f)
    <3>1. /\ valid_pushed(f, 0)
          /\ instr_addr_q'.word = NextWord(instr_addr_q.word)
          /\ (valid_q'[0] <=> valid_pushed(f, 1)) /\ (valid_q'[1] <=> valid_pushed(f, 2))
          /\ ~valid_q'[2]
          /\ valid_q'[0] => data_q'[0] = Pushed(f, 1)
          /\ valid_q'[1] => data_q'[1] = Pushed(f, 2)
      BY <1>1, <1>2, <1>3, <2>1, FifoEffect
    <3>2. a = E1
      BY <3>1 DEF After
    <3>3. QED
      BY <1>6, <3>1, <3>2 DEF After
  <2>2. CASE ~pop_fifo(f)
    <3>1. /\ instr_addr_q'.word = instr_addr_q.word
          /\ \A i \in Entry : /\ valid_q'[i] <=> valid_pushed(f, i)
                              /\ valid_q'[i] => data_q'[i] = Pushed(f, i)
      BY <1>1, <1>2, <1>3, <2>2, FifoEffect
    <3>2. /\ (valid_q'[0] <=> valid_pushed(f, 0)) /\ (valid_q'[1] <=> valid_pushed(f, 1))
          /\ (valid_q'[2] <=> valid_pushed(f, 2))
          /\ valid_q'[0] => data_q'[0] = Pushed(f, 0)
          /\ valid_q'[1] => data_q'[1] = Pushed(f, 1)
          /\ valid_q'[2] => data_q'[2] = Pushed(f, 2)
      BY <3>1, Sizes
    <3>3. QED
      BY <1>6, <3>1, <3>2 DEF After
  <2>3. QED
    BY <2>1, <2>2
<1>8. After(AtBus1, f.valid) = After(AtBus1, in.rvalid /\ LiveOnBus(1))
  BY <1>3 DEF After
<1>9. AtBus1' = After(After(After(a, valid_q'[0]), valid_q'[1]), valid_q'[2])
  BY DEF AtEntry1, AtEntry2, AtBus1
<1> HIDE DEF E1, E2, E3
<1>10. QED
  BY <1>6, <1>7, <1>8, <1>9 DEF AtEntry1, AtEntry2

\* The same on the bus: the requests that are live keep the words that follow, and
\* the next fetch comes after all of them.
LEMMA BusStream ==
  ASSUME BufferInv, started, NEW in \in Inputs, Cycle(in), ~in.branch
  PROVE  /\ LiveOnBus(1)' => bus'[1].word = AtBus1'
         /\ LiveOnBus(2)' => bus'[2].word = AtBus2'
         /\ LiveHeld' => seen'.word = AtHeld'
         /\ fetch_addr_q'.word = AtFetch'
<1> DEFINE n == Len(bus)
           a == instr_addr(in).word
           req == valid_req(in) /\ ~overtaken(in)
           g == granted(in) /\ ~overtaken(in)
           h == valid_req(in) /\ ~in.gnt /\ ~overtaken(in)
<1>1. /\ TypeOK /\ StreamInOrder /\ OutstandingMatchesBus /\ HeldRequestStable /\ HeldHasSlot
      /\ StaleFirst
  BY DEF BufferInv, FetchInv, RequestsTracked
<1>2. n \in 0 .. 2 /\ (valid_req(in) => n < 2)
  BY <1>1, Sizes DEF OutstandingMatchesBus, TypeOK, valid_req, valid_new_req, HeldHasSlot
<1>3. /\ LiveOnBus(1) => bus[1].word = AtBus1
      /\ LiveOnBus(2) => bus[2].word = AtBus2
      /\ LiveHeld => seen.word = AtHeld
      /\ fetch_addr_q.word = After(AtHeld, LiveHeld)
  BY <1>1 DEF StreamInOrder, AtFetch
<1>4. valid_req_q => (req <=> LiveHeld) /\ (LiveHeld => a = AtHeld) /\ ~new_request(in)
  BY <1>1, <1>3 DEF new_request, valid_req, overtaken, LiveHeld, HeldRequestStable, instr_addr
<1>5. ~valid_req_q => (req <=> new_request(in)) /\ ~LiveHeld /\ a = AtHeld
  <2>1. ASSUME ~valid_req_q PROVE ~LiveHeld /\ ~overtaken(in) /\ a = fetch_addr_q.word
    BY <1>1, <2>1 DEF overtaken, LiveHeld, HeldRequestStable, instr_addr
  <2>2. QED
    BY <1>3, <2>1 DEF After, new_request, valid_req
<1>6. (req => a = AtHeld) /\ fetch_addr_q'.word = After(AtHeld, req)
  <2>1. fetch_addr_q'.word = IF new_request(in) THEN NextWord(fetch_addr_q.word) ELSE fetch_addr_q.word
    BY <1>1, FetchAddr DEF Cycle
  <2>2. CASE valid_req_q
    BY <1>3, <1>4, <2>1, <2>2 DEF After
  <2>3. CASE ~valid_req_q
    BY <1>3, <1>5, <2>1, <2>3 DEF After
  <2>4. QED
    BY <2>2, <2>3
<1>7. AtBus1' = After(AtBus1, in.rvalid /\ LiveOnBus(1))
  BY FifoStream
<1>8. /\ in.rvalid =>
           /\ LiveOnBus(1)' <=> LiveOnBus(2) \/ (n = 1 /\ g)
           /\ ~LiveOnBus(2)'
           /\ LiveOnBus(2) => bus'[1].word = bus[2].word
           /\ n = 1 /\ g => bus'[1].word = a
      /\ ~in.rvalid =>
           /\ LiveOnBus(1)' <=> LiveOnBus(1) \/ (n = 0 /\ g)
           /\ LiveOnBus(2)' <=> LiveOnBus(2) \/ (n = 1 /\ g)
           /\ LiveOnBus(1) => bus'[1].word = bus[1].word
           /\ LiveOnBus(2) => bus'[2].word = bus[2].word
           /\ n = 0 /\ g => bus'[1].word = a
           /\ n = 1 /\ g => bus'[2].word = a
      /\ LiveHeld' <=> h
      /\ LiveHeld' => seen'.word = a
  BY LiveEffect
<1>9. (n = 0 => ~LiveOnBus(1)) /\ (n < 2 => ~LiveOnBus(2)) /\ (n = 2 /\ LiveOnBus(1) => LiveOnBus(2))
  BY <1>1, <1>2 DEF LiveOnBus, StaleFirst
<1>10. (req <=> g \/ h) /\ ~(g /\ h) /\ (req => n < 2) /\ (in.rvalid => n > 0)
  BY <1>1, <1>2, InputTypes DEF granted, TypeOK
<1>11. AtBus2 = After(AtBus1, LiveOnBus(1)) /\ AtHeld = After(AtBus2, LiveOnBus(2))
  BY DEF AtBus2, AtHeld
<1> DEFINE b1 == AtBus1'
           b2 == After(b1, LiveOnBus(1)')
           b3 == After(b2, LiveOnBus(2)')
<1>12. AtBus2' = b2 /\ AtHeld' = b3 /\ AtFetch' = After(b3, LiveHeld')
  BY DEF AtBus2, AtHeld, AtFetch
<1> HIDE DEF n, a, req, g, h
<1>13. CASE in.rvalid /\ n = 1
  BY <1>3, <1>6, <1>7, <1>8, <1>9, <1>10, <1>11, <1>12, <1>13 DEF After
<1>14. CASE in.rvalid /\ n = 2
  BY <1>3, <1>6, <1>7, <1>8, <1>9, <1>10, <1>11, <1>12, <1>14 DEF After
<1>15. CASE ~in.rvalid /\ n = 0
  BY <1>3, <1>6, <1>7, <1>8, <1>9, <1>10, <1>11, <1>12, <1>15 DEF After
<1>16. CASE ~in.rvalid /\ n = 1
  BY <1>3, <1>6, <1>7, <1>8, <1>9, <1>10, <1>11, <1>12, <1>16 DEF After
<1>17. CASE ~in.rvalid /\ n = 2
  BY <1>3, <1>6, <1>7, <1>8, <1>9, <1>10, <1>11, <1>12, <1>17 DEF After
<1>18. QED
  BY <1>2, <1>10, <1>13, <1>14, <1>15, <1>16, <1>17

\* A branch makes a new stream of everything: what is held and outstanding is
\* thrown away, and what is requested in this cycle is its first word.
LEMMA BranchStream ==
  ASSUME BufferInv, NEW in \in Inputs, Cycle(in), in.branch
  PROVE  StreamInOrder'
<1> DEFINE n == Len(bus)
           a == instr_addr(in).word
           t == in.addr.word
           g == granted(in) /\ ~overtaken(in)
           h == valid_req(in) /\ ~in.gnt /\ ~overtaken(in)
<1>1. TypeOK /\ Contiguous /\ HeldRequestStable
  BY DEF BufferInv, FetchInv, RequestsTracked
<1>2. instr_addr_q' = in.addr /\ \A i \in Entry : ~valid_q'[i]
  BY <1>1, InputTypes, PushEffect, FifoEffect DEF Cycle, TypeOK
<1>3. ~valid_q'[0] /\ ~valid_q'[1] /\ ~valid_q'[2] /\ instr_addr_q'.word = t
  BY <1>2, Sizes
<1>4. g \/ h => new_request(in) /\ a = t
  BY <1>1 DEF granted, valid_req, new_request, overtaken, HeldRequestStable, instr_addr
<1>5. new_request(in) => g \/ h
  BY <1>1, NewRequest DEF granted, valid_req, new_request
<1>6. fetch_addr_q'.word = After(t, g \/ h)
  BY <1>1, <1>4, <1>5, FetchAddr DEF Cycle, After
<1>7. /\ LiveOnBus(1)' => g /\ bus'[1].word = a
      /\ LiveOnBus(2)' => g /\ bus'[2].word = a
      /\ LiveHeld' <=> h
      /\ LiveHeld' => seen'.word = a
      /\ ~(LiveOnBus(1)' /\ LiveOnBus(2)')
  BY LiveEffect
<1>8. g => LiveOnBus(1)' \/ LiveOnBus(2)'
  <2>1. n \in 0 .. 2 /\ (granted(in) => n < 2) /\ (in.rvalid => n > 0)
    BY <1>1, AddrTypes, BusEffect DEF BufferInv, FetchInv, RequestsTracked, Cycle
  <2>2. /\ in.rvalid => (LiveOnBus(1)' <=> (n = 1 /\ g))
        /\ ~in.rvalid => /\ LiveOnBus(1)' <=> (n = 0 /\ g)
                         /\ LiveOnBus(2)' <=> (n = 1 /\ g)
    BY LiveEffect
  <2> HIDE DEF n
  <2>3. QED
    BY <2>1, <2>2
<1>9. ~(g /\ h)
  BY DEF granted
<1> DEFINE b2 == After(t, LiveOnBus(1)')
           b3 == After(b2, LiveOnBus(2)')
<1>10. AtEntry1' = t /\ AtEntry2' = t /\ AtBus1' = t
  BY <1>3 DEF AtEntry1, AtEntry2, AtBus1, After
<1>11. AtBus2' = b2 /\ AtHeld' = b3 /\ AtFetch' = After(b3, LiveHeld')
  BY <1>10 DEF AtBus2, AtHeld, AtFetch
<1> HIDE DEF g, h, a, t
<1>12. /\ LiveOnBus(1)' => bus'[1].word = AtBus1'
       /\ LiveOnBus(2)' => bus'[2].word = AtBus2'
       /\ LiveHeld' => seen'.word = AtHeld'
       /\ fetch_addr_q'.word = AtFetch'
  BY <1>4, <1>6, <1>7, <1>8, <1>9, <1>10, <1>11 DEF After
<1>13. QED
  BY <1>3, <1>12 DEF StreamInOrder

LEMMA StreamStep ==
  ASSUME BufferInv, NEW in \in Inputs, Cycle(in)
  PROVE  StreamInOrder'
<1>1. CASE in.branch
  BY <1>1, BranchStream
<1>2. CASE ~in.branch
  <2>1. CASE started
    BY <1>2, <2>1, FifoStream, BusStream DEF StreamInOrder
  <2>2. CASE ~started
    BY <1>2, <2>2 DEF Cycle, Environment, StreamInOrder
  <2>3. QED
    BY <2>1, <2>2
<1>3. QED
  BY <1>1, <1>2

LEMMA BufferInit == Init => BufferInv
<1> SUFFICES ASSUME Init PROVE BufferInv
  OBVIOUS
<1>1. /\ valid_q = [i \in Entry |-> FALSE] /\ data_q = [i \in Entry |-> StaleWord]
      /\ instr_addr_q \in Addr /\ stored_addr_q \in Addr /\ fetch_addr_q \in Addr
      /\ ~valid_req_q /\ ~discard_req_q /\ ~started /\ bus = <<>> /\ got = <<>> /\ taken = <<>>
      /\ seen = [req |-> FALSE, word |-> 0, stale |-> FALSE]
      /\ rdata_outstanding_q = [i \in Slot |-> FALSE] /\ branch_discard_q = [i \in Slot |-> FALSE]
  BY Sizes DEF Init, FifoInit, ResetAddr, Addr, NoRequest
<1>2. TypeOK
  <2>1. valid_req_q \in BOOLEAN /\ discard_req_q \in BOOLEAN /\ started \in BOOLEAN
    BY DEF Init
  <2>2. bus \in Seq(Request) /\ got \in Seq(FetchWord)
    BY <1>1
  <2>3. QED
    BY <1>1, <2>1, <2>2, Sizes DEF TypeOK, FifoTypeOK
<1>3. Contiguous
  BY <1>1, Sizes DEF Contiguous
<1>4. Len(bus) = 0
  BY <1>1
<1>5. NoPushWhenFull /\ RequestsTracked
  BY <1>1, <1>4, Sizes DEF NoPushWhenFull, RequestsTracked, OutstandingMatchesBus, DiscardMatchesStale,
     HeldRequestStable
<1>6. StreamInOrder /\ HeldHasSlot /\ StaleFirst /\ Unstarted
  BY <1>1, <1>4, Sizes DEF StreamInOrder, HeldHasSlot, StaleFirst, Unstarted
<1>7. RoomKept
  <2>1. ~valid_q[0] /\ ~valid_q[1] /\ ~valid_q[2] /\ ~LiveOnBus(1) /\ ~LiveOnBus(2) /\ ~LiveHeld
    BY <1>1, <1>4, Sizes DEF LiveOnBus, LiveHeld
  <2>2. QED
    BY <2>1 DEF RoomKept, N
<1>8. Supplied
  BY <1>1, Sizes DEF Supplied, N
<1>9. QED
  BY <1>2, <1>3, <1>5, <1>6, <1>7, <1>8 DEF BufferInv, FetchInv

LEMMA BufferStep ==
  ASSUME BufferInv, NEW in \in Inputs, Cycle(in)
  PROVE  BufferInv'
<1>1. Contiguous'
  BY InputTypes, ContiguousStep DEF BufferInv, FetchInv, TypeOK, Cycle
<1>2. FetchInv'
  BY TypeStep, NoPushStep, TrackedStep, StreamStep DEF FetchInv
<1>3. QED
  BY <1>1, <1>2, RoomStep, TrackedStep, UnstartedStep, SuppliedStep DEF BufferInv

LEMMA BufferInvariant == Spec => []BufferInv
<1>1. BufferInv /\ [Next]_vars => BufferInv'
  <2>1. CASE Next
    BY <2>1, BufferStep DEF Next
  <2>2. CASE UNCHANGED vars
    <3>1. UNCHANGED <<valid_q, data_q, instr_addr_q, valid_req_q, discard_req_q, rdata_outstanding_q,
                      branch_discard_q, stored_addr_q, fetch_addr_q, started, bus, seen, got,
                      taken>>
      BY <2>2 DEF vars, fifoVars, reqVars, envVars
    <3>2. QED
      BY <3>1 DEF BufferInv, Contiguous, FetchInv, TypeOK, FifoTypeOK, NoPushWhenFull, RequestsTracked,
         OutstandingMatchesBus, DiscardMatchesStale, HeldRequestStable, StreamInOrder, AtEntry1,
         AtEntry2, AtBus1, AtBus2, AtHeld, AtFetch, LiveOnBus, LiveHeld, RoomKept, HeldHasSlot,
         StaleFirst, Unstarted, Supplied
  <2>3. QED
    BY <2>1, <2>2
<1>2. QED
  BY <1>1, BufferInit, PTL DEF Spec

\* The FIFO has room for every word that is kept, the buffer knows what is on the
\* bus, and what it holds, awaits and will request is the stream of the last branch.
THEOREM FetchSound == Spec => [](Contiguous /\ FetchInv)
<1>1. BufferInv => Contiguous /\ FetchInv
  BY DEF BufferInv
<1>2. QED
  BY <1>1, BufferInvariant, PTL

-----------------------------------------------------------------------------
(* The instruction stream. *)

\* The instruction that is offered is in the first of the words there are, or in the
\* first two, and these are the words at its address.
LEMMA OfferedWords ==
  ASSUME BufferInv, NEW in \in Inputs, out_valid(fifo_in(in))
  PROVE  LET f == fifo_in(in) s == Answered(in) IN
         /\ started
         /\ s # <<>> /\ s[1] = first(f) /\ s[1].word = instr_addr_q.word
         /\ Promise!Spans(instr_addr_q, s) =>
              Len(s) > 1 /\ s[2] = second(f) /\ s[2].word = NextWord(instr_addr_q.word)
<1> DEFINE f == fifo_in(in)
           s == Answered(in)
<1>1. TypeOK /\ Contiguous /\ StreamInOrder /\ Unstarted
  BY DEF BufferInv, FetchInv
<1>2. /\ f.valid <=> in.rvalid /\ LiveOnBus(1)
      /\ f.valid => f.word.word = bus[1].word
      /\ f \in FifoInput
  BY <1>1, PushEffect, InputTypes
<1>3. f.word \in FetchWord /\ data_q[0] \in FetchWord /\ data_q[1] \in FetchWord
      /\ instr_addr_q.word \in Word
  BY <1>1, <1>2, Sizes DEF FifoInput, TypeOK, FifoTypeOK, Addr
<1>4. (valid_q[1] => valid_q[0]) /\ (valid_q[2] => valid_q[1])
  BY <1>1, Sizes DEF Contiguous
<1>5. valid_q[0] \/ f.valid
  BY <1>4 DEF out_valid, valid, valid_unaligned
<1>6. started
  BY <1>1, <1>2, <1>5, InputTypes, Sizes DEF Unstarted
<1>7. /\ valid_q[0] => data_q[0].word = instr_addr_q.word
      /\ valid_q[1] => data_q[1].word = AtEntry1
      /\ f.valid => f.word.word = AtBus1
  BY <1>1, <1>2, <1>6 DEF StreamInOrder
<1> HIDE DEF f
<1>8. first(f).word = instr_addr_q.word
  BY <1>4, <1>5, <1>7 DEF first, AtEntry1, AtEntry2, AtBus1, After
<1>9. valid_unaligned(f) => second(f).word = NextWord(instr_addr_q.word)
  BY <1>4, <1>7 DEF second, valid_unaligned, AtEntry1, AtEntry2, AtBus1, After
<1>10. /\ s \in Seq(FetchWord)
       /\ Len(s) = N(valid_pushed(f, 0)) + N(valid_pushed(f, 1)) + N(valid_pushed(f, 2))
       /\ valid_pushed(f, 0) => s[1] = Pushed(f, 0)
       /\ valid_pushed(f, 1) => s[2] = Pushed(f, 1)
  BY AnsweredWords, Sizes DEF f
<1>11. /\ valid_pushed(f, 0) <=> valid_q[0] \/ f.valid
       /\ valid_pushed(f, 1) <=> valid_q[1] \/ (f.valid /\ valid_q[0])
  BY PushEffect DEF f
<1> HIDE DEF s
<1>12. s # <<>> /\ s[1] = first(f)
  BY <1>5, <1>10, <1>11 DEF N, Pushed, first
<1>13. valid_unaligned(f) => Len(s) > 1 /\ s[2] = second(f)
  BY <1>4, <1>10, <1>11 DEF N, Pushed, second, valid_unaligned
<1>14. Promise!Spans(instr_addr_q, s) => valid_unaligned(f)
  BY <1>12 DEF Promise!Spans, Promise!IsCompressed, out_valid, unaligned, unaligned_is_compressed, f
<1>15. QED
  BY <1>6, <1>8, <1>9, <1>12, <1>13, <1>14 DEF f, s

\* What the core is offered is the instruction the memory holds, error flags included.
LEMMA OfferedInstr ==
  ASSUME BufferInv, NEW in \in Inputs, out_valid(fifo_in(in))
  PROVE  LET f == fifo_in(in) s == Answered(in) IN
         /\ out_instr(f) = Promise!Assemble(instr_addr_q, s)
         /\ instr_addr_next(f) = Promise!After(instr_addr_q, s)
<1> DEFINE f == fifo_in(in)
           s == Answered(in)
           w == s[1]
           v == s[2]
           spans == Promise!Spans(instr_addr_q, s)
<1>1. TypeOK /\ Contiguous
  BY DEF BufferInv, FetchInv
<1>2. /\ f.word \in FetchWord /\ data_q[0] \in FetchWord /\ data_q[1] \in FetchWord
      /\ instr_addr_q \in Addr
  BY <1>1, InputTypes, Sizes DEF FifoInput, TypeOK, FifoTypeOK
<1>3. valid_q[1] => valid_q[0]
  BY <1>1, Sizes DEF Contiguous
<1>4. /\ instr_addr_q.half \in {0, 1} /\ (unaligned <=> instr_addr_q.half = 1)
  BY <1>2 DEF Addr, unaligned
<1>0. w = first(f) /\ (spans => v = second(f))
  BY OfferedWords
<1> HIDE DEF f
<1>5. out_compressed(f) <=> Promise!IsCompressed(instr_addr_q, s)
  BY <1>4, <1>0 DEF out_compressed, unaligned_is_compressed, aligned_is_compressed, Promise!IsCompressed
<1>6. spans <=> unaligned /\ ~out_compressed(f)
  BY <1>4, <1>5 DEF Promise!Spans
<1>7. spans => v = second(f)
  BY <1>0
<1>8. spans => valid_q[0] /\ (valid_q[1] \/ f.valid)
  BY <1>3, <1>6 DEF out_compressed, out_valid, valid_unaligned, f
<1>9. out_compressed(f) => ~w.err
  BY <1>0 DEF out_compressed, unaligned_is_compressed, aligned_is_compressed
<1> HIDE DEF spans
<1>10. out_err(f) <=> w.err \/ (spans /\ v.err)
  <2>1. CASE ~unaligned
    BY <1>0, <1>6, <2>1 DEF out_err
  <2>2. CASE unaligned /\ valid_q[0]
    BY <1>6, <1>7, <1>9, <1>0, <2>2 DEF out_err, err_unaligned, out_compressed, first, second
  <2>3. CASE unaligned /\ ~valid_q[0]
    BY <1>3, <1>6, <1>8, <1>0, <2>3 DEF out_err, err_unaligned, out_compressed, first
  <2>4. QED
    BY <2>1, <2>2, <2>3
<1>11. (out_err(f) /\ out_err_plus2(f)) <=> spans /\ ~w.err /\ v.err
  <2>1. out_err_plus2(f) => unaligned /\ ~w.err
    BY <1>3, <1>0 DEF out_err_plus2, err_plus2, first
  <2>2. spans => (out_err_plus2(f) <=> ~w.err /\ v.err)
    BY <1>3, <1>6, <1>7, <1>8, <1>0 DEF out_err_plus2, err_plus2, first, second
  <2>3. QED
    BY <1>10, <2>1, <2>2
<1>12. out_instr(f) = Promise!Assemble(instr_addr_q, s)
  <2>1. /\ out_compressed(f) \in BOOLEAN /\ Promise!IsCompressed(instr_addr_q, s) \in BOOLEAN
        /\ out_err(f) \in BOOLEAN /\ (w.err \/ (spans /\ v.err)) \in BOOLEAN
    <3>1. w \in FetchWord
      BY <1>2, <1>0 DEF first
    <3>2. w.err \in BOOLEAN /\ w.lo \in BOOLEAN /\ w.hi \in BOOLEAN
      BY <3>1 DEF FetchWord
    <3> HIDE DEF w
    <3>3. out_err(f) \in BOOLEAN
      BY <1>0, <3>2 DEF out_err, err_unaligned
    <3>4. out_compressed(f) \in BOOLEAN
      BY DEF out_compressed, unaligned_is_compressed, aligned_is_compressed
    <3>5. Promise!IsCompressed(instr_addr_q, s) \in BOOLEAN
      BY DEF Promise!IsCompressed
    <3>6. QED
      BY <3>3, <3>4, <3>5
  <2>2. /\ out_compressed(f) = Promise!IsCompressed(instr_addr_q, s)
        /\ out_err(f) = (w.err \/ (spans /\ v.err))
        /\ (out_err(f) /\ out_err_plus2(f)) = (spans /\ ~w.err /\ v.err)
    BY <1>5, <1>10, <1>11, <2>1
  <2>3. (IF unaligned /\ ~out_compressed(f) THEN second(f).word ELSE w.word)
          = (IF spans THEN v.word ELSE w.word)
    BY <1>6, <1>7
  <2> DEFINE c1 == out_compressed(f)
             c2 == Promise!IsCompressed(instr_addr_q, s)
             h1 == IF unaligned /\ ~out_compressed(f) THEN second(f).word ELSE w.word
             h2 == IF spans THEN v.word ELSE w.word
             e1 == out_err(f)
             e2 == w.err \/ (spans /\ v.err)
             p1 == out_err(f) /\ out_err_plus2(f)
             p2 == spans /\ ~w.err /\ v.err
  <2>4. Promise!Assemble(instr_addr_q, s) =
          [pc |-> instr_addr_q, compressed |-> c2, low |-> w.word, high |-> h2, err |-> e2,
           err_plus2 |-> p2]
    BY DEF Promise!Assemble, spans
  <2>5. out_instr(f) =
          [pc |-> instr_addr_q, compressed |-> c1, low |-> w.word, high |-> h1, err |-> e1,
           err_plus2 |-> p1]
    BY <1>0 DEF out_instr
  <2>6. c1 = c2 /\ h1 = h2 /\ e1 = e2 /\ p1 = p2
    BY <2>2, <2>3
  <2> HIDE DEF c1, c2, h1, h2, e1, e2, p1, p2
  <2>7. QED
    BY <2>4, <2>5, <2>6
<1>13. instr_addr_next(f) = Promise!After(instr_addr_q, s)
  BY <1>4, <1>5 DEF instr_addr_next, unaligned, Promise!After, Promise!Shares
<1>14. QED
  BY <1>12, <1>13 DEF f

\* A clock edge is a branch, the delivery of the next instruction, or nothing to the
\* core.
LEMMA StreamRefined ==
  ASSUME BufferInv, NEW in \in Inputs, Cycle(in)
  PROVE  Promise!Next
<1> DEFINE f == fifo_in(in)
           s == Answered(in)
<1>1. TypeOK
  BY DEF BufferInv, FetchInv
<1>2. /\ f.clear <=> in.branch
      /\ f.addr = in.addr /\ in.branch \in BOOLEAN /\ in.addr \in Targets /\ started \in BOOLEAN
  BY <1>1, InputTypes DEF fifo_in, TypeOK
<1>3. /\ instr_addr_q' = IF f.clear THEN f.addr ELSE IF out_fire(f) THEN instr_addr_next(f) ELSE instr_addr_q
      /\ taken' = IF out_fire(f) /\ ~in.branch THEN <<out_instr(f)>> ELSE <<>>
      /\ got' = IF in.branch THEN <<>> ELSE IF UsesWord(in) THEN Tail(s) ELSE s
      /\ started' = (started \/ in.branch)
  BY DEF Cycle, FifoCycle, Environment
<1>4. CASE in.branch
  <2>1. instr_addr_q' = in.addr /\ got' = <<>> /\ taken' = <<>> /\ started' = TRUE
    <3>1. started' = TRUE
      BY <1>3, <1>4
    <3> HIDE DEF f
    <3>2. QED
      BY <1>2, <1>3, <1>4, <3>1
  <2>2. Promise!Redirect(in.addr)
    BY <2>1 DEF Promise!Redirect
  <2>3. in.addr \in Targets
    BY <1>2
  <2>4. QED
    BY <2>2, <2>3, Zenon DEF Promise!Next
<1>5. s \in Promise!Given
  <2>1. in.word \in Promise!Word32
    BY <1>1, InputTypes DEF FetchWord, Promise!Word32
  <2>2. QED
    BY <2>1 DEF Answered, Promise!Given
<1> HIDE DEF s
<1>6. CASE ~in.branch /\ out_fire(f)
  <2>1. out_valid(f)
    BY <1>6 DEF out_fire
  <2>2. /\ started
        /\ s # <<>> /\ s[1] = first(f) /\ s[1].word = instr_addr_q.word
        /\ Promise!Spans(instr_addr_q, s) => Len(s) > 1 /\ s[2].word = NextWord(instr_addr_q.word)
        /\ out_instr(f) = Promise!Assemble(instr_addr_q, s)
        /\ instr_addr_next(f) = Promise!After(instr_addr_q, s)
    BY <2>1, OfferedWords, OfferedInstr DEF s
  <2>3. UsesWord(in) <=> ~Promise!Shares(instr_addr_q, s)
    <3>1. instr_addr_q.half \in {0, 1}
      BY <1>1 DEF TypeOK, FifoTypeOK, Addr
    <3>2. out_compressed(f) <=> Promise!IsCompressed(instr_addr_q, s)
      BY <2>2, <3>1 DEF out_compressed, unaligned, unaligned_is_compressed, aligned_is_compressed,
         Promise!IsCompressed
    <3>3. QED
      BY <1>6, <3>2 DEF UsesWord, Promise!Shares
  <2>4. Promise!Deliver(s)
    BY <1>2, <1>3, <1>6, <2>2, <2>3 DEF Promise!Deliver
  <2>5. QED
    BY <1>5, <2>4 DEF Promise!Next
<1>7. CASE ~in.branch /\ ~out_fire(f)
  <2>1. ~UsesWord(in)
    BY <1>7 DEF UsesWord
  <2>2. Promise!Nothing(s)
    BY <1>2, <1>3, <1>7, <2>1 DEF Promise!Nothing
  <2>3. QED
    BY <1>5, <2>2 DEF Promise!Next
<1>8. QED
  BY <1>4, <1>6, <1>7

\* The prefetch buffer, with whatever it has fetched ahead and on whatever bus, hands
\* over the instructions from the last branch on: none skipped, none twice, each with
\* the errors of the words it is in and of no other.
THEOREM StreamDelivered == Spec => ImplementsInstrStream
<1>1. Init => Promise!Init
  BY Sizes DEF Init, FifoInit, ResetAddr, Addr, Promise!Init, Promise!Address, Promise!Halves
<1>2. BufferInv /\ [Next]_vars => [Promise!Next]_<<instr_addr_q, got, taken, started>>
  BY StreamRefined DEF Next, vars, fifoVars, envVars
<1>3. QED
  BY <1>1, <1>2, BufferInvariant, PTL DEF Spec, ImplementsInstrStream, Promise!Spec
=============================================================================
