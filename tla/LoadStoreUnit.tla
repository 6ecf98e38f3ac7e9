--------------------------- MODULE LoadStoreUnit ---------------------------
(***************************************************************************)
(* The load/store unit, rtl/ibex_load_store_unit.sv, between the ID stage  *)
(* that issues accesses, the PMP that may forbid a word, the data bus, and *)
(* the writeback stage that waits for one response.  An access that        *)
(* crosses a word boundary is split in two word-aligned parts, whose       *)
(* address phases, grants, responses and errors interleave in every way    *)
(* the bus protocol allows.                                                *)
(*                                                                         *)
(* One step is one clock edge.  The inputs of a cycle are a record `in':   *)
(* start (<<>>, or <<access>> that the ID stage begins to execute), gnt,   *)
(* rvalid, err (bus error with the response) and intg (integrity error).   *)
(*                                                                         *)
(* Data abstraction: a byte is named by its address, so that where each    *)
(* byte of a loaded value comes from can be followed through the           *)
(* alignment multiplexers; a stored value is its byte numbers 0 .. 3.      *)
(***************************************************************************)
EXTENDS Integers, Sequences

CONSTANTS
  WORDS,     \* size of the address space in words; addresses wrap around
  Denied,    \* words the PMP forbids
  Accesses   \* accesses the core makes

Word     == 0 .. WORDS - 1
BYTES    == 4 * WORDS
ByteAddr == 0 .. BYTES - 1
Lane     == 0 .. 3
WordOf(a)   == a \div 4
OffsetOf(a) == a % 4

VARIABLES
  ls_fsm,                \* ls_fsm_cs
  handle_misaligned_q,   \* the first part was granted
  pmp_err_q,             \* the last address phase was forbidden
  lsu_err_q,             \* the first part failed
  addr_last_q,           \* mtval, and base of the second part's address
  ctrl_q,                \* offset, type, sign_ext and we of the access
  rdata_q,               \* the word whose upper lanes were captured
  \* The environment and what it observes:
  access,     \* <<access>> the ID stage is executing
  waiting,    \* <<access>> the writeback stage awaits the response of
  bus,        \* granted transactions without a response
  held,       \* <<word>> requested on the bus in the last cycle, not granted
  failed,     \* parts of the current access that failed on the bus
  moved,      \* bytes of the current access transferred: <<address, number>>
  answer      \* <<answer>> the LSU gave in the last cycle

lsuVars == <<ls_fsm, handle_misaligned_q, pmp_err_q, lsu_err_q, addr_last_q,
             ctrl_q, rdata_q>>
envVars == <<access, waiting, bus, held, failed, moved, answer>>
vars    == <<lsuVars, envVars>>

\* Type W is a word, H a half word, B a byte.
Type   == {"W", "H", "B"}
Size   == [W |-> 4, H |-> 2, B |-> 1]
Access == [addr : ByteAddr, type : Type, we : BOOLEAN, sext : BOOLEAN]
Part   == {1, 2}

ASSUME LsuAssumption ==
  /\ WORDS \in Nat \ {0, 1}
  /\ Denied \subseteq Word
  /\ Accesses \subseteq Access

State == {"IDLE", "WAIT_GNT_MIS", "WAIT_RVALID_MIS", "WAIT_GNT",
          "WAIT_RVALID_MIS_GNTS_DONE"}

-----------------------------------------------------------------------------
(* Combinational signals. *)

lsu_req(in) == access # <<>> \/ in.start # <<>>

\* The operands on the LSU's inputs, held by the ID stage while it executes.
current(in) == IF access # <<>> THEN access[1] ELSE in.start[1]

addr_incr_req ==
  \/ ls_fsm \in {"WAIT_RVALID_MIS", "WAIT_RVALID_MIS_GNTS_DONE"}
  \/ ls_fsm = "WAIT_GNT" /\ handle_misaligned_q

\* The ALU adds four to addr_last for the second part.
data_addr(in) ==
  IF addr_incr_req THEN (addr_last_q + 4) % BYTES ELSE current(in).addr

data_offset(in) == OffsetOf(data_addr(in))
data_word(in)   == WordOf(data_addr(in))

split_misaligned_access(in) ==
  \/ current(in).type = "W" /\ data_offset(in) # 0
  \/ current(in).type = "H" /\ data_offset(in) = 3

data_req(in) ==
  IF ls_fsm = "IDLE" THEN lsu_req(in) ELSE ls_fsm # "WAIT_RVALID_MIS_GNTS_DONE"

\* The PMP checks the address of the current address phase; ibex_core keeps a
\* forbidden request off the bus.
data_pmp_err(in) == lsu_req(in) /\ data_word(in) \in Denied
bus_req(in)      == data_req(in) /\ ~data_pmp_err(in)

\* Lanes enabled in this part.
data_be(in) ==
  LET o == data_offset(in)
  IN  CASE current(in).type = "W" ->
             IF handle_misaligned_q THEN {l \in Lane : l < o}
                                    ELSE {l \in Lane : l >= o}
        [] current(in).type = "H" ->
             IF handle_misaligned_q THEN {0} ELSE {l \in Lane : l \in {o, o + 1}}
        [] current(in).type = "B" -> {o}

\* The byte of the stored value that the write data carries in lane l.
wdata_byte(in, l) == (l - data_offset(in)) % 4

\* The byte at position k of the loaded value, from the captured word and the
\* word r that is arriving.
loaded_byte(r, k) ==
  LET o == ctrl_q.offset
      FromArriving(l) == 4 * r + l
      FromCaptured(l) == 4 * rdata_q + l
  IN  IF o = 0 \/ ctrl_q.type = "B" \/ (ctrl_q.type = "H" /\ o < 3)
        THEN FromArriving(o + k)
      ELSE IF k < 4 - o THEN FromCaptured(o + k)
      ELSE FromArriving(o + k - 4)

lsu_resp_valid(in) == (in.rvalid \/ pmp_err_q) /\ ls_fsm = "IDLE"

data_or_pmp_err(in) == lsu_err_q \/ (in.rvalid /\ in.err) \/ pmp_err_q

lsu_rdata_valid(in) ==
  /\ ls_fsm = "IDLE" /\ in.rvalid
  /\ ~data_or_pmp_err(in) /\ ~ctrl_q.we /\ ~in.intg

load_err(in)  == data_or_pmp_err(in) /\ ~ctrl_q.we /\ lsu_resp_valid(in)
store_err(in) == data_or_pmp_err(in) /\ ctrl_q.we /\ lsu_resp_valid(in)

-----------------------------------------------------------------------------
(* The state machine: one action per branch of the case statement. *)

ctrl(in) == [offset |-> data_offset(in), type |-> current(in).type,
             we |-> current(in).we, sext |-> current(in).sext]

\* addr_last_d: the second part reports its word-aligned address.
addr_last_d(in) ==
  IF addr_incr_req THEN 4 * data_word(in) ELSE data_addr(in)

\* Without a response the data lines carry anything.
CaptureRdata(in) ==
  rdata_q' \in IF ctrl_q.we THEN {rdata_q}
              ELSE IF in.rvalid THEN {Head(bus).word} ELSE Word

Quiet(in) ==
  /\ ls_fsm = "IDLE" /\ ~lsu_req(in)
  /\ pmp_err_q' = FALSE
  /\ UNCHANGED <<ls_fsm, handle_misaligned_q, lsu_err_q, addr_last_q, ctrl_q,
                 rdata_q>>

StartGranted(in) ==
  /\ ls_fsm = "IDLE" /\ lsu_req(in) /\ in.gnt
  /\ ls_fsm' = IF split_misaligned_access(in) THEN "WAIT_RVALID_MIS" ELSE "IDLE"
  /\ handle_misaligned_q' = split_misaligned_access(in)
  /\ pmp_err_q' = data_pmp_err(in)
  /\ lsu_err_q' = FALSE
  /\ addr_last_q' = addr_last_d(in)
  /\ ctrl_q' = ctrl(in)
  /\ UNCHANGED rdata_q

StartNotGranted(in) ==
  /\ ls_fsm = "IDLE" /\ lsu_req(in) /\ ~in.gnt
  /\ ls_fsm' = IF split_misaligned_access(in) THEN "WAIT_GNT_MIS" ELSE "WAIT_GNT"
  /\ pmp_err_q' = data_pmp_err(in)
  /\ lsu_err_q' = FALSE
  /\ UNCHANGED <<handle_misaligned_q, addr_last_q, ctrl_q, rdata_q>>

FirstPartGranted(in) ==
  /\ ls_fsm = "WAIT_GNT_MIS" /\ (in.gnt \/ pmp_err_q)
  /\ ls_fsm' = "WAIT_RVALID_MIS"
  /\ handle_misaligned_q' = TRUE
  /\ addr_last_q' = addr_last_d(in)
  /\ ctrl_q' = ctrl(in)
  /\ UNCHANGED <<pmp_err_q, lsu_err_q, rdata_q>>

\* Mutant: a forbidden first part leaves its mark when the second is granted.
FirstPartDone_NoPmp(in) ==
  LET err == (in.rvalid /\ in.err) \/ pmp_err_q
  IN  /\ ls_fsm = "WAIT_RVALID_MIS" /\ (in.rvalid \/ pmp_err_q)
      /\ ls_fsm' = IF in.gnt THEN "IDLE" ELSE "WAIT_GNT"
      /\ handle_misaligned_q' = ~in.gnt
      /\ lsu_err_q' = err
      /\ addr_last_q' = IF in.gnt /\ ~err THEN addr_last_d(in) ELSE addr_last_q
      /\ CaptureRdata(in)
      /\ UNCHANGED <<ctrl_q, pmp_err_q>>

\* The first part is over, by its response or because it was forbidden, while
\* the second is being requested.
FirstPartDone(in) ==
  LET err == (in.rvalid /\ in.err) \/ pmp_err_q
  IN  /\ ls_fsm = "WAIT_RVALID_MIS" /\ (in.rvalid \/ pmp_err_q)
      /\ ls_fsm' = IF in.gnt THEN "IDLE" ELSE "WAIT_GNT"
      /\ handle_misaligned_q' = ~in.gnt
      /\ pmp_err_q' = data_pmp_err(in)
      /\ lsu_err_q' = err
      /\ addr_last_q' = IF in.gnt /\ ~err THEN addr_last_d(in) ELSE addr_last_q
      /\ CaptureRdata(in)
      /\ UNCHANGED ctrl_q

\* The second part is granted before the response to the first.
SecondPartGrantedEarly(in) ==
  /\ ls_fsm = "WAIT_RVALID_MIS" /\ ~in.rvalid /\ ~pmp_err_q /\ in.gnt
  /\ ls_fsm' = "WAIT_RVALID_MIS_GNTS_DONE"
  /\ handle_misaligned_q' = FALSE
  /\ UNCHANGED <<pmp_err_q, lsu_err_q, addr_last_q, ctrl_q, rdata_q>>

\* Mutant: an access whose last part is forbidden waits for a grant that the
\* bus never gives.
LastPartGranted_NotForPmp(in) ==
  /\ ls_fsm = "WAIT_GNT" /\ in.gnt
  /\ ls_fsm' = "IDLE"
  /\ handle_misaligned_q' = FALSE
  /\ addr_last_q' = IF lsu_err_q THEN addr_last_q ELSE addr_last_d(in)
  /\ ctrl_q' = ctrl(in)
  /\ UNCHANGED <<pmp_err_q, lsu_err_q, rdata_q>>

\* The only or the second part is granted.
LastPartGranted(in) ==
  /\ ls_fsm = "WAIT_GNT" /\ (in.gnt \/ pmp_err_q)
  /\ ls_fsm' = "IDLE"
  /\ handle_misaligned_q' = FALSE
  /\ addr_last_q' = IF lsu_err_q THEN addr_last_q ELSE addr_last_d(in)
  /\ ctrl_q' = ctrl(in)
  /\ UNCHANGED <<pmp_err_q, lsu_err_q, rdata_q>>

\* Mutant: the word of the first part is not captured.
FirstResponse_NoCapture(in) ==
  /\ ls_fsm = "WAIT_RVALID_MIS_GNTS_DONE" /\ in.rvalid
  /\ ls_fsm' = "IDLE"
  /\ pmp_err_q' = data_pmp_err(in)
  /\ lsu_err_q' = in.err
  /\ addr_last_q' = IF in.err THEN addr_last_q ELSE addr_last_d(in)
  /\ UNCHANGED <<handle_misaligned_q, ctrl_q, rdata_q>>

FirstResponse(in) ==
  /\ ls_fsm = "WAIT_RVALID_MIS_GNTS_DONE" /\ in.rvalid
  /\ ls_fsm' = "IDLE"
  /\ pmp_err_q' = data_pmp_err(in)
  /\ lsu_err_q' = in.err
  /\ addr_last_q' = IF in.err THEN addr_last_q ELSE addr_last_d(in)
  /\ CaptureRdata(in)
  /\ UNCHANGED <<handle_misaligned_q, ctrl_q>>

Wait(in) ==
  /\ \/ ls_fsm \in {"WAIT_GNT_MIS", "WAIT_GNT"} /\ ~in.gnt /\ ~pmp_err_q
     \/ ls_fsm = "WAIT_RVALID_MIS" /\ ~in.gnt /\ ~in.rvalid /\ ~pmp_err_q
     \/ ls_fsm = "WAIT_RVALID_MIS_GNTS_DONE" /\ ~in.rvalid
  /\ UNCHANGED lsuVars

Fsm(in) ==
  \/ Quiet(in) \/ StartGranted(in) \/ StartNotGranted(in)
  \/ FirstPartGranted(in) \/ FirstPartDone(in) \/ SecondPartGrantedEarly(in)
  \/ LastPartGranted(in) \/ FirstResponse(in) \/ Wait(in)

lsu_req_done(in) == lsu_req(in) /\ ls_fsm' = "IDLE"

-----------------------------------------------------------------------------
(* The core and the data bus.  The ID stage begins an access when none is   *)
(* in flight or the awaited response is arriving without an error, and      *)
(* holds its operands until lsu_req_done; the writeback stage waits for the *)
(* response.  The bus answers in order, at the earliest one cycle after the *)
(* grant; its grant line means nothing while nothing is requested.          *)

WordAfter(w) == (w + 1) % WORDS

\* The bytes of an access, by the position they have in the value.
BytesOf(a) == [k \in 0 .. Size[a.type] - 1 |-> (a.addr + k) % BYTES]

IsSplit(a) == OffsetOf(a.addr) + Size[a.type] > 4

\* The word a part of an access is in.
WordOfPart(a, p) ==
  IF p = 1 THEN WordOf(a.addr) ELSE WordAfter(WordOf(a.addr))

PartsOf(a) == IF IsSplit(a) THEN {1, 2} ELSE {1}

\* Parts of an access that the PMP forbids.
Forbidden(a) == {p \in PartsOf(a) : WordOfPart(a, p) \in Denied}

MayStart(in) ==
  /\ access = <<>>
  /\ waiting # <<>> =>
       lsu_resp_valid(in) /\ ~load_err(in) /\ ~store_err(in)

Inputs ==
  {in \in [start : {<<>>} \cup {<<a>> : a \in Accesses}, gnt : BOOLEAN,
           rvalid : {FALSE, bus # <<>>}, err : BOOLEAN, intg : BOOLEAN] :
     /\ in.start # <<>> => MayStart(in)
     /\ in.err \/ in.intg => in.rvalid}

Transaction(in) ==
  [word |-> data_word(in), part |-> IF addr_incr_req THEN 2 ELSE 1]

MovedNow(in) ==
  IF bus_req(in) /\ in.gnt
    THEN {<<4 * data_word(in) + l, wdata_byte(in, l)>> : l \in data_be(in)}
    ELSE {}

FailedNow(in) == IF in.rvalid /\ in.err THEN {Head(bus).part} ELSE {}

\* What a response that nobody waits for would be taken for.
NoAccess == [addr |-> 0, type |-> "W", we |-> FALSE, sext |-> FALSE]

Answer(in) ==
  LET a == IF waiting = <<>> THEN NoAccess ELSE waiting[1]
  IN  [access |-> a,
       load_err |-> load_err(in), store_err |-> store_err(in),
       rdata_valid |-> lsu_rdata_valid(in),
       rdata |-> IF lsu_rdata_valid(in)
                   THEN [k \in 0 .. Size[ctrl_q.type] - 1 |->
                          loaded_byte(Head(bus).word, k)]
                   ELSE <<>>,
       sext |-> ctrl_q.sext,
       failed |-> failed \cup FailedNow(in) \cup Forbidden(a),
       moved |-> moved]

CoreAndBus(in) ==
  LET granted == bus_req(in) /\ in.gnt
      sent    == IF granted THEN Append(bus, Transaction(in)) ELSE bus
  IN  /\ bus' = IF in.rvalid THEN Tail(sent) ELSE sent
      /\ held' = IF bus_req(in) /\ ~in.gnt THEN <<data_word(in)>> ELSE <<>>
      /\ access' = IF lsu_req(in) /\ ~lsu_req_done(in)
                     THEN <<current(in)>> ELSE <<>>
      /\ waiting' = IF lsu_req_done(in) THEN <<current(in)>>
                    ELSE IF lsu_resp_valid(in) THEN <<>> ELSE waiting
      /\ failed' = IF in.start # <<>> THEN {} ELSE failed \cup FailedNow(in)
      /\ moved' = (IF in.start # <<>> THEN {} ELSE moved) \cup MovedNow(in)
      /\ answer' = IF lsu_resp_valid(in) THEN <<Answer(in)>> ELSE <<>>

Cycle(in) == Fsm(in) /\ CoreAndBus(in)

Init ==
  /\ ls_fsm = "IDLE"
  /\ handle_misaligned_q = FALSE
  /\ pmp_err_q = FALSE
  /\ lsu_err_q = FALSE
  /\ addr_last_q = 0
  /\ ctrl_q = [offset |-> 0, type |-> "W", we |-> FALSE, sext |-> FALSE]
  /\ rdata_q = 0
  /\ access = <<>> /\ waiting = <<>> /\ bus = <<>> /\ held = <<>>
  /\ failed = {} /\ moved = {} /\ answer = <<>>

Next == \E in \in Inputs : Cycle(in)

Spec == Init /\ [][Next]_vars

-----------------------------------------------------------------------------
(* Properties. *)

\* Type invariant; in particular every address stays in the address space.
TypeOK ==
  /\ ls_fsm \in State
  /\ handle_misaligned_q \in BOOLEAN
  /\ pmp_err_q \in BOOLEAN
  /\ lsu_err_q \in BOOLEAN
  /\ addr_last_q \in ByteAddr
  /\ ctrl_q \in [offset : Lane, type : Type, we : BOOLEAN, sext : BOOLEAN]
  /\ rdata_q \in Word
  /\ access \in {<<>>} \cup {<<a>> : a \in Access}
  /\ waiting \in {<<>>} \cup {<<a>> : a \in Access}
  /\ bus \in Seq([word : Word, part : Part])
  /\ held \in {<<>>} \cup {<<w>> : w \in Word}
  /\ failed \subseteq Part
  /\ moved \subseteq ByteAddr \X Lane

\* An access is answered with an error exactly if one of its parts was forbidden
\* or answered with a bus error, and as a load or a store as it is one.  Then
\* addr_last_o, which becomes mtval, is the address of the first failing part:
\* the access's own address, or the second word's.
ErrorsExact ==
  answer # <<>> =>
    LET r == answer[1]
    IN  /\ r.load_err  <=> r.failed # {} /\ ~r.access.we
        /\ r.store_err <=> r.failed # {} /\ r.access.we
        /\ r.failed # {} =>
             addr_last_q = IF 1 \in r.failed THEN r.access.addr
                           ELSE 4 * WordOfPart(r.access, 2)

\* Load data is valid for an error-free load only, is made of the bytes at the
\* access's addresses in their order, and extended as the access says.
LoadsRightBytes(r) ==
  r.rdata_valid =>
    /\ r.failed = {} /\ ~r.access.we
    /\ r.rdata = BytesOf(r.access)
    /\ r.sext = r.access.sext

\* The lanes enabled on the bus over both parts are the bytes of the access,
\* each with its byte of the value, except those in a forbidden word.
TransfersRightBytes(r) ==
  LET b == BytesOf(r.access)
  IN  r.moved = {<<b[k], k>> : k \in {k \in DOMAIN b : WordOf(b[k]) \notin Denied}}

\* Whatever was split, delayed or still in rdata_q from the access before, an
\* answer has moved the bytes of its own access, each to its place.
RightBytes ==
  answer # <<>> => LoadsRightBytes(answer[1]) /\ TransfersRightBytes(answer[1])

\* A request that was not granted is repeated with the same address.
NoInput == [start |-> <<>>, gnt |-> FALSE, rvalid |-> FALSE, err |-> FALSE,
            intg |-> FALSE]
HeldRequestStable ==
  held # <<>> =>
    access # <<>> /\ bus_req(NoInput) /\ data_word(NoInput) = held[1]

\* The pipeline sees the port it relies on: an access is done once, answered once
\* after that, and never while the LSU is busy with another one.
Port == INSTANCE LsuPort WITH
  lsu_busy <- ls_fsm # "IDLE",
  lsu_owed <- IF waiting = <<>> THEN "none"
              ELSE IF waiting[1].we THEN "store" ELSE "load"
PortRespected ==
  [][LET resp == IF answer' = <<>> THEN "none"
                 ELSE IF answer'[1].load_err \/ answer'[1].store_err THEN "error"
                 ELSE "ok"
     IN  /\ resp \in Port!Responses
         /\ \E req, done \in BOOLEAN, type \in Port!AccessType :
              Port!PortCycle(req, type, done, resp)]_vars

-----------------------------------------------------------------------------
(* Progress, with a bus that grants a held request and answers every        *)
(* granted one in the end.  A cycle in which nothing arrives passes too;    *)
(* the grant line, which may be high without a request, is not relied on.   *)

Grant   == /\ access # <<>> /\ bus_req(NoInput)
           /\ \E in \in Inputs : in.gnt /\ Cycle(in)
Respond == \E in \in Inputs : in.rvalid /\ Cycle(in)

FairSpec == Spec /\ WF_vars(Cycle(NoInput)) /\ WF_vars(Grant) /\ WF_vars(Respond)

\* Every access is answered, also one that the PMP keeps off the bus.
EveryAccessAnswered == access # <<>> \/ waiting # <<>> ~> answer # <<>>

\* The state of the unit as a whole: in every state of the FSM, whichever of the two
\* parts of an access has failed, what the core is told has the right error, address
\* and bytes, and a request that is held does not change.
AccessInv == TypeOK /\ ErrorsExact /\ RightBytes /\ HeldRequestStable
====
