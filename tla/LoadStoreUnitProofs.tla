------------------------ MODULE LoadStoreUnitProofs ------------------------
(***************************************************************************)
(* What holds of the load/store unit for every size of the address space,  *)
(* any words forbidden by the PMP, all accesses and any bus.               *)
(***************************************************************************)
EXTENDS LoadStoreUnit, TLAPS

(* An access in its phases. *)

Last(a) == IF IsSplit(a) THEN 2 ELSE 1

Tx(a, p)  == [word |-> WordOfPart(a, p), part |-> p]
CtrlOf(a) == [offset |-> OffsetOf(a.addr), type |-> a.type, we |-> a.we, sext |-> a.sext]

\* The lanes of a part, and the bytes of the value they carry.
LanesOf(a, p) ==
  IF p = 1 THEN {l \in Lane : l >= OffsetOf(a.addr) /\ l < OffsetOf(a.addr) + Size[a.type]}
           ELSE {l \in Lane : l + 4 < OffsetOf(a.addr) + Size[a.type]}
ByteIn(a, p, l) == IF p = 1 THEN l - OffsetOf(a.addr) ELSE l + 4 - OffsetOf(a.addr)
Carried(a, p) ==
  IF p \in Forbidden(a) THEN {}
  ELSE {<<4 * WordOfPart(a, p) + l, ByteIn(a, p, l)>> : l \in LanesOf(a, p)}
AllCarried(a) == Carried(a, 1) \cup (IF IsSplit(a) THEN Carried(a, 2) ELSE {})

FirstFailed(a) == 1 \in failed \cup Forbidden(a)
Captured(a)    == ~a.we /\ ~lsu_err_q => rdata_q = WordOf(a.addr)

\* Nothing is going on.
Resting == ls_fsm = "IDLE" /\ ~handle_misaligned_q /\ ~pmp_err_q /\ bus = <<>>

\* The first part, or the only one, waits for its grant.
FirstWaits(a) ==
  /\ ls_fsm = IF IsSplit(a) THEN "WAIT_GNT_MIS" ELSE "WAIT_GNT"
  /\ ~handle_misaligned_q /\ ~lsu_err_q
  /\ pmp_err_q <=> 1 \in Forbidden(a)
  /\ bus = <<>> /\ failed = {} /\ moved = {}

\* The first part of two is granted or forbidden, the second waits for its grant.
FirstSent(a) ==
  /\ ls_fsm = "WAIT_RVALID_MIS" /\ IsSplit(a)
  /\ handle_misaligned_q /\ ~lsu_err_q
  /\ pmp_err_q <=> 1 \in Forbidden(a)
  /\ bus = IF pmp_err_q THEN <<>> ELSE <<Tx(a, 1)>>
  /\ failed = {} /\ moved = Carried(a, 1)
  /\ addr_last_q = a.addr /\ ctrl_q = CtrlOf(a)

\* The first part is over, the second waits for its grant.
SecondWaits(a) ==
  /\ ls_fsm = "WAIT_GNT" /\ IsSplit(a)
  /\ handle_misaligned_q
  /\ lsu_err_q <=> FirstFailed(a)
  /\ pmp_err_q <=> 2 \in Forbidden(a)
  /\ bus = <<>> /\ failed \subseteq {1} /\ moved = Carried(a, 1)
  /\ addr_last_q = a.addr /\ ctrl_q = CtrlOf(a) /\ Captured(a)

\* Both parts are granted, or the second forbidden, before the first is answered.
BothSent(a) ==
  /\ ls_fsm = "WAIT_RVALID_MIS_GNTS_DONE" /\ IsSplit(a)
  /\ ~handle_misaligned_q /\ ~lsu_err_q /\ ~pmp_err_q /\ 1 \notin Forbidden(a)
  /\ bus = IF 2 \in Forbidden(a) THEN <<Tx(a, 1)>> ELSE <<Tx(a, 1), Tx(a, 2)>>
  /\ failed = {} /\ moved = AllCarried(a)
  /\ addr_last_q = a.addr /\ ctrl_q = CtrlOf(a)

\* All that is missing is the answer to the last part.
Answerable(a) ==
  /\ ls_fsm = "IDLE" /\ ~handle_misaligned_q
  /\ pmp_err_q <=> Last(a) \in Forbidden(a)
  /\ bus = IF pmp_err_q THEN <<>> ELSE <<Tx(a, Last(a))>>
  /\ lsu_err_q <=> IsSplit(a) /\ FirstFailed(a)
  /\ failed \subseteq (IF IsSplit(a) THEN {1} ELSE {})
  /\ moved = AllCarried(a) /\ ctrl_q = CtrlOf(a)
  /\ addr_last_q = IF IsSplit(a) /\ ~lsu_err_q THEN 4 * WordOfPart(a, 2) ELSE a.addr
  /\ IsSplit(a) => Captured(a)

\* At any time one access is in one phase.
Phase ==
  \/ access = <<>> /\ waiting = <<>> /\ Resting
  \/ \E a \in Access : access = <<>> /\ waiting = <<a>> /\ Answerable(a)
  \/ \E a \in Access : /\ access = <<a>> /\ waiting = <<>>
                       /\ FirstWaits(a) \/ FirstSent(a) \/ SecondWaits(a) \/ BothSent(a)

LsuInv == AccessInv /\ Phase

-----------------------------------------------------------------------------
(* Addresses. *)

LEMMA ModLow == ASSUME NEW n \in Nat \ {0}, NEW x \in 0 .. n - 1 PROVE x % n = x
  OBVIOUS

LEMMA ModHigh == ASSUME NEW n \in Nat \ {0}, NEW x \in n .. 2 * n - 1 PROVE x % n = x - n
  OBVIOUS

LEMMA SplitAddr ==
  ASSUME NEW x \in ByteAddr
  PROVE  WordOf(x) \in Word /\ OffsetOf(x) \in Lane /\ x = 4 * WordOf(x) + OffsetOf(x)
<1>1. x \in Nat /\ x < 4 * WORDS /\ WORDS \in Nat
  BY LsuAssumption DEF ByteAddr, BYTES
<1>2. x \div 4 \in Nat /\ x % 4 \in 0 .. 3 /\ x = 4 * (x \div 4) + (x % 4)
  BY <1>1
<1>3. QED
  BY <1>1, <1>2 DEF WordOf, OffsetOf, Word, Lane

LEMMA JoinAddr ==
  ASSUME NEW w \in Word, NEW l \in Lane
  PROVE  4 * w + l \in ByteAddr /\ WordOf(4 * w + l) = w /\ OffsetOf(4 * w + l) = l
<1>1. w \in Nat /\ w < WORDS /\ WORDS \in Nat /\ l \in 0 .. 3
  BY LsuAssumption DEF Word, Lane
<1>2. (4 * w + l) \div 4 = w /\ (4 * w + l) % 4 = l
  BY <1>1
<1>3. QED
  BY <1>1, <1>2 DEF ByteAddr, BYTES, WordOf, OffsetOf

LEMMA NextWord ==
  ASSUME NEW w \in Word
  PROVE  /\ WordAfter(w) \in Word
         /\ w + 1 < WORDS => WordAfter(w) = w + 1
         /\ ~(w + 1 < WORDS) => WordAfter(w) = 0 /\ w = WORDS - 1
<1>1. w \in Nat /\ w < WORDS /\ WORDS \in Nat \ {0}
  BY LsuAssumption DEF Word
<1>2. CASE w + 1 < WORDS
  BY <1>1, <1>2, ModLow DEF WordAfter, Word
<1>3. CASE ~(w + 1 < WORDS)
  <2>1. w + 1 \in WORDS .. 2 * WORDS - 1 /\ w + 1 = WORDS
    BY <1>1, <1>3
  <2>2. (w + 1) % WORDS = w + 1 - WORDS
    BY <1>1, <2>1, ModHigh
  <2>3. QED
    BY <1>1, <1>3, <2>1, <2>2 DEF WordAfter, Word
<1>4. QED
  BY <1>2, <1>3

\* The byte at position k of an access, in the word of its part.
LEMMA ByteAt ==
  ASSUME NEW x \in ByteAddr, NEW k \in 0 .. 4
  PROVE  LET o == OffsetOf(x) w == WordOf(x) IN
         /\ o + k < 4 => (x + k) % BYTES = 4 * w + (o + k)
         /\ o + k >= 4 => (x + k) % BYTES = 4 * WordAfter(w) + (o + k - 4)
<1> DEFINE o == OffsetOf(x)
           w == WordOf(x)
<1>1. /\ w \in Nat /\ w < WORDS /\ WORDS \in Nat \ {0} /\ o \in 0 .. 3 /\ x = 4 * w + o
      /\ BYTES = 4 * WORDS /\ w \in Word
  BY SplitAddr, LsuAssumption DEF Word, Lane, BYTES
<1> HIDE DEF o, w
<1>2. BYTES \in Nat \ {0}
  BY <1>1
<1>3. CASE x + k < BYTES
  <2>1. (x + k) % BYTES = x + k
    BY <1>1, <1>2, <1>3, ModLow
  <2>2. o + k >= 4 => w + 1 < WORDS
    BY <1>1, <1>3
  <2>3. QED
    BY <1>1, <2>1, <2>2, NextWord DEF o, w
<1>4. CASE ~(x + k < BYTES)
  <2>1. x + k \in BYTES .. 2 * BYTES - 1
    BY <1>1, <1>4, LsuAssumption
  <2>2. (x + k) % BYTES = (x + k) - BYTES
    BY <1>2, <2>1, ModHigh, Zenon
  <2>3. o + k >= 4 /\ ~(w + 1 < WORDS) /\ w = WORDS - 1
    BY <1>1, <1>4
  <2>4. WordAfter(w) = 0
    BY <1>1, <2>3, NextWord
  <2>5. (x + k) - BYTES = 4 * WordAfter(w) + (o + k - 4) /\ ~(o + k < 4)
    BY <1>1, <2>3, <2>4
  <2>6. QED
    BY <2>2, <2>5 DEF o, w
<1>5. QED
  BY <1>3, <1>4

LEMMA Parts ==
  ASSUME NEW a \in Access
  PROVE  LET b == (a.addr + 4) % BYTES IN
         /\ WordOfPart(a, 1) \in Word /\ WordOfPart(a, 2) \in Word
         /\ a.addr \in ByteAddr /\ OffsetOf(a.addr) \in Lane /\ WordOf(a.addr) = WordOfPart(a, 1)
         /\ b \in ByteAddr /\ WordOf(b) = WordOfPart(a, 2) /\ OffsetOf(b) = OffsetOf(a.addr)
         /\ 4 * WordOfPart(a, 2) \in ByteAddr
<1> DEFINE w == WordOf(a.addr)
           o == OffsetOf(a.addr)
<1>1. a.addr \in ByteAddr
  BY DEF Access
<1>2. w \in Word /\ o \in Lane /\ WordAfter(w) \in Word
  BY <1>1, SplitAddr, NextWord
<1>3. WordOfPart(a, 1) = w /\ WordOfPart(a, 2) = WordAfter(w)
  BY DEF WordOfPart
<1>4. (a.addr + 4) % BYTES = 4 * WordAfter(w) + o
  <2>1. 4 \in 0 .. 4
    OBVIOUS
  <2>2. o + 4 >= 4 => (a.addr + 4) % BYTES = 4 * WordAfter(w) + (o + 4 - 4)
    BY <1>1, <2>1, ByteAt
  <2>3. o \in Nat
    BY <1>2 DEF Lane
  <2> HIDE DEF o, w
  <2>4. QED
    BY <2>2, <2>3
<1>5. 4 * WordAfter(w) + 0 \in ByteAddr
  <2>1. 0 \in Lane
    BY DEF Lane
  <2>2. QED
    BY <1>2, <2>1, JoinAddr, Zenon
<1>6. 4 * WordAfter(w) \in ByteAddr
  BY <1>2, <1>5 DEF Word
<1>7. QED
  BY <1>1, <1>2, <1>3, <1>4, <1>6, JoinAddr

\* The arithmetic of the write data multiplexer.
LEMMA LaneDiff ==
  ASSUME NEW l \in Lane, NEW o \in Lane
  PROVE  (l - o) % 4 = IF l >= o THEN l - o ELSE l + 4 - o
  BY DEF Lane

LEMMA Sizes ==
  ASSUME NEW a \in Access
  PROVE  /\ a.type \in Type /\ a.we \in BOOLEAN /\ a.sext \in BOOLEAN
         /\ Size[a.type] = IF a.type = "W" THEN 4 ELSE IF a.type = "H" THEN 2 ELSE 1
         /\ IsSplit(a) <=> \/ a.type = "W" /\ OffsetOf(a.addr) # 0
                           \/ a.type = "H" /\ OffsetOf(a.addr) = 3
<1>1. a.type \in {"W", "H", "B"} /\ a.we \in BOOLEAN /\ a.sext \in BOOLEAN
  BY DEF Access, Type
<1>2. Size[a.type] = IF a.type = "W" THEN 4 ELSE IF a.type = "H" THEN 2 ELSE 1
  BY <1>1 DEF Size
<1>3. OffsetOf(a.addr) \in 0 .. 3
  BY Parts DEF Lane
<1>4. QED
  BY <1>1, <1>2, <1>3 DEF IsSplit, Type

\* The signals while the first part of an access is requested ...
LEMMA FirstSignals ==
  ASSUME NEW a \in Access, NEW in, current(in) = a, ~addr_incr_req, ~handle_misaligned_q
  PROVE  /\ data_addr(in) = a.addr /\ data_word(in) = WordOfPart(a, 1)
         /\ split_misaligned_access(in) <=> IsSplit(a)
         /\ ctrl(in) = CtrlOf(a) /\ addr_last_d(in) = a.addr
         /\ data_be(in) = LanesOf(a, 1)
         /\ \A l \in data_be(in) : wdata_byte(in, l) = ByteIn(a, 1, l)
<1>1. data_addr(in) = a.addr /\ data_word(in) = WordOfPart(a, 1) /\ data_offset(in) = OffsetOf(a.addr)
  BY DEF data_addr, data_word, data_offset, WordOfPart
<1>2. split_misaligned_access(in) <=> IsSplit(a)
  BY <1>1, Sizes DEF split_misaligned_access
<1>3. ctrl(in) = CtrlOf(a) /\ addr_last_d(in) = a.addr
  BY <1>1 DEF ctrl, CtrlOf, addr_last_d
<1> DEFINE o == OffsetOf(a.addr)
<1>4. o \in 0 .. 3
  BY Parts DEF Lane
<1>5. data_be(in) = LanesOf(a, 1)
  <2> HIDE DEF o
  <2>1. CASE a.type = "W"
    <3>1. data_be(in) = {l \in Lane : l >= o} /\ LanesOf(a, 1) = {l \in Lane : l >= o /\ l < o + 4}
      BY <1>1, <2>1, Sizes DEF data_be, LanesOf, o
    <3>2. QED
      BY <1>4, <3>1 DEF Lane
  <2>2. CASE a.type = "H"
    <3>1. data_be(in) = {l \in Lane : l \in {o, o + 1}}
          /\ LanesOf(a, 1) = {l \in Lane : l >= o /\ l < o + 2}
      BY <1>1, <2>2, Sizes DEF data_be, LanesOf, o
    <3>2. QED
      BY <1>4, <3>1 DEF Lane
  <2>3. CASE a.type = "B"
    <3>1. data_be(in) = {o} /\ LanesOf(a, 1) = {l \in Lane : l >= o /\ l < o + 1}
      BY <1>1, <2>3, Sizes DEF data_be, LanesOf, o
    <3>2. QED
      BY <1>4, <3>1 DEF Lane
  <2>4. QED
    BY <2>1, <2>2, <2>3, Sizes DEF Type
<1>6. ASSUME NEW l \in LanesOf(a, 1) PROVE wdata_byte(in, l) = ByteIn(a, 1, l)
  <2>1. l \in Lane /\ l >= o /\ o \in Lane
    BY <1>4 DEF LanesOf, Lane
  <2>2. QED
    BY <1>1, <2>1, LaneDiff DEF wdata_byte, ByteIn
<1>7. QED
  BY <1>1, <1>2, <1>3, <1>5, <1>6

\* ... and the second, whose address the ALU makes from the one of the first.
LEMMA SecondSignals ==
  ASSUME NEW a \in Access, NEW in, current(in) = a, IsSplit(a), addr_incr_req, addr_last_q = a.addr
  PROVE  /\ data_word(in) = WordOfPart(a, 2)
         /\ ctrl(in) = CtrlOf(a) /\ addr_last_d(in) = 4 * WordOfPart(a, 2)
         /\ handle_misaligned_q => data_be(in) = LanesOf(a, 2)
         /\ \A l \in LanesOf(a, 2) : wdata_byte(in, l) = ByteIn(a, 2, l)
<1>1. data_word(in) = WordOfPart(a, 2) /\ data_offset(in) = OffsetOf(a.addr)
  BY Parts DEF data_addr, data_word, data_offset
<1>2. ctrl(in) = CtrlOf(a) /\ addr_last_d(in) = 4 * WordOfPart(a, 2)
  BY <1>1 DEF ctrl, CtrlOf, addr_last_d
<1> DEFINE o == OffsetOf(a.addr)
<1>3. o \in 0 .. 3
  BY Parts DEF Lane
<1>4. ASSUME handle_misaligned_q PROVE data_be(in) = LanesOf(a, 2)
  <2> HIDE DEF o
  <2>1. CASE a.type = "W"
    <3>1. data_be(in) = {l \in Lane : l < o} /\ LanesOf(a, 2) = {l \in Lane : l + 4 < o + 4}
      BY <1>1, <1>4, <2>1, Sizes DEF data_be, LanesOf, o
    <3>2. QED
      BY <1>3, <3>1 DEF Lane
  <2>2. CASE a.type = "H" /\ o = 3
    <3>1. data_be(in) = {0} /\ LanesOf(a, 2) = {l \in Lane : l + 4 < o + 2}
      BY <1>1, <1>4, <2>2, Sizes DEF data_be, LanesOf, o
    <3>2. QED
      BY <2>2, <3>1 DEF Lane
  <2>3. QED
    BY <2>1, <2>2, Sizes DEF o
<1>5. ASSUME NEW l \in LanesOf(a, 2) PROVE wdata_byte(in, l) = ByteIn(a, 2, l)
  <2>1. l \in Lane /\ l + 4 < o + 4 /\ o \in Lane
    BY <1>3, Sizes DEF LanesOf, Lane
  <2>2. ~(l >= o)
    BY <2>1 DEF Lane
  <2>3. QED
    BY <1>1, <2>1, <2>2, LaneDiff DEF wdata_byte, ByteIn
<1>6. QED
  BY <1>1, <1>2, <1>4, <1>5

\* The part the byte at position k of an access is in, and its lane there.
PartOfByte(a, k) == IF OffsetOf(a.addr) + k < 4 THEN 1 ELSE 2
LaneOfByte(a, k) ==
  IF OffsetOf(a.addr) + k < 4 THEN OffsetOf(a.addr) + k ELSE OffsetOf(a.addr) + k - 4

LEMMA BytePlace ==
  ASSUME NEW a \in Access, NEW k \in 0 .. Size[a.type] - 1
  PROVE  LET p == PartOfByte(a, k) l == LaneOfByte(a, k) IN
         /\ p \in PartsOf(a) /\ l \in LanesOf(a, p) /\ ByteIn(a, p, l) = k
         /\ BytesOf(a)[k] = 4 * WordOfPart(a, p) + l /\ WordOf(BytesOf(a)[k]) = WordOfPart(a, p)
<1> DEFINE o == OffsetOf(a.addr)
           n == Size[a.type]
           p == PartOfByte(a, k)
           l == LaneOfByte(a, k)
<1>1. o \in 0 .. 3 /\ n \in 1 .. 4 /\ k \in 0 .. 4 /\ k \in 0 .. n - 1
  BY Parts, Sizes DEF Lane, Type
<1>2. BytesOf(a)[k] = (a.addr + k) % BYTES
  BY DEF BytesOf
<1>3. /\ o + k < 4 => (a.addr + k) % BYTES = 4 * WordOfPart(a, 1) + (o + k)
      /\ o + k >= 4 => (a.addr + k) % BYTES = 4 * WordOfPart(a, 2) + (o + k - 4)
  <2>1. a.addr \in ByteAddr /\ k \in 0 .. 4
    BY <1>1, Parts
  <2>2. /\ o + k < 4 => (a.addr + k) % BYTES = 4 * WordOf(a.addr) + (o + k)
        /\ o + k >= 4 => (a.addr + k) % BYTES = 4 * WordAfter(WordOf(a.addr)) + (o + k - 4)
    BY <2>1, ByteAt, Zenon
  <2>3. WordOfPart(a, 1) = WordOf(a.addr) /\ WordOfPart(a, 2) = WordAfter(WordOf(a.addr))
    BY DEF WordOfPart
  <2>4. QED
    BY <2>2, <2>3
<1>4. /\ IsSplit(a) <=> o + n > 4
      /\ LanesOf(a, 1) = {j \in 0 .. 3 : j >= o /\ j < o + n}
      /\ LanesOf(a, 2) = {j \in 0 .. 3 : j + 4 < o + n}
      /\ \A j \in 0 .. 3 : ByteIn(a, 1, j) = j - o /\ ByteIn(a, 2, j) = j + 4 - o
  BY DEF IsSplit, LanesOf, ByteIn, Lane
<1> HIDE DEF o, n
<1>5. CASE o + k < 4
  <2>1. p = 1 /\ l = o + k
    BY <1>5 DEF PartOfByte, LaneOfByte, o
  <2>2. l \in 0 .. 3 /\ l \in LanesOf(a, 1) /\ ByteIn(a, 1, l) = k
    BY <1>1, <1>4, <1>5, <2>1
  <2>3. l \in Lane /\ BytesOf(a)[k] = 4 * WordOfPart(a, 1) + l
    BY <1>2, <1>3, <1>5, <2>1, <2>2 DEF Lane
  <2>4. WordOf(BytesOf(a)[k]) = WordOfPart(a, 1)
    BY <2>3, Parts, JoinAddr
  <2>5. QED
    BY <2>1, <2>2, <2>3, <2>4 DEF PartsOf
<1>6. CASE o + k >= 4
  <2>1. p = 2 /\ l = o + k - 4
    BY <1>1, <1>6 DEF PartOfByte, LaneOfByte, o
  <2>2. l \in 0 .. 3 /\ l \in LanesOf(a, 2) /\ ByteIn(a, 2, l) = k
    BY <1>1, <1>4, <1>6, <2>1
  <2>3. l \in Lane /\ BytesOf(a)[k] = 4 * WordOfPart(a, 2) + l
    BY <1>2, <1>3, <1>6, <2>1, <2>2 DEF Lane
  <2>4. WordOf(BytesOf(a)[k]) = WordOfPart(a, 2)
    BY <2>3, Parts, JoinAddr
  <2>5. IsSplit(a)
    BY <1>1, <1>4, <1>6
  <2>6. QED
    BY <2>1, <2>2, <2>3, <2>4, <2>5 DEF PartsOf
<1>7. QED
  BY <1>1, <1>5, <1>6

LEMMA LanePlace ==
  ASSUME NEW a \in Access, NEW p \in PartsOf(a), NEW l \in LanesOf(a, p)
  PROVE  LET k == ByteIn(a, p, l) IN
         k \in 0 .. Size[a.type] - 1 /\ PartOfByte(a, k) = p /\ LaneOfByte(a, k) = l
<1> DEFINE o == OffsetOf(a.addr)
           n == Size[a.type]
           k == ByteIn(a, p, l)
<1>1. o \in 0 .. 3 /\ n \in 1 .. 4 /\ l \in 0 .. 3 /\ p \in {1, 2}
  BY Parts, Sizes DEF Lane, Type, LanesOf, PartsOf
<1>2. PartOfByte(a, k) = (IF o + k < 4 THEN 1 ELSE 2)
      /\ LaneOfByte(a, k) = (IF o + k < 4 THEN o + k ELSE o + k - 4)
  BY DEF PartOfByte, LaneOfByte
<1>3. p = 1 => k = l - o /\ l >= o /\ l < o + n
  BY DEF LanesOf, ByteIn
<1>4. p = 2 => k = l + 4 - o /\ l + 4 < o + n
  BY DEF LanesOf, ByteIn
<1> HIDE DEF o, n, k
<1>5. k \in 0 .. n - 1 /\ PartOfByte(a, k) = p /\ LaneOfByte(a, k) = l
  <2>1. CASE p = 1
    BY <1>1, <1>2, <1>3, <2>1
  <2>2. CASE p = 2
    BY <1>1, <1>2, <1>4, <2>2
  <2>3. QED
    BY <1>1, <2>1, <2>2
<1>6. QED
  BY <1>5 DEF n, k

\* Over its parts an access carries its bytes, each once.
LEMMA AllBytes ==
  ASSUME NEW a \in Access
  PROVE  LET b == BytesOf(a) IN
         AllCarried(a) = {<<b[k], k>> : k \in {k \in DOMAIN b : WordOf(b[k]) \notin Denied}}
<1> DEFINE b == BytesOf(a)
           n == Size[a.type]
           Allowed == {k \in 0 .. n - 1 : WordOf(b[k]) \notin Denied}
<1>1. DOMAIN b = 0 .. n - 1
  BY DEF BytesOf
<1>2. \A p \in PartsOf(a) : p \in Forbidden(a) <=> WordOfPart(a, p) \in Denied
  BY DEF Forbidden
<1>3. AllCarried(a) = UNION {Carried(a, p) : p \in PartsOf(a)}
  <2>1. CASE IsSplit(a)
    BY <2>1 DEF AllCarried, PartsOf
  <2>2. CASE ~IsSplit(a)
    BY <2>2 DEF AllCarried, PartsOf
  <2>3. QED
    BY <2>1, <2>2
<1>4. ASSUME NEW e \in AllCarried(a) PROVE e \in {<<b[k], k>> : k \in Allowed}
  <2>1. PICK p \in PartsOf(a) : e \in Carried(a, p)
    BY <1>3
  <2>2. p \notin Forbidden(a)
    BY <2>1 DEF Carried
  <2>3. PICK l \in LanesOf(a, p) : e = <<4 * WordOfPart(a, p) + l, ByteIn(a, p, l)>>
    BY <2>1, <2>2 DEF Carried
  <2> DEFINE k == ByteIn(a, p, l)
  <2>4. k \in 0 .. n - 1 /\ PartOfByte(a, k) = p /\ LaneOfByte(a, k) = l
    BY LanePlace
  <2>5. b[k] = 4 * WordOfPart(a, p) + l /\ WordOf(b[k]) = WordOfPart(a, p)
    BY <2>4, BytePlace
  <2>6. k \in Allowed
    BY <1>2, <2>2, <2>4, <2>5
  <2>7. e = <<b[k], k>>
    BY <2>3, <2>5
  <2> HIDE DEF k, b, Allowed
  <2>8. QED
    BY <2>6, <2>7
<1>5. ASSUME NEW k \in Allowed PROVE <<b[k], k>> \in AllCarried(a)
  <2> DEFINE p == PartOfByte(a, k)
             l == LaneOfByte(a, k)
  <2>1. /\ p \in PartsOf(a) /\ l \in LanesOf(a, p) /\ ByteIn(a, p, l) = k
        /\ b[k] = 4 * WordOfPart(a, p) + l /\ WordOf(b[k]) = WordOfPart(a, p)
    BY BytePlace
  <2>2. p \notin Forbidden(a)
    BY <1>2, <2>1
  <2> HIDE DEF p, l, b
  <2>3. <<b[k], k>> = <<4 * WordOfPart(a, p) + l, ByteIn(a, p, l)>>
    BY <2>1
  <2>4. <<b[k], k>> \in Carried(a, p)
    BY <2>1, <2>2, <2>3 DEF Carried
  <2>5. QED
    BY <1>3, <2>1, <2>4
<1> HIDE DEF b, n, Allowed
<1>6. AllCarried(a) = {<<b[k], k>> : k \in Allowed}
  BY <1>4, <1>5
<1>7. QED
  BY <1>1, <1>6 DEF Allowed, b

\* The alignment of the loaded value picks the access's bytes, once the word of the
\* first of two parts is captured.
LEMMA LoadedBytes ==
  ASSUME NEW a \in Access, ctrl_q = CtrlOf(a), IsSplit(a) => rdata_q = WordOf(a.addr),
         NEW k \in 0 .. Size[a.type] - 1
  PROVE  loaded_byte(WordOfPart(a, Last(a)), k) = BytesOf(a)[k]
<1> DEFINE o == OffsetOf(a.addr)
           n == Size[a.type]
           w1 == WordOfPart(a, 1)
           w2 == WordOfPart(a, 2)
<1>1. /\ o \in 0 .. 3 /\ k \in 0 .. n - 1 /\ w1 \in Nat /\ w2 \in Nat /\ a.type \in {"W", "H", "B"}
      /\ n = IF a.type = "W" THEN 4 ELSE IF a.type = "H" THEN 2 ELSE 1
      /\ IsSplit(a) <=> (a.type = "W" /\ o # 0) \/ (a.type = "H" /\ o = 3)
  BY Parts, Sizes DEF Lane, Word, Type
<1>2. /\ o + k < 4 => BytesOf(a)[k] = 4 * w1 + (o + k)
      /\ o + k >= 4 => BytesOf(a)[k] = 4 * w2 + (o + k - 4)
  <2>1. /\ o + k < 4 => PartOfByte(a, k) = 1 /\ LaneOfByte(a, k) = o + k
        /\ ~(o + k < 4) => PartOfByte(a, k) = 2 /\ LaneOfByte(a, k) = o + k - 4
    BY DEF PartOfByte, LaneOfByte
  <2>2. BytesOf(a)[k] = 4 * WordOfPart(a, PartOfByte(a, k)) + LaneOfByte(a, k)
    BY BytePlace
  <2> HIDE DEF o, n
  <2>3. QED
    BY <1>1, <2>1, <2>2
<1> DEFINE r == WordOfPart(a, Last(a))
<1>3. loaded_byte(r, k) =
        IF o = 0 \/ a.type = "B" \/ (a.type = "H" /\ o < 3) THEN 4 * r + (o + k)
        ELSE IF k < 4 - o THEN 4 * rdata_q + (o + k)
        ELSE 4 * r + (o + k - 4)
  BY DEF loaded_byte, CtrlOf
<1>4. /\ IsSplit(a) => r = w2 /\ rdata_q = w1
      /\ ~IsSplit(a) => r = w1
  BY DEF Last, WordOfPart
<1> HIDE DEF o, n, w1, w2, r
<1>5. CASE IsSplit(a)
  <2>1. ~(o = 0 \/ a.type = "B" \/ (a.type = "H" /\ o < 3))
    BY <1>1, <1>5
  <2>2. loaded_byte(r, k) = IF k < 4 - o THEN 4 * w1 + (o + k) ELSE 4 * w2 + (o + k - 4)
    BY <1>3, <1>4, <1>5, <2>1
  <2>3. k < 4 - o <=> o + k < 4
    BY <1>1
  <2>4. loaded_byte(r, k) = BytesOf(a)[k]
    BY <1>1, <1>2, <2>2, <2>3
  <2>5. QED
    BY <2>4 DEF r
<1>6. CASE ~IsSplit(a)
  <2>1. o = 0 \/ a.type = "B" \/ (a.type = "H" /\ o < 3)
    BY <1>1, <1>6
  <2>2. o + k < 4
    BY <1>1, <1>6
  <2>3. loaded_byte(r, k) = BytesOf(a)[k]
    BY <1>2, <1>3, <1>4, <1>6, <2>1, <2>2
  <2>4. QED
    BY <2>3 DEF r
<1>7. QED
  BY <1>5, <1>6

-----------------------------------------------------------------------------
(* One clock edge in each phase. *)

LEMMA ShortSeqs ==
  ASSUME NEW x, NEW y
  PROVE  /\ Append(<<>>, x) = <<x>> /\ Append(<<x>>, y) = <<x, y>>
         /\ Tail(<<x>>) = <<>> /\ Tail(<<x, y>>) = <<y>>
         /\ Head(<<x>>) = x /\ Head(<<x, y>>) = x /\ <<x>>[1] = x
         /\ <<x>> # <<>> /\ <<x, y>> # <<>>
<1>1. Append(<<>>, x) = <<x>> /\ Append(<<x>>, y) = <<x, y>>
  <2> DEFINE S == {x, y}
  <2>1. <<>> \in Seq(S) /\ <<x>> \in Seq(S) /\ x \in S /\ y \in S
    OBVIOUS
  <2>2. Append(<<>>, x) = <<x>>
    BY <2>1
  <2>3. Append(<<x>>, y) = <<x, y>>
    <3> DEFINE s == Append(<<x>>, y)
    <3>1. s \in Seq(S) /\ Len(s) = 2 /\ s[1] = x /\ s[2] = y
      BY <2>1
    <3>2. <<x, y>> \in Seq(S) /\ Len(<<x, y>>) = 2 /\ <<x, y>>[1] = x /\ <<x, y>>[2] = y
      OBVIOUS
    <3> HIDE DEF s
    <3>3. \A t, u \in Seq(S) : Len(t) = 2 /\ Len(u) = 2 /\ t[1] = u[1] /\ t[2] = u[2] => t = u
      OBVIOUS
    <3>4. s = <<x, y>>
      BY <3>1, <3>2, <3>3
    <3>5. QED
      BY <3>4 DEF s
  <2>4. QED
    BY <2>2, <2>3
<1>2. Tail(<<x>>) = <<>> /\ Tail(<<x, y>>) = <<y>>
  OBVIOUS
<1>3. Head(<<x>>) = x /\ Head(<<x, y>>) = x /\ <<x>>[1] = x
  OBVIOUS
<1>4. <<x>> # <<>> /\ <<x, y>> # <<>>
  OBVIOUS
<1>5. QED
  BY <1>1, <1>2, <1>3, <1>4

LEMMA InputTypes ==
  ASSUME NEW in \in Inputs
  PROVE  /\ in.gnt \in BOOLEAN /\ in.rvalid \in BOOLEAN /\ in.err \in BOOLEAN /\ in.intg \in BOOLEAN
         /\ in.rvalid => bus # <<>>
         /\ in.err \/ in.intg => in.rvalid
         /\ in.start = <<>> \/ \E a \in Accesses : in.start = <<a>>
         /\ in.start # <<>> => MayStart(in)
  BY DEF Inputs

LEMMA FirstMoves ==
  ASSUME NEW a \in Access, NEW in \in Inputs, lsu_req(in), current(in) = a, ~addr_incr_req,
         ~handle_misaligned_q, data_req(in)
  PROVE  /\ data_pmp_err(in) <=> 1 \in Forbidden(a)
         /\ bus_req(in) <=> 1 \notin Forbidden(a)
         /\ Transaction(in) = Tx(a, 1)
         /\ MovedNow(in) = IF in.gnt THEN Carried(a, 1) ELSE {}
<1>1. data_pmp_err(in) <=> 1 \in Forbidden(a)
  BY FirstSignals DEF data_pmp_err, Forbidden, PartsOf
<1>2. bus_req(in) <=> 1 \notin Forbidden(a)
  BY <1>1 DEF bus_req
<1>3. Transaction(in) = Tx(a, 1)
  BY FirstSignals DEF Transaction, Tx
<1>4. MovedNow(in) = IF in.gnt THEN Carried(a, 1) ELSE {}
  BY <1>2, FirstSignals DEF MovedNow, Carried
<1>5. QED
  BY <1>1, <1>2, <1>3, <1>4

LEMMA SecondMoves ==
  ASSUME NEW a \in Access, NEW in \in Inputs, lsu_req(in), current(in) = a, IsSplit(a), addr_incr_req,
         addr_last_q = a.addr
  PROVE  /\ data_pmp_err(in) <=> 2 \in Forbidden(a)
         /\ Transaction(in) = Tx(a, 2)
         /\ data_req(in) => (bus_req(in) <=> 2 \notin Forbidden(a))
         /\ data_req(in) /\ handle_misaligned_q =>
              MovedNow(in) = IF in.gnt THEN Carried(a, 2) ELSE {}
<1>1. data_pmp_err(in) <=> 2 \in Forbidden(a)
  BY SecondSignals DEF data_pmp_err, Forbidden, PartsOf
<1>2. data_req(in) => (bus_req(in) <=> 2 \notin Forbidden(a))
  BY <1>1 DEF bus_req
<1>3. Transaction(in) = Tx(a, 2)
  BY SecondSignals DEF Transaction, Tx
<1>4. ASSUME data_req(in), handle_misaligned_q
      PROVE  MovedNow(in) = IF in.gnt THEN Carried(a, 2) ELSE {}
  BY <1>2, <1>4, SecondSignals DEF MovedNow, Carried
<1>5. QED
  BY <1>1, <1>2, <1>3, <1>4

Executing(a) == access = <<a>> /\ waiting = <<>>
Awaiting(a)  == access = <<>> /\ waiting = <<a>>

\* While the ID stage holds an access, its operands are the LSU's.
LEMMA Held ==
  ASSUME NEW a \in Access, Executing(a), NEW in \in Inputs, ls_fsm # "IDLE", Cycle(in)
  PROVE  /\ lsu_req(in) /\ current(in) = a /\ in.start = <<>> /\ ~lsu_resp_valid(in) /\ answer' = <<>>
         /\ failed' = failed \cup FailedNow(in) /\ moved' = moved \cup MovedNow(in)
         /\ bus' = LET sent == IF bus_req(in) /\ in.gnt THEN Append(bus, Transaction(in)) ELSE bus
                   IN  IF in.rvalid THEN Tail(sent) ELSE sent
         /\ ls_fsm' = "IDLE" => Awaiting(a)'
         /\ ls_fsm' # "IDLE" => Executing(a)'
<1>1. access = <<a>> /\ access # <<>> /\ access[1] = a /\ waiting = <<>>
  BY ShortSeqs DEF Executing
<1>2. in.start = <<>>
  BY <1>1, InputTypes DEF MayStart
<1>3. lsu_req(in) /\ current(in) = a /\ ~lsu_resp_valid(in)
  BY <1>1 DEF lsu_req, current, lsu_resp_valid
<1>4. CoreAndBus(in)
  BY DEF Cycle
<1>5. access' = (IF ls_fsm' = "IDLE" THEN <<>> ELSE <<a>>) /\ waiting' = (IF ls_fsm' = "IDLE" THEN <<a>> ELSE <<>>)
  BY <1>1, <1>3, <1>4 DEF CoreAndBus, lsu_req_done
<1>6. QED
  BY <1>2, <1>3, <1>4, <1>5 DEF CoreAndBus, Executing, Awaiting

LEMMA FirstWaitsStep ==
  ASSUME NEW a \in Access, Executing(a), FirstWaits(a), NEW in \in Inputs, Cycle(in)
  PROVE  \/ Executing(a)' /\ (FirstWaits(a)' \/ FirstSent(a)')
         \/ Awaiting(a)' /\ Answerable(a)'
<1>1. /\ ls_fsm = IF IsSplit(a) THEN "WAIT_GNT_MIS" ELSE "WAIT_GNT"
      /\ ~handle_misaligned_q /\ ~lsu_err_q
      /\ pmp_err_q <=> 1 \in Forbidden(a)
      /\ bus = <<>> /\ failed = {} /\ moved = {}
  BY DEF FirstWaits
<1>2. ls_fsm # "IDLE" /\ ~addr_incr_req /\ ls_fsm # "WAIT_RVALID_MIS_GNTS_DONE"
  BY <1>1 DEF addr_incr_req
<1>3. /\ lsu_req(in) /\ current(in) = a
      /\ failed' = failed \cup FailedNow(in) /\ moved' = moved \cup MovedNow(in)
      /\ bus' = LET sent == IF bus_req(in) /\ in.gnt THEN Append(bus, Transaction(in)) ELSE bus
                IN  IF in.rvalid THEN Tail(sent) ELSE sent
      /\ ls_fsm' = "IDLE" => Awaiting(a)'
      /\ ls_fsm' # "IDLE" => Executing(a)'
  BY <1>2, Held
<1>4. data_req(in) /\ ~in.rvalid /\ FailedNow(in) = {}
  BY <1>1, <1>2, InputTypes DEF data_req, FailedNow
<1>5. /\ bus_req(in) <=> 1 \notin Forbidden(a)
      /\ Transaction(in) = Tx(a, 1)
      /\ MovedNow(in) = IF in.gnt THEN Carried(a, 1) ELSE {}
      /\ ctrl(in) = CtrlOf(a) /\ addr_last_d(in) = a.addr
  BY <1>1, <1>2, <1>3, <1>4, FirstMoves, FirstSignals
<1>6. /\ bus' = IF in.gnt /\ ~pmp_err_q THEN <<Tx(a, 1)>> ELSE <<>>
      /\ failed' = {} /\ moved' = IF in.gnt THEN Carried(a, 1) ELSE {}
  BY <1>1, <1>3, <1>4, <1>5, ShortSeqs
<1>7. pmp_err_q => Carried(a, 1) = {}
  BY <1>1 DEF Carried
<1>8. CASE in.gnt \/ pmp_err_q
  <2>1. /\ ls_fsm' = IF IsSplit(a) THEN "WAIT_RVALID_MIS" ELSE "IDLE"
        /\ handle_misaligned_q' <=> IsSplit(a)
        /\ addr_last_q' = a.addr /\ ctrl_q' = CtrlOf(a)
        /\ UNCHANGED <<pmp_err_q, lsu_err_q, rdata_q>>
    BY <1>1, <1>5, <1>8 DEF Cycle, Fsm, Quiet, StartGranted, StartNotGranted, FirstPartGranted,
       FirstPartDone, SecondPartGrantedEarly, LastPartGranted, FirstResponse, Wait
  <2>2. /\ bus' = IF pmp_err_q' THEN <<>> ELSE <<Tx(a, 1)>>
        /\ moved' = Carried(a, 1)
    BY <1>6, <1>7, <1>8, <2>1
  <2>3. CASE IsSplit(a)
    BY <1>1, <1>3, <1>6, <2>1, <2>2, <2>3 DEF FirstSent
  <2>4. CASE ~IsSplit(a)
    BY <1>1, <1>3, <1>6, <2>1, <2>2, <2>4 DEF Answerable, Last, AllCarried
  <2>5. QED
    BY <2>3, <2>4
<1>9. CASE ~in.gnt /\ ~pmp_err_q
  <2>1. UNCHANGED lsuVars
    BY <1>1, <1>9 DEF Cycle, Fsm, Quiet, StartGranted, StartNotGranted, FirstPartGranted,
       FirstPartDone, SecondPartGrantedEarly, LastPartGranted, FirstResponse, Wait
  <2>2. QED
    BY <1>1, <1>2, <1>3, <1>6, <1>9, <2>1 DEF lsuVars, FirstWaits
<1>10. QED
  BY <1>8, <1>9

LEMMA FirstSentStep ==
  ASSUME NEW a \in Access, Executing(a), FirstSent(a), NEW in \in Inputs, Cycle(in)
  PROVE  \/ Executing(a)' /\ (FirstSent(a)' \/ SecondWaits(a)' \/ BothSent(a)')
         \/ Awaiting(a)' /\ Answerable(a)'
<1>1. /\ ls_fsm = "WAIT_RVALID_MIS" /\ IsSplit(a)
      /\ handle_misaligned_q /\ ~lsu_err_q
      /\ pmp_err_q <=> 1 \in Forbidden(a)
      /\ bus = IF pmp_err_q THEN <<>> ELSE <<Tx(a, 1)>>
      /\ failed = {} /\ moved = Carried(a, 1)
      /\ addr_last_q = a.addr /\ ctrl_q = CtrlOf(a)
  BY DEF FirstSent
<1>2. ls_fsm # "IDLE" /\ addr_incr_req /\ data_req(in)
  BY <1>1 DEF addr_incr_req, data_req
<1>3. /\ lsu_req(in) /\ current(in) = a
      /\ failed' = failed \cup FailedNow(in) /\ moved' = moved \cup MovedNow(in)
      /\ bus' = LET sent == IF bus_req(in) /\ in.gnt THEN Append(bus, Transaction(in)) ELSE bus
                IN  IF in.rvalid THEN Tail(sent) ELSE sent
      /\ ls_fsm' = "IDLE" => Awaiting(a)'
      /\ ls_fsm' # "IDLE" => Executing(a)'
  BY <1>2, Held
<1>4. /\ data_pmp_err(in) <=> 2 \in Forbidden(a)
      /\ bus_req(in) <=> 2 \notin Forbidden(a)
      /\ Transaction(in) = Tx(a, 2)
      /\ MovedNow(in) = IF in.gnt THEN Carried(a, 2) ELSE {}
      /\ ctrl(in) = CtrlOf(a) /\ addr_last_d(in) = 4 * WordOfPart(a, 2)
  BY <1>1, <1>2, <1>3, SecondMoves, SecondSignals
<1>5. /\ moved' = IF in.gnt THEN AllCarried(a) ELSE Carried(a, 1)
  BY <1>1, <1>3, <1>4 DEF AllCarried
<1>6. in.rvalid => ~pmp_err_q /\ Head(bus) = Tx(a, 1)
  BY <1>1, InputTypes, ShortSeqs
<1>7. failed' = IF in.rvalid /\ in.err THEN {1} ELSE {}
  <2>1. in.rvalid => Head(bus).part = 1
    BY <1>6 DEF Tx
  <2>2. FailedNow(in) = IF in.rvalid /\ in.err THEN {1} ELSE {}
    BY <2>1 DEF FailedNow
  <2>3. QED
    BY <1>1, <1>3, <2>2
<1>8. CASE in.rvalid \/ pmp_err_q
  <2>1. /\ ls_fsm' = IF in.gnt THEN "IDLE" ELSE "WAIT_GNT"
        /\ handle_misaligned_q' <=> ~in.gnt
        /\ pmp_err_q' <=> 2 \in Forbidden(a)
        /\ lsu_err_q' <=> (in.rvalid /\ in.err) \/ pmp_err_q
        /\ addr_last_q' = IF in.gnt /\ ~lsu_err_q' THEN 4 * WordOfPart(a, 2) ELSE a.addr
        /\ CaptureRdata(in) /\ ctrl_q' = CtrlOf(a)
    BY <1>1, <1>4, <1>8 DEF Cycle, Fsm, Quiet, StartGranted, StartNotGranted, FirstPartGranted,
       FirstPartDone, SecondPartGrantedEarly, LastPartGranted, FirstResponse, Wait
  <2>2. lsu_err_q' <=> FirstFailed(a)'
    BY <1>1, <1>6, <1>7, <2>1 DEF FirstFailed
  <2>3. bus' = IF in.gnt /\ ~pmp_err_q' THEN <<Tx(a, 2)>> ELSE <<>>
    <3>1. CASE pmp_err_q
      BY <1>1, <1>3, <1>4, <1>6, <2>1, <3>1, ShortSeqs
    <3>2. CASE ~pmp_err_q
      <4> DEFINE t1 == Tx(a, 1)
                 t2 == Tx(a, 2)
      <4>1. Append(<<t1>>, t2) = <<t1, t2>> /\ Tail(<<t1, t2>>) = <<t2>> /\ Tail(<<t1>>) = <<>>
        BY ShortSeqs
      <4>2. bus = <<t1>> /\ Transaction(in) = t2 /\ in.rvalid
        BY <1>1, <1>4, <1>8, <3>2
      <4> HIDE DEF t1, t2
      <4>3. bus' = IF in.gnt /\ ~pmp_err_q' THEN <<t2>> ELSE <<>>
        BY <1>3, <1>4, <2>1, <4>1, <4>2
      <4>4. QED
        BY <4>3 DEF t2
    <3>3. QED
      BY <3>1, <3>2
  <2>4. Captured(a)'
    <3>1. SUFFICES ASSUME ~a.we, ~lsu_err_q' PROVE rdata_q' = WordOf(a.addr)
      BY DEF Captured
    <3>2. ~ctrl_q.we /\ in.rvalid
      BY <1>1, <1>8, <2>1, <3>1 DEF CtrlOf
    <3>3. rdata_q' = Head(bus).word
      BY <2>1, <3>2 DEF CaptureRdata
    <3>4. QED
      BY <1>6, <3>2, <3>3 DEF Tx, WordOfPart
  <2>5. CASE in.gnt
    <3>1. Answerable(a)'
      BY <1>1, <1>5, <1>7, <2>1, <2>2, <2>3, <2>4, <2>5 DEF Answerable, Last
    <3>2. QED
      BY <1>3, <2>1, <2>5, <3>1
  <2>6. CASE ~in.gnt
    <3>1. SecondWaits(a)'
      BY <1>1, <1>5, <1>7, <2>1, <2>2, <2>3, <2>4, <2>6 DEF SecondWaits
    <3>2. QED
      BY <1>3, <2>1, <2>6, <3>1
  <2>7. QED
    BY <2>5, <2>6
<1>9. CASE ~in.rvalid /\ ~pmp_err_q /\ in.gnt
  <2>1. /\ ls_fsm' = "WAIT_RVALID_MIS_GNTS_DONE" /\ ~handle_misaligned_q'
        /\ UNCHANGED <<pmp_err_q, lsu_err_q, addr_last_q, ctrl_q, rdata_q>>
    BY <1>1, <1>9 DEF Cycle, Fsm, Quiet, StartGranted, StartNotGranted, FirstPartGranted,
       FirstPartDone, SecondPartGrantedEarly, LastPartGranted, FirstResponse, Wait
  <2>2. bus' = IF 2 \in Forbidden(a) THEN <<Tx(a, 1)>> ELSE <<Tx(a, 1), Tx(a, 2)>>
    <3> DEFINE t1 == Tx(a, 1)
               t2 == Tx(a, 2)
    <3>1. Append(<<t1>>, t2) = <<t1, t2>>
      BY ShortSeqs
    <3>2. bus = <<t1>> /\ Transaction(in) = t2
      BY <1>1, <1>4, <1>9
    <3> HIDE DEF t1, t2
    <3>3. bus' = IF 2 \in Forbidden(a) THEN <<t1>> ELSE <<t1, t2>>
      BY <1>3, <1>4, <1>9, <3>1, <3>2
    <3>4. QED
      BY <3>3 DEF t1, t2
  <2>3. BothSent(a)'
    BY <1>1, <1>5, <1>7, <1>9, <2>1, <2>2 DEF BothSent
  <2>4. QED
    BY <1>3, <2>1, <2>3
<1>10. CASE ~in.rvalid /\ ~pmp_err_q /\ ~in.gnt
  <2>1. UNCHANGED lsuVars
    BY <1>1, <1>10 DEF Cycle, Fsm, Quiet, StartGranted, StartNotGranted, FirstPartGranted,
       FirstPartDone, SecondPartGrantedEarly, LastPartGranted, FirstResponse, Wait
  <2>2. FirstSent(a)'
    BY <1>1, <1>3, <1>5, <1>7, <1>10, <2>1 DEF lsuVars, FirstSent
  <2>3. QED
    BY <1>1, <1>3, <2>1, <2>2 DEF lsuVars
<1>11. QED
  BY <1>8, <1>9, <1>10

LEMMA SecondWaitsStep ==
  ASSUME NEW a \in Access, Executing(a), SecondWaits(a), NEW in \in Inputs, Cycle(in)
  PROVE  \/ Executing(a)' /\ SecondWaits(a)'
         \/ Awaiting(a)' /\ Answerable(a)'
<1>1. /\ ls_fsm = "WAIT_GNT" /\ IsSplit(a)
      /\ handle_misaligned_q
      /\ lsu_err_q <=> FirstFailed(a)
      /\ pmp_err_q <=> 2 \in Forbidden(a)
      /\ bus = <<>> /\ failed \subseteq {1} /\ moved = Carried(a, 1)
      /\ addr_last_q = a.addr /\ ctrl_q = CtrlOf(a) /\ Captured(a)
  BY DEF SecondWaits
<1>2. ls_fsm # "IDLE" /\ addr_incr_req /\ data_req(in) /\ ~in.rvalid /\ FailedNow(in) = {}
  BY <1>1, InputTypes DEF addr_incr_req, data_req, FailedNow
<1>3. /\ lsu_req(in) /\ current(in) = a
      /\ failed' = failed \cup FailedNow(in) /\ moved' = moved \cup MovedNow(in)
      /\ bus' = LET sent == IF bus_req(in) /\ in.gnt THEN Append(bus, Transaction(in)) ELSE bus
                IN  IF in.rvalid THEN Tail(sent) ELSE sent
      /\ ls_fsm' = "IDLE" => Awaiting(a)'
      /\ ls_fsm' # "IDLE" => Executing(a)'
  BY <1>2, Held
<1>4. /\ bus_req(in) <=> 2 \notin Forbidden(a)
      /\ Transaction(in) = Tx(a, 2)
      /\ MovedNow(in) = IF in.gnt THEN Carried(a, 2) ELSE {}
      /\ ctrl(in) = CtrlOf(a) /\ addr_last_d(in) = 4 * WordOfPart(a, 2)
  BY <1>1, <1>2, <1>3, SecondMoves, SecondSignals
<1>5. /\ bus' = IF in.gnt /\ ~pmp_err_q THEN <<Tx(a, 2)>> ELSE <<>>
      /\ failed' = failed
  BY <1>1, <1>2, <1>3, <1>4, ShortSeqs
<1>6. moved' = IF in.gnt \/ pmp_err_q THEN AllCarried(a) ELSE Carried(a, 1)
  <2>1. pmp_err_q => Carried(a, 2) = {}
    BY <1>1 DEF Carried
  <2>2. QED
    BY <1>1, <1>3, <1>4, <2>1 DEF AllCarried
<1>7. CASE in.gnt \/ pmp_err_q
  <2>1. /\ ls_fsm' = "IDLE" /\ ~handle_misaligned_q'
        /\ addr_last_q' = IF lsu_err_q THEN addr_last_q ELSE addr_last_d(in)
        /\ ctrl_q' = CtrlOf(a)
        /\ UNCHANGED <<pmp_err_q, lsu_err_q, rdata_q>>
    BY <1>1, <1>4, <1>7 DEF Cycle, Fsm, Quiet, StartGranted, StartNotGranted, FirstPartGranted,
       FirstPartDone, SecondPartGrantedEarly, LastPartGranted, FirstResponse, Wait
  <2>2. Answerable(a)'
    BY <1>1, <1>4, <1>5, <1>6, <1>7, <2>1 DEF Answerable, Last, FirstFailed, Captured
  <2>3. QED
    BY <1>3, <2>1, <2>2
<1>8. CASE ~in.gnt /\ ~pmp_err_q
  <2>1. UNCHANGED lsuVars
    BY <1>1, <1>8 DEF Cycle, Fsm, Quiet, StartGranted, StartNotGranted, FirstPartGranted,
       FirstPartDone, SecondPartGrantedEarly, LastPartGranted, FirstResponse, Wait
  <2>2. SecondWaits(a)'
    BY <1>1, <1>5, <1>6, <1>8, <2>1 DEF lsuVars, SecondWaits, FirstFailed, Captured
  <2>3. QED
    BY <1>1, <1>3, <2>1, <2>2 DEF lsuVars
<1>9. QED
  BY <1>7, <1>8

LEMMA BothSentStep ==
  ASSUME NEW a \in Access, Executing(a), BothSent(a), NEW in \in Inputs, Cycle(in)
  PROVE  \/ Executing(a)' /\ BothSent(a)'
         \/ Awaiting(a)' /\ Answerable(a)'
<1>1. /\ ls_fsm = "WAIT_RVALID_MIS_GNTS_DONE" /\ IsSplit(a)
      /\ ~handle_misaligned_q /\ ~lsu_err_q /\ ~pmp_err_q /\ 1 \notin Forbidden(a)
      /\ bus = IF 2 \in Forbidden(a) THEN <<Tx(a, 1)>> ELSE <<Tx(a, 1), Tx(a, 2)>>
      /\ failed = {} /\ moved = AllCarried(a)
      /\ addr_last_q = a.addr /\ ctrl_q = CtrlOf(a)
  BY DEF BothSent
<1>2. ls_fsm # "IDLE" /\ addr_incr_req /\ ~data_req(in) /\ ~bus_req(in) /\ MovedNow(in) = {}
  BY <1>1 DEF addr_incr_req, data_req, bus_req, MovedNow
<1>3. /\ lsu_req(in) /\ current(in) = a
      /\ failed' = failed \cup FailedNow(in) /\ moved' = moved \cup MovedNow(in)
      /\ bus' = LET sent == IF bus_req(in) /\ in.gnt THEN Append(bus, Transaction(in)) ELSE bus
                IN  IF in.rvalid THEN Tail(sent) ELSE sent
      /\ ls_fsm' = "IDLE" => Awaiting(a)'
      /\ ls_fsm' # "IDLE" => Executing(a)'
  BY <1>2, Held
<1>4. /\ data_pmp_err(in) <=> 2 \in Forbidden(a)
      /\ addr_last_d(in) = 4 * WordOfPart(a, 2)
  BY <1>1, <1>2, <1>3, SecondMoves, SecondSignals
<1>5. Head(bus) = Tx(a, 1) /\ Tail(bus) = (IF 2 \in Forbidden(a) THEN <<>> ELSE <<Tx(a, 2)>>)
  BY <1>1, ShortSeqs
<1>6. failed' = (IF in.rvalid /\ in.err THEN {1} ELSE {}) /\ moved' = AllCarried(a)
  <2>1. Head(bus).part = 1
    BY <1>5 DEF Tx
  <2>2. FailedNow(in) = IF in.rvalid /\ in.err THEN {1} ELSE {}
    BY <2>1 DEF FailedNow
  <2>3. QED
    BY <1>1, <1>2, <1>3, <2>2
<1>7. bus' = IF in.rvalid THEN Tail(bus) ELSE bus
  BY <1>2, <1>3
<1>8. CASE in.rvalid
  <2>1. /\ ls_fsm' = "IDLE" /\ ~handle_misaligned_q'
        /\ pmp_err_q' <=> 2 \in Forbidden(a)
        /\ lsu_err_q' <=> in.err
        /\ addr_last_q' = IF in.err THEN addr_last_q ELSE addr_last_d(in)
        /\ CaptureRdata(in) /\ ctrl_q' = CtrlOf(a)
    BY <1>1, <1>4, <1>8 DEF Cycle, Fsm, Quiet, StartGranted, StartNotGranted, FirstPartGranted,
       FirstPartDone, SecondPartGrantedEarly, LastPartGranted, FirstResponse, Wait
  <2>2. lsu_err_q' <=> FirstFailed(a)'
    BY <1>1, <1>6, <1>8, <2>1 DEF FirstFailed
  <2>3. Captured(a)'
    <3>1. SUFFICES ASSUME ~a.we PROVE rdata_q' = WordOf(a.addr)
      BY DEF Captured
    <3>2. ~ctrl_q.we
      BY <1>1, <3>1 DEF CtrlOf
    <3>3. rdata_q' = Head(bus).word
      BY <1>8, <2>1, <3>2 DEF CaptureRdata
    <3>4. QED
      BY <1>5, <3>3 DEF Tx, WordOfPart
  <2>4. bus' = IF pmp_err_q' THEN <<>> ELSE <<Tx(a, 2)>>
    BY <1>5, <1>7, <1>8, <2>1
  <2>5. addr_last_q' = IF ~lsu_err_q' THEN 4 * WordOfPart(a, 2) ELSE a.addr
    BY <1>1, <1>4, <2>1
  <2>6. Answerable(a)'
    BY <1>1, <1>6, <2>1, <2>2, <2>3, <2>4, <2>5 DEF Answerable, Last
  <2>7. QED
    BY <1>3, <2>1, <2>6
<1>9. CASE ~in.rvalid
  <2>1. UNCHANGED lsuVars
    BY <1>1, <1>9 DEF Cycle, Fsm, Quiet, StartGranted, StartNotGranted, FirstPartGranted,
       FirstPartDone, SecondPartGrantedEarly, LastPartGranted, FirstResponse, Wait
  <2>2. BothSent(a)'
    BY <1>1, <1>6, <1>7, <1>9, <2>1 DEF lsuVars, BothSent
  <2>3. QED
    BY <1>1, <1>3, <2>1, <2>2 DEF lsuVars
<1>10. QED
  BY <1>8, <1>9

\* An access begins when nothing is owed after this cycle.
LEMMA StartStep ==
  ASSUME NEW a \in Access, NEW in \in Inputs, in.start = <<a>>, Cycle(in),
         ls_fsm = "IDLE", access = <<>>, ~handle_misaligned_q,
         waiting # <<>> => lsu_resp_valid(in),
         (bus = <<>> /\ ~in.rvalid) \/ (in.rvalid /\ \E x : bus = <<x>>)
  PROVE  \/ Executing(a)' /\ (FirstWaits(a)' \/ FirstSent(a)')
         \/ Awaiting(a)' /\ Answerable(a)'
<1>1. /\ ~addr_incr_req /\ lsu_req(in) /\ current(in) = a /\ data_req(in)
  BY ShortSeqs DEF addr_incr_req, lsu_req, current, data_req
<1>2. /\ data_pmp_err(in) <=> 1 \in Forbidden(a)
      /\ bus_req(in) <=> 1 \notin Forbidden(a)
      /\ Transaction(in) = Tx(a, 1)
      /\ MovedNow(in) = IF in.gnt THEN Carried(a, 1) ELSE {}
      /\ ctrl(in) = CtrlOf(a) /\ addr_last_d(in) = a.addr
      /\ split_misaligned_access(in) <=> IsSplit(a)
  BY <1>1, FirstMoves, FirstSignals
<1>3. bus' = IF in.gnt /\ 1 \notin Forbidden(a) THEN <<Tx(a, 1)>> ELSE <<>>
  <2> DEFINE t == Tx(a, 1)
  <2>1. bus' = LET sent == IF bus_req(in) /\ in.gnt THEN Append(bus, t) ELSE bus
               IN  IF in.rvalid THEN Tail(sent) ELSE sent
    BY <1>2 DEF Cycle, CoreAndBus
  <2>2. Append(<<>>, t) = <<t>>
    BY ShortSeqs
  <2> HIDE DEF t
  <2>3. \A x : Append(<<x>>, t) = <<x, t>> /\ Tail(<<x, t>>) = <<t>> /\ Tail(<<x>>) = <<>>
    <3>1. SUFFICES ASSUME NEW x
                   PROVE  Append(<<x>>, t) = <<x, t>> /\ Tail(<<x, t>>) = <<t>> /\ Tail(<<x>>) = <<>>
      OBVIOUS
    <3>2. Append(<<x>>, t) = <<x, t>> /\ Tail(<<x, t>>) = <<t>>
      BY ShortSeqs
    <3>3. Tail(<<x>>) = <<>>
      BY ShortSeqs
    <3>4. QED
      BY <3>2, <3>3
  <2>4. bus' = IF in.gnt /\ 1 \notin Forbidden(a) THEN <<t>> ELSE <<>>
    BY <1>2, <2>1, <2>2, <2>3
  <2>5. QED
    BY <2>4 DEF t
<1>4. in.start # <<>>
  BY ShortSeqs
<1>5. failed' = {} /\ moved' = MovedNow(in)
  BY <1>4 DEF Cycle, CoreAndBus
<1>6. /\ ls_fsm' = "IDLE" => Awaiting(a)'
      /\ ls_fsm' # "IDLE" => Executing(a)'
  BY <1>1 DEF Cycle, CoreAndBus, lsu_req_done, Awaiting, Executing
<1>7. CASE in.gnt
  <2>1. /\ ls_fsm' = IF IsSplit(a) THEN "WAIT_RVALID_MIS" ELSE "IDLE"
        /\ handle_misaligned_q' <=> IsSplit(a)
        /\ pmp_err_q' <=> 1 \in Forbidden(a)
        /\ ~lsu_err_q' /\ addr_last_q' = a.addr /\ ctrl_q' = CtrlOf(a)
    BY <1>1, <1>2, <1>7 DEF Cycle, Fsm, Quiet, StartGranted, StartNotGranted, FirstPartGranted,
       FirstPartDone, SecondPartGrantedEarly, LastPartGranted, FirstResponse, Wait
  <2>2. bus' = (IF pmp_err_q' THEN <<>> ELSE <<Tx(a, 1)>>) /\ moved' = Carried(a, 1)
    BY <1>2, <1>3, <1>5, <1>7, <2>1
  <2>3. CASE IsSplit(a)
    BY <1>5, <1>6, <2>1, <2>2, <2>3 DEF FirstSent
  <2>4. CASE ~IsSplit(a)
    BY <1>5, <1>6, <2>1, <2>2, <2>4 DEF Answerable, Last, AllCarried
  <2>5. QED
    BY <2>3, <2>4
<1>8. CASE ~in.gnt
  <2>1. /\ ls_fsm' = IF IsSplit(a) THEN "WAIT_GNT_MIS" ELSE "WAIT_GNT"
        /\ pmp_err_q' <=> 1 \in Forbidden(a)
        /\ ~lsu_err_q' /\ ~handle_misaligned_q'
    BY <1>1, <1>2, <1>8 DEF Cycle, Fsm, Quiet, StartGranted, StartNotGranted, FirstPartGranted,
       FirstPartDone, SecondPartGrantedEarly, LastPartGranted, FirstResponse, Wait
  <2>2. QED
    BY <1>2, <1>3, <1>5, <1>6, <1>8, <2>1 DEF FirstWaits
<1>9. QED
  BY <1>7, <1>8

\* Without a new access the unit is done when the answer has come.
LEMMA QuietStep ==
  ASSUME NEW in \in Inputs, in.start = <<>>, Cycle(in), ls_fsm = "IDLE", access = <<>>
  PROVE  /\ UNCHANGED <<ls_fsm, handle_misaligned_q, lsu_err_q, addr_last_q, ctrl_q, rdata_q, access, moved>>
         /\ ~pmp_err_q'
         /\ bus' = IF in.rvalid THEN Tail(bus) ELSE bus
         /\ failed' = failed \cup FailedNow(in)
         /\ waiting' = IF lsu_resp_valid(in) THEN <<>> ELSE waiting
<1>1. ~lsu_req(in) /\ ~data_req(in) /\ ~bus_req(in) /\ MovedNow(in) = {} /\ ~lsu_req_done(in)
  BY DEF lsu_req, data_req, bus_req, MovedNow, lsu_req_done
<1>2. Quiet(in)
  BY <1>1 DEF Cycle, Fsm, StartGranted, StartNotGranted, FirstPartGranted,
     FirstPartDone, SecondPartGrantedEarly, LastPartGranted, FirstResponse, Wait
<1>3. QED
  BY <1>1, <1>2 DEF Quiet, Cycle, CoreAndBus

LEMMA AccessesTyped == ASSUME NEW in \in Inputs, in.start # <<>>
                       PROVE  \E a \in Access : in.start = <<a>>
  BY InputTypes, LsuAssumption

LEMMA RestingStep ==
  ASSUME Resting, access = <<>>, waiting = <<>>, NEW in \in Inputs, Cycle(in)
  PROVE  Phase' /\ answer' = <<>>
<1>1. ls_fsm = "IDLE" /\ ~handle_misaligned_q /\ ~pmp_err_q /\ bus = <<>> /\ ~in.rvalid
      /\ ~lsu_resp_valid(in)
  BY InputTypes DEF Resting, lsu_resp_valid
<1>2. answer' = <<>>
  BY <1>1 DEF Cycle, CoreAndBus
<1>3. CASE in.start = <<>>
  BY <1>1, <1>2, <1>3, QuietStep DEF Phase, Resting
<1>4. CASE in.start # <<>>
  <2>1. PICK a \in Access : in.start = <<a>>
    BY <1>4, AccessesTyped
  <2>2. \/ Executing(a)' /\ (FirstWaits(a)' \/ FirstSent(a)')
        \/ Awaiting(a)' /\ Answerable(a)'
    BY <1>1, <2>1, StartStep
  <2>3. QED
    BY <1>2, <2>2 DEF Phase, Executing, Awaiting
<1>5. QED
  BY <1>3, <1>4

LEMMA AnswerableStep ==
  ASSUME NEW a \in Access, Awaiting(a), Answerable(a), NEW in \in Inputs, Cycle(in)
  PROVE  Phase'
<1>1. /\ access = <<>> /\ waiting = <<a>> /\ waiting # <<>>
      /\ ls_fsm = "IDLE" /\ ~handle_misaligned_q
      /\ bus = IF pmp_err_q THEN <<>> ELSE <<Tx(a, Last(a))>>
  BY ShortSeqs DEF Awaiting, Answerable
<1>2. (in.rvalid => ~pmp_err_q) /\ (lsu_resp_valid(in) <=> in.rvalid \/ pmp_err_q)
  BY <1>1, InputTypes DEF lsu_resp_valid
<1>3. CASE in.start # <<>>
  <2>1. PICK b \in Access : in.start = <<b>>
    BY <1>3, AccessesTyped
  <2>2. lsu_resp_valid(in)
    BY <1>1, <1>3, InputTypes DEF MayStart
  <2>3. (bus = <<>> /\ ~in.rvalid) \/ (in.rvalid /\ \E x : bus = <<x>>)
    BY <1>1, <1>2, <2>2
  <2>4. \/ Executing(b)' /\ (FirstWaits(b)' \/ FirstSent(b)')
        \/ Awaiting(b)' /\ Answerable(b)'
    BY <1>1, <2>1, <2>2, <2>3, StartStep
  <2>5. QED
    BY <2>4 DEF Phase, Executing, Awaiting
<1>4. CASE in.start = <<>> /\ lsu_resp_valid(in)
  <2>1. bus' = <<>>
    BY <1>1, <1>2, <1>4, QuietStep, ShortSeqs
  <2>2. QED
    BY <1>1, <1>4, <2>1, QuietStep DEF Phase, Resting
<1>5. CASE in.start = <<>> /\ ~lsu_resp_valid(in)
  <2>1. /\ UNCHANGED <<ls_fsm, handle_misaligned_q, lsu_err_q, addr_last_q, ctrl_q, rdata_q, access, moved, bus,
                       failed, waiting>>
        /\ ~pmp_err_q /\ ~pmp_err_q'
    BY <1>1, <1>2, <1>5, QuietStep DEF FailedNow
  <2>2. Answerable(a)'
    BY <2>1 DEF Answerable, FirstFailed, Captured
  <2>3. QED
    BY <1>1, <2>1, <2>2 DEF Phase
<1>6. QED
  BY <1>3, <1>4, <1>5

-----------------------------------------------------------------------------
(* The answer. *)

LEMMA Answered ==
  ASSUME NEW a \in Access, Awaiting(a), Answerable(a), NEW in \in Inputs, Cycle(in), lsu_resp_valid(in)
  PROVE  LET r == Answer(in) IN
         /\ r.access = a
         /\ data_or_pmp_err(in) <=> r.failed # {}
         /\ r.load_err <=> r.failed # {} /\ ~a.we
         /\ r.store_err <=> r.failed # {} /\ a.we
         /\ r.failed # {} => addr_last_q' = IF 1 \in r.failed THEN a.addr ELSE 4 * WordOfPart(a, 2)
<1> DEFINE r == Answer(in)
           F == Forbidden(a)
<1>1. /\ waiting # <<>> /\ waiting[1] = a /\ access = <<>> /\ ls_fsm = "IDLE" /\ waiting = <<a>>
      /\ pmp_err_q <=> Last(a) \in F
      /\ bus = IF pmp_err_q THEN <<>> ELSE <<Tx(a, Last(a))>>
      /\ lsu_err_q <=> IsSplit(a) /\ (1 \in failed \/ 1 \in F)
      /\ failed \subseteq (IF IsSplit(a) THEN {1} ELSE {})
      /\ ctrl_q = CtrlOf(a)
      /\ addr_last_q = IF IsSplit(a) /\ ~lsu_err_q THEN 4 * WordOfPart(a, 2) ELSE a.addr
  BY ShortSeqs DEF Awaiting, Answerable, FirstFailed
<1>2. /\ r.access = a /\ r.failed = failed \cup FailedNow(in) \cup F
      /\ (r.load_err <=> load_err(in)) /\ (r.store_err <=> store_err(in))
  BY <1>1 DEF Answer
<1>3. F \subseteq (IF IsSplit(a) THEN {1, 2} ELSE {1}) /\ Last(a) = (IF IsSplit(a) THEN 2 ELSE 1)
  BY DEF Forbidden, PartsOf, Last
<1>4. FailedNow(in) = IF in.rvalid /\ in.err THEN {Last(a)} ELSE {}
  <2>1. in.rvalid => Head(bus) = Tx(a, Last(a))
    BY <1>1, InputTypes, ShortSeqs
  <2>2. in.rvalid => Head(bus).part = Last(a)
    BY <2>1 DEF Tx
  <2>3. QED
    BY <2>2 DEF FailedNow
<1>5. data_or_pmp_err(in) <=> lsu_err_q \/ (in.rvalid /\ in.err) \/ pmp_err_q
  BY DEF data_or_pmp_err
<1> HIDE DEF r, F
<1>6. data_or_pmp_err(in) <=> r.failed # {}
  <2>1. CASE IsSplit(a)
    BY <1>1, <1>2, <1>3, <1>4, <1>5, <2>1
  <2>2. CASE ~IsSplit(a)
    BY <1>1, <1>2, <1>3, <1>4, <1>5, <2>2
  <2>3. QED
    BY <2>1, <2>2
<1>7. (r.load_err <=> r.failed # {} /\ ~a.we) /\ (r.store_err <=> r.failed # {} /\ a.we)
  <2>1. ctrl_q.we = a.we
    BY <1>1 DEF CtrlOf
  <2>2. QED
    BY <1>2, <1>6, <2>1 DEF load_err, store_err
<1>8. ASSUME r.failed # {}
      PROVE  addr_last_q' = IF 1 \in r.failed THEN a.addr ELSE 4 * WordOfPart(a, 2)
  <2>1. load_err(in) \/ store_err(in)
    BY <1>2, <1>7, <1>8, Sizes
  <2>2. in.start = <<>>
    BY <1>1, <2>1, InputTypes DEF MayStart
  <2>3. addr_last_q' = addr_last_q
    BY <1>1, <2>2, QuietStep
  <2>4. CASE IsSplit(a)
    <3>1. 1 \in r.failed <=> lsu_err_q
      BY <1>1, <1>2, <1>3, <1>4, <2>4
    <3>2. QED
      BY <1>1, <2>3, <2>4, <3>1
  <2>5. CASE ~IsSplit(a)
    <3>1. 1 \in r.failed
      BY <1>1, <1>2, <1>3, <1>4, <1>8, <2>5
    <3>2. QED
      BY <1>1, <2>3, <2>5, <3>1
  <2>6. QED
    BY <2>4, <2>5
<1>9. QED
  BY <1>2, <1>6, <1>7, <1>8 DEF r

LEMMA AnsweredBytes ==
  ASSUME NEW a \in Access, Awaiting(a), Answerable(a), NEW in \in Inputs, Cycle(in), lsu_resp_valid(in)
  PROVE  LoadsRightBytes(Answer(in)) /\ TransfersRightBytes(Answer(in))
<1> DEFINE r == Answer(in)
<1>1. /\ bus = IF pmp_err_q THEN <<>> ELSE <<Tx(a, Last(a))>>
      /\ moved = AllCarried(a) /\ ctrl_q = CtrlOf(a)
      /\ IsSplit(a) => Captured(a)
  BY DEF Answerable
<1>2. r.access = a /\ (data_or_pmp_err(in) <=> r.failed # {})
  BY Answered
<1>3. r.moved = moved /\ (r.rdata_valid <=> lsu_rdata_valid(in)) /\ r.sext = ctrl_q.sext
      /\ r.rdata = IF lsu_rdata_valid(in)
                     THEN [k \in 0 .. Size[ctrl_q.type] - 1 |-> loaded_byte(Head(bus).word, k)]
                     ELSE <<>>
  BY DEF Answer
<1>4. TransfersRightBytes(r)
  BY <1>1, <1>2, <1>3, AllBytes DEF TransfersRightBytes
<1>5. ASSUME r.rdata_valid
      PROVE  r.failed = {} /\ ~r.access.we /\ r.rdata = BytesOf(r.access) /\ r.sext = r.access.sext
  <2>1. in.rvalid /\ ~data_or_pmp_err(in) /\ ~ctrl_q.we
    BY <1>3, <1>5 DEF lsu_rdata_valid
  <2>2. r.failed = {} /\ ~a.we /\ ~lsu_err_q
    BY <1>1, <1>2, <2>1 DEF data_or_pmp_err, CtrlOf
  <2>3. IsSplit(a) => rdata_q = WordOf(a.addr)
    BY <1>1, <2>2 DEF Captured
  <2>4. Head(bus).word = WordOfPart(a, Last(a))
    <3>1. bus # <<>>
      BY <2>1, InputTypes
    <3>2. Head(bus) = Tx(a, Last(a))
      BY <1>1, <3>1, ShortSeqs
    <3>3. QED
      BY <3>2 DEF Tx
  <2>5. ctrl_q.type = a.type /\ ctrl_q.sext = a.sext
    BY <1>1 DEF CtrlOf
  <2>6. r.rdata = [k \in 0 .. Size[a.type] - 1 |-> loaded_byte(WordOfPart(a, Last(a)), k)]
    BY <1>3, <1>5, <2>4, <2>5
  <2>7. \A k \in 0 .. Size[a.type] - 1 : loaded_byte(WordOfPart(a, Last(a)), k) = BytesOf(a)[k]
    BY <1>1, <2>3, LoadedBytes
  <2>8. r.rdata = BytesOf(a)
    <3>1. BytesOf(a) = [k \in 0 .. Size[a.type] - 1 |-> BytesOf(a)[k]]
      BY DEF BytesOf
    <3> DEFINE B == BytesOf(a)
    <3> HIDE DEF B, r
    <3>2. [k \in 0 .. Size[a.type] - 1 |-> loaded_byte(WordOfPart(a, Last(a)), k)]
             = [k \in 0 .. Size[a.type] - 1 |-> B[k]]
      BY <2>7 DEF B
    <3>3. QED
      BY <2>6, <3>1, <3>2 DEF B
  <2>9. QED
    BY <1>2, <1>3, <2>2, <2>5, <2>8
<1>6. LoadsRightBytes(r)
  BY <1>5 DEF LoadsRightBytes
<1>7. QED
  BY <1>4, <1>6

\* Nothing is answered but an access that awaits it.
LEMMA AnswerStep ==
  ASSUME Phase, NEW in \in Inputs, Cycle(in)
  PROVE  ErrorsExact' /\ RightBytes'
<1>1. CASE \E a \in Access : Awaiting(a) /\ Answerable(a) /\ lsu_resp_valid(in)
  <2>1. PICK a \in Access : Awaiting(a) /\ Answerable(a) /\ lsu_resp_valid(in)
    BY <1>1
  <2>2. answer' = <<Answer(in)>>
    BY <2>1 DEF Cycle, CoreAndBus
  <2>3. answer'[1] = Answer(in)
    BY <2>2, ShortSeqs
  <2>4. ErrorsExact'
    BY <2>1, <2>3, Answered DEF ErrorsExact
  <2>5. RightBytes'
    BY <2>1, <2>3, AnsweredBytes DEF RightBytes, LoadsRightBytes, TransfersRightBytes
  <2>6. QED
    BY <2>4, <2>5
<1>2. CASE ~\E a \in Access : Awaiting(a) /\ Answerable(a) /\ lsu_resp_valid(in)
  <2>1. answer' = <<>>
    <3>1. CASE access = <<>> /\ waiting = <<>> /\ Resting
      BY <3>1, RestingStep
    <3>2. CASE \E a \in Access : Awaiting(a) /\ Answerable(a)
      BY <1>2, <3>2 DEF Cycle, CoreAndBus
    <3>3. CASE \E a \in Access : Executing(a) /\ ls_fsm # "IDLE"
      BY <3>3, Held
    <3>4. QED
      BY <3>1, <3>2, <3>3 DEF Phase, Executing, Awaiting, FirstWaits, FirstSent, SecondWaits, BothSent
  <2>2. QED
    BY <2>1 DEF ErrorsExact, RightBytes
<1>3. QED
  BY <1>1, <1>2

-----------------------------------------------------------------------------
(* The requests on the bus. *)

\* An access that is requested has its operands, and is requested in every phase
\* but the last.
LEMMA Requesting ==
  ASSUME Phase, NEW in \in Inputs
  PROVE  /\ lsu_req(in) => current(in) \in Access
         /\ ls_fsm # "IDLE" => lsu_req(in)
         /\ bus_req(in) => lsu_req(in) /\ data_req(in)
<1>1. ls_fsm # "IDLE" => access # <<>>
  BY ShortSeqs DEF Phase, Resting, Answerable
<1>2. access # <<>> => \E a \in Access : access = <<a>>
  BY DEF Phase
<1>3. ls_fsm # "IDLE" => lsu_req(in)
  BY <1>1 DEF lsu_req
<1>4. ASSUME lsu_req(in) PROVE current(in) \in Access
  <2>1. CASE access # <<>>
    <3>1. PICK a \in Access : access = <<a>>
      BY <1>2, <2>1
    <3>2. access[1] = a
      BY <3>1, ShortSeqs
    <3>3. QED
      BY <2>1, <3>2 DEF current
  <2>2. CASE access = <<>>
    <3>1. PICK a \in Access : in.start = <<a>>
      BY <1>4, <2>2, AccessesTyped DEF lsu_req
    <3>2. in.start[1] = a
      BY <3>1, ShortSeqs
    <3>3. QED
      BY <2>2, <3>2 DEF current
  <2>3. QED
    BY <2>1, <2>2
<1>5. QED
  BY <1>3, <1>4 DEF bus_req, data_req

\* A request without a grant leaves the unit in a state that makes it again.
LEMMA Repeated ==
  ASSUME Phase, NEW in \in Inputs, Cycle(in), bus_req(in), ~in.gnt
  PROVE  \E a \in Access :
           /\ Executing(a)' /\ ls_fsm' \notin {"IDLE", "WAIT_RVALID_MIS_GNTS_DONE"}
           /\ \/ ~addr_incr_req' /\ data_word(in) = WordOfPart(a, 1) /\ 1 \notin Forbidden(a)
              \/ addr_incr_req' /\ addr_last_q' = a.addr /\ data_word(in) = WordOfPart(a, 2)
                 /\ 2 \notin Forbidden(a)
<1>1. lsu_req(in) /\ data_req(in) /\ current(in) \in Access /\ ~data_pmp_err(in)
  BY Requesting DEF bus_req
<1>2. CASE ls_fsm = "IDLE"
  <2>0. PICK a \in Access : current(in) = a
    BY <1>1
  <2>1. access = <<>> /\ ~handle_misaligned_q /\ ~addr_incr_req
    BY <1>2 DEF Phase, Resting, Answerable, FirstWaits, FirstSent, SecondWaits, BothSent, addr_incr_req
  <2>2. ls_fsm' \in {"WAIT_GNT_MIS", "WAIT_GNT"} /\ ~handle_misaligned_q'
    BY <1>1, <1>2, <2>1 DEF Cycle, Fsm, Quiet, StartGranted, StartNotGranted, FirstPartGranted,
       FirstPartDone, SecondPartGrantedEarly, LastPartGranted, FirstResponse, Wait
  <2>3. ~addr_incr_req'
    BY <2>2 DEF addr_incr_req
  <2>4. data_word(in) = WordOfPart(a, 1) /\ 1 \notin Forbidden(a)
    BY <1>1, <2>0, <2>1, FirstMoves, FirstSignals
  <2>5. waiting # <<>> => lsu_resp_valid(in)
    BY <1>1, <2>1, InputTypes DEF lsu_req, MayStart
  <2>6. Executing(a)'
    BY <1>1, <2>0, <2>2, <2>5 DEF Cycle, CoreAndBus, lsu_req_done, Executing
  <2>7. QED
    BY <1>1, <2>2, <2>3, <2>4, <2>6
<1>3. CASE ls_fsm # "IDLE"
  <2>1. PICK a \in Access : /\ Executing(a)
                            /\ FirstWaits(a) \/ FirstSent(a) \/ SecondWaits(a) \/ BothSent(a)
    BY <1>3 DEF Phase, Resting, Answerable, Executing
  <2>2. current(in) = a /\ (ls_fsm' # "IDLE" => Executing(a)')
    BY <1>3, <2>1, Held
  <2>3. CASE FirstWaits(a)
    <3>1. ~addr_incr_req /\ ~handle_misaligned_q
      BY <2>3 DEF FirstWaits, addr_incr_req
    <3>2. data_word(in) = WordOfPart(a, 1) /\ 1 \notin Forbidden(a)
      BY <1>1, <2>2, <3>1, FirstMoves, FirstSignals
    <3>3. UNCHANGED lsuVars
      BY <2>3, <3>2 DEF FirstWaits, Cycle, Fsm, Quiet, StartGranted, StartNotGranted, FirstPartGranted,
         FirstPartDone, SecondPartGrantedEarly, LastPartGranted, FirstResponse, Wait
    <3>4. ls_fsm' = ls_fsm /\ ~addr_incr_req'
      BY <3>1, <3>3 DEF lsuVars, addr_incr_req
    <3>5. QED
      BY <2>2, <2>3, <3>2, <3>4 DEF FirstWaits
  <2>4. CASE FirstSent(a) \/ SecondWaits(a)
    <3>1. IsSplit(a) /\ addr_incr_req /\ addr_last_q = a.addr /\ handle_misaligned_q
      BY <2>4 DEF FirstSent, SecondWaits, addr_incr_req
    <3>2. data_word(in) = WordOfPart(a, 2) /\ 2 \notin Forbidden(a)
      BY <1>1, <2>2, <3>1, SecondMoves, SecondSignals
    <3>3. /\ ls_fsm' \in {"WAIT_RVALID_MIS", "WAIT_GNT"} /\ handle_misaligned_q'
          /\ addr_last_q' = addr_last_q
      <4>1. CASE FirstSent(a)
        BY <3>1, <4>1 DEF FirstSent, Cycle, Fsm, Quiet, StartGranted, StartNotGranted, FirstPartGranted,
           FirstPartDone, SecondPartGrantedEarly, LastPartGranted, FirstResponse, Wait, lsuVars
      <4>2. CASE SecondWaits(a)
        BY <3>1, <3>2, <4>2 DEF SecondWaits, Cycle, Fsm, Quiet, StartGranted, StartNotGranted,
           FirstPartGranted, FirstPartDone, SecondPartGrantedEarly, LastPartGranted, FirstResponse,
           Wait, lsuVars
      <4>3. QED
        BY <2>4, <4>1, <4>2
    <3>4. addr_incr_req'
      BY <3>3 DEF addr_incr_req
    <3>5. QED
      BY <2>2, <3>1, <3>2, <3>3, <3>4
  <2>5. CASE BothSent(a)
    BY <1>1, <2>5 DEF BothSent, data_req
  <2>6. QED
    BY <2>1, <2>3, <2>4, <2>5
<1>4. QED
  BY <1>2, <1>3

LEMMA HeldStep ==
  ASSUME Phase, NEW in \in Inputs, Cycle(in)
  PROVE  HeldRequestStable'
<1>1. SUFFICES ASSUME held' # <<>>
               PROVE  access' # <<>> /\ bus_req(NoInput)' /\ data_word(NoInput)' = held'[1]
  BY DEF HeldRequestStable
<1>2. bus_req(in) /\ ~in.gnt /\ held' = <<data_word(in)>>
  BY <1>1 DEF Cycle, CoreAndBus
<1>3. held'[1] = data_word(in)
  BY <1>2, ShortSeqs
<1>4. PICK a \in Access :
           /\ Executing(a)' /\ ls_fsm' \notin {"IDLE", "WAIT_RVALID_MIS_GNTS_DONE"}
           /\ \/ ~addr_incr_req' /\ data_word(in) = WordOfPart(a, 1) /\ 1 \notin Forbidden(a)
              \/ addr_incr_req' /\ addr_last_q' = a.addr /\ data_word(in) = WordOfPart(a, 2)
                 /\ 2 \notin Forbidden(a)
  BY <1>2, Repeated
<1>5. access' = <<a>> /\ access' # <<>> /\ access'[1] = a
  BY <1>4, ShortSeqs DEF Executing
<1>6. current(NoInput)' = a /\ data_req(NoInput)'
  BY <1>4, <1>5 DEF current, data_req
<1>7. data_word(NoInput)' = data_word(in)
  <2>1. CASE ~addr_incr_req'
    BY <1>4, <1>6, <2>1 DEF data_word, data_addr, WordOfPart
  <2>2. CASE addr_incr_req' /\ addr_last_q' = a.addr /\ data_word(in) = WordOfPart(a, 2)
    <3>1. data_word(NoInput)' = WordOf((a.addr + 4) % BYTES)
      BY <2>2 DEF data_word, data_addr
    <3>2. QED
      BY <2>2, <3>1, Parts
  <2>3. QED
    BY <1>4, <2>1, <2>2
<1>8. ~data_pmp_err(NoInput)'
  <2>1. data_word(in) \notin Denied
    BY <1>2, Requesting DEF bus_req, data_pmp_err
  <2>2. QED
    BY <1>7, <2>1 DEF data_pmp_err
<1>9. QED
  BY <1>3, <1>5, <1>6, <1>7, <1>8 DEF bus_req

-----------------------------------------------------------------------------
(* Types. *)

LEMMA AddrSignals ==
  ASSUME TypeOK, NEW in, current(in) \in Access
  PROVE  /\ data_addr(in) \in ByteAddr /\ data_word(in) \in Word /\ data_offset(in) \in Lane
         /\ addr_last_d(in) \in ByteAddr
         /\ ctrl(in) \in [offset : Lane, type : Type, we : BOOLEAN, sext : BOOLEAN]
         /\ data_be(in) \subseteq Lane
         /\ \A l \in Lane : 4 * data_word(in) + l \in ByteAddr /\ wdata_byte(in, l) \in Lane
<1>1. addr_last_q \in ByteAddr /\ current(in).addr \in ByteAddr
  BY Parts DEF TypeOK
<1>2. (addr_last_q + 4) % BYTES \in ByteAddr
  <2>1. BYTES \in Nat \ {0} /\ addr_last_q \in Nat
    BY <1>1, LsuAssumption DEF BYTES, ByteAddr
  <2>2. QED
    BY <2>1 DEF ByteAddr
<1>3. data_addr(in) \in ByteAddr
  BY <1>1, <1>2 DEF data_addr
<1>4. data_word(in) \in Word /\ data_offset(in) \in Lane
  BY <1>3, SplitAddr DEF data_word, data_offset
<1>5. \A l \in Lane : 4 * data_word(in) + l \in ByteAddr
  BY <1>4, JoinAddr
<1>6. 4 * data_word(in) \in ByteAddr
  <2>1. 4 * data_word(in) + 0 \in ByteAddr /\ data_word(in) \in Nat
    BY <1>4, <1>5 DEF Lane, Word
  <2>2. QED
    BY <2>1
<1>7. addr_last_d(in) \in ByteAddr
  BY <1>3, <1>6 DEF addr_last_d
<1>8. ctrl(in) \in [offset : Lane, type : Type, we : BOOLEAN, sext : BOOLEAN]
  BY <1>4, Sizes DEF ctrl
<1>9. data_be(in) \subseteq Lane
  <2>1. current(in).type \in {"W", "H", "B"}
    BY Sizes DEF Type
  <2>2. QED
    BY <1>4, <2>1 DEF data_be, Lane
<1>10. \A l \in Lane : wdata_byte(in, l) \in Lane
  BY <1>4 DEF wdata_byte, Lane
<1>11. QED
  BY <1>3, <1>4, <1>5, <1>7, <1>8, <1>9, <1>10

LEMMA TypeStep ==
  ASSUME TypeOK, Phase, NEW in \in Inputs, Cycle(in)
  PROVE  TypeOK'
<1>1. /\ lsu_req(in) => current(in) \in Access
      /\ ls_fsm # "IDLE" => lsu_req(in)
      /\ bus_req(in) => lsu_req(in) /\ data_req(in)
  BY Requesting
<1>2. in.rvalid => Head(bus) \in [word : Word, part : Part]
  <2> DEFINE S == [word : Word, part : Part]
  <2>1. bus \in Seq(S) /\ (in.rvalid => bus # <<>>)
    BY InputTypes DEF TypeOK
  <2> HIDE DEF S
  <2>2. in.rvalid => Head(bus) \in S
    BY <2>1
  <2>3. QED
    BY <2>2 DEF S
<1>3. /\ ls_fsm' \in State /\ handle_misaligned_q' \in BOOLEAN /\ pmp_err_q' \in BOOLEAN
      /\ lsu_err_q' \in BOOLEAN
  BY <1>1, InputTypes DEF TypeOK, Cycle, Fsm, Quiet, StartGranted, StartNotGranted, FirstPartGranted,
     FirstPartDone, SecondPartGrantedEarly, LastPartGranted, FirstResponse, Wait, State, lsuVars,
     data_pmp_err, split_misaligned_access
<1>4. addr_last_q' \in {addr_last_q, addr_last_d(in)} /\ ctrl_q' \in {ctrl_q, ctrl(in)}
      /\ (~lsu_req(in) => addr_last_q' = addr_last_q /\ ctrl_q' = ctrl_q)
  BY <1>1 DEF Cycle, Fsm, Quiet, StartGranted, StartNotGranted, FirstPartGranted,
     FirstPartDone, SecondPartGrantedEarly, LastPartGranted, FirstResponse, Wait, lsuVars
<1>5. /\ addr_last_q' \in ByteAddr
      /\ ctrl_q' \in [offset : Lane, type : Type, we : BOOLEAN, sext : BOOLEAN]
  BY <1>1, <1>4, AddrSignals DEF TypeOK
<1>6. rdata_q' \in Word
  <2>1. rdata_q' = rdata_q \/ CaptureRdata(in)
    BY DEF Cycle, Fsm, Quiet, StartGranted, StartNotGranted, FirstPartGranted,
       FirstPartDone, SecondPartGrantedEarly, LastPartGranted, FirstResponse, Wait, lsuVars
  <2>2. QED
    BY <1>2, <2>1 DEF TypeOK, CaptureRdata
<1>7. /\ access' \in {<<>>} \cup {<<a>> : a \in Access} /\ waiting' \in {<<>>} \cup {<<a>> : a \in Access}
  BY <1>1 DEF TypeOK, Cycle, CoreAndBus, lsu_req_done
<1>8. bus' \in Seq([word : Word, part : Part])
  <2>1. bus_req(in) => Transaction(in) \in [word : Word, part : Part]
    BY <1>1, AddrSignals DEF Transaction, Part
  <2> DEFINE sent == IF bus_req(in) /\ in.gnt THEN Append(bus, Transaction(in)) ELSE bus
  <2>2. sent \in Seq([word : Word, part : Part]) /\ (bus # <<>> => sent # <<>>)
    <3> DEFINE S == [word : Word, part : Part]
               x == Transaction(in)
    <3>1. bus \in Seq(S) /\ (bus_req(in) => x \in S)
      BY <2>1 DEF TypeOK
    <3> HIDE DEF S, x
    <3>2. ASSUME bus_req(in) PROVE Append(bus, x) \in Seq(S) /\ Append(bus, x) # <<>>
      <4>1. x \in S /\ bus \in Seq(S)
        BY <3>1, <3>2
      <4>2. Append(bus, x) \in Seq(S) /\ Len(Append(bus, x)) = Len(bus) + 1 /\ Len(bus) \in Nat
        BY <4>1
      <4>3. Len(Append(bus, x)) # 0
        BY <4>2
      <4>4. QED
        BY <4>2, <4>3
    <3>3. QED
      BY <3>1, <3>2 DEF S, x
  <2>3. bus' = IF in.rvalid THEN Tail(sent) ELSE sent
    BY DEF Cycle, CoreAndBus
  <2> HIDE DEF sent
  <2>4. QED
    BY <2>2, <2>3, InputTypes
<1>9. held' \in {<<>>} \cup {<<w>> : w \in Word}
  BY <1>1, AddrSignals DEF Cycle, CoreAndBus
<1>10. failed' \subseteq Part
  BY <1>2 DEF TypeOK, Cycle, CoreAndBus, FailedNow
<1>11. moved' \subseteq ByteAddr \X Lane
  <2>1. MovedNow(in) \subseteq ByteAddr \X Lane
    <3>1. CASE bus_req(in) /\ in.gnt
      <4>1. MovedNow(in) = {<<4 * data_word(in) + l, wdata_byte(in, l)>> : l \in data_be(in)}
        BY <3>1 DEF MovedNow
      <4>2. /\ data_be(in) \subseteq Lane
            /\ \A l \in Lane : 4 * data_word(in) + l \in ByteAddr /\ wdata_byte(in, l) \in Lane
        BY <1>1, <3>1, AddrSignals
      <4>3. QED
        BY <4>1, <4>2
    <3>2. QED
      BY <3>1 DEF MovedNow
  <2>2. QED
    BY <2>1 DEF TypeOK, Cycle, CoreAndBus
<1>12. QED
  BY <1>3, <1>5, <1>6, <1>7, <1>8, <1>9, <1>10, <1>11 DEF TypeOK

-----------------------------------------------------------------------------
(* The invariant. *)

LEMMA PhaseStep ==
  ASSUME Phase, NEW in \in Inputs, Cycle(in)
  PROVE  Phase'
<1>1. CASE access = <<>> /\ waiting = <<>> /\ Resting
  BY <1>1, RestingStep
<1>2. CASE \E a \in Access : Awaiting(a) /\ Answerable(a)
  BY <1>2, AnswerableStep
<1>3. CASE \E a \in Access : Executing(a) /\ (FirstWaits(a) \/ FirstSent(a) \/ SecondWaits(a) \/ BothSent(a))
  <2>1. PICK a \in Access : Executing(a) /\ (FirstWaits(a) \/ FirstSent(a) \/ SecondWaits(a) \/ BothSent(a))
    BY <1>3
  <2>2. \/ Executing(a)' /\ (FirstWaits(a)' \/ FirstSent(a)' \/ SecondWaits(a)' \/ BothSent(a)')
        \/ Awaiting(a)' /\ Answerable(a)'
    BY <2>1, FirstWaitsStep, FirstSentStep, SecondWaitsStep, BothSentStep
  <2>3. QED
    BY <2>2 DEF Phase, Executing, Awaiting
<1>4. QED
  BY <1>1, <1>2, <1>3 DEF Phase, Executing, Awaiting

LEMMA LsuInit == Init => LsuInv
<1> SUFFICES ASSUME Init PROVE LsuInv
  OBVIOUS
<1>1. TypeOK
  <2>1. 0 \in Word /\ 0 \in ByteAddr /\ 0 \in Lane
    BY LsuAssumption DEF Word, ByteAddr, BYTES, Lane
  <2>2. bus \in Seq([word : Word, part : Part])
    BY DEF Init
  <2>3. QED
    BY <2>1, <2>2 DEF Init, TypeOK, State, Type
<1>2. ErrorsExact /\ RightBytes /\ HeldRequestStable
  BY DEF Init, ErrorsExact, RightBytes, HeldRequestStable
<1>3. Phase
  BY DEF Init, Phase, Resting
<1>4. QED
  BY <1>1, <1>2, <1>3 DEF LsuInv, AccessInv

LEMMA LsuInvariant == Spec => []LsuInv
<1>1. LsuInv /\ [Next]_vars => LsuInv'
  <2> SUFFICES ASSUME LsuInv, [Next]_vars PROVE LsuInv'
    OBVIOUS
  <2>1. CASE Next
    <3>1. PICK in \in Inputs : Cycle(in)
      BY <2>1 DEF Next
    <3>2. QED
      BY <3>1, TypeStep, AnswerStep, HeldStep, PhaseStep DEF LsuInv, AccessInv
  <2>2. CASE UNCHANGED vars
    BY <2>2 DEF vars, lsuVars, envVars, LsuInv, AccessInv, TypeOK, ErrorsExact, RightBytes,
       HeldRequestStable, bus_req, data_req, data_pmp_err, lsu_req, data_word, data_addr, current,
       addr_incr_req, Phase, Resting, Answerable, FirstWaits, FirstSent, SecondWaits, BothSent,
       FirstFailed, Captured
  <2>3. QED
    BY <2>1, <2>2
<1>2. QED
  BY <1>1, LsuInit, PTL DEF Spec

\* Whatever is split, forbidden or failing, and in whatever order grants and answers
\* come, the core is told the right error and address and gets the right bytes, and a
\* request that is held does not change.
THEOREM AccessSound == Spec => []AccessInv
<1>1. LsuInv => AccessInv
  BY DEF LsuInv
<1>2. QED
  BY <1>1, LsuInvariant, PTL

-----------------------------------------------------------------------------
(* The port. *)

LEMMA Responding ==
  ASSUME Phase, NEW in \in Inputs, Cycle(in)
  PROVE  /\ answer' = IF lsu_resp_valid(in) THEN <<Answer(in)>> ELSE <<>>
         /\ lsu_resp_valid(in) => ls_fsm = "IDLE" /\ access = <<>> /\ \E a \in Access : waiting = <<a>>
         /\ waiting # <<>> => access = <<>> /\ ls_fsm = "IDLE"
         /\ ls_fsm # "IDLE" <=> access # <<>>
<1>1. answer' = IF lsu_resp_valid(in) THEN <<Answer(in)>> ELSE <<>>
  BY DEF Cycle, CoreAndBus
<1>2. CASE access = <<>> /\ waiting = <<>> /\ Resting
  <2>1. answer' = <<>>
    BY <1>2, RestingStep
  <2>2. ~lsu_resp_valid(in)
    BY <1>1, <2>1, ShortSeqs
  <2>3. QED
    BY <1>1, <1>2, <2>2 DEF Resting
<1>3. CASE \E a \in Access : Awaiting(a) /\ Answerable(a)
  BY <1>1, <1>3, ShortSeqs DEF Awaiting, Answerable
<1>4. CASE \E a \in Access : Executing(a) /\ ls_fsm # "IDLE"
  BY <1>1, <1>4, ShortSeqs DEF Executing, lsu_resp_valid
<1>5. QED
  BY <1>2, <1>3, <1>4 DEF Phase, Executing, Awaiting, FirstWaits, FirstSent, SecondWaits, BothSent

LEMMA PortStep ==
  ASSUME Phase, NEW in \in Inputs, Cycle(in)
  PROVE  LET resp == IF answer' = <<>> THEN "none"
                     ELSE IF answer'[1].load_err \/ answer'[1].store_err THEN "error"
                     ELSE "ok"
         IN  /\ resp \in Port!Responses
             /\ \E req, done \in BOOLEAN, type \in Port!AccessType :
                  Port!PortCycle(req, type, done, resp)
<1> DEFINE resp == IF answer' = <<>> THEN "none"
                   ELSE IF answer'[1].load_err \/ answer'[1].store_err THEN "error"
                   ELSE "ok"
           owed(q) == IF q = <<>> THEN "none" ELSE IF q[1].we THEN "store" ELSE "load"
           type == IF lsu_req(in) /\ current(in).we THEN "store" ELSE "load"
<1>1. /\ (resp = "none" <=> ~lsu_resp_valid(in)) /\ resp \in {"none", "error", "ok"}
  <2>1. answer' = <<>> <=> ~lsu_resp_valid(in)
    BY Responding, ShortSeqs
  <2>2. QED
    BY <2>1
<1>2. /\ lsu_resp_valid(in) => ls_fsm = "IDLE" /\ waiting # <<>>
      /\ waiting # <<>> => access = <<>> /\ ls_fsm = "IDLE"
      /\ ls_fsm # "IDLE" <=> access # <<>>
  BY Responding, ShortSeqs
<1> HIDE DEF resp
<1>3. resp \in Port!Responses
  BY <1>1, <1>2 DEF Port!Responses, Port!AccessType, Port!Response
<1>4. /\ lsu_req(in) <=> in.start # <<>> \/ ls_fsm # "IDLE"
      /\ lsu_req_done(in) <=> lsu_req(in) /\ ls_fsm' = "IDLE"
      /\ waiting' = IF lsu_req_done(in) THEN <<current(in)>>
                    ELSE IF lsu_resp_valid(in) THEN <<>> ELSE waiting
  BY <1>2 DEF lsu_req, lsu_req_done, Cycle, CoreAndBus
<1>5. ~lsu_req(in) => ls_fsm' = "IDLE"
  <2>1. ~lsu_req(in) => ls_fsm = "IDLE" /\ access = <<>> /\ in.start = <<>>
    BY <1>2, <1>4
  <2>2. QED
    BY <2>1, QuietStep
<1>6. lsu_req(in) /\ waiting # <<>> => lsu_resp_valid(in)
  BY <1>2, <1>4, InputTypes DEF MayStart
<1>7. owed(<<current(in)>>) = IF current(in).we THEN "store" ELSE "load"
  BY ShortSeqs
<1>8. PICK req, done \in BOOLEAN : (req <=> in.start # <<>>) /\ (done <=> lsu_req_done(in))
  OBVIOUS
<1>9. type \in Port!AccessType
  BY DEF Port!AccessType
<1>10. Port!PortCycle(req, type, done, resp)
  <2>1. (ls_fsm' # "IDLE") <=> ((req \/ ls_fsm # "IDLE") /\ ~done)
    BY <1>4, <1>5, <1>8
  <2>2. owed(waiting') = IF ~((req \/ ls_fsm # "IDLE") /\ done)
                           THEN IF owed(waiting) # "none" /\ resp = "none" THEN owed(waiting) ELSE "none"
                         ELSE IF owed(waiting) # "none" /\ resp = "none" THEN "both"
                         ELSE type
    <3>1. CASE done
      BY <1>1, <1>4, <1>6, <1>7, <1>8, <3>1
    <3>2. CASE ~done
      BY <1>1, <1>4, <1>8, <3>2
    <3>3. QED
      BY <3>1, <3>2
  <2>3. QED
    BY <2>1, <2>2 DEF Port!PortCycle
<1>11. QED
  BY <1>3, <1>9, <1>10 DEF resp

\* The unit is done with an access once, answers it once after that, and never while
\* it is busy with another one: it is the port the pipeline relies on.
THEOREM PortKept == Spec => PortRespected
<1> DEFINE A == LET resp == IF answer' = <<>> THEN "none"
                            ELSE IF answer'[1].load_err \/ answer'[1].store_err THEN "error"
                            ELSE "ok"
                IN  /\ resp \in Port!Responses
                    /\ \E req, done \in BOOLEAN, type \in Port!AccessType :
                         Port!PortCycle(req, type, done, resp)
<1>1. LsuInv /\ [Next]_vars => [A]_vars
  <2> SUFFICES ASSUME LsuInv, Next PROVE A
    OBVIOUS
  <2>1. PICK in \in Inputs : Cycle(in)
    BY DEF Next
  <2>2. QED
    BY <2>1, PortStep DEF LsuInv
<1>2. QED
  BY <1>1, LsuInvariant, PTL DEF Spec, PortRespected
=============================================================================
