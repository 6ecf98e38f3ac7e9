----------------------------- MODULE ICacheProofs -----------------------------
(***************************************************************************)
(* The instruction cache with any number of fill buffers, ways, lines and  *)
(* words in a line, any memory and bus: its buffers agree with the bus,    *)
(* its RAMs with memory and the last FENCE.I, and the words it hands to    *)
(* the core are those of WordStream.  The inductive invariants are         *)
(* ICacheInv and, on top of it, StreamInv.                                 *)
(***************************************************************************)
EXTENDS ICache, FiniteSetTheorems, SequenceTheorems, TLAPS

(* The invariant. *)

FreeIsFree == \A f \in FB \ Busy : fb[f] = Free

\* Nothing more is to be requested.
Finished(f) ==
  \/ fb[f].ext_cnt = BEATS \/ fb[f].hit
  \/ ~fb[f].cache /\ (fb[f].stale \/ fill_ext_beat(f) >= BEATS)

\* A buffer turns to the bus when the older ones are finished with it.
InTurn ==
  \A f \in Busy :
    /\ fb[f].ext_hold => fb[f].ext_cnt < BEATS
    /\ fb[f].ext_done => ~fb[f].ext_hold /\ Finished(f)
    /\ fb[f].ext_cnt > 0 \/ fb[f].ext_hold => \A g \in fb[f].older : fb[g].ext_done

\* So what the bus owes is in the order of age.
BusInOrder ==
  \A j \in DOMAIN bus :
    /\ bus[j].fb \in Busy
    /\ \A i \in 1 .. j - 1 : bus[i].fb = bus[j].fb \/ bus[i].fb \in fb[bus[j].fb].older

\* A buffer remembers the request that waits for its grant.
Held == seen # <<>> => \E f \in Busy : fb[f].ext_hold /\ ext_word(f) = seen[1]

\* The buffers and the requests they have made.
BuffersInv ==
  TypeOK /\ FreeIsFree /\ AgeIsOrder /\ CountsMatchBus /\ InTurn /\ BusInOrder /\ Held

\* The tags are rewritten, and looked up, under a key that is there.
KeyKnown ==
  /\ IF ICacheScramble THEN scramble_key_valid_q <=> ~scramble_req_q
                       ELSE scramble_key_valid_q /\ ~scramble_req_q
  /\ inval_state_q \in {"INVAL_CACHE", "IDLE"} => scramble_key_valid_q

\* Until they are, no lookup is made and no line is kept for the RAMs.
Quiet ==
  /\ inval_state_q # "IDLE" => ~lookup.valid /\ \A f \in Busy : ~fb[f].cache
  /\ inval_state_q \in {"OUT_OF_RESET", "INVAL_CACHE"} => ~ecc_correction.write

TagsWritten ==
  /\ inval_state_q = "IDLE" => \A i \in Index, w \in Way : tags[i][w] # Unknown
  /\ inval_state_q = "INVAL_CACHE" =>
       \A i \in 0 .. inval_index_q - 1, w \in Way : tags[i][w] = Invalid

\* The words a buffer has received are those of its line.  They and those to come
\* are from after the last FENCE.I if they may be written to the RAMs.
Received(f) == {(BeatOf(fb[f].addr) + k) % BEATS : k \in 0 .. fb[f].rvd_cnt - 1}

BuffersMatchMemory ==
  \A f \in Busy :
    /\ ~fb[f].hit =>
         \A b \in Received(f) :
           /\ fb[f].data[b].word = WordAt(LineOf(fb[f].addr), b)
           /\ fb[f].data[b].bad => b \in fb[f].err
           /\ fb[f].cache => ~fb[f].data[b].old
    /\ fb[f].cache => \A i \in OwedByBus(f) : ~bus[i].old

ICacheInv ==
  BuffersInv /\ KeyKnown /\ Quiet /\ TagsWritten /\ BuffersMatchMemory /\ RamsCoherent

-----------------------------------------------------------------------------
(* Words, lines, beats and tags. *)

LEMMA Parameters ==
  /\ NUM_FB \in Nat /\ NUM_FB >= 2 /\ WAYS \in Nat /\ WAYS >= 1 /\ BEATS \in Nat /\ BEATS >= 1
  /\ INDEXES \in Nat /\ INDEXES >= 1 /\ LINES \in Nat /\ LINES >= 1
  /\ ICacheECC \in BOOLEAN /\ ICacheScramble \in BOOLEAN
  /\ MAX_OUTSTANDING \in Nat /\ Targets \subseteq Word
  /\ 0 \in FB /\ 0 \in Way /\ 0 \in Beat /\ 0 \in Index /\ 0 \in Line /\ 0 \in Word
<1>1. /\ NUM_FB \in Nat /\ NUM_FB >= 2 /\ WAYS \in Nat /\ WAYS >= 1 /\ BEATS \in Nat /\ BEATS >= 1
      /\ INDEXES \in Nat /\ INDEXES >= 1 /\ LINES \in Nat /\ LINES >= 1
      /\ ICacheECC \in BOOLEAN /\ ICacheScramble \in BOOLEAN
      /\ MAX_OUTSTANDING \in Nat /\ Targets \subseteq Word
  BY ICacheAssumption, ICacheEnvAssumption
<1>2. LINES * BEATS \in Nat /\ LINES * BEATS >= 1
  BY <1>1
<1>3. QED
  BY <1>1, <1>2 DEF FB, Way, Beat, Index, Line, Word

LEMMA Divide ==
  ASSUME NEW a \in Nat, NEW d \in Nat, d >= 1
  PROVE  /\ a \div d \in Nat /\ a % d \in 0 .. d - 1
         /\ a = (a \div d) * d + (a % d)
<1> DEFINE q == a \div d
           r == a % d
<1>1. r = a - d * q
  OBVIOUS
<1>2. q \in Nat
  OBVIOUS
<1>3. r \in 0 .. d - 1
  OBVIOUS
<1> HIDE DEF q, r
<1>4. a = q * d + r
  BY <1>1, <1>2, <1>3
<1>5. QED
  BY <1>2, <1>3, <1>4 DEF q, r

\* A multiple of d below another.
LEMMA BelowMultiple ==
  ASSUME NEW d \in Nat, d >= 1, NEW q \in Nat, NEW n \in Nat, NEW r \in 0 .. d - 1
  PROVE  /\ q < n => q * d + r < n * d
         /\ q * d + r < n * d => q < n
         /\ q * d + r \in Nat
<1>1. q < n => q * d + r < n * d
  <2> SUFFICES ASSUME q < n PROVE q * d + r < n * d
    OBVIOUS
  <2> DEFINE k == n - q - 1
  <2>1. k \in Nat /\ n = q + 1 + k
    OBVIOUS
  <2> HIDE DEF k
  <2>2. n * d = q * d + d + k * d /\ k * d \in Nat /\ q * d \in Nat
    BY <2>1
  <2>3. QED
    BY <2>2
<1>2. q * d + r < n * d => q < n
  <2> SUFFICES ASSUME q >= n PROVE q * d + r >= n * d
    OBVIOUS
  <2> DEFINE k == q - n
  <2>1. k \in Nat /\ q = n + k
    OBVIOUS
  <2> HIDE DEF k
  <2>2. q * d = n * d + k * d /\ k * d \in Nat /\ n * d \in Nat
    BY <2>1
  <2>3. QED
    BY <2>2
<1>3. q * d + r \in Nat
  OBVIOUS
<1>4. QED
  BY <1>1, <1>2, <1>3

LEMMA WordParts ==
  ASSUME NEW w \in Word
  PROVE  LineOf(w) \in Line /\ BeatOf(w) \in Beat /\ WordAt(LineOf(w), BeatOf(w)) = w
<1>1. w \in Nat /\ w < LINES * BEATS
  BY Parameters DEF Word
<1> DEFINE q == w \div BEATS
           r == w % BEATS
<1>2. q \in Nat /\ r \in 0 .. BEATS - 1 /\ w = q * BEATS + r
  BY <1>1, Parameters, Divide
<1> HIDE DEF q, r
<1>3. q < LINES
  BY <1>1, <1>2, Parameters, BelowMultiple
<1>4. QED
  BY <1>2, <1>3, Parameters DEF LineOf, BeatOf, WordAt, Line, Beat, q, r

LEMMA WordAtType ==
  ASSUME NEW l \in Line, NEW b \in Beat
  PROVE  WordAt(l, b) \in Word
<1>1. l \in Nat /\ l < LINES /\ b \in 0 .. BEATS - 1
  BY Parameters DEF Line, Beat
<1>2. l * BEATS + b \in Nat /\ l * BEATS + b < LINES * BEATS
  BY <1>1, Parameters, BelowMultiple
<1>3. QED
  BY <1>2, Parameters DEF WordAt, Word

LEMMA TagParts ==
  ASSUME NEW l \in Line
  PROVE  /\ IndexOf(l) \in Index /\ TagOf(l) \in Tag /\ TagOf(l) \notin {Invalid, Unknown}
         /\ TagOf(l) * INDEXES + IndexOf(l) = l
<1>1. l \in Nat /\ l < LINES
  BY Parameters DEF Line
<1> DEFINE q == l \div INDEXES
           r == l % INDEXES
<1>2. q \in Nat /\ r \in 0 .. INDEXES - 1 /\ l = q * INDEXES + r
  BY <1>1, Parameters, Divide
<1> HIDE DEF q, r
<1>3. q <= q * INDEXES
  <2> DEFINE k == INDEXES - 1
  <2>1. k \in Nat /\ INDEXES = k + 1
    BY Parameters
  <2> HIDE DEF k
  <2>2. q * INDEXES = q * k + q /\ q * k \in Nat
    BY <1>2, <2>1
  <2>3. QED
    BY <1>2, <2>2
<1>4. q < LINES
  <2>1. q * INDEXES \in Nat
    BY <1>2, Parameters
  <2>2. QED
    BY <1>1, <1>2, <1>3, <2>1, Parameters
<1>5. QED
  BY <1>2, <1>4, Parameters DEF IndexOf, TagOf, Index, Tag, Invalid, Unknown, q, r

LEMMA Rotate ==
  ASSUME NEW c \in Beat, NEW k \in Nat
  PROVE  (c + k) % BEATS \in Beat /\ c % BEATS = c
<1>1. c \in Nat /\ c < BEATS
  BY Parameters DEF Beat
<1>2. (c + k) % BEATS \in 0 .. BEATS - 1
  BY <1>1, Parameters, Divide
<1>3. c % BEATS = c
  BY <1>1, Parameters
<1>4. QED
  BY <1>2, <1>3 DEF Beat

\* From any beat on, a whole round reaches every other.
LEMMA WholeRound ==
  ASSUME NEW c \in Beat, NEW b \in Beat
  PROVE  \E k \in 0 .. BEATS - 1 : b = (c + k) % BEATS
<1>1. /\ c \in Nat /\ c < BEATS /\ b \in Nat /\ b < BEATS
  BY Parameters DEF Beat
<1>2. CASE c <= b
  <2>1. b - c \in 0 .. BEATS - 1 /\ c + (b - c) = b /\ b % BEATS = b
    BY <1>1, <1>2, Parameters
  <2>2. QED
    BY <2>1
<1>3. CASE c > b
  <2>1. b + BEATS - c \in 0 .. BEATS - 1 /\ c + (b + BEATS - c) = b + BEATS
    BY <1>1, <1>3, Parameters
  <2>2. (b + BEATS) % BEATS = b
    BY <1>1, Parameters
  <2>3. QED
    BY <2>1, <2>2
<1>4. QED
  BY <1>1, <1>2, <1>3

LEMMA AddrTypes ==
  /\ \A w \in Word : NextWord(w) \in Word
  /\ \A l \in Line : (l + 1) % LINES \in Line
<1>1. ASSUME NEW w \in Word PROVE NextWord(w) \in Word
  <2>1. w + 1 \in Nat /\ LINES * BEATS \in Nat /\ LINES * BEATS >= 1
    BY Parameters DEF Word
  <2>2. (w + 1) % (LINES * BEATS) \in 0 .. LINES * BEATS - 1
    BY <2>1, Divide
  <2>3. QED
    BY <2>2 DEF NextWord, Word
<1>2. ASSUME NEW l \in Line PROVE (l + 1) % LINES \in Line
  <2>1. l + 1 \in Nat
    BY DEF Line
  <2>2. (l + 1) % LINES \in 0 .. LINES - 1
    BY <2>1, Parameters, Divide
  <2>3. QED
    BY <2>2 DEF Line
<1>3. QED
  BY <1>1, <1>2

-----------------------------------------------------------------------------
(* Choosing by number and by age. *)

LEMMA LeastNumber ==
  ASSUME NEW S \in SUBSET Nat, S # {}
  PROVE  \E n \in S : \A m \in S : n <= m
<1>1. PICK n \in S : \A m \in S : <<m, n>> \notin OpToRel(<, Nat)
  BY NatLessThanWellFounded, WFMin
<1>2. \A m \in S : ~(m < n)
  BY <1>1 DEF OpToRel
<1>3. QED
  BY <1>2

LEMMA LeastIsOne ==
  ASSUME NEW S \in SUBSET Nat, S # {}
  PROVE  \E n \in S : {m \in S : \A k \in S : m <= k} = {n}
<1>1. PICK n \in S : \A m \in S : n <= m
  BY LeastNumber
<1>2. \A m \in S : (\A k \in S : m <= k) => m = n
  BY <1>1
<1>3. {m \in S : \A k \in S : m <= k} = {n}
  BY <1>1, <1>2
<1>4. QED
  BY <1>3

\* A granted lookup takes one buffer that is free.
LEMMA AllocOne ==
  ASSUME Busy # FB
  PROVE  \E a \in FB \ Busy : fill_alloc_sel = {a}
<1>1. FB \ Busy # {} /\ FB \ Busy \in SUBSET Nat
  BY DEF Busy, FB
<1>2. QED
  BY <1>1, LeastIsOne DEF fill_alloc_sel

LEMMA FBFinite == IsFiniteSet(FB)
<1>1. NUM_FB - 1 \in Int /\ 0 \in Int
  BY Parameters
<1>2. QED
  BY <1>1, FS_Interval DEF FB

\* One buffer of any set of busy ones is the oldest.
LEMMA OldestOne ==
  ASSUME AgeIsOrder, NEW S \in SUBSET Busy, S # {}
  PROVE  \E f \in S : Oldest(S) = {f}
<1> DEFINE Above(f) == fb[f].older \cap S
           T == {Above(f) : f \in S}
<1>1. IsWellFoundedOn(StrictSubsetOrdering(FB), SUBSET FB)
  BY FBFinite, FS_StrictSubsetOrderingWellFounded, FS_FiniteSubsetsOfFinite
<1>2. T \in SUBSET (SUBSET FB) /\ T # {}
  BY DEF Busy
<1>3. PICK t \in T : \A u \in T : <<u, t>> \notin StrictSubsetOrdering(FB)
  BY <1>1, <1>2, WFMin
<1>4. PICK f \in S : t = Above(f)
  OBVIOUS
<1>5. Above(f) = {}
  <2> SUFFICES ASSUME NEW g \in Above(f) PROVE FALSE
    OBVIOUS
  <2>1. g \in S /\ g \in fb[f].older /\ g \in Busy /\ f \in Busy
    OBVIOUS
  <2>2. fb[g].older \subseteq fb[f].older /\ g \notin fb[g].older
    BY <2>1 DEF AgeIsOrder
  <2>3. Above(g) \subseteq Above(f) /\ Above(g) # Above(f) /\ Above(g) \in T
    BY <2>1, <2>2
  <2>4. <<Above(g), Above(f)>> \in StrictSubsetOrdering(FB)
    <3> HIDE DEF Above
    <3>1. Above(g) \in SUBSET FB /\ Above(f) \in SUBSET FB
      BY <1>2, <1>4, <2>3
    <3>2. QED
      BY <2>3, <3>1 DEF StrictSubsetOrdering
  <2>5. QED
    BY <1>3, <1>4, <2>3, <2>4
<1>6. f \in Oldest(S)
  BY <1>5 DEF Oldest
<1>7. ASSUME NEW g \in Oldest(S), g # f PROVE FALSE
  <2>1. f \in Busy /\ g \in Busy /\ g \in S /\ f \in S
    BY DEF Oldest
  <2>2. f \in fb[g].older \/ g \in fb[f].older
    BY <1>7, <2>1 DEF AgeIsOrder
  <2>3. QED
    BY <1>5, <2>1, <2>2 DEF Oldest
<1>8. QED
  BY <1>6, <1>7

\* The oldest is the one whose elders are not in the set.
LEMMA OldestIs ==
  ASSUME AgeIsOrder, NEW S \in SUBSET Busy, NEW f \in S, fb[f].older \cap S = {}
  PROVE  Oldest(S) = {f}
<1>1. PICK g \in S : Oldest(S) = {g}
  BY OldestOne
<1>2. f \in Oldest(S)
  BY DEF Oldest
<1>3. QED
  BY <1>1, <1>2

-----------------------------------------------------------------------------
(* What the bus owes a buffer. *)

\* The requests of a buffer among those at the bus, and those up to one of them.
Of(s, f)       == {i \in DOMAIN s : s[i].fb = f}
Before(s, f, i) == {j \in Of(s, f) : j < i}

LEMMA OwedIsOf ==
  ASSUME NEW f
  PROVE  OwedByBus(f) = Of(bus, f) /\ \A i : {j \in OwedByBus(f) : j < i} = Before(bus, f, i)
  BY DEF OwedByBus, Of, Before

LEMMA OfFinite ==
  ASSUME NEW S, NEW s \in Seq(S), NEW f
  PROVE  /\ IsFiniteSet(Of(s, f)) /\ Cardinality(Of(s, f)) \in Nat
         /\ \A i : IsFiniteSet(Before(s, f, i)) /\ Cardinality(Before(s, f, i)) \in Nat
         /\ Cardinality(Of(s, f)) = 0 <=> Of(s, f) = {}
<1>1. IsFiniteSet(1 .. Len(s)) /\ Of(s, f) \in SUBSET (1 .. Len(s))
  BY FS_Interval DEF Of
<1>2. IsFiniteSet(Of(s, f))
  BY <1>1, FS_Subset
<1>3. \A i : Before(s, f, i) \in SUBSET Of(s, f)
  BY DEF Before
<1>4. \A i : IsFiniteSet(Before(s, f, i))
  BY <1>2, <1>3, FS_Subset
<1>5. QED
  BY <1>2, <1>4, FS_CardinalityType, FS_EmptySet

\* A set of numbers moved down by one.
LEMMA MovedDown ==
  ASSUME NEW S \in SUBSET (Nat \ {0}), IsFiniteSet(S)
  PROVE  LET T == {k \in Nat : k + 1 \in S}
         IN  IsFiniteSet(T) /\ Cardinality(T) = Cardinality(S)
<1> DEFINE T == {k \in Nat : k + 1 \in S}
           h == [i \in S |-> i - 1]
<1>1. \A i \in S : i \in Nat /\ i # 0 /\ i - 1 \in Nat /\ (i - 1) + 1 = i
  OBVIOUS
<1>2. h \in [S -> T]
  BY <1>1
<1>3. \A i, j \in S : h[i] = h[j] => i = j
  BY <1>1
<1>4. ASSUME NEW k \in T PROVE \E i \in S : h[i] = k
  <2>1. k + 1 \in S /\ (k + 1) - 1 = k
    OBVIOUS
  <2>2. h[k + 1] = k
    BY <2>1
  <2>3. QED
    BY <2>1, <2>2
<1> HIDE DEF h, T
<1>5. h \in Bijection(S, T)
  BY <1>2, <1>3, <1>4 DEF Bijection, Injection, Surjection, IsInjective
<1>6. QED
  BY <1>5, FS_Bijection DEF ExistsBijection, T

LEMMA OfAppend ==
  ASSUME NEW S, NEW s \in Seq(S), NEW r \in S, NEW f
  PROVE  LET t == Append(s, r) n == Len(s) + 1 IN
         /\ r.fb = f  => Of(t, f) = Of(s, f) \cup {n}
                         /\ Cardinality(Of(t, f)) = Cardinality(Of(s, f)) + 1
         /\ r.fb # f => Of(t, f) = Of(s, f)
         /\ \A i \in 1 .. Len(s) : Before(t, f, i) = Before(s, f, i)
         /\ Before(t, f, n) = Of(s, f)
<1> DEFINE t == Append(s, r)
           n == Len(s) + 1
<1>1. DOMAIN s = 1 .. Len(s) /\ DOMAIN t = 1 .. n /\ t[n] = r /\ n \notin DOMAIN s /\ Len(s) \in Nat
  OBVIOUS
<1>2. \A i \in 1 .. Len(s) : t[i] = s[i]
  OBVIOUS
<1>3. \A i \in 1 .. n : i = n \/ i \in 1 .. Len(s)
  BY <1>1
<1> HIDE DEF t
<1>4. r.fb = f  => Of(t, f) = Of(s, f) \cup {n}
  BY <1>1, <1>2, <1>3 DEF Of
<1>5. r.fb # f => Of(t, f) = Of(s, f)
  BY <1>1, <1>2, <1>3 DEF Of
<1>6. n \notin Of(s, f)
  BY <1>1 DEF Of
<1>7. \A i \in 1 .. n : \A j \in Of(t, f) : j < i => j \in Of(s, f)
  BY <1>1, <1>2, <1>3 DEF Of
<1>8. \A j \in Of(s, f) : j \in Of(t, f) /\ j < n
  BY <1>1, <1>2, <1>3 DEF Of
<1>9. (\A i \in 1 .. Len(s) : Before(t, f, i) = Before(s, f, i)) /\ Before(t, f, n) = Of(s, f)
  BY <1>1, <1>7, <1>8 DEF Before
<1>10. IsFiniteSet(Of(s, f)) /\ Cardinality(Of(s, f)) \in Nat
  BY OfFinite
<1>11. r.fb = f => Cardinality(Of(t, f)) = Cardinality(Of(s, f)) + 1
  BY <1>4, <1>6, <1>10, FS_AddElement
<1>12. QED
  BY <1>4, <1>5, <1>9, <1>11 DEF t

LEMMA OfTail ==
  ASSUME NEW S, NEW s \in Seq(S), s # <<>>, NEW f
  PROVE  LET t == Tail(s) k == IF s[1].fb = f THEN 1 ELSE 0 IN
         /\ Cardinality(Of(t, f)) = Cardinality(Of(s, f)) - k
         /\ \A i \in DOMAIN t : /\ i \in Of(t, f) <=> i + 1 \in Of(s, f)
                                /\ Cardinality(Before(t, f, i)) =
                                     Cardinality(Before(s, f, i + 1)) - k
<1> DEFINE t == Tail(s)
           k == IF s[1].fb = f THEN 1 ELSE 0
<1>1. /\ Len(s) \in Nat /\ Len(s) >= 1 /\ DOMAIN s = 1 .. Len(s) /\ DOMAIN t = 1 .. Len(s) - 1
      /\ \A i \in 1 .. Len(s) - 1 : t[i] = s[i + 1]
  OBVIOUS
<1> HIDE DEF t
<1>2. ASSUME NEW A \in SUBSET Of(s, f), IsFiniteSet(A), 1 \in A <=> k = 1
      PROVE  Cardinality({i \in Nat : i + 1 \in A \ {1}}) = Cardinality(A) - k
  <2>1. IsFiniteSet(A \ {1}) /\ Cardinality(A \ {1}) = Cardinality(A) - k
    <3>1. Cardinality(A) \in Nat
      BY <1>2, FS_CardinalityType
    <3>2. IsFiniteSet(A \ {1}) /\ Cardinality(A \ {1}) = IF 1 \in A THEN Cardinality(A) - 1
                                                                  ELSE Cardinality(A)
      BY <1>2, FS_RemoveElement
    <3>3. QED
      BY <1>2, <3>1, <3>2
  <2>2. A \ {1} \in SUBSET (Nat \ {0})
    BY <1>1 DEF Of
  <2>3. QED
    BY <2>1, <2>2, MovedDown
<1>3. \A i \in Nat : i \in Of(t, f) <=> i + 1 \in Of(s, f) \ {1}
  BY <1>1 DEF Of
<1>4. 1 \in Of(s, f) <=> k = 1
  BY <1>1 DEF Of
<1>5. Of(t, f) = {i \in Nat : i + 1 \in Of(s, f) \ {1}}
  BY <1>1, <1>3 DEF Of
<1>6. Cardinality(Of(t, f)) = Cardinality(Of(s, f)) - k
  BY <1>2, <1>4, <1>5, OfFinite
<1>7. ASSUME NEW i \in DOMAIN t
      PROVE  Cardinality(Before(t, f, i)) = Cardinality(Before(s, f, i + 1)) - k
  <2>1. i \in Nat /\ i >= 1 /\ Before(s, f, i + 1) \in SUBSET Of(s, f)
    BY <1>1 DEF Before
  <2>2. 1 \in Before(s, f, i + 1) <=> k = 1
    BY <1>4, <2>1 DEF Before
  <2>3. Before(t, f, i) = {j \in Nat : j + 1 \in Before(s, f, i + 1) \ {1}}
    BY <1>3, <1>5, <2>1 DEF Before
  <2>4. QED
    BY <1>2, <2>1, <2>2, <2>3, OfFinite
<1>8. \A i \in DOMAIN t : i \in Of(t, f) <=> i + 1 \in Of(s, f)
  BY <1>1, <1>3
<1>9. QED
  BY <1>6, <1>7, <1>8 DEF t

-----------------------------------------------------------------------------
(* The inputs of a cycle, and what it does to a buffer. *)

Legal(in) ==
  /\ in.req \in BOOLEAN /\ in.branch \in BOOLEAN /\ in.take \in BOOLEAN /\ in.gnt \in BOOLEAN
  /\ in.rvalid \in BOOLEAN /\ in.err \in BOOLEAN /\ in.enable \in BOOLEAN
  /\ in.inval \in BOOLEAN /\ in.key \in BOOLEAN /\ in.tag_err \in BOOLEAN
  /\ in.data_err \in BOOLEAN
  /\ in.addr \in Word /\ in.way \in Way /\ in.rdata \in Datum
  /\ in.rvalid => /\ bus # <<>>
                  /\ in.rdata.word = bus[1].word /\ (in.rdata.old <=> bus[1].old)
                  /\ in.rdata.bad <=> in.err
  /\ in.gnt => instr_req(in)
  /\ in.key => scramble_req_q

\* Whether a request is made does not depend on its grant and the core's answer.
LEMMA SameRequest ==
  ASSUME NEW x, NEW y, x.req = y.req, x.branch = y.branch, x.enable = y.enable,
         x.tag_err = y.tag_err, x.data_err = y.data_err
  PROVE  instr_req(x) <=> instr_req(y)
<1>1. lookup_grant_ic0(x) <=> lookup_grant_ic0(y)
  BY DEF lookup_grant_ic0
<1>2. \A f : fill_hit_ic1(x, f) <=> fill_hit_ic1(y, f)
  BY DEF fill_hit_ic1, ecc_err_ic1
<1>3. \A f : fill_ext_done_d(x, f) <=> fill_ext_done_d(y, f)
  BY <1>2 DEF fill_ext_done_d
<1>4. fill_ext_req(x) = fill_ext_req(y)
  BY <1>3 DEF fill_ext_req
<1>5. QED
  BY <1>1, <1>4 DEF instr_req

LEMMA JunkType == Junk \in Datum /\ NoData \in [Beat -> Datum]
<1>1. Junk \in Datum
  BY DEF Junk, Datum
<1>2. QED
  BY <1>1 DEF NoData

LEMMA NextInput ==
  ASSUME TypeOK, Next
  PROVE  \E in : Legal(in) /\ Cycle(in)
<1>1. PICK branch \in Branches, addr \in Targets, enable \in Enables, inval \in Fences :
        \E core \in MayDropRequest(CoreInput(branch, addr, enable, inval)) :
          \E ram \in RamErrors(core), key \in Possible(scramble_req_q) :
            \E in \in Answers([ram EXCEPT !.key = key]) :
              \E take \in Takes(in), gnt \in Grants(in) :
                Cycle([in EXCEPT !.take = take, !.gnt = gnt])
  BY DEF Next
<1>1b. PICK core \in MayDropRequest(CoreInput(branch, addr, enable, inval)) :
        \E ram \in RamErrors(core), key \in Possible(scramble_req_q) :
          \E in \in Answers([ram EXCEPT !.key = key]) :
            \E take \in Takes(in), gnt \in Grants(in) :
              Cycle([in EXCEPT !.take = take, !.gnt = gnt])
  BY <1>1
<1>2. PICK ram \in RamErrors(core), key \in Possible(scramble_req_q) :
          \E in \in Answers([ram EXCEPT !.key = key]) :
            \E take \in Takes(in), gnt \in Grants(in) :
              Cycle([in EXCEPT !.take = take, !.gnt = gnt])
  BY <1>1b
<1>3. PICK in \in Answers([ram EXCEPT !.key = key]) :
            \E take \in Takes(in), gnt \in Grants(in) :
              Cycle([in EXCEPT !.take = take, !.gnt = gnt])
  BY <1>2
<1>4. PICK take \in Takes(in), gnt \in Grants(in) :
              Cycle([in EXCEPT !.take = take, !.gnt = gnt])
  BY <1>3
<1>5. /\ branch \in BOOLEAN /\ addr \in Word /\ enable \in BOOLEAN /\ inval \in BOOLEAN
      /\ key \in BOOLEAN /\ (key => scramble_req_q) /\ take \in BOOLEAN /\ gnt \in BOOLEAN
      /\ gnt => instr_req(in)
  BY ICacheEnvAssumption DEF Branches, Possible, Takes, Grants
<1> DEFINE c == core
           InputFields == {"req", "branch", "addr", "take", "gnt", "rvalid", "err", "rdata",
                           "enable", "inval", "key", "tag_err", "data_err", "way"}
<1>6. /\ DOMAIN c = InputFields
      /\ c.req \in BOOLEAN /\ c.branch \in BOOLEAN /\ c.addr \in Word /\ c.take = FALSE
      /\ c.gnt = FALSE /\ c.rvalid = FALSE /\ c.err = FALSE /\ c.rdata = Junk
      /\ c.enable \in BOOLEAN /\ c.inval \in BOOLEAN /\ c.key = FALSE
      /\ c.tag_err = FALSE /\ c.data_err = FALSE /\ c.way \in Way
  <2> DEFINE i == CoreInput(branch, addr, enable, inval)
  <2>1. /\ DOMAIN i = InputFields
        /\ i.req \in BOOLEAN /\ i.branch \in BOOLEAN /\ i.addr \in Word /\ i.take = FALSE
        /\ i.gnt = FALSE /\ i.rvalid = FALSE /\ i.err = FALSE /\ i.rdata = Junk
        /\ i.enable \in BOOLEAN /\ i.inval \in BOOLEAN /\ i.key = FALSE
        /\ i.tag_err = FALSE /\ i.data_err = FALSE /\ i.way \in Way
    BY <1>5, Parameters DEF CoreInput, Idle, TypeOK
  <2>2. core = i \/ core = [i EXCEPT !.req = FALSE]
    BY <1>1b DEF MayDropRequest
  <2> HIDE DEF i
  <2>3. QED
    BY <2>1, <2>2
<1> HIDE DEF c
<1>7. /\ DOMAIN ram = InputFields
      /\ ram.req \in BOOLEAN /\ ram.branch \in BOOLEAN /\ ram.addr \in Word /\ ram.take = FALSE
      /\ ram.gnt = FALSE /\ ram.rvalid = FALSE /\ ram.err = FALSE /\ ram.rdata = Junk
      /\ ram.enable \in BOOLEAN /\ ram.inval \in BOOLEAN /\ ram.key = FALSE
      /\ ram.tag_err \in BOOLEAN /\ ram.data_err \in BOOLEAN /\ ram.way \in Way
  <2>1. \/ ram = c
        \/ \E e \in BOOLEAN : ram = [c EXCEPT !.data_err = e]
        \/ \E w \in Way : ram = [c EXCEPT !.tag_err = TRUE, !.way = w]
    BY <1>2 DEF RamErrors, Possible, c
  <2>2. CASE ram = c
    BY <1>6, <2>2
  <2>3. CASE \E e \in BOOLEAN : ram = [c EXCEPT !.data_err = e]
    BY <1>6, <2>3
  <2>4. CASE \E w \in Way : ram = [c EXCEPT !.tag_err = TRUE, !.way = w]
    BY <1>6, <2>4
  <2>5. QED
    BY <2>1, <2>2, <2>3, <2>4
<1> DEFINE k == [ram EXCEPT !.key = key]
<1>8. /\ DOMAIN k = InputFields
      /\ k.req \in BOOLEAN /\ k.branch \in BOOLEAN /\ k.addr \in Word /\ k.take = FALSE
      /\ k.gnt = FALSE /\ k.rvalid = FALSE /\ k.err = FALSE /\ k.rdata = Junk
      /\ k.enable \in BOOLEAN /\ k.inval \in BOOLEAN /\ k.key = key
      /\ k.tag_err \in BOOLEAN /\ k.data_err \in BOOLEAN /\ k.way \in Way
  BY <1>7
<1> HIDE DEF k
<1>9. /\ DOMAIN in = InputFields
      /\ in.req \in BOOLEAN /\ in.branch \in BOOLEAN /\ in.addr \in Word
      /\ in.rvalid \in BOOLEAN /\ in.err \in BOOLEAN /\ in.rdata \in Datum
      /\ in.enable \in BOOLEAN /\ in.inval \in BOOLEAN /\ in.key = key
      /\ in.tag_err \in BOOLEAN /\ in.data_err \in BOOLEAN /\ in.way \in Way
      /\ in.rvalid => /\ bus # <<>>
                      /\ in.rdata.word = bus[1].word /\ (in.rdata.old <=> bus[1].old)
                      /\ in.rdata.bad <=> in.err
  <2>1. CASE in = k
    BY <1>8, <2>1, JunkType
  <2>2. CASE bus # <<>> /\ \E err \in BOOLEAN : in = Answer(k, err)
    <3>1. Head(bus) \in Request /\ Head(bus) = bus[1]
      <4>1. bus \in Seq(Request) /\ bus # <<>>
        BY <2>2 DEF TypeOK
      <4>2. QED
        BY <4>1
    <3>2. PICK err \in BOOLEAN : in = Answer(k, err)
      BY <2>2
    <3> DEFINE d == [word |-> bus[1].word, old |-> bus[1].old, bad |-> err]
    <3>3. d \in Datum /\ d.word = bus[1].word /\ d.old = bus[1].old /\ d.bad = err
      BY <3>1 DEF Request, Datum
    <3>4. in = [k EXCEPT !.rvalid = TRUE, !.err = err, !.rdata = d]
      BY <3>1, <3>2 DEF Answer
    <3> HIDE DEF d
    <3>5. QED
      BY <1>8, <2>2, <3>3, <3>4
  <2>3. QED
    BY <1>3, <2>1, <2>2 DEF Answers, Possible, k
<1> DEFINE x == [in EXCEPT !.take = take, !.gnt = gnt]
<1>10. /\ x.take = take /\ x.gnt = gnt
       /\ x.req = in.req /\ x.branch = in.branch /\ x.addr = in.addr /\ x.rvalid = in.rvalid
       /\ x.err = in.err /\ x.rdata = in.rdata /\ x.enable = in.enable /\ x.inval = in.inval
       /\ x.key = in.key /\ x.tag_err = in.tag_err /\ x.data_err = in.data_err
       /\ x.way = in.way
  BY <1>9
<1> HIDE DEF x
<1>11. instr_req(x) <=> instr_req(in)
  BY <1>10, SameRequest
<1>12. Legal(x)
  BY <1>5, <1>9, <1>10, <1>11 DEF Legal
<1>13. QED
  BY <1>4, <1>12 DEF x

\* The buffer a granted lookup takes, and the buffers that stay.
Alloc(in) == IF lookup_grant_ic0(in) THEN fill_alloc_sel ELSE {}
Stay(in)  == Busy \ fill_done(in)

Requests(in, f) == f \in fill_ext_arb(in)
Receives(in, f) == f \in fill_rvd_arb(in)

LEMMA AllocOfOne ==
  ASSUME NEW in
  PROVE  /\ ~lookup_grant_ic0(in) => Alloc(in) = {}
         /\ lookup_grant_ic0(in) => \E a \in FB \ Busy : Alloc(in) = {a} /\ fill_alloc_sel = {a}
         /\ Alloc(in) \subseteq FB \ Busy
  BY AllocOne DEF Alloc, lookup_grant_ic0

\* A buffer that is taken.
LEMMA NewEffect ==
  ASSUME NEW in, Legal(in), NEW word \in Word, NEW done
  PROVE  LET c == NewBuffer(in, word, done) spec == fill_spec_req(in) IN
         /\ c.busy /\ c.older = Busy \ done /\ ~c.stale /\ ~c.hit /\ ~c.ext_done
         /\ c.cache <=> in.enable /\ ~inval_block_cache(in)
         /\ c.ext_cnt = IF spec /\ in.gnt THEN 1 ELSE 0
         /\ c.ext_hold <=> spec /\ ~in.gnt
         /\ c.rvd_cnt = 0 /\ ~c.ram_done /\ c.out_cnt = BeatOf(word) /\ c.addr = word
         /\ c.way = 0 /\ c.data = NoData /\ c.err = {}
  BY DEF NewBuffer, Free

LEMMA NewType ==
  ASSUME NEW in, Legal(in), NEW word \in Word, NEW done
  PROVE  NewBuffer(in, word, done) \in Buffer
<1> DEFINE c == in.enable /\ ~inval_block_cache(in)
           n == IF fill_spec_req(in) /\ in.gnt THEN 1 ELSE 0
           h == fill_spec_req(in) /\ ~in.gnt
           o == Busy \ done
<1>1. c \in BOOLEAN /\ n \in 0 .. BEATS /\ h \in BOOLEAN /\ o \in SUBSET FB
  BY Parameters DEF Busy
<1>2. BeatOf(word) \in 0 .. BEATS /\ NoData \in [Beat -> Datum] /\ 0 \in Way /\ 0 \in 0 .. BEATS
  BY WordParts, JunkType, Parameters DEF Beat
<1>3. NewBuffer(in, word, done) =
        [Free EXCEPT !.busy = TRUE, !.older = o, !.cache = c, !.ext_cnt = n,
                     !.ext_hold = h, !.out_cnt = BeatOf(word), !.addr = word]
  BY Zenon DEF NewBuffer
<1> HIDE DEF c, n, h, o
<1>4. NewBuffer(in, word, done) =
        [busy |-> TRUE, older |-> o, stale |-> FALSE, cache |-> c, hit |-> FALSE,
         ext_cnt |-> n, ext_hold |-> h, ext_done |-> FALSE, rvd_cnt |-> 0,
         ram_done |-> FALSE, out_cnt |-> BeatOf(word), addr |-> word, way |-> 0,
         data |-> NoData, err |-> {}]
  BY <1>3 DEF Free
<1>5. QED
  BY <1>1, <1>2, <1>4 DEF Buffer

\* A buffer that stays, field by field; `ram' and `out' are the buffers that write
\* their line and hand over a word.
StayData(in, f) ==
  IF in.inval THEN Aged(fill_data_d(in, f, Receives(in, f)))
              ELSE fill_data_d(in, f, Receives(in, f))

Stayed(in, f, ram, out) ==
  [busy     |-> TRUE,
   older    |-> fb[f].older \ fill_done(in),
   stale    |-> fb[f].stale \/ in.branch,
   cache    |-> fill_cache_d(in, f),
   hit      |-> fb[f].hit \/ fill_hit_ic1(in, f),
   ext_cnt  |-> fb[f].ext_cnt + One(Requests(in, f) /\ in.gnt),
   ext_hold |-> Requests(in, f) /\ ~in.gnt,
   ext_done |-> fill_ext_done_d(in, f),
   rvd_cnt  |-> fb[f].rvd_cnt + One(Receives(in, f)),
   ram_done |-> fb[f].ram_done \/ f \in ram,
   out_cnt  |-> fb[f].out_cnt + One(f \in out),
   addr     |-> fb[f].addr,
   way      |-> IF lookup.valid /\ lookup.fb = f THEN sel_way_ic1(in) ELSE fb[f].way,
   data     |-> StayData(in, f),
   err      |-> fb[f].err \cup IF Receives(in, f) /\ in.err THEN {fill_rvd_off(f)} ELSE {}]

LEMMA StayEffect ==
  ASSUME FillTypeOK, NEW in, NEW f \in Stay(in), NEW ram, NEW out
  PROVE  Observed(in, [Progressed(in, f, Requests(in, f), Receives(in, f), f \in ram, f \in out)
                         EXCEPT !.older = @ \ fill_done(in)])
           = Stayed(in, f, ram, out)
<1> DEFINE b == fb[f]
           done == fill_done(in)
           o  == b.older \ done
           st == b.stale \/ in.branch
           ca == fill_cache_d(in, f)
           hi == b.hit \/ fill_hit_ic1(in, f)
           ec == b.ext_cnt + One(Requests(in, f) /\ in.gnt)
           eh == Requests(in, f) /\ ~in.gnt
           ed == fill_ext_done_d(in, f)
           rc == b.rvd_cnt + One(Receives(in, f))
           rd == b.ram_done \/ f \in ram
           oc == b.out_cnt + One(f \in out)
           wa == IF lookup.valid /\ lookup.fb = f THEN sel_way_ic1(in) ELSE b.way
           da == fill_data_d(in, f, Receives(in, f))
           er == b.err \cup IF Receives(in, f) /\ in.err THEN {fill_rvd_off(f)} ELSE {}
           bu == TRUE
           p == Progressed(in, f, Requests(in, f), Receives(in, f), f \in ram, f \in out)
<1>1. b \in Buffer /\ b.busy = TRUE
  BY DEF FillTypeOK, Stay, Busy, Buffer
<1>2. p = [b EXCEPT !.stale = st, !.cache = ca, !.hit = hi, !.ext_cnt = ec, !.ext_hold = eh,
                    !.ext_done = ed, !.rvd_cnt = rc, !.ram_done = rd, !.out_cnt = oc,
                    !.way = wa, !.data = da, !.err = er]
  BY Zenon DEF Progressed
<1>3. Stayed(in, f, ram, out) =
        [busy |-> bu, older |-> o, stale |-> st, cache |-> ca, hit |-> hi, ext_cnt |-> ec,
         ext_hold |-> eh, ext_done |-> ed, rvd_cnt |-> rc, ram_done |-> rd, out_cnt |-> oc,
         addr |-> b.addr, way |-> wa, data |-> IF in.inval THEN Aged(da) ELSE da, err |-> er]
  BY Zenon DEF Stayed, StayData
<1> HIDE DEF bu, st, ca, hi, ec, eh, ed, rc, rd, oc, wa, da, er
<1> DEFINE q == [busy |-> bu, older |-> o, stale |-> st, cache |-> ca, hit |-> hi, ext_cnt |-> ec,
                 ext_hold |-> eh, ext_done |-> ed, rvd_cnt |-> rc, ram_done |-> rd, out_cnt |-> oc,
                 addr |-> b.addr, way |-> wa, data |-> da, err |-> er]
<1>4. p = [busy |-> bu, older |-> b.older, stale |-> st, cache |-> ca, hit |-> hi, ext_cnt |-> ec,
           ext_hold |-> eh, ext_done |-> ed, rvd_cnt |-> rc, ram_done |-> rd, out_cnt |-> oc,
           addr |-> b.addr, way |-> wa, data |-> da, err |-> er]
  <2> HIDE DEF b, p
  <2>1. QED
    BY <1>1, <1>2 DEF Buffer, bu
<1> HIDE DEF p, b, done
<1>5. [p EXCEPT !.older = @ \ done] = q
  <2>1. p.older \ done = o
    BY <1>4
  <2>2. [p EXCEPT !.older = @ \ done] = [p EXCEPT !.older = p.older \ done]
    OBVIOUS
  <2> HIDE DEF o
  <2>3. [p EXCEPT !.older = o] = q
    BY <1>4
  <2>4. QED
    BY <2>1, <2>2, <2>3
<1>6. Observed(in, q) = Stayed(in, f, ram, out)
  <2>1. CASE in.inval
    <3> DEFINE a == Aged(da)
    <3>1. q.data = da /\ Observed(in, q) = [q EXCEPT !.data = Aged(q.data)]
      BY <2>1 DEF Observed
    <3>2. Observed(in, q) = [q EXCEPT !.data = a]
      BY <3>1
    <3> HIDE DEF a
    <3>3. [q EXCEPT !.data = a] =
            [busy |-> bu, older |-> o, stale |-> st, cache |-> ca, hit |-> hi, ext_cnt |-> ec,
             ext_hold |-> eh, ext_done |-> ed, rvd_cnt |-> rc, ram_done |-> rd, out_cnt |-> oc,
             addr |-> b.addr, way |-> wa, data |-> a, err |-> er]
      OBVIOUS
    <3>4. QED
      BY <1>3, <2>1, <3>2, <3>3 DEF a
  <2>2. CASE ~in.inval
    BY <1>3, <2>2 DEF Observed
  <2>3. QED
    BY <2>1, <2>2
<1> HIDE DEF q
<1>7. QED
  BY <1>5, <1>6 DEF p, done

\* The buffers after a cycle.
LEMMA FillEffect ==
  ASSUME FillTypeOK, NEW in, Cycle(in)
  PROVE  LET ram == fill_ram_arb(fill_grant_ic0(in))
             out == IF in.take THEN fill_out_arb(in) ELSE {}
         IN  /\ DOMAIN fb' = FB
             /\ \A f \in Alloc(in) : fb'[f] = NewBuffer(in, lookup_addr_ic0(in), fill_done(in))
             /\ \A f \in Stay(in) : fb'[f] = Stayed(in, f, ram, out)
             /\ \A f \in FB : f \in Alloc(in) \/ f \in Stay(in) \/ fb'[f] = Free
<1> DEFINE ram == fill_ram_arb(fill_grant_ic0(in))
           out == IF in.take THEN fill_out_arb(in) ELSE {}
<1>1. fb' = [f \in FB |->
               IF f \in Alloc(in) THEN NewBuffer(in, lookup_addr_ic0(in), fill_done(in))
               ELSE IF f \notin Stay(in) THEN Free
               ELSE Observed(in, [Progressed(in, f, Requests(in, f), Receives(in, f),
                                             f \in ram, f \in out)
                                    EXCEPT !.older = @ \ fill_done(in)])]
  BY Zenon DEF Cycle, FillCycle, Alloc, Stay, Requests, Receives
<1> HIDE DEF ram, out
<1>2. \A f \in Stay(in) : f \in FB /\ f \notin Alloc(in)
  BY AllocOfOne DEF Stay, Busy
<1>3. \A f \in Alloc(in) : f \in FB
  BY AllocOfOne
<1>4. \A f \in Stay(in) : fb'[f] = Stayed(in, f, ram, out)
  BY <1>1, <1>2, StayEffect
<1>5. QED
  BY <1>1, <1>2, <1>3, <1>4 DEF ram, out

\* What a cycle leaves in a buffer that stays.
LEMMA StayFields ==
  ASSUME NEW in, Legal(in), NEW f, NEW ram, NEW out
  PROVE  LET b == fb[f] c == Stayed(in, f, ram, out) IN
         /\ c.busy /\ c.older = b.older \ fill_done(in) /\ c.addr = b.addr
         /\ c.stale <=> b.stale \/ in.branch
         /\ c.cache <=> b.cache /\ in.enable /\ ~in.inval
         /\ c.hit <=> b.hit \/ fill_hit_ic1(in, f)
         /\ c.ext_cnt = b.ext_cnt + One(Requests(in, f) /\ in.gnt)
         /\ c.ext_hold <=> Requests(in, f) /\ ~in.gnt
         /\ c.ext_done <=> fill_ext_done_d(in, f)
         /\ c.rvd_cnt = b.rvd_cnt + One(Receives(in, f))
         /\ c.ram_done <=> b.ram_done \/ f \in ram
         /\ c.out_cnt = b.out_cnt + One(f \in out)
         /\ c.way = IF lookup.valid /\ lookup.fb = f THEN sel_way_ic1(in) ELSE b.way
         /\ c.data = StayData(in, f)
         /\ c.err = b.err \cup IF Receives(in, f) /\ in.err THEN {fill_rvd_off(f)} ELSE {}
  BY DEF Stayed, fill_cache_d

-----------------------------------------------------------------------------
(* Data. *)

LEMMA AgedIs ==
  ASSUME NEW d \in [Beat -> Datum]
  PROVE  /\ Aged(d) \in [Beat -> Datum]
         /\ \A b \in Beat : Aged(d)[b].word = d[b].word /\ (Aged(d)[b].bad <=> d[b].bad)
<1>1. ASSUME NEW b \in Beat
      PROVE  LET e == [d[b] EXCEPT !.old = TRUE]
             IN  e \in Datum /\ e.word = d[b].word /\ e.bad = d[b].bad
  <2> DEFINE o == TRUE
  <2>1. d[b] \in Datum /\ o \in BOOLEAN
    OBVIOUS
  <2> HIDE DEF o
  <2>2. LET e == [d[b] EXCEPT !.old = o]
        IN  e \in Datum /\ e.word = d[b].word /\ e.bad = d[b].bad
    BY <2>1 DEF Datum
  <2>3. QED
    BY <2>2 DEF o
<1> DEFINE e(b) == [d[b] EXCEPT !.old = TRUE]
<1>2. Aged(d) = [b \in Beat |-> e(b)]
  BY DEF Aged
<1>3. \A b \in Beat : e(b) \in Datum /\ e(b).word = d[b].word /\ e(b).bad = d[b].bad
  BY <1>1
<1> HIDE DEF e
<1>4. QED
  BY <1>2, <1>3

LEMMA MergedType ==
  ASSUME NEW ds \in SUBSET [Beat -> Datum]
  PROVE  Merged(ds) \in [Beat -> Datum]
<1>1. CASE Cardinality(ds) = 1
  <2>1. ds # {}
    BY <1>1, FS_EmptySet
  <2>2. QED
    BY <1>1, <2>1 DEF Merged
<1>2. CASE Cardinality(ds) # 1
  BY <1>2, JunkType DEF Merged
<1>3. QED
  BY <1>1, <1>2

LEMMA DataTypes ==
  ASSUME TypeOK, NEW in, Legal(in)
  PROVE  /\ hit_data_ic1 \in [Beat -> Datum] /\ line_data(in) \in [Beat -> Datum]
         /\ \A f \in Busy : /\ fill_data_d(in, f, Receives(in, f)) \in [Beat -> Datum]
                            /\ StayData(in, f) \in [Beat -> Datum]
                            /\ fill_rvd_off(f) \in Beat
<1>1. \A f \in FB : fb[f].data \in [Beat -> Datum] /\ fb[f].addr \in Word /\ fb[f].rvd_cnt \in Nat
  BY Parameters DEF TypeOK, FillTypeOK, Buffer
<1>2. hit_data_ic1 \in [Beat -> Datum]
  <2>1. {lookup.data[w] : w \in tag_match_ic1} \in SUBSET [Beat -> Datum]
    BY DEF TypeOK, RamsTypeOK, tag_match_ic1
  <2>2. QED
    BY <2>1, MergedType DEF hit_data_ic1
<1>3. line_data(in) \in [Beat -> Datum]
  <2>1. {fb[f].data : f \in fill_data_reg} \in SUBSET [Beat -> Datum]
    BY <1>1 DEF fill_data_reg, Live, Busy
  <2>2. QED
    BY <1>2, <2>1, MergedType DEF line_data
<1>4. ASSUME NEW f \in Busy
      PROVE  /\ fill_data_d(in, f, Receives(in, f)) \in [Beat -> Datum]
             /\ StayData(in, f) \in [Beat -> Datum]
             /\ fill_rvd_off(f) \in Beat
  <2>1. fb[f].data \in [Beat -> Datum] /\ fb[f].addr \in Word /\ fb[f].rvd_cnt \in Nat
    BY <1>1 DEF Busy
  <2>2. fill_rvd_off(f) \in Beat
    BY <2>1, WordParts, Rotate DEF fill_rvd_off, fill_rvd_beat
  <2>3. fill_data_d(in, f, Receives(in, f)) \in [Beat -> Datum]
    BY <1>2, <2>1, <2>2 DEF fill_data_d, Legal
  <2>4. QED
    BY <2>2, <2>3, AgedIs DEF StayData
<1>5. QED
  BY <1>2, <1>3, <1>4

-----------------------------------------------------------------------------
(* Who asks, who is answered and who is done. *)

LEMMA BufferType ==
  ASSUME TypeOK, NEW f \in FB
  PROVE  /\ fb[f].busy \in BOOLEAN /\ fb[f].older \in SUBSET FB /\ fb[f].stale \in BOOLEAN
         /\ fb[f].cache \in BOOLEAN /\ fb[f].hit \in BOOLEAN /\ fb[f].ext_hold \in BOOLEAN
         /\ fb[f].ext_done \in BOOLEAN /\ fb[f].ram_done \in BOOLEAN
         /\ fb[f].ext_cnt \in Nat /\ fb[f].ext_cnt <= BEATS
         /\ fb[f].rvd_cnt \in Nat /\ fb[f].rvd_cnt <= BEATS
         /\ fb[f].out_cnt \in Nat /\ fb[f].out_cnt <= BEATS
         /\ fb[f].addr \in Word /\ fb[f].way \in Way /\ fb[f].data \in [Beat -> Datum]
         /\ fb[f].err \in SUBSET Beat
         /\ LineOf(fb[f].addr) \in Line /\ BeatOf(fb[f].addr) \in Beat /\ BeatOf(fb[f].addr) \in Nat
<1>1. fb[f] \in Buffer
  BY DEF TypeOK, FillTypeOK
<1>2. fb[f].addr \in Word
  BY <1>1 DEF Buffer
<1>3. LineOf(fb[f].addr) \in Line /\ BeatOf(fb[f].addr) \in Beat
  BY <1>2, WordParts
<1>4. QED
  BY <1>1, <1>3, Parameters DEF Buffer, Beat

\* What a buffer has counted as owed is owed; a buffer that is not busy is owed nothing.
LEMMA Owes ==
  ASSUME BuffersInv, NEW f \in FB
  PROVE  /\ Cardinality(Of(bus, f)) = fb[f].ext_cnt - fb[f].rvd_cnt
         /\ fb[f].rvd_cnt <= fb[f].ext_cnt
         /\ Of(bus, f) = {} <=> fb[f].rvd_cnt = fb[f].ext_cnt
         /\ f \notin Busy => Of(bus, f) = {}
<1>1. Cardinality(Of(bus, f)) = fb[f].ext_cnt - fb[f].rvd_cnt
  BY OwedIsOf DEF BuffersInv, CountsMatchBus
<1>2. /\ Cardinality(Of(bus, f)) \in Nat /\ fb[f].ext_cnt \in Nat /\ fb[f].rvd_cnt \in Nat
      /\ Cardinality(Of(bus, f)) = 0 <=> Of(bus, f) = {}
  BY OfFinite, BufferType DEF BuffersInv, TypeOK
<1>3. f \notin Busy => Of(bus, f) = {}
  BY DEF BuffersInv, BusInOrder, Of
<1>4. QED
  BY <1>1, <1>2, <1>3

\* A buffer that is finished with the bus remains so.
LEMMA DoneStays ==
  ASSUME BuffersInv, NEW f \in Busy, fb[f].ext_done, NEW in
  PROVE  fill_ext_done_d(in, f) /\ f \notin fill_ext_req(in)
<1>1. fill_ext_done_d(in, f)
  BY DEF BuffersInv, InTurn, Finished, fill_ext_done_d
<1>2. QED
  BY <1>1 DEF fill_ext_req

LEMMA FillDone ==
  ASSUME BuffersInv, NEW in, NEW f \in fill_done(in)
  PROVE  /\ f \in Busy /\ fb[f].ext_done /\ fb[f].rvd_cnt = fb[f].ext_cnt
         /\ Of(bus, f) = {} /\ f \notin fill_ext_req(in) /\ f \notin fill_rvd_exp
<1>1. f \in Busy /\ fb[f].ext_done /\ fb[f].rvd_cnt = fb[f].ext_cnt /\ fill_rvd_done(f)
  BY DEF fill_done, fill_rvd_done
<1>2. QED
  BY <1>1, Owes, DoneStays DEF fill_rvd_exp, Busy

\* The next answer goes to the buffer that asked for it.
LEMMA AnswerOwner ==
  ASSUME BuffersInv, bus # <<>>
  PROVE  /\ bus[1].fb \in Busy /\ bus[1].fb \in fill_rvd_exp
         /\ Oldest(fill_rvd_exp) = {bus[1].fb}
<1> DEFINE h == bus[1].fb
<1>1. bus \in Seq(Request) /\ 1 \in DOMAIN bus
  BY DEF BuffersInv, TypeOK
<1>2. h \in Busy /\ h \in FB /\ 1 \in Of(bus, h)
  BY <1>1 DEF BuffersInv, BusInOrder, Busy, Of
<1>3. fb[h].rvd_cnt # fb[h].ext_cnt /\ fb[h].ext_cnt > 0
  BY <1>2, Owes, BufferType DEF BuffersInv
<1>4. h \in fill_rvd_exp
  BY <1>2, <1>3 DEF fill_rvd_exp, fill_rvd_done
<1>5. ASSUME NEW g \in fb[h].older, g \in fill_rvd_exp PROVE FALSE
  <2>1. g \in Busy /\ g # h /\ h \notin fb[g].older
    BY <1>2, <1>5 DEF BuffersInv, AgeIsOrder
  <2>2. fb[g].ext_done /\ ~fb[g].ext_hold
    BY <1>2, <1>3, <2>1 DEF BuffersInv, InTurn
  <2>3. Of(bus, g) # {}
    BY <1>5, <2>1, <2>2, Owes DEF fill_rvd_exp, fill_rvd_done, Busy
  <2>4. PICK j \in DOMAIN bus : bus[j].fb = g
    BY <2>3 DEF Of
  <2>5. j # 1 /\ 1 \in 1 .. j - 1
    BY <1>1, <2>1, <2>4
  <2>6. h = g \/ h \in fb[g].older
    BY <2>4, <2>5 DEF BuffersInv, BusInOrder
  <2>7. QED
    BY <2>1, <2>6
<1>6. fill_rvd_exp \in SUBSET Busy
  BY DEF fill_rvd_exp
<1>7. QED
  BY <1>2, <1>4, <1>5, <1>6, OldestIs DEF BuffersInv

LEMMA Receivers ==
  ASSUME BuffersInv, NEW in, Legal(in)
  PROVE  \A f : Receives(in, f) <=> in.rvalid /\ f = bus[1].fb
  BY AnswerOwner DEF Receives, fill_rvd_arb, Legal

\* One buffer requests at a time.
LEMMA Requester ==
  ASSUME BuffersInv, NEW in, fill_ext_req(in) # {}
  PROVE  /\ instr_fb(in) \in Busy /\ instr_fb(in) \in fill_ext_req(in)
         /\ instr_fb(in) \notin fill_done(in)
         /\ instr_addr(in) = ext_word(instr_fb(in))
         /\ instr_req(in)
         /\ \A f : Requests(in, f) <=> f = instr_fb(in)
         /\ \A g \in fb[instr_fb(in)].older : g \notin fill_ext_req(in)
<1>1. fill_ext_req(in) \in SUBSET Busy
  BY DEF fill_ext_req
<1>2. PICK f \in fill_ext_req(in) : fill_ext_arb(in) = {f}
  BY <1>1, OldestOne DEF fill_ext_arb, BuffersInv
<1>3. instr_fb(in) = f
  BY <1>2 DEF instr_fb
<1>4. f \notin fill_done(in)
  BY FillDone
<1>5. \A g \in fb[f].older : g \notin fill_ext_req(in)
  BY <1>2 DEF fill_ext_arb, Oldest
<1>6. QED
  BY <1>1, <1>2, <1>3, <1>4, <1>5 DEF instr_addr, instr_req, Requests

\* A buffer that waits for a grant is the one that requests, whatever the inputs.
LEMMA Holder ==
  ASSUME BuffersInv, NEW in, NEW f \in Busy, fb[f].ext_hold
  PROVE  fill_ext_req(in) # {} /\ instr_fb(in) = f
<1>1. f \in fill_ext_req(in) /\ fill_ext_req(in) \in SUBSET Busy
  BY DEF fill_ext_req, fill_ext_done_d
<1>2. \A g \in fb[f].older : g \notin fill_ext_req(in)
  <2> SUFFICES ASSUME NEW g \in fb[f].older PROVE g \notin fill_ext_req(in)
    OBVIOUS
  <2>1. g \in Busy /\ fb[g].ext_done
    BY DEF BuffersInv, AgeIsOrder, InTurn
  <2>2. QED
    BY <2>1, DoneStays
<1>3. fill_ext_arb(in) = {f}
  BY <1>1, <1>2, OldestIs DEF fill_ext_arb, BuffersInv
<1>4. QED
  BY <1>1, <1>3, Requester DEF Requests

\* So the next answer finds its owner, and a request is held until its grant.
LEMMA BuffersTracked ==
  ASSUME BuffersInv
  PROVE  FillsTracked
<1>1. AnswerFindsOwner
  BY AnswerOwner DEF AnswerFindsOwner, busy_o, BuffersInv, TypeOK
<1>2. HeldRequestStable
  BY Holder, Requester DEF HeldRequestStable, Held, BuffersInv
<1>3. QED
  BY <1>1, <1>2 DEF FillsTracked, BuffersInv

-----------------------------------------------------------------------------
(* The bus. *)

Granted(in) == instr_req(in) /\ in.gnt

\* The requests at the bus before an answer takes the first away.
Made(in)  == [word |-> instr_addr(in), fb |-> instr_fb(in), old |-> FALSE]
Kept(in)  == [i \in DOMAIN bus |-> [bus[i] EXCEPT !.old = @ \/ in.inval]]
Asked(in) == IF Granted(in) THEN Append(Kept(in), Made(in)) ELSE Kept(in)

LEMMA LookupAddr ==
  ASSUME TypeOK, NEW in, Legal(in)
  PROVE  lookup_addr_ic0(in) \in Word
  BY DEF TypeOK, Legal, lookup_addr_ic0

\* A request is made by a busy buffer or by the one just taken.
LEMMA RequestOf ==
  ASSUME BuffersInv, NEW in, Legal(in), instr_req(in)
  PROVE  /\ instr_fb(in) \in FB /\ instr_addr(in) \in Word
         /\ \/ fill_ext_req(in) # {} /\ instr_fb(in) \in Stay(in)
            \/ /\ fill_ext_req(in) = {} /\ fill_spec_req(in)
               /\ Alloc(in) = {instr_fb(in)} /\ instr_addr(in) = lookup_addr_ic0(in)
<1>1. CASE fill_ext_req(in) # {}
  <2>1. instr_fb(in) \in Stay(in) /\ instr_fb(in) \in FB
    BY <1>1, Requester DEF Stay, Busy
  <2>2. ext_word(instr_fb(in)) \in Word
    BY <2>1, BufferType, Rotate, WordAtType DEF BuffersInv, ext_word, fill_ext_beat
  <2>3. QED
    BY <1>1, <2>1, <2>2, Requester
<1>2. CASE fill_ext_req(in) = {}
  <2>1. lookup_grant_ic0(in) /\ fill_spec_req(in)
    BY <1>2 DEF instr_req, fill_spec_req
  <2>2. PICK a \in FB \ Busy : Alloc(in) = {a} /\ fill_alloc_sel = {a}
    BY <2>1, AllocOfOne
  <2>3. instr_fb(in) = a /\ instr_addr(in) = lookup_addr_ic0(in)
    BY <1>2, <2>2 DEF instr_fb, instr_addr
  <2>4. QED
    BY <1>2, <2>1, <2>2, <2>3, LookupAddr DEF BuffersInv
<1>3. QED
  BY <1>1, <1>2

LEMMA KeptIs ==
  ASSUME TypeOK, NEW in, Legal(in)
  PROVE  /\ Kept(in) \in Seq(Request) /\ Len(Kept(in)) = Len(bus)
         /\ \A i \in 1 .. Len(bus) :
              /\ Kept(in)[i].word = bus[i].word /\ Kept(in)[i].fb = bus[i].fb
              /\ Kept(in)[i].old <=> bus[i].old \/ in.inval
         /\ \A f : /\ Of(Kept(in), f) = Of(bus, f)
                   /\ \A i : Before(Kept(in), f, i) = Before(bus, f, i)
<1> DEFINE e(i) == [bus[i] EXCEPT !.old = @ \/ in.inval]
           n == Len(bus)
<1>1. bus \in Seq(Request) /\ n \in Nat /\ DOMAIN bus = 1 .. n
  BY DEF TypeOK
<1>2. ASSUME NEW i \in 1 .. n
      PROVE  e(i) \in Request /\ e(i).word = bus[i].word /\ e(i).fb = bus[i].fb
             /\ (e(i).old <=> bus[i].old \/ in.inval)
  <2> DEFINE o == bus[i].old \/ in.inval
  <2>1. bus[i] \in Request /\ o \in BOOLEAN /\ e(i) = [bus[i] EXCEPT !.old = o]
    BY <1>1
  <2> HIDE DEF o
  <2>2. LET x == [bus[i] EXCEPT !.old = o]
        IN  x \in Request /\ x.word = bus[i].word /\ x.fb = bus[i].fb /\ x.old = o
    BY <2>1 DEF Request
  <2>3. e(i) \in Request /\ e(i).word = bus[i].word /\ e(i).fb = bus[i].fb /\ e(i).old = o
    BY <2>1, <2>2
  <2>4. QED
    BY <2>3 DEF o
<1>3. Kept(in) = [i \in 1 .. n |-> e(i)]
  BY <1>1 DEF Kept
<1> HIDE DEF e
<1>4. /\ Kept(in) \in Seq(Request) /\ Len(Kept(in)) = n /\ DOMAIN Kept(in) = 1 .. n
      /\ \A i \in 1 .. n : Kept(in)[i] = e(i)
  BY <1>1, <1>2, <1>3
<1>5. \A f : Of(Kept(in), f) = Of(bus, f)
  BY <1>1, <1>2, <1>4 DEF Of
<1>6. QED
  BY <1>1, <1>2, <1>4, <1>5 DEF Before

\* A granted request comes last.
LEMMA AskedIs ==
  ASSUME BuffersInv, NEW in, Legal(in)
  PROVE  LET A == Asked(in) n == Len(bus) IN
         /\ A \in Seq(Request) /\ n \in Nat /\ Len(A) = n + One(Granted(in))
         /\ \A i \in 1 .. n : /\ A[i].word = bus[i].word /\ A[i].fb = bus[i].fb
                              /\ A[i].old <=> bus[i].old \/ in.inval
         /\ Granted(in) => /\ A[n + 1].word = instr_addr(in) /\ A[n + 1].fb = instr_fb(in)
                           /\ ~A[n + 1].old
         /\ \A f : /\ Cardinality(Of(A, f)) =
                        Cardinality(Of(bus, f)) + One(Granted(in) /\ instr_fb(in) = f)
                   /\ \A i \in 1 .. n : Before(A, f, i) = Before(bus, f, i)
                   /\ Granted(in) => Before(A, f, n + 1) = Of(bus, f)
<1> DEFINE A == Asked(in)
           n == Len(bus)
           K == Kept(in)
           r == Made(in)
<1>1. bus \in Seq(Request) /\ n \in Nat /\ TypeOK
  BY DEF BuffersInv, TypeOK
<1>2. /\ K \in Seq(Request) /\ Len(K) = n
      /\ \A i \in 1 .. n : /\ K[i].word = bus[i].word /\ K[i].fb = bus[i].fb
                           /\ K[i].old <=> bus[i].old \/ in.inval
      /\ \A f : Of(K, f) = Of(bus, f) /\ \A i : Before(K, f, i) = Before(bus, f, i)
  BY <1>1, KeptIs
<1>3. \A f : Cardinality(Of(bus, f)) \in Nat
  BY <1>1, OfFinite
<1>4. CASE Granted(in)
  <2>1. r \in Request /\ r.word = instr_addr(in) /\ r.fb = instr_fb(in) /\ ~r.old
    BY <1>4, RequestOf DEF Granted, Made, Request
  <2>2. A = Append(K, r)
    BY <1>4 DEF Asked
  <2> HIDE DEF A, K, r
  <2>3. /\ A \in Seq(Request) /\ Len(A) = n + 1 /\ A[n + 1] = r
        /\ \A i \in 1 .. n : A[i] = K[i]
    BY <1>1, <1>2, <2>1, <2>2
  <2>4. ASSUME NEW f
        PROVE  /\ Cardinality(Of(A, f)) =
                    Cardinality(Of(bus, f)) + One(Granted(in) /\ instr_fb(in) = f)
               /\ \A i \in 1 .. n : Before(A, f, i) = Before(bus, f, i)
               /\ Before(A, f, n + 1) = Of(bus, f)
    <3>1. /\ r.fb = f  => Cardinality(Of(A, f)) = Cardinality(Of(K, f)) + 1
          /\ r.fb # f => Of(A, f) = Of(K, f)
          /\ \A i \in 1 .. Len(K) : Before(A, f, i) = Before(K, f, i)
          /\ Before(A, f, Len(K) + 1) = Of(K, f)
      BY <1>2, <2>1, <2>2, OfAppend
    <3>2. QED
      BY <1>2, <1>3, <1>4, <2>1, <3>1 DEF One
  <2>5. QED
    BY <1>1, <1>2, <1>4, <2>1, <2>3, <2>4 DEF One, A, K, r
<1>5. CASE ~Granted(in)
  <2>1. A = K
    BY <1>5 DEF Asked
  <2> HIDE DEF A, K, r
  <2>2. QED
    BY <1>1, <1>2, <1>3, <1>5, <2>1 DEF One, A, K, r
<1>6. QED
  BY <1>4, <1>5

\* An answer takes the first away.
LEMMA BusEffect ==
  ASSUME BuffersInv, NEW in, Legal(in), Cycle(in)
  PROVE  LET A == Asked(in) s == One(in.rvalid) IN
         /\ s \in {0, 1} /\ bus' \in Seq(Request) /\ Len(bus') = Len(A) - s
         /\ \A i \in DOMAIN bus' : i + s \in DOMAIN A /\ bus'[i] = A[i + s]
         /\ \A f : LET k == One(in.rvalid /\ bus[1].fb = f) IN
              /\ Cardinality(Of(bus', f)) = Cardinality(Of(A, f)) - k
              /\ \A i \in DOMAIN bus' :
                   /\ i \in Of(bus', f) <=> i + s \in Of(A, f)
                   /\ Cardinality(Before(bus', f, i)) = Cardinality(Before(A, f, i + s)) - k
<1> DEFINE A == Asked(in)
           s == One(in.rvalid)
<1>1. bus' = IF in.rvalid THEN Tail(A) ELSE A
  BY Zenon DEF Cycle, Bus, Asked, Kept, Made, Granted
<1>2. /\ A \in Seq(Request) /\ Len(bus) \in Nat /\ Len(A) = Len(bus) + One(Granted(in))
      /\ \A i \in 1 .. Len(bus) : A[i].fb = bus[i].fb
  BY AskedIs
<1>3. bus \in Seq(Request) /\ (in.rvalid => bus # <<>>)
  BY DEF BuffersInv, TypeOK, Legal
<1> HIDE DEF A
<1>4. CASE in.rvalid
  <2>1. s = 1 /\ A # <<>> /\ A[1].fb = bus[1].fb
    BY <1>2, <1>3, <1>4 DEF One
  <2>2. /\ bus' \in Seq(Request) /\ Len(bus') = Len(A) - 1
        /\ \A i \in DOMAIN bus' : i + 1 \in DOMAIN A /\ bus'[i] = A[i + 1]
    BY <1>1, <1>2, <1>4, <2>1
  <2>3. ASSUME NEW f
        PROVE  LET k == One(in.rvalid /\ bus[1].fb = f) IN
               /\ Cardinality(Of(bus', f)) = Cardinality(Of(A, f)) - k
               /\ \A i \in DOMAIN bus' :
                    /\ i \in Of(bus', f) <=> i + 1 \in Of(A, f)
                    /\ Cardinality(Before(bus', f, i)) = Cardinality(Before(A, f, i + 1)) - k
    <3> DEFINE t == Tail(A)
    <3>1. LET k == IF A[1].fb = f THEN 1 ELSE 0 IN
          /\ Cardinality(Of(t, f)) = Cardinality(Of(A, f)) - k
          /\ \A i \in DOMAIN t :
               /\ i \in Of(t, f) <=> i + 1 \in Of(A, f)
               /\ Cardinality(Before(t, f, i)) = Cardinality(Before(A, f, i + 1)) - k
      BY <1>2, <2>1, OfTail
    <3>2. bus' = t
      BY <1>1, <1>4
    <3> HIDE DEF t
    <3>3. QED
      BY <1>4, <2>1, <3>1, <3>2 DEF One
  <2>4. QED
    BY <2>1, <2>2, <2>3 DEF A
<1>5. CASE ~in.rvalid
  <2>1. s = 0 /\ bus' = A
    BY <1>1, <1>5 DEF One
  <2>2. \A f : /\ Cardinality(Of(A, f)) \in Nat
               /\ \A i : Cardinality(Before(A, f, i)) \in Nat
    BY <1>2, OfFinite
  <2>3. \A f : One(in.rvalid /\ bus[1].fb = f) = 0
    BY <1>5 DEF One
  <2>4. \A i \in DOMAIN A : i + s = i
    BY <1>2, <2>1
  <2>5. ASSUME NEW f
        PROVE  LET k == One(in.rvalid /\ bus[1].fb = f) IN
               /\ Cardinality(Of(bus', f)) = Cardinality(Of(A, f)) - k
               /\ \A i \in DOMAIN bus' :
                    /\ i \in Of(bus', f) <=> i + s \in Of(A, f)
                    /\ Cardinality(Before(bus', f, i)) = Cardinality(Before(A, f, i + s)) - k
    <3> DEFINE k == One(in.rvalid /\ bus[1].fb = f)
    <3>1. k = 0
      BY <2>3
    <3> HIDE DEF k, s
    <3>2. Cardinality(Of(bus', f)) = Cardinality(Of(A, f)) - k
      BY <2>1, <2>2, <3>1
    <3>3. ASSUME NEW i \in DOMAIN bus'
          PROVE  /\ i \in Of(bus', f) <=> i + s \in Of(A, f)
                 /\ Cardinality(Before(bus', f, i)) = Cardinality(Before(A, f, i + s)) - k
      <4>1. i + s = i /\ Cardinality(Before(A, f, i)) \in Nat
        BY <2>1, <2>2, <2>4
      <4>2. QED
        BY <2>1, <3>1, <4>1
    <3>4. QED
      BY <3>2, <3>3 DEF k
  <2>6. Len(bus') = Len(A) - s /\ \A i \in DOMAIN bus' : i + s \in DOMAIN A /\ bus'[i] = A[i + s]
    BY <1>2, <2>1, <2>4
  <2>7. QED
    BY <1>2, <2>1, <2>5, <2>6 DEF A
<1>6. QED
  BY <1>4, <1>5

-----------------------------------------------------------------------------
(* The buffers after a cycle. *)

LEMMA StayAfter ==
  ASSUME BuffersInv, NEW in, Legal(in), Cycle(in), NEW f \in Stay(in)
  PROVE  LET b == fb[f] c == fb'[f]
             ram == fill_ram_arb(fill_grant_ic0(in))
             out == IF in.take THEN fill_out_arb(in) ELSE {}
         IN  /\ c.busy /\ c.older = b.older \ fill_done(in) /\ c.addr = b.addr
             /\ c.stale <=> b.stale \/ in.branch
             /\ c.cache <=> b.cache /\ in.enable /\ ~in.inval
             /\ c.hit <=> b.hit \/ fill_hit_ic1(in, f)
             /\ c.ext_cnt = b.ext_cnt + One(Requests(in, f) /\ in.gnt)
             /\ c.ext_hold <=> Requests(in, f) /\ ~in.gnt
             /\ c.ext_done <=> fill_ext_done_d(in, f)
             /\ c.rvd_cnt = b.rvd_cnt + One(Receives(in, f))
             /\ c.ram_done <=> b.ram_done \/ f \in ram
             /\ c.out_cnt = b.out_cnt + One(f \in out)
             /\ c.way = IF lookup.valid /\ lookup.fb = f THEN sel_way_ic1(in) ELSE b.way
             /\ c.data = StayData(in, f)
             /\ c.err = b.err \cup IF Receives(in, f) /\ in.err THEN {fill_rvd_off(f)} ELSE {}
<1> DEFINE ram == fill_ram_arb(fill_grant_ic0(in))
           out == IF in.take THEN fill_out_arb(in) ELSE {}
<1>1. fb'[f] = Stayed(in, f, ram, out)
  BY FillEffect DEF BuffersInv, TypeOK
<1> HIDE DEF ram, out
<1>2. QED
  BY <1>1, StayFields DEF ram, out

LEMMA AllocAfter ==
  ASSUME BuffersInv, NEW in, Legal(in), Cycle(in), NEW f \in Alloc(in)
  PROVE  LET c == fb'[f] spec == fill_spec_req(in) IN
         /\ c.busy /\ c.older = Stay(in) /\ ~c.stale /\ ~c.hit /\ ~c.ext_done
         /\ c.cache <=> in.enable /\ ~inval_block_cache(in)
         /\ c.ext_cnt = IF spec /\ in.gnt THEN 1 ELSE 0
         /\ c.ext_hold <=> spec /\ ~in.gnt
         /\ c.rvd_cnt = 0 /\ ~c.ram_done /\ c.out_cnt = BeatOf(lookup_addr_ic0(in))
         /\ c.addr = lookup_addr_ic0(in)
         /\ c.way = 0 /\ c.data = NoData /\ c.err = {}
<1>1. fb'[f] = NewBuffer(in, lookup_addr_ic0(in), fill_done(in))
  BY FillEffect DEF BuffersInv, TypeOK
<1>2. lookup_addr_ic0(in) \in Word
  BY LookupAddr DEF BuffersInv
<1>3. QED
  BY <1>1, <1>2, NewEffect DEF Stay

LEMMA FreeAfter ==
  ASSUME BuffersInv, NEW in, Legal(in), Cycle(in), NEW f \in FB,
         f \notin Alloc(in), f \notin Stay(in)
  PROVE  fb'[f] = Free /\ Of(bus, f) = {} /\ (in.rvalid => bus[1].fb # f)
<1>1. fb'[f] = Free
  BY FillEffect DEF BuffersInv, TypeOK
<1>2. Of(bus, f) = {}
  BY FillDone, Owes DEF Stay
<1>3. in.rvalid => bus[1].fb # f
  BY <1>2, AnswerOwner, FillDone DEF Legal, Stay
<1>4. QED
  BY <1>1, <1>2, <1>3

LEMMA BusyAfter ==
  ASSUME BuffersInv, NEW in, Legal(in), Cycle(in)
  PROVE  /\ Busy' = Stay(in) \cup Alloc(in)
         /\ Stay(in) \subseteq Busy /\ Busy \subseteq FB /\ Alloc(in) \cap Busy = {}
         /\ Alloc(in) \subseteq FB
         /\ \A f, g \in Alloc(in) : f = g
<1>1. /\ Stay(in) \subseteq Busy /\ Busy \subseteq FB /\ Alloc(in) \cap Busy = {}
      /\ Alloc(in) \subseteq FB /\ \A f, g \in Alloc(in) : f = g
  BY AllocOfOne DEF Stay, Busy
<1>2. ASSUME NEW f \in FB PROVE fb'[f].busy <=> f \in Stay(in) \cup Alloc(in)
  <2>1. CASE f \in Stay(in)
    BY <2>1, StayAfter
  <2>2. CASE f \in Alloc(in)
    BY <2>2, AllocAfter
  <2>3. CASE f \notin Stay(in) /\ f \notin Alloc(in)
    BY <2>3, FreeAfter DEF Free
  <2>4. QED
    BY <2>1, <2>2, <2>3
<1>3. QED
  BY <1>1, <1>2 DEF Busy

\* Where a buffer gets a request, and an answer.
LEMMA WhoseTurn ==
  ASSUME BuffersInv, NEW in, Legal(in), NEW f \in FB
  PROVE  /\ f \in Stay(in) =>
              /\ Requests(in, f) /\ in.gnt <=> Granted(in) /\ instr_fb(in) = f
              /\ Receives(in, f) <=> in.rvalid /\ bus[1].fb = f
         /\ f \in Alloc(in) =>
              /\ fill_spec_req(in) /\ in.gnt <=> Granted(in) /\ instr_fb(in) = f
              /\ in.rvalid => bus[1].fb # f
         /\ f \notin Stay(in) /\ f \notin Alloc(in) => ~(Granted(in) /\ instr_fb(in) = f)
<1>1. in.gnt => instr_req(in)
  BY DEF Legal
<1>2. Alloc(in) \subseteq FB \ Busy /\ Stay(in) \subseteq Busy
  BY AllocOfOne DEF Stay
<1>3. CASE f \in Stay(in)
  <2>1. Requests(in, f) => fill_ext_req(in) # {}
    BY DEF Requests, fill_ext_arb, Oldest
  <2>2. QED
    BY <1>1, <1>2, <1>3, <2>1, Requester, RequestOf, Receivers DEF Granted
<1>4. CASE f \in Alloc(in)
  <2>1. lookup_grant_ic0(in) /\ Alloc(in) = {f}
    BY <1>4, AllocOfOne
  <2>2. fill_spec_req(in) => instr_req(in)
    BY <2>1 DEF fill_spec_req, instr_req
  <2>3. in.rvalid => bus[1].fb # f
    BY <1>2, <1>4, AnswerOwner DEF Legal
  <2>4. fill_spec_req(in) => fill_ext_req(in) = {}
    BY DEF fill_spec_req
  <2>5. QED
    BY <1>1, <1>2, <1>4, <2>1, <2>2, <2>3, <2>4, RequestOf DEF Granted
<1>5. CASE f \notin Stay(in) /\ f \notin Alloc(in)
  BY <1>5, RequestOf DEF Granted
<1>6. QED
  BY <1>3, <1>4, <1>5

-----------------------------------------------------------------------------
(* One clock edge keeps the agreement of buffers and bus. *)

LEMMA CountStep ==
  ASSUME BuffersInv, NEW in, Legal(in), Cycle(in), NEW f \in FB
  PROVE  Cardinality(Of(bus', f)) = fb'[f].ext_cnt - fb'[f].rvd_cnt
<1> DEFINE g == One(Granted(in) /\ instr_fb(in) = f)
           k == One(in.rvalid /\ bus[1].fb = f)
           c == Cardinality(Of(bus, f))
<1>1. Cardinality(Of(bus', f)) = c + g - k
  <2>1. c \in Nat /\ g \in {0, 1} /\ k \in {0, 1}
    BY OfFinite DEF BuffersInv, TypeOK, One
  <2>2. Cardinality(Of(Asked(in), f)) = c + g
    BY AskedIs
  <2>3. Cardinality(Of(bus', f)) = Cardinality(Of(Asked(in), f)) - k
    BY BusEffect
  <2>4. QED
    BY <2>1, <2>2, <2>3
<1>2. /\ c = fb[f].ext_cnt - fb[f].rvd_cnt /\ fb[f].ext_cnt \in Nat /\ fb[f].rvd_cnt \in Nat
      /\ c \in Nat /\ (Of(bus, f) = {} => c = 0)
  BY Owes, BufferType, OfFinite DEF BuffersInv, TypeOK
<1> HIDE DEF c
<1>3. CASE f \in Stay(in)
  <2>1. /\ fb'[f].ext_cnt = fb[f].ext_cnt + g
        /\ fb'[f].rvd_cnt = fb[f].rvd_cnt + k
    BY <1>3, StayAfter, WhoseTurn DEF One
  <2>2. g \in {0, 1} /\ k \in {0, 1}
    BY DEF One
  <2> HIDE DEF g, k
  <2>3. QED
    BY <1>1, <1>2, <2>1, <2>2
<1>4. CASE f \in Alloc(in)
  <2>1. fb'[f].ext_cnt = g /\ fb'[f].rvd_cnt = 0 /\ k = 0
    BY <1>4, AllocAfter, WhoseTurn DEF One
  <2>2. c = 0
    BY <1>2, <1>4, Owes, BusyAfter DEF BuffersInv
  <2>3. QED
    BY <1>1, <2>1, <2>2 DEF One
<1>5. CASE f \notin Stay(in) /\ f \notin Alloc(in)
  <2>1. c = 0 /\ g = 0 /\ k = 0 /\ fb'[f].ext_cnt = 0 /\ fb'[f].rvd_cnt = 0
    BY <1>2, <1>5, FreeAfter, WhoseTurn DEF One, Free
  <2>2. QED
    BY <1>1, <2>1
<1>6. QED
  BY <1>3, <1>4, <1>5

\* The words are owed in the order of the line, from the one received next.
LEMMA OrderStep ==
  ASSUME BuffersInv, NEW in, Legal(in), Cycle(in), NEW f \in FB, NEW i \in Of(bus', f)
  PROVE  bus'[i].word =
           WordAt(LineOf(fb'[f].addr),
                  (BeatOf(fb'[f].addr) + fb'[f].rvd_cnt + Cardinality(Before(bus', f, i))) % BEATS)
<1> DEFINE A == Asked(in)
           s == One(in.rvalid)
           k == One(in.rvalid /\ bus[1].fb = f)
           j == i + s
           n == Len(bus)
           m == Cardinality(Before(A, f, j))
<1>1. bus \in Seq(Request) /\ n \in Nat
  BY DEF BuffersInv, TypeOK
<1>2. /\ A \in Seq(Request) /\ Len(A) = n + One(Granted(in))
      /\ \A p \in 1 .. n : /\ A[p].word = bus[p].word /\ A[p].fb = bus[p].fb
                           /\ Before(A, f, p) = Before(bus, f, p)
      /\ Granted(in) => /\ A[n + 1].word = instr_addr(in) /\ A[n + 1].fb = instr_fb(in)
                        /\ Before(A, f, n + 1) = Of(bus, f)
  <2>1. /\ A \in Seq(Request) /\ Len(A) = n + One(Granted(in))
        /\ \A p \in 1 .. n : A[p].word = bus[p].word /\ A[p].fb = bus[p].fb
        /\ Granted(in) => A[n + 1].word = instr_addr(in) /\ A[n + 1].fb = instr_fb(in)
    BY AskedIs
  <2>2. /\ \A p \in 1 .. n : Before(A, f, p) = Before(bus, f, p)
        /\ Granted(in) => Before(A, f, n + 1) = Of(bus, f)
    BY AskedIs
  <2>3. QED
    BY <2>1, <2>2
<1>3. /\ i \in DOMAIN bus' /\ j \in DOMAIN A /\ bus'[i] = A[j] /\ A[j].fb = f
      /\ Cardinality(Before(bus', f, i)) = m - k
  <2>1. i \in DOMAIN bus'
    BY DEF Of
  <2>2. j \in DOMAIN A /\ bus'[i] = A[j] /\ j \in Of(A, f)
        /\ Cardinality(Before(bus', f, i)) = m - k
    BY <2>1, BusEffect
  <2>3. QED
    BY <2>1, <2>2 DEF Of
<1>4. j \in 1 .. n \/ (Granted(in) /\ j = n + 1)
  <2>1. j \in 1 .. Len(A)
    BY <1>2, <1>3
  <2> HIDE DEF A, s, j, m
  <2>2. QED
    BY <1>1, <1>2, <2>1 DEF One
<1>5. /\ m \in Nat /\ k \in {0, 1}
  BY <1>2, OfFinite DEF One
<1> HIDE DEF A, s, j, m
<1>6. CASE j \in 1 .. n
  <2>1. j \in Of(bus, f) /\ m = Cardinality(Before(bus, f, j))
    BY <1>1, <1>2, <1>3, <1>6 DEF Of, m
  <2>2. f \in Stay(in)
    BY <2>1, FillDone, Owes DEF Stay
  <2>3. /\ fb'[f].addr = fb[f].addr /\ fb'[f].rvd_cnt = fb[f].rvd_cnt + k
        /\ BeatOf(fb[f].addr) \in Nat /\ fb[f].rvd_cnt \in Nat
    BY <2>2, StayAfter, WhoseTurn, BufferType DEF One, BuffersInv
  <2>4. bus[j].word = WordAt(LineOf(fb[f].addr), (fill_rvd_beat(f) + m) % BEATS)
    BY <2>1, OwedIsOf DEF BuffersInv, CountsMatchBus
  <2> HIDE DEF k
  <2>5. BeatOf(fb'[f].addr) + fb'[f].rvd_cnt + (m - k) = fill_rvd_beat(f) + m
    BY <1>5, <2>3 DEF fill_rvd_beat
  <2>6. QED
    BY <1>2, <1>3, <1>6, <2>3, <2>4, <2>5
<1>7. CASE Granted(in) /\ j = n + 1
  <2>1. m = Cardinality(Of(bus, f)) /\ bus'[i].word = instr_addr(in) /\ f = instr_fb(in)
    BY <1>2, <1>3, <1>7 DEF m
  <2>2. /\ m = fb[f].ext_cnt - fb[f].rvd_cnt /\ (Of(bus, f) = {} => m = 0)
        /\ BeatOf(fb[f].addr) \in Nat /\ fb[f].rvd_cnt \in Nat /\ fb[f].ext_cnt \in Nat
    BY <2>1, Owes, BufferType DEF BuffersInv
  <2>3. CASE f \in Stay(in)
    <3>1. fb'[f].addr = fb[f].addr /\ fb'[f].rvd_cnt = fb[f].rvd_cnt + k
      BY <2>3, StayAfter, WhoseTurn DEF One
    <3>2. instr_addr(in) = WordAt(LineOf(fb[f].addr), (BeatOf(fb[f].addr) + fb[f].ext_cnt) % BEATS)
      BY <1>7, <2>1, <2>3, RequestOf, BusyAfter, Requester DEF Granted, ext_word, fill_ext_beat
    <3> HIDE DEF k
    <3>3. BeatOf(fb'[f].addr) + fb'[f].rvd_cnt + (m - k) = BeatOf(fb[f].addr) + fb[f].ext_cnt
      BY <1>5, <2>2, <3>1
    <3>4. QED
      BY <1>3, <2>1, <3>1, <3>2, <3>3
  <2>4. CASE f \in Alloc(in)
    <3>1. fb'[f].addr = lookup_addr_ic0(in) /\ fb'[f].rvd_cnt = 0 /\ k = 0
      BY <2>4, AllocAfter, WhoseTurn DEF One
    <3>2. instr_addr(in) = lookup_addr_ic0(in) /\ lookup_addr_ic0(in) \in Word
      BY <1>7, <2>1, <2>4, RequestOf, BusyAfter, LookupAddr DEF Granted, BuffersInv
    <3>3. m = 0
      BY <2>2, <2>4, Owes, BusyAfter
    <3>4. BeatOf(lookup_addr_ic0(in)) \in Beat
          /\ WordAt(LineOf(lookup_addr_ic0(in)), BeatOf(lookup_addr_ic0(in))) = instr_addr(in)
      BY <3>2, WordParts
    <3>5. (BeatOf(lookup_addr_ic0(in)) + 0 + 0) % BEATS = BeatOf(lookup_addr_ic0(in))
      <4>1. BeatOf(lookup_addr_ic0(in)) + 0 + 0 = BeatOf(lookup_addr_ic0(in))
        BY <3>4 DEF Beat
      <4>2. QED
        BY <3>4, <4>1, Rotate
    <3>6. QED
      BY <1>3, <2>1, <3>1, <3>3, <3>4, <3>5
  <2>5. CASE f \notin Stay(in) /\ f \notin Alloc(in)
    BY <1>7, <2>1, <2>5, WhoseTurn
  <2>6. QED
    BY <2>3, <2>4, <2>5
<1>8. QED
  BY <1>4, <1>6, <1>7

LEMMA CountsStep ==
  ASSUME BuffersInv, NEW in, Legal(in), Cycle(in)
  PROVE  CountsMatchBus'
<1> SUFFICES ASSUME NEW f \in FB
    PROVE /\ Cardinality(OwedByBus(f))' = fb'[f].ext_cnt - fb'[f].rvd_cnt
          /\ \A i \in OwedByBus(f)' :
               bus'[i].word =
                 WordAt(LineOf(fb'[f].addr),
                        ((fill_rvd_beat(f))' + Cardinality({j \in OwedByBus(f)' : j < i})) % BEATS)
  BY DEF CountsMatchBus, LineOf, WordAt
<1>1. OwedByBus(f)' = Of(bus', f)
  BY DEF OwedByBus, Of
<1>2. ASSUME NEW i \in Of(bus', f)
      PROVE  /\ {j \in Of(bus', f) : j < i} = Before(bus', f, i)
             /\ (fill_rvd_beat(f))' = BeatOf(fb'[f].addr) + fb'[f].rvd_cnt
  BY DEF Before, fill_rvd_beat, BeatOf
<1>3. QED
  BY <1>1, <1>2, CountStep, OrderStep

LEMMA AgeStep ==
  ASSUME BuffersInv, NEW in, Legal(in), Cycle(in)
  PROVE  AgeIsOrder' /\ FreeIsFree'
<1>1. FreeIsFree'
  BY BusyAfter, FreeAfter DEF FreeIsFree
<1>2. ASSUME NEW f \in Busy', NEW g \in Busy'
      PROVE  /\ fb'[f].older \subseteq Busy' \ {f}
             /\ f # g => (g \in fb'[f].older <=> f \notin fb'[g].older)
             /\ g \in fb'[f].older => fb'[g].older \subseteq fb'[f].older
  <2>1. /\ f \in Stay(in) \/ f \in Alloc(in)
        /\ g \in Stay(in) \/ g \in Alloc(in)
        /\ Busy' = Stay(in) \cup Alloc(in) /\ Alloc(in) \cap Stay(in) = {}
        /\ f \in Alloc(in) /\ g \in Alloc(in) => f = g
    BY BusyAfter
  <2>2. \A h \in Stay(in) : /\ h \in Busy /\ fb'[h].older = fb[h].older \ fill_done(in)
                            /\ fb[h].older \subseteq Busy \ {h}
                            /\ fb'[h].older \subseteq Stay(in) \ {h}
    <3> SUFFICES ASSUME NEW h \in Stay(in)
        PROVE /\ h \in Busy /\ fb'[h].older = fb[h].older \ fill_done(in)
              /\ fb[h].older \subseteq Busy \ {h}
              /\ fb'[h].older \subseteq Stay(in) \ {h}
      OBVIOUS
    <3>1. h \in Busy /\ fb[h].older \subseteq Busy \ {h}
      BY DEF Stay, BuffersInv, AgeIsOrder
    <3>2. fb'[h].older = fb[h].older \ fill_done(in)
      BY StayAfter
    <3>3. QED
      BY <3>1, <3>2 DEF Stay
  <2>3. \A h \in Alloc(in) : fb'[h].older = Stay(in)
    BY AllocAfter
  <2>4. CASE f \in Stay(in) /\ g \in Stay(in)
    <3>1. /\ f # g => (g \in fb[f].older <=> f \notin fb[g].older)
          /\ g \in fb[f].older => fb[g].older \subseteq fb[f].older
          /\ f \notin fill_done(in) /\ g \notin fill_done(in)
      BY <2>2, <2>4 DEF BuffersInv, AgeIsOrder, Stay
    <3>2. QED
      BY <2>1, <2>2, <2>4, <3>1
  <2>5. CASE f \in Alloc(in) \/ g \in Alloc(in)
    BY <2>1, <2>2, <2>3, <2>5
  <2>6. QED
    BY <2>1, <2>4, <2>5
<1>3. QED
  BY <1>1, <1>2 DEF AgeIsOrder

LEMMA TurnStep ==
  ASSUME BuffersInv, NEW in, Legal(in), Cycle(in)
  PROVE  InTurn'
<1> SUFFICES ASSUME NEW f \in Busy'
    PROVE /\ fb'[f].ext_hold => fb'[f].ext_cnt < BEATS
          /\ fb'[f].ext_done => ~fb'[f].ext_hold /\ Finished(f)'
          /\ fb'[f].ext_cnt > 0 \/ fb'[f].ext_hold => \A g \in fb'[f].older : fb'[g].ext_done
  BY DEF InTurn
<1>1. \A g \in Stay(in) : g \notin fill_ext_req(in) => fb'[g].ext_done
  BY StayAfter, BusyAfter DEF fill_ext_req
<1>2. CASE f \in Alloc(in)
  <2>1. /\ fb'[f].ext_hold => fb'[f].ext_cnt = 0
        /\ ~fb'[f].ext_done /\ fb'[f].older = Stay(in)
        /\ fb'[f].ext_cnt > 0 \/ fb'[f].ext_hold => fill_ext_req(in) = {}
    BY <1>2, AllocAfter DEF fill_spec_req
  <2>2. QED
    BY <1>1, <2>1, Parameters
<1>3. CASE f \in Stay(in)
  <2>1. /\ f \in Busy /\ f \in FB /\ fb[f].ext_cnt \in Nat /\ fb[f].ext_cnt <= BEATS
        /\ BeatOf(fb[f].addr) \in Nat
    BY <1>3, BusyAfter, BufferType DEF BuffersInv
  <2>2. Requests(in, f) => f \in fill_ext_req(in) /\ \A g \in fb[f].older : g \notin fill_ext_req(in)
    BY DEF Requests, fill_ext_arb, Oldest
  <2>3. Requests(in, f) => fb[f].ext_cnt < BEATS
    BY <2>1, <2>2, Parameters DEF fill_ext_req, fill_ext_done_d, BuffersInv, InTurn
  <2>4. /\ fb'[f].older = fb[f].older \ fill_done(in) /\ fb'[f].addr = fb[f].addr
        /\ fb'[f].ext_cnt = fb[f].ext_cnt + One(Requests(in, f) /\ in.gnt)
        /\ fb'[f].ext_hold <=> Requests(in, f) /\ ~in.gnt
        /\ fb'[f].ext_done <=> fill_ext_done_d(in, f)
        /\ fb'[f].stale <=> fb[f].stale \/ in.branch
        /\ fb'[f].hit <=> fb[f].hit \/ fill_hit_ic1(in, f)
        /\ fb'[f].cache <=> fb[f].cache /\ in.enable /\ ~in.inval
    BY <1>3, StayAfter
  <2>5. fb'[f].ext_hold => fb'[f].ext_cnt < BEATS
    BY <2>1, <2>3, <2>4 DEF One
  <2>6. ASSUME fb'[f].ext_done PROVE ~fb'[f].ext_hold /\ Finished(f)'
    <3>1. ~Requests(in, f) /\ fill_ext_done_d(in, f)
      BY <2>2, <2>4, <2>6 DEF fill_ext_req
    <3>2. fb'[f].ext_cnt = fb[f].ext_cnt /\ fill_ext_beat(f)' = fill_ext_beat(f)
      BY <2>1, <2>4, <3>1 DEF One, fill_ext_beat
    <3>3. QED
      BY <2>4, <3>1, <3>2 DEF Finished, fill_ext_done_d
  <2>7. ASSUME fb'[f].ext_cnt > 0 \/ fb'[f].ext_hold, NEW g \in fb'[f].older
        PROVE  fb'[g].ext_done
    <3>1. g \in fb[f].older /\ g \in Stay(in) /\ g \in Busy
      BY <2>1, <2>4, <2>7 DEF BuffersInv, AgeIsOrder, Stay
    <3>2. CASE fb[f].ext_cnt > 0 \/ fb[f].ext_hold
      <4>1. fb[g].ext_done
        BY <2>1, <3>1, <3>2 DEF BuffersInv, InTurn
      <4>2. QED
        BY <1>1, <3>1, <4>1, DoneStays
    <3>3. CASE ~(fb[f].ext_cnt > 0 \/ fb[f].ext_hold)
      <4>1. Requests(in, f)
        BY <2>1, <2>4, <2>7, <3>3 DEF One
      <4>2. QED
        BY <1>1, <2>2, <3>1, <4>1
    <3>4. QED
      BY <3>2, <3>3
  <2>8. QED
    BY <2>5, <2>6, <2>7
<1>4. QED
  BY <1>2, <1>3, BusyAfter

LEMMA BusOrderStep ==
  ASSUME BuffersInv, NEW in, Legal(in), Cycle(in)
  PROVE  BusInOrder'
<1> DEFINE A == Asked(in)
           n == Len(bus)
           s == One(in.rvalid)
<1>1. bus \in Seq(Request) /\ n \in Nat /\ DOMAIN bus = 1 .. n
  BY DEF BuffersInv, TypeOK
<1>2. /\ A \in Seq(Request) /\ Len(A) = n + One(Granted(in))
      /\ \A p \in 1 .. n : A[p].fb = bus[p].fb
      /\ Granted(in) => A[n + 1].fb = instr_fb(in)
  BY AskedIs
<1>3. /\ s \in {0, 1} /\ bus' \in Seq(Request)
      /\ \A i \in DOMAIN bus' : i + s \in DOMAIN A /\ bus'[i] = A[i + s]
  BY BusEffect
<1> HIDE DEF A, s
<1>4. \A p \in 1 .. Len(A) : p \in 1 .. n \/ (Granted(in) /\ p = n + 1)
  BY <1>1, <1>2 DEF One
<1>5. \A p \in 1 .. n : /\ bus[p].fb \in Stay(in) /\ fb[bus[p].fb].ext_cnt > 0
  <2> SUFFICES ASSUME NEW p \in 1 .. n
      PROVE /\ bus[p].fb \in Stay(in) /\ fb[bus[p].fb].ext_cnt > 0
    OBVIOUS
  <2>1. bus[p].fb \in Busy /\ bus[p].fb \in FB /\ Of(bus, bus[p].fb) # {}
    BY <1>1 DEF BuffersInv, BusInOrder, Busy, Of
  <2>2. QED
    BY <2>1, Owes, FillDone, BufferType DEF Stay, BuffersInv
<1>6. Granted(in) => instr_fb(in) \in Busy'
  BY RequestOf, BusyAfter DEF Granted
<1>7. \A p \in 1 .. Len(A) : A[p].fb \in Busy'
  BY <1>2, <1>4, <1>5, <1>6, BusyAfter
<1>8. ASSUME NEW p \in 1 .. Len(A), NEW q \in 1 .. Len(A), p < q, A[p].fb # A[q].fb
      PROVE  A[p].fb \in fb'[A[q].fb].older
  <2>1. p \in 1 .. n /\ A[p].fb = bus[p].fb /\ bus[p].fb \in Stay(in)
    BY <1>1, <1>2, <1>4, <1>5, <1>8
  <2>2. CASE q \in 1 .. n
    <3>1. bus[p].fb \in fb[bus[q].fb].older /\ bus[q].fb \in Stay(in) /\ A[q].fb = bus[q].fb
      <4>1. p \in 1 .. q - 1
        BY <1>1, <1>8, <2>1, <2>2
      <4>2. QED
        BY <1>1, <1>2, <1>5, <1>8, <2>1, <2>2, <4>1 DEF BuffersInv, BusInOrder
    <3>2. QED
      BY <2>1, <3>1, StayAfter DEF Stay
  <2>3. CASE Granted(in) /\ q = n + 1
    <3> DEFINE f == instr_fb(in)
    <3>1. A[q].fb = f
      BY <1>2, <2>3
    <3>2. CASE f \in Alloc(in)
      BY <2>1, <3>1, <3>2, AllocAfter
    <3>3. CASE f \in Stay(in)
      <4>1. fill_ext_req(in) # {} /\ f \in fill_ext_req(in) /\ f \in Busy
        BY <2>3, <3>3, RequestOf, Requester, BusyAfter DEF Granted
      <4>2. f \notin fb[bus[p].fb].older
        <5>1. SUFFICES ASSUME f \in fb[bus[p].fb].older PROVE FALSE
          OBVIOUS
        <5>2. fb[f].ext_done
          BY <1>5, <2>1, <5>1, BusyAfter DEF BuffersInv, InTurn
        <5>3. QED
          BY <4>1, <5>2, DoneStays
      <4>3. bus[p].fb \in fb[f].older
        BY <1>8, <2>1, <3>1, <4>1, <4>2, BusyAfter DEF BuffersInv, AgeIsOrder
      <4>4. QED
        BY <2>1, <3>1, <3>3, <4>3, StayAfter DEF Stay
    <3>4. QED
      BY <2>3, <3>2, <3>3, RequestOf DEF Granted
  <2>4. QED
    BY <1>4, <2>2, <2>3
<1>9. ASSUME NEW j \in DOMAIN bus'
      PROVE  /\ bus'[j].fb \in Busy'
             /\ \A i \in 1 .. j - 1 : bus'[i].fb = bus'[j].fb \/ bus'[i].fb \in fb'[bus'[j].fb].older
  <2>1. j \in 1 .. Len(bus') /\ Len(bus') \in Nat /\ DOMAIN A = 1 .. Len(A)
    BY <1>2, <1>3
  <2>2. bus'[j].fb \in Busy'
    BY <1>3, <1>7, <2>1
  <2>3. ASSUME NEW i \in 1 .. j - 1
        PROVE  bus'[i].fb = bus'[j].fb \/ bus'[i].fb \in fb'[bus'[j].fb].older
    <3>1. i \in DOMAIN bus' /\ i + s < j + s
      BY <1>3, <2>1
    <3>2. /\ bus'[i] = A[i + s] /\ i + s \in 1 .. Len(A)
          /\ bus'[j] = A[j + s] /\ j + s \in 1 .. Len(A)
      BY <1>3, <2>1, <3>1
    <3>3. QED
      BY <1>8, <3>1, <3>2
  <2>4. QED
    BY <2>2, <2>3
<1>10. QED
  BY <1>9 DEF BusInOrder

LEMMA HeldStep ==
  ASSUME BuffersInv, NEW in, Legal(in), Cycle(in)
  PROVE  Held'
<1> SUFFICES ASSUME seen' # <<>>
    PROVE  \E f \in Busy' : fb'[f].ext_hold /\ ext_word(f)' = seen'[1]
  BY DEF Held
<1>1. seen' = IF instr_req(in) /\ ~in.gnt THEN <<instr_addr(in)>> ELSE <<>>
  BY DEF Cycle, Bus
<1>2. instr_req(in) /\ ~in.gnt /\ seen'[1] = instr_addr(in)
  BY <1>1
<1>0. PICK f : f = instr_fb(in)
  OBVIOUS
<1>3. CASE fill_ext_req(in) # {} /\ f \in Stay(in)
  <2>1. Requests(in, f) /\ instr_addr(in) = ext_word(f) /\ f \in Busy /\ f \in FB
    BY <1>0, <1>3, Requester, BusyAfter
  <2>2. fb'[f].ext_hold /\ fb'[f].addr = fb[f].addr
        /\ fb'[f].ext_cnt = fb[f].ext_cnt + One(Requests(in, f) /\ in.gnt)
    BY <1>2, <1>3, <2>1, StayAfter
  <2>3. fb'[f].ext_cnt = fb[f].ext_cnt
    BY <1>2, <2>1, <2>2, BufferType DEF One, BuffersInv
  <2>4. ext_word(f)' = ext_word(f)
    BY <2>2, <2>3 DEF ext_word, fill_ext_beat, WordAt, LineOf, BeatOf
  <2>5. QED
    BY <1>2, <1>3, <2>1, <2>2, <2>4, BusyAfter
<1>4. CASE /\ fill_ext_req(in) = {} /\ fill_spec_req(in)
           /\ Alloc(in) = {f} /\ instr_addr(in) = lookup_addr_ic0(in)
  <2>1. f \in Alloc(in)
    BY <1>4
  <2>2. fb'[f].ext_hold /\ fb'[f].addr = instr_addr(in) /\ fb'[f].ext_cnt = 0
    BY <1>2, <1>4, <2>1, AllocAfter
  <2> DEFINE w == instr_addr(in)
  <2>3. w \in Word
    BY <1>2, RequestOf
  <2> HIDE DEF w
  <2>4. /\ WordAt(LineOf(w), BeatOf(w)) = w /\ BeatOf(w) \in Beat
        /\ BeatOf(w) + 0 = BeatOf(w) /\ BeatOf(w) % BEATS = BeatOf(w)
    <3>1. BeatOf(w) \in Beat /\ WordAt(LineOf(w), BeatOf(w)) = w
      BY <2>3, WordParts
    <3>2. BeatOf(w) + 0 = BeatOf(w)
      BY <3>1 DEF Beat
    <3>3. QED
      BY <3>1, <3>2, Rotate
  <2>5. ext_word(f)' = WordAt(LineOf(fb'[f].addr), (BeatOf(fb'[f].addr) + fb'[f].ext_cnt) % BEATS)
    BY DEF ext_word, fill_ext_beat, WordAt, LineOf, BeatOf
  <2>6. ext_word(f)' = w
    BY <2>2, <2>4, <2>5 DEF w
  <2>7. QED
    BY <1>2, <2>1, <2>2, <2>6, BusyAfter DEF w
<1>5. QED
  BY <1>0, <1>2, <1>3, <1>4, RequestOf

-----------------------------------------------------------------------------
(* Types. *)

\* A line is written for one buffer, which has received all its words.
LEMMA RamWriter ==
  ASSUME BuffersInv, NEW in, fill_grant_ic0(in)
  PROVE  /\ ram_fb(in) \in Busy /\ ram_fb(in) \in FB /\ ram_fb(in) \in fill_ram_req
         /\ fill_ram_arb(TRUE) = {ram_fb(in)}
<1>1. fill_ram_req # {} /\ fill_ram_req \in SUBSET Busy
  BY DEF fill_grant_ic0, fill_ram_req
<1>2. PICK f \in fill_ram_req : Oldest(fill_ram_req) = {f}
  BY <1>1, OldestOne DEF BuffersInv
<1>3. QED
  BY <1>1, <1>2 DEF ram_fb, fill_ram_arb, Busy

LEMMA WriteTypes ==
  ASSUME BuffersInv, NEW in, Legal(in)
  PROVE  /\ tag_write_ic0(in) => /\ tag_index_ic0(in) \in Index
                                 /\ tag_banks_ic0(in) \subseteq Way
                                 /\ tag_wdata_ic0(in) \in Tag
         /\ fill_grant_ic0(in) => fb[ram_fb(in)].data \in [Beat -> Datum]
<1>1. fill_grant_ic0(in) =>
        /\ fb[ram_fb(in)].data \in [Beat -> Datum] /\ fb[ram_fb(in)].way \in Way
        /\ LineOf(fb[ram_fb(in)].addr) \in Line
  BY RamWriter, BufferType DEF BuffersInv
<1>2. fill_grant_ic0(in) =>
        /\ IndexOf(LineOf(fb[ram_fb(in)].addr)) \in Index
        /\ TagOf(LineOf(fb[ram_fb(in)].addr)) \in Tag
  BY <1>1, TagParts
<1>3. /\ inval_index_q \in Index /\ ecc_correction.index \in Index /\ ecc_correction.ways \in SUBSET Way
      /\ Invalid \in Tag
  BY Parameters DEF BuffersInv, TypeOK, RamsTypeOK, Invalid, Tag
<1>4. QED
  BY <1>1, <1>2, <1>3 DEF tag_write_ic0, tag_index_ic0, tag_banks_ic0, tag_wdata_ic0

LEMMA RamTypeStep ==
  ASSUME BuffersInv, NEW in, Legal(in), Cycle(in)
  PROVE  RamsTypeOK'
<1>1. /\ tags \in [Index -> [Way -> Tag]]
      /\ data \in [Index -> [Way -> [Beat -> Datum]]]
      /\ lookup \in [valid : BOOLEAN, fb : FB, line : Line, tags : [Way -> Tag],
                     data : [Way -> [Beat -> Datum]]]
      /\ round_robin_way_q \in Way
      /\ ecc_correction \in [write : BOOLEAN, ways : SUBSET Way, index : Index]
      /\ inval_state_q \in InvalState /\ inval_index_q \in Index
      /\ scramble_req_q \in BOOLEAN /\ scramble_key_valid_q \in BOOLEAN
  BY DEF BuffersInv, TypeOK, RamsTypeOK
<1>2. Invalid \in Tag /\ Unknown \in Tag /\ NoData \in [Beat -> Datum]
  BY Parameters, JunkType DEF Invalid, Unknown, Tag
<1>3. tags' \in [Index -> [Way -> Tag]]
  <2>1. ASSUME NEW i \in Index, NEW w \in Way, <<i, w>> \in Written(in)
        PROVE  tag_wdata_ic0(in) \in Tag
    BY <2>1, WriteTypes DEF Written
  <2>2. QED
    BY <1>1, <1>2, <2>1 DEF Cycle, Rams, tags_d
<1>4. data' \in [Index -> [Way -> [Beat -> Datum]]]
  <2> DEFINE kept(d) == IF in.inval THEN Aged(d) ELSE d
             e(i, w) == IF new_key(in) THEN NoData
                        ELSE IF <<i, w>> \notin Written(in) THEN kept(data[i][w])
                        ELSE IF tag_wdata_ic0(in) = Invalid THEN NoData
                        ELSE kept(fb[ram_fb(in)].data)
  <2>1. data' = [i \in Index |-> [w \in Way |-> e(i, w)]]
    BY Zenon DEF Cycle, Rams, data_d
  <2>2. \A d \in [Beat -> Datum] : kept(d) \in [Beat -> Datum]
    BY AgedIs
  <2>3. ASSUME NEW i \in Index, NEW w \in Way PROVE e(i, w) \in [Beat -> Datum]
    <3>1. data[i][w] \in [Beat -> Datum]
      BY <1>1
    <3>2. <<i, w>> \in Written(in) /\ tag_wdata_ic0(in) # Invalid => fill_grant_ic0(in)
      BY DEF Written, tag_write_ic0, tag_wdata_ic0
    <3> HIDE DEF kept
    <3>3. <<i, w>> \in Written(in) /\ tag_wdata_ic0(in) # Invalid
            => kept(fb[ram_fb(in)].data) \in [Beat -> Datum]
      BY <2>2, <3>2, WriteTypes
    <3>4. QED
      BY <1>2, <2>2, <3>1, <3>3
  <2> HIDE DEF e
  <2>4. QED
    BY <2>1, <2>3
<1>5. lookup' \in [valid : BOOLEAN, fb : FB, line : Line, tags : [Way -> Tag],
                   data : [Way -> [Beat -> Datum]]]
  <2>1. lookup' = lookup_d(in)
    BY DEF Cycle, Rams
  <2>2. CASE lookup_actual_ic0(in)
    <3> DEFINE line == LineOf(lookup_addr_ic0(in))
               f == CHOOSE f \in fill_alloc_sel : TRUE
    <3>1. f \in FB
      BY <2>2, AllocOfOne DEF lookup_actual_ic0
    <3>2. line \in Line
      BY LookupAddr, WordParts DEF BuffersInv
    <3>3. tags[IndexOf(line)] \in [Way -> Tag] /\ data[IndexOf(line)] \in [Way -> [Beat -> Datum]]
      BY <1>1, <3>2, TagParts
    <3>4. lookup_d(in) = [valid |-> TRUE, fb |-> f, line |-> line, tags |-> tags[IndexOf(line)],
                          data |-> data[IndexOf(line)]]
      BY <2>2, Zenon DEF lookup_d
    <3> HIDE DEF line, f
    <3>5. QED
      BY <2>1, <3>1, <3>2, <3>3, <3>4
  <2>3. CASE ~lookup_actual_ic0(in)
    BY <1>2, <2>1, <2>3, Parameters DEF lookup_d, NoLookup
  <2>4. QED
    BY <2>2, <2>3
<1>6. round_robin_way_q' \in Way
  <2>1. round_robin_way_q + 1 \in Nat
    BY <1>1 DEF Way
  <2>2. (round_robin_way_q + 1) % WAYS \in Way
    BY <2>1, Parameters, Divide DEF Way
  <2>3. QED
    BY <1>1, <2>2 DEF Cycle, Rams
<1>7. ecc_correction' \in [write : BOOLEAN, ways : SUBSET Way, index : Index]
  <2>1. IndexOf(lookup.line) \in Index /\ tag_match_ic1 \in SUBSET Way
    BY <1>1, TagParts DEF tag_match_ic1
  <2>2. QED
    BY <2>1, Parameters DEF Cycle, Rams, ecc_correction_d, NoCorrection
<1>8. inval_state_q' \in InvalState
  BY <1>1 DEF Cycle, InvalCycle, inval_state_d, InvalState
<1>9. inval_index_q' \in Index
  <2>1. inval_index_q + 1 \in Nat
    BY <1>1 DEF Index
  <2>2. (inval_index_q + 1) % INDEXES \in Index
    BY <2>1, Parameters, Divide DEF Index
  <2>3. QED
    BY <1>1, <2>2, Parameters DEF Cycle, InvalCycle, inval_index_d
<1>10. scramble_req_q' \in BOOLEAN /\ scramble_key_valid_q' \in BOOLEAN
  BY DEF Cycle, InvalCycle
<1>11. QED
  BY <1>3, <1>4, <1>5, <1>6, <1>7, <1>8, <1>9, <1>10 DEF RamsTypeOK

LEMMA FreeType == Free \in Buffer
<1>1. NoData \in [Beat -> Datum] /\ 0 \in 0 .. BEATS /\ 0 \in Word /\ 0 \in Way
  BY JunkType, Parameters
<1> HIDE DEF NoData
<1>2. QED
  BY <1>1 DEF Free, Buffer

\* A buffer that requests has words left to request.
LEMMA RequestsLeft ==
  ASSUME BuffersInv, NEW in, NEW f, Requests(in, f)
  PROVE  f \in fill_ext_req(in) /\ f \in Busy /\ fb[f].ext_cnt < BEATS
<1>1. f \in fill_ext_req(in) /\ f \in Busy /\ f \in FB
  BY DEF Requests, fill_ext_arb, Oldest, fill_ext_req, Busy
<1>2. fb[f].ext_cnt <= BEATS /\ fb[f].ext_cnt \in Nat
  BY <1>1, BufferType DEF BuffersInv
<1>3. QED
  BY <1>1, <1>2, Parameters DEF fill_ext_req, fill_ext_done_d, BuffersInv, InTurn

LEMMA WayType ==
  ASSUME TypeOK, NEW in, Legal(in)
  PROVE  sel_way_ic1(in) \in Way
<1>1. invalid_ways \in SUBSET Nat /\ invalid_ways \subseteq Way
  BY DEF invalid_ways, Way
<1>2. invalid_ways # {} => \E w \in invalid_ways : \A v \in invalid_ways : w <= v
  BY <1>1, LeastNumber
<1>3. in.way \in Way /\ round_robin_way_q \in Way
  BY DEF Legal, TypeOK, RamsTypeOK
<1>4. QED
  BY <1>1, <1>2, <1>3 DEF sel_way_ic1

LEMMA FillTypeStep ==
  ASSUME BuffersInv, NEW in, Legal(in), Cycle(in)
  PROVE  FillTypeOK'
<1>1. ASSUME NEW f \in FB PROVE fb'[f] \in Buffer
  <2>1. CASE f \in Alloc(in)
    <3>1. lookup_addr_ic0(in) \in Word /\ fb'[f] = NewBuffer(in, lookup_addr_ic0(in), fill_done(in))
      BY <2>1, LookupAddr, FillEffect DEF BuffersInv, TypeOK
    <3>2. QED
      BY <3>1, NewType
  <2>2. CASE f \in Stay(in)
    <3> DEFINE ram == fill_ram_arb(fill_grant_ic0(in))
               out == IF in.take THEN fill_out_arb(in) ELSE {}
               b == fb[f]
               o  == b.older \ fill_done(in)
               st == b.stale \/ in.branch
               ca == fill_cache_d(in, f)
               hi == b.hit \/ fill_hit_ic1(in, f)
               ec == b.ext_cnt + One(Requests(in, f) /\ in.gnt)
               eh == Requests(in, f) /\ ~in.gnt
               ed == fill_ext_done_d(in, f)
               rc == b.rvd_cnt + One(Receives(in, f))
               rd == b.ram_done \/ f \in ram
               oc == b.out_cnt + One(f \in out)
               wa == IF lookup.valid /\ lookup.fb = f THEN sel_way_ic1(in) ELSE b.way
               da == StayData(in, f)
               er == b.err \cup IF Receives(in, f) /\ in.err THEN {fill_rvd_off(f)} ELSE {}
    <3>1. fb'[f] = Stayed(in, f, ram, out)
      BY <2>2, FillEffect DEF BuffersInv, TypeOK
    <3>2. fb'[f].ext_cnt = ec /\ fb'[f].rvd_cnt = rc
      BY <2>2, StayAfter
    <3>3. f \in Busy /\ TypeOK
      BY <2>2 DEF Stay, BuffersInv
    <3>4. ec \in 0 .. BEATS
      BY <3>3, RequestsLeft, BufferType, Parameters DEF One
    <3>5. rc \in 0 .. BEATS
      <4>1. rc \in Nat
        BY <3>3, BufferType DEF One
      <4>2. ec - rc \in Nat
        BY <3>2, CountStep, BusEffect, OfFinite
      <4> HIDE DEF ec, rc
      <4>3. QED
        BY <3>4, <4>1, <4>2, Parameters
    <3>6. oc \in 0 .. BEATS
      <4>1. f \in out => b.out_cnt # BEATS
        BY DEF fill_out_arb, fill_out_req, fill_out_done
      <4>2. b.out_cnt \in Nat /\ b.out_cnt <= BEATS
        BY <3>3, BufferType
      <4> HIDE DEF out
      <4>3. QED
        BY <4>1, <4>2, Parameters DEF One
    <3>7. o \in SUBSET FB /\ b.addr \in Word /\ wa \in Way /\ da \in [Beat -> Datum]
          /\ er \in SUBSET Beat
      BY <3>3, BufferType, WayType, DataTypes
    <3>8. /\ st \in BOOLEAN /\ ca \in BOOLEAN /\ hi \in BOOLEAN /\ eh \in BOOLEAN
          /\ ed \in BOOLEAN /\ rd \in BOOLEAN
      BY DEF fill_cache_d, fill_ext_done_d
    <3>9. Stayed(in, f, ram, out) =
            [busy |-> TRUE, older |-> o, stale |-> st, cache |-> ca, hit |-> hi, ext_cnt |-> ec,
             ext_hold |-> eh, ext_done |-> ed, rvd_cnt |-> rc, ram_done |-> rd, out_cnt |-> oc,
             addr |-> b.addr, way |-> wa, data |-> da, err |-> er]
      BY Zenon DEF Stayed
    <3> HIDE DEF b, o, st, ca, hi, ec, eh, ed, rc, rd, oc, wa, da, er, ram, out
    <3>10. QED
      BY <3>1, <3>4, <3>5, <3>6, <3>7, <3>8, <3>9 DEF Buffer
  <2>3. CASE f \notin Alloc(in) /\ f \notin Stay(in)
    BY <2>3, FreeAfter, FreeType
  <2>4. QED
    BY <2>1, <2>2, <2>3
<1>2. DOMAIN fb' = FB /\ fb' = [f \in FB |-> fb'[f]]
  BY DEF Cycle, FillCycle
<1>3. QED
  BY <1>1, <1>2 DEF FillTypeOK

\* What the core is offered.
LEMMA OutputType ==
  ASSUME TypeOK, NEW in, Legal(in), NEW b \in Beat
  PROVE  /\ output(in, b).datum \in Datum /\ output(in, b).err \in BOOLEAN
         /\ output(in, b) \in [datum : Datum, err : BOOLEAN]
<1> DEFINE e == b \in line_err(in)
           d == line_data(in)[b]
<1>1. d \in Datum /\ e \in BOOLEAN /\ in.rdata \in Datum /\ in.err \in BOOLEAN
  BY DataTypes DEF Legal
<1>2. output(in, b) = IF fill_data_rvd(in) # {} THEN [datum |-> in.rdata, err |-> in.err]
                                                ELSE [datum |-> d, err |-> e]
  BY Zenon DEF output
<1> HIDE DEF d, e
<1>3. QED
  BY <1>1, <1>2

LEMMA TypeStep ==
  ASSUME BuffersInv, NEW in, Legal(in), Cycle(in)
  PROVE  TypeOK'
<1>1. TypeOK
  BY DEF BuffersInv
<1>2. lookup_addr_ic0(in) \in Word /\ in.addr \in Word
  BY <1>1, LookupAddr DEF Legal
<1>3. prefetch_addr_q' \in Word
  <2>1. WordAt((LineOf(lookup_addr_ic0(in)) + 1) % LINES, 0) \in Word
    BY <1>2, WordParts, AddrTypes, WordAtType, Parameters
  <2>2. QED
    BY <1>1, <1>2, <2>1 DEF Cycle, prefetch_addr_d, TypeOK
<1>4. /\ out_word' \in Word /\ started' \in BOOLEAN /\ running' \in BOOLEAN /\ fenced' \in BOOLEAN
  <2>1. out_word' \in Word
    BY <1>1, <1>2, AddrTypes DEF Cycle, Core, TypeOK
  <2>2. started' \in BOOLEAN /\ running' \in BOOLEAN /\ fenced' \in BOOLEAN
    BY DEF Cycle, Core
  <2>3. QED
    BY <2>1, <2>2
<1>5. taken' \in {<<>>} \cup {<<t>> : t \in [datum : Datum, err : BOOLEAN]}
  <2>1. BeatOf(out_word) \in Beat
    BY <1>1, WordParts DEF TypeOK
  <2>2. output(in, BeatOf(out_word)) \in [datum : Datum, err : BOOLEAN]
    BY <1>1, <2>1, OutputType
  <2>3. taken' = <<>> \/ taken' = <<output(in, BeatOf(out_word))>>
    BY DEF Cycle, Core
  <2>4. QED
    BY <2>2, <2>3
<1>6. seen' \in {<<>>} \cup {<<w>> : w \in Word}
  BY RequestOf DEF Cycle, Bus
<1>7. QED
  BY <1>3, <1>4, <1>5, <1>6, BusEffect, RamTypeStep, FillTypeStep DEF TypeOK

LEMMA BuffersStep ==
  ASSUME BuffersInv, NEW in, Legal(in), Cycle(in)
  PROVE  BuffersInv'
  BY TypeStep, AgeStep, CountsStep, TurnStep, BusOrderStep, HeldStep DEF BuffersInv

-----------------------------------------------------------------------------
(* Keys, tags and lines. *)

LEMMA KeyStep ==
  ASSUME TypeOK, KeyKnown, NEW in, Legal(in), Cycle(in)
  PROVE  KeyKnown'
<1>1. /\ inval_state_q' = inval_state_d(in)
      /\ scramble_req_q' <=>
           (ICacheScramble /\ IF scramble_req_q THEN ~in.key ELSE ic_scr_key_req(in))
      /\ scramble_key_valid_q' <=>
           (ICacheScramble =>
              IF scramble_req_q THEN in.key
              ELSE scramble_key_valid_q /\ ~ic_scr_key_req(in))
  BY DEF Cycle, InvalCycle
<1>2. inval_state_q \in InvalState
  BY DEF TypeOK, RamsTypeOK
<1>3. IF ICacheScramble THEN scramble_key_valid_q' <=> ~scramble_req_q'
                        ELSE scramble_key_valid_q' /\ ~scramble_req_q'
  BY <1>1 DEF KeyKnown, Legal
<1>4. ASSUME inval_state_q' \in {"INVAL_CACHE", "IDLE"} PROVE scramble_key_valid_q'
  <2>1. scramble_key_valid_q /\ ~ic_scr_key_req(in)
    BY <1>1, <1>2, <1>4 DEF KeyKnown, inval_state_d, ic_scr_key_req, InvalState
  <2>2. QED
    BY <1>1, <2>1 DEF KeyKnown
<1>5. QED
  BY <1>3, <1>4 DEF KeyKnown

LEMMA QuietStep ==
  ASSUME BuffersInv, Quiet, NEW in, Legal(in), Cycle(in)
  PROVE  Quiet'
<1>1. /\ inval_state_q' = inval_state_d(in) /\ lookup' = lookup_d(in)
      /\ ecc_correction' = ecc_correction_d(in)
  BY DEF Cycle, InvalCycle, Rams
<1>2. inval_state_q \in InvalState
  BY DEF BuffersInv, TypeOK, RamsTypeOK
<1>3. ASSUME inval_state_q' # "IDLE" PROVE ~lookup'.valid /\ \A f \in Busy' : ~fb'[f].cache
  <2>1. inval_block_cache(in) /\ (in.inval \/ inval_state_q # "IDLE")
    BY <1>1, <1>2, <1>3 DEF inval_block_cache, inval_state_d, InvalState
  <2>2. ~lookup'.valid
    BY <1>1, <2>1 DEF lookup_d, lookup_actual_ic0, NoLookup
  <2>3. \A f \in Alloc(in) : ~fb'[f].cache
    BY <2>1, AllocAfter
  <2>4. \A f \in Stay(in) : ~fb'[f].cache
    BY <2>1, StayAfter DEF Quiet, Stay
  <2>5. QED
    BY <2>2, <2>3, <2>4, BusyAfter
<1>4. ASSUME inval_state_q' \in {"OUT_OF_RESET", "INVAL_CACHE"} PROVE ~ecc_correction'.write
  <2>1. inval_state_q # "IDLE"
    BY <1>1, <1>2, <1>4 DEF inval_state_d, InvalState
  <2>2. ~lookup.valid
    BY <2>1 DEF Quiet
  <2>3. QED
    BY <1>1, <2>2 DEF ecc_correction_d, ecc_err_ic1, NoCorrection
<1>5. QED
  BY <1>3, <1>4 DEF Quiet

\* The tags after a cycle in which the key stays.
LEMMA TagsAfter ==
  ASSUME BuffersInv, NEW in, Legal(in), Cycle(in), NEW i \in Index, NEW w \in Way
  PROVE  tags'[i][w] = IF new_key(in) THEN Unknown
                       ELSE IF <<i, w>> \in Written(in) THEN tag_wdata_ic0(in)
                       ELSE tags[i][w]
  BY DEF Cycle, Rams, tags_d

LEMMA TagsStep ==
  ASSUME BuffersInv, KeyKnown, Quiet, TagsWritten, NEW in, Legal(in), Cycle(in)
  PROVE  TagsWritten' /\ (inval_state_q = "INVAL_CACHE" /\ inval_state_q' = "IDLE"
                            => \A i \in Index, w \in Way : tags'[i][w] = Invalid)
<1>1. /\ inval_state_q' = inval_state_d(in) /\ inval_index_q' = inval_index_d
      /\ inval_state_q \in InvalState /\ inval_index_q \in Index
  BY DEF Cycle, InvalCycle, BuffersInv, TypeOK, RamsTypeOK
<1>2. inval_state_q \in {"INVAL_CACHE", "IDLE"} => ~new_key(in) /\ scramble_key_valid_q
  BY DEF KeyKnown, new_key
<1>3. ASSUME inval_state_q = "INVAL_CACHE", NEW i \in Index, NEW w \in Way
      PROVE  tags'[i][w] = IF i = inval_index_q THEN Invalid ELSE tags[i][w]
  <2>1. /\ tag_write_ic0(in) /\ tag_index_ic0(in) = inval_index_q /\ tag_banks_ic0(in) = Way
        /\ tag_wdata_ic0(in) = Invalid
    BY <1>3 DEF tag_write_ic0, tag_index_ic0, tag_banks_ic0, tag_wdata_ic0, inval_write_req, Quiet,
       fill_grant_ic0
  <2>2. <<i, w>> \in Written(in) <=> i = inval_index_q
    BY <1>2, <1>3, <2>1 DEF Written
  <2>3. QED
    BY <1>2, <1>3, <2>1, <2>2, TagsAfter
<1>4. ASSUME inval_state_q = "INVAL_CACHE", inval_state_q' = "IDLE", NEW i \in Index, NEW w \in Way
      PROVE  tags'[i][w] = Invalid
  <2>1. inval_index_q = INDEXES - 1
    BY <1>1, <1>4 DEF inval_state_d
  <2>2. i = inval_index_q \/ i \in 0 .. inval_index_q - 1
    BY <2>1, Parameters DEF Index
  <2>3. QED
    BY <1>3, <1>4, <2>2 DEF TagsWritten
<1>5. ASSUME inval_state_q' = "IDLE", NEW i \in Index, NEW w \in Way
      PROVE  tags'[i][w] # Unknown
  <2>1. Invalid # Unknown
    BY Parameters DEF Invalid, Unknown
  <2>2. CASE inval_state_q = "INVAL_CACHE"
    BY <1>4, <1>5, <2>1, <2>2
  <2>3. CASE inval_state_q = "IDLE"
    <3>1. tags[i][w] # Unknown
      BY <2>3 DEF TagsWritten
    <3>2. <<i, w>> \in Written(in) => tag_wdata_ic0(in) # Unknown
      <4>1. fill_grant_ic0(in) => TagOf(LineOf(fb[ram_fb(in)].addr)) # Unknown
        BY RamWriter, BufferType, TagParts DEF BuffersInv
      <4>2. QED
        BY <2>1, <4>1 DEF Written, tag_write_ic0, tag_wdata_ic0
    <3>3. QED
      BY <1>2, <2>3, <3>1, <3>2, TagsAfter
  <2>4. QED
    BY <1>1, <1>5, <2>2, <2>3 DEF inval_state_d, InvalState
<1>6. ASSUME inval_state_q' = "INVAL_CACHE", NEW i \in 0 .. inval_index_q' - 1, NEW w \in Way
      PROVE  tags'[i][w] = Invalid
  <2>1. CASE inval_state_q = "INVAL_CACHE"
    <3>1. inval_index_q # INDEXES - 1
      BY <1>1, <1>6, <2>1 DEF inval_state_d
    <3>2. inval_index_q + 1 \in 0 .. INDEXES - 1 /\ inval_index_q \in Nat
      BY <1>1, <3>1, Parameters DEF Index
    <3>3. inval_index_q' = inval_index_q + 1
      <4>1. (inval_index_q + 1) % INDEXES = inval_index_q + 1
        BY <3>2, Parameters
      <4>2. QED
        BY <1>1, <2>1, <4>1 DEF inval_index_d
    <3>4. i \in Index /\ (i = inval_index_q \/ i \in 0 .. inval_index_q - 1)
      BY <3>2, <3>3, Parameters DEF Index
    <3>5. QED
      BY <1>3, <2>1, <3>4 DEF TagsWritten
  <2>2. CASE inval_state_q = "AWAIT_SCRAMBLE_KEY"
    <3>1. inval_index_q' = 0
      BY <1>1, <1>6, <2>2 DEF inval_state_d, inval_index_d
    <3>2. QED
      BY <3>1
  <2>3. QED
    BY <1>1, <1>6, <2>1, <2>2 DEF inval_state_d, InvalState
<1>7. QED
  BY <1>4, <1>5, <1>6 DEF TagsWritten

LEMMA KnownStep ==
  ASSUME BuffersInv, TagsWritten, NEW in, Legal(in), Cycle(in)
  PROVE  TagsKnown'
<1> SUFFICES ASSUME lookup'.valid, NEW w \in Way PROVE lookup'.tags[w] # Unknown
  BY DEF TagsKnown
<1>1. lookup' = lookup_d(in)
  BY DEF Cycle, Rams
<1>2. lookup_actual_ic0(in)
  BY <1>1 DEF lookup_d, NoLookup
<1>3. inval_state_q = "IDLE"
  BY <1>2 DEF lookup_actual_ic0, inval_block_cache
<1>4. lookup'.tags = tags[IndexOf(LineOf(lookup_addr_ic0(in)))]
  BY <1>1, <1>2 DEF lookup_d
<1>5. IndexOf(LineOf(lookup_addr_ic0(in))) \in Index
  BY LookupAddr, WordParts, TagParts DEF BuffersInv
<1>6. QED
  BY <1>3, <1>4, <1>5 DEF TagsWritten

\* An answer fills in the word at the place where it belongs.
LEMMA MatchStep ==
  ASSUME BuffersInv, BuffersMatchMemory, NEW in, Legal(in), Cycle(in)
  PROVE  BuffersMatchMemory'
<1> SUFFICES ASSUME NEW f \in Busy'
    PROVE /\ ~fb'[f].hit =>
               \A b \in Received(f)' :
                 /\ fb'[f].data[b].word = WordAt(LineOf(fb'[f].addr), b)
                 /\ fb'[f].data[b].bad => b \in fb'[f].err
                 /\ fb'[f].cache => ~fb'[f].data[b].old
          /\ fb'[f].cache => \A i \in OwedByBus(f)' : ~bus'[i].old
  BY DEF BuffersMatchMemory, WordAt, LineOf
<1>1. OwedByBus(f)' = Of(bus', f)
  BY DEF OwedByBus, Of
<1>2. Received(f)' = {(BeatOf(fb'[f].addr) + k) % BEATS : k \in 0 .. fb'[f].rvd_cnt - 1}
  BY DEF Received, BeatOf
<1>3. f \in FB /\ (f \in Stay(in) \/ f \in Alloc(in))
  BY BusyAfter
<1>4. fb'[f].cache => ~in.inval /\ (f \in Stay(in) => fb[f].cache)
  BY <1>3, StayAfter, AllocAfter DEF inval_block_cache
<1>5. ASSUME fb'[f].cache, NEW i \in Of(bus', f) PROVE ~bus'[i].old
  <2> DEFINE A == Asked(in)
             j == i + One(in.rvalid)
             n == Len(bus)
  <2>1. j \in DOMAIN A /\ bus'[i] = A[j] /\ A[j].fb = f
    <3>1. i \in DOMAIN bus'
      BY DEF Of
    <3>2. j \in DOMAIN A /\ bus'[i] = A[j] /\ j \in Of(A, f)
      BY <3>1, BusEffect
    <3>3. QED
      BY <3>2 DEF Of
  <2>2. /\ A \in Seq(Request) /\ n \in Nat /\ Len(A) = n + One(Granted(in))
        /\ \A p \in 1 .. n : A[p].fb = bus[p].fb /\ (A[p].old <=> bus[p].old \/ in.inval)
        /\ Granted(in) => ~A[n + 1].old
    BY AskedIs
  <2> HIDE DEF A, j
  <2>3. j \in 1 .. n \/ (Granted(in) /\ j = n + 1)
    <3>1. j \in 1 .. Len(A)
      BY <2>1, <2>2
    <3>2. QED
      BY <2>2, <3>1 DEF One
  <2>4. CASE j \in 1 .. n
    <3>1. j \in Of(bus, f)
      BY <2>1, <2>2, <2>4 DEF Of, BuffersInv, TypeOK
    <3>2. f \in Stay(in)
      BY <1>3, <3>1, Owes, BusyAfter
    <3>3. ~bus[j].old
      BY <1>4, <1>5, <3>1, <3>2, OwedIsOf, BusyAfter DEF BuffersMatchMemory
    <3>4. QED
      BY <1>4, <1>5, <2>1, <2>2, <2>4, <3>3
  <2>5. QED
    BY <2>1, <2>2, <2>3, <2>4
<1>6. ASSUME ~fb'[f].hit, NEW b \in Received(f)'
      PROVE  /\ fb'[f].data[b].word = WordAt(LineOf(fb'[f].addr), b)
             /\ fb'[f].data[b].bad => b \in fb'[f].err
             /\ fb'[f].cache => ~fb'[f].data[b].old
  <2>1. PICK k \in 0 .. fb'[f].rvd_cnt - 1 : b = (BeatOf(fb'[f].addr) + k) % BEATS
    BY <1>2
  <2>2. f \in Stay(in)
    <3>1. fb'[f].rvd_cnt # 0
      BY <2>1
    <3>2. QED
      BY <1>3, <3>1, AllocAfter
  <2> DEFINE d == fill_data_d(in, f, Receives(in, f))
  <2>3. /\ f \in Busy /\ fb'[f].addr = fb[f].addr /\ ~fb[f].hit /\ ~fill_hit_ic1(in, f)
        /\ fb'[f].rvd_cnt = fb[f].rvd_cnt + One(Receives(in, f))
        /\ fb'[f].data = IF in.inval THEN Aged(d) ELSE d
        /\ fb'[f].err = fb[f].err \cup IF Receives(in, f) /\ in.err THEN {fill_rvd_off(f)} ELSE {}
    BY <1>6, <2>2, StayAfter, BusyAfter DEF StayData
  <2>4. /\ fb[f].rvd_cnt \in Nat /\ BeatOf(fb[f].addr) \in Beat /\ fb[f].data \in [Beat -> Datum]
        /\ d \in [Beat -> Datum] /\ fill_rvd_off(f) \in Beat /\ TypeOK
    BY <1>3, <2>3, BufferType, DataTypes DEF BuffersInv
  <2>5. b \in Beat
    BY <2>1, <2>3, <2>4, Rotate
  <2>6. d = IF Receives(in, f) THEN [fb[f].data EXCEPT ![fill_rvd_off(f)] = in.rdata] ELSE fb[f].data
    BY <2>3 DEF fill_data_d
  <2> HIDE DEF d
  <2>7. /\ d[b].word = WordAt(LineOf(fb[f].addr), b)
        /\ d[b].bad => b \in fb'[f].err
        /\ fb'[f].cache => ~d[b].old
    <3>1. CASE Receives(in, f) /\ b = fill_rvd_off(f)
      <4>1. d[b] = in.rdata
        BY <2>4, <2>6, <3>1
      <4>2. in.rvalid /\ bus # <<>> /\ bus[1].fb = f /\ 1 \in Of(bus, f)
        <5>1. in.rvalid /\ f = bus[1].fb
          BY <3>1, Receivers
        <5>2. bus # <<>> /\ bus \in Seq(Request)
          BY <5>1 DEF Legal, BuffersInv, TypeOK
        <5>3. QED
          BY <5>1, <5>2 DEF Of
      <4>3. in.rdata.word = bus[1].word /\ (in.rdata.old <=> bus[1].old) /\ (in.rdata.bad <=> in.err)
        BY <4>2 DEF Legal
      <4>4. Before(bus, f, 1) = {}
        BY DEF Before, Of, BuffersInv, TypeOK
      <4>5. bus[1].word = WordAt(LineOf(fb[f].addr), b)
        <5>1. bus[1].word = WordAt(LineOf(fb[f].addr),
                                   (fill_rvd_beat(f) + Cardinality(Before(bus, f, 1))) % BEATS)
          BY <1>3, <4>2, OwedIsOf DEF BuffersInv, CountsMatchBus
        <5>2. fill_rvd_beat(f) + Cardinality(Before(bus, f, 1)) = fill_rvd_beat(f)
          <6>1. Cardinality(Before(bus, f, 1)) = 0
            BY <4>4, FS_EmptySet
          <6>2. fill_rvd_beat(f) \in Nat
            BY <2>4, Parameters DEF fill_rvd_beat, Beat
          <6>3. QED
            BY <6>1, <6>2
        <5>3. QED
          BY <3>1, <5>1, <5>2 DEF fill_rvd_off
      <4>6. fb'[f].cache => ~bus[1].old
        BY <1>4, <2>2, <2>3, <4>2, OwedIsOf DEF BuffersMatchMemory
      <4>7. QED
        BY <2>3, <3>1, <4>1, <4>3, <4>5, <4>6
    <3>2. CASE ~(Receives(in, f) /\ b = fill_rvd_off(f))
      <4>1. d[b] = fb[f].data[b]
        BY <2>4, <2>5, <2>6, <3>2
      <4>2. b \in Received(f)
        <5>1. k \in 0 .. fb[f].rvd_cnt
          BY <2>1, <2>3, <2>4 DEF One
        <5>2. k # fb[f].rvd_cnt
          <6>1. SUFFICES ASSUME k = fb[f].rvd_cnt PROVE FALSE
            OBVIOUS
          <6>2. Receives(in, f)
            BY <2>1, <2>3, <2>4, <6>1 DEF One
          <6>3. b = fill_rvd_off(f)
            BY <2>1, <2>3, <6>1 DEF fill_rvd_off, fill_rvd_beat
          <6>4. QED
            BY <3>2, <6>2, <6>3
        <5>3. k \in 0 .. fb[f].rvd_cnt - 1
          BY <2>4, <5>1, <5>2
        <5>4. QED
          BY <2>1, <2>3, <5>3 DEF Received
      <4>3. QED
        BY <1>4, <2>2, <2>3, <4>1, <4>2 DEF BuffersMatchMemory
    <3>3. QED
      BY <3>1, <3>2
  <2>8. CASE in.inval
    BY <1>4, <2>3, <2>4, <2>5, <2>7, <2>8, AgedIs
  <2>9. CASE ~in.inval
    BY <2>3, <2>7, <2>9
  <2>10. QED
    BY <2>8, <2>9
<1>7. QED
  BY <1>1, <1>5, <1>6

\* The RAMs take complete lines of memory only, and none from before a FENCE.I
\* outlives the invalidation.
LEMMA MemoryStep ==
  ASSUME ICacheInv, NEW in, Legal(in), Cycle(in)
  PROVE  RamsMatchMemory'
<1> SUFFICES ASSUME NEW i \in Index, NEW w \in Way, tags'[i][w] \notin {Invalid, Unknown}, NEW b \in Beat
    PROVE /\ data'[i][w][b].word = WordAt(tags'[i][w] * INDEXES + i, b)
          /\ ~data'[i][w][b].bad
          /\ inval_state_q' = "IDLE" => ~data'[i][w][b].old
  BY DEF RamsMatchMemory, WordAt
<1>1. BuffersInv /\ KeyKnown /\ Quiet /\ TagsWritten /\ BuffersMatchMemory /\ RamsMatchMemory
  BY DEF ICacheInv, RamsCoherent
<1>2. ~new_key(in)
  BY <1>1, TagsAfter
<1>3. inval_state_q' = "IDLE" => ~in.inval /\ inval_state_q = "IDLE"
  <2>1. inval_state_q' = inval_state_d(in) /\ inval_state_q \in InvalState
    BY <1>1 DEF Cycle, InvalCycle, BuffersInv, TypeOK, RamsTypeOK
  <2>2. ~(inval_state_q = "INVAL_CACHE" /\ inval_state_q' = "IDLE")
    BY <1>1, TagsStep
  <2>3. QED
    BY <2>1, <2>2 DEF inval_state_d, InvalState
<1> DEFINE kept(d) == IF in.inval THEN Aged(d) ELSE d
<1>4. data'[i][w] = IF <<i, w>> \notin Written(in) THEN kept(data[i][w])
                    ELSE IF tag_wdata_ic0(in) = Invalid THEN NoData
                    ELSE kept(fb[ram_fb(in)].data)
  BY <1>2 DEF Cycle, Rams, data_d
<1>5. ASSUME NEW d \in [Beat -> Datum]
      PROVE  /\ kept(d)[b].word = d[b].word /\ (kept(d)[b].bad <=> d[b].bad)
             /\ inval_state_q' = "IDLE" => kept(d)[b] = d[b]
  BY <1>3, AgedIs
<1> HIDE DEF kept
<1>6. CASE <<i, w>> \notin Written(in)
  <2>1. tags'[i][w] = tags[i][w]
    BY <1>1, <1>2, <1>6, TagsAfter
  <2>2. /\ data[i][w][b].word = WordAt(tags[i][w] * INDEXES + i, b)
        /\ ~data[i][w][b].bad
        /\ inval_state_q = "IDLE" => ~data[i][w][b].old
    BY <1>1, <2>1 DEF RamsMatchMemory
  <2>3. data[i][w] \in [Beat -> Datum] /\ data'[i][w] = kept(data[i][w])
    BY <1>1, <1>4, <1>6 DEF BuffersInv, TypeOK, RamsTypeOK
  <2>4. QED
    BY <1>3, <1>5, <2>1, <2>2, <2>3
<1>7. CASE <<i, w>> \in Written(in)
  <2> DEFINE f == ram_fb(in)
             l == LineOf(fb[f].addr)
  <2>1. tags'[i][w] = tag_wdata_ic0(in)
    BY <1>1, <1>2, <1>7, TagsAfter
  <2>2. fill_grant_ic0(in) /\ ~inval_write_req /\ ~ecc_correction.write
    BY <1>7, <2>1 DEF Written, tag_write_ic0, tag_wdata_ic0, fill_grant_ic0
  <2>3. tags'[i][w] = TagOf(l) /\ i = IndexOf(l)
    BY <1>7, <2>1, <2>2 DEF tag_wdata_ic0, Written, tag_index_ic0
  <2>4. f \in Busy /\ f \in FB /\ f \in fill_ram_req
    BY <1>1, <2>2, RamWriter
  <2>5. /\ l \in Line /\ fb[f].data \in [Beat -> Datum] /\ BeatOf(fb[f].addr) \in Beat
    BY <1>1, <2>4, BufferType DEF BuffersInv
  <2>6. data'[i][w] = kept(fb[f].data)
    BY <1>4, <1>7, <2>1
  <2>7. fb[f].rvd_cnt = BEATS /\ ~fb[f].hit /\ fb[f].cache /\ fb[f].err = {}
    BY <2>4 DEF fill_ram_req
  <2>8. b \in Received(f)
    BY <2>5, <2>7, WholeRound DEF Received
  <2>9. fb[f].data[b].word = WordAt(l, b) /\ ~fb[f].data[b].bad /\ ~fb[f].data[b].old
    BY <1>1, <2>4, <2>7, <2>8 DEF BuffersMatchMemory
  <2>10. tags'[i][w] * INDEXES + i = l
    BY <2>3, <2>5, TagParts
  <2> HIDE DEF f, l
  <2>11. QED
    BY <1>5, <2>5, <2>6, <2>9, <2>10
<1>8. QED
  BY <1>6, <1>7

-----------------------------------------------------------------------------
(* The theorem. *)

LEMMA InitInv == Init => ICacheInv
<1> SUFFICES ASSUME Init PROVE ICacheInv
  OBVIOUS
<1>1. \A f \in FB : fb[f] = Free /\ ~fb[f].busy /\ fb[f].ext_cnt = 0 /\ fb[f].rvd_cnt = 0
  BY DEF Init, FillInit, Free
<1>2. Busy = {} /\ bus = <<>> /\ seen = <<>>
  BY <1>1 DEF Busy, Init
<1>3. TypeOK
  <2>1. FillTypeOK
    BY FreeType DEF Init, FillInit, FillTypeOK
  <2>2. RamsTypeOK
    <3>1. Unknown \in Tag /\ Invalid \in Tag /\ NoData \in [Beat -> Datum]
      BY Parameters, JunkType DEF Unknown, Invalid, Tag
    <3> HIDE DEF NoData
    <3>2. lookup \in [valid : BOOLEAN, fb : FB, line : Line, tags : [Way -> Tag],
                      data : [Way -> [Beat -> Datum]]]
      BY <3>1, Parameters DEF Init, RamsInit, NoLookup
    <3>3. ecc_correction \in [write : BOOLEAN, ways : SUBSET Way, index : Index]
      BY Parameters DEF Init, RamsInit, NoCorrection
    <3>4. QED
      BY <3>1, <3>2, <3>3, Parameters DEF Init, RamsInit, RamsTypeOK, InvalState
  <2>3. QED
    <3>1. bus \in Seq(Request) /\ seen = <<>> /\ taken = <<>>
      BY <1>2 DEF Init
    <3>2. prefetch_addr_q \in Word /\ out_word \in Word
      BY Parameters DEF Init
    <3>3. started \in BOOLEAN /\ running \in BOOLEAN /\ fenced \in BOOLEAN
      BY DEF Init
    <3>4. QED
      BY <2>1, <2>2, <3>1, <3>2, <3>3 DEF TypeOK
<1>4. CountsMatchBus
  <2>1. \A f \in FB : OwedByBus(f) = {}
    BY <1>2 DEF OwedByBus
  <2>2. QED
    <3> SUFFICES ASSUME NEW f \in FB
        PROVE  Cardinality(OwedByBus(f)) = fb[f].ext_cnt - fb[f].rvd_cnt
      BY <2>1 DEF CountsMatchBus
    <3>1. Cardinality(OwedByBus(f)) = 0
      BY <2>1, FS_EmptySet
    <3>2. QED
      BY <1>1, <3>1
<1>5. BuffersInv
  BY <1>1, <1>2, <1>3, <1>4 DEF BuffersInv, FreeIsFree, AgeIsOrder, InTurn, BusInOrder, Held
<1>6. KeyKnown /\ Quiet /\ TagsWritten
  BY <1>2, Parameters DEF Init, RamsInit, KeyKnown, Quiet, TagsWritten, NoLookup, NoCorrection
<1>7. BuffersMatchMemory
  BY <1>2 DEF BuffersMatchMemory
<1>8. RamsCoherent
  BY DEF Init, RamsInit, NoLookup, RamsCoherent, TagsKnown, RamsMatchMemory
<1>9. QED
  BY <1>5, <1>6, <1>7, <1>8 DEF ICacheInv

LEMMA NextInv == ICacheInv /\ [Next]_vars => ICacheInv'
<1> SUFFICES ASSUME ICacheInv, [Next]_vars PROVE ICacheInv'
  OBVIOUS
<1>1. CASE Next
  <2>1. BuffersInv /\ TypeOK /\ KeyKnown /\ Quiet /\ TagsWritten /\ BuffersMatchMemory
    BY DEF ICacheInv, BuffersInv
  <2>2. PICK in : Legal(in) /\ Cycle(in)
    BY <1>1, <2>1, NextInput
  <2>3. RamsCoherent'
    BY <2>1, <2>2, KnownStep, MemoryStep DEF RamsCoherent
  <2>4. QED
    BY <2>1, <2>2, <2>3, BuffersStep, KeyStep, QuietStep, TagsStep, MatchStep DEF ICacheInv
<1>2. CASE UNCHANGED vars
  <2>1. /\ UNCHANGED fb /\ UNCHANGED bus /\ UNCHANGED seen /\ UNCHANGED tags /\ UNCHANGED data
        /\ UNCHANGED lookup /\ UNCHANGED ecc_correction /\ UNCHANGED round_robin_way_q
        /\ UNCHANGED inval_state_q /\ UNCHANGED inval_index_q /\ UNCHANGED scramble_req_q
        /\ UNCHANGED scramble_key_valid_q /\ UNCHANGED prefetch_addr_q /\ UNCHANGED out_word
        /\ UNCHANGED started /\ UNCHANGED taken /\ UNCHANGED running /\ UNCHANGED fenced
    BY <1>2 DEF vars, ramVars, invalVars, envVars
  <2>2. TypeOK'
    BY <2>1 DEF ICacheInv, BuffersInv, TypeOK, RamsTypeOK, FillTypeOK
  <2>3. Busy' = Busy
    BY <2>1 DEF Busy
  <2>4. (FreeIsFree /\ AgeIsOrder /\ InTurn /\ BusInOrder /\ Held)'
    BY <2>1, <2>3 DEF ICacheInv, BuffersInv, FreeIsFree, AgeIsOrder, InTurn, BusInOrder, Held, Finished,
       fill_ext_beat, ext_word, LineOf, BeatOf, WordAt
  <2>5. \A f : OwedByBus(f)' = OwedByBus(f)
    BY <2>1 DEF OwedByBus
  <2>6. CountsMatchBus'
    BY <2>1, <2>5 DEF ICacheInv, BuffersInv, CountsMatchBus, fill_rvd_beat, LineOf, BeatOf, WordAt
  <2>7. (KeyKnown /\ Quiet /\ TagsWritten /\ RamsCoherent)'
    BY <2>1, <2>3 DEF ICacheInv, KeyKnown, Quiet, TagsWritten, RamsCoherent, TagsKnown, RamsMatchMemory,
       WordAt
  <2>8. BuffersMatchMemory'
    BY <2>1, <2>3, <2>5 DEF ICacheInv, BuffersMatchMemory, Received, LineOf, BeatOf, WordAt
  <2>9. QED
    BY <2>2, <2>4, <2>6, <2>7, <2>8 DEF ICacheInv, BuffersInv
<1>3. QED
  BY <1>1, <1>2

LEMMA CacheInvariant == Spec => []ICacheInv
<1>1. QED
  BY InitInv, NextInv, PTL DEF Spec

\* Whatever its parameters, the memory and the bus: no answer reaches a buffer that did
\* not ask for it, requests are held until their grant, and what the RAMs hold under
\* a valid tag is what memory held after the last FENCE.I.
THEOREM CacheSound == Spec => []CacheInv
<1>1. ICacheInv => CacheInv
  BY BuffersTracked DEF ICacheInv, BuffersInv, CacheInv
<1>2. QED
  BY <1>1, CacheInvariant, PTL

-----------------------------------------------------------------------------
(* The words for the core: the cache implements WordStream.  The invariant. *)

\* Buffers with words for the core, and the word that follows a line.
Pending == {f \in Live : ~fill_out_done(f)}
LineAfter(l) == WordAt((l + 1) % LINES, 0)

\* f is the buffer of Pending allocated before g.
Precedes(f, g) ==
  f \in fb[g].older /\ \A k \in Pending : ~(f \in fb[k].older /\ k \in fb[g].older)

\* The buffers that still have words are at one line after another, from the word the
\* core is owed up to the next lookup.
InStream ==
  running =>
    /\ Pending = {} => prefetch_addr_q = out_word
    /\ Pending # {} => BeatOf(prefetch_addr_q) = 0
    /\ \A f \in Pending :
         /\ IF fb[f].older \cap Pending = {}
              THEN out_word = WordAt(LineOf(fb[f].addr), fb[f].out_cnt)
              ELSE fb[f].out_cnt = 0
         /\ (\A g \in Pending : f \notin fb[g].older) =>
              prefetch_addr_q = LineAfter(LineOf(fb[f].addr))
         /\ \A g \in Pending : Precedes(f, g) => fb[g].addr = LineAfter(LineOf(fb[f].addr))

\* A buffer hands over what it has received, or a hit.
OutInTurn ==
  \A f \in Pending :
    /\ BeatOf(fb[f].addr) <= fb[f].out_cnt
    /\ ~fb[f].hit => fb[f].out_cnt <= fill_rvd_beat(f)

Current(l, d) == \A b \in Beat : d[b].word = WordAt(l, b) /\ ~d[b].bad

\* A lookup is for the buffer allocated last, and hits its line, not an old one.
LookupCurrent ==
  lookup.valid =>
    /\ lookup.fb \in Pending /\ lookup.line = LineOf(fb[lookup.fb].addr)
    /\ \A w \in tag_match_ic1 :
         Current(lookup.line, lookup.data[w]) /\ \A b \in Beat : ~lookup.data[w][b].old

HitsCurrent == \A f \in Busy : fb[f].hit => Current(LineOf(fb[f].addr), fb[f].data)

ErrorsKept ==
  \A f \in Busy :
    fb[f].err \subseteq Received(f) /\ (~fb[f].hit => \A b \in fb[f].err : fb[f].data[b].bad)

\* What is old and not stale has been overtaken by a FENCE.I, not yet by its jump.
OldFenced ==
  /\ \A f \in Live, b \in Beat : fb[f].data[b].old => fenced
  /\ \A i \in DOMAIN bus : bus[i].fb \in Live /\ bus[i].old => fenced

StreamInv ==
  InStream /\ OutInTurn /\ LookupCurrent /\ HitsCurrent /\ ErrorsKept /\ OldFenced

-----------------------------------------------------------------------------
(* Words one after the other. *)

LEMMA SmallRest ==
  ASSUME NEW a \in Nat, NEW d \in Nat, a < d + d, d >= 1
  PROVE  a % d = IF a < d THEN a ELSE a - d
  OBVIOUS

\* The line and the beat make the word and no other does.
LEMMA PartsOf ==
  ASSUME NEW l \in Line, NEW b \in Beat
  PROVE  WordAt(l, b) \in Word /\ LineOf(WordAt(l, b)) = l /\ BeatOf(WordAt(l, b)) = b
<1> DEFINE w == WordAt(l, b)
           p == LineOf(w)
           r == BeatOf(w)
<1>1. w \in Word
  BY WordAtType
<1>2. p \in Line /\ r \in Beat /\ WordAt(p, r) = w
  BY <1>1, WordParts
<1>3. /\ l \in Nat /\ p \in Nat /\ b \in 0 .. BEATS - 1 /\ r \in 0 .. BEATS - 1
      /\ l * BEATS + b = p * BEATS + r
  BY <1>2, Parameters DEF Line, Beat, WordAt
<1> HIDE DEF w, p, r
<1>4. l * BEATS \in Nat /\ p * BEATS \in Nat /\ b \in Nat /\ r \in Nat
  BY <1>3, Parameters
<1>5. ~(l < p)
  <2>1. l < p => l * BEATS + b < p * BEATS
    BY <1>3, Parameters, BelowMultiple
  <2>2. QED
    BY <1>3, <1>4, <2>1
<1>6. ~(p < l)
  <2>1. p < l => p * BEATS + r < l * BEATS
    BY <1>3, Parameters, BelowMultiple
  <2>2. QED
    BY <1>3, <1>4, <2>1
<1>7. l = p
  BY <1>3, <1>5, <1>6
<1>8. b = r
  BY <1>3, <1>4, <1>7
<1>9. QED
  BY <1>1, <1>7, <1>8 DEF w, p, r

LEMMA LineAfterIs ==
  ASSUME NEW l \in Line
  PROVE  /\ LineAfter(l) \in Word /\ BeatOf(LineAfter(l)) = 0
         /\ WordAt(LineOf(LineAfter(l)), 0) = LineAfter(l)
  BY AddrTypes, PartsOf, Parameters DEF LineAfter

\* The word after one is the next of its line, or the first of the line after.
LEMMA NextWordIs ==
  ASSUME NEW l \in Line, NEW b \in Beat
  PROVE  NextWord(WordAt(l, b)) = IF b + 1 = BEATS THEN LineAfter(l) ELSE WordAt(l, b + 1)
<1> DEFINE m == LINES * BEATS
           k == l * BEATS
<1>1. /\ l \in Nat /\ l < LINES /\ b \in Nat /\ b + 1 <= BEATS /\ m \in Nat /\ m >= 1
      /\ k \in Nat
  BY Parameters DEF Line, Beat
<1>2. NextWord(WordAt(l, b)) = (k + b + 1) % m
  BY DEF NextWord, WordAt
<1>3. CASE b + 1 # BEATS
  <2>1. b + 1 \in 0 .. BEATS - 1
    BY <1>1, <1>3, Parameters
  <2>2. k + (b + 1) < m
    BY <1>1, <2>1, Parameters, BelowMultiple
  <2> DEFINE a == k + b + 1
  <2>3. a \in Nat /\ a < m /\ a < m + m /\ a = WordAt(l, b + 1)
    BY <1>1, <2>2 DEF WordAt
  <2> HIDE DEF k, m, a
  <2>4. a % m = a
    BY <1>1, <2>3, SmallRest
  <2>5. QED
    BY <1>2, <1>3, <2>3, <2>4 DEF a
<1>4. CASE b + 1 = BEATS /\ l + 1 < LINES
  <2>1. (l + 1) * BEATS + 0 < LINES * BEATS /\ (l + 1) * BEATS = k + BEATS
    BY <1>1, <1>4, Parameters, BelowMultiple
  <2>2. (l + 1) % LINES = l + 1
    <3> DEFINE a == l + 1
    <3>1. a \in Nat /\ a < LINES /\ a < LINES + LINES
      BY <1>1, <1>4, Parameters
    <3> HIDE DEF a
    <3>2. a % LINES = a
      BY <3>1, Parameters, SmallRest
    <3>3. QED
      BY <3>2 DEF a
  <2> DEFINE a == k + b + 1
  <2>3. a = (l + 1) * BEATS + 0 /\ a < m /\ a < m + m /\ a \in Nat
    BY <1>1, <1>4, <2>1, Parameters
  <2> HIDE DEF k, m, a
  <2>4. a % m = a
    BY <1>1, <2>3, SmallRest
  <2>5. LineAfter(l) = (l + 1) * BEATS + 0
    BY <2>2 DEF LineAfter, WordAt
  <2>6. QED
    BY <1>2, <1>4, <2>3, <2>4, <2>5 DEF a
<1>5. CASE b + 1 = BEATS /\ l + 1 = LINES
  <2>1. m = k + BEATS
    BY <1>1, <1>5, Parameters
  <2>2. k + b + 1 = m
    BY <1>1, <1>5, <2>1, Parameters
  <2>3. (l + 1) % LINES = 0
    BY <1>1, <1>5, Parameters, SmallRest
  <2> HIDE DEF k, m
  <2>4. (k + b + 1) % m = 0
    <3>1. m % m = 0
      BY <1>1, SmallRest
    <3>2. QED
      BY <2>2, <3>1
  <2>5. WordAt(0, 0) = 0
    BY Parameters DEF WordAt
  <2>6. QED
    BY <1>2, <1>5, <2>3, <2>4, <2>5 DEF LineAfter
<1>6. l + 1 < LINES \/ l + 1 = LINES
  BY <1>1, Parameters
<1>7. QED
  BY <1>3, <1>4, <1>5, <1>6

\* A round does not come back before its end.
LEMMA RoundOnce ==
  ASSUME NEW c \in Beat, NEW j \in 0 .. BEATS - 1, NEW k \in 0 .. BEATS - 1,
         (c + j) % BEATS = (c + k) % BEATS
  PROVE  j = k
<1>1. /\ c \in Nat /\ c < BEATS /\ j \in Nat /\ j < BEATS /\ k \in Nat /\ k < BEATS
      /\ BEATS \in Nat /\ BEATS >= 1
  BY Parameters DEF Beat
<1> DEFINE a == c + j
           b == c + k
<1>2. /\ a \in Nat /\ a < BEATS + BEATS /\ b \in Nat /\ b < BEATS + BEATS
      /\ a = c + j /\ b = c + k /\ a % BEATS = b % BEATS
  BY <1>1
<1> HIDE DEF a, b
<1>3. /\ a % BEATS = IF a < BEATS THEN a ELSE a - BEATS
      /\ b % BEATS = IF b < BEATS THEN b ELSE b - BEATS
  BY <1>1, <1>2, SmallRest
<1>4. QED
  BY <1>1, <1>2, <1>3

-----------------------------------------------------------------------------
(* The buffers with words for the core. *)

LEMMA PendingIs ==
  ASSUME BuffersInv
  PROVE  /\ Pending \subseteq Live /\ Live \subseteq Busy /\ Busy \subseteq FB
         /\ \A f \in Pending : /\ fb[f].out_cnt \in Beat /\ fb[f].out_cnt \in Nat
                               /\ fb[f].out_cnt < BEATS /\ ~fb[f].stale
         /\ \A f, g \in Pending :
              fb[f].older \cap Pending = {} /\ fb[g].older \cap Pending = {} => f = g
<1>1. Pending \subseteq Live /\ Live \subseteq Busy /\ Busy \subseteq FB
  BY DEF Pending, Live, Busy
<1>2. ASSUME NEW f \in Pending
      PROVE  /\ fb[f].out_cnt \in Beat /\ fb[f].out_cnt \in Nat
             /\ fb[f].out_cnt < BEATS /\ ~fb[f].stale
  <2>1. fb[f].out_cnt \in Nat /\ fb[f].out_cnt <= BEATS /\ fb[f].out_cnt # BEATS /\ ~fb[f].stale
    BY <1>1, BufferType DEF BuffersInv, Pending, Live, fill_out_done
  <2>2. QED
    BY <2>1, Parameters DEF Beat
<1>3. ASSUME NEW f \in Pending, NEW g \in Pending,
             fb[f].older \cap Pending = {}, fb[g].older \cap Pending = {}
      PROVE  f = g
  BY <1>1, <1>3 DEF BuffersInv, AgeIsOrder
<1>4. QED
  BY <1>1, <1>2, <1>3

\* Only the first of them hands over a word.
LEMMA FirstHandsOver ==
  ASSUME BuffersInv, NEW in
  PROVE  /\ \A f \in fill_out_arb(in) : f \in Pending /\ fb[f].older \cap Pending = {}
         /\ \A f \in Pending : \A g : fb[f].older \cap Pending = {} /\ g \in fill_out_arb(in) => g = f
<1>1. ASSUME NEW f \in fill_out_arb(in)
      PROVE  f \in Pending /\ fb[f].older \cap Pending = {}
  BY <1>1 DEF fill_out_arb, fill_out_req, fill_data_sel, Pending
<1>2. QED
  BY <1>1, PendingIs

Out(in) == IF in.take THEN fill_out_arb(in) ELSE {}

LEMMA PendingAfter ==
  ASSUME BuffersInv, NEW in, Legal(in), Cycle(in)
  PROVE  /\ in.branch => Pending' = Alloc(in)
         /\ ~in.branch =>
              /\ Pending \subseteq Stay(in)
              /\ Pending' = {f \in Pending : fb'[f].out_cnt # BEATS} \cup Alloc(in)
         /\ \A f \in Pending :
              f \in Stay(in) =>
                /\ fb'[f].addr = fb[f].addr /\ fb'[f].older = fb[f].older \ fill_done(in)
                /\ fb'[f].out_cnt = fb[f].out_cnt + One(f \in Out(in))
<1>1. /\ Busy' = Stay(in) \cup Alloc(in) /\ Stay(in) \subseteq Busy /\ Busy \subseteq FB
      /\ Alloc(in) \cap Busy = {} /\ Alloc(in) \subseteq FB
  BY BusyAfter
<1>2. Pending' = {f \in Stay(in) \cup Alloc(in) : ~fb'[f].stale /\ fb'[f].out_cnt # BEATS}
  BY <1>1 DEF Pending, Live, fill_out_done
<1>3. ASSUME NEW f \in Alloc(in)
      PROVE  ~fb'[f].stale /\ fb'[f].out_cnt # BEATS
  <2>1. ~fb'[f].stale /\ fb'[f].out_cnt = BeatOf(lookup_addr_ic0(in))
    BY <1>3, AllocAfter
  <2>2. BeatOf(lookup_addr_ic0(in)) \in Beat
    BY LookupAddr, WordParts DEF BuffersInv
  <2>3. QED
    BY <2>1, <2>2, Parameters DEF Beat
<1>4. ASSUME NEW f \in Stay(in)
      PROVE  /\ fb'[f].stale <=> fb[f].stale \/ in.branch
             /\ fb'[f].addr = fb[f].addr /\ fb'[f].older = fb[f].older \ fill_done(in)
             /\ fb'[f].out_cnt = fb[f].out_cnt + One(f \in Out(in))
  BY <1>4, StayAfter DEF Out
<1>5. CASE in.branch
  <2>1. Pending' = Alloc(in)
    BY <1>2, <1>3, <1>4, <1>5
  <2>2. QED
    BY <1>4, <1>5, <2>1
<1>6. CASE ~in.branch
  <2>1. ASSUME NEW f \in Pending PROVE f \in Stay(in)
    BY <1>6, <2>1 DEF Pending, Live, Stay, fill_done
  <2>2. ASSUME NEW f \in Stay(in), f \notin Pending PROVE f \notin Pending'
    <3>1. fb[f].stale \/ fb[f].out_cnt = BEATS
      BY <1>1, <2>2 DEF Pending, Live, fill_out_done
    <3>2. fb[f].out_cnt = BEATS => f \notin Out(in)
      BY DEF Out, fill_out_arb, fill_out_req, fill_out_done
    <3>3. fb'[f].stale \/ fb'[f].out_cnt = BEATS
      BY <1>4, <3>1, <3>2, Parameters DEF One
    <3>4. QED
      BY <1>2, <3>3
  <2>3. \A f \in Pending : f \in Stay(in) /\ ~fb'[f].stale
    BY <1>4, <1>6, <2>1, PendingIs
  <2>4. Pending' = {f \in Pending : fb'[f].out_cnt # BEATS} \cup Alloc(in)
    BY <1>1, <1>2, <1>3, <2>2, <2>3
  <2>5. QED
    BY <1>4, <1>6, <2>1, <2>4
<1>7. QED
  BY <1>5, <1>6

\* What the core and the next lookup make of their words.
LEMMA AddrsAfter ==
  ASSUME BuffersInv, NEW in, Legal(in), Cycle(in)
  PROVE  /\ data_valid(in) /\ in.take <=> Out(in) # {}
         /\ in.branch => out_word' = in.addr /\ (Alloc(in) = {} => prefetch_addr_q' = in.addr)
         /\ ~in.branch =>
              /\ running' => running
              /\ out_word' = IF Out(in) = {} THEN out_word ELSE NextWord(out_word)
              /\ Alloc(in) = {} => prefetch_addr_q' = prefetch_addr_q
         /\ lookup_addr_ic0(in) = IF in.branch THEN in.addr ELSE prefetch_addr_q
         /\ Alloc(in) # {} => prefetch_addr_q' = LineAfter(LineOf(lookup_addr_ic0(in)))
<1>1. data_valid(in) /\ in.take <=> Out(in) # {}
  BY DEF data_valid, Out
<1>2. Alloc(in) = {} <=> ~lookup_grant_ic0(in)
  BY AllocOfOne
<1>3. prefetch_addr_q' = prefetch_addr_d(in)
  BY DEF Cycle
<1>4. /\ in.branch => out_word' = in.addr
      /\ ~in.branch =>
           /\ running' => running
           /\ out_word' = IF data_valid(in) /\ in.take THEN NextWord(out_word) ELSE out_word
  BY DEF Cycle, Core
<1>5. QED
  BY <1>1, <1>2, <1>3, <1>4 DEF prefetch_addr_d, lookup_addr_ic0, LineAfter

LEMMA StreamAfterBranch ==
  ASSUME BuffersInv, NEW in, Legal(in), Cycle(in), in.branch
  PROVE  InStream'
<1>1. /\ Pending' = Alloc(in) /\ lookup_addr_ic0(in) = in.addr /\ out_word' = in.addr
      /\ Alloc(in) = {} => prefetch_addr_q' = in.addr
      /\ Alloc(in) # {} => prefetch_addr_q' = LineAfter(LineOf(in.addr))
  BY PendingAfter, AddrsAfter
<1>2. \A f \in Alloc(in) : /\ fb'[f].addr = in.addr /\ fb'[f].out_cnt = BeatOf(in.addr)
                           /\ fb'[f].older = Stay(in)
  BY <1>1, AllocAfter
<1>3. Alloc(in) \cap Stay(in) = {} /\ \A f, g \in Alloc(in) : f = g
  BY BusyAfter
<1>4. /\ LineOf(in.addr) \in Line /\ WordAt(LineOf(in.addr), BeatOf(in.addr)) = in.addr
      /\ BeatOf(LineAfter(LineOf(in.addr))) = 0
  BY WordParts, LineAfterIs DEF Legal
<1>5. \A f, g \in Alloc(in) : f \notin fb'[g].older
  BY <1>2, <1>3
<1>6. \A f \in Alloc(in) : fb'[f].older \cap Alloc(in) = {}
  BY <1>2, <1>3
<1> SUFFICES
      /\ Alloc(in) = {} => prefetch_addr_q' = out_word'
      /\ Alloc(in) # {} => BeatOf(prefetch_addr_q') = 0
      /\ \A f \in Alloc(in) :
           /\ IF fb'[f].older \cap Alloc(in) = {}
                THEN out_word' = WordAt(LineOf(fb'[f].addr), fb'[f].out_cnt)
                ELSE fb'[f].out_cnt = 0
           /\ (\A g \in Alloc(in) : f \notin fb'[g].older) =>
                prefetch_addr_q' = LineAfter(LineOf(fb'[f].addr))
           /\ \A g \in Alloc(in) : f \in fb'[g].older => fb'[g].addr = LineAfter(LineOf(fb'[f].addr))
  BY <1>1 DEF InStream, Precedes, LineAfter, LineOf, BeatOf, WordAt
<1>7. QED
  BY <1>1, <1>2, <1>4, <1>5, <1>6

LEMMA StreamGoesOn ==
  ASSUME BuffersInv, InStream, NEW in, Legal(in), Cycle(in), ~in.branch
  PROVE  InStream'
<1> SUFFICES ASSUME running' PROVE InStream'
  BY DEF InStream
<1> DEFINE kept == Pending \cap Pending'
           first(f) == fb[f].older \cap Pending = {}
<1>1. /\ Pending \subseteq Stay(in) /\ Pending' = {f \in Pending : fb'[f].out_cnt # BEATS} \cup Alloc(in)
      /\ \A f \in Pending :
           /\ fb'[f].addr = fb[f].addr /\ fb'[f].older = fb[f].older \ fill_done(in)
           /\ fb'[f].out_cnt = fb[f].out_cnt + One(f \in Out(in))
  BY PendingAfter
<1>2. /\ running /\ lookup_addr_ic0(in) = prefetch_addr_q
      /\ out_word' = IF Out(in) = {} THEN out_word ELSE NextWord(out_word)
      /\ Alloc(in) = {} => prefetch_addr_q' = prefetch_addr_q
      /\ Alloc(in) # {} => prefetch_addr_q' = LineAfter(LineOf(prefetch_addr_q))
  BY AddrsAfter
<1>3. \A f \in Alloc(in) : /\ fb'[f].addr = prefetch_addr_q /\ fb'[f].out_cnt = BeatOf(prefetch_addr_q)
                           /\ fb'[f].older = Stay(in)
  BY <1>2, AllocAfter
<1>4. /\ Pending = {} => prefetch_addr_q = out_word
      /\ Pending # {} => BeatOf(prefetch_addr_q) = 0
      /\ \A f \in Pending :
           /\ first(f) => out_word = WordAt(LineOf(fb[f].addr), fb[f].out_cnt)
           /\ ~first(f) => fb[f].out_cnt = 0
           /\ (\A g \in Pending : f \notin fb[g].older) =>
                prefetch_addr_q = LineAfter(LineOf(fb[f].addr))
           /\ \A g \in Pending : Precedes(f, g) => fb[g].addr = LineAfter(LineOf(fb[f].addr))
  BY <1>2 DEF InStream
<1>5. /\ Pending \subseteq Busy /\ Alloc(in) \cap Busy = {} /\ Alloc(in) \cap Stay(in) = {}
      /\ Stay(in) \subseteq Busy /\ \A f, g \in Alloc(in) : f = g
      /\ Alloc(in) \cap Pending = {}
  BY PendingIs, BusyAfter
<1>6. /\ kept \subseteq Pending /\ kept \subseteq Stay(in) /\ Pending' = kept \cup Alloc(in)
      /\ \A f \in Pending : f \in kept <=> fb'[f].out_cnt # BEATS
  BY <1>1, <1>5
<1>7. /\ \A f, g \in Pending : f \in fb'[g].older <=> f \in fb[g].older
      /\ \A f \in Pending : fb'[f].older \subseteq Busy
  <2>1. \A f \in Pending : f \notin fill_done(in)
    BY <1>1 DEF Stay
  <2>2. \A f \in Pending : fb[f].older \subseteq Busy
    BY <1>5 DEF BuffersInv, AgeIsOrder
  <2>3. QED
    BY <1>1, <2>1, <2>2
<1>8. ASSUME NEW f \in Pending, first(f)
      PROVE  /\ Out(in) # {} <=> f \in Out(in)
             /\ f \in kept => out_word' = WordAt(LineOf(fb[f].addr), fb'[f].out_cnt)
             /\ f \notin kept => out_word' = LineAfter(LineOf(fb[f].addr))
  <2>1. Out(in) # {} <=> f \in Out(in)
    BY <1>8, FirstHandsOver DEF Out
  <2>2. /\ fb[f].out_cnt \in Beat /\ fb[f].out_cnt \in Nat /\ fb[f].out_cnt < BEATS
        /\ LineOf(fb[f].addr) \in Line
    BY PendingIs, BufferType DEF BuffersInv
  <2>3. out_word = WordAt(LineOf(fb[f].addr), fb[f].out_cnt)
    BY <1>4, <1>8
  <2>4. NextWord(out_word) = IF fb[f].out_cnt + 1 = BEATS THEN LineAfter(LineOf(fb[f].addr))
                             ELSE WordAt(LineOf(fb[f].addr), fb[f].out_cnt + 1)
    BY <2>2, <2>3, NextWordIs
  <2>5. CASE f \in Out(in)
    <3>1. fb'[f].out_cnt = fb[f].out_cnt + 1 /\ out_word' = NextWord(out_word)
      BY <1>1, <1>2, <2>5 DEF One
    <3>2. QED
      BY <1>6, <2>1, <2>4, <3>1
  <2>6. CASE f \notin Out(in)
    <3>1. fb'[f].out_cnt = fb[f].out_cnt /\ out_word' = out_word
      BY <1>1, <1>2, <2>1, <2>2, <2>6 DEF One
    <3>2. QED
      BY <1>6, <2>1, <2>2, <2>3, <3>1
  <2>7. QED
    BY <2>1, <2>5, <2>6
<1>9. ASSUME NEW f \in Pending, ~first(f)
      PROVE  f \in kept /\ fb'[f].out_cnt = 0
  <2>1. f \notin Out(in)
    BY <1>9, FirstHandsOver DEF Out
  <2>2. fb'[f].out_cnt = 0
    BY <1>1, <1>4, <1>9, <2>1 DEF One
  <2>3. QED
    BY <1>6, <2>2, Parameters
<1>10. Pending # {} => \E h \in Pending : first(h) /\ \A g \in Pending : g # h => h \in fb[g].older
  <2> SUFFICES ASSUME Pending # {}
               PROVE  \E h \in Pending : first(h) /\ \A g \in Pending : g # h => h \in fb[g].older
    OBVIOUS
  <2>1. PICK h \in Pending : Oldest(Pending) = {h}
    BY <1>5, OldestOne DEF BuffersInv
  <2>2. first(h)
    BY <2>1 DEF Oldest
  <2>3. \A g \in Pending : g # h => h \in fb[g].older
    BY <1>5, <2>2 DEF BuffersInv, AgeIsOrder
  <2>4. QED
    BY <2>2, <2>3
<1>11. kept = {} => out_word' = prefetch_addr_q
  <2>1. CASE Pending = {}
    <3>1. Out(in) = {}
      BY <2>1, FirstHandsOver DEF Out
    <3>2. QED
      BY <1>2, <1>4, <2>1, <3>1
  <2>2. CASE Pending # {} /\ kept = {}
    <3>1. PICK h \in Pending : first(h)
      BY <1>10, <2>2
    <3>2. \A g \in Pending : first(g)
      BY <1>9, <2>2
    <3>3. \A g \in Pending : h \notin fb[g].older
      BY <3>2
    <3>4. prefetch_addr_q = LineAfter(LineOf(fb[h].addr))
      BY <1>4, <3>3
    <3>5. QED
      BY <1>8, <2>2, <3>1, <3>4
  <2>3. QED
    BY <2>1, <2>2
<1>12. ASSUME NEW f \in kept, \A g \in kept : f \notin fb[g].older
       PROVE  prefetch_addr_q = LineAfter(LineOf(fb[f].addr))
  <2>1. \A g \in Pending : f \notin fb[g].older
    BY <1>9, <1>12
  <2>2. QED
    BY <1>4, <2>1
<1>13. Alloc(in) = {} /\ kept = {} => prefetch_addr_q' = out_word'
  BY <1>2, <1>11
<1>14. prefetch_addr_q \in Word /\ LineOf(prefetch_addr_q) \in Line
       /\ WordAt(LineOf(prefetch_addr_q), BeatOf(prefetch_addr_q)) = prefetch_addr_q
       /\ BeatOf(LineAfter(LineOf(prefetch_addr_q))) = 0
  <2>1. prefetch_addr_q \in Word
    BY DEF BuffersInv, TypeOK
  <2>2. QED
    BY <2>1, WordParts, LineAfterIs
<1>15. Pending' # {} => BeatOf(prefetch_addr_q') = 0
  BY <1>2, <1>4, <1>6, <1>14
<1>16. ASSUME NEW f \in Pending'
       PROVE  /\ fb'[f].older \cap Pending' = {} =>
                   out_word' = WordAt(LineOf(fb'[f].addr), fb'[f].out_cnt)
              /\ fb'[f].older \cap Pending' # {} => fb'[f].out_cnt = 0
  <2>1. CASE f \in Alloc(in)
    <3>1. fb'[f].older \cap Pending' = kept
      BY <1>3, <1>5, <1>6, <2>1
    <3>2. kept # {} => fb'[f].out_cnt = 0
      BY <1>3, <1>4, <2>1
    <3>3. kept = {} => out_word' = WordAt(LineOf(fb'[f].addr), fb'[f].out_cnt)
      BY <1>3, <1>11, <1>14, <2>1
    <3>4. QED
      BY <3>1, <3>2, <3>3
  <2>2. CASE f \in kept /\ first(f)
    <3>1. fb'[f].older \cap Pending' = {}
      BY <1>5, <1>6, <1>7, <2>2
    <3>2. QED
      BY <1>1, <1>8, <2>2, <3>1
  <2>3. CASE f \in kept /\ ~first(f)
    <3>1. fb'[f].out_cnt = 0
      BY <1>9, <2>3
    <3>2. ASSUME fb'[f].older \cap Pending' = {}
          PROVE  out_word' = WordAt(LineOf(fb[f].addr), 0)
      <4>1. PICK h \in Pending : first(h) /\ \A g \in Pending : g # h => h \in fb[g].older
        BY <1>10, <2>3
      <4>2. h \in fb[f].older /\ h \in fb'[f].older
        BY <1>7, <2>3, <4>1
      <4>3. h \notin kept
        BY <3>2, <4>2
      <4>4. Precedes(h, f)
        <5>1. ASSUME NEW k \in Pending, h \in fb[k].older, k \in fb[f].older PROVE FALSE
          <6>1. k \in kept
            BY <1>9, <5>1
          <6>2. k \in fb'[f].older
            BY <1>7, <2>3, <5>1
          <6>3. QED
            BY <3>2, <6>1, <6>2
        <5>2. QED
          BY <4>2, <5>1 DEF Precedes
      <4>5. fb[f].addr = LineAfter(LineOf(fb[h].addr)) /\ out_word' = LineAfter(LineOf(fb[h].addr))
        BY <1>4, <1>8, <2>3, <4>1, <4>3, <4>4
      <4>6. LineOf(fb[h].addr) \in Line
        BY <1>5, BufferType DEF BuffersInv, Busy
      <4>7. QED
        BY <4>5, <4>6, LineAfterIs
    <3>3. QED
      BY <1>1, <2>3, <3>1, <3>2
  <2>4. QED
    BY <1>6, <2>1, <2>2, <2>3
<1>17. ASSUME NEW f \in Pending', \A g \in Pending' : f \notin fb'[g].older
       PROVE  prefetch_addr_q' = LineAfter(LineOf(fb'[f].addr))
  <2>1. CASE f \in Alloc(in)
    BY <1>2, <1>3, <2>1
  <2>2. CASE f \in kept
    <3>1. Alloc(in) = {}
      BY <1>3, <1>6, <1>17, <2>2
    <3>2. \A g \in kept : f \notin fb[g].older
      BY <1>7, <1>17, <2>2
    <3>3. QED
      BY <1>1, <1>2, <1>12, <2>2, <3>1, <3>2
  <2>3. QED
    BY <1>6, <2>1, <2>2
<1>18. ASSUME NEW f \in Pending', NEW g \in Pending', f \in fb'[g].older,
              \A k \in Pending' : ~(f \in fb'[k].older /\ k \in fb'[g].older)
       PROVE  fb'[g].addr = LineAfter(LineOf(fb'[f].addr))
  <2>1. f \in kept
    BY <1>3, <1>5, <1>6, <1>7, <1>18
  <2>2. CASE g \in Alloc(in)
    <3>1. \A k \in kept : f \notin fb[k].older
      BY <1>3, <1>6, <1>7, <1>18, <2>1, <2>2
    <3>2. QED
      BY <1>1, <1>3, <1>12, <2>1, <2>2, <3>1
  <2>3. CASE g \in kept
    <3>1. \A k \in Pending : ~(f \in fb[k].older /\ k \in fb[g].older)
      BY <1>7, <1>9, <1>18, <2>1, <2>3
    <3>2. Precedes(f, g)
      BY <1>7, <1>18, <2>1, <2>3, <3>1 DEF Precedes
    <3>3. QED
      BY <1>1, <1>4, <2>1, <2>3, <3>2
  <2>4. QED
    BY <1>6, <2>2, <2>3
<1>19. /\ Pending' = {} => prefetch_addr_q' = out_word'
  BY <1>6, <1>13
<1> HIDE DEF kept, first
<1>20. QED
  BY <1>15, <1>16, <1>17, <1>18, <1>19 DEF InStream, Precedes, LineAfter, LineOf, BeatOf, WordAt

-----------------------------------------------------------------------------
(* What a hit and an answer bring. *)

LEMMA OutTurnStep ==
  ASSUME BuffersInv, OutInTurn, NEW in, Legal(in), Cycle(in)
  PROVE  OutInTurn'
<1> SUFFICES ASSUME NEW f \in Pending'
    PROVE /\ BeatOf(fb'[f].addr) <= fb'[f].out_cnt
          /\ ~fb'[f].hit => fb'[f].out_cnt <= BeatOf(fb'[f].addr) + fb'[f].rvd_cnt
  BY DEF OutInTurn, BeatOf, fill_rvd_beat
<1>1. f \in Alloc(in) \/ (f \in Pending /\ f \in Stay(in))
  BY PendingAfter
<1>2. CASE f \in Alloc(in)
  <2>1. /\ fb'[f].addr = lookup_addr_ic0(in) /\ fb'[f].out_cnt = BeatOf(lookup_addr_ic0(in))
        /\ fb'[f].rvd_cnt = 0
    BY <1>2, AllocAfter
  <2>2. BeatOf(lookup_addr_ic0(in)) \in Nat
    BY LookupAddr, WordParts, Parameters DEF BuffersInv, Beat
  <2>3. QED
    BY <2>1, <2>2
<1>3. CASE f \in Pending /\ f \in Stay(in)
  <2>1. /\ fb'[f].addr = fb[f].addr /\ fb'[f].out_cnt = fb[f].out_cnt + One(f \in Out(in))
        /\ fb'[f].rvd_cnt = fb[f].rvd_cnt + One(Receives(in, f))
        /\ fb'[f].hit <=> fb[f].hit \/ fill_hit_ic1(in, f)
    BY <1>3, StayAfter DEF Out
  <2>2. /\ fb[f].out_cnt \in Nat /\ fb[f].rvd_cnt \in Nat /\ BeatOf(fb[f].addr) \in Nat
    BY <1>3, PendingIs, BufferType DEF BuffersInv
  <2>3. /\ BeatOf(fb[f].addr) <= fb[f].out_cnt
        /\ ~fb[f].hit => fb[f].out_cnt <= BeatOf(fb[f].addr) + fb[f].rvd_cnt
    BY <1>3 DEF OutInTurn, fill_rvd_beat
  <2>4. f \in Out(in) =>
          \/ fill_hit_ic1(in, f) \/ fb[f].hit
          \/ BeatOf(fb[f].addr) + fb[f].rvd_cnt > fb[f].out_cnt \/ Receives(in, f)
    BY DEF Out, fill_out_arb, fill_out_req, fill_rvd_beat, Receives
  <2>5. QED
    BY <2>1, <2>2, <2>3, <2>4 DEF One
<1>4. QED
  BY <1>1, <1>2, <1>3

\* What the RAMs return is current: the lookup is made when nothing is invalidated.
LEMMA LookupStep ==
  ASSUME ICacheInv, NEW in, Legal(in), Cycle(in)
  PROVE  LookupCurrent'
<1> SUFFICES ASSUME lookup'.valid
    PROVE  /\ lookup'.fb \in Pending' /\ lookup'.line = LineOf(fb'[lookup'.fb].addr)
           /\ \A w \in tag_match_ic1', b \in Beat :
                /\ lookup'.data[w][b].word = WordAt(lookup'.line, b)
                /\ ~lookup'.data[w][b].bad /\ ~lookup'.data[w][b].old
  BY DEF LookupCurrent, Current, LineOf, WordAt
<1> DEFINE word == lookup_addr_ic0(in)
           line == LineOf(word)
<1>1. BuffersInv /\ RamsMatchMemory
  BY DEF ICacheInv, RamsCoherent
<1>2. word \in Word /\ line \in Line
  BY <1>1, LookupAddr, WordParts DEF BuffersInv
<1>3. /\ lookup_actual_ic0(in) /\ lookup'.fb = (CHOOSE f \in fill_alloc_sel : TRUE)
      /\ lookup'.line = line
      /\ lookup'.tags = tags[IndexOf(line)] /\ lookup'.data = data[IndexOf(line)]
  BY DEF Cycle, Rams, lookup_d, NoLookup
<1>4. lookup_grant_ic0(in) /\ inval_state_q = "IDLE"
  BY <1>3 DEF lookup_actual_ic0, inval_block_cache
<1>5. PICK a \in FB \ Busy : Alloc(in) = {a} /\ fill_alloc_sel = {a}
  BY <1>4, AllocOfOne
<1>6. lookup'.fb = a /\ a \in Pending' /\ fb'[a].addr = word
  BY <1>1, <1>3, <1>5, AllocAfter, PendingAfter
<1>7. ASSUME NEW w \in tag_match_ic1', NEW b \in Beat
      PROVE  /\ lookup'.data[w][b].word = WordAt(line, b)
             /\ ~lookup'.data[w][b].bad /\ ~lookup'.data[w][b].old
  <2> DEFINE i == IndexOf(line)
  <2>1. w \in Way /\ lookup'.tags[w] = TagOf(line)
    BY <1>3 DEF tag_match_ic1, TagOf
  <2>2. i \in Index /\ TagOf(line) \notin {Invalid, Unknown} /\ TagOf(line) * INDEXES + i = line
    BY <1>2, TagParts
  <2>3. tags[i][w] = TagOf(line) /\ lookup'.data[w] = data[i][w]
    BY <1>3, <2>1
  <2> HIDE DEF i, line
  <2>4. QED
    BY <1>1, <1>4, <2>1, <2>2, <2>3 DEF RamsMatchMemory
<1>8. QED
  BY <1>3, <1>6, <1>7

\* Ways that match have the same words, so that an OR of them is these words.
LEMMA HitData ==
  ASSUME TypeOK, LookupCurrent, tag_hit_ic1
  PROVE  /\ Current(lookup.line, hit_data_ic1)
         /\ \A b \in Beat : ~hit_data_ic1[b].old
<1>1. PICK w \in Way : w \in tag_match_ic1
  BY DEF tag_hit_ic1, tag_match_ic1
<1>2. lookup.valid
  BY <1>1 DEF tag_match_ic1
<1>3. \A v \in tag_match_ic1, b \in Beat :
        /\ lookup.data[v][b].word = WordAt(lookup.line, b)
        /\ ~lookup.data[v][b].bad /\ ~lookup.data[v][b].old
  BY <1>2 DEF LookupCurrent, Current
<1>4. \A v \in tag_match_ic1 : lookup.data[v] \in [Beat -> Datum]
  BY DEF TypeOK, RamsTypeOK, tag_match_ic1
<1>5. ASSUME NEW v \in tag_match_ic1 PROVE lookup.data[v] = lookup.data[w]
  <2>1. ASSUME NEW b \in Beat PROVE lookup.data[v][b] = lookup.data[w][b]
    <3> DEFINE x == lookup.data[v][b]
               y == lookup.data[w][b]
    <3>1. x \in Datum /\ y \in Datum /\ x.word = y.word
      BY <1>1, <1>3, <1>4
    <3>2. x.old = FALSE /\ y.old = FALSE /\ x.bad = FALSE /\ y.bad = FALSE
      <4>1. x.old \in BOOLEAN /\ y.old \in BOOLEAN /\ x.bad \in BOOLEAN /\ y.bad \in BOOLEAN
        BY <3>1 DEF Datum
      <4>2. ~x.old /\ ~y.old /\ ~x.bad /\ ~y.bad
        BY <1>1, <1>3
      <4>3. QED
        BY <4>1, <4>2
    <3> HIDE DEF x, y
    <3>3. x = y
      BY <3>1, <3>2 DEF Datum
    <3>4. QED
      BY <3>3 DEF x, y
  <2>2. QED
    BY <1>1, <1>4, <2>1
<1>6. {lookup.data[v] : v \in tag_match_ic1} = {lookup.data[w]}
  BY <1>1, <1>5
<1>7. hit_data_ic1 = lookup.data[w]
  <2>1. Cardinality({lookup.data[w]}) = 1
    BY FS_Singleton
  <2>2. QED
    BY <1>6, <2>1 DEF hit_data_ic1, Merged
<1>8. QED
  BY <1>1, <1>3, <1>7 DEF Current

LEMMA HitIs ==
  ASSUME BuffersInv, LookupCurrent, NEW in, NEW f, fill_hit_ic1(in, f)
  PROVE  /\ f = lookup.fb /\ f \in Pending
         /\ Current(LineOf(fb[f].addr), hit_data_ic1)
         /\ \A b \in Beat : ~hit_data_ic1[b].old
<1>1. f = lookup.fb /\ lookup.valid /\ tag_hit_ic1
  BY DEF fill_hit_ic1
<1>2. QED
  BY <1>1, HitData DEF LookupCurrent, BuffersInv

LEMMA HitsStep ==
  ASSUME BuffersInv, LookupCurrent, HitsCurrent, NEW in, Legal(in), Cycle(in)
  PROVE  HitsCurrent'
<1> SUFFICES ASSUME NEW f \in Busy', fb'[f].hit, NEW b \in Beat
    PROVE  fb'[f].data[b].word = WordAt(LineOf(fb'[f].addr), b) /\ ~fb'[f].data[b].bad
  BY DEF HitsCurrent, Current, LineOf, WordAt
<1>1. f \in Stay(in) /\ f \in Busy
  BY BusyAfter, AllocAfter
<1> DEFINE d == fill_data_d(in, f, Receives(in, f))
<1>2. /\ fb'[f].addr = fb[f].addr /\ (fb[f].hit \/ fill_hit_ic1(in, f))
      /\ fb'[f].data = IF in.inval THEN Aged(d) ELSE d
  BY <1>1, StayAfter DEF StayData
<1>3. d \in [Beat -> Datum]
  BY <1>1, DataTypes DEF BuffersInv
<1>4. d[b].word = WordAt(LineOf(fb[f].addr), b) /\ ~d[b].bad
  <2>1. CASE fill_hit_ic1(in, f)
    BY <2>1, HitIs DEF fill_data_d, Current
  <2>2. CASE ~fill_hit_ic1(in, f)
    <3>1. fb[f].hit /\ d = fb[f].data
      BY <1>2, <2>2 DEF fill_data_d
    <3>2. QED
      BY <1>1, <3>1 DEF HitsCurrent, Current
  <2>3. QED
    BY <2>1, <2>2
<1> HIDE DEF d
<1>5. QED
  BY <1>2, <1>3, <1>4, AgedIs

LEMMA ErrorsStep ==
  ASSUME BuffersInv, ErrorsKept, NEW in, Legal(in), Cycle(in)
  PROVE  ErrorsKept'
<1> SUFFICES ASSUME NEW f \in Busy', NEW b \in fb'[f].err
    PROVE  b \in Received(f)' /\ (~fb'[f].hit => fb'[f].data[b].bad)
  BY DEF ErrorsKept
<1>1. f \in Stay(in) /\ f \in Busy /\ f \in FB
  BY BusyAfter, AllocAfter
<1> DEFINE d == fill_data_d(in, f, Receives(in, f))
           c == BeatOf(fb[f].addr)
           n == fb[f].rvd_cnt
           off == fill_rvd_off(f)
<1>2. /\ fb'[f].addr = fb[f].addr /\ (fb'[f].hit <=> fb[f].hit \/ fill_hit_ic1(in, f))
      /\ fb'[f].data = IF in.inval THEN Aged(d) ELSE d
      /\ fb'[f].rvd_cnt = n + One(Receives(in, f))
      /\ fb'[f].err = fb[f].err \cup IF Receives(in, f) /\ in.err THEN {off} ELSE {}
  BY <1>1, StayAfter DEF StayData
<1>3. /\ c \in Beat /\ n \in Nat /\ off \in Beat /\ fb[f].err \in SUBSET Beat /\ off = (c + n) % BEATS
      /\ d \in [Beat -> Datum] /\ fb[f].data \in [Beat -> Datum]
  BY <1>1, BufferType, DataTypes DEF BuffersInv, fill_rvd_off, fill_rvd_beat
<1>4. /\ Received(f) = {(c + k) % BEATS : k \in 0 .. n - 1}
      /\ Received(f)' = {(c + k) % BEATS : k \in 0 .. fb'[f].rvd_cnt - 1}
  BY <1>2 DEF Received, BeatOf
<1>5. Receives(in, f) => n < BEATS
  <2>1. FillTypeOK'
    BY TypeStep DEF TypeOK
  <2>2. fb'[f].rvd_cnt \in 0 .. BEATS
    BY <1>1, <2>1 DEF FillTypeOK, Buffer
  <2>3. QED
    BY <1>2, <1>3, <2>2, Parameters DEF One
<1>6. fb[f].err \subseteq Received(f) /\ (~fb[f].hit => \A e \in fb[f].err : fb[f].data[e].bad)
  BY <1>1 DEF ErrorsKept
<1>7. b \in Beat
  BY <1>2, <1>3
<1> HIDE DEF c, n, off, d
<1>8. b \in Received(f)'
  <2>1. CASE b \in fb[f].err
    <3>1. PICK k \in 0 .. n - 1 : b = (c + k) % BEATS
      BY <1>4, <1>6, <2>1
    <3>2. k \in 0 .. fb'[f].rvd_cnt - 1
      BY <1>2, <1>3, <3>1 DEF One
    <3>3. QED
      BY <1>4, <3>1, <3>2
  <2>2. CASE b \notin fb[f].err
    <3>1. b = off /\ Receives(in, f)
      BY <1>2, <2>2
    <3>2. n \in 0 .. fb'[f].rvd_cnt - 1
      BY <1>2, <1>3, <3>1 DEF One
    <3>3. QED
      BY <1>3, <1>4, <3>1, <3>2
  <2>3. QED
    BY <2>1, <2>2
<1>9. ~fb'[f].hit => d[b].bad
  <2> SUFFICES ASSUME ~fb'[f].hit PROVE d[b].bad
    OBVIOUS
  <2>1. d = IF Receives(in, f) THEN [fb[f].data EXCEPT ![off] = in.rdata] ELSE fb[f].data
    BY <1>2 DEF fill_data_d, d, off
  <2>2. ~fb[f].hit
    BY <1>2
  <2>3. CASE Receives(in, f) /\ b = off
    <3>1. d[b] = in.rdata
      BY <1>3, <2>1, <2>3
    <3>2. in.rvalid /\ (in.rdata.bad <=> in.err)
      BY <2>3, Receivers DEF Legal
    <3>3. b \notin fb[f].err
      <4>1. SUFFICES ASSUME b \in fb[f].err PROVE FALSE
        OBVIOUS
      <4>2. PICK k \in 0 .. n - 1 : b = (c + k) % BEATS
        BY <1>4, <1>6, <4>1
      <4>3. k \in 0 .. BEATS - 1 /\ n \in 0 .. BEATS - 1 /\ (c + k) % BEATS = (c + n) % BEATS
        BY <1>3, <1>5, <2>3, <4>2, Parameters
      <4>4. k = n
        BY <1>3, <4>3, RoundOnce
      <4>5. QED
        BY <1>3, <4>2, <4>4
    <3>4. in.err
      BY <1>2, <3>3
    <3>5. QED
      BY <3>1, <3>2, <3>4
  <2>4. CASE ~(Receives(in, f) /\ b = off)
    <3>1. b \in fb[f].err /\ d[b] = fb[f].data[b]
      BY <1>2, <1>3, <1>7, <2>1, <2>4
    <3>2. QED
      BY <1>6, <2>2, <3>1
  <2>5. QED
    BY <2>3, <2>4
<1>10. QED
  BY <1>2, <1>3, <1>7, <1>8, <1>9, AgedIs

LEMMA LiveAfter ==
  ASSUME BuffersInv, NEW in, Legal(in), Cycle(in), NEW f \in Live'
  PROVE  f \in Alloc(in) \/ (f \in Stay(in) /\ f \in Live /\ f \in Busy /\ ~in.branch)
<1>1. f \in Busy' /\ ~fb'[f].stale
  BY DEF Live
<1>2. f \in Alloc(in) \/ (f \in Stay(in) /\ f \in Busy)
  BY <1>1, BusyAfter
<1>3. f \in Stay(in) => ~fb[f].stale /\ ~in.branch
  BY <1>1, StayAfter
<1>4. QED
  BY <1>2, <1>3 DEF Live

LEMMA OldStep ==
  ASSUME BuffersInv, LookupCurrent, OldFenced, NEW in, Legal(in), Cycle(in)
  PROVE  OldFenced'
<1>1. fenced' <=> ~in.branch /\ (fenced \/ in.inval)
  BY DEF Cycle, Core
<1>2. ASSUME NEW f \in Live', NEW b \in Beat, fb'[f].data[b].old
      PROVE  fenced'
  <2>1. f \notin Alloc(in)
    BY <1>2, AllocAfter DEF NoData, Junk
  <2>2. f \in Stay(in) /\ f \in Live /\ f \in Busy /\ ~in.branch
    BY <2>1, LiveAfter
  <2> SUFFICES ASSUME ~in.inval PROVE fenced
    BY <1>1, <2>2
  <2> DEFINE d == fill_data_d(in, f, Receives(in, f))
  <2>3. d[b].old
    BY <1>2, <2>2, StayAfter DEF StayData
  <2>4. ~fill_hit_ic1(in, f)
    BY <2>3, HitIs DEF fill_data_d
  <2>5. CASE Receives(in, f) /\ ~fb[f].hit /\ b = fill_rvd_off(f)
    <3>1. in.rvalid /\ bus[1].fb = f /\ (in.rdata.old <=> bus[1].old) /\ bus # <<>>
      BY <2>5, Receivers DEF Legal
    <3>2. 1 \in DOMAIN bus
      BY <3>1 DEF BuffersInv, TypeOK
    <3>3. fb[f].data \in [Beat -> Datum]
      BY <2>2, BufferType DEF BuffersInv, Busy
    <3>4. d[b] = in.rdata
      BY <2>4, <2>5, <3>3 DEF fill_data_d
    <3>5. QED
      BY <2>2, <2>3, <3>1, <3>2, <3>4 DEF OldFenced
  <2>6. CASE ~(Receives(in, f) /\ ~fb[f].hit /\ b = fill_rvd_off(f))
    <3>1. fb[f].data \in [Beat -> Datum]
      BY <2>2, BufferType DEF BuffersInv, Busy
    <3>2. d[b] = fb[f].data[b]
      BY <2>4, <2>6, <3>1 DEF fill_data_d
    <3>3. QED
      BY <2>2, <2>3, <3>2 DEF OldFenced
  <2>7. QED
    BY <2>5, <2>6
<1>3. ASSUME NEW i \in DOMAIN bus', bus'[i].fb \in Live', bus'[i].old
      PROVE  fenced'
  <2> DEFINE A == Asked(in)
             j == i + One(in.rvalid)
             n == Len(bus)
  <2>1. j \in DOMAIN A /\ bus'[i] = A[j]
    BY BusEffect
  <2>2. /\ A \in Seq(Request) /\ n \in Nat /\ Len(A) = n + One(Granted(in))
        /\ \A p \in 1 .. n : A[p].fb = bus[p].fb /\ (A[p].old <=> bus[p].old \/ in.inval)
        /\ Granted(in) => ~A[n + 1].old
    BY AskedIs
  <2> HIDE DEF A, j
  <2>3. j \in 1 .. n
    <3>1. j \in 1 .. Len(A)
      BY <2>1, <2>2
    <3>2. ~(Granted(in) /\ j = n + 1)
      BY <1>3, <2>1, <2>2
    <3>3. QED
      BY <2>2, <3>1, <3>2 DEF One
  <2>4. j \in DOMAIN bus /\ bus[j].fb \in Busy
    BY <2>3 DEF BuffersInv, TypeOK, BusInOrder
  <2>5. bus[j].fb \in Live' /\ (bus[j].old \/ in.inval)
    BY <1>3, <2>1, <2>2, <2>3
  <2>6. bus[j].fb \in Live /\ ~in.branch
    BY <2>4, <2>5, LiveAfter, BusyAfter
  <2>7. QED
    BY <1>1, <2>4, <2>5, <2>6 DEF OldFenced
<1>4. QED
  BY <1>2, <1>3 DEF OldFenced

-----------------------------------------------------------------------------
(* The word that is taken. *)

\* The word that is offered is the one the core is owed.
LEMMA OutputRight ==
  ASSUME BuffersInv, BuffersMatchMemory, StreamInv, running,
         NEW in, Legal(in), data_valid(in)
  PROVE  LET o == output(in, BeatOf(out_word)) IN
         /\ o.datum.word = out_word
         /\ o.datum.old => fenced
         /\ o.err <=> o.datum.bad
<1>1. PICK f \in fill_out_arb(in) : TRUE
  BY DEF data_valid
<1>2. f \in Pending /\ fb[f].older \cap Pending = {} /\ f \in Live /\ f \in Busy /\ f \in FB
  BY <1>1, FirstHandsOver, PendingIs
<1>3. \A g \in Pending : g \in fill_data_sel <=> g = f
  <2>1. fill_data_sel = {g \in FB : fb[g].older \cap Pending = {}}
    BY DEF fill_data_sel, Pending
  <2>2. QED
    BY <1>2, <2>1, PendingIs
<1> DEFINE l == LineOf(fb[f].addr)
           c == BeatOf(fb[f].addr)
           n == fb[f].rvd_cnt
           k == fb[f].out_cnt
<1>4. /\ l \in Line /\ c \in Beat /\ c \in Nat /\ n \in Nat /\ k \in Beat /\ k \in Nat /\ k < BEATS
      /\ fb[f].data \in [Beat -> Datum] /\ TypeOK
  BY <1>2, PendingIs, BufferType DEF BuffersInv
<1>5. out_word = WordAt(l, k) /\ BeatOf(out_word) = k
  BY <1>2, <1>4, PartsOf DEF StreamInv, InStream
<1>6. c <= k /\ (~fb[f].hit => k <= c + n)
  BY <1>2 DEF StreamInv, OutInTurn, fill_rvd_beat
<1>7. /\ \A g \in fill_data_rvd(in) : g = f
      /\ f \in fill_data_rvd(in) <=>
           Receives(in, f) /\ ~fb[f].hit /\ ~fill_hit_ic1(in, f) /\ c + n = k
  BY <1>2, <1>3 DEF fill_data_rvd, Pending, fill_rvd_beat, Receives
<1>8. \A g : g \in fill_data_hit(in) <=> g = f /\ fill_hit_ic1(in, f)
  <2>1. \A g \in fill_data_hit(in) : g \in Pending /\ g \in fill_data_sel
    BY HitIs DEF fill_data_hit, StreamInv
  <2>2. QED
    BY <1>2, <1>3, <2>1 DEF fill_data_hit
<1>9. CASE f \in fill_data_rvd(in)
  <2>1. in.rvalid /\ bus[1].fb = f /\ in.rdata.word = bus[1].word /\ bus # <<>>
        /\ (in.rdata.old <=> bus[1].old) /\ (in.rdata.bad <=> in.err)
    BY <1>7, <1>9, Receivers DEF Legal
  <2>2. 1 \in DOMAIN bus /\ 1 \in Of(bus, f)
    BY <2>1 DEF BuffersInv, TypeOK, Of
  <2>3. bus[1].word = WordAt(l, k)
    <3>1. Before(bus, f, 1) = {}
      BY DEF Before, Of, BuffersInv, TypeOK
    <3>2. Cardinality(Before(bus, f, 1)) = 0
      BY <3>1, FS_EmptySet
    <3>3. bus[1].word = WordAt(l, (fill_rvd_beat(f) + Cardinality(Before(bus, f, 1))) % BEATS)
      BY <1>2, <2>2, OwedIsOf DEF BuffersInv, CountsMatchBus
    <3>4. fill_rvd_beat(f) + 0 = k
      BY <1>4, <1>7, <1>9 DEF fill_rvd_beat
    <3>5. k % BEATS = k
      BY <1>4, Rotate
    <3> HIDE DEF k, l
    <3>6. QED
      BY <3>2, <3>3, <3>4, <3>5
  <2>4. bus[1].old => fenced
    BY <1>2, <2>1, <2>2 DEF StreamInv, OldFenced
  <2>5. LET o == output(in, BeatOf(out_word)) IN o.datum = in.rdata /\ o.err = in.err
    BY <1>9 DEF output
  <2>6. QED
    BY <1>5, <2>1, <2>3, <2>4, <2>5
<1>10. CASE f \notin fill_data_rvd(in)
  <2>1. fill_data_rvd(in) = {}
    BY <1>7, <1>10
  <2> DEFINE e == k \in line_err(in)
  <2>2. LET o == output(in, BeatOf(out_word)) IN o.datum = line_data(in)[k] /\ (o.err <=> e)
    <3>1. output(in, k) = [datum |-> line_data(in)[k], err |-> e]
      BY <2>1, Zenon DEF output
    <3> HIDE DEF e
    <3>2. QED
      BY <1>5, <3>1
  <2>3. CASE fill_hit_ic1(in, f)
    <3>1. line_data(in) = hit_data_ic1 /\ ~e
      BY <1>8, <2>3 DEF line_data, line_err
    <3>2. /\ hit_data_ic1[k].word = WordAt(l, k)
          /\ ~hit_data_ic1[k].bad /\ ~hit_data_ic1[k].old
      BY <1>4, <2>3, HitIs DEF StreamInv, Current
    <3>3. QED
      BY <1>5, <2>2, <3>1, <3>2
  <2>4. CASE ~fill_hit_ic1(in, f)
    <3>1. fb[f].hit \/ c + n > k
      <4>1. fb[f].hit \/ c + n > k \/ Receives(in, f)
        BY <1>1, <2>4 DEF fill_out_arb, fill_out_req, fill_rvd_beat, Receives
      <4>2. QED
        BY <1>4, <1>6, <1>7, <1>10, <2>4, <4>1
    <3>2. fill_data_reg = {f}
      <4>1. f \in fill_data_reg
        BY <1>2, <1>3, <3>1 DEF fill_data_reg, fill_rvd_beat, Pending
      <4>2. \A g \in fill_data_reg : g = f
        BY <1>3 DEF fill_data_reg, Pending
      <4>3. QED
        BY <4>1, <4>2
    <3>3. line_data(in) = fb[f].data
      <4>1. {fb[g].data : g \in fill_data_reg} = {fb[f].data}
        BY <3>2
      <4>2. Cardinality({fb[f].data}) = 1
        BY FS_Singleton
      <4>3. fill_data_hit(in) = {}
        BY <1>8, <2>4
      <4>4. QED
        BY <4>1, <4>2, <4>3 DEF line_data, Merged
    <3>4. line_err(in) = UNION {fb[g].err : g \in {h \in {f} : ~fb[h].hit}}
      BY <1>8, <2>4, <3>2 DEF line_err
    <3>5. e <=> ~fb[f].hit /\ k \in fb[f].err
      BY <3>4
    <3>6. fb[f].data[k].old => fenced
      BY <1>2, <1>4 DEF StreamInv, OldFenced
    <3>7. CASE fb[f].hit
      <4>1. fb[f].data[k].word = WordAt(l, k) /\ ~fb[f].data[k].bad
        BY <1>2, <1>4, <3>7 DEF StreamInv, HitsCurrent, Current
      <4>2. QED
        BY <1>5, <2>2, <3>3, <3>5, <3>6, <3>7, <4>1
    <3>8. CASE ~fb[f].hit
      <4>1. k \in Received(f)
        <5>1. k - c \in 0 .. n - 1 /\ c + (k - c) = k
          BY <1>4, <1>6, <3>1, <3>8
        <5>2. (c + (k - c)) % BEATS = k
          BY <1>4, <5>1, Rotate
        <5>3. QED
          BY <5>1, <5>2 DEF Received
      <4>2. fb[f].data[k].word = WordAt(l, k) /\ (fb[f].data[k].bad => k \in fb[f].err)
        BY <1>2, <3>8, <4>1 DEF BuffersMatchMemory
      <4>3. k \in fb[f].err => fb[f].data[k].bad
        BY <1>2, <3>8 DEF StreamInv, ErrorsKept
      <4>4. QED
        BY <1>5, <2>2, <3>3, <3>5, <3>6, <3>8, <4>2, <4>3
    <3>9. QED
      BY <3>7, <3>8
  <2>5. QED
    BY <2>3, <2>4
<1>11. QED
  BY <1>9, <1>10

LEMMA StreamInvStep ==
  ASSUME ICacheInv, StreamInv, NEW in, Legal(in), Cycle(in)
  PROVE  StreamInv'
<1>1. BuffersInv
  BY DEF ICacheInv
<1>2. InStream'
  BY <1>1, StreamAfterBranch, StreamGoesOn DEF StreamInv
<1>3. QED
  BY <1>1, <1>2, OutTurnStep, LookupStep, HitsStep, ErrorsStep, OldStep DEF StreamInv

LEMMA StreamNext == ICacheInv /\ StreamInv /\ [Next]_vars => StreamInv'
<1> SUFFICES ASSUME ICacheInv, StreamInv, [Next]_vars PROVE StreamInv'
  OBVIOUS
<1>1. CASE Next
  <2>1. PICK in : Legal(in) /\ Cycle(in)
    BY <1>1, NextInput DEF ICacheInv, BuffersInv
  <2>2. QED
    BY <2>1, StreamInvStep
<1>2. CASE UNCHANGED vars
  <2>1. /\ UNCHANGED fb /\ UNCHANGED bus /\ UNCHANGED lookup /\ UNCHANGED prefetch_addr_q
        /\ UNCHANGED out_word /\ UNCHANGED running /\ UNCHANGED fenced
    BY <1>2 DEF vars, ramVars, envVars
  <2>2. Busy' = Busy /\ Live' = Live /\ Pending' = Pending /\ tag_match_ic1' = tag_match_ic1
    BY <2>1 DEF Busy, Live, Pending, fill_out_done, tag_match_ic1, TagOf
  <2>3. InStream'
    BY <2>1, <2>2 DEF StreamInv, InStream, Precedes, LineAfter, LineOf, BeatOf, WordAt
  <2>4. OutInTurn' /\ LookupCurrent' /\ HitsCurrent' /\ ErrorsKept' /\ OldFenced'
    BY <2>1, <2>2 DEF StreamInv, OutInTurn, LookupCurrent, HitsCurrent, ErrorsKept, OldFenced,
       Current, Received, fill_rvd_beat, LineOf, BeatOf, WordAt
  <2>5. QED
    BY <2>3, <2>4 DEF StreamInv
<1>3. QED
  BY <1>1, <1>2

LEMMA StreamInit == Init => StreamInv
<1> SUFFICES ASSUME Init PROVE StreamInv
  OBVIOUS
<1>1. Busy = {} /\ Live = {} /\ Pending = {} /\ ~running /\ bus = <<>> /\ ~lookup.valid
  BY DEF Init, FillInit, RamsInit, NoLookup, Free, Busy, Live, Pending
<1>2. QED
  BY <1>1 DEF StreamInv, InStream, OutInTurn, LookupCurrent, HitsCurrent, ErrorsKept, OldFenced

LEMMA StreamInvariant == Spec => [](ICacheInv /\ StreamInv)
<1>1. Init => ICacheInv /\ StreamInv
  BY InitInv, StreamInit
<1>2. ICacheInv /\ StreamInv /\ [Next]_vars => (ICacheInv /\ StreamInv)'
  BY NextInv, StreamNext
<1>3. QED
  BY <1>1, <1>2, PTL DEF Spec

\* A clock edge is a step of the stream: what the core takes is what it is owed.
LEMMA CycleDelivers ==
  ASSUME ICacheInv, StreamInv, NEW in, Legal(in), Cycle(in)
  PROVE  [Promise!Next]_<<out_word, taken, running, fenced>>
<1>1. BuffersInv /\ TypeOK /\ TypeOK' /\ BuffersMatchMemory
  BY TypeStep DEF ICacheInv, BuffersInv
<1> DEFINE word == output(in, BeatOf(out_word))
           takes == data_valid(in) /\ in.take
<1>2. /\ taken' = IF takes /\ ~in.branch THEN <<word>> ELSE <<>>
      /\ running' = (in.branch \/ (running /\ ~(takes /\ word.err)))
      /\ fenced' = (~in.branch /\ (fenced \/ in.inval))
      /\ out_word' = IF in.branch THEN in.addr
                     ELSE IF takes THEN NextWord(out_word) ELSE out_word
  BY DEF Cycle, Core
<1>3. /\ word \in [datum : Datum, err : BOOLEAN] /\ word.datum \in Datum /\ word.err \in BOOLEAN
      /\ word = [datum |-> word.datum, err |-> word.err]
  <2>1. BeatOf(out_word) \in Beat
    BY <1>1, WordParts DEF TypeOK
  <2>2. word \in [datum : Datum, err : BOOLEAN]
    BY <1>1, <2>1, OutputType
  <2> HIDE DEF word
  <2>3. QED
    BY <2>2
<1>4. takes /\ running =>
        word.datum.word = out_word /\ (word.datum.old => fenced) /\ (word.err <=> word.datum.bad)
  BY <1>1, OutputRight
<1>5. /\ out_word \in Word /\ out_word' \in Word /\ in.addr \in Word /\ in.branch \in BOOLEAN
      /\ in.inval \in BOOLEAN /\ running \in BOOLEAN /\ fenced \in BOOLEAN
  BY <1>1 DEF TypeOK, Legal
<1> HIDE DEF word, takes
<1>6. CASE in.branch
  <2>1. Promise!Redirect(in.addr)
    BY <1>2, <1>5, <1>6 DEF Promise!Redirect
  <2>2. QED
    BY <1>5, <2>1 DEF Promise!Next
<1>7. CASE ~in.branch
  <2>1. Promise!Fence
    BY <1>2, <1>5, <1>7 DEF Promise!Fence
  <2>2. CASE ~takes
    BY <1>2, <1>5, <1>7, <2>1, <2>2 DEF Promise!Next, Promise!Nothing
  <2>3. CASE takes /\ ~running
    BY <1>2, <1>5, <1>7, <2>1, <2>3 DEF Promise!Next, Promise!Unspecified
  <2>4. CASE takes /\ running /\ ~word.err
    <3>1. word.datum.bad = FALSE /\ word.err = FALSE /\ taken' = <<[datum |-> word.datum, err |-> FALSE]>>
      <4>1. word.datum.bad \in BOOLEAN
        BY <1>3 DEF Datum
      <4>2. word.err = FALSE
        BY <1>3, <2>4
      <4>3. QED
        BY <1>2, <1>3, <1>4, <1>7, <2>4, <4>1, <4>2
    <3>2. Promise!Deliver(word.datum)
      BY <1>2, <1>4, <1>5, <1>7, <2>1, <2>4, <3>1 DEF Promise!Deliver
    <3>3. QED
      BY <1>3, <3>1, <3>2 DEF Promise!Next
  <2>5. CASE takes /\ running /\ word.err
    <3>1. word.err = TRUE /\ taken' = <<[datum |-> word.datum, err |-> TRUE]>>
      <4>1. word.err = TRUE
        BY <1>3, <2>5
      <4>2. QED
        BY <1>2, <1>3, <1>7, <2>5, <4>1
    <3>2. Promise!DeliverError
      BY <1>2, <1>3, <1>4, <1>5, <1>7, <2>1, <2>5, <3>1 DEF Promise!DeliverError
    <3>3. QED
      BY <3>2 DEF Promise!Next
  <2>6. QED
    BY <2>2, <2>3, <2>4, <2>5
<1>8. QED
  BY <1>6, <1>7

\* Whatever its parameters, the memory and the bus, the cache hands the core the words
\* of memory from each branch target on, in order, none from before a FENCE.I after the
\* jump that follows it, and an error exactly where the bus reported one.
THEOREM WordsDelivered == Spec => ImplementsWordStream
<1>1. Init => Promise!Init
  BY Parameters DEF Init, Promise!Init
<1>2. ICacheInv /\ StreamInv /\ [Next]_vars => [Promise!Next]_<<out_word, taken, running, fenced>>
  <2>1. ICacheInv /\ StreamInv /\ Next => [Promise!Next]_<<out_word, taken, running, fenced>>
    <3> SUFFICES ASSUME ICacheInv, StreamInv, Next
                 PROVE  [Promise!Next]_<<out_word, taken, running, fenced>>
      OBVIOUS
    <3>1. PICK in : Legal(in) /\ Cycle(in)
      BY NextInput DEF ICacheInv, BuffersInv
    <3>2. QED
      BY <3>1, CycleDelivers
  <2>2. UNCHANGED vars => [Promise!Next]_<<out_word, taken, running, fenced>>
    BY DEF vars, envVars
  <2>3. QED
    BY <2>1, <2>2
<1>3. QED
  BY <1>1, <1>2, StreamInvariant, PTL DEF Spec, ImplementsWordStream, Promise!Spec
=============================================================================
