------------------------------- MODULE PmpProofs -------------------------------
(***************************************************************************)
(* The PMP for any number of entries, any granularity, addresses of any    *)
(* width and any writes: its comparators and permissions decide as the     *)
(* architecture does, and what a lock protects stays as it is.  The        *)
(* inductive invariant is PmpInv.                                          *)
(***************************************************************************)
EXTENDS Pmp, WellFoundedInduction, TLAPS

LEMMA LeastNumber ==
  ASSUME NEW S \in SUBSET Nat, S # {}
  PROVE  \E n \in S : \A m \in S : n <= m
<1>1. PICK n \in S : \A m \in S : <<m, n>> \notin OpToRel(<, Nat)
  BY NatLessThanWellFounded, WFMin
<1>2. \A m \in S : ~(m < n)
  BY <1>1 DEF OpToRel
<1>3. QED
  BY <1>2

\* A set of numbers that holds the next of each of its members holds them all.
LEMMA EachNumber ==
  ASSUME NEW S \in SUBSET Nat, 0 \in S, \A n \in S : n + 1 \in S
  PROVE  S = Nat
<1>1. SUFFICES ASSUME Nat \ S # {} PROVE FALSE
  OBVIOUS
<1>2. PICK n \in Nat \ S : \A m \in Nat \ S : n <= m
  BY <1>1, LeastNumber
<1>3. n # 0 /\ n - 1 \in Nat /\ (n - 1) + 1 = n
  BY <1>2
<1>4. n - 1 \in S
  BY <1>2, <1>3
<1>5. QED
  BY <1>2, <1>3, <1>4

-----------------------------------------------------------------------------
(* Powers of two. *)

\* The powers up to n.
Powers(f, n) ==
  f \in [0 .. n -> Nat] /\ f[0] = 1 /\ \A i \in 1 .. n : f[i] = 2 * f[i - 1]

LEMMA PowersExist == \A n \in Nat : \E f : Powers(f, n)
<1> DEFINE S == {n \in Nat : \E f : Powers(f, n)}
<1>1. 0 \in S
  <2>1. Powers([i \in 0 .. 0 |-> 1], 0)
    BY DEF Powers
  <2>2. QED
    BY <2>1
<1>2. ASSUME NEW n \in S PROVE n + 1 \in S
  <2>1. PICK f : Powers(f, n)
    OBVIOUS
  <2> DEFINE g == [i \in 0 .. n + 1 |-> IF i = n + 1 THEN 2 * f[n] ELSE f[i]]
  <2>2. \A i \in 0 .. n : f[i] \in Nat /\ g[i] = f[i]
    BY <2>1 DEF Powers
  <2>3. g[n + 1] = 2 * f[n] /\ g \in [0 .. n + 1 -> Nat]
    <3>1. f[n] \in Nat /\ 2 * f[n] \in Nat
      <4>1. n \in Nat /\ n \in 0 .. n
        OBVIOUS
      <4>2. f[n] \in Nat
        BY <2>2, <4>1
      <4>3. QED
        BY <4>2
    <3>2. \A i \in 0 .. n + 1 : i # n + 1 => i \in 0 .. n
      OBVIOUS
    <3>3. \A i \in 0 .. n + 1 : (IF i = n + 1 THEN 2 * f[n] ELSE f[i]) \in Nat
      BY <2>2, <3>1, <3>2
    <3>4. QED
      BY <3>3
  <2>4. \A i \in 1 .. n + 1 : g[i] = 2 * g[i - 1]
    <3> SUFFICES ASSUME NEW i \in 1 .. n + 1 PROVE g[i] = 2 * g[i - 1]
      OBVIOUS
    <3>1. i - 1 \in 0 .. n /\ g[i - 1] = f[i - 1]
      BY <2>2
    <3>2. CASE i = n + 1
      BY <2>3, <3>1, <3>2
    <3>3. CASE i # n + 1
      BY <2>1, <2>2, <3>1, <3>3 DEF Powers
    <3>4. QED
      BY <3>2, <3>3
  <2>5. g[0] = 1
    BY <2>1, <2>2 DEF Powers
  <2>6. Powers(g, n + 1)
    BY <2>3, <2>4, <2>5 DEF Powers
  <2>7. QED
    BY <2>6
<1> HIDE DEF S
<1>3. S = Nat
  <2>1. S \in SUBSET Nat
    BY DEF S
  <2>2. QED
    BY <1>1, <1>2, <2>1, EachNumber
<1>4. QED
  BY <1>3 DEF S

LEMMA PowersAgree ==
  ASSUME NEW m \in Nat, NEW n \in Nat, NEW f, NEW g, Powers(f, m), Powers(g, n)
  PROVE  \A i \in Nat : i <= m /\ i <= n => f[i] = g[i]
<1> DEFINE S == {i \in Nat : i <= m /\ i <= n => f[i] = g[i]}
<1>1. 0 \in S
  BY DEF Powers
<1>2. ASSUME NEW i \in S PROVE i + 1 \in S
  <2> SUFFICES ASSUME i + 1 <= m, i + 1 <= n PROVE f[i + 1] = g[i + 1]
    OBVIOUS
  <2>1. f[i] = g[i] /\ i + 1 \in 1 .. m /\ i + 1 \in 1 .. n /\ (i + 1) - 1 = i
    OBVIOUS
  <2>2. f[i + 1] = 2 * f[i] /\ g[i + 1] = 2 * g[i]
    BY <2>1 DEF Powers
  <2>3. QED
    BY <2>1, <2>2
<1> HIDE DEF S
<1>3. S = Nat
  <2>1. S \in SUBSET Nat
    BY DEF S
  <2>2. QED
    BY <1>1, <1>2, <2>1, EachNumber
<1>4. QED
  BY <1>3 DEF S

\* The recursive definition has a solution.
LEMMA Pow2Equation == Pow2 = [n \in Nat |-> IF n = 0 THEN 1 ELSE 2 * Pow2[n - 1]]
<1> DEFINE F(n) == CHOOSE f : Powers(f, n)
           P == [n \in Nat |-> F(n)[n]]
<1>1. \A n \in Nat : Powers(F(n), n)
  BY PowersExist
<1> HIDE DEF F
<1>2. ASSUME NEW n \in Nat PROVE P[n] = IF n = 0 THEN 1 ELSE 2 * P[n - 1]
  <2>1. CASE n = 0
    BY <1>1, <2>1 DEF Powers
  <2>2. CASE n # 0
    <3>1. n - 1 \in Nat /\ n \in 1 .. n /\ n - 1 <= n /\ n - 1 <= n - 1
      BY <2>2
    <3>2. F(n)[n] = 2 * F(n)[n - 1]
      BY <1>1, <3>1 DEF Powers
    <3>3. F(n)[n - 1] = F(n - 1)[n - 1]
      BY <1>1, <3>1, PowersAgree
    <3>4. QED
      BY <2>2, <3>1, <3>2, <3>3
  <2>3. QED
    BY <2>1, <2>2
<1>3. P = [n \in Nat |-> IF n = 0 THEN 1 ELSE 2 * P[n - 1]]
  BY <1>2
<1> HIDE DEF P
<1>4. \E p : p = [n \in Nat |-> IF n = 0 THEN 1 ELSE 2 * p[n - 1]]
  BY <1>3
<1>5. QED
  BY <1>4 DEF Pow2

LEMMA Power ==
  /\ Pow2[0] = 1
  /\ \A n \in Nat : Pow2[n] \in Nat /\ Pow2[n] >= 1 /\ Pow2[n + 1] = 2 * Pow2[n]
<1>1. Pow2[0] = 1 /\ \A n \in Nat : Pow2[n + 1] = 2 * Pow2[n]
  <2>1. \A n \in Nat : Pow2[n] = IF n = 0 THEN 1 ELSE 2 * Pow2[n - 1]
    BY Pow2Equation
  <2>2. \A n \in Nat : n + 1 \in Nat /\ n + 1 # 0 /\ (n + 1) - 1 = n
    OBVIOUS
  <2>3. QED
    BY <2>1, <2>2
<1> DEFINE S == {n \in Nat : Pow2[n] \in Nat /\ Pow2[n] >= 1}
<1>2. 0 \in S
  BY <1>1
<1>3. ASSUME NEW n \in S PROVE n + 1 \in S
  BY <1>1
<1> HIDE DEF S
<1>4. S = Nat
  <2>1. S \in SUBSET Nat
    BY DEF S
  <2>2. QED
    BY <1>2, <1>3, <2>1, EachNumber
<1>5. QED
  BY <1>1, <1>4 DEF S

\* A power of two is a multiple of each smaller one.
LEMMA PowerFactor ==
  ASSUME NEW m \in Nat
  PROVE  \A n \in Nat : \E q \in Nat : q >= 1 /\ Pow2[m + n] = q * Pow2[m]
<1> DEFINE S == {n \in Nat : \E q \in Nat : q >= 1 /\ Pow2[m + n] = q * Pow2[m]}
<1>1. 0 \in S
  <2>1. Pow2[m + 0] = 1 * Pow2[m]
    BY Power
  <2>2. QED
    BY <2>1
<1>2. ASSUME NEW n \in S PROVE n + 1 \in S
  <2>1. PICK q \in Nat : q >= 1 /\ Pow2[m + n] = q * Pow2[m]
    OBVIOUS
  <2>2. Pow2[m + (n + 1)] = 2 * Pow2[m + n]
    <3>1. m + n \in Nat /\ (m + n) + 1 = m + (n + 1)
      OBVIOUS
    <3>2. QED
      BY <3>1, Power
  <2>3. 2 * (q * Pow2[m]) = (2 * q) * Pow2[m]
    BY Power
  <2>4. QED
    BY <2>1, <2>2, <2>3
<1> HIDE DEF S
<1>3. S = Nat
  <2>1. S \in SUBSET Nat
    BY DEF S
  <2>2. QED
    BY <1>1, <1>2, <2>1, EachNumber
<1>4. QED
  BY <1>3 DEF S

-----------------------------------------------------------------------------
(* Division. *)

LEMMA Divide ==
  ASSUME NEW a \in Nat, NEW d \in Nat, d >= 1
  PROVE  /\ a \div d \in Nat /\ a % d \in 0 .. d - 1
         /\ a = (a \div d) * d + (a % d)
<1> DEFINE q == a \div d
           r == a % d
<1>1. r = a - d * q
  OBVIOUS
<1>2. q \in Nat
  OBVIOUS
<1>3. r \in 0 .. d - 1
  OBVIOUS
<1> HIDE DEF q, r
<1>4. a = q * d + r
  BY <1>1, <1>2, <1>3
<1>5. QED
  BY <1>2, <1>3, <1>4 DEF q, r

LEMMA Divided ==
  ASSUME NEW d \in Nat, d >= 1, NEW q \in Nat, NEW r \in 0 .. d - 1
  PROVE  (q * d + r) \div d = q /\ (q * d + r) % d = r
  OBVIOUS

\* One bit further.
LEMMA DivideTwice ==
  ASSUME NEW a \in Nat, NEW p \in Nat, p >= 1
  PROVE  /\ a \div (2 * p) = (a \div p) \div 2
         /\ a % (2 * p) = ((a \div p) % 2) * p + (a % p)
<1> DEFINE q == a \div p
           r == a % p
           h == q \div 2
           b == q % 2
<1>1. q \in Nat /\ r \in 0 .. p - 1 /\ a = q * p + r
  BY Divide
<1>2. h \in Nat /\ b \in 0 .. 1 /\ q = h * 2 + b
  BY <1>1, Divide
<1> HIDE DEF q, r, h, b
<1>3. b * p + r \in 0 .. 2 * p - 1
  <2>1. CASE b = 0
    BY <1>1, <2>1
  <2>2. CASE b = 1
    BY <1>1, <2>2
  <2>3. QED
    BY <1>2, <2>1, <2>2
<1>4. a = h * (2 * p) + (b * p + r)
  BY <1>1, <1>2
<1>5. 2 * p \in Nat /\ 2 * p >= 1
  OBVIOUS
<1>6. a \div (2 * p) = h /\ a % (2 * p) = b * p + r
  BY <1>2, <1>3, <1>4, <1>5, Divided
<1>7. QED
  BY <1>6 DEF q, r, h, b

LEMMA DivideSmall ==
  ASSUME NEW a \in Nat, NEW p \in Nat, a < p
  PROVE  a \div p = 0
  OBVIOUS

-----------------------------------------------------------------------------
(* The bits of a number. *)

LEMMA NextBit ==
  ASSUME NEW a \in Nat, NEW n \in Nat
  PROVE  /\ a \div Pow2[n] \in Nat
         /\ Bit(a, n) \in 0 .. 1
         /\ a \div Pow2[n] = 2 * (a \div Pow2[n + 1]) + Bit(a, n)
         /\ a \div Pow2[n + 1] = (a \div Pow2[n]) \div 2
         /\ a % Pow2[n + 1] = Bit(a, n) * Pow2[n] + (a % Pow2[n])
<1>1. Pow2[n] \in Nat /\ Pow2[n] >= 1 /\ Pow2[n + 1] = 2 * Pow2[n]
  BY Power
<1>2. a \div Pow2[n] \in Nat
  BY <1>1, Divide
<1>3. /\ a \div Pow2[n + 1] = (a \div Pow2[n]) \div 2
      /\ a % Pow2[n + 1] = Bit(a, n) * Pow2[n] + (a % Pow2[n])
  BY <1>1, DivideTwice DEF Bit
<1>4. Bit(a, n) \in 0 .. 1 /\ a \div Pow2[n] = 2 * (a \div Pow2[n + 1]) + Bit(a, n)
  BY <1>2, <1>3 DEF Bit
<1>5. QED
  BY <1>2, <1>3, <1>4

\* Numbers of W bits have the same bits from m up when they agree above 2^m.
LEMMA SameBits ==
  ASSUME NEW W \in Nat, NEW a \in Nat, NEW c \in Nat, a < Pow2[W], c < Pow2[W],
         NEW m \in 0 .. W
  PROVE  (\A k \in m .. W - 1 : Bit(a, k) = Bit(c, k))
           <=> a \div Pow2[m] = c \div Pow2[m]
<1>1. ASSUME \A k \in m .. W - 1 : Bit(a, k) = Bit(c, k)
      PROVE  a \div Pow2[m] = c \div Pow2[m]
  <2> DEFINE S == {n \in Nat : n <= W - m => a \div Pow2[W - n] = c \div Pow2[W - n]}
  <2>1. 0 \in S
    <3>1. a \div Pow2[W] = 0 /\ c \div Pow2[W] = 0
      BY Power, DivideSmall
    <3>2. QED
      BY <3>1
  <2>2. ASSUME NEW n \in S PROVE n + 1 \in S
    <3> SUFFICES ASSUME n + 1 <= W - m
                 PROVE  a \div Pow2[W - (n + 1)] = c \div Pow2[W - (n + 1)]
      OBVIOUS
    <3> DEFINE k == W - (n + 1)
    <3>1. k \in Nat /\ k \in m .. W - 1 /\ k + 1 = W - n
      OBVIOUS
    <3>2. a \div Pow2[k + 1] = c \div Pow2[k + 1]
      BY <3>1
    <3> HIDE DEF k
    <3>3. Bit(a, k) = Bit(c, k)
      BY <1>1, <3>1
    <3>4. a \div Pow2[k] = c \div Pow2[k]
      BY <3>1, <3>2, <3>3, NextBit
    <3>5. QED
      BY <3>4 DEF k
  <2> HIDE DEF S
  <2>3. S = Nat
    <3>1. S \in SUBSET Nat
      BY DEF S
    <3>2. QED
      BY <2>1, <2>2, <3>1, EachNumber
  <2>4. W - m \in Nat /\ W - (W - m) = m /\ W - m <= W - m
    OBVIOUS
  <2>5. a \div Pow2[W - (W - m)] = c \div Pow2[W - (W - m)]
    BY <2>3, <2>4, Zenon DEF S
  <2>6. QED
    BY <2>4, <2>5, Zenon
<1>2. ASSUME a \div Pow2[m] = c \div Pow2[m], NEW k \in m .. W - 1
      PROVE  Bit(a, k) = Bit(c, k)
  <2> DEFINE S == {n \in Nat : a \div Pow2[m + n] = c \div Pow2[m + n]}
  <2>1. 0 \in S
    BY <1>2
  <2>2. ASSUME NEW n \in S PROVE n + 1 \in S
    <3>1. m + n \in Nat /\ (m + n) + 1 = m + (n + 1)
      OBVIOUS
    <3>2. a \div Pow2[m + n] = c \div Pow2[m + n]
      OBVIOUS
    <3>3. a \div Pow2[(m + n) + 1] = c \div Pow2[(m + n) + 1]
      BY <3>1, <3>2, NextBit
    <3>4. QED
      BY <3>1, <3>3
  <2> HIDE DEF S
  <2>3. S = Nat
    <3>1. S \in SUBSET Nat
      BY DEF S
    <3>2. QED
      BY <2>1, <2>2, <3>1, EachNumber
  <2>4. k - m \in Nat /\ m + (k - m) = k
    OBVIOUS
  <2>5. a \div Pow2[k] = c \div Pow2[k]
    BY <2>3, <2>4 DEF S
  <2>6. QED
    BY <2>5 DEF Bit
<1>3. QED
  BY <1>1, <1>2

\* The n lowest bits of a number are set.
OnesBelow(a, n) == a % Pow2[n] = Pow2[n] - 1

LEMMA NextOne ==
  ASSUME NEW a \in Nat, NEW n \in Nat
  PROVE  OnesBelow(a, 0) /\ (OnesBelow(a, n + 1) <=> Bit(a, n) = 1 /\ OnesBelow(a, n))
<1>1. OnesBelow(a, 0)
  BY Power DEF OnesBelow
<1>2. Pow2[n] \in Nat /\ Pow2[n] >= 1 /\ Pow2[n + 1] = 2 * Pow2[n] /\ a % Pow2[n] \in 0 .. Pow2[n] - 1
  BY Power, Divide
<1>3. a % Pow2[n + 1] = Bit(a, n) * Pow2[n] + (a % Pow2[n]) /\ Bit(a, n) \in 0 .. 1
  BY NextBit
<1>4. CASE Bit(a, n) = 0
  <2>1. a % Pow2[n + 1] = a % Pow2[n]
    BY <1>2, <1>3, <1>4
  <2>2. QED
    BY <1>1, <1>2, <1>4, <2>1 DEF OnesBelow
<1>5. CASE Bit(a, n) = 1
  <2>1. a % Pow2[n + 1] = Pow2[n] + (a % Pow2[n])
    BY <1>2, <1>3, <1>5
  <2>2. a % Pow2[n + 1] = Pow2[n + 1] - 1 <=> a % Pow2[n] = Pow2[n] - 1
    BY <1>2, <2>1
  <2>3. QED
    BY <1>1, <1>5, <2>2, Zenon DEF OnesBelow
<1>6. QED
  BY <1>3, <1>4, <1>5

LEMMA Ones ==
  ASSUME NEW a \in Nat, NEW n \in Nat, OnesBelow(a, n), NEW k \in 0 .. n - 1
  PROVE  Bit(a, k) = 1
<1> DEFINE S == {j \in Nat : j <= n => OnesBelow(a, n - j)}
<1>1. 0 \in S
  OBVIOUS
<1>2. ASSUME NEW j \in S PROVE j + 1 \in S
  <2> SUFFICES ASSUME j + 1 <= n PROVE OnesBelow(a, n - (j + 1))
    OBVIOUS
  <2>1. n - (j + 1) \in Nat /\ (n - (j + 1)) + 1 = n - j /\ OnesBelow(a, n - j)
    OBVIOUS
  <2>2. QED
    BY <2>1, NextOne
<1> HIDE DEF S
<1>3. S = Nat
  <2>1. S \in SUBSET Nat
    BY DEF S
  <2>2. QED
    BY <1>1, <1>2, <2>1, EachNumber
<1>4. n - (k + 1) \in Nat /\ n - (n - (k + 1)) = k + 1 /\ n - (k + 1) <= n
  OBVIOUS
<1>5. OnesBelow(a, k + 1)
  BY <1>3, <1>4 DEF S
<1>6. QED
  BY <1>5, NextOne

LEMMA Trailing ==
  ASSUME NEW a \in Nat, NEW W \in Nat
  PROVE  /\ TrailingOnes(a, W) \in 0 .. W
         /\ \A k \in 0 .. TrailingOnes(a, W) - 1 : Bit(a, k) = 1
         /\ TrailingOnes(a, W) < W => Bit(a, TrailingOnes(a, W)) = 0
<1> DEFINE Ends(n) == OnesBelow(a, n) /\ (n < W => ~OnesBelow(a, n + 1))
<1>1. \E n \in 0 .. W : Ends(n)
  <2> SUFFICES ASSUME \A n \in 0 .. W : ~Ends(n) PROVE FALSE
    OBVIOUS
  <2> DEFINE S == {n \in Nat : n <= W => OnesBelow(a, n)}
  <2>1. 0 \in S
    BY NextOne
  <2>2. ASSUME NEW n \in S PROVE n + 1 \in S
    OBVIOUS
  <2> HIDE DEF S
  <2>3. S = Nat
    <3>1. S \in SUBSET Nat
      BY DEF S
    <3>2. QED
      BY <2>1, <2>2, <3>1, EachNumber
  <2>4. OnesBelow(a, W)
    BY <2>3 DEF S
  <2>5. QED
    BY <2>4
<1>2. TrailingOnes(a, W) = CHOOSE n \in 0 .. W : Ends(n)
  BY DEF TrailingOnes, OnesBelow
<1>3. TrailingOnes(a, W) \in 0 .. W /\ Ends(TrailingOnes(a, W))
  BY <1>1, <1>2
<1> DEFINE t == TrailingOnes(a, W)
<1> HIDE DEF t
<1>4. t \in Nat /\ t <= W /\ OnesBelow(a, t) /\ (t < W => ~OnesBelow(a, t + 1))
  BY <1>3 DEF t
<1>5. \A k \in 0 .. t - 1 : Bit(a, k) = 1
  BY <1>4, Ones
<1>6. t < W => Bit(a, t) = 0
  BY <1>4, NextOne, NextBit
<1>7. QED
  BY <1>3, <1>5, <1>6 DEF t

-----------------------------------------------------------------------------
(* The registers. *)

\* The registers are functions over the entries.
PmpShape ==
  /\ pmp_cfg \in [Region -> Cfg]
  /\ pmp_addr = [r \in Region |-> pmp_addr[r]]
  /\ pmp_mseccfg \in Sec
  /\ program \in Programs

\* The address that a register holds, with ones for the bits that are not kept,
\* is an address of WIDTH bits.
AddrHeld ==
  \A r \in Region :
    /\ pmp_addr[r] \in Nat
    /\ pmp_addr[r] * Pow2[Dropped] + Pow2[Dropped] - 1 < Pow2[WIDTH]

\* A region of one word is only there in the smallest granule.
WordsAlone == \A r \in Region : pmp_cfg[r].mode = "NA4" => PMPGranularity = 0

PmpInv == PmpShape /\ AddrHeld /\ WordsAlone

LEMMA Granules ==
  /\ PMPGranularity \in 0 .. WIDTH /\ WIDTH \in Nat /\ Dropped \in Nat
  /\ Dropped <= PMPGranularity /\ PMPGranularity <= Dropped + 1
  /\ Pow2[WIDTH] \in Nat
  /\ Pow2[PMPGranularity] \in Nat /\ Pow2[PMPGranularity] >= 1
  /\ Pow2[Dropped] \in Nat /\ Pow2[Dropped] >= 1
<1>1. /\ PMPGranularity \in 0 .. WIDTH /\ WIDTH \in Nat /\ Dropped \in Nat
      /\ Dropped <= PMPGranularity /\ PMPGranularity <= Dropped + 1
  BY PmpAssumption DEF Dropped
<1>2. QED
  BY <1>1, Power

\* A number is at least a multiple of p when its quotient is.
LEMMA AtLeast ==
  ASSUME NEW a \in Nat, NEW p \in Nat, p >= 1, NEW q \in Nat
  PROVE  (q * p <= a) <=> (q <= a \div p)
<1>1. PICK s \in Nat, t \in 0 .. p - 1 : s = a \div p /\ a = s * p + t
  BY Divide
<1>2. CASE q <= s
  <2>1. (s - q) * p >= 0 /\ s * p = q * p + (s - q) * p
    BY <1>2
  <2>2. q * p <= a
    BY <1>1, <2>1
  <2>3. QED
    BY <1>1, <1>2, <2>2
<1>3. CASE q > s
  <2>1. (q - (s + 1)) * p >= 0 /\ q * p = s * p + p + (q - (s + 1)) * p
    BY <1>3
  <2>2. ~(q * p <= a)
    BY <1>1, <2>1
  <2>3. QED
    BY <1>1, <1>3, <2>2
<1>4. QED
  BY <1>2, <1>3

\* The multiple of p below a number.
LEMMA Rounded ==
  ASSUME NEW a \in Nat, NEW p \in Nat, p >= 1
  PROVE  /\ (a \div p) * p \in Nat /\ (a \div p) * p <= a
         /\ ((a \div p) * p) \div p = a \div p
<1> DEFINE q == a \div p
<1>1. q \in Nat
  BY Divide
<1>2. q * p <= a
  BY <1>1, AtLeast
<1> HIDE DEF q
<1>3. q * p \in Nat /\ 0 \in 0 .. p - 1 /\ q * p + 0 = q * p
  BY <1>1
<1>4. (q * p) \div p = q
  BY <1>1, <1>3, Divided
<1>5. QED
  BY <1>2, <1>3, <1>4 DEF q

\* What an address reads as.
LEMMA Reads ==
  ASSUME AddrHeld, NEW r \in Region
  PROVE  /\ pmp_addr_rdata(r) \in Nat /\ pmp_addr_rdata(r) < Pow2[WIDTH]
         /\ pmp_cfg[r].mode \in {"NA4", "NAPOT"} => OnesBelow(pmp_addr_rdata(r), Dropped)
         /\ (pmp_addr_rdata(r) \div Pow2[PMPGranularity])
              = (pmp_addr[r] * Pow2[Dropped] + Pow2[Dropped] - 1) \div Pow2[PMPGranularity]
<1> DEFINE x == pmp_addr[r]
           P == Pow2[Dropped]
           g == Pow2[PMPGranularity]
           ones == x * P + P - 1
           q == ones \div g
<1>1. /\ x \in Nat /\ P \in Nat /\ P >= 1 /\ g \in Nat /\ g >= 1
      /\ ones < Pow2[WIDTH] /\ Pow2[WIDTH] \in Nat
  BY Granules DEF AddrHeld
<1>2. pmp_addr_rdata(r) =
        IF PMPGranularity > 0 /\ pmp_cfg[r].mode \in {"OFF", "TOR"} THEN q * g ELSE ones
  BY DEF pmp_addr_rdata
<1> HIDE DEF x, P, g
<1>3. ones \in Nat /\ ones % P = P - 1
  <2>1. P - 1 \in 0 .. P - 1 /\ ones = x * P + (P - 1) /\ x * P \in Nat
    BY <1>1
  <2>2. ones \in Nat
    BY <1>1, <2>1
  <2> HIDE DEF ones
  <2>3. QED
    BY <1>1, <2>1, <2>2, Divided
<1> HIDE DEF ones
<1>4. /\ q * g \in Nat /\ q * g <= ones
      /\ (q * g) \div g = q
  BY <1>1, <1>3, Rounded
<1>6. pmp_addr_rdata(r) \in Nat /\ pmp_addr_rdata(r) < Pow2[WIDTH]
  BY <1>1, <1>2, <1>3, <1>4
<1>7. pmp_cfg[r].mode \in {"NA4", "NAPOT"} => pmp_addr_rdata(r) % P = P - 1
  BY <1>2, <1>3
<1>8. pmp_addr_rdata(r) \div g = q
  BY <1>2, <1>4
<1>9. QED
  BY <1>6, <1>7, <1>8 DEF OnesBelow, q, g, P, ones, x

-----------------------------------------------------------------------------
(* Writes of the registers. *)

LEMMA WdataType ==
  ASSUME NEW w \in Cfg PROVE pmp_cfg_wdata(w) \in Cfg
<1>1. /\ w.mode \in Mode /\ w.perm \in SUBSET Access /\ w.lock \in BOOLEAN
      /\ w = [lock |-> w.lock, mode |-> w.mode, perm |-> w.perm]
  BY DEF Cfg
<1>2. "OFF" \in Mode /\ w.perm \ {"W"} \in SUBSET Access
  BY <1>1 DEF Mode
<1>3. QED
  BY <1>1, <1>2 DEF pmp_cfg_wdata, Cfg

\* A program writes what the registers can hold.
LEMMA Written == PmpShape => program.cfg \subseteq Cfg /\ program.sec \subseteq Sec
<1> SUFFICES ASSUME PmpShape PROVE program.cfg \subseteq Cfg /\ program.sec \subseteq Sec
  OBVIOUS
<1>1. program \in [cfg  : SUBSET Cfg,
                  addr : SUBSET (0 .. Pow2[WIDTH] - 1),
                  sec  : SUBSET Sec]
  BY PmpAssumption DEF PmpShape
<1>2. QED
  BY <1>1

\* A write of pmpcfg sets each entry, or leaves it as it is.
LEMMA WriteEach ==
  ASSUME PmpShape, WritePmpcfg
  PROVE  /\ pmp_cfg' = [r \in Region |-> pmp_cfg'[r]]
         /\ \A r \in Region :
              \/ pmp_cfg'[r] = pmp_cfg[r]
              \/ \E v \in program.cfg :
                   /\ ~pmp_cfg_locked(r) /\ ~pmp_cfg_wr_suppress(v)
                   /\ pmp_cfg'[r] = pmp_cfg_wdata(v)
<1>1. PICK n \in {r \div 4 : r \in Region} :
        \E w \in [{r \in Region : r \div 4 = n} -> program.cfg] :
          pmp_cfg' = [r \in Region |->
            IF r \in DOMAIN w /\ ~pmp_cfg_locked(r) /\ ~pmp_cfg_wr_suppress(w[r])
              THEN pmp_cfg_wdata(w[r]) ELSE pmp_cfg[r]]
  BY DEF WritePmpcfg
<1>2. PICK w \in [{r \in Region : r \div 4 = n} -> program.cfg] :
        pmp_cfg' = [r \in Region |->
          IF r \in DOMAIN w /\ ~pmp_cfg_locked(r) /\ ~pmp_cfg_wr_suppress(w[r])
            THEN pmp_cfg_wdata(w[r]) ELSE pmp_cfg[r]]
  BY <1>1
<1>3. \A r \in DOMAIN w : w[r] \in program.cfg
  OBVIOUS
<1>4. QED
  BY <1>2, <1>3

\* RLB is only set while nothing is locked, and MML stays.
LEMMA SecStep ==
  ASSUME PmpShape, WriteMseccfg
  PROVE  /\ any_pmp_entry_locked => ~pmp_mseccfg'.rlb
         /\ pmp_mseccfg.mml => pmp_mseccfg'.mml
<1>1. PICK w \in program.sec :
        pmp_mseccfg' = [mml  |-> pmp_mseccfg.mml \/ w.mml,
                        mmwp |-> pmp_mseccfg.mmwp \/ w.mmwp,
                        rlb  |-> ~any_pmp_entry_locked /\ w.rlb]
  BY DEF WriteMseccfg
<1>2. /\ pmp_mseccfg'.mml = (pmp_mseccfg.mml \/ w.mml)
      /\ pmp_mseccfg'.rlb = (~any_pmp_entry_locked /\ w.rlb)
  BY <1>1
<1>3. QED
  BY <1>2, Zenon

LEMMA ShapeInit == Init => PmpShape
  BY DEF Init, PmpShape, Cfg, Mode, Sec

LEMMA ShapeStep == PmpShape /\ [Next]_vars => PmpShape'
<1> SUFFICES ASSUME PmpShape, [Next]_vars PROVE PmpShape'
  OBVIOUS
<1> USE DEF PmpShape
<1>1. CASE WritePmpcfg
  <2>1. pmp_cfg' = [r \in Region |-> pmp_cfg'[r]]
    BY <1>1, WriteEach
  <2>2. ASSUME NEW r \in Region PROVE pmp_cfg'[r] \in Cfg
    BY <1>1, WriteEach, WdataType, Written
  <2>3. pmp_cfg' \in [Region -> Cfg]
    BY <2>1, <2>2
  <2>4. QED
    BY <1>1, <2>3 DEF WritePmpcfg
<1>2. CASE WritePmpaddr
  BY <1>2 DEF WritePmpaddr
<1>3. CASE WriteMseccfg
  <2>1. PICK w \in program.sec :
          pmp_mseccfg' = [mml  |-> pmp_mseccfg.mml \/ w.mml,
                          mmwp |-> pmp_mseccfg.mmwp \/ w.mmwp,
                          rlb  |-> ~any_pmp_entry_locked /\ w.rlb]
    BY <1>3 DEF WriteMseccfg
  <2>2. (pmp_mseccfg.mml \/ w.mml) \in BOOLEAN /\ (pmp_mseccfg.mmwp \/ w.mmwp) \in BOOLEAN
        /\ (~any_pmp_entry_locked /\ w.rlb) \in BOOLEAN
    OBVIOUS
  <2>3. pmp_mseccfg' \in Sec
    BY <2>1, <2>2 DEF Sec
  <2>4. QED
    BY <1>3, <2>3 DEF WriteMseccfg
<1>4. CASE UNCHANGED vars
  BY <1>4 DEF vars
<1>5. QED
  BY <1>1, <1>2, <1>3, <1>4 DEF Next

LEMMA DroppedFactor ==
  \E q \in Nat : q >= 1 /\ Pow2[WIDTH] = q * Pow2[Dropped]
<1>1. WIDTH - Dropped \in Nat /\ Dropped + (WIDTH - Dropped) = WIDTH /\ Dropped \in Nat
  BY Granules
<1>2. QED
  BY <1>1, PowerFactor

\* The bits that a register keeps of an address.
LEMMA Kept ==
  ASSUME NEW w \in 0 .. Pow2[WIDTH] - 1
  PROVE  /\ w \div Pow2[Dropped] \in Nat
         /\ (w \div Pow2[Dropped]) * Pow2[Dropped] + Pow2[Dropped] - 1 < Pow2[WIDTH]
<1> DEFINE P == Pow2[Dropped]
           x == w \div P
<1>1. P \in Nat /\ P >= 1 /\ w \in Nat
  BY Granules
<1>2. PICK q \in Nat : q >= 1 /\ Pow2[WIDTH] = q * P
  BY DroppedFactor
<1> HIDE DEF P
<1>3. x \in Nat
  BY <1>1, Divide
<1>4. ~(q * P <= w)
  BY <1>1, <1>2
<1>5. x + 1 <= q
  <2>1. ~(q <= x)
    BY <1>1, <1>2, <1>4, AtLeast
  <2> HIDE DEF x
  <2>2. QED
    BY <1>2, <1>3, <2>1
<1> HIDE DEF x
<1>6. (q - (x + 1)) * P >= 0 /\ q * P = x * P + P + (q - (x + 1)) * P
  BY <1>1, <1>2, <1>3, <1>5
<1>7. x * P + P - 1 < Pow2[WIDTH]
  BY <1>1, <1>2, <1>3, <1>6
<1>8. QED
  BY <1>3, <1>7 DEF x, P

LEMMA AddrInit == Init => AddrHeld
<1> SUFFICES ASSUME Init, NEW r \in Region
             PROVE  /\ pmp_addr[r] \in Nat
                    /\ pmp_addr[r] * Pow2[Dropped] + Pow2[Dropped] - 1 < Pow2[WIDTH]
  BY DEF AddrHeld
<1>1. pmp_addr[r] = 0
  BY DEF Init
<1>2. 0 \in 0 .. Pow2[WIDTH] - 1 /\ 0 \div Pow2[Dropped] = 0
  BY Granules, Power
<1>3. QED
  BY <1>1, <1>2, Kept

LEMMA AddrStep == PmpInv /\ [Next]_vars => AddrHeld'
<1> SUFFICES ASSUME PmpInv, [Next]_vars PROVE AddrHeld'
  OBVIOUS
<1>1. CASE pmp_addr' = pmp_addr
  BY <1>1 DEF PmpInv, AddrHeld
<1>2. CASE WritePmpaddr
  <2>1. PICK r \in Region, w \in program.addr :
          pmp_addr' = [pmp_addr EXCEPT ![r] = w \div Pow2[Dropped]]
    BY <1>2 DEF WritePmpaddr
  <2>2. w \in 0 .. Pow2[WIDTH] - 1
    <3>1. program \in [cfg : SUBSET Cfg, addr : SUBSET (0 .. Pow2[WIDTH] - 1), sec : SUBSET Sec]
      BY PmpAssumption DEF PmpInv, PmpShape
    <3>2. QED
      BY <3>1
  <2>3. ASSUME NEW s \in Region
        PROVE  /\ pmp_addr'[s] \in Nat
               /\ pmp_addr'[s] * Pow2[Dropped] + Pow2[Dropped] - 1 < Pow2[WIDTH]
    <3>1. pmp_addr'[s] = IF s = r THEN w \div Pow2[Dropped] ELSE pmp_addr[s]
      BY <2>1 DEF PmpInv, PmpShape
    <3>2. CASE s = r
      BY <2>2, <3>1, <3>2, Kept
    <3>3. CASE s # r
      BY <3>1, <3>3 DEF PmpInv, AddrHeld
    <3>4. QED
      BY <3>2, <3>3
  <2>4. QED
    BY <2>3 DEF AddrHeld
<1>3. QED
  BY <1>1, <1>2 DEF Next, WritePmpcfg, WriteMseccfg, vars

LEMMA WordsStep == PmpInv /\ [Next]_vars => WordsAlone'
<1> SUFFICES ASSUME PmpInv, [Next]_vars, NEW r \in Region, pmp_cfg'[r].mode = "NA4"
             PROVE  PMPGranularity = 0
  BY DEF WordsAlone
<1>1. CASE pmp_cfg'[r] = pmp_cfg[r]
  BY <1>1 DEF PmpInv, WordsAlone
<1>2. CASE pmp_cfg'[r] # pmp_cfg[r]
  <2>1. WritePmpcfg
    BY <1>2 DEF Next, WritePmpaddr, WriteMseccfg, vars
  <2>2. PICK v \in program.cfg : pmp_cfg'[r] = pmp_cfg_wdata(v)
    BY <1>2, <2>1, WriteEach, Zenon DEF PmpInv
  <2>3. v \in Cfg
    BY <2>2, Written DEF PmpInv
  <2>4. pmp_cfg_wdata(v).mode =
          IF v.mode = "NA4" /\ PMPGranularity > 0 THEN "OFF" ELSE v.mode
    BY <2>3 DEF pmp_cfg_wdata, Cfg
  <2>5. QED
    BY <2>2, <2>4, Granules
<1>3. QED
  BY <1>1, <1>2

LEMMA PmpInvInit == Init => PmpInv
<1>1. Init => WordsAlone
  BY DEF Init, WordsAlone
<1>2. QED
  BY <1>1, ShapeInit, AddrInit DEF PmpInv

LEMMA PmpInvStep == PmpInv /\ [Next]_vars => PmpInv'
  BY ShapeStep, AddrStep, WordsStep DEF PmpInv

LEMMA Invariant == Spec => []PmpInv
  BY PmpInvInit, PmpInvStep, PTL DEF Spec

-----------------------------------------------------------------------------
-----------------------------------------------------------------------------
(* The comparators match the words that the entry covers. *)

LEMMA MatchesWord ==
  ASSUME PmpInv, NEW r \in Region, NEW word \in 0 .. Pow2[WIDTH] - 1,
         pmp_cfg[r].mode = "NA4"
  PROVE  region_match_all(r, word) <=> word \in Covers(r)
<1> DEFINE a == pmp_addr_rdata(r)
<1>1. PMPGranularity = 0
  BY DEF PmpInv, WordsAlone
<1>2. a \in Nat /\ a < Pow2[WIDTH] /\ word \in Nat /\ word < Pow2[WIDTH] /\ WIDTH \in Nat
  BY Reads, Granules DEF PmpInv
<1>3. Covers(r) = {a}
  BY DEF Covers, RegionOf
<1>4. region_match_all(r, word) <=> \A b \in 0 .. WIDTH - 1 : Bit(word, b) = Bit(a, b)
  BY <1>1 DEF region_match_all, region_match_eq, region_addr_mask, region_start_addr
<1> HIDE DEF a
<1>5. region_match_all(r, word) <=> word \div Pow2[0] = a \div Pow2[0]
  BY <1>2, <1>4, SameBits
<1>6. word \div 1 = word /\ a \div 1 = a
  BY <1>2
<1>7. QED
  BY <1>3, <1>5, <1>6, Power

LEMMA MatchesNapot ==
  ASSUME PmpInv, NEW r \in Region, NEW word \in 0 .. Pow2[WIDTH] - 1,
         pmp_cfg[r].mode = "NAPOT"
  PROVE  region_match_all(r, word) <=> word \in Covers(r)
<1> DEFINE a == pmp_addr_rdata(r)
           t == TrailingOnes(a, WIDTH)
<1>1. /\ a \in Nat /\ a < Pow2[WIDTH] /\ word \in Nat /\ word < Pow2[WIDTH]
      /\ WIDTH \in Nat /\ Dropped \in Nat /\ PMPGranularity \in Nat
      /\ PMPGranularity <= Dropped + 1 /\ Dropped <= PMPGranularity
      /\ Dropped <= WIDTH /\ OnesBelow(a, Dropped)
  BY Reads, Granules DEF PmpInv
<1>2. Covers(r) = {w \in 0 .. Pow2[WIDTH] - 1 : w \div Pow2[t + 1] = a \div Pow2[t + 1]}
  BY DEF Covers, RegionOf
<1>3. region_match_all(r, word) <=>
        \A b \in PMPGranularity .. WIDTH - 1 :
          (\E k \in Dropped .. b - 1 : Bit(a, k) = 0) => Bit(word, b) = Bit(a, b)
  BY DEF region_match_all, region_match_eq, region_addr_mask, region_start_addr
<1> HIDE DEF a
<1>4. /\ t \in 0 .. WIDTH
      /\ \A k \in 0 .. t - 1 : Bit(a, k) = 1
      /\ t < WIDTH => Bit(a, t) = 0
  BY <1>1, Trailing
<1> HIDE DEF t
<1>5. t < WIDTH => t >= Dropped
  <2> SUFFICES ASSUME t < WIDTH, t < Dropped PROVE FALSE
    BY <1>1, <1>4
  <2>1. t \in 0 .. Dropped - 1
    BY <1>4, <1>1
  <2>2. Bit(a, t) = 1
    BY <1>1, <2>1, Ones
  <2>3. QED
    BY <1>4, <2>2
<1>6. ASSUME NEW b \in PMPGranularity .. WIDTH - 1
      PROVE  (\E k \in Dropped .. b - 1 : Bit(a, k) = 0) <=> b \in t + 1 .. WIDTH - 1
  <2>1. CASE b > t
    <3>1. t \in Dropped .. b - 1 /\ Bit(a, t) = 0
      BY <1>1, <1>4, <1>5, <2>1
    <3>2. QED
      BY <1>1, <1>4, <2>1, <3>1
  <2>2. CASE b <= t
    <3>1. \A k \in Dropped .. b - 1 : k \in 0 .. t - 1
      BY <1>1, <1>4, <2>2
    <3>2. QED
      BY <1>1, <1>4, <2>2, <3>1
  <2>3. QED
    BY <1>1, <1>4, <2>1, <2>2
<1>7. \A b \in t + 1 .. WIDTH - 1 : b \in PMPGranularity .. WIDTH - 1
  BY <1>1, <1>4, <1>5
<1>8. region_match_all(r, word) <=>
        \A b \in t + 1 .. WIDTH - 1 : Bit(word, b) = Bit(a, b)
  BY <1>3, <1>6, <1>7
<1>9. CASE t < WIDTH
  <2>1. t + 1 \in 0 .. WIDTH
    BY <1>1, <1>4, <1>9
  <2>2. region_match_all(r, word) <=> word \div Pow2[t + 1] = a \div Pow2[t + 1]
    BY <1>1, <1>8, <2>1, SameBits
  <2>3. QED
    BY <1>2, <2>2
<1>10. CASE t = WIDTH
  <2>1. Pow2[WIDTH + 1] = 2 * Pow2[WIDTH] /\ Pow2[WIDTH] \in Nat
    BY <1>1, Power
  <2>2. word \div Pow2[t + 1] = 0 /\ a \div Pow2[t + 1] = 0
    BY <1>1, <1>10, <2>1, DivideSmall
  <2>3. region_match_all(r, word)
    BY <1>8, <1>10, <1>1
  <2>4. QED
    BY <1>2, <2>2, <2>3
<1>11. QED
  BY <1>4, <1>1, <1>9, <1>10

LEMMA MatchesTor ==
  ASSUME PmpInv, NEW r \in Region, NEW word \in 0 .. Pow2[WIDTH] - 1,
         pmp_cfg[r].mode = "TOR"
  PROVE  region_match_all(r, word) <=> word \in Covers(r)
<1> DEFINE s == IF r = 0 THEN 0 ELSE pmp_addr_rdata(r - 1)
           a == pmp_addr_rdata(r)
           g == Pow2[PMPGranularity]
<1>1. /\ a \in Nat /\ a < Pow2[WIDTH] /\ word \in Nat /\ word < Pow2[WIDTH]
      /\ WIDTH \in Nat /\ PMPGranularity \in 0 .. WIDTH
      /\ g \in Nat /\ g >= 1 /\ Pow2[WIDTH] \in Nat
  BY Reads, Granules DEF PmpInv
<1>2. s \in Nat /\ s < Pow2[WIDTH]
  <2>1. CASE r = 0
    BY <1>1, <2>1
  <2>2. CASE r # 0
    <3>1. r - 1 \in Region
      BY <2>2, PmpAssumption DEF Region
    <3>2. QED
      BY <2>2, <3>1, Reads DEF PmpInv
  <2>3. QED
    BY <2>1, <2>2
<1>3. Covers(r) = (s \div g) * g .. (a \div g) * g - 1
  BY DEF Covers, RegionOf
<1>4. region_match_all(r, word) <=>
        /\ \/ \A b \in PMPGranularity .. WIDTH - 1 : Bit(word, b) = Bit(s, b)
           \/ word \div g > s \div g
        /\ word \div g < a \div g
  BY DEF region_match_all, region_match_eq, region_addr_mask, region_start_addr, Granule
<1> HIDE DEF s, a
<1>5. (\A b \in PMPGranularity .. WIDTH - 1 : Bit(word, b) = Bit(s, b))
        <=> word \div g = s \div g
  BY <1>1, <1>2, SameBits
<1> HIDE DEF g
<1>6. word \div g \in Nat /\ s \div g \in Nat /\ a \div g \in Nat
  BY <1>1, <1>2, Divide
<1>7. region_match_all(r, word) <=> s \div g <= word \div g /\ ~(a \div g <= word \div g)
  BY <1>4, <1>5, <1>6
<1>8. /\ (s \div g) * g <= word <=> s \div g <= word \div g
      /\ (a \div g) * g <= word <=> a \div g <= word \div g
  BY <1>1, <1>6, AtLeast
<1>9. (s \div g) * g \in Nat /\ (a \div g) * g \in Nat
  BY <1>1, <1>6
<1>10. word \in Covers(r) <=> (s \div g) * g <= word /\ ~((a \div g) * g <= word)
  BY <1>1, <1>3, <1>9
<1>11. QED
  BY <1>7, <1>8, <1>10, Zenon

LEMMA MatchesCovered ==
  ASSUME PmpInv, NEW r \in Region, NEW word \in 0 .. Pow2[WIDTH] - 1
  PROVE  region_match_all(r, word) <=> word \in Covers(r)
<1>1. pmp_cfg[r].mode \in Mode
  BY DEF PmpInv, PmpShape, Cfg
<1>2. CASE pmp_cfg[r].mode = "OFF"
  BY <1>2 DEF region_match_all, Covers, RegionOf
<1>3. QED
  BY <1>1, <1>2, MatchesWord, MatchesNapot, MatchesTor DEF Mode

-----------------------------------------------------------------------------
(* The check of an access. *)

LEMMA Rule ==
  ASSUME NEW cfg \in Cfg
  PROVE  /\ cfg.lock \in BOOLEAN /\ cfg.perm \subseteq Access
         /\ \A p \in SUBSET Access :
              cfg.perm = p <=> \A x \in Access : x \in cfg.perm <=> x \in p
<1>1. cfg.lock \in BOOLEAN /\ cfg.perm \in SUBSET Access
  BY DEF Cfg
<1>2. QED
  BY <1>1

\* Under MML the logic of the permissions allows what Smepmp does.
LEMMA MmlAllows ==
  ASSUME NEW cfg \in Cfg, NEW access \in Access, NEW priv \in Priv
  PROVE  mml_perm_check(cfg, access, priv) <=> access \in SmepmpAllows(cfg, priv)
<1> DEFINE p == cfg.perm
<1>1. cfg.lock \in BOOLEAN /\ p \subseteq Access
  BY Rule
<1>2. /\ p = {"W"} <=> "W" \in p /\ "R" \notin p /\ "X" \notin p
      /\ p = {"W", "X"} <=> "W" \in p /\ "R" \notin p /\ "X" \in p
      /\ p = Access <=> "W" \in p /\ "R" \in p /\ "X" \in p
  BY <1>1 DEF Access
<1>3. /\ access \in {"R", "W", "X"} /\ priv \in {"M", "U"}
  BY DEF Access, Priv
<1>4. CASE "R" \notin p /\ "W" \in p
  <2>1. CASE "X" \in p
    BY <1>1, <1>2, <1>3, <1>4, <2>1 DEF mml_perm_check, SmepmpAllows
  <2>2. CASE "X" \notin p
    BY <1>1, <1>2, <1>3, <1>4, <2>2 DEF mml_perm_check, SmepmpAllows
  <2>3. QED
    BY <2>1, <2>2
<1>5. CASE p = Access /\ cfg.lock
  BY <1>1, <1>2, <1>3, <1>5 DEF mml_perm_check, SmepmpAllows
<1>6. CASE ~("R" \notin p /\ "W" \in p) /\ ~(p = Access /\ cfg.lock)
  BY <1>1, <1>2, <1>3, <1>6 DEF mml_perm_check, SmepmpAllows
<1>7. QED
  BY <1>4, <1>5, <1>6

LEMMA OrigAllows ==
  ASSUME NEW cfg \in Cfg, NEW access \in Access, NEW priv \in Priv
  PROVE  orig_perm_check(cfg, access, priv) <=> access \in Allows(cfg, priv, FALSE)
  BY DEF orig_perm_check, Allows

\* Without a match the default of the architecture decides.
LEMMA Elsewhere ==
  ASSUME NEW sec \in Sec, NEW access \in Access, NEW priv \in Priv
  PROVE  (sec.mmwp \/ priv # "M" \/ (sec.mml /\ access = "X"))
           <=> access \notin AllowsElsewhere(priv, sec)
<1>1. sec.mmwp \in BOOLEAN /\ sec.mml \in BOOLEAN
  BY DEF Sec
<1>2. priv = "M" \/ priv = "U"
  BY DEF Priv
<1>3. CASE priv = "U" \/ sec.mmwp
  <2>1. AllowsElsewhere(priv, sec) = {}
    BY <1>3 DEF AllowsElsewhere
  <2>2. sec.mmwp \/ priv # "M"
    BY <1>3
  <2>3. QED
    BY <2>1, <2>2
<1>4. CASE priv = "M" /\ ~sec.mmwp /\ sec.mml
  BY <1>4 DEF AllowsElsewhere
<1>5. CASE priv = "M" /\ ~sec.mmwp /\ ~sec.mml
  BY <1>5 DEF AllowsElsewhere
<1>6. QED
  BY <1>1, <1>2, <1>3, <1>4, <1>5

\* A set of entries has a lowest one.
LEMMA LowestEntry ==
  ASSUME NEW S \in SUBSET Region, S # {}
  PROVE  Min(S) \in S
<1>1. S \in SUBSET Nat
  BY PmpAssumption DEF Region
<1>2. \E n \in S : \A m \in S : n <= m
  BY <1>1, LeastNumber
<1>3. QED
  BY <1>2 DEF Min

LEMMA Decides == PmpInv => DecidesAsSpecified
<1> SUFFICES ASSUME PmpInv,
                    NEW word \in 0 .. Pow2[WIDTH] - 1, NEW access \in Access,
                    NEW priv \in Priv, NEW debug \in BOOLEAN
             PROVE  pmp_req_err(word, access, priv, debug)
                      = IF debug /\ word \in DmWords THEN FALSE
                        ELSE Denied(pmp_cfg, [r \in Region |-> Covers(r)], pmp_mseccfg,
                                    priv, access, word)
  BY DEF DecidesAsSpecified
<1> DEFINE matched == {r \in Region : region_match_all(r, word)}
           covered == {r \in Region : word \in Covers(r)}
           low     == Min(covered)
<1>1. pmp_cfg \in [Region -> Cfg] /\ pmp_mseccfg \in Sec /\ pmp_mseccfg.mml \in BOOLEAN
  BY DEF PmpInv, PmpShape, Sec
<1>2. matched = covered
  BY MatchesCovered
<1>3. {r \in DOMAIN pmp_cfg : word \in [s \in Region |-> Covers(s)][r]} = covered
  BY <1>1
<1>4. access_fault_check(word, access, priv) <=>
        IF covered # {} THEN ~region_perm_check(low, access, priv)
        ELSE \/ pmp_mseccfg.mmwp \/ priv # "M"
             \/ pmp_mseccfg.mml /\ access = "X"
  BY <1>2 DEF access_fault_check
<1>5. Denied(pmp_cfg, [r \in Region |-> Covers(r)], pmp_mseccfg, priv, access, word) <=>
        access \notin IF covered = {} THEN AllowsElsewhere(priv, pmp_mseccfg)
                      ELSE Allows(pmp_cfg[low], priv, pmp_mseccfg.mml)
  BY <1>3 DEF Denied
<1> HIDE DEF covered, low, matched
<1>6. access_fault_check(word, access, priv) <=>
        Denied(pmp_cfg, [r \in Region |-> Covers(r)], pmp_mseccfg, priv, access, word)
  <2>1. CASE covered = {}
    <3>1. (pmp_mseccfg.mmwp \/ priv # "M" \/ (pmp_mseccfg.mml /\ access = "X"))
             <=> access \notin AllowsElsewhere(priv, pmp_mseccfg)
      BY <1>1, Elsewhere
    <3>2. access_fault_check(word, access, priv) <=>
            (pmp_mseccfg.mmwp \/ priv # "M" \/ (pmp_mseccfg.mml /\ access = "X"))
      BY <1>4, <2>1, Zenon
    <3>3. Denied(pmp_cfg, [r \in Region |-> Covers(r)], pmp_mseccfg, priv, access, word)
            <=> access \notin AllowsElsewhere(priv, pmp_mseccfg)
      BY <1>5, <2>1, Zenon
    <3>4. QED
      BY <3>1, <3>2, <3>3, Zenon
  <2>2. CASE covered # {}
    <3>1. low \in Region
      BY <2>2, LowestEntry DEF covered, low
    <3>2. pmp_cfg[low] \in Cfg
      BY <1>1, <3>1
    <3>3. region_perm_check(low, access, priv)
            <=> access \in Allows(pmp_cfg[low], priv, pmp_mseccfg.mml)
      <4>1. CASE pmp_mseccfg.mml
        <5>1. Allows(pmp_cfg[low], priv, pmp_mseccfg.mml) = SmepmpAllows(pmp_cfg[low], priv)
          BY <4>1 DEF Allows
        <5>2. QED
          BY <3>2, <4>1, <5>1, MmlAllows DEF region_perm_check
      <4>2. CASE pmp_mseccfg.mml = FALSE
        BY <3>2, <4>2, OrigAllows DEF region_perm_check
      <4>3. QED
        BY <1>1, <4>1, <4>2
    <3>4. QED
      BY <1>4, <1>5, <2>2, <3>3
  <2>3. QED
    BY <2>1, <2>2
<1>7. QED
  BY <1>6 DEF pmp_req_err, Denied, access_fault_check

\* The comparators, masks and permissions decide every access as the
\* architecture does, for any number of entries, width and granularity.
THEOREM PmpDecides == Spec => []DecidesAsSpecified
  BY Invariant, Decides, PTL

-----------------------------------------------------------------------------
(* What a lock protects. *)

\* Of the entry below only its granule counts, which does not depend on its mode.
LEMMA CoversSame ==
  ASSUME AddrHeld, NEW r \in Region,
         pmp_cfg'[r] = pmp_cfg[r], pmp_addr'[r] = pmp_addr[r],
         pmp_cfg[r].mode = "TOR" /\ r # 0 => pmp_addr'[r - 1] = pmp_addr[r - 1]
  PROVE  Covers(r)' = Covers(r)
<1>1. pmp_addr_rdata(r)' = pmp_addr_rdata(r)
  BY DEF pmp_addr_rdata
<1>2. CASE pmp_cfg[r].mode = "TOR"
  <2> DEFINE below  == IF r = 0 THEN 0 ELSE pmp_addr_rdata(r - 1)
             g      == Pow2[PMPGranularity]
             ones   == pmp_addr[r - 1] * Pow2[Dropped] + Pow2[Dropped] - 1
  <2>1. r # 0 => below' \div g = below \div g
    <3> SUFFICES ASSUME r # 0 PROVE below' \div g = below \div g
      OBVIOUS
    <3>1. r - 1 \in Region
      BY PmpAssumption DEF Region
    <3>2. pmp_addr[r - 1] \in Nat /\ Pow2[Dropped] \in Nat /\ Pow2[Dropped] >= 1
          /\ g \in Nat /\ g >= 1
      BY <3>1, Granules DEF AddrHeld
    <3>3. ones \in Nat
      BY <3>2
    <3>4. ((ones \div g) * g) \div g = ones \div g
      BY <3>2, <3>3, Rounded
    <3>5. below' = ones \/ below' = (ones \div g) * g
      BY <1>2 DEF pmp_addr_rdata
    <3>6. below = ones \/ below = (ones \div g) * g
      BY DEF pmp_addr_rdata
    <3>7. QED
      BY <3>4, <3>5, <3>6
  <2>2. /\ Covers(r)  = (below \div g) * g .. (pmp_addr_rdata(r) \div g) * g - 1
        /\ Covers(r)' = (below' \div g) * g .. (pmp_addr_rdata(r)' \div g) * g - 1
    BY <1>2 DEF Covers, RegionOf
  <2>3. CASE r = 0
    BY <1>1, <2>2, <2>3
  <2>4. CASE r # 0
    BY <1>1, <2>1, <2>2, <2>4
  <2>5. QED
    BY <2>3, <2>4
<1>3. CASE pmp_cfg[r].mode # "TOR"
  BY <1>1, <1>3 DEF Covers, RegionOf
<1>4. QED
  BY <1>2, <1>3

LEMMA LockStep ==
  ASSUME PmpInv, [Next]_vars, NEW r \in Region, pmp_cfg_locked(r)
  PROVE  /\ pmp_cfg_locked(r)'
         /\ pmp_cfg'[r] = pmp_cfg[r]
         /\ Covers(r)' = Covers(r)
<1> USE DEF PmpInv, PmpShape
<1>1. pmp_cfg'[r] = pmp_cfg[r]
  BY WriteEach DEF Next, WritePmpaddr, WriteMseccfg, vars
<1>2. pmp_addr'[r] = pmp_addr[r]
  BY DEF Next, WritePmpcfg, WritePmpaddr, WriteMseccfg, vars, pmp_addr_we
<1>3. pmp_cfg[r].mode = "TOR" /\ r # 0 => pmp_addr'[r - 1] = pmp_addr[r - 1]
  <2> SUFFICES ASSUME pmp_cfg[r].mode = "TOR", r # 0
               PROVE  pmp_addr'[r - 1] = pmp_addr[r - 1]
    OBVIOUS
  <2>1. r - 1 \in Region /\ (r - 1) + 1 = r /\ r - 1 < PMPNumRegions - 1
    BY PmpAssumption DEF Region
  <2>2. ~pmp_addr_we(r - 1)
    BY <2>1 DEF pmp_addr_we
  <2>3. QED
    BY <2>1, <2>2 DEF Next, WritePmpcfg, WritePmpaddr, WriteMseccfg, vars
<1>4. ~pmp_mseccfg'.rlb
  <2>1. CASE WriteMseccfg
    <3>1. any_pmp_entry_locked
      BY DEF any_pmp_entry_locked
    <3>2. QED
      BY <2>1, <3>1, SecStep, Zenon
  <2>2. CASE ~WriteMseccfg
    <3>1. pmp_mseccfg' = pmp_mseccfg
      BY <2>2 DEF Next, WritePmpcfg, WritePmpaddr, vars
    <3>2. QED
      BY <3>1 DEF pmp_cfg_locked
  <2>3. QED
    BY <2>1, <2>2
<1>5. pmp_cfg_locked(r)'
  BY <1>1, <1>4 DEF pmp_cfg_locked
<1>6. QED
  BY <1>1, <1>2, <1>3, <1>5, CoversSame

\* No sequence of writes changes a locked rule, its words or its lock, whatever
\* the number of entries and the granularity.
THEOREM PmpLockedRuleKept == Spec => LockedRuleKept
<1>1. PmpInv /\ [Next]_vars =>
        [\A r \in Region : pmp_cfg_locked(r) =>
           /\ pmp_cfg_locked(r)'
           /\ pmp_cfg'[r] = pmp_cfg[r]
           /\ Covers(r)' = Covers(r)]_vars
  BY LockStep
<1>2. QED
  BY <1>1, Invariant, PTL DEF Spec, LockedRuleKept

-----------------------------------------------------------------------------
(* Rules for M mode to execute. *)

\* The rules that let M mode execute under MML are those whose writes are
\* suppressed.
LEMMA MExecRules ==
  ASSUME NEW cfg \in Cfg
  PROVE  "X" \in SmepmpAllows(cfg, "M") <=> is_mml_m_exec_cfg(cfg)
<1> DEFINE p == cfg.perm
<1>1. cfg.lock \in BOOLEAN /\ p \subseteq Access /\ "X" \in Access /\ "M" \in Priv
  BY Rule DEF Access, Priv
<1>2. "X" \in SmepmpAllows(cfg, "M") <=> mml_perm_check(cfg, "X", "M")
  BY <1>1, MmlAllows
<1>3. /\ p = {"W"}      <=> "W" \in p /\ "R" \notin p /\ "X" \notin p
      /\ p = {"W", "X"} <=> "W" \in p /\ "R" \notin p /\ "X" \in p
      /\ p = {"X"}      <=> "W" \notin p /\ "R" \notin p /\ "X" \in p
      /\ p = {"R", "X"} <=> "W" \notin p /\ "R" \in p /\ "X" \in p
      /\ p = Access     <=> "W" \in p /\ "R" \in p /\ "X" \in p
  BY <1>1 DEF Access
<1>4. mml_perm_check(cfg, "X", "M") <=>
        cfg.lock /\ \/ "W" \in p /\ "R" \notin p
                    \/ "W" \notin p /\ "X" \in p
  BY <1>1, <1>3 DEF mml_perm_check
<1>5. is_mml_m_exec_cfg(cfg) <=>
        cfg.lock /\ \/ "W" \in p /\ "R" \notin p
                    \/ "W" \notin p /\ "X" \in p
  BY <1>1, <1>3 DEF is_mml_m_exec_cfg
<1>6. QED
  BY <1>2, <1>4, <1>5, Zenon

LEMMA MExecStep ==
  ASSUME PmpInv, [Next]_vars, pmp_mseccfg.mml, ~pmp_mseccfg.rlb,
         NEW r \in Region, MExec(r)'
  PROVE  MExec(r)
<1>1. CASE pmp_cfg'[r] = pmp_cfg[r]
  BY <1>1 DEF MExec
<1>2. CASE pmp_cfg'[r] # pmp_cfg[r]
  <2>1. WritePmpcfg
    BY <1>2 DEF Next, WritePmpaddr, WriteMseccfg, vars
  <2>2. PICK v \in program.cfg :
          ~pmp_cfg_wr_suppress(v) /\ pmp_cfg'[r] = pmp_cfg_wdata(v)
    BY <1>2, <2>1, WriteEach, Zenon DEF PmpInv
  <2>3. pmp_cfg_wdata(v) \in Cfg
    BY <2>2, Written, WdataType DEF PmpInv
  <2>4. ~is_mml_m_exec_cfg(pmp_cfg_wdata(v))
    BY <2>2 DEF pmp_cfg_wr_suppress
  <2>5. "X" \in SmepmpAllows(pmp_cfg'[r], "M")
    BY DEF MExec
  <2>6. QED
    BY <2>2, <2>3, <2>4, <2>5, MExecRules
<1>3. QED
  BY <1>1, <1>2

\* Under MML, without RLB, no write adds a rule that lets M mode execute.
THEOREM PmpNoNewMExec == Spec => NoNewMExec
<1>1. PmpInv /\ [Next]_vars =>
        [pmp_mseccfg.mml /\ ~pmp_mseccfg.rlb =>
           \A r \in Region : MExec(r)' => MExec(r)]_vars
  BY MExecStep
<1>2. QED
  BY <1>1, Invariant, PTL DEF Spec, NoNewMExec
-----------------------------------------------------------------------------
\* The reserved combination of permissions is never there without MML.
THEOREM PmpNoReservedRule == Spec => []NoReservedRule
<1>1. Init => NoReservedRule
  BY DEF Init, NoReservedRule
<1>2. PmpShape /\ NoReservedRule /\ [Next]_vars => NoReservedRule'
  <2> SUFFICES ASSUME PmpShape, NoReservedRule, [Next]_vars, ~pmp_mseccfg'.mml,
                      NEW r \in Region, "W" \in pmp_cfg'[r].perm
               PROVE  "R" \in pmp_cfg'[r].perm
    BY DEF NoReservedRule
  <2>1. CASE WritePmpcfg
    <3>1. ~pmp_mseccfg.mml
      BY <2>1 DEF WritePmpcfg
    <3>2. CASE pmp_cfg'[r] = pmp_cfg[r]
      BY <3>1, <3>2 DEF NoReservedRule
    <3>3. CASE pmp_cfg'[r] # pmp_cfg[r]
      <4>1. PICK v \in program.cfg : pmp_cfg'[r] = pmp_cfg_wdata(v)
        BY <2>1, <3>3, WriteEach, Zenon
      <4>2. v \in Cfg
        BY <4>1, Written
      <4>3. pmp_cfg_wdata(v).perm = IF "R" \in v.perm THEN v.perm ELSE v.perm \ {"W"}
        BY <3>1, <4>2 DEF pmp_cfg_wdata, Cfg
      <4>4. QED
        BY <4>1, <4>3
    <3>4. QED
      BY <3>2, <3>3
  <2>2. CASE WritePmpaddr \/ UNCHANGED vars
    BY <2>2 DEF WritePmpaddr, vars, NoReservedRule
  <2>3. CASE WriteMseccfg
    <3>1. ~pmp_mseccfg.mml
      BY <2>3, SecStep, Zenon
    <3>2. pmp_cfg' = pmp_cfg
      BY <2>3 DEF WriteMseccfg
    <3>3. QED
      BY <3>1, <3>2 DEF NoReservedRule
  <2>4. QED
    BY <2>1, <2>2, <2>3 DEF Next
<1>3. QED
  BY <1>1, <1>2, ShapeInit, ShapeStep, PTL DEF Spec
======================================================================================================================================================
