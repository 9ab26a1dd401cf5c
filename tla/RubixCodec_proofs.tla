-------------------------- MODULE RubixCodec_proofs --------------------------
(***************************************************************************)
(* RoundTrip of RubixCodec, for every set of points and messages of any    *)
(* length.  What the folds Number and Used compute, and what a number of n *)
(* bits is, is shown by induction; the tables by cases; then the invariant *)
(* that the encoder and the decoder keep.                                  *)
(***************************************************************************)
EXTENDS RubixCodec, SequenceTheorems, WellFoundedInduction, TLAPS

-----------------------------------------------------------------------------
(* Induction.  A set of naturals stands for the predicate, because the     *)
(* provers do not instantiate one.                                         *)

LEMMA LeastNatural ==
    ASSUME NEW T, T \subseteq Nat, T # {}
    PROVE  \E m \in T : \A n \in T : m <= n
<1>1. IsWellFoundedOn(OpToRel(<, Nat), Nat)
  BY NatLessThanWellFounded
<1>2. \E x \in T : \A y \in T : <<y, x>> \notin OpToRel(<, Nat)
  BY <1>1, WFMin
<1>3. \E x \in T : \A y \in T : ~(y < x)
  BY <1>2 DEF OpToRel
<1>. QED
  BY <1>3

LEMMA Induction ==
    ASSUME NEW n \in Nat, NEW T, 0 \in T,
           \A k \in 0..n : k # n /\ k \in T => k + 1 \in T
    PROVE  0..n \subseteq T
<1>. SUFFICES ASSUME (0..n) \ T # {} PROVE FALSE
  OBVIOUS
<1>1. PICK m \in (0..n) \ T : \A k \in (0..n) \ T : m <= k
  <2>1. (0..n) \ T \subseteq Nat
    OBVIOUS
  <2>. QED
    BY <2>1, LeastNatural
<1>2. m - 1 \in 0..n /\ m - 1 # n /\ (m - 1) + 1 = m /\ ~(m <= m - 1)
  OBVIOUS
<1>3. m - 1 \in T
  BY <1>1, <1>2
<1>. QED
  BY <1>2, <1>3

-----------------------------------------------------------------------------
(* Folds.                                                                  *)

LEMMA MaxOfInterval ==
    ASSUME NEW n \in Nat, NEW s \in SUBSET (1..(n + 1)), n + 1 \in s
    PROVE  Max(s) = n + 1
<1>1. \A m \in s : n + 1 >= m
  OBVIOUS
<1>2. Max(s) = CHOOSE x \in s : \A y \in s : x >= y
  BY DEF Max
<1>3. Max(s) \in s /\ \A y \in s : Max(s) >= y
  BY <1>1, <1>2
<1>4. Max(s) \in 1..(n + 1) /\ Max(s) >= n + 1
  BY <1>3
<1>. QED
  BY <1>4

LEMMA MaxOfSet ==
    ASSUME NEW n \in Nat, NEW s \in SUBSET (1..n), s # {}
    PROVE  Max(s) \in s
<1>. DEFINE T == {n - k : k \in s}
<1>1. T \subseteq Nat /\ T # {}
  <2>1. \A k \in s : n - k \in Nat
    OBVIOUS
  <2>. QED
    BY <2>1
<1>2. PICK m \in T : \A k \in T : m <= k
  BY <1>1, LeastNatural
<1>3. n - m \in s /\ \A k \in s : n - m >= k
  BY <1>2
<1>. QED
  BY <1>3 DEF Max

\* A fold steps from the value of the first elements of a sequence to the next.
Folds(g, n, A, base, F) ==
    /\ g \in [SUBSET (1..n) -> A]
    /\ \A s \in SUBSET (1..n) :
          g[s] = IF s = {} THEN base ELSE F[<<g[s \ {Max(s)}], Max(s)>>]

LEMMA FoldExists ==
    ASSUME NEW n \in Nat, NEW A, NEW base \in A, NEW F \in [A \X (1..n) -> A]
    PROVE  \E g : Folds(g, n, A, base, F)
<1>. DEFINE T == {k \in 0..n : \E g : Folds(g, k, A, base, F)}
<1>1. 0 \in T
  <2>1. SUBSET (1..0) = {{}}
    OBVIOUS
  <2>2. Folds([s \in SUBSET (1..0) |-> base], 0, A, base, F)
    BY <2>1 DEF Folds
  <2>3. \E g : Folds(g, 0, A, base, F)
    BY <2>2
  <2>. QED
    BY <2>3
<1>2. ASSUME NEW k \in 0..n, k # n, k \in T
      PROVE  k + 1 \in T
  <2>1. PICK g : Folds(g, k, A, base, F)
    BY <1>2
  <2>2. k + 1 \in 1..n /\ k \in Nat
    BY <1>2
  <2>. DEFINE h == [s \in SUBSET (1..(k + 1)) |->
                       IF k + 1 \in s THEN F[<<g[s \ {k + 1}], k + 1>>] ELSE g[s]]
  <2>3. \A s \in SUBSET (1..(k + 1)) : /\ s \ {k + 1} \in SUBSET (1..k)
                                       /\ k + 1 \notin s => s \in SUBSET (1..k)
    BY <2>2
  <2>4. ASSUME NEW s \in SUBSET (1..k)
        PROVE  s \in SUBSET (1..(k + 1)) /\ k + 1 \notin s /\ h[s] = g[s]
    BY <2>2
  <2>5. h \in [SUBSET (1..(k + 1)) -> A]
    BY <2>1, <2>2, <2>3 DEF Folds
  <2>6. ASSUME NEW s \in SUBSET (1..(k + 1))
        PROVE  h[s] = IF s = {} THEN base ELSE F[<<h[s \ {Max(s)}], Max(s)>>]
    <3>1. CASE k + 1 \in s
      <4>1. Max(s) = k + 1 /\ s # {}
        BY <2>2, <3>1, MaxOfInterval
      <4>2. h[s \ {k + 1}] = g[s \ {k + 1}]
        BY <2>3, <2>4
      <4>. QED
        BY <3>1, <4>1, <4>2
    <3>2. CASE k + 1 \notin s
      <4>1. s \in SUBSET (1..k) /\ h[s] = g[s]
        BY <2>3, <3>2
      <4>2. s \ {Max(s)} \in SUBSET (1..k) /\ h[s \ {Max(s)}] = g[s \ {Max(s)}]
        BY <2>4, <4>1
      <4>. QED
        BY <2>1, <4>1, <4>2 DEF Folds
    <3>. QED
      BY <3>1, <3>2
  <2>. HIDE DEF h
  <2>7. Folds(h, k + 1, A, base, F)
    BY <2>5, <2>6 DEF Folds
  <2>8. \E f : Folds(f, k + 1, A, base, F)
    BY <2>7
  <2>. QED
    BY <2>2, <2>8
<1>. HIDE DEF T
<1>3. n \in T
  BY <1>1, <1>2, Induction
<1>. QED
  BY <1>3 DEF T

LEMMA IntervalFacts ==
    ASSUME NEW n \in Nat, NEW k \in 1..n
    PROVE  /\ 1..k \in SUBSET (1..n) /\ 1..k # {} /\ Max(1..k) = k
           /\ (1..k) \ {k} = 1..(k - 1) /\ 1..(k - 1) \in SUBSET (1..n)
<1>1. k - 1 \in Nat /\ (k - 1) + 1 = k
  OBVIOUS
<1>2. Max(1..k) = k
  <2>1. 1..k \in SUBSET (1..((k - 1) + 1)) /\ (k - 1) + 1 \in 1..k
    BY <1>1
  <2>2. Max(1..k) = (k - 1) + 1
    BY <1>1, <2>1, MaxOfInterval
  <2>. QED
    BY <1>1, <2>2
<1>. QED
  BY <1>2

\* Number reads the bits from the left.
LEMMA NumberSteps ==
    ASSUME NEW n \in Nat, NEW bs \in [1..n -> {0, 1}]
    PROVE  \E value : /\ value[0] = 0 /\ Number(bs) = value[n]
                      /\ \A k \in 1..n : value[k] = 2 * value[k - 1] + bs[k]
<1>. DEFINE Step(g) == [s \in SUBSET (DOMAIN bs) |->
                           IF s = {} THEN 0 ELSE 2 * g[s \ {Max(s)}] + bs[Max(s)]]
            iter == CHOOSE g : g = Step(g)
            F == [p \in Nat \X (1..n) |-> 2 * p[1] + bs[p[2]]]
            value == [k \in 0..n |-> iter[1..k]]
<1>1. F \in [Nat \X (1..n) -> Nat]
  OBVIOUS
<1>2. \E g : g = Step(g)
  <2>. HIDE DEF F
  <2>0. 0 \in Nat
    OBVIOUS
  <2>1. PICK g : Folds(g, n, Nat, 0, F)
    BY <1>1, <2>0, FoldExists, Zenon
  <2>2. ASSUME NEW s \in SUBSET (1..n)
        PROVE  g[s] = IF s = {} THEN 0 ELSE 2 * g[s \ {Max(s)}] + bs[Max(s)]
    <3>. SUFFICES ASSUME s # {}
                  PROVE  g[s] = 2 * g[s \ {Max(s)}] + bs[Max(s)]
      BY <2>1 DEF Folds
    <3>1. Max(s) \in 1..n /\ g[s \ {Max(s)}] \in Nat
      BY <2>1, MaxOfSet DEF Folds
    <3>2. F[<<g[s \ {Max(s)}], Max(s)>>] = 2 * g[s \ {Max(s)}] + bs[Max(s)]
      BY <3>1 DEF F
    <3>. QED
      BY <2>1, <3>2 DEF Folds
  <2>3. g = Step(g)
    BY <2>1, <2>2 DEF Folds
  <2>. QED
    BY <2>3
<1>3. iter = Step(iter)
  <2>. HIDE DEF Step
  <2>. QED
    BY <1>2
<1>4. Number(bs) = iter[1..n]
  BY DEF Number, FoldLeft, MapThenFoldSet
<1>. HIDE DEF iter
<1>5. value[0] = 0 /\ Number(bs) = value[n]
  <2>1. 1..0 = {} /\ {} \in SUBSET (1..n) /\ DOMAIN bs = 1..n
    OBVIOUS
  <2>2. iter[{}] = 0
    BY <1>3, <2>1
  <2>. QED
    BY <1>4, <2>1, <2>2
<1>6. ASSUME NEW k \in 1..n
      PROVE  value[k] = 2 * value[k - 1] + bs[k]
  <2>1. k \in 0..n /\ k - 1 \in 0..n
    OBVIOUS
  <2>2. DOMAIN bs = 1..n
    OBVIOUS
  <2>. HIDE DEF value
  <2>3. iter[1..k] = 2 * iter[(1..k) \ {Max(1..k)}] + bs[Max(1..k)]
    <3>1. 1..k \in SUBSET (DOMAIN bs) /\ 1..k # {}
      BY <2>2, IntervalFacts
    <3>. QED
      BY <1>3, <3>1
  <2>4. iter[1..k] = 2 * iter[1..(k - 1)] + bs[k]
    BY <2>3, IntervalFacts
  <2>. QED
    BY <2>1, <2>4 DEF value
<1>. QED
  BY <1>5, <1>6

-----------------------------------------------------------------------------
(* Powers of two, quotients and remainders.                                *)

LEMMA Powers ==
    /\ 2 ^ 0 = 1 /\ 2 ^ 1 = 2 /\ 2 ^ 2 = 4 /\ 2 ^ 3 = 8 /\ 2 ^ 4 = 16 /\ 2 ^ 5 = 32
    /\ 2 ^ 6 = 64 /\ 2 ^ 7 = 128 /\ 2 ^ 8 = 256 /\ 2 ^ 9 = 512 /\ 2 ^ 10 = 1024
    /\ 2 ^ 11 = 2048 /\ 2 ^ 12 = 4096 /\ 2 ^ 13 = 8192 /\ 2 ^ 14 = 16384
    /\ 2 ^ 15 = 32768 /\ 2 ^ 16 = 65536 /\ 2 ^ 17 = 131072 /\ 2 ^ 18 = 262144
    /\ 2 ^ 19 = 524288 /\ 2 ^ 20 = 1048576
OBVIOUS

\* The provers compute with exponents that are numerals, and with no others.
LEMMA PowerStep ==
    ASSUME NEW n \in 0..19
    PROVE  2 ^ n \in Nat \ {0} /\ 2 ^ (n + 1) = 2 * 2 ^ n
<1>1. CASE n = 0 BY <1>1, Powers
<1>2. CASE n = 1 BY <1>2, Powers
<1>3. CASE n = 2 BY <1>3, Powers
<1>4. CASE n = 3 BY <1>4, Powers
<1>5. CASE n = 4 BY <1>5, Powers
<1>6. CASE n = 5 BY <1>6, Powers
<1>7. CASE n = 6 BY <1>7, Powers
<1>8. CASE n = 7 BY <1>8, Powers
<1>9. CASE n = 8 BY <1>9, Powers
<1>10. CASE n = 9 BY <1>10, Powers
<1>11. CASE n = 10 BY <1>11, Powers
<1>12. CASE n = 11 BY <1>12, Powers
<1>13. CASE n = 12 BY <1>13, Powers
<1>14. CASE n = 13 BY <1>14, Powers
<1>15. CASE n = 14 BY <1>15, Powers
<1>16. CASE n = 15 BY <1>16, Powers
<1>17. CASE n = 16 BY <1>17, Powers
<1>18. CASE n = 17 BY <1>18, Powers
<1>19. CASE n = 18 BY <1>19, Powers
<1>20. CASE n = 19 BY <1>20, Powers
<1>. QED
  BY <1>1, <1>2, <1>3, <1>4, <1>5, <1>6, <1>7, <1>8, <1>9, <1>10, <1>11, <1>12,
     <1>13, <1>14, <1>15, <1>16, <1>17, <1>18, <1>19, <1>20

LEMMA PowerPositive ==
    ASSUME NEW n \in 0..20
    PROVE  2 ^ n \in Nat \ {0}
<1>1. CASE n = 20
  BY <1>1, Powers
<1>2. CASE n # 20
  <2>1. n \in 0..19
    BY <1>2
  <2>. QED
    BY <2>1, PowerStep
<1>. QED
  BY <1>1, <1>2

LEMMA DivUnique ==
    ASSUME NEW d \in Nat \ {0}, NEW q \in Nat, NEW r \in 0..(d - 1)
    PROVE  (d * q + r) \div d = q /\ (d * q + r) % d = r
OBVIOUS

LEMMA DivStep ==
    ASSUME NEW v \in Nat, NEW p \in Nat \ {0}
    PROVE  v \div (2 * p) = (v \div p) \div 2
<1>. DEFINE q == v \div p
            r == v % p
            h == q \div 2
            b == q % 2
            d == 2 * p
            s == p * b + r
<1>1. q \in Nat /\ r \in 0..(p - 1) /\ v = p * q + r
  OBVIOUS
<1>2. h \in Nat /\ b \in {0, 1} /\ q = 2 * h + b
  BY <1>1
<1>. HIDE DEF q, r, h, b
<1>3. v = d * h + s
  <2>1. p * q = (2 * p) * h + p * b
    BY <1>1, <1>2
  <2>. QED
    BY <1>1, <1>2, <2>1
<1>4. d \in Nat \ {0} /\ s \in 0..(d - 1)
  <2>1. CASE b = 0
    BY <1>1, <2>1
  <2>2. CASE b = 1
    BY <1>1, <2>2
  <2>. QED
    BY <1>2, <2>1, <2>2
<1>. HIDE DEF d, s
<1>5. (d * h + s) \div d = h
  BY <1>2, <1>4, DivUnique
<1>. QED
  BY <1>3, <1>5 DEF d, h, q

LEMMA ModStep ==
    ASSUME NEW w \in Nat, NEW p \in Nat \ {0}
    PROVE  w % (2 * p) = 2 * ((w \div 2) % p) + (w % 2)
<1>. DEFINE h == w \div 2
            b == w % 2
            q == h \div p
            r == h % p
            d == 2 * p
            s == 2 * r + b
<1>1. h \in Nat /\ b \in {0, 1} /\ w = 2 * h + b
  OBVIOUS
<1>. HIDE DEF h, b
<1>2. q \in Nat /\ r \in 0..(p - 1) /\ h = p * q + r
  BY <1>1
<1>. HIDE DEF q, r
<1>3. w = d * q + s
  <2>1. 2 * (p * q) = d * q
    BY <1>2
  <2>. QED
    BY <1>1, <1>2, <2>1
<1>4. d \in Nat \ {0} /\ s \in 0..(d - 1)
  BY <1>1, <1>2
<1>. HIDE DEF d, s
<1>5. (d * q + s) % d = s
  BY <1>2, <1>4, DivUnique
<1>6. w % d = s
  BY <1>3, <1>5
<1>. QED
  BY <1>6, Zenon DEF d, s, r, h, b

\* A number that is written in n bits is read modulo 2 ^ n.
LEMMA NumberOfBits ==
    ASSUME NEW v \in Nat, NEW n \in 0..20
    PROVE  /\ Bits(v, n) \in [1..n -> {0, 1}]
           /\ Number(Bits(v, n)) = v % 2 ^ n
<1>. DEFINE bs == Bits(v, n)
<1>1. ASSUME NEW k \in 0..n PROVE 2 ^ k \in Nat \ {0}
  <2>1. k \in 0..20
    OBVIOUS
  <2>. QED
    BY <2>1, PowerPositive
<1>2. \A k \in 0..n : v \div 2 ^ k \in Nat
  BY <1>1
<1>3. \A k \in 1..n : n - k \in 0..n
  OBVIOUS
<1>4. /\ bs \in [1..n -> {0, 1}]
      /\ \A k \in 1..n : bs[k] = (v \div 2 ^ (n - k)) % 2
  <2>1. \A w \in Nat : w % 2 \in {0, 1}
    OBVIOUS
  <2>. QED
    BY <1>2, <1>3, <2>1 DEF Bits
<1>. HIDE DEF bs
<1>5. PICK value : /\ value[0] = 0 /\ Number(bs) = value[n]
                   /\ \A k \in 1..n : value[k] = 2 * value[k - 1] + bs[k]
  <2>1. n \in Nat
    OBVIOUS
  <2>. QED
    BY <1>4, <2>1, NumberSteps, Zenon
<1>. DEFINE T == {k \in 0..n : value[k] = (v \div 2 ^ (n - k)) % 2 ^ k}
<1>6. 0 \in T
  <2>1. n - 0 = n /\ v \div 2 ^ n \in Nat
    BY <1>2
  <2>2. (v \div 2 ^ n) % 1 = 0
    BY <2>1
  <2>. QED
    BY <1>5, <2>1, <2>2, Powers
<1>7. ASSUME NEW k \in 0..n, k # n, k \in T
      PROVE  k + 1 \in T
  <2>. DEFINE m == n - (k + 1)
              w == v \div 2 ^ m
  <2>1. m \in 0..19 /\ m + 1 = n - k /\ k \in 0..19 /\ k + 1 \in 1..n /\ (k + 1) - 1 = k
    BY <1>7
  <2>2. v \div 2 ^ (n - k) = w \div 2
    <3>1. 2 ^ m \in Nat \ {0} /\ 2 ^ (n - k) = 2 * 2 ^ m
      BY <2>1, PowerStep
    <3>. QED
      BY <3>1, DivStep
  <2>3. w \in Nat
    BY <1>2, <2>1
  <2>. HIDE DEF w, m
  <2>4. w % 2 ^ (k + 1) = 2 * ((w \div 2) % 2 ^ k) + (w % 2)
    <3>1. 2 ^ k \in Nat \ {0} /\ 2 ^ (k + 1) = 2 * 2 ^ k
      BY <2>1, PowerStep
    <3>. QED
      BY <2>3, <3>1, ModStep
  <2>5. value[k + 1] = 2 * value[k] + bs[k + 1]
    BY <1>5, <2>1
  <2>6. bs[k + 1] = w % 2 /\ w = v \div 2 ^ (n - (k + 1))
    BY <1>4, <2>1 DEF w, m
  <2>7. value[k] = (w \div 2) % 2 ^ k
    BY <1>7, <2>2
  <2>8. value[k + 1] = w % 2 ^ (k + 1)
    <3>1. value[k + 1] = 2 * ((w \div 2) % 2 ^ k) + (w % 2)
      BY <2>5, <2>6, <2>7, Zenon
    <3>. QED
      BY <2>4, <3>1, Zenon
  <2>. QED
    <3>1. k + 1 \in 0..n
      BY <2>1
    <3>. QED
      BY <2>6, <2>8, <3>1, Zenon
<1>. HIDE DEF T
<1>8. n \in T
  BY <1>6, <1>7, Induction
<1>9. v \div 2 ^ (n - n) = v
  BY Powers
<1>. QED
  BY <1>4, <1>5, <1>8, <1>9 DEF T, bs

-----------------------------------------------------------------------------
(* The tables.                                                             *)

LEMMA RangeFacts ==
    ASSUME NEW key \in FixedKeys
    PROVE  /\ FixedPoint[key].low \in Int /\ FixedPoint[key].high \in Int
           /\ FixedPoint[key].high - FixedPoint[key].low \in 1..(2 ^ 20)
<1>1. 10 ^ 0 = 1 /\ 10 ^ 1 = 10 /\ 10 ^ 2 = 100 /\ 10 ^ 3 = 1000
  OBVIOUS
<1>. QED
  BY <1>1, SMTT(20) DEF FixedKeys, FixedPoint, Fixed

\* getBitCount finds a count, and no value of the range needs more bits.
LEMMA BitCountForFacts ==
    ASSUME NEW range \in 1..(2 ^ 20)
    PROVE  BitCountFor(range) \in 1..20 /\ 2 ^ BitCountFor(range) >= range
<1>. DEFINE Enough(b) == 2 ^ b >= range /\ \A c \in 1..(b - 1) : 2 ^ c < range
            T == {b \in 1..20 : 2 ^ b >= range}
<1>1. T \subseteq Nat /\ 20 \in T
  BY Powers
<1>2. PICK m \in T : \A b \in T : m <= b
  BY <1>1, LeastNatural
<1>3. Enough(m)
  <2>. SUFFICES ASSUME NEW c \in 1..(m - 1) PROVE 2 ^ c < range
    BY <1>2
  <2>1. c \in 0..20 /\ c \in 1..20 /\ c \notin T
    BY <1>2
  <2>2. 2 ^ c \in Nat /\ ~(2 ^ c >= range)
    BY <2>1, PowerPositive
  <2>. QED
    BY <2>2
<1>4. m \in 1..30
  BY <1>2
<1>. HIDE DEF Enough
<1>5. \E b \in 1..30 : Enough(b)
  BY <1>3, <1>4
<1>6. BitCountFor(range) = CHOOSE b \in 1..30 : Enough(b)
  BY DEF BitCountFor, Enough
<1>. DEFINE count == BitCountFor(range)
<1>7. count \in 1..30 /\ Enough(count)
  BY <1>5, <1>6
<1>. HIDE DEF count
<1>8. count <= 20
  <2>. SUFFICES ASSUME count > 20 PROVE FALSE
    BY <1>7
  <2>1. 20 \in 1..(count - 1)
    BY <1>7
  <2>. QED
    BY <1>7, <2>1, Powers DEF Enough
<1>. QED
  BY <1>7, <1>8 DEF Enough, count

LEMMA BitCountFacts ==
    ASSUME NEW key \in Keys
    PROVE  /\ BitCount(key) \in Nat \ {0}
           /\ key \in DataKeys => key \notin FixedKeys
           /\ key \in FixedKeys =>
                 /\ BitCount(key) \in 1..20
                 /\ 2 ^ BitCount(key) >= FixedPoint[key].high - FixedPoint[key].low
<1>1. CASE key \in FixedKeys
  <2>1. key \notin DataKeys
    BY <1>1 DEF FixedKeys, DataKeys, FixedPoint, ByteCount
  <2>. DEFINE range == FixedPoint[key].high - FixedPoint[key].low
  <2>2. range \in 1..(2 ^ 20) /\ BitCount(key) = BitCountFor(range)
    BY <1>1, RangeFacts DEF BitCount
  <2>. HIDE DEF range
  <2>3. BitCount(key) \in 1..20 /\ 2 ^ BitCount(key) >= range
    BY <2>2, BitCountForFacts
  <2>. QED
    BY <2>1, <2>3 DEF range
<1>2. CASE key \notin FixedKeys
  <2>1. ByteCount[key] \in Nat \ {0}
    BY <1>2 DEF Keys, DataKeys, ByteCount
  <2>. QED
    BY <1>2, <2>1 DEF BitCount
<1>. QED
  BY <1>1, <1>2

LEMMA KeyFacts ==
    ASSUME NEW key \in Keys
    PROVE  KeyCode[key] \in 1..63 /\ KeyName(KeyCode[key]) = key
<1>1. KeyCode[key] \in 1..63
  BY DEF Keys, FixedKeys, DataKeys, FixedPoint, ByteCount, KeyCode
<1>2. ASSUME NEW other \in Keys, KeyCode[other] = KeyCode[key]
      PROVE  other = key
  BY <1>2 DEF Keys, FixedKeys, DataKeys, FixedPoint, ByteCount, KeyCode
<1>. QED
  BY <1>1, <1>2 DEF KeyName

LEMMA NameFacts ==
    ASSUME NEW name \in Names
    PROVE  /\ GetPosition(name) \in 32..255
           /\ \A code : FieldName(code, GetPosition(name)) = name
<1>. DEFINE second == name[1] = "UVP" /\ name[2] > 32
            type   == IF second THEN "UVP2" ELSE name[1]
            number == name[2] - (IF second THEN 32 ELSE 0)
            place  == number - 1
            t      == TypeCode[type]
<1>1. type \in DOMAIN TypeCode /\ t \in 1..7
  BY DEF Names, TypeCode
<1>2. place \in 0..31 /\ place + 1 = number
  BY DEF Names
<1>3. name = IF type = "UVP2" THEN <<"UVP", number + 32>> ELSE <<type, number>>
  BY DEF Names, TypeCode
<1>4. GetPosition(name) = 32 * t + place
  <2>1. name[2] \in Int
    BY DEF Names
  <2>. QED
    BY <1>1, <2>1 DEF GetPosition
<1>5. TypeOf(t) = type
  <2>1. \A u \in DOMAIN TypeCode : TypeCode[u] = TypeCode[type] => u = type
    BY <1>1 DEF TypeCode
  <2>. QED
    BY <1>1, <2>1 DEF TypeOf
<1>. HIDE DEF t, type, number, place
<1>6. (32 * t + place) \div 32 = t /\ (32 * t + place) % 32 = place
  BY <1>1, <1>2
<1>7. PositionName(32 * t + place) = name
  BY <1>2, <1>3, <1>5, <1>6 DEF PositionName
<1>. QED
  BY <1>1, <1>2, <1>4, <1>6, <1>7 DEF FieldName

\* A fixed point value is read as what should arrive.
LEMMA FixedFacts ==
    ASSUME NEW key \in FixedKeys, NEW v \in Int
    PROVE  LET m == FixedPoint[key]
               c == Clamp(v, m.low, m.high)
           IN  /\ DataBits(key, v) \in [1..BitCount(key) -> {0, 1}]
               /\ Number(DataBits(key, v)) + m.low
                    = IF c - m.low = 2 ^ BitCount(key) THEN m.low ELSE c
<1>. DEFINE low  == FixedPoint[key].low
            high == FixedPoint[key].high
            c == Clamp(v, low, high)
            w == c - low
            n == BitCount(key)
            p == 2 ^ n
<1>1. low \in Int /\ high \in Int /\ high - low > 0
  BY RangeFacts, Powers
<1>2. n \in 0..20 /\ p \in Nat \ {0} /\ p >= high - low
  <2>1. n \in 1..20 /\ p >= high - low
    BY BitCountFacts DEF Keys
  <2>2. n \in 0..20
    BY <2>1
  <2>. QED
    BY <2>1, <2>2, PowerPositive
<1>3. DataBits(key, v) = Bits(w, n)
  BY DEF DataBits, FixedPointToBits
<1>. HIDE DEF low, high, n, p
<1>4. c \in Int /\ w \in Nat /\ w <= p /\ c = w + low
  BY <1>1, <1>2 DEF Clamp
<1>. HIDE DEF w, c
<1>5. Bits(w, n) \in [1..n -> {0, 1}] /\ Number(Bits(w, n)) = w % p
  BY <1>2, <1>4, NumberOfBits DEF p
<1>6. (w % p) + low = IF w = p THEN low ELSE c
  <2>1. CASE w = p
    <3>1. w % p = 0
      BY <1>2, <2>1
    <3>. QED
      BY <1>1, <2>1, <3>1
  <2>2. CASE w # p
    <3>1. w % p = w
      BY <1>2, <1>4, <2>2
    <3>. QED
      BY <1>4, <2>2, <3>1
  <2>. QED
    BY <2>1, <2>2
<1>. QED
  BY <1>3, <1>5, <1>6 DEF low, high, c, w, n, p

-----------------------------------------------------------------------------
(* Sequences of bits.                                                      *)

LEMMA FunctionIsSeq ==
    ASSUME NEW S, NEW n \in Nat, NEW f \in [1..n -> S]
    PROVE  f \in Seq(S) /\ Len(f) = n
<1>1. f \in Seq(S)
  <2>1. f \in UNION {[1..k -> S] : k \in Nat}
    OBVIOUS
  <2>. QED
    BY <2>1, SeqDef
<1>2. Len(f) \in Nat /\ DOMAIN f = 1..Len(f) /\ DOMAIN f = 1..n
  BY <1>1, LenProperties
<1>. QED
  BY <1>1, <1>2

\* s is a followed by b.
Joins(s, a, b) ==
    /\ s \in Seq({0, 1}) /\ Len(s) = Len(a) + Len(b)
    /\ \A i \in 1..Len(s) : s[i] = IF i <= Len(a) THEN a[i] ELSE b[i - Len(a)]

LEMMA ConcatJoins ==
    ASSUME NEW a \in Seq({0, 1}), NEW b \in Seq({0, 1})
    PROVE  Joins(a \o b, a, b)
BY ConcatProperties DEF Joins

\* t is the n bits of s after the first start bits.
Slice(t, s, start, n) ==
    t \in [1..n -> {0, 1}] /\ \A i \in 1..n : t[i] = s[start + i]

LEMMA SubSeqSlice ==
    ASSUME NEW s \in Seq({0, 1}), NEW start \in Nat, NEW n \in Nat, start + n <= Len(s)
    PROVE  Slice(SubSeq(s, start + 1, start + n), s, start, n)
<1>. DEFINE first == start + 1
            last == start + n
            t == SubSeq(s, first, last)
<1>1. first \in Int /\ last \in Int /\ last - first + 1 = n
  OBVIOUS
<1>2. \A i \in first..last : s[i] \in {0, 1}
  <2>1. \A i \in first..last : i \in 1..Len(s)
    BY LenProperties
  <2>. QED
    BY <2>1, ElementOfSeq
<1>. HIDE DEF first, last
<1>3. /\ t \in Seq({0, 1})
      /\ Len(t) = IF first <= last THEN last - first + 1 ELSE 0
      /\ \A i \in 1..(last - first + 1) : t[i] = s[first + i - 1]
  BY <1>1, <1>2, SubSeqProperties
<1>. HIDE DEF t
<1>4. Len(t) = n
  BY <1>1, <1>3
<1>5. t \in [1..n -> {0, 1}]
  BY <1>3, <1>4, LenProperties
<1>6. ASSUME NEW i \in 1..n PROVE t[i] = s[start + i]
  <2>1. first + i - 1 = start + i
    BY DEF first
  <2>. QED
    BY <1>1, <1>3, <2>1
<1>. QED
  BY <1>5, <1>6 DEF Slice, t, first, last

\* n bits at offset pos of their first byte, and zeros around them.
Reshaped(v, pos, n, bits) ==
    /\ v \in Seq({0, 1})
    /\ Len(v) = pos + n + PadTo8(pos + n) /\ Len(v) % 8 = 0
    /\ \A k \in 1..Len(v) :
          v[k] = IF k \in (pos + 1)..(pos + n) THEN bits[k - pos] ELSE 0

LEMMA ReshapeVectorFacts ==
    ASSUME NEW pos \in 0..8, NEW n \in Nat, NEW bits \in [1..n -> {0, 1}]
    PROVE  Reshaped(ReshapeVector(pos, bits), pos, n, bits)
<1>. DEFINE pad == PadTo8(pos + n)
            v == ReshapeVector(pos, bits)
<1>1. pad \in 0..7 /\ (pos + n + pad) % 8 = 0
  BY DEF PadTo8
<1>2. bits \in Seq({0, 1}) /\ Len(bits) = n
  BY FunctionIsSeq
<1>3. v = Zeros(pos) \o bits \o Zeros(pad)
  BY <1>2 DEF ReshapeVector
<1>. HIDE DEF pad, v
<1>4. \A k \in Nat : Zeros(k) \in Seq({0, 1}) /\ Len(Zeros(k)) = k
  <2>. SUFFICES ASSUME NEW k \in Nat PROVE Zeros(k) \in Seq({0, 1}) /\ Len(Zeros(k)) = k
    OBVIOUS
  <2>1. Zeros(k) \in [1..k -> {0, 1}]
    BY DEF Zeros
  <2>. QED
    BY <2>1, FunctionIsSeq
<1>5. \A k, i \in Nat : i \in 1..k => Zeros(k)[i] = 0
  BY DEF Zeros
<1>. DEFINE z == Zeros(pos)
            y == Zeros(pad)
            x == z \o bits
<1>6. /\ z \in Seq({0, 1}) /\ Len(z) = pos /\ \A k \in 1..pos : z[k] = 0
      /\ y \in Seq({0, 1}) /\ Len(y) = pad /\ \A k \in 1..pad : y[k] = 0
  BY <1>1, <1>4, <1>5
<1>. HIDE DEF z, y
<1>7. /\ x \in Seq({0, 1}) /\ Len(x) = pos + n
      /\ \A k \in 1..(pos + n) : x[k] = IF k <= pos THEN z[k] ELSE bits[k - pos]
  BY <1>2, <1>6, ConcatProperties
<1>. HIDE DEF x
<1>8. v = x \o y
  BY <1>3 DEF x, y, z
<1>9. /\ v \in Seq({0, 1}) /\ Len(v) = pos + n + pad
      /\ \A k \in 1..(pos + n + pad) :
            v[k] = IF k <= pos + n THEN x[k] ELSE y[k - (pos + n)]
  BY <1>1, <1>6, <1>7, <1>8, ConcatProperties
<1>10. ASSUME NEW k \in 1..Len(v)
       PROVE  v[k] = IF k \in (pos + 1)..(pos + n) THEN bits[k - pos] ELSE 0
  <2>1. v[k] = IF k <= pos + n THEN x[k] ELSE y[k - (pos + n)]
    BY <1>9
  <2>2. CASE k <= pos
    BY <1>1, <1>6, <1>7, <2>1, <2>2
  <2>3. CASE k \in (pos + 1)..(pos + n)
    BY <1>1, <1>6, <1>7, <2>1, <2>3
  <2>4. CASE k > pos + n
    <3>1. k - (pos + n) \in 1..pad
      BY <1>1, <1>9, <2>4
    <3>. QED
      BY <1>6, <2>1, <2>4, <3>1
  <2>. QED
    BY <2>2, <2>3, <2>4
<1>. QED
  BY <1>1, <1>9, <1>10 DEF pad, v, Reshaped

\* The first u bits of a buffer are used, and its WriteBitPos says so.
Packed(b, u) ==
    LET n == Len(b.bits)
    IN  /\ b.bits \in Seq({0, 1})
        /\ n >= 8 /\ n % 8 = 0
        /\ u \in Nat
        /\ \/ b.pos = 0 /\ u = n
           \/ b.pos \in 1..8 /\ u = n - 8 + b.pos
        /\ \A i \in (u + 1)..n : b.bits[i] = 0

\* A buffer of which the first u bits are those of b, and the rest is v at offset pos.
Merged(bits, b, u, pos, v) ==
    /\ bits \in Seq({0, 1}) /\ Len(bits) = (u - pos) + Len(v)
    /\ \A i \in 1..u : bits[i] = b[i]
    /\ \A i \in (u + 1)..Len(bits) : bits[i] = v[i - (u - pos)]

LEMMA AddVectorBits ==
    ASSUME NEW b, NEW u \in Nat, Packed(b, u),
           NEW n \in Nat, NEW bits \in [1..n -> {0, 1}]
    PROVE  Merged(AddVectorToBuffer(b, bits).bits, b.bits, u, b.pos,
                  ReshapeVector(b.pos, bits))
<1>. DEFINE buf == b.bits
            pos == b.pos
            len == Len(buf)
            base == u - pos
            v == ReshapeVector(pos, bits)
            width == Len(v)
            r == AddVectorToBuffer(b, bits)
<1>1. /\ buf \in Seq({0, 1}) /\ len \in Nat /\ u \in Nat /\ pos \in 0..8
      /\ len >= 8
      /\ pos = 0 => u = len
      /\ pos # 0 => u = len - 8 + pos
  BY LenProperties DEF Packed
<1>2. \A i \in (u + 1)..len : buf[i] = 0
  BY DEF Packed
<1>3. \A i \in 1..len : buf[i] \in {0, 1}
  BY <1>1, ElementOfSeq
<1>4. r.bits = IF pos = 0 THEN buf \o v
               ELSE SubSeq(buf, 1, len - 8)
                    \o MergeByte(SubSeq(buf, len - 7, len), SubSeq(v, 1, 8))
                    \o SubSeq(v, 9, width)
  BY DEF AddVectorToBuffer
<1>. HIDE DEF r, buf, pos
<1>5. Reshaped(v, pos, n, bits)
  BY <1>1, ReshapeVectorFacts
<1>. HIDE DEF v
<1>6. v \in Seq({0, 1}) /\ width \in Nat /\ width >= pos /\ width % 8 = 0
  <2>1. v \in Seq({0, 1}) /\ width = pos + n + PadTo8(pos + n) /\ width % 8 = 0
    BY <1>5 DEF Reshaped
  <2>2. PadTo8(pos + n) \in Nat
    BY <1>1 DEF PadTo8
  <2>. QED
    BY <1>1, <2>1, <2>2
<1>7. \A i \in 1..width : v[i] \in {0, 1}
  BY <1>6, ElementOfSeq
<1>8. \A i \in 1..pos : v[i] = 0
  BY <1>1, <1>5, <1>6 DEF Reshaped
<1>9. base \in Nat /\ u = base + pos /\ len = IF pos = 0 THEN base ELSE base + 8
  BY <1>1
<1>. HIDE DEF len, base
<1>10. ASSUME pos = 0 PROVE Merged(r.bits, buf, u, pos, v)
  <2>1. Joins(r.bits, buf, v)
    BY <1>1, <1>4, <1>6, <1>10, ConcatJoins
  <2>2. u = base /\ len = base
    BY <1>9, <1>10
  <2>3. /\ r.bits \in Seq({0, 1}) /\ Len(r.bits) = base + width
        /\ \A i \in 1..(base + width) :
              r.bits[i] = IF i <= base THEN buf[i] ELSE v[i - base]
    BY <2>1, <2>2 DEF Joins, len
  <2>. HIDE DEF width
  <2>4. \A i \in 1..base : r.bits[i] = buf[i]
    BY <1>6, <1>9, <2>3
  <2>5. \A i \in (base + 1)..(base + width) : r.bits[i] = v[i - base]
    BY <1>6, <1>9, <2>3
  <2>. QED
    BY <2>2, <2>3, <2>4, <2>5 DEF Merged, base, width
<1>11. ASSUME pos # 0 PROVE Merged(r.bits, buf, u, pos, v)
  <2>. DEFINE first == SubSeq(buf, 0 + 1, 0 + base)
              old   == SubSeq(buf, base + 1, base + 8)
              new   == SubSeq(v, 0 + 1, 0 + 8)
              byte  == MergeByte(old, new)
              rest  == SubSeq(v, 8 + 1, 8 + (width - 8))
              start == first \o byte
  <2>1. pos \in 1..8 /\ len = base + 8 /\ width >= 8
    BY <1>1, <1>6, <1>9, <1>11
  <2>2. r.bits = start \o rest
    <3>1. /\ 0 + 1 = 1 /\ 0 + base = len - 8 /\ base + 1 = len - 7 /\ base + 8 = len
          /\ 0 + 8 = 8 /\ 8 + 1 = 9 /\ 8 + (width - 8) = width
      BY <1>1, <1>6, <1>9, <2>1
    <3>. QED
      BY <1>4, <1>11, <3>1
  <2>3. Slice(first, buf, 0, base) /\ Slice(old, buf, base, 8)
    <3>1. 0 + base <= Len(buf) /\ base + 8 <= Len(buf)
      BY <1>1, <1>9, <2>1 DEF len
    <3>. HIDE DEF first, old
    <3>. QED
      BY <1>1, <1>9, <3>1, SubSeqSlice DEF first, old
  <2>4. Slice(new, v, 0, 8) /\ Slice(rest, v, 8, width - 8)
    <3>1. width - 8 \in Nat /\ 0 + 8 <= Len(v) /\ 8 + (width - 8) <= Len(v)
      BY <1>6, <2>1
    <3>. QED
      BY <1>6, <3>1, SubSeqSlice
  <2>. HIDE DEF first, old, new, rest, width
  <2>5. first \in Seq({0, 1}) /\ Len(first) = base /\ \A i \in 1..base : first[i] = buf[i]
    BY <1>9, <2>3, FunctionIsSeq DEF Slice
  <2>6. /\ rest \in Seq({0, 1}) /\ Len(rest) = width - 8
        /\ \A i \in 1..(width - 8) : rest[i] = v[8 + i]
    <3>1. width - 8 \in Nat
      BY <1>6, <2>1
    <3>. QED
      BY <2>4, <3>1, FunctionIsSeq DEF Slice
  <2>7. byte \in Seq({0, 1}) /\ Len(byte) = 8
    <3>. DEFINE eight == 8
    <3>1. byte \in [1..eight -> {0, 1}] /\ eight \in Nat
      BY DEF MergeByte
    <3>. HIDE DEF byte, eight
    <3>2. byte \in Seq({0, 1}) /\ Len(byte) = eight
      BY <3>1, FunctionIsSeq
    <3>. QED
      BY <3>2 DEF eight
  <2>8. ASSUME NEW i \in 1..8
        PROVE  byte[i] = IF i <= pos THEN buf[base + i] ELSE v[i]
    <3>1. byte[i] = IF buf[base + i] = 1 \/ v[i] = 1 THEN 1 ELSE 0
      <4>1. old[i] = buf[base + i] /\ new[i] = v[i]
        BY <2>3, <2>4 DEF Slice
      <4>. QED
        BY <4>1 DEF MergeByte
    <3>2. buf[base + i] \in {0, 1} /\ (i > pos => buf[base + i] = 0)
      <4>1. base + i \in 1..len /\ (i > pos => base + i \in (u + 1)..len)
        BY <1>1, <1>9, <2>1
      <4>. QED
        BY <1>2, <1>3, <4>1
    <3>3. v[i] \in {0, 1} /\ (i <= pos => v[i] = 0)
      <4>1. i \in 1..width /\ (i <= pos => i \in 1..pos)
        BY <1>1, <1>6, <2>1
      <4>. QED
        BY <1>7, <1>8, <4>1
    <3>4. i <= pos \/ i > pos
      BY <2>1
    <3>. QED
      BY <3>1, <3>2, <3>3, <3>4
  <2>. HIDE DEF byte
  <2>9. Joins(start, first, byte)
    BY <2>5, <2>7, ConcatJoins
  <2>10. Joins(r.bits, start, rest)
    BY <2>2, <2>6, <2>9, ConcatJoins DEF Joins
  <2>. HIDE DEF start
  <2>11. /\ Len(start) = base + 8
         /\ \A i \in 1..(base + 8) : start[i] = IF i <= base THEN first[i] ELSE byte[i - base]
    BY <2>5, <2>7, <2>9 DEF Joins
  <2>12. r.bits \in Seq({0, 1}) /\ Len(r.bits) = base + width
    <3>1. (base + 8) + (width - 8) = base + width
      BY <1>6, <1>9
    <3>. QED
      BY <2>6, <2>10, <2>11, <3>1 DEF Joins
  <2>13. ASSUME NEW i \in 1..(base + width)
         PROVE  r.bits[i] = IF i <= u THEN buf[i] ELSE v[i - base]
    <3>1. r.bits[i] = IF i <= base + 8 THEN start[i] ELSE rest[i - (base + 8)]
      BY <2>10, <2>11, <2>12 DEF Joins
    <3>2. CASE i <= base
      <4>1. i \in 1..base /\ i \in 1..(base + 8) /\ i <= base + 8 /\ i <= u
        BY <1>1, <1>9, <3>2
      <4>. QED
        BY <2>5, <2>11, <3>1, <3>2, <4>1
    <3>3. CASE i > base /\ i <= base + 8
      <4>1. /\ i \in 1..(base + 8) /\ ~(i <= base) /\ i - base \in 1..8
            /\ base + (i - base) = i /\ (i <= u <=> i - base <= pos)
        BY <1>1, <1>9, <3>3
      <4>2. r.bits[i] = byte[i - base]
        BY <2>11, <3>1, <3>3, <4>1
      <4>. QED
        BY <2>8, <4>1, <4>2
    <3>4. CASE i > base + 8
      <4>1. /\ i - (base + 8) \in 1..(width - 8) /\ 8 + (i - (base + 8)) = i - base
            /\ ~(i <= base + 8) /\ ~(i <= u)
        BY <1>1, <1>6, <1>9, <2>1, <3>4
      <4>. QED
        BY <2>6, <3>1, <4>1
    <3>. QED
      BY <1>9, <3>2, <3>3, <3>4
  <2>14. \A i \in 1..u : r.bits[i] = buf[i]
    <3>1. \A i \in 1..u : i \in 1..(base + width) /\ i <= u
      BY <1>1, <1>6, <1>9
    <3>. QED
      BY <2>13, <3>1
  <2>15. \A i \in (u + 1)..(base + width) : r.bits[i] = v[i - base]
    <3>1. \A i \in (u + 1)..(base + width) : i \in 1..(base + width) /\ ~(i <= u)
      BY <1>1, <1>6, <1>9
    <3>. QED
      BY <2>13, <3>1
  <2>. QED
    BY <2>12, <2>14, <2>15 DEF Merged, base, width
<1>. QED
  BY <1>10, <1>11 DEF r, v, pos, buf

\* The n bits follow the first u of b, which stay as they are, in the buffer r.
Extends(r, b, u, n, bits) ==
    /\ Packed(r, u + n)
    /\ \A i \in 1..u : r.bits[i] = b.bits[i]
    /\ \A i \in 1..n : r.bits[u + i] = bits[i]

\* Whatever bit a buffer ends at, AddVectorToBuffer keeps what it holds, puts the vector
\* right after it, and leaves zeros and a WriteBitPos that the next call can rely on.
THEOREM AddVectorAppends ==
    ASSUME NEW b, NEW u \in Nat, Packed(b, u),
           NEW n \in Nat, NEW bits \in [1..n -> {0, 1}]
    PROVE  Extends(AddVectorToBuffer(b, bits), b, u, n, bits)
<1>. DEFINE buf == b.bits
            pos == b.pos
            len == Len(buf)
            base == u - pos
            pad == PadTo8(pos + n)
            v == ReshapeVector(pos, bits)
            r == AddVectorToBuffer(b, bits)
            new == r.bits
            next == r.pos
            total == u + n
<1>1. /\ len \in Nat /\ len >= 8 /\ len % 8 = 0 /\ pos \in 0..8
      /\ pos = 0 => u = len
      /\ pos # 0 => u = len - 8 + pos
  <2>1. buf \in Seq({0, 1})
    BY DEF Packed
  <2>2. len \in Nat
    BY <2>1, LenProperties
  <2>3. len >= 8 /\ len % 8 = 0 /\ ((pos = 0 /\ u = len) \/ (pos \in 1..8 /\ u = len - 8 + pos))
    BY DEF Packed
  <2>. HIDE DEF len, pos
  <2>. QED
    BY <2>2, <2>3
<1>2. Merged(new, buf, u, pos, v)
  BY AddVectorBits
<1>3. Reshaped(v, pos, n, bits)
  BY <1>1, ReshapeVectorFacts
<1>4. next = (pos + (n % 8)) % 8
  <2>1. Len(bits) = n
    BY FunctionIsSeq
  <2>. QED
    BY <2>1 DEF AddVectorToBuffer, NextPos
<1>. HIDE DEF v, new, next, buf, pos
<1>5. next = (pos + n) % 8 /\ next \in 0..7
  BY <1>1, <1>4
<1>6. pad \in 0..7 /\ pad = IF next = 0 THEN 0 ELSE 8 - next
  BY <1>1, <1>5 DEF PadTo8
<1>7. base \in Nat /\ base % 8 = 0 /\ u = base + pos
  BY <1>1
<1>8. (pos + n + pad) % 8 = 0
  BY <1>3 DEF Reshaped
<1>. HIDE DEF len, base, pad
<1>9. new \in Seq({0, 1}) /\ Len(new) = total + pad
  <2>1. new \in Seq({0, 1}) /\ Len(new) = base + Len(v) /\ Len(v) = pos + n + pad
    BY <1>2, <1>3 DEF Merged, Reshaped, base, pad
  <2>. QED
    BY <1>1, <1>6, <1>7, <2>1
<1>10. /\ \A i \in 1..u : new[i] = buf[i]
       /\ \A i \in (u + 1)..Len(new) : new[i] = v[i - base]
  BY <1>2 DEF Merged, base
<1>11. ASSUME NEW k \in 1..(pos + n + pad)
       PROVE  v[k] = IF k \in (pos + 1)..(pos + n) THEN bits[k - pos] ELSE 0
  BY <1>3 DEF Reshaped, pad
<1>12. ASSUME NEW i \in 1..n PROVE new[u + i] = bits[i]
  <2>1. /\ u + i \in (u + 1)..Len(new) /\ (u + i) - base = pos + i
        /\ pos + i \in 1..(pos + n + pad) /\ pos + i \in (pos + 1)..(pos + n)
        /\ (pos + i) - pos = i
    BY <1>1, <1>6, <1>7, <1>9
  <2>2. new[u + i] = v[pos + i]
    BY <1>10, <2>1
  <2>. QED
    BY <1>11, <2>1, <2>2
<1>13. ASSUME NEW i \in (total + 1)..Len(new) PROVE new[i] = 0
  <2>1. /\ i \in (u + 1)..Len(new)
        /\ i - base \in 1..(pos + n + pad) /\ i - base \notin (pos + 1)..(pos + n)
    BY <1>1, <1>6, <1>7, <1>9
  <2>2. new[i] = v[i - base]
    BY <1>10, <2>1
  <2>. QED
    BY <1>11, <2>1, <2>2
<1>14. Len(new) >= 8 /\ Len(new) % 8 = 0
  <2>. DEFINE w == pos + n + pad
  <2>1. w \in Nat /\ w % 8 = 0 /\ Len(new) = base + w
    <3>1. w % 8 = 0
      BY <1>8
    <3>2. w \in Nat /\ total + pad = base + w
      BY <1>1, <1>6, <1>7
    <3>. QED
      BY <1>9, <3>1, <3>2
  <2>2. w > 0 \/ base >= 8
    <3>1. CASE pos = 0
      BY <1>1, <1>7, <3>1
    <3>2. CASE pos # 0
      BY <1>1, <1>6, <3>2
    <3>. QED
      BY <3>1, <3>2
  <2>. HIDE DEF w
  <2>3. w >= 8 \/ base >= 8
    BY <2>1, <2>2
  <2>. QED
    BY <1>7, <2>1, <2>3
<1>15. /\ total \in Nat
       /\ \/ next = 0 /\ total = Len(new)
          \/ next \in 1..8 /\ total = Len(new) - 8 + next
  BY <1>5, <1>6, <1>9
<1>. HIDE DEF total
<1>16. Packed(r, total)
  BY <1>9, <1>13, <1>14, <1>15 DEF Packed, new, next
<1>. QED
  BY <1>10, <1>12, <1>16 DEF Extends, new, buf, total

-----------------------------------------------------------------------------
(* Points in a message.                                                    *)

\* The position of a point, if there is one, and its key.
HeaderOf(h, pt) ==
    /\ Len(h) = IF positional THEN 14 ELSE 6
    /\ h \in [1..Len(h) -> {0, 1}]
    /\ positional => \A i \in 1..8 : h[i] = Bits(GetPosition(pt.name), 8)[i]
    /\ \A i \in 1..6 : h[(IF positional THEN 8 ELSE 0) + i] = Bits(KeyCode[pt.key], 6)[i]

LEMMA HeaderFacts ==
    ASSUME NEW pt, pt.name \in Names, pt.key \in Keys
    PROVE  HeaderOf(Header(pt), pt)
<1>. DEFINE position == Bits(GetPosition(pt.name), 8)
            code == Bits(KeyCode[pt.key], 6)
            h == Header(pt)
<1>1. code \in [1..6 -> {0, 1}]
  <2>1. KeyCode[pt.key] \in Nat /\ 6 \in 0..20
    BY KeyFacts
  <2>. QED
    BY <2>1, NumberOfBits
<1>2. position \in [1..8 -> {0, 1}]
  <2>1. GetPosition(pt.name) \in Nat /\ 8 \in 0..20
    BY NameFacts
  <2>. QED
    BY <2>1, NumberOfBits
<1>3. h = (IF positional THEN position ELSE <<>>) \o code
  BY DEF Header
<1>. HIDE DEF h, code, position
<1>4. code \in Seq({0, 1}) /\ Len(code) = 6
  <2>. DEFINE n == 6
  <2>1. n \in Nat /\ code \in [1..n -> {0, 1}]
    BY <1>1
  <2>. HIDE DEF n
  <2>2. code \in Seq({0, 1}) /\ Len(code) = n
    BY <2>1, FunctionIsSeq
  <2>. QED
    BY <2>2 DEF n
<1>5. position \in Seq({0, 1}) /\ Len(position) = 8
  <2>. DEFINE n == 8
  <2>1. n \in Nat /\ position \in [1..n -> {0, 1}]
    BY <1>2
  <2>. HIDE DEF n
  <2>2. position \in Seq({0, 1}) /\ Len(position) = n
    BY <2>1, FunctionIsSeq
  <2>. QED
    BY <2>2 DEF n
<1>6. CASE positional
  <2>1. Joins(h, position, code)
    BY <1>3, <1>4, <1>5, <1>6, ConcatJoins
  <2>2. h \in Seq({0, 1}) /\ Len(h) = 14
    BY <1>4, <1>5, <2>1 DEF Joins
  <2>3. \A i \in 1..14 : h[i] = IF i <= 8 THEN position[i] ELSE code[i - 8]
    BY <1>5, <2>1, <2>2 DEF Joins
  <2>4. \A i \in 1..8 : h[i] = position[i]
    BY <2>3
  <2>5. \A i \in 1..6 : h[8 + i] = code[i]
    BY <2>3
  <2>6. h \in [1..Len(h) -> {0, 1}]
    BY <2>2, LenProperties
  <2>. QED
    BY <1>6, <2>2, <2>4, <2>5, <2>6 DEF HeaderOf, h, position, code
<1>7. CASE ~positional
  <2>1. h = code
    BY <1>3, <1>4, <1>7, ConcatEmptySeq
  <2>2. \A i \in 1..6 : h[0 + i] = code[i]
    BY <2>1
  <2>3. Len(h) = 6 /\ h \in [1..Len(h) -> {0, 1}]
    BY <1>4, <2>1, LenProperties
  <2>. QED
    BY <1>7, <2>2, <2>3 DEF HeaderOf, h, code
<1>. QED
  BY <1>6, <1>7

\* What the decoder makes of the k-th point: it is Expected, except that a value
\* that does not fit its bits has lost them all.
Decoded(pt, k) ==
    [name  |-> IF positional THEN pt.name ELSE <<pt.key, k>>,
     value |-> IF pt.key \in DataKeys THEN pt.data
               ELSE LET m == FixedPoint[pt.key]
                        v == Clamp(pt.data, m.low, m.high)
                    IN  IF v - m.low = 2 ^ BitCount(pt.key) THEN m.low ELSE v]

\* Only the highest value of a range that is a power of two does not fit.
LEMMA DecodedFacts ==
    ASSUME NEW pt \in Samples, pt.key \in Keys, NEW k
    PROVE  /\ Decoded(pt, k).name = Expected(pt, k).name
           /\ Overflows(pt) \/ Decoded(pt, k).value = Expected(pt, k).value
<1>1. CASE pt.key \in DataKeys
  BY <1>1 DEF Decoded, Expected
<1>2. CASE pt.key \notin DataKeys
  <2>. DEFINE low  == FixedPoint[pt.key].low
              high == FixedPoint[pt.key].high
              v == Clamp(pt.data, low, high)
              b == BitCount(pt.key)
  <2>1. pt.key \in FixedKeys /\ pt.data \in Int
    BY <1>2, SamplesAssumption DEF Keys
  <2>2. low \in Int /\ high \in Int /\ high - low > 0
    BY <2>1, RangeFacts, Powers
  <2>3. b \in 1..20 /\ 2 ^ b >= high - low
    BY <2>1, BitCountFacts DEF Keys
  <2>4. v \in Int /\ v <= high /\ (v = high => pt.data >= high)
    <3>. HIDE DEF low, high
    <3>. QED
      BY <2>1, <2>2 DEF Clamp
  <2>5. CASE v - low = 2 ^ b
    <3>1. v = high /\ high - low = 2 ^ b
      <4>. HIDE DEF low, high, v, b
      <4>. QED
        BY <2>2, <2>3, <2>4, <2>5
    <3>2. pt.data >= high /\ b \in 1..30
      BY <2>3, <2>4, <3>1
    <3>3. Overflows(pt)
      <4>. HIDE DEF b
      <4>. QED
        BY <2>1, <3>1, <3>2 DEF Overflows
    <3>. QED
      BY <1>2, <3>3 DEF Decoded, Expected
  <2>6. CASE v - low # 2 ^ b
    BY <1>2, <2>6 DEF Decoded, Expected
  <2>. QED
    BY <2>5, <2>6
<1>. QED
  BY <1>1, <1>2

\* What is read in the bits of a value is what the decoder makes of it.
LEMMA DataFacts ==
    ASSUME NEW pt \in Samples, pt.key \in Keys, NEW k
    PROVE  /\ DataBits(pt.key, pt.data) \in [1..BitCount(pt.key) -> {0, 1}]
           /\ Decoded(pt, k).value
                = IF pt.key \in FixedKeys
                  THEN Number(DataBits(pt.key, pt.data)) + FixedPoint[pt.key].low
                  ELSE DataBits(pt.key, pt.data)
<1>1. CASE pt.key \in FixedKeys
  <2>1. pt.key \notin DataKeys /\ pt.data \in Int
    BY <1>1, BitCountFacts, SamplesAssumption
  <2>. QED
    BY <1>1, <2>1, FixedFacts DEF Decoded
<1>2. CASE pt.key \notin FixedKeys
  <2>1. pt.key \in DataKeys /\ DataBits(pt.key, pt.data) = pt.data
    BY <1>2 DEF Keys, DataBits
  <2>2. pt.data \in [1..BitCount(pt.key) -> {0, 1}]
    BY <2>1, SamplesAssumption
  <2>. QED
    BY <1>2, <2>1, <2>2 DEF Decoded
<1>. QED
  BY <1>1, <1>2

Width(pt) == Len(Header(pt)) + BitCount(pt.key)

\* Where the points of a message end; the first starts at bit 8.
Offsets(off) ==
    /\ off \in [0..Len(sent) -> Nat]
    /\ off[0] = 8
    /\ \A k \in 1..Len(sent) : off[k] = off[k - 1] + Width(sent[k])

LEMMA UsedFacts ==
    ASSUME NEW S, sent \in Seq(S),
           \A pt \in S : Len(Header(pt)) \in Nat /\ BitCount(pt.key) \in Nat,
           NEW off, Offsets(off)
    PROVE  Used = off[Len(sent)]
<1>. DEFINE n == Len(sent)
            header == [k \in 1..n |-> Len(Header(sent[k]))]
            data   == [k \in 1..n |-> BitCount(sent[k].key)]
            Step(g) == [s \in SUBSET (DOMAIN sent) |->
                           IF s = {} THEN 8
                           ELSE g[s \ {Max(s)}] + Len(Header(sent[Max(s)]))
                                + BitCount(sent[Max(s)].key)]
            iter == CHOOSE g : g = Step(g)
            F == [p \in Nat \X (1..n) |-> p[1] + header[p[2]] + data[p[2]]]
<1>1. /\ n \in Nat /\ DOMAIN sent = 1..n
      /\ header \in [1..n -> Nat] /\ data \in [1..n -> Nat]
  <2>1. n \in Nat /\ DOMAIN sent = 1..n /\ sent \in [1..n -> S]
    BY LenProperties
  <2>. QED
    BY <2>1
<1>2. \A k \in 1..n : /\ header[k] = Len(Header(sent[k]))
                      /\ data[k] = BitCount(sent[k].key)
  OBVIOUS
<1>. HIDE DEF header, data, n
<1>3. \E g : g = Step(g)
  <2>1. F \in [Nat \X (1..n) -> Nat]
    <3>1. ASSUME NEW p \in Nat \X (1..n)
          PROVE  p[1] + header[p[2]] + data[p[2]] \in Nat
      <4>1. p[1] \in Nat /\ header[p[2]] \in Nat /\ data[p[2]] \in Nat
        BY <1>1
      <4>. QED
        BY <4>1
    <3>. QED
      BY <3>1
  <2>2. 8 \in Nat
    OBVIOUS
  <2>. HIDE DEF F
  <2>3. PICK g : Folds(g, n, Nat, 8, F)
    BY <1>1, <2>1, <2>2, FoldExists, Zenon
  <2>4. ASSUME NEW s \in SUBSET (1..n)
        PROVE  g[s] = IF s = {} THEN 8
                      ELSE g[s \ {Max(s)}] + Len(Header(sent[Max(s)]))
                           + BitCount(sent[Max(s)].key)
    <3>. SUFFICES ASSUME s # {}
                  PROVE  g[s] = g[s \ {Max(s)}] + Len(Header(sent[Max(s)]))
                                + BitCount(sent[Max(s)].key)
      BY <2>3 DEF Folds
    <3>. DEFINE m == Max(s)
    <3>1. m \in 1..n
      BY <1>1, MaxOfSet
    <3>2. g[s \ {m}] \in Nat /\ g[s] = F[<<g[s \ {m}], m>>]
      BY <2>3, <3>1 DEF Folds
    <3>. HIDE DEF m
    <3>3. F[<<g[s \ {m}], m>>] = g[s \ {m}] + header[m] + data[m]
      BY <3>1, <3>2 DEF F
    <3>4. g[s] = g[s \ {m}] + Len(Header(sent[m])) + BitCount(sent[m].key)
      BY <1>2, <3>1, <3>2, <3>3
    <3>. QED
      BY <3>4 DEF m
  <2>5. g = Step(g)
    BY <1>1, <2>3, <2>4 DEF Folds
  <2>. QED
    BY <2>5
<1>4. iter = Step(iter)
  <2>. HIDE DEF Step
  <2>. QED
    BY <1>3
<1>5. Used = iter[1..n]
  BY DEF Used, FoldLeft, MapThenFoldSet, n
<1>. HIDE DEF iter
<1>. DEFINE T == {k \in 0..n : iter[1..k] = off[k]}
<1>6. 0 \in T
  <2>1. 1..0 = {} /\ {} \in SUBSET (DOMAIN sent)
    OBVIOUS
  <2>2. iter[{}] = 8
    BY <1>4, <2>1
  <2>. QED
    BY <1>1, <2>1, <2>2 DEF Offsets
<1>7. ASSUME NEW k \in 0..n, k # n, k \in T
      PROVE  k + 1 \in T
  <2>. DEFINE j == k + 1
  <2>1. j \in 1..n /\ j - 1 = k /\ k \in Nat
    BY <1>1, <1>7
  <2>. HIDE DEF j
  <2>2. 1..j \in SUBSET (DOMAIN sent) /\ 1..j # {} /\ Max(1..j) = j
    BY <1>1, <2>1, IntervalFacts
  <2>3. (1..j) \ {Max(1..j)} = 1..k
    BY <1>1, <2>1, <2>2, IntervalFacts
  <2>4. iter[1..j] = iter[(1..j) \ {Max(1..j)}] + Len(Header(sent[Max(1..j)]))
                     + BitCount(sent[Max(1..j)].key)
    BY <1>4, <2>2
  <2>5. iter[1..j] = iter[1..k] + Len(Header(sent[j])) + BitCount(sent[j].key)
    BY <2>2, <2>3, <2>4
  <2>6. iter[1..j] = off[k] + header[j] + data[j]
    BY <1>2, <1>7, <2>1, <2>5
  <2>7. off[j] = off[k] + (header[j] + data[j]) /\ off[k] \in Nat
    <3>1. off[j] = off[k] + Width(sent[j]) /\ off[k] \in Nat
      BY <1>7, <2>1 DEF Offsets, n
    <3>2. Width(sent[j]) = header[j] + data[j]
      BY <1>2, <2>1 DEF Width
    <3>. QED
      BY <3>1, <3>2
  <2>8. iter[1..j] = off[j]
    BY <1>1, <2>1, <2>6, <2>7
  <2>. QED
    BY <1>1, <1>7, <2>1, <2>8 DEF j
<1>. HIDE DEF T
<1>8. n \in T
  <2>1. 0..n \subseteq T
    BY <1>1, <1>6, <1>7, Induction, Zenon
  <2>. QED
    BY <1>1, <2>1
<1>. QED
  BY <1>5, <1>8 DEF T, n

\* Bits that were written are read back.
LEMMA ReadBack ==
    ASSUME buffer \in Seq({0, 1}), NEW pos \in Nat, NEW n \in Nat, pos + n <= Len(buffer),
           NEW w \in [1..n -> {0, 1}], \A i \in 1..n : buffer[pos + i] = w[i]
    PROVE  BitsAt(pos, n) = w
<1>1. Len(buffer) \in Nat
  BY LenProperties
<1>2. BitsAt(pos, n) = SubSeq(buffer, pos + 1, pos + n)
  BY <1>1 DEF BitsAt
<1>3. Slice(SubSeq(buffer, pos + 1, pos + n), buffer, pos, n)
  BY SubSeqSlice
<1>. QED
  BY <1>2, <1>3 DEF Slice

-----------------------------------------------------------------------------
(* The inductive invariant.                                                *)

Accepted == {pt \in Samples : pt.key \in Keys}

TypeInv ==
    /\ positional \in BOOLEAN
    /\ phase \in {"encode", "decode", "done"}
    /\ sent \in Seq(Accepted)
    /\ \E S : received \in Seq(S)

\* The header and the value of the k-th point follow those of the point before it.
Laid(off, k) ==
    LET pt == sent[k]
        h  == Len(Header(pt))
    IN  /\ \A i \in 1..h : buffer[off[k - 1] + i] = Header(pt)[i]
        /\ \A i \in 1..BitCount(pt.key) :
              buffer[off[k - 1] + h + i] = DataBits(pt.key, pt.data)[i]

\* The message holds the points that were sent, and zeros after them.
Written(off) ==
    /\ Offsets(off)
    /\ \A k \in 0..Len(sent) : off[k] <= off[Len(sent)]
    /\ Packed([bits |-> buffer, pos |-> writeBitPos], off[Len(sent)])
    /\ \A k \in 1..Len(sent) : Laid(off, k)

\* The point that seven bits of padding are taken for.
Extra == [name |-> <<"unknown", IF positional THEN 1 ELSE Len(sent) + 1>>, value |-> 0]

\* The decoder has read the first points, and stands where the next one starts; or
\* it has read all of them and what is left over.
Reading(off) ==
    LET m == Len(received)
        n == Len(sent)
    IN  /\ phase = "encode" => readBitPos = 8 /\ received = <<>>
        /\ Readable =>
              /\ m <= n + 1
              /\ \A k \in 1..m : k <= n => received[k] = Decoded(sent[k], k)
              /\ m <= n => readBitPos = off[m]
              /\ m = n + 1 => off[n] % 8 = 1 /\ received[m] = Extra /\ ~CanDecode
              /\ phase = "done" => ~CanDecode

IInv == TypeInv /\ \E off : Written(off) /\ Reading(off)

LEMMA WidthFacts ==
    ASSUME TypeInv, NEW pt \in Accepted
    PROVE  /\ Header(pt) \in [1..Len(Header(pt)) -> {0, 1}]
           /\ Len(Header(pt)) = IF positional THEN 14 ELSE 6
           /\ BitCount(pt.key) \in Nat \ {0}
           /\ Width(pt) \in Nat /\ Width(pt) >= 7
<1>1. pt \in Samples /\ pt.key \in Keys /\ pt.name \in Names
  BY SamplesAssumption DEF Accepted
<1>2. HeaderOf(Header(pt), pt)
  BY <1>1, HeaderFacts
<1>3. BitCount(pt.key) \in Nat \ {0}
  BY <1>1, BitCountFacts
<1>4. /\ Header(pt) \in [1..Len(Header(pt)) -> {0, 1}]
      /\ Len(Header(pt)) = IF positional THEN 14 ELSE 6
  BY <1>2 DEF HeaderOf
<1>5. Width(pt) \in Nat /\ Width(pt) >= 7
  BY <1>3, <1>4 DEF Width
<1>. QED
  BY <1>3, <1>4, <1>5

\* A message ends less than a byte after its last point.
LEMMA PaddingFacts ==
    ASSUME NEW b, NEW u, Packed(b, u)
    PROVE  /\ Len(b.bits) \in Nat /\ u \in Nat /\ u <= Len(b.bits) /\ Len(b.bits) <= u + 7
           /\ u % 8 = 1 <=> Len(b.bits) = u + 7
<1>. DEFINE n == Len(b.bits)
            pos == b.pos
<1>1. b.bits \in Seq({0, 1})
  BY DEF Packed
<1>2. n \in Nat
  BY <1>1, LenProperties
<1>3. /\ n >= 8 /\ n % 8 = 0 /\ u \in Nat
      /\ (pos = 0 /\ u = n) \/ (pos \in 1..8 /\ u = n - 8 + pos)
  BY DEF Packed
<1>. HIDE DEF n, pos
<1>4. u <= n /\ n <= u + 7
  BY <1>2, <1>3
<1>5. u % 8 = 1 <=> n = u + 7
  BY <1>2, <1>3
<1>. QED
  BY <1>2, <1>3, <1>4, <1>5 DEF n

LEMMA InitIInv == Init => IInv
<1>. SUFFICES ASSUME Init PROVE IInv
  OBVIOUS
<1>1. Len(sent) = 0 /\ sent \in Seq(Accepted) /\ sent = <<>>
  BY DEF Init
<1>2. TypeInv
  <2>1. received \in Seq({})
    BY DEF Init
  <2>. QED
    BY <1>1, <2>1 DEF Init, TypeInv
<1>. DEFINE off == [k \in 0..0 |-> 8]
            n == 8
            first == Bits(IF positional THEN 1 ELSE 0, n)
            b == [bits |-> buffer, pos |-> writeBitPos]
<1>3. Packed(b, 8)
  <2>1. n \in Nat /\ n \in 0..20 /\ (IF positional THEN 1 ELSE 0) \in Nat
    OBVIOUS
  <2>. HIDE DEF n
  <2>2. first \in [1..n -> {0, 1}]
    BY <2>1, NumberOfBits
  <2>. HIDE DEF first
  <2>3. first \in Seq({0, 1}) /\ Len(first) = n
    BY <2>1, <2>2, FunctionIsSeq
  <2>4. b.bits \in Seq({0, 1}) /\ Len(b.bits) = 8 /\ b.pos = 8
    BY <2>3 DEF Init, first, n
  <2>. HIDE DEF b
  <2>. QED
    BY <2>4 DEF Packed
<1>4. Written(off)
  <2>1. off \in [0..0 -> Nat] /\ off[0] = 8 /\ 1..0 = {}
    OBVIOUS
  <2>2. \A k \in 0..0 : off[k] <= off[0]
    OBVIOUS
  <2>. HIDE DEF off
  <2>. QED
    BY <1>1, <1>3, <2>1, <2>2 DEF Written, Offsets
<1>5. Reading(off)
  <2>1. Len(received) = 0 /\ received = <<>> /\ readBitPos = 8 /\ phase = "encode"
    BY DEF Init
  <2>2. off[0] = 8 /\ 1..0 = {}
    OBVIOUS
  <2>. HIDE DEF off
  <2>. QED
    BY <1>1, <2>1, <2>2 DEF Reading
<1>. HIDE DEF off
<1>. QED
  BY <1>2, <1>4, <1>5 DEF IInv

\* EncodeData lays one more point after those that were sent.
LEMMA EncodeStep ==
    ASSUME TypeInv, NEW off, Written(off), Reading(off),
           NEW pt \in Accepted, EncodeData(pt)
    PROVE  TypeInv' /\ \E next : Written(next)' /\ Reading(next)'
<1>. DEFINE n == Len(sent)
            u == off[n]
            head == Header(pt)
            h == Len(head)
            data == DataBits(pt.key, pt.data)
            c == BitCount(pt.key)
            b == [bits |-> buffer, pos |-> writeBitPos]
            header == AddVectorToBuffer(b, head)
            whole == AddVectorToBuffer(header, data)
<1>1. /\ n \in Nat /\ sent \in Seq(Accepted) /\ \A k \in 1..n : sent[k] \in Accepted
      /\ off \in [0..n -> Nat] /\ u \in Nat
  <2>1. n \in Nat /\ sent \in Seq(Accepted)
    BY LenProperties DEF TypeInv
  <2>2. off \in [0..n -> Nat]
    BY DEF Written, Offsets
  <2>. QED
    BY <2>1, <2>2, ElementOfSeq
<1>2. /\ buffer' = whole.bits /\ writeBitPos' = whole.pos /\ sent' = Append(sent, pt)
      /\ phase = "encode"
      /\ UNCHANGED <<positional, readBitPos, phase, received>>
  BY DEF EncodeData, Accepted
<1>3. /\ head \in [1..h -> {0, 1}] /\ h \in Nat /\ c \in Nat
      /\ data \in [1..c -> {0, 1}]
  BY WidthFacts, DataFacts DEF Accepted
<1>4. /\ Extends(header, b, u, h, head) /\ Extends(whole, header, u + h, c, data)
      /\ u + h \in Nat
  <2>1. Packed(b, u)
    BY DEF Written
  <2>. HIDE DEF b, u, h, c, head, data
  <2>2. Extends(header, b, u, h, head)
    BY <1>1, <1>3, <2>1, AddVectorAppends
  <2>3. Packed(header, u + h) /\ u + h \in Nat
    BY <1>1, <1>3, <2>2 DEF Extends
  <2>. HIDE DEF header
  <2>4. Extends(whole, header, u + h, c, data)
    BY <1>3, <2>3, AddVectorAppends
  <2>. QED
    BY <2>2, <2>3, <2>4
<1>5. /\ Len(sent') = n + 1 /\ sent' \in Seq(Accepted)
      /\ \A k \in 1..n : sent'[k] = sent[k]
      /\ sent'[n + 1] = pt
  BY <1>1, <1>2, AppendProperties
<1>6. \A p : Header(p)' = Header(p)
  BY <1>2 DEF Header
<1>. HIDE DEF n, u, b, header, whole, head, data, h, c
<1>7. /\ Packed([bits |-> buffer', pos |-> writeBitPos'], u + h + c)
      /\ \A i \in 1..u : buffer'[i] = buffer[i]
      /\ \A i \in 1..h : buffer'[u + i] = head[i]
      /\ \A i \in 1..c : buffer'[u + h + i] = data[i]
  <2>1. Packed(whole, u + h + c)
    BY <1>4 DEF Extends
  <2>2. Packed([bits |-> buffer', pos |-> writeBitPos'], u + h + c)
    BY <1>2, <2>1 DEF Packed
  <2>3. /\ \A i \in 1..u : header.bits[i] = buffer[i]
        /\ \A i \in 1..h : header.bits[u + i] = head[i]
    BY <1>4 DEF Extends, b
  <2>4. /\ \A i \in 1..(u + h) : buffer'[i] = header.bits[i]
        /\ \A i \in 1..c : buffer'[u + h + i] = data[i]
    BY <1>2, <1>4 DEF Extends
  <2>5. /\ \A i \in 1..u : i \in 1..(u + h)
        /\ \A i \in 1..h : u + i \in 1..(u + h)
    BY <1>1, <1>3
  <2>. QED
    BY <2>2, <2>3, <2>4, <2>5
<1>8. PICK next : /\ next \in [0..(n + 1) -> Nat]
                  /\ \A k \in 0..n : next[k] = off[k]
                  /\ next[n + 1] = u + h + c
  <2>. DEFINE f == [k \in 0..(n + 1) |-> IF k <= n THEN off[k] ELSE u + h + c]
  <2>1. f \in [0..(n + 1) -> Nat] /\ (\A k \in 0..n : f[k] = off[k]) /\ f[n + 1] = u + h + c
    BY <1>1, <1>3
  <2>. HIDE DEF f
  <2>. QED
    BY <2>1
<1>9. TypeInv'
  BY <1>2, <1>5 DEF TypeInv
<1>10. Offsets(next)'
  <2>1. next[0] = 8
    BY <1>1, <1>8 DEF Written, Offsets
  <2>2. ASSUME NEW k \in 1..(n + 1)
        PROVE  next[k] = next[k - 1] + (Len(Header(sent'[k])) + BitCount(sent'[k].key))
    <3>1. CASE k \in 1..n
      <4>1. k \in 0..n /\ k - 1 \in 0..n
        BY <1>1, <3>1
      <4>2. off[k] = off[k - 1] + (Len(Header(sent[k])) + BitCount(sent[k].key))
        BY <3>1 DEF Written, Offsets, Width, n
      <4>. QED
        BY <1>5, <1>8, <3>1, <4>1, <4>2
    <3>2. CASE k = n + 1
      <4>1. k - 1 \in 0..n /\ k - 1 = n
        BY <1>1, <3>2
      <4>2. next[k] = u + h + c /\ next[k - 1] = u /\ sent'[k] = pt
        BY <1>5, <1>8, <3>2, <4>1 DEF u
      <4>3. u + h + c = u + (h + c)
        BY <1>1, <1>3
      <4>. QED
        BY <4>2, <4>3 DEF h, c, head
    <3>. QED
      BY <1>1, <3>1, <3>2
  <2>3. \A k \in 1..(n + 1) : Width(sent[k])' = Len(Header(sent'[k])) + BitCount(sent'[k].key)
    BY <1>6 DEF Width
  <2>. QED
    BY <1>5, <1>8, <2>1, <2>2, <2>3 DEF Offsets
<1>11. \A k \in 0..(n + 1) : next[k] <= next[n + 1]
  <2>1. ASSUME NEW k \in 0..n PROVE off[k] <= u + h + c
    <3>1. off[k] <= u /\ off[k] \in Nat
      BY <1>1 DEF Written, n, u
    <3>. QED
      BY <1>1, <1>3, <3>1
  <2>2. u + h + c <= u + h + c
    BY <1>1, <1>3
  <2>3. \A k \in 0..(n + 1) : k \in 0..n \/ k = n + 1
    BY <1>1
  <2>. QED
    BY <1>8, <2>1, <2>2, <2>3
<1>12. ASSUME NEW k \in 1..(n + 1) PROVE Laid(next, k)'
  <2>. DEFINE q == sent'[k]
              w == Len(Header(q))
  <2>1. /\ \A i \in 1..w : buffer'[next[k - 1] + i] = Header(q)[i]
        /\ \A i \in 1..BitCount(q.key) :
              buffer'[next[k - 1] + w + i] = DataBits(q.key, q.data)[i]
    <3>1. CASE k \in 1..n
      <4>1. /\ k - 1 \in 0..n /\ k \in 0..n
            /\ q = sent[k] /\ q \in Accepted
        BY <1>1, <1>5, <3>1
      <4>2. next[k - 1] = off[k - 1] /\ off[k - 1] \in Nat /\ off[k] \in Nat /\ off[k] <= u
        BY <1>1, <1>8, <4>1 DEF Written, n, u
      <4>3. off[k] = off[k - 1] + (w + BitCount(q.key))
        BY <3>1, <4>1 DEF Written, Offsets, Width, n
      <4>4. w \in Nat /\ BitCount(q.key) \in Nat
        BY <4>1, WidthFacts
      <4>5. /\ \A i \in 1..w : buffer[off[k - 1] + i] = Header(q)[i]
            /\ \A i \in 1..BitCount(q.key) :
                  buffer[off[k - 1] + w + i] = DataBits(q.key, q.data)[i]
        BY <3>1, <4>1 DEF Written, Laid, n
      <4>. DEFINE d == BitCount(q.key)
                  o == off[k - 1]
      <4>6. o \in Nat /\ w \in Nat /\ d \in Nat /\ u \in Nat /\ o + (w + d) <= u
        BY <1>1, <4>2, <4>3, <4>4
      <4>. HIDE DEF q, w, d, o
      <4>7. /\ \A i \in 1..w : o + i \in 1..u
            /\ \A i \in 1..d : o + w + i \in 1..u
        BY <4>6
      <4>. QED
        BY <1>7, <4>2, <4>5, <4>7 DEF o, d
    <3>2. CASE k = n + 1
      <4>1. k - 1 = n /\ k - 1 \in 0..n
        BY <1>1, <3>2
      <4>2. next[k - 1] = u /\ q = pt
        BY <1>5, <1>8, <3>2, <4>1 DEF u
      <4>. QED
        BY <1>7, <4>2 DEF h, head, data, c
    <3>. QED
      BY <1>1, <3>1, <3>2
  <2>. QED
    BY <1>6, <2>1 DEF Laid
<1>13. Written(next)'
  BY <1>5, <1>7, <1>8, <1>10, <1>11, <1>12 DEF Written
<1>14. Reading(next)'
  <2>1. readBitPos' = 8 /\ received' = <<>> /\ phase' = "encode"
    BY <1>2 DEF Reading
  <2>2. Len(received') = 0 /\ 1..0 = {}
    BY <2>1
  <2>3. next[0] = 8
    BY <1>10 DEF Offsets
  <2>4. 0 <= (n + 1) + 1 /\ 0 # (n + 1) + 1
    BY <1>1
  <2>. QED
    BY <1>5, <2>1, <2>2, <2>3, <2>4 DEF Reading
<1>. QED
  BY <1>9, <1>13, <1>14

\* The decoder reads a point where it was laid.
LEMMA ReadPoint ==
    ASSUME TypeInv, NEW off, Written(off), NEW k \in 1..Len(sent)
    PROVE  LET pt == sent[k]
               p  == off[k - 1]
               q  == p + (IF positional THEN 8 ELSE 0)
           IN  /\ pt \in Accepted /\ p \in Nat /\ p < Len(buffer) - 6
               /\ positional => Number(BitsAt(p, 8)) = GetPosition(pt.name)
               /\ Number(BitsAt(q, 6)) = KeyCode[pt.key]
               /\ BitsAt(q + 6, BitCount(pt.key)) = DataBits(pt.key, pt.data)
               /\ q + 6 + BitCount(pt.key) = off[k]
<1>. DEFINE n == Len(sent)
            u == off[n]
            len == Len(buffer)
            pt == sent[k]
            p == off[k - 1]
            skip == IF positional THEN 8 ELSE 0
            q == p + skip
            head == Header(pt)
            h == Len(head)
            c == BitCount(pt.key)
            data == DataBits(pt.key, pt.data)
            position == GetPosition(pt.name)
            code == KeyCode[pt.key]
<1>1. pt \in Accepted
  BY ElementOfSeq DEF TypeInv
<1>2. n \in Nat /\ k \in 0..n /\ k - 1 \in 0..n
  <2>1. n \in Nat
    BY LenProperties DEF TypeInv
  <2>. QED
    BY <2>1
<1>3. p \in Nat /\ off[k] \in Nat /\ off[k] <= u /\ off[k] = p + (h + c)
  BY <1>2 DEF Written, Offsets, Width
<1>4. /\ buffer \in Seq({0, 1}) /\ len \in Nat /\ u \in Nat /\ u <= len
  <2>. DEFINE b == [bits |-> buffer, pos |-> writeBitPos]
  <2>1. Packed(b, u) /\ b.bits = buffer
    BY DEF Written
  <2>2. b.bits \in Seq({0, 1})
    BY <2>1 DEF Packed
  <2>. HIDE DEF b, u
  <2>. QED
    BY <2>1, <2>2, PaddingFacts
<1>5. /\ pt \in Samples /\ pt.key \in Keys /\ pt.name \in Names
      /\ HeaderOf(head, pt) /\ c \in Nat \ {0} /\ data \in [1..c -> {0, 1}]
  <2>1. pt \in Samples /\ pt.key \in Keys /\ pt.name \in Names
    BY <1>1, SamplesAssumption DEF Accepted
  <2>. HIDE DEF pt
  <2>. QED
    BY <2>1, HeaderFacts, BitCountFacts, DataFacts
<1>6. /\ \A i \in 1..h : buffer[p + i] = head[i]
      /\ \A i \in 1..c : buffer[p + h + i] = data[i]
  BY DEF Written, Laid
<1>7. /\ h = skip + 6 /\ skip \in Nat
      /\ positional => \A i \in 1..8 : head[i] = Bits(position, 8)[i]
      /\ \A i \in 1..6 : head[skip + i] = Bits(code, 6)[i]
  BY <1>5 DEF HeaderOf
<1>8. positional => skip = 8
  OBVIOUS
<1>9. /\ code \in 0..63 /\ position \in 0..255
      /\ 8 \in 0..20 /\ 6 \in 0..20 /\ 8 \in Nat /\ 6 \in Nat
  <2>1. code \in 1..63 /\ position \in 32..255
    BY <1>5, KeyFacts, NameFacts
  <2>. HIDE DEF code, position
  <2>. QED
    BY <2>1
<1>. HIDE DEF pt, p, skip, head, h, c, data, position, code, len, u, n
<1>10. positional => p + 8 <= len
  BY <1>3, <1>4, <1>5, <1>7, <1>8
<1>11. p < len - 6 /\ q \in Nat /\ q + 6 + c = off[k] /\ q + 6 = p + h
  BY <1>3, <1>4, <1>5, <1>7
<1>12. (q + 6) + c <= len /\ q + 6 <= len
  BY <1>3, <1>4, <1>5, <1>7
<1>13. ASSUME positional PROVE Number(BitsAt(p, 8)) = position
  <2>1. Bits(position, 8) \in [1..8 -> {0, 1}] /\ Number(Bits(position, 8)) = position % 2 ^ 8
    <3>1. position \in Nat
      BY <1>9
    <3>. QED
      BY <1>9, <3>1, NumberOfBits, Zenon
  <2>2. position % 2 ^ 8 = position
    BY <1>9, Powers
  <2>3. \A i \in 1..8 : buffer[p + i] = Bits(position, 8)[i]
    <3>1. \A i \in 1..8 : i \in 1..h
      BY <1>7, <1>8, <1>13
    <3>. QED
      BY <1>6, <1>7, <1>13, <3>1
  <2>4. BitsAt(p, 8) = Bits(position, 8)
    <3>1. p + 8 <= Len(buffer)
      BY <1>10, <1>13 DEF len
    <3>. QED
      BY <1>3, <1>4, <1>9, <2>1, <2>3, <3>1, ReadBack, Zenon
  <2>. QED
    BY <2>1, <2>2, <2>4
<1>14. Number(BitsAt(q, 6)) = code
  <2>1. Bits(code, 6) \in [1..6 -> {0, 1}] /\ Number(Bits(code, 6)) = code % 2 ^ 6
    <3>1. code \in Nat
      BY <1>9
    <3>. QED
      BY <1>9, <3>1, NumberOfBits, Zenon
  <2>2. code % 2 ^ 6 = code
    BY <1>9, Powers
  <2>3. \A i \in 1..6 : buffer[q + i] = Bits(code, 6)[i]
    <3>1. \A i \in 1..6 : skip + i \in 1..h /\ p + (skip + i) = q + i
      BY <1>3, <1>7
    <3>. QED
      BY <1>6, <1>7, <3>1
  <2>. HIDE DEF q
  <2>4. BitsAt(q, 6) = Bits(code, 6)
    BY <1>4, <1>9, <1>11, <1>12, <2>1, <2>3, ReadBack, Zenon DEF len
  <2>. QED
    BY <2>1, <2>2, <2>4
<1>15. BitsAt(q + 6, c) = data
  <2>. DEFINE z == q + 6
  <2>1. z \in Nat /\ z + c <= len /\ z = p + h
    BY <1>11, <1>12
  <2>. HIDE DEF z, q
  <2>2. \A i \in 1..c : buffer[z + i] = data[i]
    BY <1>6, <2>1
  <2>3. c \in Nat
    BY <1>5
  <2>4. BitsAt(z, c) = data
    BY <1>4, <1>5, <2>1, <2>2, <2>3, ReadBack, Zenon DEF len
  <2>. QED
    BY <2>4 DEF z
<1>. QED
  BY <1>1, <1>3, <1>11, <1>13, <1>14, <1>15 DEF q, pt, p, skip, c, data, position, code, len

LEMMA NumberOfZeros ==
    ASSUME NEW n \in 0..20
    PROVE  Number(Zeros(n)) = 0
<1>1. Bits(0, n) = Zeros(n)
  <2>1. ASSUME NEW k \in 1..n PROVE (0 \div 2 ^ (n - k)) % 2 = 0
    <3>1. n - k \in 0..20
      OBVIOUS
    <3>2. 2 ^ (n - k) \in Nat \ {0}
      BY <3>1, PowerPositive
    <3>. QED
      BY <3>2
  <2>. QED
    BY <2>1 DEF Bits, Zeros
<1>2. Number(Bits(0, n)) = 0 % 2 ^ n
  BY NumberOfBits
<1>3. 0 % 2 ^ n = 0
  <2>. DEFINE p == 2 ^ n
  <2>1. p \in Nat \ {0}
    BY PowerPositive
  <2>. HIDE DEF p
  <2>2. 0 % p = 0
    BY <2>1
  <2>. QED
    BY <2>2 DEF p
<1>. QED
  BY <1>1, <1>2, <1>3

\* Seven bits of padding are read as a header without a key.
LEMMA ReadPadding ==
    ASSUME TypeInv, NEW off, Written(off), NEW u, u = off[Len(sent)], Len(buffer) = u + 7
    PROVE  /\ u \in Nat
           /\ positional => Number(BitsAt(u, 8)) = 0 /\ Number(BitsAt(u + 8, 6)) = 0
           /\ ~positional => Number(BitsAt(u, 6)) = 0
<1>1. u \in Nat /\ 6 \in 0..20 /\ 8 \in 0..20 /\ 6 \in Nat
  <2>1. u \in Nat
    BY PaddingFacts DEF Written
  <2>. QED
    BY <2>1
<1>2. BitsAt(u, 8) = Zeros(8) /\ BitsAt(u + 8, 6) = Zeros(6)
  BY <1>1 DEF BitsAt
<1>3. BitsAt(u, 6) = Zeros(6)
  <2>1. /\ buffer \in Seq({0, 1})
        /\ \A i \in (u + 1)..Len(buffer) : buffer[i] = 0
    BY DEF Written, Packed
  <2>2. \A i \in 1..6 : u + i \in (u + 1)..Len(buffer)
    BY <1>1
  <2>3. Zeros(6) \in [1..6 -> {0, 1}] /\ \A i \in 1..6 : Zeros(6)[i] = 0
    BY DEF Zeros
  <2>4. u + 6 <= Len(buffer)
    BY <1>1
  <2>. QED
    <3>1. \A i \in 1..6 : buffer[u + i] = Zeros(6)[i]
      BY <2>1, <2>2, <2>3
    <3>. QED
      BY <1>1, <2>1, <2>3, <2>4, <3>1, ReadBack, Zenon
<1>. QED
  BY <1>1, <1>2, <1>3, NumberOfZeros

LEMMA MessageKept ==
    ASSUME UNCHANGED <<positional, buffer, writeBitPos, sent>>, NEW off
    PROVE  /\ Written(off) => Written(off)'
           /\ Readable' = Readable /\ Extra' = Extra
           /\ \A pt, k : Decoded(pt, k)' = Decoded(pt, k)
<1>1. \A pt : Header(pt)' = Header(pt)
  BY DEF Header
<1>2. Extra' = Extra
  BY DEF Extra
<1>3. Readable' = Readable
  BY DEF Readable
<1>4. \A pt, k : Decoded(pt, k)' = Decoded(pt, k)
  BY DEF Decoded
<1>5. Offsets(off) => Offsets(off)'
  BY <1>1 DEF Offsets, Width
<1>6. \A k : Laid(off, k) => Laid(off, k)'
  BY <1>1 DEF Laid
<1>7. Packed([bits |-> buffer, pos |-> writeBitPos], off[Len(sent)])
        => Packed([bits |-> buffer, pos |-> writeBitPos], off[Len(sent)])'
  BY DEF Packed
<1>8. Written(off) => Written(off)'
  BY <1>5, <1>6, <1>7 DEF Written
<1>. QED
  BY <1>2, <1>3, <1>4, <1>8

\* The bits of the message are known to the length of its padding.
LEMMA UsedLength ==
    ASSUME TypeInv, NEW off, Written(off)
    PROVE  LET u == off[Len(sent)]
           IN  /\ Used = u /\ u \in Nat /\ Len(buffer) \in Nat
               /\ u <= Len(buffer) /\ Len(buffer) <= u + 7
               /\ Used % 8 = 1 <=> Len(buffer) = u + 7
<1>1. sent \in Seq(Accepted) /\ Offsets(off)
  BY DEF TypeInv, Written
<1>2. \A pt \in Accepted : Len(Header(pt)) \in Nat /\ BitCount(pt.key) \in Nat
  BY WidthFacts
<1>3. Used = off[Len(sent)]
  BY <1>1, <1>2, UsedFacts
<1>. DEFINE b == [bits |-> buffer, pos |-> writeBitPos]
            u == off[Len(sent)]
<1>4. Packed(b, u) /\ b.bits = buffer
  BY DEF Written
<1>. HIDE DEF b, u
<1>5. /\ Len(buffer) \in Nat /\ u \in Nat /\ u <= Len(buffer) /\ Len(buffer) <= u + 7
      /\ u % 8 = 1 <=> Len(buffer) = u + 7
  BY <1>4, PaddingFacts
<1>. QED
  BY <1>3, <1>5 DEF u

\* One more point arrives, or what is left over.
LEMMA DecodeStep ==
    ASSUME TypeInv, NEW off, Written(off), Reading(off), DecodePoint
    PROVE  TypeInv' /\ Written(off)' /\ Reading(off)'
<1>. DEFINE n == Len(sent)
            m == Len(received)
            keyPos == readBitPos + (IF positional THEN 8 ELSE 0)
            byte   == IF positional THEN Number(BitsAt(readBitPos, 8)) ELSE m
            code   == Number(BitsAt(keyPos, 6))
            key    == KeyName(code)
            known  == key \in Decodable
            point  == [name  |-> IF positional THEN FieldName(code, byte)
                                 ELSE <<key, byte + 1>>,
                       value |-> IF known THEN Value(key, keyPos + 6) ELSE 0]
            place  == keyPos + 6 + (IF known THEN BitCount(key) ELSE 0)
<1>1. /\ phase = "decode" /\ CanDecode
      /\ received' = Append(received, point) /\ readBitPos' = place
      /\ UNCHANGED <<positional, buffer, writeBitPos, phase, sent>>
  BY DEF DecodePoint
<1>2. n \in Nat /\ positional \in BOOLEAN
  BY LenProperties DEF TypeInv
<1>. HIDE DEF point, place, key, known, code, byte, keyPos
<1>3. PICK S : received \in Seq(S)
  BY DEF TypeInv
<1>4. /\ m \in Nat /\ received' \in Seq(S \union {point}) /\ Len(received') = m + 1
      /\ \A k \in 1..m : received'[k] = received[k]
      /\ received'[m + 1] = point
  <2>1. S \subseteq S \union {point} /\ point \in S \union {point}
    OBVIOUS
  <2>. DEFINE T == S \union {point}
  <2>. HIDE DEF T
  <2>2. received \in Seq(T) /\ point \in T
    BY <1>3, <2>1, SeqMonotonic DEF T
  <2>3. m \in Nat
    BY <2>2, LenProperties
  <2>. HIDE DEF m
  <2>4. /\ Append(received, point) \in Seq(T) /\ Len(Append(received, point)) = m + 1
        /\ \A k \in 1..m : Append(received, point)[k] = received[k]
        /\ Append(received, point)[m + 1] = point
    BY <2>2, AppendProperties DEF m
  <2>. QED
    BY <1>1, <2>3, <2>4 DEF T
<1>5. TypeInv'
  <2>1. \E T : received' \in Seq(T)
    BY <1>4
  <2>. QED
    BY <1>1, <2>1 DEF TypeInv
<1>6. /\ Written(off)' /\ Readable' = Readable /\ Extra' = Extra
      /\ \A pt, k : Decoded(pt, k)' = Decoded(pt, k)
  BY <1>1, MessageKept
<1>. HIDE DEF m, n
<1>7. ASSUME Readable
      PROVE  /\ m + 1 <= n + 1
             /\ m + 1 <= n => point = Decoded(sent[m + 1], m + 1) /\ place = off[m + 1]
             /\ m + 1 = n + 1 => /\ off[n] % 8 = 1 /\ point = Extra
                                 /\ ~(place < Len(buffer) - 6)
  <2>1. m <= n /\ readBitPos = off[m]
    <3>1. m <= n + 1 /\ m # n + 1
      BY <1>1, <1>7 DEF Reading, m, n
    <3>2. m <= n
      BY <1>2, <1>4, <3>1
    <3>. QED
      BY <1>7, <3>2 DEF Reading, m, n
  <2>2. CASE m < n
    <3>. DEFINE j == m + 1
                pt == sent[j]
                skip == IF positional THEN 8 ELSE 0
                p == off[j - 1]
                q == p + skip
    <3>1. j \in 1..Len(sent) /\ j - 1 = m
      BY <1>2, <1>4, <2>2 DEF n
    <3>2. readBitPos = p /\ keyPos = q
      BY <2>1, <3>1 DEF keyPos
    <3>. HIDE DEF j
    <3>3. /\ pt \in Accepted
          /\ positional => Number(BitsAt(p, 8)) = GetPosition(pt.name)
          /\ Number(BitsAt(q, 6)) = KeyCode[pt.key]
          /\ BitsAt(q + 6, BitCount(pt.key)) = DataBits(pt.key, pt.data)
          /\ q + 6 + BitCount(pt.key) = off[j]
      BY <3>1, ReadPoint
    <3>. HIDE DEF p, q
    <3>4. pt \in Samples /\ pt.key \in Keys /\ pt.name \in Names
      BY <3>3, SamplesAssumption DEF Accepted
    <3>5. pt.key # "double"
      BY <1>7, <3>1 DEF Readable
    <3>. HIDE DEF pt
    <3>6. key = pt.key /\ known
      <4>1. code = KeyCode[pt.key]
        BY <3>2, <3>3 DEF code
      <4>2. key = pt.key
        BY <3>4, <4>1, KeyFacts DEF key
      <4>. QED
        BY <3>4, <3>5, <4>2 DEF known, Decodable
    <3>7. Value(key, keyPos + 6) = Decoded(pt, j).value
      <4>1. Value(key, keyPos + 6)
              = IF pt.key \in FixedKeys
                THEN Number(DataBits(pt.key, pt.data)) + FixedPoint[pt.key].low
                ELSE DataBits(pt.key, pt.data)
        BY <3>2, <3>3, <3>6 DEF Value
      <4>. QED
        BY <3>4, <4>1, DataFacts
    <3>8. (IF positional THEN FieldName(code, byte) ELSE <<key, byte + 1>>)
            = Decoded(pt, j).name
      <4>1. CASE positional
        <5>1. byte = GetPosition(pt.name)
          BY <3>2, <3>3, <4>1 DEF byte
        <5>2. FieldName(code, byte) = pt.name
          BY <3>4, <5>1, NameFacts
        <5>. QED
          BY <4>1, <5>2 DEF Decoded
      <4>2. CASE ~positional
        <5>1. byte + 1 = j
          BY <4>2 DEF byte, j
        <5>. QED
          BY <3>6, <4>2, <5>1 DEF Decoded
      <4>. QED
        BY <4>1, <4>2
    <3>9. point = Decoded(pt, j)
      <4>1. point = [name |-> Decoded(pt, j).name, value |-> Decoded(pt, j).value]
        BY <3>6, <3>7, <3>8 DEF point
      <4>. QED
        BY <4>1 DEF Decoded
    <3>10. place = off[j]
      BY <3>2, <3>3, <3>6 DEF place
    <3>. QED
      BY <1>2, <1>4, <2>2, <3>9, <3>10 DEF j, pt
  <2>3. CASE m = n
    <3>. DEFINE u == readBitPos
                len == Len(buffer)
    <3>1. /\ u = off[Len(sent)] /\ u % 8 = 1 /\ len = u + 7 /\ u \in Nat
      <4>1. u = off[Len(sent)]
        BY <2>1, <2>3 DEF n
      <4>2. u < len - 6
        BY <1>1 DEF CanDecode
      <4>. HIDE DEF u, len
      <4>3. /\ u \in Nat /\ len \in Nat /\ u <= len /\ len <= u + 7
            /\ u % 8 = 1 <=> len = u + 7
        BY <4>1, UsedLength DEF len
      <4>4. len = u + 7
        BY <4>2, <4>3
      <4>. QED
        BY <4>1, <4>3, <4>4
    <3>2. code = 0 /\ (positional => byte = 0) /\ (~positional => byte = n)
      <4>1. /\ positional => Number(BitsAt(u, 8)) = 0 /\ Number(BitsAt(u + 8, 6)) = 0
            /\ ~positional => Number(BitsAt(u, 6)) = 0
        BY <3>1, ReadPadding
      <4>2. u + 0 = u
        BY <3>1
      <4>. QED
        BY <1>2, <2>3, <4>1, <4>2 DEF code, keyPos, byte
    <3>3. key = "unknown" /\ ~known
      <4>1. \A k \in Keys : KeyCode[k] # 0
        BY KeyFacts
      <4>2. "unknown" \notin Keys
        BY DEF Keys, FixedKeys, DataKeys, FixedPoint, ByteCount
      <4>3. key = "unknown"
        BY <3>2, <4>1 DEF key, KeyName
      <4>. QED
        BY <4>2, <4>3 DEF known, Decodable
    <3>4. point = [name |-> <<"unknown", IF positional THEN 1 ELSE n + 1>>, value |-> 0]
      <4>1. CASE positional
        <5>1. 0 \div 32 = 0 /\ (0 % 32) + 1 = 1
          OBVIOUS
        <5>2. FieldName(code, byte) = <<key, 1>>
          BY <3>2, <4>1, <5>1 DEF FieldName, key
        <5>. QED
          BY <3>3, <4>1, <5>2 DEF point
      <4>2. CASE ~positional
        BY <3>2, <3>3, <4>2 DEF point
      <4>. QED
        BY <4>1, <4>2
    <3>5. point = Extra /\ off[n] % 8 = 1
      BY <3>1, <3>4 DEF Extra, n
    <3>6. ~(place < len - 6)
      BY <1>2, <3>1, <3>3 DEF place, keyPos
    <3>. QED
      BY <1>2, <2>3, <3>5, <3>6
  <2>. QED
    BY <1>2, <1>4, <2>1, <2>2, <2>3
<1>8. CanDecode' <=> place < Len(buffer) - 6
  BY <1>1 DEF CanDecode
<1>9. Reading(off)'
  <2>1. phase' # "encode" /\ phase' # "done" /\ Len(sent') = n /\ sent' = sent
    BY <1>1 DEF n
  <2>2. ASSUME Readable, NEW k \in 1..(m + 1), k <= n
        PROVE  received'[k] = Decoded(sent[k], k)
    <3>1. CASE k \in 1..m
      BY <1>4, <2>2, <3>1 DEF Reading, m, n
    <3>2. CASE k = m + 1
      BY <1>4, <1>7, <2>2, <3>2
    <3>. QED
      BY <1>4, <3>1, <3>2
  <2>. QED
    BY <1>1, <1>4, <1>6, <1>7, <1>8, <2>1, <2>2 DEF Reading
<1>. QED
  BY <1>5, <1>6, <1>9

LEMMA NextIInv == IInv /\ [Next]_vars => IInv'
<1>. SUFFICES ASSUME TypeInv, NEW off, Written(off), Reading(off), [Next]_vars
              PROVE  IInv'
  BY DEF IInv
<1>1. ASSUME UNCHANGED <<positional, buffer, writeBitPos, sent, received, readBitPos>>,
             phase' \in {"encode", "decode", "done"},
             phase' = "encode" => phase = "encode",
             phase' = "done" => phase = "done" \/ ~CanDecode
      PROVE  IInv'
  <2>1. TypeInv'
    BY <1>1 DEF TypeInv
  <2>2. /\ Written(off)' /\ Readable' = Readable /\ Extra' = Extra
        /\ \A pt, k : Decoded(pt, k)' = Decoded(pt, k)
    BY <1>1, MessageKept
  <2>3. CanDecode' = CanDecode
    BY <1>1 DEF CanDecode
  <2>4. Reading(off)'
    BY <1>1, <2>2, <2>3 DEF Reading
  <2>. QED
    BY <2>1, <2>2, <2>4 DEF IInv
<1>2. ASSUME NEW pt \in Samples, EncodeData(pt) PROVE IInv'
  <2>1. CASE pt.key \in Keys
    <3>1. pt \in Accepted
      BY <2>1 DEF Accepted
    <3>2. TypeInv' /\ \E next : Written(next)' /\ Reading(next)'
      BY <1>2, <3>1, EncodeStep
    <3>. QED
      BY <3>2 DEF IInv
  <2>2. CASE pt.key \notin Keys
    <3>1. UNCHANGED <<positional, buffer, writeBitPos, sent, received, readBitPos, phase>>
      BY <1>2, <2>2 DEF EncodeData
    <3>. QED
      BY <1>1, <3>1 DEF TypeInv
  <2>. QED
    BY <2>1, <2>2
<1>3. CASE Transmit
  BY <1>1, <1>3 DEF Transmit
<1>4. CASE DecodePoint
  <2>1. TypeInv' /\ Written(off)' /\ Reading(off)'
    BY <1>4, DecodeStep
  <2>. QED
    BY <2>1 DEF IInv
<1>5. CASE DecodeEnds
  BY <1>1, <1>5 DEF DecodeEnds
<1>6. CASE UNCHANGED vars
  BY <1>1, <1>6 DEF vars, TypeInv
<1>. QED
  BY <1>2, <1>3, <1>4, <1>5, <1>6 DEF Next

\* When the decoder is done, nothing that was sent is missing.
LEMMA Arrived == IInv => RoundTrip
<1>. SUFFICES ASSUME TypeInv, NEW off, Written(off), Reading(off),
                     phase = "done", Readable
              PROVE  /\ Len(received) >= Len(sent)
                     /\ Len(received) <= Len(sent) + (IF Used % 8 = 1 THEN 1 ELSE 0)
                     /\ \A k \in 1..Len(sent) :
                           /\ received[k].name = Expected(sent[k], k).name
                           /\ \/ Overflows(sent[k])
                              \/ received[k].value = Expected(sent[k], k).value
  BY DEF IInv, RoundTrip
<1>. DEFINE n == Len(sent)
            m == Len(received)
            u == off[n]
            len == Len(buffer)
<1>1. PICK S : received \in Seq(S)
  BY DEF TypeInv
<1>2. n \in Nat /\ m \in Nat
  BY <1>1, LenProperties DEF TypeInv
<1>3. /\ m <= n + 1
      /\ \A k \in 1..m : k <= n => received[k] = Decoded(sent[k], k)
      /\ m <= n => readBitPos = off[m]
      /\ m = n + 1 => u % 8 = 1
      /\ ~(readBitPos < len - 6)
  BY DEF Reading, CanDecode
<1>4. Used = u
  BY UsedLength
<1>. HIDE DEF u, len
<1>5. m >= n
  <2>. SUFFICES ASSUME m < n PROVE FALSE
    BY <1>2
  <2>. DEFINE j == m + 1
              p == off[j - 1]
  <2>1. j \in 1..n /\ j - 1 = m
    BY <1>2
  <2>. HIDE DEF j
  <2>2. p < len - 6
    BY <2>1, ReadPoint DEF len
  <2>3. p = readBitPos
    <3>1. m <= n
      BY <1>2
    <3>2. readBitPos = off[m]
      BY <1>3, <3>1
    <3>. QED
      BY <2>1, <3>2
  <2>. QED
    BY <1>3, <2>2, <2>3
<1>6. ASSUME NEW k \in 1..n
      PROVE  /\ received[k].name = Expected(sent[k], k).name
             /\ Overflows(sent[k]) \/ received[k].value = Expected(sent[k], k).value
  <2>1. k \in 1..m
    BY <1>2, <1>5
  <2>2. received[k] = Decoded(sent[k], k)
    BY <1>2, <1>3, <2>1
  <2>3. sent[k] \in Samples /\ sent[k].key \in Keys
    BY <1>2 DEF TypeInv, Accepted
  <2>. QED
    BY <2>2, <2>3, DecodedFacts
<1>7. m <= n + (IF Used % 8 = 1 THEN 1 ELSE 0)
  <2>1. CASE m = n + 1
    BY <1>2, <1>3, <1>4, <2>1
  <2>2. CASE m <= n
    BY <1>2, <2>2
  <2>. QED
    BY <1>2, <1>3, <2>1, <2>2
<1>. QED
  BY <1>5, <1>6, <1>7

\* The encoder and the decoder agree on where each point is, at every step of either.
THEOREM IInvHolds == Spec => []IInv
BY InitIInv, NextIInv, PTL DEF Spec

\* Whatever stands before a point in a message, and however many follow it, decoding
\* what EncodeData wrote gives the points in order, with their names and their values
\* clamped to the range of the key; a value that Overflows is the only one that may
\* be lost, and one more point comes only behind seven bits of padding.
THEOREM RoundTripHolds == Spec => []RoundTrip
BY IInvHolds, Arrived, PTL
=============================================================================
