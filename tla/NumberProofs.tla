---------------------------- MODULE NumberProofs ----------------------------
(***************************************************************************)
(* Facts about numbers that the proofs of several components share: the    *)
(* sizes of the PDUs, for every length and every width of uint32_t;        *)
(* division by a variable; and induction.                                  *)
(*                                                                         *)
(* Induction is stated over a set of numbers in place of a predicate, and  *)
(* proved from the library's fact that being a strict subset is            *)
(* well-founded on the finite sets: the theorems of NaturalsInduction take *)
(* an operator, which the provers cannot instantiate.                      *)
(***************************************************************************)
EXTENDS AuthPlaintext, Integers, FiniteSetTheorems, TLAPS

\* The padding of createAuthPlaintext is never empty, never more than a word,
\* and makes what is hashed a whole number of words.
LEMMA PaddingFillsWord ==
    ASSUME NEW length \in Nat
    PROVE  /\ LaengePadding(length) \in 1..HashWordSize
           /\ HashPosition(length) \in Nat
           /\ HashPosition(length) % HashWordSize = 0
           /\ HashPosition(length) >= HashWordSize
           /\ length + LengthSize < HashPosition(length)
  BY DEF LaengePadding, HashPosition, HashWordSize, LengthSize

\* Up to UINT_MAX-68 the size that is allocated and sent is the exact one, is
\* one the partner's guards accept, and the message takes at least four masks.
THEOREM NeededSizeExact ==
    ASSUME NEW length \in Nat, LengthFits(length)
    PROVE  /\ NeededSize(length) = HashPosition(length) + HashWordSize
           /\ NeededSize(length) \in 0..UIntMax
           /\ WellFormedSize(NeededSize(length))
           /\ LengthAcceptable(length)
<1>1. /\ LaengePadding(length) \in 1..HashWordSize
      /\ HashPosition(length) \in Nat
      /\ HashPosition(length) % HashWordSize = 0
      /\ HashPosition(length) >= HashWordSize
  BY PaddingFillsWord
<1>2. HashPosition(length) + HashWordSize <= UIntMax
  <2>1. UIntMax \in Nat /\ length <= UIntMax - 68
    BY UIntMaxAssumption DEF LengthFits, HashWordSize, LengthSize
  <2>2. LaengePadding(length) \in 1..32
    BY <1>1 DEF HashWordSize
  <2> QED
    BY <2>1, <2>2 DEF HashPosition, HashWordSize, LengthSize
<1>3. NeededSize(length) = HashPosition(length) + HashWordSize
  BY <1>1, <1>2, UIntMaxAssumption DEF NeededSize, HashWordSize
<1>4. WellFormedSize(NeededSize(length))
  BY <1>1, <1>3 DEF WellFormedSize, HashWordSize
<1>5. LengthAcceptable(length)
  BY UIntMaxAssumption DEF LengthFits, LengthAcceptable, HashWordSize, LengthSize
<1> QED
  BY <1>1, <1>2, <1>3, <1>4, <1>5, UIntMaxAssumption DEF HashWordSize

\* A PDU of a well formed size takes at least four masks.
LEMMA BlocksPositive ==
    ASSUME NEW size \in Nat
    PROVE  /\ Blocks(size) \in Nat
           /\ WellFormedSize(size) => Blocks(size) >= 4
  BY DEF Blocks, WellFormedSize, AES_WORDSIZE, HashWordSize
-----------------------------------------------------------------------------
\* What is needed of products of variables.
LEMMA Times ==
    /\ \A a \in Nat, b \in Nat : a * b \in Nat
    /\ \A a \in Nat \ {0}, b \in Nat \ {0} : a * b \in Nat \ {0}
    /\ \A a \in Nat, b \in Nat : (a + 1) * b = a * b + b
    /\ \A a \in Int, b \in Nat : (a - 1) * b = a * b - b
    /\ \A a \in Nat, b \in Nat, c \in Nat : a <= c => a * b <= c * b
  OBVIOUS

\* A number has one quotient and one remainder.
LEMMA Euclid ==
    ASSUME NEW m \in Nat \ {0}, NEW q \in Int, NEW p \in Int,
           NEW r \in 0..m-1, NEW s \in 0..m-1, m * q + r = m * p + s
    PROVE  r = s
<1>1. CASE q = p
  BY <1>1
<1>2. CASE q < p
  <2>1. m * (p - q) >= m
    BY <1>2
  <2>2. m * (p - q) = m * p - m * q
    OBVIOUS
  <2> QED
    BY <2>1, <2>2
<1>3. CASE q > p
  <2>1. m * (q - p) >= m
    BY <1>3
  <2>2. m * (q - p) = m * q - m * p
    OBVIOUS
  <2> QED
    BY <2>1, <2>2
<1> QED
  BY <1>1, <1>2, <1>3

\* The quotient and the remainder of TLA+ are these.
LEMMA Division ==
    ASSUME NEW m \in Nat \ {0}, NEW k \in Nat
    PROVE  k \div m \in Int /\ k % m \in 0..m-1 /\ k = m * (k \div m) + (k % m)
  OBVIOUS

\* A number below m is its own remainder.
LEMMA SmallRemainder ==
    ASSUME NEW m \in Nat \ {0}, NEW r \in 0..m-1
    PROVE  r % m = r
<1> DEFINE s == r % m
           p == r \div m
<1>1. r \in Nat
  OBVIOUS
<1>2. p \in Int /\ s \in 0..m-1 /\ r = m * p + s
  BY <1>1, Division
<1> HIDE DEF s, p
<1>3. 0 \in Int /\ m * 0 + r = m * p + s
  BY <1>2
<1>4. r = s
  BY <1>2, <1>3, Euclid
<1> QED
  BY <1>4 DEF s

\* Counting modulo m.
LEMMA Successor ==
    ASSUME NEW m \in Nat \ {0}, NEW k \in Nat
    PROVE  (k + 1) % m = IF k % m = m - 1 THEN 0 ELSE (k % m) + 1
<1> DEFINE q == k \div m
           r == k % m
           p == (k + 1) \div m
           s == (k + 1) % m
<1>1. q \in Int /\ r \in 0..m-1 /\ k = m * q + r
  BY Division
<1>2. p \in Int /\ s \in 0..m-1 /\ k + 1 = m * p + s
  <2>1. k + 1 \in Nat
    OBVIOUS
  <2> QED
    BY <2>1, Division
<1> HIDE DEF q, r, p, s
<1>3. CASE r = m - 1
  <2>1. m * (q + 1) = m * q + m
    BY <1>1
  <2>2. m * (q + 1) + 0 = m * p + s /\ q + 1 \in Int /\ 0 \in 0..m-1
    BY <2>1, <1>1, <1>2, <1>3
  <2>3. 0 = s
    BY <2>2, <1>2, Euclid
  <2> QED
    BY <2>3, <1>3 DEF r, s
<1>4. CASE r # m - 1
  <2>1. r + 1 \in 0..m-1 /\ m * q + (r + 1) = m * p + s
    BY <1>1, <1>2, <1>4
  <2>2. r + 1 = s
    BY <2>1, <1>1, <1>2, Euclid
  <2> QED
    BY <2>2, <1>4 DEF r, s
<1> QED
  BY <1>3, <1>4
-----------------------------------------------------------------------------
\* Every nonempty set of natural numbers has a least element: the intervals up
\* to its elements are finite sets, and being a subset is well-founded on those.
LEMMA LeastNumber ==
    ASSUME NEW N \in SUBSET Nat, N # {}
    PROVE  \E m \in N : \A n \in N : m <= n
<1> DEFINE Below == {0..n : n \in N}
<1>1. IsWellFoundedOn(StrictSubsetOrdering(Nat), FiniteSubsetsOf(Nat))
  BY FS_StrictSubsetOrderingWellFounded
<1>2. Below \subseteq FiniteSubsetsOf(Nat)
  <2> SUFFICES ASSUME NEW n \in N PROVE 0..n \in FiniteSubsetsOf(Nat)
    OBVIOUS
  <2>1. n \in Nat /\ 0 \in Int /\ n \in Int
    OBVIOUS
  <2>2. IsFiniteSet(0..n) /\ 0..n \subseteq Nat
    BY <2>1, FS_Interval
  <2> QED
    BY <2>2 DEF FiniteSubsetsOf
<1>3. Below # {}
  OBVIOUS
<1>4. PICK X \in Below :
         \A Y \in Below : ~(<<Y, X>> \in StrictSubsetOrdering(Nat))
  <2> HIDE DEF Below
  <2> QED
    BY <1>1, <1>2, <1>3, WFMin
<1>5. PICK m \in N : X = 0..m
  OBVIOUS
<1>6. ASSUME NEW n \in N, ~(m <= n) PROVE FALSE
  <2>1. 0..n \subseteq 0..m /\ 0..n # 0..m /\ 0..n \subseteq Nat /\ 0..m \subseteq Nat
    BY <1>6
  <2>2. <<0..n, 0..m>> \in StrictSubsetOrdering(Nat)
    BY <2>1 DEF StrictSubsetOrdering
  <2> QED
    BY <2>2, <1>4, <1>5
<1> QED
  BY <1>6

\* Induction, over a set in place of a predicate.
LEMMA SetInduction ==
    ASSUME NEW S, 0 \in S, \A n \in Nat : n \in S => n + 1 \in S
    PROVE  Nat \subseteq S
<1> DEFINE N == Nat \ S
<1>1. SUFFICES ASSUME N # {} PROVE FALSE
  OBVIOUS
<1>2. PICK x \in N : \A y \in N : x <= y
  BY <1>1, LeastNumber
<1>3. x \in Nat /\ x # 0 /\ x - 1 \in Nat /\ x - 1 \notin N
  BY <1>2
<1> QED
  BY <1>3

\* Induction up to a bound.
LEMMA BoundedInduction ==
    ASSUME NEW n \in Nat, NEW S, 0 \in S, \A k \in 0..n-1 : k \in S => k + 1 \in S
    PROVE  0..n \subseteq S
<1> DEFINE T == {k \in Nat : k <= n => k \in S}
<1>1. 0 \in T
  OBVIOUS
<1>2. \A k \in Nat : k \in T => k + 1 \in T
  OBVIOUS
<1> HIDE DEF T
<1>3. Nat \subseteq T
  BY <1>1, <1>2, SetInduction
<1> QED
  BY <1>3 DEF T

\* What a recursive function over 0..n, that starts with a and goes on with
\* next, is defined as.
IsRecursive(f, n, a, next) ==
    f = [k \in 0..n |-> IF k = 0 THEN a ELSE next[k, f[k - 1]]]

\* There is such a function.
LEMMA RecursionExists ==
    ASSUME NEW A, NEW a \in A, NEW next \in [Nat \X A -> A], NEW n \in Nat
    PROVE  \E f \in [0..n -> A] : IsRecursive(f, n, a, next)
<1> DEFINE S == {k \in Nat : \E f \in [0..k -> A] : IsRecursive(f, k, a, next)}
<1>1. 0 \in S
  <2> DEFINE f == [k \in 0..0 |-> a]
  <2>1. f \in [0..0 -> A]
    OBVIOUS
  <2>2. IsRecursive(f, 0, a, next)
    BY DEF IsRecursive
  <2> QED
    BY <2>1, <2>2
<1>2. ASSUME NEW k \in Nat, k \in S PROVE k + 1 \in S
  <2>1. PICK f \in [0..k -> A] : IsRecursive(f, k, a, next)
    BY <1>2
  <2> DEFINE last == next[k + 1, f[k]]
             g    == [j \in 0..k + 1 |-> IF j = k + 1 THEN last ELSE f[j]]
  <2>2. /\ f[k] \in A /\ <<k + 1, f[k]>> \in Nat \X A
        /\ \A j \in 0..k + 1 : j # k + 1 => j \in 0..k
    OBVIOUS
  <2>3. last \in A
    BY <2>2
  <2>4. g[k + 1] = last /\ \A j \in 0..k : g[j] = f[j]
    <3>1. k + 1 \in 0..k + 1 /\ \A j \in 0..k : j \in 0..k + 1 /\ j # k + 1
      OBVIOUS
    <3> HIDE DEF last
    <3> QED
      BY <3>1
  <2>5. g \in [0..k + 1 -> A]
    <3> HIDE DEF last
    <3> QED
      BY <2>2, <2>3
  <2>6. g = [j \in 0..k + 1 |-> g[j]]
    OBVIOUS
  <2> HIDE DEF g
  <2>7. ASSUME NEW j \in 0..k + 1
        PROVE  g[j] = IF j = 0 THEN a ELSE next[j, g[j - 1]]
    <3>1. CASE j = k + 1
      <4>1. j # 0 /\ j - 1 = k /\ k \in 0..k
        BY <3>1
      <4>2. g[j - 1] = f[k] /\ g[j] = next[k + 1, f[k]]
        BY <2>4, <3>1, <4>1
      <4> QED
        BY <3>1, <4>1, <4>2
    <3>2. CASE j # k + 1
      <4>1. j \in 0..k /\ (j # 0 => j - 1 \in 0..k)
        BY <3>2
      <4>2. f[j] = IF j = 0 THEN a ELSE next[j, f[j - 1]]
        BY <2>1, <4>1 DEF IsRecursive
      <4> QED
        BY <2>4, <4>1, <4>2
    <3> QED
      BY <3>1, <3>2
  <2>8. IsRecursive(g, k + 1, a, next)
    BY <2>6, <2>7 DEF IsRecursive
  <2>9. k + 1 \in Nat
    OBVIOUS
  <2> QED
    BY <2>5, <2>8, <2>9
<1> HIDE DEF S
<1>3. Nat \subseteq S
  BY <1>1, <1>2, SetInduction
<1> QED
  BY <1>3 DEF S

\* Functions that start alike and go on alike are the same.
LEMMA RecursionUnique ==
    ASSUME NEW n \in Nat, NEW f, NEW g, DOMAIN f = 0..n, DOMAIN g = 0..n,
           f = [k \in 0..n |-> f[k]], g = [k \in 0..n |-> g[k]],
           f[0] = g[0], \A k \in 0..n-1 : f[k] = g[k] => f[k + 1] = g[k + 1]
    PROVE  f = g
<1> DEFINE S == {k \in 0..n : f[k] = g[k]}
<1>1. 0 \in S
  OBVIOUS
<1>2. ASSUME NEW k \in 0..n-1, k \in S PROVE k + 1 \in S
  <2>1. k + 1 \in 0..n /\ f[k] = g[k]
    BY <1>2
  <2> QED
    BY <2>1
<1> HIDE DEF S
<1>3. 0..n \subseteq S
  BY <1>1, <1>2, BoundedInduction
<1> QED
  BY <1>3 DEF S
=============================================================================
