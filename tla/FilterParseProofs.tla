------------------------- MODULE FilterParseProofs -------------------------
(***************************************************************************)
(* That a filter string means what its directives say, for every string,   *)
(* every socket and addresses of any size.                                 *)
(*                                                                         *)
(* The parser and the pipeline work on bytes, the meaning of an address    *)
(* directive is about bits.  Nothing computes with powers of two by        *)
(* induction here: 2 ^ n is the number of subsets of 1 .. n, and counting  *)
(* them with and without n + 1 gives 2 ^ (n + 1) = 2 * 2 ^ n.  Division    *)
(* with remainder then gives what a byte under a mask says of its bits     *)
(* (HighBitsAgree, HighBitsAll, ByteIsBits), and each bit of an address is *)
(* a bit of one of its bytes (EveryBit): PrefixMatches and HostBitsV6.     *)
(*                                                                         *)
(* The parser sees the directives before the next one only through the     *)
(* flags and the state mask it has collected.  Built says which filter a   *)
(* set of directives makes, whatever their order, and AcceptedMeans that   *)
(* these traces are enough: a directive is accepted just if it is not      *)
(* mistaken and clashes with none of them.  ParseInv is the invariant of   *)
(* the loop.                                                               *)
(***************************************************************************)
EXTENDS FilterParse, FiniteSetTheorems, TLAPS

---------------------------------------------------------------------------
(* Least and greatest numbers.                                             *)

\* A family of subsets of a finite set has a member with no other below it.
LEMMA MinimalSubset ==
  ASSUME NEW S, IsFiniteSet(S), NEW T, \A u \in T : u \subseteq S, T # {}
  PROVE  \E m \in T : \A u \in T : ~ (u \subseteq m /\ u # m)
<1>1. T \subseteq FiniteSubsetsOf(S)
  BY FS_Subset DEF FiniteSubsetsOf
<1>2. PICK m \in T : \A u \in T : ~ (<<u, m>> \in StrictSubsetOrdering(S))
  BY <1>1, FS_StrictSubsetOrderingWellFounded, WFMin
<1> QED
  BY <1>2 DEF StrictSubsetOrdering

LEMMA LeastOf ==
  ASSUME NEW a \in Int, NEW b \in Int, NEW S \in SUBSET (a .. b), S # {}
  PROVE  \E x \in S : \A y \in S : x <= y
<1> DEFINE T == {{y \in S : y < x} : x \in S}
<1>1. IsFiniteSet(a .. b)
  BY FS_Interval
<1>2. PICK m \in T : \A u \in T : ~ (u \subseteq m /\ u # m)
  <2>1. T # {} /\ \A u \in T : u \subseteq a .. b
    OBVIOUS
  <2> HIDE DEF T
  <2> QED
    BY <1>1, <2>1, MinimalSubset
<1>3. PICK x \in S : m = {y \in S : y < x}
  OBVIOUS
<1>4. ASSUME NEW z \in S, z < x PROVE FALSE
  <2> DEFINE u == {y \in S : y < z}
  <2>1. u \in T /\ z \in m /\ z \notin u
    BY <1>3, <1>4
  <2>2. ASSUME NEW y \in u PROVE y \in m
    BY <1>3, <1>4
  <2> HIDE DEF T, u
  <2> QED
    BY <1>2, <2>1, <2>2
<1> QED
  BY <1>4

LEMMA GreatestOf ==
  ASSUME NEW a \in Int, NEW b \in Int, NEW S \in SUBSET (a .. b), S # {}
  PROVE  \E x \in S : \A y \in S : y <= x
<1> DEFINE N == {-x : x \in S}
<1>1. N \in SUBSET (-b .. -a) /\ N # {} /\ -b \in Int /\ -a \in Int
  <2>1. \A x \in S : x \in Int /\ a <= x /\ x <= b
    OBVIOUS
  <2>2. \A x \in S : -x \in -b .. -a
    BY <2>1
  <2>3. \A y \in N : y \in -b .. -a
    BY <2>2
  <2>4. N # {}
    <3>1. PICK x \in S : TRUE
      OBVIOUS
    <3>2. -x \in N
      BY <3>1
    <3> QED
      BY <3>2
  <2>5. -b \in Int /\ -a \in Int
    OBVIOUS
  <2> HIDE DEF N
  <2> QED
    BY <2>3, <2>4, <2>5
<1>2. PICK n \in N : \A y \in N : n <= y
  <2> HIDE DEF N
  <2> QED
    BY <1>1, LeastOf
<1>3. PICK x \in S : n = -x
  OBVIOUS
<1>4. \A y \in S : n <= -y
  BY <1>2
<1> QED
  BY <1>3, <1>4

---------------------------------------------------------------------------
(* Powers of two.                                                          *)

\* A power of two is the number of subsets.
LEMMA SubsetsOf ==
  ASSUME NEW n \in Nat
  PROVE  /\ IsFiniteSet(1 .. n) /\ Cardinality(1 .. n) = n
         /\ IsFiniteSet(SUBSET (1 .. n)) /\ Cardinality(SUBSET (1 .. n)) = 2 ^ n
<1>1. IsFiniteSet(1 .. n) /\ Cardinality(1 .. n) = n
  BY FS_Interval
<1>2. /\ IsFiniteSet(SUBSET (1 .. n))
      /\ Cardinality(SUBSET (1 .. n)) = 2 ^ Cardinality(1 .. n)
  BY <1>1, FS_SUBSET
<1> QED
  BY <1>1, <1>2

LEMMA PowerZero == 2 ^ 0 = 1
<1>1. SUBSET (1 .. 0) = {{}}
  OBVIOUS
<1>2. Cardinality({{}}) = 1
  BY FS_Singleton
<1>3. Cardinality(SUBSET (1 .. 0)) = 2 ^ 0
  BY SubsetsOf
<1> QED
  BY <1>1, <1>2, <1>3

LEMMA PowerNext ==
  ASSUME NEW n \in Nat
  PROVE  /\ 2 ^ n \in Nat \ {0}
         /\ 2 ^ (n + 1) = 2 * 2 ^ n
<1> DEFINE A == SUBSET (1 .. n)
           B == {x \cup {n + 1} : x \in A}
           C == SUBSET (1 .. n + 1)
           f == [x \in A |-> x \cup {n + 1}]
<1>1. /\ IsFiniteSet(A) /\ Cardinality(A) = 2 ^ n
      /\ IsFiniteSet(C) /\ Cardinality(C) = 2 ^ (n + 1)
  <2>1. n + 1 \in Nat
    OBVIOUS
  <2>2. IsFiniteSet(C) /\ Cardinality(C) = 2 ^ (n + 1)
    BY <2>1, SubsetsOf
  <2> QED
    BY <2>2, SubsetsOf
<1>2. n + 1 \notin 1 .. n /\ 1 .. n + 1 = (1 .. n) \cup {n + 1}
  OBVIOUS
<1>3. \A x \in A : n + 1 \notin x
  BY <1>2
<1>4. f \in Bijection(A, B)
  <2>1. f \in [A -> B]
    OBVIOUS
  <2>2. \A x, y \in A : f[x] = f[y] => x = y
    <3> SUFFICES ASSUME NEW x \in A, NEW y \in A, f[x] = f[y] PROVE x = y
      OBVIOUS
    <3>1. x \cup {n + 1} = y \cup {n + 1}
      OBVIOUS
    <3> QED
      BY <1>3, <3>1
  <2>3. \A z \in B : \E x \in A : f[x] = z
    OBVIOUS
  <2> HIDE DEF f, A, B
  <2> QED
    BY <2>1, <2>2, <2>3 DEF Bijection, Injection, IsInjective, Surjection
<1>5. IsFiniteSet(B) /\ Cardinality(B) = 2 ^ n
  <2> HIDE DEF A, B, f
  <2> QED
    BY <1>1, <1>4, FS_Bijection DEF ExistsBijection
<1>6. C = A \cup B
  <2>1. ASSUME NEW z \in C PROVE z \in A \cup B
    <3>1. CASE n + 1 \notin z
      BY <1>2, <3>1
    <3>2. CASE n + 1 \in z
      <4>1. z \ {n + 1} \in A /\ z = (z \ {n + 1}) \cup {n + 1}
        BY <1>2, <3>2
      <4> QED
        BY <4>1
    <3> QED
      BY <3>1, <3>2
  <2>2. ASSUME NEW z \in A \cup B PROVE z \in C
    BY <1>2
  <2> HIDE DEF A, B, C
  <2> QED
    BY <2>1, <2>2
<1>7. A \cap B = {}
  BY <1>3
<1>8. Cardinality(C) = Cardinality(A) + Cardinality(B)
  <2>1. A \cap B = {} /\ Cardinality(A \cap B) = 0
    BY <1>7, FS_EmptySet
  <2> HIDE DEF A, B, C
  <2>2. Cardinality(A \cup B) = Cardinality(A) + Cardinality(B) - Cardinality(A \cap B)
    BY <1>1, <1>5, FS_Union
  <2>3. Cardinality(A) \in Nat /\ Cardinality(B) \in Nat
    BY <1>1, <1>5, FS_CardinalityType
  <2> QED
    BY <1>6, <2>1, <2>2, <2>3
<1>9. 2 ^ n \in Nat
  <2> HIDE DEF A
  <2> QED
    BY <1>1, FS_CardinalityType
<1>10. 2 ^ n # 0
  <2>1. A # {}
    OBVIOUS
  <2> HIDE DEF A
  <2> QED
    BY <1>1, <2>1, FS_EmptySet
<1> HIDE DEF A, B, C
<1> QED
  BY <1>1, <1>5, <1>8, <1>9, <1>10

---------------------------------------------------------------------------
(* Bits of a number.                                                       *)

LEMMA TimesAtLeast ==
  ASSUME NEW P \in Nat, NEW k \in Nat \ {0}
  PROVE  P * k >= P
<1>1. P * k = P + P * (k - 1)
  OBVIOUS
<1>2. k - 1 \in Nat
  OBVIOUS
<1>3. P * (k - 1) >= 0
  BY <1>2
<1> QED
  BY <1>1, <1>2, <1>3

LEMMA TimesCancel ==
  ASSUME NEW P \in Nat \ {0}, NEW q \in Nat, NEW r \in Nat
  PROVE  P * q = P * r <=> q = r
<1>1. ASSUME NEW x \in Nat, NEW y \in Nat, x < y PROVE P * x # P * y
  <2>1. P * y = P * x + P * (y - x) /\ P * x \in Nat /\ P * (y - x) \in Nat
    BY <1>1
  <2>2. P * (y - x) >= P
    BY <1>1, TimesAtLeast
  <2> QED
    BY <2>1, <2>2
<1> QED
  BY <1>1

LEMMA Division ==
  ASSUME NEW a \in Nat, NEW P \in Nat \ {0}
  PROVE  /\ a \div P \in Nat /\ a % P \in 0 .. P - 1
         /\ a = P * (a \div P) + (a % P)
OBVIOUS

LEMMA DivisionUnique ==
  ASSUME NEW P \in Nat \ {0}, NEW q \in Nat, NEW r \in 0 .. P - 1
  PROVE  (P * q + r) \div P = q /\ (P * q + r) % P = r
<1> DEFINE a == P * q + r
           c == a \div P
           d == a % P
<1>1. a \in Nat
  OBVIOUS
<1>2. c \in Nat /\ d \in 0 .. P - 1 /\ a = P * c + d
  BY <1>1, Division
<1>3. P * q + r = P * c + d
  BY <1>2
<1> HIDE DEF a, c, d
<1>4. ~ (c > q)
  <2> SUFFICES ASSUME c > q PROVE FALSE
    OBVIOUS
  <2>1. P * (c - q) >= P
    BY <1>2, TimesAtLeast
  <2>2. P * c = P * q + P * (c - q)
    BY <1>2
  <2>3. P * c \in Int /\ P * q \in Int /\ P * (c - q) \in Int
    BY <1>2
  <2> QED
    BY <1>2, <1>3, <2>1, <2>2, <2>3
<1>5. ~ (q > c)
  <2> SUFFICES ASSUME q > c PROVE FALSE
    OBVIOUS
  <2>1. P * (q - c) >= P
    BY <1>2, TimesAtLeast
  <2>2. P * q = P * c + P * (q - c)
    BY <1>2
  <2>3. P * c \in Int /\ P * q \in Int /\ P * (q - c) \in Int
    BY <1>2
  <2> QED
    BY <1>2, <1>3, <2>1, <2>2, <2>3
<1>6. c = q
  BY <1>2, <1>4, <1>5
<1>7. d = r
  BY <1>2, <1>3, <1>6
<1> QED
  BY <1>6, <1>7 DEF a, c, d

\* Bit k of a number, 0 the least significant.
BitOf(a, k) == (a \div 2 ^ k) % 2

\* One bit more: the quotient by the next power is half of this one.
LEMMA Halving ==
  ASSUME NEW a \in Nat, NEW k \in Nat
  PROVE  /\ a \div 2 ^ k \in Nat /\ a \div 2 ^ (k + 1) \in Nat
         /\ BitOf(a, k) \in {0, 1}
         /\ a \div 2 ^ k = 2 * (a \div 2 ^ (k + 1)) + BitOf(a, k)
<1> DEFINE P == 2 ^ k
           q == a \div P
           r == a % P
           h == q \div 2
           b == q % 2
<1>1. P \in Nat \ {0} /\ 2 ^ (k + 1) = 2 * P
  BY PowerNext
<1> HIDE DEF P
<1>2. q \in Nat /\ r \in 0 .. P - 1 /\ a = P * q + r
  BY <1>1, Division
<1> HIDE DEF q, r
<1>3. h \in Nat /\ b \in {0, 1} /\ q = 2 * h + b
  BY <1>2
<1> HIDE DEF h, b
<1>4. P * b + r \in 0 .. 2 * P - 1
  <2>1. CASE b = 0
    BY <1>1, <1>2, <2>1
  <2>2. CASE b = 1
    BY <1>1, <1>2, <2>2
  <2> QED
    BY <1>3, <2>1, <2>2
<1>5. a = (2 * P) * h + (P * b + r)
  <2>1. P * q = P * (2 * h + b)
    BY <1>3
  <2>2. P * (2 * h + b) = (2 * P) * h + P * b
    BY <1>1, <1>3
  <2>3. P * q \in Nat /\ P * b \in Nat /\ (2 * P) * h \in Nat
    BY <1>1, <1>2, <1>3
  <2> QED
    BY <1>2, <2>1, <2>2, <2>3
<1>6. a \div (2 * P) = h
  <2> DEFINE s == P * b + r
             P2 == 2 * P
  <2>1. s \in 0 .. P2 - 1 /\ P2 \in Nat \ {0} /\ a = P2 * h + s
    BY <1>1, <1>4, <1>5
  <2> HIDE DEF s, P2
  <2>2. a \div P2 = h
    BY <1>3, <2>1, DivisionUnique
  <2> QED
    BY <2>2 DEF P2
<1> QED
  BY <1>1, <1>2, <1>3, <1>6 DEF BitOf, P, q, h, b

LEMMA BelowPower ==
  ASSUME NEW n \in Nat, NEW a \in 0 .. 2 ^ n - 1
  PROVE  a \in Nat /\ a \div 2 ^ n = 0 /\ a % 2 ^ n = a
<1> DEFINE P == 2 ^ n
<1>1. P \in Nat \ {0}
  BY PowerNext
<1> HIDE DEF P
<1>2. a \in 0 .. P - 1
  BY DEF P
<1>3. P * 0 + a = a /\ 0 \in Nat
  BY <1>1, <1>2
<1>4. (P * 0 + a) \div P = 0 /\ (P * 0 + a) % P = a
  BY <1>1, <1>2, <1>3, DivisionUnique
<1>5. a \in Nat /\ a \div P = 0 /\ a % P = a
  BY <1>1, <1>2, <1>3, <1>4
<1> QED
  BY <1>5 DEF P

\* Two numbers of n bits have the same quotient by a power exactly when they
\* have the same bits from there on.
LEMMA SameHighBits ==
  ASSUME NEW n \in Nat, NEW m \in 0 .. n,
         NEW a \in 0 .. 2 ^ n - 1, NEW b \in 0 .. 2 ^ n - 1
  PROVE  a \div 2 ^ m = b \div 2 ^ m <=> \A k \in m .. n - 1 : BitOf(a, k) = BitOf(b, k)
<1>1. a \in Nat /\ b \in Nat /\ a \div 2 ^ n = 0 /\ b \div 2 ^ n = 0
  BY BelowPower
<1> DEFINE A(k) == a \div 2 ^ k
           B(k) == b \div 2 ^ k
<1>2. \A k \in Nat : /\ A(k) \in Nat /\ B(k) \in Nat
                     /\ BitOf(a, k) \in {0, 1} /\ BitOf(b, k) \in {0, 1}
                     /\ A(k) = 2 * A(k + 1) + BitOf(a, k)
                     /\ B(k) = 2 * B(k + 1) + BitOf(b, k)
  BY <1>1, Halving
<1>3. A(n) = B(n)
  BY <1>1
<1> HIDE DEF A, B
<1>4. ASSUME A(m) = B(m), NEW k0 \in m .. n - 1 PROVE BitOf(a, k0) = BitOf(b, k0)
  <2> DEFINE T == {k \in m .. n : A(k) # B(k)}
  <2>1. ASSUME T # {} PROVE FALSE
    <3>1. PICK k \in T : \A j \in T : k <= j
      <4>1. T \in SUBSET (m .. n) /\ m \in Int /\ n \in Int
        OBVIOUS
      <4> HIDE DEF T
      <4> QED
        BY <2>1, <4>1, LeastOf
    <3>2. k # m /\ k - 1 \in m .. n /\ k - 1 \notin T
      BY <1>4, <3>1
    <3>3. A(k - 1) = B(k - 1) /\ k - 1 \in Nat /\ (k - 1) + 1 = k
      BY <3>2
    <3>4. 2 * A(k) + BitOf(a, k - 1) = 2 * B(k) + BitOf(b, k - 1)
      BY <1>2, <3>3
    <3>5. A(k) \in Nat /\ B(k) \in Nat
      BY <1>2, <3>1
    <3>6. BitOf(a, k - 1) \in {0, 1} /\ BitOf(b, k - 1) \in {0, 1}
      BY <1>2, <3>3
    <3>7. A(k) = B(k)
      BY <3>4, <3>5, <3>6
    <3> QED
      BY <3>1, <3>7
  <2>2. k0 \in Nat /\ A(k0) = B(k0) /\ A(k0 + 1) = B(k0 + 1)
    BY <2>1
  <2>3. /\ A(k0 + 1) \in Nat /\ BitOf(a, k0) \in {0, 1} /\ BitOf(b, k0) \in {0, 1}
        /\ A(k0) = 2 * A(k0 + 1) + BitOf(a, k0) /\ B(k0) = 2 * B(k0 + 1) + BitOf(b, k0)
    <3>1. k0 + 1 \in Nat
      BY <2>2
    <3> QED
      BY <1>2, <2>2, <3>1
  <2>4. ASSUME NEW q \in Nat, NEW u \in {0, 1}, NEW v \in {0, 1}, 2 * q + u = 2 * q + v
        PROVE  u = v
    BY <2>4
  <2>5. 2 * A(k0 + 1) + BitOf(a, k0) = 2 * A(k0 + 1) + BitOf(b, k0)
    BY <2>2, <2>3, Zenon
  <2> QED
    BY <2>3, <2>4, <2>5, Zenon
<1>5. ASSUME \A k \in m .. n - 1 : BitOf(a, k) = BitOf(b, k) PROVE A(m) = B(m)
  <2> DEFINE T == {k \in m .. n : A(k) # B(k)}
  <2>1. ASSUME T # {} PROVE FALSE
    <3>1. PICK k \in T : \A j \in T : j <= k
      <4>1. T \in SUBSET (m .. n) /\ m \in Int /\ n \in Int
        OBVIOUS
      <4> HIDE DEF T
      <4> QED
        BY <2>1, <4>1, GreatestOf
    <3>2. k # n /\ k + 1 \in m .. n /\ k + 1 \notin T /\ k \in m .. n - 1 /\ k \in Nat
      BY <1>3, <3>1
    <3>3. A(k + 1) = B(k + 1) /\ BitOf(a, k) = BitOf(b, k)
      BY <1>5, <3>2
    <3>4. A(k) = B(k)
      BY <1>2, <3>2, <3>3
    <3> QED
      BY <3>1, <3>4
  <2> QED
    BY <2>1
<1> QED
  BY <1>4, <1>5 DEF A, B

\* A number is a multiple of a power exactly when its bits below it are zero.
LEMMA LowBitsZero ==
  ASSUME NEW a \in Nat, NEW m \in Nat
  PROVE  a % 2 ^ m = 0 <=> \A k \in 0 .. m - 1 : BitOf(a, k) = 0
<1> DEFINE A(k) == a \div 2 ^ k
           P(k) == 2 ^ k
<1>1. \A k \in Nat : /\ A(k) \in Nat /\ BitOf(a, k) \in {0, 1}
                     /\ A(k) = 2 * A(k + 1) + BitOf(a, k)
  BY Halving
<1>2. \A k \in Nat : P(k) \in Nat \ {0} /\ P(k + 1) = 2 * P(k)
  BY PowerNext
<1>3. P(0) = 1
  BY PowerZero
<1>4. \A k \in Nat : a % 2 ^ k = 0 <=> a = P(k) * A(k)
  <2> SUFFICES ASSUME NEW k \in Nat PROVE a % 2 ^ k = 0 <=> a = P(k) * A(k)
    OBVIOUS
  <2> DEFINE Q == 2 ^ k
             q == a \div Q
             r == a % Q
  <2>1. Q \in Nat \ {0}
    BY PowerNext
  <2> HIDE DEF Q
  <2>2. q \in Nat /\ r \in Nat /\ a = Q * q + r
    BY <2>1, Division
  <2> HIDE DEF q, r
  <2>3. Q * q \in Nat
    BY <2>1, <2>2
  <2>4. r = 0 <=> a = Q * q
    BY <2>2, <2>3
  <2> QED
    BY <2>4 DEF r, q, Q
<1>8. \A k \in Nat : \E r \in Nat : a = P(k) * A(k) + r
  <2> SUFFICES ASSUME NEW k \in Nat PROVE \E r \in Nat : a = P(k) * A(k) + r
    OBVIOUS
  <2> DEFINE Q == 2 ^ k
  <2>1. Q \in Nat \ {0}
    BY PowerNext
  <2> HIDE DEF Q
  <2>2. (a % Q) \in Nat /\ a = Q * (a \div Q) + (a % Q)
    BY <2>1, Division
  <2>3. \E r \in Nat : a = Q * (a \div Q) + r
    BY <2>2
  <2> QED
    BY <2>3 DEF Q
<1> HIDE DEF A, P
<1>5. ASSUME NEW k \in Nat PROVE a = P(k + 1) * A(k + 1) <=> a = P(k) * A(k) /\ BitOf(a, k) = 0
  <2>1. P(k) * A(k) = P(k) * (2 * A(k + 1)) + P(k) * BitOf(a, k)
    BY <1>1, <1>2
  <2>2. P(k) * (2 * A(k + 1)) = P(k + 1) * A(k + 1)
    BY <1>1, <1>2
  <2>3. P(k) * A(k) \in Nat /\ P(k + 1) * A(k + 1) \in Nat /\ P(k) \in Nat \ {0}
    BY <1>1, <1>2
  <2>4. PICK r \in Nat : a = P(k) * A(k) + r
    BY <1>8
  <2>5. CASE BitOf(a, k) = 0
    BY <2>1, <2>2, <2>3, <2>5
  <2>6. CASE BitOf(a, k) = 1
    <3>1. P(k) * A(k) = P(k + 1) * A(k + 1) + P(k)
      BY <2>1, <2>2, <2>3, <2>6
    <3> QED
      BY <2>3, <2>4, <2>6, <3>1
  <2> QED
    BY <1>1, <2>5, <2>6
<1>6. ASSUME a = P(m) * A(m), NEW k0 \in 0 .. m - 1 PROVE BitOf(a, k0) = 0
  <2> DEFINE T == {k \in 0 .. m : a # P(k) * A(k)}
  <2>1. ASSUME T # {} PROVE FALSE
    <3>1. PICK k \in T : \A j \in T : j <= k
      <4>1. T \in SUBSET (0 .. m) /\ 0 \in Int /\ m \in Int
        OBVIOUS
      <4> HIDE DEF T
      <4> QED
        BY <2>1, <4>1, GreatestOf
    <3>2. k # m /\ k + 1 \in 0 .. m /\ k + 1 \notin T /\ k \in Nat
      BY <1>6, <3>1
    <3> QED
      BY <1>5, <3>1, <3>2
  <2>2. k0 \in Nat /\ a = P(k0 + 1) * A(k0 + 1)
    BY <2>1
  <2> QED
    BY <1>5, <2>2
<1>7. ASSUME \A k \in 0 .. m - 1 : BitOf(a, k) = 0 PROVE a = P(m) * A(m)
  <2> DEFINE T == {k \in 0 .. m : a # P(k) * A(k)}
  <2>1. ASSUME T # {} PROVE FALSE
    <3>1. PICK k \in T : \A j \in T : k <= j
      <4>1. T \in SUBSET (0 .. m) /\ 0 \in Int /\ m \in Int
        OBVIOUS
      <4> HIDE DEF T
      <4> QED
        BY <2>1, <4>1, LeastOf
    <3>2. k # 0
      <4>1. a % 1 = 0
        OBVIOUS
      <4> QED
        BY <1>3, <1>4, <3>1, <4>1, PowerZero
    <3>3. k - 1 \in 0 .. m - 1 /\ k - 1 \in Nat /\ k - 1 \notin T /\ (k - 1) + 1 = k
      BY <3>1, <3>2
    <3> QED
      BY <1>5, <1>7, <3>1, <3>3
  <2> QED
    BY <2>1
<1> QED
  BY <1>4, <1>6, <1>7

---------------------------------------------------------------------------
(* Bits of an address: bit k of byte j, and what lies in a prefix.         *)

LEMMA TimesMonotone ==
  ASSUME NEW P \in Nat, NEW x \in Int, NEW y \in Int, x <= y
  PROVE  x * P <= y * P /\ x * P \in Int /\ y * P \in Int
<1>1. y * P = x * P + (y - x) * P /\ (y - x) * P >= 0
  OBVIOUS
<1> QED
  BY <1>1

\* A prefix is so many whole bytes and bits of the next one.
LEMMA PrefixParts ==
  ASSUME NEW prefix \in 0 .. AddrBits
  PROVE  LET full == prefix \div ByteBits
             rem  == prefix % ByteBits
         IN  /\ full \in 0 .. NumBytes /\ rem \in 0 .. ByteBits - 1
             /\ prefix = full * ByteBits + rem
             /\ rem > 0 => full + 1 \in 1 .. NumBytes
             /\ prefix < AddrBits => full + 1 \in 1 .. NumBytes
<1> DEFINE full == prefix \div ByteBits
           rem == prefix % ByteBits
<1>1. ByteBits \in Nat \ {0} /\ NumBytes \in Nat \ {0} /\ AddrBits = NumBytes * ByteBits
  BY MatchAssumption DEF AddrBits
<1>2. full \in Nat /\ rem \in 0 .. ByteBits - 1 /\ prefix = ByteBits * full + rem
  <2>1. AddrBits \in Nat
    BY <1>1
  <2>2. prefix \in Nat
    BY <2>1
  <2> QED
    BY <1>1, <2>2, Division
<1> HIDE DEF full, rem
<1>3. prefix = full * ByteBits + rem
  BY <1>1, <1>2
<1>4. ASSUME full > NumBytes \/ (full = NumBytes /\ (rem > 0 \/ prefix < AddrBits)) PROVE FALSE
  <2>1. NumBytes * ByteBits <= full * ByteBits /\ full * ByteBits \in Int /\ NumBytes * ByteBits \in Int
    BY <1>1, <1>2, <1>4, TimesMonotone
  <2>2. CASE full = NumBytes
    BY <1>1, <1>2, <1>3, <1>4, <2>1, <2>2
  <2>3. CASE full > NumBytes
    <3>1. (NumBytes + 1) * ByteBits <= full * ByteBits
      BY <1>1, <1>2, <2>3, TimesMonotone
    <3>2. (NumBytes + 1) * ByteBits = NumBytes * ByteBits + ByteBits
      BY <1>1
    <3> QED
      BY <1>1, <1>2, <1>3, <2>1, <3>1, <3>2
  <2> QED
    BY <1>4, <2>2, <2>3
<1>5. full \in 0 .. NumBytes
  BY <1>1, <1>2, <1>4
<1>6. (rem > 0 => full + 1 \in 1 .. NumBytes) /\ (prefix < AddrBits => full + 1 \in 1 .. NumBytes)
  BY <1>1, <1>2, <1>4, <1>5
<1> QED
  BY <1>2, <1>3, <1>5, <1>6 DEF full, rem

\* Bit k of byte j is bit j * ByteBits - k of the address.
LEMMA BitIs ==
  ASSUME NEW a \in Addresses, NEW j \in 1 .. NumBytes, NEW k \in 0 .. ByteBits - 1
  PROVE  /\ j * ByteBits - k \in 1 .. AddrBits
         /\ Bit(a, j * ByteBits - k) = BitOf(a[j], k)
<1> DEFINE i == j * ByteBits - k
<1>1. ByteBits \in Nat \ {0} /\ NumBytes \in Nat \ {0} /\ AddrBits = NumBytes * ByteBits
  BY MatchAssumption DEF AddrBits
<1>2. /\ 1 * ByteBits <= j * ByteBits /\ j * ByteBits <= NumBytes * ByteBits
      /\ j * ByteBits \in Int
  BY <1>1, TimesMonotone
<1>3. i \in 1 .. AddrBits
  BY <1>1, <1>2
<1>4. i - 1 = ByteBits * (j - 1) + (ByteBits - k - 1)
  BY <1>1, <1>2
<1>5. (i - 1) \div ByteBits = j - 1
  <2>1. j - 1 \in Nat /\ ByteBits - k - 1 \in 0 .. ByteBits - 1
    BY <1>1
  <2> HIDE DEF i
  <2> QED
    BY <1>1, <1>4, <2>1, DivisionUnique
<1>6. (i - 1) \div ByteBits + 1 = j
  BY <1>1, <1>5
<1>7. j * ByteBits - i = k
  BY <1>1, <1>2
<1> HIDE DEF i
<1>8. Bit(a, i) = (a[j] \div 2 ^ k) % 2
  BY <1>6, <1>7 DEF Bit
<1> QED
  BY <1>3, <1>8 DEF i, BitOf

LEMMA EveryBit ==
  ASSUME NEW i \in 1 .. AddrBits
  PROVE  \E j \in 1 .. NumBytes, k \in 0 .. ByteBits - 1 : i = j * ByteBits - k
<1> DEFINE full == (i - 1) \div ByteBits
           rem == (i - 1) % ByteBits
<1>1. ByteBits \in Nat \ {0} /\ NumBytes \in Nat \ {0} /\ AddrBits \in Nat
  BY MatchAssumption DEF AddrBits
<1>2. i - 1 \in 0 .. AddrBits /\ i - 1 < AddrBits
  BY <1>1
<1>3. /\ full \in 0 .. NumBytes /\ rem \in 0 .. ByteBits - 1
      /\ i - 1 = full * ByteBits + rem /\ full + 1 \in 1 .. NumBytes
  BY <1>2, PrefixParts
<1> HIDE DEF full, rem
<1>4. (full + 1) * ByteBits = full * ByteBits + ByteBits /\ full * ByteBits \in Int
  BY <1>1, <1>3
<1>5. ByteBits - 1 - rem \in 0 .. ByteBits - 1 /\ i = (full + 1) * ByteBits - (ByteBits - 1 - rem)
  BY <1>1, <1>3, <1>4
<1> QED
  BY <1>3, <1>5

\* The bits of a prefix are those of its whole bytes and the high ones of the
\* next byte.
LEMMA PrefixHas ==
  ASSUME NEW full \in Nat, NEW rem \in 0 .. ByteBits - 1,
         NEW j \in Nat, NEW k \in 0 .. ByteBits - 1
  PROVE  j * ByteBits - k <= full * ByteBits + rem
           <=> j <= full \/ (j = full + 1 /\ k >= ByteBits - rem)
<1>1. ByteBits \in Nat \ {0}
  BY MatchAssumption
<1>2. full * ByteBits \in Int /\ j * ByteBits \in Int
  BY <1>1
<1>3. CASE j <= full
  <2>1. j * ByteBits <= full * ByteBits
    BY <1>1, <1>3, TimesMonotone
  <2> QED
    BY <1>1, <1>2, <1>3, <2>1
<1>4. CASE j = full + 1
  <2>1. j * ByteBits = full * ByteBits + ByteBits
    BY <1>1, <1>4
  <2> QED
    BY <1>1, <1>2, <1>4, <2>1
<1>5. CASE j >= full + 2
  <2>1. (full + 2) * ByteBits <= j * ByteBits
    BY <1>1, <1>5, TimesMonotone
  <2>2. (full + 2) * ByteBits = full * ByteBits + 2 * ByteBits
    BY <1>1
  <2> QED
    BY <1>1, <1>2, <1>5, <2>1, <2>2
<1> QED
  BY <1>3, <1>4, <1>5

\* Bytes agree under the mask of n high bits when those bits agree.
LEMMA HighBitsAgree ==
  ASSUME NEW b \in Byte, NEW c \in Byte, NEW n \in 0 .. ByteBits
  PROVE  HighBits(b, n) = HighBits(c, n)
           <=> \A k \in ByteBits - n .. ByteBits - 1 : BitOf(b, k) = BitOf(c, k)
<1> DEFINE m == ByteBits - n
           P == 2 ^ m
<1>1. ByteBits \in Nat \ {0} /\ m \in 0 .. ByteBits /\ m \in Nat
  BY MatchAssumption
<1>2. b \in 0 .. 2 ^ ByteBits - 1 /\ c \in 0 .. 2 ^ ByteBits - 1 /\ b \in Nat /\ c \in Nat
  BY <1>1, BelowPower DEF Byte
<1>3. P \in Nat \ {0}
  BY <1>1, PowerNext
<1>4. b \div P = c \div P <=> \A k \in m .. ByteBits - 1 : BitOf(b, k) = BitOf(c, k)
  <2> HIDE DEF m
  <2> QED
    BY <1>1, <1>2, SameHighBits
<1>5. HighBits(b, n) = b - (b % P) /\ HighBits(c, n) = c - (c % P)
  BY DEF HighBits
<1> HIDE DEF P
<1>6. ASSUME NEW x \in Nat PROVE x \div P \in Nat /\ (x % P) \in Nat /\ x - (x % P) = P * (x \div P)
  <2>1. x \div P \in Nat /\ (x % P) \in 0 .. P - 1 /\ x = P * (x \div P) + (x % P)
    BY <1>3, Division, Zenon
  <2>2. P * (x \div P) \in Nat /\ (x % P) \in Nat
    <3>1. ASSUME NEW q \in Nat, NEW r \in 0 .. P - 1 PROVE P * q \in Nat /\ r \in Nat
      BY <1>3
    <3> QED
      BY <2>1, <3>1, Zenon
  <2>3. ASSUME NEW y \in Nat, NEW r \in Nat, x = y + r PROVE x - r = y
    BY <2>3
  <2> QED
    BY <2>1, <2>2, <2>3, Zenon
<1>7. ASSUME NEW q \in Nat, NEW r \in Nat PROVE P * q = P * r <=> q = r
  BY <1>3, TimesCancel
<1>8. HighBits(b, n) = HighBits(c, n) <=> b \div P = c \div P
  BY <1>2, <1>5, <1>6, <1>7
<1> QED
  BY <1>4, <1>8

\* A byte is its n high bits when the others are zero.
LEMMA HighBitsAll ==
  ASSUME NEW b \in Byte, NEW n \in 0 .. ByteBits
  PROVE  HighBits(b, n) = b <=> \A k \in 0 .. ByteBits - n - 1 : BitOf(b, k) = 0
<1> DEFINE m == ByteBits - n
           P == 2 ^ m
<1>1. ByteBits \in Nat \ {0} /\ m \in Nat
  BY MatchAssumption
<1>2. b \in Nat
  BY <1>1, BelowPower DEF Byte
<1>3. P \in Nat \ {0}
  BY <1>1, PowerNext
<1>4. b % P = 0 <=> \A k \in 0 .. m - 1 : BitOf(b, k) = 0
  <2> HIDE DEF m
  <2> QED
    BY <1>1, <1>2, LowBitsZero
<1>5. HighBits(b, n) = b - (b % P)
  BY DEF HighBits
<1> HIDE DEF P
<1>6. (b % P) \in Nat
  BY <1>2, <1>3, Division
<1>7. HighBits(b, n) = b <=> b % P = 0
  BY <1>2, <1>5, <1>6
<1> QED
  BY <1>4, <1>7

LEMMA ByteIsBits ==
  /\ \A b \in Byte : b = 0 <=> \A k \in 0 .. ByteBits - 1 : BitOf(b, k) = 0
  /\ \A b, c \in Byte : b = c <=> \A k \in 0 .. ByteBits - 1 : BitOf(b, k) = BitOf(c, k)
<1>1. ByteBits \in Nat
  BY MatchAssumption
<1>2. \A b \in Byte : b \in Nat /\ b % 2 ^ ByteBits = b /\ b \in 0 .. 2 ^ ByteBits - 1
  BY <1>1, BelowPower DEF Byte
<1>3. \A b \in Byte : b \div 2 ^ 0 = b
  <2> SUFFICES ASSUME NEW b \in Byte PROVE b \div 2 ^ 0 = b
    OBVIOUS
  <2>1. b \div 1 = b
    BY <1>2
  <2> QED
    BY <2>1, PowerZero
<1>4. \A b \in Byte : b = 0 <=> \A k \in 0 .. ByteBits - 1 : BitOf(b, k) = 0
  BY <1>1, <1>2, LowBitsZero
<1>5. ASSUME NEW b \in Byte, NEW c \in Byte
      PROVE  b = c <=> \A k \in 0 .. ByteBits - 1 : BitOf(b, k) = BitOf(c, k)
  <2> DEFINE m == 0
  <2>1. m \in 0 .. ByteBits /\ b \in 0 .. 2 ^ ByteBits - 1 /\ c \in 0 .. 2 ^ ByteBits - 1
    BY <1>1, <1>2
  <2> HIDE DEF m
  <2>2. b \div 2 ^ m = c \div 2 ^ m <=> \A k \in m .. ByteBits - 1 : BitOf(b, k) = BitOf(c, k)
    BY <1>1, <2>1, SameHighBits
  <2> QED
    BY <1>3, <2>2 DEF m
<1> QED
  BY <1>4, <1>5

\* The comparison of bytes and the masked one mean that the bits of the prefix
\* are the same, for every prefix and every width of a byte.
LEMMA PrefixMatches ==
  ASSUME NEW addr \in Addresses, NEW net \in Addresses, NEW prefix \in 0 .. AddrBits
  PROVE  MatchV6Prefix(addr, net, prefix) <=> \A i \in 1 .. prefix : Bit(addr, i) = Bit(net, i)
<1> DEFINE full == prefix \div ByteBits
           rem == prefix % ByteBits
           Same(j, k) == BitOf(addr[j], k) = BitOf(net[j], k)
<1>1. /\ full \in 0 .. NumBytes /\ rem \in 0 .. ByteBits - 1
      /\ prefix = full * ByteBits + rem
      /\ rem > 0 => full + 1 \in 1 .. NumBytes
  BY PrefixParts
<1>2. ByteBits \in Nat \ {0} /\ NumBytes \in Nat \ {0} /\ AddrBits \in Nat
  BY MatchAssumption DEF AddrBits
<1>3. \A j \in 1 .. NumBytes : addr[j] \in Byte /\ net[j] \in Byte
  BY DEF Addresses
<1>4. MatchV6Prefix(addr, net, prefix)
        <=> /\ \A j \in 1 .. full : addr[j] = net[j]
            /\ rem > 0 => HighBits(addr[full + 1], rem) = HighBits(net[full + 1], rem)
  BY DEF MatchV6Prefix
<1> HIDE DEF full, rem
<1>5. (\A j \in 1 .. full : addr[j] = net[j])
        <=> \A j \in 1 .. full, k \in 0 .. ByteBits - 1 : Same(j, k)
  BY <1>1, <1>2, <1>3, ByteIsBits
<1>6. ASSUME rem > 0
      PROVE  HighBits(addr[full + 1], rem) = HighBits(net[full + 1], rem)
               <=> \A k \in ByteBits - rem .. ByteBits - 1 : Same(full + 1, k)
  BY <1>1, <1>2, <1>3, <1>6, HighBitsAgree
<1>7. MatchV6Prefix(addr, net, prefix)
        <=> \A j \in 1 .. NumBytes, k \in 0 .. ByteBits - 1 :
              j <= full \/ (j = full + 1 /\ k >= ByteBits - rem) => Same(j, k)
  <2> HIDE DEF Same
  <2>1. CASE rem > 0
    BY <1>1, <1>2, <1>4, <1>5, <1>6, <2>1
  <2>2. CASE rem = 0
    BY <1>1, <1>2, <1>4, <1>5, <2>2
  <2> QED
    BY <1>1, <1>2, <2>1, <2>2
<1>8. \A j \in 1 .. NumBytes, k \in 0 .. ByteBits - 1 :
        /\ j * ByteBits - k \in 1 .. AddrBits
        /\ j * ByteBits - k <= prefix <=> j <= full \/ (j = full + 1 /\ k >= ByteBits - rem)
        /\ Same(j, k) <=> Bit(addr, j * ByteBits - k) = Bit(net, j * ByteBits - k)
  BY <1>1, <1>2, BitIs, PrefixHas
<1> HIDE DEF Same
<1>9. ASSUME MatchV6Prefix(addr, net, prefix), NEW i \in 1 .. prefix
      PROVE  Bit(addr, i) = Bit(net, i)
  <2>1. i \in 1 .. AddrBits /\ i <= prefix
    BY <1>2
  <2>2. PICK j \in 1 .. NumBytes, k \in 0 .. ByteBits - 1 : i = j * ByteBits - k
    BY <2>1, EveryBit
  <2> QED
    BY <1>7, <1>8, <1>9, <2>1, <2>2
<1>10. ASSUME \A i \in 1 .. prefix : Bit(addr, i) = Bit(net, i)
       PROVE  MatchV6Prefix(addr, net, prefix)
  <2>1. \A j \in 1 .. NumBytes, k \in 0 .. ByteBits - 1 :
          j * ByteBits - k <= prefix => Same(j, k)
    BY <1>8, <1>10
  <2> QED
    BY <1>7, <1>8, <2>1
<1> QED
  BY <1>9, <1>10

\* tsf_validate_v6_cidr finds exactly the bits beyond the prefix that are set,
\* but looks at none when the prefix is zero.
LEMMA HostBitsV6 ==
  ASSUME NEW net \in Addresses, NEW prefix \in 1 .. AddrBits
  PROVE  HostBitsClearV6(net, prefix) <=> \A i \in prefix + 1 .. AddrBits : Bit(net, i) = 0
<1> DEFINE full == prefix \div ByteBits
           rem == prefix % ByteBits
           Zero(j, k) == BitOf(net[j], k) = 0
<1>1. ByteBits \in Nat \ {0} /\ NumBytes \in Nat \ {0} /\ AddrBits \in Nat
  BY MatchAssumption DEF AddrBits
<1>2. CASE prefix = AddrBits
  <2>1. prefix + 1 .. AddrBits = {} /\ prefix \notin 1 .. AddrBits - 1
    BY <1>1, <1>2
  <2> QED
    BY <2>1 DEF HostBitsClearV6
<1>3. CASE prefix # AddrBits
  <2>1. prefix \in 1 .. AddrBits - 1 /\ prefix \in 0 .. AddrBits /\ prefix < AddrBits
    BY <1>1, <1>3
  <2>2. /\ full \in 0 .. NumBytes /\ rem \in 0 .. ByteBits - 1
        /\ prefix = full * ByteBits + rem /\ full + 1 \in 1 .. NumBytes
    BY <2>1, PrefixParts
  <2>3. \A j \in 1 .. NumBytes : net[j] \in Byte
    BY DEF Addresses
  <2>4. HostBitsClearV6(net, prefix)
          <=> /\ rem > 0 => HighBits(net[full + 1], rem) = net[full + 1]
              /\ \A j \in (IF rem > 0 THEN full + 2 ELSE full + 1) .. NumBytes : net[j] = 0
    BY <2>1 DEF HostBitsClearV6
  <2> HIDE DEF full, rem
  <2>5. \A j \in 1 .. NumBytes : net[j] = 0 <=> \A k \in 0 .. ByteBits - 1 : Zero(j, k)
    BY <2>3, ByteIsBits
  <2>6. rem > 0 => (HighBits(net[full + 1], rem) = net[full + 1]
                      <=> \A k \in 0 .. ByteBits - rem - 1 : Zero(full + 1, k))
    BY <1>1, <2>2, <2>3, HighBitsAll
  <2>7. HostBitsClearV6(net, prefix)
          <=> \A j \in 1 .. NumBytes, k \in 0 .. ByteBits - 1 :
                ~ (j <= full \/ (j = full + 1 /\ k >= ByteBits - rem)) => Zero(j, k)
    <3> HIDE DEF Zero
    <3>1. CASE rem > 0
      <4>1. full + 2 .. NumBytes \subseteq 1 .. NumBytes
        BY <1>1, <2>2
      <4>2. HostBitsClearV6(net, prefix)
              <=> /\ \A k \in 0 .. ByteBits - rem - 1 : Zero(full + 1, k)
                  /\ \A j \in full + 2 .. NumBytes, k \in 0 .. ByteBits - 1 : Zero(j, k)
        BY <2>4, <2>5, <2>6, <3>1, <4>1
      <4> QED
        BY <1>1, <2>2, <3>1, <4>2
    <3>2. CASE rem = 0
      <4>1. full + 1 .. NumBytes \subseteq 1 .. NumBytes
        BY <1>1, <2>2
      <4>2. HostBitsClearV6(net, prefix)
              <=> \A j \in full + 1 .. NumBytes, k \in 0 .. ByteBits - 1 : Zero(j, k)
        BY <2>4, <2>5, <3>2, <4>1
      <4> QED
        BY <1>1, <2>2, <3>2, <4>2
    <3> QED
      BY <1>1, <2>2, <3>1, <3>2
  <2>8. \A j \in 1 .. NumBytes, k \in 0 .. ByteBits - 1 :
          /\ j * ByteBits - k \in 1 .. AddrBits
          /\ j * ByteBits - k <= prefix <=> j <= full \/ (j = full + 1 /\ k >= ByteBits - rem)
          /\ Zero(j, k) <=> Bit(net, j * ByteBits - k) = 0
    <3> SUFFICES ASSUME NEW j \in 1 .. NumBytes, NEW k \in 0 .. ByteBits - 1
                 PROVE  /\ j * ByteBits - k \in 1 .. AddrBits
                        /\ j * ByteBits - k <= prefix
                             <=> j <= full \/ (j = full + 1 /\ k >= ByteBits - rem)
                        /\ Zero(j, k) <=> Bit(net, j * ByteBits - k) = 0
      OBVIOUS
    <3>1. /\ j * ByteBits - k \in 1 .. AddrBits
          /\ Bit(net, j * ByteBits - k) = BitOf(net[j], k)
      BY BitIs
    <3>2. full \in Nat /\ j \in Nat
      BY <2>2
    <3>3. j * ByteBits - k <= full * ByteBits + rem
            <=> j <= full \/ (j = full + 1 /\ k >= ByteBits - rem)
      BY <2>2, <3>2, PrefixHas
    <3> QED
      BY <2>2, <3>1, <3>3
  <2> HIDE DEF Zero
  <2>9. ASSUME HostBitsClearV6(net, prefix), NEW i \in prefix + 1 .. AddrBits
        PROVE  Bit(net, i) = 0
    <3>1. i \in 1 .. AddrBits /\ ~ (i <= prefix)
      BY <1>1, <2>1
    <3>2. PICK j \in 1 .. NumBytes, k \in 0 .. ByteBits - 1 : i = j * ByteBits - k
      BY <3>1, EveryBit
    <3> QED
      BY <2>7, <2>8, <2>9, <3>1, <3>2
  <2>10. ASSUME \A i \in prefix + 1 .. AddrBits : Bit(net, i) = 0
         PROVE  HostBitsClearV6(net, prefix)
    <3>1. \A j \in 1 .. NumBytes, k \in 0 .. ByteBits - 1 :
            ~ (j * ByteBits - k <= prefix) => Zero(j, k)
      BY <1>1, <2>1, <2>8, <2>10
    <3> QED
      BY <2>7, <2>8, <3>1
  <2> QED
    BY <2>9, <2>10
<1> QED
  BY <1>2, <1>3

LEMMA BitIsBinary ==
  ASSUME NEW a \in Addresses, NEW i \in 1 .. AddrBits
  PROVE  Bit(a, i) \in {0, 1}
<1>1. PICK j \in 1 .. NumBytes, k \in 0 .. ByteBits - 1 : i = j * ByteBits - k
  BY EveryBit
<1>2. a[j] \in Byte /\ ByteBits \in Nat
  BY MatchAssumption DEF Addresses
<1>3. a[j] \in Nat
  BY <1>2, BelowPower DEF Byte
<1>4. BitOf(a[j], k) \in {0, 1}
  BY <1>2, <1>3, Halving
<1> QED
  BY <1>1, <1>4, BitIs

---------------------------------------------------------------------------
(* Lists of items.                                                         *)

\* As many values as places: no value stands twice.
LEMMA NoDuplicates ==
  ASSUME NEW n \in Nat, NEW s
  PROVE  Cardinality({s[i] : i \in 1 .. n}) = n
           <=> \A i, j \in 1 .. n : i < j => s[i] # s[j]
<1> DEFINE T == {s[i] : i \in 1 .. n}
           f == [i \in 1 .. n |-> s[i]]
<1>1. IsFiniteSet(1 .. n) /\ Cardinality(1 .. n) = n
  BY FS_Interval
<1>2. f \in [1 .. n -> T] /\ \A t \in T : \E i \in 1 .. n : f[i] = t
  OBVIOUS
<1>3. f \in Surjection(1 .. n, T)
  <2> HIDE DEF f, T
  <2> QED
    BY <1>2 DEF Surjection
<1>4. Cardinality(T) = n <=> f \in Injection(1 .. n, T)
  <2> HIDE DEF f, T
  <2> QED
    BY <1>1, <1>3, FS_Surjection
<1>5. f \in Injection(1 .. n, T) <=> \A i, j \in 1 .. n : f[i] = f[j] => i = j
  <2> HIDE DEF f, T
  <2> QED
    BY <1>2 DEF Injection, IsInjective
<1>6. (\A i, j \in 1 .. n : f[i] = f[j] => i = j) <=> \A i, j \in 1 .. n : i < j => s[i] # s[j]
  <2>1. ASSUME \A i, j \in 1 .. n : i < j => s[i] # s[j], NEW i \in 1 .. n, NEW j \in 1 .. n,
               s[i] = s[j]
        PROVE  i = j
    <3>1. ~ (i < j) /\ ~ (j < i)
      BY <2>1
    <3> QED
      BY <3>1
  <2>2. ASSUME \A i, j \in 1 .. n : s[i] = s[j] => i = j
        PROVE  \A i, j \in 1 .. n : i < j => s[i] # s[j]
    BY <2>2
  <2>3. \A i \in 1 .. n : f[i] = s[i]
    OBVIOUS
  <2> HIDE DEF f
  <2> QED
    BY <2>1, <2>2, <2>3
<1> QED
  BY <1>4, <1>5, <1>6

LEMMA ItemsAre ==
  ASSUME NEW S, NEW items \in Seq(S)
  PROVE  /\ Len(items) \in Nat /\ DOMAIN items = 1 .. Len(items)
         /\ Elements(items) = {items[i] : i \in 1 .. Len(items)}
         /\ Elements(items) \subseteq S
         /\ items = <<>> <=> Len(items) = 0
         /\ items = <<>> <=> Elements(items) = {}
<1>1. Len(items) \in Nat /\ DOMAIN items = 1 .. Len(items) /\ \A i \in 1 .. Len(items) : items[i] \in S
  OBVIOUS
<1>2. Elements(items) = {items[i] : i \in 1 .. Len(items)}
  BY <1>1 DEF Elements
<1>3. items = <<>> <=> Len(items) = 0
  OBVIOUS
<1>4. Elements(items) = {} <=> Len(items) = 0
  BY <1>1, <1>2
<1> QED
  BY <1>1, <1>2, <1>3, <1>4

LEMMA DistinctMeans ==
  ASSUME NEW S, NEW items \in Seq(S)
  PROVE  Distinct(items) <=> ~ \E i, j \in DOMAIN items : i < j /\ items[i] = items[j]
BY ItemsAre, NoDuplicates DEF Distinct

LEMMA StatesMean ==
  ASSUME NEW S, NEW items \in Seq(S)
  PROVE  /\ StatesOf(items) = {StateOf[items[i]] : i \in 1 .. Len(items)}
         /\ Cardinality(StatesOf(items)) = Len(items)
              <=> ~ \E i, j \in DOMAIN items : i < j /\ StateOf[items[i]] = StateOf[items[j]]
         /\ Elements(items) \subseteq DOMAIN StateOf => StatesOf(items) \subseteq 0 .. 10
<1> DEFINE n == Len(items)
           s == [i \in 1 .. n |-> StateOf[items[i]]]
<1>1. n \in Nat /\ DOMAIN items = 1 .. n /\ Elements(items) = {items[i] : i \in 1 .. n}
  BY ItemsAre
<1>2. StatesOf(items) = {StateOf[items[i]] : i \in 1 .. n}
  BY <1>1 DEF StatesOf
<1>3. \A i \in 1 .. n : s[i] = StateOf[items[i]]
  OBVIOUS
<1>4. Cardinality({s[i] : i \in 1 .. n}) = n <=> \A i, j \in 1 .. n : i < j => s[i] # s[j]
  <2> HIDE DEF s, n
  <2> QED
    BY <1>1, NoDuplicates
<1>5. {s[i] : i \in 1 .. n} = StatesOf(items)
  BY <1>2, <1>3
<1>6. \A name \in DOMAIN StateOf : StateOf[name] \in 0 .. 10
  BY DEF StateOf
<1>7. Elements(items) \subseteq DOMAIN StateOf => StatesOf(items) \subseteq 0 .. 10
  BY <1>6 DEF StatesOf
<1> HIDE DEF s
<1>8. (\A i, j \in 1 .. n : i < j => s[i] # s[j])
        <=> ~ \E i, j \in 1 .. n : i < j /\ StateOf[items[i]] = StateOf[items[j]]
  BY <1>3
<1>9. Cardinality(StatesOf(items)) = n
        <=> ~ \E i, j \in 1 .. n : i < j /\ StateOf[items[i]] = StateOf[items[j]]
  BY <1>4, <1>5, <1>8
<1> QED
  BY <1>1, <1>2, <1>7, <1>9

---------------------------------------------------------------------------
(* One directive after others.                                             *)

\* What the parser refuses when it comes to the later of two directives; the
\* other clashes it finds at the end.
ClashAtOnce(d, e) ==
  \/ d.key = e.key /\ d.key \in {"local_port", "remote_port", "local_addr",
                                 "remote_addr", "include_state"}
  \/ d.key = "include_state" /\ e.key = "exclude"
  \/ d.key = "exclude" /\ d.items # <<>> /\ e.key = "include_state"

\* The flag a directive of this key sets.
KeyFlag ==
  [ipv4_only |-> "IPV4_ONLY", ipv6_only |-> "IPV6_ONLY",
   local_port |-> "LOCAL_PORT_MATCH", remote_port |-> "REMOTE_PORT_MATCH",
   local_addr |-> "LOCAL_ADDR_MATCH", remote_addr |-> "REMOTE_ADDR_MATCH",
   include_state |-> "STATE_INCLUDE_MODE"]

\* The states a directive lets through.
LetThrough(d, t) ==
  /\ d.key = "exclude" => t \notin StatesOf(d.items)
  /\ d.key = "include_state" => t \in StatesOf(d.items)

\* f is what the directives of D make of an empty filter.
Built(f, D) ==
  /\ DOMAIN f = DOMAIN EmptyFilter
  /\ \A k \in DOMAIN KeyFlag : KeyFlag[k] \in f.flags <=> \E d \in D : d.key = k
  /\ f.state_mask = {t \in 0 .. 15 : \A d \in D : LetThrough(d, t)}
  /\ \A d \in D :
       /\ d.key = "local_port" => f.local_ports = PortSlots(d.items)
       /\ d.key = "remote_port" => f.remote_ports = PortSlots(d.items)
       /\ d.key = "local_addr" => f.local = AddrSpecOf(d.items[1])
       /\ d.key = "remote_addr" => f.remote = AddrSpecOf(d.items[1])

LEMMA FlagAccepted ==
  ASSUME NEW d, d.key \in DOMAIN FlagOf
  PROVE  DirectiveOk(d) <=> ~ Mistaken(d)
BY DEF DirectiveOk, FlagOk, PortListOk, ExcludeOk, IncludeStateOk, AddrOk, FormatOk,
       FieldsOk, FlagOf, PortFlag, AddrFlag, Mistaken

LEMMA PortListAccepted ==
  ASSUME NEW d, d.key \in DOMAIN PortFlag, IsDirective(d)
  PROVE  DirectiveOk(d) <=> ~ Mistaken(d) /\ PortFlag[d.key] \notin tmp.flags
<1>1. d.items \in Seq(Nat)
  BY DEF IsDirective, Items
<1>2. /\ Len(d.items) \in Nat /\ d.items = <<>> <=> Len(d.items) = 0
      /\ Elements(d.items) \subseteq Nat
  BY <1>1, ItemsAre
<1>3. Distinct(d.items) <=> ~ \E i, j \in DOMAIN d.items : i < j /\ d.items[i] = d.items[j]
  BY <1>1, DistinctMeans
<1>4. Elements(d.items) \subseteq 1 .. MaxPort <=> ~ \E n \in Elements(d.items) : n < 1 \/ n > MaxPort
  BY <1>2, ParseAssumption
<1>5. DirectiveOk(d) <=> PortListOk(d)
  BY DEF DirectiveOk, FlagOk, PortListOk, ExcludeOk, IncludeStateOk, AddrOk, FormatOk,
         FieldsOk, FlagOf, PortFlag, AddrFlag
<1>6. ~ Mistaken(d) <=> /\ d.value = "list" /\ d.items # <<>>
                        /\ ~ (Len(d.items) > TSF_MAX_PORTS)
                        /\ ~ \E n \in Elements(d.items) : n < 1 \/ n > MaxPort
                        /\ ~ \E i, j \in DOMAIN d.items : i < j /\ d.items[i] = d.items[j]
  BY DEF Mistaken, FlagOf, PortFlag, AddrFlag, Keys
<1>7. Len(d.items) \in 1 .. TSF_MAX_PORTS <=> d.items # <<>> /\ ~ (Len(d.items) > TSF_MAX_PORTS)
  BY <1>2, MatchAssumption
<1> QED
  BY <1>3, <1>4, <1>5, <1>6, <1>7 DEF PortListOk

LEMMA StatesAccepted ==
  ASSUME NEW d, d.key \in {"exclude", "include_state"}, IsDirective(d)
  PROVE  ~ Mistaken(d) <=> /\ d.value = "list" /\ StatesOk(d.items)
                           /\ d.key = "include_state" => d.items # <<>>
<1>1. d.items \in Seq(STRING)
  BY DEF IsDirective, Items, PortFlag, AddrFlag
<1>2. StatesOk(d.items)
        <=> /\ Elements(d.items) \subseteq DOMAIN StateOf
            /\ ~ \E i, j \in DOMAIN d.items : i < j /\ StateOf[d.items[i]] = StateOf[d.items[j]]
  BY <1>1, StatesMean DEF StatesOk
<1>3. ~ Mistaken(d)
        <=> /\ d.value = "list" /\ (d.key # "exclude" => d.items # <<>>)
            /\ Elements(d.items) \subseteq DOMAIN StateOf
            /\ ~ \E i, j \in DOMAIN d.items : i < j /\ StateOf[d.items[i]] = StateOf[d.items[j]]
  BY DEF Mistaken, FlagOf, PortFlag, AddrFlag, Keys
<1> QED
  BY <1>2, <1>3

LEMMA ExcludeAccepted ==
  ASSUME NEW d, d.key = "exclude", IsDirective(d)
  PROVE  DirectiveOk(d) <=> ~ Mistaken(d) /\ "STATE_INCLUDE_MODE" \notin tmp.flags
<1>1. DirectiveOk(d) <=> ExcludeOk(d)
  BY DEF DirectiveOk, FlagOk, PortListOk, ExcludeOk, IncludeStateOk, AddrOk, FormatOk,
         FieldsOk, FlagOf, PortFlag, AddrFlag
<1> QED
  BY <1>1, StatesAccepted DEF ExcludeOk

LEMMA IncludeAccepted ==
  ASSUME NEW d, d.key = "include_state", IsDirective(d)
  PROVE  DirectiveOk(d) <=> /\ ~ Mistaken(d) /\ "STATE_INCLUDE_MODE" \notin tmp.flags
                            /\ tmp.state_mask = 0 .. 15
<1>1. DirectiveOk(d) <=> IncludeStateOk(d)
  BY DEF DirectiveOk, FlagOk, PortListOk, ExcludeOk, IncludeStateOk, AddrOk, FormatOk,
         FieldsOk, FlagOf, PortFlag, AddrFlag
<1> QED
  BY <1>1, StatesAccepted DEF IncludeStateOk

LEMMA AddrAccepted ==
  ASSUME NEW d, d.key \in DOMAIN AddrFlag, IsDirective(d)
  PROVE  DirectiveOk(d) <=> ~ Mistaken(d) /\ AddrFlag[d.key] \notin tmp.flags
<1> DEFINE a == d.items[1]
<1>1. DirectiveOk(d) <=> AddrOk(d)
  BY DEF DirectiveOk, FlagOk, PortListOk, ExcludeOk, IncludeStateOk, AddrOk, FormatOk,
         FieldsOk, FlagOf, PortFlag, AddrFlag
<1>2. ~ Mistaken(d)
        <=> /\ d.value = "list" /\ d.items # <<>>
            /\ ~ \E x \in Elements(d.items) :
                   \/ x.prefix > AddrBits
                   \/ \E i \in x.prefix + 1 .. AddrBits :
                        Bit(x.net, i) = 1 /\ ~ (x.family = "v6" /\ x.prefix = 0)
  BY DEF Mistaken, FlagOf, PortFlag, AddrFlag, Keys
<1>3. CASE d.value # "list"
  BY <1>1, <1>2, <1>3 DEF AddrOk
<1>4. CASE d.value = "list"
  <2>1. /\ d.items \in Seq([family : {"v4", "v6"}, net : Addresses, prefix : Nat])
        /\ Len(d.items) = 1
    BY <1>4 DEF IsDirective, Items, PortFlag, AddrFlag
  <2>2. /\ d.items # <<>> /\ Elements(d.items) = {a}
        /\ a.family \in {"v4", "v6"} /\ a.net \in Addresses /\ a.prefix \in Nat
    <3>1. /\ d.items # <<>>
          /\ Elements(d.items) = {d.items[i] : i \in 1 .. 1}
          /\ Elements(d.items) \subseteq [family : {"v4", "v6"}, net : Addresses, prefix : Nat]
      <4> DEFINE S == [family : {"v4", "v6"}, net : Addresses, prefix : Nat]
      <4>1. d.items \in Seq(S) /\ Len(d.items) = 1
        BY <2>1
      <4> HIDE DEF S
      <4>2. /\ d.items # <<>> /\ Elements(d.items) = {d.items[i] : i \in 1 .. 1}
            /\ Elements(d.items) \subseteq S
        BY <4>1, ItemsAre
      <4> QED
        BY <4>2 DEF S
    <3>2. Elements(d.items) = {a}
      BY <3>1
    <3>3. a \in [family : {"v4", "v6"}, net : Addresses, prefix : Nat]
      BY <3>1, <3>2
    <3> QED
      BY <3>1, <3>2, <3>3
  <2>3. AddrBits \in Nat
    BY MatchAssumption DEF AddrBits
  <2> HIDE DEF a
  <2>4. \A i \in a.prefix + 1 .. AddrBits : Bit(a.net, i) \in {0, 1}
    BY <2>2, <2>3, BitIsBinary
  <2>5. ASSUME a.prefix <= AddrBits
        PROVE  (IF a.family = "v4" THEN HostBitsClearV4(a.net, a.prefix)
                                   ELSE HostBitsClearV6(a.net, a.prefix))
                 <=> ~ \E i \in a.prefix + 1 .. AddrBits :
                         Bit(a.net, i) = 1 /\ ~ (a.family = "v6" /\ a.prefix = 0)
    <3>1. CASE a.family = "v4"
      BY <2>4, <3>1 DEF HostBitsClearV4
    <3>2. CASE a.family = "v6" /\ a.prefix = 0
      BY <3>2 DEF HostBitsClearV6
    <3>3. CASE a.family = "v6" /\ a.prefix # 0
      <4>1. a.prefix \in 1 .. AddrBits
        BY <2>2, <2>3, <2>5, <3>3
      <4>2. HostBitsClearV6(a.net, a.prefix)
              <=> \A i \in a.prefix + 1 .. AddrBits : Bit(a.net, i) = 0
        BY <2>2, <4>1, HostBitsV6
      <4> QED
        BY <2>4, <3>3, <4>2
    <3> QED
      BY <2>2, <3>1, <3>2, <3>3
  <2>6. ~ (a.prefix > AddrBits) <=> a.prefix <= AddrBits
    BY <2>2, <2>3
  <2>7. AddrOk(d)
          <=> /\ AddrFlag[d.key] \notin tmp.flags
              /\ a.prefix <= AddrBits
              /\ IF a.family = "v4" THEN HostBitsClearV4(a.net, a.prefix)
                                    ELSE HostBitsClearV6(a.net, a.prefix)
    BY <1>4, <2>1 DEF AddrOk, a
  <2> QED
    BY <1>1, <1>2, <1>4, <2>2, <2>5, <2>6, <2>7
<1> QED
  BY <1>3, <1>4

LEMMA RestAccepted ==
  ASSUME NEW d, IsDirective(d),
         d.key \notin DOMAIN FlagOf \cup DOMAIN PortFlag \cup DOMAIN AddrFlag
                        \cup {"exclude", "include_state"}
  PROVE  DirectiveOk(d) <=> ~ Mistaken(d)
<1>1. d.items \in Seq(STRING)
  BY DEF IsDirective, Items
<1>2. DirectiveOk(d) <=> FormatOk(d) \/ FieldsOk(d)
  BY DEF DirectiveOk, FlagOk, PortListOk, ExcludeOk, IncludeStateOk, AddrOk
<1>3. CASE d.key = "format"
  <2>1. ~ Mistaken(d) <=> d.value = "list" /\ d.items # <<>> /\ Elements(d.items) \subseteq {"compact", "full"}
    BY <1>3 DEF Mistaken, Keys
  <2>2. CASE d.value = "list"
    <3>1. Len(d.items) = 1
      BY <1>3, <2>2 DEF IsDirective
    <3>2. d.items # <<>> /\ Elements(d.items) = {d.items[1]}
      <4>1. d.items # <<>> /\ Elements(d.items) = {d.items[i] : i \in 1 .. 1}
        BY <1>1, <3>1, ItemsAre
      <4> QED
        BY <4>1
    <3>3. /\ d.items = <<"compact">> <=> d.items[1] = "compact"
          /\ d.items = <<"full">> <=> d.items[1] = "full"
      <4>1. ASSUME NEW x PROVE d.items = << x >> <=> d.items[1] = x
        BY <1>1, <3>1
      <4> QED
        BY <4>1
    <3>4. FormatOk(d) <=> d.items = <<"compact">> \/ d.items = <<"full">>
      BY <1>3, <2>2 DEF FormatOk
    <3>5. Elements(d.items) \subseteq {"compact", "full"}
            <=> d.items[1] = "compact" \/ d.items[1] = "full"
      BY <3>2
    <3>6. ~ FieldsOk(d)
      BY <1>3 DEF FieldsOk
    <3>7. FormatOk(d) <=> d.items[1] = "compact" \/ d.items[1] = "full"
      BY <3>3, <3>4
    <3> QED
      BY <1>2, <2>1, <2>2, <3>2, <3>5, <3>6, <3>7
  <2> QED
    BY <1>2, <1>3, <2>1, <2>2 DEF FormatOk, FieldsOk
<1>4. CASE d.key = "fields"
  BY <1>2, <1>4 DEF FormatOk, FieldsOk, Mistaken, Keys
<1>5. CASE d.key \notin {"format", "fields"}
  BY <1>2, <1>5 DEF FormatOk, FieldsOk, Mistaken, Keys
<1> QED
  BY <1>3, <1>4, <1>5

\* The states a directive that is not mistaken names.
LEMMA NamedStates ==
  ASSUME NEW d, d.key = "exclude" \/ d.key = "include_state", IsDirective(d), ~ Mistaken(d)
  PROVE  /\ \A t \in StatesOf(d.items) : t \in 0 .. 10
         /\ (\A t : t \notin StatesOf(d.items)) <=> d.items = <<>>
<1>1. d.items \in Seq(STRING)
  BY DEF IsDirective, Items, PortFlag, AddrFlag
<1>2. Elements(d.items) \subseteq DOMAIN StateOf
  BY StatesAccepted DEF StatesOk
<1>3. StatesOf(d.items) = {} <=> Elements(d.items) = {}
  BY DEF StatesOf
<1> QED
  BY <1>1, <1>2, <1>3, StatesMean, ItemsAre

\* What the parser accepts after the directives of D: a directive that is not
\* mistaken and clashes with none of them at once.  The flags and the mask tell
\* it all it needs of the directives before.
LEMMA AcceptedMeans ==
  ASSUME NEW D, Built(tmp, D), \A a \in D : IsDirective(a) /\ ~ Mistaken(a),
         NEW d, IsDirective(d)
  PROVE  DirectiveOk(d) <=> ~ Mistaken(d) /\ \A a \in D : ~ ClashAtOnce(a, d)
<1>1. CASE d.key \in DOMAIN FlagOf
  <2>1. \A a \in D : ~ ClashAtOnce(a, d)
    BY <1>1 DEF ClashAtOnce, FlagOf
  <2> QED
    BY <1>1, <2>1, FlagAccepted
<1>2. CASE d.key \in DOMAIN PortFlag
  <2>1. d.key \in DOMAIN KeyFlag /\ KeyFlag[d.key] = PortFlag[d.key]
    BY <1>2 DEF KeyFlag, PortFlag
  <2>2. PortFlag[d.key] \in tmp.flags <=> \E a \in D : a.key = d.key
    BY <2>1 DEF Built
  <2>3. \A a \in D : ClashAtOnce(a, d) <=> a.key = d.key
    BY <1>2 DEF ClashAtOnce, PortFlag
  <2> QED
    BY <1>2, <2>2, <2>3, PortListAccepted
<1>3. CASE d.key \in DOMAIN AddrFlag
  <2>1. d.key \in DOMAIN KeyFlag /\ KeyFlag[d.key] = AddrFlag[d.key]
    BY <1>3 DEF KeyFlag, AddrFlag
  <2>2. AddrFlag[d.key] \in tmp.flags <=> \E a \in D : a.key = d.key
    BY <2>1 DEF Built
  <2>3. \A a \in D : ClashAtOnce(a, d) <=> a.key = d.key
    BY <1>3 DEF ClashAtOnce, AddrFlag
  <2> QED
    BY <1>3, <2>2, <2>3, AddrAccepted
<1>4. "STATE_INCLUDE_MODE" \in tmp.flags <=> \E a \in D : a.key = "include_state"
  <2>1. "include_state" \in DOMAIN KeyFlag /\ KeyFlag["include_state"] = "STATE_INCLUDE_MODE"
    BY DEF KeyFlag
  <2> QED
    BY <2>1 DEF Built
<1>5. CASE d.key = "exclude"
  <2>1. \A a \in D : ClashAtOnce(a, d) <=> a.key = "include_state"
    BY <1>5 DEF ClashAtOnce
  <2> QED
    BY <1>4, <1>5, <2>1, ExcludeAccepted
<1>6. CASE d.key = "include_state"
  <2>1. \A a \in D : ClashAtOnce(a, d)
          <=> a.key = "include_state" \/ (a.key = "exclude" /\ a.items # <<>>)
    BY <1>6 DEF ClashAtOnce
  <2>2. ASSUME \A a \in D : a.key # "include_state"
        PROVE  tmp.state_mask = 0 .. 15 <=> \A a \in D : ~ (a.key = "exclude" /\ a.items # <<>>)
    <3>1. tmp.state_mask = {t \in 0 .. 15 : \A a \in D : LetThrough(a, t)}
      BY DEF Built
    <3>2. \A a \in D, t \in 0 .. 15 :
            LetThrough(a, t) <=> ~ (a.key = "exclude" /\ t \in StatesOf(a.items))
      BY <2>2 DEF LetThrough
    <3>3. tmp.state_mask = 0 .. 15
            <=> \A a \in D, t \in 0 .. 15 : ~ (a.key = "exclude" /\ t \in StatesOf(a.items))
      BY <3>1, <3>2
    <3>4. \A a \in D : a.key = "exclude" =>
            (a.items = <<>> <=> \A t \in 0 .. 15 : t \notin StatesOf(a.items))
      <4> SUFFICES ASSUME NEW a \in D, a.key = "exclude"
                   PROVE  a.items = <<>> <=> \A t \in 0 .. 15 : t \notin StatesOf(a.items)
        OBVIOUS
      <4>1. \A t \in StatesOf(a.items) : t \in 0 .. 10
        BY NamedStates
      <4>2. (\A t : t \notin StatesOf(a.items)) <=> a.items = <<>>
        BY NamedStates
      <4> QED
        BY <4>1, <4>2
    <3> QED
      BY <3>3, <3>4
  <2> QED
    BY <1>4, <1>6, <2>1, <2>2, IncludeAccepted
<1>7. CASE d.key \notin DOMAIN FlagOf \cup DOMAIN PortFlag \cup DOMAIN AddrFlag
                          \cup {"exclude", "include_state"}
  <2>1. \A a \in D : ~ ClashAtOnce(a, d)
    BY <1>7 DEF ClashAtOnce, PortFlag, AddrFlag
  <2> QED
    BY <1>7, <2>1, RestAccepted
<1> QED
  BY <1>1, <1>2, <1>3, <1>5, <1>6, <1>7

LEMMA FilterFields ==
  DOMAIN EmptyFilter = {"flags", "state_mask", "local_ports", "remote_ports", "local", "remote",
                        "field_mask", "format"}
BY DEF EmptyFilter, DefaultFilter

\* How a filter grows by one directive.
LEMMA BuiltMore ==
  ASSUME NEW D, NEW f, Built(f, D), NEW d, NEW g, DOMAIN g = DOMAIN EmptyFilter,
         g.flags = f.flags \cup (IF d.key \in DOMAIN KeyFlag THEN {KeyFlag[d.key]} ELSE {}),
         g.state_mask = {t \in f.state_mask : LetThrough(d, t)},
         IF d.key = "local_port"
           THEN g.local_ports = PortSlots(d.items) /\ \A a \in D : a.key # "local_port"
           ELSE g.local_ports = f.local_ports,
         IF d.key = "remote_port"
           THEN g.remote_ports = PortSlots(d.items) /\ \A a \in D : a.key # "remote_port"
           ELSE g.remote_ports = f.remote_ports,
         IF d.key = "local_addr"
           THEN g.local = AddrSpecOf(d.items[1]) /\ \A a \in D : a.key # "local_addr"
           ELSE g.local = f.local,
         IF d.key = "remote_addr"
           THEN g.remote = AddrSpecOf(d.items[1]) /\ \A a \in D : a.key # "remote_addr"
           ELSE g.remote = f.remote
  PROVE  Built(g, D \cup {d})
<1>1. \A k \in DOMAIN KeyFlag : KeyFlag[k] \in g.flags <=> \E a \in D \cup {d} : a.key = k
  <2>1. \A k \in DOMAIN KeyFlag : KeyFlag[k] \in f.flags <=> \E a \in D : a.key = k
    BY DEF Built
  <2>2. \A k, l \in DOMAIN KeyFlag : KeyFlag[k] = KeyFlag[l] => k = l
    BY DEF KeyFlag
  <2>3. CASE d.key \in DOMAIN KeyFlag
    <3>1. g.flags = f.flags \cup {KeyFlag[d.key]}
      BY <2>3
    <3> QED
      BY <2>1, <2>2, <2>3, <3>1
  <2>4. CASE d.key \notin DOMAIN KeyFlag
    BY <2>1, <2>4
  <2> QED
    BY <2>3, <2>4
<1>2. g.state_mask = {t \in 0 .. 15 : \A a \in D \cup {d} : LetThrough(a, t)}
  <2>1. f.state_mask = {t \in 0 .. 15 : \A a \in D : LetThrough(a, t)}
    BY DEF Built
  <2> QED
    BY <2>1
<1>3. \A a \in D \cup {d} :
        /\ a.key = "local_port" => g.local_ports = PortSlots(a.items)
        /\ a.key = "remote_port" => g.remote_ports = PortSlots(a.items)
  BY DEF Built
<1>4. \A a \in D \cup {d} :
        /\ a.key = "local_addr" => g.local = AddrSpecOf(a.items[1])
        /\ a.key = "remote_addr" => g.remote = AddrSpecOf(a.items[1])
  BY DEF Built
<1> QED
  BY <1>1, <1>2, <1>3, <1>4 DEF Built

\* Every handler does so with the directive it accepts.
LEMMA BuiltNext ==
  ASSUME NEW D, Built(tmp, D), \A a \in D : IsDirective(a) /\ ~ Mistaken(a),
         NEW d, IsDirective(d),
         \/ ParseFlag(d) \/ ParsePortList(d) \/ ParseExclude(d) \/ ParseIncludeState(d)
         \/ ParseAddr(d) \/ ParseFormat(d) \/ ParseFields(d)
  PROVE  /\ Built(tmp', D \cup {d}) /\ DirectiveOk(d)
         /\ todo' = Tail(todo) /\ UNCHANGED <<input, parsed, out>>
<1>1. DOMAIN tmp = {"flags", "state_mask", "local_ports", "remote_ports", "local", "remote",
                    "field_mask", "format"}
  BY FilterFields DEF Built
<1>2. (\A t : LetThrough(d, t)) => tmp.state_mask = {t \in tmp.state_mask : LetThrough(d, t)}
  OBVIOUS
<1>3. d.key \notin {"exclude", "include_state"} => \A t : LetThrough(d, t)
  BY DEF LetThrough
<1>4. \A k \in DOMAIN KeyFlag : KeyFlag[k] \notin tmp.flags => \A a \in D : a.key # k
  BY DEF Built
<1>5. CASE ParseFlag(d)
  <2>1. d.key \in {"ipv4_only", "ipv6_only"} /\ FlagOf[d.key] = KeyFlag[d.key] /\ d.key \in DOMAIN KeyFlag
    BY <1>5 DEF ParseFlag, FlagOk, FlagOf, KeyFlag
  <2>2. tmp' = [tmp EXCEPT !.flags = @ \cup {KeyFlag[d.key]}]
    BY <1>5, <2>1 DEF ParseFlag, Accept
  <2>3. Built(tmp', D \cup {d})
    BY <1>1, <1>2, <1>3, <2>1, <2>2, FilterFields, BuiltMore
  <2> QED
    BY <1>5, <2>3 DEF ParseFlag, Accept, DirectiveOk
<1>6. CASE ParsePortList(d)
  <2>1. /\ d.key \in {"local_port", "remote_port"} /\ PortFlag[d.key] = KeyFlag[d.key]
        /\ d.key \in DOMAIN KeyFlag /\ \A a \in D : a.key # d.key
    BY <1>4, <1>6 DEF ParsePortList, PortListOk, PortFlag, KeyFlag
  <2>2. CASE d.key = "local_port"
    <3>1. tmp' = [[tmp EXCEPT !.flags = @ \cup {KeyFlag[d.key]}]
                     EXCEPT !.local_ports = PortSlots(d.items)]
      BY <1>6, <2>1, <2>2 DEF ParsePortList, Accept
    <3>2. /\ DOMAIN tmp' = DOMAIN EmptyFilter /\ tmp'.state_mask = tmp.state_mask
          /\ tmp'.flags = tmp.flags \cup {KeyFlag[d.key]}
          /\ tmp'.local_ports = PortSlots(d.items)
          /\ tmp'.remote_ports = tmp.remote_ports /\ tmp'.local = tmp.local
          /\ tmp'.remote = tmp.remote
      BY <1>1, <3>1, FilterFields
    <3>3. Built(tmp', D \cup {d})
      BY <1>2, <1>3, <2>1, <2>2, <3>2, BuiltMore
    <3> QED
      BY <1>6, <3>3 DEF ParsePortList, Accept, DirectiveOk
  <2>3. CASE d.key = "remote_port"
    <3>1. tmp' = [[tmp EXCEPT !.flags = @ \cup {KeyFlag[d.key]}]
                     EXCEPT !.remote_ports = PortSlots(d.items)]
      BY <1>6, <2>1, <2>3 DEF ParsePortList, Accept
    <3>2. /\ DOMAIN tmp' = DOMAIN EmptyFilter /\ tmp'.state_mask = tmp.state_mask
          /\ tmp'.flags = tmp.flags \cup {KeyFlag[d.key]}
          /\ tmp'.remote_ports = PortSlots(d.items)
          /\ tmp'.local_ports = tmp.local_ports /\ tmp'.local = tmp.local
          /\ tmp'.remote = tmp.remote
      BY <1>1, <3>1, FilterFields
    <3>3. Built(tmp', D \cup {d})
      BY <1>2, <1>3, <2>1, <2>3, <3>2, BuiltMore
    <3> QED
      BY <1>6, <3>3 DEF ParsePortList, Accept, DirectiveOk
  <2> QED
    BY <2>1, <2>2, <2>3
<1>7. CASE ParseExclude(d)
  <2>1. d.key = "exclude" /\ d.key \notin DOMAIN KeyFlag
    BY <1>7 DEF ParseExclude, ExcludeOk, KeyFlag
  <2>2. tmp' = [tmp EXCEPT !.state_mask = @ \ StatesOf(d.items)]
    BY <1>7 DEF ParseExclude, Accept
  <2>3. tmp.state_mask \ StatesOf(d.items) = {t \in tmp.state_mask : LetThrough(d, t)}
    BY <2>1 DEF LetThrough
  <2>4. Built(tmp', D \cup {d})
    BY <1>1, <2>1, <2>2, <2>3, FilterFields, BuiltMore
  <2> QED
    BY <1>7, <2>4 DEF ParseExclude, Accept, DirectiveOk
<1>8. CASE ParseIncludeState(d)
  <2>1. d.key = "include_state" /\ d.key \in DOMAIN KeyFlag /\ KeyFlag[d.key] = "STATE_INCLUDE_MODE"
    BY <1>8 DEF ParseIncludeState, IncludeStateOk, KeyFlag
  <2>2. DirectiveOk(d)
    BY <1>8 DEF ParseIncludeState, DirectiveOk
  <2>3. ~ Mistaken(d)
    BY <2>1, <2>2, IncludeAccepted
  <2>4. \A t \in StatesOf(d.items) : t \in 0 .. 15
    <3>1. \A t \in StatesOf(d.items) : t \in 0 .. 10
      BY <2>1, <2>3, NamedStates
    <3> QED
      BY <3>1
  <2>5. tmp.state_mask = 0 .. 15
    BY <1>8 DEF ParseIncludeState, IncludeStateOk
  <2>6. StatesOf(d.items) = {t \in tmp.state_mask : LetThrough(d, t)}
    BY <2>1, <2>4, <2>5 DEF LetThrough
  <2>7. tmp' = [tmp EXCEPT !.state_mask = StatesOf(d.items),
                           !.flags = @ \cup {"STATE_INCLUDE_MODE"}]
    BY <1>8 DEF ParseIncludeState, Accept
  <2>8. Built(tmp', D \cup {d})
    BY <1>1, <2>1, <2>6, <2>7, FilterFields, BuiltMore
  <2> QED
    BY <1>8, <2>2, <2>8 DEF ParseIncludeState, Accept
<1>9. CASE ParseAddr(d)
  <2>1. /\ d.key \in {"local_addr", "remote_addr"} /\ AddrFlag[d.key] = KeyFlag[d.key]
        /\ d.key \in DOMAIN KeyFlag /\ \A a \in D : a.key # d.key
    BY <1>4, <1>9 DEF ParseAddr, AddrOk, AddrFlag, KeyFlag
  <2>2. CASE d.key = "local_addr"
    <3>1. tmp' = [[tmp EXCEPT !.flags = @ \cup {KeyFlag[d.key]}]
                     EXCEPT !.local = AddrSpecOf(d.items[1])]
      BY <1>9, <2>1, <2>2 DEF ParseAddr, Accept
    <3>2. /\ DOMAIN tmp' = DOMAIN EmptyFilter /\ tmp'.state_mask = tmp.state_mask
          /\ tmp'.flags = tmp.flags \cup {KeyFlag[d.key]}
          /\ tmp'.local = AddrSpecOf(d.items[1])
          /\ tmp'.local_ports = tmp.local_ports /\ tmp'.remote_ports = tmp.remote_ports
          /\ tmp'.remote = tmp.remote
      BY <1>1, <3>1, FilterFields
    <3>3. Built(tmp', D \cup {d})
      BY <1>2, <1>3, <2>1, <2>2, <3>2, BuiltMore
    <3> QED
      BY <1>9, <3>3 DEF ParseAddr, Accept, DirectiveOk
  <2>3. CASE d.key = "remote_addr"
    <3>1. tmp' = [[tmp EXCEPT !.flags = @ \cup {KeyFlag[d.key]}]
                     EXCEPT !.remote = AddrSpecOf(d.items[1])]
      BY <1>9, <2>1, <2>3 DEF ParseAddr, Accept
    <3>2. /\ DOMAIN tmp' = DOMAIN EmptyFilter /\ tmp'.state_mask = tmp.state_mask
          /\ tmp'.flags = tmp.flags \cup {KeyFlag[d.key]}
          /\ tmp'.remote = AddrSpecOf(d.items[1])
          /\ tmp'.local_ports = tmp.local_ports /\ tmp'.remote_ports = tmp.remote_ports
          /\ tmp'.local = tmp.local
      BY <1>1, <3>1, FilterFields
    <3>3. Built(tmp', D \cup {d})
      BY <1>2, <1>3, <2>1, <2>3, <3>2, BuiltMore
    <3> QED
      BY <1>9, <3>3 DEF ParseAddr, Accept, DirectiveOk
  <2> QED
    BY <2>1, <2>2, <2>3
<1>10. CASE ParseFormat(d)
  <2>1. d.key = "format" /\ d.key \notin DOMAIN KeyFlag
    BY <1>10 DEF ParseFormat, FormatOk, KeyFlag
  <2>2. tmp' = [tmp EXCEPT !.format = d.items[1]]
    BY <1>10 DEF ParseFormat, Accept
  <2>3. Built(tmp', D \cup {d})
    BY <1>1, <1>2, <1>3, <2>1, <2>2, FilterFields, BuiltMore
  <2> QED
    BY <1>10, <2>3 DEF ParseFormat, Accept, DirectiveOk
<1>11. CASE ParseFields(d)
  <2>1. d.key = "fields" /\ d.key \notin DOMAIN KeyFlag
    BY <1>11 DEF ParseFields, FieldsOk, KeyFlag
  <2>2. PICK m : tmp' = [tmp EXCEPT !.field_mask = m]
    BY <1>11 DEF ParseFields, Accept
  <2>3. Built(tmp', D \cup {d})
    BY <1>1, <1>2, <1>3, <2>1, <2>2, FilterFields, BuiltMore
  <2> QED
    BY <1>11, <2>3 DEF ParseFields, Accept, DirectiveOk
<1> QED
  BY <1>5, <1>6, <1>7, <1>8, <1>9, <1>10, <1>11

---------------------------------------------------------------------------
(* The parser.                                                             *)

Done == Len(input.directives) - Len(todo)
Applied == {input.directives[i] : i \in 1 .. Done}

\* The filter under construction is that of the directives before todo, none of
\* which is mistaken or clashes at once with an earlier one; and why a string
\* was accepted or refused.
ParseInv ==
  /\ input \in Inputs
  /\ parsed \in {"parsing", "accepted", "refused"}
  /\ todo \in Seq(Elements(input.directives)) /\ Len(todo) <= Len(input.directives)
  /\ \A i \in 1 .. Len(todo) : todo[i] = input.directives[Done + i]
  /\ \A i \in 1 .. Done : ~ Mistaken(input.directives[i])
  /\ \A i, j \in 1 .. Done :
       i < j => ~ ClashAtOnce(input.directives[i], input.directives[j])
  /\ Built(tmp, Applied)
  /\ parsed # "accepted" => out = Before
  /\ parsed = "accepted" => Readable /\ todo = <<>> /\ Compatible(tmp) /\ out = tmp
  /\ parsed = "refused" =>
       \/ ~ Readable
       \/ todo # <<>> /\ ~ DirectiveOk(Head(todo))
       \/ todo = <<>> /\ ~ Compatible(tmp)

\* What the assumption says of the string.
LEMMA TheDirectives ==
  ASSUME input \in Inputs
  PROVE  /\ input.directives \in Seq(Elements(input.directives))
         /\ Len(input.directives) \in Nat
         /\ DOMAIN input.directives = 1 .. Len(input.directives)
         /\ Elements(input.directives) = {input.directives[i] : i \in 1 .. Len(input.directives)}
         /\ \A i \in 1 .. Len(input.directives) : IsDirective(input.directives[i])
         /\ input.readable \in BOOLEAN
         /\ TSF_PARSE_MAXDIRECTIVES \in Nat
<1>1. /\ input.directives \in Seq(Elements(input.directives))
      /\ input.readable \in BOOLEAN /\ TSF_PARSE_MAXDIRECTIVES \in Nat
      /\ \A d \in Elements(input.directives) : IsDirective(d)
  BY ParseAssumption
<1>2. /\ Len(input.directives) \in Nat
      /\ DOMAIN input.directives = 1 .. Len(input.directives)
      /\ Elements(input.directives) = {input.directives[i] : i \in 1 .. Len(input.directives)}
  BY <1>1, ItemsAre
<1> QED
  BY <1>1, <1>2

LEMMA ParseInvInit ==
  ASSUME ParseInit
  PROVE  ParseInv
<1>1. /\ input \in Inputs /\ todo = input.directives /\ tmp = EmptyFilter
      /\ parsed = "parsing" /\ out = Before
  BY DEF ParseInit
<1>2. todo \in Seq(Elements(input.directives)) /\ Len(todo) \in Nat /\ Done = 0
  BY <1>1, TheDirectives DEF Done
<1>3. Applied = {} /\ 1 .. Done = {}
  BY <1>2 DEF Applied
<1>4. Built(tmp, Applied)
  <2>1. EmptyFilter.flags = {} /\ EmptyFilter.state_mask = 0 .. 15
    BY DEF EmptyFilter, DefaultFilter
  <2> QED
    BY <1>1, <1>3, <2>1 DEF Built
<1>5. \A i \in 1 .. Len(todo) : todo[i] = input.directives[Done + i]
  BY <1>1, <1>2
<1> QED
  BY <1>1, <1>2, <1>3, <1>4, <1>5 DEF ParseInv

LEMMA DirectiveKeeps ==
  ASSUME ParseInv, ParseDirective
  PROVE  ParseInv'
<1> DEFINE ds == input.directives
           d == Head(todo)
<1>1. /\ input \in Inputs /\ parsed = "parsing" /\ todo # <<>> /\ out = Before
      /\ todo \in Seq(Elements(ds)) /\ Len(todo) <= Len(ds)
      /\ \A i \in 1 .. Len(todo) : todo[i] = ds[Done + i]
      /\ \A i \in 1 .. Done : ~ Mistaken(ds[i])
      /\ \A i, j \in 1 .. Done : i < j => ~ ClashAtOnce(ds[i], ds[j])
      /\ Built(tmp, Applied)
  BY DEF ParseInv, ParseDirective
<1>2. Len(ds) \in Nat /\ \A i \in 1 .. Len(ds) : IsDirective(ds[i])
  BY <1>1, TheDirectives
<1>3. Len(todo) \in Nat \ {0} /\ Done \in 0 .. Len(ds) - 1 /\ Done + 1 \in 1 .. Len(ds)
  BY <1>1, <1>2 DEF Done
<1>4. d = ds[Done + 1] /\ IsDirective(d)
  BY <1>1, <1>2, <1>3
<1>5. 1 .. Done \subseteq 1 .. Len(ds)
  BY <1>2, <1>3
<1>6. \A a \in Applied : IsDirective(a) /\ ~ Mistaken(a)
  BY <1>1, <1>2, <1>5 DEF Applied
<1>7. \/ ParseFlag(d) \/ ParsePortList(d) \/ ParseExclude(d) \/ ParseIncludeState(d)
      \/ ParseAddr(d) \/ ParseFormat(d) \/ ParseFields(d)
  BY DEF ParseDirective
<1> HIDE DEF d
<1>8. /\ Built(tmp', Applied \cup {d}) /\ DirectiveOk(d)
      /\ todo' = Tail(todo) /\ UNCHANGED <<input, parsed, out>>
  BY <1>1, <1>4, <1>6, <1>7, BuiltNext
<1>9. ~ Mistaken(d) /\ \A a \in Applied : ~ ClashAtOnce(a, d)
  BY <1>1, <1>4, <1>6, <1>8, AcceptedMeans
<1>10. /\ todo' \in Seq(Elements(ds)) /\ Len(todo') = Len(todo) - 1
       /\ \A i \in 1 .. Len(todo') : todo'[i] = todo[i + 1]
  BY <1>1, <1>3, <1>8
<1>11. Done' = Done + 1 /\ ds' = ds
  BY <1>2, <1>3, <1>8, <1>10 DEF Done
<1>12. Applied' = Applied \cup {d}
  BY <1>3, <1>4, <1>11 DEF Applied
<1>13. \A i \in 1 .. Len(todo') : todo'[i] = ds[Done' + i]
  <2> SUFFICES ASSUME NEW i \in 1 .. Len(todo') PROVE todo'[i] = ds[Done' + i]
    OBVIOUS
  <2>1. i + 1 \in 1 .. Len(todo)
    BY <1>3, <1>10
  <2>2. Done + (i + 1) = Done' + i
    BY <1>3, <1>10, <1>11
  <2> QED
    BY <1>1, <1>10, <2>1, <2>2
<1>14. \A i \in 1 .. Done' : ~ Mistaken(ds[i])
  BY <1>1, <1>3, <1>4, <1>9, <1>11
<1>15. \A i, j \in 1 .. Done' : i < j => ~ ClashAtOnce(ds[i], ds[j])
  <2> SUFFICES ASSUME NEW i \in 1 .. Done', NEW j \in 1 .. Done', i < j
               PROVE  ~ ClashAtOnce(ds[i], ds[j])
    OBVIOUS
  <2>1. i \in 1 .. Done /\ (j \in 1 .. Done \/ j = Done + 1)
    BY <1>3, <1>11
  <2>2. CASE j = Done + 1
    BY <1>4, <1>9, <2>1, <2>2 DEF Applied
  <2> QED
    BY <1>1, <2>1, <2>2
<1>16. Len(todo') <= Len(ds)
  BY <1>1, <1>2, <1>3, <1>10
<1>17. parsed' = "parsing" /\ out' = Before /\ input' \in Inputs
  BY <1>1, <1>8
<1> QED
  BY <1>8, <1>10, <1>11, <1>12, <1>13, <1>14, <1>15, <1>16, <1>17 DEF ParseInv

\* The other steps change the result only.
LEMMA ResultKeeps ==
  ASSUME ParseInv, Refuse \/ Finish \/ UNCHANGED parseVars
  PROVE  ParseInv'
<1>1. UNCHANGED <<input, todo, tmp>>
  BY DEF Refuse, Finish, parseVars
<1>2. UNCHANGED <<Done, Applied, Readable>>
  BY <1>1 DEF Done, Applied, Readable
<1>3. Built(tmp, Applied)' <=> Built(tmp, Applied)
  BY <1>1, <1>2
<1>4. Compatible(tmp)' <=> Compatible(tmp)
  BY <1>1
<1>5. DirectiveOk(Head(todo))' <=> DirectiveOk(Head(todo))
  BY <1>1 DEF DirectiveOk, FlagOk, PortListOk, ExcludeOk, IncludeStateOk, AddrOk, FormatOk, FieldsOk
<1>6. /\ (parsed # "accepted" => out = Before)'
      /\ (parsed = "accepted" => Readable /\ todo = <<>> /\ Compatible(tmp) /\ out = tmp)'
      /\ (parsed = "refused" =>
            \/ ~ Readable
            \/ todo # <<>> /\ ~ DirectiveOk(Head(todo))
            \/ todo = <<>> /\ ~ Compatible(tmp))'
      /\ parsed' \in {"parsing", "accepted", "refused"}
  <2>1. CASE Refuse
    BY <1>1, <1>2, <1>4, <1>5, <2>1 DEF ParseInv, Refuse
  <2>2. CASE Finish
    BY <1>1, <1>2, <1>4, <1>5, <2>2 DEF ParseInv, Finish
  <2>3. CASE UNCHANGED parseVars
    BY <1>1, <1>2, <1>4, <1>5, <2>3 DEF ParseInv, parseVars
  <2> QED
    BY <2>1, <2>2, <2>3
<1>7. /\ input \in Inputs
      /\ todo \in Seq(Elements(input.directives)) /\ Len(todo) <= Len(input.directives)
      /\ \A i \in 1 .. Len(todo) : todo[i] = input.directives[Done + i]
      /\ \A i \in 1 .. Done : ~ Mistaken(input.directives[i])
      /\ \A i, j \in 1 .. Done :
           i < j => ~ ClashAtOnce(input.directives[i], input.directives[j])
      /\ Built(tmp, Applied)
  BY DEF ParseInv
<1> QED
  BY <1>1, <1>2, <1>3, <1>6, <1>7 DEF ParseInv

---------------------------------------------------------------------------
(* What the finished filter passes.                                        *)

LEMMA ListedSlots ==
  ASSUME NEW items \in Seq(Nat), Len(items) <= TSF_MAX_PORTS,
         \A n \in Elements(items) : n # 0
  PROVE  Listed(PortSlots(items)) = Elements(items)
<1> DEFINE ports == PortSlots(items)
<1>1. /\ Len(items) \in Nat /\ DOMAIN items = 1 .. Len(items)
      /\ Elements(items) = {items[i] : i \in 1 .. Len(items)}
  BY ItemsAre
<1>2. \A l \in 1 .. TSF_MAX_PORTS : ports[l] = IF l \in 1 .. Len(items) THEN items[l] ELSE 0
  BY <1>1 DEF PortSlots
<1>3. \A l \in 1 .. TSF_MAX_PORTS : ports[l] # 0 <=> l \in 1 .. Len(items)
  BY <1>1, <1>2
<1>4. {k \in 1 .. TSF_MAX_PORTS : \A l \in 1 .. k : ports[l] # 0} = 1 .. Len(items)
  <2> HIDE DEF ports
  <2>1. ASSUME NEW k \in 1 .. TSF_MAX_PORTS
        PROVE  (\A l \in 1 .. k : ports[l] # 0) <=> k \in 1 .. Len(items)
    <3>1. k \in 1 .. k /\ \A l \in 1 .. k : l \in 1 .. TSF_MAX_PORTS /\ l <= k
      BY MatchAssumption
    <3> QED
      BY <1>1, <1>3, <3>1
  <2>2. 1 .. Len(items) \subseteq 1 .. TSF_MAX_PORTS
    BY <1>1, MatchAssumption
  <2> QED
    BY <2>1, <2>2
<1>5. Listed(ports) = {ports[j] : j \in 1 .. Len(items)}
  BY <1>4 DEF Listed
<1>6. 1 .. Len(items) \subseteq 1 .. TSF_MAX_PORTS
  BY <1>1, MatchAssumption
<1> HIDE DEF ports
<1>7. \A j \in 1 .. Len(items) : ports[j] = items[j]
  BY <1>2, <1>6
<1> QED
  BY <1>1, <1>5, <1>7 DEF ports

\* What the address check asks of a socket: one of another family passes, and
\* the unspecified IPv6 address stands for every network.
PassesAddr(a, vflag, addr) ==
  (a.family \in vflag /\ (a.family = "v6" => vflag = {"v6"} /\ a.net # Unspecified))
    => InNet(a, addr)

\* What the checks ask of a socket for a directive.
Passes(d, s) ==
  CASE d.key = "local_addr"  -> PassesAddr(d.items[1], s.vflag, s.laddr)
    [] d.key = "remote_addr" -> PassesAddr(d.items[1], s.vflag, s.faddr)
    [] OTHER -> Meets(d, s)

\* For the sockets a directive speaks of that is what it says.
LEMMA PassesMeans ==
  ASSUME NEW d, NEW s, Speaks(d, s),
         d.key \in DOMAIN AddrFlag => d.items[1].prefix \in Nat
  PROVE  Passes(d, s) <=> Meets(d, s)
<1>1. CASE d.key = "local_addr"
  <2>1. /\ d.items[1].family \in s.vflag /\ (d.items[1].family = "v6" => s.vflag = {"v6"})
        /\ d.items[1].net = Unspecified => d.items[1].prefix = 0
        /\ d.items[1].prefix \in Nat
    BY <1>1 DEF Speaks, AddrFlag
  <2>2. d.items[1].net = Unspecified => InNet(d.items[1], s.laddr)
    BY <2>1 DEF InNet
  <2>3. PassesAddr(d.items[1], s.vflag, s.laddr) <=> InNet(d.items[1], s.laddr)
    BY <2>1, <2>2 DEF PassesAddr
  <2> QED
    BY <1>1, <2>3 DEF Passes, Meets
<1>2. CASE d.key = "remote_addr"
  <2>1. /\ d.items[1].family \in s.vflag /\ (d.items[1].family = "v6" => s.vflag = {"v6"})
        /\ d.items[1].net = Unspecified => d.items[1].prefix = 0
        /\ d.items[1].prefix \in Nat
    BY <1>2 DEF Speaks, AddrFlag
  <2>2. d.items[1].net = Unspecified => InNet(d.items[1], s.faddr)
    BY <2>1 DEF InNet
  <2>3. PassesAddr(d.items[1], s.vflag, s.faddr) <=> InNet(d.items[1], s.faddr)
    BY <2>1, <2>2 DEF PassesAddr
  <2> QED
    BY <1>2, <2>3 DEF Passes, Meets
<1>3. CASE d.key \notin {"local_addr", "remote_addr"}
  BY <1>3 DEF Passes
<1> QED
  BY <1>1, <1>2, <1>3

LEMMA AddrMeans ==
  ASSUME NEW a \in [family : {"v4", "v6"}, net : Addresses, prefix : Nat],
         a.prefix <= AddrBits,
         NEW vflag \in SUBSET {"v4", "v6"}, NEW addr \in Addresses
  PROVE  AddrMatches(AddrSpecOf(a), vflag, addr) <=> PassesAddr(a, vflag, addr)
<1> DEFINE spec == AddrSpecOf(a)
<1>1. CASE a.family = "v4"
  <2>1. spec.addr_v4 = a.net /\ spec.mask_v4 = 1 .. a.prefix /\ spec.addr_v6 = Unspecified
    BY <1>1 DEF AddrSpecOf, NoAddr
  <2> HIDE DEF spec
  <2>2. AddrMatches(spec, vflag, addr)
          <=> ("v4" \in vflag => \A i \in 1 .. a.prefix : Bit(addr, i) = Bit(a.net, i))
    BY <2>1 DEF AddrMatches, MatchV4Mask, IsUnspecified
  <2>3. PassesAddr(a, vflag, addr)
          <=> ("v4" \in vflag => \A i \in 1 .. a.prefix : Bit(addr, i) = Bit(a.net, i))
    BY <1>1 DEF PassesAddr, InNet
  <2> QED
    BY <2>2, <2>3 DEF spec
<1>2. CASE a.family = "v6"
  <2>1. spec.addr_v4 = Unspecified /\ spec.mask_v4 = {}
        /\ spec.addr_v6 = a.net /\ spec.prefix_v6 = a.prefix
    BY <1>2 DEF AddrSpecOf, NoAddr
  <2> HIDE DEF spec
  <2>2. a.prefix \in 0 .. AddrBits /\ a.net \in Addresses
    BY MatchAssumption DEF AddrBits
  <2>3. MatchV6Prefix(addr, a.net, a.prefix)
          <=> \A i \in 1 .. a.prefix : Bit(addr, i) = Bit(a.net, i)
    BY <2>2, PrefixMatches
  <2>4. AddrMatches(spec, vflag, addr)
          <=> ("v4" \notin vflag /\ "v6" \in vflag
                 => a.net = Unspecified \/ MatchV6Prefix(addr, a.net, a.prefix))
    BY <2>1 DEF AddrMatches, MatchV4Mask, IsUnspecified
  <2>5. vflag = {"v6"} <=> "v4" \notin vflag /\ "v6" \in vflag
    OBVIOUS
  <2>6. PassesAddr(a, vflag, addr)
          <=> (vflag = {"v6"} /\ a.net # Unspecified
                 => \A i \in 1 .. a.prefix : Bit(addr, i) = Bit(a.net, i))
    BY <1>2 DEF PassesAddr, InNet
  <2> QED
    BY <2>3, <2>4, <2>5, <2>6 DEF spec
<1> QED
  BY <1>1, <1>2

\* What an address directive that is not mistaken gives.
LEMMA AddrItem ==
  ASSUME NEW d, d.key \in DOMAIN AddrFlag, IsDirective(d), ~ Mistaken(d)
  PROVE  /\ d.items[1] \in [family : {"v4", "v6"}, net : Addresses, prefix : Nat]
         /\ d.items[1].prefix <= AddrBits
         /\ AddrSpecOf(d.items[1]).addr_v4 = Unspecified <=> ~ Names(d, "v4")
         /\ AddrSpecOf(d.items[1]).addr_v6 = Unspecified <=> ~ Names(d, "v6")
<1> DEFINE S == [family : {"v4", "v6"}, net : Addresses, prefix : Nat]
           a == d.items[1]
<1>1. d.value = "list" /\ ~ \E x \in Elements(d.items) : x.prefix > AddrBits
  BY DEF Mistaken, FlagOf, AddrFlag
<1>2. d.items \in Seq(S) /\ Len(d.items) = 1
  BY <1>1 DEF IsDirective, Items, PortFlag, AddrFlag
<1>3. a \in S /\ a \in Elements(d.items)
  <2> HIDE DEF S
  <2>1. Elements(d.items) = {d.items[i] : i \in 1 .. 1} /\ Elements(d.items) \subseteq S
    BY <1>2, ItemsAre
  <2> QED
    BY <2>1
<1>4. a.prefix <= AddrBits
  BY <1>1, <1>3, MatchAssumption DEF AddrBits
<1>5. d.key \in {"local_addr", "remote_addr"}
  BY DEF AddrFlag
<1>6. Names(d, "v4") <=> a.family = "v4" /\ a.net # Unspecified
  BY <1>5 DEF Names
<1>7. Names(d, "v6") <=> a.family = "v6" /\ a.net # Unspecified
  BY <1>5 DEF Names
<1>8. /\ AddrSpecOf(a).addr_v4 = (IF a.family = "v4" THEN a.net ELSE Unspecified)
      /\ AddrSpecOf(a).addr_v6 = (IF a.family = "v4" THEN Unspecified ELSE a.net)
  BY DEF AddrSpecOf, NoAddr
<1> QED
  BY <1>3, <1>4, <1>6, <1>7, <1>8

\* The clashes that are found at the end.
ClashAtEnd(d, e) ==
  \/ {d.key, e.key} = {"ipv4_only", "ipv6_only"}
  \/ \E x, y \in {d, e} : \/ x.key = "ipv4_only" /\ Names(y, "v6")
                          \/ x.key = "ipv6_only" /\ Names(y, "v4")

LEMMA CompatibleMeans ==
  ASSUME NEW D, NEW f, Built(f, D), \A a \in D : IsDirective(a) /\ ~ Mistaken(a)
  PROVE  Compatible(f) <=> \A d, e \in D : ~ ClashAtEnd(d, e)
<1> DEFINE Has(k) == \E d \in D : d.key = k
<1>1. /\ "IPV4_ONLY" \in f.flags <=> Has("ipv4_only")
      /\ "IPV6_ONLY" \in f.flags <=> Has("ipv6_only")
      /\ "LOCAL_ADDR_MATCH" \in f.flags <=> Has("local_addr")
      /\ "REMOTE_ADDR_MATCH" \in f.flags <=> Has("remote_addr")
  <2>1. \A k \in DOMAIN KeyFlag : KeyFlag[k] \in f.flags <=> Has(k)
    BY DEF Built
  <2> HIDE DEF Has
  <2> QED
    BY <2>1 DEF KeyFlag
<1>2. \A d \in D : d.key = "local_addr" =>
        /\ f.local.addr_v4 = Unspecified <=> ~ Names(d, "v4")
        /\ f.local.addr_v6 = Unspecified <=> ~ Names(d, "v6")
  <2> SUFFICES ASSUME NEW d \in D, d.key = "local_addr"
               PROVE  /\ f.local.addr_v4 = Unspecified <=> ~ Names(d, "v4")
                      /\ f.local.addr_v6 = Unspecified <=> ~ Names(d, "v6")
    OBVIOUS
  <2>1. f.local = AddrSpecOf(d.items[1]) /\ d.key \in DOMAIN AddrFlag
    BY DEF Built, AddrFlag
  <2>2. /\ AddrSpecOf(d.items[1]).addr_v4 = Unspecified <=> ~ Names(d, "v4")
        /\ AddrSpecOf(d.items[1]).addr_v6 = Unspecified <=> ~ Names(d, "v6")
    BY <2>1, AddrItem
  <2> QED
    BY <2>1, <2>2
<1>3. \A d \in D : d.key = "remote_addr" =>
        /\ f.remote.addr_v4 = Unspecified <=> ~ Names(d, "v4")
        /\ f.remote.addr_v6 = Unspecified <=> ~ Names(d, "v6")
  <2> SUFFICES ASSUME NEW d \in D, d.key = "remote_addr"
               PROVE  /\ f.remote.addr_v4 = Unspecified <=> ~ Names(d, "v4")
                      /\ f.remote.addr_v6 = Unspecified <=> ~ Names(d, "v6")
    OBVIOUS
  <2>1. f.remote = AddrSpecOf(d.items[1]) /\ d.key \in DOMAIN AddrFlag
    BY DEF Built, AddrFlag
  <2>2. /\ AddrSpecOf(d.items[1]).addr_v4 = Unspecified <=> ~ Names(d, "v4")
        /\ AddrSpecOf(d.items[1]).addr_v6 = Unspecified <=> ~ Names(d, "v6")
    BY <2>1, AddrItem
  <2> QED
    BY <2>1, <2>2
<1>4. \A d, family : Names(d, family) => d.key \in {"local_addr", "remote_addr"}
  BY DEF Names
<1>5. Compatible(f)
        <=> /\ ~ (Has("ipv4_only") /\ Has("ipv6_only"))
            /\ Has("ipv6_only") => \A d \in D : ~ Names(d, "v4")
            /\ Has("ipv4_only") => \A d \in D : ~ Names(d, "v6")
  <2>1. Compatible(f)
          <=> /\ ~ (Has("ipv4_only") /\ Has("ipv6_only"))
              /\ Has("ipv6_only") =>
                   /\ Has("local_addr") => f.local.addr_v4 = Unspecified
                   /\ Has("remote_addr") => f.remote.addr_v4 = Unspecified
              /\ Has("ipv4_only") =>
                   /\ Has("local_addr") => f.local.addr_v6 = Unspecified
                   /\ Has("remote_addr") => f.remote.addr_v6 = Unspecified
    <3> HIDE DEF Has
    <3> QED
      BY <1>1 DEF Compatible, IsUnspecified
  <2>2. (\A d \in D : ~ Names(d, "v4"))
          <=> /\ Has("local_addr") => f.local.addr_v4 = Unspecified
              /\ Has("remote_addr") => f.remote.addr_v4 = Unspecified
    BY <1>2, <1>3, <1>4
  <2>3. (\A d \in D : ~ Names(d, "v6"))
          <=> /\ Has("local_addr") => f.local.addr_v6 = Unspecified
              /\ Has("remote_addr") => f.remote.addr_v6 = Unspecified
    BY <1>2, <1>3, <1>4
  <2> HIDE DEF Has
  <2> QED
    BY <2>1, <2>2, <2>3
<1>6. \A d, e : {d.key, e.key} = {"ipv4_only", "ipv6_only"}
                  <=> \/ d.key = "ipv4_only" /\ e.key = "ipv6_only"
                      \/ d.key = "ipv6_only" /\ e.key = "ipv4_only"
  OBVIOUS
<1>7. (\A d, e \in D : ~ ClashAtEnd(d, e))
        <=> \A d, e \in D : /\ ~ (d.key = "ipv4_only" /\ e.key = "ipv6_only")
                            /\ ~ (d.key = "ipv4_only" /\ Names(e, "v6"))
                            /\ ~ (d.key = "ipv6_only" /\ Names(e, "v4"))
  BY <1>6 DEF ClashAtEnd
<1> QED
  BY <1>5, <1>7

LEMMA ClashIs ==
  ASSUME NEW d, NEW e
  PROVE  /\ Clash(d, e) <=> ClashAtOnce(d, e) \/ ClashAtEnd(d, e)
         /\ ClashAtEnd(d, e) <=> ClashAtEnd(e, d)
         /\ ~ ClashAtEnd(d, d)
<1>1. Clash(d, e) <=> ClashAtOnce(d, e) \/ ClashAtEnd(d, e)
  BY DEF Clash, ClashAtOnce, ClashAtEnd
<1>2. ClashAtEnd(d, e) <=> ClashAtEnd(e, d)
  BY DEF ClashAtEnd
<1>3. ~ ClashAtEnd(d, d)
  BY DEF ClashAtEnd, Names
<1> QED
  BY <1>1, <1>2, <1>3

\* No check charges a socket.
LEMMA EmitMeans ==
  ASSUME NEW f, NEW s
  PROVE  Verdict(f, s, 1, 1, Root) = "emit"
           <=> \A r \in {"ipver", "state", "port", "addr"} : ~ Fails(r, f, s, 1, 1, Root)
<1> DEFINE failing == {k \in DOMAIN SkipReasons : Fails(SkipReasons[k], f, s, 1, 1, Root)}
<1>1. /\ DOMAIN SkipReasons = 1 .. 6
      /\ SkipReasons[1] = "gencnt" /\ SkipReasons[2] = "ipver" /\ SkipReasons[3] = "state"
      /\ SkipReasons[4] = "cred" /\ SkipReasons[5] = "port" /\ SkipReasons[6] = "addr"
  BY DEF SkipReasons
<1>2. ~ Fails("gencnt", f, s, 1, 1, Root) /\ ~ Fails("cred", f, s, 1, 1, Root)
  BY DEF Fails, CanSee
<1>3. \A k \in 1 .. 6 : k = 1 \/ k = 2 \/ k = 3 \/ k = 4 \/ k = 5 \/ k = 6
  OBVIOUS
<1>4. failing = {} <=> \A r \in {"ipver", "state", "port", "addr"} : ~ Fails(r, f, s, 1, 1, Root)
  <2>1. failing = {} <=> \A k \in 1 .. 6 : ~ Fails(SkipReasons[k], f, s, 1, 1, Root)
    BY <1>1
  <2>2. (\A k \in 1 .. 6 : ~ Fails(SkipReasons[k], f, s, 1, 1, Root))
          <=> /\ ~ Fails("gencnt", f, s, 1, 1, Root) /\ ~ Fails("ipver", f, s, 1, 1, Root)
              /\ ~ Fails("state", f, s, 1, 1, Root) /\ ~ Fails("cred", f, s, 1, 1, Root)
              /\ ~ Fails("port", f, s, 1, 1, Root) /\ ~ Fails("addr", f, s, 1, 1, Root)
    <3>1. 1 \in 1 .. 6 /\ 2 \in 1 .. 6 /\ 3 \in 1 .. 6 /\ 4 \in 1 .. 6 /\ 5 \in 1 .. 6 /\ 6 \in 1 .. 6
      OBVIOUS
    <3> QED
      BY <1>1, <1>3, <3>1, Zenon
  <2> HIDE DEF failing
  <2> QED
    BY <1>2, <2>1, <2>2
<1>5. failing # {} => Min(failing) \in failing
  <2>1. failing \in SUBSET (1 .. 6)
    BY <1>1
  <2> HIDE DEF failing
  <2>2. failing # {} => \E x \in failing : \A y \in failing : x <= y
    BY <2>1, LeastOf
  <2> QED
    BY <2>2 DEF Min
<1>6. \A k \in failing : SkipReasons[k] # "emit"
  BY <1>1, <1>3
<1>7. Verdict(f, s, 1, 1, Root) = IF failing = {} THEN "emit" ELSE SkipReasons[Min(failing)]
  BY DEF Verdict
<1> HIDE DEF failing
<1> QED
  BY <1>4, <1>5, <1>6, <1>7

LEMMA PortsMean ==
  ASSUME NEW d, d.key \in DOMAIN PortFlag, IsDirective(d), ~ Mistaken(d)
  PROVE  Listed(PortSlots(d.items)) = Elements(d.items)
<1>1. /\ ~ (Len(d.items) > TSF_MAX_PORTS)
      /\ ~ \E n \in Elements(d.items) : n < 1 \/ n > MaxPort
  BY DEF Mistaken, FlagOf, PortFlag
<1>2. d.items \in Seq(Nat)
  BY DEF IsDirective, Items
<1>3. Len(d.items) \in Nat /\ TSF_MAX_PORTS \in Nat
  BY <1>2, ItemsAre, MatchAssumption
<1>4. Len(d.items) <= TSF_MAX_PORTS /\ \A n \in Elements(d.items) : n # 0
  BY <1>1, <1>3
<1> QED
  BY <1>2, <1>4, ListedSlots

\* The finished filter passes the sockets that meet every directive.
LEMMA VerdictMeans ==
  ASSUME NEW D, NEW f, Built(f, D), \A a \in D : IsDirective(a) /\ ~ Mistaken(a),
         NEW s \in Sockets
  PROVE  Verdict(f, s, 1, 1, Root) = "emit" <=> \A d \in D : Passes(d, s)
<1> DEFINE Has(k) == \E d \in D : d.key = k
           F(r) == Fails(r, f, s, 1, 1, Root)
<1>1. /\ s.vflag \in SUBSET {"v4", "v6"} /\ s.t_state \in 0 .. 15
      /\ s.laddr \in Addresses /\ s.faddr \in Addresses
  <2>1. s.t_state \in 0 .. 10
    BY ParseAssumption
  <2> QED
    BY <2>1, ParseAssumption
<1>2. /\ "IPV4_ONLY" \in f.flags <=> Has("ipv4_only")
      /\ "IPV6_ONLY" \in f.flags <=> Has("ipv6_only")
      /\ "LOCAL_PORT_MATCH" \in f.flags <=> Has("local_port")
      /\ "REMOTE_PORT_MATCH" \in f.flags <=> Has("remote_port")
      /\ "LOCAL_ADDR_MATCH" \in f.flags <=> Has("local_addr")
      /\ "REMOTE_ADDR_MATCH" \in f.flags <=> Has("remote_addr")
  <2>1. \A k \in DOMAIN KeyFlag : KeyFlag[k] \in f.flags <=> Has(k)
    BY DEF Built
  <2> HIDE DEF Has
  <2> QED
    BY <2>1 DEF KeyFlag
<1>3. ~ F("ipver") <=> \A d \in D : d.key \in {"ipv4_only", "ipv6_only"} => Passes(d, s)
  <2>1. ~ F("ipver") <=> /\ Has("ipv4_only") => "v4" \in s.vflag
                         /\ Has("ipv6_only") => "v6" \in s.vflag
    BY <1>2 DEF Fails
  <2>2. \A d : /\ d.key = "ipv4_only" => (Passes(d, s) <=> "v4" \in s.vflag)
               /\ d.key = "ipv6_only" => (Passes(d, s) <=> "v6" \in s.vflag)
    BY DEF Passes, Meets
  <2> HIDE DEF F
  <2> QED
    BY <2>1, <2>2
<1>4. ~ F("state") <=> \A d \in D : d.key \in {"exclude", "include_state"} => Passes(d, s)
  <2>1. f.state_mask = {t \in 0 .. 15 : \A d \in D : LetThrough(d, t)}
    BY DEF Built
  <2>2. ~ F("state") <=> s.t_state \in f.state_mask
    BY DEF Fails
  <2>3. ~ F("state") <=> \A d \in D : LetThrough(d, s.t_state)
    BY <1>1, <2>1, <2>2
  <2>4. \A d : d.key = "exclude" =>
          (Passes(d, s) <=> \A name \in Elements(d.items) : s.t_state # StateOf[name])
    BY DEF Passes, Meets
  <2>5. \A d : d.key = "include_state" =>
          (Passes(d, s) <=> \E name \in Elements(d.items) : s.t_state = StateOf[name])
    BY DEF Passes, Meets
  <2>6. \A d : s.t_state \in StatesOf(d.items)
                 <=> \E name \in Elements(d.items) : s.t_state = StateOf[name]
    BY DEF StatesOf
  <2>7. \A d : LetThrough(d, s.t_state)
                 <=> (d.key \in {"exclude", "include_state"} => Passes(d, s))
    BY <2>4, <2>5, <2>6 DEF LetThrough
  <2> HIDE DEF F
  <2> QED
    BY <2>3, <2>7
<1>5. ~ F("port") <=> \A d \in D : d.key \in {"local_port", "remote_port"} => Passes(d, s)
  <2>1. ~ F("port") <=> /\ Has("local_port") => s.lport \in Listed(f.local_ports)
                        /\ Has("remote_port") => s.fport \in Listed(f.remote_ports)
    BY <1>2 DEF Fails
  <2>2. \A d \in D : d.key = "local_port" => (Passes(d, s) <=> s.lport \in Listed(f.local_ports))
    <3> SUFFICES ASSUME NEW d \in D, d.key = "local_port"
                 PROVE  Passes(d, s) <=> s.lport \in Listed(f.local_ports)
      OBVIOUS
    <3>1. f.local_ports = PortSlots(d.items) /\ d.key \in DOMAIN PortFlag
      BY DEF Built, PortFlag
    <3>2. Listed(f.local_ports) = Elements(d.items)
      BY <3>1, PortsMean
    <3> QED
      BY <3>2 DEF Passes, Meets
  <2>3. \A d \in D : d.key = "remote_port" => (Passes(d, s) <=> s.fport \in Listed(f.remote_ports))
    <3> SUFFICES ASSUME NEW d \in D, d.key = "remote_port"
                 PROVE  Passes(d, s) <=> s.fport \in Listed(f.remote_ports)
      OBVIOUS
    <3>1. f.remote_ports = PortSlots(d.items) /\ d.key \in DOMAIN PortFlag
      BY DEF Built, PortFlag
    <3>2. Listed(f.remote_ports) = Elements(d.items)
      BY <3>1, PortsMean
    <3> QED
      BY <3>2 DEF Passes, Meets
  <2> HIDE DEF F
  <2> QED
    BY <2>1, <2>2, <2>3
<1>6. ~ F("addr") <=> \A d \in D : d.key \in {"local_addr", "remote_addr"} => Passes(d, s)
  <2>1. ~ F("addr") <=> /\ Has("local_addr") => AddrMatches(f.local, s.vflag, s.laddr)
                        /\ Has("remote_addr") => AddrMatches(f.remote, s.vflag, s.faddr)
    BY <1>2 DEF Fails
  <2>2. \A d \in D : d.key = "local_addr" =>
          (Passes(d, s) <=> AddrMatches(f.local, s.vflag, s.laddr))
    <3> SUFFICES ASSUME NEW d \in D, d.key = "local_addr"
                 PROVE  Passes(d, s) <=> AddrMatches(f.local, s.vflag, s.laddr)
      OBVIOUS
    <3>1. f.local = AddrSpecOf(d.items[1]) /\ d.key \in DOMAIN AddrFlag
      BY DEF Built, AddrFlag
    <3>2. /\ d.items[1] \in [family : {"v4", "v6"}, net : Addresses, prefix : Nat]
          /\ d.items[1].prefix <= AddrBits
      BY <3>1, AddrItem
    <3>3. AddrMatches(f.local, s.vflag, s.laddr) <=> PassesAddr(d.items[1], s.vflag, s.laddr)
      BY <1>1, <3>1, <3>2, AddrMeans
    <3> QED
      BY <3>3 DEF Passes, Meets
  <2>3. \A d \in D : d.key = "remote_addr" =>
          (Passes(d, s) <=> AddrMatches(f.remote, s.vflag, s.faddr))
    <3> SUFFICES ASSUME NEW d \in D, d.key = "remote_addr"
                 PROVE  Passes(d, s) <=> AddrMatches(f.remote, s.vflag, s.faddr)
      OBVIOUS
    <3>1. f.remote = AddrSpecOf(d.items[1]) /\ d.key \in DOMAIN AddrFlag
      BY DEF Built, AddrFlag
    <3>2. /\ d.items[1] \in [family : {"v4", "v6"}, net : Addresses, prefix : Nat]
          /\ d.items[1].prefix <= AddrBits
      BY <3>1, AddrItem
    <3>3. AddrMatches(f.remote, s.vflag, s.faddr) <=> PassesAddr(d.items[1], s.vflag, s.faddr)
      BY <1>1, <3>1, <3>2, AddrMeans
    <3> QED
      BY <3>3 DEF Passes, Meets
  <2> HIDE DEF F
  <2> QED
    BY <2>1, <2>2, <2>3
<1>7. \A d : d.key \notin {"ipv4_only", "ipv6_only", "exclude", "include_state", "local_port",
                           "remote_port", "local_addr", "remote_addr"} => Passes(d, s)
  BY DEF Passes, Meets
<1>8. Verdict(f, s, 1, 1, Root) = "emit"
        <=> ~ F("ipver") /\ ~ F("state") /\ ~ F("port") /\ ~ F("addr")
  <2>1. Verdict(f, s, 1, 1, Root) = "emit" <=> \A r \in {"ipver", "state", "port", "addr"} : ~ F(r)
    BY EmitMeans
  <2> HIDE DEF F
  <2> QED
    BY <2>1
<1> HIDE DEF F
<1> QED
  BY <1>3, <1>4, <1>5, <1>6, <1>7, <1>8

---------------------------------------------------------------------------
(* The theorem.                                                            *)

LEMMA MeaningFollows ==
  ASSUME ParseInv
  PROVE  FilterMeansAll
<1> DEFINE ds == input.directives
<1>1. /\ input \in Inputs
      /\ parsed \in {"parsing", "accepted", "refused"}
      /\ todo \in Seq(Elements(ds)) /\ Len(todo) <= Len(ds)
      /\ \A i \in 1 .. Len(todo) : todo[i] = ds[Done + i]
      /\ \A i \in 1 .. Done : ~ Mistaken(ds[i])
      /\ \A i, j \in 1 .. Done : i < j => ~ ClashAtOnce(ds[i], ds[j])
      /\ Built(tmp, Applied)
      /\ parsed # "accepted" => out = Before
      /\ parsed = "accepted" => Readable /\ todo = <<>> /\ Compatible(tmp) /\ out = tmp
      /\ parsed = "refused" =>
           \/ ~ Readable
           \/ todo # <<>> /\ ~ DirectiveOk(Head(todo))
           \/ todo = <<>> /\ ~ Compatible(tmp)
  BY DEF ParseInv
<1>2. /\ Len(ds) \in Nat /\ DOMAIN ds = 1 .. Len(ds)
      /\ Elements(ds) = {ds[i] : i \in 1 .. Len(ds)}
      /\ \A i \in 1 .. Len(ds) : IsDirective(ds[i])
      /\ TSF_PARSE_MAXDIRECTIVES \in Nat
  BY <1>1, TheDirectives
<1>3. Len(todo) \in Nat /\ Done \in 0 .. Len(ds) /\ 1 .. Done \subseteq 1 .. Len(ds)
  BY <1>1, <1>2 DEF Done
<1>4. \A a \in Applied : IsDirective(a) /\ ~ Mistaken(a)
  BY <1>1, <1>2, <1>3 DEF Applied
<1>5. todo = <<>> => Done = Len(ds) /\ Applied = Elements(ds)
  BY <1>2, <1>3 DEF Done, Applied
<1>6. Acceptable <=> /\ Readable
                     /\ \A i \in 1 .. Len(ds) : ~ Mistaken(ds[i])
                     /\ \A i, j \in 1 .. Len(ds) : i < j => ~ Clash(ds[i], ds[j])
  BY <1>2 DEF Acceptable, Readable
<1>7. ASSUME todo = <<>>
      PROVE  Compatible(tmp) <=> \A i, j \in 1 .. Len(ds) : i < j => ~ ClashAtEnd(ds[i], ds[j])
  <2>1. Compatible(tmp) <=> \A i, j \in 1 .. Len(ds) : ~ ClashAtEnd(ds[i], ds[j])
    <3>1. Compatible(tmp) <=> \A d, e \in Elements(ds) : ~ ClashAtEnd(d, e)
      BY <1>1, <1>4, <1>5, <1>7, CompatibleMeans
    <3> QED
      BY <1>2, <3>1
  <2>2. ASSUME \A i, j \in 1 .. Len(ds) : i < j => ~ ClashAtEnd(ds[i], ds[j]),
               NEW i \in 1 .. Len(ds), NEW j \in 1 .. Len(ds)
        PROVE  ~ ClashAtEnd(ds[i], ds[j])
    <3>1. i < j \/ j < i \/ i = j
      OBVIOUS
    <3>2. CASE i < j
      BY <2>2, <3>2
    <3>3. CASE j < i
      BY <2>2, <3>3, ClashIs
    <3>4. CASE i = j
      BY <3>4, ClashIs
    <3> QED
      BY <3>1, <3>2, <3>3, <3>4
  <2> QED
    BY <2>1, <2>2
<1>8. ASSUME todo = <<>>, Readable
      PROVE  Acceptable <=> Compatible(tmp)
  <2>1. \A i, j \in 1 .. Len(ds) :
          Clash(ds[i], ds[j]) <=> ClashAtOnce(ds[i], ds[j]) \/ ClashAtEnd(ds[i], ds[j])
    BY ClashIs
  <2> QED
    BY <1>1, <1>5, <1>6, <1>7, <1>8, <2>1
<1>9. parsed = "accepted" => Acceptable
  BY <1>1, <1>8
<1>10. ASSUME parsed = "refused", input.readable, Acceptable
       PROVE  FALSE
  <2>1. Readable
    BY <1>6, <1>10
  <2>2. CASE todo # <<>> /\ ~ DirectiveOk(Head(todo))
    <3>1. Len(todo) \in Nat \ {0} /\ Head(todo) = ds[Done + 1] /\ Done + 1 \in 1 .. Len(ds)
      BY <1>1, <1>2, <1>3, <2>2 DEF Done
    <3>2. IsDirective(ds[Done + 1]) /\ ~ Mistaken(ds[Done + 1])
      BY <1>2, <1>6, <1>10, <3>1
    <3>3. PICK a \in Applied : ClashAtOnce(a, ds[Done + 1])
      BY <1>1, <1>4, <2>2, <3>1, <3>2, AcceptedMeans
    <3>4. PICK i \in 1 .. Done : a = ds[i]
      BY DEF Applied
    <3>5. i \in 1 .. Len(ds) /\ i < Done + 1
      BY <1>3
    <3> QED
      BY <1>6, <1>10, <3>1, <3>3, <3>4, <3>5, ClashIs
  <2>3. CASE todo = <<>> /\ ~ Compatible(tmp)
    BY <1>8, <1>10, <2>1, <2>3
  <2> QED
    BY <1>1, <1>10, <2>1, <2>2, <2>3
<1>11. ASSUME parsed = "accepted", NEW s \in Sockets
       PROVE  /\ Verdict(out, s, 1, 1, Root) = "emit"
                   => \A d \in Elements(ds) : Speaks(d, s) => Meets(d, s)
              /\ (\A d \in Elements(ds) : Speaks(d, s) /\ Meets(d, s))
                   => Verdict(out, s, 1, 1, Root) = "emit"
  <2>1. out = tmp /\ Applied = Elements(ds)
    BY <1>1, <1>5, <1>11
  <2>2. Verdict(tmp, s, 1, 1, Root) = "emit" <=> \A d \in Applied : Passes(d, s)
    BY <1>1, <1>4, VerdictMeans
  <2>3. ASSUME NEW d \in Applied, Speaks(d, s) PROVE Passes(d, s) <=> Meets(d, s)
    <3>1. d.key \in DOMAIN AddrFlag => d.items[1].prefix \in Nat
      BY <1>4, AddrItem
    <3> QED
      BY <2>3, <3>1, PassesMeans
  <2> QED
    BY <2>1, <2>2, <2>3
<1> QED
  BY <1>1, <1>9, <1>10, <1>11 DEF FilterMeansAll

\* A filter string that is not disputed is refused exactly when one of its
\* directives is mistaken or two of them clash; a socket the filter of an
\* accepted one emits meets every directive that speaks of it, and one that
\* all of them speak of and that meets them is emitted; and a string that is
\* refused leaves the caller's filter as it was (tsf_parse_filter_string and
\* the skips of tcpstats_read): for addresses of any number of bytes of any
\* width, any number of ports and directives, and every string and socket.
THEOREM FilterMeansEveryDirective == ParseSpec => []FilterMeansAll
<1>1. ParseInit => ParseInv
  BY ParseInvInit
<1>2. ParseInv /\ [ParseNext]_parseVars => ParseInv'
  BY DirectiveKeeps, ResultKeeps DEF ParseNext
<1>3. ParseInv => FilterMeansAll
  BY MeaningFollows
<1> QED
  BY <1>1, <1>2, <1>3, PTL DEF ParseSpec
============================================================================
