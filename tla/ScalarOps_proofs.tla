----------------------------- MODULE ScalarOps_proofs -----------------------------
(* That the operators on scalars compute what the language defines, for integers and    *)
(* pointers of any width and floating-point numbers of any precision; and so does every *)
(* program that is made of them.                                                        *)
EXTENDS ScalarOps, FunctionTheorems, FiniteSetTheorems, WellFoundedInduction, TLAPS

(* ---------------------------------- powers of two ----------------------------------- *)

(* A non-empty set of naturals has a least element: the induction of the proofs below.   *)
LEMMA LeastNatural ==
    ASSUME NEW S, S \subseteq Nat, S # {}
    PROVE  \E least \in S : \A n \in S : ~(n < least)
<1>1. \E least \in S : \A n \in S : ~(<<n, least>> \in OpToRel(<, Nat))
  BY WFMin, NatLessThanWellFounded, Zenon
<1> QED BY <1>1 DEF OpToRel

(* The subsets of a set are counted by a power of two, which is all that the provers are  *)
(* told about powers: a set with one more element has twice as many subsets.             *)
LEMMA Subsets ==
    ASSUME NEW n \in Nat
    PROVE  \E S : /\ IsFiniteSet(S) /\ Cardinality(S) = n /\ n + 1 \notin S
                  /\ IsFiniteSet(SUBSET S) /\ Cardinality(SUBSET S) = 2 ^ n
<1>1. PICK S : S = 1 .. n
  OBVIOUS
<1>2. IsFiniteSet(S) /\ Cardinality(S) = n /\ n + 1 \notin S
  <2>1. ~(1 > n) => n - 1 + 1 = n
    OBVIOUS
  <2>2. 1 > n => n = 0
    OBVIOUS
  <2>3. IsFiniteSet(S) /\ Cardinality(S) = IF 1 > n THEN 0 ELSE n - 1 + 1
    BY <1>1, FS_Interval
  <2> QED BY <1>1, <2>1, <2>2, <2>3
<1> QED BY <1>2, FS_SUBSET

LEMMA PowerIs ==
    ASSUME NEW k \in Nat
    PROVE  2 ^ k \in Nat /\ 2 ^ k > 0 /\ 2 ^ (k + 1) = 2 * 2 ^ k
<1>1. PICK S : /\ IsFiniteSet(S) /\ Cardinality(S) = k /\ k + 1 \notin S
               /\ IsFiniteSet(SUBSET S) /\ Cardinality(SUBSET S) = 2 ^ k
  BY Subsets
<1>2. 2 ^ k \in Nat /\ 2 ^ k > 0
  <2>1. Cardinality(SUBSET S) \in Nat /\ Cardinality(SUBSET S) # 0
    <3>1. SUBSET S # {}
      OBVIOUS
    <3> QED BY <1>1, <3>1, FS_CardinalityType, FS_EmptySet
  <2> QED BY <1>1, <2>1
<1>3. PICK top : top = k + 1
  OBVIOUS
<1>4. PICK T : T = S \cup {top}
  OBVIOUS
<1>5. IsFiniteSet(T) /\ Cardinality(T) = k + 1
  BY <1>1, <1>3, <1>4, FS_AddElement
<1>6. IsFiniteSet(SUBSET T) /\ Cardinality(SUBSET T) = 2 ^ (k + 1)
  BY <1>5, FS_SUBSET
<1>7. PICK new : new = (SUBSET T) \ (SUBSET S)
  OBVIOUS
<1>8. PICK f : f = [A \in SUBSET S |-> A \cup {top}]
  OBVIOUS
<1>9. f \in Bijection(SUBSET S, new)
  <2>1. \A A \in SUBSET S : A \cup {top} \in new
    BY <1>1, <1>3, <1>4, <1>7
  <2>2. f \in [SUBSET S -> new]
    BY <1>8, <2>1
  <2>3. ASSUME NEW A \in SUBSET S, NEW B \in SUBSET S, f[A] = f[B] PROVE A = B
    <3>1. A \cup {top} = B \cup {top} /\ top \notin A /\ top \notin B
      BY <1>1, <1>3, <1>8, <2>3
    <3>2. A = (A \cup {top}) \ {top} /\ B = (B \cup {top}) \ {top}
      BY <3>1
    <3> QED BY <3>1, <3>2
  <2>4. ASSUME NEW B \in new PROVE \E A \in SUBSET S : f[A] = B
    <3>1. top \in B /\ B \subseteq T
      BY <1>4, <1>7
    <3>2. PICK A : A = B \ {top}
      OBVIOUS
    <3>3. A \in SUBSET S /\ A \cup {top} = B
      BY <1>4, <3>1, <3>2
    <3> QED BY <1>8, <3>3
  <2>5. f \in Injection(SUBSET S, new)
    BY <2>2, <2>3 DEF Injection, IsInjective
  <2> QED BY <2>2, <2>4, <2>5 DEF Bijection, Surjection
<1>10. IsFiniteSet(new) /\ Cardinality(new) = 2 ^ k
  BY <1>1, <1>9, FS_Bijection DEF ExistsBijection
<1>11. (SUBSET S) \cup new = SUBSET T /\ (SUBSET S) \cap new = {}
  BY <1>4, <1>7
<1>12. Cardinality(SUBSET T) = 2 ^ k + 2 ^ k
  <2>1. PICK P, all, both : P = SUBSET S /\ all = P \cup new /\ both = P \cap new
    OBVIOUS
  <2>2. IsFiniteSet(P) /\ Cardinality(P) = 2 ^ k /\ all = SUBSET T
    BY <1>1, <1>11, <2>1
  <2>3. Cardinality(both) = 0
    BY <1>11, <2>1, FS_EmptySet
  <2>4. Cardinality(all) = Cardinality(P) + Cardinality(new) - Cardinality(both)
    BY <1>10, <2>1, <2>2, FS_Union
  <2>5. Cardinality(all) = 2 ^ k + 2 ^ k
    BY <1>2, <1>10, <2>2, <2>3, <2>4
  <2> QED BY <2>2, <2>5
<1> QED BY <1>2, <1>6, <1>12

LEMMA PowerSum ==
    ASSUME NEW j \in Nat, NEW k \in Nat
    PROVE  2 ^ (j + k) = 2 ^ j * 2 ^ k
<1> DEFINE Wrong == {n \in Nat : 2 ^ (j + n) # 2 ^ j * 2 ^ n}
<1>1. SUFFICES ASSUME Wrong # {} PROVE FALSE
  BY <1>1
<1>2. PICK n \in Wrong : \A m \in Wrong : ~(m < n)
  BY <1>1, LeastNatural
<1>3. n # 0
  <2>1. SUFFICES ASSUME n = 0 PROVE FALSE
    BY <2>1
  <2>2. j + n = j /\ 2 ^ n = 1 /\ 2 ^ j \in Nat
    BY <2>1, PowerIs
  <2>3. 2 ^ (j + n) = 2 ^ j * 2 ^ n
    BY <2>2
  <2> QED BY <2>3
<1>4. PICK m \in Nat : n = m + 1
  BY <1>3
<1>5. 2 ^ (j + m) = 2 ^ j * 2 ^ m
  BY <1>2, <1>4
<1>6. j + n = (j + m) + 1 /\ j + m \in Nat
  BY <1>4
<1>7. 2 ^ ((j + m) + 1) = 2 * 2 ^ (j + m)
  BY <1>6, PowerIs
<1>8. 2 ^ n = 2 * 2 ^ m
  BY <1>4, PowerIs
<1>9. PICK a \in Nat, b \in Nat : a = 2 ^ j /\ b = 2 ^ m
  BY PowerIs
<1>10. 2 ^ (j + n) = 2 * (a * b) /\ 2 ^ j * 2 ^ n = a * (2 * b)
  BY <1>5, <1>6, <1>7, <1>8, <1>9
<1>11. 2 * (a * b) = a * (2 * b)
  OBVIOUS
<1> QED BY <1>2, <1>10, <1>11

LEMMA PowerOrder ==
    ASSUME NEW j \in Nat, NEW k \in Nat, j <= k
    PROVE  /\ k - j \in Nat /\ 2 ^ k = 2 ^ j * 2 ^ (k - j) /\ 2 ^ j <= 2 ^ k
<1>1. k - j \in Nat /\ j + (k - j) = k
  OBVIOUS
<1>2. 2 ^ k = 2 ^ j * 2 ^ (k - j)
  BY <1>1, PowerSum
<1>3. PICK a \in Nat, b \in Nat : a = 2 ^ j /\ b = 2 ^ (k - j) /\ b > 0
  BY <1>1, PowerIs
<1>4. a <= a * b
  BY <1>3
<1> QED BY <1>1, <1>2, <1>3, <1>4

LEMMA PowerExceeds ==
    ASSUME NEW k \in Nat
    PROVE  k < 2 ^ k
<1> DEFINE Wrong == {n \in Nat : ~(n < 2 ^ n)}
<1>1. SUFFICES ASSUME Wrong # {} PROVE FALSE
  BY <1>1
<1>2. PICK n \in Wrong : \A m \in Wrong : ~(m < n)
  BY <1>1, LeastNatural
<1>3. n # 0
  <2>1. SUFFICES ASSUME n = 0 PROVE FALSE
    BY <2>1
  <2>2. 2 ^ n = 1
    BY <2>1
  <2> QED BY <2>1, <2>2
<1>4. PICK m \in Nat : n = m + 1
  BY <1>3
<1>5. m < 2 ^ m /\ 2 ^ m \in Nat /\ 2 ^ n = 2 * 2 ^ m
  BY <1>2, <1>4, PowerIs
<1>6. m + 1 < 2 * 2 ^ m
  BY <1>5
<1> QED BY <1>2, <1>4, <1>5, <1>6

(* -------------------------------- integers modulo 2^w ------------------------------- *)

LEMMA DivisionIs ==
    ASSUME NEW n \in Int, NEW m \in Nat, m > 0
    PROVE  /\ n % m \in 0 .. m - 1 /\ n \div m \in Int
           /\ n = m * (n \div m) + (n % m)
<1>1. n % m \in 0 .. m - 1
  OBVIOUS
<1>2. n \div m \in Int
  OBVIOUS
<1>3. n = m * (n \div m) + (n % m)
  OBVIOUS
<1> QED BY <1>1, <1>2, <1>3

LEMMA SmallMultiple ==
    ASSUME NEW m \in Nat, NEW q \in Int, m * q < m, -m < m * q
    PROVE  q = 0
<1>1. q > 0 => m * q >= m
  <2>1. SUFFICES ASSUME q > 0 PROVE m * q >= m
    OBVIOUS
  <2>2. PICK d \in Nat : q = d + 1
    BY <2>1
  <2>3. m * (d + 1) = m * d + m /\ m * d >= 0
    OBVIOUS
  <2> QED BY <2>2, <2>3
<1>2. q < 0 => m * q <= -m
  <2>1. SUFFICES ASSUME q < 0 PROVE m * q <= -m
    OBVIOUS
  <2>2. PICK d \in Nat : q = -(d + 1)
    BY <2>1
  <2>3. m * (-(d + 1)) = -(m * d) - m /\ m * d >= 0
    OBVIOUS
  <2> QED BY <2>2, <2>3
<1> QED BY <1>1, <1>2

LEMMA DivisionUnique ==
    ASSUME NEW n \in Int, NEW m \in Nat, m > 0,
           NEW q \in Int, NEW r \in 0 .. m - 1, n = m * q + r
    PROVE  n % m = r /\ n \div m = q
<1>1. PICK s \in Int, p \in Int : s = n % m /\ p = n \div m
  BY DivisionIs
<1>2. s \in 0 .. m - 1 /\ n = m * p + s
  BY <1>1, DivisionIs
<1>3. m * (p - q) = r - s
  <2>1. m * (p - q) = m * p - m * q
    OBVIOUS
  <2> QED BY <1>2, <2>1
<1>4. r - s < m /\ -m < r - s
  BY <1>2
<1>5. PICK d \in Int : d = p - q
  OBVIOUS
<1>6. d = 0
  BY <1>3, <1>4, <1>5, SmallMultiple
<1>7. p = q /\ m * 0 = 0
  BY <1>5, <1>6
<1> QED BY <1>1, <1>2, <1>7

(* Numbers that differ by a multiple of m are the same modulo m.                         *)
LEMMA SameModulo ==
    ASSUME NEW m \in Nat, m > 0, NEW a \in Int, NEW b \in Int, NEW k \in Int, a = b + m * k
    PROVE  a % m = b % m
<1>1. PICK q \in Int, r \in 0 .. m - 1 : q = b \div m /\ r = b % m /\ b = m * q + r
  BY DivisionIs
<1>2. m * (q + k) = m * q + m * k /\ q + k \in Int
  OBVIOUS
<1>3. a = m * (q + k) + r
  BY <1>1, <1>2
<1> QED BY <1>1, <1>2, <1>3, DivisionUnique

Words(w) == 0 .. 2 ^ w - 1

LEMMA WidthIs ==
    ASSUME NEW w \in Nat \ {0}
    PROVE  /\ 2 ^ w \in Nat /\ 2 ^ w > 0 /\ w - 1 \in Nat
           /\ 2 ^ (w - 1) \in Nat /\ 2 ^ (w - 1) > 0 /\ 2 ^ w = 2 * 2 ^ (w - 1)
<1>1. w - 1 \in Nat /\ (w - 1) + 1 = w
  OBVIOUS
<1>2. 2 ^ ((w - 1) + 1) = 2 * 2 ^ (w - 1)
  BY <1>1, PowerIs
<1> QED BY <1>1, <1>2, PowerIs

LEMMA WrapIs ==
    ASSUME NEW w \in Nat, NEW n \in Int
    PROVE  Wrap(w, n) \in Words(w) /\ (n \in Words(w) => Wrap(w, n) = n)
<1>1. PICK m \in Nat : m = 2 ^ w /\ m > 0
  BY PowerIs
<1>2. n % m \in 0 .. m - 1
  BY <1>1, DivisionIs
<1>3. n \in 0 .. m - 1 => n % m = n
  <2>1. n = m * 0 + n
    OBVIOUS
  <2> QED BY <1>1, <2>1, DivisionUnique
<1> QED BY <1>1, <1>2, <1>3 DEF Wrap, Words

LEMMA WrapSame ==
    ASSUME NEW w \in Nat, NEW a \in Int, NEW b \in Int, NEW k \in Int, a = b + 2 ^ w * k
    PROVE  Wrap(w, a) = Wrap(w, b)
  BY PowerIs, SameModulo DEF Wrap

(* Two's complement.                                                                     *)
LEMMA SignedIs ==
    ASSUME NEW w \in Nat \ {0}, NEW n \in Words(w)
    PROVE  /\ Signed(w, n) \in -(2 ^ (w - 1)) .. 2 ^ (w - 1) - 1
           /\ Signed(w, n) >= 0 => Signed(w, n) = n
           /\ Signed(w, n) < 0 => Signed(w, n) = n - 2 ^ w /\ Negated(w, n) = -Signed(w, n)
           /\ n \in Int /\ Signed(w, n) \in Int
           /\ \E c \in Int : n = Signed(w, n) + 2 ^ w * c
<1>1. PICK m \in Nat, h \in Nat : m = 2 ^ w /\ h = 2 ^ (w - 1) /\ m = 2 * h /\ h > 0
  BY WidthIs
<1>2. n \in 0 .. m - 1
  BY <1>1 DEF Words
<1>3. Signed(w, n) = IF n >= h THEN n - m ELSE n
  BY <1>1 DEF Signed
<1>4. CASE n >= h
  <2>1. Signed(w, n) = n - m /\ n - m < 0 /\ n - m \in -h .. h - 1 /\ n = (n - m) + m * 1
    BY <1>1, <1>2, <1>3, <1>4
  <2>2. Negated(w, n) = m - n
    <3>1. -n = m * (-1) + (m - n) /\ m - n \in 0 .. m - 1
      BY <1>1, <1>2, <1>4
    <3>2. (-n) % m = m - n
      BY <1>1, <1>2, <3>1, DivisionUnique
    <3> QED BY <1>1, <3>2 DEF Negated, Wrap
  <2>3. n \in Int /\ \E c \in Int : n = (n - m) + m * c
    BY <1>1, <1>2, <2>1
  <2> QED BY <1>1, <2>1, <2>2, <2>3
<1>5. CASE ~(n >= h)
  <2>1. Signed(w, n) = n /\ n >= 0 /\ n \in -h .. h - 1 /\ n = n + m * 0
    BY <1>1, <1>2, <1>3, <1>5
  <2>2. n \in Int /\ \E c \in Int : n = n + m * c
    BY <1>1, <1>2, <2>1
  <2> QED BY <1>1, <2>1, <2>2
<1> QED BY <1>4, <1>5

(* The magnitudes on which sdiv and srem compute.                                        *)
Magnitude(w, n) == IF Signed(w, n) < 0 THEN Negated(w, n) ELSE n

LEMMA MagnitudeIs ==
    ASSUME NEW w \in Nat \ {0}, NEW n \in Words(w)
    PROVE  /\ Magnitude(w, n) = Abs(Signed(w, n)) /\ Magnitude(w, n) \in 0 .. 2 ^ (w - 1)
           /\ n # 0 => Magnitude(w, n) > 0
           /\ Signed(w, n) = Sign(Signed(w, n)) * Magnitude(w, n)
<1>1. PICK m \in Nat, h \in Nat : m = 2 ^ w /\ h = 2 ^ (w - 1) /\ m = 2 * h /\ h > 0
  BY WidthIs
<1>2. PICK s \in Int : s = Signed(w, n) /\ s \in -h .. h - 1
  BY <1>1, SignedIs
<1>3. n \in 0 .. m - 1
  BY <1>1 DEF Words
<1>4. Magnitude(w, n) = Abs(s) /\ (s >= 0 => s = n)
  BY <1>2, SignedIs DEF Magnitude, Abs
<1> QED BY <1>1, <1>2, <1>3, <1>4 DEF Abs, Sign

(* ----------------------------- operators on integers -------------------------------- *)

(* The result is a word of the width, and what the operator means if it means anything;   *)
(* the operator stops only where it means nothing.                                      *)
RightWord(w, result, meaning) ==
    /\ result.stop = "" => result.val \in Words(w) /\ meaning \subseteq {result.val}
    /\ result.stop # "" => meaning = {}

LEMMA ValueIs == \A v : Value(v).stop = "" /\ Value(v).val = v
  BY DEF Value

LEMMA StopIs == \A why : Stop(why).stop = why
  BY DEF Stop

LEMMA RightValue ==
    ASSUME NEW w, NEW v \in Words(w), NEW meaning, meaning \subseteq {v}
    PROVE  RightWord(w, Value(v), meaning)
  BY ValueIs DEF RightWord

LEMMA AddSubMul ==
    ASSUME NEW w \in Nat \ {0}, NEW a \in Words(w), NEW b \in Words(w)
    PROVE  /\ RightWord(w, Value(Wrap(w, a + b)), {Wrap(w, Signed(w, a) + Signed(w, b))})
           /\ RightWord(w, Value(Wrap(w, a - b)), {Wrap(w, Signed(w, a) - Signed(w, b))})
           /\ RightWord(w, Value(Wrap(w, a * b)), {Wrap(w, Signed(w, a) * Signed(w, b))})
<1>1. PICK m \in Nat : m = 2 ^ w /\ m > 0
  BY WidthIs
<1>2. PICK x, y : x = Signed(w, a) /\ y = Signed(w, b)
  OBVIOUS
<1>3. a \in Int /\ b \in Int /\ x \in Int /\ y \in Int
  BY <1>2, SignedIs
<1>4. PICK c \in Int : a = x + m * c
  <2>1. \E c \in Int : a = Signed(w, a) + 2 ^ w * c
    BY SignedIs
  <2> QED BY <1>1, <1>2, <2>1
<1>5. PICK d \in Int : b = y + m * d
  <2>1. \E d \in Int : b = Signed(w, b) + 2 ^ w * d
    BY SignedIs
  <2> QED BY <1>1, <1>2, <2>1
<1>6. Wrap(w, a + b) = Wrap(w, x + y)
  <2>1. m * (c + d) = m * c + m * d
    OBVIOUS
  <2>2. PICK p \in Int, q \in Int, k \in Int : p = a + b /\ q = x + y /\ k = c + d
    BY <1>3
  <2>3. p = q + m * k
    BY <1>3, <1>4, <1>5, <2>1, <2>2
  <2>4. p = q + 2 ^ w * k /\ w \in Nat
    BY <1>1, <2>3
  <2>5. Wrap(w, p) = Wrap(w, q)
    BY <2>4, WrapSame, Zenon
  <2> QED BY <2>2, <2>5
<1>7. Wrap(w, a - b) = Wrap(w, x - y)
  <2>1. m * (c - d) = m * c - m * d
    OBVIOUS
  <2>2. PICK p \in Int, q \in Int, k \in Int : p = a - b /\ q = x - y /\ k = c - d
    BY <1>3
  <2>3. p = q + m * k
    BY <1>3, <1>4, <1>5, <2>1, <2>2
  <2>4. p = q + 2 ^ w * k /\ w \in Nat
    BY <1>1, <2>3
  <2>5. Wrap(w, p) = Wrap(w, q)
    BY <2>4, WrapSame, Zenon
  <2> QED BY <2>2, <2>5
<1>8. Wrap(w, a * b) = Wrap(w, x * y)
  <2>1. (x + m * c) * (y + m * d) = (x * y) + m * ((x * d + c * y) + m * (c * d))
    BY <1>3
  <2>2. PICK p \in Int, q \in Int, k \in Int :
           p = a * b /\ q = x * y /\ k = (x * d + c * y) + m * (c * d)
    BY <1>3
  <2>3. p = q + m * k
    BY <1>4, <1>5, <2>1, <2>2
  <2>4. p = q + 2 ^ w * k /\ w \in Nat
    BY <1>1, <2>3
  <2>5. Wrap(w, p) = Wrap(w, q)
    BY <2>4, WrapSame, Zenon
  <2> QED BY <2>2, <2>5
<1>9. Wrap(w, a + b) \in Words(w) /\ Wrap(w, a - b) \in Words(w) /\ Wrap(w, a * b) \in Words(w)
  <2>1. a + b \in Int /\ a - b \in Int /\ a * b \in Int
    BY <1>3
  <2> QED BY <2>1, WrapIs
<1> QED BY <1>2, <1>6, <1>7, <1>8, <1>9, ValueIs DEF RightWord

LEMMA NaturalDivision ==
    ASSUME NEW n \in Nat, NEW d \in Nat, d > 0
    PROVE  /\ n \div d \in 0 .. n /\ n % d \in 0 .. n /\ n % d < d
           /\ n = d * (n \div d) + (n % d)
<1>1. PICK q \in Int, r \in 0 .. d - 1 : q = n \div d /\ r = n % d /\ n = d * q + r
  BY DivisionIs
<1>2. q >= 0
  <2>1. SUFFICES ASSUME q < 0 PROVE FALSE
    OBVIOUS
  <2>2. PICK k \in Nat : q = -(k + 1)
    BY <2>1
  <2>3. d * (-(k + 1)) = -(d * k) - d /\ d * k >= 0
    OBVIOUS
  <2> QED BY <1>1, <2>2, <2>3
<1>3. d * q >= q
  <2>1. PICK k \in Nat : d = k + 1
    OBVIOUS
  <2>2. (k + 1) * q = k * q + q /\ k * q >= 0
    BY <1>2
  <2> QED BY <2>1, <2>2
<1> QED BY <1>1, <1>2, <1>3

LEMMA WordIs ==
    ASSUME NEW w \in Nat, NEW n \in Words(w)
    PROVE  n \in Nat /\ \A k \in 0 .. n : k \in Words(w)
<1>1. PICK m \in Nat : m = 2 ^ w
  BY PowerIs
<1>2. n \in 0 .. m - 1
  BY <1>1 DEF Words
<1> QED BY <1>1, <1>2 DEF Words

LEMMA UnsignedDivision ==
    ASSUME NEW w \in Nat \ {0}, NEW a \in Words(w), NEW b \in Words(w), b # 0
    PROVE  /\ RightWord(w, Value(a \div b), {a \div b})
           /\ RightWord(w, Value(a % b), {a - b * (a \div b)})
<1>1. a \in Nat /\ b \in Nat /\ b > 0 /\ \A k \in 0 .. a : k \in Words(w)
  BY WordIs
<1>2. PICK q, r : q = a \div b /\ r = a % b
  OBVIOUS
<1>3. q \in 0 .. a /\ r \in 0 .. a /\ a = b * q + r
  BY <1>1, <1>2, NaturalDivision
<1>4. PICK p \in Int : p = b * q
  BY <1>1, <1>3
<1>5. a - p = r
  BY <1>3, <1>4
<1> QED BY <1>1, <1>2, <1>3, <1>4, <1>5, ValueIs DEF RightWord

Fits(w, a, b) == Signed(w, a) # -(2 ^ (w - 1)) \/ Signed(w, b) # -1

Truncated(x, y) == Sign(x) * Sign(y) * (Abs(x) \div Abs(y))

LEMMA HalfIsWord ==
    ASSUME NEW w \in Nat \ {0}, NEW n \in 0 .. 2 ^ (w - 1)
    PROVE  n \in Words(w) /\ n \in Nat
  BY WidthIs DEF Words

LEMMA SignedDivision ==
    ASSUME NEW w \in Nat \ {0}, NEW a \in Words(w), NEW b \in Words(w), b # 0
    PROVE  /\ RightWord(w, Value(SDiv(w, a, b)),
                        Means(Fits(w, a, b), Wrap(w, Truncated(Signed(w, a), Signed(w, b)))))
           /\ RightWord(w, Value(SRem(w, a, b)),
                        Means(Fits(w, a, b),
                              Wrap(w, Signed(w, a)
                                      - Signed(w, b) * Truncated(Signed(w, a), Signed(w, b)))))
<1>1. PICK x, y : x = Signed(w, a) /\ y = Signed(w, b)
  OBVIOUS
<1>2. PICK s, t : s = Sign(x) /\ t = Sign(y)
  OBVIOUS
<1>3. PICK A, B : A = Magnitude(w, a) /\ B = Magnitude(w, b)
  OBVIOUS
<1>4. /\ x \in Int /\ A = Abs(x) /\ A \in 0 .. 2 ^ (w - 1) /\ x = s * A
      /\ y \in Int /\ B = Abs(y) /\ B \in 0 .. 2 ^ (w - 1) /\ y = t * B /\ B > 0
  BY <1>1, <1>2, <1>3, MagnitudeIs, SignedIs
<1>5. A \in Nat /\ B \in Nat /\ \A k \in 0 .. A : k \in Words(w)
  <2>1. A \in Words(w) /\ A \in Nat /\ B \in Nat
    BY <1>4, HalfIsWord
  <2> QED BY <2>1, WordIs
<1>6. PICK q, r : q = A \div B /\ r = A % B
  OBVIOUS
<1>7. q \in 0 .. A /\ r \in 0 .. A /\ A = B * q + r
  BY <1>4, <1>5, <1>6, NaturalDivision
<1>8. q \in Words(w) /\ r \in Words(w) /\ q \in Nat /\ r \in Nat
  BY <1>5, <1>7
<1>9. Wrap(w, q) = q /\ Wrap(w, r) = r /\ Wrap(w, -q) \in Words(w) /\ Wrap(w, -r) \in Words(w)
  <2>1. w \in Nat /\ q \in Int /\ r \in Int /\ -q \in Int /\ -r \in Int
    BY <1>8
  <2> QED BY <1>8, <2>1, WrapIs
<1>10. s \in {1, -1} /\ t \in {1, -1} /\ (x < 0 <=> s = -1) /\ (y < 0 <=> t = -1)
  BY <1>2, <1>4 DEF Sign
<1>11. SDiv(w, a, b) = IF (x < 0) # (y < 0) THEN Negated(w, q) ELSE q
  BY <1>1, <1>3, <1>6 DEF SDiv, Magnitude
<1>12. SRem(w, a, b) = IF x < 0 THEN Negated(w, r) ELSE r
  BY <1>1, <1>3, <1>6 DEF SRem, Magnitude
<1>13. Truncated(x, y) = s * t * q
  BY <1>2, <1>4, <1>6 DEF Truncated
<1>14. SDiv(w, a, b) = Wrap(w, s * t * q) /\ SDiv(w, a, b) \in Words(w)
  <2>1. CASE (x < 0) # (y < 0)
    <3>1. s * t = -1 /\ s * t * q = -q
      BY <1>8, <1>10, <2>1
    <3> QED BY <1>9, <1>11, <2>1, <3>1 DEF Negated
  <2>2. CASE ~((x < 0) # (y < 0))
    <3>1. s * t = 1 /\ s * t * q = q
      BY <1>8, <1>10, <2>2
    <3> QED BY <1>8, <1>9, <1>11, <2>2, <3>1
  <2> QED BY <2>1, <2>2
<1>15. x - y * (s * t * q) = s * r
  <2>1. (t * B) * (s * t * q) = (t * t) * (s * (B * q))
    BY <1>5, <1>8, <1>10
  <2>2. t * t = 1
    BY <1>10
  <2>3. PICK p \in Int : p = B * q
    BY <1>5, <1>8
  <2>4. (t * t) * (s * p) = s * p
    BY <1>10, <2>2, <2>3
  <2>5. s * A = s * p + s * r
    BY <1>7, <1>8, <1>10, <2>3
  <2>6. y * (s * t * q) = s * p
    BY <1>4, <2>1, <2>3, <2>4
  <2> QED BY <1>4, <1>8, <1>10, <2>3, <2>5, <2>6
<1>16. SRem(w, a, b) = Wrap(w, s * r) /\ SRem(w, a, b) \in Words(w)
  <2>1. CASE x < 0
    <3>1. s * r = -r
      BY <1>8, <1>10, <2>1
    <3> QED BY <1>9, <1>12, <2>1, <3>1 DEF Negated
  <2>2. CASE ~(x < 0)
    <3>1. s * r = r
      BY <1>8, <1>10, <2>2
    <3> QED BY <1>8, <1>9, <1>12, <2>2, <3>1
  <2> QED BY <2>1, <2>2
<1>17. \A c, v : Means(c, v) \subseteq {v}
  BY DEF Means
<1>18. \A c : RightWord(w, Value(SDiv(w, a, b)), Means(c, Wrap(w, s * t * q)))
  BY <1>14, <1>17, RightValue
<1>19. \A c : RightWord(w, Value(SRem(w, a, b)), Means(c, Wrap(w, x - y * (s * t * q))))
  BY <1>15, <1>16, <1>17, RightValue
<1> QED BY <1>1, <1>13, <1>18, <1>19

(* Shifts by the width are not rejected, and have no meaning.                            *)
LEMMA AShrIs ==
    ASSUME NEW w \in Nat \ {0}, NEW a \in Words(w), NEW b \in 0 .. w
    PROVE  /\ AShr(w, a, b) \in Words(w)
           /\ b < w => AShr(w, a, b) = Wrap(w, Signed(w, a) \div 2 ^ b)
<1>1. PICK m \in Nat, d \in Nat : m = 2 ^ w /\ d = 2 ^ b /\ m > 0 /\ d > 0
  BY PowerIs
<1>2. a \in 0 .. m - 1 /\ a \in Nat
  BY <1>1 DEF Words
<1>3. PICK e \in Nat : e = 2 ^ (w - b) /\ m = d * e /\ e > 0
  <2>1. w - b \in Nat /\ b <= w /\ b \in Nat
    OBVIOUS
  <2>2. 2 ^ (w - b) \in Nat /\ 2 ^ (w - b) > 0 /\ 2 ^ w = 2 ^ b * 2 ^ (w - b)
    BY <2>1, PowerIs, PowerOrder
  <2> QED BY <1>1, <2>2
<1>4. PICK q \in Nat, r \in 0 .. d - 1 : q = a \div d /\ r = a % d /\ a = d * q + r
  BY <1>1, <1>2, NaturalDivision
<1>5. q < e
  <2>1. SUFFICES ASSUME q >= e PROVE FALSE
    OBVIOUS
  <2>2. PICK k \in Nat : q = e + k
    BY <2>1
  <2>3. d * (e + k) = d * e + d * k /\ d * k >= 0
    OBVIOUS
  <2> QED BY <1>2, <1>3, <1>4, <2>2, <2>3
<1>6. e <= m
  <2>1. PICK k \in Nat : d = k + 1
    BY <1>1
  <2>2. (k + 1) * e = k * e + e /\ k * e >= 0
    OBVIOUS
  <2> QED BY <1>3, <2>1, <2>2
<1>7. PICK s \in Int : s = Signed(w, a)
  BY SignedIs
<1>8. AShr(w, a, b) = (IF s < 0 /\ b < w THEN m - e ELSE 0) + q
  BY <1>1, <1>3, <1>4, <1>7 DEF AShr
<1>9. AShr(w, a, b) \in Words(w)
  BY <1>1, <1>5, <1>6, <1>8 DEF Words
<1>10. ASSUME b < w PROVE AShr(w, a, b) = Wrap(w, s \div d)
  <2>1. CASE s < 0
    <3>1. s = a - m /\ AShr(w, a, b) = (m - e) + q
      BY <1>1, <1>7, <1>8, <1>10, <2>1, SignedIs
    <3>2. d * (q - e) = d * q - d * e
      OBVIOUS
    <3>3. s = d * (q - e) + r /\ q - e \in Int
      BY <1>3, <1>4, <3>1, <3>2
    <3>4. s \div d = q - e
      BY <1>1, <3>3, DivisionUnique
    <3>5. PICK p \in Int, v \in Int, k \in Int : p = (m - e) + q /\ v = q - e /\ k = 1
      OBVIOUS
    <3>6. p = v + 2 ^ w * k /\ w \in Nat
      BY <1>1, <3>5
    <3>7. Wrap(w, p) = Wrap(w, v)
      BY <3>6, WrapSame, Zenon
    <3>8. Wrap(w, p) = p
      BY <1>9, <3>1, <3>5, WrapIs
    <3> QED BY <3>1, <3>4, <3>5, <3>7, <3>8
  <2>2. CASE ~(s < 0)
    <3>1. s = a /\ AShr(w, a, b) = q
      BY <1>7, <1>8, <2>2, SignedIs
    <3>2. Wrap(w, q) = q
      BY <1>9, <3>1, WrapIs
    <3> QED BY <1>4, <3>1, <3>2
  <2> QED BY <2>1, <2>2
<1> QED BY <1>1, <1>7, <1>9, <1>10

LEMMA ShlIs ==
    ASSUME NEW w \in Nat \ {0}, NEW a \in Words(w), NEW b \in Nat
    PROVE  /\ Wrap(w, a * 2 ^ b) \in Words(w)
           /\ Wrap(w, a * 2 ^ b) = Wrap(w, Signed(w, a) * 2 ^ b)
<1>1. PICK m \in Nat, d \in Nat : m = 2 ^ w /\ d = 2 ^ b /\ m > 0
  BY PowerIs
<1>2. PICK x : x = Signed(w, a)
  OBVIOUS
<1>3. a \in Int /\ x \in Int
  BY <1>2, SignedIs
<1>4. PICK c \in Int : a = x + m * c
  <2>1. \E c \in Int : a = Signed(w, a) + 2 ^ w * c
    BY SignedIs
  <2> QED BY <1>1, <1>2, <2>1
<1>5. (x + m * c) * d = x * d + m * (c * d)
  BY <1>3
<1>6. PICK p \in Int, q \in Int, k \in Int : p = a * d /\ q = x * d /\ k = c * d
  BY <1>3
<1>7. p = q + 2 ^ w * k /\ w \in Nat
  BY <1>1, <1>4, <1>5, <1>6
<1>8. Wrap(w, p) = Wrap(w, q)
  BY <1>7, WrapSame, Zenon
<1>9. Wrap(w, p) \in Words(w)
  BY WrapIs
<1> QED BY <1>1, <1>2, <1>6, <1>8, <1>9

(* Every sequence of w bits is the number of some word of w bits.                         *)
LEMMA HighBit ==
    ASSUME NEW v \in Nat, NEW n \in Words(v), NEW c \in {0, 1}
    PROVE  /\ n + 2 ^ v * c \in Words(v + 1) /\ Bit(n + 2 ^ v * c, v) = c
           /\ \A i \in 0 .. v - 1 : Bit(n + 2 ^ v * c, i) = Bit(n, i)
<1>1. PICK m \in Nat : m = 2 ^ v /\ m > 0 /\ 2 ^ (v + 1) = 2 * m
  BY PowerIs
<1>2. n \in 0 .. m - 1 /\ n \in Nat
  BY <1>1 DEF Words
<1>3. PICK k \in Nat : k = n + m * c
  BY <1>2
<1>4. k \in Words(v + 1)
  BY <1>1, <1>2, <1>3 DEF Words
<1>5. Bit(k, v) = c
  <2>1. k = m * c + n
    BY <1>2, <1>3
  <2>2. k \div m = c
    BY <1>1, <1>2, <2>1, DivisionUnique
  <2>3. c = 2 * 0 + c /\ c \in 0 .. 2 - 1
    OBVIOUS
  <2>4. c % 2 = c
    BY <2>3, DivisionUnique
  <2> QED BY <1>1, <2>2, <2>4 DEF Bit
<1>6. ASSUME NEW i \in 0 .. v - 1 PROVE Bit(k, i) = Bit(n, i)
  <2>1. i \in Nat /\ i <= v /\ v - i \in Nat \ {0}
    OBVIOUS
  <2>2. PICK d \in Nat, e \in Nat : d = 2 ^ i /\ d > 0 /\ e = 2 ^ ((v - i) - 1) /\ m = d * (2 * e)
    <3>1. 2 ^ v = 2 ^ i * 2 ^ (v - i)
      BY <2>1, PowerOrder
    <3>2. 2 ^ (v - i) = 2 * 2 ^ ((v - i) - 1) /\ 2 ^ ((v - i) - 1) \in Nat
      BY <2>1, WidthIs
    <3>3. 2 ^ i \in Nat /\ 2 ^ i > 0
      BY <2>1, PowerIs
    <3> QED BY <1>1, <3>1, <3>2, <3>3
  <2>3. PICK q \in Int, r \in 0 .. d - 1 : q = n \div d /\ r = n % d /\ n = d * q + r
    BY <1>2, <2>2, DivisionIs
  <2>4. d * (q + 2 * (e * c)) = d * q + (d * (2 * e)) * c
    OBVIOUS
  <2>5. k = d * (q + 2 * (e * c)) + r /\ q + 2 * (e * c) \in Int
    BY <1>3, <2>2, <2>3, <2>4
  <2>6. k \div d = q + 2 * (e * c)
    BY <2>2, <2>5, DivisionUnique
  <2>7. PICK g \in Int, l \in Int : l = e * c /\ g = q + 2 * l
    OBVIOUS
  <2>8. g % 2 = q % 2
    BY <2>7, SameModulo
  <2> QED BY <2>2, <2>3, <2>6, <2>7, <2>8 DEF Bit
<1> QED BY <1>1, <1>3, <1>4, <1>5, <1>6

LEMMA WordOfBits ==
    ASSUME NEW w \in Nat, NEW bits \in [Nat -> {0, 1}]
    PROVE  \E n \in Words(w) : \A i \in 0 .. w - 1 : Bit(n, i) = bits[i]
<1> DEFINE Has(v) == \E n \in Words(v) : \A i \in 0 .. v - 1 : Bit(n, i) = bits[i]
           Wrong == {v \in Nat : ~Has(v)}
<1>1. SUFFICES ASSUME Wrong # {} PROVE FALSE
  BY <1>1
<1>2. PICK v \in Wrong : \A u \in Wrong : ~(u < v)
  BY <1>1, LeastNatural
<1>3. v # 0
  <2>1. SUFFICES ASSUME v = 0 PROVE FALSE
    BY <2>1
  <2>2. 0 \in Words(v) /\ 0 .. v - 1 = {}
    BY <2>1 DEF Words
  <2> QED BY <1>2, <2>2
<1>4. PICK u \in Nat : v = u + 1
  BY <1>2, <1>3
<1>5. Has(u)
  BY <1>2, <1>4
<1>6. PICK n \in Words(u) : \A i \in 0 .. u - 1 : Bit(n, i) = bits[i]
  BY <1>5
<1>7. PICK c \in {0, 1} : c = bits[u]
  BY <1>4
<1>8. PICK k : k = n + 2 ^ u * c
  OBVIOUS
<1>9. k \in Words(u + 1) /\ Bit(k, u) = c /\ \A i \in 0 .. u - 1 : Bit(k, i) = Bit(n, i)
  BY <1>8, HighBit
<1>10. \A i \in 0 .. v - 1 : i = u \/ i \in 0 .. u - 1
  BY <1>4
<1>11. Has(v)
  BY <1>4, <1>6, <1>7, <1>9, <1>10
<1> QED BY <1>2, <1>11

LEMMA LogicalIsWord ==
    ASSUME NEW w \in Nat, NEW a \in Words(w), NEW b \in Words(w), NEW op \in LogicalOps
    PROVE  Logical(op, w, a, b) \in Words(w)
<1>1. ASSUME NEW n \in Words(w), NEW i \in Nat PROVE Bit(n, i) \in {0, 1}
  <2>1. n \in Int /\ 2 ^ i \in Nat /\ 2 ^ i > 0
    BY WordIs, PowerIs
  <2>2. n \div 2 ^ i \in Int
    BY <2>1, DivisionIs
  <2> QED BY <2>2 DEF Bit
<1>2. PICK bits : bits = [i \in Nat |-> LogicalBit(op, Bit(a, i), Bit(b, i))]
  OBVIOUS
<1>3. ASSUME NEW p \in {0, 1}, NEW q \in {0, 1} PROVE LogicalBit(op, p, q) \in {0, 1}
  <2>1. 0 % 2 = 0 /\ 1 % 2 = 1 /\ 2 % 2 = 0
    OBVIOUS
  <2>2. CASE op = "and"
    BY <2>2 DEF LogicalBit
  <2>3. CASE op = "or"
    BY <2>3 DEF LogicalBit
  <2>4. CASE op = "xor"
    BY <2>1, <2>4 DEF LogicalBit
  <2> QED BY <2>2, <2>3, <2>4 DEF LogicalOps
<1>4. bits \in [Nat -> {0, 1}]
  BY <1>1, <1>2, <1>3
<1>5. PICK word \in Words(w) : \A i \in 0 .. w - 1 : Bit(word, i) = bits[i]
  BY <1>4, WordOfBits
<1>6. \E n \in Words(w) :
         \A i \in 0 .. w - 1 : Bit(n, i) = LogicalBit(op, Bit(a, i), Bit(b, i))
  BY <1>2, <1>5
<1> QED BY <1>6 DEF Logical, Words

LEMMA IntBinOpRight ==
    ASSUME NEW w \in Nat \ {0}, NEW a \in Words(w), NEW b \in Words(w), NEW op \in IntBinOps
    PROVE  RightWord(w, EvaluateIntBinOp(op, w, a, b), IntMeaning(op, w, a, b))
<1>1. a \in Nat /\ b \in Nat /\ \A k \in 0 .. a : k \in Words(w)
  BY WordIs
<1>2. CASE op \in {"add", "sub", "mul"}
  <2>1. /\ EvaluateIntBinOp("add", w, a, b) = Value(Wrap(w, a + b))
        /\ EvaluateIntBinOp("sub", w, a, b) = Value(Wrap(w, a - b))
        /\ EvaluateIntBinOp("mul", w, a, b) = Value(Wrap(w, a * b))
    BY DEF EvaluateIntBinOp, LogicalOps, Divisions, Shifts
  <2>2. /\ IntMeaning("add", w, a, b) = {Wrap(w, Signed(w, a) + Signed(w, b))}
        /\ IntMeaning("sub", w, a, b) = {Wrap(w, Signed(w, a) - Signed(w, b))}
        /\ IntMeaning("mul", w, a, b) = {Wrap(w, Signed(w, a) * Signed(w, b))}
    BY DEF IntMeaning
  <2>3. /\ RightWord(w, Value(Wrap(w, a + b)), {Wrap(w, Signed(w, a) + Signed(w, b))})
        /\ RightWord(w, Value(Wrap(w, a - b)), {Wrap(w, Signed(w, a) - Signed(w, b))})
        /\ RightWord(w, Value(Wrap(w, a * b)), {Wrap(w, Signed(w, a) * Signed(w, b))})
    BY AddSubMul
  <2> QED BY <1>2, <2>1, <2>2, <2>3
<1>3. CASE op \in LogicalOps
  <2>1. EvaluateIntBinOp(op, w, a, b) = Value(Logical(op, w, a, b))
    BY <1>3 DEF EvaluateIntBinOp, LogicalOps, Divisions, Shifts
  <2>2. IntMeaning(op, w, a, b) = {EvaluateIntBinOp(op, w, a, b).val}
    BY <1>3 DEF IntMeaning, LogicalOps
  <2>3. Logical(op, w, a, b) \in Words(w)
    BY <1>3, LogicalIsWord
  <2>4. IntMeaning(op, w, a, b) = {Logical(op, w, a, b)}
    BY <2>1, <2>2, ValueIs
  <2> QED BY <2>1, <2>3, <2>4, RightValue
<1>4. CASE op \in Divisions /\ b = 0
  <2>1. EvaluateIntBinOp(op, w, a, b) = Stop("Divide by zero")
    BY <1>4 DEF EvaluateIntBinOp, LogicalOps, Divisions, Shifts
  <2>2. IntMeaning(op, w, a, b) = {}
    BY <1>4 DEF IntMeaning, Divisions
  <2> QED BY <2>1, <2>2, StopIs DEF RightWord
<1>5. CASE op \in {"udiv", "urem"} /\ b # 0
  <2>1. /\ EvaluateIntBinOp("udiv", w, a, b) = Value(a \div b)
        /\ EvaluateIntBinOp("urem", w, a, b) = Value(a % b)
    BY <1>5 DEF EvaluateIntBinOp, LogicalOps, Divisions, Shifts
  <2>2. /\ IntMeaning("udiv", w, a, b) = {a \div b}
        /\ IntMeaning("urem", w, a, b) = {a - b * (a \div b)}
    BY <1>5 DEF IntMeaning
  <2>3. /\ RightWord(w, Value(a \div b), {a \div b})
        /\ RightWord(w, Value(a % b), {a - b * (a \div b)})
    BY <1>5, UnsignedDivision
  <2> QED BY <1>5, <2>1, <2>2, <2>3
<1>6. CASE op \in {"sdiv", "srem"} /\ b # 0
  <2>1. /\ EvaluateIntBinOp("sdiv", w, a, b) = Value(SDiv(w, a, b))
        /\ EvaluateIntBinOp("srem", w, a, b) = Value(SRem(w, a, b))
    BY <1>6 DEF EvaluateIntBinOp, LogicalOps, Divisions, Shifts
  <2>2. /\ IntMeaning("sdiv", w, a, b)
           = Means(Fits(w, a, b), Wrap(w, Truncated(Signed(w, a), Signed(w, b))))
        /\ IntMeaning("srem", w, a, b)
           = Means(Fits(w, a, b),
                   Wrap(w, Signed(w, a)
                           - Signed(w, b) * Truncated(Signed(w, a), Signed(w, b))))
    BY <1>6 DEF IntMeaning, Fits, Truncated
  <2> QED BY <1>6, <2>1, <2>2, SignedDivision
<1>7. CASE op \in Shifts /\ b > w
  <2>1. EvaluateIntBinOp(op, w, a, b) = Stop("Illegal shift amount")
    BY <1>7 DEF EvaluateIntBinOp, Divisions, LogicalOps, Shifts, ShiftTooFar
  <2>2. IntMeaning(op, w, a, b) = {}
    BY <1>1, <1>7 DEF IntMeaning, Shifts
  <2> QED BY <2>1, <2>2, StopIs DEF RightWord
<1>8. CASE op \in Shifts /\ ~(b > w)
  <2>1. /\ EvaluateIntBinOp("shl", w, a, b) = Value(Wrap(w, a * 2 ^ b))
        /\ EvaluateIntBinOp("lshr", w, a, b) = Value(a \div 2 ^ b)
        /\ EvaluateIntBinOp("ashr", w, a, b) = Value(AShr(w, a, b))
    BY <1>8 DEF EvaluateIntBinOp, Divisions, LogicalOps, Shifts, ShiftTooFar
  <2>2. /\ IntMeaning("shl", w, a, b) \subseteq {Wrap(w, Signed(w, a) * 2 ^ b)}
        /\ IntMeaning("lshr", w, a, b) \subseteq {a \div 2 ^ b}
        /\ IntMeaning("ashr", w, a, b)
           = IF b >= w THEN {} ELSE {Wrap(w, Signed(w, a) \div 2 ^ b)}
    BY DEF IntMeaning
  <2>3. b \in 0 .. w
    BY <1>1, <1>8
  <2>4. a \div 2 ^ b \in Words(w)
    BY <1>1, PowerIs, NaturalDivision
  <2>5. CASE op = "shl"
    <3>1. PICK v : v = Wrap(w, a * 2 ^ b)
      OBVIOUS
    <3>2. v \in Words(w) /\ v = Wrap(w, Signed(w, a) * 2 ^ b)
      BY <1>1, <3>1, ShlIs
    <3>3. EvaluateIntBinOp("shl", w, a, b) = Value(v) /\ IntMeaning("shl", w, a, b) \subseteq {v}
      BY <2>1, <2>2, <3>1, <3>2
    <3> QED BY <2>5, <3>2, <3>3, RightValue
  <2>6. CASE op = "lshr"
    BY <2>1, <2>2, <2>4, <2>6, RightValue
  <2>7. CASE op = "ashr"
    <3>1. IntMeaning("ashr", w, a, b) \subseteq {AShr(w, a, b)}
      BY <1>1, <2>2, <2>3, AShrIs
    <3> QED BY <2>1, <2>3, <2>7, <3>1, AShrIs, RightValue
  <2> QED BY <1>8, <2>5, <2>6, <2>7 DEF Shifts
<1> QED BY <1>2, <1>3, <1>4, <1>5, <1>6, <1>7, <1>8 DEF IntBinOps, Divisions

LEMMA IntCastRight ==
    ASSUME NEW from \in Nat \ {0}, NEW to \in Nat \ {0}, NEW n \in Words(from),
           NEW op \in IntCasts, op # "trunc" => from < to
    PROVE  /\ IntCast(op, from, to, n) \in Words(to)
           /\ IntCastMeaning(op, from, to, n) = {IntCast(op, from, to, n)}
<1>1. n \in Nat /\ Signed(from, n) \in Int
  BY WordIs, SignedIs
<1>2. CASE op = "trunc"
  BY <1>1, <1>2, WrapIs DEF IntCast, IntCastMeaning
<1>3. CASE op = "zext"
  <2>1. n \in Words(to)
    <3>1. 2 ^ from <= 2 ^ to /\ 2 ^ from \in Nat /\ 2 ^ to \in Nat
      BY <1>3, PowerOrder, PowerIs
    <3> QED BY <3>1 DEF Words
  <2>2. Wrap(to, n) = n
    BY <1>1, <2>1, WrapIs
  <2> QED BY <1>3, <2>1, <2>2 DEF IntCast, IntCastMeaning
<1>4. CASE op = "sext"
  BY <1>1, <1>4, WrapIs DEF IntCast, IntCastMeaning, SExt
<1> QED BY <1>2, <1>3, <1>4 DEF IntCasts

(* ------------------------------------ rounding --------------------------------------- *)

LEMMA ExponentIs ==
    ASSUME NEW p \in Nat \ {0}, NEW n \in Nat
    PROVE  /\ Exponent(p, n) \in Nat /\ n < 2 ^ (p + Exponent(p, n))
           /\ Exponent(p, n) > 0 => 2 ^ (p + Exponent(p, n) - 1) <= n
<1>1. PICK High : High = {k \in Nat : n < 2 ^ (p + k)}
  OBVIOUS
<1>2. n \in High
  <2>1. n < 2 ^ n /\ n <= p + n /\ p + n \in Nat
    BY PowerExceeds
  <2>2. 2 ^ n <= 2 ^ (p + n) /\ 2 ^ n \in Nat /\ 2 ^ (p + n) \in Nat
    BY <2>1, PowerOrder, PowerIs
  <2> QED BY <1>1, <2>1, <2>2
<1>3. High \subseteq Nat
  BY <1>1
<1>4. PICK k \in High : \A j \in High : ~(j < k)
  BY <1>2, <1>3, LeastNatural
<1>5. k \in 0 .. n /\ n < 2 ^ (p + k)
  BY <1>1, <1>2, <1>4
<1>6. ASSUME k > 0 PROVE 2 ^ (p + k - 1) <= n
  <2>1. k - 1 \in Nat /\ k - 1 < k /\ p + (k - 1) = p + k - 1 /\ p + k - 1 \in Nat
    BY <1>5, <1>6
  <2>2. ~(n < 2 ^ (p + (k - 1)))
    BY <1>1, <1>4, <2>1
  <2> QED BY <2>1, <2>2, PowerIs
<1>7. \E j \in 0 .. n : n < 2 ^ (p + j) /\ (j > 0 => 2 ^ (p + j - 1) <= n)
  BY <1>5, <1>6
<1>8. /\ Exponent(p, n) \in 0 .. n
      /\ n < 2 ^ (p + Exponent(p, n))
         /\ (Exponent(p, n) > 0 => 2 ^ (p + Exponent(p, n) - 1) <= n)
  BY <1>7 DEF Exponent
<1> QED BY <1>8

(* The multiple of a unit that is nearest to a.                                          *)
Up(a, unit) ==
    IF 2 * (a % unit) > unit \/ (2 * (a % unit) = unit /\ (a \div unit) % 2 = 1) THEN 1 ELSE 0

Nearest(a, unit) == (a \div unit + Up(a, unit)) * unit

LEMMA NearestIs ==
    ASSUME NEW a \in Nat, NEW unit \in Nat, unit > 0
    PROVE  /\ Nearest(a, unit) \in Nat
           /\ 2 * (a - Nearest(a, unit)) <= unit /\ 2 * (Nearest(a, unit) - a) <= unit
           /\ Nearest(a, unit) >= unit * (a \div unit)
           /\ Nearest(a, unit) = a => a % unit = 0
           /\ a % unit = 0 => Nearest(a, unit) = a
<1>1. PICK q \in Nat, r \in 0 .. unit - 1 :
         q = a \div unit /\ r = a % unit /\ a = unit * q + r
  BY NaturalDivision
<1>2. PICK up \in {0, 1} : up = Up(a, unit)
  BY DEF Up
<1>3. (2 * r > unit => up = 1) /\ (2 * r < unit => up = 0)
  BY <1>1, <1>2 DEF Up
<1>4. PICK b \in Nat : b = unit * q
  BY <1>1
<1>5. CASE up = 0
  <2>1. Nearest(a, unit) = b /\ a = b + r
    <3>1. (q + 0) * unit = unit * q
      BY <1>1
    <3> QED BY <1>1, <1>2, <1>4, <1>5, <3>1 DEF Nearest
  <2> QED BY <1>1, <1>3, <1>4, <1>5, <2>1
<1>6. CASE up = 1
  <2>1. Nearest(a, unit) = b + unit /\ a = b + r
    <3>1. (q + 1) * unit = unit * q + unit
      BY <1>1
    <3> QED BY <1>1, <1>2, <1>4, <1>6, <3>1 DEF Nearest
  <2>2. r # 0
    BY <1>3, <1>6
  <2> QED BY <1>1, <1>3, <1>4, <1>6, <2>1, <2>2
<1> QED BY <1>5, <1>6

LEMMA NearestUnique ==
    ASSUME NEW a \in Nat, NEW unit \in Nat, unit > 0, NEW d \in Nat,
           2 * (a - d * unit) < unit, 2 * (d * unit - a) < unit
    PROVE  Nearest(a, unit) = d * unit
<1>1. PICK b \in Nat : b = d * unit
  OBVIOUS
<1>2. CASE a >= b
  <2>1. PICK r \in Int : r = a - b
    OBVIOUS
  <2>2. r \in 0 .. unit - 1 /\ a = unit * d + r /\ 2 * r < unit
    <3>1. unit * d = d * unit
      OBVIOUS
    <3> QED BY <1>1, <1>2, <2>1, <3>1
  <2>3. a % unit = r /\ a \div unit = d
    BY <2>2, DivisionUnique
  <2>4. Up(a, unit) = 0
    BY <2>2, <2>3 DEF Up
  <2>5. d + 0 = d
    OBVIOUS
  <2> QED BY <2>3, <2>4, <2>5 DEF Nearest
<1>3. CASE a < b
  <2>1. PICK r \in Int : r = a - (b - unit)
    OBVIOUS
  <2>2. r \in 0 .. unit - 1 /\ 2 * r > unit
    BY <1>1, <1>3, <2>1
  <2>3. unit * (d - 1) = d * unit - unit
    OBVIOUS
  <2>4. a = unit * (d - 1) + r /\ d - 1 \in Int
    BY <1>1, <2>1, <2>3
  <2>5. a % unit = r /\ a \div unit = d - 1
    BY <2>2, <2>4, DivisionUnique
  <2>6. Up(a, unit) = 1
    BY <2>2, <2>5 DEF Up
  <2>7. (d - 1) + 1 = d
    OBVIOUS
  <2> QED BY <2>5, <2>6, <2>7 DEF Nearest
<1> QED BY <1>1, <1>2, <1>3

(* What p digits can express: at most 2^p units, of a size that is a power of two.         *)
Expressible(p, a) == \E k, c \in Nat : c <= 2 ^ p /\ a = c * 2 ^ k

LEMMA MultipleOfUnit ==
    ASSUME NEW p \in Nat \ {0}, NEW e \in Nat, NEW a \in Nat, Expressible(p, a),
           e > 0 => 2 ^ (p + e - 1) <= a
    PROVE  \E d \in Nat : a = d * 2 ^ e
<1>1. PICK k \in Nat, c \in Nat : c <= 2 ^ p /\ a = c * 2 ^ k
  BY DEF Expressible
<1>2. CASE e = 0
  <2>1. 2 ^ e = 1
    BY <1>2
  <2> QED BY <2>1
<1>3. CASE k >= e
  <2>1. PICK u \in Nat, f \in Nat : u = 2 ^ e /\ f = 2 ^ (k - e) /\ 2 ^ k = u * f
    BY <1>3, PowerOrder, PowerIs
  <2>2. c * (u * f) = (c * f) * u /\ c * f \in Nat
    OBVIOUS
  <2> QED BY <1>1, <2>1, <2>2
<1>4. CASE e > 0 /\ k < e
  <2>1. PICK h \in Nat, u \in Nat : h = 2 ^ (p - 1) /\ 2 ^ p = 2 * h /\ u = 2 ^ k /\ u > 0
    BY PowerIs, WidthIs
  <2>2. a <= 2 ^ (p + k)
    <3>1. 2 ^ (p + k) = (2 * h) * u
      <4>1. 2 ^ (p + k) = 2 ^ p * 2 ^ k
        BY PowerSum
      <4> QED BY <2>1, <4>1
    <3>2. PICK g \in Nat : 2 * h = c + g
      <4>1. 2 * h - c \in Nat /\ 2 * h = c + (2 * h - c)
        BY <1>1, <2>1
      <4> QED BY <4>1
    <3>3. (c + g) * u = c * u + g * u /\ g * u >= 0
      OBVIOUS
    <3>4. c * u <= (2 * h) * u
      BY <3>2, <3>3
    <3> QED BY <1>1, <2>1, <3>1, <3>4
  <2>3. p + e - 1 \in Nat /\ p + k \in Nat /\ 2 ^ (p + e - 1) <= 2 ^ (p + k)
    <3>1. p + e - 1 \in Nat /\ p + k \in Nat
      BY <1>4
    <3>2. 2 ^ (p + e - 1) \in Nat /\ 2 ^ (p + k) \in Nat
      BY <3>1, PowerIs
    <3> QED BY <1>4, <2>2, <3>1, <3>2
  <2>4. ~(p + k < p + e - 1)
    <3>1. SUFFICES ASSUME p + k < p + e - 1 PROVE FALSE
      OBVIOUS
    <3>2. PICK l \in Nat : l = p + k
      OBVIOUS
    <3>3. PICK m \in Nat : m = p + e - 1
      BY <2>3
    <3>4. l + 1 <= m /\ l + 1 \in Nat
      BY <3>1, <3>2, <3>3
    <3>5. 2 ^ (l + 1) <= 2 ^ m /\ 2 ^ (l + 1) = 2 * 2 ^ l /\ 2 ^ l \in Nat /\ 2 ^ l > 0
          /\ 2 ^ m \in Nat
      BY <3>4, PowerOrder, PowerIs
    <3> QED BY <2>3, <3>2, <3>3, <3>5
  <2>5. e = k + 1
    BY <1>4, <2>4
  <2>6. 2 ^ e = 2 * u /\ p + e - 1 = p + k
    BY <2>1, <2>5, PowerIs
  <2>7. (2 * h) * u <= c * u
    <3>1. 2 ^ (p + k) = (2 * h) * u
      <4>1. 2 ^ (p + k) = 2 ^ p * 2 ^ k
        BY PowerSum
      <4> QED BY <2>1, <4>1
    <3> QED BY <1>1, <1>4, <2>1, <2>6, <3>1
  <2>8. c = 2 * h
    <3>1. SUFFICES ASSUME c < 2 * h PROVE FALSE
      BY <1>1, <2>1
    <3>2. PICK g \in Nat : 2 * h = c + (g + 1)
      <4>1. 2 * h - c - 1 \in Nat /\ 2 * h = c + ((2 * h - c - 1) + 1)
        BY <3>1
      <4> QED BY <4>1
    <3>3. (c + (g + 1)) * u = c * u + g * u + u /\ g * u >= 0
      OBVIOUS
    <3> QED BY <2>1, <2>7, <3>2, <3>3
  <2>9. (2 * h) * u = h * (2 * u)
    OBVIOUS
  <2> QED BY <1>1, <2>1, <2>6, <2>8, <2>9
<1> QED BY <1>2, <1>3, <1>4

Near(p, a) == Nearest(a, 2 ^ Exponent(p, a))

LEMMA NearIs ==
    ASSUME NEW p \in Nat \ {0}, NEW a \in Nat
    PROVE  /\ Near(p, a) \in Nat /\ Expressible(p, Near(p, a))
           /\ Expressible(p, a) <=> Near(p, a) = a
<1>1. PICK e \in Nat : e = Exponent(p, a) /\ a < 2 ^ (p + e) /\ (e > 0 => 2 ^ (p + e - 1) <= a)
  BY ExponentIs
<1>2. PICK u \in Nat, m \in Nat : u = 2 ^ e /\ u > 0 /\ m = 2 ^ p /\ 2 ^ (p + e) = m * u
  BY PowerIs, PowerSum
<1>3. PICK q \in Nat, r \in 0 .. u - 1 : q = a \div u /\ r = a % u /\ a = u * q + r
  BY <1>2, NaturalDivision
<1>4. PICK up \in {0, 1} : up = Up(a, u)
  BY DEF Up
<1>5. Near(p, a) = (q + up) * u /\ (q + up) \in Nat
  <2>1. Near(p, a) = Nearest(a, u)
    BY <1>1, <1>2 DEF Near
  <2>2. Nearest(a, u) = (q + up) * u
    BY <1>3, <1>4 DEF Nearest
  <2> QED BY <2>1, <2>2
<1>6. q + up <= m
  <2>1. SUFFICES ASSUME ~(q < m) PROVE FALSE
    BY <1>2, <1>3
  <2>2. PICK g \in Nat : q = m + g
    <3>1. q - m \in Nat /\ q = m + (q - m)
      BY <2>1
    <3> QED BY <3>1
  <2>3. u * (m + g) = m * u + u * g /\ u * g >= 0
    OBVIOUS
  <2>4. PICK x \in Nat, y \in Nat, z \in Nat : x = m * u /\ y = u * q /\ z = u * g
    OBVIOUS
  <2>5. y = x + z
    BY <2>2, <2>3, <2>4
  <2>6. a < x /\ a = y + r
    BY <1>1, <1>2, <1>3, <2>4
  <2> QED BY <2>5, <2>6
<1>7. Expressible(p, Near(p, a))
  BY <1>2, <1>5, <1>6 DEF Expressible
<1>8. ASSUME Expressible(p, a) PROVE Near(p, a) = a
  <2>1. PICK d \in Nat : a = d * u
    BY <1>1, <1>2, <1>8, MultipleOfUnit
  <2>2. a = u * d + 0
    <3>1. u * d = d * u
      OBVIOUS
    <3> QED BY <2>1, <3>1
  <2>3. a % u = 0
    BY <1>2, <2>2, DivisionUnique
  <2> QED BY <1>1, <1>2, <2>3, NearestIs DEF Near
<1>9. Near(p, a) \in Nat
  BY <1>1, <1>2, NearestIs DEF Near
<1> QED BY <1>7, <1>8, <1>9

LEMMA MoreDigits ==
    ASSUME NEW p \in Nat \ {0}, NEW d \in Nat, p <= d, NEW a \in Nat, Expressible(p, a)
    PROVE  Expressible(d, a)
<1>1. 2 ^ p <= 2 ^ d /\ 2 ^ p \in Nat /\ 2 ^ d \in Nat
  BY PowerOrder, PowerIs
<1> QED BY <1>1 DEF Expressible

(* Rounding to d digits and then to p is rounding to p, where the second step is exact.   *)
LEMMA NearTwice ==
    ASSUME NEW p \in Nat \ {0}, NEW d \in Nat, p <= d, NEW a \in Nat,
           Expressible(p, Near(d, a))
    PROVE  Near(p, a) = Near(d, a)
<1>1. d \in Nat \ {0}
  OBVIOUS
<1>2. PICK e \in Nat : e = Exponent(d, a) /\ a < 2 ^ (d + e) /\ (e > 0 => 2 ^ (d + e - 1) <= a)
  BY <1>1, ExponentIs
<1>3. PICK f \in Nat : f = Exponent(p, a) /\ a < 2 ^ (p + f) /\ (f > 0 => 2 ^ (p + f - 1) <= a)
  BY ExponentIs
<1>4. PICK u \in Nat, v \in Nat : u = 2 ^ e /\ v = 2 ^ f /\ u > 0 /\ v > 0
  BY PowerIs
<1>5. PICK b \in Nat : b = Near(d, a) /\ b = Nearest(a, u)
  BY <1>1, <1>2, <1>4, NearIs DEF Near
<1>6. Near(p, a) = Nearest(a, v)
  BY <1>3, <1>4 DEF Near
<1>7. e <= f
  <2>1. SUFFICES ASSUME e > f PROVE FALSE
    OBVIOUS
  <2>2. d + e - 1 \in Nat /\ p + f \in Nat /\ p + f <= d + e - 1
    BY <2>1
  <2>3. /\ 2 ^ (p + f) <= 2 ^ (d + e - 1)
        /\ 2 ^ (p + f) \in Nat /\ 2 ^ (d + e - 1) \in Nat
    BY <2>2, PowerOrder, PowerIs
  <2> QED BY <1>2, <1>3, <2>1, <2>3
<1>8. CASE e = f
  BY <1>4, <1>5, <1>6, <1>8
<1>9. CASE e < f
  <2>1. 2 * u <= v
    <3>1. e + 1 \in Nat /\ e + 1 <= f
      BY <1>9
    <3>2. 2 ^ (e + 1) <= 2 ^ f /\ 2 ^ (e + 1) = 2 * 2 ^ e
      BY <3>1, PowerOrder, PowerIs
    <3> QED BY <1>4, <3>2
  <2>2. 2 * (a - b) <= u /\ 2 * (b - a) <= u /\ b >= u * (a \div u)
    BY <1>4, <1>5, NearestIs
  <2>3. 2 ^ (p + f - 1) <= b
    <3>1. PICK l \in Nat : l = p + f - 1 /\ e <= l /\ 2 ^ l <= a
      BY <1>3, <1>9
    <3>2. PICK g \in Nat : g = 2 ^ (l - e) /\ 2 ^ l = u * g
      <4>1. l - e \in Nat /\ 2 ^ l = 2 ^ e * 2 ^ (l - e)
        BY <3>1, PowerOrder
      <4> QED BY <1>4, <4>1, PowerIs
    <3>3. PICK q \in Nat, r \in 0 .. u - 1 : q = a \div u /\ a = u * q + r
      BY <1>4, NaturalDivision
    <3>4. q >= g
      <4>1. SUFFICES ASSUME q < g PROVE FALSE
        OBVIOUS
      <4>2. PICK k \in Nat : g = q + (k + 1)
        <5>1. g - q - 1 \in Nat /\ g = q + ((g - q - 1) + 1)
          BY <4>1
        <5> QED BY <5>1
      <4>3. u * (q + (k + 1)) = u * q + u * k + u /\ u * k >= 0
        OBVIOUS
      <4> QED BY <3>1, <3>2, <3>3, <4>2, <4>3
    <3>5. u * q >= u * g
      <4>1. PICK k \in Nat : q = g + k
        <5>1. q - g \in Nat /\ q = g + (q - g)
          BY <3>4
        <5> QED BY <5>1
      <4>2. u * (g + k) = u * g + u * k /\ u * k >= 0
        OBVIOUS
      <4> QED BY <4>1, <4>2
    <3> QED BY <2>2, <3>1, <3>2, <3>3, <3>5
  <2>4. PICK k \in Nat : b = k * v
    <3>1. Expressible(p, b)
      BY <1>5
    <3>2. \E k \in Nat : b = k * 2 ^ f
      BY <2>3, <3>1, MultipleOfUnit
    <3> QED BY <1>4, <3>2
  <2>5. 2 * (a - k * v) < v /\ 2 * (k * v - a) < v
    <3>1. PICK l \in Nat : l = k * v
      OBVIOUS
    <3>2. 2 * (a - l) < v /\ 2 * (l - a) < v
      BY <1>4, <2>1, <2>2, <2>4, <3>1
    <3> QED BY <3>1, <3>2
  <2>6. v > 0
    BY <1>4
  <2>7. Nearest(a, v) = k * v
    BY <2>5, <2>6, NearestUnique, Zenon
  <2> QED BY <1>5, <1>6, <2>4, <2>7
<1> QED BY <1>7, <1>8, <1>9

Floating == Int \cup {NaN}

LEMMA RoundIs ==
    ASSUME NEW p \in Nat \ {0}, NEW n \in Int
    PROVE  /\ n # NaN /\ Abs(n) \in Nat /\ Near(p, Abs(n)) \in Nat
           /\ Round(p, n) = Sign(n) * Near(p, Abs(n))
           /\ Round(p, n) \in Int /\ Round(p, n) # NaN
           /\ Abs(Round(p, n)) = Near(p, Abs(n))
           /\ Round(p, n) = n <=> Near(p, Abs(n)) = Abs(n)
<1>1. n # NaN /\ Abs(n) \in Nat
  BY ScalarAssumption DEF ScalarAssumption, Abs
<1>2. PICK b \in Nat : b = Near(p, Abs(n))
  BY <1>1, NearIs
<1>3. Round(p, n) = Sign(n) * b
  <2>1. PICK e, u, a : e = Exponent(p, Abs(n)) /\ u = 2 ^ e /\ a = Abs(n)
    OBVIOUS
  <2>2. Round(p, n) = Sign(n) * (a \div u + Up(a, u)) * u
    BY <1>1, <2>1 DEF Round, Up
  <2>3. b = (a \div u + Up(a, u)) * u
    BY <1>2, <2>1 DEF Near, Nearest
  <2>4. e \in Nat /\ u \in Nat /\ u > 0
    BY <1>1, <2>1, ExponentIs, PowerIs
  <2>5. PICK c \in Int : c = a \div u + Up(a, u)
    BY <1>1, <2>1, <2>4, NaturalDivision DEF Up
  <2>6. Sign(n) \in Int
    BY DEF Sign
  <2>7. Sign(n) * c * u = Sign(n) * (c * u)
    BY <2>4, <2>5, <2>6
  <2> QED BY <2>2, <2>3, <2>5, <2>7
<1>4. CASE n < 0
  <2>1. Sign(n) = -1 /\ Abs(n) = -n /\ Round(p, n) = -b
    BY <1>3, <1>4 DEF Sign, Abs
  <2>2. Abs(-b) = b
    BY <1>2 DEF Abs
  <2> QED BY <1>1, <1>2, <1>3, <2>1, <2>2, ScalarAssumption DEF ScalarAssumption
<1>5. CASE ~(n < 0)
  <2>1. Sign(n) = 1 /\ Abs(n) = n /\ Round(p, n) = b
    BY <1>3, <1>5 DEF Sign, Abs
  <2>2. Abs(b) = b
    BY <1>2 DEF Abs
  <2> QED BY <1>1, <1>2, <1>3, <2>1, <2>2, ScalarAssumption DEF ScalarAssumption
<1> QED BY <1>4, <1>5

LEMMA RoundNaN == \A p : Round(p, NaN) = NaN
  BY DEF Round

LEMMA RoundOften ==
    ASSUME NEW p \in Nat \ {0}, NEW d \in Nat, p <= d, NEW n \in Floating
    PROVE  /\ Round(p, n) \in Floating /\ Round(p, Round(p, n)) = Round(p, n)
           /\ n = Round(p, n) => n = Round(d, n)
           /\ Round(d, n) = Round(p, Round(d, n)) => Round(p, n) = Round(d, n)
<1>1. CASE n = NaN
  BY <1>1, RoundNaN DEF Floating
<1>2. CASE n # NaN
  <2>1. n \in Int /\ d \in Nat \ {0}
    BY <1>2 DEF Floating
  <2>2. PICK r \in Int : r = Round(p, n) /\ Abs(r) = Near(p, Abs(n))
    BY <2>1, RoundIs
  <2>3. PICK a \in Nat : a = Abs(n)
    BY <2>1, RoundIs
  <2>4. Round(p, r) = r
    <3>1. Expressible(p, Near(p, a)) /\ Near(p, a) \in Nat
      BY NearIs
    <3>2. Near(p, Near(p, a)) = Near(p, a)
      BY <3>1, NearIs
    <3> QED BY <2>2, <2>3, <3>2, RoundIs
  <2>5. n = Round(p, n) => n = Round(d, n)
    <3>1. SUFFICES ASSUME n = Round(p, n) PROVE n = Round(d, n)
      OBVIOUS
    <3>2. Near(p, a) = a
      BY <2>1, <2>3, <3>1, RoundIs
    <3>3. Near(d, a) = a
      BY <2>1, <3>2, NearIs, MoreDigits
    <3> QED BY <2>1, <2>3, <3>3, RoundIs
  <2>6. Round(d, n) = Round(p, Round(d, n)) => Round(p, n) = Round(d, n)
    <3>1. SUFFICES ASSUME Round(d, n) = Round(p, Round(d, n)) PROVE Round(p, n) = Round(d, n)
      OBVIOUS
    <3>2. PICK s \in Int : s = Round(d, n) /\ Abs(s) = Near(d, a)
      BY <2>1, <2>3, RoundIs
    <3>3. Near(p, Near(d, a)) = Near(d, a) /\ Near(d, a) \in Nat
      BY <2>1, <3>1, <3>2, NearIs, RoundIs
    <3>4. Expressible(p, Near(d, a))
      BY <3>3, NearIs
    <3>5. Near(p, a) = Near(d, a)
      BY <3>4, NearTwice
    <3> QED BY <2>1, <2>3, <3>5, RoundIs
  <2> QED BY <2>2, <2>4, <2>5, <2>6 DEF Floating
<1> QED BY <1>1, <1>2

(* ------------------------------ the program's invariant ----------------------------- *)

(* A value of a type. *)
OfType(t, v) ==
    /\ t.kind = "int" => v \in Words(t.width)
    /\ t.kind = "float" => v \in Floating /\ Representable(t, v)
    /\ t.kind = "ptr" => v \in [space : Spaces, addr : Words(PtrWidth)]

(* What findBasePointer's answer and the provenance of a register have to do with each  *)
(* other: where both are there they agree, and a constant comes from a constant.        *)
Origin(r) ==
    /\ r.from.space \in Spaces
    /\ r.from.how = "ptrtoint" => r.prov # "none"
    /\ r.from.how # "none" /\ r.prov # "none" => r.from.space = r.prov
    /\ r.constant => /\ r.from.space = "global"
                     /\ r.prov # "none" => r.prov = "global"
                     /\ r.type = PtrT => r.val.space = "global"

Sound(r) == OfType(r.type, r.val) /\ Origin(r)

(* The inductive invariant.  PointersAsDefined is not inductive without Origin, nor      *)
(* NumbersAsDefined without OfType: the operators are right on values of their types.   *)
IInv ==
    /\ reg.type \in Types
    /\ \E m : reg.meant \subseteq {m}
    /\ stopped = "" => Sound(reg) /\ reg.meant \subseteq {reg.val}
    /\ stopped \notin {"", Limitation} => reg.meant = {}

LEMMA TypesAre ==
    ASSUME NEW t \in Types
    PROVE  /\ t.kind = "int" => t.width \in Widths /\ t.width \in Nat \ {0} /\ t = IntT(t.width)
           /\ t.kind = "float" => \E double \in BOOLEAN : t = FloatT(double)
           /\ t.kind = "ptr" <=> t = PtrT
           /\ t.kind \in {"int", "float", "ptr"}
<1>1. CASE \E w \in Widths : t = IntT(w)
  BY <1>1, ScalarAssumption DEF ScalarAssumption, IntT, PtrT
<1>2. CASE \E double \in BOOLEAN : t = FloatT(double)
  <2>1. t.kind = "float" /\ t # PtrT
    BY <1>2 DEF FloatT, PtrT
  <2> QED BY <1>2, <2>1
<1>3. CASE t = PtrT
  BY <1>3 DEF PtrT
<1> QED BY <1>1, <1>2, <1>3 DEF Types

LEMMA TypesHas ==
    /\ \A w \in Widths : IntT(w) \in Types /\ IntT(w).kind = "int" /\ IntT(w).width = w
    /\ \A double \in BOOLEAN : /\ FloatT(double) \in Types /\ FloatT(double).kind = "float"
                               /\ FloatT(double).double = double
    /\ PtrT \in Types /\ PtrT.kind = "ptr"
  BY DEF Types, IntT, FloatT, PtrT

LEMMA DigitsAre ==
    ASSUME NEW t
    PROVE  Digits(t) \in Nat \ {0} /\ Digits(t) <= DoubleBits
  BY ScalarAssumption DEF ScalarAssumption, Digits

(* The values a program starts with. *)
LEMMA RegisterSound ==
    ASSUME NEW t \in Types, NEW v \in Values(t)
    PROVE  /\ Sound(Register(t, v)) /\ Register(t, v).type = t /\ Register(t, v).val = v
           /\ Register(t, v).meant = {v} /\ OfType(t, v)
<1> DEFINE r == Register(t, v)
<1>1. /\ r.type = t /\ r.val = v /\ r.meant = {v} /\ r.from = NotFrom /\ r.prov = "none"
      /\ r.constant = (t.kind # "ptr" \/ v \in {p \in Pointers : p.space = "global"})
  BY DEF Register
<1>2. OfType(t, v)
  <2>1. CASE t.kind = "int"
    BY <2>1 DEF OfType, Values, Words
  <2>2. CASE t.kind = "float"
    BY <2>2, ScalarAssumption DEF OfType, Values, ScalarAssumption, Floating
  <2>3. CASE t.kind = "ptr"
    BY <2>3, ScalarAssumption DEF OfType, Values, ScalarAssumption, Words
  <2> QED BY <2>1, <2>2, <2>3, TypesAre
<1>3. NotFrom.how = "none" /\ NotFrom.space = "global" /\ "global" \in Spaces
  BY DEF NotFrom, Spaces
<1>4. ASSUME r.constant, t = PtrT PROVE v.space = "global"
  <2>1. t.kind = "ptr"
    BY <1>4 DEF PtrT
  <2>2. t.kind # "ptr" \/ v \in {p \in Pointers : p.space = "global"}
    BY <1>1, <1>4, Zenon
  <2> QED BY <2>1, <2>2
<1>5. Origin(r)
  <2> HIDE DEF r
  <2> QED BY <1>1, <1>3, <1>4 DEF Origin
<1> QED BY <1>1, <1>2, <1>5 DEF Sound

LEMMA PairIs ==
    \A x, y : <<x, y>>[1] = x /\ <<x, y>>[2] = y /\ DOMAIN <<x, y>> = {1, 2}
<1> SUFFICES ASSUME NEW x, NEW y
             PROVE  <<x, y>>[1] = x /\ <<x, y>>[2] = y /\ DOMAIN <<x, y>> = {1, 2}
  OBVIOUS
<1>1. DOMAIN <<x, y>> = 1 .. 2
  OBVIOUS
<1>2. 1 .. 2 = {1, 2}
  OBVIOUS
<1> QED BY <1>1, <1>2

LEMMA OperandsSound ==
    ASSUME IInv, stopped = "", NEW xy \in Operands
    PROVE  /\ Sound(xy[1]) /\ xy[1].type = reg.type /\ OfType(reg.type, xy[1].val)
           /\ Sound(xy[2]) /\ xy[2].type = reg.type /\ OfType(reg.type, xy[2].val)
           /\ DOMAIN xy = {1, 2}
<1>1. Sound(reg) /\ reg.type \in Types /\ OfType(reg.type, reg.val)
  BY DEF IInv, Sound
<1>2. \A v \in Values(reg.type) :
          /\ Sound(Register(reg.type, v)) /\ Register(reg.type, v).type = reg.type
          /\ OfType(reg.type, Register(reg.type, v).val)
  <2> SUFFICES ASSUME NEW v \in Values(reg.type)
               PROVE  /\ Sound(Register(reg.type, v)) /\ Register(reg.type, v).type = reg.type
                      /\ OfType(reg.type, Register(reg.type, v).val)
    OBVIOUS
  <2>1. PICK t \in Types : t = reg.type
    BY <1>1
  <2>2. v \in Values(t)
    BY <2>1
  <2>3. /\ Sound(Register(t, v)) /\ Register(t, v).type = t /\ Register(t, v).val = v
        /\ OfType(t, v)
    BY <2>2, RegisterSound
  <2> QED BY <2>1, <2>3, Zenon
<1>3. CASE \E v \in Values(reg.type) : xy = <<reg, Register(reg.type, v)>>
  <2>1. PICK v \in Values(reg.type) : xy = <<reg, Register(reg.type, v)>>
    BY <1>3
  <2>2. xy[1] = reg /\ xy[2] = Register(reg.type, v) /\ DOMAIN xy = {1, 2}
    BY <2>1, PairIs
  <2> QED BY <1>1, <1>2, <2>2
<1>4. CASE \E v \in Values(reg.type) : xy = <<Register(reg.type, v), reg>>
  <2>1. PICK v \in Values(reg.type) : xy = <<Register(reg.type, v), reg>>
    BY <1>4
  <2>2. xy[1] = Register(reg.type, v) /\ xy[2] = reg /\ DOMAIN xy = {1, 2}
    BY <2>1, PairIs
  <2> QED BY <1>1, <1>2, <2>2
<1> QED BY <1>3, <1>4 DEF Operands

(* What the operands of an instruction and its result have to fulfil. *)
RightResult(t, result, meant) ==
    /\ result.stop = "" => OfType(t, result.val) /\ meant \subseteq {result.val}
    /\ result.stop \notin {"", Limitation} => meant = {}
    /\ \E m : meant \subseteq {m}

AllConstant(operands) == \A i \in DOMAIN operands : operands[i].constant

RightOrigin(t, val, operands, from, prov) ==
    /\ from.space \in Spaces
    /\ from.how = "ptrtoint" => prov # "none"
    /\ from.how # "none" /\ prov # "none" => from.space = prov
    /\ AllConstant(operands) => /\ from.space = "global"
                                /\ prov # "none" => prov = "global"
                                /\ t = PtrT => val.space = "global"

LEMMA BindFromKeeps ==
    ASSUME NEW t \in Types, NEW result, NEW meant, NEW operands, NEW from, NEW prov,
           BindFrom(t, result, meant, operands, from, prov),
           RightResult(t, result, meant),
           result.stop = "" => RightOrigin(t, result.val, operands, from, prov)
    PROVE  IInv'
<1>1. PICK c \in {FALSE, AllConstant(operands)} :
          reg' = [type |-> t, val |-> result.val, meant |-> meant,
                  from |-> from, prov |-> prov, constant |-> c]
  BY DEF BindFrom, AllConstant
<1>2. stopped' = result.stop
  BY DEF BindFrom
<1>3. /\ reg'.type = t /\ reg'.val = result.val /\ reg'.meant = meant
      /\ reg'.from = from /\ reg'.prov = prov /\ reg'.constant = c
  BY <1>1
<1>4. c => AllConstant(operands)
  BY <1>1
<1>5. ASSUME stopped' = "" PROVE Sound(reg')
  <2>1. RightOrigin(t, result.val, operands, from, prov) /\ OfType(t, result.val)
    BY <1>2, <1>5 DEF RightResult
  <2>2. Origin(reg')
    BY <1>3, <1>4, <2>1 DEF Origin, RightOrigin
  <2> QED BY <1>3, <2>1, <2>2 DEF Sound
<1> QED BY <1>2, <1>3, <1>5 DEF IInv, RightResult

(* The result has nothing to do with a pointer. *)
LEMMA BindKeeps ==
    ASSUME NEW t \in Types, NEW result, NEW meant, NEW operands,
           Bind(t, result, meant, operands),
           RightResult(t, result, meant),
           t = PtrT /\ result.stop = "" /\ AllConstant(operands) => result.val.space = "global"
    PROVE  IInv'
<1>1. BindFrom(t, result, meant, operands, NotFrom, "none")
  BY DEF Bind
<1>2. NotFrom.how = "none" /\ NotFrom.space = "global" /\ "global" \in Spaces
  BY DEF NotFrom, Spaces
<1>3. result.stop = "" => RightOrigin(t, result.val, operands, NotFrom, "none")
  BY <1>2 DEF RightOrigin
<1> QED BY <1>1, <1>3, BindFromKeeps

LEMMA WordRight ==
    ASSUME NEW w \in Widths, NEW result, NEW meant, RightWord(w, result, meant)
    PROVE  RightResult(IntT(w), result, meant) /\ IntT(w) \in Types /\ IntT(w) # PtrT
<1>1. IntT(w) \in Types /\ IntT(w).kind = "int" /\ IntT(w).width = w /\ IntT(w) # PtrT
  BY TypesHas DEF PtrT
<1>2. result.val \in Words(w) => OfType(IntT(w), result.val)
  BY <1>1 DEF OfType
<1>3. \E m : meant \subseteq {m}
  BY DEF RightWord
<1> QED BY <1>1, <1>2, <1>3 DEF RightWord, RightResult

LEMMA NumberRight ==
    ASSUME NEW double \in BOOLEAN, NEW r \in Floating, Representable(FloatT(double), r)
    PROVE  /\ RightResult(FloatT(double), Value(r), {r})
           /\ FloatT(double) \in Types /\ FloatT(double) # PtrT
<1>1. FloatT(double) \in Types /\ FloatT(double).kind = "float" /\ FloatT(double) # PtrT
  BY TypesHas DEF PtrT
<1>2. OfType(FloatT(double), r)
  BY <1>1 DEF OfType
<1> QED BY <1>1, <1>2, ValueIs DEF RightResult

(* ----------------------------- one lemma for each action ---------------------------- *)

LEMMA RunningIs ==
    ASSUME IInv, NEW kind, Running(kind)
    PROVE  /\ stopped = "" /\ reg.type \in Types /\ reg.type.kind = kind
           /\ OfType(reg.type, reg.val) /\ Origin(reg)
  BY DEF IInv, Running, Sound

(* An add of a pointer's address: the space that findBasePointer finds is that of the   *)
(* provenance, and constants lead to constants.                                         *)
LEMMA ProvenanceRight ==
    ASSUME IInv, stopped = "", NEW xy \in Operands, NEW op \in IntBinOps, NEW t, t # PtrT, NEW val
    PROVE  RightOrigin(t, val, xy, FromAdd(op, xy[1]), Provenance(op, xy[1], xy[2]))
<1>1. PICK x, y : x = xy[1] /\ y = xy[2]
  OBVIOUS
<1>2. Origin(x) /\ Origin(y) /\ (AllConstant(xy) => x.constant /\ y.constant)
  BY <1>1, OperandsSound DEF Sound, AllConstant
<1>3. PICK from, prov : from = FromAdd(op, x) /\ prov = Provenance(op, x, y)
  OBVIOUS
<1>4. NotFrom.how = "none" /\ NotFrom.space = "global" /\ "global" \in Spaces
  BY DEF NotFrom, Spaces
<1>5. prov \in {x.prov, y.prov, "none"}
  BY <1>3 DEF Provenance
<1>6. CASE op = "add" /\ x.from.how = "ptrtoint"
  <2>1. from.how = "add" /\ from.space = x.from.space
    BY <1>3, <1>6 DEF FromAdd
  <2>2. x.prov # "none" /\ x.from.space = x.prov
    BY <1>2, <1>6 DEF Origin
  <2>3. prov # "none" => prov = x.prov
    BY <1>3, <2>2 DEF Provenance
  <2>4. RightOrigin(t, val, xy, from, prov)
    BY <1>2, <2>1, <2>2, <2>3 DEF RightOrigin, Origin
  <2> QED BY <1>1, <1>3, <2>4
<1>7. CASE ~(op = "add" /\ x.from.how = "ptrtoint")
  <2>1. from = NotFrom
    BY <1>3, <1>7 DEF FromAdd
  <2>2. RightOrigin(t, val, xy, from, prov)
    BY <1>2, <1>4, <1>5, <2>1 DEF RightOrigin, Origin
  <2> QED BY <1>1, <1>3, <2>2
<1> QED BY <1>6, <1>7

LEMMA IntBinOpKeeps == ASSUME IInv, IntBinOp PROVE IInv'
<1>1. /\ stopped = "" /\ reg.type \in Types /\ reg.type.kind = "int"
  BY RunningIs DEF IntBinOp
<1>2. PICK w \in Widths : w \in Nat \ {0} /\ w = reg.type.width /\ reg.type = IntT(w)
  BY <1>1, TypesAre
<1>3. PICK op \in IntBinOps, xy \in Operands :
          BindFrom(reg.type, EvaluateIntBinOp(op, w, xy[1].val, xy[2].val),
                   IntMeaning(op, w, xy[1].val, xy[2].val), xy,
                   FromAdd(op, xy[1]), Provenance(op, xy[1], xy[2]))
  BY <1>2 DEF IntBinOp
<1>4. xy[1].val \in Words(w) /\ xy[2].val \in Words(w)
  BY <1>1, <1>2, OperandsSound DEF OfType
<1>5. PICK result, meant : /\ result = EvaluateIntBinOp(op, w, xy[1].val, xy[2].val)
                           /\ meant = IntMeaning(op, w, xy[1].val, xy[2].val)
  OBVIOUS
<1>6. RightWord(w, result, meant)
  BY <1>2, <1>3, <1>4, <1>5, IntBinOpRight
<1>7. RightResult(IntT(w), result, meant) /\ IntT(w) # PtrT
  BY <1>6, WordRight
<1>8. RightOrigin(reg.type, result.val, xy, FromAdd(op, xy[1]), Provenance(op, xy[1], xy[2]))
  BY <1>1, <1>2, <1>3, <1>7, ProvenanceRight
<1> QED BY <1>1, <1>2, <1>3, <1>5, <1>7, <1>8, BindFromKeeps

(* The predicates of icmp are decided on the addresses alone; those that the language    *)
(* decides for two spaces are right as long as the addresses differ.                    *)
LEMMA PointerComparison ==
    ASSUME NEW p \in ICmpPredicates, NEW x, NEW y, x.addr \in Int, y.addr \in Int,
           x.addr = y.addr => x.space = y.space
    PROVE  RightWord(1, ICmp(p, PtrT, x, y), ICmpMeaning(p, PtrT, x, y))
<1>1. ICmp(p, PtrT, x, y) = Value(Compare(PtrWidth, p, x.addr, y.addr))
  BY TypesHas DEF ICmp
<1>2. Words(1) = {0, 1}
  BY WidthIs, PowerIs DEF Words
<1>3. Compare(PtrWidth, p, x.addr, y.addr) \in {0, 1}
  BY DEF Compare, Truth
<1>4. ICmpMeaning(p, PtrT, x, y) \subseteq {Compare(PtrWidth, p, x.addr, y.addr)}
  <2>1. CASE x.space = y.space
    BY <2>1, TypesHas DEF ICmpMeaning
  <2>2. CASE x.space # y.space
    <3>1. Relation(x.addr, y.addr) \in {"less", "greater"}
      BY <2>2 DEF Relation
    <3>2. \/ p.signed = FALSE
          \/ p.rel \notin {{}, Orders, {"equal"}, {"less", "greater"}}
      BY DEF ICmpPredicates
    <3>3. ASSUME p.rel \in {{"equal"}, {"less", "greater"}} PROVE ~p.signed
      <4>1. p.signed = FALSE
        BY <3>2, <3>3
      <4> QED BY <4>1
    <3>4. CASE p.rel = {"equal"}
      <4>1. Compare(PtrWidth, p, x.addr, y.addr) = 0
        BY <3>1, <3>3, <3>4 DEF Compare, Truth
      <4> QED BY <2>2, <3>4, <4>1, TypesHas DEF ICmpMeaning
    <3>5. CASE p.rel = {"less", "greater"}
      <4>1. Compare(PtrWidth, p, x.addr, y.addr) = 1
        BY <3>1, <3>3, <3>5 DEF Compare, Truth
      <4> QED BY <2>2, <3>5, <4>1, TypesHas DEF ICmpMeaning, Means
    <3>6. CASE p.rel # {"equal"} /\ p.rel # {"less", "greater"}
      BY <2>2, <3>6, TypesHas DEF ICmpMeaning, Means
    <3> QED BY <3>4, <3>5, <3>6
  <2> QED BY <2>1, <2>2
<1> QED BY <1>1, <1>2, <1>3, <1>4, RightValue

LEMMA IntComparison ==
    ASSUME NEW p, NEW w, NEW x, NEW y
    PROVE  RightWord(1, ICmp(p, IntT(w), x, y), ICmpMeaning(p, IntT(w), x, y))
<1>1. IntT(w).kind = "int" /\ IntT(w).width = w
  BY DEF IntT
<1>2. Words(1) = {0, 1}
  BY WidthIs, PowerIs DEF Words
<1>3. ICmp(p, IntT(w), x, y) = Value(Compare(w, p, x, y)) /\ Compare(w, p, x, y) \in {0, 1}
  BY <1>1 DEF ICmp, Compare, Truth
<1>4. ICmpMeaning(p, IntT(w), x, y) = {Compare(w, p, x, y)}
  BY <1>1 DEF ICmpMeaning, Compare
<1> QED BY <1>2, <1>3, <1>4, RightValue

LEMMA ICmpKeeps ==
    ASSUME IInv, ICmpInst({xy \in Operands : ToldApart(xy[1], xy[2])})
    PROVE  IInv'
<1>1. stopped = "" /\ reg.type \in Types /\ reg.type.kind \in {"int", "ptr"}
  BY RunningIs DEF ICmpInst
<1>2. PICK p \in ICmpPredicates, xy \in {pair \in Operands : ToldApart(pair[1], pair[2])} :
          Bind(IntT(1), ICmp(p, reg.type, xy[1].val, xy[2].val),
               ICmpMeaning(p, reg.type, xy[1].val, xy[2].val), xy)
  BY DEF ICmpInst
<1>3. PICK result, meant : /\ result = ICmp(p, reg.type, xy[1].val, xy[2].val)
                           /\ meant = ICmpMeaning(p, reg.type, xy[1].val, xy[2].val)
  OBVIOUS
<1>4. xy \in Operands /\ ToldApart(xy[1], xy[2])
  BY <1>2
<1>5. RightWord(1, result, meant)
  <2>1. CASE reg.type.kind = "int"
    BY <1>1, <1>3, <2>1, TypesAre, IntComparison
  <2>2. CASE reg.type.kind = "ptr"
    <3>1. reg.type = PtrT
      BY <1>1, <2>2, TypesAre
    <3>2. /\ xy[1].val \in [space : Spaces, addr : Words(PtrWidth)] /\ xy[1].type = PtrT
          /\ xy[2].val \in [space : Spaces, addr : Words(PtrWidth)]
      BY <1>1, <1>4, <2>2, <3>1, OperandsSound DEF OfType
    <3>3. xy[1].val.addr \in Int /\ xy[2].val.addr \in Int
      BY <3>2 DEF Words
    <3>4. xy[1].val.addr = xy[2].val.addr => xy[1].val.space = xy[2].val.space
      BY <1>4, <3>2 DEF ToldApart
    <3> QED BY <1>2, <1>3, <3>1, <3>3, <3>4, PointerComparison
  <2> QED BY <1>1, <2>1, <2>2
<1>6. 1 \in Widths
  BY ScalarAssumption DEF ScalarAssumption
<1>7. RightResult(IntT(1), result, meant) /\ IntT(1) \in Types /\ IntT(1) # PtrT
  BY <1>5, <1>6, WordRight
<1> QED BY <1>2, <1>3, <1>7, BindKeeps

LEMMA FCmpKeeps ==
    ASSUME IInv, FCmpExpr(FCmpPredicates \ {Orders \cup {"unordered"}})
    PROVE  IInv'
<1>1. PICK p \in FCmpPredicates \ {Orders \cup {"unordered"}}, xy \in Operands :
          Bind(IntT(1), FCmpConstant(p, xy[1].val, xy[2].val),
               FCmpMeaning(p, xy[1].val, xy[2].val), xy)
  BY DEF FCmpExpr
<1>2. PICK truth : truth = Truth(FRelation(xy[1].val, xy[2].val) \in p)
  OBVIOUS
<1>3. truth \in Words(1)
  <2>1. Words(1) = {0, 1}
    BY WidthIs, PowerIs DEF Words
  <2> QED BY <1>2, <2>1 DEF Truth
<1>4. FCmpConstant(p, xy[1].val, xy[2].val) = Value(truth)
  BY <1>1, <1>2 DEF FCmpConstant
<1>5. FCmpMeaning(p, xy[1].val, xy[2].val) = {truth}
  BY <1>2 DEF FCmpMeaning
<1>6. RightWord(1, Value(truth), {truth}) /\ 1 \in Widths
  BY <1>3, RightValue, ScalarAssumption DEF ScalarAssumption
<1>7. RightResult(IntT(1), Value(truth), {truth}) /\ IntT(1) \in Types /\ IntT(1) # PtrT
  BY <1>6, WordRight
<1> QED BY <1>1, <1>4, <1>5, <1>7, BindKeeps

(* A sum of floats is computed as a double; if a float can hold it, it is the sum that   *)
(* the type's own arithmetic has.                                                       *)
LEMMA FloatBinOpRight ==
    ASSUME NEW t \in Types, NEW op \in FloatBinOps \ {"frem"},
           NEW x \in Floating, NEW y \in Floating,
           Representable(t, EvaluateFloatBinOp(op, x, y))
    PROVE  /\ EvaluateFloatBinOp(op, x, y) \in Floating
           /\ FloatMeaning(op, Digits(t), x, y) = {EvaluateFloatBinOp(op, x, y)}
<1>1. Digits(t) \in Nat \ {0} /\ Digits(t) <= DoubleBits /\ DoubleBits \in Nat
  BY DigitsAre, ScalarAssumption DEF ScalarAssumption
<1>2. CASE x = NaN \/ y = NaN
  BY <1>2 DEF EvaluateFloatBinOp, FloatMeaning, Floating
<1>3. CASE x # NaN /\ y # NaN
  <2>1. x \in Int /\ y \in Int
    BY <1>3 DEF Floating
  <2>2. PICK n \in Int : n = IF op = "fadd" THEN x + y ELSE IF op = "fsub" THEN x - y ELSE x * y
    BY <2>1
  <2>3. op = "fadd" \/ op = "fsub" \/ op = "fmul"
    BY DEF FloatBinOps
  <2>4. EvaluateFloatBinOp(op, x, y) = Round(DoubleBits, n)
    BY <1>3, <2>2, <2>3 DEF EvaluateFloatBinOp
  <2>5. FloatMeaning(op, Digits(t), x, y) = {Round(Digits(t), n)}
    BY <1>3, <2>2, <2>3 DEF FloatMeaning
  <2>6. n \in Floating
    BY <2>2 DEF Floating
  <2>7. Round(DoubleBits, n) = Round(Digits(t), Round(DoubleBits, n))
    BY <2>4 DEF Representable
  <2>8. Round(Digits(t), n) = Round(DoubleBits, n)
    BY <1>1, <2>6, <2>7, RoundOften
  <2>9. Round(Digits(t), n) \in Floating
    BY <1>1, <2>6, RoundOften
  <2> QED BY <2>4, <2>5, <2>8, <2>9
<1> QED BY <1>2, <1>3

LEMMA FloatBinOpKeeps ==
    ASSUME IInv, FloatBinOp(FloatBinOps \ {"frem"})
    PROVE  IInv'
<1>1. stopped = "" /\ reg.type \in Types /\ reg.type.kind = "float"
  BY RunningIs DEF FloatBinOp
<1>2. PICK op \in FloatBinOps \ {"frem"}, xy \in Operands :
          LET r == EvaluateFloatBinOp(op, xy[1].val, xy[2].val)
          IN  /\ Representable(reg.type, r)
              /\ Bind(reg.type, Value(r),
                      FloatMeaning(op, Digits(reg.type), xy[1].val, xy[2].val), xy)
  BY DEF FloatBinOp
<1>3. xy[1].val \in Floating /\ xy[2].val \in Floating
  BY <1>1, OperandsSound DEF OfType
<1>4. PICK r : r = EvaluateFloatBinOp(op, xy[1].val, xy[2].val)
  OBVIOUS
<1>5. r \in Floating /\ FloatMeaning(op, Digits(reg.type), xy[1].val, xy[2].val) = {r}
  <2>1. Representable(reg.type, EvaluateFloatBinOp(op, xy[1].val, xy[2].val))
    BY <1>2
  <2>2. PICK x, y, type : x = xy[1].val /\ y = xy[2].val /\ type = reg.type
    OBVIOUS
  <2>3. /\ x \in Floating /\ y \in Floating /\ type \in Types
        /\ Representable(type, EvaluateFloatBinOp(op, x, y))
    BY <1>1, <1>3, <2>1, <2>2
  <2>4. r \in Floating /\ FloatMeaning(op, Digits(type), x, y) = {r}
    BY <1>4, <2>2, <2>3, FloatBinOpRight
  <2> QED BY <2>2, <2>4
<1>6. PICK t \in Types : t = reg.type /\ Representable(t, r) /\ Bind(t, Value(r), {r}, xy)
  BY <1>1, <1>2, <1>4, <1>5
<1>7. PICK double \in BOOLEAN : t = FloatT(double)
  BY <1>1, <1>6, TypesAre
<1>8. RightResult(FloatT(double), Value(r), {r}) /\ FloatT(double) # PtrT
  BY <1>5, <1>6, <1>7, NumberRight
<1> QED BY <1>6, <1>7, <1>8, BindKeeps

LEMMA CastKeeps == ASSUME IInv, Cast PROVE IInv'
<1>1. stopped = "" /\ reg.type \in Types /\ reg.type.kind = "int" /\ OfType(reg.type, reg.val)
  BY RunningIs DEF Cast
<1>2. PICK from \in Nat \ {0} : from = reg.type.width /\ reg.val \in Words(from)
  BY <1>1, TypesAre DEF OfType
<1>3. PICK op \in IntCasts, w \in Widths :
          /\ IF op = "trunc" THEN w < reg.type.width ELSE w > reg.type.width
          /\ Bind(IntT(w), Value(IntCast(op, reg.type.width, w, reg.val)),
                  IntCastMeaning(op, reg.type.width, w, reg.val), <<reg>>)
  BY DEF Cast
<1>4. w \in Nat \ {0} /\ (op # "trunc" => from < w)
  BY <1>2, <1>3, ScalarAssumption DEF ScalarAssumption
<1>5. PICK v : v = IntCast(op, from, w, reg.val)
  OBVIOUS
<1>6. v \in Words(w) /\ IntCastMeaning(op, from, w, reg.val) = {v}
  BY <1>2, <1>3, <1>4, <1>5, IntCastRight
<1>7. Bind(IntT(w), Value(v), {v}, <<reg>>)
  BY <1>2, <1>3, <1>5, <1>6
<1>8. RightWord(w, Value(v), {v})
  BY <1>6, RightValue
<1>9. RightResult(IntT(w), Value(v), {v}) /\ IntT(w) \in Types /\ IntT(w) # PtrT
  BY <1>3, <1>8, WordRight
<1> QED BY <1>7, <1>9, BindKeeps

LEMMA FPCastKeeps == ASSUME IInv, FPCast PROVE IInv'
<1>1. stopped = "" /\ reg.type \in Types /\ reg.type.kind = "float" /\ OfType(reg.type, reg.val)
  BY RunningIs DEF FPCast
<1>2. reg.val \in Floating /\ Representable(reg.type, reg.val)
  BY <1>1 DEF OfType
<1>3. SingleBits \in Nat \ {0} /\ DoubleBits \in Nat /\ SingleBits <= DoubleBits
  BY ScalarAssumption DEF ScalarAssumption
<1>4. FloatT(FALSE).double = FALSE /\ FloatT(TRUE).double = TRUE
  BY DEF FloatT
<1>5. CASE reg.type.double
  <2>1. PICK v : v = Round(SingleBits, reg.val)
    OBVIOUS
  <2>2. Bind(FloatT(FALSE), Value(v), {v}, <<reg>>)
    BY <1>5, <2>1 DEF FPCast, FPTrunc
  <2>3. v \in Floating /\ v = Round(SingleBits, v)
    BY <1>2, <1>3, <2>1, RoundOften
  <2>4. Representable(FloatT(FALSE), v)
    BY <1>4, <2>3 DEF Representable, Digits
  <2>5. /\ RightResult(FloatT(FALSE), Value(v), {v})
        /\ FloatT(FALSE) \in Types /\ FloatT(FALSE) # PtrT
    BY <2>3, <2>4, NumberRight
  <2> QED BY <2>2, <2>5, BindKeeps
<1>6. CASE ~reg.type.double
  <2>1. PICK v : v = reg.val
    OBVIOUS
  <2>2. Bind(FloatT(TRUE), Value(v), {v}, <<reg>>)
    BY <1>6, <2>1 DEF FPCast
  <2>3. v \in Floating /\ v = Round(SingleBits, v)
    BY <1>2, <1>6, <2>1 DEF Representable, Digits
  <2>4. v = Round(DoubleBits, v)
    BY <1>3, <2>3, RoundOften
  <2>5. Representable(FloatT(TRUE), v)
    BY <1>4, <2>4 DEF Representable, Digits
  <2>6. /\ RightResult(FloatT(TRUE), Value(v), {v})
        /\ FloatT(TRUE) \in Types /\ FloatT(TRUE) # PtrT
    BY <2>3, <2>5, NumberRight
  <2> QED BY <2>2, <2>6, BindKeeps
<1> QED BY <1>5, <1>6

(* The integer is taken for an unsigned one: right for uitofp, and for sitofp as long as  *)
(* it is not negative.                                                                   *)
LEMMA IntToFPKeeps ==
    ASSUME IInv, NEW op, IntToFPCast(op), op = "sitofp" => NonNegative
    PROVE  IInv'
<1>1. stopped = "" /\ reg.type \in Types /\ reg.type.kind = "int" /\ OfType(reg.type, reg.val)
  BY RunningIs DEF IntToFPCast
<1>2. PICK w \in Nat \ {0} : \E n \in Words(w) : w = reg.type.width /\ n = reg.val
  BY <1>1, TypesAre DEF OfType
<1> PICK n \in Words(w) : n = reg.val
  BY <1>2
<1>3. PICK double \in BOOLEAN :
          LET t == FloatT(double)
              r == IntToFP(n)
          IN  /\ Representable(t, r)
              /\ Bind(t, Value(r), IntToFPMeaning(op, w, Digits(t), n), <<reg>>)
  BY <1>2 DEF IntToFPCast
<1>4. PICK t, r : t = FloatT(double) /\ r = Round(DoubleBits, n)
  OBVIOUS
<1>5. r = Round(Digits(t), r) /\ Bind(t, Value(r), IntToFPMeaning(op, w, Digits(t), n), <<reg>>)
  BY <1>3, <1>4 DEF IntToFP, Representable
<1>6. n \in Nat /\ n \in Floating
  BY <1>2, WordIs DEF Floating
<1>7. op = "sitofp" => Signed(w, n) = n
  BY <1>2, SignedIs DEF NonNegative
<1>8. IntToFPMeaning(op, w, Digits(t), n) = {Round(Digits(t), n)}
  BY <1>7 DEF IntToFPMeaning
<1>9. Digits(t) \in Nat \ {0} /\ Digits(t) <= DoubleBits /\ DoubleBits \in Nat
  BY DigitsAre, ScalarAssumption DEF ScalarAssumption
<1>10. Round(Digits(t), n) = r /\ r \in Floating
  BY <1>4, <1>5, <1>6, <1>9, RoundOften
<1>11. RightResult(t, Value(r), {r}) /\ t \in Types /\ t # PtrT
  BY <1>4, <1>5, <1>10, NumberRight DEF Representable
<1> QED BY <1>5, <1>8, <1>10, <1>11, BindKeeps

LEMMA FPToIntKeeps == ASSUME IInv, FPToIntCast PROVE IInv'
<1>1. stopped = "" /\ reg.type \in Types /\ reg.type.kind = "float" /\ OfType(reg.type, reg.val)
  BY RunningIs DEF FPToIntCast
<1>2. PICK x \in Floating : x = reg.val
  BY <1>1 DEF OfType
<1>3. PICK op \in {"fptoui", "fptosi"}, w \in Widths :
          Bind(IntT(w), Value(FPToInt(w, x)), FPToIntMeaning(op, w, x), <<reg>>)
  BY <1>2 DEF FPToIntCast
<1>4. PICK v, meant : v = FPToInt(w, x) /\ meant = FPToIntMeaning(op, w, x)
  OBVIOUS
<1>5. w \in Nat \ {0}
  BY <1>3, ScalarAssumption DEF ScalarAssumption
<1>6. v \in Words(w)
  <2>1. CASE x = NaN
    BY <1>4, <1>5, <2>1, WidthIs DEF FPToInt, Words
  <2>2. CASE x # NaN
    BY <1>2, <1>4, <1>5, <2>2, WrapIs DEF FPToInt, Floating
  <2> QED BY <2>1, <2>2
<1>7. meant \subseteq {v}
  BY <1>4 DEF FPToIntMeaning, FPToInt, Means
<1>8. RightWord(w, Value(v), meant)
  BY <1>6, <1>7, RightValue
<1>9. RightResult(IntT(w), Value(v), meant) /\ IntT(w) \in Types /\ IntT(w) # PtrT
  BY <1>3, <1>8, WordRight
<1> QED BY <1>3, <1>4, <1>9, BindKeeps

LEMMA OneConstant == \A r : AllConstant(<<r>>) => r.constant
<1> SUFFICES ASSUME NEW r, AllConstant(<<r>>) PROVE r.constant
  OBVIOUS
<1>1. PICK operands : operands = <<r>>
  OBVIOUS
<1>2. 1 \in DOMAIN operands /\ operands[1] = r
  BY <1>1
<1>3. \A i \in DOMAIN operands : operands[i].constant
  BY <1>1 DEF AllConstant
<1> QED BY <1>2, <1>3, Zenon

LEMMA PtrToIntKeeps == ASSUME IInv, PtrToIntCast PROVE IInv'
<1>1. /\ stopped = "" /\ reg.type \in Types /\ reg.type.kind = "ptr" /\ Origin(reg)
      /\ reg.val \in [space : Spaces, addr : Words(PtrWidth)]
  BY RunningIs DEF PtrToIntCast, OfType
<1>2. reg.type = PtrT /\ reg.val.space \in Spaces /\ reg.val.addr \in Int
  <2>1. reg.type = PtrT
    BY <1>1, TypesAre
  <2>2. reg.val.space \in Spaces /\ reg.val.addr \in Words(PtrWidth)
    BY <1>1
  <2> QED BY <2>1, <2>2 DEF Words
<1>3. PICK w \in Widths :
          BindFrom(IntT(w), Value(PtrToInt(w, reg.val)), {PtrToInt(w, reg.val)}, <<reg>>,
                   FromPtr(reg.val), reg.val.space)
  BY DEF PtrToIntCast
<1>4. PICK v, from, space : /\ v = PtrToInt(w, reg.val) /\ from = FromPtr(reg.val)
                            /\ space = reg.val.space
  OBVIOUS
<1>5. w \in Nat
  BY <1>3, ScalarAssumption DEF ScalarAssumption
<1>6. v \in Words(w)
  BY <1>2, <1>4, <1>5, WrapIs DEF PtrToInt
<1>7. RightWord(w, Value(v), {v})
  BY <1>6, RightValue
<1>8. RightResult(IntT(w), Value(v), {v}) /\ IntT(w) \in Types /\ IntT(w) # PtrT
  BY <1>3, <1>7, WordRight
<1>9. from.how = "ptrtoint" /\ from.space = space /\ space \in Spaces /\ space # "none"
  BY <1>2, <1>4 DEF FromPtr, Spaces
<1>10. AllConstant(<<reg>>) => space = "global"
  BY <1>1, <1>2, <1>4, OneConstant DEF Origin
<1>11. RightOrigin(IntT(w), v, <<reg>>, from, space)
  BY <1>8, <1>9, <1>10 DEF RightOrigin
<1>12. Value(v).val = v /\ BindFrom(IntT(w), Value(v), {v}, <<reg>>, from, space)
  BY <1>3, <1>4, ValueIs
<1> QED BY <1>8, <1>11, <1>12, BindFromKeeps

(* The space found is the one that the integer's pointer came from; a constant          *)
(* expression gives a pointer into the global space, where its operand came from too.    *)
LEMMA IntToPtrKeeps == ASSUME IInv, IntToPtrCast PROVE IInv'
<1>1. /\ stopped = "" /\ reg.type \in Types /\ reg.type.kind = "int" /\ Origin(reg)
      /\ OfType(reg.type, reg.val)
  BY RunningIs DEF IntToPtrCast
<1>2. PICK from \in Nat \ {0} : reg.val \in Words(from)
  BY <1>1, TypesAre DEF OfType
<1>3. PICK addr \in Words(PtrWidth) : addr = Wrap(PtrWidth, reg.val)
  BY <1>2, SignedIs, WrapIs, ScalarAssumption DEF ScalarAssumption
<1>4. PtrT \in Types /\ PtrT.kind = "ptr"
  BY TypesHas
<1>5. ASSUME NEW space \in Spaces
      PROVE  /\ OfType(PtrT, [space |-> space, addr |-> addr])
             /\ [space |-> space, addr |-> addr].space = space
  BY <1>3, <1>4 DEF OfType
<1>6. IntToPtrMeaning(reg) = Means(reg.prov # "none", [space |-> reg.prov, addr |-> addr])
  BY <1>3 DEF IntToPtrMeaning
<1>7. CASE reg.from.how = "none" /\ Bind(PtrT, IntToPtr(reg), IntToPtrMeaning(reg), <<reg>>)
  <2>0. IntToPtr(reg) = Stop(Limitation)
    BY <1>7 DEF IntToPtr, Limitation
  <2>1. PICK result : result = IntToPtr(reg) /\ result.stop = Limitation
    BY <2>0, StopIs
  <2>2. \E m : IntToPtrMeaning(reg) \subseteq {m}
    BY <1>6 DEF Means
  <2>3. RightResult(PtrT, result, IntToPtrMeaning(reg))
    BY <2>1, <2>2 DEF RightResult, Limitation
  <2>4. result.stop # ""
    BY <2>1 DEF Limitation
  <2> QED BY <1>4, <1>7, <2>1, <2>3, <2>4, BindKeeps
<1>8. CASE reg.from.how # "none" /\ Bind(PtrT, IntToPtr(reg), IntToPtrMeaning(reg), <<reg>>)
  <2>1. PICK v : v = [space |-> reg.from.space, addr |-> addr]
    OBVIOUS
  <2>2. IntToPtr(reg) = Value(v)
    BY <1>3, <1>8, <2>1 DEF IntToPtr
  <2>3. reg.from.space \in Spaces /\ (reg.prov # "none" => reg.from.space = reg.prov)
    BY <1>1, <1>8 DEF Origin
  <2>4. OfType(PtrT, v) /\ v.space = reg.from.space
    BY <1>5, <2>1, <2>3
  <2>5. IntToPtrMeaning(reg) \subseteq {v}
    BY <1>6, <2>1, <2>3 DEF Means
  <2>6. RightResult(PtrT, Value(v), IntToPtrMeaning(reg))
    BY <2>4, <2>5, ValueIs DEF RightResult
  <2>7. AllConstant(<<reg>>) => v.space = "global"
    BY <1>1, <2>4, OneConstant DEF Origin
  <2> QED BY <1>4, <1>8, <2>2, <2>6, <2>7, ValueIs, BindKeeps
<1>9. CASE reg.constant /\ Bind(PtrT, IntToPtrConstant(reg), IntToPtrMeaning(reg), <<reg>>)
  <2>1. PICK v : v = [space |-> "global", addr |-> addr]
    OBVIOUS
  <2>2. IntToPtrConstant(reg) = Value(v)
    BY <1>3, <2>1 DEF IntToPtrConstant
  <2>3. reg.prov # "none" => reg.prov = "global"
    BY <1>1, <1>9 DEF Origin
  <2>4. OfType(PtrT, v) /\ v.space = "global"
    BY <1>5, <2>1 DEF Spaces
  <2>5. IntToPtrMeaning(reg) \subseteq {v}
    BY <1>6, <2>1, <2>3 DEF Means
  <2>6. RightResult(PtrT, Value(v), IntToPtrMeaning(reg))
    BY <2>4, <2>5, ValueIs DEF RightResult
  <2> QED BY <1>4, <1>9, <2>2, <2>4, <2>6, ValueIs, BindKeeps
<1> QED BY <1>7, <1>8, <1>9 DEF IntToPtrCast

LEMMA SelectKeeps == ASSUME IInv, Select PROVE IInv'
<1>1. /\ stopped = "" /\ reg.type \in Types /\ reg.type.kind = "int" /\ reg.type.width = 1
      /\ OfType(reg.type, reg.val)
  BY RunningIs DEF Select
<1>2. reg.val \in {0, 1}
  <2>1. Words(1) = {0, 1}
    BY WidthIs, PowerIs DEF Words
  <2> QED BY <1>1, <2>1 DEF OfType
<1>3. PICK t \in Types : \E v1, v2 \in Values(t) :
          Bind(t, Value(IF reg.val = 1 THEN v1 ELSE v2), {IF reg.val # 0 THEN v1 ELSE v2},
               <<reg, Register(t, v1), Register(t, v2)>>)
  BY DEF Select
<1>4. PICK v1 \in Values(t) : \E v2 \in Values(t) :
          Bind(t, Value(IF reg.val = 1 THEN v1 ELSE v2), {IF reg.val # 0 THEN v1 ELSE v2},
               <<reg, Register(t, v1), Register(t, v2)>>)
  BY <1>3
<1>5. PICK v2 \in Values(t) :
          Bind(t, Value(IF reg.val = 1 THEN v1 ELSE v2), {IF reg.val # 0 THEN v1 ELSE v2},
               <<reg, Register(t, v1), Register(t, v2)>>)
  BY <1>4
<1>6. PICK v \in {v1, v2} : v = IF reg.val = 1 THEN v1 ELSE v2
  OBVIOUS
<1>7. v = IF reg.val # 0 THEN v1 ELSE v2
  BY <1>2, <1>6
<1>8. PICK operands : operands = <<reg, Register(t, v1), Register(t, v2)>>
  OBVIOUS
<1>9. Bind(t, Value(v), {v}, operands)
  BY <1>5, <1>6, <1>7, <1>8
<1>10. OfType(t, v)
  BY <1>3, <1>4, <1>5, <1>6, RegisterSound
<1>11. RightResult(t, Value(v), {v})
  BY <1>10, ValueIs DEF RightResult
<1>12. AllConstant(operands) => Register(t, v1).constant /\ Register(t, v2).constant
  <2>1. /\ 2 \in DOMAIN operands /\ operands[2] = Register(t, v1)
        /\ 3 \in DOMAIN operands /\ operands[3] = Register(t, v2)
    BY <1>8
  <2> QED BY <2>1 DEF AllConstant
<1>13. ASSUME t = PtrT, AllConstant(operands) PROVE v.space = "global"
  <2>1. PICK r : r = Register(t, v)
    OBVIOUS
  <2>2. r.constant
    BY <1>6, <1>12, <1>13, <2>1
  <2>3. Origin(r) /\ r.type = t /\ r.val = v
    BY <1>3, <1>4, <1>5, <1>6, <2>1, RegisterSound DEF Sound
  <2> QED BY <1>13, <2>2, <2>3 DEF Origin
<1> QED BY <1>3, <1>9, <1>11, <1>13, ValueIs, BindKeeps

(* ------------------------------------- theorems ------------------------------------ *)

LEMMA InitIInv == Init => IInv
<1> SUFFICES ASSUME Init PROVE IInv
  OBVIOUS
<1>1. PICK t \in Types : \E v \in Values(t) : reg = Register(t, v)
  BY DEF Init
<1>2. PICK v \in Values(t) : reg = Register(t, v)
  BY <1>1
<1>3. Sound(reg) /\ reg.type = t /\ reg.val = v /\ reg.meant = {v}
  BY <1>2, RegisterSound
<1>4. stopped = ""
  BY DEF Init
<1> QED BY <1>3, <1>4 DEF IInv

LEMMA NextIInv == IInv /\ [Next]_vars => IInv'
<1> SUFFICES ASSUME IInv, [Next]_vars PROVE IInv'
  OBVIOUS
<1>1. CASE IntBinOp
  BY <1>1, IntBinOpKeeps
<1>2. CASE FloatBinOp(FloatBinOps \ {"frem"})
  BY <1>2, FloatBinOpKeeps
<1>3. CASE ICmpInst({xy \in Operands : ToldApart(xy[1], xy[2])})
  BY <1>3, ICmpKeeps
<1>4. CASE FCmpExpr(FCmpPredicates \ {Orders \cup {"unordered"}})
  BY <1>4, FCmpKeeps
<1>5. CASE Cast
  BY <1>5, CastKeeps
<1>6. CASE FPCast
  BY <1>6, FPCastKeeps
<1>7. CASE IntToFPCast("uitofp")
  BY <1>7, IntToFPKeeps
<1>8. CASE NonNegative /\ IntToFPCast("sitofp")
  BY <1>8, IntToFPKeeps
<1>9. CASE FPToIntCast
  BY <1>9, FPToIntKeeps
<1>10. CASE PtrToIntCast
  BY <1>10, PtrToIntKeeps
<1>11. CASE IntToPtrCast
  BY <1>11, IntToPtrKeeps
<1>12. CASE Select
  BY <1>12, SelectKeeps
<1>13. CASE UNCHANGED vars
  <2>1. reg' = reg /\ stopped' = stopped
    BY <1>13 DEF vars
  <2> QED BY <2>1 DEF IInv, Sound, OfType, Origin, Representable, Limitation
<1> QED BY <1>1, <1>2, <1>3, <1>4, <1>5, <1>6, <1>7, <1>8, <1>9, <1>10, <1>11, <1>12, <1>13
        DEF Next

(* The inductive invariant holds in every program that keeps to what works. *)
THEOREM IInvHolds == Spec => []IInv
  BY InitIInv, NextIInv, PTL DEF Spec

(* Whatever instructions and constant expressions Evaluation.cpp is made to compute, in   *)
(* any order and for integers of any width, its result is a value of its type.          *)
THEOREM TypeCorrect == Spec => []TypeOK
<1>1. IInv => TypeOK
  <2> SUFFICES ASSUME IInv PROVE TypeOK
    OBVIOUS
  <2>1. Cardinality(reg.meant) <= 1
    <3>1. PICK m : reg.meant \subseteq {m}
      BY DEF IInv
    <3>2. IsFiniteSet({m}) /\ Cardinality({m}) = 1
      BY FS_Singleton
    <3> QED BY <3>1, <3>2, FS_Subset, FS_CardinalityType
  <2>2. reg.type \in Types /\ reg.type.kind \in {"int", "float", "ptr"}
    BY TypesAre DEF IInv
  <2>3. CASE stopped = ""
    <3>1. OfType(reg.type, reg.val)
      BY <2>3 DEF IInv, Sound
    <3>2. CASE reg.type.kind = "int"
      BY <2>1, <2>2, <3>1, <3>2 DEF TypeOK, OfType, Words
    <3>3. CASE reg.type.kind = "float"
      BY <2>1, <2>2, <3>1, <3>3 DEF TypeOK, OfType, Floating
    <3>4. CASE reg.type.kind = "ptr"
      BY <2>1, <2>2, <3>1, <3>4 DEF TypeOK, OfType, Words
    <3> QED BY <2>2, <3>2, <3>3, <3>4
  <2>4. CASE stopped # ""
    BY <2>1, <2>2, <2>4 DEF TypeOK
  <2> QED BY <2>3, <2>4
<1> QED BY <1>1, IInvHolds, PTL

(* Integer and floating-point results, of instructions and of constant expressions, are  *)
(* what the language defines wherever it defines something: for every width, precision   *)
(* and operand.                                                                          *)
THEOREM Numbers == Spec => []NumbersAsDefined
<1>1. IInv => NumbersAsDefined
  BY DEF IInv, NumbersAsDefined
<1> QED BY <1>1, IInvHolds, PTL

(* The space that findBasePointer finds for an inttoptr, and the global space that a       *)
(* constant expression takes without looking, are the space of the pointer that the        *)
(* integer was made of.                                                                    *)
THEOREM PointersKeepTheirSpace == Spec => []PointersAsDefined
<1>1. IInv => PointersAsDefined
  BY DEF IInv, PointersAsDefined
<1> QED BY <1>1, IInvHolds, PTL

(* The checks on divisors, shift amounts and operand types end the process only where the   *)
(* program has no meaning, and so does an APInt that asserts; findBasePointer's limitation  *)
(* is the one exception.                                                                    *)
THEOREM NoLegalProgramStops == Spec => []StopsOnlyIfUndefined
<1>1. IInv => StopsOnlyIfUndefined
  BY DEF IInv, StopsOnlyIfUndefined
<1> QED BY <1>1, IInvHolds, PTL

===================================================================================
