---------------------------- MODULE ReplayProofs ----------------------------
(***************************************************************************)
(* What k3replay keeps, whatever the bundles, the failures and the order   *)
(* of the answers: the items read are the records written, and of them     *)
(* those asked for are produced in order, each once, and none is lost.     *)
(*                                                                         *)
(* In this order: induction, the order of keys and of offsets, the map and *)
(* its loop, the image of a bundle and its cursors, the invariants Mapped, *)
(* Ordered and NoneLost, and with each the theorems that follow from it.   *)
(***************************************************************************)
EXTENDS ReplayProperties, FiniteSetTheorems, SequenceTheorems, WellFoundedInduction, TLAPS

-----------------------------------------------------------------------------
(* Induction over the data, in the form of a least counterexample.         *)

LEMMA LeastNumber ==
    ASSUME NEW T \in SUBSET Nat, T # {}
    PROVE  \E n \in T : \A k \in T : n <= k
<1> DEFINE R == {x \in Nat \X Nat : x[1] < x[2]}
<1>1. IsWellFoundedOn(R, Nat)
  BY NatLessThanWellFounded DEF OpToRel
<1>2. T \subseteq Nat
  OBVIOUS
<1>3. \A x, y \in Nat : ~(<<y, x>> \in R) => x <= y
  OBVIOUS
<1> HIDE DEF R
<1>4. \E x \in T : \A y \in T : ~(<<y, x>> \in R)
  BY <1>1, <1>2, WFMin
<1> QED
  BY <1>2, <1>3, <1>4

-----------------------------------------------------------------------------
(* The objects of a page, in the order of their keys.                      *)

Increasing(s, S) == s \in [1 .. Cardinality(S) -> S] /\ \A i, j \in DOMAIN s : i < j => s[i] < s[j]

LEMMA OrderExists ==
    \A S \in SUBSET Nat : IsFiniteSet(S) => \E s : Increasing(s, S)
<1> DEFINE Sorted(S) == \E s : Increasing(s, S)
           T == {n \in Nat : \E S \in SUBSET Nat : IsFiniteSet(S) /\ Cardinality(S) = n /\ ~Sorted(S)}
<1>1. SUFFICES ASSUME T # {} PROVE FALSE
  <2> SUFFICES ASSUME NEW S \in SUBSET Nat, IsFiniteSet(S), ~Sorted(S) PROVE T # {}
    BY <1>1
  <2>1. Cardinality(S) \in Nat
    BY FS_CardinalityType
  <2>2. Cardinality(S) \in T
    BY <2>1
  <2> QED
    BY <2>2
<1>2. PICK n \in T : \A k \in T : n <= k
  <2>1. T \in SUBSET Nat
    OBVIOUS
  <2> HIDE DEF T
  <2> QED
    BY <1>1, <2>1, LeastNumber
<1>3. PICK S \in SUBSET Nat : IsFiniteSet(S) /\ Cardinality(S) = n /\ ~Sorted(S)
  BY <1>2
<1>4. CASE S = {}
  <2>1. n = 0
    BY <1>3, <1>4, FS_EmptySet
  <2>2. Increasing([i \in 1 .. 0 |-> 0], S)
    BY <1>3, <1>4, <2>1 DEF Increasing
  <2> QED
    BY <1>3, <1>4, <2>2
<1>5. CASE S # {}
  <2>1. PICK m \in S : \A k \in S : m <= k
    BY <1>5, LeastNumber
  <2> DEFINE R == S \ {m}
  <2>2. n \in Nat /\ IsFiniteSet(R) /\ Cardinality(R) = n - 1 /\ n - 1 \in Nat
    <3>1. IsFiniteSet(R) /\ Cardinality(R) = n - 1
      BY <1>3, <2>1, FS_RemoveElement
    <3>2. Cardinality(R) \in Nat
      BY <3>1, FS_CardinalityType
    <3> QED
      BY <1>2, <3>1, <3>2
  <2>3. n - 1 \notin T
    <3>1. ~(n <= n - 1)
      BY <2>2
    <3> HIDE DEF T
    <3> QED
      BY <1>2, <3>1
  <2>4. Sorted(R)
    <3>1. R \in SUBSET Nat
      OBVIOUS
    <3> HIDE DEF R, Sorted
    <3> QED
      BY <2>2, <2>3, <3>1
  <2>5. PICK r : Increasing(r, R)
    BY <2>4
  <2>6. r \in [1 .. n - 1 -> R] /\ \A i, j \in 1 .. n - 1 : i < j => r[i] < r[j]
    BY <2>2, <2>5 DEF Increasing
  <2> DEFINE s == [i \in 1 .. n |-> IF i = 1 THEN m ELSE r[i - 1]]
  <2>7. \A i \in 1 .. n : i # 1 => i - 1 \in 1 .. n - 1 /\ s[i] = r[i - 1] /\ s[i] \in R
    <3> TAKE i \in 1 .. n
    <3>1. i # 1 => i - 1 \in 1 .. n - 1
      BY <2>2
    <3> QED
      BY <2>6, <3>1
  <2>8. s \in [1 .. n -> S]
    BY <2>1, <2>7
  <2>9. \A i, j \in 1 .. n : i < j => s[i] < s[j]
    <3> SUFFICES ASSUME NEW i \in 1 .. n, NEW j \in 1 .. n, i < j PROVE s[i] < s[j]
      OBVIOUS
    <3>1. i \in Nat /\ j \in Nat /\ n \in Nat /\ j # 1
      BY <2>2
    <3>2. s[j] = r[j - 1] /\ s[j] \in R /\ j - 1 \in 1 .. n - 1
      BY <2>7, <3>1
    <3>3. CASE i = 1
      <4>1. s[i] = m /\ m <= s[j] /\ s[j] # m /\ m \in Nat /\ s[j] \in Nat
        BY <2>1, <3>2, <3>3
      <4> HIDE DEF s
      <4> QED
        BY <4>1
    <3>4. CASE i # 1
      <4>1. i - 1 \in 1 .. n - 1 /\ s[i] = r[i - 1] /\ i - 1 < j - 1
        BY <2>7, <3>1, <3>4
      <4> QED
        BY <2>6, <3>2, <4>1
    <3> QED
      BY <3>3, <3>4
  <2>10. Increasing(s, S)
    BY <1>3, <2>8, <2>9 DEF Increasing
  <2> HIDE DEF s
  <2> QED
    BY <1>3, <2>10
<1> QED
  BY <1>4, <1>5

\* A page has every key of the set once, in the order of the keys.
LEMMA KeyOrder ==
    ASSUME NEW S \in SUBSET Nat, IsFiniteSet(S)
    PROVE  /\ InKeyOrder(S) \in Seq(S) /\ Len(InKeyOrder(S)) = Cardinality(S)
           /\ \A i, j \in 1 .. Len(InKeyOrder(S)) : i < j => InKeyOrder(S)[i] < InKeyOrder(S)[j]
           /\ ToSet(InKeyOrder(S)) = S
<1> DEFINE N == Cardinality(S)
           s == InKeyOrder(S)
<1>1. \E t \in [1 .. N -> S] : \A i, j \in DOMAIN t : i < j => t[i] < t[j]
  BY OrderExists DEF Increasing
<1>2. s \in [1 .. N -> S] /\ \A i, j \in DOMAIN s : i < j => s[i] < s[j]
  BY <1>1 DEF InKeyOrder
<1>3. N \in Nat /\ IsFiniteSet(1 .. N) /\ Cardinality(1 .. N) = N
  <2>1. N \in Nat
    BY FS_CardinalityType
  <2> HIDE DEF N
  <2>2. IsFiniteSet(1 .. N) /\ Cardinality(1 .. N) = IF 1 > N THEN 0 ELSE N - 1 + 1
    BY <2>1, FS_Interval
  <2> QED
    BY <2>1, <2>2
<1> HIDE DEF s
<1>4. \A i, j \in 1 .. N : s[i] = s[j] => i = j
  <2> SUFFICES ASSUME NEW i \in 1 .. N, NEW j \in 1 .. N, i < j, s[i] = s[j] PROVE FALSE
    BY <1>3
  <2>1. s[i] < s[j] /\ s[i] \in Nat
    BY <1>2
  <2> QED
    BY <2>1
<1>5. s \in Surjection(1 .. N, S)
  <2>1. s \in Injection(1 .. N, S)
    BY <1>2, <1>4 DEF Injection, IsInjective
  <2> QED
    BY <1>3, <2>1, FS_Injection
<1>6. ToSet(s) = S
  BY <1>2, <1>5 DEF Surjection, ToSet
<1> QED
  BY <1>2, <1>3, <1>6 DEF s

-----------------------------------------------------------------------------
(* The text of a number.                                                   *)

\* f holds the texts of the numbers up to n.
Texts(f, n) == \A a \in 0 .. n : f[a] = IF a < 10 THEN <<a>> ELSE Append(f[a \div 10], a % 10)

LEMMA Tenth == \A a \in Nat : a >= 10 => a \div 10 \in 1 .. a - 1 /\ a % 10 \in 0 .. 9
OBVIOUS

LEMMA TextsExist == \A n \in Nat : \E f \in [0 .. n -> Seq(0 .. 9)] : Texts(f, n)
<1> DEFINE T == {n \in Nat : ~ \E f \in [0 .. n -> Seq(0 .. 9)] : Texts(f, n)}
<1> SUFFICES ASSUME T # {} PROVE FALSE
  OBVIOUS
<1>1. PICK n \in T : \A k \in T : n <= k
  <2>1. T \in SUBSET Nat
    OBVIOUS
  <2> HIDE DEF T
  <2> QED
    BY <2>1, LeastNumber
<1>2. n \in Nat
  BY <1>1
<1>3. CASE n = 0
  <2>1. [a \in 0 .. 0 |-> <<0>>] \in [0 .. 0 -> Seq(0 .. 9)] /\ Texts([a \in 0 .. 0 |-> <<0>>], 0)
    BY DEF Texts
  <2> QED
    BY <1>1, <1>3, <2>1
<1>4. CASE n # 0
  <2>1. n - 1 \in Nat /\ n - 1 \notin T
    <3>1. n - 1 \in Nat /\ ~(n <= n - 1)
      BY <1>2, <1>4
    <3> HIDE DEF T
    <3> QED
      BY <1>1, <3>1
  <2>2. PICK f \in [0 .. n - 1 -> Seq(0 .. 9)] : Texts(f, n - 1)
    BY <2>1
  <2> DEFINE text == IF n < 10 THEN <<n>> ELSE Append(f[n \div 10], n % 10)
             g == [a \in 0 .. n |-> IF a = n THEN text ELSE f[a]]
  <2>3. text \in Seq(0 .. 9)
    <3>1. CASE n < 10
      <4>1. <<n>> \in Seq(0 .. 9)
        BY <1>2, <3>1
      <4> QED
        BY <3>1, <4>1
    <3>2. CASE n >= 10
      <4>1. n \div 10 \in 0 .. n - 1 /\ n % 10 \in 0 .. 9 /\ ~(n < 10)
        BY <1>2, <3>2, Tenth
      <4> QED
        BY <4>1
    <3> QED
      BY <1>2, <3>1, <3>2
  <2>4. \A a \in 0 .. n : a # n => a \in 0 .. n - 1
    BY <1>2
  <2>5. g \in [0 .. n -> Seq(0 .. 9)]
    <3> HIDE DEF text
    <3> QED
      BY <2>3, <2>4
  <2>6. Texts(g, n)
    <3> SUFFICES ASSUME NEW a \in 0 .. n
                 PROVE  g[a] = IF a < 10 THEN <<a>> ELSE Append(g[a \div 10], a % 10)
      BY DEF Texts
    <3>1. a \in Nat /\ n \in 0 .. n
      BY <1>2
    <3>2. a >= 10 => a \div 10 \in 0 .. n /\ a \div 10 # n /\ g[a \div 10] = f[a \div 10]
      <4>1. a >= 10 => a \div 10 \in 0 .. n /\ a \div 10 # n
        BY <1>2, Tenth
      <4> HIDE DEF text
      <4> QED
        BY <4>1
    <3>3. CASE a = n
      <4>1. g[a] = text
        <5> HIDE DEF text
        <5> QED
          BY <3>1, <3>3
      <4> HIDE DEF g
      <4> QED
        BY <1>2, <3>2, <3>3, <4>1
    <3>4. CASE a # n
      <4>1. g[a] = f[a]
        <5> HIDE DEF text
        <5> QED
          BY <3>4
      <4>2. f[a] = IF a < 10 THEN <<a>> ELSE Append(f[a \div 10], a % 10)
        BY <2>2, <2>4, <3>4 DEF Texts
      <4> HIDE DEF g
      <4> QED
        BY <3>1, <3>2, <4>1, <4>2
    <3> QED
      BY <3>3, <3>4
  <2> QED
    BY <1>1, <2>5, <2>6
<1> QED
  BY <1>3, <1>4

LEMMA TextsUnique ==
    ASSUME NEW n \in Nat, NEW k \in 0 .. n, NEW f, NEW g, Texts(f, n), Texts(g, k)
    PROVE  f[k] = g[k]
<1> DEFINE T == {a \in 0 .. k : f[a] # g[a]}
<1> SUFFICES ASSUME T # {} PROVE FALSE
  BY DEF Texts
<1>1. PICK m \in T : \A a \in T : m <= a
  <2>1. T \in SUBSET Nat
    OBVIOUS
  <2> HIDE DEF T
  <2> QED
    BY <2>1, LeastNumber
<1>2. m \in 0 .. k /\ m \in 0 .. n /\ m \in Nat
  BY <1>1
<1>3. /\ f[m] = IF m < 10 THEN <<m>> ELSE Append(f[m \div 10], m % 10)
      /\ g[m] = IF m < 10 THEN <<m>> ELSE Append(g[m \div 10], m % 10)
  BY <1>2 DEF Texts
<1>4. m >= 10 => m \div 10 \notin T /\ m \div 10 \in 0 .. k
  <2>1. m >= 10 => m \div 10 \in 0 .. k /\ ~(m <= m \div 10)
    BY <1>2, Tenth
  <2> HIDE DEF T
  <2> QED
    BY <1>1, <2>1
<1>5. m >= 10 => f[m \div 10] = g[m \div 10]
  BY <1>4
<1> QED
  BY <1>1, <1>2, <1>3, <1>5

LEMMA Digits ==
    /\ digits \in [Nat -> Seq(0 .. 9)]
    /\ \A n \in Nat : digits[n] = IF n < 10 THEN <<n>> ELSE Append(digits[n \div 10], n % 10)
<1> DEFINE F(n) == CHOOSE f \in [0 .. n -> Seq(0 .. 9)] : Texts(f, n)
           g == [n \in Nat |-> F(n)[n]]
           IsText(f) == f = [n \in Nat |-> IF n < 10 THEN <<n>> ELSE Append(f[n \div 10], n % 10)]
<1>1. \A n \in Nat : F(n) \in [0 .. n -> Seq(0 .. 9)] /\ Texts(F(n), n)
  BY TextsExist
<1> HIDE DEF F
<1>2. g \in [Nat -> Seq(0 .. 9)]
  <2>1. \A n \in Nat : n \in 0 .. n
    OBVIOUS
  <2> QED
    BY <1>1, <2>1
<1>3. \A n \in Nat : g[n] = IF n < 10 THEN <<n>> ELSE Append(g[n \div 10], n % 10)
  <2> TAKE n \in Nat
  <2>1. F(n)[n] = IF n < 10 THEN <<n>> ELSE Append(F(n)[n \div 10], n % 10)
    BY <1>1 DEF Texts
  <2>2. n >= 10 => F(n)[n \div 10] = F(n \div 10)[n \div 10]
    <3> SUFFICES ASSUME n >= 10 PROVE F(n)[n \div 10] = F(n \div 10)[n \div 10]
      OBVIOUS
    <3> DEFINE k == n \div 10
    <3>1. k \in 0 .. n /\ k \in Nat
      BY Tenth
    <3> HIDE DEF k
    <3>2. Texts(F(n), n) /\ Texts(F(k), k)
      BY <1>1, <3>1
    <3>3. F(n)[k] = F(k)[k]
      BY <3>1, <3>2, TextsUnique
    <3> QED
      BY <3>3 DEF k
  <2>3. n >= 10 => n \div 10 \in Nat
    BY Tenth
  <2> QED
    BY <2>1, <2>2, <2>3
<1>4. IsText(g)
  <2> HIDE DEF g
  <2> QED
    BY <1>2, <1>3
<1>5. digits = CHOOSE f : IsText(f)
  BY DEF digits
<1>6. IsText(digits)
  <2> HIDE DEF IsText
  <2> QED
    BY <1>4, <1>5
<1>7. \A n \in Nat : digits[n] = IF n < 10 THEN <<n>> ELSE Append(digits[n \div 10], n % 10)
  BY <1>6
<1>8. DOMAIN digits = Nat /\ digits = [n \in Nat |-> digits[n]]
  BY <1>6
<1>9. \A n \in Nat : digits[n] = g[n]
  <2> DEFINE T == {n \in Nat : digits[n] # g[n]}
  <2> SUFFICES ASSUME T # {} PROVE FALSE
    OBVIOUS
  <2>1. PICK m \in T : \A a \in T : m <= a
    <3>1. T \in SUBSET Nat
      OBVIOUS
    <3> HIDE DEF T, g
    <3> QED
      BY <3>1, LeastNumber
  <2>2. m \in Nat /\ digits[m] # g[m]
    BY <2>1
  <2>3. m >= 10 => m \div 10 \notin T /\ m \div 10 \in Nat
    <3>1. m >= 10 => m \div 10 \in Nat /\ ~(m <= m \div 10)
      BY <2>2, Tenth
    <3> HIDE DEF T
    <3> QED
      BY <2>1, <3>1
  <2>4. m >= 10 => digits[m \div 10] = g[m \div 10]
    BY <2>3
  <2>5. /\ g[m] = IF m < 10 THEN <<m>> ELSE Append(g[m \div 10], m % 10)
        /\ digits[m] = IF m < 10 THEN <<m>> ELSE Append(digits[m \div 10], m % 10)
    <3> HIDE DEF g
    <3> QED
      BY <1>3, <1>7, <2>2
  <2> HIDE DEF g
  <2>6. CASE m < 10
    BY <2>2, <2>5, <2>6
  <2>7. CASE m >= 10
    <3>1. ~(m < 10)
      BY <2>2, <2>7
    <3> QED
      BY <2>2, <2>4, <2>5, <2>7, <3>1
  <2> QED
    BY <2>2, <2>6, <2>7
<1> HIDE DEF g
<1>10. digits \in [Nat -> Seq(0 .. 9)]
  BY <1>2, <1>8, <1>9
<1> QED
  BY <1>7, <1>10

\* The first place where two texts differ decides their order.
Decided(a, b) ==
    \E i \in DOMAIN a \cap DOMAIN b : a[i] < b[i] /\ \A j \in 1 .. i - 1 : a[j] = b[j]

\* Numbers with equally many digits are ordered as their texts are.
LEMMA DigitsOrder ==
    \A a, b \in Nat : a < b /\ Len(digits[a]) = Len(digits[b]) => Decided(digits[a], digits[b])
<1> DEFINE Differ(a, b) == \E i \in 1 .. Len(digits[a]) :
                              digits[a][i] < digits[b][i] /\ \A j \in 1 .. i - 1 : digits[a][j] = digits[b][j]
           T == {a \in Nat : \E b \in Nat : a < b /\ Len(digits[a]) = Len(digits[b]) /\ ~Differ(a, b)}
<1>1. ASSUME T # {} PROVE FALSE
  <2>1. PICK a \in T : \A k \in T : a <= k
    <3>1. T \in SUBSET Nat
      OBVIOUS
    <3> HIDE DEF T
    <3> QED
      BY <1>1, <3>1, LeastNumber
  <2>2. PICK b \in Nat : a < b /\ Len(digits[a]) = Len(digits[b]) /\ ~Differ(a, b)
    BY <2>1
  <2>3. a \in Nat /\ b \in Nat /\ a < b
    BY <2>1, <2>2
  <2>4. /\ digits[a] = IF a < 10 THEN <<a>> ELSE Append(digits[a \div 10], a % 10)
        /\ digits[b] = IF b < 10 THEN <<b>> ELSE Append(digits[b \div 10], b % 10)
    BY <2>3, Digits
  <2> DEFINE p == digits[a \div 10]
             q == digits[b \div 10]
             x == a % 10
             y == b % 10
  <2>5. /\ a \div 10 \in Nat /\ b \div 10 \in Nat /\ a % 10 \in 0 .. 9 /\ b % 10 \in 0 .. 9
        /\ a \div 10 <= b \div 10 /\ (a \div 10 = b \div 10 => a % 10 < b % 10)
    BY <2>3
  <2>6. p \in Seq(0 .. 9) /\ q \in Seq(0 .. 9) /\ Len(p) # 0 /\ Len(q) # 0
    <3>1. \A n \in Nat : digits[n] \in Seq(0 .. 9) /\ Len(digits[n]) # 0
      <4> TAKE n \in Nat
      <4>1. digits[n] \in Seq(0 .. 9) /\ (n >= 10 => digits[n \div 10] \in Seq(0 .. 9))
        BY Digits, Tenth
      <4>2. CASE n < 10
        <5>1. digits[n] = <<n>>
          BY <4>2, Digits
        <5> QED
          BY <4>1, <5>1
      <4>3. CASE n >= 10
        <5>1. ~(n < 10)
          BY <4>3
        <5>2. digits[n] = Append(digits[n \div 10], n % 10)
          BY <5>1, Digits
        <5>3. digits[n \div 10] \in Seq(0 .. 9)
          BY <4>1, <4>3
        <5>4. Len(digits[n]) = Len(digits[n \div 10]) + 1 /\ Len(digits[n \div 10]) \in Nat
          BY <5>2, <5>3
        <5> QED
          BY <4>1, <5>4
      <4> QED
        BY <4>2, <4>3
    <3> QED
      BY <2>5, <3>1
  <2>7. CASE b < 10
    <3>1. digits[a] = <<a>> /\ digits[b] = <<b>>
      BY <2>3, <2>4, <2>7
    <3> QED
      BY <2>2, <3>1
  <2>8. CASE a < 10 /\ b >= 10
    <3>1. digits[a] = <<a>> /\ digits[b] = Append(q, y)
      BY <2>3, <2>4, <2>8
    <3> HIDE DEF q, y
    <3>2. Len(digits[a]) = 1 /\ Len(digits[b]) = Len(q) + 1 /\ Len(q) \in Nat
      BY <2>6, <3>1
    <3>3. Len(digits[a]) = Len(digits[b]) /\ Len(q) # 0
      BY <2>2, <2>6
    <3> QED
      BY <3>2, <3>3
  <2>9. CASE a >= 10 /\ b >= 10
    <3>1. digits[a] = Append(p, x) /\ digits[b] = Append(q, y)
      BY <2>3, <2>4, <2>9
    <3> HIDE DEF p, q, x, y
    <3>2. Len(p) = Len(q) /\ Len(p) \in Nat /\ Len(digits[a]) = Len(p) + 1
      BY <2>2, <2>6, <3>1
    <3>3. /\ \A i \in 1 .. Len(p) : digits[a][i] = p[i] /\ digits[b][i] = q[i]
          /\ digits[a][Len(p) + 1] = x /\ digits[b][Len(p) + 1] = y
      BY <2>6, <3>1, <3>2
    <3>4. CASE a \div 10 < b \div 10
      <4>1. a \div 10 \notin T
        <5>1. ~(a <= a \div 10)
          BY <2>3, <2>9, Tenth
        <5> HIDE DEF T
        <5> QED
          BY <2>1, <5>1
      <4>2. Differ(a \div 10, b \div 10)
        BY <2>5, <3>2, <3>4, <4>1 DEF p, q
      <4>3. PICK i \in 1 .. Len(p) : p[i] < q[i] /\ \A j \in 1 .. i - 1 : p[j] = q[j]
        BY <4>2 DEF p, q
      <4>4. i \in 1 .. Len(digits[a]) /\ \A j \in 1 .. i - 1 : j \in 1 .. Len(p)
        BY <3>2
      <4>5. digits[a][i] < digits[b][i] /\ \A j \in 1 .. i - 1 : digits[a][j] = digits[b][j]
        BY <3>3, <4>3, <4>4
      <4> QED
        BY <2>2, <4>4, <4>5
    <3>5. CASE a \div 10 = b \div 10
      <4>1. a % 10 < b % 10
        BY <2>5, <3>5
      <4>2. Len(p) + 1 \in 1 .. Len(digits[a]) /\ Len(p) + 1 - 1 = Len(p)
        BY <3>2
      <4>3. \A j \in 1 .. Len(p) : digits[a][j] = digits[b][j]
        BY <3>3, <3>5 DEF p, q
      <4>4. digits[a][Len(p) + 1] < digits[b][Len(p) + 1]
        BY <3>3, <4>1 DEF x, y
      <4>5. Differ(a, b)
        <5> HIDE DEF T
        <5> QED
          BY <4>2, <4>3, <4>4
      <4> QED
        BY <2>2, <4>5
    <3> QED
      BY <2>5, <3>4, <3>5
  <2> QED
    BY <2>3, <2>7, <2>8, <2>9
<1> SUFFICES ASSUME NEW a \in Nat, NEW b \in Nat, a < b, Len(digits[a]) = Len(digits[b])
             PROVE  Decided(digits[a], digits[b])
  OBVIOUS
<1>2. Differ(a, b)
  BY <1>1
<1>3. DOMAIN digits[a] = 1 .. Len(digits[a]) /\ DOMAIN digits[b] = 1 .. Len(digits[b])
  BY Digits
<1> QED
  BY <1>2, <1>3 DEF Decided

LEMMA DigitText == \A n \in Nat : digits[n] \in Seq(Int)
<1>1. \A n \in Nat : digits[n] \in Seq(0 .. 9)
  BY Digits
<1>2. 0 .. 9 \subseteq Int
  OBVIOUS
<1> QED
  BY <1>1, <1>2, SeqMonotonic

\* What follows a text that is decided does not matter.
LEMMA DecidedBefore ==
    ASSUME NEW a \in Seq(Int), NEW b \in Seq(Int), NEW s \in Seq(Int), NEW t \in Seq(Int),
           Decided(a, b)
    PROVE  Decided(a \o s, b \o t)
<1>1. PICK i \in DOMAIN a \cap DOMAIN b : a[i] < b[i] /\ \A j \in 1 .. i - 1 : a[j] = b[j]
  BY DEF Decided
<1>2. DOMAIN a = 1 .. Len(a) /\ DOMAIN b = 1 .. Len(b) /\ Len(a) \in Nat /\ Len(b) \in Nat
  BY LenProperties
<1>3. /\ Len(a \o s) = Len(a) + Len(s) /\ Len(b \o t) = Len(b) + Len(t)
      /\ \A j \in 1 .. Len(a) : (a \o s)[j] = a[j]
      /\ \A j \in 1 .. Len(b) : (b \o t)[j] = b[j]
  <2>1. \A j \in 1 .. Len(a) : j \in 1 .. Len(a) + Len(s)
    BY <1>2, LenProperties
  <2>2. \A j \in 1 .. Len(b) : j \in 1 .. Len(b) + Len(t)
    BY <1>2, LenProperties
  <2> QED
    BY <2>1, <2>2, ConcatProperties
<1>4. a \o s \in Seq(Int) /\ b \o t \in Seq(Int)
  BY ConcatProperties
<1>5. DOMAIN (a \o s) = 1 .. Len(a \o s) /\ DOMAIN (b \o t) = 1 .. Len(b \o t)
  BY <1>4, LenProperties
<1>6. i \in DOMAIN (a \o s) \cap DOMAIN (b \o t)
  BY <1>2, <1>3, <1>5, LenProperties
<1>7. \A j \in 1 .. i - 1 : j \in 1 .. Len(a) /\ j \in 1 .. Len(b)
  BY <1>2
<1>8. (a \o s)[i] < (b \o t)[i] /\ \A j \in 1 .. i - 1 : (a \o s)[j] = (b \o t)[j]
  BY <1>1, <1>2, <1>3, <1>7
<1> QED
  BY <1>6, <1>8 DEF Decided

\* Nor does what both texts begin with.
LEMMA DecidedAfter ==
    ASSUME NEW a \in Seq(Int), NEW s \in Seq(Int), NEW t \in Seq(Int), Decided(s, t)
    PROVE  Decided(a \o s, a \o t)
<1>1. PICK i \in DOMAIN s \cap DOMAIN t : s[i] < t[i] /\ \A j \in 1 .. i - 1 : s[j] = t[j]
  BY DEF Decided
<1>2. PICK n : n = Len(a)
  OBVIOUS
<1>3. /\ DOMAIN s = 1 .. Len(s) /\ DOMAIN t = 1 .. Len(t)
      /\ Len(s) \in Nat /\ Len(t) \in Nat /\ n \in Nat
  BY <1>2, LenProperties
<1>4. a \o s \in Seq(Int) /\ a \o t \in Seq(Int)
  BY ConcatProperties
<1>5. /\ DOMAIN (a \o s) = 1 .. n + Len(s)
      /\ DOMAIN (a \o t) = 1 .. n + Len(t)
  BY <1>2, <1>4, LenProperties, ConcatProperties
<1>6. /\ \A j \in 1 .. n + Len(s) : (a \o s)[j] = IF j <= n THEN a[j] ELSE s[j - n]
      /\ \A j \in 1 .. n + Len(t) : (a \o t)[j] = IF j <= n THEN a[j] ELSE t[j - n]
  BY <1>2, ConcatProperties
<1>7. PICK k : k = n + i
  OBVIOUS
<1>8. /\ k \in 1 .. n + Len(s) /\ k \in 1 .. n + Len(t) /\ ~(k <= n) /\ k - n = i
      /\ k \in Int
  BY <1>1, <1>3, <1>7
<1>9. (a \o s)[k] < (a \o t)[k]
  BY <1>1, <1>6, <1>8
<1>10. ASSUME NEW j \in 1 .. k - 1 PROVE (a \o s)[j] = (a \o t)[j]
  <2>1. j \in 1 .. n + Len(s) /\ j \in 1 .. n + Len(t) /\ j \in Int
    BY <1>3, <1>8
  <2>2. CASE j <= n
    BY <1>6, <2>1, <2>2
  <2>3. CASE ~(j <= n)
    <3>1. j - n \in 1 .. i - 1
      BY <1>3, <1>7, <1>8, <2>1, <2>3
    <3> QED
      BY <1>1, <1>6, <2>1, <2>3, <3>1
  <2> QED
    BY <2>2, <2>3
<1> QED
  BY <1>5, <1>8, <1>9, <1>10 DEF Decided

LEMMA TextIrreflexive == ASSUME NEW a \in Seq(Int) PROVE ~TextBefore(a, a)
<1>1. \A i \in DOMAIN a : a[i] \in Int
  BY ElementOfSeq, LenProperties
<1>2. \A i \in DOMAIN a : ~(a[i] < a[i])
  BY <1>1
<1> QED
  BY <1>2 DEF TextBefore, IsStrictPrefix

\* An item's time, then its offset decide its place in the map.
LEMMA IndexOrder ==
    ASSUME NEW x, NEW y,
           x.timestamp \in Nat, x.offset \in Nat, y.timestamp \in Nat, y.offset \in Nat,
           Len(digits[x.timestamp]) = Len(digits[y.timestamp]),
           \/ x.timestamp < y.timestamp
           \/ /\ x.timestamp = y.timestamp /\ x.offset < y.offset
              /\ Len(digits[x.offset]) = Len(digits[y.offset])
    PROVE  Precedes(x, y)
<1>1. \A n \in Nat : digits[n] \in Seq(Int)
  BY DigitText
<1>2. <<Dot>> \in Seq(Int)
  BY DEF Dot
<1>3. \A n \in Nat : digits[n] \o <<Dot>> \in Seq(Int)
  BY <1>1, <1>2, ConcatProperties
<1>4. Decided(IndexText(x), IndexText(y))
  <2>1. CASE x.timestamp < y.timestamp
    <3>1. Decided(digits[x.timestamp], digits[y.timestamp])
      BY <2>1, DigitsOrder
    <3>2. Decided(digits[x.timestamp] \o <<Dot>>, digits[y.timestamp] \o <<Dot>>)
      BY <1>1, <1>2, <3>1, DecidedBefore
    <3> QED
      BY <1>1, <1>3, <3>2, DecidedBefore DEF IndexText
  <2>2. CASE /\ x.timestamp = y.timestamp /\ x.offset < y.offset
             /\ Len(digits[x.offset]) = Len(digits[y.offset])
    <3>1. Decided(digits[x.offset], digits[y.offset])
      BY <2>2, DigitsOrder
    <3> QED
      BY <1>1, <1>3, <2>2, <3>1, DecidedAfter DEF IndexText
  <2> QED
    BY <2>1, <2>2
<1> QED
  BY <1>4 DEF Decided, Precedes, TextBefore

-----------------------------------------------------------------------------
(* The loop that enters the items of a file in the map.                    *)

Enter(map, item) == IF item.timestamp = 0 THEN map ELSE PutItem(map, item)

\* f holds the map after each of the first n turns.
Turn(f, map, items, n) == f = [i \in 0 .. n |-> IF i = 0 THEN map ELSE Enter(f[i - 1], items[i])]

LEMMA TurnsExist == ASSUME NEW map, NEW items PROVE \A n \in Nat : \E f : Turn(f, map, items, n)
<1> DEFINE T == {n \in Nat : ~ \E f : Turn(f, map, items, n)}
<1> SUFFICES ASSUME T # {} PROVE FALSE
  OBVIOUS
<1>1. PICK n \in T : \A k \in T : n <= k
  <2>1. T \in SUBSET Nat
    OBVIOUS
  <2> HIDE DEF T
  <2> QED
    BY <2>1, LeastNumber
<1>2. CASE n = 0
  <2>1. Turn([i \in 0 .. 0 |-> map], map, items, 0)
    BY DEF Turn
  <2> QED
    BY <1>1, <1>2, <2>1
<1>3. CASE n # 0
  <2>1. n \in Nat /\ n - 1 \in Nat /\ n - 1 \notin T
    <3>1. n \in Nat /\ n - 1 \in Nat /\ ~(n <= n - 1)
      BY <1>1, <1>3
    <3> HIDE DEF T
    <3> QED
      BY <1>1, <3>1
  <2>2. PICK f : Turn(f, map, items, n - 1)
    BY <2>1
  <2> DEFINE g == [i \in 0 .. n |-> IF i = n THEN Enter(f[n - 1], items[n]) ELSE f[i]]
  <2>3. \A i \in 0 .. n : g[i] = IF i = 0 THEN map ELSE Enter(g[i - 1], items[i])
    <3> TAKE i \in 0 .. n
    <3>1. i # 0 => i - 1 \in 0 .. n /\ i - 1 # n /\ g[i - 1] = f[i - 1]
      BY <2>1
    <3>2. CASE i = n
      BY <1>3, <2>1, <3>1, <3>2
    <3>3. CASE i # n
      <4>1. i \in 0 .. n - 1 /\ g[i] = f[i]
        BY <2>1, <3>3
      <4>2. f[i] = IF i = 0 THEN map ELSE Enter(f[i - 1], items[i])
        BY <2>2, <4>1 DEF Turn
      <4> HIDE DEF g
      <4> QED
        BY <3>1, <4>1, <4>2
    <3> QED
      BY <3>2, <3>3
  <2>4. g = [i \in 0 .. n |-> g[i]]
    OBVIOUS
  <2> HIDE DEF g
  <2>5. Turn(g, map, items, n)
    BY <2>3, <2>4 DEF Turn
  <2> QED
    BY <1>1, <2>5
<1> QED
  BY <1>2, <1>3

LEMMA EnteredTurns ==
    ASSUME NEW map, NEW items, Len(items) \in Nat
    PROVE  \E f : /\ f[0] = map /\ f[Len(items)] = Entered(map, items)
                  /\ \A i \in 1 .. Len(items) : f[i] = Enter(f[i - 1], items[i])
<1> DEFINE N == Len(items)
           f == CHOOSE g : Turn(g, map, items, N)
<1>1. \E g : Turn(g, map, items, N)
  BY TurnsExist
<1>2. Turn(f, map, items, N)
  BY <1>1
<1>3. Entered(map, items) = f[N]
  BY DEF Entered, Turn, Enter
<1> HIDE DEF f
<1>4. \A i \in 0 .. N : f[i] = IF i = 0 THEN map ELSE Enter(f[i - 1], items[i])
  BY <1>2 DEF Turn
<1>5. f[0] = map /\ \A i \in 1 .. N : f[i] = Enter(f[i - 1], items[i])
  <2>1. 0 \in 0 .. N /\ \A i \in 1 .. N : i \in 0 .. N /\ i # 0
    OBVIOUS
  <2> QED
    BY <1>4, <2>1
<1> QED
  BY <1>3, <1>5

UniqueIndex(map) == \A x, y \in map : Index(x) = Index(y) => x = y

\* What the map holds after the first n items.
Holds(m, map, items, n) ==
    /\ \A e \in m : e \in map \/ \E i \in 1 .. n : e = items[i] /\ items[i].timestamp # 0
    /\ \A x \in map : \E e \in m : Index(e) = Index(x)
    /\ \A i \in 1 .. n : items[i].timestamp # 0 => \E e \in m : Index(e) = Index(items[i])
    /\ UniqueIndex(map) => UniqueIndex(m)

LEMMA PutHolds ==
    ASSUME NEW m, NEW map, NEW items, NEW n \in Nat \ {0}, Holds(m, map, items, n - 1)
    PROVE  Holds(Enter(m, items[n]), map, items, n)
<1> DEFINE x == items[n]
<1>1. n \in 1 .. n /\ \A i \in 1 .. n : i = n \/ i \in 1 .. n - 1
  OBVIOUS
<1>2. \A i \in 1 .. n - 1 : i \in 1 .. n
  OBVIOUS
<1>3. CASE x.timestamp = 0
  <2>1. Enter(m, x) = m
    BY <1>3 DEF Enter
  <2> QED
    BY <1>1, <1>2, <1>3, <2>1 DEF Holds
<1>4. CASE x.timestamp # 0
  <2> DEFINE p == PutItem(m, x)
  <2>1. Enter(m, x) = p
    BY <1>4 DEF Enter
  <2>2. \A e : e \in p <=> e = x \/ (e \in m /\ Index(e) # Index(x))
    BY DEF PutItem
  <2>3. \A e \in m : \E y \in p : Index(y) = Index(e)
    BY <2>2
  <2> HIDE DEF p
  <2>4. \A e \in p : e \in map \/ \E i \in 1 .. n : e = items[i] /\ items[i].timestamp # 0
    BY <1>1, <1>2, <1>4, <2>2 DEF Holds
  <2>5. \A z \in map : \E e \in p : Index(e) = Index(z)
    BY <2>3 DEF Holds
  <2>6. \A i \in 1 .. n : items[i].timestamp # 0 => \E e \in p : Index(e) = Index(items[i])
    BY <1>1, <2>2, <2>3 DEF Holds
  <2>7. UniqueIndex(map) => UniqueIndex(p)
    BY <2>2 DEF Holds, UniqueIndex
  <2> QED
    BY <2>1, <2>4, <2>5, <2>6, <2>7 DEF Holds
<1> QED
  BY <1>3, <1>4

\* Entering the items of a file adds nothing but them, loses no index, and
\* keeps one item for each index.
LEMMA EnteredHolds ==
    ASSUME NEW map, NEW items, Len(items) \in Nat
    PROVE  Holds(Entered(map, items), map, items, Len(items))
<1> DEFINE N == Len(items)
<1>1. PICK f : /\ f[0] = map /\ f[N] = Entered(map, items)
               /\ \A i \in 1 .. N : f[i] = Enter(f[i - 1], items[i])
  BY EnteredTurns
<1> DEFINE T == {n \in 0 .. N : ~Holds(f[n], map, items, n)}
<1>2. SUFFICES ASSUME T # {} PROVE FALSE
  BY <1>1
<1>3. PICK n \in T : \A k \in T : n <= k
  <2>1. T \in SUBSET Nat
    OBVIOUS
  <2> HIDE DEF T
  <2> QED
    BY <1>2, <2>1, LeastNumber
<1>4. n \in 0 .. N /\ n \in Nat
  BY <1>3
<1>5. CASE n = 0
  <2>1. Holds(map, map, items, 0)
    BY DEF Holds
  <2> QED
    BY <1>1, <1>3, <1>5, <2>1
<1>6. CASE n # 0
  <2>1. n \in 1 .. N /\ n - 1 \in 0 .. N /\ n - 1 \notin T
    <3>1. n \in 1 .. N /\ n - 1 \in 0 .. N /\ ~(n <= n - 1)
      BY <1>4, <1>6
    <3> HIDE DEF T
    <3> QED
      BY <1>3, <3>1
  <2>2. Holds(f[n - 1], map, items, n - 1)
    BY <2>1
  <2>3. Holds(Enter(f[n - 1], items[n]), map, items, n)
    BY <1>4, <1>6, <2>2, PutHolds
  <2> QED
    BY <1>1, <1>3, <2>1, <2>3
<1> QED
  BY <1>5, <1>6

-----------------------------------------------------------------------------
(* The image of a bundle and what is read from it.                         *)

\* f holds the first i of the sequences c, joined, for each i up to n.
Joined(f, c, n) == f = [i \in 1 .. n |-> IF i = 1 THEN c[1] ELSE f[i - 1] \o c[i]]

LEMMA JoinedExists == ASSUME NEW c PROVE \A n \in Nat \ {0} : \E f : Joined(f, c, n)
<1> DEFINE T == {n \in Nat \ {0} : ~ \E f : Joined(f, c, n)}
<1> SUFFICES ASSUME T # {} PROVE FALSE
  OBVIOUS
<1>1. PICK n \in T : \A k \in T : n <= k
  <2>1. T \in SUBSET Nat
    OBVIOUS
  <2> HIDE DEF T
  <2> QED
    BY <2>1, LeastNumber
<1>2. CASE n = 1
  <2>1. Joined([i \in 1 .. 1 |-> c[1]], c, 1)
    BY DEF Joined
  <2> QED
    BY <1>1, <1>2, <2>1
<1>3. CASE n # 1
  <2>1. n \in Nat /\ n - 1 \in Nat \ {0} /\ n - 1 \notin T
    <3>1. n \in Nat /\ n - 1 \in Nat \ {0} /\ ~(n <= n - 1)
      BY <1>1, <1>3
    <3> HIDE DEF T
    <3> QED
      BY <1>1, <3>1
  <2>2. PICK f : Joined(f, c, n - 1)
    BY <2>1
  <2> DEFINE g == [i \in 1 .. n |-> IF i = n THEN f[n - 1] \o c[n] ELSE f[i]]
  <2>3. \A i \in 1 .. n : g[i] = IF i = 1 THEN c[1] ELSE g[i - 1] \o c[i]
    <3> TAKE i \in 1 .. n
    <3>1. i # 1 => i - 1 \in 1 .. n /\ i - 1 # n /\ g[i - 1] = f[i - 1]
      BY <2>1
    <3>2. CASE i = n
      BY <1>3, <2>1, <3>1, <3>2
    <3>3. CASE i # n
      <4>1. i \in 1 .. n - 1 /\ g[i] = f[i]
        BY <2>1, <3>3
      <4>2. f[i] = IF i = 1 THEN c[1] ELSE f[i - 1] \o c[i]
        BY <2>2, <4>1 DEF Joined
      <4> HIDE DEF g
      <4> QED
        BY <3>1, <4>1, <4>2
    <3> QED
      BY <3>2, <3>3
  <2>4. g = [i \in 1 .. n |-> g[i]]
    OBVIOUS
  <2> HIDE DEF g
  <2>5. Joined(g, c, n)
    BY <2>3, <2>4 DEF Joined
  <2> QED
    BY <1>1, <2>5
<1> QED
  BY <1>2, <1>3

LEMMA Flattened ==
    ASSUME NEW c, Len(c) \in Nat \ {0}
    PROVE  \E f : /\ FlattenSeq(c) = f[Len(c)] /\ f[1] = c[1]
                  /\ \A i \in 2 .. Len(c) : f[i] = f[i - 1] \o c[i]
<1> DEFINE N == Len(c)
           J(f) == f = [i \in 1 .. N |-> IF i = 1 THEN c[i] ELSE f[i - 1] \o c[i]]
           f == CHOOSE g : J(g)
<1>1. PICK h : Joined(h, c, N)
  BY JoinedExists
<1>2. J(h)
  <2>1. h = [i \in 1 .. N |-> IF i = 1 THEN c[1] ELSE h[i - 1] \o c[i]]
    BY <1>1 DEF Joined
  <2>2. [i \in 1 .. N |-> IF i = 1 THEN c[1] ELSE h[i - 1] \o c[i]]
        = [i \in 1 .. N |-> IF i = 1 THEN c[i] ELSE h[i - 1] \o c[i]]
    OBVIOUS
  <2> QED
    BY <2>1, <2>2
<1>3. FlattenSeq(c) = f[N]
  BY DEF FlattenSeq
<1>4. J(f)
  <2> HIDE DEF J
  <2> QED
    BY <1>2
<1> HIDE DEF f
<1>5. \A i \in 1 .. N : f[i] = IF i = 1 THEN c[i] ELSE f[i - 1] \o c[i]
  BY <1>4
<1>6. 1 \in 1 .. N /\ \A i \in 2 .. N : i \in 1 .. N /\ i # 1
  OBVIOUS
<1> QED
  BY <1>3, <1>5, <1>6

Cells(b) == {Byte(x) : x \in 0 .. 255} \cup {HeaderOf(Header(b, i)) : i \in 1 .. Len(b)}

\* The header and the payload of record i stand at place p of f.
StandsAt(b, f, i, p) ==
    /\ p \in Nat \ {0} /\ p + Len(b[i].payload) <= Len(f)
    /\ f[p] = HeaderOf(Header(b, i))
    /\ \A k \in 1 .. Len(b[i].payload) : f[p + k] = Byte(b[i].payload[k])

Cell(b, i) == <<HeaderOf(Header(b, i))>> \o Bytes(b[i].payload)

LEMMA CellOf ==
    ASSUME NEW b \in Seq(Record), NEW i \in 1 .. Len(b)
    PROVE  /\ b[i].payload \in Seq(0 .. 255) /\ Len(b[i].payload) \in Nat
           /\ Cell(b, i) \in Seq(Cells(b)) /\ Len(Cell(b, i)) = 1 + Len(b[i].payload)
           /\ Cell(b, i)[1] = HeaderOf(Header(b, i))
           /\ \A k \in 1 .. Len(b[i].payload) : Cell(b, i)[1 + k] = Byte(b[i].payload[k])
<1> DEFINE s == b[i].payload
           h == HeaderOf(Header(b, i))
           t == Bytes(s)
           C == Cells(b)
<1>0. b[i] \in Record
  OBVIOUS
<1>1. s \in Seq(0 .. 255)
  BY <1>0 DEF Record
<1> HIDE DEF s, t, h, C
<1>2. Len(s) \in Nat /\ DOMAIN s = 1 .. Len(s) /\ \A k \in 1 .. Len(s) : s[k] \in 0 .. 255
  BY <1>1, LenProperties, ElementOfSeq
<1>3. t = [k \in 1 .. Len(s) |-> Byte(s[k])]
  BY <1>2 DEF Bytes, t
<1>4. \A k \in 1 .. Len(s) : Byte(s[k]) \in C
  BY <1>2 DEF Cells, C
<1>5. t \in Seq(C) /\ Len(t) = Len(s)
  BY <1>2, <1>3, <1>4
<1>6. h \in C /\ <<h>> \in Seq(C) /\ Len(<<h>>) = 1 /\ <<h>>[1] = h
  <2>1. h \in C
    BY DEF Cells, h, C
  <2> QED
    BY <2>1
<1>7. \A k \in 1 .. Len(s) : t[k] = Byte(s[k])
  BY <1>3
<1>8. Cell(b, i) = <<h>> \o t
  BY DEF Cell, s, h, t
<1>9. /\ <<h>> \o t \in Seq(C) /\ Len(<<h>> \o t) = 1 + Len(s)
      /\ \A k \in 1 .. 1 + Len(s) : (<<h>> \o t)[k] = IF k <= 1 THEN <<h>>[k] ELSE t[k - 1]
  BY <1>2, <1>5, <1>6, ConcatProperties
<1>10. (<<h>> \o t)[1] = h
  <2>1. 1 \in 1 .. 1 + Len(s)
    BY <1>2
  <2> QED
    BY <1>6, <1>9, <2>1
<1>11. \A k \in 1 .. Len(s) : (<<h>> \o t)[1 + k] = Byte(s[k])
  <2> TAKE k \in 1 .. Len(s)
  <2>1. 1 + k \in 1 .. 1 + Len(s) /\ ~(1 + k <= 1) /\ 1 + k - 1 = k
    BY <1>2
  <2> QED
    BY <1>7, <1>9, <2>1
<1> QED
  BY <1>1, <1>2, <1>8, <1>9, <1>10, <1>11 DEF s, h, C

\* Where a record stands in f it stands in every longer sequence.
LEMMA StandsStill ==
    ASSUME NEW b \in Seq(Record), NEW f \in Seq(Cells(b)), NEW s \in Seq(Cells(b)),
           NEW i \in 1 .. Len(b), NEW p, StandsAt(b, f, i, p)
    PROVE  StandsAt(b, f \o s, i, p)
<1> DEFINE n == Len(b[i].payload)
<1>1. n \in Nat
  BY CellOf
<1>2. \A k \in 1 .. Len(f) : (f \o s)[k] = f[k]
  OBVIOUS
<1>3. Len(f \o s) = Len(f) + Len(s) /\ Len(f) \in Nat /\ Len(s) \in Nat
  OBVIOUS
<1>4. p \in Nat \ {0} /\ p + n <= Len(f)
  BY DEF StandsAt
<1> HIDE DEF n
<1>5. p \in 1 .. Len(f) /\ \A k \in 1 .. n : p + k \in 1 .. Len(f)
  BY <1>1, <1>3, <1>4
<1>6. p + n <= Len(f \o s)
  BY <1>1, <1>3, <1>4
<1>7. (f \o s)[p] = f[p] /\ \A k \in 1 .. n : (f \o s)[p + k] = f[p + k]
  BY <1>2, <1>5
<1> QED
  BY <1>4, <1>6, <1>7 DEF StandsAt, n

\* A cell put behind f stands behind it.
LEMMA StandsBehind ==
    ASSUME NEW b \in Seq(Record), NEW f \in Seq(Cells(b)), NEW i \in 1 .. Len(b)
    PROVE  /\ StandsAt(b, f \o Cell(b, i), i, Len(f) + 1)
           /\ f \o Cell(b, i) \in Seq(Cells(b))
           /\ Len(f \o Cell(b, i)) = Len(f) + 1 + Len(b[i].payload)
<1> DEFINE n == Len(b[i].payload)
           c == Cell(b, i)
           C == Cells(b)
<1>1. /\ n \in Nat /\ c \in Seq(C) /\ Len(c) = 1 + n /\ c[1] = HeaderOf(Header(b, i))
      /\ \A k \in 1 .. n : c[1 + k] = Byte(b[i].payload[k])
  BY CellOf
<1> HIDE DEF n, c, C
<1>2. /\ f \o c \in Seq(C) /\ Len(f \o c) = Len(f) + Len(c) /\ Len(f) \in Nat
      /\ \A k \in 1 .. Len(f) + Len(c) : (f \o c)[k] = IF k <= Len(f) THEN f[k] ELSE c[k - Len(f)]
  BY <1>1, ConcatProperties, LenProperties DEF C
<1>3. (f \o c)[Len(f) + 1] = c[1]
  <2>1. Len(f) + 1 \in 1 .. Len(f) + Len(c) /\ ~(Len(f) + 1 <= Len(f)) /\ Len(f) + 1 - Len(f) = 1
    BY <1>1, <1>2
  <2> QED
    BY <1>2, <2>1
<1>4. \A k \in 1 .. n : (f \o c)[Len(f) + 1 + k] = c[1 + k]
  <2> TAKE k \in 1 .. n
  <2> DEFINE j == Len(f) + 1 + k
  <2>1. j \in 1 .. Len(f) + Len(c) /\ ~(j <= Len(f)) /\ j - Len(f) = 1 + k
    BY <1>1, <1>2
  <2> HIDE DEF j
  <2>2. (f \o c)[j] = c[1 + k]
    BY <1>2, <2>1
  <2> QED
    BY <2>2 DEF j
<1>5. Len(f) + 1 \in Nat \ {0} /\ Len(f) + 1 + n <= Len(f \o c) /\ Len(f \o c) = Len(f) + 1 + n
  BY <1>1, <1>2
<1>6. StandsAt(b, f \o c, i, Len(f) + 1)
  BY <1>1, <1>3, <1>4, <1>5 DEF StandsAt, n
<1> QED
  BY <1>2, <1>5, <1>6 DEF n, c, C

\* Every record stands in the image of its bundle, one behind the other.
Layout(b, p) ==
    /\ p[1] = 1
    /\ \A i \in 2 .. Len(b) : p[i] = p[i - 1] + 1 + Len(b[i - 1].payload)
    /\ \A i \in 1 .. Len(b) : StandsAt(b, Image(b), i, p[i])

LEMMA ImageLayout ==
    ASSUME NEW b \in Seq(Record), b # <<>>
    PROVE  Image(b) \in Seq(Cells(b)) /\ \E p : Layout(b, p)
<1> DEFINE N == Len(b)
           c == [i \in 1 .. N |-> Cell(b, i)]
<1>1. N \in Nat \ {0} /\ DOMAIN b = 1 .. N
  BY EmptySeq
<1>2. Image(b) = FlattenSeq(c)
  BY <1>1 DEF Image, Cell
<1>3. Len(c) = N /\ \A i \in 1 .. N : c[i] = Cell(b, i)
  <2>1. \A i \in 1 .. N : Cell(b, i) \in Seq(Cells(b))
    BY CellOf
  <2>2. c \in [1 .. N -> Seq(Cells(b))]
    BY <2>1
  <2>3. c \in Seq(Seq(Cells(b))) /\ Len(c) = N
    <3> HIDE DEF c
    <3> QED
      BY <1>1, <2>2
  <2> QED
    BY <2>3
<1> HIDE DEF c
<1>4. PICK f : /\ FlattenSeq(c) = f[N] /\ f[1] = c[1]
               /\ \A i \in 2 .. N : f[i] = f[i - 1] \o c[i]
  <2>1. Len(c) \in Nat \ {0}
    BY <1>1, <1>3
  <2>2. \E f : /\ FlattenSeq(c) = f[Len(c)] /\ f[1] = c[1]
               /\ \A i \in 2 .. Len(c) : f[i] = f[i - 1] \o c[i]
    BY <2>1, Flattened
  <2> QED
    BY <1>3, <2>2
<1> DEFINE p == [i \in 1 .. N |-> IF i = 1 THEN 1 ELSE Len(f[i - 1]) + 1]
           Laid(n) == /\ f[n] \in Seq(Cells(b)) /\ Len(f[n]) = p[n] + Len(b[n].payload)
                      /\ \A i \in 1 .. n : StandsAt(b, f[n], i, p[i])
           T == {n \in 1 .. N : ~Laid(n)}
<1>5. p[1] = 1 /\ \A i \in 2 .. N : p[i] = Len(f[i - 1]) + 1
  <2>1. 1 \in 1 .. N /\ \A i \in 2 .. N : i \in 1 .. N /\ i # 1
    BY <1>1
  <2> QED
    BY <2>1
<1> HIDE DEF p
<1>6. ASSUME T # {} PROVE FALSE
  <2>1. PICK n \in T : \A k \in T : n <= k
    <3>1. T \in SUBSET Nat
      BY <1>1
    <3> HIDE DEF T
    <3> QED
      BY <1>6, <3>1, LeastNumber
  <2>2. n \in 1 .. N /\ n \in Nat
    BY <1>1, <2>1
  <2>3. Len(b[n].payload) \in Nat
    BY <2>2, CellOf
  <2>4. CASE n = 1
    <3>1. <<>> \in Seq(Cells(b)) /\ Len(<<>>) = 0 /\ <<>> \o Cell(b, 1) = Cell(b, 1)
      BY <1>1, CellOf, ConcatEmptySeq, EmptySeq
    <3>2. /\ StandsAt(b, Cell(b, 1), 1, 1) /\ Cell(b, 1) \in Seq(Cells(b))
          /\ Len(Cell(b, 1)) = 1 + Len(b[1].payload)
      <4> DEFINE e == <<>>
      <4>1. e \in Seq(Cells(b)) /\ Len(e) = 0 /\ e \o Cell(b, 1) = Cell(b, 1) /\ 1 \in 1 .. N
        BY <2>2, <2>4, <3>1
      <4> HIDE DEF e
      <4>2. /\ StandsAt(b, e \o Cell(b, 1), 1, Len(e) + 1) /\ e \o Cell(b, 1) \in Seq(Cells(b))
            /\ Len(e \o Cell(b, 1)) = Len(e) + 1 + Len(b[1].payload)
        BY <4>1, StandsBehind
      <4> QED
        BY <2>3, <2>4, <4>1, <4>2
    <3>3. f[1] = Cell(b, 1)
      BY <1>3, <1>4, <2>2, <2>4
    <3>4. \A i \in 1 .. 1 : i = 1
      OBVIOUS
    <3>5. Laid(1)
      BY <1>5, <3>2, <3>3, <3>4
    <3> QED
      BY <2>1, <2>4, <3>5
  <2>5. CASE n # 1
    <3>1. n \in 2 .. N /\ n - 1 \in 1 .. N /\ n - 1 \notin T
      <4>1. n \in 2 .. N /\ n - 1 \in 1 .. N /\ ~(n <= n - 1)
        BY <1>1, <2>2, <2>5
      <4> HIDE DEF T
      <4> QED
        BY <2>1, <4>1
    <3>2. Laid(n - 1)
      BY <3>1
    <3> DEFINE q == p[n]
               g == f[n - 1]
    <3>3. f[n] = g \o Cell(b, n) /\ q = Len(g) + 1
      BY <1>3, <1>4, <1>5, <2>2, <3>1
    <3>4. g \in Seq(Cells(b)) /\ \A i \in 1 .. n - 1 : StandsAt(b, g, i, p[i])
      BY <3>2
    <3>5. /\ StandsAt(b, g \o Cell(b, n), n, Len(g) + 1) /\ g \o Cell(b, n) \in Seq(Cells(b))
          /\ Len(g \o Cell(b, n)) = Len(g) + 1 + Len(b[n].payload)
      BY <2>2, <3>4, StandsBehind
    <3>6. \A i \in 1 .. n - 1 : StandsAt(b, g \o Cell(b, n), i, p[i])
      <4>1. Cell(b, n) \in Seq(Cells(b)) /\ \A i \in 1 .. n - 1 : i \in 1 .. N
        BY <2>2, <3>1, CellOf
      <4> QED
        BY <3>4, <4>1, StandsStill
    <3>7. \A i \in 1 .. n : i = n \/ i \in 1 .. n - 1
      BY <2>2
    <3>8. Laid(n)
      <4>1. StandsAt(b, f[n], n, p[n])
        BY <3>3, <3>5
      <4>2. \A i \in 1 .. n - 1 : StandsAt(b, f[n], i, p[i])
        BY <3>3, <3>6
      <4>3. \A i \in 1 .. n : StandsAt(b, f[n], i, p[i])
        BY <3>7, <4>1, <4>2
      <4> QED
        BY <3>3, <3>5, <4>3
    <3> QED
      BY <2>1, <3>8
  <2> QED
    BY <2>4, <2>5
<1>7. \A n \in 1 .. N : Laid(n)
  BY <1>6
<1>8. \A i \in 2 .. N : p[i] = p[i - 1] + 1 + Len(b[i - 1].payload)
  <2> TAKE i \in 2 .. N
  <2>1. i - 1 \in 1 .. N
    BY <1>1
  <2>2. p[i] = Len(f[i - 1]) + 1 /\ Len(f[i - 1]) = p[i - 1] + Len(b[i - 1].payload)
    BY <1>5, <1>7, <2>1
  <2>3. StandsAt(b, f[i - 1], i - 1, p[i - 1])
    <3>1. i - 1 \in 1 .. i - 1
      BY <2>1
    <3> QED
      BY <1>7, <2>1, <3>1
  <2>4. p[i - 1] \in Nat /\ Len(b[i - 1].payload) \in Nat
    BY <2>1, <2>3, CellOf DEF StandsAt
  <2> QED
    BY <2>2, <2>4
<1>9. N \in 1 .. N
  BY <1>1
<1>10. Image(b) = f[N]
  BY <1>2, <1>4
<1>11. Layout(b, p)
  BY <1>5, <1>7, <1>8, <1>9, <1>10 DEF Layout
<1> QED
  BY <1>7, <1>9, <1>10, <1>11

\* In the buffer every header is found at its place.
LEMMA HeaderFound ==
    ASSUME NEW b \in Seq(Record), NEW i \in 1 .. Len(b), NEW p,
           Image(b) \in Seq(Cells(b)), StandsAt(b, Image(b), i, p)
    PROVE  HeaderAt(Buffer(Image(b)), p) = Header(b, i)
<1> DEFINE f == Image(b)
           z == Zeros(Len(f))
<1>1. z \in Seq(Cells(b))
  <2>1. Byte(0) \in Cells(b)
    BY DEF Cells
  <2>2. Len(f) \in Nat
    BY LenProperties
  <2>3. z = [k \in 1 .. Len(f) |-> Byte(0)]
    BY DEF Zeros
  <2> HIDE DEF f, z
  <2> QED
    BY <2>1, <2>2, <2>3
<1>2. StandsAt(b, Buffer(f), i, p)
  BY <1>1, StandsStill DEF Buffer
<1>3. Buffer(f)[p] = HeaderOf(Header(b, i))
  BY <1>2 DEF StandsAt
<1> QED
  BY <1>3 DEF HeaderAt, IsHeader, HeaderOf

\* The cursor finds every record, and no more.
LEMMA CursorsFound ==
    ASSUME NEW b \in Seq(Record), b # <<>>
    PROVE  /\ Turns(Buffer(Image(b))) = Len(b)
           /\ \A i \in 1 .. Len(b) : HeaderAt(Buffer(Image(b)), Cursors(Buffer(Image(b)))[i]) = Header(b, i)
<1> DEFINE N == Len(b)
           B == Buffer(Image(b))
           Moves(f) == f = [i \in 1 .. N |-> IF i = 1 THEN 1 ELSE f[i - 1] + StepOver(HeaderAt(B, f[i - 1]))]
<1>1. N \in Nat \ {0}
  BY EmptySeq
<1>2. PICK p : Image(b) \in Seq(Cells(b)) /\ Layout(b, p)
  BY ImageLayout
<1>3. \A i \in 1 .. N : HeaderAt(B, p[i]) = Header(b, i)
  BY <1>2, HeaderFound DEF Layout
<1>4. p[1] = 1 /\ 1 \in 1 .. N
  BY <1>1, <1>2 DEF Layout
<1>5. Turns(B) = N
  <2>1. HeaderAt(B, 1) = Header(b, 1)
    BY <1>3, <1>4
  <2>2. Header(b, 1).index = N - 1
    BY DEF Header, IndexCounter
  <2> QED
    BY <1>1, <2>1, <2>2 DEF Turns
<1>6. Cursors(B) = CHOOSE f : Moves(f)
  BY <1>5 DEF Cursors
<1> HIDE DEF B
<1>7. \A i \in 2 .. N : p[i] = p[i - 1] + StepOver(HeaderAt(B, p[i - 1]))
  <2> TAKE i \in 2 .. N
  <2>1. i - 1 \in 1 .. N
    BY <1>1
  <2>2. StepOver(HeaderAt(B, p[i - 1])) = 1 + Len(b[i - 1].payload)
    <3>1. HeaderAt(B, p[i - 1]) = Header(b, i - 1)
      BY <1>3, <2>1
    <3>2. Header(b, i - 1).payload_len = Len(b[i - 1].payload)
      BY DEF Header
    <3> QED
      BY <3>1, <3>2 DEF StepOver
  <2>3. p[i] = p[i - 1] + 1 + Len(b[i - 1].payload)
    BY <1>2 DEF Layout
  <2>4. p[i - 1] \in Nat /\ Len(b[i - 1].payload) \in Nat
    BY <1>2, <2>1, CellOf DEF Layout, StandsAt
  <2> QED
    BY <2>2, <2>3, <2>4
<1> DEFINE q == [i \in 1 .. N |-> p[i]]
           c == Cursors(B)
<1>8. Moves(q)
  <2>1. \A i \in 1 .. N : i # 1 => i \in 2 .. N /\ i - 1 \in 1 .. N
    BY <1>1
  <2>2. \A i \in 1 .. N : q[i] = IF i = 1 THEN 1 ELSE q[i - 1] + StepOver(HeaderAt(B, q[i - 1]))
    BY <1>4, <1>7, <2>1
  <2>3. q = [i \in 1 .. N |-> q[i]]
    OBVIOUS
  <2> HIDE DEF q
  <2> QED
    BY <2>2, <2>3
<1>9. Moves(c)
  <2> HIDE DEF Moves
  <2> QED
    BY <1>6, <1>8
<1> HIDE DEF c
<1>10. \A i \in 1 .. N : c[i] = IF i = 1 THEN 1 ELSE c[i - 1] + StepOver(HeaderAt(B, c[i - 1]))
  BY <1>9
<1>11. \A i \in 1 .. N : c[i] = p[i]
  <2> DEFINE T == {i \in 1 .. N : c[i] # p[i]}
  <2> SUFFICES ASSUME T # {} PROVE FALSE
    OBVIOUS
  <2>1. PICK n \in T : \A k \in T : n <= k
    <3>1. T \in SUBSET Nat
      BY <1>1
    <3> HIDE DEF T
    <3> QED
      BY <3>1, LeastNumber
  <2>2. n \in 1 .. N /\ n \in Nat /\ c[n] # p[n]
    BY <1>1, <2>1
  <2>3. n # 1 => n \in 2 .. N /\ n - 1 \notin T /\ n - 1 \in 1 .. N
    <3>1. n # 1 => n \in 2 .. N /\ n - 1 \in 1 .. N /\ ~(n <= n - 1)
      BY <1>1, <2>2
    <3> HIDE DEF T
    <3> QED
      BY <2>1, <3>1
  <2>4. n # 1 => c[n - 1] = p[n - 1]
    BY <2>3
  <2> QED
    BY <1>4, <1>7, <1>10, <2>2, <2>3, <2>4
<1> QED
  BY <1>3, <1>5, <1>11 DEF B, c

\* One item is read for every record of the bundle, in their order.
LEMMA ItemsRead ==
    ASSUME NEW b \in Seq(Record), b # <<>>
    PROVE  /\ Len(Items(Image(b))) = Len(b) /\ Len(b) \in Nat \ {0}
           /\ \A i \in 1 .. Len(b) : Items(Image(b))[i] = DiscoveryItem(Buffer(Image(b)), Header(b, i))
<1> DEFINE B == Buffer(Image(b))
           I(i) == DiscoveryItem(B, HeaderAt(B, Cursors(B)[i]))
<1>1. Len(b) \in Nat \ {0}
  BY EmptySeq
<1>2. Turns(B) = Len(b) /\ \A i \in 1 .. Len(b) : HeaderAt(B, Cursors(B)[i]) = Header(b, i)
  BY CursorsFound
<1>3. Items(Image(b)) = [i \in 1 .. Len(b) |-> I(i)]
  BY <1>2 DEF Items
<1>4. \A i \in 1 .. Len(b) : I(i) = DiscoveryItem(B, Header(b, i))
  BY <1>2
<1> HIDE DEF I
<1>5. Len([i \in 1 .. Len(b) |-> I(i)]) = Len(b)
  BY <1>1
<1> QED
  BY <1>1, <1>3, <1>4, <1>5

\* e carries what the header holds of record r.
Carries(e, r) ==
    /\ IsEventOf(e, r)
    /\ e.payload_len = Len(r.payload) /\ e.csum = messageChecksum(r.payload)
    /\ IsPrefix(e.key, r.key) /\ Len(e.key) < KeyMaxLen
    /\ Len(r.key) < KeyMaxLen /\ 0 \notin ToSet(r.key) => e.key = r.key

LEMMA PrefixOf ==
    ASSUME NEW S, NEW s \in Seq(S), NEW t \in Seq(S), Len(s) <= Len(t),
           \A j \in 1 .. Len(s) : s[j] = t[j]
    PROVE  IsPrefix(s, t)
<1>1. SubSeq(s, 1, Len(s)) = s
  BY SubSeqFull
<1>2. Len(s) \in Nat /\ Len(t) \in Nat /\ \A j \in 1 .. Len(s) : t[j] \in S
  <2>1. Len(s) \in Nat /\ Len(t) \in Nat
    BY LenProperties
  <2>2. \A j \in 1 .. Len(s) : j \in 1 .. Len(t)
    BY <2>1
  <2> QED
    BY <2>1, <2>2, ElementOfSeq
<1> DEFINE u == SubSeq(t, 1, Len(s))
<1>3. /\ u \in Seq(S) /\ Len(u) = IF 1 <= Len(s) THEN Len(s) - 1 + 1 ELSE 0
      /\ \A j \in 1 .. Len(s) - 1 + 1 : u[j] = t[1 + j - 1]
  <2>1. Len(s) \in Int /\ 1 \in Int
    BY <1>2
  <2> QED
    BY <1>2, <2>1, SubSeqProperties
<1> HIDE DEF u
<1>4. Len(u) = Len(s) /\ \A j \in 1 .. Len(s) : u[j] = t[j]
  <2>1. Len(s) - 1 + 1 = Len(s) /\ \A j \in 1 .. Len(s) : 1 + j - 1 = j
    BY <1>2
  <2>2. Len(u) = Len(s)
    BY <1>2, <1>3, <2>1
  <2> QED
    BY <1>3, <2>1, <2>2
<1>5. u = s
  BY <1>3, <1>4, SeqEqual
<1> QED
  BY <1>1, <1>5 DEF IsPrefix, u

LEMMA SubSeqFrom ==
    ASSUME NEW S, NEW s \in Seq(S), NEW m \in 0 .. Len(s)
    PROVE  /\ SubSeq(s, 1, m) \in Seq(S) /\ Len(SubSeq(s, 1, m)) = m
           /\ \A j \in 1 .. m : SubSeq(s, 1, m)[j] = s[j]
<1>1. Len(s) \in Nat
  BY LenProperties
<1>2. m \in Int /\ 1 \in Int /\ \A j \in 1 .. m : s[j] \in S
  <2>1. \A j \in 1 .. m : j \in 1 .. Len(s)
    BY <1>1
  <2> QED
    BY <1>1, <2>1, ElementOfSeq
<1>3. /\ SubSeq(s, 1, m) \in Seq(S) /\ Len(SubSeq(s, 1, m)) = IF 1 <= m THEN m - 1 + 1 ELSE 0
      /\ \A j \in 1 .. m - 1 + 1 : SubSeq(s, 1, m)[j] = s[1 + j - 1]
  BY <1>2, SubSeqProperties
<1> QED
  BY <1>1, <1>3

\* The key that is read is the part of the key before its first NUL, if it is short.
LEMMA KeyKept ==
    ASSUME NEW key \in Seq(0 .. 255)
    PROVE  /\ IsPrefix(KeyRead(KeyField(key)), key) /\ Len(KeyRead(KeyField(key))) < KeyMaxLen
           /\ Len(key) < KeyMaxLen /\ 0 \notin ToSet(key) => KeyRead(KeyField(key)) = key
<1> DEFINE m == Least(Len(key), KeyMaxLen - 1)
           f == KeyField(key)
           k == KeyRead(f)
           NUL(i) == i \in DOMAIN f /\ f[i] = 0 /\ \A j \in 1 .. i - 1 : f[j] # 0
<1>1. Len(key) \in Nat /\ m \in 0 .. Len(key) /\ m < KeyMaxLen /\ (Len(key) < KeyMaxLen => m = Len(key))
  BY KeyAssumption, LenProperties DEF Least
<1>2. f = SubSeq(key, 1, m)
  BY DEF KeyField
<1> HIDE DEF m
<1>3. f \in Seq(0 .. 255) /\ Len(f) = m /\ \A j \in 1 .. m : f[j] = key[j]
  BY <1>1, <1>2, SubSeqFrom
<1> HIDE DEF f
<1>4. DOMAIN f = 1 .. m /\ m \in Nat
  BY <1>1, <1>3
<1>5. CASE \E i \in DOMAIN f : f[i] = 0
  <2> DEFINE T == {i \in 1 .. m : f[i] = 0}
  <2>1. T # {} /\ T \in SUBSET Nat
    BY <1>4, <1>5
  <2>2. PICK n \in T : \A j \in T : n <= j
    <3> HIDE DEF T
    <3> QED
      BY <2>1, LeastNumber
  <2>3. NUL(n)
    <3>1. \A j \in 1 .. n - 1 : j \in 1 .. m /\ ~(n <= j)
      BY <1>4, <2>2
    <3> QED
      BY <1>4, <2>2, <3>1
  <2> DEFINE c == CHOOSE i \in DOMAIN f : f[i] = 0 /\ \A j \in 1 .. i - 1 : f[j] # 0
  <2>4. NUL(c)
    BY <2>3
  <2>5. k = SubSeq(f, 1, c - 1)
    BY <1>5 DEF KeyRead
  <2> HIDE DEF c, k
  <2>6. c \in 1 .. m /\ c - 1 \in 0 .. Len(f) /\ c - 1 < m
    BY <1>3, <1>4, <2>4
  <2>7. k \in Seq(0 .. 255) /\ Len(k) = c - 1 /\ \A j \in 1 .. c - 1 : k[j] = f[j]
    BY <1>3, <2>5, <2>6, SubSeqFrom
  <2>8. \A j \in 1 .. c - 1 : k[j] = key[j]
    BY <1>3, <1>4, <2>6, <2>7
  <2>9. Len(k) <= Len(key) /\ Len(k) < KeyMaxLen
    BY <1>1, <2>6, <2>7, KeyAssumption
  <2>10. 0 \in ToSet(key)
    <3>1. c \in DOMAIN key /\ key[c] = 0
      BY <1>1, <1>3, <2>4, <2>6
    <3> QED
      BY <3>1 DEF ToSet
  <2>11. IsPrefix(k, key)
    BY <2>7, <2>8, <2>9, PrefixOf
  <2> QED
    BY <2>9, <2>10, <2>11 DEF k, f
<1>6. CASE ~ \E i \in DOMAIN f : f[i] = 0
  <2>1. k = f
    BY <1>6 DEF KeyRead
  <2>2. IsPrefix(f, key) /\ Len(f) < KeyMaxLen
    BY <1>1, <1>3, PrefixOf
  <2>3. Len(key) < KeyMaxLen => f = key
    BY <1>1, <1>3, SeqEqual
  <2> QED
    BY <2>1, <2>2, <2>3 DEF f
<1> QED
  BY <1>5, <1>6

\* What is read back from an object is the records that were written, one by
\* one: their headers, and of the payloads that of the first.
\* (MessageHeader::set, stash_by_topic, batch_discovery_bykey.)
THEOREM ItemCarries ==
    ASSUME NEW b \in Seq(Record), b # <<>>, NEW i \in 1 .. Len(b)
    PROVE  /\ Carries(Items(Image(b))[i], b[i])
           /\ b[1] = b[i] => Items(Image(b))[i].payload = Bytes(b[i].payload)
<1> DEFINE B == Buffer(Image(b))
           e == Items(Image(b))[i]
           r == b[i]
           n == Len(r.payload)
<1>1. e = DiscoveryItem(B, Header(b, i))
  BY ItemsRead
<1>2. r \in Record
  OBVIOUS
<1>3. r.key \in Seq(0 .. 255) /\ r.payload \in Seq(0 .. 255)
  BY <1>2 DEF Record
<1>4. /\ e.timestamp = r.timestamp /\ e.partition = r.partition /\ e.offset = r.offset
      /\ e.csum = messageChecksum(r.payload) /\ e.payload_len = n
      /\ e.key = KeyRead(KeyField(r.key)) /\ e.payload = SubSeq(B, 2, 1 + n)
  BY <1>1 DEF DiscoveryItem, Header, PayloadRead
<1> HIDE DEF e, r, B
<1>5. Carries(e, r)
  BY <1>3, <1>4, KeyKept DEF Carries, IsEventOf
<1>6. ASSUME b[1] = r PROVE e.payload = Bytes(r.payload)
  <2>1. PICK p : Image(b) \in Seq(Cells(b)) /\ Layout(b, p)
    BY ImageLayout
  <2>2. 1 \in 1 .. Len(b) /\ p[1] = 1
    BY <2>1, ItemsRead DEF Layout
  <2> DEFINE f == Image(b)
  <2>3. StandsAt(b, f, 1, 1)
    BY <2>1, <2>2 DEF Layout
  <2>4. 1 + n <= Len(f) /\ \A k \in 1 .. n : f[1 + k] = Byte(r.payload[k])
    BY <1>6, <2>3 DEF StandsAt
  <2>5. n \in Nat /\ Len(f) \in Nat /\ DOMAIN r.payload = 1 .. n
    BY <1>3, <2>1, LenProperties
  <2> DEFINE z == Zeros(Len(f))
             C == Cells(b)
  <2>6. z \in Seq(C) /\ f \in Seq(C)
    <3>1. Byte(0) \in Cells(b)
      BY DEF Cells
    <3>2. z = [k \in 1 .. Len(f) |-> Byte(0)]
      BY DEF Zeros
    <3> HIDE DEF f, z
    <3> QED
      BY <2>1, <2>5, <3>1, <3>2 DEF f
  <2> HIDE DEF f, z, C
  <2>7. B = f \o z
    BY DEF B, Buffer, f, z
  <2>8. \A k \in 1 .. n : B[1 + k] = Byte(r.payload[k])
    <3>1. \A j \in 1 .. Len(f) : (f \o z)[j] = f[j]
      BY <2>6
    <3>2. \A k \in 1 .. n : 1 + k \in 1 .. Len(f)
      BY <2>4, <2>5
    <3> QED
      BY <2>4, <2>7, <3>1, <3>2
  <2> DEFINE s == SubSeq(B, 2, 1 + n)
             t == Bytes(r.payload)
             D == {Byte(x) : x \in 0 .. 255}
  <2>9. t = [k \in 1 .. n |-> Byte(r.payload[k])] /\ \A k \in 1 .. n : Byte(r.payload[k]) \in D
    <3>1. \A k \in 1 .. n : r.payload[k] \in 0 .. 255
      BY <1>3, ElementOfSeq
    <3> QED
      BY <2>5, <3>1 DEF Bytes
  <2> HIDE DEF D
  <2>10. t \in Seq(D) /\ Len(t) = n /\ \A k \in 1 .. n : t[k] = Byte(r.payload[k])
    <3> HIDE DEF t
    <3> QED
      BY <2>5, <2>9
  <2>11. \A j \in 2 .. 1 + n : B[j] \in D
    <3> TAKE j \in 2 .. 1 + n
    <3>1. j - 1 \in 1 .. n /\ 1 + (j - 1) = j
      BY <2>5
    <3>2. B[1 + (j - 1)] = Byte(r.payload[j - 1])
      BY <2>8, <3>1
    <3> QED
      BY <2>9, <3>1, <3>2
  <2>12. /\ s \in Seq(D) /\ Len(s) = IF 2 <= 1 + n THEN 1 + n - 2 + 1 ELSE 0
         /\ \A k \in 1 .. 1 + n - 2 + 1 : s[k] = B[2 + k - 1]
    <3>1. 2 \in Int /\ 1 + n \in Int
      BY <2>5
    <3> QED
      BY <2>11, <3>1, SubSeqProperties
  <2> HIDE DEF s
  <2>13. Len(s) = n /\ \A k \in 1 .. n : s[k] = B[1 + k]
    <3>1. 1 + n - 2 + 1 = n /\ \A k \in 1 .. n : 2 + k - 1 = 1 + k
      BY <2>5
    <3>2. Len(s) = n
      BY <2>5, <2>12, <3>1
    <3> QED
      BY <2>12, <3>1, <3>2
  <2>14. \A k \in 1 .. n : s[k] = t[k]
    BY <2>8, <2>10, <2>13
  <2> HIDE DEF t
  <2>15. s = t
    BY <2>10, <2>12, <2>13, <2>14, SeqEqual
  <2> QED
    BY <1>4, <2>15 DEF s, t
<1> QED
  BY <1>5, <1>6 DEF e, r

-----------------------------------------------------------------------------
(* The invariant.                                                          *)

InRange(o) == (slash => OfTopic(o)) /\ \E stray \in StrayInts : InWindow(o, stray)

\* Nothing is produced before the map is complete, and nothing is missed
\* before a request has failed.
Staged ==
    /\ pc \in {"list", "get"} => /\ outq = {} /\ delivered = <<>> /\ lost = {}
                                 /\ resent = {} /\ todo = {}
    /\ pc = "list" => missed = {}
    /\ pc \in {"produce", "done", "aborted"} => outq = {}
    /\ pc = "done" => todo = {}

KeysInRange == keys \in Seq(bucket) /\ \A n \in DOMAIN keys : InRange(keys[n])

\* Every item was read from record i of an object that was asked for.
ReadFrom(e, o) ==
    \E i \in 1 .. Len(Bundle(o)) :
        /\ Carries(e, Bundle(o)[i])
        /\ Bundle(o)[1] = Bundle(o)[i] => e.payload = Bytes(Bundle(o)[i].payload)

MapRead == \A e \in vmap : \E o \in DOMAIN written : InRange(o) /\ ReadFrom(e, o)

OncePassed ==
    /\ todo \cap (outq \cup ToSet(delivered)) = {}
    /\ outq \cap ToSet(delivered) \subseteq resent
    /\ \A i, j \in DOMAIN delivered : i # j /\ delivered[i] = delivered[j] => delivered[i] \in resent

InOrder ==
    /\ \A x, y \in outq : x = y
    /\ \A i, j \in DOMAIN delivered : i < j => ~Precedes(delivered[j], delivered[i])
    /\ \A x \in outq \cup todo : \A i \in DOMAIN delivered : ~Precedes(x, delivered[i])
    /\ \A x \in todo, e \in outq : ~Precedes(x, e)

Wanted(o) == OfTopic(o) /\ \A stray \in StrayInts : InWindow(o, stray)

InMap(o) ==
    \A i \in 1 .. Len(Bundle(o)) : Bundle(o)[i].timestamp # 0 =>
        \E e \in vmap : Index(e) = Index(Bundle(o)[i])

\* What was in the bucket at the start is still to be listed, listed, or in the map.
NoneOverlooked ==
    \A o \in Scenarios[scenario].initially \ missed : Wanted(o) =>
        /\ pc = "list" => o > lastkey \/ o \in ToSet(keys)
        /\ pc = "get" => o \in ToSet(keys) \/ InMap(o)
        /\ pc \in {"produce", "wait", "done"} => InMap(o)

NoneDropped ==
    ~Scenarios[scenario].partition /\ pc \in {"produce", "wait", "done"} =>
        \A e \in vmap : e.payload_len > 0 => e \in todo \cup outq \cup lost \cup ToSet(delivered)

Types == TypeOK /\ Staged /\ keys \in Seq(bucket)

-----------------------------------------------------------------------------
(* The scenario, which never changes, and the page.                        *)

LEMMA Situation ==
    ASSUME scenario \in DOMAIN Scenarios
    PROVE  /\ IsScenario(Scenarios[scenario])
           /\ DOMAIN written \in SUBSET Nat /\ IsFiniteSet(DOMAIN written)
           /\ \A o \in DOMAIN written : /\ IsObject(written[o])
                                        /\ Bundle(o) \in Seq(Record) /\ Bundle(o) # <<>>
<1>1. IsScenario(Scenarios[scenario])
  BY ReplayAssumption
<1>2. DOMAIN written \subseteq Objects /\ \A o \in DOMAIN written : IsObject(written[o])
  BY <1>1 DEF IsScenario, written
<1>3. IsFiniteSet(DOMAIN written)
  BY <1>2, ReplayAssumption, FS_Subset
<1>4. \A o \in DOMAIN written : Bundle(o) \in Seq(Record) /\ Bundle(o) # <<>>
  BY <1>2 DEF IsObject, Bundle
<1> QED
  BY <1>1, <1>2, <1>3, <1>4, ReplayAssumption

LEMMA SameSituation ==
    ASSUME scenario' = scenario
    PROVE  /\ written' = written /\ slash' = slash
           /\ \A o : /\ Bundle(o)' = Bundle(o) /\ OfTopic(o)' = OfTopic(o)
                     /\ InRange(o)' <=> InRange(o)
                     /\ Wanted(o)' <=> Wanted(o)
<1>1. written' = written /\ slash' = slash
  BY DEF written, slash
<1>2. \A o : Bundle(o)' = Bundle(o) /\ OfTopic(o)' = OfTopic(o)
  BY <1>1 DEF Bundle, OfTopic
<1>3. \A o : KeyTime(o)' = KeyTime(o)
  BY <1>1, <1>2 DEF KeyTime
<1>4. \A o, stray : InWindow(o, stray)' <=> InWindow(o, stray)
  BY <1>3 DEF InWindow
<1> QED
  BY <1>1, <1>2, <1>4 DEF InRange, Wanted

LEMMA PageListed ==
    ASSUME TypeOK, NEW stray
    PROVE  /\ Page \in SUBSET bucket /\ IsFiniteSet(Page) /\ Page \in SUBSET Nat
           /\ InKeyOrder({o \in Page : InWindow(o, stray)}) \in Seq(bucket)
           /\ ToSet(InKeyOrder({o \in Page : InWindow(o, stray)})) = {o \in Page : InWindow(o, stray)}
           /\ Page # {} => LET page == InKeyOrder(Page)
                           IN  page[Len(page)] \in Page /\ \A o \in Page : o <= page[Len(page)]
<1> DEFINE F == {o \in Page : InWindow(o, stray)}
           page == InKeyOrder(Page)
<1>1. Page \in SUBSET bucket
  BY DEF Page
<1>2. DOMAIN written \in SUBSET Nat /\ IsFiniteSet(DOMAIN written) /\ bucket \subseteq DOMAIN written
  BY Situation DEF TypeOK
<1>3. Page \subseteq DOMAIN written /\ F \subseteq DOMAIN written /\ F \subseteq Page
  BY <1>1, <1>2
<1> HIDE DEF F
<1>4. IsFiniteSet(Page) /\ IsFiniteSet(F) /\ Page \in SUBSET Nat /\ F \in SUBSET Nat
  BY <1>2, <1>3, FS_Subset
<1>5. InKeyOrder(F) \in Seq(F) /\ ToSet(InKeyOrder(F)) = F
  BY <1>4, KeyOrder
<1>6. InKeyOrder(F) \in Seq(bucket)
  <2>1. F \subseteq bucket
    BY <1>1, <1>3
  <2> QED
    BY <1>5, <2>1, SeqMonotonic
<1>7. Page # {} => page[Len(page)] \in Page /\ \A o \in Page : o <= page[Len(page)]
  <2> SUFFICES ASSUME Page # {} PROVE page[Len(page)] \in Page /\ \A o \in Page : o <= page[Len(page)]
    OBVIOUS
  <2>1. /\ page \in Seq(Page) /\ ToSet(page) = Page
        /\ \A i, j \in 1 .. Len(page) : i < j => page[i] < page[j]
    BY <1>4, KeyOrder
  <2> HIDE DEF page
  <2>2. Len(page) \in Nat /\ DOMAIN page = 1 .. Len(page)
    BY <2>1, LenProperties
  <2>3. \A o \in Page : \E i \in 1 .. Len(page) : page[i] = o
    BY <2>1, <2>2 DEF ToSet
  <2>4. Len(page) \in 1 .. Len(page)
    BY <2>2, <2>3
  <2>5. page[Len(page)] \in Page
    BY <2>1, <2>4, ElementOfSeq
  <2>6. \A o \in Page : o <= page[Len(page)]
    <3> TAKE o \in Page
    <3>1. PICK i \in 1 .. Len(page) : page[i] = o
      BY <2>3
    <3>2. i = Len(page) \/ i < Len(page)
      <4> DEFINE n == Len(page)
      <4>1. n \in Nat /\ i \in 1 .. n
        BY <2>2
      <4> HIDE DEF n
      <4>2. i = n \/ i < n
        BY <4>1
      <4> QED
        BY <4>2 DEF n
    <3>3. o \in Nat /\ page[Len(page)] \in Nat
      BY <1>4, <2>5
    <3>4. CASE i = Len(page)
      BY <3>1, <3>3, <3>4
    <3>5. CASE i < Len(page)
      BY <2>1, <2>4, <3>1, <3>3, <3>5
    <3> QED
      BY <3>2, <3>4, <3>5
  <2> QED
    BY <2>5, <2>6
<1> QED
  BY <1>1, <1>4, <1>5, <1>6, <1>7 DEF F

-----------------------------------------------------------------------------
(* Types and stages.                                                       *)

LEMMA InitTypes == Init => Types
<1> SUFFICES ASSUME Init PROVE Types
  OBVIOUS
<1>1. scenario \in DOMAIN Scenarios
  BY DEF Init
<1>2. bucket \subseteq DOMAIN written /\ local \subseteq DOMAIN written
  BY <1>1, Situation DEF Init, IsScenario, written
<1>3. TypeOK
  BY <1>1, <1>2, ReplayAssumption DEF Init, TypeOK
<1> QED
  BY <1>3 DEF Init, Types, Staged

LEMMA ListTypes ==
    ASSUME Types, NEW stray \in StrayInts, ListPage(stray)
    PROVE  Types'
<1> DEFINE found == InKeyOrder({o \in Page : InWindow(o, stray)})
           page == InKeyOrder(Page)
<1>1. /\ pc = "list" /\ Page # {} /\ keys' = keys \o found /\ lastkey' = page[Len(page)]
      /\ UNCHANGED <<scenario, pc, vmap, local, missed, todo, bucket, producer, failures>>
  BY DEF ListPage, Marker
<1>2. found \in Seq(bucket) /\ page[Len(page)] \in bucket
  BY <1>1, PageListed DEF Types
<1> HIDE DEF found, page
<1>3. keys' \in Seq(bucket') /\ lastkey' \in bucket
  BY <1>1, <1>2, ConcatProperties DEF Types
<1>4. written' = written
  BY <1>1, SameSituation
<1>5. bucket \subseteq DOMAIN written
  BY DEF Types, TypeOK
<1>6. keys' \in Seq(DOMAIN written)
  BY <1>1, <1>3, <1>5, SeqMonotonic
<1>7. TypeOK'
  BY <1>1, <1>3, <1>4, <1>5, <1>6 DEF Types, TypeOK, producer
<1>8. Staged'
  BY <1>1 DEF Types, Staged, producer
<1> QED
  BY <1>3, <1>7, <1>8 DEF Types

LEMMA EndTypes ==
    ASSUME Types, ListEnds \/ ListFails
    PROVE  Types'
<1>1. /\ pc = "list" /\ pc' = "get"
      /\ UNCHANGED <<scenario, lastkey, keys, vmap, local, todo, bucket, producer>>
  BY DEF ListEnds, ListFails, EndListing
<1>2. missed' \subseteq bucket /\ failures' \in 0 .. MaxFailures
  <2>1. missed \subseteq bucket /\ failures \in 0 .. MaxFailures
    BY DEF Types, TypeOK
  <2>2. CASE ListEnds
    BY <2>1, <2>2 DEF ListEnds
  <2>3. CASE ListFails
    BY <2>1, <2>3, ReplayAssumption DEF ListFails, Failing
  <2> QED
    BY <2>2, <2>3
<1>3. written' = written
  BY <1>1, SameSituation
<1>4. TypeOK'
  BY <1>1, <1>2, <1>3 DEF Types, TypeOK, producer
<1>5. Staged'
  BY <1>1 DEF Types, Staged, producer
<1> QED
  BY <1>1, <1>4, <1>5 DEF Types

LEMMA GetTypes ==
    ASSUME Types, GetObject
    PROVE  Types'
<1> DEFINE o == Head(keys)
<1>1. /\ pc = "get" /\ keys # <<>> /\ keys' = Tail(keys)
      /\ UNCHANGED <<scenario, pc, lastkey, todo, bucket, producer>>
  BY DEF GetObject
<1>2. /\ outq = {} /\ delivered = <<>> /\ lost = {} /\ resent = {} /\ todo = {}
      /\ keys \in Seq(bucket) /\ bucket \subseteq DOMAIN written
  BY <1>1 DEF Types, Staged, TypeOK
<1>3. o \in bucket /\ keys' \in Seq(bucket)
  BY <1>1, <1>2, HeadTailProperties
<1>4. keys' \in Seq(DOMAIN written)
  BY <1>2, <1>3, SeqMonotonic
<1>5. Download(o) \/ DownloadFails(o)
  BY DEF GetObject
<1> HIDE DEF o
<1>6. local' \subseteq DOMAIN written /\ missed' \subseteq bucket /\ failures' \in 0 .. MaxFailures
  <2>1. /\ local \subseteq DOMAIN written /\ missed \subseteq bucket /\ failures \in 0 .. MaxFailures
        /\ MaxFailures \in Nat
    BY ReplayAssumption DEF Types, TypeOK
  <2>2. CASE Download(o)
    BY <1>2, <1>3, <2>1, <2>2 DEF Download
  <2>3. CASE DownloadFails(o)
    BY <1>3, <2>1, <2>3 DEF DownloadFails, Failing
  <2> QED
    BY <1>5, <2>2, <2>3
<1>7. written' = written
  BY <1>1, SameSituation
<1>8. delivered' \in Seq(vmap')
  BY <1>1, <1>2, EmptySeq DEF producer
<1>9. TypeOK'
  BY <1>1, <1>2, <1>4, <1>6, <1>7, <1>8 DEF Types, TypeOK, producer
<1>10. Staged'
  BY <1>1, <1>2 DEF Staged, producer
<1> QED
  BY <1>1, <1>3, <1>9, <1>10 DEF Types

LEMMA SetupTypes ==
    ASSUME Types, SetupProducer
    PROVE  Types'
<1>1. /\ pc = "get" /\ pc' \in {"produce", "aborted"} /\ todo' = vmap
      /\ UNCHANGED <<scenario, discovery, bucket, producer, failures>>
  BY DEF SetupProducer
<1>2. written' = written
  BY <1>1, SameSituation
<1>3. TypeOK'
  BY <1>1, <1>2 DEF Types, TypeOK, discovery, producer
<1>4. Staged'
  BY <1>1 DEF Types, Staged, discovery, producer
<1> QED
  BY <1>1, <1>3, <1>4 DEF Types, discovery

LEMMA ProduceTypes ==
    ASSUME Types, ProcessEvent \/ QueueDrained \/ Finish
    PROVE  Types'
<1>1. UNCHANGED <<scenario, discovery, bucket>>
  BY DEF ProcessEvent, QueueDrained, Finish
<1>2. written' = written
  BY <1>1, SameSituation
<1>3. pc \in {"produce", "wait"} /\ pc' \in {"produce", "wait", "done"} /\ UNCHANGED <<delivered, resent>>
  BY DEF ProcessEvent, QueueDrained, Finish, WaitForQueue, producer
<1>4. todo' \subseteq todo /\ outq' \subseteq outq \cup todo /\ lost' \subseteq lost \cup todo
  BY DEF ProcessEvent, QueueDrained, Finish, producer
<1>5. failures' \in 0 .. MaxFailures
  BY ReplayAssumption DEF Types, TypeOK, ProcessEvent, QueueDrained, Finish, Failing
<1>6. TypeOK'
  BY <1>1, <1>2, <1>3, <1>4, <1>5 DEF Types, TypeOK, discovery
<1>7. Staged'
  BY <1>1, <1>3 DEF Types, Staged, ProcessEvent, QueueDrained, Finish, WaitForQueue, producer
<1> QED
  BY <1>1, <1>6, <1>7 DEF Types, discovery

LEMMA AnswerTypes ==
    ASSUME Types, Answer
    PROVE  Types'
<1>1. UNCHANGED <<scenario, pc, discovery, todo, bucket>> /\ outq # {}
  BY DEF Answer, Delivered, DeliveredUnacknowledged, DeliveryTimedOut
<1>2. written' = written
  BY <1>1, SameSituation
<1>3. outq' \subseteq outq /\ lost' \subseteq lost \cup outq /\ resent' \subseteq resent \cup outq
  BY DEF Answer, Delivered, DeliveredUnacknowledged, DeliveryTimedOut
<1>4. delivered' \in Seq(vmap)
  <2>1. \/ delivered' = delivered
        \/ \E e \in outq : delivered' = Append(delivered, e)
    BY DEF Answer, Delivered, DeliveredUnacknowledged, DeliveryTimedOut
  <2>2. delivered \in Seq(vmap) /\ outq \subseteq vmap
    BY DEF Types, TypeOK
  <2> QED
    BY <2>1, <2>2, AppendProperties
<1>5. failures' \in 0 .. MaxFailures
  BY ReplayAssumption
     DEF Types, TypeOK, Answer, Delivered, DeliveredUnacknowledged, DeliveryTimedOut, Failing
<1>6. TypeOK'
  BY <1>1, <1>2, <1>3, <1>4, <1>5 DEF Types, TypeOK, discovery
<1>7. Staged'
  BY <1>1, <1>3 DEF Types, Staged, discovery
<1> QED
  BY <1>1, <1>6, <1>7 DEF Types, discovery

LEMMA PutTypes ==
    ASSUME Types, NEW o \in Objects, BackupPuts(o)
    PROVE  Types'
<1>1. /\ bucket' = bucket \cup {o} /\ o \in DOMAIN written
      /\ UNCHANGED <<scenario, pc, discovery, todo, producer, failures>>
  BY DEF BackupPuts
<1>2. written' = written
  BY <1>1, SameSituation
<1>3. TypeOK'
  BY <1>1, <1>2 DEF Types, TypeOK, discovery, producer
<1>4. Staged'
  BY <1>1 DEF Types, Staged, discovery, producer
<1>5. keys' \in Seq(bucket')
  <2>1. keys \in Seq(bucket) /\ bucket \subseteq bucket' /\ keys' = keys
    BY <1>1 DEF Types, discovery
  <2> QED
    BY <2>1, SeqMonotonic
<1> QED
  BY <1>3, <1>4, <1>5 DEF Types

LEMMA StutterTypes ==
    ASSUME Types, UNCHANGED vars
    PROVE  Types'
<1>1. UNCHANGED <<scenario, pc, discovery, todo, bucket, producer, failures>>
  BY DEF vars
<1>2. written' = written
  BY <1>1, SameSituation
<1>3. TypeOK'
  BY <1>1, <1>2 DEF Types, TypeOK, discovery, producer
<1> QED
  BY <1>1, <1>3 DEF Types, Staged, discovery, producer

LEMMA TypesStep == Types /\ [Next]_vars => Types'
  BY ListTypes, EndTypes, GetTypes, SetupTypes, ProduceTypes, AnswerTypes, PutTypes, StutterTypes
     DEF Next, Main, Terminated

LEMMA TypesCorrect == Spec => []Types
  BY InitTypes, TypesStep, PTL DEF Spec

\* Every variable has a value of its type, and what is produced comes from the
\* map, for any bucket, page size and clock.
THEOREM ReplayTypeCorrect == Spec => []TypeOK
<1>1. Types => TypeOK
  BY DEF Types
<1> QED
  BY <1>1, TypesCorrect, PTL

-----------------------------------------------------------------------------
(* The map: what a step of the listing and of the reading makes of it.     *)

LEMMA PageKeys ==
    ASSUME Types, KeysInRange, NEW stray \in StrayInts, ListPage(stray)
    PROVE  KeysInRange'
<1> DEFINE found == InKeyOrder({o \in Page : InWindow(o, stray)})
<1>1. keys' = keys \o found /\ scenario' = scenario /\ bucket' = bucket
  BY DEF ListPage
<1>2. found \in Seq(bucket) /\ ToSet(found) = {o \in Page : InWindow(o, stray)}
  BY PageListed DEF Types
<1>3. \A n \in DOMAIN found : InRange(found[n])
  <2> TAKE n \in DOMAIN found
  <2>1. found[n] \in {o \in Page : InWindow(o, stray)}
    BY <1>2 DEF ToSet
  <2> HIDE DEF found
  <2>2. found[n] \in Page /\ InWindow(found[n], stray)
    BY <2>1
  <2>3. slash => OfTopic(found[n])
    BY <2>2 DEF Page
  <2> QED
    BY <2>2, <2>3 DEF InRange
<1> HIDE DEF found
<1>4. keys \in Seq(bucket) /\ \A n \in DOMAIN keys : InRange(keys[n])
  BY DEF KeysInRange
<1>5. keys' \in Seq(bucket)
  BY <1>1, <1>2, <1>4, ConcatProperties
<1>6. \A n \in DOMAIN keys' : InRange(keys'[n])
  <2> TAKE n \in DOMAIN keys'
  <2>1. /\ n \in 1 .. Len(keys) + Len(found) /\ Len(keys) \in Nat /\ Len(found) \in Nat
        /\ DOMAIN keys = 1 .. Len(keys) /\ DOMAIN found = 1 .. Len(found)
    BY <1>1, <1>2, <1>4, <1>5, ConcatProperties, LenProperties
  <2>2. keys'[n] = IF n <= Len(keys) THEN keys[n] ELSE found[n - Len(keys)]
    BY <1>1, <1>2, <1>4, <2>1, ConcatProperties
  <2>3. CASE n <= Len(keys)
    BY <1>4, <2>1, <2>2, <2>3
  <2>4. CASE ~(n <= Len(keys))
    <3>1. n - Len(keys) \in DOMAIN found
      BY <2>1, <2>4
    <3> QED
      BY <1>3, <2>2, <2>4, <3>1
  <2> QED
    BY <2>3, <2>4
<1>7. \A o : InRange(o)' <=> InRange(o)
  BY <1>1, SameSituation
<1> QED
  BY <1>1, <1>5, <1>6, <1>7 DEF KeysInRange

LEMMA HeadKey ==
    ASSUME Types, KeysInRange, GetObject
    PROVE  Head(keys) \in DOMAIN written /\ Head(keys) \in bucket /\ InRange(Head(keys)) /\ KeysInRange'
<1>1. keys # <<>> /\ keys' = Tail(keys) /\ scenario' = scenario /\ bucket' = bucket
  BY DEF GetObject
<1>2. keys \in Seq(bucket) /\ \A n \in DOMAIN keys : InRange(keys[n])
  BY DEF KeysInRange
<1>3. /\ Head(keys) \in bucket /\ Tail(keys) \in Seq(bucket)
      /\ Len(Tail(keys)) = Len(keys) - 1 /\ \A n \in 1 .. Len(Tail(keys)) : Tail(keys)[n] = keys[n + 1]
  BY <1>1, <1>2, HeadTailProperties
<1>4. DOMAIN keys = 1 .. Len(keys) /\ Len(keys) \in Nat \ {0} /\ DOMAIN Tail(keys) = 1 .. Len(Tail(keys))
  BY <1>1, <1>2, <1>3, LenProperties, EmptySeq
<1>5. Head(keys) = keys[1]
  BY <1>1, <1>2
<1>6. InRange(Head(keys))
  <2>1. 1 \in DOMAIN keys
    BY <1>4
  <2> QED
    BY <1>2, <1>5, <2>1
<1>7. \A n \in DOMAIN Tail(keys) : InRange(Tail(keys)[n])
  <2> TAKE n \in DOMAIN Tail(keys)
  <2>1. n \in 1 .. Len(Tail(keys)) /\ n + 1 \in DOMAIN keys
    BY <1>3, <1>4
  <2> QED
    BY <1>2, <1>3, <2>1
<1>8. \A o : InRange(o)' <=> InRange(o)
  BY <1>1, SameSituation
<1> QED
  BY <1>1, <1>3, <1>6, <1>7, <1>8 DEF KeysInRange, Types, TypeOK

\* An object that is read leaves its items in the map.
LEMMA MapRun ==
    ASSUME Types, KeysInRange, GetObject
    PROVE  LET o == Head(keys)
               b == Bundle(o)
           IN  \/ vmap' = vmap /\ DownloadFails(o) /\ o \notin local
               \/ Holds(vmap', vmap, Items(Image(b)), Len(b))
<1> DEFINE o == Head(keys)
           b == Bundle(o)
           items == Items(Image(b))
<1>1. o \in DOMAIN written
  BY HeadKey
<1>2. scenario \in DOMAIN Scenarios
  BY DEF Types, TypeOK
<1>3. ItemsOf[scenario][o] = items
  <2>1. ItemsOf[scenario] = [q \in DOMAIN written |-> Items(Image(Bundle(q)))]
    BY <1>2 DEF ItemsOf, written, Bundle
  <2> QED
    BY <1>1, <2>1
<1>4. b \in Seq(Record) /\ b # <<>>
  BY <1>1, <1>2, Situation
<1>5. Len(items) = Len(b) /\ Len(b) \in Nat
  BY <1>4, ItemsRead
<1>6. Parsed(o, TRUE) = Entered(vmap, items) /\ Parsed(o, FALSE) = vmap
  BY <1>3 DEF Parsed
<1>7. Holds(Entered(vmap, items), vmap, items, Len(b))
  <2> HIDE DEF items
  <2> QED
    BY <1>5, EnteredHolds
<1>8. \/ Download(o) /\ vmap' = Parsed(o, TRUE)
      \/ DownloadFails(o) /\ vmap' = Parsed(o, o \in local)
  BY DEF GetObject
<1>9. (o \in local) \in BOOLEAN
  OBVIOUS
<1> QED
  BY <1>6, <1>7, <1>8, <1>9

LEMMA MapGrows ==
    ASSUME Types, KeysInRange, MapRead, UniqueIndex(vmap), GetObject
    PROVE  MapRead' /\ UniqueIndex(vmap)'
<1> DEFINE o == Head(keys)
           b == Bundle(o)
           items == Items(Image(b))
<1>1. o \in DOMAIN written /\ InRange(o) /\ scenario' = scenario
  BY HeadKey DEF GetObject
<1>2. b \in Seq(Record) /\ b # <<>>
  BY <1>1, Situation DEF Types, TypeOK
<1>3. vmap' = vmap \/ Holds(vmap', vmap, items, Len(b))
  BY MapRun
<1>4. \A e \in vmap' : e \in vmap \/ \E i \in 1 .. Len(b) : e = items[i]
  BY <1>3 DEF Holds
<1>5. \A i \in 1 .. Len(b) : ReadFrom(items[i], o)
  BY <1>2, ItemCarries DEF ReadFrom
<1>6. \A e \in vmap' : \E q \in DOMAIN written : InRange(q) /\ ReadFrom(e, q)
  <2> HIDE DEF items
  <2> QED
    BY <1>1, <1>4, <1>5 DEF MapRead
<1>7. /\ written' = written
      /\ \A q : (InRange(q)' <=> InRange(q)) /\ Bundle(q)' = Bundle(q)
  BY <1>1, SameSituation
<1>8. \A e, q : ReadFrom(e, q)' <=> ReadFrom(e, q)
  BY <1>7 DEF ReadFrom
<1>9. MapRead'
  BY <1>6, <1>7, <1>8 DEF MapRead
<1>10. UniqueIndex(vmap')
  BY <1>3 DEF Holds
<1> QED
  BY <1>9, <1>10 DEF UniqueIndex

Mapped == Types /\ KeysInRange /\ MapRead /\ UniqueIndex(vmap)

LEMMA MappedStep == Mapped /\ [Next]_vars => Mapped'
<1> SUFFICES ASSUME Mapped, [Next]_vars PROVE Mapped'
  OBVIOUS
<1>1. Types /\ Types' /\ KeysInRange /\ MapRead /\ UniqueIndex(vmap)
  BY TypesStep DEF Mapped
<1>2. scenario' = scenario
  BY DEF Next, Main, ListPage, ListEnds, ListFails, EndListing, GetObject, SetupProducer, ProcessEvent,
         QueueDrained, Finish, Answer, Delivered, DeliveredUnacknowledged, DeliveryTimedOut, BackupPuts,
         Terminated, vars
<1>3. written' = written /\ \A o : (InRange(o)' <=> InRange(o)) /\ Bundle(o)' = Bundle(o)
  BY <1>2, SameSituation
<1>4. CASE \E stray \in StrayInts : ListPage(stray)
  <2>1. vmap' = vmap
    BY <1>4 DEF ListPage
  <2>2. MapRead'
    BY <1>1, <1>3, <2>1 DEF MapRead, ReadFrom
  <2>3. KeysInRange'
    BY <1>1, <1>4, PageKeys
  <2> QED
    BY <1>1, <2>1, <2>2, <2>3 DEF Mapped, UniqueIndex
<1>5. CASE GetObject
  BY <1>1, <1>5, MapGrows, HeadKey DEF Mapped
<1>6. CASE keys' = keys /\ vmap' = vmap
  <2>1. MapRead'
    BY <1>1, <1>3, <1>6 DEF MapRead, ReadFrom
  <2>2. keys' \in Seq(bucket')
    BY <1>1 DEF Types
  <2>3. KeysInRange'
    BY <1>1, <1>3, <1>6, <2>2 DEF KeysInRange
  <2> QED
    BY <1>1, <1>6, <2>1, <2>3 DEF Mapped, UniqueIndex
<1>7. \/ \E stray \in StrayInts : ListPage(stray)
      \/ GetObject
      \/ keys' = keys /\ vmap' = vmap
  BY DEF Next, Main, ListEnds, ListFails, EndListing, SetupProducer, ProcessEvent,
         QueueDrained, Finish, Answer, Delivered, DeliveredUnacknowledged, DeliveryTimedOut, BackupPuts,
         Terminated, vars, discovery
<1> QED
  BY <1>4, <1>5, <1>6, <1>7

LEMMA MappedCorrect == Spec => []Mapped
<1>1. Init => Mapped
  <2> SUFFICES ASSUME Init PROVE Mapped
    OBVIOUS
  <2>1. Types
    BY InitTypes
  <2>2. keys = <<>> /\ vmap = {} /\ DOMAIN keys = {}
    BY DEF Init
  <2> QED
    BY <2>1, <2>2 DEF Mapped, Types, KeysInRange, MapRead, UniqueIndex
<1> QED
  BY <1>1, MappedStep, PTL DEF Spec

\* Every item of the map has the header of one record that was backed up, and
\* its key up to the first NUL and the length of the field, whatever the
\* records.  (MessageHeader::set, batch_discovery_bykey.)
THEOREM HeadersCorrect == Spec => []HeadersRestored
<1>1. Mapped => HeadersRestored
  <2> SUFFICES ASSUME Mapped, NEW e \in vmap
               PROVE  \E o \in DOMAIN written : \E r \in Records(o) : Carries(e, r)
    BY DEF HeadersRestored, Carries
  <2>1. PICK o \in DOMAIN written : \E i \in 1 .. Len(Bundle(o)) : Carries(e, Bundle(o)[i])
    BY DEF Mapped, MapRead, ReadFrom
  <2>2. PICK i \in 1 .. Len(Bundle(o)) : Carries(e, Bundle(o)[i])
    BY <2>1
  <2>3. DOMAIN Bundle(o) = 1 .. Len(Bundle(o))
    BY Situation, LenProperties DEF Mapped, Types, TypeOK
  <2>4. Bundle(o)[i] \in Records(o)
    BY <2>3 DEF Records, ToSet
  <2> QED
    BY <2>2, <2>4
<1> QED
  BY <1>1, MappedCorrect, PTL

\* The payload is restored for every record that comes first wherever it is
\* stored.  (batch_discovery_bykey)
THEOREM FirstPayloadCorrect == Spec => []FirstPayloadRestored
<1>1. Mapped => FirstPayloadRestored
  <2> SUFFICES ASSUME Mapped, NEW e \in vmap, ComesFirst(e) PROVE HasPayload(e)
    BY DEF FirstPayloadRestored
  <2>1. PICK o \in DOMAIN written : ReadFrom(e, o)
    BY DEF Mapped, MapRead
  <2>2. PICK i \in 1 .. Len(Bundle(o)) :
               /\ Carries(e, Bundle(o)[i])
               /\ Bundle(o)[1] = Bundle(o)[i] => e.payload = Bytes(Bundle(o)[i].payload)
    BY <2>1 DEF ReadFrom
  <2>3. DOMAIN Bundle(o) = 1 .. Len(Bundle(o))
    BY Situation, LenProperties DEF Mapped, Types, TypeOK
  <2>4. Bundle(o)[i] \in Records(o)
    BY <2>3 DEF Records, ToSet
  <2>5. IsEventOf(e, Bundle(o)[i])
    BY <2>2 DEF Carries
  <2>6. Bundle(o)[1] = Bundle(o)[i]
    BY <2>4, <2>5 DEF ComesFirst
  <2> QED
    BY <2>2, <2>4, <2>5, <2>6 DEF HasPayload
<1> QED
  BY <1>1, MappedCorrect, PTL

-----------------------------------------------------------------------------
(* The order of the events.                                                *)

LEMMA Appended ==
    ASSUME NEW S, NEW s \in Seq(S), NEW e \in S
    PROVE  /\ DOMAIN Append(s, e) = 1 .. Len(s) + 1 /\ DOMAIN s = 1 .. Len(s) /\ Len(s) \in Nat
           /\ \A i \in DOMAIN s : Append(s, e)[i] = s[i]
           /\ \A i \in DOMAIN Append(s, e) : i \in DOMAIN s \/ (i = Len(s) + 1 /\ Append(s, e)[i] = e)
           /\ ToSet(Append(s, e)) = ToSet(s) \cup {e}
<1>1. /\ Append(s, e) \in Seq(S) /\ Len(Append(s, e)) = Len(s) + 1 /\ Len(s) \in Nat
      /\ \A i \in 1 .. Len(s) : Append(s, e)[i] = s[i]
      /\ Append(s, e)[Len(s) + 1] = e
  BY AppendProperties, LenProperties
<1>2. DOMAIN Append(s, e) = 1 .. Len(s) + 1 /\ DOMAIN s = 1 .. Len(s)
  BY <1>1, LenProperties
<1>3. \A i \in 1 .. Len(s) + 1 : i \in 1 .. Len(s) \/ i = Len(s) + 1
  BY <1>1
<1>4. Len(s) + 1 \in 1 .. Len(s) + 1 /\ \A i \in 1 .. Len(s) : i \in 1 .. Len(s) + 1
  BY <1>1
<1>5. ToSet(Append(s, e)) = ToSet(s) \cup {e}
  BY <1>1, <1>2, <1>3, <1>4 DEF ToSet
<1> QED
  BY <1>1, <1>2, <1>3, <1>5

LEMMA EventTypes == Mapped => \A e \in vmap : e.timestamp \in Nat /\ e.partition \in Nat /\ e.offset \in Nat
<1> SUFFICES ASSUME Mapped, NEW e \in vmap
             PROVE  e.timestamp \in Nat /\ e.partition \in Nat /\ e.offset \in Nat
  OBVIOUS
<1>1. PICK o \in DOMAIN written : \E i \in 1 .. Len(Bundle(o)) : Carries(e, Bundle(o)[i])
  BY DEF Mapped, MapRead, ReadFrom
<1>2. PICK i \in 1 .. Len(Bundle(o)) : Carries(e, Bundle(o)[i])
  BY <1>1
<1>3. Bundle(o)[i] \in Record
  BY Situation, ElementOfSeq DEF Mapped, Types, TypeOK
<1> QED
  BY <1>2, <1>3 DEF Carries, IsEventOf, Record

LEMMA Irreflexive == Mapped => \A e \in vmap : ~Precedes(e, e)
<1> SUFFICES ASSUME Mapped, NEW e \in vmap PROVE ~Precedes(e, e)
  OBVIOUS
<1>1. e.timestamp \in Nat /\ e.offset \in Nat
  BY EventTypes
<1>2. IndexText(e) \in Seq(Int)
  <2>2. digits[e.timestamp] \in Seq(Int) /\ digits[e.offset] \in Seq(Int)
    BY <1>1, DigitText
  <2>3. <<Dot>> \in Seq(Int)
    BY DEF Dot
  <2> QED
    BY <2>2, <2>3, ConcatProperties DEF IndexText
<1> QED
  BY <1>2, TextIrreflexive DEF Precedes

Ordered == OncePassed /\ InOrder

LEMMA EmptyOrdered == ASSUME outq = {}, delivered = <<>> PROVE Ordered
<1>1. DOMAIN delivered = {} /\ ToSet(delivered) = {}
  BY DEF ToSet
<1> QED
  BY <1>1 DEF Ordered, OncePassed, InOrder

LEMMA ProcessOrdered ==
    ASSUME Types, Ordered, ProcessEvent
    PROVE  Ordered'
<1>1. PICK e \in todo :
         /\ \A x \in todo : ~Precedes(x, e)
         /\ todo' = todo \ {e}
         /\ outq' = outq \/ outq' = outq \cup {e}
         /\ UNCHANGED <<delivered, resent>>
  BY DEF ProcessEvent, producer
<1>2. outq = {}
  BY DEF ProcessEvent, Types, Staged
<1>3. OncePassed'
  BY <1>1, <1>2 DEF Ordered, OncePassed
<1>4. InOrder'
  BY <1>1, <1>2 DEF Ordered, InOrder
<1> QED
  BY <1>3, <1>4 DEF Ordered

LEMMA AnswerOrdered ==
    ASSUME Mapped, Ordered, Answer
    PROVE  Ordered'
<1>1. UNCHANGED todo
  BY DEF Answer, Delivered, DeliveredUnacknowledged, DeliveryTimedOut
<1>2. delivered \in Seq(vmap) /\ outq \subseteq vmap
  BY DEF Mapped, Types, TypeOK
<1>3. CASE DeliveryTimedOut
  <2>1. outq' \subseteq outq /\ UNCHANGED <<delivered, resent>>
    BY <1>3 DEF DeliveryTimedOut
  <2> QED
    BY <1>1, <2>1 DEF Ordered, OncePassed, InOrder
<1>4. CASE Delivered \/ DeliveredUnacknowledged
  <2>1. PICK e \in outq : /\ delivered' = Append(delivered, e)
                          /\ \/ outq' = outq \ {e} /\ resent' = resent
                             \/ outq' = outq /\ resent' = resent \cup {e}
    BY <1>4 DEF Delivered, DeliveredUnacknowledged
  <2>2. /\ DOMAIN delivered = 1 .. Len(delivered) /\ Len(delivered) \in Nat
        /\ DOMAIN delivered' = 1 .. Len(delivered) + 1
        /\ \A i \in DOMAIN delivered : delivered'[i] = delivered[i]
        /\ \A i \in DOMAIN delivered' : i \in DOMAIN delivered \/ (i = Len(delivered) + 1 /\ delivered'[i] = e)
        /\ ToSet(delivered') = ToSet(delivered) \cup {e}
    BY <1>2, <2>1, Appended
  <2>3. outq' \subseteq outq /\ resent \subseteq resent' /\ \A x \in outq : x = e
    BY <2>1 DEF Ordered, InOrder
  <2>4. ~Precedes(e, e)
    BY <1>2, <2>1, Irreflexive
  <2>5. OncePassed'
    <3>1. todo' \cap (outq' \cup ToSet(delivered')) = {}
      BY <1>1, <2>1, <2>2, <2>3 DEF Ordered, OncePassed
    <3>2. outq' \cap ToSet(delivered') \subseteq resent'
      BY <2>1, <2>2, <2>3 DEF Ordered, OncePassed
    <3>3. \A i \in DOMAIN delivered : delivered[i] = e => e \in resent
      <4>1. \A i \in DOMAIN delivered : delivered[i] \in ToSet(delivered)
        BY DEF ToSet
      <4> QED
        BY <2>1, <4>1 DEF Ordered, OncePassed
    <3>4. \A i, j \in DOMAIN delivered' :
             i # j /\ delivered'[i] = delivered'[j] => delivered'[i] \in resent'
      BY <2>2, <2>3, <3>3 DEF Ordered, OncePassed
    <3> QED
      BY <3>1, <3>2, <3>4 DEF OncePassed
  <2>6. InOrder'
    <3>1. \A x, y \in outq' : x = y
      BY <2>3
    <3>2. \A i, j \in DOMAIN delivered' : i < j => ~Precedes(delivered'[j], delivered'[i])
      <4> SUFFICES ASSUME NEW i \in DOMAIN delivered', NEW j \in DOMAIN delivered', i < j
                   PROVE  ~Precedes(delivered'[j], delivered'[i])
        OBVIOUS
      <4>1. i \in DOMAIN delivered /\ delivered'[i] = delivered[i]
        BY <2>2
      <4>2. CASE j \in DOMAIN delivered
        BY <2>2, <4>1, <4>2 DEF Ordered, InOrder
      <4>3. CASE delivered'[j] = e
        BY <2>1, <4>1, <4>3 DEF Ordered, InOrder
      <4> QED
        BY <2>2, <4>2, <4>3
    <3>3. \A x \in outq' \cup todo' : \A i \in DOMAIN delivered' : ~Precedes(x, delivered'[i])
      <4> SUFFICES ASSUME NEW x \in outq \cup todo, NEW i \in DOMAIN delivered'
                   PROVE  ~Precedes(x, delivered'[i])
        BY <1>1, <2>3
      <4>1. CASE i \in DOMAIN delivered
        BY <2>2, <4>1 DEF Ordered, InOrder
      <4>2. CASE delivered'[i] = e
        BY <2>1, <2>3, <2>4, <4>2 DEF Ordered, InOrder
      <4> QED
        BY <2>2, <4>1, <4>2
    <3>4. \A x \in todo', y \in outq' : ~Precedes(x, y)
      BY <1>1, <2>3 DEF Ordered, InOrder
    <3> QED
      BY <3>1, <3>2, <3>3, <3>4 DEF InOrder
  <2> QED
    BY <2>5, <2>6 DEF Ordered
<1> QED
  BY <1>3, <1>4 DEF Answer

LEMMA OrderedStep == Mapped /\ Mapped' /\ Ordered /\ [Next]_vars => Ordered'
<1> SUFFICES ASSUME Mapped, Mapped', Ordered, [Next]_vars PROVE Ordered'
  OBVIOUS
<1>1. Types /\ Types'
  BY DEF Mapped
<1>2. CASE ProcessEvent
  BY <1>1, <1>2, ProcessOrdered
<1>3. CASE Answer
  BY <1>3, AnswerOrdered
<1>4. CASE SetupProducer
  <2>1. outq' = {} /\ delivered' = <<>>
    BY <1>1, <1>4 DEF SetupProducer, Types, Staged, producer
  <2>2. DOMAIN delivered' = {} /\ ToSet(delivered') = {}
    BY <2>1 DEF ToSet
  <2> QED
    BY <2>1, <2>2 DEF Ordered, OncePassed, InOrder
<1>5. CASE UNCHANGED <<todo, producer>>
  BY <1>5 DEF producer, Ordered, OncePassed, InOrder
<1> QED
  BY <1>2, <1>3, <1>4, <1>5
     DEF Next, Main, ListPage, ListEnds, ListFails, EndListing, GetObject, QueueDrained, Finish, BackupPuts,
         Terminated, vars

LEMMA OrderedCorrect == Spec => [](Mapped /\ Ordered)
<1>1. Init => Ordered
  BY EmptyOrdered DEF Init
<1> QED
  BY <1>1, MappedCorrect, OrderedStep, PTL DEF Spec

\* A record is delivered once, however often it was stored, unless the
\* acknowledgement of its event was lost.
THEOREM OnceCorrect == Spec => []DeliveredOnce
<1>1. Mapped /\ Ordered => DeliveredOnce
  <2> SUFFICES ASSUME Mapped, Ordered, NEW i \in DOMAIN delivered, NEW j \in DOMAIN delivered,
                      i # j, Index(delivered[i]) = Index(delivered[j])
               PROVE  delivered[i] \in resent
    BY DEF DeliveredOnce
  <2>1. delivered \in Seq(vmap)
    BY DEF Mapped, Types, TypeOK
  <2>2. delivered[i] \in vmap /\ delivered[j] \in vmap
    BY <2>1, LenProperties, ElementOfSeq
  <2>3. delivered[i] = delivered[j]
    BY <2>2 DEF Mapped, UniqueIndex
  <2> QED
    BY <2>3 DEF Ordered, OncePassed
<1> QED
  BY <1>1, OrderedCorrect, PTL

\* Events are delivered in the order of their times and offsets, whatever
\* librdkafka does, as far as the order of texts is the order of numbers.
THEOREM InOrderCorrect == Spec => []DeliveredInOrder
<1>1. Mapped /\ Ordered => DeliveredInOrder
  <2> SUFFICES ASSUME Mapped, Ordered, NEW i \in DOMAIN delivered, NEW j \in DOMAIN delivered, i < j,
                      SameLength(delivered[i].timestamp, delivered[j].timestamp)
               PROVE  /\ delivered[i].timestamp <= delivered[j].timestamp
                      /\ (/\ delivered[i].timestamp = delivered[j].timestamp
                          /\ SameLength(delivered[i].offset, delivered[j].offset))
                         => delivered[i].offset <= delivered[j].offset
    BY DEF DeliveredInOrder
  <2> DEFINE x == delivered[i]
             y == delivered[j]
  <2>1. delivered \in Seq(vmap)
    BY DEF Mapped, Types, TypeOK
  <2>2. x \in vmap /\ y \in vmap
    BY <2>1, LenProperties, ElementOfSeq
  <2>3. ~Precedes(y, x)
    BY DEF Ordered, InOrder
  <2>4. Len(digits[x.timestamp]) = Len(digits[y.timestamp])
    BY DEF SameLength
  <2> HIDE DEF x, y
  <2>5. /\ x.timestamp \in Nat /\ x.offset \in Nat
        /\ y.timestamp \in Nat /\ y.offset \in Nat
    BY <2>2, EventTypes
  <2>6. ~(y.timestamp < x.timestamp)
    BY <2>3, <2>4, <2>5, IndexOrder
  <2>7. ASSUME x.timestamp = y.timestamp, Len(digits[x.offset]) = Len(digits[y.offset])
        PROVE  ~(y.offset < x.offset)
    BY <2>3, <2>4, <2>5, <2>7, IndexOrder
  <2>8. x.timestamp <= y.timestamp
    BY <2>5, <2>6
  <2>9. ASSUME x.timestamp = y.timestamp, Len(digits[x.offset]) = Len(digits[y.offset])
        PROVE  x.offset <= y.offset
    BY <2>5, <2>7, <2>9
  <2> QED
    BY <2>8, <2>9 DEF x, y, SameLength
<1> QED
  BY <1>1, OrderedCorrect, PTL

-----------------------------------------------------------------------------
(* The time window, within a month.                                        *)

LEMMA YearInt == \A y \in Nat : YearSeconds(y) \in Int
<1>1. 2^25 \in Nat \ {0} /\ 2^24 \in Nat
  OBVIOUS
<1> TAKE y \in Nat
<1> DEFINE n == (y * 246375) % 2^25
<1>2. n \in Int
  BY <1>1
<1> HIDE DEF n
<1>3. (IF n < 2^24 THEN n ELSE n - 2^25) \in Int
  BY <1>1, <1>2
<1> QED
  BY <1>3 DEF YearSeconds, n

LEMMA FracWhole == \A f \in Nat : f < FracUnits => f \div FracUnits = 0 /\ f % FracUnits = f
  BY FracAssumption

Seconds(t) == t[3] * 86400 + t[4] * 3600 + t[5] * 60 + t[6]

\* The order of two dates of one month, field by field.
LaterField(t, u) ==
    \/ t[3] > u[3]
    \/ t[3] = u[3] /\ t[4] > u[4]
    \/ t[3] = u[3] /\ t[4] = u[4] /\ t[5] > u[5]
    \/ t[3] = u[3] /\ t[4] = u[4] /\ t[5] = u[5] /\ t[6] > u[6]
    \/ t[3] = u[3] /\ t[4] = u[4] /\ t[5] = u[5] /\ t[6] = u[6] /\ t[7] > u[7]

LEMMA ClockOrder ==
    ASSUME NEW t, NEW u, IsDate(t), IsDate(u)
    PROVE  /\ Seconds(t) \in Nat /\ Seconds(u) \in Nat
           /\ Seconds(t) > Seconds(u) <=> \/ t[3] > u[3]
                                          \/ t[3] = u[3] /\ t[4] > u[4]
                                          \/ t[3] = u[3] /\ t[4] = u[4] /\ t[5] > u[5]
                                          \/ t[3] = u[3] /\ t[4] = u[4] /\ t[5] = u[5] /\ t[6] > u[6]
           /\ Seconds(t) = Seconds(u) <=> t[3] = u[3] /\ t[4] = u[4] /\ t[5] = u[5] /\ t[6] = u[6]
<1> DEFINE d == t[3]
           h == t[4]
           m == t[5]
           s == t[6]
           e == u[3]
           i == u[4]
           n == u[5]
           r == u[6]
           a == h * 3600 + m * 60 + s
           b == i * 3600 + n * 60 + r
<1>0. /\ d \in Nat /\ h \in Nat /\ m \in Nat /\ s \in Nat /\ h <= 23 /\ m <= 59 /\ s <= 59
      /\ e \in Nat /\ i \in Nat /\ n \in Nat /\ r \in Nat /\ i <= 23 /\ n <= 59 /\ r <= 59
  BY DEF IsDate
<1>3. Seconds(t) = d * 86400 + h * 3600 + m * 60 + s /\ Seconds(u) = e * 86400 + i * 3600 + n * 60 + r
  BY DEF Seconds
<1> HIDE DEF d, h, m, s, e, i, n, r
<1>1. a \in Nat /\ b \in Nat /\ a < 86400 /\ b < 86400
  BY <1>0
<1>2. /\ a > b <=> h > i \/ (h = i /\ m > n) \/ (h = i /\ m = n /\ s > r)
      /\ a = b <=> h = i /\ m = n /\ s = r
  BY <1>0
<1>4. Seconds(t) = d * 86400 + a /\ Seconds(u) = e * 86400 + b
  BY <1>0, <1>3
<1> HIDE DEF a, b
<1>5. /\ d * 86400 + a > e * 86400 + b <=> d > e \/ (d = e /\ a > b)
      /\ d * 86400 + a = e * 86400 + b <=> d = e /\ a = b
  BY <1>0, <1>1
<1>6. d * 86400 + a \in Nat /\ e * 86400 + b \in Nat
  BY <1>0, <1>1
<1> QED
  BY <1>2, <1>4, <1>5, <1>6 DEF d, h, m, s, e, i, n, r

LEMMA InstantOf ==
    ASSUME NEW t, IsDate(t), NEW stray
    PROVE  \E c \in Int : /\ \A u : /\ IsDate(u) /\ u[1] = t[1] /\ u[2] = t[2]
                                    => timestamp(u, stray) = <<c + Seconds(u), u[7]>>
<1> DEFINE Y == YearSeconds(t[1])
           M == t[2] * Day * MonthDays(t[2], stray)
           L == LeapSeconds(t[1])
<1>1. t[1] \in Nat /\ t[2] \in 1 .. 12
  BY DEF IsDate
<1>2. Y \in Int
  BY <1>1, YearInt
<1>3. M \in Int
  <2>1. MonthDays(t[2], stray) \in Int
    BY <1>1 DEF MonthDays, Months
  <2>2. \A d \in Int : t[2] * Day * d \in Int
    BY <1>1 DEF Day
  <2> QED
    BY <2>1, <2>2
<1>4. L \in Int
  BY DEF LeapSeconds, Day
<1>5. Y + M + L \in Int
  <2> HIDE DEF Y, M, L
  <2> QED
    BY <1>2, <1>3, <1>4
<1>6. ASSUME NEW u, IsDate(u), u[1] = t[1], u[2] = t[2]
      PROVE  timestamp(u, stray) = <<Y + M + L + Seconds(u), u[7]>>
  <2>1. /\ u[3] \in Nat /\ u[4] \in Nat /\ u[5] \in Nat /\ u[6] \in Nat
        /\ u[7] \in Nat /\ u[7] < FracUnits
    BY <1>6 DEF IsDate
  <2>2. WholeSeconds(u, stray) = Y + M + u[3] * Day + u[4] * 3600 + u[5] * 60 + u[6] + L
    BY <1>6 DEF WholeSeconds
  <2> HIDE DEF Y, M, L
  <2>3. WholeSeconds(u, stray) = Y + M + L + Seconds(u) /\ WholeSeconds(u, stray) \in Int
    BY <1>2, <1>3, <1>4, <2>1, <2>2 DEF Seconds, Day
  <2>4. u[7] \div FracUnits = 0 /\ u[7] % FracUnits = u[7]
    BY <2>1, FracWhole
  <2>5. WholeSeconds(u, stray) + u[7] \div FracUnits = WholeSeconds(u, stray)
    BY <2>3, <2>4
  <2> QED
    BY <2>3, <2>4, <2>5 DEF timestamp
<1> HIDE DEF Y, M, L
<1> QED
  BY <1>5, <1>6

LEMMA FieldOrder ==
    ASSUME NEW t, NEW u, IsDate(t), IsDate(u), t[1] = u[1], t[2] = u[2]
    PROVE  Chronological(t, u) <=> LaterField(t, u)
<1>1. /\ t[1] \in Nat /\ t[2] \in Nat /\ t[3] \in Nat /\ t[4] \in Nat /\ t[5] \in Nat /\ t[6] \in Nat /\ t[7] \in Nat
      /\ u[1] \in Nat /\ u[2] \in Nat /\ u[3] \in Nat /\ u[4] \in Nat /\ u[5] \in Nat /\ u[6] \in Nat /\ u[7] \in Nat
  BY DEF IsDate
<1>2. ASSUME Chronological(t, u) PROVE LaterField(t, u)
  <2>1. PICK i \in 1 .. 7 : t[i] > u[i] /\ \A j \in 1 .. i - 1 : t[j] = u[j]
    BY <1>2 DEF Chronological
  <2>2. i # 1 /\ i # 2
    BY <1>1, <2>1
  <2>3. CASE i = 3
    BY <2>1, <2>3 DEF LaterField
  <2>4. CASE i = 4
    BY <2>1, <2>4 DEF LaterField
  <2>5. CASE i = 5
    BY <2>1, <2>5 DEF LaterField
  <2>6. CASE i = 6
    BY <2>1, <2>6 DEF LaterField
  <2>7. CASE i = 7
    BY <2>1, <2>7 DEF LaterField
  <2> QED
    BY <2>2, <2>3, <2>4, <2>5, <2>6, <2>7
<1>3. ASSUME LaterField(t, u) PROVE Chronological(t, u)
  <2>1. PICK i \in 3 .. 7 : t[i] > u[i] /\ \A j \in 3 .. i - 1 : t[j] = u[j]
    BY <1>3 DEF LaterField
  <2>2. i \in 1 .. 7 /\ \A j \in 1 .. i - 1 : j = 1 \/ j = 2 \/ j \in 3 .. i - 1
    OBVIOUS
  <2>3. \A j \in 1 .. i - 1 : t[j] = u[j]
    BY <2>1, <2>2
  <2> QED
    BY <2>1, <2>2, <2>3 DEF Chronological
<1> QED
  BY <1>2, <1>3

\* Within a month the comparison of timestamps is the calendar's, although the
\* product of the year wraps.  (MessageTime::timestamp, operator >.)
THEOREM MonthOrder ==
    ASSUME NEW t, NEW u, IsDate(t), IsDate(u), t[1] = u[1], t[2] = u[2], NEW stray
    PROVE  Later(t, u, stray) <=> Chronological(t, u)
<1>1. PICK c \in Int : timestamp(t, stray) = <<c + Seconds(t), t[7]>>
                       /\ timestamp(u, stray) = <<c + Seconds(u), u[7]>>
  BY InstantOf
<1>2. /\ t[3] \in Nat /\ t[4] \in Nat /\ t[5] \in Nat /\ t[6] \in Nat /\ t[7] \in Nat
      /\ u[3] \in Nat /\ u[4] \in Nat /\ u[5] \in Nat /\ u[6] \in Nat /\ u[7] \in Nat
  BY DEF IsDate
<1>3. /\ Seconds(t) \in Nat /\ Seconds(u) \in Nat
      /\ Seconds(t) > Seconds(u) <=> \/ t[3] > u[3]
                                     \/ t[3] = u[3] /\ t[4] > u[4]
                                     \/ t[3] = u[3] /\ t[4] = u[4] /\ t[5] > u[5]
                                     \/ t[3] = u[3] /\ t[4] = u[4] /\ t[5] = u[5] /\ t[6] > u[6]
      /\ Seconds(t) = Seconds(u) <=> t[3] = u[3] /\ t[4] = u[4] /\ t[5] = u[5] /\ t[6] = u[6]
  BY ClockOrder
<1>4. Exceeds(timestamp(t, stray), timestamp(u, stray))
      <=> Seconds(t) > Seconds(u) \/ (Seconds(t) = Seconds(u) /\ t[7] > u[7])
  <2> DEFINE x == Seconds(t)
             y == Seconds(u)
  <2>1. x \in Int /\ y \in Int
    BY <1>3
  <2>2. (c + x > c + y <=> x > y) /\ (c + x = c + y <=> x = y)
    <3> HIDE DEF x, y
    <3> QED
      BY <2>1
  <2> QED
    BY <1>1, <2>2 DEF Exceeds
<1>5. Exceeds(timestamp(t, stray), timestamp(u, stray)) <=> LaterField(t, u)
  BY <1>3, <1>4 DEF LaterField
<1>6. LaterField(t, u) => t # u
  BY <1>2 DEF LaterField
<1> QED
  BY <1>5, <1>6, FieldOrder DEF Later

-----------------------------------------------------------------------------
(* What is asked for, within a month.                                      *)

Dated(o) == KeyDate(Bundle(o), written[o].seed)

LEMMA WholeDate == ASSUME NEW t, IsDate(t) PROVE MessageTime(t) = t
<1>1. t \in [1 .. 7 -> Nat] /\ t \in Seq(Nat) /\ Len(t) = 7
  <2>1. t \in [1 .. 7 -> Nat]
    BY DEF IsDate
  <2>2. t \in Seq(Nat)
    BY <2>1, SeqDef, 7 \in Nat
  <2>3. Len(t) = 7
    BY <2>1, <2>2
  <2> QED
    BY <2>1, <2>2, <2>3
<1>2. MessageTime(t) = [i \in 1 .. 7 |-> t[i]]
  BY <1>1 DEF MessageTime
<1>3. t = [i \in 1 .. 7 |-> t[i]]
  BY <1>1
<1> QED
  BY <1>2, <1>3

LEMMA SameMonth ==
    ASSUME OneMonth, scenario \in DOMAIN Scenarios, NEW o \in DOMAIN written, OfTopic(o)
    PROVE  /\ IsDate(Dated(o)) /\ IsDate(MessageTime(FromTime))
           /\ Dated(o)[1] = MessageTime(FromTime)[1] /\ Dated(o)[2] = MessageTime(FromTime)[2]
<1>1. written[o] \in Range(Scenarios[scenario].written)
  BY DEF written, Range
<1> QED
  BY <1>1 DEF OneMonth, OfTopic, Dated, Bundle, written

\* The test t > infrom is the calendar's, whatever lies in front of months[].
LEMMA WindowAsked ==
    ASSUME OneMonth, slash, scenario \in DOMAIN Scenarios, NEW o \in DOMAIN written, OfTopic(o),
           NEW stray
    PROVE  InWindow(o, stray) <=> AskedFor(o)
<1>1. /\ IsDate(Dated(o)) /\ IsDate(MessageTime(FromTime))
      /\ Dated(o)[1] = MessageTime(FromTime)[1] /\ Dated(o)[2] = MessageTime(FromTime)[2]
  BY SameMonth
<1>2. KeyTime(o) = Dated(o)
  BY <1>1, WholeDate DEF KeyTime, Dated
<1>3. InWindow(o, stray) <=> Chronological(Dated(o), MessageTime(FromTime))
  BY <1>1, <1>2, MonthOrder DEF InWindow
<1> QED
  BY <1>3 DEF AskedFor, Dated

\* Nothing else than what was asked for is delivered, if FROM_TIME and the
\* keys of the topic belong to one month.
THEOREM OnlyAskedForCorrect == Spec => [](OneMonth => OnlyAskedFor)
<1>1. Mapped => (OneMonth => OnlyAskedFor)
  <2> SUFFICES ASSUME Mapped, OneMonth, slash, NEW e \in ToSet(delivered)
               PROVE  \E o \in DOMAIN written : AskedFor(o) /\ \E r \in Records(o) : IsEventOf(e, r)
    BY DEF OnlyAskedFor
  <2>1. e \in vmap
    BY LenProperties, ElementOfSeq DEF ToSet, Mapped, Types, TypeOK
  <2>2. PICK o \in DOMAIN written : InRange(o) /\ ReadFrom(e, o)
    BY <2>1 DEF Mapped, MapRead
  <2>3. AskedFor(o)
    BY <2>2, WindowAsked DEF InRange, Mapped, Types, TypeOK
  <2>4. PICK i \in 1 .. Len(Bundle(o)) : Carries(e, Bundle(o)[i])
    BY <2>2 DEF ReadFrom
  <2>5. DOMAIN Bundle(o) = 1 .. Len(Bundle(o))
    BY Situation, LenProperties DEF Mapped, Types, TypeOK
  <2>6. Bundle(o)[i] \in Records(o) /\ IsEventOf(e, Bundle(o)[i])
    BY <2>4, <2>5 DEF Records, ToSet, Carries
  <2> QED
    BY <2>3, <2>6
<1> QED
  BY <1>1, MappedCorrect, PTL

-----------------------------------------------------------------------------
(* Nothing is lost on the way.                                             *)

\* A page is the head of what lies behind the marker.
LEMMA Nearest ==
    ASSUME NEW S \in SUBSET Nat, IsFiniteSet(S)
    PROVE  LET page == {o \in S : Cardinality({q \in S : q < o}) < Fetch}
           IN  /\ S # {} => page # {}
               /\ \A x \in page, y \in S : y <= x => y \in page
<1> DEFINE Below(o) == {q \in S : q < o}
<1>1. \A o : IsFiniteSet(Below(o)) /\ Cardinality(Below(o)) \in Nat
  <2> TAKE o
  <2>1. Below(o) \subseteq S
    OBVIOUS
  <2> QED
    BY <2>1, FS_Subset, FS_CardinalityType
<1>2. Fetch \in Nat \ {0}
  BY ReplayAssumption
<1>0. \A o \in S : o \in Nat
  OBVIOUS
<1>3. ASSUME S # {} PROVE \E o \in S : Cardinality(Below(o)) < Fetch
  <2>1. PICK o \in S : \A k \in S : o <= k
    BY <1>3, LeastNumber
  <2>2. \A q \in S : ~(q < o)
    BY <1>0, <2>1
  <2>3. Below(o) = {}
    BY <2>2
  <2> QED
    BY <1>2, <2>1, <2>3, FS_EmptySet
<1>4. ASSUME NEW x \in S, Cardinality(Below(x)) < Fetch, NEW y \in S, y <= x
      PROVE  Cardinality(Below(y)) < Fetch
  <2>0. \A q \in S : q < y => q < x
    BY <1>0, <1>4
  <2>1. Below(y) \subseteq Below(x)
    BY <2>0
  <2>2. Cardinality(Below(y)) <= Cardinality(Below(x))
    BY <1>1, <2>1, FS_Subset
  <2> HIDE DEF Below
  <2> QED
    BY <1>1, <1>2, <1>4, <2>2
<1> QED
  BY <1>3, <1>4

LEMMA PageNearest ==
    ASSUME TypeOK, NEW o \in bucket, o > lastkey, OfTopic(o)
    PROVE  /\ Page # {}
           /\ o \in Page \/ \A x \in Page : o > x
<1> DEFINE behind == {q \in bucket : q > lastkey /\ (slash => OfTopic(q))}
<1>1. DOMAIN written \in SUBSET Nat /\ IsFiniteSet(DOMAIN written) /\ bucket \subseteq DOMAIN written
  BY Situation DEF TypeOK
<1>2. o \in behind /\ behind \subseteq DOMAIN written
  BY <1>1
<1>3. Page = {q \in behind : Cardinality({x \in behind : x < q}) < Fetch}
  BY DEF Page
<1> HIDE DEF behind
<1>4. behind \in SUBSET Nat /\ IsFiniteSet(behind)
  BY <1>1, <1>2, FS_Subset
<1>5. Page # {} /\ \A x \in Page, y \in behind : y <= x => y \in Page
  BY <1>2, <1>3, <1>4, Nearest
<1>6. o \in Nat /\ \A x \in Page : x \in Nat
  BY <1>2, <1>3, <1>4
<1> QED
  BY <1>2, <1>5, <1>6

LEMMA Joining ==
    ASSUME NEW S, NEW s \in Seq(S), NEW t \in Seq(S)
    PROVE  ToSet(s) \cup ToSet(t) \subseteq ToSet(s \o t)
<1>1. /\ Len(s) \in Nat /\ Len(t) \in Nat /\ DOMAIN s = 1 .. Len(s) /\ DOMAIN t = 1 .. Len(t)
      /\ DOMAIN (s \o t) = 1 .. Len(s) + Len(t)
      /\ \A i \in 1 .. Len(s) + Len(t) : (s \o t)[i] = IF i <= Len(s) THEN s[i] ELSE t[i - Len(s)]
  BY ConcatProperties, LenProperties
<1>2. \A i \in DOMAIN s : i \in DOMAIN (s \o t) /\ (s \o t)[i] = s[i]
  BY <1>1
<1>3. \A i \in DOMAIN t : Len(s) + i \in DOMAIN (s \o t) /\ (s \o t)[Len(s) + i] = t[i]
  <2> TAKE i \in DOMAIN t
  <2>1. Len(s) + i \in 1 .. Len(s) + Len(t) /\ ~(Len(s) + i <= Len(s)) /\ (Len(s) + i) - Len(s) = i
    BY <1>1
  <2> QED
    BY <1>1, <2>1
<1> QED
  BY <1>2, <1>3 DEF ToSet

LEMMA Remaining ==
    ASSUME NEW S, NEW s \in Seq(S), s # <<>>
    PROVE  \A x \in ToSet(s) : x = Head(s) \/ x \in ToSet(Tail(s))
<1>1. /\ Tail(s) \in Seq(S) /\ Len(Tail(s)) = Len(s) - 1
      /\ \A n \in 1 .. Len(Tail(s)) : Tail(s)[n] = s[n + 1]
  BY HeadTailProperties
<1>2. DOMAIN s = 1 .. Len(s) /\ Len(s) \in Nat \ {0} /\ DOMAIN Tail(s) = 1 .. Len(Tail(s))
  BY <1>1, LenProperties, EmptySeq
<1>3. Head(s) = s[1]
  OBVIOUS
<1>4. \A n \in DOMAIN s : n = 1 \/ (n - 1 \in DOMAIN Tail(s) /\ Tail(s)[n - 1] = s[n])
  <2> TAKE n \in DOMAIN s
  <2>1. n = 1 \/ (n - 1 \in 1 .. Len(Tail(s)) /\ (n - 1) + 1 = n)
    BY <1>1, <1>2
  <2> QED
    BY <1>1, <1>2, <2>1
<1> QED
  BY <1>3, <1>4 DEF ToSet

InitiallyKept == Scenarios[scenario].initially \subseteq bucket

NoneLost == NoneOverlooked /\ NoneDropped /\ InitiallyKept

LEMMA ListLoses ==
    ASSUME Mapped, NoneLost, NEW stray \in StrayInts, ListPage(stray)
    PROVE  NoneOverlooked'
<1> DEFINE found == InKeyOrder({o \in Page : InWindow(o, stray)})
           last  == InKeyOrder(Page)[Len(InKeyOrder(Page))]
<1>1. /\ pc = "list" /\ pc' = "list" /\ Page # {} /\ keys' = keys \o found /\ lastkey' = last
      /\ scenario' = scenario /\ missed' = missed
  BY DEF ListPage, Marker
<1>2. /\ found \in Seq(bucket) /\ ToSet(found) = {o \in Page : InWindow(o, stray)}
      /\ last \in Page /\ keys \in Seq(bucket) /\ TypeOK
  BY <1>1, PageListed DEF Mapped, Types
<1> HIDE DEF found, last
<1>3. ASSUME NEW o \in Scenarios[scenario].initially \ missed, Wanted(o)
      PROVE  o > last \/ o \in ToSet(keys \o found)
  <2>1. o \in bucket
    BY DEF NoneLost, InitiallyKept
  <2>2. CASE o \in ToSet(keys)
    BY <1>2, <2>2, Joining
  <2>3. CASE o > lastkey
    <3>1. o \in Page \/ o > last
      BY <1>2, <1>3, <2>1, <2>3, PageNearest DEF Wanted
    <3>2. CASE o \in Page
      BY <1>2, <1>3, <3>2, Joining DEF Wanted
    <3> QED
      BY <3>1, <3>2
  <2> QED
    BY <1>1, <1>3, <2>2, <2>3 DEF NoneLost, NoneOverlooked
<1> QED
  BY <1>1, <1>3, SameSituation DEF NoneOverlooked

LEMMA EndLoses ==
    ASSUME Mapped, NoneLost, ListEnds \/ ListFails
    PROVE  NoneOverlooked'
<1>1. /\ pc = "list" /\ pc' = "get" /\ scenario' = scenario /\ keys' = keys
      /\ missed = {}
  BY DEF ListEnds, ListFails, EndListing, Mapped, Types, Staged
<1>2. ASSUME NEW o \in Scenarios[scenario].initially \ missed', Wanted(o)
      PROVE  o \in ToSet(keys)
  <2>1. o \in bucket /\ (o > lastkey \/ o \in ToSet(keys))
    BY <1>1, <1>2 DEF NoneLost, NoneOverlooked, InitiallyKept
  <2>2. CASE ListEnds
    BY <1>2, <2>1, <2>2, PageNearest DEF Wanted, ListEnds, Mapped, Types
  <2>3. CASE ListFails
    BY <1>2, <2>1, <2>3 DEF ListFails
  <2> QED
    BY <2>2, <2>3
<1> QED
  BY <1>1, <1>2, SameSituation DEF NoneOverlooked

LEMMA GetLoses ==
    ASSUME Mapped, NoneLost, GetObject
    PROVE  NoneOverlooked'
<1>0. PICK h : h = Head(keys)
  OBVIOUS
<1> DEFINE b == Bundle(h)
           items == Items(Image(b))
<1>1. /\ pc = "get" /\ pc' = "get" /\ scenario' = scenario /\ keys # <<>> /\ keys' = Tail(keys)
      /\ keys \in Seq(bucket) /\ missed \subseteq missed'
  BY DEF GetObject, Download, DownloadFails, Mapped, Types
<1>2. b \in Seq(Record) /\ b # <<>>
  BY <1>0, HeadKey, Situation DEF Mapped, Types, TypeOK
<1>3. \/ vmap' = vmap /\ DownloadFails(h) /\ h \notin local
      \/ Holds(vmap', vmap, items, Len(b))
  BY <1>0, MapRun DEF Mapped
<1>4. \A i \in 1 .. Len(b) : Index(items[i]) = Index(b[i]) /\ items[i].timestamp = b[i].timestamp
  BY <1>2, ItemCarries DEF Carries, IsEventOf, Index
<1>5. ASSUME NEW o, InMap(o)
      PROVE  \A i \in 1 .. Len(Bundle(o)) : Bundle(o)[i].timestamp # 0 =>
                 \E e \in vmap' : Index(e) = Index(Bundle(o)[i])
  <2> HIDE DEF items
  <2> QED
    BY <1>3, <1>5 DEF InMap, Holds
<1>6. ASSUME h \notin missed'
      PROVE  \A i \in 1 .. Len(b) : b[i].timestamp # 0 => \E e \in vmap' : Index(e) = Index(b[i])
  <2>1. Holds(vmap', vmap, items, Len(b))
    BY <1>3, <1>6 DEF DownloadFails
  <2> HIDE DEF items, b
  <2> QED
    BY <1>4, <2>1 DEF Holds
<1>7. written' = written /\ \A o : Bundle(o)' = Bundle(o) /\ (Wanted(o)' <=> Wanted(o))
  BY <1>1, SameSituation
<1>8. \A o : InMap(o) => InMap(o)'
  BY <1>5, <1>7 DEF InMap
<1>9. h \notin missed' => InMap(h)'
  <2>1. h \notin missed' =>
           \A i \in 1 .. Len(Bundle(h)) : Bundle(h)[i].timestamp # 0 =>
                 \E e \in vmap' : Index(e) = Index(Bundle(h)[i])
    BY <1>6
  <2> QED
    BY <1>7, <2>1 DEF InMap
<1>10. \A o \in ToSet(keys) : o = h \/ o \in ToSet(keys')
  BY <1>0, <1>1, Remaining
<1>11. \A o \in Scenarios[scenario].initially \ missed' : Wanted(o) => o \in ToSet(keys) \/ InMap(o)
  BY <1>1 DEF NoneLost, NoneOverlooked
<1>12. \A o \in Scenarios[scenario].initially \ missed' : Wanted(o) => o \in ToSet(keys') \/ InMap(o)'
  BY <1>8, <1>9, <1>10, <1>11
<1> QED
  BY <1>1, <1>7, <1>12 DEF NoneOverlooked

LEMMA LaterLoses ==
    ASSUME Mapped, NoneLost, SetupProducer \/ ProcessEvent \/ QueueDrained \/ Finish \/ Answer
    PROVE  NoneOverlooked' /\ NoneDropped' /\ InitiallyKept'
<1>1. UNCHANGED <<scenario, discovery, bucket>>
  BY DEF SetupProducer, ProcessEvent, QueueDrained, Finish,
         Answer, Delivered, DeliveredUnacknowledged, DeliveryTimedOut
<1>2. vmap' = vmap /\ missed' = missed /\ keys' = keys
  BY <1>1 DEF discovery
<1>3. /\ written' = written
      /\ \A o : (InMap(o)' <=> InMap(o)) /\ (Wanted(o)' <=> Wanted(o))
  <2>1. /\ written' = written
        /\ \A o : Bundle(o)' = Bundle(o) /\ (Wanted(o)' <=> Wanted(o))
    BY <1>1, SameSituation
  <2> QED
    BY <1>2, <2>1 DEF InMap
<1>4. InitiallyKept'
  BY <1>1 DEF NoneLost, InitiallyKept
<1>5. \/ pc = "get" /\ keys = <<>> /\ todo' = vmap /\ SetupProducer
      \/ pc \in {"produce", "wait"}
  BY DEF SetupProducer, ProcessEvent, QueueDrained, Finish, Answer, Delivered,
         DeliveredUnacknowledged, DeliveryTimedOut, Mapped, Types, TypeOK, Staged
<1>6. pc' \in {"produce", "wait", "done", "aborted"}
  BY <1>5 DEF SetupProducer, ProcessEvent, QueueDrained, Finish, WaitForQueue, Answer, Delivered,
              DeliveredUnacknowledged, DeliveryTimedOut
<1>7. NoneOverlooked'
  <2>1. keys = <<>> => ToSet(keys) = {}
    BY DEF ToSet
  <2>2. \A o \in Scenarios[scenario].initially \ missed : Wanted(o) => InMap(o)
    BY <1>5, <2>1 DEF NoneLost, NoneOverlooked
  <2> QED
    BY <1>1, <1>2, <1>3, <1>6, <2>2 DEF NoneOverlooked
<1>8. NoneDropped'
  <2>1. CASE SetupProducer
    BY <1>2, <2>1 DEF SetupProducer, NoneDropped
  <2> SUFFICES ASSUME ~SetupProducer, ~Scenarios[scenario].partition, NEW e \in vmap, e.payload_len > 0
               PROVE  e \in todo' \cup outq' \cup lost' \cup ToSet(delivered')
    BY <1>1, <1>2, <2>1 DEF NoneDropped
  <2>2. e \in todo \cup outq \cup lost \cup ToSet(delivered)
    BY <1>5 DEF NoneLost, NoneDropped
  <2>3. CASE ProcessEvent
    BY <2>2, <2>3 DEF ProcessEvent, Produces, producer
  <2>4. CASE QueueDrained \/ Finish
    BY <2>2, <2>4 DEF QueueDrained, Finish, producer
  <2>5. CASE DeliveryTimedOut
    BY <2>2, <2>5 DEF DeliveryTimedOut
  <2>6. CASE Delivered \/ DeliveredUnacknowledged
    <3>1. PICK x \in outq : /\ delivered' = Append(delivered, x)
                            /\ outq' = outq \ {x} \/ outq' = outq
                            /\ todo' = todo /\ lost' = lost
      BY <2>6 DEF Delivered, DeliveredUnacknowledged
    <3>2. delivered \in Seq(vmap) /\ x \in vmap
      BY <3>1 DEF Mapped, Types, TypeOK
    <3>3. ToSet(delivered') = ToSet(delivered) \cup {x}
      BY <3>1, <3>2, Appended
    <3> QED
      BY <2>2, <3>1, <3>3
  <2> QED
    BY <2>3, <2>4, <2>5, <2>6 DEF Answer
<1> QED
  BY <1>4, <1>7, <1>8

LEMMA PutLoses ==
    ASSUME NoneLost, (\E o \in Objects : BackupPuts(o)) \/ UNCHANGED vars
    PROVE  NoneLost'
<1>1. /\ UNCHANGED <<scenario, pc, discovery, todo, producer>> /\ bucket \subseteq bucket'
  BY DEF BackupPuts, vars
<1>2. vmap' = vmap /\ missed' = missed /\ keys' = keys /\ lastkey' = lastkey
  BY <1>1 DEF discovery
<1>3. \A o : Bundle(o)' = Bundle(o) /\ (Wanted(o)' <=> Wanted(o))
  BY <1>1, SameSituation
<1>4. \A o : InMap(o)' <=> InMap(o)
  BY <1>2, <1>3 DEF InMap
<1>5. NoneOverlooked'
  BY <1>1, <1>2, <1>3, <1>4 DEF NoneLost, NoneOverlooked
<1>6. NoneDropped'
  BY <1>1, <1>2 DEF NoneLost, NoneDropped, producer
<1> QED
  BY <1>1, <1>5, <1>6 DEF NoneLost, InitiallyKept

LEMMA LostStep == Mapped /\ NoneLost /\ [Next]_vars => NoneLost'
<1> SUFFICES ASSUME Mapped, NoneLost, [Next]_vars PROVE NoneLost'
  OBVIOUS
<1>1. CASE (\E stray \in StrayInts : ListPage(stray)) \/ ListEnds \/ ListFails \/ GetObject
  <2>1. /\ scenario' = scenario /\ bucket' = bucket
        /\ pc' \in {"list", "get"}
    BY <1>1 DEF ListPage, ListEnds, ListFails, EndListing, GetObject
  <2>2. NoneOverlooked'
    BY <1>1, ListLoses, EndLoses, GetLoses
  <2>3. NoneDropped' /\ InitiallyKept'
    BY <2>1 DEF NoneLost, NoneDropped, InitiallyKept
  <2> QED
    BY <2>2, <2>3 DEF NoneLost
<1>2. CASE SetupProducer \/ ProcessEvent \/ QueueDrained \/ Finish \/ Answer
  BY <1>2, LaterLoses DEF NoneLost
<1>3. CASE (\E o \in Objects : BackupPuts(o)) \/ UNCHANGED vars
  BY <1>3, PutLoses
<1> QED
  BY <1>1, <1>2, <1>3 DEF Next, Main, Terminated

LEMMA LostCorrect == Spec => [](Mapped /\ NoneLost)
<1>1. Init => NoneLost
  <2> SUFFICES ASSUME Init PROVE NoneLost
    OBVIOUS
  <2>1. scenario \in DOMAIN Scenarios /\ pc = "list" /\ lastkey = 0 /\ bucket = Scenarios[scenario].initially
    BY DEF Init
  <2>2. Scenarios[scenario].initially \subseteq Objects /\ \A o \in Objects : o > 0
    BY <2>1, ReplayAssumption DEF IsScenario
  <2> QED
    BY <2>1, <2>2 DEF NoneLost, NoneOverlooked, NoneDropped, InitiallyKept
<1> QED
  BY <1>1, MappedCorrect, LostStep, PTL DEF Spec

-----------------------------------------------------------------------------
(* Everything that is later than FROM_TIME arrives.                        *)

LEMMA LaterStill ==
    ASSUME NEW t \in [1 .. 7 -> Nat], NEW u \in [1 .. 7 -> Nat], NEW v \in [1 .. 7 -> Nat],
           Chronological(t, u), Chronological(u, v)
    PROVE  Chronological(t, v)
<1>1. PICK i \in 1 .. 7 : t[i] > u[i] /\ \A j \in 1 .. i - 1 : t[j] = u[j]
  BY DEF Chronological
<1>2. PICK k \in 1 .. 7 : u[k] > v[k] /\ \A j \in 1 .. k - 1 : u[j] = v[j]
  BY DEF Chronological
<1>3. \A n \in 1 .. 7 : t[n] \in Nat /\ u[n] \in Nat /\ v[n] \in Nat
  OBVIOUS
<1>4. CASE i < k
  <2>1. i \in 1 .. k - 1 /\ \A j \in 1 .. i - 1 : j \in 1 .. k - 1
    BY <1>4
  <2>2. t[i] > v[i] /\ \A j \in 1 .. i - 1 : t[j] = v[j]
    BY <1>1, <1>2, <1>3, <2>1
  <2> QED
    BY <2>2 DEF Chronological
<1>5. CASE k < i
  <2>1. k \in 1 .. i - 1 /\ \A j \in 1 .. k - 1 : j \in 1 .. i - 1
    BY <1>5
  <2>2. t[k] > v[k] /\ \A j \in 1 .. k - 1 : t[j] = v[j]
    BY <1>1, <1>2, <1>3, <2>1
  <2> QED
    BY <2>2 DEF Chronological
<1>6. CASE i = k
  <2>1. t[i] > v[i] /\ \A j \in 1 .. i - 1 : t[j] = v[j]
    BY <1>1, <1>2, <1>3, <1>6
  <2> QED
    BY <2>1 DEF Chronological
<1> QED
  BY <1>4, <1>5, <1>6

\* A date without a fraction that is later stays so, whatever the fraction.
LEMMA FractionKeeps ==
    ASSUME NEW t \in [1 .. 7 -> Nat], t[7] = 0, NEW u \in [1 .. 7 -> Nat], Chronological(t, u), NEW f
    PROVE  Chronological([t EXCEPT ![7] = f], u)
<1>1. PICK i \in 1 .. 7 : t[i] > u[i] /\ \A j \in 1 .. i - 1 : t[j] = u[j]
  BY DEF Chronological
<1>2. u[7] \in Nat
  OBVIOUS
<1>3. i # 7 /\ \A j \in 1 .. i - 1 : j \in 1 .. 7 /\ j # 7
  BY <1>1, <1>2
<1>4. \A j \in 1 .. 7 : j # 7 => [t EXCEPT ![7] = f][j] = t[j]
  OBVIOUS
<1>5. [t EXCEPT ![7] = f][i] > u[i] /\ \A j \in 1 .. i - 1 : [t EXCEPT ![7] = f][j] = u[j]
  BY <1>1, <1>3, <1>4
<1> QED
  BY <1>5 DEF Chronological

\* The key of a bundle is no earlier than its records that are not overtaken.
LEMMA KeyLater ==
    ASSUME Types, OneMonth, DatesAdvance, NEW o \in DOMAIN written, OfTopic(o),
           NEW r \in Records(o), LaterThanFrom(r), ~Overtaken(r, o)
    PROVE  AskedFor(o)
<1> DEFINE from == MessageTime(FromTime)
           b == Bundle(o)
           last == b[Len(b)]
           d == DateOf(Second(r))
           e == DateOf(Second(last))
<1>1. b \in Seq(Record) /\ b # <<>>
  BY Situation DEF Types, TypeOK
<1>2. Len(b) \in 1 .. Len(b) /\ DOMAIN b = 1 .. Len(b)
  BY <1>1, EmptySeq, LenProperties
<1>3. last \in Record /\ last \in Records(o) /\ r \in Record
  <2>1. \A n \in DOMAIN b : b[n] \in Record /\ b[n] \in Records(o)
    BY <1>1, <1>2, ElementOfSeq DEF Records, ToSet
  <2>2. \E n \in DOMAIN b : b[n] = r
    BY DEF Records, ToSet
  <2> QED
    BY <1>2, <2>1, <2>2
<1>4. Second(r) \in Int /\ Second(last) \in Int
  BY <1>3 DEF Second, Record
<1>5. ~(Second(last) < Second(r))
  BY DEF Overtaken
<1>6. Second(r) <= Second(last)
  BY <1>4, <1>5
<1>7. /\ d \in [1 .. 7 -> Nat] /\ d[7] = 0 /\ e \in [1 .. 7 -> Nat] /\ e[7] = 0
      /\ d = e \/ Chronological(e, d)
  <2>1. written[o] \in Range(Scenarios[scenario].written)
    BY DEF written, Range
  <2>2. r \in ToSet(written[o].records) /\ last \in ToSet(written[o].records) /\ written[o].ofTopic
    BY <1>3 DEF Records, Bundle, OfTopic
  <2>3. scenario \in DOMAIN Scenarios
    BY DEF Types, TypeOK
  <2> HIDE DEF last
  <2> QED
    BY <1>4, <1>6, <2>1, <2>2, <2>3 DEF DatesAdvance
<1>8. from \in [1 .. 7 -> Nat] /\ Chronological(d, from)
  BY DEF OneMonth, IsDate, LaterThanFrom
<1> HIDE DEF d, e, from
<1>9. Chronological(e, from)
  BY <1>7, <1>8, LaterStill
<1>10. Chronological([e EXCEPT ![7] = written[o].seed], from)
  BY <1>7, <1>8, <1>9, FractionKeeps
<1> QED
  BY <1>10 DEF AskedFor, KeyDate, e, from

\* Every record that was in the bucket at the start and is later than FROM_TIME
\* is delivered, or its loss is due to one failed request or event, if AWS_TOPIC
\* ends with a slash and FROM_TIME and the keys of the topic belong to one month
\* whose dates advance with the clock.
THEOREM EverythingCorrect == Spec => [](OneMonth /\ DatesAdvance /\ slash => EverythingReplayed)
<1>1. Mapped /\ NoneLost => (OneMonth /\ DatesAdvance /\ slash => EverythingReplayed)
  <2> SUFFICES ASSUME Mapped, NoneLost, OneMonth, DatesAdvance, slash,
                      pc = "done", ~Scenarios[scenario].partition,
                      NEW o \in Scenarios[scenario].initially \ missed, OfTopic(o), NEW r \in Records(o),
                      r.payload # <<>>, r.timestamp # 0,
                      LaterThanFrom(r), ~Overtaken(r, o), ~Collides(r)
               PROVE  \E e \in ToSet(delivered) \cup lost : IsEventOf(e, r)
    BY DEF EverythingReplayed
  <2>1. Types /\ scenario \in DOMAIN Scenarios
    BY DEF Mapped, Types, TypeOK
  <2>2. o \in DOMAIN written
    BY <2>1, Situation DEF IsScenario, written
  <2>3. Wanted(o)
    BY <2>1, <2>2, KeyLater, WindowAsked DEF Wanted
  <2>4. InMap(o)
    BY <2>3 DEF NoneLost, NoneOverlooked
  <2>5. PICK i \in 1 .. Len(Bundle(o)) : Bundle(o)[i] = r
    BY <2>1, <2>2, Situation, LenProperties DEF Records, ToSet
  <2>6. PICK e \in vmap : Index(e) = Index(r)
    BY <2>4, <2>5 DEF InMap
  <2>7. PICK q \in DOMAIN written : InRange(q) /\ ReadFrom(e, q)
    BY DEF Mapped, MapRead
  <2>8. PICK k \in 1 .. Len(Bundle(q)) : Carries(e, Bundle(q)[k])
    BY <2>7 DEF ReadFrom
  <2> DEFINE s == Bundle(q)[k]
  <2>9. s \in Records(q) /\ r \in Record
    <3>1. \A x \in DOMAIN written : Bundle(x) \in Seq(Record) /\ DOMAIN Bundle(x) = 1 .. Len(Bundle(x))
      BY <2>1, Situation, LenProperties
    <3>2. r \in Record
      BY <2>2, <2>5, <3>1, ElementOfSeq
    <3> QED
      BY <3>1, <3>2 DEF Records, ToSet
  <2>10. s.timestamp = r.timestamp /\ s.offset = r.offset
    BY <2>6, <2>8 DEF Carries, IsEventOf, Index
  <2>11. s.partition = r.partition
    BY <2>9, <2>10 DEF Collides
  <2>12. s = r
    <3>1. SameRecord(written[o], written[q])
      BY <2>1, <2>2, Situation DEF IsScenario, written
    <3>2. OfTopic(q)
      BY <2>7 DEF InRange
    <3> QED
      BY <2>9, <2>10, <2>11, <3>1, <3>2 DEF SameRecord, OfTopic, Records, Bundle
  <2>13. IsEventOf(e, r) /\ e.payload_len = Len(r.payload)
    BY <2>8, <2>12 DEF Carries
  <2>14. e.payload_len > 0
    <3>1. r.payload \in Seq(0 .. 255)
      BY <2>9 DEF Record
    <3>2. Len(r.payload) \in Nat \ {0}
      BY <3>1, EmptySeq
    <3> QED
      BY <2>13, <3>2
  <2>15. e \in todo \cup outq \cup lost \cup ToSet(delivered)
    BY <2>14 DEF NoneLost, NoneDropped
  <2>16. todo = {} /\ outq = {}
    BY <2>1 DEF Types, Staged
  <2> QED
    BY <2>13, <2>15, <2>16
<1> QED
  BY <1>1, LostCorrect, PTL
=============================================================================
