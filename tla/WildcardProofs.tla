--------------------------- MODULE WildcardProofs ---------------------------
(***************************************************************************)
(* Utils::strcmp gives the right answer and its pointers stay inside the   *)
(* texts, whatever their lengths and letters.                              *)
(***************************************************************************)
EXTENDS Wildcard, SequenceTheorems, WellFoundedInduction, TLAPS

\* Before the first "*" there is nowhere to go back to, and no need to; then
\* the next attempt starts at most one character behind the moving pointer,
\* and the pattern resumes behind a "*".
RetryInside ==
    /\ phase = "literal" => m = 0
    /\ phase = "search" => \/ m = 0 /\ (~More \/ Star)
                           \/ m \in 1 .. Len(wild) + 1 /\ c \in 1 .. s + 1

TextsKnown ==
    /\ Len(wild) \in Nat /\ Len(string) \in Nat
    /\ phase \in {"literal", "search", "trailing", "done"}

Inv == TextsKnown /\ PointersInside /\ RetryInside

LEMMA TextLengths ==
  /\ \A x \in Patterns : Len(x) \in Nat
  /\ \A x \in Names : Len(x) \in Nat
<1>1. ASSUME NEW S, NEW n \in Nat, NEW x \in SeqOf(S, n) PROVE Len(x) \in Nat
  <2>1. PICK k \in 0 .. n : x \in [1 .. k -> S]
    BY DEF SeqOf
  <2>2. k \in Nat
    OBVIOUS
  <2>3. x \in Seq(S) /\ Len(x) = k
    BY <2>1, <2>2, SeqDef
  <2> QED BY <2>3
<1> QED BY <1>1, LengthAssumption DEF Patterns, Names

\* What the comparisons say of the pointers.
LEMMA Reads ==
  ASSUME Inv
  PROVE  /\ More => s + 1 \in 1 .. Len(string) + 1
         /\ Star => w + 1 \in 1 .. Len(wild) + 1
         /\ More /\ Fits => w + 1 \in 1 .. Len(wild) + 1
<1>1. w \in Nat /\ s \in Nat /\ w >= 1 /\ s >= 1 /\ Len(wild) \in Nat /\ Len(string) \in Nat
  BY DEF Inv, TextsKnown, PointersInside
<1>2. More => s <= Len(string)
  BY DEF More, At
<1>3. Star => w <= Len(wild)
  BY DEF Star, At
<1>4. More /\ Fits => w <= Len(wild)
  BY DEF More, Fits, At
<1> QED BY <1>1, <1>2, <1>3, <1>4

LEMMA LiteralInv == ASSUME Inv, Literal PROVE Inv'
<1>1. CASE /\ More /\ ~Star /\ Fits /\ w' = w + 1 /\ s' = s + 1
           /\ UNCHANGED <<arguments, phase, m, c, result>>
  BY <1>1, Reads DEF Literal, Inv, TextsKnown, PointersInside, RetryInside, arguments
<1>2. CASE Return(FALSE)
  BY <1>2 DEF Return, Inv, TextsKnown, PointersInside, RetryInside, arguments
<1>3. CASE /\ ~More \/ Star
           /\ phase' = "search" /\ UNCHANGED <<arguments, w, s, m, c, result>>
  <2>1. (~More \/ Star)' /\ m' = 0
    BY <1>3 DEF Literal, Inv, RetryInside, More, Star, At, arguments
  <2> QED BY <1>3, <2>1 DEF Inv, TextsKnown, PointersInside, RetryInside, arguments
<1> QED BY <1>1, <1>2, <1>3 DEF Literal

LEMMA SearchInv == ASSUME Inv, Search PROVE Inv'
<1>0. phase = "search" /\ w \in Nat /\ s \in Nat /\ s >= 1 /\ w >= 1
  BY DEF Search, Inv, TextsKnown, PointersInside
<1>1. CASE Return(TRUE)
  BY <1>1 DEF Return, Inv, TextsKnown, PointersInside, RetryInside, arguments
<1>2. CASE /\ More /\ Star /\ w' = w + 1 /\ m' = w + 1 /\ c' = s + 1
           /\ UNCHANGED <<arguments, phase, s, result>>
  BY <1>0, <1>2, Reads DEF Inv, TextsKnown, PointersInside, RetryInside, arguments
<1>3. CASE /\ More /\ ~Star /\ Fits /\ w' = w + 1 /\ s' = s + 1
           /\ UNCHANGED <<arguments, phase, m, c, result>>
  BY <1>0, <1>3, Reads DEF Inv, TextsKnown, PointersInside, RetryInside, arguments
<1>4. CASE /\ More /\ ~Star /\ ~Fits
           /\ w' = m /\ s' = c /\ c' = c + 1
           /\ UNCHANGED <<arguments, phase, m, result>>
  <2>1. m \in 1 .. Len(wild) + 1 /\ c \in 1 .. s + 1
    BY <1>0, <1>4 DEF Inv, RetryInside
  <2>2. c \in 1 .. Len(string) + 1 /\ c + 1 \in 1 .. c + 1
    BY <1>0, <1>4, <2>1, Reads DEF Inv, TextsKnown
  <2> QED BY <1>0, <1>4, <2>1, <2>2 DEF Inv, TextsKnown, PointersInside, RetryInside, arguments
<1>5. CASE phase' = "trailing" /\ UNCHANGED <<arguments, w, s, m, c, result>>
  BY <1>5 DEF Inv, TextsKnown, PointersInside, RetryInside, arguments
<1> QED BY <1>1, <1>2, <1>3, <1>4, <1>5 DEF Search, RetryFrom

LEMMA TrailingInv == ASSUME Inv, Trailing PROVE Inv'
<1>1. CASE /\ Star /\ w' = w + 1 /\ UNCHANGED <<arguments, phase, s, m, c, result>>
  BY <1>1, Reads DEF Trailing, Inv, TextsKnown, PointersInside, RetryInside, arguments
<1>2. CASE Return(EndOfPattern)
  BY <1>2 DEF Return, Inv, TextsKnown, PointersInside, RetryInside, arguments
<1> QED BY <1>1, <1>2 DEF Trailing

LEMMA PointersInv == Spec => []Inv
<1>1. Init => Inv
  <2> SUFFICES ASSUME Init PROVE Inv
    OBVIOUS
  <2>1. Len(wild) \in Nat /\ Len(string) \in Nat
    BY TextLengths DEF Init
  <2> QED
    BY <2>1 DEF Init, Inv, TextsKnown, PointersInside, RetryInside
<1>2. Inv /\ [Next]_vars => Inv'
  <2> SUFFICES ASSUME Inv, [Next]_vars PROVE Inv'
    OBVIOUS
  <2>1. CASE Done \/ UNCHANGED vars
    BY <2>1 DEF Done, vars, arguments, Inv, TextsKnown, PointersInside, RetryInside, More, Star, At
  <2> QED
    BY <2>1, LiteralInv, SearchInv, TrailingInv DEF Next, Step
<1> QED
  BY <1>1, <1>2, PTL DEF Spec

\* No read of the pattern or of the name passes its terminating NUL or follows
\* a NULL pointer, for texts of any length.  (Utils::strcmp)
THEOREM PointersInsideCorrect == Spec => []PointersInside
<1>1. Inv => PointersInside
  BY DEF Inv
<1> QED
  BY <1>1, PointersInv, PTL

-----------------------------------------------------------------------------
(* The answer.  Matching is defined by recursion on the rest of the        *)
(* pattern; its equations are proved by induction, in the form of a least  *)
(* counterexample.                                                         *)

LEMMA LeastNumber ==
    ASSUME NEW T \in SUBSET Nat, T # {}
    PROVE  \E n \in T : \A k \in T : n <= k
<1> DEFINE R == {x \in Nat \X Nat : x[1] < x[2]}
<1>1. IsWellFoundedOn(R, Nat)
  BY NatLessThanWellFounded DEF OpToRel
<1>2. T \subseteq Nat
  OBVIOUS
<1>3. \A x, y \in Nat : ~(<<y, x>> \in R) => x <= y
  OBVIOUS
<1> HIDE DEF R
<1>4. \E x \in T : \A y \in T : ~(<<y, x>> \in R)
  BY <1>1, <1>2, WFMin
<1> QED
  BY <1>2, <1>3, <1>4

LEMMA Texts ==
  /\ \A x \in Patterns : x \in Seq(Letters \cup {"*", "?"})
  /\ \A x \in Names : x \in Seq(Letters)
<1>1. ASSUME NEW S, NEW n \in Nat, NEW x \in SeqOf(S, n) PROVE x \in Seq(S)
  <2>1. PICK k \in 0 .. n : x \in [1 .. k -> S]
    BY DEF SeqOf
  <2> QED
    BY <2>1, SeqDef
<1> QED
  BY <1>1, LengthAssumption DEF Patterns, Names

\* The places for the i-th place of pattern p, given those for the next one.
Row(p, t, next, i) ==
    IF i > Len(p) THEN {Len(t) + 1}
    ELSE IF p[i] = "*" THEN {j \in 1 .. Len(t) + 1 : \E k \in next : j <= k}
    ELSE {j \in 1 .. Len(t) : p[i] \in {t[j], "?"} /\ j + 1 \in next}

\* f holds the places for the last n places of the pattern.
Rows(p, t, f, n) == \A i \in Len(p) + 1 - n .. Len(p) + 1 : f[i] = Row(p, t, f[i + 1], i)

LEMMA RowsExist ==
    ASSUME NEW S, NEW p \in Seq(S), NEW t
    PROVE  \A n \in 0 .. Len(p) : \E f : Rows(p, t, f, n)
<1> DEFINE N == Len(p)
           T == {n \in 0 .. N : ~ \E f : Rows(p, t, f, n)}
<1>0. N \in Nat
  OBVIOUS
<1> SUFFICES ASSUME T # {} PROVE FALSE
  OBVIOUS
<1>1. PICK n \in T : \A k \in T : n <= k
  <2>1. T \in SUBSET Nat
    BY <1>0
  <2> HIDE DEF T
  <2> QED
    BY <2>1, LeastNumber
<1>2. n \in 0 .. N /\ n \in Nat
  BY <1>0, <1>1
<1>3. PICK f : n # 0 => Rows(p, t, f, n - 1)
  <2>1. n # 0 => n - 1 \in 0 .. N /\ ~(n <= n - 1)
    BY <1>0, <1>2
  <2>2. n # 0 => n - 1 \notin T
    <3> HIDE DEF T
    <3> QED
      BY <1>1, <2>1
  <2> QED
    BY <2>1, <2>2
<1> DEFINE b == N + 1 - n
           g == [i \in 1 .. N + 1 |-> IF i = b THEN Row(p, t, f[b + 1], b) ELSE f[i]]
<1>4. b \in 1 .. N + 1 /\ (n = 0 => b > N)
  BY <1>0, <1>2
<1>5. Rows(p, t, g, n)
  <2> SUFFICES ASSUME NEW i \in b .. N + 1 PROVE g[i] = Row(p, t, g[i + 1], i)
    BY DEF Rows
  <2>1. CASE i > N
    <3>1. i = N + 1
      BY <1>0, <1>4, <2>1
    <3>2. g[i] = Row(p, t, f[i + 1], i)
      <4>1. CASE i = b
        BY <1>4, <4>1
      <4>2. CASE i # b
        <5>1. n # 0 /\ i \in N + 1 - (n - 1) .. N + 1 /\ g[i] = f[i]
          BY <1>0, <1>2, <1>4, <3>1, <4>2
        <5> QED
          BY <1>3, <5>1 DEF Rows
      <4> QED
        BY <4>1, <4>2
    <3> QED
      BY <2>1, <3>2 DEF Row
  <2>2. CASE ~(i > N)
    <3>1. i + 1 \in 1 .. N + 1 /\ i + 1 # b /\ n # 0 /\ g[i + 1] = f[i + 1]
      BY <1>0, <1>2, <1>4, <2>2
    <3>2. CASE i = b
      BY <1>4, <3>1, <3>2
    <3>3. CASE i # b
      <4>1. i \in N + 1 - (n - 1) .. N + 1 /\ i \in 1 .. N + 1
        <5> HIDE DEF N, g
        <5> QED
          BY <1>0, <1>2, <1>4, <2>2, <3>3
      <4>2. g[i] = f[i]
        BY <3>3, <4>1
      <4> QED
        BY <1>3, <3>1, <4>1, <4>2 DEF Rows
    <3> QED
      BY <3>2, <3>3
  <2> QED
    BY <2>1, <2>2
<1> HIDE DEF g
<1> QED
  BY <1>1, <1>5

LEMMA MatchingRows ==
    ASSUME NEW S, NEW p \in Seq(S), NEW t
    PROVE  \A i \in 1 .. Len(p) + 1 : Matching(p, t)[i] = Row(p, t, Matching(p, t)[i + 1], i)
<1> DEFINE N == Len(p)
           Places(f) == f = [i \in 1 .. N + 1 |-> Row(p, t, f[i + 1], i)]
<1>0. N \in Nat
  OBVIOUS
<1>1. PICK f : Rows(p, t, f, N)
  BY <1>0, RowsExist
<1> DEFINE g == [i \in 1 .. N + 1 |-> f[i]]
<1>2. Places(g)
  <2>1. ASSUME NEW i \in 1 .. N + 1 PROVE g[i] = Row(p, t, g[i + 1], i)
    <3>1. f[i] = Row(p, t, f[i + 1], i)
      BY <1>0, <1>1 DEF Rows
    <3>2. CASE i > N
      BY <3>1, <3>2 DEF Row
    <3>3. CASE ~(i > N)
      <4>1. i + 1 \in 1 .. N + 1
        BY <1>0, <3>3
      <4> QED
        BY <3>1, <4>1
    <3> QED
      BY <3>2, <3>3
  <2> HIDE DEF N
  <2> QED
    BY <2>1
<1>3. \E h : Places(h)
  <2> HIDE DEF g, Places
  <2> QED
    BY <1>2
<1>4. Matching(p, t) = CHOOSE h : Places(h)
  BY DEF Matching, Row
<1>5. Places(Matching(p, t))
  <2> HIDE DEF Places
  <2> QED
    BY <1>3, <1>4
<1> QED
  BY <1>5

\* The equations of Matching, one per kind of place in the pattern.
LEMMA MatchingEquations ==
    ASSUME NEW S, NEW p \in Seq(S), NEW t
    PROVE  /\ Matching(p, t)[Len(p) + 1] = {Len(t) + 1}
           /\ \A i \in 1 .. Len(p) :
                /\ p[i] = "*" => Matching(p, t)[i] =
                     {j \in 1 .. Len(t) + 1 : \E k \in Matching(p, t)[i + 1] : j <= k}
                /\ p[i] # "*" => Matching(p, t)[i] =
                     {j \in 1 .. Len(t) : p[i] \in {t[j], "?"} /\ j + 1 \in Matching(p, t)[i + 1]}
<1> DEFINE M == Matching(p, t)
<1>1. \A i \in 1 .. Len(p) + 1 : M[i] = Row(p, t, M[i + 1], i)
  BY MatchingRows
<1>2. /\ Len(p) + 1 \in 1 .. Len(p) + 1 /\ Len(p) + 1 > Len(p)
      /\ \A i \in 1 .. Len(p) : i \in 1 .. Len(p) + 1 /\ ~(i > Len(p))
  OBVIOUS
<1> HIDE DEF M
<1>3. M[Len(p) + 1] = {Len(t) + 1}
  BY <1>1, <1>2 DEF Row
<1>4. ASSUME NEW i \in 1 .. Len(p)
      PROVE  /\ p[i] = "*" => M[i] = {j \in 1 .. Len(t) + 1 : \E k \in M[i + 1] : j <= k}
             /\ p[i] # "*" => M[i] = {j \in 1 .. Len(t) : /\ p[i] \in {t[j], "?"}
                                                          /\ j + 1 \in M[i + 1]}
  BY <1>1, <1>2 DEF Row
<1> QED
  BY <1>3, <1>4 DEF M

\* The places for the pattern from its i-th character on.
Places(i) == Matching(wild, string)[i]

\* After a mismatch the search goes on at place c - 1 for the part of the
\* pattern from m on, which is where the attempt that has come to w and s
\* began; whatever place is right for m is as many characters before one that
\* is right for w.
Attempt ==
    /\ m \in 1 .. w /\ c \in Nat /\ c - 1 = s - (w - m)
    /\ \A k \in Places(m) : k + (w - m) \in Places(w)

\* What has still to be found out, in each phase.
AnswerInv ==
    /\ wild \in Patterns /\ string \in Names
    /\ phase = "literal" => (Match <=> s \in Places(w))
    /\ phase = "search" /\ m = 0 => (Match <=> s \in Places(w))
    /\ phase = "search" /\ m # 0 =>
          /\ Attempt
          /\ Match <=> s \in Places(w) \/ \E k \in Places(m) : k >= c
    /\ phase = "trailing" => s = Len(string) + 1 /\ (Match <=> s \in Places(w))
    /\ phase = "done" => (result <=> Match)

LEMMA PlacesAre ==
    ASSUME Inv, AnswerInv
    PROVE  /\ Places(Len(wild) + 1) = {Len(string) + 1}
           /\ \A i \in 1 .. Len(wild) :
                /\ wild[i] = "*" => Places(i) =
                     {j \in 1 .. Len(string) + 1 : \E k \in Places(i + 1) : j <= k}
                /\ wild[i] # "*" => Places(i) =
                     {j \in 1 .. Len(string) : /\ wild[i] \in {string[j], "?"}
                                               /\ j + 1 \in Places(i + 1)}
           /\ \A i \in 1 .. Len(wild) + 1 : Places(i) \subseteq 1 .. Len(string) + 1
<1>1. wild \in Seq(Letters \cup {"*", "?"})
  BY Texts DEF AnswerInv
<1>2. /\ Places(Len(wild) + 1) = {Len(string) + 1}
      /\ \A i \in 1 .. Len(wild) :
           /\ wild[i] = "*" => Places(i) =
                {j \in 1 .. Len(string) + 1 : \E k \in Places(i + 1) : j <= k}
           /\ wild[i] # "*" => Places(i) =
                {j \in 1 .. Len(string) : /\ wild[i] \in {string[j], "?"}
                                          /\ j + 1 \in Places(i + 1)}
  BY <1>1, MatchingEquations DEF Places
<1>3. Len(wild) \in Nat /\ Len(string) \in Nat
  BY DEF Inv, TextsKnown
<1>4. ASSUME NEW i \in 1 .. Len(wild) + 1 PROVE Places(i) \subseteq 1 .. Len(string) + 1
  <2>1. CASE i = Len(wild) + 1
    BY <1>2, <1>3, <2>1
  <2>2. CASE i # Len(wild) + 1
    <3>1. i \in 1 .. Len(wild) /\ 1 .. Len(string) \subseteq 1 .. Len(string) + 1
      BY <1>3, <2>2
    <3> QED
      BY <1>2, <3>1
  <2> QED
    BY <2>1, <2>2
<1> QED
  BY <1>2, <1>4

\* What each comparison says of the places at the moving pointers.
LEMMA Compared ==
    ASSUME Inv, AnswerInv
    PROVE  /\ More /\ ~Star /\ Fits =>
                /\ s \in Places(w) <=> s + 1 \in Places(w + 1)
                /\ \A k \in Places(w) : k + 1 \in Places(w + 1)
           /\ More /\ ~Star /\ ~Fits => s \notin Places(w)
           /\ More /\ Star => /\ s \in Places(w) <=> \E k \in Places(w + 1) : k >= s
                              /\ w = Len(wild) => s \in Places(w)
                              /\ \A k \in Places(w) : k >= s => s \in Places(w)
           /\ ~More => s = Len(string) + 1
           /\ ~More /\ Star => (s \in Places(w) <=> s \in Places(w + 1))
           /\ ~More /\ ~Star => (s \in Places(w) <=> w > Len(wild))
<1> DEFINE N == Len(wild)
           L == Len(string)
<1>1. /\ N \in Nat /\ L \in Nat /\ w \in 1 .. N + 1 /\ s \in 1 .. L + 1
      /\ w \in Nat /\ s \in Nat
  BY DEF Inv, TextsKnown, PointersInside
<1>2. /\ More => s \in 1 .. L
      /\ ~More => s = L + 1
  <2>1. string \in Seq(Letters)
    BY Texts DEF AnswerInv
  <2>2. \A i \in 1 .. L : string[i] \in Letters
    BY <2>1
  <2> QED
    BY <1>1, <2>2, LetterAssumption DEF More, At
<1>3. /\ Star => w \in 1 .. N /\ wild[w] = "*"
      /\ ~Star => w = N + 1 \/ (w \in 1 .. N /\ wild[w] # "*")
  BY <1>1 DEF Star, At
<1>4. /\ More /\ Fits => w \in 1 .. N /\ wild[w] \in {string[s], "?"}
      /\ More /\ ~Fits => w = N + 1 \/ (w \in 1 .. N /\ wild[w] \notin {string[s], "?"})
  BY <1>1 DEF More, Fits, At
<1> HIDE DEF N, L
<1>5. Places(N + 1) = {L + 1}
  BY PlacesAre DEF N, L
<1>6. ASSUME w \in 1 .. N, wild[w] = "*"
      PROVE  /\ Places(w) = {j \in 1 .. L + 1 : \E k \in Places(w + 1) : j <= k}
             /\ Places(w + 1) \subseteq 1 .. L + 1 /\ Places(w) \subseteq 1 .. L + 1
  <2>1. w + 1 \in 1 .. N + 1
    BY <1>1, <1>6
  <2> QED
    BY <1>1, <1>6, <2>1, PlacesAre DEF N, L
<1>7. ASSUME w \in 1 .. N, wild[w] # "*"
      PROVE  /\ Places(w) = {j \in 1 .. L : /\ wild[w] \in {string[j], "?"}
                                            /\ j + 1 \in Places(w + 1)}
  BY <1>7, PlacesAre DEF N, L
<1>8. ASSUME More, ~Star, Fits
      PROVE  /\ s \in Places(w) <=> s + 1 \in Places(w + 1)
             /\ \A k \in Places(w) : k + 1 \in Places(w + 1)
  <2>1. w \in 1 .. N /\ wild[w] # "*" /\ wild[w] \in {string[s], "?"} /\ s \in 1 .. L
    BY <1>1, <1>2, <1>3, <1>4, <1>8
  <2> QED
    BY <1>7, <2>1
<1>9. ASSUME More, ~Star, ~Fits PROVE s \notin Places(w)
  <2>1. s \in 1 .. L /\ s # L + 1
    BY <1>1, <1>2, <1>9
  <2>2. CASE w = N + 1
    BY <1>5, <2>1, <2>2
  <2>3. CASE w \in 1 .. N /\ wild[w] # "*" /\ wild[w] \notin {string[s], "?"}
    BY <1>7, <2>3
  <2> QED
    BY <1>1, <1>3, <1>4, <1>9, <2>2, <2>3
<1>10. ASSUME More, Star
       PROVE  /\ s \in Places(w) <=> \E k \in Places(w + 1) : k >= s
              /\ w = N => s \in Places(w)
              /\ \A k \in Places(w) : k >= s => s \in Places(w)
  <2>1. /\ Places(w) = {j \in 1 .. L + 1 : \E k \in Places(w + 1) : j <= k}
        /\ Places(w + 1) \subseteq 1 .. L + 1 /\ Places(w) \subseteq 1 .. L + 1
    BY <1>3, <1>6, <1>10
  <2>2. s \in Places(w) <=> \E k \in Places(w + 1) : k >= s
    BY <1>1, <2>1
  <2>3. ASSUME w = N PROVE s \in Places(w)
    <3>1. L + 1 \in Places(w + 1) /\ s <= L + 1
      BY <1>1, <1>5, <2>3
    <3> QED
      BY <1>1, <2>1, <3>1
  <2>4. ASSUME NEW k \in Places(w), k >= s PROVE s \in Places(w)
    <3>1. PICK i \in Places(w + 1) : k <= i
      BY <2>1, <2>4
    <3>2. s <= i
      BY <1>1, <2>1, <2>4, <3>1
    <3> QED
      BY <1>1, <2>1, <3>1, <3>2
  <2> QED
    BY <2>2, <2>3, <2>4
<1>11. ASSUME ~More, Star PROVE s \in Places(w) <=> s \in Places(w + 1)
  <2>1. /\ Places(w) = {j \in 1 .. L + 1 : \E k \in Places(w + 1) : j <= k}
        /\ Places(w + 1) \subseteq 1 .. L + 1
    BY <1>3, <1>6, <1>11
  <2>2. \A k \in 1 .. L + 1 : s <= k => k = s
    BY <1>1, <1>2, <1>11
  <2> QED
    BY <1>1, <2>1, <2>2
<1>12. ASSUME ~More, ~Star PROVE s \in Places(w) <=> w > N
  <2>1. CASE w = N + 1
    BY <1>1, <1>2, <1>5, <1>12, <2>1
  <2>2. CASE w \in 1 .. N /\ wild[w] # "*"
    <3>1. s \notin 1 .. L
      BY <1>1, <1>2, <1>12
    <3> QED
      BY <1>1, <1>7, <2>2, <3>1
  <2> QED
    BY <1>3, <1>12, <2>1, <2>2
<1> QED
  BY <1>2, <1>8, <1>9, <1>10, <1>11, <1>12 DEF N, L

LEMMA AnswerInit == Init => AnswerInv
  BY DEF Init, AnswerInv, Match, Places

\* The first loop has no "*" behind it: the places at hand decide.
LEMMA AnswerLiteral == ASSUME Inv, AnswerInv, Literal PROVE AnswerInv'
<1>1. /\ phase = "literal" /\ wild' = wild /\ string' = string
      /\ Match <=> s \in Places(w)
      /\ m = 0
  BY DEF Literal, Return, AnswerInv, Inv, RetryInside, arguments
<1>2. Match' = Match /\ \A i : Places(i)' = Places(i)
  BY <1>1 DEF Match, Places
<1>3. CASE /\ More /\ ~Star /\ Fits /\ w' = w + 1 /\ s' = s + 1
           /\ UNCHANGED <<arguments, phase, m, c, result>>
  <2>1. s \in Places(w) <=> s + 1 \in Places(w + 1)
    BY <1>3, Compared
  <2>2. Places(w)' = Places(w + 1)
    BY <1>1, <1>3 DEF Places
  <2> QED
    BY <1>1, <1>2, <1>3, <2>1, <2>2 DEF AnswerInv
<1>4. CASE More /\ ~Star /\ ~Fits /\ Return(FALSE)
  <2>1. s \notin Places(w)
    BY <1>4, Compared
  <2> QED
    BY <1>1, <1>2, <1>4, <2>1 DEF AnswerInv, Return
<1>5. CASE phase' = "search" /\ UNCHANGED <<arguments, w, s, m, c, result>>
  <2>1. Places(w)' = Places(w)
    BY <1>1, <1>5 DEF Places
  <2> QED
    BY <1>1, <1>2, <1>5, <2>1 DEF AnswerInv
<1> QED
  BY <1>3, <1>4, <1>5 DEF Literal

LEMMA AnswerSearch == ASSUME Inv, AnswerInv, Search PROVE AnswerInv'
<1>1. /\ phase = "search" /\ wild' = wild /\ string' = string
      /\ m # 0 => m \in 1 .. Len(wild) + 1 /\ Attempt
      /\ w \in Nat /\ w >= 1 /\ s \in Nat /\ Len(string) \in Nat
      /\ w <= Len(wild) + 1 /\ Len(wild) \in Nat
  BY DEF Search, Return, AnswerInv, Inv, TextsKnown, PointersInside, RetryInside, arguments
<1>2. Match' = Match /\ \A i : Matching(wild', string')[i] = Places(i)
  BY <1>1 DEF Match, Places
\* Where a "*" or the end of the name is met, what an earlier "*" could still
\* take is no longer needed.
<1>3. ASSUME Star \/ ~More PROVE Match <=> s \in Places(w)
  <2>1. CASE m = 0
    BY <1>1, <2>1 DEF AnswerInv
  <2>2. CASE m # 0
    <3>1. SUFFICES ASSUME NEW k \in Places(m), k >= c PROVE s \in Places(w)
      BY <1>1, <2>2 DEF AnswerInv
    <3>2. k + (w - m) \in Places(w) /\ m \in 1 .. w /\ c \in Nat /\ c - 1 = s - (w - m)
      BY <1>1, <2>2 DEF Attempt
    <3>3. Places(w) \subseteq 1 .. Len(string) + 1 /\ Places(m) \subseteq 1 .. Len(string) + 1
      BY <1>1, <2>2, PlacesAre
    <3>4. k \in Nat /\ k + (w - m) >= s + 1 /\ k + (w - m) <= Len(string) + 1
      BY <1>1, <3>1, <3>2, <3>3
    <3>5. CASE ~More
      <4>1. s = Len(string) + 1
        BY <3>5, Compared
      <4> QED
        BY <1>1, <3>4, <4>1
    <3>6. CASE More /\ Star
      <4>1. \A i \in Places(w) : i >= s => s \in Places(w)
        BY <3>6, Compared
      <4>2. k + (w - m) >= s
        BY <1>1, <3>2, <3>4
      <4> QED
        BY <3>2, <4>1, <4>2
    <3> QED
      BY <1>3, <3>5, <3>6
  <2> QED
    BY <2>1, <2>2
<1>4. CASE More /\ Star /\ w = Len(wild) /\ Return(TRUE)
  <2>1. Match
    BY <1>3, <1>4, Compared
  <2> QED
    BY <1>1, <1>2, <1>4, <2>1 DEF AnswerInv, Return
<1>5. CASE /\ More /\ Star /\ w' = w + 1 /\ m' = w + 1 /\ c' = s + 1
           /\ UNCHANGED <<arguments, phase, s, result>>
  <2>1. Match <=> \E k \in Places(w + 1) : k >= s
    BY <1>3, <1>5, Compared
  <2>2. w + 1 \in 1 .. Len(wild) + 1
    BY <1>5, Reads
  <2>3. Places(w + 1) \subseteq 1 .. Len(string) + 1
    BY <2>2, PlacesAre
  <2>4. \A k \in Places(w + 1) : k \in Nat /\ (k >= s <=> k = s \/ k >= s + 1)
    BY <1>1, <2>3
  <2>5. Match <=> s \in Places(w + 1) \/ \E k \in Places(w + 1) : k >= s + 1
    BY <1>1, <2>1, <2>4
  <2>6. Places(w)' = Places(w + 1) /\ Places(m)' = Places(w + 1)
    BY <1>1, <1>5 DEF Places
  <2>7. Attempt'
    BY <1>1, <1>5, <2>4, <2>6 DEF Attempt
  <2> QED
    BY <1>1, <1>2, <1>5, <2>5, <2>6, <2>7 DEF AnswerInv
<1>6. CASE /\ More /\ ~Star /\ Fits /\ w' = w + 1 /\ s' = s + 1
           /\ UNCHANGED <<arguments, phase, m, c, result>>
  <2>1. /\ s \in Places(w) <=> s + 1 \in Places(w + 1)
        /\ \A k \in Places(w) : k + 1 \in Places(w + 1)
    BY <1>6, Compared
  <2>2. Places(w)' = Places(w + 1) /\ Places(m)' = Places(m) /\ m' = m /\ c' = c
    BY <1>1, <1>6 DEF Places
  <2>3. m = 0 => (Match <=> s \in Places(w))
    BY <1>1 DEF AnswerInv
  <2>4. ASSUME m # 0 PROVE Attempt'
    <3>1. /\ m \in 1 .. w /\ c \in Nat /\ c - 1 = s - (w - m)
          /\ \A k \in Places(m) : k + (w - m) \in Places(w)
      BY <1>1, <2>4 DEF Attempt
    <3>2. m \in 1 .. w + 1 /\ c - 1 = (s + 1) - ((w + 1) - m)
      BY <1>1, <3>1
    <3>3. ASSUME NEW k \in Places(m) PROVE k + ((w + 1) - m) \in Places(w + 1)
      <4>1. k \in Nat
        BY <1>1, <2>4, PlacesAre
      <4>2. k + ((w + 1) - m) = (k + (w - m)) + 1
        BY <1>1, <3>1, <4>1
      <4> QED
        BY <2>1, <3>1, <4>2
    <3> QED
      BY <1>6, <2>2, <3>1, <3>2, <3>3 DEF Attempt
  <2> QED
    BY <1>1, <1>2, <1>6, <2>1, <2>2, <2>3, <2>4 DEF AnswerInv
<1>7. CASE /\ More /\ ~Star /\ ~Fits /\ w' = m /\ s' = c /\ c' = c + 1
           /\ UNCHANGED <<arguments, phase, m, result>>
  <2>1. s \notin Places(w)
    BY <1>7, Compared
  <2>2. m # 0
    BY <1>1, <1>7 DEF Inv, RetryInside
  <2>3. Match <=> \E k \in Places(m) : k >= c
    BY <1>1, <2>1, <2>2 DEF AnswerInv
  <2>4. Places(m) \subseteq 1 .. Len(string) + 1 /\ c \in Nat /\ m \in Nat /\ m >= 1
    BY <1>1, <2>2, PlacesAre DEF Attempt
  <2>5. \A k \in Places(m) : k \in Nat /\ (k >= c <=> k = c \/ k >= c + 1)
    BY <1>1, <2>4
  <2>6. Match <=> c \in Places(m) \/ \E k \in Places(m) : k >= c + 1
    BY <2>3, <2>4, <2>5
  <2>7. Places(w)' = Places(m) /\ Places(m)' = Places(m)
    BY <1>1, <1>7 DEF Places
  <2>8. Attempt'
    BY <1>1, <1>7, <2>4, <2>5, <2>7 DEF Attempt
  <2> QED
    BY <1>1, <1>2, <1>7, <2>2, <2>6, <2>7, <2>8 DEF AnswerInv
<1>8. CASE ~More /\ phase' = "trailing" /\ UNCHANGED <<arguments, w, s, m, c, result>>
  <2>1. Places(w)' = Places(w) /\ s = Len(string) + 1
    BY <1>1, <1>8, Compared DEF Places
  <2> QED
    BY <1>1, <1>2, <1>3, <1>8, <2>1 DEF AnswerInv
<1> QED
  BY <1>4, <1>5, <1>6, <1>7, <1>8 DEF Search, RetryFrom

LEMMA AnswerTrailing == ASSUME Inv, AnswerInv, Trailing PROVE AnswerInv'
<1>1. /\ phase = "trailing" /\ wild' = wild /\ string' = string
      /\ s = Len(string) + 1 /\ (Match <=> s \in Places(w))
      /\ ~More
  BY DEF Trailing, Return, AnswerInv, More, At, Inv, TextsKnown, arguments
<1>2. Match' = Match /\ \A i : Matching(wild', string')[i] = Places(i)
  BY <1>1 DEF Match, Places
<1>3. CASE Star /\ w' = w + 1 /\ UNCHANGED <<arguments, phase, s, m, c, result>>
  <2>1. s \in Places(w) <=> s \in Places(w + 1)
    BY <1>1, <1>3, Compared
  <2>2. Places(w)' = Places(w + 1)
    BY <1>1, <1>3 DEF Places
  <2> QED
    BY <1>1, <1>2, <1>3, <2>1, <2>2 DEF AnswerInv
<1>4. CASE ~Star /\ Return(EndOfPattern)
  <2>1. s \in Places(w) <=> EndOfPattern
    BY <1>1, <1>4, Compared DEF EndOfPattern
  <2> QED
    BY <1>1, <1>2, <1>4, <2>1 DEF AnswerInv, Return
<1> QED
  BY <1>3, <1>4 DEF Trailing

\* For every pattern and every name the answer is the meaning of the pattern,
\* although the search gives up all but the last "*" it has passed.
\* (Utils::strcmp)
THEOREM AnswerCorrect == Spec => []AnswerIsMatch
<1>1. AnswerInv /\ Inv /\ [Next]_vars => AnswerInv'
  <2> SUFFICES ASSUME AnswerInv, Inv, [Next]_vars PROVE AnswerInv'
    OBVIOUS
  <2>1. CASE Done \/ UNCHANGED vars
    BY <2>1 DEF Done, vars, arguments, AnswerInv, Attempt, Match, Places
  <2> QED
    BY <2>1, AnswerLiteral, AnswerSearch, AnswerTrailing DEF Next, Step
<1>2. AnswerInv => AnswerIsMatch
  BY DEF AnswerInv, AnswerIsMatch
<1> QED
  BY <1>1, <1>2, AnswerInit, PointersInv, PTL DEF Spec
=============================================================================
