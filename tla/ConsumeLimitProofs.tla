------------------------- MODULE ConsumeLimitProofs -------------------------
(***************************************************************************)
(* The bundles of Consume stay within the limits, whatever the payload     *)
(* lengths, limits, processes and topics.                                  *)
(***************************************************************************)
EXTENDS ConsumeProofs, WellFoundedInduction

-----------------------------------------------------------------------------
(* The size of a bundle, which is defined by recursion.  Induction is by   *)
(* the least counterexample.                                               *)

LEMMA LeastNumber ==
    ASSUME NEW T \in SUBSET Nat, T # {}
    PROVE  \E n \in T : \A m \in T : n <= m
<1> DEFINE R == {p \in Nat \X Nat : p[1] < p[2]}
<1>1. IsWellFoundedOn(R, Nat)
  BY NatLessThanWellFounded DEF OpToRel
<1>2. T \subseteq Nat
  OBVIOUS
<1>3. \A x, y \in Nat : ~(<<y, x>> \in R) => x <= y
  OBVIOUS
<1> HIDE DEF R
<1>4. \E x \in T : \A y \in T : ~(<<y, x>> \in R)
  BY <1>1, <1>2, WFMin
<1> QED BY <1>2, <1>3, <1>4

\* f holds the running totals of the first n payload lengths of b.
Totals(b, f, n) == f = [i \in 0 .. n |-> IF i = 0 THEN 0 ELSE f[i - 1] + PayloadLen[b[i]]]

LEMMA TotalExists ==
    ASSUME NEW b \in Seq(Messages)
    PROVE  \A n \in 0 .. Len(b) : \E f \in [0 .. n -> Nat] : Totals(b, f, n)
<1> DEFINE T == {n \in 0 .. Len(b) : ~ \E f \in [0 .. n -> Nat] : Totals(b, f, n)}
<1> SUFFICES ASSUME T # {} PROVE FALSE
  OBVIOUS
<1>1. PICK n \in T : \A m \in T : n <= m
  <2>1. T \in SUBSET Nat
   OBVIOUS
  <2> HIDE DEF T
  <2> QED BY <2>1, LeastNumber
<1>2. CASE n = 0
  <2>1. [i \in 0 .. 0 |-> 0] \in [0 .. 0 -> Nat] /\ Totals(b, [i \in 0 .. 0 |-> 0], 0)
    BY DEF Totals
  <2> QED BY <1>2, <2>1
<1>3. CASE n # 0
  <2>0. n \in 0 .. Len(b) /\ Len(b) \in Nat
    BY <1>1
  <2>1. n \in Nat /\ n - 1 \in 0 .. Len(b) /\ n - 1 \notin T
    <3>1. n \in Nat /\ n - 1 \in 0 .. Len(b) /\ ~(n <= n - 1)
      BY <2>0, <1>3
    <3> HIDE DEF T
    <3> QED BY <3>1, <1>1
  <2>2. PICK f \in [0 .. n - 1 -> Nat] : Totals(b, f, n - 1)
    BY <2>1
  <2> DEFINE g == [i \in 0 .. n |-> IF i < n THEN f[i] ELSE f[n - 1] + PayloadLen[b[n]]]
  <2>3. b[n] \in Messages /\ PayloadLen[b[n]] \in Nat
    BY <1>1, <1>3, PayloadAssumption
  <2>4. g \in [0 .. n -> Nat]
    <3>1. f[n - 1] + PayloadLen[b[n]] \in Nat
      <4>1. n - 1 \in 0 .. n - 1
        BY <2>1
      <4>2. f[n - 1] \in Nat
        BY <4>1
      <4> QED BY <2>3, <4>2
    <3>2. \A i \in 0 .. n : i < n => f[i] \in Nat
      <4>1. \A i \in 0 .. n : i < n => i \in 0 .. n - 1
        BY <2>1
      <4> QED BY <4>1
    <3> QED BY <3>1, <3>2
  <2>5. Totals(b, g, n)
    <3>1. \A i \in 0 .. n : g[i] = IF i = 0 THEN 0 ELSE g[i - 1] + PayloadLen[b[i]]
      <4> TAKE i \in 0 .. n
      <4>1. CASE i = n
        BY <4>1, <2>1, <1>3
      <4>2. CASE i # n
        <5>1. i \in 0 .. n - 1 /\ g[i] = f[i] /\ (i # 0 => i - 1 \in 0 .. n - 1 /\ g[i - 1] = f[i - 1])
          BY <4>2, <2>1
        <5>2. f[i] = IF i = 0 THEN 0 ELSE f[i - 1] + PayloadLen[b[i]]
          BY <5>1, <2>2 DEF Totals
        <5> QED BY <5>1, <5>2
      <4> QED BY <4>1, <4>2
    <3> QED BY <3>1, <2>4 DEF Totals
  <2> QED BY <1>1, <2>4, <2>5
<1> QED BY <1>2, <1>3

LEMMA TotalUnique ==
    ASSUME NEW b \in Seq(Messages), NEW n \in Nat, NEW k \in Nat, k <= n, n <= Len(b),
           NEW f, NEW g, Totals(b, f, n), Totals(b, g, k)
    PROVE  f[k] = g[k]
<1> DEFINE T == {i \in 0 .. k : f[i] # g[i]}
<1> SUFFICES ASSUME T # {} PROVE FALSE
  OBVIOUS
<1>1. PICK m \in T : \A i \in T : m <= i
  <2>1. T \in SUBSET Nat
   OBVIOUS
  <2> HIDE DEF T
  <2> QED BY <2>1, LeastNumber
<1>2. f[m] = IF m = 0 THEN 0 ELSE f[m - 1] + PayloadLen[b[m]]
  BY <1>1 DEF Totals
<1>3. g[m] = IF m = 0 THEN 0 ELSE g[m - 1] + PayloadLen[b[m]]
  BY <1>1 DEF Totals
<1>4. m # 0 => m - 1 \in 0 .. k /\ m - 1 \notin T
  BY <1>1
<1> QED BY <1>1, <1>2, <1>3, <1>4

LEMMA SizeIsTotal ==
    ASSUME NEW b \in Seq(Messages)
    PROVE \E f \in [0 .. Len(b) -> Nat] : Totals(b, f, Len(b)) /\ messagesSize(b) = f[Len(b)]
<1> DEFINE t == CHOOSE f : Totals(b, f, Len(b))
<1>0. Len(b) \in 0 .. Len(b)
  OBVIOUS
<1>1. \E f \in [0 .. Len(b) -> Nat] : Totals(b, f, Len(b))
  BY <1>0, TotalExists
<1>2. Totals(b, t, Len(b))
  BY <1>1
<1>3. messagesSize(b) = t[Len(b)]
  BY DEF messagesSize, Totals
<1>4. PICK f \in [0 .. Len(b) -> Nat] : Totals(b, f, Len(b))
  BY <1>1
<1>5. t[Len(b)] = f[Len(b)]
  <2> HIDE DEF t
  <2> QED BY <1>0, <1>2, <1>4, TotalUnique
<1> QED BY <1>3, <1>4, <1>5

LEMMA SizeAppend ==
    ASSUME NEW b \in Seq(Messages), NEW m \in Messages
    PROVE messagesSize(Append(b, m)) = messagesSize(b) + PayloadLen[m] /\ messagesSize(b) \in Nat
<1> DEFINE a == Append(b, m)
           N == Len(b)
<1>0. a \in Seq(Messages) /\ Len(a) = N + 1 /\ N \in Nat /\ \A i \in 1 .. N : a[i] = b[i] /\ a[N + 1] = m
  OBVIOUS
<1>1. PICK f \in [0 .. N -> Nat] : Totals(b, f, N) /\ messagesSize(b) = f[N]
  BY SizeIsTotal
<1>2. PICK g \in [0 .. Len(a) -> Nat] : Totals(a, g, Len(a)) /\ messagesSize(a) = g[Len(a)]
  BY <1>0, SizeIsTotal
<1> HIDE DEF a
<1>3. g[N + 1] = g[N] + PayloadLen[a[N + 1]]
  <2>1. N + 1 \in 0 .. N + 1 /\ N + 1 # 0 /\ N + 1 - 1 = N
    BY <1>0
  <2>2. \A i \in 0 .. N + 1 : g[i] = IF i = 0 THEN 0 ELSE g[i - 1] + PayloadLen[a[i]]
    BY <1>0, <1>2 DEF Totals
  <2> QED BY <2>1, <2>2
<1>4. Totals(a, f, N)
  BY <1>0, <1>1 DEF Totals
<1>5. g[N] = f[N]
  BY <1>0, <1>2, <1>4, TotalUnique
<1>6. a[N + 1] = m
  BY <1>0 DEF a
<1> QED BY <1>0, <1>1, <1>2, <1>3, <1>5, <1>6 DEF a

LEMMA SizeEmpty == messagesSize(<<>>) = 0
  <1>1. <<>> \in Seq(Messages) /\ Len(<<>>) = 0
    OBVIOUS
  <1>2. PICK f \in [0 .. 0 -> Nat] : Totals(<<>>, f, 0) /\ messagesSize(<<>>) = f[0]
    BY <1>1, SizeIsTotal
  <1> QED BY <1>2 DEF Totals

-----------------------------------------------------------------------------
(* The limits. *)

\* The bundle of topic t in process c is below both limits.
Within(c, t) ==
    /\ BundleLimit >= 0 => Len(messages[c][t]) < BundleLimit
    /\ messagesSize(messages[c][t]) < BundleSize

SizesOf(c) == \A t \in Topics : messageSizes[c][t] >= messagesSize(messages[c][t])

\* A bundle that has reached a limit is one the process is about to erase.
BundlesOf(c) ==
    \A t \in Topics :
        /\ messages[c][t] # <<>>
        /\ pc[c] = "loop" \/ (pc[c] = "stash" /\ t \notin todo[c])
        => Within(c, t)

LimitInv == WrapperInv /\ \A c \in Consumers : SizesOf(c) /\ BundlesOf(c)

LEMMA LimitInit == Init => LimitInv
<1> SUFFICES ASSUME Init PROVE LimitInv
  OBVIOUS
<1>1. \A c \in Consumers, t \in Topics : messages[c][t] = <<>> /\ messageSizes[c][t] = 0
  BY DEF Init, NoMessages, NoSizes
<1> QED
  BY <1>1, WrapperInit, SizeEmpty DEF LimitInv, SizesOf, BundlesOf

LEMMA LimitFrame ==
    ASSUME NEW c \in Consumers, SizesOf(c), BundlesOf(c),
           messages'[c] = messages[c], messageSizes'[c] = messageSizes[c],
           pc'[c] = pc[c], todo'[c] = todo[c]
    PROVE  SizesOf(c)' /\ BundlesOf(c)'
  BY DEF SizesOf, BundlesOf, Within

\* Nothing is buffered, so nothing exceeds a limit.
LEMMA LimitEmpty ==
    ASSUME TypeOK', NEW c \in Consumers, \A t \in Topics : messages'[c][t] = <<>>
    PROVE  SizesOf(c)' /\ BundlesOf(c)'
<1>1. \A t \in Topics : messageSizes'[c][t] \in Nat
  BY DEF TypeOK
<1> QED
  BY <1>1, SizeEmpty DEF SizesOf, BundlesOf

\* A stash begins with all bundles that are not empty.
LEMMA LimitStash ==
    ASSUME NEW c \in Consumers, SizesOf(c), UNCHANGED <<messages, messageSizes>>,
           (pc'[c] = "stash" /\ todo'[c] = Pending(c)) \/ pc'[c] = "close"
    PROVE  SizesOf(c)' /\ BundlesOf(c)'
  BY DEF SizesOf, BundlesOf, Pending

LEMMA LimitReceive ==
    ASSUME TypeOK, NEW c \in Consumers, SizesOf(c), BundlesOf(c),
           NEW p \in Partitions, ConsumeMessage(c, p)
    PROVE  SizesOf(c)' /\ BundlesOf(c)'
<1> DEFINE m   == <<p, position[c][p]>>
           t   == TopicOf[p]
           buf == Append(messages[c][t], m)
           len == messageSizes[c][t] + PayloadLen[m]
<1>1. m \in Messages /\ t \in Topics /\ PayloadLen[m] \in Nat
  <2>1. position[c][p] \in 0 .. LogEnd - 1
    BY NatAssumption DEF ConsumeMessage, Receive, TypeOK
  <2>2. m \in Messages /\ t \in Topics
    BY <2>1, TopicAssumption DEF Messages, Offsets
  <2> QED
    BY <2>2, PayloadAssumption
<1>2. /\ messages' = [messages EXCEPT ![c][t] = buf]
      /\ messageSizes' = [messageSizes EXCEPT ![c][t] = len]
      /\ pc[c] = "loop"
  BY DEF ConsumeMessage, Receive, Turn
<1>3. \/ pc' = [pc EXCEPT ![c] = "stash"] /\ todo' = [todo EXCEPT ![c] = {t}]
      \/ ~LimitReached(Len(buf)) /\ ~SizeReached(len) /\ UNCHANGED <<pc, todo>>
  BY DEF ConsumeMessage, Receive, BeginStash
<1>4. messages[c][t] \in Seq(Messages) /\ messageSizes[c][t] \in Nat
  BY <1>1 DEF TypeOK
<1>5. /\ messagesSize(buf) = messagesSize(messages[c][t]) + PayloadLen[m]
      /\ messagesSize(messages[c][t]) \in Nat
  BY <1>1, <1>4, SizeAppend
<1>6. /\ messages'[c][t] = buf /\ messageSizes'[c][t] = len
      /\ \A u \in Topics \ {t} : /\ messages'[c][u] = messages[c][u]
                                 /\ messageSizes'[c][u] = messageSizes[c][u]
  <2>1. messages \in [Consumers -> [Topics -> Seq(Messages)]]
    BY DEF TypeOK
  <2>2. messageSizes \in [Consumers -> [Topics -> Nat]]
    BY DEF TypeOK
  <2> HIDE DEF t, buf, len
  <2> QED
    BY <1>1, <1>2, <2>1, <2>2, NestedExcept
<1>7. len >= messagesSize(buf) /\ len \in Nat /\ messagesSize(buf) \in Nat
  BY <1>1, <1>4, <1>5 DEF SizesOf
<1>8. SizesOf(c)'
  <2> HIDE DEF t, buf, len
  <2> QED
    BY <1>6, <1>7 DEF SizesOf
<1>9. CASE pc' = [pc EXCEPT ![c] = "stash"] /\ todo' = [todo EXCEPT ![c] = {t}]
  <2>1. pc'[c] = "stash" /\ todo'[c] = {t}
    BY <1>9 DEF TypeOK
  <2> HIDE DEF t, buf, len
  <2> QED
    BY <1>2, <1>6, <1>8, <2>1 DEF BundlesOf, Within
<1>10. CASE ~LimitReached(Len(buf)) /\ ~SizeReached(len) /\ UNCHANGED <<pc, todo>>
  <2>1. BundleLimit >= 0 => Len(buf) < BundleLimit
    <3>1. Len(buf) \in Nat
      BY <1>1, <1>4
    <3> HIDE DEF buf
    <3> QED
      BY <1>10, <3>1, NatAssumption DEF LimitReached
  <2>2. messagesSize(buf) < BundleSize
    <3> HIDE DEF buf, len
    <3> QED
      BY <1>7, <1>10, NatAssumption DEF SizeReached
  <2> HIDE DEF t, buf, len
  <2> QED
    BY <1>2, <1>6, <1>8, <1>10, <2>1, <2>2 DEF BundlesOf, Within
<1> QED
  BY <1>3, <1>9, <1>10

LEMMA LimitErase ==
    ASSUME TypeOK, NEW c \in Consumers, SizesOf(c), BundlesOf(c), EraseBundle(c)
    PROVE  SizesOf(c)' /\ BundlesOf(c)'
<1> DEFINE t == current[c]
<1>1. /\ t \in Topics /\ pc[c] = "stash"
      /\ messages' = [messages EXCEPT ![c][t] = <<>>]
      /\ messageSizes' = [messageSizes EXCEPT ![c] = SizesAfter(c, t)]
      /\ todo' = [todo EXCEPT ![c] = todo[c] \ {t}]
  BY DEF EraseBundle, TypeOK
<1>2. /\ messages'[c][t] = <<>> /\ todo'[c] = todo[c] \ {t}
      /\ messageSizes'[c][t] \in Nat
      /\ \A u \in Topics \ {t} : /\ messages'[c][u] = messages[c][u]
                                 /\ messageSizes'[c][u] = messageSizes[c][u]
  BY <1>1 DEF SizesAfter, TypeOK
<1>3. SizesOf(c)'
  BY <1>2, SizeEmpty DEF SizesOf
<1>4. pc'[c] = "loop" => todo[c] \subseteq {t}
  BY DEF EraseBundle, TypeOK
<1> QED
  BY <1>1, <1>2, <1>3, <1>4 DEF BundlesOf, Within

LEMMA LimitStep ==
    ASSUME WrapperInv, NEW d \in Consumers, SizesOf(d), BundlesOf(d), Next
    PROVE  SizesOf(d)' /\ BundlesOf(d)'
<1>0. TypeOK
  BY DEF WrapperInv
<1>a. TypeOK'
  BY <1>0, TypeNext
<1>1. ASSUME NEW c \in Consumers, c # d,
             \/ Start(c) \/ Signal(c) \/ LoopStep(c) \/ Stash(c) \/ Close(c) \/ Crash(c)
      PROVE  SizesOf(d)' /\ BundlesOf(d)'
  <2>1. /\ pc'[d] = pc[d] /\ todo'[d] = todo[d] /\ messages'[d] = messages[d]
        /\ messageSizes'[d] = messageSizes[d]
    BY <1>0, <1>1
    DEF Start, Signal, LoopStep, ConsumeError, MemoryRestart, Stop, Leave, BeginStash, BeginClose,
        Turn, ConsumeMessage, Receive, Stash, PutBundle, PutFails, SkipBundle, Offering,
        EraseBundle, Close, LeaveGroup, Crash, TypeOK
  <2> QED
    BY <2>1, LimitFrame
<1>2. CASE Start(d)
  <2>1. pc[d] = "down" /\ messages' = messages
    BY <1>2 DEF Start
  <2>2. \A t \in Topics : messages'[d][t] = <<>>
    BY <2>1 DEF WrapperInv, NoWrapperOutlivesConsumer, Pending
  <2> QED
    BY <1>a, <2>2, LimitEmpty
<1>3. CASE Signal(d)
  BY <1>3, LimitFrame DEF Signal
<1>4. ASSUME NEW p \in Partitions, ConsumeMessage(d, p) PROVE SizesOf(d)' /\ BundlesOf(d)'
  BY <1>0, <1>4, LimitReceive
<1>5. CASE ConsumeError(d)
  <2>1. UNCHANGED <<messages, messageSizes>>
    BY <1>5 DEF ConsumeError
  <2>2. CASE BeginStash(d, Pending(d), "idle")
    BY <1>0, <2>1, <2>2, LimitStash DEF BeginStash, TypeOK
  <2>3. CASE UNCHANGED <<pc, todo, reason>>
    BY <2>1, <2>3, LimitFrame
  <2> QED
    BY <1>5, <2>2, <2>3 DEF ConsumeError
<1>6. CASE MemoryRestart(d) \/ Stop(d)
  <2>1. PICK why \in {"restart", "stop"} : Leave(d, why)
    BY <1>6 DEF MemoryRestart, Stop
  <2>2. UNCHANGED <<messages, messageSizes>>
    BY <2>1 DEF Leave
  <2>3. CASE BeginStash(d, Pending(d), why)
    BY <1>0, <2>2, <2>3, LimitStash DEF BeginStash, TypeOK
  <2>4. CASE BeginClose(d, why)
    BY <1>0, <2>2, <2>4, LimitStash DEF BeginClose, TypeOK
  <2> QED
    BY <2>1, <2>3, <2>4 DEF Leave
<1>7. ASSUME NEW t \in Topics, PutBundle(d, t) \/ PutFails(d, t) \/ SkipBundle(d, t)
      PROVE  SizesOf(d)' /\ BundlesOf(d)'
  BY <1>7, LimitFrame DEF PutBundle, PutFails, SkipBundle, Offering
<1>8. CASE EraseBundle(d)
  BY <1>0, <1>8, LimitErase
<1>9. CASE Close(d)
  <2>1. pc[d] = "close" /\ messages' = messages
    BY <1>9 DEF Close, LeaveGroup
  <2>2. \A t \in Topics : messages'[d][t] = <<>>
    BY <2>1 DEF WrapperInv, NoWrapperOutlivesConsumer, Pending
  <2> QED
    BY <1>a, <2>2, LimitEmpty
<1>10. CASE Crash(d)
  <2>1. \A t \in Topics : messages'[d][t] = <<>>
    BY <1>0, <1>10 DEF Crash, NoMessages, TypeOK
  <2> QED
    BY <1>a, <2>1, LimitEmpty
<1>11. ASSUME NEW c \in Consumers, CommitDelivered(c) \/ CommitLost(c)
       PROVE  SizesOf(d)' /\ BundlesOf(d)'
  BY <1>11, LimitFrame DEF CommitDelivered, CommitLost, process
<1>12. ASSUME NEW N \in SUBSET Consumers \ {{}}, NEW owner \in [Partitions -> N],
              Rebalance(N, owner)
       PROVE  SizesOf(d)' /\ BundlesOf(d)'
  BY <1>12, LimitFrame DEF Rebalance, process
<1>13. CASE AllExited \/ \E p \in Partitions : Produce(p)
  BY <1>13, LimitFrame DEF AllExited, Produce, vars, process
<1> QED
  BY <1>1, <1>2, <1>3, <1>4, <1>5, <1>6, <1>7, <1>8, <1>9, <1>10, <1>11, <1>12, <1>13
  DEF Next, LoopStep, Stash

LEMMA LimitNext == LimitInv /\ [Next]_vars => LimitInv'
<1> SUFFICES ASSUME LimitInv, [Next]_vars PROVE LimitInv'
  OBVIOUS
<1>1. WrapperInv /\ WrapperInv'
  BY WrapperNext DEF LimitInv
<1>2. CASE Next
  BY <1>1, <1>2, LimitStep DEF LimitInv
<1>3. CASE UNCHANGED vars
  BY <1>1, <1>3, LimitFrame DEF LimitInv, vars, process
<1> QED
  BY <1>2, <1>3

LEMMA LimitCorrect == Spec => []LimitInv
<1> QED
  BY LimitInit, LimitNext, PTL DEF Spec

\* The cached length of a topic is at least the length of its buffer, so the
\* size test of run_once never comes too late.
THEOREM SizesCorrect == Spec => []SizesCoverBuffer
<1>1. LimitInv => SizesCoverBuffer
  BY DEF LimitInv, SizesOf, SizesCoverBuffer
<1> QED
  BY <1>1, LimitCorrect, PTL

\* While a process waits for a record, each of its bundles is below the limits
\* on the number of records and on their length.
THEOREM BundlesCorrect == Spec => []BundleWithinLimits
<1>1. LimitInv => BundleWithinLimits
  BY DEF LimitInv, BundlesOf, Within, BundleWithinLimits
<1> QED
  BY <1>1, LimitCorrect, PTL
=============================================================================
