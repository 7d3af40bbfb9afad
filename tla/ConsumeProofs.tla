--------------------------- MODULE ConsumeProofs ---------------------------
(***************************************************************************)
(* Proofs about Consume, for any number of processes, topics, partitions   *)
(* and records, any limits and any number of disruptions.                  *)
(***************************************************************************)
EXTENDS ConsumeProperties, SequenceTheorems, TLAPS

-----------------------------------------------------------------------------
(* Type correctness. *)

LEMMA TypeInit == Init => TypeOK
  BY NatAssumption, TopicAssumption
  DEF Init, TypeOK, NoMessages, NoSizes, AtStart, Reasons, Messages, Offsets

\* The three variables that say where a process is in a stash.
StashTypes ==
    /\ pc \in [Consumers -> {"down", "loop", "stash", "close", "exited"}]
    /\ todo \in [Consumers -> SUBSET Topics]
    /\ reason \in [Consumers -> Reasons]

LEMMA BeginStashTypes ==
    ASSUME StashTypes, NEW c \in Consumers, NEW T \in SUBSET Topics, NEW why \in Reasons,
           BeginStash(c, T, why)
    PROVE  StashTypes'
  BY DEF StashTypes, BeginStash, Reasons

LEMMA LeaveTypes ==
    ASSUME StashTypes, NEW c \in Consumers, NEW why \in Reasons, Leave(c, why)
    PROVE  StashTypes'
<1>1. Pending(c) \in SUBSET Topics
  BY DEF Pending
<1>2. CASE BeginStash(c, Pending(c), why)
  BY <1>1, <1>2, BeginStashTypes
<1>3. CASE BeginClose(c, why)
  BY <1>3 DEF BeginClose, StashTypes, Reasons
<1> QED
  BY <1>2, <1>3 DEF Leave

LEMMA TypeNext == TypeOK /\ [Next]_vars => TypeOK'
<1> SUFFICES ASSUME TypeOK, [Next]_vars PROVE TypeOK'
  OBVIOUS
<1> USE NatAssumption, TopicAssumption, PayloadAssumption
<1>1. ASSUME NEW c \in Consumers, Start(c) PROVE TypeOK'
  BY <1>1 DEF Start, TypeOK, client, outcome
<1>2. ASSUME NEW c \in Consumers, Signal(c) PROVE TypeOK'
  BY <1>2 DEF Signal, TypeOK, client, outcome
<1>3. ASSUME NEW c \in Consumers, NEW p \in Partitions, ConsumeMessage(c, p) PROVE TypeOK'
  <2> DEFINE m == <<p, position[c][p]>>
             t == TopicOf[p]
  <2>0. ConsumeMessage(c, p)
    BY <1>3
  <2>1. m \in Messages /\ t \in Topics /\ PayloadLen[m] \in Nat
    BY <2>0 DEF ConsumeMessage, Receive, TypeOK, Messages, Offsets
  <2>2. messages' \in [Consumers -> [Topics -> Seq(Messages)]]
    <3>1. Append(messages[c][t], m) \in Seq(Messages)
      BY <2>1 DEF TypeOK
    <3>2. messages' = [messages EXCEPT ![c][t] = Append(messages[c][t], m)]
      BY <2>0 DEF ConsumeMessage, Receive
    <3> HIDE DEF m, t
    <3> QED
      BY <2>1, <3>1, <3>2 DEF TypeOK
  <2>3. messageSizes' \in [Consumers -> [Topics -> Nat]]
    <3>1. messageSizes[c][t] + PayloadLen[m] \in Nat
      BY <2>1 DEF TypeOK
    <3>2. messageSizes' = [messageSizes EXCEPT ![c][t] = messageSizes[c][t] + PayloadLen[m]]
      BY <2>0 DEF ConsumeMessage, Receive
    <3> HIDE DEF m, t
    <3> QED
      BY <2>1, <3>1, <3>2 DEF TypeOK
  <2>4. position' \in [Consumers -> [Partitions -> 0 .. LogEnd]]
    BY <2>0 DEF ConsumeMessage, Receive, TypeOK
  <2>5. disruptions' \in 0 .. MaxDisruptions
    BY <2>0 DEF ConsumeMessage, Receive, TypeOK
  <2>6. mem_test_counter' \in [Consumers -> 0 .. MemTestEvery]
    BY <2>0 DEF ConsumeMessage, Receive, Turn, NextCount, TypeOK
  <2>7. /\ pc' \in [Consumers -> {"down", "loop", "stash", "close", "exited"}]
        /\ todo' \in [Consumers -> SUBSET Topics]
        /\ reason' \in [Consumers -> Reasons]
    <3>1. StashTypes /\ {t} \in SUBSET Topics /\ "full" \in Reasons
      BY <2>1 DEF TypeOK, StashTypes, Reasons
    <3>2. BeginStash(c, {t}, "full") \/ UNCHANGED <<pc, todo, reason>>
      BY <2>0 DEF ConsumeMessage, Receive
    <3>3. StashTypes'
      BY <3>1, <3>2, BeginStashTypes DEF StashTypes
    <3> QED
      BY <3>3 DEF StashTypes
  <2>8. UNCHANGED <<run_system, current, assigned, commitQueue, produced, members,
                    committed, stored, dropped, passed>>
    BY <2>0 DEF ConsumeMessage, Receive, outcome
  <2> QED
    BY <2>2, <2>3, <2>4, <2>5, <2>6, <2>7, <2>8 DEF TypeOK
<1>4. ASSUME NEW c \in Consumers, ConsumeError(c) PROVE TypeOK'
  <2>1. StashTypes /\ Pending(c) \in SUBSET Topics /\ "idle" \in Reasons
    BY DEF TypeOK, StashTypes, Pending, Reasons
  <2>2. BeginStash(c, Pending(c), "idle") \/ UNCHANGED <<pc, todo, reason>>
    BY <1>4 DEF ConsumeError
  <2>3. StashTypes'
    BY <2>1, <2>2, BeginStashTypes DEF StashTypes
  <2>4. mem_test_counter' \in [Consumers -> 0 .. MemTestEvery]
    BY <1>4 DEF ConsumeError, Turn, NextCount, TypeOK
  <2> QED
    BY <1>4, <2>3, <2>4 DEF ConsumeError, TypeOK, StashTypes, client, outcome
<1>5. ASSUME NEW c \in Consumers, NEW why \in {"restart", "stop"}, Leave(c, why)
      PROVE  TypeOK'
  <2>1. StashTypes /\ why \in Reasons
    BY DEF TypeOK, StashTypes, Reasons
  <2>2. StashTypes'
    BY <1>5, <2>1, LeaveTypes
  <2> QED
    BY <1>5, <2>2 DEF Leave, TypeOK, StashTypes, client, outcome
<1>6. ASSUME NEW c \in Consumers, MemoryRestart(c) \/ Stop(c) PROVE TypeOK'
  BY <1>5, <1>6 DEF MemoryRestart, Stop
<1>7. ASSUME NEW c \in Consumers, NEW t \in Topics, PutBundle(c, t) PROVE TypeOK'
  <2>1. ToSet(messages[c][t]) \subseteq Messages
    BY DEF TypeOK, ToSet
  <2> QED
    BY <1>7, <2>1 DEF PutBundle, Offering, TypeOK, client
<1>8. ASSUME NEW c \in Consumers, NEW t \in Topics, PutFails(c, t) PROVE TypeOK'
  BY <1>8 DEF PutFails, Offering, TypeOK, client, outcome
<1>9. ASSUME NEW c \in Consumers, NEW t \in Topics, SkipBundle(c, t) PROVE TypeOK'
  BY <1>9 DEF SkipBundle, Offering, TypeOK, client, outcome
<1>10. ASSUME NEW c \in Consumers, EraseBundle(c) PROVE TypeOK'
  <2> DEFINE t == current[c]
  <2>0. EraseBundle(c) /\ t \in Topics
    BY <1>10 DEF EraseBundle, TypeOK
  <2>1. ToSet(messages[c][t]) \subseteq Messages
    BY <2>0 DEF TypeOK, ToSet
  <2>2. commitQueue' \in [Consumers -> Seq(Messages)]
    BY <2>0 DEF EraseBundle, CommitOrder, TypeOK
  <2>3. messages' \in [Consumers -> [Topics -> Seq(Messages)]]
    BY <2>0 DEF EraseBundle, TypeOK
  <2>4. messageSizes' \in [Consumers -> [Topics -> Nat]]
    BY <2>0 DEF EraseBundle, SizesAfter, TypeOK
  <2>5. dropped' \subseteq Messages
    BY <2>0, <2>1 DEF EraseBundle, TypeOK
  <2>6. /\ pc' \in [Consumers -> {"down", "loop", "stash", "close", "exited"}]
        /\ todo' \in [Consumers -> SUBSET Topics]
        /\ current' \in [Consumers -> Topics \cup {NoTopic}]
        /\ reason' \in [Consumers -> Reasons]
    BY <2>0 DEF EraseBundle, TypeOK, Reasons
  <2>7. UNCHANGED <<run_system, mem_test_counter, assigned, position, produced, members,
                    committed, stored, passed, disruptions>>
    BY <2>0 DEF EraseBundle
  <2> QED
    BY <2>2, <2>3, <2>4, <2>5, <2>6, <2>7 DEF TypeOK
<1>11. ASSUME NEW c \in Consumers, Close(c) PROVE TypeOK'
  <2>1. AtStart \in [Partitions -> 0 .. LogEnd] /\ NoSizes \in [Topics -> Nat]
    BY DEF AtStart, NoSizes
  <2>2. LeaveGroup(c) /\ AfterRun(reason[c]) \in {"down", "exited"}
    BY <1>11 DEF Close, AfterRun
  <2>3. UNCHANGED <<run_system, mem_test_counter, messages, todo, current, produced,
                    committed, stored, dropped, passed, disruptions>>
    BY <2>2 DEF LeaveGroup, outcome
  <2> QED
    BY <2>1, <2>2, <2>3 DEF LeaveGroup, TypeOK, Reasons
<1>12. ASSUME NEW c \in Consumers, Crash(c) PROVE TypeOK'
  BY <1>12 DEF Crash, Disrupted, NoMessages, NoSizes, AtStart, TypeOK, outcome, Reasons
<1>13. ASSUME NEW c \in Consumers, CommitDelivered(c) PROVE TypeOK'
  <2>1. Head(commitQueue[c]) \in Messages /\ Tail(commitQueue[c]) \in Seq(Messages)
    BY <1>13 DEF CommitDelivered, TypeOK
  <2>2. committed' \in [Partitions -> 0 .. LogEnd]
    <3> DEFINE m == Head(commitQueue[c])
    <3>1. m[1] \in Partitions /\ m[2] + 1 \in 0 .. LogEnd
      BY <2>1 DEF Messages, Offsets
    <3>2. committed' = [committed EXCEPT ![m[1]] = m[2] + 1]
      BY <1>13 DEF CommitDelivered
    <3> HIDE DEF m
    <3> QED
      BY <3>1, <3>2 DEF TypeOK
  <2> QED
    BY <1>13, <2>1, <2>2 DEF CommitDelivered, TypeOK, process, outcome
<1>14. ASSUME NEW c \in Consumers, CommitLost(c) PROVE TypeOK'
  <2>1. Tail(commitQueue[c]) \in Seq(Messages)
    BY <1>14 DEF CommitLost, TypeOK
  <2> QED
    BY <1>14, <2>1 DEF CommitLost, Disrupted, TypeOK, process, outcome
<1>15. ASSUME NEW N \in SUBSET Consumers \ {{}}, NEW owner \in [Partitions -> N],
              Rebalance(N, owner)
       PROVE  TypeOK'
  BY <1>15 DEF Rebalance, StartOffset, PassedOver, Disrupted, TypeOK, process
<1>16. ASSUME NEW p \in Partitions, Produce(p) PROVE TypeOK'
  BY <1>16 DEF Produce, TypeOK, process, client, outcome
<1>17. CASE AllExited \/ UNCHANGED vars
  BY <1>17 DEF AllExited, vars, process, client, outcome, TypeOK
<1> QED
  BY <1>1, <1>2, <1>3, <1>4, <1>5, <1>6, <1>7, <1>8, <1>9, <1>10, <1>11, <1>12, <1>13,
     <1>14, <1>15, <1>16, <1>17
  DEF Next, LoopStep, Stash

\* Every state has the types of TypeOK.
THEOREM TypeCorrect == Spec => []TypeOK
<1> QED
  BY TypeInit, TypeNext, PTL DEF Spec
-----------------------------------------------------------------------------
(* What is committed is accounted for: settled, or passed over before the  *)
(* first commit.  The argument follows a record through the process: what  *)
(* precedes the reader's position is accounted for or buffered             *)
(* (NothingSkipped), hence what precedes a buffered record is accounted    *)
(* for or sits in the same bundle (BufferedWithoutGap), hence erasing a    *)
(* whole bundle queues commits that cover accounted records only           *)
(* (QueuedIsSettled), hence so does the committed offset.                  *)

LEMMA AppendSet ==
    ASSUME NEW S, NEW s \in Seq(S), NEW e \in S
    PROVE  ToSet(Append(s, e)) = ToSet(s) \cup {e}
<1>1. /\ DOMAIN Append(s, e) = 1 .. Len(s) + 1
      /\ DOMAIN s = 1 .. Len(s)
      /\ Len(s) \in Nat
  BY AppendProperties, LenProperties, Z3
<1>2. \A i \in 1 .. Len(s) : Append(s, e)[i] = s[i]
  BY AppendProperties, LenProperties
<1>3. Append(s, e)[Len(s) + 1] = e
  BY AppendProperties, LenProperties
<1>4. \A i \in 1 .. Len(s) + 1 : i \in 1 .. Len(s) \/ i = Len(s) + 1
  BY <1>1
<1> QED
  BY <1>1, <1>2, <1>3, <1>4 DEF ToSet

LEMMA ConcatSet ==
    ASSUME NEW S, NEW s \in Seq(S), NEW t \in Seq(S)
    PROVE  ToSet(s \o t) \subseteq ToSet(s) \cup ToSet(t)
<1>1. /\ DOMAIN s = 1 .. Len(s) /\ Len(s) \in Nat
      /\ DOMAIN t = 1 .. Len(t) /\ Len(t) \in Nat
      /\ DOMAIN (s \o t) = 1 .. Len(s) + Len(t)
  BY LenProperties, ConcatProperties, Z3
<1>2. ASSUME NEW i \in 1 .. Len(s) + Len(t)
      PROVE  (s \o t)[i] \in ToSet(s) \cup ToSet(t)
  <2>1. CASE i <= Len(s)
    <3>1. i \in 1 .. Len(s) /\ (s \o t)[i] = s[i]
      BY <1>1, <2>1, ConcatProperties
    <3> QED
      BY <1>1, <3>1 DEF ToSet
  <2>2. CASE i > Len(s)
    <3>1. i - Len(s) \in 1 .. Len(t) /\ ~(i <= Len(s))
      BY <1>1, <2>2
    <3>2. (s \o t)[i] = t[i - Len(s)]
      BY <3>1, ConcatProperties
    <3> QED
      BY <1>1, <3>1, <3>2 DEF ToSet
  <2> QED
    BY <1>1, <2>1, <2>2
<1> QED
  BY <1>1, <1>2 DEF ToSet

LEMMA TailSet ==
    ASSUME NEW S, NEW s \in Seq(S), s # <<>>
    PROVE  Head(s) \in ToSet(s) /\ ToSet(Tail(s)) \subseteq ToSet(s)
<1>1. Len(s) \in Nat \ {0} /\ DOMAIN s = 1 .. Len(s) /\ Head(s) = s[1]
  BY EmptySeq, LenProperties
<1>2. /\ Len(Tail(s)) = Len(s) - 1
      /\ DOMAIN Tail(s) = 1 .. Len(s) - 1
      /\ \A i \in 1 .. Len(Tail(s)) : Tail(s)[i] = s[i + 1]
  BY <1>1, HeadTailProperties, LenProperties
<1>3. \A i \in 1 .. Len(s) - 1 : i + 1 \in 1 .. Len(s) /\ Tail(s)[i] = s[i + 1]
  BY <1>1, <1>2
<1> QED
  BY <1>1, <1>2, <1>3 DEF ToSet

LEMMA NestedExcept ==
    ASSUME NEW A, NEW B, NEW V, NEW f \in [A -> [B -> V]], NEW a \in A, NEW b \in B, NEW v
    PROVE  /\ [f EXCEPT ![a][b] = v][a][b] = v
           /\ \A d \in A, u \in B :
                 ~(d = a /\ u = b) => [f EXCEPT ![a][b] = v][d][u] = f[d][u]
  OBVIOUS

LEMMA EmptySet == ToSet(<<>>) = {}
  BY DEF ToSet

LEMMA SafetyInit == Init => SafetyInv
<1> SUFFICES ASSUME Init PROVE SafetyInv
  OBVIOUS
<1>1. TypeOK
  BY TypeInit
<1>2. /\ \A c \in Consumers : assigned[c] = {} /\ commitQueue[c] = <<>> /\ current[c] = NoTopic
      /\ \A c \in Consumers, t \in Topics : messages[c][t] = <<>>
      /\ \A p \in Partitions : committed[p] = 0
      /\ dropped = {} /\ passed = {}
  BY DEF Init, NoMessages, AtStart
<1>3. CommittedIsSettled
  BY <1>2 DEF CommittedIsSettled
<1> QED
  BY <1>1, <1>2, <1>3, EmptySet
  DEF SafetyInv, QueuedIsSettled, BufferedWithoutGap, NothingSkipped, OfferedMayBeErased,
      PassedByLatest

\* A step that moves no record and no offset keeps the invariant.
LEMMA SafetyFrame ==
    ASSUME SafetyInv, TypeOK',
           UNCHANGED <<messages, current, assigned, position, commitQueue, committed,
                       stored, dropped, passed>>,
           \A c \in Consumers : pc[c] = "stash" => pc'[c] = "stash"
    PROVE  SafetyInv'
<1>1. CommittedIsSettled'
  BY DEF SafetyInv, CommittedIsSettled, Accounted, Settled
<1>2. QueuedIsSettled'
  BY DEF SafetyInv, QueuedIsSettled, Accounted, Settled
<1>3. BufferedWithoutGap'
  BY DEF SafetyInv, BufferedWithoutGap, Accounted, Settled
<1>4. NothingSkipped'
  BY DEF SafetyInv, NothingSkipped, Accounted, Settled
<1>5. OfferedMayBeErased'
  BY DEF SafetyInv, OfferedMayBeErased
<1> QED
  BY <1>1, <1>2, <1>3, <1>4, <1>5 DEF SafetyInv, PassedByLatest

LEMMA SafetyConsume ==
    ASSUME SafetyInv, TypeOK', NEW c \in Consumers, NEW p \in Partitions, ConsumeMessage(c, p)
    PROVE  SafetyInv'
<1> DEFINE m == <<p, position[c][p]>>
           t == TopicOf[p]
<1>1. /\ t \in Topics
      /\ m \in Messages
      /\ position[c][p] \in Nat
      /\ p \in assigned[c]
      /\ current[c] = NoTopic
  BY TopicAssumption, NatAssumption
  DEF ConsumeMessage, Receive, Turn, SafetyInv, TypeOK, OfferedMayBeErased, Messages, Offsets
<1>2. /\ messages[c][t] \in Seq(Messages)
      /\ messages' = [messages EXCEPT ![c][t] = Append(messages[c][t], m)]
      /\ position' = [position EXCEPT ![c][p] = position[c][p] + 1]
      /\ UNCHANGED <<current, assigned, commitQueue, committed, stored, dropped, passed>>
  BY <1>1 DEF ConsumeMessage, Receive, SafetyInv, TypeOK, outcome
<1>3. /\ messages'[c][t] = Append(messages[c][t], m)
      /\ \A d \in Consumers, u \in Topics :
            ~(d = c /\ u = t) => messages'[d][u] = messages[d][u]
  <2>1. messages \in [Consumers -> [Topics -> Seq(Messages)]]
    BY DEF SafetyInv, TypeOK
  <2> HIDE DEF m, t
  <2> QED
    BY <1>1, <1>2, <2>1, NestedExcept
<1>4. /\ position'[c][p] = position[c][p] + 1
      /\ \A d \in Consumers, q \in Partitions :
            ~(d = c /\ q = p) => position'[d][q] = position[d][q]
  <2>1. position \in [Consumers -> [Partitions -> 0 .. LogEnd]]
    BY DEF SafetyInv, TypeOK
  <2> QED
    BY <1>2, <2>1, NestedExcept
<1>5. CommittedIsSettled' /\ QueuedIsSettled'
  BY <1>2 DEF SafetyInv, CommittedIsSettled, QueuedIsSettled, Accounted, Settled
<1>6. \A o \in 0 .. position[c][p] - 1 : <<p, o>> \in Accounted \cup ToSet(messages[c][t])
  BY <1>1 DEF SafetyInv, NothingSkipped
<1>7. ToSet(messages'[c][t]) = ToSet(messages[c][t]) \cup {m}
  <2> HIDE DEF m, t
  <2> QED
    BY <1>1, <1>2, <1>3, AppendSet
<1>8. BufferedWithoutGap'
  <2> SUFFICES ASSUME NEW d \in Consumers, NEW u \in Topics, NEW n \in ToSet(messages'[d][u]),
                      NEW o \in 0 .. n[2]
               PROVE  <<n[1], o>> \in Accounted \cup ToSet(messages'[d][u])
    BY <1>2 DEF BufferedWithoutGap, Accounted, Settled
  <2>1. CASE ~(d = c /\ u = t)
    BY <1>3, <2>1 DEF SafetyInv, BufferedWithoutGap
  <2>2. CASE d = c /\ u = t /\ n # m
    BY <1>1, <1>7, <2>2 DEF SafetyInv, BufferedWithoutGap
  <2>3. CASE d = c /\ u = t /\ n = m /\ o # position[c][p]
    <3>1. o \in 0 .. position[c][p] - 1
      BY <1>1, <2>3
    <3> QED
      BY <1>6, <1>7, <2>3, <3>1
  <2>4. CASE d = c /\ u = t /\ n = m /\ o = position[c][p]
    BY <1>7, <2>4
  <2> QED
    BY <2>1, <2>2, <2>3, <2>4
<1>9. NothingSkipped'
  <2> SUFFICES ASSUME NEW d \in Consumers, NEW q \in assigned[d],
                      NEW o \in 0 .. position'[d][q] - 1
               PROVE  <<q, o>> \in Accounted \cup ToSet(messages'[d][TopicOf[q]])
    BY <1>2 DEF NothingSkipped, Accounted, Settled
  <2>1. q \in Partitions /\ TopicOf[q] \in Topics
    BY TopicAssumption DEF SafetyInv, TypeOK
  <2>2. CASE d = c /\ q = p /\ o = position[c][p]
    BY <1>7, <2>2
  <2>3. CASE ~(d = c /\ q = p /\ o = position[c][p])
    <3>1. o \in 0 .. position[d][q] - 1
      <4>1. CASE d = c /\ q = p
        BY <1>1, <1>4, <2>3, <4>1
      <4>2. CASE ~(d = c /\ q = p)
        BY <1>4, <2>1, <4>2
      <4> QED
        BY <4>1, <4>2
    <3>2. <<q, o>> \in Accounted \cup ToSet(messages[d][TopicOf[q]])
      BY <3>1 DEF SafetyInv, NothingSkipped
    <3>3. ToSet(messages[d][TopicOf[q]]) \subseteq ToSet(messages'[d][TopicOf[q]])
      BY <1>3, <1>7, <2>1
    <3> QED
      BY <3>2, <3>3
  <2> QED
    BY <2>2, <2>3
<1>10. OfferedMayBeErased'
  <2> SUFFICES ASSUME NEW d \in Consumers, current'[d] # NoTopic
               PROVE  /\ pc'[d] = "stash"
                      /\ ToSet(messages'[d][current'[d]]) \subseteq stored' \cup Droppable
    BY DEF OfferedMayBeErased
  <2>1. d # c /\ current[d] \in Topics
    BY <1>1, <1>2 DEF SafetyInv, TypeOK
  <2>2. pc'[d] = pc[d] /\ messages'[d] = messages[d]
    BY <1>2, <2>1 DEF ConsumeMessage, Receive, BeginStash, SafetyInv, TypeOK
  <2> QED
    BY <1>2, <2>1, <2>2 DEF SafetyInv, OfferedMayBeErased
<1> QED
  BY <1>2, <1>5, <1>8, <1>9, <1>10 DEF SafetyInv, PassedByLatest

\* The three outcomes of offering a bundle to S3: only PutBundle adds to the
\* bucket, and the other two offer records the code may lose.
LEMMA SafetyOffer ==
    ASSUME SafetyInv, TypeOK', NEW c \in Consumers, NEW t \in Topics,
           PutBundle(c, t) \/ PutFails(c, t) \/ SkipBundle(c, t)
    PROVE  SafetyInv'
<1>1. /\ Offering(c, t)
      /\ current' = [current EXCEPT ![c] = t]
      /\ UNCHANGED <<pc, messages, assigned, position, commitQueue, committed, passed>>
      /\ pc[c] = "stash"
  BY DEF PutBundle, PutFails, SkipBundle, Offering, client
<1>2. /\ stored \subseteq stored'
      /\ Accounted \subseteq Accounted'
      /\ dropped' \subseteq dropped
  BY DEF PutBundle, PutFails, SkipBundle, Offering, Accounted, Settled
<1>3. ToSet(messages[c][t]) \subseteq stored' \cup Droppable
  <2>1. CASE PutBundle(c, t)
    BY <2>1 DEF PutBundle
  <2>2. CASE PutFails(c, t)
    BY <2>2 DEF PutFails, Droppable, SafetyInv, TypeOK, ToSet
  <2>3. CASE SkipBundle(c, t)
    <3>1. messages[c][t] \in Seq(Messages)
      BY DEF SafetyInv, TypeOK
    <3>2. \A i \in DOMAIN messages[c][t] :
            messages[c][t][i] \in Messages /\ PayloadLen[messages[c][t][i]] \in Nat
      BY <3>1, PayloadAssumption
    <3>3. \A i \in DOMAIN messages[c][t] : PayloadLen[messages[c][t][i]] = 0
      BY <2>3, <3>2 DEF SkipBundle, HasPayload
    <3> QED
      BY <3>2, <3>3 DEF Droppable, ToSet
  <2> QED
    BY <2>1, <2>2, <2>3
<1>4. CommittedIsSettled'
  BY <1>1, <1>2 DEF SafetyInv, CommittedIsSettled
<1>5. QueuedIsSettled'
  BY <1>1, <1>2 DEF SafetyInv, QueuedIsSettled
<1>6. BufferedWithoutGap'
  BY <1>1, <1>2 DEF SafetyInv, BufferedWithoutGap
<1>7. NothingSkipped'
  BY <1>1, <1>2 DEF SafetyInv, NothingSkipped
<1>8. OfferedMayBeErased'
  <2> SUFFICES ASSUME NEW d \in Consumers, current'[d] # NoTopic
               PROVE  /\ pc[d] = "stash"
                      /\ ToSet(messages[d][current'[d]]) \subseteq stored' \cup Droppable
    BY <1>1 DEF OfferedMayBeErased
  <2>1. CASE d = c
    BY <1>1, <1>3, <2>1 DEF SafetyInv, TypeOK
  <2>2. CASE d # c
    BY <1>1, <1>2, <2>2 DEF SafetyInv, TypeOK, OfferedMayBeErased
  <2> QED
    BY <2>1, <2>2
<1>9. dropped' \subseteq Droppable
  BY <1>2 DEF SafetyInv
<1> QED
  BY <1>1, <1>4, <1>5, <1>6, <1>7, <1>8, <1>9 DEF SafetyInv, PassedByLatest

LEMMA SafetyErase ==
    ASSUME SafetyInv, TypeOK', NEW c \in Consumers, EraseBundle(c)
    PROVE  SafetyInv'
<1> DEFINE t == current[c]
           bundle == messages[c][t]
<1>1. /\ t \in Topics /\ t # NoTopic
      /\ bundle \in Seq(Messages)
      /\ commitQueue[c] \in Seq(Messages)
  BY DEF EraseBundle, SafetyInv, TypeOK
<1>2. /\ commitQueue' = [commitQueue EXCEPT ![c] = commitQueue[c] \o bundle]
      /\ messages' = [messages EXCEPT ![c][t] = <<>>]
      /\ dropped' = dropped \cup (ToSet(bundle) \ stored)
      /\ current' = [current EXCEPT ![c] = NoTopic]
      /\ UNCHANGED <<assigned, position, committed, stored, passed>>
  BY DEF EraseBundle, CommitOrder
<1>3. Accounted' = Accounted \cup ToSet(bundle)
  BY <1>2 DEF Accounted, Settled
<1>4. /\ messages'[c][t] = <<>>
      /\ \A d \in Consumers, u \in Topics :
            ~(d = c /\ u = t) => messages'[d][u] = messages[d][u]
  <2>1. messages \in [Consumers -> [Topics -> Seq(Messages)]]
    BY DEF SafetyInv, TypeOK
  <2> HIDE DEF t, bundle
  <2> QED
    BY <1>1, <1>2, <2>1, NestedExcept
<1>5. CommittedIsSettled'
  BY <1>2, <1>3 DEF SafetyInv, CommittedIsSettled
<1>6. QueuedIsSettled'
  <2> SUFFICES ASSUME NEW d \in Consumers, NEW m \in ToSet(commitQueue'[d]), NEW o \in 0 .. m[2]
               PROVE  <<m[1], o>> \in Accounted'
    BY DEF QueuedIsSettled
  <2>1. CASE m \in ToSet(commitQueue[d])
    BY <1>3, <2>1 DEF SafetyInv, QueuedIsSettled
  <2>2. CASE d = c /\ m \in ToSet(bundle)
    BY <1>1, <1>3, <2>2 DEF SafetyInv, BufferedWithoutGap
  <2>3. m \in ToSet(commitQueue[d]) \/ (d = c /\ m \in ToSet(bundle))
    <3>1. CASE d = c
      <4>1. commitQueue'[c] = commitQueue[c] \o bundle
        BY <1>2 DEF SafetyInv, TypeOK
      <4> HIDE DEF bundle
      <4> QED
        BY <1>1, <3>1, <4>1, ConcatSet
    <3>2. CASE d # c
      BY <1>2, <3>2 DEF SafetyInv, TypeOK
    <3> QED
      BY <3>1, <3>2
  <2> QED
    BY <2>1, <2>2, <2>3
<1>7. BufferedWithoutGap'
  <2> SUFFICES ASSUME NEW d \in Consumers, NEW u \in Topics, NEW m \in ToSet(messages'[d][u]),
                      NEW o \in 0 .. m[2]
               PROVE  <<m[1], o>> \in Accounted' \cup ToSet(messages'[d][u])
    BY DEF BufferedWithoutGap
  <2>1. ~(d = c /\ u = t)
    BY <1>4, EmptySet
  <2>2. messages'[d][u] = messages[d][u]
    BY <1>4, <2>1
  <2> QED
    BY <1>3, <2>2 DEF SafetyInv, BufferedWithoutGap
<1>8. NothingSkipped'
  <2> SUFFICES ASSUME NEW d \in Consumers, NEW q \in assigned[d],
                      NEW o \in 0 .. position[d][q] - 1
               PROVE  <<q, o>> \in Accounted' \cup ToSet(messages'[d][TopicOf[q]])
    BY <1>2 DEF NothingSkipped
  <2>1. q \in Partitions /\ TopicOf[q] \in Topics
    BY TopicAssumption DEF SafetyInv, TypeOK
  <2>2. <<q, o>> \in Accounted \cup ToSet(messages[d][TopicOf[q]])
    BY DEF SafetyInv, NothingSkipped
  <2>3. ToSet(messages[d][TopicOf[q]]) \subseteq Accounted' \cup ToSet(messages'[d][TopicOf[q]])
    BY <1>3, <1>4, <2>1
  <2> QED
    BY <1>3, <2>2, <2>3
<1>9. OfferedMayBeErased'
  <2> SUFFICES ASSUME NEW d \in Consumers, current'[d] # NoTopic
               PROVE  /\ pc'[d] = "stash"
                      /\ ToSet(messages'[d][current'[d]]) \subseteq stored' \cup Droppable
    BY DEF OfferedMayBeErased
  <2>1. d # c /\ current'[d] = current[d] /\ current[d] \in Topics
    BY <1>2 DEF SafetyInv, TypeOK
  <2>2. pc'[d] = pc[d]
    BY <2>1 DEF EraseBundle, SafetyInv, TypeOK
  <2> QED
    BY <1>2, <1>4, <2>1, <2>2 DEF SafetyInv, OfferedMayBeErased
<1>10. dropped' \subseteq Droppable
  BY <1>1, <1>2 DEF SafetyInv, OfferedMayBeErased
<1> QED
  BY <1>2, <1>5, <1>6, <1>7, <1>8, <1>9, <1>10 DEF SafetyInv, PassedByLatest

\* Close and Crash: one process forgets everything it holds.
LEMMA SafetyForget ==
    ASSUME SafetyInv, TypeOK', NEW c \in Consumers,
           UNCHANGED <<committed, stored, dropped, passed>>,
           \A d \in Consumers \ {c} :
               /\ pc'[d] = pc[d] /\ messages'[d] = messages[d] /\ current'[d] = current[d]
               /\ assigned'[d] = assigned[d] /\ position'[d] = position[d]
               /\ commitQueue'[d] = commitQueue[d],
           /\ assigned'[c] = {} /\ commitQueue'[c] = <<>> /\ current'[c] = NoTopic
           /\ \/ messages'[c] = messages[c]
              \/ messages'[c] = NoMessages
    PROVE  SafetyInv'
<1>1. CommittedIsSettled'
  BY DEF SafetyInv, CommittedIsSettled, Accounted, Settled
<1>2. QueuedIsSettled'
  BY EmptySet DEF SafetyInv, QueuedIsSettled, Accounted, Settled
<1>3. BufferedWithoutGap'
  <2> SUFFICES ASSUME NEW d \in Consumers, NEW u \in Topics, NEW m \in ToSet(messages'[d][u]),
                      NEW o \in 0 .. m[2]
               PROVE  <<m[1], o>> \in Accounted \cup ToSet(messages'[d][u])
    BY DEF BufferedWithoutGap, Accounted, Settled
  <2>1. messages'[d][u] # <<>>
    BY EmptySet
  <2>2. messages'[d] = messages[d]
    BY <2>1 DEF NoMessages
  <2> QED
    BY <2>2 DEF SafetyInv, BufferedWithoutGap
<1>4. NothingSkipped'
  BY DEF SafetyInv, NothingSkipped, Accounted, Settled
<1>5. OfferedMayBeErased'
  BY DEF SafetyInv, OfferedMayBeErased
<1> QED
  BY <1>1, <1>2, <1>3, <1>4, <1>5 DEF SafetyInv, PassedByLatest

LEMMA SafetyDelivered ==
    ASSUME SafetyInv, TypeOK', NEW c \in Consumers, CommitDelivered(c)
    PROVE  SafetyInv'
<1> DEFINE m == Head(commitQueue[c])
<1>1. commitQueue[c] \in Seq(Messages) /\ commitQueue[c] # <<>>
  BY DEF CommitDelivered, SafetyInv, TypeOK
<1>2. m \in ToSet(commitQueue[c]) /\ ToSet(Tail(commitQueue[c])) \subseteq ToSet(commitQueue[c])
  BY <1>1, TailSet
<1>3. m[1] \in Partitions /\ m[2] \in Nat
  BY <1>1 DEF Messages, Offsets
<1>4. /\ committed' = [committed EXCEPT ![m[1]] = m[2] + 1]
      /\ commitQueue' = [commitQueue EXCEPT ![c] = Tail(commitQueue[c])]
      /\ UNCHANGED <<pc, messages, current, assigned, position, stored, dropped, passed>>
  BY DEF CommitDelivered, process, outcome
<1>5. \A o \in 0 .. m[2] : <<m[1], o>> \in Accounted
  BY <1>2 DEF SafetyInv, QueuedIsSettled
<1>6. CommittedIsSettled'
  <2> SUFFICES ASSUME NEW p \in Partitions, NEW o \in 0 .. committed'[p] - 1
               PROVE  <<p, o>> \in Accounted
    BY <1>4 DEF CommittedIsSettled, Accounted, Settled
  <2>1. CASE p = m[1]
    <3>1. committed'[p] = m[2] + 1
      BY <1>3, <1>4, <2>1 DEF SafetyInv, TypeOK
    <3>2. o \in 0 .. m[2]
      BY <1>3, <3>1
    <3> QED
      BY <1>5, <2>1, <3>2
  <2>2. CASE p # m[1]
    <3>1. committed'[p] = committed[p]
      BY <1>4, <2>2 DEF SafetyInv, TypeOK
    <3> QED
      BY <3>1 DEF SafetyInv, CommittedIsSettled
  <2> QED
    BY <2>1, <2>2
<1>7. QueuedIsSettled'
  <2> SUFFICES ASSUME NEW d \in Consumers, NEW n \in ToSet(commitQueue'[d]), NEW o \in 0 .. n[2]
               PROVE  <<n[1], o>> \in Accounted
    BY <1>4 DEF QueuedIsSettled, Accounted, Settled
  <2>1. n \in ToSet(commitQueue[d])
    BY <1>2, <1>4 DEF SafetyInv, TypeOK
  <2> QED
    BY <2>1 DEF SafetyInv, QueuedIsSettled
<1>8. BufferedWithoutGap' /\ NothingSkipped' /\ OfferedMayBeErased'
  BY <1>4 DEF SafetyInv, BufferedWithoutGap, NothingSkipped, OfferedMayBeErased, Accounted, Settled
<1> QED
  BY <1>4, <1>6, <1>7, <1>8 DEF SafetyInv, PassedByLatest

LEMMA SafetyLost ==
    ASSUME SafetyInv, TypeOK', NEW c \in Consumers, CommitLost(c)
    PROVE  SafetyInv'
<1>1. commitQueue[c] \in Seq(Messages) /\ commitQueue[c] # <<>>
  BY DEF CommitLost, SafetyInv, TypeOK
<1>2. ToSet(Tail(commitQueue[c])) \subseteq ToSet(commitQueue[c])
  BY <1>1, TailSet
<1>3. /\ commitQueue' = [commitQueue EXCEPT ![c] = Tail(commitQueue[c])]
      /\ UNCHANGED <<pc, messages, current, assigned, position, committed, stored, dropped, passed>>
  BY DEF CommitLost, process, outcome
<1>4. QueuedIsSettled'
  <2> SUFFICES ASSUME NEW d \in Consumers, NEW n \in ToSet(commitQueue'[d]), NEW o \in 0 .. n[2]
               PROVE  <<n[1], o>> \in Accounted
    BY <1>3 DEF QueuedIsSettled, Accounted, Settled
  <2>1. n \in ToSet(commitQueue[d])
    BY <1>2, <1>3 DEF SafetyInv, TypeOK
  <2> QED
    BY <2>1 DEF SafetyInv, QueuedIsSettled
<1>5. CommittedIsSettled' /\ BufferedWithoutGap' /\ NothingSkipped' /\ OfferedMayBeErased'
  BY <1>3
  DEF SafetyInv, CommittedIsSettled, BufferedWithoutGap, NothingSkipped, OfferedMayBeErased,
      Accounted, Settled
<1> QED
  BY <1>3, <1>4, <1>5 DEF SafetyInv, PassedByLatest

\* New owners start at the committed offset, before which everything is
\* accounted for, or behind records that are passed over from then on.
LEMMA SafetyRebalance ==
    ASSUME SafetyInv, TypeOK',
           NEW N \in SUBSET Consumers \ {{}}, NEW owner \in [Partitions -> N],
           Rebalance(N, owner)
    PROVE  SafetyInv'
<1>1. /\ UNCHANGED <<pc, messages, current, commitQueue, committed, stored, dropped>>
      /\ passed' = passed \cup PassedOver
  BY DEF Rebalance, process
<1>2. Accounted' = Accounted \cup PassedOver
  BY <1>1 DEF Accounted, Settled
<1>3. CommittedIsSettled' /\ QueuedIsSettled' /\ BufferedWithoutGap' /\ OfferedMayBeErased'
  BY <1>1, <1>2
  DEF SafetyInv, CommittedIsSettled, QueuedIsSettled, BufferedWithoutGap, OfferedMayBeErased
<1>4. ASSUME NEW q \in Partitions, NEW o \in 0 .. StartOffset(q) - 1
      PROVE  <<q, o>> \in Accounted'
  <2>1. committed[q] \in 0 .. LogEnd /\ StartOffset(q) \in 0 .. LogEnd
    BY DEF SafetyInv, TypeOK, StartOffset
  <2>2. CASE o < committed[q]
    <3>1. o \in 0 .. committed[q] - 1
      BY <2>1, <2>2
    <3> QED
      BY <1>2, <3>1 DEF SafetyInv, CommittedIsSettled
  <2>3. CASE committed[q] <= o
    <3>1. <<q, o>> \in Messages /\ o < StartOffset(q)
      BY <2>1, NatAssumption DEF Messages, Offsets
    <3> QED
      BY <1>2, <2>3, <3>1 DEF PassedOver
  <2> QED
    BY <2>1, <2>2, <2>3
<1>5. NothingSkipped'
  <2> SUFFICES ASSUME NEW d \in Consumers, NEW q \in assigned'[d],
                      NEW o \in 0 .. position'[d][q] - 1
               PROVE  <<q, o>> \in Accounted' \cup ToSet(messages[d][TopicOf[q]])
    BY <1>1 DEF NothingSkipped
  <2>1. CASE d \in N
    <3>1. q \in Partitions /\ owner[q] = d
      BY <2>1 DEF Rebalance
    <3>2. position'[d][q] = StartOffset(q)
      BY <2>1, <3>1 DEF Rebalance
    <3> QED
      BY <1>4, <3>1, <3>2
  <2>2. CASE d \notin N
    <3>1. assigned'[d] = assigned[d] /\ position'[d] = position[d]
      BY <2>2 DEF Rebalance
    <3> QED
      BY <1>2, <3>1 DEF SafetyInv, NothingSkipped
  <2> QED
    BY <2>1, <2>2
<1>6. PassedByLatest'
  <2> SUFFICES ASSUME OffsetReset = "earliest" PROVE passed' = {}
    BY DEF PassedByLatest
  <2>1. \A q \in Partitions : committed[q] \in Int /\ StartOffset(q) = committed[q]
    BY DEF StartOffset, SafetyInv, TypeOK
  <2>2. ASSUME NEW m \in Messages PROVE m \notin PassedOver
    <3>1. m[1] \in Partitions /\ m[2] \in Int
      BY NatAssumption DEF Messages, Offsets
    <3> QED
      BY <2>1, <3>1 DEF PassedOver
  <2>3. PassedOver = {}
    BY <2>2 DEF PassedOver
  <2> QED
    BY <1>1, <2>3 DEF SafetyInv, PassedByLatest
<1> QED
  BY <1>1, <1>3, <1>5, <1>6 DEF SafetyInv

LEMMA SafetyNext ==
    ASSUME SafetyInv, [Next]_vars
    PROVE  SafetyInv'
<1>1. TypeOK'
  BY TypeNext DEF SafetyInv
<1>2. ASSUME NEW c \in Consumers,
             Start(c) \/ Signal(c) \/ ConsumeError(c) \/ MemoryRestart(c) \/ Stop(c)
      PROVE  SafetyInv'
  <2>1. UNCHANGED <<messages, current, assigned, position, commitQueue, committed,
                    stored, dropped, passed>>
    BY <1>2 DEF Start, Signal, ConsumeError, MemoryRestart, Stop, Leave, client, outcome
  <2>2. \A d \in Consumers : pc[d] = "stash" => pc'[d] = "stash"
    BY <1>2
    DEF Start, Signal, ConsumeError, MemoryRestart, Stop, Leave, Turn, BeginStash, BeginClose,
        SafetyInv, TypeOK
  <2> QED
    BY <1>1, <2>1, <2>2, SafetyFrame
<1>3. ASSUME NEW c \in Consumers, Close(c) PROVE SafetyInv'
  <2>1. current[c] = NoTopic
    BY <1>3 DEF Close, LeaveGroup, SafetyInv, OfferedMayBeErased
  <2> QED
    BY <1>1, <1>3, <2>1, SafetyForget DEF Close, LeaveGroup, outcome, SafetyInv, TypeOK
<1>4. ASSUME NEW c \in Consumers, Crash(c) PROVE SafetyInv'
  <2>1. /\ messages'[c] = NoMessages /\ current'[c] = NoTopic
        /\ assigned'[c] = {} /\ commitQueue'[c] = <<>>
    BY <1>4 DEF Crash, SafetyInv, TypeOK
  <2>2. \A d \in Consumers \ {c} :
          /\ pc'[d] = pc[d] /\ messages'[d] = messages[d] /\ current'[d] = current[d]
          /\ assigned'[d] = assigned[d] /\ position'[d] = position[d]
          /\ commitQueue'[d] = commitQueue[d]
    BY <1>4 DEF Crash, SafetyInv, TypeOK
  <2>3. UNCHANGED <<committed, stored, dropped, passed>>
    BY <1>4 DEF Crash, outcome
  <2> QED
    BY <1>1, <2>1, <2>2, <2>3, SafetyForget
<1>5. ASSUME NEW p \in Partitions, Produce(p) PROVE SafetyInv'
  BY <1>1, <1>5, SafetyFrame DEF Produce, process, client, outcome
<1>6. CASE AllExited \/ UNCHANGED vars
  BY <1>1, <1>6, SafetyFrame DEF AllExited, vars, process, client, outcome
<1> QED
  BY <1>1, <1>2, <1>3, <1>4, <1>5, <1>6, SafetyConsume, SafetyOffer, SafetyErase,
     SafetyDelivered, SafetyLost, SafetyRebalance
  DEF Next, LoopStep, Stash

\* The inductive invariant holds in every reachable state, wherever a group
\* without committed offsets starts.
THEOREM SafetyCorrect == Spec => []SafetyInv
<1>1. SafetyInv /\ [Next]_vars => SafetyInv'
  BY SafetyNext
<1> QED
  BY <1>1, SafetyInit, PTL DEF Spec

\* Every committed offset covers only records that were offered to S3 and
\* erased, or passed over before the first commit.
THEOREM CommittedSettled == Spec => []CommittedIsSettled
<1>1. SafetyInv => CommittedIsSettled
  BY DEF SafetyInv
<1> QED
  BY <1>1, SafetyCorrect, PTL

\* The reader skips no record that auto.offset.reset does not skip.
THEOREM NoneSkipped == Spec => []NothingSkipped
<1>1. SafetyInv => NothingSkipped
  BY DEF SafetyInv
<1> QED
  BY <1>1, SafetyCorrect, PTL

\* With an S3 that does not fail, every record below a committed offset is in
\* the bucket, has an empty payload, or was passed over before the first commit.
THEOREM CommittedStored == S3Reliable /\ Spec => []CommittedIsStored
<1> SUFFICES ASSUME S3Reliable PROVE Spec => []CommittedIsStored
  OBVIOUS
<1>1. Droppable = {m \in Messages : PayloadLen[m] = 0}
  BY DEF Droppable
<1>2. ASSUME SafetyInv PROVE CommittedIsStored
  <2> SUFFICES ASSUME NEW p \in Partitions, NEW o \in 0 .. committed[p] - 1,
                      PayloadLen[<<p, o>>] > 0
               PROVE  <<p, o>> \in stored \cup passed
    BY DEF CommittedIsStored
  <2>1. <<p, o>> \in Accounted
    BY <1>2 DEF SafetyInv, CommittedIsSettled
  <2>2. <<p, o>> \notin dropped
    BY <1>1, <1>2 DEF SafetyInv
  <2> QED
    BY <2>1, <2>2 DEF Accounted, Settled
<1> QED
  BY <1>2, SafetyCorrect, PTL

\* A group that starts at the earliest record loses nothing to its start: with
\* an S3 that does not fail, what is committed is in the bucket or empty.
THEOREM EarliestStored ==
    S3Reliable /\ OffsetReset = "earliest" /\ Spec => [](passed = {} /\ CommittedIsStored)
<1> SUFFICES ASSUME S3Reliable, OffsetReset = "earliest"
             PROVE  Spec => [](passed = {} /\ CommittedIsStored)
  OBVIOUS
<1>1. SafetyInv => passed = {}
  BY DEF SafetyInv, PassedByLatest
<1> QED
  BY <1>1, SafetyCorrect, CommittedStored, PTL

-----------------------------------------------------------------------------
(* Consume implements Backup. *)

LEMMA BackupInit == Init => Promise!Init
  BY DEF Init, Promise!Init, AtStart

LEMMA BackupStep ==
    ASSUME SafetyInv, [Next]_vars
    PROVE  [Promise!Next]_(Promise!vars)
<1> USE DEF Promise!vars
<1>1. ASSUME NEW c \in Consumers, NEW t \in Topics, PutBundle(c, t) PROVE Promise!Next
  <2>1. ToSet(messages[c][t]) \in SUBSET Promise!Messages
    BY DEF SafetyInv, TypeOK, ToSet, Messages, Offsets, Promise!Messages
  <2>2. Promise!Save(ToSet(messages[c][t]))
    BY <1>1 DEF PutBundle, Offering, Promise!Save
  <2> QED
    BY <2>1, <2>2 DEF Promise!Next
<1>2. ASSUME NEW c \in Consumers, EraseBundle(c) PROVE Promise!Next
  <2> DEFINE S == ToSet(messages[c][current[c]]) \ stored
  <2>1. current[c] \in Topics /\ current[c] # NoTopic
    BY <1>2 DEF EraseBundle, SafetyInv, TypeOK
  <2>2. S \in SUBSET Promise!Messages
    BY <2>1 DEF SafetyInv, TypeOK, ToSet, Messages, Offsets, Promise!Messages
  <2>3. S \subseteq Droppable
    BY <2>1 DEF SafetyInv, OfferedMayBeErased
  <2>4. Promise!Drop(S)
    BY <1>2, <2>3 DEF EraseBundle, Promise!Drop
  <2> QED
    BY <2>2, <2>4 DEF Promise!Next
<1>3. ASSUME NEW c \in Consumers, CommitDelivered(c) PROVE Promise!Next
  <2> DEFINE m == Head(commitQueue[c])
  <2>1. commitQueue[c] \in Seq(Messages) /\ commitQueue[c] # <<>>
    BY <1>3 DEF CommitDelivered, SafetyInv, TypeOK
  <2>2. m \in ToSet(commitQueue[c]) /\ m \in Messages
    BY <2>1, TailSet
  <2>3. m[1] \in Partitions /\ m[2] \in Nat /\ m[2] + 1 \in 0 .. LogEnd
    BY <2>2, NatAssumption DEF Messages, Offsets
  <2>4. \A o \in 0 .. m[2] : <<m[1], o>> \in stored \cup dropped \cup passed
    BY <2>2 DEF SafetyInv, QueuedIsSettled, Accounted, Settled
  <2>5. Promise!Commit(m[1], m[2] + 1)
    <3>1. \A o \in 0 .. (m[2] + 1) - 1 : o \in 0 .. m[2]
      BY <2>3
    <3>2. committed' = [committed EXCEPT ![m[1]] = m[2] + 1] /\ UNCHANGED <<stored, dropped, passed>>
      BY <1>3 DEF CommitDelivered, outcome
    <3> QED
      BY <2>4, <3>1, <3>2 DEF Promise!Commit
  <2> QED
    BY <2>3, <2>5 DEF Promise!Next
<1>4. ASSUME NEW c \in Consumers,
             \/ Start(c) \/ Signal(c) \/ ConsumeError(c) \/ MemoryRestart(c) \/ Stop(c)
             \/ (\E p \in Partitions : ConsumeMessage(c, p))
             \/ (\E t \in Topics : PutFails(c, t) \/ SkipBundle(c, t))
             \/ Close(c) \/ Crash(c) \/ CommitLost(c)
      PROVE  UNCHANGED <<stored, dropped, passed, committed>>
  BY <1>4
  DEF Start, Signal, ConsumeError, MemoryRestart, Stop, Leave, ConsumeMessage, Receive,
      PutFails, SkipBundle, Offering, Close, LeaveGroup, Crash, CommitLost, outcome
<1>5. ASSUME NEW N \in SUBSET Consumers \ {{}}, NEW owner \in [Partitions -> N],
             Rebalance(N, owner)
      PROVE  [Promise!Next]_(Promise!vars)
  <2>1. /\ UNCHANGED <<stored, dropped, committed>>
        /\ passed' = passed \cup PassedOver
    BY <1>5 DEF Rebalance
  <2>2. PassedOver \in SUBSET Promise!Messages
    BY DEF PassedOver, Messages, Offsets, Promise!Messages
  <2>3. ASSUME NEW m \in PassedOver
        PROVE  OffsetReset = "latest" /\ committed[m[1]] = 0
    <3>1. /\ m[1] \in Partitions /\ m[2] \in Int /\ committed[m[1]] \in Int
          /\ committed[m[1]] <= m[2] /\ m[2] < StartOffset(m[1])
      BY NatAssumption DEF PassedOver, Messages, Offsets, SafetyInv, TypeOK
    <3>2. StartOffset(m[1]) # committed[m[1]]
      BY <3>1
    <3> QED
      BY <3>2 DEF StartOffset
  <2>4. CASE PassedOver = {}
    BY <2>1, <2>4
  <2>5. CASE PassedOver # {}
    <3>1. Promise!PassOver(PassedOver)
      BY <2>1, <2>3, <2>5 DEF Promise!PassOver
    <3> QED
      BY <2>2, <3>1 DEF Promise!Next
  <2> QED
    BY <2>4, <2>5
<1>6. ASSUME NEW p \in Partitions, Produce(p)
      PROVE  UNCHANGED <<stored, dropped, passed, committed>>
  BY <1>6 DEF Produce, outcome
<1>7. CASE AllExited \/ UNCHANGED vars
  BY <1>7 DEF AllExited, vars, outcome
<1> QED
  BY <1>1, <1>2, <1>3, <1>4, <1>5, <1>6, <1>7 DEF Next, LoopStep, Stash

\* The processes, their buffers and queues together do what Backup promises.
THEOREM Implementation == Spec => ImplementsBackup
<1>1. SafetyInv /\ [Next]_vars => [Promise!Next]_(Promise!vars)
  BY BackupStep
<1> QED
  BY <1>1, BackupInit, SafetyCorrect, PTL DEF Spec, ImplementsBackup, Promise!Spec

-----------------------------------------------------------------------------
(* No MessageWrapper outlives the consumer it commits through. *)

\* ~Consume visits every vector that holds a record before it closes, so the
\* vectors still to be visited include every one that is not empty.
LeavingVisitsAll ==
    \A c \in Consumers :
        pc[c] = "stash" /\ reason[c] \in {"restart", "stop"} => Pending(c) \subseteq todo[c]

WrapperInv == TypeOK /\ NoWrapperOutlivesConsumer /\ LeavingVisitsAll

LEMMA WrapperInit == Init => WrapperInv
  BY TypeInit
  DEF Init, WrapperInv, NoWrapperOutlivesConsumer, LeavingVisitsAll, Pending, NoMessages

\* Both parts of the invariant are about one process: a step that leaves a
\* process alone keeps them for it.
WrappersOf(c) ==
    /\ pc[c] \in {"close", "down", "exited"} => Pending(c) = {}
    /\ pc[c] = "stash" /\ reason[c] \in {"restart", "stop"} => Pending(c) \subseteq todo[c]

LEMMA WrapperFrame ==
    ASSUME NEW c \in Consumers, WrappersOf(c),
           pc'[c] = pc[c], reason'[c] = reason[c], todo'[c] = todo[c],
           messages'[c] = messages[c]
    PROVE  WrappersOf(c)'
  BY DEF WrappersOf, Pending

LEMMA WrapperStep ==
    ASSUME TypeOK, NEW d \in Consumers, WrappersOf(d), Next
    PROVE  WrappersOf(d)'
<1>1. ASSUME NEW c \in Consumers, c # d,
             \/ Start(c) \/ Signal(c) \/ LoopStep(c) \/ Stash(c) \/ Close(c) \/ Crash(c)
      PROVE  WrappersOf(d)'
  <2>1. /\ pc'[d] = pc[d] /\ reason'[d] = reason[d] /\ todo'[d] = todo[d]
        /\ messages'[d] = messages[d]
    BY <1>1
    DEF Start, Signal, LoopStep, ConsumeError, MemoryRestart, Stop, Leave, BeginStash, BeginClose,
        Turn, ConsumeMessage, Receive, Stash, PutBundle, PutFails, SkipBundle, Offering,
        EraseBundle, Close, LeaveGroup, Crash, TypeOK
  <2> QED
    BY <2>1, WrapperFrame
<1>2. CASE Start(d)
  BY <1>2 DEF Start, WrappersOf, TypeOK
<1>3. CASE Signal(d)
  BY <1>3, WrapperFrame DEF Signal
<1>4. ASSUME NEW p \in Partitions, ConsumeMessage(d, p) PROVE WrappersOf(d)'
  BY <1>4 DEF ConsumeMessage, Receive, Turn, BeginStash, WrappersOf, TypeOK
<1>5. CASE ConsumeError(d)
  BY <1>5 DEF ConsumeError, Turn, BeginStash, WrappersOf, TypeOK
<1>6. CASE MemoryRestart(d) \/ Stop(d)
  <2>1. PICK why \in {"restart", "stop"} : Leave(d, why)
    BY <1>6 DEF MemoryRestart, Stop
  <2>2. Pending(d)' = Pending(d)
    BY <2>1 DEF Leave, Pending
  <2>3. CASE BeginStash(d, Pending(d), why)
    BY <2>2, <2>3 DEF BeginStash, WrappersOf, TypeOK
  <2>4. CASE Pending(d) = {} /\ BeginClose(d, why)
    BY <2>2, <2>4 DEF BeginClose, WrappersOf, TypeOK
  <2> QED
    BY <2>1, <2>3, <2>4 DEF Leave
<1>7. ASSUME NEW t \in Topics, PutBundle(d, t) \/ PutFails(d, t) \/ SkipBundle(d, t)
      PROVE  WrappersOf(d)'
  BY <1>7, WrapperFrame DEF PutBundle, PutFails, SkipBundle, Offering
<1>8. CASE EraseBundle(d)
  <2> DEFINE t == current[d]
  <2>1. /\ t \in Topics /\ pc[d] = "stash"
        /\ messages' = [messages EXCEPT ![d][t] = <<>>]
        /\ todo' = [todo EXCEPT ![d] = todo[d] \ {t}]
    BY <1>8 DEF EraseBundle, TypeOK
  <2>2. Pending(d)' = Pending(d) \ {t} /\ todo'[d] = todo[d] \ {t}
    BY <2>1 DEF Pending, TypeOK
  <2>3. CASE todo[d] # {t} /\ UNCHANGED <<pc, reason>>
    BY <2>1, <2>2, <2>3 DEF WrappersOf
  <2>4. CASE pc'[d] = "loop"
    BY <2>4 DEF WrappersOf
  <2>5. CASE todo[d] = {t} /\ reason[d] \in {"restart", "stop"} /\ pc'[d] = "close"
    BY <2>1, <2>2, <2>5 DEF WrappersOf
  <2> QED
    BY <1>8, <2>3, <2>4, <2>5 DEF EraseBundle, TypeOK
<1>9. CASE Close(d)
  <2>1. pc'[d] \in {"down", "exited"} /\ pc[d] = "close" /\ messages' = messages
    BY <1>9 DEF Close, LeaveGroup, AfterRun, TypeOK
  <2> QED
    BY <2>1 DEF WrappersOf, Pending
<1>10. CASE Crash(d)
  <2>1. pc'[d] = "down" /\ messages'[d] = NoMessages
    BY <1>10 DEF Crash, TypeOK
  <2> QED
    BY <2>1 DEF WrappersOf, Pending, NoMessages
<1>11. ASSUME NEW c \in Consumers, CommitDelivered(c) \/ CommitLost(c) PROVE WrappersOf(d)'
  BY <1>11, WrapperFrame DEF CommitDelivered, CommitLost, process
<1>12. ASSUME NEW N \in SUBSET Consumers \ {{}}, NEW owner \in [Partitions -> N],
              Rebalance(N, owner)
       PROVE  WrappersOf(d)'
  BY <1>12, WrapperFrame DEF Rebalance, process
<1>13. CASE AllExited \/ \E p \in Partitions : Produce(p)
  BY <1>13, WrapperFrame DEF AllExited, Produce, vars, process
<1> QED
  BY <1>1, <1>2, <1>3, <1>4, <1>5, <1>6, <1>7, <1>8, <1>9, <1>10, <1>11, <1>12, <1>13
  DEF Next, LoopStep, Stash

LEMMA WrapperNext == WrapperInv /\ [Next]_vars => WrapperInv'
<1> SUFFICES ASSUME WrapperInv, [Next]_vars PROVE WrapperInv'
  OBVIOUS
<1>1. TypeOK /\ TypeOK'
  BY TypeNext DEF WrapperInv
<1>2. \A d \in Consumers : WrappersOf(d)
  BY DEF WrapperInv, NoWrapperOutlivesConsumer, LeavingVisitsAll, WrappersOf
<1>3. \A d \in Consumers : WrappersOf(d)'
  <2>1. CASE Next
    BY <1>1, <1>2, <2>1, WrapperStep
  <2>2. CASE UNCHANGED vars
    BY <1>2, <2>2, WrapperFrame DEF vars, process
  <2> QED
    BY <2>1, <2>2
<1> QED
  BY <1>1, <1>3 DEF WrapperInv, NoWrapperOutlivesConsumer, LeavingVisitsAll, WrappersOf

\* When the consumer is closed and deleted, every vector of records is empty:
\* no destructor of a MessageWrapper runs afterwards.
THEOREM WrappersGone == Spec => []NoWrapperOutlivesConsumer
<1>1. WrapperInv => NoWrapperOutlivesConsumer
  BY DEF WrapperInv
<1> QED
  BY <1>1, WrapperInit, WrapperNext, PTL DEF Spec
=============================================================================
