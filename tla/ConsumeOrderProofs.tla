------------------------- MODULE ConsumeOrderProofs -------------------------
(***************************************************************************)
(* While nothing is disrupted every record is PUT once and offsets only    *)
(* advance, for any number of processes, partitions, handovers, memory     *)
(* restarts and shutdowns.                                                 *)
(***************************************************************************)
EXTENDS ConsumeProofs

\* The records of one partition occur with growing offsets.
InOrder(s) == \A i, j \in DOMAIN s : i < j /\ s[i][1] = s[j][1] => s[i][2] < s[j][2]

\* Every record of S is older than the records of T of its partition.
Older(S, T) == \A m \in S, n \in T : m[1] = n[1] => m[2] < n[2]

\* A partition has one reader, which is a member of the generation.
SoleReader ==
    /\ \A c, d \in Consumers : \A p \in Partitions :
          p \in assigned[c] /\ p \in assigned[d] => c = d
    /\ \A c \in Consumers \ members : assigned[c] = {}

\* What a process holds is of its own partitions, in front of its position and
\* behind the committed offset.
HeldBy(c, m) ==
    /\ m[1] \in assigned[c]
    /\ committed[m[1]] <= m[2] /\ m[2] < position[c][m[1]]

QueueHeld    == \A c \in Consumers : \A m \in ToSet(commitQueue[c]) : HeldBy(c, m)
BuffersHeld  == \A c \in Consumers, t \in Topics : \A m \in ToSet(messages[c][t]) :
                    HeldBy(c, m) /\ TopicOf[m[1]] = t
PositionHeld == \A c \in Consumers : \A p \in assigned[c] : committed[p] <= position[c][p]

\* Commits are queued in the order of offsets, before those of the records
\* that are still buffered.
CommitsInOrder ==
    \A c \in Consumers :
        /\ InOrder(commitQueue[c])
        /\ \A t \in Topics : /\ InOrder(messages[c][t])
                             /\ Older(ToSet(commitQueue[c]), ToSet(messages[c][t]))

\* A settled record is committed, or its commit is on its way, or it sits in a
\* bundle that was PUT and is about to be erased.
SettledOnItsWay ==
    \A m \in Settled :
        \/ m[2] < committed[m[1]]
        \/ \E c \in Consumers : m \in ToSet(commitQueue[c])
        \/ \E c \in Consumers : current[c] # NoTopic /\ m \in ToSet(messages[c][current[c]])

OrderInv == SoleReader /\ QueueHeld /\ BuffersHeld /\ PositionHeld /\ CommitsInOrder /\ SettledOnItsWay

Inv == WrapperInv /\ (disruptions = 0 => OrderInv)

-----------------------------------------------------------------------------
(* Sequences of records. *)

LEMMA ElementOf ==
    ASSUME NEW s \in Seq(Messages)
    PROVE  /\ DOMAIN s = 1 .. Len(s) /\ Len(s) \in Nat
           /\ \A i \in 1 .. Len(s) : s[i] \in ToSet(s) /\ s[i] \in Messages
           /\ ToSet(s) \subseteq Messages
           /\ \A m \in Messages : m[1] \in Partitions /\ m[2] \in Nat
                                  /\ m = <<m[1], m[2]>>
  BY LenProperties DEF ToSet, Messages, Offsets

LEMMA AppendInOrder ==
    ASSUME NEW s \in Seq(Messages), NEW e \in Messages, InOrder(s), Older(ToSet(s), {e})
    PROVE  InOrder(Append(s, e))
<1>1. /\ DOMAIN Append(s, e) = 1 .. Len(s) + 1 /\ DOMAIN s = 1 .. Len(s) /\ Len(s) \in Nat
      /\ \A i \in 1 .. Len(s) : Append(s, e)[i] = s[i] /\ s[i] \in ToSet(s)
      /\ Append(s, e)[Len(s) + 1] = e
  BY AppendProperties, ElementOf
<1> SUFFICES ASSUME NEW i \in 1 .. Len(s) + 1, NEW j \in 1 .. Len(s) + 1, i < j,
                    Append(s, e)[i][1] = Append(s, e)[j][1]
             PROVE  Append(s, e)[i][2] < Append(s, e)[j][2]
  BY <1>1 DEF InOrder
<1>2. i \in 1 .. Len(s)
  BY <1>1
<1>3. CASE j = Len(s) + 1
  BY <1>1, <1>2, <1>3 DEF Older
<1>4. CASE j \in 1 .. Len(s)
  BY <1>1, <1>2, <1>4 DEF InOrder
<1> QED BY <1>1, <1>3, <1>4

LEMMA ConcatInOrder ==
    ASSUME NEW s \in Seq(Messages), NEW t \in Seq(Messages), InOrder(s), InOrder(t),
           Older(ToSet(s), ToSet(t))
    PROVE  InOrder(s \o t) /\ ToSet(s \o t) = ToSet(s) \cup ToSet(t)
<1>1. /\ DOMAIN s = 1 .. Len(s) /\ Len(s) \in Nat
      /\ DOMAIN t = 1 .. Len(t) /\ Len(t) \in Nat
      /\ DOMAIN (s \o t) = 1 .. Len(s) + Len(t)
  BY LenProperties, ConcatProperties, Z3
<1>2. /\ \A i \in 1 .. Len(s) : (s \o t)[i] = s[i] /\ s[i] \in ToSet(s)
      /\ \A i \in 1 .. Len(t) : t[i] \in ToSet(t)
  <2>1. \A i \in 1 .. Len(s) : i \in 1 .. Len(s) + Len(t) /\ i <= Len(s)
    BY <1>1
  <2>2. \A i \in 1 .. Len(s) : (s \o t)[i] = s[i]
    BY <2>1, ConcatProperties
  <2> QED BY <2>2, ElementOf
<1>3. \A i \in 1 .. Len(s) + Len(t) : i > Len(s) =>
        i - Len(s) \in 1 .. Len(t) /\ (s \o t)[i] = t[i - Len(s)]
  <2>1. \A i \in 1 .. Len(s) + Len(t) : i > Len(s) => i - Len(s) \in 1 .. Len(t) /\ ~(i <= Len(s))
    BY <1>1
  <2> QED BY <2>1, ConcatProperties
<1>4. InOrder(s \o t)
  <2> DEFINE st == s \o t
  <2>0. DOMAIN st = 1 .. Len(s) + Len(t)
    BY <1>1
  <2> HIDE DEF st
  <2> SUFFICES ASSUME NEW i \in 1 .. Len(s) + Len(t), NEW j \in 1 .. Len(s) + Len(t), i < j,
                      st[i][1] = st[j][1]
               PROVE  st[i][2] < st[j][2]
    BY <2>0 DEF InOrder, st
  <2>1. CASE j <= Len(s)
    <3>1. i \in 1 .. Len(s) /\ j \in 1 .. Len(s)
      BY <1>1, <2>1
    <3>2. st[i] = s[i] /\ st[j] = s[j]
      BY <1>2, <3>1 DEF st
    <3> QED BY <1>1, <3>1, <3>2 DEF InOrder
  <2>2. CASE i <= Len(s) /\ j > Len(s)
    <3>1. i \in 1 .. Len(s)
      BY <1>1, <2>2
    <3>2. /\ st[i] = s[i] /\ s[i] \in ToSet(s)
          /\ st[j] = t[j - Len(s)] /\ t[j - Len(s)] \in ToSet(t)
      BY <1>2, <1>3, <2>2, <3>1 DEF st
    <3> QED BY <3>2 DEF Older
  <2>3. CASE i > Len(s)
    <3>1. j > Len(s)
      BY <1>1, <2>3
    <3>2. /\ i - Len(s) \in 1 .. Len(t) /\ j - Len(s) \in 1 .. Len(t)
          /\ st[i] = t[i - Len(s)] /\ st[j] = t[j - Len(s)]
      BY <1>3, <2>3, <3>1 DEF st
    <3>3. i - Len(s) < j - Len(s)
      BY <1>1
    <3> QED BY <1>1, <3>2, <3>3 DEF InOrder
  <2> QED BY <1>1, <2>1, <2>2, <2>3
<1>5. ToSet(s) \subseteq ToSet(s \o t)
  <2> SUFFICES ASSUME NEW i \in 1 .. Len(s) PROVE s[i] \in ToSet(s \o t)
    BY <1>1 DEF ToSet
  <2>1. i \in 1 .. Len(s) + Len(t) /\ (s \o t)[i] = s[i]
    BY <1>1, <1>2
  <2> QED BY <1>1, <2>1 DEF ToSet
<1>6. ToSet(t) \subseteq ToSet(s \o t)
  <2> SUFFICES ASSUME NEW i \in 1 .. Len(t) PROVE t[i] \in ToSet(s \o t)
    BY <1>1 DEF ToSet
  <2>1. /\ i + Len(s) \in 1 .. Len(s) + Len(t) /\ i + Len(s) > Len(s)
        /\ (i + Len(s)) - Len(s) = i
    BY <1>1
  <2>2. (s \o t)[i + Len(s)] = t[i]
    BY <1>3, <2>1
  <2> QED BY <1>1, <2>1, <2>2 DEF ToSet
<1> QED BY <1>4, <1>5, <1>6, ConcatSet

LEMMA TailInOrder ==
    ASSUME NEW s \in Seq(Messages), s # <<>>, InOrder(s)
    PROVE  /\ InOrder(Tail(s)) /\ Older({Head(s)}, ToSet(Tail(s)))
           /\ ToSet(s) = {Head(s)} \cup ToSet(Tail(s))
<1>1. Len(s) \in Nat \ {0} /\ DOMAIN s = 1 .. Len(s) /\ Head(s) = s[1]
  BY EmptySeq, LenProperties
<1>2. /\ DOMAIN Tail(s) = 1 .. Len(s) - 1
      /\ \A i \in 1 .. Len(s) - 1 : Tail(s)[i] = s[i + 1] /\ i + 1 \in 1 .. Len(s)
  <2>1. /\ Len(Tail(s)) = Len(s) - 1
        /\ DOMAIN Tail(s) = 1 .. Len(s) - 1
        /\ \A i \in 1 .. Len(Tail(s)) : Tail(s)[i] = s[i + 1]
    BY <1>1, HeadTailProperties, LenProperties
  <2> QED BY <1>1, <2>1
<1>3. InOrder(Tail(s))
  <2> SUFFICES ASSUME NEW i \in 1 .. Len(s) - 1, NEW j \in 1 .. Len(s) - 1, i < j,
                      Tail(s)[i][1] = Tail(s)[j][1]
               PROVE  Tail(s)[i][2] < Tail(s)[j][2]
    BY <1>2 DEF InOrder
  <2>1. i + 1 < j + 1
    BY <1>1
  <2> QED BY <1>1, <1>2, <2>1 DEF InOrder
<1>4. Older({Head(s)}, ToSet(Tail(s)))
  <2> SUFFICES ASSUME NEW j \in 1 .. Len(s) - 1, s[1][1] = Tail(s)[j][1]
               PROVE  s[1][2] < Tail(s)[j][2]
    BY <1>1, <1>2 DEF Older, ToSet
  <2>1. 1 < j + 1 /\ 1 \in 1 .. Len(s)
    BY <1>1
  <2> QED BY <1>1, <1>2, <2>1 DEF InOrder
<1>5. ToSet(s) \subseteq {Head(s)} \cup ToSet(Tail(s))
  <2> SUFFICES ASSUME NEW i \in 1 .. Len(s), i # 1 PROVE s[i] \in ToSet(Tail(s))
    BY <1>1 DEF ToSet
  <2>1. i - 1 \in 1 .. Len(s) - 1 /\ (i - 1) + 1 = i
    BY <1>1
  <2>2. Tail(s)[i - 1] = s[i]
    BY <1>2, <2>1
  <2> QED BY <1>2, <2>1, <2>2 DEF ToSet
<1> QED BY <1>3, <1>4, <1>5, TailSet

-----------------------------------------------------------------------------
LEMMA Types ==
    ASSUME TypeOK
    PROVE  /\ \A c \in Consumers : /\ commitQueue[c] \in Seq(Messages)
                                   /\ assigned[c] \subseteq Partitions
                                   /\ \A t \in Topics : messages[c][t] \in Seq(Messages)
                                   /\ \A p \in Partitions : position[c][p] \in Nat
           /\ \A p \in Partitions : committed[p] \in Nat
           /\ Settled \subseteq Messages
  BY DEF TypeOK, Settled

\* A step that moves no record and no offset.
LEMMA OrderFrame ==
    ASSUME OrderInv,
           UNCHANGED <<messages, current, assigned, position, commitQueue, members, committed,
                       stored, dropped>>
    PROVE  OrderInv'
<1>1. SoleReader'
  BY DEF OrderInv, SoleReader
<1>2. QueueHeld' /\ BuffersHeld' /\ PositionHeld'
  BY DEF OrderInv, QueueHeld, BuffersHeld, PositionHeld, HeldBy
<1>3. CommitsInOrder' /\ SettledOnItsWay'
  BY DEF OrderInv, CommitsInOrder, SettledOnItsWay, Settled
<1> QED BY <1>1, <1>2, <1>3 DEF OrderInv

\* The record read next is newer than everything the process holds.
LEMMA OrderConsume ==
    ASSUME OrderInv, TypeOK, NEW c \in Consumers, NEW p \in Partitions, ConsumeMessage(c, p)
    PROVE  OrderInv'
<1> DEFINE t == TopicOf[p]
<1>0. /\ t \in Topics /\ <<p, position[c][p]>> \in Messages
      /\ position[c][p] \in Nat /\ p \in assigned[c]
      /\ messages[c][t] \in Seq(Messages) /\ commitQueue[c] \in Seq(Messages)
  <2>1. t \in Topics
    BY TopicAssumption
  <2>2. position[c][p] \in Nat /\ p \in assigned[c] /\ position[c][p] < LogEnd
    BY NatAssumption, Types DEF ConsumeMessage, Receive, TypeOK
  <2>3. <<p, position[c][p]>> \in Messages
    BY <2>2, NatAssumption DEF Messages, Offsets
  <2> QED BY <2>1, <2>2, <2>3, Types
<1>m. PICK m \in Messages : m = <<p, position[c][p]>>
  BY <1>0
<1>1. /\ t \in Topics /\ m \in Messages /\ m[1] = p /\ m[2] = position[c][p]
      /\ position[c][p] \in Nat /\ p \in assigned[c]
      /\ messages[c][t] \in Seq(Messages) /\ commitQueue[c] \in Seq(Messages)
  <2>1. m[1] = p
    BY <1>m
  <2>2. m[2] = position[c][p]
    BY <1>m
  <2> QED BY <1>0, <2>1, <2>2
<1>2. /\ messages' = [messages EXCEPT ![c][t] = Append(messages[c][t], m)]
      /\ position' = [position EXCEPT ![c][p] = position[c][p] + 1]
      /\ UNCHANGED <<current, assigned, commitQueue, members, committed, stored, dropped>>
  BY <1>m DEF ConsumeMessage, Receive, outcome
<1> HIDE DEF t
<1>3. /\ messages'[c][t] = Append(messages[c][t], m)
      /\ \A d \in Consumers, u \in Topics :
            ~(d = c /\ u = t) => messages'[d][u] = messages[d][u]
  <2>1. messages \in [Consumers -> [Topics -> Seq(Messages)]]
    BY DEF TypeOK
  <2> QED BY <1>1, <1>2, <2>1, NestedExcept
<1>4. /\ position'[c][p] = position[c][p] + 1
      /\ \A d \in Consumers, q \in Partitions : ~(d = c /\ q = p) => position'[d][q] = position[d][q]
  <2>1. position \in [Consumers -> [Partitions -> 0 .. LogEnd]]
    BY DEF TypeOK
  <2> QED BY <1>2, <2>1, NestedExcept
<1>5. ToSet(messages'[c][t]) = ToSet(messages[c][t]) \cup {m}
  BY <1>1, <1>3, AppendSet
<1>6. \A d \in Consumers, q \in Partitions :
        position[d][q] \in Nat /\ position'[d][q] \in Nat /\ position[d][q] <= position'[d][q]
  BY <1>1, <1>4, Types
<1>7. \A d \in Consumers, n \in Messages : HeldBy(d, n) => HeldBy(d, n)'
  <2> SUFFICES ASSUME NEW d \in Consumers, NEW n \in Messages, HeldBy(d, n)
               PROVE  n[2] < position'[d][n[1]]
    BY <1>2 DEF HeldBy
  <2>1. n[1] \in Partitions /\ n[2] \in Nat
    BY DEF Messages, Offsets
  <2> QED BY <1>6, <2>1 DEF HeldBy
<1>8. HeldBy(c, m)'
  <2>1. committed[p] <= position[c][p]
    BY <1>1 DEF OrderInv, PositionHeld
  <2> QED BY <1>1, <1>2, <1>4, <2>1 DEF HeldBy
<1>9. SoleReader'
  BY <1>2 DEF OrderInv, SoleReader
<1>10. QueueHeld'
  <2>1. \A d \in Consumers : ToSet(commitQueue[d]) \subseteq Messages
    BY Types, ElementOf
  <2> QED BY <1>2, <1>7, <2>1 DEF OrderInv, QueueHeld
<1>11. BuffersHeld'
  <2> SUFFICES ASSUME NEW d \in Consumers, NEW u \in Topics, NEW n \in ToSet(messages'[d][u])
               PROVE  HeldBy(d, n)' /\ TopicOf[n[1]] = u
    BY DEF BuffersHeld
  <2>1. CASE n \in ToSet(messages[d][u])
    <3>1. n \in Messages
      BY <2>1, Types, ElementOf
    <3> QED BY <1>7, <2>1, <3>1 DEF OrderInv, BuffersHeld
  <2>2. CASE n \notin ToSet(messages[d][u])
    <3>1. d = c /\ u = t /\ n = m
      BY <1>3, <1>5, <2>2
    <3> QED BY <1>1, <1>8, <3>1 DEF t
  <2> QED BY <2>1, <2>2
<1>12. PositionHeld'
  <2> SUFFICES ASSUME NEW d \in Consumers, NEW q \in assigned[d]
               PROVE  committed[q] <= position'[d][q]
    BY <1>2 DEF PositionHeld
  <2>1. q \in Partitions /\ committed[q] \in Nat /\ committed[q] <= position[d][q]
    BY Types DEF OrderInv, PositionHeld
  <2> QED BY <1>6, <2>1
<1>13. CommitsInOrder'
  <2>1. Older(ToSet(messages[c][t]), {m}) /\ Older(ToSet(commitQueue[c]), {m})
    BY <1>1 DEF Older, OrderInv, QueueHeld, BuffersHeld, HeldBy
  <2>2. InOrder(messages'[c][t])
    BY <1>1, <1>3, <2>1, AppendInOrder DEF OrderInv, CommitsInOrder
  <2>3. Older(ToSet(commitQueue[c]), ToSet(messages'[c][t]))
    BY <1>1, <1>5, <2>1 DEF Older, OrderInv, CommitsInOrder
  <2>4. ASSUME NEW d \in Consumers, NEW u \in Topics, ~(d = c /\ u = t)
        PROVE  InOrder(messages'[d][u]) /\ Older(ToSet(commitQueue[d]), ToSet(messages'[d][u]))
    BY <1>3, <2>4 DEF OrderInv, CommitsInOrder
  <2>5. \A d \in Consumers : InOrder(commitQueue[d])
    BY DEF OrderInv, CommitsInOrder
  <2>6. \A d \in Consumers, u \in Topics :
          InOrder(messages'[d][u]) /\ Older(ToSet(commitQueue[d]), ToSet(messages'[d][u]))
    BY <2>2, <2>3, <2>4
  <2>7. commitQueue' = commitQueue
    BY <1>2
  <2> QED BY <2>5, <2>6, <2>7 DEF CommitsInOrder, InOrder, Older
<1>14. SettledOnItsWay'
  <2> SUFFICES ASSUME NEW n \in Settled,
                      NEW d \in Consumers, current[d] # NoTopic, n \in ToSet(messages[d][current[d]])
               PROVE  n \in ToSet(messages'[d][current[d]])
    BY <1>2 DEF OrderInv, SettledOnItsWay, Settled
  <2>1. current[d] \in Topics
    BY DEF TypeOK
  <2> QED BY <1>3, <1>5, <2>1
<1> QED BY <1>9, <1>10, <1>11, <1>12, <1>13, <1>14 DEF OrderInv

\* The bundle that is stored is the one that is erased next.
LEMMA OrderOffer ==
    ASSUME OrderInv, TypeOK, NEW c \in Consumers, NEW t \in Topics,
           PutBundle(c, t) \/ PutFails(c, t) \/ SkipBundle(c, t)
    PROVE  OrderInv'
<1>1. /\ UNCHANGED <<messages, assigned, position, commitQueue, members, committed>>
      /\ current[c] = NoTopic /\ current' = [current EXCEPT ![c] = t]
      /\ Settled' \subseteq Settled \cup ToSet(messages[c][t])
  BY DEF PutBundle, PutFails, SkipBundle, Offering, client, Settled
<1>2. SoleReader' /\ QueueHeld' /\ BuffersHeld' /\ PositionHeld' /\ CommitsInOrder'
  <2>1. SoleReader' /\ PositionHeld'
    BY <1>1 DEF OrderInv, SoleReader, PositionHeld
  <2>2. QueueHeld' /\ BuffersHeld'
    BY <1>1 DEF OrderInv, QueueHeld, BuffersHeld, HeldBy
  <2>3. CommitsInOrder'
    BY <1>1 DEF OrderInv, CommitsInOrder
  <2> QED BY <2>1, <2>2, <2>3
<1>3. current'[c] = t /\ t # NoTopic /\ \A d \in Consumers \ {c} : current'[d] = current[d]
  BY <1>1, TopicAssumption DEF TypeOK
<1>4. SettledOnItsWay'
  <2> SUFFICES ASSUME NEW m \in Settled'
               PROVE  \/ m[2] < committed[m[1]]
                      \/ \E d \in Consumers : m \in ToSet(commitQueue[d])
                      \/ \E d \in Consumers : current'[d] # NoTopic /\ m \in ToSet(messages[d][current'[d]])
    BY <1>1 DEF SettledOnItsWay
  <2>1. CASE m \in ToSet(messages[c][t])
    BY <1>3, <2>1
  <2>2. CASE m \in Settled
    BY <1>1, <1>3, <2>2 DEF OrderInv, SettledOnItsWay
  <2> QED BY <1>1, <2>1, <2>2
<1> QED BY <1>2, <1>4 DEF OrderInv

\* The commits of a bundle go behind the queued ones.
LEMMA OrderErase ==
    ASSUME OrderInv, TypeOK, NEW c \in Consumers, EraseBundle(c)
    PROVE  OrderInv'
<1> DEFINE t == current[c]
           bundle == messages[c][t]
<1>1. /\ t \in Topics /\ t # NoTopic
      /\ bundle \in Seq(Messages) /\ commitQueue[c] \in Seq(Messages)
  BY DEF EraseBundle, TypeOK
<1>2. /\ commitQueue' = [commitQueue EXCEPT ![c] = commitQueue[c] \o bundle]
      /\ messages' = [messages EXCEPT ![c][t] = <<>>]
      /\ current' = [current EXCEPT ![c] = NoTopic]
      /\ UNCHANGED <<assigned, position, members, committed>>
      /\ Settled' = Settled \cup ToSet(bundle)
  BY DEF EraseBundle, CommitOrder, Settled
<1>3. /\ messages'[c][t] = <<>>
      /\ \A d \in Consumers, u \in Topics :
            ~(d = c /\ u = t) => messages'[d][u] = messages[d][u]
  <2>1. messages \in [Consumers -> [Topics -> Seq(Messages)]]
    BY DEF TypeOK
  <2> HIDE DEF t, bundle
  <2> QED BY <1>1, <1>2, <2>1, NestedExcept
<1>4. /\ InOrder(bundle) /\ InOrder(commitQueue[c])
      /\ Older(ToSet(commitQueue[c]), ToSet(bundle))
      /\ \A m \in ToSet(bundle) : HeldBy(c, m) /\ TopicOf[m[1]] = t
  BY <1>1 DEF OrderInv, CommitsInOrder, BuffersHeld
<1>5. /\ commitQueue'[c] = commitQueue[c] \o bundle
      /\ \A d \in Consumers \ {c} : commitQueue'[d] = commitQueue[d]
      /\ current'[c] = NoTopic /\ \A d \in Consumers \ {c} : current'[d] = current[d]
  BY <1>2 DEF TypeOK
<1> HIDE DEF t, bundle
<1>6. InOrder(commitQueue'[c]) /\ ToSet(commitQueue'[c]) = ToSet(commitQueue[c]) \cup ToSet(bundle)
  BY <1>1, <1>4, <1>5, ConcatInOrder
<1>7. SoleReader' /\ PositionHeld'
  BY <1>2 DEF OrderInv, SoleReader, PositionHeld
<1>8. QueueHeld'
  BY <1>2, <1>4, <1>5, <1>6 DEF OrderInv, QueueHeld, HeldBy
<1>9. BuffersHeld'
  <2> SUFFICES ASSUME NEW d \in Consumers, NEW u \in Topics, NEW n \in ToSet(messages'[d][u])
               PROVE  HeldBy(d, n) /\ TopicOf[n[1]] = u
    BY <1>2 DEF BuffersHeld, HeldBy
  <2>1. n \in ToSet(messages[d][u])
    BY <1>3, EmptySet
  <2> QED BY <2>1 DEF OrderInv, BuffersHeld
<1>10. CommitsInOrder'
  <2>1. \A d \in Consumers : InOrder(commitQueue'[d])
    BY <1>5, <1>6 DEF OrderInv, CommitsInOrder
  <2>2. ASSUME NEW d \in Consumers, NEW u \in Topics
        PROVE  InOrder(messages'[d][u]) /\ Older(ToSet(commitQueue'[d]), ToSet(messages'[d][u]))
    <3>1. CASE d = c /\ u = t
      BY <1>3, <3>1, EmptySet DEF InOrder, Older
    <3>2. CASE d = c /\ u # t
      <4>1. messages'[d][u] = messages[d][u]
        BY <1>3, <3>2
      <4>2. Older(ToSet(bundle), ToSet(messages[c][u]))
        BY <1>4, <3>2 DEF Older, OrderInv, BuffersHeld
      <4> QED BY <1>6, <3>2, <4>1, <4>2 DEF Older, OrderInv, CommitsInOrder
    <3>3. CASE d # c
      BY <1>3, <1>5, <3>3 DEF OrderInv, CommitsInOrder
    <3> QED BY <3>1, <3>2, <3>3
  <2> QED BY <2>1, <2>2 DEF CommitsInOrder, InOrder, Older
<1>11. SettledOnItsWay'
  <2> SUFFICES ASSUME NEW m \in Settled'
               PROVE  \/ m[2] < committed[m[1]]
                      \/ \E d \in Consumers : m \in ToSet(commitQueue'[d])
                      \/ \E d \in Consumers : current'[d] # NoTopic /\ m \in ToSet(messages'[d][current'[d]])
    BY <1>2 DEF SettledOnItsWay
  <2>1. CASE m[2] < committed[m[1]]
    BY <2>1
  <2>2. ASSUME NEW d \in Consumers, m \in ToSet(commitQueue[d]) PROVE m \in ToSet(commitQueue'[d])
    BY <1>5, <1>6, <2>2
  <2>3. ASSUME NEW d \in Consumers, current[d] # NoTopic, m \in ToSet(messages[d][current[d]]), d # c
        PROVE  current'[d] # NoTopic /\ m \in ToSet(messages'[d][current'[d]])
    <3>1. current[d] \in Topics
      BY <2>3 DEF TypeOK
    <3> QED BY <1>3, <1>5, <2>3, <3>1
  <2>4. m \in ToSet(messages[c][current[c]]) => m \in ToSet(commitQueue'[c])
    BY <1>6 DEF t, bundle
  <2>5. m \in ToSet(bundle) => m \in ToSet(commitQueue'[c])
    BY <1>6
  <2> QED BY <1>2, <2>1, <2>2, <2>3, <2>4, <2>5 DEF OrderInv, SettledOnItsWay
<1> QED BY <1>7, <1>8, <1>9, <1>10, <1>11 DEF OrderInv

\* The oldest commit is applied: what the process still holds is newer, and
\* nobody else holds records of that partition.
LEMMA OrderDelivered ==
    ASSUME OrderInv, TypeOK, NEW c \in Consumers, CommitDelivered(c)
    PROVE  OrderInv' /\ \A p \in Partitions : committed[p] <= committed'[p]
<1> DEFINE m == Head(commitQueue[c])
<1>1. commitQueue[c] \in Seq(Messages) /\ commitQueue[c] # <<>>
  BY DEF CommitDelivered, TypeOK
<1>2. /\ committed' = [committed EXCEPT ![m[1]] = m[2] + 1]
      /\ commitQueue' = [commitQueue EXCEPT ![c] = Tail(commitQueue[c])]
      /\ UNCHANGED <<messages, current, assigned, position, members, stored, dropped>>
      /\ Settled' = Settled
  BY DEF CommitDelivered, process, outcome, Settled
<1>3. /\ InOrder(Tail(commitQueue[c])) /\ Older({m}, ToSet(Tail(commitQueue[c])))
      /\ ToSet(commitQueue[c]) = {m} \cup ToSet(Tail(commitQueue[c]))
  BY <1>1, TailInOrder DEF OrderInv, CommitsInOrder
<1> HIDE DEF m
<1>4. m \in Messages /\ m[1] \in Partitions /\ m[2] \in Nat /\ HeldBy(c, m)
  BY <1>1, <1>3, ElementOf DEF OrderInv, QueueHeld
<1>5. /\ committed'[m[1]] = m[2] + 1
      /\ \A p \in Partitions : p # m[1] => committed'[p] = committed[p]
  BY <1>2, <1>4 DEF TypeOK
<1>6. /\ commitQueue'[c] = Tail(commitQueue[c])
      /\ \A d \in Consumers \ {c} : commitQueue'[d] = commitQueue[d]
  BY <1>2 DEF TypeOK
<1>7. \A p \in Partitions : committed[p] <= committed'[p]
  BY <1>4, <1>5, Types DEF HeldBy
<1>8. ASSUME NEW d \in Consumers, NEW n \in Messages, HeldBy(d, n), d = c => Older({m}, {n})
      PROVE  HeldBy(d, n)'
  <2>1. n[1] \in Partitions /\ n[2] \in Nat
    BY DEF Messages, Offsets
  <2>2. committed'[n[1]] <= n[2]
    <3>1. CASE n[1] # m[1]
      BY <1>5, <1>8, <2>1, <3>1 DEF HeldBy
    <3>2. CASE n[1] = m[1]
      <4>1. d = c
        BY <1>4, <1>8, <3>2 DEF HeldBy, OrderInv, SoleReader
      <4>2. m[2] < n[2]
        BY <1>8, <3>2, <4>1 DEF Older
      <4> QED BY <1>4, <1>5, <2>1, <3>2, <4>2
    <3> QED BY <3>1, <3>2
  <2> QED BY <1>2, <1>8, <2>2 DEF HeldBy
<1>9. SoleReader'
  BY <1>2 DEF OrderInv, SoleReader
<1>10. QueueHeld'
  <2> SUFFICES ASSUME NEW d \in Consumers, NEW n \in ToSet(commitQueue'[d]) PROVE HeldBy(d, n)'
    BY DEF QueueHeld
  <2>1. n \in ToSet(commitQueue[d])
    BY <1>3, <1>6
  <2>2. n \in Messages /\ HeldBy(d, n)
    BY <2>1, Types, ElementOf DEF OrderInv, QueueHeld
  <2>3. d = c => Older({m}, {n})
    BY <1>3, <1>6 DEF Older
  <2> QED BY <1>8, <2>2, <2>3
<1>11. BuffersHeld'
  <2> SUFFICES ASSUME NEW d \in Consumers, NEW u \in Topics, NEW n \in ToSet(messages[d][u])
               PROVE  HeldBy(d, n)' /\ TopicOf[n[1]] = u
    BY <1>2 DEF BuffersHeld
  <2>1. n \in Messages /\ HeldBy(d, n) /\ TopicOf[n[1]] = u
    BY Types, ElementOf DEF OrderInv, BuffersHeld
  <2>2. d = c => Older({m}, {n})
    BY <1>3 DEF Older, OrderInv, CommitsInOrder
  <2> QED BY <1>8, <2>1, <2>2
<1>12. PositionHeld'
  <2> SUFFICES ASSUME NEW d \in Consumers, NEW p \in assigned[d]
               PROVE  committed'[p] <= position[d][p]
    BY <1>2 DEF PositionHeld
  <2>1. p \in Partitions /\ position[d][p] \in Nat /\ committed[p] <= position[d][p]
    BY Types DEF OrderInv, PositionHeld
  <2>2. p = m[1] => d = c
    BY <1>4 DEF HeldBy, OrderInv, SoleReader
  <2>3. p = m[1] => m[2] + 1 <= position[d][p]
    BY <1>4, <2>1, <2>2 DEF HeldBy
  <2> QED BY <1>5, <2>1, <2>3
<1>13. CommitsInOrder'
  <2>1. \A d \in Consumers : InOrder(commitQueue'[d]) /\ ToSet(commitQueue'[d]) \subseteq ToSet(commitQueue[d])
    BY <1>3, <1>6 DEF OrderInv, CommitsInOrder
  <2>2. \A d \in Consumers, u \in Topics :
          InOrder(messages[d][u]) /\ Older(ToSet(commitQueue'[d]), ToSet(messages[d][u]))
    BY <2>1 DEF Older, OrderInv, CommitsInOrder
  <2>3. messages' = messages
    BY <1>2
  <2> QED BY <2>1, <2>2, <2>3 DEF CommitsInOrder, InOrder, Older
<1>14. SettledOnItsWay'
  <2> SUFFICES ASSUME NEW n \in Settled, n[2] >= committed'[n[1]],
                      \A d \in Consumers : n \notin ToSet(commitQueue'[d])
               PROVE  \E d \in Consumers : current[d] # NoTopic /\ n \in ToSet(messages[d][current[d]])
    <3>1. \A n \in Settled : n[2] \in Nat /\ committed'[n[1]] \in Nat
      <4>1. \A n \in Settled : n[1] \in Partitions /\ n[2] \in Nat
        BY Types DEF Messages, Offsets
      <4>2. \A p \in Partitions : committed'[p] \in Nat
        BY <1>4, <1>5, Types
      <4> QED BY <4>1, <4>2
    <3>2. \A n \in Settled : ~(n[2] < committed'[n[1]]) => n[2] >= committed'[n[1]]
      BY <3>1
    <3> QED BY <1>2, <3>2 DEF SettledOnItsWay
  <2>1. n[1] \in Partitions /\ n[2] \in Nat
    BY Types DEF Messages, Offsets
  <2>2. committed[n[1]] \in Nat /\ committed'[n[1]] \in Nat
    BY <1>4, <1>5, <2>1, Types
  <2>3. ~(n[2] < committed[n[1]])
    BY <1>7, <2>1, <2>2
  <2>4. n # m
    BY <1>4, <1>5
  <2>5. \A d \in Consumers : n \notin ToSet(commitQueue[d])
    BY <1>3, <1>6, <2>4
  <2> QED BY <2>3, <2>5 DEF OrderInv, SettledOnItsWay
<1> QED BY <1>7, <1>9, <1>10, <1>11, <1>12, <1>13, <1>14 DEF OrderInv

\* A closed consumer has nothing to commit left.
LEMMA OrderClose ==
    ASSUME OrderInv, TypeOK, NoWrapperOutlivesConsumer, NEW c \in Consumers, Close(c)
    PROVE  OrderInv'
<1>1. /\ commitQueue[c] = <<>> /\ Pending(c) = {}
      /\ assigned' = [assigned EXCEPT ![c] = {}]
      /\ position' = [position EXCEPT ![c] = AtStart]
      /\ commitQueue' = [commitQueue EXCEPT ![c] = <<>>]
      /\ members' = members \ {c}
      /\ UNCHANGED <<messages, current, committed>> /\ Settled' = Settled
  BY DEF Close, LeaveGroup, outcome, NoWrapperOutlivesConsumer, Settled
<1>2. /\ commitQueue' = commitQueue /\ assigned'[c] = {}
      /\ \A d \in Consumers \ {c} : assigned'[d] = assigned[d] /\ position'[d] = position[d]
  BY <1>1 DEF TypeOK
<1>3. \A u \in Topics : messages[c][u] = <<>>
  BY <1>1 DEF Pending
<1>4. SoleReader'
  BY <1>1, <1>2 DEF OrderInv, SoleReader
<1>5. QueueHeld'
  BY <1>1, <1>2, EmptySet DEF OrderInv, QueueHeld, HeldBy
<1>6. BuffersHeld'
  BY <1>1, <1>2, <1>3, EmptySet DEF OrderInv, BuffersHeld, HeldBy
<1>7. PositionHeld'
  BY <1>1, <1>2 DEF OrderInv, PositionHeld
<1>8. CommitsInOrder' /\ SettledOnItsWay'
  BY <1>1, <1>2 DEF OrderInv, CommitsInOrder, SettledOnItsWay
<1> QED BY <1>4, <1>5, <1>6, <1>7, <1>8 DEF OrderInv

\* An orderly rebalance finds nothing held, and everything stored committed.
LEMMA OrderRebalance ==
    ASSUME OrderInv, TypeOK, NEW N \in SUBSET Consumers \ {{}}, NEW owner \in [Partitions -> N],
           Rebalance(N, owner), CleanHandover(N)
    PROVE  OrderInv'
<1>1. /\ members' = N
      /\ \A d \in N : /\ assigned'[d] = {p \in Partitions : owner[p] = d}
                      /\ \A p \in assigned'[d] : position'[d][p] = StartOffset(p)
      /\ \A d \in Consumers \ N : assigned'[d] = {}
      /\ UNCHANGED <<messages, current, commitQueue, committed>> /\ Settled' = Settled
  BY DEF Rebalance, CleanHandover, process, Settled
<1>2. \A d \in Consumers : commitQueue[d] = <<>> /\ \A u \in Topics : messages[d][u] = <<>>
  BY DEF CleanHandover, Pending
<1>3. SoleReader'
  BY <1>1 DEF SoleReader
<1>4. QueueHeld' /\ BuffersHeld'
  BY <1>1, <1>2, EmptySet DEF QueueHeld, BuffersHeld
<1>5. PositionHeld'
  <2>1. \A p \in Partitions : committed[p] <= StartOffset(p)
    <3>1. \A p \in Partitions : committed[p] \in Nat /\ produced[p] \in Nat
      BY DEF TypeOK
    <3> QED BY <3>1 DEF StartOffset
  <2> QED BY <1>1, <2>1 DEF PositionHeld
<1>6. CommitsInOrder' /\ SettledOnItsWay'
  BY <1>1 DEF OrderInv, CommitsInOrder, SettledOnItsWay
<1> QED BY <1>3, <1>4, <1>5, <1>6 DEF OrderInv

-----------------------------------------------------------------------------
LEMMA OrderInit == Init => Inv
<1> SUFFICES ASSUME Init PROVE Inv
  OBVIOUS
<1>1. /\ \A c \in Consumers : commitQueue[c] = <<>> /\ assigned[c] = {}
      /\ \A c \in Consumers, t \in Topics : messages[c][t] = <<>>
      /\ Settled = {}
  BY DEF Init, NoMessages, Settled
<1>2. SoleReader /\ QueueHeld /\ BuffersHeld /\ PositionHeld /\ SettledOnItsWay
  BY <1>1, EmptySet DEF SoleReader, QueueHeld, BuffersHeld, PositionHeld, SettledOnItsWay
<1>3. CommitsInOrder
  BY <1>1, EmptySet DEF CommitsInOrder, InOrder, Older
<1> QED BY <1>2, <1>3, WrapperInit DEF Inv, OrderInv

\* Disruptions are counted and never forgotten.
LEMMA DisruptionsGrow ==
    ASSUME [Next]_vars, disruptions \in Nat, disruptions' = 0
    PROVE  disruptions = 0
<1>1. ASSUME NEW c \in Consumers,
             Start(c) \/ Signal(c) \/ ConsumeError(c) \/ MemoryRestart(c) \/ Stop(c)
      PROVE  disruptions' = disruptions
  BY <1>1 DEF Start, Signal, ConsumeError, MemoryRestart, Stop, Leave
<1>2. ASSUME NEW c \in Consumers,
             \/ \E p \in Partitions : ConsumeMessage(c, p)
             \/ \E t \in Topics : PutBundle(c, t) \/ PutFails(c, t) \/ SkipBundle(c, t)
             \/ EraseBundle(c) \/ Close(c) \/ CommitDelivered(c)
      PROVE  disruptions' = disruptions
  BY <1>2 DEF ConsumeMessage, Receive, PutBundle, PutFails, SkipBundle, Offering, EraseBundle,
              Close, LeaveGroup, CommitDelivered
<1>3. ASSUME NEW c \in Consumers, Crash(c) \/ CommitLost(c)
      PROVE  disruptions' = disruptions \/ disruptions' = disruptions + 1
  BY <1>3 DEF Crash, CommitLost, Disrupted
<1>4. ASSUME NEW N \in SUBSET Consumers \ {{}}, NEW owner \in [Partitions -> N],
             Rebalance(N, owner)
      PROVE  disruptions' = disruptions \/ disruptions' = disruptions + 1
  BY <1>4 DEF Rebalance, Disrupted
<1>5. AllExited \/ UNCHANGED vars \/ (\E p \in Partitions : Produce(p)) =>
        disruptions' = disruptions
  BY DEF AllExited, Produce, vars
<1>6. disruptions' = disruptions \/ disruptions' = disruptions + 1
  BY <1>1, <1>2, <1>3, <1>4, <1>5 DEF Next, LoopStep, Stash
<1> QED BY <1>6

\* While nothing is disrupted a process with commits on their way is a member,
\* so that they are accepted.
LEMMA UndisturbedDelivery ==
    ASSUME Inv, disruptions = 0, NEW c \in Consumers, CommitLost(c), disruptions' = 0
    PROVE  FALSE
<1>1. TypeOK /\ OrderInv
  BY DEF Inv, WrapperInv
<1>2. commitQueue[c] # <<>> /\ c \notin members /\ commitQueue[c] \in Seq(Messages)
  BY <1>1 DEF CommitLost, Disrupted, TypeOK
<1>3. Head(commitQueue[c]) \in ToSet(commitQueue[c])
  BY <1>2, TailSet
<1> QED BY <1>1, <1>2, <1>3 DEF OrderInv, QueueHeld, HeldBy, SoleReader

\* What every undisturbed step keeps, and what it never does.
LEMMA OrderStep ==
    ASSUME Inv, [Next]_vars, disruptions' = 0
    PROVE  OrderInv' /\ \A p \in Partitions : committed[p] <= committed'[p]
<1>1. TypeOK /\ NoWrapperOutlivesConsumer /\ disruptions \in Nat
  BY DEF Inv, WrapperInv, TypeOK
<1>2. disruptions = 0 /\ OrderInv
  BY <1>1, DisruptionsGrow DEF Inv
<1>3. \A p \in Partitions : committed[p] \in Nat
  BY <1>1, Types
<1>4. ASSUME NEW c \in Consumers,
             Start(c) \/ Signal(c) \/ ConsumeError(c) \/ MemoryRestart(c) \/ Stop(c)
      PROVE  UNCHANGED <<messages, current, assigned, position, commitQueue, members, committed,
                         stored, dropped>>
  BY <1>4 DEF Start, Signal, ConsumeError, MemoryRestart, Stop, Leave, client, outcome
<1>5. ASSUME NEW c \in Consumers, Crash(c) PROVE FALSE
  BY <1>2, <1>5 DEF Crash, Disrupted
<1>6. ASSUME NEW c \in Consumers, CommitLost(c) PROVE FALSE
  BY <1>2, <1>6, UndisturbedDelivery DEF Inv
<1>7. ASSUME NEW N \in SUBSET Consumers \ {{}}, NEW owner \in [Partitions -> N],
             Rebalance(N, owner)
      PROVE  CleanHandover(N) /\ committed' = committed
  BY <1>2, <1>7 DEF Rebalance, Disrupted
<1>8. ASSUME NEW c \in Consumers,
             \/ \E p \in Partitions : ConsumeMessage(c, p)
             \/ \E t \in Topics : PutBundle(c, t) \/ PutFails(c, t) \/ SkipBundle(c, t)
             \/ EraseBundle(c) \/ Close(c)
      PROVE  OrderInv' /\ committed' = committed
  <2>1. OrderInv'
    BY <1>1, <1>2, <1>8, OrderConsume, OrderOffer, OrderErase, OrderClose
  <2>2. committed' = committed
    BY <1>8 DEF ConsumeMessage, Receive, PutBundle, PutFails, SkipBundle, Offering, EraseBundle,
                Close, LeaveGroup
  <2> QED BY <2>1, <2>2
<1>9. CASE AllExited \/ UNCHANGED vars \/ \E p \in Partitions : Produce(p)
  <2>1. UNCHANGED <<messages, current, assigned, position, commitQueue, members, committed,
                    stored, dropped>>
    BY <1>9 DEF AllExited, Produce, vars, process, client, outcome
  <2> QED BY <1>2, <1>3, <2>1, OrderFrame
<1>10. ASSUME NEW c \in Consumers,
              Start(c) \/ Signal(c) \/ ConsumeError(c) \/ MemoryRestart(c) \/ Stop(c)
       PROVE  OrderInv' /\ committed' = committed
  BY <1>2, <1>4, <1>10, OrderFrame
<1>11. ASSUME NEW N \in SUBSET Consumers \ {{}}, NEW owner \in [Partitions -> N],
              Rebalance(N, owner)
       PROVE  OrderInv' /\ committed' = committed
  BY <1>1, <1>2, <1>7, <1>11, OrderRebalance
<1>12. ASSUME NEW c \in Consumers, CommitDelivered(c)
       PROVE  OrderInv' /\ \A p \in Partitions : committed[p] <= committed'[p]
  BY <1>1, <1>2, <1>12, OrderDelivered
<1> QED BY <1>3, <1>5, <1>6, <1>8, <1>9, <1>10, <1>11, <1>12 DEF Next, LoopStep, Stash

LEMMA OrderNext == Inv /\ [Next]_vars => Inv'
<1>1. Inv /\ [Next]_vars => WrapperInv'
  BY WrapperNext DEF Inv
<1> QED BY <1>1, OrderStep DEF Inv

LEMMA OrderAlways == Spec => []Inv
  BY OrderInit, OrderNext, PTL DEF Spec

\* A bundle that is not offered yet holds nothing that was settled before.
LEMMA NothingOfferedTwice ==
    ASSUME Inv, disruptions = 0, NEW c \in Consumers, NEW t \in Topics, current[c] = NoTopic
    PROVE  ToSet(messages[c][t]) \cap Settled = {}
<1> SUFFICES ASSUME NEW m \in ToSet(messages[c][t]), m \in Settled PROVE FALSE
  OBVIOUS
<1>1. TypeOK /\ OrderInv
  BY DEF Inv, WrapperInv
<1>2. HeldBy(c, m) /\ TopicOf[m[1]] = t /\ m[1] \in Partitions /\ m[2] \in Nat
      /\ committed[m[1]] \in Nat
  <2>1. m \in Messages
    BY <1>1, Types
  <2>2. m[1] \in Partitions /\ m[2] \in Nat
    BY <2>1 DEF Messages, Offsets
  <2> QED BY <1>1, <2>2, Types DEF OrderInv, BuffersHeld
<1>3. ~(m[2] < committed[m[1]])
  BY <1>2 DEF HeldBy
<1>4. ASSUME NEW d \in Consumers, m \in ToSet(commitQueue[d]) PROVE FALSE
  <2>1. d = c
    BY <1>1, <1>2, <1>4 DEF OrderInv, QueueHeld, HeldBy, SoleReader
  <2>2. m[2] < m[2]
    BY <1>1, <1>4, <2>1 DEF OrderInv, CommitsInOrder, Older
  <2> QED BY <1>2, <2>2
<1>5. ASSUME NEW d \in Consumers, current[d] # NoTopic, m \in ToSet(messages[d][current[d]])
      PROVE  FALSE
  <2>1. current[d] \in Topics
    BY <1>1, <1>5 DEF TypeOK
  <2>2. HeldBy(d, m)
    BY <1>1, <1>5, <2>1 DEF OrderInv, BuffersHeld
  <2> QED BY <1>1, <1>2, <1>5, <2>2 DEF OrderInv, HeldBy, SoleReader
<1> QED BY <1>1, <1>3, <1>4, <1>5 DEF OrderInv, SettledOnItsWay

\* Committed offsets move back only after a crash, a lost commit or a
\* rebalance that interrupts a bundle.  (~MessageWrapper, ~Consume)
THEOREM OffsetsAdvance == Spec => CommitsAdvance
<1>1. Inv /\ [Next]_vars =>
        [disruptions' = 0 => \A p \in Partitions : committed'[p] >= committed[p]]_vars
  <2> SUFFICES ASSUME Inv, [Next]_vars, disruptions' = 0, NEW p \in Partitions
               PROVE  committed'[p] >= committed[p]
    OBVIOUS
  <2>1. committed[p] <= committed'[p] /\ committed[p] \in Nat
    BY OrderStep DEF Inv, WrapperInv, TypeOK
  <2>2. committed'[p] \in Nat
    BY WrapperNext DEF Inv, WrapperInv, TypeOK
  <2> QED BY <2>1, <2>2
<1> QED BY <1>1, OrderAlways, PTL DEF Spec, CommitsAdvance

\* Without a disruption no record is PUT a second time, through any sequence
\* of memory restarts, shutdowns and handovers.  (stash_by_topic, ~Consume)
THEOREM StoredOnce == Spec => NoDuplicateUndisturbed
<1>1. Inv /\ [Next]_vars =>
        [\A c \in Consumers, t \in Topics :
           disruptions = 0 /\ current[c] = NoTopic /\ current'[c] = t =>
               ToSet(messages[c][t]) \cap stored = {}]_vars
  BY NothingOfferedTwice DEF Settled
<1> QED BY <1>1, OrderAlways, PTL DEF Spec, NoDuplicateUndisturbed

-----------------------------------------------------------------------------
(* Until something is disrupted only unread records are passed over.       *)

\* A record that was passed over is older than whatever was read, is read or
\* will be read of its partition.
PassedBelow ==
    \A m \in passed :
        /\ m \notin Settled
        /\ m[2] < produced[m[1]]
        /\ committed[m[1]] = 0 \/ m[2] < committed[m[1]]
        /\ \A c \in Consumers :
              /\ m[1] \in assigned[c] => m[2] < position[c][m[1]]
              /\ Older({m}, ToSet(commitQueue[c]))
              /\ \A t \in Topics : Older({m}, ToSet(messages[c][t]))

PassedInv == disruptions = 0 => PassedBelow

\* A step that moves no record and no offset, but perhaps the end of a log.
LEMMA PassedFrame ==
    ASSUME PassedBelow, TypeOK, TypeOK',
           UNCHANGED <<messages, assigned, position, commitQueue, committed, stored, dropped,
                       passed>>,
           \A p \in Partitions : produced[p] <= produced'[p]
    PROVE  PassedBelow'
<1> SUFFICES ASSUME NEW m \in passed PROVE m[2] < produced'[m[1]]
  BY DEF PassedBelow, Settled, Older
<1>1. m \in Messages
  BY DEF TypeOK
<1>2. m[1] \in Partitions /\ m[2] \in Int
  BY <1>1, NatAssumption DEF Messages, Offsets
<1>3. m[2] < produced[m[1]]
  BY DEF PassedBelow
<1>4. produced[m[1]] \in Int
  <2>1. \A p \in Partitions : produced[p] \in 0..LogEnd
    BY DEF TypeOK
  <2> QED BY <1>2, <2>1
<1>5. produced'[m[1]] \in Int
  <2>1. \A p \in Partitions : produced'[p] \in 0..LogEnd
    BY DEF TypeOK
  <2> QED BY <1>2, <2>1
<1> QED BY <1>2, <1>3, <1>4, <1>5

LEMMA PassedConsume ==
    ASSUME PassedBelow, TypeOK, NEW c \in Consumers, NEW p \in Partitions, ConsumeMessage(c, p)
    PROVE  PassedBelow'
<1>m. PICK n : n = <<p, position[c][p]>>
  OBVIOUS
<1> DEFINE t == TopicOf[p]
<1>1. /\ p \in assigned[c] /\ position[c][p] \in Nat /\ n \in Messages
      /\ n[1] = p /\ n[2] = position[c][p] /\ t \in Topics
  <2>1. p \in assigned[c] /\ position[c][p] \in Nat /\ position[c][p] < LogEnd
    BY NatAssumption DEF ConsumeMessage, Receive, TypeOK
  <2>2. n \in Messages
    BY <1>m, <2>1, NatAssumption DEF Messages, Offsets
  <2> QED BY <1>m, <2>1, <2>2, TopicAssumption
<1>2. /\ messages' = [messages EXCEPT ![c][t] = Append(messages[c][t], n)]
      /\ position' = [position EXCEPT ![c][p] = position[c][p] + 1]
      /\ UNCHANGED <<assigned, commitQueue, committed, produced, stored, dropped, passed>>
  BY <1>m DEF ConsumeMessage, Receive, outcome
<1> HIDE DEF t
<1>3. /\ messages'[c][t] = Append(messages[c][t], n)
      /\ \A d \in Consumers, u \in Topics :
            ~(d = c /\ u = t) => messages'[d][u] = messages[d][u]
  <2>1. messages \in [Consumers -> [Topics -> Seq(Messages)]]
    BY DEF TypeOK
  <2> QED BY <1>1, <1>2, <2>1, NestedExcept
<1>4. ToSet(messages'[c][t]) = ToSet(messages[c][t]) \cup {n}
  BY <1>1, <1>3, Types, AppendSet
<1>5. /\ position'[c][p] = position[c][p] + 1
      /\ \A d \in Consumers, q \in Partitions : ~(d = c /\ q = p) => position'[d][q] = position[d][q]
  <2>1. position \in [Consumers -> [Partitions -> 0 .. LogEnd]]
    BY DEF TypeOK
  <2> QED BY <1>2, <2>1, NestedExcept
<1>6. ASSUME NEW m \in passed, NEW d \in Consumers, m[1] \in assigned'[d]
      PROVE  m[2] < position'[d][m[1]]
  <2>1. m[1] \in Partitions /\ m[2] \in Int
    <3>1. m \in Messages
      BY DEF TypeOK
    <3> QED BY <3>1, NatAssumption DEF Messages, Offsets
  <2>2. m[2] < position[d][m[1]]
    BY <1>2, <1>6 DEF PassedBelow
  <2>3. CASE d = c /\ m[1] = p
    BY <1>1, <1>5, <2>1, <2>2, <2>3
  <2>4. CASE ~(d = c /\ m[1] = p)
    BY <1>5, <2>1, <2>2, <2>4
  <2> QED BY <2>3, <2>4
<1>7. ASSUME NEW m \in passed, NEW d \in Consumers, NEW u \in Topics
      PROVE  Older({m}, ToSet(messages'[d][u]))
  <2>1. Older({m}, ToSet(messages[d][u]))
    BY DEF PassedBelow
  <2>2. CASE d = c /\ u = t
    <3>1. m[1] = p => m[2] < n[2]
      BY <1>1 DEF PassedBelow
    <3> QED BY <1>1, <1>4, <2>1, <2>2, <3>1 DEF Older
  <2>3. CASE ~(d = c /\ u = t)
    BY <1>3, <2>1, <2>3
  <2> QED BY <2>2, <2>3
<1>8. ASSUME NEW m \in passed
      PROVE  /\ m \notin Settled' /\ m[2] < produced'[m[1]]
             /\ committed'[m[1]] = 0 \/ m[2] < committed'[m[1]]
             /\ \A d \in Consumers : Older({m}, ToSet(commitQueue'[d]))
  BY <1>2 DEF PassedBelow, Settled
<1>9. passed' = passed
  BY <1>2
<1> QED BY <1>6, <1>7, <1>8, <1>9 DEF PassedBelow, Older

\* What is offered or erased was read, and was not passed over.
LEMMA PassedOffer ==
    ASSUME PassedBelow, NEW c \in Consumers, NEW t \in Topics,
           PutBundle(c, t) \/ PutFails(c, t) \/ SkipBundle(c, t), TypeOK
    PROVE  PassedBelow'
<1>1. /\ UNCHANGED <<messages, assigned, position, commitQueue, committed, produced, passed>>
      /\ Settled' \subseteq Settled \cup ToSet(messages[c][t])
  BY DEF PutBundle, PutFails, SkipBundle, Offering, client, Settled
<1>2. ASSUME NEW m \in passed PROVE m \notin Settled'
  <2>1. m[2] \in Int
    BY NatAssumption DEF TypeOK, Messages, Offsets
  <2>2. ~(m[2] < m[2])
    BY <2>1
  <2>3. m \notin ToSet(messages[c][t])
    BY <2>2 DEF PassedBelow, Older
  <2> QED BY <1>1, <2>3 DEF PassedBelow
<1> QED BY <1>1, <1>2 DEF PassedBelow, Older

LEMMA PassedErase ==
    ASSUME PassedBelow, TypeOK, NEW c \in Consumers, EraseBundle(c)
    PROVE  PassedBelow'
<1> DEFINE t == current[c]
           bundle == messages[c][t]
<1>1. /\ t \in Topics /\ t # NoTopic
      /\ bundle \in Seq(Messages) /\ commitQueue[c] \in Seq(Messages)
  BY DEF EraseBundle, TypeOK
<1>2. /\ commitQueue' = [commitQueue EXCEPT ![c] = commitQueue[c] \o bundle]
      /\ messages' = [messages EXCEPT ![c][t] = <<>>]
      /\ UNCHANGED <<assigned, position, produced, committed, passed>>
      /\ Settled' = Settled \cup ToSet(bundle)
  BY DEF EraseBundle, CommitOrder, Settled
<1>3. /\ messages'[c][t] = <<>>
      /\ \A d \in Consumers, u \in Topics :
            ~(d = c /\ u = t) => messages'[d][u] = messages[d][u]
  <2>1. messages \in [Consumers -> [Topics -> Seq(Messages)]]
    BY DEF TypeOK
  <2> HIDE DEF t, bundle
  <2> QED BY <1>1, <1>2, <2>1, NestedExcept
<1>4. /\ commitQueue'[c] = commitQueue[c] \o bundle
      /\ \A d \in Consumers \ {c} : commitQueue'[d] = commitQueue[d]
  BY <1>2 DEF TypeOK
<1>5. \A m \in passed : Older({m}, ToSet(bundle))
  BY <1>1 DEF PassedBelow
<1> HIDE DEF t, bundle
<1>6. ToSet(commitQueue'[c]) \subseteq ToSet(commitQueue[c]) \cup ToSet(bundle)
  BY <1>1, <1>4, ConcatSet
<1>7. ASSUME NEW m \in passed, NEW d \in Consumers
      PROVE  /\ Older({m}, ToSet(commitQueue'[d]))
             /\ \A u \in Topics : Older({m}, ToSet(messages'[d][u]))
  <2>1. Older({m}, ToSet(commitQueue[d])) /\ \A u \in Topics : Older({m}, ToSet(messages[d][u]))
    BY DEF PassedBelow
  <2>2. \A u \in Topics : Older({m}, ToSet(messages'[d][u]))
    BY <1>3, <2>1, EmptySet DEF Older
  <2>3. Older({m}, ToSet(commitQueue'[d]))
    BY <1>4, <1>5, <1>6, <2>1 DEF Older
  <2> QED BY <2>2, <2>3
<1>8. ASSUME NEW m \in passed PROVE m \notin Settled'
  <2>1. m[2] \in Int
    BY NatAssumption DEF TypeOK, Messages, Offsets
  <2>2. ~(m[2] < m[2])
    BY <2>1
  <2>3. m \notin ToSet(bundle)
    BY <1>5, <2>2 DEF Older
  <2> QED BY <1>2, <2>3 DEF PassedBelow
<1>9. passed' = passed /\ assigned' = assigned /\ position' = position
      /\ produced' = produced /\ committed' = committed
  BY <1>2
<1> QED BY <1>7, <1>8, <1>9 DEF PassedBelow, Older

LEMMA PassedDelivered ==
    ASSUME PassedBelow, TypeOK, NEW c \in Consumers, CommitDelivered(c)
    PROVE  PassedBelow'
<1> DEFINE n == Head(commitQueue[c])
<1>1. commitQueue[c] \in Seq(Messages) /\ commitQueue[c] # <<>>
  BY DEF CommitDelivered, TypeOK
<1>2. /\ committed' = [committed EXCEPT ![n[1]] = n[2] + 1]
      /\ commitQueue' = [commitQueue EXCEPT ![c] = Tail(commitQueue[c])]
      /\ UNCHANGED <<messages, assigned, position, produced, passed>>
      /\ Settled' = Settled
  BY DEF CommitDelivered, process, outcome, Settled
<1>3. n \in ToSet(commitQueue[c]) /\ ToSet(Tail(commitQueue[c])) \subseteq ToSet(commitQueue[c])
  BY <1>1, TailSet
<1>4. n \in Messages
  BY <1>1
<1> HIDE DEF n
<1>5. n[1] \in Partitions /\ n[2] \in Nat
  BY <1>4 DEF Messages, Offsets
<1>6. \A d \in Consumers : ToSet(commitQueue'[d]) \subseteq ToSet(commitQueue[d])
  BY <1>2, <1>3 DEF TypeOK
<1>7. ASSUME NEW m \in passed PROVE committed'[m[1]] = 0 \/ m[2] < committed'[m[1]]
  <2>1. m[1] \in Partitions /\ m[2] \in Int
    <3>1. m \in Messages
      BY DEF TypeOK
    <3> QED BY <3>1, NatAssumption DEF Messages, Offsets
  <2>2. CASE m[1] = n[1]
    <3>1. m[2] < n[2]
      BY <1>3, <2>2 DEF PassedBelow, Older
    <3>2. committed'[m[1]] = n[2] + 1
      BY <1>2, <1>5, <2>2 DEF TypeOK
    <3> QED BY <1>5, <2>1, <3>1, <3>2
  <2>3. CASE m[1] # n[1]
    <3>1. committed'[m[1]] = committed[m[1]]
      BY <1>2, <1>5, <2>1, <2>3 DEF TypeOK
    <3> QED BY <3>1 DEF PassedBelow
  <2> QED BY <2>2, <2>3
<1>8. ASSUME NEW m \in passed, NEW d \in Consumers PROVE Older({m}, ToSet(commitQueue'[d]))
  <2>1. Older({m}, ToSet(commitQueue[d]))
    BY DEF PassedBelow
  <2> QED BY <1>6, <2>1 DEF Older
<1> QED BY <1>2, <1>7, <1>8 DEF PassedBelow, Older

LEMMA PassedClose ==
    ASSUME PassedBelow, TypeOK, NEW c \in Consumers, Close(c)
    PROVE  PassedBelow'
<1>1. /\ assigned' = [assigned EXCEPT ![c] = {}]
      /\ position' = [position EXCEPT ![c] = AtStart]
      /\ commitQueue' = commitQueue
      /\ UNCHANGED <<messages, committed, produced, passed>> /\ Settled' = Settled
  BY DEF Close, LeaveGroup, outcome, Settled, TypeOK
<1>2. /\ assigned'[c] = {}
      /\ \A d \in Consumers \ {c} : assigned'[d] = assigned[d] /\ position'[d] = position[d]
  BY <1>1 DEF TypeOK
<1> QED BY <1>1, <1>2 DEF PassedBelow, Older

\* An orderly rebalance finds nothing held and everything settled committed, so
\* what lies between a committed offset and the end of the log was not read.
LEMMA PassedRebalance ==
    ASSUME PassedBelow, OrderInv, SafetyInv,
           NEW N \in SUBSET Consumers \ {{}}, NEW owner \in [Partitions -> N],
           Rebalance(N, owner), CleanHandover(N)
    PROVE  PassedBelow'
<1>1. /\ passed' = passed \cup PassedOver
      /\ \A d \in N : /\ assigned'[d] = {p \in Partitions : owner[p] = d}
                      /\ \A p \in assigned'[d] : position'[d][p] = StartOffset(p)
      /\ \A d \in Consumers \ N : assigned'[d] = {}
      /\ UNCHANGED <<messages, commitQueue, committed, produced>> /\ Settled' = Settled
  BY DEF Rebalance, CleanHandover, process, Settled
<1>2. \A d \in Consumers : commitQueue[d] = <<>> /\ \A u \in Topics : messages[d][u] = <<>>
  BY DEF CleanHandover, Pending
<1>3. \A p \in Partitions : committed[p] \in Nat /\ produced[p] \in Nat
  BY DEF SafetyInv, TypeOK
<1>4. passed' \subseteq Messages
  BY <1>1 DEF PassedOver, SafetyInv, TypeOK
<1>5. ASSUME NEW m \in passed'
      PROVE  /\ m \notin Settled
             /\ m[2] < produced[m[1]]
             /\ committed[m[1]] = 0 \/ m[2] < committed[m[1]]
             /\ m[2] < StartOffset(m[1])
  <2>1. m[1] \in Partitions /\ m[2] \in Nat
    BY <1>4 DEF Messages, Offsets
  <2>2. CASE m \in passed
    <3>1. OffsetReset = "latest"
      BY <2>2, NatAssumption DEF SafetyInv, PassedByLatest
    <3> QED BY <1>3, <2>1, <2>2, <3>1 DEF PassedBelow, StartOffset
  <2>3. CASE m \in PassedOver
    <3>1. committed[m[1]] <= m[2] /\ m[2] < StartOffset(m[1])
      BY <2>3 DEF PassedOver
    <3>2. committed[m[1]] = 0 /\ StartOffset(m[1]) = produced[m[1]]
      BY <1>3, <2>1, <3>1 DEF StartOffset
    <3>3. ~(m[2] < committed[m[1]])
      BY <1>3, <2>1, <3>1
    <3>4. \A d \in Consumers : current[d] # NoTopic => ToSet(messages[d][current[d]]) = {}
      BY <1>2, EmptySet DEF SafetyInv, TypeOK
    <3>5. m \notin Settled
      BY <1>2, <3>3, <3>4, EmptySet DEF OrderInv, SettledOnItsWay
    <3> QED BY <3>1, <3>2, <3>5
  <2> QED BY <1>1, <2>2, <2>3
<1>6. ASSUME NEW m \in passed', NEW d \in Consumers
      PROVE  /\ m[1] \in assigned'[d] => m[2] < position'[d][m[1]]
             /\ Older({m}, ToSet(commitQueue'[d]))
             /\ \A u \in Topics : Older({m}, ToSet(messages'[d][u]))
  <2>1. Older({m}, ToSet(commitQueue'[d])) /\ \A u \in Topics : Older({m}, ToSet(messages'[d][u]))
    BY <1>1, <1>2, EmptySet DEF Older
  <2>2. ASSUME m[1] \in assigned'[d] PROVE m[2] < position'[d][m[1]]
    <3>1. d \in N /\ position'[d][m[1]] = StartOffset(m[1])
      BY <1>1, <2>2
    <3> QED BY <1>5, <3>1
  <2> QED BY <2>1, <2>2
<1> QED BY <1>1, <1>5, <1>6 DEF PassedBelow, Older

LEMMA PassedNext ==
    ASSUME Inv, SafetyInv, PassedInv, [Next]_vars
    PROVE  PassedInv'
<1> SUFFICES ASSUME disruptions' = 0 PROVE PassedBelow'
  BY DEF PassedInv
<1>1. disruptions = 0
  BY DisruptionsGrow DEF SafetyInv, TypeOK
<1>2. PassedBelow /\ OrderInv /\ TypeOK /\ TypeOK'
  BY <1>1, TypeNext DEF PassedInv, Inv, SafetyInv
<1>3. ASSUME NEW c \in Consumers,
             Start(c) \/ Signal(c) \/ ConsumeError(c) \/ MemoryRestart(c) \/ Stop(c)
      PROVE  PassedBelow'
  <2>1. UNCHANGED <<messages, assigned, position, commitQueue, committed, stored, dropped,
                    passed, produced>>
    BY <1>3 DEF Start, Signal, ConsumeError, MemoryRestart, Stop, Leave, client, outcome
  <2>2. \A p \in Partitions : produced[p] <= produced'[p]
    BY <1>2, <2>1, NatAssumption DEF TypeOK
  <2> QED BY <1>2, <2>1, <2>2, PassedFrame
<1>4. ASSUME NEW p \in Partitions, Produce(p) PROVE PassedBelow'
  <2>1. UNCHANGED <<messages, assigned, position, commitQueue, committed, stored, dropped,
                    passed>>
    BY <1>4 DEF Produce, process, client, outcome
  <2>2. \A q \in Partitions : produced[q] <= produced'[q]
    BY <1>2, <1>4, NatAssumption DEF Produce, TypeOK
  <2> QED BY <1>2, <2>1, <2>2, PassedFrame
<1>5. CASE AllExited \/ UNCHANGED vars
  <2>1. UNCHANGED <<messages, assigned, position, commitQueue, committed, stored, dropped,
                    passed, produced>>
    BY <1>5 DEF AllExited, vars, process, client, outcome
  <2>2. \A p \in Partitions : produced[p] <= produced'[p]
    BY <1>2, <2>1, NatAssumption DEF TypeOK
  <2> QED BY <1>2, <2>1, <2>2, PassedFrame
<1>6. ASSUME NEW N \in SUBSET Consumers \ {{}}, NEW owner \in [Partitions -> N],
             Rebalance(N, owner)
      PROVE  PassedBelow'
  <2>1. CleanHandover(N)
    BY <1>1, <1>6 DEF Rebalance, Disrupted
  <2> QED BY <1>2, <1>6, <2>1, PassedRebalance
<1>7. ASSUME NEW c \in Consumers, Crash(c) \/ CommitLost(c) PROVE FALSE
  <2>1. ~Crash(c)
    BY <1>1 DEF Crash, Disrupted
  <2>2. CommitLost(c) => FALSE
    BY <1>1, UndisturbedDelivery DEF Inv
  <2> QED BY <1>7, <2>1, <2>2
<1> QED BY <1>2, <1>3, <1>4, <1>5, <1>6, <1>7, PassedConsume, PassedOffer, PassedErase,
           PassedDelivered, PassedClose
        DEF Next, LoopStep, Stash

\* Until something is disrupted a group passes over unread records only, however
\* often its processes restart and exchange partitions.  (~Consume, setup)
THEOREM UnreadPassed == Spec => []OnlyUnreadPassed
<1>1. Init => PassedInv
  BY DEF Init, PassedInv, PassedBelow
<1>2. Inv /\ SafetyInv /\ PassedInv /\ [Next]_vars => PassedInv'
  BY PassedNext
<1>3. ASSUME SafetyInv, PassedInv PROVE OnlyUnreadPassed
  <2> SUFFICES ASSUME disruptions = 0, NEW m \in passed PROVE m \notin Settled \cup Buffered
    BY DEF OnlyUnreadPassed
  <2>1. m[2] \in Int
    <3>1. m \in Messages
      BY <1>3 DEF SafetyInv, TypeOK
    <3> QED BY <3>1, NatAssumption DEF Messages, Offsets
  <2>2. ~(m[2] < m[2])
    BY <2>1
  <2>3. \A c \in Consumers, t \in Topics : m \notin ToSet(messages[c][t])
    BY <1>3, <2>2 DEF PassedInv, PassedBelow, Older
  <2>4. m \notin Buffered
    BY <2>3 DEF Buffered
  <2>5. m \notin Settled
    BY <1>3 DEF PassedInv, PassedBelow
  <2> QED BY <2>4, <2>5
<1> QED BY <1>1, <1>2, <1>3, OrderAlways, SafetyCorrect, PTL DEF Spec
=============================================================================
