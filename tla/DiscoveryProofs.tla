-------------------------- MODULE DiscoveryProofs --------------------------
(***************************************************************************)
(* Safety of the topic subscription, for all topics, entries and bounds.   *)
(***************************************************************************)
EXTENDS Discovery, TLAPS

\* The program only lists topics that it may subscribe to, and subscribes to
\* listed topics.
ListedAllowed ==
    /\ subscribed \subseteq topics
    /\ \A t \in topics : ~topic_excluded(t) /\ (t \in Internal => t \in Configured)

Inv == TypeOK /\ ListedAllowed

LEMMA InitInv == Init => Inv
<1> SUFFICES ASSUME Init PROVE Inv
  OBVIOUS
<1>1. /\ pc = "down" /\ run_system \in BOOLEAN /\ discovered \in BOOLEAN
      /\ topics = {} /\ subscribed = {}
  BY DEF Init
<1>2. /\ since \in 0 .. Interval + 1 /\ mem_test_counter \in 0 .. MemTestEvery
      /\ restarts \in 0 .. MaxRestarts /\ failures \in 0 .. MaxFailures
  BY DiscoveryAssumption DEF Init
<1>3. cluster \subseteq Topics
  BY DiscoveryAssumption DEF Init
<1> QED BY <1>1, <1>2, <1>3 DEF Inv, TypeOK, ListedAllowed

\* A discovery lists and subscribes allowed topics of the cluster.
LEMMA DiscoverInv ==
  ASSUME Inv, Discover
  PROVE  /\ topics' \subseteq Entries /\ subscribed' \subseteq topics'
         /\ subscribed \subseteq subscribed'
         /\ \A t \in topics' : ~topic_excluded(t) /\ (t \in Internal => t \in Configured)
         /\ discovered' \in BOOLEAN /\ failures' \in 0 .. MaxFailures
<1> DEFINE new == {t \in cluster : NewTopic(t)}
<1>1. new \subseteq Entries /\ \A t \in new : ~topic_excluded(t) /\ t \notin Internal
  BY DEF Inv, TypeOK, Entries, NewTopic
<1>2. CASE /\ topics' = topics \cup new
           /\ subscribed' = IF new # {} THEN Subscription(new) ELSE subscribed
           /\ discovered' = TRUE /\ UNCHANGED failures
  BY <1>1, <1>2 DEF Inv, TypeOK, ListedAllowed, Subscription
<1>3. CASE /\ failures < MaxFailures /\ failures' = failures + 1
           /\ UNCHANGED <<topics, subscribed, discovered>>
  BY <1>3, DiscoveryAssumption DEF Inv, TypeOK, ListedAllowed
<1> QED BY <1>2, <1>3 DEF Discover

\* The timer keeps the invariant's parts about what it changes, and the
\* subscription does not shrink.
LEMMA TimerInv ==
  ASSUME Inv, TimerStep
  PROVE  /\ topics' \subseteq Entries /\ subscribed' \subseteq topics'
         /\ subscribed \subseteq subscribed'
         /\ \A t \in topics' : ~topic_excluded(t) /\ (t \in Internal => t \in Configured)
         /\ discovered' \in BOOLEAN /\ failures' \in 0 .. MaxFailures
         /\ since' \in 0 .. Interval + 1
<1>1. CASE Due /\ Discover /\ since' = 0
  BY <1>1, DiscoverInv, DiscoveryAssumption
<1>2. CASE /\ ~Due
           /\ since' = IF AutoDiscover THEN since + 1 ELSE since
           /\ UNCHANGED <<topics, subscribed, discovered, failures>>
  BY <1>2, DiscoveryAssumption DEF Inv, TypeOK, ListedAllowed, Due
<1> QED BY <1>1, <1>2 DEF TimerStep

LEMMA NextInv == Inv /\ [Next]_vars => Inv'
<1> SUFFICES ASSUME Inv, [Next]_vars PROVE Inv'
  OBVIOUS
<1> USE DiscoveryAssumption DEF Inv, TypeOK, ListedAllowed, topic_excluded, Matched
<1>1. CASE Start
  <2>1. /\ pc' \in {"loop", "aborted"}
        /\ topics' = ConfiguredTopics /\ subscribed' \subseteq ConfiguredTopics
    BY <1>1 DEF Start
  <2>2. /\ ConfiguredTopics \subseteq Configured /\ Configured \subseteq Entries
        /\ \A t \in ConfiguredTopics : ~topic_excluded(t)
    BY DEF ConfiguredTopics, Entries
  <2>3. since' \in 0 .. Interval + 1 /\ mem_test_counter' \in 0 .. MemTestEvery
    BY <1>1 DEF Start
  <2>4. topics' \subseteq Entries /\ subscribed' \subseteq topics'
    BY <2>1, <2>2
  <2>5. \A t \in topics' : t \in Configured /\ ~topic_excluded(t)
    BY <2>1, <2>2
  <2>6. discovered' \in BOOLEAN /\ UNCHANGED <<run_system, cluster, restarts, failures>>
    BY <1>1 DEF Start, environment
  <2> QED BY <2>1, <2>3, <2>4, <2>5, <2>6
<1>2. CASE Turn
  <2>1. /\ mem_test_counter' \in 0 .. MemTestEvery
        /\ UNCHANGED <<pc, run_system, cluster, restarts>>
    BY <1>2 DEF Turn
  <2> QED BY <2>1, <1>2, TimerInv DEF Turn
<1>3. CASE MemoryRestart
  <2>1. /\ mem_test_counter' \in 0 .. MemTestEvery
        /\ pc' = "down" /\ restarts' \in 0 .. MaxRestarts
        /\ UNCHANGED <<run_system, cluster>>
    BY <1>3 DEF MemoryRestart
  <2> QED BY <2>1, <1>3, TimerInv DEF MemoryRestart
<1>4. CASE Stop
  BY <1>4 DEF Stop, environment
<1>5. CASE Signal
  BY <1>5 DEF Signal, environment
<1>6. ASSUME NEW t \in Topics, TopicCreated(t) PROVE Inv'
  BY <1>6 DEF TopicCreated
<1>7. CASE UNCHANGED vars
  BY <1>7 DEF vars, environment
<1> QED BY <1>1, <1>2, <1>3, <1>4, <1>5, <1>6, <1>7 DEF Next, Process, Ended

LEMMA AlwaysInv == Spec => []Inv
  BY InitInv, NextInv, PTL DEF Spec

\* Every reachable state is well typed, for any sets of topics and entries.
THEOREM DiscoveryTypeCorrect == Spec => []TypeOK
<1>1. Inv => TypeOK
  BY DEF Inv
<1> QED BY <1>1, AlwaysInv, PTL

\* setup_topics and auto_discover_topics never subscribe to an excluded topic,
\* nor to an internal one that is not configured.
THEOREM AllowedOnly == Spec => []SubscribedAllowed
<1>1. Inv => SubscribedAllowed
  BY DEF Inv, TypeOK, ListedAllowed, SubscribedAllowed, topic_excluded, Matched
<1> QED BY <1>1, AlwaysInv, PTL

\* While a Consume lives, no discovery drops a topic from the subscription.
THEOREM SubscriptionKept == Spec => SubscriptionGrows
<1>1. Inv /\ [Next]_vars => [pc = "loop" /\ pc' = "loop" => subscribed \subseteq subscribed']_vars
  <2> SUFFICES ASSUME Inv, Next, pc = "loop", pc' = "loop"
               PROVE  subscribed \subseteq subscribed'
    BY DEF vars, environment
  <2>1. CASE Turn
    BY <2>1, TimerInv DEF Turn
  <2>2. CASE \E t \in Topics : TopicCreated(t)
    BY <2>2 DEF TopicCreated
  <2> QED BY <2>1, <2>2 DEF Next, Process, Start, MemoryRestart, Stop, Signal, Ended, vars
<1> QED BY <1>1, AlwaysInv, PTL DEF Spec, SubscriptionGrows
=============================================================================
