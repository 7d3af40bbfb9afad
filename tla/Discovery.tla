----------------------------- MODULE Discovery -----------------------------
(***************************************************************************)
(* Which topics a k3backup process is subscribed to: the configured ones,  *)
(* or with auto_discover_topics those that Consume::run finds in the       *)
(* broker's metadata every auto_discover_interval seconds.  Time passes    *)
(* with the turns of the loop.                                             *)
(***************************************************************************)
EXTENDS Integers, FiniteSets

CONSTANTS
    Topics,        \* names that may exist in the cluster
    Internal,      \* those that start with "__"
    Configured,    \* entries of kafka.topics, taken as patterns too
    Excluded,      \* entries of kafka.exclude_topics
    Matches,       \* the names that each entry matches (Utils::strcmp)
    AutoDiscover,  \* _auto_discover_topics
    Interval,      \* _auto_discover_interval, in turns of the loop
    MemTestEvery,  \* turns between two memory tests (the code's 30)
    AtFirst,       \* topics of the cluster at the beginning
    MaxRestarts,   \* bound on restarts for lack of memory
    MaxFailures    \* bound on failed metadata requests

Entries == Topics \cup Configured \cup Excluded

ASSUME DiscoveryAssumption ==
    /\ Internal \subseteq Topics /\ AtFirst \subseteq Topics
    /\ Matches \in [Entries -> SUBSET Entries]
    /\ \A t \in Topics : Matches[t] = {t}   \* Kafka allows no wildcard in a name
    /\ AutoDiscover \in BOOLEAN
    /\ Interval \in Nat /\ MemTestEvery \in Nat
    /\ MaxRestarts \in Nat /\ MaxFailures \in Nat

VARIABLES
    pc,                 \* "down", "loop", "exited" or "aborted"
    run_system,         \* the flag sigterm() clears
    topics,             \* _topics, as a set
    subscribed,         \* what was last passed to subscribe()
    since,              \* turns since previous_time
    mem_test_counter,   \* local of Consume::run
    cluster,            \* topics that exist
    discovered,         \* a metadata request of this run has succeeded
    restarts, failures  \* bounded by MaxRestarts and MaxFailures

environment == <<cluster, restarts, failures>>
vars == <<pc, run_system, topics, subscribed, since, mem_test_counter,
          discovered, environment>>

Matched(name, entries) == \E e \in entries : name \in Matches[e]

topic_excluded(name)                 == Matched(name, Excluded)
topic_already_in_subscriptions(name) == Matched(name, topics)

Init ==
    /\ pc = "down" /\ run_system = TRUE
    /\ topics = {} /\ subscribed = {} /\ discovered = FALSE
    /\ since = 0 /\ mem_test_counter = 0
    /\ cluster = AtFirst
    /\ restarts = 0 /\ failures = 0

-----------------------------------------------------------------------------
\* setup_topics
ConfiguredTopics == {e \in Configured : ~topic_excluded(e)}

\* comsume_to_s3: a new Consume; setup() subscribes, throws, or leaves the
\* subscription to the discovery.
Start ==
    /\ pc = "down"
    /\ topics' = ConfiguredTopics
    /\ subscribed' = IF AutoDiscover THEN {} ELSE ConfiguredTopics
    /\ pc' = IF AutoDiscover \/ ConfiguredTopics # {} THEN "loop" ELSE "aborted"
    /\ since' = 0 /\ mem_test_counter' = 0 /\ discovered' = FALSE
    /\ UNCHANGED <<run_system, environment>>

\* A mistake: the exclusions are not looked at.
NotYetListed(t) == t \notin Internal /\ ~topic_already_in_subscriptions(t)

NewTopic(t) ==
    t \notin Internal /\ ~topic_excluded(t) /\ ~topic_already_in_subscriptions(t)

\* Mistakes: subscribing to the new topics only; not subscribing at all.
OnlyNew(new)   == new
NotAgain(new)  == subscribed

\* subscribe(_topics)
Subscription(new) == topics \cup new

\* auto_discover_topics
Discover ==
    LET new == {t \in cluster : NewTopic(t)}
    IN  \/ /\ topics' = topics \cup new
           /\ subscribed' = IF new # {} THEN Subscription(new) ELSE subscribed
           /\ discovered' = TRUE
           /\ UNCHANGED failures
        \/ /\ failures < MaxFailures /\ failures' = failures + 1
           /\ UNCHANGED <<topics, subscribed, discovered>>

\* A mistake: the timer is not reset in time.
DueLate == AutoDiscover /\ since > Interval + 1

Due == AutoDiscover /\ since > Interval

\* The timer part of a turn of the loop in Consume::run; run_once takes time.
TimerStep ==
    /\ pc = "loop" /\ run_system
    /\ \/ Due /\ Discover /\ since' = 0
       \/ /\ ~Due
          /\ since' = IF AutoDiscover THEN since + 1 ELSE since
          /\ UNCHANGED <<topics, subscribed, discovered, failures>>

\* A turn whose memory test, if there is one, passes.
Turn ==
    /\ TimerStep
    /\ mem_test_counter' = IF mem_test_counter = MemTestEvery THEN 0
                           ELSE mem_test_counter + 1
    /\ UNCHANGED <<pc, run_system, cluster, restarts>>

\* The memory test fails: main makes a new Consume, which starts over.
MemoryRestart ==
    /\ TimerStep
    /\ mem_test_counter = MemTestEvery
    /\ restarts < MaxRestarts /\ restarts' = restarts + 1
    /\ pc' = "down"
    /\ mem_test_counter' = 0
    /\ UNCHANGED <<run_system, cluster>>

Stop ==
    /\ pc = "loop" /\ ~run_system
    /\ pc' = "exited"
    /\ UNCHANGED <<run_system, topics, subscribed, since, mem_test_counter,
                   discovered, environment>>

Signal ==
    /\ pc \in {"down", "loop"} /\ run_system
    /\ run_system' = FALSE
    /\ UNCHANGED <<pc, topics, subscribed, since, mem_test_counter,
                   discovered, environment>>

TopicCreated(t) ==
    /\ t \notin cluster
    /\ cluster' = cluster \cup {t}
    /\ UNCHANGED <<pc, run_system, topics, subscribed, since, mem_test_counter,
                   discovered, restarts, failures>>

Ended == pc \in {"exited", "aborted"} /\ UNCHANGED vars

Process == Start \/ Turn \/ MemoryRestart \/ Stop

Next == Process \/ Signal \/ (\E t \in Topics : TopicCreated(t)) \/ Ended

Spec == Init /\ [][Next]_vars

\* The process keeps running.
FairSpec == Spec /\ WF_vars(Process)

-----------------------------------------------------------------------------
\* Every variable has a value of its type.
TypeOK ==
    /\ pc \in {"down", "loop", "exited", "aborted"}
    /\ run_system \in BOOLEAN /\ discovered \in BOOLEAN
    /\ topics \subseteq Entries /\ subscribed \subseteq Entries
    /\ since \in 0 .. Interval + 1
    /\ mem_test_counter \in 0 .. MemTestEvery
    /\ cluster \subseteq Topics
    /\ restarts \in 0 .. MaxRestarts /\ failures \in 0 .. MaxFailures

\* A topic that exclude_topics matches is never subscribed to, and an internal
\* one only if it is configured by name; what is subscribed to is in _topics.
\* (setup_topics, auto_discover_topics)
SubscribedAllowed ==
    pc = "loop" =>
      \A t \in subscribed :
        /\ t \in topics
        /\ \A e \in Excluded : t \notin Matches[e]
        /\ t \in Internal => t \in Configured

\* While a Consume lives, a discovery or a failed request never drops a topic
\* from the subscription: librdkafka's subscribe() replaces the old one.
\* (auto_discover_topics)
SubscriptionGrows ==
    [][pc = "loop" /\ pc' = "loop" => subscribed \subseteq subscribed']_vars

\* A topic that exists, is neither internal nor excluded and does not match a
\* configured entry gets subscribed in the end, unless the process is told to
\* stop: new topics, failed requests and restarts only delay it.  (run,
\* auto_discover_topics; src/README.md:65)
NewTopicsSubscribed ==
    \A t \in Topics \ Internal :
        /\ AutoDiscover
        /\ \A e \in Excluded \cup Configured : t \notin Matches[e]
        => (t \in cluster ~> t \in subscribed \/ ~run_system)
=============================================================================
