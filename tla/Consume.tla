------------------------------ MODULE Consume ------------------------------
(***************************************************************************)
(* K3::Consume: the loop that reads Kafka records, buffers them per topic, *)
(* PUTs each bundle as one S3 object and commits the offsets of what it    *)
(* has buffered by destroying the MessageWrappers.  Several processes of   *)
(* one consumer group share the partitions.                                *)
(*                                                                         *)
(* The consumer process is translated from consume.cpp, messagewrapper.cpp *)
(* and the main loops; librdkafka (assignment, position, asynchronous      *)
(* commits) and the S3 bucket are modelled from how that code uses them.   *)
(***************************************************************************)
EXTENDS Integers, SequencesExt

CONSTANTS
    Consumers,      \* k3backup processes of one group.id
    Topics,         \* subscribed topics
    Partitions,     \* partitions of those topics
    TopicOf,        \* the topic of each partition
    LogEnd,         \* records in each partition: offsets 0 .. LogEnd - 1
    PayloadLen,     \* pmsg->len() of each record
    BundleLimit,    \* _message_bundle_limit, an int
    BundleSize,     \* _message_bundle_size, an int
    MemTestEvery,   \* loop turns between two memory tests (the code's 30)
    MaxDisruptions, \* bound on crashes, dirty rebalances and lost commits
    S3Reliable,     \* FALSE: S3::put may fail
    OffsetReset,    \* librdkafka's auto.offset.reset; setup() sets none: "latest"
    NoTopic         \* no bundle is between its PUT and its erasure

Offsets  == 0 .. LogEnd - 1
Messages == Partitions \X Offsets

ASSUME NatAssumption ==
    /\ LogEnd \in Nat /\ MemTestEvery \in Nat /\ MaxDisruptions \in Nat
    /\ BundleLimit \in Int /\ BundleSize \in Int
    /\ S3Reliable \in BOOLEAN
    /\ OffsetReset \in {"earliest", "latest"}
ASSUME TopicAssumption == TopicOf \in [Partitions -> Topics] /\ NoTopic \notin Topics
ASSUME PayloadAssumption == PayloadLen \in [Messages -> Nat]

VARIABLES
    \* the process
    pc,               \* where each process is
    run_system,       \* the flag sigterm() clears
    mem_test_counter, \* local of Consume::run
    messages,         \* _messages: per topic, the buffered records
    messageSizes,     \* _messageSizes: per topic, the accumulated length
    todo,             \* topics stash_by_topic has still to visit
    current,          \* the topic whose bundle was offered to S3, not yet erased
    reason,           \* why the stash was started
    \* librdkafka's side of the process
    assigned,         \* partitions this process reads
    position,         \* next offset consume() returns, per partition
    commitQueue,      \* commitAsync() calls not yet applied by the broker
    \* the outside world
    produced,         \* records of each partition that exist: the end of its log
    members,          \* processes in the broker's current generation
    committed,        \* the group's committed offset, per partition
    stored,           \* records that are in an S3 object
    dropped,          \* records given up: their bundle was erased, never stored
    passed,           \* records a reader started behind, although not committed
    disruptions       \* disruptions so far (bounded by MaxDisruptions)

process == <<pc, run_system, mem_test_counter, messages, messageSizes,
             todo, current, reason>>
client  == <<assigned, position, commitQueue>>
outcome == <<stored, dropped, passed>>
vars    == <<process, client, produced, members, committed, outcome, disruptions>>

Reasons == {"full", "idle", "restart", "stop"}

NoMessages == [t \in Topics |-> <<>>]
NoSizes    == [t \in Topics |-> 0]
AtStart    == [p \in Partitions |-> 0]

Live(c)    == pc[c] \in {"loop", "stash", "close"}
Settled    == stored \cup dropped
Pending(c) == {t \in Topics : messages[c][t] # <<>>}

\* Mistakes in the size test: only the front record counts; one byte too few.
FrontPayloadOnly(bundle) == bundle # <<>> /\ PayloadLen[bundle[1]] > 0
PayloadAboveOne(bundle)  == \E i \in DOMAIN bundle : PayloadLen[bundle[i]] > 1

\* stash_by_topic PUTs a bundle only if messagesSize() > 0
HasPayload(bundle) == \E i \in DOMAIN bundle : PayloadLen[bundle[i]] > 0

\* std::vector::size() >= int: a negative limit converts to a huge size_t
LimitReached(n) == BundleLimit >= 0 /\ n >= BundleLimit

\* A mistake in the size limit: > for >=.
SizeExceeded(n) == n > BundleSize
SizeReached(n)  == n >= BundleSize

TypeOK ==
    /\ pc \in [Consumers -> {"down", "loop", "stash", "close", "exited"}]
    /\ run_system \in [Consumers -> BOOLEAN]
    /\ mem_test_counter \in [Consumers -> 0 .. MemTestEvery]
    /\ messages \in [Consumers -> [Topics -> Seq(Messages)]]
    /\ messageSizes \in [Consumers -> [Topics -> Nat]]
    /\ todo \in [Consumers -> SUBSET Topics]
    /\ current \in [Consumers -> Topics \cup {NoTopic}]
    /\ reason \in [Consumers -> Reasons]
    /\ assigned \in [Consumers -> SUBSET Partitions]
    /\ position \in [Consumers -> [Partitions -> 0 .. LogEnd]]
    /\ commitQueue \in [Consumers -> Seq(Messages)]
    /\ produced \in [Partitions -> 0 .. LogEnd]
    /\ members \subseteq Consumers
    /\ committed \in [Partitions -> 0 .. LogEnd]
    /\ stored \subseteq Messages
    /\ dropped \subseteq Messages
    /\ passed \subseteq Messages
    /\ disruptions \in 0 .. MaxDisruptions

Init ==
    /\ pc = [c \in Consumers |-> "down"]
    /\ run_system = [c \in Consumers |-> TRUE]
    /\ mem_test_counter = [c \in Consumers |-> 0]
    /\ messages = [c \in Consumers |-> NoMessages]
    /\ messageSizes = [c \in Consumers |-> NoSizes]
    /\ todo = [c \in Consumers |-> {}]
    /\ current = [c \in Consumers |-> NoTopic]
    /\ reason = [c \in Consumers |-> "idle"]
    /\ assigned = [c \in Consumers |-> {}]
    /\ position = [c \in Consumers |-> AtStart]
    /\ commitQueue = [c \in Consumers |-> <<>>]
    /\ produced = AtStart
    /\ members = {}
    /\ committed = AtStart
    /\ stored = {} /\ dropped = {} /\ passed = {}
    /\ disruptions = 0

-----------------------------------------------------------------------------
(* The main loop of the process and Consume::run. *)

\* comsume_to_s3: a fresh S3, a fresh Consume, setup() subscribes.
Start(c) ==
    /\ pc[c] = "down"
    /\ pc' = [pc EXCEPT ![c] = "loop"]
    /\ mem_test_counter' = [mem_test_counter EXCEPT ![c] = 0]
    /\ UNCHANGED <<run_system, messages, messageSizes, todo, current, reason,
                   client, produced, members, committed, outcome, disruptions>>

\* sigterm(): the handler may run at any instant of a running process.
Signal(c) ==
    /\ pc[c] # "exited"
    /\ run_system[c]
    /\ run_system' = [run_system EXCEPT ![c] = FALSE]
    /\ UNCHANGED <<pc, mem_test_counter, messages, messageSizes, todo, current,
                   reason, client, produced, members, committed, outcome, disruptions>>

\* stash_all / stash_by_topic begins: T are the vectors to visit
BeginStash(c, T, why) ==
    /\ todo' = [todo EXCEPT ![c] = T]
    /\ reason' = [reason EXCEPT ![c] = why]
    /\ pc' = [pc EXCEPT ![c] = "stash"]

\* A mistake: the counter is tested before it is incremented.
CountedLate(n) == IF n > MemTestEvery THEN 0 ELSE n + 1

\* ++mem_test_counter > 30 resets the counter
NextCount(n) == IF n = MemTestEvery THEN 0 ELSE n + 1

\* A turn of the loop in Consume::run whose memory test, if due, passes.
Turn(c) ==
    /\ pc[c] = "loop"
    /\ run_system[c]
    /\ mem_test_counter' = [mem_test_counter EXCEPT ![c] = NextCount(@)]

\* run_once up to the stash: consume() returned a record and it is buffered.
Receive(c, p) ==
    LET m   == <<p, position[c][p]>>
        t   == TopicOf[p]
        buf == Append(messages[c][t], m)
        len == messageSizes[c][t] + PayloadLen[m]
    IN  /\ Turn(c)
        /\ p \in assigned[c]
        /\ position[c][p] < produced[p]
        /\ position' = [position EXCEPT ![c][p] = @ + 1]
        /\ messages' = [messages EXCEPT ![c][t] = buf]
        /\ messageSizes' = [messageSizes EXCEPT ![c][t] = len]
        /\ \/ /\ LimitReached(Len(buf)) \/ SizeReached(len)
              /\ BeginStash(c, {t}, "full")
           \/ /\ ~LimitReached(Len(buf)) /\ ~SizeReached(len)
              /\ UNCHANGED <<pc, todo, reason>>
        /\ UNCHANGED <<run_system, current, assigned, produced, members, committed,
                       outcome, disruptions>>

\* A mistake: commitAsync when the record is received, not when it is erased.
CommitOnReceipt(c, p) ==
    /\ Receive(c, p)
    /\ commitQueue' = [commitQueue EXCEPT ![c] = Append(@, <<p, position[c][p]>>)]

ConsumeMessage(c, p) == Receive(c, p) /\ UNCHANGED commitQueue

\* A mistake: timeouts and errors are ignored.
ErrorIgnored(c) ==
    /\ Turn(c)
    /\ UNCHANGED <<pc, run_system, messages, messageSizes, todo, current, reason,
                   client, produced, members, committed, outcome, disruptions>>

\* run_once: consume() returned a timeout, an end of partition or an error
\* (librdkafka returns them as messages, never as NULL).
ConsumeError(c) ==
    /\ Turn(c)
    /\ \/ Pending(c) # {} /\ BeginStash(c, Pending(c), "idle")
       \/ Pending(c) = {} /\ UNCHANGED <<pc, todo, reason>>
    /\ UNCHANGED <<run_system, messages, messageSizes, current,
                   client, produced, members, committed, outcome, disruptions>>

\* Nothing is left to stash: ~Consume goes on to close the consumer.
BeginClose(c, why) ==
    /\ pc' = [pc EXCEPT ![c] = "close"]
    /\ reason' = [reason EXCEPT ![c] = why]
    /\ UNCHANGED todo

\* A mistake: ~Consume without stash_all.
LeaveAtOnce(c, why) ==
    /\ BeginClose(c, why)
    /\ UNCHANGED <<run_system, mem_test_counter, messages, messageSizes, current,
                   client, produced, members, committed, outcome, disruptions>>

\* run returns; ~Consume stashes what is left before it closes the consumer.
Leave(c, why) ==
    /\ \/ Pending(c) # {} /\ BeginStash(c, Pending(c), why)
       \/ Pending(c) = {} /\ BeginClose(c, why)
    /\ UNCHANGED <<run_system, mem_test_counter, messages, messageSizes, current,
                   client, produced, members, committed, outcome, disruptions>>

\* ++mem_test_counter > 30 and the memory test fails: run returns 1.
MemoryRestart(c) ==
    /\ pc[c] = "loop" /\ run_system[c] /\ mem_test_counter[c] = MemTestEvery
    /\ Leave(c, "restart")

\* The loop condition is false: run returns 0.
Stop(c) ==
    /\ pc[c] = "loop" /\ ~run_system[c]
    /\ Leave(c, "stop")

-----------------------------------------------------------------------------
(* stash_by_topic: one PUT per visited vector, then the vector is erased. *)

Offering(c, t) ==
    /\ pc[c] = "stash" /\ current[c] = NoTopic /\ t \in todo[c]
    /\ current' = [current EXCEPT ![c] = t]
    /\ UNCHANGED <<pc, run_system, mem_test_counter, messages, messageSizes, todo,
                   reason, client, produced, members, committed, passed, disruptions>>

PutBundle(c, t) ==
    LET bundle == ToSet(messages[c][t])
    IN  /\ Offering(c, t)
        /\ HasPayload(messages[c][t])
        /\ stored' = stored \cup bundle
        /\ dropped' = dropped \ bundle

\* S3::put returns false, which nobody looks at.  (A PUT that reached the
\* bucket although it reports a failure is PutBundle.)
PutFails(c, t) ==
    /\ ~S3Reliable
    /\ Offering(c, t)
    /\ HasPayload(messages[c][t])
    /\ UNCHANGED <<stored, dropped>>

\* total_payload_size is 0: there is no PUT.
SkipBundle(c, t) ==
    /\ Offering(c, t)
    /\ ~HasPayload(messages[c][t])
    /\ UNCHANGED <<stored, dropped>>

\* A mistake: all lengths are reset, not the one of the erased bundle.
AllSizesReset(c, t) == NoSizes

\* Only run_once's own stash resets _messageSizes afterwards, stash_all never.
SizesAfter(c, t) ==
    [messageSizes[c] EXCEPT ![t] = IF reason[c] = "full" THEN 0 ELSE @]

\* Mistakes in the erasing loop: from the back; stopping one record short.
ErasedFromBack(bundle) == Reverse(bundle)
AllButLast(bundle)     == SubSeq(bundle, 1, Len(bundle) - 1)

\* messages.erase() from the front: the wrappers are destroyed in this order.
CommitOrder(bundle) == bundle

\* The vector is erased and every ~MessageWrapper calls commitAsync.
EraseBundle(c) ==
    LET t      == current[c]
        bundle == messages[c][t]
    IN  /\ pc[c] = "stash" /\ t # NoTopic
        /\ commitQueue' = [commitQueue EXCEPT ![c] = @ \o CommitOrder(bundle)]
        /\ messages' = [messages EXCEPT ![c][t] = <<>>]
        /\ messageSizes' = [messageSizes EXCEPT ![c] = SizesAfter(c, t)]
        /\ dropped' = dropped \cup (ToSet(bundle) \ stored)
        /\ current' = [current EXCEPT ![c] = NoTopic]
        /\ todo' = [todo EXCEPT ![c] = @ \ {t}]
        /\ \/ /\ todo[c] # {t}
              /\ UNCHANGED <<pc, reason>>
           \/ /\ todo[c] = {t} /\ reason[c] \in {"full", "idle"}
              /\ pc' = [pc EXCEPT ![c] = "loop"]
              /\ reason' = [reason EXCEPT ![c] = "idle"]
           \/ /\ todo[c] = {t} /\ reason[c] \in {"restart", "stop"}
              /\ pc' = [pc EXCEPT ![c] = "close"]
              /\ UNCHANGED reason
        /\ UNCHANGED <<run_system, mem_test_counter, assigned, position, produced,
                       members, committed, stored, passed, disruptions>>

\* A mistake: while(rval >= 0).
AlwaysAgain(why) == "down"

\* main runs the consumer again only after a memory restart (rval > 0).
AfterRun(why) == IF why = "stop" THEN "exited" ELSE "down"

\* The consumer leaves the group and the Consume object is gone.
LeaveGroup(c) ==
    /\ pc[c] = "close"
    /\ pc' = [pc EXCEPT ![c] = AfterRun(reason[c])]
    /\ reason' = [reason EXCEPT ![c] = "idle"]
    /\ messageSizes' = [messageSizes EXCEPT ![c] = NoSizes]
    /\ assigned' = [assigned EXCEPT ![c] = {}]
    /\ position' = [position EXCEPT ![c] = AtStart]
    /\ commitQueue' = [commitQueue EXCEPT ![c] = <<>>]
    /\ members' = members \ {c}
    /\ UNCHANGED <<run_system, mem_test_counter, messages, todo, current,
                   produced, committed, outcome, disruptions>>

\* A mistake: the consumer is deleted without close().
DeletedUnclosed(c) == LeaveGroup(c)

\* ~Consume: _pconsumer->close() waits for the outstanding commits.
Close(c) == commitQueue[c] = <<>> /\ LeaveGroup(c)

-----------------------------------------------------------------------------
(* librdkafka, the group coordinator and the platform. *)

Disrupted == disruptions < MaxDisruptions /\ disruptions' = disruptions + 1

\* The process is killed; the platform starts it again (Start).
Crash(c) ==
    /\ Live(c)
    /\ Disrupted
    /\ pc' = [pc EXCEPT ![c] = "down"]
    /\ run_system' = [run_system EXCEPT ![c] = TRUE]
    /\ mem_test_counter' = [mem_test_counter EXCEPT ![c] = 0]
    /\ messages' = [messages EXCEPT ![c] = NoMessages]
    /\ messageSizes' = [messageSizes EXCEPT ![c] = NoSizes]
    /\ todo' = [todo EXCEPT ![c] = {}]
    /\ current' = [current EXCEPT ![c] = NoTopic]
    /\ reason' = [reason EXCEPT ![c] = "idle"]
    /\ assigned' = [assigned EXCEPT ![c] = {}]
    /\ position' = [position EXCEPT ![c] = AtStart]
    /\ commitQueue' = [commitQueue EXCEPT ![c] = <<>>]
    /\ members' = members \ {c}
    /\ UNCHANGED <<produced, committed, outcome>>

\* The broker applies the oldest commitAsync(message): offset + 1.  It accepts
\* any member of the current generation, also for a partition it lost.
CommitDelivered(c) ==
    LET m == Head(commitQueue[c])
    IN  /\ Live(c) /\ commitQueue[c] # <<>>
        /\ c \in members
        /\ committed' = [committed EXCEPT ![m[1]] = m[2] + 1]
        /\ commitQueue' = [commitQueue EXCEPT ![c] = Tail(@)]
        /\ UNCHANGED <<process, assigned, position, produced, members, outcome, disruptions>>

\* A commit is refused (not in the current generation) or fails; there is no
\* callback and no retry.
CommitLost(c) ==
    /\ Live(c) /\ commitQueue[c] # <<>>
    /\ \/ c \notin members /\ UNCHANGED disruptions
       \/ c \in members /\ Disrupted
    /\ commitQueue' = [commitQueue EXCEPT ![c] = Tail(@)]
    /\ UNCHANGED <<process, assigned, position, produced, members, committed, outcome>>

\* Nobody holds uncommitted records and nobody with partitions is left behind.
CleanHandover(N) ==
    /\ \A c \in Consumers : Pending(c) = {} /\ commitQueue[c] = <<>>
    /\ \A c \in Consumers \ N : assigned[c] = {}

\* A record is appended to the log.
Produce(p) ==
    /\ produced[p] < LogEnd
    /\ produced' = [produced EXCEPT ![p] = @ + 1]
    /\ UNCHANGED <<process, client, members, committed, outcome, disruptions>>

\* Where a new owner starts.  Nothing committed (0): auto.offset.reset decides,
\* which setup() leaves at librdkafka's default, latest.
StartOffset(p) == IF committed[p] = 0 /\ OffsetReset = "latest" THEN produced[p]
                  ELSE committed[p]

\* Records that are not committed and lie before the place where a reader starts.
PassedOver == {m \in Messages : committed[m[1]] <= m[2] /\ m[2] < StartOffset(m[1])}

\* A new generation: owner maps the partitions to the members N, who start at
\* the committed offsets.  A live process outside N has not noticed and reads
\* on.  There is no rebalance callback, so buffers are not touched.
Rebalance(N, owner) ==
    /\ \A c \in N : pc[c] \in {"loop", "stash"}
    /\ \/ CleanHandover(N) /\ UNCHANGED disruptions
       \/ ~CleanHandover(N) /\ Disrupted
    /\ members' = N
    /\ assigned' = [c \in Consumers |-> IF c \in N THEN {p \in Partitions : owner[p] = c}
                                        ELSE assigned[c]]
    /\ position' = [c \in Consumers |->
                      IF c \in N THEN [p \in Partitions |->
                                         IF owner[p] = c THEN StartOffset(p) ELSE 0]
                      ELSE position[c]]
    /\ passed' = passed \cup PassedOver
    /\ UNCHANGED <<process, commitQueue, produced, committed, stored, dropped>>

-----------------------------------------------------------------------------
Stash(c) ==
    \/ \E t \in Topics : PutBundle(c, t) \/ PutFails(c, t) \/ SkipBundle(c, t)
    \/ EraseBundle(c)

LoopStep(c) ==
    \/ \E p \in Partitions : ConsumeMessage(c, p)
    \/ ConsumeError(c)
    \/ MemoryRestart(c)
    \/ Stop(c)

\* Every process was told to stop and has stopped.
AllExited == (\A c \in Consumers : pc[c] = "exited") /\ UNCHANGED vars

Next ==
    \/ \E c \in Consumers :
         Start(c) \/ Signal(c) \/ LoopStep(c) \/ Stash(c) \/ Close(c)
         \/ Crash(c) \/ CommitDelivered(c) \/ CommitLost(c)
    \/ \E N \in SUBSET Consumers \ {{}} :
         \E owner \in [Partitions -> N] : Rebalance(N, owner)
    \/ \E p \in Partitions : Produce(p)
    \/ AllExited

Spec == Init /\ [][Next]_vars

\* A running process keeps taking steps; the broker answers commits; a record
\* that stays available is fetched in the end; the group settles in the end.
\* Nobody has to produce.
Fairness ==
    /\ \A c \in Consumers :
         /\ WF_vars(Start(c) \/ LoopStep(c) \/ Stash(c) \/ Close(c))
         /\ WF_vars(CommitDelivered(c) \/ CommitLost(c))
         /\ \A p \in Partitions : SF_vars(ConsumeMessage(c, p))
    /\ SF_vars(\E owner \in [Partitions -> Consumers] : Rebalance(Consumers, owner))

FairSpec == Spec /\ Fairness
=============================================================================
