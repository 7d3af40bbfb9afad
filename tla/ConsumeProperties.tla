------------------------- MODULE ConsumeProperties -------------------------
(***************************************************************************)
(* What the consumer processes promise, stated over Consume.               *)
(***************************************************************************)
EXTENDS Consume

\* Records whose fate is known: offered to S3 and erased, or passed over by a
\* group that had committed nothing and started at the end of the log.
Accounted == Settled \cup passed

\* Committing an offset gives up every record below it: each of them was
\* stored, or its bundle was erased after a PUT that failed or was skipped, or
\* the group started behind it before its first commit.  The wrappers of a
\* bundle are destroyed only after the PUT attempt of the whole bundle
\* (consume.cpp:305-316), whatever crashes and rebalances do.
CommittedIsSettled ==
    \A p \in Partitions : \A o \in 0 .. committed[p] - 1 : <<p, o>> \in Accounted

\* The reader skips nothing that auto.offset.reset does not: everything before
\* the position of a partition a process reads is settled, was passed over
\* while nothing was committed, or sits in that process's buffer.
NothingSkipped ==
    \A c \in Consumers : \A p \in assigned[c] : \A o \in 0 .. position[c][p] - 1 :
        <<p, o>> \in Accounted \cup ToSet(messages[c][TopicOf[p]])

\* Records of some process's buffer.
Buffered == UNION {ToSet(messages[c][t]) : c \in Consumers, t \in Topics}

\* With auto.offset.reset at its default a group that lost its first commits
\* would start behind records it has read.  It does not as long as nothing is
\* disrupted: restarts, shutdowns and handovers commit what was read before
\* the next reader starts (~Consume: stash_all, then close()), so a group
\* passes over unread records only.
OnlyUnreadPassed == disruptions = 0 => passed \cap (Settled \cup Buffered) = {}

\* ~MessageWrapper uses the consumer that ~Consume deletes: no wrapper is
\* left when the consumer is closed (consume.cpp:31-37).
NoWrapperOutlivesConsumer ==
    \A c \in Consumers : pc[c] \in {"close", "down", "exited"} => Pending(c) = {}

\* messagesSize(): total payload length of a bundle
messagesSize(bundle) ==
    LET total[n \in 0 .. Len(bundle)] ==
          IF n = 0 THEN 0 ELSE total[n - 1] + PayloadLen[bundle[n]]
    IN  total[Len(bundle)]

\* The cached length of a topic never understates its buffer, so the size
\* limit forces a PUT in time although stash_all leaves the length behind.
SizesCoverBuffer ==
    \A c \in Consumers : \A t \in Topics :
        messageSizes[c][t] >= messagesSize(messages[c][t])

\* The buffer stays within general.batchsize and general.binsize: while the
\* process waits for the next record every bundle is below both limits.
BundleWithinLimits ==
    \A c \in Consumers : \A t \in Topics :
        pc[c] = "loop" /\ messages[c][t] # <<>> =>
            /\ BundleLimit >= 0 => Len(messages[c][t]) < BundleLimit
            /\ messagesSize(messages[c][t]) < BundleSize

\* Without a crash, a lost commit or a rebalance that interrupts a bundle, no
\* record is PUT a second time, also across memory restarts, shutdowns and
\* orderly handovers of a partition.
NoDuplicateUndisturbed ==
    [][\A c \in Consumers, t \in Topics :
         disruptions = 0 /\ current[c] = NoTopic /\ current'[c] = t =>
             ToSet(messages[c][t]) \cap stored = {}]_vars

\* Committed offsets move back only after a disruption.
CommitsAdvance ==
    [][disruptions' = 0 => \A p \in Partitions : committed'[p] >= committed[p]]_vars

\* What is committed is in the bucket, records with an empty payload apart
\* (bundles of nothing else are erased without a PUT), and those the group
\* passed over before its first commit: true when S3 never fails, and what
\* README.md:1 and consume.cpp:228-231 say without that condition.
\* (stash_by_topic, ~MessageWrapper)
CommittedIsStored ==
    \A p \in Partitions : \A o \in 0 .. committed[p] - 1 :
        PayloadLen[<<p, o>>] > 0 => <<p, o>> \in stored \cup passed

Stopped == \A c \in Consumers : pc[c] = "exited"

\* Every record that is produced is settled in the end, unless the group passed
\* over it before its first commit or all processes were told to stop: no
\* restart, crash or limit leaves a record in a buffer for ever.
EverythingIsSettled ==
    \A m \in Messages : m[2] < produced[m[1]] ~> m \in Accounted \/ Stopped

\* Without a disruption the offset of every record that is settled is committed:
\* restarts and timeouts never strand a commit.
CommitsCatchUp ==
    [](disruptions = 0) =>
        \A m \in Messages : m \in Settled ~> m[2] < committed[m[1]] \/ Stopped

\* A process that is told to stop stashes, commits, closes and exits, unless
\* it is killed on the way (a new one then runs in its place).
SigtermStops ==
    \A c \in Consumers : ~run_system[c] ~> pc[c] = "exited" \/ run_system[c]

\* Records the code can lose: any of them if a PUT may fail, else only those
\* of bundles that are never PUT because all their payloads are empty.
Droppable == IF S3Reliable THEN {m \in Messages : PayloadLen[m] = 0} ELSE Messages

\* A commit on its way covers only accounted records, so it may be applied,
\* delayed or lost at any time.
QueuedIsSettled ==
    \A c \in Consumers : \A m \in ToSet(commitQueue[c]) :
        \A o \in 0 .. m[2] : <<m[1], o>> \in Accounted

\* Whatever precedes a buffered record in its partition is accounted or sits in
\* the same bundle, so erasing the bundle as a whole commits no gap.
BufferedWithoutGap ==
    \A c \in Consumers, t \in Topics : \A m \in ToSet(messages[c][t]) :
        \A o \in 0 .. m[2] : <<m[1], o>> \in Accounted \cup ToSet(messages[c][t])

\* Between the PUT of a bundle and its erasure, its records are in the bucket
\* or are ones the code may lose.
OfferedMayBeErased ==
    \A c \in Consumers : current[c] # NoTopic =>
        /\ pc[c] = "stash"
        /\ ToSet(messages[c][current[c]]) \subseteq stored \cup Droppable

\* A group that is configured to start at the earliest record passes over none.
PassedByLatest == OffsetReset = "earliest" => passed = {}

\* The inductive invariant behind CommittedIsSettled and ImplementsBackup.
SafetyInv ==
    /\ TypeOK
    /\ CommittedIsSettled
    /\ QueuedIsSettled
    /\ BufferedWithoutGap
    /\ NothingSkipped
    /\ OfferedMayBeErased
    /\ dropped \subseteq Droppable
    /\ PassedByLatest

\* The refinement mapping: the bucket, the records given up or passed over and
\* the group's offsets are the abstract ones; processes, buffers, queues and librdkafka's
\* side are what the abstraction leaves out.
Promise == INSTANCE Backup WITH
    Partitions <- Partitions, LogEnd <- LogEnd, Droppable <- Droppable,
    SkipsOld <- OffsetReset = "latest",
    stored <- stored, dropped <- dropped, passed <- passed, committed <- committed

\* Consume implements the abstract backup.
ImplementsBackup == Promise!Spec
=============================================================================
