------------------------------ MODULE RunLoop ------------------------------
(***************************************************************************)
(* Consume::run over time and memory: how long a record waits for its PUT, *)
(* and how much memory MemChecker lets the process take.  One process      *)
(* reads streams that never end; a stash is one step and takes no time     *)
(* (Consume has the steps of a stash, and the other processes).            *)
(*                                                                         *)
(* A tick is longer than the broker makes a fetch wait, so an end of       *)
(* partition is returned before the next tick.                             *)
(***************************************************************************)
EXTENDS Integers

CONSTANTS
    Topics,        \* topics with one partition each
    PayloadLens,   \* lengths of payloads
    HeaderSize,    \* sizeof(MessageHeader)
    BundleLimit,   \* _message_bundle_limit, an int
    BundleSize,    \* _message_bundle_size, an int
    WaitTime,      \* _consume_wait_time (collecttime_ms), in ticks
    MemTestEvery,  \* turns between two memory tests (the code's 30)
    SystemLimits,  \* values of memory.limit_in_bytes; 0: no cgroup, no file
    MemPercents,   \* values of general.mem_percent, in hundredths
    ResidentSizes, \* memory the process needs apart from buffered records
    Prefetch,      \* what librdkafka's queues hold at most (they fill while a
                   \* PUT blocks)
    MaxAge         \* bound: longer waits are not told apart

ASSUME LoopAssumption ==
    /\ PayloadLens \subseteq Nat /\ HeaderSize \in Nat
    /\ \E n \in PayloadLens : \A k \in PayloadLens : k <= n
    /\ BundleLimit \in Int /\ BundleSize \in Int
    /\ WaitTime \in Nat \ {0} /\ MemTestEvery \in Nat /\ MaxAge \in Nat
    /\ SystemLimits \subseteq Nat /\ MemPercents \subseteq Int
    /\ ResidentSizes \subseteq Nat /\ Prefetch \in Nat

VARIABLES
    \* the configuration and the platform, fixed from the start
    subscribed,       \* the topics that are read
    partition_eof,    \* librdkafka's enable.partition.eof
    system_limit,     \* _system_limit
    mem_percent,      \* _mem_percent
    resident,         \* memory in use apart from the buffers
    readable,         \* memory.usage_in_bytes can be opened
    \* the loop
    mem_test_counter, \* local of Consume::run
    waited,           \* ticks since consume() was called
    count,            \* per topic: records in _messages
    bytes,            \* per topic: their payloads
    messageSizes,     \* per topic: _messageSizes
    heap,             \* payloads held by wrappers, of all topics
    peak,             \* memory a stash took just now, buffers included
    age,              \* per topic: ticks since its oldest record was buffered
    \* librdkafka
    atEnd,            \* topics whose last record returned was the newest one
    owed              \* topics with an end of partition behind that record

platform == <<subscribed, partition_eof, system_limit, mem_percent, resident, readable>>
buffers  == <<count, bytes, messageSizes, heap, peak, age>>
queues   == <<atEnd, owed>>
vars     == <<platform, mem_test_counter, waited, buffers, queues>>

Nothing == [t \in Topics |-> 0]

\* setup_general: only values below 1 are taken, else the default stays.
MemPercent(configured) == IF configured < 100 THEN configured ELSE 85

\* MemChecker::init: _program_limit, 0 where there is no limit
program_limit == (system_limit * mem_percent) \div 100

\* A mistake: the limit of the cgroup is used whole.
BelowSystemLimit(usage) == system_limit = 0 \/ ~readable \/ usage <= system_limit

\* MemChecker::ok.  (A file that is open and empty would leave the value
\* indeterminate; the kernel never offers one.)
ok(usage) == program_limit <= 0 \/ ~readable \/ usage <= program_limit

Init ==
    /\ subscribed \in SUBSET Topics \ {{}}
    /\ partition_eof \in BOOLEAN
    /\ system_limit \in SystemLimits
    /\ mem_percent \in {MemPercent(x) : x \in MemPercents}
    /\ resident \in ResidentSizes
    /\ readable \in BOOLEAN
    /\ mem_test_counter = 0 /\ waited = 0
    /\ count = Nothing /\ bytes = Nothing /\ messageSizes = Nothing
    /\ heap = 0 /\ peak = 0
    /\ age = Nothing
    /\ atEnd = {} /\ owed = {}

-----------------------------------------------------------------------------
\* A mistake: the counter is tested before it is incremented.
CountedLate(n) == IF n > MemTestEvery THEN 0 ELSE n + 1

\* ++mem_test_counter > 30 resets the counter
NextCount(n) == IF n = MemTestEvery THEN 0 ELSE n + 1

TestDue    == mem_test_counter = MemTestEvery
TestPasses == TestDue => ok(resident + heap)

\* A turn of the loop ends: consume() has returned something.
Turn ==
    /\ TestPasses
    /\ mem_test_counter' = NextCount(mem_test_counter)
    /\ waited' = 0

\* What stash_by_topic takes at worst: the image, allocated twice as large as
\* it has to be; the stream of S3::put, whose last growth has a buffer of less
\* than twice the image beside the old one, which is smaller than the image;
\* and what librdkafka fetches during the PUT.
ImageSize(n, len) == HeaderSize * n + len

\* A mistake: one more copy.
CopiedOnceMore(n, len) ==
    IF len = 0 THEN 0 ELSE 2 * (ImageSize(n, len) + 1) + 4 * ImageSize(n, len) + Prefetch

StashCost(n, len) ==
    IF len = 0 THEN 0 ELSE 2 * (ImageSize(n, len) + 1) + 3 * ImageSize(n, len) + Prefetch

\* size() >= int compares with the int as a size_t: a negative one is huge.
LimitReached(n) == BundleLimit >= 0 /\ n >= BundleLimit
SizeReached(n)  == n >= BundleSize

\* The bundles of S are PUT one after the other and their wrappers destroyed.
StashOf(S, n, b, total) ==
    /\ count' = [t \in Topics |-> IF t \in S THEN 0 ELSE n[t]]
    /\ bytes' = [t \in Topics |-> IF t \in S THEN 0 ELSE b[t]]
    /\ age'   = [t \in Topics |-> IF t \in S THEN 0 ELSE age[t]]
    /\ \E t \in S : /\ \A u \in S : StashCost(n[u], b[u]) <= StashCost(n[t], b[t])
                    /\ peak' = total + StashCost(n[t], b[t])

\* Everything is PUT; _messageSizes is left as it is.
stash_all ==
    /\ StashOf(subscribed, count, bytes, heap)
    /\ heap' = 0

\* run_once: a record of topic t with len bytes is buffered, and its topic
\* stashed if a limit is reached.  newest: nothing is behind it yet.
ConsumeMessage(t, len, newest) ==
    LET n     == [count EXCEPT ![t] = @ + 1]
        b     == [bytes EXCEPT ![t] = @ + len]
        size  == messageSizes[t] + len
        total == heap + len
    IN  /\ Turn
        /\ t \in subscribed \ owed
        /\ \/ /\ LimitReached(n[t]) \/ SizeReached(size)
              /\ StashOf({t}, n, b, total)
              /\ messageSizes' = [messageSizes EXCEPT ![t] = 0]
              /\ heap' = total - b[t]
           \/ /\ ~LimitReached(n[t]) /\ ~SizeReached(size)
              /\ count' = n /\ bytes' = b /\ heap' = total
              /\ messageSizes' = [messageSizes EXCEPT ![t] = size]
              /\ peak' = 0
              /\ UNCHANGED age
        /\ atEnd' = IF newest THEN atEnd \cup {t} ELSE atEnd \ {t}
        /\ owed'  = IF newest /\ partition_eof THEN owed \cup {t} ELSE owed
        /\ UNCHANGED platform

\* Mistakes: ERR__TIMED_OUT or ERR__PARTITION_EOF does not stash.
Ignored == peak' = 0 /\ UNCHANGED <<count, bytes, heap, age>>

\* case ERR__TIMED_OUT, case ERR__PARTITION_EOF
StashOnTimeout == stash_all
StashOnEof     == stash_all

\* consume() returns ERR__TIMED_OUT.
ConsumeTimedOut ==
    /\ Turn
    /\ waited = WaitTime
    /\ StashOnTimeout
    /\ UNCHANGED <<platform, messageSizes, queues>>

\* consume() returns ERR__PARTITION_EOF: once behind the newest record, and
\* again whenever librdkafka starts to fetch from there.
ConsumeEof(t) ==
    /\ Turn
    /\ partition_eof /\ t \in atEnd
    /\ StashOnEof
    /\ owed' = owed \ {t}
    /\ UNCHANGED <<platform, messageSizes, atEnd>>

\* The memory test fails: run returns 1, ~Consume stashes, main starts again.
\* librdkafka resumes behind the last record, all of them being committed.
MemoryRestart ==
    /\ waited = 0 /\ ~TestPasses
    /\ stash_all
    /\ messageSizes' = Nothing
    /\ mem_test_counter' = 0
    /\ owed' = {}
    /\ UNCHANGED <<platform, waited, atEnd>>

\* Time passes in consume(), which returns at once if it can and does not wait
\* longer than WaitTime.
Tick ==
    /\ TestPasses
    /\ owed = {} /\ waited < WaitTime
    /\ waited' = waited + 1
    /\ age' = [t \in Topics |-> IF count[t] > 0 /\ age[t] < MaxAge THEN age[t] + 1 ELSE age[t]]
    /\ peak' = 0
    /\ UNCHANGED <<platform, mem_test_counter, count, bytes, messageSizes, heap, queues>>

Receive(t) == \E len \in PayloadLens, newest \in BOOLEAN : ConsumeMessage(t, len, newest)

Next ==
    \/ \E t \in Topics : Receive(t) \/ ConsumeEof(t)
    \/ ConsumeTimedOut \/ MemoryRestart \/ Tick

Spec == Init /\ [][Next]_vars

\* The loop never blocks for ever; an end of partition in the queue is
\* returned; a record that is there already is fetched in the end.
Fairness ==
    /\ WF_vars(Next)
    /\ \A t \in Topics : WF_vars(t \in owed /\ ConsumeEof(t))
    /\ \A t \in Topics : SF_vars(t \notin atEnd /\ Receive(t))

FairSpec == Spec /\ Fairness

-----------------------------------------------------------------------------
Longest == CHOOSE n \in PayloadLens : \A k \in PayloadLens : k <= n
Limited == readable /\ program_limit > 0

\* Every variable has a value of its type.
TypeOK ==
    /\ subscribed \in SUBSET Topics \ {{}}
    /\ {partition_eof, readable} \subseteq BOOLEAN
    /\ system_limit \in Nat /\ mem_percent \in Int /\ resident \in Nat
    /\ mem_test_counter \in 0 .. MemTestEvery
    /\ waited \in 0 .. WaitTime
    /\ count \in [Topics -> Nat]
    /\ bytes \in [Topics -> Nat] /\ messageSizes \in [Topics -> Nat]
    /\ heap \in Int /\ peak \in Int
    /\ age \in [Topics -> 0 .. MaxAge]
    /\ atEnd \subseteq Topics /\ owed \subseteq Topics

\* Between two memory tests the process grows by at most one record per turn:
\* it never holds more than the limit (or what it needs without any record)
\* and MemTestEvery + 1 records.  (Consume::run, MemChecker::ok)
MemoryBounded ==
    Limited =>
        \/ resident + heap <= program_limit + (MemTestEvery + 1) * Longest
        \/ heap <= (MemTestEvery + 1) * Longest

\* What a stash may take on top of the buffers.
LargestStash == 5 * (HeaderSize * BundleLimit + BundleSize - 1 + Longest) + 2 + Prefetch

\* With enough room between the two limits, and batchsize and binsize set, no
\* stash takes the process over the limit of its cgroup, where it would be
\* killed in the middle of a PUT.  (MemChecker::init, stash_by_topic, S3::put)
StashFits ==
    /\ Limited /\ resident <= program_limit
    /\ BundleLimit > 0 /\ BundleSize > 0
    /\ system_limit - program_limit >= (MemTestEvery + 1) * Longest + LargestStash
    => resident + peak <= system_limit

\* A process that reads one topic keeps a record for collecttime_ms per record
\* that can follow it in the bundle, not for collecttime_ms: every record that
\* arrives starts the wait anew.  (run_once, getConsumeWaitTime)
AgeBounded ==
    \A t \in Topics : subscribed = {t} /\ count[t] > 0 =>
        age[t] <= (count[t] - 1) * WaitTime + waited

\* A record leaves its buffer in the end, unless ends of partitions are
\* switched off and another topic never pauses for collecttime_ms.
\* (run_once, stash_all)
BuffersDrain ==
    \A t \in Topics : (partition_eof \/ subscribed = {t}) /\ count[t] > 0 ~> count[t] = 0
=============================================================================
