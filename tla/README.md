# K3: a TLA+ model of the Kafka to S3 backup

K3 copies Kafka records to S3 (`k3backup`, and the deprecated `k3`) and plays
them back (`k3replay`).  This directory holds the TLA+ modules that model the
programs, the TLC configurations that check them on small instances, and
proofs of their safety properties that TLAPS checks for every instance.

## 1. Inventory of the system

| part | state it keeps | operations | talks to |
|---|---|---|---|
| Consumer loop (`src/src/common/consume.cpp`) | `_messages`, `_messageSizes`, `_topics`, `mem_test_counter` | `run`, `run_once`, `stash_all`, `stash_by_topic`, `~Consume` | librdkafka (`consume`, `commitAsync`, `close`), S3 (`put`) |
| MessageWrapper (`messagewrapper.cpp`) | one record and the consumer it came from | the destructor commits the record asynchronously | librdkafka |
| Main loops (`src/k3backup/main.cpp`, `src/main/main.cpp`) | `run_system` | load configuration, run, run again after a memory restart, SIGTERM/SIGINT | everything |
| Topic discovery (`Consume::setup`, `auto_discover_topics`) | `_topics`, `_exclude_topics`, the time of the last discovery | initial subscription, periodic discovery | librdkafka (`metadata`, `subscribe`) |
| Memory check (`memchecker.cpp`) | `_system_limit`, `_mem_percent`, `_program_limit` | `init`, `ok` every 31st turn of `run` | the operating system |
| Bundle format (`messagewrapper.hpp`, `stash_by_topic`) | a header of fixed size before every payload | write (backup), read (replay) | S3 objects |
| Replay (`src/k3replay/main.cpp`) | the keys found, the records of the downloaded objects ordered by key | list, download, parse, filter, produce | S3, Produce |
| Produce (`produce.cpp`) | the producer, the partition option | `produce`, `setup` | librdkafka |
| Message time (`messagetime.cpp`) | date parsed from an S3 key or an option | comparisons, `timestamp` | replay |
| S3 client (`s3.cpp`) | client, bucket | `put`, `get`, `list`, `setup` | AWS SDK |
| AWS guard (`awsguard.cpp`) | the log level, the life of the SDK | constructor, destructor | AWS SDK, the objects of `comsume_to_s3` |
| Configuration (`kafkaconf.cpp`, the `setup_*` functions) | options | JSON, then environment | everything |
| Utilities (`utils.cpp`, `checksum.cpp`) | none | wildcard match, checksum | discovery, bundles |

The hard behaviours are few and concentrated: a record is committed by a
destructor, asynchronously, some time after the S3 request whose result nobody
reads; several processes of a group exchange partitions while they hold
buffered records; the process restarts itself in the middle of a stream when
memory runs short, which it notices only now and then; how long a record waits for its
PUT depends on when the others arrive; and replay reconstructs an order from
names and headers.
`PROJECT.json` lists them line by line under `hazards`.

### What makes each part correct

| part | what has to hold | stated as |
|---|---|---|
| Consumer loop, wrappers | an offset is committed only when everything below it was in a bundle that was offered to S3 as a whole, or passed over before the first commit where `auto.offset.reset` says so; nothing else is read past; what is committed is in the bucket if S3 works | `CommittedIsSettled`, `NothingSkipped`, `CommittedIsStored`, `ImplementsBackup` |
| Consumer loop | without crashes no record is PUT twice, no offset moves back and no record that was read is passed over; buffers stay within the limits; a tail is stashed in the end | `NoDuplicateUndisturbed`, `CommitsAdvance`, `OnlyUnreadPassed`, `SizesCoverBuffer`, `BundleWithinLimits`, `EverythingIsSettled`, `CommitsCatchUp` |
| Main loops | SIGTERM ends the process from anywhere; nothing commits through a deleted consumer | `SigtermStops`, `NoWrapperOutlivesConsumer` |
| Time and memory of the loop | between two memory tests the process grows by what the turns between them bring, and a stash fits in the room that is left; a record waits for a bounded time per record behind it, and leaves its buffer in the end | `MemoryBounded`, `StashFits`, `AgeBounded`, `BuffersDrain` |
| Topic discovery | nothing excluded is subscribed to, no discovery drops a topic, new topics get subscribed to | `SubscribedAllowed`, `SubscriptionGrows`, `NewTopicsSubscribed` |
| Wildcard match | the answer is the meaning of the pattern, no read behind the NUL, an answer is given | `AnswerIsMatch`, `PointersInside`, `AnswerIsGiven` |
| Configuration | the strongest source whose value is taken wins; librdkafka never commits by itself | `StrongestSourceWins`, `OnlyK3Commits` |
| AWS guard, S3 client | they outlive the consumer whose destructor still PUTs, on every restart | `ApiOutlivesUsers` |
| Bundle format, replay, produce | everything asked for arrives, once, in order, unchanged, and nothing else does; replay ends | `EverythingReplayed`, `OnlyAskedFor`, `DeliveredInOrder`, `DeliveredOnce`, `HeadersRestored`, `PayloadRestored`, `ReplayEnds` |

## 2. Modules

```
Backup <---refines--- Consume                      MessageTime   BundleFormat
                        |                                 \        /
                 ConsumeProperties                          Replay
                   /         \                                |
             MCConsume   ConsumeProofs                 ReplayProperties -- MCReplay
                          /         \                         |
             ConsumeOrderProofs  ConsumeLimitProofs      ReplayProofs

RunLoop -- MCRunLoop     Discovery -- MCDiscovery     Wildcard -- MCWildcard     Setup -- MCSetup
   \-- RunLoopProofs         \-- DiscoveryProofs          \-- WildcardProofs        \-- SetupProofs
```

**`Consume`** is the group of `k3backup` processes.  Per process: `pc`
(`down`: between two `Consume` objects, `loop`: in `Consume::run`, `stash`: in
`stash_by_topic`, `close`: in `~Consume`, `exited`), the flag `run_system`,
`mem_test_counter`, `_messages`, `_messageSizes`, and librdkafka's side of it:
the assignment, the next offset and the `commitAsync` calls on their way.

| action | code |
|---|---|
| `Start` | `main` / `comsume_to_s3` makes an S3 and a Consume |
| `ConsumeMessage` | a turn of `run`; `run_once` gets a record, buffers it, and starts a stash of that topic if a limit is reached |
| `ConsumeError` | a turn whose `consume()` timed out, reached an end of partition or failed: `stash_all` |
| `PutBundle`, `PutFails`, `SkipBundle` | the three ways past the PUT of `stash_by_topic`: stored, failed unnoticed, not tried because all payloads are empty |
| `EraseBundle` | the erasure of the vector: every `~MessageWrapper` calls `commitAsync` |
| `MemoryRestart`, `Stop` | the two ways out of `run`, with the `stash_all` of `~Consume` |
| `Close` | `_pconsumer->close()` and the end of the object; `main` goes on or ends |
| `Signal` | the SIGTERM/SIGINT handler, at any instant |
| `Crash`, `Rebalance`, `CommitDelivered`, `CommitLost` | the platform, the group coordinator, the broker |
| `Produce` | a record is appended to the log of a partition |

Where a new owner of a partition starts is `StartOffset`: at the committed offset,
and if there is none where `auto.offset.reset` says.  `Consume::setup` does not set
that option (`consume.cpp:69-136`), so librdkafka's default holds, `latest`: the end
of the log (`produced`).  The operator may choose `earliest`, in
`kafka.default_global_conf` or with an `RDKAFKA_SETVAR_` variable.  `OffsetReset` is
the choice.  The records a reader starts behind without a commit are remembered in
`passed`; they are what the properties have to except, and `Backup` allows it to
happen only while nothing of the partition is committed (`PassOver`).

A record is a pair of partition and offset; its payload is only a length.  The
PUT and the erasure are two steps, so a crash, a rebalance or another process
may come between them.  `run_once` between `consume()` and the stash is one
step: nothing in it is visible to others.  librdkafka is external: there is no
rebalance callback and no commit callback in this code, so a process keeps its
buffer over a rebalance and its commits are accepted while it is a member of
the current generation, also for a partition it has lost.

**`Backup`** is the promise, without processes: records are saved, droppable
ones may be given up, old ones passed over before the first commit of their
partition (where the group `SkipsOld` records), and an offset moves only over
records that are saved, given up or passed over.  `ConsumeProperties` instantiates it (`Promise`) with an explicit
mapping: the bucket, the records given up or passed over and the group's
offsets are the abstract ones, everything a process holds is hidden, and `Droppable` is every
record if PUTs may fail, else the records with an empty payload.

**`RunLoop`** is `Consume::run` over time and memory, which `Consume` leaves
out: one process, topics that never end, a stash as one step.  `Turn` is what
all turns share: the memory test, due every `MemTestEvery + 1` turns, has to
pass.  A record is a length; `heap` is what the wrappers hold, `peak` what a
stash took just now (`StashCost`): the image is allocated twice as large as it has
to be (`stash_by_topic`); `S3::put` copies it into a string stream, whose buffer grows
by doubling, so that its last growth has a buffer of less than twice the image
beside the old one of less than one; and librdkafka fetches while the PUT blocks
(`Prefetch`, what its queues hold at most).

| action | code |
|---|---|
| `ConsumeMessage` | a turn that gets a record; at a limit its topic is stashed |
| `ConsumeTimedOut` | `ERR__TIMED_OUT` after `collecttime_ms` without anything: `stash_all` |
| `ConsumeEof` | `ERR__PARTITION_EOF`, if librdkafka reports it: `stash_all` |
| `MemoryRestart` | `MemChecker::ok` fails: `run` returns 1, `~Consume` stashes, `main` starts again |
| `Tick` | time passes in `consume()` |

`program_limit` is `MemChecker::init`: 0 (no limit) where no cgroup file could
be read; `ok` also passes when the usage file cannot be opened.  `batchsize` and
`binsize` are ints of any sign: compared with `size()` a negative `batchsize` is a
huge number (`LimitReached`), a `binsize` of zero or less is always reached
(`SizeReached`).

**`MessageTime`**, **`BundleFormat`** are the pure parts of replay: the date in
a key and its weight in seconds (with the 32-bit product of the year, whose
signed overflow is undefined in C++ and wraps in the build), and the image of a
bundle with its reader.  **`Replay`** is `k3replay`: `ListPage`, `ListEnds` and
`ListFails` are the loop of `s3_discovery`, `GetObject` one turn of
`batch_discovery` (download, parse, merge into the map), `SetupProducer`,
`ProcessEvent` and `QueueDrained` the loop over the map with
`Produce::produce`, and `Delivered`, `DeliveredUnacknowledged`,
`DeliveryTimedOut` and `BackupPuts` what the broker and a running backup do
meanwhile.  A *scenario* is what `k3backup` wrote and how replay was
configured (`AWS_TOPIC` with its slash or without, a chosen partition, missing
variables, files an earlier replay left in `/tmp`); `scenario` says which one
this behaviour is about.  An object is a bundle and gets its key the way
`stash_by_topic` makes it: the date of its *last* record (`KeyDate`) and a
clock; `DateOf` is the calendar, a constant.  The map is
ordered by the text `timestamp.offset` (`IndexText`, `TextBefore`), digit by digit, as
`std::map` does with its `std::string` keys.  `resent` and `missed` remember
which event or object a failure touched, so that the properties can say that a
failure costs nothing else.

**`Discovery`** is the part of `Consume::setup` and `Consume::run` that
`Consume` leaves out: which topics are subscribed to.  Time passes with the
turns of the loop.  **`Wildcard`** is `Utils::strcmp` pointer by pointer.
**`Setup`** is `comsume_to_s3` from its first line to its last: `Construct`
makes `AwsGuard` (which picks the log level), `S3` and `Consume`; `SetupS3`,
`SetupJson`, `SetupTopicConf`, `SetupEnv`, `CreateConsumer` and `Subscribe` are
the order in which the file, the documented variables and `RDKAFKA_SETVAR_*`
set options, and what is refused.  A value of the file that librdkafka does not
accept aborts the start; a value of a variable that it does not accept is dropped
without a word, for nobody reads the result of `_pconf->set` there, and so is an empty
`RDKAFKA_SETVAR_` variable (`ignored`).  `Return`, `Destroy` and `Again` are the end of
`run`, the destructors one by one, and the loop of `main`.  A value is
represented by the source it comes from.

## 3. Runs

| run | instance | what it shows |
|---|---|---|
| `consume_group` | 2 processes, 1 partition of 2 records (the first with an empty payload), `latest`, 3 disruptions; 790806 states | nothing is committed or read past that was not offered to S3 or passed over before the first commit; what is committed is stored, empty or passed over; every step is a step of `Backup`; the inductive invariant of the proofs |
| `consume_handover` | 2 processes, 2 topics of one partition and 3 records each with lengths 0, 1, 2, `latest`, no disruption; 1353867 states | no record is PUT twice, no offset moves back, no record that was read is passed over, across memory restarts, shutdowns and orderly rebalances; while a process waits every bundle is below both limits although `_messageSizes` goes stale |
| `consume_live` | 1 process, 1 partition of 3 records, a negative `batchsize`, `latest`, memory test every third turn, 1 disruption, failing PUTs; 33580 states | the tail of the log leaves the buffer, offsets catch up, SIGTERM ends the process |
| `put_failure` | PUTs fail, `earliest`; 103 states | finding 1 |
| `run_loop` | 2 topics, bundles of 3, a memory test every third turn, with and without a cgroup limit, a readable usage file and ends of partitions; 106979 states | memory stays within one test interval of the limit, a stash fits, a record's wait is bounded by what follows it, every record leaves its buffer |
| `replay` | 52 scenarios: one of 5 objects in 4 configurations, and every interleaving of 2 partitions of 2 records cut into bundles anywhere; pages of 2, 2 failures; 23959 states | see the properties of replay above: the composition of what one process bundles with what another replays |
| `replay_payload`, `replay_window` | the scenario of 5 objects, no failure | findings 2 and 3 |
| `discovery` | 5 names, one internal, one excluded by a wildcard, 2 restarts, 1 failed request; 3192 states | the three properties of discovery, of which the last is liveness |
| `wildcard` | all patterns up to 4 characters over `a`, `b`, `*`, `?`, all names up to 4 letters; 59948 states | the three properties of `Utils::strcmp` |
| `setup` | every file, every set of variables for 4 options with every set of values that are not taken, 1 restart; 10946664 states | the order of the sources, and of the destructors |
| `setup_no_file` | no file | finding 4 |

*Why the bounds are enough.*  Two processes are what an interference needs: one
that lost a partition and one that got it; three disruptions allow a lost commit, an
interrupting rebalance and a crash in one behaviour, in every order, so that the
first commits are lost and the next reader starts behind what was read.
`put_failure` is the one run with `earliest`: under `latest` its counterexample could
be read as records passed over.  Two records and a
`batchsize` of two give the full bundle, the bundle cut by a timeout, and the
tail.  `consume_handover` has topics of three records and a `binsize` of two, so
that a length left behind by `stash_all` can meet the next bundle; its first
records are empty.  `run_loop` needs two topics, for one to keep the other
waiting, bundles of three, for a record to be postponed twice, and a limit of 42
of which 15 percent leave exactly the room `StashFits` asks for, so that its
premise holds with nothing to spare (with one unit less the property is violated);
a resident size of 6 is the whole of the program limit, one of 1 leaves room below it.  Ages above `MaxAge` are not told apart; it is above
what `AgeBounded` allows a bundle that is not full.  The five objects of `replay` are chosen so that a page holds no
match, a record is stored three times, a record has no payload or no timestamp, a
timestamp has more digits than the others (so the map does put a later event first),
a key is cut at its NUL and at its maximal length, one object has exactly the
date `FROM_TIME`, and one belongs to a topic of which `AWS_TOPIC` is a prefix.
The 48 generated
scenarios are exhaustive for their size: six interleavings of two partitions,
eight ways to cut them, two records with the same time and offset in different
partitions among them.  Patterns of four characters contain two stars with a letter behind each, the
shortest that make the search step back twice.  The counters of failures,
restarts and disruptions are the only bounds inside the actions, each named by
its constant.  Runs with a symmetry set exchange processes only, and check no
liveness.

*Deadlock* is checked in every run; the explicit stuttering actions
(`AllExited`, `Terminated`, `Ended`, `Done`, `Settled` of `Setup`) are the
states in which the program has ended, or waits in its loop.

### Fairness

- `Consume`: weak fairness for the steps of a process (it is a loop that never
  blocks: `consume()` has a timeout, the AWS client has one); weak fairness for
  the answer to the oldest commit (the broker answers or the request times
  out); strong fairness for fetching an available record (turns that time out
  come between); strong fairness for a rebalance that gives every partition to
  a running process (the group settles again and again).  None for `Produce`: no
  property counts on another record.
- `RunLoop`: weak fairness for the loop as a whole (`consume()` returns within
  its timeout); weak fairness for an end of partition that librdkafka has
  queued; strong fairness for fetching a record that is there already.  A record
  behind the newest one is never promised: producers may stop.
- `Replay`: weak fairness for the main thread and for the answer of the broker:
  `message.timeout.ms` bounds every delivery.  A failed listing is not counted
  on, so `ReplayEnds` rests on the marker alone.
- `Discovery`: weak fairness for the loop.  The number of memory restarts is
  bounded; without the bound the property is false, see below.
- `Wildcard`: the function is executed.

## 4. Proofs

`ConsumeProofs` proves, for any number of processes, topics, partitions,
records and any limits:

- `TypeCorrect`: every reachable state is well typed.
- `SafetyCorrect`: `SafetyInv` is an invariant.  It is inductive, its parts are
  what the argument needs.  A commit is sent when the wrapper of a record is
  destroyed and says that everything below is done; so every record below a
  *buffered* one must be settled or sit in the same bundle
  (`BufferedWithoutGap`), which holds because every record below the *position*
  is (`NothingSkipped`); the erasure then turns "in the bundle" into "settled",
  so that every commit on its way is harmless (`QueuedIsSettled`) however late
  it is applied, by which owner of the partition, or whether at all; and the
  committed offset, from which the next owner starts, covers settled records
  only (`CommittedIsSettled`), which gives `NothingSkipped` back after a
  rebalance.  `OfferedMayBeErased` carries the result of the PUT to the erasure.
- `CommittedSettled`, `NoneSkipped`: the two parts a reader asks for.
- `CommittedStored`: if S3 does not fail, what is committed is in the bucket or
  has an empty payload.
- `Implementation`: `Consume` implements `Backup`.
- `WrappersGone`: when the consumer is closed no wrapper is left, because every
  way out of `run` visits all vectors that are not empty (`LeavingVisitsAll`).

- `EarliestStored`: with `earliest` nothing is passed over, and what is committed is in
  the bucket or empty.

None of them assumes where a group without committed offsets starts.  Under
`latest`, which is what the code leaves in force, a process that crashes before its
first commit is followed by a reader that starts behind the records it had buffered;
the invariant holds because such records are `passed` from then on.  How much the
exception weighs is what `OnlyUnreadPassed` and `EarliestStored` say: without a
disruption only records that nobody has read are passed over, and with `earliest`
none at all.

`ConsumeOrderProofs` proves the two action properties of `consume_handover` and its
`OnlyUnreadPassed`, for any group, wherever it starts:

- `OffsetsAdvance`: until something is disrupted no offset moves back.
- `StoredOnce`: until something is disrupted no record is PUT twice.
- `UnreadPassed`: until something is disrupted no record that was read is passed over.

The invariant, `OrderInv`, holds as long as `disruptions` is 0.  A partition has
one reader (`SoleReader`), who holds only records of its own partitions, behind
the committed offset and in front of its position (`HeldBy`); queued commits are
in the order of offsets and older than what is still buffered
(`CommitsInOrder`).  So a commit that is applied is above the committed offset,
and what remains is above it too.  `SettledOnItsWay` says where a settled record
may be (committed, in a queue, or in the bundle between its PUT and its
erasure); together with the order it excludes that a bundle not offered yet
holds one that is stored.  An orderly handover finds nothing held, so everything
settled is committed and the new owner starts behind it.  `PassedBelow` is the
same for the records passed over: none is settled, and all that is held, queued or
read lies behind them.

`ConsumeLimitProofs` proves the other two invariants of `consume_handover`, for
any group, limits and payload lengths:

- `SizesCorrect`: `_messageSizes` is never below what its bundle holds.
- `BundlesCorrect`: while a process waits every bundle is below both limits.

`LimitInv` adds the bundles of a process that is stashing: those it is not about
to visit are below the limits too (`BundlesOf`), so a stash of one topic ends with
all of them below, and what is above belongs to the topics still to be visited.
That a length left behind by `stash_all` is only ever too large is what keeps
`binsize` a bound.

`RunLoopProofs` proves type correctness, `MemoryBounded`, `StashFits` and
`AgeBounded` for any topics, payload lengths, percentages, and any ints as `batchsize`
and `binsize`.  The assumptions are that payloads have a longest length and that
`collecttime_ms` is positive.  `StashFits` has a premise of its own: a `batchsize` and a
`binsize` above zero, for a negative `batchsize` bounds no bundle.  `MemoryBounded`
alone is not inductive: `MemoryGrowth` counts the turns since memory was looked
at, each worth one record.  `BundlesBelow` (between two turns every bundle is
below both limits, when they are set, and a cached length covers its bundle; the limits of
`consume_handover`, here for all values) bounds what one stash costs, and with
the memory test gives `StashFits`.  `Ages` adds to `AgeBounded` that an empty
buffer has no age.

`SetupProofs` proves type correctness, `OnlyK3Commits`, `StrongestSourceWins` and
`ApiOutlivesUsers` for any options, files, variables, choice of the values that are
not taken, and number of restarts.
`Staged` says for each step of the start what the values are before it (what the
AWS side applied, what the file left, what the variables left), up to the
consumer; `Nested` says which of the three objects are alive at which step.

`WildcardProofs` proves `PointersInside` and `AnswerIsMatch` for texts of any
length and letters.  `RetryInside` is the reason for the first: the second loop is
entered at a `*` or at the end of the name, so there is a place to go back to
before one is needed, and that place is at most one character behind the moving
pointer.  For the second, `AnswerInv` says in each loop what the answer still
depends on.  The code forgets the earlier stars of a pattern when it meets
another; `Attempt` is why it may: a later start of the part behind the earlier star
would bring the pattern to the new star at a later place of the name, and what a
star can match from there it can match from here too.

`DiscoveryProofs` proves type correctness, `SubscribedAllowed` and
`SubscriptionGrows` for any topics, entries and match relation.  The invariant
behind them, `ListedAllowed`, says of `_topics` what the property says of the
subscription, for the next `subscribe()` passes `_topics` on.

`ReplayProofs` proves every invariant of `replay`, for any bundles, keys, page
size, bound on failures and order of answers:

- `ReplayTypeCorrect`: every reachable state is well typed.
- `ItemCarries`: what is read back from an object is the records that were
  written.  `Layout` gives the place of every record in the image; the cursor of
  each turn is at that place, for the header found there has the length of the
  payload behind it, and the first header has the number of turns.  From it, with
  `Mapped` (every item of the map was read from an object in the window, no two
  have the same index), `HeadersCorrect` and `FirstPayloadCorrect`.
- `OnceCorrect`, `InOrderCorrect`, from `Ordered`: what is still to be produced
  has not been, and goes behind all that has.  It holds because the loop waits
  until the queue is empty, so that there is at most one event in flight, however
  often librdkafka repeats it.  The order of the map is the order of the texts
  `timestamp.offset`: `IndexOrder` shows that it decides by the timestamps first when
  they have equally many digits, `DigitsOrder` that it is the numeric order between
  numbers of equal length.  That is all `DeliveredInOrder` says, of timestamps and of
  offsets; the milliseconds of Kafka have 13 digits from 2001 to 2286, and without
  the condition (`SameLength`) TLC refutes the property on the same instance.
- `OnlyAskedForCorrect`: nothing but what was asked for is delivered, if
  `OneMonth`.
- `EverythingCorrect`: nothing is lost, if `OneMonth`, `DatesAdvance` and
  `AWS_TOPIC` ends with a slash.  `NoneLost` follows an object from the bucket to
  the list of keys and its records to the map (`NoneOverlooked`) and an event of
  the map to the topic (`NoneDropped`).  The marker skips nothing because a page
  is the nearest keys behind it (`Nearest`), and the map drops nothing because
  `PutItem` replaces an item only by one of the same index.
- `MonthOrder`: within a month the comparison of `MessageTime` is the order of the
  calendar.

The three hypotheses are where the code keeps its promise, not conveniences:
without `OneMonth` (`FROM_TIME` and the keys of the topic are of one month) both
theorems are false, that is finding 3; without the slash the time window is void
(section 5).  `DatesAdvance` says that `localtime` and `strftime` give a later
second no earlier date; it fails in the hour that daylight saving repeats, where a
bundle may be named earlier than its first record.  `WithinJanuary` of `MCReplay`
has TLC evaluate them on the instance of `replay`: they hold there.

*Induction.*  What a recursive function (the map after n items, the cursor before
turn n, the text of a number, the size of a bundle, the places where a pattern
matches) returns is proved by a least counterexample: `LeastNumber` says that a set
of naturals that is not empty has a least element, which the library's theorem on
well-founded relations gives.  A lemma first shows that a function with the
recursive equation exists, by the same argument on the length of its domain.

*Assumptions of the proofs*, each justified by the code or by what surrounds it:
a C string ends at its first NUL (`LetterAssumption`); there are finitely many
objects, their records have fields of the types `MessageHeader` stores, and Kafka
gives an offset of a partition to one record (`ReplayAssumption`; `SameRecord`);
payloads have a longest length and `collecttime_ms` is positive (`LoopAssumption`); the others give the types of the
constants.  TLC evaluates them on every run.

*Only model-checked*: the liveness properties (`EverythingIsSettled`,
`CommitsCatchUp`, `SigtermStops`, `BuffersDrain`, `ReplayEnds`,
`NewTopicsSubscribed`, `AnswerIsGiven`), which need fairness and `ENABLED`, beyond
this prover.  Every invariant and every action property of the passing runs is
proved.

## 5. Where code and documents disagree

With a run each (`findings` in `PROJECT.json`):

1. `put_failure`: `stash_by_topic` ignores the result of `S3::put` and erases
   the bundle, which commits it.  A failed PUT loses the bundle.
2. `replay_payload`: `batch_discovery_bykey` copies every payload from the
   start of the buffer: all records of a bundle get the bytes of the first.
   `FirstPayloadRestored` says what is left, and holds.
3. `replay_window`: `MessageTime::timestamp` weighs a month by its own number
   of days, not by the days before it, so February 1 is before January 31.
   `EverythingReplayed` holds when `FROM_TIME` and the objects are of one month.
4. `setup_no_file`: without a configuration file the start is aborted (or
   `_pconf` is used uninitialised), whatever variables are set.

Visible in the models, without a run of their own:

- `auto.offset.reset` is left at `latest`.  A process that crashes, or whose commits are
  lost, before the first commit of a partition is followed by one that starts at the
  end of the log: what the first had read, and what was produced meanwhile, is never
  backed up (`StartOffset`, `PassedOver`).  No document says otherwise; the properties
  except these records and say when there are none.
- A value of a documented or an `RDKAFKA_SETVAR_` variable that librdkafka refuses is
  dropped without a message, and the file's value or the default stays
  (`TakenFromEnv`, `TakenFromSetvar`).
- Replay's comment "order by timestamp" (`main.cpp:222`) is true of timestamps with
  equally many digits only (`Precedes`, `SameLength`).
- A bundle whose payloads are all empty is committed without a PUT, keys and
  headers included (`SkipBundle`; hence the exception in `CommittedIsStored`).
- `stash_all` does not reset `_messageSizes`, so the next bundle of a topic may
  be PUT before it holds `batchsize` records or `binsize` bytes (`SizesAfter`).
- With `auto_discover_topics` the configured topics are in `_topics` and not
  subscribed to until another topic is new (`Start`, `Discover`).
- A file with an empty `topics` array and no auto discovery aborts the start,
  although `src/README.md:46` promises all topics (`Subscribe`).
- `aws.kms_arn` is read and emptied again, so the encrypting client is never
  made (`KmsCleared`).
- Any `default_topic_conf` aborts the start: `KafkaConf::create` sets `group.id`
  on it, which librdkafka refuses (`SetupTopicConf`).
- `AWS_TOPIC` without a final `/` shifts the date in the key by one character,
  and finds topics of which it is a prefix: the time window is void
  (`KeyTime` with `slash` = FALSE).
- When `KAFKA_TOPIC_PARTITION_DESTINATION` is set nothing is produced
  (`Produces`).
- The map of replay orders and identifies records by the text
  `timestamp.offset`, without the partition (`Index`, `Precedes`).
- `general.collecttime_ms` is "how long to wait before an S3 PUT is forced
  regardless" (`src/README.md:63`), but every record that arrives starts the wait
  anew: a record may wait `collecttime_ms` per record that fits behind it
  (`AgeBounded`), and with `enable.partition.eof` off a quiet topic waits for ever
  while another never pauses (the condition of `BuffersDrain`).
- An object is named after its last record.  A partition that lags behind gives
  its bundle an early name, and `FROM_TIME` then hides the later records in it
  (`Overtaken`).
- A `mem_percent` of zero or less, like a platform without the cgroup file,
  switches the memory test off (`Limited`).
- A log level AwsGuard does not know in its variable gives `Info`, not the
  level of the file (`StrongestSourceWins`).
- Memory restarts more frequent than `auto_discover_interval` put the discovery
  off for ever (`MemoryRestart` of `Discovery` resets `since`; its bound is what
  makes `NewTopicsSubscribed` true).

## 6. Not modelled

- The name of an S3 object beyond its date: two bundles never get the same key in
  the models, although the clock in the key could repeat itself.
- The search for the configuration file (with `-f` as the last argument it reads
  behind the arguments), parsing of numbers, `to_string`, what is logged, and the
  requests and metadata of the AWS SDK.
- A SIGTERM between the installation of the handlers and `run_system = true`: it
  is overwritten.  The models start behind that line.
- `Produce::setup`, but for the exceptions it throws when a variable is missing.
- In `RunLoop`, what librdkafka's queues hold is a constant (`Prefetch` while a PUT
  blocks, otherwise a part of `resident`), and so is the memory that is neither
  records, queues nor the image and stream of a stash; the fragmentation of the heap and the page cache, which the cgroup
  counts too, are not modelled.
- An unset `AWS_TOPIC` or bucket in `k3replay` (a null pointer is assigned to a
  string), and `mkdir` of the temporary directory.
- SIGTERM during `k3replay`: caught, and its flag never read.
- The deprecated `k3` apart from its main loop, build files and containers.

## 7. Plan

Done: the core (`Consume`, `Backup`), the components around it, time and memory
(`RunLoop`), the composition of backup and replay over one bucket (the generated
scenarios of `replay`), and proofs of every safety property the runs check.  The
order was by importance: backup before replay, replay before the start.  What is
left:

1. The safety half of liveness: the measures that decrease on the way to
   `ReplayEnds` and `AnswerIsGiven`, as action properties.
2. A weaker hypothesis than `OneMonth`: `timestamp()` orders some pairs of months
   rightly (March is after February), which `MonthOrder` does not say.
3. `Produce::setup` and the security options of the producer; they change no
   state after the start.
4. The deprecated `k3`, which differs from `k3backup` in when it reads its file.
