------------------------------- MODULE Replay -------------------------------
(***************************************************************************)
(* k3replay: list the keys of a topic, keep those later than FROM_TIME,    *)
(* download each object, merge the records of all of them into one map     *)
(* ordered by time, and produce them one by one to a Kafka topic.          *)
(*                                                                         *)
(* The objects were written by k3backup: their keys carry the date of      *)
(* their last record.  k3backup may add objects meanwhile.  S3 and the     *)
(* broker are modelled from how main.cpp, s3.cpp and produce.cpp use them. *)
(* SIGTERM is caught and its flag never read, so signals change nothing.   *)
(***************************************************************************)
EXTENDS MessageTime, BundleFormat, FiniteSets

CONSTANTS
    Objects,     \* S3 objects whose key starts with AWS_TOPIC, numbered in
                 \* the order of their keys, in which S3 lists them
    Scenarios,   \* a sequence of situations replay may be started in
    FromTime,    \* FROM_TIME
    Fetch,       \* keys per page (the code's infetch = 50)
    StrayInts,   \* what may lie in front of months[] on the stack
    MaxFailures  \* bound on failed S3 requests and deliveries

\* A record of Kafka.
Record == [partition : Nat, offset : Nat, timestamp : Nat, payload : Seq(0 .. 255), key : Seq(0 .. 255)]

\* What k3backup wrote: the records of one bundle, and the clock's part of the
\* key.  ofTopic is FALSE for a topic that AWS_TOPIC is only a prefix of.
IsObject(x) ==
    /\ x.ofTopic \in BOOLEAN
    /\ x.seed \in 0 .. FracUnits - 1
    /\ x.records \in Seq(Record) \ {<<>>}

\* Kafka gives a record of a topic its offset within a partition once.
SameRecord(x, y) ==
    x.ofTopic /\ y.ofTopic => \A r \in ToSet(x.records), q \in ToSet(y.records) :
        r.partition = q.partition /\ r.offset = q.offset => r = q

IsScenario(s) ==
    /\ {s.slash,              \* AWS_TOPIC ends with "/"
        s.producer,           \* KAFKA_BROKERS and KAFKA_TARGET_TOPIC are set
        s.partition           \* KAFKA_TOPIC_PARTITION_DESTINATION is set
       } \subseteq BOOLEAN
    /\ DOMAIN s.written \subseteq Objects
    /\ \A o \in DOMAIN s.written : IsObject(s.written[o])
    /\ \A o, q \in DOMAIN s.written : SameRecord(s.written[o], s.written[q])
    /\ s.initially \subseteq DOMAIN s.written  \* in the bucket at the start
    /\ s.left \subseteq DOMAIN s.written       \* with a file of an earlier replay

ASSUME ReplayAssumption ==
    /\ Objects \subseteq Nat \ {0} /\ IsFiniteSet(Objects)
    /\ \A n \in DOMAIN Scenarios : IsScenario(Scenarios[n])
    /\ Fetch \in Nat \ {0} /\ MaxFailures \in Nat

VARIABLES
    scenario,   \* which of the Scenarios this is
    pc,         \* where main is
    lastkey,    \* number of the last key listed, 0 before the first
    keys,       \* vlist of main: the keys within the time window
    vmap,       \* the DiscoveryMap, as the set of its items
    todo,       \* items the loop over vmap has still to reach
    local,      \* objects with a file in /tmp
    bucket,     \* objects in S3
    outq,       \* events handed to librdkafka, not yet answered
    delivered,  \* events in the target topic
    lost,       \* events given up by librdkafka or refused by it
    resent,     \* events sent again by librdkafka
    missed,     \* objects that a failed request has hidden
    failures    \* failures so far (bounded by MaxFailures)

discovery == <<lastkey, keys, vmap, local, missed>>
producer  == <<outq, delivered, lost, resent>>
vars      == <<scenario, pc, discovery, todo, bucket, producer, failures>>

slash      == Scenarios[scenario].slash
written    == Scenarios[scenario].written
OfTopic(o) == written[o].ofTopic
Bundle(o)  == written[o].records

Init ==
    /\ scenario \in DOMAIN Scenarios
    /\ pc = "list"
    /\ lastkey = 0 /\ keys = <<>> /\ vmap = {} /\ todo = {}
    /\ local = Scenarios[scenario].left
    /\ bucket = Scenarios[scenario].initially
    /\ outq = {} /\ delivered = <<>> /\ lost = {} /\ resent = {} /\ missed = {}
    /\ failures = 0

Failing == failures < MaxFailures /\ failures' = failures + 1

-----------------------------------------------------------------------------
(* s3_discovery *)

\* The objects of a finite set in the order of their keys.
InKeyOrder(S) ==
    CHOOSE s \in [1 .. Cardinality(S) -> S] : \A i, j \in DOMAIN s : i < j => s[i] < s[j]

\* S3::list: the first Fetch keys behind the marker; "foo" also finds "foobar/".
Page ==
    LET behind == {o \in bucket : o > lastkey /\ (slash => OfTopic(o))}
    IN  {o \in behind : Cardinality({q \in behind : q < o}) < Fetch}

\* cleanup_name and MessageTime: without the "/" in AWS_TOPIC it stays in
\* front of the date; of another topic's key no year is read.
KeyTime(o) ==
    IF slash THEN MessageTime(KeyDate(Bundle(o), written[o].seed))
    ELSE IF OfTopic(o) THEN MessageTimeShifted(KeyDate(Bundle(o), written[o].seed))
    ELSE [MessageTime(<<>>) EXCEPT ![1] = 0]

\* A mistake: t >= infrom.
InWindowOrAt(o, stray) == LaterOrEqual(KeyTime(o), MessageTime(FromTime), stray)

\* t > infrom
InWindow(o, stray) == Later(KeyTime(o), MessageTime(FromTime), stray)

\* A mistake: the marker moves only to keys in the window.
MarkerOfMatch(page, found) ==
    IF found = <<>> THEN lastkey ELSE found[Len(found)]

\* A mistake: the marker moves one key too far.
MarkerBeyond(page, found) == page[Len(page)] + 1

\* lastkey = *itor, for every key of the page
Marker(page, found) == page[Len(page)]

ListPage(stray) ==
    LET page  == InKeyOrder(Page)
        found == InKeyOrder({o \in Page : InWindow(o, stray)})
    IN  /\ pc = "list"
        /\ Page # {}
        /\ keys' = keys \o found
        /\ lastkey' = Marker(page, found)
        /\ UNCHANGED <<scenario, pc, vmap, local, missed, todo, bucket, producer, failures>>

\* An empty page ends the listing, and so does a failed request.
EndListing ==
    /\ pc = "list"
    /\ pc' = "get"
    /\ UNCHANGED <<scenario, lastkey, keys, vmap, local, todo, bucket, producer>>

ListEnds  == Page = {} /\ EndListing /\ UNCHANGED <<missed, failures>>
ListFails == EndListing /\ Failing /\ missed' = {o \in bucket : o > lastkey}

-----------------------------------------------------------------------------
(* batch_discovery *)

digits[n \in Nat] == IF n < 10 THEN <<n>> ELSE Append(digits[n \div 10], n % 10)

\* std::string order of two texts
TextBefore(a, b) ==
    \/ IsStrictPrefix(a, b)
    \/ \E i \in DOMAIN a \cap DOMAIN b :
         a[i] < b[i] /\ \A j \in 1 .. i - 1 : a[j] = b[j]

\* "." comes before the digits.
Dot == -1

\* oss << timestamp << "." << offset: the partition is not part of the index.
Index(item) == <<item.timestamp, item.offset>>
IndexText(item) == (digits[item.timestamp] \o <<Dot>>) \o digits[item.offset]

\* std::map order: a text, so that of two timestamps with different numbers
\* of digits the larger one may come first.
Precedes(x, y) == TextBefore(IndexText(x), IndexText(y))

\* A mistake: a multimap.
AddItem(map, item) == map \cup {item}

\* output[oss.str()] = item
PutItem(map, item) == {y \in map : Index(y) # Index(item)} \cup {item}

\* What a local copy of each object contains.
ItemsOf ==
    [n \in DOMAIN Scenarios |->
        [o \in DOMAIN Scenarios[n].written |-> Items(Image(Scenarios[n].written[o].records))]]

\* The loop over the messages of a file; those without a timestamp are passed over.
Entered(map, items) ==
    LET output[i \in 0 .. Len(items)] ==
            IF i = 0 THEN map
            ELSE IF items[i].timestamp = 0 THEN output[i - 1]
            ELSE PutItem(output[i - 1], items[i])
    IN  output[Len(items)]

\* A local file is parsed if there is one.
Parsed(o, present) == IF present THEN Entered(vmap, ItemsOf[scenario][o]) ELSE vmap

\* S3::get writes the object to its file, or fails and leaves what is there.
Download(o) == local' = local \cup {o} /\ UNCHANGED <<missed, failures>>
DownloadFails(o) == Failing /\ missed' = missed \cup ({o} \ local) /\ UNCHANGED local

\* batch_discovery_bykey.  The result of S3::get is not looked at: after a
\* failed download (or a file that cannot be created) an old file is parsed.
GetObject ==
    /\ pc = "get"
    /\ keys # <<>>
    /\ LET o == Head(keys)
       IN  \/ Download(o) /\ vmap' = Parsed(o, TRUE)
           \/ DownloadFails(o) /\ vmap' = Parsed(o, o \in local)
    /\ keys' = Tail(keys)
    /\ UNCHANGED <<scenario, pc, lastkey, todo, bucket, producer>>

\* Produce::setup throws if a variable it needs is missing.
SetupProducer ==
    /\ pc = "get"
    /\ keys = <<>>
    /\ pc' = IF Scenarios[scenario].producer THEN "produce" ELSE "aborted"
    /\ todo' = vmap
    /\ UNCHANGED <<scenario, discovery, bucket, producer, failures>>

-----------------------------------------------------------------------------
(* process_event and Produce::produce *)

\* Produce() without an explicit partition: a chosen one never matches it.
Produces(e) == e.payload_len > 0 /\ ~Scenarios[scenario].partition

\* A mistake: the queue is not drained before the next event.
NotWaiting == "produce"
WaitForQueue == "wait"

ProcessEvent ==
    /\ pc = "produce"
    /\ \E e \in todo :
         /\ \A x \in todo : ~Precedes(x, e)
         /\ todo' = todo \ {e}
         /\ \/ /\ ~Produces(e)
               /\ UNCHANGED <<pc, producer, failures>>
            \/ /\ Produces(e)
               /\ outq' = outq \cup {e}
               /\ pc' = WaitForQueue
               /\ UNCHANGED <<delivered, lost, resent, failures>>
            \/ /\ Produces(e) /\ Failing
               /\ lost' = lost \cup {e}
               /\ UNCHANGED <<pc, outq, delivered, resent>>
    /\ UNCHANGED <<scenario, discovery, bucket>>

\* while(outq_len() > 0) poll(5)
QueueDrained ==
    /\ pc = "wait"
    /\ outq = {}
    /\ pc' = "produce"
    /\ UNCHANGED <<scenario, discovery, todo, bucket, producer, failures>>

Finish ==
    /\ pc = "produce"
    /\ todo = {}
    /\ pc' = "done"
    /\ UNCHANGED <<scenario, discovery, todo, bucket, producer, failures>>

-----------------------------------------------------------------------------
(* The broker and k3backup. *)

\* The broker appends the event and the acknowledgement arrives.
Delivered ==
    /\ \E e \in outq : delivered' = Append(delivered, e) /\ outq' = outq \ {e}
    /\ UNCHANGED <<scenario, pc, discovery, todo, bucket, lost, resent, failures>>

\* The acknowledgement is lost and librdkafka sends the event again.
DeliveredUnacknowledged ==
    /\ Failing
    /\ \E e \in outq : delivered' = Append(delivered, e) /\ resent' = resent \cup {e}
    /\ UNCHANGED <<scenario, pc, discovery, todo, bucket, outq, lost>>

\* message.timeout.ms passes; there is no delivery report callback.
DeliveryTimedOut ==
    /\ Failing
    /\ \E e \in outq : outq' = outq \ {e} /\ lost' = lost \cup {e}
    /\ UNCHANGED <<scenario, pc, discovery, todo, bucket, delivered, resent>>

BackupPuts(o) ==
    /\ o \in DOMAIN written \ bucket
    /\ bucket' = bucket \cup {o}
    /\ UNCHANGED <<scenario, pc, discovery, todo, producer, failures>>

Answer == Delivered \/ DeliveredUnacknowledged \/ DeliveryTimedOut

Main ==
    \/ \E stray \in StrayInts : ListPage(stray)
    \/ ListEnds \/ GetObject \/ SetupProducer
    \/ ProcessEvent \/ QueueDrained \/ Finish

Terminated == pc \in {"done", "aborted"} /\ outq = {} /\ UNCHANGED vars

Next == Main \/ ListFails \/ Answer \/ (\E o \in Objects : BackupPuts(o)) \/ Terminated

Spec == Init /\ [][Next]_vars

\* The program keeps running, S3 answers (a failed listing is not counted on)
\* and so does librdkafka, within message.timeout.ms.
FairSpec == Spec /\ WF_vars(Main) /\ WF_vars(Answer)
=============================================================================
