-------------------------- MODULE ReplayProperties --------------------------
(***************************************************************************)
(* What k3replay promises: the events of the asked-for topic and time, all *)
(* of them, each once, in order and unchanged.                             *)
(***************************************************************************)
EXTENDS Replay

Records(o) == ToSet(Bundle(o))

\* An event that carries the identity of record r.
IsEventOf(e, r) ==
    e.timestamp = r.timestamp /\ e.partition = r.partition /\ e.offset = r.offset

\* The calendar's order of two dates.
Chronological(t, u) ==
    \E i \in 1 .. 7 : t[i] > u[i] /\ \A j \in 1 .. i - 1 : t[j] = u[j]

AskedFor(o) ==
    /\ OfTopic(o)
    /\ Chronological(KeyDate(Bundle(o), written[o].seed), MessageTime(FromTime))

-----------------------------------------------------------------------------
(* Where replay keeps its promise: MessageTime counts every month as its     *)
(* number times its days, so it agrees with the calendar within a month.     *)

IsDate(t) ==
    /\ t \in [1 .. 7 -> Nat]
    /\ t[2] \in 1 .. 12 /\ t[4] <= 23 /\ t[5] <= 59 /\ t[6] <= 59 /\ t[7] < FracUnits

\* FROM_TIME and the keys of the topic belong to one month.
OneMonth ==
    LET from == MessageTime(FromTime)
    IN  /\ IsDate(from)
        /\ \A n \in DOMAIN Scenarios : \A x \in Range(Scenarios[n].written) :
             LET date == KeyDate(x.records, x.seed)
             IN  x.ofTopic => IsDate(date) /\ date[1] = from[1] /\ date[2] = from[2]

\* In a bundle the date of a later second is no earlier date, and has no fraction.
DatesAdvance ==
    \A n \in DOMAIN Scenarios : \A x \in Range(Scenarios[n].written) :
        x.ofTopic => \A r, q \in ToSet(x.records) :
            LET d == DateOf(Second(r))
                e == DateOf(Second(q))
            IN  /\ d \in [1 .. 7 -> Nat] /\ d[7] = 0
                /\ Second(r) <= Second(q) => d = e \/ Chronological(e, d)

-----------------------------------------------------------------------------
\* The second of record r is later than FROM_TIME.
LaterThanFrom(r) == Chronological(DateOf(Second(r)), MessageTime(FromTime))

\* The bundle of r ends with a record of an earlier second: another partition
\* lags behind, or a record was read again.
Overtaken(r, o) == Second(Bundle(o)[Len(Bundle(o))]) < Second(r)

\* Another partition has a record with the same time and offset.
Collides(r) ==
    \E o \in DOMAIN written : \E q \in Records(o) :
        /\ q.timestamp = r.timestamp /\ q.offset = r.offset
        /\ q.partition # r.partition

\* Every variable has a value of its type; events still to be produced and
\* events in flight come from the map.
TypeOK ==
    /\ scenario \in DOMAIN Scenarios
    /\ pc \in {"list", "get", "produce", "wait", "done", "aborted"}
    /\ lastkey \in DOMAIN written \cup {0}
    /\ keys \in Seq(DOMAIN written)
    /\ todo \subseteq vmap /\ outq \subseteq vmap /\ lost \subseteq vmap
    /\ resent \subseteq vmap
    /\ delivered \in Seq(vmap)
    /\ local \subseteq DOMAIN written /\ bucket \subseteq DOMAIN written
    /\ missed \subseteq bucket
    /\ failures \in 0 .. MaxFailures

SameLength(m, n) == Len(digits[m]) = Len(digits[n])

\* Events reach the target topic in the order of their timestamps, whatever
\* bundle they come from and however often librdkafka retries; within a
\* partition and a millisecond, in the order of their offsets.  The map orders
\* texts, so this is said of numbers with equally many digits: milliseconds
\* have 13 from 2001 to 2286.
\* (DiscoveryMap and the wait for an empty queue in Produce::produce.)
DeliveredInOrder ==
    \A i, j \in DOMAIN delivered :
        i < j /\ SameLength(delivered[i].timestamp, delivered[j].timestamp) =>
            /\ delivered[i].timestamp <= delivered[j].timestamp
            /\ (/\ delivered[i].timestamp = delivered[j].timestamp
                /\ delivered[i].partition = delivered[j].partition
                /\ SameLength(delivered[i].offset, delivered[j].offset))
               => delivered[i].offset <= delivered[j].offset

\* Replay delivers every record later than FROM_TIME that was in the bucket
\* when it began, unless one failure is to blame: the object was not listed or
\* downloaded, or librdkafka gave this very event up.  A failure costs nothing
\* else, and pages, bundles and the map lose nothing.  Records with an empty
\* payload or no timestamp, and overtaken ones, are not promised.
\* (stash_by_topic, s3_discovery, batch_discovery_bykey, process_event.)
EverythingReplayed ==
    pc = "done" /\ ~Scenarios[scenario].partition =>
        \A o \in Scenarios[scenario].initially \ missed :
            OfTopic(o) => \A r \in Records(o) :
                /\ r.payload # <<>> /\ r.timestamp # 0
                /\ LaterThanFrom(r) /\ ~Overtaken(r, o) /\ ~Collides(r)
                => \E e \in ToSet(delivered) \cup lost : IsEventOf(e, r)

\* Whatever is delivered was backed up in an object of the topic that is
\* later than FROM_TIME, if AWS_TOPIC ends with "/".  (The prefix of S3::list,
\* cleanup_name, the test t > infrom.)
OnlyAskedFor ==
    slash => \A e \in ToSet(delivered) :
        \E o \in DOMAIN written :
            AskedFor(o) /\ \E r \in Records(o) : IsEventOf(e, r)

\* A record that was backed up in several bundles is delivered once, unless
\* the acknowledgement of this very event was lost.
\* (output[oss.str()] = item, Produce::produce)
DeliveredOnce ==
    \A i, j \in DOMAIN delivered :
        i # j /\ Index(delivered[i]) = Index(delivered[j]) => delivered[i] \in resent

\* Every item of the map has the header that was written for one record, and
\* of the record's key as much as a NUL-terminated field can hold: all of it
\* when it is short and has no NUL.
\* (MessageHeader::set, batch_discovery_bykey.)
HeadersRestored ==
    \A e \in vmap : \E o \in DOMAIN written : \E r \in Records(o) :
        /\ IsEventOf(e, r)
        /\ e.payload_len = Len(r.payload) /\ e.csum = messageChecksum(r.payload)
        /\ IsPrefix(e.key, r.key) /\ Len(e.key) < KeyMaxLen
        /\ Len(r.key) < KeyMaxLen /\ 0 \notin ToSet(r.key) => e.key = r.key

\* The payload of e is the payload of a record that it carries the identity of.
HasPayload(e) ==
    \E o \in DOMAIN written : \E r \in Records(o) :
        IsEventOf(e, r) /\ e.payload = Bytes(r.payload)

\* The record of e comes first in every bundle that holds it.
ComesFirst(e) ==
    \A o \in DOMAIN written : \A r \in Records(o) : IsEventOf(e, r) => Bundle(o)[1] = r

\* The payload of an event is the payload that was backed up.
\* (src/src/common/consume.cpp:264-267)
PayloadRestored == \A e \in vmap : HasPayload(e)

\* The payload is restored for a record that comes first in every bundle that
\* holds it.  (batch_discovery_bykey)
FirstPayloadRestored == \A e \in vmap : ComesFirst(e) => HasPayload(e)

\* Replay ends, also while k3backup adds objects: the marker moves past every
\* key listed and librdkafka answers in the end.
ReplayEnds == <>(pc \in {"done", "aborted"})
=============================================================================
