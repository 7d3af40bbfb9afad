------------------------------- MODULE Backup -------------------------------
(***************************************************************************)
(* What the backup promises to the operator of the Kafka cluster, with no  *)
(* processes, buffers or queues: records are copied to the bucket, a       *)
(* record may be given up only if it is Droppable or, where the group      *)
(* SkipsOld records, before anything of its partition is committed, and    *)
(* the group's offset moves only over records that are in the bucket, were *)
(* given up or passed over.                                                *)
(***************************************************************************)
EXTENDS Integers

CONSTANTS
    Partitions, \* partitions of the topics that are backed up
    LogEnd,     \* records in each partition
    Droppable,  \* records the backup may leave out
    SkipsOld    \* TRUE: a group without a committed offset starts at the end

Messages == Partitions \X (0 .. LogEnd - 1)

VARIABLES stored, dropped, passed, committed

vars == <<stored, dropped, passed, committed>>

Init ==
    /\ stored = {}
    /\ dropped = {}
    /\ passed = {}
    /\ committed = [p \in Partitions |-> 0]

\* A set of records becomes one object (or one more object) of the bucket.
Save(S) ==
    /\ stored' = stored \cup S
    /\ dropped' = dropped \ S
    /\ UNCHANGED <<passed, committed>>

\* Records are forgotten without being in the bucket.
Drop(S) ==
    /\ S \subseteq Droppable
    /\ dropped' = dropped \cup S
    /\ UNCHANGED <<stored, passed, committed>>

\* The group starts behind records of partitions it has committed nothing in.
PassOver(S) ==
    /\ SkipsOld
    /\ \A m \in S : committed[m[1]] = 0
    /\ passed' = passed \cup S
    /\ UNCHANGED <<stored, dropped, committed>>

\* The group resumes partition p at n from now on.  n may be below the old
\* offset: a record is then read again, which loses nothing.
Commit(p, n) ==
    /\ \A o \in 0 .. n - 1 : <<p, o>> \in stored \cup dropped \cup passed
    /\ committed' = [committed EXCEPT ![p] = n]
    /\ UNCHANGED <<stored, dropped, passed>>

Next ==
    \/ \E S \in SUBSET Messages : Save(S) \/ Drop(S) \/ PassOver(S)
    \/ \E p \in Partitions, n \in 0 .. LogEnd : Commit(p, n)

Spec == Init /\ [][Next]_vars
=============================================================================
