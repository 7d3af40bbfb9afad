----------------------------- MODULE MCConsume -----------------------------
(***************************************************************************)
(* Values of Consume's constants for TLC, and the properties the runs      *)
(* check.                                                                  *)
(***************************************************************************)
EXTENDS ConsumeProperties, TLC

CONSTANTS c1, c2, t1, t2

Symmetry == Permutations(Consumers)

\* Every partition belongs to t1 / partition 1 to t1 and the others to t2.
OneTopic  == [p \in Partitions |-> t1]
TwoTopics == [p \in Partitions |-> IF p = 1 THEN t1 ELSE t2]

\* A general.batchsize that no bundle reaches.
NegativeLimit == -1

\* Payload lengths: 1 everywhere; 0 at even offsets; growing with the offset.
UnitPayload    == [m \in Messages |-> 1]
SomeEmpty      == [m \in Messages |-> m[2] % 2]
GrowingPayload == [m \in Messages |-> m[2]]
=============================================================================
