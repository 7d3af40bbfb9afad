------------------------------ MODULE MCReplay ------------------------------
EXTENDS ReplayProperties

Rec(p, off, ts, payload, key) ==
    [partition |-> p, offset |-> off, timestamp |-> ts, payload |-> payload, key |-> key]

Put(ofTopic, seed, records) == [ofTopic |-> ofTopic, seed |-> seed, records |-> records]

(* What a long life of k3backup may leave: partition 0 has four records and  *)
(* one of long ago, the second is stored three times, the fourth has no      *)
(* payload; partition 1 has a record between them, one without a time and    *)
(* one whose time has a digit more.                                          *)
r1 == Rec(0, 11, 51000, <<1>>, <<7>>)
r2 == Rec(0, 12, 51005, <<2, 3>>, <<7, 8>>)
r3 == Rec(0, 13, 53000, <<4>>, <<7, 8, 9>>)
r4 == Rec(0, 14, 54000, <<>>, <<>>)
r5 == Rec(1, 2, 52000, <<5>>, <<7, 0>>)
r6 == Rec(1, 1, 0, <<6>>, <<7>>)
r7 == Rec(0, 5, 50000, <<9>>, <<7>>)
r9 == Rec(1, 3, 100000, <<8>>, <<>>)
r8 == Rec(0, 1, 55000, <<8>>, <<7>>)

\* Object 2 is named just FROM_TIME; object 5 belongs to a longer topic name.
LongLife == <<Put(TRUE, 3, <<r7>>), Put(TRUE, 0, <<r1, r2>>), Put(TRUE, 9, <<r2, r6, r5>>),
              Put(TRUE, 0, <<r3, r2, r3, r4, r9>>), Put(FALSE, 0, <<r8>>)>>

Asked(slashed, produce, partitioned) ==
    [slash |-> slashed, producer |-> produce, partition |-> partitioned,
     written |-> LongLife, initially |-> {1, 2, 3}, left |-> {3}]

Usual     == Asked(TRUE, TRUE, FALSE)
HandMade  == <<Usual, Asked(FALSE, TRUE, FALSE), Asked(TRUE, FALSE, FALSE), Asked(TRUE, TRUE, TRUE)>>
Completed == <<[Usual EXCEPT !.initially = {1, 2, 3, 4}]>>

(* Whatever k3backup may make of two partitions: their records in any order  *)
(* that keeps each partition's, cut into bundles anywhere.                   *)
LogOf == <<<<Rec(0, 8, 50000, <<1>>, <<>>), Rec(0, 9, 52000, <<2>>, <<>>)>>,
           <<Rec(1, 9, 52000, <<3>>, <<>>), Rec(1, 10, 54000, <<4>>, <<>>)>>>>

\* Which partition the next record comes from.
Orders == <<<<1, 1, 2, 2>>, <<1, 2, 1, 2>>, <<1, 2, 2, 1>>,
           <<2, 1, 1, 2>>, <<2, 1, 2, 1>>, <<2, 2, 1, 1>>>>
Cuts  == <<{}, {1}, {2}, {3}, {1, 2}, {1, 3}, {2, 3}, {1, 2, 3}>>

Consumed(turns) ==
    [i \in 1 .. 4 |-> LogOf[turns[i]][Cardinality({j \in 1 .. i : turns[j] = turns[i]})]]

\* The bundles of a sequence of records that is cut behind the positions of cut.
Bundled(records, cut) ==
    LET ends == SetToSortSeq(cut \cup {Len(records)}, <)
    IN  [n \in DOMAIN ends |->
            Put(TRUE, n, SubSeq(records, IF n = 1 THEN 1 ELSE ends[n - 1] + 1, ends[n]))]

\* The order of the keys: the second of the last record, then the clock.
KeyOrdered(bundles) ==
    LET At(b) == Second(b.records[Len(b.records)])
    IN  SortSeq(bundles, LAMBDA a, b : At(a) < At(b) \/ (At(a) = At(b) /\ a.seed < b.seed))

Generated ==
    [n \in 1 .. 48 |->
        LET cut == Cuts[(n % 8) + 1]
        IN  [slash |-> TRUE, producer |-> TRUE, partition |-> FALSE,
             written |-> KeyOrdered(Bundled(Consumed(Orders[(n - 1) \div 8 + 1]), cut)),
             initially |-> 1 .. Cardinality(cut) + 1, left |-> {}]]

AllScenarios == HandMade \o Generated
OneScenario  == <<Usual>>

\* FROM_TIME is a date without a time of day.
JanuaryFrom == <<2018, 1, 30>>

January(second) ==
    CASE second = 0   -> <<1970, 1, 1, 0, 0, 0, 0>>
      [] second = 50  -> <<2018, 1, 29, 6, 0, 0, 0>>
      [] second = 51  -> <<2018, 1, 30, 0, 0, 0, 0>>
      [] second = 52  -> <<2018, 1, 30, 23, 59, 59, 0>>
      [] second = 53  -> <<2018, 1, 31, 0, 0, 0, 0>>
      [] second = 54  -> <<2018, 1, 31, 12, 0, 0, 0>>
      [] OTHER        -> <<2018, 1, 31, 13, 0, 0, 0>>

\* The last object belongs to February.
February(second) ==
    IF second \in {54, 100} THEN <<2018, 2, 1, 12, 0, 0, 0>> ELSE January(second)

\* The window is proved right within a month; January's keys are within one.
ASSUME WithinJanuary ==
    (\A second \in {0} \cup 50 .. 55 \cup {100} : DateOf(second) = January(second)) => OneMonth /\ DatesAdvance
=============================================================================
