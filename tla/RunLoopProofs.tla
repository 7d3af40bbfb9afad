--------------------------- MODULE RunLoopProofs ---------------------------
(***************************************************************************)
(* Time and memory of the loop, for all limits, payloads and topics.       *)
(***************************************************************************)
EXTENDS RunLoop, TLAPS

\* Turns since memory was looked at, the one that looked included.
Unchecked == mem_test_counter + 1

\* Only subscribed topics have records; a cached length covers its bundle;
\* between two turns every bundle is below the limits that are set.
BundlesBelow ==
    /\ \A t \in Topics : t \notin subscribed => count[t] = 0 /\ bytes[t] = 0
    /\ \A t \in Topics : /\ BundleLimit > 0 => count[t] < BundleLimit
                         /\ BundleSize > 0 => messageSizes[t] < BundleSize
                         /\ bytes[t] <= messageSizes[t]

\* Every turn since memory was looked at added one record at most.
MemoryGrowth ==
    Limited => \/ resident + heap <= program_limit + Unchecked * Longest
               \/ heap <= Unchecked * Longest

\* An empty buffer has no age; every record postponed the stash once.
Ages ==
    /\ \A t \in Topics : count[t] = 0 => age[t] = 0
    /\ AgeBounded

Inv == TypeOK /\ BundlesBelow /\ MemoryGrowth /\ Ages /\ StashFits

-----------------------------------------------------------------------------
(* Arithmetic. *)

LEMMA MulMono ==
  ASSUME NEW a \in Nat, NEW b \in Nat, NEW c \in Nat, a <= b
  PROVE  a * c <= b * c
<1>1. PICK d \in Nat : b = a + d
  <2>1. b - a \in Nat /\ b = a + (b - a)
    OBVIOUS
  <2> QED BY <2>1
<1>2. (a + d) * c = a * c + d * c /\ d * c \in Nat /\ a * c \in Nat
  OBVIOUS
<1> QED BY <1>1, <1>2

LEMMA MulSucc == ASSUME NEW a \in Int, NEW c \in Int PROVE (a + 1) * c = a * c + c /\ a * c \in Int
OBVIOUS

LEMMA LongestIs == Longest \in Nat /\ \A k \in PayloadLens : k <= Longest
BY LoopAssumption DEF Longest

\* Memory that k turns may add at most.
LEMMA GrowthBy ==
  ASSUME NEW k \in Nat
  PROVE  /\ k * Longest \in Nat
         /\ (k + 1) * Longest = k * Longest + Longest
         /\ k <= MemTestEvery + 1 => k * Longest <= (MemTestEvery + 1) * Longest
<1>1. Longest \in Nat /\ MemTestEvery + 1 \in Nat
  BY LongestIs, LoopAssumption
<1>2. k * Longest \in Nat /\ (k + 1) * Longest = k * Longest + Longest
  BY <1>1
<1> QED BY <1>1, <1>2, MulMono

\* Whether the limits of a bundle are set.
LimitsSet == BundleLimit > 0 /\ BundleSize > 0

LEMMA CostIs ==
  ASSUME NEW n \in Nat, NEW len \in Nat
  PROVE  /\ StashCost(n, len) \in Nat
         /\ LimitsSet /\ n <= BundleLimit /\ len <= BundleSize - 1 + Longest
            => StashCost(n, len) <= LargestStash
<1>1. /\ HeaderSize \in Nat /\ BundleLimit \in Int /\ BundleSize \in Int
      /\ Longest \in Nat /\ Prefetch \in Nat
  BY LoopAssumption, LongestIs
<1>2. HeaderSize * n \in Nat /\ HeaderSize * BundleLimit \in Int
  BY <1>1
<1>3. StashCost(n, len) = IF len = 0 THEN 0 ELSE 5 * (HeaderSize * n + len) + 2 + Prefetch
  BY <1>1, <1>2 DEF StashCost, ImageSize
<1>4. LimitsSet /\ n <= BundleLimit
      => HeaderSize * n <= HeaderSize * BundleLimit /\ HeaderSize * BundleLimit >= 0
  <2> SUFFICES ASSUME LimitsSet, n <= BundleLimit
               PROVE  HeaderSize * n <= HeaderSize * BundleLimit
    BY <1>1, <1>2
  <2>1. n * HeaderSize = HeaderSize * n /\ BundleLimit * HeaderSize = HeaderSize * BundleLimit
    BY <1>1
  <2>2. BundleLimit \in Nat
    BY <1>1 DEF LimitsSet
  <2> QED BY <1>1, <2>1, <2>2, MulMono
<1> QED BY <1>1, <1>2, <1>3, <1>4 DEF LargestStash, LimitsSet

-----------------------------------------------------------------------------
(* What a stash leaves, and what it takes. *)

\* The bundles of S are gone, the others are as they were.
LEMMA StashLeaves ==
  ASSUME NEW S, NEW n, NEW b, NEW total, StashOf(S, n, b, total), TypeOK,
         n \in [Topics -> Nat], b \in [Topics -> Nat], S \subseteq Topics, total \in Int
  PROVE  /\ count' \in [Topics -> Nat] /\ bytes' \in [Topics -> Nat]
         /\ age' \in [Topics -> 0 .. MaxAge]
         /\ \A t \in Topics : /\ t \in S => count'[t] = 0 /\ bytes'[t] = 0 /\ age'[t] = 0
                              /\ t \notin S => /\ count'[t] = n[t] /\ bytes'[t] = b[t]
                                               /\ age'[t] = age[t]
         /\ \E t \in S : peak' = total + StashCost(n[t], b[t])
         /\ peak' \in Int
<1>1. MaxAge \in Nat
  BY LoopAssumption
<1>2. \A t \in S : StashCost(n[t], b[t]) \in Nat
  BY CostIs
<1> QED BY <1>1, <1>2 DEF StashOf, TypeOK

\* A stash fits if the buffers hold no more than what the turns may have added.
LEMMA StashTakes ==
  ASSUME NEW S, NEW n, NEW b, NEW total, StashOf(S, n, b, total), TypeOK,
         n \in [Topics -> Nat], b \in [Topics -> Nat], S \subseteq Topics, total \in Int,
         LimitsSet => \A t \in S : n[t] <= BundleLimit /\ b[t] <= BundleSize - 1 + Longest,
         Limited /\ resident <= program_limit
           => resident + total <= program_limit + (MemTestEvery + 1) * Longest,
         UNCHANGED platform
  PROVE  StashFits'
<1>1. PICK t \in S : peak' = total + StashCost(n[t], b[t])
  BY DEF StashOf
<1>2. StashCost(n[t], b[t]) \in Nat /\ (LimitsSet => StashCost(n[t], b[t]) <= LargestStash)
  BY CostIs
<1>3. /\ Limited' = Limited /\ program_limit' = program_limit /\ LargestStash' = LargestStash
      /\ resident' = resident /\ system_limit' = system_limit
  BY DEF platform, Limited, program_limit, LargestStash, Longest
<1>4. LargestStash \in Int /\ (MemTestEvery + 1) * Longest \in Int /\ program_limit \in Int
  <2>1. HeaderSize * BundleLimit \in Int
    BY LoopAssumption
  <2>2. system_limit * mem_percent \in Int
    BY DEF TypeOK
  <2>3. (MemTestEvery + 1) * Longest \in Int
    BY LongestIs, LoopAssumption
  <2> QED BY <2>1, <2>2, <2>3, LongestIs, LoopAssumption DEF LargestStash, program_limit
<1>5. resident \in Int /\ system_limit \in Int
  BY DEF TypeOK
<1>6. ASSUME Limited, resident <= program_limit, LimitsSet,
             system_limit - program_limit >= (MemTestEvery + 1) * Longest + LargestStash
      PROVE  resident + peak' <= system_limit
  BY <1>1, <1>2, <1>4, <1>5, <1>6
<1> QED BY <1>3, <1>6 DEF StashFits, LimitsSet

-----------------------------------------------------------------------------
LEMMA PlatformKept ==
  ASSUME UNCHANGED platform
  PROVE  /\ Limited' = Limited /\ program_limit' = program_limit /\ Longest' = Longest
         /\ subscribed' = subscribed /\ resident' = resident
BY DEF platform, Limited, program_limit, Longest

LEMMA LimitType == TypeOK => program_limit \in Int
<1>1. TypeOK => system_limit * mem_percent \in Int
  BY DEF TypeOK
<1> QED BY <1>1 DEF program_limit

LEMMA RoomNeeded == LimitsSet => (MemTestEvery + 1) * Longest + LargestStash \in Nat
<1> SUFFICES ASSUME LimitsSet PROVE (MemTestEvery + 1) * Longest + LargestStash \in Nat
  OBVIOUS
<1>1. MemTestEvery + 1 \in Nat /\ BundleLimit \in Nat /\ BundleSize \in Nat \ {0} /\ Prefetch \in Nat
  BY LoopAssumption DEF LimitsSet
<1>2. (MemTestEvery + 1) * Longest \in Nat /\ HeaderSize * BundleLimit \in Nat
  BY <1>1, GrowthBy, LoopAssumption
<1> QED BY <1>1, <1>2, LongestIs DEF LargestStash

\* Without a stash there is nothing that has to fit.
LEMMA EmptyFits == ASSUME TypeOK, peak = 0 PROVE StashFits
<1>1. resident \in Nat /\ system_limit \in Nat /\ program_limit \in Int
  BY LimitType DEF TypeOK
<1> QED BY <1>1, RoomNeeded DEF StashFits, LimitsSet

LEMMA NoStashFits == ASSUME TypeOK, UNCHANGED platform, peak' = 0 PROVE StashFits'
<1>1. resident \in Nat /\ system_limit \in Nat /\ program_limit \in Int
  BY LimitType DEF TypeOK
<1>2. /\ Limited' = Limited /\ program_limit' = program_limit /\ resident' = resident
      /\ system_limit' = system_limit /\ LargestStash' = LargestStash
      /\ Longest' = Longest
  BY PlatformKept DEF platform, LargestStash, Longest
<1> QED BY <1>1, <1>2, RoomNeeded DEF StashFits, LimitsSet

LEMMA CountType == mem_test_counter \in 0 .. MemTestEvery => NextCount(mem_test_counter) \in 0 .. MemTestEvery
BY LoopAssumption DEF NextCount

\* There is room for the record of a turn that passes the memory test.
LEMMA RoomForOne ==
  ASSUME TypeOK, MemoryGrowth, TestPasses, Limited
  PROVE  /\ resident <= program_limit =>
              resident + (heap + Longest) <= program_limit + (MemTestEvery + 1) * Longest
         /\ \/ resident + (heap + Longest)
                 <= program_limit + (NextCount(mem_test_counter) + 1) * Longest
            \/ heap + Longest <= (NextCount(mem_test_counter) + 1) * Longest
<1>1. /\ mem_test_counter \in Nat /\ mem_test_counter <= MemTestEvery /\ MemTestEvery \in Nat
      /\ resident \in Nat /\ heap \in Int /\ program_limit \in Int /\ Longest \in Nat
  BY LoopAssumption, LimitType, LongestIs DEF TypeOK
<1>2. CASE TestDue
  <2>1. resident + heap <= program_limit
    BY <1>1, <1>2 DEF TestPasses, ok, Limited
  <2>2. (0 + 1) * Longest = Longest /\ Longest <= (MemTestEvery + 1) * Longest
        /\ (MemTestEvery + 1) * Longest \in Int
    <3>1. 1 * Longest = Longest /\ 1 * Longest <= (MemTestEvery + 1) * Longest
      BY <1>1, GrowthBy
    <3>2. MemTestEvery + 1 \in Nat
      BY <1>1
    <3> QED BY <1>1, <3>1, <3>2, GrowthBy
  <2>3. NextCount(mem_test_counter) = 0
    BY <1>2 DEF TestDue, NextCount
  <2> QED BY <1>1, <2>1, <2>2, <2>3
<1>3. CASE ~TestDue
  <2> DEFINE k == mem_test_counter + 1
  <2>1. k \in Nat /\ k <= MemTestEvery /\ NextCount(mem_test_counter) = k
    BY <1>1, <1>3 DEF TestDue, NextCount
  <2>2. resident + heap <= program_limit + k * Longest \/ heap <= k * Longest
    BY DEF MemoryGrowth, Unchecked
  <2> HIDE DEF k
  <2>3. k * Longest \in Nat /\ (k + 1) * Longest = k * Longest + Longest
    BY <2>1, GrowthBy
  <2>4. k + 1 \in Nat /\ k + 1 <= MemTestEvery + 1
    BY <1>1, <2>1
  <2>5. (k + 1) * Longest <= (MemTestEvery + 1) * Longest /\ (MemTestEvery + 1) * Longest \in Int
    <3>1. MemTestEvery + 1 \in Nat
      BY <1>1
    <3> QED BY <2>4, <3>1, GrowthBy
  <2> QED BY <1>1, <2>1, <2>2, <2>3, <2>5
<1> QED BY <1>2, <1>3

\* What is in the buffers, without a new record.
LEMMA RoomAsIs ==
  ASSUME TypeOK, MemoryGrowth, Limited, resident <= program_limit
  PROVE  resident + heap <= program_limit + (MemTestEvery + 1) * Longest
<1>1. /\ mem_test_counter + 1 \in Nat /\ mem_test_counter + 1 <= MemTestEvery + 1
      /\ MemTestEvery + 1 \in Nat
      /\ resident \in Nat /\ heap \in Int /\ program_limit \in Int
  BY LoopAssumption, LimitType DEF TypeOK
<1>2. /\ (mem_test_counter + 1) * Longest <= (MemTestEvery + 1) * Longest
      /\ (mem_test_counter + 1) * Longest \in Nat /\ (MemTestEvery + 1) * Longest \in Nat
  BY <1>1, GrowthBy
<1> QED BY <1>1, <1>2 DEF MemoryGrowth, Unchecked

-----------------------------------------------------------------------------
(* The steps. *)

\* After stash_all nothing is buffered, whatever ended the turn.
LEMMA StashAllInv ==
  ASSUME Inv, stash_all, UNCHANGED platform,
         messageSizes' = messageSizes \/ messageSizes' = Nothing,
         mem_test_counter' \in 0 .. MemTestEvery, waited' \in 0 .. WaitTime,
         atEnd' \subseteq Topics, owed' \subseteq Topics
  PROVE  Inv'
<1> USE DEF Inv
<1>1. /\ StashOf(subscribed, count, bytes, heap) /\ heap' = 0
      /\ subscribed \subseteq Topics /\ count \in [Topics -> Nat] /\ bytes \in [Topics -> Nat]
      /\ heap \in Int
  BY DEF stash_all, TypeOK
<1>2. /\ count' \in [Topics -> Nat] /\ bytes' \in [Topics -> Nat]
      /\ age' \in [Topics -> 0 .. MaxAge] /\ peak' \in Int
      /\ \A t \in Topics : /\ t \in subscribed => count'[t] = 0 /\ bytes'[t] = 0 /\ age'[t] = 0
                           /\ t \notin subscribed => count'[t] = count[t] /\ bytes'[t] = bytes[t]
                                                     /\ age'[t] = age[t]
  BY <1>1, StashLeaves
<1>3. \A t \in Topics : count'[t] = 0 /\ bytes'[t] = 0 /\ age'[t] = 0
  BY <1>2 DEF BundlesBelow, Ages
<1>4. TypeOK'
  <2>1. messageSizes' \in [Topics -> Nat]
    BY DEF TypeOK, Nothing
  <2> QED BY <1>1, <1>2, <2>1 DEF TypeOK, platform
<1>5. BundlesBelow'
  BY <1>3, LoopAssumption DEF BundlesBelow, TypeOK, Nothing
<1>6. MemoryGrowth'
  <2>1. mem_test_counter' + 1 \in Nat
    <3> DEFINE k == mem_test_counter'
    <3>1. k \in 0 .. MemTestEvery
      OBVIOUS
    <3> HIDE DEF k
    <3>2. k + 1 \in Nat
      BY <3>1, LoopAssumption
    <3> QED BY <3>2 DEF k
  <2>2. (mem_test_counter' + 1) * Longest \in Nat
    BY <2>1, GrowthBy
  <2> QED BY <1>1, <2>2, PlatformKept DEF MemoryGrowth, Unchecked
<1>7. Ages'
  BY <1>3, <1>2 DEF Ages, AgeBounded
<1>8. StashFits'
  <2>1. LimitsSet => \A t \in subscribed : /\ count[t] <= BundleLimit
                                           /\ bytes[t] <= BundleSize - 1 + Longest
    BY <1>1, LoopAssumption, LongestIs DEF BundlesBelow, TypeOK, LimitsSet
  <2>2. Limited /\ resident <= program_limit
        => resident + heap <= program_limit + (MemTestEvery + 1) * Longest
    BY RoomAsIs
  <2> QED BY <1>1, <2>1, <2>2, StashTakes
<1> QED BY <1>4, <1>5, <1>6, <1>7, <1>8

\* A record is buffered, and its topic stashed if a limit is reached.
LEMMA ConsumeMessageInv ==
  ASSUME Inv, NEW t \in Topics, NEW len \in PayloadLens, NEW newest \in BOOLEAN,
         ConsumeMessage(t, len, newest)
  PROVE  Inv'
<1> USE DEF Inv
<1> DEFINE n     == [count EXCEPT ![t] = @ + 1]
           b     == [bytes EXCEPT ![t] = @ + len]
           size  == messageSizes[t] + len
           total == heap + len
<1>1. /\ TestPasses /\ mem_test_counter' = NextCount(mem_test_counter) /\ waited' = 0
      /\ t \in subscribed /\ UNCHANGED platform
      /\ atEnd' = IF newest THEN atEnd \cup {t} ELSE atEnd \ {t}
      /\ owed'  = IF newest /\ partition_eof THEN owed \cup {t} ELSE owed
  BY DEF ConsumeMessage, Turn
<1>2. /\ len \in Nat /\ len <= Longest /\ Longest \in Nat
      /\ BundleLimit \in Int /\ BundleSize \in Int /\ WaitTime \in Nat
      /\ MaxAge \in Nat
  BY LongestIs, LoopAssumption
<1>3. /\ n \in [Topics -> Nat] /\ b \in [Topics -> Nat] /\ size \in Nat /\ total \in Int
      /\ n[t] = count[t] + 1 /\ b[t] = bytes[t] + len
      /\ \A u \in Topics \ {t} : n[u] = count[u] /\ b[u] = bytes[u]
      /\ LimitsSet => n[t] <= BundleLimit /\ b[t] <= BundleSize - 1 + Longest
  BY <1>2 DEF TypeOK, BundlesBelow, LimitsSet
<1>4. /\ mem_test_counter' \in 0 .. MemTestEvery /\ waited' \in 0 .. WaitTime
      /\ atEnd' \subseteq Topics /\ owed' \subseteq Topics
  BY <1>1, <1>2, CountType DEF TypeOK
<1>5. heap' <= total /\ heap' \in Int => MemoryGrowth'
  <2> SUFFICES ASSUME heap' <= total, heap' \in Int, Limited PROVE
          \/ resident + heap' <= program_limit + (NextCount(mem_test_counter) + 1) * Longest
          \/ heap' <= (NextCount(mem_test_counter) + 1) * Longest
    BY <1>1, PlatformKept DEF MemoryGrowth, Unchecked
  <2>1. heap' <= heap + Longest /\ heap \in Int /\ resident \in Nat /\ program_limit \in Int
    BY <1>2, LimitType DEF TypeOK
  <2>2. NextCount(mem_test_counter) + 1 \in Nat
    <3>1. MemTestEvery \in Nat
      BY LoopAssumption
    <3> QED BY <3>1, CountType DEF TypeOK
  <2>3. (NextCount(mem_test_counter) + 1) * Longest \in Int
    BY <2>2, GrowthBy
  <2> QED BY <1>1, <1>2, <2>1, <2>3, RoomForOne
<1>6. CASE /\ StashOf({t}, n, b, total)
           /\ messageSizes' = [messageSizes EXCEPT ![t] = 0]
           /\ heap' = total - b[t]
  <2> HIDE DEF n, b, size, total
  <2>1. /\ count' \in [Topics -> Nat] /\ bytes' \in [Topics -> Nat]
        /\ age' \in [Topics -> 0 .. MaxAge] /\ peak' \in Int
        /\ count'[t] = 0 /\ bytes'[t] = 0 /\ age'[t] = 0
        /\ \A u \in Topics \ {t} : /\ count'[u] = n[u] /\ bytes'[u] = b[u] /\ age'[u] = age[u]
    BY <1>3, <1>6, StashLeaves
  <2>2. \A u \in Topics \ {t} : count'[u] = count[u] /\ bytes'[u] = bytes[u]
    BY <1>3, <2>1
  <2>3. /\ messageSizes' \in [Topics -> Nat] /\ messageSizes'[t] = 0
        /\ \A u \in Topics \ {t} : messageSizes'[u] = messageSizes[u]
    BY <1>6 DEF TypeOK
  <2>4. b[t] \in Nat /\ heap' \in Int /\ heap' <= total
    BY <1>3, <1>6
  <2>5. TypeOK'
    <3> QED BY <1>1, <1>4, <2>1, <2>3, <2>4 DEF TypeOK, platform
  <2>6. BundlesBelow'
    BY <1>1, <1>2, <2>1, <2>2, <2>3, PlatformKept DEF BundlesBelow
  <2>7. Ages'
    <3>1. \A u \in Topics : count'[u] = 0 => age'[u] = 0
      BY <2>1, <2>2 DEF Ages
    <3>2. \A u \in Topics : subscribed' = {u} => u = t
      BY <1>1, PlatformKept
    <3> QED BY <2>1, <3>1, <3>2 DEF Ages, AgeBounded
  <2>8. StashFits'
    <3>1. Limited /\ resident <= program_limit
          => resident + total <= program_limit + (MemTestEvery + 1) * Longest
      <4> SUFFICES ASSUME Limited, resident <= program_limit
                   PROVE  resident + total <= program_limit + (MemTestEvery + 1) * Longest
        OBVIOUS
      <4>1. resident + (heap + Longest) <= program_limit + (MemTestEvery + 1) * Longest
        BY <1>1, RoomForOne
      <4>2. MemTestEvery + 1 \in Nat
        BY LoopAssumption
      <4>3. (MemTestEvery + 1) * Longest \in Int
        BY <4>2, GrowthBy
      <4>4. heap \in Int /\ resident \in Nat /\ program_limit \in Int
        BY LimitType DEF TypeOK
      <4> QED BY <1>2, <4>1, <4>3, <4>4 DEF total
    <3> QED BY <1>1, <1>3, <1>6, <3>1, StashTakes
  <2> QED BY <1>5, <2>4, <2>5, <2>6, <2>7, <2>8
<1>7. CASE /\ ~LimitReached(n[t]) /\ ~SizeReached(size)
           /\ count' = n /\ bytes' = b /\ heap' = total
           /\ messageSizes' = [messageSizes EXCEPT ![t] = size]
           /\ peak' = 0 /\ UNCHANGED age
  <2>1. TypeOK'
    <3>1. count' \in [Topics -> Nat] /\ bytes' \in [Topics -> Nat]
      BY <1>2, <1>3, <1>7 DEF TypeOK
    <3>2. messageSizes' \in [Topics -> Nat]
      BY <1>3, <1>7 DEF TypeOK
    <3> QED BY <1>1, <1>3, <1>4, <1>7, <3>1, <3>2 DEF TypeOK, platform
  <2>2. BundlesBelow'
    <3>1. \A u \in Topics \ {t} : messageSizes'[u] = messageSizes[u]
      BY <1>7 DEF TypeOK
    <3>2. /\ messageSizes'[t] = size /\ bytes'[t] <= size
          /\ size < BundleSize /\ (BundleLimit > 0 => count'[t] < BundleLimit)
      BY <1>2, <1>3, <1>7 DEF TypeOK, BundlesBelow, LimitReached, SizeReached
    <3> QED BY <1>1, <1>3, <1>7, <3>1, <3>2, PlatformKept DEF BundlesBelow
  <2>3. Ages'
    <3>1. \A u \in Topics : count'[u] = 0 => age'[u] = 0
      BY <1>3, <1>7 DEF Ages, TypeOK
    <3>2. \A u \in Topics : subscribed' = {u} => u = t
      BY <1>1, PlatformKept
    <3>3. subscribed = {t} => age[t] <= (count'[t] - 1) * WaitTime + waited'
      <4>1. count[t] \in Nat /\ age[t] \in Nat /\ waited \in Nat /\ waited <= WaitTime
            /\ count'[t] - 1 = count[t]
        BY <1>2, <1>3, <1>7 DEF TypeOK
      <4>2. CASE count[t] = 0
        <5>1. age[t] = 0 /\ count'[t] - 1 = 0 /\ waited' = 0
          BY <1>1, <4>1, <4>2 DEF Ages
        <5> QED BY <1>2, <5>1
      <4>3. CASE count[t] > 0
        <5> SUFFICES ASSUME subscribed = {t} PROVE age[t] <= count[t] * WaitTime
          <6>1. count[t] * WaitTime \in Nat
            BY <1>2, <4>1
          <6> QED BY <1>1, <4>1, <6>1
        <5>1. age[t] <= (count[t] - 1) * WaitTime + waited
          BY <4>3 DEF Ages, AgeBounded
        <5>2. /\ ((count[t] - 1) + 1) * WaitTime = (count[t] - 1) * WaitTime + WaitTime
              /\ (count[t] - 1) * WaitTime \in Int /\ (count[t] - 1) + 1 = count[t]
          <6>1. count[t] - 1 \in Int
            BY <4>1
          <6> QED BY <1>2, <4>1, <6>1, MulSucc
        <5> QED BY <1>2, <4>1, <5>1, <5>2
      <4> QED BY <4>1, <4>2, <4>3
    <3> QED BY <1>1, <1>7, <3>1, <3>2, <3>3, PlatformKept DEF Ages, AgeBounded
  <2>4. StashFits'
    BY <1>1, <1>7, NoStashFits
  <2> QED BY <1>3, <1>5, <1>7, <2>1, <2>2, <2>3, <2>4
<1> QED BY <1>6, <1>7 DEF ConsumeMessage

\* Time passes: nothing is stashed, every record gets older.
LEMMA TickInv == ASSUME Inv, Tick PROVE Inv'
<1> USE DEF Inv
<1>1. /\ UNCHANGED platform
      /\ UNCHANGED <<mem_test_counter, count, bytes, messageSizes, heap, atEnd, owed>>
      /\ waited < WaitTime /\ waited' = waited + 1 /\ peak' = 0
      /\ age' = [t \in Topics |-> IF count[t] > 0 /\ age[t] < MaxAge THEN age[t] + 1 ELSE age[t]]
  BY DEF Tick, queues
<1>2. /\ WaitTime \in Nat /\ MaxAge \in Nat /\ waited \in Nat
      /\ \A t \in Topics : count[t] \in Nat /\ age[t] \in 0 .. MaxAge
  BY LoopAssumption DEF TypeOK
<1>3. TypeOK'
  <2>1. waited' \in 0 .. WaitTime /\ age' \in [Topics -> 0 .. MaxAge]
    BY <1>1, <1>2
  <2> QED BY <1>1, <2>1 DEF TypeOK, platform
<1>4. BundlesBelow' /\ MemoryGrowth'
  BY <1>1, PlatformKept DEF BundlesBelow, MemoryGrowth, Unchecked
<1>5. Ages'
  <2>1. \A t \in Topics : count'[t] = 0 => age'[t] = 0
    BY <1>1, <1>2 DEF Ages
  <2>2. ASSUME NEW t \in Topics, subscribed = {t}, count[t] > 0
        PROVE  age'[t] <= (count[t] - 1) * WaitTime + waited'
    <3>1. age'[t] <= age[t] + 1
      BY <1>1, <1>2
    <3>2. age[t] <= (count[t] - 1) * WaitTime + waited
      BY <2>2 DEF Ages, AgeBounded
    <3>3. (count[t] - 1) * WaitTime \in Int /\ age'[t] \in Int
      <4>1. count[t] - 1 \in Int
        BY <1>2
      <4> QED BY <1>1, <1>2, <4>1, MulSucc
    <3> QED BY <1>1, <1>2, <3>1, <3>2, <3>3
  <2> QED BY <1>1, <2>1, <2>2, PlatformKept DEF Ages, AgeBounded
<1>6. StashFits'
  <2>1. peak' = 0
    BY <1>1
  <2> QED BY <1>1, <2>1, NoStashFits
<1> QED BY <1>3, <1>4, <1>5, <1>6

-----------------------------------------------------------------------------
THEOREM InvInit == Init => Inv
<1> SUFFICES ASSUME Init PROVE Inv
  OBVIOUS
<1>1. TypeOK
  <2>1. mem_percent \in Int
    BY LoopAssumption DEF Init, MemPercent
  <2>2. resident \in Nat /\ system_limit \in Nat
    BY LoopAssumption DEF Init
  <2>3. 0 \in 0 .. MemTestEvery /\ 0 \in 0 .. WaitTime /\ 0 \in 0 .. MaxAge
    BY LoopAssumption
  <2> QED BY <2>1, <2>2, <2>3 DEF Init, TypeOK, Nothing
<1>2. BundlesBelow
  BY LoopAssumption DEF Init, BundlesBelow, Nothing
<1>3. MemoryGrowth
  <2>1. 1 * Longest \in Nat
    BY GrowthBy
  <2> QED BY <2>1 DEF Init, MemoryGrowth, Unchecked
<1>4. Ages
  BY DEF Init, Ages, AgeBounded, Nothing
<1>5. StashFits
  BY <1>1, EmptyFits DEF Init
<1> QED BY <1>1, <1>2, <1>3, <1>4, <1>5 DEF Inv

THEOREM InvStep == Inv /\ [Next]_vars => Inv'
<1> SUFFICES ASSUME Inv, [Next]_vars PROVE Inv'
  OBVIOUS
<1>0. 0 \in 0 .. WaitTime /\ 0 \in 0 .. MemTestEvery /\ TypeOK
  BY LoopAssumption DEF Inv
<1>1. CASE \E t \in Topics : Receive(t)
  BY <1>1, ConsumeMessageInv DEF Receive
<1>2. CASE \E t \in Topics : ConsumeEof(t)
  <2>1. PICK t \in Topics : ConsumeEof(t)
    BY <1>2
  <2>2. /\ stash_all /\ UNCHANGED platform /\ messageSizes' = messageSizes
        /\ mem_test_counter' = NextCount(mem_test_counter) /\ waited' = 0
        /\ atEnd' = atEnd /\ owed' = owed \ {t}
    BY <2>1 DEF ConsumeEof, Turn, StashOnEof
  <2>3. atEnd' \subseteq Topics /\ owed' \subseteq Topics
    BY <1>0, <2>2 DEF TypeOK
  <2>4. mem_test_counter' \in 0 .. MemTestEvery /\ waited' \in 0 .. WaitTime
    BY <1>0, <2>2, CountType DEF TypeOK
  <2> QED BY <2>2, <2>3, <2>4, StashAllInv
<1>3. CASE ConsumeTimedOut
  <2>2. /\ stash_all /\ UNCHANGED platform /\ messageSizes' = messageSizes
        /\ mem_test_counter' = NextCount(mem_test_counter) /\ waited' = 0
        /\ atEnd' = atEnd /\ owed' = owed
    BY <1>3 DEF ConsumeTimedOut, Turn, StashOnTimeout, queues
  <2>3. atEnd' \subseteq Topics /\ owed' \subseteq Topics
    BY <1>0, <2>2 DEF TypeOK
  <2>4. mem_test_counter' \in 0 .. MemTestEvery /\ waited' \in 0 .. WaitTime
    BY <1>0, <2>2, CountType DEF TypeOK
  <2> QED BY <2>2, <2>3, <2>4, StashAllInv
<1>4. CASE MemoryRestart
  <2>2. /\ stash_all /\ UNCHANGED platform /\ messageSizes' = Nothing
        /\ mem_test_counter' = 0 /\ waited' = waited /\ waited = 0
        /\ atEnd' = atEnd /\ owed' = {}
    BY <1>4 DEF MemoryRestart
  <2>3. atEnd' \subseteq Topics /\ owed' \subseteq Topics
    BY <1>0, <2>2 DEF TypeOK
  <2>4. mem_test_counter' \in 0 .. MemTestEvery /\ waited' \in 0 .. WaitTime
    BY <1>0, <2>2
  <2> QED BY <2>2, <2>3, <2>4, StashAllInv
<1>5. CASE Tick
  BY <1>5, TickInv
<1>6. CASE UNCHANGED vars
  BY <1>6 DEF vars, platform, buffers, queues, Inv, TypeOK, BundlesBelow, MemoryGrowth,
     Unchecked, Ages, AgeBounded, StashFits, Limited, program_limit
<1> QED BY <1>1, <1>2, <1>3, <1>4, <1>5, <1>6 DEF Next

THEOREM Invariant == Spec => []Inv
<1>1. Init => Inv
  BY InvInit
<1>2. Inv /\ [Next]_vars => Inv'
  BY InvStep
<1> QED BY <1>1, <1>2, PTL DEF Spec

-----------------------------------------------------------------------------
\* Every variable keeps a value of its type.  (Consume::run)
THEOREM RunLoopTypeCorrect == Spec => []TypeOK
<1>1. Inv => TypeOK
  BY DEF Inv
<1> QED BY <1>1, Invariant, PTL

\* Whatever the lengths of the payloads, the process holds no more than its
\* limit and one record per turn since the last memory test.
\* (Consume::run, MemChecker::ok)
THEOREM MemoryBoundedCorrect == Spec => []MemoryBounded
<1>1. Inv => MemoryBounded
  <2> SUFFICES ASSUME Inv, Limited
               PROVE  \/ resident + heap <= program_limit + (MemTestEvery + 1) * Longest
                      \/ heap <= (MemTestEvery + 1) * Longest
    BY DEF MemoryBounded
  <2>1. /\ mem_test_counter + 1 \in Nat /\ mem_test_counter + 1 <= MemTestEvery + 1
        /\ MemTestEvery + 1 \in Nat
        /\ resident \in Nat /\ heap \in Int /\ program_limit \in Int
    BY LoopAssumption, LimitType DEF Inv, TypeOK
  <2>2. /\ (mem_test_counter + 1) * Longest <= (MemTestEvery + 1) * Longest
        /\ (mem_test_counter + 1) * Longest \in Nat /\ (MemTestEvery + 1) * Longest \in Nat
    BY <2>1, GrowthBy
  <2> QED BY <2>1, <2>2 DEF Inv, MemoryGrowth, Unchecked
<1> QED BY <1>1, Invariant, PTL

\* With batchsize and binsize set, and the room of one test interval and one
\* stash between the two limits, no stash takes the process over the limit of its cgroup.
\* (MemChecker::init, stash_by_topic, S3::put)
THEOREM StashFitsCorrect == Spec => []StashFits
<1>1. Inv => StashFits
  BY DEF Inv
<1> QED BY <1>1, Invariant, PTL

\* A record of a process with one topic waits for collecttime_ms at most per
\* record behind it in the bundle.  (run_once, getConsumeWaitTime)
THEOREM AgeBoundedCorrect == Spec => []AgeBounded
<1>1. Inv => AgeBounded
  BY DEF Inv, Ages
<1> QED BY <1>1, Invariant, PTL
=============================================================================
