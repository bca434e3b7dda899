---------------------------- MODULE FeedCycleProofs ----------------------------
(***************************************************************************)
(* Theorems about the data of a cycle, for every feed, every schedule and  *)
(* every chunk size: the worker's check never refuses what the             *)
(* normalisation lets through, the batch query answers as the function for *)
(* one trip may, a feed whose rows are all sound is shown, and what is     *)
(* shown of a trip is what its update alone would give.                    *)
(***************************************************************************)
EXTENDS FeedCycle, TLAPS, WellFoundedInduction, FiniteSetTheorems

-----------------------------------------------------------------------------
(* Normalisation                                                           *)

\* A stop time that is kept is a representable time near its service day
\* (normalization.py, _optional_stop_timestamp).
LEMMA KeptTimesAreSafe ==
    ASSUME NEW timing, NEW date, Representable(timing.time),
           Present(StopTime(timing, date))
    PROVE  /\ Representable(StopTime(timing, date))
           /\ IsSafe(StopTime(timing, date), date)
BY DEF StopTime, Present

\* The values of a normalised stop update pass the worker's check.
LEMMA NormalStopsAreSound ==
    ASSUME NEW stop, NEW date,
           Representable(stop.arrival.time), Representable(stop.departure.time)
    PROVE  LET normal == NormalStop(stop, date)
           IN  /\ Present(normal.sequence) => normal.sequence \in 0 .. MaxInteger
               /\ \A time \in {normal.arrival.time, normal.departure.time} :
                    Present(time) => Representable(time) /\ IsSafe(time, date)
<1> DEFINE normal == NormalStop(stop, date)
<1>1. /\ normal.sequence = Sequence(stop)
      /\ normal.arrival.time = StopTime(stop.arrival, date)
      /\ normal.departure.time = StopTime(stop.departure, date)
  BY DEF NormalStop
<1>2. Present(normal.sequence) => normal.sequence \in 0 .. MaxInteger
  BY <1>1 DEF Sequence, Present
<1>3. \A time \in {normal.arrival.time, normal.departure.time} :
        Present(time) => Representable(time) /\ IsSafe(time, date)
  BY <1>1, KeptTimesAreSafe
<1> QED BY <1>2, <1>3

\* The updates that normalization.py makes of a feed it accepts are ones that
\* validate_snapshot_timestamps (worker.py:156) accepts, whatever the feed holds.
THEOREM NormalisedIsSound ==
    ASSUME NEW f, ~FeedRefused(f)
    PROVE  SnapshotIsSound(Snapshot(f))
<1> DEFINE snapshot == Snapshot(f)
           kept == KeptEntities(f)
<1>1. /\ snapshot.timestamp = f.timestamp
      /\ snapshot.updates = [i \in DOMAIN kept |-> NormalUpdate(kept[i])]
  BY DEF Snapshot
<1>2. Representable(snapshot.timestamp)
  BY <1>1 DEF FeedRefused
<1>3. ASSUME NEW update \in ToSet(snapshot.updates)
      PROVE  /\ Representable(update.timestamp)
             /\ \A stop \in ToSet(update.stops) :
                 /\ Present(stop.sequence) => stop.sequence \in 0 .. MaxInteger
                 /\ \A time \in {stop.arrival.time, stop.departure.time} :
                     Present(time) => Representable(time) /\ IsSafe(time, update.date)
  <2> HIDE DEF snapshot, kept
  <2>1. PICK i \in DOMAIN kept : update = NormalUpdate(kept[i])
    BY <1>1 DEF ToSet
  <2> DEFINE entity == kept[i]
             raw == StopsOf(entity.update)
  <2>2. /\ update.timestamp = entity.update.timestamp
        /\ update.date = Date(entity.update)
        /\ update.stops = [k \in DOMAIN raw |-> NormalStop(raw[k], Date(entity.update))]
    BY <2>1 DEF NormalUpdate
  <2>3. entity \in ToSet(kept)
    BY DEF ToSet
  <2>4. /\ Representable(entity.update.timestamp)
        /\ \A stop \in ToSet(raw) :
            Representable(stop.arrival.time) /\ Representable(stop.departure.time)
    BY <2>3 DEF FeedRefused, kept
  <2> HIDE DEF entity, raw
  <2>5. ASSUME NEW stop \in ToSet(update.stops)
        PROVE  /\ Present(stop.sequence) => stop.sequence \in 0 .. MaxInteger
               /\ \A time \in {stop.arrival.time, stop.departure.time} :
                   Present(time) => Representable(time) /\ IsSafe(time, update.date)
    <3>1. PICK k \in DOMAIN raw : stop = NormalStop(raw[k], Date(entity.update))
      BY <2>2 DEF ToSet
    <3>2. Representable(raw[k].arrival.time) /\ Representable(raw[k].departure.time)
      BY <2>4 DEF ToSet
    <3> QED BY <2>2, <3>1, <3>2, NormalStopsAreSound
  <2> QED BY <2>2, <2>4, <2>5
<1> QED BY <1>2, <1>3 DEF SnapshotIsSound

\* No feed that is decoded makes run_once raise at its own check of the snapshot: the
\* check guards against other sources only.
THEOREM NormalisedFeedsPassTheCheck == Spec => []NeverUnsound
<1>1. Init => NeverUnsound
  BY DEF Init, NeverUnsound
<1>2. NeverUnsound /\ [Next]_vars => NeverUnsound'
  <2> SUFFICES ASSUME NeverUnsound, [Next]_vars
               PROVE  NeverUnsound'
    OBVIOUS
  <2>1. CASE Fetch
    <3>1. CASE FeedRefused(feed')
      BY <2>1, <3>1 DEF Fetch, NeverUnsound
    <3>2. CASE ~FeedRefused(feed')
      <4>1. SnapshotIsSound(Snapshot(feed'))
        BY <3>2, NormalisedIsSound
      <4> QED BY <2>1, <4>1 DEF Fetch, NeverUnsound
    <3> QED BY <3>1, <3>2
  <2>2. CASE EstimateChunk
    BY <2>2 DEF EstimateChunk, NeverUnsound
  <2>3. CASE FailToEstimate
    BY <2>3 DEF FailToEstimate, NeverUnsound
  <2>4. CASE Publish
    BY <2>4 DEF Publish, NeverUnsound
  <2>5. CASE NextCycle
    BY <2>5 DEF NextCycle, NeverUnsound
  <2>6. CASE UNCHANGED vars
    BY <2>6 DEF vars, NeverUnsound
  <2> QED BY <2>1, <2>2, <2>3, <2>4, <2>5, <2>6 DEF Next
<1> QED BY <1>1, <1>2, PTL DEF Spec

-----------------------------------------------------------------------------
(* The two interpolation functions                                         *)

\* The first index of a set of indices is one of them.
LEMMA MinIsElement ==
    ASSUME NEW S \in SUBSET Nat, S # {}
    PROVE  Min(S) \in S
<1>1. PICK x \in S : \A y \in S : ~(<<y, x>> \in OpToRel(<, Nat))
  BY NatLessThanWellFounded, WFMin
<1>2. \A y \in S : x <= y
  <2> TAKE y \in S
  <2>1. ~(y < x)
    BY <1>1 DEF OpToRel
  <2> QED BY <2>1
<1> QED BY <1>2 DEF Min

\* What the batch query joins to a stop is what the LIMIT 1 of the function for one
\* trip may take.
LEMMA MatchedIsAllowed ==
    ASSUME NEW stops, DOMAIN stops \subseteq Nat, NEW st
    PROVE  Matched(stops, st) \in MatchedByEither(stops, st)
<1>1. AboutSequence(stops, st) \in SUBSET Nat /\ AboutStop(stops, st) \in SUBSET Nat
  BY DEF AboutSequence, AboutStop
<1>2. CASE AboutSequence(stops, st) # {}
  BY <1>1, <1>2, MinIsElement DEF Matched, MatchedByEither
<1>3. CASE AboutSequence(stops, st) = {} /\ AboutStop(stops, st) # {}
  BY <1>1, <1>3, MinIsElement DEF Matched, MatchedByEither
<1>4. CASE AboutSequence(stops, st) = {} /\ AboutStop(stops, st) = {}
  BY <1>4 DEF Matched, MatchedByEither
<1> QED BY <1>2, <1>3, <1>4

\* The rewritten batch function (20260909054609_optimize_batch_dynamic_updates.sql)
\* gives for every update and time a row that the function for one trip may give, in
\* whatever order its LIMIT 1 meets equally good stop updates.
THEOREM BatchAgreesWithSingle ==
    ASSUME NEW update, NEW at, DOMAIN update.stops \subseteq Nat
    PROVE  BatchRow(update, at) \in SingleRows(update, at)
<1>1. CASE update.trip \notin DOMAIN StopTimes
  BY <1>1 DEF BatchRow, SingleRows
<1>2. CASE update.trip \in DOMAIN StopTimes
  <2> DEFINE sts == StopTimes[update.trip]
             Candidates(i) == MatchedByEither(Payload(update), sts[i])
             all == UNION {Candidates(i) : i \in DOMAIN sts}
             first == [i \in DOMAIN sts |-> Matched(Payload(update), sts[i])]
  <2>1. DOMAIN Payload(update) \subseteq Nat
    BY DEF Payload
  <2>2. \A i \in DOMAIN sts : Matched(Payload(update), sts[i]) \in Candidates(i)
    BY <2>1, MatchedIsAllowed
  <2>3. first \in [DOMAIN sts -> all]
    BY <2>2
  <2>4. \A i \in DOMAIN sts : first[i] \in Candidates(i)
    BY <2>2
  <2>5. RowOf(update.trip, update.date, at, first) \in
            {RowOf(update.trip, update.date, at, m) :
                m \in {x \in [DOMAIN sts -> all] :
                           \A i \in DOMAIN sts : x[i] \in Candidates(i)}}
    BY <2>3, <2>4
  <2> QED BY <1>2, <2>5 DEF BatchRow, SingleRows
<1> QED BY <1>1, <1>2

-----------------------------------------------------------------------------
(* Sequences and sets of indices                                           *)

\* A nonempty set of naturals has a least element.
LEMMA LeastExists ==
    ASSUME NEW S \in SUBSET Nat, S # {}
    PROVE  \E x \in S : \A y \in S : x <= y
<1>1. PICK x \in S : \A y \in S : ~(<<y, x>> \in OpToRel(<, Nat))
  BY NatLessThanWellFounded, WFMin
<1>2. \A y \in S : x <= y
  <2> TAKE y \in S
  <2>1. ~(y < x)
    BY <1>1 DEF OpToRel
  <2> QED BY <2>1
<1> QED BY <1>2

\* The last index of a nonempty set of indices is its maximum.
LEMMA MaxIsLast ==
    ASSUME NEW n \in Nat, NEW S \in SUBSET (1 .. n), S # {}
    PROVE  Max(S) \in S /\ \A x \in S : x <= Max(S)
<1> DEFINE back == {n - x : x \in S}
<1>0. \A x \in S : x \in Int /\ n - x \in Nat
  OBVIOUS
<1>1. back \in SUBSET Nat /\ back # {}
  BY <1>0
<1>2. PICK y \in back : \A z \in back : y <= z
  <2> HIDE DEF back
  <2> QED BY <1>1, LeastExists
<1>3. PICK x \in S : y = n - x
  OBVIOUS
<1>4. \A z \in S : x >= z
  <2> TAKE z \in S
  <2>1. n - z \in back
    OBVIOUS
  <2>2. n - x <= n - z
    BY <1>2, <1>3, <2>1
  <2>3. x \in Int /\ z \in Int
    BY <1>0
  <2> QED BY <2>2, <2>3
<1> QED BY <1>4 DEF Max

\* The k-th of a set of indices is one of them, none is missed, and they come in order.
LEMMA NthIsOrdered ==
    ASSUME NEW n \in Nat, NEW I \in SUBSET (1 .. n)
    PROVE  /\ IsFiniteSet(I) /\ Cardinality(I) \in 0 .. n
           /\ \A k \in 1 .. Cardinality(I) : Nth(I, k) \in I
           /\ \A i \in I : \E k \in 1 .. Cardinality(I) : Nth(I, k) = i
           /\ \A k, l \in 1 .. Cardinality(I) : k < l => Nth(I, k) < Nth(I, l)
<1> DEFINE below(i) == {j \in I : j < i}
           rank(i) == Cardinality(below(i))
           c == Cardinality(I)
<1>0. I \subseteq Int
  OBVIOUS
<1>1. IsFiniteSet(I) /\ c \in 0 .. n
  <2>1. IsFiniteSet(1 .. n) /\ Cardinality(1 .. n) = n
    BY FS_Interval
  <2>2. IsFiniteSet(I) /\ c <= n
    BY <2>1, FS_Subset
  <2>3. c \in Nat
    BY <2>2, FS_CardinalityType
  <2> QED BY <2>2, <2>3
<1>2. \A i \in I : IsFiniteSet(below(i)) /\ rank(i) \in 0 .. c - 1
  <2> TAKE i \in I
  <2>1. below(i) \in SUBSET (I \ {i})
    OBVIOUS
  <2>2. IsFiniteSet(I \ {i}) /\ Cardinality(I \ {i}) = c - 1
    BY <1>1, FS_RemoveElement
  <2>3. IsFiniteSet(below(i)) /\ rank(i) <= c - 1
    BY <2>1, <2>2, FS_Subset
  <2> QED BY <1>1, <2>3, FS_CardinalityType
<1>3. \A i, j \in I : i < j => rank(i) < rank(j)
  <2> SUFFICES ASSUME NEW i \in I, NEW j \in I, i < j PROVE rank(i) < rank(j)
    OBVIOUS
  <2>1. below(i) \cup {i} \in SUBSET below(j)
    <3>1. \A x \in below(i) : x \in I /\ x < j
      BY <1>0
    <3> QED BY <3>1
  <2>2. Cardinality(below(i) \cup {i}) = rank(i) + 1
    <3>1. i \notin below(i)
      OBVIOUS
    <3> QED BY <1>2, <3>1, FS_AddElement
  <2>3. Cardinality(below(i) \cup {i}) <= rank(j)
    BY <1>2, <2>1, FS_Subset
  <2> QED BY <1>2, <2>2, <2>3
<1> HIDE DEF below, c
<1>4. \A i, j \in I : rank(i) = rank(j) => i = j
  <2> SUFFICES ASSUME NEW i \in I, NEW j \in I, rank(i) = rank(j), i # j PROVE FALSE
    OBVIOUS
  <2>1. i < j \/ j < i
    BY <1>0
  <2> QED BY <1>2, <1>3, <2>1
<1>5. \A k \in 1 .. c : \E i \in I : rank(i) = k - 1
  <2> DEFINE place == [i \in I |-> rank(i) + 1]
  <2>0. \A i \in I : rank(i) \in Int /\ place[i] = rank(i) + 1
    BY <1>2
  <2>1. place \in Injection(I, 1 .. c)
    <3>1. place \in [I -> 1 .. c]
      BY <1>1, <1>2
    <3>2. \A i, j \in I : place[i] = place[j] => i = j
      BY <1>4, <2>0
    <3> HIDE DEF place
    <3> QED BY <3>1, <3>2 DEF Injection, IsInjective
  <2>2. IsFiniteSet(1 .. c) /\ Cardinality(1 .. c) = c
    BY <1>1, FS_Interval
  <2>3. place \in Surjection(I, 1 .. c)
    <3> HIDE DEF place
    <3> QED BY <1>1, <2>1, <2>2, FS_Injection DEF c
  <2>4. \A k \in 1 .. c : \E i \in I : place[i] = k
    <3> HIDE DEF place
    <3> QED BY <2>3, Zenon DEF Surjection
  <2> HIDE DEF place
  <2> TAKE k \in 1 .. c
  <2>5. PICK i \in I : place[i] = k
    BY <2>4
  <2>6. rank(i) \in Int /\ rank(i) + 1 = k
    BY <2>0, <2>5
  <2> QED BY <2>6
<1>6. \A k \in 1 .. c : Nth(I, k) \in I /\ rank(Nth(I, k)) = k - 1
  BY <1>5 DEF Nth, below
<1>7. \A i \in I : \E k \in 1 .. c : Nth(I, k) = i
  <2> TAKE i \in I
  <2>1. rank(i) + 1 \in 1 .. c
    BY <1>1, <1>2
  <2>2. Nth(I, rank(i) + 1) \in I /\ rank(Nth(I, rank(i) + 1)) = rank(i)
    BY <1>2, <1>6, <2>1
  <2> QED BY <1>4, <2>1, <2>2
<1>8. ASSUME NEW k \in 1 .. c, NEW l \in 1 .. c, k < l
      PROVE  Nth(I, k) < Nth(I, l)
  <2>1. /\ Nth(I, k) \in I /\ rank(Nth(I, k)) = k - 1
        /\ Nth(I, l) \in I /\ rank(Nth(I, l)) = l - 1
    BY <1>6
  <2>2. CASE Nth(I, l) < Nth(I, k)
    <3>1. l - 1 < k - 1
      BY <1>3, <2>1, <2>2
    <3> QED BY <1>1, <1>8, <3>1
  <2>3. CASE Nth(I, l) = Nth(I, k)
    <3>1. k - 1 = l - 1
      BY <2>1, <2>3
    <3> QED BY <1>1, <1>8, <3>1
  <2>4. Nth(I, k) \in Int /\ Nth(I, l) \in Int
    BY <1>0, <2>1
  <2> QED BY <2>2, <2>3, <2>4
<1> QED BY <1>1, <1>6, <1>7, <1>8 DEF c

\* What is picked of a sequence is a sequence of just the elements at those indices.
LEMMA PickedIs ==
    ASSUME NEW list, NEW n \in Nat, DOMAIN list = 1 .. n, NEW I \in SUBSET (1 .. n),
           NEW picked, picked = Picked(list, I)
    PROVE  /\ \E S : picked \in Seq(S)
           /\ DOMAIN picked = 1 .. Cardinality(I) /\ Len(picked) = Cardinality(I)
           /\ Cardinality(I) \in Nat
           /\ \A k \in 1 .. Cardinality(I) : Nth(I, k) \in I /\ picked[k] = list[Nth(I, k)]
           /\ \A i \in I : \E k \in 1 .. Cardinality(I) : Nth(I, k) = i
<1>1. Cardinality(I) \in Nat
  BY NthIsOrdered
<1>2. picked = [k \in 1 .. Cardinality(I) |-> list[Nth(I, k)]]
  BY DEF Picked
<1>3. \A k \in 1 .. Cardinality(I) : Nth(I, k) \in I
  BY NthIsOrdered
<1>4. picked \in [1 .. Cardinality(I) -> {list[i] : i \in I}]
  BY <1>2, <1>3
<1>5. picked \in Seq({list[i] : i \in I}) /\ Len(picked) = Cardinality(I)
  BY <1>1, <1>4
<1>6. \A i \in I : \E k \in 1 .. Cardinality(I) : Nth(I, k) = i
  BY NthIsOrdered
<1> QED BY <1>1, <1>2, <1>3, <1>5, <1>6

\* Places in a first list of those in a second: in order, and within a bound.
IsEmbedding(at, m, n) ==
    /\ at \in [1 .. m -> 1 .. n]
    /\ \A k, l \in 1 .. m : k < l => at[k] < at[l]

-----------------------------------------------------------------------------
(* The updates of an accepted feed                                         *)

\* A time that datetime can hold and near its service day, and a delay of 32 bits.
IsNormalTiming(timing, date) ==
    /\ Present(timing.time) => timing.time \in MinTime .. MaxTime /\ IsSafe(timing.time, date)
    /\ Present(timing.delay) => timing.delay \in Int32

\* What the estimator and the contracts need of a normalised update.
IsNormal(update) ==
    /\ Present(update.date) => update.date \in Int
    /\ update.trip # Blank /\ Representable(update.timestamp)
    /\ \E n \in Nat : DOMAIN update.stops = 1 .. n
    /\ \A i \in DOMAIN update.stops :
        LET stop == update.stops[i]
        IN  /\ {"arrival", "departure"} \subseteq DOMAIN stop
            /\ IsNormalTiming(stop.arrival, update.date)
            /\ IsNormalTiming(stop.departure, update.date)

\* Entities and stop updates that are kept are some of those of the feed.
LEMMA KeptAreSome ==
    ASSUME NEW list, list \in Seq(ToSet(list)), NEW I \in SUBSET DOMAIN list, NEW picked,
           picked = Picked(list, I)
    PROVE  /\ Len(picked) \in Nat /\ DOMAIN picked = 1 .. Len(picked)
           /\ \A k \in DOMAIN picked : \E i \in I : picked[k] = list[i]
<1>1. Len(list) \in Nat /\ DOMAIN list = 1 .. Len(list)
  OBVIOUS
<1>2. I \in SUBSET (1 .. Len(list))
  BY <1>1
<1>3. /\ DOMAIN picked = 1 .. Cardinality(I) /\ Len(picked) = Cardinality(I)
      /\ Cardinality(I) \in Nat
      /\ \A k \in 1 .. Cardinality(I) : Nth(I, k) \in I /\ picked[k] = list[Nth(I, k)]
  BY <1>1, <1>2, PickedIs
<1> QED BY <1>3

\* The stop updates of an entity of a feed: kept ones, with delays of 32 bits.
LEMMA StopsAreKept ==
    ASSUME NEW f \in Feeds, NEW e \in ToSet(f.entities), Present(e.update)
    PROVE  LET stops == StopsOf(e.update)
           IN  /\ Len(stops) \in Nat /\ DOMAIN stops = 1 .. Len(stops)
               /\ \A k \in DOMAIN stops :
                    {stops[k].arrival.delay, stops[k].departure.delay} \subseteq
                        Int32 \cup {Absent}
<1> DEFINE list == e.update.stops
           I == {i \in DOMAIN list : IsIdentified(list[i])}
<1>1. /\ list \in Seq(ToSet(list))
      /\ \A s \in ToSet(list) :
            {s.arrival.delay, s.departure.delay} \subseteq Int32 \cup {Absent}
  BY FeedsAssumption
<1>2. StopsOf(e.update) = Picked(list, I)
  BY DEF StopsOf
<1>3. I \in SUBSET DOMAIN list /\ \A i \in I : list[i] \in ToSet(list)
  BY DEF ToSet
<1> DEFINE stops == StopsOf(e.update)
<1> HIDE DEF list, I
<1>4. /\ Len(stops) \in Nat /\ DOMAIN stops = 1 .. Len(stops)
      /\ \A k \in DOMAIN stops : \E i \in I : stops[k] = list[i]
  BY <1>1, <1>2, <1>3, KeptAreSome
<1> HIDE DEF stops
<1>5. /\ Len(stops) \in Nat /\ DOMAIN stops = 1 .. Len(stops)
      /\ \A k \in DOMAIN stops :
            {stops[k].arrival.delay, stops[k].departure.delay} \subseteq Int32 \cup {Absent}
  BY <1>1, <1>3, <1>4
<1> QED BY <1>5 DEF stops

\* An accepted feed has normal updates only (normalization.py).
LEMMA UpdatesAreNormal ==
    ASSUME NEW f \in Feeds, ~FeedRefused(f)
    PROVE  LET updates == Snapshot(f).updates
           IN  /\ Len(updates) \in Nat /\ DOMAIN updates = 1 .. Len(updates)
               /\ \A k \in DOMAIN updates : IsNormal(updates[k])
<1> DEFINE list == f.entities
           I == {i \in DOMAIN list : IsKept(list[i])}
           kept == KeptEntities(f)
           updates == Snapshot(f).updates
<1>1. list \in Seq(ToSet(list))
  BY FeedsAssumption
<1>2. kept = Picked(list, I) /\ I \in SUBSET DOMAIN list
  BY DEF KeptEntities
<1>3. \A i \in I : list[i] \in ToSet(list) /\ IsKept(list[i])
  BY DEF ToSet
<1>4. updates = [k \in DOMAIN kept |-> NormalUpdate(kept[k])]
  BY DEF Snapshot
<1>5. SnapshotIsSound(Snapshot(f))
  BY NormalisedIsSound
<1> HIDE DEF I, kept
<1>6. /\ Len(kept) \in Nat /\ DOMAIN kept = 1 .. Len(kept)
      /\ \A k \in DOMAIN kept : kept[k] \in ToSet(list) /\ IsKept(kept[k])
  <2> HIDE DEF list
  <2>1. /\ Len(kept) \in Nat /\ DOMAIN kept = 1 .. Len(kept)
        /\ \A k \in DOMAIN kept : \E i \in I : kept[k] = list[i]
    BY <1>1, <1>2, KeptAreSome
  <2> QED BY <1>3, <2>1
<1>7. Len(updates) \in Nat /\ DOMAIN updates = 1 .. Len(updates)
  <2>1. updates \in Seq({NormalUpdate(kept[k]) : k \in DOMAIN kept})
    BY <1>4, <1>6
  <2> HIDE DEF updates
  <2> QED BY <2>1
<1>8. ASSUME NEW k \in DOMAIN updates PROVE IsNormal(updates[k])
  <2> DEFINE update == updates[k]
             raw == kept[k].update
             stops == StopsOf(raw)
  <2>1. k \in DOMAIN kept /\ update = NormalUpdate(kept[k])
    BY <1>4
  <2>2. kept[k] \in ToSet(list) /\ IsKept(kept[k]) /\ Present(raw)
    BY <1>6, <2>1 DEF IsKept
  <2>3. /\ update.date = Date(raw) /\ update.trip = Text(raw.trip)
        /\ update.stops = [i \in DOMAIN stops |-> NormalStop(stops[i], Date(raw))]
    BY <2>1 DEF NormalUpdate
  <2>4. raw.date \in Int \cup {Absent, Garbled}
    BY <2>2, FeedsAssumption
  <2>5. /\ Len(stops) \in Nat /\ DOMAIN stops = 1 .. Len(stops)
        /\ \A i \in DOMAIN stops :
            {stops[i].arrival.delay, stops[i].departure.delay} \subseteq Int32 \cup {Absent}
    BY <2>2, StopsAreKept
  <2>6. update \in ToSet(updates)
    BY DEF ToSet
  <2>7. /\ Representable(update.timestamp)
        /\ \A stop \in ToSet(update.stops) :
            \A time \in {stop.arrival.time, stop.departure.time} :
                Present(time) => Representable(time) /\ IsSafe(time, update.date)
    <3> HIDE DEF updates
    <3> QED BY <1>5, <2>6 DEF SnapshotIsSound, updates
  <2> HIDE DEF update, stops, raw
  <2>8. update.trip # Blank
    BY <2>3, TextAssumption DEF Text
  <2>9. Present(update.date) => update.date \in Int
    BY <2>3, <2>4 DEF Date, Present
  <2>10. \E n \in Nat : DOMAIN update.stops = 1 .. n
    BY <2>3, <2>5
  <2>11. ASSUME NEW i \in DOMAIN update.stops
         PROVE  LET stop == update.stops[i]
                IN  /\ {"arrival", "departure"} \subseteq DOMAIN stop
                    /\ IsNormalTiming(stop.arrival, update.date)
                    /\ IsNormalTiming(stop.departure, update.date)
    <3> DEFINE stop == update.stops[i]
    <3>1. i \in DOMAIN stops /\ stop = NormalStop(stops[i], Date(raw))
      BY <2>3
    <3>2. stop \in ToSet(update.stops)
      BY DEF ToSet
    <3>3. /\ {"arrival", "departure"} \subseteq DOMAIN stop
          /\ stop.arrival.delay = stops[i].arrival.delay
          /\ stop.departure.delay = stops[i].departure.delay
      BY <3>1 DEF NormalStop
    <3> HIDE DEF stop
    <3>4. \A timing \in {stop.arrival, stop.departure} : IsNormalTiming(timing, update.date)
      BY <2>5, <2>7, <3>1, <3>2, <3>3 DEF IsNormalTiming, Representable, Present
    <3> QED BY <3>3, <3>4 DEF stop
  <2>12. IsNormal(update)
    BY <2>7, <2>8, <2>9, <2>10, <2>11 DEF IsNormal
  <2> QED BY <2>12 DEF update
<1> HIDE DEF updates
<1>9. /\ Len(updates) \in Nat /\ DOMAIN updates = 1 .. Len(updates)
      /\ \A k \in DOMAIN updates : IsNormal(updates[k])
  BY <1>7, <1>8
<1> QED BY <1>9 DEF updates

-----------------------------------------------------------------------------
(* The rows of the query                                                   *)

\* What is joined to a stop time has normal timings.
LEMMA MatchedIsNormal ==
    ASSUME NEW update, IsNormal(update), NEW st
    PROVE  /\ IsNormalTiming(Matched(Payload(update), st).arrival, update.date)
           /\ IsNormalTiming(Matched(Payload(update), st).departure, update.date)
<1> DEFINE payload == Payload(update)
           m == Matched(payload, st)
<1>1. IsNormalTiming(NoTiming, update.date)
  BY DEF IsNormalTiming, NoTiming, Present
<1>2. DOMAIN payload = DOMAIN update.stops /\ DOMAIN payload \subseteq Nat
  BY DEF IsNormal, Payload
<1>3. ASSUME NEW i \in DOMAIN payload
      PROVE  /\ IsNormalTiming(payload[i].arrival, update.date)
             /\ IsNormalTiming(payload[i].departure, update.date)
  <2> DEFINE stop == update.stops[i]
  <2>1. /\ {"arrival", "departure"} \subseteq DOMAIN stop
        /\ IsNormalTiming(stop.arrival, update.date)
        /\ IsNormalTiming(stop.departure, update.date)
    BY <1>2 DEF IsNormal
  <2>2. payload[i] = EstimatorStop(stop)
    BY <1>2 DEF Payload
  <2> HIDE DEF stop, payload
  <2>3. CASE stop.relationship \in {"SKIPPED", "NO_DATA"}
    <3>1. payload[i] = [stop EXCEPT !.arrival = NoTiming, !.departure = NoTiming]
      BY <2>2, <2>3 DEF EstimatorStop
    <3>2. payload[i].arrival = NoTiming /\ payload[i].departure = NoTiming
      BY <2>1, <3>1
    <3> QED BY <1>1, <3>2
  <2>4. CASE stop.relationship \notin {"SKIPPED", "NO_DATA"}
    <3>1. payload[i] = stop
      BY <2>2, <2>4 DEF EstimatorStop
    <3> QED BY <2>1, <3>1
  <2> QED BY <2>3, <2>4
<1>4. m \in {payload[i] : i \in DOMAIN payload} \cup {NoUpdate}
  <2>1. m \in MatchedByEither(payload, st)
    BY <1>2, MatchedIsAllowed
  <2>2. AboutSequence(payload, st) \subseteq DOMAIN payload
        /\ AboutStop(payload, st) \subseteq DOMAIN payload
    BY DEF AboutSequence, AboutStop
  <2>3. MatchedByEither(payload, st) \subseteq
            {payload[i] : i \in DOMAIN payload} \cup {NoUpdate}
    <3> HIDE DEF payload
    <3>1. CASE AboutSequence(payload, st) # {}
      BY <2>2, <3>1, Zenon DEF MatchedByEither
    <3>2. CASE AboutSequence(payload, st) = {} /\ AboutStop(payload, st) # {}
      BY <2>2, <3>2, Zenon DEF MatchedByEither
    <3>3. CASE AboutSequence(payload, st) = {} /\ AboutStop(payload, st) = {}
      BY <3>3, Zenon DEF MatchedByEither
    <3> QED BY <3>1, <3>2, <3>3
  <2> QED BY <2>1, <2>3
<1> HIDE DEF m, payload
<1>5. CASE m = NoUpdate
  <2>1. m.arrival = NoTiming /\ m.departure = NoTiming
    BY <1>5 DEF NoUpdate
  <2>2. IsNormalTiming(m.arrival, update.date) /\ IsNormalTiming(m.departure, update.date)
    BY <1>1, <2>1
  <2> QED BY <2>2 DEF m, payload
<1>6. CASE m \in {payload[i] : i \in DOMAIN payload}
  <2>1. IsNormalTiming(m.arrival, update.date) /\ IsNormalTiming(m.departure, update.date)
    BY <1>3, <1>6
  <2> QED BY <2>1 DEF m, payload
<1> QED BY <1>4, <1>5, <1>6

\* An estimated time that is not the feed's own is near the service day, and no
\* difference to the timetable is too large for an INTEGER.
LEMMA EstimatedIsNear ==
    ASSUME NEW date \in Int, NEW timing, IsNormalTiming(timing, date),
           NEW s \in Int, s - UtcOffset \in NearDay, NEW t,
           t = Estimated(timing, LocalMidnight(date) + s)
    PROVE  /\ t \in Int /\ t >= DayStart(date) - 2 * MaxInteger - 1
           /\ DayStart(date) \in Int /\ LocalMidnight(date) + s \in Int
           /\ Present(timing.time) => t \in MinTime .. MaxTime
           /\ ~Present(timing.time) => t <= DayStart(date) + 2 * MaxInteger
           /\ Present(timing.time) \/ Present(timing.delay) =>
                t - (LocalMidnight(date) + s) \in Int32
<1> DEFINE D == DayStart(date)
<1>1. /\ MinTime \in Int /\ MaxTime \in Int /\ UtcOffset \in Int
      /\ MaxInteger \in Nat /\ MaxStopTimeOffset \in Nat
  BY TimeAssumption, ScheduleAssumption
<1>2. D \in Int /\ LocalMidnight(date) = D - UtcOffset
  BY TimeAssumption DEF DayStart, LocalMidnight
<1>3. /\ s - UtcOffset <= MaxInteger - MaxStopTimeOffset
      /\ s - UtcOffset >= MaxStopTimeOffset - MaxInteger
  BY <1>1 DEF NearDay
<1> HIDE DEF D
<1>4. CASE Present(timing.time)
  <2>1. t = timing.time /\ t \in MinTime .. MaxTime /\ IsSafe(t, date)
    BY <1>4 DEF Estimated, IsNormalTiming
  <2>2. t \in Int
    BY <1>1, <2>1
  <2>3. Distance(t, D) <= MaxStopTimeOffset
    BY <2>1, TextAssumption DEF IsSafe, Present, D
  <2>4. t - D <= MaxStopTimeOffset /\ D - t <= MaxStopTimeOffset
    BY <1>1, <1>2, <2>2, <2>3 DEF Distance
  <2>5. t - (D - UtcOffset + s) \in Int32
    BY <1>1, <1>2, <1>3, <2>2, <2>4 DEF Int32
  <2>6. t >= D - 2 * MaxInteger - 1
    BY <1>1, <1>2, <1>3, <2>2, <2>4
  <2> QED BY <1>1, <1>2, <1>4, <2>1, <2>2, <2>5, <2>6 DEF D
<1>5. CASE ~Present(timing.time)
  <2> DEFINE delay == IF Present(timing.delay) THEN timing.delay ELSE 0
  <2>1. t = (D - UtcOffset + s) + delay
    BY <1>2, <1>5 DEF Estimated
  <2>2. delay \in Int32 /\ (Present(timing.delay) => delay = timing.delay)
    BY <1>1 DEF IsNormalTiming, Int32
  <2>3. delay \in Int /\ delay <= MaxInteger /\ delay >= -MaxInteger - 1
    BY <1>1, <2>2 DEF Int32
  <2> HIDE DEF delay
  <2>4. t \in Int /\ t >= D - 2 * MaxInteger - 1 /\ t <= D + 2 * MaxInteger
    BY <1>1, <1>2, <1>3, <2>1, <2>3
  <2>5. t - (D - UtcOffset + s) = delay
    <3> DEFINE base == D - UtcOffset + s
    <3>1. base \in Int
      BY <1>1, <1>2
    <3>2. t = base + delay
      BY <2>1
    <3> HIDE DEF base
    <3>3. t - base = delay
      BY <2>3, <3>1, <3>2
    <3> QED BY <3>3 DEF base
  <2> QED BY <1>1, <1>2, <1>5, <2>2, <2>4, <2>5 DEF D
<1> QED BY <1>4, <1>5

\* What the contracts, the programs that show a position and the analytics need of a
\* row of the query.
IsValidRow(row, update) ==
    /\ row = [trip |-> row.trip, previous |-> row.previous, next |-> row.next,
              source |-> row.source, arrival |-> row.arrival, delay |-> row.delay,
              progress |-> row.progress, fractions |-> row.fractions]
    /\ row.trip = update.trip /\ row.trip \in DOMAIN StopTimes /\ Trips[row.trip].geometry
    /\ IsNamed(row.previous) /\ IsNamed(row.next)
    /\ row.source \in TimingSources
    /\ row.source = "schedule_only" <=> row.delay = Absent
    /\ Present(row.delay) => row.delay \in Int32
    /\ row.arrival \in MinTime .. MaxTime

\* The evidence that a timing gives.
LEMMA SourceIs ==
    ASSUME NEW timing
    PROVE  /\ TimingSource(timing) \in TimingSources
           /\ TimingSource(timing) = "schedule_only" <=>
                ~Present(timing.time) /\ ~Present(timing.delay)
<1>1. CASE Present(timing.time)
  <2>1. TimingSource(timing) = "absolute_realtime_time"
    BY <1>1, Zenon DEF TimingSource
  <2> QED BY <1>1, <2>1 DEF TimingSources
<1>2. CASE ~Present(timing.time) /\ Present(timing.delay)
  <2>1. TimingSource(timing) = "realtime_delay"
    BY <1>2, Zenon DEF TimingSource
  <2> QED BY <1>2, <2>1 DEF TimingSources
<1>3. CASE ~Present(timing.time) /\ ~Present(timing.delay)
  <2>1. TimingSource(timing) = "schedule_only"
    BY <1>3, Zenon DEF TimingSource
  <2> QED BY <1>3, <2>1 DEF TimingSources
<1> QED BY <1>1, <1>2, <1>3

\* A row of the batch query is valid: its delay fits an INTEGER, its arrival a
\* datetime, and it has a delay exactly when it has evidence of one.
LEMMA RowsAreValid ==
    ASSUME NEW update, IsNormal(update), Present(update.date), NEW at \in Times,
           BatchRow(update, at) # NoRow
    PROVE  IsValidRow(BatchRow(update, at), update)
<1> DEFINE trip == update.trip
           date == update.date
           sts == StopTimes[trip]
           matched == [i \in DOMAIN sts |-> Matched(Payload(update), sts[i])]
           Departure(i) == Estimated(matched[i].departure,
                                     LocalMidnight(date) + sts[i].departure)
           Scheduled(i) == LocalMidnight(date) + sts[i].arrival
           Arrival(i) == Estimated(matched[i].arrival, Scheduled(i))
           active == {i \in 1 .. (Len(sts) - 1) :
                /\ Departure(i) <= at /\ at <= Arrival(i + 1)
                /\ Departure(i) < Arrival(i + 1)
                /\ Present(sts[i].fraction) /\ Present(sts[i + 1].fraction)
                /\ sts[i].fraction < sts[i + 1].fraction}
           i == Max(active)
           source == TimingSource(matched[i + 1].arrival)
           row == [trip |-> trip, previous |-> sts[i].stop, next |-> sts[i + 1].stop,
              source |-> source, arrival |-> Arrival(i + 1),
              delay |-> IF source = "schedule_only" THEN Absent
                        ELSE Arrival(i + 1) - Scheduled(i + 1),
              progress |-> <<at - Departure(i), Arrival(i + 1) - Departure(i)>>,
              fractions |-> <<sts[i].fraction, sts[i + 1].fraction>>]
<1>1. /\ trip \in DOMAIN StopTimes
      /\ BatchRow(update, at) = IF active = {} \/ ~Trips[trip].geometry THEN NoRow ELSE row
  <2>1. trip \in DOMAIN StopTimes
    BY Zenon DEF BatchRow
  <2>2. BatchRow(update, at) = RowOf(trip, date, at, matched)
    BY <2>1, Zenon DEF BatchRow
  <2>3. RowOf(trip, date, at, matched) =
            IF active = {} \/ ~Trips[trip].geometry THEN NoRow ELSE row
    BY Zenon DEF RowOf
  <2> QED BY <2>1, <2>2, <2>3
<1>2. active # {} /\ Trips[trip].geometry /\ BatchRow(update, at) = row
  <2> HIDE DEF active, row
  <2> QED BY <1>1, Zenon
<1>3. /\ Len(sts) \in Nat /\ DOMAIN sts = 1 .. Len(sts)
      /\ \A k \in DOMAIN sts :
            /\ IsNamed(sts[k].stop) /\ sts[k].arrival \in Int /\ sts[k].departure \in Int
            /\ sts[k].arrival - UtcOffset \in NearDay
            /\ sts[k].departure - UtcOffset \in NearDay
  <2>1. sts \in Seq(ToSet(sts))
    BY <1>1, ScheduleAssumption
  <2>2. \A st \in ToSet(sts) :
            /\ IsNamed(st.stop) /\ {st.arrival, st.departure} \subseteq Int
            /\ {st.arrival - UtcOffset, st.departure - UtcOffset} \subseteq NearDay
    BY <1>1, ScheduleAssumption
  <2> HIDE DEF sts
  <2>3. \A k \in DOMAIN sts : sts[k] \in ToSet(sts)
    BY DEF ToSet
  <2> QED BY <2>1, <2>2, <2>3
<1>4. /\ i \in active /\ i \in DOMAIN sts /\ i + 1 \in DOMAIN sts
  <2>1. Len(sts) - 1 \in Nat
    <3> HIDE DEF sts
    <3>1. 1 .. (Len(sts) - 1) # {}
      BY <1>2
    <3> QED BY <1>3, <3>1
  <2>2. active \in SUBSET (1 .. (Len(sts) - 1))
    OBVIOUS
  <2>3. i \in active
    <3> HIDE DEF active, sts
    <3> QED BY <1>2, <2>1, <2>2, MaxIsLast
  <2> HIDE DEF active, sts, i
  <2> QED BY <1>3, <2>1, <2>2, <2>3
<1>5. at <= Arrival(i + 1) /\ Departure(i) <= at
  <2> HIDE DEF i
  <2> QED BY <1>4
<1>6. \A k \in DOMAIN sts : /\ IsNormalTiming(matched[k].arrival, date)
                            /\ IsNormalTiming(matched[k].departure, date)
  <2> HIDE DEF sts
  <2> QED BY MatchedIsNormal
<1>7. date \in Int
  BY DEF IsNormal
<1> HIDE DEF matched, sts, date, i, active
<1> DEFINE D == DayStart(date)
           next == matched[i + 1].arrival
           arrival == Arrival(i + 1)
           departure == Departure(i)
<1>8. /\ arrival \in Int /\ D \in Int /\ Scheduled(i + 1) \in Int
      /\ Present(next.time) => arrival \in MinTime .. MaxTime
      /\ ~Present(next.time) => arrival <= D + 2 * MaxInteger
      /\ Present(next.time) \/ Present(next.delay) => arrival - Scheduled(i + 1) \in Int32
  <2>1. IsNormalTiming(next, date)
    BY <1>4, <1>6
  <2>2. arrival = Estimated(next, LocalMidnight(date) + sts[i + 1].arrival)
    OBVIOUS
  <2> HIDE DEF arrival, next
  <2> QED BY <1>3, <1>4, <1>7, <2>1, <2>2, EstimatedIsNear
<1>9. departure \in Int /\ departure >= D - 2 * MaxInteger - 1
  <2>1. IsNormalTiming(matched[i].departure, date)
    BY <1>4, <1>6
  <2>2. departure = Estimated(matched[i].departure, LocalMidnight(date) + sts[i].departure)
    OBVIOUS
  <2> HIDE DEF departure
  <2> QED BY <1>3, <1>4, <1>7, <2>1, <2>2, EstimatedIsNear
<1>10. arrival \in MinTime .. MaxTime
  <2>1. at \in Int /\ MinTime \in Int /\ MaxTime \in Int /\ MaxInteger \in Nat
        /\ at >= MinTime /\ at + 4 * (MaxInteger + 1) <= MaxTime
    BY FeedCycleAssumption, TimeAssumption
  <2>2. at <= arrival /\ departure <= at
    BY <1>5
  <2> HIDE DEF arrival, departure, D, next
  <2>3. CASE Present(next.time)
    BY <1>8, <2>3
  <2>4. CASE ~Present(next.time)
    <3>1. arrival <= D + 2 * MaxInteger
      BY <1>8, <2>4
    <3> QED BY <1>8, <1>9, <2>1, <2>2, <3>1
  <2> QED BY <2>3, <2>4
<1>11. /\ source \in TimingSources
       /\ source = "schedule_only" <=> ~Present(next.time) /\ ~Present(next.delay)
  <2> HIDE DEF next
  <2> QED BY SourceIs DEF next
<1> HIDE DEF source
<1>12. IsValidRow(row, update)
  <2>1. /\ row.trip = trip /\ row.previous = sts[i].stop /\ row.next = sts[i + 1].stop
        /\ row.source = source /\ row.arrival = arrival
        /\ row.delay = IF source = "schedule_only" THEN Absent
                       ELSE arrival - Scheduled(i + 1)
    OBVIOUS
  <2>2. row = [trip |-> row.trip, previous |-> row.previous, next |-> row.next,
              source |-> row.source, arrival |-> row.arrival, delay |-> row.delay,
              progress |-> row.progress, fractions |-> row.fractions]
    OBVIOUS
  <2> HIDE DEF row, arrival, next
  <2>3. IsNamed(sts[i].stop) /\ IsNamed(sts[i + 1].stop)
    BY <1>3, <1>4
  <2>4. source # "schedule_only" => row.delay \in Int32 /\ row.delay \in Int
    <3> SUFFICES ASSUME source # "schedule_only"
                 PROVE  row.delay \in Int32 /\ row.delay \in Int
      OBVIOUS
    <3>1. row.delay = arrival - Scheduled(i + 1)
      BY <2>1
    <3>2. arrival - Scheduled(i + 1) \in Int32
      BY <1>8, <1>11
    <3> QED BY <3>1, <3>2, TimeAssumption DEF Int32
  <2>5. row.source = "schedule_only" <=> row.delay = Absent
    BY <2>1, <2>4, TextAssumption
  <2>6. Present(row.delay) => row.delay \in Int32
    BY <2>1, <2>4 DEF Present
  <2> QED BY <1>1, <1>2, <1>10, <1>11, <2>1, <2>2, <2>3, <2>5, <2>6 DEF IsValidRow
<1> QED BY <1>2, <1>12

-----------------------------------------------------------------------------
(* The estimates of a cycle                                                *)

\* The minimum of two numbers.
LEMMA MinOfTwo ==
    ASSUME NEW x \in Nat, NEW y \in Nat
    PROVE  Min({x, y}) \in {x, y} /\ Min({x, y}) <= x /\ Min({x, y}) <= y
<1>1. {x, y} \in SUBSET Nat /\ {x, y} # {}
  OBVIOUS
<1>2. PICK z \in {x, y} : \A w \in {x, y} : z <= w
  BY <1>1, LeastExists
<1>3. Min({x, y}) \in {x, y} /\ \A w \in {x, y} : Min({x, y}) <= w
  BY <1>2, Zenon DEF Min
<1> QED BY <1>3

HasRow(update) == BatchRow(update, observed) # NoRow
EstimateFor(update) == EstimateOf(update, BatchRow(update, observed))
Estimates == {EstimateFor(Matchable[i]) : i \in DOMAIN Matchable}

\* The estimates are those of the updates at some places from a + 1 to b, in order.
IsTrace(ests, at, a, b) ==
    /\ ests \in Seq(Estimates) /\ IsEmbedding(at, Len(ests), Len(Matchable))
    /\ \A k \in 1 .. Len(ests) :
        /\ at[k] \in a + 1 .. b
        /\ HasRow(Matchable[at[k]]) /\ ests[k] = EstimateFor(Matchable[at[k]])

\* No update from a + 1 to b that has a row is missing.
IsCovering(at, m, a, b) ==
    \A i \in DOMAIN Matchable :
        i \in a + 1 .. b /\ HasRow(Matchable[i]) => \E k \in 1 .. m : at[k] = i

InCycle == pc \in {"estimating", "published"}
FeedInv ==
    InCycle => /\ feed \in Feeds /\ ~FeedRefused(feed) /\ observed \in Times
               /\ limit \in Limits /\ offset \in Nat
TraceInv ==
    InCycle => \E at : /\ IsTrace(estimates, at, 0, offset)
                       /\ limit = Absent => IsCovering(at, Len(estimates), 0, offset)
PublishedInv ==
    pc = "published" => /\ IsEstimated /\ event = Event(Published)
                        /\ rows = AggregateRows(Published.positions)
\* The inductive invariant of the cycle.
CycleIInv ==
    /\ pc \in {"idle", "refused", "estimating", "published"}
    /\ pc = "idle" => offset = 0 /\ estimates = <<>>
    /\ FeedInv /\ TraceInv /\ PublishedInv

\* The updates that can be matched are normal ones of the feed.
LEMMA MatchableIs ==
    ASSUME feed \in Feeds, ~FeedRefused(feed)
    PROVE  /\ Len(Matchable) \in Nat /\ DOMAIN Matchable = 1 .. Len(Matchable)
           /\ \E S : Matchable \in Seq(S)
           /\ \A k \in DOMAIN Matchable :
                /\ IsNormal(Matchable[k])
                /\ Present(Matchable[k].date) /\ Present(Matchable[k].trip)
                /\ \E j \in DOMAIN Snapshot(feed).updates :
                        Matchable[k] = Snapshot(feed).updates[j]
<1> DEFINE updates == Snapshot(feed).updates
           I == {i \in DOMAIN updates : IsMatchable(updates[i])}
<1>1. /\ Len(updates) \in Nat /\ DOMAIN updates = 1 .. Len(updates)
      /\ \A k \in DOMAIN updates : IsNormal(updates[k])
  BY UpdatesAreNormal
<1>2. Matchable = Picked(updates, I)
  BY DEF Matchable
<1>3. I \in SUBSET (1 .. Len(updates)) /\ \A i \in I : IsMatchable(updates[i])
  BY <1>1
<1> HIDE DEF updates, I
<1>4. /\ \E S : Matchable \in Seq(S)
      /\ DOMAIN Matchable = 1 .. Cardinality(I) /\ Len(Matchable) = Cardinality(I)
      /\ Cardinality(I) \in Nat
      /\ \A k \in 1 .. Cardinality(I) :
            Nth(I, k) \in I /\ Matchable[k] = updates[Nth(I, k)]
  BY <1>1, <1>2, <1>3, PickedIs
<1>5. ASSUME NEW k \in DOMAIN Matchable
      PROVE  /\ IsNormal(Matchable[k])
             /\ Present(Matchable[k].date) /\ Present(Matchable[k].trip)
             /\ \E j \in DOMAIN updates : Matchable[k] = updates[j]
  BY <1>1, <1>3, <1>4 DEF IsMatchable
<1> QED BY <1>4, <1>5 DEF updates

\* A later part of the list adds its estimates behind.
LEMMA TraceGrows ==
    ASSUME NEW a \in Nat, NEW b \in Nat, NEW c \in Nat, a <= b, b <= c,
           Len(Matchable) \in Nat, DOMAIN Matchable = 1 .. Len(Matchable),
           NEW first, NEW at1, IsTrace(first, at1, a, b),
           NEW second, NEW at2, IsTrace(second, at2, b, c)
    PROVE  \E at : /\ IsTrace(first \o second, at, a, c)
                   /\ /\ IsCovering(at1, Len(first), a, b)
                      /\ IsCovering(at2, Len(second), b, c)
                      => IsCovering(at, Len(first \o second), a, c)
<1> DEFINE both == first \o second
           m == Len(first)
           n == Len(second)
           at == [k \in 1 .. m + n |-> IF k <= m THEN at1[k] ELSE at2[k - m]]
<1>1. /\ m \in Nat /\ n \in Nat /\ both \in Seq(Estimates) /\ Len(both) = m + n
      /\ \A k \in 1 .. m : both[k] = first[k]
      /\ \A k \in m + 1 .. m + n : both[k] = second[k - m]
  <2>1. first \in Seq(Estimates) /\ second \in Seq(Estimates)
    BY DEF IsTrace
  <2> HIDE DEF Estimates
  <2> QED BY <2>1
<1>2. /\ \A k \in 1 .. m : at[k] = at1[k]
      /\ \A k \in m + 1 .. m + n : at[k] = at2[k - m] /\ k - m \in 1 .. n
  BY <1>1
<1>3. /\ \A k \in 1 .. m : at1[k] \in 1 .. Len(Matchable) /\ at1[k] \in a + 1 .. b
      /\ \A k \in 1 .. n : at2[k] \in 1 .. Len(Matchable) /\ at2[k] \in b + 1 .. c
      /\ \A k, l \in 1 .. m : k < l => at1[k] < at1[l]
      /\ \A k, l \in 1 .. n : k < l => at2[k] < at2[l]
  BY DEF IsTrace, IsEmbedding
<1>4. at \in [1 .. m + n -> 1 .. Len(Matchable)]
  BY <1>1, <1>3
<1> HIDE DEF both, m, n, at
<1>5. ASSUME NEW k \in 1 .. m + n, NEW l \in 1 .. m + n, k < l
      PROVE  at[k] < at[l]
  <2>1. CASE l <= m
    <3>1. k \in 1 .. m /\ l \in 1 .. m
      BY <1>1, <1>5, <2>1
    <3> QED BY <1>2, <1>3, <1>5, <3>1
  <2>2. CASE m < k
    <3>1. k \in m + 1 .. m + n /\ l \in m + 1 .. m + n /\ k - m < l - m
      BY <1>1, <1>5, <2>2
    <3> QED BY <1>2, <1>3, <3>1
  <2>3. CASE k <= m /\ m < l
    <3>1. k \in 1 .. m /\ l \in m + 1 .. m + n
      BY <1>1, <2>3
    <3>2. at[k] \in a + 1 .. b /\ at[l] \in b + 1 .. c
      BY <1>2, <1>3, <3>1
    <3> QED BY <3>2
  <2> QED BY <1>1, <2>1, <2>2, <2>3
<1>6. ASSUME NEW k \in 1 .. m + n
      PROVE  /\ at[k] \in a + 1 .. c
             /\ HasRow(Matchable[at[k]]) /\ both[k] = EstimateFor(Matchable[at[k]])
  <2>1. CASE k <= m
    <3>1. k \in 1 .. m
      BY <1>1, <2>1
    <3>2. at1[k] \in a + 1 .. c
      BY <1>3, <3>1
    <3>3. HasRow(Matchable[at1[k]]) /\ first[k] = EstimateFor(Matchable[at1[k]])
      BY <3>1 DEF IsTrace, m
    <3> QED BY <1>1, <1>2, <3>1, <3>2, <3>3
  <2>2. CASE m < k
    <3>1. k \in m + 1 .. m + n /\ k - m \in 1 .. n
      BY <1>1, <2>2
    <3>2. at2[k - m] \in a + 1 .. c
      BY <1>3, <3>1
    <3>3. HasRow(Matchable[at2[k - m]]) /\ second[k - m] = EstimateFor(Matchable[at2[k - m]])
      BY <3>1 DEF IsTrace, n
    <3> QED BY <1>1, <1>2, <3>1, <3>2, <3>3
  <2> QED BY <1>1, <2>1, <2>2
<1>7. IsTrace(both, at, a, c)
  BY <1>1, <1>4, <1>5, <1>6 DEF IsTrace, IsEmbedding
<1>8. ASSUME IsCovering(at1, m, a, b), IsCovering(at2, n, b, c)
      PROVE  IsCovering(at, m + n, a, c)
  <2> SUFFICES ASSUME NEW i \in DOMAIN Matchable, i \in a + 1 .. c, HasRow(Matchable[i])
               PROVE  \E k \in 1 .. m + n : at[k] = i
    BY DEF IsCovering
  <2>1. CASE i <= b
    <3>1. i \in a + 1 .. b
      BY <2>1
    <3>2. PICK k \in 1 .. m : at1[k] = i
      BY <1>8, <3>1 DEF IsCovering
    <3>3. k \in 1 .. m + n
      BY <1>1, <3>2
    <3>4. at[k] = i
      BY <1>2, <3>2
    <3> QED BY <3>3, <3>4
  <2>2. CASE b < i
    <3>1. i \in b + 1 .. c
      BY <2>2
    <3>2. PICK k \in 1 .. n : at2[k] = i
      BY <1>8, <3>1 DEF IsCovering
    <3>3. k + m \in m + 1 .. m + n /\ (k + m) - m = k /\ k + m \in 1 .. m + n
      BY <1>1
    <3> QED BY <1>2, <3>2, <3>3
  <2> QED BY <2>1, <2>2
<1> QED BY <1>1, <1>7, <1>8 DEF both, m, n

\* The first of the estimates are those of some places, too.
LEMMA TraceIsCut ==
    ASSUME NEW a, NEW b, NEW ests, NEW at, IsTrace(ests, at, a, b),
           NEW n \in Nat, n <= Len(ests)
    PROVE  \E at1 : IsTrace(SubSeq(ests, 1, n), at1, a, b)
<1> DEFINE part == SubSeq(ests, 1, n)
           at1 == [k \in 1 .. n |-> at[k]]
<1>1. ests \in Seq(Estimates) /\ IsEmbedding(at, Len(ests), Len(Matchable))
  BY DEF IsTrace
<1>2. /\ Len(ests) \in Nat /\ part \in Seq(Estimates) /\ Len(part) = n
      /\ \A k \in 1 .. n : part[k] = ests[k]
  <2> HIDE DEF Estimates
  <2> QED BY <1>1
<1>3. /\ \A k \in 1 .. n : k \in 1 .. Len(ests) /\ at1[k] = at[k]
      /\ at1 \in [1 .. n -> 1 .. Len(Matchable)]
  BY <1>1, <1>2 DEF IsEmbedding
<1> HIDE DEF at1, part
<1>4. IsEmbedding(at1, n, Len(Matchable))
  BY <1>1, <1>3 DEF IsEmbedding
<1>5. \A k \in 1 .. n :
        /\ at1[k] \in a + 1 .. b
        /\ HasRow(Matchable[at1[k]]) /\ part[k] = EstimateFor(Matchable[at1[k]])
  BY <1>2, <1>3 DEF IsTrace
<1>6. IsTrace(part, at1, a, b)
  BY <1>2, <1>4, <1>5 DEF IsTrace
<1> QED BY <1>6 DEF part

\* A valid row gives an estimate that the contract accepts.
LEMMA EstimatesAreValid ==
    ASSUME NEW update, IsValidRow(BatchRow(update, observed), update)
    PROVE  PositionIsValid(EstimateFor(update))
<1> DEFINE row == BatchRow(update, observed)
           e == EstimateOf(update, row)
<1>1. e.source = row.source /\ e.delay = row.delay
  BY DEF EstimateOf
<1>2. row.source \in TimingSources /\ (row.source = "schedule_only" <=> row.delay = Absent)
  BY DEF IsValidRow
<1> HIDE DEF row, e
<1>3. PositionIsValid(e)
  BY <1>1, <1>2 DEF PositionIsValid, IsEvident
<1> QED BY <1>3 DEF e, row, EstimateFor

\* A chunk is valid, and gives the estimates of its part of the list.
LEMMA ChunkIsTraced ==
    ASSUME feed \in Feeds, ~FeedRefused(feed), observed \in Times, offset \in Nat,
           offset < Len(Matchable)
    PROVE  /\ ChunkIsValid
           /\ \E at : /\ IsTrace(EstimatesOfChunk, at, offset, offset + BatchSize)
                      /\ IsCovering(at, Len(EstimatesOfChunk), offset, offset + BatchSize)
<1> DEFINE N == Len(Matchable)
           last == Min({offset + BatchSize, N})
           n == last - offset
           answers == [i \in DOMAIN Chunk |-> <<i, BatchRow(Chunk[i], observed)>>]
           I == {i \in DOMAIN Chunk : answers[i][2] # NoRow}
           at == [k \in DOMAIN BatchRows |-> offset + Nth(I, k)]
<1>1. /\ N \in Nat /\ DOMAIN Matchable = 1 .. N
      /\ \A k \in DOMAIN Matchable : IsNormal(Matchable[k]) /\ Present(Matchable[k].date)
  BY MatchableIs
<1>2. BatchSize \in Nat \ {0}
  BY FeedCycleAssumption
<1>3. last \in {offset + BatchSize, N} /\ last <= offset + BatchSize /\ last <= N
  <2>1. offset + BatchSize \in Nat
    BY <1>2
  <2> QED BY <1>1, <2>1, MinOfTwo
<1>4. Chunk = SubSeq(Matchable, offset + 1, last)
  BY DEF Chunk
<1>0. offset < N
  OBVIOUS
<1> HIDE DEF last, N
<1>5. last \in Nat /\ offset < last /\ n \in Nat /\ n <= BatchSize
  <2>1. CASE last = N
    BY <1>0, <1>1, <1>2, <1>3, <2>1
  <2>2. CASE last = offset + BatchSize
    BY <1>2, <2>2
  <2> QED BY <1>3, <2>1, <2>2
<1>6. /\ DOMAIN Chunk = 1 .. n
      /\ \A i \in 1 .. n : offset + i \in DOMAIN Matchable /\ Chunk[i] = Matchable[offset + i]
  <2>1. PICK S : Matchable \in Seq(S)
    BY MatchableIs
  <2>2. offset + 1 \in 1 .. N /\ last \in 1 .. N /\ last - (offset + 1) + 1 = n
    BY <1>1, <1>3, <1>5
  <2>3. /\ Chunk \in Seq(S) /\ Len(Chunk) = last - (offset + 1) + 1
        /\ \A i \in 1 .. Len(Chunk) : Chunk[i] = Matchable[(offset + 1) + i - 1]
    BY <1>4, <1>5, <2>1, <2>2 DEF N
  <2>4. \A i \in 1 .. n : (offset + 1) + i - 1 = offset + i /\ offset + i \in 1 .. N
    BY <1>1, <1>3, <1>5
  <2> HIDE DEF n
  <2> QED BY <1>1, <2>2, <2>3, <2>4
<1>7. /\ answers = [i \in 1 .. n |-> <<i, BatchRow(Chunk[i], observed)>>]
      /\ BatchRows = Picked(answers, I)
  BY <1>6 DEF BatchRows
<1> HIDE DEF n
<1>8. DOMAIN answers = 1 .. n /\ I \in SUBSET (1 .. n)
      /\ \A i \in 1 .. n : answers[i] = <<i, BatchRow(Chunk[i], observed)>>
  BY <1>6, <1>7
<1>9. \A i \in 1 .. n : i \in I <=> HasRow(Chunk[i])
  BY <1>6, <1>8 DEF HasRow
<1> HIDE DEF answers, I
<1> DEFINE c == Cardinality(I)
<1>10. /\ c \in Nat /\ DOMAIN BatchRows = 1 .. c
       /\ \A k \in 1 .. c : Nth(I, k) \in I /\ BatchRows[k] = answers[Nth(I, k)]
       /\ \A i \in I : \E k \in 1 .. c : Nth(I, k) = i
       /\ \A k, l \in 1 .. c : k < l => Nth(I, k) < Nth(I, l)
  <2>1. \A k, l \in 1 .. c : k < l => Nth(I, k) < Nth(I, l)
    BY <1>5, <1>8, NthIsOrdered
  <2>2. /\ c \in Nat /\ DOMAIN BatchRows = 1 .. c
        /\ \A k \in 1 .. c : Nth(I, k) \in I /\ BatchRows[k] = answers[Nth(I, k)]
        /\ \A i \in I : \E k \in 1 .. c : Nth(I, k) = i
    <3>1. n \in Nat /\ DOMAIN answers = 1 .. n /\ I \in SUBSET (1 .. n)
      BY <1>5, <1>8
    <3>2. BatchRows = Picked(answers, I)
      BY <1>7
    <3> QED BY <3>1, <3>2, PickedIs
  <2> QED BY <2>1, <2>2
<1> HIDE DEF c
<1>11. ASSUME NEW k \in 1 .. c
       PROVE  /\ Nth(I, k) \in 1 .. n
              /\ BatchRows[k][1] = Nth(I, k)
              /\ BatchRows[k][2] = BatchRow(Chunk[Nth(I, k)], observed)
              /\ HasRow(Chunk[Nth(I, k)])
              /\ IsValidRow(BatchRow(Chunk[Nth(I, k)], observed), Chunk[Nth(I, k)])
  <2>1. Nth(I, k) \in I /\ Nth(I, k) \in 1 .. n
    BY <1>8, <1>10
  <2>2. BatchRows[k] = <<Nth(I, k), BatchRow(Chunk[Nth(I, k)], observed)>>
    BY <1>8, <1>10, <2>1
  <2>3. HasRow(Chunk[Nth(I, k)])
    BY <1>9, <2>1
  <2>4. IsNormal(Chunk[Nth(I, k)]) /\ Present(Chunk[Nth(I, k)].date)
    BY <1>1, <1>6, <2>1
  <2>5. IsValidRow(BatchRow(Chunk[Nth(I, k)], observed), Chunk[Nth(I, k)])
    BY <2>3, <2>4, RowsAreValid DEF HasRow
  <2> QED BY <2>1, <2>2, <2>3, <2>5
<1>12. EstimatesOfChunk = [k \in 1 .. c |-> EstimateFor(Chunk[Nth(I, k)])]
  BY <1>10, <1>11 DEF EstimatesOfChunk, EstimateFor
<1>13. ChunkIsValid
  <2>1. ASSUME NEW r \in ToSet(BatchRows)
        PROVE  /\ r[2].delay = Absent \/ r[2].delay \in Int32
               /\ r[2].trip = Chunk[r[1]].trip
    <3>1. PICK k \in 1 .. c : r = BatchRows[k]
      BY <1>10 DEF ToSet
    <3> QED BY <1>11, <3>1 DEF IsValidRow, Present
  <2>2. ASSUME NEW e \in ToSet(EstimatesOfChunk) PROVE PositionIsValid(e)
    <3>1. PICK k \in 1 .. c : e = EstimateFor(Chunk[Nth(I, k)])
      BY <1>12 DEF ToSet
    <3> QED BY <1>11, <3>1, EstimatesAreValid
  <2> QED BY <2>1, <2>2 DEF ChunkIsValid
<1>14. /\ at = [k \in 1 .. c |-> offset + Nth(I, k)]
       /\ \A k \in 1 .. c : at[k] = offset + Nth(I, k)
  BY <1>10
<1> HIDE DEF at
<1>15. ASSUME NEW k \in 1 .. c
       PROVE  /\ at[k] \in 1 .. N /\ at[k] \in offset + 1 .. offset + BatchSize
              /\ Chunk[Nth(I, k)] = Matchable[at[k]]
  <2>1. Nth(I, k) \in 1 .. n /\ at[k] = offset + Nth(I, k)
    BY <1>11, <1>14
  <2>2. at[k] \in 1 .. N /\ Chunk[Nth(I, k)] = Matchable[at[k]]
    BY <1>1, <1>6, <2>1
  <2> QED BY <1>2, <1>5, <2>1, <2>2
<1>16. IsEmbedding(at, c, N)
  <2>1. at \in [1 .. c -> 1 .. N]
    BY <1>14, <1>15
  <2>2. ASSUME NEW k \in 1 .. c, NEW l \in 1 .. c, k < l PROVE at[k] < at[l]
    <3>1. Nth(I, k) < Nth(I, l) /\ Nth(I, k) \in Int /\ Nth(I, l) \in Int
      BY <1>10, <1>11, <2>2
    <3> QED BY <1>14, <3>1
  <2> QED BY <2>1, <2>2 DEF IsEmbedding
<1>17. EstimatesOfChunk \in Seq(Estimates) /\ Len(EstimatesOfChunk) = c
  <2>1. \A k \in 1 .. c : EstimateFor(Chunk[Nth(I, k)]) \in Estimates
    BY <1>1, <1>15 DEF Estimates
  <2>2. EstimatesOfChunk \in [1 .. c -> Estimates]
    BY <1>12, <2>1
  <2> HIDE DEF Estimates
  <2> QED BY <1>10, <2>2
<1>18. IsTrace(EstimatesOfChunk, at, offset, offset + BatchSize)
  <2>1. ASSUME NEW k \in 1 .. c
        PROVE  /\ at[k] \in offset + 1 .. offset + BatchSize
               /\ HasRow(Matchable[at[k]])
               /\ EstimatesOfChunk[k] = EstimateFor(Matchable[at[k]])
    BY <1>11, <1>12, <1>15
  <2> QED BY <1>16, <1>17, <2>1 DEF IsTrace, N
<1>19. IsCovering(at, c, offset, offset + BatchSize)
  <2> SUFFICES ASSUME NEW j \in DOMAIN Matchable, j \in offset + 1 .. offset + BatchSize,
                      HasRow(Matchable[j])
               PROVE  \E k \in 1 .. c : at[k] = j
    BY DEF IsCovering
  <2>1. j - offset \in 1 .. n /\ offset + (j - offset) = j
    BY <1>1, <1>2, <1>3, <1>5 DEF n
  <2>2. j - offset \in I
    BY <1>6, <1>9, <2>1
  <2>3. PICK k \in 1 .. c : Nth(I, k) = j - offset
    BY <1>10, <2>2
  <2> QED BY <1>14, <2>1, <2>3
<1> QED BY <1>13, <1>17, <1>18, <1>19

-----------------------------------------------------------------------------
(* The positions of a cycle                                                *)

\* A trip has one position: its last estimate.
LEMMA PositionsByTripAre ==
    ASSUME NEW S, NEW results \in Seq(S), NEW ps, ps = PositionsByTrip(results)
    PROVE  /\ ps \in Seq(S) /\ Len(ps) \in Nat /\ DOMAIN ps = 1 .. Len(ps)
           /\ \A k \in 1 .. Len(ps) : \E i \in 1 .. Len(results) :
                /\ ps[k] = results[i]
                /\ \A j \in 1 .. Len(results) :
                        i < j => results[j].trip # results[i].trip
           /\ \A i \in 1 .. Len(results) : \E k \in 1 .. Len(ps) :
                ps[k].trip = results[i].trip
           /\ \A k, l \in 1 .. Len(ps) : ps[k].trip = ps[l].trip => k = l
<1> DEFINE N == Len(results)
           IsFirst(i) == \A j \in 1 .. (i - 1) : results[j].trip # results[i].trip
           I == {i \in DOMAIN results : IsFirst(i)}
           firsts == Picked(results, I)
           c == Cardinality(I)
           Of(trip) == {j \in DOMAIN results : results[j].trip = trip}
           LastOf(trip) == results[Max(Of(trip))]
<1>1. N \in Nat /\ DOMAIN results = 1 .. N /\ \A i \in 1 .. N : results[i] \in S
  OBVIOUS
<1>2. ps = [k \in DOMAIN firsts |-> LastOf(firsts[k].trip)]
  BY Zenon DEF PositionsByTrip
<1> HIDE DEF N
<1>3. I \in SUBSET (1 .. N) /\ \A i \in 1 .. N : i \in I <=> IsFirst(i)
  BY <1>1
<1>4. /\ c \in Nat /\ DOMAIN firsts = 1 .. c
      /\ \A k \in 1 .. c : Nth(I, k) \in I /\ firsts[k] = results[Nth(I, k)]
      /\ \A i \in I : \E k \in 1 .. c : Nth(I, k) = i
  <2> HIDE DEF I
  <2> QED BY <1>1, <1>3, PickedIs
<1>5. \A k, l \in 1 .. c : k < l => Nth(I, k) < Nth(I, l)
  <2> HIDE DEF I
  <2> QED BY <1>1, <1>3, NthIsOrdered
<1>6. ASSUME NEW i \in 1 .. N
      PROVE  LET last == Max(Of(results[i].trip))
             IN  /\ last \in 1 .. N /\ results[last].trip = results[i].trip
                 /\ \A j \in 1 .. N : last < j => results[j].trip # results[last].trip
  <2> DEFINE last == Max(Of(results[i].trip))
  <2>1. /\ Of(results[i].trip) \in SUBSET (1 .. N) /\ i \in Of(results[i].trip)
        /\ \A j \in 1 .. N : j \in Of(results[i].trip) <=> results[j].trip = results[i].trip
    BY <1>1
  <2>2. last \in Of(results[i].trip) /\ \A j \in Of(results[i].trip) : j <= last
    <3> HIDE DEF Of
    <3> QED BY <1>1, <2>1, MaxIsLast
  <2> HIDE DEF last, Of
  <2>3. last \in 1 .. N /\ results[last].trip = results[i].trip
    BY <2>1, <2>2
  <2>4. ASSUME NEW j \in 1 .. N, last < j, results[j].trip = results[last].trip PROVE FALSE
    <3>1. j <= last
      BY <2>1, <2>2, <2>3, <2>4
    <3> QED BY <1>1, <2>3, <2>4, <3>1
  <2>5. last \in 1 .. N /\ results[last].trip = results[i].trip
        /\ \A j \in 1 .. N : last < j => results[j].trip # results[last].trip
    BY <2>3, <2>4
  <2> QED BY <2>5 DEF last
<1>7. ASSUME NEW k \in 1 .. c
      PROVE  \E i \in 1 .. N :
                /\ ps[k] = results[i] /\ results[i].trip = results[Nth(I, k)].trip
                /\ \A j \in 1 .. N : i < j => results[j].trip # results[i].trip
  <2>1. Nth(I, k) \in 1 .. N /\ firsts[k] = results[Nth(I, k)] /\ k \in DOMAIN firsts
    BY <1>3, <1>4
  <2>2. ps[k] = results[Max(Of(results[Nth(I, k)].trip))]
    <3> HIDE DEF I, firsts, Of
    <3> QED BY <1>2, <2>1
  <2> HIDE DEF Of, I, firsts
  <2> QED BY <1>6, <2>1, <2>2
<1> HIDE DEF I, firsts, IsFirst, Of, c
<1>8. ps \in Seq(S) /\ Len(ps) = c /\ DOMAIN ps = 1 .. c
  <2>1. DOMAIN ps = 1 .. c /\ ps = [k \in 1 .. c |-> ps[k]]
    BY <1>2, <1>4
  <2>2. \A k \in 1 .. c : ps[k] \in S
    BY <1>1, <1>7
  <2>3. ps \in [1 .. c -> S]
    BY <2>1, <2>2
  <2> QED BY <1>4, <2>1, <2>3
<1>9. ASSUME NEW i \in 1 .. N PROVE \E k \in 1 .. c : ps[k].trip = results[i].trip
  <2> DEFINE same == {j \in 1 .. N : results[j].trip = results[i].trip}
  <2>1. same \in SUBSET Nat /\ same # {}
    OBVIOUS
  <2>2. PICK j \in same : \A m \in same : j <= m
    BY <2>1, LeastExists
  <2>3. j \in 1 .. N /\ results[j].trip = results[i].trip
    OBVIOUS
  <2>4. \A m \in 1 .. (j - 1) : m \in 1 .. N /\ ~(j <= m)
    BY <1>1, <2>3
  <2>5. j \in I
    BY <1>3, <2>2, <2>3, <2>4 DEF IsFirst
  <2>6. PICK k \in 1 .. c : Nth(I, k) = j
    BY <1>4, <2>5
  <2> QED BY <1>7, <2>3, <2>6
<1>10. ASSUME NEW k \in 1 .. c, NEW l \in 1 .. c, k < l PROVE ps[k].trip # ps[l].trip
  <2>1. ps[k].trip = results[Nth(I, k)].trip /\ ps[l].trip = results[Nth(I, l)].trip
    BY <1>7
  <2>2. /\ Nth(I, k) \in 1 .. N /\ Nth(I, l) \in 1 .. N /\ IsFirst(Nth(I, l))
        /\ Nth(I, k) < Nth(I, l)
    BY <1>3, <1>4, <1>5, <1>10
  <2>3. Nth(I, k) \in 1 .. (Nth(I, l) - 1)
    BY <1>1, <2>2
  <2> QED BY <2>1, <2>2, <2>3 DEF IsFirst
<1>11. \A k, l \in 1 .. c : ps[k].trip = ps[l].trip => k = l
  <2> SUFFICES ASSUME NEW k \in 1 .. c, NEW l \in 1 .. c, ps[k].trip = ps[l].trip, k # l
               PROVE  FALSE
    OBVIOUS
  <2>1. k < l \/ l < k
    BY <1>4
  <2> QED BY <1>10, <2>1
<1>12. \A k \in 1 .. c : \E i \in 1 .. N :
            /\ ps[k] = results[i]
            /\ \A j \in 1 .. N : i < j => results[j].trip # results[i].trip
  BY <1>7
<1>13. ps \in Seq(S) /\ Len(ps) \in Nat /\ DOMAIN ps = 1 .. Len(ps)
  BY <1>4, <1>8
<1> QED BY <1>8, <1>9, <1>11, <1>12, <1>13, Zenon DEF N

\* As many trips as positions.
LEMMA TripsAreCounted ==
    ASSUME NEW S, NEW ps \in Seq(S),
           \A k, l \in 1 .. Len(ps) : ps[k].trip = ps[l].trip => k = l
    PROVE  /\ NoneTwice(ps) /\ IsFiniteSet({p.trip : p \in ToSet(ps)})
           /\ Cardinality({p.trip : p \in ToSet(ps)}) = Len(ps)
<1> DEFINE T == {p.trip : p \in ToSet(ps)}
           m == Len(ps)
           trip == [k \in 1 .. m |-> ps[k].trip]
<1>1. m \in Nat /\ DOMAIN ps = 1 .. m
  OBVIOUS
<1>2. T = {ps[k].trip : k \in 1 .. m}
  BY <1>1 DEF ToSet
<1>3. /\ trip \in [1 .. m -> T] /\ \A k \in 1 .. m : trip[k] = ps[k].trip
      /\ \A t \in T : \E k \in 1 .. m : trip[k] = t
  BY <1>2
<1>4. \A k, l \in 1 .. m : trip[k] = trip[l] => k = l
  BY <1>3
<1> HIDE DEF trip, T, m
<1>5. trip \in Bijection(1 .. m, T)
  <2>1. trip \in Injection(1 .. m, T)
    BY <1>3, <1>4, Zenon DEF Injection, IsInjective
  <2>2. trip \in Surjection(1 .. m, T)
    BY <1>3, Zenon DEF Surjection
  <2> QED BY <2>1, <2>2 DEF Bijection
<1>6. IsFiniteSet(1 .. m) /\ Cardinality(1 .. m) = m
  BY <1>1, FS_Interval
<1>7. IsFiniteSet(T) /\ Cardinality(T) = m
  BY <1>5, <1>6, FS_Bijection DEF ExistsBijection
<1> QED BY <1>7 DEF T, m, NoneTwice

\* As many values as indices, at most.
LEMMA ImageIsFinite ==
    ASSUME NEW n \in Nat, NEW f, DOMAIN f = 1 .. n
    PROVE  LET T == {f[k] : k \in 1 .. n}
           IN  IsFiniteSet(T) /\ Cardinality(T) \in Nat /\ Cardinality(T) <= n
<1> DEFINE T == {f[k] : k \in 1 .. n}
           g == [k \in 1 .. n |-> f[k]]
<1>1. g \in [1 .. n -> T] /\ \A t \in T : \E k \in 1 .. n : g[k] = t
  OBVIOUS
<1> HIDE DEF g, T
<1>2. g \in Surjection(1 .. n, T)
  BY <1>1, Zenon DEF Surjection
<1>3. IsFiniteSet(1 .. n) /\ Cardinality(1 .. n) = n
  BY FS_Interval
<1>4. IsFiniteSet(T) /\ Cardinality(T) <= n
  BY <1>2, <1>3, FS_Surjection
<1>5. Cardinality(T) \in Nat
  BY <1>4, FS_CardinalityType
<1> QED BY <1>4, <1>5 DEF T

\* The positions of the snapshot of the cycle.
Shown == Published.positions

\* A position is the estimate of the i-th update, and no later one of the trip has a row.
IsShownFrom(p, i) ==
    /\ i \in DOMAIN Matchable /\ HasRow(Matchable[i])
    /\ p = [EstimateFor(Matchable[i]) EXCEPT !.feed = feed.timestamp]
    /\ limit = Absent => \A j \in DOMAIN Matchable :
            i < j /\ Matchable[j].trip = Matchable[i].trip => ~HasRow(Matchable[j])

\* The row of an update is of its trip.
LEMMA RowOfUpdate ==
    ASSUME InCycle, FeedInv, NEW i \in DOMAIN Matchable, HasRow(Matchable[i])
    PROVE  /\ IsValidRow(BatchRow(Matchable[i], observed), Matchable[i])
           /\ EstimateFor(Matchable[i]).trip = Matchable[i].trip
           /\ [EstimateFor(Matchable[i]) EXCEPT !.feed = feed.timestamp].trip =
                Matchable[i].trip
<1>1. IsValidRow(BatchRow(Matchable[i], observed), Matchable[i])
  <2>1. IsNormal(Matchable[i]) /\ Present(Matchable[i].date) /\ observed \in Times
    BY MatchableIs DEF FeedInv
  <2> QED BY <2>1, RowsAreValid DEF HasRow
<1>2. BatchRow(Matchable[i], observed).trip = Matchable[i].trip
  BY <1>1 DEF IsValidRow
<1> DEFINE p == [EstimateFor(Matchable[i]) EXCEPT !.feed = feed.timestamp]
<1>3. /\ p.trip = BatchRow(Matchable[i], observed).trip
      /\ EstimateFor(Matchable[i]).trip = BatchRow(Matchable[i], observed).trip
  BY DEF EstimateFor, EstimateOf
<1> HIDE DEF p
<1>4. p.trip = Matchable[i].trip /\ EstimateFor(Matchable[i]).trip = Matchable[i].trip
  BY <1>2, <1>3
<1> QED BY <1>1, <1>4 DEF p

\* What an estimated cycle shows.
LEMMA ShownIs ==
    ASSUME InCycle, FeedInv, TraceInv, IsEstimated
    PROVE  /\ Len(Shown) \in Nat /\ DOMAIN Shown = 1 .. Len(Shown) /\ \E S : Shown \in Seq(S)
           /\ \A k \in 1 .. Len(Shown) : \E i : IsShownFrom(Shown[k], i)
           /\ limit = Absent => \A i \in DOMAIN Matchable : HasRow(Matchable[i]) =>
                \E k \in 1 .. Len(Shown) : Shown[k].trip = Matchable[i].trip
           /\ NoneTwice(Shown) /\ Len(Shown) <= Len(Snapshot(feed).updates)
           /\ Len(PositionsByTrip(estimates)) = Len(Shown)
<1> DEFINE ps == PositionsByTrip(estimates)
           m == Len(ps)
           n == Len(estimates)
           N == Len(Matchable)
           With(e) == [e EXCEPT !.feed = feed.timestamp]
           S == {With(ps[k]) : k \in 1 .. m}
<1>1. PICK at : /\ IsTrace(estimates, at, 0, offset)
                /\ limit = Absent => IsCovering(at, Len(estimates), 0, offset)
  BY DEF TraceInv
<1>2. N \in Nat /\ DOMAIN Matchable = 1 .. N
  BY MatchableIs DEF FeedInv
<1>3. /\ estimates \in Seq(Estimates) /\ n \in Nat
      /\ \A k \in 1 .. n : at[k] \in 1 .. N
      /\ \A k, l \in 1 .. n : k < l => at[k] < at[l]
      /\ \A k \in 1 .. n :
            /\ HasRow(Matchable[at[k]]) /\ estimates[k] = EstimateFor(Matchable[at[k]])
            /\ estimates[k].trip = Matchable[at[k]].trip
  <2>1. /\ estimates \in Seq(Estimates)
        /\ \A k \in 1 .. n : at[k] \in 1 .. N
        /\ \A k, l \in 1 .. n : k < l => at[k] < at[l]
        /\ \A k \in 1 .. n :
            HasRow(Matchable[at[k]]) /\ estimates[k] = EstimateFor(Matchable[at[k]])
    BY <1>1 DEF IsTrace, IsEmbedding
  <2>2. n \in Nat
    <3> HIDE DEF Estimates
    <3> QED BY <2>1
  <2>3. \A k \in 1 .. n : EstimateFor(Matchable[at[k]]).trip = Matchable[at[k]].trip
    BY <1>2, <2>1, RowOfUpdate
  <2> QED BY <2>1, <2>2, <2>3
<1>4. /\ ps \in Seq(Estimates) /\ m \in Nat /\ DOMAIN ps = 1 .. m
      /\ \A k \in 1 .. m : \E i \in 1 .. n :
            /\ ps[k] = estimates[i]
            /\ \A j \in 1 .. n : i < j => estimates[j].trip # estimates[i].trip
      /\ \A i \in 1 .. n : \E k \in 1 .. m : ps[k].trip = estimates[i].trip
      /\ \A k, l \in 1 .. m : ps[k].trip = ps[l].trip => k = l
  <2> HIDE DEF Estimates
  <2> QED BY <1>3, PositionsByTripAre
<1>5. Shown = [k \in DOMAIN ps |-> With(ps[k])]
  BY Zenon DEF Shown, Published
<1> HIDE DEF ps
<1>6. /\ Shown \in Seq(S) /\ Len(Shown) = m
      /\ DOMAIN Shown = 1 .. m /\ \A k \in 1 .. m : Shown[k] = With(ps[k])
  <2>1. Shown = [k \in 1 .. m |-> With(ps[k])] /\ m \in Nat
    BY <1>4, <1>5
  <2> HIDE DEF m, With
  <2>2. Shown \in [1 .. m -> S]
    BY <2>1
  <2> HIDE DEF S
  <2>3. Shown \in Seq(S) /\ Len(Shown) = m
    BY <2>1, <2>2
  <2> QED BY <2>1, <2>3
<1> HIDE DEF m, n, N, S
<1>7. limit = Absent => \A i \in DOMAIN Matchable : HasRow(Matchable[i]) =>
                            \E k \in 1 .. n : at[k] = i
  <2> SUFFICES ASSUME limit = Absent, NEW i \in DOMAIN Matchable, HasRow(Matchable[i])
               PROVE  \E k \in 1 .. n : at[k] = i
    OBVIOUS
  <2>1. offset \in Nat /\ offset >= N
    BY DEF IsEstimated, IsCut, FeedInv, N
  <2>2. i \in 0 + 1 .. offset
    BY <1>2, <2>1
  <2> QED BY <1>1, <2>2 DEF IsCovering, n
<1>8. ASSUME NEW k \in 1 .. m PROVE \E i : IsShownFrom(Shown[k], i)
  <2>1. PICK e \in 1 .. n :
            /\ ps[k] = estimates[e]
            /\ \A j \in 1 .. n : e < j => estimates[j].trip # estimates[e].trip
    BY <1>4
  <2>2. /\ at[e] \in DOMAIN Matchable /\ HasRow(Matchable[at[e]])
        /\ Shown[k] = [EstimateFor(Matchable[at[e]]) EXCEPT !.feed = feed.timestamp]
    BY <1>2, <1>3, <1>6, <2>1
  <2>3. ASSUME limit = Absent, NEW j \in DOMAIN Matchable, at[e] < j,
               Matchable[j].trip = Matchable[at[e]].trip, HasRow(Matchable[j])
        PROVE  FALSE
    <3>1. PICK l \in 1 .. n : at[l] = j
      BY <1>7, <2>3
    <3>2. e < l
      <4>1. CASE l < e
        <5>1. at[l] < at[e] /\ at[l] \in Int /\ at[e] \in Int
          BY <1>2, <1>3, <4>1
        <5> QED BY <2>3, <3>1, <5>1
      <4>2. CASE l = e
        <5>1. at[e] \in Int
          BY <1>2, <1>3
        <5> QED BY <2>3, <3>1, <4>2, <5>1
      <4> QED BY <1>3, <4>1, <4>2
    <3>3. estimates[l].trip # estimates[e].trip
      BY <2>1, <3>2
    <3> QED BY <1>3, <2>3, <3>1, <3>3
  <2>4. IsShownFrom(Shown[k], at[e])
    BY <2>2, <2>3 DEF IsShownFrom
  <2> QED BY <2>4
<1>9. \A k \in 1 .. m : /\ Shown[k].trip = ps[k].trip
                        /\ \E j \in DOMAIN Snapshot(feed).updates :
                            Shown[k].trip = Snapshot(feed).updates[j].trip
  <2> TAKE k \in 1 .. m
  <2>1. PICK e \in 1 .. n : ps[k] = estimates[e]
    BY <1>4
  <2>2. /\ at[e] \in DOMAIN Matchable /\ HasRow(Matchable[at[e]])
        /\ Shown[k] = [EstimateFor(Matchable[at[e]]) EXCEPT !.feed = feed.timestamp]
        /\ ps[k].trip = Matchable[at[e]].trip
    BY <1>2, <1>3, <1>6, <2>1
  <2>3. Shown[k].trip = Matchable[at[e]].trip
    BY <2>2, RowOfUpdate
  <2>4. PICK j \in DOMAIN Snapshot(feed).updates : Matchable[at[e]] = Snapshot(feed).updates[j]
    BY <2>2, MatchableIs DEF FeedInv
  <2> QED BY <2>2, <2>3, <2>4
<1>10. \A k, l \in 1 .. m : Shown[k].trip = Shown[l].trip => k = l
  BY <1>4, <1>9
<1>11. limit = Absent => \A i \in DOMAIN Matchable : HasRow(Matchable[i]) =>
            \E k \in 1 .. m : Shown[k].trip = Matchable[i].trip
  <2> SUFFICES ASSUME limit = Absent, NEW i \in DOMAIN Matchable, HasRow(Matchable[i])
               PROVE  \E k \in 1 .. m : Shown[k].trip = Matchable[i].trip
    OBVIOUS
  <2>1. PICK e \in 1 .. n : at[e] = i
    BY <1>7
  <2>2. PICK k \in 1 .. m : ps[k].trip = estimates[e].trip
    BY <1>4
  <2> QED BY <1>3, <1>9, <2>1, <2>2
<1>12. NoneTwice(Shown) /\ m <= Len(Snapshot(feed).updates)
  <2> DEFINE T == {p.trip : p \in ToSet(Shown)}
             updates == Snapshot(feed).updates
             trips == [j \in 1 .. Len(updates) |-> updates[j].trip]
             V == {trips[j] : j \in 1 .. Len(updates)}
  <2>1. NoneTwice(Shown) /\ IsFiniteSet(T) /\ Cardinality(T) = m
    <3>1. \A k, l \in 1 .. Len(Shown) : Shown[k].trip = Shown[l].trip => k = l
      BY <1>6, <1>10
    <3> QED BY <1>6, <3>1, TripsAreCounted
  <2>2. Len(updates) \in Nat /\ DOMAIN updates = 1 .. Len(updates)
    BY UpdatesAreNormal DEF FeedInv
  <2>3. IsFiniteSet(V) /\ Cardinality(V) \in Nat /\ Cardinality(V) <= Len(updates)
    BY <2>2, ImageIsFinite
  <2>4. T \in SUBSET V
    <3>1. \A p \in ToSet(Shown) : \E k \in 1 .. m : p = Shown[k]
      BY <1>6 DEF ToSet
    <3>2. \A j \in DOMAIN updates : updates[j].trip \in V
      BY <2>2
    <3> HIDE DEF V
    <3> QED BY <1>9, <3>1, <3>2
  <2> HIDE DEF T, V, updates
  <2>5. Cardinality(T) <= Cardinality(V)
    BY <2>3, <2>4, FS_Subset
  <2>6. m <= Len(updates)
    BY <1>4, <2>1, <2>2, <2>3, <2>5
  <2> QED BY <2>1, <2>6 DEF updates
<1>13. Len(PositionsByTrip(estimates)) = m
  BY DEF m, ps
<1> QED BY <1>4, <1>6, <1>8, <1>11, <1>12, <1>13

-----------------------------------------------------------------------------
(* The rows for the analytics                                              *)

\* The sums of the first i numbers, for i up to n.
IsSums(sum, numbers, n) ==
    sum = [i \in 0 .. n |-> IF i = 0 THEN 0 ELSE sum[i - 1] + numbers[i]]

\* The sums exist.
LEMMA SumsExist ==
    ASSUME NEW numbers, NEW N \in Nat
    PROVE  \E sum : IsSums(sum, numbers, N)
<1> DEFINE Bad == {n \in 0 .. N : ~\E sum : IsSums(sum, numbers, n)}
<1>1. SUFFICES ASSUME Bad # {} PROVE FALSE
  OBVIOUS
<1>2. PICK n \in Bad : \A m \in Bad : n <= m
  <2>1. Bad \in SUBSET Nat
    OBVIOUS
  <2> HIDE DEF Bad
  <2> QED BY <1>1, <2>1, LeastExists
<1>3. n \in 0 .. N /\ ~\E sum : IsSums(sum, numbers, n)
  OBVIOUS
<1>4. CASE n = 0
  <2> DEFINE sum == [i \in 0 .. 0 |-> 0]
  <2>1. sum = [i \in 0 .. 0 |-> IF i = 0 THEN 0 ELSE sum[i - 1] + numbers[i]]
    OBVIOUS
  <2> HIDE DEF sum
  <2> QED BY <1>3, <1>4, <2>1 DEF IsSums
<1>5. CASE n # 0
  <2>1. n - 1 \in 0 .. N /\ n - 1 \notin Bad
    BY <1>2, <1>3, <1>5
  <2>2. PICK sum : IsSums(sum, numbers, n - 1)
    BY <2>1
  <2> DEFINE more == [i \in 0 .. n |-> IF i = n THEN sum[n - 1] + numbers[n] ELSE sum[i]]
  <2>3. \A i \in 0 .. n : more[i] = IF i = 0 THEN 0 ELSE more[i - 1] + numbers[i]
    <3> TAKE i \in 0 .. n
    <3>1. CASE i = n
      <4>1. more[n] = sum[n - 1] + numbers[n] /\ more[n - 1] = sum[n - 1]
        BY <1>3, <1>5
      <4> QED BY <1>5, <3>1, <4>1
    <3>2. CASE i # n
      <4>1. i \in 0 .. n - 1 /\ more[i] = sum[i]
        BY <1>3, <3>2
      <4>2. sum[i] = IF i = 0 THEN 0 ELSE sum[i - 1] + numbers[i]
        BY <2>2, <4>1 DEF IsSums
      <4>3. i # 0 => more[i - 1] = sum[i - 1]
        BY <1>3, <4>1
      <4> QED BY <4>1, <4>2, <4>3
    <3> QED BY <3>1, <3>2
  <2>4. IsSums(more, numbers, n)
    BY <2>3 DEF IsSums
  <2> QED BY <1>3, <2>4
<1> QED BY <1>4, <1>5

\* The sum of integers is an integer.
LEMMA SumIsInt ==
    ASSUME NEW numbers \in Seq(Int)
    PROVE  SumOf(numbers) \in Int
<1> DEFINE n == Len(numbers)
           sum == CHOOSE f : f = [i \in 0 .. n |->
                                    IF i = 0 THEN 0 ELSE f[i - 1] + numbers[i]]
<1>0. n \in Nat /\ \A i \in 1 .. n : numbers[i] \in Int
  OBVIOUS
<1>1. \E f : f = [i \in 0 .. n |-> IF i = 0 THEN 0 ELSE f[i - 1] + numbers[i]]
  <2>1. PICK f : IsSums(f, numbers, n)
    BY <1>0, SumsExist
  <2> QED BY <2>1, Zenon DEF IsSums
<1>2. IsSums(sum, numbers, n)
  BY <1>1, Zenon DEF IsSums
<1>3. SumOf(numbers) = sum[n]
  BY Zenon DEF SumOf
<1> HIDE DEF sum
<1> DEFINE Bad == {i \in 0 .. n : sum[i] \notin Int}
<1>4. Bad = {}
  <2> SUFFICES ASSUME Bad # {} PROVE FALSE
    OBVIOUS
  <2>1. PICK i \in Bad : \A j \in Bad : i <= j
    <3>1. Bad \in SUBSET Nat
      BY <1>0
    <3> HIDE DEF Bad
    <3> QED BY <3>1, LeastExists
  <2>2. i \in 0 .. n /\ sum[i] \notin Int
    OBVIOUS
  <2>3. sum[i] = IF i = 0 THEN 0 ELSE sum[i - 1] + numbers[i]
    BY <1>2, <2>2 DEF IsSums
  <2>4. CASE i = 0
    BY <2>2, <2>3, <2>4
  <2>5. CASE i # 0
    <3>1. i - 1 \in 0 .. n /\ ~(i <= i - 1)
      BY <1>0, <2>2, <2>5
    <3>2. sum[i - 1] \in Int
      BY <2>1, <3>1
    <3>3. numbers[i] \in Int
      BY <1>0, <2>2, <2>5
    <3> QED BY <2>2, <2>3, <2>5, <3>2, <3>3
  <2> QED BY <2>4, <2>5
<1>5. n \in 0 .. n
  BY <1>0
<1> QED BY <1>3, <1>4, <1>5

\* A list of the elements of a finite set.
LEMMA SetToSeqType ==
    ASSUME NEW S, IsFiniteSet(S)
    PROVE  SetToSeq(S) \in Seq(S)
<1>1. PICK f : f \in Bijection(1 .. Cardinality(S), S)
  BY FS_CardinalityType DEF ExistsBijection
<1>2. f \in [1 .. Cardinality(S) -> S] /\ IsInjective(f)
  BY <1>1 DEF Bijection, Injection, IsInjective
<1>3. SetToSeq(S) \in [1 .. Cardinality(S) -> S]
  BY <1>2 DEF SetToSeq
<1>4. Cardinality(S) \in Nat
  BY FS_CardinalityType
<1> QED BY <1>3, <1>4

\* Stripping twice changes nothing more.
LEMMA StripTwice ==
    ASSUME NEW text
    PROVE  Strip(Strip(text)) = Strip(text)
BY TextAssumption DEF Strip

\* What the aggregation needs of a position.
IsCountable(position) ==
    /\ position.delay = Absent \/ position.delay \in Int
    /\ Strip(position.route) # Absent
    /\ position.category \in {Absent, "u_bahn", "s_bahn", "bus", "tram", "regional"}

\* The rows that analytics.py aggregates are rows that the database takes.
LEMMA AggregateRowsAreSound ==
    ASSUME NEW S, NEW ps \in Seq(S), \A k \in DOMAIN ps : IsCountable(ps[k])
    PROVE  \A row \in ToSet(AggregateRows(ps)) : RowIsSound(row)
<1> DEFINE n == Len(ps)
           seen == {i \in DOMAIN ps : IsObserved(ps[i])}
           rowOf == [i \in 1 .. n |-> AggregateRow(ps, GroupOf(ps[i]))]
           all == {rowOf[i] : i \in 1 .. n}
           R == {AggregateRow(ps, GroupOf(ps[i])) : i \in seen}
<1>1. n \in Nat /\ DOMAIN ps = 1 .. n
  OBVIOUS
<1>2. AggregateRows(ps) \in Seq(R)
  <2>1. IsFiniteSet(all)
    <3>1. DOMAIN rowOf = 1 .. n
      OBVIOUS
    <3> HIDE DEF rowOf, n
    <3> QED BY <1>1, <3>1, ImageIsFinite
  <2>2. R \in SUBSET all
    BY <1>1
  <2>3. AggregateRows(ps) = SetToSeq(R)
    BY Zenon DEF AggregateRows
  <2> HIDE DEF R, all
  <2> QED BY <2>1, <2>2, <2>3, FS_Subset, SetToSeqType
<1>3. ASSUME NEW row \in R PROVE RowIsSound(row)
  <2>1. PICK i \in seen : row = AggregateRow(ps, GroupOf(ps[i]))
    OBVIOUS
  <2>2. i \in DOMAIN ps /\ IsObserved(ps[i]) /\ IsCountable(ps[i])
    OBVIOUS
  <2> DEFINE g == GroupOf(ps[i])
             its == {j \in DOMAIN ps : IsObserved(ps[j]) /\ GroupOf(ps[j]) = g}
             late == {j \in its : ps[j].delay > PunctualityThreshold}
             numbers == [j \in DOMAIN ps |-> IF j \in its THEN ps[j].delay ELSE 0]
  <2>3. row = [route |-> g.route, category |-> g.category, samples |-> Cardinality(its),
               on_time |-> Cardinality(its \ late), late |-> Cardinality(late),
               delay |-> SumOf(numbers)]
    BY <2>1, Zenon DEF AggregateRow
  <2>4. SumOf(numbers) \in Int
    <3>1. \A j \in its : ps[j].delay \in Int
      BY DEF IsCountable, IsObserved
    <3>2. numbers \in [1 .. n -> Int]
      BY <1>1, <3>1
    <3>3. numbers \in Seq(Int)
      <4> HIDE DEF numbers, n
      <4> QED BY <1>1, <3>2
    <3> HIDE DEF numbers
    <3> QED BY <3>3, SumIsInt
  <2>5. IsFiniteSet(its) /\ Cardinality(its) \in Nat \ {0}
    <3>1. its \in SUBSET (1 .. n) /\ i \in its
      BY <1>1, <2>2
    <3> HIDE DEF its, n
    <3>2. IsFiniteSet(1 .. n)
      BY <1>1, FS_Interval
    <3>3. IsFiniteSet(its)
      BY <3>1, <3>2, FS_Subset
    <3> QED BY <3>1, <3>3, FS_EmptySet, FS_CardinalityType
  <2>6. /\ Cardinality(late) \in Nat /\ Cardinality(its \ late) \in Nat
        /\ Cardinality(its \ late) + Cardinality(late) = Cardinality(its)
    <3>1. late \in SUBSET its /\ its \cap late = late /\ its \ late \in SUBSET its
      OBVIOUS
    <3> HIDE DEF its, late
    <3>2. /\ IsFiniteSet(late) /\ IsFiniteSet(its \ late)
          /\ Cardinality(its \ late) = Cardinality(its) - Cardinality(its \cap late)
      BY <2>5, <3>1, FS_Subset, FS_Difference
    <3>3. Cardinality(late) \in Nat /\ Cardinality(its \ late) \in Nat
      BY <3>2, FS_CardinalityType
    <3>4. Cardinality(its \ late) = Cardinality(its) - Cardinality(late)
      BY <3>1, <3>2
    <3>5. Cardinality(its) \in Int
      BY <2>5
    <3> QED BY <3>3, <3>4, <3>5
  <2> HIDE DEF its, late, numbers
  <2>7. /\ row.route = g.route /\ row.category = g.category
        /\ row.samples = Cardinality(its) /\ row.on_time = Cardinality(its \ late)
        /\ row.late = Cardinality(late) /\ row.delay = SumOf(numbers)
    BY <2>3
  <2>8. row.route # Absent /\ Strip(row.route) # Blank
    <3>1. row.route = Strip(ps[i].route)
      BY <2>7 DEF GroupOf, Group
    <3> QED BY <2>2, <3>1, StripTwice DEF IsCountable, IsObserved
  <2>9. CategoryOf(row) \in ToSet(Categories)
    <3>1. g.category \in ToSet(Categories)
      <4>1. g.category = IF ps[i].category = Absent THEN "unknown" ELSE ps[i].category
        BY DEF GroupOf, Group
      <4>2. {"u_bahn", "s_bahn", "bus", "tram", "regional", "unknown"} \subseteq
                ToSet(Categories)
        <5>1. /\ Categories[1] = "bus" /\ Categories[2] = "regional"
              /\ Categories[3] = "s_bahn" /\ Categories[4] = "tram"
              /\ Categories[5] = "u_bahn" /\ Categories[6] = "unknown"
              /\ DOMAIN Categories = 1 .. 6
          BY DEF Categories
        <5> QED BY <5>1 DEF ToSet
      <4> HIDE DEF g
      <4> QED BY <2>2, <4>1, <4>2 DEF IsCountable
    <3>2. Strip(g.category) = g.category
      BY <3>1, TextAssumption DEF Strip
    <3>3. "unknown" \in ToSet(Categories)
      <4>1. Categories[6] = "unknown" /\ 6 \in DOMAIN Categories
        BY DEF Categories
      <4> QED BY <4>1 DEF ToSet
    <3> HIDE DEF g
    <3> QED BY <2>7, <3>1, <3>2, <3>3 DEF CategoryOf
  <2> QED BY <2>4, <2>5, <2>6, <2>7, <2>8, <2>9 DEF RowIsSound
<1>4. \A row \in ToSet(AggregateRows(ps)) : row \in R
  <2> HIDE DEF R
  <2> QED BY <1>2 DEF ToSet
<1> HIDE DEF R
<1> QED BY <1>3, <1>4

-----------------------------------------------------------------------------
(* What a cycle shows                                                      *)

\* A position that every receiver takes.
IsGood(p) ==
    /\ IsEvident(p) /\ IsCountable(p)
    /\ Representable(p.timestamp) /\ Representable(p.arrival) /\ Present(p.date)
    /\ p.feed = feed.timestamp /\ p.observed = observed
    /\ p.trip # Blank /\ p.route # Blank
    /\ \A text \in {p.trip, p.route, p.shape, p.previous, p.next} : IsNamed(text)

\* The categories that a route can have.
LEMMA CategoryIs ==
    ASSUME NEW type, NEW name
    PROVE  Category(type, name) \in {Absent, "u_bahn", "s_bahn", "bus", "tram", "regional"}
<1> DEFINE fitting == {c \in DOMAIN CategoryTypes :
                type \in CategoryTypes[c] /\ (c = "s_bahn" => name \in SNames)}
<1>1. fitting \subseteq {"u_bahn", "s_bahn", "bus", "tram", "regional"}
  <2>1. DOMAIN CategoryTypes = {"u_bahn", "s_bahn", "bus", "tram", "regional"}
    BY DEF CategoryTypes
  <2> QED BY <2>1
<1>2. Category(type, name) = IF fitting = {} THEN Absent ELSE CHOOSE c \in fitting : TRUE
  BY Zenon DEF Category
<1> HIDE DEF fitting
<1>3. fitting # {} => (CHOOSE c \in fitting : TRUE) \in fitting
  OBVIOUS
<1> QED BY <1>1, <1>2, <1>3

\* A text that has a name left when stripped is not empty.
LEMMA NamedIsNotBlank ==
    ASSUME NEW text, IsNamed(text)
    PROVE  text # Blank
BY TextAssumption DEF IsNamed, Strip

\* Every position of an estimated cycle is good.
LEMMA ShownAreGood ==
    ASSUME InCycle, FeedInv, NEW p, NEW i, IsShownFrom(p, i)
    PROVE  IsGood(p)
<1> DEFINE u == Matchable[i]
           row == BatchRow(u, observed)
           trip == Trips[row.trip]
<1>1. /\ i \in DOMAIN Matchable /\ HasRow(u)
      /\ p = [EstimateFor(u) EXCEPT !.feed = feed.timestamp]
  BY DEF IsShownFrom
<1>2. IsNormal(u) /\ Present(u.date)
  BY <1>1, MatchableIs DEF FeedInv
<1>3. IsValidRow(row, u)
  BY <1>1, RowOfUpdate
<1> HIDE DEF u, row
<1>4. /\ p.trip = row.trip /\ p.route = trip.route /\ p.shape = trip.shape
      /\ p.previous = row.previous /\ p.next = row.next /\ p.delay = row.delay
      /\ p.source = row.source /\ p.arrival = row.arrival /\ p.observed = observed
      /\ p.feed = feed.timestamp /\ p.timestamp = u.timestamp /\ p.date = u.date
      /\ p.category = Category(trip.type, trip.name)
  BY <1>1 DEF EstimateFor, EstimateOf, row
<1>5. /\ row.trip = u.trip /\ row.trip \in DOMAIN StopTimes /\ trip.geometry
      /\ IsNamed(row.previous) /\ IsNamed(row.next) /\ row.source \in TimingSources
      /\ row.source = "schedule_only" <=> row.delay = Absent
      /\ Present(row.delay) => row.delay \in Int32
      /\ row.arrival \in MinTime .. MaxTime
  BY <1>3 DEF IsValidRow
<1>6. IsNamed(row.trip) /\ IsNamed(trip.route) /\ IsNamed(trip.shape)
  BY <1>5, ScheduleAssumption
<1> HIDE DEF trip
<1>7. IsEvident(p)
  BY <1>4, <1>5 DEF IsEvident
<1>8. p.category \in {Absent, "u_bahn", "s_bahn", "bus", "tram", "regional"}
  BY <1>4, CategoryIs
<1>9. p.delay = Absent \/ p.delay \in Int
  BY <1>4, <1>5, TimeAssumption DEF Present, Int32
<1>10. IsCountable(p)
  BY <1>4, <1>6, <1>8, <1>9 DEF IsCountable, IsNamed
<1>11. /\ Representable(p.timestamp) /\ Representable(p.arrival) /\ Present(p.date)
  BY <1>2, <1>4, <1>5 DEF IsNormal, Representable
<1>12. p.trip # Blank /\ p.route # Blank
  BY <1>4, <1>6, NamedIsNotBlank
<1>13. \A text \in {p.trip, p.route, p.shape, p.previous, p.next} : IsNamed(text)
  BY <1>4, <1>5, <1>6
<1> QED BY <1>4, <1>7, <1>10, <1>11, <1>12, <1>13 DEF IsGood

\* The snapshot of an estimated cycle passes the contract (contracts.py:116).
LEMMA PublishedIsValid ==
    ASSUME InCycle, FeedInv, TraceInv, IsEstimated
    PROVE  /\ SnapshotIsValid(Published)
           /\ \A p \in ToSet(Shown) : IsGood(p)
<1> DEFINE n == Len(Shown)
           received == Len(Snapshot(feed).updates)
<1>1. /\ n \in Nat /\ DOMAIN Shown = 1 .. n /\ NoneTwice(Shown) /\ n <= received
      /\ Len(PositionsByTrip(estimates)) = n
      /\ \A k \in 1 .. n : \E i : IsShownFrom(Shown[k], i)
  BY ShownIs
<1>2. received \in Nat
  BY UpdatesAreNormal DEF FeedInv
<1>3. \A p \in ToSet(Shown) : IsGood(p)
  BY <1>1, ShownAreGood DEF ToSet
<1>4. /\ Published.feed = feed.timestamp /\ Published.observed = observed
      /\ Published.received = received
      /\ Published.suppressed = received - Len(PositionsByTrip(estimates))
      /\ Published.positions = Shown
  BY DEF Published, Shown
<1> HIDE DEF n, received
<1>5. Published.suppressed = received - n /\ received - n \in Nat
  BY <1>1, <1>2, <1>4
<1>6. \A p \in ToSet(Shown) : HasProvenance(p, Published)
  BY <1>3, <1>4 DEF HasProvenance, IsGood
<1>7. n + (received - n) = received
  BY <1>1, <1>2
<1>8. SnapshotIsValid(Published)
  BY <1>1, <1>2, <1>4, <1>5, <1>6, <1>7 DEF SnapshotIsValid, n
<1> QED BY <1>3, <1>8

\* The browser shows it, and the terminal client prints it if its entities have names.
LEMMA EventIsShown ==
    ASSUME InCycle, FeedInv, TraceInv, IsEstimated, event = Event(Published)
    PROVE  /\ ShownByBrowser(event)
           /\ PrintedByTerminal(event) <=>
                 \A p \in ToSet(event.positions) : Strip(p.entity) # Blank
<1>1. SnapshotIsValid(Published) /\ \A p \in ToSet(Shown) : IsGood(p)
  BY PublishedIsValid
<1>2. /\ Published.feed = feed.timestamp /\ Published.observed = observed
      /\ Published.positions = Shown
  BY DEF Published, Shown
<1>3. /\ event.feed = feed.timestamp /\ event.observed = observed
      /\ event.positions = Shown /\ event.received = Published.received
      /\ event.suppressed = Published.suppressed /\ event.estimated = Len(Shown)
  BY <1>2 DEF Event
<1>4. Representable(event.feed) /\ Representable(event.observed)
  BY <1>3, FeedCycleAssumption DEF FeedInv, FeedRefused, Representable
<1>5. CountsAgree(event) /\ NoneTwice(event.positions)
  <2>1. Len(Shown) \in Nat
    BY ShownIs
  <2> QED BY <1>1, <1>2, <1>3, <2>1 DEF CountsAgree, SnapshotIsValid
<1>6. \A p \in ToSet(Shown) : IsPositionFor(p, event)
  BY <1>1, <1>3 DEF IsPositionFor, IsGood, IsCountable, HasProvenance
<1>7. IsSnapshot(event)
  BY <1>3, <1>4, <1>5, <1>6 DEF IsSnapshot
<1>8. ShownByBrowser(event)
  BY <1>1, <1>3, <1>7 DEF ShownByBrowser, IsGood
<1>9. ASSUME NEW p \in ToSet(Shown)
      PROVE  Blank \notin {Strip(text) : text \in
                {p.entity, p.trip, p.route, p.shape, p.previous, p.next}}
             <=> Strip(p.entity) # Blank
  <2>1. \A text \in {p.trip, p.route, p.shape, p.previous, p.next} : Strip(text) # Blank
    BY <1>1 DEF IsGood, IsNamed
  <2> QED BY <2>1
<1>10. PrintedByTerminal(event) <=> \A p \in ToSet(Shown) : Strip(p.entity) # Blank
  BY <1>3, <1>7, <1>9 DEF PrintedByTerminal
<1> QED BY <1>3, <1>8, <1>10

-----------------------------------------------------------------------------
(* The invariant of the cycle                                              *)

\* The data that a step leaves alone gives the same list and the same estimates.
LEMMA SameUpdates ==
    ASSUME UNCHANGED <<feed, observed>>
    PROVE  /\ Matchable' = Matchable /\ Estimates' = Estimates
           /\ \A u : HasRow(u)' <=> HasRow(u)
           /\ \A u : EstimateFor(u)' = EstimateFor(u)
<1>1. Matchable' = Matchable
  BY DEF Matchable
<1>2. \A u : BatchRow(u, observed)' = BatchRow(u, observed)
  OBVIOUS
<1>3. \A u : HasRow(u)' <=> HasRow(u)
  BY <1>2 DEF HasRow
<1>4. \A u : EstimateFor(u)' = EstimateFor(u)
  BY <1>2 DEF EstimateFor, EstimateOf
<1>5. Estimates' = Estimates
  BY <1>1, <1>4 DEF Estimates
<1> QED BY <1>1, <1>3, <1>4, <1>5

\* A trace of the new estimates in the old list is one in the new list.
LEMMA TraceIsKept ==
    ASSUME UNCHANGED <<feed, observed, limit>>, NEW at,
           IsTrace(estimates', at, 0, offset'),
           limit = Absent => IsCovering(at, Len(estimates'), 0, offset')
    PROVE  TraceInv'
<1>1. /\ Matchable' = Matchable /\ Estimates' = Estimates
      /\ \A u : HasRow(u)' <=> HasRow(u)
      /\ \A u : EstimateFor(u)' = EstimateFor(u)
  BY SameUpdates
<1>2. IsTrace(estimates, at, 0, offset)'
  BY <1>1 DEF IsTrace, IsEmbedding
<1>3. limit' = Absent => IsCovering(at, Len(estimates), 0, offset)'
  BY <1>1 DEF IsCovering
<1> QED BY <1>2, <1>3 DEF TraceInv

\* Before the first chunk there is nothing to trace.
StartsEmpty ==
    offset = 0 /\ estimates = <<>> =>
        \E at : IsTrace(estimates, at, 0, offset) /\ IsCovering(at, Len(estimates), 0, offset)

LEMMA EmptyIsTraced == StartsEmpty
<1> SUFFICES ASSUME offset = 0, estimates = <<>>
             PROVE  \E at : /\ IsTrace(estimates, at, 0, offset)
                            /\ IsCovering(at, Len(estimates), 0, offset)
  BY DEF StartsEmpty
<1> DEFINE at == [k \in 1 .. 0 |-> 0]
<1>1. Len(estimates) = 0 /\ estimates \in Seq(Estimates) /\ 1 .. 0 = {} /\ 0 + 1 .. 0 = {}
  <2> HIDE DEF Estimates
  <2> QED OBVIOUS
<1>2. IsEmbedding(at, 0, Len(Matchable))
  BY DEF IsEmbedding
<1> HIDE DEF at
<1>3. IsTrace(estimates, at, 0, offset)
  BY <1>1, <1>2 DEF IsTrace
<1>4. IsCovering(at, Len(estimates), 0, offset)
  BY <1>1 DEF IsCovering
<1> QED BY <1>3, <1>4

\* The same in the next state.
LEMMA EmptyIsTracedThen == StartsEmpty'
BY EmptyIsTraced, PTL

\* A cycle starts without estimates.
LEMMA FetchKeeps ==
    ASSUME CycleIInv, Fetch
    PROVE  CycleIInv'
<1>1. offset' = 0 /\ estimates' = <<>>
  BY DEF Fetch, CycleIInv
<1>2. pc' \in {"refused", "estimating"} /\ (pc' = "estimating" => ~FeedRefused(feed'))
  <2>1. ~FeedRefused(feed') => SnapshotIsSound(Snapshot(feed'))
    BY NormalisedIsSound
  <2> QED BY <2>1 DEF Fetch
<1>3. FeedInv'
  BY <1>1, <1>2 DEF Fetch, FeedInv, InCycle
<1>4. TraceInv'
  BY <1>1, EmptyIsTracedThen DEF StartsEmpty, TraceInv
<1> QED BY <1>1, <1>2, <1>3, <1>4 DEF CycleIInv, PublishedInv

\* A failing query makes the cycle start over.
LEMMA FailToEstimateKeeps ==
    ASSUME CycleIInv, FailToEstimate
    PROVE  CycleIInv'
<1>1. /\ offset' = 0 /\ estimates' = <<>> /\ pc = "estimating" /\ pc' = pc
      /\ UNCHANGED <<feed, observed, limit>>
  BY DEF FailToEstimate
<1>2. FeedInv'
  BY <1>1 DEF FeedInv, InCycle, CycleIInv
<1>3. TraceInv'
  BY <1>1, EmptyIsTracedThen DEF StartsEmpty, TraceInv
<1> QED BY <1>1, <1>2, <1>3 DEF CycleIInv, PublishedInv

\* A chunk, cut at the limit, adds the estimates of its part of the list.
LEMMA EstimateChunkKeeps ==
    ASSUME CycleIInv, EstimateChunk
    PROVE  CycleIInv'
<1> DEFINE more == EstimatesOfChunk
           all == estimates \o more
           N == Len(Matchable)
<1>1. /\ pc = "estimating" /\ InCycle /\ FeedInv /\ TraceInv
      /\ UNCHANGED <<feed, observed, limit, event, rows>> /\ ~IsEstimated
  BY DEF EstimateChunk, CycleIInv, InCycle
<1>2. /\ feed \in Feeds /\ ~FeedRefused(feed) /\ observed \in Times
      /\ limit \in Limits /\ offset \in Nat
  BY <1>1 DEF FeedInv
<1>3. N \in Nat /\ DOMAIN Matchable = 1 .. N
  BY <1>2, MatchableIs
<1>4. offset < N
  BY <1>1, <1>2, <1>3 DEF IsEstimated
<1>5. /\ ChunkIsValid
      /\ \E at : /\ IsTrace(more, at, offset, offset + BatchSize)
                 /\ IsCovering(at, Len(more), offset, offset + BatchSize)
  BY <1>2, <1>4, ChunkIsTraced
<1>6. pc' = pc /\ estimates' = Cut(all) /\ offset' = offset + BatchSize
  BY <1>5 DEF EstimateChunk
<1>7. offset + BatchSize \in Nat /\ offset <= offset + BatchSize
  BY <1>2, FeedCycleAssumption
<1>8. PICK at1 : /\ IsTrace(estimates, at1, 0, offset)
                 /\ limit = Absent => IsCovering(at1, Len(estimates), 0, offset)
  BY <1>1 DEF TraceInv
<1>9. PICK at2 : /\ IsTrace(more, at2, offset, offset + BatchSize)
                 /\ IsCovering(at2, Len(more), offset, offset + BatchSize)
  BY <1>5
<1> HIDE DEF more
<1>10. PICK at : /\ IsTrace(all, at, 0, offset + BatchSize)
                 /\ /\ IsCovering(at1, Len(estimates), 0, offset)
                    /\ IsCovering(at2, Len(more), offset, offset + BatchSize)
                    => IsCovering(at, Len(all), 0, offset + BatchSize)
  BY <1>2, <1>3, <1>7, <1>8, <1>9, TraceGrows
<1> HIDE DEF all, N
<1>11. TraceInv'
  <2>1. CASE IsCut(all)
    <3>1. limit # Absent /\ limit \in Nat /\ limit <= Len(all)
      <4>1. limit # Absent /\ limit \in Nat
        BY <1>2, <2>1, FeedCycleAssumption DEF IsCut
      <4>2. Len(all) >= limit
        BY <2>1 DEF IsCut
      <4>3. Len(all) \in Nat
        <5>1. all \in Seq(Estimates)
          BY <1>10 DEF IsTrace
        <5> HIDE DEF Estimates
        <5> QED BY <5>1
      <4> QED BY <4>1, <4>2, <4>3
    <3>2. estimates' = SubSeq(all, 1, limit)
      BY <1>6, <2>1 DEF Cut
    <3>3. PICK at3 : IsTrace(SubSeq(all, 1, limit), at3, 0, offset + BatchSize)
      BY <1>10, <3>1, TraceIsCut
    <3>4. IsTrace(estimates', at3, 0, offset')
      BY <1>6, <3>2, <3>3
    <3> QED BY <1>1, <3>1, <3>4, TraceIsKept
  <2>2. CASE ~IsCut(all)
    <3>1. estimates' = all
      BY <1>6, <2>2 DEF Cut
    <3>2. IsTrace(estimates', at, 0, offset')
      BY <1>6, <1>10, <3>1
    <3>3. limit = Absent => IsCovering(at, Len(estimates'), 0, offset')
      BY <1>6, <1>8, <1>9, <1>10, <3>1
    <3> QED BY <1>1, <3>2, <3>3, TraceIsKept
  <2> QED BY <2>1, <2>2
<1>12. FeedInv'
  BY <1>1, <1>2, <1>6, <1>7 DEF FeedInv
<1> QED BY <1>1, <1>6, <1>11, <1>12 DEF CycleIInv, PublishedInv

\* An estimated cycle is published.
LEMMA PublishKeeps ==
    ASSUME CycleIInv, Publish
    PROVE  CycleIInv'
<1>1. /\ pc = "estimating" /\ InCycle /\ FeedInv /\ TraceInv /\ IsEstimated
      /\ UNCHANGED <<feed, observed, limit, offset, estimates>>
  BY DEF Publish, CycleIInv, InCycle
<1>2. SnapshotIsValid(Published)
  BY <1>1, PublishedIsValid
<1>3. /\ pc' = "published" /\ event' = Event(Published)
      /\ rows' = AggregateRows(Published.positions)
  BY <1>2 DEF Publish
<1>4. FeedInv'
  BY <1>1 DEF FeedInv
<1>5. TraceInv'
  <2>1. PICK at : /\ IsTrace(estimates, at, 0, offset)
                  /\ limit = Absent => IsCovering(at, Len(estimates), 0, offset)
    BY <1>1 DEF TraceInv
  <2>2. /\ IsTrace(estimates', at, 0, offset')
        /\ limit = Absent => IsCovering(at, Len(estimates'), 0, offset')
    BY <1>1, <2>1
  <2> QED BY <1>1, <2>2, TraceIsKept
<1>6. PublishedInv'
  <2>1. Published' = Published
    BY <1>1 DEF Published
  <2>2. IsEstimated'
    <3>1. Matchable' = Matchable
      BY <1>1, SameUpdates
    <3> QED BY <1>1, <3>1 DEF IsEstimated, IsCut
  <2> QED BY <1>3, <2>1, <2>2 DEF PublishedInv, Event
<1> QED BY <1>3, <1>4, <1>5, <1>6 DEF CycleIInv

\* A step that changes nothing.
LEMMA StutterKeeps ==
    ASSUME CycleIInv, UNCHANGED vars
    PROVE  CycleIInv'
<1>1. /\ FeedInv /\ TraceInv /\ PublishedInv
      /\ UNCHANGED <<pc, feed, observed, limit, offset, estimates, event, rows>>
  BY DEF CycleIInv, vars
<1>2. FeedInv'
  BY <1>1 DEF FeedInv, InCycle
<1>3. TraceInv'
  <2>1. CASE ~InCycle
    BY <1>1, <2>1 DEF TraceInv, InCycle
  <2>2. CASE InCycle
    <3>1. PICK at : /\ IsTrace(estimates, at, 0, offset)
                    /\ limit = Absent => IsCovering(at, Len(estimates), 0, offset)
      BY <1>1, <2>2 DEF TraceInv
    <3>2. /\ IsTrace(estimates', at, 0, offset')
          /\ limit = Absent => IsCovering(at, Len(estimates'), 0, offset')
      BY <1>1, <3>1
    <3> QED BY <1>1, <3>2, TraceIsKept
  <2> QED BY <2>1, <2>2
<1>4. PublishedInv'
  <2>1. Published' = Published
    BY <1>1 DEF Published
  <2>2. IsEstimated' <=> IsEstimated
    <3>1. Matchable' = Matchable
      BY <1>1, SameUpdates
    <3> QED BY <1>1, <3>1 DEF IsEstimated, IsCut
  <2> QED BY <1>1, <2>1, <2>2 DEF PublishedInv, Event
<1> QED BY <1>1, <1>2, <1>3, <1>4 DEF CycleIInv

\* A cycle is what its feed and its time say, wherever it is: the estimates are those
\* of places of the list in their order up to the offset, and none is missing unless
\* the limit cut them (postgis.py:117, worker.py:183).
THEOREM CycleInvariant == Spec => []CycleIInv
<1>1. Init => CycleIInv
  BY DEF Init, CycleIInv, FeedInv, TraceInv, PublishedInv, InCycle
<1>2. CycleIInv /\ [Next]_vars => CycleIInv'
  <2> SUFFICES ASSUME CycleIInv, [Next]_vars
               PROVE  CycleIInv'
    OBVIOUS
  <2>1. CASE Fetch
    BY <2>1, FetchKeeps
  <2>2. CASE EstimateChunk
    BY <2>2, EstimateChunkKeeps
  <2>3. CASE FailToEstimate
    BY <2>3, FailToEstimateKeeps
  <2>4. CASE Publish
    BY <2>4, PublishKeeps
  <2>5. CASE NextCycle
    BY <2>5 DEF NextCycle, CycleIInv, FeedInv, TraceInv, PublishedInv, InCycle
  <2>6. CASE UNCHANGED vars
    BY <2>6, StutterKeeps
  <2> QED BY <2>1, <2>2, <2>3, <2>4, <2>5, <2>6 DEF Next
<1> QED BY <1>1, <1>2, PTL DEF Spec

\* Whatever the feeds and the schedule are, a feed that normalization.py accepts
\* passes the worker's check, the INTEGER of the query and the contracts, the browser
\* shows what comes of it, the terminal client prints it when its entities have
\* names, and the database takes its rows.
THEOREM AcceptedFeedsAreShownTheorem == Spec => []AcceptedFeedsAreShown
<1>1. CycleIInv => AcceptedFeedsAreShown
  <2> SUFFICES ASSUME CycleIInv PROVE AcceptedFeedsAreShown
    OBVIOUS
  <2>1. NeverUnsound /\ pc \notin {"stuck", "invalid"}
    BY DEF CycleIInv, NeverUnsound
  <2>2. ASSUME pc = "published"
        PROVE  /\ ShownByBrowser(event)
               /\ PrintedByTerminal(event) <=>
                     \A p \in ToSet(event.positions) : Strip(p.entity) # Blank
               /\ \A row \in ToSet(rows) : RowIsSound(row)
    <3>1. /\ InCycle /\ FeedInv /\ TraceInv /\ IsEstimated /\ event = Event(Published)
          /\ rows = AggregateRows(Shown)
      BY <2>2 DEF CycleIInv, PublishedInv, InCycle, Shown
    <3>2. /\ ShownByBrowser(event)
          /\ PrintedByTerminal(event) <=>
                \A p \in ToSet(event.positions) : Strip(p.entity) # Blank
      BY <3>1, EventIsShown
    <3>3. /\ \E S : Shown \in Seq(S)
          /\ \A k \in DOMAIN Shown : IsCountable(Shown[k])
      <4>1. \A p \in ToSet(Shown) : IsGood(p)
        BY <3>1, PublishedIsValid
      <4>2. \A k \in DOMAIN Shown : Shown[k] \in ToSet(Shown)
        BY DEF ToSet
      <4> QED BY <3>1, <4>1, <4>2, ShownIs DEF IsGood
    <3>4. \A row \in ToSet(rows) : RowIsSound(row)
      BY <3>1, <3>3, AggregateRowsAreSound
    <3> QED BY <3>2, <3>4
  <2> QED BY <2>1, <2>2 DEF AcceptedFeedsAreShown
<1> QED BY <1>1, CycleInvariant, PTL

\* Whatever the feeds and the schedule are, every position that is shown is one that
\* the function for one trip may give, of the last update of its trip that can be
\* placed, and without a limit no trip that can be placed is missing.
THEOREM ShownAsEstimatedAloneTheorem == Spec => []ShownAsEstimatedAlone
<1>1. CycleIInv => ShownAsEstimatedAlone
  <2> SUFFICES ASSUME CycleIInv, pc = "published"
               PROVE  ShownAsEstimatedAlone
    BY DEF ShownAsEstimatedAlone
  <2> DEFINE Alone(u) == SingleRows(u, observed)
             shown == ToSet(event.positions)
             CanBePlaced(i) == NoRow \notin Alone(Matchable[i])
  <2>1. /\ InCycle /\ FeedInv /\ TraceInv /\ IsEstimated /\ event = Event(Published)
    BY DEF CycleIInv, PublishedInv, InCycle
  <2>2. shown = ToSet(Shown)
    BY <2>1 DEF Event, Shown
  <2>3. /\ Len(Shown) \in Nat /\ DOMAIN Shown = 1 .. Len(Shown)
        /\ \A k \in 1 .. Len(Shown) : \E i : IsShownFrom(Shown[k], i)
        /\ limit = Absent => \A i \in DOMAIN Matchable : HasRow(Matchable[i]) =>
                \E k \in 1 .. Len(Shown) : Shown[k].trip = Matchable[i].trip
    BY <2>1, ShownIs
  <2>4. Len(Matchable) \in Nat /\ DOMAIN Matchable = 1 .. Len(Matchable)
    BY <2>1, MatchableIs DEF FeedInv
  <2>5. \A i \in DOMAIN Matchable : BatchRow(Matchable[i], observed) \in Alone(Matchable[i])
    <3> TAKE i \in DOMAIN Matchable
    <3>1. DOMAIN Matchable[i].stops \subseteq Nat
      BY <2>1, MatchableIs DEF FeedInv, IsNormal
    <3> QED BY <3>1, BatchAgreesWithSingle
  <2>6. \A i \in DOMAIN Matchable : CanBePlaced(i) => HasRow(Matchable[i])
    BY <2>5 DEF HasRow
  <2>7. ASSUME NEW p \in shown
        PROVE  \E i \in DOMAIN Matchable :
                /\ Matchable[i].trip = p.trip /\ Matchable[i].entity = p.entity
                /\ ShownRow(p) \in Alone(Matchable[i])
                /\ limit = Absent =>
                    \A j \in (i + 1) .. Len(Matchable) :
                        Matchable[j].trip = p.trip => ~CanBePlaced(j)
    <3>1. PICK i : IsShownFrom(p, i)
      BY <2>2, <2>3 DEF ToSet
    <3> DEFINE u == Matchable[i]
               row == BatchRow(u, observed)
    <3>2. /\ i \in DOMAIN Matchable /\ HasRow(u)
          /\ p = [EstimateFor(u) EXCEPT !.feed = feed.timestamp]
          /\ limit = Absent => \A j \in DOMAIN Matchable :
                i < j /\ Matchable[j].trip = u.trip => ~HasRow(Matchable[j])
      BY <3>1 DEF IsShownFrom
    <3>3. IsValidRow(row, u) /\ row \in Alone(u)
      BY <2>1, <2>5, <3>2, RowOfUpdate
    <3> HIDE DEF u, row
    <3>4. /\ p.entity = u.entity /\ p.trip = row.trip /\ p.previous = row.previous
          /\ p.next = row.next /\ p.delay = row.delay /\ p.source = row.source
          /\ p.arrival = row.arrival /\ p.where[1] = row.progress
          /\ p.where[2] = row.fractions
      BY <3>2 DEF EstimateFor, EstimateOf, row
    <3>5. /\ row.trip = u.trip
          /\ row = [trip |-> row.trip, previous |-> row.previous, next |-> row.next,
              source |-> row.source, arrival |-> row.arrival, delay |-> row.delay,
              progress |-> row.progress, fractions |-> row.fractions]
      BY <3>3 DEF IsValidRow
    <3>6. ShownRow(p) = row
      BY <3>4, <3>5 DEF ShownRow
    <3>7. limit = Absent =>
            \A j \in (i + 1) .. Len(Matchable) : Matchable[j].trip = p.trip => ~CanBePlaced(j)
      <4> SUFFICES ASSUME limit = Absent, NEW j \in (i + 1) .. Len(Matchable),
                          Matchable[j].trip = p.trip, CanBePlaced(j)
                   PROVE  FALSE
        OBVIOUS
      <4> HIDE DEF CanBePlaced
      <4>1. j \in DOMAIN Matchable /\ i < j
        BY <2>4, <3>2
      <4>2. HasRow(Matchable[j])
        BY <2>6, <4>1
      <4> QED BY <3>2, <3>4, <3>5, <4>1, <4>2
    <3>8. u.trip = p.trip /\ u.entity = p.entity /\ ShownRow(p) \in Alone(u)
      BY <3>3, <3>4, <3>5, <3>6
    <3> HIDE DEF Alone, CanBePlaced
    <3> QED BY <3>2, <3>7, <3>8 DEF u
  <2>8. limit = Absent =>
          \A i \in DOMAIN Matchable : CanBePlaced(i) =>
              \E p \in shown : p.trip = Matchable[i].trip
    <3> SUFFICES ASSUME limit = Absent, NEW i \in DOMAIN Matchable, CanBePlaced(i)
                 PROVE  \E p \in shown : p.trip = Matchable[i].trip
      OBVIOUS
    <3> HIDE DEF CanBePlaced
    <3>1. PICK k \in 1 .. Len(Shown) : Shown[k].trip = Matchable[i].trip
      BY <2>3, <2>6
    <3>2. Shown[k] \in shown
      BY <2>2, <2>3 DEF ToSet
    <3> QED BY <3>1, <3>2
  <2> QED BY <2>7, <2>8, Zenon DEF ShownAsEstimatedAlone
<1> QED BY <1>1, CycleInvariant, PTL
=============================================================================
