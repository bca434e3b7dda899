-------------------------- MODULE JourneySearchProofs --------------------------
(***************************************************************************)
(* Theorems about the planner, for every directory it may find and every   *)
(* sequence of queries: what its loaders let through is whole, the walks   *)
(* inside stations are the shortest, and on a schedule whose trips never   *)
(* leave before they arrive the search finds the best journey there is.    *)
(***************************************************************************)
EXTENDS JourneySearch, TLAPS, WellFoundedInduction, FiniteSetTheorems

-----------------------------------------------------------------------------
(* The inductive invariant                                                 *)

\* What may be read is what the disk held when the planner was made.
FilesInv == files \in Directories

\* Every loader before the one whose turn it is has accepted its file.
LoadedInv ==
    /\ stage \in ToSet(LoadOrder) \cup {"refused"}
    /\ \A i \in DOMAIN LoadOrder : stage = LoadOrder[i] =>
        \A j \in 1 .. (i - 1) : Loads(LoadOrder[j])

\* Only a planner that is ready has offsets, those of stop_times that it accepted.
OffsetsInv ==
    offsets # <<>> =>
        /\ stage = "ready"
        /\ files["stop_times"] # Unreadable /\ StopTimesLoad
        /\ offsets = TripOffsets

\* A query is under way in a planner that is ready only.
QueryInv == query # NoAnswer => stage = "ready"

PlannerIInv == FilesInv /\ LoadedInv /\ OffsetsInv /\ QueryInv

\* A planner that is ready has accepted every file.
ReadyIsLoaded == stage = "ready" => \A f \in Loaders : Loads(f)

-----------------------------------------------------------------------------
(* The proofs                                                              *)

\* The order of the loaders, written out.
LEMMA LoadOrderIs ==
  /\ DOMAIN LoadOrder = 1 .. 9
  /\ LoadOrder[1] = "routes" /\ LoadOrder[2] = "stops" /\ LoadOrder[3] = "calendar"
  /\ LoadOrder[4] = "calendar_dates" /\ LoadOrder[5] = "trips"
  /\ LoadOrder[6] = "trip_services" /\ LoadOrder[7] = "transfers"
  /\ LoadOrder[8] = "pathways" /\ LoadOrder[9] = "ready"
  /\ Loaders = {LoadOrder[i] : i \in 1 .. 8}
BY DEF LoadOrder, Loaders

\* No file is loaded twice.
LEMMA LoadOrderIsInjective ==
  \A i, j \in DOMAIN LoadOrder : LoadOrder[i] = LoadOrder[j] => i = j
<1> SUFFICES ASSUME NEW i \in 1 .. 9, NEW j \in 1 .. 9, LoadOrder[i] = LoadOrder[j]
             PROVE  i = j
  BY LoadOrderIs
<1>1. i \in {1, 2, 3, 4, 5, 6, 7, 8, 9} /\ j \in {1, 2, 3, 4, 5, 6, 7, 8, 9}
  OBVIOUS
<1> QED BY <1>1, LoadOrderIs

\* What a loader says depends on the files only.
LEMMA LoadsKept ==
  ASSUME UNCHANGED files
  PROVE  \A g : Loads(g)' <=> Loads(g)
BY DEF Loads, TripServicesKnown, RoutesLoad, StopsLoad, CalendarLoads, ExceptionsLoad,
   TripsLoad, TransfersLoad, PathwaysLoad, Identified, Distinct, Rows, Ids, Row,
   Platforms, LocationType, SelectorLoads

LEMMA StopTimesKept ==
  ASSUME UNCHANGED files
  PROVE  /\ StopTimesLoad' <=> StopTimesLoad
         /\ TripOffsets' = TripOffsets
BY DEF StopTimesLoad, TripOffsets, StopTimes, TripIndex, Trip, Trips, Ids, Rows

\* Loading a file passes to the next one; refusing it ends at "refused".
LEMMA LoadStep ==
  ASSUME LoadedInv, NEW f \in Loaders, Load(f) \/ RefuseDirectory(f)
  PROVE  LoadedInv' /\ stage # "ready"
<1>1. PICK k \in 1 .. 8 : f = LoadOrder[k]
  BY LoadOrderIs
<1>2. \A g : Loads(g)' <=> Loads(g)
  BY LoadsKept DEF Load, RefuseDirectory
<1>3. stage # "ready"
  BY <1>1, LoadOrderIs, LoadOrderIsInjective DEF Load, RefuseDirectory
<1>4. CASE Load(f)
  <2>1. stage = LoadOrder[k] /\ Loads(LoadOrder[k]) /\ stage' = LoadOrder[k + 1]
    BY <1>1, <1>4, LoadOrderIs, LoadOrderIsInjective DEF Load
  <2>2. \A j \in 1 .. (k - 1) : Loads(LoadOrder[j])
    BY <2>1, LoadOrderIs DEF LoadedInv
  <2>3. \A j \in 1 .. k : Loads(LoadOrder[j])'
    <3> TAKE j \in 1 .. k
    <3>1. j = k \/ j \in 1 .. (k - 1)
      OBVIOUS
    <3> QED BY <1>2, <2>1, <2>2, <3>1
  <2>4. \A i \in DOMAIN LoadOrder : stage' = LoadOrder[i] => i = k + 1
    <3>1. k + 1 \in DOMAIN LoadOrder
      BY LoadOrderIs
    <3> QED BY <2>1, <3>1, LoadOrderIsInjective
  <2>5. stage' \in ToSet(LoadOrder)
    BY <2>1, LoadOrderIs DEF ToSet
  <2> QED BY <1>3, <2>3, <2>4, <2>5 DEF LoadedInv
<1>5. CASE RefuseDirectory(f)
  <2>1. stage' = "refused"
    BY <1>5 DEF RefuseDirectory
  <2>2. \A i \in DOMAIN LoadOrder : LoadOrder[i] # "refused"
    <3> SUFFICES ASSUME NEW i \in 1 .. 9 PROVE LoadOrder[i] # "refused"
      BY LoadOrderIs
    <3>1. i \in {1, 2, 3, 4, 5, 6, 7, 8, 9}
      OBVIOUS
    <3> QED BY <3>1, LoadOrderIs
  <2> QED BY <1>3, <2>1, <2>2 DEF LoadedInv
<1> QED BY <1>4, <1>5

\* A nonempty set of natural numbers has a least element.
LEMMA LeastExists ==
  ASSUME NEW S \in SUBSET Nat, S # {}
  PROVE  \E x \in S : \A y \in S : x <= y
<1>1. PICK x \in S : \A y \in S : ~(<<y, x>> \in OpToRel(<, Nat))
  BY NatLessThanWellFounded, WFMin
<1>2. \A y \in S : x <= y
  <2> TAKE y \in S
  <2>1. ~(y < x)
    BY <1>1 DEF OpToRel
  <2> QED BY <2>1
<1> QED BY <1>2

\* A planner that is ready has passed every loader.
LEMMA ReadyHasLoaded == LoadedInv => ReadyIsLoaded
<1> SUFFICES ASSUME LoadedInv, stage = "ready", NEW f \in Loaders
             PROVE  Loads(f)
  BY DEF ReadyIsLoaded
<1>1. PICK k \in 1 .. 8 : f = LoadOrder[k]
  BY LoadOrderIs
<1>2. stage = LoadOrder[9] /\ 9 \in DOMAIN LoadOrder /\ k \in 1 .. (9 - 1)
  BY LoadOrderIs
<1> QED BY <1>1, <1>2 DEF LoadedInv

-----------------------------------------------------------------------------
(* The tables of a planner that is ready                                   *)

\* A file that can be read is a sequence of rows.
LEMMA ReadableIsSequence ==
  ASSUME FilesInv, NEW f \in {"trips", "stop_times", "stops"}, files[f] # Unreadable
  PROVE  files[f] \in Seq(ToSet(files[f]))
<1>1. f \in (Loaders \ {"trip_services"}) \cup {"stop_times"}
  BY LoadOrderIs
<1> QED BY <1>1, DirectoriesAssumption DEF FilesInv

\* The trips were accepted.
LEMMA TripsAreLoaded ==
  ASSUME LoadedInv, stage = "ready"
  PROVE  files["trips"] # Unreadable /\ TripsLoad
<1>1. "trips" \in Loaders
  BY LoadOrderIs
<1>2. Loads("trips")
  BY <1>1, ReadyHasLoaded DEF ReadyIsLoaded
<1> QED BY <1>2, Zenon DEF Loads

\* The id of a trip names one row of trips.txt.
LEMMA TripIndexIs ==
  ASSUME TripsLoad, NEW t \in Trips
  PROVE  TripIndex(Trip(t).id) = t
<1>1. \A s \in Trips : Trip(s).id = Trip(t).id => s = t
  BY DEF TripsLoad, Identified, Distinct, Trips, Trip
<1> QED BY <1>1 DEF TripIndex

\* Every row of stop_times is about one trip.
LEMMA TripOfIs ==
  ASSUME TripsLoad, StopTimesLoad, NEW e \in DOMAIN StopTimes
  PROVE  /\ TripOf(e) \in Trips
         /\ Trip(TripOf(e)).id = StopTimes[e].trip
<1>1. StopTimes[e].trip \in Ids("trips")
  BY DEF StopTimesLoad
<1>2. PICK t \in Trips : Trip(t).id = StopTimes[e].trip
  BY <1>1 DEF Ids, Rows, ToSet, Trips, Trip
<1> QED BY <1>2, TripIndexIs DEF TripOf

\* The trips of stop_times follow each other in the order of trips.txt: what
\* StopTimesLoad checks of neighbours holds of any two rows.
LEMMA RowsAreSorted ==
  ASSUME TripsLoad, StopTimesLoad, StopTimes \in Seq(ToSet(StopTimes)),
         files["trips"] \in Seq(ToSet(files["trips"])), NEW i \in DOMAIN StopTimes
  PROVE  \A j \in DOMAIN StopTimes : i <= j => TripOf(i) <= TripOf(j)
<1> DEFINE M == Len(StopTimes)
           Bad == {j \in 1 .. M : i <= j /\ ~(TripOf(i) <= TripOf(j))}
<1>1. DOMAIN StopTimes = 1 .. M /\ M \in Nat
  OBVIOUS
<1>2. \A j \in 1 .. M : TripOf(j) \in Nat
  <2> TAKE j \in 1 .. M
  <2>1. TripOf(j) \in Trips
    BY <1>1, TripOfIs
  <2> QED BY <2>1 DEF Trips
<1>3. SUFFICES ASSUME Bad # {} PROVE FALSE
  BY <1>1
<1>4. PICK j \in Bad : \A k \in Bad : j <= k
  <2>1. Bad \in SUBSET Nat
    BY <1>1
  <2> HIDE DEF Bad
  <2> QED BY <1>3, <2>1, LeastExists
<1>5. j \in 1 .. M /\ i <= j /\ ~(TripOf(i) <= TripOf(j)) /\ i # j
  BY <1>1, <1>2
<1>6. j - 1 \in 1 .. M /\ i <= j - 1 /\ j - 1 \notin Bad
  BY <1>1, <1>4, <1>5
<1>7. TripOf(i) <= TripOf(j - 1)
  BY <1>6
<1>8. TripOf(j - 1) <= TripOf(j)
  <2>1. \A k \in DOMAIN StopTimes : k > 1 =>
            TripIndex(StopTimes[k - 1].trip) <= TripIndex(StopTimes[k].trip)
    BY Zenon DEF StopTimesLoad
  <2>2. j \in DOMAIN StopTimes /\ j > 1
    BY <1>1, <1>5, <1>6
  <2> QED BY <2>1, <2>2 DEF TripOf
<1> QED BY <1>1, <1>2, <1>5, <1>6, <1>7, <1>8

\* An offset divides the rows of the earlier trips from those of the later ones.
LEMMA OffsetIs ==
  ASSUME TripsLoad, StopTimesLoad, StopTimes \in Seq(ToSet(StopTimes)),
         files["trips"] \in Seq(ToSet(files["trips"])),
         NEW t \in 1 .. Len(files["trips"]) + 1
  PROVE  /\ TripOffsets[t] \in 0 .. Len(StopTimes)
         /\ \A e \in DOMAIN StopTimes : TripOf(e) >= t <=> e > TripOffsets[t]
<1> DEFINE M == Len(StopTimes)
           later == {e \in DOMAIN StopTimes : TripOf(e) >= t}
<1>1. DOMAIN StopTimes = 1 .. M /\ M \in Nat
  OBVIOUS
<1>2. TripOffsets[t] = IF later = {} THEN M ELSE Min(later) - 1
  BY DEF TripOffsets, TripOf
<1>3. CASE later = {}
  BY <1>1, <1>2, <1>3
<1>4. CASE later # {}
  <2>1. PICK least \in later : \A e \in later : least <= e
    <3>1. later \in SUBSET Nat
      BY <1>1
    <3> HIDE DEF later
    <3> QED BY <1>4, <3>1, LeastExists
  <2>2. Min(later) \in later /\ \A e \in later : Min(later) <= e
    BY <2>1 DEF Min
  <2>3. TripOffsets[t] = Min(later) - 1 /\ Min(later) \in 1 .. M
    BY <1>1, <1>2, <1>4, <2>2
  <2>4. \A e \in DOMAIN StopTimes : Min(later) <= e => TripOf(e) >= t
    <3> TAKE e \in DOMAIN StopTimes
    <3> HAVE Min(later) <= e
    <3>1. TripOf(Min(later)) <= TripOf(e) /\ TripOf(Min(later)) >= t
      BY <2>2, RowsAreSorted
    <3>2. TripOf(Min(later)) \in Trips /\ TripOf(e) \in Trips /\ Trips = DOMAIN files["trips"]
      BY <2>2, TripOfIs DEF Trips
    <3> QED BY <3>1, <3>2
  <2>5. \A e \in DOMAIN StopTimes : TripOf(e) >= t => Min(later) <= e
    BY <2>2
  <2> HIDE DEF later
  <2> QED BY <1>1, <2>3, <2>4, <2>5
<1> QED BY <1>3, <1>4

\* The offsets cut stop_times into the rows of each trip, whichever have none.
LEMMA OffsetsCut ==
  ASSUME TripsLoad, StopTimesLoad, StopTimes \in Seq(ToSet(StopTimes)),
         files["trips"] \in Seq(ToSet(files["trips"])), NEW t \in Trips
  PROVE  {e \in DOMAIN StopTimes : StopTimes[e].trip = Trip(t).id}
            = TripOffsets[t] + 1 .. TripOffsets[t + 1]
<1>1. /\ t \in 1 .. Len(files["trips"]) + 1 /\ t + 1 \in 1 .. Len(files["trips"]) + 1
      /\ t \in Nat /\ Trips = 1 .. Len(files["trips"]) /\ Len(files["trips"]) \in Nat
  BY DEF Trips
<1>2. /\ TripOffsets[t] \in 0 .. Len(StopTimes) /\ TripOffsets[t + 1] \in 0 .. Len(StopTimes)
      /\ \A e \in DOMAIN StopTimes : TripOf(e) >= t <=> e > TripOffsets[t]
      /\ \A e \in DOMAIN StopTimes : TripOf(e) >= t + 1 <=> e > TripOffsets[t + 1]
  BY <1>1, OffsetIs
<1>3. \A e \in DOMAIN StopTimes :
        StopTimes[e].trip = Trip(t).id <=> TripOf(e) >= t /\ ~(TripOf(e) >= t + 1)
  <2> TAKE e \in DOMAIN StopTimes
  <2>1. TripOf(e) \in Trips /\ Trip(TripOf(e)).id = StopTimes[e].trip
    BY TripOfIs
  <2>2. StopTimes[e].trip = Trip(t).id <=> TripOf(e) = t
    BY <2>1, TripIndexIs DEF TripOf
  <2> QED BY <1>1, <2>1, <2>2
<1>4. DOMAIN StopTimes = 1 .. Len(StopTimes) /\ Len(StopTimes) \in Nat
  OBVIOUS
<1>5. \A e : (e \in DOMAIN StopTimes /\ StopTimes[e].trip = Trip(t).id)
                <=> e \in TripOffsets[t] + 1 .. TripOffsets[t + 1]
  <2> TAKE e
  <2>1. CASE e \in DOMAIN StopTimes
    <3>1. e \in Nat
      BY <1>4, <2>1
    <3>2. e > TripOffsets[t] /\ ~(e > TripOffsets[t + 1])
             <=> e \in TripOffsets[t] + 1 .. TripOffsets[t + 1]
      BY <1>2, <3>1
    <3> QED BY <1>2, <1>3, <2>1, <3>2
  <2>2. CASE e \notin DOMAIN StopTimes
    BY <1>2, <1>4, <2>2
  <2> QED BY <2>1, <2>2
<1> QED BY <1>5

-----------------------------------------------------------------------------
(* The invariant                                                           *)

\* A planner that has loaded nothing.
LEMMA PlannerStarts == Init => PlannerIInv
<1> SUFFICES ASSUME Init PROVE PlannerIInv
  OBVIOUS
<1>1. stage = LoadOrder[1] /\ 1 \in DOMAIN LoadOrder
  BY LoadOrderIs DEF Init
<1>2. \A i \in DOMAIN LoadOrder : stage = LoadOrder[i] => i = 1
  BY <1>1, LoadOrderIsInjective
<1>3. LoadedInv
  BY <1>1, <1>2 DEF LoadedInv, ToSet
<1> QED BY <1>3 DEF PlannerIInv, Init, FilesInv, OffsetsInv, QueryInv

\* A step that leaves the files, their loading and the offsets alone.
LEMMA QuietStep ==
  ASSUME PlannerIInv, UNCHANGED <<files, stage, offsets>>,
         query' # NoAnswer => stage = "ready"
  PROVE  PlannerIInv'
<1>1. \A g : Loads(g)' <=> Loads(g)
  BY LoadsKept
<1>2. LoadedInv'
  BY <1>1 DEF PlannerIInv, LoadedInv
<1>3. OffsetsInv'
  BY StopTimesKept DEF PlannerIInv, OffsetsInv
<1> QED BY <1>2, <1>3 DEF PlannerIInv, FilesInv, QueryInv

\* A query that needs stop_times loads it, or has it loaded.
LEMMA OffsetsStep ==
  ASSUME PlannerIInv, stage = "ready", StopTimesUsable, UNCHANGED <<files, stage>>,
         offsets' = TripOffsets
  PROVE  PlannerIInv'
<1>1. \A g : Loads(g)' <=> Loads(g)
  BY LoadsKept
<1>2. LoadedInv'
  BY <1>1 DEF PlannerIInv, LoadedInv
<1>3. files["stop_times"] # Unreadable /\ StopTimesLoad
  BY DEF PlannerIInv, OffsetsInv, StopTimesUsable
<1>4. OffsetsInv'
  BY <1>3, StopTimesKept DEF OffsetsInv
<1> QED BY <1>2, <1>4 DEF PlannerIInv, FilesInv, QueryInv

\* The invariant is inductive.
LEMMA PlannerSteps == PlannerIInv /\ [Next]_vars => PlannerIInv'
<1> SUFFICES ASSUME PlannerIInv, [Next]_vars PROVE PlannerIInv'
  OBVIOUS
<1>1. CASE LoadFiles
  <2>1. PICK f \in Loaders : Load(f) \/ RefuseDirectory(f)
    BY <1>1 DEF LoadFiles
  <2>2. LoadedInv' /\ stage # "ready"
    BY <2>1, LoadStep DEF PlannerIInv
  <2>3. UNCHANGED <<files, offsets, query>>
    BY <1>1, <2>1 DEF LoadFiles, Load, RefuseDirectory, searchVars
  <2> QED BY <2>2, <2>3 DEF PlannerIInv, FilesInv, OffsetsInv, QueryInv
<1>2. CASE SearchStep
  <2>1. UNCHANGED <<files, stage, offsets>> /\ query' \in {query, NoAnswer}
    <3>1. CASE BoardAtOrigin
      BY <3>1, Zenon DEF BoardAtOrigin
    <3>2. CASE GiveUp
      BY <3>2, Zenon DEF GiveUp, Return
    <3>3. ASSUME NEW id \in queue, SkipStale(id) \/ Arrive(id) \/ Expand(id) \/ RefuseTransfer(id)
          PROVE  UNCHANGED <<files, stage, offsets>> /\ query' \in {query, NoAnswer}
      BY <3>3, Zenon DEF SkipStale, Arrive, Expand, RefuseTransfer, Return
    <3> QED BY <1>2, <3>1, <3>2, <3>3, Zenon DEF SearchStep
  <2> QED BY <2>1, QuietStep DEF PlannerIInv, QueryInv
<1>3. ASSUME NEW q \in Queries, RejectQuery(q) \/ AnswerTrivially(q)
      PROVE  PlannerIInv'
  <2>1. UNCHANGED <<files, stage, offsets, query>>
    BY <1>3 DEF RejectQuery, AnswerTrivially, searchVars
  <2> QED BY <2>1, QuietStep DEF PlannerIInv, QueryInv
<1>4. ASSUME NEW q \in Queries, FindDirect(q) \/ FindEarliest(q)
      PROVE  PlannerIInv'
  <2>1. stage = "ready" /\ StopTimesUsable /\ UNCHANGED <<files, stage>> /\ offsets' = TripOffsets
    BY <1>4 DEF FindDirect, FindEarliest, Idle
  <2> QED BY <2>1, OffsetsStep
<1>5. CASE UNCHANGED vars
  <2>1. UNCHANGED <<files, stage, offsets, query>>
    BY <1>5 DEF vars, searchVars
  <2> QED BY <2>1, QuietStep DEF PlannerIInv, QueryInv
<1> QED BY <1>1, <1>2, <1>3, <1>4, <1>5 DEF Next, Ask

\* The invariant holds in every state of the planner.
THEOREM PlannerInvariant == Spec => []PlannerIInv
BY PlannerStarts, PlannerSteps, PTL DEF Spec

\* A planner that answers has accepted each of its files (local_gtfs.py: __init__).
THEOREM ReadyIsLoadedTheorem == Spec => []ReadyIsLoaded
<1>1. PlannerIInv => ReadyIsLoaded
  BY ReadyHasLoaded DEF PlannerIInv
<1> QED BY <1>1, PlannerInvariant, PTL

\* What the invariant says of a state.
LEMMA AcceptedIsWhole == PlannerIInv => AcceptedScheduleIsWhole
<1> SUFFICES ASSUME PlannerIInv PROVE AcceptedScheduleIsWhole
  OBVIOUS
<1>1. ASSUME stage = "ready"
      PROVE  TripsLoad /\ files["trips"] \in Seq(ToSet(files["trips"]))
  BY <1>1, TripsAreLoaded, ReadableIsSequence DEF PlannerIInv
<1>2. ASSUME offsets # <<>>, NEW t \in Trips
      PROVE  {e \in DOMAIN StopTimes : StopTimes[e].trip = Trip(t).id}
                = offsets[t] + 1 .. offsets[t + 1]
  <2>1. /\ stage = "ready" /\ files["stop_times"] # Unreadable /\ StopTimesLoad
        /\ offsets = TripOffsets
    BY <1>2 DEF PlannerIInv, OffsetsInv
  <2>2. StopTimes \in Seq(ToSet(StopTimes))
    BY <2>1, ReadableIsSequence DEF PlannerIInv, StopTimes
  <2> QED BY <1>1, <2>1, <2>2, OffsetsCut
<1>3. ASSUME stage = "ready", NEW t \in Trips
      PROVE  Trip(t).route \in Ids("routes")
  <2>1. Trip(t) \in Rows("trips")
    BY DEF Trips, Trip, Rows, ToSet
  <2> QED BY <1>1, <1>3, <2>1 DEF TripsLoad
<1>4. ASSUME stage = "ready"
      PROVE  TransfersLoad /\ PathwaysLoad
  <2>1. Loads("transfers") /\ Loads("pathways")
    BY <1>4, ReadyHasLoaded, LoadOrderIs DEF ReadyIsLoaded, PlannerIInv
  <2> QED BY <2>1 DEF Loads
<1>5. ASSUME stage = "ready", NEW r \in Rows("transfers")
      PROVE  /\ {r.from, r.to} \subseteq Ids("stops")
             /\ Platforms(r.from) # {} /\ Platforms(r.to) # {}
  BY <1>4, <1>5 DEF TransfersLoad
<1>6. ASSUME stage = "ready", NEW p \in Rows("pathways"), NEW s \in {p.from, p.to}
      PROVE  s \in Ids("stops") /\ LocationType(s) # 1 /\ Row("stops", s).access # 1
  BY <1>4, <1>6 DEF PathwaysLoad
<1> QED BY <1>2, <1>3, <1>5, <1>6, Zenon DEF AcceptedScheduleIsWhole

\* What the constructor and the first query accept is whole (local_gtfs.py:
\* _load_trips, _load_transfers, _load_pathways, _load_stop_time_index): the offsets
\* cut stop_times into the trips' own rows, every trip has its route, transfers are
\* between known stops with platforms, pathways between known stops of a station.
THEOREM AcceptedIsWholeTheorem == Spec => []AcceptedScheduleIsWhole
BY AcceptedIsWhole, PlannerInvariant, PTL
-----------------------------------------------------------------------------
(* The walks inside a station                                              *)

Nodes == Ids("stops")

\* The timed pathways of a file that was accepted lead from stop to stop.
LEMMA EdgesAre ==
  ASSUME PathwaysLoad, NEW e \in PathwayEdges
  PROVE  e.from \in Nodes /\ e.to \in Nodes /\ e.seconds \in Nat /\ e.seconds > 0
<1>1. PICK p \in Rows("pathways") :
        /\ p.seconds # Blank
        /\ \/ e = [from |-> p.from, to |-> p.to, seconds |-> p.seconds]
           \/ e = [from |-> p.to, to |-> p.from, seconds |-> p.seconds]
  BY DEF PathwayEdges
<1>2. /\ p.from \in Nodes /\ p.to \in Nodes
      /\ p.seconds = Blank \/ (IsCount(p.seconds) /\ p.seconds > 0)
  BY DEF PathwaysLoad, Nodes
<1> QED BY <1>1, <1>2 DEF IsCount

\* The seconds of the stops that are done with are final: each is reached by
\* a way over such stops, and the stops next to them are open or done with.
IsReached(s, p) == s.seconds[p] # Unreached

IsSearched(s, done, from) ==
    /\ s = [open |-> s.open, seconds |-> s.seconds]
    /\ s.open \in SUBSET Nodes /\ done \in SUBSET Nodes /\ s.open \cap done = {}
    /\ s.seconds \in [Nodes -> Nat \cup {Unreached}]
    /\ from \in s.open \cup done /\ s.seconds[from] = 0
    /\ \A p \in Nodes : IsReached(s, p) <=> p \in s.open \cup done
    /\ \A p \in done, q \in s.open : s.seconds[p] <= s.seconds[q]
    /\ \A e \in PathwayEdges : e.from \in done =>
        IsReached(s, e.to) /\ s.seconds[e.to] <= s.seconds[e.from] + e.seconds
    /\ \A p \in Nodes : IsReached(s, p) /\ p # from => \E e \in PathwayEdges :
        e.to = p /\ e.from \in done /\ s.seconds[p] = s.seconds[e.from] + e.seconds

\* A search begins at the stop it is from.
LEMMA SearchBegins ==
  ASSUME NEW from \in Nodes
  PROVE  IsSearched([open |-> {from},
                     seconds |-> [p \in Nodes |-> IF p = from THEN 0 ELSE Unreached]],
                    {}, from)
BY DEF IsSearched, IsReached, Unreached

\* A turn of the search is done with one more stop.
LEMMA SettleKeeps ==
  ASSUME PathwaysLoad, NEW from \in Nodes, NEW done, NEW s, IsSearched(s, done, from),
         s.open # {}
  PROVE  \E here \in Nodes \ done : IsSearched(Settle(s), done \cup {here}, from)
<1> DEFINE here == CHOOSE p \in s.open : \A q \in s.open : s.seconds[p] <= s.seconds[q]
           Via(e) == s.seconds[here] + e.seconds
           better == {e \in PathwayEdges :
                        /\ e.from = here
                        /\ s.seconds[e.to] = Unreached \/ Via(e) < s.seconds[e.to]}
           reached == {e.to : e \in better}
           Least(p) == Min({Via(e) : e \in {x \in better : x.to = p}})
           then == Settle(s)
<1>1. /\ then.open = (s.open \ {here}) \cup reached
      /\ then.seconds = [p \in Nodes |-> IF p \in reached THEN Least(p) ELSE s.seconds[p]]
      /\ then = [open |-> then.open, seconds |-> then.seconds]
  BY DEF Settle, Nodes
<1>2. here \in s.open /\ \A q \in s.open : s.seconds[here] <= s.seconds[q]
  <2> DEFINE S == {s.seconds[p] : p \in s.open}
  <2>1. \A p \in s.open : s.seconds[p] \in Nat
    BY DEF IsSearched, IsReached
  <2>2. S \in SUBSET Nat /\ S # {}
    BY <2>1
  <2>3. PICK x \in S : \A y \in S : x <= y
    <3> HIDE DEF S
    <3> QED BY <2>2, LeastExists
  <2>4. \E p \in s.open : \A q \in s.open : s.seconds[p] <= s.seconds[q]
    BY <2>3
  <2> QED BY <2>4
<1>3. /\ here \in Nodes \ done /\ s.seconds[here] \in Nat
      /\ \A p \in done : s.seconds[p] \in Nat /\ s.seconds[p] <= s.seconds[here]
  BY <1>2 DEF IsSearched, IsReached
<1> HIDE DEF here, then
<1>4. \A e \in PathwayEdges : Via(e) \in Nat /\ Via(e) > s.seconds[here]
  <2> TAKE e \in PathwayEdges
  <2>1. e.seconds \in Nat /\ e.seconds > 0
    BY EdgesAre
  <2> QED BY <1>3, <2>1
<1>5. ASSUME NEW p \in reached
      PROVE  \E e \in better : /\ e.to = p /\ Least(p) = Via(e)
                               /\ \A x \in better : x.to = p => Least(p) <= Via(x)
  <2> DEFINE S == {Via(e) : e \in {x \in better : x.to = p}}
  <2>1. S \in SUBSET Nat /\ S # {}
    BY <1>4
  <2>2. PICK x \in S : \A y \in S : x <= y
    <3> HIDE DEF S
    <3> QED BY <2>1, LeastExists
  <2>3. Min(S) \in S /\ \A y \in S : Min(S) <= y
    <3> HIDE DEF S
    <3> QED BY <2>2 DEF Min
  <2> QED BY <2>3
<1>6. \A p \in reached : /\ p \in Nodes \ (done \cup {here})
                         /\ Least(p) \in Nat /\ Least(p) > s.seconds[here]
                         /\ s.seconds[p] # Unreached => Least(p) < s.seconds[p]
  <2> TAKE p \in reached
  <2>1. PICK e \in better : /\ e.to = p /\ Least(p) = Via(e)
    BY <1>5
  <2>2. /\ e \in PathwayEdges /\ e.from = here
        /\ s.seconds[e.to] = Unreached \/ Via(e) < s.seconds[e.to]
    OBVIOUS
  <2>3. p \in Nodes /\ Least(p) \in Nat /\ Least(p) > s.seconds[here]
    BY <1>4, <2>1, <2>2, EdgesAre
  <2> HIDE DEF Least, Via, better, reached
  <2>4. s.seconds[p] # Unreached => Least(p) < s.seconds[p]
    BY <2>1, <2>2
  <2>5. p \in done \cup {here} => FALSE
    <3> HAVE p \in done \cup {here}
    <3>1. s.seconds[p] \in Nat /\ s.seconds[p] <= s.seconds[here]
      BY <1>3
    <3>2. s.seconds[p] # Unreached
      BY <3>1 DEF Unreached
    <3> QED BY <1>3, <2>3, <2>4, <3>1, <3>2
  <2> QED BY <2>3, <2>4, <2>5
<1>7. \A p \in Nodes : then.seconds[p] = IF p \in reached THEN Least(p) ELSE s.seconds[p]
  BY <1>1
<1>8. \A p \in done \cup {here} : then.seconds[p] = s.seconds[p]
  BY <1>3, <1>6, <1>7 DEF IsSearched
<1>9. ASSUME NEW e \in PathwayEdges, e.from = here
      PROVE  /\ e.to \in reached => Least(e.to) <= Via(e)
             /\ e.to \notin reached => s.seconds[e.to] # Unreached /\ s.seconds[e.to] <= Via(e)
  <2>1. e \in better => e.to \in reached /\ Least(e.to) <= Via(e)
    BY <1>5
  <2>2. e \notin better => s.seconds[e.to] # Unreached /\ ~(Via(e) < s.seconds[e.to])
    BY <1>9
  <2>3. e.to \in Nodes /\ s.seconds[e.to] \in Nat \cup {Unreached}
    BY EdgesAre DEF IsSearched
  <2>4. e \notin better => s.seconds[e.to] \in Nat /\ s.seconds[e.to] <= Via(e)
    <3> HIDE DEF Via, better
    <3> QED BY <1>4, <2>2, <2>3
  <2>5. e.to \in reached => Least(e.to) <= Via(e)
    <3> SUFFICES ASSUME e.to \in reached, e \notin better PROVE Least(e.to) <= Via(e)
      BY <2>1
    <3>1. Least(e.to) \in Nat /\ Least(e.to) < s.seconds[e.to]
      BY <1>6, <2>2
    <3> HIDE DEF Least, Via, better, reached
    <3> QED BY <1>4, <2>4, <3>1
  <2> QED BY <2>1, <2>2, <2>4, <2>5
<1>10. ASSUME NEW p \in reached
       PROVE  \E e \in PathwayEdges : e.to = p /\ e.from = here /\ Least(p) = Via(e)
  BY <1>5
<1> HIDE DEF Least, better, reached, Via
<1>11. \A p \in Nodes : then.seconds[p] \in Nat \cup {Unreached}
  BY <1>6, <1>7 DEF IsSearched
<1>12. \A p \in Nodes : IsReached(then, p) <=> IsReached(s, p) \/ p \in reached
  BY <1>6, <1>7 DEF IsReached, Unreached
<1>13. /\ then.open \in SUBSET Nodes /\ done \cup {here} \in SUBSET Nodes
       /\ then.open \cap (done \cup {here}) = {}
       /\ from \in then.open \cup (done \cup {here}) /\ then.seconds[from] = 0
  <2>1. from # here => from \in s.open \cup done
    BY DEF IsSearched
  <2>2. then.seconds[from] = 0
    <3>1. s.seconds[from] = 0
      BY DEF IsSearched
    <3>2. from \notin reached
      BY <1>3, <1>6, <3>1 DEF Unreached
    <3> QED BY <1>7, <3>1, <3>2
  <2> QED BY <1>1, <1>3, <1>6, <2>1, <2>2 DEF IsSearched
<1>14. \A p \in Nodes : IsReached(then, p) <=> p \in then.open \cup (done \cup {here})
  BY <1>1, <1>2, <1>3, <1>6, <1>12 DEF IsSearched
<1>15. \A p \in done \cup {here}, q \in then.open : then.seconds[p] <= then.seconds[q]
  <2> TAKE p \in done \cup {here}, q \in then.open
  <2>1. then.seconds[p] \in Nat /\ then.seconds[p] <= s.seconds[here]
    BY <1>3, <1>8
  <2>2. then.seconds[q] \in Nat /\ s.seconds[here] <= then.seconds[q]
    <3>1. CASE q \in reached
      BY <1>3, <1>6, <1>7, <3>1
    <3>2. CASE q \notin reached
      <4>1. q \in s.open /\ then.seconds[q] = s.seconds[q]
        BY <1>1, <1>7, <3>2 DEF IsSearched
      <4>2. s.seconds[q] \in Nat
        BY <4>1 DEF IsSearched, IsReached
      <4> QED BY <1>2, <4>1, <4>2
    <3> QED BY <3>1, <3>2
  <2> QED BY <1>3, <2>1, <2>2
<1>16. ASSUME NEW e \in PathwayEdges, e.from \in done \cup {here}
       PROVE  IsReached(then, e.to) /\ then.seconds[e.to] <= then.seconds[e.from] + e.seconds
  <2>1. e.to \in Nodes /\ then.seconds[e.from] = s.seconds[e.from]
    BY <1>8, <1>16, EdgesAre
  <2>2. CASE e.from = here
    BY <1>9, <1>7, <1>12, <2>1, <2>2 DEF IsReached, Via
  <2>3. CASE e.from # here
    <3>1. IsReached(s, e.to) /\ s.seconds[e.to] <= s.seconds[e.from] + e.seconds
      BY <1>16, <2>3 DEF IsSearched
    <3>2. then.seconds[e.to] \in Nat /\ s.seconds[e.to] \in Nat
          /\ then.seconds[e.to] <= s.seconds[e.to]
      BY <1>6, <1>7, <2>1, <3>1 DEF IsReached, IsSearched
    <3>3. s.seconds[e.from] + e.seconds \in Nat
      BY <1>3, <1>16, <2>3, EdgesAre
    <3> QED BY <1>12, <2>1, <3>1, <3>2, <3>3
  <2> QED BY <2>2, <2>3
<1>17. ASSUME NEW p \in Nodes, IsReached(then, p), p # from
       PROVE  \E e \in PathwayEdges : /\ e.to = p /\ e.from \in done \cup {here}
                                      /\ then.seconds[p] = then.seconds[e.from] + e.seconds
  <2>1. CASE p \in reached
    BY <1>7, <1>8, <1>10, <2>1 DEF Via
  <2>2. CASE p \notin reached
    <3>1. IsReached(s, p) /\ then.seconds[p] = s.seconds[p]
      BY <1>7, <1>12, <1>17, <2>2
    <3> QED BY <1>8, <1>17, <3>1 DEF IsSearched
  <2> QED BY <2>1, <2>2
<1>18. then.seconds \in [Nodes -> Nat \cup {Unreached}]
  BY <1>1, <1>11
<1>19. IsSearched(then, done \cup {here}, from)
  BY <1>1, <1>13, <1>14, <1>15, <1>16, <1>17, <1>18, Zenon DEF IsSearched
<1> QED BY <1>3, <1>19 DEF then

\* Dijkstra's search as a function of the number of turns.
WalkStart(from) ==
    [open |-> {from}, seconds |-> [p \in Nodes |-> IF p = from THEN 0 ELSE Unreached]]

IsRun(run, from, N) ==
    run = [n \in 0 .. N |->
            IF n = 0 THEN WalkStart(from)
            ELSE IF run[n - 1].open = {} THEN run[n - 1] ELSE Settle(run[n - 1])]

\* There is such a function, for every number of turns.
LEMMA RunsExist ==
  ASSUME NEW from, NEW N \in Nat
  PROVE  \E run : IsRun(run, from, N)
<1> DEFINE Bad == {n \in 0 .. N : ~\E run : IsRun(run, from, n)}
<1>1. SUFFICES ASSUME Bad # {} PROVE FALSE
  OBVIOUS
<1>2. PICK n \in Bad : \A m \in Bad : n <= m
  <2>1. Bad \in SUBSET Nat
    OBVIOUS
  <2> HIDE DEF Bad
  <2> QED BY <1>1, <2>1, LeastExists
<1>3. n \in 0 .. N /\ ~\E run : IsRun(run, from, n)
  OBVIOUS
<1>4. CASE n = 0
  <2> DEFINE run == [i \in 0 .. 0 |-> WalkStart(from)]
  <2>1. run = [i \in 0 .. 0 |->
            IF i = 0 THEN WalkStart(from)
            ELSE IF run[i - 1].open = {} THEN run[i - 1] ELSE Settle(run[i - 1])]
    OBVIOUS
  <2> HIDE DEF run
  <2> QED BY <1>3, <1>4, <2>1 DEF IsRun
<1>5. CASE n # 0
  <2>1. n - 1 \in 0 .. N /\ n - 1 \notin Bad
    BY <1>2, <1>3, <1>5
  <2>2. PICK run : IsRun(run, from, n - 1)
    BY <2>1
  <2> DEFINE last == IF run[n - 1].open = {} THEN run[n - 1] ELSE Settle(run[n - 1])
             more == [i \in 0 .. n |-> IF i = n THEN last ELSE run[i]]
  <2>3. \A i \in 0 .. n : more[i] =
            IF i = 0 THEN WalkStart(from)
            ELSE IF more[i - 1].open = {} THEN more[i - 1] ELSE Settle(more[i - 1])
    <3> TAKE i \in 0 .. n
    <3>1. CASE i = n
      <4>1. more[n] = last /\ more[n - 1] = run[n - 1]
        BY <1>3, <1>5
      <4> QED BY <1>5, <3>1, <4>1
    <3>2. CASE i # n
      <4>1. i \in 0 .. n - 1 /\ more[i] = run[i]
        BY <1>3, <3>2
      <4>2. run[i] = IF i = 0 THEN WalkStart(from)
                     ELSE IF run[i - 1].open = {} THEN run[i - 1] ELSE Settle(run[i - 1])
        BY <2>2, <4>1 DEF IsRun
      <4>3. i # 0 => more[i - 1] = run[i - 1]
        BY <1>3, <4>1
      <4> HIDE DEF more, last
      <4> QED BY <4>1, <4>2, <4>3
    <3> QED BY <3>1, <3>2
  <2>4. IsRun(more, from, n)
    <3> HIDE DEF last
    <3> QED BY <2>3 DEF IsRun
  <2> QED BY <1>3, <2>4
<1> QED BY <1>4, <1>5

\* After n turns the search is over, or n stops are done with.
LEMMA RunsSettle ==
  ASSUME PathwaysLoad, NEW from \in Nodes, IsFiniteSet(Nodes), NEW N \in Nat, NEW run,
         IsRun(run, from, N)
  PROVE  \A n \in 0 .. N : \E done : /\ IsSearched(run[n], done, from)
                                     /\ run[n].open = {} \/ Cardinality(done) = n
<1> DEFINE Good(n) == \E done : /\ IsSearched(run[n], done, from)
                                /\ run[n].open = {} \/ Cardinality(done) = n
           Bad == {n \in 0 .. N : ~Good(n)}
<1>1. SUFFICES ASSUME Bad # {} PROVE FALSE
  OBVIOUS
<1>2. PICK n \in Bad : \A m \in Bad : n <= m
  <2>1. Bad \in SUBSET Nat
    OBVIOUS
  <2> HIDE DEF Bad
  <2> QED BY <1>1, <2>1, LeastExists
<1>3. n \in 0 .. N /\ ~Good(n) /\ (n # 0 => n - 1 \in 0 .. N /\ Good(n - 1))
  BY <1>2
<1>4. /\ run[0] = WalkStart(from)
      /\ n # 0 => run[n] = IF run[n - 1].open = {} THEN run[n - 1] ELSE Settle(run[n - 1])
  <2>1. n \in 0 .. N
    BY <1>3
  <2>2. \A i \in 0 .. N : run[i] =
            IF i = 0 THEN WalkStart(from)
            ELSE IF run[i - 1].open = {} THEN run[i - 1] ELSE Settle(run[i - 1])
    BY DEF IsRun
  <2> HIDE DEF Good, Bad
  <2> QED BY <2>1, <2>2
<1>5. CASE n = 0
  <2>1. IsSearched(run[0], {}, from)
    BY <1>4, SearchBegins DEF WalkStart
  <2> QED BY <1>3, <1>5, <2>1, FS_EmptySet
<1>6. CASE n # 0
  <2>1. PICK done : /\ IsSearched(run[n - 1], done, from)
                    /\ run[n - 1].open = {} \/ Cardinality(done) = n - 1
    BY <1>3, <1>6
  <2>2. CASE run[n - 1].open = {}
    BY <1>3, <1>4, <1>6, <2>1, <2>2
  <2>3. CASE run[n - 1].open # {}
    <3>1. PICK here \in Nodes \ done : IsSearched(Settle(run[n - 1]), done \cup {here}, from)
      BY <2>1, <2>3, SettleKeeps
    <3>2. done \in SUBSET Nodes
      BY <2>1 DEF IsSearched
    <3>3. IsFiniteSet(done) /\ Cardinality(done) = n - 1
      BY <2>1, <2>3, <3>2, FS_Subset
    <3>4. Cardinality(done \cup {here}) = n
      <4>1. Cardinality(done \cup {here}) = Cardinality(done) + 1
        BY <3>1, <3>3, FS_AddElement
      <4>2. n \in Int
        BY <1>3
      <4> HIDE DEF Good, Bad
      <4> QED BY <3>3, <4>1, <4>2
    <3> QED BY <1>3, <1>4, <1>6, <2>3, <3>1, <3>4
  <2> QED BY <2>2, <2>3
<1> QED BY <1>5, <1>6

\* The result of the search is that of a search with nothing open.
LEMMA ShortestIsSearched ==
  ASSUME PathwaysLoad, NEW from \in Nodes, IsFiniteSet(Nodes)
  PROVE  \E s, done : /\ IsSearched(s, done, from) /\ s.open = {}
                      /\ ShortestSeconds(from) = s.seconds
<1> DEFINE N == Cardinality(Nodes)
           run == CHOOSE f : f = [n \in 0 .. N |->
                    IF n = 0 THEN WalkStart(from)
                    ELSE IF f[n - 1].open = {} THEN f[n - 1] ELSE Settle(f[n - 1])]
<1>1. N \in Nat
  BY FS_CardinalityType
<1>2. ShortestSeconds(from) = run[N].seconds
  BY Zenon DEF ShortestSeconds, WalkStart, Nodes
<1>3. IsRun(run, from, N)
  <2>1. \E f : f = [n \in 0 .. N |->
                    IF n = 0 THEN WalkStart(from)
                    ELSE IF f[n - 1].open = {} THEN f[n - 1] ELSE Settle(f[n - 1])]
    <3>1. PICK f : IsRun(f, from, N)
      BY <1>1, RunsExist
    <3> QED BY <3>1, Zenon DEF IsRun
  <2> QED BY <2>1, Zenon DEF IsRun
<1> HIDE DEF run
<1>4. PICK done : /\ IsSearched(run[N], done, from)
                  /\ run[N].open = {} \/ Cardinality(done) = N
  <2> HIDE DEF N
  <2> QED BY <1>1, <1>3, RunsSettle
<1>5. run[N].open = {}
  <2> SUFFICES ASSUME Cardinality(done) = N PROVE run[N].open = {}
    BY <1>4
  <2>1. /\ done \in SUBSET Nodes /\ run[N].open \in SUBSET Nodes
        /\ run[N].open \cap done = {}
    BY <1>4 DEF IsSearched
  <2>2. done = Nodes
    BY <2>1, FS_Subset
  <2> QED BY <2>1, <2>2
<1> QED BY <1>2, <1>4, <1>5

\* What is said of every stop.
LEMMA WalksOf ==
  ASSUME PathwaysLoad, NEW from \in Nodes, IsFiniteSet(Nodes)
  PROVE  /\ ShortestSeconds(from)[from] = 0
         /\ \A e \in PathwayEdges : ShortestSeconds(from)[e.from] # Unreached =>
                ShortestSeconds(from)[e.to] \in 0 .. (ShortestSeconds(from)[e.from] + e.seconds)
         /\ \A p \in Nodes \ {from} : ShortestSeconds(from)[p] # Unreached =>
                \E e \in PathwayEdges :
                    /\ ShortestSeconds(from)[e.from] # Unreached /\ e.to = p
                    /\ ShortestSeconds(from)[p] = ShortestSeconds(from)[e.from] + e.seconds
<1>1. PICK s, done : /\ IsSearched(s, done, from) /\ s.open = {}
                     /\ ShortestSeconds(from) = s.seconds
  BY ShortestIsSearched
<1>2. /\ \A p \in Nodes : IsReached(s, p) <=> p \in done
      /\ s.seconds \in [Nodes -> Nat \cup {Unreached}]
      /\ \A e \in PathwayEdges : e.from \in done =>
            IsReached(s, e.to) /\ s.seconds[e.to] <= s.seconds[e.from] + e.seconds
      /\ \A p \in Nodes : IsReached(s, p) /\ p # from => \E e \in PathwayEdges :
            e.to = p /\ e.from \in done /\ s.seconds[p] = s.seconds[e.from] + e.seconds
      /\ s.seconds[from] = 0
  BY <1>1 DEF IsSearched
<1>3. ASSUME NEW e \in PathwayEdges, s.seconds[e.from] # Unreached
      PROVE  s.seconds[e.to] \in 0 .. (s.seconds[e.from] + e.seconds)
  <2>1. e.from \in Nodes /\ e.to \in Nodes /\ e.seconds \in Nat
    BY EdgesAre
  <2>2. IsReached(s, e.to) /\ s.seconds[e.to] <= s.seconds[e.from] + e.seconds
    BY <1>2, <1>3, <2>1 DEF IsReached
  <2>3. s.seconds[e.to] \in Nat /\ s.seconds[e.from] \in Nat
    BY <1>2, <1>3, <2>1, <2>2 DEF IsReached
  <2> QED BY <2>1, <2>2, <2>3
<1>4. ASSUME NEW p \in Nodes \ {from}, s.seconds[p] # Unreached
      PROVE  \E e \in PathwayEdges : /\ s.seconds[e.from] # Unreached /\ e.to = p
                                     /\ s.seconds[p] = s.seconds[e.from] + e.seconds
  <2>1. PICK e \in PathwayEdges :
            e.to = p /\ e.from \in done /\ s.seconds[p] = s.seconds[e.from] + e.seconds
    BY <1>2, <1>4 DEF IsReached
  <2>2. e.from \in Nodes
    BY EdgesAre
  <2> QED BY <1>2, <2>1, <2>2 DEF IsReached
<1> QED BY <1>1, <1>2, <1>3, <1>4

\* The files that the walks are made of were accepted.
LEMMA PathwaysAreLoaded ==
  ASSUME PlannerIInv, stage = "ready"
  PROVE  PathwaysLoad /\ IsFiniteSet(Nodes)
<1>1. "pathways" \in Loaders /\ "stops" \in Loaders
  BY LoadOrderIs
<1>2. Loads("pathways") /\ Loads("stops")
  BY <1>1, ReadyHasLoaded DEF ReadyIsLoaded, PlannerIInv
<1>3. PathwaysLoad
  BY <1>2, Zenon DEF Loads
<1>4. files["stops"] # Unreadable
  BY <1>2, Zenon DEF Loads
<1>5. files["stops"] \in Seq(ToSet(files["stops"]))
  BY <1>4, ReadableIsSequence DEF PlannerIInv
<1> DEFINE n == Len(files["stops"])
           id == [i \in 1 .. n |-> files["stops"][i].id]
<1>6. n \in Nat /\ DOMAIN files["stops"] = 1 .. n
  BY <1>5
<1>7. Nodes = {id[i] : i \in 1 .. n}
  BY <1>6 DEF Nodes, Ids, Rows, ToSet
<1>8. id \in Surjection(1 .. n, Nodes)
  BY <1>7 DEF Surjection
<1>9. IsFiniteSet(1 .. n)
  BY <1>6, FS_Interval
<1> QED BY <1>3, <1>8, <1>9, FS_Surjection

\* The walks inside a station are the shortest ones (local_gtfs.py,
\* _pathway_paths_from): no pathway leads to a platform sooner, and each
\* platform that is reached is reached by one.
THEOREM WalksAreShortestTheorem == Spec => []WalksAreShortest
<1>1. PlannerIInv => WalksAreShortest
  <2> SUFFICES ASSUME PlannerIInv, stage = "ready", NEW from \in Nodes
               PROVE  LET seconds == ShortestSeconds(from)
                          Via(e) == seconds[e.from] + e.seconds
                          usable == {e \in PathwayEdges : seconds[e.from] # Unreached}
                      IN  /\ seconds[from] = 0
                          /\ \A e \in usable : seconds[e.to] \in 0 .. Via(e)
                          /\ \A p \in Nodes \ {from} : seconds[p] # Unreached =>
                                \E e \in usable : e.to = p /\ seconds[p] = Via(e)
    BY Zenon DEF WalksAreShortest, Nodes
  <2>1. PathwaysLoad /\ IsFiniteSet(Nodes)
    BY PathwaysAreLoaded
  <2> QED BY <2>1, WalksOf
<1> QED BY <1>1, PlannerInvariant, PTL

-----------------------------------------------------------------------------
(* The schedule that a search goes through                                 *)

Schedule ==
    /\ TripsLoad /\ StopTimesLoad /\ offsets = TripOffsets
    /\ StopTimes \in Seq(ToSet(StopTimes))
    /\ files["trips"] \in Seq(ToSet(files["trips"]))

Events == DOMAIN StopTimes

\* A planner with offsets has a schedule.
LEMMA ScheduleIs ==
  ASSUME PlannerIInv, offsets # <<>>
  PROVE  Schedule
<1>1. /\ stage = "ready" /\ files["stop_times"] # Unreadable /\ StopTimesLoad
      /\ offsets = TripOffsets
  BY DEF PlannerIInv, OffsetsInv
<1>2. TripsLoad /\ files["trips"] \in Seq(ToSet(files["trips"]))
  BY <1>1, TripsAreLoaded, ReadableIsSequence DEF PlannerIInv
<1>3. StopTimes \in Seq(ToSet(StopTimes))
  BY <1>1, ReadableIsSequence DEF PlannerIInv, StopTimes
<1> QED BY <1>1, <1>2, <1>3 DEF Schedule

\* An event is at a place of its trip.
LEMMA EventIs ==
  ASSUME Schedule, NEW e \in Events
  PROVE  /\ Events = 1 .. Len(StopTimes) /\ Len(StopTimes) \in Nat
         /\ TripOf(e) \in Nat /\ TripOf(e) \in Trips
         /\ offsets[TripOf(e)] \in Nat /\ offsets[TripOf(e) + 1] \in 0 .. Len(StopTimes)
         /\ e \in offsets[TripOf(e)] + 1 .. offsets[TripOf(e) + 1]
         /\ Position(e) \in Nat /\ Event(TripOf(e), Position(e)) = e
         /\ Arrival(e) \in Nat /\ Departure(e) \in Nat
<1>1. Events = 1 .. Len(StopTimes) /\ Len(StopTimes) \in Nat
  BY DEF Schedule, Events
<1>2. TripOf(e) \in Trips
  BY TripOfIs DEF Schedule, Events
<1>3. TripOf(e) \in Nat /\ /\ TripOf(e) \in 1 .. Len(files["trips"]) + 1
                           /\ TripOf(e) + 1 \in 1 .. Len(files["trips"]) + 1
  BY <1>2 DEF Schedule, Trips
<1>4. /\ offsets[TripOf(e)] \in 0 .. Len(StopTimes)
      /\ offsets[TripOf(e) + 1] \in 0 .. Len(StopTimes)
      /\ TripOf(e) >= TripOf(e) <=> e > offsets[TripOf(e)]
      /\ TripOf(e) >= TripOf(e) + 1 <=> e > offsets[TripOf(e) + 1]
  BY <1>3, OffsetIs DEF Schedule, Events
<1>5. e \in Nat
  BY <1>1
<1>6. e \in offsets[TripOf(e)] + 1 .. offsets[TripOf(e) + 1] /\ offsets[TripOf(e)] \in Nat
  BY <1>1, <1>3, <1>4, <1>5
<1>7. Position(e) \in Nat /\ Event(TripOf(e), Position(e)) = e
  BY <1>5, <1>6 DEF Position, Event
<1>8. Arrival(e) \in Nat /\ Departure(e) \in Nat
  BY DEF Schedule, StopTimesLoad, IsCount, Arrival, Departure, Events
<1> QED BY <1>1, <1>2, <1>3, <1>4, <1>6, <1>7, <1>8

\* A trip that goes on from an event goes on to the next one.
LEMMA NextEventIs ==
  ASSUME Schedule, NEW e \in Events, Continues(e)
  PROVE  /\ e + 1 \in Events /\ TripOf(e + 1) = TripOf(e) /\ Position(e + 1) = Position(e) + 1
         /\ Arrival(e + 1) >= Departure(e)
<1>1. /\ Events = 1 .. Len(StopTimes) /\ Len(StopTimes) \in Nat
      /\ TripOf(e) \in Nat /\ TripOf(e) \in Trips
      /\ offsets[TripOf(e)] \in Nat /\ offsets[TripOf(e) + 1] \in 0 .. Len(StopTimes)
      /\ e \in offsets[TripOf(e)] + 1 .. offsets[TripOf(e) + 1]
  BY EventIs
<1>2. e < offsets[TripOf(e) + 1]
  BY <1>1 DEF Continues, Position, TripLength
<1>3. e + 1 \in Events /\ e + 1 > offsets[TripOf(e)] /\ ~(e + 1 > offsets[TripOf(e) + 1])
  BY <1>1, <1>2
<1>4. TripOf(e) \in 1 .. Len(files["trips"]) + 1 /\ TripOf(e) + 1 \in 1 .. Len(files["trips"]) + 1
  BY <1>1 DEF Schedule, Trips
<1>5. TripOf(e + 1) >= TripOf(e) /\ ~(TripOf(e + 1) >= TripOf(e) + 1)
  BY <1>3, <1>4, OffsetIs DEF Schedule, Events
<1>6. TripOf(e + 1) \in Nat
  BY <1>3, EventIs
<1>7. TripOf(e + 1) = TripOf(e)
  BY <1>1, <1>5, <1>6
<1>8. Position(e + 1) = Position(e) + 1
  <2> DEFINE o == offsets[TripOf(e)]
  <2> DEFINE f == e + 1
  <2>1. Position(f) = f - offsets[TripOf(f)] - 1 /\ Position(e) = e - offsets[TripOf(e)] - 1
    BY DEF Position
  <2>2. e \in Int /\ o \in Int
    BY <1>1
  <2>3. offsets[TripOf(f)] = o
    BY <1>7
  <2>4. Position(f) = f - o - 1 /\ Position(e) = e - o - 1
    BY <2>1, <2>3
  <2> HIDE DEF o
  <2> QED BY <2>2, <2>4
<1> QED BY <1>3, <1>7, <1>8 DEF Continues

\* Neighbours on a trip follow each other if the times do.
LEMMA ContinuesIs ==
  ASSUME Schedule, NEW e \in Events, e + 1 \in Events, TripOf(e + 1) = TripOf(e),
         Arrival(e + 1) >= Departure(e)
  PROVE  Continues(e)
<1>1. /\ e \in Nat /\ offsets[TripOf(e)] \in Nat /\ offsets[TripOf(e) + 1] \in Nat
      /\ e + 1 \in offsets[TripOf(e)] + 1 .. offsets[TripOf(e) + 1]
  <2>1. /\ offsets[TripOf(e)] \in Nat /\ offsets[TripOf(e) + 1] \in 0 .. Len(StopTimes)
        /\ Events = 1 .. Len(StopTimes) /\ Len(StopTimes) \in Nat
    BY EventIs
  <2>2. e + 1 \in offsets[TripOf(e + 1)] + 1 .. offsets[TripOf(e + 1) + 1]
    BY EventIs
  <2> QED BY <2>1, <2>2
<1> QED BY <1>1 DEF Continues, Position, TripLength

\* What lies between two events of a trip is of that trip.
LEMMA BetweenIs ==
  ASSUME Schedule, NEW e \in Events, NEW f \in Events, TripOf(e) = TripOf(f),
         NEW g \in e .. f
  PROVE  g \in Events /\ TripOf(g) = TripOf(e)
<1>1. g \in Events
  BY EventIs
<1>2. TripOf(e) <= TripOf(g) /\ TripOf(g) <= TripOf(f)
  <2>1. e <= g /\ g <= f
    BY EventIs
  <2> QED BY <1>1, <2>1, RowsAreSorted DEF Schedule, Events
<1>3. TripOf(e) \in Nat /\ TripOf(g) \in Nat
  BY <1>1, EventIs
<1> QED BY <1>1, <1>2, <1>3

\* Lexicographic order.
LEMMA LessTwo ==
  ASSUME NEW a, NEW b, NEW c, NEW d
  PROVE  Less(<<a, b>>, <<c, d>>) <=> a < c \/ (a = c /\ b < d)
<1>1. \A k : k \in DOMAIN <<a, b>> <=> k = 1 \/ k = 2
  OBVIOUS
<1>2. \A m : m \in 1 .. 1 - 1 <=> FALSE
  OBVIOUS
<1>3. \A m : m \in 1 .. 2 - 1 <=> m = 1
  OBVIOUS
<1> QED BY <1>1, <1>2, <1>3 DEF Less

LEMMA LessThree ==
  ASSUME NEW a, NEW b, NEW c, NEW d, NEW x, NEW y
  PROVE  Less(<<a, b, x>>, <<c, d, y>>) <=> \/ a < c
                                            \/ a = c /\ b < d
                                            \/ a = c /\ b = d /\ x < y
<1>1. \A k : k \in DOMAIN <<a, b, x>> <=> k = 1 \/ k = 2 \/ k = 3
  OBVIOUS
<1>2. \A m : m \in 1 .. 1 - 1 <=> FALSE
  OBVIOUS
<1>3. \A m : m \in 1 .. 2 - 1 <=> m = 1
  OBVIOUS
<1>4. \A m : m \in 1 .. 3 - 1 <=> m = 1 \/ m = 2
  OBVIOUS
<1> QED BY <1>1, <1>2, <1>3, <1>4 DEF Less

\* The order of the heap is first that of arrivals and ranks.
LabelType ==
    [trip : Nat, position : Nat, board : Nat, parent : Nat, transfers : Nat, departure : Nat]

LEMMA KeyIs ==
  ASSUME NEW i
  PROVE  HeapKey(i) = <<Arrival(LabelEvent(labels[i])), labels[i].transfers,
                        -labels[i].departure, labels[i].trip, labels[i].position, i>>
BY DEF HeapKey

LEMMA KeyOrder ==
  ASSUME NEW a \in Int, NEW b \in Int, NEW c \in Int, NEW x \in Int, NEW y \in Int, NEW z \in Int,
         NEW d, NEW e, NEW f, NEW u, NEW v, NEW w,
         Less(<<a, b, c, d, e, f>>, <<x, y, z, u, v, w>>)
  PROVE  ~Less(<<x, y, z>>, <<a, b, c>>)
<1> DEFINE p == <<a, b, c, d, e, f>>
           q == <<x, y, z, u, v, w>>
<1>1. PICK k \in 1 .. 6 : p[k] < q[k] /\ \A m \in 1 .. k - 1 : p[m] = q[m]
  BY DEF Less
<1>2. k = 1 \/ (k > 1 /\ a = x)
  <2>1. k > 1 => 1 \in 1 .. k - 1
    OBVIOUS
  <2> QED BY <1>1, <2>1
<1>3. k > 2 => b = y
  <2>1. k > 2 => 2 \in 1 .. k - 1
    OBVIOUS
  <2> QED BY <1>1, <2>1
<1>4. k > 3 => c = z
  <2>1. k > 3 => 3 \in 1 .. k - 1
    OBVIOUS
  <2> QED BY <1>1, <2>1
<1>5. (k = 1 => a < x) /\ (k = 2 => b < y) /\ (k = 3 => c < z)
  BY <1>1
<1>6. k \in 1 .. 6
  OBVIOUS
<1> HIDE DEF p, q
<1> QED BY <1>2, <1>3, <1>4, <1>5, <1>6, LessThree

\* SetToSeq lists the elements of a finite set, each once.
LEMMA SetToSeqIs ==
  ASSUME NEW S, IsFiniteSet(S)
  PROVE  /\ Cardinality(S) \in Nat /\ SetToSeq(S) \in Seq(S)
         /\ SetToSeq(S) \in [1 .. Cardinality(S) -> S] /\ Len(SetToSeq(S)) = Cardinality(S)
         /\ \A i, j \in 1 .. Cardinality(S) : SetToSeq(S)[i] = SetToSeq(S)[j] => i = j
         /\ \A x \in S : \E i \in 1 .. Cardinality(S) : SetToSeq(S)[i] = x
<1> DEFINE n == Cardinality(S)
           list == SetToSeq(S)
<1>1. PICK f : f \in Bijection(1 .. n, S)
  BY FS_CardinalityType DEF ExistsBijection
<1>2. f \in [1 .. n -> S] /\ IsInjective(f)
  BY <1>1 DEF Bijection, Injection, IsInjective
<1>3. list \in [1 .. n -> S] /\ IsInjective(list)
  BY <1>2 DEF SetToSeq
<1>4. n \in Nat
  BY FS_CardinalityType
<1> HIDE DEF list
<1>5. list \in Injection(1 .. n, S)
  BY <1>3 DEF Injection, IsInjective
<1>6. IsFiniteSet(1 .. n) /\ Cardinality(1 .. n) = n
  BY <1>4, FS_Interval
<1>7. list \in Surjection(1 .. n, S)
  BY <1>5, <1>6, FS_Injection
<1>8. \A x \in S : \E i \in 1 .. n : list[i] = x
  BY <1>7 DEF Surjection
<1>9. \A i, j \in 1 .. n : list[i] = list[j] => i = j
  BY <1>3 DEF IsInjective
<1>10. list \in Seq(S) /\ Len(list) = n
  BY <1>3, <1>4
<1> QED BY <1>3, <1>4, <1>8, <1>9, <1>10 DEF list

\* A label for a state with at most so many transfers and so late a departure.
IsCovered(s, n, d) == s \in DOMAIN best /\ ~Less(<<n, -d>>, Rank(labels[best[s]]))

New == DOMAIN labels' \ DOMAIN labels

\* What _enqueue_search_label does with candidates of distinct states: those that
\* improve their state become its best label, and are open.
LEMMA EnqueueIs ==
  ASSUME labels \in Seq(LabelType), \A s \in DOMAIN best : best[s] \in DOMAIN labels,
         NEW C \in SUBSET LabelType, IsFiniteSet(C),
         \A a, b \in C : State(a) = State(b) => a = b, NEW ids, Enqueue(C, ids)
  PROVE  /\ labels' \in Seq(LabelType) /\ queue' = ids \cup New
         /\ \A i \in DOMAIN labels : i \in DOMAIN labels' /\ labels'[i] = labels[i]
         /\ \A i \in New : /\ \A k \in DOMAIN labels : k < i
                           /\ labels'[i] \in C
                           /\ State(labels'[i]) \in DOMAIN best' /\ best'[State(labels'[i])] = i
                           /\ State(labels'[i]) \in DOMAIN best =>
                                Less(Rank(labels'[i]), Rank(labels[best[State(labels'[i])]]))
         /\ \A s \in DOMAIN best' : \/ s \in DOMAIN best /\ best'[s] = best[s]
                                    \/ best'[s] \in New /\ State(labels'[best'[s]]) = s
         /\ DOMAIN best \subseteq DOMAIN best'
         /\ \A c \in C : IsCovered(State(c), c.transfers, c.departure)'
<1> DEFINE improving == {l \in C : State(l) \in DOMAIN best =>
                                    Less(Rank(l), Rank(labels[best[State(l)]]))}
           added == SetToSeq(improving)
           n == Len(labels)
           m == Cardinality(improving)
           Id(s) == CHOOSE i \in DOMAIN labels' \ DOMAIN labels : State(labels'[i]) = s
           states == {State(l) : l \in improving}
<1>1. /\ labels' = labels \o added
      /\ queue' = ids \cup New
  BY DEF Enqueue, New
<1>2. IsFiniteSet(improving) /\ improving \in SUBSET LabelType
  <2>1. improving \in SUBSET C
    OBVIOUS
  <2> HIDE DEF improving
  <2> QED BY <2>1, FS_Subset
<1>3. /\ m \in Nat /\ added \in Seq(improving) /\ Len(added) = m
      /\ \A i, j \in 1 .. m : added[i] = added[j] => i = j
      /\ \A x \in improving : \E i \in 1 .. m : added[i] = x
      /\ \A i \in 1 .. m : added[i] \in improving
  <2> HIDE DEF improving
  <2> QED BY <1>2, SetToSeqIs
<1>4. best' = [s \in states \cup DOMAIN best |-> IF s \in states THEN Id(s) ELSE best[s]]
  <2>1. \A s : s \in states <=> \E l \in improving : State(l) = s
    OBVIOUS
  <2>2. best' = [s \in states \cup DOMAIN best |->
                    IF \E l \in improving : State(l) = s THEN Id(s) ELSE best[s]]
    BY DEF Enqueue
  <2> HIDE DEF Id, states, improving
  <2> QED BY <2>1, <2>2
<1>5. /\ labels' \in Seq(LabelType) /\ Len(labels') = n + m /\ n \in Nat
      /\ \A i \in 1 .. n : labels'[i] = labels[i]
      /\ \A i \in n + 1 .. n + m : labels'[i] = added[i - n] /\ i - n \in 1 .. m
  <2> HIDE DEF improving, added
  <2>1. added \in Seq(LabelType)
    BY <1>2, <1>3
  <2> HIDE DEF m
  <2>2. labels' \in Seq(LabelType) /\ Len(labels') = n + m /\ n \in Nat
    <3>1. labels' = labels \o added /\ Len(added) = m
      BY <1>1, <1>3
    <3>2. labels \o added \in Seq(LabelType)
      BY <2>1
    <3>3. Len(labels \o added) = Len(labels) + Len(added) /\ Len(labels) \in Nat
      BY <2>1
    <3> QED BY <3>1, <3>2, <3>3
  <2>3. \A i \in 1 .. n : labels'[i] = labels[i]
    BY <1>1, <1>3, <2>1
  <2>4. \A i \in n + 1 .. n + m : labels'[i] = added[i - n] /\ i - n \in 1 .. m
    BY <1>1, <1>3, <2>1
  <2> QED BY <2>2, <2>3, <2>4
<1>6. /\ DOMAIN labels = 1 .. n /\ DOMAIN labels' = 1 .. n + m
      /\ New = n + 1 .. n + m
  <2>1. DOMAIN labels = 1 .. n /\ DOMAIN labels' = 1 .. n + m
    <3> HIDE DEF m
    <3> QED BY <1>3, <1>5
  <2> QED BY <1>3, <1>5, <2>1 DEF New
<1>7. ASSUME NEW i \in New
      PROVE  /\ labels'[i] \in improving /\ State(labels'[i]) \in states
             /\ Id(State(labels'[i])) = i
  <2>1. labels'[i] = added[i - n] /\ i - n \in 1 .. m
    BY <1>5, <1>6
  <2>2. labels'[i] \in improving
    BY <1>3, <2>1
  <2>3. \A j \in New : State(labels'[j]) = State(labels'[i]) => j = i
    <3> SUFFICES ASSUME NEW j \in New, State(labels'[j]) = State(labels'[i]) PROVE j = i
      OBVIOUS
    <3>1. labels'[j] = added[j - n] /\ j - n \in 1 .. m
      BY <1>5, <1>6
    <3>2. labels'[j] \in C /\ labels'[i] \in C
      BY <1>3, <2>2, <3>1
    <3>3. added[j - n] = added[i - n]
      BY <2>1, <3>1, <3>2
    <3>4. j - n = i - n
      BY <1>3, <2>1, <3>1, <3>3
    <3>5. i \in Int /\ j \in Int /\ n \in Int
      BY <1>3, <1>5, <1>6
    <3> QED BY <3>4, <3>5
  <2> QED BY <2>2, <2>3 DEF New
<1>8. ASSUME NEW l \in improving
      PROVE  \E i \in New : labels'[i] = l
  <2>1. PICK k \in 1 .. m : added[k] = l
    BY <1>3
  <2>2. k + n \in n + 1 .. n + m /\ (k + n) - n = k
    BY <1>3, <1>5
  <2>3. k + n \in New /\ labels'[k + n] = l
    BY <1>5, <1>6, <2>1, <2>2
  <2> QED BY <2>3
<1>9. \A s \in states : Id(s) \in New /\ State(labels'[Id(s)]) = s
  <2> TAKE s \in states
  <2>1. PICK l \in improving : State(l) = s
    OBVIOUS
  <2>2. PICK i \in New : labels'[i] = l
    BY <1>8
  <2>3. Id(s) = i
    BY <1>7, <2>1, <2>2
  <2> QED BY <2>1, <2>2, <2>3
<1>10. ASSUME NEW c \in C
       PROVE  IsCovered(State(c), c.transfers, c.departure)'
  <2>1. c.transfers \in Int /\ -c.departure \in Int
    BY DEF LabelType
  <2>2. Rank(c) = <<c.transfers, -c.departure>>
    BY DEF Rank
  <2>3. CASE c \in improving
    <3>1. State(c) \in states
      BY <2>3
    <3>2. PICK i \in New : labels'[i] = c
      BY <1>8, <2>3
    <3>3. best'[State(c)] = i /\ State(c) \in DOMAIN best'
      <4>1. Id(State(c)) = i
        BY <1>7, <3>2
      <4> HIDE DEF Id, states
      <4> QED BY <1>4, <3>1, <4>1
    <3>4. ~Less(Rank(c), Rank(c))
      BY <2>1, <2>2, LessTwo
    <3> QED BY <2>2, <3>2, <3>3, <3>4 DEF IsCovered
  <2>4. CASE c \notin improving
    <3>1. State(c) \in DOMAIN best /\ ~Less(Rank(c), Rank(labels[best[State(c)]]))
      BY <2>4
    <3>2. State(c) \notin states
      <4> SUFFICES ASSUME NEW l \in improving, State(l) = State(c) PROVE FALSE
        OBVIOUS
      <4>1. l = c
        OBVIOUS
      <4> QED BY <2>4, <4>1
    <3>3. best'[State(c)] = best[State(c)] /\ State(c) \in DOMAIN best'
      <4> HIDE DEF Id, states
      <4> QED BY <1>4, <3>1, <3>2
    <3>4. labels'[best[State(c)]] = labels[best[State(c)]]
      BY <1>5, <1>6, <3>1
    <3> QED BY <2>2, <3>1, <3>3, <3>4 DEF IsCovered
  <2> QED BY <2>3, <2>4
<1>11. ASSUME NEW i \in New
       PROVE  /\ \A k \in DOMAIN labels : k < i
              /\ labels'[i] \in C
              /\ State(labels'[i]) \in DOMAIN best' /\ best'[State(labels'[i])] = i
              /\ State(labels'[i]) \in DOMAIN best =>
                    Less(Rank(labels'[i]), Rank(labels[best[State(labels'[i])]]))
  <2>1. \A k \in DOMAIN labels : k < i
    BY <1>3, <1>5, <1>6
  <2>2. labels'[i] \in improving /\ State(labels'[i]) \in states /\ Id(State(labels'[i])) = i
    BY <1>7
  <2>3. State(labels'[i]) \in DOMAIN best' /\ best'[State(labels'[i])] = i
    <3> HIDE DEF Id, states, improving
    <3> QED BY <1>4, <2>2
  <2> QED BY <2>1, <2>2, <2>3
<1>12. \A s \in DOMAIN best' : \/ s \in DOMAIN best /\ best'[s] = best[s]
                               \/ best'[s] \in New /\ State(labels'[best'[s]]) = s
  <2> HIDE DEF Id, states
  <2> QED BY <1>4, <1>9
<1>13. DOMAIN best \subseteq DOMAIN best'
  <2> HIDE DEF Id, states
  <2> QED BY <1>4
<1>14. \A i \in DOMAIN labels : i \in DOMAIN labels' /\ labels'[i] = labels[i]
  BY <1>3, <1>5, <1>6
<1> HIDE DEF improving, added, m, n, Id, states
<1> QED BY <1>1, <1>5, <1>10, <1>11, <1>12, <1>13, <1>14

-----------------------------------------------------------------------------
(* The search                                                              *)

EventState(e) == <<TripOf(e), Position(e)>>
IsCoveredAt(e, n, d) == IsCovered(EventState(e), n, d)

\* The rider of a label has boarded its trip and gone on to its event.
Board(l) == Event(l.trip, l.board)

IsSound(l) ==
    /\ LabelEvent(l) \in Events /\ EventState(LabelEvent(l)) = State(l)
    /\ Board(l) \in Events /\ TripOf(Board(l)) = l.trip /\ Position(Board(l)) = l.board
    /\ Board(l) < LabelEvent(l)
    /\ l.trip \in ActiveTrips(query.date) /\ MayBoard(Board(l))
    /\ \A g \in Board(l) .. LabelEvent(l) - 1 : Arrival(g + 1) >= Departure(g)

\* A label is of a trip from the origin, or of a ride or a change after another.
IsFirst(l) ==
    /\ l.parent = 0 /\ l.transfers = 0 /\ l.departure = Departure(Board(l))
    /\ LabelEvent(l) = Board(l) + 1
    /\ Stop(Board(l)) = query.origin /\ Departure(Board(l)) >= query.after

IsRide(l, p) ==
    /\ l.trip = p.trip /\ l.board = p.board
    /\ l.transfers = p.transfers /\ l.departure = p.departure
    /\ LabelEvent(l) = LabelEvent(p) + 1

IsChange(l, p) ==
    /\ l.trip # p.trip
    /\ l.transfers = p.transfers + 1 /\ l.departure = p.departure
    /\ LabelEvent(l) = Board(l) + 1
    /\ MayAlight(LabelEvent(p)) /\ Connects(LabelEvent(p), Board(l))
    /\ Departure(Board(l)) >= Arrival(LabelEvent(p))

IsAfter(l, i) ==
    \/ IsFirst(l)
    \/ /\ l.parent # 0 /\ l.parent \in DOMAIN labels /\ l.parent < i
       /\ IsRide(l, labels[l.parent]) \/ IsChange(l, labels[l.parent])

LabelsInv ==
    /\ labels \in Seq(LabelType)
    /\ \A i \in DOMAIN labels : IsSound(labels[i]) /\ IsAfter(labels[i], i)

\* The best label of a state is its last one.
BestInv ==
    /\ queue \subseteq DOMAIN labels
    /\ \A s \in DOMAIN best : best[s] \in DOMAIN labels /\ State(labels[best[s]]) = s
    /\ \A i \in DOMAIN labels :
        IsCovered(State(labels[i]), labels[i].transfers, labels[i].departure)
    /\ \A i, k \in DOMAIN labels : i < k /\ State(labels[i]) = State(labels[k]) =>
        Less(Rank(labels[k]), Rank(labels[i]))

\* Where a best label that has left the heap leads to is covered.
IsExpanded(l) ==
    LET e == LabelEvent(l)
    IN  /\ ~(Stop(e) = query.destination /\ MayAlight(e))
        /\ Continues(e) => IsCoveredAt(e + 1, l.transfers, l.departure)
        /\ MayAlight(e) => \A f \in Reachable(e) :
            Connects(e, f) => IsCoveredAt(f + 1, l.transfers + 1, l.departure)

SettledInv ==
    /\ labels # <<>> => \A e \in Boardings(query.origin, query.after) :
        Continues(e) => IsCoveredAt(e + 1, 0, Departure(e))
    /\ \A i \in DOMAIN labels \ queue :
        best[State(labels[i])] = i => IsExpanded(labels[i])

SearchInv ==
    /\ query = NoAnswer => queue = {}
    /\ query # NoAnswer =>
        /\ offsets # <<>> /\ answer = NoAnswer
        /\ LabelsInv /\ BestInv /\ SettledInv

\* What depends on the files, the offsets and the walks only.
LEMMA EventsKept ==
  ASSUME UNCHANGED <<files, offsets>>
  PROVE  /\ Events' = Events
         /\ \A e : /\ TripOf(e)' = TripOf(e) /\ Position(e)' = Position(e) /\ Stop(e)' = Stop(e)
                   /\ Arrival(e)' = Arrival(e) /\ Departure(e)' = Departure(e)
                   /\ MayBoard(e)' <=> MayBoard(e)
                   /\ MayAlight(e)' <=> MayAlight(e)
                   /\ Continues(e)' <=> Continues(e)
         /\ \A t, p : Event(t, p)' = Event(t, p)
<1>1. Events' = Events /\ StopTimes' = StopTimes
  BY DEF Events, StopTimes
<1>2. \A e : TripOf(e)' = TripOf(e)
  BY <1>1 DEF TripOf, TripIndex, Trip, Trips
<1>3. \A e : Position(e)' = Position(e) /\ Stop(e)' = Stop(e)
             /\ Arrival(e)' = Arrival(e) /\ Departure(e)' = Departure(e)
  BY <1>1, <1>2 DEF Position, Stop, Arrival, Departure
<1>4. \A e : (MayBoard(e)' <=> MayBoard(e)) /\ (MayAlight(e)' <=> MayAlight(e))
  BY <1>1 DEF MayBoard, MayAlight, OrZero
<1>5. \A e : Continues(e)' <=> Continues(e)
  BY <1>2, <1>3 DEF Continues, TripLength
<1>6. \A t, p : Event(t, p)' = Event(t, p)
  BY DEF Event
<1> QED BY <1>1, <1>2, <1>3, <1>4, <1>5, <1>6

LEMMA ActiveTripsKept ==
  ASSUME UNCHANGED files
  PROVE  \A date : ActiveTrips(date)' = ActiveTrips(date)
<1>1. \A date, kind : Excepted(date, kind)' = Excepted(date, kind)
  BY DEF Excepted, Rows
<1>2. \A date : ActiveServices(date)' = ActiveServices(date)
  BY <1>1 DEF ActiveServices, Rows, Ids
<1> QED BY <1>2 DEF ActiveTrips, Trips, Trip

LEMMA ConnectsKept ==
  ASSUME UNCHANGED <<files, offsets, walks>>
  PROVE  /\ \A e, f : Connects(e, f)' <=> Connects(e, f)
         /\ \A p, s : RulesBetween(p, s)' = RulesBetween(p, s)
<1>1. /\ \A e : /\ Stop(e)' = Stop(e) /\ Arrival(e)' = Arrival(e) /\ Departure(e)' = Departure(e)
                /\ Continues(e)' <=> Continues(e)
      /\ StopTimes' = StopTimes
  BY EventsKept DEF StopTimes
<1>2. \A p : Platforms(p)' = Platforms(p)
  BY DEF Platforms, LocationType, Row, Rows, Ids
<1>3. \A p, s : RulesBetween(p, s)' = RulesBetween(p, s)
  BY <1>2 DEF RulesBetween, Rows
<1>4. \A t, r, id : Selects(t, r, id)' <=> Selects(t, r, id)
  BY DEF Selects, Row, Rows
<1>5. \A e, f : Applicable(e, f)' = Applicable(e, f)
  BY <1>1, <1>3, <1>4 DEF Applicable
<1>6. \A e, f : MayTransfer(e, f)' <=> MayTransfer(e, f)
  BY <1>1, <1>5 DEF MayTransfer
<1>7. \A e, f : MinimumSeconds(e, f)' = MinimumSeconds(e, f)
  BY <1>1, <1>5 DEF MinimumSeconds
<1> QED BY <1>1, <1>3, <1>6, <1>7 DEF Connects

LEMMA BoardingsKept ==
  ASSUME UNCHANGED <<files, offsets, walks, query>>
  PROVE  /\ \A stop, after : Boardings(stop, after)' = Boardings(stop, after)
         /\ \A e : Reachable(e)' = Reachable(e)
<1>1. \A stop, after : Boardings(stop, after)' = Boardings(stop, after)
  <2>1. ActiveTrips(query.date)' = ActiveTrips(query.date)
    BY ActiveTripsKept
  <2>2. DOMAIN StopTimes' = DOMAIN StopTimes
    BY DEF StopTimes
  <2>3. \A e : /\ TripOf(e)' = TripOf(e) /\ Stop(e)' = Stop(e) /\ Departure(e)' = Departure(e)
               /\ MayBoard(e)' <=> MayBoard(e)
    BY EventsKept
  <2> QED BY <2>1, <2>2, <2>3 DEF Boardings
<1>2. \A e : Reachable(e)' = Reachable(e)
  BY <1>1, EventsKept, ConnectsKept DEF Reachable, StopTimes
<1> QED BY <1>1, <1>2

LEMMA LabelsKept ==
  ASSUME UNCHANGED <<files, offsets, walks, query>>
  PROVE  /\ \A l : /\ IsSound(l)' <=> IsSound(l)
                   /\ IsFirst(l)' <=> IsFirst(l)
                   /\ LabelEvent(l)' = LabelEvent(l)
         /\ \A l, p : /\ IsRide(l, p)' <=> IsRide(l, p)
                      /\ IsChange(l, p)' <=> IsChange(l, p)
<1>1. /\ Events' = Events
      /\ \A e : /\ TripOf(e)' = TripOf(e) /\ Position(e)' = Position(e) /\ Stop(e)' = Stop(e)
                /\ Arrival(e)' = Arrival(e) /\ Departure(e)' = Departure(e)
                /\ MayBoard(e)' <=> MayBoard(e)
                /\ MayAlight(e)' <=> MayAlight(e)
      /\ \A t, p : Event(t, p)' = Event(t, p)
  BY EventsKept
<1>2. \A l : LabelEvent(l)' = LabelEvent(l) /\ Board(l)' = Board(l)
  BY <1>1 DEF LabelEvent, Board
<1>3. \A e : EventState(e)' = EventState(e)
  BY <1>1 DEF EventState
<1>4. ActiveTrips(query.date)' = ActiveTrips(query.date)
  BY ActiveTripsKept
<1>5. \A l : IsSound(l)' <=> IsSound(l)
  BY <1>1, <1>2, <1>3, <1>4 DEF IsSound
<1>6. \A l : IsFirst(l)' <=> IsFirst(l)
  BY <1>1, <1>2 DEF IsFirst
<1>7. \A l, p : IsRide(l, p)' <=> IsRide(l, p)
  BY <1>2 DEF IsRide
<1>8. \A l, p : IsChange(l, p)' <=> IsChange(l, p)
  BY <1>1, <1>2, ConnectsKept DEF IsChange
<1> QED BY <1>2, <1>5, <1>6, <1>7, <1>8

\* A label for boarding at an event.
LEMMA BoardLabelIs ==
  ASSUME Schedule, NEW f \in Events, Continues(f), MayBoard(f),
         TripOf(f) \in ActiveTrips(query.date),
         NEW parent \in Nat, NEW transfers \in Nat, NEW departure \in Nat, NEW c,
         c = BoardLabel(f, parent, transfers, departure)
  PROVE  /\ c \in LabelType /\ IsSound(c) /\ LabelEvent(c) = f + 1 /\ Board(c) = f
         /\ State(c) = EventState(f + 1) /\ c.trip = TripOf(f)
         /\ c.parent = parent /\ c.transfers = transfers /\ c.departure = departure
<1>1. /\ f \in Nat /\ TripOf(f) \in Nat /\ Position(f) \in Nat
      /\ Event(TripOf(f), Position(f)) = f
  BY EventIs
<1>2. /\ f + 1 \in Events /\ TripOf(f + 1) = TripOf(f) /\ Position(f + 1) = Position(f) + 1
      /\ Arrival(f + 1) >= Departure(f)
  BY NextEventIs
<1>3. Event(TripOf(f), Position(f) + 1) = f + 1
  BY <1>2, EventIs
<1>4. /\ c.trip = TripOf(f) /\ c.position = Position(f) + 1 /\ c.board = Position(f)
      /\ c.parent = parent /\ c.transfers = transfers /\ c.departure = departure
  BY DEF BoardLabel
<1>5. c \in LabelType
  BY <1>1 DEF BoardLabel, LabelType
<1>6. LabelEvent(c) = f + 1 /\ Board(c) = f
  BY <1>1, <1>3, <1>4 DEF LabelEvent, Board
<1>7. State(c) = EventState(f + 1)
  BY <1>2, <1>4 DEF State, EventState
<1>8. \A g \in f .. (f + 1) - 1 : g = f
  BY <1>1
<1>9. IsSound(c)
  BY <1>1, <1>2, <1>4, <1>6, <1>7, <1>8 DEF IsSound
<1> QED BY <1>4, <1>5, <1>6, <1>7, <1>9

\* A label for staying on the trip.
LEMMA RideLabelIs ==
  ASSUME Schedule, NEW l \in LabelType, IsSound(l), Continues(LabelEvent(l)),
         NEW c \in LabelType, c.trip = l.trip, c.position = l.position + 1, c.board = l.board,
         c.transfers = l.transfers, c.departure = l.departure
  PROVE  /\ IsSound(c) /\ IsRide(c, l)
         /\ LabelEvent(c) = LabelEvent(l) + 1 /\ Board(c) = Board(l)
         /\ State(c) = EventState(LabelEvent(l) + 1)
<1> DEFINE e == LabelEvent(l)
           b == Board(l)
<1>1. /\ e \in Events /\ EventState(e) = State(l) /\ b \in Events /\ TripOf(b) = l.trip
      /\ Position(b) = l.board /\ b < e /\ l.trip \in ActiveTrips(query.date) /\ MayBoard(b)
      /\ \A g \in b .. e - 1 : Arrival(g + 1) >= Departure(g)
  BY DEF IsSound
<1>2. TripOf(e) = l.trip /\ Position(e) = l.position
  BY <1>1 DEF EventState, State
<1>3. /\ e + 1 \in Events /\ TripOf(e + 1) = l.trip /\ Position(e + 1) = l.position + 1
      /\ Arrival(e + 1) >= Departure(e)
  BY <1>1, <1>2, NextEventIs
<1> HIDE DEF e, b
<1>4. Event(l.trip, l.position + 1) = e + 1 /\ e \in Nat /\ b \in Nat
  <2>1. Event(TripOf(e + 1), Position(e + 1)) = e + 1
    BY <1>3, EventIs
  <2>2. Events = 1 .. Len(StopTimes) /\ Len(StopTimes) \in Nat
    BY <1>1, EventIs
  <2>3. e \in Nat /\ b \in Nat
    BY <1>1, <2>2
  <2> QED BY <1>3, <2>1, <2>3
<1>5. /\ c.trip = l.trip /\ c.position = l.position + 1 /\ c.board = l.board
      /\ c.transfers = l.transfers /\ c.departure = l.departure
  OBVIOUS
<1>6. LabelEvent(c) = e + 1 /\ Board(c) = b
  BY <1>4, <1>5 DEF LabelEvent, Board, b
<1>7. State(c) = EventState(e + 1)
  BY <1>3, <1>5 DEF State, EventState
<1>8. \A g \in b .. (e + 1) - 1 : Arrival(g + 1) >= Departure(g)
  <2>1. \A g \in b .. (e + 1) - 1 : g = e \/ g \in b .. e - 1
    BY <1>4
  <2> QED BY <1>1, <1>3, <2>1
<1>9. b < e + 1
  BY <1>1, <1>4
<1>10. IsSound(c)
  BY <1>1, <1>3, <1>5, <1>6, <1>7, <1>8, <1>9 DEF IsSound
<1>11. IsRide(c, l)
  BY <1>5, <1>6 DEF IsRide, e
<1> QED BY <1>5, <1>6, <1>7, <1>10, <1>11 DEF e, b

\* Ranks are pairs of integers.
LEMMA RankIs ==
  ASSUME NEW l \in LabelType
  PROVE  Rank(l) = <<l.transfers, -l.departure>> /\ l.transfers \in Int /\ -l.departure \in Int
BY DEF Rank, LabelType

\* A label that is better than one that covers covers as well.
LEMMA BetterCovers ==
  ASSUME NEW a \in Int, NEW b \in Int, NEW l \in LabelType, NEW m \in LabelType,
         ~Less(<<a, b>>, Rank(l)), Less(Rank(m), Rank(l))
  PROVE  ~Less(<<a, b>>, Rank(m)) /\ Less(Rank(m), <<a, b>>)
<1>1. /\ Rank(l) = <<l.transfers, -l.departure>> /\ Rank(m) = <<m.transfers, -m.departure>>
      /\ l.transfers \in Int /\ -l.departure \in Int /\ m.transfers \in Int /\ -m.departure \in Int
  BY RankIs
<1>2. ~(a < l.transfers \/ (a = l.transfers /\ b < -l.departure))
  BY <1>1, LessTwo
<1>3. \/ m.transfers < l.transfers
      \/ m.transfers = l.transfers /\ -m.departure < -l.departure
  BY <1>1, LessTwo
<1>4. ~(a < m.transfers \/ (a = m.transfers /\ b < -m.departure))
  BY <1>1, <1>2, <1>3
<1>5. m.transfers < a \/ (m.transfers = a /\ -m.departure < b)
  BY <1>1, <1>2, <1>3
<1> QED BY <1>1, <1>4, <1>5, LessTwo

\* What is covered stays covered.
LEMMA CoverStays ==
  ASSUME labels \in Seq(LabelType), \A s \in DOMAIN best : best[s] \in DOMAIN labels,
         NEW C \in SUBSET LabelType, IsFiniteSet(C),
         \A a, b \in C : State(a) = State(b) => a = b, NEW ids, Enqueue(C, ids),
         NEW s, NEW n \in Nat, NEW d \in Nat, IsCovered(s, n, d)
  PROVE  IsCovered(s, n, d)'
<1>1. /\ labels' \in Seq(LabelType)
      /\ \A i \in DOMAIN labels : i \in DOMAIN labels' /\ labels'[i] = labels[i]
      /\ \A i \in New : /\ State(labels'[i]) \in DOMAIN best
                            => Less(Rank(labels'[i]), Rank(labels[best[State(labels'[i])]]))
      /\ s \in DOMAIN best'
      /\ \/ best'[s] = best[s]
         \/ best'[s] \in New /\ State(labels'[best'[s]]) = s
  BY EnqueueIs DEF IsCovered
<1>2. /\ s \in DOMAIN best /\ ~Less(<<n, -d>>, Rank(labels[best[s]]))
      /\ best[s] \in DOMAIN labels
  BY DEF IsCovered
<1>3. CASE best'[s] = best[s]
  <2>1. labels'[best'[s]] = labels[best[s]]
    BY <1>1, <1>2, <1>3
  <2> QED BY <1>1, <1>2, <2>1 DEF IsCovered
<1>4. CASE best'[s] \in New /\ State(labels'[best'[s]]) = s
  <2> DEFINE l == labels[best[s]]
             m == labels'[best'[s]]
  <2>1. l \in LabelType /\ m \in LabelType
    BY <1>1, <1>2, <1>4 DEF New
  <2>2. Less(Rank(m), Rank(l))
    BY <1>1, <1>2, <1>4
  <2>3. ~Less(<<n, -d>>, Rank(l)) /\ n \in Int /\ -d \in Int
    BY <1>2
  <2> HIDE DEF l
  <2>4. ~Less(<<n, -d>>, Rank(m))
    BY <2>1, <2>2, <2>3, BetterCovers
  <2> QED BY <1>1, <2>4 DEF IsCovered
<1> QED BY <1>1, <1>3, <1>4

\* The labels that a turn adds fit in with those there are.
LEMMA GrowKeeps ==
  ASSUME UNCHANGED <<files, offsets, walks, query>>, LabelsInv, BestInv,
         NEW C \in SUBSET LabelType, IsFiniteSet(C),
         \A a, b \in C : State(a) = State(b) => a = b,
         \A c \in C : /\ IsSound(c)
                      /\ \/ IsFirst(c)
                         \/ /\ c.parent # 0 /\ c.parent \in DOMAIN labels
                            /\ IsRide(c, labels[c.parent]) \/ IsChange(c, labels[c.parent]),
         NEW ids \in SUBSET queue, Enqueue(C, ids)
  PROVE  LabelsInv' /\ BestInv'
<1>1. /\ labels \in Seq(LabelType) /\ queue \subseteq DOMAIN labels
      /\ \A s \in DOMAIN best : best[s] \in DOMAIN labels /\ State(labels[best[s]]) = s
  BY DEF LabelsInv, BestInv
<1>2. /\ labels' \in Seq(LabelType) /\ queue' = ids \cup New
      /\ \A i \in DOMAIN labels : i \in DOMAIN labels' /\ labels'[i] = labels[i]
      /\ \A i \in New : /\ \A k \in DOMAIN labels : k < i
                        /\ labels'[i] \in C
                        /\ State(labels'[i]) \in DOMAIN best' /\ best'[State(labels'[i])] = i
                        /\ State(labels'[i]) \in DOMAIN best =>
                             Less(Rank(labels'[i]), Rank(labels[best[State(labels'[i])]]))
      /\ \A s \in DOMAIN best' : \/ s \in DOMAIN best /\ best'[s] = best[s]
                                 \/ best'[s] \in New /\ State(labels'[best'[s]]) = s
      /\ \A c \in C : IsCovered(State(c), c.transfers, c.departure)'
  BY <1>1, EnqueueIs
<1>3. \A i \in DOMAIN labels' : i \in Nat /\ (i \in DOMAIN labels \/ i \in New)
  BY <1>2 DEF New
<1>4. /\ \A l : /\ IsSound(l)' <=> IsSound(l)
                /\ IsFirst(l)' <=> IsFirst(l)
      /\ \A l, p : /\ IsRide(l, p)' <=> IsRide(l, p)
                   /\ IsChange(l, p)' <=> IsChange(l, p)
  BY LabelsKept
<1>5. LabelsInv'
  <2>1. ASSUME NEW i \in DOMAIN labels', NEW c, c = labels'[i]
        PROVE  /\ IsSound(c)
               /\ \/ IsFirst(c)
                  \/ /\ c.parent # 0 /\ c.parent \in DOMAIN labels' /\ c.parent < i
                     /\ IsRide(c, labels'[c.parent]) \/ IsChange(c, labels'[c.parent])
    <3>1. \A k \in DOMAIN labels : k \in DOMAIN labels' /\ labels'[k] = labels[k]
      BY <1>2
    <3>2. CASE i \in DOMAIN labels
      <4>1. IsSound(labels[i]) /\ IsAfter(labels[i], i) /\ c = labels[i]
        BY <1>2, <2>1, <3>2 DEF LabelsInv
      <4> QED BY <3>1, <4>1 DEF IsAfter
    <3>3. CASE i \in New
      <4>1. c \in C /\ \A k \in DOMAIN labels : k < i
        BY <1>2, <2>1, <3>3
      <4>2. /\ IsSound(c)
            /\ \/ IsFirst(c)
               \/ /\ c.parent # 0 /\ c.parent \in DOMAIN labels
                  /\ IsRide(c, labels[c.parent]) \/ IsChange(c, labels[c.parent])
        BY <4>1
      <4> QED BY <3>1, <4>1, <4>2
    <3> QED BY <1>3, <3>2, <3>3
  <2>2. \A i \in DOMAIN labels' :
            LET c == labels'[i]
            IN  /\ IsSound(c)
                /\ \/ IsFirst(c)
                   \/ /\ c.parent # 0 /\ c.parent \in DOMAIN labels' /\ c.parent < i
                      /\ IsRide(c, labels'[c.parent]) \/ IsChange(c, labels'[c.parent])
    BY <2>1
  <2>3. \A i \in DOMAIN labels' : IsSound(labels[i])' /\ IsAfter(labels[i], i)'
    BY <1>4, <2>2 DEF IsAfter
  <2> QED BY <1>2, <2>3 DEF LabelsInv
<1>6. queue' \subseteq DOMAIN labels'
  BY <1>1, <1>2 DEF New
<1>7. \A s \in DOMAIN best' : best'[s] \in DOMAIN labels' /\ State(labels'[best'[s]]) = s
  BY <1>1, <1>2 DEF New
<1>8. ASSUME NEW i \in DOMAIN labels', NEW c, c = labels'[i]
      PROVE  IsCovered(State(c), c.transfers, c.departure)'
  <2>1. CASE i \in DOMAIN labels
    <3>1. IsCovered(State(c), c.transfers, c.departure) /\ c \in LabelType
      BY <1>1, <1>2, <1>8, <2>1 DEF BestInv
    <3>2. c.transfers \in Nat /\ c.departure \in Nat
      BY <3>1 DEF LabelType
    <3> QED BY <1>1, <3>1, <3>2, CoverStays
  <2>2. CASE i \in New
    BY <1>2, <1>8, <2>2
  <2> QED BY <1>3, <2>1, <2>2
<1>9. ASSUME NEW i \in DOMAIN labels', NEW k \in DOMAIN labels', i < k,
             State(labels'[i]) = State(labels'[k])
      PROVE  Less(Rank(labels'[k]), Rank(labels'[i]))
  <2>1. CASE i \in DOMAIN labels /\ k \in DOMAIN labels
    BY <1>2, <1>9, <2>1 DEF BestInv
  <2>2. CASE i \in New /\ k \in DOMAIN labels
    <3>1. k < i /\ k \in Nat /\ i \in Nat
      BY <1>2, <1>3, <2>2
    <3> QED BY <1>9, <3>1
  <2>3. CASE i \in New /\ k \in New
    <3>1. i = k
      BY <1>2, <1>9, <2>3
    <3> QED BY <1>3, <1>9, <3>1
  <2>4. CASE i \in DOMAIN labels /\ k \in New
    <3> DEFINE l == labels[i]
               m == labels'[k]
               b == labels[best[State(l)]]
    <3>1. /\ labels'[i] = l /\ l \in LabelType /\ m \in LabelType /\ State(m) = State(l)
      BY <1>1, <1>2, <1>9, <2>4
    <3>2. State(l) \in DOMAIN best /\ ~Less(<<l.transfers, -l.departure>>, Rank(b))
      BY <2>4 DEF BestInv, IsCovered
    <3>3. b \in LabelType
      BY <1>1, <3>2
    <3>4. Less(Rank(m), Rank(b))
      BY <1>2, <2>4, <3>1, <3>2
    <3> HIDE DEF l, m, b
    <3>5. Rank(l) = <<l.transfers, -l.departure>> /\ l.transfers \in Int /\ -l.departure \in Int
      BY <3>1, RankIs
    <3>6. Less(Rank(m), <<l.transfers, -l.departure>>)
      BY <3>1, <3>2, <3>3, <3>4, <3>5, BetterCovers
    <3> QED BY <3>1, <3>5, <3>6 DEF m
  <2> QED BY <1>3, <2>1, <2>2, <2>3, <2>4
<1>10. \A i \in DOMAIN labels' : IsCovered(State(labels[i]), labels[i].transfers, labels[i].departure)'
  BY <1>8 DEF IsCovered, State
<1>11. (\A i, k \in DOMAIN labels : i < k /\ State(labels[i]) = State(labels[k]) =>
            Less(Rank(labels[k]), Rank(labels[i])))'
  BY <1>9 DEF State, Rank, Less
<1>12. BestInv'
  BY <1>6, <1>7, <1>10, <1>11 DEF BestInv, State
<1> QED BY <1>5, <1>12

\* The image of a finite set is finite.
LEMMA ImageIsFinite ==
  ASSUME NEW S, IsFiniteSet(S), NEW T, NEW f \in [S -> T], \A y \in T : \E x \in S : f[x] = y
  PROVE  IsFiniteSet(T)
<1>1. f \in Surjection(S, T)
  BY DEF Surjection
<1> QED BY <1>1, FS_Surjection

LEMMA EventsAreFinite ==
  ASSUME Schedule
  PROVE  Events \in SUBSET Nat /\ IsFiniteSet(Events)
<1>1. Events = 1 .. Len(StopTimes) /\ Len(StopTimes) \in Nat
  BY DEF Schedule, Events
<1> QED BY <1>1, FS_Interval

\* A state is that of one event.
LEMMA EventStateIs ==
  ASSUME Schedule, NEW e \in Events, NEW f \in Events, EventState(e) = EventState(f)
  PROVE  e = f
<1>1. Event(TripOf(e), Position(e)) = e /\ Event(TripOf(f), Position(f)) = f
  BY EventIs
<1>2. TripOf(e) = TripOf(f) /\ Position(e) = Position(f)
  BY DEF EventState
<1> QED BY <1>1, <1>2

AreBoardings(C, rows, parent, transfers, dep) ==
    /\ rows \in SUBSET Events /\ dep \in [rows -> Nat]
    /\ \A e \in rows : Continues(e) /\ MayBoard(e) /\ TripOf(e) \in ActiveTrips(query.date)
    /\ C = {BoardLabel(e, parent, transfers, dep[e]) : e \in rows}

\* What boarding gives: labels of distinct states, sound ones.
LEMMA BoardingIs ==
  ASSUME Schedule, NEW parent \in Nat, NEW transfers \in Nat, NEW rows, NEW dep, NEW C,
         AreBoardings(C, rows, parent, transfers, dep)
  PROVE  /\ C \in SUBSET LabelType /\ IsFiniteSet(C)
         /\ \A a, b \in C : State(a) = State(b) => a = b
         /\ \A c \in C : IsSound(c) /\ \E e \in rows :
                /\ State(c) = EventState(e + 1) /\ LabelEvent(c) = e + 1 /\ Board(c) = e
                /\ c.trip = TripOf(e) /\ c.parent = parent /\ c.transfers = transfers
                /\ c.departure = dep[e]
         /\ \A e \in rows : \E c \in C :
                State(c) = EventState(e + 1) /\ c.transfers = transfers /\ c.departure = dep[e]
<1>0. /\ rows \in SUBSET Events /\ dep \in [rows -> Nat]
      /\ \A e \in rows : Continues(e) /\ MayBoard(e) /\ TripOf(e) \in ActiveTrips(query.date)
      /\ C = {BoardLabel(e, parent, transfers, dep[e]) : e \in rows}
  BY DEF AreBoardings
<1> DEFINE f == [e \in rows |-> BoardLabel(e, parent, transfers, dep[e])]
<1>1. ASSUME NEW e \in rows, NEW c, c = BoardLabel(e, parent, transfers, dep[e])
      PROVE  /\ c \in LabelType /\ IsSound(c) /\ LabelEvent(c) = e + 1 /\ Board(c) = e
             /\ State(c) = EventState(e + 1) /\ c.trip = TripOf(e)
             /\ c.parent = parent /\ c.transfers = transfers /\ c.departure = dep[e]
  <2>1. /\ e \in Events /\ dep[e] \in Nat
        /\ Continues(e) /\ MayBoard(e) /\ TripOf(e) \in ActiveTrips(query.date)
    BY <1>0
  <2> QED BY <1>1, <2>1, BoardLabelIs
<1>2. C \in SUBSET LabelType
  BY <1>0, <1>1
<1>3. \A c \in C : IsSound(c) /\ \E e \in rows :
                /\ State(c) = EventState(e + 1) /\ LabelEvent(c) = e + 1 /\ Board(c) = e
                /\ c.trip = TripOf(e) /\ c.parent = parent /\ c.transfers = transfers
                /\ c.departure = dep[e]
  <2> TAKE c \in C
  <2>1. PICK e \in rows : c = BoardLabel(e, parent, transfers, dep[e])
    BY <1>0
  <2> QED BY <1>1, <2>1
<1>4. \A e \in rows : \E c \in C :
                State(c) = EventState(e + 1) /\ c.transfers = transfers /\ c.departure = dep[e]
  BY <1>0, <1>1
<1>5. IsFiniteSet(C)
  <2>1. IsFiniteSet(rows)
    BY <1>0, EventsAreFinite, FS_Subset
  <2>2. f \in [rows -> C] /\ \A c \in C : \E e \in rows : f[e] = c
    BY <1>0
  <2> HIDE DEF f
  <2> QED BY <2>1, <2>2, ImageIsFinite
<1>6. \A a, b \in C : State(a) = State(b) => a = b
  <2> SUFFICES ASSUME NEW a \in C, NEW b \in C, State(a) = State(b) PROVE a = b
    OBVIOUS
  <2>1. PICK e \in rows : a = BoardLabel(e, parent, transfers, dep[e])
    BY <1>0
  <2>2. PICK g \in rows : b = BoardLabel(g, parent, transfers, dep[g])
    BY <1>0
  <2>3. EventState(e + 1) = EventState(g + 1)
    BY <1>1, <2>1, <2>2
  <2>4. e + 1 \in Events /\ g + 1 \in Events
    BY <1>0, NextEventIs
  <2>5. e + 1 = g + 1
    BY <2>3, <2>4, EventStateIs
  <2>6. e = g
    BY <1>0, <2>5, EventsAreFinite
  <2> QED BY <2>1, <2>2, <2>6
<1> QED BY <1>2, <1>3, <1>4, <1>5, <1>6

\* The boardings at a stop.
LEMMA BoardingsAre ==
  ASSUME NEW stop, NEW after
  PROVE  \A e : e \in Boardings(stop, after) <=>
            /\ e \in Events /\ Stop(e) = stop /\ Departure(e) >= after
            /\ TripOf(e) \in ActiveTrips(query.date) /\ MayBoard(e)
BY DEF Boardings, Events

LEMMA CoverDependsOnLabels ==
  ASSUME UNCHANGED <<labels, best>>
  PROVE  \A s, n, d : IsCovered(s, n, d)' <=> IsCovered(s, n, d)
BY DEF IsCovered, Rank

\* The search begins at the origin.
LEMMA OriginKeeps ==
  ASSUME PlannerIInv, SearchInv, BoardAtOrigin
  PROVE  SearchInv'
<1> DEFINE rows == {e \in Boardings(query.origin, query.after) : Continues(e)}
           dep == [e \in rows |-> Departure(e)]
           C == {BoardLabel(e, 0, 0, dep[e]) : e \in rows}
<1>1. /\ query # NoAnswer /\ labels = <<>> /\ Enqueue({BoardLabel(e, 0, 0, Departure(e)) : e \in rows}, {})
      /\ UNCHANGED <<files, offsets, walks, query, answer>>
      /\ offsets # <<>> /\ answer = NoAnswer /\ LabelsInv /\ BestInv
  BY DEF BoardAtOrigin, SearchInv
<1>2. Schedule
  BY <1>1, ScheduleIs
<1>3. \A e : e \in rows <=> /\ e \in Events /\ Stop(e) = query.origin /\ Departure(e) >= query.after
                            /\ TripOf(e) \in ActiveTrips(query.date) /\ MayBoard(e)
                            /\ Continues(e)
  BY BoardingsAre
<1>4. dep \in [rows -> Nat] /\ \A e \in rows : dep[e] = Departure(e)
  BY <1>2, <1>3, EventIs
<1>5. Enqueue(C, {})
  <2>1. C = {BoardLabel(e, 0, 0, Departure(e)) : e \in rows}
    BY <1>4
  <2> HIDE DEF C, rows, dep
  <2> QED BY <1>1, <2>1
<1>6. \A e \in rows : Continues(e) /\ MayBoard(e) /\ TripOf(e) \in ActiveTrips(query.date)
  BY <1>3
<1>7. rows \in SUBSET Events
  BY <1>3
<1> HIDE DEF rows, dep
<1>8. /\ C \in SUBSET LabelType /\ IsFiniteSet(C)
      /\ \A a, b \in C : State(a) = State(b) => a = b
      /\ \A c \in C : IsSound(c) /\ \E e \in rows :
             /\ State(c) = EventState(e + 1) /\ LabelEvent(c) = e + 1 /\ Board(c) = e
             /\ c.trip = TripOf(e) /\ c.parent = 0 /\ c.transfers = 0
             /\ c.departure = dep[e]
      /\ \A e \in rows : \E c \in C :
             State(c) = EventState(e + 1) /\ c.transfers = 0 /\ c.departure = dep[e]
  <2> DEFINE zero == 0
  <2>1. zero \in Nat /\ zero = 0 /\ C = {BoardLabel(e, zero, zero, dep[e]) : e \in rows}
    OBVIOUS
  <2> HIDE DEF C, zero
  <2>2. AreBoardings(C, rows, zero, zero, dep)
    BY <1>4, <1>6, <1>7, <2>1 DEF AreBoardings
  <2> QED BY <1>2, <2>1, <2>2, BoardingIs
<1> HIDE DEF C
<1>9. \A c \in C : IsFirst(c)
  BY <1>3, <1>4, <1>8 DEF IsFirst
<1>10. LabelsInv' /\ BestInv'
  <2>1. {} \in SUBSET queue
    OBVIOUS
  <2> QED BY <1>1, <1>5, <1>8, <1>9, <2>1, GrowKeeps
<1>11. /\ queue' = New /\ \A c \in C : IsCovered(State(c), c.transfers, c.departure)'
  BY <1>1, <1>5, <1>8, EnqueueIs DEF LabelsInv, BestInv
<1>12. \A e : /\ EventState(e)' = EventState(e) /\ Departure(e)' = Departure(e)
              /\ Continues(e)' <=> Continues(e)
              /\ Boardings(query.origin, query.after)' = Boardings(query.origin, query.after)
  <2>1. Boardings(query.origin, query.after)' = Boardings(query.origin, query.after)
    BY <1>1, BoardingsKept
  <2> QED BY <1>1, <2>1, EventsKept DEF EventState
<1>13. (\A e \in Boardings(query.origin, query.after) :
            Continues(e) => IsCoveredAt(e + 1, 0, Departure(e)))'
  <2>1. ASSUME NEW e \in Boardings(query.origin, query.after), Continues(e)
        PROVE  IsCovered(EventState(e + 1), 0, Departure(e))'
    <3>1. e \in rows
      BY <2>1 DEF rows
    <3>2. PICK c \in C : State(c) = EventState(e + 1) /\ c.transfers = 0 /\ c.departure = Departure(e)
      BY <1>4, <1>8, <3>1
    <3>3. IsCovered(State(c), c.transfers, c.departure)'
      BY <1>11
    <3>4. EventState(e + 1)' = State(c) /\ Departure(e)' = c.departure
      BY <1>12, <3>2
    <3> QED BY <3>2, <3>3, <3>4 DEF IsCovered
  <2> QED BY <1>12, <2>1 DEF IsCoveredAt
<1>14. (\A i \in DOMAIN labels \ queue : best[State(labels[i])] = i => IsExpanded(labels[i]))'
  <2>1. DOMAIN labels = {}
    BY <1>1
  <2>2. DOMAIN labels' \ queue' = {}
    BY <1>11, <2>1 DEF New
  <2> QED BY <2>2
<1>15. SettledInv'
  BY <1>13, <1>14 DEF SettledInv
<1> QED BY <1>1, <1>10, <1>15 DEF SearchInv

\* The candidates of a turn lead on from its label, and leave nothing out.
AreCandidates(C, id) ==
    LET l == labels[id]
        e == LabelEvent(l)
    IN  /\ C \in SUBSET LabelType /\ IsFiniteSet(C)
        /\ \A a, b \in C : State(a) = State(b) => a = b
        /\ \A c \in C : IsSound(c) /\ c.parent = id /\ (IsRide(c, l) \/ IsChange(c, l))
        /\ Continues(e) => \E c \in C : /\ State(c) = EventState(e + 1)
                                        /\ c.transfers = l.transfers
                                        /\ c.departure = l.departure
        /\ MayAlight(e) => \A f \in Reachable(e) : Connects(e, f) =>
            \E c \in C : /\ State(c) = EventState(f + 1)
                         /\ c.transfers = l.transfers + 1
                         /\ c.departure = l.departure

LEMMA RideRecord ==
  \A l \in LabelType : \A id :
    [l EXCEPT !.position = l.position + 1, !.parent = id] =
        [trip |-> l.trip, position |-> l.position + 1, board |-> l.board,
         parent |-> id, transfers |-> l.transfers, departure |-> l.departure]
<1> TAKE l \in LabelType
<1> TAKE id
<1> DEFINE c == [l EXCEPT !.position = l.position + 1, !.parent = id]
<1>1. /\ DOMAIN c = DOMAIN l /\ c = [x \in DOMAIN l |-> c[x]]
      /\ c.trip = l.trip /\ c.position = l.position + 1 /\ c.board = l.board
      /\ c.parent = id /\ c.transfers = l.transfers /\ c.departure = l.departure
  BY DEF LabelType
<1>2. DOMAIN l = {"trip", "position", "board", "parent", "transfers", "departure"}
  BY DEF LabelType
<1>3. c = [trip |-> l.trip, position |-> l.position + 1, board |-> l.board,
           parent |-> id, transfers |-> l.transfers, departure |-> l.departure]
  <2> HIDE DEF c
  <2> QED BY <1>1, <1>2
<1> QED BY <1>3, Zenon DEF c

LEMMA CandidatesAre ==
  ASSUME Schedule, LabelsInv, NEW id \in DOMAIN labels, NEW C,
         C = Ride(id) \cup IF MayAlight(LabelEvent(labels[id])) THEN Transfers(id) ELSE {}
  PROVE  AreCandidates(C, id)
<1> DEFINE l == labels[id]
           e == LabelEvent(l)
           rows == {f \in Reachable(e) : Connects(e, f)}
           dep == [f \in rows |-> l.departure]
           R == Ride(id)
           T == Transfers(id)
           r == [l EXCEPT !.position = l.position + 1, !.parent = id]
<1>1. /\ l \in LabelType /\ IsSound(l) /\ id \in Nat
      /\ e \in Events /\ TripOf(e) = l.trip /\ EventState(e) = State(l)
      /\ l.transfers \in Nat /\ l.departure \in Nat
  <2>1. l \in LabelType /\ IsSound(l) /\ id \in Nat
    BY DEF LabelsInv
  <2>2. e \in Events /\ EventState(e) = State(l)
    BY <2>1 DEF IsSound
  <2>3. TripOf(e) = l.trip
    BY <2>2 DEF EventState, State
  <2> HIDE DEF l, e
  <2> QED BY <2>1, <2>2, <2>3 DEF LabelType
<1>2. ASSUME Continues(e)
      PROVE  /\ r \in LabelType /\ IsSound(r) /\ IsRide(r, l) /\ r.parent = id
             /\ State(r) = EventState(e + 1)
             /\ r.trip = l.trip /\ r.transfers = l.transfers /\ r.departure = l.departure
  <2>1. /\ l = [trip |-> l.trip, position |-> l.position, board |-> l.board,
                parent |-> l.parent, transfers |-> l.transfers, departure |-> l.departure]
        /\ l.trip \in Nat /\ l.position \in Nat /\ l.board \in Nat
        /\ l.transfers \in Nat /\ l.departure \in Nat /\ id \in Nat
    BY <1>1 DEF LabelType
  <2>2. r = [trip |-> l.trip, position |-> l.position + 1, board |-> l.board,
             parent |-> id, transfers |-> l.transfers, departure |-> l.departure]
    <3> HIDE DEF l
    <3> QED BY <1>1, RideRecord, Zenon DEF r
  <2> HIDE DEF l, r
  <2>3. /\ r.trip = l.trip /\ r.position = l.position + 1 /\ r.board = l.board
        /\ r.parent = id /\ r.transfers = l.transfers /\ r.departure = l.departure
    BY <2>2
  <2>4. r \in LabelType
    BY <2>1, <2>2 DEF LabelType
  <2> QED BY <1>1, <1>2, <2>3, <2>4, RideLabelIs
<1>3. R = IF Continues(e) THEN {r} ELSE {}
  <2> HIDE DEF r, e
  <2>1. R = {r : x \in {y \in {e} : Continues(y)}}
    BY DEF Ride, r, e
  <2> QED BY <2>1
<1>4. \A f \in rows : /\ f \in Events /\ TripOf(f) # TripOf(e) /\ Departure(f) >= Arrival(e)
                      /\ TripOf(f) \in ActiveTrips(query.date) /\ MayBoard(f)
                      /\ Connects(e, f) /\ Continues(f)
  BY BoardingsAre DEF Reachable, Connects
<1>5. ASSUME TRUE
      PROVE  /\ T \in SUBSET LabelType /\ IsFiniteSet(T)
             /\ \A a, b \in T : State(a) = State(b) => a = b
             /\ \A c \in T : IsSound(c) /\ \E f \in rows :
                    /\ State(c) = EventState(f + 1) /\ LabelEvent(c) = f + 1 /\ Board(c) = f
                    /\ c.trip = TripOf(f) /\ c.parent = id /\ c.transfers = l.transfers + 1
                    /\ c.departure = dep[f]
             /\ \A f \in rows : \E c \in T :
                    /\ State(c) = EventState(f + 1) /\ c.transfers = l.transfers + 1
                    /\ c.departure = dep[f]
  <2>1. T = {BoardLabel(f, id, l.transfers + 1, dep[f]) : f \in rows}
    BY DEF Transfers
  <2>2. rows \in SUBSET Events /\ dep \in [rows -> Nat]
    BY <1>1, <1>4
  <2> HIDE DEF rows, dep, T
  <2> DEFINE one == l.transfers + 1
  <2>3. one \in Nat
    BY <1>1
  <2>4. AreBoardings(T, rows, id, one, dep)
    BY <1>4, <2>1, <2>2 DEF AreBoardings
  <2> HIDE DEF one
  <2>5. /\ T \in SUBSET LabelType /\ IsFiniteSet(T)
        /\ \A a, b \in T : State(a) = State(b) => a = b
        /\ \A c \in T : IsSound(c) /\ \E f \in rows :
               /\ State(c) = EventState(f + 1) /\ LabelEvent(c) = f + 1 /\ Board(c) = f
               /\ c.trip = TripOf(f) /\ c.parent = id /\ c.transfers = one
               /\ c.departure = dep[f]
        /\ \A f \in rows : \E c \in T :
               State(c) = EventState(f + 1) /\ c.transfers = one /\ c.departure = dep[f]
    BY <1>1, <2>3, <2>4, BoardingIs
  <2> QED BY <2>5 DEF one
<1>6. \A f \in rows : dep[f] = l.departure
  OBVIOUS
<1>7. ASSUME MayAlight(e), NEW c \in T
      PROVE  IsSound(c) /\ c.parent = id /\ IsChange(c, l) /\ c.trip # l.trip
  <2>1. PICK f \in rows : /\ LabelEvent(c) = f + 1 /\ Board(c) = f
                          /\ c.trip = TripOf(f) /\ c.parent = id
                          /\ c.transfers = l.transfers + 1 /\ c.departure = l.departure
    BY <1>5, <1>6
  <2> QED BY <1>1, <1>4, <1>5, <1>7, <2>1 DEF IsChange
<1>8. \A c \in R : Continues(e) /\ c = r
  BY <1>3
<1>9. C = R \cup (IF MayAlight(e) THEN T ELSE {})
  OBVIOUS
<1> HIDE DEF l, e, rows, dep, R, T, r
<1>10. C \in SUBSET LabelType /\ IsFiniteSet(C)
  <2>1. IsFiniteSet(R) /\ IsFiniteSet(T) /\ IsFiniteSet({})
    BY <1>3, <1>5, FS_EmptySet, FS_Singleton
  <2>2. IsFiniteSet(C)
    BY <1>9, <2>1, FS_Union
  <2>3. C \in SUBSET LabelType
    BY <1>2, <1>5, <1>8, <1>9
  <2> QED BY <2>2, <2>3
<1>11. \A a, b \in C : State(a) = State(b) => a = b
  <2> SUFFICES ASSUME NEW a \in C, NEW b \in C, State(a) = State(b) PROVE a = b
    OBVIOUS
  <2>1. a.trip = b.trip
    BY DEF State
  <2>2. CASE a \in R /\ b \in R
    BY <1>8, <2>2
  <2>3. CASE a \in T /\ b \in T
    BY <1>5, <2>3
  <2>4. CASE a \in R /\ b \in T /\ MayAlight(e)
    BY <1>2, <1>7, <1>8, <2>1, <2>4
  <2>5. CASE b \in R /\ a \in T /\ MayAlight(e)
    BY <1>2, <1>7, <1>8, <2>1, <2>5
  <2> QED BY <1>9, <2>2, <2>3, <2>4, <2>5
<1>12. \A c \in C : IsSound(c) /\ c.parent = id /\ (IsRide(c, l) \/ IsChange(c, l))
  BY <1>2, <1>7, <1>8, <1>9
<1>13. Continues(e) => \E c \in C : /\ State(c) = EventState(e + 1)
                                     /\ c.transfers = l.transfers
                                     /\ c.departure = l.departure
  BY <1>2, <1>3, <1>9
<1>14. MayAlight(e) => \A f \in Reachable(e) : Connects(e, f) =>
            \E c \in C : /\ State(c) = EventState(f + 1)
                         /\ c.transfers = l.transfers + 1
                         /\ c.departure = l.departure
  <2> SUFFICES ASSUME MayAlight(e), NEW f \in Reachable(e), Connects(e, f)
               PROVE  \E c \in C : /\ State(c) = EventState(f + 1)
                                   /\ c.transfers = l.transfers + 1
                                   /\ c.departure = l.departure
    OBVIOUS
  <2>1. f \in rows
    BY DEF rows
  <2> QED BY <1>5, <1>6, <1>9, <2>1
<1> QED BY <1>10, <1>11, <1>12, <1>13, <1>14 DEF AreCandidates, l, e

\* What is covered after a turn that adds labels, in the terms of the state before.
LEMMA ExpandedStays ==
  ASSUME UNCHANGED <<files, offsets, walks, query>>, LabelsInv, BestInv,
         NEW C \in SUBSET LabelType, IsFiniteSet(C),
         \A a, b \in C : State(a) = State(b) => a = b, NEW ids, Enqueue(C, ids),
         NEW l \in LabelType, IsExpanded(l), NEW e, e = LabelEvent(l)
  PROVE  IsExpanded(l)'
<1>1. /\ \A x : /\ EventState(x)' = EventState(x) /\ Stop(x)' = Stop(x)
                /\ MayAlight(x)' <=> MayAlight(x)
                /\ Continues(x)' <=> Continues(x)
      /\ LabelEvent(l)' = e
  BY EventsKept, LabelsKept DEF EventState
<1>2. /\ \A x, f : Connects(x, f)' <=> Connects(x, f)
      /\ \A x : Reachable(x)' = Reachable(x)
  BY ConnectsKept, BoardingsKept
<1>3. l.transfers \in Nat /\ l.transfers + 1 \in Nat /\ l.departure \in Nat
  BY DEF LabelType
<1>4. ASSUME NEW s, NEW n \in Nat, NEW d \in Nat, IsCovered(s, n, d)
      PROVE  IsCovered(s, n, d)'
  BY <1>4, CoverStays DEF LabelsInv, BestInv
<1>5. /\ ~(Stop(e) = query.destination /\ MayAlight(e))
      /\ Continues(e) => IsCovered(EventState(e + 1), l.transfers, l.departure)
      /\ MayAlight(e) => \A f \in Reachable(e) :
            Connects(e, f) => IsCovered(EventState(f + 1), l.transfers + 1, l.departure)
  BY DEF IsExpanded, IsCoveredAt
<1>6. /\ Continues(e) => IsCovered(EventState(e + 1), l.transfers, l.departure)'
      /\ MayAlight(e) => \A f \in Reachable(e) :
            Connects(e, f) => IsCovered(EventState(f + 1), l.transfers + 1, l.departure)'
  <2>1. ASSUME NEW x, IsCovered(EventState(x), l.transfers, l.departure)
        PROVE  IsCovered(EventState(x), l.transfers, l.departure)'
    <3>1. \A s : s = EventState(x) => IsCovered(s, l.transfers, l.departure)'
      BY <1>3, <1>4, <2>1
    <3> QED BY <1>1, <3>1 DEF IsCovered
  <2>2. ASSUME NEW x, IsCovered(EventState(x), l.transfers + 1, l.departure)
        PROVE  IsCovered(EventState(x), l.transfers + 1, l.departure)'
    <3>1. \A s : s = EventState(x) => IsCovered(s, l.transfers + 1, l.departure)'
      BY <1>3, <1>4, <2>2
    <3> QED BY <1>1, <3>1 DEF IsCovered
  <2> QED BY <1>5, <2>1, <2>2
<1>7. /\ ~(Stop(LabelEvent(l)) = query.destination /\ MayAlight(LabelEvent(l)))'
      /\ (Continues(LabelEvent(l)) => IsCoveredAt(LabelEvent(l) + 1, l.transfers, l.departure))'
  <2>1. /\ Stop(LabelEvent(l))' = Stop(e) /\ query.destination' = query.destination
        /\ MayAlight(LabelEvent(l))' <=> MayAlight(e)
        /\ Continues(LabelEvent(l))' <=> Continues(e)
        /\ EventState(LabelEvent(l) + 1)' = EventState(e + 1)
    BY <1>1, EventsKept
  <2>2. ~(Stop(LabelEvent(l))' = query.destination' /\ MayAlight(LabelEvent(l))')
    BY <1>5, <2>1
  <2>3. Continues(e) => IsCovered(EventState(LabelEvent(l) + 1), l.transfers, l.departure)'
    BY <1>1, <1>6, <2>1 DEF IsCovered
  <2> QED BY <2>1, <2>2, <2>3 DEF IsCoveredAt
<1>8. (MayAlight(LabelEvent(l)) => \A f \in Reachable(LabelEvent(l)) :
         Connects(LabelEvent(l), f) => IsCoveredAt(f + 1, l.transfers + 1, l.departure))'
  BY <1>1, <1>2, <1>6 DEF IsCoveredAt
<1> QED BY <1>7, <1>8 DEF IsExpanded

\* A turn takes a label out of the heap and puts in what it leads to.
LEMMA ExpandKeeps ==
  ASSUME PlannerIInv, SearchInv, query # NoAnswer, NEW id, Expand(id)
  PROVE  SearchInv'
<1> DEFINE C == Ride(id) \cup IF MayAlight(LabelEvent(labels[id])) THEN Transfers(id) ELSE {}
<1>1. /\ offsets # <<>> /\ answer = NoAnswer /\ LabelsInv /\ BestInv /\ SettledInv
      /\ UNCHANGED <<files, offsets, walks, query, answer>>
      /\ Enqueue(C, queue \ {id}) /\ id \in queue /\ ~Arrived(id)
      /\ best[State(labels[id])] = id
  BY DEF SearchInv, Expand, IsNext, IsStale
<1>2. Schedule /\ id \in DOMAIN labels
  BY <1>1, ScheduleIs DEF BestInv
<1>3. AreCandidates(C, id)
  BY <1>1, <1>2, CandidatesAre
<1> HIDE DEF C
<1>4. /\ C \in SUBSET LabelType /\ IsFiniteSet(C)
      /\ \A a, b \in C : State(a) = State(b) => a = b
      /\ \A c \in C : /\ IsSound(c) /\ c.parent = id
                      /\ IsRide(c, labels[id]) \/ IsChange(c, labels[id])
  BY <1>3 DEF AreCandidates
<1>5. id # 0 /\ id \in Nat /\ \A i \in DOMAIN labels : labels[i] \in LabelType
  BY <1>1, <1>2 DEF LabelsInv
<1>6. LabelsInv' /\ BestInv'
  <2>1. queue \ {id} \in SUBSET queue
    OBVIOUS
  <2>2. \A c \in C : /\ IsSound(c) /\ c.parent # 0 /\ c.parent \in DOMAIN labels
                     /\ IsRide(c, labels[c.parent]) \/ IsChange(c, labels[c.parent])
    BY <1>2, <1>4, <1>5
  <2> QED BY <1>1, <1>4, <2>1, <2>2, GrowKeeps
<1>7. /\ queue' = (queue \ {id}) \cup New
      /\ \A i \in DOMAIN labels : i \in DOMAIN labels' /\ labels'[i] = labels[i]
      /\ \A i \in New : \A k \in DOMAIN labels : k < i
      /\ \A s \in DOMAIN best' : \/ s \in DOMAIN best /\ best'[s] = best[s]
                                 \/ best'[s] \in New
      /\ \A c \in C : IsCovered(State(c), c.transfers, c.departure)'
  BY <1>1, <1>4, EnqueueIs DEF LabelsInv, BestInv
<1>8. ASSUME NEW s, NEW n \in Nat, NEW d \in Nat, IsCovered(s, n, d)
      PROVE  IsCovered(s, n, d)'
  BY <1>1, <1>4, <1>8, CoverStays DEF LabelsInv, BestInv
<1>9. /\ Boardings(query.origin, query.after)' = Boardings(query.origin, query.after)
      /\ \A e : /\ EventState(e)' = EventState(e) /\ Departure(e)' = Departure(e)
                /\ Continues(e)' <=> Continues(e)
  <2>1. Boardings(query.origin, query.after)' = Boardings(query.origin, query.after)
    BY <1>1, BoardingsKept
  <2> QED BY <1>1, <2>1, EventsKept DEF EventState
<1>10. (labels # <<>> => \A e \in Boardings(query.origin, query.after) :
            Continues(e) => IsCoveredAt(e + 1, 0, Departure(e)))'
  <2>1. ASSUME NEW e \in Boardings(query.origin, query.after), Continues(e)
        PROVE  IsCovered(EventState(e + 1), 0, Departure(e))'
    <3>1. labels # <<>>
      BY <1>2
    <3>2. IsCovered(EventState(e + 1), 0, Departure(e))
      BY <1>1, <2>1, <3>1 DEF SettledInv, IsCoveredAt
    <3>3. Departure(e) \in Nat
      BY <1>2, BoardingsAre, EventIs
    <3>4. \A s, d : s = EventState(e + 1) /\ d = Departure(e) => IsCovered(s, 0, d)'
      <4> DEFINE zero == 0
      <4>1. zero \in Nat /\ zero = 0
        OBVIOUS
      <4> HIDE DEF zero
      <4>2. \A s, d : s = EventState(e + 1) /\ d = Departure(e) => IsCovered(s, zero, d)'
        BY <1>8, <3>2, <3>3, <4>1
      <4> QED BY <4>1, <4>2
    <3> QED BY <1>9, <3>4 DEF IsCovered
  <2> QED BY <1>9, <2>1 DEF IsCoveredAt
<1>11. ASSUME NEW i \in DOMAIN labels' \ queue', best'[State(labels'[i])] = i
       PROVE  IsExpanded(labels[i])'
  <2>1. i \in DOMAIN labels /\ (i = id \/ i \notin queue) /\ i \notin New
    BY <1>7, <1>11 DEF New
  <2>2. ASSUME NEW l, l = labels[i]
        PROVE  IsExpanded(l)'
    <3>1. l \in LabelType /\ l = labels'[i]
      BY <1>5, <1>7, <2>1, <2>2
    <3>2. ASSUME i # id PROVE IsExpanded(l)'
      <4>1. State(l) \in DOMAIN best
        BY <1>1, <2>1, <2>2 DEF BestInv, IsCovered
      <4>2. State(l) \in DOMAIN best'
        <5>1. DOMAIN best \subseteq DOMAIN best'
          BY <1>1, <1>4, EnqueueIs DEF LabelsInv, BestInv
        <5> QED BY <4>1, <5>1
      <4>3. best[State(l)] = i
        BY <1>7, <1>11, <2>1, <3>1, <4>2
      <4>4. IsExpanded(l)
        BY <1>1, <2>1, <2>2, <3>2, <4>3 DEF SettledInv
      <4>5. \A e : e = LabelEvent(l) => IsExpanded(l)'
        BY <1>1, <1>4, <3>1, <4>4, ExpandedStays
      <4> QED BY <4>5
    <3>3. ASSUME i = id PROVE IsExpanded(l)'
      <4>1. ASSUME NEW e, e = LabelEvent(l)
            PROVE  /\ ~(Stop(e) = query.destination /\ MayAlight(e))
                   /\ Continues(e) => \A s : s = EventState(e + 1) =>
                        IsCovered(s, l.transfers, l.departure)'
                   /\ MayAlight(e) => \A f \in Reachable(e) : Connects(e, f) =>
                        \A s : s = EventState(f + 1) =>
                            IsCovered(s, l.transfers + 1, l.departure)'
        <5>1. ~(Stop(e) = query.destination /\ MayAlight(e))
          BY <1>1, <2>2, <3>3, <4>1 DEF Arrived
        <5>2. Continues(e) => \E c \in C : /\ State(c) = EventState(e + 1)
                                           /\ c.transfers = l.transfers
                                           /\ c.departure = l.departure
          BY <1>3, <2>2, <3>3, <4>1 DEF AreCandidates
        <5>3. MayAlight(e) => \A f \in Reachable(e) : Connects(e, f) =>
                \E c \in C : /\ State(c) = EventState(f + 1)
                             /\ c.transfers = l.transfers + 1
                             /\ c.departure = l.departure
          BY <1>3, <2>2, <3>3, <4>1 DEF AreCandidates
        <5>4. \A c \in C : \A s, n, d :
                s = State(c) /\ n = c.transfers /\ d = c.departure => IsCovered(s, n, d)'
          BY <1>7
        <5> QED BY <5>1, <5>2, <5>3, <5>4
      <4>2. /\ \A e : /\ EventState(e)' = EventState(e) /\ Stop(e)' = Stop(e)
                      /\ MayAlight(e)' <=> MayAlight(e)
                      /\ Continues(e)' <=> Continues(e)
                      /\ Reachable(e)' = Reachable(e)
            /\ \A e, f : Connects(e, f)' <=> Connects(e, f)
            /\ LabelEvent(l)' = LabelEvent(l)
        BY <1>1, EventsKept, LabelsKept, ConnectsKept, BoardingsKept DEF EventState
      <4>3. ASSUME NEW e, e = LabelEvent(l)'
            PROVE  /\ ~(Stop(e) = query.destination /\ MayAlight(e))'
                   /\ (Continues(e) => IsCoveredAt(e + 1, l.transfers, l.departure))'
                   /\ (MayAlight(e) => \A f \in Reachable(e) :
                        Connects(e, f) => IsCoveredAt(f + 1, l.transfers + 1, l.departure))'
        <5>1. \A x : x = LabelEvent(l) <=> x = e
          BY <4>2, <4>3
        <5>2. query.destination' = query.destination
          BY <1>1
        <5> QED BY <4>1, <4>2, <5>1, <5>2 DEF IsCoveredAt, IsCovered
      <4> QED BY <4>3 DEF IsExpanded
    <3> QED BY <3>2, <3>3
  <2>3. \A l : l = labels'[i] => IsExpanded(l)'
    BY <1>7, <2>1, <2>2
  <2> QED BY <2>3 DEF IsExpanded, LabelEvent
<1>12. SettledInv'
  <2>1. (\A i \in DOMAIN labels \ queue : best[State(labels[i])] = i => IsExpanded(labels[i]))'
    BY <1>11 DEF State
  <2> QED BY <1>10, <2>1 DEF SettledInv
<1> QED BY <1>1, <1>6, <1>12 DEF SearchInv

\* A label that a better one has replaced may be taken out of the heap.
LEMMA SkipKeeps ==
  ASSUME SearchInv, query # NoAnswer, queue' \subseteq queue,
         UNCHANGED <<files, offsets, walks, query, labels, best, answer>>,
         \A i \in queue \ queue' : best[State(labels[i])] # i
  PROVE  SearchInv'
<1>1. /\ offsets # <<>> /\ answer = NoAnswer /\ LabelsInv /\ BestInv /\ SettledInv
      /\ UNCHANGED <<files, offsets, walks, query, labels, best, answer>>
      /\ queue' \subseteq queue
  BY DEF SearchInv
<1>2. /\ \A l : /\ IsSound(l)' <=> IsSound(l)
                /\ IsFirst(l)' <=> IsFirst(l)
                /\ LabelEvent(l)' = LabelEvent(l)
      /\ \A l, p : /\ IsRide(l, p)' <=> IsRide(l, p)
                   /\ IsChange(l, p)' <=> IsChange(l, p)
  BY <1>1, LabelsKept
<1>3. LabelsInv'
  BY <1>1, <1>2 DEF LabelsInv, IsAfter
<1>4. \A s, n, d : IsCovered(s, n, d)' <=> IsCovered(s, n, d)
  BY <1>1, CoverDependsOnLabels
<1>5. BestInv'
  <2>1. /\ queue \subseteq DOMAIN labels
        /\ \A s \in DOMAIN best : best[s] \in DOMAIN labels /\ State(labels[best[s]]) = s
        /\ \A i \in DOMAIN labels :
            IsCovered(State(labels[i]), labels[i].transfers, labels[i].departure)
        /\ \A i, k \in DOMAIN labels : i < k /\ State(labels[i]) = State(labels[k]) =>
            Less(Rank(labels[k]), Rank(labels[i]))
    BY <1>1 DEF BestInv
  <2>2. /\ queue' \subseteq DOMAIN labels'
        /\ (\A s \in DOMAIN best : best[s] \in DOMAIN labels /\ State(labels[best[s]]) = s)'
    BY <1>1, <2>1 DEF State
  <2>3. (\A i \in DOMAIN labels :
            IsCovered(State(labels[i]), labels[i].transfers, labels[i].departure))'
    BY <1>1, <2>1 DEF IsCovered, State, Rank
  <2>4. (\A i, k \in DOMAIN labels : i < k /\ State(labels[i]) = State(labels[k]) =>
            Less(Rank(labels[k]), Rank(labels[i])))'
    <3>1. \A a, b : Less(a, b)' <=> Less(a, b)
      BY DEF Less
    <3>2. \A l : State(l)' = State(l) /\ Rank(l)' = Rank(l)
      BY DEF State, Rank
    <3> QED BY <1>1, <2>1, <3>1, <3>2
  <2> QED BY <2>2, <2>3, <2>4 DEF BestInv
<1>6. /\ \A e : /\ EventState(e)' = EventState(e) /\ Departure(e)' = Departure(e)
                /\ Continues(e)' <=> Continues(e)
                /\ MayAlight(e)' <=> MayAlight(e)
                /\ Stop(e)' = Stop(e) /\ Reachable(e)' = Reachable(e)
      /\ \A e, f : Connects(e, f)' <=> Connects(e, f)
      /\ Boardings(query.origin, query.after)' = Boardings(query.origin, query.after)
  <2>1. Boardings(query.origin, query.after)' = Boardings(query.origin, query.after)
    BY <1>1, BoardingsKept
  <2> QED BY <1>1, <2>1, EventsKept, ConnectsKept, BoardingsKept DEF EventState
<1>7. \A e, n, d : IsCoveredAt(e, n, d)' <=> IsCoveredAt(e, n, d)
  BY <1>1, <1>6 DEF IsCoveredAt, IsCovered, Rank
<1>8. \A l : IsExpanded(l) => IsExpanded(l)'
  <2> SUFFICES ASSUME NEW l, IsExpanded(l) PROVE IsExpanded(l)'
    OBVIOUS
  <2>1. /\ LabelEvent(l)' = LabelEvent(l) /\ query.destination' = query.destination
    BY <1>1, <1>2
  <2> QED BY <1>6, <1>7, <2>1 DEF IsExpanded
<1>9. SettledInv'
  <2>1. (labels # <<>> => \A e \in Boardings(query.origin, query.after) :
            Continues(e) => IsCoveredAt(e + 1, 0, Departure(e)))'
    <3>1. \A e \in Boardings(query.origin, query.after) :
            labels # <<>> /\ Continues(e) => IsCovered(EventState(e + 1), 0, Departure(e))
      BY <1>1 DEF SettledInv, IsCoveredAt
    <3> QED BY <1>1, <1>4, <1>6, <3>1 DEF IsCoveredAt, IsCovered, Rank
  <2>2. ASSUME NEW i \in DOMAIN labels' \ queue', best'[State(labels'[i])] = i
        PROVE  IsExpanded(labels[i])'
    <3>1. i \in DOMAIN labels \ queue /\ best[State(labels[i])] = i
      <4>1. State(labels'[i]) = State(labels[i]) /\ best' = best /\ i \in DOMAIN labels
        BY <1>1, <2>2
      <4> QED BY <2>2, <4>1
    <3>2. IsExpanded(labels[i])
      BY <1>1, <3>1 DEF SettledInv
    <3>3. \A l : l = labels[i] => IsExpanded(l)'
      BY <1>8, <3>2
    <3> QED BY <1>1, <3>3 DEF IsExpanded, LabelEvent
  <2> QED BY <2>1, <2>2 DEF SettledInv, State
<1> QED BY <1>1, <1>3, <1>5, <1>9 DEF SearchInv

\* A search that has not begun.
LEMMA SearchStarts ==
  labels = <<>> /\ best = <<>> /\ queue = {} => LabelsInv /\ BestInv /\ SettledInv
<1> SUFFICES ASSUME labels = <<>>, best = <<>>, queue = {}
             PROVE  LabelsInv /\ BestInv /\ SettledInv
  OBVIOUS
<1>1. DOMAIN labels = {} /\ DOMAIN best = {}
  OBVIOUS
<1>2. labels \in Seq(LabelType)
  OBVIOUS
<1> QED BY <1>1, <1>2 DEF LabelsInv, BestInv, SettledInv

LEMMA OffsetsBegin == TripOffsets # <<>>
<1>1. 1 \in DOMAIN TripOffsets
  BY DEF TripOffsets
<1> QED BY <1>1

LEMMA SearchSteps ==
  ASSUME PlannerIInv, SearchInv, [Next]_vars
  PROVE  SearchInv'
<1>1. CASE UNCHANGED vars
  <2>1. CASE query = NoAnswer
    BY <1>1, <2>1 DEF vars, searchVars, SearchInv
  <2>2. CASE query # NoAnswer
    <3>1. /\ UNCHANGED <<files, offsets, walks, query, labels, best, answer>>
          /\ queue' = queue
      BY <1>1 DEF vars, searchVars
    <3> QED BY <2>2, <3>1, SkipKeeps
  <2> QED BY <2>1, <2>2
<1>2. CASE LoadFiles
  <2>1. PICK f \in Loaders : Load(f) \/ RefuseDirectory(f)
    BY <1>2 DEF LoadFiles
  <2>2. stage # "ready"
    BY <2>1, LoadStep DEF PlannerIInv
  <2>3. query = NoAnswer /\ query' = query /\ queue' = queue
    BY <1>2, <2>2 DEF PlannerIInv, QueryInv, LoadFiles, searchVars
  <2> QED BY <2>3 DEF SearchInv
<1>3. CASE BoardAtOrigin
  BY <1>3, OriginKeeps
<1>4. CASE GiveUp
  BY <1>4 DEF GiveUp, Return, SearchInv
<1>5. ASSUME NEW id \in queue, SkipStale(id) \/ Arrive(id) \/ Expand(id) \/ RefuseTransfer(id)
      PROVE  SearchInv'
  <2>1. query # NoAnswer
    BY DEF SearchInv
  <2>2. CASE SkipStale(id)
    <3>1. /\ UNCHANGED <<files, offsets, walks, query, labels, best, answer>>
          /\ queue' = queue \ {id} /\ best[State(labels[id])] # id
      BY <2>2 DEF SkipStale, IsStale
    <3> QED BY <2>1, <3>1, SkipKeeps
  <2>3. CASE Expand(id)
    BY <2>1, <2>3, ExpandKeeps
  <2>4. CASE Arrive(id) \/ RefuseTransfer(id)
    BY <2>4 DEF Arrive, RefuseTransfer, Return, SearchInv
  <2> QED BY <1>5, <2>2, <2>3, <2>4
<1>6. ASSUME NEW q \in Queries, Ask(q)
      PROVE  SearchInv'
  <2>1. CASE RejectQuery(q) \/ AnswerTrivially(q) \/ FindDirect(q)
    BY <2>1 DEF RejectQuery, AnswerTrivially, FindDirect, Idle, searchVars, SearchInv
  <2>2. CASE FindEarliest(q)
    <3>1. /\ labels' = <<>> /\ best' = <<>> /\ queue' = {} /\ answer' = NoAnswer
          /\ offsets' # <<>>
      BY <2>2, OffsetsBegin DEF FindEarliest
    <3>2. LabelsInv' /\ BestInv' /\ SettledInv'
      <4>1. (labels = <<>> /\ best = <<>> /\ queue = {})'
        BY <3>1
      <4>2. (LabelsInv /\ BestInv /\ SettledInv)'
        BY <4>1, SearchStarts, PTL
      <4> QED BY <4>2
    <3> QED BY <3>1, <3>2 DEF SearchInv
  <2> QED BY <1>6, <2>1, <2>2 DEF Ask
<1> QED BY <1>1, <1>2, <1>3, <1>4, <1>5, <1>6 DEF Next, SearchStep

\* The search keeps its labels, its heap and what it is done with in step
\* (local_gtfs.py: find_earliest_journey, _enqueue_search_label).
THEOREM SearchInvariant == Spec => []SearchInv
<1>1. Init => SearchInv
  BY DEF Init, SearchInv
<1>2. PlannerIInv /\ SearchInv /\ [Next]_vars => SearchInv'
  BY SearchSteps
<1> QED BY <1>1, <1>2, PlannerInvariant, PTL DEF Spec

-----------------------------------------------------------------------------
(* Journeys, without the recursion: sequences of rides that follow each    *)
(* other.  The last ride of a way may end where nobody may alight.         *)

IsPart(r, date) ==
    /\ r[1] \in Events /\ r[2] \in Events /\ r[1] < r[2] /\ TripOf(r[1]) = TripOf(r[2])
    /\ TripOf(r[1]) \in ActiveTrips(date) /\ MayBoard(r[1])
    /\ \A g \in r[1] .. r[2] - 1 : Arrival(g + 1) >= Departure(g)

Follows(r, s) ==
    /\ MayAlight(r[2]) /\ TripOf(r[2]) # TripOf(s[1]) /\ Connects(r[2], s[1])
    /\ Departure(s[1]) >= Arrival(r[2])

IsWay(j, q) ==
    /\ j \in Seq(Events \X Events) /\ Len(j) > 0
    /\ Stop(j[1][1]) = q.origin /\ Departure(j[1][1]) >= q.after
    /\ \A i \in 1 .. Len(j) : IsPart(j[i], q.date)
    /\ \A i \in 1 .. Len(j) - 1 : Follows(j[i], j[i + 1])
    /\ \A i, k \in 1 .. Len(j) : i < k => Passed(j[i]) \cap Passed(j[k]) = {}

IsJourney(j, q) ==
    /\ IsWay(j, q)
    /\ MayAlight(j[Len(j)][2]) /\ Stop(j[Len(j)][2]) = q.destination

\* A trip goes on within a ride.
LEMMA PartIs ==
  ASSUME Schedule, NEW r, NEW date, IsPart(r, date)
  PROVE  /\ r[1] \in Nat /\ r[2] \in Nat
         /\ \A g \in r[1] .. r[2] : g \in Events /\ g \in Nat /\ TripOf(g) = TripOf(r[1])
         /\ \A g \in r[1] .. r[2] - 1 : Continues(g) /\ g + 1 \in Passed(r)
         /\ r[1] + 1 \in Passed(r) /\ r[2] \in Passed(r)
<1>1. /\ r[1] \in Events /\ r[2] \in Events /\ r[1] < r[2] /\ TripOf(r[1]) = TripOf(r[2])
      /\ \A g \in r[1] .. r[2] - 1 : Arrival(g + 1) >= Departure(g)
  BY DEF IsPart
<1>2. r[1] \in Nat /\ r[2] \in Nat
  BY <1>1, EventsAreFinite
<1>3. \A g \in r[1] .. r[2] : g \in Events /\ g \in Nat /\ TripOf(g) = TripOf(r[1])
  BY <1>1, BetweenIs, EventsAreFinite
<1>4. \A g \in r[1] .. r[2] - 1 : Continues(g)
  <2> TAKE g \in r[1] .. r[2] - 1
  <2>1. g \in r[1] .. r[2] /\ g + 1 \in r[1] .. r[2]
    BY <1>2
  <2>2. /\ g \in Events /\ g + 1 \in Events /\ TripOf(g + 1) = TripOf(g)
        /\ Arrival(g + 1) >= Departure(g)
    BY <1>1, <1>3, <2>1
  <2> QED BY <2>2, ContinuesIs
<1>5. \A g \in r[1] .. r[2] - 1 : g + 1 \in Passed(r)
  BY <1>2 DEF Passed
<1>6. r[1] + 1 \in Passed(r) /\ r[2] \in Passed(r)
  BY <1>1, <1>2 DEF Passed
<1> QED BY <1>2, <1>3, <1>4, <1>5, <1>6

\* On a timely schedule a ride comes to its events in the order of time.
LEMMA PartIsTimed ==
  ASSUME Schedule, Timely, NEW r, NEW date, IsPart(r, date), NEW g \in Passed(r)
  PROVE  /\ Arrival(g) <= Arrival(r[2]) /\ Departure(r[1]) <= Arrival(g)
         /\ Arrival(g) \in Nat /\ Arrival(r[2]) \in Nat /\ Departure(r[1]) \in Nat
<1>1. /\ r[1] \in Nat /\ r[2] \in Nat
      /\ \A h \in r[1] .. r[2] : h \in Events /\ h \in Nat
      /\ g \in r[1] + 1 .. r[2] /\ g \in r[1] .. r[2]
  <2>1. r[1] \in Nat /\ r[2] \in Nat /\ \A h \in r[1] .. r[2] : h \in Events /\ h \in Nat
    BY PartIs
  <2> QED BY <2>1 DEF Passed
<1>2. \A h \in r[1] .. r[2] : Arrival(h) \in Nat /\ Departure(h) \in Nat /\ Arrival(h) <= Departure(h)
  BY <1>1, EventIs DEF Timely, Events
<1>3. \A h \in r[1] .. r[2] - 1 : Arrival(h + 1) >= Departure(h)
  BY DEF IsPart
<1>4. ASSUME NEW a \in r[1] .. r[2], NEW b \in a .. r[2]
      PROVE  Arrival(a) <= Arrival(b)
  <2> DEFINE Bad == {h \in a .. r[2] : ~(Arrival(a) <= Arrival(h))}
  <2>1. SUFFICES ASSUME Bad # {} PROVE FALSE
    BY <1>4
  <2>2. PICK h \in Bad : \A k \in Bad : h <= k
    <3>1. Bad \in SUBSET Nat
      BY <1>1
    <3> HIDE DEF Bad
    <3> QED BY <2>1, <3>1, LeastExists
  <2>3. h \in a .. r[2] /\ h # a /\ ~(Arrival(a) <= Arrival(h)) /\ a \in Nat
    BY <1>1, <1>2
  <2>4. h - 1 \in a .. r[2] /\ h - 1 \notin Bad
    BY <1>1, <2>2, <2>3
  <2>5. Arrival(a) <= Arrival(h - 1)
    BY <2>4
  <2>6. h - 1 \in r[1] .. r[2] - 1 /\ h - 1 \in r[1] .. r[2] /\ h \in r[1] .. r[2] /\ (h - 1) + 1 = h
    BY <1>1, <2>3, <2>4
  <2>7. Arrival(h - 1) <= Departure(h - 1) /\ Arrival(h) >= Departure(h - 1)
    BY <1>2, <1>3, <2>6
  <2> QED BY <1>2, <2>3, <2>5, <2>6, <2>7
<1>5. Arrival(g) <= Arrival(r[2])
  <2>1. r[2] \in g .. r[2]
    BY <1>1
  <2> QED BY <1>1, <1>4, <2>1
<1>6. Departure(r[1]) <= Arrival(g)
  <2>1. /\ r[1] \in r[1] .. r[2] - 1 /\ r[1] + 1 \in r[1] .. r[2] /\ g \in r[1] + 1 .. r[2]
        /\ r[1] \in r[1] .. r[2]
    BY <1>1
  <2>2. Arrival(r[1] + 1) <= Arrival(g) /\ Departure(r[1]) <= Arrival(r[1] + 1)
    BY <1>3, <1>4, <2>1
  <2> QED BY <1>1, <1>2, <2>1, <2>2
<1> QED
  <2>1. r[1] \in r[1] .. r[2] /\ r[2] \in r[1] .. r[2]
    BY <1>1
  <2> QED BY <1>1, <1>2, <1>5, <1>6, <2>1

\* On a timely schedule a way comes to its events before it ends.
LEMMA WayIsTimed ==
  ASSUME Schedule, Timely, NEW j, NEW q, IsWay(j, q), NEW i \in 1 .. Len(j), NEW g \in Passed(j[i])
  PROVE  /\ Arrival(g) <= Arrival(j[Len(j)][2])
         /\ Arrival(g) \in Nat /\ Arrival(j[Len(j)][2]) \in Nat
<1> DEFINE n == Len(j)
           End(k) == Arrival(j[k][2])
<1>1. /\ n \in Nat /\ n > 0 /\ n \in 1 .. n
      /\ \A k \in 1 .. n : IsPart(j[k], q.date)
      /\ \A k \in 1 .. n - 1 : Follows(j[k], j[k + 1])
  BY DEF IsWay
<1>2. \A k \in 1 .. n : /\ End(k) \in Nat /\ Departure(j[k][1]) \in Nat
                        /\ Departure(j[k][1]) <= End(k)
  <2> TAKE k \in 1 .. n
  <2>1. IsPart(j[k], q.date)
    BY <1>1
  <2>2. j[k][2] \in Passed(j[k])
    BY <2>1, PartIs
  <2> QED BY <2>1, <2>2, PartIsTimed
<1>3. \A k \in 1 .. n - 1 : End(k) <= End(k + 1)
  <2> TAKE k \in 1 .. n - 1
  <2>1. k \in 1 .. n /\ k + 1 \in 1 .. n
    BY <1>1
  <2>2. Departure(j[k + 1][1]) >= End(k)
    BY <1>1 DEF Follows
  <2> HIDE DEF End
  <2> QED BY <1>2, <2>1, <2>2
<1>4. Arrival(g) <= End(i) /\ Arrival(g) \in Nat
  BY <1>1, PartIsTimed
<1> HIDE DEF n, End
<1>5. End(i) <= End(n)
  <2> DEFINE Bad == {h \in i .. n : ~(End(i) <= End(h))}
  <2>0. i \in 1 .. n /\ i \in Nat
    BY DEF n
  <2>1. SUFFICES ASSUME Bad # {} PROVE FALSE
    BY <1>1, <2>0
  <2>2. PICK h \in Bad : \A k \in Bad : h <= k
    <3>1. Bad \in SUBSET Nat
      BY <1>1, <2>0
    <3> HIDE DEF Bad
    <3> QED BY <2>1, <3>1, LeastExists
  <2>3. h \in i .. n /\ ~(End(i) <= End(h)) /\ h # i
    BY <1>2, <2>0
  <2>4. h - 1 \in i .. n /\ h - 1 \notin Bad /\ h - 1 \in 1 .. n - 1 /\ (h - 1) + 1 = h
    BY <1>1, <2>0, <2>2, <2>3
  <2>5. End(i) <= End(h - 1) /\ End(h - 1) <= End(h)
    <3>1. End(i) <= End(h - 1)
      BY <2>4
    <3> QED BY <1>3, <2>4, <3>1
  <2>6. End(i) \in Nat /\ End(h - 1) \in Nat /\ End(h) \in Nat
    BY <1>1, <1>2, <2>0, <2>3, <2>4
  <2> QED BY <2>3, <2>5, <2>6
<1>6. End(i) \in Nat /\ End(n) \in Nat
  <2>1. i \in 1 .. n
    BY DEF n
  <2> QED BY <1>1, <1>2, <2>1
<1>7. Arrival(g) <= End(n)
  BY <1>4, <1>5, <1>6
<1> QED BY <1>4, <1>6, <1>7 DEF End, n

\* A label that is at least as good covers as much.
LEMMA CoverWeakens ==
  ASSUME LabelsInv, BestInv, NEW s, NEW a \in Nat, NEW b \in Nat, NEW n \in Nat, NEW d \in Nat,
         IsCovered(s, a, b), a < n \/ (a = n /\ b >= d)
  PROVE  IsCovered(s, n, d)
<1> DEFINE l == labels[best[s]]
<1>1. s \in DOMAIN best /\ ~Less(<<a, -b>>, Rank(l)) /\ l \in LabelType
  BY DEF IsCovered, BestInv, LabelsInv
<1> HIDE DEF l
<1>2. /\ Rank(l) = <<l.transfers, -l.departure>> /\ l.transfers \in Int /\ -l.departure \in Int
  BY <1>1, RankIs
<1>3. ~(a < l.transfers \/ (a = l.transfers /\ -b < -l.departure))
  BY <1>1, <1>2, LessTwo
<1>4. ~(n < l.transfers \/ (n = l.transfers /\ -d < -l.departure))
  BY <1>2, <1>3
<1>5. ~Less(<<n, -d>>, Rank(l))
  BY <1>2, <1>4, LessTwo
<1> QED BY <1>1, <1>5 DEF IsCovered, l

\* A change of a journey is one that the search looks at.
LEMMA ChangeIsReachable ==
  ASSUME NEW q, q = query, NEW r, NEW s, IsPart(r, q.date), IsPart(s, q.date), Follows(r, s)
  PROVE  s[1] \in Reachable(r[2])
<1> DEFINE e == r[2]
           f == s[1]
<1>1. /\ f \in Events /\ TripOf(e) # TripOf(f) /\ Connects(e, f)
      /\ TripOf(f) \in ActiveTrips(query.date) /\ MayBoard(f) /\ Departure(f) >= Arrival(e)
  BY DEF IsPart, Follows
<1> HIDE DEF e, f
<1>2. RulesBetween(Stop(e), Stop(f)) # {} \/ Stop(f) \in DOMAIN walks[Stop(e)]
  <2> SUFFICES ASSUME RulesBetween(Stop(e), Stop(f)) = {}
               PROVE  Stop(f) \in DOMAIN walks[Stop(e)]
    OBVIOUS
  <2>1. MostSpecific(Applicable(e, f)) = {}
    BY DEF Applicable, MostSpecific
  <2> QED BY <1>1, <2>1 DEF Connects, MayTransfer
<1>3. f \in Boardings(Stop(f), Arrival(e))
  BY <1>1, BoardingsAre
<1> QED BY <1>1, <1>2, <1>3 DEF Reachable, Events, e, f

\* The key of a label in the heap, as far as costs go.
LabelCost(l) == <<Arrival(LabelEvent(l)), l.transfers, -l.departure>>

WayCost(j) == <<Arrival(j[Len(j)][2]), Len(j) - 1, -Departure(j[1][1])>>

\* As long as a journey has not been found, the heap holds a label that costs no
\* more: somewhere on the journey the search has not gone on from a best label.
LEMMA JourneyIsOpen ==
  ASSUME Schedule, Timely, LabelsInv, BestInv, SettledInv,
         labels = <<>> => \A e \in Boardings(query.origin, query.after) : ~Continues(e),
         NEW q, q = query, NEW j, IsJourney(j, q)
  PROVE  \E k \in queue : ~Less(WayCost(j), LabelCost(labels[k]))
<1> DEFINE n == Len(j)
           dep == Departure(j[1][1])
<1>1. SUFFICES ASSUME \A k \in queue : Less(WayCost(j), LabelCost(labels[k])) PROVE FALSE
  OBVIOUS
<1>2. /\ n \in Nat /\ n > 0 /\ 1 \in 1 .. n /\ n \in 1 .. n /\ IsWay(j, q)
      /\ \A i \in 1 .. n : IsPart(j[i], q.date)
      /\ \A i \in 1 .. n - 1 : Follows(j[i], j[i + 1])
      /\ Stop(j[1][1]) = query.origin /\ dep >= query.after
      /\ MayAlight(j[n][2]) /\ Stop(j[n][2]) = query.destination
  <2>1. /\ IsWay(j, q) /\ MayAlight(j[n][2]) /\ Stop(j[n][2]) = query.destination
    BY DEF IsJourney
  <2>2. n \in Nat /\ n > 0
    BY <2>1 DEF IsWay
  <2>3. 1 \in 1 .. n /\ n \in 1 .. n
    BY <2>2
  <2>4. /\ \A i \in 1 .. n : IsPart(j[i], q.date)
        /\ \A i \in 1 .. n - 1 : Follows(j[i], j[i + 1])
        /\ Stop(j[1][1]) = query.origin /\ dep >= query.after
    BY <2>1 DEF IsWay
  <2> QED BY <2>1, <2>2, <2>3, <2>4
<1>3. dep \in Nat /\ j[1][1] \in Events
  <2>1. IsPart(j[1], q.date)
    BY <1>2
  <2>2. j[1][1] \in Events
    BY <2>1 DEF IsPart
  <2> QED BY <2>2, EventIs
<1>4. \A i \in 1 .. n : \A g \in Passed(j[i]) : g \in Events /\ g \in Nat
  <2> TAKE i \in 1 .. n
  <2>1. IsPart(j[i], q.date)
    BY <1>2
  <2>2. /\ \A g \in j[i][1] .. j[i][2] : g \in Events /\ g \in Nat
        /\ j[i][1] \in Nat /\ j[i][2] \in Nat
    BY <2>1, PartIs
  <2>3. Passed(j[i]) \subseteq j[i][1] .. j[i][2]
    BY <2>2 DEF Passed
  <2> QED BY <2>2, <2>3
<1>5. ASSUME NEW i \in 1 .. n, NEW g \in Passed(j[i]), IsCoveredAt(g, i - 1, dep)
      PROVE  \E l \in LabelType :
                /\ LabelEvent(l) = g /\ IsExpanded(l)
                /\ l.transfers < i - 1 \/ (l.transfers = i - 1 /\ l.departure >= dep)
  <2> DEFINE k == best[EventState(g)]
             l == labels[k]
  <2>1. /\ EventState(g) \in DOMAIN best /\ ~Less(<<i - 1, -dep>>, Rank(l))
        /\ k \in DOMAIN labels /\ State(l) = EventState(g)
    BY <1>5 DEF IsCoveredAt, IsCovered, BestInv
  <2>2. /\ l \in LabelType /\ LabelEvent(l) \in Events /\ EventState(LabelEvent(l)) = State(l)
    BY <2>1 DEF LabelsInv, IsSound
  <2>3. LabelEvent(l) = g /\ best[State(l)] = k
    BY <1>4, <2>1, <2>2, EventStateIs
  <2>4. k \notin queue => IsExpanded(l)
    <3> HIDE DEF l
    <3>1. \A m \in DOMAIN labels \ queue : best[State(labels[m])] = m => IsExpanded(labels[m])
      BY DEF SettledInv
    <3> QED BY <2>1, <2>3, <3>1 DEF l
  <2>5. k \in queue => Less(WayCost(j), LabelCost(l))
    BY <1>1
  <2> HIDE DEF l, k
  <2>6. /\ Rank(l) = <<l.transfers, -l.departure>> /\ l.transfers \in Nat /\ l.departure \in Nat
    BY <2>2, RankIs DEF LabelType
  <2>7. i - 1 \in Int /\ i \in Nat /\ i <= n
    BY <1>2
  <2>8. ~(i - 1 < l.transfers \/ (i - 1 = l.transfers /\ -dep < -l.departure))
    BY <2>1, <2>6, LessTwo
  <2>9. l.transfers < i - 1 \/ (l.transfers = i - 1 /\ l.departure >= dep)
    BY <1>3, <2>6, <2>7, <2>8
  <2>10. k \notin queue
    <3> SUFFICES ASSUME k \in queue PROVE FALSE
      OBVIOUS
    <3> DEFINE last == Arrival(j[n][2])
               here == Arrival(g)
               x == n - 1
               y == -dep
               t == l.transfers
               z == -l.departure
    <3>1. Less(<<last, x, y>>, <<here, t, z>>)
      BY <2>3, <2>5 DEF WayCost, LabelCost
    <3>2. here <= last /\ here \in Nat /\ last \in Nat
      BY <1>2, WayIsTimed
    <3> HIDE DEF last, here, n, dep
    <3>3. \/ last < here
          \/ last = here /\ x < t
          \/ last = here /\ x = t /\ y < z
      <4> HIDE DEF x, y, z, t
      <4> QED BY <3>1, LessThree
    <3> QED BY <1>2, <1>3, <2>6, <2>7, <2>9, <3>2, <3>3
  <2> QED BY <2>2, <2>3, <2>4, <2>9, <2>10
<1>6. ASSUME NEW i \in 1 .. n, NEW g \in Passed(j[i]), g # j[i][2], IsCoveredAt(g, i - 1, dep)
      PROVE  g + 1 \in Passed(j[i]) /\ IsCoveredAt(g + 1, i - 1, dep)
  <2>1. PICK l \in LabelType :
                /\ LabelEvent(l) = g /\ IsExpanded(l)
                /\ l.transfers < i - 1 \/ (l.transfers = i - 1 /\ l.departure >= dep)
    BY <1>5, <1>6
  <2>2. IsPart(j[i], q.date)
    BY <1>2
  <2>3. j[i][1] \in Nat /\ j[i][2] \in Nat /\ \A h \in j[i][1] .. j[i][2] - 1 : Continues(h) /\ h + 1 \in Passed(j[i])
    BY <2>2, PartIs
  <2>4. g \in j[i][1] .. j[i][2] - 1
    BY <1>6, <2>3 DEF Passed
  <2>5. IsCovered(EventState(g + 1), l.transfers, l.departure)
    BY <2>1, <2>3, <2>4 DEF IsExpanded, IsCoveredAt
  <2>6. l.transfers \in Nat /\ l.departure \in Nat /\ i - 1 \in Nat
    BY <1>2 DEF LabelType
  <2> HIDE DEF dep
  <2>7. IsCovered(EventState(g + 1), i - 1, dep)
    <3> DEFINE m == i - 1
    <3>1. m \in Nat /\ (l.transfers < m \/ (l.transfers = m /\ l.departure >= dep))
      BY <2>1, <2>6
    <3> HIDE DEF m
    <3>2. IsCovered(EventState(g + 1), m, dep)
      BY <1>3, <2>5, <2>6, <3>1, CoverWeakens
    <3> QED BY <3>2 DEF m
  <2> QED BY <2>3, <2>4, <2>7 DEF IsCoveredAt
<1>7. ASSUME NEW i \in 1 .. n, IsCoveredAt(j[i][1] + 1, i - 1, dep)
      PROVE  IsCoveredAt(j[i][2], i - 1, dep)
  <2> DEFINE Bad == {g \in Passed(j[i]) : ~IsCoveredAt(g, i - 1, dep)}
  <2>1. IsPart(j[i], q.date)
    BY <1>2
  <2>2. /\ j[i][1] \in Nat /\ j[i][2] \in Nat
        /\ j[i][1] + 1 \in Passed(j[i]) /\ j[i][2] \in Passed(j[i])
    BY <2>1, PartIs
  <2>3. SUFFICES ASSUME Bad # {} PROVE FALSE
    BY <2>2
  <2>4. PICK g \in Bad : \A h \in Bad : g <= h
    <3>1. Bad \in SUBSET Nat
      BY <1>4
    <3> HIDE DEF Bad
    <3> QED BY <2>3, <3>1, LeastExists
  <2>5. g \in Passed(j[i]) /\ ~IsCoveredAt(g, i - 1, dep) /\ g # j[i][1] + 1
    BY <1>7
  <2>6. g - 1 \in Passed(j[i]) /\ g - 1 # j[i][2] /\ (g - 1) + 1 = g /\ g - 1 \notin Bad
    BY <2>2, <2>4, <2>5 DEF Passed
  <2>7. IsCoveredAt(g - 1, i - 1, dep)
    BY <2>6
  <2>8. IsCoveredAt((g - 1) + 1, i - 1, dep)
    BY <1>6, <2>6, <2>7
  <2> QED BY <2>5, <2>6, <2>8
<1>8. IsCoveredAt(j[1][1] + 1, 0, dep)
  <2>1. IsPart(j[1], q.date)
    BY <1>2
  <2>2. j[1][1] \in j[1][1] .. j[1][2] - 1
    BY <2>1, PartIs DEF IsPart
  <2>3. Continues(j[1][1])
    BY <2>1, <2>2, PartIs
  <2>4. j[1][1] \in Boardings(query.origin, query.after)
    BY <1>2, <1>3, <2>1, BoardingsAre DEF IsPart
  <2> QED BY <2>3, <2>4 DEF SettledInv
<1>9. ASSUME NEW i \in 1 .. n - 1, IsCoveredAt(j[i][2], i - 1, dep)
      PROVE  IsCoveredAt(j[i + 1][1] + 1, i, dep)
  <2> DEFINE f == j[i + 1][1]
  <2>1. i \in 1 .. n /\ i + 1 \in 1 .. n /\ i \in Nat /\ i - 1 \in Nat
    BY <1>2
  <2>2. IsPart(j[i], q.date) /\ IsPart(j[i + 1], q.date) /\ Follows(j[i], j[i + 1])
    BY <1>2, <2>1
  <2>3. j[i][2] \in Passed(j[i])
    BY <2>2, PartIs
  <2>4. PICK l \in LabelType :
                /\ LabelEvent(l) = j[i][2] /\ IsExpanded(l)
                /\ l.transfers < i - 1 \/ (l.transfers = i - 1 /\ l.departure >= dep)
    BY <1>5, <1>9, <2>1, <2>3
  <2>5. f \in Reachable(j[i][2])
    BY <2>2, ChangeIsReachable
  <2>6. MayAlight(j[i][2]) /\ Connects(j[i][2], f)
    BY <2>2 DEF Follows
  <2>7. IsCovered(EventState(f + 1), l.transfers + 1, l.departure)
    BY <2>4, <2>5, <2>6 DEF IsExpanded, IsCoveredAt
  <2> HIDE DEF f, dep
  <2> DEFINE m == l.transfers + 1
  <2>8. m \in Nat /\ l.departure \in Nat /\ (m < i \/ (m = i /\ l.departure >= dep))
    <3>1. l.transfers \in Nat /\ l.departure \in Nat
      BY <2>4 DEF LabelType
    <3> QED BY <1>3, <2>1, <2>4, <3>1
  <2>9. IsCovered(EventState(f + 1), m, l.departure)
    BY <2>7
  <2> HIDE DEF m
  <2>10. IsCovered(EventState(f + 1), i, dep)
    BY <1>3, <2>1, <2>8, <2>9, CoverWeakens
  <2> QED BY <2>10 DEF IsCoveredAt, f
<1>10. IsCoveredAt(j[n][2], n - 1, dep)
  <2> DEFINE Bad == {i \in 1 .. n : ~IsCoveredAt(j[i][1] + 1, i - 1, dep)}
  <2>1. ASSUME Bad # {} PROVE FALSE
    <3>1. PICK i \in Bad : \A k \in Bad : i <= k
      <4>1. Bad \in SUBSET Nat
        BY <1>2
      <4> HIDE DEF Bad
      <4> QED BY <2>1, <4>1, LeastExists
    <3>2. i \in 1 .. n /\ ~IsCoveredAt(j[i][1] + 1, i - 1, dep) /\ i # 1
      BY <1>8
    <3>3. i - 1 \in 1 .. n - 1 /\ i - 1 \in 1 .. n /\ (i - 1) + 1 = i /\ i - 1 \notin Bad
      BY <1>2, <3>1, <3>2
    <3>4. IsCoveredAt(j[i - 1][1] + 1, (i - 1) - 1, dep)
      BY <3>3
    <3>5. IsCoveredAt(j[i - 1][2], (i - 1) - 1, dep)
      BY <1>7, <3>3, <3>4
    <3>6. IsCoveredAt(j[(i - 1) + 1][1] + 1, i - 1, dep)
      BY <1>9, <3>3, <3>5
    <3> QED BY <3>2, <3>3, <3>6
  <2>2. IsCoveredAt(j[n][1] + 1, n - 1, dep)
    BY <1>2, <2>1
  <2> QED BY <1>2, <1>7, <2>2
<1>11. PICK l \in LabelType : LabelEvent(l) = j[n][2] /\ IsExpanded(l)
  <2>1. IsPart(j[n], q.date)
    BY <1>2
  <2>2. j[n][2] \in Passed(j[n])
    BY <2>1, PartIs
  <2> QED BY <1>2, <1>5, <1>10, <2>2
<1> QED BY <1>2, <1>11 DEF IsExpanded

-----------------------------------------------------------------------------
(* The legs of a label                                                     *)

IsChain(c, N) == c = [i \in 1 .. N |-> Longer(c[labels[i].parent], labels[i])]

\* There is such a function, for every number of labels.
LEMMA ChainsExist ==
  ASSUME LabelsInv, NEW N \in 0 .. Len(labels)
  PROVE  \E c : IsChain(c, N)
<1>0. Len(labels) \in Nat /\ DOMAIN labels = 1 .. Len(labels) /\ N \in Nat
  BY DEF LabelsInv
<1> DEFINE Bad == {n \in 0 .. N : ~\E c : IsChain(c, n)}
<1>1. SUFFICES ASSUME Bad # {} PROVE FALSE
  BY <1>0
<1>2. PICK n \in Bad : \A m \in Bad : n <= m
  <2>1. Bad \in SUBSET Nat
    BY <1>0
  <2> HIDE DEF Bad
  <2> QED BY <1>1, <2>1, LeastExists
<1>3. n \in 0 .. N /\ ~\E c : IsChain(c, n)
  OBVIOUS
<1>4. CASE n = 0
  <2> DEFINE c == [i \in 1 .. 0 |-> <<>>]
  <2>1. c = [i \in 1 .. 0 |-> Longer(c[labels[i].parent], labels[i])]
    OBVIOUS
  <2>2. IsChain(c, 0)
    BY <2>1, Zenon DEF IsChain
  <2> QED BY <1>3, <1>4, <2>2
<1>5. CASE n # 0
  <2>1. n - 1 \in 0 .. N /\ n - 1 \notin Bad /\ n \in 1 .. N
    BY <1>0, <1>2, <1>3, <1>5
  <2>2. PICK b : IsChain(b, n - 1)
    BY <2>1
  <2> DEFINE body(i) == Longer(b[labels[i].parent], labels[i])
             c == [i \in 1 .. n |-> IF i = n THEN body(n) ELSE b[i]]
  <2>3. \A i \in 1 .. n : c[i] = body(i)
    <3> TAKE i \in 1 .. n
    <3>1. i # n => i \in 1 .. n - 1
      BY <1>0, <2>1
    <3>2. i # n => b[i] = body(i)
      BY <2>2, <3>1 DEF IsChain
    <3> QED BY <3>2
  <2>4. \A i \in 1 .. n : Longer(c[labels[i].parent], labels[i]) = body(i)
    <3> TAKE i \in 1 .. n
    <3>1. i \in DOMAIN labels
      BY <1>0, <2>1
    <3>2. labels[i].parent = 0 \/ labels[i].parent \in 1 .. n - 1
      <4>1. labels[i].parent = 0 \/ (labels[i].parent \in DOMAIN labels /\ labels[i].parent < i)
        BY <3>1 DEF LabelsInv, IsAfter, IsFirst
      <4> QED BY <1>0, <2>1, <4>1
    <3>3. CASE labels[i].parent = 0
      <4> HIDE DEF c
      <4> QED BY <3>3 DEF Longer
    <3>4. CASE labels[i].parent \in 1 .. n - 1
      <4>1. labels[i].parent \in 1 .. n /\ labels[i].parent # n
        BY <2>1, <3>4
      <4>2. c[labels[i].parent] = b[labels[i].parent]
        BY <4>1
      <4> HIDE DEF c
      <4> QED BY <4>2
    <3> QED BY <3>2, <3>3, <3>4
  <2>5. c = [i \in 1 .. n |-> c[i]]
    OBVIOUS
  <2> HIDE DEF c, body
  <2>6. c = [i \in 1 .. n |-> Longer(c[labels[i].parent], labels[i])]
    <3>1. \A i \in 1 .. n : c[i] = Longer(c[labels[i].parent], labels[i])
      BY <2>3, <2>4
    <3> QED BY <2>5, <3>1
  <2> QED BY <1>3, <2>6 DEF IsChain
<1> QED BY <1>4, <1>5

\* The legs are those of the chain of all labels.
LEMMA LegsAreOfChain ==
  ASSUME LabelsInv
  PROVE  \E c : IsChain(c, Len(labels)) /\ \A id : Legs(id) = c[id]
<1> DEFINE N == Len(labels)
           chain == CHOOSE f : f = [i \in DOMAIN labels |-> Longer(f[labels[i].parent], labels[i])]
<1>1. DOMAIN labels = 1 .. N /\ N \in 0 .. N
  BY DEF LabelsInv
<1>2. PICK c : IsChain(c, N)
  BY <1>1, ChainsExist
<1>3. chain = [i \in DOMAIN labels |-> Longer(chain[labels[i].parent], labels[i])]
  <2>1. c = [i \in DOMAIN labels |-> Longer(c[labels[i].parent], labels[i])]
    BY <1>1, <1>2, Zenon DEF IsChain
  <2> QED BY <2>1, Zenon
<1>4. \A id : Legs(id) = chain[id]
  BY Zenon DEF Legs
<1>5. IsChain(chain, N)
  BY <1>1, <1>3, Zenon DEF IsChain
<1> QED BY <1>4, <1>5, Zenon

LEMMA WayIs ==
  ASSUME NEW j, NEW q, IsWay(j, q)
  PROVE  /\ Len(j) \in Nat /\ Len(j) > 0 /\ j \in Seq(Events \X Events)
         /\ 1 \in 1 .. Len(j) /\ Len(j) \in 1 .. Len(j)
         /\ Stop(j[1][1]) = q.origin /\ Departure(j[1][1]) >= q.after
         /\ \A i \in 1 .. Len(j) : IsPart(j[i], q.date)
         /\ \A i \in 1 .. Len(j) - 1 : Follows(j[i], j[i + 1])
         /\ \A i, m \in 1 .. Len(j) : i < m => Passed(j[i]) \cap Passed(j[m]) = {}
<1>1. Len(j) \in Nat /\ Len(j) > 0 /\ j \in Seq(Events \X Events)
  BY DEF IsWay
<1>2. 1 \in 1 .. Len(j) /\ Len(j) \in 1 .. Len(j)
  BY <1>1
<1>3. /\ Stop(j[1][1]) = q.origin /\ Departure(j[1][1]) >= q.after
      /\ \A i \in 1 .. Len(j) : IsPart(j[i], q.date)
      /\ \A i \in 1 .. Len(j) - 1 : Follows(j[i], j[i + 1])
      /\ \A i, m \in 1 .. Len(j) : i < m => Passed(j[i]) \cap Passed(j[m]) = {}
  BY DEF IsWay
<1> QED BY <1>1, <1>2, <1>3

\* The ride that ends a label's way is part of a trip.
LEMMA SoundIsPart ==
  ASSUME Schedule, NEW l, IsSound(l), NEW r, r = <<Board(l), LabelEvent(l)>>
  PROVE  /\ IsPart(r, query.date) /\ r \in Events \X Events
         /\ r[1] = Board(l) /\ r[2] = LabelEvent(l)
         /\ TripOf(LabelEvent(l)) = l.trip /\ TripOf(Board(l)) = l.trip
<1>1. r[1] = Board(l) /\ r[2] = LabelEvent(l)
  OBVIOUS
<1>2. /\ LabelEvent(l) \in Events /\ EventState(LabelEvent(l)) = State(l)
      /\ Board(l) \in Events /\ TripOf(Board(l)) = l.trip
      /\ Board(l) < LabelEvent(l)
      /\ l.trip \in ActiveTrips(query.date) /\ MayBoard(Board(l))
      /\ \A g \in Board(l) .. LabelEvent(l) - 1 : Arrival(g + 1) >= Departure(g)
  BY DEF IsSound
<1>3. TripOf(LabelEvent(l)) = l.trip
  BY <1>2 DEF EventState, State
<1>4. IsPart(r, query.date)
  BY <1>1, <1>2, <1>3 DEF IsPart
<1> QED BY <1>1, <1>2, <1>3, <1>4

\* A label never comes to an event that an earlier one of its journey has come to.
LEMMA LaterIsBetter ==
  ASSUME Schedule, LabelsInv, BestInv, NEW i \in DOMAIN labels, NEW m \in DOMAIN labels, m < i,
         LabelEvent(labels[m]) = LabelEvent(labels[i]),
         labels[m].departure = labels[i].departure
  PROVE  labels[i].transfers < labels[m].transfers
<1> DEFINE a == labels[m]
           b == labels[i]
<1>1. a \in LabelType /\ b \in LabelType /\ IsSound(a) /\ IsSound(b)
  BY DEF LabelsInv
<1>2. State(a) = State(b)
  BY <1>1 DEF IsSound
<1>3. Less(Rank(b), Rank(a))
  BY <1>2 DEF BestInv
<1> HIDE DEF a, b
<1>4. /\ Rank(a) = <<a.transfers, -a.departure>> /\ Rank(b) = <<b.transfers, -b.departure>>
      /\ a.transfers \in Int /\ b.transfers \in Int /\ -a.departure \in Int /\ -b.departure \in Int
  BY <1>1, RankIs
<1>5. b.transfers < a.transfers \/ (b.transfers = a.transfers /\ -b.departure < -a.departure)
  BY <1>3, <1>4, LessTwo
<1>6. -a.departure = -b.departure
  BY DEF a, b
<1>7. b.transfers < a.transfers
  BY <1>4, <1>5, <1>6
<1> QED BY <1>7 DEF a, b

\* A way whose last ride goes on to the next event.
LEMMA WayRidesOn ==
  ASSUME NEW j, NEW q, IsWay(j, q), NEW k \in Seq(Events \X Events), Len(k) = Len(j),
         \A i \in 1 .. Len(j) - 1 : k[i] = j[i],
         k[Len(j)][1] = j[Len(j)][1], IsPart(k[Len(j)], q.date),
         \A i \in 1 .. Len(j) - 1 : Passed(j[i]) \cap Passed(k[Len(j)]) = {}
  PROVE  IsWay(k, q)
<1> DEFINE n == Len(j)
<1>1. /\ n \in Nat /\ n > 0 /\ j \in Seq(Events \X Events)
      /\ Stop(j[1][1]) = q.origin /\ Departure(j[1][1]) >= q.after
      /\ \A i \in 1 .. n : IsPart(j[i], q.date)
      /\ \A i \in 1 .. n - 1 : Follows(j[i], j[i + 1])
      /\ \A i, m \in 1 .. n : i < m => Passed(j[i]) \cap Passed(j[m]) = {}
  BY WayIs
<1>2. \A i \in 1 .. n : i # n => i \in 1 .. n - 1
  BY <1>1
<1>3. \A i \in 1 .. n : k[i][1] = j[i][1]
  BY <1>2
<1>4. 1 \in 1 .. n /\ k[1][1] = j[1][1]
  BY <1>1, <1>3
<1>5. \A i \in 1 .. n : IsPart(k[i], q.date)
  BY <1>1, <1>2
<1>6. \A i \in 1 .. n - 1 : Follows(k[i], k[i + 1])
  <2> TAKE i \in 1 .. n - 1
  <2>1. i + 1 \in 1 .. n
    BY <1>1
  <2>2. k[i] = j[i] /\ k[i + 1][1] = j[i + 1][1]
    BY <1>3, <2>1
  <2> HIDE DEF n
  <2> QED BY <1>1, <2>2 DEF Follows
<1>7. \A i, m \in 1 .. n : i < m => Passed(k[i]) \cap Passed(k[m]) = {}
  <2> SUFFICES ASSUME NEW i \in 1 .. n, NEW m \in 1 .. n, i < m
               PROVE  Passed(k[i]) \cap Passed(k[m]) = {}
    OBVIOUS
  <2>1. i \in 1 .. n - 1 /\ k[i] = j[i]
    BY <1>1
  <2>2. CASE m = n
    BY <2>1, <2>2
  <2>3. CASE m # n
    BY <1>1, <1>2, <2>1, <2>3
  <2> QED BY <2>2, <2>3
<1> HIDE DEF n
<1> QED BY <1>1, <1>4, <1>5, <1>6, <1>7 DEF IsWay, n

\* A way with one more ride.
LEMMA WayChanges ==
  ASSUME NEW j, NEW q, IsWay(j, q), NEW k \in Seq(Events \X Events), Len(k) = Len(j) + 1,
         \A i \in 1 .. Len(j) : k[i] = j[i],
         Follows(j[Len(j)], k[Len(j) + 1]), IsPart(k[Len(j) + 1], q.date),
         \A i \in 1 .. Len(j) : Passed(j[i]) \cap Passed(k[Len(j) + 1]) = {}
  PROVE  IsWay(k, q)
<1> DEFINE n == Len(j)
<1>1. /\ n \in Nat /\ n > 0 /\ j \in Seq(Events \X Events)
      /\ Stop(j[1][1]) = q.origin /\ Departure(j[1][1]) >= q.after
      /\ \A i \in 1 .. n : IsPart(j[i], q.date)
      /\ \A i \in 1 .. n - 1 : Follows(j[i], j[i + 1])
      /\ \A i, m \in 1 .. n : i < m => Passed(j[i]) \cap Passed(j[m]) = {}
  BY WayIs
<1>2. \A i \in 1 .. n + 1 : i # n + 1 => i \in 1 .. n
  BY <1>1
<1>3. k[1] = j[1] /\ 1 \in 1 .. n
  BY <1>1
<1>4. \A i \in 1 .. n + 1 : IsPart(k[i], q.date)
  BY <1>1, <1>2
<1>5. \A i \in 1 .. (n + 1) - 1 : Follows(k[i], k[i + 1])
  <2> TAKE i \in 1 .. (n + 1) - 1
  <2>1. i \in 1 .. n /\ k[i] = j[i]
    BY <1>1
  <2>2. CASE i = n
    BY <2>1, <2>2
  <2>3. CASE i # n
    <3>1. i \in 1 .. n - 1 /\ i + 1 \in 1 .. n
      BY <1>1, <2>1, <2>3
    <3> QED BY <1>1, <2>1, <3>1
  <2> QED BY <2>2, <2>3
<1>6. \A i, m \in 1 .. n + 1 : i < m => Passed(k[i]) \cap Passed(k[m]) = {}
  <2> SUFFICES ASSUME NEW i \in 1 .. n + 1, NEW m \in 1 .. n + 1, i < m
               PROVE  Passed(k[i]) \cap Passed(k[m]) = {}
    OBVIOUS
  <2>1. i \in 1 .. n /\ k[i] = j[i]
    BY <1>1
  <2>2. CASE m = n + 1
    BY <2>1, <2>2
  <2>3. CASE m # n + 1
    BY <1>1, <1>2, <2>1, <2>3
  <2> QED BY <2>2, <2>3
<1> HIDE DEF n
<1>7. Len(k) = n + 1 /\ n + 1 > 0
  BY <1>1 DEF n
<1> QED BY <1>1, <1>3, <1>4, <1>5, <1>6, <1>7 DEF IsWay

LegType == [trip : Nat, from : Nat, to : Nat]

RideOf(leg) == <<Event(leg.trip, leg.from), Event(leg.trip, leg.to)>>

\* The events of a way are those of labels up to i, in the order of the rides.
IsLabelled(j, i) ==
    \A k \in 1 .. Len(j) : \A g \in Passed(j[k]) : \E m \in DOMAIN labels :
        /\ m <= i /\ LabelEvent(labels[m]) = g /\ labels[m].transfers = k - 1
        /\ labels[m].departure = labels[i].departure

IsLegsOf(c, i) ==
    /\ c \in Seq(LegType) /\ Len(c) > 0 /\ c[Len(c)] = Leg(labels[i])
    /\ labels[i].transfers = Len(c) - 1
    /\ IsWay(AsRides(c), query) /\ IsLabelled(AsRides(c), i)
    /\ Departure(AsRides(c)[1][1]) = labels[i].departure

LEMMA RidesAre ==
  ASSUME NEW T, NEW c \in Seq(T), NEW j, j = AsRides(c)
  PROVE  /\ j = [k \in 1 .. Len(c) |-> RideOf(c[k])] /\ Len(j) = Len(c) /\ Len(c) \in Nat
         /\ \A k \in 1 .. Len(c) : j[k] = RideOf(c[k])
         /\ (\A k \in 1 .. Len(c) : RideOf(c[k]) \in Events \X Events) => j \in Seq(Events \X Events)
<1>1. Len(c) \in Nat /\ DOMAIN c = 1 .. Len(c)
  OBVIOUS
<1>2. j = [k \in 1 .. Len(c) |-> RideOf(c[k])]
  BY <1>1 DEF AsRides, RideOf
<1>3. \A k \in 1 .. Len(c) : j[k] = RideOf(c[k])
  BY <1>2
<1>4. Len(j) = Len(c)
  BY <1>1, <1>2
<1>5. ASSUME \A k \in 1 .. Len(c) : RideOf(c[k]) \in Events \X Events
      PROVE  j \in Seq(Events \X Events)
  <2>1. j \in [1 .. Len(c) -> Events \X Events]
    BY <1>2, <1>5
  <2> QED BY <1>1, <2>1
<1> QED BY <1>1, <1>2, <1>3, <1>4, <1>5

\* The ride of a label's leg.
LEMMA LegIs ==
  ASSUME NEW l \in LabelType
  PROVE  /\ Leg(l) \in LegType /\ RideOf(Leg(l)) = <<Board(l), LabelEvent(l)>>
         /\ Leg(l) = [trip |-> l.trip, from |-> l.board, to |-> l.position]
BY DEF Leg, LegType, LabelType, RideOf, Board, LabelEvent

LEMMA LegsBegin ==
  ASSUME Schedule, LabelsInv, NEW i \in DOMAIN labels, IsFirst(labels[i])
  PROVE  IsLegsOf(<<Leg(labels[i])>>, i)
<1> DEFINE l == labels[i]
           c == <<Leg(l)>>
           j == AsRides(c)
           r == <<Board(l), LabelEvent(l)>>
<1>1. l \in LabelType /\ IsSound(l) /\ i \in Nat
  BY DEF LabelsInv
<1>2. /\ l.transfers = 0 /\ l.departure = Departure(Board(l)) /\ LabelEvent(l) = Board(l) + 1
      /\ Stop(Board(l)) = query.origin /\ Departure(Board(l)) >= query.after
  BY DEF IsFirst
<1> HIDE DEF l
<1>3. /\ IsPart(r, query.date) /\ r \in Events \X Events
      /\ r[1] = Board(l) /\ r[2] = LabelEvent(l)
  BY <1>1, SoundIsPart
<1>4. c \in Seq(LegType) /\ Len(c) = 1 /\ c[1] = Leg(l) /\ RideOf(c[1]) = r
  BY <1>1, LegIs
<1> HIDE DEF c, r
<1>5. /\ Len(j) = 1 /\ j[1] = r /\ j \in Seq(Events \X Events)
  <2>1. \A k \in 1 .. Len(c) : k = 1
    BY <1>4
  <2>2. \A k \in 1 .. Len(c) : RideOf(c[k]) \in Events \X Events
    BY <1>3, <1>4, <2>1
  <2>3. 1 \in 1 .. Len(c)
    BY <1>4
  <2> QED BY <1>4, <2>2, <2>3, RidesAre
<1> HIDE DEF j
<1>6. IsWay(j, query)
  <2>1. \A k \in 1 .. Len(j) : k = 1
    BY <1>5
  <2>2. \A k \in 1 .. Len(j) - 1 : FALSE
    BY <1>5
  <2> QED BY <1>2, <1>3, <1>5, <2>1, <2>2 DEF IsWay
<1>7. IsLabelled(j, i)
  <2>1. \A k \in 1 .. Len(j) : k = 1
    BY <1>5
  <2>2. \A g \in Passed(r) : g = LabelEvent(l)
    <3>1. Board(l) \in Nat
      BY <1>1, EventsAreFinite DEF IsSound
    <3> QED BY <1>2, <1>3, <3>1 DEF Passed
  <2> QED BY <1>1, <1>2, <1>5, <2>1, <2>2 DEF IsLabelled, l
<1> QED BY <1>2, <1>3, <1>4, <1>5, <1>6, <1>7 DEF IsLegsOf, c, j, l

\* The ways of a label and of the one it comes from.
LEMMA BeforeIs ==
  ASSUME Schedule, LabelsInv, NEW p \in DOMAIN labels, NEW b, IsLegsOf(b, p), NEW j, j = AsRides(b),
         NEW n, n = Len(b)
  PROVE  /\ n \in Nat /\ n > 0 /\ b \in Seq(LegType) /\ b[n] = Leg(labels[p])
         /\ labels[p].transfers = n - 1 /\ labels[p] \in LabelType
         /\ IsWay(j, query) /\ IsLabelled(j, p) /\ Departure(j[1][1]) = labels[p].departure
         /\ Len(j) = n /\ j \in Seq(Events \X Events)
         /\ j[n] = <<Board(labels[p]), LabelEvent(labels[p])>>
         /\ j[n][1] = Board(labels[p]) /\ j[n][2] = LabelEvent(labels[p])
         /\ \A k \in 1 .. n : j[k] = RideOf(b[k])
<1>1. /\ b \in Seq(LegType) /\ n > 0 /\ n \in Nat /\ b[n] = Leg(labels[p])
      /\ labels[p].transfers = n - 1
      /\ IsWay(j, query) /\ IsLabelled(j, p) /\ Departure(j[1][1]) = labels[p].departure
  BY DEF IsLegsOf
<1>2. labels[p] \in LabelType
  BY DEF LabelsInv
<1>3. Len(j) = n /\ \A k \in 1 .. n : j[k] = RideOf(b[k])
  BY <1>1, RidesAre
<1>4. j[n] = <<Board(labels[p]), LabelEvent(labels[p])>>
  <2>1. n \in 1 .. n
    BY <1>1
  <2> QED BY <1>1, <1>2, <1>3, <2>1, LegIs
<1>5. j \in Seq(Events \X Events)
  BY <1>1, WayIs
<1> QED BY <1>1, <1>2, <1>3, <1>4, <1>5

\* The legs c are the legs b, the last one ridden on to where the label l is.
RidesOn(c, b, l) == c = [b EXCEPT ![Len(b)].to = l.position]

LEMMA LastLegIs ==
  ASSUME NEW l \in LabelType, NEW p \in LabelType, l.trip = p.trip, l.board = p.board,
         NEW b \in Seq(LegType), Len(b) > 0, b[Len(b)] = Leg(p),
         NEW c, RidesOn(c, b, l)
  PROVE  /\ c \in Seq(LegType) /\ Len(c) = Len(b) /\ c[Len(b)] = Leg(l)
         /\ \A m \in 1 .. Len(b) - 1 : c[m] = b[m]
<1> DEFINE n == Len(b)
<1>0. n \in 1 .. Len(b) /\ n = Len(b) /\ b[n] = Leg(p) /\ c = [b EXCEPT ![n].to = l.position]
  BY DEF RidesOn
<1> HIDE DEF n
<1>1. b[n] = [trip |-> p.trip, from |-> p.board, to |-> p.position]
  BY <1>0, LegIs
<1>2. [b[n] EXCEPT !.to = l.position] = [trip |-> l.trip, from |-> l.board, to |-> l.position]
  BY <1>1
<1>3. [b[n] EXCEPT !.to = l.position] = Leg(l) /\ Leg(l) \in LegType
  BY <1>2, LegIs
<1>4. c = [b EXCEPT ![n] = [b[n] EXCEPT !.to = l.position]]
  BY <1>0
<1>5. c = [b EXCEPT ![n] = Leg(l)]
  BY <1>3, <1>4
<1>6. /\ c \in Seq(LegType) /\ Len(c) = Len(b) /\ c[n] = Leg(l)
      /\ \A m \in 1 .. n - 1 : c[m] = b[m]
  <2> DEFINE t == Leg(l)
  <2>1. t \in LegType /\ c = [b EXCEPT ![n] = t]
    BY <1>3, <1>5
  <2> HIDE DEF t
  <2>2. DOMAIN b = 1 .. Len(b) /\ Len(b) \in Nat /\ b \in [1 .. Len(b) -> LegType]
    OBVIOUS
  <2>3. c \in [1 .. Len(b) -> LegType]
    BY <1>0, <2>1, <2>2
  <2>4. c \in Seq(LegType) /\ Len(c) = Len(b) /\ c[n] = t
    BY <1>0, <2>1, <2>2, <2>3
  <2>5. \A m \in 1 .. n - 1 : c[m] = b[m]
    BY <1>0, <2>1, <2>2
  <2> QED BY <2>4, <2>5 DEF t
<1> QED BY <1>0, <1>6

LEMMA LegsRideOn ==
  ASSUME Schedule, LabelsInv, BestInv, NEW i \in DOMAIN labels, NEW p \in DOMAIN labels, p < i,
         IsRide(labels[i], labels[p]), NEW b, IsLegsOf(b, p),
         NEW c \in Seq(LegType), Len(c) = Len(b), c[Len(b)] = Leg(labels[i]),
         \A m \in 1 .. Len(b) - 1 : c[m] = b[m]
  PROVE  IsLegsOf(c, i)
<1> DEFINE l == labels[i]
           n == Len(b)
           j == AsRides(b)
           k == AsRides(c)
           e == LabelEvent(l)
<1>1. /\ n \in Nat /\ n > 0 /\ b \in Seq(LegType) /\ b[n] = Leg(labels[p])
      /\ labels[p].transfers = n - 1 /\ labels[p] \in LabelType
      /\ IsWay(j, query) /\ IsLabelled(j, p) /\ Departure(j[1][1]) = labels[p].departure
      /\ Len(j) = n
      /\ j[n][1] = Board(labels[p]) /\ j[n][2] = LabelEvent(labels[p])
      /\ \A m \in 1 .. n : j[m] = RideOf(b[m])
  BY BeforeIs
<1>2. l \in LabelType /\ IsSound(l) /\ i \in Nat /\ p \in Nat
  BY DEF LabelsInv
<1>3. /\ l.trip = labels[p].trip /\ l.board = labels[p].board
      /\ l.transfers = labels[p].transfers /\ l.departure = labels[p].departure
      /\ e = LabelEvent(labels[p]) + 1
  BY DEF IsRide
<1>0. k = AsRides(c)
  OBVIOUS
<1> HIDE DEF l, n, j, k, e
<1>4. /\ c \in Seq(LegType) /\ Len(c) = n /\ c[n] = Leg(l)
      /\ \A m \in 1 .. n - 1 : c[m] = b[m]
  BY DEF l, n
<1>14. Len(k) = n /\ \A m \in 1 .. n : k[m] = RideOf(c[m])
  <2>1. Len(k) = Len(c) /\ \A m \in 1 .. Len(c) : k[m] = RideOf(c[m])
    BY <1>0, <1>4, RidesAre
  <2> QED BY <1>4, <2>1
<1>5. k[n] = <<Board(l), e>> /\ k[n][1] = Board(l) /\ k[n][2] = e /\ k[n] \in Events \X Events
      /\ IsPart(k[n], query.date)
  <2>1. n \in 1 .. n
    BY <1>1
  <2>2. k[n] = RideOf(Leg(l))
    BY <1>4, <1>14, <2>1
  <2>3. k[n] = <<Board(l), e>>
    BY <1>2, <2>2, LegIs DEF e
  <2> QED BY <1>2, <2>3, SoundIsPart DEF e
<1>6. /\ Len(k) = n /\ k \in Seq(Events \X Events) /\ \A m \in 1 .. n - 1 : k[m] = j[m]
  <2>1. Len(k) = n /\ \A m \in 1 .. n : k[m] = RideOf(c[m])
    BY <1>14
  <2>2. \A m \in 1 .. n - 1 : m \in 1 .. n
    BY <1>1
  <2>3. \A m \in 1 .. n - 1 : k[m] = j[m]
    BY <1>1, <1>4, <2>1, <2>2
  <2>4. \A m \in 1 .. n : RideOf(c[m]) \in Events \X Events
    <3> TAKE m \in 1 .. n
    <3>1. m = n \/ m \in 1 .. n - 1
      BY <1>1
    <3>2. j \in Seq(Events \X Events)
      BY <1>1, WayIs
    <3>3. j[m] \in Events \X Events
      BY <1>1, <3>2
    <3> QED BY <1>5, <2>1, <2>3, <3>1, <3>3
  <2>5. k \in Seq(Events \X Events)
    BY <1>0, <1>4, <2>4, RidesAre
  <2> QED BY <2>1, <2>3, <2>5
<1>7. Board(l) = Board(labels[p])
  BY <1>3 DEF Board
<1>8. /\ Board(l) \in Nat /\ e \in Nat /\ LabelEvent(labels[p]) \in Nat
  BY <1>1, <1>2, <1>3, EventsAreFinite DEF IsSound, LabelsInv, e
<1>9. \A g \in Passed(k[n]) : g \in Passed(j[n]) \/ g = e
  BY <1>1, <1>3, <1>5, <1>7, <1>8 DEF Passed
<1>10. ASSUME NEW m \in 1 .. n, e \in Passed(j[m])
       PROVE  m > n
  <2>1. PICK x \in DOMAIN labels : /\ x <= p /\ LabelEvent(labels[x]) = e
                                   /\ labels[x].transfers = m - 1
                                   /\ labels[x].departure = labels[p].departure
    BY <1>1, <1>10 DEF IsLabelled
  <2>2. x < i /\ LabelEvent(labels[x]) = LabelEvent(labels[i])
        /\ labels[x].departure = labels[i].departure
    <3>1. x \in Nat
      BY DEF LabelsInv
    <3> QED BY <1>2, <1>3, <2>1, <3>1 DEF e, l
  <2>3. labels[i].transfers < labels[x].transfers
    BY <2>2, LaterIsBetter
  <2> QED BY <1>1, <1>3, <2>1, <2>3 DEF l
<1>11. IsWay(k, query)
  <2>1. \A m \in 1 .. n - 1 : Passed(j[m]) \cap Passed(k[n]) = {}
    <3> SUFFICES ASSUME NEW m \in 1 .. n - 1, NEW g \in Passed(j[m]) \cap Passed(k[n])
                 PROVE  FALSE
      OBVIOUS
    <3>1. m \in 1 .. n /\ n \in 1 .. n /\ m < n
      BY <1>1
    <3>2. Passed(j[m]) \cap Passed(j[n]) = {}
      BY <1>1, <3>1, WayIs
    <3> QED BY <1>9, <1>10, <3>1, <3>2
  <2>2. /\ k \in Seq(Events \X Events) /\ Len(k) = Len(j)
        /\ \A m \in 1 .. Len(j) - 1 : k[m] = j[m]
        /\ k[Len(j)][1] = j[Len(j)][1] /\ IsPart(k[Len(j)], query.date)
        /\ \A m \in 1 .. Len(j) - 1 : Passed(j[m]) \cap Passed(k[Len(j)]) = {}
    BY <1>1, <1>5, <1>6, <1>7, <2>1
  <2> QED BY <1>1, <2>2, WayRidesOn
<1>12. IsLabelled(k, i)
  <2> SUFFICES ASSUME NEW m \in 1 .. n, NEW g \in Passed(k[m])
               PROVE  \E x \in DOMAIN labels :
                        /\ x <= i /\ LabelEvent(labels[x]) = g /\ labels[x].transfers = m - 1
                        /\ labels[x].departure = labels[i].departure
    BY <1>6 DEF IsLabelled
  <2>1. CASE g \in Passed(j[m])
    <3>1. PICK x \in DOMAIN labels : /\ x <= p /\ LabelEvent(labels[x]) = g
                                     /\ labels[x].transfers = m - 1
                                     /\ labels[x].departure = labels[p].departure
      BY <1>1, <2>1 DEF IsLabelled
    <3>2. x \in Nat
      BY DEF LabelsInv
    <3> QED BY <1>2, <1>3, <3>1, <3>2 DEF l
  <2>2. CASE m = n /\ g = e
    <3>1. i <= i /\ LabelEvent(labels[i]) = g /\ labels[i].transfers = m - 1
      BY <1>1, <1>2, <1>3, <2>2 DEF e, l
    <3> QED BY <3>1
  <2>3. m = n \/ m \in 1 .. n - 1
    BY <1>1
  <2> QED BY <1>6, <1>9, <2>1, <2>2, <2>3
<1>13. Departure(k[1][1]) = l.departure
  <2>1. k[1][1] = j[1][1]
    <3>1. 1 = n \/ 1 \in 1 .. n - 1
      BY <1>1
    <3> QED BY <1>1, <1>5, <1>6, <1>7, <3>1
  <2> QED BY <1>1, <1>3, <2>1
<1> QED BY <1>1, <1>3, <1>4, <1>11, <1>12, <1>13 DEF IsLegsOf, k, l

LEMMA LegsChange ==
  ASSUME Schedule, LabelsInv, BestInv, NEW i \in DOMAIN labels, NEW p \in DOMAIN labels, p < i,
         IsChange(labels[i], labels[p]), NEW b, IsLegsOf(b, p),
         NEW c, c = Append(b, Leg(labels[i]))
  PROVE  IsLegsOf(c, i)
<1> DEFINE l == labels[i]
           n == Len(b)
           j == AsRides(b)
           k == AsRides(c)
           e == LabelEvent(l)
<1>1. /\ n \in Nat /\ n > 0 /\ b \in Seq(LegType)
      /\ labels[p].transfers = n - 1 /\ labels[p] \in LabelType
      /\ IsWay(j, query) /\ IsLabelled(j, p) /\ Departure(j[1][1]) = labels[p].departure
      /\ Len(j) = n /\ j[n][2] = LabelEvent(labels[p])
      /\ \A m \in 1 .. n : j[m] = RideOf(b[m])
  BY BeforeIs
<1>2. l \in LabelType /\ IsSound(l) /\ IsSound(labels[p]) /\ i \in Nat /\ p \in Nat
  BY DEF LabelsInv
<1>3. /\ l.trip # labels[p].trip
      /\ l.transfers = labels[p].transfers + 1 /\ l.departure = labels[p].departure
      /\ e = Board(l) + 1
      /\ MayAlight(LabelEvent(labels[p])) /\ Connects(LabelEvent(labels[p]), Board(l))
      /\ Departure(Board(l)) >= Arrival(LabelEvent(labels[p]))
  BY DEF IsChange
<1>0. k = AsRides(c)
  OBVIOUS
<1> HIDE DEF l, n, j, k, e
<1>4. /\ c \in Seq(LegType) /\ Len(c) = n + 1 /\ c[n + 1] = Leg(l)
      /\ \A m \in 1 .. n : c[m] = b[m]
  <2>1. c = Append(b, Leg(l)) /\ Leg(l) \in LegType
    BY <1>2, LegIs DEF l
  <2> QED BY <1>1, <2>1 DEF n
<1>14. Len(k) = n + 1 /\ \A m \in 1 .. n + 1 : k[m] = RideOf(c[m])
  <2>1. Len(k) = Len(c) /\ \A m \in 1 .. Len(c) : k[m] = RideOf(c[m])
    BY <1>0, <1>4, RidesAre
  <2> QED BY <1>4, <2>1
<1>5. k[n + 1] = <<Board(l), e>> /\ k[n + 1][1] = Board(l) /\ k[n + 1][2] = e
      /\ k[n + 1] \in Events \X Events /\ IsPart(k[n + 1], query.date)
      /\ TripOf(Board(l)) = l.trip
  <2>1. n + 1 \in 1 .. n + 1
    BY <1>1
  <2>2. k[n + 1] = RideOf(Leg(l))
    BY <1>4, <1>14, <2>1
  <2>3. k[n + 1] = <<Board(l), e>>
    BY <1>2, <2>2, LegIs DEF e
  <2> QED BY <1>2, <2>3, SoundIsPart DEF e
<1>6. /\ Len(k) = n + 1 /\ k \in Seq(Events \X Events) /\ \A m \in 1 .. n : k[m] = j[m]
  <2>1. Len(k) = n + 1 /\ \A m \in 1 .. n + 1 : k[m] = RideOf(c[m])
    BY <1>14
  <2>2. \A m \in 1 .. n : m \in 1 .. n + 1
    BY <1>1
  <2>3. \A m \in 1 .. n : k[m] = j[m]
    BY <1>1, <1>4, <2>1, <2>2
  <2>4. \A m \in 1 .. n + 1 : RideOf(c[m]) \in Events \X Events
    <3> TAKE m \in 1 .. n + 1
    <3>1. m = n + 1 \/ m \in 1 .. n
      BY <1>1
    <3>2. m \in 1 .. n => j[m] \in Events \X Events
      BY <1>1, WayIs
    <3> QED BY <1>5, <2>1, <2>3, <3>1, <3>2
  <2>5. k \in Seq(Events \X Events)
    BY <1>0, <1>4, <2>4, RidesAre
  <2> QED BY <2>1, <2>3, <2>5
<1>7. TripOf(LabelEvent(labels[p])) = labels[p].trip
  BY <1>2, SoundIsPart
<1>8. Board(l) \in Nat /\ e \in Nat
  BY <1>2, EventsAreFinite DEF IsSound, e
<1>9. \A g \in Passed(k[n + 1]) : g = e
  BY <1>3, <1>5, <1>8 DEF Passed
<1>10. ASSUME NEW m \in 1 .. n PROVE e \notin Passed(j[m])
  <2> SUFFICES ASSUME e \in Passed(j[m]) PROVE FALSE
    OBVIOUS
  <2>1. PICK x \in DOMAIN labels : /\ x <= p /\ LabelEvent(labels[x]) = e
                                   /\ labels[x].transfers = m - 1
                                   /\ labels[x].departure = labels[p].departure
    BY <1>1 DEF IsLabelled
  <2>2. x < i /\ LabelEvent(labels[x]) = LabelEvent(labels[i])
        /\ labels[x].departure = labels[i].departure
    <3>1. x \in Nat
      BY DEF LabelsInv
    <3> QED BY <1>2, <1>3, <2>1, <3>1 DEF e, l
  <2>3. labels[i].transfers < labels[x].transfers
    BY <2>2, LaterIsBetter
  <2> QED BY <1>1, <1>3, <2>1, <2>3 DEF l
<1>11. IsWay(k, query)
  <2>1. \A m \in 1 .. n : Passed(j[m]) \cap Passed(k[n + 1]) = {}
    BY <1>9, <1>10
  <2>2. Follows(j[n], k[n + 1])
    BY <1>1, <1>3, <1>5, <1>7 DEF Follows
  <2> QED BY <1>1, <1>5, <1>6, <2>1, <2>2, WayChanges
<1>12. IsLabelled(k, i)
  <2> SUFFICES ASSUME NEW m \in 1 .. n + 1, NEW g \in Passed(k[m])
               PROVE  \E x \in DOMAIN labels :
                        /\ x <= i /\ LabelEvent(labels[x]) = g /\ labels[x].transfers = m - 1
                        /\ labels[x].departure = labels[i].departure
    BY <1>6 DEF IsLabelled
  <2>1. CASE m \in 1 .. n
    <3>1. PICK x \in DOMAIN labels : /\ x <= p /\ LabelEvent(labels[x]) = g
                                     /\ labels[x].transfers = m - 1
                                     /\ labels[x].departure = labels[p].departure
      BY <1>1, <1>6, <2>1 DEF IsLabelled
    <3>2. x \in Nat
      BY DEF LabelsInv
    <3> QED BY <1>2, <1>3, <3>1, <3>2 DEF l
  <2>2. CASE m = n + 1
    <3>1. i <= i /\ LabelEvent(labels[i]) = g /\ labels[i].transfers = m - 1
      BY <1>1, <1>2, <1>3, <1>9, <2>2 DEF e, l
    <3> QED BY <3>1
  <2> QED BY <1>1, <2>1, <2>2
<1>13. Departure(k[1][1]) = l.departure
  <2>1. 1 \in 1 .. n
    BY <1>1
  <2> QED BY <1>1, <1>3, <1>6, <2>1
<1> QED BY <1>1, <1>3, <1>4, <1>11, <1>12, <1>13 DEF IsLegsOf, k, l

\* The legs of every label are a way from the origin to its event.
LEMMA LegsAreWay ==
  ASSUME Schedule, LabelsInv, BestInv, NEW id \in DOMAIN labels
  PROVE  IsLegsOf(Legs(id), id)
<1> DEFINE N == Len(labels)
<1>1. DOMAIN labels = 1 .. N /\ N \in Nat
  BY DEF LabelsInv
<1>2. PICK c : IsChain(c, N) /\ \A i : Legs(i) = c[i]
  BY LegsAreOfChain
<1> DEFINE Bad == {i \in 1 .. N : ~IsLegsOf(c[i], i)}
<1>3. SUFFICES ASSUME Bad # {} PROVE FALSE
  BY <1>1, <1>2
<1>4. PICK i \in Bad : \A m \in Bad : i <= m
  <2>1. Bad \in SUBSET Nat
    OBVIOUS
  <2> HIDE DEF Bad
  <2> QED BY <1>3, <2>1, LeastExists
<1>5. i \in DOMAIN labels /\ ~IsLegsOf(c[i], i) /\ i \in Nat
  BY <1>1
<1> DEFINE l == labels[i]
           p == l.parent
<1>6. c[i] = Longer(c[p], l)
  BY <1>1, <1>2, <1>5 DEF IsChain
<1>7. l \in LabelType /\ IsAfter(l, i)
  BY <1>5 DEF LabelsInv
<1>8. CASE IsFirst(l)
  <2>1. c[i] = <<Leg(l)>>
    BY <1>6, <1>8 DEF Longer, IsFirst
  <2> QED BY <1>5, <1>8, <2>1, LegsBegin
<1>9. CASE /\ p # 0 /\ p \in DOMAIN labels /\ p < i
           /\ IsRide(l, labels[p]) \/ IsChange(l, labels[p])
  <2>1. p \in 1 .. N /\ p \notin Bad
    BY <1>1, <1>4, <1>5, <1>9
  <2>2. IsLegsOf(c[p], p)
    BY <2>1
  <2>3. CASE IsRide(l, labels[p])
    <3>1. labels[p].trip = l.trip /\ l.board = labels[p].board
      BY <2>3 DEF IsRide
    <3> DEFINE b == c[p]
    <3>2. RidesOn(c[i], b, l)
      <4> HIDE DEF l
      <4> QED BY <1>6, <1>9, <3>1, Zenon DEF Longer, RidesOn, p
    <3>3. b \in Seq(LegType) /\ Len(b) > 0 /\ b[Len(b)] = Leg(labels[p])
      BY <2>2 DEF IsLegsOf
    <3>4. labels[p] \in LabelType
      BY <1>9 DEF LabelsInv
    <3> HIDE DEF b, p, l
    <3>5. /\ c[i] \in Seq(LegType) /\ Len(c[i]) = Len(b) /\ c[i][Len(b)] = Leg(l)
          /\ \A m \in 1 .. Len(b) - 1 : c[i][m] = b[m]
      BY <1>7, <3>1, <3>2, <3>3, <3>4, LastLegIs
    <3>6. IsLegsOf(b, p) /\ IsRide(labels[i], labels[p]) /\ c[i][Len(b)] = Leg(labels[i])
      BY <2>2, <2>3, <3>5 DEF b, l
    <3> QED BY <1>5, <1>9, <3>5, <3>6, LegsRideOn
  <2>4. CASE IsChange(l, labels[p])
    <3>1. labels[p].trip # l.trip
      BY <2>4 DEF IsChange
    <3>2. c[i] = Append(c[p], Leg(l))
      <4> HIDE DEF l
      <4> QED BY <1>6, <1>9, <3>1, Zenon DEF Longer, p
    <3> HIDE DEF p
    <3> QED BY <1>5, <1>9, <2>2, <2>4, <3>2, LegsChange
  <2> QED BY <1>9, <2>3, <2>4
<1> QED BY <1>7, <1>8, <1>9 DEF IsAfter

\* What the search returns is a journey, at the cost of its label.
LEMMA FoundIsJourney ==
  ASSUME Schedule, LabelsInv, BestInv, NEW id \in DOMAIN labels, Arrived(id),
         NEW j, j = AsRides(Legs(id))
  PROVE  IsJourney(j, query) /\ WayCost(j) = LabelCost(labels[id])
<1>1. IsLegsOf(Legs(id), id)
  BY LegsAreWay
<1> DEFINE n == Len(Legs(id))
<1>2. /\ n \in Nat /\ labels[id].transfers = n - 1
      /\ IsWay(j, query) /\ Departure(j[1][1]) = labels[id].departure
      /\ Len(j) = n /\ j[n][2] = LabelEvent(labels[id])
  BY <1>1, BeforeIs
<1>3. Stop(j[n][2]) = query.destination /\ MayAlight(j[n][2])
  BY <1>2 DEF Arrived
<1> HIDE DEF n
<1> QED BY <1>2, <1>3 DEF IsJourney, WayCost, LabelCost

\* Costs are triples of integers, in a total order.
LEMMA CostOrder ==
  ASSUME NEW a \in Int, NEW b \in Int, NEW c \in Int, NEW d \in Int, NEW e \in Int, NEW f \in Int,
         NEW x \in Int, NEW y \in Int, NEW z \in Int,
         ~Less(<<a, b, c>>, <<d, e, f>>), ~Less(<<d, e, f>>, <<x, y, z>>)
  PROVE  ~Less(<<a, b, c>>, <<x, y, z>>)
<1>1. ~(a < d \/ (a = d /\ b < e) \/ (a = d /\ b = e /\ c < f))
  BY LessThree
<1>2. ~(d < x \/ (d = x /\ e < y) \/ (d = x /\ e = y /\ f < z))
  BY LessThree
<1>3. ~(a < x \/ (a = x /\ b < y) \/ (a = x /\ b = y /\ c < z))
  BY <1>1, <1>2
<1> QED BY <1>3, LessThree

LEMMA LabelCostIs ==
  ASSUME Schedule, LabelsInv, NEW id \in DOMAIN labels
  PROVE  \E a, b, c \in Int : /\ LabelCost(labels[id]) = <<a, b, c>>
                              /\ \E d, e : HeapKey(id) = <<a, b, c, d, e, id>>
<1> DEFINE l == labels[id]
<1>1. l \in LabelType /\ IsSound(l)
  BY DEF LabelsInv
<1>2. LabelEvent(l) \in Events
  BY <1>1 DEF IsSound
<1>3. Arrival(LabelEvent(l)) \in Int /\ l.transfers \in Int /\ -l.departure \in Int
  BY <1>1, <1>2, EventIs DEF LabelType
<1>4. HeapKey(id) = <<Arrival(LabelEvent(l)), l.transfers, -l.departure, l.trip, l.position, id>>
  BY KeyIs
<1>5. LabelCost(l) = <<Arrival(LabelEvent(l)), l.transfers, -l.departure>>
  BY DEF LabelCost
<1> HIDE DEF l
<1>6. \E d, e : HeapKey(id) = <<Arrival(LabelEvent(l)), l.transfers, -l.departure, d, e, id>>
  BY <1>4
<1> QED BY <1>3, <1>5, <1>6 DEF l

\* When the least label of the heap arrives, no journey costs less.
LEMMA FoundIsBest ==
  ASSUME Schedule, Timely, LabelsInv, BestInv, SettledInv, NEW id, IsNext(id),
         NEW q, q = query, NEW j, IsJourney(j, q)
  PROVE  ~Less(WayCost(j), LabelCost(labels[id]))
<1>1. id \in queue /\ id \in DOMAIN labels /\ labels # <<>>
  <2>1. id \in DOMAIN labels
    BY DEF IsNext, BestInv
  <2> QED BY <2>1 DEF IsNext
<1>2. PICK k \in queue : ~Less(WayCost(j), LabelCost(labels[k]))
  BY <1>1, JourneyIsOpen
<1>3. CASE k = id
  BY <1>2, <1>3
<1>4. CASE k # id
  <2>1. Less(HeapKey(id), HeapKey(k)) /\ k \in DOMAIN labels
    BY <1>4 DEF IsNext, BestInv
  <2>2. PICK a, b, c, d, e :
            a \in Int /\ b \in Int /\ c \in Int /\ LabelCost(labels[id]) = <<a, b, c>> /\ HeapKey(id) = <<a, b, c, d, e, id>>
    BY <1>1, LabelCostIs
  <2>3. PICK x, y, z, v, w :
            x \in Int /\ y \in Int /\ z \in Int /\ LabelCost(labels[k]) = <<x, y, z>> /\ HeapKey(k) = <<x, y, z, v, w, k>>
    BY <2>1, LabelCostIs
  <2>4. ~Less(<<x, y, z>>, <<a, b, c>>)
    <3>1. Less(<<a, b, c, d, e, id>>, <<x, y, z, v, w, k>>)
      BY <2>1, <2>2, <2>3
    <3> QED BY <2>2, <2>3, <3>1, KeyOrder
  <2>5. PICK m \in Int, n \in Int, o \in Int : WayCost(j) = <<m, n, o>>
    <3>1. IsWay(j, q)
      BY DEF IsJourney
    <3>2. /\ Len(j) \in Nat /\ 1 \in 1 .. Len(j) /\ Len(j) \in 1 .. Len(j)
          /\ IsPart(j[1], q.date) /\ IsPart(j[Len(j)], q.date)
      BY <3>1, WayIs
    <3>3. j[1][1] \in Events /\ j[Len(j)][2] \in Events
      BY <3>2 DEF IsPart
    <3>4. Arrival(j[Len(j)][2]) \in Nat /\ Departure(j[1][1]) \in Nat
      BY <3>3, EventIs
    <3>5. Arrival(j[Len(j)][2]) \in Int /\ Len(j) - 1 \in Int /\ -Departure(j[1][1]) \in Int
      BY <3>2, <3>4
    <3> QED BY <3>5 DEF WayCost
  <2>6. ~Less(<<m, n, o>>, <<x, y, z>>)
    BY <1>2, <2>3, <2>5
  <2>7. ~Less(<<m, n, o>>, <<a, b, c>>)
    BY <2>2, <2>3, <2>4, <2>5, <2>6, CostOrder
  <2> QED BY <2>2, <2>5, <2>7
<1> QED BY <1>3, <1>4

-----------------------------------------------------------------------------
(* The journeys of the reference are the sequences of rides above.         *)

Ridden(j, q) == IsWay(j, q) /\ MayAlight(j[Len(j)][2])

Begun(rides, q) ==
    {<<r>> : r \in {x \in rides : Stop(x[1]) = q.origin /\ Departure(x[1]) >= q.after}}
Further(rides, S) ==
    UNION {{Append(j, r) : r \in {x \in rides : Extends(x, j)}} : j \in S}

IsTable(o, rides, q, N) ==
    o = [n \in 1 .. N |-> IF n = 1 THEN Begun(rides, q) ELSE Further(rides, o[n - 1])]

LEMMA RideIs ==
  ASSUME NEW q, NEW r
  PROVE  r \in Rides(q) <=> r \in Events \X Events /\ IsPart(r, q.date) /\ MayAlight(r[2])
<1>1. ASSUME r \in Events \X Events PROVE r[1] \in Events /\ r[2] \in Events
  BY <1>1
<1>2. r \in Rides(q) <=>
        /\ r \in Events \X Events
        /\ r[1] < r[2] /\ TripOf(r[1]) = TripOf(r[2])
        /\ TripOf(r[1]) \in ActiveTrips(q.date)
        /\ MayBoard(r[1]) /\ MayAlight(r[2])
        /\ \A g \in r[1] .. r[2] - 1 : Arrival(g + 1) >= Departure(g)
  BY DEF Rides, Events
<1> QED BY <1>1, <1>2 DEF IsPart

LEMMA ExtendsIs ==
  ASSUME NEW j, NEW q, Ridden(j, q), NEW r
  PROVE  Extends(r, j) <=> /\ Follows(j[Len(j)], r)
                           /\ \A i \in 1 .. Len(j) : Passed(j[i]) \cap Passed(r) = {}
<1>1. j \in Seq(Events \X Events) /\ Last(j) = j[Len(j)] /\ MayAlight(j[Len(j)][2])
  BY DEF Ridden, IsWay, Last
<1>2. DOMAIN j = 1 .. Len(j)
  BY <1>1
<1> QED BY <1>1, <1>2 DEF Extends, Follows

\* A way without its last ride.
LEMMA WayIsCut ==
  ASSUME NEW k, NEW q, IsWay(k, q), Len(k) > 1,
         NEW j, j \in Seq(Events \X Events), Len(j) = Len(k) - 1,
         \A i \in 1 .. Len(j) : j[i] = k[i]
  PROVE  /\ Ridden(j, q) /\ Follows(j[Len(j)], k[Len(k)])
         /\ \A i \in 1 .. Len(j) : Passed(j[i]) \cap Passed(k[Len(k)]) = {}
<1> DEFINE n == Len(j)
<1>1. /\ Len(k) \in Nat /\ n \in Nat /\ n > 0 /\ Len(k) = n + 1
      /\ Stop(k[1][1]) = q.origin /\ Departure(k[1][1]) >= q.after
      /\ \A i \in 1 .. Len(k) : IsPart(k[i], q.date)
      /\ \A i \in 1 .. Len(k) - 1 : Follows(k[i], k[i + 1])
      /\ \A i, m \in 1 .. Len(k) : i < m => Passed(k[i]) \cap Passed(k[m]) = {}
  <2>1. /\ Len(k) \in Nat
        /\ Stop(k[1][1]) = q.origin /\ Departure(k[1][1]) >= q.after
        /\ \A i \in 1 .. Len(k) : IsPart(k[i], q.date)
        /\ \A i \in 1 .. Len(k) - 1 : Follows(k[i], k[i + 1])
        /\ \A i, m \in 1 .. Len(k) : i < m => Passed(k[i]) \cap Passed(k[m]) = {}
    BY WayIs
  <2>2. n \in Nat /\ n > 0 /\ Len(k) = n + 1
    BY <2>1
  <2> HIDE DEF n
  <2> QED BY <2>1, <2>2
<1>2. \A i \in 1 .. n : j[i] = k[i]
  OBVIOUS
<1> HIDE DEF n
<1>3. /\ \A i \in 1 .. n : i \in 1 .. Len(k) /\ i \in 1 .. Len(k) - 1
      /\ \A i \in 1 .. n - 1 : i \in 1 .. n /\ i + 1 \in 1 .. n /\ i \in 1 .. Len(k) - 1
      /\ 1 \in 1 .. n /\ n \in 1 .. n /\ Len(k) \in 1 .. Len(k) /\ n \in 1 .. Len(k) - 1
  BY <1>1
<1>4. Stop(j[1][1]) = q.origin /\ Departure(j[1][1]) >= q.after
  BY <1>1, <1>2, <1>3
<1>5. \A i \in 1 .. n : IsPart(j[i], q.date)
  BY <1>1, <1>2, <1>3
<1>6. \A i \in 1 .. n - 1 : Follows(j[i], j[i + 1])
  BY <1>1, <1>2, <1>3
<1>7. \A i, m \in 1 .. n : i < m => Passed(j[i]) \cap Passed(j[m]) = {}
  BY <1>1, <1>2, <1>3
<1>8. Follows(j[n], k[Len(k)])
  BY <1>1, <1>2, <1>3
<1>9. \A i \in 1 .. n : Passed(j[i]) \cap Passed(k[Len(k)]) = {}
  <2> TAKE i \in 1 .. n
  <2>1. i \in 1 .. Len(k) /\ i < Len(k) /\ j[i] = k[i]
    BY <1>1, <1>2, <1>3
  <2> QED BY <1>1, <1>3, <2>1
<1>10. MayAlight(j[n][2])
  BY <1>8 DEF Follows
<1> QED BY <1>1, <1>4, <1>5, <1>6, <1>7, <1>8, <1>9, <1>10 DEF Ridden, IsWay, n

\* The table's entry for n: the ways of n rides that end where one may alight.
LEMMA BegunIs ==
  ASSUME NEW q, NEW rides, rides = Rides(q), NEW j
  PROVE  j \in Begun(rides, q) <=> Ridden(j, q) /\ Len(j) = 1
<1>1. ASSUME j \in Begun(rides, q) PROVE Ridden(j, q) /\ Len(j) = 1
  <2>1. PICK r \in rides : j = <<r>> /\ Stop(r[1]) = q.origin /\ Departure(r[1]) >= q.after
    BY <1>1 DEF Begun
  <2>2. r \in Events \X Events /\ IsPart(r, q.date) /\ MayAlight(r[2])
    BY RideIs
  <2>3. j \in Seq(Events \X Events) /\ Len(j) = 1 /\ j[1] = r
    BY <2>1, <2>2
  <2>4. /\ \A i \in 1 .. Len(j) : i = 1
        /\ \A i \in 1 .. Len(j) - 1 : FALSE
    BY <2>3
  <2>5. \A i, m \in 1 .. Len(j) : ~(i < m)
    BY <2>4
  <2> QED BY <2>1, <2>2, <2>3, <2>4, <2>5 DEF Ridden, IsWay
<1>2. ASSUME Ridden(j, q), Len(j) = 1 PROVE j \in Begun(rides, q)
  <2>1. /\ j \in Seq(Events \X Events) /\ MayAlight(j[1][2]) /\ IsPart(j[1], q.date)
        /\ Stop(j[1][1]) = q.origin /\ Departure(j[1][1]) >= q.after
    <3>1. IsWay(j, q) /\ MayAlight(j[1][2])
      BY <1>2 DEF Ridden
    <3> QED BY <3>1, WayIs
  <2>2. j[1] \in Events \X Events /\ j = <<j[1]>>
    <3> DEFINE T == Events \X Events
    <3>1. j \in Seq(T) /\ Len(j) = 1
      BY <1>2, <2>1
    <3> HIDE DEF T
    <3>2. j[1] \in T /\ j = <<j[1]>>
      BY <3>1
    <3> QED BY <3>2 DEF T
  <2>3. j[1] \in rides
    BY <2>1, <2>2, RideIs
  <2> QED BY <2>1, <2>2, <2>3 DEF Begun
<1> QED BY <1>1, <1>2

LEMMA FurtherIs ==
  ASSUME NEW q, NEW rides, rides = Rides(q), NEW n \in Nat, n > 0,
         NEW S, \A j : j \in S <=> Ridden(j, q) /\ Len(j) = n, NEW k
  PROVE  k \in Further(rides, S) <=> Ridden(k, q) /\ Len(k) = n + 1
<1>1. ASSUME k \in Further(rides, S) PROVE Ridden(k, q) /\ Len(k) = n + 1
  <2>1. PICK j \in S : \E r \in rides : k = Append(j, r) /\ Extends(r, j)
    BY <1>1 DEF Further
  <2>2. PICK r \in rides : k = Append(j, r) /\ Extends(r, j)
    BY <2>1
  <2>3. Ridden(j, q) /\ Len(j) = n /\ IsWay(j, q)
    BY DEF Ridden
  <2>4. r \in Events \X Events /\ IsPart(r, q.date) /\ MayAlight(r[2])
    BY RideIs
  <2>5. /\ Follows(j[Len(j)], r) /\ \A i \in 1 .. Len(j) : Passed(j[i]) \cap Passed(r) = {}
    BY <2>2, <2>3, ExtendsIs
  <2>6. j \in Seq(Events \X Events)
    BY <2>3, WayIs
  <2>7. /\ k \in Seq(Events \X Events) /\ Len(k) = Len(j) + 1 /\ k[Len(j) + 1] = r
        /\ \A i \in 1 .. Len(j) : k[i] = j[i]
    BY <2>2, <2>4, <2>6
  <2>8. IsWay(k, q)
    BY <2>3, <2>4, <2>5, <2>7, WayChanges
  <2> QED BY <2>3, <2>4, <2>7, <2>8 DEF Ridden
<1>2. ASSUME Ridden(k, q), Len(k) = n + 1 PROVE k \in Further(rides, S)
  <2>1. IsWay(k, q) /\ MayAlight(k[n + 1][2])
    BY <1>2 DEF Ridden
  <2>2. k \in Seq(Events \X Events) /\ \A i \in 1 .. Len(k) : IsPart(k[i], q.date)
    BY <2>1, WayIs
  <2> DEFINE j == [i \in 1 .. n |-> k[i]]
             r == k[n + 1]
  <2>3. /\ j \in Seq(Events \X Events) /\ Len(j) = n /\ k = Append(j, r)
        /\ \A i \in 1 .. n : j[i] = k[i]
    BY <1>2, <2>2
  <2>4. r \in Events \X Events /\ IsPart(r, q.date) /\ MayAlight(r[2]) /\ r = k[Len(k)]
    <3>1. n + 1 \in 1 .. Len(k)
      BY <1>2
    <3> QED BY <1>2, <2>1, <2>2, <3>1
  <2> HIDE DEF j, r
  <2>5. /\ Ridden(j, q) /\ Follows(j[Len(j)], r)
        /\ \A i \in 1 .. Len(j) : Passed(j[i]) \cap Passed(r) = {}
    <3>1. Len(k) > 1 /\ Len(j) = Len(k) - 1 /\ \A i \in 1 .. Len(j) : j[i] = k[i]
      BY <1>2, <2>3
    <3> QED BY <2>1, <2>3, <2>4, <3>1, WayIsCut
  <2>6. j \in S /\ Extends(r, j)
    BY <2>3, <2>5, ExtendsIs
  <2>7. r \in rides
    BY <2>4, RideIs
  <2> QED BY <2>3, <2>6, <2>7 DEF Further
<1> QED BY <1>1, <1>2

\* There is such a table, up to every number of rides.
LEMMA TablesExist ==
  ASSUME NEW rides, NEW q, NEW N \in Nat
  PROVE  \E o : IsTable(o, rides, q, N)
<1> DEFINE Bad == {n \in 0 .. N : ~\E o : IsTable(o, rides, q, n)}
<1>1. SUFFICES ASSUME Bad # {} PROVE FALSE
  OBVIOUS
<1>2. PICK n \in Bad : \A m \in Bad : n <= m
  <2>1. Bad \in SUBSET Nat
    OBVIOUS
  <2> HIDE DEF Bad
  <2> QED BY <1>1, <2>1, LeastExists
<1>3. n \in 0 .. N /\ ~\E o : IsTable(o, rides, q, n)
  OBVIOUS
<1>4. CASE n = 0
  <2> DEFINE o == [i \in 1 .. 0 |-> {}]
  <2>1. o = [i \in 1 .. 0 |-> IF i = 1 THEN Begun(rides, q) ELSE Further(rides, o[i - 1])]
    OBVIOUS
  <2>2. IsTable(o, rides, q, 0)
    BY <2>1, Zenon DEF IsTable
  <2> QED BY <1>3, <1>4, <2>2
<1>5. CASE n # 0
  <2>1. n - 1 \in 0 .. N /\ n - 1 \notin Bad /\ n \in Nat /\ n \in 1 .. n
    BY <1>2, <1>3, <1>5
  <2>2. PICK b : IsTable(b, rides, q, n - 1)
    BY <2>1
  <2> DEFINE body(i) == IF i = 1 THEN Begun(rides, q) ELSE Further(rides, b[i - 1])
             o == [i \in 1 .. n |-> IF i = n THEN body(n) ELSE b[i]]
  <2>3. \A i \in 1 .. n : o[i] = body(i)
    <3> TAKE i \in 1 .. n
    <3>1. i # n => i \in 1 .. n - 1
      BY <2>1
    <3>2. i # n => b[i] = body(i)
      BY <2>2, <3>1 DEF IsTable
    <3> QED BY <3>2
  <2>4. \A i \in 1 .. n :
            (IF i = 1 THEN Begun(rides, q) ELSE Further(rides, o[i - 1])) = body(i)
    <3> TAKE i \in 1 .. n
    <3>1. i = 1 \/ (i - 1 \in 1 .. n /\ i - 1 # n)
      BY <2>1
    <3>2. i = 1 \/ o[i - 1] = b[i - 1]
      BY <3>1
    <3> HIDE DEF o
    <3> QED BY <3>2
  <2>5. o = [i \in 1 .. n |-> o[i]]
    OBVIOUS
  <2> HIDE DEF o, body
  <2>6. o = [i \in 1 .. n |-> IF i = 1 THEN Begun(rides, q) ELSE Further(rides, o[i - 1])]
    <3>1. \A i \in 1 .. n : o[i] = IF i = 1 THEN Begun(rides, q) ELSE Further(rides, o[i - 1])
      BY <2>3, <2>4
    <3> QED BY <2>5, <3>1
  <2> QED BY <1>3, <2>6 DEF IsTable
<1> QED BY <1>4, <1>5

HoldsRidden(S, q, n) == \A j : j \in S <=> Ridden(j, q) /\ Len(j) = n

LEMMA TableIs ==
  ASSUME NEW q, NEW rides, rides = Rides(q), NEW N \in Nat, NEW o, IsTable(o, rides, q, N),
         NEW n \in 1 .. N
  PROVE  HoldsRidden(o[n], q, n)
<1> DEFINE Bad == {m \in 1 .. N : ~HoldsRidden(o[m], q, m)}
<1>1. SUFFICES ASSUME Bad # {} PROVE FALSE
  OBVIOUS
<1>2. PICK m \in Bad : \A k \in Bad : m <= k
  <2>1. Bad \in SUBSET Nat
    OBVIOUS
  <2> HIDE DEF Bad
  <2> QED BY <1>1, <2>1, LeastExists
<1>3. m \in 1 .. N /\ ~HoldsRidden(o[m], q, m) /\ m \in Nat
  OBVIOUS
<1>4. CASE m = 1
  <2>1. o[m] = Begun(rides, q)
    BY <1>3, <1>4 DEF IsTable
  <2> QED BY <1>3, <1>4, <2>1, BegunIs DEF HoldsRidden
<1>5. CASE m # 1
  <2> DEFINE k == m - 1
  <2>1. k \in 1 .. N /\ k \notin Bad /\ k \in Nat /\ k > 0 /\ k + 1 = m
    BY <1>2, <1>3, <1>5
  <2>2. o[m] = Further(rides, o[k])
    BY <1>3, <1>5 DEF IsTable
  <2>3. HoldsRidden(o[k], q, k)
    BY <2>1
  <2> HIDE DEF k
  <2>4. \A j : j \in Further(rides, o[k]) <=> Ridden(j, q) /\ Len(j) = k + 1
    <3> DEFINE S == o[k]
    <3>1. \A j : j \in S <=> Ridden(j, q) /\ Len(j) = k
      BY <2>3 DEF HoldsRidden
    <3> HIDE DEF S
    <3>2. \A j : j \in Further(rides, S) <=> Ridden(j, q) /\ Len(j) = k + 1
      BY <2>1, <3>1, FurtherIs
    <3> QED BY <3>2 DEF S
  <2> QED BY <1>3, <2>1, <2>2, <2>4 DEF HoldsRidden
<1> QED BY <1>4, <1>5

\* A way has no more rides than there are events.
LEMMA WayIsShort ==
  ASSUME Schedule, NEW j, NEW q, IsWay(j, q)
  PROVE  Len(j) \in 1 .. Len(StopTimes)
<1> DEFINE n == Len(j)
           N == Len(StopTimes)
           f == [i \in 1 .. n |-> j[i][2]]
<1>1. /\ n \in Nat /\ n > 0
      /\ \A i \in 1 .. n : IsPart(j[i], q.date)
      /\ \A i, m \in 1 .. n : i < m => Passed(j[i]) \cap Passed(j[m]) = {}
  BY WayIs
<1>2. N \in Nat /\ Events = 1 .. N
  BY DEF Schedule, Events
<1>3. \A i \in 1 .. n : j[i][2] \in 1 .. N /\ j[i][2] \in Passed(j[i])
  <2> TAKE i \in 1 .. n
  <2>1. IsPart(j[i], q.date)
    BY <1>1
  <2> HIDE DEF N, n
  <2> QED BY <1>2, <2>1, PartIs DEF IsPart
<1> HIDE DEF n, N
<1>4. f \in Injection(1 .. n, 1 .. N)
  <2>1. f \in [1 .. n -> 1 .. N]
    BY <1>3
  <2>2. ASSUME NEW i \in 1 .. n, NEW m \in 1 .. n, j[i][2] = j[m][2] PROVE i = m
    <3>1. ~(i < m)
      BY <1>1, <1>3, <2>2
    <3>2. ~(m < i)
      BY <1>1, <1>3, <2>2
    <3> QED BY <1>1, <3>1, <3>2
  <2>3. \A i, m \in 1 .. n : f[i] = f[m] => i = m
    BY <2>2
  <2> HIDE DEF f
  <2> QED BY <2>1, <2>3 DEF Injection, IsInjective
<1>5. IsFiniteSet(1 .. N) /\ Cardinality(1 .. N) = N /\ Cardinality(1 .. n) = n
  <2>1. 1 \in Int /\ N \in Int /\ n \in Int
    BY <1>1, <1>2
  <2>2. /\ IsFiniteSet(1 .. N) /\ Cardinality(1 .. N) = IF 1 > N THEN 0 ELSE N - 1 + 1
        /\ Cardinality(1 .. n) = IF 1 > n THEN 0 ELSE n - 1 + 1
    BY <2>1, FS_Interval
  <2> QED BY <1>1, <1>2, <2>2
<1> HIDE DEF f
<1>6. Cardinality(1 .. n) <= Cardinality(1 .. N)
  BY <1>4, <1>5, FS_Injection
<1>7. n <= N
  BY <1>5, <1>6
<1> QED BY <1>1, <1>2, <1>7 DEF n, N

LEMMA JourneysAre ==
  ASSUME Schedule, NEW q, NEW j
  PROVE  j \in Journeys(q) <=> IsJourney(j, q)
<1> DEFINE N == Len(StopTimes)
           rides == Rides(q)
           table == CHOOSE f : f = [n \in 1 .. N |->
                        IF n = 1
                        THEN {<<r>> : r \in {x \in rides : /\ Stop(x[1]) = q.origin
                                                           /\ Departure(x[1]) >= q.after}}
                        ELSE UNION {{Append(k, r) : r \in {x \in rides : Extends(x, k)}} :
                                        k \in f[n - 1]}]
<1>1. N \in Nat
  BY DEF Schedule
<1>2. PICK o : IsTable(o, rides, q, N)
  BY <1>1, TablesExist
<1>3. o = [n \in 1 .. N |->
                        IF n = 1
                        THEN {<<r>> : r \in {x \in rides : /\ Stop(x[1]) = q.origin
                                                           /\ Departure(x[1]) >= q.after}}
                        ELSE UNION {{Append(k, r) : r \in {x \in rides : Extends(x, k)}} :
                                        k \in o[n - 1]}]
  BY <1>2, Zenon DEF IsTable, Begun, Further
<1>4. table = [n \in 1 .. N |->
                        IF n = 1
                        THEN {<<r>> : r \in {x \in rides : /\ Stop(x[1]) = q.origin
                                                           /\ Departure(x[1]) >= q.after}}
                        ELSE UNION {{Append(k, r) : r \in {x \in rides : Extends(x, k)}} :
                                        k \in table[n - 1]}]
  BY <1>3, Zenon
<1>5. IsTable(table, rides, q, N)
  BY <1>4, Zenon DEF IsTable, Begun, Further
<1>6. Journeys(q) = {k \in UNION {table[n] : n \in 1 .. N} : Stop(Last(k)[2]) = q.destination}
  BY Zenon DEF Journeys
<1> HIDE DEF table, rides, N
<1>7. \A n \in 1 .. N : HoldsRidden(table[n], q, n)
  <2>1. rides = Rides(q)
    BY DEF rides
  <2> QED BY <1>1, <1>5, <2>1, TableIs
<1>8. ASSUME j \in Journeys(q) PROVE IsJourney(j, q)
  <2>1. PICK n \in 1 .. N : j \in table[n]
    BY <1>6, <1>8
  <2>2. Stop(Last(j)[2]) = q.destination /\ Last(j) = j[Len(j)]
    BY <1>6, <1>8 DEF Last
  <2>3. Ridden(j, q)
    BY <1>7, <2>1 DEF HoldsRidden
  <2> QED BY <2>2, <2>3 DEF Ridden, IsJourney
<1>9. ASSUME IsJourney(j, q) PROVE j \in Journeys(q)
  <2>1. IsWay(j, q) /\ Ridden(j, q) /\ Stop(Last(j)[2]) = q.destination
    BY <1>9 DEF IsJourney, Ridden, Last
  <2>2. Len(j) \in 1 .. N
    BY <2>1, WayIsShort DEF N
  <2>3. j \in table[Len(j)]
    BY <1>7, <2>1, <2>2 DEF HoldsRidden
  <2> QED BY <1>6, <2>1, <2>2, <2>3
<1> QED BY <1>8, <1>9

LEMMA CostIs == \A j : Cost(j) = WayCost(j)
BY DEF Cost, WayCost, Last

-----------------------------------------------------------------------------
(* The answer that find_earliest_journey gave last                         *)

IsBest(j, q) ==
    /\ IsJourney(j, q)
    /\ \A k : IsJourney(k, q) => ~Less(WayCost(k), WayCost(j))

IsFound(legs, q) ==
    /\ legs \in Seq(LegType)
    /\ IsBest(AsRides(legs), q)
    /\ Len(legs) = 1 => TripOf(AsRides(legs)[1][1]) = legs[1].trip

AnswerIs(a) ==
    a # NoAnswer /\ a.kind \in {"none", "earliest"} /\ ~Trivial(a.query) =>
        /\ offsets # <<>>
        /\ Timely /\ a.kind = "none" => \A j : ~IsJourney(j, a.query)
        /\ Timely /\ a.kind = "earliest" => IsFound(a.result, a.query)

AnswerInv == \A a : a = answer => AnswerIs(a)

\* What an answer promises depends on the schedule only.
LEMMA AnswersKept ==
  ASSUME UNCHANGED <<files, offsets, walks>>
  PROVE  /\ \A a : AnswerIs(a)' <=> AnswerIs(a)
         /\ Timely' <=> Timely
         /\ \A j, q : IsJourney(j, q)' <=> IsJourney(j, q)
         /\ \A legs, q : IsFound(legs, q)' <=> IsFound(legs, q)
         /\ \A q : Trivial(q)' <=> Trivial(q)
<1>1. /\ Events' = Events
      /\ \A e : /\ TripOf(e)' = TripOf(e) /\ Stop(e)' = Stop(e)
                /\ Arrival(e)' = Arrival(e) /\ Departure(e)' = Departure(e)
                /\ MayBoard(e)' <=> MayBoard(e)
                /\ MayAlight(e)' <=> MayAlight(e)
      /\ \A t, p : Event(t, p)' = Event(t, p)
  BY EventsKept
<1>2. \A date : ActiveTrips(date)' = ActiveTrips(date)
  BY ActiveTripsKept
<1>3. \A e, f : Connects(e, f)' <=> Connects(e, f)
  BY ConnectsKept
<1>4. \A r, date : IsPart(r, date)' <=> IsPart(r, date)
  BY <1>1, <1>2 DEF IsPart
<1>5. \A r, s : Follows(r, s)' <=> Follows(r, s)
  BY <1>1, <1>3 DEF Follows
<1>6. \A j, q : IsWay(j, q)' <=> IsWay(j, q)
  <2>1. \A r : Passed(r)' = Passed(r)
    BY DEF Passed
  <2> QED BY <1>1, <1>4, <1>5, <2>1 DEF IsWay
<1>7. \A j, q : IsJourney(j, q)' <=> IsJourney(j, q)
  BY <1>1, <1>6 DEF IsJourney
<1>8. \A j : WayCost(j)' = WayCost(j)
  BY <1>1 DEF WayCost
<1>9. \A legs : AsRides(legs)' = AsRides(legs)
  BY <1>1 DEF AsRides
<1>10. \A j, q : IsBest(j, q)' <=> IsBest(j, q)
  <2>1. \A a, b : Less(a, b)' <=> Less(a, b)
    BY DEF Less
  <2> QED BY <1>7, <1>8, <2>1 DEF IsBest
<1>11. \A legs, q : IsFound(legs, q)' <=> IsFound(legs, q)
  <2>1. LegType' = LegType
    BY DEF LegType
  <2> QED BY <1>1, <1>9, <1>10, <2>1 DEF IsFound
<1>12. Timely' <=> Timely
  <2>1. StopTimes' = StopTimes
    BY DEF StopTimes
  <2> QED BY <1>1, <2>1 DEF Timely
<1>13. \A q : Trivial(q)' <=> Trivial(q)
  BY <1>2 DEF Trivial
<1> QED BY <1>7, <1>11, <1>12, <1>13 DEF AnswerIs

\* An answer of another kind promises nothing here.
LEMMA OtherAnswers ==
  ASSUME NEW a, a = NoAnswer \/ a.kind \notin {"none", "earliest"} \/ Trivial(a.query)
  PROVE  AnswerIs(a)
BY DEF AnswerIs

LEMMA GiveUpAnswers ==
  ASSUME PlannerIInv, SearchInv, GiveUp
  PROVE  AnswerInv'
<1>1. /\ UNCHANGED <<files, offsets, walks>>
      /\ answer' = [kind |-> "none", query |-> query, result |-> <<>>]
      /\ query # NoAnswer /\ queue = {}
      /\ labels = <<>> => \A e \in Boardings(query.origin, query.after) : ~Continues(e)
  BY DEF GiveUp, Return
<1>2. Schedule /\ offsets # <<>> /\ LabelsInv /\ BestInv /\ SettledInv
  BY <1>1, ScheduleIs DEF SearchInv
<1>3. Timely => \A j : ~IsJourney(j, query)
  BY <1>1, <1>2, JourneyIsOpen
<1>4. AnswerIs([kind |-> "none", query |-> query, result |-> <<>>])
  BY <1>2, <1>3 DEF AnswerIs
<1>5. \A a : a = answer' => AnswerIs(a)'
  BY <1>1, <1>4, AnswersKept
<1> QED BY <1>5 DEF AnswerInv

LEMMA ArriveAnswers ==
  ASSUME PlannerIInv, SearchInv, NEW id, Arrive(id), query # NoAnswer
  PROVE  AnswerInv'
<1>1. /\ UNCHANGED <<files, offsets, walks>>
      /\ answer' = [kind |-> "earliest", query |-> query, result |-> Legs(id)]
      /\ IsNext(id) /\ Arrived(id)
  BY DEF Arrive, Return
<1>2. Schedule /\ offsets # <<>> /\ LabelsInv /\ BestInv /\ SettledInv
  BY ScheduleIs DEF SearchInv
<1>3. id \in DOMAIN labels
  BY <1>1, <1>2 DEF IsNext, BestInv
<1> DEFINE legs == Legs(id)
           j == AsRides(legs)
           q == query
<1>4. IsLegsOf(legs, id)
  BY <1>2, <1>3, LegsAreWay
<1>5. IsJourney(j, q) /\ WayCost(j) = LabelCost(labels[id])
  BY <1>1, <1>2, <1>3, FoundIsJourney
<1>6. legs \in Seq(LegType) /\ Len(legs) > 0 /\ legs[Len(legs)] = Leg(labels[id])
  BY <1>4 DEF IsLegsOf
<1>7. Timely => \A k : IsJourney(k, q) => ~Less(WayCost(k), WayCost(j))
  <2>1. Timely => \A k : IsJourney(k, q) => ~Less(WayCost(k), LabelCost(labels[id]))
    BY <1>1, <1>2, FoundIsBest
  <2> QED BY <1>5, <2>1
<1>8. Len(legs) = 1 => TripOf(j[1][1]) = legs[1].trip
  <2> SUFFICES ASSUME Len(legs) = 1 PROVE TripOf(j[1][1]) = legs[1].trip
    OBVIOUS
  <2> DEFINE l == labels[id]
  <2>1. l \in LabelType /\ IsSound(l)
    BY <1>2, <1>3 DEF LabelsInv
  <2>2. TripOf(Board(l)) = l.trip
    BY <1>2, <2>1, SoundIsPart
  <2>3. legs[1] = Leg(l) /\ 1 \in 1 .. Len(legs)
    BY <1>6
  <2>4. j = AsRides(legs)
    OBVIOUS
  <2> HIDE DEF l, j, legs
  <2>5. j[1] = RideOf(legs[1])
    BY <1>6, <2>3, <2>4, RidesAre
  <2>6. RideOf(legs[1]) = <<Board(l), LabelEvent(l)>> /\ legs[1].trip = l.trip
    BY <2>1, <2>3, LegIs
  <2>7. j[1][1] = Board(l)
    BY <2>5, <2>6
  <2> QED BY <2>2, <2>6, <2>7
<1>9. Timely => IsFound(legs, q)
  <2> HIDE DEF legs, q
  <2> QED BY <1>5, <1>6, <1>7, <1>8 DEF IsFound, IsBest
<1>10. AnswerIs([kind |-> "earliest", query |-> q, result |-> legs])
  <2> HIDE DEF legs, j, q
  <2> QED BY <1>2, <1>9 DEF AnswerIs
<1>11. \A a : a = answer' => AnswerIs(a)'
  <2>1. answer' = [kind |-> "earliest", query |-> q, result |-> legs]
    BY <1>1
  <2> HIDE DEF legs, q
  <2> QED BY <1>1, <1>10, <2>1, AnswersKept
<1> QED BY <1>11 DEF AnswerInv

LEMMA AnswerSteps ==
  ASSUME PlannerIInv, SearchInv, AnswerInv, [Next]_vars
  PROVE  AnswerInv'
<1>1. ASSUME UNCHANGED <<files, offsets, walks, answer>> PROVE AnswerInv'
  <2>1. \A a : AnswerIs(a)' <=> AnswerIs(a)
    BY <1>1, AnswersKept
  <2> QED BY <1>1, <2>1 DEF AnswerInv
<1>2. ASSUME NEW a, a = answer', UNCHANGED <<files>>,
             a = NoAnswer \/ a.kind \notin {"none", "earliest"} \/ Trivial(a.query)
      PROVE  AnswerInv'
  <2>1. \A q : Trivial(q)' <=> Trivial(q)
    BY <1>2, ActiveTripsKept DEF Trivial
  <2>2. AnswerIs(a)'
    BY <1>2, <2>1 DEF AnswerIs
  <2> QED BY <1>2, <2>2 DEF AnswerInv
<1>3. CASE UNCHANGED vars
  BY <1>1, <1>3 DEF vars
<1>4. CASE LoadFiles
  BY <1>1, <1>4 DEF LoadFiles, Load, RefuseDirectory
<1>5. CASE BoardAtOrigin
  BY <1>1, <1>5 DEF BoardAtOrigin
<1>6. CASE GiveUp
  BY <1>6, GiveUpAnswers
<1>7. ASSUME NEW id \in queue, SkipStale(id) \/ Arrive(id) \/ Expand(id) \/ RefuseTransfer(id)
      PROVE  AnswerInv'
  <2>1. query # NoAnswer
    BY DEF SearchInv
  <2>2. CASE SkipStale(id)
    BY <1>1, <2>2 DEF SkipStale
  <2>3. CASE Expand(id)
    BY <1>1, <2>3 DEF Expand
  <2>4. CASE Arrive(id)
    BY <2>1, <2>4, ArriveAnswers
  <2>5. CASE RefuseTransfer(id)
    <3>1. answer' = [kind |-> "error", query |-> query, result |-> <<>>] /\ UNCHANGED files
      BY <2>5 DEF RefuseTransfer, Return
    <3>2. answer'.kind \notin {"none", "earliest"}
      BY <3>1
    <3> QED BY <1>2, <3>1, <3>2
  <2> QED BY <1>7, <2>2, <2>3, <2>4, <2>5
<1>8. ASSUME NEW q \in Queries, Ask(q)
      PROVE  AnswerInv'
  <2>1. UNCHANGED files
    BY <1>8 DEF Ask, RejectQuery, AnswerTrivially, FindDirect, FindEarliest
  <2>2. CASE RejectQuery(q) \/ FindDirect(q)
    <3>1. answer'.kind = "error" \/ answer'.kind = "direct"
      BY <2>2 DEF RejectQuery, FindDirect
    <3>2. answer'.kind \notin {"none", "earliest"}
      BY <3>1
    <3> QED BY <1>2, <2>1, <3>2
  <2>3. CASE AnswerTrivially(q)
    <3>1. answer'.query = q /\ Trivial(q)
      BY <2>3 DEF AnswerTrivially
    <3> QED BY <1>2, <2>1, <3>1
  <2>4. CASE FindEarliest(q)
    BY <1>2, <2>1, <2>4 DEF FindEarliest
  <2> QED BY <1>8, <2>2, <2>3, <2>4 DEF Ask
<1> QED BY <1>3, <1>4, <1>5, <1>6, <1>7, <1>8 DEF Next, SearchStep

LEMMA AnswerBegins == Init => AnswerInv
BY OtherAnswers DEF Init, AnswerInv

THEOREM AnswerInvariant == Spec => []AnswerInv
<1>1. PlannerIInv /\ SearchInv /\ AnswerInv /\ [Next]_vars => AnswerInv'
  BY AnswerSteps
<1> QED BY <1>1, AnswerBegins, PlannerInvariant, SearchInvariant, PTL DEF Spec

\* What find_earliest_journey returns can be ridden, and no other journey arrives
\* earlier, or as early with fewer transfers, or then with a later departure; it
\* returns None when there is no journey (local_gtfs.py: find_earliest_journey).
THEOREM EarliestIsBestTheorem == Spec => []EarliestIsBest
<1>1. PlannerIInv /\ AnswerInv => EarliestIsBest
  <2> SUFFICES ASSUME PlannerIInv, AnswerInv, Searched, Timely
               PROVE  /\ answer.kind = "none" => Journeys(answer.query) = {}
                      /\ answer.kind = "earliest" =>
                            /\ AsRides(answer.result) \in Journeys(answer.query)
                            /\ \A j \in Journeys(answer.query) :
                                    ~Less(Cost(j), Cost(AsRides(answer.result)))
    BY DEF EarliestIsBest
  <2>1. AnswerIs(answer) /\ Schedule
    <3>1. AnswerIs(answer)
      BY DEF AnswerInv
    <3>2. offsets # <<>>
      BY <3>1 DEF AnswerIs, Searched
    <3> QED BY <3>1, <3>2, ScheduleIs
  <2> DEFINE q == answer.query
             found == AsRides(answer.result)
  <2>2. \A j : j \in Journeys(q) <=> IsJourney(j, q)
    BY <2>1, JourneysAre
  <2>3. CASE answer.kind = "none"
    <3>1. \A j : ~IsJourney(j, q)
      BY <2>1, <2>3 DEF AnswerIs, Searched
    <3> QED BY <2>2, <2>3, <3>1
  <2>4. CASE answer.kind = "earliest"
    <3>1. IsBest(found, q)
      BY <2>1, <2>4 DEF AnswerIs, Searched, IsFound
    <3> HIDE DEF found, q
    <3>2. found \in Journeys(q) /\ \A j \in Journeys(q) : ~Less(Cost(j), Cost(found))
      BY <2>2, <3>1, CostIs DEF IsBest
    <3> QED BY <2>4, <3>2 DEF found, q
  <2> QED BY <2>3, <2>4
<1> QED BY <1>1, PlannerInvariant, AnswerInvariant, PTL

-----------------------------------------------------------------------------
(* The two queries                                                         *)

LEMMA LessFour ==
  ASSUME NEW a, NEW b, NEW c, NEW d, NEW x, NEW y, NEW v, NEW w
  PROVE  Less(<<a, b, c, d>>, <<x, y, v, w>>) <=> \/ a < x
                                                  \/ a = x /\ b < y
                                                  \/ a = x /\ b = y /\ c < v
                                                  \/ a = x /\ b = y /\ c = v /\ d < w
<1>1. \A k : k \in DOMAIN <<a, b, c, d>> <=> k = 1 \/ k = 2 \/ k = 3 \/ k = 4
  OBVIOUS
<1>2. \A m : m \in 1 .. 1 - 1 <=> FALSE
  OBVIOUS
<1>3. \A m : m \in 1 .. 2 - 1 <=> m = 1
  OBVIOUS
<1>4. \A m : m \in 1 .. 3 - 1 <=> m = 1 \/ m = 2
  OBVIOUS
<1>5. \A m : m \in 1 .. 4 - 1 <=> m = 1 \/ m = 2 \/ m = 3
  OBVIOUS
<1> QED BY <1>1, <1>2, <1>3, <1>4, <1>5 DEF Less

LEMMA LeastBy ==
  ASSUME NEW S, S # {}, NEW f \in [S -> Nat]
  PROVE  \E x \in S : \A y \in S : f[x] <= f[y]
<1> DEFINE T == {f[x] : x \in S}
<1>1. T \in SUBSET Nat /\ T # {}
  OBVIOUS
<1> HIDE DEF T
<1>2. PICK n \in T : \A m \in T : n <= m
  BY <1>1, LeastExists
<1> QED BY <1>2 DEF T

\* The rides that find_direct_journeys compares on a trip.
IsDirect(r, q, t) ==
    /\ r \in Events \X Events /\ TripOf(r[1]) = t /\ TripOf(r[2]) = t
    /\ Stop(r[1]) = q.origin /\ Stop(r[2]) = q.destination
    /\ Departure(r[1]) >= q.after /\ MayBoard(r[1])
    /\ r[1] < r[2] /\ Arrival(r[2]) >= Departure(r[1]) /\ MayAlight(r[2])

LEMMA BestRideIs ==
  ASSUME NEW q, NEW t, NEW rides, rides = {r \in Events \X Events : IsDirect(r, q, t)}
  PROVE  BestRide(q, t) = {r \in rides : \A s \in rides \ {r} :
                                Less(<<Arrival(r[2]), Departure(r[1]), r[2], r[1]>>,
                                     <<Arrival(s[2]), Departure(s[1]), s[2], s[1]>>)}
<1> DEFINE events == {e \in DOMAIN StopTimes : TripOf(e) = t}
           those == {r \in events \X events :
                        /\ Stop(r[1]) = q.origin /\ Stop(r[2]) = q.destination
                        /\ Departure(r[1]) >= q.after /\ MayBoard(r[1])
                        /\ r[1] < r[2] /\ Arrival(r[2]) >= Departure(r[1]) /\ MayAlight(r[2])}
<1>1. \A r : r \in events \X events <=>
                r \in Events \X Events /\ TripOf(r[1]) = t /\ TripOf(r[2]) = t
  <2> TAKE r
  <2>1. ASSUME r \in events \X events
        PROVE  r \in Events \X Events /\ TripOf(r[1]) = t /\ TripOf(r[2]) = t
    BY <2>1 DEF Events
  <2>2. ASSUME r \in Events \X Events, TripOf(r[1]) = t, TripOf(r[2]) = t
        PROVE  r \in events \X events
    BY <2>2 DEF Events
  <2> QED BY <2>1, <2>2
<1> HIDE DEF events
<1>2. \A r : r \in those <=> r \in rides
  BY <1>1 DEF IsDirect
<1>3. those = rides
  <2> HIDE DEF those
  <2> QED BY <1>2
<1>4. BestRide(q, t) = {r \in those : \A s \in those \ {r} :
                                Less(<<Arrival(r[2]), Departure(r[1]), r[2], r[1]>>,
                                     <<Arrival(s[2]), Departure(s[1]), s[2], s[1]>>)}
  BY Zenon DEF BestRide, events
<1> HIDE DEF those
<1> QED BY <1>3, <1>4

LEMMA BestIsDirect ==
  ASSUME NEW q, NEW t, NEW r \in BestRide(q, t)
  PROVE  IsDirect(r, q, t)
<1> DEFINE rides == {s \in Events \X Events : IsDirect(s, q, t)}
<1>1. rides = {s \in Events \X Events : IsDirect(s, q, t)}
  OBVIOUS
<1> HIDE DEF rides
<1>2. BestRide(q, t) = {a \in rides : \A s \in rides \ {a} :
                                Less(<<Arrival(a[2]), Departure(a[1]), a[2], a[1]>>,
                                     <<Arrival(s[2]), Departure(s[1]), s[2], s[1]>>)}
  BY <1>1, BestRideIs
<1>3. r \in rides
  BY <1>2
<1> QED BY <1>1, <1>3

\* A trip with such a ride has a best one, which arrives no later.
LEMMA BestRideExists ==
  ASSUME Schedule, NEW q, NEW t, NEW f, IsDirect(f, q, t)
  PROVE  \E r \in BestRide(q, t) : IsDirect(r, q, t) /\ Arrival(r[2]) <= Arrival(f[2])
<1> DEFINE R1 == {r \in Events \X Events : IsDirect(r, q, t)}
<1>1. f \in R1
  BY DEF IsDirect
<1>2. \A r \in R1 : /\ r[1] \in Nat /\ r[2] \in Nat /\ IsDirect(r, q, t)
                    /\ Arrival(r[2]) \in Nat /\ Departure(r[1]) \in Nat
                    /\ r = <<r[1], r[2]>>
  <2> TAKE r \in R1
  <2>1. r[1] \in Events /\ r[2] \in Events /\ r = <<r[1], r[2]>>
    OBVIOUS
  <2> QED BY <2>1, EventIs, EventsAreFinite
<1>3. BestRide(q, t) = {r \in R1 : \A s \in R1 \ {r} :
                                Less(<<Arrival(r[2]), Departure(r[1]), r[2], r[1]>>,
                                     <<Arrival(s[2]), Departure(s[1]), s[2], s[1]>>)}
  <2>1. R1 = {r \in Events \X Events : IsDirect(r, q, t)}
    OBVIOUS
  <2> HIDE DEF R1
  <2> QED BY <2>1, BestRideIs
<1> HIDE DEF R1
<1>4. PICK a \in R1 : \A s \in R1 : Arrival(a[2]) <= Arrival(s[2])
  <2> DEFINE g == [r \in R1 |-> Arrival(r[2])]
  <2>1. g \in [R1 -> Nat] /\ R1 # {}
    BY <1>1, <1>2
  <2>2. \A r \in R1 : g[r] = Arrival(r[2])
    OBVIOUS
  <2> HIDE DEF g
  <2>3. PICK x \in R1 : \A y \in R1 : g[x] <= g[y]
    BY <2>1, LeastBy
  <2> QED BY <2>2, <2>3
<1> DEFINE R2 == {r \in R1 : Arrival(r[2]) = Arrival(a[2])}
<1>5. PICK b \in R2 : \A s \in R2 : Departure(b[1]) <= Departure(s[1])
  <2> DEFINE g == [r \in R2 |-> Departure(r[1])]
  <2>1. g \in [R2 -> Nat] /\ R2 # {}
    BY <1>2
  <2>2. \A r \in R2 : g[r] = Departure(r[1])
    OBVIOUS
  <2> HIDE DEF g, R2
  <2>3. PICK x \in R2 : \A y \in R2 : g[x] <= g[y]
    BY <2>1, LeastBy
  <2> QED BY <2>2, <2>3
<1> DEFINE R3 == {r \in R2 : Departure(r[1]) = Departure(b[1])}
<1>6. PICK c \in R3 : \A s \in R3 : c[2] <= s[2]
  <2> DEFINE g == [r \in R3 |-> r[2]]
  <2>1. g \in [R3 -> Nat] /\ R3 # {}
    BY <1>2
  <2>2. \A r \in R3 : g[r] = r[2]
    OBVIOUS
  <2> HIDE DEF g, R3
  <2>3. PICK x \in R3 : \A y \in R3 : g[x] <= g[y]
    BY <2>1, LeastBy
  <2> QED BY <2>2, <2>3
<1> DEFINE R4 == {r \in R3 : r[2] = c[2]}
<1>7. PICK d \in R4 : \A s \in R4 : d[1] <= s[1]
  <2> DEFINE g == [r \in R4 |-> r[1]]
  <2>1. g \in [R4 -> Nat] /\ R4 # {}
    BY <1>2
  <2>2. \A r \in R4 : g[r] = r[1]
    OBVIOUS
  <2> HIDE DEF g, R4
  <2>3. PICK x \in R4 : \A y \in R4 : g[x] <= g[y]
    BY <2>1, LeastBy
  <2> QED BY <2>2, <2>3
<1>8. /\ d \in R1 /\ Arrival(d[2]) = Arrival(a[2]) /\ Departure(d[1]) = Departure(b[1])
      /\ d[2] = c[2]
  OBVIOUS
<1>9. \A s \in R1 \ {d} :
        Less(<<Arrival(d[2]), Departure(d[1]), d[2], d[1]>>,
             <<Arrival(s[2]), Departure(s[1]), s[2], s[1]>>)
  <2> TAKE s \in R1 \ {d}
  <2>1. Arrival(d[2]) <= Arrival(s[2])
    BY <1>4, <1>8
  <2>2. Arrival(d[2]) = Arrival(s[2]) => Departure(d[1]) <= Departure(s[1])
    BY <1>5, <1>8
  <2>3. Arrival(d[2]) = Arrival(s[2]) /\ Departure(d[1]) = Departure(s[1]) => d[2] <= s[2]
    BY <1>6, <1>8
  <2>4. Arrival(d[2]) = Arrival(s[2]) /\ Departure(d[1]) = Departure(s[1]) /\ d[2] = s[2]
            => d[1] <= s[1]
    BY <1>7, <1>8
  <2>5. d[1] # s[1] \/ d[2] # s[2]
    BY <1>2, <1>8
  <2>6. /\ Arrival(d[2]) \in Nat /\ Departure(d[1]) \in Nat /\ d[1] \in Nat /\ d[2] \in Nat
        /\ Arrival(s[2]) \in Nat /\ Departure(s[1]) \in Nat /\ s[1] \in Nat /\ s[2] \in Nat
    BY <1>2, <1>8
  <2>7. \/ Arrival(d[2]) < Arrival(s[2])
        \/ Arrival(d[2]) = Arrival(s[2]) /\ Departure(d[1]) < Departure(s[1])
        \/ Arrival(d[2]) = Arrival(s[2]) /\ Departure(d[1]) = Departure(s[1]) /\ d[2] < s[2]
        \/ /\ Arrival(d[2]) = Arrival(s[2]) /\ Departure(d[1]) = Departure(s[1])
           /\ d[2] = s[2] /\ d[1] < s[1]
    BY <2>1, <2>2, <2>3, <2>4, <2>5, <2>6
  <2> QED BY <2>7, LessFour
<1> HIDE DEF R2, R3, R4
<1>10. d \in BestRide(q, t)
  BY <1>3, <1>8, <1>9
<1>11. Arrival(d[2]) <= Arrival(f[2])
  BY <1>1, <1>4, <1>8
<1> QED BY <1>2, <1>8, <1>10, <1>11

\* On a schedule that goes forward a direct ride is a journey.
LEMMA DirectIsJourney ==
  ASSUME Schedule, Forward, NEW q, NEW t \in ActiveTrips(q.date), NEW r, IsDirect(r, q, t)
  PROVE  IsJourney(<<r>>, q)
<1>1. /\ r \in Events \X Events /\ TripOf(r[1]) = t /\ TripOf(r[2]) = t
      /\ Stop(r[1]) = q.origin /\ Stop(r[2]) = q.destination
      /\ Departure(r[1]) >= q.after /\ MayBoard(r[1]) /\ r[1] < r[2] /\ MayAlight(r[2])
  BY DEF IsDirect
<1>2. r[1] \in Events /\ r[2] \in Events /\ r[1] \in Nat /\ r[2] \in Nat
  BY <1>1, EventsAreFinite
<1>3. \A g \in r[1] .. r[2] - 1 : Arrival(g + 1) >= Departure(g)
  <2> TAKE g \in r[1] .. r[2] - 1
  <2> DEFINE h == g + 1
  <2>1. g \in r[1] .. r[2] /\ h \in r[1] .. r[2]
    BY <1>2
  <2>2. g \in Events /\ h \in Events /\ TripOf(g) = TripOf(h)
    BY <1>1, <1>2, <2>1, BetweenIs
  <2>3. h > 1 /\ h - 1 = g
    BY <2>2, EventsAreFinite, EventIs
  <2>4. Departure(h - 1) <= Arrival(h)
    BY <2>2, <2>3 DEF Forward, Events
  <2>5. Departure(g) \in Nat /\ Arrival(h) \in Nat
    BY <2>2, EventIs
  <2> HIDE DEF h
  <2>6. Arrival(h) >= Departure(g)
    BY <2>3, <2>4, <2>5
  <2> QED BY <2>6 DEF h
<1>4. r \in Rides(q)
  <2>1. IsPart(r, q.date)
    BY <1>1, <1>2, <1>3 DEF IsPart
  <2> QED BY <1>1, <2>1, RideIs
<1> DEFINE j == <<r>>
<1>5. j \in Begun(Rides(q), q)
  BY <1>1, <1>4 DEF Begun
<1>6. Ridden(j, q) /\ Len(j) = 1
  BY <1>5, BegunIs
<1> QED BY <1>1, <1>6 DEF Ridden, IsJourney

\* Costs tell arrivals.
LEMMA NoEarlier ==
  ASSUME Schedule, NEW q, NEW j, NEW k, IsJourney(j, q), IsJourney(k, q),
         ~Less(WayCost(k), WayCost(j))
  PROVE  Arrival(k[Len(k)][2]) >= Arrival(j[Len(j)][2])
<1>1. ASSUME NEW i, IsJourney(i, q)
      PROVE  Arrival(i[Len(i)][2]) \in Nat
  <2>1. IsWay(i, q)
    BY <1>1 DEF IsJourney
  <2>2. IsPart(i[Len(i)], q.date)
    BY <2>1, WayIs
  <2> QED BY <2>2, EventIs DEF IsPart
<1>2. ~(Arrival(k[Len(k)][2]) < Arrival(j[Len(j)][2]))
  BY LessThree DEF WayCost
<1> QED BY <1>1, <1>2

\* The two queries agree on a schedule that goes forward
\* (local_gtfs.py: find_direct_journeys, find_earliest_journey).
THEOREM DirectAgreesTheorem == Spec => []DirectAgreesWithEarliest
<1>1. PlannerIInv /\ AnswerInv => DirectAgreesWithEarliest
  <2> DEFINE q == answer.query
             found == AsRides(answer.result)
  <2> SUFFICES ASSUME PlannerIInv, AnswerInv, Searched, Timely, Forward
               PROVE  /\ answer.kind = "none" => DirectRides(q) = {}
                      /\ answer.kind = "earliest" =>
                            /\ \A r \in DirectRides(q) : Arrival(r[2]) >= Arrival(Last(found)[2])
                            /\ Len(answer.result) = 1 =>
                                \E r \in DirectRides(q) :
                                    /\ TripOf(r[1]) = answer.result[1].trip
                                    /\ Arrival(r[2]) = Arrival(Last(found)[2])
    BY DEF DirectAgreesWithEarliest
  <2>1. AnswerIs(answer) /\ Schedule
    <3>1. AnswerIs(answer)
      BY DEF AnswerInv
    <3>2. offsets # <<>>
      BY <3>1 DEF AnswerIs, Searched
    <3> QED BY <3>1, <3>2, ScheduleIs
  <2>2. ASSUME NEW r \in DirectRides(q)
        PROVE  IsJourney(<<r>>, q)
    <3>1. PICK t \in ActiveTrips(q.date) : r \in BestRide(q, t)
      BY DEF DirectRides
    <3>2. IsDirect(r, q, t)
      BY <3>1, BestIsDirect
    <3> HIDE DEF q
    <3> QED BY <2>1, <3>2, DirectIsJourney
  <2>3. CASE answer.kind = "none"
    <3>1. \A j : ~IsJourney(j, q)
      BY <2>1, <2>3 DEF AnswerIs, Searched
    <3> QED BY <2>2, <2>3, <3>1
  <2>4. CASE answer.kind = "earliest"
    <3>1. IsFound(answer.result, q)
      BY <2>1, <2>4 DEF AnswerIs, Searched
    <3>2. /\ IsJourney(found, q)
          /\ \A k : IsJourney(k, q) => ~Less(WayCost(k), WayCost(found))
          /\ answer.result \in Seq(LegType)
          /\ Len(answer.result) = 1 => TripOf(found[1][1]) = answer.result[1].trip
      BY <3>1 DEF IsFound, IsBest
    <3>3. Last(found) = found[Len(found)] /\ Len(found) = Len(answer.result)
      BY <3>2, RidesAre DEF Last
    <3> HIDE DEF found, q
    <3>4. ASSUME NEW r \in DirectRides(q)
          PROVE  Arrival(r[2]) >= Arrival(Last(found)[2])
      <4> DEFINE k == <<r>>
      <4>1. IsJourney(k, q) /\ k[Len(k)] = r
        BY <2>2
      <4>2. ~Less(WayCost(k), WayCost(found))
        BY <3>2, <4>1
      <4> HIDE DEF k
      <4> QED BY <2>1, <3>2, <3>3, <4>1, <4>2, NoEarlier
    <3>5. ASSUME Len(answer.result) = 1
          PROVE  \E r \in DirectRides(q) : /\ TripOf(r[1]) = answer.result[1].trip
                                           /\ Arrival(r[2]) = Arrival(Last(found)[2])
      <4> DEFINE f == found[1]
                 t == TripOf(f[1])
      <4>1. Len(found) = 1 /\ Last(found) = f /\ t = answer.result[1].trip
        BY <3>2, <3>3, <3>5
      <4>2. /\ IsWay(found, q) /\ MayAlight(f[2]) /\ Stop(f[2]) = q.destination
        BY <3>2, <4>1 DEF IsJourney
      <4>3. /\ found \in Seq(Events \X Events) /\ IsPart(f, q.date)
            /\ Stop(f[1]) = q.origin /\ Departure(f[1]) >= q.after
        BY <4>1, <4>2, WayIs
      <4>4. f \in Events \X Events
        <5>1. 1 \in 1 .. Len(found)
          BY <4>1
        <5> QED BY <4>3, <5>1
      <4> HIDE DEF f
      <4>5. f[2] \in Passed(f)
        BY <2>1, <4>3, PartIs
      <4>6. Arrival(f[2]) >= Departure(f[1]) /\ Arrival(f[2]) \in Nat
        BY <2>1, <4>3, <4>5, PartIsTimed
      <4>7. IsDirect(f, q, t) /\ t \in ActiveTrips(q.date)
        BY <4>2, <4>3, <4>4, <4>6 DEF IsDirect, IsPart
      <4> HIDE DEF t
      <4>8. PICK r \in BestRide(q, t) : IsDirect(r, q, t) /\ Arrival(r[2]) <= Arrival(f[2])
        BY <2>1, <4>7, BestRideExists
      <4>9. r \in DirectRides(q) /\ TripOf(r[1]) = t
        BY <4>7, <4>8 DEF DirectRides, IsDirect
      <4>10. Arrival(r[2]) >= Arrival(f[2]) /\ Arrival(r[2]) \in Nat
        <5>1. r[2] \in Events
          BY <4>8 DEF IsDirect
        <5> QED BY <2>1, <3>4, <4>1, <4>9, <5>1, EventIs
      <4>11. Arrival(r[2]) = Arrival(Last(found)[2])
        BY <4>1, <4>6, <4>8, <4>10
      <4> QED BY <4>1, <4>9, <4>11
    <3> QED BY <2>4, <3>4, <3>5
  <2> QED BY <2>3, <2>4
<1> QED BY <1>1, PlannerInvariant, AnswerInvariant, PTL
=============================================================================
