--------------------------- MODULE JourneySearch ---------------------------
(***************************************************************************)
(* LocalGtfsSchedulePlanner's two queries over the loaded schedule:        *)
(* find_direct_journeys scans one pair of stops, and find_earliest_journey *)
(* searches over (trip, position) states with a heap of labels.  A step of *)
(* the search is one turn of its loop, which pops one label.               *)
(*                                                                         *)
(* A label says how a trip's position was reached: where the trip was      *)
(* boarded, from which label, and at what cost.  The heap may hold labels  *)
(* that a better one has replaced; best_label_by_state tells.              *)
(***************************************************************************)
EXTENDS ScheduleFiles

CONSTANTS
    Directories, \* what the planner may find on the disk
    Queries,    \* [origin, destination, date, after, limit]
    NoAnswer

\* A file that can be read is a sequence of rows.
ASSUME DirectoriesAssumption ==
    \A directory \in Directories :
        \A f \in (Loaders \ {"trip_services"}) \cup {"stop_times"} :
            directory[f] = Unreadable \/ directory[f] \in Seq(ToSet(directory[f]))

VARIABLES
    offsets,    \* trip_offsets, <<>> until a query has loaded stop_times
    walks,      \* _pathway_transfer_cache, filled at once by the first search
    query,      \* the query being answered, or NoAnswer
    labels,     \* every label of the search, in the order of its ids
    best,       \* best_label_by_state, a label's id
    queue,      \* the heap, as a set of ids
    answer      \* what the last query returned

searchVars == <<query, labels, best, queue>>
vars == <<files, stage, offsets, walks, searchVars, answer>>

-----------------------------------------------------------------------------
(* Events: an index of stop_times, or a trip and a position in it.         *)

Event(t, p) == offsets[t] + p + 1
TripOf(e) == TripIndex(StopTimes[e].trip)
Position(e) == e - offsets[TripOf(e)] - 1
TripLength(t) == offsets[t + 1] - offsets[t]
Stop(e) == StopTimes[e].stop
Arrival(e) == StopTimes[e].arrival
Departure(e) == StopTimes[e].departure
MayBoard(e) == OrZero(StopTimes[e].pickup) = 0
MayAlight(e) == OrZero(StopTimes[e].drop_off) = 0

\* The trip goes on from e, and does not arrive before it leaves e.
Continues(e) ==
    /\ Position(e) + 1 < TripLength(TripOf(e))
    /\ Arrival(e + 1) >= Departure(e)

Boardings(stop, after) ==
    {e \in DOMAIN StopTimes :
        /\ Stop(e) = stop
        /\ Departure(e) >= after
        /\ TripOf(e) \in ActiveTrips(query.date)
        /\ MayBoard(e)}

-----------------------------------------------------------------------------
(* Transfers from an event where the rider alights to one of another trip. *)

Applicable(e, f) ==
    LET id(x) == StopTimes[x].trip
    IN  {r \in RulesBetween(Stop(e), Stop(f)) :
            /\ Selects(r.from_trip, r.from_route, id(e))
            /\ Selects(r.to_trip, r.to_route, id(f))}

MostSpecific(rules) ==
    {r \in rules : \A q \in rules : Specificity(r) <= Specificity(q)}

Ambiguous(e, f) == Cardinality(MostSpecific(Applicable(e, f))) > 1

\* A walk is needed when no rule applies, or only a recommended transfer.
MayTransfer(e, f) ==
    LET kinds == {Kind(r) : r \in MostSpecific(Applicable(e, f))}
    IN  /\ kinds \cap {3, 4, 5} = {}
        /\ kinds \in {{}, {0}} => Stop(f) \in DOMAIN walks[Stop(e)]

MinimumSeconds(e, f) ==
    Max({OrZero(r.min) : r \in MostSpecific(Applicable(e, f))}
        \cup {walks[Stop(e)][p] : p \in DOMAIN walks[Stop(e)] \cap {Stop(f)}} \cup {0})

\* The events of other trips that the search looks at after alighting at e.
Reachable(e) ==
    {f \in DOMAIN StopTimes :
        /\ RulesBetween(Stop(e), Stop(f)) # {} \/ Stop(f) \in DOMAIN walks[Stop(e)]
        /\ TripOf(f) # TripOf(e)
        /\ f \in Boardings(Stop(f), Arrival(e))}

Connects(e, f) ==
    /\ MayTransfer(e, f)
    /\ Departure(f) - Arrival(e) >= MinimumSeconds(e, f)
    /\ Continues(f)

-----------------------------------------------------------------------------
(* Labels *)

Rank(l) == <<l.transfers, -l.departure>>

Less(a, b) ==
    \E k \in DOMAIN a : /\ a[k] < b[k]
                        /\ \A m \in 1 .. k - 1 : a[m] = b[m]

State(l) == <<l.trip, l.position>>
LabelEvent(l) == Event(l.trip, l.position)
HeapKey(id) ==
    LET l == labels[id]
    IN  <<Arrival(LabelEvent(l)), l.transfers, -l.departure, l.trip, l.position, id>>

\* A rider who boarded at event f is at the next event of the trip.
BoardLabel(f, parent, transfers, departure) ==
    [trip |-> TripOf(f), position |-> Position(f) + 1, board |-> Position(f),
     parent |-> parent, transfers |-> transfers, departure |-> departure]

\* Mutant: the first label of a state stays.
Enqueue_FirstWins(candidates, ids) ==
    LET new == SetToSeq({l \in candidates : State(l) \notin DOMAIN best})
        Id(s) == CHOOSE i \in DOMAIN labels' \ DOMAIN labels : State(labels'[i]) = s
    IN  /\ labels' = labels \o new
        /\ best' = [s \in {State(l) : l \in ToSet(new)} |-> Id(s)] @@ best
        /\ queue' = ids \cup (DOMAIN labels' \ DOMAIN labels)

\* _enqueue_search_label for candidates of distinct states.
Enqueue(candidates, ids) ==
    LET improving == {l \in candidates :
                        State(l) \in DOMAIN best =>
                            Less(Rank(l), Rank(labels[best[State(l)]]))}
        Id(s) == CHOOSE i \in DOMAIN labels' \ DOMAIN labels : State(labels'[i]) = s
    IN  /\ labels' = labels \o SetToSeq(improving)
        /\ best' = [s \in {State(l) : l \in improving} \cup DOMAIN best |->
                        IF \E l \in improving : State(l) = s THEN Id(s) ELSE best[s]]
        /\ queue' = ids \cup (DOMAIN labels' \ DOMAIN labels)

Leg(l) == [trip |-> l.trip, from |-> l.board, to |-> l.position]

Longer(legs, l) ==
    IF l.parent = 0 THEN <<Leg(l)>>
    ELSE IF labels[l.parent].trip = l.trip
    THEN [legs EXCEPT ![Len(legs)].to = l.position]
    ELSE Append(legs, Leg(l))

\* _journey_from_search_labels: the legs of the labels up to id.
Legs(id) ==
    LET Chain[i \in DOMAIN labels] == Longer(Chain[labels[i].parent], labels[i])
    IN  Chain[id]

-----------------------------------------------------------------------------
(* Beginning a query: both check it and load stop_times when needed.       *)

Idle == stage = "ready" /\ query = NoAnswer

Valid(q) ==
    \A s \in {q.origin, q.destination} : s \in Ids("stops") /\ LocationType(s) = 0

StopTimesUsable == offsets # <<>> \/ (files["stop_times"] # Unreadable /\ StopTimesLoad)

\* Nothing is searched when the answer is known to be empty.
Trivial(q) == q.origin = q.destination \/ ActiveTrips(q.date) = {}

RejectQuery(q) ==
    /\ Idle
    /\ \/ ~Valid(q)
       \/ ~Trivial(q) /\ ~StopTimesUsable
    /\ answer' = [kind |-> "error", query |-> q, result |-> <<>>]
    /\ UNCHANGED <<files, stage, offsets, walks, searchVars>>

AnswerTrivially(q) ==
    /\ Idle
    /\ Valid(q)
    /\ Trivial(q)
    /\ answer' = [kind |-> "none", query |-> q, result |-> <<>>]
    /\ UNCHANGED <<files, stage, offsets, walks, searchVars>>

\* Mutant: rides may end where nobody may alight.
BestRide_IgnoresDropOff(q, t) ==
    LET events == {e \in DOMAIN StopTimes : TripOf(e) = t}
        rides == {r \in events \X events :
                    /\ Stop(r[1]) = q.origin /\ Stop(r[2]) = q.destination
                    /\ Departure(r[1]) >= q.after /\ MayBoard(r[1])
                    /\ r[1] < r[2] /\ Arrival(r[2]) >= Departure(r[1])}
        Order(r) == <<Arrival(r[2]), Departure(r[1]), r[2], r[1]>>
    IN  {r \in rides : \A s \in rides \ {r} : Less(Order(r), Order(s))}

\* The best ride of a trip: earliest arrival, then earliest departure.
BestRide(q, t) ==
    LET events == {e \in DOMAIN StopTimes : TripOf(e) = t}
        rides == {r \in events \X events :
                    /\ Stop(r[1]) = q.origin /\ Stop(r[2]) = q.destination
                    /\ Departure(r[1]) >= q.after /\ MayBoard(r[1])
                    /\ r[1] < r[2] /\ Arrival(r[2]) >= Departure(r[1]) /\ MayAlight(r[2])}
        Order(r) == <<Arrival(r[2]), Departure(r[1]), r[2], r[1]>>
    IN  {r \in rides : \A s \in rides \ {r} : Less(Order(r), Order(s))}

DirectRides(q) == UNION {BestRide(q, t) : t \in ActiveTrips(q.date)}

DirectJourneys(q) ==
    LET Timetable(r, s) == Less(<<Departure(r[1]), Arrival(r[2]), r[1]>>,
                                <<Departure(s[1]), Arrival(s[2]), s[1]>>)
    IN  SetToSortSeq(DirectRides(q), Timetable)

FindDirect(q) ==
    /\ Idle
    /\ Valid(q) /\ ~Trivial(q) /\ StopTimesUsable
    /\ offsets' = TripOffsets
    /\ answer' = [kind |-> "direct", query |-> q,
                  result |-> SubSeq(DirectJourneys(q), 1,
                                    Min({q.limit, Len(DirectJourneys(q))}))]
    /\ UNCHANGED <<files, stage, walks, searchVars>>

-----------------------------------------------------------------------------
(* find_earliest_journey *)

FindEarliest(q) ==
    /\ Idle
    /\ Valid(q) /\ ~Trivial(q) /\ StopTimesUsable
    /\ offsets' = TripOffsets
    /\ walks' = [s \in Ids("stops") |-> PathwaysFrom(s)]
    /\ query' = q
    /\ best' = <<>>
    /\ labels' = <<>>
    /\ queue' = {}
    /\ answer' = NoAnswer
    /\ UNCHANGED <<files, stage>>

\* The rows of the origin, before the loop.
BoardAtOrigin ==
    /\ query # NoAnswer /\ labels = <<>>
    /\ LET rows == {e \in Boardings(query.origin, query.after) : Continues(e)}
       IN  /\ rows # {}
           /\ Enqueue({BoardLabel(e, 0, 0, Departure(e)) : e \in rows}, {})
    /\ UNCHANGED <<files, stage, offsets, walks, query, answer>>

Return(kind, result) ==
    /\ answer' = [kind |-> kind, query |-> query, result |-> result]
    /\ query' = NoAnswer
    /\ labels' = <<>> /\ best' = <<>> /\ queue' = {}
    /\ UNCHANGED <<files, stage, offsets, walks>>

IsNext(id) ==
    /\ id \in queue
    /\ \A other \in queue \ {id} : Less(HeapKey(id), HeapKey(other))

\* A label that a better one for its state has replaced.
IsStale(id) == best[State(labels[id])] # id

SkipStale(id) ==
    /\ IsNext(id)
    /\ IsStale(id)
    /\ queue' = queue \ {id}
    /\ UNCHANGED <<files, stage, offsets, walks, query, labels, best, answer>>

Arrived(id) ==
    LET e == LabelEvent(labels[id])
    IN  Stop(e) = query.destination /\ MayAlight(e)

Arrive(id) ==
    /\ IsNext(id)
    /\ ~IsStale(id)
    /\ Arrived(id)
    /\ Return("earliest", Legs(id))

\* The candidates of one turn: stay on the trip, or transfer to another.
Ride(id) ==
    LET l == labels[id]
    IN  {[l EXCEPT !.position = l.position + 1, !.parent = id] :
            e \in {x \in {LabelEvent(l)} : Continues(x)}}

Transfers(id) ==
    LET l == labels[id]
        e == LabelEvent(l)
    IN  {BoardLabel(f, id, l.transfers + 1, l.departure) :
            f \in {x \in Reachable(e) : Connects(e, x)}}

\* Mutant: the label stays in the heap.
Expand_KeepsLabel(id) ==
    /\ IsNext(id)
    /\ ~IsStale(id)
    /\ ~Arrived(id)
    /\ Enqueue(Ride(id) \cup IF MayAlight(LabelEvent(labels[id]))
                            THEN Transfers(id) ELSE {}, queue)
    /\ UNCHANGED <<files, stage, offsets, walks, query, answer>>

Expand(id) ==
    /\ IsNext(id)
    /\ ~IsStale(id)
    /\ ~Arrived(id)
    /\ LET e == LabelEvent(labels[id])
       IN  /\ MayAlight(e) => \A f \in Reachable(e) : ~Ambiguous(e, f)
           /\ Enqueue(Ride(id) \cup IF MayAlight(e) THEN Transfers(id) ELSE {},
                      queue \ {id})
    /\ UNCHANGED <<files, stage, offsets, walks, query, answer>>

\* Two rules of the highest specificity apply to a transfer.
RefuseTransfer(id) ==
    /\ IsNext(id)
    /\ ~IsStale(id)
    /\ ~Arrived(id)
    /\ LET e == LabelEvent(labels[id])
       IN  MayAlight(e) /\ \E f \in Reachable(e) : Ambiguous(e, f)
    /\ Return("error", <<>>)

GiveUp ==
    /\ query # NoAnswer
    /\ queue = {}
    /\ labels = <<>> => ~\E e \in Boardings(query.origin, query.after) : Continues(e)
    /\ Return("none", <<>>)

-----------------------------------------------------------------------------
Init ==
    /\ files \in Directories
    /\ stage = LoadOrder[1]
    /\ offsets = <<>> /\ walks = <<>>
    /\ query = NoAnswer /\ labels = <<>> /\ best = <<>> /\ queue = {}
    /\ answer = NoAnswer

LoadFiles ==
    /\ \E f \in Loaders : Load(f) \/ RefuseDirectory(f)
    /\ UNCHANGED <<offsets, walks, searchVars, answer>>

SearchStep ==
    \/ BoardAtOrigin
    \/ GiveUp
    \/ \E id \in queue : SkipStale(id) \/ Arrive(id) \/ Expand(id) \/ RefuseTransfer(id)

Ask(q) == RejectQuery(q) \/ AnswerTrivially(q) \/ FindDirect(q) \/ FindEarliest(q)

Next ==
    \/ LoadFiles
    \/ SearchStep
    \/ \E q \in Queries : Ask(q)

Spec == Init /\ [][Next]_vars /\ WF_vars(LoadFiles) /\ WF_vars(SearchStep)

-----------------------------------------------------------------------------
\* The reference: every way to ride from the origin to the destination, as a
\* sequence of rides <<boarded, alighted>>.  No part of a trip is ridden twice,
\* for on a schedule whose trips never leave a stop before they reach it nothing
\* is gained by that; the same trip may be ridden again, on another part of it.
Timely == \A e \in DOMAIN StopTimes : Arrival(e) <= Departure(e)

Rides(q) ==
    {r \in (DOMAIN StopTimes) \X (DOMAIN StopTimes) :
        /\ r[1] < r[2] /\ TripOf(r[1]) = TripOf(r[2])
        /\ TripOf(r[1]) \in ActiveTrips(q.date)
        /\ MayBoard(r[1]) /\ MayAlight(r[2])
        /\ \A g \in r[1] .. r[2] - 1 : Arrival(g + 1) >= Departure(g)}

\* The events that a ride comes to.
Passed(r) == r[1] + 1 .. r[2]

Extends(r, j) ==
    /\ TripOf(Last(j)[2]) # TripOf(r[1])
    /\ Connects(Last(j)[2], r[1])
    /\ Departure(r[1]) >= Arrival(Last(j)[2])
    /\ \A i \in DOMAIN j : Passed(j[i]) \cap Passed(r) = {}

Journeys(q) ==
    LET rides == Rides(q)
        Of[n \in 1 .. Len(StopTimes)] ==
            IF n = 1
            THEN {<<r>> : r \in {x \in rides : /\ Stop(x[1]) = q.origin
                                               /\ Departure(x[1]) >= q.after}}
            ELSE UNION {{Append(j, r) : r \in {x \in rides : Extends(x, j)}} :
                        j \in Of[n - 1]}
    IN  {j \in UNION {Of[n] : n \in 1 .. Len(StopTimes)} : Stop(Last(j)[2]) = q.destination}

Cost(j) == <<Arrival(Last(j)[2]), Len(j) - 1, -Departure(j[1][1])>>

AsRides(legs) ==
    [i \in DOMAIN legs |-> <<Event(legs[i].trip, legs[i].from),
                             Event(legs[i].trip, legs[i].to)>>]

\* find_earliest_journey has gone through the schedule for the last answer.
Searched ==
    /\ answer # NoAnswer
    /\ answer.kind \in {"none", "earliest"}
    /\ ~Trivial(answer.query)

\* find_earliest_journey: what it returns can be ridden, and nothing else
\* arrives earlier, or as early with fewer transfers, or as early with as many
\* and a later departure; and None means that there is no journey at all.
EarliestIsBest ==
    Searched /\ Timely =>
        LET journeys == Journeys(answer.query)
            found == AsRides(answer.result)
        IN  /\ answer.kind = "none" => journeys = {}
            /\ answer.kind = "earliest" =>
                /\ found \in journeys
                /\ \A j \in journeys : ~Less(Cost(j), Cost(found))

\* No trip comes to its next stop before it has left the last.
Forward ==
    \A e \in DOMAIN StopTimes :
        e > 1 /\ TripOf(e - 1) = TripOf(e) => Departure(e - 1) <= Arrival(e)

\* The two queries agree: no direct journey arrives before the earliest one,
\* there is none when nothing was found, and an earliest journey without a
\* transfer is on a trip that find_direct_journeys lists, with that arrival.
DirectAgreesWithEarliest ==
    Searched /\ Timely /\ Forward =>
        LET direct == DirectRides(answer.query)
            arrival == Arrival(Last(AsRides(answer.result))[2])
        IN  /\ answer.kind = "none" => direct = {}
            /\ answer.kind = "earliest" =>
                /\ \A r \in direct : Arrival(r[2]) >= arrival
                /\ Len(answer.result) = 1 =>
                    \E r \in direct : /\ TripOf(r[1]) = answer.result[1].trip
                                      /\ Arrival(r[2]) = arrival

\* What the constructor and the first query accept is whole, over all its files:
\* the offsets cut stop_times into the trips' own rows, whatever trips have none;
\* every trip has its route; a transfer is between known stops that have a platform
\* each; and a pathway is between known stops, neither of them a station nor
\* marked as having no access from the station (stop_access 1).
AcceptedScheduleIsWhole ==
    /\ offsets # <<>> => \A t \in Trips :
        {e \in DOMAIN StopTimes : StopTimes[e].trip = Trip(t).id}
            = offsets[t] + 1 .. offsets[t + 1]
    /\ stage = "ready" =>
        /\ \A t \in Trips : Trip(t).route \in Ids("routes")
        /\ \A r \in Rows("transfers") :
            /\ {r.from, r.to} \subseteq Ids("stops")
            /\ Platforms(r.from) # {} /\ Platforms(r.to) # {}
        /\ \A p \in Rows("pathways") : \A s \in {p.from, p.to} :
            /\ s \in Ids("stops")
            /\ LocationType(s) # 1
            /\ Row("stops", s).access # 1

\* The walks inside a station take the least time: no pathway leads to a stop
\* sooner, and each stop's time is that of a pathway from an earlier stop, which
\* with positive times only the shortest times satisfy.
WalksAreShortest ==
    stage = "ready" /\ answer = NoAnswer /\ query = NoAnswer =>
        \A from \in Ids("stops") :
            LET seconds == ShortestSeconds(from)
                Via(e) == seconds[e.from] + e.seconds
                usable == {e \in PathwayEdges : seconds[e.from] # Unreached}
            IN  /\ seconds[from] = 0
                /\ \A e \in usable : seconds[e.to] \in 0 .. Via(e)
                /\ \A p \in Ids("stops") \ {from} :
                    seconds[p] # Unreached => \E e \in usable : e.to = p /\ seconds[p] = Via(e)

\* Every query is answered, zero-time hops and circular transfers included.
QueriesAreAnswered == query # NoAnswer ~> query = NoAnswer
=============================================================================
