--------------------------- MODULE ScheduleFiles ---------------------------
(***************************************************************************)
(* The static schedule that planning/local_gtfs.py reads: eight files,     *)
(* loaded by the planner's constructor in a fixed order, and stop_times,   *)
(* loaded by the first query.  A file is the sequence of its rows; a cell  *)
(* is a value, Blank, or Garbled when it does not parse; a file that       *)
(* cannot be opened, decoded or lacks a required column is Unreadable.     *)
(* The optional files transfers and pathways are empty when absent.        *)
(*                                                                         *)
(* Each loader is one step that accepts its file or refuses the whole      *)
(* directory (LocalGtfsDataError).  Later modules use the tables through   *)
(* the operators defined here.                                             *)
(***************************************************************************)
EXTENDS Integers, FiniteSets, SequencesExt

CONSTANTS Blank, Garbled, Unreadable

ASSUME CellAssumption == Cardinality({Blank, Garbled, Unreadable}) = 3

VARIABLES
    files,  \* the directory
    stage   \* the next file to load, "ready", or "refused"

Rows(f) == ToSet(files[f])
Ids(f) == {row.id : row \in Rows(f)}
Row(f, id) == CHOOSE row \in Rows(f) : row.id = id

IsCount(cell) == cell \in Nat
IsCell(cell, Allowed) == cell \in Allowed \cup {Blank}
OrZero(cell) == IF cell = Blank THEN 0 ELSE cell

Distinct(f, key) ==
    \A i, j \in DOMAIN files[f] :
        (\A column \in key : files[f][i][column] = files[f][j][column]) => i = j

Identified(f) ==
    /\ Blank \notin Ids(f)
    /\ Distinct(f, {"id"})

-----------------------------------------------------------------------------
(* Stops: a platform (0), a station (1), or a node of a station (2 to 4).  *)

LocationType(id) == OrZero(Row("stops", id).type)

Platforms(id) ==
    CASE LocationType(id) = 0 -> {id}
      [] LocationType(id) = 1 ->
            {p \in Ids("stops") : /\ Row("stops", p).parent = id
                                  /\ LocationType(p) = 0}
      [] OTHER -> {}

StopsLoad ==
    /\ Identified("stops")
    /\ \A s \in Rows("stops") :
        /\ s.type # Garbled
        /\ IsCell(s.access, {0, 1})

RoutesLoad == Identified("routes")

-----------------------------------------------------------------------------
(* The calendar: weekly rules and single dates, in days from a Monday.     *)

CalendarLoads ==
    /\ files["calendar"] # <<>>
    /\ Identified("calendar")
    /\ \A c \in Rows("calendar") :
        /\ Garbled \notin {c.days, c.from, c.to}
        /\ c.from <= c.to

Added == 1
Removed == 2

ExceptionsLoad ==
    /\ \A e \in Rows("calendar_dates") :
        /\ e.service # Blank
        /\ e.date # Garbled
        /\ e.kind \in {Added, Removed}
    /\ Distinct("calendar_dates", {"service", "date"})

Excepted(date, kind) ==
    {e.service : e \in {x \in Rows("calendar_dates") :
                            x.date = date /\ x.kind = kind}}

ActiveServices(date) ==
    LET scheduled == {c.id : c \in {r \in Rows("calendar") :
                          date \in r.from .. r.to /\ date % 7 \in r.days}}
    IN  (scheduled \cup Excepted(date, Added)) \ Excepted(date, Removed)

-----------------------------------------------------------------------------
(* Trips.  A trip's index is its row in trips.txt.                         *)

TripsLoad ==
    /\ Identified("trips")
    /\ \A t \in Rows("trips") :
        /\ t.route \in Ids("routes") \ {Blank}
        /\ t.service # Blank
        /\ IsCell(t.direction, {0, 1})

TripServicesKnown ==
    \A t \in Rows("trips") :
        t.service \in Ids("calendar") \cup {e.service : e \in Rows("calendar_dates")}

Trips == DOMAIN files["trips"]
Trip(t) == files["trips"][t]
TripIndex(id) == CHOOSE t \in Trips : Trip(t).id = id
ActiveTrips(date) == {t \in Trips : Trip(t).service \in ActiveServices(date)}

-----------------------------------------------------------------------------
(* Transfer rules, selected by the trips or the routes they connect.       *)

Kind(r) == OrZero(r.kind)
Selects(trip, route, id) ==
    /\ trip # Blank => trip = id
    /\ route # Blank => route = Row("trips", id).route

Specificity(r) ==
    LET By(trip, route) ==
            CASE trip # Blank -> 2 [] route # Blank -> 1 [] OTHER -> 0
        ends == {By(r.from_trip, r.from_route), By(r.to_trip, r.to_route)}
    IN  CASE ends = {2} -> 1 [] ends = {1, 2} -> 2 [] ends = {0, 2} -> 3
          [] ends = {1} -> 4 [] ends = {0, 1} -> 5 [] ends = {0} -> 6

SelectorLoads(trip, route) ==
    /\ IsCell(route, Ids("routes"))
    /\ IsCell(trip, Ids("trips"))
    /\ Blank \notin {trip, route} => Row("trips", trip).route = route

TransfersLoad ==
    /\ \A r \in Rows("transfers") :
        /\ {r.from, r.to} \subseteq Ids("stops")
        /\ IsCell(r.kind, 0 .. 5)
        /\ r.min = Blank \/ IsCount(r.min)
        /\ Kind(r) = 2 => r.min # Blank
        /\ SelectorLoads(r.from_trip, r.from_route)
        /\ SelectorLoads(r.to_trip, r.to_route)
        /\ Kind(r) \in {4, 5} => Blank \notin {r.from_trip, r.to_trip}
        /\ Platforms(r.from) # {} /\ Platforms(r.to) # {}
    /\ Distinct("transfers", {"from", "to", "from_trip", "to_trip", "from_route",
                                "to_route"})

RulesBetween(from, to) ==
    {r \in Rows("transfers") : from \in Platforms(r.from) /\ to \in Platforms(r.to)}

-----------------------------------------------------------------------------
(* Pathways inside stations, and the shortest ways between platforms.      *)

PathwaysLoad ==
    /\ Identified("pathways")
    /\ \A p \in Rows("pathways") :
        /\ {p.from, p.to} \subseteq Ids("stops")
        /\ p.mode \in 1 .. 7
        /\ p.both \in {0, 1}
        /\ ~(p.mode = 7 /\ p.both = 1)
        /\ \A s \in {p.from, p.to} :
            /\ LocationType(s) \in {0, 2, 3, 4}
            /\ Row("stops", s).access # 1
        /\ p.seconds = Blank \/ (IsCount(p.seconds) /\ p.seconds > 0)

PathwayEdges ==
    LET timed == {p \in Rows("pathways") : p.seconds # Blank}
    IN  {[from |-> p.from, to |-> p.to, seconds |-> p.seconds] : p \in timed}
        \cup {[from |-> p.to, to |-> p.from, seconds |-> p.seconds] :
                p \in {q \in timed : q.both = 1}}

Unreached == -1

\* Mutant: a stop keeps the first way that reached it.
ShortestSeconds_FirstWay(from) ==
    LET Search[s \in [open : SUBSET Ids("stops"), seconds : [Ids("stops") -> Int]]] ==
            IF s.open = {} THEN s.seconds
            ELSE LET here == CHOOSE p \in s.open : TRUE
                     next == {e \in PathwayEdges : /\ e.from = here
                                                    /\ s.seconds[e.to] = -1}
                     Via(p) == CHOOSE e \in next : e.to = p
                 IN  Search[[open |-> (s.open \ {here}) \cup {e.to : e \in next},
                             seconds |-> [p \in Ids("stops") |->
                                 IF \E e \in next : e.to = p
                                 THEN s.seconds[here] + Via(p).seconds
                                 ELSE s.seconds[p]]]]
    IN  Search[[open |-> {from},
                seconds |-> [p \in Ids("stops") |-> IF p = from THEN 0 ELSE -1]]]

\* One turn of Dijkstra's search: the nearest open stop is done with.  The open
\* stops are the queue without its stale entries.
Settle(s) ==
    LET here == CHOOSE p \in s.open : \A q \in s.open : s.seconds[p] <= s.seconds[q]
        Via(e) == s.seconds[here] + e.seconds
        better == {e \in PathwayEdges :
                     /\ e.from = here
                     /\ s.seconds[e.to] = Unreached \/ Via(e) < s.seconds[e.to]}
        reached == {e.to : e \in better}
        Least(p) == Min({Via(e) : e \in {x \in better : x.to = p}})
    IN  [open |-> (s.open \ {here}) \cup reached,
         seconds |-> [p \in Ids("stops") |->
                        IF p \in reached THEN Least(p) ELSE s.seconds[p]]]

\* No stop is opened again: there are no more turns than stops.
ShortestSeconds(from) ==
    LET Search[n \in 0 .. Cardinality(Ids("stops"))] ==
            IF n = 0
            THEN [open |-> {from}, seconds |-> [p \in Ids("stops") |->
                                                  IF p = from THEN 0 ELSE Unreached]]
            ELSE LET s == Search[n - 1] IN IF s.open = {} THEN s ELSE Settle(s)
    IN  Search[Cardinality(Ids("stops"))].seconds

\* The platforms that can be walked to, with the seconds it takes.
PathwaysFrom(from) ==
    LET shortest == ShortestSeconds(from)
    IN  [p \in {q \in Ids("stops") \ {from} :
                    /\ shortest[q] # Unreached
                    /\ LocationType(q) = 0
                    /\ Row("stops", q).access # 1} |-> shortest[p]]

-----------------------------------------------------------------------------
(* stop_times: rows grouped in the order of trips.txt.                     *)

StopTimes == files["stop_times"]

StopTimesLoad ==
    /\ \A i \in DOMAIN StopTimes : LET e == StopTimes[i] IN
        /\ e.trip \in Ids("trips")
        /\ e.stop \in Ids("stops")
        /\ IsCount(e.sequence)
        /\ IsCount(e.arrival) /\ IsCount(e.departure)
        /\ IsCell(e.pickup, 0 .. 3) /\ IsCell(e.drop_off, 0 .. 3)
    /\ \A i \in DOMAIN StopTimes : i > 1 =>
        LET e == StopTimes[i - 1]  f == StopTimes[i] IN
        /\ TripIndex(e.trip) <= TripIndex(f.trip)
        /\ e.trip = f.trip => e.sequence < f.sequence

\* Mutant: a trip without rows begins where the file ends.
TripOffsets_SkipsGaps ==
    [t \in 1 .. Len(files["trips"]) + 1 |->
        LET own == {i \in DOMAIN StopTimes : TripIndex(StopTimes[i].trip) = t}
        IN  IF own = {} THEN Len(StopTimes) ELSE Min(own) - 1]

\* trip_offsets: where each trip's rows begin, and one entry past the last.
TripOffsets ==
    [t \in 1 .. Len(files["trips"]) + 1 |->
        LET later == {i \in DOMAIN StopTimes : TripIndex(StopTimes[i].trip) >= t}
        IN  IF later = {} THEN Len(StopTimes) ELSE Min(later) - 1]

-----------------------------------------------------------------------------
(* __init__ loads the files in this order.                                 *)

LoadOrder == <<"routes", "stops", "calendar", "calendar_dates", "trips",
               "trip_services", "transfers", "pathways", "ready">>

Loaders == {LoadOrder[i] : i \in 1 .. Len(LoadOrder) - 1}

Loads(f) ==
    \/ f = "trip_services" /\ TripServicesKnown
    \/ /\ f # "trip_services"
       /\ files[f] # Unreadable
       /\ CASE f = "routes"         -> RoutesLoad
            [] f = "stops"          -> StopsLoad
            [] f = "calendar"       -> CalendarLoads
            [] f = "calendar_dates" -> ExceptionsLoad
            [] f = "trips"          -> TripsLoad
            [] f = "transfers"      -> TransfersLoad
            [] f = "pathways"       -> PathwaysLoad

Load(f) ==
    /\ stage = f
    /\ Loads(f)
    /\ \E i \in DOMAIN LoadOrder :
        /\ LoadOrder[i] = f
        /\ stage' = LoadOrder[i + 1]
    /\ UNCHANGED files

RefuseDirectory(f) ==
    /\ stage = f
    /\ ~Loads(f)
    /\ stage' = "refused"
    /\ UNCHANGED files
=============================================================================
