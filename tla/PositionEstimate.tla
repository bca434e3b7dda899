--------------------------- MODULE PositionEstimate ---------------------------
(***************************************************************************)
(* The interpolation functions of the database: the batch function of the  *)
(* migration 20260909054609_optimize_batch_dynamic_updates.sql, and the    *)
(* one for a single trip of 20260902223000_trip_update_timing_evidence.sql *)
(* that it replaced.                                                       *)
(*                                                                         *)
(* A row says between which stops a trip is, how far, and from which       *)
(* evidence.  The point on the shape follows from the fractions.           *)
(***************************************************************************)
EXTENDS TripUpdates

CONSTANTS
    StopTimes, \* trip -> its stop times, by stop_sequence
    Trips,     \* trip -> [route, shape, geometry, type, name]
    SNames,    \* the names of routes that start with an S
    UtcOffset  \* of Europe/Berlin

IsNamed(text) == Strip(text) \notin {Absent, Blank}
NearDay == MaxStopTimeOffset - MaxInteger .. MaxInteger - MaxStopTimeOffset

\* A stop time is [sequence, stop, arrival, departure, fraction].  The static feed
\* names what it has, and its times are so near their day (the checks of
\* gtfs.stop_times: less than 1000 hours) that no delay overflows.
ASSUME ScheduleAssumption ==
    /\ DOMAIN StopTimes \subseteq DOMAIN Trips
    /\ UtcOffset \in Int
    /\ \A trip \in DOMAIN StopTimes :
        /\ IsNamed(trip) /\ IsNamed(Trips[trip].route)
        /\ Trips[trip].geometry => IsNamed(Trips[trip].shape)
        /\ StopTimes[trip] \in Seq(ToSet(StopTimes[trip]))
        /\ \A st \in ToSet(StopTimes[trip]) :
            /\ IsNamed(st.stop) /\ {st.arrival, st.departure} \subseteq Int
            /\ {st.arrival - UtcOffset, st.departure - UtcOffset} \subseteq NearDay

NoRow == [trip |-> Absent]
NoUpdate == [sequence |-> Absent, stop |-> Absent, arrival |-> NoTiming,
             departure |-> NoTiming, relationship |-> "SCHEDULED"]

-----------------------------------------------------------------------------
(* Which update is about a stop                                            *)

AboutSequence(stops, st) ==
    {i \in DOMAIN stops : stops[i].sequence = st.sequence}
AboutStop(stops, st) ==
    {i \in DOMAIN stops : /\ stops[i].sequence = Absent
                          /\ Text(stops[i].stop) = st.stop}

\* Mutant: an update with a stop_sequence applies to every visit of its stop.
AnyVisit(stops, st) ==
    LET about == AboutSequence(stops, st) \cup
                 {i \in DOMAIN stops : Text(stops[i].stop) = st.stop}
    IN  IF about = {} THEN NoUpdate ELSE stops[Min(about)]

\* The batch function: the first one of its stop_sequence, or else the first one
\* without a stop_sequence that names the stop.
Matched(stops, st) ==
    CASE AboutSequence(stops, st) # {} -> stops[Min(AboutSequence(stops, st))]
      [] AboutSequence(stops, st) = {} /\ AboutStop(stops, st) # {} ->
            stops[Min(AboutStop(stops, st))]
      [] OTHER -> NoUpdate

\* The function for one trip: LIMIT 1 takes any of the best ones.
MatchedByEither(stops, st) ==
    CASE AboutSequence(stops, st) # {} -> {stops[i] : i \in AboutSequence(stops, st)}
      [] AboutSequence(stops, st) = {} /\ AboutStop(stops, st) # {} ->
            {stops[i] : i \in AboutStop(stops, st)}
      [] OTHER -> {NoUpdate}

-----------------------------------------------------------------------------
(* When a trip is where                                                    *)

Estimated(event, scheduled) ==
    IF Present(event.time) THEN event.time
    ELSE scheduled + (IF Present(event.delay) THEN event.delay ELSE 0)

TimingSource(event) ==
    CASE Present(event.time) -> "absolute_realtime_time"
      [] ~Present(event.time) /\ Present(event.delay) -> "realtime_delay"
      [] OTHER -> "schedule_only"

LocalMidnight(date) == DayStart(date) - UtcOffset

\* The row of a trip whose i-th stop time has the update matched[i].
RowOf(trip, date, observed, matched) ==
    LET sts == StopTimes[trip]
        Departure(i) == Estimated(matched[i].departure, LocalMidnight(date) + sts[i].departure)
        Scheduled(i) == LocalMidnight(date) + sts[i].arrival
        Arrival(i) == Estimated(matched[i].arrival, Scheduled(i))
        active == {i \in 1 .. (Len(sts) - 1) :
            /\ Departure(i) <= observed /\ observed <= Arrival(i + 1)
            /\ Departure(i) < Arrival(i + 1)
            /\ Present(sts[i].fraction) /\ Present(sts[i + 1].fraction)
            /\ sts[i].fraction < sts[i + 1].fraction}
        i == Max(active)
        source == TimingSource(matched[i + 1].arrival)
    IN  IF active = {} \/ ~Trips[trip].geometry THEN NoRow
        ELSE [trip |-> trip, previous |-> sts[i].stop, next |-> sts[i + 1].stop,
              source |-> source, arrival |-> Arrival(i + 1),
              delay |-> IF source = "schedule_only" THEN Absent
                        ELSE Arrival(i + 1) - Scheduled(i + 1),
              progress |-> <<observed - Departure(i), Arrival(i + 1) - Departure(i)>>,
              fractions |-> <<sts[i].fraction, sts[i + 1].fraction>>]

Payload(update) == [i \in DOMAIN update.stops |-> EstimatorStop(update.stops[i])]

\* gtfs.estimate_trip_positions_batch, for one element of the batch.
BatchRow(update, observed) ==
    IF update.trip \notin DOMAIN StopTimes THEN NoRow
    ELSE RowOf(update.trip, update.date, observed,
               [i \in DOMAIN StopTimes[update.trip] |->
                    Matched(Payload(update), StopTimes[update.trip][i])])

\* gtfs.estimate_trip_position: the rows it may return.
SingleRows(update, observed) ==
    IF update.trip \notin DOMAIN StopTimes THEN {NoRow}
    ELSE LET sts == StopTimes[update.trip]
             Candidates(i) == MatchedByEither(Payload(update), sts[i])
             matches == {m \in [DOMAIN sts -> UNION {Candidates(i) : i \in DOMAIN sts}] :
                            \A i \in DOMAIN sts : m[i] \in Candidates(i)}
         IN  {RowOf(update.trip, update.date, observed, m) : m \in matches}

-----------------------------------------------------------------------------
(* classify_berlin_vehicle                                                 *)

CategoryTypes ==
    [u_bahn |-> {1, 400}, s_bahn |-> {2, 109}, regional |-> {100}, bus |-> {3, 700},
     tram |-> {0, 900}]

Category(type, name) ==
    LET fitting == {c \in DOMAIN CategoryTypes :
            type \in CategoryTypes[c] /\ (c = "s_bahn" => name \in SNames)}
    IN  IF fitting = {} THEN Absent ELSE CHOOSE c \in fitting : TRUE
=============================================================================
