----------------------------- MODULE TripUpdates -----------------------------
(***************************************************************************)
(* What a decoded GTFS-RT feed becomes (src/bvg_radar/realtime:            *)
(* normalization.py, models.py): which feeds are refused, which entities,  *)
(* stop updates and values are dropped, and the worker's own check of a    *)
(* snapshot.                                                               *)
(*                                                                         *)
(* A record of the feed has every field; Absent says that HasField is      *)
(* false.  "unknown" stands for enum values that the bindings do not know. *)
(***************************************************************************)
EXTENDS RouteObservations

CONSTANTS
    MinTime, MaxTime,  \* the range of datetime
    MaxInteger,        \* MAX_STOP_SEQUENCE, the last INTEGER of PostgreSQL
    MaxStopTimeOffset, \* MAX_ABSOLUTE_STOP_TIME_OFFSET_SECONDS
    DayLength,         \* seconds of a day
    Garbled            \* a start_date that is no date

ASSUME TimeAssumption ==
    /\ {MinTime, MaxTime} \subseteq Int /\ DayLength \in Nat \ {0}
    /\ {MaxInteger, MaxStopTimeOffset} \subseteq Nat

Int32 == -MaxInteger - 1 .. MaxInteger

Present(value) == value # Absent
Text(value) == IF value = Blank THEN Absent ELSE value

\* The elements of a sequence at the given indices, in their order.
Nth(indices, k) ==
    CHOOSE i \in indices : Cardinality({j \in indices : j < i}) = k - 1
Picked(list, indices) == [k \in 1 .. Cardinality(indices) |-> list[Nth(indices, k)]]

-----------------------------------------------------------------------------
(* Relationships                                                           *)

TripRelationships ==
    {"SCHEDULED", "ADDED", "UNSCHEDULED", "CANCELED", "REPLACEMENT", "DUPLICATED"}
StopRelationships == {"SCHEDULED", "SKIPPED", "NO_DATA", "UNSCHEDULED"}

Relationship(descriptor) ==
    IF descriptor.unknown # <<>>
    THEN CASE Last(descriptor.unknown) = 7 -> "DELETED"
           [] Last(descriptor.unknown) = 8 -> "NEW"
           [] OTHER -> "UNKNOWN"
    ELSE IF descriptor.relationship \in TripRelationships
         THEN descriptor.relationship ELSE "UNKNOWN"

StopRelationship(stop) ==
    IF stop.unknown # <<>> \/ stop.relationship \notin StopRelationships
    THEN "UNKNOWN" ELSE stop.relationship

-----------------------------------------------------------------------------
(* Values                                                                  *)

Representable(time) == Present(time) => time \in MinTime .. MaxTime

DayStart(date) == date * DayLength
Distance(a, b) == IF a >= b THEN a - b ELSE b - a
IsSafe(time, date) ==
    Present(date) => Distance(time, DayStart(date)) <= MaxStopTimeOffset

Date(descriptor) == IF descriptor.date = Garbled THEN Absent ELSE descriptor.date
Sequence(stop) ==
    IF stop.sequence \in 0 .. MaxInteger THEN stop.sequence ELSE Absent
IsIdentified(stop) == Present(Sequence(stop)) \/ Present(stop.stop)

\* Mutant: a time that is too far from the service day is kept.
AnyTime(event, date) == event.time

\* _optional_stop_timestamp of an arrival or a departure, both always there: an
\* absent event is one without time and delay.
StopTime(event, date) ==
    IF Present(event.time) /\ ~IsSafe(event.time, date) THEN Absent ELSE event.time

NormalStop(stop, date) ==
    [sequence |-> Sequence(stop), stop |-> stop.stop,
     arrival |-> [time |-> StopTime(stop.arrival, date), delay |-> stop.arrival.delay],
     departure |-> [time |-> StopTime(stop.departure, date), delay |-> stop.departure.delay],
     relationship |-> StopRelationship(stop)]

-----------------------------------------------------------------------------
(* Entities and feeds                                                      *)

IsDeleted(entity) == entity.deleted = TRUE
IsComplete(descriptor) ==
    /\ Present(Text(descriptor.trip)) /\ Present(Text(descriptor.route))
    /\ Present(Date(descriptor))
IsKept(entity) ==
    /\ ~IsDeleted(entity) /\ Present(entity.update) /\ Present(entity.id)
    /\ Relationship(entity.update) = "SCHEDULED" => IsComplete(entity.update)

StopsOf(update) ==
    Picked(update.stops, {i \in DOMAIN update.stops : IsIdentified(update.stops[i])})

NormalUpdate(entity) ==
    LET update == entity.update
        Normal(stop) == NormalStop(stop, Date(update))
    IN  [entity |-> entity.id, trip |-> Text(update.trip), route |-> Text(update.route),
         date |-> Date(update), timestamp |-> update.timestamp,
         relationship |-> Relationship(update),
         stops |-> [i \in DOMAIN StopsOf(update) |-> Normal(StopsOf(update)[i])]]

KeptEntities(feed) ==
    Picked(feed.entities, {i \in DOMAIN feed.entities : IsKept(feed.entities[i])})

\* snapshot_from_feed raises.
FeedRefused(feed) ==
    \/ feed.incrementality # "FULL_DATASET" \/ feed.unknown # <<>>
    \/ ~Representable(feed.timestamp)
    \/ \E entity \in ToSet(KeptEntities(feed)) :
          \/ ~Representable(entity.update.timestamp)
          \/ \E stop \in ToSet(StopsOf(entity.update)) :
                ~Representable(stop.arrival.time) \/ ~Representable(stop.departure.time)

Snapshot(feed) ==
    [timestamp |-> feed.timestamp,
     updates |-> [i \in DOMAIN KeptEntities(feed) |-> NormalUpdate(KeptEntities(feed)[i])],
     deleted |-> {e.id : e \in {x \in ToSet(feed.entities) : Present(x.id) /\ IsDeleted(x)}}]

\* validate_snapshot_timestamps.
SnapshotIsSound(snapshot) ==
    /\ Representable(snapshot.timestamp)
    /\ \A update \in ToSet(snapshot.updates) :
        /\ Representable(update.timestamp)
        /\ \A stop \in ToSet(update.stops) :
            /\ Present(stop.sequence) => stop.sequence \in 0 .. MaxInteger
            /\ \A time \in {stop.arrival.time, stop.departure.time} :
                Present(time) => Representable(time) /\ IsSafe(time, update.date)

IsMatchable(update) ==
    /\ update.relationship = "SCHEDULED"
    /\ Present(update.trip) /\ Present(update.route) /\ Present(update.date)

\* to_estimator_payload.
NoTiming == [time |-> Absent, delay |-> Absent]
EstimatorStop(stop) ==
    IF stop.relationship \in {"SKIPPED", "NO_DATA"}
    THEN [stop EXCEPT !.arrival = NoTiming, !.departure = NoTiming] ELSE stop
=============================================================================
