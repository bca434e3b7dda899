------------------------- MODULE CompatibilityGate -------------------------
(***************************************************************************)
(* The comparison of a GTFS-RT feed with the trips of a static feed        *)
(* (src/bvg_radar/gtfs_compatibility.py) and the decisions taken on it:    *)
(* the gate of the static updater (static_gtfs.py:                         *)
(* validate_candidate_compatibility) and the standalone checker's exit     *)
(* code.  Times are ticks of a clock with TicksPerDay ticks a day; ratios  *)
(* are compared as fractions.  Samples and texts of a report are left out. *)
(***************************************************************************)
EXTENDS Integers, FiniteSets, Sequences

CONSTANTS
    Blank,                \* an absent or empty identifier
    NoTime,               \* a feed header without a timestamp
    Unusable,             \* what a loader that raises returns
    MinimumTrips,         \* minimum_unique_scheduled_trip_ids
    MinimumMatch,         \* minimum_scheduled_match, as <<numerator, denominator>>
    MaxFeedAge,           \* max_feed_age_seconds
    MaxFutureSkew,        \* max_future_skew_seconds
    TicksPerDay,          \* length of a service day
    LastTime,             \* the last timestamp that datetime represents
    Now                   \* the time of the check

\* What cli_main and validate_candidate_compatibility accept as a policy.
ASSUME PolicyAssumption ==
    /\ MinimumTrips \in Nat \ {0}
    /\ MinimumMatch \in Nat \X (Nat \ {0})
    /\ MinimumMatch[1] <= MinimumMatch[2]
    /\ {MaxFeedAge, MaxFutureSkew} \subseteq Nat
    /\ TicksPerDay \in Nat \ {0}
    /\ {LastTime, Now} \subseteq Nat
    /\ NoTime \notin Nat

-----------------------------------------------------------------------------

\* load_static_trip_routes: the rows of trips.txt as a mapping, unless one has
\* no trip or two disagree about a trip's route.
TripRoutes(rows) ==
    LET named == {rows[i] : i \in DOMAIN rows}
    IN  IF \/ \E row \in named : row.trip = Blank
           \/ \E row, other \in named : row.trip = other.trip /\ row.route # other.route
        THEN Unusable
        ELSE [trip \in {row.trip : row \in named} |->
                (CHOOSE row \in named : row.trip = trip).route]

NoCounts ==
    [updates |-> 0, scheduled |-> 0, trips |-> {}, matched |-> 0, unmatched |-> 0,
     canceled |-> 0, matchedCanceled |-> 0, unmatchedCanceled |-> 0, exempt |-> 0,
     routeMatched |-> {}, routeMissing |-> {}, routeMismatched |-> {}]

\* Mutant: a later match forgets an earlier mismatch.
CompareRoute_LastWins(counts, entity, static) ==
    LET trip == entity.trip
        cleared == [counts EXCEPT !.routeMatched = @ \ {trip}, !.routeMissing = @ \ {trip},
                                  !.routeMismatched = @ \ {trip}]
    IN  IF entity.route = Blank
        THEN [cleared EXCEPT !.routeMissing = @ \cup {trip}]
        ELSE IF entity.route = static[trip]
        THEN [cleared EXCEPT !.routeMatched = @ \cup {trip}]
        ELSE [cleared EXCEPT !.routeMismatched = @ \cup {trip}]

\* compare_route_id: a mismatch is never forgotten, a match outweighs an absent
\* route.
CompareRoute(counts, entity, static) ==
    LET trip == entity.trip
    IN  IF entity.route = Blank
        THEN IF trip \in counts.routeMismatched \cup counts.routeMatched
             THEN counts
             ELSE [counts EXCEPT !.routeMissing = @ \cup {trip}]
        ELSE IF entity.route # static[trip]
        THEN [counts EXCEPT !.routeMatched = @ \ {trip}, !.routeMissing = @ \ {trip},
                            !.routeMismatched = @ \cup {trip}]
        ELSE IF trip \in counts.routeMismatched
        THEN counts
        ELSE [counts EXCEPT !.routeMatched = @ \cup {trip}, !.routeMissing = @ \ {trip}]

CountScheduled(counts, entity, static) ==
    LET trip == entity.trip
        seen == [counts EXCEPT !.scheduled = @ + 1]
        new == trip \notin counts.trips
        known == [seen EXCEPT !.trips = @ \cup {trip}]
    IN  IF trip = Blank
        THEN seen
        ELSE IF trip \in DOMAIN static
        THEN CompareRoute(IF new THEN [known EXCEPT !.matched = @ + 1] ELSE known,
                          entity, static)
        ELSE IF new THEN [known EXCEPT !.unmatched = @ + 1] ELSE known

CountCanceled(counts, entity, static) ==
    LET seen == [counts EXCEPT !.canceled = @ + 1]
    IN  IF entity.trip # Blank /\ entity.trip \in DOMAIN static
        THEN CompareRoute([seen EXCEPT !.matchedCanceled = @ + 1], entity, static)
        ELSE [seen EXCEPT !.unmatchedCanceled = @ + 1]

\* analyze_gtfs_compatibility: the loop over the entities of the feed.
CountEntity(counts, entity, static) ==
    LET seen == [counts EXCEPT !.updates = @ + 1]
    IN  CASE ~entity.update -> counts
          [] entity.update /\ entity.relation = "SCHEDULED" ->
                CountScheduled(seen, entity, static)
          [] entity.update /\ entity.relation = "CANCELED" ->
                CountCanceled(seen, entity, static)
          [] OTHER -> [seen EXCEPT !.exempt = @ + 1]

Analyze(feed, static) ==
    LET counts[n \in 0 .. Len(feed.entities)] ==
            IF n = 0 THEN NoCounts
            ELSE CountEntity(counts[n - 1], feed.entities[n], static)
    IN  counts[Len(feed.entities)]

\* The ratio over unique trips is at least the minimum; it is 0 without trips.
MatchesEnough(report) ==
    LET unique == Cardinality(report.trips)
    IN  IF unique = 0
        THEN MinimumMatch[1] = 0
        ELSE report.matched * MinimumMatch[2] >= MinimumMatch[1] * unique

ServiceDay(time) == time \div TicksPerDay

\* The reasons for which the gate finds a representable feed incompatible.
Refusals(feed, report, calendar) ==
    {reason \in {"few_trips", "no_timestamp", "stale", "future", "outside_calendar",
                 "ratio", "routes"} :
        CASE reason = "few_trips" -> Cardinality(report.trips) < MinimumTrips
          [] reason = "no_timestamp" -> feed.timestamp = NoTime
          [] reason = "stale" ->
                feed.timestamp # NoTime /\ Now - feed.timestamp > MaxFeedAge
          [] reason = "future" ->
                feed.timestamp # NoTime /\ Now - feed.timestamp < -MaxFutureSkew
          [] reason = "outside_calendar" ->
                /\ feed.timestamp # NoTime
                /\ ServiceDay(feed.timestamp) \notin calendar[1] .. calendar[2]
          [] reason = "ratio" -> ~MatchesEnough(report)
          [] reason = "routes" -> report.routeMismatched # {}}

\* Mutant: routes are reported, not enforced.
Judge_AllowsMismatch(feed, rows, calendar) ==
    LET static == TripRoutes(rows)
    IN  IF static = Unusable
        THEN "error"
        ELSE IF feed.timestamp # NoTime /\ feed.timestamp > LastTime
        THEN "escape"
        ELSE IF Refusals(feed, Analyze(feed, static), calendar) \ {"routes"} = {}
        THEN "compatible" ELSE "incompatible"

\* validate_candidate_compatibility on the trips.txt and calendar.txt of a
\* candidate: "compatible", "incompatible", an error of the loader, or an
\* exception nobody expects when the timestamp is no representable time.
Judge(feed, rows, calendar) ==
    LET static == TripRoutes(rows)
    IN  IF static = Unusable
        THEN "error"
        ELSE IF feed.timestamp # NoTime /\ feed.timestamp > LastTime
        THEN "escape"
        ELSE IF Refusals(feed, Analyze(feed, static), calendar) = {}
        THEN "compatible" ELSE "incompatible"

\* gtfs_compatibility.cli_main over check_live_compatibility, once the feed was
\* fetched: it looks at the ratio only.
CheckerExit(feed, rows) ==
    LET static == TripRoutes(rows)
    IN  IF static = Unusable
        THEN 2
        ELSE IF MatchesEnough(Analyze(feed, static)) THEN 0 ELSE 1

-----------------------------------------------------------------------------
(* What the report means, without its loop                                 *)

Updates(feed, relations) ==
    {feed.entities[i] : i \in {j \in DOMAIN feed.entities :
        feed.entities[j].update /\ feed.entities[j].relation \in relations}}

ScheduledTrips(feed) == {e.trip : e \in Updates(feed, {"SCHEDULED"})} \ {Blank}

\* The routes a feed names for a trip that the static feed has.
RoutesOf(feed, trip) ==
    {e.route : e \in {u \in Updates(feed, {"SCHEDULED", "CANCELED"}) : u.trip = trip}}

\* The report says what the feed contains, in whatever order it contains it:
\* unique scheduled trips are split into matched and unmatched ones, and every
\* compared trip is a mismatch if any update names another route, else a match
\* if any names its own, else without a route.
ReportIsExact(feed, static) ==
    LET report == Analyze(feed, static)
        compared == {t \in DOMAIN static : RoutesOf(feed, t) # {}}
    IN  /\ report.trips = ScheduledTrips(feed)
        /\ report.matched = Cardinality(ScheduledTrips(feed) \cap DOMAIN static)
        /\ report.unmatched = Cardinality(ScheduledTrips(feed) \ DOMAIN static)
        /\ report.routeMismatched =
              {t \in compared : RoutesOf(feed, t) \ {Blank, static[t]} # {}}
        /\ report.routeMatched =
              {t \in compared : RoutesOf(feed, t) \ {Blank} = {static[t]}}
        /\ report.routeMissing = {t \in compared : RoutesOf(feed, t) = {Blank}}

\* What the documentation promises of an installed snapshot: enough scheduled
\* trips, enough of them known, none with another route, by a recent feed of a
\* day that the calendar covers.
Representative(feed, static, calendar) ==
    /\ Cardinality(ScheduledTrips(feed)) >= MinimumTrips
    /\ MinimumMatch[2] * Cardinality(ScheduledTrips(feed) \cap DOMAIN static)
          >= MinimumMatch[1] * Cardinality(ScheduledTrips(feed))
    /\ \A trip \in DOMAIN static : RoutesOf(feed, trip) \subseteq {Blank, static[trip]}
    /\ feed.timestamp \in Now - MaxFeedAge .. Now + MaxFutureSkew
    /\ ServiceDay(feed.timestamp) \in calendar[1] .. calendar[2]
=============================================================================
