------------------------------- MODULE ReadApi -------------------------------
(***************************************************************************)
(* The read API's path endpoint and its cache (src/bvg_radar/api/cache.py, *)
(* routes.py: get_route_path; repository.py: ROUTE_PATH_SQL), beside the   *)
(* analytics functions of the same database.                               *)
(*                                                                         *)
(* A request waits for the database only; the event loop runs what is due  *)
(* before the clock moves on.  The answer of the query is the version of   *)
(* the route in the imported schedule.                                     *)
(***************************************************************************)
EXTENDS RouteAnalytics

CONSTANTS
    Requests,       \* GET /api/routes/{route_id}/path
    RouteIds,
    NoRoute,        \* the route is not in the schedule
    RequestScenarios, \* how many requests come, and how many imports
    TtlSeconds, MaxEntries, \* bounds of the cache: 60 and 64
    QueryTimeout,   \* API_QUERY_TIMEOUT_SECONDS
    MaxClock        \* bound on the server's clock

ASSUME ReadApiAssumption ==
    /\ TtlSeconds \in Nat \ {0} /\ MaxEntries \in Nat \ {0}
    /\ QueryTimeout \in Nat /\ MaxClock \in Nat
    /\ NoRoute \notin Nat

VARIABLES
    clock,     \* monotonic()
    schedule,  \* the version of each route that the last import left, or NoRoute
    history,   \* when each version came in, and when it was replaced
    hasPool,   \* app.state.database_pool is set
    cache,     \* the items, least recently used first
    request,   \* each request
    arrivals   \* requests and imports to come

apiVars == <<clock, schedule, history, hasPool, cache, request, arrivals>>
vars == <<analyticsVars, apiVars>>

Waiting == [pc |-> "waiting", route |-> NoRoute, asked |-> 0, row |-> NoRoute,
            answer |-> NoRoute, at |-> 0]

ApiInit ==
    /\ clock = 0
    /\ schedule = [r \in RouteIds |-> 0]
    /\ history = [r \in RouteIds |-> <<[from |-> 0, version |-> 0]>>]
    /\ hasPool \in BOOLEAN
    /\ cache = <<>>
    /\ request = [q \in Requests |-> Waiting]
    /\ arrivals \in RequestScenarios

Init == AnalyticsInit /\ ApiInit
-----------------------------------------------------------------------------
(* RoutePathCache                                                          *)

IsCached(r) == \E i \in DOMAIN cache : cache[i].key = r
Slot(r) == CHOOSE i \in DOMAIN cache : cache[i].key = r
Without(r) == IF IsCached(r) THEN RemoveAt(cache, Slot(r)) ELSE cache

Expired(item) == item.expires <= clock
Hit(r) == IsCached(r) /\ ~Expired(cache[Slot(r)])
ValueOf(r) == cache[Slot(r)].value

\* Mutant: a hit renews the entry.
SlidingGet(r) ==
    cache' = IF Hit(r)
             THEN Append(Without(r), [cache[Slot(r)] EXCEPT !.expires = clock + TtlSeconds])
             ELSE Without(r)

\* get: an expired item is deleted, a current one becomes the most recent.
Get(r) == cache' = IF Hit(r) THEN Append(Without(r), cache[Slot(r)]) ELSE Without(r)

\* set: the item becomes the most recent; the least recent ones make room.
Put(r, value) ==
    LET items == Append(Without(r),
                        [key |-> r, value |-> value, expires |-> clock + TtlSeconds])
        excess == Len(items) - MaxEntries
    IN  cache' = IF excess > 0 THEN SubSeq(items, excess + 1, Len(items)) ELSE items

-----------------------------------------------------------------------------
(* get_route_path                                                          *)

Answered(q, r, value) ==
    request' = [request EXCEPT ![q] = [Waiting EXCEPT !.pc = "answered", !.route = r,
                                           !.answer = value, !.at = clock]]
Failed(q) == request' = [request EXCEPT ![q] = [Waiting EXCEPT !.pc = "failed"]]

Lookup(q, r) ==
    /\ request[q].pc = "waiting"
    /\ arrivals.requests > 0
    /\ arrivals' = [arrivals EXCEPT !.requests = @ - 1]
    /\ Get(r)
    /\ IF Hit(r) THEN Answered(q, r, ValueOf(r))
       ELSE IF hasPool
       THEN request' = [request EXCEPT ![q] = [Waiting EXCEPT !.pc = "querying",
                                                   !.route = r, !.asked = clock]]
       ELSE Failed(q)
    /\ UNCHANGED <<analyticsVars, clock, schedule, history, hasPool>>

\* The statement reads the schedule as it is when the statement starts.
Read(q) ==
    /\ request[q].pc = "querying"
    /\ request' = [request EXCEPT ![q].pc = "fetching", ![q].row = schedule[request[q].route]]
    /\ UNCHANGED <<analyticsVars, clock, schedule, history, hasPool, cache, arrivals>>

\* A timeout (504), a database error (503), or no such route (404).
Fail(q) ==
    /\ request[q].pc \in {"querying", "fetching"}
    /\ Failed(q)
    /\ UNCHANGED <<analyticsVars, clock, schedule, history, hasPool, cache, arrivals>>

Answer(q) ==
    /\ request[q].pc = "fetching"
    /\ request[q].row # NoRoute
    /\ Put(request[q].route, request[q].row)
    /\ Answered(q, request[q].route, request[q].row)
    /\ UNCHANGED <<analyticsVars, clock, schedule, history, hasPool, arrivals>>

\* The static import replaces a route, or drops it (external).
Import(r) ==
    /\ arrivals.imports > 0
    /\ arrivals' = [arrivals EXCEPT !.imports = @ - 1]
    /\ \E version \in {Len(history[r]), NoRoute} :
          /\ version # schedule[r]
          /\ schedule' = [schedule EXCEPT ![r] = version]
          /\ history' = [history EXCEPT ![r] =
                            Append(@, [from |-> clock, version |-> version])]
    /\ UNCHANGED <<analyticsVars, clock, hasPool, cache, request>>

\* No query outlasts its timeout.
ClockTick ==
    /\ clock < MaxClock
    /\ \A q \in Requests : request[q].pc \in {"querying", "fetching"} =>
          clock < request[q].asked + QueryTimeout
    /\ clock' = clock + 1
    /\ UNCHANGED <<analyticsVars, schedule, history, hasPool, cache, request, arrivals>>

ApiNext ==
    \/ \E q \in Requests : Read(q) \/ Fail(q) \/ Answer(q) \/ \E r \in RouteIds : Lookup(q, r)
    \/ \E r \in RouteIds : Import(r)
    \/ ClockTick

Next == (AnalyticsNext /\ UNCHANGED apiVars) \/ ApiNext

Spec == Init /\ [][Next]_vars
-----------------------------------------------------------------------------

\* A path that is answered was the route's in the schedule at a moment no longer
\* ago than the life of an item and of a query: neither hits on the item nor a
\* slow query that is stored late make it last longer.
ServedIsRecent ==
    \A q \in Requests : request[q].pc = "answered" =>
        LET versions == history[request[q].route]
        IN  \E i \in DOMAIN versions :
              /\ versions[i].version = request[q].answer
              /\ i < Len(versions) =>
                    versions[i + 1].from + TtlSeconds + QueryTimeout > request[q].at
=============================================================================
