------------------------------ MODULE MCReadApi ------------------------------
(***************************************************************************)
(* Instances of ReadApi: repeated and concurrent records of two cycles     *)
(* that share a window, refreshes of a day against them, rankings against  *)
(* refreshes, and path requests against imports.                           *)
(***************************************************************************)
EXTENDS ReadApi

CONSTANTS s1, s2

MCStripped == (" M4 " :> "M4") @@ ("  " :> Blank)
MCCollation == <<"M4", "U8">>

Row(route, category, samples, late, delay) ==
    [route |-> route, category |-> category, samples |-> samples,
     on_time |-> samples - late, late |-> late, delay |-> delay]

\* Two cycles of one window, one of a later window of the same day, one that the
\* database refuses and an empty one.
MCCycles ==
    ("c1" :> [at |-> 0, rows |-> <<Row("M4", "tram", 2, 1, 90), Row("U8", Absent, 1, 0, -20)>>])
 @@ ("c2" :> [at |-> 0, rows |-> <<Row("U8", "unknown", 3, 0, 10), Row(" M4 ", "tram", 1, 0, 0)>>])
 @@ ("c3" :> [at |-> 1, rows |-> <<Row("M4", "tram", 1, 1, 300)>>])
 @@ ("refused" :> [at |-> 0, rows |-> <<Row("M4", "tram", 1, 0, 0), Row("  ", "bus", 1, 1, 61)>>])
 @@ ("empty" :> [at |-> 0, rows |-> <<>>])

Record(c) == [op |-> "record", cycle |-> c]
Daily == [op |-> "daily", day |-> 0]
Rank(min_samples, limit) ==
    [op |-> "ranking", day |-> 0, min_samples |-> min_samples, limit |-> limit]
AllCalls == {Record(c) : c \in DOMAIN MCCycles} \cup
            {Daily, Rank(1, 10), Rank(3, 1), Rank(0, 10)}
Times(count) == [call \in AllCalls |-> IF call \in DOMAIN count THEN count[call] ELSE 0]

\* None: the scenario of the API.
NoCalls == Times(<<>>)
MCCallScenarios ==
    {NoCalls,
     Times((Record("c1") :> 2) @@ (Record("c2") :> 2)),
     Times((Record("c1") :> 3) @@ (Record("refused") :> 1) @@ (Record("empty") :> 1)
           @@ (Rank(0, 10) :> 1)),
     Times((Record("c1") :> 1) @@ (Record("c3") :> 1) @@ (Daily :> 3)),
     Times((Record("c1") :> 1) @@ (Record("c3") :> 1) @@ (Daily :> 1) @@ (Rank(1, 10) :> 1)
           @@ (Rank(3, 1) :> 1))}
MCRequestScenarios == {[requests |-> 0, imports |-> 0], [requests |-> 3, imports |-> 1]}

\* A scenario is of the calls or of the requests; each has its clock.
MCInit ==
    /\ Init
    /\ calls = NoCalls <=> arrivals.requests > 0
    /\ arrivals.requests = 0 => hasPool
Asked == arrivals.requests > 0 \/ \E q \in Requests : request[q].pc # "waiting"
MCNext ==
    /\ Next
    /\ Asked => now' = now
    /\ ~Asked => clock' = clock
MCSpec == MCInit /\ [][MCNext]_vars

Symmetry == Permutations(Sessions) \cup Permutations(Requests) \cup Permutations(RouteIds)
=============================================================================
