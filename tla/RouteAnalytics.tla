---------------------------- MODULE RouteAnalytics ----------------------------
(***************************************************************************)
(* The analytics functions of the database (supabase/migrations/           *)
(* 20261018214617_route_punctuality_analytics.sql) called over several     *)
(* connections: each call is a transaction under READ COMMITTED, so every  *)
(* statement of a function sees what is committed when it starts, and what *)
(* the transaction itself wrote; it waits for the row that another open    *)
(* transaction wrote and then goes on from the committed version.          *)
(*                                                                         *)
(* A sum of a window or of a rollup is represented by how many times it    *)
(* counts each cycle: TotalOf gives the numbers.                           *)
(***************************************************************************)
EXTENDS RouteObservations

CONSTANTS
    Sessions,      \* connections to the database
    Cycles,        \* cycle_id -> [at, rows]: the calls' observed_at and p_rows
    CallScenarios, \* what is called, and how often: functions from calls to Nat
    Bucket, Day,   \* length of a window (15 minutes) and of a service day
    Retention,     \* 30 days
    MaxNow         \* bound on the clock

ASSUME AnalyticsAssumption ==
    /\ {Bucket, Day, Retention} \subseteq Nat \ {0}
    /\ MaxNow \in Nat
    /\ IsFiniteSet(DOMAIN Cycles)
    /\ Collation \in Seq(ToSet(Collation))
    /\ \A c \in DOMAIN Cycles :
          /\ Cycles[c].at \in Nat
          /\ RowsAreSound(Cycles[c].rows) =>
                /\ Cycles[c].rows \in Seq(ToSet(Cycles[c].rows))
                /\ \A g \in GroupsOf(Cycles[c].rows) : g.route \in ToSet(Collation)
    /\ \A scenario \in CallScenarios : \A call \in DOMAIN scenario :
          /\ scenario[call] \in Nat
          /\ call.op \in {"record", "daily", "ranking"}
          /\ call.op = "record" => call.cycle \in DOMAIN Cycles
          /\ call.op \in {"daily", "ranking"} =>
                \E c \in DOMAIN Cycles : call.day = Cycles[c].at \div Day
          /\ call.op = "ranking" => call.min_samples \in Int /\ call.limit \in Int

VARIABLES
    now,      \* statement_timestamp() of a statement that arrives now
    recorded, \* route_observation_cycles: the cycle_ids
    windows,  \* route_observation_windows: key -> cycle -> times counted
    derived,  \* route_daily_punctuality and daily_line_ranking, by service day:
              \* the rows, and how often they were replaced
    session,  \* the open transaction of each connection
    calls     \* calls to come

analytics == <<recorded, windows, derived>>
analyticsVars == <<now, analytics, session, calls>>

-----------------------------------------------------------------------------

CycleIds == DOMAIN Cycles
ServiceDay(t) == t \div Day
BucketStart(t) == Bucket * (t \div Bucket)
Days == {ServiceDay(Cycles[c].at) : c \in CycleIds}
Tables == {"daily", "ranking"}

WindowKeys(c) ==
    {[day |-> ServiceDay(Cycles[c].at), bucket |-> BucketStart(Cycles[c].at),
      group |-> g] : g \in GroupsOf(Cycles[c].rows)}
Recordable == {c \in CycleIds : RowsAreSound(Cycles[c].rows)}
Keys == UNION {WindowKeys(c) : c \in Recordable}

Never == [c \in CycleIds |-> 0]
IsStored(key) == windows[key] # Never

\* The sum of a field over the cycles a row counts.
TotalOf(row, field) ==
    LET ids == SetToSeq({c \in CycleIds : row.counted[c] > 0})
    IN  SumOf([i \in DOMAIN ids |->
                 row.counted[ids[i]] * Total(Cycles[ids[i]].rows, row.group, field)])

\* The SELECT of refresh_route_daily_punctuality: a sum over the windows of a group,
\* so a row counts a cycle as often as they do together.
StoredOf(day) == {k \in Keys : k.day = day /\ IsStored(k)}
Counted(keys, c) == Cardinality(UNION {{k} \X (1 .. windows[k][c]) : k \in keys})
RollUp(day) ==
    {[group |-> k.group,
      counted |-> [c \in CycleIds |->
                     Counted({j \in StoredOf(day) : j.group = k.group}, c)]] :
        k \in StoredOf(day)}

\* The SELECT of refresh_daily_line_ranking.
Ranking(day, min_samples, limit) ==
    Ranked({[group |-> row.group, samples |-> TotalOf(row, "samples"),
             on_time |-> TotalOf(row, "on_time"), delay |-> TotalOf(row, "delay")] :
                row \in derived["daily"][day].rows},
           min_samples, limit)

\* The primary key and the unique constraint of each derived table.
SameKey(table, a, b) ==
    IF table = "daily" THEN a.group = b.group
    ELSE a.direction = b.direction /\ (a.position = b.position \/ a.group = b.group)

-----------------------------------------------------------------------------

Closed == [pc |-> "idle", call |-> <<>>, began |-> 0, purged |-> {},
           inserted |-> FALSE, upserts |-> [k \in {} |-> Never], seen |-> 0, cleared |-> FALSE,
           rows |-> {}]

AnalyticsInit ==
    /\ now = 0
    /\ recorded = {}
    /\ windows = [k \in Keys |-> Never]
    /\ derived = [t \in Tables |-> [d \in Days |-> [rows |-> {}, version |-> 0]]]
    /\ session = [s \in Sessions |-> Closed]
    /\ calls \in CallScenarios

At(s, pc) == session[s].pc = pc
Argument(s) == session[s].call
Open(s) == session[s].pc # "idle"
Others(s) == {t \in Sessions \ {s} : Open(t)}

\* The call is refused, or returns at once, without a write.
Refused(call) ==
    CASE call.op = "record" ->
            \/ ~RowsAreSound(Cycles[call.cycle].rows)
            \/ Cycles[call.cycle].rows = <<>>
      [] call.op = "daily" -> FALSE
      [] call.op = "ranking" -> RankingParametersRefused(call.min_samples, call.limit)

Call(s, call) ==
    /\ ~Open(s)
    /\ calls[call] > 0
    /\ calls' = [calls EXCEPT ![call] = @ - 1]
    /\ IF Refused(call)
       THEN UNCHANGED session
       ELSE session' = [session EXCEPT ![s].call = call, ![s].began = now,
                ![s].pc = IF call.op = "record" THEN "purge" ELSE "clear"]
    /\ UNCHANGED <<now, analytics>>

-----------------------------------------------------------------------------
(* record_route_observations                                               *)

\* Mutant: the retention ends a moment early.
PurgeTooSoon(s) ==
    LET expired == {c \in recorded : Cycles[c].at <= session[s].began - Retention}
    IN  /\ At(s, "purge")
        /\ \A t \in Others(s) : session[t].purged \cap expired = {}
        /\ session' = [session EXCEPT ![s].purged = expired, ![s].pc = "insert"]
        /\ UNCHANGED <<now, analytics, calls>>

\* DELETE the cycle_ids that are out of the retention: it waits for a
\* transaction that is deleting one of them.
Purge(s) ==
    LET expired == {c \in recorded : Cycles[c].at < session[s].began - Retention}
    IN  /\ At(s, "purge")
        /\ \A t \in Others(s) : session[t].purged \cap expired = {}
        /\ session' = [session EXCEPT ![s].purged = expired, ![s].pc = "insert"]
        /\ UNCHANGED <<now, analytics, calls>>

\* INSERT ... ON CONFLICT DO NOTHING: it waits for a transaction that is
\* inserting or deleting the same cycle_id.
InsertCycle(s) ==
    LET c == Argument(s).cycle
        isNew == c \notin recorded \ session[s].purged
    IN  /\ At(s, "insert")
        /\ \A t \in Others(s) :
              ~(\/ session[t].inserted /\ Argument(t).cycle = c
                \/ c \in session[t].purged)
        /\ session' = [session EXCEPT ![s].inserted = isNew,
                            ![s].pc = IF isNew THEN "upsert" ELSE "commit"]
        /\ UNCHANGED <<now, analytics, calls>>

\* The rows of a transaction, and the row of a window with the cycle added.
AlsoUpserted(rows, key, c) ==
    [k \in DOMAIN rows \cup {key} |->
        IF k = key THEN [windows[key] EXCEPT ![c] = @ + 1] ELSE rows[k]]

\* Mutant: the sums are read before the row is locked.
UpsertUnlocked(s) ==
    LET c == Argument(s).cycle
        todo == WindowKeys(c) \ DOMAIN session[s].upserts
    IN  /\ At(s, "upsert")
        /\ \E k \in todo :
              session' = [session EXCEPT ![s].upserts = AlsoUpserted(@, k, c),
                              ![s].pc = IF todo = {k} THEN "commit" ELSE "upsert"]
        /\ UNCHANGED <<now, analytics, calls>>

\* INSERT ... ON CONFLICT DO UPDATE, one row after the other, in any order: it
\* waits for a transaction that wrote the row, and adds to the committed sums.
Upsert(s) ==
    LET c == Argument(s).cycle
        todo == WindowKeys(c) \ DOMAIN session[s].upserts
    IN  /\ At(s, "upsert")
        /\ \E k \in todo :
              /\ \A t \in Others(s) : k \notin DOMAIN session[t].upserts
              /\ session' = [session EXCEPT ![s].upserts = AlsoUpserted(@, k, c),
                                 ![s].pc = IF todo = {k} THEN "commit" ELSE "upsert"]
        /\ UNCHANGED <<now, analytics, calls>>

-----------------------------------------------------------------------------
(* refresh_route_daily_punctuality and refresh_daily_line_ranking: DELETE  *)
(* the rows of the day, INSERT the result of a SELECT.                     *)

Table(s) == Argument(s).op
Stored(s) == derived[Table(s)][Argument(s).day]
Rebuilds(t, s) == Table(t) = Table(s) /\ Argument(t).day = Argument(s).day

\* The DELETE sees the rows of one version of the day ...
ClearSnapshot(s) ==
    /\ At(s, "clear")
    /\ session' = [session EXCEPT ![s].seen = Stored(s).version, ![s].pc = "clearing"]
    /\ UNCHANGED <<now, analytics, calls>>

\* ... and waits for a transaction that is deleting them; when that one has
\* replaced them it deletes nothing, for it did not see the new rows.
Clear(s) ==
    /\ At(s, "clearing")
    /\ Stored(s).version = session[s].seen =>
          \A t \in Others(s) : ~(Rebuilds(t, s) /\ session[t].cleared)
    /\ session' = [session EXCEPT ![s].pc = "select", ![s].cleared =
                        Stored(s).version = session[s].seen /\ Stored(s).rows # {}]
    /\ UNCHANGED <<now, analytics, calls>>

Select(s) ==
    /\ At(s, "select")
    /\ session' = [session EXCEPT ![s].pc = "fill", ![s].rows =
                        IF Table(s) = "daily" THEN RollUp(Argument(s).day)
                        ELSE Ranking(Argument(s).day, Argument(s).min_samples,
                                     Argument(s).limit)]
    /\ UNCHANGED <<now, analytics, calls>>

Collides(s, rows) ==
    \E a \in session[s].rows, b \in rows : SameKey(Table(s), a, b)
Kept(s) == IF session[s].cleared THEN {} ELSE Stored(s).rows

\* Mutant: ON CONFLICT DO UPDATE, for rows that came in since the DELETE.
FillOver(s) ==
    /\ At(s, "fill")
    /\ \A t \in Others(s) :
          Rebuilds(t, s) /\ (At(t, "commit") \/ session[t].cleared) =>
              ~Collides(s, session[t].rows \cup Stored(s).rows)
    /\ session' = [session EXCEPT ![s].pc = "commit", ![s].cleared = TRUE]
    /\ UNCHANGED <<now, analytics, calls>>

\* The rows are inserted when no open transaction has written one of their keys
\* and no stored row has one: a stored one aborts the call (Abort).
Fill(s) ==
    /\ At(s, "fill")
    /\ \A t \in Others(s) :
          Rebuilds(t, s) =>
              /\ At(t, "commit") => ~Collides(s, session[t].rows)
              /\ session[t].cleared => ~Collides(s, Stored(s).rows)
    /\ ~Collides(s, Kept(s))
    /\ session' = [session EXCEPT ![s].pc = "commit"]
    /\ UNCHANGED <<now, analytics, calls>>

-----------------------------------------------------------------------------

CommitRecord(s) ==
    /\ recorded' = (recorded \ session[s].purged) \cup
                   (IF session[s].inserted THEN {Argument(s).cycle} ELSE {})
    /\ windows' = [k \in Keys |-> IF k \in DOMAIN session[s].upserts
                                  THEN session[s].upserts[k] ELSE windows[k]]
    /\ UNCHANGED derived

CommitRebuild(s) ==
    /\ derived' = [derived EXCEPT ![Table(s)][Argument(s).day] =
          IF session[s].cleared \/ session[s].rows # {}
          THEN [rows |-> Kept(s) \cup session[s].rows, version |-> @.version + 1]
          ELSE @]
    /\ UNCHANGED <<recorded, windows>>

Commit(s) ==
    /\ At(s, "commit")
    /\ IF Argument(s).op = "record" THEN CommitRecord(s) ELSE CommitRebuild(s)
    /\ session' = [session EXCEPT ![s] = Closed]
    /\ UNCHANGED <<now, calls>>

\* The statement fails (a duplicate key, a deadlock, a lost connection) or is
\* cancelled, as the worker does when its analytics timeout is over.
Abort(s) ==
    /\ Open(s)
    /\ session' = [session EXCEPT ![s] = Closed]
    /\ UNCHANGED <<now, analytics, calls>>

Tick == now < MaxNow /\ now' = now + 1 /\ UNCHANGED <<analytics, session, calls>>

AnalyticsNext ==
    \/ \E s \in Sessions :
          \/ \E call \in DOMAIN calls : Call(s, call)
          \/ Purge(s) \/ InsertCycle(s) \/ Upsert(s)
          \/ ClearSnapshot(s) \/ Clear(s) \/ Select(s) \/ Fill(s)
          \/ Commit(s) \/ Abort(s)
    \/ Tick

-----------------------------------------------------------------------------

\* A cycle is counted again only after its observed_at has left the retention:
\* whoever repeats a call, alone or at the same time, within it counts once.
CyclesCountedOnce ==
    \A c \in Recordable : \A k \in WindowKeys(c) :
        windows[k][c] > 1 => now > Cycles[c].at + Retention

IsWhole(rows, c) ==
    \A a, b \in rows : {a.group, b.group} \subseteq GroupsOf(Cycles[c].rows) =>
        a.counted[c] = b.counted[c]

RankingIsConsistent(rows) ==
    \A direction \in Directions :
        LET ranked == {r \in rows : r.direction = direction}
        IN  /\ {r.position : r \in ranked} = 1 .. Cardinality(ranked)
            /\ \A a, b \in ranked : a.position < b.position =>
                  /\ a.group # b.group
                  /\ IF direction = "most_punctual" THEN a.ratio >= b.ratio
                                                    ELSE a.ratio <= b.ratio

WindowsAreWhole ==
    \A c \in Recordable : \A j, k \in WindowKeys(c) : windows[j][c] = windows[k][c]

\* Every group of a cycle has the cycle counted equally often, in the windows and
\* in the rollups of the day, whatever ran at the same time and whatever failed;
\* each direction of a ranking has the positions from 1 on, in order.
RollupsAreWhole ==
    /\ WindowsAreWhole
    /\ \A d \in Days : \A c \in Recordable : IsWhole(derived["daily"][d].rows, c)
    /\ \A d \in Days : RankingIsConsistent(derived["ranking"][d].rows)

\* Every group of one rollup is in another, and has every cycle counted as often.
Covers(later, earlier) ==
    \A row \in earlier : \E other \in later :
        /\ other.group = row.group
        /\ \A c \in CycleIds : other.counted[c] >= row.counted[c]

\* What a day's rollup counts it counts in every later one: a refresh never
\* replaces a rollup by an older one, and the day is never seen without rows.
DailyNeverGoesBack ==
    [][\A d \in Days : Covers(derived'["daily"][d].rows, derived["daily"][d].rows)]_derived
=============================================================================
