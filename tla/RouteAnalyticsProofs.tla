------------------------ MODULE RouteAnalyticsProofs ------------------------
(***************************************************************************)
(* Proofs about the analytics functions and the path endpoint, for every   *)
(* number of sessions, calls, cycles, rows and requests.  A cycle is       *)
(* counted once within the retention, and in all of its windows or in none *)
(* (AnalyticsIInv); what refreshes store are whole rollups and ordered     *)
(* rankings, and a day's rollup is never replaced by one that counts less  *)
(* (DerivedIInv); the cache is a bounded map that serves what was read a   *)
(* short time ago (ApiIInv).                                               *)
(***************************************************************************)
EXTENDS ReadApi, TLAPS, FiniteSetTheorems, NaturalsInduction, WellFoundedInduction

-----------------------------------------------------------------------------
(* The inductive invariants of the analytics and of the path cache         *)

SessionShape(s) ==
    session[s] = [pc |-> session[s].pc, call |-> session[s].call,
                  began |-> session[s].began, purged |-> session[s].purged,
                  inserted |-> session[s].inserted, upserts |-> session[s].upserts,
                  seen |-> session[s].seen, cleared |-> session[s].cleared,
                  rows |-> session[s].rows]

AnalyticsShape ==
    /\ now \in Nat
    /\ recorded \subseteq CycleIds
    /\ windows \in [Keys -> [CycleIds -> Nat]]
    /\ \E scenario \in CallScenarios : DOMAIN calls = DOMAIN scenario
    /\ session = [s \in Sessions |-> session[s]]
    /\ \A s \in Sessions : SessionShape(s) /\ session[s].began \in Nat
                                           /\ session[s].began <= now

\* What a transaction that records has done: it purges expired cycles only, and
\* has inserted a cycle that is new, or that it purges itself.
PurgeInv ==
    \A s \in Sessions : \A c \in session[s].purged :
        c \in CycleIds /\ session[s].began > Cycles[c].at + Retention
InsertInv ==
    \A s \in Sessions :
        /\ session[s].inserted \in BOOLEAN
        /\ At(s, "purge") \/ At(s, "insert") \/ At(s, "upsert")
              => Argument(s).op = "record" /\ Argument(s).cycle \in Recordable
        /\ session[s].inserted =>
              /\ At(s, "upsert") \/ At(s, "commit")
              /\ Argument(s).op = "record" /\ Argument(s).cycle \in Recordable
              /\ Argument(s).cycle \in recorded => Argument(s).cycle \in session[s].purged
        /\ At(s, "upsert") => session[s].inserted

\* Its rows are the stored ones with its cycle added, all of them at the end.
UpsertInv ==
    \A s \in Sessions :
        /\ \A k \in DOMAIN session[s].upserts :
              /\ session[s].inserted /\ k \in WindowKeys(Argument(s).cycle)
              /\ session[s].upserts[k] = [windows[k] EXCEPT ![Argument(s).cycle] = @ + 1]
        /\ At(s, "commit") /\ session[s].inserted =>
              DOMAIN session[s].upserts = WindowKeys(Argument(s).cycle)

\* Two transactions neither insert one cycle nor write one row.
ApartInv ==
    \A s, t \in Sessions : s # t =>
        /\ session[s].inserted /\ session[t].inserted => Argument(s).cycle # Argument(t).cycle
        /\ DOMAIN session[s].upserts \cap DOMAIN session[t].upserts = {}

\* A counted cycle is recorded, or out of the retention.
CountInv ==
    \A c \in Recordable : \A k \in WindowKeys(c) :
        windows[k][c] > 0 => c \in recorded \/ now > Cycles[c].at + Retention

AnalyticsIInv ==
    /\ AnalyticsShape /\ PurgeInv /\ InsertInv /\ UpsertInv /\ ApartInv /\ CountInv
    /\ CyclesCountedOnce /\ WindowsAreWhole

\* A window counts cycles that have rows about it, and no other.
AboutInv ==
    \A k \in Keys : \A c \in CycleIds :
        windows[k][c] > 0 => c \in Recordable /\ k \in WindowKeys(c)

HasSelected(s) == session[s].pc \in {"fill", "commit"} /\ Argument(s).op \in Tables

\* The rows of a day: those that are stored, and those that a transaction is about to.
RowSets(table, day) ==
    {derived[table][day].rows} \cup
    {session[s].rows : s \in {t \in Sessions : /\ HasSelected(t) /\ Table(t) = table
                                               /\ Argument(t).day = day}}

KnownGroups == UNION {GroupsOf(Cycles[c].rows) : c \in Recordable}
IsRollup(rows) ==
    /\ IsFiniteSet(rows)
    /\ \A row \in rows : row.group \in KnownGroups /\ row.counted \in [CycleIds -> Nat]
                      /\ \A c \in CycleIds \ Recordable : row.counted[c] = 0
    /\ \A a, b \in rows : a.group = b.group => a = b
    /\ \A c \in Recordable : IsWhole(rows, c)
IsRanking(rows) ==
    /\ RankingIsConsistent(rows)
    /\ rows # {} => \E r \in rows : r.direction = "most_punctual" /\ r.position = 1

\* Two sets of rows have a key in common, unless one is empty.
Meet(table, X, Y) == X # {} /\ Y # {} => \E a \in X, b \in Y : SameKey(table, a, b)

\* Whatever is or will be stored is a rollup or a ranking; the windows have moved on
\* from it, so that two rollups of a day have a group in common.
RowsInv ==
    \A d \in Days :
        /\ \A X \in RowSets("daily", d) : IsRollup(X) /\ Covers(RollUp(d), X)
        /\ \A X \in RowSets("ranking", d) : IsRanking(X)
        /\ \A table \in Tables : \A X, Y \in RowSets(table, d) : Meet(table, X, Y)

\* What a transaction that rebuilds a table is about to do.
RebuildInv ==
    \A s \in Sessions :
        /\ session[s].pc \in {"clear", "clearing", "select", "fill"} \/ session[s].cleared
           \/ session[s].rows # {} =>
              /\ Argument(s).op \in Tables /\ Argument(s) \in DOMAIN calls
              /\ ~Refused(Argument(s))
        /\ session[s].cleared => session[s].pc \in {"select", "fill", "commit"}
        /\ session[s].cleared \in BOOLEAN
        /\ session[s].rows # {} => HasSelected(s)

Inserts(s) == At(s, "commit") /\ session[s].rows # {}

\* Who has deleted a day's rows has it for itself: it deleted some, will insert newer
\* ones, and nobody else deletes or inserts.  Who inserts without deleting any
\* found none and is the only one.
ReplaceInv ==
    \A s \in Sessions :
        /\ session[s].cleared =>
              /\ Stored(s).rows # {}
              /\ HasSelected(s) /\ Table(s) = "daily" => Covers(session[s].rows, Stored(s).rows)
        /\ Inserts(s) /\ ~session[s].cleared => Stored(s).rows = {}
        /\ \A t \in Sessions \ {s} :
              \/ session[s].cleared /\ session[t].cleared
              \/ Inserts(s) /\ Inserts(t)
              => ~Rebuilds(s, t)

DerivedIInv ==
    /\ derived = [t \in Tables |-> [d \in Days |->
                    [rows |-> derived[t][d].rows, version |-> derived[t][d].version]]]
    /\ AboutInv /\ RowsInv /\ RebuildInv /\ ReplaceInv
Versions == Nat \cup {NoRoute}

\* The value was a route's version at the time, or came in later.
Recent(r, value, time) ==
    \E i \in DOMAIN history[r] :
        /\ history[r][i].version = value
        /\ i < Len(history[r]) => history[r][i + 1].from >= time

HistoryInv ==
    /\ clock \in Nat
    /\ schedule = [r \in RouteIds |-> schedule[r]]
    /\ history \in [RouteIds -> Seq([from : Nat, version : Versions])]
    /\ \A r \in RouteIds : Len(history[r]) > 0
                          /\ history[r][Len(history[r])].version = schedule[r]

\* The cache is a bounded map; an item was stored by a query that took no longer than
\* its timeout, and expires a full life after that.
CacheInv ==
    /\ cache \in Seq([key : RouteIds, value : Versions, expires : Nat])
    /\ Len(cache) <= MaxEntries
    /\ \A i, j \in DOMAIN cache : cache[i].key = cache[j].key => i = j
    /\ \A i \in DOMAIN cache :
          /\ cache[i].expires <= clock + TtlSeconds
          /\ Recent(cache[i].key, cache[i].value,
                    cache[i].expires - TtlSeconds - QueryTimeout)

RequestInv ==
    /\ request \in [Requests -> [pc : {"waiting", "querying", "fetching", "answered", "failed"},
                               route : RouteIds \cup {NoRoute}, asked : Nat, row : Versions,
                               answer : Versions, at : Nat]]
    /\ \A q \in Requests :
          /\ request[q].pc \in {"querying", "fetching"} =>
                /\ request[q].route \in RouteIds
                /\ request[q].asked <= clock /\ clock <= request[q].asked + QueryTimeout
          /\ request[q].pc = "fetching" =>
                Recent(request[q].route, request[q].row, request[q].asked)
          /\ request[q].pc = "answered" =>
                /\ request[q].route \in RouteIds /\ request[q].at <= clock
                /\ Recent(request[q].route, request[q].answer,
                          request[q].at + 1 - TtlSeconds - QueryTimeout)

ApiIInv == HistoryInv /\ CacheInv /\ RequestInv

-----------------------------------------------------------------------------
(* The proofs                                                              *)

USE DEF analytics, analyticsVars

\* The windows of a cycle that may be recorded are windows of the tables.
LEMMA KeysOf == \A c \in Recordable : WindowKeys(c) \subseteq Keys /\ c \in CycleIds
  BY DEF Keys, Recordable

\* Times and the retention are naturals.
LEMMA Constants ==
    /\ Retention \in Nat
    /\ \A c \in CycleIds : Cycles[c].at \in Nat
  BY AnalyticsAssumption DEF CycleIds

\* Empty tables and idle sessions satisfy the invariant.
LEMMA InitialInv == Init => AnalyticsIInv
<1> SUFFICES ASSUME AnalyticsInit PROVE AnalyticsIInv
  BY DEF Init
<1>1. \A s \in Sessions : session[s] = Closed
  BY DEF AnalyticsInit
<1>2. \A k \in Keys : windows[k] = [c \in CycleIds |-> 0]
  BY DEF AnalyticsInit, Never
<1>3. AnalyticsShape
  <2>1. \A s \in Sessions : SessionShape(s) /\ session[s].began = 0
    BY <1>1 DEF Closed, SessionShape
  <2>2. windows \in [Keys -> [CycleIds -> Nat]]
    BY DEF AnalyticsInit, Never
  <2>3. session = [s \in Sessions |-> session[s]]
    BY DEF AnalyticsInit
  <2>4. \E scenario \in CallScenarios : DOMAIN calls = DOMAIN scenario
    BY DEF AnalyticsInit
  <2>5. now = 0
    BY DEF AnalyticsInit
  <2>6. recorded = {}
    BY DEF AnalyticsInit
  <2> QED BY <2>1, <2>2, <2>3, <2>4, <2>5, <2>6 DEF AnalyticsShape
<1>4. PurgeInv /\ InsertInv /\ UpsertInv /\ ApartInv
  <2>1. \A s \in Sessions : /\ session[s].pc = "idle" /\ session[s].inserted = FALSE
                             /\ session[s].purged = {}
    BY <1>1 DEF Closed
  <2>2. \A s \in Sessions : DOMAIN session[s].upserts = {}
    BY <1>1 DEF Closed
  <2> QED BY <2>1, <2>2 DEF PurgeInv, InsertInv, UpsertInv, ApartInv, At
<1>5. CountInv /\ CyclesCountedOnce /\ WindowsAreWhole
  BY <1>2, KeysOf DEF CountInv, CyclesCountedOnce, WindowsAreWhole
<1> QED BY <1>3, <1>4, <1>5 DEF AnalyticsIInv

-----------------------------------------------------------------------------
(* Steps of one session that write nothing                                 *)

\* What a step of s leaves alone.
Others_Alone(s) ==
    /\ UNCHANGED <<now, recorded, windows>>
    /\ DOMAIN calls' = DOMAIN calls
    /\ session' = [t \in Sessions |-> session'[t]]
    /\ SessionShape(s)'
    /\ \A t \in Sessions \ {s} : session'[t] = session[t]

\* A step of one session keeps the shape of all of them.
LEMMA ShapeStep ==
  ASSUME AnalyticsIInv, NEW s \in Sessions, Others_Alone(s),
         session'[s].began \in {session[s].began, now, 0}
  PROVE  AnalyticsShape'
<1>1. \A t \in Sessions : SessionShape(t)'
  BY DEF Others_Alone, AnalyticsIInv, AnalyticsShape, SessionShape
<1>2. \A t \in Sessions : session'[t].began \in Nat /\ session'[t].began <= now'
  BY DEF Others_Alone, AnalyticsIInv, AnalyticsShape
<1> QED BY <1>1, <1>2 DEF Others_Alone, AnalyticsIInv, AnalyticsShape

\* Who leaves clock, ids and windows alone leaves what they count alone.
LEMMA CountStep ==
  ASSUME AnalyticsIInv, UNCHANGED <<now, recorded, windows>>
  PROVE  CountInv' /\ CyclesCountedOnce' /\ WindowsAreWhole'
  BY DEF AnalyticsIInv, CountInv, CyclesCountedOnce, WindowsAreWhole

\* A session whose fields for recording stay as they are.
LEMMA RebuildKeeps ==
  ASSUME AnalyticsIInv, NEW s \in Sessions, Others_Alone(s),
         session[s].pc \in {"clear", "clearing", "select", "fill"},
         session'[s].pc \in {"clearing", "select", "fill", "commit"},
         session'[s].call = session[s].call, session'[s].began = session[s].began,
         session'[s].purged = session[s].purged,
         session'[s].inserted = session[s].inserted,
         session'[s].upserts = session[s].upserts
  PROVE  AnalyticsIInv'
<1>1. ~session[s].inserted
  BY DEF AnalyticsIInv, InsertInv, At
<1>2. AnalyticsShape'
  BY ShapeStep
<1>3. PurgeInv'
  BY DEF AnalyticsIInv, PurgeInv, Others_Alone
<1>4. InsertInv'
  BY <1>1 DEF AnalyticsIInv, InsertInv, Others_Alone, At, Argument
<1>5. UpsertInv'
  <2>1. DOMAIN session[s].upserts = {}
    BY <1>1 DEF AnalyticsIInv, UpsertInv
  <2>2. \A t \in Sessions \ {s} : session'[t] = session[t]
    BY DEF Others_Alone
  <2>3. windows' = windows
    BY DEF Others_Alone
  <2> QED BY <1>1, <2>1, <2>2, <2>3 DEF AnalyticsIInv, UpsertInv, At, Argument
<1>6. ApartInv'
  BY DEF AnalyticsIInv, ApartInv, Others_Alone, Argument
<1> QED BY <1>2, <1>3, <1>4, <1>5, <1>6, CountStep DEF AnalyticsIInv, Others_Alone

\* The steps of a rollup write other tables.
LEMMA RebuildSteps ==
  ASSUME AnalyticsIInv, NEW s \in Sessions,
         ClearSnapshot(s) \/ Clear(s) \/ Select(s) \/ Fill(s)
  PROVE  AnalyticsIInv'
<1>0. session = [t \in Sessions |-> session[t]] /\ SessionShape(s)
  BY DEF AnalyticsIInv, AnalyticsShape
<1>1. CASE ClearSnapshot(s)
  <2>1. Others_Alone(s)
    BY <1>0, <1>1 DEF ClearSnapshot, SessionShape, Others_Alone
  <2>2. /\ session[s].pc \in {"clear", "clearing", "select", "fill"}
        /\ session'[s].pc \in {"clearing", "select", "fill", "commit"}
    BY <1>0, <1>1 DEF ClearSnapshot, SessionShape, At
  <2>3. /\ session'[s].call = session[s].call /\ session'[s].began = session[s].began
        /\ session'[s].purged = session[s].purged
        /\ session'[s].inserted = session[s].inserted
        /\ session'[s].upserts = session[s].upserts
    BY <1>0, <1>1 DEF ClearSnapshot, SessionShape
  <2> QED BY <2>1, <2>2, <2>3, RebuildKeeps
<1>2. CASE Clear(s)
  <2>1. Others_Alone(s)
    BY <1>0, <1>2 DEF Clear, SessionShape, Others_Alone
  <2>2. /\ session[s].pc \in {"clear", "clearing", "select", "fill"}
        /\ session'[s].pc \in {"clearing", "select", "fill", "commit"}
    BY <1>0, <1>2 DEF Clear, SessionShape, At
  <2>3. /\ session'[s].call = session[s].call /\ session'[s].began = session[s].began
        /\ session'[s].purged = session[s].purged
        /\ session'[s].inserted = session[s].inserted
        /\ session'[s].upserts = session[s].upserts
    BY <1>0, <1>2 DEF Clear, SessionShape
  <2> QED BY <2>1, <2>2, <2>3, RebuildKeeps
<1>3. CASE Select(s)
  <2>1. Others_Alone(s)
    BY <1>0, <1>3 DEF Select, SessionShape, Others_Alone
  <2>2. /\ session[s].pc \in {"clear", "clearing", "select", "fill"}
        /\ session'[s].pc \in {"clearing", "select", "fill", "commit"}
    BY <1>0, <1>3 DEF Select, SessionShape, At
  <2>3. /\ session'[s].call = session[s].call /\ session'[s].began = session[s].began
        /\ session'[s].purged = session[s].purged
        /\ session'[s].inserted = session[s].inserted
        /\ session'[s].upserts = session[s].upserts
    BY <1>0, <1>3 DEF Select, SessionShape
  <2> QED BY <2>1, <2>2, <2>3, RebuildKeeps
<1>4. CASE Fill(s)
  <2>1. Others_Alone(s)
    BY <1>0, <1>4 DEF Fill, SessionShape, Others_Alone
  <2>2. /\ session[s].pc \in {"clear", "clearing", "select", "fill"}
        /\ session'[s].pc \in {"clearing", "select", "fill", "commit"}
    BY <1>0, <1>4 DEF Fill, SessionShape, At
  <2>3. /\ session'[s].call = session[s].call /\ session'[s].began = session[s].began
        /\ session'[s].purged = session[s].purged
        /\ session'[s].inserted = session[s].inserted
        /\ session'[s].upserts = session[s].upserts
    BY <1>0, <1>4 DEF Fill, SessionShape
  <2> QED BY <2>1, <2>2, <2>3, RebuildKeeps
<1> QED BY <1>1, <1>2, <1>3, <1>4

-----------------------------------------------------------------------------
(* Steps of a recording                                                    *)

\* The shape of one session, for the steps that follow.
LEMMA ShapeOf ==
  ASSUME AnalyticsIInv, NEW s \in Sessions
  PROVE  session = [t \in Sessions |-> session[t]] /\ SessionShape(s)
  BY DEF AnalyticsIInv, AnalyticsShape

\* A call that starts has written nothing yet.
LEMMA CallStep ==
  ASSUME AnalyticsIInv, NEW s \in Sessions, NEW call \in DOMAIN calls, Call(s, call)
  PROVE  AnalyticsIInv'
<1>1. PICK scenario \in CallScenarios : DOMAIN calls = DOMAIN scenario
  BY DEF AnalyticsIInv, AnalyticsShape
<1>2. /\ call.op \in {"record", "daily", "ranking"}
      /\ call.op = "record" => call.cycle \in CycleIds
  BY <1>1, AnalyticsAssumption DEF CycleIds
<1>3. /\ UNCHANGED <<now, recorded, windows>> /\ DOMAIN calls' = DOMAIN calls
      /\ session[s].pc = "idle"
  BY DEF Call, Open
<1>4. CASE Refused(call)
  <2>1. session' = session
    BY <1>4 DEF Call
  <2>2. AnalyticsShape'
    BY <1>3, <2>1 DEF AnalyticsIInv, AnalyticsShape, SessionShape
  <2> QED BY <1>3, <2>1, <2>2, CountStep
          DEF AnalyticsIInv, PurgeInv, InsertInv, UpsertInv, ApartInv, At, Argument
<1>5. CASE ~Refused(call)
  <2>a. session' = [session EXCEPT ![s].call = call, ![s].began = now,
                        ![s].pc = IF call.op = "record" THEN "purge" ELSE "clear"]
    BY <1>5 DEF Call
  <2>b. session = [t \in Sessions |-> session[t]] /\ SessionShape(s)
    BY ShapeOf
  <2>1. Others_Alone(s)
    BY <1>3, <2>a, <2>b DEF Others_Alone, SessionShape
  <2>2. /\ session'[s].call = call /\ session'[s].began = now
        /\ session'[s].pc = IF call.op = "record" THEN "purge" ELSE "clear"
        /\ session'[s].purged = session[s].purged
        /\ session'[s].inserted = session[s].inserted
        /\ session'[s].upserts = session[s].upserts
    BY <2>a, <2>b DEF SessionShape
  <2>3. call.op = "record" => call.cycle \in Recordable
    BY <1>2, <1>5 DEF Refused, Recordable
  <2>4. ~session[s].inserted /\ DOMAIN session[s].upserts = {}
    BY <1>3 DEF AnalyticsIInv, InsertInv, UpsertInv, At
  <2>5. AnalyticsShape'
    BY <2>1, <2>2, ShapeStep
  <2>6. PurgeInv'
    <3>1. now \in Nat /\ session[s].began \in Nat /\ session[s].began <= now
      BY DEF AnalyticsIInv, AnalyticsShape
    <3>2. \A c \in session[s].purged :
             c \in CycleIds /\ now > Cycles[c].at + Retention
      BY <3>1, Constants DEF AnalyticsIInv, PurgeInv
    <3> QED BY <2>1, <2>2, <3>2 DEF AnalyticsIInv, PurgeInv, Others_Alone
  <2>7. InsertInv'
    BY <2>1, <2>2, <2>3, <2>4, <1>2 DEF AnalyticsIInv, InsertInv, Others_Alone, At, Argument
  <2>8. UpsertInv'
    BY <2>1, <2>2, <2>4, <1>3 DEF AnalyticsIInv, UpsertInv, Others_Alone, At, Argument
  <2>9. ApartInv'
    BY <2>1, <2>2, <2>4 DEF AnalyticsIInv, ApartInv, Others_Alone, Argument
  <2> QED BY <1>3, <2>5, <2>6, <2>7, <2>8, <2>9, CountStep DEF AnalyticsIInv
<1> QED BY <1>4, <1>5

\* The purge takes only ids that are out of the retention.
LEMMA PurgeStep ==
  ASSUME AnalyticsIInv, NEW s \in Sessions, Purge(s)
  PROVE  AnalyticsIInv'
<1> DEFINE expired == {c \in recorded : Cycles[c].at < session[s].began - Retention}
<1>1. /\ session[s].pc = "purge" /\ UNCHANGED <<now, recorded, windows, calls>>
      /\ session' = [session EXCEPT ![s].purged = expired, ![s].pc = "insert"]
  BY DEF Purge, At
<1>a. session = [t \in Sessions |-> session[t]] /\ SessionShape(s)
  BY ShapeOf
<1>2. /\ session'[s].pc = "insert" /\ session'[s].purged = expired
      /\ session'[s].call = session[s].call /\ session'[s].began = session[s].began
      /\ session'[s].inserted = session[s].inserted
      /\ session'[s].upserts = session[s].upserts
  <2> HIDE DEF expired
  <2> QED BY <1>1, <1>a DEF SessionShape
<1>3. Others_Alone(s)
  BY <1>1, ShapeOf DEF Others_Alone, SessionShape
<1>4. ~session[s].inserted /\ DOMAIN session[s].upserts = {}
  BY <1>1 DEF AnalyticsIInv, InsertInv, UpsertInv, At
<1>5. AnalyticsShape'
  BY <1>2, <1>3, ShapeStep
<1>6. PurgeInv'
  <2>1. session[s].began \in Nat
    BY DEF AnalyticsIInv, AnalyticsShape
  <2>2. \A c \in expired : c \in CycleIds /\ session[s].began > Cycles[c].at + Retention
    BY <2>1, Constants DEF AnalyticsIInv, AnalyticsShape
  <2> QED BY <1>2, <1>3, <2>2 DEF AnalyticsIInv, PurgeInv, Others_Alone
<1>7. InsertInv'
  <2>1. /\ Argument(s).op = "record" /\ Argument(s).cycle \in Recordable
        /\ session[s].inserted \in BOOLEAN
    BY <1>1 DEF AnalyticsIInv, InsertInv, At
  <2>2. recorded' = recorded /\ \A t \in Sessions \ {s} : session'[t] = session[t]
    BY <1>3 DEF Others_Alone
  <2> QED BY <1>2, <1>4, <2>1, <2>2 DEF AnalyticsIInv, InsertInv, At, Argument
<1>8. UpsertInv'
  BY SMTT(20), <1>2, <1>3, <1>4 DEF AnalyticsIInv, UpsertInv, Others_Alone, At, Argument
<1>9. ApartInv'
  BY <1>2, <1>3, <1>4 DEF AnalyticsIInv, ApartInv, Others_Alone, Argument
<1> QED BY <1>1, <1>5, <1>6, <1>7, <1>8, <1>9, CountStep DEF AnalyticsIInv

\* The id a transaction inserts is new, or one that it purges itself.
LEMMA InsertStep ==
  ASSUME AnalyticsIInv, NEW s \in Sessions, InsertCycle(s)
  PROVE  AnalyticsIInv'
<1> DEFINE c == Argument(s).cycle
           isNew == c \notin recorded \ session[s].purged
<1>1. /\ session[s].pc = "insert" /\ UNCHANGED <<now, recorded, windows, calls>>
      /\ session' = [session EXCEPT ![s].inserted = isNew,
                        ![s].pc = IF isNew THEN "upsert" ELSE "commit"]
  BY DEF InsertCycle, At
<1>a. session = [t \in Sessions |-> session[t]] /\ SessionShape(s)
  BY ShapeOf
<1>2. /\ session'[s].pc = (IF isNew THEN "upsert" ELSE "commit")
      /\ session'[s].inserted = isNew
      /\ session'[s].call = session[s].call /\ session'[s].began = session[s].began
      /\ session'[s].purged = session[s].purged
      /\ session'[s].upserts = session[s].upserts
  <2> HIDE DEF isNew
  <2> QED BY <1>1, <1>a DEF SessionShape
<1>3. Others_Alone(s)
  BY <1>1, <1>a DEF Others_Alone, SessionShape
<1>4. ~session[s].inserted /\ DOMAIN session[s].upserts = {}
  BY <1>1 DEF AnalyticsIInv, InsertInv, UpsertInv, At
<1>5. AnalyticsShape'
  BY <1>2, <1>3, ShapeStep
<1>6. PurgeInv'
  BY <1>2, <1>3 DEF AnalyticsIInv, PurgeInv, Others_Alone
<1>b. recorded' = recorded /\ windows' = windows
      /\ \A t \in Sessions \ {s} : session'[t] = session[t]
  BY <1>3 DEF Others_Alone
<1>7. InsertInv'
  <2>1. Argument(s).op = "record" /\ c \in Recordable
    BY <1>1 DEF AnalyticsIInv, InsertInv, At
  <2>2. isNew \in BOOLEAN
    OBVIOUS
  <2>3. isNew => (c \in recorded => c \in session[s].purged)
    OBVIOUS
  <2> HIDE DEF isNew
  <2> QED BY <1>2, <1>b, <2>1, <2>2, <2>3 DEF AnalyticsIInv, InsertInv, At, Argument
<1>8. UpsertInv'
  <2> HIDE DEF isNew
  <2> QED BY <1>2, <1>4, <1>b DEF AnalyticsIInv, UpsertInv, At, Argument
<1>9. ApartInv'
  <2>1. \A t \in Sessions \ {s} : session[t].inserted => Argument(t).cycle # c
    BY DEF InsertCycle, Others, Open, AnalyticsIInv, InsertInv, At
  <2> HIDE DEF isNew
  <2> QED BY <1>2, <1>4, <1>b, <2>1 DEF AnalyticsIInv, ApartInv, Argument
<1> QED BY <1>1, <1>5, <1>6, <1>7, <1>8, <1>9, CountStep DEF AnalyticsIInv

\* The upsert adds the transaction's cycle to a stored row, which nobody else holds.
LEMMA UpsertStep ==
  ASSUME AnalyticsIInv, NEW s \in Sessions, Upsert(s)
  PROVE  AnalyticsIInv'
<1> DEFINE c == Argument(s).cycle
           rows == session[s].upserts
           todo == WindowKeys(c) \ DOMAIN rows
<1>1. PICK k \in todo :
        /\ \A t \in Others(s) : k \notin DOMAIN session[t].upserts
        /\ session' = [session EXCEPT ![s].upserts = AlsoUpserted(rows, k, c),
                          ![s].pc = IF todo = {k} THEN "commit" ELSE "upsert"]
  BY DEF Upsert
<1>b. session[s].pc = "upsert" /\ UNCHANGED <<now, recorded, windows, calls>>
  BY DEF Upsert, At
<1> DEFINE added == AlsoUpserted(rows, k, c)
<1>a. session = [t \in Sessions |-> session[t]] /\ SessionShape(s)
  BY ShapeOf
<1>2. /\ session'[s].pc = (IF todo = {k} THEN "commit" ELSE "upsert")
      /\ session'[s].upserts = added
      /\ session'[s].call = session[s].call /\ session'[s].began = session[s].began
      /\ session'[s].purged = session[s].purged
      /\ session'[s].inserted = session[s].inserted
  <2> HIDE DEF added, todo
  <2> QED BY <1>1, <1>a DEF SessionShape, added
<1>3. Others_Alone(s)
  BY <1>1, <1>a, <1>b DEF Others_Alone, SessionShape
<1>c. \A t \in Sessions \ {s} : session'[t] = session[t]
  BY <1>3 DEF Others_Alone
<1>4. session[s].inserted /\ c \in Recordable
  BY <1>b DEF AnalyticsIInv, InsertInv, At
<1>d. /\ DOMAIN added = DOMAIN rows \cup {k}
      /\ added[k] = [windows[k] EXCEPT ![c] = @ + 1]
      /\ \A j \in DOMAIN rows : j # k => added[j] = rows[j]
  BY DEF AlsoUpserted
<1> HIDE DEF added
<1>5. AnalyticsShape'
  BY <1>2, <1>3, ShapeStep
<1>6. PurgeInv'
  BY <1>2, <1>3 DEF AnalyticsIInv, PurgeInv, Others_Alone
<1>7. InsertInv'
  <2>1. Argument(s).op = "record" /\ (c \in recorded => c \in session[s].purged)
    BY <1>4 DEF AnalyticsIInv, InsertInv
  <2>2. session'[s].pc \in {"upsert", "commit"}
    BY <1>2
  <2>3. Argument(s)' = Argument(s) /\ recorded' = recorded
    BY <1>2, <1>b DEF Argument
  <2>4. ASSUME NEW t \in Sessions, t # s
        PROVE  session'[t] = session[t] /\ Argument(t)' = Argument(t)
    BY <2>4, <1>c DEF Argument
  <2>5. InsertInv
    BY DEF AnalyticsIInv
  <2> DEFINE Sound(t) ==
        /\ session[t].inserted \in BOOLEAN
        /\ At(t, "purge") \/ At(t, "insert") \/ At(t, "upsert")
              => Argument(t).op = "record" /\ Argument(t).cycle \in Recordable
        /\ session[t].inserted =>
              /\ At(t, "upsert") \/ At(t, "commit")
              /\ Argument(t).op = "record" /\ Argument(t).cycle \in Recordable
              /\ Argument(t).cycle \in recorded => Argument(t).cycle \in session[t].purged
        /\ At(t, "upsert") => session[t].inserted
  <2>6. Sound(s)'
    BY <1>2, <1>4, <2>1, <2>2, <2>3 DEF At
  <2>7. ASSUME NEW t \in Sessions, t # s PROVE Sound(t)'
    BY <2>3, <2>4, <2>5, <2>7 DEF InsertInv, At
  <2> QED BY <2>6, <2>7 DEF InsertInv
<1>8. UpsertInv'
  <2>1. ASSUME NEW j \in DOMAIN session'[s].upserts
        PROVE  /\ session'[s].inserted /\ j \in WindowKeys(c)
               /\ session'[s].upserts[j] = [windows[j] EXCEPT ![c] = @ + 1]
    BY <2>1, <1>2, <1>4, <1>d DEF AnalyticsIInv, UpsertInv
  <2>2. session'[s].pc = "commit" => DOMAIN session'[s].upserts = WindowKeys(c)
    <3>1. DOMAIN rows \subseteq WindowKeys(c)
      BY DEF AnalyticsIInv, UpsertInv
    <3> QED BY <3>1, <1>2, <1>d
  <2>3. session'[s].call = session[s].call
    BY <1>2
  <2> QED BY <2>1, <2>2, <2>3, <1>b, <1>c DEF AnalyticsIInv, UpsertInv, At, Argument
<1>9. ApartInv'
  <2>1. \A t \in Sessions \ {s} : k \notin DOMAIN session[t].upserts
    <3>1. ASSUME NEW t \in Sessions \ {s}, k \in DOMAIN session[t].upserts
          PROVE  t \in Others(s)
      BY <3>1 DEF Others, Open, AnalyticsIInv, InsertInv, UpsertInv, At
    <3> QED BY <3>1, <1>1
  <2> QED BY <1>2, <1>c, <1>d, <2>1 DEF AnalyticsIInv, ApartInv, Argument
<1> QED BY <1>b, <1>5, <1>6, <1>7, <1>8, <1>9, CountStep DEF AnalyticsIInv

-----------------------------------------------------------------------------
(* The end of a transaction, and time                                      *)

\* A session that is closed has nothing left to keep apart.
LEMMA ClosedInv ==
  ASSUME AnalyticsIInv, NEW s \in Sessions, UNCHANGED <<now, calls>>,
         session' = [session EXCEPT ![s] = Closed]
  PROVE  /\ session' = [t \in Sessions |-> session'[t]]
         /\ \A t \in Sessions : SessionShape(t)' /\ session'[t].began \in Nat
                                                 /\ session'[t].began <= now
         /\ \A t \in Sessions \ {s} : session'[t] = session[t]
         /\ session'[s].pc = "idle" /\ session'[s].inserted = FALSE
         /\ session'[s].purged = {} /\ DOMAIN session'[s].upserts = {}
         /\ PurgeInv' /\ ApartInv'
<1>1. /\ session' = [t \in Sessions |-> session'[t]] /\ session'[s] = Closed
      /\ \A t \in Sessions \ {s} : session'[t] = session[t]
  BY ShapeOf
<1>2. /\ session'[s].pc = "idle" /\ session'[s].inserted = FALSE
      /\ session'[s].purged = {} /\ session'[s].began = 0
  BY <1>1 DEF Closed
<1>3. DOMAIN session'[s].upserts = {}
  BY <1>1 DEF Closed
<1>4. SessionShape(s)'
  BY <1>1 DEF Closed, SessionShape
<1>5. \A t \in Sessions : SessionShape(t)' /\ session'[t].began \in Nat
                                           /\ session'[t].began <= now
  BY <1>1, <1>2, <1>4 DEF AnalyticsIInv, AnalyticsShape, SessionShape
<1>6. PurgeInv'
  BY <1>1, <1>2 DEF AnalyticsIInv, PurgeInv
<1>7. ApartInv'
  BY <1>1, <1>2, <1>3 DEF AnalyticsIInv, ApartInv, Argument
<1> QED BY <1>1, <1>2, <1>3, <1>5, <1>6, <1>7

\* Nothing that the proof is about is written.
LEMMA ForgetStep ==
  ASSUME AnalyticsIInv, NEW s \in Sessions,
         UNCHANGED <<now, calls, recorded, windows>>,
         session' = [session EXCEPT ![s] = Closed]
  PROVE  AnalyticsIInv'
<1>1. AnalyticsShape'
  BY ClosedInv DEF AnalyticsIInv, AnalyticsShape
<1>2. InsertInv'
  BY ClosedInv DEF AnalyticsIInv, InsertInv, At, Argument
<1>3. UpsertInv'
  <2>1. /\ \A t \in Sessions \ {s} : session'[t] = session[t]
        /\ session'[s].inserted = FALSE /\ DOMAIN session'[s].upserts = {}
    BY ClosedInv
  <2> QED BY SMTT(20), <2>1 DEF AnalyticsIInv, UpsertInv, At, Argument
<1> QED BY <1>1, <1>2, <1>3, ClosedInv, CountStep DEF AnalyticsIInv

\* The commit of a record makes its purge, its id and its rows visible together.
LEMMA CommitRecordStep ==
  ASSUME AnalyticsIInv, NEW s \in Sessions, At(s, "commit"), Argument(s).op = "record",
         CommitRecord(s), session' = [session EXCEPT ![s] = Closed],
         UNCHANGED <<now, calls>>
  PROVE  AnalyticsIInv'
<1> DEFINE c == Argument(s).cycle
           rows == session[s].upserts
<1>1. /\ recorded' = (recorded \ session[s].purged) \cup
                        (IF session[s].inserted THEN {c} ELSE {})
      /\ windows' = [k \in Keys |-> IF k \in DOMAIN rows THEN rows[k] ELSE windows[k]]
  BY DEF CommitRecord
<1>2. session[s].inserted \in BOOLEAN
  BY DEF AnalyticsIInv, InsertInv
<1>3. session[s].inserted => c \in Recordable /\ DOMAIN rows = WindowKeys(c)
                             /\ (c \in recorded => c \in session[s].purged)
  BY DEF AnalyticsIInv, InsertInv, UpsertInv
<1>4. ~session[s].inserted => DOMAIN rows = {}
  BY DEF AnalyticsIInv, UpsertInv
<1>5. \A k \in DOMAIN rows : rows[k] = [windows[k] EXCEPT ![c] = @ + 1]
  BY DEF AnalyticsIInv, UpsertInv
<1>6. windows \in [Keys -> [CycleIds -> Nat]]
  BY DEF AnalyticsIInv, AnalyticsShape
<1>7. \A d \in Recordable : \A k \in WindowKeys(d) :
        windows'[k][d] = windows[k][d] + (IF session[s].inserted /\ d = c THEN 1 ELSE 0)
  <2> SUFFICES ASSUME NEW d \in Recordable, NEW k \in WindowKeys(d)
               PROVE  windows'[k][d] = windows[k][d] +
                        (IF session[s].inserted /\ d = c THEN 1 ELSE 0)
    OBVIOUS
  <2>1. k \in Keys /\ d \in CycleIds /\ windows[k] \in [CycleIds -> Nat]
    BY <1>6, KeysOf
  <2>2. CASE k \in DOMAIN rows
    <3>1. session[s].inserted /\ windows'[k] = [windows[k] EXCEPT ![c] = @ + 1]
      BY <1>1, <1>2, <1>4, <1>5, <2>1, <2>2
    <3> QED BY <2>1, <3>1
  <2>3. CASE k \notin DOMAIN rows
    <3>1. windows'[k] = windows[k] /\ ~(session[s].inserted /\ d = c)
      BY <1>1, <1>3, <2>1, <2>3
    <3> QED BY <2>1, <3>1
  <2> QED BY <2>2, <2>3
<1>8. windows' \in [Keys -> [CycleIds -> Nat]]
  <2>1. ASSUME NEW k \in Keys
        PROVE  (IF k \in DOMAIN rows THEN rows[k] ELSE windows[k]) \in [CycleIds -> Nat]
    <3>1. CASE k \in DOMAIN rows
      <4>1. c \in CycleIds
        BY <1>2, <1>3, <1>4, <3>1, KeysOf
      <4>2. [windows[k] EXCEPT ![c] = @ + 1] \in [CycleIds -> Nat]
        BY <1>6, <4>1
      <4> QED BY <1>5, <3>1, <4>2
    <3>2. CASE k \notin DOMAIN rows
      BY <1>6, <3>2
    <3> QED BY <3>1, <3>2
  <2> QED BY <1>1, <2>1
<1>9. \A d \in session[s].purged : d \in CycleIds /\ now > Cycles[d].at + Retention
  <2>1. session[s].began <= now /\ session[s].began \in Nat /\ now \in Nat
    BY DEF AnalyticsIInv, AnalyticsShape
  <2> QED BY <2>1, Constants DEF AnalyticsIInv, PurgeInv
<1>10. AnalyticsShape'
  <2>1. recorded' \subseteq CycleIds
    BY <1>1, <1>3, KeysOf DEF AnalyticsIInv, AnalyticsShape
  <2> QED BY <2>1, <1>8, ClosedInv DEF AnalyticsIInv, AnalyticsShape
<1>11. InsertInv'
  <2>1. ASSUME NEW t \in Sessions \ {s}, session[t].inserted,
               Argument(t).cycle \in recorded'
        PROVE  Argument(t).cycle \in session[t].purged
    BY <2>1, <1>1 DEF AnalyticsIInv, InsertInv, ApartInv
  <2> QED BY <2>1, ClosedInv DEF AnalyticsIInv, InsertInv, At, Argument
<1>12. UpsertInv'
  <2>1. ASSUME NEW t \in Sessions \ {s}, NEW k \in DOMAIN session[t].upserts
        PROVE  windows'[k] = windows[k]
    <3>1. k \notin DOMAIN rows
      BY DEF AnalyticsIInv, ApartInv
    <3>2. k \in Keys
      BY KeysOf DEF AnalyticsIInv, UpsertInv, InsertInv
    <3> QED BY <3>1, <3>2, <1>1
  <2>2. /\ \A t \in Sessions \ {s} : session'[t] = session[t]
        /\ session'[s].inserted = FALSE /\ DOMAIN session'[s].upserts = {}
    BY ClosedInv
  <2> QED BY <2>1, <2>2 DEF AnalyticsIInv, UpsertInv, At, Argument
<1>13. CountInv'
  <2> SUFFICES ASSUME NEW d \in Recordable, NEW k \in WindowKeys(d), windows'[k][d] > 0,
                      d \notin recorded'
               PROVE  now > Cycles[d].at + Retention
    BY DEF CountInv
  <2>1. ~(session[s].inserted /\ d = c) /\ (d \in recorded => d \in session[s].purged)
    BY <1>1
  <2>2. windows[k][d] > 0
    BY <2>1, <1>6, <1>7, KeysOf
  <2> QED BY <2>1, <2>2, <1>9 DEF AnalyticsIInv, CountInv
<1>14. CyclesCountedOnce'
  <2> SUFFICES ASSUME NEW d \in Recordable, NEW k \in WindowKeys(d), windows'[k][d] > 1
               PROVE  now > Cycles[d].at + Retention
    BY DEF CyclesCountedOnce
  <2>1. CASE session[s].inserted /\ d = c
    <3>1. windows[k][d] > 0
      BY <2>1, <1>6, <1>7, KeysOf
    <3> QED BY <2>1, <3>1, <1>3, <1>9 DEF AnalyticsIInv, CountInv
  <2>2. CASE ~(session[s].inserted /\ d = c)
    <3>1. windows[k][d] > 1
      BY <2>2, <1>6, <1>7, KeysOf
    <3> QED BY <3>1 DEF AnalyticsIInv, CyclesCountedOnce
  <2> QED BY <2>1, <2>2
<1>15. WindowsAreWhole'
  BY <1>7 DEF AnalyticsIInv, WindowsAreWhole
<1> QED BY <1>10, <1>11, <1>12, <1>13, <1>14, <1>15, ClosedInv DEF AnalyticsIInv

\* A transaction that ends otherwise changes none of what the invariant is about.
LEMMA EndSteps ==
  ASSUME AnalyticsIInv, NEW s \in Sessions, Commit(s) \/ Abort(s)
  PROVE  AnalyticsIInv'
<1>1. CASE Commit(s) /\ Argument(s).op = "record"
  BY <1>1, CommitRecordStep DEF Commit
<1>2. CASE Commit(s) /\ Argument(s).op # "record"
  BY <1>2, ForgetStep DEF Commit, CommitRebuild
<1>3. CASE Abort(s)
  BY <1>3, ForgetStep DEF Abort
<1> QED BY <1>1, <1>2, <1>3

\* Time passes: what was out of the retention stays out.
LEMMA TickStep ==
  ASSUME AnalyticsIInv, Tick
  PROVE  AnalyticsIInv'
<1>1. /\ now \in Nat /\ now' = now + 1 /\ UNCHANGED <<recorded, windows, session, calls>>
  BY DEF Tick, AnalyticsIInv, AnalyticsShape
<1>2. AnalyticsShape'
  BY <1>1 DEF AnalyticsIInv, AnalyticsShape, SessionShape
<1>3. PurgeInv' /\ InsertInv' /\ UpsertInv' /\ ApartInv'
  BY <1>1 DEF AnalyticsIInv, PurgeInv, InsertInv, UpsertInv, ApartInv, At, Argument
<1>4. CountInv' /\ CyclesCountedOnce'
  BY <1>1, KeysOf, Constants DEF AnalyticsIInv, CountInv, CyclesCountedOnce
<1>5. WindowsAreWhole'
  BY <1>1 DEF AnalyticsIInv, WindowsAreWhole
<1> QED BY <1>2, <1>3, <1>4, <1>5 DEF AnalyticsIInv

\* A step of another component leaves the invariant alone.
LEMMA StutterStep ==
  ASSUME AnalyticsIInv, UNCHANGED analyticsVars
  PROVE  AnalyticsIInv'
  BY DEF AnalyticsIInv, AnalyticsShape, SessionShape, PurgeInv, InsertInv, UpsertInv,
         ApartInv, CountInv, CyclesCountedOnce, WindowsAreWhole, At, Argument

-----------------------------------------------------------------------------

\* The invariant is inductive.
LEMMA NextInv == AnalyticsIInv /\ [Next]_vars => AnalyticsIInv'
<1> SUFFICES ASSUME AnalyticsIInv, [Next]_vars PROVE AnalyticsIInv'
  OBVIOUS
<1>1. CASE AnalyticsNext
  <2>1. ASSUME NEW s \in Sessions, NEW call \in DOMAIN calls, Call(s, call)
        PROVE  AnalyticsIInv'
    BY <2>1, CallStep
  <2>2. ASSUME NEW s \in Sessions, Purge(s) \/ InsertCycle(s) \/ Upsert(s)
        PROVE  AnalyticsIInv'
    BY <2>2, PurgeStep, InsertStep, UpsertStep
  <2>3. ASSUME NEW s \in Sessions,
               ClearSnapshot(s) \/ Clear(s) \/ Select(s) \/ Fill(s)
        PROVE  AnalyticsIInv'
    BY <2>3, RebuildSteps
  <2>4. ASSUME NEW s \in Sessions, Commit(s) \/ Abort(s)
        PROVE  AnalyticsIInv'
    BY <2>4, EndSteps
  <2>5. CASE Tick
    BY <2>5, TickStep
  <2> QED BY <1>1, <2>1, <2>2, <2>3, <2>4, <2>5 DEF AnalyticsNext
<1>2. CASE ApiNext
  <2>1. UNCHANGED analyticsVars
    BY <1>2 DEF ApiNext, Read, Fail, Answer, Lookup, Import, ClockTick
  <2> QED BY <2>1, StutterStep
<1>3. CASE UNCHANGED vars
  BY <1>3, StutterStep DEF vars
<1> QED BY <1>1, <1>2, <1>3 DEF Next

\* The inductive invariant of the recording (RouteAnalytics.tla), for every number of
\* sessions and calls and every content of the cycles.
THEOREM AnalyticsInvariant == Spec => []AnalyticsIInv
<1>1. Init => AnalyticsIInv
  BY InitialInv
<1>2. AnalyticsIInv /\ [Next]_vars => AnalyticsIInv'
  BY NextInv
<1> QED BY <1>1, <1>2, PTL DEF Spec

\* However often and by however many sessions a cycle is recorded, and whatever
\* fails, its rows count once until its observed_at has left the retention.
THEOREM CyclesAreCountedOnce == Spec => []CyclesCountedOnce
<1>1. AnalyticsIInv => CyclesCountedOnce
  BY DEF AnalyticsIInv
<1> QED BY <1>1, AnalyticsInvariant, PTL

\* A cycle is counted in all of its windows or in none.
THEOREM RecordsAreWhole == Spec => []WindowsAreWhole
<1>1. AnalyticsIInv => WindowsAreWhole
  BY DEF AnalyticsIInv
<1> QED BY <1>1, AnalyticsInvariant, PTL

-----------------------------------------------------------------------------
(* The rollup of a day                                                     *)

\* The window of a cycle that is about a group.
KeyOf(c, g) ==
    [day |-> ServiceDay(Cycles[c].at), bucket |-> BucketStart(Cycles[c].at), group |-> g]

\* The image of a finite set is finite.
LEMMA ImageIsFinite ==
  ASSUME NEW S, IsFiniteSet(S), NEW f, DOMAIN f = S
  PROVE  IsFiniteSet({f[x] : x \in S})
<1> DEFINE T == {f[x] : x \in S}
<1>1. f = [x \in S |-> f[x]] \/ TRUE
  OBVIOUS
<1> DEFINE g == [x \in S |-> f[x]]
<1>2. g \in Surjection(S, T)
  BY DEF Surjection
<1> QED BY <1>2, FS_Surjection

\* There are finitely many windows.
LEMMA KeysAreFinite == IsFiniteSet(Keys)
<1>1. ASSUME NEW c \in Recordable PROVE IsFiniteSet(WindowKeys(c))
  <2>1. Cycles[c].rows \in Seq(ToSet(Cycles[c].rows))
    BY AnalyticsAssumption DEF Recordable, CycleIds
  <2>2. IsFiniteSet(DOMAIN Cycles[c].rows)
    <3> DEFINE rows == Cycles[c].rows
    <3>1. rows \in Seq(ToSet(rows))
      BY <2>1
    <3> HIDE DEF rows
    <3>2. DOMAIN rows = 1 .. Len(rows) /\ Len(rows) \in Nat
      BY <3>1
    <3>3. IsFiniteSet(DOMAIN rows)
      BY <3>2, FS_Interval
    <3> QED BY <3>3 DEF rows
  <2> DEFINE f == [i \in DOMAIN Cycles[c].rows |-> KeyOf(c, GroupOfRow(Cycles[c].rows[i]))]
  <2>3. WindowKeys(c) = {f[i] : i \in DOMAIN Cycles[c].rows}
    BY DEF WindowKeys, GroupsOf, KeyOf
  <2>4. DOMAIN f = DOMAIN Cycles[c].rows
    OBVIOUS
  <2> HIDE DEF f
  <2> QED BY <2>2, <2>3, <2>4, ImageIsFinite
<1>2. IsFiniteSet(Recordable)
  BY AnalyticsAssumption, FS_Subset DEF Recordable, CycleIds
<1> DEFINE f == [c \in Recordable |-> WindowKeys(c)]
<1>3. IsFiniteSet({f[c] : c \in Recordable})
  <2>1. DOMAIN f = Recordable
    OBVIOUS
  <2> HIDE DEF f
  <2> QED BY <1>2, <2>1, ImageIsFinite
<1>4. Keys = UNION {f[c] : c \in Recordable}
  BY DEF Keys
<1>5. \A T \in {f[c] : c \in Recordable} : IsFiniteSet(T)
  BY <1>1
<1> HIDE DEF f
<1> QED BY <1>3, <1>4, <1>5, FS_UNION

\* One element for each time that one window counts a cycle.
LEMMA OneColumn ==
  ASSUME NEW x, NEW n \in Nat
  PROVE  Cardinality({x} \X (1 .. n)) = n
<1>1. IsFiniteSet(1 .. n) /\ Cardinality(1 .. n) = n
  <2>1. /\ IsFiniteSet(1 .. n)
        /\ Cardinality(1 .. n) = IF 1 > n THEN 0 ELSE n - 1 + 1
    BY FS_Interval
  <2> QED BY <2>1
<1>2. IsFiniteSet({x}) /\ Cardinality({x}) = 1
  BY FS_Singleton
<1>3. Cardinality({x} \X (1 .. n)) = Cardinality({x}) * Cardinality(1 .. n)
  BY <1>1, <1>2, FS_Product
<1>4. Cardinality({x} \X (1 .. n)) = 1 * n
  BY <1>1, <1>2, <1>3
<1> QED BY <1>4

\* In the windows of one group a cycle is counted in its own window only.
LEMMA CountedIs ==
  ASSUME windows \in [Keys -> [CycleIds -> Nat]], AboutInv,
         NEW g, NEW K \in SUBSET Keys, \A k \in K : k.group = g, NEW c \in CycleIds
  PROVE  Counted(K, c) = IF c \in Recordable /\ KeyOf(c, g) \in K
                         THEN windows[KeyOf(c, g)][c] ELSE 0
<1> DEFINE own == KeyOf(c, g)
           all == UNION {{k} \X (1 .. windows[k][c]) : k \in K}
<1>1. \A k \in K : windows[k][c] \in Nat
  OBVIOUS
<1>2. \A k \in K : windows[k][c] > 0 => c \in Recordable /\ k = own
  BY DEF AboutInv, WindowKeys, KeyOf
<1>3. CASE c \in Recordable /\ own \in K
  <2>1. all = {own} \X (1 .. windows[own][c])
    <3>1. \A k \in K \ {own} : {k} \X (1 .. windows[k][c]) = {}
      BY <1>1, <1>2
    <3> QED BY <1>3, <3>1
  <2>2. windows[own][c] \in Nat
    BY <1>1, <1>3
  <2>3. Cardinality({own} \X (1 .. windows[own][c])) = windows[own][c]
    BY <2>2, OneColumn
  <2>4. Counted(K, c) = windows[own][c]
    BY <2>1, <2>3 DEF Counted
  <2> QED BY <1>3, <2>4
<1>4. CASE ~(c \in Recordable /\ own \in K)
  <2>1. all = {}
    <3>1. \A k \in K : {k} \X (1 .. windows[k][c]) = {}
      BY <1>1, <1>2, <1>4
    <3> QED BY <3>1
  <2> QED BY <1>4, <2>1, FS_EmptySet DEF Counted
<1> QED BY <1>3, <1>4

\* How often the windows of a day count a cycle for a group.
CountOf(d, g, c) ==
    IF c \in Recordable /\ KeyOf(c, g) \in StoredOf(d) THEN windows[KeyOf(c, g)][c] ELSE 0
RowFor(d, g) == [group |-> g, counted |-> [c \in CycleIds |-> CountOf(d, g, c)]]

\* A rollup has one row for every group that has a stored window, with its counts.
Typed == windows \in [Keys -> [CycleIds -> Nat]]
IsRolledUp == \A d : RollUp(d) = {RowFor(d, k.group) : k \in StoredOf(d)}

\* The rows of RollUp, in the form the proofs use.
LEMMA RollUpIs == Typed /\ AboutInv => IsRolledUp
<1> SUFFICES ASSUME Typed, AboutInv, NEW d
             PROVE  RollUp(d) = {RowFor(d, k.group) : k \in StoredOf(d)}
  BY DEF IsRolledUp
<1> USE DEF Typed
<1>1. ASSUME NEW k \in StoredOf(d)
      PROVE  [group |-> k.group,
              counted |-> [c \in CycleIds |->
                             Counted({j \in StoredOf(d) : j.group = k.group}, c)]]
             = RowFor(d, k.group)
  <2> DEFINE K == {j \in StoredOf(d) : j.group = k.group}
  <2>1. K \in SUBSET Keys /\ \A j \in K : j.group = k.group
    BY DEF StoredOf
  <2>2. \A c \in CycleIds : KeyOf(c, k.group) \in K <=> KeyOf(c, k.group) \in StoredOf(d)
    BY DEF KeyOf
  <2>3. ASSUME NEW c \in CycleIds PROVE Counted(K, c) = CountOf(d, k.group, c)
    <3> HIDE DEF K
    <3> QED BY <2>1, <2>2, CountedIs DEF CountOf
  <2>4. [c \in CycleIds |-> Counted(K, c)] = [c \in CycleIds |-> CountOf(d, k.group, c)]
    BY <2>3
  <2> QED BY <2>4 DEF RowFor
<1> QED BY <1>1 DEF RollUp

\* The same after a step.
LEMMA RollUpIsThen == (Typed /\ AboutInv => IsRolledUp)'
BY RollUpIs, PTL

\* The row is of the type of the table.
LEMMA RowForType ==
  ASSUME windows \in [Keys -> [CycleIds -> Nat]], NEW d, NEW g
  PROVE  /\ RowFor(d, g).group = g
         /\ RowFor(d, g).counted \in [CycleIds -> Nat]
         /\ \A c \in CycleIds : RowFor(d, g).counted[c] = CountOf(d, g, c)
<1>1. \A c \in CycleIds : CountOf(d, g, c) \in Nat
  BY DEF CountOf, StoredOf
<1> QED BY <1>1 DEF RowFor

\* A rollup of a day is what is in the table some day.
RollsUp == \A d : IsRollup(RollUp(d))

\* A rollup of whole windows is a whole rollup, for every day.
LEMMA RollUpIsRollup == Typed /\ AboutInv /\ WindowsAreWhole => RollsUp
<1> SUFFICES ASSUME Typed, AboutInv, WindowsAreWhole, NEW d
             PROVE  IsRollup(RollUp(d))
  BY DEF RollsUp
<1> USE DEF Typed
<1> DEFINE R == {RowFor(d, k.group) : k \in StoredOf(d)}
<1>1. IsFiniteSet(R)
  <2> DEFINE f == [k \in StoredOf(d) |-> RowFor(d, k.group)]
  <2>1. IsFiniteSet(StoredOf(d))
    BY KeysAreFinite, FS_Subset DEF StoredOf
  <2>2. DOMAIN f = StoredOf(d) /\ R = {f[k] : k \in StoredOf(d)}
    OBVIOUS
  <2> HIDE DEF f, R
  <2> QED BY <2>1, <2>2, ImageIsFinite
<1>2. \A row \in R : /\ row.group \in KnownGroups /\ row.counted \in [CycleIds -> Nat]
                     /\ \A c \in CycleIds \ Recordable : row.counted[c] = 0
  <2>1. \A k \in StoredOf(d) : k.group \in KnownGroups
    BY DEF StoredOf, Keys, WindowKeys, KnownGroups
  <2>2. \A g : \A c \in CycleIds \ Recordable : CountOf(d, g, c) = 0
    BY DEF CountOf
  <2> QED BY <2>1, <2>2, RowForType
<1>3. \A a, b \in R : a.group = b.group => a = b
  BY RowForType
<1>4. ASSUME NEW c \in Recordable PROVE IsWhole(R, c)
  <2> SUFFICES ASSUME NEW a \in R, NEW b \in R,
                      {a.group, b.group} \subseteq GroupsOf(Cycles[c].rows)
               PROVE  a.counted[c] = b.counted[c]
    BY DEF IsWhole
  <2>1. c \in CycleIds
    BY DEF Recordable
  <2>2. \A g \in GroupsOf(Cycles[c].rows) : KeyOf(c, g) \in WindowKeys(c)
    BY DEF KeyOf, WindowKeys
  <2>3. WindowKeys(c) \subseteq Keys
    BY DEF Keys
  <2>4. \A g \in GroupsOf(Cycles[c].rows) : CountOf(d, g, c) =
             IF ServiceDay(Cycles[c].at) = d THEN windows[KeyOf(c, g)][c] ELSE 0
    BY <2>1, <2>2, <2>3 DEF CountOf, StoredOf, IsStored, Never, KeyOf
  <2>5. \A g, h \in GroupsOf(Cycles[c].rows) :
            windows[KeyOf(c, g)][c] = windows[KeyOf(c, h)][c]
    BY <2>2 DEF WindowsAreWhole
  <2>6. a.counted[c] = CountOf(d, a.group, c) /\ b.counted[c] = CountOf(d, b.group, c)
    BY <2>1, RowForType
  <2> QED BY <2>4, <2>5, <2>6
<1> QED BY <1>1, <1>2, <1>3, <1>4, RollUpIs DEF IsRollup, Typed, IsRolledUp

\* The same after a step.
LEMMA RollUpIsRollupThen == (Typed /\ AboutInv /\ WindowsAreWhole => RollsUp)'
BY RollUpIsRollup, PTL

\* Windows that only grow give rollups that only grow.
LEMMA RollUpGrows ==
  ASSUME windows \in [Keys -> [CycleIds -> Nat]], windows' \in [Keys -> [CycleIds -> Nat]],
         AboutInv, AboutInv', NEW d,
         \A k \in Keys : \A c \in CycleIds : windows'[k][c] >= windows[k][c]
  PROVE  Covers(RollUp(d)', RollUp(d))
<1>1. RollUp(d) = {RowFor(d, k.group) : k \in StoredOf(d)}
  BY RollUpIs DEF Typed, IsRolledUp
<1>2. RollUp(d)' = {RowFor(d, k.group)' : k \in StoredOf(d)'}
  BY RollUpIsThen DEF Typed, IsRolledUp
<1>3. StoredOf(d) \subseteq StoredOf(d)'
  <2> SUFFICES ASSUME NEW k \in Keys, windows[k] # Never PROVE windows'[k] # Never
    BY DEF StoredOf, IsStored
  <2>1. PICK c \in CycleIds : windows[k][c] # 0
    BY DEF Never
  <2>2. windows'[k][c] # 0
    BY <2>1
  <2> QED BY <2>2 DEF Never
<1>4. ASSUME NEW g, NEW c \in CycleIds
      PROVE  CountOf(d, g, c)' >= CountOf(d, g, c)
  <2>1. CASE c \in Recordable /\ KeyOf(c, g) \in StoredOf(d)
    BY <1>3, <2>1 DEF CountOf, StoredOf
  <2>2. CASE ~(c \in Recordable /\ KeyOf(c, g) \in StoredOf(d))
    <3>1. CountOf(d, g, c) = 0
      BY <2>2 DEF CountOf
    <3>2. KeyOf(c, g) \in StoredOf(d)' => windows'[KeyOf(c, g)][c] \in Nat
      BY DEF StoredOf
    <3>3. CountOf(d, g, c)' = 0 \/ (CountOf(d, g, c)' = windows'[KeyOf(c, g)][c]
                                     /\ KeyOf(c, g) \in StoredOf(d)')
      BY DEF CountOf, KeyOf
    <3> QED BY <3>1, <3>2, <3>3
  <2> QED BY <2>1, <2>2
<1>5. \A g : /\ RowFor(d, g).group = g /\ RowFor(d, g)'.group = g
             /\ \A c \in CycleIds : RowFor(d, g)'.counted[c] >= RowFor(d, g).counted[c]
  BY <1>4 DEF RowFor
<1>6. ASSUME NEW row \in RollUp(d)
      PROVE  \E other \in RollUp(d)' : /\ other.group = row.group
                                       /\ \A c \in CycleIds : other.counted[c] >= row.counted[c]
  <2>1. PICK k \in StoredOf(d) : row = RowFor(d, k.group)
    BY <1>1
  <2>2. RowFor(d, k.group)' \in RollUp(d)'
    BY <1>2, <1>3
  <2> QED BY <1>5, <2>1, <2>2
<1> QED BY <1>6 DEF Covers

-----------------------------------------------------------------------------
(* Sums                                                                    *)

\* A nonempty set of natural numbers has a least element.
LEMMA LeastExists ==
  ASSUME NEW S \in SUBSET Nat, S # {}
  PROVE  \E x \in S : \A y \in S : x <= y
<1>1. PICK x \in S : \A y \in S : ~(<<y, x>> \in OpToRel(<, Nat))
  BY NatLessThanWellFounded, WFMin
<1>2. \A y \in S : x <= y
  <2> TAKE y \in S
  <2>1. ~(y < x)
    BY <1>1 DEF OpToRel
  <2> QED BY <2>1
<1> QED BY <1>2

\* The sums of the first i numbers, for i up to n.
IsSums(sum, numbers, n) ==
    sum = [i \in 0 .. n |-> IF i = 0 THEN 0 ELSE sum[i - 1] + numbers[i]]

\* The sums exist.
LEMMA SumsExist ==
  ASSUME NEW numbers, NEW N \in Nat
  PROVE  \E sum : IsSums(sum, numbers, N)
<1> DEFINE Bad == {n \in 0 .. N : ~\E sum : IsSums(sum, numbers, n)}
<1>1. SUFFICES ASSUME Bad # {} PROVE FALSE
  OBVIOUS
<1>2. PICK n \in Bad : \A m \in Bad : n <= m
  <2>1. Bad \in SUBSET Nat
    OBVIOUS
  <2> HIDE DEF Bad
  <2> QED BY <1>1, <2>1, LeastExists
<1>3. n \in 0 .. N /\ ~\E sum : IsSums(sum, numbers, n)
  OBVIOUS
<1>4. CASE n = 0
  <2> DEFINE sum == [i \in 0 .. 0 |-> 0]
  <2>1. sum = [i \in 0 .. 0 |-> IF i = 0 THEN 0 ELSE sum[i - 1] + numbers[i]]
    OBVIOUS
  <2> HIDE DEF sum
  <2> QED BY <1>3, <1>4, <2>1 DEF IsSums
<1>5. CASE n # 0
  <2>1. n - 1 \in 0 .. N /\ n - 1 \notin Bad
    BY <1>2, <1>3, <1>5
  <2>2. PICK sum : IsSums(sum, numbers, n - 1)
    BY <2>1
  <2> DEFINE more == [i \in 0 .. n |-> IF i = n THEN sum[n - 1] + numbers[n] ELSE sum[i]]
  <2>3. \A i \in 0 .. n : more[i] = IF i = 0 THEN 0 ELSE more[i - 1] + numbers[i]
    <3> TAKE i \in 0 .. n
    <3>1. CASE i = n
      <4>1. more[n] = sum[n - 1] + numbers[n] /\ more[n - 1] = sum[n - 1]
        BY <1>3, <1>5
      <4> QED BY <1>5, <3>1, <4>1
    <3>2. CASE i # n
      <4>1. i \in 0 .. n - 1 /\ more[i] = sum[i]
        BY <1>3, <3>2
      <4>2. sum[i] = IF i = 0 THEN 0 ELSE sum[i - 1] + numbers[i]
        BY <2>2, <4>1 DEF IsSums
      <4>3. i # 0 => more[i - 1] = sum[i - 1]
        BY <1>3, <4>1
      <4> QED BY <4>1, <4>2, <4>3
    <3> QED BY <3>1, <3>2
  <2>4. IsSums(more, numbers, n)
    BY <2>3 DEF IsSums
  <2> QED BY <1>3, <2>4
<1> QED BY <1>4, <1>5

\* The sum of integers is an integer.
LEMMA SumIsInt ==
  ASSUME NEW numbers \in Seq(Int)
  PROVE  SumOf(numbers) \in Int
<1> DEFINE n == Len(numbers)
           sum == CHOOSE f : f = [i \in 0 .. n |->
                                    IF i = 0 THEN 0 ELSE f[i - 1] + numbers[i]]
<1>0. n \in Nat /\ \A i \in 1 .. n : numbers[i] \in Int
  OBVIOUS
<1>1. \E f : f = [i \in 0 .. n |-> IF i = 0 THEN 0 ELSE f[i - 1] + numbers[i]]
  <2>1. PICK f : IsSums(f, numbers, n)
    BY <1>0, SumsExist
  <2> QED BY <2>1, Zenon DEF IsSums
<1>2. IsSums(sum, numbers, n)
  BY <1>1, Zenon DEF IsSums
<1>3. SumOf(numbers) = sum[n]
  BY Zenon DEF SumOf
<1> HIDE DEF sum
<1> DEFINE Bad == {i \in 0 .. n : sum[i] \notin Int}
<1>4. Bad = {}
  <2> SUFFICES ASSUME Bad # {} PROVE FALSE
    OBVIOUS
  <2>1. PICK i \in Bad : \A j \in Bad : i <= j
    <3>1. Bad \in SUBSET Nat
      BY <1>0
    <3> HIDE DEF Bad
    <3> QED BY <3>1, LeastExists
  <2>2. i \in 0 .. n /\ sum[i] \notin Int
    OBVIOUS
  <2>3. sum[i] = IF i = 0 THEN 0 ELSE sum[i - 1] + numbers[i]
    BY <1>2, <2>2 DEF IsSums
  <2>4. CASE i = 0
    BY <2>2, <2>3, <2>4
  <2>5. CASE i # 0
    <3>1. i - 1 \in 0 .. n /\ ~(i <= i - 1)
      BY <1>0, <2>2, <2>5
    <3>2. sum[i - 1] \in Int
      BY <2>1, <3>1
    <3>3. numbers[i] \in Int
      BY <1>0, <2>2, <2>5
    <3> QED BY <2>2, <2>3, <2>5, <3>2, <3>3
  <2> QED BY <2>4, <2>5
<1>5. n \in 0 .. n
  BY <1>0
<1> QED BY <1>3, <1>4, <1>5

\* A list of the elements of a finite set.
LEMMA SetToSeqType ==
  ASSUME NEW S, IsFiniteSet(S)
  PROVE  SetToSeq(S) \in Seq(S)
<1>1. PICK f : f \in Bijection(1 .. Cardinality(S), S)
  BY FS_CardinalityType DEF ExistsBijection
<1>2. f \in [1 .. Cardinality(S) -> S] /\ IsInjective(f)
  BY <1>1 DEF Bijection, Injection, IsInjective
<1>3. SetToSeq(S) \in [1 .. Cardinality(S) -> S]
  BY <1>2 DEF SetToSeq
<1>4. Cardinality(S) \in Nat
  BY FS_CardinalityType
<1> QED BY <1>3, <1>4

\* The numbers that a row of a cycle has.
Fields == {"samples", "on_time", "delay"}

\* The sums over the rows of a cycle, and over the cycles that a rollup counts.
LEMMA TotalIsInt ==
  ASSUME NEW c \in Recordable, NEW g, NEW field \in Fields
  PROVE  Total(Cycles[c].rows, g, field) \in Int
<1> DEFINE rows == Cycles[c].rows
           number == [i \in DOMAIN rows |-> IF GroupOfRow(rows[i]) = g THEN rows[i][field] ELSE 0]
<1>1. rows \in Seq(ToSet(rows))
  BY AnalyticsAssumption DEF Recordable, CycleIds
<1>2. \A i \in DOMAIN rows : rows[i][field] \in Int
  BY DEF Recordable, RowsAreSound, RowIsSound, Fields
<1>3. number \in Seq(Int)
  <2>1. DOMAIN rows = 1 .. Len(rows) /\ Len(rows) \in Nat
    BY <1>1
  <2>2. number \in [1 .. Len(rows) -> Int]
    BY <1>2, <2>1
  <2> HIDE DEF number
  <2> QED BY <2>1, <2>2
<1> QED BY <1>3, SumIsInt DEF Total

\* The sum of a field over the cycles that a row of a rollup counts is an integer.
LEMMA TotalOfIsInt ==
  ASSUME NEW row, row.counted \in [CycleIds -> Nat],
         \A c \in CycleIds \ Recordable : row.counted[c] = 0, NEW field \in Fields
  PROVE  TotalOf(row, field) \in Int
<1> DEFINE S == {c \in CycleIds : row.counted[c] > 0}
           ids == SetToSeq(S)
           number == [i \in DOMAIN ids |->
                         row.counted[ids[i]] * Total(Cycles[ids[i]].rows, row.group, field)]
<1>1. IsFiniteSet(S)
  BY AnalyticsAssumption, FS_Subset DEF CycleIds
<1>2. ids \in Seq(S)
  <2> HIDE DEF S
  <2> QED BY <1>1, SetToSeqType
<1>3. \A c \in S : c \in Recordable /\ row.counted[c] \in Nat
  OBVIOUS
<1>4. DOMAIN ids = 1 .. Len(ids) /\ Len(ids) \in Nat /\ \A i \in DOMAIN ids : ids[i] \in S
  <2> HIDE DEF ids, S
  <2> QED BY <1>2
<1>5. \A c \in S : row.counted[c] * Total(Cycles[c].rows, row.group, field) \in Int
  <2> TAKE c \in S
  <2> DEFINE total == Total(Cycles[c].rows, row.group, field)
  <2>1. total \in Int
    BY <1>3, TotalIsInt
  <2>2. row.counted[c] \in Int
    BY <1>3
  <2>3. \A x, y \in Int : x * y \in Int
    OBVIOUS
  <2> HIDE DEF total
  <2>4. row.counted[c] * total \in Int
    BY <2>1, <2>2, <2>3
  <2> QED BY <2>4 DEF total
<1>6. number \in [1 .. Len(ids) -> Int]
  <2> HIDE DEF ids, S
  <2> QED BY <1>4, <1>5
<1>7. number \in Seq(Int)
  <2> HIDE DEF number, ids, S
  <2> QED BY <1>4, <1>6
<1>8. TotalOf(row, field) = SumOf(number)
  BY DEF TotalOf
<1> HIDE DEF number
<1> QED BY <1>7, <1>8, SumIsInt

-----------------------------------------------------------------------------
(* The order of a ranking                                                  *)

\* The position of a text in a list that has it.
PlaceOf(text, texts) == CHOOSE i \in DOMAIN texts : texts[i] = text

\* It is a position of the list that has the text.
LEMMA PlaceIs ==
  ASSUME NEW texts, texts \in Seq(ToSet(texts)), NEW text \in ToSet(texts)
  PROVE  PlaceOf(text, texts) \in Int /\ texts[PlaceOf(text, texts)] = text
<1>1. \E i \in DOMAIN texts : texts[i] = text
  BY DEF ToSet
<1>2. PlaceOf(text, texts) \in DOMAIN texts /\ texts[PlaceOf(text, texts)] = text
  BY <1>1 DEF PlaceOf
<1>3. DOMAIN texts \subseteq Int
  BY DEF ToSet
<1> QED BY <1>2, <1>3

\* What a ranking ranks: a group with the numbers of its rollup.
IsNumbered(r) ==
    /\ r.group \in KnownGroups
    /\ r.samples \in Nat \ {0} /\ r.on_time \in Int /\ r.delay \in Int

\* Groups are known by their route and their category, which have places.
LEMMA KnownGroupIs ==
  ASSUME NEW g \in KnownGroups
  PROVE  /\ g = Group(g.route, g.category)
         /\ g.route \in ToSet(Collation) /\ g.category \in ToSet(Categories)
<1>1. PICK c \in Recordable : g \in GroupsOf(Cycles[c].rows)
  BY DEF KnownGroups
<1>2. PICK i \in DOMAIN Cycles[c].rows : g = GroupOfRow(Cycles[c].rows[i])
  BY <1>1 DEF GroupsOf
<1> DEFINE row == Cycles[c].rows[i]
<1>3. g = Group(Strip(row.route), CategoryOf(row))
  BY <1>2 DEF GroupOfRow
<1>4. g.category = CategoryOf(row) /\ g = Group(g.route, g.category)
  BY <1>3 DEF Group
<1>5. CategoryOf(row) \in ToSet(Categories)
  BY DEF Recordable, RowsAreSound, RowIsSound
<1>6. g.route \in ToSet(Collation)
  BY <1>1, AnalyticsAssumption DEF Recordable, CycleIds
<1> QED BY <1>4, <1>5, <1>6

\* Rounding gives integers.
LEMMA RoundedIsInt ==
  ASSUME NEW n \in Int, NEW d \in Nat \ {0}, NEW scale \in Nat
  PROVE  Rounded(n, d, scale) \in Int
<1>1. \A x \in Int : \A y \in Nat \ {0} : x \div y \in Int
  OBVIOUS
<1>2. 2 * d \in Nat \ {0}
  OBVIOUS
<1>3. \A m \in Int : 2 * m * scale + d \in Int
  OBVIOUS
<1>4. \A m \in Int : (2 * m * scale + d) \div (2 * d) \in Int
  BY <1>1, <1>2, <1>3
<1>5. -n \in Int
  OBVIOUS
<1> DEFINE up(m) == (2 * m * scale + d) \div (2 * d)
<1>6. up(n) \in Int /\ up(-n) \in Int
  BY <1>4, <1>5
<1>7. Rounded(n, d, scale) = IF n >= 0 THEN up(n) ELSE -up(-n)
  BY DEF Rounded
<1> HIDE DEF up
<1> QED BY <1>6, <1>7

\* The ratio and the mean delay of a row with samples are integers.
LEMMA NumbersAreInt ==
  ASSUME NEW r, IsNumbered(r)
  PROVE  Ratio(r) \in Int /\ MeanDelay(r) \in Int
<1>1. r.samples \in Nat \ {0} /\ r.on_time \in Int /\ r.delay \in Int
  BY DEF IsNumbered
<1>2. \A scale \in Nat : /\ Rounded(r.on_time, r.samples, scale) \in Int
                          /\ Rounded(r.delay, r.samples, scale) \in Int
  BY <1>1, RoundedIsInt
<1>3. Rounded(r.on_time, r.samples, 1000000) \in Int
  BY SMT, <1>2
<1>4. Rounded(r.delay, r.samples, 100) \in Int
  BY SMT, <1>2
<1>5. Ratio(r) \in Int
  BY SMT, <1>3 DEF Ratio
<1> QED BY <1>4, <1>5 DEF MeanDelay

\* The four parts of a sort key.
LEMMA SortKeyIs ==
  ASSUME NEW r, IsNumbered(r), NEW d \in Directions
  PROVE  /\ SortKey(r, d) \in [1 .. 4 -> Int]
         /\ SortKey(r, d)[1] = (IF d = "most_punctual" THEN -Ratio(r) ELSE Ratio(r))
         /\ SortKey(r, d)[3] = PlaceOf(r.group.route, Collation)
         /\ SortKey(r, d)[4] = PlaceOf(r.group.category, Categories)
<1> DEFINE sign == IF d = "most_punctual" THEN 1 ELSE -1
           a == -sign * Ratio(r)
           b == sign * MeanDelay(r)
           x == PlaceOf(r.group.route, Collation)
           y == PlaceOf(r.group.category, Categories)
<1>1. SortKey(r, d) = <<a, b, x, y>>
  BY DEF SortKey, PlaceOf
<1>2. a \in Int /\ b \in Int /\ a = (IF d = "most_punctual" THEN -Ratio(r) ELSE Ratio(r))
  BY NumbersAreInt
<1>3. Collation \in Seq(ToSet(Collation))
  BY AnalyticsAssumption
<1>4. Categories \in Seq(ToSet(Categories))
  BY DEF Categories, ToSet
<1>5. x \in Int /\ y \in Int
  BY <1>3, <1>4, KnownGroupIs, PlaceIs DEF IsNumbered
<1> HIDE DEF a, b, x, y
<1>6. <<a, b, x, y>> \in [1 .. 4 -> Int]
  BY <1>2, <1>5
<1>7. <<a, b, x, y>>[1] = a /\ <<a, b, x, y>>[3] = x /\ <<a, b, x, y>>[4] = y
  OBVIOUS
<1> QED BY <1>1, <1>2, <1>6, <1>7 DEF x, y

\* The order of keys, written out.
LEMMA LexicographicIs ==
  ASSUME NEW s \in [1 .. 4 -> Int], NEW t \in [1 .. 4 -> Int]
  PROVE  Lexicographic(s, t) <=>
            \/ s[1] < t[1]
            \/ s[1] = t[1] /\ s[2] < t[2]
            \/ s[1] = t[1] /\ s[2] = t[2] /\ s[3] < t[3]
            \/ s[1] = t[1] /\ s[2] = t[2] /\ s[3] = t[3] /\ s[4] < t[4]
<1> DEFINE First(i) == s[i] < t[i] /\ \A j \in 1 .. (i - 1) : s[j] = t[j]
<1>1. Lexicographic(s, t) <=> \E i \in 1 .. 4 : First(i)
  BY DEF Lexicographic
<1>2. (\E i \in 1 .. 4 : First(i)) <=> First(1) \/ First(2) \/ First(3) \/ First(4)
  <2> HIDE DEF First
  <2> QED OBVIOUS
<1>3. First(1) <=> s[1] < t[1]
  OBVIOUS
<1>4. First(2) <=> s[1] = t[1] /\ s[2] < t[2]
  OBVIOUS
<1>5. First(3) <=> s[1] = t[1] /\ s[2] = t[2] /\ s[3] < t[3]
  OBVIOUS
<1>6. First(4) <=> s[1] = t[1] /\ s[2] = t[2] /\ s[3] = t[3] /\ s[4] < t[4]
  OBVIOUS
<1> HIDE DEF First
<1> QED BY <1>1, <1>2, <1>3, <1>4, <1>5, <1>6

\* Who comes before whom in a ranking.
Order(Q, d) ==
    {pair \in Q \X Q : Lexicographic(SortKey(pair[1], d), SortKey(pair[2], d))}

\* A strict total order of a set, and how many of the set come before an element, plus one.
IsStrictOrder(B, Q) ==
    /\ \A r \in Q : <<r, r>> \notin B
    /\ \A p, q, r \in Q : <<p, q>> \in B /\ <<q, r>> \in B => <<p, r>> \in B
    /\ \A p, q \in Q : p = q \/ <<p, q>> \in B \/ <<q, p>> \in B
\* The position of each member: one more than how many come before it.
Positions(Q, B) == [r \in Q |-> 1 + Cardinality({q \in Q : <<q, r>> \in B})]

\* Rollups of different groups are ordered strictly, by ratio first.
LEMMA OrderIsStrict ==
  ASSUME NEW Q, \A r \in Q : IsNumbered(r),
         \A a, b \in Q : a.group = b.group => a = b, NEW d \in Directions
  PROVE  /\ IsStrictOrder(Order(Q, d), Q)
         /\ \A p, q \in Q : <<p, q>> \in Order(Q, d) =>
               SortKey(p, d)[1] <= SortKey(q, d)[1]
<1> DEFINE key(r) == SortKey(r, d)
<1>1. \A r \in Q : key(r) \in [1 .. 4 -> Int]
  BY SortKeyIs
<1>2. \A p, q \in Q : <<p, q>> \in Order(Q, d) <=> Lexicographic(key(p), key(q))
  BY DEF Order
<1>3. ASSUME NEW p \in Q, NEW q \in Q, key(p)[3] = key(q)[3], key(p)[4] = key(q)[4]
      PROVE  p = q
  <2>1. /\ PlaceOf(p.group.route, Collation) = PlaceOf(q.group.route, Collation)
        /\ PlaceOf(p.group.category, Categories) = PlaceOf(q.group.category, Categories)
    BY <1>3, SortKeyIs
  <2>2. Collation \in Seq(ToSet(Collation)) /\ Categories \in Seq(ToSet(Categories))
    BY AnalyticsAssumption DEF Categories, ToSet
  <2>3. p.group \in KnownGroups /\ q.group \in KnownGroups
    BY DEF IsNumbered
  <2>4. p.group.route = q.group.route /\ p.group.category = q.group.category
    BY <2>1, <2>2, <2>3, KnownGroupIs, PlaceIs
  <2>5. p.group = q.group
    BY <2>3, <2>4, KnownGroupIs
  <2> QED BY <2>5
<1> HIDE DEF key
<1>4. \A p, q \in Q : <<p, q>> \in Order(Q, d) <=>
            \/ key(p)[1] < key(q)[1]
            \/ key(p)[1] = key(q)[1] /\ key(p)[2] < key(q)[2]
            \/ key(p)[1] = key(q)[1] /\ key(p)[2] = key(q)[2] /\ key(p)[3] < key(q)[3]
            \/ key(p)[1] = key(q)[1] /\ key(p)[2] = key(q)[2] /\ key(p)[3] = key(q)[3]
               /\ key(p)[4] < key(q)[4]
  <2> TAKE p \in Q, q \in Q
  <2>1. key(p) \in [1 .. 4 -> Int] /\ key(q) \in [1 .. 4 -> Int]
    BY <1>1
  <2>2. <<p, q>> \in Order(Q, d) <=> Lexicographic(key(p), key(q))
    BY <1>2
  <2> QED BY <2>1, <2>2, LexicographicIs
<1>5. \A r \in Q : \A i \in 1 .. 4 : key(r)[i] \in Int
  BY <1>1
<1>a. \A r \in Q : /\ key(r)[1] \in Int /\ key(r)[2] \in Int
                   /\ key(r)[3] \in Int /\ key(r)[4] \in Int
  BY <1>5
<1>6. \A r \in Q : <<r, r>> \notin Order(Q, d)
  BY <1>4, <1>a
<1>7. ASSUME NEW p \in Q, NEW q \in Q, NEW r \in Q,
             <<p, q>> \in Order(Q, d), <<q, r>> \in Order(Q, d)
      PROVE  <<p, r>> \in Order(Q, d)
  BY <1>4, <1>a, <1>7
<1>8. ASSUME NEW p \in Q, NEW q \in Q, p # q
      PROVE  <<p, q>> \in Order(Q, d) \/ <<q, p>> \in Order(Q, d)
  <2>1. key(p)[3] # key(q)[3] \/ key(p)[4] # key(q)[4]
    BY <1>3, <1>8
  <2> QED BY <1>4, <1>a, <2>1
<1>9. \A p, q \in Q : <<p, q>> \in Order(Q, d) => key(p)[1] <= key(q)[1]
  BY <1>4, <1>a
<1> QED BY <1>6, <1>7, <1>8, <1>9 DEF key, IsStrictOrder

\* How many of a finite set come before an element under a strict total order gives
\* each its own position, from 1 to the size of the set, in that order.
LEMMA PositionsAre ==
  ASSUME NEW Q, IsFiniteSet(Q), NEW B, IsStrictOrder(B, Q)
  PROVE  /\ Positions(Q, B) \in [Q -> 1 .. Cardinality(Q)]
         /\ \A p, q \in Q : <<p, q>> \in B <=> Positions(Q, B)[p] < Positions(Q, B)[q]
         /\ \A place \in 1 .. Cardinality(Q) : \E r \in Q : Positions(Q, B)[r] = place
<1> DEFINE pos == Positions(Q, B)
<1>p. pos = [r \in Q |-> 1 + Cardinality({q \in Q : <<q, r>> \in B})]
  BY DEF Positions
<1>o. /\ \A r \in Q : <<r, r>> \notin B
      /\ \A p, q, r \in Q : <<p, q>> \in B /\ <<q, r>> \in B => <<p, r>> \in B
      /\ \A p, q \in Q : p = q \/ <<p, q>> \in B \/ <<q, p>> \in B
  BY DEF IsStrictOrder
<1> USE <1>p, <1>o
<1> HIDE DEF pos
<1> DEFINE Preds(r) == {q \in Q : <<q, r>> \in B}
           size == Cardinality(Q)
<1>0. size \in Nat
  BY FS_CardinalityType
<1>1. \A r \in Q : IsFiniteSet(Preds(r)) /\ Cardinality(Preds(r)) \in Nat
  BY FS_Subset, FS_CardinalityType
<1>2. \A r \in Q : pos[r] = 1 + Cardinality(Preds(r))
  OBVIOUS
<1>3. ASSUME NEW r \in Q PROVE Cardinality(Preds(r)) < size
  <2>1. Preds(r) \in SUBSET (Q \ {r})
    OBVIOUS
  <2>2. IsFiniteSet(Q \ {r}) /\ Cardinality(Q \ {r}) = size - 1
    <3>1. Cardinality(Q \ {r}) = IF r \in Q THEN Cardinality(Q) - 1 ELSE Cardinality(Q)
      BY FS_RemoveElement
    <3>2. IsFiniteSet(Q \ {r})
      BY FS_RemoveElement
    <3> QED BY <3>1, <3>2
  <2>3. Cardinality(Preds(r)) <= Cardinality(Q \ {r})
    <3> HIDE DEF Preds
    <3> QED BY <2>1, <2>2, FS_Subset
  <2>4. Cardinality(Preds(r)) \in Nat
    BY <1>1
  <2> HIDE DEF Preds
  <2> QED BY <1>0, <2>2, <2>3, <2>4
<1>4. ASSUME NEW p \in Q, NEW q \in Q, <<p, q>> \in B
      PROVE  Cardinality(Preds(p)) < Cardinality(Preds(q))
  <2>1. Preds(p) \cup {p} \in SUBSET Preds(q) /\ p \notin Preds(p)
    BY <1>4
  <2>2. IsFiniteSet(Preds(p)) /\ IsFiniteSet(Preds(q))
        /\ Cardinality(Preds(p)) \in Nat /\ Cardinality(Preds(q)) \in Nat
    BY <1>1
  <2> HIDE DEF Preds
  <2>3. Cardinality(Preds(p) \cup {p}) =
            IF p \in Preds(p) THEN Cardinality(Preds(p)) ELSE Cardinality(Preds(p)) + 1
    BY <2>2, FS_AddElement
  <2>4. Cardinality(Preds(p) \cup {p}) <= Cardinality(Preds(q))
    BY <2>1, <2>2, FS_Subset
  <2> QED BY <2>1, <2>2, <2>3, <2>4
<1> HIDE DEF Preds
<1>5. pos \in [Q -> 1 .. size]
  <2>1. \A r \in Q : pos[r] \in 1 .. size
    BY <1>0, <1>1, <1>2, <1>3
  <2>2. pos = [r \in Q |-> pos[r]]
    OBVIOUS
  <2> QED BY <2>1, <2>2
<1>a. \A p, q \in Q : <<p, q>> \in B => pos[p] < pos[q]
  BY <1>1, <1>2, <1>4
<1>b. \A p, q \in Q : pos[p] < pos[q] => <<p, q>> \in B
  <2> SUFFICES ASSUME NEW p \in Q, NEW q \in Q, pos[p] < pos[q], <<p, q>> \notin B
               PROVE  FALSE
    OBVIOUS
  <2>1. pos[p] \in Int /\ pos[q] \in Int
    BY <1>1, <1>2
  <2>2. p # q /\ ~(pos[q] < pos[p])
    BY <2>1
  <2> QED BY <1>a, <2>2
<1>6. pos \in Injection(Q, 1 .. size)
  <2>1. \A p, q \in Q : pos[p] = pos[q] => p = q
    <3> TAKE p \in Q, q \in Q
    <3>1. pos[p] \in Int /\ pos[q] \in Int
      BY <1>1, <1>2
    <3>2. pos[p] = pos[q] => ~(pos[p] < pos[q]) /\ ~(pos[q] < pos[p])
      BY <3>1
    <3> QED BY <1>a, <3>2
  <2> QED BY <1>5, <2>1 DEF Injection, IsInjective
<1>7. IsFiniteSet(1 .. size) /\ Cardinality(1 .. size) = size
  <2>1. /\ IsFiniteSet(1 .. size)
        /\ Cardinality(1 .. size) = IF 1 > size THEN 0 ELSE size - 1 + 1
    BY <1>0, FS_Interval
  <2> QED BY <1>0, <2>1
<1>8. pos \in Surjection(Q, 1 .. size)
  BY <1>6, <1>7, FS_Injection
<1>9. \A place \in 1 .. size : \E r \in Q : pos[r] = place
  BY <1>8 DEF Surjection
<1> QED BY <1>5, <1>9, <1>a, <1>b DEF pos

-----------------------------------------------------------------------------
(* The ranking of a day                                                    *)

\* The position of a group among those that qualify, and the row that says it.
PositionIn(Q, d) == Positions(Q, Order(Q, d))
\* The row of the ranking for a group, and the rows of one direction.
Line(Q, r, d) ==
    [direction |-> d, position |-> PositionIn(Q, d)[r], group |-> r.group,
     samples |-> r.samples, ratio |-> Ratio(r), mean |-> MeanDelay(r)]
Lines(Q, limit, d) == {Line(Q, r, d) : r \in {q \in Q : PositionIn(Q, d)[q] <= limit}}

\* Finitely many rows with samples, one for each group.
IsQualified(Q) ==
    /\ IsFiniteSet(Q) /\ \A r \in Q : IsNumbered(r)
    /\ \A a, b \in Q : a.group = b.group => a = b

\* The rows with enough samples.
Qualified(R, min) == {r \in R : r.samples >= min}

\* The ranking is the rows of its directions.
LEMMA RankedIs ==
  ASSUME NEW R, NEW min, NEW limit
  PROVE  Ranked(R, min, limit) =
            UNION {Lines(Qualified(R, min), limit, d) : d \in Directions}
<1> DEFINE Q == Qualified(R, min)
           Place(r, d) == 1 + Cardinality({q \in Q : Lexicographic(SortKey(q, d), SortKey(r, d))})
           Row(r, d) == [direction |-> d, position |-> Place(r, d), group |-> r.group,
                         samples |-> r.samples, ratio |-> Ratio(r), mean |-> MeanDelay(r)]
<1>1. ASSUME NEW d, NEW r \in Q PROVE Place(r, d) = PositionIn(Q, d)[r]
  <2>1. {q \in Q : Lexicographic(SortKey(q, d), SortKey(r, d))}
        = {q \in Q : <<q, r>> \in Order(Q, d)}
    BY DEF Order
  <2> QED BY <2>1 DEF PositionIn, Positions
<1>2. Ranked(R, min, limit) =
        UNION {{Row(r, d) : r \in {q \in Q : Place(q, d) <= limit}} : d \in Directions}
  BY DEF Ranked, Qualified
<1> HIDE DEF Q
<1>3. ASSUME NEW d
      PROVE {Row(r, d) : r \in {q \in Q : Place(q, d) <= limit}} = Lines(Q, limit, d)
  <2>1. {q \in Q : Place(q, d) <= limit} = {q \in Q : PositionIn(Q, d)[q] <= limit}
    <3> HIDE DEF Place
    <3> QED BY <1>1
  <2>2. \A r \in Q : Row(r, d) = Line(Q, r, d)
    <3> HIDE DEF Place
    <3> QED BY <1>1 DEF Line
  <2> HIDE DEF Place, Row
  <2> QED BY <2>1, <2>2 DEF Lines
<1> HIDE DEF Place, Row
<1> QED BY <1>2, <1>3 DEF Q

\* The lines of one direction.
LEMMA LinesAre ==
  ASSUME NEW Q, NEW limit, NEW d \in Directions
  PROVE  {x \in UNION {Lines(Q, limit, e) : e \in Directions} : x.direction = d}
         = Lines(Q, limit, d)
<1>1. \A e : \A x \in Lines(Q, limit, e) : x.direction = e
  BY DEF Lines, Line
<1> QED BY <1>1

\* Places are given in the order of the ranking.
LEMMA PlacesAre ==
  ASSUME NEW Q, IsQualified(Q), NEW d \in Directions
  PROVE  /\ PositionIn(Q, d) \in [Q -> 1 .. Cardinality(Q)]
         /\ \A p, q \in Q : PositionIn(Q, d)[p] < PositionIn(Q, d)[q] =>
                SortKey(p, d)[1] <= SortKey(q, d)[1]
         /\ \A p, q \in Q : PositionIn(Q, d)[p] = PositionIn(Q, d)[q] => p = q
         /\ \A n \in 1 .. Cardinality(Q) : \E r \in Q : PositionIn(Q, d)[r] = n
<1> DEFINE B == Order(Q, d)
           pos == PositionIn(Q, d)
<1>1. /\ IsFiniteSet(Q)
      /\ \A r \in Q : IsNumbered(r)
      /\ \A a, b \in Q : a.group = b.group => a = b
  BY DEF IsQualified
<1>2. /\ IsStrictOrder(B, Q)
      /\ \A p, q \in Q : <<p, q>> \in B => SortKey(p, d)[1] <= SortKey(q, d)[1]
  BY <1>1, OrderIsStrict
<1>3. pos = Positions(Q, B)
  BY DEF PositionIn
<1> HIDE DEF B, pos
<1>4. /\ pos \in [Q -> 1 .. Cardinality(Q)]
      /\ \A p, q \in Q : <<p, q>> \in B <=> pos[p] < pos[q]
      /\ \A place \in 1 .. Cardinality(Q) : \E r \in Q : pos[r] = place
  BY <1>1, <1>2, <1>3, PositionsAre
<1>5. \A p, q \in Q : pos[p] = pos[q] => p = q
  <2> TAKE p \in Q, q \in Q
  <2>1. pos[p] \in Int /\ pos[q] \in Int
    BY <1>4
  <2>2. pos[p] = pos[q] => <<p, q>> \notin B /\ <<q, p>> \notin B
    BY <1>4, <2>1
  <2> QED BY <1>2, <2>2 DEF IsStrictOrder
<1>6. \A p, q \in Q : pos[p] < pos[q] => SortKey(p, d)[1] <= SortKey(q, d)[1]
  BY <1>2, <1>4
<1> QED BY <1>4, <1>5, <1>6 DEF pos

\* One direction of a ranking has the positions from 1 on, in order.
LEMMA LinesAreConsistent ==
  ASSUME NEW Q, IsQualified(Q), NEW limit \in Nat, NEW d \in Directions
  PROVE  /\ {x.position : x \in Lines(Q, limit, d)} = 1 .. Cardinality(Lines(Q, limit, d))
         /\ \A a, b \in Lines(Q, limit, d) : a.position < b.position =>
               /\ a.group # b.group
               /\ IF d = "most_punctual" THEN a.ratio >= b.ratio ELSE a.ratio <= b.ratio
<1> DEFINE pos == PositionIn(Q, d)
           size == Cardinality(Q)
           L == Lines(Q, limit, d)
           m == IF size <= limit THEN size ELSE limit
<1>0. size \in Nat /\ IsFiniteSet(Q) /\ (\A r \in Q : IsNumbered(r))
      /\ \A a, b \in Q : a.group = b.group => a = b
  BY FS_CardinalityType DEF IsQualified
<1>1. /\ pos \in [Q -> 1 .. size]
      /\ \A p, q \in Q : pos[p] < pos[q] => SortKey(p, d)[1] <= SortKey(q, d)[1]
      /\ \A p, q \in Q : pos[p] = pos[q] => p = q
      /\ \A n \in 1 .. size : \E r \in Q : pos[r] = n
  BY PlacesAre
<1>2. L = {Line(Q, r, d) : r \in {q \in Q : pos[q] <= limit}}
  BY DEF Lines
<1>3. \A r \in Q : /\ Line(Q, r, d).position = pos[r] /\ Line(Q, r, d).group = r.group
                   /\ Line(Q, r, d).ratio = Ratio(r)
  BY DEF Line
<1> HIDE DEF pos, L
<1>4. ASSUME NEW x \in L
      PROVE  \E r \in Q : /\ x = Line(Q, r, d) /\ pos[r] <= limit
                          /\ x.position = pos[r] /\ x.group = r.group /\ x.ratio = Ratio(r)
  BY <1>2, <1>3
<1>5. {x.position : x \in L} = 1 .. m
  <2>1. ASSUME NEW x \in L PROVE x.position \in 1 .. m
    <3>1. PICK r \in Q : pos[r] <= limit /\ x.position = pos[r]
      BY <1>4
    <3>2. pos[r] \in 1 .. size
      BY <1>1
    <3> QED BY <1>0, <3>1, <3>2
  <2>2. ASSUME NEW n \in 1 .. m PROVE \E x \in L : x.position = n
    <3>1. n \in 1 .. size /\ n <= limit
      BY <1>0
    <3>2. PICK r \in Q : pos[r] = n
      BY <1>1, <3>1
    <3>3. Line(Q, r, d) \in L
      BY <1>2, <3>1, <3>2
    <3> QED BY <1>3, <3>2, <3>3
  <2> HIDE DEF m, size
  <2> QED BY <2>1, <2>2
<1>6. Cardinality(L) = m
  <2> DEFINE f == [x \in L |-> x.position]
  <2>1. f \in Injection(L, 1 .. m)
    <3>1. f \in [L -> 1 .. m]
      <4> HIDE DEF m
      <4> QED BY <1>5
    <3>2. ASSUME NEW x \in L, NEW y \in L, x.position = y.position PROVE x = y
      <4>1. PICK p \in Q : x = Line(Q, p, d) /\ x.position = pos[p]
        BY <1>4
      <4>2. PICK q \in Q : y = Line(Q, q, d) /\ y.position = pos[q]
        BY <1>4
      <4>3. p = q
        BY <1>1, <3>2, <4>1, <4>2
      <4> QED BY <4>1, <4>2, <4>3
    <3> QED BY <3>1, <3>2 DEF Injection, IsInjective
  <2>2. f \in Surjection(L, 1 .. m)
    <3> HIDE DEF m
    <3> QED BY <1>5, <2>1 DEF Surjection, Injection
  <2>3. m \in Nat
    BY <1>0
  <2> HIDE DEF f, m
  <2>4. IsFiniteSet(1 .. m) /\ Cardinality(1 .. m) = m
    <3>1. /\ IsFiniteSet(1 .. m)
          /\ Cardinality(1 .. m) = IF 1 > m THEN 0 ELSE m - 1 + 1
      BY <2>3, FS_Interval
    <3> QED BY <2>3, <3>1
  <2>5. Cardinality(L) = Cardinality(1 .. m)
    BY <2>1, <2>2, <2>4, FS_Injection
  <2> QED BY <2>4, <2>5
<1>7. ASSUME NEW a \in L, NEW b \in L, a.position < b.position
      PROVE  /\ a.group # b.group
             /\ IF d = "most_punctual" THEN a.ratio >= b.ratio ELSE a.ratio <= b.ratio
  <2>1. PICK p \in Q : a.position = pos[p] /\ a.group = p.group /\ a.ratio = Ratio(p)
    BY <1>4
  <2>2. PICK q \in Q : b.position = pos[q] /\ b.group = q.group /\ b.ratio = Ratio(q)
    BY <1>4
  <2>3. pos[p] \in Int /\ pos[q] \in Int
    BY <1>1
  <2>4. p # q
    BY <1>7, <2>1, <2>2, <2>3
  <2>5. a.group # b.group
    BY <1>0, <2>1, <2>2, <2>4
  <2>6. SortKey(p, d)[1] <= SortKey(q, d)[1]
    BY <1>1, <1>7, <2>1, <2>2
  <2>7. Ratio(p) \in Int /\ Ratio(q) \in Int
    BY <1>0, NumbersAreInt
  <2>8. /\ SortKey(p, d)[1] = (IF d = "most_punctual" THEN -Ratio(p) ELSE Ratio(p))
        /\ SortKey(q, d)[1] = (IF d = "most_punctual" THEN -Ratio(q) ELSE Ratio(q))
    BY <1>0, SortKeyIs
  <2>9. CASE d = "most_punctual"
    BY <2>1, <2>2, <2>5, <2>6, <2>7, <2>8, <2>9
  <2>10. CASE d # "most_punctual"
    BY <2>1, <2>2, <2>5, <2>6, <2>7, <2>8, <2>10
  <2> QED BY <2>9, <2>10
<1> QED BY <1>5, <1>6, <1>7 DEF L

\* A ranking of rollups is consistent, and has a first place unless it is empty.
LEMMA RankedIsRanking ==
  ASSUME NEW R, IsFiniteSet(R),
         \A r \in R : /\ r.group \in KnownGroups /\ r.samples \in Int
                      /\ r.on_time \in Int /\ r.delay \in Int,
         \A a, b \in R : a.group = b.group => a = b,
         NEW min \in Nat \ {0}, NEW limit \in Nat \ {0}
  PROVE  IsRanking(Ranked(R, min, limit))
<1> DEFINE Q == Qualified(R, min)
           ranked == UNION {Lines(Q, limit, d) : d \in Directions}
<1>1. IsQualified(Q)
  <2> USE DEF Qualified
  <2>1. IsFiniteSet(Q)
    BY FS_Subset
  <2> QED BY <2>1 DEF IsQualified, IsNumbered
<1>2. Ranked(R, min, limit) = ranked
  BY RankedIs
<1> HIDE DEF Q
<1>3. RankingIsConsistent(ranked)
  <2> SUFFICES ASSUME NEW d \in Directions
               PROVE LET lines == {r \in ranked : r.direction = d}
                     IN  /\ {r.position : r \in lines} = 1 .. Cardinality(lines)
                         /\ \A a, b \in lines : a.position < b.position =>
                               /\ a.group # b.group
                               /\ IF d = "most_punctual" THEN a.ratio >= b.ratio
                                                         ELSE a.ratio <= b.ratio
    BY DEF RankingIsConsistent
  <2>1. {r \in ranked : r.direction = d} = Lines(Q, limit, d)
    BY LinesAre
  <2> HIDE DEF ranked
  <2> QED BY <1>1, <2>1, LinesAreConsistent
<1>4. ASSUME ranked # {}
      PROVE  \E r \in ranked : r.direction = "most_punctual" /\ r.position = 1
  <2>1. Q # {}
    BY <1>4 DEF Lines
  <2>2. Cardinality(Q) \in Nat /\ Cardinality(Q) # 0
    BY <1>1, <2>1, FS_CardinalityType, FS_EmptySet DEF IsQualified
  <2>3. "most_punctual" \in Directions
    BY DEF Directions
  <2>4. 1 \in 1 .. Cardinality(Q)
    BY <2>2
  <2>5. PICK r \in Q : PositionIn(Q, "most_punctual")[r] = 1
    BY <1>1, <2>3, <2>4, PlacesAre
  <2>6. Line(Q, r, "most_punctual") \in Lines(Q, limit, "most_punctual")
    BY <2>5 DEF Lines
  <2>7. Line(Q, r, "most_punctual").direction = "most_punctual"
        /\ Line(Q, r, "most_punctual").position = 1
    BY <2>5 DEF Line
  <2>8. Line(Q, r, "most_punctual") \in ranked
    BY <2>3, <2>6
  <2> HIDE DEF ranked
  <2> QED BY <2>7, <2>8
<1> HIDE DEF ranked
<1> QED BY <1>2, <1>3, <1>4 DEF IsRanking

\* What a daily table holds can be ranked.
LEMMA RankingIsRanking ==
  ASSUME NEW d, IsRollup(derived["daily"][d].rows), NEW min \in Int, NEW limit \in Int,
         ~RankingParametersRefused(min, limit)
  PROVE  IsRanking(Ranking(d, min, limit))
<1> DEFINE rows == derived["daily"][d].rows
           Numbers(row) == [group |-> row.group, samples |-> TotalOf(row, "samples"),
                            on_time |-> TotalOf(row, "on_time"),
                            delay |-> TotalOf(row, "delay")]
           R == {Numbers(row) : row \in rows}
<1>1. Ranking(d, min, limit) = Ranked(R, min, limit)
  BY DEF Ranking
<1>2. /\ IsFiniteSet(rows)
      /\ \A row \in rows : /\ row.group \in KnownGroups /\ row.counted \in [CycleIds -> Nat]
                           /\ \A c \in CycleIds \ Recordable : row.counted[c] = 0
      /\ \A a, b \in rows : a.group = b.group => a = b
  BY DEF IsRollup
<1>3. \A row \in rows : Numbers(row).group = row.group
  OBVIOUS
<1>4. ASSUME NEW row \in rows
      PROVE  /\ Numbers(row).samples \in Int /\ Numbers(row).on_time \in Int
             /\ Numbers(row).delay \in Int
  <2>1. \A field \in Fields : TotalOf(row, field) \in Int
    BY <1>2, TotalOfIsInt
  <2>2. {"samples", "on_time", "delay"} \subseteq Fields
    BY DEF Fields
  <2> QED BY <2>1, <2>2
<1>5. IsFiniteSet(R)
  <2> DEFINE f == [row \in rows |-> Numbers(row)]
  <2>1. DOMAIN f = rows /\ R = {f[row] : row \in rows}
    OBVIOUS
  <2> HIDE DEF f, R
  <2> QED BY <1>2, <2>1, ImageIsFinite
<1> HIDE DEF Numbers
<1>6. \A r \in R : /\ r.group \in KnownGroups /\ r.samples \in Int
                   /\ r.on_time \in Int /\ r.delay \in Int
  BY <1>2, <1>3, <1>4
<1>7. \A a, b \in R : a.group = b.group => a = b
  BY <1>2, <1>3
<1>8. min \in Nat \ {0} /\ limit \in Nat \ {0}
  BY DEF RankingParametersRefused
<1> HIDE DEF R
<1> QED BY <1>1, <1>5, <1>6, <1>7, <1>8, RankedIsRanking

-----------------------------------------------------------------------------
(* The tables that refreshes rebuild                                       *)

\* Covering is transitive for what has counts.
LEMMA CoversTransitive ==
  ASSUME NEW X, NEW Y, NEW Z, Covers(X, Y), Covers(Y, Z),
         \A row \in X \cup Y \cup Z : row.counted \in [CycleIds -> Nat]
  PROVE  Covers(X, Z)
<1> SUFFICES ASSUME NEW row \in Z
             PROVE  \E other \in X : /\ other.group = row.group
                                     /\ \A c \in CycleIds : other.counted[c] >= row.counted[c]
  BY DEF Covers
<1>1. PICK mid \in Y : /\ mid.group = row.group
                       /\ \A c \in CycleIds : mid.counted[c] >= row.counted[c]
  BY DEF Covers
<1>2. PICK other \in X : /\ other.group = mid.group
                         /\ \A c \in CycleIds : other.counted[c] >= mid.counted[c]
  BY DEF Covers
<1>3. ASSUME NEW c \in CycleIds PROVE other.counted[c] >= row.counted[c]
  <2>1. /\ other.counted[c] \in Nat /\ mid.counted[c] \in Nat /\ row.counted[c] \in Nat
    OBVIOUS
  <2>2. other.counted[c] >= mid.counted[c] /\ mid.counted[c] >= row.counted[c]
    BY <1>1, <1>2
  <2> QED BY <2>1, <2>2
<1> QED BY <1>1, <1>2, <1>3

\* A rollup covers itself.
LEMMA CoversItself ==
  ASSUME NEW X, IsRollup(X)
  PROVE  Covers(X, X)
<1>1. \A row \in X : row.counted \in [CycleIds -> Nat]
  BY DEF IsRollup
<1>2. \A row \in X : \A c \in CycleIds : row.counted[c] >= row.counted[c]
  BY <1>1
<1> QED BY <1>2 DEF Covers

\* A rollup that covers another has a group in common with it; two rankings have the
\* first place in common.
LEMMA CoversMeets ==
  ASSUME NEW X, NEW Y, Covers(Y, X)
  PROVE  Meet("daily", X, Y) /\ Meet("daily", Y, X)
<1>1. ASSUME X # {} PROVE \E a \in X, b \in Y : a.group = b.group
  BY <1>1 DEF Covers
<1> QED BY <1>1 DEF Meet, SameKey

\* Two rankings that are not empty share the first place of a direction.
LEMMA RankingsMeet ==
  ASSUME NEW X, NEW Y, IsRanking(X), IsRanking(Y)
  PROVE  Meet("ranking", X, Y)
BY DEF Meet, SameKey, IsRanking

\* The rows that are stored, or that a session is about to store, for a day.
Selected(s, table, d) == HasSelected(s) /\ Table(s) = table /\ Argument(s).day = d

\* The row sets of a day, by membership.
LEMMA RowSetIs ==
  \A table, d, X : X \in RowSets(table, d) <=>
      \/ X = derived[table][d].rows
      \/ \E s \in Sessions : Selected(s, table, d) /\ X = session[s].rows
BY DEF RowSets, Selected

\* One table of a day, whose row sets are as before or a new one.
RowsOf(table, d) ==
    /\ table = "daily" => \A X \in RowSets(table, d) : IsRollup(X) /\ Covers(RollUp(d), X)
    /\ table = "ranking" => \A X \in RowSets(table, d) : IsRanking(X)
    /\ \A X, Y \in RowSets(table, d) : Meet(table, X, Y)

\* RowsInv, table by table.
LEMMA RowsInvIs == RowsInv <=> \A table \in Tables : \A d \in Days : RowsOf(table, d)
BY DEF RowsInv, RowsOf, Tables

\* The same after a step.
LEMMA RowsInvIsThen == (RowsInv <=> \A table \in Tables : \A d \in Days : RowsOf(table, d))'
BY RowsInvIs, PTL

\* What holds of a day's row sets holds of fewer, while the windows grow.
LEMMA RowsKept ==
  ASSUME NEW table \in Tables, NEW d \in Days, RowsOf(table, d),
         RowSets(table, d)' \subseteq RowSets(table, d),
         Covers(RollUp(d)', RollUp(d)), RollsUp, RollsUp'
  PROVE  RowsOf(table, d)'
<1>1. ASSUME table = "daily", NEW X \in RowSets(table, d)'
      PROVE  IsRollup(X) /\ Covers(RollUp(d)', X)
  <2>1. IsRollup(X) /\ Covers(RollUp(d), X)
    BY <1>1 DEF RowsOf
  <2>2. IsRollup(RollUp(d)) /\ IsRollup(RollUp(d)')
    BY DEF RollsUp
  <2>3. \A row \in RollUp(d)' \cup RollUp(d) \cup X : row.counted \in [CycleIds -> Nat]
    BY <2>1, <2>2 DEF IsRollup
  <2> QED BY <2>1, <2>3, CoversTransitive
<1>2. \A X \in RowSets(table, d)' : X \in RowSets(table, d)
  OBVIOUS
<1>3. ASSUME table = "ranking", NEW X \in RowSets(table, d)' PROVE IsRanking(X)
  BY <1>2, <1>3 DEF RowsOf
<1>4. \A X, Y \in RowSets(table, d)' : Meet(table, X, Y)
  BY <1>2 DEF RowsOf
<1> QED BY <1>1, <1>3, <1>4 DEF RowsOf

\* What a select adds to the rows of a day.
LEMMA RowsAdded ==
  ASSUME NEW table \in Tables, NEW d \in Days, RowsOf(table, d), NEW new,
         RowSets(table, d)' \subseteq RowSets(table, d) \cup {new},
         RollUp(d)' = RollUp(d), RollsUp,
         table = "daily" => new = RollUp(d), table = "ranking" => IsRanking(new)
  PROVE  RowsOf(table, d)'
<1>1. CASE table = "daily"
  <2>1. IsRollup(new) /\ Covers(RollUp(d), new)
    BY <1>1, CoversItself DEF RollsUp
  <2>2. \A X \in RowSets(table, d)' : IsRollup(X) /\ Covers(RollUp(d), X)
    BY <1>1, <2>1 DEF RowsOf
  <2>3. ASSUME NEW X \in RowSets(table, d)', NEW Y \in RowSets(table, d)'
        PROVE  Meet(table, X, Y)
    <3>1. CASE X = new \/ Y = new
      BY <1>1, <2>2, <3>1, CoversMeets
    <3>2. CASE X # new /\ Y # new
      BY <3>2 DEF RowsOf
    <3> QED BY <3>1, <3>2
  <2> QED BY <1>1, <2>2, <2>3 DEF RowsOf
<1>2. CASE table = "ranking"
  <2>1. \A X \in RowSets(table, d)' : IsRanking(X)
    BY <1>2 DEF RowsOf
  <2>2. \A X, Y \in RowSets(table, d)' : Meet(table, X, Y)
    BY <1>2, <2>1, RankingsMeet
  <2> QED BY <1>2, <2>1, <2>2 DEF RowsOf
<1> QED BY <1>1, <1>2 DEF Tables

\* The invariant about one session, and about two.
RebuildOf(s) ==
    /\ session[s].pc \in {"clear", "clearing", "select", "fill"} \/ session[s].cleared
       \/ session[s].rows # {} =>
          /\ Argument(s).op \in Tables /\ Argument(s) \in DOMAIN calls
          /\ ~Refused(Argument(s))
    /\ session[s].cleared => session[s].pc \in {"select", "fill", "commit"}
    /\ session[s].cleared \in BOOLEAN
    /\ session[s].rows # {} => HasSelected(s)
\* ReplaceInv, of one session and of two.
ReplaceOf(s) ==
    /\ session[s].cleared =>
          /\ Stored(s).rows # {}
          /\ HasSelected(s) /\ Table(s) = "daily" => Covers(session[s].rows, Stored(s).rows)
    /\ Inserts(s) /\ ~session[s].cleared => Stored(s).rows = {}
ApartOf(s, t) ==
    \/ session[s].cleared /\ session[t].cleared
    \/ Inserts(s) /\ Inserts(t)
    => ~Rebuilds(s, t)

\* The invariants, session by session, before and after a step.
LEMMA RebuildInvIs == RebuildInv <=> \A s \in Sessions : RebuildOf(s)
BY DEF RebuildInv, RebuildOf

\* RebuildInv after a step.
LEMMA RebuildInvIsThen == (RebuildInv <=> \A s \in Sessions : RebuildOf(s))'
BY RebuildInvIs, PTL

\* ReplaceInv as statements about one session and about two.
LEMMA ReplaceInvIs ==
  ReplaceInv <=> /\ \A s \in Sessions : ReplaceOf(s)
                 /\ \A s \in Sessions : \A t \in Sessions \ {s} : ApartOf(s, t)
BY DEF ReplaceInv, ReplaceOf, ApartOf

\* The same after a step.
LEMMA ReplaceInvIsThen ==
  (ReplaceInv <=> /\ \A s \in Sessions : ReplaceOf(s)
                  /\ \A s \in Sessions : \A t \in Sessions \ {s} : ApartOf(s, t))'
BY ReplaceInvIs, PTL

\* A rebuild is of a day of the tables.
LEMMA RebuildsADay ==
  ASSUME AnalyticsShape, NEW s \in Sessions, RebuildOf(s),
         session[s].pc \in {"clear", "clearing", "select", "fill"} \/ session[s].cleared
         \/ session[s].rows # {}
  PROVE  /\ Argument(s).op \in Tables /\ Argument(s).day \in Days
         /\ Argument(s).op = "ranking" =>
               /\ Argument(s).min_samples \in Int /\ Argument(s).limit \in Int
               /\ ~RankingParametersRefused(Argument(s).min_samples, Argument(s).limit)
<1>1. /\ Argument(s).op \in Tables /\ Argument(s) \in DOMAIN calls
      /\ ~Refused(Argument(s))
  BY DEF RebuildOf
<1>2. PICK scenario \in CallScenarios : DOMAIN calls = DOMAIN scenario
  BY DEF AnalyticsShape
<1> DEFINE call == Argument(s)
<1>3. call \in DOMAIN scenario /\ call.op \in {"daily", "ranking"}
  BY <1>1, <1>2 DEF Tables
<1> HIDE DEF call
<1>4. /\ \E c \in DOMAIN Cycles : call.day = Cycles[c].at \div Day
      /\ call.op = "ranking" => call.min_samples \in Int /\ call.limit \in Int
  BY <1>3, AnalyticsAssumption
<1>5. call.day \in Days
  BY <1>4 DEF Days, CycleIds, ServiceDay
<1>6. call.op = "ranking" => ~RankingParametersRefused(call.min_samples, call.limit)
  BY <1>1 DEF Refused, call
<1> QED BY <1>1, <1>4, <1>5, <1>6 DEF call

-----------------------------------------------------------------------------
(* Steps of one session                                                    *)

\* The sessions that a step of one session leaves alone.
OthersSame(s) == \A t \in Sessions \ {s} : session'[t] = session[t]

\* What is said of a session that does not move, while the tables stay, stays.
LEMMA FrameOf ==
  ASSUME NEW t, session'[t] = session[t], derived' = derived, DOMAIN calls' = DOMAIN calls
  PROVE  /\ RebuildOf(t)' <=> RebuildOf(t)
         /\ ReplaceOf(t)' <=> ReplaceOf(t)
         /\ Inserts(t)' <=> Inserts(t)
         /\ Argument(t)' = Argument(t)
         /\ \A table, d : Selected(t, table, d)' <=> Selected(t, table, d)
<1>1. Argument(t)' = Argument(t) /\ Table(t)' = Table(t) /\ (HasSelected(t)' <=> HasSelected(t))
      /\ (Inserts(t)' <=> Inserts(t))
  BY DEF Argument, Table, HasSelected, Inserts, At
<1>2. Stored(t)' = Stored(t)
  BY <1>1 DEF Stored
<1>3. RebuildOf(t)' <=> RebuildOf(t)
  BY <1>1 DEF RebuildOf
<1>4. ReplaceOf(t)' <=> ReplaceOf(t)
  BY <1>1, <1>2 DEF ReplaceOf
<1>5. \A table, d : Selected(t, table, d)' <=> Selected(t, table, d)
  BY <1>1 DEF Selected
<1> QED BY <1>1, <1>3, <1>4, <1>5

\* A rollup is made of the windows only.
LEMMA RollUpSame ==
  ASSUME windows' = windows, NEW d
  PROVE  RollUp(d)' = RollUp(d)
<1>1. StoredOf(d)' = StoredOf(d)
  BY DEF StoredOf, IsStored
<1>2. \A K, c : Counted(K, c)' = Counted(K, c)
  BY DEF Counted
<1> QED BY <1>1, <1>2 DEF RollUp

\* What the rollups need of the first invariant.
LEMMA TypedIs == AnalyticsIInv => Typed /\ WindowsAreWhole
BY DEF AnalyticsIInv, AnalyticsShape, Typed

\* The same after a step.
LEMMA TypedIsThen == (AnalyticsIInv => Typed /\ WindowsAreWhole)'
BY TypedIs, PTL

\* The shape of the tables that refreshes rebuild.
DerivedShape ==
    derived = [t \in Tables |-> [d \in Days |->
                  [rows |-> derived[t][d].rows, version |-> derived[t][d].version]]]

\* A step of one session that leaves the tables alone.
LEMMA StepOfOne ==
  ASSUME AnalyticsIInv, AnalyticsIInv', DerivedIInv, NEW s \in Sessions,
         windows' = windows, derived' = derived, DOMAIN calls' = DOMAIN calls, OthersSame(s),
         RebuildOf(s)', ReplaceOf(s)', \A t \in Sessions \ {s} : ApartOf(s, t)',
         \A table \in Tables : \A d \in Days :
            RowsOf(table, d)' \/ RowSets(table, d)' \subseteq RowSets(table, d)
  PROVE  DerivedIInv'
<1>1. DerivedShape'
  BY DEF DerivedIInv, DerivedShape
<1>2. AboutInv'
  BY DEF DerivedIInv, AboutInv
<1>3. RowsInv'
  <2>1. RollsUp /\ RollsUp'
    BY <1>2, TypedIs, TypedIsThen, RollUpIsRollup, RollUpIsRollupThen DEF DerivedIInv
  <2>2. ASSUME NEW table \in Tables, NEW d \in Days,
               RowSets(table, d)' \subseteq RowSets(table, d)
        PROVE  RowsOf(table, d)'
    <3>1. RollUp(d)' = RollUp(d) /\ Covers(RollUp(d), RollUp(d))
      BY <2>1, RollUpSame, CoversItself DEF RollsUp
    <3>2. RowsOf(table, d)
      BY RowsInvIs DEF DerivedIInv
    <3> QED BY <2>1, <2>2, <3>1, <3>2, RowsKept
  <2> QED BY <2>2, RowsInvIsThen
<1>4. RebuildInv'
  <2>1. \A t \in Sessions : RebuildOf(t)
    BY RebuildInvIs DEF DerivedIInv
  <2>2. \A t \in Sessions \ {s} : RebuildOf(t)'
    BY <2>1, FrameOf DEF OthersSame
  <2> QED BY <2>2, RebuildInvIsThen
<1>5. ReplaceInv'
  <2>1. /\ \A t \in Sessions : ReplaceOf(t)
        /\ \A t \in Sessions : \A u \in Sessions \ {t} : ApartOf(t, u)
    BY ReplaceInvIs DEF DerivedIInv
  <2>2. \A t \in Sessions \ {s} : ReplaceOf(t)'
    BY <2>1, FrameOf DEF OthersSame
  <2>3. ASSUME NEW t \in Sessions, NEW u \in Sessions \ {t} PROVE ApartOf(t, u)'
    <3>1. CASE t = s
      BY <3>1
    <3>2. CASE u = s
      <4>1. ApartOf(s, t)'
        BY <3>2
      <4> QED BY <3>2, <4>1 DEF ApartOf, Rebuilds
    <3>3. CASE t # s /\ u # s
      <4>1. session'[t] = session[t] /\ session'[u] = session[u]
        BY <3>3 DEF OthersSame
      <4>2. ApartOf(t, u)
        BY <2>1
      <4> QED BY <4>1, <4>2 DEF ApartOf, Rebuilds, Inserts, At, Table, Argument
    <3> QED BY <3>1, <3>2, <3>3
  <2> QED BY <2>2, <2>3, ReplaceInvIsThen
<1> QED BY <1>1, <1>2, <1>3, <1>4, <1>5 DEF DerivedIInv, DerivedShape

\* The rows of a day are among those of before, if what the session that moves is about
\* to store is.
LEMMA RowSetsOfOthers ==
  ASSUME NEW s \in Sessions, derived' = derived, DOMAIN calls' = DOMAIN calls, OthersSame(s),
         NEW table, NEW d, NEW Z, RowSets(table, d) \subseteq Z,
         Selected(s, table, d)' => session'[s].rows \in Z
  PROVE  RowSets(table, d)' \subseteq Z
<1> SUFFICES ASSUME NEW X \in RowSets(table, d)' PROVE X \in Z
  OBVIOUS
<1>1. \/ X = derived'[table][d].rows
      \/ \E t \in Sessions : Selected(t, table, d)' /\ X = session'[t].rows
  BY DEF RowSets, Selected
<1>2. CASE X = derived'[table][d].rows
  BY <1>2, RowSetIs
<1>3. ASSUME NEW t \in Sessions, Selected(t, table, d)', X = session'[t].rows
      PROVE  X \in Z
  <2>1. CASE t = s
    BY <1>3, <2>1
  <2>2. CASE t # s
    <3>1. Selected(t, table, d) /\ session'[t] = session[t]
      BY <1>3, <2>2, FrameOf DEF OthersSame
    <3> QED BY <1>3, <3>1, RowSetIs
  <2> QED BY <2>1, <2>2
<1> QED BY <1>1, <1>2, <1>3

\* A session that has deleted nothing and has nothing to insert.
LEMMA QuietStep ==
  ASSUME AnalyticsIInv, AnalyticsIInv', DerivedIInv, NEW s \in Sessions,
         windows' = windows, derived' = derived, DOMAIN calls' = DOMAIN calls, OthersSame(s),
         RebuildOf(s)', session'[s].cleared = FALSE, session'[s].rows = {},
         ~HasSelected(s)'
  PROVE  DerivedIInv'
<1>1. ~Inserts(s)'
  BY DEF Inserts
<1>2. ReplaceOf(s)'
  BY <1>1 DEF ReplaceOf
<1>3. \A t \in Sessions \ {s} : ApartOf(s, t)'
  BY <1>1 DEF ApartOf
<1>4. \A table, d : ~Selected(s, table, d)'
  BY DEF Selected
<1>5. \A table, d : RowSets(table, d)' \subseteq RowSets(table, d)
  BY <1>4, RowSetsOfOthers
<1> QED BY <1>2, <1>3, <1>5, StepOfOne

\* What the invariants say of a session that is not rebuilding a table.
LEMMA QuietBefore ==
  ASSUME NEW s \in Sessions, DerivedIInv,
         session[s].pc \in {"purge", "insert", "upsert", "clear", "clearing", "idle", "select"}
  PROVE  /\ RebuildOf(s) /\ session[s].rows = {}
         /\ session[s].pc # "select" => session[s].cleared = FALSE
<1>1. RebuildOf(s)
  BY RebuildInvIs DEF DerivedIInv
<1>2. ~HasSelected(s)
  BY DEF HasSelected
<1> QED BY <1>1, <1>2 DEF RebuildOf

\* The steps before a rebuild reads anything, those of a recording, and an abort.
LEMMA QuietSteps ==
  ASSUME AnalyticsIInv, AnalyticsIInv', DerivedIInv, NEW s \in Sessions,
         \/ \E call \in DOMAIN calls : Call(s, call)
         \/ Purge(s) \/ InsertCycle(s) \/ Upsert(s) \/ ClearSnapshot(s) \/ Abort(s)
  PROVE  DerivedIInv'
<1>a. session = [t \in Sessions |-> session[t]] /\ SessionShape(s)
  BY DEF AnalyticsIInv, AnalyticsShape
<1>b. RebuildOf(s)
  BY RebuildInvIs DEF DerivedIInv
<1>1. ASSUME NEW call \in DOMAIN calls, Call(s, call) PROVE DerivedIInv'
  <2>1. CASE Refused(call)
    <3>1. session' = session /\ derived' = derived /\ windows' = windows
          /\ DOMAIN calls' = DOMAIN calls
      BY <1>1, <2>1 DEF Call
    <3>2. session[s].pc = "idle"
      BY <1>1 DEF Call, Open
    <3>3. session[s].rows = {} /\ session[s].cleared = FALSE
      BY <3>2, QuietBefore
    <3>4. RebuildOf(s)' /\ OthersSame(s)
      BY <1>b, <3>1, FrameOf DEF OthersSame
    <3>5. ~HasSelected(s)'
      BY <3>1, <3>2 DEF HasSelected
    <3> QED BY <3>1, <3>3, <3>4, <3>5, QuietStep
  <2>2. CASE ~Refused(call)
    <3>1. session' = [session EXCEPT ![s].call = call, ![s].began = now,
                         ![s].pc = IF call.op = "record" THEN "purge" ELSE "clear"]
      BY <1>1, <2>2 DEF Call
    <3>2. derived' = derived /\ windows' = windows /\ DOMAIN calls' = DOMAIN calls
      BY <1>1, <2>2 DEF Call
    <3>3. session[s].pc = "idle"
      BY <1>1 DEF Call, Open
    <3>4. session[s].rows = {} /\ session[s].cleared = FALSE
      BY <3>3, QuietBefore
    <3>5. /\ session'[s].call = call /\ session'[s].rows = {} /\ session'[s].cleared = FALSE
          /\ session'[s].pc = (IF call.op = "record" THEN "purge" ELSE "clear")
      BY <1>a, <3>1, <3>4 DEF SessionShape
    <3>6. OthersSame(s)
      BY <1>a, <3>1 DEF OthersSame
    <3>7. ~HasSelected(s)'
      BY <3>5 DEF HasSelected
    <3>8. call.op \in {"record", "daily", "ranking"}
      <4>1. PICK scenario \in CallScenarios : DOMAIN calls = DOMAIN scenario
        BY DEF AnalyticsIInv, AnalyticsShape
      <4> QED BY <4>1, AnalyticsAssumption
    <3>9. RebuildOf(s)'
      BY <2>2, <3>2, <3>5, <3>7, <3>8 DEF RebuildOf, Argument, Tables
    <3> QED BY <3>2, <3>5, <3>6, <3>7, <3>9, QuietStep
  <2> QED BY <2>1, <2>2
<1>2. ASSUME Purge(s) \/ InsertCycle(s) \/ Upsert(s) PROVE DerivedIInv'
  <2>1. session[s].pc \in {"purge", "insert", "upsert"}
    BY <1>2 DEF Purge, InsertCycle, Upsert, At
  <2>2. session[s].rows = {} /\ session[s].cleared = FALSE
    BY <2>1, QuietBefore
  <2>3. Argument(s).op = "record"
    BY <2>1 DEF AnalyticsIInv, InsertInv, At
  <2>4. derived' = derived /\ windows' = windows /\ DOMAIN calls' = DOMAIN calls
    BY <1>2 DEF Purge, InsertCycle, Upsert
  <2>5. /\ OthersSame(s) /\ session'[s].call = session[s].call
        /\ session'[s].rows = session[s].rows /\ session'[s].cleared = session[s].cleared
        /\ session'[s].pc \in {"insert", "upsert", "commit"}
    <3>1. CASE Purge(s)
      <4> DEFINE expired == {c \in recorded : Cycles[c].at < session[s].began - Retention}
      <4>1. session' = [session EXCEPT ![s].purged = expired, ![s].pc = "insert"]
        BY <3>1 DEF Purge
      <4> HIDE DEF expired
      <4> QED BY <1>a, <4>1 DEF OthersSame, SessionShape
    <3>2. CASE InsertCycle(s)
      <4> DEFINE isNew == Argument(s).cycle \notin recorded \ session[s].purged
      <4>1. session' = [session EXCEPT ![s].inserted = isNew,
                            ![s].pc = IF isNew THEN "upsert" ELSE "commit"]
        BY <3>2 DEF InsertCycle
      <4> HIDE DEF isNew
      <4> QED BY <1>a, <4>1 DEF OthersSame, SessionShape
    <3>3. CASE Upsert(s)
      <4> DEFINE todo == WindowKeys(Argument(s).cycle) \ DOMAIN session[s].upserts
      <4>1. PICK k \in todo :
               session' = [session EXCEPT
                     ![s].upserts = AlsoUpserted(session[s].upserts, k, Argument(s).cycle),
                     ![s].pc = IF todo = {k} THEN "commit" ELSE "upsert"]
        BY <3>3 DEF Upsert
      <4> DEFINE added == AlsoUpserted(session[s].upserts, k, Argument(s).cycle)
      <4> HIDE DEF todo, added
      <4>2. session' = [session EXCEPT ![s].upserts = added,
                            ![s].pc = IF todo = {k} THEN "commit" ELSE "upsert"]
        BY <4>1 DEF added
      <4> QED BY <1>a, <4>2 DEF OthersSame, SessionShape
    <3> QED BY <1>2, <3>1, <3>2, <3>3
  <2>6. ~HasSelected(s)'
    BY <2>3, <2>5 DEF HasSelected, Argument, Tables
  <2>7. RebuildOf(s)'
    BY <2>2, <2>5, <2>6 DEF RebuildOf
  <2> QED BY <2>2, <2>4, <2>5, <2>6, <2>7, QuietStep
<1>3. ASSUME ClearSnapshot(s) PROVE DerivedIInv'
  <2>1. session[s].pc = "clear"
    BY <1>3 DEF ClearSnapshot, At
  <2>2. session[s].rows = {} /\ session[s].cleared = FALSE
    BY <2>1, QuietBefore
  <2>3. derived' = derived /\ windows' = windows /\ DOMAIN calls' = DOMAIN calls
    BY <1>3 DEF ClearSnapshot
  <2>4. /\ OthersSame(s) /\ session'[s].call = session[s].call
        /\ session'[s].rows = session[s].rows /\ session'[s].cleared = session[s].cleared
        /\ session'[s].pc = "clearing"
    BY <1>3, <1>a DEF ClearSnapshot, OthersSame, SessionShape
  <2>5. ~HasSelected(s)'
    BY <2>4 DEF HasSelected
  <2>6. RebuildOf(s)'
    BY <1>b, <2>1, <2>2, <2>3, <2>4, <2>5 DEF RebuildOf, Argument
  <2> QED BY <2>2, <2>3, <2>4, <2>5, <2>6, QuietStep
<1>4. ASSUME Abort(s) PROVE DerivedIInv'
  <2>1. derived' = derived /\ windows' = windows /\ DOMAIN calls' = DOMAIN calls
        /\ session' = [session EXCEPT ![s] = Closed]
    BY <1>4 DEF Abort
  <2>2. /\ OthersSame(s) /\ session'[s].pc = "idle"
        /\ session'[s].rows = {} /\ session'[s].cleared = FALSE
    BY <1>a, <2>1 DEF OthersSame, Closed
  <2>3. ~HasSelected(s)' /\ RebuildOf(s)'
    BY <2>2 DEF HasSelected, RebuildOf
  <2> QED BY <2>1, <2>2, <2>3, QuietStep
<1> QED BY <1>1, <1>2, <1>3, <1>4

\* A delete of a day's rows.
LEMMA ClearStep ==
  ASSUME AnalyticsIInv, AnalyticsIInv', DerivedIInv, NEW s \in Sessions, Clear(s)
  PROVE  DerivedIInv'
<1> DEFINE deleted == Stored(s).version = session[s].seen /\ Stored(s).rows # {}
<1>a. session = [t \in Sessions |-> session[t]] /\ SessionShape(s)
  BY DEF AnalyticsIInv, AnalyticsShape
<1>1. session[s].pc = "clearing"
  BY DEF Clear, At
<1>2. RebuildOf(s) /\ session[s].rows = {}
  BY <1>1, QuietBefore
<1>3. derived' = derived /\ windows' = windows /\ DOMAIN calls' = DOMAIN calls
  BY DEF Clear
<1>4. session' = [session EXCEPT ![s].pc = "select", ![s].cleared = deleted]
  BY DEF Clear
<1>b. deleted \in BOOLEAN
  OBVIOUS
<1>5. /\ OthersSame(s) /\ session'[s].call = session[s].call
      /\ session'[s].rows = {} /\ session'[s].cleared = deleted
      /\ session'[s].pc = "select"
  <2> HIDE DEF deleted
  <2> QED BY <1>a, <1>2, <1>4 DEF OthersSame, SessionShape
<1>6. Stored(s)' = Stored(s)
  BY <1>3, <1>5 DEF Stored, Table, Argument
<1>7. ~HasSelected(s)' /\ ~Inserts(s)'
  BY <1>5 DEF HasSelected, Inserts
<1>8. ASSUME NEW t \in Sessions \ {s} PROVE ApartOf(s, t)'
  <2>1. session'[t] = session[t] /\ RebuildOf(t)
    BY <1>5, RebuildInvIs DEF OthersSame, DerivedIInv
  <2> SUFFICES ASSUME deleted, session[t].cleared PROVE ~Rebuilds(s, t)'
    BY <1>5, <1>7, <2>1 DEF ApartOf
  <2>2. t \in Others(s)
    BY <2>1 DEF RebuildOf, Others, Open
  <2>3. ~Rebuilds(t, s)
    BY <2>2 DEF Clear
  <2> QED BY <1>5, <2>1, <2>3 DEF Rebuilds, Table, Argument
<1>9. ReplaceOf(s)'
  BY <1>5, <1>6, <1>7 DEF ReplaceOf
<1>10. RebuildOf(s)'
  <2> HIDE DEF deleted
  <2> QED BY <1>b, <1>1, <1>2, <1>3, <1>5 DEF RebuildOf, Argument
<1>11. \A table, d : RowSets(table, d)' \subseteq RowSets(table, d)
  <2>1. \A table, d : ~Selected(s, table, d)'
    BY <1>7 DEF Selected
  <2> QED BY <1>3, <1>5, <2>1, RowSetsOfOthers
<1> QED BY <1>3, <1>5, <1>8, <1>9, <1>10, <1>11, StepOfOne

\* A select of the rows to insert.
LEMMA SelectStep ==
  ASSUME AnalyticsIInv, AnalyticsIInv', DerivedIInv, NEW s \in Sessions, Select(s)
  PROVE  DerivedIInv'
<1> DEFINE day == Argument(s).day
           table == Table(s)
           new == IF Table(s) = "daily" THEN RollUp(Argument(s).day)
                  ELSE Ranking(Argument(s).day, Argument(s).min_samples, Argument(s).limit)
<1>a. session = [t \in Sessions |-> session[t]] /\ SessionShape(s)
  BY DEF AnalyticsIInv, AnalyticsShape
<1>1. session[s].pc = "select"
  BY DEF Select, At
<1>2. RebuildOf(s) /\ session[s].rows = {}
  BY <1>1, QuietBefore
<1>3. derived' = derived /\ windows' = windows /\ DOMAIN calls' = DOMAIN calls
  BY DEF Select
<1>4. session' = [session EXCEPT ![s].pc = "fill", ![s].rows = new]
  BY DEF Select
<1>5. /\ OthersSame(s) /\ session'[s].call = session[s].call
      /\ session'[s].rows = new /\ session'[s].cleared = session[s].cleared
      /\ session'[s].pc = "fill"
  <2> HIDE DEF new
  <2> QED BY <1>a, <1>4 DEF OthersSame, SessionShape
<1>6. /\ table \in Tables /\ day \in Days
      /\ table = "ranking" =>
            /\ Argument(s).min_samples \in Int /\ Argument(s).limit \in Int
            /\ ~RankingParametersRefused(Argument(s).min_samples, Argument(s).limit)
  BY <1>1, <1>2, RebuildsADay DEF Table, AnalyticsIInv
<1>7. RollsUp
  BY TypedIs, RollUpIsRollup DEF DerivedIInv
<1>8. \A t \in Tables : \A d \in Days : RowsOf(t, d)
  BY RowsInvIs DEF DerivedIInv
<1>9. "daily" \in Tables /\ derived["daily"][day].rows \in RowSets("daily", day)
  BY RowSetIs DEF Tables
<1>10. IsRollup(derived["daily"][day].rows)
  BY <1>6, <1>8, <1>9 DEF RowsOf
<1>11. /\ table = "daily" => new = RollUp(day)
       /\ table = "ranking" => IsRanking(new)
  <2>1. CASE table = "daily"
    BY <2>1
  <2>2. CASE table = "ranking"
    <3>1. new = Ranking(day, Argument(s).min_samples, Argument(s).limit)
      BY <2>2
    <3> HIDE DEF new, day
    <3> QED BY <1>6, <1>10, <2>2, <3>1, RankingIsRanking
  <2> QED BY <1>6, <2>1, <2>2 DEF Tables
<1> HIDE DEF new
<1>12. \A t, d : Selected(s, t, d)' => t = table /\ d = day
  BY <1>5 DEF Selected, Table, Argument
<1>13. ASSUME NEW t \in Tables, NEW d \in Days
       PROVE  RowsOf(t, d)' \/ RowSets(t, d)' \subseteq RowSets(t, d)
  <2>1. CASE t = table /\ d = day
    <3>1. RowSets(t, d)' \subseteq RowSets(t, d) \cup {new}
      <4> DEFINE Z == RowSets(t, d) \cup {new}
      <4>1. RowSets(t, d) \subseteq Z /\ session'[s].rows \in Z
        BY <1>5
      <4> HIDE DEF Z
      <4>2. RowSets(t, d)' \subseteq Z
        BY <1>3, <1>5, <4>1, RowSetsOfOthers
      <4> QED BY <4>2 DEF Z
    <3>2. RollUp(d)' = RollUp(d)
      BY <1>3, RollUpSame
    <3>3. RowsOf(t, d)
      BY <1>8
    <3> HIDE DEF table, day
    <3> QED BY <1>7, <1>11, <2>1, <3>1, <3>2, <3>3, RowsAdded
  <2>2. CASE ~(t = table /\ d = day)
    <3>1. ~Selected(s, t, d)'
      BY <1>12, <2>2
    <3> QED BY <1>3, <1>5, <3>1, RowSetsOfOthers
  <2> QED BY <2>1, <2>2
<1>14. RebuildOf(s)'
  BY <1>1, <1>2, <1>3, <1>5, <1>6 DEF RebuildOf, Argument, HasSelected, Table
<1>15. Stored(s)' = Stored(s) /\ Table(s)' = Table(s) /\ ~Inserts(s)'
  BY <1>3, <1>5 DEF Stored, Table, Argument, Inserts, At
<1>16. ReplaceOf(s)
  BY ReplaceInvIs DEF DerivedIInv
<1>17. ASSUME table = "daily" PROVE Covers(new, Stored(s).rows)
  <2>1. Stored(s).rows \in RowSets("daily", day)
    BY <1>9, <1>17 DEF Stored
  <2>2. RowsOf("daily", day)
    BY <1>6, <1>8, <1>9
  <2> HIDE DEF day
  <2>3. Covers(RollUp(day), Stored(s).rows)
    BY <2>1, <2>2 DEF RowsOf
  <2> QED BY <1>11, <1>17, <2>3
<1>18. ReplaceOf(s)'
  BY <1>5, <1>15, <1>16, <1>17 DEF ReplaceOf
<1>19. ASSUME NEW t \in Sessions \ {s} PROVE ApartOf(s, t)'
  <2>1. session'[t] = session[t] /\ ApartOf(s, t)
    BY <1>5, ReplaceInvIs DEF OthersSame, DerivedIInv
  <2> QED BY <1>5, <1>15, <2>1 DEF ApartOf, Rebuilds, Table, Argument
<1> QED BY <1>3, <1>5, <1>13, <1>14, <1>18, <1>19, StepOfOne

\* An insert of the rows.
LEMMA FillStep ==
  ASSUME AnalyticsIInv, AnalyticsIInv', DerivedIInv, NEW s \in Sessions, Fill(s)
  PROVE  DerivedIInv'
<1> DEFINE day == Argument(s).day
           table == Table(s)
<1>a. session = [t \in Sessions |-> session[t]] /\ SessionShape(s)
  BY DEF AnalyticsIInv, AnalyticsShape
<1>1. session[s].pc = "fill"
  BY DEF Fill, At
<1>2. RebuildOf(s) /\ ReplaceOf(s)
  BY RebuildInvIs, ReplaceInvIs DEF DerivedIInv
<1>3. derived' = derived /\ windows' = windows /\ DOMAIN calls' = DOMAIN calls
  BY DEF Fill
<1>4. session' = [session EXCEPT ![s].pc = "commit"]
  BY DEF Fill
<1>5. /\ OthersSame(s) /\ session'[s].call = session[s].call
      /\ session'[s].rows = session[s].rows /\ session'[s].cleared = session[s].cleared
      /\ session'[s].pc = "commit"
  BY <1>a, <1>4 DEF OthersSame, SessionShape
<1>6. table \in Tables /\ day \in Days
  BY <1>1, <1>2, RebuildsADay DEF Table, AnalyticsIInv
<1>7. RowsOf(table, day)
  BY <1>6, RowsInvIs DEF DerivedIInv
<1>8. /\ HasSelected(s) /\ HasSelected(s)' /\ Table(s)' = Table(s)
      /\ Argument(s)' = Argument(s) /\ Stored(s)' = Stored(s)
  BY <1>1, <1>3, <1>5, <1>6 DEF HasSelected, Table, Argument, Stored
<1>9. Stored(s).rows \in RowSets(table, day) /\ session[s].rows \in RowSets(table, day)
  BY <1>8, RowSetIs DEF Stored, Selected
<1>10. \A X, Y \in RowSets(table, day) :
          X # {} /\ Y # {} => \E a \in X, b \in Y : SameKey(table, a, b)
  BY <1>7 DEF RowsOf, Meet
<1>11. ~session[s].cleared /\ session[s].rows # {} => Stored(s).rows = {}
  BY <1>9, <1>10 DEF Fill, Collides, Kept
<1>12. ReplaceOf(s)'
  BY <1>2, <1>5, <1>8, <1>11 DEF ReplaceOf, Inserts
<1>13. RebuildOf(s)'
  BY <1>1, <1>2, <1>3, <1>5, <1>8 DEF RebuildOf
<1>14. ASSUME NEW t \in Sessions \ {s} PROVE ApartOf(s, t)'
  <2>1. session'[t] = session[t] /\ ApartOf(s, t) /\ RebuildOf(t)
    BY <1>5, ReplaceInvIs, RebuildInvIs DEF OthersSame, DerivedIInv
  <2>2. /\ Rebuilds(s, t)' = Rebuilds(s, t) /\ Inserts(t)' = Inserts(t)
    BY <1>8, <2>1 DEF Rebuilds, Table, Argument, Inserts, At
  <2>3. ASSUME session[s].rows # {}, Inserts(t), Rebuilds(s, t) PROVE FALSE
    <3>1. session[t].pc = "commit" /\ session[t].rows # {} /\ HasSelected(t)
      BY <2>1, <2>3 DEF Inserts, At, RebuildOf
    <3>2. t \in Others(s) /\ Rebuilds(t, s)
      BY <2>3, <3>1 DEF Others, Open, Rebuilds
    <3>3. ~Collides(s, session[t].rows)
      BY <3>1, <3>2 DEF Fill, At
    <3>4. session[t].rows \in RowSets(table, day)
      BY <3>1, <3>2, RowSetIs DEF Selected, Rebuilds
    <3> QED BY <1>9, <1>10, <2>3, <3>1, <3>3, <3>4 DEF Collides
  <2>4. Inserts(s)' => session[s].rows # {}
    BY <1>5 DEF Inserts
  <2> QED BY <1>5, <2>1, <2>2, <2>3, <2>4 DEF ApartOf
<1>15. ASSUME NEW t \in Tables, NEW d \in Days
       PROVE  RowSets(t, d)' \subseteq RowSets(t, d)
  <2>1. Selected(s, t, d)' => Selected(s, t, d)
    BY <1>8 DEF Selected
  <2>2. Selected(s, t, d)' => session'[s].rows \in RowSets(t, d)
    BY <1>5, <2>1, RowSetIs
  <2> QED BY <1>3, <1>5, <2>2, RowSetsOfOthers
<1> QED BY <1>3, <1>5, <1>12, <1>13, <1>14, <1>15, StepOfOne

\* A recording that commits adds to windows: what the tables hold stays covered.
LEMMA CommitRecordDerived ==
  ASSUME AnalyticsIInv, AnalyticsIInv', DerivedIInv, NEW s \in Sessions,
         Commit(s), Argument(s).op = "record"
  PROVE  DerivedIInv'
<1> DEFINE c == Argument(s).cycle
           rows == session[s].upserts
<1>a. session = [t \in Sessions |-> session[t]] /\ SessionShape(s)
  BY DEF AnalyticsIInv, AnalyticsShape
<1>1. /\ session' = [session EXCEPT ![s] = Closed] /\ derived' = derived
      /\ DOMAIN calls' = DOMAIN calls
      /\ windows' = [k \in Keys |-> IF k \in DOMAIN rows THEN rows[k] ELSE windows[k]]
  BY DEF Commit, CommitRecord
<1>2. /\ OthersSame(s) /\ session'[s].pc = "idle"
      /\ session'[s].rows = {} /\ session'[s].cleared = FALSE
  BY <1>a, <1>1 DEF OthersSame, Closed
<1>3. windows \in [Keys -> [CycleIds -> Nat]] /\ windows' \in [Keys -> [CycleIds -> Nat]]
  BY DEF AnalyticsIInv, AnalyticsShape
<1>4. \A k \in DOMAIN rows : /\ session[s].inserted /\ k \in WindowKeys(c)
                             /\ rows[k] = [windows[k] EXCEPT ![c] = @ + 1]
  BY DEF AnalyticsIInv, UpsertInv
<1>5. DOMAIN rows # {} => c \in Recordable
  BY <1>4 DEF AnalyticsIInv, InsertInv
<1>6. ASSUME NEW k \in Keys, NEW e \in CycleIds
      PROVE  /\ windows'[k][e] >= windows[k][e]
             /\ windows'[k][e] # windows[k][e] => e = c /\ k \in DOMAIN rows
  <2>1. windows[k] \in [CycleIds -> Nat] /\ windows[k][e] \in Nat
    BY <1>3
  <2>2. CASE k \in DOMAIN rows
    <3>1. windows'[k] = [windows[k] EXCEPT ![c] = @ + 1]
      BY <1>1, <1>4, <2>2
    <3>2. windows'[k][e] = IF e = c THEN windows[k][e] + 1 ELSE windows[k][e]
      BY <2>1, <3>1
    <3> HIDE DEF rows, c
    <3> QED BY <2>1, <2>2, <3>2
  <2>3. CASE k \notin DOMAIN rows
    <3>1. windows'[k] = windows[k]
      BY <1>1, <2>3
    <3> QED BY <2>1, <3>1
  <2> QED BY <2>2, <2>3
<1>7. AboutInv'
  <2> SUFFICES ASSUME NEW k \in Keys, NEW e \in CycleIds, windows'[k][e] > 0
               PROVE  e \in Recordable /\ k \in WindowKeys(e)
    BY DEF AboutInv
  <2>1. CASE windows'[k][e] = windows[k][e]
    BY <2>1 DEF DerivedIInv, AboutInv
  <2>2. CASE windows'[k][e] # windows[k][e]
    BY <1>4, <1>5, <1>6, <2>2
  <2> QED BY <2>1, <2>2
<1>8. RollsUp /\ RollsUp'
  BY <1>7, TypedIs, TypedIsThen, RollUpIsRollup, RollUpIsRollupThen DEF DerivedIInv
<1>9. \A d : Covers(RollUp(d)', RollUp(d))
  <2>1. AboutInv
    BY DEF DerivedIInv
  <2> QED BY <1>3, <1>6, <1>7, <2>1, RollUpGrows
<1>10. ~HasSelected(s)' /\ RebuildOf(s)' /\ ~Inserts(s)'
  BY <1>2 DEF HasSelected, RebuildOf, Inserts
<1>11. RowsInv'
  <2>1. ASSUME NEW table \in Tables, NEW d \in Days PROVE RowsOf(table, d)'
    <3>1. ~Selected(s, table, d)'
      BY <1>10 DEF Selected
    <3>2. RowSets(table, d)' \subseteq RowSets(table, d)
      BY <1>1, <1>2, <3>1, RowSetsOfOthers
    <3>3. RowsOf(table, d)
      BY RowsInvIs DEF DerivedIInv
    <3> QED BY <1>8, <1>9, <3>2, <3>3, RowsKept
  <2> QED BY <2>1, RowsInvIsThen
<1>12. RebuildInv'
  <2>1. \A t \in Sessions \ {s} : RebuildOf(t)'
    BY <1>1, <1>2, RebuildInvIs, FrameOf DEF OthersSame, DerivedIInv
  <2> QED BY <1>10, <2>1, RebuildInvIsThen
<1>13. ReplaceInv'
  <2>1. /\ \A t \in Sessions : ReplaceOf(t)
        /\ \A t \in Sessions : \A u \in Sessions \ {t} : ApartOf(t, u)
    BY ReplaceInvIs DEF DerivedIInv
  <2>2. \A t \in Sessions \ {s} : ReplaceOf(t)'
    BY <1>1, <1>2, <2>1, FrameOf DEF OthersSame
  <2>3. ReplaceOf(s)'
    BY <1>2, <1>10 DEF ReplaceOf
  <2>4. ASSUME NEW t \in Sessions, NEW u \in Sessions \ {t} PROVE ApartOf(t, u)'
    <3>1. CASE t = s \/ u = s
      BY <1>2, <1>10, <3>1 DEF ApartOf
    <3>2. CASE t # s /\ u # s
      <4>1. session'[t] = session[t] /\ session'[u] = session[u] /\ ApartOf(t, u)
        BY <1>2, <2>1, <3>2 DEF OthersSame
      <4> QED BY <4>1 DEF ApartOf, Rebuilds, Inserts, At, Table, Argument
    <3> QED BY <3>1, <3>2
  <2> QED BY <2>2, <2>3, <2>4, ReplaceInvIsThen
<1>14. DerivedShape'
  BY <1>1 DEF DerivedIInv, DerivedShape
<1> QED BY <1>7, <1>11, <1>12, <1>13, <1>14 DEF DerivedIInv, DerivedShape

\* What a rebuild that commits puts in the table: nothing new, or its own rows, for it
\* has deleted those of before or there were none.
RebuildWrites(s) ==
    /\ session[s].pc = "commit" /\ HasSelected(s)
    /\ Table(s) \in Tables /\ Argument(s).day \in Days
    /\ session[s].cleared \/ (Inserts(s) /\ Stored(s).rows = {})
    /\ derived'[Table(s)][Argument(s).day].rows = session[s].rows
    /\ \A table \in Tables : \A d \in Days : table # Table(s) \/ d # Argument(s).day =>
          derived'[table][d] = derived[table][d]

\* A rebuild that commits leaves the tables alone or writes its rows; it closes its
\* session and touches nothing else.
LEMMA CommitRebuildDoes ==
  ASSUME AnalyticsIInv, DerivedIInv, NEW s \in Sessions,
         Commit(s), Argument(s).op # "record"
  PROVE  /\ DerivedShape' /\ windows' = windows /\ DOMAIN calls' = DOMAIN calls
         /\ OthersSame(s) /\ session'[s] = Closed
         /\ derived' = derived \/ RebuildWrites(s)
<1> DEFINE day == Argument(s).day
           table == Table(s)
           writes == session[s].cleared \/ session[s].rows # {}
           old == derived[table][day]
           new == IF writes THEN [rows |-> Kept(s) \cup session[s].rows,
                                  version |-> old.version + 1] ELSE old
<1>a. session = [t \in Sessions |-> session[t]]
  BY DEF AnalyticsIInv, AnalyticsShape
<1>b. session[s].pc = "commit" /\ windows' = windows /\ DOMAIN calls' = DOMAIN calls
  BY DEF Commit, CommitRebuild, At
<1>1. OthersSame(s) /\ session'[s] = Closed
  BY <1>a DEF Commit, OthersSame
<1>2. DerivedShape
  BY DEF DerivedIInv, DerivedShape
<1>3. derived' = [derived EXCEPT ![table] = [derived[table] EXCEPT ![day] = new]]
  BY DEF Commit, CommitRebuild
<1>4. RebuildOf(s) /\ ReplaceOf(s)
  BY RebuildInvIs, ReplaceInvIs DEF DerivedIInv
<1>5. CASE ~writes
  <2>1. new = old
    BY <1>5
  <2> HIDE DEF new
  <2>2. derived' = derived
    BY <1>2, <1>3, <2>1 DEF DerivedShape
  <2> QED BY <1>b, <1>1, <1>2, <2>2 DEF DerivedShape
<1>6. CASE writes
  <2>1. table \in Tables /\ day \in Days
    BY <1>4, <1>6, RebuildsADay DEF AnalyticsIInv, Table
  <2>2. HasSelected(s)
    BY <1>b, <2>1 DEF HasSelected, Table
  <2>3. session[s].cleared \/ (Inserts(s) /\ Stored(s).rows = {})
    <3>a. session[s].cleared \in BOOLEAN
      BY <1>4 DEF RebuildOf
    <3> HIDE DEF writes, old, new, day, table
    <3>1. CASE session[s].cleared = TRUE
      BY <3>1
    <3>2. CASE session[s].cleared = FALSE
      <4>1. session[s].rows # {}
        BY <1>6, <3>2 DEF writes
      <4>2. Inserts(s)
        BY <1>b, <4>1 DEF Inserts, At
      <4>3. Stored(s).rows = {}
        BY <1>4, <3>2, <4>2 DEF ReplaceOf
      <4> QED BY <4>2, <4>3
    <3> QED BY <3>a, <3>1, <3>2
  <2>4. Kept(s) = {}
    BY <2>3 DEF Kept
  <2>5. new = [rows |-> session[s].rows, version |-> old.version + 1]
    BY <1>6, <2>4
  <2> HIDE DEF new, writes, table, day
  <2>6. /\ derived'[table][day] = new
        /\ \A t \in Tables : \A d \in Days : t # table \/ d # day =>
              derived'[t][d] = derived[t][d]
    BY <1>2, <1>3, <2>1 DEF DerivedShape
  <2>7. derived'[table][day].rows = session[s].rows
    BY <2>5, <2>6
  <2>8. RebuildWrites(s)
    BY <1>b, <2>1, <2>2, <2>3, <2>6, <2>7 DEF RebuildWrites, table, day
  <2>9. DerivedShape'
    <3>1. derived' = [t \in Tables |-> [d \in Days |-> derived'[t][d]]]
      BY <1>2, <1>3, <2>1 DEF DerivedShape
    <3>2. ASSUME NEW t \in Tables, NEW d \in Days
          PROVE  derived'[t][d] = [rows |-> derived'[t][d].rows,
                                   version |-> derived'[t][d].version]
      <4>1. CASE t = table /\ d = day
        BY <2>5, <2>6, <4>1
      <4>2. CASE t # table \/ d # day
        <5>1. derived'[t][d] = derived[t][d]
          BY <2>6, <4>2
        <5>2. derived[t][d] = [rows |-> derived[t][d].rows, version |-> derived[t][d].version]
          BY <1>2 DEF DerivedShape
        <5> QED BY <5>1, <5>2
      <4> QED BY <4>1, <4>2
    <3>3. [t \in Tables |-> [d \in Days |-> derived'[t][d]]] =
          [t \in Tables |-> [d \in Days |->
              [rows |-> derived'[t][d].rows, version |-> derived'[t][d].version]]]
      BY <3>2
    <3> QED BY <3>1, <3>3 DEF DerivedShape
  <2> QED BY <1>b, <1>1, <2>8, <2>9
<1> QED BY <1>5, <1>6

\* A rebuild that commits keeps the invariant.
LEMMA CommitRebuildDerived ==
  ASSUME AnalyticsIInv, AnalyticsIInv', DerivedIInv, NEW s \in Sessions,
         Commit(s), Argument(s).op # "record"
  PROVE  DerivedIInv'
<1>1. /\ DerivedShape' /\ windows' = windows /\ DOMAIN calls' = DOMAIN calls
      /\ OthersSame(s) /\ session'[s] = Closed
      /\ derived' = derived \/ RebuildWrites(s)
  BY CommitRebuildDoes
<1>2. session'[s].pc = "idle" /\ session'[s].rows = {} /\ session'[s].cleared = FALSE
  BY <1>1 DEF Closed
<1>3. ~HasSelected(s)' /\ RebuildOf(s)' /\ ~Inserts(s)' /\ ReplaceOf(s)'
  BY <1>2 DEF HasSelected, RebuildOf, Inserts, ReplaceOf
<1>4. CASE derived' = derived
  BY <1>1, <1>2, <1>3, <1>4, QuietStep
<1>5. CASE RebuildWrites(s)
  <2>1. AboutInv'
    BY <1>1 DEF DerivedIInv, AboutInv
  <2>2. RollsUp /\ RollsUp'
    BY <2>1, TypedIs, TypedIsThen, RollUpIsRollup, RollUpIsRollupThen DEF DerivedIInv
  <2>3. ASSUME NEW table \in Tables, NEW d \in Days
        PROVE  RowSets(table, d)' \subseteq RowSets(table, d)
    <3> SUFFICES ASSUME NEW X \in RowSets(table, d)' PROVE X \in RowSets(table, d)
      OBVIOUS
    <3>1. \/ X = derived'[table][d].rows
          \/ \E t \in Sessions : Selected(t, table, d)' /\ X = session'[t].rows
      BY DEF RowSets, Selected
    <3>2. CASE X = derived'[table][d].rows
      <4>1. CASE table = Table(s) /\ d = Argument(s).day
        <5>1. X = session[s].rows /\ Selected(s, table, d)
          BY <1>5, <3>2, <4>1 DEF RebuildWrites, Selected
        <5> QED BY <5>1, RowSetIs
      <4>2. CASE table # Table(s) \/ d # Argument(s).day
        BY <1>5, <3>2, <4>2, RowSetIs DEF RebuildWrites
      <4> QED BY <4>1, <4>2
    <3>3. ASSUME NEW t \in Sessions, Selected(t, table, d)', X = session'[t].rows
          PROVE  X \in RowSets(table, d)
      <4>1. t # s
        BY <1>3, <3>3 DEF Selected
      <4>2. session'[t] = session[t]
        BY <1>1, <4>1 DEF OthersSame
      <4>3. Selected(t, table, d)
        BY <3>3, <4>2 DEF Selected, HasSelected, Table, Argument
      <4> QED BY <3>3, <4>2, <4>3, RowSetIs
    <3> QED BY <3>1, <3>2, <3>3
  <2>4. RowsInv'
    <3>1. ASSUME NEW table \in Tables, NEW d \in Days PROVE RowsOf(table, d)'
      <4>1. RollUp(d)' = RollUp(d) /\ Covers(RollUp(d), RollUp(d))
        BY <1>1, <2>2, RollUpSame, CoversItself DEF RollsUp
      <4>2. RowsOf(table, d)
        BY RowsInvIs DEF DerivedIInv
      <4> QED BY <2>2, <2>3, <4>1, <4>2, RowsKept
    <3> QED BY <3>1, RowsInvIsThen
  <2>5. RebuildInv'
    <3>1. ASSUME NEW t \in Sessions \ {s} PROVE RebuildOf(t)'
      <4>1. session'[t] = session[t] /\ RebuildOf(t)
        BY <1>1, RebuildInvIs DEF OthersSame, DerivedIInv
      <4> QED BY <1>1, <4>1 DEF RebuildOf, Argument, HasSelected
    <3> QED BY <1>3, <3>1, RebuildInvIsThen
  <2>6. ReplaceInv'
    <3>1. /\ \A t \in Sessions : ReplaceOf(t) /\ RebuildOf(t)
          /\ \A t \in Sessions : \A u \in Sessions \ {t} : ApartOf(t, u)
      BY ReplaceInvIs, RebuildInvIs DEF DerivedIInv
    <3>2. ASSUME NEW t \in Sessions \ {s} PROVE ReplaceOf(t)'
      <4>1. session'[t] = session[t] /\ ReplaceOf(t) /\ RebuildOf(t) /\ ApartOf(s, t)
        BY <1>1, <3>1 DEF OthersSame
      <4>2. /\ Table(t)' = Table(t) /\ Argument(t)' = Argument(t) /\ Inserts(t)' = Inserts(t)
            /\ HasSelected(t)' = HasSelected(t)
        BY <4>1 DEF Table, Argument, Inserts, At, HasSelected
      <4>3. CASE ~(session[t].cleared \/ Inserts(t))
        BY <4>1, <4>2, <4>3 DEF ReplaceOf
      <4>4. CASE session[t].cleared \/ Inserts(t)
        <5>1. Table(t) \in Tables /\ Argument(t).day \in Days
          BY <4>1, <4>4, RebuildsADay DEF AnalyticsIInv, Table, Inserts
        <5>2. CASE ~Rebuilds(s, t)
          <6>1. derived'[Table(t)][Argument(t).day] = derived[Table(t)][Argument(t).day]
            BY <1>5, <5>1, <5>2 DEF RebuildWrites, Rebuilds
          <6>2. Stored(t)' = Stored(t)
            BY <4>2, <6>1 DEF Stored
          <6> QED BY <4>1, <4>2, <6>2 DEF ReplaceOf
        <5>3. CASE Rebuilds(s, t)
          <6>1. Stored(t) = Stored(s)
            BY <5>3 DEF Stored, Rebuilds
          <6>2. Stored(t)'.rows = session[s].rows
            BY <1>5, <4>2, <5>3 DEF RebuildWrites, Stored, Rebuilds
          <6>3. ~(session[s].cleared /\ session[t].cleared) /\ ~(Inserts(s) /\ Inserts(t))
            BY <4>1, <5>3 DEF ApartOf
          <6>4. ~session[t].cleared
            <7>1. session[t].cleared => Stored(t).rows # {}
              BY <4>1 DEF ReplaceOf
            <7> QED BY <1>5, <6>1, <6>3, <7>1 DEF RebuildWrites
          <6>5. session[s].rows = {}
            BY <1>5, <4>4, <6>3, <6>4 DEF RebuildWrites, Inserts, At
          <6> QED BY <4>1, <4>2, <6>2, <6>4, <6>5 DEF ReplaceOf
        <5> QED BY <5>2, <5>3
      <4> QED BY <4>3, <4>4
    <3>3. ASSUME NEW t \in Sessions, NEW u \in Sessions \ {t} PROVE ApartOf(t, u)'
      <4>1. CASE t = s \/ u = s
        BY <1>2, <1>3, <4>1 DEF ApartOf
      <4>2. CASE t # s /\ u # s
        <5>1. session'[t] = session[t] /\ session'[u] = session[u] /\ ApartOf(t, u)
          BY <1>1, <3>1, <4>2 DEF OthersSame
        <5> QED BY <5>1 DEF ApartOf, Rebuilds, Inserts, At, Table, Argument
      <4> QED BY <4>1, <4>2
    <3> QED BY <1>3, <3>2, <3>3, ReplaceInvIsThen
  <2> QED BY <1>1, <2>1, <2>4, <2>5, <2>6 DEF DerivedIInv, DerivedShape
<1> QED BY <1>1, <1>4, <1>5

\* Empty tables and idle sessions satisfy the second invariant.
LEMMA DerivedStart == Init => DerivedIInv
<1> SUFFICES ASSUME AnalyticsInit PROVE DerivedIInv
  BY DEF Init
<1>1. \A s \in Sessions : /\ session[s].pc = "idle" /\ session[s].rows = {}
                          /\ session[s].cleared = FALSE
  BY DEF AnalyticsInit, Closed
<1>2. \A t \in Tables : \A d \in Days : derived[t][d] = [rows |-> {}, version |-> 0]
  BY DEF AnalyticsInit
<1>3. DerivedShape
  BY DEF AnalyticsInit, DerivedShape
<1>4. AboutInv
  BY DEF AnalyticsInit, AboutInv, Never
<1>5. RowsInv
  <2>1. \A t \in Tables : \A d \in Days : \A X \in RowSets(t, d) : X = {}
    <3>1. \A s \in Sessions : ~HasSelected(s)
      BY <1>1 DEF HasSelected
    <3>2. ASSUME NEW t \in Tables, NEW d \in Days, NEW X \in RowSets(t, d) PROVE X = {}
      <4>1. derived[t][d].rows = {}
        BY <1>2
      <4> QED BY <3>1, <3>2, <4>1, RowSetIs DEF Selected
    <3> QED BY <3>2
  <2>2. IsRollup({}) /\ IsRanking({})
    <3>1. IsRollup({})
      BY FS_EmptySet DEF IsRollup, IsWhole
    <3>2. RankingIsConsistent({})
      <4>1. \A d : {r \in {} : r.direction = d} = {}
        OBVIOUS
      <4>2. Cardinality({}) = 0 /\ {r.position : r \in {}} = {} /\ 1 .. 0 = {}
        BY FS_EmptySet
      <4> QED BY <4>1, <4>2 DEF RankingIsConsistent
    <3> QED BY <3>1, <3>2 DEF IsRanking
  <2>3. \A X : Covers(X, {})
    BY DEF Covers
  <2>4. \A t : Meet(t, {}, {})
    BY DEF Meet
  <2>5. ASSUME NEW t \in Tables, NEW d \in Days PROVE RowsOf(t, d)
    BY <2>1, <2>2, <2>3, <2>4 DEF RowsOf
  <2> QED BY <2>5, RowsInvIs
<1>6. RebuildInv
  BY <1>1 DEF RebuildInv
<1>7. ReplaceInv
  BY <1>1 DEF ReplaceInv, Inserts
<1> QED BY <1>3, <1>4, <1>5, <1>6, <1>7 DEF DerivedIInv, DerivedShape

\* A step that moves no session and no table.
LEMMA DerivedStutter ==
  ASSUME DerivedIInv, UNCHANGED <<windows, derived, session>>, DOMAIN calls' = DOMAIN calls
  PROVE  DerivedIInv'
<1>1. DerivedShape' /\ AboutInv'
  BY DEF DerivedIInv, DerivedShape, AboutInv
<1>2. \A t : /\ Argument(t)' = Argument(t) /\ Table(t)' = Table(t) /\ Stored(t)' = Stored(t)
             /\ HasSelected(t)' = HasSelected(t) /\ Inserts(t)' = Inserts(t)
  BY DEF Argument, Table, Stored, HasSelected, Inserts, At
<1>3. \A table, d : RowSets(table, d)' = RowSets(table, d) /\ RollUp(d)' = RollUp(d)
  BY <1>2, RollUpSame DEF RowSets
<1>4. RowsInv'
  BY <1>3 DEF DerivedIInv, RowsInv
<1>5. RebuildInv'
  BY <1>2 DEF DerivedIInv, RebuildInv
<1>6. ReplaceInv'
  BY <1>2 DEF DerivedIInv, ReplaceInv, Rebuilds
<1> QED BY <1>1, <1>4, <1>5, <1>6 DEF DerivedIInv, DerivedShape

\* Every step of the system keeps the second invariant.
LEMMA DerivedNext ==
  AnalyticsIInv /\ AnalyticsIInv' /\ DerivedIInv /\ [Next]_vars => DerivedIInv'
<1> SUFFICES ASSUME AnalyticsIInv, AnalyticsIInv', DerivedIInv, [Next]_vars
             PROVE  DerivedIInv'
  OBVIOUS
<1>1. CASE AnalyticsNext
  <2>1. ASSUME NEW s \in Sessions, NEW call \in DOMAIN calls, Call(s, call)
        PROVE  DerivedIInv'
    BY <2>1, QuietSteps
  <2>2. ASSUME NEW s \in Sessions,
               Purge(s) \/ InsertCycle(s) \/ Upsert(s) \/ ClearSnapshot(s) \/ Abort(s)
        PROVE  DerivedIInv'
    BY <2>2, QuietSteps
  <2>3. ASSUME NEW s \in Sessions, Clear(s) \/ Select(s) \/ Fill(s)
        PROVE  DerivedIInv'
    BY <2>3, ClearStep, SelectStep, FillStep
  <2>4. ASSUME NEW s \in Sessions, Commit(s)
        PROVE  DerivedIInv'
    BY <2>4, CommitRecordDerived, CommitRebuildDerived
  <2>5. CASE Tick
    BY <2>5, DerivedStutter DEF Tick
  <2> QED BY <1>1, <2>1, <2>2, <2>3, <2>4, <2>5 DEF AnalyticsNext
<1>2. CASE ApiNext
  <2>1. UNCHANGED analyticsVars
    BY <1>2 DEF ApiNext, Read, Fail, Answer, Lookup, Import, ClockTick
  <2> QED BY <2>1, DerivedStutter
<1>3. CASE UNCHANGED vars
  BY <1>3, DerivedStutter DEF vars
<1> QED BY <1>1, <1>2, <1>3 DEF Next

\* Every behaviour satisfies the invariant about the tables that refreshes rebuild
\* (refresh_route_daily_punctuality, refresh_daily_line_ranking).
THEOREM DerivedInvariant == Spec => []DerivedIInv
<1>1. Init => DerivedIInv
  BY DerivedStart
<1>2. AnalyticsIInv /\ AnalyticsIInv' /\ DerivedIInv /\ [Next]_vars => DerivedIInv'
  BY DerivedNext
<1> QED BY <1>1, <1>2, AnalyticsInvariant, PTL DEF Spec

\* Whatever runs at the same time and whatever fails, every rollup counts a cycle equally
\* often for all its groups and every ranking has the positions from 1 on, in order.
THEOREM RollupsTheorem == Spec => []RollupsAreWhole
<1>1. AnalyticsIInv /\ DerivedIInv => RollupsAreWhole
  <2> SUFFICES ASSUME AnalyticsIInv, DerivedIInv PROVE RollupsAreWhole
    OBVIOUS
  <2>1. \A t, d : derived[t][d].rows \in RowSets(t, d)
    BY RowSetIs
  <2>2. \A d \in Days : IsRollup(derived["daily"][d].rows) /\ IsRanking(derived["ranking"][d].rows)
    BY <2>1 DEF DerivedIInv, RowsInv
  <2>3. WindowsAreWhole
    BY DEF AnalyticsIInv
  <2> QED BY <2>2, <2>3 DEF RollupsAreWhole, IsRollup, IsRanking
<1> QED BY <1>1, AnalyticsInvariant, DerivedInvariant, PTL

\* No step replaces a day's rollup by one that counts less.
LEMMA DailyStep ==
  ASSUME AnalyticsIInv, DerivedIInv, [Next]_vars
  PROVE  [\A d \in Days : Covers(derived'["daily"][d].rows, derived["daily"][d].rows)]_derived
<1>1. CASE derived' = derived
  BY <1>1
<1>2. CASE derived' # derived
  <2>1. PICK s \in Sessions : Commit(s) /\ Argument(s).op # "record"
    <3>1. ASSUME NEW s \in Sessions,
                 \/ \E call \in DOMAIN calls : Call(s, call)
                 \/ Purge(s) \/ InsertCycle(s) \/ Upsert(s)
                 \/ ClearSnapshot(s) \/ Clear(s) \/ Select(s) \/ Fill(s) \/ Abort(s)
          PROVE  derived' = derived
      BY <3>1 DEF Call, Purge, InsertCycle, Upsert, ClearSnapshot, Clear, Select, Fill, Abort
    <3>2. ASSUME NEW s \in Sessions, Commit(s), Argument(s).op = "record"
          PROVE  derived' = derived
      BY <3>2 DEF Commit, CommitRecord
    <3>3. Tick => derived' = derived
      BY DEF Tick
    <3>4. ApiNext => derived' = derived
      BY DEF ApiNext, Read, Fail, Answer, Lookup, Import, ClockTick
    <3>5. UNCHANGED vars => derived' = derived
      BY DEF vars
    <3> QED BY <1>2, <3>1, <3>2, <3>3, <3>4, <3>5 DEF Next, AnalyticsNext
  <2>2. RebuildWrites(s)
    BY <1>2, <2>1, CommitRebuildDoes
  <2>3. ASSUME NEW d \in Days
        PROVE  Covers(derived'["daily"][d].rows, derived["daily"][d].rows)
    <3>1. "daily" \in Tables
      BY DEF Tables
    <3>2. CASE Table(s) # "daily" \/ Argument(s).day # d
      <4>1. derived'["daily"][d] = derived["daily"][d]
        BY <2>2, <3>1, <3>2 DEF RebuildWrites
      <4>2. derived["daily"][d].rows \in RowSets("daily", d)
        BY RowSetIs
      <4>3. IsRollup(derived["daily"][d].rows)
        BY <4>2 DEF DerivedIInv, RowsInv
      <4> QED BY <4>1, <4>3, CoversItself
    <3>3. CASE Table(s) = "daily" /\ Argument(s).day = d
      <4>1. derived'["daily"][d].rows = session[s].rows
        BY <2>2, <3>3 DEF RebuildWrites
      <4>2. Stored(s) = derived["daily"][d]
        BY <3>3 DEF Stored
      <4>3. session[s].cleared => Covers(session[s].rows, Stored(s).rows)
        BY <2>2, <3>3 DEF DerivedIInv, ReplaceInv, RebuildWrites
      <4>4. ~session[s].cleared => Stored(s).rows = {}
        BY <2>2 DEF RebuildWrites
      <4>5. Covers(session[s].rows, {})
        BY DEF Covers
      <4>6. Covers(session[s].rows, Stored(s).rows)
        BY <4>3, <4>4, <4>5
      <4> QED BY <4>1, <4>2, <4>6
    <3> QED BY <3>2, <3>3
  <2> QED BY <2>3
<1> QED BY <1>1, <1>2

\* A refresh of the daily table never takes back what readers of the day have seen: no
\* older rollup, and no day without rows once it had some.
THEOREM DailyTheorem == Spec => DailyNeverGoesBack
<1>1. AnalyticsIInv /\ DerivedIInv /\ [Next]_vars =>
        [\A d \in Days : Covers(derived'["daily"][d].rows, derived["daily"][d].rows)]_derived
  BY DailyStep
<1> QED BY <1>1, AnalyticsInvariant, DerivedInvariant, PTL DEF Spec, DailyNeverGoesBack

-----------------------------------------------------------------------------
(* The path endpoint                                                       *)

\* What the cache and the history hold.
Items == [key : RouteIds, value : Versions, expires : Nat]
Entries == [from : Nat, version : Versions]

\* Bounds of the cache and of a query.
LEMMA ApiConstants ==
    /\ TtlSeconds \in Nat /\ TtlSeconds > 0 /\ MaxEntries \in Nat /\ MaxEntries > 0
    /\ QueryTimeout \in Nat
  BY ReadApiAssumption

\* What was recent at a time was so at an earlier one.
LEMMA RecentBefore ==
  ASSUME NEW r \in RouteIds, NEW v, NEW t \in Int, NEW u \in Int, u <= t, HistoryInv,
         Recent(r, v, t)
  PROVE  Recent(r, v, u)
<1>1. history[r] \in Seq(Entries)
  BY DEF HistoryInv, Entries
<1> DEFINE h == history[r]
<1>2. \A i \in DOMAIN h : i < Len(h) => h[i + 1].from \in Nat
  <2>1. h \in Seq(Entries)
    BY <1>1
  <2> HIDE DEF h
  <2>2. ASSUME NEW i \in DOMAIN h, i < Len(h) PROVE h[i + 1].from \in Nat
    <3>1. i + 1 \in DOMAIN h
      BY <2>1, <2>2
    <3>2. h[i + 1] \in Entries
      BY <2>1, <3>1
    <3> QED BY <3>2 DEF Entries
  <2> QED BY <2>2
<1>3. PICK i \in DOMAIN h : h[i].version = v /\ (i < Len(h) => h[i + 1].from >= t)
  BY DEF Recent
<1>4. i < Len(h) => h[i + 1].from >= u
  BY <1>2, <1>3
<1> QED BY <1>3, <1>4 DEF Recent

\* The version of the schedule is recent at any time up to now and after.
LEMMA CurrentIsRecent ==
  ASSUME NEW r \in RouteIds, NEW t, HistoryInv
  PROVE  Recent(r, schedule[r], t)
<1>1. history[r] \in Seq(Entries) /\ Len(history[r]) > 0
      /\ history[r][Len(history[r])].version = schedule[r]
  BY DEF HistoryInv, Entries
<1>2. Len(history[r]) \in DOMAIN history[r] /\ ~(Len(history[r]) < Len(history[r]))
  BY <1>1
<1> QED BY <1>1, <1>2 DEF Recent

\* A cache without a route is a part of the cache, in its order.
LEMMA WithoutIs ==
  ASSUME NEW r \in RouteIds, CacheInv
  PROVE  /\ Without(r) \in Seq(Items) /\ Len(Without(r)) <= Len(cache)
         /\ IsCached(r) => Len(Without(r)) = Len(cache) - 1
         /\ \A i \in DOMAIN Without(r) : \E j \in DOMAIN cache :
               cache[j] = Without(r)[i] /\ cache[j].key # r
         /\ \A i, j \in DOMAIN Without(r) : Without(r)[i].key = Without(r)[j].key => i = j
<1>1. cache \in Seq(Items)
  BY DEF CacheInv, Items
<1>2. \A i, j \in DOMAIN cache : cache[i].key = cache[j].key => i = j
  BY DEF CacheInv
<1>3. CASE ~IsCached(r)
  <2>1. Without(r) = cache
    BY <1>3 DEF Without
  <2> QED BY <1>1, <1>2, <1>3, <2>1 DEF IsCached
<1>4. CASE IsCached(r)
  <2> DEFINE n == Slot(r)
             w == RemoveAt(cache, n)
  <2>1. n \in DOMAIN cache /\ cache[n].key = r
    BY <1>4 DEF IsCached, Slot
  <2>2. Without(r) = w
    BY <1>4 DEF Without
  <2>3. /\ w \in Seq(Items) /\ Len(w) = Len(cache) - 1
        /\ \A i \in 1 .. Len(w) : w[i] = IF i < n THEN cache[i] ELSE cache[i + 1]
    <3>1. n \in 1 .. Len(cache) /\ Len(cache) \in Nat
      BY <1>1, <2>1
    <3> HIDE DEF n
    <3> DEFINE front == SubSeq(cache, 1, n - 1)
               back == SubSeq(cache, n + 1, Len(cache))
    <3>2. /\ front \in Seq(Items) /\ Len(front) = n - 1
          /\ \A i \in 1 .. (n - 1) : front[i] = cache[i]
      BY <1>1, <3>1
    <3>3. /\ back \in Seq(Items) /\ Len(back) = Len(cache) - n
          /\ \A i \in 1 .. (Len(cache) - n) : back[i] = cache[n + i]
      BY <1>1, <3>1
    <3>4. w = front \o back
      BY DEF RemoveAt
    <3> HIDE DEF front, back, w
    <3>a. front \in Seq(Items) /\ back \in Seq(Items)
      BY <3>2, <3>3
    <3>b. front \o back \in Seq(Items)
      BY <3>a
    <3>c. Len(front \o back) = Len(front) + Len(back)
      BY <3>a
    <3>d. \A i \in 1 .. (Len(front) + Len(back)) :
             (front \o back)[i] = IF i <= Len(front) THEN front[i] ELSE back[i - Len(front)]
      BY <3>a
    <3>5. w \in Seq(Items) /\ Len(w) = Len(front) + Len(back)
      BY <3>b, <3>c, <3>4
    <3>6. Len(w) = Len(cache) - 1
      BY <3>1, <3>2, <3>3, <3>5
    <3>7. ASSUME NEW i \in 1 .. Len(w)
          PROVE  w[i] = IF i < n THEN cache[i] ELSE cache[i + 1]
      <4>1. CASE i < n
        <5>1. w[i] = front[i]
          BY <3>1, <3>2, <3>4, <3>5, <3>d, <4>1
        <5> QED BY <3>1, <3>2, <4>1, <5>1
      <4>2. CASE ~(i < n)
        <5>1. w[i] = back[i - (n - 1)]
          BY <3>1, <3>2, <3>4, <3>5, <3>d, <4>2
        <5>2. i - (n - 1) \in 1 .. (Len(cache) - n) /\ n + (i - (n - 1)) = i + 1
          BY <3>1, <3>6, <4>2
        <5> QED BY <3>3, <4>2, <5>1, <5>2
      <4> QED BY <4>1, <4>2
    <3> QED BY <3>5, <3>6, <3>7
  <2>4. DOMAIN w = 1 .. Len(w) /\ DOMAIN cache = 1 .. Len(cache) /\ Len(cache) \in Nat
    BY <1>1, <2>3
  <2> DEFINE from(i) == IF i < n THEN i ELSE i + 1
  <2>5. ASSUME NEW i \in DOMAIN w
        PROVE  from(i) \in DOMAIN cache /\ w[i] = cache[from(i)] /\ from(i) # n
    <3> HIDE DEF w, n
    <3> QED BY <2>1, <2>3, <2>4
  <2>6. \A i, j \in DOMAIN w : from(i) = from(j) => i = j
    <3> HIDE DEF w, n
    <3> QED BY <2>1, <2>4
  <2> HIDE DEF from, w, n
  <2>7. ASSUME NEW i \in DOMAIN w
        PROVE  \E j \in DOMAIN cache : cache[j] = w[i] /\ cache[j].key # r
    BY <1>2, <2>1, <2>5
  <2>8. ASSUME NEW i \in DOMAIN w, NEW j \in DOMAIN w, w[i].key = w[j].key PROVE i = j
    BY <1>2, <2>5, <2>6, <2>8
  <2>9. Len(w) <= Len(cache)
    BY <2>3, <2>4
  <2> QED BY <2>2, <2>3, <2>7, <2>8, <2>9
<1> QED BY <1>3, <1>4

\* What is recent stays recent: the history only grows, and what comes in comes now.
LEMMA RecentStays ==
  ASSUME HistoryInv, NEW r \in RouteIds, NEW v, NEW t \in Int, t <= clock, Recent(r, v, t),
         \/ history'[r] = history[r]
         \/ \E w : history'[r] = Append(history[r], [from |-> clock, version |-> w])
  PROVE  Recent(r, v, t)'
<1>1. CASE history'[r] = history[r]
  BY <1>1 DEF Recent
<1>2. ASSUME NEW w, history'[r] = Append(history[r], [from |-> clock, version |-> w])
      PROVE  Recent(r, v, t)'
  <2> DEFINE h == history[r]
             e == [from |-> clock, version |-> w]
             n == history'[r]
  <2>1. h \in Seq(Entries)
    BY DEF HistoryInv, Entries
  <2>2. PICK i \in DOMAIN h : h[i].version = v /\ (i < Len(h) => h[i + 1].from >= t)
    BY DEF Recent
  <2>3. n = Append(h, e) /\ e.from = clock
    BY <1>2
  <2> HIDE DEF h, e, n
  <2>4. /\ Len(n) = Len(h) + 1 /\ DOMAIN n = 1 .. Len(n) /\ n[Len(h) + 1] = e
        /\ \A j \in 1 .. Len(h) : n[j] = h[j]
        /\ DOMAIN h = 1 .. Len(h) /\ Len(h) \in Nat
    BY <2>1, <2>3
  <2>5. i \in DOMAIN n /\ n[i].version = v
    BY <2>2, <2>4
  <2>6. i < Len(n) => n[i + 1].from >= t
    <3>1. CASE i < Len(h)
      <4>1. i + 1 \in 1 .. Len(h)
        BY <2>2, <2>4, <3>1
      <4> QED BY <2>2, <2>4, <3>1, <4>1
    <3>2. CASE ~(i < Len(h))
      <4>1. i = Len(h)
        BY <2>2, <2>4, <3>2
      <4>2. n[i + 1].from = clock
        BY <2>3, <2>4, <4>1
      <4>3. clock >= t
        BY DEF HistoryInv
      <4> QED BY <4>2, <4>3
    <3> QED BY <3>1, <3>2
  <2> QED BY <2>5, <2>6 DEF Recent, n
<1> QED BY <1>1, <1>2

\* An item that the cache may hold, and a map of such items.
IsItem(item) ==
    /\ item \in Items
    /\ item.expires <= clock + TtlSeconds
    /\ Recent(item.key, item.value, item.expires - TtlSeconds - QueryTimeout)
IsMap(items) ==
    /\ items \in Seq(Items)
    /\ \A i \in DOMAIN items : IsItem(items[i])
    /\ \A i, j \in DOMAIN items : items[i].key = items[j].key => i = j

\* The cache is a bounded map.
LEMMA CacheIs == CacheInv <=> IsMap(cache) /\ Len(cache) <= MaxEntries
<1>1. ASSUME CacheInv PROVE IsMap(cache) /\ Len(cache) <= MaxEntries
  <2>1. cache \in Seq(Items)
    BY <1>1 DEF CacheInv, Items
  <2>2. ASSUME NEW i \in DOMAIN cache PROVE IsItem(cache[i])
    <3>1. cache[i] \in Items
      BY <2>1
    <3> QED BY <1>1, <3>1 DEF CacheInv, IsItem
  <2> QED BY <1>1, <2>1, <2>2 DEF CacheInv, IsMap
<1>2. ASSUME IsMap(cache), Len(cache) <= MaxEntries PROVE CacheInv
  BY <1>2 DEF CacheInv, IsMap, IsItem, Items
<1> QED BY <1>1, <1>2

\* The same after a step.
LEMMA CacheIsThen == (CacheInv <=> IsMap(cache) /\ Len(cache) <= MaxEntries)'
BY CacheIs, PTL

\* A route's item put last, in place of the one it had.
LEMMA AppendKeeps ==
  ASSUME CacheInv, NEW item, IsItem(item)
  PROVE  /\ IsMap(Append(Without(item.key), item))
         /\ Len(Append(Without(item.key), item)) = Len(Without(item.key)) + 1
<1> DEFINE w == Without(item.key)
           a == Append(w, item)
<1>1. item \in Items /\ item.key \in RouteIds
  BY DEF IsItem, Items
<1>2. /\ w \in Seq(Items)
      /\ \A i \in DOMAIN w : \E j \in DOMAIN cache : cache[j] = w[i] /\ cache[j].key # item.key
      /\ \A i, j \in DOMAIN w : w[i].key = w[j].key => i = j
  BY <1>1, WithoutIs
<1>3. \A i \in DOMAIN w : IsItem(w[i]) /\ w[i].key # item.key
  BY <1>2, CacheIs DEF IsMap
<1> HIDE DEF w
<1>4. /\ a \in Seq(Items) /\ Len(a) = Len(w) + 1 /\ DOMAIN a = 1 .. (Len(w) + 1)
      /\ \A i \in 1 .. Len(w) : a[i] = w[i]
      /\ a[Len(w) + 1] = item /\ DOMAIN w = 1 .. Len(w) /\ Len(w) \in Nat
  BY <1>1, <1>2
<1> HIDE DEF a
<1>5. ASSUME NEW i \in DOMAIN a PROVE IsItem(a[i])
  BY <1>3, <1>4
<1>6. ASSUME NEW i \in DOMAIN a, NEW j \in DOMAIN a, a[i].key = a[j].key PROVE i = j
  <2>1. CASE i \in DOMAIN w /\ j \in DOMAIN w
    BY <1>2, <1>4, <1>6, <2>1
  <2>2. CASE i \in DOMAIN w /\ j \notin DOMAIN w
    BY <1>3, <1>4, <1>6, <2>2
  <2>3. CASE i \notin DOMAIN w /\ j \in DOMAIN w
    BY <1>3, <1>4, <1>6, <2>3
  <2>4. CASE i \notin DOMAIN w /\ j \notin DOMAIN w
    BY <1>4, <2>4
  <2> QED BY <2>1, <2>2, <2>3, <2>4
<1>7. IsMap(a) /\ Len(a) = Len(w) + 1
  BY <1>4, <1>5, <1>6 DEF IsMap
<1> QED BY <1>7 DEF a, w

\* The most recent items of a map.
LEMMA TrimKeeps ==
  ASSUME NEW items, IsMap(items), NEW n \in Nat, n <= Len(items)
  PROVE  /\ IsMap(SubSeq(items, n + 1, Len(items)))
         /\ Len(SubSeq(items, n + 1, Len(items))) = Len(items) - n
<1> DEFINE t == SubSeq(items, n + 1, Len(items))
<1>1. items \in Seq(Items) /\ Len(items) \in Nat /\ DOMAIN items = 1 .. Len(items)
  BY DEF IsMap
<1>2. /\ t \in Seq(Items) /\ Len(t) = Len(items) - n
      /\ \A i \in 1 .. (Len(items) - n) : t[i] = items[n + i]
  <2>1. t \in Seq(Items)
    BY <1>1
  <2>2. Len(t) = Len(items) - n
    <3> DEFINE k == Len(items)
    <3>1. items \in Seq(Items) /\ k \in Nat /\ k = Len(items)
      BY <1>1
    <3>2. t = SubSeq(items, n + 1, k)
      OBVIOUS
    <3> HIDE DEF k, t
    <3>3. CASE n = k
      BY <3>1, <3>2, <3>3
    <3>4. CASE n # k
      BY <3>1, <3>2, <3>4
    <3> QED BY <3>1, <3>3, <3>4
  <2>3. ASSUME NEW i \in 1 .. (Len(items) - n) PROVE t[i] = items[n + i]
    BY <1>1
  <2> QED BY <2>1, <2>2, <2>3
<1>3. DOMAIN t = 1 .. Len(t)
  BY <1>2
<1> HIDE DEF t
<1>4. \A i \in DOMAIN t : n + i \in DOMAIN items /\ t[i] = items[n + i]
  BY <1>1, <1>2, <1>3
<1>5. \A i \in DOMAIN t : IsItem(t[i])
  BY <1>4 DEF IsMap
<1>6. ASSUME NEW i \in DOMAIN t, NEW j \in DOMAIN t, t[i].key = t[j].key PROVE i = j
  <2>1. n + i = n + j
    BY <1>4, <1>6 DEF IsMap
  <2> QED BY <1>3, <1>2, <1>1, <2>1
<1>7. IsMap(t) /\ Len(t) = Len(items) - n
  BY <1>2, <1>5, <1>6 DEF IsMap
<1> QED BY <1>7 DEF t

\* RoutePathCache.get keeps the cache a bounded map.
LEMMA GetKeeps ==
  ASSUME CacheInv, NEW r \in RouteIds, Get(r)
  PROVE  IsMap(cache') /\ Len(cache') <= MaxEntries
<1>1. IsMap(cache) /\ Len(cache) <= MaxEntries /\ Len(cache) \in Nat
  BY CacheIs DEF IsMap
<1>2. /\ Without(r) \in Seq(Items) /\ Len(Without(r)) <= Len(cache)
      /\ IsCached(r) => Len(Without(r)) = Len(cache) - 1
  BY WithoutIs
<1>3. CASE Hit(r)
  <2> DEFINE item == cache[Slot(r)]
  <2>1. Slot(r) \in DOMAIN cache /\ item.key = r /\ IsCached(r)
    BY <1>3 DEF Hit, IsCached, Slot
  <2>2. IsItem(item)
    BY <1>1, <2>1 DEF IsMap
  <2>3. cache' = Append(Without(r), item)
    BY <1>3 DEF Get
  <2> HIDE DEF item
  <2>4. IsMap(cache') /\ Len(cache') = Len(Without(r)) + 1
    BY <2>1, <2>2, <2>3, AppendKeeps
  <2> QED BY <1>1, <1>2, <2>1, <2>4, ApiConstants
<1>4. CASE ~Hit(r)
  <2>1. cache' = Without(r)
    BY <1>4 DEF Get
  <2>2. \A i \in DOMAIN Without(r) : IsItem(Without(r)[i])
    BY <1>1, WithoutIs DEF IsMap
  <2>3. IsMap(Without(r))
    BY <1>2, <2>2, WithoutIs DEF IsMap
  <2>4. Len(Without(r)) \in Nat
    BY <1>2
  <2> QED BY <1>1, <1>2, <2>1, <2>3, <2>4, ApiConstants
<1> QED BY <1>3, <1>4

\* RoutePathCache.set does, for a value that was read within the timeout of a query.
LEMMA PutKeeps ==
  ASSUME HistoryInv, CacheInv, NEW r \in RouteIds, NEW value \in Versions,
         Recent(r, value, clock - QueryTimeout), Put(r, value)
  PROVE  IsMap(cache') /\ Len(cache') <= MaxEntries
<1> DEFINE item == [key |-> r, value |-> value, expires |-> clock + TtlSeconds]
           items == Append(Without(r), item)
           excess == Len(items) - MaxEntries
<1>1. item.key = r /\ IsItem(item)
  <2>1. clock \in Nat
    BY DEF HistoryInv
  <2>2. item \in Items /\ item.expires - TtlSeconds - QueryTimeout = clock - QueryTimeout
    BY <2>1, ApiConstants DEF Items
  <2>3. item.key = r /\ item.value = value /\ item.expires <= clock + TtlSeconds
    BY <2>1, ApiConstants
  <2> HIDE DEF item
  <2> QED BY <2>2, <2>3 DEF IsItem
<1>2. cache' = IF excess > 0 THEN SubSeq(items, excess + 1, Len(items)) ELSE items
  BY DEF Put
<1> HIDE DEF item
<1>3. IsMap(items)
  BY <1>1, AppendKeeps
<1> HIDE DEF items
<1>4. Len(items) \in Nat
  BY <1>3 DEF IsMap
<1>5. CASE excess > 0
  <2>1. excess \in Nat /\ excess <= Len(items)
    BY <1>4, <1>5, ApiConstants
  <2>2. Len(items) - excess = MaxEntries
    BY <1>4, ApiConstants
  <2>3. cache' = SubSeq(items, excess + 1, Len(items))
    BY <1>2, <1>5
  <2> HIDE DEF excess
  <2>4. IsMap(cache') /\ Len(cache') = MaxEntries
    BY <1>3, <2>1, <2>2, <2>3, TrimKeeps
  <2> QED BY <2>4, ApiConstants
<1>6. CASE ~(excess > 0)
  BY <1>2, <1>3, <1>4, <1>6, ApiConstants
<1> QED BY <1>5, <1>6

\* An idle API satisfies the invariant.
LEMMA ApiStart == Init => ApiIInv
<1> SUFFICES ASSUME ApiInit PROVE ApiIInv
  BY DEF Init
<1> USE DEF ApiInit
<1>1. HistoryInv
  <2>1. 0 \in Versions /\ clock \in Nat
    BY DEF Versions
  <2>2. \A r \in RouteIds : history[r] = <<[from |-> 0, version |-> 0]>> /\ schedule[r] = 0
    OBVIOUS
  <2>3. \A r \in RouteIds : /\ history[r] \in Seq([from : Nat, version : Versions])
                            /\ Len(history[r]) = 1 /\ history[r][1].version = 0
    BY <2>1, <2>2
  <2>4. history \in [RouteIds -> Seq([from : Nat, version : Versions])]
    BY <2>3
  <2> QED BY <2>1, <2>2, <2>3, <2>4 DEF HistoryInv
<1>2. CacheInv
  BY ApiConstants DEF CacheInv
<1>3. RequestInv
  BY DEF RequestInv, Waiting, Versions
<1> QED BY <1>1, <1>2, <1>3 DEF ApiIInv

\* What a request knows, one by one.
RequestStates ==
    [pc : {"waiting", "querying", "fetching", "answered", "failed"},
     route : RouteIds \cup {NoRoute}, asked : Nat, row : Versions, answer : Versions, at : Nat]
RequestOK(state) ==
    /\ state.pc \in {"querying", "fetching"} =>
          /\ state.route \in RouteIds
          /\ state.asked <= clock /\ clock <= state.asked + QueryTimeout
    /\ state.pc = "fetching" => Recent(state.route, state.row, state.asked)
    /\ state.pc = "answered" =>
          /\ state.route \in RouteIds /\ state.at <= clock
          /\ Recent(state.route, state.answer, state.at + 1 - TtlSeconds - QueryTimeout)

\* RequestInv, state by state.
LEMMA RequestIs ==
  RequestInv <=> /\ request \in [Requests -> RequestStates]
                 /\ \A q \in Requests : RequestOK(request[q])
BY DEF RequestInv, RequestStates, RequestOK

\* The same after a step.
LEMMA RequestIsThen ==
  (RequestInv <=> request \in [Requests -> RequestStates]
                  /\ \A q \in Requests : RequestOK(request[q]))'
BY RequestIs, PTL

\* A step of a request, at one time and under one schedule.
LEMMA RequestStep ==
  ASSUME ApiIInv, UNCHANGED <<clock, schedule, history>>, NEW q \in Requests,
         NEW state \in RequestStates, RequestOK(state),
         request' = [request EXCEPT ![q] = state],
         IsMap(cache'), Len(cache') <= MaxEntries
  PROVE  ApiIInv'
<1>1. HistoryInv'
  BY DEF ApiIInv, HistoryInv
<1>2. CacheInv'
  <2>1. \A r, v, t : Recent(r, v, t)' <=> Recent(r, v, t)
    BY DEF Recent
  <2>2. \A item : IsItem(item)' <=> IsItem(item)
    BY <2>1 DEF IsItem
  <2>3. (IsMap(cache) /\ Len(cache) <= MaxEntries)'
    BY <2>2 DEF IsMap, IsItem, Recent
  <2> QED BY <2>3, CacheIsThen
<1>3. RequestInv'
  <2>1. request \in [Requests -> RequestStates] /\ \A p \in Requests : RequestOK(request[p])
    BY RequestIs DEF ApiIInv
  <2>2. request' \in [Requests -> RequestStates]
    BY <2>1
  <2>3. ASSUME NEW p \in Requests PROVE RequestOK(request[p])'
    <3>1. CASE p = q
      BY <2>1, <3>1 DEF RequestOK, Recent
    <3>2. CASE p # q
      BY <2>1, <3>2 DEF RequestOK, Recent
    <3> QED BY <3>1, <3>2
  <2> QED BY <2>2, <2>3, RequestIsThen
<1> QED BY <1>1, <1>2, <1>3 DEF ApiIInv

\* Each step of a request keeps the invariant.
LEMMA RequestSteps ==
  ASSUME ApiIInv, NEW q \in Requests,
         Read(q) \/ Fail(q) \/ Answer(q) \/ \E r \in RouteIds : Lookup(q, r)
  PROVE  ApiIInv'
<1>1. /\ request[q] \in RequestStates /\ RequestOK(request[q]) /\ clock \in Nat
      /\ IsMap(cache) /\ Len(cache) <= MaxEntries
      /\ \A r \in RouteIds : schedule[r] \in Versions
  <2>1. request[q] \in RequestStates /\ RequestOK(request[q])
    BY RequestIs DEF ApiIInv
  <2>2. ASSUME NEW r \in RouteIds PROVE schedule[r] \in Versions
    <3>1. history[r] \in Seq([from : Nat, version : Versions]) /\ Len(history[r]) > 0
          /\ history[r][Len(history[r])].version = schedule[r]
      BY DEF ApiIInv, HistoryInv
    <3> DEFINE h == history[r]
               E == [from : Nat, version : Versions]
    <3>2. h \in Seq(E) /\ Len(h) > 0 /\ h[Len(h)].version = schedule[r]
      BY <3>1
    <3> HIDE DEF h, E
    <3>3. Len(h) \in DOMAIN h
      BY <3>2
    <3>4. h[Len(h)] \in E
      BY <3>2, <3>3
    <3> QED BY <3>2, <3>4 DEF E
  <2> QED BY <2>1, <2>2, CacheIs DEF ApiIInv, HistoryInv
<1>2. Waiting \in RequestStates /\ NoRoute \in Versions
  BY DEF Waiting, RequestStates, Versions
<1>3. ASSUME Failed(q), IsMap(cache'), Len(cache') <= MaxEntries,
             UNCHANGED <<clock, schedule, history>>
      PROVE  ApiIInv'
  <2> DEFINE state == [Waiting EXCEPT !.pc = "failed"]
  <2>1. state \in RequestStates /\ RequestOK(state)
    BY DEF Waiting, RequestStates, RequestOK, Versions
  <2>2. request' = [request EXCEPT ![q] = state]
    BY <1>3 DEF Failed
  <2> HIDE DEF state
  <2> QED BY <1>3, <2>1, <2>2, RequestStep
<1>4. ASSUME NEW r \in RouteIds, NEW value \in Versions, Answered(q, r, value),
             Recent(r, value, clock + 1 - TtlSeconds - QueryTimeout),
             IsMap(cache'), Len(cache') <= MaxEntries,
             UNCHANGED <<clock, schedule, history>>
      PROVE  ApiIInv'
  <2> DEFINE state == [Waiting EXCEPT !.pc = "answered", !.route = r,
                                      !.answer = value, !.at = clock]
  <2>1. state \in RequestStates
    BY <1>1, <1>2 DEF Waiting, RequestStates
  <2>2. /\ state.pc = "answered" /\ state.route = r /\ state.answer = value
        /\ state.at = clock
    BY DEF Waiting
  <2>3. request' = [request EXCEPT ![q] = state]
    BY <1>4 DEF Answered
  <2> HIDE DEF state
  <2>4. RequestOK(state)
    BY <1>1, <1>4, <2>2 DEF RequestOK
  <2> QED BY <1>4, <2>1, <2>3, <2>4, RequestStep
<1>5. CASE Read(q)
  <2> DEFINE r == request[q].route
             state == [request[q] EXCEPT !.pc = "fetching", !.row = schedule[r]]
  <2>1. r \in RouteIds /\ request[q].asked \in Nat
        /\ request[q].asked <= clock /\ clock <= request[q].asked + QueryTimeout
    BY <1>1, <1>5 DEF Read, RequestOK, RequestStates
  <2>2. state \in RequestStates
    BY <1>1, <2>1 DEF RequestStates
  <2>3. /\ state.pc = "fetching" /\ state.route = r /\ state.row = schedule[r]
        /\ state.asked = request[q].asked
    BY <1>1 DEF RequestStates
  <2>4. request' = [request EXCEPT ![q] = state]
    BY <1>1, <1>5, RequestIs DEF Read, ApiIInv, RequestStates
  <2>5. Recent(r, schedule[r], request[q].asked)
    BY <2>1, CurrentIsRecent DEF ApiIInv
  <2> HIDE DEF state, r
  <2>6. RequestOK(state)
    BY <2>1, <2>3, <2>5 DEF RequestOK
  <2>7. UNCHANGED <<clock, schedule, history, cache>>
    BY <1>5 DEF Read
  <2> QED BY <1>1, <2>2, <2>4, <2>6, <2>7, RequestStep
<1>6. CASE Fail(q)
  BY <1>1, <1>3, <1>6 DEF Fail
<1>7. CASE Answer(q)
  <2> DEFINE r == request[q].route
             value == request[q].row
  <2>1. /\ r \in RouteIds /\ value \in Versions /\ request[q].asked \in Nat
        /\ request[q].asked <= clock /\ clock <= request[q].asked + QueryTimeout
        /\ Recent(r, value, request[q].asked)
    BY <1>1, <1>7 DEF Answer, RequestOK, RequestStates
  <2>2. Put(r, value) /\ Answered(q, r, value) /\ UNCHANGED <<clock, schedule, history>>
    BY <1>7 DEF Answer
  <2> HIDE DEF r, value
  <2>3. /\ clock - QueryTimeout \in Int /\ clock - QueryTimeout <= request[q].asked
        /\ clock + 1 - TtlSeconds - QueryTimeout \in Int
        /\ clock + 1 - TtlSeconds - QueryTimeout <= request[q].asked
    BY <1>1, <2>1, ApiConstants
  <2>4. /\ Recent(r, value, clock - QueryTimeout)
        /\ Recent(r, value, clock + 1 - TtlSeconds - QueryTimeout)
    BY <2>1, <2>3, RecentBefore DEF ApiIInv
  <2>5. IsMap(cache') /\ Len(cache') <= MaxEntries
    BY <2>1, <2>2, <2>4, PutKeeps DEF ApiIInv
  <2> QED BY <1>4, <2>1, <2>2, <2>4, <2>5
<1>8. ASSUME NEW r \in RouteIds, Lookup(q, r) PROVE ApiIInv'
  <2>1. Get(r) /\ UNCHANGED <<clock, schedule, history>>
    BY <1>8 DEF Lookup
  <2>2. IsMap(cache') /\ Len(cache') <= MaxEntries
    BY <2>1, GetKeeps DEF ApiIInv
  <2>3. CASE Hit(r)
    <3> DEFINE item == cache[Slot(r)]
    <3>1. Slot(r) \in DOMAIN cache /\ item.key = r /\ ~(item.expires <= clock)
      BY <2>3 DEF Hit, IsCached, Slot, Expired
    <3>2. IsItem(item)
      BY <1>1, <3>1 DEF IsMap
    <3>3. Answered(q, r, item.value)
      BY <1>8, <2>3 DEF Lookup, ValueOf
    <3> HIDE DEF item
    <3>4. item.value \in Versions /\ item.expires \in Nat
      BY <3>2 DEF IsItem, Items
    <3>5. /\ Recent(r, item.value, item.expires - TtlSeconds - QueryTimeout)
          /\ clock + 1 <= item.expires
      BY <1>1, <3>1, <3>2, <3>4 DEF IsItem
    <3>6. /\ item.expires - TtlSeconds - QueryTimeout \in Int
          /\ clock + 1 - TtlSeconds - QueryTimeout \in Int
          /\ clock + 1 - TtlSeconds - QueryTimeout <= item.expires - TtlSeconds - QueryTimeout
      BY <1>1, <3>4, <3>5, ApiConstants
    <3>7. Recent(r, item.value, clock + 1 - TtlSeconds - QueryTimeout)
      BY <3>5, <3>6, RecentBefore DEF ApiIInv
    <3> QED BY <1>4, <2>1, <2>2, <3>3, <3>4, <3>7
  <2>4. CASE ~Hit(r) /\ hasPool
    <3> DEFINE state == [Waiting EXCEPT !.pc = "querying", !.route = r, !.asked = clock]
    <3>1. state \in RequestStates
      BY <1>1, <1>2 DEF Waiting, RequestStates
    <3>2. state.pc = "querying" /\ state.route = r /\ state.asked = clock
      BY DEF Waiting
    <3>3. request' = [request EXCEPT ![q] = state]
      BY <1>8, <2>4 DEF Lookup
    <3> HIDE DEF state
    <3>4. RequestOK(state)
      BY <1>1, <3>2, ApiConstants DEF RequestOK
    <3> QED BY <2>1, <2>2, <3>1, <3>3, <3>4, RequestStep
  <2>5. CASE ~Hit(r) /\ ~hasPool
    <3>1. Failed(q)
      BY <1>8, <2>5 DEF Lookup
    <3> QED BY <1>3, <2>1, <2>2, <3>1
  <2> QED BY <2>3, <2>4, <2>5
<1> QED BY <1>5, <1>6, <1>7, <1>8

\* Steps that only move the clock or the history on keep what is recent.
LEMMA ApiMoves ==
  ASSUME ApiIInv, HistoryInv', UNCHANGED <<cache, request>>, clock' >= clock,
         \A q \in Requests : request[q].pc \in {"querying", "fetching"} =>
             clock' <= request[q].asked + QueryTimeout,
         \A r \in RouteIds : \/ history'[r] = history[r]
                             \/ \E w : history'[r] = Append(history[r],
                                                           [from |-> clock, version |-> w])
  PROVE  ApiIInv'
<1>1. clock \in Nat /\ clock' \in Nat /\ IsMap(cache) /\ Len(cache) <= MaxEntries
      /\ request \in [Requests -> RequestStates] /\ \A q \in Requests : RequestOK(request[q])
  BY CacheIs, RequestIs DEF ApiIInv, HistoryInv
<1>2. ASSUME NEW r \in RouteIds, NEW v, NEW t \in Int, t <= clock, Recent(r, v, t)
      PROVE  Recent(r, v, t)'
  BY <1>2, RecentStays DEF ApiIInv
<1>3. ASSUME NEW item, IsItem(item) PROVE IsItem(item)'
  <2>1. /\ item \in Items /\ item.key \in RouteIds /\ item.expires \in Nat
        /\ item.expires <= clock + TtlSeconds
        /\ Recent(item.key, item.value, item.expires - TtlSeconds - QueryTimeout)
    BY <1>3 DEF IsItem, Items
  <2>2. /\ item.expires - TtlSeconds - QueryTimeout \in Int
        /\ item.expires - TtlSeconds - QueryTimeout <= clock
        /\ item.expires <= clock' + TtlSeconds
    BY <1>1, <2>1, ApiConstants
  <2>3. Recent(item.key, item.value, item.expires - TtlSeconds - QueryTimeout)'
    BY <1>2, <2>1, <2>2
  <2> QED BY <2>1, <2>2, <2>3 DEF IsItem
<1>4. CacheInv'
  <2>1. (IsMap(cache) /\ Len(cache) <= MaxEntries)'
    BY <1>1, <1>3 DEF IsMap
  <2> QED BY <2>1, CacheIsThen
<1>5. RequestInv'
  <2>1. ASSUME NEW state \in RequestStates, RequestOK(state),
               state.pc \in {"querying", "fetching"} => clock' <= state.asked + QueryTimeout
        PROVE  RequestOK(state)'
    <3>1. state.asked \in Nat /\ state.at \in Nat
      BY DEF RequestStates
    <3>2. state.pc \in {"querying", "fetching"} =>
             /\ state.route \in RouteIds
             /\ state.asked <= clock /\ state.asked <= clock'
             /\ clock' <= state.asked + QueryTimeout
      BY <1>1, <2>1, <3>1 DEF RequestOK
    <3>3. state.pc = "fetching" => Recent(state.route, state.row, state.asked)'
      <4>1. SUFFICES ASSUME state.pc = "fetching"
                     PROVE  Recent(state.route, state.row, state.asked)'
        OBVIOUS
      <4>2. Recent(state.route, state.row, state.asked)
        BY <2>1, <4>1 DEF RequestOK
      <4> QED BY <1>2, <3>1, <3>2, <4>1, <4>2
    <3>4. state.pc = "answered" =>
             /\ state.route \in RouteIds /\ state.at <= clock'
             /\ Recent(state.route, state.answer, state.at + 1 - TtlSeconds - QueryTimeout)'
      <4>1. SUFFICES ASSUME state.pc = "answered"
                     PROVE  /\ state.route \in RouteIds /\ state.at <= clock'
                            /\ Recent(state.route, state.answer,
                                      state.at + 1 - TtlSeconds - QueryTimeout)'
        OBVIOUS
      <4>2. /\ state.route \in RouteIds /\ state.at <= clock
            /\ Recent(state.route, state.answer, state.at + 1 - TtlSeconds - QueryTimeout)
        BY <2>1, <4>1 DEF RequestOK
      <4>3. /\ state.at + 1 - TtlSeconds - QueryTimeout \in Int
            /\ state.at + 1 - TtlSeconds - QueryTimeout <= clock
            /\ state.at <= clock'
        BY <1>1, <3>1, <4>2, ApiConstants
      <4> QED BY <1>2, <4>2, <4>3
    <3> QED BY <3>2, <3>3, <3>4 DEF RequestOK
  <2>2. \A q \in Requests : RequestOK(request[q])'
    BY <1>1, <2>1 DEF RequestOK, Recent
  <2> QED BY <1>1, <2>2, RequestIsThen
<1> QED BY <1>4, <1>5 DEF ApiIInv

\* An import adds the version it brings to the history.
LEMMA ImportKeeps ==
  ASSUME ApiIInv, NEW r \in RouteIds, Import(r)
  PROVE  ApiIInv'
<1>1. PICK version \in {Len(history[r]), NoRoute} :
         /\ schedule' = [schedule EXCEPT ![r] = version]
         /\ history' = [history EXCEPT ![r] =
                          Append(history[r], [from |-> clock, version |-> version])]
  BY DEF Import
<1>2. UNCHANGED <<clock, cache, request>>
  BY DEF Import
<1> DEFINE E == [from : Nat, version : Versions]
           e == [from |-> clock, version |-> version]
<1>3. /\ clock \in Nat /\ history \in [RouteIds -> Seq(E)]
      /\ schedule = [t \in RouteIds |-> schedule[t]]
      /\ \A t \in RouteIds : Len(history[t]) > 0
                             /\ history[t][Len(history[t])].version = schedule[t]
  BY DEF ApiIInv, HistoryInv
<1>4. e \in E /\ e.version = version
  <2>1. Len(history[r]) \in Nat
    BY <1>3
  <2> QED BY <1>3, <2>1 DEF Versions
<1>5. /\ history' = [history EXCEPT ![r] = Append(history[r], e)]
      /\ e = [from |-> clock, version |-> version]
  BY <1>1
<1> HIDE DEF E, e
<1>6. ASSUME NEW t \in RouteIds
      PROVE  /\ history'[t] \in Seq(E) /\ Len(history'[t]) > 0
             /\ history'[t][Len(history'[t])].version = schedule'[t]
             /\ \/ history'[t] = history[t]
                \/ \E w : history'[t] = Append(history[t], [from |-> clock, version |-> w])
  <2>1. CASE t = r
    <3> DEFINE h == history[r]
    <3>1. h \in Seq(E) /\ history'[t] = Append(h, e) /\ schedule'[t] = version
      BY <1>1, <1>3, <1>5, <2>1
    <3> HIDE DEF h
    <3>2. Append(h, e) \in Seq(E) /\ Len(Append(h, e)) = Len(h) + 1 /\ Len(h) \in Nat
          /\ Append(h, e)[Len(h) + 1] = e
      BY <1>4, <3>1
    <3>3. history'[t] = Append(history[t], [from |-> clock, version |-> version])
      BY <1>5, <2>1, <3>1 DEF h
    <3>4. Len(history'[t]) = Len(h) + 1 /\ history'[t][Len(h) + 1] = e
      BY <3>1, <3>2
    <3>5. Len(history'[t]) > 0 /\ history'[t][Len(history'[t])] = e
      BY <3>2, <3>4
    <3> QED BY <1>4, <3>1, <3>2, <3>3, <3>5
  <2>2. CASE t # r
    BY <1>1, <1>3, <1>5, <2>2
  <2> QED BY <2>1, <2>2
<1>7. HistoryInv'
  <2>1. history' \in [RouteIds -> Seq(E)]
    BY <1>3, <1>5, <1>6
  <2>2. schedule' = [t \in RouteIds |-> schedule'[t]]
    BY <1>1, <1>3
  <2> QED BY <1>2, <1>3, <1>6, <2>1, <2>2 DEF HistoryInv, E
<1>8. \A q \in Requests : request[q].pc \in {"querying", "fetching"} =>
         clock' <= request[q].asked + QueryTimeout
  BY <1>2 DEF ApiIInv, RequestInv
<1>9. clock' >= clock
  BY <1>2, <1>3
<1> QED BY <1>2, <1>6, <1>7, <1>8, <1>9, ApiMoves

\* The clock moves on while no query is at its timeout.
LEMMA TickKeeps ==
  ASSUME ApiIInv, ClockTick
  PROVE  ApiIInv'
<1>1. /\ clock' = clock + 1 /\ UNCHANGED <<schedule, history, cache, request>>
      /\ \A q \in Requests : request[q].pc \in {"querying", "fetching"} =>
            clock < request[q].asked + QueryTimeout
  BY DEF ClockTick
<1>2. clock \in Nat /\ \A q \in Requests : request[q].asked \in Nat
  BY RequestIs DEF ApiIInv, HistoryInv, RequestStates
<1>a. clock' \in Nat /\ clock' >= clock
  BY <1>1, <1>2
<1>3. HistoryInv' /\ clock' >= clock
  BY <1>1, <1>a DEF ApiIInv, HistoryInv
<1>4. \A q \in Requests : request[q].pc \in {"querying", "fetching"} =>
         clock' <= request[q].asked + QueryTimeout
  BY <1>1, <1>2, ApiConstants
<1> QED BY <1>1, <1>3, <1>4, ApiMoves

\* Every step of the system keeps the invariant of the path endpoint.
LEMMA ApiNextKeeps == ApiIInv /\ [Next]_vars => ApiIInv'
<1> SUFFICES ASSUME ApiIInv, [Next]_vars PROVE ApiIInv'
  OBVIOUS
<1>1. CASE UNCHANGED apiVars
  BY <1>1 DEF apiVars, ApiIInv, HistoryInv, CacheInv, RequestInv, Recent
<1>2. CASE ApiNext
  BY <1>2, RequestSteps, ImportKeeps, TickKeeps DEF ApiNext
<1> QED BY <1>1, <1>2 DEF Next, vars

\* Every behaviour satisfies the invariant of the path endpoint and its cache
\* (RoutePathCache, get_route_path).
THEOREM ApiInvariant == Spec => []ApiIInv
<1>1. Init => ApiIInv
  BY ApiStart
<1>2. ApiIInv /\ [Next]_vars => ApiIInv'
  BY ApiNextKeeps
<1> QED BY <1>1, <1>2, PTL DEF Spec

\* A path that get_route_path answers was the route's no longer ago than the life of an
\* item and of a query, however hits, evictions, imports and slow queries interleave.
THEOREM ServedIsRecentTheorem == Spec => []ServedIsRecent
<1>1. ApiIInv => ServedIsRecent
  <2> SUFFICES ASSUME ApiIInv, NEW q \in Requests, request[q].pc = "answered"
               PROVE  \E i \in DOMAIN history[request[q].route] :
                         /\ history[request[q].route][i].version = request[q].answer
                         /\ i < Len(history[request[q].route]) =>
                               history[request[q].route][i + 1].from + TtlSeconds + QueryTimeout
                                  > request[q].at
    BY DEF ServedIsRecent
  <2> DEFINE h == history[request[q].route]
             at == request[q].at
  <2>1. /\ request[q].route \in RouteIds
        /\ Recent(request[q].route, request[q].answer, at + 1 - TtlSeconds - QueryTimeout)
    BY DEF ApiIInv, RequestInv
  <2>2. PICK i \in DOMAIN h : /\ h[i].version = request[q].answer
                              /\ i < Len(h) => h[i + 1].from >= at + 1 - TtlSeconds - QueryTimeout
    BY <2>1 DEF Recent
  <2>3. h \in Seq(Entries) /\ at \in Nat
    BY <2>1, RequestIs DEF ApiIInv, HistoryInv, Entries, RequestStates
  <2>4. i < Len(h) => h[i + 1].from + TtlSeconds + QueryTimeout > at
    <3> SUFFICES ASSUME i < Len(h) PROVE h[i + 1].from + TtlSeconds + QueryTimeout > at
      OBVIOUS
    <3> HIDE DEF h, at
    <3>1. i + 1 \in DOMAIN h
      BY <2>2, <2>3
    <3>2. h[i + 1] \in Entries
      BY <2>3, <3>1
    <3>3. h[i + 1].from \in Nat
      BY <3>2 DEF Entries
    <3> QED BY <2>2, <2>3, <3>3, ApiConstants
  <2> QED BY <2>2, <2>4
<1> QED BY <1>1, ApiInvariant, PTL
=============================================================================
