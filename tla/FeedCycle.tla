------------------------------ MODULE FeedCycle ------------------------------
(***************************************************************************)
(* One feed on its way from the decoder to the browser: the data of the    *)
(* cycle whose control, timeouts and crashes IngestionWorker models.       *)
(*                                                                         *)
(* The worker normalises and checks a feed, asks the database for the      *)
(* positions of its updates chunk by chunk, builds the snapshot, publishes *)
(* it and hands its delays to the analytics.  A failing chunk drops what   *)
(* the earlier ones gave; the cycle stays and starts over.                 *)
(***************************************************************************)
EXTENDS SnapshotContract

CONSTANTS
    Feeds,      \* decoded feeds
    Times,      \* values of observed_at
    Limits,     \* values of max_positions, Absent among them
    BatchSize

\* The end of datetime, the year 9999, is far away.
ASSUME FeedCycleAssumption ==
    /\ Times \subseteq MinTime .. MaxTime
    /\ \A at \in Times : at + 4 * (MaxInteger + 1) <= MaxTime
    /\ Limits \subseteq (Nat \ {0}) \cup {Absent}
    /\ BatchSize \in Nat \ {0}

\* The bindings decode a delay as an int32; a date that strptime takes is a date.
ASSUME FeedsAssumption ==
    \A f \in Feeds :
        /\ f.entities \in Seq(ToSet(f.entities))
        /\ \A e \in ToSet(f.entities) : Present(e.update) =>
            /\ e.update.date \in Int \cup {Absent, Garbled}
            /\ e.update.stops \in Seq(ToSet(e.update.stops))
            /\ \A s \in ToSet(e.update.stops) :
                {s.arrival.delay, s.departure.delay} \subseteq Int32 \cup {Absent}

VARIABLES
    pc,         \* "idle", "estimating", "published", or how the cycle failed
    feed,       \* what the source decoded
    observed,   \* observed_at of the cycle
    limit,      \* max_positions of the cycle
    offset,     \* updates before it have been estimated
    estimates,  \* results of estimate_many
    event,      \* the published snapshot
    rows        \* what the recorder gets

vars == <<pc, feed, observed, limit, offset, estimates, event, rows>>

Init ==
    /\ pc = "idle" /\ feed = Absent /\ observed = Absent /\ limit = Absent
    /\ offset = 0 /\ estimates = <<>> /\ event = Absent /\ rows = <<>>

-----------------------------------------------------------------------------
(* estimate_many                                                           *)

Matchable ==
    LET updates == Snapshot(feed).updates
    IN  Picked(updates, {i \in DOMAIN updates : IsMatchable(updates[i])})
IsCut(results) == limit # Absent /\ Len(results) >= limit
Chunk == SubSeq(Matchable, offset + 1, Min({offset + BatchSize, Len(Matchable)}))

EstimateOf(update, row) ==
    LET trip == Trips[row.trip]
    IN  [entity |-> update.entity, trip |-> row.trip, route |-> trip.route,
         shape |-> trip.shape, previous |-> row.previous, next |-> row.next,
         delay |-> row.delay, source |-> row.source, arrival |-> row.arrival,
         where |-> <<row.progress, row.fractions>>, observed |-> observed,
         feed |-> Absent, timestamp |-> update.timestamp, date |-> update.date,
         category |-> Category(trip.type, trip.name)]

\* What the query gives for the chunk, by input_index.
BatchRows ==
    LET answers == [i \in DOMAIN Chunk |-> <<i, BatchRow(Chunk[i], observed)>>]
    IN  Picked(answers, {i \in DOMAIN Chunk : answers[i][2] # NoRow})
EstimatesOfChunk ==
    [k \in DOMAIN BatchRows |-> EstimateOf(Chunk[BatchRows[k][1]], BatchRows[k][2])]

\* delay_seconds is cast to INTEGER, and the port checks the trips and the contract.
ChunkIsValid ==
    /\ \A r \in ToSet(BatchRows) :
        /\ r[2].delay = Absent \/ r[2].delay \in Int32
        /\ r[2].trip = Chunk[r[1]].trip
    /\ \A e \in ToSet(EstimatesOfChunk) : PositionIsValid(e)

-----------------------------------------------------------------------------
(* run_once                                                                *)

\* positions_by_trip: a trip keeps its first place and its last estimate.
PositionsByTrip(results) ==
    LET IsFirst(i) == \A j \in 1 .. (i - 1) : results[j].trip # results[i].trip
        firsts == Picked(results, {i \in DOMAIN results : IsFirst(i)})
        LastOf(trip) == results[Max({j \in DOMAIN results : results[j].trip = trip})]
    IN  [k \in DOMAIN firsts |-> LastOf(firsts[k].trip)]

Published ==
    LET received == Len(Snapshot(feed).updates)
        positions == PositionsByTrip(estimates)
    IN  [feed |-> feed.timestamp, observed |-> observed,
         positions |-> [i \in DOMAIN positions |->
                            [positions[i] EXCEPT !.feed = feed.timestamp]],
         received |-> received, suppressed |-> received - Len(positions)]

\* The source decodes a feed, and the worker keeps its snapshot.
Fetch ==
    /\ pc = "idle"
    /\ feed' \in Feeds /\ observed' \in Times /\ limit' \in Limits
    /\ pc' = IF FeedRefused(feed') THEN "refused"
             ELSE IF ~SnapshotIsSound(Snapshot(feed')) THEN "unsound"
             ELSE "estimating"
    /\ UNCHANGED <<offset, estimates, event, rows>>

Cut(results) == IF IsCut(results) THEN SubSeq(results, 1, limit) ELSE results
IsEstimated == offset >= Len(Matchable) \/ IsCut(estimates)

EstimateChunk ==
    /\ pc = "estimating" /\ ~IsEstimated
    /\ IF ChunkIsValid
       THEN /\ estimates' = Cut(estimates \o EstimatesOfChunk)
            /\ offset' = offset + BatchSize
            /\ UNCHANGED pc
       ELSE pc' = "stuck" /\ UNCHANGED <<offset, estimates>>
    /\ UNCHANGED <<feed, observed, limit, event, rows>>

\* The database cannot be reached; the next run estimates the cycle from its start.
FailToEstimate ==
    /\ pc = "estimating" /\ ~IsEstimated
    /\ offset' = 0 /\ estimates' = <<>>
    /\ UNCHANGED <<pc, feed, observed, limit, event, rows>>

Publish ==
    /\ pc = "estimating" /\ IsEstimated
    /\ IF SnapshotIsValid(Published)
       THEN /\ pc' = "published" /\ event' = Event(Published)
            /\ rows' = AggregateRows(Published.positions)
       ELSE pc' = "invalid" /\ UNCHANGED <<event, rows>>
    /\ UNCHANGED <<feed, observed, limit, offset, estimates>>

\* The cycle is over, whether it was published or refused for good.
NextCycle ==
    /\ pc \notin {"idle", "estimating", "stuck"}
    /\ pc' = "idle" /\ feed' = Absent /\ observed' = Absent /\ limit' = Absent
    /\ offset' = 0 /\ estimates' = <<>> /\ event' = Absent /\ rows' = <<>>

Next == Fetch \/ EstimateChunk \/ FailToEstimate \/ Publish \/ NextCycle
Spec == Init /\ [][Next]_vars

-----------------------------------------------------------------------------
(* Properties                                                              *)

\* The worker's own check (worker.py:156) never refuses a decoded feed.
NeverUnsound == pc # "unsound"

\* A feed that normalization.py accepts makes it to the screen: neither the worker's
\* own check (worker.py:156), nor the database's INTEGER, nor the contracts
\* (contracts.py:55, 116) refuse what comes of it, the browser shows the published
\* snapshot (vehiclePositions.ts:61), the terminal client prints it unless an entity
\* has a blank id (websocket_client.py:143), and the analytics take its rows.
AcceptedFeedsAreShown ==
    /\ NeverUnsound
    /\ pc \notin {"stuck", "invalid"}
    /\ pc = "published" =>
        /\ ShownByBrowser(event)
        /\ PrintedByTerminal(event) <=>
              \A p \in ToSet(event.positions) : Strip(p.entity) # Blank
        /\ \A row \in ToSet(rows) : RowIsSound(row)

ShownRow(p) ==
    [trip |-> p.trip, previous |-> p.previous, next |-> p.next, source |-> p.source,
     arrival |-> p.arrival, delay |-> p.delay, progress |-> p.where[1],
     fractions |-> p.where[2]]

\* Chunks, the limit, repeated trips and the rewritten batch query change nothing: a
\* position is what the function for one trip (postgis.py:74) may say of one of the
\* feed's updates, of the last one of the trip if it can be placed, and without a
\* limit every trip that can be placed is there.
ShownAsEstimatedAlone ==
    pc = "published" =>
        LET Alone(u) == SingleRows(u, observed)
            shown == ToSet(event.positions)
            CanBePlaced(i) == NoRow \notin Alone(Matchable[i])
        IN  /\ \A p \in shown : \E i \in DOMAIN Matchable :
                /\ Matchable[i].trip = p.trip /\ Matchable[i].entity = p.entity
                /\ ShownRow(p) \in Alone(Matchable[i])
                /\ limit = Absent =>
                    \A j \in (i + 1) .. Len(Matchable) :
                        Matchable[j].trip = p.trip => ~CanBePlaced(j)
            /\ limit = Absent =>
                \A i \in DOMAIN Matchable : CanBePlaced(i) =>
                    \E p \in shown : p.trip = Matchable[i].trip
=============================================================================
