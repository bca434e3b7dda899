--------------------------- MODULE SnapshotContract ---------------------------
(***************************************************************************)
(* What a snapshot of positions promises, and what the two programs that   *)
(* receive one accept: contracts.py, the parser of the frontend            *)
(* (vehiclePositions.ts) and the terminal client (websocket_client.py).    *)
(***************************************************************************)
EXTENDS PositionEstimate

TimingSources == {"absolute_realtime_time", "realtime_delay", "schedule_only"}

NoneTwice(positions) ==
    Cardinality({p.trip : p \in ToSet(positions)}) = Len(positions)

\* The evidence of a position: a delay exactly when it does not come from the
\* schedule alone.
IsEvident(position) ==
    /\ position.source \in TimingSources
    /\ position.source = "schedule_only" <=> position.delay = Absent

HasProvenance(position, snapshot) ==
    position.feed = snapshot.feed /\ position.observed = snapshot.observed

\* EstimatedVehiclePosition.__post_init__; the constants is_estimated and
\* position_status are left out.
PositionIsValid(position) == IsEvident(position)

\* VehiclePositionSnapshot.__post_init__.
SnapshotIsValid(snapshot) ==
    /\ snapshot.received \in Nat /\ snapshot.suppressed \in Nat
    /\ Len(snapshot.positions) + snapshot.suppressed = snapshot.received
    /\ NoneTwice(snapshot.positions)
    /\ \A p \in ToSet(snapshot.positions) : HasProvenance(p, snapshot)

\* to_websocket_event.
Event(snapshot) ==
    [feed |-> snapshot.feed, observed |-> snapshot.observed,
     positions |-> snapshot.positions, received |-> snapshot.received,
     estimated |-> Len(snapshot.positions), suppressed |-> snapshot.suppressed]

-----------------------------------------------------------------------------
(* The programs that receive it                                            *)

CountsAgree(event) ==
    /\ {event.received, event.estimated, event.suppressed} \subseteq Nat
    /\ event.estimated = Len(event.positions)
    /\ event.estimated + event.suppressed = event.received

\* isEstimatedVehiclePosition and _is_position agree on everything but the texts.
IsPositionFor(position, event) ==
    /\ IsEvident(position)
    /\ Representable(position.timestamp) /\ Representable(position.arrival)
    /\ Present(position.date)
    /\ position.category \in {Absent, "u_bahn", "s_bahn", "bus", "tram", "regional"}
    /\ HasProvenance(position, event)

IsSnapshot(event) ==
    /\ Representable(event.feed) /\ Representable(event.observed)
    /\ CountsAgree(event) /\ NoneTwice(event.positions)
    /\ \A p \in ToSet(event.positions) : IsPositionFor(p, event)

\* parseVehiclePositionSnapshotMessage.
ShownByBrowser(event) ==
    /\ IsSnapshot(event)
    /\ \A p \in ToSet(event.positions) : p.trip # Blank /\ p.route # Blank

\* _is_snapshot.
PrintedByTerminal(event) ==
    /\ IsSnapshot(event)
    /\ \A p \in ToSet(event.positions) :
        Blank \notin {Strip(text) : text \in
            {p.entity, p.trip, p.route, p.shape, p.previous, p.next}}
=============================================================================
