---------------------------- MODULE SnapshotFeed ----------------------------
(***************************************************************************)
(* What the hub promises to the peers of its sockets, without locks, tasks *)
(* or timers: a feed announces numbered snapshots, and a viewer is shown   *)
(* some of them, in order, none that was superseded before it joined and   *)
(* none that was not yet announced.  (Only the last one is remembered, so  *)
(* that showing it again is no step of a feed: that this does not happen   *)
(* is PositionHub's DeliversInOrder.)                                      *)
(***************************************************************************)
EXTENDS Naturals

CONSTANT Viewers

VARIABLES
    latest,  \* the newest announced snapshot, 0 before the first
    floor,   \* the newest snapshot at the time the viewer joined
    shown    \* the last snapshot shown to the viewer

feedVars == <<latest, floor, shown>>

Init ==
    /\ latest = 0
    /\ floor = [v \in Viewers |-> 0]
    /\ shown = [v \in Viewers |-> 0]

Announce ==
    /\ latest' \in Nat
    /\ latest' > latest
    /\ UNCHANGED <<floor, shown>>

Join(v) ==
    /\ floor[v] = 0
    /\ shown[v] = 0
    /\ floor' = [floor EXCEPT ![v] = latest]
    /\ UNCHANGED <<latest, shown>>

Show(v) ==
    \E n \in floor[v] .. latest :
        /\ shown[v] < n
        /\ shown' = [shown EXCEPT ![v] = n]
        /\ UNCHANGED <<latest, floor>>

Next == Announce \/ \E v \in Viewers : Join(v) \/ Show(v)

Spec == Init /\ [][Next]_feedVars
=============================================================================
