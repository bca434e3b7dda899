--------------------------- MODULE SnapshotStore ---------------------------
(***************************************************************************)
(* What the static GTFS updater promises of the installed feed: there is   *)
(* one active pair of snapshot directory and manifest, and the two change  *)
(* together, to a version that was validated.                              *)
(***************************************************************************)
VARIABLES
    active,    \* the active pair
    validated  \* versions that passed validation

CONSTANTS
    Versions,  \* what can be installed
    Absent     \* nothing installed

Pair(version, with) == [output |-> version, manifest |-> with]

\* The updater may start from a snapshot whose manifest is missing, or from a
\* manifest without its snapshot, but not from two that do not match.
Init ==
    /\ validated = {}
    /\ \E initial \in Versions :
         active \in {Pair(o, m) : o \in {Absent, initial}, m \in {Absent, initial}}

Validate ==
    /\ \E version \in Versions : validated' = validated \cup {version}
    /\ UNCHANGED active

Install ==
    /\ \E version \in validated : active' = Pair(version, version)
    /\ UNCHANGED validated

Next == Validate \/ Install

Spec == Init /\ [][Next]_<<active, validated>>
=============================================================================
