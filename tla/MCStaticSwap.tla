---------------------------- MODULE MCStaticSwap ----------------------------
(***************************************************************************)
(* Two overlapping runs of the updater, which are interchangeable, with a  *)
(* record of what the faults have struck.                                  *)
(***************************************************************************)
EXTENDS StaticSwap, TLC

VARIABLE struck   \* history: the contexts that a fault has struck

MCInit == Init /\ struck = {}

MCNext ==
    \E u \in Updaters :
        /\ Step(u)
        /\ struck' = IF faults' > faults THEN struck \cup {context[u]} ELSE struck

MCSpec == MCInit /\ [][MCNext]_<<vars, struck>>

\* As long as faults strike swaps only, be it the swap of one updater after the
\* other, no recovery has to refuse what an earlier run left on the disk.
RecoveriesRefuseOnlyTheirOwn == struck \subseteq {"swapping"} => RecoveryNeverRefuses

UpdaterSymmetry == Permutations(Updaters)
=============================================================================
