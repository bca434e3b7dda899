-------------------------- MODULE StaticSwapProofs --------------------------
(***************************************************************************)
(* Atomicity of the exchange for any number of updaters, candidates, and   *)
(* faults, from the inductive invariant IInv.                              *)
(***************************************************************************)
EXTENDS MCStaticSwap, TLAPS

-----------------------------------------------------------------------------
(* The inductive invariant                                                 *)

\* The disk against the journal, whoever is at work or was killed.
DiskInv ==
    /\ NoLeftovers
    /\ journal.state = "committed" => ~ HasStaleFailed
    /\ Interrupted =>
         /\ Exists("backup") => journal.had_output
         /\ Exists("manifest_backup") => journal.had_manifest
         /\ journal.state \in {"promoting_snapshot", "promoting_manifest"} \/ journal.had_output
              \/ ~ Exists("output")
         /\ journal.state = "promoting_manifest" \/ journal.had_manifest \/ ~ Exists("manifest")

\* A recovery at work: what it has put back and cleaned up so far.
PutBack(path, backup, had) == ~ Exists(backup) /\ (had \/ ~ Exists(path))

RecoveryInv ==
    \A u \in Updaters :
        /\ pc[u] = "check" => journal = NoJournal
        /\ pc[u] \in {"restore_output", "restore_manifest"} => Interrupted
        /\ pc[u] \in {"remove_backup", "remove_manifest_backup"} => journal.state = "committed"
        /\ pc[u] \in {"remove_failed", "remove_failed_manifest", "unlink_journal"} =>
              /\ journal # NoJournal
              /\ ~ Exists("backup") /\ ~ Exists("manifest_backup")
              /\ Interrupted => PutBack("manifest", "manifest_backup", journal.had_manifest)
        /\ pc[u] \in {"restore_manifest", "remove_failed", "remove_failed_manifest", "unlink_journal"}
              /\ Interrupted => PutBack("output", "backup", journal.had_output)
        /\ pc[u] = "remove_manifest_backup" => ~ Exists("backup")
        /\ pc[u] \in {"remove_failed_manifest", "unlink_journal"} => ~ Exists("failed")
        /\ pc[u] = "unlink_journal" => ~ Exists("failed_manifest")

\* A swap at work: which renames it has behind it.
Untouched(path, backup, had) == ~ Exists(backup) /\ (Exists(path) <=> had)
BackedUp(path, backup, had) == (Exists(backup) <=> had) /\ ~ Exists(path)

SwapInv ==
    \A u \in Updaters : pc[u] \in {"journalling", "renaming"} =>
        /\ memory[u] \in Journals
        /\ ~ HasStaleFailed
        /\ IF memory[u].state = "prepared"
             THEN journal = NoJournal /\ pc[u] = "journalling"
             ELSE /\ Interrupted
                  /\ journal.had_output = memory[u].had_output
                  /\ journal.had_manifest = memory[u].had_manifest
        /\ pc[u] = "renaming" => journal = memory[u]
        /\ memory[u].state = "backing_up_snapshot" => memory[u].had_output
        /\ memory[u].state = "backing_up_manifest" => memory[u].had_manifest
        /\ memory[u].state \in {"prepared", "backing_up_snapshot"} =>
              Untouched("output", "backup", memory[u].had_output)
        /\ memory[u].state \in {"prepared", "backing_up_snapshot", "backing_up_manifest"} =>
              Untouched("manifest", "manifest_backup", memory[u].had_manifest)
        /\ memory[u].state \in {"backing_up_manifest", "promoting_snapshot"} =>
              BackedUp("output", "backup", memory[u].had_output)
        /\ memory[u].state \in {"promoting_snapshot", "promoting_manifest"} =>
              BackedUp("manifest", "manifest_backup", memory[u].had_manifest)
        /\ memory[u].state \in {"promoting_manifest", "committed"} => fs["output"] = candidate[u]
        /\ memory[u].state = "committed" => fs["manifest"] = candidate[u]

Restoring == {"restore_output", "restore_manifest"}

CandidateInv == \A u \in Updaters : pc[u] # "idle" => candidate[u] \in 1 .. updates

\* What a run may be doing in each context, and what a swap that has committed left.
ContextInv ==
    \A u \in Updaters :
        /\ pc[u] \in {"locking", "check"} => context[u] = "recovering"
        /\ pc[u] \in {"recover", "remove_failed", "remove_failed_manifest"} \cup Restoring =>
              context[u] # "swapping"
        /\ pc[u] \in {"journalling", "renaming"} => context[u] = "swapping"
        /\ context[u] = "swapping"
              /\ pc[u] \in {"remove_backup", "remove_manifest_backup", "unlink_journal"} =>
              /\ journal.state = "committed"
              /\ fs["output"] = candidate[u] /\ fs["manifest"] = candidate[u]

\* What a swap found is either in place or in its backup until the swap commits.
NothingIsLost ==
    Interrupted =>
        /\ journal.had_output => Exists("output") \/ Exists("backup")
        /\ journal.had_manifest => Exists("manifest") \/ Exists("manifest_backup")

IInv ==
    /\ TypeOK /\ DiskInv /\ RecoveryInv /\ SwapInv /\ CandidateInv
    /\ ContextInv /\ NothingIsLost

\* As long as faults strike swaps only, what a rollback has moved away is still being
\* cleaned up by the run that moved it.
StruckInv ==
    (struck \subseteq {"swapping"} /\ Interrupted /\ HasStaleFailed) =>
        \E u \in Updaters :
            pc[u] \in Restoring \cup {"remove_failed", "remove_failed_manifest"}

-----------------------------------------------------------------------------
(* The proofs                                                              *)

\* A disk with an installed pair, or with none, and no journal satisfies the invariant.
LEMMA InitIInv == Init => IInv
<1> SUFFICES ASSUME Init
             PROVE  IInv
  OBVIOUS
<1> USE StaticSwapAssumption DEF Init, Paths, Artifacts, NoJournal
<1>1. TypeOK
  <2>1. fs \in [Paths -> Versions \cup {Absent, Partial}]
    BY DEF Versions
  <2>2. 0 \in Versions /\ 0 \in 0 .. MaxUpdates /\ 0 \in 0 .. MaxFaults
    BY DEF Versions
  <2> QED
    BY <2>1, <2>2 DEF TypeOK, Labels, Contexts, Outcomes
<1>2. DiskInv
  BY DEF DiskInv, NoLeftovers, Exists, Interrupted, HasStaleFailed
<1>3. RecoveryInv /\ SwapInv /\ CandidateInv
  BY DEF RecoveryInv, SwapInv, CandidateInv
<1>4. ContextInv /\ NothingIsLost
  BY DEF ContextInv, NothingIsLost, Restoring, Interrupted
<1> QED
  BY <1>1, <1>2, <1>3, <1>4 DEF IInv

\* The journal that a swap starts with says what there is to back up.
LEMMA PreparedType ==
    /\ Prepared \in Journals
    /\ Prepared.state = "prepared"
    /\ Prepared.had_output = Exists("output")
    /\ Prepared.had_manifest = Exists("manifest")
BY DEF Prepared, Journals, Stages, Exists

\* Every step preserves the types, and only the holder of the lock works.
LEMMA StepTypeOK ==
    ASSUME IInv, NEW u \in Updaters, Step(u)
    PROVE  TypeOK'
<1> USE StaticSwapAssumption
    DEF IInv, TypeOK, DiskInv, RecoveryInv, SwapInv, CandidateInv, NoLeftovers, PutBack,
        Untouched, BackedUp,
        Exists, Interrupted, HasStaleFailed, Artifacts, Paths, Stages, Journals, NoJournal,
        Labels, Removals, Outcomes, Contexts, Directories, Versions, Goto, Working
<1>1. Begin(u) => TypeOK'
  BY DEF Begin
<1>2. TakeLock(u) => TypeOK'
  BY DEF TakeLock
<1>3. LockIsTaken(u) => TypeOK'
  BY DEF LockIsTaken, Finish
<1>4. NothingToRecover(u) => TypeOK'
  <2> SUFFICES ASSUME NothingToRecover(u)
               PROVE  TypeOK'
    OBVIOUS
  <2> USE DEF NothingToRecover, Recovered, Finish
  <2>1. CASE context[u] = "rolling_back"
    BY <2>1
  <2>2. CASE context[u] # "rolling_back"
    BY <2>2
  <2> QED
    BY <2>1, <2>2
<1>5. RecoverCommitted(u) => TypeOK'
  BY DEF RecoverCommitted
<1>6. RefuseStaleFailed(u) => TypeOK'
  BY DEF RefuseStaleFailed, Refuse, Finish
<1>7. RecoverInterrupted(u) => TypeOK'
  BY DEF RecoverInterrupted
<1>8. RestoreOutput(u) => TypeOK'
  <2> SUFFICES ASSUME RestoreOutput(u)
               PROVE  TypeOK'
    OBVIOUS
  <2>1. CASE fs' = fs /\ Refuse(u)
    BY <2>1 DEF RestoreOutput, MoveAway, MoveBack, LeaveInPlace, Refuse, Finish
  <2>4. CASE fs' = fs /\ Goto(u, "restore_manifest") /\ UNCHANGED <<lock, outcome>>
    BY <2>4 DEF RestoreOutput, MoveAway, MoveBack, LeaveInPlace
  <2>2. CASE Rename("output", "failed") /\ UNCHANGED pc
    BY <2>2 DEF RestoreOutput, MoveAway, MoveBack, LeaveInPlace, Refuse, Finish, Rename
  <2>3. CASE Rename("backup", "output") /\ Goto(u, "restore_manifest")
    BY <2>3 DEF RestoreOutput, MoveAway, MoveBack, LeaveInPlace, Refuse, Finish, Rename
  <2> QED
    BY <2>1, <2>2, <2>3, <2>4 DEF RestoreOutput, MoveAway, MoveBack, LeaveInPlace
<1>9. RestoreManifest(u) => TypeOK'
  <2> SUFFICES ASSUME RestoreManifest(u)
               PROVE  TypeOK'
    OBVIOUS
  <2>1. CASE fs' = fs /\ Refuse(u)
    BY <2>1 DEF RestoreManifest, MoveAway, MoveBack, LeaveInPlace, Refuse, Finish
  <2>4. CASE fs' = fs /\ Goto(u, "remove_failed") /\ UNCHANGED <<lock, outcome>>
    BY <2>4 DEF RestoreManifest, MoveAway, MoveBack, LeaveInPlace
  <2>2. CASE Rename("manifest", "failed_manifest") /\ UNCHANGED pc
    BY <2>2 DEF RestoreManifest, MoveAway, MoveBack, LeaveInPlace, Refuse, Finish, Rename
  <2>3. CASE Rename("manifest_backup", "manifest") /\ Goto(u, "remove_failed")
    BY <2>3 DEF RestoreManifest, MoveAway, MoveBack, LeaveInPlace, Refuse, Finish, Rename
  <2> QED
    BY <2>1, <2>2, <2>3, <2>4 DEF RestoreManifest, MoveAway, MoveBack, LeaveInPlace
<1>10. RemoveArtifact(u) => TypeOK'
  BY DEF RemoveArtifact, Remove, Removed, AfterRemoving
<1>11. UnlinkJournal(u) => TypeOK'
  <2> SUFFICES ASSUME UnlinkJournal(u)
               PROVE  TypeOK'
    OBVIOUS
  <2> USE DEF UnlinkJournal, Recovered, Finish
  <2>1. CASE context[u] = "swapping"
    BY <2>1
  <2>2. CASE context[u] = "rolling_back"
    BY <2>2
  <2>3. CASE context[u] = "recovering"
    <3>1. /\ pc' = [pc EXCEPT ![u] = "check"] /\ lock = u
          /\ UNCHANGED <<fs, lock, context, candidate, memory, outcome, updates, faults>>
      BY <2>3
    <3>2. journal' = NoJournal
      OBVIOUS
    <3>3. "check" \in Labels
      OBVIOUS
    <3> QED
      BY <3>1, <3>2, <3>3
  <2> QED
    BY <2>1, <2>2, <2>3
<1>12. StartSwap(u) => TypeOK'
  <2> SUFFICES ASSUME StartSwap(u)
               PROVE  TypeOK'
    OBVIOUS
  <2>1. CASE \E path \in Artifacts : Exists(path)
    BY <2>1 DEF StartSwap, Finish
  <2>2. CASE ~ \E path \in Artifacts : Exists(path)
    <3>1. memory' \in [Updaters -> Journals \cup {NoJournal}]
      <4>1. memory' = [memory EXCEPT ![u] = Prepared]
        BY <2>2 DEF StartSwap
      <4>2. Prepared \in Journals /\ memory \in [Updaters -> Journals \cup {NoJournal}]
        BY PreparedType
      <4> HIDE DEF Journals, NoJournal
      <4> QED
        BY <4>1, <4>2
    <3>2. /\ UNCHANGED <<fs, journal, lock, outcome, candidate, updates, faults>>
          /\ pc' = [pc EXCEPT ![u] = "journalling"]
          /\ context' = [context EXCEPT ![u] = "swapping"]
      BY <2>2 DEF StartSwap
    <3>3. lock = u
      BY <2>2 DEF StartSwap
    <3> HIDE DEF Journals, NoJournal
    <3> QED
      BY <3>1, <3>2, <3>3
  <2> QED
    BY <2>1, <2>2
<1>13. JournalPrepared(u) => TypeOK'
  BY DEF JournalPrepared, ToNextStage, NextStage
<1>14. JournalStage(u) => TypeOK'
  BY DEF JournalStage
<1>15. JournalCommitted(u) => TypeOK'
  BY DEF JournalCommitted
<1>16. RenameForStage(u) => TypeOK'
  BY DEF RenameForStage, Renamed, ToNextStage, NextStage
<1>17. SwapFails(u) => TypeOK'
  BY DEF SwapFails, Strike, Damage, Removed
<1>18. RecoveryFails(u) => TypeOK'
  BY DEF RecoveryFails, Strike, Damage, Removed, Refuse, Finish
<1>19. Kill(u) => TypeOK'
  BY DEF Kill, Strike, Damage, Removed, Finish
<1> QED
  BY <1>1, <1>2, <1>3, <1>4, <1>5, <1>6, <1>7, <1>8, <1>9, <1>10, <1>11,
     <1>12, <1>13, <1>14, <1>15, <1>16, <1>17, <1>18, <1>19
  DEF Step, Recovery, Swap

\* Every step leaves a disk that a recovery understands.
LEMMA StepDiskInv ==
    ASSUME IInv, NEW u \in Updaters, Step(u)
    PROVE  DiskInv'
<1> USE StaticSwapAssumption
    DEF IInv, TypeOK, DiskInv, RecoveryInv, SwapInv, CandidateInv, NoLeftovers, PutBack,
        Untouched, BackedUp,
        Exists, Interrupted, HasStaleFailed, Artifacts, Paths, Stages, Journals, NoJournal,
        Labels, Removals, Outcomes, Contexts, Directories, Versions, Goto, Working
<1>1. Begin(u) => DiskInv'
  BY DEF Begin
<1>2. TakeLock(u) => DiskInv'
  BY DEF TakeLock
<1>3. LockIsTaken(u) => DiskInv'
  BY DEF LockIsTaken, Finish
<1>4. NothingToRecover(u) => DiskInv'
  BY DEF NothingToRecover, Recovered, Finish
<1>5. RecoverCommitted(u) => DiskInv'
  BY DEF RecoverCommitted
<1>6. RefuseStaleFailed(u) => DiskInv'
  BY DEF RefuseStaleFailed, Refuse, Finish
<1>7. RecoverInterrupted(u) => DiskInv'
  BY DEF RecoverInterrupted
<1>8. RestoreOutput(u) => DiskInv'
  BY DEF RestoreOutput, MoveAway, MoveBack, LeaveInPlace, Refuse, Finish, Rename
<1>9. RestoreManifest(u) => DiskInv'
  BY DEF RestoreManifest, MoveAway, MoveBack, LeaveInPlace, Refuse, Finish, Rename
<1>10. RemoveArtifact(u) => DiskInv'
  BY DEF RemoveArtifact, Remove, Removed, AfterRemoving
<1>11. UnlinkJournal(u) => DiskInv'
  BY DEF UnlinkJournal, Recovered, Finish
<1>12. StartSwap(u) => DiskInv'
  BY DEF StartSwap, Finish
<1>13. JournalPrepared(u) => DiskInv'
  BY DEF JournalPrepared, ToNextStage, NextStage
<1>14. JournalStage(u) => DiskInv'
  BY DEF JournalStage
<1>15. JournalCommitted(u) => DiskInv'
  BY DEF JournalCommitted
<1>16. RenameForStage(u) => DiskInv'
  BY DEF RenameForStage, Renamed, ToNextStage, NextStage
<1>17. SwapFails(u) => DiskInv'
  BY DEF SwapFails, Strike, Damage, Removed
<1>18. RecoveryFails(u) => DiskInv'
  BY DEF RecoveryFails, Strike, Damage, Removed, Refuse, Finish
<1>19. Kill(u) => DiskInv'
  BY DEF Kill, Strike, Damage, Removed, Finish
<1> QED
  BY <1>1, <1>2, <1>3, <1>4, <1>5, <1>6, <1>7, <1>8, <1>9, <1>10, <1>11,
     <1>12, <1>13, <1>14, <1>15, <1>16, <1>17, <1>18, <1>19
  DEF Step, Recovery, Swap

\* Every step keeps track of what a recovery has put back.
LEMMA StepRecoveryInv ==
    ASSUME IInv, NEW u \in Updaters, Step(u)
    PROVE  RecoveryInv'
<1> USE StaticSwapAssumption
    DEF IInv, TypeOK, DiskInv, RecoveryInv, SwapInv, CandidateInv, NoLeftovers, PutBack,
        Untouched, BackedUp,
        Exists, Interrupted, HasStaleFailed, Artifacts, Paths, Stages, Journals, NoJournal,
        Labels, Removals, Outcomes, Contexts, Directories, Versions, Goto, Working
<1>1. Begin(u) => RecoveryInv'
  BY DEF Begin
<1>2. TakeLock(u) => RecoveryInv'
  BY DEF TakeLock
<1>3. LockIsTaken(u) => RecoveryInv'
  BY DEF LockIsTaken, Finish
<1>4. NothingToRecover(u) => RecoveryInv'
  BY DEF NothingToRecover, Recovered, Finish
<1>5. RecoverCommitted(u) => RecoveryInv'
  BY DEF RecoverCommitted
<1>6. RefuseStaleFailed(u) => RecoveryInv'
  BY DEF RefuseStaleFailed, Refuse, Finish
<1>7. RecoverInterrupted(u) => RecoveryInv'
  BY DEF RecoverInterrupted
<1>8. RestoreOutput(u) => RecoveryInv'
  BY DEF RestoreOutput, MoveAway, MoveBack, LeaveInPlace, Refuse, Finish, Rename
<1>9. RestoreManifest(u) => RecoveryInv'
  BY DEF RestoreManifest, MoveAway, MoveBack, LeaveInPlace, Refuse, Finish, Rename
<1>10. RemoveArtifact(u) => RecoveryInv'
  BY DEF RemoveArtifact, Remove, Removed, AfterRemoving
<1>11. UnlinkJournal(u) => RecoveryInv'
  BY DEF UnlinkJournal, Recovered, Finish
<1>12. StartSwap(u) => RecoveryInv'
  BY DEF StartSwap, Finish
<1>13. JournalPrepared(u) => RecoveryInv'
  BY DEF JournalPrepared, ToNextStage, NextStage
<1>14. JournalStage(u) => RecoveryInv'
  BY DEF JournalStage
<1>15. JournalCommitted(u) => RecoveryInv'
  BY DEF JournalCommitted
<1>16. RenameForStage(u) => RecoveryInv'
  BY DEF RenameForStage, Renamed, ToNextStage, NextStage
<1>17. SwapFails(u) => RecoveryInv'
  BY DEF SwapFails, Strike, Damage, Removed
<1>18. RecoveryFails(u) => RecoveryInv'
  BY DEF RecoveryFails, Strike, Damage, Removed, Refuse, Finish
<1>19. Kill(u) => RecoveryInv'
  BY DEF Kill, Strike, Damage, Removed, Finish
<1> QED
  BY <1>1, <1>2, <1>3, <1>4, <1>5, <1>6, <1>7, <1>8, <1>9, <1>10, <1>11,
     <1>12, <1>13, <1>14, <1>15, <1>16, <1>17, <1>18, <1>19
  DEF Step, Recovery, Swap

\* Every step keeps track of what a swap has renamed.
LEMMA StepSwapInv ==
    ASSUME IInv, NEW u \in Updaters, Step(u)
    PROVE  SwapInv'
<1> USE StaticSwapAssumption
    DEF IInv, TypeOK, DiskInv, RecoveryInv, SwapInv, CandidateInv, NoLeftovers, PutBack,
        Untouched, BackedUp,
        Exists, Interrupted, HasStaleFailed, Artifacts, Paths, Stages, Journals, NoJournal,
        Labels, Removals, Outcomes, Contexts, Directories, Versions, Goto, Working
<1>1. Begin(u) => SwapInv'
  BY DEF Begin
<1>2. TakeLock(u) => SwapInv'
  BY DEF TakeLock
<1>3. LockIsTaken(u) => SwapInv'
  BY DEF LockIsTaken, Finish
<1>4. NothingToRecover(u) => SwapInv'
  BY DEF NothingToRecover, Recovered, Finish
<1>5. RecoverCommitted(u) => SwapInv'
  BY DEF RecoverCommitted
<1>6. RefuseStaleFailed(u) => SwapInv'
  BY DEF RefuseStaleFailed, Refuse, Finish
<1>7. RecoverInterrupted(u) => SwapInv'
  BY DEF RecoverInterrupted
<1>8. RestoreOutput(u) => SwapInv'
  BY DEF RestoreOutput, MoveAway, MoveBack, LeaveInPlace, Refuse, Finish, Rename
<1>9. RestoreManifest(u) => SwapInv'
  BY DEF RestoreManifest, MoveAway, MoveBack, LeaveInPlace, Refuse, Finish, Rename
<1>10. RemoveArtifact(u) => SwapInv'
  BY DEF RemoveArtifact, Remove, Removed, AfterRemoving
<1>11. UnlinkJournal(u) => SwapInv'
  BY DEF UnlinkJournal, Recovered, Finish
<1>12. StartSwap(u) => SwapInv'
  <2> SUFFICES ASSUME StartSwap(u)
               PROVE  SwapInv'
    OBVIOUS
  <2>1. CASE \E path \in Artifacts : Exists(path)
    BY <2>1 DEF StartSwap, Finish
  <2>2. CASE ~ \E path \in Artifacts : Exists(path)
    <3>1. memory'[u] = Prepared
      BY <2>2 DEF StartSwap
    <3>2. pc'[u] = "journalling" /\ journal' = NoJournal /\ fs' = fs
      BY <2>2 DEF StartSwap
    <3>3. \A v \in Updaters : v # u => pc'[v] \in {"idle", "locking"}
      BY <2>2 DEF StartSwap
    <3> QED
      BY <2>2, <3>1, <3>2, <3>3, PreparedType
  <2> QED
    BY <2>1, <2>2
<1>13. JournalPrepared(u) => SwapInv'
  BY DEF JournalPrepared, ToNextStage, NextStage
<1>14. JournalStage(u) => SwapInv'
  BY DEF JournalStage
<1>15. JournalCommitted(u) => SwapInv'
  BY DEF JournalCommitted
<1>16. RenameForStage(u) => SwapInv'
  BY DEF RenameForStage, Renamed, ToNextStage, NextStage
<1>17. SwapFails(u) => SwapInv'
  BY DEF SwapFails, Strike, Damage, Removed
<1>18. RecoveryFails(u) => SwapInv'
  BY DEF RecoveryFails, Strike, Damage, Removed, Refuse, Finish
<1>19. Kill(u) => SwapInv'
  BY DEF Kill, Strike, Damage, Removed, Finish
<1> QED
  BY <1>1, <1>2, <1>3, <1>4, <1>5, <1>6, <1>7, <1>8, <1>9, <1>10, <1>11,
     <1>12, <1>13, <1>14, <1>15, <1>16, <1>17, <1>18, <1>19
  DEF Step, Recovery, Swap

\* Every updater works for a validated candidate.
LEMMA StepCandidateInv ==
    ASSUME IInv, NEW u \in Updaters, Step(u)
    PROVE  CandidateInv'
<1> USE StaticSwapAssumption
    DEF IInv, TypeOK, DiskInv, RecoveryInv, SwapInv, CandidateInv, NoLeftovers, PutBack,
        Untouched, BackedUp,
        Exists, Interrupted, HasStaleFailed, Artifacts, Paths, Stages, Journals, NoJournal,
        Labels, Removals, Outcomes, Contexts, Directories, Versions, Goto, Working
<1>1. Begin(u) => CandidateInv'
  BY DEF Begin
<1>2. TakeLock(u) => CandidateInv'
  BY DEF TakeLock
<1>3. LockIsTaken(u) => CandidateInv'
  BY DEF LockIsTaken, Finish
<1>4. NothingToRecover(u) => CandidateInv'
  BY DEF NothingToRecover, Recovered, Finish
<1>5. RecoverCommitted(u) => CandidateInv'
  BY DEF RecoverCommitted
<1>6. RefuseStaleFailed(u) => CandidateInv'
  BY DEF RefuseStaleFailed, Refuse, Finish
<1>7. RecoverInterrupted(u) => CandidateInv'
  BY DEF RecoverInterrupted
<1>8. RestoreOutput(u) => CandidateInv'
  BY DEF RestoreOutput, MoveAway, MoveBack, LeaveInPlace, Refuse, Finish, Rename
<1>9. RestoreManifest(u) => CandidateInv'
  BY DEF RestoreManifest, MoveAway, MoveBack, LeaveInPlace, Refuse, Finish, Rename
<1>10. RemoveArtifact(u) => CandidateInv'
  BY DEF RemoveArtifact, Remove, Removed, AfterRemoving
<1>11. UnlinkJournal(u) => CandidateInv'
  BY DEF UnlinkJournal, Recovered, Finish
<1>12. StartSwap(u) => CandidateInv'
  BY DEF StartSwap, Finish
<1>13. JournalPrepared(u) => CandidateInv'
  BY DEF JournalPrepared, ToNextStage, NextStage
<1>14. JournalStage(u) => CandidateInv'
  BY DEF JournalStage
<1>15. JournalCommitted(u) => CandidateInv'
  BY DEF JournalCommitted
<1>16. RenameForStage(u) => CandidateInv'
  BY DEF RenameForStage, Renamed, ToNextStage, NextStage
<1>17. SwapFails(u) => CandidateInv'
  BY DEF SwapFails, Strike, Damage, Removed
<1>18. RecoveryFails(u) => CandidateInv'
  BY DEF RecoveryFails, Strike, Damage, Removed, Refuse, Finish
<1>19. Kill(u) => CandidateInv'
  BY DEF Kill, Strike, Damage, Removed, Finish
<1> QED
  BY <1>1, <1>2, <1>3, <1>4, <1>5, <1>6, <1>7, <1>8, <1>9, <1>10, <1>11,
     <1>12, <1>13, <1>14, <1>15, <1>16, <1>17, <1>18, <1>19
  DEF Step, Recovery, Swap

\* A swap that has committed has its candidate in place until it reports.
LEMMA StepContextInv ==
    ASSUME IInv, NEW u \in Updaters, Step(u)
    PROVE  ContextInv'
<1> USE StaticSwapAssumption
    DEF IInv, TypeOK, DiskInv, RecoveryInv, SwapInv, CandidateInv, ContextInv, NothingIsLost,
        NoLeftovers, PutBack, Untouched, BackedUp, Restoring,
        Exists, Interrupted, HasStaleFailed, Artifacts, Paths, Stages, Journals, NoJournal,
        Labels, Removals, Outcomes, Contexts, Directories, Versions, Goto, Working
<1>1. Begin(u) => ContextInv'
  BY DEF Begin
<1>2. TakeLock(u) => ContextInv'
  BY DEF TakeLock
<1>3. LockIsTaken(u) => ContextInv'
  BY DEF LockIsTaken, Finish
<1>4. NothingToRecover(u) => ContextInv'
  BY DEF NothingToRecover, Recovered, Finish
<1>5. RecoverCommitted(u) => ContextInv'
  BY DEF RecoverCommitted
<1>6. RefuseStaleFailed(u) => ContextInv'
  BY DEF RefuseStaleFailed, Refuse, Finish
<1>7. RecoverInterrupted(u) => ContextInv'
  BY DEF RecoverInterrupted
<1>8. RestoreOutput(u) => ContextInv'
  BY DEF RestoreOutput, MoveAway, MoveBack, LeaveInPlace, Refuse, Finish, Rename
<1>9. RestoreManifest(u) => ContextInv'
  BY DEF RestoreManifest, MoveAway, MoveBack, LeaveInPlace, Refuse, Finish, Rename
<1>10. RemoveArtifact(u) => ContextInv'
  BY DEF RemoveArtifact, Remove, Removed, AfterRemoving
<1>11. UnlinkJournal(u) => ContextInv'
  BY DEF UnlinkJournal, Recovered, Finish
<1>12. StartSwap(u) => ContextInv'
  BY DEF StartSwap, Finish
<1>13. JournalPrepared(u) => ContextInv'
  BY DEF JournalPrepared, ToNextStage, NextStage
<1>14. JournalStage(u) => ContextInv'
  BY DEF JournalStage
<1>15. JournalCommitted(u) => ContextInv'
  BY DEF JournalCommitted
<1>16. RenameForStage(u) => ContextInv'
  BY DEF RenameForStage, Renamed, ToNextStage, NextStage
<1>17. SwapFails(u) => ContextInv'
  BY DEF SwapFails, Strike, Damage, Removed
<1>18. RecoveryFails(u) => ContextInv'
  BY DEF RecoveryFails, Strike, Damage, Removed, Refuse, Finish
<1>19. Kill(u) => ContextInv'
  BY DEF Kill, Strike, Damage, Removed, Finish
<1> QED
  BY <1>1, <1>2, <1>3, <1>4, <1>5, <1>6, <1>7, <1>8, <1>9, <1>10, <1>11,
     <1>12, <1>13, <1>14, <1>15, <1>16, <1>17, <1>18, <1>19
  DEF Step, Recovery, Swap

\* No step loses what was installed before its swap.
LEMMA StepNothingIsLost ==
    ASSUME IInv, NEW u \in Updaters, Step(u)
    PROVE  NothingIsLost'
<1> USE StaticSwapAssumption
    DEF IInv, TypeOK, DiskInv, RecoveryInv, SwapInv, CandidateInv, ContextInv, NothingIsLost,
        NoLeftovers, PutBack, Untouched, BackedUp, Restoring,
        Exists, Interrupted, HasStaleFailed, Artifacts, Paths, Stages, Journals, NoJournal,
        Labels, Removals, Outcomes, Contexts, Directories, Versions, Goto, Working
<1>1. Begin(u) => NothingIsLost'
  BY DEF Begin
<1>2. TakeLock(u) => NothingIsLost'
  BY DEF TakeLock
<1>3. LockIsTaken(u) => NothingIsLost'
  BY DEF LockIsTaken, Finish
<1>4. NothingToRecover(u) => NothingIsLost'
  BY DEF NothingToRecover, Recovered, Finish
<1>5. RecoverCommitted(u) => NothingIsLost'
  BY DEF RecoverCommitted
<1>6. RefuseStaleFailed(u) => NothingIsLost'
  BY DEF RefuseStaleFailed, Refuse, Finish
<1>7. RecoverInterrupted(u) => NothingIsLost'
  BY DEF RecoverInterrupted
<1>8. RestoreOutput(u) => NothingIsLost'
  BY DEF RestoreOutput, MoveAway, MoveBack, LeaveInPlace, Refuse, Finish, Rename
<1>9. RestoreManifest(u) => NothingIsLost'
  BY DEF RestoreManifest, MoveAway, MoveBack, LeaveInPlace, Refuse, Finish, Rename
<1>10. RemoveArtifact(u) => NothingIsLost'
  BY DEF RemoveArtifact, Remove, Removed, AfterRemoving
<1>11. UnlinkJournal(u) => NothingIsLost'
  BY DEF UnlinkJournal, Recovered, Finish
<1>12. StartSwap(u) => NothingIsLost'
  BY DEF StartSwap, Finish
<1>13. JournalPrepared(u) => NothingIsLost'
  BY DEF JournalPrepared, ToNextStage, NextStage
<1>14. JournalStage(u) => NothingIsLost'
  BY DEF JournalStage
<1>15. JournalCommitted(u) => NothingIsLost'
  BY DEF JournalCommitted
<1>16. RenameForStage(u) => NothingIsLost'
  BY DEF RenameForStage, Renamed, ToNextStage, NextStage
<1>17. SwapFails(u) => NothingIsLost'
  BY DEF SwapFails, Strike, Damage, Removed
<1>18. RecoveryFails(u) => NothingIsLost'
  BY DEF RecoveryFails, Strike, Damage, Removed, Refuse, Finish
<1>19. Kill(u) => NothingIsLost'
  BY DEF Kill, Strike, Damage, Removed, Finish
<1> QED
  BY <1>1, <1>2, <1>3, <1>4, <1>5, <1>6, <1>7, <1>8, <1>9, <1>10, <1>11,
     <1>12, <1>13, <1>14, <1>15, <1>16, <1>17, <1>18, <1>19
  DEF Step, Recovery, Swap

\* The invariant is inductive, kills included.
LEMMA NextIInv == IInv /\ [Next]_vars => IInv'
<1> SUFFICES ASSUME IInv, [Next]_vars
             PROVE  IInv'
  OBVIOUS
<1>1. CASE UNCHANGED vars
  BY <1>1 DEF vars, IInv, TypeOK, DiskInv, RecoveryInv, SwapInv, CandidateInv, NoLeftovers,
              PutBack, Untouched, BackedUp, Exists, Interrupted, HasStaleFailed,
              ContextInv, NothingIsLost
<1>2. CASE Next
  BY <1>2, StepTypeOK, StepDiskInv, StepRecoveryInv, StepSwapInv, StepCandidateInv,
     StepContextInv, StepNothingIsLost
     DEF Next, IInv
<1> QED
  BY <1>1, <1>2

\* The invariant holds in every state of every execution.
THEOREM SwapIInv == Spec => []IInv
BY InitIInv, NextIInv, PTL DEF Spec

\* Types, and mutual exclusion: whoever works at the disk holds the lock.
THEOREM SwapTypeOK == Spec => []TypeOK
<1>1. IInv => TypeOK
  BY DEF IInv
<1> QED
  BY <1>1, SwapIInv, PTL

\* Without a journal there is no artifact that would stop a later update.
THEOREM SwapNoLeftovers == Spec => []NoLeftovers
<1>1. IInv => NoLeftovers
  BY DEF IInv, DiskInv
<1> QED
  BY <1>1, SwapIInv, PTL

-----------------------------------------------------------------------------
(* The exchange is atomic                                                  *)

Stutters == InstalledPair' = InstalledPair /\ updates' = updates
Validates == InstalledPair' = InstalledPair /\ updates' = updates + 1 /\ updates < MaxUpdates
Installs(version) ==
    /\ InstalledPair' = [output |-> version, manifest |-> version]
    /\ updates' = updates

\* A new candidate leaves the installed pair alone, the commit replaces it,
\* and no other step changes it.
LEMMA StepOfThePair ==
    ASSUME IInv, NEW u \in Updaters, Step(u)
    PROVE  Stutters \/ Validates \/ (pc[u] # "idle" /\ Installs(candidate[u]))
<1> USE StaticSwapAssumption
    DEF Stutters, Validates, Installs, InstalledPair, InstalledAt,
        IInv, TypeOK, DiskInv, RecoveryInv, SwapInv, CandidateInv, NoLeftovers, PutBack,
        Untouched, BackedUp,
        Exists, Interrupted, HasStaleFailed, Artifacts, Paths, Stages, Journals, NoJournal,
        Labels, Removals, Outcomes, Contexts, Directories, Versions, Goto, Working
<1>1. Begin(u) => Validates
  BY DEF Begin, Goto
<1>2. TakeLock(u) => Stutters
  BY DEF TakeLock
<1>3. LockIsTaken(u) => Stutters
  BY DEF LockIsTaken, Finish
<1>4. NothingToRecover(u) => Stutters
  BY DEF NothingToRecover, Recovered, Finish
<1>5. RecoverCommitted(u) => Stutters
  BY DEF RecoverCommitted
<1>6. RefuseStaleFailed(u) => Stutters
  BY DEF RefuseStaleFailed, Refuse, Finish
<1>7. RecoverInterrupted(u) => Stutters
  BY DEF RecoverInterrupted
<1>8. RestoreOutput(u) => Stutters
  <2> DEFINE promoting == journal.state \in {"promoting_snapshot", "promoting_manifest"}
  <2>1. MoveAway(u, "restore_output", "output", "failed", "backup",
                                   journal.had_output, promoting)
           => Stutters
    BY DEF MoveAway, Rename
  <2>2. MoveBack(u, "restore_output", "output", "backup", "restore_manifest") => Stutters
    BY DEF MoveBack, Rename
  <2>3. LeaveInPlace(u, "restore_output", "output", "backup",
                                       journal.had_output, promoting, "restore_manifest")
           => Stutters
    BY DEF LeaveInPlace, Refuse, Finish
  <2> QED BY <2>1, <2>2, <2>3 DEF RestoreOutput
<1>9. RestoreManifest(u) => Stutters
  <2> DEFINE promoting == journal.state = "promoting_manifest"
  <2>1. MoveAway(u, "restore_manifest", "manifest", "failed_manifest", "manifest_backup",
                                   journal.had_manifest, promoting)
           => Stutters
    BY DEF MoveAway, Rename
  <2>2. MoveBack(u, "restore_manifest", "manifest", "manifest_backup", "remove_failed") => Stutters
    BY DEF MoveBack, Rename
  <2>3. LeaveInPlace(u, "restore_manifest", "manifest", "manifest_backup",
                                       journal.had_manifest, promoting, "remove_failed")
           => Stutters
    BY DEF LeaveInPlace, Refuse, Finish
  <2> QED BY <2>1, <2>2, <2>3 DEF RestoreManifest
<1>10. RemoveArtifact(u) => Stutters
  BY DEF RemoveArtifact, Remove, Removed, AfterRemoving
<1>11. UnlinkJournal(u) => Stutters
  BY DEF UnlinkJournal, Recovered, Finish
<1>12. StartSwap(u) => Stutters
  BY DEF StartSwap, Finish
<1>13. JournalPrepared(u) => Stutters
  BY DEF JournalPrepared, ToNextStage, NextStage
<1>14. JournalStage(u) => Stutters
  BY DEF JournalStage
<1>15. JournalCommitted(u) => pc[u] # "idle" /\ Installs(candidate[u])
  BY DEF JournalCommitted
<1>16. RenameForStage(u) => Stutters
  BY DEF RenameForStage, Renamed, ToNextStage, NextStage
<1>17. SwapFails(u) => Stutters
  BY DEF SwapFails, Strike, Damage, Removed
<1>18. RecoveryFails(u) => Stutters
  BY DEF RecoveryFails, Strike, Damage, Removed, Refuse, Finish
<1>19. Kill(u) => Stutters
  BY DEF Kill, Strike, Damage, Removed, Finish
<1> QED
  BY <1>1, <1>2, <1>3, <1>4, <1>5, <1>6, <1>7, <1>8, <1>9, <1>10, <1>11,
     <1>12, <1>13, <1>14, <1>15, <1>16, <1>17, <1>18, <1>19
  DEF Step, Recovery, Swap

\* What is installed before the first update.
LEMMA InitialPair == Init => Store!Init
<1> SUFFICES ASSUME Init
             PROVE  Store!Init
  OBVIOUS
<1>1. InstalledPair = [output |-> fs["output"], manifest |-> fs["manifest"]]
  BY DEF Init, InstalledPair, InstalledAt, Interrupted, NoJournal
<1>2. fs["output"] \in {Absent, 0} /\ fs["manifest"] \in {Absent, 0} /\ 0 \in Versions
  BY StaticSwapAssumption DEF Init, Paths, Artifacts, Versions
<1>3. 1 .. updates = {}
  BY DEF Init
<1> QED
  BY <1>1, <1>2, <1>3 DEF Store!Init, Store!Pair

\* Every step is a step of the abstract store, or leaves the installed pair alone.
LEMMA StepOfTheStore ==
    ASSUME IInv, [Next]_vars
    PROVE  [Store!Next]_<<InstalledPair, 1 .. updates>>
<1>1. CASE UNCHANGED vars
  BY <1>1 DEF vars, InstalledPair, InstalledAt, Interrupted, Exists
<1>2. CASE Next
  <2>1. PICK u \in Updaters : Step(u)
    BY <1>2 DEF Next
  <2>2. CASE Stutters
    BY <2>2 DEF Stutters
  <2>3. CASE Validates
    <3>1. updates + 1 \in Versions /\ 1 .. updates' = (1 .. updates) \cup {updates + 1}
      BY <2>3, StaticSwapAssumption DEF Validates, Versions, IInv, TypeOK
    <3> QED
      BY <2>3, <3>1 DEF Validates, Store!Next, Store!Validate
  <2>4. CASE pc[u] # "idle" /\ Installs(candidate[u])
    <3>1. candidate[u] \in 1 .. updates
      BY <2>1, <2>4 DEF IInv, CandidateInv
    <3> QED
      BY <2>4, <3>1 DEF Installs, Store!Next, Store!Install, Store!Pair
  <2> QED
    BY <2>1, <2>2, <2>3, <2>4, StepOfThePair
<1> QED
  BY <1>1, <1>2

\* The exchange implements the store: whatever fails or is killed, and when,
\* one matching pair is installed at every moment and changes as a whole.
THEOREM SwapImplementsStore == Spec => ImplementsStore
BY InitialPair, StepOfTheStore, SwapIInv, PTL DEF Spec, ImplementsStore, Store!Spec

-----------------------------------------------------------------------------
(* What a run reports is true                                              *)

OthersWait(u) == \A v \in Updaters : v # u => pc'[v] = pc[v]
EndsTruly(u) ==
    (pc[u] # "idle" /\ pc'[u] = "idle") =>
        /\ outcome'[u] = "installed" => fs'["output"] = candidate[u] /\ fs'["manifest"] = candidate[u]
        /\ outcome'[u] \in {"installed", "restored"} =>
              journal' = NoJournal /\ \A path \in Artifacts : fs'[path] = Absent

\* A step is one updater's.
LEMMA StepIsOfOne ==
    ASSUME IInv, NEW u \in Updaters, Step(u)
    PROVE  OthersWait(u)
<1> USE StaticSwapAssumption
    DEF IInv, TypeOK, DiskInv, RecoveryInv, SwapInv, CandidateInv, ContextInv, NothingIsLost,
        NoLeftovers, PutBack, Untouched, BackedUp, Restoring,
        Exists, Interrupted, HasStaleFailed, Artifacts, Paths, Stages, Journals, NoJournal,
        Labels, Removals, Outcomes, Contexts, Directories, Versions, Goto, Working
<1>1. Begin(u) => OthersWait(u)
  BY DEF Begin, OthersWait
<1>2. TakeLock(u) => OthersWait(u)
  BY DEF TakeLock, OthersWait
<1>3. LockIsTaken(u) => OthersWait(u)
  BY DEF LockIsTaken, Finish, OthersWait
<1>4. NothingToRecover(u) => OthersWait(u)
  BY DEF NothingToRecover, Recovered, Finish, OthersWait
<1>5. RecoverCommitted(u) => OthersWait(u)
  BY DEF RecoverCommitted, OthersWait
<1>6. RefuseStaleFailed(u) => OthersWait(u)
  BY DEF RefuseStaleFailed, Refuse, Finish, OthersWait
<1>7. RecoverInterrupted(u) => OthersWait(u)
  BY DEF RecoverInterrupted, OthersWait
<1>8. RestoreOutput(u) => OthersWait(u)
  BY DEF RestoreOutput, MoveAway, MoveBack, LeaveInPlace, Refuse, Finish, Rename, OthersWait
<1>9. RestoreManifest(u) => OthersWait(u)
  BY DEF RestoreManifest, MoveAway, MoveBack, LeaveInPlace, Refuse, Finish, Rename, OthersWait
<1>10. RemoveArtifact(u) => OthersWait(u)
  BY DEF RemoveArtifact, Remove, Removed, AfterRemoving, OthersWait
<1>11. UnlinkJournal(u) => OthersWait(u)
  BY DEF UnlinkJournal, Recovered, Finish, OthersWait
<1>12. StartSwap(u) => OthersWait(u)
  BY DEF StartSwap, Finish, OthersWait
<1>13. JournalPrepared(u) => OthersWait(u)
  BY DEF JournalPrepared, ToNextStage, NextStage, OthersWait
<1>14. JournalStage(u) => OthersWait(u)
  BY DEF JournalStage, OthersWait
<1>15. JournalCommitted(u) => OthersWait(u)
  BY DEF JournalCommitted, OthersWait
<1>16. RenameForStage(u) => OthersWait(u)
  BY DEF RenameForStage, Renamed, ToNextStage, NextStage, OthersWait
<1>17. SwapFails(u) => OthersWait(u)
  BY DEF SwapFails, Strike, Damage, Removed, OthersWait
<1>18. RecoveryFails(u) => OthersWait(u)
  BY DEF RecoveryFails, Strike, Damage, Removed, Refuse, Finish, OthersWait
<1>19. Kill(u) => OthersWait(u)
  BY DEF Kill, Strike, Damage, Removed, Finish, OthersWait
<1> QED
  BY <1>1, <1>2, <1>3, <1>4, <1>5, <1>6, <1>7, <1>8, <1>9, <1>10, <1>11,
     <1>12, <1>13, <1>14, <1>15, <1>16, <1>17, <1>18, <1>19
  DEF Step, Recovery, Swap

\* A run ends with a report of what it leaves on the disk.
LEMMA StepEndsTruly ==
    ASSUME IInv, NEW u \in Updaters, Step(u)
    PROVE  EndsTruly(u)
<1> USE StaticSwapAssumption
    DEF IInv, TypeOK, DiskInv, RecoveryInv, SwapInv, CandidateInv, ContextInv, NothingIsLost,
        NoLeftovers, PutBack, Untouched, BackedUp, Restoring,
        Exists, Interrupted, HasStaleFailed, Artifacts, Paths, Stages, Journals, NoJournal,
        Labels, Removals, Outcomes, Contexts, Directories, Versions, Goto, Working
<1>1. Begin(u) => EndsTruly(u)
  BY DEF Begin, EndsTruly
<1>2. TakeLock(u) => EndsTruly(u)
  BY DEF TakeLock, EndsTruly
<1>3. LockIsTaken(u) => EndsTruly(u)
  BY DEF LockIsTaken, Finish, EndsTruly
<1>4. NothingToRecover(u) => EndsTruly(u)
  BY DEF NothingToRecover, Recovered, Finish, EndsTruly
<1>5. RecoverCommitted(u) => EndsTruly(u)
  BY DEF RecoverCommitted, EndsTruly
<1>6. RefuseStaleFailed(u) => EndsTruly(u)
  BY DEF RefuseStaleFailed, Refuse, Finish, EndsTruly
<1>7. RecoverInterrupted(u) => EndsTruly(u)
  BY DEF RecoverInterrupted, EndsTruly
<1>8. RestoreOutput(u) => EndsTruly(u)
  BY DEF RestoreOutput, MoveAway, MoveBack, LeaveInPlace, Refuse, Finish, Rename, EndsTruly
<1>9. RestoreManifest(u) => EndsTruly(u)
  BY DEF RestoreManifest, MoveAway, MoveBack, LeaveInPlace, Refuse, Finish, Rename, EndsTruly
<1>10. RemoveArtifact(u) => EndsTruly(u)
  BY DEF RemoveArtifact, Remove, Removed, AfterRemoving, EndsTruly
<1>11. UnlinkJournal(u) => EndsTruly(u)
  BY DEF UnlinkJournal, Recovered, Finish, EndsTruly
<1>12. StartSwap(u) => EndsTruly(u)
  BY DEF StartSwap, Finish, EndsTruly
<1>13. JournalPrepared(u) => EndsTruly(u)
  BY DEF JournalPrepared, ToNextStage, NextStage, EndsTruly
<1>14. JournalStage(u) => EndsTruly(u)
  BY DEF JournalStage, EndsTruly
<1>15. JournalCommitted(u) => EndsTruly(u)
  BY DEF JournalCommitted, EndsTruly
<1>16. RenameForStage(u) => EndsTruly(u)
  BY DEF RenameForStage, Renamed, ToNextStage, NextStage, EndsTruly
<1>17. SwapFails(u) => EndsTruly(u)
  BY DEF SwapFails, Strike, Damage, Removed, EndsTruly
<1>18. RecoveryFails(u) => EndsTruly(u)
  BY DEF RecoveryFails, Strike, Damage, Removed, Refuse, Finish, EndsTruly
<1>19. Kill(u) => EndsTruly(u)
  BY DEF Kill, Strike, Damage, Removed, Finish, EndsTruly
<1> QED
  BY <1>1, <1>2, <1>3, <1>4, <1>5, <1>6, <1>7, <1>8, <1>9, <1>10, <1>11,
     <1>12, <1>13, <1>14, <1>15, <1>16, <1>17, <1>18, <1>19
  DEF Step, Recovery, Swap

\* "installed" is only reported with the run's own candidate in place, and neither it
\* nor "restored" with anything left that a later run would have to recover.
THEOREM SwapReportsAreTrue == Spec => ReportsAreTrue
<1> DEFINE True == \A u \in Updaters :
                     /\ Reports(u, "installed") =>
                          fs'["output"] = candidate[u] /\ fs'["manifest"] = candidate[u]
                     /\ Reports(u, "installed") \/ Reports(u, "restored") =>
                          journal' = NoJournal /\ \A path \in Artifacts : fs'[path] = Absent
<1>1. IInv /\ [Next]_vars => [True]_vars
  <2> SUFFICES ASSUME IInv, Next, NEW u \in Updaters, pc[u] # "idle", pc'[u] = "idle"
               PROVE  EndsTruly(u)
    BY DEF EndsTruly, Reports
  <2>1. PICK v \in Updaters : Step(v)
    BY DEF Next
  <2>2. u = v
    BY <2>1, StepIsOfOne DEF OthersWait
  <2> QED BY <2>1, <2>2, StepEndsTruly
<1> QED BY <1>1, SwapIInv, PTL DEF Spec, ReportsAreTrue

-----------------------------------------------------------------------------
(* Which recoveries have to be refused                                     *)

CleaningUp == Restoring \cup {"remove_failed", "remove_failed_manifest"}
CleanUpGoesOn(u) ==
    (Interrupted' /\ HasStaleFailed') =>
        \/ \E v \in Updaters : pc'[v] \in CleaningUp
        \/ faults' > faults /\ context[u] # "swapping"
        \/ Interrupted /\ HasStaleFailed /\ \A v \in Updaters : pc[v] \notin CleaningUp

\* What a rollback has moved away is cleaned up by it, unless a fault strikes it.
LEMMA StepCleansUp ==
    ASSUME IInv, NEW u \in Updaters, Step(u)
    PROVE  CleanUpGoesOn(u)
<1> USE StaticSwapAssumption
    DEF IInv, TypeOK, DiskInv, RecoveryInv, SwapInv, CandidateInv, ContextInv, NothingIsLost,
        NoLeftovers, PutBack, Untouched, BackedUp, Restoring,
        Exists, Interrupted, HasStaleFailed, Artifacts, Paths, Stages, Journals, NoJournal,
        Labels, Removals, Outcomes, Contexts, Directories, Versions, Goto, Working
<1>1. Begin(u) => CleanUpGoesOn(u)
  BY DEF Begin, CleanUpGoesOn, CleaningUp
<1>2. TakeLock(u) => CleanUpGoesOn(u)
  BY DEF TakeLock, CleanUpGoesOn, CleaningUp
<1>3. LockIsTaken(u) => CleanUpGoesOn(u)
  BY DEF LockIsTaken, Finish, CleanUpGoesOn, CleaningUp
<1>4. NothingToRecover(u) => CleanUpGoesOn(u)
  BY DEF NothingToRecover, Recovered, Finish, CleanUpGoesOn, CleaningUp
<1>5. RecoverCommitted(u) => CleanUpGoesOn(u)
  BY DEF RecoverCommitted, CleanUpGoesOn, CleaningUp
<1>6. RefuseStaleFailed(u) => CleanUpGoesOn(u)
  BY DEF RefuseStaleFailed, Refuse, Finish, CleanUpGoesOn, CleaningUp
<1>7. RecoverInterrupted(u) => CleanUpGoesOn(u)
  BY DEF RecoverInterrupted, CleanUpGoesOn, CleaningUp
<1>8. RestoreOutput(u) => CleanUpGoesOn(u)
  BY DEF RestoreOutput, MoveAway, MoveBack, LeaveInPlace, Refuse, Finish, Rename, CleanUpGoesOn, CleaningUp
<1>9. RestoreManifest(u) => CleanUpGoesOn(u)
  BY DEF RestoreManifest, MoveAway, MoveBack, LeaveInPlace, Refuse, Finish, Rename, CleanUpGoesOn, CleaningUp
<1>10. RemoveArtifact(u) => CleanUpGoesOn(u)
  BY DEF RemoveArtifact, Remove, Removed, AfterRemoving, CleanUpGoesOn, CleaningUp
<1>11. UnlinkJournal(u) => CleanUpGoesOn(u)
  BY DEF UnlinkJournal, Recovered, Finish, CleanUpGoesOn, CleaningUp
<1>12. StartSwap(u) => CleanUpGoesOn(u)
  BY DEF StartSwap, Finish, CleanUpGoesOn, CleaningUp
<1>13. JournalPrepared(u) => CleanUpGoesOn(u)
  BY DEF JournalPrepared, ToNextStage, NextStage, CleanUpGoesOn, CleaningUp
<1>14. JournalStage(u) => CleanUpGoesOn(u)
  BY DEF JournalStage, CleanUpGoesOn, CleaningUp
<1>15. JournalCommitted(u) => CleanUpGoesOn(u)
  BY DEF JournalCommitted, CleanUpGoesOn, CleaningUp
<1>16. RenameForStage(u) => CleanUpGoesOn(u)
  BY DEF RenameForStage, Renamed, ToNextStage, NextStage, CleanUpGoesOn, CleaningUp
<1>17. SwapFails(u) => CleanUpGoesOn(u)
  BY DEF SwapFails, Strike, Damage, Removed, CleanUpGoesOn, CleaningUp
<1>18. RecoveryFails(u) => CleanUpGoesOn(u)
  BY DEF RecoveryFails, Strike, Damage, Removed, Refuse, Finish, CleanUpGoesOn, CleaningUp
<1>19. Kill(u) => CleanUpGoesOn(u)
  BY DEF Kill, Strike, Damage, Removed, Finish, CleanUpGoesOn, CleaningUp
<1> QED
  BY <1>1, <1>2, <1>3, <1>4, <1>5, <1>6, <1>7, <1>8, <1>9, <1>10, <1>11,
     <1>12, <1>13, <1>14, <1>15, <1>16, <1>17, <1>18, <1>19
  DEF Step, Recovery, Swap

\* An execution with its faults recorded is one of the updaters.
LEMMA RecordedRuns == MCSpec => Spec
<1>1. MCInit => Init
  BY DEF MCInit
<1>2. [MCNext]_<<vars, struck>> => [Next]_vars
  BY DEF MCNext, Next
<1> QED BY <1>1, <1>2, PTL DEF MCSpec, Spec

\* Where faults strike swaps only, no recovery is cut short.
LEMMA StruckIsPreserved ==
    ASSUME IInv, StruckInv, [MCNext]_<<vars, struck>>
    PROVE  StruckInv'
<1> SUFFICES ASSUME struck' \subseteq {"swapping"}, Interrupted', HasStaleFailed'
             PROVE  \E v \in Updaters : pc'[v] \in CleaningUp
  BY DEF StruckInv, CleaningUp
<1>1. CASE UNCHANGED <<vars, struck>>
  BY <1>1 DEF vars, StruckInv, Interrupted, HasStaleFailed, Exists, CleaningUp
<1>2. CASE MCNext
  <2>1. PICK u \in Updaters :
          /\ Step(u)
          /\ struck' = IF faults' > faults THEN struck \cup {context[u]} ELSE struck
    BY <1>2 DEF MCNext
  <2>2. struck \subseteq {"swapping"} /\ (faults' > faults => context[u] = "swapping")
    BY <2>1
  <2> QED BY <2>1, <2>2, StepCleansUp DEF CleanUpGoesOn, StruckInv, CleaningUp
<1> QED BY <1>1, <1>2

\* As long as faults strike swaps only, however many, no recovery has to be refused.
THEOREM SwapRefusesOnlyItsOwn == MCSpec => []RecoveriesRefuseOnlyTheirOwn
<1>1. MCInit => StruckInv
  BY DEF MCInit, Init, StruckInv, Interrupted
<1>2. IInv /\ StruckInv /\ [MCNext]_<<vars, struck>> => StruckInv'
  BY StruckIsPreserved
<1>3. IInv /\ StruckInv => RecoveriesRefuseOnlyTheirOwn
  <2> SUFFICES ASSUME IInv, StruckInv, struck \subseteq {"swapping"},
                      NEW u \in Updaters, pc[u] = "recover", Interrupted, HasStaleFailed
               PROVE  FALSE
    BY DEF RecoveriesRefuseOnlyTheirOwn, RecoveryNeverRefuses
  <2>1. PICK v \in Updaters :
          pc[v] \in Restoring \cup {"remove_failed", "remove_failed_manifest"}
    BY DEF StruckInv
  <2>2. lock = u /\ lock = v
    BY <2>1 DEF IInv, TypeOK, Restoring
  <2> QED BY <2>1, <2>2 DEF Restoring
<1> QED BY <1>1, <1>2, <1>3, RecordedRuns, SwapIInv, PTL DEF MCSpec
=============================================================================
