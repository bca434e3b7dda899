----------------------------- MODULE StaticSwap -----------------------------
(***************************************************************************)
(* The installation of a validated static GTFS snapshot                    *)
(* (src/bvg_radar/static_gtfs.py: _swap_staged_snapshot under              *)
(* _exclusive_update_lock, and _recover_interrupted_swap): a journalled    *)
(* exchange of a directory and its manifest by renames, that a later run   *)
(* of the updater rolls back, or cleans up, when this one is interrupted.  *)
(*                                                                         *)
(* A step is one system call that changes the disk, or one decision.       *)
(* Every call may fail with an OSError, and a process may be killed before *)
(* any of them; a directory whose removal stops half way is left Partial.  *)
(* Renames and the journal's write (write, fsync, replace) are atomic.     *)
(***************************************************************************)
EXTENDS Integers

CONSTANTS
    Updaters,      \* runs of the updater that may overlap
    Absent,        \* no file at a path
    Partial,       \* what is left of a directory removed in part
    NoOne,         \* nobody holds the update lock
    MaxUpdates,    \* bound on the candidates that reach the swap
    MaxFaults,     \* bound on OSErrors and kills, together
    FaultContexts  \* where they may strike

Contexts == {"recovering", "swapping", "rolling_back"}

ASSUME StaticSwapAssumption ==
    /\ Absent \notin Nat
    /\ Partial \notin Nat
    /\ Absent # Partial
    /\ NoOne \notin Updaters
    /\ MaxUpdates \in Nat
    /\ MaxFaults \in Nat
    /\ FaultContexts \subseteq Contexts

VARIABLES
    fs,         \* what is at each path
    journal,    \* the update journal on disk, or NoJournal
    lock,       \* who holds the lock file's flock
    pc,         \* what each updater does next
    context,    \* on whose behalf: the first recovery, the swap, its rollback
    candidate,  \* the version each updater has staged and validated
    memory,     \* the journal of the swap, as the updater holds it
    outcome,    \* how each updater's last run ended
    updates,    \* number of candidates so far
    faults      \* number of faults so far

vars == <<fs, journal, lock, pc, context, candidate, memory, outcome, updates, faults>>

\* _swap_artifact_paths, and the two paths they guard.  Version 0 is the one
\* installed before the first update, if there is one.
Artifacts == {"backup", "manifest_backup", "failed", "failed_manifest"}
Paths == {"output", "manifest"} \cup Artifacts
Directories == {"output", "backup", "failed"}
Versions == 0 .. MaxUpdates

Stages == {"prepared", "backing_up_snapshot", "backing_up_manifest",
           "promoting_snapshot", "promoting_manifest", "committed"}
Journals == [state : Stages, had_output : BOOLEAN, had_manifest : BOOLEAN]
NoJournal == [state |-> "none", had_output |-> FALSE, had_manifest |-> FALSE]

Init ==
    /\ fs \in [Paths -> {Absent, 0}]
    /\ \A path \in Artifacts : fs[path] = Absent
    /\ journal = NoJournal
    /\ lock = NoOne
    /\ pc = [u \in Updaters |-> "idle"]
    /\ context = [u \in Updaters |-> "recovering"]
    /\ candidate = [u \in Updaters |-> 0]
    /\ memory = [u \in Updaters |-> NoJournal]
    /\ outcome = [u \in Updaters |-> "none"]
    /\ updates = 0
    /\ faults = 0

-----------------------------------------------------------------------------

Exists(path) == fs[path] # Absent

Goto(u, label) == pc' = [pc EXCEPT ![u] = label]

\* path.replace(target), and path.unlink(missing_ok=True) or rmtree(path).
Rename(path, target) == fs' = [fs EXCEPT ![target] = fs[path], ![path] = Absent]
Remove(path) == fs' = [fs EXCEPT ![path] = Absent]

\* The run is over: the with statement releases the lock.
Finish(u, result) ==
    /\ Goto(u, "idle")
    /\ outcome' = [outcome EXCEPT ![u] = result]
    /\ lock' = IF lock = u THEN NoOne ELSE lock

\* What stays as it is while an updater works at the disk.
Working(u) == UNCHANGED <<lock, outcome, context, candidate, memory, updates, faults>>

-----------------------------------------------------------------------------
(* Taking the lock                                                         *)

\* A candidate was extracted to a staging directory and validated there.
Begin(u) ==
    /\ pc[u] = "idle"
    /\ updates < MaxUpdates
    /\ updates' = updates + 1
    /\ candidate' = [candidate EXCEPT ![u] = updates + 1]
    /\ context' = [context EXCEPT ![u] = "recovering"]
    /\ Goto(u, "locking")
    /\ UNCHANGED <<fs, journal, lock, memory, outcome, faults>>

\* Mutant: the lock is taken whether or not it is free.
TakeLock_Always(u) ==
    /\ pc[u] = "locking"
    /\ lock' = u
    /\ Goto(u, "recover")
    /\ UNCHANGED <<fs, journal, context, candidate, memory, outcome, updates, faults>>

TakeLock(u) ==
    /\ pc[u] = "locking"
    /\ lock = NoOne
    /\ lock' = u
    /\ Goto(u, "recover")
    /\ UNCHANGED <<fs, journal, context, candidate, memory, outcome, updates, faults>>

\* Another update is already in progress: no waiting.
LockIsTaken(u) ==
    /\ pc[u] = "locking"
    /\ lock # NoOne
    /\ Finish(u, "busy")
    /\ UNCHANGED <<fs, journal, context, candidate, memory, updates, faults>>

-----------------------------------------------------------------------------
(* _recover_interrupted_swap                                               *)

\* The swap is over, for better or worse: the first recovery goes on to the
\* check for stale artifacts, a rollback reports the failure of its swap.
Recovered(u) ==
    IF context[u] = "rolling_back"
      THEN Finish(u, "restored")
      ELSE Goto(u, "check") /\ UNCHANGED <<lock, outcome>>

\* A recovery that cannot go on raises, and keeps the journal.
Refuse(u) ==
    Finish(u, IF context[u] = "rolling_back" THEN "recovery_failed" ELSE "refused")

NothingToRecover(u) ==
    /\ pc[u] = "recover"
    /\ journal = NoJournal
    /\ Recovered(u)
    /\ UNCHANGED <<fs, journal, context, candidate, memory, updates, faults>>

RecoverCommitted(u) ==
    /\ pc[u] = "recover"
    /\ journal.state = "committed"
    /\ Goto(u, "remove_backup")
    /\ UNCHANGED <<fs, journal>>
    /\ Working(u)

Interrupted == journal # NoJournal /\ journal.state # "committed"
HasStaleFailed == Exists("failed") \/ Exists("failed_manifest")

RefuseStaleFailed(u) ==
    /\ pc[u] = "recover"
    /\ Interrupted
    /\ HasStaleFailed
    /\ Refuse(u)
    /\ UNCHANGED <<fs, journal, context, candidate, memory, updates, faults>>

RecoverInterrupted(u) ==
    /\ pc[u] = "recover"
    /\ Interrupted
    /\ ~ HasStaleFailed
    /\ Goto(u, "restore_output")
    /\ UNCHANGED <<fs, journal>>
    /\ Working(u)

\* Put the active path back: from its backup, the new content going to the
\* failed path first; or, if there was nothing to back up and the promotion
\* may have happened, by moving the new content away.
MoveAway(u, label, path, failed, backup, had, promoting) ==
    /\ pc[u] = label
    /\ Exists(path)
    /\ Exists(backup) \/ (~ had /\ promoting)
    /\ Rename(path, failed)
    /\ UNCHANGED <<journal, pc>>
    /\ Working(u)

MoveBack(u, label, path, backup, next) ==
    /\ pc[u] = label
    /\ Exists(backup) /\ ~ Exists(path)
    /\ Rename(backup, path)
    /\ Goto(u, next)
    /\ UNCHANGED journal
    /\ Working(u)

\* Neither applies: the path is as it was, unless it and its backup are lost.
LeaveInPlace(u, label, path, backup, had, promoting, next) ==
    /\ pc[u] = label
    /\ ~ Exists(backup)
    /\ ~ (~ had /\ promoting /\ Exists(path))
    /\ IF had /\ ~ Exists(path)
         THEN Refuse(u)
         ELSE Goto(u, next) /\ UNCHANGED <<lock, outcome>>
    /\ UNCHANGED <<fs, journal, context, candidate, memory, updates, faults>>

\* Mutant: the new snapshot is thought promoted only in the stage after.
RestoreOutput_MissesStage(u) ==
    LET promoting == journal.state = "promoting_manifest"
    IN  \/ MoveAway(u, "restore_output", "output", "failed", "backup",
                    journal.had_output, promoting)
        \/ MoveBack(u, "restore_output", "output", "backup", "restore_manifest")
        \/ LeaveInPlace(u, "restore_output", "output", "backup",
                        journal.had_output, promoting, "restore_manifest")

RestoreOutput(u) ==
    LET promoting == journal.state \in {"promoting_snapshot", "promoting_manifest"}
    IN  \/ MoveAway(u, "restore_output", "output", "failed", "backup",
                    journal.had_output, promoting)
        \/ MoveBack(u, "restore_output", "output", "backup", "restore_manifest")
        \/ LeaveInPlace(u, "restore_output", "output", "backup",
                        journal.had_output, promoting, "restore_manifest")

RestoreManifest(u) ==
    LET promoting == journal.state = "promoting_manifest"
    IN  \/ MoveAway(u, "restore_manifest", "manifest", "failed_manifest", "manifest_backup",
                    journal.had_manifest, promoting)
        \/ MoveBack(u, "restore_manifest", "manifest", "manifest_backup", "remove_failed")
        \/ LeaveInPlace(u, "restore_manifest", "manifest", "manifest_backup",
                        journal.had_manifest, promoting, "remove_failed")

\* The artifact each removal is about, and what comes after it.  The swap
\* leaves no failed paths to remove.
Removals == {"remove_backup", "remove_manifest_backup",
             "remove_failed", "remove_failed_manifest"}

Removed(label) ==
    CASE label = "remove_backup" -> "backup"
      [] label = "remove_manifest_backup" -> "manifest_backup"
      [] label = "remove_failed" -> "failed"
      [] OTHER -> "failed_manifest"

AfterRemoving(u) ==
    CASE pc[u] = "remove_backup" -> "remove_manifest_backup"
      [] pc[u] = "remove_manifest_backup" ->
           IF context[u] = "swapping" THEN "unlink_journal" ELSE "remove_failed"
      [] pc[u] = "remove_failed" -> "remove_failed_manifest"
      [] OTHER -> "unlink_journal"

RemoveArtifact(u) ==
    /\ pc[u] \in Removals
    /\ Remove(Removed(pc[u]))
    /\ Goto(u, AfterRemoving(u))
    /\ UNCHANGED journal
    /\ Working(u)

UnlinkJournal(u) ==
    /\ pc[u] = "unlink_journal"
    /\ journal' = NoJournal
    /\ IF context[u] = "swapping" THEN Finish(u, "installed") ELSE Recovered(u)
    /\ UNCHANGED <<fs, context, candidate, memory, updates, faults>>

-----------------------------------------------------------------------------
(* The swap                                                                *)

Prepared == [state |-> "prepared", had_output |-> Exists("output"),
             had_manifest |-> Exists("manifest")]

\* With artifacts of an earlier swap in the way the updater gives up;
\* otherwise it notes what there is to back up.
StartSwap(u) ==
    /\ pc[u] = "check"
    /\ IF \E path \in Artifacts : Exists(path)
         THEN /\ Finish(u, "refused")
              /\ UNCHANGED <<context, memory>>
         ELSE /\ Goto(u, "journalling")
              /\ context' = [context EXCEPT ![u] = "swapping"]
              /\ memory' = [memory EXCEPT ![u] = Prepared]
              /\ UNCHANGED <<lock, outcome>>
    /\ UNCHANGED <<fs, journal, candidate, updates, faults>>

NextStage(swap) ==
    IF swap.state = "prepared" /\ swap.had_output
      THEN "backing_up_snapshot"
    ELSE IF swap.state \in {"prepared", "backing_up_snapshot"} /\ swap.had_manifest
      THEN "backing_up_manifest"
    ELSE CASE swap.state = "promoting_snapshot" -> "promoting_manifest"
           [] swap.state = "promoting_manifest" -> "committed"
           [] OTHER -> "promoting_snapshot"

ToNextStage(u) == memory' = [memory EXCEPT ![u].state = NextStage(memory[u])]

\* set_state: the journal says what is about to be done.
JournalPrepared(u) ==
    /\ pc[u] = "journalling"
    /\ memory[u].state = "prepared"
    /\ journal' = memory[u]
    /\ ToNextStage(u)
    /\ UNCHANGED <<fs, lock, pc, context, candidate, outcome, updates, faults>>

JournalStage(u) ==
    /\ pc[u] = "journalling"
    /\ memory[u].state \notin {"prepared", "committed"}
    /\ journal' = memory[u]
    /\ Goto(u, "renaming")
    /\ UNCHANGED fs
    /\ Working(u)

JournalCommitted(u) ==
    /\ pc[u] = "journalling"
    /\ memory[u].state = "committed"
    /\ journal' = memory[u]
    /\ Goto(u, "remove_backup")
    /\ UNCHANGED fs
    /\ Working(u)

\* The rename that a stage stands for.  Staging paths are the updater's own.
Renamed(u) ==
    CASE memory[u].state = "backing_up_snapshot" ->
           [fs EXCEPT !["backup"] = fs["output"], !["output"] = Absent]
      [] memory[u].state = "backing_up_manifest" ->
           [fs EXCEPT !["manifest_backup"] = fs["manifest"], !["manifest"] = Absent]
      [] memory[u].state = "promoting_snapshot" ->
           [fs EXCEPT !["output"] = candidate[u]]
      [] OTHER -> [fs EXCEPT !["manifest"] = candidate[u]]

RenameForStage(u) ==
    /\ pc[u] = "renaming"
    /\ fs' = Renamed(u)
    /\ ToNextStage(u)
    /\ Goto(u, "journalling")
    /\ UNCHANGED <<journal, lock, context, candidate, outcome, updates, faults>>

-----------------------------------------------------------------------------
(* Failures                                                                *)

\* rmtree may stop half way; every other call happens or does not.
Damage(u) ==
    \/ UNCHANGED fs
    \/ /\ pc[u] \in Removals
       /\ Removed(pc[u]) \in Directories
       /\ Exists(Removed(pc[u]))
       /\ fs' = [fs EXCEPT ![Removed(pc[u])] = Partial]

Strike(u) ==
    /\ pc[u] \notin {"idle", "locking"}
    /\ context[u] \in FaultContexts
    /\ faults < MaxFaults
    /\ faults' = faults + 1
    /\ Damage(u)
    /\ UNCHANGED <<journal, candidate, memory, updates>>

\* An OSError: the swap is rolled back; a recovery is given up.
SwapFails(u) ==
    /\ context[u] = "swapping"
    /\ Strike(u)
    /\ context' = [context EXCEPT ![u] = "rolling_back"]
    /\ Goto(u, "recover")
    /\ UNCHANGED <<lock, outcome>>

RecoveryFails(u) ==
    /\ context[u] # "swapping"
    /\ Strike(u)
    /\ Refuse(u)
    /\ UNCHANGED context

\* The process is killed; the system releases its lock.
Kill(u) ==
    /\ Strike(u)
    /\ Finish(u, "killed")
    /\ UNCHANGED context

-----------------------------------------------------------------------------

Recovery(u) ==
    \/ NothingToRecover(u) \/ RecoverCommitted(u) \/ RefuseStaleFailed(u)
    \/ RecoverInterrupted(u) \/ RestoreOutput(u) \/ RestoreManifest(u)

Swap(u) ==
    \/ StartSwap(u) \/ JournalPrepared(u) \/ JournalStage(u)
    \/ RenameForStage(u) \/ JournalCommitted(u)

Step(u) ==
    \/ Begin(u) \/ TakeLock(u) \/ LockIsTaken(u)
    \/ Recovery(u) \/ Swap(u) \/ RemoveArtifact(u) \/ UnlinkJournal(u)
    \/ SwapFails(u) \/ RecoveryFails(u) \/ Kill(u)

Next == \E u \in Updaters : Step(u)

Spec == Init /\ [][Next]_vars

-----------------------------------------------------------------------------
(* Properties                                                              *)

Labels == {"idle", "locking", "recover", "restore_output", "restore_manifest",
           "unlink_journal", "check", "journalling", "renaming"} \cup Removals
Outcomes == {"none", "busy", "installed", "restored", "recovery_failed", "refused", "killed"}

TypeOK ==
    /\ fs \in [Paths -> Versions \cup {Absent, Partial}]
    /\ journal \in Journals \cup {NoJournal}
    /\ lock \in Updaters \cup {NoOne}
    /\ pc \in [Updaters -> Labels]
    /\ context \in [Updaters -> Contexts]
    /\ candidate \in [Updaters -> Versions]
    /\ memory \in [Updaters -> Journals \cup {NoJournal}]
    /\ outcome \in [Updaters -> Outcomes]
    /\ updates \in 0 .. MaxUpdates
    /\ faults \in 0 .. MaxFaults
    /\ \A u \in Updaters : pc[u] \notin {"idle", "locking"} => lock = u

\* What is installed as far as a recovery is concerned: until the journal
\* says "committed" that is the pair from before the swap, wherever its parts
\* are at the moment.
InstalledAt(path, backup, had) ==
    IF ~ Interrupted THEN fs[path]
    ELSE IF Exists(backup) THEN fs[backup]
    ELSE IF had THEN fs[path]
    ELSE Absent

InstalledPair == [output   |-> InstalledAt("output", "backup", journal.had_output),
                  manifest |-> InstalledAt("manifest", "manifest_backup", journal.had_manifest)]

\* The swap is atomic: at every moment, whatever fails or is killed, one
\* matching pair is installed, and it changes in the one step that commits.
Store == INSTANCE SnapshotStore WITH active <- InstalledPair, validated <- 1 .. updates

ImplementsStore == Store!Spec

\* A recovery that ran to its end, or a swap, leaves nothing behind that
\* would make every later update refuse to start.
NoLeftovers ==
    journal = NoJournal => \A path \in Artifacts : ~ Exists(path)

Reports(u, result) == pc[u] # "idle" /\ pc'[u] = "idle" /\ outcome'[u] = result

\* What a run reports is true: after "installed" its own candidate is in
\* place, after "restored" a pair that needs no further recovery.
ReportsAreTrue ==
    [][\A u \in Updaters :
          /\ Reports(u, "installed") =>
               fs'["output"] = candidate[u] /\ fs'["manifest"] = candidate[u]
          /\ Reports(u, "installed") \/ Reports(u, "restored") =>
               journal' = NoJournal /\ \A path \in Artifacts : fs'[path] = Absent]_vars

\* "previous snapshot restored" is reported only when the new one is gone.
RestoredIsPrevious ==
    [][\A u \in Updaters :
          Reports(u, "restored") => fs'["output"] # candidate[u]]_vars

\* A recovery never has to refuse what an earlier run left on the disk.
RecoveryNeverRefuses ==
    \A u \in Updaters : ~ (pc[u] = "recover" /\ Interrupted /\ HasStaleFailed)
=============================================================================
