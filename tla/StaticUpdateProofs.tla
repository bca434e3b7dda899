------------------------- MODULE StaticUpdateProofs -------------------------
(***************************************************************************)
(* Theorems about whole runs of the static updater, for any number of      *)
(* runs, archives, feeds, command lines and kills.                         *)
(***************************************************************************)
EXTENDS StaticUpdate, TLAPS, WellFoundedInduction, FiniteSetTheorems

-----------------------------------------------------------------------------
(* The inductive invariants                                                *)

\* At most one run keeps its archive: no two share an archive path.
OneKeeper ==
    \A scenario \in Scenarios : \A r, s \in Runs :
        scenario.invocation[r].keep /\ scenario.invocation[s].keep => r = s

\* What a run has written and not removed, it is still about, or could not remove.
LeftInv(r) ==
    run[r].exit # "killed" =>
        /\ part[r] # NoFile => At(r, "downloading") \/ "part" \in run[r].undeleted
        /\ staging[r] # NoFile =>
              run[r].pc \in Staged \cup {"unstaging"} \/ "staging" \in run[r].undeleted
        /\ zip[r] # NoFile =>
              run[r].pc \notin {"parsing", "preparing", "ended"} \/ "zip" \in run[r].undeleted

\* What a run reports at its end is already decided by what it has met.
ProblemInv(r) ==
    /\ run[r].exit = "none" <=> run[r].pc # "ended"
    /\ run[r].pc \in Started \cup Staged =>
          run[r].problem = "none" /\ run[r].undeleted = {} /\ installed.by # r
    /\ run[r].pc \in Ending /\ run[r].undeleted # {} => run[r].problem \in {"error", "interrupt"}
    /\ run[r].problem \in {"incompatible", "escape"} => installed.by # r

\* What a candidate has passed, and what is installed has passed all.
CandidateInv(r) ==
    /\ run[r].pc \in {"hashing", "staging"} \cup Staged =>
          run[r].feed \in OfferedFeeds
    /\ run[r].pc \in {"validating", "judging", "swapping"} => Extract(staging[r]).outcome = "ok"
    /\ run[r].pc \in {"judging", "swapping"} =>
          ~HeadersRefused(staging[r], Extract(staging[r]))
    /\ At(r, "swapping") => Verdict(run[r].feed, staging[r]) = "compatible"

InstalledInv ==
    installed.by # NoFile =>
        /\ installed.feed \in OfferedFeeds
        /\ Extract(installed.files).outcome = "ok"
        /\ ~HeadersRefused(installed.files, Extract(installed.files))
        /\ Verdict(installed.feed, installed.files) = "compatible"

UpdateIInv ==
    /\ TypeOK /\ InstalledInv
    /\ \A r \in Runs : LeftInv(r) /\ ProblemInv(r) /\ CandidateInv(r)

\* What a run unpacks is an archive that was offered, if not always the one it has
\* downloaded: another run may replace the archive that both keep.
ArchiveInv(r) ==
    /\ part[r] # NoFile => part[r] \in OfferedArchives
    /\ run[r].pc \in {"fetching", "hashing", "staging"} => zip[Archive(r)] \in OfferedArchives
    /\ run[r].pc \in Staged => staging[r] \in OfferedArchives

ArchiveIInv == \A r \in Runs : ArchiveInv(r)

\* What holds while no two runs keep their archives: what a run has hashed is what
\* it unpacks, judges and installs.
KeeperInv(r) ==
    /\ run[r].pc \in {"fetching", "hashing"} => run[r].downloaded # NoFile
    /\ At(r, "staging") => zip[Archive(r)] = run[r].verified /\ run[r].verified # NoFile
    /\ run[r].pc \in Staged => staging[r] = run[r].verified /\ run[r].verified # NoFile
    /\ run[r].problem = "incompatible" =>
          run[r].verified # NoFile /\ Verdict(run[r].feed, run[r].verified) = "incompatible"
    /\ run[r].problem = "escape" =>
          run[r].verified # NoFile /\ Escapes(run[r].feed, run[r].verified)
    /\ run[r].pc \in Ending /\ run[r].problem = "none" =>
          installed.by \in Runs /\ Verdict(run[r].feed, run[r].verified) = "compatible"

KeeperIInv ==
    /\ \A r, s \in Runs : run[r].invocation.keep /\ run[s].invocation.keep => r = s
    /\ \A r \in Runs : KeeperInv(r)
    /\ ManifestNamesItsArchive /\ ExitCodeIsTruthful

-----------------------------------------------------------------------------
(* The proofs                                                              *)

-----------------------------------------------------------------------------
(* What a step of one run touches                                          *)

\* Another run's files and its local state are its own; a run installs in its own name.
Alone(r) ==
    /\ \A s \in Runs \ {r} :
          /\ run'[s] = run[s] /\ part'[s] = part[s] /\ staging'[s] = staging[s]
          /\ zip'[s] = zip[s]
    /\ run'[r].invocation = run[r].invocation
    /\ installed' = installed \/ installed'.by = r
    /\ offers' = offers

\* Paths, runs and the contents of files that are told apart.
LEMMA DistinctNames ==
    /\ Retained \notin Runs /\ NoFile \notin Runs /\ NoFile # EmptyFile
    /\ \A offer \in Offers : offer.archive \notin {NoFile, EmptyFile}
BY UpdateAssumption

\* The labels that a run proceeds to, the ways it ends and its exit codes.
LEMMA StateNames ==
    /\ {"preparing", "downloading", "fetching", "hashing", "staging", "extracting",
        "validating", "judging", "swapping", "unstaging", "cleaning", "ended"} \subseteq Labels
    /\ {"none", "incompatible", "error", "escape", "interrupt"} \subseteq Problems
    /\ {"none", "0", "1", "2", "interrupted", "killed"} \subseteq Exits
BY DEF Labels, Problems, Exits, Started, Staged, Ending

\* Proceeding, and failing, leave a run in a state of a run.
LEMMA ProceedType ==
    ASSUME run \in [Runs -> RunStates], NEW r \in Runs, NEW label \in Labels,
           Proceed(r, label)
    PROVE  run' \in [Runs -> RunStates]
BY DEF Proceed, RunStates

\* A run that gives up is still a run.
LEMMA FailType ==
    ASSUME run \in [Runs -> RunStates], NEW r \in Runs, NEW label \in Labels,
           NEW kind \in Problems, Fail(r, kind, label)
    PROVE  run' \in [Runs -> RunStates]
<1> DEFINE new == [run[r] EXCEPT !.pc = label, !.problem = kind]
<1>1. run' = [run EXCEPT ![r] = new]
  BY DEF Fail
<1>2. new \in RunStates
  BY DEF RunStates
<1> HIDE DEF new
<1> QED BY <1>1, <1>2

\* Every way to end has an exit code.
LEMMA ExitCodeType == \A problem \in Problems : ExitCode(problem) \in Exits
BY DEF Problems, Exits, ExitCode

\* What the servers offer now is one of the offers.
LEMMA OfferedIsOne ==
    ASSUME TypeOK
    PROVE  offered \in Offers
BY DEF TypeOK, offered

\* Every step leaves its run in a state of a run.
LEMMA StepRuns ==
    ASSUME run \in [Runs -> RunStates], FilesOK, offered \in Offers, NEW r \in Runs,
           Download(r) \/ Install(r) \/ End(r)
    PROVE  run' \in [Runs -> RunStates]
<1> USE DistinctNames DEF At, RunStates
<1>1. ParseArguments(r) => run' \in [Runs -> RunStates]
  BY StateNames, ProceedType, FailType DEF ParseArguments
<1>2. PrepareArchive(r) => run' \in [Runs -> RunStates]
  BY StateNames, ProceedType, FailType DEF PrepareArchive
<1>3. PrepareFails(r) => run' \in [Runs -> RunStates]
  BY StateNames, ProceedType, FailType DEF PrepareFails
<1>4. StartDownload(r) => run' \in [Runs -> RunStates]
  BY DEF StartDownload
<1>5. FinishDownload(r) => run' \in [Runs -> RunStates]
  <2> SUFFICES ASSUME FinishDownload(r) PROVE run' \in [Runs -> RunStates]
    OBVIOUS
  <2> DEFINE new == [run[r] EXCEPT !.pc = "fetching", !.downloaded = part[r]]
  <2>1. run' = [run EXCEPT ![r] = new]
    BY DEF FinishDownload
  <2>a. part[r] \in Contents
    BY DEF FilesOK
  <2>b. run[r] \in RunStates /\ "fetching" \in Labels
    BY StateNames
  <2>2. new \in RunStates
    BY <2>a, <2>b
  <2> HIDE DEF new
  <2> QED BY <2>1, <2>2
<1>6. DownloadFails(r) => run' \in [Runs -> RunStates]
  BY StateNames, ProceedType, FailType DEF DownloadFails
<1>7. DownloadUndeleted(r) => run' \in [Runs -> RunStates]
  <2> SUFFICES ASSUME DownloadUndeleted(r) PROVE run' \in [Runs -> RunStates]
    OBVIOUS
  <2> DEFINE new == [run[r] EXCEPT !.pc = "cleaning", !.problem = "error",
                                  !.undeleted = @ \cup {"part"}]
  <2>1. run' = [run EXCEPT ![r] = new]
    BY DEF DownloadUndeleted
  <2>2. new \in RunStates
    BY StateNames
  <2> HIDE DEF new
  <2> QED BY <2>1, <2>2
<1>8. FetchFeed(r) => run' \in [Runs -> RunStates]
  <2> SUFFICES ASSUME FetchFeed(r) PROVE run' \in [Runs -> RunStates]
    OBVIOUS
  <2> DEFINE new == [run[r] EXCEPT !.pc = "hashing", !.feed = offered.feed]
  <2>1. run' = [run EXCEPT ![r] = new]
    BY DEF FetchFeed
  <2>2. new \in RunStates
    BY StateNames DEF OfferedFeeds
  <2> HIDE DEF new
  <2> QED BY <2>1, <2>2
<1>9. FetchFails(r) => run' \in [Runs -> RunStates]
  BY StateNames, ProceedType, FailType DEF FetchFails
<1>10. HashArchive(r) => run' \in [Runs -> RunStates]
  <2> SUFFICES ASSUME HashArchive(r) PROVE run' \in [Runs -> RunStates]
    OBVIOUS
  <2>1. CASE zip[Archive(r)] = run[r].downloaded
    <3> DEFINE new == [run[r] EXCEPT !.pc = "staging", !.verified = zip[Archive(r)]]
    <3>1. run' = [run EXCEPT ![r] = new]
      BY <2>1 DEF HashArchive
    <3>2. zip[Archive(r)] \in Contents
      BY DEF FilesOK, Archive
    <3>3. new \in RunStates
      BY <3>2, StateNames
    <3> HIDE DEF new
    <3> QED BY <3>1, <3>3
  <2>2. CASE zip[Archive(r)] # run[r].downloaded
    BY <2>2, StateNames, FailType DEF HashArchive
  <2> QED BY <2>1, <2>2
<1>11. MakeStaging(r) => run' \in [Runs -> RunStates]
  BY StateNames, ProceedType, FailType DEF MakeStaging
<1>12. MakeStagingFails(r) => run' \in [Runs -> RunStates]
  BY StateNames, ProceedType, FailType DEF MakeStagingFails
<1>13. ExtractArchive(r) => run' \in [Runs -> RunStates]
  BY StateNames, ProceedType, FailType DEF ExtractArchive
<1>14. ValidateFiles(r) => run' \in [Runs -> RunStates]
  BY StateNames, ProceedType, FailType DEF ValidateFiles
<1>15. JudgeCandidate(r) => run' \in [Runs -> RunStates]
  BY StateNames, ProceedType, FailType DEF JudgeCandidate, Verdict, Judge
<1>16. SwapInstalls(r) => run' \in [Runs -> RunStates]
  BY StateNames, ProceedType, FailType DEF SwapInstalls
<1>17. SwapFails(r) => run' \in [Runs -> RunStates]
  BY StateNames, ProceedType, FailType DEF SwapFails
<1>18. RemoveStaging(r) => run' \in [Runs -> RunStates]
  BY StateNames, ProceedType, FailType DEF RemoveStaging
<1>19. StagingUndeleted(r) => run' \in [Runs -> RunStates]
  <2> SUFFICES ASSUME StagingUndeleted(r) PROVE run' \in [Runs -> RunStates]
    OBVIOUS
  <2> DEFINE new == [run[r] EXCEPT !.pc = "cleaning", !.problem = "error",
                                  !.undeleted = @ \cup {"staging"}]
  <2>1. run' = [run EXCEPT ![r] = new]
    BY DEF StagingUndeleted
  <2>2. new \in RunStates
    BY StateNames
  <2> HIDE DEF new
  <2> QED BY <2>1, <2>2
<1>20. CleanUp(r) => run' \in [Runs -> RunStates]
  <2> SUFFICES ASSUME CleanUp(r) PROVE run' \in [Runs -> RunStates]
    OBVIOUS
  <2> DEFINE new == [run[r] EXCEPT !.pc = "ended", !.exit = ExitCode(run[r].problem)]
  <2>1. run' = [run EXCEPT ![r] = new]
    BY DEF CleanUp
  <2>2. new \in RunStates
    BY StateNames, ExitCodeType
  <2> HIDE DEF new
  <2> QED BY <2>1, <2>2
<1>21. CleanUpFails(r) => run' \in [Runs -> RunStates]
  <2> SUFFICES ASSUME CleanUpFails(r) PROVE run' \in [Runs -> RunStates]
    OBVIOUS
  <2> DEFINE new == [run[r] EXCEPT !.pc = "ended", !.undeleted = @ \cup {"zip"},
                    !.exit = IF run[r].problem \in {"escape", "interrupt"}
                             THEN ExitCode(run[r].problem) ELSE ExitCode("error")]
  <2>1. run' = [run EXCEPT ![r] = new]
    BY DEF CleanUpFails
  <2>2. new \in RunStates
    BY StateNames, ExitCodeType
  <2> HIDE DEF new
  <2> QED BY <2>1, <2>2
<1>22. Kill(r) => run' \in [Runs -> RunStates]
  <2> SUFFICES ASSUME Kill(r) PROVE run' \in [Runs -> RunStates]
    OBVIOUS
  <2> DEFINE new == [run[r] EXCEPT !.pc = "ended", !.exit = "killed"]
  <2>1. run' = [run EXCEPT ![r] = new]
    BY DEF Kill
  <2>2. new \in RunStates
    BY StateNames
  <2> HIDE DEF new
  <2> QED BY <2>1, <2>2
<1>23. Interrupt(r) => run' \in [Runs -> RunStates]
  BY StateNames, FailType DEF Interrupt
<1> QED
  BY <1>23, <1>1, <1>2, <1>3, <1>4, <1>5, <1>6, <1>7, <1>8, <1>9, <1>10, <1>11,
     <1>12, <1>13, <1>14, <1>15, <1>16, <1>17, <1>18, <1>19, <1>20, <1>21, <1>22
  DEF Download, Install, End

\* Every step leaves archives at the places of archives.
LEMMA StepFiles ==
    ASSUME run \in [Runs -> RunStates], FilesOK, offered \in Offers, NEW r \in Runs,
           Download(r) \/ Install(r) \/ End(r)
    PROVE  FilesOK'
<1> USE DistinctNames DEF FilesOK, At, World, disk, Contents, OfferedArchives
<1>1. ParseArguments(r) => FilesOK'
  BY DEF ParseArguments
<1>2. PrepareArchive(r) => FilesOK'
  BY DEF PrepareArchive
<1>3. PrepareFails(r) => FilesOK'
  BY DEF PrepareFails
<1>4. StartDownload(r) => FilesOK'
  BY DEF StartDownload
<1>5. FinishDownload(r) => FilesOK'
  BY DEF FinishDownload, Archive, RunStates
<1>6. DownloadFails(r) => FilesOK'
  BY DEF DownloadFails
<1>7. DownloadUndeleted(r) => FilesOK'
  BY DEF DownloadUndeleted
<1>8. FetchFeed(r) => FilesOK'
  BY DEF FetchFeed
<1>9. FetchFails(r) => FilesOK'
  BY DEF FetchFails
<1>10. HashArchive(r) => FilesOK'
  BY DEF HashArchive
<1>11. MakeStaging(r) => FilesOK'
  BY DEF MakeStaging, Archive
<1>12. MakeStagingFails(r) => FilesOK'
  BY DEF MakeStagingFails
<1>13. ExtractArchive(r) => FilesOK'
  BY DEF ExtractArchive
<1>14. ValidateFiles(r) => FilesOK'
  BY DEF ValidateFiles
<1>15. JudgeCandidate(r) => FilesOK'
  BY DEF JudgeCandidate
<1>16. SwapInstalls(r) => FilesOK'
  BY DEF SwapInstalls, RunStates
<1>17. SwapFails(r) => FilesOK'
  BY DEF SwapFails
<1>18. RemoveStaging(r) => FilesOK'
  BY DEF RemoveStaging
<1>19. StagingUndeleted(r) => FilesOK'
  BY DEF StagingUndeleted
<1>20. CleanUp(r) => FilesOK'
  BY DEF CleanUp, ExitCode
<1>21. CleanUpFails(r) => FilesOK'
  BY DEF CleanUpFails, ExitCode
<1>22. Kill(r) => FilesOK'
  BY DEF Kill
<1>23. Interrupt(r) => FilesOK'
  BY DEF Interrupt
<1> QED
  BY <1>23, <1>1, <1>2, <1>3, <1>4, <1>5, <1>6, <1>7, <1>8, <1>9, <1>10, <1>11,
     <1>12, <1>13, <1>14, <1>15, <1>16, <1>17, <1>18, <1>19, <1>20, <1>21, <1>22
  DEF Download, Install, End

\* A step touches its own run only.
LEMMA StepIsAlone ==
    ASSUME TypeOK, NEW r \in Runs, Download(r) \/ Install(r) \/ End(r)
    PROVE  Alone(r)
<1> USE DistinctNames DEF TypeOK, RunStates, Alone, At, Proceed, Fail, World, disk
<1>1. ParseArguments(r) => Alone(r)
  BY DEF ParseArguments
<1>2. PrepareArchive(r) => Alone(r)
  BY DEF PrepareArchive, Archive
<1>3. PrepareFails(r) => Alone(r)
  BY DEF PrepareFails
<1>4. StartDownload(r) => Alone(r)
  BY DEF StartDownload
<1>5. FinishDownload(r) => Alone(r)
  BY DEF FinishDownload, Archive
<1>6. DownloadFails(r) => Alone(r)
  BY DEF DownloadFails
<1>7. DownloadUndeleted(r) => Alone(r)
  BY DEF DownloadUndeleted
<1>8. FetchFeed(r) => Alone(r)
  BY DEF FetchFeed
<1>9. FetchFails(r) => Alone(r)
  BY DEF FetchFails
<1>10. HashArchive(r) => Alone(r)
  BY DEF HashArchive
<1>11. MakeStaging(r) => Alone(r)
  BY DEF MakeStaging
<1>12. MakeStagingFails(r) => Alone(r)
  BY DEF MakeStagingFails
<1>13. ExtractArchive(r) => Alone(r)
  BY DEF ExtractArchive
<1>14. ValidateFiles(r) => Alone(r)
  BY DEF ValidateFiles
<1>15. JudgeCandidate(r) => Alone(r)
  BY DEF JudgeCandidate
<1>16. SwapInstalls(r) => Alone(r)
  BY DEF SwapInstalls
<1>17. SwapFails(r) => Alone(r)
  BY DEF SwapFails
<1>18. RemoveStaging(r) => Alone(r)
  BY DEF RemoveStaging
<1>19. StagingUndeleted(r) => Alone(r)
  BY DEF StagingUndeleted
<1>20. CleanUp(r) => Alone(r)
  BY DEF CleanUp, ExitCode
<1>21. CleanUpFails(r) => Alone(r)
  BY DEF CleanUpFails, ExitCode
<1>22. Kill(r) => Alone(r)
  BY DEF Kill
<1>23. Interrupt(r) => Alone(r)
  BY DEF Interrupt
<1> QED
  BY <1>23, <1>1, <1>2, <1>3, <1>4, <1>5, <1>6, <1>7, <1>8, <1>9, <1>10, <1>11,
     <1>12, <1>13, <1>14, <1>15, <1>16, <1>17, <1>18, <1>19, <1>20, <1>21, <1>22
  DEF Download, Install, End

-----------------------------------------------------------------------------
(* What a run leaves, reports and installs                                 *)

\* A step leaves of its own run what the run accounts for.
LEMMA StepLeft ==
    ASSUME TypeOK, NEW r \in Runs, LeftInv(r), ProblemInv(r),
           Download(r) \/ Install(r) \/ End(r)
    PROVE  LeftInv(r)'
<1> USE DistinctNames DEF TypeOK, FilesOK, RunStates, At, Proceed, Fail, World, disk,
           LeftInv, ProblemInv, Started, Staged, Ending
<1>1. ParseArguments(r) => LeftInv(r)'
  BY DEF ParseArguments
<1>2. PrepareArchive(r) => LeftInv(r)'
  BY DEF PrepareArchive
<1>3. PrepareFails(r) => LeftInv(r)'
  BY DEF PrepareFails
<1>4. StartDownload(r) => LeftInv(r)'
  BY DEF StartDownload
<1>5. FinishDownload(r) => LeftInv(r)'
  BY DEF FinishDownload, Archive
<1>6. DownloadFails(r) => LeftInv(r)'
  BY DEF DownloadFails
<1>7. DownloadUndeleted(r) => LeftInv(r)'
  BY DEF DownloadUndeleted
<1>8. FetchFeed(r) => LeftInv(r)'
  BY DEF FetchFeed
<1>9. FetchFails(r) => LeftInv(r)'
  BY DEF FetchFails
<1>10. HashArchive(r) => LeftInv(r)'
  BY DEF HashArchive
<1>11. MakeStaging(r) => LeftInv(r)'
  BY DEF MakeStaging
<1>12. MakeStagingFails(r) => LeftInv(r)'
  BY DEF MakeStagingFails
<1>13. ExtractArchive(r) => LeftInv(r)'
  BY DEF ExtractArchive
<1>14. ValidateFiles(r) => LeftInv(r)'
  BY DEF ValidateFiles
<1>15. JudgeCandidate(r) => LeftInv(r)'
  BY DEF JudgeCandidate
<1>16. SwapInstalls(r) => LeftInv(r)'
  BY DEF SwapInstalls
<1>17. SwapFails(r) => LeftInv(r)'
  BY DEF SwapFails
<1>18. RemoveStaging(r) => LeftInv(r)'
  BY DEF RemoveStaging
<1>19. StagingUndeleted(r) => LeftInv(r)'
  BY DEF StagingUndeleted
<1>20. CleanUp(r) => LeftInv(r)'
  BY DEF CleanUp
<1>21. CleanUpFails(r) => LeftInv(r)'
  BY DEF CleanUpFails
<1>22. Kill(r) => LeftInv(r)'
  BY DEF Kill
<1>23. Interrupt(r) => LeftInv(r)'
  BY DEF Interrupt
<1> QED
  BY <1>23, <1>1, <1>2, <1>3, <1>4, <1>5, <1>6, <1>7, <1>8, <1>9, <1>10, <1>11,
     <1>12, <1>13, <1>14, <1>15, <1>16, <1>17, <1>18, <1>19, <1>20, <1>21, <1>22
  DEF Download, Install, End

\* A step keeps what its own run will report decided.
LEMMA StepProblem ==
    ASSUME TypeOK, NEW r \in Runs, ProblemInv(r),
           Download(r) \/ Install(r) \/ End(r)
    PROVE  ProblemInv(r)'
<1> USE DistinctNames DEF TypeOK, FilesOK, RunStates, At, Proceed, Fail, World, disk,
           ProblemInv, Started, Staged, Ending
<1>1. ParseArguments(r) => ProblemInv(r)'
  <2> SUFFICES ASSUME ParseArguments(r) PROVE ProblemInv(r)'
    OBVIOUS
  <2>1. CASE run[r].invocation.policy = "invalid"
    BY <2>1 DEF ParseArguments
  <2>2. CASE /\ run[r].invocation.policy # "invalid"
             /\ PathsOverlap(run[r].invocation.output, NamedPaths(run[r].invocation))
    BY <2>2 DEF ParseArguments
  <2>3. CASE /\ run[r].invocation.policy # "invalid"
             /\ ~PathsOverlap(run[r].invocation.output, NamedPaths(run[r].invocation))
    <3>1. At(r, "parsing") /\ Proceed(r, "preparing") /\ installed' = installed
      BY <2>3 DEF ParseArguments
    <3> QED BY <3>1
  <2> QED BY <2>1, <2>2, <2>3
<1>2. PrepareArchive(r) => ProblemInv(r)'
  BY DEF PrepareArchive
<1>3. PrepareFails(r) => ProblemInv(r)'
  BY DEF PrepareFails
<1>4. StartDownload(r) => ProblemInv(r)'
  BY DEF StartDownload
<1>5. FinishDownload(r) => ProblemInv(r)'
  BY DEF FinishDownload
<1>6. DownloadFails(r) => ProblemInv(r)'
  BY DEF DownloadFails
<1>7. DownloadUndeleted(r) => ProblemInv(r)'
  BY DEF DownloadUndeleted
<1>8. FetchFeed(r) => ProblemInv(r)'
  BY DEF FetchFeed
<1>9. FetchFails(r) => ProblemInv(r)'
  BY DEF FetchFails
<1>10. HashArchive(r) => ProblemInv(r)'
  <2> SUFFICES ASSUME HashArchive(r) PROVE ProblemInv(r)'
    OBVIOUS
  <2>1. CASE zip[Archive(r)] = run[r].downloaded
    <3>1. /\ run'[r].pc = "staging" /\ run'[r].exit = run[r].exit
          /\ run'[r].problem = run[r].problem /\ run'[r].undeleted = run[r].undeleted
          /\ At(r, "hashing") /\ installed' = installed
      BY <2>1 DEF HashArchive
    <3> QED BY <3>1
  <2>2. CASE zip[Archive(r)] # run[r].downloaded
    BY <2>2 DEF HashArchive
  <2> QED BY <2>1, <2>2
<1>11. MakeStaging(r) => ProblemInv(r)'
  BY DEF MakeStaging
<1>12. MakeStagingFails(r) => ProblemInv(r)'
  BY DEF MakeStagingFails
<1>13. ExtractArchive(r) => ProblemInv(r)'
  <2> SUFFICES ASSUME ExtractArchive(r) PROVE ProblemInv(r)'
    OBVIOUS
  <2>1. CASE Extract(staging[r]).outcome = "ok" /\ Proceed(r, "validating")
    BY <2>1 DEF ExtractArchive
  <2>2. CASE \E kind \in {"error", "escape"} : Fail(r, kind, "unstaging")
    BY <2>2 DEF ExtractArchive
  <2>3. CASE Fail(r, "error", "unstaging")
    BY <2>3 DEF ExtractArchive
  <2> QED BY <2>1, <2>2, <2>3 DEF ExtractArchive
<1>14. ValidateFiles(r) => ProblemInv(r)'
  <2> SUFFICES ASSUME ValidateFiles(r) PROVE ProblemInv(r)'
    OBVIOUS
  <2>1. CASE \/ HeadersRefused(staging[r], Extract(staging[r]))
             \/ Calendar(staging[r]) = Unreadable
    BY <2>1 DEF ValidateFiles
  <2>2. CASE ~(\/ HeadersRefused(staging[r], Extract(staging[r]))
               \/ Calendar(staging[r]) = Unreadable)
    BY SMTT(20), <2>2 DEF ValidateFiles
  <2> QED BY <2>1, <2>2
<1>15. JudgeCandidate(r) => ProblemInv(r)'
  <2> SUFFICES ASSUME JudgeCandidate(r) PROVE ProblemInv(r)'
    OBVIOUS
  <2>1. CASE Verdict(run[r].feed, staging[r]) = "compatible"
    <3>1. Proceed(r, "swapping") /\ At(r, "judging") /\ installed' = installed
      BY <2>1 DEF JudgeCandidate
    <3> QED BY <3>1
  <2>2. CASE Verdict(run[r].feed, staging[r]) # "compatible"
    BY <2>2 DEF JudgeCandidate, Verdict, Judge
  <2> QED BY <2>1, <2>2
<1>16. SwapInstalls(r) => ProblemInv(r)'
  BY DEF SwapInstalls
<1>17. SwapFails(r) => ProblemInv(r)'
  BY DEF SwapFails
<1>18. RemoveStaging(r) => ProblemInv(r)'
  BY DEF RemoveStaging
<1>19. StagingUndeleted(r) => ProblemInv(r)'
  BY DEF StagingUndeleted
<1>20. CleanUp(r) => ProblemInv(r)'
  BY DEF CleanUp, ExitCode, Problems
<1>21. CleanUpFails(r) => ProblemInv(r)'
  BY DEF CleanUpFails, ExitCode
<1>22. Kill(r) => ProblemInv(r)'
  BY DEF Kill
<1>23. Interrupt(r) => ProblemInv(r)'
  BY DEF Interrupt
<1> QED
  BY <1>23, <1>1, <1>2, <1>3, <1>4, <1>5, <1>6, <1>7, <1>8, <1>9, <1>10, <1>11,
     <1>12, <1>13, <1>14, <1>15, <1>16, <1>17, <1>18, <1>19, <1>20, <1>21, <1>22
  DEF Download, Install, End

\* A step keeps what its own candidate has passed.
LEMMA StepCandidate ==
    ASSUME TypeOK, NEW r \in Runs, CandidateInv(r),
           Download(r) \/ Install(r) \/ End(r)
    PROVE  CandidateInv(r)'
<1> USE DistinctNames DEF TypeOK, FilesOK, RunStates, At, Proceed, Fail, World, disk,
           CandidateInv, Staged
<1>1. ParseArguments(r) => CandidateInv(r)'
  BY DEF ParseArguments
<1>2. PrepareArchive(r) => CandidateInv(r)'
  BY DEF PrepareArchive
<1>3. PrepareFails(r) => CandidateInv(r)'
  BY DEF PrepareFails
<1>4. StartDownload(r) => CandidateInv(r)'
  BY DEF StartDownload
<1>5. FinishDownload(r) => CandidateInv(r)'
  BY DEF FinishDownload
<1>6. DownloadFails(r) => CandidateInv(r)'
  BY DEF DownloadFails
<1>7. DownloadUndeleted(r) => CandidateInv(r)'
  BY DEF DownloadUndeleted
<1>8. FetchFeed(r) => CandidateInv(r)'
  <2> SUFFICES ASSUME FetchFeed(r) PROVE CandidateInv(r)'
    OBVIOUS
  <2>1. run'[r].pc = "hashing" /\ run'[r].feed = offered.feed
    BY DEF FetchFeed
  <2>2. offered.feed \in OfferedFeeds
    BY OfferedIsOne DEF OfferedFeeds
  <2> QED BY <2>1, <2>2
<1>9. FetchFails(r) => CandidateInv(r)'
  BY DEF FetchFails
<1>10. HashArchive(r) => CandidateInv(r)'
  <2> SUFFICES ASSUME HashArchive(r) PROVE CandidateInv(r)'
    OBVIOUS
  <2>1. CASE zip[Archive(r)] = run[r].downloaded
    BY <2>1 DEF HashArchive
  <2>2. CASE zip[Archive(r)] # run[r].downloaded
    BY <2>2 DEF HashArchive
  <2> QED BY <2>1, <2>2
<1>11. MakeStaging(r) => CandidateInv(r)'
  BY DEF MakeStaging
<1>12. MakeStagingFails(r) => CandidateInv(r)'
  BY DEF MakeStagingFails
<1>13. ExtractArchive(r) => CandidateInv(r)'
  <2> SUFFICES ASSUME ExtractArchive(r) PROVE CandidateInv(r)'
    OBVIOUS
  <2>1. CASE Extract(staging[r]).outcome = "ok" /\ Proceed(r, "validating")
    BY <2>1 DEF ExtractArchive
  <2>2. CASE \E kind \in {"error", "escape"} : Fail(r, kind, "unstaging")
    BY <2>2 DEF ExtractArchive
  <2>3. CASE Fail(r, "error", "unstaging")
    BY <2>3 DEF ExtractArchive
  <2> QED BY <2>1, <2>2, <2>3 DEF ExtractArchive
<1>14. ValidateFiles(r) => CandidateInv(r)'
  <2> SUFFICES ASSUME ValidateFiles(r) PROVE CandidateInv(r)'
    OBVIOUS
  <2>1. CASE \/ HeadersRefused(staging[r], Extract(staging[r]))
             \/ Calendar(staging[r]) = Unreadable
    BY <2>1 DEF ValidateFiles
  <2>2. CASE ~(\/ HeadersRefused(staging[r], Extract(staging[r]))
               \/ Calendar(staging[r]) = Unreadable)
    <3>1. Proceed(r, "judging") /\ At(r, "validating") /\ staging' = staging
      BY <2>2 DEF ValidateFiles
    <3> QED BY <2>2, <3>1
  <2> QED BY <2>1, <2>2
<1>15. JudgeCandidate(r) => CandidateInv(r)'
  <2> SUFFICES ASSUME JudgeCandidate(r) PROVE CandidateInv(r)'
    OBVIOUS
  <2>1. CASE Verdict(run[r].feed, staging[r]) = "compatible"
    <3>1. Proceed(r, "swapping") /\ At(r, "judging") /\ staging' = staging
      BY <2>1 DEF JudgeCandidate
    <3> QED BY <2>1, <3>1
  <2>2. CASE Verdict(run[r].feed, staging[r]) # "compatible"
    BY <2>2 DEF JudgeCandidate
  <2> QED BY <2>1, <2>2
<1>16. SwapInstalls(r) => CandidateInv(r)'
  BY DEF SwapInstalls
<1>17. SwapFails(r) => CandidateInv(r)'
  BY DEF SwapFails
<1>18. RemoveStaging(r) => CandidateInv(r)'
  BY DEF RemoveStaging
<1>19. StagingUndeleted(r) => CandidateInv(r)'
  BY DEF StagingUndeleted
<1>20. CleanUp(r) => CandidateInv(r)'
  BY DEF CleanUp
<1>21. CleanUpFails(r) => CandidateInv(r)'
  BY DEF CleanUpFails
<1>22. Kill(r) => CandidateInv(r)'
  BY DEF Kill
<1>23. Interrupt(r) => CandidateInv(r)'
  BY DEF Interrupt
<1> QED
  BY <1>23, <1>1, <1>2, <1>3, <1>4, <1>5, <1>6, <1>7, <1>8, <1>9, <1>10, <1>11,
     <1>12, <1>13, <1>14, <1>15, <1>16, <1>17, <1>18, <1>19, <1>20, <1>21, <1>22
  DEF Download, Install, End

\* What a step installs has passed everything.
LEMMA StepInstalled ==
    ASSUME TypeOK, NEW r \in Runs, CandidateInv(r), InstalledInv,
           Download(r) \/ Install(r) \/ End(r)
    PROVE  InstalledInv'
<1> USE DistinctNames DEF TypeOK, FilesOK, RunStates, At, Proceed, Fail, World, disk,
           InstalledInv, CandidateInv, Staged
<1>1. ParseArguments(r) => InstalledInv'
  BY DEF ParseArguments
<1>2. PrepareArchive(r) => InstalledInv'
  BY DEF PrepareArchive
<1>3. PrepareFails(r) => InstalledInv'
  BY DEF PrepareFails
<1>4. StartDownload(r) => InstalledInv'
  BY DEF StartDownload
<1>5. FinishDownload(r) => InstalledInv'
  BY DEF FinishDownload
<1>6. DownloadFails(r) => InstalledInv'
  BY DEF DownloadFails
<1>7. DownloadUndeleted(r) => InstalledInv'
  BY DEF DownloadUndeleted
<1>8. FetchFeed(r) => InstalledInv'
  BY DEF FetchFeed
<1>9. FetchFails(r) => InstalledInv'
  BY DEF FetchFails
<1>10. HashArchive(r) => InstalledInv'
  BY DEF HashArchive
<1>11. MakeStaging(r) => InstalledInv'
  BY DEF MakeStaging
<1>12. MakeStagingFails(r) => InstalledInv'
  BY DEF MakeStagingFails
<1>13. ExtractArchive(r) => InstalledInv'
  BY DEF ExtractArchive
<1>14. ValidateFiles(r) => InstalledInv'
  BY DEF ValidateFiles
<1>15. JudgeCandidate(r) => InstalledInv'
  BY DEF JudgeCandidate
<1>16. SwapInstalls(r) => InstalledInv'
  BY DEF SwapInstalls
<1>17. SwapFails(r) => InstalledInv'
  BY DEF SwapFails
<1>18. RemoveStaging(r) => InstalledInv'
  BY DEF RemoveStaging
<1>19. StagingUndeleted(r) => InstalledInv'
  BY DEF StagingUndeleted
<1>20. CleanUp(r) => InstalledInv'
  BY DEF CleanUp
<1>21. CleanUpFails(r) => InstalledInv'
  BY DEF CleanUpFails
<1>22. Kill(r) => InstalledInv'
  BY DEF Kill
<1>23. Interrupt(r) => InstalledInv'
  BY DEF Interrupt
<1> QED
  BY <1>23, <1>1, <1>2, <1>3, <1>4, <1>5, <1>6, <1>7, <1>8, <1>9, <1>10, <1>11,
     <1>12, <1>13, <1>14, <1>15, <1>16, <1>17, <1>18, <1>19, <1>20, <1>21, <1>22
  DEF Download, Install, End

\* A step of one run leaves the others what they had.
LEMMA OthersKeepTheirs ==
    ASSUME TypeOK, NEW r \in Runs, NEW s \in Runs \ {r}, Alone(r),
           LeftInv(s), ProblemInv(s), CandidateInv(s)
    PROVE  LeftInv(s)' /\ ProblemInv(s)' /\ CandidateInv(s)'
<1>1. /\ run'[s] = run[s] /\ part'[s] = part[s] /\ staging'[s] = staging[s]
      /\ zip'[s] = zip[s]
      /\ installed' = installed \/ installed'.by = r
  BY DEF Alone
<1>2. LeftInv(s)'
  BY <1>1 DEF LeftInv, At
<1>3. ProblemInv(s)'
  BY <1>1 DEF ProblemInv
<1>4. CandidateInv(s)'
  BY <1>1 DEF CandidateInv, At
<1> QED BY <1>2, <1>3, <1>4

\* Every scenario of the instance starts inside the invariant.
LEMMA UpdateStart == Init => UpdateIInv
<1> SUFFICES ASSUME Init PROVE UpdateIInv
  OBVIOUS
<1>1. PICK scenario \in Scenarios :
        /\ offers = scenario.offers
        /\ run = [r \in Runs |->
             [pc |-> "parsing", invocation |-> scenario.invocation[r],
              downloaded |-> NoFile, feed |-> NoFile, verified |-> NoFile,
              problem |-> "none", undeleted |-> {}, exit |-> "none"]]
  BY DEF Init
<1>2. offers \in Seq(Offers) /\ offers # <<>>
  <2>1. ToSet(scenario.offers) \subseteq Offers
    BY DEF Offers
  <2> QED BY <1>1, <2>1, UpdateAssumption
<1>3. FilesOK /\ kills \in Nat
  BY DEF Init, FilesOK, Contents, NoManifest
<1>4. run \in [Runs -> RunStates]
  <2> SUFFICES ASSUME NEW r \in Runs PROVE run[r] \in RunStates
    BY <1>1
  <2>1. scenario.invocation[r] \in Invocations
    BY DEF Invocations
  <2>2. "parsing" \in Labels /\ NoFile \in Contents
    BY DEF Labels, Started, Contents
  <2> QED BY <1>1, <2>1, <2>2, StateNames DEF RunStates
<1>5. InstalledInv
  BY DEF Init, InstalledInv, NoManifest
<1>6. ASSUME NEW r \in Runs PROVE LeftInv(r) /\ ProblemInv(r) /\ CandidateInv(r)
  <2>1. /\ run[r].pc = "parsing" /\ run[r].exit = "none" /\ run[r].problem = "none"
        /\ run[r].undeleted = {} /\ installed.by = NoFile
        /\ part[r] = NoFile /\ staging[r] = NoFile /\ zip[r] = NoFile
    BY <1>1 DEF Init, NoManifest
  <2> QED BY <2>1, UpdateAssumption
          DEF LeftInv, ProblemInv, CandidateInv, Started, Staged, Ending, At
<1> QED BY <1>2, <1>3, <1>4, <1>5, <1>6 DEF UpdateIInv, TypeOK

\* No step of a run leaves the types: one step of the proof per step of the code.
LEMMA StepTypeOK ==
    ASSUME TypeOK, NEW r \in Runs, Download(r) \/ Install(r) \/ End(r)
    PROVE  TypeOK'
<1>1. offers' = offers
  BY StepIsAlone DEF Alone
<1>2. kills' \in Nat
  BY DEF TypeOK, Download, Install, End, ParseArguments, PrepareArchive, PrepareFails,
     StartDownload, FinishDownload, DownloadFails, DownloadUndeleted, FetchFeed, FetchFails,
     HashArchive, MakeStaging, MakeStagingFails, ExtractArchive, ValidateFiles,
     JudgeCandidate, SwapInstalls, SwapFails, RemoveStaging, StagingUndeleted, CleanUp,
     CleanUpFails, Kill, Interrupt, World
<1>3. FilesOK'
  BY StepFiles, OfferedIsOne DEF TypeOK
<1>4. run' \in [Runs -> RunStates]
  BY StepRuns, OfferedIsOne DEF TypeOK
<1> QED BY <1>1, <1>2, <1>3, <1>4 DEF TypeOK

\* A change of the archive upstream touches nothing a run has in hand.
LEMMA UpstreamKeeps ==
    ASSUME UpdateIInv, UpstreamChanges
    PROVE  UpdateIInv'
<1>1. offers' \in Seq(Offers) /\ offers' # <<>>
  <2>1. offers \in Seq(Offers) /\ Len(offers) > 1 /\ offers' = Tail(offers)
    BY DEF UpdateIInv, TypeOK, UpstreamChanges
  <2>2. Len(offers') > 0 /\ offers' \in Seq(Offers)
    BY <2>1
  <2> QED BY <2>2
<1>2. UNCHANGED <<kills, zip, part, staging, installed, run>>
  BY DEF UpstreamChanges, disk
<1>3. TypeOK'
  BY <1>1, <1>2 DEF UpdateIInv, TypeOK, FilesOK
<1>4. InstalledInv'
  BY <1>2 DEF UpdateIInv, InstalledInv
<1>5. ASSUME NEW r \in Runs PROVE LeftInv(r)' /\ ProblemInv(r)' /\ CandidateInv(r)'
  BY <1>2 DEF UpdateIInv, LeftInv, ProblemInv, CandidateInv, At
<1> QED BY <1>3, <1>4, <1>5 DEF UpdateIInv

\* The invariant is inductive: one step per action, and under it its parts.
LEMMA UpdateStep == UpdateIInv /\ [Next]_vars => UpdateIInv'
<1> SUFFICES ASSUME UpdateIInv, [Next]_vars PROVE UpdateIInv'
  OBVIOUS
<1>1. CASE UNCHANGED vars
  <2>1. UNCHANGED <<offers, kills, zip, part, staging, installed, run>>
    BY <1>1 DEF vars, disk
  <2>2. TypeOK' /\ InstalledInv'
    BY <2>1 DEF UpdateIInv, TypeOK, FilesOK, InstalledInv
  <2>3. ASSUME NEW r \in Runs PROVE LeftInv(r)' /\ ProblemInv(r)' /\ CandidateInv(r)'
    BY <2>1 DEF UpdateIInv, LeftInv, ProblemInv, CandidateInv, At
  <2> QED BY <2>2, <2>3 DEF UpdateIInv
<1>2. CASE UpstreamChanges
  BY <1>2, UpstreamKeeps
<1>3. ASSUME NEW r \in Runs, Download(r) \/ Install(r) \/ End(r) PROVE UpdateIInv'
  <2>1. /\ TypeOK /\ InstalledInv
        /\ \A s \in Runs : LeftInv(s) /\ ProblemInv(s) /\ CandidateInv(s)
    BY DEF UpdateIInv
  <2>2. TypeOK'
    BY <1>3, <2>1, StepTypeOK
  <2>3. InstalledInv'
    BY <1>3, <2>1, StepInstalled
  <2>4. LeftInv(r)' /\ ProblemInv(r)' /\ CandidateInv(r)'
    BY <1>3, <2>1, StepLeft, StepProblem, StepCandidate
  <2>5. Alone(r)
    BY <1>3, <2>1, StepIsAlone
  <2>6. ASSUME NEW s \in Runs \ {r} PROVE LeftInv(s)' /\ ProblemInv(s)' /\ CandidateInv(s)'
    BY <2>1, <2>5, OthersKeepTheirs
  <2> QED BY <2>2, <2>3, <2>4, <2>6 DEF UpdateIInv
<1> QED BY <1>1, <1>2, <1>3 DEF Next

\* The inductive invariant of any number of overlapping runs, --keep-archive or not:
\* types, what each run still has on disk, what it will report, what its candidate has
\* passed, and that nothing is installed that did not pass every check
\* (static_gtfs.py: install_static_gtfs_archive).
THEOREM UpdateInvariant == Spec => []UpdateIInv
BY UpdateStart, UpdateStep, PTL DEF Spec

\* Whatever fails or interrupts it, a run that is not killed removes its partial
\* download, its temporary archive and its staging directory, or it could not
\* (the finally clauses of download_archive, install_static_gtfs_archive and cli_main).
THEOREM NothingLeftBehindTheorem == Spec => []NothingLeftBehind
<1>1. UpdateIInv => NothingLeftBehind
  <2> SUFFICES ASSUME UpdateIInv, NEW r \in Runs, Ended(r)
               PROVE  /\ part[r] # NoFile => "part" \in run[r].undeleted
                      /\ staging[r] # NoFile => "staging" \in run[r].undeleted
                      /\ zip[r] # NoFile => "zip" \in run[r].undeleted
    BY DEF NothingLeftBehind
  <2>1. LeftInv(r)
    BY DEF UpdateIInv
  <2> QED BY <2>1 DEF LeftInv, Ended, At, Staged
<1> QED BY <1>1, UpdateInvariant, PTL

-----------------------------------------------------------------------------
(* The report on a feed, by induction over its entities                    *)

\* A nonempty set of natural numbers has a least element.
LEMMA LeastExists ==
    ASSUME NEW S \in SUBSET Nat, S # {}
    PROVE  \E x \in S : \A y \in S : x <= y
<1>1. PICK x \in S : \A y \in S : ~(<<y, x>> \in OpToRel(<, Nat))
  BY NatLessThanWellFounded, WFMin
<1>2. \A y \in S : x <= y
  <2> TAKE y \in S
  <2>1. ~(y < x)
    BY <1>1 DEF OpToRel
  <2> QED BY <2>1
<1> QED BY <1>2

\* The counts after each of the first n entities.
IsCounts(c, entities, static, n) ==
    c = [i \in 0 .. n |-> IF i = 0 THEN NoCounts
                          ELSE CountEntity(c[i - 1], entities[i], static)]

\* The loop has counts after every entity.
LEMMA CountsExist ==
    ASSUME NEW entities, NEW static, NEW N \in Nat
    PROVE  \E c : IsCounts(c, entities, static, N)
<1> DEFINE Bad == {n \in 0 .. N : ~\E c : IsCounts(c, entities, static, n)}
<1>1. SUFFICES ASSUME Bad # {} PROVE FALSE
  OBVIOUS
<1>2. PICK n \in Bad : \A m \in Bad : n <= m
  <2>1. Bad \in SUBSET Nat
    OBVIOUS
  <2> HIDE DEF Bad
  <2> QED BY <1>1, <2>1, LeastExists
<1>3. n \in 0 .. N /\ ~\E c : IsCounts(c, entities, static, n)
  OBVIOUS
<1>4. CASE n = 0
  <2> DEFINE c == [i \in 0 .. 0 |-> NoCounts]
  <2>1. c = [i \in 0 .. 0 |-> IF i = 0 THEN NoCounts
                             ELSE CountEntity(c[i - 1], entities[i], static)]
    OBVIOUS
  <2> HIDE DEF c
  <2> QED BY <1>3, <1>4, <2>1 DEF IsCounts
<1>5. CASE n # 0
  <2>1. n - 1 \in 0 .. N /\ n - 1 \notin Bad
    BY <1>2, <1>3, <1>5
  <2>2. PICK c : IsCounts(c, entities, static, n - 1)
    BY <2>1
  <2> DEFINE d == [i \in 0 .. n |-> IF i = n THEN CountEntity(c[n - 1], entities[n], static)
                                   ELSE c[i]]
  <2>3. \A i \in 0 .. n : d[i] = IF i = 0 THEN NoCounts
                                 ELSE CountEntity(d[i - 1], entities[i], static)
    <3> TAKE i \in 0 .. n
    <3>1. CASE i = n
      <4>1. d[n] = CountEntity(c[n - 1], entities[n], static) /\ d[n - 1] = c[n - 1]
        BY <1>3, <1>5
      <4> QED BY <1>5, <3>1, <4>1
    <3>2. CASE i # n
      <4>1. i \in 0 .. n - 1 /\ d[i] = c[i]
        BY <1>3, <3>2
      <4>2. c[i] = IF i = 0 THEN NoCounts ELSE CountEntity(c[i - 1], entities[i], static)
        BY <2>2, <4>1 DEF IsCounts
      <4>3. i # 0 => d[i - 1] = c[i - 1]
        BY <1>3, <4>1
      <4> QED BY <4>1, <4>2, <4>3
    <3> QED BY <3>1, <3>2
  <2>4. IsCounts(d, entities, static, n)
    BY <2>3 DEF IsCounts
  <2> QED BY <1>3, <2>4
<1> QED BY <1>4, <1>5

\* Analyze is the last of its counts.
LEMMA AnalyzeCounts ==
    ASSUME NEW feed, NEW static, Len(feed.entities) \in Nat
    PROVE  \E c : /\ IsCounts(c, feed.entities, static, Len(feed.entities))
                  /\ Analyze(feed, static) = c[Len(feed.entities)]
<1> DEFINE c == CHOOSE x : x = [n \in 0 .. Len(feed.entities) |->
                    IF n = 0 THEN NoCounts
                    ELSE CountEntity(x[n - 1], feed.entities[n], static)]
<1>1. \E x : x = [n \in 0 .. Len(feed.entities) |->
                    IF n = 0 THEN NoCounts
                    ELSE CountEntity(x[n - 1], feed.entities[n], static)]
  <2>1. PICK x : IsCounts(x, feed.entities, static, Len(feed.entities))
    BY CountsExist
  <2> QED BY <2>1, Zenon DEF IsCounts
<1>2. IsCounts(c, feed.entities, static, Len(feed.entities))
  BY <1>1, Zenon DEF IsCounts
<1>3. Analyze(feed, static) = c[Len(feed.entities)]
  BY Zenon DEF Analyze
<1> HIDE DEF c
<1> QED BY <1>2, <1>3

\* The feed up to its n-th entity.
Prefix(feed, n) == [entities |-> [i \in 1 .. n |-> feed.entities[i]]]

\* The unique trip and the route of a trip that an entity adds to those of a feed.
TripOf(entity) ==
    IF entity.update /\ entity.relation = "SCHEDULED" THEN {entity.trip} \ {Blank} ELSE {}

RouteOf(entity, trip) ==
    IF /\ entity.update
       /\ entity.relation \in {"SCHEDULED", "CANCELED"}
       /\ entity.trip = trip
    THEN {entity.route} ELSE {}

\* The updates of a feed, its unique trips and the routes of a trip one entity further.
LEMMA UpdatesGrow ==
    ASSUME NEW feed, NEW n \in Nat \ {0}, NEW relations
    PROVE  Updates(Prefix(feed, n), relations) =
              Updates(Prefix(feed, n - 1), relations) \cup
                 (IF feed.entities[n].update /\ feed.entities[n].relation \in relations
                  THEN {feed.entities[n]} ELSE {})
<1> DEFINE e == feed.entities
           Holds(m) == e[m].update /\ e[m].relation \in relations
<1>1. ASSUME NEW m \in Nat
      PROVE  Updates(Prefix(feed, m), relations) = {e[i] : i \in {j \in 1 .. m : Holds(j)}}
  <2>1. Prefix(feed, m).entities = [i \in 1 .. m |-> e[i]]
    BY DEF Prefix
  <2>2. \A i \in 1 .. m : Prefix(feed, m).entities[i] = e[i]
    BY <2>1
  <2>3. DOMAIN Prefix(feed, m).entities = 1 .. m
    BY <2>1
  <2> QED BY <2>2, <2>3 DEF Updates
<1>2. 1 .. n = (1 .. n - 1) \cup {n} /\ n - 1 \in Nat
  OBVIOUS
<1>3. {e[i] : i \in {j \in 1 .. n : Holds(j)}} =
         {e[i] : i \in {j \in 1 .. n - 1 : Holds(j)}} \cup (IF Holds(n) THEN {e[n]} ELSE {})
  <2> HIDE DEF Holds, e
  <2> QED BY <1>2
<1> QED BY <1>1, <1>2, <1>3

\* One more entity adds its trip, if it is a scheduled update, and nothing else.
LEMMA ScheduledGrow ==
    ASSUME NEW feed, NEW n \in Nat \ {0}
    PROVE  ScheduledTrips(Prefix(feed, n)) =
              ScheduledTrips(Prefix(feed, n - 1)) \cup TripOf(feed.entities[n])
BY UpdatesGrow DEF ScheduledTrips, TripOf

\* One more entity adds the route it gives for the trip, and nothing else.
LEMMA RoutesGrow ==
    ASSUME NEW feed, NEW n \in Nat \ {0}, NEW trip
    PROVE  RoutesOf(Prefix(feed, n), trip) =
              RoutesOf(Prefix(feed, n - 1), trip) \cup RouteOf(feed.entities[n], trip)
BY UpdatesGrow DEF RoutesOf, RouteOf

\* The verdicts on the routes that a feed names for a trip with a route of its own.
Mismatches(routes, own) == \E route \in routes : route \notin {Blank, own}
Matches(routes, own) == ~Mismatches(routes, own) /\ own # Blank /\ own \in routes
Misses(routes, own) == ~Mismatches(routes, own) /\ ~Matches(routes, own) /\ routes # {}

\* The three verdicts on a trip, said of the set of routes its entities gave.
LEMMA VerdictsAreSets ==
    ASSUME NEW routes, NEW own
    PROVE  /\ Mismatches(routes, own) <=> routes \ {Blank, own} # {}
           /\ Matches(routes, own) <=> routes \ {Blank} = {own}
           /\ Misses(routes, own) <=> routes = {Blank}
<1>1. Mismatches(routes, own) <=> routes \ {Blank, own} # {}
  BY DEF Mismatches
<1>2. Matches(routes, own) <=> routes \ {Blank} = {own}
  <2>1. ASSUME Matches(routes, own) PROVE routes \ {Blank} = {own}
    BY <2>1 DEF Matches, Mismatches
  <2>2. ASSUME routes \ {Blank} = {own} PROVE Matches(routes, own)
    <3>1. own \in routes /\ own # Blank
      BY <2>2
    <3>2. \A route \in routes : route \in {Blank, own}
      BY <2>2
    <3> QED BY <3>1, <3>2 DEF Matches, Mismatches
  <2> QED BY <2>1, <2>2
<1>3. Misses(routes, own) <=> routes = {Blank}
  <2>1. ASSUME Misses(routes, own) PROVE routes = {Blank}
    <3>1. \A route \in routes : route = Blank
      BY <2>1 DEF Misses, Matches, Mismatches
    <3> QED BY <2>1, <3>1 DEF Misses
  <2>2. ASSUME routes = {Blank} PROVE Misses(routes, own)
    BY <2>2 DEF Misses, Matches, Mismatches
  <2> QED BY <2>1, <2>2
<1> QED BY <1>1, <1>2, <1>3

\* A report on trips of a set, and one whose verdicts are those on routes.
Reports(trips) ==
    [updates : Nat, scheduled : Nat, trips : SUBSET trips, matched : Nat, unmatched : Nat,
     canceled : Nat, matchedCanceled : Nat, unmatchedCanceled : Nat, exempt : Nat,
     routeMatched : SUBSET trips, routeMissing : SUBSET trips,
     routeMismatched : SUBSET trips]

RoutesExact(report, routes, static) ==
    \A t :
        /\ t \in report.routeMismatched <=>
              t \in DOMAIN static /\ Mismatches(routes[t], static[t])
        /\ t \in report.routeMatched <=>
              t \in DOMAIN static /\ Matches(routes[t], static[t])
        /\ t \in report.routeMissing <=>
              t \in DOMAIN static /\ Misses(routes[t], static[t])

\* compare_route_id keeps the verdicts exact, in whatever order the routes come.
LEMMA CompareRouteExact ==
    ASSUME NEW trips, NEW report \in Reports(trips), NEW entity, NEW static, NEW routes,
           NEW more, RoutesExact(report, routes, static),
           entity.trip \in trips \cap DOMAIN static,
           \A t \in DOMAIN static :
              more[t] = routes[t] \cup (IF t = entity.trip THEN {entity.route} ELSE {})
    PROVE  LET next == CompareRoute(report, entity, static)
           IN  /\ next \in Reports(trips)
               /\ RoutesExact(next, more, static)
               /\ next.trips = report.trips /\ next.matched = report.matched
               /\ next.unmatched = report.unmatched
<1> DEFINE trip == entity.trip
           next == CompareRoute(report, entity, static)
<1>1. \A t \in DOMAIN static : t # trip => more[t] = routes[t]
  OBVIOUS
<1>2. more[trip] = routes[trip] \cup {entity.route}
  OBVIOUS
<1>3. CASE entity.route = Blank /\ trip \in report.routeMismatched \cup report.routeMatched
  <2>1. next = report
    BY <1>3 DEF CompareRoute
  <2>2. /\ Mismatches(more[trip], static[trip]) <=> Mismatches(routes[trip], static[trip])
        /\ Matches(more[trip], static[trip]) <=> Matches(routes[trip], static[trip])
        /\ ~Misses(more[trip], static[trip]) /\ ~Misses(routes[trip], static[trip])
    BY <1>2, <1>3 DEF RoutesExact, Mismatches, Matches, Misses
  <2>3. RoutesExact(next, more, static)
    BY <1>1, <2>1, <2>2 DEF RoutesExact
  <2> QED BY <2>1, <2>3
<1>4. CASE entity.route = Blank /\ trip \notin report.routeMismatched \cup report.routeMatched
  <2>1. next = [report EXCEPT !.routeMissing = @ \cup {trip}]
    BY <1>4 DEF CompareRoute
  <2>2. /\ next.routeMismatched = report.routeMismatched
        /\ next.routeMatched = report.routeMatched
        /\ next.routeMissing = report.routeMissing \cup {trip}
        /\ next.trips = report.trips /\ next.matched = report.matched
        /\ next.unmatched = report.unmatched /\ next \in Reports(trips)
    BY <2>1 DEF Reports
  <2>3. /\ ~Mismatches(more[trip], static[trip]) /\ ~Mismatches(routes[trip], static[trip])
        /\ ~Matches(more[trip], static[trip]) /\ ~Matches(routes[trip], static[trip])
        /\ Misses(more[trip], static[trip])
    BY <1>2, <1>4 DEF RoutesExact, Mismatches, Matches, Misses
  <2> HIDE DEF next
  <2>4. RoutesExact(next, more, static)
    BY <1>1, <2>2, <2>3 DEF RoutesExact
  <2> QED BY <2>2, <2>4 DEF next
<1>5. CASE entity.route # Blank /\ entity.route # static[trip]
  <2>1. next = [report EXCEPT !.routeMatched = @ \ {trip}, !.routeMissing = @ \ {trip},
                              !.routeMismatched = @ \cup {trip}]
    BY <1>5 DEF CompareRoute
  <2>2. /\ next.routeMismatched = report.routeMismatched \cup {trip}
        /\ next.routeMatched = report.routeMatched \ {trip}
        /\ next.routeMissing = report.routeMissing \ {trip}
        /\ next.trips = report.trips /\ next.matched = report.matched
        /\ next.unmatched = report.unmatched
    BY <2>1 DEF Reports
  <2>3. next \in Reports(trips)
    <3> DEFINE a == [report EXCEPT !.routeMatched = @ \ {trip}]
               b == [a EXCEPT !.routeMissing = @ \ {trip}]
    <3>1. a \in Reports(trips)
      BY DEF Reports
    <3> HIDE DEF a
    <3>2. b \in Reports(trips)
      BY <3>1 DEF Reports
    <3>3. next = [b EXCEPT !.routeMismatched = @ \cup {trip}]
      BY <2>1 DEF a
    <3> HIDE DEF b
    <3> QED BY <3>2, <3>3 DEF Reports
  <2>4. /\ Mismatches(more[trip], static[trip]) /\ ~Matches(more[trip], static[trip])
        /\ ~Misses(more[trip], static[trip])
    BY <1>2, <1>5 DEF RoutesExact, Mismatches, Matches, Misses
  <2> HIDE DEF next
  <2>5. RoutesExact(next, more, static)
    BY <1>1, <2>2, <2>4 DEF RoutesExact
  <2> QED BY <2>2, <2>3, <2>5 DEF next
<1>6. CASE /\ entity.route # Blank /\ entity.route = static[trip]
           /\ trip \in report.routeMismatched
  <2>1. next = report
    BY <1>6 DEF CompareRoute
  <2>2. /\ Mismatches(more[trip], static[trip]) /\ Mismatches(routes[trip], static[trip])
    BY <1>2, <1>6 DEF RoutesExact, Mismatches
  <2>3. RoutesExact(next, more, static)
    BY <1>1, <2>1, <2>2 DEF RoutesExact, Matches, Misses
  <2> QED BY <2>1, <2>3
<1>7. CASE /\ entity.route # Blank /\ entity.route = static[trip]
           /\ trip \notin report.routeMismatched
  <2>1. next = [report EXCEPT !.routeMatched = @ \cup {trip}, !.routeMissing = @ \ {trip}]
    BY <1>7 DEF CompareRoute
  <2>2. /\ next.routeMismatched = report.routeMismatched
        /\ next.routeMatched = report.routeMatched \cup {trip}
        /\ next.routeMissing = report.routeMissing \ {trip}
        /\ next.trips = report.trips /\ next.matched = report.matched
        /\ next.unmatched = report.unmatched
    BY <2>1 DEF Reports
  <2>3. next \in Reports(trips)
    <3> DEFINE a == [report EXCEPT !.routeMatched = @ \cup {trip}]
               b == [a EXCEPT !.routeMissing = @ \ {trip}]
    <3>1. a \in Reports(trips)
      BY DEF Reports
    <3> HIDE DEF a
    <3>2. b \in Reports(trips)
      BY <3>1 DEF Reports
    <3>3. next = b
      BY <2>1 DEF a
    <3> QED BY <3>2, <3>3
  <2>4. /\ ~Mismatches(more[trip], static[trip]) /\ Matches(more[trip], static[trip])
        /\ ~Misses(more[trip], static[trip])
    BY <1>2, <1>7 DEF RoutesExact, Mismatches, Matches, Misses
  <2> HIDE DEF next
  <2>5. RoutesExact(next, more, static)
    BY <1>1, <1>7, <2>2, <2>4 DEF RoutesExact
  <2> QED BY <2>2, <2>3, <2>5 DEF next
<1> QED BY <1>3, <1>4, <1>5, <1>6, <1>7

\* A report whose unique trips are counted by whether the schedule knows them.
TripsExact(report, scheduled, known) ==
    /\ report.trips = scheduled /\ IsFiniteSet(scheduled)
    /\ report.matched = Cardinality(scheduled \cap known)
    /\ report.unmatched = Cardinality(scheduled \ known)

\* One unique trip more, which the schedule knows, or not.
LEMMA PartsAreFinite ==
    ASSUME NEW unique, NEW listed, IsFiniteSet(unique)
    PROVE  IsFiniteSet(unique \cap listed) /\ IsFiniteSet(unique \ listed)
<1>1. (unique \cap listed) \in SUBSET unique /\ (unique \ listed) \in SUBSET unique
  OBVIOUS
<1> QED BY <1>1, FS_Subset

\* A new trip the schedule lists: one more matched, none more unmatched.
LEMMA KnownTripMore ==
    ASSUME NEW unique, NEW listed, NEW new, IsFiniteSet(unique), new \notin unique,
           new \in listed
    PROVE  /\ IsFiniteSet(unique \cup {new})
           /\ Cardinality((unique \cup {new}) \cap listed)
                 = Cardinality(unique \cap listed) + 1
           /\ Cardinality((unique \cup {new}) \ listed) = Cardinality(unique \ listed)
<1>1. /\ (unique \cup {new}) \cap listed = (unique \cap listed) \cup {new}
      /\ (unique \cup {new}) \ listed = unique \ listed
      /\ new \notin unique \cap listed
  OBVIOUS
<1> QED BY <1>1, PartsAreFinite, FS_AddElement

\* A new trip the schedule does not list: no more matched.
LEMMA UnknownTripMore ==
    ASSUME NEW unique, NEW listed, NEW new, IsFiniteSet(unique), new \notin unique,
           new \notin listed
    PROVE  /\ IsFiniteSet(unique \cup {new})
           /\ Cardinality((unique \cup {new}) \cap listed)
                 = Cardinality(unique \cap listed)
<1>1. (unique \cup {new}) \cap listed = unique \cap listed
  OBVIOUS
<1> QED BY <1>1, PartsAreFinite, FS_AddElement

\* The counters of trips stay exact when a trip is met for the first time.
LEMMA TripsExactMore ==
    ASSUME NEW report, NEW next, NEW unique, NEW listed, NEW new, new \notin unique,
           TripsExact(report, unique, listed),
           next.trips = report.trips \cup {new},
           IF new \in listed
           THEN next.matched = report.matched + 1 /\ next.unmatched = report.unmatched
           ELSE next.matched = report.matched /\ next.unmatched = report.unmatched + 1
    PROVE  TripsExact(next, unique \cup {new}, listed)
<1>0. IsFiniteSet(unique)
  BY DEF TripsExact
<1>1. CASE new \in listed
  <2>1. /\ IsFiniteSet(unique \cup {new})
        /\ Cardinality((unique \cup {new}) \cap listed) = Cardinality(unique \cap listed) + 1
        /\ Cardinality((unique \cup {new}) \ listed) = Cardinality(unique \ listed)
    BY <1>0, <1>1, KnownTripMore
  <2> QED BY <1>1, <2>1 DEF TripsExact
<1>2. CASE new \notin listed
  <2>1. /\ IsFiniteSet(unique \cup {new})
        /\ Cardinality((unique \cup {new}) \cap listed) = Cardinality(unique \cap listed)
    BY <1>0, <1>2, UnknownTripMore
  <2>2. Cardinality((unique \cup {new}) \ listed) = Cardinality(unique \ listed) + 1
    <3>1. /\ (unique \cup {new}) \ listed = (unique \ listed) \cup {new}
          /\ new \notin unique \ listed
      BY <1>2
    <3> QED BY <1>0, <3>1, PartsAreFinite, FS_AddElement
  <2> QED BY <1>2, <2>1, <2>2 DEF TripsExact
<1> QED BY <1>1, <1>2

\* A report is about a feed.
Exact(report, feed, static, trips) ==
    /\ report \in Reports(trips)
    /\ TripsExact(report, ScheduledTrips(feed), DOMAIN static)
    /\ RoutesExact(report, [t \in DOMAIN static |-> RoutesOf(feed, t)], static)

\* Counters that are not about trips and routes.
SameTrips(report, other) ==
    /\ report.trips = other.trips /\ report.matched = other.matched
    /\ report.unmatched = other.unmatched
SameRoutes(report, other) ==
    /\ report.routeMatched = other.routeMatched /\ report.routeMissing = other.routeMissing
    /\ report.routeMismatched = other.routeMismatched

\* The counters of entities are none of those of trips or of routes.
LEMMA CountersAside ==
    ASSUME NEW trips, NEW report \in Reports(trips)
    PROVE  /\ LET next == [report EXCEPT !.updates = @ + 1]
              IN  next \in Reports(trips) /\ SameTrips(next, report) /\ SameRoutes(next, report)
           /\ LET next == [report EXCEPT !.scheduled = @ + 1]
              IN  next \in Reports(trips) /\ SameTrips(next, report) /\ SameRoutes(next, report)
           /\ LET next == [report EXCEPT !.canceled = @ + 1]
              IN  next \in Reports(trips) /\ SameTrips(next, report) /\ SameRoutes(next, report)
           /\ LET next == [report EXCEPT !.matchedCanceled = @ + 1]
              IN  next \in Reports(trips) /\ SameTrips(next, report) /\ SameRoutes(next, report)
           /\ LET next == [report EXCEPT !.unmatchedCanceled = @ + 1]
              IN  next \in Reports(trips) /\ SameTrips(next, report) /\ SameRoutes(next, report)
           /\ LET next == [report EXCEPT !.exempt = @ + 1]
              IN  next \in Reports(trips) /\ SameTrips(next, report) /\ SameRoutes(next, report)
<1> USE DEF Reports, SameTrips, SameRoutes
<1>1. [report EXCEPT !.updates = @ + 1] \in Reports(trips)
  OBVIOUS
<1>2. [report EXCEPT !.scheduled = @ + 1] \in Reports(trips)
  OBVIOUS
<1>3. [report EXCEPT !.canceled = @ + 1] \in Reports(trips)
  OBVIOUS
<1>4. [report EXCEPT !.matchedCanceled = @ + 1] \in Reports(trips)
  OBVIOUS
<1>5. [report EXCEPT !.unmatchedCanceled = @ + 1] \in Reports(trips)
  OBVIOUS
<1>6. [report EXCEPT !.exempt = @ + 1] \in Reports(trips)
  OBVIOUS
<1> QED BY <1>1, <1>2, <1>3, <1>4, <1>5, <1>6

\* CountEntity keeps the report exact: one more entity, its trip and its route.
LEMMA CountEntityExact ==
    ASSUME NEW trips, NEW entity, entity.trip \in trips, NEW static, Blank \notin DOMAIN static,
           NEW scheduled, NEW routes, NEW report \in Reports(trips),
           TripsExact(report, scheduled, DOMAIN static), RoutesExact(report, routes, static),
           NEW after, NEW more,
           after = scheduled \cup TripOf(entity),
           \A t \in DOMAIN static : more[t] = routes[t] \cup RouteOf(entity, t)
    PROVE  LET next == CountEntity(report, entity, static)
           IN  /\ next \in Reports(trips)
               /\ TripsExact(next, after, DOMAIN static)
               /\ RoutesExact(next, more, static)
<1> USE DEF TripOf, RouteOf
<1> DEFINE trip == entity.trip
           next == CountEntity(report, entity, static)
           Goal(r) == /\ r \in Reports(trips)
                      /\ TripsExact(r, after, DOMAIN static)
                      /\ RoutesExact(r, more, static)
<1>1. ASSUME NEW r \in Reports(trips), SameTrips(r, report), SameRoutes(r, report)
      PROVE  TripsExact(r, scheduled, DOMAIN static) /\ RoutesExact(r, routes, static)
  BY <1>1 DEF TripsExact, RoutesExact, SameTrips, SameRoutes
<1>2. ASSUME \A t \in DOMAIN static : more[t] = routes[t],
             NEW r, RoutesExact(r, routes, static)
      PROVE  RoutesExact(r, more, static)
  BY <1>2 DEF RoutesExact
<1> DEFINE seen == [report EXCEPT !.updates = @ + 1]
<1>3. seen \in Reports(trips) /\ SameTrips(seen, report) /\ SameRoutes(seen, report)
  BY CountersAside
<1>4. ASSUME ~entity.update PROVE Goal(next)
  <2>1. next = report
    BY <1>4 DEF CountEntity
  <2>2. after = scheduled /\ \A t \in DOMAIN static : more[t] = routes[t]
    BY <1>4
  <2> QED BY <1>2, <2>1, <2>2
<1>5. ASSUME entity.update, entity.relation \notin {"SCHEDULED", "CANCELED"} PROVE Goal(next)
  <2>1. next = [seen EXCEPT !.exempt = @ + 1]
    BY <1>5 DEF CountEntity
  <2> HIDE DEF seen, next
  <2>2. next \in Reports(trips) /\ SameTrips(next, seen) /\ SameRoutes(next, seen)
    BY <1>3, <2>1, CountersAside
  <2>3. SameTrips(next, report) /\ SameRoutes(next, report)
    BY <1>3, <2>2 DEF SameTrips, SameRoutes
  <2>4. after = scheduled /\ \A t \in DOMAIN static : more[t] = routes[t]
    BY <1>5
  <2> QED BY <1>1, <1>2, <2>2, <2>3, <2>4
<1>6. ASSUME entity.update, entity.relation = "CANCELED" PROVE Goal(next)
  <2> DEFINE canceled == [seen EXCEPT !.canceled = @ + 1]
             matched == [canceled EXCEPT !.matchedCanceled = @ + 1]
             unmatched == [canceled EXCEPT !.unmatchedCanceled = @ + 1]
  <2>1. /\ trip # Blank /\ trip \in DOMAIN static =>
              next = CompareRoute(matched, entity, static)
        /\ ~(trip # Blank /\ trip \in DOMAIN static) => next = unmatched
    BY <1>6 DEF CountEntity, CountCanceled
  <2>2. after = scheduled
    BY <1>6
  <2> HIDE DEF seen
  <2>3. canceled \in Reports(trips) /\ SameTrips(canceled, seen) /\ SameRoutes(canceled, seen)
    BY <1>3, CountersAside
  <2> HIDE DEF canceled
  <2>4. /\ matched \in Reports(trips) /\ SameTrips(matched, canceled)
        /\ SameRoutes(matched, canceled)
        /\ unmatched \in Reports(trips) /\ SameTrips(unmatched, canceled)
        /\ SameRoutes(unmatched, canceled)
    BY <2>3, CountersAside
  <2> HIDE DEF matched, unmatched, next
  <2>5. /\ SameTrips(matched, report) /\ SameRoutes(matched, report)
        /\ SameTrips(unmatched, report) /\ SameRoutes(unmatched, report)
    BY <1>3, <2>3, <2>4 DEF SameTrips, SameRoutes
  <2>6. CASE trip \in DOMAIN static
    <3>1. TripsExact(matched, scheduled, DOMAIN static) /\ RoutesExact(matched, routes, static)
      BY <1>1, <2>4, <2>5
    <3>2. \A t \in DOMAIN static :
             more[t] = routes[t] \cup (IF t = entity.trip THEN {entity.route} ELSE {})
      BY <1>6
    <3>3. next = CompareRoute(matched, entity, static)
      BY <2>1, <2>6
    <3>4. entity.trip \in trips \cap DOMAIN static /\ matched \in Reports(trips)
      BY <2>4, <2>6
    <3>5. /\ next \in Reports(trips) /\ RoutesExact(next, more, static)
          /\ next.trips = matched.trips /\ next.matched = matched.matched
          /\ next.unmatched = matched.unmatched
      BY SMTT(20), <3>1, <3>2, <3>3, <3>4, CompareRouteExact
    <3> QED BY <2>2, <3>1, <3>5 DEF TripsExact
  <2>7. CASE trip \notin DOMAIN static
    <3>1. \A t \in DOMAIN static : more[t] = routes[t]
      BY <2>7
    <3> QED BY <1>1, <1>2, <2>1, <2>2, <2>4, <2>5, <2>7, <3>1
  <2> QED BY <2>6, <2>7
<1>7. ASSUME entity.update, entity.relation = "SCHEDULED" PROVE Goal(next)
  <2> DEFINE counted == [seen EXCEPT !.scheduled = @ + 1]
             known == [counted EXCEPT !.trips = @ \cup {trip}]
             matched == [known EXCEPT !.matched = @ + 1]
             unmatched == [known EXCEPT !.unmatched = @ + 1]
  <2>1. /\ trip = Blank => next = counted
        /\ trip # Blank /\ trip \in DOMAIN static =>
              next = CompareRoute(IF trip \notin seen.trips THEN matched ELSE known,
                                  entity, static)
        /\ trip # Blank /\ trip \notin DOMAIN static =>
              next = IF trip \notin seen.trips THEN unmatched ELSE known
    BY <1>7 DEF CountEntity, CountScheduled
  <2>2. seen.trips = scheduled
    BY <1>3 DEF SameTrips, TripsExact
  <2> HIDE DEF seen
  <2>3. counted \in Reports(trips) /\ SameTrips(counted, seen) /\ SameRoutes(counted, seen)
    BY <1>3, CountersAside
  <2>4. SameTrips(counted, report) /\ SameRoutes(counted, report)
    BY <1>3, <2>3 DEF SameTrips, SameRoutes
  <2>5. TripsExact(counted, scheduled, DOMAIN static) /\ RoutesExact(counted, routes, static)
    BY <1>1, <2>3, <2>4
  <2> HIDE DEF counted, next
  <2>6. /\ known \in Reports(trips) /\ SameRoutes(known, counted)
        /\ known.trips = counted.trips \cup {trip} /\ known.matched = counted.matched
        /\ known.unmatched = counted.unmatched
    BY <2>3 DEF Reports, SameRoutes
  <2> HIDE DEF known
  <2>7. /\ matched \in Reports(trips) /\ SameRoutes(matched, known)
        /\ matched.trips = known.trips /\ matched.matched = known.matched + 1
        /\ matched.unmatched = known.unmatched
    BY <2>6 DEF Reports, SameRoutes
  <2>8. /\ unmatched \in Reports(trips) /\ SameRoutes(unmatched, known)
        /\ unmatched.trips = known.trips /\ unmatched.matched = known.matched
        /\ unmatched.unmatched = known.unmatched + 1
    BY <2>6 DEF Reports, SameRoutes
  <2> HIDE DEF matched, unmatched
  <2>9. CASE trip = Blank
    <3>1. after = scheduled
      BY <1>7, <2>9
    <3>2. \A t \in DOMAIN static : more[t] = routes[t]
      BY <2>9
    <3> QED BY <1>2, <2>1, <2>3, <2>5, <2>9, <3>1, <3>2
  <2>10. CASE trip # Blank
    <3>1. after = scheduled \cup {trip}
      BY <1>7, <2>10
    <3>2. CASE trip \in scheduled
      <4>1. after = scheduled /\ known.trips = scheduled
        BY <2>5, <2>6, <3>1, <3>2 DEF TripsExact
      <4>2. TripsExact(known, after, DOMAIN static) /\ RoutesExact(known, routes, static)
        BY <2>5, <2>6, <4>1 DEF TripsExact, RoutesExact, SameRoutes
      <4>3. CASE trip \in DOMAIN static
        <5>1. \A t \in DOMAIN static :
                 more[t] = routes[t] \cup (IF t = entity.trip THEN {entity.route} ELSE {})
          BY <1>7
        <5>2. next = CompareRoute(known, entity, static)
          BY <2>1, <2>2, <2>10, <3>2, <4>3
        <5>3. /\ next \in Reports(trips) /\ RoutesExact(next, more, static)
              /\ next.trips = known.trips /\ next.matched = known.matched
              /\ next.unmatched = known.unmatched
          <6>1. entity.trip \in trips \cap DOMAIN static
            BY <4>3
          <6> QED BY SMTT(20), <2>6, <4>2, <5>1, <5>2, <6>1, CompareRouteExact
        <5> QED BY <4>2, <5>3 DEF TripsExact
      <4>4. CASE trip \notin DOMAIN static
        <5>1. next = known
          BY <2>1, <2>2, <2>10, <3>2, <4>4
        <5>2. \A t \in DOMAIN static : more[t] = routes[t]
          BY <4>4
        <5> QED BY <1>2, <2>6, <4>2, <5>1, <5>2
      <4> QED BY <4>3, <4>4
    <3>3. CASE trip \notin scheduled
      <4>3. CASE trip \in DOMAIN static
        <5>1. \A t \in DOMAIN static :
                 more[t] = routes[t] \cup (IF t = entity.trip THEN {entity.route} ELSE {})
          BY <1>7
        <5>2. next = CompareRoute(matched, entity, static)
          BY <2>1, <2>2, <2>10, <3>3, <4>3
        <5>3. RoutesExact(matched, routes, static)
          BY <2>5, <2>6, <2>7 DEF RoutesExact, SameRoutes
        <5>4. TripsExact(matched, after, DOMAIN static)
          <6>1. /\ matched.trips = counted.trips \cup {trip}
                /\ IF trip \in DOMAIN static
                   THEN /\ matched.matched = counted.matched + 1
                        /\ matched.unmatched = counted.unmatched
                   ELSE /\ matched.matched = counted.matched
                        /\ matched.unmatched = counted.unmatched + 1
            BY <2>6, <2>7, <4>3
          <6>2. TripsExact(matched, scheduled \cup {trip}, DOMAIN static)
            BY <2>5, <3>3, <6>1, TripsExactMore
          <6> QED BY <3>1, <6>2
        <5>5. /\ next \in Reports(trips) /\ RoutesExact(next, more, static)
              /\ next.trips = matched.trips /\ next.matched = matched.matched
              /\ next.unmatched = matched.unmatched
          BY <2>7, <4>3, <5>1, <5>2, <5>3, CompareRouteExact
        <5> QED BY <5>4, <5>5 DEF TripsExact
      <4>4. CASE trip \notin DOMAIN static
        <5>1. next = unmatched
          BY <2>1, <2>2, <2>10, <3>3, <4>4
        <5>2. \A t \in DOMAIN static : more[t] = routes[t]
          BY <4>4
        <5>3. RoutesExact(unmatched, more, static)
          BY <2>5, <2>6, <2>8, <5>2 DEF RoutesExact, SameRoutes
        <5>4. TripsExact(unmatched, after, DOMAIN static)
          <6>1. /\ unmatched.trips = counted.trips \cup {trip}
                /\ IF trip \in DOMAIN static
                   THEN /\ unmatched.matched = counted.matched + 1
                        /\ unmatched.unmatched = counted.unmatched
                   ELSE /\ unmatched.matched = counted.matched
                        /\ unmatched.unmatched = counted.unmatched + 1
            BY <2>6, <2>8, <4>4
          <6>2. TripsExact(unmatched, scheduled \cup {trip}, DOMAIN static)
            BY <2>5, <3>3, <6>1, TripsExactMore
          <6> QED BY <3>1, <6>2
        <5> QED BY <2>8, <5>1, <5>3, <5>4
      <4> QED BY <4>3, <4>4
    <3> QED BY <3>2, <3>3
  <2> QED BY <2>9, <2>10
<1> QED BY <1>4, <1>5, <1>6, <1>7

\* Before the first entity the empty report is exact.
LEMMA StartExact ==
    ASSUME NEW feed, NEW static, NEW trips
    PROVE  Exact(NoCounts, Prefix(feed, 0), static, trips)
<1>1. \A relations : Updates(Prefix(feed, 0), relations) = {}
  BY DEF Updates, Prefix
<1>2. ScheduledTrips(Prefix(feed, 0)) = {} /\ \A t : RoutesOf(Prefix(feed, 0), t) = {}
  BY <1>1 DEF ScheduledTrips, RoutesOf
<1>3. NoCounts \in Reports(trips)
  BY DEF NoCounts, Reports
<1>4. TripsExact(NoCounts, {}, DOMAIN static)
  <2>1. {} \cap DOMAIN static = {} /\ {} \ DOMAIN static = {}
    OBVIOUS
  <2> QED BY <2>1, FS_EmptySet DEF TripsExact, NoCounts
<1>5. RoutesExact(NoCounts, [t \in DOMAIN static |-> RoutesOf(Prefix(feed, 0), t)], static)
  <2>1. \A t \in DOMAIN static : /\ ~Mismatches({}, static[t]) /\ ~Matches({}, static[t])
                                 /\ ~Misses({}, static[t])
    BY DEF Mismatches, Matches, Misses
  <2> QED BY <1>2, <2>1 DEF RoutesExact, NoCounts
<1> QED BY <1>2, <1>3, <1>4, <1>5 DEF Exact

\* If the report is exact for the entities so far, it is after one more.
LEMMA StepExact ==
    ASSUME NEW feed, NEW static, Blank \notin DOMAIN static, NEW trips, NEW n \in Nat \ {0},
           feed.entities[n].trip \in trips, NEW report,
           Exact(report, Prefix(feed, n - 1), static, trips)
    PROVE  Exact(CountEntity(report, feed.entities[n], static), Prefix(feed, n), static, trips)
<1> DEFINE entity == feed.entities[n]
           scheduled == ScheduledTrips(Prefix(feed, n - 1))
           after == ScheduledTrips(Prefix(feed, n))
           routes == [t \in DOMAIN static |-> RoutesOf(Prefix(feed, n - 1), t)]
           more == [t \in DOMAIN static |-> RoutesOf(Prefix(feed, n), t)]
           next == CountEntity(report, entity, static)
<1>1. after = scheduled \cup TripOf(entity)
  BY ScheduledGrow
<1>2. \A t \in DOMAIN static : more[t] = routes[t] \cup RouteOf(entity, t)
  BY RoutesGrow
<1>3. /\ report \in Reports(trips) /\ TripsExact(report, scheduled, DOMAIN static)
      /\ RoutesExact(report, routes, static) /\ entity.trip \in trips
      /\ Blank \notin DOMAIN static
  BY DEF Exact
<1> HIDE DEF entity, scheduled, after, routes, more
<1>4. next = CountEntity(report, entity, static)
  OBVIOUS
<1> HIDE DEF next
<1>5. /\ next \in Reports(trips) /\ TripsExact(next, after, DOMAIN static)
      /\ RoutesExact(next, more, static)
  BY <1>1, <1>2, <1>3, <1>4, CountEntityExact
<1> QED BY <1>4, <1>5 DEF Exact, entity, after, more

\* The report on any feed is exact, in whatever order its entities come
\* (gtfs_compatibility.py: analyze_gtfs_compatibility and compare_route_id).
LEMMA AnalyzeIsExact ==
    ASSUME NEW feed, feed.entities \in Seq(ToSet(feed.entities)),
           NEW static, Blank \notin DOMAIN static
    PROVE  ReportIsExact(feed, static) /\ IsFiniteSet(ScheduledTrips(feed))
<1> DEFINE N == Len(feed.entities)
           trips == {feed.entities[i].trip : i \in 1 .. N}
<1>1. N \in Nat /\ DOMAIN feed.entities = 1 .. N
  OBVIOUS
<1>2. PICK c : IsCounts(c, feed.entities, static, N) /\ Analyze(feed, static) = c[N]
  BY <1>1, AnalyzeCounts
<1> DEFINE Bad == {n \in 0 .. N : ~Exact(c[n], Prefix(feed, n), static, trips)}
<1> HIDE DEF N
<1>3. Bad = {}
  <2>1. SUFFICES ASSUME Bad # {} PROVE FALSE
    OBVIOUS
  <2>2. PICK n \in Bad : \A m \in Bad : n <= m
    <3>1. Bad \in SUBSET Nat
      BY <1>1
    <3> HIDE DEF Bad
    <3> QED BY <2>1, <3>1, LeastExists
  <2>3. CASE n = 0
    <3>1. c[0] = NoCounts
      BY <1>1, <1>2 DEF IsCounts
    <3> HIDE DEF trips
    <3> QED BY <2>3, <3>1, StartExact
  <2>4. CASE n # 0
    <3>1. /\ n \in Nat \ {0} /\ n \in 1 .. N /\ n - 1 \in 0 .. N /\ n \in 0 .. N
      BY <1>1, <2>4
    <3>2. c[n] = CountEntity(c[n - 1], feed.entities[n], static)
      BY <1>2, <3>1 DEF IsCounts
    <3>3. feed.entities[n].trip \in trips
      BY <3>1
    <3> HIDE DEF trips
    <3>4. n - 1 \notin Bad
      BY <2>2, <3>1
    <3>5. Exact(c[n - 1], Prefix(feed, n - 1), static, trips)
      BY <3>1, <3>4
    <3>6. Exact(c[n], Prefix(feed, n), static, trips)
      BY <3>1, <3>2, <3>3, <3>5, StepExact
    <3> QED BY <3>6
  <2> QED BY <2>3, <2>4
<1>4. Exact(c[N], Prefix(feed, N), static, trips)
  <2> HIDE DEF trips
  <2>1. N \in 0 .. N
    BY <1>1
  <2> QED BY <1>3, <2>1
<1>5. \A relations : Updates(Prefix(feed, N), relations) = Updates(feed, relations)
  <2>1. /\ DOMAIN Prefix(feed, N).entities = DOMAIN feed.entities
        /\ \A i \in DOMAIN feed.entities : Prefix(feed, N).entities[i] = feed.entities[i]
    BY <1>1 DEF Prefix
  <2> QED BY <2>1 DEF Updates
<1>6. /\ ScheduledTrips(Prefix(feed, N)) = ScheduledTrips(feed)
      /\ \A t : RoutesOf(Prefix(feed, N), t) = RoutesOf(feed, t)
  BY <1>5 DEF ScheduledTrips, RoutesOf
<1> DEFINE report == Analyze(feed, static)
           routes == [t \in DOMAIN static |-> RoutesOf(feed, t)]
<1> HIDE DEF trips
<1>7. /\ report \in Reports(trips) /\ TripsExact(report, ScheduledTrips(feed), DOMAIN static)
      /\ RoutesExact(report, routes, static)
  BY <1>2, <1>4, <1>6 DEF Exact
<1>8. \A t \in DOMAIN static : routes[t] = RoutesOf(feed, t)
  OBVIOUS
<1> DEFINE compared == {t \in DOMAIN static : RoutesOf(feed, t) # {}}
<1> HIDE DEF report, routes
<1>9. report.routeMismatched = {t \in compared : RoutesOf(feed, t) \ {Blank, static[t]} # {}}
  <2>1. \A t : t \in report.routeMismatched <=>
                 t \in DOMAIN static /\ RoutesOf(feed, t) \ {Blank, static[t]} # {}
    BY <1>7, <1>8, VerdictsAreSets DEF RoutesExact
  <2> QED BY <2>1
<1>10. report.routeMatched = {t \in compared : RoutesOf(feed, t) \ {Blank} = {static[t]}}
  <2>1. \A t : t \in report.routeMatched <=>
                 t \in DOMAIN static /\ RoutesOf(feed, t) \ {Blank} = {static[t]}
    BY <1>7, <1>8, VerdictsAreSets DEF RoutesExact
  <2> QED BY <2>1
<1>11. report.routeMissing = {t \in compared : RoutesOf(feed, t) = {Blank}}
  <2>1. \A t : t \in report.routeMissing <=>
                 t \in DOMAIN static /\ RoutesOf(feed, t) = {Blank}
    BY <1>7, <1>8, VerdictsAreSets DEF RoutesExact
  <2> QED BY <2>1
<1> QED BY <1>7, <1>9, <1>10, <1>11 DEF TripsExact, ReportIsExact, report

\* A schedule that was loaded has no trip without an identifier.
LEMMA LoadedIsNamed ==
    ASSUME NEW rows, TripRoutes(rows) # Unusable
    PROVE  Blank \notin DOMAIN TripRoutes(rows)
<1> DEFINE named == {rows[i] : i \in DOMAIN rows}
<1>1. /\ \A row \in named : row.trip # Blank
      /\ TripRoutes(rows) = [trip \in {row.trip : row \in named} |->
                               (CHOOSE row \in named : row.trip = trip).route]
  BY DEF TripRoutes
<1>2. DOMAIN TripRoutes(rows) = {row.trip : row \in named}
  BY <1>1
<1> QED BY <1>1, <1>2

\* What the gate calls compatible is what the documentation promises, and the
\* standalone checker agrees (static_gtfs.py: validate_candidate_compatibility).
LEMMA CompatibleIsRepresentative ==
    ASSUME NEW feed, feed.entities \in Seq(ToSet(feed.entities)),
           feed.timestamp \in Nat \cup {NoTime}, NEW rows, NEW calendar,
           Judge(feed, rows, calendar) = "compatible"
    PROVE  /\ Representative(feed, TripRoutes(rows), calendar)
           /\ CheckerExit(feed, rows) = 0
<1> DEFINE static == TripRoutes(rows)
           report == Analyze(feed, static)
<1>1. static # Unusable /\ Refusals(feed, report, calendar) = {}
  BY DEF Judge
<1>2. ReportIsExact(feed, static) /\ IsFiniteSet(ScheduledTrips(feed))
  BY <1>1, LoadedIsNamed, AnalyzeIsExact
<1> HIDE DEF static, report
<1>3. /\ ~(Cardinality(report.trips) < MinimumTrips)
      /\ feed.timestamp # NoTime
      /\ ~(Now - feed.timestamp > MaxFeedAge)
      /\ ~(Now - feed.timestamp < -MaxFutureSkew)
      /\ ServiceDay(feed.timestamp) \in calendar[1] .. calendar[2]
      /\ MatchesEnough(report)
      /\ report.routeMismatched = {}
  BY <1>1 DEF Refusals
<1>4. /\ report.trips = ScheduledTrips(feed)
      /\ report.matched = Cardinality(ScheduledTrips(feed) \cap DOMAIN static)
      /\ report.routeMismatched =
            {t \in {t \in DOMAIN static : RoutesOf(feed, t) # {}} :
                RoutesOf(feed, t) \ {Blank, static[t]} # {}}
  BY <1>2 DEF ReportIsExact, report
<1>5. CheckerExit(feed, rows) = 0
  BY <1>1, <1>3 DEF CheckerExit, static, report
<1>6. /\ Cardinality(ScheduledTrips(feed)) \in Nat
      /\ Cardinality(ScheduledTrips(feed) \cap DOMAIN static) \in Nat
  BY <1>2, PartsAreFinite, FS_CardinalityType
<1>7. Cardinality(ScheduledTrips(feed)) >= MinimumTrips
  BY <1>3, <1>4, <1>6, PolicyAssumption
<1>8. MinimumMatch[2] * Cardinality(ScheduledTrips(feed) \cap DOMAIN static)
         >= MinimumMatch[1] * Cardinality(ScheduledTrips(feed))
  <2> DEFINE unique == Cardinality(ScheduledTrips(feed))
             matched == Cardinality(ScheduledTrips(feed) \cap DOMAIN static)
  <2>1. unique # 0
    BY <1>6, <1>7, PolicyAssumption
  <2>2. matched * MinimumMatch[2] >= MinimumMatch[1] * unique
    BY <1>3, <1>4, <2>1 DEF MatchesEnough
  <2>3. matched \in Nat /\ MinimumMatch[2] \in Nat
    BY <1>6, PolicyAssumption
  <2>4. MinimumMatch[2] * matched = matched * MinimumMatch[2]
    <3> HIDE DEF matched
    <3> QED BY <2>3
  <2> QED BY <2>2, <2>4
<1>9. \A trip \in DOMAIN static : RoutesOf(feed, trip) \subseteq {Blank, static[trip]}
  BY <1>3, <1>4
<1>10. feed.timestamp \in Now - MaxFeedAge .. Now + MaxFutureSkew
  BY <1>3, PolicyAssumption
<1> QED BY <1>3, <1>5, <1>7, <1>8, <1>9, <1>10 DEF Representative, static

\* What the offers contain: feeds that the gate may judge.
LEMMA OfferedFeedsType ==
    ASSUME NEW feed \in OfferedFeeds
    PROVE  /\ feed.entities \in Seq(ToSet(feed.entities))
           /\ feed.timestamp \in Nat \cup {NoTime}
<1>1. PICK offer \in Offers : feed = offer.feed
  BY DEF OfferedFeeds
<1> QED BY <1>1, UpdateAssumption

\* The gate decides on exact reports: unique trips split into matched and unmatched, and
\* a trip is a mismatch if any of its updates names another route, for every feed, in
\* whatever order its entities come (gtfs_compatibility.py: analyze_gtfs_compatibility).
THEOREM ReportsTheorem == Spec => []ReportsAreExact
<1>1. UpdateIInv => ReportsAreExact
  <2> SUFFICES ASSUME UpdateIInv, NEW r \in Runs, At(r, "judging"),
                      TripRoutes(staging[r].trips) # Unusable
               PROVE  ReportIsExact(run[r].feed, TripRoutes(staging[r].trips))
    BY DEF ReportsAreExact
  <2>1. run[r].feed \in OfferedFeeds
    BY DEF UpdateIInv, CandidateInv, At, Staged
  <2> QED BY <2>1, OfferedFeedsType, LoadedIsNamed, AnalyzeIsExact
<1> QED BY <1>1, UpdateInvariant, PTL

\* Whatever is installed was extracted whole, has the expected files and is what the
\* documentation promises of a snapshot, by the feed in its manifest; no overlap of runs,
\* no failure and no kill installs anything else (static_gtfs.py:
\* install_static_gtfs_archive and validate_candidate_compatibility).
THEOREM RepresentativeTheorem == Spec => []InstalledIsRepresentative
<1>1. UpdateIInv => InstalledIsRepresentative
  <2> SUFFICES ASSUME UpdateIInv, installed.by # NoFile
               PROVE  LET archive == installed.files
                      IN  /\ Extract(archive).outcome = "ok"
                          /\ ~HeadersRefused(archive, Extract(archive))
                          /\ Representative(installed.feed, TripRoutes(archive.trips),
                                            Calendar(archive))
                          /\ CheckerExit(installed.feed, archive.trips) = 0
    BY DEF InstalledIsRepresentative
  <2>1. /\ installed.feed \in OfferedFeeds
        /\ Extract(installed.files).outcome = "ok"
        /\ ~HeadersRefused(installed.files, Extract(installed.files))
        /\ Judge(installed.feed, installed.files.trips, Calendar(installed.files))
              = "compatible"
    BY DEF UpdateIInv, InstalledInv, Verdict
  <2>2. /\ Representative(installed.feed, TripRoutes(installed.files.trips),
                          Calendar(installed.files))
        /\ CheckerExit(installed.feed, installed.files.trips) = 0
    BY <2>1, OfferedFeedsType, CompatibleIsRepresentative
  <2> QED BY <2>1, <2>2
<1> QED BY <1>1, UpdateInvariant, PTL

-----------------------------------------------------------------------------
(* While no two runs keep their archives                                   *)

\* What a step of r leaves alone: every archive but its own.
TouchesOwn(r) ==
    \A path \in (Runs \cup {Retained}) \ {r, Archive(r)} : zip'[path] = zip[path]

\* A step writes no archive but its own.
LEMMA StepTouches ==
    ASSUME TypeOK, NEW r \in Runs, Download(r) \/ Install(r) \/ End(r)
    PROVE  TouchesOwn(r)
<1> USE DistinctNames DEF TypeOK, FilesOK, RunStates, At, Proceed, Fail, World, disk,
           TouchesOwn, Archive
<1>1. ParseArguments(r) => TouchesOwn(r)
  BY DEF ParseArguments
<1>2. PrepareArchive(r) => TouchesOwn(r)
  BY DEF PrepareArchive
<1>3. PrepareFails(r) => TouchesOwn(r)
  BY DEF PrepareFails
<1>4. StartDownload(r) => TouchesOwn(r)
  BY DEF StartDownload
<1>5. FinishDownload(r) => TouchesOwn(r)
  BY DEF FinishDownload
<1>6. DownloadFails(r) => TouchesOwn(r)
  BY DEF DownloadFails
<1>7. DownloadUndeleted(r) => TouchesOwn(r)
  BY DEF DownloadUndeleted
<1>8. FetchFeed(r) => TouchesOwn(r)
  BY DEF FetchFeed
<1>9. FetchFails(r) => TouchesOwn(r)
  BY DEF FetchFails
<1>10. HashArchive(r) => TouchesOwn(r)
  BY DEF HashArchive
<1>11. MakeStaging(r) => TouchesOwn(r)
  BY DEF MakeStaging
<1>12. MakeStagingFails(r) => TouchesOwn(r)
  BY DEF MakeStagingFails
<1>13. ExtractArchive(r) => TouchesOwn(r)
  BY DEF ExtractArchive
<1>14. ValidateFiles(r) => TouchesOwn(r)
  BY DEF ValidateFiles
<1>15. JudgeCandidate(r) => TouchesOwn(r)
  BY DEF JudgeCandidate
<1>16. SwapInstalls(r) => TouchesOwn(r)
  BY DEF SwapInstalls
<1>17. SwapFails(r) => TouchesOwn(r)
  BY DEF SwapFails
<1>18. RemoveStaging(r) => TouchesOwn(r)
  BY DEF RemoveStaging
<1>19. StagingUndeleted(r) => TouchesOwn(r)
  BY DEF StagingUndeleted
<1>20. CleanUp(r) => TouchesOwn(r)
  BY DEF CleanUp
<1>21. CleanUpFails(r) => TouchesOwn(r)
  BY DEF CleanUpFails
<1>22. Kill(r) => TouchesOwn(r)
  BY DEF Kill
<1>23. Interrupt(r) => TouchesOwn(r)
  BY DEF Interrupt
<1> QED
  BY <1>23, <1>1, <1>2, <1>3, <1>4, <1>5, <1>6, <1>7, <1>8, <1>9, <1>10, <1>11,
     <1>12, <1>13, <1>14, <1>15, <1>16, <1>17, <1>18, <1>19, <1>20, <1>21, <1>22
  DEF Download, Install, End

\* A step of a run keeps what it has hashed to what it goes on with.
LEMMA StepKeeper ==
    ASSUME TypeOK, NEW r \in Runs, ProblemInv(r), CandidateInv(r), KeeperInv(r),
           Download(r) \/ Install(r) \/ End(r)
    PROVE  KeeperInv(r)'
<1> USE DistinctNames DEF TypeOK, FilesOK, RunStates, At, Proceed, Fail, World, disk,
           KeeperInv, ProblemInv, CandidateInv, Started, Staged, Ending
<1>1. ParseArguments(r) => KeeperInv(r)'
  BY DEF ParseArguments
<1>2. PrepareArchive(r) => KeeperInv(r)'
  BY DEF PrepareArchive
<1>3. PrepareFails(r) => KeeperInv(r)'
  BY DEF PrepareFails
<1>4. StartDownload(r) => KeeperInv(r)'
  BY DEF StartDownload
<1>5. FinishDownload(r) => KeeperInv(r)'
  <2> SUFFICES ASSUME FinishDownload(r) PROVE KeeperInv(r)'
    OBVIOUS
  <2>1. /\ run'[r].pc = "fetching" /\ run'[r].downloaded = part[r] /\ part[r] # NoFile
        /\ run'[r].problem = run[r].problem /\ At(r, "downloading")
    BY DEF FinishDownload
  <2> QED BY <2>1
<1>6. DownloadFails(r) => KeeperInv(r)'
  BY DEF DownloadFails
<1>7. DownloadUndeleted(r) => KeeperInv(r)'
  BY DEF DownloadUndeleted
<1>8. FetchFeed(r) => KeeperInv(r)'
  <2> SUFFICES ASSUME FetchFeed(r) PROVE KeeperInv(r)'
    OBVIOUS
  <2>1. /\ run'[r].pc = "hashing" /\ run'[r].downloaded = run[r].downloaded
        /\ run'[r].problem = run[r].problem /\ At(r, "fetching")
    BY DEF FetchFeed
  <2> QED BY <2>1
<1>9. FetchFails(r) => KeeperInv(r)'
  BY DEF FetchFails
<1>10. HashArchive(r) => KeeperInv(r)'
  <2> SUFFICES ASSUME HashArchive(r) PROVE KeeperInv(r)'
    OBVIOUS
  <2>1. CASE zip[Archive(r)] = run[r].downloaded
    <3>1. /\ run'[r].pc = "staging" /\ run'[r].verified = zip[Archive(r)]
          /\ run'[r].problem = run[r].problem /\ At(r, "hashing")
          /\ run'[r].invocation = run[r].invocation /\ zip' = zip
      BY <2>1 DEF HashArchive
    <3>2. Archive(r)' = Archive(r)
      BY <3>1 DEF Archive
    <3> QED BY <2>1, <3>1, <3>2
  <2>2. CASE zip[Archive(r)] # run[r].downloaded
    <3>1. Fail(r, "error", "cleaning")
      BY <2>2 DEF HashArchive
    <3> QED BY <3>1
  <2> QED BY <2>1, <2>2
<1>11. MakeStaging(r) => KeeperInv(r)'
  <2> SUFFICES ASSUME MakeStaging(r) PROVE KeeperInv(r)'
    OBVIOUS
  <2>1. /\ run'[r].pc = "extracting" /\ run'[r].verified = run[r].verified
        /\ run'[r].problem = run[r].problem /\ At(r, "staging")
        /\ staging'[r] = zip[Archive(r)]
    BY DEF MakeStaging
  <2> QED BY <2>1
<1>12. MakeStagingFails(r) => KeeperInv(r)'
  BY DEF MakeStagingFails
<1>13. ExtractArchive(r) => KeeperInv(r)'
  <2> SUFFICES ASSUME ExtractArchive(r) PROVE KeeperInv(r)'
    OBVIOUS
  <2>1. At(r, "extracting") /\ staging' = staging
    BY DEF ExtractArchive
  <2>2. CASE Proceed(r, "validating")
    BY <2>1, <2>2
  <2>3. CASE \E kind \in {"error", "escape"} :
               Extract(staging[r]).outcome = kind /\ Fail(r, kind, "unstaging")
    BY <2>1, <2>3 DEF Escapes
  <2>4. CASE Fail(r, "error", "unstaging")
    BY <2>1, <2>4
  <2> QED BY <2>2, <2>3, <2>4 DEF ExtractArchive
<1>14. ValidateFiles(r) => KeeperInv(r)'
  <2> SUFFICES ASSUME ValidateFiles(r) PROVE KeeperInv(r)'
    OBVIOUS
  <2>1. At(r, "validating") /\ staging' = staging
    BY DEF ValidateFiles
  <2>2. CASE Proceed(r, "judging")
    BY <2>1, <2>2
  <2>3. CASE Fail(r, "error", "unstaging")
    BY <2>1, <2>3
  <2> QED BY <2>2, <2>3 DEF ValidateFiles
<1>15. JudgeCandidate(r) => KeeperInv(r)'
  <2> SUFFICES ASSUME JudgeCandidate(r) PROVE KeeperInv(r)'
    OBVIOUS
  <2>1. At(r, "judging") /\ staging' = staging /\ run[r].verified # NoFile
        /\ staging[r] = run[r].verified
    BY DEF JudgeCandidate
  <2>2. CASE Proceed(r, "swapping")
    BY <2>1, <2>2
  <2>3. CASE Fail(r, Verdict(run[r].feed, staging[r]), "unstaging")
             /\ Verdict(run[r].feed, staging[r]) # "compatible"
    <3>1. Verdict(run[r].feed, staging[r]) \in {"compatible", "incompatible", "error", "escape"}
      BY DEF Verdict, Judge
    <3> QED BY <2>1, <2>3, <3>1 DEF Escapes
  <2> QED BY <2>2, <2>3 DEF JudgeCandidate
<1>16. SwapInstalls(r) => KeeperInv(r)'
  <2> SUFFICES ASSUME SwapInstalls(r) PROVE KeeperInv(r)'
    OBVIOUS
  <2>1. At(r, "swapping") /\ installed'.by = r
        /\ Verdict(run[r].feed, run[r].verified) = "compatible"
        /\ \E kind \in {"none", "error"} : Fail(r, kind, "unstaging")
    BY DEF SwapInstalls
  <2> QED BY <2>1
<1>17. SwapFails(r) => KeeperInv(r)'
  BY DEF SwapFails
<1>18. RemoveStaging(r) => KeeperInv(r)'
  BY DEF RemoveStaging
<1>19. StagingUndeleted(r) => KeeperInv(r)'
  BY DEF StagingUndeleted
<1>20. CleanUp(r) => KeeperInv(r)'
  <2> SUFFICES ASSUME CleanUp(r) PROVE KeeperInv(r)'
    OBVIOUS
  <2>1. /\ run'[r].pc = "ended" /\ run'[r].problem = run[r].problem
        /\ run'[r].verified = run[r].verified /\ run'[r].feed = run[r].feed
    BY DEF CleanUp
  <2> QED BY <2>1
<1>21. CleanUpFails(r) => KeeperInv(r)'
  <2> SUFFICES ASSUME CleanUpFails(r) PROVE KeeperInv(r)'
    OBVIOUS
  <2>1. /\ run'[r].pc = "ended" /\ run'[r].problem = run[r].problem
        /\ run'[r].verified = run[r].verified /\ run'[r].feed = run[r].feed
    BY DEF CleanUpFails
  <2> QED BY <2>1
<1>22. Kill(r) => KeeperInv(r)'
  <2> SUFFICES ASSUME Kill(r) PROVE KeeperInv(r)'
    OBVIOUS
  <2>1. /\ run'[r].pc = "ended" /\ run'[r].problem = run[r].problem
        /\ run'[r].verified = run[r].verified /\ run'[r].feed = run[r].feed
    BY DEF Kill
  <2> QED BY <2>1
<1>23. Interrupt(r) => KeeperInv(r)'
  BY DEF Interrupt
<1> QED
  BY <1>23, <1>1, <1>2, <1>3, <1>4, <1>5, <1>6, <1>7, <1>8, <1>9, <1>10, <1>11,
     <1>12, <1>13, <1>14, <1>15, <1>16, <1>17, <1>18, <1>19, <1>20, <1>21, <1>22
  DEF Download, Install, End

\* What the exit code of one run says.
Truthful(r) ==
    Ended(r) =>
        /\ run[r].exit = "0" =>
              /\ installed.by \in Runs
              /\ Verdict(run[r].feed, run[r].verified) = "compatible"
              /\ run[r].undeleted = {}
        /\ run[r].exit = "1" =>
              /\ installed.by # r
              /\ run[r].verified # NoFile
              /\ \/ /\ Verdict(run[r].feed, run[r].verified) = "incompatible"
                    /\ run[r].undeleted = {}
                 \/ Escapes(run[r].feed, run[r].verified)
        /\ run[r].exit = "2" /\ run[r].problem # "error" /\ installed.by = r =>
              "zip" \in run[r].undeleted

\* A run ends with the exit code of what it has met.
LEMMA StepTruthful ==
    ASSUME TypeOK, NEW r \in Runs, ProblemInv(r), KeeperInv(r),
           Download(r) \/ Install(r) \/ End(r)
    PROVE  Truthful(r)'
<1> USE DistinctNames DEF TypeOK, FilesOK, RunStates, At, Proceed, Fail, World, disk,
           Truthful, Ended, Started, Staged, Ending
<1>1. ParseArguments(r) => Truthful(r)'
  BY DEF ParseArguments, ProblemInv
<1>2. PrepareArchive(r) => Truthful(r)'
  BY DEF PrepareArchive
<1>3. PrepareFails(r) => Truthful(r)'
  BY DEF PrepareFails
<1>4. StartDownload(r) => Truthful(r)'
  BY DEF StartDownload
<1>5. FinishDownload(r) => Truthful(r)'
  BY DEF FinishDownload
<1>6. DownloadFails(r) => Truthful(r)'
  BY DEF DownloadFails
<1>7. DownloadUndeleted(r) => Truthful(r)'
  BY DEF DownloadUndeleted
<1>8. FetchFeed(r) => Truthful(r)'
  BY DEF FetchFeed
<1>9. FetchFails(r) => Truthful(r)'
  BY DEF FetchFails
<1>10. HashArchive(r) => Truthful(r)'
  BY DEF HashArchive
<1>11. MakeStaging(r) => Truthful(r)'
  BY DEF MakeStaging
<1>12. MakeStagingFails(r) => Truthful(r)'
  BY DEF MakeStagingFails
<1>13. ExtractArchive(r) => Truthful(r)'
  BY DEF ExtractArchive
<1>14. ValidateFiles(r) => Truthful(r)'
  BY DEF ValidateFiles
<1>15. JudgeCandidate(r) => Truthful(r)'
  BY DEF JudgeCandidate
<1>16. SwapInstalls(r) => Truthful(r)'
  BY DEF SwapInstalls
<1>17. SwapFails(r) => Truthful(r)'
  BY DEF SwapFails
<1>18. RemoveStaging(r) => Truthful(r)'
  BY DEF RemoveStaging
<1>19. StagingUndeleted(r) => Truthful(r)'
  BY DEF StagingUndeleted
<1>20. CleanUp(r) => Truthful(r)'
  <2> SUFFICES ASSUME CleanUp(r) PROVE Truthful(r)'
    OBVIOUS
  <2>1. /\ run'[r].exit = ExitCode(run[r].problem) /\ run'[r].problem = run[r].problem
        /\ run'[r].verified = run[r].verified /\ run'[r].feed = run[r].feed
        /\ run'[r].undeleted = run[r].undeleted
        /\ At(r, "cleaning") /\ installed' = installed
    BY DEF CleanUp
  <2>2. run[r].problem \in {"none", "incompatible", "error", "escape", "interrupt"}
    BY DEF Problems
  <2> QED BY <2>1, <2>2 DEF ProblemInv, KeeperInv, ExitCode
<1>21. CleanUpFails(r) => Truthful(r)'
  <2> SUFFICES ASSUME CleanUpFails(r) PROVE Truthful(r)'
    OBVIOUS
  <2>1. /\ run'[r].exit = IF run[r].problem \in {"escape", "interrupt"}
                          THEN ExitCode(run[r].problem) ELSE ExitCode("error")
        /\ run'[r].problem = run[r].problem
        /\ run'[r].verified = run[r].verified /\ run'[r].feed = run[r].feed
        /\ run'[r].undeleted = run[r].undeleted \cup {"zip"} /\ installed' = installed
    BY DEF CleanUpFails
  <2> QED BY <2>1 DEF ProblemInv, KeeperInv, ExitCode
<1>22. Kill(r) => Truthful(r)'
  BY DEF Kill
<1>23. Interrupt(r) => Truthful(r)'
  BY DEF Interrupt
<1> QED
  BY <1>23, <1>1, <1>2, <1>3, <1>4, <1>5, <1>6, <1>7, <1>8, <1>9, <1>10, <1>11,
     <1>12, <1>13, <1>14, <1>15, <1>16, <1>17, <1>18, <1>19, <1>20, <1>21, <1>22
  DEF Download, Install, End

\* A step of one run leaves the others what they have hashed, and what they report.
LEMMA OthersKeepTheirArchives ==
    ASSUME TypeOK, NEW r \in Runs, NEW s \in Runs \ {r}, Alone(r), TouchesOwn(r),
           ~(run[r].invocation.keep /\ run[s].invocation.keep), KeeperInv(s), Truthful(s)
    PROVE  KeeperInv(s)' /\ Truthful(s)'
<1>1. /\ run'[s] = run[s] /\ staging'[s] = staging[s]
      /\ installed' = installed \/ installed'.by = r
  BY DEF Alone
<1>2. Archive(s) \in (Runs \cup {Retained}) \ {r, Archive(r)}
  BY UpdateAssumption DEF Archive
<1>3. zip'[Archive(s)] = zip[Archive(s)] /\ Archive(s)' = Archive(s)
  BY <1>1, <1>2 DEF TouchesOwn, Archive
<1>4. KeeperInv(s)'
  BY <1>1, <1>3 DEF KeeperInv, At
<1>5. Truthful(s)'
  BY <1>1 DEF Truthful, Ended
<1> QED BY <1>4, <1>5

\* What is installed is what was hashed.
LEMMA StepManifest ==
    ASSUME TypeOK, NEW r \in Runs, KeeperInv(r), ManifestNamesItsArchive,
           Download(r) \/ Install(r) \/ End(r)
    PROVE  ManifestNamesItsArchive'
<1>1. CASE SwapInstalls(r)
  BY <1>1 DEF SwapInstalls, ManifestNamesItsArchive, KeeperInv, At, Staged
<1>2. CASE ~SwapInstalls(r)
  <2>1. installed' = installed
    BY <1>2 DEF Download, Install, End, ParseArguments, PrepareArchive, PrepareFails,
     StartDownload, FinishDownload, DownloadFails, DownloadUndeleted, FetchFeed, FetchFails,
     HashArchive, MakeStaging, MakeStagingFails, ExtractArchive, ValidateFiles,
     JudgeCandidate, SwapFails, RemoveStaging, StagingUndeleted, CleanUp,
     CleanUpFails, Kill, Interrupt, disk
  <2> QED BY <2>1 DEF ManifestNamesItsArchive
<1> QED BY <1>1, <1>2

\* With one run that keeps its archive, the keeper's invariant holds at the start.
LEMMA KeeperStart == OneKeeper /\ Init => KeeperIInv
<1> SUFFICES ASSUME OneKeeper, Init PROVE KeeperIInv
  OBVIOUS
<1>1. PICK scenario \in Scenarios :
        run = [r \in Runs |->
             [pc |-> "parsing", invocation |-> scenario.invocation[r],
              downloaded |-> NoFile, feed |-> NoFile, verified |-> NoFile,
              problem |-> "none", undeleted |-> {}, exit |-> "none"]]
  BY DEF Init
<1>2. \A r, s \in Runs : run[r].invocation.keep /\ run[s].invocation.keep => r = s
  BY <1>1 DEF OneKeeper
<1>3. \A r \in Runs : KeeperInv(r)
  BY <1>1 DEF KeeperInv, At, Staged, Ending
<1>4. ManifestNamesItsArchive
  BY DEF Init, NoManifest, ManifestNamesItsArchive
<1>5. ExitCodeIsTruthful
  BY <1>1 DEF ExitCodeIsTruthful, Ended
<1> QED BY <1>2, <1>3, <1>4, <1>5 DEF KeeperIInv

\* Steps of the keeper maintain its invariant, steps of the others do not reach it.
LEMMA KeeperStep == UpdateIInv /\ KeeperIInv /\ [Next]_vars => KeeperIInv'
<1> SUFFICES ASSUME UpdateIInv, KeeperIInv, [Next]_vars PROVE KeeperIInv'
  OBVIOUS
<1>1. ExitCodeIsTruthful <=> \A r \in Runs : Truthful(r)
  BY DEF ExitCodeIsTruthful, Truthful
<1>2. ExitCodeIsTruthful' <=> \A r \in Runs : Truthful(r)'
  BY DEF ExitCodeIsTruthful, Truthful
<1>3. CASE UNCHANGED <<zip, part, staging, installed, run>>
  <2>1. ASSUME NEW r \in Runs PROVE KeeperInv(r)' /\ Truthful(r)'
    BY <1>1, <1>3 DEF KeeperIInv, KeeperInv, Truthful, Ended, At, Archive
  <2>2. ManifestNamesItsArchive'
    BY <1>3 DEF KeeperIInv, ManifestNamesItsArchive
  <2> QED BY <1>2, <1>3, <2>1, <2>2 DEF KeeperIInv
<1>4. ASSUME NEW r \in Runs, Download(r) \/ Install(r) \/ End(r) PROVE KeeperIInv'
  <2>1. /\ TypeOK /\ ManifestNamesItsArchive
        /\ \A s \in Runs : ProblemInv(s) /\ CandidateInv(s) /\ KeeperInv(s) /\ Truthful(s)
        /\ \A q, s \in Runs : run[q].invocation.keep /\ run[s].invocation.keep => q = s
    BY <1>1 DEF UpdateIInv, KeeperIInv
  <2>2. Alone(r) /\ TouchesOwn(r)
    BY <1>4, <2>1, StepIsAlone, StepTouches
  <2>3. ManifestNamesItsArchive'
    BY <1>4, <2>1, StepManifest
  <2>4. KeeperInv(r)' /\ Truthful(r)'
    BY <1>4, <2>1, StepKeeper, StepTruthful
  <2>5. ASSUME NEW s \in Runs \ {r} PROVE KeeperInv(s)' /\ Truthful(s)'
    BY <2>1, <2>2, OthersKeepTheirArchives
  <2>6. \A s \in Runs : run'[s].invocation = run[s].invocation
    BY <2>2 DEF Alone
  <2>7. \A q, s \in Runs : run'[q].invocation.keep /\ run'[s].invocation.keep => q = s
    BY <2>1, <2>6
  <2> QED BY <1>2, <2>3, <2>4, <2>5, <2>7 DEF KeeperIInv
<1> QED BY <1>3, <1>4 DEF Next, UpstreamChanges, vars, disk

\* While at most one run keeps its archive, what a run has hashed is what it unpacks,
\* judges, installs and reports.
THEOREM KeeperInvariant == OneKeeper => (Spec => []KeeperIInv)
<1> SUFFICES ASSUME OneKeeper PROVE Spec => []KeeperIInv
  OBVIOUS
<1>1. Init => KeeperIInv
  BY KeeperStart
<1> QED BY <1>1, UpdateInvariant, KeeperStep, PTL DEF Spec

\* The manifest names the archive that the installed files come from, unless two runs
\* with --keep-archive share a path (static_gtfs.py: install_static_gtfs_archive hashes
\* the file, and ZipFile opens it again).
THEOREM ManifestTheorem == OneKeeper => (Spec => []ManifestNamesItsArchive)
<1>1. KeeperIInv => ManifestNamesItsArchive
  BY DEF KeeperIInv
<1> QED BY <1>1, KeeperInvariant, PTL

\* The exit status tells what ExitCodeIsTruthful says of it (static_gtfs_cli.py:
\* cli_main), under the same condition: 0 is an installation of a compatible archive,
\* 1 is none, after an incompatible candidate or an exception that escaped.
THEOREM ExitCodeTheorem == OneKeeper => (Spec => []ExitCodeIsTruthful)
<1>1. KeeperIInv => ExitCodeIsTruthful
  BY DEF KeeperIInv
<1> QED BY <1>1, KeeperInvariant, PTL

-----------------------------------------------------------------------------
(* The extraction of an archive, by induction over its members             *)

\* The staging directory after each of the first n members.
IsStagings(c, members, n) ==
    c = [i \in 0 .. n |-> IF i = 0 THEN NothingStaged ELSE Unpack(c[i - 1], members[i])]

\* The loop leaves a staging directory after every member.
LEMMA StagingsExist ==
    ASSUME NEW members, NEW N \in Nat
    PROVE  \E c : IsStagings(c, members, N)
<1> DEFINE Bad == {n \in 0 .. N : ~\E c : IsStagings(c, members, n)}
<1>1. SUFFICES ASSUME Bad # {} PROVE FALSE
  OBVIOUS
<1>2. PICK n \in Bad : \A m \in Bad : n <= m
  <2>1. Bad \in SUBSET Nat
    OBVIOUS
  <2> HIDE DEF Bad
  <2> QED BY <1>1, <2>1, LeastExists
<1>3. n \in 0 .. N /\ ~\E c : IsStagings(c, members, n)
  OBVIOUS
<1>4. CASE n = 0
  <2> DEFINE c == [i \in 0 .. 0 |-> NothingStaged]
  <2>1. c = [i \in 0 .. 0 |-> IF i = 0 THEN NothingStaged ELSE Unpack(c[i - 1], members[i])]
    OBVIOUS
  <2> HIDE DEF c
  <2> QED BY <1>3, <1>4, <2>1 DEF IsStagings
<1>5. CASE n # 0
  <2>1. n - 1 \in 0 .. N /\ n - 1 \notin Bad
    BY <1>2, <1>3, <1>5
  <2>2. PICK c : IsStagings(c, members, n - 1)
    BY <2>1
  <2> DEFINE d == [i \in 0 .. n |-> IF i = n THEN Unpack(c[n - 1], members[n]) ELSE c[i]]
  <2>3. \A i \in 0 .. n : d[i] = IF i = 0 THEN NothingStaged ELSE Unpack(d[i - 1], members[i])
    <3> TAKE i \in 0 .. n
    <3>1. CASE i = n
      <4>1. d[n] = Unpack(c[n - 1], members[n]) /\ d[n - 1] = c[n - 1]
        BY <1>3, <1>5
      <4> QED BY <1>5, <3>1, <4>1
    <3>2. CASE i # n
      <4>1. i \in 0 .. n - 1 /\ d[i] = c[i]
        BY <1>3, <3>2
      <4>2. c[i] = IF i = 0 THEN NothingStaged ELSE Unpack(c[i - 1], members[i])
        BY <2>2, <4>1 DEF IsStagings
      <4>3. i # 0 => d[i - 1] = c[i - 1]
        BY <1>3, <4>1
      <4> QED BY <4>1, <4>2, <4>3
    <3> QED BY <3>1, <3>2
  <2>4. IsStagings(d, members, n)
    BY <2>3 DEF IsStagings
  <2> QED BY <1>3, <2>4
<1> QED BY <1>4, <1>5

\* Extract refuses what an archive declares, or is the last of its stagings.
LEMMA ExtractStages ==
    ASSUME NEW archive, Len(archive.members) \in Nat
    PROVE  \/ Extract(archive) = [NothingStaged EXCEPT !.outcome = "error"]
           \/ \E c : /\ IsStagings(c, archive.members, Len(archive.members))
                     /\ Extract(archive) = c[Len(archive.members)]
<1> DEFINE c == CHOOSE x : x = [n \in 0 .. Len(archive.members) |->
                    IF n = 0 THEN NothingStaged ELSE Unpack(x[n - 1], archive.members[n])]
<1>1. \E x : x = [n \in 0 .. Len(archive.members) |->
                    IF n = 0 THEN NothingStaged ELSE Unpack(x[n - 1], archive.members[n])]
  <2>1. PICK x : IsStagings(x, archive.members, Len(archive.members))
    BY StagingsExist
  <2> QED BY <2>1, Zenon DEF IsStagings
<1>2. IsStagings(c, archive.members, Len(archive.members))
  BY <1>1, Zenon DEF IsStagings
<1>3. \/ Extract(archive) = [NothingStaged EXCEPT !.outcome = "error"]
      \/ Extract(archive) = c[Len(archive.members)]
  BY Zenon DEF Extract
<1> HIDE DEF c
<1> QED BY <1>2, <1>3

\* One file more is at most its bytes more.
LEMMA BytesMore ==
    ASSUME NEW files, NEW file, file.size \in Nat, IsFiniteSet(Bytes(files)),
           NEW total \in Nat, Cardinality(Bytes(files)) <= total
    PROVE  /\ IsFiniteSet(Bytes(files \cup {file}))
           /\ Cardinality(Bytes(files \cup {file})) <= total + file.size
<1> DEFINE own == {file} \X (1 .. file.size)
<1>1. Bytes(files \cup {file}) = Bytes(files) \cup own
  BY DEF Bytes
<1>2. IsFiniteSet(own) /\ Cardinality(own) = file.size
  <2>1. IsFiniteSet({file}) /\ Cardinality({file}) = 1
    BY FS_Singleton
  <2>2. IsFiniteSet(1 .. file.size) /\ Cardinality(1 .. file.size) = file.size
    <3>1. 1 \in Int /\ file.size \in Int
      OBVIOUS
    <3>2. /\ IsFiniteSet(1 .. file.size)
          /\ Cardinality(1 .. file.size) = IF 1 > file.size THEN 0 ELSE file.size - 1 + 1
      BY <3>1, FS_Interval, Zenon
    <3> QED BY <3>2
  <2>3. IsFiniteSet(own) /\ Cardinality(own) = Cardinality({file}) * Cardinality(1 .. file.size)
    BY <2>1, <2>2, FS_Product
  <2> QED BY <2>1, <2>2, <2>3
<1> HIDE DEF own
<1>3. /\ IsFiniteSet(Bytes(files) \cup own)
      /\ Cardinality(Bytes(files) \cup own) =
            Cardinality(Bytes(files)) + Cardinality(own) - Cardinality(Bytes(files) \cap own)
  BY <1>2, FS_Union
<1>4. IsFiniteSet(Bytes(files) \cap own)
  BY <1>2, FS_Intersection
<1>5. Cardinality(Bytes(files) \cap own) \in Nat /\ Cardinality(Bytes(files)) \in Nat
  BY <1>4, FS_CardinalityType
<1>6. Cardinality(Bytes(files) \cup own) <= total + file.size
  <2> DEFINE all == Cardinality(Bytes(files) \cup own)
             before == Cardinality(Bytes(files))
             both == Cardinality(Bytes(files) \cap own)
  <2>1. all = before + file.size - both /\ before \in Nat /\ both \in Nat /\ before <= total
    BY <1>2, <1>3, <1>5
  <2> HIDE DEF all, before, both
  <2>2. all <= total + file.size
    BY <2>1
  <2> QED BY <2>2 DEF all
<1> QED BY <1>1, <1>3, <1>6

\* A staging directory has these fields.
IsStaging(s) ==
    s = [outcome |-> s.outcome, total |-> s.total, files |-> s.files,
         directories |-> s.directories]

\* One turn of the loop changes nothing about files, fails, or writes a file that is
\* within the limits and as long as declared.
LEMMA UnpackDoes ==
    ASSUME NEW staged, NEW member, IsStaging(staged)
    PROVE  LET next == Unpack(staged, member)
           IN  /\ IsStaging(next)
               /\ \/ /\ next.files = staged.files /\ next.total = staged.total
                     /\ next.outcome = "ok" =>
                           member.kind = "directory" /\ staged.outcome = "ok"
                  \/ /\ staged.outcome = "ok" /\ member.kind # "directory"
                     /\ ~(member.actual > MaxMemberBytes)
                     /\ ~(staged.total + member.actual > MaxTotalBytes)
                     /\ member.actual = member.declared
                     /\ next.total = staged.total + member.actual
                     /\ next.files = staged.files \cup
                           {[path |-> member.path, size |-> member.actual]}
<1> DEFINE next == Unpack(staged, member)
           made == staged.directories \cup Parents(member.path)
           total == staged.total + member.actual
<1>1. CASE staged.outcome # "ok"
  BY <1>1 DEF Unpack
<1>2. CASE staged.outcome = "ok" /\ Unwritable(staged, member)
  <2>1. next = [staged EXCEPT !.outcome = "error"]
    BY <1>2 DEF Unpack
  <2> QED BY <2>1 DEF IsStaging
<1>3. CASE /\ staged.outcome = "ok" /\ ~Unwritable(staged, member)
           /\ member.kind = "directory"
  <2>1. next = [staged EXCEPT !.directories = made \cup {member.path}]
    BY <1>3 DEF Unpack
  <2> QED BY <1>3, <2>1 DEF IsStaging
<1>4. CASE /\ staged.outcome = "ok" /\ ~Unwritable(staged, member)
           /\ member.kind = "garbled"
  <2>1. next = [staged EXCEPT !.outcome = "escape"]
    BY <1>4 DEF Unpack
  <2> QED BY <2>1 DEF IsStaging
<1>5. CASE /\ staged.outcome = "ok" /\ ~Unwritable(staged, member)
           /\ member.kind \notin {"directory", "garbled"}
           /\ \/ member.actual > MaxMemberBytes \/ total > MaxTotalBytes
              \/ member.actual # member.declared
  <2>1. next = [staged EXCEPT !.outcome = "error"]
    BY <1>5 DEF Unpack
  <2> QED BY <2>1 DEF IsStaging
<1>6. CASE /\ staged.outcome = "ok" /\ ~Unwritable(staged, member)
           /\ member.kind \notin {"directory", "garbled"}
           /\ ~(\/ member.actual > MaxMemberBytes \/ total > MaxTotalBytes
                \/ member.actual # member.declared)
  <2>1. next = [staged EXCEPT !.total = total, !.directories = made,
                   !.files = @ \cup {[path |-> member.path, size |-> member.actual]}]
    BY <1>6 DEF Unpack
  <2> DEFINE file == [path |-> member.path, size |-> member.actual]
  <2>2. next = [outcome |-> staged.outcome, total |-> total,
                files |-> staged.files \cup {file}, directories |-> made]
    <3> HIDE DEF file, made, total
    <3> QED BY <2>1 DEF IsStaging, file
  <2> HIDE DEF next
  <2> QED BY <1>6, <2>2 DEF IsStaging, next
<1> QED BY <1>1, <1>2, <1>3, <1>4, <1>5, <1>6

\* What a staging directory holds after some members, all of them or those before a
\* failure.
StagedExact(staged, members, n) ==
    /\ IsStaging(staged)
    /\ staged.total \in Nat /\ staged.total <= MaxTotalBytes
    /\ IsFiniteSet(Bytes(staged.files)) /\ Cardinality(Bytes(staged.files)) <= staged.total
    /\ \A f \in staged.files : f.size <= MaxMemberBytes
    /\ staged.outcome = "ok" =>
          staged.files = {[path |-> members[i].path, size |-> members[i].declared] :
                            i \in {j \in 1 .. n : members[j].kind # "directory"}}

\* Nothing is staged at first.
LEMMA NothingIsExact ==
    ASSUME NEW members, NEW staged, IsStaging(staged), staged.total = 0, staged.files = {}
    PROVE  StagedExact(staged, members, 0)
<1>1. Bytes({}) = {}
  BY DEF Bytes
<1>2. IsFiniteSet({}) /\ Cardinality({}) = 0
  BY FS_EmptySet
<1>3. {[path |-> members[i].path, size |-> members[i].declared] :
         i \in {j \in 1 .. 0 : members[j].kind # "directory"}} = {}
  OBVIOUS
<1> QED BY <1>1, <1>2, <1>3, LimitsAssumption DEF StagedExact

\* One member more.
LEMMA UnpackIsExact ==
    ASSUME NEW members, NEW n \in Nat \ {0}, members[n].actual \in Nat,
           NEW staged, StagedExact(staged, members, n - 1)
    PROVE  StagedExact(Unpack(staged, members[n]), members, n)
<1> DEFINE member == members[n]
           next == Unpack(staged, member)
           Whole(m) == {[path |-> members[i].path, size |-> members[i].declared] :
                          i \in {j \in 1 .. m : members[j].kind # "directory"}}
           file == [path |-> member.path, size |-> member.actual]
<1>1. 1 .. n = (1 .. n - 1) \cup {n}
  OBVIOUS
<1>2. member.kind = "directory" => Whole(n) = Whole(n - 1)
  BY <1>1
<1>3. member.kind # "directory" /\ member.actual = member.declared =>
         Whole(n) = Whole(n - 1) \cup {file}
  BY <1>1
<1>4. /\ IsStaging(next)
      /\ \/ /\ next.files = staged.files /\ next.total = staged.total
            /\ next.outcome = "ok" => member.kind = "directory" /\ staged.outcome = "ok"
         \/ /\ staged.outcome = "ok" /\ member.kind # "directory"
            /\ ~(member.actual > MaxMemberBytes)
            /\ ~(staged.total + member.actual > MaxTotalBytes)
            /\ member.actual = member.declared
            /\ next.total = staged.total + member.actual
            /\ next.files = staged.files \cup {file}
  BY UnpackDoes DEF StagedExact
<1>5. staged.outcome = "ok" => staged.files = Whole(n - 1)
  BY DEF StagedExact
<1>6. /\ staged.total \in Nat /\ staged.total <= MaxTotalBytes
      /\ IsFiniteSet(Bytes(staged.files)) /\ Cardinality(Bytes(staged.files)) <= staged.total
      /\ \A f \in staged.files : f.size <= MaxMemberBytes
  BY DEF StagedExact
<1> HIDE DEF next, Whole
<1>7. CASE /\ next.files = staged.files /\ next.total = staged.total
           /\ next.outcome = "ok" => member.kind = "directory" /\ staged.outcome = "ok"
  <2>1. next.outcome = "ok" => next.files = Whole(n)
    BY <1>2, <1>5, <1>7
  <2>2. StagedExact(next, members, n)
    BY <1>4, <1>6, <1>7, <2>1 DEF StagedExact, Whole
  <2> QED BY <2>2 DEF next
<1>8. CASE /\ staged.outcome = "ok" /\ member.kind # "directory"
           /\ ~(member.actual > MaxMemberBytes)
           /\ ~(staged.total + member.actual > MaxTotalBytes)
           /\ member.actual = member.declared
           /\ next.total = staged.total + member.actual
           /\ next.files = staged.files \cup {file}
  <2>1. next.files = Whole(n)
    BY <1>3, <1>5, <1>8
  <2>2. file.size = member.actual /\ member.actual \in Nat
    OBVIOUS
  <2>3. next.total \in Nat /\ next.total <= MaxTotalBytes
    BY <1>6, <1>8, <2>2, LimitsAssumption
  <2>4. \A f \in next.files : f.size <= MaxMemberBytes
    BY <1>6, <1>8, <2>2, LimitsAssumption
  <2> HIDE DEF file, member
  <2>5. /\ IsFiniteSet(Bytes(staged.files \cup {file}))
        /\ Cardinality(Bytes(staged.files \cup {file})) <= staged.total + file.size
    BY <1>6, <2>2, BytesMore
  <2>6. IsFiniteSet(Bytes(next.files)) /\ Cardinality(Bytes(next.files)) <= next.total
    BY <1>8, <2>2, <2>5
  <2>7. StagedExact(next, members, n)
    BY <1>4, <2>1, <2>3, <2>4, <2>6 DEF StagedExact, Whole
  <2> QED BY <2>7 DEF next, member
<1> QED BY <1>4, <1>7, <1>8

\* What an extraction leaves on the disk is within the limits, whatever the archive
\* declares (static_gtfs.py: _extract_safely).
LEMMA ExtractIsBounded ==
    ASSUME NEW archive, archive.members \in Seq(ToSet(archive.members)),
           \A m \in ToSet(archive.members) : m.actual \in Nat
    PROVE  ExtractionIsBounded(archive)
<1> DEFINE members == archive.members
           N == Len(members)
           staged == Extract(archive)
<1>1. N \in Nat /\ DOMAIN members = 1 .. N
  OBVIOUS
<1>2. ToSet(members) = {members[i] : i \in 1 .. N}
  BY <1>1 DEF ToSet
<1>3. \A i \in 1 .. N : members[i].actual \in Nat
  BY <1>2
<1> HIDE DEF N, members
<1>4. CASE staged = [NothingStaged EXCEPT !.outcome = "error"]
  <2>1. StagedExact(staged, members, 0) /\ staged.outcome # "ok"
    <3>1. staged = [outcome |-> "error", total |-> 0, files |-> {}, directories |-> {<<>>}]
      BY <1>4 DEF NothingStaged
    <3> HIDE DEF staged
    <3> QED BY <3>1, NothingIsExact DEF IsStaging
  <2> HIDE DEF staged
  <2>2. Cardinality(Bytes(staged.files)) <= MaxTotalBytes
    <3>1. Cardinality(Bytes(staged.files)) \in Nat
      BY <2>1, FS_CardinalityType DEF StagedExact
    <3> QED BY <2>1, <3>1, LimitsAssumption DEF StagedExact
  <2> QED BY <2>1, <2>2 DEF StagedExact, ExtractionIsBounded, staged
<1>5. ASSUME NEW c, IsStagings(c, members, N), staged = c[N]
      PROVE  ExtractionIsBounded(archive)
  <2> DEFINE Bad == {n \in 0 .. N : ~StagedExact(c[n], members, n)}
  <2> HIDE DEF staged
  <2>1. Bad = {}
    <3>1. SUFFICES ASSUME Bad # {} PROVE FALSE
      OBVIOUS
    <3>2. PICK n \in Bad : \A m \in Bad : n <= m
      <4>1. Bad \in SUBSET Nat
        BY <1>1
      <4> HIDE DEF Bad
      <4> QED BY <3>1, <4>1, LeastExists
    <3>3. CASE n = 0
      <4>1. c[0] = NothingStaged
        BY <1>1, <1>5 DEF IsStagings
      <4>2. StagedExact(c[0], members, 0)
        BY <4>1, NothingIsExact DEF NothingStaged, IsStaging
      <4> QED BY <3>3, <4>2
    <3>4. CASE n # 0
      <4>1. n \in Nat \ {0} /\ n \in 1 .. N /\ n - 1 \in 0 .. N /\ n \in 0 .. N
        BY <1>1, <3>4
      <4>2. c[n] = Unpack(c[n - 1], members[n])
        BY <1>5, <4>1 DEF IsStagings
      <4>3. StagedExact(c[n - 1], members, n - 1)
        BY <3>2, <4>1
      <4>4. StagedExact(c[n], members, n)
        BY <1>3, <4>1, <4>2, <4>3, UnpackIsExact
      <4> QED BY <4>4
    <3> QED BY <3>3, <3>4
  <2>2. StagedExact(staged, members, N)
    <3>1. N \in 0 .. N
      BY <1>1
    <3> QED BY <1>5, <2>1, <3>1
  <2>3. Cardinality(Bytes(staged.files)) <= MaxTotalBytes
    <3>1. Cardinality(Bytes(staged.files)) \in Nat
      BY <2>2, FS_CardinalityType DEF StagedExact
    <3> QED BY <2>2, <3>1, LimitsAssumption DEF StagedExact
  <2>4. {[path |-> members[i].path, size |-> members[i].declared] :
            i \in {j \in 1 .. N : members[j].kind # "directory"}} =
        {[path |-> m.path, size |-> m.declared] :
            m \in {m \in ToSet(members) : m.kind # "directory"}}
    BY <1>2
  <2>5. \A f \in staged.files : f.size <= MaxMemberBytes
    BY <2>2 DEF StagedExact
  <2>6. staged.outcome = "ok" =>
            staged.files = {[path |-> m.path, size |-> m.declared] :
                              m \in {m \in ToSet(members) : m.kind # "directory"}}
    BY <2>2, <2>4 DEF StagedExact
  <2> QED BY <2>3, <2>5, <2>6 DEF ExtractionIsBounded, staged, members
<1>6. \/ staged = [NothingStaged EXCEPT !.outcome = "error"]
      \/ \E c : IsStagings(c, members, N) /\ staged = c[N]
  BY <1>1, ExtractStages DEF members, N
<1> QED BY <1>4, <1>5, <1>6

-----------------------------------------------------------------------------
(* What a run unpacks, even while others keep their archives               *)

\* A step of a run keeps what it unpacks one of the archives that were offered.
LEMMA StepArchive ==
    ASSUME TypeOK, NEW r \in Runs, ArchiveInv(r),
           Download(r) \/ Install(r) \/ End(r)
    PROVE  ArchiveInv(r)'
<1> USE DistinctNames DEF TypeOK, FilesOK, RunStates, At, Proceed, Fail, World,
           disk, ArchiveInv, Staged
<1>1. ParseArguments(r) => ArchiveInv(r)'
  BY DEF ParseArguments
<1>2. PrepareArchive(r) => ArchiveInv(r)'
  BY DEF PrepareArchive
<1>3. PrepareFails(r) => ArchiveInv(r)'
  BY DEF PrepareFails
<1>4. StartDownload(r) => ArchiveInv(r)'
  <2> SUFFICES ASSUME StartDownload(r) PROVE ArchiveInv(r)'
    OBVIOUS
  <2>1. part'[r] = offered.archive /\ run' = run /\ At(r, "downloading")
    BY DEF StartDownload
  <2>2. offered.archive \in OfferedArchives
    BY OfferedIsOne DEF OfferedArchives
  <2> QED BY <2>1, <2>2
<1>5. FinishDownload(r) => ArchiveInv(r)'
  <2> SUFFICES ASSUME FinishDownload(r) PROVE ArchiveInv(r)'
    OBVIOUS
  <2>1. /\ part[r] # NoFile /\ part'[r] = NoFile /\ run'[r].pc = "fetching"
        /\ run'[r].invocation = run[r].invocation
        /\ zip' = [zip EXCEPT ![Archive(r)] = part[r]]
    BY DEF FinishDownload
  <2>2. Archive(r)' = Archive(r) /\ Archive(r) \in Runs \cup {Retained}
    BY <2>1 DEF Archive
  <2>3. zip'[Archive(r)] = part[r]
    BY <2>1, <2>2
  <2> QED BY <2>1, <2>2, <2>3
<1>6. DownloadFails(r) => ArchiveInv(r)'
  BY DEF DownloadFails
<1>7. DownloadUndeleted(r) => ArchiveInv(r)'
  BY DEF DownloadUndeleted
<1>8. FetchFeed(r) => ArchiveInv(r)'
  <2> SUFFICES ASSUME FetchFeed(r) PROVE ArchiveInv(r)'
    OBVIOUS
  <2>1. /\ At(r, "fetching") /\ zip' = zip /\ part' = part /\ run'[r].pc = "hashing"
        /\ run'[r].invocation = run[r].invocation
    BY DEF FetchFeed
  <2>2. Archive(r)' = Archive(r)
    BY <2>1 DEF Archive
  <2> QED BY <2>1, <2>2
<1>9. FetchFails(r) => ArchiveInv(r)'
  BY DEF FetchFails
<1>10. HashArchive(r) => ArchiveInv(r)'
  <2> SUFFICES ASSUME HashArchive(r) PROVE ArchiveInv(r)'
    OBVIOUS
  <2>1. /\ At(r, "hashing") /\ zip' = zip /\ part' = part /\ run'[r].pc \notin Staged
        /\ run'[r].invocation = run[r].invocation
    BY DEF HashArchive
  <2>2. Archive(r)' = Archive(r)
    BY <2>1 DEF Archive
  <2> QED BY <2>1, <2>2
<1>11. MakeStaging(r) => ArchiveInv(r)'
  <2> SUFFICES ASSUME MakeStaging(r) PROVE ArchiveInv(r)'
    OBVIOUS
  <2>1. /\ staging'[r] = zip[Archive(r)] /\ At(r, "staging") /\ run'[r].pc = "extracting"
        /\ part' = part
    BY DEF MakeStaging
  <2> QED BY <2>1
<1>12. MakeStagingFails(r) => ArchiveInv(r)'
  BY DEF MakeStagingFails
<1>13. ExtractArchive(r) => ArchiveInv(r)'
  BY DEF ExtractArchive
<1>14. ValidateFiles(r) => ArchiveInv(r)'
  BY DEF ValidateFiles
<1>15. JudgeCandidate(r) => ArchiveInv(r)'
  BY DEF JudgeCandidate
<1>16. SwapInstalls(r) => ArchiveInv(r)'
  BY DEF SwapInstalls
<1>17. SwapFails(r) => ArchiveInv(r)'
  BY DEF SwapFails
<1>18. RemoveStaging(r) => ArchiveInv(r)'
  BY DEF RemoveStaging
<1>19. StagingUndeleted(r) => ArchiveInv(r)'
  BY DEF StagingUndeleted
<1>20. CleanUp(r) => ArchiveInv(r)'
  BY DEF CleanUp
<1>21. CleanUpFails(r) => ArchiveInv(r)'
  BY DEF CleanUpFails
<1>22. Kill(r) => ArchiveInv(r)'
  BY DEF Kill
<1>23. Interrupt(r) => ArchiveInv(r)'
  BY DEF Interrupt
<1> QED
  BY <1>23, <1>1, <1>2, <1>3, <1>4, <1>5, <1>6, <1>7, <1>8, <1>9, <1>10, <1>11,
     <1>12, <1>13, <1>14, <1>15, <1>16, <1>17, <1>18, <1>19, <1>20, <1>21, <1>22
  DEF Download, Install, End

\* A step of another run does so too: it replaces the archive that both keep by one that
\* was offered, or leaves it.
LEMMA OthersKeepArchives ==
    ASSUME TypeOK, NEW r \in Runs, NEW s \in Runs \ {r}, ArchiveInv(r), ArchiveInv(s),
           Download(r) \/ Install(r) \/ End(r)
    PROVE  ArchiveInv(s)'
<1>1. Alone(r) /\ TouchesOwn(r)
  BY StepIsAlone, StepTouches
<1>2. /\ run'[s] = run[s] /\ part'[s] = part[s] /\ staging'[s] = staging[s]
  BY <1>1 DEF Alone
<1>3. Archive(s)' = Archive(s) /\ Archive(s) \in (Runs \cup {Retained}) \ {r}
  BY <1>2, UpdateAssumption DEF Archive
<1>4. zip'[Archive(s)] = zip[Archive(s)] \/ zip'[Archive(s)] \in OfferedArchives
  <2>1. CASE Archive(s) # Archive(r)
    BY <1>1, <1>3, <2>1 DEF TouchesOwn
  <2>2. CASE Archive(s) = Archive(r)
    <3>1. Archive(s) = Retained /\ Archive(r) = Retained /\ Retained # r
      BY <1>3, <2>2, UpdateAssumption DEF Archive
    <3>2. CASE FinishDownload(r)
      <4>1. zip'[Retained] = part[r] /\ part[r] \in OfferedArchives
        BY <3>1, <3>2 DEF FinishDownload, ArchiveInv, TypeOK, FilesOK
      <4> QED BY <3>1, <4>1
    <3>3. CASE ~FinishDownload(r)
      <4>1. zip'[Retained] = zip[Retained]
        BY <3>1, <3>3 DEF TypeOK, FilesOK, Download, Install, End, ParseArguments,
           PrepareArchive, PrepareFails, StartDownload, DownloadFails, DownloadUndeleted,
           FetchFeed, FetchFails, HashArchive, MakeStaging, MakeStagingFails,
           ExtractArchive, ValidateFiles, JudgeCandidate, SwapInstalls, SwapFails,
           RemoveStaging, StagingUndeleted, CleanUp, CleanUpFails, Kill, Interrupt, disk
      <4> QED BY <3>1, <4>1
    <3> QED BY <3>2, <3>3
  <2> QED BY <2>1, <2>2
<1> QED BY <1>2, <1>3, <1>4 DEF ArchiveInv

\* No run has downloaded anything at first.
LEMMA ArchiveStart == Init => ArchiveIInv
BY DEF Init, ArchiveIInv, ArchiveInv, Staged

\* A staging directory is extracted from one archive, under the limits, or is absent.
LEMMA ArchiveStep == UpdateIInv /\ ArchiveIInv /\ [Next]_vars => ArchiveIInv'
<1> SUFFICES ASSUME UpdateIInv, ArchiveIInv, [Next]_vars PROVE ArchiveIInv'
  OBVIOUS
<1>1. CASE UNCHANGED <<zip, part, staging, installed, run>>
  BY <1>1 DEF ArchiveIInv, ArchiveInv, Archive
<1>2. ASSUME NEW r \in Runs, Download(r) \/ Install(r) \/ End(r) PROVE ArchiveIInv'
  <2>1. TypeOK /\ \A s \in Runs : ArchiveInv(s)
    BY DEF UpdateIInv, ArchiveIInv
  <2>2. ArchiveInv(r)'
    BY <1>2, <2>1, StepArchive
  <2>3. ASSUME NEW s \in Runs \ {r} PROVE ArchiveInv(s)'
    BY <1>2, <2>1, OthersKeepArchives
  <2> QED BY <2>2, <2>3 DEF ArchiveIInv
<1> QED BY <1>1, <1>2 DEF Next, UpstreamChanges, vars, disk

\* A run never unpacks a missing or a half-written archive, even where another run
\* replaces the one that both keep (static_gtfs.py: download_archive replaces the
\* destination at once, when it is complete).
THEOREM ArchiveInvariant == Spec => []ArchiveIInv
BY ArchiveStart, UpdateInvariant, ArchiveStep, PTL DEF Spec

\* Every extraction, complete or not, stays within the limits on single files and on all
\* of them, whatever the archive declares; a complete one has every file of the archive at
\* its declared size (static_gtfs.py: _extract_safely).
THEOREM ExtractionsTheorem == Spec => []ExtractionsAreBounded
<1>1. UpdateIInv /\ ArchiveIInv => ExtractionsAreBounded
  <2> SUFFICES ASSUME ArchiveIInv, NEW r \in Runs, At(r, "extracting")
               PROVE  ExtractionIsBounded(staging[r])
    BY DEF ExtractionsAreBounded
  <2>1. staging[r] \in OfferedArchives
    BY DEF ArchiveIInv, ArchiveInv, At, Staged
  <2>2. PICK offer \in Offers : staging[r] = offer.archive
    BY <2>1 DEF OfferedArchives
  <2>3. /\ offer.archive.members \in Seq(ToSet(offer.archive.members))
        /\ \A m \in ToSet(offer.archive.members) : m.actual \in Nat
    BY UpdateAssumption
  <2> QED BY <2>2, <2>3, ExtractIsBounded
<1> QED BY <1>1, UpdateInvariant, ArchiveInvariant, PTL

=============================================================================
