---------------------------- MODULE StaticUpdate ----------------------------
(***************************************************************************)
(* Runs of the static GTFS updater (src/bvg_radar/static_gtfs_cli.py:      *)
(* cli_main; static_gtfs.py: update_static_gtfs, download_archive,         *)
(* install_static_gtfs_archive) that share a destination: download, fetch  *)
(* of the live feed, hash, extraction, validation, gate, swap, clean-up    *)
(* and exit code, with an error or a kill at every step.                   *)
(*                                                                         *)
(* The swap is one step that installs, or fails and installs or does not:  *)
(* StaticSwap shows that this is what it amounts to.  An archive stands    *)
(* for its bytes and for their SHA-256.  Retained names the archive path   *)
(* of the runs with --keep-archive; every other run has one of its own.    *)
(***************************************************************************)
EXTENDS ArchiveStaging, CompatibilityGate

CONSTANTS
    Runs,         \* processes of the updater
    Scenarios,    \* what the servers offer, one after the other, and the command
                  \* line of each run: [offers, invocation]
    Retained,     \* the retained archive's path
    NoFile,       \* nothing at a path
    EmptyFile,    \* what mkstemp makes
    MaxKills      \* bound on the processes that are killed

Offers == UNION {ToSet(scenario.offers) : scenario \in Scenarios}

\* An offer is [archive, feed], a command line [output, manifest, keep, policy].
ASSUME UpdateAssumption ==
    /\ Retained \notin Runs
    /\ NoFile \notin Runs
    /\ NoFile # EmptyFile
    /\ \A scenario \in Scenarios :
          /\ scenario.offers # <<>>
          /\ scenario.offers \in Seq(ToSet(scenario.offers))
    /\ \A offer \in Offers :
          /\ offer.archive \notin {NoFile, EmptyFile}
          /\ offer.archive.members \in Seq(ToSet(offer.archive.members))
          /\ \A m \in ToSet(offer.archive.members) : m.actual \in Nat
          /\ offer.feed.timestamp \in Nat \cup {NoTime}
          /\ offer.feed.entities \in Seq(ToSet(offer.feed.entities))
    /\ MaxKills \in Nat

VARIABLES
    offers,    \* what the servers offer now, and next
    kills,     \* how many processes were killed
    zip,       \* the file at each archive path
    part,      \* the partial download of each run, if any
    staging,   \* the archive whose members are in each run's staging directory
    installed, \* the installed snapshot, and what its manifest says
    run        \* the local state of each run

disk == <<zip, part, staging, installed>>
vars == <<offers, kills, disk, run>>

NoManifest == [files |-> NoFile, sha |-> NoFile, feed |-> NoFile, by |-> NoFile]

Init ==
    /\ kills = 0
    /\ zip = [path \in Runs \cup {Retained} |-> NoFile]
    /\ part = [r \in Runs |-> NoFile]
    /\ staging = [r \in Runs |-> NoFile]
    /\ installed = NoManifest
    /\ \E scenario \in Scenarios :
         /\ offers = scenario.offers
         /\ run = [r \in Runs |->
               [pc |-> "parsing", invocation |-> scenario.invocation[r],
                downloaded |-> NoFile, feed |-> NoFile, verified |-> NoFile,
                problem |-> "none", undeleted |-> {}, exit |-> "none"]]

offered == Head(offers)

\* The providers publish another archive or another feed.
UpstreamChanges ==
    /\ Len(offers) > 1
    /\ offers' = Tail(offers)
    /\ UNCHANGED <<kills, disk, run>>

-----------------------------------------------------------------------------

At(r, label) == run[r].pc = label
Proceed(r, label) == run' = [run EXCEPT ![r].pc = label]
Fail(r, kind, label) == run' = [run EXCEPT ![r].pc = label, ![r].problem = kind]
World == UNCHANGED <<offers, kills>>

\* Mutant: every run downloads to the retained path.
Archive_Shared(r) == Retained

Archive(r) == IF run[r].invocation.keep THEN Retained ELSE r

\* The directory of the output, and the archive that --keep-archive keeps in it.
Parent(path) == SubSeq(path, 1, Len(path) - 1)
RetainedPath(invocation) == Append(Parent(invocation.output), "gtfs.zip")
NamedPaths(invocation) ==
    IF invocation.keep
    THEN <<invocation.manifest, RetainedPath(invocation)>>
    ELSE <<invocation.manifest>>

\* parser.error exits with status 2 before anything is touched; so do paths
\* that overlap, but through the error path of cli_main.
ParseArguments(r) ==
    /\ At(r, "parsing")
    /\ IF run[r].invocation.policy = "invalid"
       THEN run' = [run EXCEPT ![r].pc = "ended", ![r].exit = "2"]
       ELSE IF PathsOverlap(run[r].invocation.output, NamedPaths(run[r].invocation))
       THEN Fail(r, "error", "cleaning")
       ELSE Proceed(r, "preparing")
    /\ World /\ UNCHANGED disk

\* The parent directories, and mkstemp unless the archive is kept.
PrepareArchive(r) ==
    /\ At(r, "preparing")
    /\ zip' = IF run[r].invocation.keep THEN zip ELSE [zip EXCEPT ![r] = EmptyFile]
    /\ Proceed(r, "downloading")
    /\ World /\ UNCHANGED <<part, staging, installed>>

PrepareFails(r) ==
    /\ At(r, "preparing")
    /\ Fail(r, "error", "cleaning")
    /\ World /\ UNCHANGED disk

\* download_archive: HTTP 200, and a temporary file next to the destination.
StartDownload(r) ==
    /\ At(r, "downloading")
    /\ part[r] = NoFile
    /\ part' = [part EXCEPT ![r] = offered.archive]
    /\ World /\ UNCHANGED <<zip, staging, installed, run>>

\* All chunks came: the temporary file replaces the destination.
FinishDownload(r) ==
    /\ At(r, "downloading")
    /\ part[r] # NoFile
    /\ zip' = [zip EXCEPT ![Archive(r)] = part[r]]
    /\ part' = [part EXCEPT ![r] = NoFile]
    /\ run' = [run EXCEPT ![r].pc = "fetching", ![r].downloaded = part[r]]
    /\ World /\ UNCHANGED <<staging, installed>>

\* Mutant: the temporary file stays when a chunk fails.
DownloadFails_LeavesPart(r) ==
    /\ At(r, "downloading")
    /\ Fail(r, "error", "cleaning")
    /\ World /\ UNCHANGED disk

\* Another status, a lost connection, a time-out, too much or nothing: the
\* finally clause removes the temporary file.
DownloadFails(r) ==
    /\ At(r, "downloading")
    /\ Fail(r, "error", "cleaning")
    /\ part' = [part EXCEPT ![r] = NoFile]
    /\ World /\ UNCHANGED <<zip, staging, installed>>

\* The removal itself raises.
DownloadUndeleted(r) ==
    /\ At(r, "downloading")
    /\ part[r] # NoFile
    /\ run' = [run EXCEPT ![r].pc = "cleaning", ![r].problem = "error",
                          ![r].undeleted = @ \cup {"part"}]
    /\ World /\ UNCHANGED disk

\* fetch_gtfs_realtime_payload and decode_gtfs_realtime_feed.
FetchFeed(r) ==
    /\ At(r, "fetching")
    /\ run' = [run EXCEPT ![r].pc = "hashing", ![r].feed = offered.feed]
    /\ World /\ UNCHANGED disk

\* Another status or media type, too much, nothing, no protobuf.
FetchFails(r) ==
    /\ At(r, "fetching")
    /\ Fail(r, "error", "cleaning")
    /\ World /\ UNCHANGED disk

-----------------------------------------------------------------------------
(* install_static_gtfs_archive                                             *)

HashArchive(r) ==
    /\ At(r, "hashing")
    /\ IF zip[Archive(r)] = run[r].downloaded
       THEN run' = [run EXCEPT ![r].pc = "staging", ![r].verified = zip[Archive(r)]]
       ELSE Fail(r, "error", "cleaning")
    /\ World /\ UNCHANGED disk

\* mkdtemp, and what ZipFile finds at the archive's path when it opens it.
MakeStaging(r) ==
    /\ At(r, "staging")
    /\ staging' = [staging EXCEPT ![r] = zip[Archive(r)]]
    /\ Proceed(r, "extracting")
    /\ World /\ UNCHANGED <<zip, part, installed>>

MakeStagingFails(r) ==
    /\ At(r, "staging")
    /\ Fail(r, "error", "cleaning")
    /\ World /\ UNCHANGED disk

\* _extract_safely, which also fails when the disk does.
ExtractArchive(r) ==
    /\ At(r, "extracting")
    /\ \/ Extract(staging[r]).outcome = "ok" /\ Proceed(r, "validating")
       \/ \E kind \in {"error", "escape"} :
             Extract(staging[r]).outcome = kind /\ Fail(r, kind, "unstaging")
       \/ Fail(r, "error", "unstaging")
    /\ World /\ UNCHANGED disk

Calendar(archive) == CalendarRange(archive, Extract(archive))
Verdict(feed, archive) == Judge(feed, archive.trips, Calendar(archive))

ValidateFiles(r) ==
    /\ At(r, "validating")
    /\ IF \/ HeadersRefused(staging[r], Extract(staging[r]))
          \/ Calendar(staging[r]) = Unreadable
       THEN Fail(r, "error", "unstaging")
       ELSE Proceed(r, "judging")
    /\ World /\ UNCHANGED disk

\* validate_staged_candidate, and the manifest it is evidence for.
JudgeCandidate(r) ==
    /\ At(r, "judging")
    /\ IF Verdict(run[r].feed, staging[r]) = "compatible"
       THEN Proceed(r, "swapping")
       ELSE Fail(r, Verdict(run[r].feed, staging[r]), "unstaging")
    /\ World /\ UNCHANGED disk

\* The swap installs the staged files with a manifest about them; its clean-up
\* may still fail.
SwapInstalls(r) ==
    /\ At(r, "swapping")
    /\ installed' = [files |-> staging[r], sha |-> run[r].verified,
                     feed |-> run[r].feed, by |-> r]
    /\ staging' = [staging EXCEPT ![r] = NoFile]
    /\ \E kind \in {"none", "error"} : Fail(r, kind, "unstaging")
    /\ World /\ UNCHANGED <<zip, part>>

\* Another run holds the lock, or a rename failed and was rolled back, which
\* removes the staged files when they were promoted already.
SwapFails(r) ==
    /\ At(r, "swapping")
    /\ \E files \in {staging[r], NoFile} : staging' = [staging EXCEPT ![r] = files]
    /\ Fail(r, "error", "unstaging")
    /\ World /\ UNCHANGED <<zip, part, installed>>

\* The finally clause: shutil.rmtree if the directory is still there.
RemoveStaging(r) ==
    /\ At(r, "unstaging")
    /\ staging' = [staging EXCEPT ![r] = NoFile]
    /\ Proceed(r, "cleaning")
    /\ World /\ UNCHANGED <<zip, part, installed>>

\* rmtree raises: its OSError replaces whatever was being raised.
StagingUndeleted(r) ==
    /\ At(r, "unstaging")
    /\ staging[r] # NoFile
    /\ run' = [run EXCEPT ![r].pc = "cleaning", ![r].problem = "error",
                          ![r].undeleted = @ \cup {"staging"}]
    /\ World /\ UNCHANGED disk

-----------------------------------------------------------------------------
(* The end of cli_main                                                     *)

\* Ctrl-C: asyncio.run cancels the update, which loses what it has returned or
\* raised, and raises a KeyboardInterrupt that nobody catches.
Interrupt(r) ==
    /\ At(r, "cleaning")
    /\ Fail(r, "interrupt", "cleaning")
    /\ World /\ UNCHANGED disk

\* Mutant: an operational error exits like an incompatible candidate.
ExitCode_OneForErrors(problem) ==
    CASE problem = "none" -> "0"
      [] problem \in {"incompatible", "error", "escape"} -> "1"
      [] problem = "interrupt" -> "interrupted"

\* The exit status by what was raised.  What cli_main does not catch is not
\* reported by it: Python exits with 1 for an exception, and is ended by SIGINT
\* for an interrupt.
ExitCode(problem) ==
    CASE problem = "none" -> "0"
      [] problem \in {"incompatible", "escape"} -> "1"
      [] problem = "error" -> "2"
      [] problem = "interrupt" -> "interrupted"

CleanUp(r) ==
    /\ At(r, "cleaning")
    /\ zip' = [zip EXCEPT ![r] = NoFile]
    /\ run' = [run EXCEPT ![r].pc = "ended", ![r].exit = ExitCode(run[r].problem)]
    /\ World /\ UNCHANGED <<part, staging, installed>>

\* The temporary archive cannot be removed: an operational error, whatever the
\* run has done, unless something that cli_main does not catch is under way.
CleanUpFails(r) ==
    /\ At(r, "cleaning")
    /\ zip[r] # NoFile
    /\ run' = [run EXCEPT ![r].pc = "ended", ![r].undeleted = @ \cup {"zip"},
                          ![r].exit = IF run[r].problem \in {"escape", "interrupt"}
                                      THEN ExitCode(run[r].problem)
                                      ELSE ExitCode("error")]
    /\ World /\ UNCHANGED disk

\* The process dies: nothing is cleaned up.
Kill(r) ==
    /\ run[r].pc # "ended"
    /\ kills < MaxKills
    /\ kills' = kills + 1
    /\ run' = [run EXCEPT ![r].pc = "ended", ![r].exit = "killed"]
    /\ UNCHANGED <<offers, disk>>

Download(r) ==
    \/ ParseArguments(r) \/ PrepareArchive(r) \/ PrepareFails(r)
    \/ StartDownload(r) \/ FinishDownload(r) \/ DownloadFails(r) \/ DownloadUndeleted(r)
    \/ FetchFeed(r) \/ FetchFails(r)

Install(r) ==
    \/ HashArchive(r) \/ MakeStaging(r) \/ MakeStagingFails(r) \/ ExtractArchive(r)
    \/ ValidateFiles(r) \/ JudgeCandidate(r) \/ SwapInstalls(r) \/ SwapFails(r)
    \/ RemoveStaging(r) \/ StagingUndeleted(r)

End(r) == Interrupt(r) \/ CleanUp(r) \/ CleanUpFails(r) \/ Kill(r)

Next == UpstreamChanges \/ \E r \in Runs : Download(r) \/ Install(r) \/ End(r)

Spec == Init /\ [][Next]_vars

-----------------------------------------------------------------------------
(* Properties                                                              *)

Ended(r) == run[r].pc = "ended" /\ run[r].exit # "killed"

\* However a run ends, short of being killed, it leaves no partial download, no
\* temporary archive and no staging directory, unless their removal raised.
NothingLeftBehind ==
    \A r \in Runs : Ended(r) =>
        /\ part[r] # NoFile => "part" \in run[r].undeleted
        /\ staging[r] # NoFile => "staging" \in run[r].undeleted
        /\ zip[r] # NoFile => "zip" \in run[r].undeleted

\* An exception that cli_main does not catch ends the run: the archive has a member
\* that does not decompress, or the feed a timestamp beyond datetime's range.
Escapes(feed, archive) == "escape" \in {Extract(archive).outcome, Verdict(feed, archive)}

\* What the exit status tells: 0 that the run installed a compatible archive
\* (which a later run may have replaced) and left nothing behind; 1 that it
\* installed nothing, and either the gate found its archive incompatible or an
\* exception escaped, which the status does not tell apart (README.md:284-286
\* documents the first only); 2 does not hide an installation unless a removal
\* failed or the swap raised after it.
ExitCodeIsTruthful ==
    \A r \in Runs : Ended(r) =>
        /\ run[r].exit = "0" =>
              /\ installed.by \in Runs
              /\ Verdict(run[r].feed, run[r].verified) = "compatible"
              /\ run[r].undeleted = {}
        /\ run[r].exit = "1" =>
              /\ installed.by # r
              /\ run[r].verified # NoFile
              /\ \/ /\ Verdict(run[r].feed, run[r].verified) = "incompatible"
                    /\ run[r].undeleted = {}
                 \/ Escapes(run[r].feed, run[r].verified)
        /\ run[r].exit = "2" /\ run[r].problem # "error" /\ installed.by = r =>
              "zip" \in run[r].undeleted

\* The installed snapshot was extracted whole, has the expected files, and is
\* what the documentation promises, by the very feed in its manifest; the
\* standalone checker calls it compatible with that feed.
InstalledIsRepresentative ==
    installed.by # NoFile =>
        LET archive == installed.files
        IN  /\ Extract(archive).outcome = "ok"
            /\ ~HeadersRefused(archive, Extract(archive))
            /\ Representative(installed.feed, TripRoutes(archive.trips), Calendar(archive))
            /\ CheckerExit(installed.feed, archive.trips) = 0

\* The manifest names the archive that the installed files come from
\* (docs/local-environment.md: the SHA-256 of the ZIP at the point of
\* installation).
ManifestNamesItsArchive == installed.sha = installed.files

\* Every report the gate decides on is exact in what it decides by: the trips
\* scheduled, matched and unmatched and the verdicts on their routes.  The counters
\* of cancelled and of exempt updates, which decide nothing, are not looked at.
ReportsAreExact ==
    \A r \in Runs : At(r, "judging") =>
        LET static == TripRoutes(staging[r].trips)
        IN  static # Unusable => ReportIsExact(run[r].feed, static)

\* Every extraction, complete or not, stays within the limits.
ExtractionsAreBounded ==
    \A r \in Runs : At(r, "extracting") => ExtractionIsBounded(staging[r])

-----------------------------------------------------------------------------
(* Types                                                                   *)

Started == {"parsing", "preparing", "downloading", "fetching", "hashing", "staging"}
Staged == {"extracting", "validating", "judging", "swapping"}
Ending == {"unstaging", "cleaning"}

Labels == Started \cup Staged \cup Ending \cup {"ended"}
Problems == {"none", "incompatible", "error", "escape", "interrupt"}
Exits == {"none", "0", "1", "2", "interrupted", "killed"}
OfferedFeeds == {offer.feed : offer \in Offers}
OfferedArchives == {offer.archive : offer \in Offers}
Contents == OfferedArchives \cup {NoFile, EmptyFile}
Invocations == {scenario.invocation[r] : scenario \in Scenarios, r \in Runs}
RunStates ==
    [pc : Labels, invocation : Invocations, downloaded : Contents,
     feed : OfferedFeeds \cup {NoFile}, verified : Contents, problem : Problems,
     undeleted : SUBSET {"part", "staging", "zip"}, exit : Exits]

FilesOK ==
    /\ zip \in [Runs \cup {Retained} -> Contents]
    /\ part \in [Runs -> Contents]
    /\ staging \in [Runs -> Contents]
    /\ installed \in [files : Contents, sha : Contents, feed : OfferedFeeds \cup {NoFile},
                      by : Runs \cup {NoFile}]

\* What the runs, their files and the destination are.
TypeOK ==
    /\ offers \in Seq(Offers) /\ offers # <<>>
    /\ kills \in Nat
    /\ FilesOK
    /\ run \in [Runs -> RunStates]
=============================================================================
