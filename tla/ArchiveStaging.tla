--------------------------- MODULE ArchiveStaging ---------------------------
(***************************************************************************)
(* What becomes of a downloaded archive in its staging directory           *)
(* (src/bvg_radar/static_gtfs.py: _extract_safely,                         *)
(* _validate_required_headers, _calendar_range, validate_static_gtfs_paths).*)
(*                                                                         *)
(* An archive is a record: whether its directory can be read (zip), its    *)
(* members in order, and what its CSV files say.  A member has a path      *)
(* (a sequence of names), a kind, its declared, compressed and actual      *)
(* sizes, and the content it unpacks to.                                   *)
(***************************************************************************)
EXTENDS Integers, FiniteSets, Sequences, SequencesExt

CONSTANTS
    MaxMembers,           \* max_zip_members
    MaxMemberBytes,       \* max_member_uncompressed_bytes
    MaxTotalBytes,        \* max_total_uncompressed_bytes
    MaxRatio,             \* max_compression_ratio
    Required,             \* EXPECTED_HEADERS: the files a feed must have
    NoDate,               \* a missing or malformed date
    Unreadable            \* no calendar date range

ASSUME LimitsAssumption ==
    {MaxMembers, MaxMemberBytes, MaxTotalBytes, MaxRatio} \subseteq Nat

\* Path.is_relative_to, and the overlap that validate_static_gtfs_paths refuses:
\* one of the output and another path within the other, or two other paths equal.
Within(path, root) == IsPrefix(root, path)
PathsOverlap(output, others) ==
    \/ \E i \in DOMAIN others : Within(others[i], output) \/ Within(output, others[i])
    \/ \E i, j \in DOMAIN others : i # j /\ others[i] = others[j]

-----------------------------------------------------------------------------

Larger(a, b) == IF a >= b THEN a ELSE b
SumOver(members, size) ==
    FoldLeft(LAMBDA sum, member : sum + member[size], 0, members)
FilesOf(members) == SelectSeq(members, LAMBDA member : member.kind # "directory")

\* _extract_safely, before anything is written.  The first problem found is the
\* one that is reported; all of them refuse the archive.
DeclarationRefused(members) ==
    \/ Len(members) > MaxMembers
    \/ SumOver(FilesOf(members), "declared") > MaxTotalBytes
    \/ \E i \in DOMAIN members :
          \/ members[i].declared > MaxMemberBytes
          \/ members[i].declared > MaxRatio * Larger(members[i].packed, 1)
          \/ members[i].kind \in {"outside", "link", "encrypted"}
          \/ \E j \in DOMAIN members : j # i /\ members[j].path = members[i].path

NothingStaged == [outcome |-> "ok", total |-> 0, files |-> {}, directories |-> {<<>>}]

\* The directories that mkdir(parents=True) makes for a path.
Parents(path) == {SubSeq(path, 1, n) : n \in 0 .. Len(path) - 1}

PathsIn(staged) == {f.path : f \in staged.files}

\* mkdir or open raises: a directory of the path is a file, or the path is one.
Unwritable(staged, member) ==
    \/ Parents(member.path) \cap PathsIn(staged) # {}
    \/ member.kind # "directory" /\ member.path \in staged.directories

\* Mutant: the sizes that a member declares are believed.
Unpack_TrustsDeclaration(staged, member) ==
    LET made == staged.directories \cup Parents(member.path)
    IN  IF staged.outcome # "ok" THEN staged
        ELSE IF Unwritable(staged, member) THEN [staged EXCEPT !.outcome = "error"]
        ELSE IF member.kind = "directory"
        THEN [staged EXCEPT !.directories = made \cup {member.path}]
        ELSE [staged EXCEPT !.total = @ + member.actual, !.directories = made,
                 !.files = @ \cup {[path |-> member.path, size |-> member.actual]}]

\* One turn of the loop that writes.  A file that is refused is removed; those
\* before it stay until the staging directory goes.  Data that does not
\* decompress raises zlib.error, which nobody handles.
Unpack(staged, member) ==
    LET made == staged.directories \cup Parents(member.path)
        total == staged.total + member.actual
    IN  IF staged.outcome # "ok" THEN staged
        ELSE IF Unwritable(staged, member) THEN [staged EXCEPT !.outcome = "error"]
        ELSE IF member.kind = "directory"
        THEN [staged EXCEPT !.directories = made \cup {member.path}]
        ELSE IF member.kind = "garbled" THEN [staged EXCEPT !.outcome = "escape"]
        ELSE IF \/ member.actual > MaxMemberBytes
                \/ total > MaxTotalBytes
                \/ member.actual # member.declared
        THEN [staged EXCEPT !.outcome = "error"]
        ELSE [staged EXCEPT !.total = total, !.directories = made,
                 !.files = @ \cup {[path |-> member.path, size |-> member.actual]}]

Extract(archive) ==
    IF archive.zip = "unreadable" \/ DeclarationRefused(archive.members)
    THEN [NothingStaged EXCEPT !.outcome = "error"]
    ELSE LET staged[n \in 0 .. Len(archive.members)] ==
                 IF n = 0 THEN NothingStaged ELSE Unpack(staged[n - 1], archive.members[n])
         IN  staged[Len(archive.members)]

\* _validate_required_headers: every required file is there and its first row
\* is the expected one; an empty or unreadable file has none.
HeadersRefused(archive, staged) ==
    \E file \in Required :
        <<file>> \notin PathsIn(staged) \/ archive.headers[file] # "expected"

\* _calendar_range: the first and last of all dates in calendar.txt.
CalendarRange(archive, staged) ==
    LET dates == UNION {{row.start, row.end} : row \in ToSet(archive.calendar)}
    IN  IF <<"calendar.txt">> \notin PathsIn(staged) \/ dates = {} \/ NoDate \in dates
        THEN Unreadable
        ELSE <<Min(dates), Max(dates)>>

-----------------------------------------------------------------------------

\* The bytes of files, each at its place in its file.
Bytes(files) == UNION {{f} \X (1 .. f.size) : f \in files}

\* What an extraction leaves on the disk is within the limits, whatever the
\* archive declares; a complete one leaves every file of the archive, at the
\* size declared for it.
ExtractionIsBounded(archive) ==
    LET staged == Extract(archive)
    IN  /\ Cardinality(Bytes(staged.files)) <= MaxTotalBytes
        /\ \A f \in staged.files : f.size <= MaxMemberBytes
        /\ staged.outcome = "ok" =>
              staged.files = {[path |-> m.path, size |-> m.declared] :
                                m \in {m \in ToSet(archive.members) : m.kind # "directory"}}
=============================================================================
