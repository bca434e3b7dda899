-------------------------- MODULE IngestionWorker --------------------------
(***************************************************************************)
(* TripUpdateIngestionWorker (src/bvg_radar/realtime/worker.py) over       *)
(* AiohttpGtfsRealtimeSource (source.py): a poll either retries the one    *)
(* unacknowledged cycle or fetches the feed with the ETag of the last      *)
(* accepted response, estimates the positions, publishes one snapshot and  *)
(* records its analytics.  A step is the code between two awaits.          *)
(*                                                                         *)
(* The upstream feed is a sequence of numbered versions, each with a kind  *)
(* of content.  A cycle is an accepted response: its number, the version   *)
(* it carries, and the observed_at (and limit) of the poll that fetched it.*)
(* The cycle_id the code derives from feed timestamp and observed_at is    *)
(* the pair <<version, observed_at>>.                                      *)
(***************************************************************************)
EXTENDS Naturals, Sequences

CONSTANTS
    MaxFeed,      \* bound on the versions of the upstream feed
    MaxPolls,     \* polls after which the clock of the model stands still
    MaxExtra,     \* number of accepted cycles after which the upstream sends
                  \* an ETag every time and honours If-None-Match
    MaxRestarts   \* bound on the restarts of the server process

ASSUME BoundsAssumption ==
    /\ MaxFeed \in Nat \ {0}
    /\ MaxPolls \in Nat
    /\ MaxExtra \in Nat
    /\ MaxRestarts \in Nat

VARIABLES
    content,         \* what each version of the feed contains
    feed,            \* the version the upstream serves now
    etag,            \* version whose ETag the source holds, 0 for None
    pending,         \* _pending_cycle, or NoCycle
    pc,              \* what run_forever awaits
    now,             \* observed_at of the current poll
    accepted,        \* number of accepted responses
    restarts,        \* number of restarts
    last_published,  \* the cycle published last by this process, or NoCycle
    published,       \* cycles this process has published
    rejected,        \* cycles this process has discarded
    recorded         \* cycles this process has written to the analytics tables

vars == <<content, feed, etag, pending, pc, now, accepted, restarts,
          last_published, published, rejected, recorded>>

Versions == 1 .. MaxFeed

\* "empty" has no trip to estimate; "unobserved" yields positions without an
\* observed delay, so no analytics row; "malformed" cannot be decoded or
\* normalised; "rejected" yields estimates that break the snapshot contract.
Contents == {"empty", "unobserved", "delays", "malformed", "rejected"}

NoCycle == [number |-> 0, version |-> 0, observed_at |-> 0]
Cycles == [number : Nat, version : 0 .. MaxFeed, observed_at : Nat]

Init ==
    /\ content \in [Versions -> Contents]
    /\ feed = 1
    /\ etag = 0
    /\ pending = NoCycle
    /\ pc = "sleeping"
    /\ now = 0
    /\ accepted = 0
    /\ restarts = 0
    /\ last_published = NoCycle
    /\ published = {}
    /\ rejected = {}
    /\ recorded = <<>>

-----------------------------------------------------------------------------

\* The upstream publishes its next version.
FeedAdvances ==
    /\ feed < MaxFeed
    /\ feed' = feed + 1
    /\ UNCHANGED <<content, etag, pending, pc, now, accepted, restarts,
                   last_published, published, rejected, recorded>>

\* Where run_once goes with a cycle in hand: the estimator is not called when
\* no update matches the static schedule.
Proceed(cycle) ==
    IF content[cycle.version] = "empty" THEN "publishing" ELSE "estimating"

Tick == IF now < MaxPolls THEN now + 1 ELSE now

\* Mutant: a retry stamps the cycle with the time of the retry.
Poll_RestampsRetry ==
    /\ pc = "sleeping"
    /\ now' = Tick
    /\ IF pending = NoCycle
         THEN /\ pc' = "fetching"
              /\ UNCHANGED pending
         ELSE /\ pc' = Proceed(pending)
              /\ pending' = [pending EXCEPT !.observed_at = Tick]
    /\ UNCHANGED <<content, feed, etag, accepted, restarts,
                   last_published, published, rejected, recorded>>

\* The cadence starts a poll: it retries the pending cycle, or fetches.
Poll ==
    /\ pc = "sleeping"
    /\ now' = Tick
    /\ pc' = IF pending = NoCycle THEN "fetching" ELSE Proceed(pending)
    /\ UNCHANGED <<content, feed, etag, pending, accepted, restarts,
                   last_published, published, rejected, recorded>>

\* HTTP 304.
FetchNotModified ==
    /\ pc = "fetching"
    /\ etag = feed
    /\ pc' = "sleeping"
    /\ UNCHANGED <<content, feed, etag, pending, now, accepted, restarts,
                   last_published, published, rejected, recorded>>

\* Mutant: the ETag is kept before the payload is decoded.
FetchFails_KeepsETag ==
    /\ pc = "fetching"
    /\ pc' = "sleeping"
    /\ etag' \in {etag, feed}
    /\ UNCHANGED <<content, feed, pending, now, accepted, restarts,
                   last_published, published, rejected, recorded>>

\* The request fails, or its payload is refused (status, media type, size,
\* Protobuf, incrementality, timestamps): nothing is kept of it.
FetchFails ==
    /\ pc = "fetching"
    /\ pc' = "sleeping"
    /\ UNCHANGED <<content, feed, etag, pending, now, accepted, restarts,
                   last_published, published, rejected, recorded>>

\* HTTP 200 with a valid payload, which an upstream that ignores
\* If-None-Match may also send for the version it sent before: the source
\* keeps the response's ETag, or forgets the old one if the response has none,
\* and without a suspension the worker makes the snapshot its pending cycle.
FetchUpdated(tagged) ==
    LET cycle == [number |-> accepted + 1, version |-> feed, observed_at |-> now]
    IN  /\ pc = "fetching"
        /\ content[feed] # "malformed"
        /\ (tagged /\ etag # feed) \/ accepted < MaxExtra
        /\ etag' = IF tagged THEN feed ELSE 0
        /\ accepted' = accepted + 1
        /\ pending' = cycle
        /\ pc' = Proceed(cycle)
        /\ UNCHANGED <<content, feed, now, restarts, last_published, published,
                       rejected, recorded>>

\* estimate_many returns: the snapshot is built and serialised, or its
\* contract rejects it, which discards the cycle.
EstimateReturns ==
    /\ pc = "estimating"
    /\ IF content[pending.version] = "rejected"
         THEN /\ pending' = NoCycle
              /\ rejected' = rejected \cup {pending}
              /\ pc' = "sleeping"
         ELSE /\ pc' = "publishing"
              /\ UNCHANGED <<pending, rejected>>
    /\ UNCHANGED <<content, feed, etag, now, accepted, restarts,
                   last_published, published, recorded>>

\* Mutant: a failing estimator costs the cycle.
EstimateFails_DropsCycle ==
    /\ pc = "estimating"
    /\ pc' = "sleeping"
    /\ pending' = NoCycle
    /\ UNCHANGED <<content, feed, etag, now, accepted, restarts,
                   last_published, published, rejected, recorded>>

\* estimate_many raises, or a serialiser port does: the cycle stays pending.
EstimateFails ==
    /\ pc = "estimating"
    /\ pc' = "sleeping"
    /\ UNCHANGED <<content, feed, etag, pending, now, accepted, restarts,
                   last_published, published, rejected, recorded>>

Applied == /\ last_published' = pending
           /\ published' = published \cup {pending}

NotApplied == UNCHANGED <<last_published, published>>

\* publish() returns.  With rows to record the worker goes on to the
\* recorder; otherwise the cycle is acknowledged at once.
PublishReturns ==
    /\ pc = "publishing"
    /\ Applied
    /\ IF content[pending.version] = "delays"
         THEN /\ pc' = "recording"
              /\ UNCHANGED pending
         ELSE /\ pc' = "sleeping"
              /\ pending' = NoCycle
    /\ UNCHANGED <<content, feed, etag, now, accepted, restarts, rejected, recorded>>

\* Mutant: a failing publisher costs the cycle.
PublishFails_DropsCycle ==
    /\ pc = "publishing"
    /\ Applied \/ NotApplied
    /\ pc' = "sleeping"
    /\ pending' = NoCycle
    /\ UNCHANGED <<content, feed, etag, now, accepted, restarts,
                   rejected, recorded>>

\* publish() raises, having applied the snapshot or not.
PublishFails ==
    /\ pc = "publishing"
    /\ Applied \/ NotApplied
    /\ pc' = "sleeping"
    /\ UNCHANGED <<content, feed, etag, pending, now, accepted, restarts,
                   rejected, recorded>>

\* Mutant: a recorder that fails or times out keeps the cycle pending.
RecordEnds_RetriesFailure ==
    /\ pc = "recording"
    /\ recorded' \in {recorded, Append(recorded, pending)}
    /\ pending' \in {pending, NoCycle}
    /\ pc' = "sleeping"
    /\ UNCHANGED <<content, feed, etag, now, accepted, restarts,
                   last_published, published, rejected>>

\* The recorder returns, fails or times out - which the worker swallows -
\* having written the cycle or not; the cycle is acknowledged.
RecordEnds ==
    /\ pc = "recording"
    /\ recorded' \in {recorded, Append(recorded, pending)}
    /\ pending' = NoCycle
    /\ pc' = "sleeping"
    /\ UNCHANGED <<content, feed, etag, now, accepted, restarts,
                   last_published, published, rejected>>

\* The lifespan cancels the worker's task at whatever it awaits.
Cancel ==
    /\ pc # "stopped"
    /\ pc' = "stopped"
    /\ \/ NotApplied /\ UNCHANGED recorded
       \/ pc = "publishing" /\ Applied /\ UNCHANGED recorded
       \/ pc = "recording" /\ NotApplied /\ recorded' = Append(recorded, pending)
    /\ UNCHANGED <<content, feed, etag, pending, now, accepted, restarts, rejected>>

\* A new process starts with a new source, worker and hub.
Restart ==
    /\ pc = "stopped"
    /\ restarts < MaxRestarts
    /\ restarts' = restarts + 1
    /\ etag' = 0
    /\ pending' = NoCycle
    /\ pc' = "sleeping"
    /\ last_published' = NoCycle
    /\ published' = {}
    /\ rejected' = {}
    /\ recorded' = <<>>
    /\ UNCHANGED <<content, feed, now, accepted>>

-----------------------------------------------------------------------------

WorkerStep ==
    \/ Poll
    \/ FetchNotModified
    \/ FetchFails
    \/ FetchUpdated(TRUE)
    \/ FetchUpdated(FALSE)
    \/ EstimateReturns
    \/ EstimateFails
    \/ PublishReturns
    \/ PublishFails
    \/ RecordEnds

Next == FeedAdvances \/ WorkerStep \/ Cancel \/ Restart

Spec == Init /\ [][Next]_vars

\* The cadence keeps polling and every call ends (each port has a timeout);
\* a port that is tried again and again does not fail for ever, and a feed
\* whose responses are accepted again and again sends an ETag some day.
Fairness ==
    /\ WF_vars(WorkerStep)
    /\ SF_vars(FetchUpdated(TRUE))
    /\ SF_vars(EstimateReturns)
    /\ SF_vars(PublishReturns)

FairSpec == Spec /\ Fairness

-----------------------------------------------------------------------------
(* Properties                                                              *)

TypeOK ==
    /\ content \in [Versions -> Contents]
    /\ feed \in Versions
    /\ etag \in 0 .. MaxFeed
    /\ pending \in Cycles
    /\ pc \in {"sleeping", "fetching", "estimating", "publishing", "recording", "stopped"}
    /\ now \in 0 .. MaxPolls
    /\ accepted \in Nat
    /\ restarts \in 0 .. MaxRestarts
    /\ last_published \in Cycles
    /\ published \subseteq Cycles
    /\ rejected \subseteq Cycles
    /\ recorded \in Seq(Cycles)
    /\ pc = "fetching" => pending = NoCycle
    /\ pc \in {"estimating", "publishing", "recording"} => pending # NoCycle

\* A 304 never hides a version nobody saw: the version whose ETag the source
\* would send was published, or is pending, or its contract was rejected.
\* (An ETag stored for a response that is then lost would turn every further
\* poll into a 304 until the feed changes.)
ETagIsAccountedFor ==
    etag # 0 =>
        \E cycle \in published \cup rejected \cup {pending} : cycle.version = etag

\* The one pending cycle is never dropped or overwritten: it goes only when
\* it was published or rejected, or with its process.
PendingIsNeverDropped ==
    [][pending # NoCycle /\ pending' # pending =>
          pending \in published' \cup rejected' \/ pc = "stopped"]_vars

\* Snapshots are published in the order of their responses, and so in the
\* order of the feed's versions and of observed_at; a retry publishes the
\* very cycle that was fetched, with its original observed_at.
PublishesInOrder ==
    [][last_published' # last_published /\ last_published' # NoCycle =>
          /\ last_published.number < last_published'.number
          /\ last_published.version <= last_published'.version
          /\ last_published.observed_at <= last_published'.observed_at]_vars

\* Analytics count a cycle once, in order, and only after its snapshot was
\* published; the cycle is never published again afterwards.
RecordsOncePublished ==
    /\ \A i \in DOMAIN recorded :
         /\ recorded[i] \in published
         /\ \A j \in DOMAIN recorded : i < j => recorded[i].number < recorded[j].number
    /\ (recorded # <<>> /\ pc = "publishing") =>
         recorded[Len(recorded)].number < pending.number

\* The peers are eventually given the feed's last version, unless it is
\* unusable or the process stops for good.
LastVersionIsPublished ==
    (feed = MaxFeed /\ content[MaxFeed] \notin {"malformed", "rejected"}) ~>
        (\E cycle \in published : cycle.version = MaxFeed) \/ pc = "stopped"
=============================================================================
