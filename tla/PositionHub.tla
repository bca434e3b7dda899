---------------------------- MODULE PositionHub ----------------------------
(***************************************************************************)
(* PositionWebSocketHub (src/bvg_radar/realtime/websocket.py): retains the *)
(* latest complete position snapshot, replays it to a new WebSocket and    *)
(* fans every published snapshot out to the registered ones.               *)
(*                                                                         *)
(* The hub runs on one asyncio loop, so a step of this module is the code  *)
(* between two suspension points.  _connections_lock guards only sections  *)
(* that never suspend: it is never contended, and those sections are       *)
(* (parts of) single steps here.  asyncio.Lock is FIFO.                    *)
(*                                                                         *)
(* A snapshot is its publication number: the n-th call of publish() makes  *)
(* snapshot n, and 0 stands for None.  A WebSocket is accepted once, so a  *)
(* socket has one _ConnectionState and the test "still registered with     *)
(* this state" is membership in connections.  A timer may fire at any time *)
(* while its operation is pending, and a send that fails or times out may  *)
(* or may not have reached the peer.                                       *)
(***************************************************************************)
EXTENDS Naturals

CONSTANTS
    Sockets,        \* the WebSocketConnection objects
    MaxPublished    \* bound on the number of publish() calls

ASSUME MaxPublishedAssumption == MaxPublished \in Nat

VARIABLES
    published,        \* number of publish() calls made so far
    waiting,          \* snapshots whose publish() waits for _publish_lock
    publishing,       \* snapshot whose publish() holds _publish_lock, or 0
    latest_snapshot,  \* _latest_snapshot
    connections,      \* keys of _connections
    phase,            \* where connect(socket) stands
    replay,           \* the retained_snapshot that connect(socket) copied
    send_lock,        \* which coroutine holds the socket's send_lock
    outcome,          \* the socket's _send_registered task in the current gather
    seen,             \* last snapshot handed to the socket's peer
    cut               \* history: the last fan-out was cancelled half-way

hubVars == <<published, waiting, publishing, latest_snapshot, connections,
             phase, replay, send_lock, outcome, seen, cut>>

Snapshots == 1 .. MaxPublished

Phases == {"new", "accepting", "replaying", "replayed", "connected", "failed"}

\* "skipped" is the silent return of a task that found its socket removed.
Outcomes == {"none", "pending", "sending", "written", "sent", "skipped", "failed"}

Holders == {"free", "connect", "publish"}

Init ==
    /\ published = 0
    /\ waiting = {}
    /\ publishing = 0
    /\ latest_snapshot = 0
    /\ connections = {}
    /\ phase = [s \in Sockets |-> "new"]
    /\ replay = [s \in Sockets |-> 0]
    /\ send_lock = [s \in Sockets |-> "free"]
    /\ outcome = [s \in Sockets |-> "none"]
    /\ seen = [s \in Sockets |-> 0]
    /\ cut = FALSE

-----------------------------------------------------------------------------
(* connect(), disconnect(), wait_until_disconnected()                      *)

connectVars == <<connections, phase, replay, send_lock>>
publishVars == <<published, waiting, publishing, latest_snapshot, outcome, cut>>

\* connect() is called and waits in accept(), which has no timeout.
Connect(s) ==
    /\ phase[s] = "new"
    /\ phase' = [phase EXCEPT ![s] = "accepting"]
    /\ UNCHANGED <<connections, replay, send_lock, seen, publishVars>>

\* accept() raises, or connect() is cancelled in it: nothing is registered.
AcceptFails(s) ==
    /\ phase[s] = "accepting"
    /\ phase' = [phase EXCEPT ![s] = "failed"]
    /\ UNCHANGED <<connections, replay, send_lock, seen, publishVars>>

\* Mutant: connect() registers the socket without taking its send_lock.
Register_NoLock(s) ==
    /\ phase[s] = "accepting"
    /\ connections' = connections \cup {s}
    /\ replay' = [replay EXCEPT ![s] = latest_snapshot]
    /\ phase' = [phase EXCEPT ![s] = IF latest_snapshot = 0 THEN "connected" ELSE "replaying"]
    /\ UNCHANGED <<send_lock, seen, publishVars>>

\* Mutant: connect() leaves the replay to a publish() that is under way.
Register_NoReplay(s) ==
    /\ phase[s] = "accepting"
    /\ connections' = connections \cup {s}
    /\ replay' = [replay EXCEPT ![s] = latest_snapshot]
    /\ IF latest_snapshot = 0 \/ publishing # 0
         THEN /\ phase' = [phase EXCEPT ![s] = "connected"]
              /\ UNCHANGED send_lock
         ELSE /\ phase' = [phase EXCEPT ![s] = "replaying"]
              /\ send_lock' = [send_lock EXCEPT ![s] = "connect"]
    /\ UNCHANGED <<seen, publishVars>>

\* accept() returns.  Without a suspension the coroutine takes the new
\* send_lock, registers the socket and copies the retained snapshot.  With
\* nothing to replay it also runs to its end and releases the lock.
Register(s) ==
    /\ phase[s] = "accepting"
    /\ connections' = connections \cup {s}
    /\ replay' = [replay EXCEPT ![s] = latest_snapshot]
    /\ IF latest_snapshot = 0
         THEN /\ phase' = [phase EXCEPT ![s] = "connected"]
              /\ UNCHANGED send_lock
         ELSE /\ phase' = [phase EXCEPT ![s] = "replaying"]
              /\ send_lock' = [send_lock EXCEPT ![s] = "connect"]
    /\ UNCHANGED <<seen, publishVars>>

\* The replayed snapshot reaches the peer; send_json has not returned yet.
ReplayWrites(s) ==
    /\ phase[s] = "replaying"
    /\ phase' = [phase EXCEPT ![s] = "replayed"]
    /\ seen' = [seen EXCEPT ![s] = replay[s]]
    /\ UNCHANGED <<connections, replay, send_lock, publishVars>>

\* send_json returns: connect() succeeds if the socket is still registered,
\* and raises if it was evicted during the replay.
ReplayReturns(s) ==
    /\ phase[s] = "replayed"
    /\ phase' = [phase EXCEPT ![s] = IF s \in connections THEN "connected" ELSE "failed"]
    /\ send_lock' = [send_lock EXCEPT ![s] = "free"]
    /\ UNCHANGED <<connections, replay, seen, publishVars>>

\* Mutant: the replay is sent without a timer.
ReplayFails_NoTimer(s) ==
    /\ phase[s] = "replayed"
    /\ phase' = [phase EXCEPT ![s] = "failed"]
    /\ connections' = connections \ {s}
    /\ send_lock' = [send_lock EXCEPT ![s] = "free"]
    /\ UNCHANGED <<replay, seen, publishVars>>

\* The replay raises or times out, or connect() is cancelled: all three
\* handlers remove the socket, and the finally clause frees its lock.
ReplayFails(s) ==
    /\ phase[s] \in {"replaying", "replayed"}
    /\ phase' = [phase EXCEPT ![s] = "failed"]
    /\ connections' = connections \ {s}
    /\ send_lock' = [send_lock EXCEPT ![s] = "free"]
    /\ UNCHANGED <<replay, seen, publishVars>>

\* disconnect(), called by a caller whose connect() returned.
Disconnect(s) ==
    /\ phase[s] = "connected"
    /\ connections' = connections \ {s}
    /\ UNCHANGED <<phase, replay, send_lock, seen, publishVars>>

\* wait_until_disconnected() returns at once for an unknown socket, and else
\* when the event that _remove_connection sets with the removal is set.
WaitUntilDisconnectedReturns(s) == s \notin connections

-----------------------------------------------------------------------------
(* publish() and its _send_registered tasks                                *)

\* Mutant: publish() retains the snapshot before it waits for _publish_lock.
Publish_RetainsAtOnce ==
    /\ published < MaxPublished
    /\ published' = published + 1
    /\ waiting' = waiting \cup {published + 1}
    /\ latest_snapshot' = published + 1
    /\ UNCHANGED <<publishing, outcome, seen, cut, connectVars>>

\* publish() is called and queues for _publish_lock.
Publish ==
    /\ published < MaxPublished
    /\ published' = published + 1
    /\ waiting' = waiting \cup {published + 1}
    /\ UNCHANGED <<publishing, latest_snapshot, outcome, seen, cut, connectVars>>

\* Mutant: only the call made last is ever served.
NextInLine_OnlyLast(n) == n \in waiting /\ n = published

\* The lock is handed over in call order.
NextInLine(n) == n \in waiting /\ \A m \in waiting : n <= m

\* Mutant: publish() does not retain the snapshot.
StartFanOut_NotRetained(n) ==
    /\ publishing = 0
    /\ NextInLine(n)
    /\ waiting' = waiting \ {n}
    /\ publishing' = n
    /\ outcome' = [s \in Sockets |-> IF s \in connections THEN "pending" ELSE "none"]
    /\ cut' = FALSE
    /\ UNCHANGED <<published, latest_snapshot, seen, connectVars>>

\* publish() owns the lock: it retains the snapshot, copies the registry and
\* starts one task for each registered socket, all in one step.
StartFanOut(n) ==
    /\ publishing = 0
    /\ NextInLine(n)
    /\ waiting' = waiting \ {n}
    /\ publishing' = n
    /\ latest_snapshot' = n
    /\ outcome' = [s \in Sockets |-> IF s \in connections THEN "pending" ELSE "none"]
    /\ cut' = FALSE
    /\ UNCHANGED <<published, seen, connectVars>>

\* A task gets its socket's send_lock and re-reads the registry under it: it
\* goes on to send, or returns silently and releases the lock again.
TakeSendLock(s) ==
    /\ outcome[s] = "pending"
    /\ send_lock[s] = "free"
    /\ IF s \in connections
         THEN /\ outcome' = [outcome EXCEPT ![s] = "sending"]
              /\ send_lock' = [send_lock EXCEPT ![s] = "publish"]
         ELSE /\ outcome' = [outcome EXCEPT ![s] = "skipped"]
              /\ UNCHANGED send_lock
    /\ UNCHANGED <<published, waiting, publishing, latest_snapshot,
                   connections, phase, replay, seen, cut>>

\* The published snapshot reaches the peer; send_json has not returned yet.
SendWrites(s) ==
    /\ outcome[s] = "sending"
    /\ outcome' = [outcome EXCEPT ![s] = "written"]
    /\ seen' = [seen EXCEPT ![s] = publishing]
    /\ UNCHANGED <<published, waiting, publishing, latest_snapshot, cut, connectVars>>

SendReturns(s) ==
    /\ outcome[s] = "written"
    /\ outcome' = [outcome EXCEPT ![s] = "sent"]
    /\ send_lock' = [send_lock EXCEPT ![s] = "free"]
    /\ UNCHANGED <<published, waiting, publishing, latest_snapshot,
                   connections, phase, replay, seen, cut>>

\* wait_for expires while the task waits for the lock, or the send raises or
\* expires; the timer covers both the wait and the send.
SendFails(s) ==
    /\ outcome[s] \in {"pending", "sending", "written"}
    /\ outcome' = [outcome EXCEPT ![s] = "failed"]
    /\ send_lock' = [send_lock EXCEPT ![s] = IF @ = "publish" THEN "free" ELSE @]
    /\ UNCHANGED <<published, waiting, publishing, latest_snapshot,
                   connections, phase, replay, seen, cut>>

Settled(s) == outcome[s] \in {"none", "sent", "skipped", "failed"}

\* Mutant: a failed send does not evict its socket.
FinishFanOut_NoEviction ==
    /\ publishing # 0
    /\ \A s \in Sockets : Settled(s)
    /\ publishing' = 0
    /\ outcome' = [s \in Sockets |-> "none"]
    /\ UNCHANGED <<published, waiting, latest_snapshot, connectVars, seen, cut>>

\* gather() returns once every task has settled: the failed sockets are
\* removed and the lock is released.
FinishFanOut ==
    /\ publishing # 0
    /\ \A s \in Sockets : Settled(s)
    /\ connections' = connections \ {s \in Sockets : outcome[s] = "failed"}
    /\ publishing' = 0
    /\ outcome' = [s \in Sockets |-> "none"]
    /\ UNCHANGED <<published, waiting, latest_snapshot, phase, replay,
                   send_lock, seen, cut>>

\* publish() is cancelled in gather(), which cancels the tasks and waits for
\* them; the error leaves publish() before anything is removed.
CancelFanOut ==
    /\ publishing # 0
    /\ publishing' = 0
    /\ outcome' = [s \in Sockets |-> "none"]
    /\ send_lock' = [s \in Sockets |->
                       IF send_lock[s] = "publish" THEN "free" ELSE send_lock[s]]
    /\ cut' = TRUE
    /\ UNCHANGED <<published, waiting, latest_snapshot, connections, phase,
                   replay, seen>>

\* publish() is cancelled in the queue of _publish_lock.
CancelWaiting(n) ==
    /\ n \in waiting
    /\ waiting' = waiting \ {n}
    /\ UNCHANGED <<published, publishing, latest_snapshot, outcome, seen, cut,
                   connectVars>>

-----------------------------------------------------------------------------

ConnectStep(s) ==
    \/ Connect(s)
    \/ AcceptFails(s)
    \/ Register(s)
    \/ ReplayWrites(s)
    \/ ReplayReturns(s)
    \/ ReplayFails(s)

SendStep(s) ==
    \/ TakeSendLock(s)
    \/ SendWrites(s)
    \/ SendReturns(s)
    \/ SendFails(s)

PublishStep ==
    \/ Publish
    \/ \E n \in waiting : StartFanOut(n) \/ CancelWaiting(n)
    \/ FinishFanOut
    \/ CancelFanOut

Next ==
    \/ \E s \in Sockets : ConnectStep(s) \/ Disconnect(s) \/ SendStep(s)
    \/ PublishStep

Spec == Init /\ [][Next]_hubVars

-----------------------------------------------------------------------------
(* Properties                                                              *)

TypeOK ==
    /\ published \in 0 .. MaxPublished
    /\ waiting \subseteq Snapshots
    /\ publishing \in 0 .. MaxPublished
    /\ latest_snapshot \in 0 .. MaxPublished
    /\ connections \subseteq Sockets
    /\ phase \in [Sockets -> Phases]
    /\ replay \in [Sockets -> 0 .. MaxPublished]
    /\ send_lock \in [Sockets -> Holders]
    /\ outcome \in [Sockets -> Outcomes]
    /\ seen \in [Sockets -> 0 .. MaxPublished]
    /\ cut \in BOOLEAN

ReplayInProgress(s) == phase[s] \in {"replaying", "replayed"}
SendInProgress(s) == outcome[s] \in {"sending", "written"}

\* A peer is never handed two snapshots at once: the send of connect() and
\* the send of a publish() exclude each other (send_json on one WebSocket is
\* not reentrant, which is what send_lock is for).
OneSendAtATime ==
    \A s \in Sockets : ~(ReplayInProgress(s) /\ SendInProgress(s))

\* No missed snapshot: whenever no fan-out is under way, every socket whose
\* connect() returned and that is still registered was handed the retained
\* snapshot, whatever the order of its registration, its replay and the
\* fan-outs - unless the last publish() was cancelled half-way.
RegisteredIsUpToDate ==
    publishing = 0 /\ ~cut =>
        \A s \in connections : phase[s] = "connected" => seen[s] = latest_snapshot

\* A socket whose connect() raised is not in the registry: no later publish()
\* will wait for it, and nobody is left to disconnect it.
FailedIsForgotten ==
    \A s \in connections : phase[s] # "failed"

\* The steps in which a send_json hands a snapshot to the socket's peer, told
\* by where connect() or the task of the fan-out stands before and after.
HandedOver(s) ==
    \/ phase[s] = "replaying" /\ phase'[s] = "replayed"
    \/ outcome[s] = "sending" /\ outcome'[s] = "written"

\* Whatever a send_json hands to a peer, be it connect()'s or a publish()'s, is
\* newer than everything this peer was handed before - never an older snapshot
\* after a newer one, never the same one twice - and is not newer than the
\* retained snapshot.
DeliversInOrder ==
    [][\A s \in Sockets :
          /\ HandedOver(s) => seen[s] < seen'[s] /\ seen'[s] <= latest_snapshot
          /\ ~HandedOver(s) => seen'[s] = seen[s]]_hubVars

\* The hub implements the abstract feed: overlapping publish() calls take
\* effect in call order, and nobody is shown a snapshot that had already been
\* superseded when its socket was registered.
Feed == INSTANCE SnapshotFeed WITH
            Viewers <- Sockets, latest <- latest_snapshot,
            floor <- replay, shown <- seen
ImplementsFeed == Feed!Spec

\* A slow or dead peer cannot hold up the others: every queued publish() gets
\* its turn, even if a peer never takes a byte.
QueuedPublishStarts ==
    \A n \in Snapshots : (n \in waiting) ~> (n \notin waiting)

\* connect() ends once accept() has returned, even for a peer that reads
\* nothing.
ReplayEnds ==
    \A s \in Sockets : ReplayInProgress(s) ~> phase[s] \in {"connected", "failed"}
=============================================================================
