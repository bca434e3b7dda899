--------------------------- MODULE PositionServer ---------------------------
(***************************************************************************)
(* _serve_position_websocket (src/bvg_radar/server.py) composed with the   *)
(* hub: the coroutine that serves one WebSocket connects it to the hub,    *)
(* waits for the first of "the peer left" (receive_task) and "the hub      *)
(* evicted the socket" (eviction_task), closes an evicted socket with code *)
(* 1011 and always disconnects it from the hub.                            *)
(***************************************************************************)
EXTENDS PositionHub

VARIABLES
    handler,        \* where the coroutine that serves the socket stands
    receive_task,   \* _receive_until_disconnect(socket)
    eviction_task,  \* position_hub.wait_until_disconnected(socket)
    closed          \* websocket.close(code=1011) was called

serverVars == <<handler, receive_task, eviction_task, closed>>
allVars == <<hubVars, serverVars>>

HandlerStates == {"none", "connecting", "serving", "closing", "leaving", "done", "cancelled"}
TaskStates == {"none", "running", "done"}

ServerInit ==
    /\ Init
    /\ handler = [s \in Sockets |-> "none"]
    /\ receive_task = [s \in Sockets |-> "none"]
    /\ eviction_task = [s \in Sockets |-> "none"]
    /\ closed = [s \in Sockets |-> FALSE]

MoveTo(s, state) == handler' = [handler EXCEPT ![s] = state]

\* A request for /ws/positions: the handler awaits position_hub.connect().
Open(s) ==
    /\ handler[s] = "none"
    /\ Connect(s)
    /\ MoveTo(s, "connecting")
    /\ UNCHANGED <<receive_task, eviction_task, closed>>

\* The awaited connect() goes on.
Connecting(s) ==
    /\ handler[s] = "connecting"
    /\ AcceptFails(s) \/ Register(s) \/ ReplayWrites(s) \/ ReplayReturns(s) \/ ReplayFails(s)
    /\ UNCHANGED serverVars

\* connect() raised SnapshotReplayError, or WebSocketDisconnect out of accept():
\* the handler closes the socket and returns.
ConnectRaised(s) ==
    /\ handler[s] = "connecting"
    /\ phase[s] = "failed"
    /\ MoveTo(s, "done")
    /\ closed' = [closed EXCEPT ![s] = TRUE]
    /\ UNCHANGED <<hubVars, receive_task, eviction_task>>

StartServing(s) ==
    /\ handler[s] = "connecting"
    /\ phase[s] = "connected"
    /\ MoveTo(s, "serving")
    /\ receive_task' = [receive_task EXCEPT ![s] = "running"]
    /\ eviction_task' = [eviction_task EXCEPT ![s] = "running"]
    /\ UNCHANGED <<hubVars, closed>>

\* The peer's websocket.disconnect message is received.
PeerLeaves(s) ==
    /\ receive_task[s] = "running"
    /\ receive_task' = [receive_task EXCEPT ![s] = "done"]
    /\ UNCHANGED <<hubVars, handler, eviction_task, closed>>

EvictionNoticed(s) ==
    /\ eviction_task[s] = "running"
    /\ WaitUntilDisconnectedReturns(s)
    /\ eviction_task' = [eviction_task EXCEPT ![s] = "done"]
    /\ UNCHANGED <<hubVars, handler, receive_task, closed>>

\* Mutant: an evicted socket is not closed.
WakeEvicted_NoClose(s) ==
    /\ handler[s] = "serving"
    /\ eviction_task[s] = "done"
    /\ MoveTo(s, "closing")
    /\ receive_task' = [receive_task EXCEPT ![s] = IF @ = "done" THEN @ ELSE "none"]
    /\ UNCHANGED <<hubVars, eviction_task, closed>>

\* asyncio.wait returns with an eviction among the finished tasks: the
\* handler cancels receive_task and calls close().
WakeEvicted(s) ==
    /\ handler[s] = "serving"
    /\ eviction_task[s] = "done"
    /\ MoveTo(s, "closing")
    /\ receive_task' = [receive_task EXCEPT ![s] = IF @ = "done" THEN @ ELSE "none"]
    /\ closed' = [closed EXCEPT ![s] = TRUE]
    /\ UNCHANGED <<hubVars, eviction_task>>

\* asyncio.wait returns for the peer's departure alone: the finally clause
\* cancels eviction_task and waits for it.
WakeLeft(s) ==
    /\ handler[s] = "serving"
    /\ receive_task[s] = "done"
    /\ eviction_task[s] = "running"
    /\ MoveTo(s, "leaving")
    /\ eviction_task' = [eviction_task EXCEPT ![s] = "none"]
    /\ UNCHANGED <<hubVars, receive_task, closed>>

\* Mutant: the handler does not disconnect the socket from the hub.
Leave_NoDisconnect(s) ==
    /\ handler[s] \in {"closing", "leaving"}
    /\ MoveTo(s, "done")
    /\ UNCHANGED <<hubVars, receive_task, eviction_task, closed>>

\* The finally clause ends with position_hub.disconnect().
Leave(s) ==
    /\ handler[s] \in {"closing", "leaving"}
    /\ Disconnect(s)
    /\ MoveTo(s, "done")
    /\ UNCHANGED <<receive_task, eviction_task, closed>>

\* The handler is cancelled while it serves, or in close(): the finally clause
\* cancels both tasks and disconnects the socket, which stays as it is.  The
\* awaits of a cancelled task swallow a cancellation, so it is not a step.
CancelServing(s) ==
    /\ handler[s] \in {"serving", "closing"}
    /\ Disconnect(s)
    /\ MoveTo(s, "cancelled")
    /\ receive_task' = [receive_task EXCEPT ![s] = "none"]
    /\ eviction_task' = [eviction_task EXCEPT ![s] = "none"]
    /\ UNCHANGED closed

\* The handler is cancelled inside connect(), which removes the socket.  An error
\* of accept() that is no WebSocketDisconnect is not caught either: like a
\* cancellation it ends the handler without a close().
CancelConnecting(s) ==
    /\ handler[s] = "connecting"
    /\ AcceptFails(s) \/ ReplayFails(s)
    /\ MoveTo(s, "cancelled")
    /\ UNCHANGED <<receive_task, eviction_task, closed>>

HandlerStep(s) ==
    \/ ConnectRaised(s)
    \/ StartServing(s)
    \/ EvictionNoticed(s)
    \/ WakeEvicted(s)
    \/ WakeLeft(s)
    \/ Leave(s)

FanOutStep == (PublishStep \/ \E s \in Sockets : SendStep(s)) /\ UNCHANGED serverVars

ServerNext ==
    \/ \E s \in Sockets :
         \/ Open(s)
         \/ Connecting(s)
         \/ HandlerStep(s)
         \/ PeerLeaves(s)
         \/ CancelServing(s)
         \/ CancelConnecting(s)
    \/ FanOutStep

ServerSpec == ServerInit /\ [][ServerNext]_allVars

\* A ready coroutine runs, an operation under wait_for does not outlive its
\* timer, and a lock that was released is taken by the next in line.  A peer
\* need not take a byte, nothing bounds accept(), and requests, publications
\* and cancellation are the environment's.
ServerFairness ==
    /\ \A s \in Sockets :
         /\ WF_allVars(HandlerStep(s))
         /\ WF_allVars(Connecting(s) /\ phase'[s] = "failed" /\ phase[s] # "accepting")
         /\ WF_allVars(TakeSendLock(s) /\ UNCHANGED serverVars)
         /\ WF_allVars(SendFails(s) /\ UNCHANGED serverVars)
    /\ WF_allVars((\E n \in waiting : StartFanOut(n)) /\ UNCHANGED serverVars)
    /\ WF_allVars(FinishFanOut /\ UNCHANGED serverVars)

FairServerSpec == ServerSpec /\ ServerFairness

-----------------------------------------------------------------------------
(* Properties                                                              *)

ServerTypeOK ==
    /\ TypeOK
    /\ handler \in [Sockets -> HandlerStates]
    /\ receive_task \in [Sockets -> TaskStates]
    /\ eviction_task \in [Sockets -> TaskStates]
    /\ closed \in [Sockets -> BOOLEAN]

\* No task outlives its handler: whichever way the handler stops serving,
\* neither the receiver nor the eviction watch of its socket still runs.
NoOrphanTask ==
    \A s \in Sockets :
        "running" \in {receive_task[s], eviction_task[s]} => handler[s] = "serving"

\* However a handler ends - departure, eviction, failed replay, cancellation
\* - it leaves no socket behind in the hub's registry.
NoHandlerNoRegistration ==
    \A s \in connections : handler[s] \notin {"none", "done", "cancelled"}

\* No zombie peer: a handler that ran to its end has either closed the
\* socket or seen its peer leave.  A peer that is still there is never left
\* with an open socket that the hub no longer feeds.
NoZombiePeer ==
    \A s \in Sockets :
        handler[s] = "done" => closed[s] \/ receive_task[s] = "done"

\* close() is never called under a send that is in progress on the socket,
\* be it the replay's or a publish()'s.
NoCloseDuringSend ==
    \A s \in Sockets : closed[s] => ~ReplayInProgress(s) /\ ~SendInProgress(s)

\* A peer to which a send failed does not keep its socket: it is closed, or
\* the handler ends, unless the publish() that noticed it was cancelled.
FailedPeerIsReleased ==
    \A s \in Sockets :
        (outcome[s] = "failed") ~> (closed[s] \/ handler[s] \in {"done", "cancelled"} \/ cut)
=============================================================================
