------------------------- MODULE VehicleFeedClient -------------------------
(***************************************************************************)
(* The browser's side of /ws/positions:                                    *)
(* frontend/src/realtime/useEstimatedVehiclePositions.ts over              *)
(* connectionPolicy.ts.  A React hook that keeps one WebSocket per URL     *)
(* open, reconnects with a growing delay, holds the last valid snapshot    *)
(* and says whether it is fresh.                                           *)
(*                                                                         *)
(* A step is one browser task: a render, the effects after it, a socket's  *)
(* event, a timer, or the clock.  Events of sockets the hook has given up  *)
(* still arrive.  The timers of setTimeout run on monotonic time and may   *)
(* be late; Date.now() is the wall clock, which may be set back.  The      *)
(* reconnect delay itself is abstracted: its timer may fire at any time.   *)
(***************************************************************************)
EXTENDS Integers, FiniteSets

CONSTANTS
    Urls,           \* endpoints the page is rendered with
    InvalidUrls,    \* those for which new WebSocket(url) throws
    NoUrl,          \* no effect is mounted
    MaxSockets,     \* bound on the WebSockets constructed
    staleAfterMs,   \* DEFAULT_CONNECTION_POLICY, in units of the model
    maxFutureSkewMs,
    MaxElapsed,     \* bound on the time that passes
    MaxStepsBack    \* bound on the wall clock's steps back

ASSUME ClientAssumption ==
    /\ InvalidUrls \subseteq Urls
    /\ NoUrl \notin Urls
    /\ MaxSockets \in Nat
    /\ staleAfterMs \in Nat \ {0}
    /\ maxFutureSkewMs \in Nat
    /\ MaxElapsed \in Nat
    /\ MaxStepsBack \in Nat

VARIABLES
    url,              \* the hook's argument in the last render
    effect_url,       \* the url of the mounted connection effect, or NoUrl
    sockets,          \* readyState and url of every WebSocket
    socket,           \* the effect's socket, or NoSocket for null
    reconnectTimer,   \* is a reconnect scheduled?
    reconnectAttempt,
    state,            \* the ConnectionState
    nowMs,            \* the time freshness is evaluated at
    staleTimer,       \* time until the freshness timer, or NoTimer
    wall,             \* Date.now()
    silence,          \* history: time since the last valid snapshot
    elapsed,          \* time passed since the start
    stepsBack         \* steps back so far

connectionVars == <<effect_url, sockets, socket, reconnectTimer, reconnectAttempt>>
clockVars == <<wall, elapsed, stepsBack>>
vars == <<url, connectionVars, state, nowMs, staleTimer, silence, clockVars>>

Sockets == 1 .. MaxSockets
NoSocket == 0
NoTimer == -1
NoTime == -1000

\* A snapshot is where it came from and the times its freshness depends on:
\* observed_at, and feed_timestamp unless it is null.
NoSnapshot == [from |-> NoUrl, stamps |-> {}]

initialState(u) ==
    [url |-> u, connectionStatus |-> "connecting", snapshot |-> NoSnapshot,
     lastSnapshotReceivedAtMs |-> NoTime]

Init ==
    /\ url \in Urls
    /\ effect_url = NoUrl
    /\ sockets = [s \in Sockets |-> [readyState |-> "unused", url |-> NoUrl]]
    /\ socket = NoSocket
    /\ reconnectTimer = FALSE
    /\ reconnectAttempt = 0
    /\ state = initialState(url)
    /\ nowMs = 0
    /\ staleTimer = NoTimer
    /\ wall = 0
    /\ silence = 0
    /\ elapsed = 0
    /\ stepsBack = 0

-----------------------------------------------------------------------------
(* What the page shows                                                     *)

currentState == IF state.url = url THEN state ELSE initialState(url)

\* evaluateSnapshotFreshness
dataStatus ==
    LET snapshot == currentState.snapshot
        received == currentState.lastSnapshotReceivedAtMs
    IN  IF snapshot = NoSnapshot
          THEN "awaiting"
        ELSE IF \E t \in snapshot.stamps \cup {received} :
                   t > nowMs + maxFutureSkewMs \/ nowMs - t >= staleAfterMs
          THEN "stale"
          ELSE "fresh"

-----------------------------------------------------------------------------
(* The connection effect                                                   *)

\* setState(current => current.url === url ? ... : current) in an event handler,
\* whose url is the one its socket was constructed for.
SetState(s, field, value) ==
    state' = IF state.url = sockets[s].url THEN [state EXCEPT ![field] = value] ELSE state

isActive(s) == socket = s

\* candidate.close(): the socket's close event is still to come.
Closing(s) == [sockets EXCEPT ![s].readyState = "closing"]

Unused == {s \in Sockets : sockets[s].readyState = "unused"}

\* connect(): a new WebSocket, or the constructor throws and that is it.
\* "from" is the sockets after the cleanup, "kept" the state before the call.
Connect(u, from, kept, status) ==
    IF u \in InvalidUrls
      THEN /\ state' = [kept EXCEPT !.connectionStatus = "error"]
           /\ sockets' = from
           /\ socket' = NoSocket
      ELSE /\ Unused # {}
           /\ LET s == CHOOSE x \in Unused : \A y \in Unused : x <= y
              IN  /\ socket' = s
                  /\ sockets' = [from EXCEPT ![s] = [readyState |-> "connecting", url |-> u]]
           /\ state' = [kept EXCEPT !.connectionStatus = status]

scheduleReconnect ==
    IF reconnectTimer
      THEN UNCHANGED <<reconnectTimer, reconnectAttempt>>
      ELSE /\ reconnectTimer' = TRUE
           /\ reconnectAttempt' = reconnectAttempt + 1

\* The page renders the hook with another URL; React runs the effects of one
\* render before the next, but other tasks may come first.
Rerender(u) ==
    /\ effect_url = url
    /\ url # NoUrl
    /\ u # url
    /\ url' = u
    /\ UNCHANGED <<connectionVars, state, nowMs, staleTimer, silence, clockVars>>

\* Mutant: the cleanup forgets its socket without closing it.
AfterCleanup_LeavesOpen == sockets

\* What the connection effect's cleanup leaves of the sockets.
AfterCleanup == IF socket = NoSocket THEN sockets ELSE Closing(socket)

\* The effects after the first render, or after one with another URL: the old
\* connection is cleaned up, the freshness timer is cleared with the old
\* snapshot, and the new connection starts.
RunEffects ==
    /\ effect_url # url
    /\ effect_url' = url
    /\ reconnectTimer' = FALSE
    /\ reconnectAttempt' = 0
    /\ Connect(url, AfterCleanup, currentState, "connecting")
    /\ staleTimer' = NoTimer
    /\ UNCHANGED <<url, nowMs, silence, clockVars>>

ReconnectFires ==
    /\ reconnectTimer
    /\ reconnectTimer' = FALSE
    /\ Connect(effect_url, sockets, state, "reconnecting")
    /\ UNCHANGED <<url, effect_url, reconnectAttempt, nowMs, staleTimer, silence, clockVars>>

\* The page unmounts the hook.
Unmount ==
    /\ effect_url = url
    /\ url' = NoUrl
    /\ effect_url' = NoUrl
    /\ sockets' = AfterCleanup
    /\ socket' = NoSocket
    /\ reconnectTimer' = FALSE
    /\ staleTimer' = NoTimer
    /\ UNCHANGED <<reconnectAttempt, state, nowMs, silence, clockVars>>

-----------------------------------------------------------------------------
(* Events of a socket                                                      *)

\* Mutant: an open connection starts the backoff anew.
Opens_ResetsBackoff(s) ==
    /\ sockets[s].readyState = "connecting"
    /\ sockets' = [sockets EXCEPT ![s].readyState = "open"]
    /\ IF isActive(s)
         THEN nowMs' = wall /\ SetState(s, "connectionStatus", "open") /\ reconnectAttempt' = 0
         ELSE UNCHANGED <<nowMs, state, reconnectAttempt>>
    /\ UNCHANGED <<url, effect_url, socket, reconnectTimer, staleTimer, silence, clockVars>>

Opens(s) ==
    /\ sockets[s].readyState = "connecting"
    /\ sockets' = [sockets EXCEPT ![s].readyState = "open"]
    /\ IF isActive(s)
         THEN nowMs' = wall /\ SetState(s, "connectionStatus", "open")
         ELSE UNCHANGED <<nowMs, state>>
    /\ UNCHANGED <<url, effect_url, socket, reconnectTimer, reconnectAttempt,
                   staleTimer, silence, clockVars>>

\* A message arrives; one that was queued before close() may still do.
Receives(s) == sockets[s].readyState \in {"open", "closing"}

Earliest(times) == CHOOSE t \in times : \A other \in times : t <= other
Longest(a, b) == IF a >= b THEN a ELSE b

\* The state after a valid snapshot, and the freshness timer that is set for it.
ShowSnapshot(s, stamps) ==
    state' = [state EXCEPT !.snapshot = [from |-> sockets[s].url, stamps |-> stamps],
                           !.lastSnapshotReceivedAtMs = wall]
StaleDelay(stamps) == Longest(0, Earliest(stamps \cup {wall}) + staleAfterMs - wall)

\* Mutant: a freshness timer that is running is left to run.
onmessage_KeepsTimer(s, stamps) ==
    /\ Receives(s)
    /\ isActive(s)
    /\ reconnectAttempt' = 0
    /\ nowMs' = wall
    /\ IF state.url = sockets[s].url
         THEN /\ ShowSnapshot(s, stamps)
              /\ staleTimer' = IF effect_url = url /\ staleTimer = NoTimer
                                 THEN StaleDelay(stamps) ELSE staleTimer
         ELSE UNCHANGED <<state, staleTimer>>
    /\ silence' = 0
    /\ UNCHANGED <<url, effect_url, sockets, socket, reconnectTimer, clockVars>>

\* Mutant: the freshness timer only looks at the time of receipt.
onmessage_TimesReceipt(s, stamps) ==
    /\ Receives(s)
    /\ isActive(s)
    /\ reconnectAttempt' = 0
    /\ nowMs' = wall
    /\ IF state.url = sockets[s].url
         THEN /\ ShowSnapshot(s, stamps)
              /\ staleTimer' = IF effect_url = url THEN staleAfterMs ELSE staleTimer
         ELSE UNCHANGED <<state, staleTimer>>
    /\ silence' = 0
    /\ UNCHANGED <<url, effect_url, sockets, socket, reconnectTimer, clockVars>>

\* Mutant: a message of a socket that was given up is shown, whatever the
\* endpoint of the state: neither of the two guards is there.
onmessage_Unguarded(s, stamps) ==
    /\ Receives(s)
    /\ reconnectAttempt' = 0
    /\ nowMs' = wall
    /\ ShowSnapshot(s, stamps)
    /\ staleTimer' = IF effect_url = url THEN StaleDelay(stamps) ELSE staleTimer
    /\ silence' = 0
    /\ UNCHANGED <<url, effect_url, sockets, socket, reconnectTimer, clockVars>>

\* A valid snapshot.  Its freshness timer replaces the one before.
onmessage(s, stamps) ==
    /\ Receives(s)
    /\ isActive(s)
    /\ reconnectAttempt' = 0
    /\ nowMs' = wall
    /\ IF state.url = sockets[s].url
         THEN /\ ShowSnapshot(s, stamps)
              /\ staleTimer' = IF effect_url = url THEN StaleDelay(stamps) ELSE staleTimer
         ELSE UNCHANGED <<state, staleTimer>>
    /\ silence' = 0
    /\ UNCHANGED <<url, effect_url, sockets, socket, reconnectTimer, clockVars>>

\* Mutant: an error leaves the reconnect to the close event.
onerror_LeavesItToClose(s) ==
    /\ isActive(s)
    /\ SetState(s, "connectionStatus", "error")
    /\ socket' = NoSocket
    /\ sockets' = Closing(s)
    /\ UNCHANGED <<url, effect_url, reconnectTimer, reconnectAttempt, nowMs, staleTimer,
                   silence, clockVars>>

onerror(s) ==
    /\ isActive(s)
    /\ SetState(s, "connectionStatus", "error")
    /\ socket' = NoSocket
    /\ sockets' = Closing(s)
    /\ scheduleReconnect
    /\ UNCHANGED <<url, effect_url, nowMs, staleTimer, silence, clockVars>>

\* The connection is gone; for a socket given up, nothing else happens.
onclose(s) ==
    /\ sockets[s].readyState \notin {"unused", "closed"}
    /\ sockets' = [sockets EXCEPT ![s].readyState = "closed"]
    /\ IF isActive(s)
         THEN /\ socket' = NoSocket
              /\ nowMs' = wall
              /\ SetState(s, "connectionStatus", "reconnecting")
              /\ scheduleReconnect
         ELSE UNCHANGED <<socket, nowMs, state, reconnectTimer, reconnectAttempt>>
    /\ UNCHANGED <<url, effect_url, staleTimer, silence, clockVars>>

-----------------------------------------------------------------------------
(* Time                                                                    *)

\* The freshness timer: setTimeout(() => setNowMs(Date.now()), delay)
StaleTimerFires ==
    /\ staleTimer = 0
    /\ staleTimer' = NoTimer
    /\ nowMs' = wall
    /\ UNCHANGED <<url, connectionVars, state, silence, clockVars>>

Tick ==
    /\ elapsed < MaxElapsed
    /\ elapsed' = elapsed + 1
    /\ wall' = wall + 1
    /\ silence' = silence + 1
    /\ staleTimer' = IF staleTimer > 0 THEN staleTimer - 1 ELSE staleTimer
    /\ UNCHANGED <<url, connectionVars, state, nowMs, stepsBack>>

\* The wall clock is set back.
StepBack ==
    /\ stepsBack < MaxStepsBack
    /\ stepsBack' = stepsBack + 1
    /\ wall' = wall - 1
    /\ UNCHANGED <<url, connectionVars, state, nowMs, staleTimer, silence, elapsed>>

-----------------------------------------------------------------------------

\* observed_at and feed_timestamp, around the client's clock.
Stamps == {times \in SUBSET (wall - staleAfterMs .. wall + maxFutureSkewMs + 1) :
             Cardinality(times) \in {1, 2}}

Next ==
    \/ \E u \in Urls : Rerender(u)
    \/ RunEffects
    \/ Unmount
    \/ ReconnectFires
    \/ \E s \in Sockets :
         \/ Opens(s)
         \/ \E stamps \in Stamps : onmessage(s, stamps)
         \/ onerror(s)
         \/ onclose(s)
    \/ StaleTimerFires
    \/ Tick
    \/ StepBack

Spec == Init /\ [][Next]_vars

-----------------------------------------------------------------------------
(* Properties                                                              *)

\* No leaked connection: a WebSocket that still lives is the one the hook
\* holds, whatever renders, errors and timers came in between, and no
\* reconnect is scheduled beside it.
OneLiveSocket ==
    \A s \in Sockets :
        sockets[s].readyState \in {"connecting", "open"} => socket = s /\ ~ reconnectTimer

\* What is shown belongs to the endpoint that was rendered, never to one
\* whose socket was still delivering when the page moved on: the guards of the
\* handlers, of setState and of the render together see to that.
ShownIsFromUrl ==
    currentState.snapshot # NoSnapshot => currentState.snapshot.from = url

\* The client never gives up: without a socket a reconnect is scheduled, but
\* for an endpoint that no WebSocket can be constructed for.
NeverDisconnectedForGood ==
    (effect_url \in Urls \ InvalidUrls /\ socket = NoSocket) => reconnectTimer

\* Opening and closing sockets without a valid snapshot does not start the
\* backoff anew: attempts are only forgotten on a snapshot or with their
\* endpoint.
BackoffSurvivesOpen ==
    [][reconnectAttempt' < reconnectAttempt =>
          \/ effect_url' # effect_url
          \/ silence' = 0 /\ state'.lastSnapshotReceivedAtMs = wall]_vars

\* Data is stale after staleAfterMs without a valid snapshot, at the latest
\* when the timer that is due has run.
StaleAfterSilence ==
    (silence >= staleAfterMs /\ staleTimer = NoTimer) => dataStatus # "fresh"

\* So it is as long as nobody sets the wall clock back.
SilentIsStale == stepsBack = 0 => StaleAfterSilence

\* Nothing is shown as fresh that was received, observed or published by the
\* feed too long ago, but for a timer that is due, as long as the wall clock is
\* not set back.
FreshIsRecent ==
    (dataStatus = "fresh" /\ staleTimer # 0 /\ stepsBack = 0) =>
        \A t \in currentState.snapshot.stamps \cup {currentState.lastSnapshotReceivedAtMs} :
            wall - t < staleAfterMs

-----------------------------------------------------------------------------
(* Types                                                                   *)

ReadyStates == {"unused", "connecting", "open", "closing", "closed"}
ConnectionStatuses == {"connecting", "open", "reconnecting", "error"}
Snapshots == [from : Urls \cup {NoUrl}, stamps : SUBSET Int]
ConnectionStates ==
    [url : Urls, connectionStatus : ConnectionStatuses, snapshot : Snapshots,
     lastSnapshotReceivedAtMs : Int]

\* There is no status "closed": the hook never says that it has given up.
TypeOK ==
    /\ {url, effect_url} \subseteq Urls \cup {NoUrl}
    /\ sockets \in [Sockets -> [readyState : ReadyStates, url : Urls \cup {NoUrl}]]
    /\ socket \in Sockets \cup {NoSocket}
    /\ reconnectTimer \in BOOLEAN
    /\ reconnectAttempt \in Nat
    /\ state \in ConnectionStates
    /\ nowMs \in Int /\ wall \in Int
    /\ staleTimer \in Nat \cup {NoTimer}
    /\ {silence, elapsed, stepsBack} \subseteq Nat
=============================================================================
