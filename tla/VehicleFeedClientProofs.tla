------------------------ MODULE VehicleFeedClientProofs ------------------------
(***************************************************************************)
(* Theorems about the browser's connection hook, for any endpoints, any    *)
(* number of sockets, any freshness policy and any passing of time.        *)
(***************************************************************************)
EXTENDS VehicleFeedClient, TLAPS, WellFoundedInduction

-----------------------------------------------------------------------------
(* The inductive invariant                                                 *)

\* The hook's socket lives and is of the mounted endpoint; a reconnect is scheduled
\* only while an effect is mounted and without a socket.
ConnectionInv ==
    /\ socket # NoSocket =>
          /\ sockets[socket].readyState \in {"connecting", "open"}
          /\ sockets[socket].url = effect_url /\ effect_url \in Urls
    /\ reconnectTimer => socket = NoSocket /\ effect_url \in Urls
    /\ url = NoUrl => effect_url = NoUrl

\* The state is that of the mounted endpoint, and before the first effects it is new.
StateInv ==
    /\ effect_url \in Urls => state.url = effect_url
    /\ effect_url = NoUrl /\ url # NoUrl => state.snapshot = NoSnapshot
    /\ state.snapshot # NoSnapshot => state.snapshot.from = state.url

\* Unless the wall clock was set back, the freshness timer of the snapshot shown
\* runs until the first of its times is too old, and once it has fired, freshness
\* was evaluated then or later.
ShownTimes == state.snapshot.stamps \cup {state.lastSnapshotReceivedAtMs}
TimerInv ==
    (stepsBack = 0 /\ state.url = url /\ state.snapshot # NoSnapshot) =>
        /\ nowMs <= wall
        /\ staleTimer > 0 =>
              \A t \in ShownTimes : wall + staleTimer <= t + staleAfterMs
        /\ staleTimer # NoTimer =>
              \E t \in ShownTimes : wall + staleTimer >= t + staleAfterMs
        /\ staleTimer = NoTimer =>
              \E t \in ShownTimes : nowMs >= t + staleAfterMs

ClientIInv ==
    TypeOK /\ ConnectionInv /\ OneLiveSocket /\ NeverDisconnectedForGood /\ StateInv /\ TimerInv

-----------------------------------------------------------------------------
(* The proofs                                                              *)

-----------------------------------------------------------------------------
(* Least elements                                                          *)

\* Integers that are bounded below have a least one: the first time that is too old
\* exists, and so does the next unused socket.
LEMMA LeastExists ==
    ASSUME NEW S \in SUBSET Int, S # {}, NEW low \in Int, \A x \in S : low <= x
    PROVE  \E x \in S : \A y \in S : x <= y
<1> DEFINE T == {x - low : x \in S}
<1>1. T \subseteq Nat /\ T # {}
  <2>1. \A x \in S : x - low \in Nat
    OBVIOUS
  <2>2. PICK x \in S : TRUE
    OBVIOUS
  <2> QED BY <2>1, <2>2
<1>2. PICK m \in T : \A n \in T : ~(<<n, m>> \in OpToRel(<, Nat))
  BY <1>1, NatLessThanWellFounded, WFMin
<1>3. PICK x \in S : m = x - low
  OBVIOUS
<1>4. \A y \in S : x <= y
  <2> TAKE y \in S
  <2>1. y - low \in T /\ y - low \in Nat /\ m \in Nat
    BY <1>1
  <2>2. ~(y - low < m)
    BY <1>2, <2>1 DEF OpToRel
  <2> QED BY <1>3, <2>1, <2>2
<1> QED BY <1>4

\* connect() constructs a socket that was not there before.
LEMMA NextSocket ==
    ASSUME Unused # {}
    PROVE  (CHOOSE x \in Unused : \A y \in Unused : x <= y) \in Unused
<1>1. Unused \in SUBSET Int /\ \A x \in Unused : 1 <= x
  BY ClientAssumption DEF Unused, Sockets
<1>2. \E x \in Unused : \A y \in Unused : x <= y
  BY <1>1, LeastExists
<1> QED BY <1>2

\* The first of the times of a snapshot.
LEMMA EarliestIsFirst ==
    ASSUME wall \in Int, NEW stamps \in Stamps
    PROVE  /\ stamps \in SUBSET Int
           /\ Earliest(stamps \cup {wall}) \in stamps \cup {wall}
           /\ \A t \in stamps \cup {wall} : Earliest(stamps \cup {wall}) <= t
<1> DEFINE low == wall - staleAfterMs
           times == stamps \cup {wall}
<1>1. stamps \subseteq low .. wall + maxFutureSkewMs + 1 /\ low \in Int
  BY ClientAssumption DEF Stamps
<1>2. times \in SUBSET Int /\ times # {} /\ \A t \in times : low <= t
  BY <1>1, ClientAssumption
<1>3. \E t \in times : \A other \in times : t <= other
  BY <1>1, <1>2, LeastExists
<1> QED BY <1>2, <1>3 DEF Earliest
-----------------------------------------------------------------------------
(* The first step of each proof: what connect() and the events do          *)

\* connect() gives up the socket before, and holds a new one or none.
LEMMA ConnectHolds ==
    ASSUME TypeOK, NEW u \in Urls, NEW from, NEW kept \in ConnectionStates,
           NEW status \in ConnectionStatuses,
           from \in [Sockets -> [readyState : ReadyStates, url : Urls \cup {NoUrl}]],
           Connect(u, from, kept, status)
    PROVE  /\ sockets' \in [Sockets -> [readyState : ReadyStates, url : Urls \cup {NoUrl}]]
           /\ socket' \in Sockets \cup {NoSocket}
           /\ state' \in ConnectionStates
           /\ state' = [kept EXCEPT !.connectionStatus = state'.connectionStatus]
           /\ socket' = NoSocket => sockets' = from /\ u \in InvalidUrls
           /\ socket' # NoSocket =>
                 /\ sockets[socket'].readyState = "unused"
                 /\ sockets' = [from EXCEPT ![socket'] =
                                    [readyState |-> "connecting", url |-> u]]
<1>1. CASE u \in InvalidUrls
  <2>1. /\ state' = [kept EXCEPT !.connectionStatus = "error"]
        /\ sockets' = from /\ socket' = NoSocket
    BY <1>1 DEF Connect
  <2> QED BY <1>1, <2>1 DEF ConnectionStates, ConnectionStatuses
<1>2. CASE u \notin InvalidUrls
  <2> DEFINE s == CHOOSE x \in Unused : \A y \in Unused : x <= y
  <2>1. s \in Unused
    BY <1>2, NextSocket DEF Connect
  <2> HIDE DEF s
  <2>2. s \in Sockets /\ sockets[s].readyState = "unused"
    BY <2>1 DEF Unused
  <2>3. s # NoSocket
    BY <2>2, ClientAssumption DEF Sockets, NoSocket
  <2>4. /\ socket' = s
        /\ sockets' = [from EXCEPT ![s] = [readyState |-> "connecting", url |-> u]]
        /\ state' = [kept EXCEPT !.connectionStatus = status]
    BY <1>2 DEF Connect, s
  <2>5. sockets' \in [Sockets -> [readyState : ReadyStates, url : Urls \cup {NoUrl}]]
    BY <2>2, <2>4 DEF ReadyStates
  <2>6. /\ state' \in ConnectionStates
        /\ state' = [kept EXCEPT !.connectionStatus = state'.connectionStatus]
    BY <2>4 DEF ConnectionStates
  <2> QED BY <2>2, <2>3, <2>4, <2>5, <2>6
<1> QED BY <1>1, <1>2

\* Sockets stay sockets when one of them closes.
LEMMA ClosingType ==
    ASSUME TypeOK, NEW s \in Sockets
    PROVE  /\ Closing(s) \in [Sockets -> [readyState : ReadyStates, url : Urls \cup {NoUrl}]]
           /\ Closing(s)[s].readyState = "closing"
           /\ \A x \in Sockets : x # s => Closing(s)[x] = sockets[x]
BY DEF TypeOK, Closing, ReadyStates

\* A setState of the effect changes the status alone.
LEMMA SetStatusType ==
    ASSUME TypeOK, NEW s \in Sockets, NEW status \in ConnectionStatuses,
           SetState(s, "connectionStatus", status)
    PROVE  /\ state' \in ConnectionStates
           /\ state'.url = state.url /\ state'.snapshot = state.snapshot
           /\ state'.lastSnapshotReceivedAtMs = state.lastSnapshotReceivedAtMs
BY DEF TypeOK, SetState, ConnectionStates

\* What currentState shows is a state of the endpoint rendered.
LEMMA CurrentStateType ==
    ASSUME TypeOK, url \in Urls
    PROVE  currentState \in ConnectionStates /\ currentState.url = url
BY DEF TypeOK, currentState, initialState, ConnectionStates, ConnectionStatuses, Snapshots,
       NoSnapshot, NoTime

\* A reconnect is scheduled, whether one was before or not; the backoff does not shrink.
LEMMA ScheduleHolds ==
    ASSUME TypeOK, scheduleReconnect
    PROVE  /\ reconnectTimer' = TRUE
           /\ reconnectAttempt' \in Nat /\ reconnectAttempt' >= reconnectAttempt
<1>1. CASE reconnectTimer
  <2>1. reconnectTimer' = reconnectTimer /\ reconnectAttempt' = reconnectAttempt
    BY <1>1 DEF scheduleReconnect
  <2>2. reconnectTimer = TRUE
    BY <1>1 DEF TypeOK
  <2> QED BY <2>1, <2>2 DEF TypeOK
<1>2. CASE ~reconnectTimer
  BY <1>2 DEF TypeOK, scheduleReconnect
<1> QED BY <1>1, <1>2

\* The cleanup leaves no live socket if the hook held the only one.
LEMMA CleanupCloses ==
    ASSUME TypeOK, OneLiveSocket
    PROVE  /\ AfterCleanup \in [Sockets -> [readyState : ReadyStates, url : Urls \cup {NoUrl}]]
           /\ \A s \in Sockets : AfterCleanup[s].readyState \notin {"connecting", "open"}
<1>1. CASE socket = NoSocket
  BY <1>1 DEF TypeOK, AfterCleanup, OneLiveSocket, Sockets, NoSocket
<1>2. CASE socket # NoSocket
  <2>1. socket \in Sockets /\ AfterCleanup = Closing(socket)
    BY <1>2 DEF TypeOK, AfterCleanup
  <2> QED BY <2>1, ClosingType DEF OneLiveSocket
<1> QED BY <1>1, <1>2

-----------------------------------------------------------------------------
(* Each part of the invariant                                              *)

\* No browser task leaves the types.
LEMMA TypeIsPreserved ==
    ASSUME ClientIInv, [Next]_vars
    PROVE  TypeOK'
<1> USE DEF ClientIInv
<1>1. ASSUME NEW u \in Urls, Rerender(u) PROVE TypeOK'
  BY <1>1 DEF Rerender, TypeOK, connectionVars, clockVars
<1>2. CASE RunEffects
  <2>1. url \in Urls
    BY <1>2 DEF RunEffects, ConnectionInv, TypeOK
  <2>2. currentState \in ConnectionStates
    BY <2>1, CurrentStateType
  <2>3. /\ sockets' \in [Sockets -> [readyState : ReadyStates, url : Urls \cup {NoUrl}]]
        /\ socket' \in Sockets \cup {NoSocket} /\ state' \in ConnectionStates
    BY <1>2, <2>1, <2>2, CleanupCloses, ConnectHolds DEF RunEffects, ConnectionStatuses
  <2> QED BY <1>2, <2>1, <2>3 DEF RunEffects, TypeOK, clockVars
<1>3. CASE Unmount
  <2>1. AfterCleanup \in [Sockets -> [readyState : ReadyStates, url : Urls \cup {NoUrl}]]
    BY CleanupCloses
  <2> QED BY <1>3, <2>1 DEF Unmount, TypeOK, clockVars
<1>4. CASE ReconnectFires
  <2>1. effect_url \in Urls
    BY <1>4 DEF ReconnectFires, ConnectionInv
  <2>2. /\ sockets' \in [Sockets -> [readyState : ReadyStates, url : Urls \cup {NoUrl}]]
        /\ socket' \in Sockets \cup {NoSocket} /\ state' \in ConnectionStates
    BY <1>4, <2>1, ConnectHolds DEF ReconnectFires, TypeOK, ConnectionStatuses
  <2> QED BY <1>4, <2>2 DEF ReconnectFires, TypeOK, clockVars
<1>5. ASSUME NEW s \in Sockets, Opens(s) PROVE TypeOK'
  <2>1. state' \in ConnectionStates /\ nowMs' \in Int
    BY <1>5, SetStatusType DEF Opens, TypeOK, ConnectionStatuses
  <2>2. sockets' \in [Sockets -> [readyState : ReadyStates, url : Urls \cup {NoUrl}]]
    BY <1>5 DEF Opens, TypeOK, ReadyStates
  <2> QED BY <1>5, <2>1, <2>2 DEF Opens, TypeOK, clockVars
<1>6. ASSUME NEW s \in Sockets, NEW stamps \in Stamps, onmessage(s, stamps) PROVE TypeOK'
  <2>1. stamps \in SUBSET Int /\ Earliest(stamps \cup {wall}) \in Int /\ wall \in Int
    BY EarliestIsFirst DEF TypeOK
  <2>2. [from |-> sockets[s].url, stamps |-> stamps] \in Snapshots
    BY <2>1 DEF TypeOK, Snapshots
  <2>3. state' \in ConnectionStates
    BY <1>6, <2>1, <2>2 DEF onmessage, ShowSnapshot, TypeOK, ConnectionStates
  <2>4. staleTimer' \in Nat \cup {NoTimer}
    BY <1>6, <2>1, ClientAssumption DEF onmessage, StaleDelay, TypeOK, Longest
  <2> QED BY <1>6, <2>3, <2>4 DEF onmessage, TypeOK, clockVars
<1>7. ASSUME NEW s \in Sockets, onerror(s) PROVE TypeOK'
  <2>1. state' \in ConnectionStates
    BY <1>7, SetStatusType DEF onerror, ConnectionStatuses
  <2>2. sockets' \in [Sockets -> [readyState : ReadyStates, url : Urls \cup {NoUrl}]]
    BY <1>7, ClosingType DEF onerror
  <2>3. reconnectTimer' \in BOOLEAN /\ reconnectAttempt' \in Nat
    BY <1>7, ScheduleHolds DEF onerror
  <2> QED BY <1>7, <2>1, <2>2, <2>3 DEF onerror, TypeOK, clockVars
<1>8. ASSUME NEW s \in Sockets, onclose(s) PROVE TypeOK'
  <2>1. state' \in ConnectionStates /\ nowMs' \in Int
    BY <1>8, SetStatusType DEF onclose, TypeOK, ConnectionStatuses
  <2>2. sockets' \in [Sockets -> [readyState : ReadyStates, url : Urls \cup {NoUrl}]]
    BY <1>8 DEF onclose, TypeOK, ReadyStates
  <2>3. /\ reconnectTimer' \in BOOLEAN /\ reconnectAttempt' \in Nat
        /\ socket' \in Sockets \cup {NoSocket}
    <3>1. CASE isActive(s)
      BY <1>8, <3>1, ScheduleHolds DEF onclose
    <3>2. CASE ~isActive(s)
      BY <1>8, <3>2 DEF onclose, TypeOK
    <3> QED BY <3>1, <3>2
  <2> QED BY <1>8, <2>1, <2>2, <2>3 DEF onclose, TypeOK, clockVars
<1>9. CASE StaleTimerFires \/ Tick \/ StepBack
  BY <1>9 DEF StaleTimerFires, Tick, StepBack, TypeOK, connectionVars, clockVars, NoTimer
<1>10. CASE UNCHANGED vars
  BY <1>10 DEF vars, TypeOK, connectionVars, clockVars
<1> QED BY <1>1, <1>2, <1>3, <1>4, <1>5, <1>6, <1>7, <1>8, <1>9, <1>10 DEF Next

\* The socket held, the timer beside it, and every other socket.
LEMMA ConnectionIsPreserved ==
    ASSUME ClientIInv, [Next]_vars
    PROVE  ConnectionInv' /\ OneLiveSocket' /\ NeverDisconnectedForGood'
<1> USE DEF ClientIInv
<1>0. TypeOK'
  BY TypeIsPreserved
<1>1. ASSUME NEW u \in Urls, Rerender(u)
      PROVE  ConnectionInv' /\ OneLiveSocket' /\ NeverDisconnectedForGood'
  BY <1>1, ClientAssumption
  DEF Rerender, connectionVars, ConnectionInv, OneLiveSocket, NeverDisconnectedForGood
<1>2. CASE RunEffects
  <2>1. url \in Urls /\ effect_url' = url /\ url' = url /\ ~reconnectTimer'
    BY <1>2 DEF RunEffects, ConnectionInv, TypeOK
  <2>2. \A s \in Sockets : AfterCleanup[s].readyState \notin {"connecting", "open"}
    BY CleanupCloses
  <2>3. /\ socket' \in Sockets \cup {NoSocket}
        /\ socket' = NoSocket => sockets' = AfterCleanup /\ url \in InvalidUrls
        /\ socket' # NoSocket =>
              sockets' = [AfterCleanup EXCEPT ![socket'] =
                            [readyState |-> "connecting", url |-> url]]
    BY <1>2, <2>1, CurrentStateType, CleanupCloses, ConnectHolds
    DEF RunEffects, ConnectionStatuses
  <2>4. AfterCleanup \in [Sockets -> [readyState : ReadyStates, url : Urls \cup {NoUrl}]]
    BY CleanupCloses
  <2> HIDE DEF ClientIInv
  <2> QED BY <2>1, <2>2, <2>3, <2>4, ClientAssumption
          DEF ConnectionInv, OneLiveSocket, NeverDisconnectedForGood, ReadyStates
<1>3. CASE Unmount
  <2>1. \A s \in Sockets : AfterCleanup[s].readyState \notin {"connecting", "open"}
    BY CleanupCloses
  <2> QED BY <1>3, <2>1, ClientAssumption
          DEF Unmount, ConnectionInv, OneLiveSocket, NeverDisconnectedForGood
<1>4. CASE ReconnectFires
  <2>1. effect_url \in Urls /\ socket = NoSocket /\ ~reconnectTimer'
    BY <1>4 DEF ReconnectFires, ConnectionInv
  <2>2. /\ socket' \in Sockets \cup {NoSocket}
        /\ socket' = NoSocket => sockets' = sockets /\ effect_url \in InvalidUrls
        /\ socket' # NoSocket =>
              sockets' = [sockets EXCEPT ![socket'] =
                            [readyState |-> "connecting", url |-> effect_url]]
    BY <1>4, <2>1, ConnectHolds DEF ReconnectFires, TypeOK, ConnectionStatuses
  <2>3. \A s \in Sockets : sockets[s].readyState \notin {"connecting", "open"}
    BY <2>1, ClientAssumption DEF OneLiveSocket, Sockets, NoSocket
  <2> QED BY <1>4, <2>1, <2>2, <2>3, ClientAssumption
          DEF ReconnectFires, ConnectionInv, OneLiveSocket, NeverDisconnectedForGood, TypeOK
<1>5. ASSUME NEW s \in Sockets, Opens(s)
      PROVE  ConnectionInv' /\ OneLiveSocket' /\ NeverDisconnectedForGood'
  BY <1>5 DEF Opens, TypeOK, ConnectionInv, OneLiveSocket, NeverDisconnectedForGood
<1>6. ASSUME NEW s \in Sockets, NEW stamps \in Stamps, onmessage(s, stamps)
      PROVE  ConnectionInv' /\ OneLiveSocket' /\ NeverDisconnectedForGood'
  BY <1>6 DEF onmessage, ConnectionInv, OneLiveSocket, NeverDisconnectedForGood
<1>7. ASSUME NEW s \in Sockets, onerror(s)
      PROVE  ConnectionInv' /\ OneLiveSocket' /\ NeverDisconnectedForGood'
  <2>1. /\ socket = s /\ socket' = NoSocket /\ sockets' = Closing(s)
        /\ effect_url' = effect_url /\ url' = url /\ reconnectTimer'
    BY <1>7 DEF onerror, isActive, scheduleReconnect, TypeOK
  <2>2. effect_url \in Urls
    BY <2>1, ClientAssumption DEF ConnectionInv, Sockets, NoSocket
  <2>3. \A x \in Sockets : Closing(s)[x].readyState \notin {"connecting", "open"}
    BY <2>1, ClosingType DEF OneLiveSocket
  <2> QED BY <2>1, <2>2, <2>3, ClientAssumption
          DEF ConnectionInv, OneLiveSocket, NeverDisconnectedForGood
<1>8. ASSUME NEW s \in Sockets, onclose(s)
      PROVE  ConnectionInv' /\ OneLiveSocket' /\ NeverDisconnectedForGood'
  <2>1. /\ sockets' = [sockets EXCEPT ![s].readyState = "closed"]
        /\ effect_url' = effect_url /\ url' = url
    BY <1>8 DEF onclose
  <2>2. CASE socket = s
    <3>1. socket' = NoSocket /\ reconnectTimer' /\ effect_url \in Urls
      BY <1>8, <2>2, ClientAssumption
      DEF onclose, isActive, scheduleReconnect, TypeOK, ConnectionInv, Sockets, NoSocket
    <3> QED BY <2>1, <2>2, <3>1, ClientAssumption
            DEF ConnectionInv, OneLiveSocket, NeverDisconnectedForGood, TypeOK
  <2>3. CASE socket # s
    <3>1. socket' = socket /\ reconnectTimer' = reconnectTimer
      BY <1>8, <2>3 DEF onclose, isActive
    <3> QED BY <2>1, <2>3, <3>1
            DEF ConnectionInv, OneLiveSocket, NeverDisconnectedForGood, TypeOK
  <2> QED BY <2>2, <2>3
<1>9. CASE StaleTimerFires \/ Tick \/ StepBack
  BY <1>9 DEF StaleTimerFires, Tick, StepBack, connectionVars, clockVars,
              ConnectionInv, OneLiveSocket, NeverDisconnectedForGood
<1>10. CASE UNCHANGED vars
  BY <1>10 DEF vars, connectionVars, ConnectionInv, OneLiveSocket, NeverDisconnectedForGood
<1> QED BY <1>1, <1>2, <1>3, <1>4, <1>5, <1>6, <1>7, <1>8, <1>9, <1>10 DEF Next

\* The state follows the mounted endpoint, and a snapshot its socket.
LEMMA StateIsPreserved ==
    ASSUME ClientIInv, [Next]_vars
    PROVE  StateInv'
<1> USE DEF ClientIInv
<1>1. ASSUME NEW u \in Urls, Rerender(u) PROVE StateInv'
  BY <1>1, ClientAssumption DEF Rerender, connectionVars, StateInv
<1>2. CASE RunEffects
  <2>1. url \in Urls /\ effect_url' = url /\ url' = url
    BY <1>2 DEF RunEffects, ConnectionInv, TypeOK
  <2>2. currentState \in ConnectionStates /\ currentState.url = url
    BY <2>1, CurrentStateType
  <2>3. /\ state' \in ConnectionStates
        /\ state' = [currentState EXCEPT !.connectionStatus = state'.connectionStatus]
    BY <1>2, <2>1, <2>2, CleanupCloses, ConnectHolds DEF RunEffects, ConnectionStatuses
  <2>4. state'.url = url /\ state'.snapshot = currentState.snapshot
    BY <2>2, <2>3 DEF ConnectionStates
  <2>5. currentState.snapshot # NoSnapshot => currentState.snapshot.from = currentState.url
    BY DEF currentState, initialState, StateInv
  <2> QED BY <2>1, <2>2, <2>4, <2>5, ClientAssumption DEF StateInv
<1>3. CASE Unmount
  BY <1>3, ClientAssumption DEF Unmount, StateInv
<1>4. CASE ReconnectFires
  <2>1. effect_url \in Urls /\ effect_url' = effect_url /\ url' = url
    BY <1>4 DEF ReconnectFires, ConnectionInv
  <2>2. /\ state' \in ConnectionStates
        /\ state' = [state EXCEPT !.connectionStatus = state'.connectionStatus]
    BY <1>4, <2>1, ConnectHolds DEF ReconnectFires, TypeOK, ConnectionStatuses
  <2>3. state'.url = state.url /\ state'.snapshot = state.snapshot
    BY <2>2 DEF TypeOK, ConnectionStates
  <2> QED BY <2>1, <2>3, ClientAssumption DEF StateInv
<1>5. ASSUME NEW s \in Sockets, Opens(s) PROVE StateInv'
  <2>1. state'.url = state.url /\ state'.snapshot = state.snapshot
    BY <1>5, SetStatusType DEF Opens, ConnectionStatuses
  <2> QED BY <1>5, <2>1 DEF Opens, StateInv
<1>6. ASSUME NEW s \in Sockets, NEW stamps \in Stamps, onmessage(s, stamps) PROVE StateInv'
  <2>1. /\ socket = s /\ s # NoSocket /\ effect_url \in Urls
        /\ sockets[s].url = effect_url /\ state.url = effect_url
    BY <1>6, ClientAssumption
    DEF onmessage, isActive, Sockets, NoSocket, ConnectionInv, StateInv
  <2>2. state'.url = state.url /\ state'.snapshot.from = sockets[s].url
    <3>1. state' = [state EXCEPT
                      !.snapshot = [from |-> sockets[s].url, stamps |-> stamps],
                      !.lastSnapshotReceivedAtMs = wall]
      BY <1>6, <2>1 DEF onmessage, ShowSnapshot
    <3> QED BY <3>1 DEF TypeOK, ConnectionStates
  <2> QED BY <1>6, <2>1, <2>2, ClientAssumption DEF onmessage, StateInv
<1>7. ASSUME NEW s \in Sockets, onerror(s) \/ onclose(s) PROVE StateInv'
  <2>1. state'.url = state.url /\ state'.snapshot = state.snapshot
    BY <1>7, SetStatusType DEF onerror, onclose, ConnectionStatuses
  <2> QED BY <1>7, <2>1 DEF onerror, onclose, StateInv
<1>8. CASE StaleTimerFires \/ Tick \/ StepBack
  BY <1>8 DEF StaleTimerFires, Tick, StepBack, connectionVars, StateInv
<1>9. CASE UNCHANGED vars
  BY <1>9 DEF vars, connectionVars, StateInv
<1> QED BY <1>1, <1>2, <1>3, <1>4, <1>5, <1>6, <1>7, <1>8, <1>9 DEF Next

\* What the timer's promise depends on: it is kept by a step that leaves the snapshot
\* and the timer alone and the clocks in order.
LEMMA TimerKept ==
    ASSUME TimerInv, TypeOK, TypeOK', wall' = wall, stepsBack' = stepsBack,
           staleTimer' = staleTimer, url' = url, state'.url = state.url,
           state'.snapshot = state.snapshot,
           state'.lastSnapshotReceivedAtMs = state.lastSnapshotReceivedAtMs,
           nowMs' = nowMs \/ nowMs' = wall
    PROVE  TimerInv'
<1> SUFFICES ASSUME stepsBack' = 0, state'.url = url', state'.snapshot # NoSnapshot
             PROVE  /\ nowMs' <= wall'
                    /\ staleTimer' > 0 =>
                          \A t \in ShownTimes' : wall' + staleTimer' <= t + staleAfterMs
                    /\ staleTimer' # NoTimer =>
                          \E t \in ShownTimes' : wall' + staleTimer' >= t + staleAfterMs
                    /\ staleTimer' = NoTimer =>
                          \E t \in ShownTimes' : nowMs' >= t + staleAfterMs
  BY DEF TimerInv
<1>1. ShownTimes' = ShownTimes
  BY DEF ShownTimes
<1>2. ShownTimes \subseteq Int
  BY DEF ShownTimes, TypeOK, ConnectionStates, Snapshots
<1>3. nowMs <= wall /\ nowMs \in Int /\ wall \in Int /\ nowMs' >= nowMs /\ nowMs' <= wall'
  BY DEF TimerInv, TypeOK
<1>4. staleTimer = NoTimer => \E t \in ShownTimes : nowMs' >= t + staleAfterMs
  <2> SUFFICES ASSUME staleTimer = NoTimer
               PROVE  \E t \in ShownTimes : nowMs' >= t + staleAfterMs
    OBVIOUS
  <2>1. PICK t \in ShownTimes : nowMs >= t + staleAfterMs
    BY DEF TimerInv
  <2>2. nowMs' >= t + staleAfterMs
    BY <1>2, <1>3, <2>1, ClientAssumption DEF TypeOK
  <2> QED BY <2>2
<1> QED BY <1>1, <1>3, <1>4 DEF TimerInv

\* The freshness timer is due when the first of the snapshot's times is too old.
LEMMA TimerIsPreserved ==
    ASSUME ClientIInv, [Next]_vars
    PROVE  TimerInv'
<1> USE DEF ClientIInv
<1>0. TypeOK'
  BY TypeIsPreserved
<1>1. ASSUME NEW u \in Urls, Rerender(u) PROVE TimerInv'
  <2>1. effect_url = url /\ url \in Urls /\ u # url /\ url' = u /\ state' = state
    BY <1>1 DEF Rerender, TypeOK
  <2>2. state.url = url
    BY <2>1 DEF StateInv
  <2> QED BY <2>1, <2>2 DEF TimerInv
<1>2. CASE RunEffects
  <2>1. url \in Urls /\ url' = url /\ effect_url # url
    BY <1>2 DEF RunEffects, ConnectionInv, TypeOK
  <2>2. currentState \in ConnectionStates /\ currentState.url = url
    BY <2>1, CurrentStateType
  <2>3. /\ state' \in ConnectionStates
        /\ state' = [currentState EXCEPT !.connectionStatus = state'.connectionStatus]
    BY <1>2, <2>1, <2>2, CleanupCloses, ConnectHolds DEF RunEffects, ConnectionStatuses
  <2>4. state'.snapshot = currentState.snapshot
    BY <2>2, <2>3 DEF ConnectionStates
  <2>5. currentState.snapshot = NoSnapshot
    <3>1. CASE effect_url = NoUrl
      BY <2>1, <3>1, ClientAssumption DEF StateInv, currentState, initialState
    <3>2. CASE effect_url # NoUrl
      BY <2>1, <3>2 DEF StateInv, TypeOK, currentState, initialState
    <3> QED BY <3>1, <3>2
  <2> QED BY <2>4, <2>5 DEF TimerInv, NoSnapshot
<1>3. CASE Unmount
  <2>1. url' = NoUrl /\ state' = state
    BY <1>3 DEF Unmount
  <2> QED BY <2>1, ClientAssumption DEF TimerInv, TypeOK, ConnectionStates
<1>4. CASE ReconnectFires
  <2>1. effect_url \in Urls
    BY <1>4 DEF ReconnectFires, ConnectionInv
  <2>2. /\ state' \in ConnectionStates
        /\ state' = [state EXCEPT !.connectionStatus = state'.connectionStatus]
    BY <1>4, <2>1, ConnectHolds DEF ReconnectFires, TypeOK, ConnectionStatuses
  <2>3. /\ state'.url = state.url /\ state'.snapshot = state.snapshot
        /\ state'.lastSnapshotReceivedAtMs = state.lastSnapshotReceivedAtMs
    BY <2>2 DEF TypeOK, ConnectionStates
  <2> QED BY <1>0, <1>4, <2>3, TimerKept DEF ReconnectFires, clockVars
<1>5. ASSUME NEW s \in Sockets, Opens(s) PROVE TimerInv'
  <2>1. /\ state'.url = state.url /\ state'.snapshot = state.snapshot
        /\ state'.lastSnapshotReceivedAtMs = state.lastSnapshotReceivedAtMs
    BY <1>5, SetStatusType DEF Opens, ConnectionStatuses
  <2> QED BY <1>0, <1>5, <2>1, TimerKept DEF Opens, clockVars
<1>6. ASSUME NEW s \in Sockets, NEW stamps \in Stamps, onmessage(s, stamps) PROVE TimerInv'
  <2> DEFINE first == Earliest(stamps \cup {wall})
  <2>1. /\ wall \in Int /\ stamps \in SUBSET Int /\ first \in stamps \cup {wall}
        /\ \A t \in stamps \cup {wall} : first <= t
    BY EarliestIsFirst DEF TypeOK
  <2> HIDE DEF first
  <2>2. /\ socket = s /\ effect_url \in Urls
        /\ sockets[s].url = effect_url /\ state.url = effect_url
    BY <1>6, ClientAssumption
    DEF onmessage, isActive, Sockets, NoSocket, ConnectionInv, StateInv
  <2>3. /\ state'.url = effect_url /\ url' = url /\ nowMs' = wall /\ wall' = wall
        /\ ShownTimes' = stamps \cup {wall}
    <3>1. state' = [state EXCEPT
                      !.snapshot = [from |-> sockets[s].url, stamps |-> stamps],
                      !.lastSnapshotReceivedAtMs = wall]
      BY <1>6, <2>2 DEF onmessage, ShowSnapshot
    <3>2. url' = url /\ nowMs' = wall /\ wall' = wall
      BY <1>6 DEF onmessage, clockVars
    <3> QED BY <2>2, <3>1, <3>2 DEF TypeOK, ConnectionStates, ShownTimes
  <2>4. CASE effect_url # url
    BY <2>3, <2>4 DEF TimerInv
  <2>5. CASE effect_url = url
    <3>1. staleTimer' = Longest(0, first + staleAfterMs - wall)
      BY <1>6, <2>2, <2>5 DEF onmessage, StaleDelay, first
    <3>2. /\ staleTimer' # NoTimer
          /\ wall + staleTimer' >= first + staleAfterMs
          /\ staleTimer' > 0 => wall + staleTimer' = first + staleAfterMs
      BY <2>1, <3>1, ClientAssumption DEF Longest, NoTimer
    <3>3. staleTimer' > 0 =>
            \A t \in stamps \cup {wall} : wall + staleTimer' <= t + staleAfterMs
      BY <2>1, <3>2, ClientAssumption
    <3> QED BY <2>1, <2>3, <3>2, <3>3 DEF TimerInv
  <2> QED BY <2>4, <2>5
<1>7. ASSUME NEW s \in Sockets, onerror(s) \/ onclose(s) PROVE TimerInv'
  <2>1. /\ state'.url = state.url /\ state'.snapshot = state.snapshot
        /\ state'.lastSnapshotReceivedAtMs = state.lastSnapshotReceivedAtMs
    BY <1>7, SetStatusType DEF onerror, onclose, ConnectionStatuses
  <2> QED BY <1>0, <1>7, <2>1, TimerKept DEF onerror, onclose, clockVars
<1>8. CASE StaleTimerFires
  <2>1. /\ staleTimer = 0 /\ staleTimer' = NoTimer /\ nowMs' = wall /\ wall' = wall
        /\ stepsBack' = stepsBack /\ url' = url /\ state' = state
    BY <1>8 DEF StaleTimerFires, clockVars
  <2>2. ShownTimes' = ShownTimes /\ wall \in Int
    BY <2>1 DEF ShownTimes, TypeOK
  <2> QED BY <2>1, <2>2 DEF TimerInv, NoTimer
<1>9. CASE Tick
  <2>1. /\ wall' = wall + 1 /\ nowMs' = nowMs /\ stepsBack' = stepsBack
        /\ url' = url /\ state' = state
        /\ staleTimer' = IF staleTimer > 0 THEN staleTimer - 1 ELSE staleTimer
    BY <1>9 DEF Tick
  <2>2. /\ ShownTimes' = ShownTimes /\ ShownTimes \subseteq Int
        /\ wall \in Int /\ nowMs \in Int /\ staleTimer \in Nat \cup {NoTimer}
    BY <2>1 DEF ShownTimes, TypeOK, ConnectionStates, Snapshots
  <2> SUFFICES ASSUME stepsBack = 0, state.url = url, state.snapshot # NoSnapshot
               PROVE  /\ nowMs' <= wall'
                      /\ staleTimer' > 0 =>
                            \A t \in ShownTimes : wall' + staleTimer' <= t + staleAfterMs
                      /\ staleTimer' # NoTimer =>
                            \E t \in ShownTimes : wall' + staleTimer' >= t + staleAfterMs
                      /\ staleTimer' = NoTimer =>
                            \E t \in ShownTimes : nowMs' >= t + staleAfterMs
    BY <2>1, <2>2 DEF TimerInv
  <2>3. CASE staleTimer > 0
    BY <2>1, <2>2, <2>3 DEF TimerInv, NoTimer
  <2>4. CASE staleTimer = 0
    <3>1. PICK t \in ShownTimes : wall + staleTimer >= t + staleAfterMs
      BY <2>4 DEF TimerInv, NoTimer
    <3>2. wall' + staleTimer' >= t + staleAfterMs
      BY <2>1, <2>2, <2>4, <3>1, ClientAssumption
    <3> QED BY <2>1, <2>2, <2>4, <3>2 DEF TimerInv, NoTimer
  <2>5. CASE staleTimer = NoTimer
    BY <2>1, <2>2, <2>5 DEF TimerInv, NoTimer
  <2> QED BY <2>2, <2>3, <2>4, <2>5
<1>10. CASE StepBack
  BY <1>10 DEF StepBack, TimerInv, TypeOK
<1>11. CASE UNCHANGED vars
  <2>1. ShownTimes' = ShownTimes
    BY <1>11 DEF vars, ShownTimes
  <2> QED BY <1>11, <2>1 DEF vars, clockVars, TimerInv
<1> QED BY <1>1, <1>2, <1>3, <1>4, <1>5, <1>6, <1>7, <1>8, <1>9, <1>10, <1>11 DEF Next

-----------------------------------------------------------------------------
(* The theorems                                                            *)

\* A page that has just mounted satisfies the invariant.
LEMMA InitClient == Init => ClientIInv
<1> SUFFICES ASSUME Init PROVE ClientIInv
  OBVIOUS
<1>1. state = initialState(url) /\ url \in Urls
  BY DEF Init
<1>2. state \in ConnectionStates /\ state.url = url /\ state.snapshot = NoSnapshot
  BY <1>1
  DEF initialState, ConnectionStates, ConnectionStatuses, Snapshots, NoSnapshot, NoTime
<1>3. TypeOK
  <2>1. sockets \in [Sockets -> [readyState : ReadyStates, url : Urls \cup {NoUrl}]]
    BY DEF Init, ReadyStates
  <2>2. socket \in Sockets \cup {NoSocket} /\ staleTimer \in Nat \cup {NoTimer}
    BY DEF Init
  <2>3. /\ {url, effect_url} \subseteq Urls \cup {NoUrl}
        /\ nowMs \in Int /\ wall \in Int /\ reconnectAttempt \in Nat
        /\ {silence, elapsed, stepsBack} \subseteq Nat
    BY DEF Init
  <2>4. reconnectTimer \in BOOLEAN
    BY DEF Init
  <2> QED BY <1>2, <2>1, <2>2, <2>3, <2>4 DEF TypeOK
<1>4. ConnectionInv /\ OneLiveSocket /\ NeverDisconnectedForGood
  BY <1>1, ClientAssumption DEF Init, ConnectionInv, OneLiveSocket, NeverDisconnectedForGood
<1>5. StateInv /\ TimerInv
  BY <1>1, <1>2, ClientAssumption DEF Init, StateInv, TimerInv
<1> QED BY <1>3, <1>4, <1>5 DEF ClientIInv

\* The hook's socket, its reconnect timer, the state it shows and the freshness timer
\* stay in step through every order of renders, effects, events and timers.
THEOREM ClientInvariant == Spec => []ClientIInv
<1>1. Init => ClientIInv
  BY InitClient
<1>2. ClientIInv /\ [Next]_vars => ClientIInv'
  BY TypeIsPreserved, ConnectionIsPreserved, StateIsPreserved, TimerIsPreserved
  DEF ClientIInv
<1> QED BY <1>1, <1>2, PTL DEF Spec

\* Only one WebSocket ever lives, and never beside a scheduled reconnect.
THEOREM OneLiveSocketTheorem == Spec => []OneLiveSocket
<1>1. ClientIInv => OneLiveSocket
  BY DEF ClientIInv
<1> QED BY <1>1, ClientInvariant, PTL

\* An endpoint that a WebSocket can be constructed for is never given up.
THEOREM NeverDisconnectedTheorem == Spec => []NeverDisconnectedForGood
<1>1. ClientIInv => NeverDisconnectedForGood
  BY DEF ClientIInv
<1> QED BY <1>1, ClientInvariant, PTL

\* The page never shows vehicles of an endpoint it has moved on from.
THEOREM ShownIsFromUrlTheorem == Spec => []ShownIsFromUrl
<1>1. ClientIInv => ShownIsFromUrl
  BY DEF ClientIInv, StateInv, ShownIsFromUrl, currentState, initialState
<1> QED BY <1>1, ClientInvariant, PTL

\* What fresh data implies: they are those of the state, and evaluated in time.
LEMMA FreshShows ==
    ASSUME TypeOK, dataStatus = "fresh"
    PROVE  /\ currentState = state /\ state.url = url /\ state.snapshot # NoSnapshot
           /\ ShownTimes \subseteq Int
           /\ \A t \in ShownTimes : nowMs - t < staleAfterMs
<1>1. currentState.snapshot # NoSnapshot
  BY DEF dataStatus
<1>2. state.url = url /\ currentState = state
  BY <1>1 DEF currentState, initialState
<1>3. ShownTimes \subseteq Int
  BY DEF ShownTimes, TypeOK, ConnectionStates, Snapshots
<1>4. \A t \in ShownTimes : ~(nowMs - t >= staleAfterMs)
  BY <1>1, <1>2 DEF dataStatus, ShownTimes
<1>5. \A t \in ShownTimes : nowMs - t < staleAfterMs
  BY <1>3, <1>4, ClientAssumption DEF TypeOK
<1> QED BY <1>1, <1>2, <1>3, <1>5

\* Data that are shown as fresh are recent in all their times, but for a freshness
\* timer that is due and a wall clock that was set back.
THEOREM FreshIsRecentTheorem == Spec => []FreshIsRecent
<1>1. ClientIInv => FreshIsRecent
  <2> SUFFICES ASSUME ClientIInv, dataStatus = "fresh", staleTimer # 0, stepsBack = 0,
                      NEW t \in ShownTimes
               PROVE  wall - t < staleAfterMs
    BY FreshShows DEF FreshIsRecent, ShownTimes, ClientIInv
  <2>1. /\ state.url = url /\ state.snapshot # NoSnapshot /\ ShownTimes \subseteq Int
        /\ \A x \in ShownTimes : nowMs - x < staleAfterMs
    BY FreshShows DEF ClientIInv
  <2>2. /\ nowMs \in Int /\ wall \in Int /\ staleTimer \in Nat \cup {NoTimer}
        /\ staleAfterMs \in Nat
    BY ClientAssumption DEF ClientIInv, TypeOK
  <2>3. staleTimer # NoTimer
    <3> SUFFICES ASSUME staleTimer = NoTimer PROVE FALSE
      OBVIOUS
    <3>1. PICK x \in ShownTimes : nowMs >= x + staleAfterMs
      BY <2>1 DEF ClientIInv, TimerInv
    <3> QED BY <2>1, <2>2, <3>1
  <2>4. staleTimer > 0
    BY <2>2, <2>3 DEF NoTimer
  <2>5. wall + staleTimer <= t + staleAfterMs
    BY <2>1, <2>4 DEF ClientIInv, TimerInv
  <2> QED BY <2>1, <2>2, <2>4, <2>5
<1> QED BY <1>1, ClientInvariant, PTL

\* A connection that has gone silent is shown as stale once its timer has run, unless
\* the wall clock was set back.
THEOREM SilentIsStaleTheorem == Spec => []SilentIsStale
<1>1. ClientIInv => SilentIsStale
  <2> SUFFICES ASSUME ClientIInv, stepsBack = 0, staleTimer = NoTimer, dataStatus = "fresh"
               PROVE  FALSE
    BY DEF SilentIsStale, StaleAfterSilence
  <2>1. /\ state.url = url /\ state.snapshot # NoSnapshot /\ ShownTimes \subseteq Int
        /\ \A x \in ShownTimes : nowMs - x < staleAfterMs
    BY FreshShows DEF ClientIInv
  <2>2. PICK x \in ShownTimes : nowMs >= x + staleAfterMs
    BY <2>1 DEF ClientIInv, TimerInv
  <2> QED BY <2>1, <2>2, ClientAssumption DEF ClientIInv, TypeOK
<1> QED BY <1>1, ClientInvariant, PTL

\* Only a valid snapshot, or another endpoint, starts the backoff anew.
THEOREM BackoffSurvivesOpenTheorem == Spec => BackoffSurvivesOpen
<1> DEFINE Anew == \/ effect_url' # effect_url
                   \/ silence' = 0 /\ state'.lastSnapshotReceivedAtMs = wall
<1>1. ClientIInv /\ [Next]_vars => [reconnectAttempt' < reconnectAttempt => Anew]_vars
  <2> SUFFICES ASSUME ClientIInv, TypeOK, [Next]_vars, reconnectAttempt' < reconnectAttempt
               PROVE  Anew
    BY DEF ClientIInv
  <2>1. ASSUME UNCHANGED reconnectAttempt PROVE FALSE
    BY <2>1 DEF TypeOK
  <2>2. ASSUME scheduleReconnect PROVE FALSE
    <3>1. reconnectAttempt \in Nat
      BY DEF TypeOK
    <3> QED BY <2>2, <3>1, ScheduleHolds
  <2>3. CASE RunEffects
    BY <2>3 DEF RunEffects
  <2>4. ASSUME NEW s \in Sockets, NEW stamps \in Stamps, onmessage(s, stamps) PROVE Anew
    <3>1. state.url = sockets[s].url
      BY <2>4, ClientAssumption
      DEF onmessage, isActive, Sockets, NoSocket, ClientIInv, ConnectionInv, StateInv
    <3> QED BY <2>4, <3>1 DEF onmessage, ShowSnapshot, TypeOK, ConnectionStates
  <2>5. ASSUME NEW s \in Sockets, onerror(s) \/ onclose(s) PROVE Anew
    BY <2>1, <2>2, <2>5 DEF onerror, onclose
  <2>6. ASSUME \/ (\E u \in Urls : Rerender(u)) \/ Unmount \/ ReconnectFires
               \/ (\E s \in Sockets : Opens(s))
               \/ StaleTimerFires \/ Tick \/ StepBack \/ UNCHANGED vars
        PROVE  FALSE
    BY <2>1, <2>6 DEF Rerender, Unmount, ReconnectFires, Opens, StaleTimerFires, Tick,
                      StepBack, vars, connectionVars
  <2> QED BY <2>3, <2>4, <2>5, <2>6 DEF Next
<1> QED BY <1>1, ClientInvariant, PTL DEF Spec, BackoffSurvivesOpen
=============================================================================
