------------------------ MODULE PositionServerProofs ------------------------
(***************************************************************************)
(* Safety of the hub and of the request handlers over it, for every set of *)
(* sockets and every number of publications.  The first part is about      *)
(* PositionHub alone; the composition takes only steps of the hub, so what *)
(* is shown of the hub holds in it.                                        *)
(***************************************************************************)
EXTENDS PositionServer, TLAPS

-----------------------------------------------------------------------------
(* The inductive invariant of the hub                                      *)

\* Who holds a socket's send_lock is where its coroutines stand.
LockInv ==
    \A s \in Sockets :
        /\ send_lock[s] = "connect" <=> ReplayInProgress(s)
        /\ send_lock[s] = "publish" <=> SendInProgress(s)

\* Waiting publish() calls are newer than what is retained, and the one under
\* way is the retained one.
QueueInv ==
    /\ latest_snapshot <= published
    /\ \A n \in waiting : latest_snapshot < n /\ n <= published
    /\ publishing \in {0, latest_snapshot}
    /\ publishing = 0 => \A s \in Sockets : outcome[s] = "none"

\* What a socket was handed, against what is still on its way to it.
SeenInv ==
    \A s \in Sockets :
        /\ replay[s] <= latest_snapshot /\ seen[s] <= latest_snapshot
        /\ phase[s] \in {"new", "accepting"} =>
              replay[s] = 0 /\ seen[s] = 0 /\ s \notin connections /\ outcome[s] = "none"
        /\ phase[s] = "replaying" => seen[s] = 0 /\ replay[s] > 0
        /\ outcome[s] \in {"pending", "sending"} =>
              seen[s] < publishing /\ replay[s] < publishing

\* A registered socket has the retained snapshot, or it is being replayed to
\* it, or a task of the fan-out under way has not settled or has failed.
CurrentInv ==
    /\ \A s \in Sockets : outcome[s] = "sent" => phase[s] # "replaying"
    /\ ~cut => \A s \in connections :
          /\ outcome[s] # "skipped"
          /\ outcome[s] \in {"written", "sent"} => seen[s] = latest_snapshot
          /\ outcome[s] = "none" =>
                /\ phase[s] = "replaying" => replay[s] = latest_snapshot
                /\ phase[s] \in {"replayed", "connected"} => seen[s] = latest_snapshot

IInv == TypeOK /\ LockInv /\ QueueInv /\ SeenInv /\ CurrentInv /\ FailedIsForgotten

-----------------------------------------------------------------------------
(* The proofs                                                              *)

\* A hub nobody connected to satisfies the invariant.
LEMMA InitIInv == Init => IInv
<1> SUFFICES ASSUME Init
             PROVE  IInv
  OBVIOUS
<1> USE DEF Init
<1>1. TypeOK
  <2>1. 0 \in 0 .. MaxPublished
    BY MaxPublishedAssumption
  <2>2. cut \in BOOLEAN /\ waiting \subseteq Snapshots /\ connections \subseteq Sockets
    OBVIOUS
  <2> QED
    BY <2>1, <2>2 DEF TypeOK, Phases, Outcomes, Holders
<1>2. LockInv /\ FailedIsForgotten
  BY DEF LockInv, FailedIsForgotten, ReplayInProgress, SendInProgress
<1>3. QueueInv /\ SeenInv /\ CurrentInv
  BY DEF QueueInv, SeenInv, CurrentInv
<1> QED
  BY <1>1, <1>2, <1>3 DEF IInv

\* Each action of connect() and disconnect() preserves the invariant.
LEMMA ConnectStepIInv ==
    ASSUME IInv, NEW s \in Sockets, ConnectStep(s) \/ Disconnect(s)
    PROVE  IInv'
<1> USE MaxPublishedAssumption
    DEF IInv, TypeOK, LockInv, QueueInv, SeenInv, CurrentInv, FailedIsForgotten,
        Phases, Outcomes, Holders, Snapshots, ReplayInProgress, SendInProgress,
        publishVars
<1>1. CASE Connect(s)
  BY <1>1 DEF Connect
<1>2. CASE AcceptFails(s)
  BY <1>2 DEF AcceptFails
<1>3. CASE Register(s)
  BY <1>3 DEF Register
<1>4. CASE ReplayWrites(s)
  BY <1>4 DEF ReplayWrites
<1>5. CASE ReplayReturns(s)
  BY <1>5 DEF ReplayReturns
<1>6. CASE ReplayFails(s)
  BY <1>6 DEF ReplayFails
<1>7. CASE Disconnect(s)
  BY <1>7 DEF Disconnect
<1> QED
  BY <1>1, <1>2, <1>3, <1>4, <1>5, <1>6, <1>7 DEF ConnectStep

\* Each action of a task that sends the published snapshot preserves it.
LEMMA SendStepIInv ==
    ASSUME IInv, NEW s \in Sockets, SendStep(s)
    PROVE  IInv'
<1> USE MaxPublishedAssumption
    DEF IInv, TypeOK, LockInv, QueueInv, SeenInv, CurrentInv, FailedIsForgotten,
        Phases, Outcomes, Holders, Snapshots, ReplayInProgress, SendInProgress,
        connectVars
<1>1. CASE TakeSendLock(s)
  BY <1>1 DEF TakeSendLock
<1>2. CASE SendWrites(s)
  BY <1>2 DEF SendWrites
<1>3. CASE SendReturns(s)
  BY <1>3 DEF SendReturns
<1>4. CASE SendFails(s)
  BY <1>4 DEF SendFails
<1> QED
  BY <1>1, <1>2, <1>3, <1>4 DEF SendStep

\* Each action of publish() preserves it.
LEMMA PublishStepIInv ==
    ASSUME IInv, PublishStep
    PROVE  IInv'
<1> USE MaxPublishedAssumption
    DEF IInv, TypeOK, LockInv, QueueInv, SeenInv, CurrentInv, FailedIsForgotten,
        Phases, Outcomes, Holders, Snapshots, ReplayInProgress, SendInProgress,
        connectVars
<1>1. CASE Publish
  BY <1>1 DEF Publish
<1>2. ASSUME NEW n \in waiting, StartFanOut(n)
      PROVE  IInv'
  <2> USE <1>2 DEF StartFanOut, NextInLine
  <2>1. TypeOK'
    <3>1. n \in 0 .. MaxPublished /\ waiting' \subseteq 1 .. MaxPublished
      OBVIOUS
    <3>2. outcome' \in [Sockets -> Outcomes]
      OBVIOUS
    <3> QED BY <3>1, <3>2
  <2>2. LockInv' /\ FailedIsForgotten'
    OBVIOUS
  <2>3. QueueInv'
    <3>1. \A m \in waiting' : n < m /\ m <= published
      OBVIOUS
    <3> QED BY <3>1
  <2>4. SeenInv'
    <3>1. \A s \in Sockets : seen[s] < n /\ replay[s] < n
      OBVIOUS
    <3> QED BY <3>1
  <2>5. CurrentInv'
    OBVIOUS
  <2> QED BY <2>1, <2>2, <2>3, <2>4, <2>5
<1>3. ASSUME NEW n \in waiting, CancelWaiting(n)
      PROVE  IInv'
  BY <1>3 DEF CancelWaiting
<1>4. CASE FinishFanOut
  BY <1>4 DEF FinishFanOut, Settled
<1>5. CASE CancelFanOut
  BY <1>5 DEF CancelFanOut
<1> QED
  BY <1>1, <1>2, <1>3, <1>4, <1>5 DEF PublishStep

\* The invariant of the hub is inductive.
LEMMA NextIInv == IInv /\ [Next]_hubVars => IInv'
<1> SUFFICES ASSUME IInv, [Next]_hubVars
             PROVE  IInv'
  OBVIOUS
<1>1. CASE UNCHANGED hubVars
  BY <1>1 DEF hubVars, IInv, TypeOK, LockInv, QueueInv, SeenInv, CurrentInv,
              FailedIsForgotten, ReplayInProgress, SendInProgress
<1>2. CASE Next
  BY <1>2, ConnectStepIInv, SendStepIInv, PublishStepIInv DEF Next
<1> QED
  BY <1>1, <1>2

\* The invariant holds in every state of every execution of the hub.
THEOREM HubIInv == Spec => []IInv
BY InitIInv, NextIInv, PTL DEF Spec

\* Type correctness of the hub's state.
THEOREM HubTypeOK == Spec => []TypeOK
<1>1. IInv => TypeOK
  BY DEF IInv
<1> QED
  BY <1>1, HubIInv, PTL

\* The send of a replay and the send of a fan-out never overlap on a socket.
THEOREM HubOneSendAtATime == Spec => []OneSendAtATime
<1>1. IInv => OneSendAtATime
  BY DEF IInv, LockInv, OneSendAtATime
<1> QED
  BY <1>1, HubIInv, PTL

\* Between fan-outs every registered, connected socket was handed the
\* retained snapshot.
THEOREM HubRegisteredIsUpToDate == Spec => []RegisteredIsUpToDate
<1>1. IInv => RegisteredIsUpToDate
  BY DEF IInv, QueueInv, CurrentInv, TypeOK, RegisteredIsUpToDate
<1> QED
  BY <1>1, HubIInv, PTL

\* A socket whose connect() raised is never in the registry.
THEOREM HubFailedIsForgotten == Spec => []FailedIsForgotten
<1>1. IInv => FailedIsForgotten
  BY DEF IInv
<1> QED
  BY <1>1, HubIInv, PTL

-----------------------------------------------------------------------------
(* The hub implements the abstract feed                                    *)

\* What a step does to a peer: nothing, or it hands the replayed or the
\* published snapshot to one socket.
LEMMA StepOfAPeer ==
    ASSUME IInv, [Next]_hubVars
    PROVE  \/ UNCHANGED seen
           \/ \E s \in Sockets : \E n \in replay[s] .. latest_snapshot :
                 /\ seen[s] < n
                 /\ seen' = [seen EXCEPT ![s] = n]
                 /\ UNCHANGED <<latest_snapshot, replay>>
<1> DEFINE Handed(s, n) == /\ n \in replay[s] .. latest_snapshot
                           /\ seen[s] < n
                           /\ seen' = [seen EXCEPT ![s] = n]
                           /\ UNCHANGED <<latest_snapshot, replay>>
<1>1. CASE UNCHANGED hubVars
  BY <1>1 DEF hubVars
<1>2. ASSUME NEW s \in Sockets, ConnectStep(s) \/ Disconnect(s)
      PROVE  UNCHANGED seen \/ Handed(s, replay[s])
  <2>1. CASE ReplayWrites(s)
    BY <2>1, MaxPublishedAssumption DEF ReplayWrites, publishVars, IInv, TypeOK, SeenInv
  <2> QED
    BY <1>2, <2>1 DEF ConnectStep, Connect, AcceptFails, Register, ReplayReturns,
                      ReplayFails, Disconnect
<1>3. ASSUME NEW s \in Sockets, SendStep(s)
      PROVE  UNCHANGED seen \/ Handed(s, publishing)
  <2>1. CASE SendWrites(s)
    BY <2>1, MaxPublishedAssumption
       DEF SendWrites, connectVars, IInv, TypeOK, QueueInv, SeenInv
  <2> QED
    BY <1>3, <2>1 DEF SendStep, TakeSendLock, SendReturns, SendFails
<1>4. CASE PublishStep
  BY <1>4 DEF PublishStep, Publish, StartFanOut, CancelWaiting, FinishFanOut, CancelFanOut
<1> QED
  BY <1>1, <1>2, <1>3, <1>4 DEF Next

\* A step hands a snapshot to a socket's peer exactly if it is HandedOver.
LEMMA HandOver ==
    ASSUME IInv, [Next]_hubVars, NEW s \in Sockets
    PROVE  /\ HandedOver(s) => seen[s] < seen'[s] /\ seen'[s] <= latest_snapshot
           /\ ~HandedOver(s) => seen'[s] = seen[s]
<1> DEFINE Right == /\ HandedOver(s) => seen[s] < seen'[s] /\ seen'[s] <= latest_snapshot
                    /\ ~HandedOver(s) => seen'[s] = seen[s]
<1> SUFFICES Right
  OBVIOUS
<1>1. CASE UNCHANGED hubVars
  BY <1>1 DEF hubVars, HandedOver
<1>2. ASSUME NEW t \in Sockets, ReplayWrites(t)
      PROVE  Right
  BY <1>2, MaxPublishedAssumption
     DEF ReplayWrites, publishVars, HandedOver, IInv, TypeOK, SeenInv
<1>3. ASSUME NEW t \in Sockets, SendWrites(t)
      PROVE  Right
  BY <1>3, MaxPublishedAssumption
     DEF SendWrites, connectVars, HandedOver, IInv, TypeOK, SeenInv, QueueInv
<1>4. ASSUME NEW t \in Sockets, ConnectStep(t) \/ Disconnect(t), ~ReplayWrites(t)
      PROVE  Right
  BY <1>4 DEF ConnectStep, Connect, AcceptFails, Register, ReplayReturns, ReplayFails,
              Disconnect, publishVars, HandedOver, IInv, TypeOK
<1>5. ASSUME NEW t \in Sockets, SendStep(t), ~SendWrites(t)
      PROVE  Right
  BY <1>5 DEF SendStep, TakeSendLock, SendReturns, SendFails, connectVars, HandedOver,
              IInv, TypeOK
<1>6. CASE PublishStep
  BY <1>6 DEF PublishStep, Publish, StartFanOut, CancelWaiting, FinishFanOut, CancelFanOut,
              connectVars, HandedOver, IInv, TypeOK
<1> QED
  BY <1>1, <1>2, <1>3, <1>4, <1>5, <1>6 DEF Next

\* Every send hands a peer something newer than all it was handed before.
THEOREM HubDeliversInOrder == Spec => DeliversInOrder
<1> DEFINE Right == \A s \in Sockets :
                      /\ HandedOver(s) => seen[s] < seen'[s] /\ seen'[s] <= latest_snapshot
                      /\ ~HandedOver(s) => seen'[s] = seen[s]
<1>1. IInv /\ [Next]_hubVars => [Right]_hubVars
  BY HandOver
<1> QED
  BY <1>1, HubIInv, PTL DEF Spec, DeliversInOrder

\* Every step is a step of the feed or leaves the feed alone.
LEMMA StepOfTheFeed ==
    ASSUME IInv, [Next]_hubVars
    PROVE  [Feed!Next]_(Feed!feedVars)
<1> USE DEF Feed!Next, Feed!feedVars
<1>1. CASE ~ UNCHANGED seen
  <2>1. PICK s \in Sockets : \E n \in replay[s] .. latest_snapshot :
           /\ seen[s] < n
           /\ seen' = [seen EXCEPT ![s] = n]
           /\ UNCHANGED <<latest_snapshot, replay>>
    BY <1>1, StepOfAPeer
  <2> QED
    BY <2>1 DEF Feed!Show
<1>2. CASE UNCHANGED <<latest_snapshot, replay, seen>>
  BY <1>2
<1>3. ASSUME NEW s \in Sockets, Register(s)
      PROVE  Feed!Join(s)
  BY <1>3 DEF Register, publishVars, Feed!Join, IInv, SeenInv
<1>4. ASSUME NEW n \in waiting, StartFanOut(n)
      PROVE  Feed!Announce
  BY <1>4, MaxPublishedAssumption
     DEF StartFanOut, connectVars, Feed!Announce, IInv, QueueInv, TypeOK, Snapshots
<1>5. \/ ~ UNCHANGED seen
      \/ UNCHANGED <<latest_snapshot, replay, seen>>
      \/ \E s \in Sockets : Register(s)
      \/ \E n \in waiting : StartFanOut(n)
  BY DEF hubVars, Next, ConnectStep, SendStep, PublishStep, Connect, AcceptFails,
         ReplayWrites, ReplayReturns, ReplayFails, Disconnect, Publish, TakeSendLock,
         SendWrites, SendReturns, SendFails, FinishFanOut, CancelFanOut, CancelWaiting,
         connectVars, publishVars
<1> QED
  BY <1>1, <1>2, <1>3, <1>4, <1>5

\* The hub implements the abstract feed: order, and nothing that was superseded
\* before the socket was registered.
THEOREM HubImplementsFeed == Spec => ImplementsFeed
<1>1. Init => Feed!Init
  BY DEF Init, Feed!Init
<1> QED
  BY <1>1, StepOfTheFeed, HubIInv, PTL DEF Spec, ImplementsFeed, Feed!Spec

-----------------------------------------------------------------------------
(* The inductive invariant of hub and handlers                             *)

\* The inductive invariant: where a handler stands, against its socket's
\* place in the hub.
HandlerInv(s) ==
    /\ handler[s] = "none" <=> phase[s] = "new"
    /\ handler[s] \in {"serving", "closing", "leaving"} => phase[s] = "connected"
    /\ handler[s] \in {"none", "connecting"} => eviction_task[s] = "none"
    /\ handler[s] = "closing" => closed[s]
    /\ handler[s] = "leaving" => receive_task[s] = "done"
    /\ SendInProgress(s) => phase[s] = "connected"
    /\ eviction_task[s] = "done" => s \notin connections
    /\ handler[s] \in {"connecting", "serving"} /\ phase[s] = "connected" /\ s \notin connections =>
          outcome[s] = "none"
    /\ closed[s] => s \notin connections /\ handler[s] \in {"closing", "done", "cancelled"}

ServerIInv ==
    /\ IInv /\ ServerTypeOK
    /\ \A s \in Sockets : HandlerInv(s)
    /\ NoOrphanTask /\ NoHandlerNoRegistration /\ NoZombiePeer /\ NoCloseDuringSend

-----------------------------------------------------------------------------
(* The proofs                                                              *)

\* A step of the server is a step of the hub or leaves the hub alone.
LEMMA StepOfTheHub ==
    ASSUME ServerNext
    PROVE  [Next]_hubVars
<1>1. ASSUME NEW s \in Sockets, Open(s) \/ Connecting(s) \/ CancelConnecting(s)
      PROVE  Next
  BY <1>1 DEF Open, Connecting, CancelConnecting, Next, ConnectStep
<1>2. ASSUME NEW s \in Sockets, CancelServing(s) \/ Leave(s)
      PROVE  Next
  BY <1>2 DEF CancelServing, Leave, Next
<1>3. ASSUME NEW s \in Sockets,
             PeerLeaves(s) \/ ConnectRaised(s) \/ StartServing(s) \/ EvictionNoticed(s)
               \/ WakeEvicted(s) \/ WakeLeft(s)
      PROVE  UNCHANGED hubVars
  BY <1>3 DEF PeerLeaves, ConnectRaised, StartServing, EvictionNoticed, WakeEvicted, WakeLeft
<1>4. FanOutStep => Next
  BY DEF FanOutStep, Next
<1> QED
  BY <1>1, <1>2, <1>3, <1>4 DEF ServerNext, HandlerStep

\* Without a handler the invariant holds.
LEMMA ServerInitIInv == ServerInit => ServerIInv
<1> SUFFICES ASSUME ServerInit
             PROVE  ServerIInv
  OBVIOUS
<1>1. IInv
  BY InitIInv DEF ServerInit
<1>2. ServerTypeOK
  BY <1>1 DEF ServerInit, ServerTypeOK, IInv, HandlerStates, TaskStates
<1>3. \A s \in Sockets : HandlerInv(s)
  BY DEF HandlerInv, ServerInit, Init, SendInProgress
<1>4. NoOrphanTask /\ NoHandlerNoRegistration /\ NoZombiePeer /\ NoCloseDuringSend
  BY DEF ServerInit, Init, NoOrphanTask, NoHandlerNoRegistration, NoZombiePeer,
         NoCloseDuringSend
<1> QED
  BY <1>1, <1>2, <1>3, <1>4 DEF ServerIInv

\* One step per kind of step of a handler or of the hub alone.
LEMMA ServerStepIInv ==
    ASSUME ServerIInv, ServerNext
    PROVE  ServerIInv'
<1> USE DEF ServerIInv, ServerTypeOK, HandlerInv, NoOrphanTask, NoHandlerNoRegistration,
            NoZombiePeer, NoCloseDuringSend, HandlerStates, TaskStates, MoveTo
<1>1. IInv'
  BY StepOfTheHub, NextIInv
<1>2. TypeOK /\ TypeOK'
  BY <1>1 DEF IInv
<1> USE DEF TypeOK, Phases, Outcomes, ReplayInProgress, SendInProgress, connectVars, publishVars,
            serverVars, hubVars
<1>3. ASSUME NEW s \in Sockets, Open(s)
      PROVE  ServerIInv'
  BY <1>1, <1>2, <1>3 DEF Open, Connect, IInv, SeenInv
<1>4. ASSUME NEW s \in Sockets, Connecting(s)
      PROVE  ServerIInv'
  <2> USE <1>1, <1>2, <1>4 DEF Connecting
  <2>1. CASE AcceptFails(s)
    BY <2>1 DEF AcceptFails
  <2>2. CASE Register(s)
    BY <2>2 DEF Register, IInv, SeenInv
  <2>3. CASE ReplayWrites(s)
    BY <2>3 DEF ReplayWrites
  <2>4. CASE ReplayReturns(s)
    BY <2>4 DEF ReplayReturns, IInv, LockInv
  <2>5. CASE ReplayFails(s)
    BY <2>5 DEF ReplayFails, IInv, LockInv
  <2> QED
    BY <2>1, <2>2, <2>3, <2>4, <2>5
<1>5. ASSUME NEW s \in Sockets, HandlerStep(s)
      PROVE  ServerIInv'
  <2> USE <1>1, <1>2
  <2>1. CASE ConnectRaised(s)
    BY <2>1 DEF ConnectRaised, IInv, FailedIsForgotten
  <2>2. CASE StartServing(s)
    BY <2>2 DEF StartServing
  <2>3. CASE EvictionNoticed(s)
    BY <2>3 DEF EvictionNoticed, WaitUntilDisconnectedReturns
  <2>4. CASE WakeEvicted(s)
    BY <2>4 DEF WakeEvicted
  <2>5. CASE WakeLeft(s)
    BY <2>5 DEF WakeLeft
  <2>6. CASE Leave(s)
    BY <2>6 DEF Leave, Disconnect
  <2> QED
    BY <1>5, <2>1, <2>2, <2>3, <2>4, <2>5, <2>6 DEF HandlerStep
<1>6. ASSUME NEW s \in Sockets, PeerLeaves(s)
      PROVE  ServerIInv'
  BY <1>1, <1>2, <1>6 DEF PeerLeaves
<1>7. ASSUME NEW s \in Sockets, CancelServing(s)
      PROVE  ServerIInv'
  BY <1>1, <1>2, <1>7 DEF CancelServing, Disconnect
<1>8. ASSUME NEW s \in Sockets, CancelConnecting(s)
      PROVE  ServerIInv'
  <2> USE <1>1, <1>2, <1>8 DEF CancelConnecting
  <2>1. CASE AcceptFails(s)
    BY <2>1 DEF AcceptFails, IInv, SeenInv
  <2>2. CASE ReplayFails(s)
    BY <2>2 DEF ReplayFails, IInv, LockInv
  <2> QED
    BY <2>1, <2>2
<1>9. ASSUME NEW s \in Sockets, SendStep(s), UNCHANGED serverVars
      PROVE  ServerIInv'
  BY <1>1, <1>2, <1>9 DEF SendStep, TakeSendLock, SendWrites, SendReturns, SendFails, IInv, LockInv, SeenInv, FailedIsForgotten
<1>10. ASSUME PublishStep, UNCHANGED serverVars
      PROVE  ServerIInv'
  BY <1>1, <1>2, <1>10 DEF PublishStep, Publish, StartFanOut, CancelWaiting, FinishFanOut, CancelFanOut, Settled
<1> QED
  BY <1>3, <1>4, <1>5, <1>6, <1>7, <1>8, <1>9, <1>10 DEF ServerNext, FanOutStep

\* The invariant of handlers and hub is inductive.
LEMMA ServerNextIInv == ServerIInv /\ [ServerNext]_allVars => ServerIInv'
<1> SUFFICES ASSUME ServerIInv, [ServerNext]_allVars
             PROVE  ServerIInv'
  OBVIOUS
<1>1. CASE UNCHANGED allVars
  <2>1. IInv'
    BY <1>1, NextIInv DEF allVars, ServerIInv
  <2> QED
    BY <1>1, <2>1
    DEF allVars, hubVars, serverVars, ServerIInv, ServerTypeOK, TypeOK, HandlerInv,
        NoOrphanTask, NoHandlerNoRegistration, NoZombiePeer, NoCloseDuringSend,
        ReplayInProgress, SendInProgress
<1> QED
  BY <1>1, ServerStepIInv

\* The inductive invariant holds in every state of the composition.
THEOREM ServerInvariant == ServerSpec => []ServerIInv
BY ServerInitIInv, ServerNextIInv, PTL DEF ServerSpec

\* Under the handlers the hub is still the hub: every execution of the
\* composition is an execution of PositionHub.  The handlers call connect()
\* and disconnect() only as the hub's specification lets its callers do.
THEOREM ServerRunsTheHub == ServerSpec => Spec
<1>1. ServerInit => Init
  BY DEF ServerInit
<1>2. [ServerNext]_allVars => [Next]_hubVars
  BY StepOfTheHub DEF allVars
<1> QED
  BY <1>1, <1>2, PTL DEF ServerSpec, Spec

\* Hence served sockets, too, are shown the abstract feed.
THEOREM ServerImplementsFeed == ServerSpec => ImplementsFeed
BY ServerRunsTheHub, HubImplementsFeed

\* Type correctness of the hub's and the handlers' state.
THEOREM ServerTypeCorrect == ServerSpec => []ServerTypeOK
<1>1. ServerIInv => ServerTypeOK
  BY DEF ServerIInv
<1> QED
  BY <1>1, ServerInvariant, PTL

\* Neither task of a handler outlives its serving.
THEOREM ServerNoOrphanTask == ServerSpec => []NoOrphanTask
<1>1. ServerIInv => NoOrphanTask
  BY DEF ServerIInv
<1> QED
  BY <1>1, ServerInvariant, PTL

\* A handler that ended has left no socket in the registry.
THEOREM ServerNoHandlerNoRegistration == ServerSpec => []NoHandlerNoRegistration
<1>1. ServerIInv => NoHandlerNoRegistration
  BY DEF ServerIInv
<1> QED
  BY <1>1, ServerInvariant, PTL

\* A handler that ran to its end closed the socket or saw its peer leave.
THEOREM ServerNoZombiePeer == ServerSpec => []NoZombiePeer
<1>1. ServerIInv => NoZombiePeer
  BY DEF ServerIInv
<1> QED
  BY <1>1, ServerInvariant, PTL

\* A socket is never closed under a send that is in progress on it.
THEOREM ServerNoCloseDuringSend == ServerSpec => []NoCloseDuringSend
<1>1. ServerIInv => NoCloseDuringSend
  BY DEF ServerIInv
<1> QED
  BY <1>1, ServerInvariant, PTL
=============================================================================
