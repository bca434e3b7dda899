----------------------- MODULE IngestionWorkerProofs -----------------------
(***************************************************************************)
(* Safety of the worker for a feed of any length and any content, and any  *)
(* number of polls and restarts, from the inductive invariant IInv.        *)
(***************************************************************************)
EXTENDS IngestionWorker, TLAPS

-----------------------------------------------------------------------------
(* The inductive invariant                                                 *)

\* What is recorded was published, and comes before what is pending.
RecordInv ==
    /\ pc = "recording" => pending \in published
    /\ \A i \in DOMAIN recorded : recorded[i] \in published
    /\ \A i, j \in DOMAIN recorded : i < j => recorded[i].number < recorded[j].number
    /\ pc # "stopped" => \A i \in DOMAIN recorded :
          recorded[i].number <= accepted /\ (pending # NoCycle => recorded[i].number < accepted)

\* The pending cycle is the newest accepted one, and the one published last
\* is either that very cycle or an earlier one.
OrderInv ==
    /\ \A cycle \in {pending, last_published} :
          cycle.number <= accepted /\ cycle.version <= feed /\ cycle.observed_at <= now
    /\ pending # NoCycle =>
          /\ pending.number = accepted
          /\ last_published = pending \/
                /\ last_published.number < pending.number
                /\ last_published.version <= pending.version
                /\ last_published.observed_at <= pending.observed_at

IInv == TypeOK /\ ETagIsAccountedFor /\ RecordInv /\ OrderInv

-----------------------------------------------------------------------------
(* The proofs                                                              *)

\* Only an acknowledged response has a cycle.
LEMMA NoCycleType == NoCycle \in Cycles
BY BoundsAssumption DEF NoCycle, Cycles

\* A worker that has just started satisfies the invariant.
LEMMA InitIInv == Init => IInv
<1> SUFFICES ASSUME Init
             PROVE  IInv
  OBVIOUS
<1> USE BoundsAssumption DEF Init
<1>1. TypeOK
  BY NoCycleType DEF TypeOK, Versions
<1>2. ETagIsAccountedFor
  BY DEF ETagIsAccountedFor
<1>3. RecordInv
  BY DEF RecordInv
<1>4. OrderInv
  BY DEF OrderInv, NoCycle
<1> QED
  BY <1>1, <1>2, <1>3, <1>4 DEF IInv

\* Recording the pending cycle extends the records by a later cycle that was
\* published.
LEMMA RecordPending ==
    ASSUME IInv, pc = "recording",
           NEW extended, extended = Append(recorded, pending)
    PROVE  /\ extended \in Seq(Cycles)
           /\ \A i \in DOMAIN extended :
                extended[i] \in published /\ extended[i].number <= accepted
           /\ \A i, j \in DOMAIN extended : i < j => extended[i].number < extended[j].number
<1> USE DEF IInv, TypeOK, RecordInv, OrderInv
<1>1. /\ DOMAIN recorded = 1 .. Len(recorded) /\ Len(recorded) \in Nat
      /\ DOMAIN extended = 1 .. Len(recorded) + 1
      /\ extended[Len(recorded) + 1] = pending
      /\ \A i \in DOMAIN recorded : extended[i] = recorded[i]
      /\ extended \in Seq(Cycles)
  OBVIOUS
<1>2. /\ pending \in published
      /\ pending.number \in Nat /\ pending.number = accepted
      /\ \A i \in DOMAIN recorded : recorded[i].number < pending.number
  BY DEF Cycles
<1>3. \A i \in DOMAIN extended : i \in DOMAIN recorded \/ i = Len(recorded) + 1
  BY <1>1
<1>4. \A i \in DOMAIN recorded : recorded[i] \in Cycles /\ recorded[i].number \in Nat
  BY <1>1 DEF Cycles
<1>5. \A i, j \in DOMAIN extended : i < j => i \in DOMAIN recorded
  BY <1>1, <1>3
<1>6. \A i \in DOMAIN extended :
         extended[i] \in published /\ extended[i].number <= accepted
  BY <1>1, <1>2, <1>3
<1>7. \A i, j \in DOMAIN extended : i < j => extended[i].number < extended[j].number
  BY <1>1, <1>2, <1>3, <1>5
<1> QED
  BY <1>1, <1>6, <1>7

\* Every step preserves the types.
LEMMA StepTypeOK ==
    ASSUME IInv, [Next]_vars
    PROVE  TypeOK'
<1> USE BoundsAssumption, NoCycleType
    DEF IInv, TypeOK, RecordInv, OrderInv, Versions, Contents, Cycles, NoCycle
<1>1. CASE FeedAdvances
  BY <1>1 DEF FeedAdvances
<1>2. CASE Poll
  BY <1>2 DEF Poll, Proceed, Tick
<1>3. CASE FetchNotModified
  BY <1>3 DEF FetchNotModified
<1>4. CASE FetchFails
  BY <1>4 DEF FetchFails
<1>5. ASSUME NEW tagged \in BOOLEAN, FetchUpdated(tagged)
      PROVE  TypeOK'
  BY <1>5 DEF FetchUpdated, Proceed
<1>6. CASE EstimateReturns
  BY <1>6 DEF EstimateReturns
<1>7. CASE EstimateFails
  BY <1>7 DEF EstimateFails
<1>8. CASE PublishReturns
  BY <1>8 DEF PublishReturns, Applied
<1>9. CASE PublishFails
  BY <1>9 DEF PublishFails, Applied, NotApplied
<1>10. CASE RecordEnds
  <2>1. recorded' \in Seq(Cycles)
    BY <1>10, RecordPending DEF RecordEnds
  <2> QED
    BY <1>10, <2>1 DEF RecordEnds
<1>11. CASE Cancel
  <2>1. recorded' \in Seq(Cycles)
    BY <1>11, RecordPending DEF Cancel
  <2> QED
    BY <1>11, <2>1 DEF Cancel, Applied, NotApplied
<1>12. CASE Restart
  BY <1>12 DEF Restart
<1>13. CASE UNCHANGED vars
  BY <1>13 DEF vars
<1> QED
  BY <1>1, <1>2, <1>3, <1>4, <1>5, <1>6, <1>7, <1>8, <1>9, <1>10, <1>11, <1>12, <1>13 DEF Next, WorkerStep

\* Every step keeps the ETag accounted for.
LEMMA StepETag ==
    ASSUME IInv, [Next]_vars
    PROVE  ETagIsAccountedFor'
<1> USE BoundsAssumption, NoCycleType
    DEF IInv, TypeOK, ETagIsAccountedFor, RecordInv, OrderInv, Versions, Cycles, NoCycle
<1>1. CASE FeedAdvances
  BY <1>1 DEF FeedAdvances
<1>2. CASE Poll
  BY <1>2 DEF Poll, Proceed, Tick
<1>3. CASE FetchNotModified
  BY <1>3 DEF FetchNotModified
<1>4. CASE FetchFails
  BY <1>4 DEF FetchFails
<1>5. ASSUME NEW tagged \in BOOLEAN, FetchUpdated(tagged)
      PROVE  ETagIsAccountedFor'
  BY <1>5 DEF FetchUpdated, Proceed
<1>6. CASE EstimateReturns
  BY <1>6 DEF EstimateReturns
<1>7. CASE EstimateFails
  BY <1>7 DEF EstimateFails
<1>8. CASE PublishReturns
  BY <1>8 DEF PublishReturns, Applied
<1>9. CASE PublishFails
  BY <1>9 DEF PublishFails, Applied, NotApplied
<1>10. CASE RecordEnds
  BY <1>10 DEF RecordEnds
<1>11. CASE Cancel
  BY <1>11 DEF Cancel, Applied, NotApplied
<1>12. CASE Restart
  BY <1>12 DEF Restart
<1>13. CASE UNCHANGED vars
  BY <1>13 DEF vars
<1> QED
  BY <1>1, <1>2, <1>3, <1>4, <1>5, <1>6, <1>7, <1>8, <1>9, <1>10, <1>11, <1>12, <1>13 DEF Next, WorkerStep

\* Every step keeps the records in order.
LEMMA StepRecord ==
    ASSUME IInv, [Next]_vars
    PROVE  RecordInv'
<1> USE BoundsAssumption, NoCycleType
    DEF IInv, TypeOK, RecordInv, OrderInv, Versions, Cycles, NoCycle
<1>1. CASE FeedAdvances
  BY <1>1 DEF FeedAdvances
<1>2. CASE Poll
  BY <1>2 DEF Poll, Proceed, Tick
<1>3. CASE FetchNotModified
  BY <1>3 DEF FetchNotModified
<1>4. CASE FetchFails
  BY <1>4 DEF FetchFails
<1>5. ASSUME NEW tagged \in BOOLEAN, FetchUpdated(tagged)
      PROVE  RecordInv'
  <2>1. \A i \in DOMAIN recorded : recorded[i] \in Cycles
    OBVIOUS
  <2>2. \A i \in DOMAIN recorded : recorded[i].number < accepted'
    BY <1>5, <2>1 DEF FetchUpdated
  <2>3. pc' # "recording"
    BY <1>5 DEF FetchUpdated, Proceed
  <2>4. \A i \in DOMAIN recorded' : recorded'[i].number <= accepted'
    BY <1>5, <2>1, <2>2 DEF FetchUpdated
  <2> QED
    BY <1>5, <2>2, <2>3, <2>4 DEF FetchUpdated
<1>6. CASE EstimateReturns
  BY <1>6 DEF EstimateReturns
<1>7. CASE EstimateFails
  BY <1>7 DEF EstimateFails
<1>8. CASE PublishReturns
  BY <1>8 DEF PublishReturns, Applied
<1>9. CASE PublishFails
  BY <1>9 DEF PublishFails, Applied, NotApplied
<1>10. CASE RecordEnds
  <2>1. CASE recorded' = recorded
    BY <1>10, <2>1 DEF RecordEnds
  <2>2. CASE recorded' = Append(recorded, pending)
    BY <1>10, <2>2, RecordPending DEF RecordEnds
  <2> QED
    BY <1>10, <2>1, <2>2 DEF RecordEnds
<1>11. CASE Cancel
  <2>1. CASE recorded' = recorded
    BY <1>11, <2>1 DEF Cancel, Applied, NotApplied
  <2>2. CASE recorded' = Append(recorded, pending) /\ pc = "recording"
    BY <1>11, <2>2, RecordPending DEF Cancel, Applied, NotApplied
  <2> QED
    BY <1>11, <2>1, <2>2 DEF Cancel
<1>12. CASE Restart
  BY <1>12 DEF Restart
<1>13. CASE UNCHANGED vars
  BY <1>13 DEF vars
<1> QED
  BY <1>1, <1>2, <1>3, <1>4, <1>5, <1>6, <1>7, <1>8, <1>9, <1>10, <1>11, <1>12, <1>13 DEF Next, WorkerStep

\* Every step keeps the cycles in order.
LEMMA StepOrder ==
    ASSUME IInv, [Next]_vars
    PROVE  OrderInv'
<1> USE BoundsAssumption, NoCycleType
    DEF IInv, TypeOK, OrderInv, Versions, Cycles, NoCycle
<1>1. CASE FeedAdvances
  BY <1>1 DEF FeedAdvances
<1>2. CASE Poll
  BY <1>2 DEF Poll, Proceed, Tick
<1>3. CASE FetchNotModified
  BY <1>3 DEF FetchNotModified
<1>4. CASE FetchFails
  BY <1>4 DEF FetchFails
<1>5. ASSUME NEW tagged \in BOOLEAN, FetchUpdated(tagged)
      PROVE  OrderInv'
  BY <1>5 DEF FetchUpdated, Proceed
<1>6. CASE EstimateReturns
  BY <1>6 DEF EstimateReturns
<1>7. CASE EstimateFails
  BY <1>7 DEF EstimateFails
<1>8. CASE PublishReturns
  BY <1>8 DEF PublishReturns, Applied
<1>9. CASE PublishFails
  BY <1>9 DEF PublishFails, Applied, NotApplied
<1>10. CASE RecordEnds
  BY <1>10 DEF RecordEnds
<1>11. CASE Cancel
  BY <1>11 DEF Cancel, Applied, NotApplied
<1>12. CASE Restart
  BY <1>12 DEF Restart
<1>13. CASE UNCHANGED vars
  BY <1>13 DEF vars
<1> QED
  BY <1>1, <1>2, <1>3, <1>4, <1>5, <1>6, <1>7, <1>8, <1>9, <1>10, <1>11, <1>12, <1>13 DEF Next, WorkerStep

\* The invariant of the worker is inductive, cancellation and restart included.
LEMMA NextIInv == IInv /\ [Next]_vars => IInv'
BY StepTypeOK, StepETag, StepRecord, StepOrder DEF IInv

\* The invariant holds in every state of every execution of the worker.
THEOREM WorkerIInv == Spec => []IInv
BY InitIInv, NextIInv, PTL DEF Spec

\* Type correctness of the worker's state.
THEOREM WorkerTypeOK == Spec => []TypeOK
<1>1. IInv => TypeOK
  BY DEF IInv
<1> QED
  BY <1>1, WorkerIInv, PTL

\* A 304 never hides a version that nobody saw, however responses, failures
\* and restarts alternate.
THEOREM WorkerETagIsAccountedFor == Spec => []ETagIsAccountedFor
<1>1. IInv => ETagIsAccountedFor
  BY DEF IInv
<1> QED
  BY <1>1, WorkerIInv, PTL

\* Analytics count a published cycle once, and it is not published again.
THEOREM WorkerRecordsOncePublished == Spec => []RecordsOncePublished
<1>1. IInv => RecordsOncePublished
  <2> SUFFICES ASSUME IInv
               PROVE  RecordsOncePublished
    OBVIOUS
  <2> USE DEF IInv, TypeOK, RecordInv
  <2>1. ASSUME recorded # <<>>, pc = "publishing"
        PROVE  recorded[Len(recorded)].number < pending.number
    <3>1. Len(recorded) \in DOMAIN recorded
      BY <2>1
    <3> QED
      BY <2>1, <3>1 DEF OrderInv
  <2> QED
    BY <2>1 DEF RecordsOncePublished
<1> QED
  BY <1>1, WorkerIInv, PTL

\* The pending cycle goes only when it was published or rejected, or with
\* its process.
THEOREM WorkerPendingIsNeverDropped == Spec => PendingIsNeverDropped
<1>1. IInv /\ [Next]_vars =>
        [pending # NoCycle /\ pending' # pending =>
            pending \in published' \cup rejected' \/ pc = "stopped"]_vars
  <2> SUFFICES ASSUME IInv, Next, pending # NoCycle, pending' # pending, pc # "stopped"
               PROVE  pending \in published' \cup rejected'
    OBVIOUS
  <2>1. ~ (\E tagged \in BOOLEAN : FetchUpdated(tagged))
    BY DEF FetchUpdated, IInv, TypeOK
  <2>2. CASE EstimateReturns
    BY <2>2 DEF EstimateReturns
  <2>3. CASE PublishReturns
    BY <2>3 DEF PublishReturns, Applied
  <2>4. CASE RecordEnds
    BY <2>4 DEF RecordEnds, IInv, RecordInv
  <2> QED
    BY <2>1, <2>2, <2>3, <2>4
       DEF Next, WorkerStep, FeedAdvances, Poll, FetchNotModified, FetchFails,
           EstimateFails, PublishFails, Cancel, Restart
<1> QED
  BY <1>1, WorkerIInv, PTL DEF Spec, PendingIsNeverDropped

\* Snapshots are published in the order of their responses, of the feed and
\* of observed_at, whatever is retried.
THEOREM WorkerPublishesInOrder == Spec => PublishesInOrder
<1>1. IInv /\ [Next]_vars =>
        [last_published' # last_published /\ last_published' # NoCycle =>
            /\ last_published.number < last_published'.number
            /\ last_published.version <= last_published'.version
            /\ last_published.observed_at <= last_published'.observed_at]_vars
  <2> SUFFICES ASSUME IInv, Next, last_published' # last_published, last_published' # NoCycle
               PROVE  /\ last_published.number < last_published'.number
                      /\ last_published.version <= last_published'.version
                      /\ last_published.observed_at <= last_published'.observed_at
    OBVIOUS
  <2>1. last_published' = pending
    BY DEF Next, WorkerStep, FeedAdvances, Poll, FetchNotModified, FetchFails, FetchUpdated,
           EstimateReturns, EstimateFails, PublishReturns, PublishFails, RecordEnds,
           Cancel, Restart, Applied, NotApplied
  <2> QED
    BY <2>1 DEF IInv, OrderInv
<1> QED
  BY <1>1, WorkerIInv, PTL DEF Spec, PublishesInOrder
=============================================================================
