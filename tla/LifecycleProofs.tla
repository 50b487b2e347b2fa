-------------------------- MODULE LifecycleProofs ---------------------------
(***************************************************************************)
(* Theorems about ExecutionLifecycle, for every number of deliveries, both  *)
(* dispatch targets, and timeouts and log faults on or off: the row and the *)
(* event of a run, and then what a trigger may count on.                    *)
(***************************************************************************)
EXTENDS ExecutionLifecycle, FiniteSetTheorems, TLAPS

(* A guarded write of a status other than phantom and unconfirmed leaves    *)
(* the columns of the row in agreement.                                     *)
LEMMA WriteKeepsRow ==
  ASSUME RowOK, automated' = automated,
         NEW new \in Statuses \ {"phantom", "unconfirmed"}, NEW why \in Reasons,
         why \in NeverRanCodes => new = "system_error",
         Write(new, why) \/ UNCHANGED row
  PROVE  RowOK'
BY DEF RowOK, Write, row

(* The row stays in agreement across every step. *)
LEMMA RowPreserved ==
  ASSUME TypeOK, [Next]_vars
  PROVE  RowOK'
<1> USE DEF Statuses, Terminal, Reasons, PlatformCodes, NeverRanCodes, RunErrors
<1>0. RowOK /\ automated \in BOOLEAN
  BY DEF TypeOK, Typed
<1>1. CASE UNCHANGED vars
  BY <1>0, <1>1 DEF vars, row, RowOK
<1>2. ASSUME UNCHANGED row, UNCHANGED automated PROVE RowOK'
  BY <1>0, <1>2 DEF row, RowOK
<1>3. ASSUME NEW d \in Deliveries, Receive(d) \/ Crash(d) \/ ChainAnswers(d) PROVE RowOK'
  BY <1>2, <1>3 DEF Receive, Crash, ChainAnswers, rest
<1>4. ASSUME NEW d \in Deliveries, Handle(d) PROVE RowOK'
  <2> USE DEF WriteIf, rest
  <2>1. CASE Refuse(d)
    BY <1>0, <2>1, WriteKeepsRow DEF Refuse
  <2>2. CASE RefuseFeature(d)
    BY <1>0, <2>2, WriteKeepsRow DEF RefuseFeature
  <2>3. CASE Requeue(d) \/ HandlerThrows(d) \/ DropDuplicate(d) \/ Charge(d)
             \/ Dispatch(d) \/ DispatchFails(d) \/ Awaited(d) \/ Delete(d) \/ DeleteFails(d)
    BY <1>2, <2>3 DEF Requeue, HandlerThrows, DropDuplicate, Charge, Dispatch,
                      DispatchFails, Awaited, Delete, DeleteFails
  <2>4. CASE Claim(d) \/ ClaimReplyLost(d)
    BY <1>0, <2>4, WriteKeepsRow DEF Claim, ClaimReplyLost, Into
  <2>5. CASE ChargeRefused(d)
    BY <1>0, <2>5, WriteKeepsRow DEF ChargeRefused
  <2>6. CASE BlameJob(d)
    BY <1>0, <2>6, WriteKeepsRow DEF BlameJob
  <2>7. CASE GuardDispatch(d)
    BY <1>0, <2>7, WriteKeepsRow DEF GuardDispatch
  <2>8. CASE FailMessage(d)
    BY <1>0, <2>8, WriteKeepsRow DEF FailMessage
  <2> QED BY <1>4, <2>1, <2>2, <2>3, <2>4, <2>5, <2>6, <2>7, <2>8 DEF Handle
<1>5. ASSUME NEW d \in Deliveries, Prepare(d) \/ Sigterm(d) \/ Die(d) PROVE RowOK'
  <2> USE DEF Backstop, WriteIf, rest
  <2>1. CASE MarkRunning(d)
    BY <1>0, <2>1, WriteKeepsRow DEF MarkRunning, RowOK, row
  <2>2. CASE RecheckCancels(d)
    BY <1>0, <2>2, WriteKeepsRow DEF RecheckCancels, RowOK, row
  <2>3. CASE PrepareFails(d)
    BY <1>0, <2>3, WriteKeepsRow DEF PrepareFails
  <2>4. CASE Sigterm(d)
    BY <1>0, <2>4, WriteKeepsRow DEF Sigterm
  <2>5. CASE Enter(d) \/ Die(d)
    BY <1>2, <2>5 DEF Enter, Die
  <2> QED BY <1>5, <2>1, <2>2, <2>3, <2>4, <2>5 DEF Prepare
<1>6. ASSUME NEW d \in Deliveries, Work(d) PROVE RowOK'
  <2> USE DEF rest
  <2>1. CASE Broadcast(d)
    BY <1>2, <2>1 DEF Broadcast
  <2>2. CASE Return(d)
    <3>1. PICK outcome \in Results \ {"none"}, held \in BOOLEAN :
            Finalize(d, outcome, held) \/ UNCHANGED row
      BY <2>2 DEF Return
    <3>2. automated' = automated
      BY <2>2 DEF Return
    <3>3. CASE UNCHANGED row
      BY <1>2, <3>2, <3>3
    <3>4. CASE status' = Verdict(d, outcome, held) /\ reason' = VerdictReason(d, outcome)
               /\ finalizer' = d
      <4>1. Verdict(d, outcome, held) \in {"unconfirmed", "error", "success"}
        BY DEF Verdict
      <4>2. VerdictReason(d, outcome) \in {"step", "spurious", "none"}
        BY DEF VerdictReason, Failing
      <4> QED BY <3>2, <3>4, <4>1, <4>2, LifecycleAssumption DEF RowOK
    <3> QED BY <3>1, <3>3, <3>4 DEF Finalize
  <2>3. CASE ApplyResult(d)
    BY <1>0, <2>3, WriteKeepsRow DEF ApplyResult, Backstop, WriteIf, RowOK, row
  <2>4. CASE ApplyFails(d)
    BY <1>0, <2>4, WriteKeepsRow DEF ApplyFails, Backstop, WriteIf
  <2>5. CASE LateCommit(d)
    <3>1. CASE UNCHANGED row
      BY <1>2, <2>5, <3>1 DEF LateCommit
    <3>2. CASE status' = "success" /\ reason' = "none" /\ finalizer' = d
      BY <1>0, <2>5, <3>2 DEF LateCommit, RowOK
    <3> QED BY <2>5, <3>1, <3>2 DEF LateCommit
  <2> QED BY <1>6, <2>1, <2>2, <2>3, <2>4, <2>5 DEF Work
<1>7. CASE Reap
  BY <1>0, <1>7, WriteKeepsRow DEF Reap, ReapCode
<1>8. CASE Settle
  BY <1>0, <1>8, WriteKeepsRow DEF Settle, RowOK, rest
<1>9. CASE CancelRead \/ Grow \/ Quiet
  BY <1>2, <1>9 DEF CancelRead, Grow, Quiet, rest
<1>10. CASE CancelWrite
  BY <1>0, <1>10, WriteKeepsRow DEF CancelWrite, rest
<1>11. CASE MarkUnsent
  BY <1>0, <1>11, WriteKeepsRow DEF MarkUnsent, WriteIf
<1> QED BY <1>1, <1>3, <1>4, <1>5, <1>6, <1>7, <1>8, <1>9, <1>10, <1>11 DEF Next

(* Every variable but the row keeps its type, and a handler past its guards *)
(* stays past them.                                                         *)
LEMMA TypesPreserved ==
  ASSUME TypeOK, [Next]_vars
  PROVE  Typed' /\ Handled \subseteq Handled'
<1> DEFINE Goal == Typed' /\ Handled \subseteq Handled'
<1> USE LifecycleAssumption DEF TypeOK, Typed, Handled, Handling, Alive, Results, Ages,
                                Closing, rest, row, runs, Move, At, Launch
<1>1. CASE UNCHANGED vars
  BY <1>1 DEF vars
<1>2. ASSUME NEW d \in Deliveries, Receive(d) PROVE Goal
  BY <1>2 DEF Receive
<1>3. ASSUME NEW d \in Deliveries, Crash(d) PROVE Goal
  BY <1>3 DEF Crash
<1>4. ASSUME NEW d \in Deliveries, Handle(d) PROVE Goal
  <2>1. CASE Refuse(d)
    BY <2>1 DEF Refuse
  <2>2. CASE RefuseFeature(d)
    BY <2>2 DEF RefuseFeature
  <2>3. CASE Requeue(d) \/ HandlerThrows(d) \/ DropDuplicate(d) \/ Charge(d) \/ Awaited(d)
    BY <2>3 DEF Requeue, HandlerThrows, DropDuplicate, Charge, Awaited
  <2>4. CASE Claim(d) \/ ClaimReplyLost(d)
    BY <2>4 DEF Claim, ClaimReplyLost
  <2>5. CASE ChargeRefused(d) \/ BlameJob(d) \/ GuardDispatch(d) \/ FailMessage(d)
    BY <2>5 DEF ChargeRefused, BlameJob, GuardDispatch, FailMessage
  <2>6. CASE Dispatch(d)
    BY <2>6 DEF Dispatch
  <2>7. CASE DispatchFails(d)
    BY <2>7 DEF DispatchFails
  <2>8. CASE Delete(d) \/ DeleteFails(d)
    BY <2>8 DEF Delete, DeleteFails
  <2> QED BY <1>4, <2>1, <2>2, <2>3, <2>4, <2>5, <2>6, <2>7, <2>8 DEF Handle
<1>5. ASSUME NEW d \in Deliveries, Prepare(d) PROVE Goal
  <2>1. CASE MarkRunning(d) \/ RecheckCancels(d) \/ PrepareFails(d)
    BY <2>1 DEF MarkRunning, RecheckCancels, PrepareFails
  <2>2. CASE Enter(d)
    BY <2>2 DEF Enter, Log
  <2> QED BY <1>5, <2>1, <2>2 DEF Prepare
<1>6. ASSUME NEW d \in Deliveries, Work(d) PROVE Goal
  <2>1. CASE Broadcast(d)
    BY <2>1 DEF Broadcast, Log
  <2>2. CASE Return(d)
    BY <2>2 DEF Return
  <2>3. CASE ApplyResult(d) \/ ApplyFails(d)
    BY <2>3 DEF ApplyResult, ApplyFails
  <2>4. CASE LateCommit(d)
    BY <2>4 DEF LateCommit
  <2> QED BY <1>6, <2>1, <2>2, <2>3, <2>4 DEF Work
<1>7. ASSUME NEW d \in Deliveries, Sigterm(d) \/ Die(d) PROVE Goal
  BY <1>7 DEF Sigterm, Die
<1>8. ASSUME NEW d \in Deliveries, ChainAnswers(d) PROVE Goal
  BY <1>8 DEF ChainAnswers
<1>9. CASE Reap
  BY <1>9 DEF Reap
<1>10. CASE MarkUnsent \/ Settle \/ CancelRead \/ CancelWrite
  BY <1>10 DEF MarkUnsent, Settle, CancelRead, CancelWrite
<1>11. CASE Grow \/ Quiet
  BY <1>11 DEF Grow, Quiet
<1> QED BY <1>1, <1>2, <1>3, <1>4, <1>5, <1>6, <1>7, <1>8, <1>9, <1>10, <1>11 DEF Next

(* A row is inserted by a delivery that leaves its guards with it. *)
LEMMA RowsPreserved ==
  ASSUME TypeOK, [Next]_vars
  PROVE  rows' <= 1 + Cardinality(Handled')
<1> USE LifecycleAssumption DEF rest, row, runs
<1>1. /\ Handled \subseteq Handled' /\ IsFiniteSet(Handled')
      /\ Cardinality(Handled) \in Nat /\ Cardinality(Handled') \in Nat
      /\ Cardinality(Handled) <= Cardinality(Handled')
  <2>1. Handled \subseteq Deliveries /\ Handled' \subseteq Deliveries
    BY DEF Handled
  <2>2. Handled \subseteq Handled'
    BY TypesPreserved
  <2>3. IsFiniteSet(Handled) /\ IsFiniteSet(Handled')
    BY <2>1, FS_Subset
  <2> QED BY <2>2, <2>3, FS_Subset, FS_CardinalityType
<1>2. CASE rows' = rows
  BY <1>1, <1>2 DEF TypeOK, Typed
<1>3. ASSUME NEW d \in Deliveries, RefuseFeature(d) PROVE rows' <= 1 + Cardinality(Handled')
  <2>1. d \notin Handled /\ d \in Handled' /\ rows' \in {rows, rows + 1}
    BY <1>3 DEF RefuseFeature, Handled, Move, TypeOK, Typed
  <2>2. Cardinality(Handled') # Cardinality(Handled)
    BY <1>1, <2>1, FS_Subset
  <2> QED BY <1>1, <2>1, <2>2 DEF TypeOK, Typed
<1>4. ASSUME NEW d \in Deliveries, Handle(d), ~RefuseFeature(d) PROVE rows' = rows
  BY <1>4 DEF Handle, Refuse, Requeue, HandlerThrows, Claim, DropDuplicate,
              ClaimReplyLost, Charge, ChargeRefused, Dispatch, DispatchFails, BlameJob,
              GuardDispatch, FailMessage, Awaited, Delete, DeleteFails
<1>5. ASSUME NEW d \in Deliveries, Prepare(d) \/ Work(d) PROVE rows' = rows
  BY <1>5 DEF Prepare, MarkRunning, RecheckCancels, PrepareFails, Enter,
              Work, Broadcast, Return, ApplyResult, ApplyFails, LateCommit
<1>6. ASSUME NEW d \in Deliveries,
             Receive(d) \/ Crash(d) \/ Sigterm(d) \/ Die(d) \/ ChainAnswers(d)
      PROVE  rows' = rows
  BY <1>6 DEF Receive, Crash, Sigterm, Die, ChainAnswers
<1>7. ASSUME \/ MarkUnsent \/ Reap \/ Settle \/ CancelRead \/ CancelWrite
             \/ Grow \/ Quiet \/ UNCHANGED vars
      PROVE  rows' = rows
  BY <1>7 DEF MarkUnsent, Reap, Settle, CancelRead, CancelWrite, Grow, Quiet, vars
<1> QED BY <1>2, <1>3, <1>4, <1>5, <1>6, <1>7 DEF Next

(* Types, the agreement of the row's columns, and where rows come from. *)
THEOREM LifecycleTypeCorrect == Spec => []TypeOK
<1>1. Init => TypeOK
  <2> SUFFICES ASSUME Init PROVE TypeOK
    OBVIOUS
  <2> USE LifecycleAssumption DEF Init
  <2>1. Typed
    <3>1. pc \in [Deliveries -> Handling \cup Closing \cup {"idle", "finished", "crashed"}]
      OBVIOUS
    <3>2. run \in [Deliveries -> Alive \cup {"none", "created", "ended"}]
      OBVIOUS
    <3>3. /\ result \in [Deliveries -> Results]
          /\ tx \in [Deliveries -> {"none", "unread", "landed", "failed"}]
      BY DEF Results
    <3>4. automated \in BOOLEAN /\ cancelling \in BOOLEAN /\ doubted \in BOOLEAN
      BY Zenon
    <3>6. age = 0 /\ rows = 1 /\ reaped = 0
      BY Zenon
    <3>7. age \in Ages /\ rows \in Nat /\ reaped \in Nat
      <4> HIDE DEF Init
      <4> QED BY <3>6 DEF Ages
    <3>5. /\ logs \in {"none", "quiet", "recent"} /\ msg \in {"queued", "gone"}
          /\ signalled \subseteq Deliveries /\ ran \subseteq Deliveries
      OBVIOUS
    <3> QED BY <3>1, <3>2, <3>3, <3>4, <3>5, <3>7 DEF Typed
  <2>2. RowOK
    BY DEF RowOK, Statuses, Terminal, Reasons, NeverRanCodes, PlatformCodes, RunErrors
  <2>3. Handled = {} /\ Cardinality({}) = 0
    BY FS_EmptySet DEF Handled
  <2> QED BY <2>1, <2>2, <2>3 DEF TypeOK
<1>2. TypeOK /\ [Next]_vars => TypeOK'
  BY TypesPreserved, RowPreserved, RowsPreserved DEF TypeOK
<1> QED BY <1>1, <1>2, PTL DEF Spec

-----------------------------------------------------------------------------
(* Only the reaper makes a row claimable. *)
LEMMA OnlyReaperReopens ==
  ASSUME TypeOK, [Next]_vars, Claimable(From)', ~Claimable(From)
  PROVE  Reap
<1> USE DEF Claimable, From, NeverRanCodes
<1>0. automated' = automated /\ RowOK
  BY ZenonT(60) DEF TypeOK, Next, vars, rest, Handle, Refuse, RefuseFeature, Requeue, HandlerThrows,
         Claim, DropDuplicate, ClaimReplyLost, Charge, ChargeRefused, Dispatch,
         DispatchFails, BlameJob, GuardDispatch, FailMessage, Awaited, Delete, DeleteFails,
         Receive, Crash, Prepare, MarkRunning, RecheckCancels, PrepareFails, Enter,
         Work, Broadcast, Return, ApplyResult, ApplyFails, LateCommit, Sigterm, Die,
         ChainAnswers, MarkUnsent, Reap, Settle, CancelRead, CancelWrite, Grow, Quiet
<1>1. ASSUME UNCHANGED row PROVE FALSE
  BY <1>0, <1>1 DEF row
<1>2. ASSUME NEW d \in Deliveries, Handle(d) PROVE FALSE
  <2> USE DEF WriteIf, Write, row
  <2>1. ASSUME Refuse(d) \/ RefuseFeature(d) \/ ChargeRefused(d) PROVE FALSE
    BY <1>0, <2>1 DEF Refuse, RefuseFeature, ChargeRefused
  <2>2. ASSUME Claim(d) \/ ClaimReplyLost(d) PROVE FALSE
    BY <1>0, <2>2 DEF Claim, ClaimReplyLost
  <2>3. ASSUME BlameJob(d) \/ GuardDispatch(d) \/ FailMessage(d) PROVE FALSE
    BY <1>0, <2>3 DEF BlameJob, GuardDispatch, FailMessage
  <2>4. ASSUME Requeue(d) \/ HandlerThrows(d) \/ DropDuplicate(d) \/ Charge(d)
               \/ Dispatch(d) \/ DispatchFails(d) \/ Awaited(d)
               \/ Delete(d) \/ DeleteFails(d)
        PROVE  FALSE
    BY <1>1, <2>4 DEF Requeue, HandlerThrows, DropDuplicate, Charge, Dispatch,
                      DispatchFails, Awaited, Delete, DeleteFails
  <2> QED BY <1>2, <2>1, <2>2, <2>3, <2>4 DEF Handle
<1>3. ASSUME NEW d \in Deliveries, Prepare(d) \/ Sigterm(d) PROVE FALSE
  <2> USE DEF Backstop, WriteIf, Write, row, RowOK
  <2>1. ASSUME MarkRunning(d) \/ RecheckCancels(d) \/ PrepareFails(d) \/ Sigterm(d) PROVE FALSE
    BY <1>0, <2>1 DEF MarkRunning, RecheckCancels, PrepareFails, Sigterm, Statuses
  <2>2. ASSUME Enter(d) PROVE FALSE
    BY <1>1, <2>2 DEF Enter
  <2> QED BY <1>3, <2>1, <2>2 DEF Prepare
<1>4. ASSUME NEW d \in Deliveries, Work(d) PROVE FALSE
  <2>1. ASSUME Broadcast(d) PROVE FALSE
    BY <1>1, <2>1 DEF Broadcast
  <2>2. ASSUME Return(d) PROVE FALSE
    <3>1. UNCHANGED row \/ status' \in {"unconfirmed", "error", "success"}
      BY <2>2 DEF Return, Finalize, Verdict
    <3> QED BY <1>0, <1>1, <3>1
  <2>3. ASSUME ApplyResult(d) \/ ApplyFails(d) PROVE FALSE
    BY <1>0, <2>3 DEF ApplyResult, ApplyFails, Backstop, WriteIf, Write, row, RowOK
  <2>4. ASSUME LateCommit(d) PROVE FALSE
    BY <1>0, <2>4 DEF LateCommit, row
  <2> QED BY <1>4, <2>1, <2>2, <2>3, <2>4 DEF Work
<1>5. ASSUME NEW d \in Deliveries, Receive(d) \/ Crash(d) \/ Die(d) \/ ChainAnswers(d)
      PROVE  FALSE
  BY <1>1, <1>5 DEF Receive, Crash, Die, ChainAnswers
<1>6. ASSUME Settle \/ CancelWrite \/ MarkUnsent PROVE FALSE
  BY <1>0, <1>6 DEF Settle, CancelWrite, MarkUnsent, WriteIf, Write, row
<1>7. ASSUME CancelRead \/ Grow \/ Quiet \/ UNCHANGED vars PROVE FALSE
  BY <1>1, <1>7 DEF CancelRead, Grow, Quiet, vars, row
<1> QED BY <1>2, <1>3, <1>4, <1>5, <1>6, <1>7 DEF Next
(* A delivery comes to act on a claim by claiming the row and in no other   *)
(* way, and only the reaper counts a run that never started.                *)
LEMMA OnlyClaimsEnter ==
  ASSUME TypeOK, ClaimsAreCounted, [Next]_vars,
         \A d \in Deliveries : ~Claim(d)
  PROVE  Claimants' \subseteq Claimants /\ (reaped' = reaped \/ Reap)
<1> USE DEF TypeOK, Typed, ClaimsAreCounted, Claimants, Move, At, Launch, rest, runs
<1>1. ASSUME NEW d \in Deliveries, Handle(d)
      PROVE  Claimants' \subseteq Claimants /\ reaped' = reaped
  <2>1. CASE Refuse(d) \/ RefuseFeature(d) \/ Requeue(d) \/ DropDuplicate(d)
    BY <2>1 DEF Refuse, RefuseFeature, Requeue, DropDuplicate
  <2>2. CASE ClaimReplyLost(d) \/ HandlerThrows(d) \/ Charge(d) \/ ChargeRefused(d)
    BY <2>2 DEF ClaimReplyLost, HandlerThrows, Charge, ChargeRefused
  <2>3. CASE Dispatch(d) \/ DispatchFails(d)
    BY <2>3 DEF Dispatch, DispatchFails
  <2>4. CASE BlameJob(d) \/ GuardDispatch(d) \/ FailMessage(d) \/ Awaited(d)
             \/ Delete(d) \/ DeleteFails(d)
    BY <2>4 DEF BlameJob, GuardDispatch, FailMessage, Awaited, Delete, DeleteFails
  <2> QED BY <1>1, <2>1, <2>2, <2>3, <2>4 DEF Handle
<1>2. ASSUME NEW d \in Deliveries, Prepare(d) \/ Work(d)
      PROVE  Claimants' \subseteq Claimants /\ reaped' = reaped
  <2>1. CASE Prepare(d)
    BY <2>1 DEF Prepare, MarkRunning, RecheckCancels, PrepareFails, Enter
  <2>2. CASE Work(d)
    BY <2>2 DEF Work, Broadcast, Return, ApplyResult, ApplyFails, LateCommit
  <2> QED BY <1>2, <2>1, <2>2
<1>3. ASSUME NEW d \in Deliveries,
             Receive(d) \/ Crash(d) \/ Sigterm(d) \/ Die(d) \/ ChainAnswers(d)
      PROVE  Claimants' \subseteq Claimants /\ reaped' = reaped
  <2>1. CASE Crash(d)
    BY <2>1 DEF Crash
  <2>2. CASE Receive(d) \/ ChainAnswers(d)
    BY <2>2 DEF Receive, ChainAnswers
  <2>3. CASE Sigterm(d) \/ Die(d)
    BY <2>3 DEF Sigterm, Die, Alive
  <2> QED BY <1>3, <2>1, <2>2, <2>3
<1>4. ASSUME \/ MarkUnsent \/ Settle \/ CancelRead \/ CancelWrite
             \/ Grow \/ Quiet \/ UNCHANGED vars
      PROVE  Claimants' \subseteq Claimants /\ reaped' = reaped
  <2>1. pc' = pc /\ run' = run /\ reaped' = reaped
    BY <1>4 DEF MarkUnsent, Settle, CancelRead, CancelWrite, Grow, Quiet, vars
  <2> QED BY <2>1
<1>5. CASE Reap
  BY <1>5 DEF Reap
<1> QED BY <1>1, <1>2, <1>3, <1>4, <1>5 DEF Next

(* A handler that has not dispatched has no run.                            *)
LEMMA NoRunBeforeDispatch ==
  ASSUME TypeOK, ClaimsAreCounted, [Next]_vars
  PROVE  \A d \in Deliveries :
           pc'[d] \in {"idle", "received", "charging", "dispatching"} => run'[d] = "none"
<1> DEFINE Goal == \A d \in Deliveries :
           pc'[d] \in {"idle", "received", "charging", "dispatching"} => run'[d] = "none"
<1> USE DEF TypeOK, Typed, ClaimsAreCounted, Handling, Alive, Move, At, Launch, rest, runs
<1>1. ASSUME NEW e \in Deliveries, Handle(e) PROVE Goal
  <2>1. CASE Dispatch(e) \/ DispatchFails(e)
    BY <2>1 DEF Dispatch, DispatchFails
  <2>2. CASE Refuse(e) \/ RefuseFeature(e) \/ Requeue(e) \/ DropDuplicate(e) \/ Claim(e)
    BY <2>2 DEF Refuse, RefuseFeature, Requeue, DropDuplicate, Claim
  <2>3. CASE ClaimReplyLost(e) \/ HandlerThrows(e) \/ Charge(e) \/ ChargeRefused(e)
    BY <2>3 DEF ClaimReplyLost, HandlerThrows, Charge, ChargeRefused
  <2>4. CASE BlameJob(e) \/ GuardDispatch(e) \/ FailMessage(e) \/ Awaited(e)
             \/ Delete(e) \/ DeleteFails(e)
    BY <2>4 DEF BlameJob, GuardDispatch, FailMessage, Awaited, Delete, DeleteFails
  <2> QED BY <1>1, <2>1, <2>2, <2>3, <2>4 DEF Handle
<1>2. ASSUME NEW e \in Deliveries, Prepare(e) \/ Work(e) PROVE Goal
  <2>1. CASE Prepare(e)
    BY <2>1 DEF Prepare, MarkRunning, RecheckCancels, PrepareFails, Enter
  <2>2. CASE Work(e)
    BY <2>2 DEF Work, Broadcast, Return, ApplyResult, ApplyFails, LateCommit
  <2> QED BY <1>2, <2>1, <2>2
<1>3. ASSUME NEW e \in Deliveries,
             Receive(e) \/ Crash(e) \/ Sigterm(e) \/ Die(e) \/ ChainAnswers(e)
      PROVE  Goal
  BY <1>3 DEF Receive, Crash, Sigterm, Die, ChainAnswers
<1>4. ASSUME \/ MarkUnsent \/ Reap \/ Settle \/ CancelRead \/ CancelWrite
             \/ Grow \/ Quiet \/ UNCHANGED vars
      PROVE  Goal
  BY <1>4 DEF MarkUnsent, Reap, Settle, CancelRead, CancelWrite, Grow, Quiet, vars
<1> QED BY <1>1, <1>2, <1>3, <1>4 DEF Next

(* A claim is spent by the delivery that takes it, and a new one is to be   *)
(* had only where the reaper counted a run that never started.              *)
LEMMA ClaimsStayCounted ==
  ASSUME TypeOK, ClaimsAreCounted, [Next]_vars
  PROVE  ClaimsAreCounted'
<1> DEFINE Free   == IF Claimable(From) THEN 1 ELSE 0
           Counted == Cardinality(Claimants) + Free <= 1 + reaped
<1>1. /\ IsFiniteSet(Claimants) /\ IsFiniteSet(Claimants')
      /\ Cardinality(Claimants) \in Nat /\ Cardinality(Claimants') \in Nat
      /\ reaped \in Nat /\ Counted
  <2>1. Claimants \subseteq Deliveries /\ Claimants' \subseteq Deliveries
    BY DEF Claimants
  <2>2. IsFiniteSet(Claimants) /\ IsFiniteSet(Claimants')
    BY <2>1, FS_Subset, LifecycleAssumption
  <2> QED BY <2>2, FS_CardinalityType DEF TypeOK, Typed, ClaimsAreCounted
<1>2. Counted'
  <2>1. ASSUME NEW d \in Deliveries, Claim(d) PROVE Counted'
    <3>1. Claimable(From) /\ ~Claimable(From)' /\ reaped' = reaped
      BY <2>1 DEF Claim, Claimable, From, Into, Write, NeverRanCodes, rest
    <3>2. Claimants' \subseteq Claimants \cup {d}
      BY <2>1 DEF Claim, Claimants, Move, runs, TypeOK, Typed
    <3>3. /\ IsFiniteSet(Claimants \cup {d})
          /\ Cardinality(Claimants \cup {d}) <= Cardinality(Claimants) + 1
          /\ Cardinality(Claimants \cup {d}) \in Nat
      BY <1>1, FS_AddElement, FS_CardinalityType
    <3>4. Cardinality(Claimants') <= Cardinality(Claimants \cup {d})
      BY <3>2, <3>3, FS_Subset
    <3> QED BY <1>1, <3>1, <3>3, <3>4
  <2>2. ASSUME \A d \in Deliveries : ~Claim(d) PROVE Counted'
    <3>1. Claimants' \subseteq Claimants /\ (reaped' = reaped \/ Reap)
      BY <2>2, OnlyClaimsEnter
    <3>2. Cardinality(Claimants') <= Cardinality(Claimants)
      BY <1>1, <3>1, FS_Subset
    <3>3. CASE ~Reap
      <4>1. Claimable(From)' => Claimable(From)
        BY <3>3, OnlyReaperReopens
      <4> QED BY <1>1, <3>1, <3>2, <3>3, <4>1
    <3>4. CASE Reap
      <4>1. ReapCode \in NeverRanCodes => reaped' = reaped + 1
        BY <3>4 DEF Reap
      <4>2. ReapCode \notin NeverRanCodes => reaped' = reaped /\ ~Claimable(From)'
        BY <3>4 DEF Reap, Write, Claimable, From, NeverRanCodes
      <4> QED BY <1>1, <3>2, <4>1, <4>2
    <3> QED BY <3>3, <3>4
  <2> QED BY <2>1, <2>2
<1> QED BY <1>2, NoRunBeforeDispatch DEF ClaimsAreCounted

(* The inductive invariant behind LaunchesAreClaimed. *)
THEOREM ClaimsAreAlwaysCounted == Spec => []ClaimsAreCounted
<1>1. Init => ClaimsAreCounted
  <2> SUFFICES ASSUME Init PROVE ClaimsAreCounted
    OBVIOUS
  <2>1. Claimants = {}
    BY DEF Init, Claimants
  <2>2. Cardinality(Claimants) = 0 /\ reaped = 0
    BY <2>1, FS_EmptySet DEF Init
  <2>3. \A d \in Deliveries : run[d] = "none"
    BY DEF Init
  <2> QED BY <2>2, <2>3 DEF ClaimsAreCounted
<1> QED BY <1>1, ClaimsStayCounted, LifecycleTypeCorrect, PTL DEF Spec

(* claimPhantomForExecution, claimPendingForExecution: whatever is          *)
(* redelivered, a run is dispatched only on a claim, and a claim is given   *)
(* out once more only after the reaper said that the last run never began.  *)
THEOREM DispatchesAreClaimed == Spec => []LaunchesAreClaimed
<1>1. TypeOK /\ ClaimsAreCounted => LaunchesAreClaimed
  <2> SUFFICES ASSUME TypeOK, ClaimsAreCounted PROVE LaunchesAreClaimed
    OBVIOUS
  <2>1. Launched \subseteq Claimants /\ Claimants \subseteq Deliveries
    BY DEF Launched, Claimants
  <2>2. /\ IsFiniteSet(Claimants) /\ IsFiniteSet(Launched)
        /\ Cardinality(Launched) <= Cardinality(Claimants)
    BY <2>1, FS_Subset, LifecycleAssumption
  <2>3. Cardinality(Claimants) \in Nat /\ Cardinality(Launched) \in Nat /\ reaped \in Nat
    BY <2>2, FS_CardinalityType DEF TypeOK, Typed
  <2> QED BY <2>2, <2>3 DEF ClaimsAreCounted, LaunchesAreClaimed
<1> QED BY <1>1, LifecycleTypeCorrect, ClaimsAreAlwaysCounted, PTL

-----------------------------------------------------------------------------
(* The PATCH of a dispatcher whose send was reported as failed. *)
UnsentMark == reason' = "CS-0001" /\ automated /\ doubted

(* What a step makes of a row that says cancelled or success: each guarded  *)
(* writer but that PATCH spares both, which leaves it and the two writes by *)
(* id.                                                                      *)
LEMMA FinalRowIsSpared ==
  ASSUME [Next]_vars, status \in {"cancelled", "success"}
  PROVE  \/ status' = status
         \/ reason' = "P-0002"
         \/ status = "success" /\ (cancelling \/ UnsentMark)
<1> DEFINE Spared == \/ status' = status
                     \/ reason' = "P-0002"
                     \/ status = "success" /\ (cancelling \/ UnsentMark)
<1> USE DEF row
<1>1. ASSUME NEW d \in Deliveries, Handle(d) PROVE Spared
  <2> USE DEF WriteIf, Write
  <2>1. CASE Refuse(d) \/ RefuseFeature(d) \/ ChargeRefused(d)
    BY <2>1 DEF Refuse, RefuseFeature, ChargeRefused
  <2>2. CASE Claim(d) \/ ClaimReplyLost(d)
    BY <2>2 DEF Claim, ClaimReplyLost, Claimable, From
  <2>3. CASE BlameJob(d) \/ GuardDispatch(d) \/ FailMessage(d)
    BY <2>3 DEF BlameJob, GuardDispatch, FailMessage, Into
  <2>4. CASE \/ Requeue(d) \/ HandlerThrows(d) \/ DropDuplicate(d) \/ Charge(d)
             \/ Dispatch(d) \/ DispatchFails(d) \/ Awaited(d) \/ Delete(d) \/ DeleteFails(d)
    BY <2>4 DEF Requeue, HandlerThrows, DropDuplicate, Charge, Dispatch,
                DispatchFails, Awaited, Delete, DeleteFails
  <2> QED BY <1>1, <2>1, <2>2, <2>3, <2>4 DEF Handle
<1>2. ASSUME NEW d \in Deliveries, Prepare(d) \/ Sigterm(d) PROVE Spared
  <2> USE DEF Backstop, WriteIf
  <2>1. CASE MarkRunning(d) \/ RecheckCancels(d) \/ PrepareFails(d) \/ Sigterm(d)
    BY <2>1 DEF MarkRunning, RecheckCancels, PrepareFails, Sigterm
  <2>2. CASE Enter(d)
    BY <2>2 DEF Enter
  <2> QED BY <1>2, <2>1, <2>2 DEF Prepare
<1>3. ASSUME NEW d \in Deliveries, Work(d) PROVE Spared
  <2>1. CASE Broadcast(d)
    BY <2>1 DEF Broadcast
  <2>2. CASE Return(d)
    BY <2>2 DEF Return, Finalize
  <2>3. CASE ApplyResult(d) \/ ApplyFails(d)
    BY <2>3 DEF ApplyResult, ApplyFails, Backstop, WriteIf
  <2>4. CASE LateCommit(d)
    BY <2>4 DEF LateCommit
  <2> QED BY <1>3, <2>1, <2>2, <2>3, <2>4 DEF Work
<1>4. ASSUME NEW d \in Deliveries, Receive(d) \/ Crash(d) \/ Die(d) \/ ChainAnswers(d)
      PROVE  Spared
  BY <1>4 DEF Receive, Crash, Die, ChainAnswers
<1>5. CASE Reap \/ Settle
  BY <1>5 DEF Reap, Stale, Settle
<1>6. CASE CancelRead \/ CancelWrite
  BY <1>6 DEF CancelRead, CancelWrite, Write
<1>7. CASE Grow \/ Quiet \/ UNCHANGED vars
  BY <1>7 DEF Grow, Quiet, vars
<1>8. CASE MarkUnsent
  BY <1>8 DEF MarkUnsent, UnsentMark, WriteIf, Write
<1> QED BY <1>1, <1>2, <1>3, <1>4, <1>5, <1>6, <1>7, <1>8 DEF Next

(* docs/api/executions.md: a cancellation is final but for the P-0002 write *)
(* of a failed Job creation.                                                *)
THEOREM CancellationStands == Spec => CancelStands
<1>1. [Next]_vars => [status = "cancelled" =>
                        status' = "cancelled" \/ reason' = "P-0002"]_vars
  BY FinalRowIsSpared
<1> QED BY <1>1, PTL DEF Spec, CancelStands

(* A recorded success is final but for that write, a cancel request that    *)
(* had read 'running' before, and the PATCH of a dispatcher whose delivered *)
(* send was reported as failed.                                             *)
THEOREM RecordedSuccessStands == Spec => SuccessStands
<1>1. [Next]_vars => [status = "success" =>
                        \/ status' = "success"
                        \/ reason' = "P-0002" \/ cancelling
                        \/ reason' = "CS-0001" /\ automated /\ doubted]_vars
  BY FinalRowIsSpared DEF UnsentMark
<1> QED BY <1>1, PTL DEF Spec, SuccessStands

-----------------------------------------------------------------------------
(* What a trigger may count on: its workflow body is entered once, a        *)
(* refused run never entered it, and a success was one.                     *)

(* No timeout runs out in limbo and every step log is inserted. *)
Calm == env.timely /\ ~env.logFaults

(* Delivery d's part in InLimbo. *)
Limbo(d) == pc[d] \in Handling \/ run[d] \in {"created", "marked"}

(* Delivery d has the claim, or a run that has not entered the body.        *)
Bound(d) == pc[d] \in {"charging", "dispatching"} \/ run[d] \in {"created", "marked"}

(* No statement of a handler refuses such a row or claims it again.         *)
Settled == status # "skipped" /\ reason \notin NeverRanCodes

AloneInLimbo == \A d, e \in Deliveries : Limbo(d) /\ Limbo(e) => d = e

(* The claim is unspent: nothing has run, and no row of it was refused.     *)
BoundIsFirst ==
  \A d \in Deliveries :
    /\ Bound(d) => Settled /\ ran = {}
    /\ run[d] = "marked" => status \notin {"phantom", "pending"}

(* Once a run has entered the body, its row can be neither claimed nor      *)
(* refused, and the reaper sees that it began.                              *)
RanIsKnown ==
  ran # {} => /\ Settled /\ status \notin {"phantom", "pending"}
              /\ logs = "none" => status # "running"

RanAlone == \A d, e \in ran : d = e

CalmInv == AloneInLimbo /\ BoundIsFirst /\ RanIsKnown /\ RanAlone

-----------------------------------------------------------------------------
(* A delivery gets into limbo by being received and in no other way.        *)
LEMMA OnlyReceiveEnters ==
  ASSUME TypeOK, ClaimsAreCounted, [Next]_vars
  PROVE  \A e \in Deliveries : Limbo(e)' => Limbo(e) \/ Receive(e)
<1> DEFINE Goal == \A e \in Deliveries : Limbo(e)' => Limbo(e) \/ Receive(e)
<1> USE DEF TypeOK, Typed, Limbo, Handling, Alive, Move, At, Launch, rest, runs
<1>1. ASSUME NEW d \in Deliveries, Receive(d) PROVE Goal
  BY <1>1 DEF Receive
<1>2. ASSUME NEW d \in Deliveries, Handle(d) PROVE Goal
  <2>1. CASE Refuse(d) \/ RefuseFeature(d) \/ Requeue(d) \/ DropDuplicate(d) \/ Claim(d)
    BY <2>1 DEF Refuse, RefuseFeature, Requeue, DropDuplicate, Claim
  <2>2. CASE ClaimReplyLost(d) \/ HandlerThrows(d) \/ Charge(d) \/ ChargeRefused(d)
    BY <2>2 DEF ClaimReplyLost, HandlerThrows, Charge, ChargeRefused
  <2>3. CASE Dispatch(d)
    BY <2>3 DEF Dispatch
  <2>4. CASE DispatchFails(d)
    BY <2>4 DEF DispatchFails
  <2>5. CASE BlameJob(d) \/ GuardDispatch(d) \/ FailMessage(d) \/ Awaited(d)
             \/ Delete(d) \/ DeleteFails(d)
    BY <2>5 DEF BlameJob, GuardDispatch, FailMessage, Awaited, Delete, DeleteFails
  <2> QED BY <1>2, <2>1, <2>2, <2>3, <2>4, <2>5 DEF Handle
<1>3. ASSUME NEW d \in Deliveries, Prepare(d) PROVE Goal
  BY <1>3 DEF Prepare, MarkRunning, RecheckCancels, PrepareFails, Enter
<1>4. ASSUME NEW d \in Deliveries, Work(d) PROVE Goal
  BY <1>4 DEF Work, Broadcast, Return, ApplyResult, ApplyFails, LateCommit
<1>5. ASSUME NEW d \in Deliveries, Crash(d) PROVE Goal
  BY <1>5 DEF Crash
<1>6. ASSUME NEW d \in Deliveries, Sigterm(d) \/ Die(d) \/ ChainAnswers(d) PROVE Goal
  BY <1>6 DEF Sigterm, Die, ChainAnswers
<1>7. ASSUME \/ MarkUnsent \/ Reap \/ Settle \/ CancelRead \/ CancelWrite
             \/ Grow \/ Quiet \/ UNCHANGED vars
      PROVE Goal
  BY <1>7 DEF MarkUnsent, Reap, Settle, CancelRead, CancelWrite, Grow, Quiet, vars
<1> QED BY <1>1, <1>2, <1>3, <1>4, <1>5, <1>6, <1>7 DEF Next

LEMMA StepAlone ==
  ASSUME TypeOK, ClaimsAreCounted, env.timely, AloneInLimbo, [Next]_vars
  PROVE  AloneInLimbo'
<1>1. ASSUME NEW d \in Deliveries, Receive(d) PROVE \A e \in Deliveries : ~Limbo(e)
  BY <1>1 DEF Receive, InLimbo, Limbo
<1>2. ASSUME NEW d \in Deliveries, Receive(d), NEW e \in Deliveries, Receive(e) PROVE d = e
  BY <1>2 DEF Receive, Move, TypeOK, Typed
<1> QED BY <1>1, <1>2, OnlyReceiveEnters DEF AloneInLimbo

(* While a handler has a delivery in hand, no run of another one waits.     *)
LEMMA HandlerIsAlone ==
  ASSUME AloneInLimbo, NEW d \in Deliveries, pc[d] \in Handling,
         NEW e \in Deliveries, Bound(e)
  PROVE  d = e
BY DEF AloneInLimbo, Limbo, Bound, Handling

LEMMA HandleCalmly ==
  ASSUME TypeOK, ClaimsAreCounted, CalmInv, NEW d \in Deliveries, Handle(d)
  PROVE  BoundIsFirst' /\ RanIsKnown' /\ RanAlone'
<1> DEFINE Goal == BoundIsFirst' /\ RanIsKnown' /\ RanAlone'
<1> USE HandlerIsAlone
    DEF TypeOK, Typed, RowOK, ClaimsAreCounted, CalmInv, BoundIsFirst, RanIsKnown, RanAlone,
        Settled, Bound, Handling, Alive, NeverRanCodes, Write, WriteIf, Move, row, rest, runs
<1>1. CASE Refuse(d)
  BY <1>1 DEF Refuse
<1>2. CASE RefuseFeature(d)
  BY <1>2 DEF RefuseFeature
<1>3. CASE Requeue(d) \/ DropDuplicate(d) \/ HandlerThrows(d) \/ Charge(d)
  BY <1>3 DEF Requeue, DropDuplicate, HandlerThrows, Charge
<1>4. CASE Claim(d)
  BY <1>4 DEF Claim, Claimable, From, Into
<1>5. CASE ClaimReplyLost(d)
  BY <1>5 DEF ClaimReplyLost, Claimable, From, Into
<1>6. CASE ChargeRefused(d)
  BY <1>6 DEF ChargeRefused
<1>7. CASE Dispatch(d)
  BY <1>7 DEF Dispatch, Launch
<1>8. CASE DispatchFails(d)
  BY <1>8 DEF DispatchFails, Launch
<1>9. CASE BlameJob(d)
  BY <1>9 DEF BlameJob
<1>10. CASE GuardDispatch(d)
  BY <1>10 DEF GuardDispatch, Into
<1>11. CASE FailMessage(d)
  BY <1>11 DEF FailMessage
<1>12. CASE Awaited(d) \/ Delete(d) \/ DeleteFails(d)
  BY <1>12 DEF Awaited, Delete, DeleteFails
<1> QED BY <1>1, <1>2, <1>3, <1>4, <1>5, <1>6, <1>7, <1>8, <1>9, <1>10, <1>11, <1>12
        DEF Handle

LEMMA PrepareCalmly ==
  ASSUME TypeOK, ClaimsAreCounted, Calm, CalmInv, NEW d \in Deliveries, Prepare(d)
  PROVE  BoundIsFirst' /\ RanIsKnown' /\ RanAlone'
<1> USE DEF TypeOK, Typed, RowOK, ClaimsAreCounted, CalmInv, BoundIsFirst, RanIsKnown, RanAlone,
        Settled, Bound, NeverRanCodes, Statuses, Terminal, Backstop, Write, WriteIf, At, row, rest
<1>1. CASE MarkRunning(d)
  BY <1>1 DEF MarkRunning
<1>2. CASE RecheckCancels(d)
  BY <1>2 DEF RecheckCancels
<1>3. CASE PrepareFails(d)
  BY <1>3 DEF PrepareFails
<1>4. CASE Enter(d)
  <2>1. \A e \in Deliveries : Bound(e) => e = d
    BY <1>4 DEF Enter, AloneInLimbo, Limbo, Handling
  <2>2. run[d] = "marked" /\ pc[d] \notin {"charging", "dispatching"} /\ ran = {}
    BY <1>4 DEF Enter
  <2>3. \A e \in Deliveries : ~Bound(e)'
    BY <1>4, <2>1, <2>2 DEF Enter
  <2>4. Settled' /\ status' \notin {"phantom", "pending"} /\ ran' = {d}
    BY <1>4, <2>2 DEF Enter
  <2>5. logs' = "none" => status' # "running"
    BY <1>4 DEF Enter, Log, Calm
  <2> QED BY <2>3, <2>4, <2>5
<1> QED BY <1>1, <1>2, <1>3, <1>4 DEF Prepare

LEMMA WorkCalmly ==
  ASSUME TypeOK, ClaimsAreCounted, Calm, CalmInv, NEW d \in Deliveries, Work(d)
  PROVE  BoundIsFirst' /\ RanIsKnown' /\ RanAlone'
<1> USE DEF TypeOK, Typed, RowOK, ClaimsAreCounted, CalmInv, BoundIsFirst, RanIsKnown, RanAlone,
        Settled, Bound, NeverRanCodes, Statuses, Terminal, Backstop, Write, WriteIf, At, row, rest
<1>1. CASE Broadcast(d)
  BY <1>1 DEF Broadcast, Log
<1>2. CASE Return(d)
  <2>1. \/ UNCHANGED <<status, reason>>
        \/ /\ status' \in {"unconfirmed", "error", "success"}
           /\ reason' \in {"step", "spurious", "none"}
    BY <1>2 DEF Return, Finalize, Verdict, VerdictReason, Failing
  <2>2. /\ run' = [run EXCEPT ![d] = "returned"]
        /\ UNCHANGED <<pc, ran, logs>>
    BY <1>2 DEF Return
  <2> QED BY <2>1, <2>2
<1>3. CASE ApplyResult(d)
  BY <1>3 DEF ApplyResult
<1>4. CASE ApplyFails(d)
  BY <1>4 DEF ApplyFails
<1>5. CASE LateCommit(d)
  BY <1>5 DEF LateCommit
<1> QED BY <1>1, <1>2, <1>3, <1>4, <1>5 DEF Work

LEMMA StepCalm ==
  ASSUME TypeOK, ClaimsAreCounted, Calm, CalmInv, [Next]_vars
  PROVE  CalmInv'
<1>0. AloneInLimbo'
  BY StepAlone DEF CalmInv, Calm
<1> DEFINE Goal == BoundIsFirst' /\ RanIsKnown' /\ RanAlone'
<1> USE DEF TypeOK, Typed, RowOK, ClaimsAreCounted, CalmInv, BoundIsFirst, RanIsKnown, RanAlone,
        Settled, Bound, Alive, NeverRanCodes, Statuses, Terminal, Backstop, Write, WriteIf,
        Move, At, row, rest, runs
<1>1. ASSUME NEW d \in Deliveries, Handle(d) PROVE Goal
  BY <1>1, HandleCalmly
<1>2. ASSUME NEW d \in Deliveries, Prepare(d) \/ Work(d) PROVE Goal
  BY <1>2, PrepareCalmly, WorkCalmly
<1>3. ASSUME NEW d \in Deliveries, Receive(d) PROVE Goal
  BY <1>3 DEF Receive
<1>4. ASSUME NEW d \in Deliveries, Crash(d) PROVE Goal
  BY <1>4 DEF Crash
<1>5. ASSUME NEW d \in Deliveries, Sigterm(d) PROVE Goal
  BY <1>5 DEF Sigterm
<1>6. ASSUME NEW d \in Deliveries, Die(d) \/ ChainAnswers(d) PROVE Goal
  BY <1>6 DEF Die, ChainAnswers
<1>7. ASSUME Reap PROVE Goal
  <2>1. \A d \in Deliveries : ~Limbo(d)
    BY <1>7 DEF Reap, Calm, InLimbo, Limbo
  <2>2. \A d \in Deliveries : ~Bound(d)
    BY <2>1 DEF Limbo, Handling
  <2>3. ran # {} => status' = "system_error" /\ reason' = "E-0001"
    BY <1>7 DEF Reap, Stale, ReapCode
  <2>4. UNCHANGED <<pc, run, ran>>
    BY <1>7 DEF Reap
  <2> QED BY <2>2, <2>3, <2>4
<1>8. ASSUME Settle PROVE Goal
  BY <1>8 DEF Settle
<1>9. ASSUME CancelRead \/ CancelWrite PROVE Goal
  BY <1>9 DEF CancelRead, CancelWrite
<1>10. ASSUME Grow \/ Quiet \/ UNCHANGED vars PROVE Goal
  BY <1>10 DEF Grow, Quiet, vars
<1>11. ASSUME MarkUnsent PROVE Goal
  BY <1>11 DEF MarkUnsent
<1> QED BY <1>0, <1>1, <1>2, <1>3, <1>4, <1>5, <1>6, <1>7, <1>8, <1>9, <1>10, <1>11
        DEF Next, CalmInv

LEMMA CalmIsKept == Spec => [](Calm => CalmInv)
<1>1. Init => CalmInv
  BY DEF Init, CalmInv, AloneInLimbo, BoundIsFirst, RanIsKnown, RanAlone, Limbo, Bound, Handling
<1>2. [Next]_vars => (Calm' <=> Calm)
  <2> SUFFICES ASSUME [Next]_vars PROVE env' = env
    BY DEF Calm
  <2>1. ASSUME NEW d \in Deliveries, Handle(d) PROVE env' = env
    BY <2>1 DEF Handle, Refuse, RefuseFeature, Requeue, HandlerThrows, Claim, DropDuplicate,
                ClaimReplyLost, Charge, ChargeRefused, Dispatch, DispatchFails, BlameJob,
                GuardDispatch, FailMessage, Awaited, Delete, DeleteFails, rest
  <2>2. ASSUME NEW d \in Deliveries, Prepare(d) \/ Work(d) PROVE env' = env
    BY <2>2 DEF Prepare, MarkRunning, RecheckCancels, PrepareFails, Enter, Work, Broadcast,
                Return, ApplyResult, ApplyFails, LateCommit, rest
  <2>3. ASSUME NEW d \in Deliveries,
               Receive(d) \/ Crash(d) \/ Sigterm(d) \/ Die(d) \/ ChainAnswers(d)
        PROVE  env' = env
    BY <2>3 DEF Receive, Crash, Sigterm, Die, ChainAnswers, rest
  <2>4. CASE \/ MarkUnsent \/ Reap \/ Settle \/ CancelRead \/ CancelWrite
             \/ Grow \/ Quiet \/ UNCHANGED vars
    BY <2>4 DEF MarkUnsent, Reap, Settle, CancelRead, CancelWrite, Grow, Quiet, rest, vars
  <2> QED BY <2>1, <2>2, <2>3, <2>4 DEF Next
<1> QED BY <1>1, <1>2, StepCalm, LifecycleTypeCorrect, ClaimsAreAlwaysCounted, PTL DEF Spec

(* When no timeout cuts a handler or a starting pod short, one trigger      *)
(* enters its workflow body at most once, however often its message comes,  *)
(* its executor crashes or its row is reaped and re-claimed.                *)
THEOREM TriggerRunsOnce == Spec => []OneRunPerTrigger
<1>1. TypeOK /\ (Calm => CalmInv) => OneRunPerTrigger
  <2> SUFFICES ASSUME TypeOK, Calm, CalmInv PROVE Cardinality(ran) <= 1
    BY DEF OneRunPerTrigger, Calm
  <2>1. CASE ran = {}
    BY <2>1, FS_EmptySet
  <2>2. CASE ran # {}
    <3>1. PICK d \in ran : ran = {d}
      BY <2>2 DEF CalmInv, RanAlone
    <3>2. Cardinality({d}) = 1
      BY FS_Singleton
    <3> QED BY <3>1, <3>2
  <2> QED BY <2>1, <2>2
<1> QED BY <1>1, CalmIsKept, LifecycleTypeCorrect, PTL

(* Under the same condition a run recorded as skipped never entered its     *)
(* body (lib/errors/execution-status.ts).                                   *)
THEOREM RefusalsNeverRan == Spec => []RefusedNeverRan
<1>1. (Calm => CalmInv) => RefusedNeverRan
  BY DEF RefusedNeverRan, Calm, CalmInv, RanIsKnown, Settled
<1> QED BY <1>1, CalmIsKept, PTL

-----------------------------------------------------------------------------
(* Successes.                                                               *)

Succeeded == {"success", "spurious", "recovered"}

(* A run has a result once it has returned, and returned from its body; a   *)
(* row left open for the chain alone is of a run that did not fail.         *)
ResultsOfRuns ==
  /\ \A d \in Deliveries :
       /\ run[d] \in {"working", "returned"} \/ result[d] # "none" => d \in ran
       /\ run[d] \notin {"returned", "ended"} => result[d] = "none"
  /\ status = "unconfirmed" /\ reason = "none" => result[finalizer] \in Succeeded

SuccessInv == ResultsOfRuns /\ FailureStands

LEMMA StepSuccess ==
  ASSUME TypeOK, ClaimsAreCounted, SuccessInv, [Next]_vars
  PROVE  SuccessInv'
<1> USE DEF TypeOK, Typed, RowOK, ClaimsAreCounted, SuccessInv, ResultsOfRuns, FailureStands,
        Succeeded, Handling, Alive, Statuses, Terminal, Results, NeverRanCodes, Backstop, Write,
        WriteIf, Move, At, row, rest, runs
<1>1. ASSUME NEW d \in Deliveries, Handle(d) PROVE SuccessInv'
  <2>1. CASE Refuse(d) \/ RefuseFeature(d) \/ Requeue(d) \/ DropDuplicate(d)
    BY <2>1 DEF Refuse, RefuseFeature, Requeue, DropDuplicate
  <2>2. CASE Claim(d) \/ ClaimReplyLost(d)
    BY <2>2 DEF Claim, ClaimReplyLost, Into
  <2>3. CASE HandlerThrows(d) \/ Charge(d) \/ ChargeRefused(d)
    BY <2>3 DEF HandlerThrows, Charge, ChargeRefused
  <2>4. CASE Dispatch(d)
    BY <2>4 DEF Dispatch, Launch
  <2>5. CASE DispatchFails(d)
    BY <2>5 DEF DispatchFails, Launch
  <2>6. CASE BlameJob(d) \/ GuardDispatch(d) \/ FailMessage(d) \/ Awaited(d)
             \/ Delete(d) \/ DeleteFails(d)
    BY <2>6 DEF BlameJob, GuardDispatch, FailMessage, Awaited, Delete, DeleteFails
  <2> QED BY <1>1, <2>1, <2>2, <2>3, <2>4, <2>5, <2>6 DEF Handle
<1>2. ASSUME NEW d \in Deliveries, Prepare(d) PROVE SuccessInv'
  <2>1. CASE MarkRunning(d)
    BY <2>1 DEF MarkRunning
  <2>2. CASE RecheckCancels(d) \/ PrepareFails(d)
    BY <2>2 DEF RecheckCancels, PrepareFails
  <2>3. CASE Enter(d)
    BY <2>3 DEF Enter
  <2> QED BY <1>2, <2>1, <2>2, <2>3 DEF Prepare
<1>3. ASSUME NEW d \in Deliveries, Work(d) PROVE SuccessInv'
  <2>1. CASE Broadcast(d)
    BY <2>1 DEF Broadcast
  <2>2. CASE Return(d)
    <3>1. PICK outcome \in Results \ {"none"}, held \in BOOLEAN :
            /\ result' = [result EXCEPT ![d] = outcome]
            /\ Finalize(d, outcome, held) \/ UNCHANGED row
      BY <2>2 DEF Return
    <3>2. /\ run[d] = "working" /\ run' = [run EXCEPT ![d] = "returned"]
          /\ ran' = ran /\ result[d] = "none" /\ d \in ran
      BY <2>2 DEF Return
    <3>3. CASE UNCHANGED row
      BY <3>1, <3>2, <3>3
    <3>4. CASE /\ status' = Verdict(d, outcome, held)
               /\ reason' = VerdictReason(d, outcome)
               /\ finalizer' = d
      <4>1. status' = "success" => outcome \in Succeeded
        BY <3>4 DEF Verdict, Failing
      <4>2. reason' = "none" => outcome \in Succeeded
        BY <3>4 DEF VerdictReason, Failing
      <4> QED BY <3>1, <3>2, <3>4, <4>1, <4>2
    <3> QED BY <3>1, <3>3, <3>4 DEF Finalize
  <2>3. CASE ApplyResult(d)
    BY <2>3 DEF ApplyResult
  <2>4. CASE ApplyFails(d)
    BY <2>4 DEF ApplyFails
  <2>5. CASE LateCommit(d)
    BY <2>5 DEF LateCommit
  <2> QED BY <1>3, <2>1, <2>2, <2>3, <2>4, <2>5 DEF Work
<1>4. ASSUME NEW d \in Deliveries, Receive(d) \/ Crash(d) PROVE SuccessInv'
  BY <1>4 DEF Receive, Crash
<1>5. ASSUME NEW d \in Deliveries, Sigterm(d) \/ Die(d) \/ ChainAnswers(d) PROVE SuccessInv'
  BY <1>5 DEF Sigterm, Die, ChainAnswers
<1>6. CASE Reap
  BY <1>6 DEF Reap
<1>7. CASE Settle
  BY <1>7 DEF Settle
<1>8. CASE CancelRead \/ CancelWrite \/ Grow \/ Quiet \/ UNCHANGED vars
  BY <1>8 DEF CancelRead, CancelWrite, Grow, Quiet, vars
<1>9. CASE MarkUnsent
  BY <1>9 DEF MarkUnsent
<1> QED BY <1>1, <1>2, <1>3, <1>4, <1>5, <1>6, <1>7, <1>8, <1>9 DEF Next

(* A row says success only of a run that succeeded, or whose only error was *)
(* the runner's own: neither the reconciler nor the self-heal turns a       *)
(* failed step into a success.                                              *)
THEOREM FailuresStand == Spec => []FailureStands
<1>1. Init => SuccessInv
  BY DEF Init, SuccessInv, ResultsOfRuns, FailureStands
<1>2. SuccessInv => FailureStands
  BY DEF SuccessInv
<1> QED BY <1>1, <1>2, StepSuccess, LifecycleTypeCorrect, ClaimsAreAlwaysCounted, PTL DEF Spec
=============================================================================
