------------------------- MODULE ExecutionLifecycle -------------------------
(***************************************************************************)
(* One triggered run, from its pre-created workflow_executions row and its  *)
(* SQS message to a terminal status.                                        *)
(*                                                                          *)
(* Actors sharing the row: the producer, where its send is reported as      *)
(* failed; executor handlers, one per delivery of the message               *)
(* (keeperhub-executor/index.ts); the runs they dispatch                    *)
(* (workflow-runner.ts or in-process.ts, with the engine's terminal write   *)
(* in lib/workflow/executor/logging.ts); the reaper; the reconciler; the    *)
(* cancel route.  Each action is one SQL statement or one call out, so two  *)
(* actors interleave between any two statements.                            *)
(*                                                                          *)
(* The message carries the execution id (id-less messages insert a fresh    *)
(* row and share none).  The guards a handler evaluates before its claim    *)
(* (workflow lifecycle, schedule, billing, features, capacity) read other   *)
(* tables, so their answer is any.  A run is named by the delivery whose    *)
(* handler dispatched it.                                                   *)
(***************************************************************************)
EXTENDS Integers, FiniteSets

CONSTANTS
  Deliveries,   \* how often SQS may hand the message out
  None,
  Target,       \* resolveDispatchTarget: "k8s-job" or "in-process"
  MaxAge,       \* bound: the last threshold of Ages that is passed
  Environments  \* what to choose from, see Environment

(* timely: no timeout runs out InLimbo.  logFaults: the insert of a step    *)
(* log may fail.  sqsFaults: a send or a delete may fail, or only be        *)
(* reported to have failed.  deliveries: those SQS makes.  broadcasts:      *)
(* bound, the runs that broadcast.                                          *)
Environment ==
  [timely : BOOLEAN, logFaults : BOOLEAN, sqsFaults : BOOLEAN,
   deliveries : SUBSET Deliveries, broadcasts : Nat]

ASSUME LifecycleAssumption ==
  /\ IsFiniteSet(Deliveries) /\ None \notin Deliveries
  /\ Target \in {"k8s-job", "in-process"}
  /\ MaxAge \in 0..3
  /\ \A e \in Environments : e \in Environment

VARIABLES
  env,          \* this behaviour's choice from Environments
  automated,    \* schedule, block, event: a phantom row; else manual, webhook
  status,       \* workflow_executions.status
  reason,       \* its error and error code, "none" for null
  finalizer,    \* the run whose terminal write left hashes on the row
  age,          \* how long ago started_at is, see Ages
  logs,         \* step logs: none, quiet, or one completed in the last 30 min
  msg,          \* the message: queued, or gone once deleted
  doubted,      \* the producer was told that its send failed, and is to say so
  pc,           \* each delivery's handler
  run,          \* each run's progress
  result,       \* what executeWorkflow returned for it
  signalled,    \* runs that received SIGTERM
  tx,           \* what the chain answers about each run's broadcast
  cancelling,   \* a cancel request that read 'running' and has not written
  rows,         \* rows recorded for this trigger
  ran,          \* ghost: runs that entered the workflow body
  reaped        \* ghost: how often the reaper said the run never started

row      == <<status, reason, finalizer>>
runs     == <<run, result, signalled, tx, ran>>
rest     == <<env, automated, doubted, reaped>>
vars     == <<env, automated, row, age, logs, msg, doubted, pc, runs, cancelling, rows,
              reaped>>

(* started_at: under 5 minutes, past PENDING_THRESHOLD_MINUTES, past the   *)
(* 30 minute running threshold, past DROPPED_AFTER_MS.                      *)
Ages == 0..3

Terminal == {"success", "error", "system_error", "skipped", "cancelled"}
Statuses == Terminal \cup {"phantom", "pending", "running", "unconfirmed"}

NeverRanCodes == {"P-0001", "P-0005"}
PlatformCodes == NeverRanCodes \cup {"P-0002", "P-0004", "E-0001", "E-0004", "CS-0001"}
RunErrors     == {"step", "spurious", "load", "SIGTERM"}
Reasons       == PlatformCodes \cup RunErrors \cup {"none", "refused", "unsent", "cancelled"}

(* spurious: a runner error with a step's commit still to land; recovered:  *)
(* the same, once that commit has landed.                                   *)
Results == {"none", "success", "step", "spurious", "recovered"}

Handling == {"received", "charging", "dispatching", "blaming", "guarding"}
Closing  == {"failing", "awaiting", "deleting", "clearing"}
Alive    == {"marked", "working", "returned"}

(* A handler between its receive and its dispatch, or a run between its      *)
(* dispatch and its first step log.  timely says that neither SQS's 300 s    *)
(* visibility timeout nor the reaper's thresholds run out in between.        *)
InLimbo == \E d \in Deliveries :
             pc[d] \in Handling \/ run[d] \in {"created", "marked"}

Init ==
  /\ env \in Environments
  /\ automated \in BOOLEAN
  /\ status = IF automated THEN "phantom" ELSE "pending"
  /\ reason = "none" /\ finalizer = None
  /\ age = 0 /\ logs = "none"
  /\ msg \in {"queued", "gone"}     \* the producer may stop before its send
  /\ doubted \in BOOLEAN /\ (doubted => env.sqsFaults)
  /\ pc        = [d \in Deliveries |-> "idle"]
  /\ run       = [d \in Deliveries |-> "none"]
  /\ result    = [d \in Deliveries |-> "none"]
  /\ signalled = {}
  /\ tx        = [d \in Deliveries |-> "none"]
  /\ cancelling = FALSE
  /\ rows = 1 /\ ran = {} /\ reaped = 0

-----------------------------------------------------------------------------
(* The WHERE-guarded writes.                                                *)

Write(new, why) == status' = new /\ reason' = why /\ UNCHANGED finalizer

WriteIf(statuses, new, why) ==
  IF status \in statuses THEN Write(new, why) ELSE UNCHANGED row

(* Fault: only a cancelled row is spared. *)
BackstopOverSuccess(new, why) == WriteIf(Statuses \ {"cancelled"}, new, why)

(* updateExecutionStatus: no row that is already in one of these statuses.  *)
Backstop(new, why) ==
  WriteIf(Statuses \ {"success", "error", "system_error", "skipped", "cancelled"},
          new, why)

(* Fault: any row that is not yet terminal can be claimed again. *)
ClaimableUnlessTerminal(from) ==
  \/ status \notin Terminal
  \/ status = "system_error" /\ reason \in NeverRanCodes

(* The rows a claim's WHERE clause matches. *)
Claimable(from) ==
  \/ status = from
  \/ status = "system_error" /\ reason \in NeverRanCodes

Move(d, to) == pc' = [pc EXCEPT ![d] = to]

-----------------------------------------------------------------------------
(* The handler of delivery d (processMessage, processExecutorMessage).      *)

Receive(d) ==
  /\ pc[d] = "idle" /\ msg = "queued" /\ d \in env.deliveries
  /\ env.timely => ~InLimbo
  /\ Move(d, "received")
  /\ UNCHANGED <<rest, row, age, logs, msg, runs, cancelling, rows>>

(* Fault: the refusal is written on any row that is not terminal. *)
RefuseUnguarded(d) ==
  /\ pc[d] = "received"
  /\ WriteIf(Statuses \ Terminal, "skipped", "refused")
  /\ Move(d, "deleting")
  /\ UNCHANGED <<rest, age, logs, msg, runs, cancelling, rows>>

(* not found, not executable, schedule or upstream invalid, over the plan's *)
(* limit: discardPhantomRow, resolveToSkipped.                              *)
Refuse(d) ==
  /\ pc[d] = "received"
  /\ WriteIf({"phantom", "pending"}, "skipped", "refused")
  /\ Move(d, "deleting")
  /\ UNCHANGED <<rest, age, logs, msg, runs, cancelling, rows>>

(* A gated action: the row is resolved in place, or else a second row is    *)
(* inserted.                                                                *)
RefuseFeature(d) ==
  /\ pc[d] = "received"
  /\ WriteIf({"phantom", "pending"}, "skipped", "refused")
  /\ rows' = IF status \in {"phantom", "pending"} THEN rows ELSE rows + 1
  /\ Move(d, "deleting")
  /\ UNCHANGED <<rest, age, logs, msg, runs, cancelling>>

(* RequeueSignal: the message stays and becomes visible again.              *)
Requeue(d) ==
  /\ pc[d] = "received"
  /\ Move(d, "finished")
  /\ UNCHANGED <<rest, row, age, logs, msg, runs, cancelling, rows>>

From == IF automated THEN "phantom" ELSE "pending"
Into == IF automated THEN "pending" ELSE "running"

(* claimPhantomForExecution, claimPendingForExecution *)
Claim(d) ==
  /\ pc[d] = "received" /\ Claimable(From)
  /\ Write(Into, "none")
  /\ Move(d, "charging")
  /\ UNCHANGED <<rest, age, logs, msg, runs, cancelling, rows>>

(* already_advanced: the duplicate is dropped. *)
DropDuplicate(d) ==
  /\ pc[d] = "received" /\ ~Claimable(From)
  /\ Move(d, "deleting")
  /\ UNCHANGED <<rest, row, age, logs, msg, runs, cancelling, rows>>

(* The claim commits, the connection drops before the reply, and            *)
(* runClaimWithRetry's next attempt matches no row.                         *)
ClaimReplyLost(d) ==
  /\ pc[d] = "received" /\ Claimable(From)
  /\ Write(Into, "none")
  /\ Move(d, "deleting")
  /\ UNCHANGED <<rest, age, logs, msg, runs, cancelling, rows>>

(* A guard, the claim's last attempt (committed or not) or the charge throws. *)
HandlerThrows(d) ==
  /\ pc[d] \in {"received", "charging"}
  /\ Move(d, "failing")
  /\ UNCHANGED <<rest, row, age, logs, msg, runs, cancelling, rows>>

(* No overflow charge is due, or it settles. *)
Charge(d) ==
  /\ pc[d] = "charging"
  /\ Move(d, "dispatching")
  /\ UNCHANGED <<rest, row, age, logs, msg, runs, cancelling, rows>>

(* settlePaygOverflow refuses. *)
ChargeRefused(d) ==
  /\ pc[d] = "charging"
  /\ WriteIf(IF automated THEN {"phantom", "pending"} ELSE {"running"},
             "skipped", "refused")
  /\ Move(d, "deleting")
  /\ UNCHANGED <<rest, age, logs, msg, runs, cancelling, rows>>

Launch(d) ==
  /\ run' = [run EXCEPT ![d] = "created"]
  /\ UNCHANGED <<result, signalled, tx, ran>>

(* createNamespacedJob answers, or executeInProcess is entered and awaited. *)
Dispatch(d) ==
  /\ pc[d] = "dispatching"
  /\ Launch(d)
  /\ Move(d, IF Target = "k8s-job" THEN "deleting" ELSE "awaiting")
  /\ UNCHANGED <<rest, row, age, logs, msg, cancelling, rows>>

(* createNamespacedJob throws, having created the Job or not. *)
DispatchFails(d) ==
  /\ pc[d] = "dispatching" /\ Target = "k8s-job"
  /\ Launch(d) \/ UNCHANGED runs
  /\ Move(d, "blaming")
  /\ UNCHANGED <<rest, row, age, logs, msg, cancelling, rows>>

(* P-0002 is written whatever the row says by then, or that throws too. *)
BlameJob(d) ==
  /\ pc[d] = "blaming"
  /\ Write("system_error", "P-0002") \/ UNCHANGED row
  /\ Move(d, "guarding")
  /\ UNCHANGED <<rest, age, logs, msg, runs, cancelling, rows>>

(* The dispatch guard of processExecutorMessage, then its re-throw; a guard *)
(* that throws leaves the row alone.                                        *)
GuardDispatch(d) ==
  /\ pc[d] = "guarding"
  /\ WriteIf({Into}, "system_error", "P-0004") \/ UNCHANGED row
  /\ Move(d, "failing")
  /\ UNCHANGED <<rest, age, logs, msg, runs, cancelling, rows>>

(* processMessage's catch. *)
FailMessage(d) ==
  /\ pc[d] = "failing"
  /\ WriteIf({"phantom", "pending"}, "system_error", "E-0004")
  /\ Move(d, "clearing")
  /\ UNCHANGED <<rest, age, logs, msg, runs, cancelling, rows>>

(* executeInProcess returns once the run is over. *)
Awaited(d) ==
  /\ pc[d] = "awaiting" /\ run[d] = "ended"
  /\ Move(d, "deleting")
  /\ UNCHANGED <<rest, row, age, logs, msg, runs, cancelling, rows>>

(* DeleteMessageCommand, in the try or in its catch. *)
Delete(d) ==
  /\ pc[d] \in {"deleting", "clearing"}
  /\ msg' = "gone"
  /\ Move(d, "finished")
  /\ UNCHANGED <<rest, row, age, logs, runs, cancelling, rows>>

(* It throws, the message deleted or not: into the catch, or out of it. *)
DeleteFails(d) ==
  /\ pc[d] \in {"deleting", "clearing"} /\ env.sqsFaults
  /\ msg' \in {msg, "gone"}
  /\ Move(d, IF pc[d] = "deleting" THEN "failing" ELSE "finished")
  /\ UNCHANGED <<rest, row, age, logs, runs, cancelling, rows>>

(* The executor stops; an in-process run stops with it. *)
Crash(d) ==
  /\ pc[d] \in Handling \cup Closing
  /\ Move(d, "crashed")
  /\ run' = [run EXCEPT ![d] = IF Target = "in-process" /\ @ # "none"
                               THEN "ended" ELSE @]
  /\ UNCHANGED <<rest, row, age, logs, msg, result, signalled, tx, ran,
                 cancelling, rows>>

-----------------------------------------------------------------------------
(* The run dispatched by delivery d (main, executeInProcess).               *)

At(d, to) == run' = [run EXCEPT ![d] = to]

(* updateExecutionStatus(running); whether it matched is not looked at. *)
MarkRunning(d) ==
  /\ run[d] = "created" /\ d \notin signalled
  /\ Backstop("running", reason)
  /\ At(d, "marked")
  /\ UNCHANGED <<rest, age, logs, msg, pc, result, signalled, tx, ran,
                 cancelling, rows>>

(* The re-check finds the workflow no longer executable. *)
RecheckCancels(d) ==
  /\ run[d] = "marked"
  /\ Backstop("cancelled", reason)
  /\ At(d, "ended")
  /\ UNCHANGED <<rest, age, logs, msg, pc, result, signalled, tx, ran,
                 cancelling, rows>>

(* Not found, invalid integrations, or a throw before the engine starts. *)
PrepareFails(d) ==
  /\ run[d] \in {"created", "marked"}
  /\ Backstop("error", "load")
  /\ At(d, "ended")
  /\ UNCHANGED <<rest, age, logs, msg, pc, result, signalled, tx, ran,
                 cancelling, rows>>

(* logStepStart: nothing for a refused or cancelled run, and a failed       *)
(* insert is swallowed.                                                     *)
Log ==
  \/ logs' = IF status \in {"cancelled", "skipped"} THEN logs ELSE "recent"
  \/ env.logFaults /\ UNCHANGED logs

(* executeWorkflow begins with the trigger step, and its log. *)
Enter(d) ==
  /\ run[d] = "marked" /\ d \notin signalled
  /\ At(d, "working")
  /\ ran' = ran \cup {d}
  /\ Log
  /\ UNCHANGED <<rest, row, age, msg, pc, result, signalled, tx,
                 cancelling, rows>>

(* A write step broadcasts; nobody has read a receipt yet. *)
Broadcast(d) ==
  /\ run[d] = "working" /\ tx[d] = "none"
  /\ Cardinality({e \in Deliveries : tx[e] # "none"}) < env.broadcasts
  /\ tx' = [tx EXCEPT ![d] = "unread"]
  /\ Log
  /\ UNCHANGED <<rest, row, age, msg, pc, run, result, signalled, ran,
                 cancelling, rows>>

(* What logWorkflowCompleteDb makes of run d.  A spurious runner error is   *)
(* overridden once every node has a success row; failing says a step of the *)
(* run did fail, and held that it is the one that broadcast.                *)
Failing(outcome) == outcome \in {"step", "spurious"}

Verdict(d, outcome, held) ==
  IF tx[d] = "unread" /\ (Failing(outcome) => held) THEN "unconfirmed"
  ELSE IF Failing(outcome) \/ tx[d] = "failed"      THEN "error"
  ELSE "success"

(* An unread receipt is no error of the run's own; a failed step is kept. *)
VerdictReason(d, outcome) ==
  IF Failing(outcome) THEN outcome
  ELSE IF tx[d] = "failed" THEN "step" ELSE "none"

(* Fault: the engine's write only spares a success. *)
FinalizeOverCancel(d, outcome, held) ==
  IF status = "success" THEN UNCHANGED row
  ELSE /\ status' = Verdict(d, outcome, held)
       /\ reason' = VerdictReason(d, outcome)
       /\ finalizer' = d

(* The engine's guarded terminal write. *)
Finalize(d, outcome, held) ==
  IF status \in {"cancelled", "skipped", "success"} THEN UNCHANGED row
  ELSE /\ status' = Verdict(d, outcome, held)
       /\ reason' = VerdictReason(d, outcome)
       /\ finalizer' = d

(* executeWorkflow returns: its own terminal write landed, or was lost. *)
Return(d) ==
  /\ run[d] = "working"
  /\ \E outcome \in Results \ {"none"}, held \in BOOLEAN :
       /\ result' = [result EXCEPT ![d] = outcome]
       /\ Finalize(d, outcome, held) \/ UNCHANGED row
  /\ At(d, "returned")
  /\ UNCHANGED <<rest, age, logs, msg, pc, signalled, tx, ran, cancelling, rows>>

(* applyExecutionResult: a success write leaves the error columns alone. *)
ApplyResult(d) ==
  /\ run[d] = "returned"
  /\ CASE result[d] = "success" -> Backstop("success", reason)
       [] result[d] = "step"    -> Backstop("error", "step")
       [] OTHER                 -> Backstop("error", "spurious")
  /\ At(d, "ended")
  /\ UNCHANGED <<rest, age, logs, msg, pc, result, signalled, tx, ran,
                 cancelling, rows>>

(* applyExecutionResult throws: the catch of main records that as an error, *)
(* or cannot write either.                                                  *)
ApplyFails(d) ==
  /\ run[d] = "returned"
  /\ Backstop("error", "load") \/ UNCHANGED row
  /\ At(d, "ended")
  /\ UNCHANGED <<rest, age, logs, msg, pc, result, signalled, tx, ran,
                 cancelling, rows>>

(* handleGracefulShutdown writes; main goes on until the process exits. *)
Sigterm(d) ==
  /\ run[d] \in {"created"} \cup Alive /\ d \notin signalled
  /\ Target = "k8s-job"
  /\ Backstop("error", "SIGTERM")
  /\ signalled' = signalled \cup {d}
  /\ UNCHANGED <<rest, age, logs, msg, pc, run, result, tx, ran,
                 cancelling, rows>>

(* Exit after a signal, eviction, OOM kill or the Job's deadline. *)
Die(d) ==
  /\ run[d] \in {"created"} \cup Alive
  /\ Target = "k8s-job"
  /\ At(d, "ended")
  /\ UNCHANGED <<rest, row, age, logs, msg, pc, result, signalled, tx, ran,
                 cancelling, rows>>

-----------------------------------------------------------------------------
(* Everyone else.                                                           *)

(* The producer was told that its send failed: failPhantomExecution's PATCH *)
(* (CS-0001 stands for every dispatcher's code), which a retry may repeat;  *)
(* or the catch of executeWorkflowInBackground.  Neither knows whether the  *)
(* message was delivered, or what has become of the row since.              *)
MarkUnsent ==
  /\ doubted
  /\ IF automated
     THEN WriteIf(Statuses \ {"cancelled", "skipped"}, "system_error", "CS-0001")
     ELSE WriteIf(Statuses \ {"cancelled", "skipped", "success"}, "error", "unsent")
  /\ doubted' \in {FALSE, automated}
  /\ UNCHANGED <<env, automated, reaped, age, logs, msg, pc, runs, cancelling, rows>>

(* Fault: a phantom nobody picked up is not looked for. *)
StaleClaimed ==
  \/ status = "running" /\ age >= 2 /\ logs # "recent"
  \/ status = "pending" /\ age >= 1 /\ logs = "none"

(* The rows the reaper's WHERE clause matches. *)
Stale ==
  \/ status = "running" /\ age >= 2 /\ logs # "recent"
  \/ status = "pending" /\ age >= 1 /\ logs = "none"
  \/ status = "phantom" /\ age >= 1

(* Fault: the code says nothing of the step logs. *)
ReapCodeByStatus == IF status = "phantom" THEN "P-0005" ELSE "P-0001"

(* Never picked up, timed out in its workflow, or never started. *)
ReapCode ==
  IF status = "phantom" THEN "P-0005"
  ELSE IF status = "running" /\ logs # "none" THEN "E-0001"
  ELSE "P-0001"

(* reapStaleExecutions *)
Reap ==
  /\ Stale
  /\ env.timely => ~InLimbo
  /\ Write("system_error", ReapCode)
  /\ reaped' = IF ReapCode \in NeverRanCodes THEN reaped + 1 ELSE reaped
  /\ UNCHANGED <<env, automated, doubted, age, logs, msg, pc, runs, cancelling, rows>>

(* Fault: the chain alone decides. *)
SettleOnChainAlone ==
  /\ status = "unconfirmed"
  /\ tx[finalizer] = "unread" => age = 3
  /\ IF tx[finalizer] = "landed"
     THEN Write("success", "none")
     ELSE Write("error", IF reason = "none" THEN "step" ELSE reason)
  /\ UNCHANGED <<rest, age, logs, msg, pc, runs, cancelling, rows>>

(* reconcileWorkflow: re-read the chain for the hashes on the row.  A row   *)
(* that carries a failure of its own never settles to success.              *)
Settle ==
  /\ status = "unconfirmed"
  /\ tx[finalizer] = "unread" => age = 3
  /\ IF tx[finalizer] = "landed" /\ reason = "none"
     THEN Write("success", "none")
     ELSE Write("error", IF reason = "none" THEN "step" ELSE reason)
  /\ UNCHANGED <<rest, age, logs, msg, pc, runs, cancelling, rows>>

(* logStepCompleteDb of the late step, and its self-heal of the row.        *)
LateCommit(d) ==
  /\ result[d] = "spurious"
  /\ result' = [result EXCEPT ![d] = "recovered"]
  /\ IF /\ status \in {"error", "system_error"} /\ reason = "spurious"
        /\ tx[d] \in {"none", "landed"}
     THEN status' = "success" /\ reason' = "none" /\ finalizer' = d
     ELSE UNCHANGED row
  /\ UNCHANGED <<rest, age, logs, msg, pc, run, signalled, tx, ran, cancelling, rows>>

(* The cancel route reads the row, answers 400 unless it is running, and    *)
(* then writes by id.                                                       *)
CancelRead ==
  /\ status = "running" /\ ~cancelling
  /\ cancelling' = TRUE
  /\ UNCHANGED <<rest, row, age, logs, msg, pc, runs, rows>>

CancelWrite ==
  /\ cancelling
  /\ Write("cancelled", "cancelled")
  /\ cancelling' = FALSE
  /\ UNCHANGED <<rest, age, logs, msg, pc, runs, rows>>

(* A receipt becomes readable. *)
ChainAnswers(d) ==
  /\ tx[d] = "unread"
  /\ \E answer \in {"landed", "failed"} : tx' = [tx EXCEPT ![d] = answer]
  /\ UNCHANGED <<rest, row, age, logs, msg, pc, run, result, signalled, ran,
                 cancelling, rows>>

(* started_at passes the next threshold. *)
Grow ==
  /\ age < MaxAge /\ age' = age + 1
  /\ UNCHANGED <<rest, row, logs, msg, pc, runs, cancelling, rows>>

(* Thirty minutes without a step completing. *)
Quiet ==
  /\ logs = "recent" /\ age >= 2 /\ logs' = "quiet"
  /\ UNCHANGED <<rest, row, age, msg, pc, runs, cancelling, rows>>

-----------------------------------------------------------------------------
Handle(d) ==
  \/ Refuse(d) \/ RefuseFeature(d) \/ Requeue(d) \/ HandlerThrows(d)
  \/ Claim(d) \/ DropDuplicate(d) \/ ClaimReplyLost(d)
  \/ Charge(d) \/ ChargeRefused(d)
  \/ Dispatch(d) \/ DispatchFails(d) \/ BlameJob(d) \/ GuardDispatch(d)
  \/ FailMessage(d) \/ Awaited(d) \/ Delete(d) \/ DeleteFails(d)

Prepare(d) == MarkRunning(d) \/ RecheckCancels(d) \/ PrepareFails(d) \/ Enter(d)

Work(d) == Broadcast(d) \/ Return(d) \/ ApplyResult(d) \/ ApplyFails(d) \/ LateCommit(d)

Next ==
  \/ \E d \in Deliveries :
       \/ Receive(d) \/ Handle(d) \/ Crash(d)
       \/ Prepare(d) \/ Work(d) \/ Sigterm(d) \/ Die(d)
       \/ ChainAnswers(d)
  \/ MarkUnsent \/ Reap \/ Settle \/ CancelRead \/ CancelWrite \/ Grow \/ Quiet

Spec == Init /\ [][Next]_vars

(* A handler finishes or its executor stops; a pod starts, fails or is      *)
(* killed at activeDeadlineSeconds; the reaper and the reconciler are       *)
(* CronJobs; time passes.  Nothing is assumed of SQS, of the producer, of   *)
(* the workflow body or of the chain.                                       *)
Fairness ==
  /\ \A d \in Deliveries :
       /\ WF_vars(Handle(d) \/ Crash(d))
       /\ WF_vars(Prepare(d) \/ (run[d] \in {"created", "marked"} /\ Die(d)))
  /\ WF_vars(Reap) /\ WF_vars(Settle) /\ WF_vars(Grow) /\ WF_vars(Quiet)

FairSpec == Spec /\ Fairness

-----------------------------------------------------------------------------
Launched == {d \in Deliveries : run[d] # "none"}

(* What a row's status says of its other columns: only a producer's row is  *)
(* a phantom, a reaper's never-ran code is only on a system_error row (a    *)
(* re-claim clears it), and an unconfirmed row names the run whose hashes   *)
(* it waits for.                                                            *)
RowOK ==
  /\ status \in Statuses /\ reason \in Reasons
  /\ finalizer \in Deliveries \cup {None}
  /\ status = "phantom" => automated /\ reason = "none"
  /\ reason \in NeverRanCodes => status = "system_error"
  /\ status = "unconfirmed" => finalizer # None

(* Deliveries whose handler is past its guards. *)
Handled == {d \in Deliveries : pc[d] \notin {"idle", "received"}}

(* Each variable alone. *)
Typed ==
  /\ env \in Environments
  /\ automated \in BOOLEAN /\ cancelling \in BOOLEAN /\ doubted \in BOOLEAN
  /\ age \in Ages /\ logs \in {"none", "recent", "quiet"}
  /\ msg \in {"queued", "gone"}
  /\ pc \in [Deliveries -> Handling \cup Closing \cup {"idle", "finished", "crashed"}]
  /\ run \in [Deliveries -> Alive \cup {"none", "created", "ended"}]
  /\ result \in [Deliveries -> Results]
  /\ tx \in [Deliveries -> {"none", "unread", "landed", "failed"}]
  /\ signalled \subseteq Deliveries /\ ran \subseteq Deliveries
  /\ reaped \in Nat /\ rows \in Nat

(* Types; the columns of the row agree; and every row beyond the first was  *)
(* inserted by another delivery.                                            *)
TypeOK == Typed /\ RowOK /\ rows <= 1 + Cardinality(Handled)

(* When no timeout cuts a handler or a starting pod short, a trigger's      *)
(* workflow body is entered at most once, whatever is redelivered, crashes, *)
(* requeues or is reaped and re-claimed (claimPhantomForExecution,          *)
(* claimPendingForExecution: re-running would send a second transaction).   *)
OneRunPerTrigger == env.timely /\ ~env.logFaults => Cardinality(ran) <= 1

(* Under the same condition a 'skipped' run was refused before it started:  *)
(* it never entered its workflow (lib/errors/execution-status.ts).          *)
RefusedNeverRan == env.timely /\ ~env.logFaults /\ status = "skipped" => ran = {}

(* The exactly-once claim: with every timeout running out at the worst      *)
(* moment, a second run is dispatched only after the reaper declared that   *)
(* the one before never ran.                                                *)
LaunchesAreClaimed == Cardinality(Launched) <= 1 + reaped

(* Deliveries that hold a claim they may still act on, or acted on.         *)
Claimants ==
  {d \in Deliveries : pc[d] \in {"charging", "dispatching"} \/ run[d] # "none"}

(* The inductive form of LaunchesAreClaimed, for LifecycleProofs: claims    *)
(* not yet spent count too, and so does one that is there for the taking.   *)
ClaimsAreCounted ==
  /\ \A d \in Deliveries :
       pc[d] \in {"idle", "received", "charging", "dispatching"} => run[d] = "none"
  /\ Cardinality(Claimants) + (IF Claimable(From) THEN 1 ELSE 0) <= 1 + reaped

(* A row says success only if some run of it succeeded: neither the         *)
(* reconciler nor the self-heal turns a run's own failure into a success.   *)
FailureStands ==
  status = "success" =>
    \E d \in ran : result[d] \in {"success", "spurious", "recovered"}

(* A user's cancellation is final: of all the late writers only the         *)
(* unguarded P-0002 write of a failed Job creation replaces it.             *)
CancelStands ==
  [][status = "cancelled" =>
       status' = "cancelled" \/ reason' = "P-0002"]_vars

Stranded == status = "pending" /\ logs # "none" /\ reaped > 0

(* Every trigger's row ends in a terminal status and stays there, even when *)
(* its message is never sent, its handler dies, its pod never starts or the *)
(* chain never answers; when timeouts run out at the worst moment, but for  *)
(* one case: a row re-claimed after a run of it had begun, whose executor   *)
(* then dies, is pending with step logs, which no sweeper looks for.        *)
RowSettles == <>[](status \in Terminal \/ (~env.timely /\ Stranded))

(* An unconfirmed row stays open until the chain is conclusive or enough    *)
(* time has passed (reconcile-executions.ts).                               *)
UnconfirmedHeld ==
  [][status = "unconfirmed" /\ status' # "unconfirmed"
       => tx[finalizer] # "unread" \/ age = 3]_vars

(* A recorded success is final (docs/api/executions.md) for every late      *)
(* writer: a second run, its backstop or its shutdown, the sweepers, a      *)
(* refusal, the app whose send is reported as failed.  Three replace it:    *)
(* the P-0002 write; a cancel request that had already read 'running'; and  *)
(* the PATCH of a dispatcher whose delivered send was reported as failed,   *)
(* which spares cancelled and skipped rows alone ([executionId]/route.ts).  *)
SuccessStands ==
  [][status = "success" =>
       \/ status' = "success"
       \/ reason' = "P-0002" \/ cancelling
       \/ reason' = "CS-0001" /\ automated /\ doubted]_vars
=============================================================================
