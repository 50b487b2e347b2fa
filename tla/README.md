# Formal models of KeeperHub

KeeperHub runs user-defined workflows that are triggered by hand, by webhook, by
schedules, by blocks and by on-chain events, and whose steps sign and send
transactions from an organization's wallet. Nearly all of its hard behaviour is in the
places where several processes share one record: dispatchers, executor pods, workflow
pods, CronJobs and API routes all write `workflow_executions`, `wallet_locks`,
`pending_transactions`, `workflow_step_claims` and `idempotency_records`, messages are
delivered more than once, and pods die between any two statements; and in the engine,
where the branches of one workflow finish, fail and are skipped in any order. A mistake
there is a second on-chain transaction, a wallet that stalls, a branch that should not
have run, or a run that never ends.

This directory holds TLA+ models of that core, configurations that check them with
TLC, and proofs checked by TLAPS. `PROJECT.json` is the machine-readable index: for each
definition the source lines it models, for each run its properties, and the hazards the
properties are aimed at.

    tlc -workers 2 -config WalletLock_sessions.cfg MCWalletLock.tla
    tlapm WalletLockProofs.tla

## 1. Inventory of the system

| Component | State it keeps | Operations | Talks to | What is hard | What makes it correct |
|---|---|---|---|---|---|
| Wallet lock (`lib/web3/nonce-manager.ts`) | row of `wallet_locks` per (wallet, chain): `locked_by`, `expires_at`; in the process: heartbeat timer, deadline, `lost` flag | acquire (insert or take over), heartbeat, give up, release, operator unlock, reaping | nonce ledger, reaper, `wallet-unlock` route | lapsed TTLs, late releases and extensions, crashes, the fence is the execution and not the session | one live writer per wallet; never wedged; a release frees only one's own row |
| Nonce ledger (same file, `transaction-manager.ts`, `chain-adapter/evm.ts`) | `pending_transactions` by nonce; the session's nonce and endpoint | read nonce, reconcile, allocate, broadcast, record, confirm | RPC nodes, wallet lock | nodes disagree; crash between broadcast and record | no hole, no displaced transaction; *confirmed* means mined |
| Executor and lifecycle (`keeperhub-executor/*`, `lib/reaper`, `lib/execute/reconcile-executions.ts`, cancel route, the internal execution route) | `workflow_executions.status`, error code, `started_at`; the SQS message | receive, refuse, requeue, claim, charge, dispatch, fail, delete; run; reap; reconcile; cancel | SQS, Kubernetes, engine, billing | redelivery, lost replies, slow pods, many writers of one status | at most one run per trigger; verdicts are not overwritten; every row settles |
| Finalization and step logs (`lib/workflow/executor/logging.ts`) | step logs, terminal status | log start and completion, terminal write, self-heal, closing of orphaned logs | lifecycle, step claims, engine | runs late, twice, or beside a live run | failures are not turned into successes |
| Step claims (`step-claim.ts`, `step-handler.ts`) | row of `workflow_step_claims` per (execution, node), a Redis key | acquire, wait, take over, release, clear | step logs, finalization | replays on several pods; cache and row disagree; no owner column | one owner; no replay waits for ever; a finished step is reused |
| Workflow engine (`executor.workflow.ts`, `convergence-barrier.ts`, `loop-back.ts`, `final-success.ts`, `editor/back-edges.ts`) | visited and attempted nodes, arrivals and skip arrivals per join, loop traversals, results | run node, signal arrival, propagate skip, follow a condition, loop back, fan out, recover lost completions, verdict | step claims, step logs | joins fed by branches that finish, fail or are skipped in any order; loops that re-enter running branches | joins wait for what can come and for nothing else; a branch not taken does not run; failures show in the verdict |
| Schedule and block dispatchers (`keeperhub-scheduler`) | Kubernetes Lease, last tick, phantom rows with a unique dispatch key | acquire, renew, relinquish, dispatch pass, catch-up | lifecycle, SQS | two leaders during a failover; a dispatcher that dies between the row and the send | an occurrence is started once; none is lost silently |
| Idempotent API requests (`lib/idempotency.ts`, `lib/idempotency-disposition.ts`, `app/api/execute/*`) | key record: status, lock version, expiry | begin, heartbeat, finalize, release, reclaim | direct execution, spend caps | a lock reclaimed while its request broadcasts; a late heartbeat; a handler that dies between the send and the answer | no retry repeats a send; what a replay answers is true |
| Spend caps, circuit breaker (`lib/execute/*`, `app/api/execute/_lib/spending-cap.ts`) | value ledger, cap row, `halted_at`, rows of `direct_executions` | reserve, settle, release, trip, reset | steps, direct execution | concurrent reservations, a cap row that does not exist yet, a day that ends | the cap is not exceeded |
| Event and block listeners (`keeperhub-events`) | subscriptions, registered contracts, seen events | connect, resubscribe, de-duplicate, forward | RPC providers, SQS | reconnects, in-flight events, two generations of one subscription | each event is forwarded, and once |
| Pyth price triggers (`lib/pyth/price-trigger.ts`) | checkpoint: last publish time, armed | evaluate, re-arm | listeners | boundary at the threshold | one trigger per crossing |
| Billing (`lib/billing`) | usage, overage and pay-as-you-go ledger | guard, charge, refund | lifecycle | charge without run, run without charge | one charge per run |
| Agentic wallet and payments | daily spend, approvals, payments | check policy, approve, sign, pay | external signers | concurrent spends; approval against expiry | limits hold, an approval is used once |
| Workflow state store | keys per workflow | get, set, increment, delete | steps | concurrent writers | the key ceiling holds |
| RPC failover, rate limits, retention, authentication, web application, plugins | see `PROJECT.json` | | | | not modelled: section 8 |

## 2. Modules

| Module | Models | Role |
|---|---|---|
| `ExclusiveLease` | an exclusive lease: granted to one holder, given up by it | what the lock promises; what the ledger relies on |
| `WalletLock` | the lock table's row and its sessions | implements `ExclusiveLease` |
| `NonceLedger` | allocation, broadcast and reconciliation over a set of nodes | extends `ExclusiveLease` |
| `ExecutionLifecycle` | one triggered run: message, handlers, runs, sweepers, cancel | stands alone |
| `StepClaim` | one (execution, node) and its replays | stands alone |
| `WorkflowEngine` | the traversal of one workflow graph | stands alone |
| `LeaderElection` | who of a dispatcher's replicas leads | composed with the next by `MCDispatchers` |
| `ScheduleDispatch` | tickers and passes of those replicas, phantom rows, messages | assumes nothing of who leads |
| `DirectExecution` | requests of the direct execution API: key, cap, send, verdict | stands alone |
| `WalletLockProofs`, `NonceLedgerProofs`, `LifecycleProofs`, `StepClaimProofs`, `EngineProofs`, `DispatcherProofs`, `DirectExecutionProofs` | | theorems about the modules each extends |
| `SumProofs` | sums over a finite set | lemmas about `MapThenSumSet`, which the cap and the loop budget are |
| `MC*` | instances for TLC and symmetry sets | |

The conditions a run is checked under are a variable, `env` (`cond` in the election),
that `Init` chooses from the constant `Environments` (`Conditions`) and no action
changes. One run of TLC so covers a timely system and an untimely one, and a theorem
speaks of all of them; a property that needs a condition names it as its premise.

Operators whose comment begins with *Fault* are never part of a specification: they are
the plausible bugs listed under `mutants`, one for each property, and each makes TLC
report that property violated.

### WalletLock

`by` and `left` are the row: `locked_by`, and `expires_at` relative to the database's
clock. `phase` is where a session is between `acquireLock` and `releaseLock`, `beating`,
`age` and `lost` its heartbeat timer, the timer's deadline and `NonceSession.lost`, `out` and
`outFor` an extension on the wire. Time is a `Tick` of one heartbeat interval. `quiet` is how
long ago the clock was read from which the row's expiry was computed: `acquireLock` computes
the expiry in the process, while `extendLock` uses the database's `NOW()`. `env` is the
sessions that come and `env.quiet`, how long a live session may go without an extension;
`Timely` says that this is within the TTL. The ghosts `owner` and `held` remember whose
statement took the row and how long ago; `ejected` holds sessions whose lock an operator
cleared. Every statement can land with its reply lost, and a dead process's extension
can land later.

### NonceLedger

A session is named by the one transaction it sends, as every caller of `withNonceSession`
sends one. `st` follows a session through `startSession`, `validateAndReconcile`,
`getNextNonce`, the submission, `recordTransaction` and `confirmTransaction`; `status` and
`txOf` are `pending_transactions`; `mined` and `pool` are the chain, which is external:
nodes agree on what is mined and have a mempool each. Any node may answer any call, as the
failover provider allows, and `node` is the one that answered the nonce read and whose
word alone lets reconciliation drop a row. The lock appears as its abstract specification;
`env` chooses the nodes, whether they evict transactions, and whether sessions may go on
after they lost the lease.

### ExecutionLifecycle

One row, from its creation by a producer to a terminal status. Each action is one
statement or one external call, so any two writers interleave. `pc` is each delivery's
handler in `processMessage` and `processExecutorMessage`, `run` the pod or in-process
execution it dispatched, `result` what the engine returned to it, `tx` what the chain says
about its broadcast. Every write carries the `WHERE` clause it has in the source:
`Claimable` (claims), `Backstop` (`updateExecutionStatus`), `Finalize`
(`logWorkflowCompleteDb`), `Stale` (reaper), `Settle` (reconciler), `LateCommit` (self-heal);
the `P-0002` write of a failed Job creation and the cancel route's second statement carry
none. The producer is the queued message and `MarkUnsent`: a send may be delivered and
reported as failed (`doubted`), whereupon a dispatcher's PATCH marks the row `CS-0001`,
sparing cancelled and skipped rows, and the app's `executeWorkflowInBackground` marks it
sparing a success too. A delete that throws (`DeleteFails`) sends the handler through the
catch of `processMessage`, whose own delete may throw again. `age` counts the thresholds `started_at` has passed: 5 minutes, 30 minutes, one day.
`env` chooses whether timeouts may cut a handler or a starting pod short, whether step
logs may be lost, whether calls of SQS may fail (`sqsFaults`), how many deliveries the
message has and how many transactions the run sends.

### StepClaim

`owner` and `age` are the claim's row, `cached` its Redis key. A replay arrives, claims or
waits in rounds of `WAIT_FOR_WINNER_MS`, takes a stale claim over, reuses a recorded
output, or runs the step unowned when its wait is over or a statement fails. `final`
follows `logWorkflowCompleteDb` as it closes running logs and clears the claims. `env`
chooses the replays and which faults they meet: crashes, database errors, late arrivals,
finalization.

### WorkflowEngine

A call of `executeNode` is an activation `<<node, turn>>`, and `live` holds those that have
not returned, each with the activation that awaits it. One action ends a step
(`StepSucceeds`, `StepReused`, `StepReturnsFailure`, `StepThrows`, `CompletionRecovered`,
`CompletionLost`, `DisabledPassed`, `IterationsSucceed`, `IterationsFail`, `IterationsThrow`) or does what
`executeNode` does after one (`LoopBack`, `LoopRefused`, `SkipBranch`,
`ActivationReturns`); what runs between two awaits in the code is one action here. `visited`,
`attempted`, `skipped`, `arrived`, `skips`, `passes` and `reentries` are the executor's sets and
maps, `result` is `results`; `claimed`, `recorded`, `late` and `logs` are what the step claim
and the step logs say of each node, as far as the engine reads them. A lost completion may
have committed, may commit `late`, or may not have. `IterationsThrow` is a For Each that
throws once its own step has logged a success, as `resolveArraySource` does of what is no
array: the catch records the failure and logs only a `TemplateResolutionError`. `Finalize` is the end of the drain: the
reconciliation of spurious failures, the orphan scan, `verdict` (`computeFinalSuccess`), and
`row`, what `logWorkflowCompleteDb` makes of it. The graph is a constant: `Planned` builds one
from its nodes and edges and finds the back edges as `partitionByBackEdges` does for graphs
whose loops have one entry, and `Drawn` says what every graph satisfies that the editor and
`partitionByBackEdges` leave. The ghosts remember what each condition last decided, how each
step last ended, whether a loop re-entered nodes that were still running (`overlapped`), and
whether a loop was taken for an activation that a later pass had outrun (`revived`):
`runLoopIteration` does not ask.

### LeaderElection and ScheduleDispatch

The election has the Lease (`holder`, the age of `renewTime`) and, for each replica, its
process (`life`), `leading`, where the loop is (`at`), how long it has been there (`waited`),
whether the version it read is still current (`fresh`), and the time since `lastRenewMs`. A
replica's clock is ahead by `cond.ahead`, a call takes up to `cond.slow`, and a call may fail
where `cond.fails`, with its write landed or not.

The dispatch has, for each replica, `on`, `lastTick` and the remembered `timer` of
`ScheduleTicker`, and several chains of passes and timers, since a restarted ticker does not
cancel a pass under way. A pass fetches the schedules, creates a phantom row for each
occurrence of its window (`POST`, with retries, fenced by the dispatch key), sends the message
and marks the row when the send fails. `row` is the occurrence's row, `tracked` and `bare` its
messages with and without the row's id, `runs` how often its workflow was started; `Deliver`
is the executor's claim. The ghosts say why an occurrence may be without a row or a message:
it was between two windows (`missed`), given up or refused (`forgone`), its pass died
(`cut`), or it went on without the id (`untraced`).

The two share no variable, and `ScheduleDispatch` lets any replica start or stop leading at
any time. `MCDispatchers` therefore has behaviours of one or of the other (`half`);
interleaving them would add no case.

### DirectExecution

A request of `app/api/execute/transfer/route.ts` goes through `at`: reserving the key
(insert, read, reclaim by lock version), the gate, the charge to the cap (lock the cap row, sum
the day, insert), the send, its verification, and the recording of the disposition
(`Finalize` or `Release`). `record` is the key's record, `seen` the version a request read,
`beats` heartbeats on the wire. `tx` is the request's transaction, `outcome` what the core
returned about it, `verdict` what the handler makes of that. `entry` and `created` are its
row of `direct_executions` or, for a workflow step, of `org_value_reservations`: steps
charge the same cap through `withValueCap`. `lock` and `capRow` are the row the transactions
lock, which does not exist at first. The ghosts: `kept`, until when a key was to be kept;
`cutShort`, whose window a late heartbeat shortened; `past`, whom a key had let go when each
request reserved it; `overlooked`, movers the day's sum has missed.

## 3. Runs

States are distinct states found.

| Run | Instance | States | What it shows |
|---|---|---|---|
| `lock_sessions` | 3 sessions of 2 executions with an extension in every `TTL` of 2; 2 sessions whose extensions may miss it | 0.7 M | `MutualExclusion`, `WedgeBounded`, `ReleaseFreesOwnRow`, `NoFalseLoss`, under fairness `TakeoverNoticed`, and that the lock implements `ExclusiveLease` |
| `ledger_sessions` | 3 sessions, 3 nonces; 1 node while leases are lost, 2 nodes that evict | 2.3 M | `NoHoleBelow`, `NothingDisplaced`, `RowsProtectNonces`, `ConfirmedIsMined` |
| `lifecycle_timely` | 2 deliveries, Kubernetes Jobs, all four ages; 1 broadcast, or none and calls of SQS that fail | 6.6 M | `OneRunPerTrigger`, `RefusedNeverRan`, `FailureStands` |
| `lifecycle_fair` | in-process runs; timely, or with every timeout at any time and lost step logs; 1 delivery where calls of SQS fail; fairness | 1.7 M | `LaunchesAreClaimed`, `CancelStands`, `SuccessStands`, `RowSettles` |
| `claims_replays` | 3 replays without faults, 2 with all of them | 0.5 M | `SoleOwner`, `AtMostOneRuns`, `ReleaseSparesOthers`, `EveryReplayDecides`, `FinishedNotRerun` |
| `engine_graphs` | seventeen graphs, every way and order of ending their steps; fairness | 0.2 M | `JoinsWait`, `NotTakenNeverRuns`, `SkippedDidNotRun`, `FailuresShow`, `GreenRunsWhole`, `OrphansWereCutOff`, `EveryRunEnds` |
| `dispatch_replicas` | 2 replicas, election and dispatch | 3.0 M | `OneLeader`, `HandoverBounded`, `StartedOnce`, `NoneStranded`, `Attended` |
| `direct_requests` | 2 requests of a key, timely or not; a request beside a step under one cap | 1.8 M | `SentOnce`, `KeptAnswersAreTrue`, `CapHolds` |
| `lifecycle_unconfirmed`, `claims_cleared`, `engine_capped`, `dispatch_gap` | | | violations: section 6 |

Every module's type invariant is a theorem; those of the ledger, the engine and the dispatch
are also checked by their runs. They say besides the types how ghosts and columns of a row
fit together.

**Why the bounds are enough.**

* *Lock, claims.* Three sessions give every overlap of a late session, its successor and
  a sibling of the first; three replays a holder, one that waits for it and one that takes
  over. The source's constants (`TTL` of 4 heartbeats, `MAX_SESSION` of 20; 10 minutes of wait
  and takeover window) enter the theorems as parameters; the runs use the smallest values
  that keep their order: `MaxSession = TTL`, and `Stale = MaxWait`, as in the source.
  `ParallelSteps = FALSE`: the write steps of one execution do not overlap (section 5).
* *Ledger.* Three nonces give a mined, a pending and a free one; two nodes are the smallest
  set that can disagree.
* *Lifecycle.* Two deliveries are what a redelivery needs: a third finds the row in no status
  the second cannot find it in. `MaxAge` stops at the last threshold any code compares with.
  One broadcast keeps one transaction whose receipt is unread; rows with several hashes settle
  by the worst of them.
* *Engine.* The graphs are each the smallest with its feature: a join of two branches, a step
  shared by two conditions, a skipped branch that ends in the taken one's join, loops with a
  sibling, a join or a second loop inside, a join behind a loop, For Each with and without
  handles and inside a loop, a condition without handles, one wired twice to one step,
  one that repeats two steps, and two joins that may hear of one source less.
  `MaxIterations = 2` and `MaxTraversals = 3` let each cap be hit, by one loop and by two.
* *Dispatchers.* `LeaseDuration = 6`, `RenewDeadline = 2`, `RetryPeriod = 1` with calls of at most
  1 and clocks 1 apart satisfy the source's inequality (15, 10 and 2 s) with nothing to
  spare. A minute of 2, occurrences at 2 and 3 and a horizon of 5 give a first pass, ticks,
  and an overlapping term; two failed calls or crashes reach every branch of the retries.
* *Direct execution.* `ProcessingTTL` 1 < `StaleInflight` 2 < `Day` 3 keeps the source's order
  of 10 minutes, 15 minutes and 24 hours. Each `until` is the last moment at which a key of
  that environment's requests can still change hands; two movers of 2 under a cap of 3 are
  the smallest pair that exceeds it.

**Deadlock** checking is off in the models where everything does end: a message is handed
out a bounded number of times, a replay enters a step once, a run has a verdict, the clock
of a bounded instance stops. The lock's clock goes on, and its run checks deadlock.

## 4. Fairness

* `WalletLock`: time passes, a running process's timer fires, the database answers an
  extension or fails it. Nothing is assumed of sessions, operators or the reaper.
  `TakeoverNoticed` is claimed where extensions may miss the TTL, since only then is a live
  session taken over.
* `ExecutionLifecycle`: a handler finishes or its executor stops; a pod starts, fails or is
  killed by its Job's `activeDeadlineSeconds`; the reaper and the reconciler are CronJobs and
  time passes. Nothing is assumed of SQS, the workflow body, or the chain: `RowSettles` must
  hold for a message never sent, a body that never ends, a receipt that never comes.
* `StepClaim`: statements answer (the pool has a `statement_timeout`), time passes, and an
  owner is done within `MaxStep`, which is the assumption `Tick` states. An unowned step may
  run for ever.
* `WorkflowEngine`: some step that is under way ends, or some activation goes on, or the drain
  finalizes; nothing is said of which. Steps have timeouts of their own. `EveryRunEnds` then
  says that activations do not wait for one another in a circle and that loops end.

The election needs no fairness: `HandoverBounded` is an invariant on the age of a vacancy.
The dispatch and the direct execution state safety only.

## 5. Proofs

Every theorem holds for every set of sessions, executions, deliveries, replays, replicas,
requests or keys, every value of the bounds that the module's `ASSUME` allows, and every
environment.

| Module | Theorem | Statement |
|---|---|---|
| `WalletLockProofs` | `TypeCorrect` | `Spec => []TypeOK` |
| | `StepsDoNotOverlap`, `RowIdentifiesSession` | the two parts of the invariant about the fence |
| | `ExpiryStaysFresh` | the part about time |
| | `WritersAreSerialised` | `MutualExclusion` |
| | `ReleaseIsFenced` | `ReleaseFreesOwnRow` |
| | `LockImplementsLease` | `Spec => ImplementsLease` |
| | `LossIsTrue` | `NoFalseLoss` |
| | `WedgesAreBounded` | `Spec => []WedgeBounded` |
| `NonceLedgerProofs` | `LedgerTypes` | `Spec => []TypeOK` |
| | `RowsKeepTheirNonces` | `RowsProtectNonces` |
| | `ConfirmedWasMined` | `ConfirmedIsMined` |
| | `NoHolesBelow`, `NothingIsDisplaced` | `NoHoleBelow`, `NothingDisplaced` |
| | `SessionsUseTheLease` | `Spec => LeaseSpec`: the sessions use the lease as `ExclusiveLease` specifies it |
| `LifecycleProofs` | `LifecycleTypeCorrect` | `Spec => []TypeOK` |
| | `ClaimsAreAlwaysCounted` | the inductive form of the next |
| | `DispatchesAreClaimed` | `Spec => []LaunchesAreClaimed` |
| | `CancellationStands`, `RecordedSuccessStands` | `CancelStands`, `SuccessStands` |
| | `TriggerRunsOnce` | `Spec => []OneRunPerTrigger` |
| | `RefusalsNeverRan` | `Spec => []RefusedNeverRan` |
| | `FailuresStand` | `Spec => []FailureStands` |
| `StepClaimProofs` | `ClaimTypeCorrect` | `Spec => []TypeOK` |
| | `HoldersAreInTime` | the inductive form of the next two |
| | `ClaimHasOneHolder`, `ReleaseIsOwn` | `SoleOwner`, `ReleaseSparesOthers` |
| | `OneReplayRuns`, `OutputIsReused` | `AtMostOneRuns`, `FinishedNotRerun` |
| `DispatcherProofs` | `ElectionTypes` | `ElectionSpec => []ElectionTypeOK` |
| | `OneLeaderAtATime` | `ElectionSpec => []OneLeader` |
| | `VacancyEnds` | `ElectionSpec => []HandoverBounded` |
| | `DispatchTypes` | `Spec => []TypeOK` |
| | `OccurrenceStartsOnce` | `Spec => []StartedOnce` |
| | `PhantomKeepsItsMessage` | `Spec => []NoneStranded` |
| | `WindowsAreAttended` | `Spec => []Attended` |
| `DirectExecutionProofs` | `DirectTypes` | `Spec => []TypeOK` |
| | `RepliesAreTrue` | `Spec => []KeptAnswersAreTrue` |
| | `OneSendPerKey` | `Spec => []SentOnce` |
| | `SpendsWithinCap` | `Spec => []CapHolds` |
| `EngineProofs` | `EngineTypes` | `Spec => []TypeOK` |
| | `JoinsWaitForAll` | `Spec => JoinsWait` |
| | `NoBranchUntaken` | `Spec => NotTakenNeverRuns` |
| | `SkippedNeverRan` | where loops have one entry, `SkippedDidNotRun` for workflows without a For Each and `~revived`, and for the others beside what a For Each leads to |
| | `OrphansAreCutOff` | `Spec => []OrphansWereCutOff` |
| | `FailuresAreShown` | `FailuresShow` for every node but a Collect, where `SkippedDidNotRun`; for all nodes if there is no For Each or no Collect |
| | `PlainFailuresAreShown` | without a For Each and where loops have one entry, `~revived => FailuresShow` |
| | `PlainGreenRunsAreWhole` | without a For Each and where loops have one entry, `GreenRunsWhole` |

### The lock

*Assumptions.* `LockAssumption` types the constants. The theorems about the fence also assume
`~ParallelSteps`: the write steps of one execution do not overlap. Those about mutual exclusion
speak of the environments that are `Timely`: no live session goes longer than a TTL without an
extension. Both are hypotheses of the statements and both are needed: without the first, two
overlapping steps of one execution are one holder to every `WHERE locked_by = ...`; without
the second a lapsed lock is taken over, by design.

*Argument.* `MutualExclusion` is not inductive: nothing in it says that a live session's row
has not lapsed. The strengthening is

    TypeOK /\ NoOverlap /\ RowIsOwn /\ (Timely => FreshExpiry)

`NoOverlap`: two active sessions of one execution are the same session. `RowIsOwn`: a
session past `acquireLock` that reads its execution in the row is the one that put it
there; this is what makes a fence on the execution a fence on the session, and it needs
`NoOverlap`. `FreshExpiry`: the row of a live session is its own, and its expiry is at
least `TTL - quiet` ahead, where `quiet` is bounded by the environment; a takeover therefore
never finds it takeable. Each part is proved preserved action by action, and the refinement
maps the lease's holder to the only live session.

`LossIsTrue` needs neither assumption: `TimersAreOpen` says that a timer is running only in an
open session, and that an extension which missed its row did so because somebody else has it.
`WedgesAreBounded` assumes `~ParallelSteps` and `MaxSession > 0`. `HeldInBounds` relates three
clocks: an extension on the wire was sent before its session's deadline, so the row it
extends is no older than the deadline and the time it was out, and what is left of a TTL plus
the time the row has been held stays under the bound.

### The nonce ledger

`LedgerAssumption` makes the nodes finite. Three layers, one for each condition:

* *None.* `RowsProtectNonces` is part of `RowInv`, with what makes it inductive: a session
  that goes on holds the lease unless it lost it (`StillHolds`), and a row that names a
  session's transaction is the one that session recorded (`RowIsRecorded`). The rows
  are read before reconciliation and the nonce is picked after it; while the lease is held
  nobody else can add a row in between.
* *No session has lost its lease.* `ReadIsCurrent`: what a session has read of a row is what
  the row still says while it reconciles; only then is *confirmed* never written over a row
  that another session has reused.
* *`Steady`: one node, which evicts nothing.* `InOrder` says that nonces are used in order, and
  that recorded, handed out and answered ones follow on those used; `Ahead`, that what waits in
  a mempool is behind what the holder read. `NoHoleBelow` and `NothingDisplaced` need the
  premise, as two nodes disagree about mempools; sessions without their lease are exempt
  from the second by name.

`SessionsUseTheLease` closes the gap between the two modules: `LockImplementsLease` shows what the
lock grants, this one that the sessions of the ledger ask no more of it, even where one that
has lost its lease closes or crashes while another holds it.

### The lifecycle

No assumption beyond `LifecycleAssumption`, which types the constants and makes the
deliveries finite; the environment may be untimely. `LaunchesAreClaimed` counts dispatched runs
against the reaper's never-ran verdicts and says nothing of a handler that has claimed the
row and not dispatched yet, nor of a row that waits to be claimed. `ClaimsAreCounted` counts
those too: the deliveries that hold or have spent a claim, plus one if the row matches a
claim's `WHERE`, are at most `1 + reaped`. A claim moves the one to the delivery, because
it leaves the row unclaimable (`TypeOK` is needed: a never-ran code is only on a
*system_error* row, since a re-claim clears it). Only the reaper makes a row claimable
(`OnlyReaperReopens`, which goes through every writer's `WHERE` clause), and when it does
it adds to `reaped`. `ClaimReplyLost` takes the claim away from everyone, which only
helps the count. `CancelStands` and `SuccessStands` follow from one lemma over all
writers, `FinalRowIsSpared`: each is guarded, but for the `P-0002` write, the cancel route's
second statement and, against a success only, a dispatcher's mark (`UnsentMark`).

`OneRunPerTrigger` and `RefusedNeverRan` speak of `Calm` behaviours: no timeout cuts a handler or
a starting pod short, and step logs are written. `CalmInv` has four parts. `AloneInLimbo`: one
delivery at a time has a handler at work or a run that has not entered the body, since the
message reappears only after its visibility timeout. `BoundIsFirst`: while a delivery has the
claim and its run has not entered the body, nothing has run and the row is not refused.
`RanIsKnown`: once something ran, the row can be neither claimed, nor refused, nor reaped as
one that never ran; the step log is what tells the reaper, hence the premise.
`RanAlone` is the property. Both theorems rest on `ClaimsAreCounted` as well.

`FailuresStand` has no premise: `ResultsOfRuns` says that a result is one of a run that happened,
and a row left *unconfirmed* for the chain alone is of a run that did not fail; so every
writer of *success* has a run's result to show for it, the self-heal among them.

### The step claim

The assumption is `MaxStep <= Stale`: no step lasts longer than the takeover window,
which the comment on `STALE_CLAIM_MS` expects. `SoleOwner` alone is not inductive, as a
second replay might take the row of a slow holder. `HolderInTime` adds that a replay
that believes it holds the claim is the row's last taker and is not past `MaxStep`, so
that the row is not free to anybody's statement (`HeldIsNotFree`). It ends at
finalization, which clears the claims: hence `final # "over"` in all three.

`OneReplayRuns` and `OutputIsReused` speak of behaviours without faults and assume
`WaitsSuffice`: the replays are finite, and all attempts at the step but the last fit into
one wait, `(|Replays| - 2) * (MaxStep + 1) + MaxStep < MaxWait`. With the source's equal wait
and takeover windows, two replays need a step shorter than the window, and every further one
costs one more failed attempt. `FaultlessInv` counts: each failed attempt took at most
`MaxStep + 1` rounds (`Budget`), and a waiting replay has waited no longer than these and the
age of the claim it waits for (`WaitsInBudget`), so it never gives up; `ClaimTells` says that
the claim's row and key agree with who runs, and `LogsTell` what the log says of each.

### The election

`OneLeader` has the premise `Timely`: a renew deadline, a sleep, three calls and the
difference of two clocks fit into the Lease's duration. `ElectionInv` is

    ElectionTypeOK /\ Waits /\ Orderly /\ RenewsInTime /\ (Timely => Alone)

`Waits` bounds how long a sleep or a call has been out, `Orderly` says which combinations of
`life`, `at` and `leading` there are, `RenewsInTime` relates a leader's `last` and the age of the
Lease: a leader's clock started before its Lease did, and it stops being a leader, or renews,
within the deadline, a sleep and the calls of an attempt. `Alone`: a replica that leads,
or whose write has landed, is the Lease's holder and nobody else's read of the Lease is
current. It is what makes `Alone` inductive that a standby finds a Lease held by a timely
leader unexpired by its own clock (`HolderNotExpired`), and that the compare-and-swap defeats a
write whose read is older.

`HandoverBounded` has the premise that calls are answered and two of them fit into the Lease;
without it TLC finds a write of a dead process that lands so late that it defeats the attempt
a standby made when the Lease had run out. `Handover` says how long a vacancy may have
lasted by where each replica's loop is (`Underway`): a sleep begins before the Lease has run
out, because a standby refuses only a Lease that is still valid, and that Lease was last
renewed before the vacancy began (`LeaseIsStale`). A write that landed is heard of
by its sender, or the sender exits, which begins the count anew.

### The dispatch

No premise: two replicas may lead at once, and any call may fail. `DispatchInv` is

    Typed /\ Disciplined /\ BareIsUntraced /\ ClaimableIsNew /\ NoneStranded

`Disciplined` says what a pass in each state has in hand, `BareIsUntraced` that a message without
an id comes only from a pass that lost the phantom's answer, and `ClaimableIsNew` that a row
that can be claimed has not been run: a row is inserted once for its dispatch key and taken
once by compare-and-set. `StartedOnce` follows from the two. `AttendInv` adds that windows
adjoin: what a term's windows span is what its passes have covered (`TermsCovered`), and what
a pass has not done yet is in its hands (`InHandExists`, `Spans`).

### Direct execution

`KeptAnswersAreTrue` has no premise. Its strengthening goes through the code's own order:
`Reported` says that a verdict is what the disposition makes of the core's outcome, and the
outcome what the chain or the failed call said; `Answers`, that what a settled record says was
the verdict of the request that holds it, fenced by its lock version, and has not changed since
(`OverIsOver`).

`SentOnce` has the premise `env.timely`: no live request's key lapses, which the heartbeat
is for. `SentInv` is `env.timely => Held /\ Stands /\ Pairs`. `Held`: a request between its
reservation and its answer holds its key's record. `Stands`: a finished request that may have
sent is kept by its record until `kept`, unless it is cut short, its core forgot the send, or
the time is over. `Pairs` is
the property for any two requests of one key that have sent or still may. `StepKinds`
sorts the steps into those inside a request, a tick, a reservation, a heartbeat that lands and
a recorded disposition, with one lemma each.

`CapHolds` assumes `FiniteMovers`, without which there is no sum. `SumProofs` shows what
`MapThenSumSet` computes, each law by a smallest set that would break it: a sum is a natural
number, grows with its set and grows by the weight of what is added. `CapInv` is

    Entered /\ Behind /\ DaysWithin /\ RoomFor

`DaysWithin` is the cap over what the code counts (`Charged`), `RoomFor` that a mover which has
summed and is about to insert still has room for its value: it holds the cap row's lock, so
nobody has inserted since, and a day's charges otherwise only shrink. `Behind` ties what may
have been sent to a row that is counted, `Entered` a mover's place in the code to its row.
What is `overlooked` is what no sum has counted.

### The engine

*Assumptions.* `EngineAssumption`: every graph is `Drawn`, that is, finite, with a trigger
that no edge leads to (`trigger-node.tsx` gives it no target handle), and without a cycle of
forward edges. `SkippedNeverRan` and the two theorems that rest on it also assume
`OneEntry`, that nothing but the entry of a loop leads from the trigger to where the loop
goes back; TLC evaluates it on every graph of the run. Without it, as with T to C, C to A
and B, and A and B to one another, the depth-first order decides which edge goes back and a
node can be skipped that ran. A For Each inside the body of another, and one with two
Collects at one level, which `identifyLoopBody` refuses, are graphs the theorems cover and
the model does not follow the code in (section 8).

*Types.* `EngineInv` adds to `TypeOK` what its counters need: an activation's turn is at most
its node's, which is at most the re-entries and the entry of this pass (`LoopInv`), and the
sum of `passes`, again by `SumProofs`, is `Traversals`. `Reachable` and the walk of a skip are
recursive functions over a finite graph; what they compute is shown by a least index at which
it would fail.

*Steps.* Every step has one of four shapes, each with a lemma (`PassShapes`): an activation's
step ends and enters what it `Moves` to; it leaves everything but results alone (`Settles`);
a loop is taken (`Looped`); a branch is skipped (`Spared`). The invariants are proved
preserved by shape, not by action.

*One pass.* `PassInv` is `SeenInv`, `Decisions` and, while no loop has re-entered nodes that
were still running, `OnePass`:

    CurrentInv /\ UndecidedInv /\ ArrivedInv /\ RealInv /\ PendingInv /\ DeadInv

`CurrentInv`: what runs is its node's newest activation. `ArrivedInv`: what has arrived was
skipped or is done. `RealInv`: what arrived otherwise than as a skip came over an edge that was
chosen. `PendingInv`: an activation that was not outrun still has ahead of it what it chose.
`DeadInv`: a skip comes from what was skipped or chose otherwise, and what was skipped has no
other way in. The hard case is the loop: it takes back the arrivals and decisions of its
scope and of nothing else, and each part must survive that (`PassLoops`). `JoinsWaitForAll`
follows from `ArrivedInv` and the count of `Complete`, `NoBranchUntaken` from `RealInv` and
`PendingInv`.

`SkippedNeverRan` needs the converse of `DeadInv`. `AliveInv`: what was entered has something
before it that was entered and chose it. A loop keeps it because nothing but the entry leads
into its scope (`OneEntry`), and the entry was entered from outside. A node both skipped and
entered then has, going backward along the forward edges, a first such node: the one before it
was entered, not skipped, and chose both handles. A For Each marks its body as run whatever
its conditions decide inside, so that what it leads to is left out; `revived` is left out
since an older decision then re-enters what the newer pass did not choose.

*The accusation.* `OrphansWereCutOff` has no premise: it holds whatever fails, loops or
overlaps. Its invariant is

    ServedInv /\ JoinedInv /\ FinalInv

`ServedInv`: a node that was entered, if it is one that `findOrphanedNodes` may take an
accusation from, is at work, has failed, or has told all that its forward edges lead to.
`JoinedInv`: a join that has heard of all its sources was entered or skipped. So a node whose
sources were all entered and did not fail was entered itself, and not accused. `FinalInv`: only
the verdict writes `orphan` and `reconciled`, and it does so when nothing is live. The hard
case is again the loop, which takes nodes back out of `visited` without asking who had told
them: what told a node of the scope lies in the scope, since a node that is no join has one
way in (`OneWayIn`). The steps reuse the shapes above (`MovesServe`, `LoopsServe`,
`SkipsServe`); `StepMoves` says that whoever leaves without telling anybody has failed.

*The failure.* `FailuresAreShown` is about what stands between a step that fails and the row:
a retry, a signal to a join, a completion that the recovery passes take for lost, a loop that
enters the node again, the verdict that leaves skipped nodes out. Its invariant is

    FirstInv /\ ShownInv /\ FinalInv

`FirstInv`: until a loop has entered a node again, nothing is recorded or logged of it before
its step ends, one activation at most has still to run it (`OnlyOne`), and what is logged then is
how it ended. So a first failure leaves one `error` row, and no completion that a recovery pass
could find. `ShownInv`: while passes do not overlap, a node whose last step failed has, until
the verdict, a result that counts as a failure, or is at work again. `FailureAtVerdict` takes
both through `Finalize`. A For Each that threw after its success row is in `ShownInv` and not in
`FirstInv`: the verdict shows it, the row need not. The premise `SkippedDidNotRun` is a property of its own, proved by
`SkippedNeverRan` where that applies, and `PlainFailuresAreShown` puts the two together. Collects
are left out where iterations run (`Alone`): their For Each writes their result and their log
row, besides the Collect's own step, so that `FirstInv` does not hold of them.

*The green run.* `GreenRunsWhole` says of a run that ended in success that what it entered is
what its decisions lead to. That nothing else was entered is `AliveInv`. That nothing was missed
takes the converses of the invariants above, `SpreadInv`: what was skipped has been passed by
on to the next join (`SkippedOn`); what a condition chose against was passed by, or an
activation has still to skip it (`AgainstInv`); what was entered is at work, has failed for good,
or has told all that it leads to (`ToldInv`), where the throw of a completion that was lost tells
the joins alone; and only a loop takes a node back that was attempted (`AttemptInv`). At a
green verdict nothing is live, so that nothing waits to be skipped, and a lost completion was found
(`EndSettled`): the joins before it had been told, and what it had not told is a node with one
way in that was never attempted, which the orphan scan would have accused. Then the
first node, along the forward edges, that is neither entered nor skipped has heard from every
source it has (`NothingMissed`), and back edges lead to nothing that forward edges
do not (`BackAddsNothing`), so that all that is due was entered (`DueWasRun`).

Where a For Each runs iterations the argument fails at its body: those nodes are marked as entered
by the iterations and not by what leads to them, and nothing in this model says what the
iterations told whom.

### Only model-checked

`GreenRunsWhole` in a workflow with a For Each; `FailuresShow` for Collects, and
`SkippedDidNotRun` behind a For Each.
Liveness under fairness, here `TakeoverNoticed`, `RowSettles`, `EveryReplayDecides` and
`EveryRunEnds`, is outside the prover's reach.

## 6. Where code and comments disagree

Four runs are expected to fail; each checks a sentence of the repository against the code.

* `lifecycle_unconfirmed`: `updateExecutionStatus` spares success, error, system_error,
  skipped and cancelled, but not *unconfirmed*. The runner calls `applyExecutionResult` after the
  engine's terminal write, so a row the engine left unconfirmed is closed although
  nobody has read the receipt. `reconcile-executions.ts` says such a row stays non-terminal.
* `claims_cleared`: `clearStepClaims` skips the clear while a step log says running, but
  `logWorkflowCompleteDb`, its only caller, closes every running log first.
* `engine_capped`: a refused loop fails its run in `results` only and logs no failed step, so
  `logWorkflowCompleteDb` takes the error for a spurious one and records a success. `loop-back.ts`
  says that hitting either cap fails the run.
* `dispatch_gap`: the first pass of a term does not set `lastTickAt`. If it outlasts the next
  tick, that tick's window begins a minute before it, and what was due between is in no
  window. `schedule-dispatcher/index.ts` says "no gaps, no double-fires".

The models show more of the kind, which are stated here and kept in the premises and
exemptions of the properties that pass.

*Lifecycle, ledger and claim.*

* A second delivery that meets a refusal after the first has dispatched finds the row
  *pending* and marks it *skipped*; the pod runs anyway. `RefusedNeverRan` therefore speaks
  of timely behaviours.
* The reaper stamps `P-0001` on a row without a step log; the pod may start afterwards, and a
  redelivery re-claims the row and runs the workflow again. `db-helpers.ts` calls such a row one
  that "provably produced no side effects". `LaunchesAreClaimed` counts these verdicts.
* A row re-claimed after a run of it had begun, whose executor then dies, is pending with
  step logs, which no sweeper looks for (`reap-stale-executions.ts:96`, against its comment at
  :24). `RowSettles` exempts it by name (`Stranded`).
* A claim that commits without its reply is retried, matches nothing, and is dropped as a
  duplicate; the row then waits for the reaper (`ClaimReplyLost`).
* The cancel route reads *running* and then writes by id: a success recorded in between is
  overwritten, as both a success and a cancellation can be by the `P-0002` write of a Job
  creation that threw after it created the Job.
* A dispatcher whose send was delivered but reported as failed overwrites a running or finished
  row: `failPhantomExecution` PATCHes a route that spares cancelled and skipped rows only
  (`api/internal/executions/[executionId]/route.ts:134`), while `http-client.ts:11` relies on a
  compare-and-set on terminal status. `SuccessStands` exempts it by name (`MarkUnsent`).
* A redelivery that meets the feature gate after the row was resolved inserts a second row
  (`RefuseFeature`).
* An executor that stops between a charge and its dispatch leaves a paid run that never
  starts (`keeperhub-executor/index.ts:1005`); the last writer of a schedule's own status wins
  whatever it knows (`db-helpers.ts:697`).
* Reconciliation calls a row *replaced* when its nonce is below the **pending** count, which
  counts transactions that only wait in the mempool, and *dropped* on the word of one node,
  which another node that has the transaction may contradict (`ReconcileRow`).
* The longest wait for a claim equals its takeover window and is looked at first, so the
  losers of a winner that was killed all run the step unowned, at once (`PollEnds`).

*Engine.*

* A pass of a loop that begins within 10 minutes of the last one finds that pass's step
  claim and step log, and reuses its output (`StepReused`), although the comment at
  `executor.workflow.ts:3527` has the body run again.
* A node wired to both handles of one condition is entered and skipped, and the verdict
  leaves its failure out (`convergence-barrier.ts:185`). Passes that overlap, as when a loop
  has a slow sibling, can do the same.
* `runLoopIteration` does not ask whether a later pass has run its condition again, as
  `continueFromCondition` does before a skip (`executor.workflow.ts:3620`): an older activation
  that returns late takes the loop once more on its old decision. `NotTakenNeverRuns` and
  `GreenRunsWhole` exempt it (`revived`).
* A For Each that a loop re-enters is overwritten by the older activation when that one
  returns last.
* A node whose completion is found only after the drain has its branch reported as orphaned,
  but not where it is a condition or in a body: what is behind it does not run, and the run
  is green. A For Each that is recovered goes on without iterating.
* An edge of a condition that has no handle, and that the condition does not follow, skips
  nothing (`executor.workflow.ts:3595`), so that a join behind it hears of one source less, does
  not run, and the run is green. So does a join that a node feeds to which the trigger does not
  lead. `GreenRunsWhole` leaves out such runs (`Unheard`; graphs `Stopped`, `Mixed` and `Stray`).
* Where a For Each has a Collect, what else is at its done handle does not run
  (`planIterationContinuation`, `executor.workflow.ts:2318`). The orphan scan reports it, but not
  where the Collect leads to it too: it is then a join that hears of the Collect alone, and the
  run is green (`PassedOver`; graph `Gather`).
* `findOrphanedNodes` accuses a Collect behind a `done` handle in any run with an orphan scan,
  as such a node is never attempted.
* `TrulyFailed` reads step logs only: a step without an action type, an orphan, an unsupported
  back edge fail the verdict and not the row. So does a For Each whose source is no array:
  `resolveArraySource` throws after the step has logged its success
  (`executor.workflow.ts:3170`), and the catch logs a `TemplateResolutionError` alone, although
  its comment (`:4184`, KEEP-468) describes this very reconciliation. Of such a For Each
  `FailuresShow` claims the verdict and not the row (`outcome` *threw*).
* A result of `{ success: false }` does not arrive at a join, while a throw does.
* A recorded output of `null` cannot be told from none (`get-completed-step-output.ts:180`).

*Dispatch.*

* A message without a row's id can run an occurrence twice, against `leader-election.ts:21`;
  `StartedOnce` exempts it (`untraced`).
* A phantom `POST` refused on a retry leaves the row of the first attempt to the reaper, and a
  failed send gives up the schedule's remaining occurrences of the window (`dispatch.ts:376`).
* A replica told to stop may lead once more when its attempt is answered
  (`leader-election.ts:153`); expiries compare clocks of different pods, and no call of the
  election has a timeout, so `Timely` is an assumption about the cluster.

*Direct execution.*

* A sponsored send has landed and the lookup of the explorer's link throws
  (`transfer-funds-core.ts:329`): the catch takes it for a failure before the broadcast, although
  `sponsored-send-error.ts:37` promises the fallback "only for genuine pre-broadcast failures",
  and a second transaction is signed directly. If that one is refused, the core reports that
  nothing was sent, the key is released and the charge given back (`CoreForgets`); `SentOnce` and
  `CapHolds` exempt it. If it goes out, one request has sent twice, which the model, with one
  transaction a request, does not show.
* A heartbeat that lands behind its request's answer shortens the kept key from a day to ten
  minutes (`idempotency.ts:102`, against :13); `SentOnce` exempts it (`cutShort`).
* A throw after the send, as from `endSession` in a `finally`
  (`transaction-manager.ts:395`), leaves the row *running* and the key *processing* until it
  lapses; a retry then sends again. The reserve, charge, verification and recording have no
  heartbeat either.
* `transfer/route.ts:341` says a failed verification is finalized, while the disposition
  releases the key of a conclusive on-chain failure.
* `withValueCap` releases a reservation whose send may still land (`value-ledger.ts:522`); work
  older than 15 minutes drops out of the day's sum while its key is still beaten on; a
  transaction begun before midnight and summed after it dates its row to the day before and
  counts for neither. `CapHolds` exempts these three too (`overlooked`).
* Unconfirmed rows without a hash are never settled by the reconciler
  (`reconcile-executions.ts:472`), and nothing sweeps expired records, although
  `schema-extensions.ts:731` says they are swept.

## 7. Plan

Done: the lock with its refinement, the ledger, the lifecycle, the step claim, the engine's
traversal, leader election and schedule dispatch, direct execution with its key and cap, and
proofs about all of them. Next, in this order:

1. The body runner of For Each (`for-each-body-runner.ts`): concurrency, Collect, nested bodies;
   with it the theorems about the engine that stop at a For Each.
2. The block dispatcher and the event tracker: subscriptions, reconnects, de-duplication; the
   Pyth checkpoint.
3. The pay-as-you-go ledger: charge, refund, and the overflow of a run; composed with the
   lifecycle's claim.
4. The Solana and stablecoin caps, the agentic wallet's daily spend and approvals, the
   workflow state store, schedule bookkeeping.

## 8. What is not modelled

* *In the modelled components.* Gas strategy, sponsored and Safe transactions (but for the
  sponsored send of a direct request), and retries inside one submission (one step each);
  id-less messages of the executor and the `api` dispatch target; output bounding, metrics
  and notifications; the guards before a claim (billing, features, capacity, schedule)
  read other tables, so the lifecycle takes any answer of them. Writes of a pod after
  Kubernetes has called it dead.
* *In the engine.* The body runner: a body is whether an iteration failed; bodies within bodies;
  the refusal of a body with two Collects. Templates, inputs
  and outputs; workflows with several triggers; the drain's timeout; a Collect step that
  throws; loops with two entries, for which the depth-first order would matter.
* *In the dispatchers.* The block dispatcher, the evaluation of cron expressions (an
  occurrence is a moment), several schedules in one pass.
* *In the direct execution.* The conflict of a key with a different body, which is an early
  answer like others; the other routes that take a key; the breaker's own state (a refusal
  may come at any time); the Solana and stablecoin limits.
* Listeners, Pyth, billing, the agentic wallet and the state store are in the plan.
* Retention, rate limits, RPC failover, authentication, the web application, the MCP server,
  plugins and protocol definitions: request-response code, library calls and data, without
  a protocol of their own that the components above do not already contain. They are most
  of the repository's lines, which is why the map covers a small share of it.
