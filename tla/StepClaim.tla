------------------------------ MODULE StepClaim ------------------------------
(***************************************************************************)
(* The claim that keeps two replays of a run from executing one step twice  *)
(* (lib/workflow/executor/step-claim.ts, taken in step-handler.ts): a row   *)
(* of workflow_step_claims per (execution, node), fronted by a Redis key    *)
(* that only ever says "held".  One (execution, node) pair.                 *)
(*                                                                          *)
(* Time is counted in polling rounds, WAIT_FOR_WINNER_MS.  A statement      *)
(* answers within a round (the pool's statement_timeout), so a replay       *)
(* leaves a round's end, and every state between statements, before the     *)
(* next tick.  STALE_CLAIM_MS and MAX_TOTAL_WAIT_MS are 20 rounds each.     *)
(*                                                                          *)
(* The row has no owner column; the ghost owner remembers whose statement   *)
(* last took it.  A replay enters the step wrapper once.                    *)
(***************************************************************************)
EXTENDS Integers, FiniteSets

CONSTANTS
  Replays, None,
  Stale,        \* STALE_CLAIM_MS, in rounds
  MaxWait,      \* MAX_TOTAL_WAIT_MS, in rounds
  MaxStep,      \* environment: rounds an owner may take from claim to release
  Environments, \* what to choose from: [faults, replays], the replays that come and
                \* any of "crash", "db" (statements fail), "late" (replays arrive
                \* past the takeover window), "final" (the run is finalized)
  StepFailures  \* environment: TRUE when a step may fail

ASSUME ClaimAssumption ==
  /\ None \notin Replays
  /\ Stale \in Nat /\ MaxWait \in Nat \ {0} /\ MaxStep \in Nat
  /\ Environments \subseteq [faults  : SUBSET {"crash", "db", "late", "final"},
                             replays : SUBSET Replays]
  /\ StepFailures \in BOOLEAN

VARIABLES
  env,      \* this behaviour's choice from Environments
  owner,    \* None without a row, else the replay that last took it
  age,      \* now() - claimed_at
  cached,   \* the Redis key exists
  pc,       \* where each replay is in withStepLoggingInner
  owns,     \* ownedClaim is set
  waited,   \* time since acquireStepClaim began, up to MaxWait
  polled,   \* the current round's WAIT_FOR_WINNER_MS is over
  log,      \* the replay's step log; hollow: closed as success, no output
  final     \* logWorkflowCompleteDb: open, closed (logs), clearing, over

claim == <<owner, age>>
mine  == <<pc, owns>>
clock == <<waited, polled>>
vars  == <<env, claim, cached, mine, clock, log, final>>

Owning == {"won", "starting", "running", "releasing", "deleting"}
PCs    == Owning \cup {"idle", "claiming", "waiting", "reused", "done", "dead"}

Can(fault) == fault \in env.faults

(* Fault: DO UPDATE without its setWhere. *)
FreeAtAnyAge == TRUE

(* The INSERT ... ON CONFLICT DO UPDATE ... WHERE claimed_at < now() - 10 min *)
(* returns a row.                                                           *)
Free == owner = None \/ age > Stale

(* findWinnerOutput: a success row that carries output. *)
WinnerOutput == \E r \in Replays : log[r] = "success"

Init ==
  /\ env \in Environments
  /\ owner = None /\ age = 0 /\ cached = FALSE
  /\ pc     = [r \in Replays |-> "idle"]
  /\ owns   = [r \in Replays |-> FALSE]
  /\ waited = [r \in Replays |-> 0]
  /\ polled = [r \in Replays |-> FALSE]
  /\ log    = [r \in Replays |-> "none"]
  /\ final  = "open"

Go(r, to) == pc' = [pc EXCEPT ![r] = to]

Take(r) == owner' = r /\ age' = 0

Drop == owner' = None /\ age' = 0

Logs(r, to) == log' = [log EXCEPT ![r] = to]

-----------------------------------------------------------------------------
(* acquireStepClaim *)

(* Round 0 asks Redis first; a miss or an unreachable Redis falls through.  *)
Arrive(r) ==
  /\ pc[r] = "idle" /\ r \in env.replays
  /\ Can("late") \/ age <= Stale
  /\ Go(r, "claiming") \/ (cached /\ Go(r, "waiting"))
  /\ UNCHANGED <<env, claim, cached, owns, clock, log, final>>

ClaimWins(r) ==
  /\ pc[r] = "claiming" /\ Free
  /\ Take(r)
  /\ owns' = [owns EXCEPT ![r] = TRUE]
  /\ Go(r, "won")
  /\ UNCHANGED <<env, cached, clock, log, final>>

(* rememberClaimInRedis *)
Remember(r) ==
  /\ pc[r] = "won"
  /\ cached' \in {TRUE, cached}
  /\ Go(r, "starting")
  /\ UNCHANGED <<env, claim, owns, clock, log, final>>

ClaimHeld(r) ==
  /\ pc[r] = "claiming" /\ ~Free
  /\ Go(r, "waiting")
  /\ polled' = [polled EXCEPT ![r] = FALSE]
  /\ UNCHANGED <<env, claim, cached, owns, waited, log, final>>

(* The statement throws, having taken the row or not: run unowned. *)
ClaimErrors(r) ==
  /\ Can("db") /\ pc[r] = "claiming"
  /\ (Free /\ Take(r)) \/ UNCHANGED claim
  /\ Go(r, "starting")
  /\ UNCHANGED <<env, cached, owns, clock, log, final>>

PollFinds(r) ==
  /\ pc[r] = "waiting" /\ WinnerOutput
  /\ Go(r, "reused")
  /\ UNCHANGED <<env, claim, cached, owns, clock, log, final>>

PollErrors(r) ==
  /\ Can("db") /\ pc[r] = "waiting"
  /\ Go(r, "starting")
  /\ UNCHANGED <<env, claim, cached, owns, clock, log, final>>

(* Fault: while a step log says running, its owner is taken to be alive. *)
PollEndsTrusting(r) ==
  /\ pc[r] = "waiting" /\ polled[r] /\ ~WinnerOutput
  /\ IF \E s \in Replays : log[s] = "running"
     THEN polled' = [polled EXCEPT ![r] = FALSE] /\ UNCHANGED pc
     ELSE Go(r, "claiming") /\ UNCHANGED polled
  /\ UNCHANGED <<env, claim, cached, owns, waited, log, final>>

(* The round is over without an output: run unowned past the deadline, else *)
(* try to take the claim over.                                              *)
PollEnds(r) ==
  /\ pc[r] = "waiting" /\ polled[r] /\ ~WinnerOutput
  /\ Go(r, IF waited[r] >= MaxWait THEN "starting" ELSE "claiming")
  /\ UNCHANGED <<env, claim, cached, owns, clock, log, final>>

-----------------------------------------------------------------------------
(* withStepLoggingInner, once it may run the step *)

(* logStepStart, which swallows a failed insert. *)
StartStep(r) ==
  /\ pc[r] = "starting"
  /\ Logs(r, "running") \/ (Can("db") /\ UNCHANGED log)
  /\ Go(r, "running")
  /\ UNCHANGED <<env, claim, cached, owns, clock, final>>

(* Fault: a finished step gives its claim back. *)
StepSucceedsReleasing(r) ==
  /\ pc[r] = "running"
  /\ (log[r] # "none" /\ Logs(r, "success")) \/ (Can("db") /\ UNCHANGED log)
  /\ Go(r, "done") /\ Drop
  /\ UNCHANGED <<env, cached, owns, clock, final>>

(* logStepComplete; a lost one leaves the log as it is. *)
StepSucceeds(r) ==
  /\ pc[r] = "running"
  /\ (log[r] # "none" /\ Logs(r, "success")) \/ (Can("db") /\ UNCHANGED log)
  /\ Go(r, "done")
  /\ UNCHANGED <<env, claim, cached, owns, clock, final>>

(* Fault: whoever ran the step releases the claim. *)
StepFailsReleases(r) ==
  /\ pc[r] = "running" /\ StepFailures
  /\ (log[r] # "none" /\ Logs(r, "error")) \/ (Can("db") /\ UNCHANGED log)
  /\ Go(r, "releasing")
  /\ UNCHANGED <<env, claim, cached, owns, clock, final>>

(* A failed step gives the claim back, if this replay holds it. *)
StepFails(r) ==
  /\ pc[r] = "running" /\ StepFailures
  /\ (log[r] # "none" /\ Logs(r, "error")) \/ (Can("db") /\ UNCHANGED log)
  /\ Go(r, IF owns[r] THEN "releasing" ELSE "done")
  /\ UNCHANGED <<env, claim, cached, owns, clock, final>>

(* releaseStepClaim: the key, then the row, each best-effort. *)
ReleaseKey(r) ==
  /\ pc[r] = "releasing"
  /\ cached' \in {FALSE, cached}
  /\ Go(r, "deleting")
  /\ UNCHANGED <<env, claim, owns, clock, log, final>>

ReleaseRow(r) ==
  /\ pc[r] = "deleting"
  /\ Drop \/ (Can("db") /\ UNCHANGED claim)
  /\ Go(r, "done")
  /\ UNCHANGED <<env, cached, owns, clock, log, final>>

(* The process running replay r is gone. *)
Die(r) ==
  /\ Can("crash") /\ pc[r] \in Owning \cup {"claiming", "waiting"}
  /\ Go(r, "dead")
  /\ UNCHANGED <<env, claim, cached, owns, clock, log, final>>

-----------------------------------------------------------------------------
(* logWorkflowCompleteDb, which may run with steps in flight.               *)

(* closeOrphanedRunningLogs *)
CloseLogs ==
  /\ Can("final") /\ final = "open"
  /\ \E to \in {"error", "hollow"} :
       log' = [r \in Replays |-> IF log[r] = "running" THEN to ELSE log[r]]
  /\ final' = "closed"
  /\ UNCHANGED <<env, claim, cached, mine, clock>>

(* The terminal UPDATE landed: clearStepClaims looks for a running step. *)
CheckRunning ==
  /\ final = "closed"
  /\ final' = IF \E r \in Replays : log[r] = "running" THEN "over" ELSE "clearing"
  /\ UNCHANGED <<env, claim, cached, mine, clock, log>>

Clear ==
  /\ final = "clearing"
  /\ Drop \/ (Can("db") /\ UNCHANGED claim)
  /\ final' = "over"
  /\ UNCHANGED <<env, cached, mine, clock, log>>

(* The key expires, is evicted, or its Redis is gone. *)
Forget ==
  /\ cached /\ cached' = FALSE
  /\ UNCHANGED <<env, claim, mine, clock, log, final>>

(* A round of time.  Replays between two statements are not left behind,    *)
(* and an owner is done with the claim within MaxStep.                      *)
Tick ==
  /\ \A r \in Replays :
       /\ pc[r] \notin {"claiming", "won", "starting", "releasing", "deleting"}
       /\ ~(pc[r] = "waiting" /\ polled[r])
  /\ owner # None /\ pc[owner] = "running" => age < MaxStep
  /\ age' = IF owner = None \/ age > Stale THEN age ELSE age + 1
  /\ waited' = [r \in Replays |->
                  IF pc[r] = "waiting" /\ waited[r] < MaxWait THEN waited[r] + 1
                  ELSE waited[r]]
  /\ polled' = [r \in Replays |-> pc[r] = "waiting"]
  /\ UNCHANGED <<env, owner, cached, mine, log, final>>

Acquire(r) ==
  \/ ClaimWins(r) \/ Remember(r) \/ ClaimHeld(r) \/ ClaimErrors(r)
  \/ PollFinds(r) \/ PollErrors(r) \/ PollEnds(r)

Perform(r) ==
  StartStep(r) \/ StepSucceeds(r) \/ StepFails(r) \/ ReleaseKey(r) \/ ReleaseRow(r)

Next ==
  \/ \E r \in Replays : Arrive(r) \/ Acquire(r) \/ Perform(r) \/ Die(r)
  \/ CloseLogs \/ CheckRunning \/ Clear \/ Forget \/ Tick

Spec == Init /\ [][Next]_vars

(* The database answers, time passes, and the claim's owner is done with    *)
(* its step after MaxStep, as Tick assumes; an unowned one may never be.    *)
FairSpec ==
  /\ Spec /\ WF_vars(Tick)
  /\ \A r \in Replays :
       /\ WF_vars(Acquire(r) \/ StartStep(r) \/ ReleaseKey(r) \/ ReleaseRow(r))
       /\ WF_vars(age >= MaxStep /\ owner = r /\ (StepSucceeds(r) \/ StepFails(r)))

-----------------------------------------------------------------------------
(* Types; only a replay that holds the claim goes to release it, and a      *)
(* reused step was not also run by the replay that reuses it.               *)
TypeOK ==
  /\ env \in Environments
  /\ owner \in Replays \cup {None} /\ age \in 0 .. Stale + 1
  /\ owner = None => age = 0
  /\ cached \in BOOLEAN
  /\ pc \in [Replays -> PCs] /\ owns \in [Replays -> BOOLEAN]
  /\ waited \in [Replays -> 0 .. MaxWait] /\ polled \in [Replays -> BOOLEAN]
  /\ log \in [Replays -> {"none", "running", "error", "success", "hollow"}]
  /\ final \in {"open", "closed", "clearing", "over"}
  /\ \A r \in Replays :
       /\ pc[r] \in {"won", "releasing", "deleting"} => owns[r]
       /\ pc[r] \in {"idle", "claiming", "waiting", "reused"} => ~owns[r] /\ log[r] = "none"

Running == {r \in Replays : pc[r] = "running"}

(* Two replays that arrive before either has finished do not both run the   *)
(* step (step-handler.ts): where no owner dies or loses a statement, and    *)
(* the attempts at the step together stay inside one takeover window.       *)
AtMostOneRuns == env.faults = {} => Cardinality(Running) <= 1

(* A replay that arrives while the claim is honoured reuses the recorded    *)
(* output and does not run the finished step again.                         *)
FinishedNotRerun ==
  [][env.faults = {} /\ WinnerOutput => Running' \subseteq Running]_vars

(* Whatever crashes, errors and failed steps do: until the run's claims are *)
(* cleared, two replays never both believe they hold one, as long as an     *)
(* owner needs at most STALE_CLAIM_MS.                                      *)
Holding(r) == owns[r] /\ pc[r] \in Owning
SoleOwner ==
  \A r, s \in Replays : Holding(r) /\ Holding(s) /\ final # "over" => r = s

(* Until the claims are cleared, a replay that believes it holds the claim  *)
(* is the one that last took it, and is not past its time.  This is what    *)
(* StepClaimProofs proves inductive.                                        *)
HolderInTime ==
  \A r \in Replays : Holding(r) /\ final # "over" => owner = r /\ age <= MaxStep

(* The claim is never the reason a step does not happen: every replay that  *)
(* asks ends up running the step or reusing its output, unless it dies.     *)
EveryReplayDecides ==
  \A r \in Replays : pc[r] \in {"claiming", "waiting"}
                       ~> pc[r] \in {"running", "reused", "done", "dead"}

(* As long as an owner needs at most STALE_CLAIM_MS: until the run's claims *)
(* are cleared, a release frees the releaser's own claim, never the live    *)
(* owner's (StepClaimResult: only a holder may release, or a third replay   *)
(* would be let in).                                                        *)
ReleaseSparesOthers ==
  [][\A r \in Replays : pc[r] = "deleting" /\ pc'[r] = "done" /\ owner' # owner
       => owner = r \/ final = "over"]_vars

(* Finalizing a run leaves the claim of a live step alone: the clear is     *)
(* skipped entirely while any step is still running (clearStepClaims).      *)
ClearSparesLive ==
  [][final = "clearing" /\ owner # None /\ pc[owner] = "running"
       => owner' = owner]_vars
=============================================================================
