-------------------------- MODULE StepClaimProofs ---------------------------
(***************************************************************************)
(* Theorems about StepClaim, for every set of replays, every set of faults  *)
(* and every length of the waits and of a step.                             *)
(***************************************************************************)
EXTENDS StepClaim, FiniteSetTheorems, TLAPS

(* Every variable keeps its type, only a holder goes to release its claim,  *)
(* and a replay that has not started the step has no log.                   *)
THEOREM ClaimTypeCorrect == Spec => []TypeOK
<1>1. Init => TypeOK
  <2> SUFFICES ASSUME Init PROVE TypeOK
    OBVIOUS
  <2> USE ClaimAssumption DEF Init
  <2>1. pc \in [Replays -> PCs] /\ log \in [Replays -> {"none", "running", "error", "success", "hollow"}]
    BY DEF PCs, Owning
  <2>2. waited \in [Replays -> 0 .. MaxWait]
    OBVIOUS
  <2>3. age \in 0 .. Stale + 1
    OBVIOUS
  <2> QED BY <2>1, <2>2, <2>3 DEF TypeOK
<1>2. TypeOK /\ [Next]_vars => TypeOK'
  <2> SUFFICES ASSUME TypeOK, [Next]_vars PROVE TypeOK'
    OBVIOUS
  <2> USE ClaimAssumption DEF TypeOK, PCs, Owning, claim, mine, clock, Go
  <2>1. ASSUME NEW r \in Replays, Arrive(r) PROVE TypeOK'
    BY <2>1 DEF Arrive
  <2>2. ASSUME NEW r \in Replays, Acquire(r) PROVE TypeOK'
    <3>1. CASE ClaimWins(r)
      BY <3>1 DEF ClaimWins, Take
    <3>2. CASE Remember(r)
      BY <3>2 DEF Remember
    <3>3. CASE ClaimHeld(r)
      BY <3>3 DEF ClaimHeld
    <3>4. CASE ClaimErrors(r)
      BY <3>4 DEF ClaimErrors, Take
    <3>5. CASE PollFinds(r)
      BY <3>5 DEF PollFinds
    <3>6. CASE PollErrors(r)
      BY <3>6 DEF PollErrors
    <3>7. CASE PollEnds(r)
      BY <3>7 DEF PollEnds
    <3> QED BY <2>2, <3>1, <3>2, <3>3, <3>4, <3>5, <3>6, <3>7 DEF Acquire
  <2>3. ASSUME NEW r \in Replays, Perform(r) PROVE TypeOK'
    <3> USE DEF Logs
    <3>1. CASE StartStep(r)
      BY <3>1 DEF StartStep
    <3>2. CASE StepSucceeds(r)
      BY <3>2 DEF StepSucceeds
    <3>3. CASE StepFails(r)
      BY <3>3 DEF StepFails
    <3>4. CASE ReleaseKey(r)
      BY <3>4 DEF ReleaseKey
    <3>5. CASE ReleaseRow(r)
      BY <3>5 DEF ReleaseRow, Drop
    <3> QED BY <2>3, <3>1, <3>2, <3>3, <3>4, <3>5 DEF Perform
  <2>4. ASSUME NEW r \in Replays, Die(r) PROVE TypeOK'
    BY <2>4 DEF Die
  <2>5. CASE CloseLogs
    BY <2>5 DEF CloseLogs
  <2>6. CASE CheckRunning
    BY <2>6 DEF CheckRunning
  <2>7. CASE Clear
    BY <2>7 DEF Clear, Drop
  <2>8. CASE Forget
    BY <2>8 DEF Forget
  <2>9. CASE Tick
    BY <2>9 DEF Tick
  <2>10. CASE UNCHANGED vars
    BY <2>10 DEF vars
  <2> QED BY <2>1, <2>2, <2>3, <2>4, <2>5, <2>6, <2>7, <2>8, <2>9, <2>10 DEF Next
<1> QED BY <1>1, <1>2, PTL DEF Spec

-----------------------------------------------------------------------------
(* While a holder is in time nobody else's statement takes the row.         *)
LEMMA HeldIsNotFree ==
  ASSUME TypeOK, HolderInTime, MaxStep <= Stale,
         NEW r \in Replays, Holding(r), final # "over"
  PROVE  ~Free
BY ClaimAssumption DEF TypeOK, HolderInTime, Free

(* A replay that holds the claim is the row's owner, and in time.           *)
THEOREM HoldersAreInTime ==
  ASSUME MaxStep <= Stale PROVE Spec => []HolderInTime
<1>1. Init => HolderInTime
  BY DEF Init, HolderInTime, Holding
<1>2. TypeOK /\ HolderInTime /\ [Next]_vars => HolderInTime'
  <2> SUFFICES ASSUME TypeOK, HolderInTime, [Next]_vars,
                      NEW s \in Replays, Holding(s)', final' # "over"
               PROVE  owner' = s /\ age' <= MaxStep
    BY DEF HolderInTime
  <2> USE ClaimAssumption DEF TypeOK, HolderInTime, Holding, PCs, Owning,
                              claim, mine, clock, Go
  <2>1. ASSUME NEW r \in Replays, Arrive(r) PROVE owner' = s /\ age' <= MaxStep
    BY <2>1 DEF Arrive
  <2>2. ASSUME NEW r \in Replays, Acquire(r) PROVE owner' = s /\ age' <= MaxStep
    <3>1. CASE ClaimWins(r)
      <4>1. CASE s = r
        BY <3>1, <4>1 DEF ClaimWins, Take
      <4>2. CASE s # r
        BY <3>1, <4>2, HeldIsNotFree DEF ClaimWins
      <4> QED BY <4>1, <4>2
    <3>2. CASE Remember(r)
      BY <3>2 DEF Remember
    <3>3. CASE ClaimHeld(r)
      BY <3>3 DEF ClaimHeld
    <3>4. CASE ClaimErrors(r)
      <4>1. Holding(s) /\ final # "over"
        BY <3>4 DEF ClaimErrors
      <4> QED BY <3>4, <4>1, HeldIsNotFree DEF ClaimErrors
    <3>5. CASE PollFinds(r)
      BY <3>5 DEF PollFinds
    <3>6. CASE PollErrors(r)
      BY <3>6 DEF PollErrors
    <3>7. CASE PollEnds(r)
      BY <3>7 DEF PollEnds
    <3> QED BY <2>2, <3>1, <3>2, <3>3, <3>4, <3>5, <3>6, <3>7 DEF Acquire
  <2>3. ASSUME NEW r \in Replays, Perform(r) PROVE owner' = s /\ age' <= MaxStep
    <3>1. CASE StartStep(r)
      BY <3>1 DEF StartStep
    <3>2. CASE StepSucceeds(r)
      BY <3>2 DEF StepSucceeds
    <3>3. CASE StepFails(r)
      BY <3>3 DEF StepFails
    <3>4. CASE ReleaseKey(r)
      BY <3>4 DEF ReleaseKey
    <3>5. CASE ReleaseRow(r)
      <4>1. s # r /\ Holding(s) /\ Holding(r) /\ final # "over"
        BY <3>5 DEF ReleaseRow
      <4> QED BY <4>1
    <3> QED BY <2>3, <3>1, <3>2, <3>3, <3>4, <3>5 DEF Perform
  <2>4. ASSUME NEW r \in Replays, Die(r) PROVE owner' = s /\ age' <= MaxStep
    BY <2>4 DEF Die
  <2>5. CASE CloseLogs
    BY <2>5 DEF CloseLogs
  <2>6. CASE CheckRunning
    BY <2>6 DEF CheckRunning
  <2>7. CASE Clear
    BY <2>7 DEF Clear
  <2>8. CASE Forget
    BY <2>8 DEF Forget
  <2>9. CASE Tick
    <3>1. owner = s /\ pc[s] = "running" /\ age <= MaxStep
      BY <2>9 DEF Tick
    <3>2. age < MaxStep
      BY <2>9, <3>1 DEF Tick
    <3> QED BY <2>9, <3>1, <3>2 DEF Tick
  <2>10. CASE UNCHANGED vars
    BY <2>10 DEF vars
  <2> QED BY <2>1, <2>2, <2>3, <2>4, <2>5, <2>6, <2>7, <2>8, <2>9, <2>10 DEF Next
<1> QED BY <1>1, <1>2, ClaimTypeCorrect, PTL DEF Spec

(* Two replays never both believe they hold the claim before the run's      *)
(* claims are cleared, if a step outlasts no takeover window.               *)
THEOREM ClaimHasOneHolder ==
  ASSUME MaxStep <= Stale PROVE Spec => []SoleOwner
<1>1. HolderInTime => SoleOwner
  BY DEF HolderInTime, SoleOwner
<1> QED BY <1>1, HoldersAreInTime, PTL

(* And a release frees the claim of nobody but the replay that releases.    *)
THEOREM ReleaseIsOwn ==
  ASSUME MaxStep <= Stale PROVE Spec => ReleaseSparesOthers
<1>1. TypeOK /\ HolderInTime /\ [Next]_vars =>
        [\A r \in Replays : pc[r] = "deleting" /\ pc'[r] = "done" /\ owner' # owner
           => owner = r \/ final = "over"]_vars
  BY DEF TypeOK, HolderInTime, Holding, Owning
<1> QED BY <1>1, ClaimTypeCorrect, HoldersAreInTime, PTL DEF Spec, ReleaseSparesOthers

-----------------------------------------------------------------------------
(* Where nothing dies, fails to answer, comes late or is finalized early,   *)
(* and all attempts at the step but the last fit into one wait.             *)
Faultless == env.faults = {}

WaitsSuffice ==
  /\ IsFiniteSet(Replays) /\ MaxStep <= Stale
  /\ (Cardinality(Replays) - 2) * (MaxStep + 1) + MaxStep < MaxWait

Failed == {r \in Replays : pc[r] = "done" /\ log[r] = "error"}

(* The rounds that the failed attempts can have taken, each with the one in *)
(* which nobody has noticed yet that its claim was given back.              *)
Budget == Cardinality(Failed) * (MaxStep + 1)

(* What the log says of where a replay is. *)
LogsTell ==
  \A r \in Replays :
    /\ pc[r] = "running" => log[r] = "running"
    /\ pc[r] \in {"releasing", "deleting"} => log[r] = "error" /\ owns[r]
    /\ pc[r] = "done" => log[r] \in {"error", "success"}
    /\ log[r] = "success" => pc[r] = "done"

(* A replay in the step holds the claim, or is the last that is left.       *)
Admitted ==
  \A r \in Replays :
    pc[r] \in Owning => \/ owns[r] /\ owner = r
                        \/ ~owns[r] /\ owner = None /\ Failed = Replays \ {r}

(* The claim is held, or given back, or kept by a step that succeeded; so   *)
(* it can be taken only where it was given back.                            *)
ClaimTells ==
  /\ owner # None => pc[owner] \in Owning \/ log[owner] = "success"
  /\ \A r \in Replays : log[r] = "success" => owner = r \/ Failed = Replays \ {r}
  /\ \A r \in Replays : pc[r] = "claiming" => owner = None \/ age <= Stale

(* How long a replay can have waited.                                       *)
WaitsInBudget ==
  /\ owner = None /\ cached => Failed # {}
  /\ ~WinnerOutput =>
       \A r \in Replays :
         /\ pc[r] = "claiming" => waited[r] <= Budget + (IF owner = None THEN 0 ELSE age)
         /\ pc[r] = "waiting" =>
              waited[r] <= Budget + (IF owner # None THEN age ELSE IF polled[r] THEN 0 ELSE -1)

Unwaited == \A r \in Replays : pc[r] = "idle" => waited[r] = 0 /\ ~polled[r]

FaultlessInv ==
  /\ final = "open" /\ LogsTell /\ Admitted /\ ClaimTells /\ WaitsInBudget /\ Unwaited

LEMMA TimesStep ==
  ASSUME NEW n \in Nat, NEW k \in Nat, NEW m \in Nat, n <= k
  PROVE  /\ n * (m + 1) \in Nat /\ n * (m + 1) <= k * (m + 1)
         /\ (n + 1) * (m + 1) = n * (m + 1) + m + 1
         /\ n # 0 => n * (m + 1) >= m + 1
<1>1. n * (m + 1) \in Nat /\ (k - n) * (m + 1) \in Nat
  OBVIOUS
<1>2. k * (m + 1) = n * (m + 1) + (k - n) * (m + 1)
  OBVIOUS
<1>3. (n + 1) * (m + 1) = n * (m + 1) + m + 1
  OBVIOUS
<1>4. n # 0 => n * (m + 1) >= m + 1
  <2> SUFFICES ASSUME n # 0 PROVE n * (m + 1) >= m + 1
    OBVIOUS
  <2>1. (n - 1) * (m + 1) \in Nat /\ n * (m + 1) = (n - 1) * (m + 1) + m + 1
    OBVIOUS
  <2> QED BY <2>1
<1> QED BY <1>1, <1>2, <1>3, <1>4

LEMMA BudgetCounts ==
  ASSUME IsFiniteSet(Replays)
  PROVE  /\ IsFiniteSet(Failed) /\ Cardinality(Failed) \in Nat /\ Budget \in Nat
         /\ Failed # {} => Budget >= MaxStep + 1
<1>1. IsFiniteSet(Failed) /\ Cardinality(Failed) \in Nat
  BY FS_Subset, FS_CardinalityType DEF Failed
<1>2. Failed # {} => Cardinality(Failed) # 0
  BY <1>1, FS_EmptySet
<1> QED BY <1>1, <1>2, TimesStep, ClaimAssumption DEF Budget

(* Another failed attempt adds a step and a round. *)
LEMMA BudgetGrows ==
  ASSUME IsFiniteSet(Replays), NEW r \in Replays, r \notin Failed, Failed' = Failed \cup {r}
  PROVE  Budget' = Budget + MaxStep + 1
<1>1. Cardinality(Failed') = Cardinality(Failed) + 1
  BY BudgetCounts, FS_AddElement
<1> QED BY <1>1, BudgetCounts, TimesStep, ClaimAssumption DEF Budget

(* While two replays are left, the attempts before theirs and one more step *)
(* do not use up the wait.                                                  *)
LEMMA BudgetSuffices ==
  ASSUME WaitsSuffice, NEW r \in Replays, NEW s \in Replays, r # s,
         r \notin Failed, s \notin Failed
  PROVE  Budget + MaxStep < MaxWait
<1> DEFINE Others == (Cardinality(Replays) - 2) * (MaxStep + 1)
<1>0. IsFiniteSet(Replays) /\ Cardinality(Replays) \in Nat
  BY FS_CardinalityType DEF WaitsSuffice
<1>1. IsFiniteSet(Replays \ {r}) /\ Cardinality(Replays \ {r}) = Cardinality(Replays) - 1
  BY <1>0, FS_RemoveElement
<1>2. /\ IsFiniteSet((Replays \ {r}) \ {s})
      /\ Cardinality((Replays \ {r}) \ {s}) = Cardinality(Replays) - 2
  <2>1. s \in Replays \ {r}
    OBVIOUS
  <2>2. Cardinality((Replays \ {r}) \ {s}) = Cardinality(Replays \ {r}) - 1
    BY <1>1, <2>1, FS_RemoveElement
  <2> QED BY <1>0, <1>1, <2>2, FS_RemoveElement
<1>3. Failed \subseteq (Replays \ {r}) \ {s}
  BY DEF Failed
<1>4. Cardinality(Failed) <= Cardinality(Replays) - 2
  BY <1>2, <1>3, FS_Subset
<1>5. Cardinality(Replays) - 2 \in Nat /\ Cardinality(Failed) \in Nat
  BY <1>2, BudgetCounts, FS_CardinalityType DEF WaitsSuffice
<1>6. Budget <= Others /\ Others \in Nat
  BY <1>4, <1>5, TimesStep, ClaimAssumption DEF Budget
<1>7. Others + MaxStep < MaxWait
  BY DEF WaitsSuffice
<1>8. Budget \in Nat /\ MaxStep \in Nat /\ MaxWait \in Nat
  BY BudgetCounts, ClaimAssumption DEF WaitsSuffice
<1> HIDE DEF Others
<1> QED BY <1>6, <1>7, <1>8

(* Only an attempt that ends changes which attempts have failed.            *)
LEMMA FailedStays ==
  ASSUME NEW r \in Replays, pc[r] # "done", pc'[r] # "done",
         \A s \in Replays : s # r => pc'[s] = pc[s] /\ log'[s] = log[s]
  PROVE  Failed' = Failed
BY DEF Failed

LEMMA SameFailed ==
  ASSUME Failed' = Failed PROVE Budget' = Budget
BY DEF Budget

(* Whoever holds the claim is in time, and nobody else is in the step.      *)
LEMMA OwnerIsAlone ==
  ASSUME TypeOK, HolderInTime, FaultlessInv, owner # None, ~WinnerOutput
  PROVE  /\ pc[owner] \in Owning /\ owns[owner] /\ age <= MaxStep
         /\ \A r \in Replays : pc[r] \in Owning => r = owner
<1>1. pc[owner] \in Owning /\ owner \in Replays
  BY DEF TypeOK, FaultlessInv, ClaimTells, WinnerOutput
<1>2. owns[owner] /\ \A r \in Replays : pc[r] \in Owning => r = owner
  BY <1>1, ClaimAssumption DEF FaultlessInv, Admitted
<1> QED BY <1>1, <1>2 DEF HolderInTime, Holding, FaultlessInv

LEMMA AcquireFaultlessly ==
  ASSUME TypeOK, HolderInTime, FaultlessInv, Faultless, WaitsSuffice,
         NEW r \in Replays, Arrive(r) \/ Acquire(r)
  PROVE  FaultlessInv'
<1> USE ClaimAssumption
    DEF TypeOK, FaultlessInv, LogsTell, Admitted, ClaimTells, WaitsInBudget, Unwaited,
        Faultless, Can, WinnerOutput, PCs, Owning, claim, mine, clock, Go
<1>1. Failed' = Failed /\ Budget' = Budget
  <2>1. Failed' = Failed
    <3>1. /\ pc[r] # "done" /\ pc'[r] # "done" /\ log' = log
          /\ \A s \in Replays : s # r => pc'[s] = pc[s]
      BY ZenonT(60) DEF Arrive, Acquire, ClaimWins, Remember, ClaimHeld, ClaimErrors,
             PollFinds, PollErrors, PollEnds
    <3> QED BY <3>1, FailedStays
  <2> QED BY <2>1, SameFailed
<1>2. Budget \in Nat /\ (Failed # {} => Budget >= 1)
  BY BudgetCounts DEF WaitsSuffice
<1>3. r \notin Failed /\ \A s \in Replays : Failed = Replays \ {s} => s = r
  BY DEF Failed, Arrive, Acquire, ClaimWins, Remember, ClaimHeld, ClaimErrors,
         PollFinds, PollErrors, PollEnds
<1>4. CASE Arrive(r)
  BY <1>1, <1>2, <1>4 DEF Arrive
<1>5. CASE ClaimWins(r)
  <2>1. owner = None
    BY <1>5 DEF ClaimWins, Free
  <2>2. \A s \in Replays : pc[s] \notin Owning
    BY <1>3, <1>5, <2>1 DEF ClaimWins
  <2> QED BY <1>1, <1>2, <1>5, <2>1, <2>2 DEF ClaimWins, Take
<1>6. CASE Remember(r)
  BY <1>1, <1>6 DEF Remember
<1>7. CASE ClaimHeld(r)
  BY <1>1, <1>7 DEF ClaimHeld, Free
<1>8. CASE ClaimErrors(r) \/ PollErrors(r)
  BY <1>8 DEF ClaimErrors, PollErrors
<1>9. CASE PollFinds(r)
  BY <1>1, <1>9 DEF PollFinds
<1>10. CASE PollEnds(r)
  <2>1. pc[r] = "waiting" /\ polled[r] /\ ~WinnerOutput /\ ~owns[r]
    BY <1>10 DEF PollEnds
  <2>2. owner # None =>
          /\ age <= MaxStep /\ owner \in Replays /\ owner # r /\ owner \notin Failed
    BY <2>1, OwnerIsAlone DEF Failed
  <2>3. CASE waited[r] >= MaxWait
    <3>1. owner = None
      BY <1>3, <2>1, <2>2, <2>3, <1>2, BudgetSuffices
    <3>2. Budget >= MaxWait
      BY <2>1, <2>3, <3>1, <1>2
    <3>3. \A s \in Replays \ {r} : s \in Failed
      BY <1>3, <3>2, <1>2, BudgetSuffices
    <3>4. Failed = Replays \ {r}
      BY <1>3, <3>3 DEF Failed
    <3>5. pc' = [pc EXCEPT ![r] = "starting"]
      BY <1>10, <2>3 DEF PollEnds
    <3>6. \A s \in Replays \ {r} : pc[s] = "done"
      BY <3>3 DEF Failed
    <3> QED BY <1>1, <1>10, <2>1, <3>1, <3>4, <3>5, <3>6 DEF PollEnds
  <2>4. CASE ~(waited[r] >= MaxWait)
    BY <1>1, <1>2, <1>10, <2>1, <2>2, <2>4 DEF PollEnds, WaitsSuffice
  <2> QED BY <2>3, <2>4
<1> QED BY <1>4, <1>5, <1>6, <1>7, <1>8, <1>9, <1>10 DEF Acquire

LEMMA PerformFaultlessly ==
  ASSUME TypeOK, HolderInTime, FaultlessInv, Faultless, WaitsSuffice,
         NEW r \in Replays, Perform(r)
  PROVE  FaultlessInv'
<1> USE ClaimAssumption
    DEF TypeOK, FaultlessInv, LogsTell, Admitted, ClaimTells, WaitsInBudget, Unwaited,
        Faultless, Can, WinnerOutput, PCs, Owning, claim, mine, clock, Go, Logs
<1>2. Budget \in Nat
  BY BudgetCounts DEF WaitsSuffice
<1>3. pc[r] \in Owning /\ r \notin Failed /\ \A s \in Replays : Failed = Replays \ {s} => s = r
  BY DEF Failed, Perform, StartStep, StepSucceeds, StepFails, ReleaseKey, ReleaseRow
<1>4. \A s \in Replays : pc[s] \in Owning => s = r
  BY <1>3
<1>5. CASE StartStep(r)
  <2>1. Failed' = Failed
    BY <1>5 DEF StartStep, Failed
  <2> QED BY <1>5, <2>1, SameFailed DEF StartStep
<1>6. CASE StepSucceeds(r)
  <2>1. Failed' = Failed
    BY <1>6 DEF StepSucceeds, Failed
  <2>2. log' = [log EXCEPT ![r] = "success"] /\ pc' = [pc EXCEPT ![r] = "done"]
    BY <1>6 DEF StepSucceeds
  <2> QED BY <1>3, <1>4, <1>6, <2>1, <2>2 DEF StepSucceeds
<1>7. CASE StepFails(r)
  <2>1. log' = [log EXCEPT ![r] = "error"]
    BY <1>7 DEF StepFails
  <2>2. CASE owns[r]
    <3>1. pc' = [pc EXCEPT ![r] = "releasing"]
      BY <1>7, <2>2 DEF StepFails
    <3>2. Failed' = Failed
      BY <1>3, <3>1, <2>1, FailedStays
    <3> QED BY <1>3, <1>7, <2>1, <2>2, <3>1, <3>2, SameFailed DEF StepFails
  <2>3. CASE ~owns[r]
    <3>1. pc' = [pc EXCEPT ![r] = "done"]
      BY <1>7, <2>3 DEF StepFails
    <3>2. owner = None /\ Failed = Replays \ {r}
      BY <1>3, <2>3
    <3>3. \A s \in Replays : pc'[s] = "done" /\ log'[s] = "error"
      BY <2>1, <3>1, <3>2 DEF Failed
    <3>4. Failed' = Replays
      BY <3>3 DEF Failed
    <3> QED BY <1>7, <2>1, <3>1, <3>2, <3>3, <3>4 DEF StepFails
  <2> QED BY <2>2, <2>3
<1>8. CASE ReleaseKey(r)
  <2>1. Failed' = Failed
    BY <1>8 DEF ReleaseKey, Failed
  <2> QED BY <1>8, <2>1, SameFailed DEF ReleaseKey
<1>9. CASE ReleaseRow(r)
  <2>1. /\ pc[r] = "deleting" /\ log[r] = "error" /\ owner = r
        /\ owner' = None /\ age' = 0 /\ pc' = [pc EXCEPT ![r] = "done"] /\ log' = log
    BY <1>9 DEF ReleaseRow, Drop
  <2>2. Failed' = Failed \cup {r}
    BY <2>1 DEF Failed
  <2>3. Budget' = Budget + MaxStep + 1
    BY <1>3, <2>2, BudgetGrows DEF WaitsSuffice
  <2>4. age <= MaxStep /\ ~WinnerOutput
    BY <1>3, <2>1 DEF HolderInTime, Holding
  <2>5. WaitsInBudget'
    BY <1>2, <1>9, <2>1, <2>2, <2>3, <2>4 DEF ReleaseRow
  <2> QED BY <1>4, <1>9, <2>1, <2>2, <2>4, <2>5 DEF ReleaseRow
<1> QED BY <1>5, <1>6, <1>7, <1>8, <1>9 DEF Perform

LEMMA TickFaultlessly ==
  ASSUME TypeOK, HolderInTime, FaultlessInv, Faultless, WaitsSuffice, Tick
  PROVE  FaultlessInv'
<1> USE ClaimAssumption
    DEF TypeOK, FaultlessInv, LogsTell, Admitted, ClaimTells, WaitsInBudget, Unwaited,
        Faultless, Can, WinnerOutput, PCs, Owning, claim, mine, clock
<1>1. Failed' = Failed /\ Budget' = Budget /\ Budget \in Nat
  BY SameFailed, BudgetCounts DEF Tick, Failed, WaitsSuffice
<1>2. owner # None /\ ~WinnerOutput => age' = age + 1
  <2> SUFFICES ASSUME owner # None, ~WinnerOutput PROVE age' = age + 1
    OBVIOUS
  <2>1. pc[owner] = "running"
    BY OwnerIsAlone DEF Tick
  <2> QED BY <2>1 DEF Tick, WaitsSuffice
<1>3. UNCHANGED <<owner, cached, pc, owns, log, final>>
  BY DEF Tick
<1>4. ASSUME ~WinnerOutput, NEW r \in Replays, pc[r] = "waiting"
      PROVE  waited'[r] <= Budget + (IF owner # None THEN age' ELSE 0)
  <2>1. ~polled[r] /\ waited'[r] \in {waited[r], waited[r] + 1}
    BY <1>4 DEF Tick
  <2>2. CASE owner # None
    BY <1>1, <1>2, <1>4, <2>1, <2>2
  <2>3. CASE owner = None
    BY <1>1, <1>4, <2>1, <2>3
  <2> QED BY <2>2, <2>3
<1>5. \A r \in Replays : pc[r] # "claiming" /\ polled'[r] = (pc[r] = "waiting")
  BY DEF Tick
<1>6. WaitsInBudget'
  BY <1>1, <1>3, <1>4, <1>5
<1> QED BY <1>1, <1>3, <1>5, <1>6 DEF Tick

LEMMA FaultlessIsKept ==
  ASSUME WaitsSuffice PROVE Spec => [](Faultless => FaultlessInv)
<1>1. Init => FaultlessInv
  BY DEF Init, FaultlessInv, LogsTell, Admitted, ClaimTells, WaitsInBudget, Unwaited, Owning
<1>2. TypeOK /\ HolderInTime /\ FaultlessInv /\ Faultless /\ [Next]_vars => FaultlessInv'
  <2> SUFFICES ASSUME TypeOK, HolderInTime, FaultlessInv, Faultless, [Next]_vars
               PROVE  FaultlessInv'
    OBVIOUS
  <2>1. ASSUME NEW r \in Replays, Die(r) PROVE FALSE
    BY <2>1 DEF Die, Can, Faultless
  <2>2. ASSUME CloseLogs \/ CheckRunning \/ Clear PROVE FALSE
    BY <2>2 DEF CloseLogs, CheckRunning, Clear, Can, Faultless, FaultlessInv
  <2>3. CASE Forget \/ UNCHANGED vars
    <3>1. Failed' = Failed
      BY <2>3 DEF Forget, vars, mine, Failed
    <3>2. WinnerOutput' = WinnerOutput
      BY <2>3 DEF Forget, vars, WinnerOutput
    <3> QED BY <2>3, <3>1, <3>2, SameFailed
            DEF Forget, vars, claim, mine, clock, FaultlessInv, LogsTell, Admitted, ClaimTells,
                WaitsInBudget, Unwaited
  <2> QED BY <2>1, <2>2, <2>3, AcquireFaultlessly, PerformFaultlessly, TickFaultlessly DEF Next
<1>3. [Next]_vars => (Faultless' <=> Faultless)
  BY DEF Next, Arrive, Acquire, ClaimWins, Remember, ClaimHeld, ClaimErrors, PollFinds,
         PollErrors, PollEnds, Perform, StartStep, StepSucceeds, StepFails, ReleaseKey,
         ReleaseRow, Die, CloseLogs, CheckRunning, Clear, Forget, Tick, vars, Faultless
<1>4. MaxStep <= Stale
  BY DEF WaitsSuffice
<1> QED BY <1>1, <1>2, <1>3, <1>4, ClaimTypeCorrect, HoldersAreInTime, PTL DEF Spec

(* Two replays that arrive before either has finished do not both run the   *)
(* step (step-handler.ts), where nothing goes wrong and all attempts at the *)
(* step but the last fit into one wait, however many replays there are.     *)
THEOREM OneReplayRuns ==
  ASSUME WaitsSuffice PROVE Spec => []AtMostOneRuns
<1>1. (Faultless => FaultlessInv) => AtMostOneRuns
  <2> SUFFICES ASSUME Faultless, FaultlessInv PROVE Cardinality(Running) <= 1
    BY DEF AtMostOneRuns, Faultless
  <2>1. \A r, s \in Running : r = s
    BY ClaimAssumption DEF Running, FaultlessInv, Admitted, Owning, Failed
  <2>2. CASE Running = {}
    BY <2>2, FS_EmptySet
  <2>3. CASE Running # {}
    <3>1. PICK r \in Running : Running = {r}
      BY <2>1, <2>3
    <3>2. Cardinality({r}) = 1
      BY FS_Singleton
    <3> QED BY <3>1, <3>2
  <2> QED BY <2>2, <2>3
<1> QED BY <1>1, FaultlessIsKept, PTL

(* And once one of them has recorded its output, none runs the step again:  *)
(* each reuses that output.                                                 *)
THEOREM OutputIsReused ==
  ASSUME WaitsSuffice PROVE Spec => FinishedNotRerun
<1>1. TypeOK /\ (Faultless => FaultlessInv) /\ [Next]_vars =>
        [env.faults = {} /\ WinnerOutput => Running' \subseteq Running]_vars
  <2> SUFFICES ASSUME TypeOK, Faultless, FaultlessInv, [Next]_vars, WinnerOutput
               PROVE  Running' \subseteq Running
    BY DEF Faultless
  <2> USE DEF TypeOK, PCs, Owning, Running, Go, mine
  <2>1. PICK w \in Replays : log[w] = "success"
    BY DEF WinnerOutput
  <2>2. pc[w] = "done"
    BY <2>1 DEF FaultlessInv, LogsTell
  <2>3. \A r \in Replays : pc[r] # "starting"
    <3>1. ASSUME NEW r \in Replays, pc[r] = "starting" PROVE FALSE
      <4>1. owner = w \/ Failed = Replays \ {w}
        BY <2>1 DEF FaultlessInv, ClaimTells
      <4>2. r # w /\ r \notin Failed /\ w \notin Failed
        BY <2>1, <2>2, <3>1 DEF Failed
      <4>3. owner = r \/ (owner = None /\ Failed = Replays \ {r})
        BY <3>1 DEF FaultlessInv, Admitted
      <4> QED BY <4>1, <4>2, <4>3
    <3> QED BY <3>1
  <2>4. ASSUME NEW r \in Replays, Arrive(r) \/ Acquire(r) \/ Perform(r) \/ Die(r)
        PROVE  Running' \subseteq Running
    BY <2>3, <2>4 DEF Arrive, Acquire, ClaimWins, Remember, ClaimHeld, ClaimErrors, PollFinds,
                      PollErrors, PollEnds, Perform, StartStep, StepSucceeds, StepFails,
                      ReleaseKey, ReleaseRow, Die
  <2>5. CASE CloseLogs \/ CheckRunning \/ Clear \/ Forget \/ Tick \/ UNCHANGED vars
    BY <2>5 DEF CloseLogs, CheckRunning, Clear, Forget, Tick, vars
  <2> QED BY <2>4, <2>5 DEF Next
<1> QED BY <1>1, FaultlessIsKept, ClaimTypeCorrect, PTL DEF Spec, FinishedNotRerun
=============================================================================
