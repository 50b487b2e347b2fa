-------------------------- MODULE DispatcherProofs --------------------------
(***************************************************************************)
(* Theorems about the dispatchers: of LeaderElection, for every set of      *)
(* replicas, every Lease duration, deadline and period, and every bound on  *)
(* a call and on clocks; then of ScheduleDispatch, for every number of      *)
(* replicas, passes and occurrences, every bound and spacing of the ticks.  *)
(***************************************************************************)
EXTENDS LeaderElection, ScheduleDispatch, WellFoundedInduction, TLAPS

(* LeaderElection *)

(* Nobody oversleeps, and a call is out for no longer than it may. *)
Waits ==
  \A r \in Replicas :
    /\ life[r] = "up" /\ at[r] = "asleep" => waited[r] <= RetryPeriod
    /\ at[r] # "asleep" => waited[r] <= cond.slow

(* Only a write that is out can land, and a process that is gone leads nothing. *)
Orderly ==
  \A r \in Replicas :
    (fresh[r] => at[r] = "writing") /\ (life[r] = "down" => ~leading[r])

(* How long ago a leader's last renewal is, by where its loop is. *)
RenewsInTime ==
  \A r \in Replicas : life[r] = "up" /\ leading[r] =>
    /\ at[r] = "asleep"  => last[r] <= RenewDeadline + waited[r]
    /\ at[r] = "reading" => last[r] <= RenewDeadline + RetryPeriod + waited[r]
    /\ at[r] = "writing" => last[r] <= RenewDeadline + RetryPeriod + cond.slow + waited[r]

(* Leads, or is about to hear that its write landed. *)
Holds(r) == life[r] = "up" /\ (leading[r] \/ at[r] = "landed")

(* The Lease is a holder's own, its stamp is not older than a call before    *)
(* lastRenewMs, and no write of anybody else can land.                      *)
Alone ==
  \A r \in Replicas : Holds(r) =>
    /\ holder = r
    /\ \A s \in Replicas : fresh[s] => s = r
    /\ IF at[r] = "landed" THEN renewed <= waited[r] ELSE renewed <= last[r] + cond.slow

ElectionInv ==
  /\ ElectionTypeOK /\ Waits /\ Orderly /\ RenewsInTime
  /\ Timely => Alone

(* What a condition is made of. *)
LEMMA ConditionType ==
  ASSUME cond \in Conditions
  PROVE  /\ cond.slow \in Nat /\ cond.fails \in BOOLEAN
         /\ \A r \in Replicas : cond.ahead[r] \in 0 .. MaxAhead /\ cond.ahead[r] \in Int
<1>1. cond \in [slow : Nat, ahead : [Replicas -> 0 .. MaxAhead], fails : BOOLEAN]
  BY ElectionAssumption
<1>2. cond.slow \in Nat /\ cond.fails \in BOOLEAN /\ cond.ahead \in [Replicas -> 0 .. MaxAhead]
  BY <1>1
<1> QED BY <1>2, ElectionAssumption

(* Every variable keeps its type. *)
LEMMA TypeStep == ElectionTypeOK /\ [ElectionNext]_electionVars => ElectionTypeOK'
<1> SUFFICES ASSUME ElectionTypeOK, [ElectionNext]_electionVars PROVE ElectionTypeOK'
  OBVIOUS
<1> USE ElectionAssumption, ConditionType DEF ElectionTypeOK
<1>1. ASSUME NEW r \in Replicas, Boot(r) PROVE ElectionTypeOK'
  BY <1>1 DEF Boot, Become
<1>2. ASSUME NEW r \in Replicas, Wake(r) PROVE ElectionTypeOK'
  BY <1>2 DEF Wake, Become
<1>3. ASSUME NEW r \in Replicas, Attempt(r) PROVE ElectionTypeOK'
  <2>1. CASE ReadHeld(r)
    BY <2>1 DEF ReadHeld, Refused, Become
  <2>2. CASE ReadFree(r)
    BY <2>2 DEF ReadFree, Become
  <2>3. CASE WriteLands(r)
    BY <2>3 DEF WriteLands
  <2>4. CASE WriteAnswered(r)
    BY <2>4 DEF WriteAnswered, Become
  <2>5. CASE WriteConflicts(r)
    BY <2>5 DEF WriteConflicts, Refused, Become
  <2> QED BY <1>3, <2>1, <2>2, <2>3, <2>4, <2>5 DEF Attempt
<1>4. ASSUME NEW r \in Replicas, CallFails(r) PROVE ElectionTypeOK'
  BY <1>4 DEF CallFails, Refused, Become
<1>5. ASSUME NEW r \in Replicas, Halt(r) PROVE ElectionTypeOK'
  BY <1>5 DEF Halt
<1>6. ASSUME NEW r \in Replicas, ReleaseLease(r) PROVE ElectionTypeOK'
  BY <1>6 DEF ReleaseLease
<1>7. ASSUME NEW r \in Replicas, Exit(r) PROVE ElectionTypeOK'
  BY <1>7 DEF Exit
<1>8. ASSUME NEW r \in Replicas, WriteLost(r) PROVE ElectionTypeOK'
  BY <1>8 DEF WriteLost, Become
<1>9. CASE Elapse
  <2> USE <1>9 DEF Elapse
  <2>1. renewed' \in Nat
    BY DEF UpTo, OldestLease
  <2>2. waited' \in [Replicas -> Nat]
    OBVIOUS
  <2>3. last' \in [Replicas -> 0 .. LeaseDuration]
    BY DEF UpTo
  <2>4. vacant' \in Nat
    BY DEF UpTo, VacancyBound
  <2> QED BY <2>1, <2>2, <2>3, <2>4
<1>10. CASE UNCHANGED electionVars
  BY <1>10 DEF electionVars
<1> QED BY <1>1, <1>2, <1>3, <1>4, <1>5, <1>6, <1>7, <1>8, <1>9, <1>10 DEF ElectionNext

(* The waits stay in bound: Elapse asks for it. *)
LEMMA WaitsStep ==
  ElectionTypeOK /\ Waits /\ [ElectionNext]_electionVars => Waits'
<1> SUFFICES ASSUME ElectionTypeOK /\ Waits, [ElectionNext]_electionVars PROVE Waits'
  OBVIOUS
<1> USE ElectionAssumption, ConditionType DEF ElectionTypeOK, Waits, Runs
<1>1. ASSUME NEW r \in Replicas, Boot(r) PROVE Waits'
  BY <1>1 DEF Boot, Become
<1>2. ASSUME NEW r \in Replicas, Wake(r) PROVE Waits'
  BY <1>2 DEF Wake, Become
<1>3. ASSUME NEW r \in Replicas, Attempt(r) PROVE Waits'
  <2>1. CASE ReadHeld(r)
    BY <2>1 DEF ReadHeld, Refused, Become
  <2>2. CASE ReadFree(r)
    BY <2>2 DEF ReadFree, Become
  <2>3. CASE WriteLands(r)
    BY <2>3 DEF WriteLands
  <2>4. CASE WriteAnswered(r)
    BY <2>4 DEF WriteAnswered, Become
  <2>5. CASE WriteConflicts(r)
    BY <2>5 DEF WriteConflicts, Refused, Become
  <2> QED BY <1>3, <2>1, <2>2, <2>3, <2>4, <2>5 DEF Attempt
<1>4. ASSUME NEW r \in Replicas, CallFails(r) PROVE Waits'
  BY <1>4 DEF CallFails, Refused, Become
<1>5. ASSUME NEW r \in Replicas, Halt(r) PROVE Waits'
  BY <1>5 DEF Halt
<1>6. ASSUME NEW r \in Replicas, ReleaseLease(r) PROVE Waits'
  BY <1>6 DEF ReleaseLease
<1>7. ASSUME NEW r \in Replicas, Exit(r) PROVE Waits'
  BY <1>7 DEF Exit
<1>8. ASSUME NEW r \in Replicas, WriteLost(r) PROVE Waits'
  BY <1>8 DEF WriteLost, Become
<1>9. CASE Elapse
  BY <1>9 DEF Elapse
<1>10. CASE UNCHANGED electionVars
  BY <1>10 DEF electionVars
<1> QED BY <1>1, <1>2, <1>3, <1>4, <1>5, <1>6, <1>7, <1>8, <1>9, <1>10 DEF ElectionNext

(* A request that is out stays out until it is answered or lost. *)
LEMMA OrderlyStep ==
  ElectionTypeOK /\ Orderly /\ [ElectionNext]_electionVars => Orderly'
<1> SUFFICES ASSUME ElectionTypeOK /\ Orderly, [ElectionNext]_electionVars PROVE Orderly'
  OBVIOUS
<1> USE DEF ElectionTypeOK, Orderly, Runs
<1>1. ASSUME NEW r \in Replicas, Boot(r) PROVE Orderly'
  BY <1>1 DEF Boot, Become
<1>2. ASSUME NEW r \in Replicas, Wake(r) PROVE Orderly'
  BY <1>2 DEF Wake, Become
<1>3. ASSUME NEW r \in Replicas, Attempt(r) PROVE Orderly'
  <2>1. CASE ReadHeld(r)
    BY <2>1 DEF ReadHeld, Refused, Become
  <2>2. CASE ReadFree(r)
    BY <2>2 DEF ReadFree, Become
  <2>3. CASE WriteLands(r)
    BY <2>3 DEF WriteLands
  <2>4. CASE WriteAnswered(r)
    BY <2>4 DEF WriteAnswered, Become
  <2>5. CASE WriteConflicts(r)
    BY <2>5 DEF WriteConflicts, Refused, Become
  <2> QED BY <1>3, <2>1, <2>2, <2>3, <2>4, <2>5 DEF Attempt
<1>4. ASSUME NEW r \in Replicas, CallFails(r) PROVE Orderly'
  BY <1>4 DEF CallFails, Refused, Become
<1>5. ASSUME NEW r \in Replicas, Halt(r) PROVE Orderly'
  BY <1>5 DEF Halt
<1>6. ASSUME NEW r \in Replicas, ReleaseLease(r) PROVE Orderly'
  BY <1>6 DEF ReleaseLease
<1>7. ASSUME NEW r \in Replicas, Exit(r) PROVE Orderly'
  BY <1>7 DEF Exit
<1>8. ASSUME NEW r \in Replicas, WriteLost(r) PROVE Orderly'
  BY <1>8 DEF WriteLost, Become
<1>9. CASE Elapse
  BY <1>9 DEF Elapse
<1>10. CASE UNCHANGED electionVars
  BY <1>10 DEF electionVars
<1> QED BY <1>1, <1>2, <1>3, <1>4, <1>5, <1>6, <1>7, <1>8, <1>9, <1>10 DEF ElectionNext

(* After an attempt that failed a replica is asleep, and leads only if it    *)
(* did and its renewal is recent.                                           *)
LEMMA RefusedEffect ==
  ASSUME ElectionTypeOK, NEW r \in Replicas, Refused(r), NEW q \in Replicas
  PROVE  /\ leading'[q] => leading[q] /\ (q = r => last[q] <= RenewDeadline)
         /\ at'[q] = (IF q = r THEN "asleep" ELSE at[q])
         /\ waited'[q] = (IF q = r THEN 0 ELSE waited[q])
         /\ fresh'[q] => fresh[q] /\ q # r
<1>1. leading'[q] => leading[q] /\ (q = r => last[q] <= RenewDeadline)
  BY Zenon DEF Refused, ElectionTypeOK
<1>2. at'[q] = (IF q = r THEN "asleep" ELSE at[q]) /\ waited'[q] = (IF q = r THEN 0 ELSE waited[q])
  BY DEF Refused, Become, ElectionTypeOK
<1>3. fresh'[q] => fresh[q] /\ q # r
  BY DEF Refused, ElectionTypeOK
<1> QED BY <1>1, <1>2, <1>3

(* A renewal that comes too late ends the leadership. *)
LEMMA RenewsStep ==
  ElectionTypeOK /\ Waits /\ Orderly /\ RenewsInTime /\ [ElectionNext]_electionVars => RenewsInTime'
<1> SUFFICES ASSUME ElectionTypeOK /\ Waits /\ Orderly /\ RenewsInTime, [ElectionNext]_electionVars PROVE RenewsInTime'
  OBVIOUS
<1> USE ElectionAssumption, ConditionType DEF ElectionTypeOK, Waits, Orderly, RenewsInTime, Runs
<1>1. ASSUME NEW r \in Replicas, Boot(r) PROVE RenewsInTime'
  BY <1>1 DEF Boot, Become
<1>2. ASSUME NEW r \in Replicas, Wake(r) PROVE RenewsInTime'
  BY <1>2 DEF Wake, Become
<1>3. ASSUME NEW r \in Replicas, Attempt(r) PROVE RenewsInTime'
  <2>1. CASE ReadHeld(r)
    BY <2>1, RefusedEffect DEF ReadHeld
  <2>2. CASE ReadFree(r)
    BY <2>2 DEF ReadFree, Become
  <2>3. CASE WriteLands(r)
    BY <2>3 DEF WriteLands
  <2>4. CASE WriteAnswered(r)
    BY <2>4 DEF WriteAnswered, Become
  <2>5. CASE WriteConflicts(r)
    BY <2>5, RefusedEffect DEF WriteConflicts
  <2> QED BY <1>3, <2>1, <2>2, <2>3, <2>4, <2>5 DEF Attempt
<1>4. ASSUME NEW r \in Replicas, CallFails(r) PROVE RenewsInTime'
  BY <1>4, RefusedEffect DEF CallFails
<1>5. ASSUME NEW r \in Replicas, Halt(r) PROVE RenewsInTime'
  BY <1>5 DEF Halt
<1>6. ASSUME NEW r \in Replicas, ReleaseLease(r) PROVE RenewsInTime'
  BY <1>6 DEF ReleaseLease
<1>7. ASSUME NEW r \in Replicas, Exit(r) PROVE RenewsInTime'
  BY <1>7 DEF Exit
<1>8. ASSUME NEW r \in Replicas, WriteLost(r) PROVE RenewsInTime'
  BY <1>8 DEF WriteLost, Become
<1>9. CASE Elapse
  BY <1>9 DEF Elapse, UpTo
<1>10. CASE UNCHANGED electionVars
  BY <1>10 DEF electionVars
<1> QED BY <1>1, <1>2, <1>3, <1>4, <1>5, <1>6, <1>7, <1>8, <1>9, <1>10 DEF ElectionNext

(* Nobody may take the Lease of a holder: it does not look expired by any    *)
(* clock.                                                                   *)
LEMMA HolderNotExpired ==
  ASSUME ElectionTypeOK, Waits, RenewsInTime, Timely, Alone,
         NEW r \in Replicas, Holds(r), NEW s \in Replicas
  PROVE  MayTake(s) => s = r
<1> USE ElectionAssumption, ConditionType DEF ElectionTypeOK
<1>1. holder = r /\ r # Nobody
  BY DEF Alone
<1>2. RenewDeadline + RetryPeriod + 3 * cond.slow + cond.ahead[s] - cond.ahead[r] <= LeaseDuration
  BY DEF Timely
<1>3. renewed <= RenewDeadline + RetryPeriod + 3 * cond.slow
  <2>1. CASE at[r] = "landed"
    BY <2>1 DEF Alone, Waits
  <2>2. CASE at[r] # "landed"
    <3>1. life[r] = "up" /\ leading[r] /\ renewed <= last[r] + cond.slow
      BY <2>2 DEF Alone, Holds
    <3>2. at[r] \in {"asleep", "reading", "writing"}
      BY <2>2
    <3>3. last[r] <= RenewDeadline + RetryPeriod + 2 * cond.slow
      BY <3>1, <3>2 DEF RenewsInTime, Waits
    <3> QED BY <3>1, <3>3
  <2> QED BY <2>1, <2>2
<1>4. ~Expired(s)
  BY <1>1, <1>2, <1>3 DEF Expired
<1> QED BY <1>1, <1>4 DEF MayTake

LEMMA CondKept == [ElectionNext]_electionVars => cond' = cond
BY DEF ElectionNext, electionVars, Boot, Wake, Attempt, ReadHeld, ReadFree, WriteLands,
       WriteAnswered, WriteConflicts, CallFails, Halt, ReleaseLease, Exit, WriteLost, Elapse

(* Whoever holds the Lease goes on holding it alone. *)
LEMMA AloneStep == ElectionInv /\ Timely /\ [ElectionNext]_electionVars => Alone'
<1> SUFFICES ASSUME ElectionInv, Timely, [ElectionNext]_electionVars, NEW q \in Replicas, Holds(q)'
             PROVE  /\ holder' = q
                    /\ \A s \in Replicas : fresh'[s] => s = q
                    /\ IF at'[q] = "landed" THEN renewed' <= waited'[q]
                                            ELSE renewed' <= last'[q] + cond'.slow
  BY DEF Alone
<1> DEFINE Kept == /\ holder' = q
                   /\ \A s \in Replicas : fresh'[s] => s = q
                   /\ IF at'[q] = "landed" THEN renewed' <= waited'[q]
                                           ELSE renewed' <= last'[q] + cond'.slow
<1> USE ElectionAssumption, ConditionType DEF ElectionInv, ElectionTypeOK, Runs, Holds, Alone
<1>0. Alone /\ Orderly /\ Waits /\ RenewsInTime
  OBVIOUS
<1>1. ASSUME NEW r \in Replicas, Boot(r) PROVE Kept
  BY <1>1, <1>0 DEF Boot, Become, Orderly
<1>2. ASSUME NEW r \in Replicas, Wake(r) PROVE Kept
  BY <1>2, <1>0 DEF Wake, Become
<1>3. ASSUME NEW r \in Replicas, Attempt(r) PROVE Kept
  <2>1. CASE ReadHeld(r)
    BY <2>1, <1>0, RefusedEffect DEF ReadHeld, Waits
  <2>2. CASE ReadFree(r)
    <3>1. Holds(q)
      BY <2>2 DEF ReadFree, Become
    <3>2. MayTake(r) => r = q
      BY <3>1, HolderNotExpired
    <3> QED BY <2>2, <3>1, <3>2 DEF ReadFree, Become
  <2>3. CASE WriteLands(r)
    BY <2>3, <1>0 DEF WriteLands
  <2>4. CASE WriteAnswered(r)
    BY <2>4, <1>0 DEF WriteAnswered, Become, Waits
  <2>5. CASE WriteConflicts(r)
    BY <2>5, <1>0, RefusedEffect DEF WriteConflicts, Waits
  <2> QED BY <1>3, <2>1, <2>2, <2>3, <2>4, <2>5 DEF Attempt
<1>4. ASSUME NEW r \in Replicas, CallFails(r) PROVE Kept
  BY <1>4, <1>0, RefusedEffect DEF CallFails, Waits
<1>5. ASSUME NEW r \in Replicas, Halt(r) PROVE Kept
  BY <1>5, <1>0 DEF Halt
<1>6. ASSUME NEW r \in Replicas, ReleaseLease(r) PROVE Kept
  BY <1>6, <1>0 DEF ReleaseLease
<1>7. ASSUME NEW r \in Replicas, Exit(r) PROVE Kept
  BY <1>7, <1>0 DEF Exit
<1>8. ASSUME NEW r \in Replicas, WriteLost(r) PROVE Kept
  BY <1>8, <1>0 DEF WriteLost, Become
<1>9. CASE Elapse
  <2> USE <1>9 DEF Elapse
  <2>1. Holds(q) /\ holder = q /\ q # Nobody
    BY <1>0
  <2>2. renewed' <= renewed + 1 /\ cond' = cond /\ at' = at
    BY <2>1 DEF UpTo, OldestLease
  <2>3. CASE at[q] = "landed"
    BY <2>1, <2>2, <2>3, <1>0
  <2>4. CASE at[q] # "landed"
    <3>1. leading[q] /\ life[q] = "up" /\ renewed <= last[q] + cond.slow
      BY <2>1, <2>4, <1>0
    <3>2. last[q] + 1 <= RenewDeadline + RetryPeriod + 2 * cond.slow
      <4>1. at[q] \in {"asleep", "reading", "writing"}
        BY <2>4
      <4>2. IF at[q] = "asleep" THEN waited[q] < RetryPeriod ELSE waited[q] < cond.slow
        BY <3>1
      <4> QED BY <3>1, <4>1, <4>2, <1>0 DEF RenewsInTime
    <3>3. RenewDeadline + RetryPeriod + 3 * cond.slow <= LeaseDuration
      BY DEF Timely
    <3>4. last[q] \in Nat /\ last[q] + 1 <= LeaseDuration
      BY <3>2, <3>3
    <3>5. last'[q] = UpTo(last[q] + 1, LeaseDuration)
      BY <3>1
    <3>6. last'[q] = last[q] + 1
      BY <3>4, <3>5 DEF UpTo
    <3> QED BY <2>1, <2>2, <2>4, <3>1, <3>6
  <2> QED BY <2>3, <2>4
<1>10. CASE UNCHANGED electionVars
  BY <1>10, <1>0 DEF electionVars
<1> QED BY <1>1, <1>2, <1>3, <1>4, <1>5, <1>6, <1>7, <1>8, <1>9, <1>10 DEF ElectionNext

LEMMA InvInductive == ElectionInv /\ [ElectionNext]_electionVars => ElectionInv'
<1> SUFFICES ASSUME ElectionInv, [ElectionNext]_electionVars PROVE ElectionInv'
  OBVIOUS
<1>1. ElectionTypeOK' /\ Waits' /\ Orderly' /\ RenewsInTime'
  BY TypeStep, WaitsStep, OrderlyStep, RenewsStep DEF ElectionInv
<1>2. Timely' => Timely
  BY CondKept DEF Timely
<1>3. Timely' => Alone'
  BY <1>2, AloneStep
<1> QED BY <1>1, <1>3 DEF ElectionInv

LEMMA InvInitially == ElectionInit => ElectionInv
BY ElectionAssumption DEF ElectionInit, ElectionInv, ElectionTypeOK, Waits, Orderly,
                          RenewsInTime, Alone, Holds

(* Every variable keeps its type. *)
THEOREM ElectionTypes == ElectionSpec => []ElectionTypeOK
<1>1. ElectionInit => ElectionTypeOK
  BY InvInitially DEF ElectionInv
<1> QED BY <1>1, TypeStep, PTL DEF ElectionSpec

(* A standby does not lead before the old leader has stopped, if three       *)
(* calls, a sleep and the difference of two clocks fit between the renew     *)
(* deadline and the Lease's duration: for every number of replicas, and     *)
(* whatever calls fail, processes die or are stopped, and requests arrive    *)
(* late (leader-election.ts:16-20).                                         *)
THEOREM OneLeaderAtATime == ElectionSpec => []OneLeader
<1>1. ElectionInv => OneLeader
  BY DEF ElectionInv, OneLeader, Alone, Holds
<1> QED BY <1>1, InvInitially, InvInductive, PTL DEF ElectionSpec

-----------------------------------------------------------------------------
(* HandoverBounded, by where every replica's loop is.                        *)

Leads == \E r \in Replicas : leading[r]

(* Its write has landed, and it is there to hear so. *)
Landed(r) == Runs(r) /\ at[r] = "landed"

(* How long there may have been no leader when r is where it is: the sleep   *)
(* that it is in, or comes from, began before the Lease ran out.  A write    *)
(* that cannot land any more lost to one of a process that is gone, which    *)
(* was sent before that process went.                                       *)
Underway(r) ==
  /\ life[r] = "up" =>
       /\ at[r] = "asleep"  => vacant <= OldestLease + waited[r]
       /\ at[r] = "reading" => vacant <= OldestLease + RetryPeriod + waited[r]
  /\ life[r] \in {"releasing", "halting"} /\ at[r] = "reading" => vacant <= waited[r]
  /\ at[r] = "writing" =>
       /\ fresh[r]  => vacant <= OldestLease + RetryPeriod + cond.slow + waited[r]
       /\ ~fresh[r] => vacant <= cond.slow + waited[r]
       /\ life[r] = "down" => vacant <= waited[r]

(* The Lease was last renewed before the vacancy began, or has run out. *)
LeaseIsStale == holder # Nobody => vacant <= renewed \/ renewed >= OldestLease

LandedInTime(r) ==
  Landed(r) /\ vacant <= OldestLease + RetryPeriod + cond.slow + waited[r]

Handover ==
  /\ \A r \in Replicas : leading[r] /\ vacant > 0 => last[r] = 0
  /\ Leads => vacant <= VacancyBound
  /\ ~Leads /\ (\E r \in Replicas : Landed(r)) => \E r \in Replicas : LandedInTime(r)
  /\ ~Leads /\ (\A r \in Replicas : ~Landed(r)) =>
       (\A r \in Replicas : Underway(r)) /\ LeaseIsStale

(* Calls are answered, and two of them fit into the duration of the Lease. *)
Prompt == ~cond.fails /\ 2 * cond.slow <= OldestLease

HandoverInv == ElectionTypeOK /\ Waits /\ Orderly /\ (Prompt => Handover)

LEMMA BoundTypes ==
  ASSUME cond \in Conditions
  PROVE  OldestLease \in Nat /\ VacancyBound \in Nat
         /\ VacancyBound = OldestLease + RetryPeriod + 2 * cond.slow
BY ConditionType, ElectionAssumption DEF OldestLease, VacancyBound

(* A process that starts or stops begins the count anew. *)
LEMMA CountBegins ==
  ASSUME ElectionTypeOK, ElectionTypeOK', cond' = cond, vacant' = 0
  PROVE  Handover'
<1> USE ConditionType, BoundTypes, ElectionAssumption DEF ElectionTypeOK
<1>1. Leads' => vacant' <= VacancyBound'
  BY DEF VacancyBound
<1>2. ASSUME NEW r \in Replicas, Landed(r)' PROVE LandedInTime(r)'
  BY <1>2 DEF LandedInTime
<1>3. ASSUME NEW r \in Replicas PROVE Underway(r)'
  BY DEF Underway
<1>4. LeaseIsStale'
  BY DEF LeaseIsStale
<1> QED BY <1>1, <1>2, <1>3, <1>4 DEF Handover

(* An attempt that did not win leaves the others as they are; it ends in a   *)
(* sleep, before the Lease has run out or while somebody leads or will.      *)
LEMMA RefusedHandover ==
  ASSUME ElectionTypeOK, Orderly, Handover, NEW r \in Replicas, Refused(r), at[r] # "landed",
         life' = life, vacant' = vacant, holder' = holder, renewed' = renewed,
         last' = last, cond' = cond,
         life[r] = "up" /\ ~Leads /\ (\A q \in Replicas : ~Landed(q)) => vacant <= OldestLease
  PROVE  Handover'
<1> USE ConditionType, BoundTypes, ElectionAssumption DEF ElectionTypeOK
<1>1. \A q \in Replicas :
        /\ leading'[q] => leading[q] /\ (q = r => last[q] <= RenewDeadline)
        /\ at'[q] = (IF q = r THEN "asleep" ELSE at[q])
        /\ waited'[q] = (IF q = r THEN 0 ELSE waited[q])
        /\ fresh'[q] => fresh[q] /\ q # r
  BY RefusedEffect
<1>2. leading[r] /\ ~leading'[r] => ~(last[r] <= RenewDeadline)
  BY Zenon DEF Refused, ElectionTypeOK
<1>3. \A q \in Replicas : q # r => leading'[q] = leading[q] /\ fresh'[q] = fresh[q]
  BY DEF Refused
<1>4. CASE vacant = 0
  <2>1. ElectionTypeOK'
    BY <1>1 DEF Refused, Become
  <2> QED BY <1>4, <2>1, CountBegins
<1>5. CASE vacant > 0
  <2>1. leading[r] => last[r] <= RenewDeadline
    BY <1>5 DEF Handover
  <2>2. leading'[r] <=> leading[r]
    BY <1>1, <1>2, <2>1, Zenon
  <2>3. Leads' = Leads
    BY <1>3, <2>2 DEF Leads
  <2>4. \A q \in Replicas : Landed(q)' = Landed(q)
    BY <1>1 DEF Landed, Runs
  <2>5. ASSUME NEW q \in Replicas, Landed(q) PROVE LandedInTime(q)' = LandedInTime(q)
    BY <1>1, <2>5 DEF LandedInTime, Landed, Runs
  <2>6. ASSUME NEW q \in Replicas, ~Leads, \A s \in Replicas : ~Landed(s) PROVE Underway(q)'
    BY <1>1, <1>3, <2>6 DEF Handover, Underway
  <2>7. LeaseIsStale' = LeaseIsStale
    BY DEF LeaseIsStale
  <2>8. \A q \in Replicas : leading'[q] /\ vacant' > 0 => last'[q] = 0
    BY <1>1 DEF Handover
  <2>9. Leads' => vacant' <= VacancyBound'
    BY <2>3 DEF Handover, VacancyBound
  <2>10. ~Leads' /\ (\E q \in Replicas : Landed(q)') => \E q \in Replicas : LandedInTime(q)'
    <3> SUFFICES ASSUME ~Leads, \E q \in Replicas : Landed(q) PROVE \E q \in Replicas : LandedInTime(q)'
      BY <2>3, <2>4
    <3>1. PICK q \in Replicas : LandedInTime(q)
      BY DEF Handover
    <3> QED BY <3>1, <2>5 DEF LandedInTime
  <2> QED BY <2>3, <2>4, <2>6, <2>7, <2>8, <2>9, <2>10 DEF Handover
<1> QED BY <1>4, <1>5

(* A request that lands is heard of by its sender, or was sent by a process  *)
(* that went before the vacancy began.                                      *)
LEMMA LandsHandover ==
  ASSUME ElectionTypeOK, Waits, Handover, NEW r \in Replicas, WriteLands(r)
  PROVE  Handover'
<1> USE ConditionType, BoundTypes, ElectionAssumption DEF ElectionTypeOK, WriteLands
<1>1. Leads' = Leads
  BY DEF Leads
<1>2. \A q \in Replicas : q # r => Landed(q)' = Landed(q) /\ (LandedInTime(q) => LandedInTime(q)')
  BY DEF Landed, LandedInTime, Runs
<1>3. ~Landed(r)
  BY DEF Landed
<1>4. CASE Runs(r)
  <2>1. Landed(r)'
    BY <1>4 DEF Landed, Runs
  <2>2. ASSUME ~Leads PROVE \E q \in Replicas : LandedInTime(q)'
    <3>1. CASE \E q \in Replicas : Landed(q)
      <4>1. PICK q \in Replicas : LandedInTime(q)
        BY <2>2, <3>1 DEF Handover
      <4> QED BY <4>1, <1>2, <1>3 DEF LandedInTime
    <3>2. CASE \A q \in Replicas : ~Landed(q)
      <4>1. vacant <= OldestLease + RetryPeriod + cond.slow + waited[r]
        BY <2>2, <3>2 DEF Handover, Underway
      <4> QED BY <2>1, <4>1 DEF LandedInTime
    <3> QED BY <3>1, <3>2
  <2> QED BY <1>1, <2>1, <2>2 DEF Handover, VacancyBound
<1>5. CASE ~Runs(r)
  <2>1. \A q \in Replicas : Landed(q)' = Landed(q) /\ LandedInTime(q)' = LandedInTime(q)
    BY <1>5 DEF Landed, LandedInTime, Runs
  <2>2. ASSUME ~Leads, \A q \in Replicas : ~Landed(q) PROVE vacant <= waited[r]
    BY <1>5, <2>2 DEF Handover, Underway, Runs
  <2>3. ASSUME ~Leads, \A s \in Replicas : ~Landed(s), NEW q \in Replicas PROVE Underway(q)'
    <3>1. vacant <= cond.slow + waited[q]
      BY <2>2, <2>3 DEF Waits
    <3> QED BY <1>5, <2>3, <3>1 DEF Handover, Underway, Runs
  <2>4. ASSUME ~Leads, \A s \in Replicas : ~Landed(s) PROVE LeaseIsStale'
    BY <2>2, <2>4 DEF LeaseIsStale
  <2> QED BY <1>1, <2>1, <2>3, <2>4 DEF Handover, VacancyBound
<1> QED BY <1>4, <1>5

(* As time passes every wait grows with the vacancy. *)
LEMMA ElapseHandover ==
  ASSUME ElectionTypeOK, ElectionTypeOK', Handover, Elapse
  PROVE  Handover'
<1> USE ConditionType, BoundTypes, ElectionAssumption DEF ElectionTypeOK
<1>1. CASE Leads
  <2>1. vacant' = 0 /\ cond' = cond
    BY <1>1 DEF Elapse, Leads
  <2> QED BY <2>1, CountBegins
<1>2. CASE ~Leads
  <2>1. vacant' <= vacant + 1 /\ cond' = cond /\ leading' = leading /\ at' = at /\ life' = life
        /\ fresh' = fresh /\ holder' = holder
    BY <1>2 DEF Elapse, Leads, UpTo
  <2>2. \A q \in Replicas : life[q] = "up" \/ at[q] # "asleep" => waited'[q] = waited[q] + 1
    BY DEF Elapse
  <2>3. ~Leads' /\ \A q \in Replicas : Landed(q)' = Landed(q)
    BY <1>2, <2>1 DEF Leads, Landed, Runs
  <2>4. ASSUME NEW q \in Replicas, LandedInTime(q) PROVE LandedInTime(q)'
    BY <2>1, <2>2, <2>4 DEF LandedInTime, Landed, Runs
  <2>5. ASSUME NEW q \in Replicas, Underway(q) PROVE Underway(q)'
    BY <2>1, <2>2, <2>5 DEF Underway
  <2>6. LeaseIsStale => LeaseIsStale'
    BY <2>1 DEF Elapse, LeaseIsStale, UpTo
  <2>7. \A q \in Replicas : ~leading'[q]
    BY <1>2, <2>1 DEF Leads
  <2> QED BY <1>2, <2>3, <2>4, <2>5, <2>6, <2>7 DEF Handover
<1> QED BY <1>1, <1>2

LEMMA HandoverStep ==
  ElectionTypeOK /\ Waits /\ Orderly /\ Handover /\ Prompt /\ [ElectionNext]_electionVars => Handover'
<1> SUFFICES ASSUME ElectionTypeOK, Waits, Orderly, Handover, Prompt, [ElectionNext]_electionVars
             PROVE  Handover'
  OBVIOUS
<1>0. ElectionTypeOK' /\ cond' = cond
  BY TypeStep, CondKept
<1> USE ConditionType, BoundTypes, ElectionAssumption DEF ElectionTypeOK
<1>1. ASSUME NEW r \in Replicas, Boot(r) \/ Halt(r) \/ ReleaseLease(r) \/ Exit(r) PROVE Handover'
  <2>1. vacant' = 0
    BY <1>1 DEF Boot, Halt, ReleaseLease, Exit
  <2> QED BY <1>0, <2>1, CountBegins
<1>2. ASSUME NEW r \in Replicas, Wake(r) \/ ReadFree(r) \/ WriteLost(r) PROVE Handover'
  <2>1. /\ Leads' = Leads /\ LeaseIsStale' = LeaseIsStale /\ VacancyBound' = VacancyBound
        /\ vacant' = vacant /\ leading' = leading /\ last' = last
    BY <1>2 DEF Wake, ReadFree, WriteLost, Leads, LeaseIsStale, VacancyBound
  <2>2. \A q \in Replicas : Landed(q)' = Landed(q) /\ LandedInTime(q)' = LandedInTime(q)
    <3>1. CASE Wake(r)
      BY <3>1 DEF Wake, Become, Landed, LandedInTime, Runs
    <3>2. CASE ReadFree(r)
      BY <3>2 DEF ReadFree, Become, Landed, LandedInTime, Runs
    <3>3. CASE WriteLost(r)
      BY <3>3 DEF WriteLost, Become, Landed, LandedInTime, Runs
    <3> QED BY <1>2, <3>1, <3>2, <3>3
  <2>3. ASSUME NEW q \in Replicas, Underway(q) PROVE Underway(q)'
    <3>1. CASE Wake(r)
      BY <2>3, <3>1 DEF Wake, Become, Underway, Waits
    <3>2. CASE ReadFree(r)
      BY <2>3, <3>2 DEF ReadFree, Become, Underway, Waits, Runs
    <3>3. CASE WriteLost(r)
      BY <2>3, <3>3 DEF WriteLost, Become, Underway
    <3> QED BY <1>2, <3>1, <3>2, <3>3
  <2> QED BY <2>1, <2>2, <2>3 DEF Handover
<1>3. ASSUME NEW r \in Replicas, ReadHeld(r) PROVE Handover'
  <2>1. holder # Nobody /\ renewed < OldestLease
    <3>1. holder \in Replicas \ {r} /\ ~Expired(r)
      BY <1>3 DEF ReadHeld, MayTake
    <3> QED BY <3>1 DEF Expired, OldestLease
  <2>2. ~Leads /\ (\A q \in Replicas : ~Landed(q)) => vacant <= OldestLease
    BY <2>1 DEF Handover, LeaseIsStale
  <2> QED BY <1>3, <2>2, RefusedHandover DEF ReadHeld
<1>4. ASSUME NEW r \in Replicas, WriteConflicts(r) PROVE Handover'
  <2>1. ~Leads /\ (\A q \in Replicas : ~Landed(q)) => vacant <= OldestLease
    BY <1>4 DEF WriteConflicts, Handover, Underway, Waits, Prompt
  <2> QED BY <1>4, <2>1, RefusedHandover DEF WriteConflicts
<1>5. ASSUME NEW r \in Replicas, WriteAnswered(r) PROVE Handover'
  <2>1. Leads'
    BY <1>5 DEF WriteAnswered, Leads
  <2>2. vacant <= VacancyBound
    BY <1>5 DEF WriteAnswered, Handover, LandedInTime, Landed, Waits
  <2>3. \A q \in Replicas : leading'[q] /\ vacant' > 0 => last'[q] = 0
    BY <1>5 DEF WriteAnswered, Handover
  <2> QED BY <1>5, <2>1, <2>2, <2>3 DEF WriteAnswered, Handover, VacancyBound
<1>6. ASSUME NEW r \in Replicas, WriteLands(r) PROVE Handover'
  BY <1>6, LandsHandover
<1>7. ASSUME NEW r \in Replicas, CallFails(r) PROVE Handover'
  BY <1>7 DEF CallFails, Prompt
<1>8. CASE Elapse
  BY <1>0, <1>8, ElapseHandover
<1>9. CASE UNCHANGED electionVars
  BY <1>9 DEF electionVars, Handover, Leads, Landed, LandedInTime, Underway, LeaseIsStale, Runs, VacancyBound
<1> QED BY <1>1, <1>2, <1>3, <1>4, <1>5, <1>6, <1>7, <1>8, <1>9 DEF ElectionNext, Attempt

(* If nobody leads, either a write has landed or every replica that is up is *)
(* at most a sleep and two calls past the end of the Lease.                 *)
LEMMA HandoverInBound ==
  ElectionTypeOK /\ Waits /\ Handover /\ Prompt => HandoverBounded
<1> SUFFICES ASSUME ElectionTypeOK, Waits, Handover, Prompt, NEW r \in Replicas, life[r] = "up"
             PROVE  vacant <= VacancyBound
  BY DEF HandoverBounded
<1> USE ConditionType, BoundTypes, ElectionAssumption DEF ElectionTypeOK
<1>1. CASE Leads
  BY <1>1 DEF Handover
<1>2. CASE ~Leads /\ \E q \in Replicas : Landed(q)
  BY <1>2 DEF Handover, LandedInTime, Landed, Waits
<1>3. CASE ~Leads /\ \A q \in Replicas : ~Landed(q)
  <2>1. Underway(r) /\ at[r] # "landed"
    BY <1>3 DEF Handover, Landed, Runs
  <2>2. at[r] \in {"asleep", "reading", "writing"}
    BY <2>1
  <2> QED BY <2>1, <2>2 DEF Underway, Waits, Prompt
<1> QED BY <1>1, <1>2, <1>3

(* If no call fails, a replica that stays up leads, or another one does,     *)
(* within the duration of the Lease, a sleep and two calls, if two calls fit *)
(* into that duration: for any number of replicas, and whoever died with the *)
(* Lease or with a write on its way                                         *)
(* (schedule-dispatcher/index.ts:79-83 makes up for this time).              *)
THEOREM VacancyEnds == ElectionSpec => []HandoverBounded
<1>1. ElectionInit => HandoverInv
  <2>1. ElectionInit => Handover
    <3> SUFFICES ASSUME ElectionInit PROVE Handover
      OBVIOUS
    <3> USE ConditionType, BoundTypes, ElectionAssumption DEF ElectionInit
    <3> QED BY DEF Handover, Leads, Landed, Underway, LeaseIsStale, Runs
  <2> QED BY <2>1, InvInitially DEF HandoverInv, ElectionInv
<1>2. HandoverInv /\ [ElectionNext]_electionVars => HandoverInv'
  <2> SUFFICES ASSUME HandoverInv, [ElectionNext]_electionVars PROVE HandoverInv'
    OBVIOUS
  <2>1. ElectionTypeOK' /\ Waits' /\ Orderly'
    BY TypeStep, WaitsStep, OrderlyStep DEF HandoverInv
  <2>2. Prompt' => Prompt
    BY CondKept DEF Prompt, OldestLease
  <2> QED BY <2>1, <2>2, HandoverStep DEF HandoverInv
<1>3. HandoverInv => HandoverBounded
  BY HandoverInBound DEF HandoverInv, HandoverBounded, Prompt
<1> QED BY <1>1, <1>2, <1>3, PTL DEF ElectionSpec

-----------------------------------------------------------------------------
(* ScheduleDispatch *)

Places == {"none", "timer", "fetch", "create", "send", "mark"}

PassRecord ==
  [pc : Places, due : {0} \cup {NextTick(t) : t \in Int}, from : Int, to : Int,
   todo : SUBSET Due, tries : Nat, id : BOOLEAN]

(* The types the arguments need. *)
Typed ==
  /\ pass \in [Passes -> PassRecord]
  /\ row \in [Due -> {"none", "phantom", "CS-0001", "taken"}]
  /\ tracked \in [Due -> Nat] /\ bare \in [Due -> Nat] /\ runs \in [Due -> Nat]
  /\ now \in Int /\ lastTick \in [Pods -> Int]

-----------------------------------------------------------------------------
(* What a step does to the pass it is a step of, and to no other. *)
OthersKeep(p) == \A q \in Passes : q # p => pass'[q] = pass[q]

(* The pass is done with its occurrence, if it had one, and is at the next   *)
(* or at none.                                                              *)
Advances(p) ==
  /\ pass' \in [Passes -> PassRecord] /\ OthersKeep(p)
  /\ ~pass'[p].id /\ pass'[p].pc \in {"none", "timer", "fetch", "create"}
  /\ IF pass'[p].pc = "create" THEN pass'[p].todo # {} /\ pass'[p].tries = 1
                               ELSE pass'[p].todo = {}

(* The pass is still at its occurrence. *)
Stays(p, place) ==
  /\ pass' \in [Passes -> PassRecord] /\ OthersKeep(p)
  /\ pass'[p].pc = place /\ pass'[p].todo = pass[p].todo

LEMMA SetEffect ==
  ASSUME Typed, NEW p \in Passes, NEW x \in PassRecord, Set(p, x)
  PROVE  pass' \in [Passes -> PassRecord] /\ pass'[p] = x /\ OthersKeep(p)
BY DEF Typed, Set, OthersKeep

LEMMA EndPassEffect == ASSUME Typed, NEW p \in Passes, EndPass(p)
  PROVE  Advances(p) /\ pass'[p].todo = {}
<1>1. Idle \in PassRecord /\ ~Idle.id /\ Idle.pc = "none" /\ Idle.todo = {}
  BY DEF Idle, PassRecord, Places
<1>2. CASE on[p[1]]
  <2> DEFINE x == [Idle EXCEPT !.pc = "timer", !.due = NextTick(now)]
  <2>1. NextTick(now) \in {0} \cup {NextTick(t) : t \in Int}
    BY DEF Typed
  <2>2. x \in PassRecord /\ ~x.id /\ x.pc = "timer" /\ x.todo = {}
    BY <1>1, <2>1 DEF PassRecord, Places
  <2>3. Set(p, x)
    BY <1>2 DEF EndPass
  <2> QED BY <2>2, <2>3, SetEffect DEF Advances
<1>3. CASE ~on[p[1]]
  <2>1. Set(p, Idle)
    BY <1>3 DEF EndPass
  <2> QED BY <1>1, <2>1, SetEffect DEF Advances
<1> QED BY <1>2, <1>3

LEMMA ProceedEffect ==
  ASSUME Typed, NEW p \in Passes, NEW todo \in SUBSET Due, Proceed(p, todo)
  PROVE  Advances(p) /\ pass'[p].todo = todo
<1>1. CASE todo = {}
  BY <1>1, EndPassEffect DEF Proceed
<1>2. CASE todo # {}
  <2> DEFINE x == [pass[p] EXCEPT !.pc = "create", !.todo = todo, !.tries = 1, !.id = FALSE]
  <2>1. pass[p] \in PassRecord
    BY DEF Typed
  <2>2. x \in PassRecord /\ ~x.id /\ x.pc = "create" /\ x.todo = todo /\ x.tries = 1
    BY <2>1 DEF PassRecord, Places
  <2>3. Set(p, x)
    BY <1>2 DEF Proceed
  <2> QED BY <1>2, <2>2, <2>3, SetEffect DEF Advances
<1> QED BY <1>1, <1>2

LEMMA GoOnEffect == ASSUME Typed, NEW p \in Passes, GoOn(p)
  PROVE  Advances(p) /\ pass'[p].todo = pass[p].todo \ {Occurrence(p)}
<1>1. pass[p].todo \ {Occurrence(p)} \in SUBSET Due
  BY DEF Typed, PassRecord
<1> QED BY <1>1, ProceedEffect DEF GoOn

LEMMA FetchingEffect ==
  ASSUME Typed, NEW p \in Passes, NEW from \in Int, Set(p, Fetching(from))
  PROVE  /\ Advances(p) /\ pass'[p].todo = {} /\ pass'[p].pc = "fetch"
         /\ pass'[p].from = from /\ pass'[p].to = now
<1>1. Idle \in PassRecord /\ ~Idle.id /\ Idle.todo = {}
  BY DEF Idle, PassRecord, Places
<1>2. /\ Fetching(from) \in PassRecord /\ ~Fetching(from).id /\ Fetching(from).pc = "fetch"
      /\ Fetching(from).todo = {} /\ Fetching(from).from = from /\ Fetching(from).to = now
  BY <1>1 DEF Fetching, Typed, PassRecord, Places
<1> QED BY <1>2, SetEffect DEF Advances

(* Where each step of a pass leads. *)
LEMMA WorkEffect ==
  ASSUME Typed, NEW p \in Passes
  PROVE  /\ Fire(p) \/ Fetch(p) \/ FetchFails(p) \/ PostRefused(p) \/ Send(p)
              \/ Mark(p) \/ MarkFails(p) => Advances(p)
         /\ PostAnswered(p) => IF SkipsHit(p) THEN Advances(p)
                                              ELSE Stays(p, "send") /\ pass'[p].id
         /\ PostFails(p) => \/ Stays(p, "create") /\ pass'[p].tries = pass[p].tries + 1
                                 /\ pass'[p].id = pass[p].id
                            \/ Stays(p, "send") /\ pass'[p].id = pass[p].id
         /\ PostRejected(p) => Stays(p, "send") /\ pass'[p].id = pass[p].id
         /\ SendFails(p) => IF pass[p].id THEN Stays(p, "mark") /\ pass'[p].id ELSE Advances(p)
<1>0. pass[p] \in PassRecord /\ p[1] \in Pods
  BY DEF Typed, Passes
<1>1. ASSUME Fire(p) PROVE Advances(p)
  <2>1. LookBack(lastTick[p[1]]) \in Int
    BY <1>0, DispatchAssumption DEF Typed, LookBack
  <2>2. CASE on[p[1]]
    BY <1>1, <2>1, <2>2, FetchingEffect DEF Fire
  <2>3. CASE ~on[p[1]]
    <3>1. Idle \in PassRecord /\ ~Idle.id /\ Idle.pc = "none" /\ Idle.todo = {}
      BY DEF Idle, PassRecord, Places
    <3>2. Set(p, Idle)
      BY <1>1, <2>3 DEF Fire
    <3> QED BY <3>1, <3>2, SetEffect DEF Advances
  <2> QED BY <2>2, <2>3
<1>2. ASSUME Fetch(p) PROVE Advances(p)
  <2>1. InWindow(pass[p].from, pass[p].to) \in SUBSET Due
    BY DEF InWindow
  <2> QED BY <1>2, <2>1, ProceedEffect DEF Fetch
<1>3. FetchFails(p) => Advances(p)
  BY EndPassEffect DEF FetchFails
<1>4. PostRefused(p) \/ Send(p) => Advances(p)
  BY GoOnEffect DEF PostRefused, Send
<1>5. Mark(p) \/ MarkFails(p) => Advances(p)
  BY EndPassEffect DEF Mark, MarkFails, Abandon
<1>6. ASSUME PostAnswered(p)
      PROVE  IF SkipsHit(p) THEN Advances(p) ELSE Stays(p, "send") /\ pass'[p].id
  <2>1. CASE SkipsHit(p)
    BY <1>6, <2>1, GoOnEffect DEF PostAnswered, Skip
  <2>2. CASE ~SkipsHit(p)
    <3> DEFINE x == [pass[p] EXCEPT !.pc = "send", !.id = TRUE]
    <3>1. Set(p, x)
      BY <1>6, <2>2 DEF PostAnswered
    <3>2. x \in PassRecord /\ x.id /\ x.pc = "send" /\ x.todo = pass[p].todo
      BY <1>0 DEF PassRecord, Places
    <3> QED BY <2>2, <3>1, <3>2, SetEffect DEF Stays
  <2> QED BY <2>1, <2>2
<1>7. SendBare(p) => Stays(p, "send") /\ pass'[p].id = pass[p].id
  <2> DEFINE x == [pass[p] EXCEPT !.pc = "send"]
  <2>1. x \in PassRecord /\ x.id = pass[p].id /\ x.pc = "send" /\ x.todo = pass[p].todo
    BY <1>0 DEF PassRecord, Places
  <2> QED BY <2>1, SetEffect DEF SendBare, Stays
<1>8. ASSUME PostFails(p)
      PROVE  \/ Stays(p, "create") /\ pass'[p].tries = pass[p].tries + 1 /\ pass'[p].id = pass[p].id
             \/ Stays(p, "send") /\ pass'[p].id = pass[p].id
  <2>1. CASE pass[p].tries < MaxAttempts
    <3> DEFINE x == [pass[p] EXCEPT !.tries = @ + 1]
    <3>1. Set(p, x) /\ pass[p].pc = "create"
      BY <1>8, <2>1 DEF PostFails
    <3>2. /\ x \in PassRecord /\ x.id = pass[p].id /\ x.pc = "create" /\ x.todo = pass[p].todo
          /\ x.tries = pass[p].tries + 1
      BY <1>0, <3>1 DEF PassRecord, Places
    <3> QED BY <3>1, <3>2, SetEffect DEF Stays
  <2>2. CASE ~(pass[p].tries < MaxAttempts)
    BY <1>7, <1>8, <2>2 DEF PostFails
  <2> QED BY <2>1, <2>2
<1>9. PostRejected(p) => Stays(p, "send") /\ pass'[p].id = pass[p].id
  BY <1>7 DEF PostRejected
<1>10. ASSUME SendFails(p)
       PROVE  IF pass[p].id THEN Stays(p, "mark") /\ pass'[p].id ELSE Advances(p)
  <2>1. CASE pass[p].id
    <3> DEFINE x == [pass[p] EXCEPT !.pc = "mark"]
    <3>1. Set(p, x)
      BY <1>10, <2>1 DEF SendFails
    <3>2. x \in PassRecord /\ x.id = pass[p].id /\ x.pc = "mark" /\ x.todo = pass[p].todo
      BY <1>0 DEF PassRecord, Places
    <3> QED BY <2>1, <3>1, <3>2, SetEffect DEF Stays
  <2>2. CASE ~pass[p].id
    BY <1>10, <2>2, EndPassEffect DEF SendFails, Abandon
  <2> QED BY <2>1, <2>2
<1> QED BY <1>1, <1>2, <1>3, <1>4, <1>5, <1>6, <1>8, <1>9, <1>10

LEMMA TickerEffect ==
  ASSUME Typed, NEW r \in Pods
  PROVE  /\ StartTicker(r) => \E p \in Passes : pass[p].pc = "none" /\ Advances(p)
         /\ StopTicker(r) \/ Crash(r) => pass' \in [Passes -> PassRecord]
         /\ StopTicker(r) => \A p \in Passes :
              pass'[p] = pass[p] \/ (pass[p].pc = "timer" /\ pass'[p] = Idle)
         /\ Crash(r) => \A p \in Passes : pass'[p] = (IF p[1] = r THEN Idle ELSE pass[p])
<1>1. ASSUME StartTicker(r) PROVE \E p \in Passes : pass[p].pc = "none" /\ Advances(p)
  <2>1. PICK c \in Chains : pass[<<r, c>>].pc = "none" /\ Set(<<r, c>>, Fetching(LookBack(Never)))
    BY <1>1 DEF StartTicker
  <2>2. LookBack(Never) \in Int /\ <<r, c>> \in Passes
    BY DispatchAssumption DEF LookBack, Typed, Passes
  <2> QED BY <2>1, <2>2, FetchingEffect
<1>2. Idle \in PassRecord
  BY DEF Idle, PassRecord, Places
<1>3. StopTicker(r) \/ Crash(r) => pass' \in [Passes -> PassRecord]
  BY <1>2 DEF StopTicker, Crash, Typed
<1>4. StopTicker(r) => \A p \in Passes :
        pass'[p] = pass[p] \/ (pass[p].pc = "timer" /\ pass'[p] = Idle)
  BY DEF StopTicker
<1>5. Crash(r) => \A p \in Passes : pass'[p] = (IF p[1] = r THEN Idle ELSE pass[p])
  BY DEF Crash
<1> QED BY <1>1, <1>3, <1>4, <1>5

-----------------------------------------------------------------------------
(* A pass has a row's id from the answer that named it until it has sent or  *)
(* marked it, and an occurrence in hand while it is at one.                 *)
Disciplined ==
  \A p \in Passes :
    /\ pass[p].id => pass[p].pc \in {"send", "mark"}
    /\ pass[p].pc = "mark" => pass[p].id
    /\ pass[p].pc \in {"create", "send", "mark"} => pass[p].todo # {}
    /\ pass[p].pc = "create" => pass[p].tries > 0

(* Without an id goes only what is recorded as untraced. *)
BareIsUntraced ==
  /\ \A p \in Passes : pass[p].pc = "send" /\ ~pass[p].id => Occurrence(p) \in untraced
  /\ \A o \in Due : bare[o] > 0 => o \in untraced

(* A row that may still be claimed has started nothing. *)
ClaimableIsNew ==
  \A o \in Due : o \notin untraced =>
    /\ runs[o] <= 1
    /\ row[o] \in {"none", "phantom"} => runs[o] = 0

DispatchInv == Typed /\ Disciplined /\ BareIsUntraced /\ ClaimableIsNew /\ NoneStranded

(* Every variable keeps its type. *)
LEMMA TypedStep == Typed /\ [Next]_vars => Typed'
<1> SUFFICES ASSUME Typed, [Next]_vars PROVE Typed'
  OBVIOUS
<1> USE DispatchAssumption DEF Typed, Advances, Stays, Never
<1>1. ASSUME NEW r \in Pods, StartTicker(r) PROVE Typed'
  <2>1. pass' \in [Passes -> PassRecord]
    BY <1>1, TickerEffect
  <2>2. lastTick' \in [Pods -> Int]
    BY <1>1 DEF StartTicker
  <2> QED BY <1>1, <2>1, <2>2 DEF StartTicker, queue
<1>2. ASSUME NEW r \in Pods, StopTicker(r) PROVE Typed'
  BY <1>2, TickerEffect DEF StopTicker, vars, bounds, ticker, queue, term, ghosts
<1>3. ASSUME NEW r \in Pods, Crash(r) PROVE Typed'
  BY <1>3, TickerEffect DEF Crash, vars, bounds, ticker, queue, term, ghosts
<1>4. ASSUME NEW p \in Passes, Work(p) PROVE Typed'
  <2>1. CASE Fire(p)
    BY <2>1, WorkEffect DEF Fire, vars, bounds, ticker, queue, term, ghosts
  <2>2. CASE Fetch(p)
    BY <2>2, WorkEffect DEF Fetch, vars, bounds, ticker, queue, term, ghosts
  <2>3. CASE FetchFails(p)
    BY <2>3, WorkEffect DEF FetchFails, vars, bounds, ticker, queue, term, ghosts
  <2>4. CASE PostAnswered(p)
    <3>1. pass' \in [Passes -> PassRecord]
      BY <2>4, WorkEffect
    <3>2. row' \in [Due -> {"none", "phantom", "CS-0001", "taken"}]
      BY <2>4 DEF PostAnswered, Insert, SetRow
    <3> QED BY <2>4, <3>1, <3>2 DEF PostAnswered, queue
  <2>5. CASE PostFails(p)
    <3>1. pass' \in [Passes -> PassRecord]
      BY <2>5, WorkEffect
    <3>2. row' \in [Due -> {"none", "phantom", "CS-0001", "taken"}]
      BY <2>5 DEF PostFails, Insert, SetRow
    <3> QED BY <2>5, <3>1, <3>2 DEF PostFails, queue, ticker
  <2>6. CASE PostRejected(p)
    BY <2>6, WorkEffect DEF PostRejected, SendBare, vars, bounds, ticker, queue, term, ghosts
  <2>7. CASE PostRefused(p)
    BY <2>7, WorkEffect DEF PostRefused, vars, bounds, ticker, queue, term, ghosts
  <2>8. CASE Send(p)
    <3>1. pass' \in [Passes -> PassRecord]
      BY <2>8, WorkEffect
    <3>2. tracked' \in [Due -> Nat] /\ bare' \in [Due -> Nat]
      BY <2>8 DEF Send, Enqueue
    <3> QED BY <2>8, <3>1, <3>2 DEF Send
  <2>9. CASE SendFails(p)
    <3>1. pass' \in [Passes -> PassRecord]
      BY <2>9, WorkEffect
    <3>2. tracked' \in [Due -> Nat] /\ bare' \in [Due -> Nat]
      BY <2>9 DEF SendFails, Enqueue, queue
    <3> QED BY <2>9, <3>1, <3>2 DEF SendFails
  <2>10. CASE Mark(p)
    BY <2>10, WorkEffect DEF Mark, SetRow, vars, bounds, ticker, queue, term, ghosts
  <2>11. CASE MarkFails(p)
    BY <2>11, WorkEffect DEF MarkFails, vars, bounds, ticker, queue, term, ghosts
  <2> QED BY <1>4, <2>1, <2>2, <2>3, <2>4, <2>5, <2>6, <2>7, <2>8, <2>9, <2>10, <2>11 DEF Work
<1>5. ASSUME NEW o \in Due, Deliver(o) PROVE Typed'
  BY <1>5 DEF Deliver, SetRow, Claimable, vars, bounds, ticker, queue, term, ghosts
<1>6. ASSUME NEW o \in Due, DeliverBare(o) PROVE Typed'
  BY <1>6 DEF DeliverBare, vars, bounds, ticker, queue, term, ghosts
<1>7. CASE TimePasses
  BY <1>7 DEF TimePasses, vars, bounds, ticker, queue, term, ghosts
<1>8. CASE UNCHANGED vars
  BY <1>8 DEF vars, bounds, ticker, queue, term, ghosts
<1> QED BY <1>1, <1>2, <1>3, <1>4, <1>5, <1>6, <1>7, <1>8 DEF Next

(* A pass keeps its discipline. *)
LEMMA DisciplinedStep == Typed /\ Disciplined /\ [Next]_vars => Disciplined'
<1> SUFFICES ASSUME Typed /\ Disciplined, [Next]_vars PROVE Disciplined'
  OBVIOUS
<1> USE DEF Disciplined, Advances, Stays, OthersKeep, Idle
<1>1. ASSUME NEW r \in Pods, StartTicker(r) PROVE Disciplined'
  <2>1. PICK p \in Passes : Advances(p)
    BY <1>1, TickerEffect
  <2> QED BY <2>1
<1>2. ASSUME NEW r \in Pods, StopTicker(r) PROVE Disciplined'
  BY <1>2, TickerEffect DEF StopTicker, vars, bounds, ticker, queue, term, ghosts
<1>3. ASSUME NEW r \in Pods, Crash(r) PROVE Disciplined'
  BY <1>3, TickerEffect DEF Crash, vars, bounds, ticker, queue, term, ghosts
<1>4. ASSUME NEW p \in Passes, Work(p) PROVE Disciplined'
  <2>1. CASE Fire(p)
    <3>1. Advances(p)
      BY <2>1, WorkEffect
    <3> QED BY <3>1
  <2>2. CASE Fetch(p)
    <3>1. Advances(p)
      BY <2>2, WorkEffect
    <3> QED BY <3>1
  <2>3. CASE FetchFails(p)
    <3>1. Advances(p)
      BY <2>3, WorkEffect
    <3> QED BY <3>1
  <2>4. CASE PostAnswered(p)
    <3>1. Advances(p) \/ (Stays(p, "send") /\ pass'[p].id)
      BY <2>4, WorkEffect
    <3>2. pass[p].pc = "create"
      BY <2>4 DEF PostAnswered
    <3> QED BY <3>1, <3>2
  <2>5. CASE PostFails(p)
    <3>1. pass[p].pc = "create" /\ pass[p].tries \in Nat
      BY <2>5 DEF PostFails, Typed, PassRecord
    <3> QED BY <2>5, <3>1, WorkEffect
  <2>6. CASE PostRejected(p)
    BY <2>6, WorkEffect DEF PostRejected, SendBare, vars, bounds, ticker, queue, term, ghosts
  <2>7. CASE PostRefused(p)
    <3>1. Advances(p)
      BY <2>7, WorkEffect
    <3> QED BY <3>1
  <2>8. CASE Send(p)
    <3>1. Advances(p)
      BY <2>8, WorkEffect
    <3> QED BY <3>1
  <2>9. CASE SendFails(p)
    BY <2>9, WorkEffect DEF SendFails, Enqueue, vars, bounds, ticker, queue, term, ghosts
  <2>10. CASE Mark(p)
    <3>1. Advances(p)
      BY <2>10, WorkEffect
    <3> QED BY <3>1
  <2>11. CASE MarkFails(p)
    <3>1. Advances(p)
      BY <2>11, WorkEffect
    <3> QED BY <3>1
  <2> QED BY <1>4, <2>1, <2>2, <2>3, <2>4, <2>5, <2>6, <2>7, <2>8, <2>9, <2>10, <2>11 DEF Work
<1>5. ASSUME NEW o \in Due, Deliver(o) PROVE Disciplined'
  BY <1>5 DEF Deliver, SetRow, Claimable, vars, bounds, ticker, queue, term, ghosts
<1>6. ASSUME NEW o \in Due, DeliverBare(o) PROVE Disciplined'
  BY <1>6 DEF DeliverBare, vars, bounds, ticker, queue, term, ghosts
<1>7. CASE TimePasses
  BY <1>7 DEF TimePasses, vars, bounds, ticker, queue, term, ghosts
<1>8. CASE UNCHANGED vars
  BY <1>8 DEF vars, bounds, ticker, queue, term, ghosts
<1> QED BY <1>1, <1>2, <1>3, <1>4, <1>5, <1>6, <1>7, <1>8 DEF Next

(* The id is missing only where an answer never came. *)
LEMMA BareStep == Typed /\ Disciplined /\ BareIsUntraced /\ [Next]_vars => BareIsUntraced'
<1> SUFFICES ASSUME Typed /\ Disciplined /\ BareIsUntraced, [Next]_vars PROVE BareIsUntraced'
  OBVIOUS
<1> USE DEF BareIsUntraced, Occurrence, Disciplined, Advances, Stays, OthersKeep, Idle
<1>1. ASSUME NEW r \in Pods, StartTicker(r) PROVE BareIsUntraced'
  BY <1>1, TickerEffect DEF StartTicker, vars, bounds, ticker, queue, term, ghosts
<1>2. ASSUME NEW r \in Pods, StopTicker(r) PROVE BareIsUntraced'
  BY <1>2, TickerEffect DEF StopTicker, vars, bounds, ticker, queue, term, ghosts
<1>3. ASSUME NEW r \in Pods, Crash(r) PROVE BareIsUntraced'
  BY <1>3, TickerEffect DEF Crash, vars, bounds, ticker, queue, term, ghosts
<1>4. ASSUME NEW p \in Passes, Work(p) PROVE BareIsUntraced'
  <2>1. CASE Fire(p)
    BY <2>1, WorkEffect DEF Fire, vars, bounds, ticker, queue, term, ghosts
  <2>2. CASE Fetch(p)
    BY <2>2, WorkEffect DEF Fetch, vars, bounds, ticker, queue, term, ghosts
  <2>3. CASE FetchFails(p)
    BY <2>3, WorkEffect DEF FetchFails, vars, bounds, ticker, queue, term, ghosts
  <2>4. CASE PostAnswered(p)
    <3>1. Advances(p) \/ (Stays(p, "send") /\ pass'[p].id)
      BY <2>4, WorkEffect
    <3>2. bare' = bare /\ untraced' = untraced
      BY <2>4 DEF PostAnswered, queue, ghosts
    <3> QED BY <3>1, <3>2
  <2>5. CASE PostFails(p)
    <3>1. OthersKeep(p) /\ pass'[p].todo = pass[p].todo /\ pass'[p].id = pass[p].id
      BY <2>5, WorkEffect
    <3>2. \/ untraced' = untraced /\ pass'[p].pc = "create"
          \/ untraced' = untraced \cup {Occurrence(p)}
      <4>1. CASE pass[p].tries < MaxAttempts
        <5>1. pass'[p].pc = "create"
          BY <2>5, <4>1 DEF PostFails, Set, Typed, PassRecord
        <5> QED BY <2>5, <4>1, <5>1 DEF PostFails
      <4>2. CASE ~(pass[p].tries < MaxAttempts)
        BY <2>5, <4>2 DEF PostFails, SendBare
      <4> QED BY <4>1, <4>2
    <3>3. bare' = bare
      BY <2>5 DEF PostFails, queue
    <3> QED BY <3>1, <3>2, <3>3
  <2>6. CASE PostRejected(p)
    BY <2>6, WorkEffect DEF PostRejected, SendBare, vars, bounds, ticker, queue, term, ghosts
  <2>7. CASE PostRefused(p)
    BY <2>7, WorkEffect DEF PostRefused, vars, bounds, ticker, queue, term, ghosts
  <2>8. CASE Send(p)
    <3>1. Advances(p) /\ untraced' = untraced
      BY <2>8, WorkEffect DEF Send, ghosts
    <3>2. \A q \in Passes : pass'[q].pc = "send" /\ ~pass'[q].id => Occurrence(q)' \in untraced'
      BY <3>1
    <3>3. \A o \in Due : bare'[o] > 0 => o \in untraced'
      BY <2>8, <3>1 DEF Send, Enqueue, Typed
    <3> QED BY <3>2, <3>3
  <2>9. CASE SendFails(p)
    <3>1. untraced' = untraced
      BY <2>9 DEF SendFails
    <3>2. \A q \in Passes : pass'[q].pc = "send" /\ ~pass'[q].id => Occurrence(q)' \in untraced'
      BY <2>9, <3>1, WorkEffect
    <3>3. \A o \in Due : bare'[o] > 0 => o \in untraced'
      BY <2>9, <3>1 DEF SendFails, Enqueue, queue, Typed
    <3> QED BY <3>2, <3>3
  <2>10. CASE Mark(p)
    BY <2>10, WorkEffect DEF Mark, SetRow, vars, bounds, ticker, queue, term, ghosts
  <2>11. CASE MarkFails(p)
    BY <2>11, WorkEffect DEF MarkFails, vars, bounds, ticker, queue, term, ghosts
  <2> QED BY <1>4, <2>1, <2>2, <2>3, <2>4, <2>5, <2>6, <2>7, <2>8, <2>9, <2>10, <2>11 DEF Work
<1>5. ASSUME NEW o \in Due, Deliver(o) PROVE BareIsUntraced'
  BY <1>5 DEF Deliver, SetRow, Claimable, vars, bounds, ticker, queue, term, ghosts
<1>6. ASSUME NEW o \in Due, DeliverBare(o) PROVE BareIsUntraced'
  BY <1>6 DEF DeliverBare, vars, bounds, ticker, queue, term, ghosts
<1>7. CASE TimePasses
  BY <1>7 DEF TimePasses, vars, bounds, ticker, queue, term, ghosts
<1>8. CASE UNCHANGED vars
  BY <1>8 DEF vars, bounds, ticker, queue, term, ghosts
<1> QED BY <1>1, <1>2, <1>3, <1>4, <1>5, <1>6, <1>7, <1>8 DEF Next

(* A claim ends what may be claimed. *)
LEMMA NewStep == Typed /\ BareIsUntraced /\ ClaimableIsNew /\ [Next]_vars => ClaimableIsNew'
<1> SUFFICES ASSUME Typed /\ BareIsUntraced /\ ClaimableIsNew, [Next]_vars PROVE ClaimableIsNew'
  OBVIOUS
<1> USE DEF Typed, BareIsUntraced, ClaimableIsNew
<1>1. ASSUME NEW r \in Pods, StartTicker(r) PROVE ClaimableIsNew'
  BY <1>1 DEF StartTicker, vars, bounds, ticker, queue, term, ghosts
<1>2. ASSUME NEW r \in Pods, StopTicker(r) PROVE ClaimableIsNew'
  BY <1>2 DEF StopTicker, vars, bounds, ticker, queue, term, ghosts
<1>3. ASSUME NEW r \in Pods, Crash(r) PROVE ClaimableIsNew'
  BY <1>3 DEF Crash, vars, bounds, ticker, queue, term, ghosts
<1>4. ASSUME NEW p \in Passes, Work(p) PROVE ClaimableIsNew'
  <2>1. CASE Fire(p)
    BY <2>1 DEF Fire, vars, bounds, ticker, queue, term, ghosts
  <2>2. CASE Fetch(p)
    BY <2>2 DEF Fetch, vars, bounds, ticker, queue, term, ghosts
  <2>3. CASE FetchFails(p)
    BY <2>3 DEF FetchFails, vars, bounds, ticker, queue, term, ghosts
  <2>4. CASE PostAnswered(p)
    BY <2>4 DEF PostAnswered, Insert, SetRow, vars, bounds, ticker, queue, term, ghosts
  <2>5. CASE PostFails(p)
    BY <2>5 DEF PostFails, Insert, SetRow, SendBare, vars, bounds, ticker, queue, term, ghosts
  <2>6. CASE PostRejected(p)
    BY <2>6 DEF PostRejected, SendBare, vars, bounds, ticker, queue, term, ghosts
  <2>7. CASE PostRefused(p)
    BY <2>7 DEF PostRefused, vars, bounds, ticker, queue, term, ghosts
  <2>8. CASE Send(p)
    BY <2>8 DEF Send, Enqueue, vars, bounds, ticker, queue, term, ghosts
  <2>9. CASE SendFails(p)
    BY <2>9 DEF SendFails, Enqueue, vars, bounds, ticker, queue, term, ghosts
  <2>10. CASE Mark(p)
    BY <2>10 DEF Mark, SetRow, vars, bounds, ticker, queue, term, ghosts
  <2>11. CASE MarkFails(p)
    BY <2>11 DEF MarkFails, vars, bounds, ticker, queue, term, ghosts
  <2> QED BY <1>4, <2>1, <2>2, <2>3, <2>4, <2>5, <2>6, <2>7, <2>8, <2>9, <2>10, <2>11 DEF Work
<1>5. ASSUME NEW o \in Due, Deliver(o) PROVE ClaimableIsNew'
  BY <1>5 DEF Deliver, SetRow, Claimable, vars, bounds, ticker, queue, term, ghosts
<1>6. ASSUME NEW o \in Due, DeliverBare(o) PROVE ClaimableIsNew'
  BY <1>6 DEF DeliverBare, vars, bounds, ticker, queue, term, ghosts
<1>7. CASE TimePasses
  BY <1>7 DEF TimePasses, vars, bounds, ticker, queue, term, ghosts
<1>8. CASE UNCHANGED vars
  BY <1>8 DEF vars, bounds, ticker, queue, term, ghosts
<1> QED BY <1>1, <1>2, <1>3, <1>4, <1>5, <1>6, <1>7, <1>8 DEF Next

(* A phantom row keeps its message, or its pass. *)
LEMMA StrandedStep == Typed /\ Disciplined /\ BareIsUntraced /\ NoneStranded /\ [Next]_vars => NoneStranded'
<1> SUFFICES ASSUME Typed /\ Disciplined /\ BareIsUntraced /\ NoneStranded, [Next]_vars PROVE NoneStranded'
  OBVIOUS
<1> USE DEF Typed, Disciplined, BareIsUntraced, NoneStranded, InHand, Occurrence, Advances, Stays, OthersKeep, Idle
<1>1. ASSUME NEW r \in Pods, StartTicker(r) PROVE NoneStranded'
  BY <1>1, TickerEffect, ZenonT(60) DEF StartTicker, vars, bounds, ticker, queue, term, ghosts
<1>2. ASSUME NEW r \in Pods, StopTicker(r) PROVE NoneStranded'
  BY <1>2, TickerEffect DEF StopTicker, vars, bounds, ticker, queue, term, ghosts
<1>3. ASSUME NEW r \in Pods, Crash(r) PROVE NoneStranded'
  BY <1>3, TickerEffect DEF Crash, vars, bounds, ticker, queue, term, ghosts
<1>4. ASSUME NEW p \in Passes, Work(p) PROVE NoneStranded'
  <2>1. CASE Fire(p)
    BY <2>1, WorkEffect DEF Fire, vars, bounds, ticker, queue, term, ghosts
  <2>2. CASE Fetch(p)
    BY <2>2, WorkEffect DEF Fetch, vars, bounds, ticker, queue, term, ghosts
  <2>3. CASE FetchFails(p)
    BY <2>3, WorkEffect DEF FetchFails, vars, bounds, ticker, queue, term, ghosts
  <2>4. CASE PostAnswered(p)
    <3> SUFFICES ASSUME NEW o \in Due, row'[o] = "phantom"
                 PROVE  tracked'[o] > 0 \/ InHand(o)' \/ o \in cut' \cup untraced'
      OBVIOUS
    <3>0. pass[p].pc = "create" /\ pass[p].todo # {} /\ ~pass[p].id /\ UNCHANGED <<tracked, cut, untraced>>
      BY <2>4 DEF PostAnswered, queue, ghosts
    <3>1. CASE SkipsHit(p)
      <4>1. row' = row
        BY <2>4, <3>1 DEF PostAnswered, SkipsHit, Insert
      <4>2. Advances(p) /\ pass[p].tries = 1
        BY <2>4, <3>1, WorkEffect DEF SkipsHit
      <4> QED BY <3>0, <4>1, <4>2
    <3>2. CASE ~SkipsHit(p)
      <4>1. Stays(p, "send") /\ pass'[p].id
        BY <2>4, <3>2, WorkEffect
      <4>2. CASE o = Occurrence(p)
        BY <3>0, <4>1, <4>2
      <4>3. CASE o # Occurrence(p)
        <5>1. row'[o] = row[o]
          BY <2>4, <4>3 DEF PostAnswered, Insert, SetRow
        <5> QED BY <3>0, <4>1, <4>3, <5>1
      <4> QED BY <4>2, <4>3
    <3> QED BY <3>1, <3>2
  <2>5. CASE PostFails(p)
    <3> SUFFICES ASSUME NEW o \in Due, row'[o] = "phantom"
                 PROVE  tracked'[o] > 0 \/ InHand(o)' \/ o \in cut' \cup untraced'
      OBVIOUS
    <3>0. pass[p].pc = "create" /\ pass[p].todo # {} /\ ~pass[p].id /\ UNCHANGED <<tracked, cut>>
      BY <2>5 DEF PostFails, queue
    <3>1. pass[p].tries \in Nat
      BY DEF PassRecord
    <3>2. OthersKeep(p) /\ pass'[p].todo = pass[p].todo /\ ~pass'[p].id /\ untraced \subseteq untraced'
      BY <2>5, <3>0, WorkEffect DEF PostFails, SendBare
    <3>3. Occurrence(p) \in untraced' \/ (pass'[p].pc = "create" /\ pass'[p].tries = pass[p].tries + 1)
      <4>1. CASE pass[p].tries < MaxAttempts
        <5>1. Set(p, [pass[p] EXCEPT !.tries = @ + 1])
          BY <2>5, <4>1 DEF PostFails
        <5> QED BY <3>0, <5>1 DEF Set, PassRecord
      <4>2. CASE ~(pass[p].tries < MaxAttempts)
        BY <2>5, <4>2 DEF PostFails, SendBare
      <4> QED BY <4>1, <4>2
    <3>4. CASE o = Occurrence(p)
      <4>1. pass[p].tries + 1 > 1
        BY <3>0, <3>1
      <4> QED BY <3>0, <3>2, <3>3, <3>4, <4>1
    <3>5. CASE o # Occurrence(p)
      <4>1. row'[o] = row[o]
        BY <2>5, <3>5 DEF PostFails, Insert, SetRow
      <4> QED BY <3>0, <3>2, <3>5, <4>1
    <3> QED BY <3>4, <3>5
  <2>6. CASE PostRejected(p)
    BY <2>6, WorkEffect DEF PostRejected, SendBare, vars, bounds, ticker, queue, term, ghosts
  <2>7. CASE PostRefused(p)
    <3> SUFFICES ASSUME NEW o \in Due, row'[o] = "phantom"
                 PROVE  tracked'[o] > 0 \/ InHand(o)' \/ o \in cut' \cup untraced'
      OBVIOUS
    <3>1. Advances(p) /\ UNCHANGED <<row, tracked, untraced>> /\ pass[p].pc = "create" /\ ~pass[p].id
      BY <2>7, WorkEffect DEF PostRefused, queue
    <3>2. cut \subseteq cut' /\ (pass[p].tries > 1 => Occurrence(p) \in cut')
      BY <2>7 DEF PostRefused
    <3> QED BY <3>1, <3>2
  <2>8. CASE Send(p)
    BY <2>8, WorkEffect DEF Send, Enqueue, vars, bounds, ticker, queue, term, ghosts
  <2>9. CASE SendFails(p)
    <3> SUFFICES ASSUME NEW o \in Due, row'[o] = "phantom"
                 PROVE  tracked'[o] > 0 \/ InHand(o)' \/ o \in cut' \cup untraced'
      OBVIOUS
    <3>1. UNCHANGED <<row, cut, untraced>> /\ pass[p].pc = "send" /\ pass[p].todo # {}
      BY <2>9 DEF SendFails
    <3>2. tracked[o] > 0 => tracked'[o] > 0
      BY <2>9 DEF SendFails, Enqueue, queue
    <3>3. CASE pass[p].id
      <4>1. Stays(p, "mark") /\ pass'[p].id
        BY <2>9, <3>3, WorkEffect
      <4> QED BY <3>1, <3>2, <4>1
    <3>4. CASE ~pass[p].id
      <4>1. Advances(p) /\ Occurrence(p) \in untraced
        BY <2>9, <3>1, <3>4, WorkEffect
      <4> QED BY <3>1, <3>2, <3>4, <4>1
    <3> QED BY <3>3, <3>4
  <2>10. CASE Mark(p)
    <3> SUFFICES ASSUME NEW o \in Due, row'[o] = "phantom"
                 PROVE  tracked'[o] > 0 \/ InHand(o)' \/ o \in cut' \cup untraced'
      OBVIOUS
    <3>1. Advances(p) /\ UNCHANGED <<tracked, cut, untraced>>
      BY <2>10, WorkEffect DEF Mark, queue
    <3>2. o # Occurrence(p) /\ row'[o] = row[o]
      BY <2>10 DEF Mark, SetRow
    <3> QED BY <3>1, <3>2
  <2>11. CASE MarkFails(p)
    BY <2>11, WorkEffect DEF MarkFails, vars, bounds, ticker, queue, term, ghosts
  <2> QED BY <1>4, <2>1, <2>2, <2>3, <2>4, <2>5, <2>6, <2>7, <2>8, <2>9, <2>10, <2>11 DEF Work
<1>5. ASSUME NEW o \in Due, Deliver(o) PROVE NoneStranded'
  BY <1>5 DEF Deliver, SetRow, Claimable, vars, bounds, ticker, queue, term, ghosts
<1>6. ASSUME NEW o \in Due, DeliverBare(o) PROVE NoneStranded'
  BY <1>6 DEF DeliverBare, vars, bounds, ticker, queue, term, ghosts
<1>7. CASE TimePasses
  BY <1>7 DEF TimePasses, vars, bounds, ticker, queue, term, ghosts
<1>8. CASE UNCHANGED vars
  BY <1>8 DEF vars, bounds, ticker, queue, term, ghosts
<1> QED BY <1>1, <1>2, <1>3, <1>4, <1>5, <1>6, <1>7, <1>8 DEF Next

LEMMA DispatchInitially == Init => DispatchInv
<1> SUFFICES ASSUME Init PROVE DispatchInv
  OBVIOUS
<1>1. Typed
  BY DispatchAssumption DEF Init, Typed, PassRecord, Places, Idle, Never
<1>2. Disciplined /\ BareIsUntraced /\ ClaimableIsNew /\ NoneStranded
  BY DEF Init, Disciplined, BareIsUntraced, ClaimableIsNew, NoneStranded, Idle
<1> QED BY <1>1, <1>2 DEF DispatchInv

LEMMA DispatchInductive == DispatchInv /\ [Next]_vars => DispatchInv'
BY TypedStep, DisciplinedStep, BareStep, NewStep, StrandedStep DEF DispatchInv

(* However many replicas lead, however often they look at an occurrence and  *)
(* whatever is lost, its workflow starts once, unless a message without a    *)
(* row's id went out (leader-election.ts:22-23).                            *)
THEOREM OccurrenceStartsOnce == Spec => []StartedOnce
<1>1. Typed /\ ClaimableIsNew => StartedOnce
  BY DEF Typed, ClaimableIsNew, StartedOnce
<1>2. DispatchInv => StartedOnce
  BY <1>1 DEF DispatchInv
<1> QED BY <1>2, DispatchInitially, DispatchInductive, PTL DEF Spec

(* A phantom row has a message on its way or a pass at work on it, but for   *)
(* the four ways the code leaves one to the reaper (lib/phantom.ts:89-96).  *)
THEOREM PhantomKeepsItsMessage == Spec => []NoneStranded
<1>1. DispatchInv => NoneStranded
  BY DEF DispatchInv
<1> QED BY <1>1, DispatchInitially, DispatchInductive, PTL DEF Spec

-----------------------------------------------------------------------------
(* The windows of a term: its replica's passes cover them.                   *)
Spans == on \in [Pods -> BOOLEAN] /\ since \in [Pods -> Int] /\ reach \in [Pods -> Int]

(* A pass has occurrences in hand only while it enqueues them, and the row   *)
(* it knows the id of exists.                                               *)
InHandExists ==
  \A p \in Passes :
    /\ pass[p].pc \in {"none", "timer", "fetch"} => pass[p].todo = {}
    /\ pass[p].id /\ Occurrence(p) \in Due => row[Occurrence(p)] # "none"

Handles(p, o) ==
  \/ o \in pass[p].todo
  \/ pass[p].pc = "fetch" /\ o \in InWindow(pass[p].from, pass[p].to)

Excused(o) == row[o] # "none" \/ o \in missed \cup forgone \cup untraced

Covered(r, o) == Excused(o) \/ \E p \in Passes : p[1] = r /\ Handles(p, o)

TermsCovered ==
  \A r \in Pods : on[r] => \A o \in InWindow(since[r], reach[r]) : Covered(r, o)

AttendInv ==
  Typed /\ Disciplined /\ BareIsUntraced /\ Spans /\ InHandExists /\ TermsCovered

(* What a step leaves of the occurrences its pass had in hand. *)
LEMMA TodoEffect ==
  ASSUME Typed, NEW p \in Passes
  PROVE  /\ FetchFails(p) \/ Mark(p) \/ MarkFails(p) \/ (SendFails(p) /\ ~pass[p].id)
              => pass'[p].todo = {}
         /\ PostRefused(p) \/ Send(p) \/ (PostAnswered(p) /\ SkipsHit(p))
              => pass'[p].todo = pass[p].todo \ {Occurrence(p)}
         /\ Fetch(p) => pass'[p].todo = InWindow(pass[p].from, pass[p].to)
         /\ Fire(p) => pass'[p].todo = {}
         /\ Fire(p) /\ on[p[1]] => /\ pass'[p].pc = "fetch" /\ pass'[p].to = now
                                   /\ pass'[p].from = LookBack(lastTick[p[1]])
<1>0. p[1] \in Pods
  BY DEF Passes
<1>1. FetchFails(p) \/ Mark(p) \/ MarkFails(p) \/ (SendFails(p) /\ ~pass[p].id)
        => pass'[p].todo = {}
  BY EndPassEffect DEF FetchFails, Mark, MarkFails, SendFails, Abandon
<1>2. PostRefused(p) \/ Send(p) \/ (PostAnswered(p) /\ SkipsHit(p))
        => pass'[p].todo = pass[p].todo \ {Occurrence(p)}
  BY GoOnEffect DEF PostRefused, Send, PostAnswered, Skip
<1>3. Fetch(p) => pass'[p].todo = InWindow(pass[p].from, pass[p].to)
  <2>1. InWindow(pass[p].from, pass[p].to) \in SUBSET Due
    BY DEF InWindow
  <2> QED BY <2>1, ProceedEffect DEF Fetch
<1>4. LookBack(lastTick[p[1]]) \in Int
  BY <1>0, DispatchAssumption DEF Typed, LookBack
<1>5. Fire(p) /\ on[p[1]] => /\ pass'[p].todo = {} /\ pass'[p].pc = "fetch" /\ pass'[p].to = now
                             /\ pass'[p].from = LookBack(lastTick[p[1]])
  BY <1>4, FetchingEffect DEF Fire
<1>6. Fire(p) /\ ~on[p[1]] => pass'[p].todo = {}
  <2>1. Idle \in PassRecord /\ Idle.todo = {}
    BY DEF Idle, PassRecord, Places
  <2> QED BY <2>1, SetEffect DEF Fire
<1> QED BY <1>1, <1>2, <1>3, <1>5, <1>6

LEMMA SpansStep == Typed /\ Spans /\ [Next]_vars => Spans'
<1> SUFFICES ASSUME Typed, Spans, [Next]_vars PROVE Spans'
  OBVIOUS
<1>1. ASSUME NEW r \in Pods, StartTicker(r) PROVE Spans'
  BY <1>1, DispatchAssumption DEF StartTicker, Spans, Typed, LookBack, Never
<1>2. ASSUME NEW r \in Pods, StopTicker(r) \/ Crash(r) PROVE Spans'
  <2>1. CASE StopTicker(r)
    BY <2>1 DEF StopTicker, EndTerm, Spans
  <2>2. CASE Crash(r)
    BY <2>2 DEF Crash, EndTerm, Spans
  <2> QED BY <1>2, <2>1, <2>2
<1>3. ASSUME NEW p \in Passes, Fire(p) PROVE Spans'
  BY <1>3 DEF Fire, Spans, Typed, Passes
<1>4. UNCHANGED <<on, since, reach>> => Spans'
  BY DEF Spans
<1>5. ASSUME NEW p \in Passes, Work(p) PROVE Spans'
  BY <1>3, <1>4, <1>5 DEF Work, Fetch, FetchFails, PostAnswered, PostFails, PostRejected,
     PostRefused, Send, SendFails, Mark, MarkFails, ghosts, ticker
<1>6. (\E o \in Due : Deliver(o) \/ DeliverBare(o)) \/ TimePasses \/ UNCHANGED vars => Spans'
  BY <1>4 DEF Deliver, DeliverBare, TimePasses, vars, ghosts, ticker
<1> QED BY <1>1, <1>2, <1>5, <1>6 DEF Next

LEMMA RowStays ==
  ASSUME Typed, [Next]_vars, NEW o \in Due, row[o] # "none" PROVE row'[o] # "none"
<1> USE DEF Typed
<1>1. ASSUME NEW r \in Pods, StartTicker(r) \/ StopTicker(r) \/ Crash(r) PROVE row' = row
  BY <1>1 DEF StartTicker, StopTicker, Crash
<1>2. ASSUME NEW p \in Passes, Work(p) PROVE row'[o] # "none"
  <2>1. CASE PostAnswered(p)
    BY <2>1 DEF PostAnswered, Insert, SetRow
  <2>2. CASE PostFails(p)
    BY <2>2 DEF PostFails, Insert, SetRow
  <2>3. CASE Mark(p)
    BY <2>3 DEF Mark, SetRow
  <2>4. CASE UNCHANGED row
    BY <2>4
  <2> QED BY <1>2, <2>1, <2>2, <2>3, <2>4 DEF Work, Fire, Fetch, FetchFails, PostRejected,
          PostRefused, Send, SendFails, MarkFails
<1>3. ASSUME NEW m \in Due, Deliver(m) \/ DeliverBare(m) PROVE row'[o] # "none"
  BY <1>3 DEF Deliver, DeliverBare, SetRow
<1>4. TimePasses \/ UNCHANGED vars => row' = row
  BY DEF TimePasses, vars
<1> QED BY <1>1, <1>2, <1>3, <1>4 DEF Next

(* What is excused stays excused. *)
LEMMA ExcusedStays ==
  ASSUME Typed, [Next]_vars, NEW o \in Due, Excused(o) PROVE Excused(o)'
<1>1. row[o] # "none" => row'[o] # "none"
  BY RowStays
<1>2. missed \cup forgone \cup untraced \subseteq missed' \cup forgone' \cup untraced'
  <2>1. ASSUME NEW r \in Pods, StartTicker(r) \/ StopTicker(r) \/ Crash(r)
        PROVE  UNCHANGED <<missed, forgone, untraced>>
    BY <2>1 DEF StartTicker, StopTicker, Crash
  <2>2. ASSUME NEW p \in Passes, Work(p)
        PROVE  missed \cup forgone \cup untraced \subseteq missed' \cup forgone' \cup untraced'
    BY <2>2 DEF Work, Fire, Fetch, FetchFails, PostAnswered, PostFails, PostRejected,
       PostRefused, SendBare, Send, SendFails, Mark, MarkFails, Abandon, ghosts
  <2>3. ASSUME NEW m \in Due, Deliver(m) \/ DeliverBare(m)
        PROVE  UNCHANGED <<missed, forgone, untraced>>
    BY <2>3 DEF Deliver, DeliverBare, ghosts
  <2>4. TimePasses \/ UNCHANGED vars => UNCHANGED <<missed, forgone, untraced>>
    BY DEF TimePasses, vars, ghosts
  <2> QED BY <2>1, <2>2, <2>3, <2>4 DEF Next
<1> QED BY <1>1, <1>2 DEF Excused

LEMMA InHandStep == Typed /\ Disciplined /\ InHandExists /\ [Next]_vars => InHandExists'
<1> SUFFICES ASSUME Typed, Disciplined, InHandExists, [Next]_vars PROVE InHandExists'
  OBVIOUS
<1>0. \A o \in Due : row[o] # "none" => row'[o] # "none"
  BY RowStays
<1> USE <1>0 DEF InHandExists, Occurrence, OthersKeep
<1>1. ASSUME NEW p \in Passes, Advances(p) PROVE InHandExists'
  BY <1>1 DEF Advances
<1>2. ASSUME NEW r \in Pods, StartTicker(r) \/ StopTicker(r) \/ Crash(r) PROVE InHandExists'
  <2>1. CASE StartTicker(r)
    BY <1>1, <2>1, TickerEffect
  <2>2. CASE StopTicker(r) \/ Crash(r)
    <3>1. \A p \in Passes : pass'[p] = pass[p] \/ pass'[p] = Idle
      BY <2>2, TickerEffect
    <3>2. ~Idle.id /\ Idle.todo = {}
      BY DEF Idle
    <3> QED BY <3>1, <3>2
  <2> QED BY <1>2, <2>1, <2>2
<1>3. ASSUME NEW p \in Passes, Work(p) PROVE InHandExists'
  <2>1. CASE PostAnswered(p)
    <3>1. CASE SkipsHit(p)
      BY <1>1, <2>1, <3>1, WorkEffect
    <3>2. CASE ~SkipsHit(p)
      <4>1. Occurrence(p) \in Due => row'[Occurrence(p)] # "none"
        BY <2>1 DEF PostAnswered, Insert, SetRow, Typed
      <4> QED BY <2>1, <3>2, <4>1, WorkEffect DEF Stays
    <3> QED BY <3>1, <3>2
  <2>2. CASE PostFails(p)
    <3>1. ~pass[p].id
      BY <2>2 DEF PostFails, Disciplined
    <3> QED BY <2>2, <3>1, WorkEffect DEF Stays
  <2>3. CASE PostRejected(p)
    <3>1. ~pass[p].id
      BY <2>3 DEF PostRejected, Disciplined
    <3> QED BY <2>3, <3>1, WorkEffect DEF Stays
  <2>4. CASE SendFails(p)
    BY <1>1, <2>4, WorkEffect DEF Stays
  <2> QED BY <1>1, <1>3, <2>1, <2>2, <2>3, <2>4, WorkEffect DEF Work
<1>4. UNCHANGED pass => InHandExists'
  OBVIOUS
<1> QED BY <1>2, <1>3, <1>4 DEF Next, Deliver, DeliverBare, TimePasses, vars

(* A window is covered from the step that opens it, and a pass lets go of an *)
(* occurrence only when it is excused.                                      *)
LEMMA CoverStep == AttendInv /\ [Next]_vars => TermsCovered'
<1> SUFFICES ASSUME AttendInv, [Next]_vars, NEW r \in Pods, on'[r],
                    NEW o \in Due, since'[r] < o, o <= reach'[r]
             PROVE  Covered(r, o)'
  BY DEF TermsCovered, InWindow
<1> USE DEF AttendInv
<1> DEFINE Before == on[r] /\ since[r] < o /\ o <= reach[r]
<1>1. Before => Covered(r, o)
  BY DEF TermsCovered, InWindow
<1>2. Excused(o) => Excused(o)'
  BY ExcusedStays
<1>3. ASSUME Before, NEW p \in Passes, OthersKeep(p),
             p[1] = r /\ Handles(p, o) => Excused(o)' \/ Handles(p, o)'
      PROVE  Covered(r, o)'
  <2>1. CASE Excused(o)
    BY <1>2, <2>1 DEF Covered
  <2>2. CASE \E q \in Passes : q[1] = r /\ Handles(q, o)
    <3>1. PICK q \in Passes : q[1] = r /\ Handles(q, o)
      BY <2>2
    <3>2. CASE q = p
      BY <1>3, <3>1, <3>2 DEF Covered
    <3>3. CASE q # p
      <4>1. pass'[q] = pass[q]
        BY <1>3, <3>3 DEF OthersKeep
      <4> QED BY <3>1, <4>1 DEF Covered, Handles, InWindow
    <3> QED BY <3>2, <3>3
  <2> QED BY <1>1, <1>3, <2>1, <2>2 DEF Covered
<1>4. ASSUME NEW s \in Pods, StartTicker(s) PROVE Covered(r, o)'
  <2>1. PICK c \in Chains : pass[<<s, c>>].pc = "none" /\ Set(<<s, c>>, Fetching(LookBack(Never)))
    BY <1>4 DEF StartTicker
  <2>2. LookBack(Never) \in Int /\ <<s, c>> \in Passes
    BY DispatchAssumption DEF LookBack, Typed, Passes
  <2>3. /\ OthersKeep(<<s, c>>)
        /\ LET x == pass'[<<s, c>>] IN x.pc = "fetch" /\ x.from = LookBack(Never) /\ x.to = now
    BY <2>1, <2>2, FetchingEffect DEF Advances
  <2>4. CASE s = r
    <3>1. since'[r] = LookBack(Never) /\ reach'[r] = now
      BY <1>4, <2>4 DEF StartTicker, Spans
    <3>2. Handles(<<s, c>>, o)'
      BY <2>3, <3>1 DEF Handles, InWindow
    <3> QED BY <2>2, <2>4, <3>2 DEF Covered
  <2>5. CASE s # r
    <3>1. Before
      BY <1>4, <2>5 DEF StartTicker, Spans
    <3>2. <<s, c>>[1] # r
      BY <2>5
    <3> QED BY <1>3, <2>2, <2>3, <3>1, <3>2
  <2> QED BY <2>4, <2>5
<1>5. ASSUME NEW s \in Pods, StopTicker(s) \/ Crash(s) PROVE Covered(r, o)'
  <2>1. s # r /\ Before
    <3>1. CASE StopTicker(s)
      BY <3>1 DEF StopTicker, EndTerm, Spans
    <3>2. CASE Crash(s)
      BY <3>2 DEF Crash, EndTerm, Spans
    <3> QED BY <1>5, <3>1, <3>2
  <2>2. CASE Excused(o)
    BY <1>2, <2>2 DEF Covered
  <2>3. CASE ~Excused(o)
    <3>1. PICK q \in Passes : q[1] = r /\ Handles(q, o)
      BY <1>1, <2>1, <2>3 DEF Covered
    <3>2. pass[q].pc # "timer"
      BY <3>1 DEF Handles, InHandExists
    <3>3. pass'[q] = pass[q]
      BY <1>5, <2>1, <3>1, <3>2, TickerEffect
    <3> QED BY <3>1, <3>3 DEF Covered, Handles, InWindow
  <2> QED BY <2>2, <2>3
<1>6. ASSUME NEW p \in Passes, Fire(p) PROVE Covered(r, o)'
  <2>1. OthersKeep(p) /\ ~Handles(p, o)
    BY <1>6, WorkEffect DEF Fire, Handles, InHandExists, Advances
  <2>2. CASE Before
    BY <1>3, <2>1, <2>2
  <2>3. CASE ~Before
    <3>1. p[1] = r /\ on[r] /\ reach[r] < o /\ o <= now
      <4>1. on[r] /\ since[r] < o /\ ~(o <= reach[r])
        BY <1>6, <2>3 DEF Fire
      <4>2. p[1] = r /\ reach'[r] = now
        BY <1>6, <4>1 DEF Fire, Spans
      <4>3. reach[r] \in Int /\ o \in Int
        BY DispatchAssumption DEF Spans
      <4> QED BY <4>1, <4>2, <4>3
    <3>2. CASE o <= LookBack(lastTick[r])
      <4>1. o \in missed'
        BY <1>6, <3>1, <3>2 DEF Fire, InWindow
      <4> QED BY <4>1 DEF Covered, Excused
    <3>3. CASE ~(o <= LookBack(lastTick[r]))
      <4>1. LookBack(lastTick[r]) \in Int /\ o \in Int
        BY DispatchAssumption DEF Typed, LookBack
      <4>2. Handles(p, o)'
        BY <1>6, <3>1, <3>3, <4>1, TodoEffect DEF Handles, InWindow
      <4> QED BY <3>1, <4>2 DEF Covered
    <3> QED BY <3>2, <3>3
  <2> QED BY <2>2, <2>3
<1>7. ASSUME NEW p \in Passes, Work(p), ~Fire(p) PROVE Covered(r, o)'
  <2>1. Before
    BY <1>7 DEF Work, Fetch, FetchFails, PostAnswered, PostFails, PostRejected, PostRefused,
       Send, SendFails, Mark, MarkFails, ghosts, ticker
  <2>2. OthersKeep(p)
    BY <1>7, WorkEffect DEF Work, Advances, Stays
  <2>3. ASSUME Handles(p, o) PROVE Excused(o)' \/ Handles(p, o)'
    <3>1. CASE Fetch(p)
      <4>1. o \in InWindow(pass[p].from, pass[p].to)
        BY <2>3, <3>1 DEF Fetch, Handles, InHandExists
      <4> QED BY <3>1, <4>1, TodoEffect DEF Handles
    <3>2. CASE FetchFails(p)
      BY <2>3, <3>2 DEF FetchFails, Handles, InHandExists, Excused
    <3>3. CASE PostAnswered(p)
      <4>1. o \in pass[p].todo
        BY <2>3, <3>3 DEF PostAnswered, Handles
      <4>2. CASE SkipsHit(p)
        BY <1>2, <3>3, <4>1, <4>2, TodoEffect DEF Handles, SkipsHit, Excused
      <4>3. CASE ~SkipsHit(p)
        BY <3>3, <4>1, <4>3, WorkEffect DEF Handles, Stays
      <4> QED BY <4>2, <4>3
    <3>4. CASE PostFails(p) \/ PostRejected(p)
      BY <2>3, <3>4, WorkEffect DEF PostFails, PostRejected, Handles, Stays
    <3>5. CASE PostRefused(p)
      BY <2>3, <3>5, TodoEffect DEF PostRefused, Handles, Excused
    <3>6. CASE Send(p)
      <4>1. o \in pass[p].todo /\ pass[p].pc = "send"
        BY <2>3, <3>6 DEF Send, Handles
      <4>2. o = Occurrence(p) => Excused(o)
        BY <4>1 DEF InHandExists, BareIsUntraced, Excused
      <4> QED BY <1>2, <3>6, <4>1, <4>2, TodoEffect DEF Handles
    <3>7. CASE SendFails(p)
      <4>1. o \in pass[p].todo
        BY <2>3, <3>7 DEF SendFails, Handles
      <4>2. CASE pass[p].id
        BY <3>7, <4>1, <4>2, WorkEffect DEF Handles, Stays
      <4>3. CASE ~pass[p].id
        BY <3>7, <4>1, <4>3 DEF SendFails, Abandon, Excused
      <4> QED BY <4>2, <4>3
    <3>8. CASE Mark(p) \/ MarkFails(p)
      <4>1. o \in pass[p].todo /\ pass[p].id
        BY <2>3, <3>8 DEF Mark, MarkFails, Handles, Disciplined
      <4>2. o = Occurrence(p) => Excused(o)
        BY <4>1 DEF InHandExists, Excused
      <4>3. o # Occurrence(p) => o \in forgone'
        BY <3>8, <4>1 DEF Mark, MarkFails, Abandon
      <4> QED BY <1>2, <4>2, <4>3 DEF Excused
    <3> QED BY <1>7, <3>1, <3>2, <3>3, <3>4, <3>5, <3>6, <3>7, <3>8 DEF Work
  <2> QED BY <1>3, <2>1, <2>2, <2>3
<1>8. CASE UNCHANGED <<pass, on, since, reach>>
  BY <1>1, <1>2, <1>8 DEF Covered, Handles, InWindow
<1> QED BY <1>4, <1>5, <1>6, <1>7, <1>8 DEF Next, Deliver, DeliverBare, TimePasses, vars, ghosts, ticker

(* What the windows of a term span is attended to: once its passes are over, *)
(* every occurrence in them has a row or a message, or is one of those the   *)
(* code gives up.                                                           *)
THEOREM WindowsAreAttended == Spec => []Attended
<1>1. Init => AttendInv
  <2> SUFFICES ASSUME Init PROVE AttendInv
    OBVIOUS
  <2>1. Typed /\ Disciplined /\ BareIsUntraced
    BY DispatchInitially DEF DispatchInv
  <2>2. Spans /\ InHandExists /\ TermsCovered
    BY DEF Init, Spans, InHandExists, TermsCovered, Idle
  <2> QED BY <2>1, <2>2 DEF AttendInv
<1>2. AttendInv /\ [Next]_vars => AttendInv'
  BY TypedStep, DisciplinedStep, BareStep, SpansStep, InHandStep, CoverStep DEF AttendInv
<1>3. AttendInv => Attended
  <2> SUFFICES ASSUME AttendInv, NEW r \in Pods, on[r],
                      \A c \in Chains : pass[<<r, c>>].pc \in {"none", "timer"},
                      NEW o \in InWindow(since[r], reach[r])
               PROVE  row[o] # "none" \/ o \in missed \cup forgone \cup untraced
    BY DEF Attended
  <2>1. \A p \in Passes : p[1] = r => ~Handles(p, o)
    BY DEF Passes, Handles, AttendInv, InHandExists
  <2> QED BY <2>1 DEF AttendInv, TermsCovered, Covered, Excused
<1> QED BY <1>1, <1>2, <1>3, PTL DEF Spec

-----------------------------------------------------------------------------
(* What remains of the types: the occurrence a pass is at is one it has in  *)
(* hand, and a POST is tried so often and no more.                          *)
Bounded ==
  /\ now \in 0 .. Horizon
  /\ timer \in [Pods -> Chains \cup {0}]
  /\ lastTick \in [Pods -> {Never} \cup 0 .. now]
  /\ \A p \in Passes : pass[p].tries <= MaxAttempts
  /\ missed \cup forgone \cup cut \cup untraced \subseteq Due

LEMMA HasEarliest ==
  ASSUME NEW S, S \subseteq Nat, S # {}
  PROVE  \E n \in S : \A m \in S : n <= m
<1>1. \E n \in S : \A m \in S : ~(<<m, n>> \in OpToRel(<, Nat))
  BY NatLessThanWellFounded, WFMin
<1>2. PICK n \in S : \A m \in S : ~(<<m, n>> \in OpToRel(<, Nat))
  BY <1>1
<1>3. \A m \in S : ~(m < n)
  BY <1>2 DEF OpToRel
<1> QED BY <1>3

LEMMA OccurrenceInHand ==
  ASSUME Typed, NEW p \in Passes, pass[p].todo # {}
  PROVE  Occurrence(p) \in pass[p].todo /\ Occurrence(p) \in Due
<1> DEFINE S == pass[p].todo
<1>0. pass[p] \in PassRecord
  BY DEF Typed
<1>1. S \subseteq Due /\ S \subseteq Nat /\ S # {}
  <2>1. S \subseteq Due
    BY <1>0 DEF PassRecord
  <2>2. Due \subseteq Nat
    BY DispatchAssumption
  <2> QED BY <2>1, <2>2
<1>2. \E x \in S : \A y \in S : x <= y
  <2> HIDE DEF S
  <2> QED BY <1>1, HasEarliest
<1> QED BY <1>1, <1>2 DEF Occurrence, Earliest

LEMMA TriesEffect ==
  ASSUME Typed, NEW p \in Passes, Work(p)
  PROVE  pass'[p].tries \in {0, 1} \/ pass'[p].tries = pass[p].tries
           \/ (pass[p].tries < MaxAttempts /\ pass'[p].tries = pass[p].tries + 1)
<1> DEFINE Tried == pass'[p].tries \in {0, 1}
<1>0. pass \in [Passes -> PassRecord] /\ pass[p] \in PassRecord
  BY DEF Typed
<1>s. \A x : Set(p, x) => pass'[p] = x
  BY <1>0 DEF Set
<1>1. EndPass(p) => Tried
  <2> DEFINE x == [Idle EXCEPT !.pc = "timer", !.due = NextTick(now)]
  <2>1. x.tries = 0 /\ Idle.tries = 0
    BY DEF Idle
  <2>2. EndPass(p) => Set(p, x) \/ Set(p, Idle)
    BY DEF EndPass
  <2> QED BY <1>s, <2>1, <2>2
<1>2. ASSUME NEW todo, Proceed(p, todo) PROVE Tried
  <2> DEFINE x == [pass[p] EXCEPT !.pc = "create", !.todo = todo, !.tries = 1, !.id = FALSE]
  <2>1. x.tries = 1
    BY <1>0 DEF PassRecord
  <2>2. EndPass(p) \/ Set(p, x)
    BY <1>2 DEF Proceed
  <2> QED BY <1>s, <1>1, <2>1, <2>2
<1>3. GoOn(p) => Tried
  BY <1>2 DEF GoOn
<1>4. SendBare(p) => pass'[p].tries = pass[p].tries
  BY <1>0 DEF SendBare, Set, PassRecord
<1>5. Fire(p) => Tried
  <2>1. Idle.tries = 0 /\ Fetching(LookBack(lastTick[p[1]])).tries = 0
    BY DEF Fetching, Idle
  <2> QED BY <1>s, <2>1 DEF Fire
<1>6. Fetch(p) \/ FetchFails(p) => Tried
  BY <1>1, <1>2 DEF Fetch, FetchFails
<1>7. PostAnswered(p) => Tried \/ pass'[p].tries = pass[p].tries
  <2>1. SkipsHit(p) /\ PostAnswered(p) => Tried
    BY <1>3 DEF PostAnswered, Skip
  <2>2. ~SkipsHit(p) /\ PostAnswered(p) => pass'[p].tries = pass[p].tries
    <3> DEFINE x == [pass[p] EXCEPT !.pc = "send", !.id = TRUE]
    <3>1. x.tries = pass[p].tries
      BY <1>0 DEF PassRecord
    <3>2. ~SkipsHit(p) /\ PostAnswered(p) => Set(p, x)
      BY DEF PostAnswered
    <3> QED BY <1>s, <3>1, <3>2
  <2> QED BY <2>1, <2>2
<1>8. PostFails(p) => \/ pass'[p].tries = pass[p].tries
                      \/ pass[p].tries < MaxAttempts /\ pass'[p].tries = pass[p].tries + 1
  BY <1>0, <1>4 DEF PostFails, Set, PassRecord
<1>9. PostRejected(p) => pass'[p].tries = pass[p].tries
  BY <1>4 DEF PostRejected
<1>10. PostRefused(p) \/ Send(p) => Tried
  BY <1>3 DEF PostRefused, Send
<1>11. SendFails(p) => Tried \/ pass'[p].tries = pass[p].tries
  BY <1>0, <1>1 DEF SendFails, Abandon, Set, PassRecord
<1>12. Mark(p) \/ MarkFails(p) => Tried
  BY <1>1 DEF Mark, MarkFails, Abandon
<1> QED BY <1>5, <1>6, <1>7, <1>8, <1>9, <1>10, <1>11, <1>12 DEF Work

LEMMA TriesStep ==
  ASSUME Typed, Bounded, [Next]_vars, NEW q \in Passes
  PROVE  pass'[q].tries <= MaxAttempts
<1>0. pass[q].tries \in Nat /\ pass[q].tries <= MaxAttempts /\ MaxAttempts \in Nat \ {0}
  BY DispatchAssumption DEF Typed, PassRecord, Bounded
<1>1. pass'[q] = pass[q] => pass'[q].tries <= MaxAttempts
  BY <1>0
<1>2. pass'[q] = Idle => pass'[q].tries <= MaxAttempts
  BY <1>0 DEF Idle
<1>3. ASSUME NEW p \in Passes, Work(p) PROVE pass'[q].tries <= MaxAttempts
  <2>1. CASE q = p
    BY <1>0, <1>3, <2>1, TriesEffect
  <2>2. CASE q # p
    BY <1>1, <1>3, <2>2, WorkEffect DEF Work, Advances, Stays, OthersKeep
  <2> QED BY <2>1, <2>2
<1>4. ASSUME NEW r \in Pods, StartTicker(r) PROVE pass'[q].tries <= MaxAttempts
  <2>1. PICK c \in Chains : Set(<<r, c>>, Fetching(LookBack(Never)))
    BY <1>4 DEF StartTicker
  <2>2. pass'[q] = pass[q] \/ pass'[q] = Fetching(LookBack(Never))
    BY <2>1 DEF Set, Typed
  <2>3. Fetching(LookBack(Never)).tries = 0
    BY DEF Fetching, Idle
  <2> QED BY <1>0, <1>1, <2>2, <2>3
<1>5. ASSUME NEW r \in Pods, StopTicker(r) \/ Crash(r) PROVE pass'[q].tries <= MaxAttempts
  BY <1>1, <1>2, <1>5, TickerEffect
<1>6. CASE UNCHANGED pass
  BY <1>1, <1>6
<1> QED BY <1>3, <1>4, <1>5, <1>6 DEF Next, Deliver, DeliverBare, TimePasses, vars

LEMMA NowStep ==
  ASSUME Typed, [Next]_vars
  PROVE  now' = now \/ (TimePasses /\ now' = now + 1)
BY DEF Next, vars, StartTicker, StopTicker, Crash, Work, Fire, Fetch, FetchFails, PostAnswered,
   PostFails, PostRejected, PostRefused, Send, SendFails, Mark, MarkFails, Deliver, DeliverBare,
   TimePasses

LEMMA TickerTypes ==
  ASSUME Typed, Bounded, [Next]_vars
  PROVE  /\ timer' \in [Pods -> Chains \cup {0}]
         /\ lastTick' \in [Pods -> {Never} \cup 0 .. now]
<1>0. /\ \A p \in Passes : p[1] \in Pods /\ p[2] \in Chains
      /\ now \in 0 .. now
  BY DispatchAssumption DEF Passes, Bounded
<1>1. ASSUME NEW p \in Passes, EndPass(p) PROVE timer' \in [Pods -> Chains \cup {0}]
  BY <1>0, <1>1 DEF EndPass, Bounded
<1>2. ASSUME NEW p \in Passes, NEW todo, Proceed(p, todo)
      PROVE  timer' \in [Pods -> Chains \cup {0}]
  BY <1>1, <1>2 DEF Proceed, Bounded
<1>3. ASSUME NEW p \in Passes, Work(p) PROVE timer' \in [Pods -> Chains \cup {0}]
  <2>1. CASE Fire(p)
    BY <2>1 DEF Fire, Bounded
  <2>2. CASE Fetch(p) \/ FetchFails(p)
    BY <1>1, <1>2, <2>2 DEF Fetch, FetchFails
  <2>3. CASE PostAnswered(p) \/ PostFails(p) \/ PostRejected(p)
    BY <1>2, <2>3 DEF PostAnswered, PostFails, PostRejected, Skip, GoOn, ticker, Bounded
  <2>4. CASE PostRefused(p) \/ Send(p)
    BY <1>2, <2>4 DEF PostRefused, Send, GoOn
  <2>5. CASE SendFails(p) \/ Mark(p) \/ MarkFails(p)
    BY <1>1, <2>5 DEF SendFails, Mark, MarkFails, Abandon, Bounded
  <2> QED BY <1>3, <2>1, <2>2, <2>3, <2>4, <2>5 DEF Work
<1>4. ASSUME NEW p \in Passes, Work(p) PROVE lastTick' \in [Pods -> {Never} \cup 0 .. now]
  BY <1>0, <1>4 DEF Work, Fire, Fetch, FetchFails, PostAnswered, PostFails, PostRejected,
     PostRefused, Send, SendFails, Mark, MarkFails, ticker, Bounded
<1>5. ASSUME NEW r \in Pods, StartTicker(r) \/ StopTicker(r) \/ Crash(r)
      PROVE  /\ timer' \in [Pods -> Chains \cup {0}]
             /\ lastTick' \in [Pods -> {Never} \cup 0 .. now]
  BY <1>5 DEF StartTicker, StopTicker, Crash, Bounded
<1>6. CASE UNCHANGED ticker
  BY <1>6 DEF ticker, Bounded
<1> QED BY <1>3, <1>4, <1>5, <1>6 DEF Next, Deliver, DeliverBare, TimePasses, vars

LEMMA GhostTypes ==
  ASSUME Typed, Disciplined, Bounded, [Next]_vars
  PROVE  (missed \cup forgone \cup cut \cup untraced)' \subseteq Due
<1>0. ASSUME NEW p \in Passes
      PROVE  /\ pass[p].todo \subseteq Due
             /\ pass[p].pc \in {"create", "send", "mark"} => Occurrence(p) \in Due
  <2>1. pass[p] \in PassRecord
    BY DEF Typed
  <2> QED BY <2>1, OccurrenceInHand DEF PassRecord, Disciplined
<1>1. \A from, to : InWindow(from, to) \subseteq Due
  BY DEF InWindow
<1>2. ASSUME NEW p \in Passes, Work(p)
      PROVE  (missed \cup forgone \cup cut \cup untraced)' \subseteq Due
  <2>1. CASE Fire(p)
    BY <1>1, <2>1 DEF Fire, Bounded
  <2>2. CASE FetchFails(p)
    BY <1>1, <2>2 DEF FetchFails, Bounded
  <2>3. CASE PostFails(p) \/ PostRejected(p)
    BY <1>0, <2>3 DEF PostFails, PostRejected, SendBare, Bounded
  <2>4. CASE PostRefused(p)
    BY <1>0, <2>4 DEF PostRefused, Bounded
  <2>5. CASE SendFails(p) \/ Mark(p)
    BY <1>0, <2>5 DEF SendFails, Mark, Abandon, Bounded
  <2>6. CASE MarkFails(p)
    BY <1>0, <2>6 DEF MarkFails, Abandon, Bounded
  <2>7. CASE Fetch(p) \/ PostAnswered(p) \/ Send(p)
    BY <2>7 DEF Fetch, PostAnswered, Send, ghosts, Bounded
  <2> QED BY <1>2, <2>1, <2>2, <2>3, <2>4, <2>5, <2>6, <2>7 DEF Work
<1>3. ASSUME NEW r \in Pods, StartTicker(r) \/ StopTicker(r)
      PROVE  (missed \cup forgone \cup cut \cup untraced)' \subseteq Due
  BY <1>3 DEF StartTicker, StopTicker, Bounded
<1>4. ASSUME NEW r \in Pods, Crash(r)
      PROVE  (missed \cup forgone \cup cut \cup untraced)' \subseteq Due
  <2>1. \A p \in Passes : pass[p].todo # {} => Occurrence(p) \in Due
    BY OccurrenceInHand
  <2>2. cut' \subseteq Due
    BY <1>4, <2>1 DEF Crash, Bounded
  <2> QED BY <1>4, <2>2 DEF Crash, Bounded
<1>5. CASE UNCHANGED ghosts
  BY <1>5 DEF ghosts, Bounded
<1> QED BY <1>2, <1>3, <1>4, <1>5 DEF Next, Deliver, DeliverBare, TimePasses, vars

LEMMA BoundedStep == Typed /\ Disciplined /\ Bounded /\ [Next]_vars => Bounded'
<1> SUFFICES ASSUME Typed, Disciplined, Bounded, [Next]_vars PROVE Bounded'
  OBVIOUS
<1>1. now \in Nat /\ now' \in 0 .. Horizon /\ now <= now'
  BY NowStep, DispatchAssumption DEF Bounded, TimePasses
<1>2. 0 .. now \subseteq 0 .. now'
  BY <1>1
<1>3. lastTick' \in [Pods -> ({Never} \cup 0 .. now)']
  BY <1>2, TickerTypes DEF Never
<1> QED BY <1>1, <1>3, TickerTypes, TriesStep, GhostTypes DEF Bounded

(* Every variable keeps its type, a pass that is done has nothing in hand,  *)
(* and none holds the id of a row it is not at.                             *)
THEOREM DispatchTypes == Spec => []TypeOK
<1> DEFINE Inv == Typed /\ Disciplined /\ Spans /\ InHandExists /\ Bounded
<1>1. Init => Inv
  <2> SUFFICES ASSUME Init PROVE Inv
    OBVIOUS
  <2>1. Typed /\ Disciplined
    BY DispatchInitially DEF DispatchInv
  <2>2. Spans /\ InHandExists
    BY DEF Init, Spans, InHandExists, Idle
  <2>3. Bounded
    BY DispatchAssumption DEF Init, Bounded, Idle
  <2> QED BY <2>1, <2>2, <2>3
<1>2. Inv /\ [Next]_vars => Inv'
  BY TypedStep, DisciplinedStep, SpansStep, InHandStep, BoundedStep
<1>3. Inv => TypeOK
  <2> SUFFICES ASSUME Inv PROVE TypeOK
    OBVIOUS
  <2>1. ASSUME NEW p \in Passes
        PROVE  /\ pass[p].pc \in Places /\ pass[p].todo \subseteq Due
               /\ pass[p].tries \in 0 .. MaxAttempts /\ pass[p].id \in BOOLEAN
               /\ (pass[p].todo # {}) <=> (pass[p].pc \in {"create", "send", "mark"})
               /\ pass[p].id => pass[p].pc \in {"send", "mark"}
    <3>1. pass[p] \in PassRecord
      BY DEF Typed
    <3>2. /\ pass[p].pc \in Places /\ pass[p].todo \subseteq Due
          /\ pass[p].tries \in Nat /\ pass[p].id \in BOOLEAN
      BY <3>1 DEF PassRecord
    <3>3. pass[p].tries \in 0 .. MaxAttempts
      BY <3>2, DispatchAssumption DEF Bounded
    <3> QED BY <3>2, <3>3 DEF Disciplined, InHandExists, Places
  <2> QED BY <2>1 DEF TypeOK, Typed, Spans, Bounded, Places
<1> HIDE DEF Inv
<1> QED BY <1>1, <1>2, <1>3, PTL DEF Spec
=============================================================================
