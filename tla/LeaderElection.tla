--------------------------- MODULE LeaderElection ---------------------------
(***************************************************************************)
(* Which of a dispatcher's replicas may dispatch                            *)
(* (keeperhub-scheduler/lib/leader-election.ts): each reads the Kubernetes  *)
(* Lease every retry period and, if it is its own, free or expired, writes  *)
(* itself in with a compare-and-swap on the version it read.                *)
(*                                                                          *)
(* Times are relative: renewed is the age of the Lease's renewTime, last    *)
(* the time since lastRenewMs.  An expiry compares the reader's clock with  *)
(* a stamp of the holder's clock, so every replica's clock has an offset.   *)
(* No call has a timeout: env.slow bounds how long one is out.              *)
(***************************************************************************)
EXTENDS Integers

CONSTANTS
  Replicas,       \* the pods of one dispatcher
  Nobody,         \* no holderIdentity, or no Lease object yet
  LeaseDuration,  \* leaseDurationSeconds
  RenewDeadline,  \* renewDeadlineSeconds
  RetryPeriod,    \* retryPeriodSeconds
  MaxAhead,       \* bound on how far a clock is ahead
  Conditions      \* what to choose from: [slow, ahead, fails], the bound on a
                  \* call, how far each clock is ahead, whether calls may fail

ASSUME ElectionAssumption ==
  /\ Nobody \notin Replicas
  /\ LeaseDuration \in Nat /\ RenewDeadline \in Nat /\ RetryPeriod \in Nat
  /\ MaxAhead \in Nat
  /\ Conditions \subseteq
       [slow : Nat, ahead : [Replicas -> 0 .. MaxAhead], fails : BOOLEAN]

VARIABLES
  cond,      \* this behaviour's choice from Conditions
  holder,    \* spec.holderIdentity
  renewed,   \* age of spec.renewTime
  life,      \* down; up; releasing, halting: stopped and on its way out
  leading,   \* LeaderElector.leading
  at,        \* where the loop is: asleep, reading, writing, landed
  waited,    \* how long it has been there; from writing on, since `now` was stamped
  fresh,     \* the version read is still the Lease's version
  last,      \* a leader's time since lastRenewMs
  vacant     \* ghost: time since somebody led, or a process started or stopped

electionVars == <<cond, holder, renewed, life, leading, at, waited, fresh, last, vacant>>

(* Ages beyond which no comparison of the code tells any difference. *)
OldestLease == LeaseDuration + MaxAhead + 1

(* From the last renewal to its expiry by the slowest clock, then a sleep,   *)
(* a read and a write.                                                      *)
VacancyBound == LeaseDuration + MaxAhead + 1 + RetryPeriod + 2 * cond.slow

UpTo(n, bound) == IF n < bound THEN n ELSE bound

ElectionInit ==
  /\ cond \in Conditions
  /\ holder = Nobody /\ renewed = 0
  /\ life    = [r \in Replicas |-> "down"]
  /\ leading = [r \in Replicas |-> FALSE]
  /\ at      = [r \in Replicas |-> "asleep"]
  /\ waited  = [r \in Replicas |-> 0]
  /\ fresh   = [r \in Replicas |-> FALSE]
  /\ last    = [r \in Replicas |-> 0]
  /\ vacant  = 0

(* Date.now() - renewMs > leaseDuration, by r's clock and the holder's stamp *)
Expired(r) ==
  holder # Nobody /\ renewed + cond.ahead[r] - cond.ahead[holder] > LeaseDuration

Become(r, place) ==
  /\ at' = [at EXCEPT ![r] = place] /\ waited' = [waited EXCEPT ![r] = 0]

Runs(r) == life[r] # "down"

-----------------------------------------------------------------------------
(* The process starts and calls run(). *)
Boot(r) ==
  /\ life[r] = "down" /\ at[r] # "writing"
  /\ life' = [life EXCEPT ![r] = "up"]
  /\ Become(r, "reading")
  /\ vacant' = 0
  /\ UNCHANGED <<cond, holder, renewed, leading, fresh, last>>

(* The retry period is over; the loop goes on unless stop() was called. *)
Wake(r) ==
  /\ life[r] = "up" /\ at[r] = "asleep" /\ waited[r] >= RetryPeriod
  /\ Become(r, "reading")
  /\ UNCHANGED <<cond, holder, renewed, life, leading, fresh, last, vacant>>

(* Fault: leadership is kept for as long as the Lease would be valid. *)
RefusedLate(r) ==
  /\ leading' = [leading EXCEPT ![r] = @ /\ last[r] <= LeaseDuration]
  /\ Become(r, "asleep")
  /\ fresh' = [fresh EXCEPT ![r] = FALSE]

(* The attempt returned false: leadership ends past the renew deadline. *)
Refused(r) ==
  /\ leading' = [leading EXCEPT ![r] = @ /\ last[r] <= RenewDeadline]
  /\ Become(r, "asleep")
  /\ fresh' = [fresh EXCEPT ![r] = FALSE]

(* Fault: only an own or a free Lease is written. *)
MayTakeFree(r) == holder \in {r, Nobody}

MayTake(r) == holder \in {r, Nobody} \/ Expired(r)

(* The Lease is somebody else's and valid. *)
ReadHeld(r) ==
  /\ Runs(r) /\ at[r] = "reading" /\ ~MayTake(r)
  /\ Refused(r)
  /\ UNCHANGED <<cond, holder, renewed, life, last, vacant>>

(* The Lease may be written: `now` is stamped and the request goes out. *)
ReadFree(r) ==
  /\ Runs(r) /\ at[r] = "reading" /\ MayTake(r)
  /\ Become(r, "writing")
  /\ fresh' = [fresh EXCEPT ![r] = TRUE]
  /\ UNCHANGED <<cond, holder, renewed, life, leading, last, vacant>>

(* The replace, or the create, is applied: even if its sender is gone. *)
WriteLands(r) ==
  /\ at[r] = "writing" /\ fresh[r]
  /\ holder' = r /\ renewed' = waited[r]
  /\ fresh' = [s \in Replicas |-> FALSE]
  /\ at' = [at EXCEPT ![r] = IF Runs(r) THEN "landed" ELSE "asleep"]
  /\ UNCHANGED <<cond, life, leading, waited, last, vacant>>

(* The attempt returned true, whatever happened to `stopped` meanwhile. *)
WriteAnswered(r) ==
  /\ Runs(r) /\ at[r] = "landed"
  /\ last'    = [last EXCEPT ![r] = 0]
  /\ leading' = [leading EXCEPT ![r] = TRUE]
  /\ Become(r, "asleep")
  /\ UNCHANGED <<cond, holder, renewed, life, fresh, vacant>>

(* 409: another writer came first. *)
WriteConflicts(r) ==
  /\ Runs(r) /\ at[r] = "writing" /\ ~fresh[r]
  /\ Refused(r)
  /\ UNCHANGED <<cond, holder, renewed, life, last, vacant>>

(* A read or a write is lost, or its answer is. *)
CallFails(r) ==
  /\ cond.fails /\ Runs(r) /\ at[r] # "asleep"
  /\ Refused(r)
  /\ UNCHANGED <<cond, holder, renewed, life, last, vacant>>

-----------------------------------------------------------------------------
(* stop(): leadership ends at once, and a former leader clears its holder.   *)
(* The loop's own attempt goes on meanwhile.                                *)
Halt(r) ==
  /\ life[r] = "up"
  /\ life'    = [life EXCEPT ![r] = IF leading[r] THEN "releasing" ELSE "halting"]
  /\ leading' = [leading EXCEPT ![r] = FALSE]
  /\ vacant' = 0
  /\ UNCHANGED <<cond, holder, renewed, at, waited, fresh, last>>

(* releaseLease: its read and its compare-and-swap act together, like one   *)
(* step, or not at all.                                                     *)
ReleaseLease(r) ==
  /\ life[r] = "releasing" /\ holder = r
  /\ life' = [life EXCEPT ![r] = "halting"]
  /\ holder' = Nobody /\ renewed' = 0
  /\ fresh' = [s \in Replicas |-> FALSE]
  /\ vacant' = 0
  /\ UNCHANGED <<cond, leading, at, waited, last>>

(* The process exits or is killed; a write on its way still arrives. *)
Exit(r) ==
  /\ Runs(r)
  /\ life'    = [life EXCEPT ![r] = "down"]
  /\ leading' = [leading EXCEPT ![r] = FALSE]
  /\ at'      = [at EXCEPT ![r] = IF @ = "writing" THEN @ ELSE "asleep"]
  /\ waited'  = [waited EXCEPT ![r] = IF at[r] = "writing" THEN @ ELSE 0]
  /\ vacant' = 0
  /\ UNCHANGED <<cond, holder, renewed, fresh, last>>

(* A write whose sender is gone never arrives. *)
WriteLost(r) ==
  /\ life[r] = "down" /\ at[r] = "writing"
  /\ Become(r, "asleep")
  /\ fresh' = [fresh EXCEPT ![r] = FALSE]
  /\ UNCHANGED <<cond, holder, renewed, life, leading, last, vacant>>

(* Time passes: sleep() ends when it should, a call is answered within slow. *)
Elapse ==
  /\ \A r \in Replicas :
       /\ life[r] = "up" /\ at[r] = "asleep" => waited[r] < RetryPeriod
       /\ at[r] # "asleep" => waited[r] < cond.slow
  /\ renewed' = IF holder = Nobody THEN 0 ELSE UpTo(renewed + 1, OldestLease)
  /\ waited'  = [r \in Replicas |-> IF life[r] = "up" \/ at[r] # "asleep"
                                      THEN waited[r] + 1 ELSE waited[r]]
  /\ last'    = [r \in Replicas |->
                   IF leading[r] THEN UpTo(last[r] + 1, LeaseDuration) ELSE 0]
  /\ vacant' = IF \E r \in Replicas : leading[r] THEN 0
                ELSE UpTo(vacant + 1, VacancyBound + 1)
  /\ UNCHANGED <<cond, holder, life, leading, at, fresh>>

-----------------------------------------------------------------------------
Attempt(r) ==
  ReadHeld(r) \/ ReadFree(r) \/ WriteLands(r) \/ WriteAnswered(r) \/ WriteConflicts(r)

ElectionNext ==
  \/ \E r \in Replicas :
       \/ Boot(r) \/ Wake(r) \/ Attempt(r) \/ CallFails(r)
       \/ Halt(r) \/ ReleaseLease(r) \/ Exit(r) \/ WriteLost(r)
  \/ Elapse

ElectionSpec == ElectionInit /\ [][ElectionNext]_electionVars

-----------------------------------------------------------------------------
(* Types of the election's variables. *)
ElectionTypeOK ==
  /\ cond \in Conditions
  /\ holder \in Replicas \cup {Nobody} /\ renewed \in Nat
  /\ life \in [Replicas -> {"down", "up", "releasing", "halting"}]
  /\ leading \in [Replicas -> BOOLEAN]
  /\ at \in [Replicas -> {"asleep", "reading", "writing", "landed"}]
  /\ waited \in [Replicas -> Nat]
  /\ fresh \in [Replicas -> BOOLEAN]
  /\ last \in [Replicas -> 0 .. LeaseDuration]
  /\ vacant \in Nat

(* How long three calls, a sleep and the difference of two clocks may take   *)
(* for the gap between renewDeadline and leaseDuration to hold them: 5 s in  *)
(* the source, of which the sleep takes 2 s.                                *)
Timely ==
  \A r, s \in Replicas :
    RenewDeadline + RetryPeriod + 3 * cond.slow + cond.ahead[r] - cond.ahead[s]
      <= LeaseDuration

(* A standby does not lead before the old leader has stopped                 *)
(* (leader-election.ts:16-20), as long as calls are timely and whatever      *)
(* fails, restarts or is stopped meanwhile.  A replica that was told to stop *)
(* is left out: the attempt it had under way may make it lead once more.     *)
OneLeader ==
  Timely => \A r, s \in Replicas :
              leading[r] /\ leading[s] /\ life[r] = "up" /\ life[s] = "up" => r = s

(* A dispatcher is not left without a leader: if calls are answered, and two *)
(* of them fit into the duration of the Lease, a replica that stays up       *)
(* leads, or another one does, within that duration and one attempt, whoever *)
(* died holding the Lease and with whatever request on its way.  (A slower   *)
(* write of a dead process could defeat the attempt made when the Lease has  *)
(* run out.)  The first pass of a new leader looks back 60 s to make up for  *)
(* this time (schedule-dispatcher/index.ts:79-83).                           *)
HandoverBounded ==
  /\ ~cond.fails /\ 2 * cond.slow <= OldestLease
  /\ \E r \in Replicas : life[r] = "up"
  => vacant <= VacancyBound
=============================================================================
