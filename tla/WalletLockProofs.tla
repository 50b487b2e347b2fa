-------------------------- MODULE WalletLockProofs --------------------------
(***************************************************************************)
(* Theorems about WalletLock, for every set of sessions and executions and  *)
(* every TTL, session limit and environment bound.                          *)
(***************************************************************************)
EXTENDS WalletLock, TLAPS

(* Every variable keeps its type. *)
THEOREM TypeCorrect == Spec => []TypeOK
<1>1. Init => TypeOK
  BY LockAssumption DEF Init, TypeOK, Phases, WedgeBound
<1>2. TypeOK /\ [Next]_vars => TypeOK'
  <2> SUFFICES ASSUME TypeOK, [Next]_vars PROVE TypeOK'
    OBVIOUS
  <2>0. env' = env
    BY DEF Next, vars
  <2> USE <2>0, LockAssumption DEF TypeOK, Phases, row, beats
  <2>1. ASSUME NEW s \in Sessions, Start(s) PROVE TypeOK'
    BY <2>1 DEF Start
  <2>2. ASSUME NEW s \in Sessions, Acquiring(s) PROVE TypeOK'
    <3>1. CASE AttemptWins(s)
      BY <3>1 DEF AttemptWins, TakeRow, Lapsing, WedgeBound
    <3>2. CASE AttemptBusy(s)
      BY <3>2 DEF AttemptBusy
    <3>3. CASE AttemptSaturated(s)
      BY <3>3 DEF AttemptSaturated, Leave
    <3>4. CASE AttemptFails(s)
      BY <3>4 DEF AttemptFails, TakeRow, Leave, Lapsing, WedgeBound
    <3> QED BY <2>2, <3>1, <3>2, <3>3, <3>4 DEF Acquiring
  <2>3. ASSUME NEW s \in Sessions, StartHeartbeat(s) PROVE TypeOK'
    BY <2>3 DEF StartHeartbeat, WedgeBound
  <2>4. ASSUME NEW s \in Sessions, Beat(s) PROVE TypeOK'
    <3>1. CASE BeatSend(s)
      BY <3>1 DEF BeatSend
    <3>2. CASE GiveUp(s)
      BY <3>2 DEF GiveUp, StopTimer
    <3>3. CASE BeatLands(s)
      BY <3>3 DEF BeatLands
    <3>4. CASE BeatErrors(s)
      BY <3>4 DEF BeatErrors
    <3>5. CASE BeatReply(s)
      <4>1. CASE beating[s]
        <5>1. /\ StopTimer(s) /\ lost' = [lost EXCEPT ![s] = TRUE]
              /\ out' = [out EXCEPT ![s] = "none"]
              /\ UNCHANGED <<row, phase, outFor, quiet, ejected>>
          BY <3>5, <4>1, Zenon DEF BeatReply
        <5> QED BY <5>1 DEF StopTimer
      <4>2. CASE ~beating[s]
        BY <3>5, <4>2 DEF BeatReply
      <4> QED BY <4>1, <4>2
    <3> QED BY <2>4, <3>1, <3>2, <3>3, <3>4, <3>5 DEF Beat
  <2>5. ASSUME NEW s \in Sessions, Finish(s) PROVE TypeOK'
    <3>1. CASE EndSession(s)
      BY <3>1 DEF EndSession, StopTimer
    <3>2. CASE Release(s)
      BY <3>2 DEF Release, ClearRow, Leave, WedgeBound
    <3>3. CASE ReleaseErrors(s)
      BY <3>3 DEF ReleaseErrors, Leave
    <3>4. CASE Crash(s)
      BY <3>4 DEF Crash, StopTimer, Leave
    <3> QED BY <2>5, <3>1, <3>2, <3>3, <3>4 DEF Finish
  <2>6. CASE Reap
    BY <2>6 DEF Reap, ClearRow, WedgeBound
  <2>7. CASE Unlock
    BY <2>7 DEF Unlock, ClearRow, WedgeBound, Active
  <2>8. CASE Tick
    <3> USE <2>8 DEF Tick
    <3>1. left' \in -1 .. TTL /\ held' \in 0 .. WedgeBound
      BY DEF Lapsing, Capped, WedgeBound
    <3>2. quiet' \in [Sessions -> 0 .. TTL + 1] /\ age' \in [Sessions -> 0 .. MaxSession]
      BY DEF Capped
    <3>3. outFor' \in [Sessions -> 0 .. MaxOut]
      OBVIOUS
    <3> QED BY <3>1, <3>2, <3>3
  <2>9. CASE UNCHANGED vars
    BY <2>9 DEF vars
  <2> QED BY <2>1, <2>2, <2>3, <2>4, <2>5, <2>6, <2>7, <2>8, <2>9 DEF Next
<1> QED BY <1>1, <1>2, PTL DEF Spec

-----------------------------------------------------------------------------
(* Only Start makes a session active. *)
LEMMA OnlyStartActivates ==
  ASSUME TypeOK, [Next]_vars, NEW t \in Sessions, Active(t)', ~Active(t)
  PROVE  Start(t)
<1> USE DEF TypeOK, Active, row, beats
<1>1. ASSUME NEW s \in Sessions, Start(s) PROVE Start(t)
  BY <1>1 DEF Start
<1>2. ASSUME NEW s \in Sessions, Acquiring(s) PROVE FALSE
  BY <1>2 DEF Acquiring, AttemptWins, AttemptBusy, AttemptSaturated, AttemptFails, Leave
<1>3. ASSUME NEW s \in Sessions, StartHeartbeat(s) PROVE FALSE
  BY <1>3 DEF StartHeartbeat
<1>4. ASSUME NEW s \in Sessions, Beat(s) PROVE FALSE
  BY <1>4 DEF Beat, BeatSend, GiveUp, BeatLands, BeatErrors, BeatReply
<1>5. ASSUME NEW s \in Sessions, Finish(s) PROVE FALSE
  BY <1>5 DEF Finish, EndSession, Release, ReleaseErrors, Crash, Leave
<1>6. ASSUME Reap \/ Unlock \/ Tick \/ UNCHANGED vars PROVE FALSE
  BY <1>6 DEF Reap, Unlock, Tick, vars
<1> QED BY <1>1, <1>2, <1>3, <1>4, <1>5, <1>6 DEF Next

(* Without a fan-out of write steps, one execution has one session at a time. *)
THEOREM StepsDoNotOverlap ==
  ASSUME ~ParallelSteps PROVE Spec => []NoOverlap
<1>1. Init => NoOverlap
  BY DEF Init, NoOverlap, Active
<1>2. TypeOK /\ NoOverlap /\ [Next]_vars => NoOverlap'
  <2> SUFFICES ASSUME TypeOK, NoOverlap, [Next]_vars,
                      NEW s \in Sessions, NEW t \in Sessions,
                      Exec[s] = Exec[t], Active(s)', Active(t)', s # t
               PROVE  FALSE
    BY DEF NoOverlap
  <2>1. CASE Active(s) /\ Active(t)
    BY <2>1 DEF NoOverlap
  <2>2. CASE ~Active(s)
    <3>1. Start(s)
      BY <2>2, OnlyStartActivates
    <3> QED BY <3>1 DEF Start, Active, TypeOK
  <2>3. CASE ~Active(t)
    <3>1. Start(t)
      BY <2>3, OnlyStartActivates
    <3> QED BY <3>1 DEF Start, Active, TypeOK
  <2> QED BY <2>1, <2>2, <2>3
<1> QED BY <1>1, <1>2, TypeCorrect, PTL DEF Spec

(* So the execution in the row identifies the session that took it. *)
THEOREM RowIdentifiesSession ==
  ASSUME ~ParallelSteps PROVE Spec => []RowIsOwn
<1>1. Init => RowIsOwn
  BY DEF Init, RowIsOwn
<1>2. TypeOK /\ NoOverlap /\ RowIsOwn /\ [Next]_vars => RowIsOwn'
  <2> SUFFICES ASSUME TypeOK, NoOverlap, RowIsOwn, [Next]_vars PROVE RowIsOwn'
    OBVIOUS
  <2> USE LockAssumption DEF TypeOK, RowIsOwn, row, beats
  <2>1. ASSUME NEW s \in Sessions, Start(s) PROVE RowIsOwn'
    BY <2>1 DEF Start
  <2>2. ASSUME NEW s \in Sessions, phase[s] = "trying", TakeRow(s),
               phase' = [phase EXCEPT ![s] = "won"] \/ phase' = [phase EXCEPT ![s] = "done"]
        PROVE  RowIsOwn'
    <3>1. SUFFICES ASSUME NEW t \in Sessions,
                          phase'[t] \in {"won", "open", "ending"}, by' = Exec[t], t # s
                   PROVE  FALSE
      BY <2>2 DEF TakeRow
    <3>2. Active(s) /\ Active(t) /\ Exec[s] = Exec[t]
      BY <2>2, <3>1 DEF TakeRow, Active
    <3> QED BY <3>1, <3>2 DEF NoOverlap
  <2>3. ASSUME NEW s \in Sessions, Acquiring(s) PROVE RowIsOwn'
    <3>1. CASE AttemptWins(s)
      BY <3>1, <2>2 DEF AttemptWins
    <3>2. CASE AttemptBusy(s) \/ AttemptSaturated(s)
      BY <3>2 DEF AttemptBusy, AttemptSaturated, Leave
    <3>3. CASE AttemptFails(s)
      <4>1. CASE TakeRow(s)
        BY <3>3, <4>1, <2>2 DEF AttemptFails, Leave
      <4>2. CASE UNCHANGED row
        BY <3>3, <4>2 DEF AttemptFails, Leave
      <4> QED BY <3>3, <4>1, <4>2 DEF AttemptFails
    <3> QED BY <2>3, <3>1, <3>2, <3>3 DEF Acquiring
  <2>4. ASSUME NEW s \in Sessions, StartHeartbeat(s) PROVE RowIsOwn'
    BY <2>4 DEF StartHeartbeat
  <2>5. ASSUME NEW s \in Sessions, Beat(s) PROVE RowIsOwn'
    BY <2>5 DEF Beat, BeatSend, GiveUp, BeatLands, BeatErrors, BeatReply
  <2>6. ASSUME NEW s \in Sessions, Finish(s) PROVE RowIsOwn'
    BY <2>6 DEF Finish, EndSession, Release, ReleaseErrors, Crash, Leave, ClearRow
  <2>7. CASE Reap \/ Unlock \/ Tick \/ UNCHANGED vars
    BY <2>7 DEF Reap, Unlock, Tick, ClearRow, vars
  <2> QED BY <2>1, <2>3, <2>4, <2>5, <2>6, <2>7 DEF Next
<1> QED BY <1>1, <1>2, TypeCorrect, StepsDoNotOverlap, PTL DEF Spec

-----------------------------------------------------------------------------
(* A release frees only the row its own session took. *)
THEOREM ReleaseIsFenced ==
  ASSUME ~ParallelSteps PROVE Spec => ReleaseFreesOwnRow
<1>1. TypeOK /\ RowIsOwn /\ [Next]_vars =>
        [\A s \in Sessions : phase[s] = "ending" /\ phase'[s] = "done" /\ owner' # owner
           => owner = s]_vars
  <2> SUFFICES ASSUME TypeOK, RowIsOwn, [Next]_vars, NEW s \in Sessions,
                      phase[s] = "ending", phase'[s] = "done", owner' # owner
               PROVE  owner = s
    OBVIOUS
  <2> USE DEF TypeOK, row, beats
  <2>1. ASSUME NEW t \in Sessions, Start(t) PROVE FALSE
    BY <2>1 DEF Start
  <2>2. ASSUME NEW t \in Sessions, Acquiring(t) PROVE FALSE
    BY <2>2 DEF Acquiring, AttemptWins, AttemptBusy, AttemptSaturated, AttemptFails, Leave
  <2>3. ASSUME NEW t \in Sessions, StartHeartbeat(t) PROVE FALSE
    BY <2>3 DEF StartHeartbeat
  <2>4. ASSUME NEW t \in Sessions, Beat(t) PROVE FALSE
    BY <2>4 DEF Beat, BeatSend, GiveUp, BeatLands, BeatErrors, BeatReply
  <2>5. ASSUME NEW t \in Sessions, Finish(t) PROVE owner = s
    BY <2>5 DEF Finish, EndSession, Release, ReleaseErrors, Crash, Leave, RowIsOwn
  <2>6. CASE Reap \/ Unlock \/ Tick \/ UNCHANGED vars
    BY <2>6 DEF Reap, Unlock, Tick, vars
  <2> QED BY <2>1, <2>2, <2>3, <2>4, <2>5, <2>6 DEF Next
<1> QED BY <1>1, TypeCorrect, RowIdentifiesSession, PTL DEF Spec, ReleaseFreesOwnRow

-----------------------------------------------------------------------------
(* If a beat lands within every TTL, a live session's expiry stays ahead. *)
THEOREM ExpiryStaysFresh ==
  ASSUME ~ParallelSteps PROVE Spec => [](Timely => FreshExpiry)
<1>1. Init => FreshExpiry
  BY LockAssumption DEF Init, FreshExpiry, Live
<1>2. LockInv /\ Timely /\ [Next]_vars => FreshExpiry'
  <2> SUFFICES ASSUME LockInv, Timely, [Next]_vars PROVE FreshExpiry'
    OBVIOUS
  <2>0. env' = env /\ env.quiet \in Nat
    BY LockAssumption DEF Next, vars, LockInv, TypeOK
  <2> USE <2>0, LockAssumption DEF LockInv, TypeOK, FreshExpiry, Live, Takeable, Timely, row, beats
  <2>1. ASSUME NEW s \in Sessions, Start(s) PROVE FreshExpiry'
    BY <2>1 DEF Start
  <2>2. ASSUME NEW s \in Sessions, Acquiring(s) PROVE FreshExpiry'
    <3>1. CASE AttemptWins(s)
      BY <3>1 DEF AttemptWins, TakeRow, Lapsing
    <3>2. CASE AttemptBusy(s) \/ AttemptSaturated(s)
      BY <3>2 DEF AttemptBusy, AttemptSaturated, Leave
    <3>3. CASE AttemptFails(s)
      BY <3>3 DEF AttemptFails, TakeRow, Leave
    <3> QED BY <2>2, <3>1, <3>2, <3>3 DEF Acquiring
  <2>3. ASSUME NEW s \in Sessions, StartHeartbeat(s) PROVE FreshExpiry'
    BY <2>3 DEF StartHeartbeat
  <2>4. ASSUME NEW s \in Sessions, Beat(s) PROVE FreshExpiry'
    <3>1. CASE BeatSend(s) \/ BeatErrors(s)
      BY <3>1 DEF BeatSend, BeatErrors
    <3>2. CASE GiveUp(s) \/ BeatReply(s)
      BY <3>2 DEF GiveUp, BeatReply
    <3>3. CASE BeatLands(s)
      BY <3>3 DEF BeatLands
    <3> QED BY <2>4, <3>1, <3>2, <3>3 DEF Beat
  <2>5. ASSUME NEW s \in Sessions, Finish(s) PROVE FreshExpiry'
    <3>1. CASE EndSession(s)
      BY <3>1 DEF EndSession
    <3>2. CASE Release(s)
      <4>1. ASSUME NEW t \in Sessions, Live(t), by = Exec[s] PROVE t = s
        BY <3>2, <4>1 DEF Release, NoOverlap, Active
      <4> QED BY <3>2, <4>1 DEF Release, ClearRow, Leave
    <3>3. CASE ReleaseErrors(s) \/ Crash(s)
      BY <3>3 DEF ReleaseErrors, Crash, Leave
    <3> QED BY <2>5, <3>1, <3>2, <3>3 DEF Finish
  <2>6. CASE Reap
    BY <2>6 DEF Reap, ClearRow
  <2>7. CASE Unlock
    BY <2>7 DEF Unlock, ClearRow, Active
  <2>8. CASE Tick
    BY <2>8 DEF Tick, Capped, Lapsing
  <2>9. CASE UNCHANGED vars
    BY <2>9 DEF vars
  <2> QED BY <2>1, <2>2, <2>3, <2>4, <2>5, <2>6, <2>7, <2>8, <2>9 DEF Next
<1>3. [Next]_vars => (Timely' <=> Timely)
  BY DEF Next, vars, Timely
<1> QED BY <1>1, <1>2, <1>3, TypeCorrect, StepsDoNotOverlap, RowIdentifiesSession, PTL
        DEF Spec, LockInv

(* The lock serialises the wallet's writers. *)
THEOREM WritersAreSerialised ==
  ASSUME ~ParallelSteps PROVE Spec => []MutualExclusion
<1>1. TypeOK /\ (Timely => FreshExpiry) => MutualExclusion
  <2> SUFFICES ASSUME TypeOK, Timely, FreshExpiry, NEW s \in Sessions, Live(s)
               PROVE  /\ owner = s /\ by = Exec[s] /\ ~Takeable
                      /\ left >= TTL - env.quiet
                      /\ \A t \in Sessions : Live(t) => t = s
    BY DEF MutualExclusion
  <2>0. env.quiet \in Nat
    BY LockAssumption DEF TypeOK
  <2>1. owner = s /\ by = Exec[s] /\ left >= TTL - quiet[s] /\ quiet[s] <= env.quiet
    BY DEF FreshExpiry
  <2>2. ~Takeable /\ left >= TTL - env.quiet
    BY <2>0, <2>1, LockAssumption DEF TypeOK, Takeable, Timely
  <2>3. \A t \in Sessions : Live(t) => t = s
    BY <2>1 DEF FreshExpiry
  <2> QED BY <2>1, <2>2, <2>3
<1> QED BY <1>1, TypeCorrect, ExpiryStaysFresh, PTL

-----------------------------------------------------------------------------
(* A session becomes live only by winning the row. *)
LEMMA OnlyWinnersGoLive ==
  ASSUME TypeOK, [Next]_vars, NEW t \in Sessions, Live(t)', ~Live(t)
  PROVE  AttemptWins(t)
<1> USE DEF TypeOK, Live, row, beats
<1>1. ASSUME NEW s \in Sessions, Start(s) PROVE FALSE
  BY <1>1 DEF Start
<1>2. ASSUME NEW s \in Sessions, Acquiring(s) PROVE AttemptWins(t)
  <2>1. CASE AttemptWins(s)
    BY <2>1 DEF AttemptWins
  <2>2. CASE AttemptBusy(s) \/ AttemptSaturated(s) \/ AttemptFails(s)
    BY <2>2 DEF AttemptBusy, AttemptSaturated, AttemptFails, Leave
  <2> QED BY <1>2, <2>1, <2>2 DEF Acquiring
<1>3. ASSUME NEW s \in Sessions, StartHeartbeat(s) PROVE FALSE
  BY <1>3 DEF StartHeartbeat
<1>4. ASSUME NEW s \in Sessions, Beat(s) PROVE FALSE
  BY <1>4 DEF Beat, BeatSend, GiveUp, BeatLands, BeatErrors, BeatReply
<1>5. ASSUME NEW s \in Sessions, Finish(s) PROVE FALSE
  BY <1>5 DEF Finish, EndSession, Release, ReleaseErrors, Crash, Leave
<1>6. ASSUME Reap \/ Unlock \/ Tick \/ UNCHANGED vars PROVE FALSE
  BY <1>6 DEF Reap, Unlock, Tick, vars
<1> QED BY <1>1, <1>2, <1>3, <1>4, <1>5, <1>6 DEF Next

(* With mutual exclusion, the live session is the one CHOOSE picks. *)
LEMMA LiveIsHolder ==
  ASSUME MutualExclusion, Timely, NEW s \in Sessions, Live(s) PROVE liveHolder = s
BY DEF MutualExclusion, liveHolder

(* The lock implements the abstract lease: the right to allocate nonces     *)
(* passes between sessions only through a moment when nobody has it.        *)
THEOREM LockImplementsLease ==
  ASSUME ~ParallelSteps PROVE Spec => ImplementsLease
<1>1. Init => Lease!LeaseInit
  BY DEF Init, Lease!LeaseInit, liveHolder, Live
<1>2. TypeOK /\ MutualExclusion /\ MutualExclusion' /\ [Next]_vars
        => [Lease!LeaseNext]_liveHolder
  <2> SUFFICES ASSUME TypeOK, MutualExclusion, MutualExclusion', [Next]_vars
               PROVE  Lease!LeaseNext \/ liveHolder' = liveHolder
    OBVIOUS
  <2>0. Timely' = Timely
    BY DEF Next, vars, Timely
  <2>1. CASE ~Timely
    BY <2>0, <2>1 DEF liveHolder
  <2>2. ASSUME Timely, NEW t \in Sessions, Live(t)', ~Live(t) PROVE Lease!LeaseNext
    <3>1. Takeable
      BY <2>2, OnlyWinnersGoLive DEF AttemptWins, TakeRow
    <3>2. liveHolder = None
      BY <2>2, <3>1 DEF MutualExclusion, liveHolder
    <3>3. liveHolder' = t
      BY <2>0, <2>2 DEF MutualExclusion, liveHolder
    <3> QED BY <3>2, <3>3 DEF Lease!LeaseNext, Lease!Grant
  <2>3. ASSUME Timely, \A t \in Sessions : Live(t)' => Live(t)
        PROVE  Lease!LeaseNext \/ liveHolder' = liveHolder
    <3>1. CASE \E t \in Sessions : Live(t)'
      <4>1. PICK t \in Sessions : Live(t)'
        BY <3>1
      <4>2. liveHolder' = t
        BY <2>0, <2>3, <4>1 DEF MutualExclusion, liveHolder
      <4>3. liveHolder = t
        BY <4>1, <2>3, LiveIsHolder
      <4> QED BY <4>2, <4>3
    <3>2. CASE ~ \E t \in Sessions : Live(t)'
      BY <3>2 DEF liveHolder, Lease!LeaseNext, Lease!Drop
    <3> QED BY <3>1, <3>2
  <2> QED BY <2>1, <2>2, <2>3
<1> QED BY <1>1, <1>2, TypeCorrect, WritersAreSerialised, PTL
        DEF Spec, ImplementsLease, Lease!LeaseSpec

-----------------------------------------------------------------------------
(* Where a session's timer and its extension can be. *)
TimersAreOpen ==
  \A s \in Sessions :
    /\ beating[s] => phase[s] = "open"
    /\ phase[s] \in {"idle", "trying", "won"} => out[s] = "none"
    /\ beating[s] /\ out[s] = "miss" => owner # s

LEMMA StepTimers == TypeOK /\ TimersAreOpen /\ [Next]_vars => TimersAreOpen'
<1> SUFFICES ASSUME TypeOK, TimersAreOpen, [Next]_vars PROVE TimersAreOpen'
  OBVIOUS
<1> USE LockAssumption DEF TypeOK, TimersAreOpen, row, beats
<1>1. ASSUME NEW s \in Sessions, Start(s) PROVE TimersAreOpen'
  BY <1>1 DEF Start
<1>2. ASSUME NEW s \in Sessions, Acquiring(s) PROVE TimersAreOpen'
  <2>1. CASE AttemptWins(s)
    BY <2>1 DEF AttemptWins, TakeRow
  <2>2. CASE AttemptBusy(s) \/ AttemptSaturated(s)
    BY <2>2 DEF AttemptBusy, AttemptSaturated, Leave
  <2>3. CASE AttemptFails(s)
    BY <2>3 DEF AttemptFails, TakeRow, Leave
  <2> QED BY <1>2, <2>1, <2>2, <2>3 DEF Acquiring
<1>3. ASSUME NEW s \in Sessions, StartHeartbeat(s) PROVE TimersAreOpen'
  BY <1>3 DEF StartHeartbeat
<1>4. ASSUME NEW s \in Sessions, Beat(s) PROVE TimersAreOpen'
  <2>1. CASE BeatSend(s)
    BY <2>1 DEF BeatSend
  <2>2. CASE GiveUp(s)
    BY <2>2 DEF GiveUp, StopTimer
  <2>3. CASE BeatLands(s)
    BY <2>3 DEF BeatLands
  <2>4. CASE BeatErrors(s)
    BY <2>4 DEF BeatErrors
  <2>5. CASE BeatReply(s)
    BY <2>5 DEF BeatReply, StopTimer
  <2> QED BY <1>4, <2>1, <2>2, <2>3, <2>4, <2>5 DEF Beat
<1>5. ASSUME NEW s \in Sessions, Finish(s) PROVE TimersAreOpen'
  BY <1>5 DEF Finish, EndSession, Release, ReleaseErrors, Crash, StopTimer, Leave, ClearRow
<1>6. CASE Reap \/ Unlock \/ Tick \/ UNCHANGED vars
  BY <1>6 DEF Reap, Unlock, Tick, ClearRow, vars
<1> QED BY <1>1, <1>2, <1>3, <1>4, <1>5, <1>6 DEF Next

LEMMA TimersAreFenced == Spec => []TimersAreOpen
<1>1. Init => TimersAreOpen
  BY DEF Init, TimersAreOpen
<1> QED BY <1>1, StepTimers, TypeCorrect, PTL DEF Spec

(* Only a session that is open is told that its lock is lost, and only when *)
(* somebody else's statement took or cleared the row, or it has outlived    *)
(* its deadline; parallel steps and an untimely database included.          *)
THEOREM LossIsTrue == Spec => NoFalseLoss
<1>1. TypeOK /\ TimersAreOpen /\ [Next]_vars =>
        [\A s \in Sessions : ~lost[s] /\ lost'[s]
           => phase[s] = "open" /\ (owner # s \/ age[s] >= MaxSession)]_vars
  <2> SUFFICES ASSUME TypeOK, TimersAreOpen, [Next]_vars,
                      NEW s \in Sessions, ~lost[s], lost'[s]
               PROVE  phase[s] = "open" /\ (owner # s \/ age[s] >= MaxSession)
    OBVIOUS
  <2> USE DEF TypeOK, TimersAreOpen, row, beats
  <2>1. ASSUME NEW t \in Sessions, Start(t) \/ Acquiring(t) \/ StartHeartbeat(t) \/ Finish(t)
        PROVE  FALSE
    BY <2>1 DEF Start, Acquiring, AttemptWins, AttemptBusy, AttemptSaturated, AttemptFails,
                StartHeartbeat, Finish, EndSession, Release, ReleaseErrors, Crash
  <2>2. ASSUME NEW t \in Sessions, Beat(t)
        PROVE  phase[s] = "open" /\ (owner # s \/ age[s] >= MaxSession)
    BY <2>2 DEF Beat, BeatSend, GiveUp, BeatLands, BeatErrors, BeatReply
  <2>3. CASE Reap \/ Unlock \/ Tick \/ UNCHANGED vars
    BY <2>3 DEF Reap, Unlock, Tick, vars
  <2> QED BY <2>1, <2>2, <2>3 DEF Next
<1> QED BY <1>1, TypeCorrect, TimersAreFenced, PTL DEF Spec, NoFalseLoss

-----------------------------------------------------------------------------
(* An extension was sent before its session's deadline, so the row it finds *)
(* has been held no longer than that and the time it was out; and what is   *)
(* left of a row's TTL and the time it was held stay within the bound.      *)
HeldInBounds ==
  /\ \A s \in Sessions : out[s] = "sent" /\ by = Exec[s] => held < MaxSession + outFor[s]
  /\ \A s \in Sessions : owner = s /\ beating[s] /\ age[s] < MaxSession => held <= age[s]
  /\ owner # None /\ left >= 0 => held + left < WedgeBound

LEMMA StepHeld ==
  ASSUME MaxSession > 0
  PROVE  TypeOK /\ RowIsOwn /\ TimersAreOpen /\ HeldInBounds /\ [Next]_vars => HeldInBounds'
<1> SUFFICES ASSUME TypeOK, RowIsOwn, TimersAreOpen, HeldInBounds, [Next]_vars
             PROVE  HeldInBounds'
  OBVIOUS
<1> USE LockAssumption DEF TypeOK, HeldInBounds, WedgeBound, row, beats
<1>1. ASSUME NEW s \in Sessions, Start(s) PROVE HeldInBounds'
  BY <1>1 DEF Start
<1>2. ASSUME NEW s \in Sessions, phase[s] = "trying", TakeRow(s), UNCHANGED beats
      PROVE  HeldInBounds'
  BY <1>2 DEF TakeRow, Lapsing, TimersAreOpen
<1>3. ASSUME NEW s \in Sessions, Acquiring(s) PROVE HeldInBounds'
  BY <1>2, <1>3 DEF Acquiring, AttemptWins, AttemptBusy, AttemptSaturated, AttemptFails, Leave
<1>4. ASSUME NEW s \in Sessions, StartHeartbeat(s) PROVE HeldInBounds'
  BY <1>4 DEF StartHeartbeat
<1>5. ASSUME NEW s \in Sessions, Beat(s) PROVE HeldInBounds'
  <2>1. CASE BeatSend(s)
    <3>1. by = Exec[s] => owner = s
      BY <2>1 DEF BeatSend, RowIsOwn, TimersAreOpen
    <3> QED BY <2>1, <3>1 DEF BeatSend
  <2>2. CASE GiveUp(s)
    BY <2>2 DEF GiveUp, StopTimer
  <2>3. CASE BeatLands(s)
    BY <2>3 DEF BeatLands
  <2>4. CASE BeatErrors(s)
    BY <2>4 DEF BeatErrors
  <2>5. CASE BeatReply(s)
    BY <2>5 DEF BeatReply, StopTimer
  <2> QED BY <1>5, <2>1, <2>2, <2>3, <2>4, <2>5 DEF Beat
<1>6. ASSUME NEW s \in Sessions, Finish(s) PROVE HeldInBounds'
  BY <1>6 DEF Finish, EndSession, Release, ReleaseErrors, Crash, StopTimer, Leave, ClearRow
<1>7. CASE Reap \/ Unlock
  BY <1>7 DEF Reap, Unlock, ClearRow
<1>8. CASE Tick
  BY <1>8 DEF Tick, Capped, Lapsing
<1>9. CASE UNCHANGED vars
  BY <1>9 DEF vars
<1> QED BY <1>1, <1>3, <1>4, <1>5, <1>6, <1>7, <1>8, <1>9 DEF Next

(* However its holder behaves, dies or hangs, the wallet is not wedged: a   *)
(* row that still keeps others out has been held for less than the sum of   *)
(* the session limit, the longest statement and one TTL.                    *)
THEOREM WedgesAreBounded ==
  ASSUME ~ParallelSteps, MaxSession > 0 PROVE Spec => []WedgeBounded
<1>1. Init => HeldInBounds
  BY DEF Init, HeldInBounds
<1>2. TypeOK /\ HeldInBounds => WedgeBounded
  BY LockAssumption DEF TypeOK, HeldInBounds, WedgeBounded, WedgeBound
<1> QED BY <1>1, <1>2, StepHeld, TypeCorrect, RowIdentifiesSession, TimersAreFenced, PTL DEF Spec
=============================================================================
