----------------------- MODULE DirectExecutionProofs ------------------------
(***************************************************************************)
(* Theorems about DirectExecution, for every number of requests, steps and  *)
(* keys, whatever they move and however long the clock runs.                *)
(***************************************************************************)
EXTENDS DirectExecution, SumProofs, TLAPS

LEMMA InitTyped == Init => TypeOK
<1> SUFFICES ASSUME Init PROVE TypeOK
  OBVIOUS
<1>1. env \in Environments /\ env.until \in Nat
  BY DirectAssumption DEF Init
<1>2. NoRecord \in Records
  BY DEF NoRecord, Records
<1>3. /\ record \in [Keys -> Records]
      /\ at \in [Movers -> {"idle", "over", "dead"} \cup Beginning \cup Holding]
      /\ \A m \in Movers : at[m] = "idle"
  BY <1>2 DEF Init
<1>4. 0 \in 0 .. env.until /\ 0 \in 0 .. MaxRaceRetries /\ 0 \in 0 .. now
  BY <1>1, DirectAssumption DEF Init
<1>5. /\ seen \in [Requests -> Requests \cup {Nobody}]
      /\ tries \in [Requests -> 0 .. MaxRaceRetries] /\ beats \subseteq Requests
      /\ kept \in [Requests -> Int] /\ cutShort \subseteq Requests
      /\ past \in [Requests -> SUBSET Requests] /\ overlooked \subseteq Movers
  BY <1>4 DEF Init
<1>6. /\ created \in [Movers -> 0 .. now] /\ now \in 0 .. env.until
      /\ lock \in Movers \cup {Nobody} /\ capRow \in BOOLEAN
  BY <1>4 DEF Init
<1> QED BY <1>1, <1>3, <1>5, <1>6 DEF Init, TypeOK, Beginning

(* What the statements that write a record leave of it, and of the others.  *)
OnlyRecord(r) ==
  /\ record' \in [Keys -> Records]
  /\ \A k \in Keys : k # KeyOf[r] => record'[k] = record[k]

LEMMA HoldEffect ==
  ASSUME TypeOK, NEW r \in Requests, KeyOf[r] # NoKey, Hold(r)
  PROVE  /\ OnlyRecord(r) /\ past' \in [Requests -> SUBSET Requests]
         /\ at' = [at EXCEPT ![r] = "gate"]
         /\ record'[KeyOf[r]].by = r
         /\ record'[KeyOf[r]].status = "processing"
         /\ record'[KeyOf[r]].said = "nothing"
         /\ record'[KeyOf[r]].expires = now + ProcessingTTL
<1> DEFINE x == [by |-> r, status |-> "processing", said |-> "nothing",
                 expires |-> now + ProcessingTTL]
<1>1. KeyOf[r] \in Keys /\ now \in Nat /\ ProcessingTTL \in Nat
  BY DirectAssumption DEF TypeOK
<1>2. x \in Records
  BY <1>1 DEF Records
<1>3. record' = [record EXCEPT ![KeyOf[r]] = x]
  BY DEF Hold
<1>4. past' \in [Requests -> SUBSET Requests]
  BY DEF Hold, TypeOK
<1> QED BY <1>1, <1>2, <1>3, <1>4 DEF TypeOK, OnlyRecord, Hold, Go

LEMMA BeatEffect ==
  ASSUME TypeOK, NEW r \in Requests, Fenced(r), BeatLands(r)
  PROVE  /\ OnlyRecord(r)
         /\ record'[KeyOf[r]].by = r
         /\ record'[KeyOf[r]].status = record[KeyOf[r]].status
         /\ record'[KeyOf[r]].said = record[KeyOf[r]].said
         /\ record'[KeyOf[r]].expires = now + ProcessingTTL
<1> DEFINE x == [record[KeyOf[r]] EXCEPT !.expires = now + ProcessingTTL]
<1>1. /\ KeyOf[r] \in Keys /\ now + ProcessingTTL \in Nat
      /\ record[KeyOf[r]] \in Records /\ record[KeyOf[r]].by = r
  BY DirectAssumption DEF TypeOK, Fenced
<1>2. /\ x \in Records /\ x.by = r /\ x.expires = now + ProcessingTTL
      /\ x.status = record[KeyOf[r]].status /\ x.said = record[KeyOf[r]].said
  BY <1>1 DEF Records
<1>3. record' = [record EXCEPT ![KeyOf[r]] = x]
  BY DEF BeatLands
<1> QED BY <1>1, <1>2, <1>3 DEF TypeOK, OnlyRecord

LEMMA FinalizeEffect ==
  ASSUME TypeOK, NEW r \in Requests, Fenced(r), Finalize(r),
         verdict[r] \in {"completed", "failed", "unconfirmed"}
  PROVE  /\ OnlyRecord(r)
         /\ record'[KeyOf[r]].by = r
         /\ record'[KeyOf[r]].status \in {"completed", "failed"}
         /\ record'[KeyOf[r]].said = verdict[r]
         /\ record'[KeyOf[r]].expires = now + Day
         /\ kept' = [kept EXCEPT ![r] = now + Day]
<1> DEFINE x == [record[KeyOf[r]] EXCEPT
                   !.status  = IF Disposition(r) = "success" THEN "completed" ELSE "failed",
                   !.said    = verdict[r],
                   !.expires = now + Day]
<1>1. /\ KeyOf[r] \in Keys /\ now + Day \in Nat
      /\ record[KeyOf[r]] \in Records /\ record[KeyOf[r]].by = r
  BY DirectAssumption DEF TypeOK, Fenced
<1>2. /\ x \in Records /\ x.by = r /\ x.expires = now + Day
      /\ x.status \in {"completed", "failed"} /\ x.said = verdict[r]
  BY <1>1 DEF Records
<1>3. record' = [record EXCEPT ![KeyOf[r]] = x] /\ kept' = [kept EXCEPT ![r] = now + Day]
  BY DEF Finalize
<1> QED BY <1>1, <1>2, <1>3 DEF TypeOK, OnlyRecord

LEMMA ReleaseEffect ==
  ASSUME TypeOK, NEW r \in Requests, Fenced(r), Release(r)
  PROVE  OnlyRecord(r) /\ record'[KeyOf[r]] = NoRecord /\ kept' = kept
<1>1. KeyOf[r] \in Keys /\ NoRecord \in Records
  BY DirectAssumption DEF Fenced, NoRecord, Records
<1> QED BY <1>1 DEF TypeOK, OnlyRecord, Release

LEMMA StepTyped == TypeOK /\ [Next]_vars => TypeOK'
<1> SUFFICES ASSUME TypeOK, [Next]_vars PROVE TypeOK'
  OBVIOUS
<1>t. env \in Environments /\ env.until \in Nat /\ now \in Nat
  BY DirectAssumption DEF TypeOK
<1>k. /\ \A r \in Requests : KeyOf[r] # NoKey => KeyOf[r] \in Keys
      /\ Requests \subseteq Movers /\ Steps \subseteq Movers /\ Nobody \notin Movers
      /\ \A s \in Steps : s \notin Requests
      /\ ProcessingTTL \in Nat /\ Day \in Nat /\ MaxRaceRetries \in Nat
  BY DirectAssumption DEF Movers
<1> USE DEF TypeOK, key, keyGhost, result, capVars, Go, Beginning, Holding
<1>1. ASSUME NEW r \in Requests, Reserve(r) PROVE TypeOK'
  <2>1. CASE Hold(r)
    BY <1>1, <2>1, <1>t, <1>k, HoldEffect DEF Reserve, OnlyRecord
  <2>2. CASE Go(r, "looking") /\ UNCHANGED <<record, past>>
    BY <1>1, <2>2, <1>t, <1>k DEF Reserve
  <2> QED BY <1>1, <2>1, <2>2 DEF Reserve
<1>2. ASSUME NEW r \in Requests, Look(r) PROVE TypeOK'
  <2>1. at' = [at EXCEPT ![r] = at'[r]] /\ at'[r] \in {"reserving", "reclaiming", "over"}
    BY <1>2, <1>k DEF Look, LoseRace
  <2>2. seen' \in [Requests -> Requests \cup {Nobody}]
    BY <1>2, <1>k DEF Look, Records
  <2>3. tries' \in [Requests -> 0 .. MaxRaceRetries]
    BY <1>2, <1>k DEF Look, LoseRace
  <2> QED BY <1>2, <2>1, <2>2, <2>3, <1>t, <1>k DEF Look
<1>3. ASSUME NEW r \in Requests, Reclaim(r) PROVE TypeOK'
  <2>1. CASE Hold(r) /\ UNCHANGED tries
    BY <1>3, <2>1, <1>t, <1>k, HoldEffect DEF Reclaim, OnlyRecord
  <2>2. CASE LoseRace(r) /\ UNCHANGED <<record, past>>
    BY <1>3, <2>2, <1>t, <1>k DEF Reclaim, LoseRace
  <2> QED BY <1>3, <2>1, <2>2 DEF Reclaim
<1>4. ASSUME NEW r \in Requests, Beat(r) PROVE TypeOK'
  BY <1>4, <1>t, <1>k DEF Beat
<1>5. ASSUME NEW r \in Requests, BeatLands(r) PROVE TypeOK'
  <2>1. CASE Fenced(r)
    BY <1>5, <2>1, <1>t, <1>k, BeatEffect DEF BeatLands, OnlyRecord
  <2>2. CASE ~Fenced(r)
    BY <1>5, <2>2, <1>t, <1>k DEF BeatLands
  <2> QED BY <2>1, <2>2
<1>6. ASSUME NEW r \in Requests, BeatLost(r) PROVE TypeOK'
  BY <1>6, <1>t, <1>k DEF BeatLost
<1>7. ASSUME NEW r \in Requests, Charge(r) PROVE TypeOK'
  BY <1>7, <1>t, <1>k DEF Charge, Refuse
<1>8. ASSUME NEW r \in Requests, Verify(r) PROVE TypeOK'
  BY <1>8, <1>t, <1>k DEF Verify, Verdicts
<1>9. ASSUME NEW r \in Requests, Record(r) PROVE TypeOK'
  <2>1. CASE ~Fenced(r)
    BY <1>9, <2>1, <1>t, <1>k DEF Record
  <2>2. CASE Fenced(r) /\ Disposition(r) = "release"
    BY <1>9, <2>2, <1>t, <1>k, ReleaseEffect DEF Record, OnlyRecord
  <2>3. CASE Fenced(r) /\ Disposition(r) # "release"
    <3>1. verdict[r] \in {"completed", "failed", "unconfirmed"}
      BY <1>9, <2>3, <1>k DEF Record, Disposition
    <3> QED BY <1>9, <2>3, <3>1, <1>t, <1>k, FinalizeEffect DEF Record, OnlyRecord
  <2> QED BY <2>1, <2>2, <2>3
<1>10. ASSUME NEW r \in Requests, Reconcile(r) PROVE TypeOK'
  BY <1>10, <1>t, <1>k DEF Reconcile
<1>11. ASSUME NEW s \in Steps, SettleStep(s) PROVE TypeOK'
  <2>1. entry' \in [Movers -> {"none", "inflight", "completed", "unconfirmed", "failed"}]
    BY <1>11, <1>k DEF SettleStep
  <2>2. overlooked' \subseteq Movers
    BY <1>11, <1>k DEF SettleStep
  <2> QED BY <1>11, <2>1, <2>2, <1>t, <1>k DEF SettleStep
<1>12. ASSUME NEW s \in Steps, StepThrows(s) PROVE TypeOK'
  BY <1>12, <1>t, <1>k DEF StepThrows
<1>13. ASSUME NEW m \in Movers, Arrive(m) PROVE TypeOK'
  BY <1>13, <1>t, <1>k DEF Arrive
<1>14. ASSUME NEW m \in Movers, Open(m) PROVE TypeOK'
  BY <1>14, <1>t, <1>k DEF Open, Refuse, Reserved
<1>15. ASSUME NEW m \in Movers, LockCap(m) PROVE TypeOK'
  BY <1>15, <1>t, <1>k DEF LockCap
<1>16. ASSUME NEW m \in Movers, Sum(m) PROVE TypeOK'
  BY <1>16, <1>t, <1>k DEF Sum, Refuse, Missed
<1>17. ASSUME NEW m \in Movers, Insert(m) PROVE TypeOK'
  BY <1>17, <1>t, <1>k DEF Insert, Reserved
<1>18. ASSUME NEW m \in Movers, Send(m) PROVE TypeOK'
  BY <1>18, <1>t, <1>k DEF Send
<1>19. ASSUME NEW m \in Movers, CoreReturns(m) \/ CoreForgets(m) PROVE TypeOK'
  BY <1>19, <1>t, <1>k DEF CoreReturns, CoreForgets
<1>20. ASSUME NEW m \in Movers, Abandon(m) PROVE TypeOK'
  BY <1>20, <1>t, <1>k DEF Abandon
<1>21. ASSUME NEW m \in Movers, Resolve(m) PROVE TypeOK'
  BY <1>21, <1>t, <1>k DEF Resolve
<1>22. CASE Tick
  BY <1>22, <1>t, <1>k DEF Tick
<1>23. CASE UNCHANGED vars
  BY <1>23 DEF vars
<1> QED
  BY <1>1, <1>2, <1>3, <1>4, <1>5, <1>6, <1>7, <1>8, <1>9, <1>10, <1>11, <1>12,
     <1>13, <1>14, <1>15, <1>16, <1>17, <1>18, <1>19, <1>20, <1>21, <1>22, <1>23
  DEF Next, BeginKey, Beats, Handle, Move

(* Every variable keeps its type. *)
THEOREM DirectTypes == Spec => []TypeOK
BY InitTyped, StepTyped, PTL DEF Spec

-----------------------------------------------------------------------------
(* What a request's verdict says of its transaction. *)
Early == {"idle", "gate", "locking", "summing", "inserting", "charging"} \cup Beginning

Reported ==
  \A r \in Requests :
    /\ at[r] \in Early => tx[r] = "none"
    /\ at[r] \in Early \cup {"working"} => outcome[r] = "none" /\ verdict[r] = "none"
    /\ at[r] = "verifying" => outcome[r] \notin {"none", "threw"} /\ verdict[r] = "none"
    /\ outcome[r] \in {"rejected", "unexplained"} => tx[r] = "none"
    /\ outcome[r] = "forgotten" => tx[r] = "landed" /\ r \in overlooked
    /\ verdict[r] = "refused" => tx[r] = "none"
    /\ verdict[r] = "completed" => tx[r] = "landed"
    /\ verdict[r] = "failed" => \/ outcome[r] \in {"success", "hashed"} /\ tx[r] = "reverted"
                               \/ outcome[r] \in {"rejected", "unexplained", "forgotten"}

LEMMA StepReported == TypeOK /\ Reported /\ [Next]_vars => Reported'
<1> SUFFICES ASSUME TypeOK, Reported, [Next]_vars PROVE Reported'
  OBVIOUS
<1>k. /\ Requests \subseteq Movers /\ \A s \in Steps : s \notin Requests
      /\ at \in [Movers -> {"idle", "over", "dead"} \cup Beginning \cup Holding]
      /\ outcome \in [Movers -> {"none", "rejected", "unexplained", "attempted",
                                 "success", "hashed", "forgotten", "threw"}]
      /\ verdict \in [Movers -> {"none", "refused", "completed", "failed", "unconfirmed"}]
      /\ tx \in [Movers -> {"none", "out", "landed", "reverted", "dropped"}]
  BY DirectAssumption DEF Movers, TypeOK
<1> USE <1>k DEF Reported, Early, Beginning, Holding, key, keyGhost, result, capVars, Go
<1>1. ASSUME NEW r \in Requests, Reserve(r) PROVE Reported'
  BY <1>1 DEF Reserve, Hold
<1>2. ASSUME NEW r \in Requests, Look(r) PROVE Reported'
  BY <1>2 DEF Look, LoseRace
<1>3. ASSUME NEW r \in Requests, Reclaim(r) PROVE Reported'
  BY <1>3 DEF Reclaim, Hold, LoseRace
<1>4. ASSUME NEW r \in Requests, Beats(r) PROVE Reported'
  BY <1>4 DEF Beats, Beat, BeatLands, BeatLost
<1>5. ASSUME NEW r \in Requests, Charge(r) PROVE Reported'
  BY <1>5 DEF Charge, Refuse
<1>6. ASSUME NEW r \in Requests, Verify(r) PROVE Reported'
  BY <1>6 DEF Verify, Verdicts
<1>7. ASSUME NEW r \in Requests, Record(r) PROVE Reported'
  BY <1>7 DEF Record
<1>8. ASSUME NEW r \in Requests, Reconcile(r) PROVE Reported'
  BY <1>8 DEF Reconcile
<1>9. ASSUME NEW s \in Steps, SettleStep(s) \/ StepThrows(s) PROVE Reported'
  BY <1>9 DEF SettleStep, StepThrows
<1>10. ASSUME NEW m \in Movers, Arrive(m) PROVE Reported'
  BY <1>10 DEF Arrive
<1>11. ASSUME NEW m \in Movers, Open(m) PROVE Reported'
  BY <1>11 DEF Open, Refuse, Reserved
<1>12. ASSUME NEW m \in Movers, LockCap(m) PROVE Reported'
  BY <1>12 DEF LockCap
<1>13. ASSUME NEW m \in Movers, Sum(m) PROVE Reported'
  BY <1>13 DEF Sum, Refuse
<1>14. ASSUME NEW m \in Movers, Insert(m) PROVE Reported'
  BY <1>14 DEF Insert, Reserved
<1>15. ASSUME NEW m \in Movers, Send(m) PROVE Reported'
  BY <1>15 DEF Send
<1>16. ASSUME NEW m \in Movers, CoreReturns(m) \/ CoreForgets(m) PROVE Reported'
  BY <1>16 DEF CoreReturns, CoreForgets
<1>17. ASSUME NEW m \in Movers, Abandon(m) PROVE Reported'
  BY <1>17 DEF Abandon
<1>18. ASSUME NEW m \in Movers, Resolve(m) PROVE Reported'
  BY <1>18 DEF Resolve
<1>19. CASE Tick \/ UNCHANGED vars
  BY <1>19 DEF Tick, vars
<1> QED
  BY <1>1, <1>2, <1>3, <1>4, <1>5, <1>6, <1>7, <1>8, <1>9, <1>10, <1>11, <1>12,
     <1>13, <1>14, <1>15, <1>16, <1>17, <1>18, <1>19
  DEF Next, BeginKey, Handle, Move

LEMMA VerdictsAreReported == Spec => []Reported
<1>1. Init => Reported
  BY DirectAssumption DEF Init, Reported, Movers
<1> QED BY <1>1, DirectTypes, StepReported, PTL DEF Spec

-----------------------------------------------------------------------------
(* What a record answers with is the verdict of a request whose handler is  *)
(* done, and a failure is kept only where the core could not explain it.    *)
Answers ==
  \A k \in Keys : record[k].said # "nothing" =>
    LET r == record[k].by IN
      /\ r \in Requests /\ at[r] = "over"
      /\ record[k].said = verdict[r]
      /\ verdict[r] = "failed" => outcome[r] = "unexplained"

LEMMA OverIsOver ==
  ASSUME TypeOK, [Next]_vars, NEW r \in Requests, at[r] = "over"
  PROVE  at'[r] = "over" /\ outcome'[r] = outcome[r] /\ verdict'[r] = verdict[r]
<1>k. /\ Requests \subseteq Movers /\ \A s \in Steps : s \notin Requests
      /\ at \in [Movers -> {"idle", "over", "dead"} \cup Beginning \cup Holding]
      /\ outcome \in [Movers -> {"none", "rejected", "unexplained", "attempted",
                                 "success", "hashed", "forgotten", "threw"}]
      /\ verdict \in [Movers -> {"none", "refused", "completed", "failed", "unconfirmed"}]
  BY DirectAssumption DEF Movers, TypeOK
<1> USE <1>k DEF Beginning, Holding, key, keyGhost, result, capVars, Go
<1>1. CASE \E q \in Requests : BeginKey(q) \/ Beats(q)
  BY <1>1 DEF BeginKey, Beats, Reserve, Look, Reclaim, Hold, LoseRace, Beat, BeatLands, BeatLost
<1>2. CASE \E q \in Requests : Handle(q)
  BY <1>2 DEF Handle, Charge, Refuse, Verify, Record, Reconcile
<1>3. CASE \E s \in Steps : SettleStep(s) \/ StepThrows(s)
  BY <1>3 DEF SettleStep, StepThrows
<1>4. CASE \E m \in Movers : Arrive(m) \/ Open(m) \/ LockCap(m) \/ Sum(m) \/ Insert(m)
  BY <1>4 DEF Arrive, Open, LockCap, Sum, Insert, Refuse, Reserved
<1>5. CASE \E m \in Movers : Send(m) \/ CoreReturns(m) \/ CoreForgets(m) \/ Abandon(m) \/ Resolve(m)
  BY <1>5 DEF Send, CoreReturns, CoreForgets, Abandon, Resolve
<1>6. CASE Tick \/ UNCHANGED vars
  BY <1>6 DEF Tick, vars
<1> QED BY <1>1, <1>2, <1>3, <1>4, <1>5, <1>6 DEF Next, Move

(* A request takes the key: it is absent, or has lapsed. *)
Takes(r) ==
  /\ KeyOf[r] # NoKey /\ at[r] \in Beginning /\ Hold(r)
  /\ record[KeyOf[r]].status = "absent" \/ record[KeyOf[r]].expires < now
  /\ UNCHANGED <<env, now, outcome, tx, kept, cutShort>>

(* A step that leaves every key alone and takes no handler of a key into    *)
(* its work, nor a transaction out of a handler that is not at it, nor      *)
(* recalls a send that was forgotten.                                       *)
Inner ==
  /\ UNCHANGED <<env, now, record, kept, cutShort, past>>
  /\ \A r \in Requests : KeyOf[r] # NoKey =>
       /\ at'[r] \in Holding => at[r] \in Holding
       /\ at[r] = "dead" => at'[r] = "dead"
       /\ outcome[r] = "forgotten" => outcome'[r] = "forgotten"
       /\ Standing(r)' => Standing(r) \/ at[r] \in Holding
       /\ at'[r] = "over" /\ Standing(r)' => at[r] = "over" /\ Standing(r)

LEMMA StepKinds ==
  ASSUME TypeOK, Reported, [Next]_vars
  PROVE  \/ Inner
         \/ Tick
         \/ \E r \in Requests : \/ Takes(r) \/ Record(r)
                                \/ BeatLands(r) /\ Fenced(r)
<1>k. /\ Requests \subseteq Movers /\ \A s \in Steps : s \notin Requests
      /\ at \in [Movers -> {"idle", "over", "dead"} \cup Beginning \cup Holding]
      /\ DOMAIN outcome = Movers
      /\ tx \in [Movers -> {"none", "out", "landed", "reverted", "dropped"}]
      /\ \A m \in Movers : at[m] \in Beginning => m \in Requests /\ KeyOf[m] # NoKey
  BY DirectAssumption DEF Movers, TypeOK
<1>e. \A r \in Requests : at[r] \in Beginning => ~Standing(r)
  BY DEF Reported, Early, Standing
<1>o. \A r \in Requests : at[r] = "working" => outcome[r] = "none"
  BY DEF Reported
<1> USE <1>k DEF Standing, Holding, key, keyGhost, result, capVars, Go
<1>1. ASSUME NEW r \in Requests, BeginKey(r) PROVE Takes(r) \/ Inner
  <2>1. CASE Reserve(r)
    BY <1>1, <2>1, <1>e DEF Reserve, Takes, Inner, Beginning
  <2>2. CASE Look(r)
    BY <1>1, <2>2, <1>e DEF Look, LoseRace, Inner, Beginning
  <2>3. CASE Reclaim(r)
    BY <1>1, <2>3, <1>e DEF Reclaim, Takes, LoseRace, Inner, Beginning
  <2> QED BY <1>1, <2>1, <2>2, <2>3 DEF BeginKey
<1>2. ASSUME NEW r \in Requests, Beats(r) PROVE Inner \/ (BeatLands(r) /\ Fenced(r))
  BY <1>2 DEF Beats, Beat, BeatLost, BeatLands, Inner
<1>3. ASSUME NEW r \in Requests, Handle(r) PROVE Inner \/ Record(r)
  <2>1. CASE Charge(r)
    BY <2>1 DEF Charge, Refuse, Inner
  <2>2. CASE Verify(r) \/ Reconcile(r)
    BY <2>2 DEF Verify, Reconcile, Inner
  <2> QED BY <1>3, <2>1, <2>2 DEF Handle
<1>4. ASSUME NEW s \in Steps, SettleStep(s) \/ StepThrows(s) PROVE Inner
  BY <1>4 DEF SettleStep, StepThrows, Inner
<1>5. ASSUME NEW m \in Movers, Arrive(m) \/ Open(m) \/ LockCap(m) PROVE Inner
  BY <1>5 DEF Arrive, Open, Refuse, Reserved, LockCap, Inner
<1>6. ASSUME NEW m \in Movers, Sum(m) \/ Insert(m) PROVE Inner
  BY <1>6 DEF Sum, Refuse, Insert, Reserved, Inner
<1>7. ASSUME NEW m \in Movers, Send(m) \/ CoreReturns(m) \/ CoreForgets(m) \/ Abandon(m) \/ Resolve(m)
      PROVE Inner
  BY <1>7, <1>e, <1>o DEF Send, CoreReturns, CoreForgets, Abandon, Resolve, Inner
<1>8. CASE UNCHANGED vars
  BY <1>8 DEF vars, Inner
<1> QED
  BY <1>1, <1>2, <1>3, <1>4, <1>5, <1>6, <1>7, <1>8 DEF Next, Move

LEMMA StepAnswers == TypeOK /\ Reported /\ Answers /\ [Next]_vars => Answers'
<1> SUFFICES ASSUME TypeOK, Reported, Answers, [Next]_vars,
                    NEW k \in Keys, record'[k].said # "nothing"
             PROVE  LET r == record'[k].by IN
                      /\ r \in Requests /\ at'[r] = "over"
                      /\ record'[k].said = verdict'[r]
                      /\ verdict'[r] = "failed" => outcome'[r] = "unexplained"
  BY DEF Answers
<1>1. CASE /\ record'[k].said = record[k].said
           /\ record'[k].by = record[k].by
  BY <1>1, OverIsOver DEF Answers
<1>2. CASE Inner \/ Tick
  BY <1>2, <1>1 DEF Inner, Tick, key
<1>3. ASSUME NEW r \in Requests, Takes(r) PROVE record'[k] = record[k]
  BY <1>3, HoldEffect DEF Takes, OnlyRecord
<1>4. ASSUME NEW r \in Requests, BeatLands(r), Fenced(r)
      PROVE  record'[k].said = record[k].said /\ record'[k].by = record[k].by
  BY <1>4, BeatEffect DEF OnlyRecord, Fenced
<1>5. ASSUME NEW r \in Requests, Record(r), record'[k] # record[k]
      PROVE  /\ record'[k].by = r /\ at'[r] = "over"
             /\ record'[k].said = verdict'[r]
             /\ verdict'[r] = "failed" => outcome'[r] = "unexplained"
  <2>1. Fenced(r) /\ Requests \subseteq Movers
    BY <1>5 DEF Record, Movers
  <2>2. /\ at[r] = "recording" /\ verdict[r] # "none"
        /\ at'[r] = "over" /\ verdict'[r] = verdict[r] /\ outcome'[r] = outcome[r]
    BY <1>5, <2>1 DEF Record, result, TypeOK, Go
  <2>3. CASE Disposition(r) = "release"
    <3>1. OnlyRecord(r) /\ record'[KeyOf[r]].said = "nothing"
      BY <1>5, <2>1, <2>3, ReleaseEffect DEF Record, NoRecord
    <3> QED BY <1>5, <3>1 DEF OnlyRecord
  <2>4. CASE Disposition(r) # "release"
    <3>1. /\ verdict[r] \in {"completed", "failed", "unconfirmed"}
          /\ verdict[r] = "failed" => outcome[r] \notin {"success", "hashed", "rejected", "forgotten"}
      BY <2>1, <2>2, <2>4 DEF Disposition, TypeOK
    <3>2. verdict[r] = "failed" => outcome[r] = "unexplained"
      BY <3>1 DEF Reported
    <3>3. OnlyRecord(r) /\ record'[KeyOf[r]].by = r /\ record'[KeyOf[r]].said = verdict[r]
      BY <1>5, <2>1, <2>4, <3>1, FinalizeEffect DEF Record
    <3> QED BY <1>5, <2>2, <3>2, <3>3 DEF OnlyRecord
  <2> QED BY <2>3, <2>4
<1>6. ASSUME NEW r \in Requests, Record(r)
      PROVE  LET q == record'[k].by IN
               /\ q \in Requests /\ at'[q] = "over"
               /\ record'[k].said = verdict'[q]
               /\ verdict'[q] = "failed" => outcome'[q] = "unexplained"
  <2>1. CASE record'[k] = record[k]
    BY <2>1, <1>1
  <2>2. CASE record'[k] # record[k]
    BY <1>6, <2>2, <1>5
  <2> QED BY <2>1, <2>2
<1> QED BY <1>1, <1>2, <1>3, <1>4, <1>6, StepKinds

(* What a replay answers is true of the request whose key it is: a success  *)
(* has landed, and a failure that is kept as one has sent nothing, however  *)
(* many retries come and whatever lapses.                                   *)
THEOREM RepliesAreTrue == Spec => []KeptAnswersAreTrue
<1>1. Init => Answers
  BY DEF Init, Answers, NoRecord
<1>2. TypeOK /\ Reported /\ Answers => KeptAnswersAreTrue
  BY DEF Reported, Answers, KeptAnswersAreTrue
<1> QED BY <1>1, <1>2, DirectTypes, VerdictsAreReported, StepAnswers, PTL DEF Spec

-----------------------------------------------------------------------------
(* The parts of the invariant behind SentOnce, of an environment in which   *)
(* no live request's key lapses.  A request at work holds its key.          *)
Held ==
  \A r \in Requests :
    at[r] \in Holding /\ KeyOf[r] # NoKey =>
      /\ record[KeyOf[r]].by = r /\ record[KeyOf[r]].status = "processing"
      /\ now <= record[KeyOf[r]].expires

(* One that is done while its transaction stands has left its answer, for   *)
(* the whole window, or is let go.                                          *)
Stands ==
  \A r \in Requests :
    at[r] = "over" /\ Standing(r) /\ KeyOf[r] # NoKey =>
      \/ LetGo(r)
      \/ /\ record[KeyOf[r]].by = r
         /\ record[KeyOf[r]].status \in {"completed", "failed"}
         /\ now < kept[r] /\ kept[r] <= record[KeyOf[r]].expires

(* Those whose transaction stands, or may yet. *)
May(r) == at[r] \in Holding \/ Standing(r)

Pairs ==
  \A r, q \in Requests :
    r # q /\ KeyOf[r] = KeyOf[q] /\ KeyOf[r] # NoKey /\ May(r) /\ May(q) =>
      r \in past[q] \/ q \in past[r]

SentInv == env.timely => Held /\ Stands /\ Pairs

LEMMA TakesKeeps ==
  ASSUME TypeOK, Reported, Held, Stands, Pairs, NEW r \in Requests, Takes(r)
  PROVE  Held' /\ Stands' /\ Pairs'
<1>1. /\ KeyOf[r] # NoKey /\ KeyOf[r] \in Keys /\ now \in Nat /\ ProcessingTTL \in Nat
      /\ \A q \in Requests : /\ q \in Movers
                             /\ KeyOf[q] # NoKey => /\ KeyOf[q] \in Keys
                                                    /\ record[KeyOf[q]].expires \in Nat
      /\ at \in [Movers -> {"idle", "over", "dead"} \cup Beginning \cup Holding]
      /\ kept \in [Requests -> Int] /\ past \in [Requests -> SUBSET Requests]
  BY DirectAssumption DEF Takes, TypeOK, Movers, Records
<1>2. /\ \A k \in Keys : k # KeyOf[r] => record'[k] = record[k]
      /\ record'[KeyOf[r]].by = r /\ record'[KeyOf[r]].status = "processing"
      /\ record'[KeyOf[r]].expires = now + ProcessingTTL
      /\ at' = [at EXCEPT ![r] = "gate"]
      /\ past' = [past EXCEPT ![r] = {q \in Requests : LetGo(q)}]
      /\ UNCHANGED <<now, outcome, tx, kept, cutShort>>
  BY <1>1, HoldEffect DEF Takes, OnlyRecord, Hold
<1>3. ASSUME NEW q \in Requests, q # r, KeyOf[q] = KeyOf[r] PROVE at[q] \notin Holding
  BY <1>1, <1>3 DEF Takes, Held
<1>4. ASSUME NEW q \in Requests, q # r, KeyOf[q] = KeyOf[r], Standing(q) PROVE LetGo(q)
  <2>1. at[q] \in {"over", "dead"}
    BY <1>1, <1>3, <1>4 DEF Reported, Early, Standing, Beginning
  <2>2. CASE at[q] = "dead"
    BY <2>2 DEF LetGo
  <2>3. CASE at[q] = "over"
    BY <1>1, <1>4, <2>3 DEF Takes, Stands
  <2> QED BY <2>1, <2>2, <2>3
<1>5. Held'
  BY <1>1, <1>2, <1>3 DEF Held
<1>6. ~Standing(r)
  BY DEF Takes, Reported, Early, Standing
<1>7. Stands'
  <2> SUFFICES ASSUME NEW q \in Requests, at'[q] = "over", Standing(q)', KeyOf[q] # NoKey
               PROVE  \/ LetGo(q)'
                      \/ /\ record'[KeyOf[q]].by = q
                         /\ record'[KeyOf[q]].status \in {"completed", "failed"}
                         /\ now' < kept'[q] /\ kept'[q] <= record'[KeyOf[q]].expires
    BY DEF Stands
  <2>1. at[q] = "over" /\ Standing(q) /\ q # r
    BY <1>1, <1>2, <1>6 DEF Standing
  <2>2. LetGo(q) => LetGo(q)'
    BY <1>2, <2>1 DEF LetGo
  <2>3. CASE KeyOf[q] = KeyOf[r]
    BY <1>4, <2>1, <2>2, <2>3
  <2>4. CASE KeyOf[q] # KeyOf[r]
    BY <1>1, <1>2, <2>1, <2>2, <2>4 DEF Stands
  <2> QED BY <2>3, <2>4
<1>8. Pairs'
  <2>1. \A q \in Requests : q # r /\ May(q)' => May(q) /\ past'[q] = past[q]
    BY <1>1, <1>2 DEF May, Standing
  <2>2. \A q \in Requests : q # r /\ KeyOf[q] = KeyOf[r] /\ May(q)' => q \in past'[r]
    BY <1>1, <1>2, <1>3, <1>4, <2>1 DEF May
  <2> QED BY <2>1, <2>2 DEF Pairs
<1> QED BY <1>5, <1>7, <1>8

LEMMA InnerKeeps ==
  ASSUME Held, Stands, Pairs, Inner
  PROVE  Held' /\ Stands' /\ Pairs'
<1>1. Held'
  BY DEF Held, Inner
<1>2. Stands'
  BY DEF Stands, Inner, LetGo
<1>3. Pairs'
  BY DEF Pairs, Inner, May
<1> QED BY <1>1, <1>2, <1>3

LEMMA TickKeeps ==
  ASSUME TypeOK, Held, Stands, Pairs, env.timely, Tick
  PROVE  Held' /\ Stands' /\ Pairs'
<1>1. /\ now' = now + 1 /\ now \in Nat /\ kept \in [Requests -> Int]
      /\ UNCHANGED <<record, at, outcome, tx, kept, cutShort, past>>
      /\ \A q \in Requests : KeyOf[q] # NoKey => record[KeyOf[q]].expires \in Nat
      /\ \A q \in Requests : at[q] \in Holding /\ KeyOf[q] # NoKey =>
           now < record[KeyOf[q]].expires
  BY DirectAssumption DEF Tick, key, result, keyGhost, TypeOK, Records, Movers
<1>2. Held'
  BY <1>1 DEF Held
<1>3. Stands'
  BY <1>1 DEF Stands, Standing, LetGo
<1>4. Pairs'
  BY <1>1 DEF Pairs, May, Standing
<1> QED BY <1>2, <1>3, <1>4

LEMMA BeatKeeps ==
  ASSUME TypeOK, Held, Stands, Pairs, NEW r \in Requests, BeatLands(r), Fenced(r)
  PROVE  Held' /\ Stands' /\ Pairs'
<1>1. /\ \A k \in Keys : k # KeyOf[r] => record'[k] = record[k]
      /\ record[KeyOf[r]].by = r /\ record'[KeyOf[r]].by = r
      /\ record'[KeyOf[r]].status = record[KeyOf[r]].status
      /\ record'[KeyOf[r]].expires = now + ProcessingTTL
  BY BeatEffect DEF OnlyRecord, Fenced
<1>2. /\ UNCHANGED <<now, at, outcome, tx, kept, past>>
      /\ cutShort' = IF record[KeyOf[r]].status = "processing" THEN cutShort
                     ELSE cutShort \cup {r}
  BY DEF BeatLands, result, capVars
<1>3. /\ now \in Nat /\ ProcessingTTL \in Nat
      /\ \A q \in Requests : KeyOf[q] # NoKey => KeyOf[q] \in Keys
  BY DirectAssumption DEF TypeOK
<1>4. Held'
  BY <1>1, <1>2, <1>3 DEF Held
<1>5. Stands'
  <2> SUFFICES ASSUME NEW q \in Requests, at'[q] = "over", Standing(q)', KeyOf[q] # NoKey
               PROVE  \/ LetGo(q)'
                      \/ /\ record'[KeyOf[q]].by = q
                         /\ record'[KeyOf[q]].status \in {"completed", "failed"}
                         /\ now' < kept'[q] /\ kept'[q] <= record'[KeyOf[q]].expires
    BY DEF Stands
  <2>1. at[q] = "over" /\ Standing(q) /\ (LetGo(q) => LetGo(q)')
    BY <1>2 DEF Standing, LetGo
  <2>2. CASE KeyOf[q] # KeyOf[r]
    BY <1>1, <1>2, <1>3, <2>1, <2>2 DEF Stands
  <2>3. CASE KeyOf[q] = KeyOf[r] /\ q # r
    BY <1>1, <2>1, <2>3 DEF Stands
  <2>4. CASE q = r
    BY <1>2, <2>1, <2>4 DEF Stands, LetGo
  <2> QED BY <2>2, <2>3, <2>4
<1>6. Pairs'
  BY <1>2 DEF Pairs, May, Standing
<1> QED BY <1>4, <1>5, <1>6

LEMMA RecordKeeps ==
  ASSUME TypeOK, Reported, Held, Stands, Pairs, NEW r \in Requests, Record(r)
  PROVE  Held' /\ Stands' /\ Pairs'
<1>1. /\ at[r] = "recording" /\ at' = [at EXCEPT ![r] = "over"]
      /\ UNCHANGED <<now, outcome, verdict, tx, cutShort, past>>
      /\ at \in [Movers -> {"idle", "over", "dead"} \cup Beginning \cup Holding]
      /\ Requests \subseteq Movers /\ verdict[r] # "none"
      /\ verdict \in [Movers -> {"none", "refused", "completed", "failed", "unconfirmed"}]
  BY DEF Record, Go, result, TypeOK, Movers
<1>2. /\ now \in Nat /\ Day \in Nat /\ now < now + Day /\ kept \in [Requests -> Int]
      /\ \A q \in Requests : KeyOf[q] # NoKey => KeyOf[q] \in Keys
  BY DirectAssumption DEF TypeOK
<1>3. \A q \in Requests : May(q)' => May(q)
  BY <1>1 DEF May, Standing, Holding
<1>4. Pairs'
  BY <1>1, <1>3 DEF Pairs
<1>5. CASE KeyOf[r] = NoKey
  <2>1. UNCHANGED <<record, kept>>
    BY <1>5 DEF Record, Fenced
  <2>2. Held' /\ Stands'
    BY <1>1, <1>5, <2>1 DEF Held, Stands, Standing, LetGo
  <2> QED BY <1>4, <2>2
<1>6. CASE KeyOf[r] # NoKey
  <2>1. Fenced(r) /\ record[KeyOf[r]].by = r /\ record[KeyOf[r]].status = "processing"
    BY <1>1, <1>6 DEF Held, Fenced, Holding
  <2>2. \A q \in Requests : q # r /\ KeyOf[q] = KeyOf[r] => at[q] \notin Holding
    BY <1>6, <2>1 DEF Held
  <2>3. OnlyRecord(r) /\ \A q \in Requests : q # r => kept'[q] = kept[q]
    <3>1. CASE Disposition(r) = "release"
      BY <2>1, <3>1, ReleaseEffect DEF Record
    <3>2. CASE Disposition(r) # "release"
      <4>1. verdict[r] \in {"completed", "failed", "unconfirmed"}
        BY <1>1, <3>2 DEF Disposition
      <4> QED BY <1>2, <2>1, <3>2, <4>1, FinalizeEffect DEF Record
    <3> QED BY <3>1, <3>2
  <2>4. Held'
    BY <1>1, <2>2, <2>3, <1>2 DEF Held, OnlyRecord, Holding
  <2>5. Standing(r) /\ outcome[r] # "forgotten" =>
          /\ record'[KeyOf[r]].by = r
          /\ record'[KeyOf[r]].status \in {"completed", "failed"}
          /\ kept'[r] = now + Day /\ record'[KeyOf[r]].expires = now + Day
    <3> SUFFICES ASSUME Standing(r), outcome[r] # "forgotten"
                 PROVE  /\ record'[KeyOf[r]].by = r
                        /\ record'[KeyOf[r]].status \in {"completed", "failed"}
                        /\ kept'[r] = now + Day /\ record'[KeyOf[r]].expires = now + Day
      OBVIOUS
    <3>1. verdict[r] \in {"completed", "unconfirmed"}
      BY <1>1 DEF Standing, Reported
    <3>2. Disposition(r) # "release"
      BY <3>1 DEF Disposition
    <3> QED BY <1>2, <2>1, <3>1, <3>2, FinalizeEffect DEF Record
  <2>6. Stands'
    <3> SUFFICES ASSUME NEW q \in Requests, at'[q] = "over", Standing(q)', KeyOf[q] # NoKey
                 PROVE  \/ LetGo(q)'
                        \/ /\ record'[KeyOf[q]].by = q
                           /\ record'[KeyOf[q]].status \in {"completed", "failed"}
                           /\ now' < kept'[q] /\ kept'[q] <= record'[KeyOf[q]].expires
      BY DEF Stands
    <3>1. CASE q = r
      BY <1>1, <1>2, <2>5, <3>1 DEF Standing, LetGo
    <3>2. CASE q # r
      <4>1. /\ at[q] = "over" /\ Standing(q) /\ (LetGo(q) => LetGo(q)')
            /\ kept'[q] = kept[q]
        BY <1>1, <2>3, <3>2 DEF Standing, LetGo
      <4>2. CASE KeyOf[q] = KeyOf[r]
        BY <2>1, <3>2, <4>1, <4>2 DEF Stands
      <4>3. CASE KeyOf[q] # KeyOf[r]
        BY <1>1, <1>2, <2>3, <4>1, <4>3 DEF Stands, OnlyRecord
      <4> QED BY <4>2, <4>3
    <3> QED BY <3>1, <3>2
  <2> QED BY <1>4, <2>4, <2>6
<1> QED BY <1>5, <1>6

LEMMA StepSent == TypeOK /\ Reported /\ SentInv /\ [Next]_vars => SentInv'
<1> SUFFICES ASSUME TypeOK, Reported, SentInv, [Next]_vars, env'.timely
             PROVE  Held' /\ Stands' /\ Pairs'
  BY DEF SentInv
<1>1. env' = env
  BY StepKinds DEF Inner, Tick, Takes, Record, BeatLands
<1>2. Held /\ Stands /\ Pairs /\ env.timely
  BY <1>1 DEF SentInv
<1> QED BY <1>2, StepKinds, InnerKeeps, TickKeeps, TakesKeeps, RecordKeeps, BeatKeeps

(* While no live request's key lapses, two requests of one key have never   *)
(* both sent, or may have, unless the key had let the first one go.         *)
THEOREM OneSendPerKey == Spec => []SentOnce
<1>1. Init => SentInv
  BY DirectAssumption DEF Init, SentInv, Held, Stands, Pairs, May, Standing, Holding, Movers
<1>2. SentInv => SentOnce
  BY DEF SentInv, Pairs, May, SentOnce
<1> QED BY <1>1, <1>2, DirectTypes, VerdictsAreReported, StepSent, PTL DEF Spec

-----------------------------------------------------------------------------
(* The cap of a day.  What is charged to day d: the rows that the sum       *)
(* counts as at work or done, and whatever else stands on the chain, of the *)
(* movers the sum has not missed.                                           *)
Live == {"inflight", "completed", "unconfirmed"}

Charged(d) ==
  {m \in Movers \ overlooked :
     /\ Value[m] > 0 /\ created[m] \div Day = d
     /\ entry[m] \in Live \/ Standing(m)}

(* A row is there before the value moves, and not before it is inserted.    *)
Entered ==
  \A m \in Movers :
    /\ at[m] \in Early \ {"charging"} => entry[m] = "none"
    /\ at[m] \in Early => tx[m] = "none"
    /\ /\ Value[m] > 0
       /\ at[m] \in {"charging", "working", "verifying"}
            \/ (at[m] = "recording" /\ m \in Steps)
       => entry[m] = "inflight"

(* What stands has a live row, or one that failed when its day was over. *)
Behind ==
  \A m \in Movers \ overlooked :
    Value[m] > 0 /\ Standing(m) =>
      entry[m] \in Live \/ (entry[m] = "failed" /\ now - created[m] >= Day)

DaysWithin == \A d \in Nat : Total(Value, Charged(d)) <= Cap

(* Who is about to insert has room for its value. *)
RoomFor ==
  \A m \in Movers \ overlooked, d \in Nat :
    Value[m] > 0 /\ at[m] = "inserting" /\ created[m] \div Day = d =>
      Total(Value, Charged(d) \cup {m}) <= Cap

LEMMA DayOf ==
  ASSUME NEW D \in Nat \ {0}, NEW a \in Nat
  PROVE  /\ a \div D \in Nat /\ (a \div D) * D \in Nat
         /\ (a \div D) * D <= a /\ a < (a \div D) * D + D
OBVIOUS

LEMMA SameDay ==
  ASSUME NEW D \in Nat \ {0}, NEW a \in Nat, NEW b \in Nat, a <= b
  PROVE  a >= (b \div D) * D <=> a \div D = b \div D
<1>1. ASSUME a \div D = b \div D PROVE a >= (b \div D) * D
  BY <1>1, DayOf
<1>2. ASSUME a >= (b \div D) * D PROVE a \div D = b \div D
  <2> DEFINE q == b \div D
             p == a \div D
  <2>1. /\ p \in Nat /\ q \in Nat /\ p * D <= a /\ a < p * D + D
        /\ b < q * D + D /\ q * D <= a
    BY <1>2, DayOf
  <2> HIDE DEF p, q
  <2>2. ASSUME p < q PROVE FALSE
    <3>1. q >= p + 1
      BY <2>1, <2>2
    <3>2. q * D >= (p + 1) * D
      BY <3>1, <2>1
    <3> QED BY <2>1, <3>2
  <2>3. ASSUME q < p PROVE FALSE
    <3>1. p >= q + 1
      BY <2>1, <2>3
    <3>2. p * D >= (q + 1) * D
      BY <3>1, <2>1
    <3> QED BY <2>1, <3>2
  <2> QED BY <2>1, <2>2, <2>3 DEF p, q
<1> QED BY <1>1, <1>2

LEMMA FewMovers ==
  ASSUME NEW S, S \subseteq Movers
  PROVE  S \in FiniteSubsetsOf(Movers)
BY FiniteMovers, FS_Subset DEF FiniteSubsetsOf, Movers

(* The values are weights, and the movers finitely many. *)
LEMMA ValueWeighs == Value \in [Movers -> Nat] /\ Cap \in Nat /\ Day \in Nat \ {0}
BY DirectAssumption DEF Movers

LEMMA CountedTotal ==
  ASSUME NEW m
  PROVE  TotalToday(m) = Total(Value, {x \in Movers : Counted(x, m)})
BY DEF TotalToday, Total

LEMMA StepEntered == TypeOK /\ Entered /\ [Next]_vars => Entered'
<1> SUFFICES ASSUME TypeOK, Entered, [Next]_vars PROVE Entered'
  OBVIOUS
<1>k. /\ Requests \subseteq Movers /\ \A s \in Steps : s \in Movers /\ s \notin Requests
      /\ Value \in [Movers -> Nat]
      /\ at \in [Movers -> {"idle", "over", "dead"} \cup Beginning \cup Holding]
      /\ tx \in [Movers -> {"none", "out", "landed", "reverted", "dropped"}]
      /\ entry \in [Movers -> {"none", "inflight", "completed", "unconfirmed", "failed"}]
  BY DirectAssumption DEF Movers, TypeOK
<1> USE <1>k DEF Entered, Early, Beginning, Holding, key, keyGhost, result, capVars, Go
<1>1. ASSUME NEW r \in Requests, BeginKey(r) PROVE Entered'
  BY <1>1 DEF BeginKey, Reserve, Look, Reclaim, Hold, LoseRace
<1>2. ASSUME NEW r \in Requests, Beats(r) PROVE Entered'
  BY <1>2 DEF Beats, Beat, BeatLands, BeatLost
<1>3. ASSUME NEW r \in Requests, Charge(r) PROVE Entered'
  BY <1>3 DEF Charge, Refuse
<1>4. ASSUME NEW r \in Requests, Verify(r) PROVE Entered'
  BY <1>4 DEF Verify, Verdicts
<1>5. ASSUME NEW r \in Requests, Record(r) PROVE Entered'
  BY <1>5 DEF Record
<1>6. ASSUME NEW r \in Requests, Reconcile(r) PROVE Entered'
  BY <1>6 DEF Reconcile
<1>7. ASSUME NEW s \in Steps, SettleStep(s) \/ StepThrows(s) PROVE Entered'
  BY <1>7 DEF SettleStep, StepThrows
<1>8. ASSUME NEW m \in Movers, Arrive(m) \/ Open(m) PROVE Entered'
  BY <1>8 DEF Arrive, Open, Refuse, Reserved
<1>9. ASSUME NEW m \in Movers, LockCap(m) \/ Sum(m) \/ Insert(m) PROVE Entered'
  BY <1>9 DEF LockCap, Sum, Insert, Refuse, Reserved
<1>10. ASSUME NEW m \in Movers, Send(m) \/ CoreReturns(m) \/ CoreForgets(m) PROVE Entered'
  BY <1>10 DEF Send, CoreReturns, CoreForgets
<1>11. ASSUME NEW m \in Movers, Abandon(m) \/ Resolve(m) PROVE Entered'
  BY <1>11 DEF Abandon, Resolve
<1>12. CASE Tick \/ UNCHANGED vars
  BY <1>12 DEF Tick, vars
<1> QED
  BY <1>1, <1>2, <1>3, <1>4, <1>5, <1>6, <1>7, <1>8, <1>9, <1>10, <1>11, <1>12
  DEF Next, Handle, Move

(* How a step moves what is charged to a day: an insert adds its mover, and *)
(* nothing else adds any.                                                   *)
Settled(m) ==
  /\ m \notin overlooked' => m \notin overlooked
  /\ created'[m] = created[m]
  /\ m \notin overlooked' /\ (entry'[m] \in Live \/ Standing(m)') =>
       entry[m] \in Live \/ Standing(m)
  /\ m \notin overlooked' /\ Standing(m)' /\ entry[m] \in Live =>
       entry'[m] \in Live \/ (entry'[m] = "failed" /\ now' - created[m] >= Day)
  /\ m \notin overlooked' /\ Standing(m)' => Standing(m) \/ entry[m] \in Live
  /\ entry[m] = "failed" => entry'[m] = "failed"
  /\ at'[m] = "inserting" => at[m] = "inserting"

LEMMA StepSettles ==
  ASSUME TypeOK, Reported, Entered, [Next]_vars, NEW m \in Movers, Value[m] > 0
  PROVE  Settled(m) \/ Open(m) \/ Sum(m) \/ Insert(m)
<1>k. /\ Requests \subseteq Movers /\ \A s \in Steps : s \in Movers /\ s \notin Requests
      /\ Value \in [Movers -> Nat]
      /\ at \in [Movers -> {"idle", "over", "dead"} \cup Beginning \cup Holding]
      /\ tx \in [Movers -> {"none", "out", "landed", "reverted", "dropped"}]
      /\ entry \in [Movers -> {"none", "inflight", "completed", "unconfirmed", "failed"}]
  BY DirectAssumption DEF Movers, TypeOK
<1> USE <1>k DEF Settled, Live, Standing, key, keyGhost, result, capVars, Go
<1>1. ASSUME NEW r \in Requests, BeginKey(r) PROVE Settled(m)
  BY <1>1 DEF BeginKey, Reserve, Look, Reclaim, Hold, LoseRace
<1>2. ASSUME NEW r \in Requests, Beats(r) PROVE Settled(m)
  BY <1>2 DEF Beats, Beat, BeatLands, BeatLost
<1>3. ASSUME NEW r \in Requests, Charge(r) PROVE Settled(m)
  BY <1>3 DEF Charge, Refuse, Entered, Early
<1>4. ASSUME NEW r \in Requests, Verify(r) PROVE Settled(m)
  <2>1. CASE m # r
    BY <1>4, <2>1 DEF Verify
  <2>2. CASE m = r
    <3>1. /\ entry[m] = "inflight" /\ entry'[m] \in Verdicts(m)
          /\ UNCHANGED <<created, overlooked, tx, outcome>> /\ at'[m] = "recording"
      BY <1>4, <2>2 DEF Verify, Entered
    <3>2. /\ outcome[m] \in {"success", "hashed", "attempted", "rejected",
                            "unexplained", "forgotten"}
          /\ outcome[m] \in {"rejected", "unexplained"} => tx[m] = "none"
          /\ outcome[m] = "forgotten" => m \in overlooked
      BY <1>4, <2>2 DEF Verify, Reported, TypeOK
    <3>3. entry'[m] = "failed" => ~Standing(m) \/ m \in overlooked'
      BY <3>1, <3>2 DEF Verdicts
    <3>4. entry'[m] \in {"completed", "unconfirmed", "failed"}
      BY <3>1 DEF Verdicts
    <3> QED BY <3>1, <3>3, <3>4
  <2> QED BY <2>1, <2>2
<1>5. ASSUME NEW r \in Requests, Record(r) PROVE Settled(m)
  BY <1>5 DEF Record
<1>6. ASSUME NEW r \in Requests, Reconcile(r) PROVE Settled(m)
  BY <1>6 DEF Reconcile
<1>7. ASSUME NEW s \in Steps, SettleStep(s) PROVE Settled(m)
  <2>1. CASE m # s
    BY <1>7, <2>1 DEF SettleStep
  <2>2. CASE m = s
    <3>1. /\ entry[m] = "inflight" /\ UNCHANGED <<created, tx>> /\ at'[m] = "over"
          /\ entry'[m] = IF outcome[m] = "success" THEN "completed" ELSE "failed"
      BY <1>7, <2>2 DEF SettleStep, Entered
    <3>2. /\ overlooked \subseteq overlooked'
          /\ outcome[m] # "success" /\ Standing(m) => m \in overlooked'
      BY <1>7, <2>2 DEF SettleStep
    <3> QED BY <3>1, <3>2
  <2> QED BY <2>1, <2>2
<1>8. ASSUME NEW s \in Steps, StepThrows(s) PROVE Settled(m)
  BY <1>8 DEF StepThrows
<1>9. ASSUME NEW q \in Movers, Arrive(q) \/ LockCap(q) PROVE Settled(m)
  BY <1>9 DEF Arrive, LockCap
<1>10. ASSUME NEW q \in Movers, q # m, Open(q) \/ Sum(q) \/ Insert(q) PROVE Settled(m)
  <2>1. CASE Open(q)
    BY <1>10, <2>1 DEF Open, Refuse, Reserved
  <2>2. CASE Sum(q)
    <3>1. overlooked \subseteq overlooked' /\ UNCHANGED <<now, entry, created, tx>>
      BY <2>2 DEF Sum
    <3>2. at'[m] = at[m]
      BY <1>10, <2>2 DEF Sum, Refuse
    <3> QED BY <3>1, <3>2
  <2>3. CASE Insert(q)
    BY <1>10, <2>3 DEF Insert, Reserved
  <2> QED BY <1>10, <2>1, <2>2, <2>3
<1>11. ASSUME NEW q \in Movers, Send(q) PROVE Settled(m)
  BY <1>11 DEF Send, Entered
<1>12. ASSUME NEW q \in Movers, CoreReturns(q) \/ CoreForgets(q) \/ Abandon(q) PROVE Settled(m)
  BY <1>12 DEF CoreReturns, CoreForgets, Abandon
<1>13. ASSUME NEW q \in Movers, Resolve(q) PROVE Settled(m)
  BY <1>13 DEF Resolve
<1>14. CASE Tick \/ UNCHANGED vars
  BY <1>14 DEF Tick, vars
<1> QED
  BY <1>1, <1>2, <1>3, <1>4, <1>5, <1>6, <1>7, <1>8, <1>9, <1>10, <1>11, <1>12,
     <1>13, <1>14
  DEF Next, Handle, Move

LEMMA StepBehind ==
  ASSUME TypeOK, TypeOK', Reported, Entered, Entered', Behind, [Next]_vars
  PROVE  Behind'
<1> SUFFICES ASSUME NEW m \in Movers, m \notin overlooked', Value[m] > 0, Standing(m)'
             PROVE  entry'[m] \in Live \/ (entry'[m] = "failed" /\ now' - created'[m] >= Day)
  BY DEF Behind
<1>1. /\ now \in Nat /\ now' \in Nat /\ now' >= now /\ Day \in Nat
      /\ created[m] \in Nat
  <2>1. now' = now \/ now' = now + 1
    BY DEF Next, vars, BeginKey, Beats, Handle, Move, Reserve, Look, Reclaim, Beat,
       BeatLands, BeatLost, Charge, Verify, Record, Reconcile, SettleStep, StepThrows,
       Arrive, Open, LockCap, Sum, Insert, Send, CoreReturns, CoreForgets, Abandon, Resolve, Tick
  <2> QED BY <2>1, DirectAssumption DEF TypeOK
<1>2. CASE Settled(m)
  <2>1. CASE Standing(m)
    BY <1>1, <1>2, <2>1 DEF Settled, Behind
  <2>2. CASE ~Standing(m)
    BY <1>1, <1>2, <2>2 DEF Settled
  <2> QED BY <2>1, <2>2
<1>3. CASE Open(m) \/ Sum(m) \/ Insert(m)
  BY <1>3 DEF Open, Sum, Insert, result, Entered, Early, Standing
<1> QED BY <1>2, <1>3, StepSettles

(* Only an insert charges a day with what it was not charged. *)
LEMMA OnlyInsertsCharge ==
  ASSUME TypeOK, Reported, Entered, [Next]_vars, NEW d, NEW m \in Charged(d)'
  PROVE  m \in Charged(d) \/ Insert(m)
<1>1. /\ m \in Movers /\ m \notin overlooked' /\ Value[m] > 0 /\ created'[m] \div Day = d
      /\ entry'[m] \in Live \/ Standing(m)'
  BY DEF Charged
<1>2. CASE Settled(m)
  BY <1>1, <1>2 DEF Settled, Charged
<1>3. CASE Open(m)
  BY <1>1, <1>3 DEF Open, result, Entered, Early, Standing, Live
<1>4. CASE Sum(m)
  BY <1>1, <1>4 DEF Sum, Charged, Standing
<1> QED BY <1>1, <1>2, <1>3, <1>4, StepSettles

(* What the day of a mover has been charged is among what its sum counts,   *)
(* unless the sum overlooks the mover itself.                               *)
LEMMA ChargedIsCounted ==
  ASSUME TypeOK, Behind, NEW m \in Movers, Sum(m), m \notin overlooked',
         NEW d, d = created[m] \div Day, NEW x \in Charged(d)'
  PROVE  Counted(x, m)
<1>1. /\ x \in Movers /\ x \notin overlooked /\ x \notin overlooked' /\ Value[x] > 0
      /\ created[x] \div Day = created[m] \div Day
      /\ entry[x] \in Live \/ Standing(x)
      /\ overlooked' = overlooked \cup Missed(m)
  BY DEF Charged, Sum, Standing
<1>2. /\ now \in Nat /\ Day \in Nat \ {0}
      /\ created[m] \in Nat /\ created[m] <= now /\ created[x] \in Nat /\ created[x] <= now
  BY <1>1, DirectAssumption DEF TypeOK
<1>3. Today \in Nat /\ now < Today + Day
  BY <1>2, DayOf DEF Today
<1>4. created[m] >= Today
  BY <1>1, <1>2, <1>3 DEF Missed
<1>5. created[x] >= Today
  <2>1. created[m] \div Day = now \div Day
    BY <1>2, <1>4, SameDay DEF Today
  <2> QED BY <1>1, <1>2, <2>1, SameDay DEF Today
<1>6. entry[x] \in Live
  BY <1>1, <1>2, <1>3, <1>5 DEF Behind
<1>7. entry[x] = "inflight" => Young(x, m)
  BY <1>1, <1>5 DEF Missed
<1> QED BY <1>5, <1>6, <1>7 DEF Counted, Live

LEMMA RoomAfterSum ==
  ASSUME TypeOK, Entered, Behind, NEW m \in Movers, Sum(m), m \notin overlooked',
         at'[m] = "inserting", NEW d, d = created[m] \div Day
  PROVE  Total(Value, Charged(d)' \cup {m}) <= Cap
<1> DEFINE C == Charged(d)'
           K == {x \in Movers : Counted(x, m)}
<1>1. C \subseteq K
  BY ChargedIsCounted DEF Charged
<1>2. /\ K \in FiniteSubsetsOf(Movers) /\ C \cup {m} \in FiniteSubsetsOf(Movers)
      /\ K \cup {m} \in FiniteSubsetsOf(Movers)
  BY FewMovers DEF Charged
<1>3. m \notin K
  BY DEF Sum, Entered, Early, Counted
<1>4. Total(Value, K) + Value[m] <= Cap
  <2>1. at[m] = "summing" /\ at \in [Movers -> {"idle", "over", "dead"} \cup Beginning \cup Holding]
    BY DEF Sum, TypeOK
  <2>2. ~(TotalToday(m) + Value[m] > Cap)
    BY <2>1 DEF Sum, Refuse, Go
  <2>3. Total(Value, K) \in Nat /\ Value[m] \in Nat
    BY <1>2, ValueWeighs, TotalType
  <2> QED BY <2>2, <2>3, ValueWeighs, CountedTotal
<1> HIDE DEF C, K
<1>5. Total(Value, K \cup {m}) = Value[m] + Total(Value, K)
  BY <1>2, <1>3, ValueWeighs, TotalAdd
<1>6. Total(Value, C \cup {m}) <= Total(Value, K \cup {m})
  BY <1>1, <1>2, ValueWeighs, TotalMonotone
<1>7. /\ Total(Value, C \cup {m}) \in Nat /\ Total(Value, K) \in Nat /\ Value[m] \in Nat
  BY <1>2, ValueWeighs, TotalType
<1> QED BY <1>4, <1>5, <1>6, <1>7, ValueWeighs DEF C

LEMMA StepDaysWithin ==
  ASSUME TypeOK, Reported, Entered, DaysWithin, RoomFor, [Next]_vars
  PROVE  DaysWithin'
<1> SUFFICES ASSUME NEW d \in Nat PROVE Total(Value, Charged(d)') <= Cap
  BY ValueWeighs DEF DaysWithin
<1>1. Charged(d)' \in FiniteSubsetsOf(Movers) /\ Charged(d) \in FiniteSubsetsOf(Movers)
  BY FewMovers DEF Charged
<1>2. /\ Total(Value, Charged(d)') \in Nat /\ Total(Value, Charged(d)) \in Nat
      /\ Total(Value, Charged(d)) <= Cap /\ Cap \in Nat
  BY <1>1, ValueWeighs, TotalType DEF DaysWithin
<1>3. CASE Charged(d)' \subseteq Charged(d)
  <2>1. Total(Value, Charged(d)') <= Total(Value, Charged(d))
    BY <1>1, <1>3, ValueWeighs, TotalMonotone
  <2> QED BY <1>2, <2>1
<1>4. CASE \E m \in Charged(d)' : m \notin Charged(d)
  <2>1. PICK m \in Charged(d)' : Insert(m)
    BY <1>4, OnlyInsertsCharge
  <2>2. /\ m \in Movers /\ m \notin overlooked /\ Value[m] > 0
        /\ created[m] \div Day = d /\ at[m] = "inserting"
    BY <2>1 DEF Charged, Insert
  <2> DEFINE D == Charged(d) \cup {m}
  <2>3. D \in FiniteSubsetsOf(Movers)
    BY <2>2, FewMovers DEF Charged
  <2>4. Total(Value, D) <= Cap /\ Total(Value, D) \in Nat
    BY <2>2, <2>3, ValueWeighs, TotalType DEF RoomFor
  <2>5. Charged(d)' \subseteq D
    <3>1. ASSUME NEW x \in Charged(d)' PROVE x \in D
      <4>1. x \in Charged(d) \/ Insert(x)
        BY OnlyInsertsCharge
      <4>2. ASSUME Insert(x) PROVE x = m
        BY <2>1, <2>2, <4>2, DirectAssumption DEF Insert, TypeOK, Charged
      <4> QED BY <4>1, <4>2
    <3> QED BY <3>1
  <2> HIDE DEF D
  <2>6. Total(Value, Charged(d)') <= Total(Value, D)
    BY <1>1, <2>3, <2>5, ValueWeighs, TotalMonotone
  <2> QED BY <1>2, <2>4, <2>6
<1> QED BY <1>3, <1>4

LEMMA StepRoom ==
  ASSUME TypeOK, Reported, Entered, Behind, RoomFor, [Next]_vars
  PROVE  RoomFor'
<1> SUFFICES ASSUME NEW m \in Movers, m \notin overlooked', Value[m] > 0, at'[m] = "inserting",
                    NEW d \in Nat, created'[m] \div Day = d
             PROVE  Total(Value, Charged(d)' \cup {m}) <= Cap
  BY ValueWeighs DEF RoomFor
<1>1. CASE Sum(m)
  BY <1>1, RoomAfterSum DEF Sum
<1>2. ~Open(m) /\ ~Insert(m)
  BY DEF Open, Insert, Refuse, Reserved, Go, TypeOK
<1>3. CASE Settled(m)
  <2>1. /\ at[m] = "inserting" /\ m \notin overlooked /\ created[m] \div Day = d
    BY <1>3 DEF Settled
  <2>2. Charged(d)' \subseteq Charged(d)
    <3>1. ASSUME NEW x \in Charged(d)' PROVE x \in Charged(d)
      <4>1. x \in Charged(d) \/ Insert(x)
        BY OnlyInsertsCharge
      <4>2. ASSUME Insert(x) PROVE x = m
        BY <2>1, <4>2, DirectAssumption DEF Insert, TypeOK, Charged
      <4> QED BY <1>2, <4>1, <4>2
    <3> QED BY <3>1
  <2>3. /\ Charged(d)' \cup {m} \in FiniteSubsetsOf(Movers)
        /\ Charged(d) \cup {m} \in FiniteSubsetsOf(Movers)
    BY FewMovers DEF Charged
  <2>4. Total(Value, Charged(d) \cup {m}) <= Cap
    BY <2>1 DEF RoomFor
  <2>5. Total(Value, Charged(d)' \cup {m}) <= Total(Value, Charged(d) \cup {m})
    BY <2>2, <2>3, ValueWeighs, TotalMonotone
  <2>6. /\ Total(Value, Charged(d)' \cup {m}) \in Nat
        /\ Total(Value, Charged(d) \cup {m}) \in Nat
    BY <2>3, ValueWeighs, TotalType
  <2> QED BY <2>4, <2>5, <2>6, ValueWeighs
<1> QED BY <1>1, <1>2, <1>3, StepSettles

CapInv == Entered /\ Behind /\ DaysWithin /\ RoomFor

LEMMA InitCap == Init => CapInv
<1> SUFFICES ASSUME Init PROVE CapInv
  OBVIOUS
<1>1. Entered /\ Behind /\ RoomFor
  BY DEF Init, Entered, Behind, RoomFor, Standing, Early, Beginning
<1>2. \A d \in Nat : Charged(d) = {}
  BY DEF Init, Charged, Standing, Live
<1>3. DaysWithin
  BY <1>2, ValueWeighs, TotalEmpty DEF DaysWithin
<1> QED BY <1>1, <1>3 DEF CapInv

LEMMA StepCap == TypeOK /\ TypeOK' /\ Reported /\ CapInv /\ [Next]_vars => CapInv'
BY StepEntered, StepBehind, StepDaysWithin, StepRoom DEF CapInv

LEMMA CapFromInv == TypeOK /\ CapInv => CapHolds
<1> SUFFICES ASSUME TypeOK, CapInv, NEW q \in Movers
             PROVE  MapThenSumSet(LAMBDA m : Value[m],
                      {m \in Movers \ overlooked :
                         created[m] \div Day = created[q] \div Day /\ Standing(m)}) <= Cap
  BY DEF CapHolds
<1> DEFINE d == created[q] \div Day
           S == {m \in Movers \ overlooked : created[m] \div Day = d /\ Standing(m)}
<1>1. d \in Nat
  BY DayOf, ValueWeighs, DirectAssumption DEF TypeOK
<1>2. S \in FiniteSubsetsOf(Movers) /\ Charged(d) \in FiniteSubsetsOf(Movers)
  BY FewMovers DEF Charged
<1>3. \A m \in S : Value[m] > 0 => m \in Charged(d)
  BY DEF Charged
<1> HIDE DEF d
<1>4. /\ Total(Value, S) \in Nat /\ Total(Value, Charged(d)) \in Nat /\ Cap \in Nat
      /\ Total(Value, Charged(d)) <= Cap
  BY <1>1, <1>2, ValueWeighs, TotalType DEF CapInv, DaysWithin
<1> HIDE DEF S
<1>5. Total(Value, S) <= Total(Value, Charged(d))
  BY <1>2, <1>3, ValueWeighs, TotalMonotone
<1>6. Total(Value, S) <= Cap
  BY <1>4, <1>5
<1> QED BY <1>6 DEF Total, S, d

(* What is charged to one day is within the cap, however the transactions   *)
(* interleave, but for those the sum itself has missed.                     *)
THEOREM SpendsWithinCap == Spec => []CapHolds
BY InitCap, StepCap, CapFromInv, DirectTypes, VerdictsAreReported, PTL DEF Spec
=============================================================================
