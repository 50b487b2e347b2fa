--------------------------- MODULE DirectExecution --------------------------
(***************************************************************************)
(* A value-moving request of the direct execution API                       *)
(* (app/api/execute/transfer/route.ts): its idempotency key                 *)
(* (lib/idempotency.ts), the row that charges its value to the day's cap    *)
(* (_lib/spending-cap.ts), the send, the verdict on it                      *)
(* (_lib/execution-service.ts) and what the key is left with; beside it the *)
(* workflow steps that reserve in the value ledger (withValueCap) against   *)
(* the same cap, and the reconciler of unconfirmed rows.                    *)
(*                                                                          *)
(* One organization and one chain family.  A request whose body differs is  *)
(* answered like any other early answer, and is not told apart.  A          *)
(* statement answers within a unit of time; a transaction, a charge and a   *)
(* send may take any time.  The ledger's words for inflight, completed and  *)
(* failed are reserved, settled and released.                               *)
(***************************************************************************)
EXTENDS Integers, FiniteSets, FiniteSetsExt

CONSTANTS
  Requests, Steps,   \* requests of the API, and workflow steps
  Keys, KeyOf, NoKey,\* the Idempotency-Key of each request, or none
  Nobody,
  Value, Cap,        \* what each of them moves, and dailyValueCapWei
  ProcessingTTL,     \* PROCESSING_TTL_MS
  StaleInflight,     \* STALE_INFLIGHT_MINUTES
  Day,               \* DAY_MS: COMPLETED_TTL_MS, DROPPED_AFTER_MS and a UTC day
  MaxRaceRetries,    \* MAX_RACE_RETRIES
  Environments       \* what to choose from: [timely, faults, movers, until]; timely:
                     \* no live request's key lapses; faults: handlers die or
                     \* throw, and beats fail; movers: those that come; until:
                     \* the bound on how long the clock runs

Movers == Requests \cup Steps

ASSUME DirectAssumption ==
  /\ Requests \cap Steps = {} /\ Nobody \notin Requests \cup Steps
  /\ NoKey \notin Keys /\ KeyOf \in [Requests -> Keys \cup {NoKey}]
  /\ Value \in [Requests \cup Steps -> Nat] /\ Cap \in Nat
  /\ ProcessingTTL \in Nat /\ StaleInflight \in Nat /\ Day \in Nat \ {0}
  /\ MaxRaceRetries \in Nat
  /\ Environments \subseteq [timely : BOOLEAN, faults : BOOLEAN,
                             movers : SUBSET (Requests \cup Steps), until : Nat]

(* What a day has been charged is a sum of finitely many rows. *)
ASSUME FiniteMovers == IsFiniteSet(Requests \cup Steps)

VARIABLES
  env,       \* this behaviour's choice from Environments
  now,
  record,    \* idempotency_records by key: [by, status, said, expires]
  at,        \* where each mover is in its handler
  seen,      \* the version of the record a request read, as its holder
  tries,     \* attempts of beginIdempotent that lost a race
  beats,     \* requests with a heartbeat on its way
  outcome,   \* what the core returned
  verdict,   \* what the handler answers: the status it settled on
  tx,        \* the mover's transaction
  entry,     \* its row of direct_executions, or of org_value_reservations
  created,   \* created_at of that row: when its transaction began
  lock,      \* who holds the organization's spend-cap row
  capRow,    \* that row exists
  kept,      \* ghost: until when the finalized key was to be kept, or -1
  cutShort,  \* ghost: requests whose late beat shortened that
  past,      \* ghost: whom the key had let go when each request reserved it
  overlooked \* ghost: movers the day's sum has missed

key      == <<record, seen, tries, beats>>
keyGhost == <<kept, cutShort, past>>
result   == <<outcome, verdict, tx>>
capVars  == <<entry, created, lock, capRow, overlooked>>
vars     == <<env, now, key, at, result, capVars, keyGhost>>

Beginning == {"reserving", "looking", "reclaiming"}
Holding   == {"gate", "locking", "summing", "inserting", "charging", "working",
              "verifying", "recording"}

NoRecord == [by |-> Nobody, status |-> "absent", said |-> "nothing", expires |-> 0]

Standing(m) == tx[m] \in {"out", "landed"}

(* The key no longer vouches for r: its handler died or threw, its core     *)
(* forgot a sponsored send, its replay window is over, or a late beat cut   *)
(* it short.                                                                *)
LetGo(r) ==
  at[r] = "dead" \/ outcome[r] = "forgotten" \/ r \in cutShort \/ kept[r] \in 0 .. now

(* Fault: finalize, release and heartbeat match whatever record has the key. *)
FencedByKey(r) == KeyOf[r] # NoKey /\ record[KeyOf[r]].by # Nobody

(* buildProceed: finalize, release and heartbeat match (id, lockVersion),   *)
(* which no two reservations share.                                         *)
Fenced(r) == KeyOf[r] # NoKey /\ record[KeyOf[r]].by = r

Init ==
  /\ env \in Environments /\ now = 0
  /\ record = [k \in Keys |-> NoRecord]
  /\ at   = [m \in Movers |-> "idle"]
  /\ seen = [r \in Requests |-> Nobody] /\ tries = [r \in Requests |-> 0]
  /\ beats = {}
  /\ outcome = [m \in Movers |-> "none"] /\ verdict = [m \in Movers |-> "none"]
  /\ tx      = [m \in Movers |-> "none"]
  /\ entry   = [m \in Movers |-> "none"] /\ created = [m \in Movers |-> 0]
  /\ lock = Nobody /\ capRow = FALSE
  /\ kept = [r \in Requests |-> -1] /\ cutShort = {}
  /\ past = [r \in Requests |-> {}] /\ overlooked = {}

Go(m, to) == at' = [at EXCEPT ![m] = to]

-----------------------------------------------------------------------------
(* beginIdempotent *)

Arrive(m) ==
  /\ at[m] = "idle" /\ m \in env.movers
  /\ Go(m, IF m \in Requests /\ KeyOf[m] # NoKey THEN "reserving" ELSE "gate")
  /\ UNCHANGED <<env, now, key, result, capVars, keyGhost>>

(* The values a reservation and a reclaim write. *)
Hold(r) ==
  /\ record' = [record EXCEPT ![KeyOf[r]] =
       [by |-> r, status |-> "processing", said |-> "nothing",
        expires |-> now + ProcessingTTL]]
  /\ past' = [past EXCEPT ![r] = {q \in Requests : LetGo(q)}]
  /\ Go(r, "gate")

(* INSERT ... ON CONFLICT DO NOTHING *)
Reserve(r) ==
  /\ at[r] = "reserving"
  /\ IF record[KeyOf[r]].status = "absent"
     THEN Hold(r)
     ELSE Go(r, "looking") /\ UNCHANGED <<record, past>>
  /\ UNCHANGED <<env, now, seen, tries, beats, result, capVars, kept, cutShort>>

(* Once more from the insert, or in_progress. *)
LoseRace(r) ==
  IF tries[r] < MaxRaceRetries
  THEN Go(r, "reserving") /\ tries' = [tries EXCEPT ![r] = @ + 1]
  ELSE Go(r, "over") /\ UNCHANGED tries

(* The record it ran into is gone, has lapsed, or answers: a conflict, a    *)
(* replay of what it said, or in_progress.                                  *)
Look(r) ==
  /\ at[r] = "looking"
  /\ LET found == record[KeyOf[r]] IN
       \/ /\ found.status = "absent"
          /\ LoseRace(r) /\ UNCHANGED seen
       \/ /\ found.status # "absent" /\ found.expires <= now
          /\ Go(r, "reclaiming")
          /\ seen' = [seen EXCEPT ![r] = found.by]
          /\ UNCHANGED tries
       \/ /\ found.status # "absent" /\ found.expires > now
          /\ Go(r, "over") /\ UNCHANGED <<seen, tries>>
  /\ UNCHANGED <<env, now, record, beats, result, capVars, keyGhost>>

(* UPDATE ... WHERE id and lock_version are as read and expires_at < now *)
Reclaim(r) ==
  /\ at[r] = "reclaiming"
  /\ LET found == record[KeyOf[r]] IN
       IF found.by = seen[r] /\ found.expires < now
       THEN Hold(r) /\ UNCHANGED tries
       ELSE LoseRace(r) /\ UNCHANGED <<record, past>>
  /\ UNCHANGED <<env, now, seen, beats, result, capVars, kept, cutShort>>

-----------------------------------------------------------------------------
(* checkAndReserveExecution and reserveOrgValue *)

(* A request that is refused gives its key back; a step's run is over. *)
Refuse(m) ==
  IF m \in Requests
  THEN Go(m, "recording") /\ verdict' = [verdict EXCEPT ![m] = "refused"]
  ELSE Go(m, "over") /\ UNCHANGED verdict

Reserved(m) == Go(m, IF m \in Requests THEN "charging" ELSE "working")

(* The transaction begins: the breaker may refuse, and what moves no value  *)
(* is not charged, nor does such a step have an entry.                      *)
Open(m) ==
  /\ at[m] = "gate"
  /\ created' = [created EXCEPT ![m] = now]
  /\ \/ Value[m] > 0 /\ Refuse(m) /\ UNCHANGED entry
     \/ Value[m] > 0 /\ Go(m, "locking") /\ UNCHANGED <<entry, verdict>>
     \/ /\ Value[m] = 0 /\ Reserved(m)
        /\ entry' = [entry EXCEPT ![m] = IF m \in Requests THEN "inflight" ELSE "none"]
        /\ UNCHANGED verdict
  /\ UNCHANGED <<env, now, key, outcome, tx, lock, capRow, overlooked, keyGhost>>

(* Fault: a row that does not exist is not created, and nothing is locked. *)
LockCapIfPresent(m) ==
  /\ at[m] = "locking"
  /\ IF capRow THEN lock = Nobody /\ lock' = m ELSE UNCHANGED lock
  /\ Go(m, "summing")
  /\ UNCHANGED <<env, now, key, result, entry, created, capRow, overlooked, keyGhost>>

(* lockOrgSpendCapRow: SELECT ... FOR UPDATE, creating the row first if the *)
(* organization has none.  The insert of a second creator waits as a lock   *)
(* would.                                                                   *)
LockCap(m) ==
  /\ at[m] = "locking" /\ lock = Nobody
  /\ lock' = m /\ capRow' = TRUE
  /\ Go(m, "summing")
  /\ UNCHANGED <<env, now, key, result, entry, created, overlooked, keyGhost>>

Today == (now \div Day) * Day

(* Young as the transaction's now() sees it, which is when it began. *)
Young(x, m) == created[x] > created[m] - StaleInflight

Counted(x, m) ==
  /\ entry[x] \notin {"none", "failed"} /\ created[x] >= Today
  /\ entry[x] \in {"completed", "unconfirmed"} \/ Young(x, m)

(* sumOrgValueTodayWei, over both stores *)
TotalToday(m) ==
  MapThenSumSet(LAMBDA x : Value[x], {x \in Movers : Counted(x, m)})

(* What is at work all the same but too old to count, and m itself if its   *)
(* row will be dated before the midnight it sums after.                     *)
Missed(m) ==
  {x \in Movers : entry[x] = "inflight" /\ created[x] >= Today /\ ~Young(x, m)}
    \cup {x \in {m} : created[x] < Today}

Sum(m) ==
  /\ at[m] = "summing"
  /\ IF TotalToday(m) + Value[m] > Cap
     THEN Refuse(m) /\ lock' = (IF lock = m THEN Nobody ELSE lock)
     ELSE Go(m, "inserting") /\ UNCHANGED <<verdict, lock>>
  /\ overlooked' = overlooked \cup Missed(m)
  /\ UNCHANGED <<env, now, key, outcome, tx, entry, created, capRow, keyGhost>>

(* The insert and the commit *)
Insert(m) ==
  /\ at[m] = "inserting"
  /\ entry' = [entry EXCEPT ![m] = "inflight"]
  /\ lock' = IF lock = m THEN Nobody ELSE lock
  /\ Reserved(m)
  /\ UNCHANGED <<env, now, key, result, created, capRow, overlooked, keyGhost>>

(* chargePaygIfBillable, and markRunning *)
Charge(r) ==
  /\ at[r] = "charging"
  /\ \/ Go(r, "working") /\ UNCHANGED <<entry, verdict>>
     \/ Refuse(r) /\ entry' = [entry EXCEPT ![r] = "failed"]
  /\ UNCHANGED <<env, now, key, outcome, tx, created, lock, capRow, overlooked, keyGhost>>

-----------------------------------------------------------------------------
(* The core under withIdempotencyHeartbeat; withValueCap's run *)

Beat(r) ==
  /\ at[r] = "working" /\ KeyOf[r] # NoKey /\ r \notin beats
  /\ beats' = beats \cup {r}
  /\ UNCHANGED <<env, now, record, seen, tries, at, result, capVars, keyGhost>>

(* A heartbeat matches the version alone, so one that lands behind its own  *)
(* finalize takes the replay window back to ProcessingTTL.                  *)
BeatLands(r) ==
  /\ r \in beats /\ beats' = beats \ {r}
  /\ IF Fenced(r)
     THEN /\ record' = [record EXCEPT ![KeyOf[r]].expires = now + ProcessingTTL]
          /\ cutShort' = IF record[KeyOf[r]].status = "processing" THEN cutShort
                         ELSE cutShort \cup {r}
     ELSE UNCHANGED <<record, cutShort>>
  /\ UNCHANGED <<env, now, seen, tries, at, result, capVars, kept, past>>

BeatLost(r) ==
  /\ env.faults /\ r \in beats /\ beats' = beats \ {r}
  /\ UNCHANGED <<env, now, record, seen, tries, at, result, capVars, keyGhost>>

Send(m) ==
  /\ at[m] = "working" /\ tx[m] = "none"
  /\ tx' = [tx EXCEPT ![m] = "out"]
  /\ UNCHANGED <<env, now, key, at, outcome, verdict, capVars, keyGhost>>

(* transferFundsCore: rejected tells that nothing was sent; unexplained     *)
(* tells nothing, where nothing was; attempted has no hash, and may be said *)
(* of a transaction that never went out.                                    *)
CoreReturns(m) ==
  /\ at[m] = "working"
  /\ \E o \in IF tx[m] = "none" THEN {"rejected", "unexplained", "attempted"}
                                 ELSE {"success", "hashed", "attempted"} :
       outcome' = [outcome EXCEPT ![m] = o]
  /\ Go(m, IF m \in Requests THEN "verifying" ELSE "recording")
  /\ UNCHANGED <<env, now, key, verdict, tx, capVars, keyGhost>>

(* A sponsored send has landed, and the read of the explorer's link that    *)
(* follows fails: the core takes it for a sponsorship that sent nothing,    *)
(* signs directly, is refused before that goes out, and tells that nothing  *)
(* was sent.                                                                *)
CoreForgets(m) ==
  /\ env.faults /\ at[m] = "working" /\ tx[m] = "landed"
  /\ outcome' = [outcome EXCEPT ![m] = "forgotten"]
  /\ overlooked' = overlooked \cup {m}
  /\ Go(m, IF m \in Requests THEN "verifying" ELSE "recording")
  /\ UNCHANGED <<env, now, key, verdict, tx, entry, created, lock, capRow, keyGhost>>

-----------------------------------------------------------------------------
(* completeExecution, failExecution: what a readable receipt says decides,  *)
(* but a failure that landed is left to the reconciler.                     *)
Verdicts(r) ==
  CASE outcome[r] = "success"   -> {"unconfirmed"}
                                     \cup {v \in {"completed"} : tx[r] = "landed"}
                                     \cup {v \in {"failed"} : tx[r] = "reverted"}
    [] outcome[r] = "hashed"    -> {"unconfirmed"}
                                     \cup {v \in {"failed"} : tx[r] = "reverted"}
    [] outcome[r] = "attempted" -> {"unconfirmed"}
    [] OTHER                    -> {"failed"}

Verify(r) ==
  /\ at[r] = "verifying"
  /\ \E v \in Verdicts(r) :
       /\ verdict' = [verdict EXCEPT ![r] = v]
       /\ entry'   = [entry EXCEPT ![r] = v]
  /\ Go(r, "recording")
  /\ UNCHANGED <<env, now, key, outcome, tx, created, lock, capRow, overlooked, keyGhost>>

(* Fault: an attempt without a hash is taken for one that sent nothing. *)
DispositionOfHash(r) ==
  IF verdict[r] = "completed" THEN "success"
  ELSE IF verdict[r] = "refused" \/ outcome[r] \in {"attempted", "rejected", "forgotten"}
  THEN "release"
  ELSE "failed"

(* dispositionForExecutionOutcome, and the release of a request refused *)
Disposition(r) ==
  IF verdict[r] = "completed" THEN "success"
  ELSE IF \/ verdict[r] = "refused"
          \/ /\ verdict[r] = "failed"
             /\ outcome[r] \in {"success", "hashed", "rejected", "forgotten"}
       THEN "release"
  ELSE "failed"

Release(r) ==
  /\ record' = [record EXCEPT ![KeyOf[r]] = NoRecord]
  /\ UNCHANGED kept

Finalize(r) ==
  /\ record' = [record EXCEPT
       ![KeyOf[r]].status  = IF Disposition(r) = "success" THEN "completed" ELSE "failed",
       ![KeyOf[r]].said    = verdict[r],
       ![KeyOf[r]].expires = now + Day]
  /\ kept' = [kept EXCEPT ![r] = now + Day]

(* recordIdempotentResponse *)
Record(r) ==
  /\ at[r] = "recording" /\ r \in Requests
  /\ IF ~Fenced(r) THEN UNCHANGED <<record, kept>>
     ELSE IF Disposition(r) = "release" THEN Release(r)
     ELSE Finalize(r)
  /\ Go(r, "over")
  /\ UNCHANGED <<env, now, seen, tries, beats, result, capVars, cutShort, past>>

(* withValueCap: settleReservation on success, else releaseReservation, of  *)
(* a send that may still land too.                                          *)
SettleStep(s) ==
  /\ at[s] = "recording" /\ s \in Steps
  /\ entry' = [entry EXCEPT ![s] =
       IF @ = "none" THEN @ ELSE IF outcome[s] = "success" THEN "completed" ELSE "failed"]
  /\ overlooked' = IF outcome[s] = "success" \/ ~Standing(s) THEN overlooked
                   ELSE overlooked \cup {s}
  /\ Go(s, "over")
  /\ UNCHANGED <<env, now, key, result, created, lock, capRow, keyGhost>>

-----------------------------------------------------------------------------
(* The process dies, or the handler throws: neither leaves a trace but a    *)
(* transaction that is rolled back.                                         *)
Abandon(m) ==
  /\ env.faults /\ at[m] \in Holding \cup Beginning
  /\ Go(m, "dead")
  /\ lock' = IF lock = m THEN Nobody ELSE lock
  /\ UNCHANGED <<env, now, key, result, entry, created, capRow, overlooked, keyGhost>>

(* withValueCap's catch *)
StepThrows(s) ==
  /\ at[s] = "working" /\ s \in Steps
  /\ outcome' = [outcome EXCEPT ![s] = "threw"]
  /\ Go(s, "recording")
  /\ UNCHANGED <<env, now, key, verdict, tx, capVars, keyGhost>>

(* The chain decides. *)
Resolve(m) ==
  /\ tx[m] = "out"
  /\ \E fate \in {"landed", "reverted", "dropped"} : tx' = [tx EXCEPT ![m] = fate]
  /\ UNCHANGED <<env, now, key, at, outcome, verdict, capVars, keyGhost>>

(* reconcileOne, of unconfirmed rows that have a hash *)
Reconcile(r) ==
  /\ r \in Requests /\ entry[r] = "unconfirmed" /\ outcome[r] \in {"success", "hashed"}
  /\ \E v \in {"completed", "failed"} :
       /\ entry' = [entry EXCEPT ![r] = v]
       /\ \/ v = "completed" /\ tx[r] = "landed"
          \/ v = "failed" /\ (tx[r] = "reverted" \/ now - created[r] >= Day)
  /\ UNCHANGED <<env, now, key, at, result, created, lock, capRow, overlooked, keyGhost>>

(* The clock.  No statement of beginIdempotent and no beat is out for a     *)
(* whole unit; where the environment is timely, a live request's key is     *)
(* extended before it lapses.                                               *)
Tick ==
  /\ now < env.until
  /\ beats = {} /\ \A m \in Movers : at[m] \notin Beginning
  /\ env.timely => \A r \in Requests :
       at[r] \in Holding /\ KeyOf[r] # NoKey => now < record[KeyOf[r]].expires
  /\ now' = now + 1
  /\ UNCHANGED <<env, key, at, result, capVars, keyGhost>>

BeginKey(r) == Reserve(r) \/ Look(r) \/ Reclaim(r)
Beats(r)    == Beat(r) \/ BeatLands(r) \/ BeatLost(r)
Handle(r)   == Charge(r) \/ Verify(r) \/ Record(r) \/ Reconcile(r)
Move(m) ==
  \/ Arrive(m) \/ Open(m) \/ LockCap(m) \/ Sum(m) \/ Insert(m)
  \/ Send(m) \/ CoreReturns(m) \/ CoreForgets(m) \/ Abandon(m) \/ Resolve(m)

Next ==
  \/ \E r \in Requests : BeginKey(r) \/ Beats(r) \/ Handle(r)
  \/ \E s \in Steps : SettleStep(s) \/ StepThrows(s)
  \/ \E m \in Movers : Move(m)
  \/ Tick

Spec == Init /\ [][Next]_vars

-----------------------------------------------------------------------------
(* A record keeps an answer once it is settled. *)
Records ==
  {x \in [by      : Requests \cup {Nobody},
          status  : {"absent", "processing", "completed", "failed"},
          said    : {"nothing", "completed", "failed", "unconfirmed"},
          expires : Nat] :
     x.status \in {"absent", "processing"} <=> x.said = "nothing"}

(* Types; only a request with a key reserves one, the cap row is locked by  *)
(* the transaction that sums under it, and what is recorded has a verdict.  *)
TypeOK ==
  /\ env \in Environments /\ now \in 0 .. env.until
  /\ record \in [Keys -> Records]
  /\ at \in [Movers -> {"idle", "over", "dead"} \cup Beginning \cup Holding]
  /\ seen \in [Requests -> Requests \cup {Nobody}]
  /\ tries \in [Requests -> 0 .. MaxRaceRetries] /\ beats \subseteq Requests
  /\ outcome \in [Movers -> {"none", "rejected", "unexplained", "attempted",
                             "success", "hashed", "forgotten", "threw"}]
  /\ verdict \in [Movers -> {"none", "refused", "completed", "failed", "unconfirmed"}]
  /\ tx \in [Movers -> {"none", "out", "landed", "reverted", "dropped"}]
  /\ entry \in [Movers -> {"none", "inflight", "completed", "unconfirmed", "failed"}]
  /\ created \in [Movers -> 0 .. now]
  /\ lock \in Movers \cup {Nobody} /\ capRow \in BOOLEAN
  /\ kept \in [Requests -> Int] /\ cutShort \subseteq Requests
  /\ past \in [Requests -> SUBSET Requests] /\ overlooked \subseteq Movers
  /\ \A m \in Movers : /\ at[m] \in Beginning => m \in Requests /\ KeyOf[m] # NoKey
                       /\ at[m] \in {"summing", "inserting"} => lock = m
                       /\ at[m] = "recording" /\ m \in Requests => verdict[m] # "none"

(* While no live request's key lapses: two requests of one key never both   *)
(* have a transaction on the chain or on its way, unless the key had let    *)
(* the first go when the second came: its handler had died or thrown, its   *)
(* replay window was over, a heartbeat had landed behind its answer, or its *)
(* core had forgotten a sponsored send.  So a retry never sends again what  *)
(* may have been sent, whatever else the core reports of it.                *)
SentOnce ==
  env.timely =>
    \A r, q \in Requests :
      /\ r # q /\ KeyOf[r] = KeyOf[q] /\ KeyOf[r] # NoKey
      /\ Standing(r) /\ Standing(q)
      => r \in past[q] \/ q \in past[r]

(* Whatever lapses and is taken over: what a replay answers is true of the  *)
(* request whose key it is.  A success has landed, and a failure that is    *)
(* kept as one has sent nothing.                                            *)
KeptAnswersAreTrue ==
  \A k \in Keys :
    /\ record[k].said = "completed" => tx[record[k].by] = "landed"
    /\ record[k].said = "failed"    => tx[record[k].by] = "none"

(* What the movers charged to one day have sent, or may have, is within the *)
(* cap, however their transactions interleave, but for those the code       *)
(* itself does not count: at work for longer than StaleInflight, dated      *)
(* before the midnight they were summed after, forgotten by the core, or    *)
(* released by withValueCap although they may land.                         *)
CapHolds ==
  \A day \in {created[m] \div Day : m \in Movers} :
    MapThenSumSet(LAMBDA m : Value[m],
                  {m \in Movers \ overlooked : created[m] \div Day = day /\ Standing(m)})
      <= Cap
=============================================================================
