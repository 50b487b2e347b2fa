----------------------------- MODULE WalletLock -----------------------------
(***************************************************************************)
(* The wallet+chain lock of lib/web3/nonce-manager.ts: a row of the table   *)
(* wallet_locks (locked_by, expires_at) that nonce sessions take over when  *)
(* it is unheld or lapsed, extend with a heartbeat, and give back.          *)
(*                                                                          *)
(* One (wallet, chain) pair: rows of different pairs share nothing.         *)
(*                                                                          *)
(* Time is counted in heartbeat intervals, lockTtlMs / HEARTBEATS_PER_TTL,  *)
(* so TTL is 4 for the source's constants and MaxSession is                 *)
(* MAX_SESSION_TTLS * TTL = 20.  expires_at is kept relative to NOW():      *)
(* left = expires_at - NOW(), and expires_at < NOW() is left < 0.           *)
(*                                                                          *)
(* The row fences by execution id (locked_by), not by session: two sessions *)
(* of one execution look the same to every WHERE clause.  The ghost owner   *)
(* remembers which session's statement last took the row.                   *)
(***************************************************************************)
EXTENDS Integers

CONSTANTS
  Sessions,       \* one-shot nonce sessions (startSession .. endSession)
  Executions,     \* workflow execution ids
  Exec,           \* Exec[s]: the execution a session belongs to
  None,           \* SQL null: nobody
  TTL,            \* lockTtlMs, in heartbeat intervals
  MaxSession,     \* MAX_SESSION_TTLS * TTL
  Environments,   \* what to choose from: [sessions, quiet], the sessions in use, and
                  \* the ticks a live session may go without a beat landing
  MaxOut,         \* environment: ticks a statement may be out at the database
  ParallelSteps   \* TRUE when one execution runs two write steps at once

ASSUME LockAssumption ==
  /\ Exec \in [Sessions -> Executions]
  /\ None \notin Sessions \cup Executions
  /\ TTL \in Nat /\ MaxSession \in Nat
  /\ Environments \subseteq [sessions : SUBSET Sessions, quiet : Nat]
  /\ MaxOut \in Nat
  /\ ParallelSteps \in BOOLEAN

VARIABLES
  env,       \* this behaviour's choice from Environments
  by,        \* wallet_locks.locked_by
  left,      \* wallet_locks.expires_at - NOW(); -1 once lapsed
  phase,     \* where each session is between startSession and endSession
  lost,      \* NonceSession.lost
  beating,   \* the session's timer is in NonceManager.heartbeats
  out,       \* the extension in flight: none, sent, or missed and not yet read
  outFor,    \* ticks that extension has been out
  quiet,     \* ticks since expires_at was last computed for this session
  age,       \* ticks since startHeartbeat, up to MaxSession
  owner,     \* ghost: the session whose statement holds the row
  held,      \* ghost: ticks since owner started beating
  ejected    \* ghost: sessions whose lock an operator cleared

row     == <<by, left, owner, held>>
beats   == <<beating, out, outFor, age>>
vars    == <<env, by, left, phase, lost, beating, out, outFor, quiet, age,
             owner, held, ejected>>

Phases == {"idle", "trying", "won", "open", "ending", "done", "crashed"}

(* Beats land within the TTL, as four of them per TTL are meant to. *)
Timely == env.quiet <= TTL

(* A session between the start of its first attempt and its last statement. *)
Active(s) == phase[s] \in {"trying", "won", "open", "ending"}

(* A session that may still hand out nonces as far as its process can tell. *)
Live(s) == phase[s] \in {"won", "open"} /\ ~lost[s] /\ s \notin ejected

(* locked_by IS NULL OR expires_at < NOW() *)
Takeable == by = None \/ left < 0

Capped(n, bound) == IF n < bound THEN n ELSE bound
Lapsing(n) == IF n < 0 THEN -1 ELSE n

(* Ticks a lock can stay unavailable after its owner started beating. *)
WedgeBound == MaxSession + MaxOut + TTL

Init ==
  /\ env \in Environments
  /\ by = None /\ left = 0 /\ owner = None /\ held = 0
  /\ phase   = [s \in Sessions |-> "idle"]
  /\ lost    = [s \in Sessions |-> FALSE]
  /\ beating = [s \in Sessions |-> FALSE]
  /\ out     = [s \in Sessions |-> "none"]
  /\ outFor  = [s \in Sessions |-> 0]
  /\ quiet   = [s \in Sessions |-> 0]
  /\ age     = [s \in Sessions |-> 0]
  /\ ejected = {}

(* The row becomes session s's, with an expiry computed from the clock the  *)
(* attempt read before its statements went out.                             *)
TakeRow(s) ==
  /\ Takeable
  /\ by' = Exec[s] /\ left' = Lapsing(TTL - quiet[s])
  /\ owner' = s /\ held' = 0

(* locked_by = null, expires_at = NOW() *)
ClearRow == by' = None /\ left' = 0 /\ owner' = None /\ held' = 0

(* stopHeartbeat: the timer and its deadline are gone. *)
StopTimer(s) ==
  /\ beating' = [beating EXCEPT ![s] = FALSE]
  /\ age'     = [age EXCEPT ![s] = 0]

(* The session is over; the clock it was timed by no longer matters. *)
Leave(s, end) ==
  /\ phase'   = [phase EXCEPT ![s] = end]
  /\ quiet'   = [quiet EXCEPT ![s] = 0]
  /\ ejected' = ejected \ {s}

-----------------------------------------------------------------------------
(* acquireLock: a fan-out of one execution may start a second session while *)
(* the first is open; sequential steps start theirs one after the other.    *)
Start(s) ==
  /\ phase[s] = "idle" /\ s \in env.sessions
  /\ ParallelSteps \/ \A t \in Sessions : Exec[t] = Exec[s] => ~Active(t)
  /\ phase' = [phase EXCEPT ![s] = "trying"]
  /\ UNCHANGED <<row, lost, beats, quiet, ejected>>

(* The INSERT or the takeover UPDATE of this attempt wins the row. *)
AttemptWins(s) ==
  /\ phase[s] = "trying"
  /\ TakeRow(s)
  /\ phase' = [phase EXCEPT ![s] = "won"]
  /\ UNCHANGED <<lost, beats, quiet, ejected>>

(* Held and not lapsed: sleep, and read the clock again for the next try.   *)
(* The attempt budget is not counted: any busy attempt may be the last one. *)
AttemptBusy(s) ==
  /\ phase[s] = "trying" /\ ~Takeable
  /\ quiet' = [quiet EXCEPT ![s] = 0]
  /\ UNCHANGED <<row, phase, lost, beats, ejected>>

(* The budget is exhausted ("Wallet is saturated"). *)
AttemptSaturated(s) ==
  /\ phase[s] = "trying" /\ ~Takeable
  /\ Leave(s, "done")
  /\ UNCHANGED <<row, lost, beats>>

(* The attempt throws.  Its statement may have landed with only the reply   *)
(* lost; acquireLock runs outside startSession's try, so nobody releases.   *)
AttemptFails(s) ==
  /\ phase[s] = "trying"
  /\ TakeRow(s) \/ UNCHANGED row
  /\ Leave(s, "done")
  /\ UNCHANGED <<lost, beats>>

StartHeartbeat(s) ==
  /\ phase[s] = "won"
  /\ phase'   = [phase EXCEPT ![s] = "open"]
  /\ beating' = [beating EXCEPT ![s] = TRUE]
  /\ held' = IF owner = s THEN 0 ELSE held
  /\ UNCHANGED <<by, left, owner, lost, out, outFor, quiet, age, ejected>>

-----------------------------------------------------------------------------
(* Fault: the timer has no deadline. *)
BeatSendForever(s) ==
  /\ beating[s] /\ out[s] = "none"
  /\ out' = [out EXCEPT ![s] = "sent"]
  /\ UNCHANGED <<row, phase, lost, beating, outFor, quiet, age, ejected>>

(* The timer fires before its deadline: one extension at a time. *)
BeatSend(s) ==
  /\ beating[s] /\ age[s] < MaxSession /\ out[s] = "none"
  /\ out' = [out EXCEPT ![s] = "sent"]
  /\ UNCHANGED <<row, phase, lost, beating, outFor, quiet, age, ejected>>

(* Fault: the timer stops and the session is not told. *)
GiveUpSilently(s) ==
  /\ beating[s] /\ age[s] >= MaxSession
  /\ StopTimer(s)
  /\ UNCHANGED <<row, phase, lost, out, outFor, quiet, ejected>>

(* The timer fires at or after its deadline. *)
GiveUp(s) ==
  /\ beating[s] /\ age[s] >= MaxSession
  /\ StopTimer(s)
  /\ lost' = [lost EXCEPT ![s] = TRUE]
  /\ UNCHANGED <<row, phase, out, outFor, quiet, ejected>>

(* Fault: the new expiry is a JS date fixed when the statement was built. *)
BeatLandsWithOldDate(s) ==
  /\ out[s] = "sent"
  /\ IF by = Exec[s]
       THEN /\ left'  = Lapsing(TTL - outFor[s])
            /\ quiet' = [quiet EXCEPT ![s] = 0]
            /\ out'   = [out EXCEPT ![s] = "none"]
       ELSE /\ out' = [out EXCEPT ![s] = "miss"]
            /\ UNCHANGED <<left, quiet>>
  /\ outFor' = [outFor EXCEPT ![s] = 0]
  /\ UNCHANGED <<by, owner, held, phase, lost, beating, age, ejected>>

(* The UPDATE ... WHERE locked_by = executionId executes at the database,   *)
(* even when the process that sent it is gone.  A hit needs no further step *)
(* of the process, so its reply is part of this one.                        *)
BeatLands(s) ==
  /\ out[s] = "sent"
  /\ IF by = Exec[s]
       THEN /\ left'  = TTL
            /\ quiet' = [quiet EXCEPT ![s] = 0]
            /\ out'   = [out EXCEPT ![s] = "none"]
       ELSE /\ out' = [out EXCEPT ![s] = "miss"]
            /\ UNCHANGED <<left, quiet>>
  /\ outFor' = [outFor EXCEPT ![s] = 0]
  /\ UNCHANGED <<by, owner, held, phase, lost, beating, age, ejected>>

(* The extension errors, or its reply does: the next beat retries. *)
BeatErrors(s) ==
  /\ out[s] # "none"
  /\ out'    = [out EXCEPT ![s] = "none"]
  /\ outFor' = [outFor EXCEPT ![s] = 0]
  /\ UNCHANGED <<row, phase, lost, beating, quiet, age, ejected>>

(* extendLock resumes after a miss: the lock is lost, unless the session    *)
(* stopped its timer while the statement was out.                           *)
BeatReply(s) ==
  /\ phase[s] # "crashed" /\ out[s] = "miss"
  /\ out' = [out EXCEPT ![s] = "none"]
  /\ IF beating[s]
       THEN StopTimer(s) /\ lost' = [lost EXCEPT ![s] = TRUE]
       ELSE UNCHANGED <<beating, age, lost>>
  /\ UNCHANGED <<row, phase, outFor, quiet, ejected>>

-----------------------------------------------------------------------------
(* Fault: the timer is left running until after the release. *)
EndSessionBeating(s) ==
  /\ phase[s] = "open"
  /\ phase' = [phase EXCEPT ![s] = "ending"]
  /\ UNCHANGED <<row, lost, beats, quiet, ejected>>

(* endSession, or startSession's catch: stop beating, then release. *)
EndSession(s) ==
  /\ phase[s] = "open"
  /\ phase' = [phase EXCEPT ![s] = "ending"]
  /\ StopTimer(s)
  /\ UNCHANGED <<row, lost, out, outFor, quiet, ejected>>

(* Fault: the release is not fenced on locked_by. *)
ReleaseUnfenced(s) ==
  /\ phase[s] = "ending"
  /\ ClearRow
  /\ Leave(s, "done")
  /\ UNCHANGED <<lost, beats>>

(* releaseLock: UPDATE ... WHERE locked_by = executionId. *)
Release(s) ==
  /\ phase[s] = "ending"
  /\ IF by = Exec[s] THEN ClearRow ELSE UNCHANGED row
  /\ Leave(s, "done")
  /\ UNCHANGED <<lost, beats>>

(* The release errors: the row stays held until it lapses. *)
ReleaseErrors(s) ==
  /\ phase[s] = "ending"
  /\ Leave(s, "done")
  /\ UNCHANGED <<row, lost, beats>>

(* The process dies; an extension already sent can still land. *)
Crash(s) ==
  /\ Active(s)
  /\ Leave(s, "crashed")
  /\ StopTimer(s)
  /\ UNCHANGED <<row, lost, out, outFor>>

-----------------------------------------------------------------------------
(* Fault: the reaper clears rows a heartbeat is still renewing. *)
ReapUnlapsed ==
  /\ by # None
  /\ ClearRow
  /\ UNCHANGED <<phase, lost, beats, quiet, ejected>>

(* The stale-execution reaper clears lapsed rows of the executions it reaps. *)
Reap ==
  /\ by # None /\ left < 0
  /\ ClearRow
  /\ UNCHANGED <<phase, lost, beats, quiet, ejected>>

(* An operator's wallet-unlock reads the holder, then clears the row if     *)
(* locked_by still is what it read: in effect it clears whoever holds it.   *)
Unlock ==
  /\ by # None
  /\ ClearRow
  /\ ejected' = IF Active(owner) THEN ejected \cup {owner} ELSE ejected
  /\ UNCHANGED <<phase, lost, beats, quiet>>

(* One heartbeat interval passes.  The environment lets no statement stay   *)
(* out longer than MaxOut ticks and no live session go env.quiet ticks      *)
(* without an extension; a large bound assumes nothing.                     *)
Tick ==
  /\ \A s \in Sessions : phase[s] = "trying" \/ Live(s) => quiet[s] < env.quiet
  /\ \A s \in Sessions : out[s] = "sent" => outFor[s] < MaxOut
  /\ left' = IF by = None THEN left ELSE Lapsing(left - 1)
  /\ held' = IF owner = None \/ left < 0 THEN held ELSE Capped(held + 1, WedgeBound)
  /\ quiet' = [s \in Sessions |->
                 IF phase[s] \in {"trying", "won", "open"}
                   THEN Capped(quiet[s] + 1, TTL + 1) ELSE quiet[s]]
  /\ age' = [s \in Sessions |->
                 IF beating[s] THEN Capped(age[s] + 1, MaxSession) ELSE age[s]]
  /\ outFor' = [s \in Sessions |->
                 IF out[s] = "sent" THEN outFor[s] + 1 ELSE outFor[s]]
  /\ UNCHANGED <<by, owner, phase, lost, beating, out, ejected>>

-----------------------------------------------------------------------------
Acquiring(s) == AttemptWins(s) \/ AttemptBusy(s) \/ AttemptSaturated(s) \/ AttemptFails(s)

Beat(s) == BeatSend(s) \/ GiveUp(s) \/ BeatLands(s) \/ BeatErrors(s) \/ BeatReply(s)

Finish(s) == EndSession(s) \/ Release(s) \/ ReleaseErrors(s) \/ Crash(s)

Next ==
  /\ \/ \E s \in Sessions : Start(s) \/ Acquiring(s) \/ StartHeartbeat(s) \/ Beat(s) \/ Finish(s)
     \/ Reap \/ Unlock \/ Tick
  /\ UNCHANGED env

Spec == Init /\ [][Next]_vars

(* Time passes, the timer of a running process fires, and the database      *)
(* answers.  Nothing is assumed of sessions, operators or the reaper.       *)
Fairness ==
  /\ WF_vars(Tick /\ UNCHANGED env)
  /\ \A s \in Sessions :
       /\ WF_vars(GiveUp(s) /\ UNCHANGED env)
       /\ WF_vars((BeatLands(s) \/ BeatErrors(s)) /\ UNCHANGED env)

FairSpec == Spec /\ Fairness

-----------------------------------------------------------------------------
(* Types of the variables of the lock and its sessions; the ghost owner     *)
(* accounts for the row.                                                    *)
TypeOK ==
  /\ env \in Environments
  /\ by \in Executions \cup {None}
  /\ owner \in Sessions \cup {None}
  /\ by = IF owner = None THEN None ELSE Exec[owner]
  /\ left \in -1 .. TTL /\ held \in 0 .. WedgeBound
  /\ phase \in [Sessions -> Phases]
  /\ lost \in [Sessions -> BOOLEAN] /\ beating \in [Sessions -> BOOLEAN]
  /\ out \in [Sessions -> {"none", "sent", "miss"}]
  /\ outFor \in [Sessions -> 0 .. MaxOut]
  /\ quiet \in [Sessions -> 0 .. TTL + 1]
  /\ age \in [Sessions -> 0 .. MaxSession]
  /\ ejected \subseteq Sessions

(* Writes from one wallet are serialised: while beats land within the TTL    *)
(* and the write steps of one execution do not overlap, a session that has   *)
(* not ended, been told it lost the lock, or been ejected by an operator has *)
(* the row to itself; nobody can take it, and of its TTL all is left but the *)
(* time since its last beat (nonce-manager.ts, HEARTBEATS_PER_TTL).         *)
MutualExclusion ==
  Timely => \A s \in Sessions :
              Live(s) => /\ owner = s /\ by = Exec[s] /\ ~Takeable
                         /\ left >= TTL - env.quiet
                         /\ \A t \in Sessions : Live(t) => t = s

(* releaseLock frees the row only if this session still holds it; a holder  *)
(* that took over the lapsed lock keeps it (nonce-manager.ts, releaseLock). *)
ReleaseFreesOwnRow ==
  [][\A s \in Sessions : phase[s] = "ending" /\ phase'[s] = "done" /\ owner' # owner
       => owner = s]_vars

(* The timer of a session that ended reports no lock loss: `lost` is raised *)
(* only on an open session, whose row somebody else has or that outlived    *)
(* MAX_SESSION_TTLS (nonce-manager.ts, endSession and extendLock).          *)
NoFalseLoss ==
  [][\A s \in Sessions : ~lost[s] /\ lost'[s]
       => phase[s] = "open" /\ (owner # s \/ age[s] >= MaxSession)]_vars

(* However its holder behaves, dies or hangs, the lock is takeable again    *)
(* within (MAX_SESSION_TTLS + 1) TTLs of the first beat, give or take the   *)
(* time one extension spends at the database.                               *)
WedgeBounded == owner # None /\ left >= 0 => held < WedgeBound

(* A session whose row went to somebody else is eventually refused nonces   *)
(* or ends; it does not go on for ever on a lock it does not have.  (Where  *)
(* beats are bound to land, time itself waits for them.)                    *)
TakeoverNoticed ==
  \A s \in Sessions :
    ~Timely /\ phase[s] = "open" /\ owner # s ~> (phase[s] # "open" \/ lost[s])

-----------------------------------------------------------------------------
(* The abstract lease: its holder is the live session.  Where beats may miss *)
(* the TTL there is no lease to speak of.                                   *)
liveHolder == IF Timely /\ \E s \in Sessions : Live(s)
                THEN CHOOSE s \in Sessions : Live(s) ELSE None

Lease == INSTANCE ExclusiveLease WITH holder <- liveHolder

(* The lock implements the abstract lease. *)
ImplementsLease == Lease!LeaseSpec

-----------------------------------------------------------------------------
(* Inductive strengthenings, for WalletLockProofs. *)

(* The write steps of one execution do not overlap. *)
NoOverlap ==
  \A s, t \in Sessions :
    Exec[s] = Exec[t] /\ Active(s) /\ Active(t) => s = t

(* A session past acquireLock that finds its execution in the row put it there. *)
RowIsOwn ==
  \A s \in Sessions :
    phase[s] \in {"won", "open", "ending"} /\ by = Exec[s] => owner = s

(* Expiries are computed from clocks no older than env.quiet, so a live     *)
(* session's expiry is ahead by what is left of its TTL.                    *)
FreshExpiry ==
  \A s \in Sessions :
    /\ phase[s] = "idle" => quiet[s] = 0
    /\ phase[s] = "trying" => quiet[s] <= env.quiet
    /\ Live(s) => /\ quiet[s] <= env.quiet
                  /\ by = Exec[s] /\ owner = s
                  /\ left >= TTL - quiet[s]

LockInv == TypeOK /\ NoOverlap /\ RowIsOwn /\ FreshExpiry
=============================================================================
