-------------------------- MODULE ScheduleDispatch --------------------------
(***************************************************************************)
(* The schedule dispatcher (keeperhub-scheduler/schedule-dispatcher): on    *)
(* every replica a ticker that runs while the replica leads, and passes     *)
(* that enqueue the occurrences of their window, each behind a phantom row  *)
(* whose dispatch key names the occurrence (lib/phantom.ts,                 *)
(* app/api/internal/executions/route.ts).                                   *)
(*                                                                          *)
(* Who leads is not decided here: any replica may start or stop leading at  *)
(* any time, also two at once.  One schedule; a pass takes any time, a      *)
(* timer fires when it is due.  The executor's part is the claim of the     *)
(* row, as in ExecutionLifecycle, and the reaper is left to that module.    *)
(***************************************************************************)
EXTENDS Integers

CONSTANTS
  Pods,         \* the replicas
  Chains,       \* bound: passes and timers of one replica at once, 1 .. n
  Minute,       \* 60 s, the spacing of ticks and the look-back of a first pass
  Offset,       \* TICK_OFFSET_MS
  MaxAttempts,  \* MAX_ATTEMPTS of the API client
  Due,          \* the times at which the schedule has an occurrence
  Horizon,      \* bound: the last moment looked at
  MaxTerms,     \* bound: how often a replica starts to lead
  MaxTroubles   \* bound: failed calls and crashes

ASSUME DispatchAssumption ==
  /\ Minute \in Nat \ {0} /\ Offset \in 0 .. Minute - 1
  /\ MaxAttempts \in Nat \ {0} /\ Horizon \in Nat /\ Due \subseteq 0 .. Horizon
  /\ MaxTerms \in Nat /\ MaxTroubles \in Nat

VARIABLES
  now,
  terms,     \* terms begun so far
  troubles,  \* failed calls and crashes so far
  on,        \* the ticker is not stopped
  lastTick,  \* lastTickAt; Never is null
  timer,     \* the chain whose setTimeout the ticker remembers; 0 for null
  pass,      \* pass[p]: where a chain of passes and timers is
  row,       \* the occurrence's row: none, phantom, CS-0001, or taken by a run
  tracked,   \* its messages in the queue that carry the row's id
  bare,      \* ... that do not
  runs,      \* how often its workflow was started
  \* ghosts
  since,     \* how far back the first window of this term reaches
  reach,     \* how far the windows of this term reach
  missed,    \* occurrences between two windows of one term
  forgone,   \* in a window that was given up, or refused by the platform
  cut,       \* occurrences whose pass died, was refused on a retry, or could
             \* not mark the row
  untraced   \* occurrences a pass went on with without the row's id

bounds == <<terms, troubles>>
ticker == <<on, lastTick, timer>>
queue  == <<tracked, bare>>
term   == <<since, reach>>
ghosts == <<since, reach, missed, forgone, cut, untraced>>
vars   == <<now, bounds, ticker, pass, row, queue, runs, ghosts>>

Passes == Pods \X Chains
Never == 0 - Minute
Idle == [pc |-> "none", due |-> 0, from |-> 0, to |-> 0, todo |-> {}, tries |-> 0, id |-> FALSE]

(* msUntilNextTick *)
NextTick(t) == CHOOSE n \in t + 1 .. t + Minute : n % Minute = Offset

Earliest(S) == CHOOSE x \in S : \A y \in S : x <= y
Occurrence(p) == Earliest(pass[p].todo)

Set(p, to) == pass' = [pass EXCEPT ![p] = to]
SetRow(o, to) == row' = [row EXCEPT ![o] = to]

Init ==
  /\ now = 0 /\ terms = 0 /\ troubles = 0
  /\ on = [r \in Pods |-> FALSE] /\ lastTick = [r \in Pods |-> Never]
  /\ timer = [r \in Pods |-> 0]
  /\ pass = [p \in Passes |-> Idle]
  /\ row = [o \in Due |-> "none"]
  /\ tracked = [o \in Due |-> 0] /\ bare = [o \in Due |-> 0] /\ runs = [o \in Due |-> 0]
  /\ since = [r \in Pods |-> 0] /\ reach = [r \in Pods |-> 0]
  /\ missed = {} /\ forgone = {} /\ cut = {} /\ untraced = {}

-----------------------------------------------------------------------------
(* dispatch(lastTickAt): the window is stamped before the schedules are read. *)
Fetching(from) == [Idle EXCEPT !.pc = "fetch", !.from = from, !.to = now]
LookBack(t) == IF t = Never THEN now - Minute ELSE t

InWindow(from, to) == {o \in Due : from < o /\ o <= to}

(* onStartedLeading: the first pass looks a minute back. *)
StartTicker(r) ==
  /\ ~on[r] /\ terms < MaxTerms /\ terms' = terms + 1
  /\ on' = [on EXCEPT ![r] = TRUE]
  /\ lastTick' = [lastTick EXCEPT ![r] = Never]
  /\ \E c \in Chains :
       /\ pass[<<r, c>>].pc = "none" /\ \A d \in Chains : d < c => pass[<<r, d>>].pc # "none"
       /\ Set(<<r, c>>, Fetching(LookBack(Never)))
  /\ since' = [since EXCEPT ![r] = LookBack(Never)] /\ reach' = [reach EXCEPT ![r] = now]
  /\ UNCHANGED <<now, troubles, timer, row, queue, runs, missed, forgone, cut, untraced>>

EndTerm(r) == since' = [since EXCEPT ![r] = 0] /\ reach' = [reach EXCEPT ![r] = 0]

(* onStoppedLeading, and the shutdown handler: the remembered timer is       *)
(* cleared; a pass under way goes on.                                       *)
StopTicker(r) ==
  /\ on[r]
  /\ on' = [on EXCEPT ![r] = FALSE] /\ timer' = [timer EXCEPT ![r] = 0]
  /\ pass' = [p \in Passes |->
                IF p = <<r, timer[r]>> /\ pass[p].pc = "timer" THEN Idle ELSE pass[p]]
  /\ EndTerm(r)
  /\ UNCHANGED <<now, bounds, lastTick, row, queue, runs, missed, forgone, cut, untraced>>

(* tick(): the window reaches back to the tick before. *)
Fire(p) ==
  LET r == p[1]  from == LookBack(lastTick[r]) IN
  /\ pass[p].pc = "timer" /\ now >= pass[p].due
  /\ IF on[r]
       THEN /\ Set(p, Fetching(from))
            /\ lastTick' = [lastTick EXCEPT ![r] = now]
            /\ reach' = [reach EXCEPT ![r] = now]
            /\ missed' = missed \cup InWindow(reach[r], from)
       ELSE Set(p, Idle) /\ UNCHANGED <<lastTick, reach, missed>>
  /\ UNCHANGED <<now, bounds, on, timer, row, queue, runs, since, forgone, cut, untraced>>

(* The pass is over, in whichever way: scheduleNext. *)
EndPass(p) ==
  IF on[p[1]]
    THEN /\ Set(p, [Idle EXCEPT !.pc = "timer", !.due = NextTick(now)])
         /\ timer' = [timer EXCEPT ![p[1]] = p[2]]
    ELSE Set(p, Idle) /\ UNCHANGED timer

(* One of the failures the instance is bounded by. *)
Trouble == troubles < MaxTroubles /\ troubles' = troubles + 1

(* Fault: the id of the occurrence before is still there. *)
ProceedKeepingId(p, todo) ==
  IF todo = {} THEN EndPass(p)
  ELSE /\ Set(p, [pass[p] EXCEPT !.pc = "create", !.todo = todo, !.tries = 1])
       /\ UNCHANGED timer

(* On to the occurrences in todo. *)
Proceed(p, todo) ==
  IF todo = {} THEN EndPass(p)
  ELSE /\ Set(p, [pass[p] EXCEPT !.pc = "create", !.todo = todo, !.tries = 1, !.id = FALSE])
       /\ UNCHANGED timer

GoOn(p) == Proceed(p, pass[p].todo \ {Occurrence(p)})

(* fetchSchedules answers, or its last try fails and the window is given up. *)
Fetch(p) ==
  /\ pass[p].pc = "fetch"
  /\ Proceed(p, InWindow(pass[p].from, pass[p].to))
  /\ UNCHANGED <<now, bounds, on, lastTick, row, queue, runs, ghosts>>

FetchFails(p) ==
  /\ pass[p].pc = "fetch" /\ Trouble
  /\ EndPass(p)
  /\ forgone' = forgone \cup InWindow(pass[p].from, pass[p].to)
  /\ UNCHANGED <<now, terms, on, lastTick, row, queue, runs, since, reach, missed, cut, untraced>>

-----------------------------------------------------------------------------
(* The insert of the POST: nothing happens where the dispatch key exists. *)
Insert(o) == IF row[o] = "none" THEN SetRow(o, "phantom") ELSE UNCHANGED row

(* Fault: a row found on a retry is taken for another dispatcher's. *)
SkipsAnyHit(p) == row[Occurrence(p)] # "none"

(* alreadyExisted: trusted on the first attempt alone. *)
SkipsHit(p) == row[Occurrence(p)] # "none" /\ pass[p].tries = 1

(* Fault: a duplicate ends the pass. *)
SkipToEnd(p) == EndPass(p)

(* continue *)
Skip(p) == GoOn(p)

(* The POST is answered. *)
PostAnswered(p) ==
  LET o == Occurrence(p) IN
  /\ pass[p].pc = "create"
  /\ Insert(o)
  /\ IF SkipsHit(p) THEN Skip(p)
       ELSE Set(p, [pass[p] EXCEPT !.pc = "send", !.id = TRUE]) /\ UNCHANGED timer
  /\ UNCHANGED <<now, bounds, on, lastTick, queue, runs, ghosts>>

(* No id: the occurrence is enqueued all the same. *)
SendBare(p) ==
  /\ Set(p, [pass[p] EXCEPT !.pc = "send"])
  /\ untraced' = untraced \cup {Occurrence(p)}

(* An attempt is lost on its way there or back, or answered 5xx. *)
PostFails(p) ==
  /\ pass[p].pc = "create" /\ Trouble
  /\ Insert(Occurrence(p)) \/ UNCHANGED row
  /\ IF pass[p].tries < MaxAttempts
       THEN Set(p, [pass[p] EXCEPT !.tries = @ + 1]) /\ UNCHANGED untraced
       ELSE SendBare(p)
  /\ UNCHANGED <<now, terms, ticker, queue, runs, since, reach, missed, forgone, cut>>

(* 4xx: not tried again. *)
PostRejected(p) ==
  /\ pass[p].pc = "create" /\ Trouble
  /\ SendBare(p)
  /\ UNCHANGED <<now, terms, ticker, row, queue, runs, since, reach, missed, forgone, cut>>

(* The platform refuses on plan grounds: admission comes before the insert,  *)
(* so a retry may be refused after an attempt that was let in.              *)
PostRefused(p) ==
  /\ pass[p].pc = "create" /\ Trouble
  /\ GoOn(p)
  /\ forgone' = forgone \cup {Occurrence(p)}
  /\ cut' = IF pass[p].tries = 1 THEN cut ELSE cut \cup {Occurrence(p)}
  /\ UNCHANGED <<now, terms, on, lastTick, row, queue, runs, since, reach, missed, untraced>>

Enqueue(p) ==
  LET o == Occurrence(p) IN
  IF pass[p].id THEN tracked' = [tracked EXCEPT ![o] = @ + 1] /\ UNCHANGED bare
                ELSE bare' = [bare EXCEPT ![o] = @ + 1] /\ UNCHANGED tracked

(* sendToQueue *)
Send(p) ==
  /\ pass[p].pc = "send"
  /\ Enqueue(p)
  /\ GoOn(p)
  /\ UNCHANGED <<now, bounds, on, lastTick, row, runs, ghosts>>

(* The throw after a failed send: the schedule's other occurrences of this   *)
(* window are given up.                                                     *)
Abandon(p) ==
  /\ forgone' = forgone \cup (IF pass[p].id THEN pass[p].todo \ {Occurrence(p)} ELSE pass[p].todo)
  /\ EndPass(p)

(* The send throws; the message may be in the queue all the same. *)
SendFails(p) ==
  /\ pass[p].pc = "send" /\ Trouble
  /\ Enqueue(p) \/ UNCHANGED queue
  /\ IF pass[p].id
       THEN Set(p, [pass[p] EXCEPT !.pc = "mark"]) /\ UNCHANGED <<timer, forgone>>
       ELSE Abandon(p)
  /\ UNCHANGED <<now, terms, on, lastTick, row, runs, since, reach, missed, cut, untraced>>

(* failPhantomExecution: the row becomes CS-0001 whatever it says (the route *)
(* spares cancelled and skipped rows only).                                 *)
Mark(p) ==
  /\ pass[p].pc = "mark"
  /\ SetRow(Occurrence(p), "CS-0001")
  /\ Abandon(p)
  /\ UNCHANGED <<now, bounds, on, lastTick, queue, runs, since, reach, missed, cut, untraced>>

(* ... or the call fails, which is swallowed. *)
MarkFails(p) ==
  /\ pass[p].pc = "mark" /\ Trouble
  /\ Abandon(p)
  /\ cut' = cut \cup {Occurrence(p)}
  /\ UNCHANGED <<now, terms, on, lastTick, row, queue, runs, since, reach, missed, untraced>>

(* The process dies. *)
Crash(r) ==
  /\ (\E c \in Chains : pass[<<r, c>>].pc # "none") /\ Trouble
  /\ pass' = [p \in Passes |-> IF p[1] = r THEN Idle ELSE pass[p]]
  /\ on' = [on EXCEPT ![r] = FALSE] /\ timer' = [timer EXCEPT ![r] = 0]
  /\ cut' = cut \cup {Occurrence(p) : p \in {q \in Passes : q[1] = r /\ pass[q].todo # {}}}
  /\ EndTerm(r)
  /\ UNCHANGED <<now, terms, lastTick, row, queue, runs, missed, forgone, untraced>>

-----------------------------------------------------------------------------
(* Fault: a message is dropped for a failed row only. *)
ClaimableUnfailed(o) == row[o] \in {"phantom", "taken"}

(* The executor's claim of the row is a compare-and-set. *)
Claimable(o) == row[o] = "phantom"

(* A message with an id starts the run of its row or is dropped. *)
Deliver(o) ==
  /\ tracked[o] > 0 /\ tracked' = [tracked EXCEPT ![o] = @ - 1]
  /\ IF Claimable(o) THEN SetRow(o, "taken") /\ runs' = [runs EXCEPT ![o] = @ + 1]
                     ELSE UNCHANGED <<row, runs>>
  /\ UNCHANGED <<now, bounds, ticker, pass, bare, ghosts>>

(* One without an id gets a row of its own. *)
DeliverBare(o) ==
  /\ bare[o] > 0 /\ bare' = [bare EXCEPT ![o] = @ - 1]
  /\ runs' = [runs EXCEPT ![o] = @ + 1]
  /\ UNCHANGED <<now, bounds, ticker, pass, row, tracked, ghosts>>

(* A timer that is due fires before time goes on. *)
TimePasses ==
  /\ now < Horizon
  /\ \A p \in Passes : pass[p].pc = "timer" => now < pass[p].due
  /\ now' = now + 1
  /\ UNCHANGED <<bounds, ticker, pass, row, queue, runs, ghosts>>

Work(p) ==
  \/ Fire(p) \/ Fetch(p) \/ FetchFails(p)
  \/ PostAnswered(p) \/ PostFails(p) \/ PostRejected(p) \/ PostRefused(p)
  \/ Send(p) \/ SendFails(p) \/ Mark(p) \/ MarkFails(p)

Next ==
  \/ \E r \in Pods : StartTicker(r) \/ StopTicker(r) \/ Crash(r)
  \/ \E p \in Passes : Work(p)
  \/ \E o \in Due : Deliver(o) \/ DeliverBare(o)
  \/ TimePasses

Spec == Init /\ [][Next]_vars

-----------------------------------------------------------------------------
(* Types; a pass has occurrences in hand only while it enqueues them, and the *)
(* id of a row only for the one it created or found it for.                  *)
TypeOK ==
  /\ now \in 0 .. Horizon
  /\ on \in [Pods -> BOOLEAN] /\ timer \in [Pods -> Chains \cup {0}]
  /\ lastTick \in [Pods -> {Never} \cup 0 .. now]
  /\ \A p \in Passes :
       /\ pass[p].pc \in {"none", "timer", "fetch", "create", "send", "mark"}
       /\ pass[p].todo \subseteq Due /\ pass[p].tries \in 0 .. MaxAttempts /\ pass[p].id \in BOOLEAN
       /\ (pass[p].todo # {}) = (pass[p].pc \in {"create", "send", "mark"})
       /\ pass[p].id => pass[p].pc \in {"send", "mark"}
  /\ row \in [Due -> {"none", "phantom", "CS-0001", "taken"}]
  /\ tracked \in [Due -> Nat] /\ bare \in [Due -> Nat] /\ runs \in [Due -> Nat]
  /\ missed \cup forgone \cup cut \cup untraced \subseteq Due

(* "No duplicate dispatch across failover and rolling restart"               *)
(* (leader-election.ts:22-23), as far as it holds: however many replicas     *)
(* lead and however often an occurrence is looked at, its workflow is        *)
(* started once, unless the phantom call failed and a message without an id  *)
(* went out.                                                                *)
StartedOnce == \A o \in Due : runs[o] > 1 => o \in untraced

(* A pass that will still enqueue or mark o's row. *)
InHand(o) ==
  \E p \in Passes :
    /\ pass[p].todo # {} /\ Occurrence(p) = o
    /\ pass[p].id \/ (pass[p].pc = "create" /\ pass[p].tries > 1)

(* A phantom row has a message on its way or a pass at work on it            *)
(* (lib/phantom.ts:89-96): nobody takes another dispatcher's row, or its   *)
(* own, for enqueued when it is not.  Unless its pass died, could not mark   *)
(* it, lost every answer and enqueued without the id, or was refused after   *)
(* an attempt that had created the row.                                     *)
NoneStranded ==
  \A o \in Due :
    row[o] = "phantom" => tracked[o] > 0 \/ InHand(o) \/ o \in cut \cup untraced

(* What a term's windows span is attended to: once its passes are over,      *)
(* every occurrence in them has a row or a message, but for windows whose    *)
(* schedules could not be read, what a failed send left behind, refusals,    *)
(* and what fell between the first two windows (NothingMissed).             *)
Attended ==
  \A r \in Pods :
    on[r] /\ (\A c \in Chains : pass[<<r, c>>].pc \in {"none", "timer"})
      => \A o \in InWindow(since[r], reach[r]) :
           row[o] # "none" \/ o \in missed \cup forgone \cup untraced

(* A tick's window begins where the last one ended: no occurrence of a term  *)
(* is left between two windows (index.ts:79-83, "no gaps, no double-fires"). *)
NothingMissed == missed = {}
=============================================================================
