--------------------------- MODULE MCDispatchers ---------------------------
(***************************************************************************)
(* Two replicas of the schedule dispatcher.  Its two halves share no        *)
(* variable and ScheduleDispatch assumes nothing of who leads, so that a    *)
(* behaviour is one of the election or one of the dispatch: interleaving    *)
(* the two would add no case to either.                                     *)
(***************************************************************************)
EXTENDS LeaderElection, ScheduleDispatch, TLC

CONSTANTS r1, r2

VARIABLE half

(* Calls that take no time or a tick, clocks that agree or differ by one. *)
MCConditions ==
  {[slow |-> c, ahead |-> (r1 :> a @@ r2 :> 0), fails |-> f] :
     c \in {0, 1}, a \in {0, 1}, f \in BOOLEAN}

EitherInit ==
  /\ ElectionInit /\ Init
  /\ half \in {"election", "dispatch"}
  /\ half = "dispatch" => cond = [slow |-> 0, ahead |-> (r1 :> 0 @@ r2 :> 0), fails |-> FALSE]

EitherNext ==
  \/ half = "election" /\ ElectionNext /\ UNCHANGED <<half, vars>>
  \/ half = "dispatch" /\ Next /\ UNCHANGED <<half, electionVars>>

EitherSpec == EitherInit /\ [][EitherNext]_<<half, electionVars, vars>>
=============================================================================
