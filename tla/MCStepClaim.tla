---------------------------- MODULE MCStepClaim -----------------------------
(***************************************************************************)
(* Small instances of StepClaim for TLC: three replays where nothing goes   *)
(* wrong, two where everything may.                                         *)
(***************************************************************************)
EXTENDS StepClaim

CONSTANTS r1, r2, r3

MCEnvironments ==
  {[faults |-> {}, replays |-> {r1, r2, r3}],
   [faults |-> {"crash", "db", "late", "final"}, replays |-> {r1, r2}]}

MCFinalizing == {[faults |-> {"final"}, replays |-> {r1, r2}]}
=============================================================================
