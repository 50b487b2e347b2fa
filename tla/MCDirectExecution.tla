------------------------- MODULE MCDirectExecution --------------------------
(***************************************************************************)
(* Small instances of DirectExecution for TLC, with handlers that die or    *)
(* throw and beats that fail: two requests of one key that never lapses     *)
(* under a live one, up to the end of a replay window; the same where keys  *)
(* may lapse; and a request without a key beside a workflow step, up to the *)
(* midnight after, any two of which move more than the cap; and a request   *)
(* and a step that move no value.                                           *)
(***************************************************************************)
EXTENDS DirectExecution, TLC

CONSTANTS a, b, c, z, s, t, k

MCKeyOf == [r \in {a, b, c, z} |-> IF r \in {a, b} THEN k ELSE NoKey]

MCValue == [m \in {a, b, c, z, s, t} |-> IF m \in {z, t} THEN 0 ELSE 2]

MCEnvironments ==
  {[timely |-> TRUE,  faults |-> TRUE, movers |-> {a, b}, until |-> 4],
   [timely |-> FALSE, faults |-> TRUE, movers |-> {a, b}, until |-> 2],
   [timely |-> FALSE, faults |-> TRUE, movers |-> {c, s}, until |-> 3],
   [timely |-> FALSE, faults |-> TRUE, movers |-> {z, t}, until |-> 1]}

MCSymmetry == Permutations({a, b})

=============================================================================
