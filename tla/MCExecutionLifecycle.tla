----------------------- MODULE MCExecutionLifecycle -------------------------
(***************************************************************************)
(* Small instances of ExecutionLifecycle for TLC: two deliveries of one     *)
(* message.                                                                 *)
(***************************************************************************)
EXTENDS ExecutionLifecycle, TLC

CONSTANTS d1, d2

(* Deliveries are interchangeable; used by the run that checks no liveness. *)
DeliverySymmetry == Permutations(Deliveries)

MCCalm ==
  {[timely |-> TRUE, logFaults |-> FALSE, sqsFaults |-> FALSE,
    deliveries |-> {d1, d2}, broadcasts |-> 1]}

(* And calls to SQS that fail or are reported to. *)
MCTimely ==
  MCCalm \cup
  {[timely |-> TRUE, logFaults |-> FALSE, sqsFaults |-> TRUE,
    deliveries |-> {d1, d2}, broadcasts |-> 0]}

MCUntimely ==
  {[timely |-> FALSE, logFaults |-> TRUE, sqsFaults |-> FALSE,
    deliveries |-> {d1, d2}, broadcasts |-> 0]}

(* And a chain and failing calls to SQS, without redeliveries. *)
MCFair ==
  MCCalm \cup MCUntimely \cup
  {[timely |-> FALSE, logFaults |-> TRUE, sqsFaults |-> TRUE,
    deliveries |-> {d1}, broadcasts |-> 1]}

MCSingle ==
  {[timely |-> TRUE, logFaults |-> FALSE, sqsFaults |-> FALSE,
    deliveries |-> {d1}, broadcasts |-> 1]}
=============================================================================
