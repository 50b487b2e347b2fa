--------------------------- MODULE MCNonceLedger ----------------------------
(***************************************************************************)
(* An instance of NonceLedger for TLC: three interchangeable sessions, on   *)
(* one node that forgets nothing while leases get lost, and on two nodes    *)
(* that disagree and forget.                                                *)
(***************************************************************************)
EXTENDS NonceLedger, TLC

CONSTANTS n1, n2

SessionSymmetry == Permutations(Sessions)

MCEnvironments ==
  {[nodes |-> {n1},     evicts |-> FALSE, loses |-> TRUE],
   [nodes |-> {n1, n2}, evicts |-> TRUE,  loses |-> FALSE]}
=============================================================================
