---------------------------- MODULE MCWalletLock ----------------------------
(***************************************************************************)
(* Instances of WalletLock for TLC: two or three sessions of two executions *)
(* on one wallet and chain.  s1 and s2 belong to the same execution.        *)
(***************************************************************************)
EXTENDS WalletLock, TLC

CONSTANTS s1, s2, s3, e1, e2

MCExec == (s1 :> e1) @@ (s2 :> e1) @@ (s3 :> e2)

(* Beats that land within the TTL, and beats that may miss it. *)
MCEnvironments ==
  {[sessions |-> {s1, s2, s3}, quiet |-> TTL - 1], [sessions |-> {s1, s3}, quiet |-> TTL + 2]}
=============================================================================
