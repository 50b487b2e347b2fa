--------------------------- MODULE ExclusiveLease ---------------------------
(***************************************************************************)
(* What the wallet lock promises its callers: at any time at most one       *)
(* session may allocate nonces for a (wallet, chain), and the right passes  *)
(* from one session to the next only through a moment when nobody has it.   *)
(* WalletLock implements this specification; NonceLedger is built on it.    *)
(***************************************************************************)
CONSTANTS Sessions,   \* the sessions that ever ask for the wallet
          None        \* nobody

ASSUME LeaseAssumption == None \notin Sessions

VARIABLE holder       \* the session entitled to allocate nonces, or None

LeaseTypeOK == holder \in Sessions \cup {None}

LeaseInit == holder = None

(* A session is granted the wallet only when nobody holds it. *)
Grant(s) == holder = None /\ holder' = s

(* The holder ends, fails, crashes or learns it lost the lock. *)
Drop == holder # None /\ holder' = None

LeaseNext == Drop \/ \E s \in Sessions : Grant(s)

LeaseSpec == LeaseInit /\ [][LeaseNext]_holder
=============================================================================
