---------------------------- MODULE NonceLedger -----------------------------
(***************************************************************************)
(* Nonce allocation for one wallet on one chain (lib/web3/nonce-manager.ts, *)
(* transaction-manager.ts, chain-adapter/evm.ts): a session that holds the  *)
(* lease reads the chain's pending count, reconciles the rows of            *)
(* pending_transactions, takes the next nonce, broadcasts, records and      *)
(* confirms.  Every caller of withNonceSession sends one transaction per    *)
(* session, so a transaction is named by the session that signed it.        *)
(*                                                                          *)
(* The lock is its abstract specification ExclusiveLease, which WalletLock  *)
(* implements while heartbeats land; MayLose adds the cases where it does   *)
(* not hold (lapsed TTL, operator unlock) and a session goes on without it. *)
(*                                                                          *)
(* The chain is external: nodes agree on what is mined, and each has a      *)
(* mempool of its own that learns of a transaction by broadcast or gossip.  *)
(***************************************************************************)
EXTENDS Integers, FiniteSets, ExclusiveLease

CONSTANTS Nodes,        \* RPC endpoints
          MaxNonce,     \* bound: nonces 0 .. MaxNonce - 1 exist
          Environments  \* what to choose from: [nodes, evicts, loses], the nodes
                        \* in use, whether mempools may forget a transaction, and
                        \* whether a session may lose the lease while open

ASSUME LedgerAssumption ==
  /\ MaxNonce \in Nat /\ IsFiniteSet(Nodes)
  /\ Environments \subseteq [nodes : SUBSET Nodes, evicts : BOOLEAN, loses : BOOLEAN]

VARIABLES
  env,      \* this behaviour's choice from Environments
  st,       \* where each session is
  lost,     \* no; unseen: the lease is gone; seen: NonceSession.lost is set
  node,     \* nonceEndpoint: the node that answered the nonce read
  count,    \* chainNonce as read
  todo,     \* pending rows still to reconcile, as read: <<nonce, tx>>
  hand,     \* the nonce handed out
  status,   \* pending_transactions.status by nonce; "none" without a row
  txOf,     \* pending_transactions.tx_hash by nonce
  mined,    \* the transaction mined at each nonce
  pool      \* pool[e][n]: the transaction at nonce n in e's mempool

session == <<st, lost, node, count, todo, hand>>
rows    == <<status, txOf>>
chain   == <<mined, pool>>
vars    == <<env, holder, session, rows, chain>>

Nonces == 0 .. MaxNonce - 1
States == {"idle", "reading", "reconciling", "holding", "sent", "waiting",
           "closing", "done", "dead"}

LargestOf(S) == CHOOSE n \in S : \A m \in S : m <= n
Smallest(S) == CHOOSE n \in S : \A m \in S : n <= m

(* getTransactionCount(wallet, "pending") at node e: mined transactions and *)
(* the unbroken run of mempool transactions after them.                     *)
PendingCount(e) ==
  Smallest({n \in 0 .. MaxNonce : n \in Nonces => mined[n] = None /\ pool[e][n] = None})

PendingRows == {n \in Nonces : status[n] = "pending"}

(* getTransaction(hash) at node e *)
Known(e, n, tx) == mined[n] = tx \/ pool[e][n] = tx

Init ==
  /\ env \in Environments
  /\ LeaseInit
  /\ st    = [s \in Sessions |-> "idle"]
  /\ lost  = [s \in Sessions |-> "no"]
  /\ node  = [s \in Sessions |-> None]
  /\ count = [s \in Sessions |-> 0]
  /\ todo  = [s \in Sessions |-> {}]
  /\ hand  = [s \in Sessions |-> MaxNonce]
  /\ status = [n \in Nonces |-> "none"]
  /\ txOf   = [n \in Nonces |-> None]
  /\ mined  = [n \in Nonces |-> None]
  /\ pool   = [e \in Nodes |-> [n \in Nonces |-> None]]

Go(s, next) == st' = [st EXCEPT ![s] = next]
SetRow(n, to) == status' = [status EXCEPT ![n] = to] /\ UNCHANGED txOf

-----------------------------------------------------------------------------
(* Fault: the session starts without waiting for the lock. *)
OpenUnlocked(s) ==
  /\ st[s] = "idle" /\ holder' = s /\ Go(s, "reading")
  /\ UNCHANGED <<env, lost, node, count, todo, hand, rows, chain>>

(* startSession: the lock is acquired. *)
Open(s) ==
  /\ st[s] = "idle" /\ Grant(s) /\ Go(s, "reading")
  /\ UNCHANGED <<env, lost, node, count, todo, hand, rows, chain>>

(* The nonce read, answered by the node failover settles on, and the SELECT *)
(* of the pending rows.                                                     *)
ReadNonce(s) ==
  /\ st[s] = "reading" /\ Go(s, "reconciling")
  /\ \E e \in env.nodes :
       node' = [node EXCEPT ![s] = e] /\ count' = [count EXCEPT ![s] = PendingCount(e)]
  /\ todo' = [todo EXCEPT ![s] = {<<n, txOf[n]>> : n \in PendingRows}]
  /\ UNCHANGED <<env, holder, lost, hand, rows, chain>>

(* Fault: a row below the chain nonce is taken for confirmed. *)
ReconcileRowUnread(s) ==
  /\ st[s] = "reconciling" /\ todo[s] # {}
  /\ \E row \in todo[s] :
       /\ row[1] = Smallest({r[1] : r \in todo[s]})
       /\ todo' = [todo EXCEPT ![s] = @ \ {row}]
       /\ IF row[1] < count[s] THEN SetRow(row[1], "confirmed") ELSE UNCHANGED rows
  /\ UNCHANGED <<env, holder, st, lost, node, count, hand, chain>>

(* validateAndReconcile, one row in nonce order; node f answers.  Below the *)
(* chain nonce the receipt decides; from it on, the mempool of the node     *)
(* that gave the nonce.  Updates are by nonce, whatever the row holds now.  *)
ReconcileRow(s) ==
  /\ st[s] = "reconciling" /\ todo[s] # {}
  /\ \E row \in todo[s], f \in env.nodes :
       LET n == row[1]  tx == row[2] IN
       /\ n = Smallest({r[1] : r \in todo[s]})
       /\ todo' = [todo EXCEPT ![s] = @ \ {row}]
       /\ \/ n < count[s] /\ mined[n] = tx /\ SetRow(n, "confirmed")
          \/ n < count[s] /\ mined[n] # tx /\ SetRow(n, "replaced")
          \/ n >= count[s] /\ ~Known(f, n, tx) /\ f = node[s] /\ SetRow(n, "dropped")
          \/ n >= count[s] /\ (Known(f, n, tx) \/ f # node[s]) /\ UNCHANGED rows
  /\ UNCHANGED <<env, holder, st, lost, node, count, hand, chain>>

(* Faults: pending rows are not looked at; the counter is incremented first. *)
NextNonceFromChain(s) ==
  /\ st[s] = "reconciling" /\ todo[s] = {} /\ lost[s] # "seen"
  /\ count[s] \in Nonces
  /\ hand' = [hand EXCEPT ![s] = count[s]]
  /\ Go(s, "holding")
  /\ UNCHANGED <<env, holder, lost, node, count, todo, rows, chain>>

NextNoncePreIncrement(s) ==
  /\ st[s] = "reconciling" /\ todo[s] = {} /\ lost[s] # "seen"
  /\ LET past == {n + 1 : n \in PendingRows} \cup {count[s]} IN
       /\ LargestOf(past) + 1 \in Nonces
       /\ hand' = [hand EXCEPT ![s] = LargestOf(past) + 1]
  /\ Go(s, "holding")
  /\ UNCHANGED <<env, holder, lost, node, count, todo, rows, chain>>

(* safeNonce and getNextNonce: past the chain nonce and every pending row,  *)
(* unless the session has seen that its lock is lost.                       *)
NextNonce(s) ==
  /\ st[s] = "reconciling" /\ todo[s] = {} /\ lost[s] # "seen"
  /\ LET past == {n + 1 : n \in PendingRows} \cup {count[s]} IN
       /\ LargestOf(past) \in Nonces
       /\ hand' = [hand EXCEPT ![s] = LargestOf(past)]
  /\ Go(s, "holding")
  /\ UNCHANGED <<env, holder, lost, node, count, todo, rows, chain>>

(* submitSignedTransactionWithFailover: node e accepts the transaction,     *)
(* possibly in place of a cheaper one at the same nonce.  When the answer   *)
(* is lost and the reconcile read cannot see it, OnChainPendingError leaves *)
(* the broadcast unrecorded.                                                *)
Broadcast(s) ==
  /\ st[s] = "holding" /\ mined[hand[s]] = None
  /\ \E e \in env.nodes : pool' = [pool EXCEPT ![e][hand[s]] = s]
  /\ Go(s, "sent") \/ Go(s, "closing")
  /\ UNCHANGED <<env, holder, lost, node, count, todo, hand, rows, mined>>

(* Fault: the upsert leaves the transaction hash out. *)
RecordWithoutHash(s) ==
  /\ st[s] = "sent" /\ Go(s, "waiting")
  /\ SetRow(hand[s], "pending")
  /\ UNCHANGED <<env, holder, lost, node, count, todo, hand, chain>>

(* recordTransaction: upsert by nonce. *)
Record(s) ==
  /\ st[s] = "sent" /\ Go(s, "waiting")
  /\ status' = [status EXCEPT ![hand[s]] = "pending"]
  /\ txOf'   = [txOf EXCEPT ![hand[s]] = s]
  /\ UNCHANGED <<env, holder, lost, node, count, todo, hand, chain>>

(* The receipt is in and not reverted: confirmTransaction, by hash. *)
Confirm(s) ==
  /\ st[s] = "waiting" /\ mined[hand[s]] = s /\ Go(s, "closing")
  /\ status' = [n \in Nonces |-> IF txOf[n] = s THEN "confirmed" ELSE status[n]]
  /\ UNCHANGED <<env, holder, lost, node, count, todo, hand, txOf, chain>>

(* Any other step fails: RPC or database error, saturated gas estimate,     *)
(* nonce conflict, revert, receipt timeout, or a refused nonce.             *)
Fail(s) ==
  /\ st[s] \in {"reading", "reconciling", "holding", "sent", "waiting"}
  /\ Go(s, "closing")
  /\ UNCHANGED <<env, holder, lost, node, count, todo, hand, rows, chain>>

LetGo(s) == IF holder = s THEN Drop ELSE UNCHANGED holder

(* endSession; a dead process's lock lapses. *)
Close(s) ==
  /\ st[s] = "closing" /\ Go(s, "done") /\ LetGo(s)
  /\ UNCHANGED <<env, lost, node, count, todo, hand, rows, chain>>

Crash(s) ==
  /\ st[s] \notin {"idle", "done", "dead"} /\ Go(s, "dead") /\ LetGo(s)
  /\ UNCHANGED <<env, lost, node, count, todo, hand, rows, chain>>

(* The lease is gone while the session is open; a heartbeat tells it later. *)
Lose(s) ==
  /\ env.loses /\ holder = s /\ Drop
  /\ lost' = [lost EXCEPT ![s] = "unseen"]
  /\ UNCHANGED <<env, st, node, count, todo, hand, rows, chain>>

(* The heartbeat finds no row to extend, or its deadline is past. *)
Notice(s) ==
  /\ lost[s] = "unseen" /\ st[s] \notin {"done", "dead"}
  /\ lost' = [lost EXCEPT ![s] = "seen"]
  /\ UNCHANGED <<env, holder, st, node, count, todo, hand, rows, chain>>

-----------------------------------------------------------------------------
(* The next transaction of some mempool is mined and leaves every mempool. *)
Mine ==
  /\ \E n \in Nonces, e \in env.nodes :
       /\ mined[n] = None /\ \A m \in 0 .. n - 1 : mined[m] # None
       /\ pool[e][n] # None
       /\ mined' = [mined EXCEPT ![n] = pool[e][n]]
       /\ pool' = [f \in Nodes |-> [pool[f] EXCEPT ![n] = None]]
  /\ UNCHANGED <<env, holder, session, rows>>

Gossip ==
  /\ \E n \in Nonces, e, f \in env.nodes :
       /\ pool[e][n] # None /\ pool[f][n] = None
       /\ pool' = [pool EXCEPT ![f][n] = pool[e][n]]
  /\ UNCHANGED <<env, holder, session, rows, mined>>

Evict ==
  /\ env.evicts
  /\ \E n \in Nonces, e \in env.nodes :
       pool[e][n] # None /\ pool' = [pool EXCEPT ![e][n] = None]
  /\ UNCHANGED <<env, holder, session, rows, mined>>

Next ==
  \/ \E s \in Sessions :
       \/ Open(s) \/ ReadNonce(s) \/ ReconcileRow(s) \/ NextNonce(s)
       \/ Broadcast(s) \/ Record(s) \/ Confirm(s) \/ Fail(s)
       \/ Close(s) \/ Crash(s) \/ Lose(s) \/ Notice(s)
  \/ Mine \/ Gossip \/ Evict

Spec == Init /\ [][Next]_vars

-----------------------------------------------------------------------------
(* Types of the sessions, the rows and the chain; a row has a hash. *)
TypeOK ==
  /\ env \in Environments
  /\ LeaseTypeOK
  /\ st \in [Sessions -> States] /\ lost \in [Sessions -> {"no", "unseen", "seen"}]
  /\ node \in [Sessions -> Nodes \cup {None}]
  /\ count \in [Sessions -> 0 .. MaxNonce] /\ hand \in [Sessions -> 0 .. MaxNonce]
  /\ todo \in [Sessions -> SUBSET (Nonces \X (Sessions \cup {None}))]
  /\ status \in [Nonces -> {"none", "pending", "confirmed", "replaced", "dropped"}]
  /\ txOf \in [Nonces -> Sessions \cup {None}]
  /\ \A n \in Nonces : status[n] = "none" <=> txOf[n] = None
  /\ mined \in [Nonces -> Sessions \cup {None}]
  /\ pool \in [Nodes -> [Nonces -> Sessions \cup {None}]]

(* Every transaction alive at nonce n. *)
AliveAt(n) == ({mined[n]} \cup {pool[e][n] : e \in Nodes}) \ {None}

(* One node's view is everybody's, and mempools forget nothing. *)
Steady == Cardinality(env.nodes) = 1 /\ ~env.evicts

(* Nothing this wallet broadcast is displaced in a mempool by another write *)
(* of its own, even when a session crashed between broadcast and row; only  *)
(* a session that went on without the lease can do or suffer that.          *)
NothingDisplaced ==
  [][Steady => \A e \in Nodes, n \in Nonces :
       pool[e][n] # None /\ pool'[e][n] \notin {None, pool[e][n]}
         => lost[pool[e][n]] # "no" \/ lost[pool'[e][n]] # "no"]_vars

(* A nonce in hand is not one a pending row still claims, on any node:      *)
(* safeNonce steps past every row reconciliation left pending.  Only a      *)
(* session that lost its lease can break that, for itself or with its row.  *)
RowsProtectNonces ==
  \A s \in Sessions : st[s] = "holding" /\ lost[s] = "no" =>
    \A n \in PendingRows : n = hand[s] => lost[txOf[n]] # "no"

(* While no session has lost its lease, a row says confirmed only of the    *)
(* transaction mined at its nonce: reconciliation updates by nonce, a row   *)
(* it read some calls ago.                                                  *)
ConfirmedIsMined ==
  (\A s \in Sessions : lost[s] = "no") => \A n \in Nonces : status[n] = "confirmed" => mined[n] = txOf[n]

(* The nonce handed out leaves no hole below it for the chain to wait on.   *)
NoHoleBelow ==
  Steady => \A s \in Sessions : st[s] = "holding" => \A n \in 0 .. hand[s] - 1 : AliveAt(n) # {}
=============================================================================
