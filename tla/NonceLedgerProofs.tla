------------------------- MODULE NonceLedgerProofs --------------------------
(***************************************************************************)
(* Theorems about NonceLedger, for every number of sessions, nodes and      *)
(* nonces, whether mempools forget and whether sessions lose the lease.     *)
(***************************************************************************)
EXTENDS NonceLedger, FiniteSetTheorems, WellFoundedInduction, TLAPS

LEMMA HasLeast ==
  ASSUME NEW S, S \subseteq Nat, S # {}
  PROVE  \E n \in S : \A m \in S : n <= m
<1>1. \E n \in S : \A m \in S : ~(<<m, n>> \in OpToRel(<, Nat))
  BY NatLessThanWellFounded, WFMin
<1>2. PICK n \in S : \A m \in S : ~(<<m, n>> \in OpToRel(<, Nat))
  BY <1>1
<1>3. \A m \in S : ~(m < n)
  BY <1>2 DEF OpToRel
<1> QED BY <1>3

LEMMA HasLargest ==
  ASSUME NEW S, NEW b \in Nat, S \subseteq 0 .. b, S # {}
  PROVE  \E n \in S : \A m \in S : m <= n
<1> DEFINE T == {b - m : m \in S}
<1>1. T \subseteq Nat /\ T # {}
  <2>1. \A m \in S : m \in Int /\ m <= b
    OBVIOUS
  <2>2. ASSUME NEW k \in T PROVE k \in Nat
    <3>1. PICK m \in S : k = b - m
      OBVIOUS
    <3> QED BY <2>1, <3>1
  <2>3. T # {}
    <3>1. PICK m \in S : TRUE
      OBVIOUS
    <3>2. b - m \in T
      OBVIOUS
    <3> QED BY <3>2
  <2> QED BY <2>2, <2>3
<1>2. PICK k \in T : \A j \in T : k <= j
  BY <1>1, HasLeast
<1>3. PICK n \in S : k = b - n
  BY <1>2
<1>4. \A m \in S : b - n <= b - m
  BY <1>2, <1>3
<1> QED BY <1>4

(* What a node answers: the first nonce nobody has used, as far as it knows. *)
LEMMA PendingCountIs ==
  ASSUME TypeOK, NEW e \in Nodes
  PROVE  LET c == PendingCount(e) IN
         /\ c \in 0 .. MaxNonce
         /\ c \in Nonces => mined[c] = None /\ pool[e][c] = None
         /\ \A m \in 0 .. c - 1 : mined[m] # None \/ pool[e][m] # None
<1> DEFINE S == {n \in 0 .. MaxNonce : n \in Nonces => mined[n] = None /\ pool[e][n] = None}
<1>1. MaxNonce \in S /\ S \subseteq Nat
  BY LedgerAssumption DEF Nonces
<1>2. \E n \in S : \A m \in S : n <= m
  BY <1>1, HasLeast
<1>3. PendingCount(e) \in S /\ \A m \in S : PendingCount(e) <= m
  BY <1>2 DEF PendingCount, Smallest
<1>4. ASSUME NEW m \in 0 .. PendingCount(e) - 1 PROVE mined[m] # None \/ pool[e][m] # None
  <2>1. m \in Nonces /\ m \in 0 .. MaxNonce /\ ~(PendingCount(e) <= m)
    BY <1>3, LedgerAssumption DEF Nonces
  <2>2. m \notin S
    BY <1>3, <2>1
  <2> QED BY <2>1, <2>2
<1> QED BY <1>3, <1>4

(* safeNonce is past the chain nonce and past every pending row.            *)
LEMMA LargestIs ==
  ASSUME TypeOK, NEW c \in 0 .. MaxNonce
  PROVE  LET past == {n + 1 : n \in PendingRows} \cup {c} IN
         /\ LargestOf(past) \in past
         /\ c <= LargestOf(past)
         /\ \A n \in PendingRows : n < LargestOf(past)
<1> DEFINE past == {n + 1 : n \in PendingRows} \cup {c}
<1>1. past \subseteq 0 .. MaxNonce /\ past # {}
  BY LedgerAssumption DEF PendingRows, Nonces
<1>2. \E n \in past : \A m \in past : m <= n
  BY <1>1, LedgerAssumption, HasLargest
<1>3. LargestOf(past) \in past /\ \A m \in past : m <= LargestOf(past)
  BY <1>2 DEF LargestOf
<1>4. ASSUME NEW n \in PendingRows PROVE n < LargestOf(past)
  <2>1. n + 1 <= LargestOf(past) /\ n \in Nat
    BY <1>3, LedgerAssumption DEF PendingRows, Nonces
  <2>2. LargestOf(past) \in Nat
    BY <1>1, <1>3
  <2> QED BY <2>1, <2>2
<1> QED BY <1>3, <1>4

(* A nonce in use is one that exists, and so is a row to be reconciled.     *)
InUse ==
  /\ \A s \in Sessions : st[s] \in {"holding", "sent", "waiting"} => hand[s] \in Nonces
  /\ \A s \in Sessions : \A r \in todo[s] : txOf[r[1]] # None

LEMMA InitTyped == Init => TypeOK /\ InUse
<1> SUFFICES ASSUME Init PROVE TypeOK /\ InUse
  OBVIOUS
<1>1. 0 \in 0 .. MaxNonce /\ MaxNonce \in 0 .. MaxNonce
  BY LedgerAssumption
<1> QED BY <1>1, LedgerAssumption DEF Init, TypeOK, LeaseInit, LeaseTypeOK, States, InUse

LEMMA StepTyped == TypeOK /\ InUse /\ [Next]_vars => TypeOK' /\ InUse'
<1> SUFFICES ASSUME TypeOK, InUse, [Next]_vars PROVE TypeOK' /\ InUse'
  OBVIOUS
<1> USE LedgerAssumption, LeaseAssumption
    DEF TypeOK, InUse, LeaseTypeOK, States, session, rows, chain
<1>e. env.nodes \subseteq Nodes
  OBVIOUS
<1>1. ASSUME NEW s \in Sessions, Open(s) PROVE TypeOK' /\ InUse'
  BY <1>1 DEF Open, Grant, Go
<1>2. ASSUME NEW s \in Sessions, ReadNonce(s) PROVE TypeOK' /\ InUse'
  <2>1. count' \in [Sessions -> 0 .. MaxNonce] /\ node' \in [Sessions -> Nodes \cup {None}]
    BY <1>2, <1>e, PendingCountIs DEF ReadNonce
  <2>2. {<<n, txOf[n]>> : n \in PendingRows} \subseteq Nonces \X (Sessions \cup {None})
    BY DEF PendingRows
  <2>3. todo' \in [Sessions -> SUBSET (Nonces \X (Sessions \cup {None}))]
    BY <1>2, <2>2 DEF ReadNonce
  <2>5. \A r \in todo'[s] : txOf[r[1]] # None
    BY <1>2 DEF ReadNonce, PendingRows
  <2>6. \A q \in Sessions \ {s} : todo'[q] = todo[q]
    BY <1>2 DEF ReadNonce
  <2>4. st' = [st EXCEPT ![s] = "reconciling"] /\ UNCHANGED <<env, holder, lost, hand, rows, chain>>
    BY <1>2 DEF ReadNonce, Go
  <2> QED BY <2>1, <2>3, <2>4, <2>5, <2>6
<1>3. ASSUME NEW s \in Sessions, ReconcileRow(s) PROVE TypeOK' /\ InUse'
  <2>1. PICK r \in todo[s] :
          /\ todo' = [todo EXCEPT ![s] = @ \ {r}]
          /\ UNCHANGED rows \/ \E v \in {"confirmed", "replaced", "dropped"} : SetRow(r[1], v)
    BY <1>3, Zenon DEF ReconcileRow
  <2>2. r[1] \in Nonces /\ txOf[r[1]] # None
    BY <1>3
  <2>3. todo' \in [Sessions -> SUBSET (Nonces \X (Sessions \cup {None}))]
    BY <2>1
  <2>4. /\ txOf' = txOf
        /\ status' \in [Nonces -> {"none", "pending", "confirmed", "replaced", "dropped"}]
        /\ \A n \in Nonces : status'[n] = "none" <=> txOf'[n] = None
    BY <2>1, <2>2 DEF SetRow
  <2>5. \A q \in Sessions : todo'[q] \subseteq todo[q]
    BY <2>1
  <2> QED BY <1>3, <2>3, <2>4, <2>5 DEF ReconcileRow
<1>4. ASSUME NEW s \in Sessions, NextNonce(s) PROVE TypeOK' /\ InUse'
  <2>1. \E h \in Nonces : hand' = [hand EXCEPT ![s] = h]
    BY <1>4 DEF NextNonce
  <2>2. Nonces \subseteq 0 .. MaxNonce
    BY DEF Nonces
  <2> QED BY <1>4, <2>1, <2>2 DEF NextNonce, Go
<1>5. ASSUME NEW s \in Sessions, Broadcast(s) PROVE TypeOK' /\ InUse'
  <2>1. PICK e \in Nodes : pool' = [pool EXCEPT ![e][hand[s]] = s]
    BY <1>5, <1>e DEF Broadcast
  <2>2. pool' \in [Nodes -> [Nonces -> Sessions \cup {None}]]
    BY <2>1
  <2>3. st' \in [Sessions -> States] /\ \A q \in Sessions \ {s} : st'[q] = st[q]
    BY <1>5 DEF Broadcast, Go
  <2> QED BY <1>5, <2>2, <2>3 DEF Broadcast, Go
<1>6. ASSUME NEW s \in Sessions, Record(s) PROVE TypeOK' /\ InUse'
  BY <1>6 DEF Record, Go
<1>7. ASSUME NEW s \in Sessions, Confirm(s) PROVE TypeOK' /\ InUse'
  BY <1>7 DEF Confirm, Go
<1>8. ASSUME NEW s \in Sessions, Fail(s) PROVE TypeOK' /\ InUse'
  BY <1>8 DEF Fail, Go
<1>9. ASSUME NEW s \in Sessions, Close(s) PROVE TypeOK' /\ InUse'
  BY <1>9 DEF Close, Go, LetGo, Drop
<1>10. ASSUME NEW s \in Sessions, Crash(s) PROVE TypeOK' /\ InUse'
  BY <1>10 DEF Crash, Go, LetGo, Drop
<1>11. ASSUME NEW s \in Sessions, Lose(s) PROVE TypeOK' /\ InUse'
  BY <1>11 DEF Lose, Drop
<1>12. ASSUME NEW s \in Sessions, Notice(s) PROVE TypeOK' /\ InUse'
  BY <1>12 DEF Notice
<1>13. CASE Mine
  BY <1>13, <1>e DEF Mine
<1>14. CASE Gossip
  BY <1>14, <1>e DEF Gossip
<1>15. CASE Evict
  BY <1>15, <1>e DEF Evict
<1>16. CASE UNCHANGED vars
  BY <1>16 DEF vars, PendingRows
<1> QED BY <1>1, <1>2, <1>3, <1>4, <1>5, <1>6, <1>7, <1>8, <1>9, <1>10, <1>11, <1>12,
           <1>13, <1>14, <1>15, <1>16 DEF Next

(* Every variable keeps its type, a session that was handed a nonce has     *)
(* one, and a row up for reconciliation has a hash.                         *)
THEOREM LedgerTypes == Spec => [](TypeOK /\ InUse)
BY InitTyped, StepTyped, PTL DEF Spec

-----------------------------------------------------------------------------
Active(s) == st[s] \notin {"idle", "done", "dead"}
NoLoss == \A s \in Sessions : lost[s] = "no"

(* A session that goes on and has not lost the lease holds it.              *)
StillHolds == \A s \in Sessions : Active(s) /\ lost[s] = "no" => holder = s

(* A row that names a session's transaction is the one it recorded.         *)
RowIsRecorded ==
  \A n \in Nonces, s \in Sessions :
    txOf[n] = s => hand[s] = n /\ st[s] \in {"waiting", "closing", "done", "dead"}

(* What a session has read of the rows is still so while it reconciles.     *)
ReadIsCurrent ==
  \A s \in Sessions : st[s] = "reconciling" =>
    \A r \in todo[s] : r[2] = txOf[r[1]]

(* Somebody has used the nonce.                                             *)
Alive(n) == mined[n] # None \/ \E e \in Nodes : pool[e][n] # None

FollowsOn(s) ==
  /\ st[s] = "sent" => Alive(hand[s])
  /\ st[s] = "reconciling" => \A m \in 0 .. count[s] - 1 : Alive(m)
  /\ st[s] = "holding"     => \A m \in 0 .. hand[s] - 1 : Alive(m)

(* Nonces are used in order, every recorded or handed out one follows on    *)
(* those used, and so does what a node answered.                            *)
InOrder ==
  /\ \A e \in Nodes \ env.nodes, n \in Nonces : pool[e][n] = None
  /\ \A n \in Nonces : Alive(n) => \A m \in 0 .. n - 1 : Alive(m)
  /\ \A n \in PendingRows : Alive(n)
  /\ \A s \in Sessions : FollowsOn(s)

(* What waits in a mempool, if its session had the lease, is behind what    *)
(* the holder read and what it was handed.                                  *)
Ahead ==
  \A s \in Sessions, e \in Nodes, n \in Nonces :
    /\ lost[s] = "no" /\ pool[e][n] # None /\ lost[pool[e][n]] = "no"
    => /\ st[s] = "reconciling" => n < count[s]
       /\ st[s] = "holding"     => n < hand[s]

RowInv   == StillHolds /\ RowIsRecorded /\ RowsProtectNonces
ReadInv  == NoLoss => ReadIsCurrent /\ ConfirmedIsMined
OrderInv == Steady => InOrder /\ Ahead

LEMMA LostStays ==
  ASSUME TypeOK, [Next]_vars, NEW s \in Sessions, lost[s] # "no"
  PROVE  lost'[s] # "no"
BY ZenonT(60) DEF TypeOK, Next, vars, session, Open, ReadNonce, ReconcileRow, NextNonce, Broadcast,
       Record, Confirm, Fail, Close, Crash, Lose, Notice, Mine, Gossip, Evict

(* Only its own steps move a session, and only RecordTransaction writes a hash. *)
LEMMA StepRows == TypeOK /\ InUse /\ RowInv /\ [Next]_vars => RowInv'
<1> SUFFICES ASSUME TypeOK, InUse, RowInv, [Next]_vars PROVE RowInv'
  OBVIOUS
<1>l. \A s \in Sessions : lost'[s] = "no" => lost[s] = "no"
  BY LostStays
<1> USE LedgerAssumption, LeaseAssumption
    DEF TypeOK, InUse, LeaseTypeOK, States, session, rows, chain, RowInv, StillHolds,
        RowIsRecorded, RowsProtectNonces, Active, PendingRows
<1>1. ASSUME NEW s \in Sessions, Open(s) PROVE RowInv'
  BY <1>1 DEF Open, Grant, Go
<1>2. ASSUME NEW s \in Sessions, ReadNonce(s) PROVE RowInv'
  BY <1>2 DEF ReadNonce, Go
<1>3. ASSUME NEW s \in Sessions, ReconcileRow(s) PROVE RowInv'
  <2>1. \/ UNCHANGED rows
        \/ \E n \in Nonces, v \in {"confirmed", "replaced", "dropped"} : SetRow(n, v)
    BY <1>3 DEF ReconcileRow
  <2>2. txOf' = txOf /\ \A n \in Nonces : status'[n] = "pending" => status[n] = "pending"
    BY <2>1 DEF SetRow
  <2> QED BY <1>3, <2>2 DEF ReconcileRow
<1>4. ASSUME NEW s \in Sessions, NextNonce(s) PROVE RowInv'
  <2>1. hand' = [hand EXCEPT ![s] = hand'[s]] /\ \A n \in PendingRows : n < hand'[s]
    BY <1>4, LargestIs DEF NextNonce
  <2>2. st[s] = "reconciling" /\ st' = [st EXCEPT ![s] = "holding"]
    BY <1>4 DEF NextNonce, Go
  <2>3. UNCHANGED <<env, holder, lost, node, count, todo, rows, chain>>
    BY <1>4 DEF NextNonce
  <2> QED BY <2>1, <2>2, <2>3 DEF Nonces
<1>5. ASSUME NEW s \in Sessions, Broadcast(s) PROVE RowInv'
  <2>1. \E v \in {"sent", "closing"} : st' = [st EXCEPT ![s] = v]
    BY <1>5 DEF Broadcast, Go
  <2> QED BY <1>5, <2>1 DEF Broadcast
<1>6. ASSUME NEW s \in Sessions, Record(s) PROVE RowInv'
  <2>1. StillHolds' /\ RowIsRecorded'
    BY <1>6 DEF Record, Go
  <2>2. ASSUME NEW q \in Sessions, st'[q] = "holding", lost'[q] = "no",
               NEW n \in PendingRows', n = hand'[q]
        PROVE  lost'[txOf'[n]] # "no"
    <3>1. q # s /\ st[q] = "holding" /\ lost' = lost /\ hand' = hand /\ n \in Nonces
      BY <1>6, <2>2 DEF Record, Go
    <3>2. CASE n = hand[s]
      <4>1. txOf'[n] = s /\ Active(s)
        BY <1>6, <3>1, <3>2 DEF Record
      <4> QED BY <4>1, <3>1, <2>2
    <3>3. CASE n # hand[s]
      <4>1. status'[n] = status[n] /\ txOf'[n] = txOf[n]
        BY <1>6, <3>1, <3>3 DEF Record
      <4> QED BY <4>1, <3>1, <2>2
    <3> QED BY <3>2, <3>3
  <2> QED BY <2>1, <2>2
<1>7. ASSUME NEW s \in Sessions, Confirm(s) PROVE RowInv'
  BY <1>7 DEF Confirm, Go
<1>8. ASSUME NEW s \in Sessions, Fail(s) PROVE RowInv'
  BY <1>8 DEF Fail, Go
<1>9. ASSUME NEW s \in Sessions, Close(s) PROVE RowInv'
  BY <1>9 DEF Close, Go, LetGo, Drop
<1>10. ASSUME NEW s \in Sessions, Crash(s) PROVE RowInv'
  BY <1>10 DEF Crash, Go, LetGo, Drop
<1>11. ASSUME NEW s \in Sessions, Lose(s) PROVE RowInv'
  BY <1>11, <1>l DEF Lose, Drop
<1>12. ASSUME NEW s \in Sessions, Notice(s) PROVE RowInv'
  BY <1>12, <1>l DEF Notice
<1>13. CASE Mine \/ Gossip \/ Evict \/ UNCHANGED vars
  BY <1>13 DEF Mine, Gossip, Evict, vars
<1> QED BY <1>1, <1>2, <1>3, <1>4, <1>5, <1>6, <1>7, <1>8, <1>9, <1>10, <1>11, <1>12,
           <1>13 DEF Next

(* A nonce that is handed out is not one a pending row claims, unless the   *)
(* session, or that row's, went on without the lease.                       *)
THEOREM RowsKeepTheirNonces == Spec => []RowsProtectNonces
<1>1. Init => RowInv
  BY LeaseAssumption DEF Init, RowInv, StillHolds, RowIsRecorded, RowsProtectNonces, Active
<1>2. RowInv => RowsProtectNonces
  BY DEF RowInv
<1> QED BY <1>1, <1>2, LedgerTypes, StepRows, PTL DEF Spec

-----------------------------------------------------------------------------
(* Who has the lease writes the rows alone, so that a row is what it was read *)
(* to be when reconciliation updates it by its nonce.                        *)
LEMMA StepReads == TypeOK /\ InUse /\ RowInv /\ ReadInv /\ [Next]_vars => ReadInv'
<1> SUFFICES ASSUME TypeOK, InUse, RowInv, ReadInv, [Next]_vars, NoLoss'
             PROVE  ReadIsCurrent' /\ ConfirmedIsMined'
  BY DEF ReadInv
<1>l. NoLoss
  BY LostStays DEF NoLoss
<1>r. ReadIsCurrent /\ \A n \in Nonces : status[n] = "confirmed" => mined[n] = txOf[n]
  BY <1>l DEF ReadInv, ConfirmedIsMined, NoLoss
<1>m. SUFFICES /\ ReadIsCurrent'
               /\ \A n \in Nonces : status'[n] = "confirmed" => mined'[n] = txOf'[n]
  BY DEF ConfirmedIsMined
<1> USE <1>l, <1>r, LedgerAssumption, LeaseAssumption
    DEF TypeOK, InUse, LeaseTypeOK, States, session, rows, chain, RowInv, StillHolds,
        RowIsRecorded, Active, PendingRows, ReadIsCurrent, NoLoss
<1> DEFINE Goal == /\ ReadIsCurrent'
                   /\ \A n \in Nonces : status'[n] = "confirmed" => mined'[n] = txOf'[n]
<1>1. ASSUME NEW s \in Sessions, Open(s) PROVE Goal
  BY <1>1 DEF Open, Grant, Go
<1>2. ASSUME NEW s \in Sessions, ReadNonce(s) PROVE Goal
  BY <1>2 DEF ReadNonce, Go
<1>3. ASSUME NEW s \in Sessions, ReconcileRow(s) PROVE Goal
  <2>1. PICK r \in todo[s] :
          /\ todo' = [todo EXCEPT ![s] = @ \ {r}]
          /\ \/ UNCHANGED rows
             \/ mined[r[1]] = r[2] /\ SetRow(r[1], "confirmed")
             \/ \E v \in {"replaced", "dropped"} : SetRow(r[1], v)
    BY <1>3, Zenon DEF ReconcileRow
  <2>2. /\ st' = st /\ mined' = mined /\ txOf' = txOf /\ r[2] = txOf[r[1]]
        /\ \A q \in Sessions : todo'[q] \subseteq todo[q]
    BY <1>3, <2>1 DEF ReconcileRow, SetRow
  <2>3. \A n \in Nonces : status'[n] = "confirmed" =>
            status[n] = "confirmed" \/ (n = r[1] /\ mined[n] = r[2])
    BY <2>1 DEF SetRow
  <2> QED BY <2>2, <2>3
<1>4. ASSUME NEW s \in Sessions, NextNonce(s) PROVE Goal
  BY <1>4 DEF NextNonce, Go
<1>5. ASSUME NEW s \in Sessions, Broadcast(s) PROVE Goal
  <2>1. \E v \in {"sent", "closing"} : st' = [st EXCEPT ![s] = v]
    BY <1>5 DEF Broadcast, Go
  <2> QED BY <1>5, <2>1 DEF Broadcast
<1>6. ASSUME NEW s \in Sessions, Record(s) PROVE Goal
  <2>1. \A q \in Sessions : st'[q] # "reconciling"
    BY <1>6 DEF Record, Go
  <2> QED BY <1>6, <2>1 DEF Record
<1>7. ASSUME NEW s \in Sessions, Confirm(s) PROVE Goal
  BY <1>7 DEF Confirm, Go
<1>8. ASSUME NEW s \in Sessions, Fail(s) PROVE Goal
  BY <1>8 DEF Fail, Go
<1>9. ASSUME NEW s \in Sessions, Close(s) PROVE Goal
  BY <1>9 DEF Close, Go
<1>10. ASSUME NEW s \in Sessions, Crash(s) PROVE Goal
  BY <1>10 DEF Crash, Go
<1>11. ASSUME NEW s \in Sessions, Lose(s) \/ Notice(s) PROVE Goal
  BY <1>11 DEF Lose, Notice
<1>13. CASE Mine
  <2>1. \A n \in Nonces : mined[n] # None => mined'[n] = mined[n]
    BY <1>13 DEF Mine
  <2> QED BY <1>13, <2>1 DEF Mine
<1>14. CASE Gossip \/ Evict \/ UNCHANGED vars
  BY <1>14 DEF Gossip, Evict, vars
<1> QED BY <1>1, <1>2, <1>3, <1>4, <1>5, <1>6, <1>7, <1>8, <1>9, <1>10, <1>11,
           <1>13, <1>14 DEF Next

(* As long as no session has lost its lease, what a row says is confirmed   *)
(* was mined, although reconciliation and confirmation write at other       *)
(* moments than they read.                                                  *)
THEOREM ConfirmedWasMined == Spec => []ConfirmedIsMined
<1>1. Init => RowInv /\ ReadInv
  BY LeaseAssumption DEF Init, RowInv, StillHolds, RowIsRecorded, RowsProtectNonces, Active,
                         ReadInv, ReadIsCurrent, ConfirmedIsMined
<1>2. ReadInv => ConfirmedIsMined
  BY DEF ReadInv, NoLoss, ConfirmedIsMined
<1> QED BY <1>1, <1>2, LedgerTypes, StepRows, StepReads, PTL DEF Spec

-----------------------------------------------------------------------------
(* Where nothing is forgotten, a nonce once used stays so, and one is first *)
(* used by the broadcast of whom it was handed to.                          *)
LEMMA StepAlive ==
  ASSUME TypeOK, InUse, ~env.evicts, [Next]_vars, NEW n \in Nonces
  PROVE  /\ Alive(n) => Alive(n)'
         /\ Alive(n)' => Alive(n) \/ \E s \in Sessions : Broadcast(s) /\ n = hand[s]
<1>m. Mine => \E k \in Nonces, e \in env.nodes :
          /\ pool[e][k] # None /\ mined' = [mined EXCEPT ![k] = pool[e][k]]
          /\ pool' = [f \in Nodes |-> [pool[f] EXCEPT ![k] = None]]
  BY Zenon DEF Mine
<1> USE LedgerAssumption, LeaseAssumption DEF TypeOK, InUse, session, rows, chain, Alive
<1>e. env.nodes \subseteq Nodes
  OBVIOUS
<1>1. CASE \E s \in Sessions : Broadcast(s)
  <2>1. PICK s \in Sessions, e \in Nodes :
          Broadcast(s) /\ mined' = mined /\ pool' = [pool EXCEPT ![e][hand[s]] = s]
    BY <1>1, <1>e DEF Broadcast
  <2>2. hand[s] \in Nonces /\ s # None
    BY <2>1 DEF Broadcast
  <2>3. CASE n = hand[s]
    <3>1. pool'[e][n] # None
      BY <2>1, <2>2, <2>3
    <3> QED BY <2>1, <2>3, <3>1
  <2>4. CASE n # hand[s]
    <3>1. \A f \in Nodes : pool'[f][n] = pool[f][n]
      BY <2>1, <2>2, <2>4
    <3> QED BY <2>1, <3>1
  <2> QED BY <2>3, <2>4
<1>2. CASE Mine
  <2>0. PICK k \in Nonces, e \in env.nodes :
          /\ pool[e][k] # None /\ mined' = [mined EXCEPT ![k] = pool[e][k]]
          /\ pool' = [f \in Nodes |-> [pool[f] EXCEPT ![k] = None]]
    BY <1>m, <1>2
  <2>1. /\ e \in Nodes
        /\ pool[e][k] # None /\ mined' = [mined EXCEPT ![k] = pool[e][k]]
        /\ pool' = [f \in Nodes |-> [pool[f] EXCEPT ![k] = None]]
    BY <2>0, <1>e
  <2>2. CASE n = k
    <3>1. mined'[n] # None /\ pool[e][n] # None
      BY <2>1, <2>2
    <3> QED BY <3>1
  <2>3. CASE n # k
    <3>1. mined'[n] = mined[n] /\ \A f \in Nodes : pool'[f][n] = pool[f][n]
      BY <2>1, <2>3
    <3> QED BY <3>1
  <2> QED BY <2>2, <2>3
<1>3. CASE Gossip
  <2>1. PICK k \in Nonces, e \in Nodes, f \in Nodes :
          /\ pool[e][k] # None /\ pool' = [pool EXCEPT ![f][k] = pool[e][k]]
          /\ mined' = mined
    BY <1>3, <1>e DEF Gossip
  <2>2. \A g \in Nodes : pool'[g][n] = pool[g][n] \/ (n = k /\ pool'[g][n] = pool[e][k])
    BY <2>1
  <2> QED BY <2>1, <2>2
<1>4. CASE UNCHANGED chain
  BY <1>4
<1>5. Evict => FALSE
  BY DEF Evict
<1> QED BY <1>1, <1>2, <1>3, <1>4, <1>5
        DEF Next, vars, Open, ReadNonce, ReconcileRow, NextNonce, Record, Confirm, Fail,
            Close, Crash, Lose, Notice

LEMMA SteadyNode ==
  ASSUME TypeOK, Steady
  PROVE  \E e \in Nodes : env.nodes = {e}
<1>1. env.nodes \subseteq Nodes /\ IsFiniteSet(env.nodes)
  BY LedgerAssumption, FS_Subset DEF TypeOK
<1>2. PICK e : env.nodes = {e}
  BY <1>1, FS_Singleton DEF Steady
<1> QED BY <1>1, <1>2

(* The steps that put a session where the order of nonces matters.          *)
LEMMA StepSession ==
  ASSUME TypeOK, [Next]_vars, NEW s \in Sessions
  PROVE  \/ ReadNonce(s) \/ NextNonce(s) \/ Broadcast(s)
         \/ st'[s] \notin {"sent", "reconciling", "holding"}
         \/ st'[s] = st[s] /\ hand'[s] = hand[s] /\ count'[s] = count[s]
<1> DEFINE Same == st'[s] = st[s] /\ hand'[s] = hand[s] /\ count'[s] = count[s]
           Out  == st'[s] \notin {"sent", "reconciling", "holding"}
<1> USE DEF TypeOK, Go, session
<1>1. ASSUME NEW q \in Sessions, ReadNonce(q) PROVE ReadNonce(s) \/ Same
  BY <1>1 DEF ReadNonce
<1>2. ASSUME NEW q \in Sessions, NextNonce(q) PROVE NextNonce(s) \/ Same
  <2>1. \E h : hand' = [hand EXCEPT ![q] = h]
    BY <1>2 DEF NextNonce
  <2>2. st' = [st EXCEPT ![q] = "holding"] /\ count' = count
    BY <1>2 DEF NextNonce
  <2> QED BY <1>2, <2>1, <2>2
<1>3. ASSUME NEW q \in Sessions, Broadcast(q) PROVE Broadcast(s) \/ Same
  <2>1. \E v \in {"sent", "closing"} : st' = [st EXCEPT ![q] = v]
    BY <1>3 DEF Broadcast
  <2> QED BY <1>3, <2>1 DEF Broadcast
<1>4. ASSUME NEW q \in Sessions, Open(q) \/ Record(q) \/ Confirm(q) \/ Fail(q) \/ Close(q) \/ Crash(q)
      PROVE  Out \/ Same
  <2>1. hand' = hand /\ count' = count
    BY <1>4 DEF Open, Record, Confirm, Fail, Close, Crash
  <2>2. \E v \in {"reading", "waiting", "closing", "done", "dead"} : st' = [st EXCEPT ![q] = v]
    BY <1>4 DEF Open, Record, Confirm, Fail, Close, Crash
  <2> QED BY <2>1, <2>2
<1>5. ASSUME NEW q \in Sessions, ReconcileRow(q) \/ Lose(q) \/ Notice(q) PROVE Same
  BY <1>5 DEF ReconcileRow, Lose, Notice
<1>6. CASE Mine \/ Gossip \/ Evict \/ UNCHANGED vars
  BY <1>6 DEF Mine, Gossip, Evict, vars
<1> QED BY <1>1, <1>2, <1>3, <1>4, <1>5, <1>6 DEF Next

LEMMA StepInOrder ==
  ASSUME TypeOK, InUse, InOrder, Steady, [Next]_vars
  PROVE  InOrder'
<1>0. PICK x \in Nodes : env.nodes = {x}
  BY SteadyNode
<1>1. /\ env' = env /\ ~env.evicts
  BY DEF Steady, Next, vars, Open, ReadNonce, ReconcileRow, NextNonce, Broadcast, Record,
         Confirm, Fail, Close, Crash, Lose, Notice, Mine, Gossip, Evict
<1>a. \A n \in Nonces : Alive(n) => Alive(n)'
  BY <1>1, StepAlive
<1>b. \A n \in Nonces : Alive(n)' => Alive(n) \/ \E s \in Sessions : Broadcast(s) /\ n = hand[s]
  BY <1>1, StepAlive
<1>n. \A n \in Nonces : n \in Nat /\ \A m \in 0 .. n - 1 : m \in Nonces
  BY LedgerAssumption DEF Nonces
<1>u. \A n \in Nonces : ~Alive(n)' => ~Alive(n)
  BY <1>a
<1>2. ASSUME NEW e \in Nodes \ env.nodes, NEW n \in Nonces PROVE pool'[e][n] = None
  <2>0. pool[e][n] = None /\ e # x
    BY <1>0 DEF InOrder
  <2>1. ASSUME NEW s \in Sessions, Broadcast(s) PROVE pool'[e][n] = None
    BY <2>0, <2>1, <1>0 DEF Broadcast, TypeOK
  <2>2. CASE Mine
    <3>1. PICK k \in Nonces : pool' = [f \in Nodes |-> [pool[f] EXCEPT ![k] = None]]
      BY <2>2, Zenon DEF Mine
    <3> QED BY <3>1, <2>0 DEF TypeOK
  <2>3. CASE Gossip
    BY <2>0, <2>3, <1>0 DEF Gossip, TypeOK
  <2>4. CASE UNCHANGED pool
    BY <2>0, <2>4
  <2>5. ~Evict
    BY <1>1 DEF Evict
  <2> QED BY <2>1, <2>2, <2>3, <2>4, <2>5
          DEF Next, vars, chain, Open, ReadNonce, ReconcileRow, NextNonce, Record, Confirm,
              Fail, Close, Crash, Lose, Notice
<1>3. ASSUME NEW n \in Nonces, Alive(n)', NEW m \in 0 .. n - 1 PROVE Alive(m)'
  <2>1. CASE Alive(n)
    BY <2>1, <1>3, <1>a, <1>n DEF InOrder
  <2>2. CASE \E s \in Sessions : Broadcast(s) /\ n = hand[s]
    <3>1. PICK s \in Sessions : st[s] = "holding" /\ n = hand[s]
      BY <2>2 DEF Broadcast
    <3>2. Alive(m) /\ m \in Nonces
      BY <3>1, <1>n DEF InOrder, FollowsOn
    <3> QED BY <3>2, <1>a
  <2> QED BY <2>1, <2>2, <1>3, <1>b
<1>4. ASSUME NEW n \in PendingRows' PROVE Alive(n)'
  <2>1. n \in Nonces
    BY DEF PendingRows
  <2>2. CASE n \in PendingRows
    BY <2>1, <2>2, <1>a DEF InOrder
  <2>3. CASE \E s \in Sessions : Record(s) /\ n = hand[s]
    <3>1. PICK s \in Sessions : st[s] = "sent" /\ n = hand[s]
      BY <2>3 DEF Record
    <3> QED BY <2>1, <3>1, <1>a DEF InOrder, FollowsOn
  <2>4. status'[n] = status[n] \/ status'[n] # "pending" \/ \E s \in Sessions : Record(s) /\ n = hand[s]
    <3>1. ASSUME NEW s \in Sessions, ReconcileRow(s)
          PROVE  status'[n] = status[n] \/ status'[n] # "pending"
      <4>1. \/ UNCHANGED rows
            \/ \E m \in Nonces, v \in {"confirmed", "replaced", "dropped"} : SetRow(m, v)
        BY <3>1 DEF ReconcileRow, TypeOK
      <4> QED BY <2>1, <4>1 DEF SetRow, rows, TypeOK
    <3>2. ASSUME NEW s \in Sessions, Record(s)
          PROVE  status'[n] = status[n] \/ n = hand[s]
      BY <2>1, <3>2 DEF Record, TypeOK
    <3>3. ASSUME NEW s \in Sessions, Confirm(s)
          PROVE  status'[n] = status[n] \/ status'[n] # "pending"
      BY <2>1, <3>3 DEF Confirm, TypeOK
    <3> QED BY <3>1, <3>2, <3>3
            DEF Next, vars, rows, Open, ReadNonce, NextNonce, Broadcast, Fail, Close, Crash,
                Lose, Notice, Mine, Gossip, Evict
  <2> QED BY <2>1, <2>2, <2>3, <2>4 DEF PendingRows
<1>5. ASSUME NEW s \in Sessions PROVE FollowsOn(s)'
  <2>0. /\ \A m \in 0 .. count[s] - 1 : m \in Nonces
        /\ \A m \in 0 .. hand[s] - 1 : m \in Nonces
        /\ st[s] = "sent" => hand[s] \in Nonces
    BY LedgerAssumption DEF TypeOK, InUse, Nonces
  <2>1. CASE ReadNonce(s)
    <3>1. st'[s] = "reconciling" /\ count'[s] = PendingCount(x)
      BY <2>1, <1>0 DEF ReadNonce, Go, TypeOK
    <3>2. ASSUME NEW m \in 0 .. count'[s] - 1 PROVE Alive(m)'
      <4>1. m \in Nonces /\ (mined[m] # None \/ pool[x][m] # None)
        BY <3>1, PendingCountIs, LedgerAssumption DEF Nonces
      <4>2. Alive(m)
        BY <4>1 DEF Alive
      <4> QED BY <4>1, <4>2, <1>a
    <3> QED BY <3>1, <3>2 DEF FollowsOn
  <2>2. CASE NextNonce(s)
    <3> DEFINE past == {n + 1 : n \in PendingRows} \cup {count[s]}
    <3>1. /\ st[s] = "reconciling" /\ st'[s] = "holding"
          /\ hand'[s] = LargestOf(past) /\ LargestOf(past) \in past
      BY <2>2, LargestIs DEF NextNonce, Go, TypeOK
    <3>2. ASSUME NEW m \in 0 .. hand'[s] - 1 PROVE Alive(m)'
      <4>1. CASE hand'[s] = count[s]
        BY <4>1, <3>1, <3>2, <2>0, <1>a DEF InOrder, FollowsOn
      <4>2. CASE \E n \in PendingRows : hand'[s] = n + 1
        <5>1. PICK n \in PendingRows : hand'[s] = n + 1
          BY <4>2
        <5>2. n \in Nonces /\ Alive(n) /\ (m = n \/ m \in 0 .. n - 1)
          BY <5>1, <3>2, <1>n DEF InOrder, PendingRows
        <5> QED BY <5>2, <1>a, <1>n DEF InOrder
      <4> QED BY <3>1, <4>1, <4>2
    <3> QED BY <3>1, <3>2 DEF FollowsOn
  <2>3. CASE Broadcast(s)
    <3>0. \E e \in env.nodes : pool' = [pool EXCEPT ![e][hand[s]] = s]
      BY <2>3, Zenon DEF Broadcast
    <3>1. PICK e \in Nodes : pool' = [pool EXCEPT ![e][hand[s]] = s]
      BY <3>0, <1>0
    <3>2. hand' = hand /\ hand[s] \in Nonces /\ s # None
      BY <2>3, LeaseAssumption DEF Broadcast, InUse
    <3>3. pool'[e][hand'[s]] # None
      BY <3>1, <3>2 DEF TypeOK
    <3>4. Alive(hand[s])'
      BY <3>3 DEF Alive
    <3>5. st'[s] \in {"sent", "closing"}
      BY <2>3 DEF Broadcast, Go, TypeOK
    <3> QED BY <3>4, <3>5 DEF FollowsOn
  <2>4. CASE st'[s] \notin {"sent", "reconciling", "holding"}
    BY <2>4 DEF FollowsOn
  <2>5. CASE st'[s] = st[s] /\ hand'[s] = hand[s] /\ count'[s] = count[s]
    BY <2>5, <2>0, <1>a DEF InOrder, FollowsOn
  <2>6. \/ ReadNonce(s) \/ NextNonce(s) \/ Broadcast(s)
        \/ st'[s] \notin {"sent", "reconciling", "holding"}
        \/ st'[s] = st[s] /\ hand'[s] = hand[s] /\ count'[s] = count[s]
    BY StepSession
  <2> QED BY <2>1, <2>2, <2>3, <2>4, <2>5, <2>6
<1> QED BY <1>1, <1>2, <1>3, <1>4, <1>5 DEF InOrder

LEMMA StepAhead ==
  ASSUME TypeOK, InUse, RowInv, InOrder, Ahead, Steady, [Next]_vars
  PROVE  Ahead'
<1>0. PICK x \in Nodes : env.nodes = {x}
  BY SteadyNode
<1> SUFFICES ASSUME NEW s \in Sessions, NEW e \in Nodes, NEW n \in Nonces,
                    lost'[s] = "no", pool'[e][n] # None, lost'[pool'[e][n]] = "no"
             PROVE  /\ st'[s] = "reconciling" => n < count'[s]
                    /\ st'[s] = "holding"     => n < hand'[s]
  BY DEF Ahead
<1>1. lost[s] = "no" /\ \A q \in Sessions : lost'[q] = "no" => lost[q] = "no"
  BY LostStays
<1>2. CASE ReadNonce(s)
  <2>1. st'[s] = "reconciling" /\ count'[s] = PendingCount(x) /\ pool' = pool /\ lost' = lost
    BY <1>2, <1>0 DEF ReadNonce, Go, TypeOK, chain
  <2>2. e = x /\ Alive(n)
    BY <2>1, <1>0 DEF InOrder, Alive
  <2> DEFINE c == PendingCount(x)
  <2>3. c \in 0 .. MaxNonce /\ (c \in Nonces => ~Alive(c))
    <3>1. \A f \in Nodes, m \in Nonces : f # x => pool[f][m] = None
      BY <1>0 DEF InOrder
    <3> QED BY <3>1, PendingCountIs DEF Alive
  <2>4. ASSUME ~(n < c) PROVE FALSE
    <3>1. c \in Nonces /\ c # n
      BY <2>2, <2>3, <2>4, LedgerAssumption DEF Nonces
    <3>2. c \in 0 .. n - 1
      BY <3>1, <2>4, LedgerAssumption DEF Nonces
    <3> QED BY <2>2, <2>3, <3>1, <3>2 DEF InOrder
  <2> QED BY <2>1, <2>4
<1>3. CASE NextNonce(s)
  <2>1. /\ st[s] = "reconciling" /\ st'[s] = "holding" /\ pool' = pool /\ lost' = lost
        /\ hand'[s] = LargestOf({k + 1 : k \in PendingRows} \cup {count[s]})
    BY <1>3 DEF NextNonce, Go, TypeOK, chain
  <2>2. count[s] <= hand'[s] /\ hand'[s] \in Nat
    <3> DEFINE past == {k + 1 : k \in PendingRows} \cup {count[s]}
    <3>1. count[s] \in 0 .. MaxNonce
      BY DEF TypeOK
    <3>2. count[s] <= LargestOf(past)
      BY <3>1, LargestIs
    <3>3. LargestOf(past) \in Nat
      BY <1>3, LedgerAssumption DEF NextNonce, Nonces
    <3> QED BY <2>1, <3>2, <3>3
  <2>3. n < count[s] /\ n \in Nat /\ count[s] \in Nat
    <3>1. pool[e][n] # None /\ lost[pool[e][n]] = "no" /\ lost[s] = "no"
      BY <2>1
    <3>2. n < count[s]
      BY <2>1, <3>1 DEF Ahead
    <3> QED BY <3>2, LedgerAssumption DEF TypeOK, Nonces
  <2> QED BY <2>1, <2>2, <2>3
<1>4. CASE st'[s] \notin {"reconciling", "holding"}
  BY <1>4
<1>5. CASE st'[s] = st[s] /\ hand'[s] = hand[s] /\ count'[s] = count[s] /\ st[s] \in {"reconciling", "holding"}
  <2>1. CASE pool'[e][n] = pool[e][n]
    <3>1. pool[e][n] \in Sessions
      BY <2>1 DEF TypeOK
    <3> QED BY <1>1, <1>5, <2>1, <3>1 DEF Ahead
  <2>2. CASE \E q \in Sessions : Broadcast(q) /\ pool'[e][n] = q
    <3>1. PICK q \in Sessions : Broadcast(q) /\ pool'[e][n] = q
      BY <2>2
    <3>2. st[q] = "holding" /\ st'[q] # "holding" /\ lost[q] = "no"
      BY <3>1, <1>1 DEF Broadcast, Go, TypeOK
    <3>3. holder = s /\ holder = q
      BY <1>1, <1>5, <3>2 DEF RowInv, StillHolds, Active
    <3> QED BY <1>5, <3>2, <3>3
  <2>3. pool'[e][n] = pool[e][n] \/ \E q \in Sessions : Broadcast(q) /\ pool'[e][n] = q
    <3>1. ASSUME NEW q \in Sessions, Broadcast(q)
          PROVE  pool'[e][n] = pool[e][n] \/ pool'[e][n] = q
      BY <3>1, <1>0 DEF Broadcast, TypeOK
    <3>2. CASE Mine
      <4>1. PICK k \in Nonces : pool' = [f \in Nodes |-> [pool[f] EXCEPT ![k] = None]]
        BY <3>2, Zenon DEF Mine
      <4> QED BY <4>1 DEF TypeOK
    <3>3. CASE Gossip
      BY <3>3, <1>0 DEF Gossip, TypeOK
    <3>4. ~Evict
      BY DEF Evict, Steady
    <3> QED BY <3>1, <3>2, <3>3, <3>4
            DEF Next, vars, chain, Open, ReadNonce, ReconcileRow, NextNonce, Record, Confirm,
                Fail, Close, Crash, Lose, Notice
  <2> QED BY <2>1, <2>2, <2>3
<1>6. Broadcast(s) => st'[s] \notin {"reconciling", "holding"}
  BY DEF Broadcast, Go, TypeOK
<1> QED BY <1>2, <1>3, <1>4, <1>5, <1>6, StepSession

LEMMA StepOrder == TypeOK /\ InUse /\ RowInv /\ OrderInv /\ [Next]_vars => OrderInv'
<1>1. [Next]_vars => (Steady' <=> Steady)
  BY DEF Steady, Next, vars, Open, ReadNonce, ReconcileRow, NextNonce, Broadcast, Record,
         Confirm, Fail, Close, Crash, Lose, Notice, Mine, Gossip, Evict
<1> QED BY <1>1, StepInOrder, StepAhead DEF OrderInv

LEMMA LedgerIsOrdered == Spec => [](TypeOK /\ InUse /\ RowInv /\ OrderInv)
<1>1. Init => RowInv
  BY LeaseAssumption DEF Init, RowInv, StillHolds, RowIsRecorded, RowsProtectNonces, Active
<1>2. Init => OrderInv
  BY DEF Init, OrderInv, InOrder, Ahead, FollowsOn, Alive, PendingRows
<1> QED BY <1>1, <1>2, LedgerTypes, StepRows, StepOrder, PTL DEF Spec

(* On one node that forgets nothing, a nonce handed out leaves no hole for  *)
(* the chain to wait on, also when a session that used the one before died  *)
(* without recording it.                                                    *)
THEOREM NoHolesBelow == Spec => []NoHoleBelow
<1>1. TypeOK /\ InUse /\ OrderInv => NoHoleBelow
  <2> SUFFICES ASSUME TypeOK, InUse, OrderInv, Steady, NEW s \in Sessions, st[s] = "holding",
                      NEW n \in 0 .. hand[s] - 1
               PROVE  AliveAt(n) # {}
    BY DEF NoHoleBelow
  <2>1. Alive(n)
    BY DEF OrderInv, InOrder, FollowsOn
  <2> QED BY <2>1 DEF Alive, AliveAt
<1> QED BY <1>1, LedgerIsOrdered, PTL

(* ... and no broadcast of a session that has the lease displaces that of   *)
(* another which had it, recorded or not.                                   *)
THEOREM NothingIsDisplaced == Spec => NothingDisplaced
<1>1. TypeOK /\ InUse /\ RowInv /\ OrderInv /\ [Next]_vars =>
        [Steady => \A e \in Nodes, n \in Nonces :
           pool[e][n] # None /\ pool'[e][n] \notin {None, pool[e][n]}
             => lost[pool[e][n]] # "no" \/ lost[pool'[e][n]] # "no"]_vars
  <2> SUFFICES ASSUME TypeOK, InUse, OrderInv, Next, Steady, NEW e \in Nodes, NEW n \in Nonces,
                      pool[e][n] # None, pool'[e][n] \notin {None, pool[e][n]},
                      lost[pool[e][n]] = "no", lost[pool'[e][n]] = "no"
               PROVE  FALSE
    OBVIOUS
  <2>1. ASSUME NEW s \in Sessions, Broadcast(s) PROVE FALSE
    <3>1. n = hand[s] /\ pool'[e][n] = s /\ st[s] = "holding" /\ n \in Nat
      BY <2>1, LedgerAssumption DEF Broadcast, TypeOK, InUse, Nonces
    <3>2. n < hand[s]
      BY <3>1 DEF OrderInv, Ahead
    <3> QED BY <3>1, <3>2
  <2>2. CASE Mine
    <3>1. PICK k \in Nonces : pool' = [f \in Nodes |-> [pool[f] EXCEPT ![k] = None]]
      BY <2>2, Zenon DEF Mine
    <3> QED BY <3>1 DEF TypeOK
  <2>3. CASE Gossip
    BY <2>3 DEF Gossip, TypeOK
  <2>4. ~Evict
    BY DEF Evict, Steady
  <2> QED BY <2>1, <2>2, <2>3, <2>4
          DEF Next, chain, Open, ReadNonce, ReconcileRow, NextNonce, Record, Confirm,
              Fail, Close, Crash, Lose, Notice
<1> QED BY <1>1, LedgerIsOrdered, PTL DEF Spec, NothingDisplaced

(* The sessions use the lock as ExclusiveLease specifies it, whatever they  *)
(* do between startSession and endSession, crash in or lose: a session that *)
(* has lost its lease never releases the lease of the one that came after.  *)
THEOREM SessionsUseTheLease == Spec => LeaseSpec
<1>1. Init => LeaseInit
  BY DEF Init
<1>2. ASSUME [Next]_vars PROVE [LeaseNext]_holder
  <2>1. ASSUME NEW s \in Sessions, Open(s) PROVE LeaseNext
    BY <2>1 DEF Open, LeaseNext
  <2>2. ASSUME NEW s \in Sessions, LetGo(s) PROVE [LeaseNext]_holder
    <3>1. holder = s => holder # None
      BY LeaseAssumption
    <3> QED BY <2>2, <3>1 DEF LetGo, LeaseNext
  <2>3. ASSUME NEW s \in Sessions, Lose(s) PROVE LeaseNext
    BY <2>3 DEF Lose, LeaseNext
  <2>4. CASE UNCHANGED vars
    BY <2>4 DEF vars
  <2>5. CASE Mine \/ Gossip \/ Evict
    BY <2>5 DEF Mine, Gossip, Evict
  <2>6. ASSUME NEW s \in Sessions,
               \/ ReadNonce(s) \/ ReconcileRow(s) \/ NextNonce(s) \/ Broadcast(s)
               \/ Record(s) \/ Confirm(s) \/ Fail(s) \/ Notice(s)
        PROVE  UNCHANGED holder
    BY <2>6 DEF ReadNonce, ReconcileRow, NextNonce, Broadcast, Record, Confirm, Fail, Notice
  <2>7. ASSUME NEW s \in Sessions, Close(s) \/ Crash(s) PROVE [LeaseNext]_holder
    BY <2>2, <2>7 DEF Close, Crash
  <2> QED BY <1>2, <2>1, <2>3, <2>4, <2>5, <2>6, <2>7 DEF Next
<1> QED BY <1>1, <1>2, PTL DEF Spec, LeaseSpec
=============================================================================
