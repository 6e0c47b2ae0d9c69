---------------------------- MODULE OutboxProofs ----------------------------
(***************************************************************************)
(* Proofs about Outbox, for any number of transactions, messages and       *)
(* relays, any batch size and any number of faults.                        *)
(***************************************************************************)
EXTENDS Outbox, FiniteSetTheorems, TLAPS

LEMMA OutboxConstants ==
    /\ NumTxns \in Nat
    /\ MaxFaults \in Nat
    /\ MaxStops \in Nat
    /\ Txns \subseteq Nat
  BY OutboxAssumption DEF Txns

\* A set of row ids has a least one.
LEMMA LeastExists ==
    ASSUME NEW S \in SUBSET Txns, S # {}
    PROVE  \E i \in S : \A j \in S : i <= j
<1> DEFINE R == {ss \in Nat \X Nat : ss[1] < ss[2]}
<1>1. IsWellFoundedOn(R, Nat)
  BY NatLessThanWellFounded DEF OpToRel
<1> HIDE DEF R
<1>2. S \subseteq Nat
  BY OutboxConstants
<1>3. PICK x \in S : \A y \in S : ~(<<y, x>> \in R)
  BY <1>1, <1>2, WFMin
<1>4. \A y \in S : ~(y < x)
  BY <1>2, <1>3 DEF R
<1> QED
  BY <1>2, <1>4

Least(S) == CHOOSE i \in S : \A j \in S : i <= j

LEMMA CurrentIsLeast ==
    ASSUME NEW r
    PROVE  Current(r) = Least(batch[r]) /\ Current(r)' = Least(batch'[r])
  BY DEF Current, Least

LEMMA LeastIn ==
    ASSUME NEW S \in SUBSET Txns, S # {}
    PROVE  Least(S) \in S
  BY LeastExists DEF Least

\* ORDER BY id LIMIT n fetches a row if there is one, and only rows there are.
LEMMA LowestFacts ==
    ASSUME NEW S \in SUBSET Txns, NEW n \in Nat \ {0}
    PROVE  /\ Lowest(S, n) \subseteq S
           /\ S # {} => Lowest(S, n) # {}
<1>1. ASSUME S # {} PROVE Lowest(S, n) # {}
  <2>1. PICK i \in S : \A j \in S : i <= j
    BY <1>1, LeastExists
  <2>2. {j \in S : j < i} = {}
    <3>1. i \in Nat /\ \A j \in S : j \in Nat
      BY OutboxConstants
    <3>2. \A j \in S : ~(j < i)
      BY <2>1, <3>1
    <3> QED
      BY <3>2
  <2>3. Cardinality({j \in S : j < i}) < n
    BY <2>2, FS_EmptySet
  <2> QED
    BY <2>1, <2>3 DEF Lowest
<1> QED
  BY <1>1 DEF Lowest

-----------------------------------------------------------------------------
(***************************************************************************)
(* Type correctness.  A relay reads the row at hand only where its batch is*)
(* not empty, which its step says.                                         *)
(***************************************************************************)
InHand == {"send", "mark_published", "mark_failed"}

BatchByStep == \A r \in Relays : rpc[r] \in InHand <=> batch[r] # {}

OutboxTypeInv == OutboxTypeOK /\ BatchByStep

LEMMA CurrentInBatch ==
    ASSUME OutboxTypeInv, NEW r \in Relays, rpc[r] \in InHand
    PROVE  Current(r) \in batch[r] /\ Current(r) \in Txns
<1>1. batch[r] \in SUBSET Txns /\ batch[r] # {}
  BY DEF OutboxTypeInv, OutboxTypeOK, BatchByStep
<1> QED
  BY <1>1, LeastIn, CurrentIsLeast

LEMMA FetchableRows == Fetchable \in SUBSET Txns
  BY DEF Fetchable, Pending

LEMMA BatchSizePositive == BatchSize \in Nat \ {0}
  BY OutboxAssumption

LEMMA OutboxTypeStep ==
    ASSUME OutboxTypeInv, [OutboxNext]_outboxVars
    PROVE  OutboxTypeInv'
<1> USE DEF OutboxTypeInv, OutboxTypeOK, BatchByStep, InHand, RowStatus
<1>1. ASSUME NEW i \in Txns, Write(i) PROVE OutboxTypeInv'
  BY <1>1 DEF Write, Inserted, relayVars
<1>2. ASSUME NEW i \in Txns, CommitTxn(i) PROVE OutboxTypeInv'
  BY <1>2 DEF CommitTxn, EndTxn, relayVars
<1>3. ASSUME NEW i \in Txns, RollBackTxn(i) PROVE OutboxTypeInv'
  BY <1>3 DEF RollBackTxn, EndTxn, relayVars
<1>4. ASSUME NEW r \in Relays, Fetch(r) PROVE OutboxTypeInv'
  <2>1. /\ Lowest(Fetchable, BatchSize) \in SUBSET Txns
        /\ Fetchable # {} <=> Lowest(Fetchable, BatchSize) # {}
    BY FetchableRows, BatchSizePositive, LowestFacts
  <2> QED
    BY <1>4, <2>1 DEF Fetch, GoToStep
<1>5. ASSUME NEW r \in Relays, LeaveLoop(r) PROVE OutboxTypeInv'
  BY <1>5 DEF LeaveLoop, GoToStep
<1>6. ASSUME NEW r \in Relays, SendReturns(r) PROVE OutboxTypeInv'
  <2>1. Current(r) \in Txns
    BY <1>6, CurrentInBatch DEF SendReturns
  <2> QED
    BY <1>6, <2>1 DEF SendReturns, GoToStep
<1>7. ASSUME NEW r \in Relays, SendRaises(r) PROVE OutboxTypeInv'
  <2>1. Current(r) \in Txns
    BY <1>7, CurrentInBatch DEF SendRaises
  <2>2. sent' \in [Txns -> Nat]
    BY <1>7, <2>1 DEF SendRaises
  <2>3. faults' \in 0 .. MaxFaults
    BY <1>7, OutboxConstants DEF SendRaises, Fault
  <2> QED
    BY <1>7, <2>2, <2>3 DEF SendRaises, GoToStep
<1>8. ASSUME NEW r \in Relays, NEW s \in {"PUBLISHED", "FAILED"},
             rpc[r] \in InHand, Mark(r, s)
      PROVE  OutboxTypeInv'
  <2>1. Current(r) \in batch[r] /\ Current(r) \in Txns
    BY <1>8, CurrentInBatch
  <2>2. marked' \in [Relays -> [{"PUBLISHED", "FAILED"} -> SUBSET Txns]]
    BY <1>8, <2>1 DEF Mark, DealtWith
  <2> QED
    BY <1>8, <2>1, <2>2 DEF Mark, DealtWith, GoToStep
<1>9. ASSUME NEW r \in Relays, CommitBatch(r) PROVE OutboxTypeInv'
  BY <1>9 DEF CommitBatch, GoToStep, NoMarks
<1>10. ASSUME NEW r \in Relays, StartRelay(r) PROVE OutboxTypeInv'
  BY <1>10 DEF StartRelay, GoToStep
<1>11. ASSUME NEW r \in Relays, StopRelay(r) PROVE OutboxTypeInv'
  <2>1. stops' \in 0 .. MaxStops
    BY <1>11, OutboxConstants DEF StopRelay
  <2> QED
    BY <1>11, <2>1 DEF StopRelay
<1>12. ASSUME NEW r \in Relays, BatchRaises(r) \/ CrashRelay(r)
       PROVE  OutboxTypeInv'
  <2>1. faults' \in 0 .. MaxFaults
    BY <1>12, OutboxConstants DEF BatchRaises, CrashRelay, RollBackBatch, Fault
  <2>2. CASE BatchRaises(r)
    BY <2>1, <2>2 DEF BatchRaises, RollBackBatch, GoToStep, NoMarks
  <2>3. CASE CrashRelay(r)
    BY <2>1, <2>3 DEF CrashRelay, RollBackBatch, GoToStep, NoMarks
  <2> QED
    BY <1>12, <2>2, <2>3
<1>13. CASE UNCHANGED outboxVars
  BY <1>13 DEF outboxVars, relayVars
<1> QED
  BY <1>1, <1>2, <1>3, <1>4, <1>5, <1>6, <1>7, <1>8, <1>9, <1>10, <1>11,
     <1>12, <1>13
     DEF OutboxNext, RelayStep, MarkPublished, MarkFailed

LEMMA OutboxTypeHolds == OutboxSpec => []OutboxTypeInv
<1>1. OutboxInit => OutboxTypeInv
  BY OutboxConstants
     DEF OutboxInit, OutboxTypeInv, OutboxTypeOK, BatchByStep, InHand, NoMarks
<1>2. OutboxTypeInv /\ [OutboxNext]_outboxVars => OutboxTypeInv'
  BY OutboxTypeStep
<1> QED
  BY <1>1, <1>2, PTL DEF OutboxSpec

\* The table, the relays and their transactions keep their types: OutboxTypeOK
\* is an invariant.
THEOREM OutboxTypeCorrect == OutboxSpec => []OutboxTypeOK
<1>1. OutboxTypeInv => OutboxTypeOK
  BY DEF OutboxTypeInv
<1> QED
  BY <1>1, OutboxTypeHolds, PTL

-----------------------------------------------------------------------------
(***************************************************************************)
(* Rows and transactions.  A row is in the table only with its transaction,*)
(* and an INSERT that did nothing found a row that is there to stay.       *)
(***************************************************************************)
RowByTxn ==
    \A i \in Txns :
        /\ txn[i] \in {"new", "rolled_back"} => row[i] = "none"
        /\ txn[i] = "open" => row[i] \in {"none", "uncommitted"}
        /\ txn[i] = "committed" => row[i] # "uncommitted"

CopyInv ==
    \A i \in Txns : txn[i] \in {"open", "committed"} =>
        \/ row[i] \in RowStatus \cup {"uncommitted"}
        \/ \E j \in Rivals(i) : row[j] \in RowStatus

\* Locks: a locked row is committed and PENDING, and one relay has it, once.
LockInv ==
    /\ \A r \in Relays : \A i \in Locked(r) : row[i] = "PENDING"
    /\ \A r, s \in Relays : r # s => Locked(r) \cap Locked(s) = {}
    /\ \A r \in Relays : \A s \in {"PUBLISHED", "FAILED"} :
           batch[r] \cap marked[r][s] = {}

\* What is, or is about to be, marked as published was sent.
SentInv ==
    /\ \A i \in Txns : sent[i] > 0 => row[i] \in RowStatus
    /\ PublishedMeansSent
    /\ \A r \in Relays : \A i \in marked[r]["PUBLISHED"] : sent[i] > 0
    /\ \A r \in Relays : rpc[r] = "mark_published" => sent[Current(r)] > 0

\* A relay is done with the send of row i, and its transaction is not lost.
DoneWith(i) ==
    \/ row[i] \in {"PUBLISHED", "FAILED"}
    \/ \E r \in Relays :
           \/ i \in marked[r]["PUBLISHED"] \cup marked[r]["FAILED"]
           \/ rpc[r] \in {"mark_published", "mark_failed"} /\ i = Current(r)

\* Every send but the last of a row that is done was followed by a fault.
CountInv ==
    \A i \in Txns : sent[i] <= faults + (IF DoneWith(i) THEN 1 ELSE 0)

OutboxInv ==
    OutboxTypeInv /\ RowByTxn /\ CopyInv /\ LockInv /\ SentInv /\ CountInv

-----------------------------------------------------------------------------
\* A row that was committed stays in the table.
RowsStay == \A i \in Txns : row[i] \in RowStatus => row'[i] \in RowStatus

\* Rows under way at a relay.
LEMMA MarkedIsLocked ==
    ASSUME OutboxTypeInv, LockInv, NEW r \in Relays,
           NEW i \in marked[r]["PUBLISHED"] \cup marked[r]["FAILED"]
    PROVE  i \in Txns /\ row[i] = "PENDING"
  BY DEF OutboxTypeInv, OutboxTypeOK, LockInv, Locked

LEMMA RowStep ==
    ASSUME OutboxTypeInv, RowByTxn, CopyInv, LockInv, [OutboxNext]_outboxVars
    PROVE  RowByTxn' /\ CopyInv' /\ RowsStay
<1>1. /\ txn \in [Txns -> {"new", "open", "committed", "rolled_back"}]
      /\ row \in [Txns -> RowStatus \cup {"none", "uncommitted"}]
  BY DEF OutboxTypeInv, OutboxTypeOK
<1>2. \A i \in Txns : Rivals(i) \subseteq Txns
  BY DEF Rivals
<1>3. ASSUME NEW i \in Txns, Write(i) PROVE RowByTxn' /\ CopyInv' /\ RowsStay
  <2>1. /\ row[i] = "none" /\ txn'[i] = "open"
        /\ row'[i] = Inserted(i)
        /\ \A j \in Txns \ {i} : txn'[j] = txn[j] /\ row'[j] = row[j]
    BY <1>1, <1>3 DEF Write, RowByTxn
  <2>2. Inserted(i) \in {"none", "uncommitted"}
    BY DEF Inserted
  <2>3. RowByTxn'
    BY <2>1, <2>2 DEF RowByTxn
  <2>4. RowsStay
    BY <2>1, <2>2 DEF RowsStay, RowStatus
  <2>5. Inserted(i) = "none" => \E j \in Rivals(i) : row[j] \in RowStatus
    BY <1>1, <1>2, <1>3 DEF Inserted, Write, ConflictSettled
  <2>6. CopyInv'
    BY <1>2, <2>1, <2>2, <2>4, <2>5 DEF CopyInv, RowsStay, Rivals
  <2> QED
    BY <2>3, <2>4, <2>6
<1>4. ASSUME NEW i \in Txns, NEW o \in {"committed", "rolled_back"},
             NEW s \in {"PENDING", "none"}, EndTxn(i, o, s),
             s = "PENDING" <=> o = "committed"
      PROVE  RowByTxn' /\ CopyInv' /\ RowsStay
  <2>1. /\ row[i] \in {"none", "uncommitted"} /\ txn[i] = "open"
        /\ txn'[i] = o
        /\ row'[i] = IF row[i] = "uncommitted" THEN s ELSE row[i]
        /\ \A j \in Txns \ {i} : txn'[j] = txn[j] /\ row'[j] = row[j]
    BY <1>1, <1>4 DEF EndTxn, RowByTxn
  <2>2. RowByTxn'
    BY <1>4, <2>1 DEF RowByTxn
  <2>3. RowsStay
    BY <2>1 DEF RowsStay, RowStatus
  <2>4. CopyInv'
    BY <1>2, <1>4, <2>1, <2>3 DEF CopyInv, RowsStay, RowStatus, Rivals
  <2> QED
    BY <2>2, <2>3, <2>4
<1>5. ASSUME NEW r \in Relays, CommitBatch(r)
      PROVE  RowByTxn' /\ CopyInv' /\ RowsStay
  <2>1. txn' = txn
    BY <1>5 DEF CommitBatch
  <2>2. \A i \in Txns : \/ row'[i] = row[i]
                        \/ row[i] = "PENDING" /\ row'[i] \in RowStatus
    BY <1>5, MarkedIsLocked DEF CommitBatch, RowStatus
  <2>3. RowByTxn' /\ RowsStay
    BY <2>1, <2>2 DEF RowByTxn, RowsStay, RowStatus
  <2>4. CopyInv'
    BY <1>2, <2>1, <2>2, <2>3 DEF CopyInv, RowsStay, Rivals
  <2> QED
    BY <2>3, <2>4
<1>6. ASSUME txn' = txn, row' = row PROVE RowByTxn' /\ CopyInv' /\ RowsStay
  BY <1>6 DEF RowByTxn, CopyInv, RowsStay, Rivals
<1>7. ASSUME NEW r \in Relays,
             \/ Fetch(r) \/ LeaveLoop(r) \/ SendReturns(r) \/ SendRaises(r)
             \/ MarkPublished(r) \/ MarkFailed(r)
             \/ StartRelay(r) \/ StopRelay(r) \/ BatchRaises(r)
             \/ CrashRelay(r)
      PROVE  txn' = txn /\ row' = row
  BY <1>7
     DEF Fetch, LeaveLoop, SendReturns, SendRaises, MarkPublished, MarkFailed,
         Mark, StartRelay, StopRelay, BatchRaises, CrashRelay, RollBackBatch
<1>8. CASE UNCHANGED outboxVars
  BY <1>6, <1>8 DEF outboxVars
<1> QED
  BY <1>3, <1>4, <1>5, <1>6, <1>7, <1>8
     DEF OutboxNext, RelayStep, CommitTxn, RollBackTxn

\* A transaction of a relay that ends gives its locks back.
LEMMA LocksReturned ==
    ASSUME OutboxTypeInv, LockInv, NEW r \in Relays, txn' = txn, row' = row,
           batch' = [batch EXCEPT ![r] = {}],
           marked' = [marked EXCEPT ![r] = NoMarks]
    PROVE  LockInv'
<1>1. /\ batch \in [Relays -> SUBSET Txns]
      /\ marked \in [Relays -> [{"PUBLISHED", "FAILED"} -> SUBSET Txns]]
  BY DEF OutboxTypeInv, OutboxTypeOK
<1>2. \A s \in {"PUBLISHED", "FAILED"} : marked'[r][s] = {}
  BY <1>1 DEF NoMarks
<1>3. Locked(r)' = {} /\ batch'[r] = {}
  BY <1>1, <1>2 DEF Locked
<1>4. \A q \in Relays \ {r} : batch'[q] = batch[q] /\ marked'[q] = marked[q]
  BY <1>1
<1>5. \A q \in Relays \ {r} : Locked(q)' = Locked(q)
  BY <1>4 DEF Locked
<1> QED
  BY <1>3, <1>4, <1>5 DEF LockInv

LEMMA LockStep ==
    ASSUME OutboxTypeInv, RowByTxn, LockInv, [OutboxNext]_outboxVars
    PROVE  LockInv'
<1>1. /\ batch \in [Relays -> SUBSET Txns]
      /\ marked \in [Relays -> [{"PUBLISHED", "FAILED"} -> SUBSET Txns]]
      /\ rpc \in [Relays -> {"stopped", "loop", "send", "mark_published",
                             "mark_failed", "commit"}]
      /\ txn \in [Txns -> {"new", "open", "committed", "rolled_back"}]
      /\ row \in [Txns -> RowStatus \cup {"none", "uncommitted"}]
  BY DEF OutboxTypeInv, OutboxTypeOK
<1>2. ASSUME batch' = batch, marked' = marked,
             \A i \in Txns : row[i] = "PENDING" => row'[i] = "PENDING"
      PROVE  LockInv'
  <2>1. \A r \in Relays : Locked(r)' = Locked(r) /\ Locked(r) \subseteq Txns
    BY <1>1, <1>2 DEF Locked
  <2> QED
    BY <1>2, <2>1 DEF LockInv
<1>3. ASSUME NEW i \in Txns, Write(i) \/ CommitTxn(i) \/ RollBackTxn(i)
      PROVE  LockInv'
  <2>1. row[i] # "PENDING"
    BY <1>3 DEF RowByTxn, Write, CommitTxn, RollBackTxn, EndTxn
  <2>2. \A j \in Txns \ {i} : row'[j] = row[j]
    BY <1>1, <1>3 DEF Write, CommitTxn, RollBackTxn, EndTxn
  <2>3. batch' = batch /\ marked' = marked
    BY <1>3 DEF Write, CommitTxn, RollBackTxn, EndTxn, relayVars
  <2> QED
    BY <1>2, <2>1, <2>2, <2>3
<1>4. ASSUME NEW r \in Relays, Fetch(r) PROVE LockInv'
  <2>1. /\ batch'[r] \subseteq Fetchable /\ marked' = marked /\ row' = row
        /\ \A q \in Relays \ {r} : batch'[q] = batch[q]
    BY <1>1, <1>4, FetchableRows, BatchSizePositive, LowestFacts DEF Fetch
  <2>2. \A i \in Fetchable : /\ row[i] = "PENDING"
                             /\ \A q \in Relays : i \notin Locked(q)
    BY DEF Fetchable, Pending
  <2>3. \A q \in Relays \ {r} : Locked(q)' = Locked(q)
    BY <2>1 DEF Locked
  <2>4. Locked(r)' \subseteq batch'[r] \cup Locked(r)
    BY <2>1 DEF Locked
  <2>5. \A s \in {"PUBLISHED", "FAILED"} : marked[r][s] \subseteq Locked(r)
    BY DEF Locked
  <2>6. \A q \in Relays : \A i \in Locked(q)' : row'[i] = "PENDING"
    BY <2>1, <2>2, <2>3, <2>4 DEF LockInv
  <2>7. \A q, s \in Relays : q # s => Locked(q)' \cap Locked(s)' = {}
    BY <2>1, <2>2, <2>3, <2>4 DEF LockInv
  <2>8. \A q \in Relays : \A s \in {"PUBLISHED", "FAILED"} :
            batch'[q] \cap marked'[q][s] = {}
    BY <2>1, <2>2, <2>5 DEF LockInv
  <2> QED
    BY <2>6, <2>7, <2>8 DEF LockInv
<1>5. ASSUME NEW r \in Relays, NEW s \in {"PUBLISHED", "FAILED"},
             rpc[r] \in InHand, Mark(r, s)
      PROVE  LockInv'
  <2>1. Current(r) \in batch[r]
    BY <1>5, CurrentInBatch
  <2>2. /\ marked'[r][s] = marked[r][s] \cup {Current(r)}
        /\ \A u \in {"PUBLISHED", "FAILED"} \ {s} :
               marked'[r][u] = marked[r][u]
        /\ batch'[r] = batch[r] \ {Current(r)}
    BY <1>1, <1>5 DEF Mark, DealtWith
  <2>3. \A q \in Relays \ {r} : batch'[q] = batch[q] /\ marked'[q] = marked[q]
    BY <1>1, <1>5 DEF Mark
  <2>4. \A q \in Relays \ {r} : Locked(q)' = Locked(q)
    BY <2>3 DEF Locked
  <2>5. Locked(r)' = Locked(r)
    BY <2>1, <2>2 DEF Locked
  <2>6. row' = row
    BY <1>5 DEF Mark
  <2>7. \A u \in {"PUBLISHED", "FAILED"} : batch'[r] \cap marked'[r][u] = {}
    BY <2>2 DEF LockInv
  <2> QED
    BY <2>3, <2>4, <2>5, <2>6, <2>7 DEF LockInv
<1>6. ASSUME NEW r \in Relays, CommitBatch(r) PROVE LockInv'
  <2>1. batch[r] = {}
    BY <1>6 DEF CommitBatch, OutboxTypeInv, BatchByStep, InHand
  <2>2. \A q \in Relays \ {r} : batch'[q] = batch[q] /\ marked'[q] = marked[q]
    BY <1>1, <1>6 DEF CommitBatch
  <2>3. \A q \in Relays \ {r} : Locked(q)' = Locked(q)
    BY <2>2 DEF Locked
  <2>4. /\ batch'[r] = {}
        /\ marked'[r]["PUBLISHED"] = {} /\ marked'[r]["FAILED"] = {}
    BY <1>1, <1>6, <2>1 DEF CommitBatch, NoMarks
  <2>5. Locked(r)' = {}
    BY <2>4 DEF Locked
  <2>6. \A i \in Txns : i \notin Locked(r) => row'[i] = row[i]
    BY <1>6 DEF CommitBatch, Locked
  <2>7. \A q \in Relays : Locked(q) \subseteq Txns
    BY <1>1 DEF Locked
  <2>8. \A q \in Relays \ {r} : \A i \in Locked(q) : row'[i] = "PENDING"
    BY <2>6, <2>7 DEF LockInv
  <2> QED
    BY <2>2, <2>3, <2>4, <2>5, <2>8 DEF LockInv
<1>7. ASSUME NEW r \in Relays, BatchRaises(r) \/ CrashRelay(r) PROVE LockInv'
  BY <1>7, LocksReturned DEF BatchRaises, CrashRelay, RollBackBatch
<1>8. ASSUME NEW r \in Relays,
             \/ LeaveLoop(r) \/ SendReturns(r) \/ SendRaises(r)
             \/ StartRelay(r) \/ StopRelay(r)
      PROVE  LockInv'
  BY <1>2, <1>8 DEF LeaveLoop, SendReturns, SendRaises, StartRelay, StopRelay
<1>9. CASE UNCHANGED outboxVars
  BY <1>2, <1>9 DEF outboxVars, relayVars
<1> QED
  BY <1>3, <1>4, <1>5, <1>6, <1>7, <1>8, <1>9
     DEF OutboxNext, RelayStep, MarkPublished, MarkFailed, InHand

\* The row at hand of a relay about to send is locked by that relay only, and
\* nobody is done with it.
LEMMA UnsentAtHand ==
    ASSUME OutboxTypeInv, LockInv, NEW r \in Relays, rpc[r] = "send"
    PROVE  /\ Current(r) \in Txns
           /\ row[Current(r)] = "PENDING"
           /\ ~DoneWith(Current(r))
<1>1. Current(r) \in batch[r] /\ Current(r) \in Txns
  BY CurrentInBatch DEF InHand
<1>2. Current(r) \in Locked(r)
  BY <1>1 DEF Locked
<1>3. row[Current(r)] = "PENDING"
  BY <1>2 DEF LockInv
<1>4. ASSUME NEW q \in Relays, q # r PROVE Current(r) \notin Locked(q)
  BY <1>2, <1>4 DEF LockInv
<1>5. ASSUME NEW q \in Relays
      PROVE  Current(r) \notin marked[q]["PUBLISHED"] \cup marked[q]["FAILED"]
  <2>1. CASE q = r
    BY <1>1, <2>1 DEF LockInv
  <2>2. CASE q # r
    BY <1>4, <2>2 DEF Locked
  <2> QED
    BY <2>1, <2>2
<1>6. ASSUME NEW q \in Relays, rpc[q] \in {"mark_published", "mark_failed"}
      PROVE  Current(r) # Current(q)
  <2>1. q # r
    BY <1>6
  <2>2. Current(q) \in Locked(q)
    BY <1>6, CurrentInBatch DEF InHand, Locked
  <2> QED
    BY <1>4, <2>1, <2>2
<1> QED
  BY <1>1, <1>3, <1>5, <1>6 DEF DoneWith

\* A step that sends nothing and leaves the relays' transactions alone.
LEMMA SentUntouched ==
    ASSUME SentInv, RowsStay, sent' = sent, marked' = marked, batch' = batch,
           \A r \in Relays : rpc'[r] = "mark_published"
                                 => rpc[r] = "mark_published",
           \A i \in Txns : row'[i] = "PUBLISHED" => row[i] = "PUBLISHED"
    PROVE  SentInv'
<1>1. \A r \in Relays : Current(r)' = Current(r)
  BY CurrentIsLeast
<1> QED
  BY <1>1 DEF SentInv, RowsStay, PublishedMeansSent

LEMMA SentStep ==
    ASSUME OutboxTypeInv, RowByTxn, LockInv, SentInv, RowsStay,
           [OutboxNext]_outboxVars
    PROVE  SentInv'
<1>1. /\ batch \in [Relays -> SUBSET Txns]
      /\ marked \in [Relays -> [{"PUBLISHED", "FAILED"} -> SUBSET Txns]]
      /\ rpc \in [Relays -> {"stopped", "loop", "send", "mark_published",
                             "mark_failed", "commit"}]
      /\ row \in [Txns -> RowStatus \cup {"none", "uncommitted"}]
      /\ sent \in [Txns -> Nat]
  BY DEF OutboxTypeInv, OutboxTypeOK
<1>2. ASSUME NEW i \in Txns, Write(i) \/ CommitTxn(i) \/ RollBackTxn(i)
      PROVE  SentInv'
  <2>1. row'[i] # "PUBLISHED"
    BY <1>1, <1>2
       DEF Write, Inserted, CommitTxn, RollBackTxn, EndTxn, RowByTxn
  <2>2. \A j \in Txns \ {i} : row'[j] = row[j]
    BY <1>1, <1>2 DEF Write, CommitTxn, RollBackTxn, EndTxn
  <2>3. sent' = sent /\ batch' = batch /\ marked' = marked /\ rpc' = rpc
    BY <1>2 DEF Write, CommitTxn, RollBackTxn, EndTxn, relayVars
  <2> QED
    BY <2>1, <2>2, <2>3, SentUntouched
\* One relay moves on; its marks and what it has sent agree.
<1>3. ASSUME NEW r \in Relays, row' = row,
             \A i \in Txns : /\ sent[i] > 0 => sent'[i] > 0
                             /\ sent'[i] > 0 => row[i] \in RowStatus,
             \A q \in Relays \ {r} : /\ batch'[q] = batch[q]
                                     /\ marked'[q] = marked[q]
                                     /\ rpc'[q] = rpc[q],
             \A i \in marked'[r]["PUBLISHED"] : sent'[i] > 0,
             rpc'[r] = "mark_published" => sent'[Current(r)'] > 0
      PROVE  SentInv'
  <2>1. \A q \in Relays \ {r} : Current(q)' = Current(q)
    BY <1>3, CurrentIsLeast
  <2>2. \A q \in Relays : rpc[q] = "mark_published" => Current(q) \in Txns
    BY CurrentInBatch DEF InHand
  <2>3. \A q \in Relays : marked[q]["PUBLISHED"] \subseteq Txns
    BY <1>1
  <2>4. \A q \in Relays \ {r} :
            /\ \A i \in marked'[q]["PUBLISHED"] : sent'[i] > 0
            /\ rpc'[q] = "mark_published" => sent'[Current(q)'] > 0
    BY <1>3, <2>1, <2>2, <2>3 DEF SentInv
  <2> QED
    BY <1>3, <2>4 DEF SentInv, PublishedMeansSent
<1>4. ASSUME NEW r \in Relays, Fetch(r) PROVE SentInv'
  BY <1>1, <1>3, <1>4 DEF Fetch, GoToStep, SentInv
<1>5. ASSUME NEW r \in Relays, SendReturns(r) PROVE SentInv'
  <2>1. Current(r) \in Txns /\ row[Current(r)] = "PENDING"
    BY <1>5, UnsentAtHand DEF SendReturns
  <2>2. Current(r)' = Current(r)
    BY <1>5, CurrentIsLeast DEF SendReturns
  <2>3. /\ sent'[Current(r)] = sent[Current(r)] + 1
        /\ \A i \in Txns \ {Current(r)} : sent'[i] = sent[i]
    BY <1>1, <1>5, <2>1 DEF SendReturns
  <2>4. /\ sent'[Current(r)] > 0
        /\ \A i \in Txns : /\ sent[i] > 0 => sent'[i] > 0
                           /\ sent'[i] > 0 => row[i] \in RowStatus
    BY <1>1, <2>1, <2>3 DEF SentInv, RowStatus
  <2>5. /\ row' = row /\ marked' = marked /\ batch' = batch
        /\ \A q \in Relays \ {r} : rpc'[q] = rpc[q]
    BY <1>1, <1>5 DEF SendReturns, GoToStep
  <2>6. \A i \in marked'[r]["PUBLISHED"] : sent'[i] > 0
    <3>1. marked[r]["PUBLISHED"] \subseteq Txns
      BY <1>1
    <3>2. \A i \in marked[r]["PUBLISHED"] : sent[i] > 0
      BY DEF SentInv
    <3> QED
      BY <1>1, <2>4, <2>5, <3>1, <3>2
  <2>7. sent'[Current(r)'] > 0
    BY <2>2, <2>4
  <2> QED
    BY <1>1, <1>3, <2>4, <2>5, <2>6, <2>7
<1>6. ASSUME NEW r \in Relays, SendRaises(r) PROVE SentInv'
  <2>1. Current(r) \in Txns /\ row[Current(r)] = "PENDING"
    BY <1>6, UnsentAtHand DEF SendRaises
  <2>2. \A i \in Txns : /\ sent[i] > 0 => sent'[i] > 0
                        /\ sent'[i] > 0 => row[i] \in RowStatus
    BY <1>1, <1>6, <2>1 DEF SendRaises, SentInv, RowStatus
  <2>3. marked[r]["PUBLISHED"] \subseteq Txns
    BY <1>1
  <2> QED
    BY <1>1, <1>3, <1>6, <2>2, <2>3 DEF SendRaises, GoToStep, SentInv
<1>7. ASSUME NEW r \in Relays, NEW s \in {"PUBLISHED", "FAILED"},
             s = "PUBLISHED" => rpc[r] = "mark_published", Mark(r, s)
      PROVE  SentInv'
  <2>1. marked'[r]["PUBLISHED"] = IF s = "PUBLISHED"
                                  THEN marked[r]["PUBLISHED"] \cup {Current(r)}
                                  ELSE marked[r]["PUBLISHED"]
    BY <1>1, <1>7 DEF Mark, DealtWith
  <2>2. \A i \in marked'[r]["PUBLISHED"] : sent[i] > 0
    BY <1>7, <2>1 DEF SentInv
  <2>3. rpc'[r] # "mark_published"
    BY <1>1, <1>7 DEF Mark, GoToStep
  <2> QED
    BY <1>1, <1>3, <1>7, <2>2, <2>3 DEF Mark, GoToStep, SentInv
<1>8. ASSUME NEW r \in Relays, CommitBatch(r) PROVE SentInv'
  <2>1. marked'[r]["PUBLISHED"] = {}
    BY <1>1, <1>8 DEF CommitBatch, NoMarks
  <2>2. \A q \in Relays \ {r} : marked'[q] = marked[q]
    BY <1>1, <1>8 DEF CommitBatch
  <2>3. \A q \in Relays : Current(q)' = Current(q)
    BY <1>8, CurrentIsLeast DEF CommitBatch
  <2>4. \A q \in Relays : rpc'[q] = "mark_published"
                             => rpc[q] = "mark_published"
    BY <1>1, <1>8 DEF CommitBatch, GoToStep
  <2>5. \A i \in Txns : row'[i] = "PUBLISHED" => sent[i] > 0
    BY <1>8 DEF CommitBatch, SentInv, PublishedMeansSent
  <2>6. sent' = sent
    BY <1>8 DEF CommitBatch
  <2> QED
    BY <2>1, <2>2, <2>3, <2>4, <2>5, <2>6
       DEF SentInv, RowsStay, PublishedMeansSent
<1>9. ASSUME NEW r \in Relays, BatchRaises(r) \/ CrashRelay(r)
      PROVE  SentInv'
  <2>1. marked'[r]["PUBLISHED"] = {}
    BY <1>1, <1>9 DEF BatchRaises, CrashRelay, RollBackBatch, NoMarks
  <2>2. rpc'[r] # "mark_published"
    BY <1>1, <1>9 DEF BatchRaises, CrashRelay, GoToStep
  <2>3. row' = row /\ sent' = sent
    BY <1>9 DEF BatchRaises, CrashRelay, RollBackBatch
  <2>4. \A q \in Relays \ {r} : /\ batch'[q] = batch[q]
                                /\ marked'[q] = marked[q]
                                /\ rpc'[q] = rpc[q]
    BY <1>1, <1>9 DEF BatchRaises, CrashRelay, RollBackBatch, GoToStep
  <2> QED
    BY <1>3, <2>1, <2>2, <2>3, <2>4 DEF SentInv
<1>10. ASSUME NEW r \in Relays, LeaveLoop(r) \/ StartRelay(r) \/ StopRelay(r)
       PROVE  SentInv'
  BY <1>1, <1>10, SentUntouched DEF LeaveLoop, StartRelay, StopRelay, GoToStep
<1>11. CASE UNCHANGED outboxVars
  BY <1>11, SentUntouched DEF outboxVars, relayVars
<1> QED
  BY <1>2, <1>4, <1>5, <1>6, <1>7, <1>8, <1>9, <1>10, <1>11
     DEF OutboxNext, RelayStep, MarkPublished, MarkFailed

\* A step that sends nothing and forgets no row that is done.
LEMMA CountUntouched ==
    ASSUME OutboxTypeInv, CountInv, sent' = sent, faults' = faults,
           \A i \in Txns : DoneWith(i) => DoneWith(i)'
    PROVE  CountInv'
<1>1. faults \in Nat /\ \A i \in Txns : sent[i] \in Nat
  BY OutboxConstants DEF OutboxTypeInv, OutboxTypeOK
<1>2. ASSUME NEW i \in Txns
      PROVE  sent'[i] <= faults' + (IF DoneWith(i)' THEN 1 ELSE 0)
  <2>1. sent[i] <= faults + (IF DoneWith(i) THEN 1 ELSE 0)
    BY DEF CountInv
  <2> QED
    BY <1>1, <2>1
<1> QED
  BY <1>2 DEF CountInv

\* A fault allows every row one more send.
LEMMA CountAfterFault ==
    ASSUME OutboxTypeInv, CountInv, faults' = faults + 1,
           \A i \in Txns : \/ sent'[i] = sent[i]
                           \/ sent'[i] = sent[i] + 1 /\ ~DoneWith(i)
    PROVE  CountInv'
<1>1. faults \in Nat /\ \A i \in Txns : sent[i] \in Nat
  BY OutboxConstants DEF OutboxTypeInv, OutboxTypeOK
<1>2. ASSUME NEW i \in Txns
      PROVE  sent'[i] <= faults' + (IF DoneWith(i)' THEN 1 ELSE 0)
  <2>1. sent[i] <= faults + (IF DoneWith(i) THEN 1 ELSE 0)
    BY DEF CountInv
  <2>2. sent'[i] <= faults + 1
    BY <1>1, <2>1
  <2> QED
    BY <1>1, <2>2
<1> QED
  BY <1>2 DEF CountInv

LEMMA CountStep ==
    ASSUME OutboxTypeInv, RowByTxn, LockInv, CountInv, [OutboxNext]_outboxVars
    PROVE  CountInv'
<1>1. /\ batch \in [Relays -> SUBSET Txns]
      /\ marked \in [Relays -> [{"PUBLISHED", "FAILED"} -> SUBSET Txns]]
      /\ rpc \in [Relays -> {"stopped", "loop", "send", "mark_published",
                             "mark_failed", "commit"}]
      /\ row \in [Txns -> RowStatus \cup {"none", "uncommitted"}]
      /\ sent \in [Txns -> Nat]
      /\ faults \in Nat
  BY OutboxConstants DEF OutboxTypeInv, OutboxTypeOK
<1>2. ASSUME NEW i \in Txns, Write(i) \/ CommitTxn(i) \/ RollBackTxn(i)
      PROVE  CountInv'
  <2>1. row[i] \notin {"PUBLISHED", "FAILED"}
    BY <1>2 DEF Write, CommitTxn, RollBackTxn, EndTxn, RowByTxn
  <2>2. \A j \in Txns \ {i} : row'[j] = row[j]
    BY <1>1, <1>2 DEF Write, CommitTxn, RollBackTxn, EndTxn
  <2>3. /\ sent' = sent /\ faults' = faults
        /\ batch' = batch /\ marked' = marked /\ rpc' = rpc
    BY <1>2 DEF Write, CommitTxn, RollBackTxn, EndTxn, relayVars
  <2>4. \A r \in Relays : Current(r)' = Current(r)
    BY <2>3, CurrentIsLeast
  <2>5. \A j \in Txns : DoneWith(j) => DoneWith(j)'
    BY <2>1, <2>2, <2>3, <2>4 DEF DoneWith
  <2> QED
    BY <2>3, <2>5, CountUntouched
\* A step of one relay that is done with at least as many rows as before.
<1>3. ASSUME NEW r \in Relays,
             \A i \in Txns : row[i] \in {"PUBLISHED", "FAILED"}
                                 => row'[i] \in {"PUBLISHED", "FAILED"},
             \A q \in Relays \ {r} : /\ batch'[q] = batch[q]
                                     /\ marked'[q] = marked[q]
                                     /\ rpc'[q] = rpc[q],
             \A i \in Txns :
                 \/ i \in marked[r]["PUBLISHED"] \cup marked[r]["FAILED"]
                 \/ /\ rpc[r] \in {"mark_published", "mark_failed"}
                    /\ i = Current(r)
                 => DoneWith(i)'
      PROVE  \A i \in Txns : DoneWith(i) => DoneWith(i)'
  <2>1. \A q \in Relays \ {r} : Current(q)' = Current(q)
    BY <1>3, CurrentIsLeast
  <2>2. ASSUME NEW i \in Txns, NEW q \in Relays \ {r},
               \/ i \in marked[q]["PUBLISHED"] \cup marked[q]["FAILED"]
               \/ /\ rpc[q] \in {"mark_published", "mark_failed"}
                  /\ i = Current(q)
        PROVE  DoneWith(i)'
    BY <1>3, <2>1, <2>2 DEF DoneWith
  <2>3. ASSUME NEW i \in Txns, row[i] \in {"PUBLISHED", "FAILED"}
        PROVE  DoneWith(i)'
    BY <1>3, <2>3 DEF DoneWith
  <2> QED
    BY <1>3, <2>2, <2>3 DEF DoneWith
<1>4. ASSUME NEW r \in Relays,
             Fetch(r) \/ LeaveLoop(r) \/ StartRelay(r) \/ StopRelay(r)
      PROVE  CountInv'
  <2>1. /\ row' = row /\ sent' = sent /\ faults' = faults
        /\ marked' = marked
    BY <1>4 DEF Fetch, LeaveLoop, StartRelay, StopRelay
  <2>2. \A q \in Relays \ {r} : batch'[q] = batch[q] /\ rpc'[q] = rpc[q]
    BY <1>1, <1>4 DEF Fetch, LeaveLoop, StartRelay, StopRelay, GoToStep
  <2>3. /\ rpc[r] \in {"mark_published", "mark_failed"}
        => rpc'[r] = rpc[r] /\ batch'[r] = batch[r]
    BY <1>4 DEF Fetch, LeaveLoop, StartRelay, StopRelay
  <2>4. \A i \in Txns :
            \/ i \in marked[r]["PUBLISHED"] \cup marked[r]["FAILED"]
            \/ rpc[r] \in {"mark_published", "mark_failed"} /\ i = Current(r)
            => DoneWith(i)'
    BY <2>1, <2>3, CurrentIsLeast DEF DoneWith
  <2>5. \A i \in Txns : DoneWith(i) => DoneWith(i)'
    BY <1>3, <2>1, <2>2, <2>4
  <2> QED
    BY <2>1, <2>5, CountUntouched
<1>5. ASSUME NEW r \in Relays, SendReturns(r) PROVE CountInv'
  <2>1. Current(r) \in Txns /\ ~DoneWith(Current(r))
    BY <1>5, UnsentAtHand DEF SendReturns
  <2>2. /\ sent'[Current(r)] = sent[Current(r)] + 1
        /\ \A i \in Txns \ {Current(r)} : sent'[i] = sent[i]
        /\ faults' = faults
    BY <1>1, <1>5, <2>1 DEF SendReturns
  <2>3. /\ rpc[r] = "send" /\ rpc'[r] = "mark_published"
        /\ row' = row /\ batch' = batch /\ marked' = marked
        /\ \A q \in Relays \ {r} : rpc'[q] = rpc[q]
    BY <1>1, <1>5 DEF SendReturns, GoToStep
  <2>4. \A q \in Relays : Current(q)' = Current(q)
    BY <2>3, CurrentIsLeast
  <2>5. DoneWith(Current(r))'
    BY <2>3, <2>4 DEF DoneWith
  <2>6. \A i \in Txns : DoneWith(i) => DoneWith(i)'
    BY <2>3, <2>4 DEF DoneWith
  <2>7. sent'[Current(r)] <= faults' + 1
    <3>1. sent[Current(r)] <= faults
                                 + (IF DoneWith(Current(r)) THEN 1 ELSE 0)
      BY <2>1 DEF CountInv
    <3>2. sent[Current(r)] \in Nat
      BY <1>1, <2>1
    <3> QED
      BY <1>1, <2>1, <2>2, <3>1, <3>2
  <2>8. ASSUME NEW i \in Txns
        PROVE  sent'[i] <= faults' + (IF DoneWith(i)' THEN 1 ELSE 0)
    <3>1. CASE i = Current(r)
      BY <2>4, <2>5, <2>7, <3>1
    <3>2. CASE i # Current(r)
      <4>1. sent[i] <= faults + (IF DoneWith(i) THEN 1 ELSE 0)
        BY DEF CountInv
      <4> QED
        BY <1>1, <2>2, <2>6, <3>2, <4>1
    <3> QED
      BY <3>1, <3>2
  <2> QED
    BY <2>8 DEF CountInv
<1>6. ASSUME NEW r \in Relays, SendRaises(r) PROVE CountInv'
  <2>1. Current(r) \in Txns /\ ~DoneWith(Current(r))
    BY <1>6, UnsentAtHand DEF SendRaises
  <2>2. \A i \in Txns : \/ sent'[i] = sent[i]
                        \/ sent'[i] = sent[i] + 1 /\ ~DoneWith(i)
    BY <1>1, <1>6, <2>1 DEF SendRaises
  <2> QED
    BY <1>6, <2>2, CountAfterFault DEF SendRaises, Fault
<1>7. ASSUME NEW r \in Relays, NEW s \in {"PUBLISHED", "FAILED"}, Mark(r, s)
      PROVE  CountInv'
  <2>1. /\ marked'[r][s] = marked[r][s] \cup {Current(r)}
        /\ \A u \in {"PUBLISHED", "FAILED"} \ {s} :
               marked'[r][u] = marked[r][u]
    BY <1>1, <1>7 DEF Mark, DealtWith
  <2>2. \A i \in Txns :
            \/ i \in marked[r]["PUBLISHED"] \cup marked[r]["FAILED"]
            \/ rpc[r] \in {"mark_published", "mark_failed"} /\ i = Current(r)
            => DoneWith(i)'
    BY <2>1 DEF DoneWith
  <2>3. /\ row' = row /\ sent' = sent /\ faults' = faults
        /\ \A q \in Relays \ {r} : /\ batch'[q] = batch[q]
                                   /\ marked'[q] = marked[q]
                                   /\ rpc'[q] = rpc[q]
    BY <1>1, <1>7 DEF Mark, GoToStep
  <2>4. \A i \in Txns : DoneWith(i) => DoneWith(i)'
    BY <1>3, <2>2, <2>3
  <2> QED
    BY <2>3, <2>4, CountUntouched
<1>8. ASSUME NEW r \in Relays, CommitBatch(r) PROVE CountInv'
  <2>1. \A i \in Txns : \/ row'[i] \in {"PUBLISHED", "FAILED"}
                        \/ /\ row'[i] = row[i]
                           /\ i \notin marked[r]["PUBLISHED"]
                           /\ i \notin marked[r]["FAILED"]
    BY <1>8 DEF CommitBatch
  <2>2. \A i \in Txns :
            \/ i \in marked[r]["PUBLISHED"] \cup marked[r]["FAILED"]
            \/ rpc[r] \in {"mark_published", "mark_failed"} /\ i = Current(r)
            => DoneWith(i)'
    BY <1>8, <2>1 DEF CommitBatch, DoneWith
  <2>3. /\ sent' = sent /\ faults' = faults
        /\ \A q \in Relays \ {r} : /\ batch'[q] = batch[q]
                                   /\ marked'[q] = marked[q]
                                   /\ rpc'[q] = rpc[q]
    BY <1>1, <1>8 DEF CommitBatch, GoToStep
  <2>4. \A i \in Txns : DoneWith(i) => DoneWith(i)'
    BY <1>3, <2>1, <2>2, <2>3
  <2> QED
    BY <2>3, <2>4, CountUntouched
<1>9. ASSUME NEW r \in Relays, BatchRaises(r) \/ CrashRelay(r)
      PROVE  CountInv'
  BY <1>9, CountAfterFault DEF BatchRaises, CrashRelay, RollBackBatch, Fault
<1>10. CASE UNCHANGED outboxVars
  <2>1. \A q \in Relays : Current(q)' = Current(q)
    BY <1>10, CurrentIsLeast DEF outboxVars, relayVars
  <2>2. \A i \in Txns : DoneWith(i) => DoneWith(i)'
    BY <1>10, <2>1 DEF outboxVars, relayVars, DoneWith
  <2> QED
    BY <1>10, <2>2, CountUntouched DEF outboxVars
<1> QED
  BY <1>2, <1>4, <1>5, <1>6, <1>7, <1>8, <1>9, <1>10
     DEF OutboxNext, RelayStep, MarkPublished, MarkFailed
-----------------------------------------------------------------------------
(***************************************************************************)
(* The invariant and what follows from it                                  *)
(***************************************************************************)
LEMMA OutboxInvInit == OutboxInit => OutboxInv
<1> SUFFICES ASSUME OutboxInit PROVE OutboxInv
  OBVIOUS
<1>1. OutboxTypeInv
  BY OutboxConstants
     DEF OutboxInit, OutboxTypeInv, OutboxTypeOK, BatchByStep, InHand, NoMarks
<1>2. RowByTxn /\ CopyInv
  BY DEF OutboxInit, RowByTxn, CopyInv
<1>3. LockInv
  BY DEF OutboxInit, LockInv, Locked, NoMarks
<1>4. SentInv
  BY DEF OutboxInit, SentInv, PublishedMeansSent, NoMarks
<1>5. CountInv
  BY DEF OutboxInit, CountInv, DoneWith, NoMarks
<1> QED
  BY <1>1, <1>2, <1>3, <1>4, <1>5 DEF OutboxInv

LEMMA OutboxInvStep ==
    ASSUME OutboxInv, [OutboxNext]_outboxVars
    PROVE  OutboxInv'
  BY OutboxTypeStep, RowStep, LockStep, SentStep, CountStep DEF OutboxInv

LEMMA OutboxInvHolds == OutboxSpec => []OutboxInv
  BY OutboxInvInit, OutboxInvStep, PTL DEF OutboxSpec

\* Write() in a business transaction and the relays' rollbacks never leave a
\* committed transaction without its message in the table: a rival whose row
\* made ON CONFLICT DO NOTHING skip the INSERT was committed, and no relay
\* deletes a row.
THEOREM CommittedRowKept == OutboxSpec => []CommittedHasRow
<1>1. OutboxInv => CommittedHasRow
  BY DEF OutboxInv, RowByTxn, CopyInv, CommittedHasRow
<1> QED
  BY <1>1, OutboxInvHolds, PTL

\* A relay that crashes or whose transaction is refused between the send and
\* the commit never leaves a row PUBLISHED that was not sent.
THEOREM PublishedWasSent == OutboxSpec => []PublishedMeansSent
<1>1. OutboxInv => PublishedMeansSent
  BY DEF OutboxInv, SentInv
<1> QED
  BY <1>1, OutboxInvHolds, PTL

\* FOR UPDATE SKIP LOCKED: however many relays run, a row is sent once plus
\* once for each fault.
THEOREM RelaysRepublishOnlyAfterFault ==
    OutboxSpec => []RepublishedOnlyAfterFault
<1>1. ASSUME OutboxInv PROVE RepublishedOnlyAfterFault
  <2>1. faults \in Nat /\ \A i \in Txns : sent[i] \in Nat
    BY <1>1, OutboxConstants DEF OutboxInv, OutboxTypeInv, OutboxTypeOK
  <2>2. ASSUME NEW i \in Txns PROVE sent[i] <= 1 + faults
    <3>1. sent[i] <= faults + (IF DoneWith(i) THEN 1 ELSE 0)
      BY <1>1 DEF OutboxInv, CountInv
    <3> QED
      BY <2>1, <3>1
  <2> QED
    BY <2>2 DEF RepublishedOnlyAfterFault
<1> QED
  BY <1>1, OutboxInvHolds, PTL

-----------------------------------------------------------------------------
(***************************************************************************)
(* The outbox implements its contract                                      *)
(***************************************************************************)
Committed == {i \in Txns : txn[i] = "committed"}
Sent      == {i \in Txns : sent[i] > 0}

\* Every step adds nothing, or one transaction to those committed, or one
\* committed transaction to those sent.
LEMMA OutboxEffect ==
    ASSUME OutboxInv, [OutboxNext]_outboxVars
    PROVE  \/ Committed' = Committed /\ Sent' = Sent
           \/ \E i \in Txns : /\ Committed' = Committed \cup {i}
                               /\ Sent' = Sent
           \/ \E i \in Committed : /\ Sent' = Sent \cup {i}
                                    /\ Committed' = Committed
<1>1. /\ txn \in [Txns -> {"new", "open", "committed", "rolled_back"}]
      /\ sent \in [Txns -> Nat]
  BY DEF OutboxInv, OutboxTypeInv, OutboxTypeOK
<1>2. ASSUME NEW i \in Txns, Write(i) \/ RollBackTxn(i)
      PROVE  Committed' = Committed /\ Sent' = Sent
  BY <1>1, <1>2 DEF Write, RollBackTxn, EndTxn, Committed, Sent
<1>3. ASSUME NEW i \in Txns, CommitTxn(i)
      PROVE  Committed' = Committed \cup {i} /\ Sent' = Sent
  BY <1>1, <1>3 DEF CommitTxn, EndTxn, Committed, Sent
<1>4. ASSUME NEW r \in Relays, rpc[r] = "send"
      PROVE  Current(r) \in Committed
  <2>1. Current(r) \in Txns /\ row[Current(r)] = "PENDING"
    BY <1>4, UnsentAtHand DEF OutboxInv
  <2> QED
    BY <1>1, <2>1 DEF OutboxInv, RowByTxn, Committed
<1>5. ASSUME NEW r \in Relays, SendReturns(r) \/ SendRaises(r)
      PROVE  /\ Committed' = Committed
             /\ Sent' = Sent \/ Sent' = Sent \cup {Current(r)}
             /\ Current(r) \in Committed
  <2>1. Current(r) \in Committed /\ Current(r) \in Txns
    BY <1>4, <1>5 DEF SendReturns, SendRaises, Committed
  <2>2. /\ txn' = txn
        /\ sent' = sent \/ sent' = [sent EXCEPT ![Current(r)] = @ + 1]
    BY <1>5 DEF SendReturns, SendRaises
  <2>3. ASSUME sent' = [sent EXCEPT ![Current(r)] = @ + 1]
        PROVE  Sent' = Sent \cup {Current(r)}
    BY <1>1, <2>1, <2>3 DEF Sent
  <2> QED
    BY <2>1, <2>2, <2>3 DEF Committed, Sent
<1>6. ASSUME NEW r \in Relays,
             \/ Fetch(r) \/ LeaveLoop(r) \/ MarkPublished(r) \/ MarkFailed(r)
             \/ CommitBatch(r) \/ StartRelay(r) \/ StopRelay(r)
             \/ BatchRaises(r) \/ CrashRelay(r)
      PROVE  Committed' = Committed /\ Sent' = Sent
  <2>1. txn' = txn /\ sent' = sent
    BY <1>6 DEF Fetch, LeaveLoop, MarkPublished, MarkFailed, Mark, CommitBatch,
                StartRelay, StopRelay, BatchRaises, CrashRelay, RollBackBatch
  <2> QED
    BY <2>1 DEF Committed, Sent
<1>7. CASE UNCHANGED outboxVars
  BY <1>7 DEF outboxVars, Committed, Sent
<1> QED
  BY <1>2, <1>3, <1>5, <1>6, <1>7 DEF OutboxNext, RelayStep

\* The step of the outbox is a step of the contract, or none.
LEMMA OutboxContractStep ==
    ASSUME OutboxInv, [OutboxNext]_outboxVars
    PROVE  [Contract!OutboxContractNext]_(Contract!outboxContractVars)
<1> DEFINE recorded  == {Message[i] : i \in {j \in Txns : txn[j] = "committed"}}
           announced == {Message[i] : i \in {j \in Txns : sent[j] > 0}}
<1>1. /\ recorded = {Message[i] : i \in Committed}
      /\ recorded' = {Message[i] : i \in Committed'}
      /\ announced = {Message[i] : i \in Sent}
      /\ announced' = {Message[i] : i \in Sent'}
      /\ Messages = {Message[i] : i \in Txns}
      /\ Committed \subseteq Txns
  BY DEF Committed, Sent, Messages
<1>2. \/ UNCHANGED <<recorded, announced>>
      \/ \E m \in Messages : recorded' = recorded \cup {m} /\ UNCHANGED announced
      \/ \E m \in Messages : /\ m \in recorded
                             /\ announced' = announced \cup {m}
                             /\ UNCHANGED recorded
  <2> HIDE DEF recorded, announced
  <2>1. CASE Committed' = Committed /\ Sent' = Sent
    BY <1>1, <2>1
  <2>2. ASSUME NEW i \in Txns, Committed' = Committed \cup {i}, Sent' = Sent
        PROVE  /\ recorded' = recorded \cup {Message[i]}
               /\ announced' = announced
               /\ Message[i] \in Messages
    BY <1>1, <2>2
  <2>3. ASSUME NEW i \in Committed, Sent' = Sent \cup {i},
               Committed' = Committed
        PROVE  /\ Message[i] \in recorded
               /\ announced' = announced \cup {Message[i]}
               /\ recorded' = recorded
               /\ Message[i] \in Messages
    BY <1>1, <2>3
  <2> QED
    BY <2>1, <2>2, <2>3, OutboxEffect
<1> QED
  BY <1>2 DEF Contract!OutboxContractNext, Contract!outboxContractVars,
              Contract!Record, Contract!Announce

\* Nothing reaches Kafka whose transaction was not committed: the outbox, with
\* its relays, their crashes, refused statements and failed sends, implements
\* the contract of src/README.md.
THEOREM OutboxImplementsContract == OutboxSpec => ImplementsOutboxContract
<1>1. OutboxInit => Contract!OutboxContractInit
  BY DEF OutboxInit, Contract!OutboxContractInit
<1> QED
  BY <1>1, OutboxInvHolds, OutboxContractStep, PTL
     DEF OutboxSpec, ImplementsOutboxContract, Contract!OutboxContractSpec
=============================================================================
