------------------------------- MODULE Outbox -------------------------------
(***************************************************************************)
(* The transactional outbox (src/src/idempotency/outbox.py, its table in   *)
(* src/scripts/init_db.sql): business transactions that write a row each,  *)
(* and relays that publish the rows to Kafka.                              *)
(*                                                                         *)
(* A transaction is numbered by the id its INSERT draws from the sequence  *)
(* of the table.  Ids are drawn outside the transactions, so the rows may  *)
(* appear and be committed in any order.  A relay works inside one         *)
(* transaction of its own per batch: the rows it fetched are locked, and   *)
(* what it writes about them is seen by nobody before it commits:          *)
(*                                                                         *)
(*   loop -> send -> mark_published -> ... -> commit -> loop               *)
(*             \---> mark_failed ------/                                   *)
(***************************************************************************)
EXTENDS Integers, FiniteSets

CONSTANTS NumTxns,       \* business transactions
          Message,       \* Message[i]: the message_id transaction i writes
          Relays,        \* running OutboxRelay instances
          BatchSize,     \* batch_size
          SendMayFail,   \* send_and_wait() may raise
          MaxFaults,     \* bound of the model: failures of any kind
          MaxStops       \* bound of the model: calls of stop()

Txns == 1 .. NumTxns

ASSUME OutboxAssumption ==
    /\ {NumTxns, MaxFaults, MaxStops} \subseteq Nat
    /\ DOMAIN Message = Txns
    /\ BatchSize \in Nat \ {0}
    /\ SendMayFail \in BOOLEAN

VARIABLES
    txn,       \* txn[i]: business transaction i
    row,       \* row[i]: the outbox row with id i
    rpc,       \* rpc[r]: where the loop of relay r stands
    running,   \* running[r]: the flag _running
    batch,     \* batch[r]: rows fetched and not yet dealt with
    marked,    \* marked[r][s]: rows set to s in the open transaction of r
    sent,      \* sent[i]: how often row i reached Kafka
    faults, stops

relayVars == <<rpc, running, batch, marked>>
outboxVars == <<txn, row, relayVars, sent, faults, stops>>

RowStatus == {"PENDING", "PUBLISHED", "FAILED"}
NoMarks   == [s \in {"PUBLISHED", "FAILED"} |-> {}]

OutboxTypeOK ==
    /\ txn \in [Txns -> {"new", "open", "committed", "rolled_back"}]
    /\ row \in [Txns -> RowStatus \cup {"none", "uncommitted"}]
    /\ rpc \in [Relays -> {"stopped", "loop", "send", "mark_published",
                           "mark_failed", "commit"}]
    /\ running \in [Relays -> BOOLEAN]
    /\ batch \in [Relays -> SUBSET Txns]
    /\ marked \in [Relays -> [{"PUBLISHED", "FAILED"} -> SUBSET Txns]]
    /\ sent \in [Txns -> Nat]
    /\ faults \in 0 .. MaxFaults
    /\ stops \in 0 .. MaxStops

OutboxInit ==
    /\ txn = [i \in Txns |-> "new"]
    /\ row = [i \in Txns |-> "none"]
    /\ rpc = [r \in Relays |-> "stopped"]
    /\ running = [r \in Relays |-> FALSE]
    /\ batch = [r \in Relays |-> {}]
    /\ marked = [r \in Relays |-> NoMarks]
    /\ sent = [i \in Txns |-> 0]
    /\ faults = 0
    /\ stops = 0

-----------------------------------------------------------------------------
(***************************************************************************)
(* Business transactions                                                   *)
(***************************************************************************)
\* idx_outbox_message_id: the transactions whose rows would collide with i's.
Rivals(i) == {j \in Txns : j # i /\ Message[j] = Message[i]}

\* Mutant: an INSERT that does not wait for the rival's transaction to end.
ConflictIgnored(i) == TRUE

\* On a conflict with a row of an open transaction Postgres waits for its
\* outcome.
ConflictSettled(i) == \A j \in Rivals(i) : row[j] # "uncommitted"

\* Mutant: the row is written on a connection outside the transaction.
InsertedAtOnce(i) ==
    IF \A j \in Rivals(i) : row[j] = "none" THEN "PENDING" ELSE "none"

\* ON CONFLICT (message_id) DO NOTHING.
Inserted(i) ==
    IF \A j \in Rivals(i) : row[j] = "none" THEN "uncommitted" ELSE "none"

\* OutboxWriter.write() in a business transaction.
Write(i) ==
    /\ txn[i] = "new"
    /\ ConflictSettled(i)
    /\ txn' = [txn EXCEPT ![i] = "open"]
    /\ row' = [row EXCEPT ![i] = Inserted(i)]
    /\ UNCHANGED <<relayVars, sent, faults, stops>>

\* The caller's transaction ends one way or the other.
EndTxn(i, outcome, status) ==
    /\ txn[i] = "open"
    /\ txn' = [txn EXCEPT ![i] = outcome]
    /\ row' = [row EXCEPT ![i] = IF @ = "uncommitted" THEN status ELSE @]
    /\ UNCHANGED <<relayVars, sent, faults, stops>>

\* Mutant: the row gets a status the schema does not know.
CommitTxnOtherStatus(i) == EndTxn(i, "committed", "NEW")

CommitTxn(i) == EndTxn(i, "committed", "PENDING")

RollBackTxn(i) == EndTxn(i, "rolled_back", "none")

-----------------------------------------------------------------------------
(***************************************************************************)
(* The relay                                                               *)
(***************************************************************************)
GoToStep(r, label) == rpc' = [rpc EXCEPT ![r] = label]

\* Rows locked by the open transaction of r.
Locked(r) == batch[r] \cup marked[r]["PUBLISHED"] \cup marked[r]["FAILED"]

\* The rows with the n lowest ids of S: ORDER BY id LIMIT n.
Lowest(S, n) == {i \in S : Cardinality({j \in S : j < i}) < n}

StartRelay(r) ==
    /\ rpc[r] = "stopped"
    /\ running' = [running EXCEPT ![r] = TRUE]
    /\ GoToStep(r, "loop")
    /\ UNCHANGED <<txn, row, batch, marked, sent, faults, stops>>

\* stop() only lowers the flag; the loop looks at it between batches.
StopRelay(r) ==
    /\ running[r]
    /\ stops < MaxStops
    /\ stops' = stops + 1
    /\ running' = [running EXCEPT ![r] = FALSE]
    /\ UNCHANGED <<txn, row, rpc, batch, marked, sent, faults>>

LeaveLoop(r) ==
    /\ rpc[r] = "loop"
    /\ ~running[r]
    /\ GoToStep(r, "stopped")
    /\ UNCHANGED <<txn, row, running, batch, marked, sent, faults, stops>>

Pending == {i \in Txns : row[i] = "PENDING"}

\* Mutant: no FOR UPDATE SKIP LOCKED.
FetchableWithLocked == Pending

Fetchable == Pending \ UNION {Locked(r) : r \in Relays}

\* _FETCH_SQL.  A batch without rows is followed by a pause.
Fetch(r) ==
    /\ rpc[r] = "loop"
    /\ running[r]
    /\ batch' = [batch EXCEPT ![r] = Lowest(Fetchable, BatchSize)]
    /\ GoToStep(r, IF Fetchable = {} THEN "loop" ELSE "send")
    /\ UNCHANGED <<txn, row, running, marked, sent, faults, stops>>

\* The row at hand.
Current(r) == CHOOSE i \in batch[r] : \A j \in batch[r] : i <= j

Fault == faults < MaxFaults /\ faults' = faults + 1

SendReturns(r) ==
    /\ rpc[r] = "send"
    /\ sent' = [sent EXCEPT ![Current(r)] = @ + 1]
    /\ GoToStep(r, "mark_published")
    /\ UNCHANGED <<txn, row, running, batch, marked, faults, stops>>

\* Mutant: the failure is logged and the row treated as published.
SendRaisesSwallowed(r) ==
    /\ SendMayFail
    /\ rpc[r] = "send"
    /\ Fault
    /\ GoToStep(r, "mark_published")
    /\ UNCHANGED <<txn, row, running, batch, marked, sent, stops>>

\* send_and_wait() raises; the broker may have the message all the same.
SendRaises(r) ==
    /\ SendMayFail
    /\ rpc[r] = "send"
    /\ Fault
    /\ sent' \in {sent, [sent EXCEPT ![Current(r)] = @ + 1]}
    /\ GoToStep(r, "mark_failed")
    /\ UNCHANGED <<txn, row, running, batch, marked, stops>>

\* Mutant: one UPDATE for the whole batch after the first send.
DealtWithAll(r) == batch[r]

DealtWith(r) == {Current(r)}

\* _MARK_PUBLISHED_SQL or _MARK_FAILED_SQL for the row at hand, and on to the
\* next one.
Mark(r, s) ==
    /\ marked' = [marked EXCEPT ![r][s] = @ \cup DealtWith(r)]
    /\ batch' = [batch EXCEPT ![r] = @ \ DealtWith(r)]
    /\ GoToStep(r, IF batch[r] = DealtWith(r) THEN "commit" ELSE "send")
    /\ UNCHANGED <<txn, row, running, sent, faults, stops>>

MarkPublished(r) == rpc[r] = "mark_published" /\ Mark(r, "PUBLISHED")

MarkFailed(r) == rpc[r] = "mark_failed" /\ Mark(r, "FAILED")

\* The transaction of the batch ends: its marks become visible.
CommitBatch(r) ==
    /\ rpc[r] = "commit"
    /\ row' = [i \in Txns |->
                  IF i \in marked[r]["PUBLISHED"] THEN "PUBLISHED"
                  ELSE IF i \in marked[r]["FAILED"] THEN "FAILED" ELSE row[i]]
    /\ marked' = [marked EXCEPT ![r] = NoMarks]
    /\ GoToStep(r, "loop")
    /\ UNCHANGED <<txn, running, batch, sent, faults, stops>>

\* The transaction of the batch is lost, and with it locks and marks.
RollBackBatch(r) ==
    /\ Fault
    /\ batch' = [batch EXCEPT ![r] = {}]
    /\ marked' = [marked EXCEPT ![r] = NoMarks]
    /\ UNCHANGED <<txn, row, sent, stops>>

\* A statement fails: the aborted transaction refuses _MARK_FAILED_SQL too, so
\* the exception leaves _process_batch and _loop goes on after a pause.
BatchRaises(r) ==
    /\ rpc[r] \in {"mark_published", "mark_failed", "commit"}
    /\ RollBackBatch(r)
    /\ GoToStep(r, "loop")
    /\ UNCHANGED running

\* The relay is cancelled or dies with its process.
CrashRelay(r) ==
    /\ rpc[r] # "stopped"
    /\ RollBackBatch(r)
    /\ GoToStep(r, "stopped")
    /\ running' = [running EXCEPT ![r] = FALSE]

RelayStep(r) ==
    \/ Fetch(r)
    \/ LeaveLoop(r)
    \/ SendReturns(r)
    \/ SendRaises(r)
    \/ MarkPublished(r)
    \/ MarkFailed(r)
    \/ CommitBatch(r)

OutboxNext ==
    \/ \E i \in Txns : Write(i) \/ CommitTxn(i) \/ RollBackTxn(i)
    \/ \E r \in Relays : \/ RelayStep(r) \/ StartRelay(r) \/ StopRelay(r)
                         \/ BatchRaises(r) \/ CrashRelay(r)

OutboxSpec == OutboxInit /\ [][OutboxNext]_outboxVars

\* The loop goes on whenever it can, and a relay that ended is started again.
OutboxFairness ==
    \A r \in Relays :
        WF_outboxVars(RelayStep(r)) /\ WF_outboxVars(StartRelay(r))

OutboxFairSpec == OutboxSpec /\ OutboxFairness

-----------------------------------------------------------------------------
(***************************************************************************)
(* Properties                                                              *)
(***************************************************************************)
Messages == {Message[i] : i \in Txns}

Contract == INSTANCE OutboxContract
    WITH recorded  <- {Message[i] : i \in {j \in Txns : txn[j] = "committed"}},
         announced <- {Message[i] : i \in {j \in Txns : sent[j] > 0}}

\* Nothing reaches Kafka whose transaction was not committed: the outbox
\* implements the contract, with several relays, crashes and rollbacks.
ImplementsOutboxContract == Contract!OutboxContractSpec

\* A committed transaction has its message in the table, as its own row or as
\* the row of a rival with the same message_id that was committed before it.
CommittedHasRow ==
    \A i \in Txns : txn[i] = "committed" =>
        \E j \in Rivals(i) \cup {i} : row[j] \in RowStatus

\* A row is PUBLISHED only if Kafka has the message.
PublishedMeansSent == \A i \in Txns : row[i] = "PUBLISHED" => sent[i] > 0

\* A row is published once, plus once for each fault: concurrent relays alone
\* never publish it twice.
RepublishedOnlyAfterFault == \A i \in Txns : sent[i] <= 1 + faults

\* The message of a committed transaction reaches Kafka, unless a send of it
\* raised and its row is FAILED: nothing else keeps it back.
CommittedIsSettled ==
    \A i \in Txns : txn[i] = "committed" ~>
        \E j \in Rivals(i) \cup {i} : sent[j] > 0 \/ row[j] = "FAILED"

\* The message of a committed transaction reaches Kafka.
CommittedIsSent ==
    \A i \in Txns : txn[i] = "committed" ~>
        \E j \in Rivals(i) \cup {i} : sent[j] > 0
=============================================================================
