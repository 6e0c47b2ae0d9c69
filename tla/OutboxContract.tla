--------------------------- MODULE OutboxContract ---------------------------
(***************************************************************************)
(* What the transactional outbox promises (src/README.md, "Transactional   *)
(* outbox"): a message is published only if the database transaction that  *)
(* recorded it was committed.  A committed transaction cannot be undone and*)
(* a publish cannot be taken back.                                         *)
(***************************************************************************)
CONSTANTS Messages

VARIABLES recorded,    \* messages whose transaction was committed
          announced    \* messages that reached Kafka

OutboxContractInit == recorded = {} /\ announced = {}

Record(m) ==
    /\ recorded' = recorded \cup {m}
    /\ UNCHANGED announced

Announce(m) ==
    /\ m \in recorded
    /\ announced' = announced \cup {m}
    /\ UNCHANGED recorded

OutboxContractNext == \E m \in Messages : Record(m) \/ Announce(m)

outboxContractVars == <<recorded, announced>>

OutboxContractSpec ==
    OutboxContractInit /\ [][OutboxContractNext]_outboxContractVars
=============================================================================
