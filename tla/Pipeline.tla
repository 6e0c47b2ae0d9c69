------------------------------ MODULE Pipeline ------------------------------
(***************************************************************************)
(* The outbox in front of the consumer group: what a business transaction  *)
(* recorded is published by a relay and handled by a consumer.             *)
(*                                                                         *)
(* A relay publishes a row with its message_id as the Kafka key and without*)
(* headers, so all copies of row i fall into one partition, here named i,  *)
(* and the consumer finds an id only if the payload has one.               *)
(***************************************************************************)
EXTENDS DedupConsumer

CONSTANTS NumTxns, Message, Relays, BatchSize, SendMayFail, MaxFaults,
          MaxStops,
          PayloadId   \* PayloadId[i]: the id in the payload of row i, or NoId

VARIABLES txn, row, rpc, running, batch, marked, sent, faults, stops

Box == INSTANCE Outbox

\* The topic as the relays can fill it: one publish, and one more per fault.
TopicLog ==
    [i \in 1 .. NumTxns |-> [n \in 1 .. MaxFaults + 1 |-> PayloadId[i]]]

\* Every partition of the model is a row, and its log is what the topic can
\* hold of it.
ASSUME PipelineAssumption ==
    /\ {NumTxns, MaxFaults, MaxStops} \subseteq Nat
    /\ DOMAIN Message = Box!Txns
    /\ BatchSize \in Nat \ {0}
    /\ SendMayFail \in BOOLEAN
    /\ PayloadId \in [Box!Txns -> Keys \cup {NoId}]
    /\ Partitions = Box!Txns
    /\ Log = TopicLog

boxVars == <<txn, row, rpc, running, batch, marked, sent, faults, stops>>

pipelineVars == <<vars, boxVars>>

PipelineInit == Init /\ Box!OutboxInit

\* A consumer is handed only what has been published.
OnlyPublished == \A i \in Partitions : pos'[i] <= sent[i] + 1

ConsumerNext == Next /\ OnlyPublished /\ UNCHANGED boxVars

RelayNext == Box!OutboxNext /\ UNCHANGED vars

PipelineNext == ConsumerNext \/ RelayNext

PipelineSpec == PipelineInit /\ [][PipelineNext]_pipelineVars

\* The fairness of the two components.
PipelineFairSpec ==
    /\ PipelineSpec
    /\ \A r \in Relays :
          /\ WF_pipelineVars(Box!RelayStep(r) /\ UNCHANGED vars)
          /\ WF_pipelineVars(Box!StartRelay(r) /\ UNCHANGED vars)
    /\ \A c \in Consumers :
          /\ WF_pipelineVars(Step(c) /\ OnlyPublished
                                     /\ UNCHANGED boxVars)
          /\ WF_pipelineVars(Start(c) /\ UNCHANGED boxVars)
    /\ \A p \in Partitions :
          WF_pipelineVars(\E c \in Consumers :
              /\ owner[p] = NoOwner
              /\ Assign(p, c)
              /\ UNCHANGED boxVars)

-----------------------------------------------------------------------------
(***************************************************************************)
(* Properties                                                              *)
(***************************************************************************)

\* The copies of row i that were handled.
HandledCopies(i) == {q \in handled : q[1] = i}

\* Nothing is handled or dead-lettered that no committed transaction recorded.
HandledMeansCommitted ==
    \A q \in handled \cup dlq : txn[q[1]] = "committed"

\* A row with an id in its payload is handled through one of its copies only,
\* however often the relay published it: the consumer absorbs the duplicates.
IdentifiedRowHandledOnce ==
    \A i \in Partitions :
        /\ PayloadId[i] # NoId
        /\ unrecorded[PayloadId[i]] = 0
        => Cardinality(HandledCopies(i)) <= 1

\* Row i was given up: a send of it raised and _FETCH_SQL will not find it
\* again, or the claim on its id died with a consumer.
GivenUp(i) == row[i] = "FAILED" \/ PayloadId[i] \in abandoned

\* What a committed transaction wrote is eventually handled or, if there is a
\* dead-letter topic, dead-lettered, unless it was given up in one of these two
\* ways: nothing else between the INSERT and the handler loses it.
CommittedIsResolved ==
    HasDlq => \A i \in Partitions :
        row[i] = "PENDING" ~> \/ \E q \in handled \cup dlq : q[1] = i
                              \/ GivenUp(i)
=============================================================================
