--------------------------- MODULE DedupConsumer ---------------------------
(***************************************************************************)
(* A group of DedupConsumer processes (src/src/consumer/dedup_consumer.py) *)
(* that share one Redis store and the partitions of their topics.          *)
(*                                                                         *)
(* A consumer is a coroutine: it may be overtaken by the others, by the    *)
(* clock, by a rebalance or by its own death at every await.  pc[c] names  *)
(* the await it has reached:                                               *)
(*                                                                         *)
(*   down -> poll -> claim -> handle -> mark_completed -> commit -> poll   *)
(*                     |        |^                          ^              *)
(*                     |        v|                          |              *)
(*                     |   mark_failed -> backoff -> dlq ---+              *)
(*                     +------------- not claimed ----------+              *)
(*                                                                         *)
(* The consumer and its store each have a DeduplicationConfig: MaxRetries  *)
(* is the store's, CallerRetries the consumer's.  __main__.py builds both  *)
(* from one.                                                               *)
(***************************************************************************)
EXTENDS RedisStore, Sequences

CONSTANTS Consumers,      \* processes of one consumer group
          Partitions,     \* Kafka partitions
          Log,            \* Log[p]: the message ids of partition p, in order
          NoId,           \* a message that carries no id
          Undecodable,    \* a message whose id header is not UTF-8
          CallerRetries,  \* max_retries of the consumer's configuration
          NoOwner,        \* a partition assigned to nobody
          HasDlq,         \* dlq_topic is set
          StoreMayFail,   \* mark_completed() may raise
          SlowHandlers,   \* handle() may take longer than the lease
          MaxAborts,      \* bound of the model: deaths of consumers
          MaxRebalances   \* bound of the model: partitions taken from a
                          \* live consumer

ASSUME ConsumerAssumption ==
    /\ {NoId, Undecodable} \cap Keys = {}
    /\ NoId # Undecodable
    /\ NoOwner \notin Consumers
    /\ IsFiniteSet(Partitions)
    /\ Log \in [Partitions -> Seq(Keys \cup {NoId, Undecodable})]
    /\ CallerRetries \in Nat
    /\ {HasDlq, StoreMayFail, SlowHandlers} \subseteq BOOLEAN
    /\ MaxAborts \in Nat
    /\ MaxRebalances \in Nat

\* A record of the log, by partition and offset (offsets start at 1).
Positions == UNION {{p} \X (1 .. Len(Log[p])) : p \in Partitions}

NoPos == <<NoOwner, 0>>

\* _extract_message_id(): what the header or the payload says, or None, or
\* an exception.
Id(q) == Log[q[1]][q[2]]

VARIABLES
    pc,           \* pc[c]: where the coroutine of c stands
    cur,          \* cur[c]: the record c is processing, or NoPos
    attempts,     \* attempts[c]: the local counter of _execute_and_commit
    grant,        \* grant[c]: ticks left of the lease c was given
    owner,        \* owner[p]: the consumer partition p is assigned to
    pos,          \* pos[p]: the next offset the owner of p will be handed
    committed,    \* committed[p]: the group's committed offset
    dlq,          \* the records sent to the dead-letter topic
    handled,      \* the records whose handle() returned
    effects,      \* effects[k]: how often handle() returned for id k
    failures,     \* failures[k]: how often handle() raised for id k
    unrecorded,   \* unrecorded[k]: returns no COMPLETED was written for
    abandoned,    \* ids whose claim died with its consumer
    aborts, rebalances

procVars   == <<pc, cur, attempts, grant>>
kafkaVars  == <<owner, pos, committed>>
ledgerVars == <<dlq, handled, effects, failures, unrecorded, abandoned>>
faultVars  == <<aborts, rebalances>>

vars == <<storeVars, procVars, kafkaVars, ledgerVars, faultVars>>

Idle    == {"down", "poll"}
Working == {"handle", "mark_failed", "mark_completed"}
PCs     == Idle \cup Working \cup {"claim", "backoff", "dlq", "commit"}

ConsumerTypeOK ==
    /\ StoreTypeOK
    /\ pc \in [Consumers -> PCs]
    /\ cur \in [Consumers -> Positions \cup {NoPos}]
    /\ attempts \in [Consumers -> 0 .. CallerRetries + 1]
    /\ grant \in [Consumers -> 0 .. LeaseTicks]
    /\ owner \in [Partitions -> Consumers \cup {NoOwner}]
    /\ pos \in [Partitions -> Nat \ {0}]
    /\ committed \in [Partitions -> Nat \ {0}]
    /\ dlq \subseteq Positions
    /\ handled \subseteq Positions
    /\ effects \in [Keys -> Nat]
    /\ failures \in [Keys -> Nat]
    /\ unrecorded \in [Keys -> Nat]
    /\ abandoned \subseteq Keys
    /\ aborts \in 0 .. MaxAborts
    /\ rebalances \in 0 .. MaxRebalances

Init ==
    /\ StoreInit
    /\ pc = [c \in Consumers |-> "down"]
    /\ cur = [c \in Consumers |-> NoPos]
    /\ attempts = [c \in Consumers |-> 0]
    /\ grant = [c \in Consumers |-> 0]
    /\ owner = [p \in Partitions |-> NoOwner]
    /\ pos = [p \in Partitions |-> 1]
    /\ committed = [p \in Partitions |-> 1]
    /\ dlq = {}
    /\ handled = {}
    /\ effects = [k \in Keys |-> 0]
    /\ failures = [k \in Keys |-> 0]
    /\ unrecorded = [k \in Keys |-> 0]
    /\ abandoned = {}
    /\ aborts = 0
    /\ rebalances = 0

-----------------------------------------------------------------------------
(***************************************************************************)
(* The consumer and the group coordinator                                  *)
(***************************************************************************)
GoTo(c, label) == pc' = [pc EXCEPT ![c] = label]

HasId(c) == Id(cur[c]) # NoId

Start(c) ==
    /\ pc[c] = "down"
    /\ GoTo(c, "poll")
    /\ UNCHANGED <<storeVars, cur, attempts, grant, kafkaVars, ledgerVars,
                   faultVars>>

\* The group coordinator hands p to c.  Taking it from a live consumer (or
\* revoking it and giving it back) does not interrupt what that consumer is
\* doing; the position restarts at the committed offset.
Assign(p, c) ==
    /\ pc[c] # "down"
    /\ \/ owner[p] = NoOwner /\ UNCHANGED rebalances
       \/ /\ owner[p] # NoOwner
          /\ rebalances < MaxRebalances
          /\ rebalances' = rebalances + 1
    /\ owner' = [owner EXCEPT ![p] = c]
    /\ pos' = [pos EXCEPT ![p] = committed[p]]
    /\ UNCHANGED <<storeVars, procVars, committed, ledgerVars, aborts>>

\* The while loop of _execute_and_commit: entered unless max_retries is 0.
LoopHead == IF CallerRetries >= 1 THEN "handle" ELSE "dlq"

\* The async for of run() yields the record of p at its position.
Delivered(c, p) ==
    /\ pc[c] = "poll"
    /\ owner[p] = c
    /\ pos[p] <= Len(Log[p])

\* Mutant: enable_auto_commit left on, the offset is committed on delivery.
ReceiveAutoCommit(c, p) ==
    /\ Delivered(c, p)
    /\ Id(<<p, pos[p]>>) # Undecodable
    /\ cur' = [cur EXCEPT ![c] = <<p, pos[p]>>]
    /\ pos' = [pos EXCEPT ![p] = @ + 1]
    /\ committed' = [committed EXCEPT ![p] = pos[p] + 1]
    /\ attempts' = [attempts EXCEPT ![c] = 1]
    /\ GoTo(c, IF Id(<<p, pos[p]>>) = NoId THEN LoopHead ELSE "claim")
    /\ UNCHANGED <<storeVars, grant, owner, ledgerVars, faultVars>>

\* run() is handed the next record of one of its partitions.  A record
\* without an id goes straight to _execute_and_commit.
Receive(c, p) ==
    /\ Delivered(c, p)
    /\ Id(<<p, pos[p]>>) # Undecodable
    /\ cur' = [cur EXCEPT ![c] = <<p, pos[p]>>]
    /\ pos' = [pos EXCEPT ![p] = @ + 1]
    /\ attempts' = [attempts EXCEPT ![c] = 1]
    /\ GoTo(c, IF Id(<<p, pos[p]>>) = NoId THEN LoopHead ELSE "claim")
    /\ UNCHANGED <<storeVars, grant, owner, committed, ledgerVars, faultVars>>

\* The process of c ends: its partitions wait for another member, which will
\* start from the committed offsets.
Leave(c) ==
    /\ owner' = [p \in Partitions |-> IF owner[p] = c THEN NoOwner
                                                      ELSE owner[p]]
    /\ pos' = [p \in Partitions |-> IF owner[p] = c THEN committed[p]
                                                    ELSE pos[p]]
    /\ cur' = [cur EXCEPT ![c] = NoPos]
    /\ attempts' = [attempts EXCEPT ![c] = 0]
    /\ grant' = [grant EXCEPT ![c] = 0]
    /\ GoTo(c, "down")
    /\ UNCHANGED <<storeVars, committed, dlq, handled, effects, failures,
                   rebalances>>

\* value.decode() of a header that is not UTF-8 raises outside every try.
ReceiveUndecodable(c, p) ==
    /\ Delivered(c, p)
    /\ Id(<<p, pos[p]>>) = Undecodable
    /\ Leave(c)
    /\ UNCHANGED <<unrecorded, abandoned, aborts>>

\* Step 3 of _process_record, won.
ClaimWon(c) ==
    /\ pc[c] = "claim"
    /\ Claim(Id(cur[c]))
    /\ grant' = [grant EXCEPT ![c] = LeaseTicks]
    /\ GoTo(c, LoopHead)
    /\ UNCHANGED <<cur, attempts, kafkaVars, ledgerVars, faultVars>>

\* Mutant: a consumer that loses the claim waits for it instead of skipping.
ClaimLostWaiting(c) ==
    /\ pc[c] = "claim"
    /\ ~Claimable(Id(cur[c]))
    /\ UNCHANGED vars

\* Mutant: a skipped duplicate is left for a later commit to cover.
ClaimLostWithoutCommit(c) ==
    /\ pc[c] = "claim"
    /\ ~Claimable(Id(cur[c]))
    /\ cur' = [cur EXCEPT ![c] = NoPos]
    /\ attempts' = [attempts EXCEPT ![c] = 0]
    /\ GoTo(c, "poll")
    /\ UNCHANGED <<storeVars, grant, kafkaVars, ledgerVars, faultVars>>

\* Step 3, lost: whatever get_status() then finds only chooses the counter
\* to increment, and the offset is committed.
ClaimLost(c) ==
    /\ pc[c] = "claim"
    /\ ~Claimable(Id(cur[c]))
    /\ GoTo(c, "commit")
    /\ UNCHANGED <<storeVars, cur, attempts, grant, kafkaVars, ledgerVars,
                   faultVars>>

HandleReturns(c) ==
    /\ pc[c] = "handle"
    /\ handled' = handled \cup {cur[c]}
    /\ effects' = IF HasId(c) THEN [effects EXCEPT ![Id(cur[c])] = @ + 1]
                              ELSE effects
    /\ GoTo(c, IF HasId(c) THEN "mark_completed" ELSE "commit")
    /\ UNCHANGED <<storeVars, cur, attempts, grant, kafkaVars, dlq, failures,
                   unrecorded, abandoned, faultVars>>

\* Mutant: max_retries is not consulted before the backoff.
AfterFailureUnlimited(c) == "backoff"

AfterFailure(c) == IF attempts[c] < CallerRetries THEN "backoff" ELSE "dlq"

HandleRaises(c) ==
    /\ pc[c] = "handle"
    /\ failures' = IF HasId(c) THEN [failures EXCEPT ![Id(cur[c])] = @ + 1]
                               ELSE failures
    /\ GoTo(c, IF HasId(c) THEN "mark_failed" ELSE AfterFailure(c))
    /\ UNCHANGED <<storeVars, cur, attempts, grant, kafkaVars, dlq, handled,
                   effects, unrecorded, abandoned, faultVars>>

\* mark_failed() with the consumer's own count.  The text may be empty.
RecordFailure(c) ==
    /\ pc[c] = "mark_failed"
    /\ \E text \in ErrorTexts : MarkFailed(Id(cur[c]), text, attempts[c])
    /\ grant' = [grant EXCEPT ![c] = 0]
    /\ GoTo(c, AfterFailure(c))
    /\ UNCHANGED <<cur, attempts, kafkaVars, ledgerVars, faultVars>>

\* Mutant: the next attempt runs without claiming the message again.
RetryWithoutClaim(c) ==
    /\ pc[c] = "backoff"
    /\ attempts' = [attempts EXCEPT ![c] = @ + 1]
    /\ grant' = [grant EXCEPT ![c] = LeaseTicks]
    /\ GoTo(c, "handle")
    /\ UNCHANGED <<storeVars, cur, kafkaVars, ledgerVars, faultVars>>

\* Mutant: "attempts += 1" is skipped by the continue.
RetryWonWithoutCounting(c) ==
    /\ pc[c] = "backoff"
    /\ IF HasId(c)
       THEN /\ Claim(Id(cur[c]))
            /\ grant' = [grant EXCEPT ![c] = LeaseTicks]
       ELSE UNCHANGED <<storeVars, grant>>
    /\ GoTo(c, "handle")
    /\ UNCHANGED <<cur, attempts, kafkaVars, ledgerVars, faultVars>>

\* After the backoff: claim again for the next attempt ...
RetryWon(c) ==
    /\ pc[c] = "backoff"
    /\ IF HasId(c)
       THEN /\ Claim(Id(cur[c]))
            /\ grant' = [grant EXCEPT ![c] = LeaseTicks]
       ELSE UNCHANGED <<storeVars, grant>>
    /\ attempts' = [attempts EXCEPT ![c] = @ + 1]
    /\ GoTo(c, "handle")
    /\ UNCHANGED <<cur, kafkaVars, ledgerVars, faultVars>>

\* ... or break out of the loop, which leads to the dead-letter code.
RetryLost(c) ==
    /\ pc[c] = "backoff"
    /\ HasId(c)
    /\ ~Claimable(Id(cur[c]))
    /\ GoTo(c, "dlq")
    /\ UNCHANGED <<storeVars, cur, attempts, grant, kafkaVars, ledgerVars,
                   faultVars>>

\* _complete(): mark_completed() is carried out ...
Complete(c) ==
    /\ pc[c] = "mark_completed"
    /\ \E r \in Results \cup {NoResult} : MarkCompleted(Id(cur[c]), r)
    /\ grant' = [grant EXCEPT ![c] = 0]
    /\ GoTo(c, "commit")
    /\ UNCHANGED <<cur, attempts, kafkaVars, ledgerVars, faultVars>>

\* Mutant: mark_completed() inside the try of handle(), so that its failure is
\* taken for a failure of the handler.
CompleteRaisesIntoRetry(c) ==
    /\ StoreMayFail \/ Refused # {}
    /\ pc[c] = "mark_completed"
    /\ GoTo(c, "mark_failed")
    /\ UNCHANGED <<storeVars, cur, attempts, grant, kafkaVars, ledgerVars,
                   faultVars>>

\* ... or raises without effect (Redis unreachable, a result that cannot be
\* encoded): logged, and the offset is committed all the same.  Raising
\* after it took effect leads to the same state as Complete.
CompleteRaises(c) ==
    /\ StoreMayFail \/ Refused # {}
    /\ pc[c] = "mark_completed"
    /\ unrecorded' = [unrecorded EXCEPT ![Id(cur[c])] = @ + 1]
    /\ grant' = [grant EXCEPT ![c] = 0]
    /\ GoTo(c, "commit")
    /\ UNCHANGED <<storeVars, cur, attempts, kafkaVars, dlq, handled, effects,
                   failures, abandoned, faultVars>>

\* Mutant: the exhausted message is only logged.
DropExhausted(c) ==
    /\ pc[c] = "dlq"
    /\ grant' = [grant EXCEPT ![c] = 0]
    /\ GoTo(c, "commit")
    /\ UNCHANGED <<storeVars, cur, attempts, kafkaVars, ledgerVars, faultVars>>

\* _send_to_dlq(): without a dlq_topic the message is dropped with a warning.
SendToDlq(c) ==
    /\ pc[c] = "dlq"
    /\ dlq' = IF HasDlq THEN dlq \cup {cur[c]} ELSE dlq
    /\ grant' = [grant EXCEPT ![c] = 0]
    /\ GoTo(c, "commit")
    /\ UNCHANGED <<storeVars, cur, attempts, kafkaVars, handled, effects,
                   failures, unrecorded, abandoned, faultVars>>

\* Mutant: the record's own offset is committed, assigned or not.
CommitOwnOffset(c) ==
    /\ pc[c] = "commit"
    /\ committed' = [committed EXCEPT ![cur[c][1]] = cur[c][2] + 1]
    /\ cur' = [cur EXCEPT ![c] = NoPos]
    /\ attempts' = [attempts EXCEPT ![c] = 0]
    /\ GoTo(c, "poll")
    /\ UNCHANGED <<storeVars, grant, owner, pos, ledgerVars, faultVars>>

\* commit() without arguments: the position of every partition the consumer
\* is assigned at that moment, which need not include the record's own.
Commit(c) ==
    /\ pc[c] = "commit"
    /\ committed' = [p \in Partitions |-> IF owner[p] = c THEN pos[p]
                                                          ELSE committed[p]]
    /\ cur' = [cur EXCEPT ![c] = NoPos]
    /\ attempts' = [attempts EXCEPT ![c] = 0]
    /\ GoTo(c, "poll")
    /\ UNCHANGED <<storeVars, grant, owner, pos, ledgerVars, faultVars>>

\* The consumer holds the only promise to finish its message.
Responsible(c) == pc[c] \in {"handle", "mark_failed", "backoff", "dlq"}

\* The consumer ends wherever it stands: killed, cancelled by __main__, or
\* run() left by an exception of the store, of Kafka or of the DLQ producer
\* (before or after the call took effect: the step before or after it).
Abort(c) ==
    /\ pc[c] # "down"
    /\ aborts < MaxAborts
    /\ aborts' = aborts + 1
    /\ abandoned' = IF Responsible(c) /\ HasId(c)
                    THEN abandoned \cup {Id(cur[c])} ELSE abandoned
    /\ unrecorded' = IF pc[c] = "mark_completed"
                     THEN [unrecorded EXCEPT ![Id(cur[c])] = @ + 1]
                     ELSE unrecorded
    /\ Leave(c)

\* Between a won claim and the update that settles it.
HoldsClaim(c) == pc[c] \in Working /\ HasId(c)

\* Time passes.  processing_timeout_seconds "must be longer than your slowest
\* handle() call": unless SlowHandlers, no claim runs out in its holder's hands.
Elapse ==
    /\ SlowHandlers \/ \A c \in Consumers : HoldsClaim(c) => grant[c] > 1
    /\ Tick
    /\ grant' = [c \in Consumers |-> IF grant[c] > 0 THEN grant[c] - 1 ELSE 0]
    /\ UNCHANGED <<pc, cur, attempts, kafkaVars, ledgerVars, faultVars>>

\* The steps of the coroutine itself.
Step(c) ==
    \/ \E p \in Partitions : Receive(c, p) \/ ReceiveUndecodable(c, p)
    \/ ClaimWon(c)
    \/ ClaimLost(c)
    \/ HandleReturns(c)
    \/ HandleRaises(c)
    \/ RecordFailure(c)
    \/ RetryWon(c)
    \/ RetryLost(c)
    \/ Complete(c)
    \/ CompleteRaises(c)
    \/ SendToDlq(c)
    \/ Commit(c)

Next ==
    \/ \E c \in Consumers : Start(c) \/ Step(c) \/ Abort(c)
    \/ \E p \in Partitions, c \in Consumers : Assign(p, c)
    \/ Elapse

Spec == Init /\ [][Next]_vars

\* asyncio resumes a coroutine whose await is ready, an orchestrator restarts
\* the process, and the coordinator assigns every partition while the group
\* has members.  Nothing is assumed of the clock, and nothing prevents handle()
\* from raising every time.
Fairness ==
    /\ \A c \in Consumers : WF_vars(Step(c)) /\ WF_vars(Start(c))
    /\ \A p \in Partitions :
          WF_vars(\E c \in Consumers : owner[p] = NoOwner /\ Assign(p, c))

FairSpec == Spec /\ Fairness

-----------------------------------------------------------------------------
(***************************************************************************)
(* Properties                                                              *)
(***************************************************************************)

\* Two consumers are never both between claim() and mark_completed() or
\* mark_failed() for the same message id, however rebalances, duplicates,
\* deaths and retries interleave.
SoleProcessor ==
    \A c, d \in Consumers :
        c # d /\ HoldsClaim(c) /\ HoldsClaim(d) => Id(cur[c]) # Id(cur[d])

\* handle() returns at most once for an id, plus once for each return that no
\* COMPLETED record could be written for (mark_completed() raised or its
\* consumer died first): no other interleaving repeats a side effect.
RepeatsAreUnrecorded ==
    \A k \in Keys : effects[k] <= 1 + unrecorded[k]

\* commit() names no offsets, so it must find nothing unprocessed between the
\* committed offset and the position: at most the owner's current record is.
OnlyCurrentUncommitted ==
    \A p \in Partitions :
        \/ pos[p] = committed[p]
        \/ /\ pos[p] = committed[p] + 1
           /\ owner[p] # NoOwner
           /\ pc[owner[p]] \notin Idle
           /\ cur[owner[p]] = <<p, committed[p]>>

\* The committed offset of a partition never moves back, not even when a
\* consumer that lost the partition, or was given it again, commits late.
CommittedNeverRetreats ==
    [][\A p \in Partitions : committed'[p] >= committed[p]]_vars

\* q and r are the same message to the framework.
SameMessage(q, r) == q = r \/ (Id(q) # NoId /\ Id(q) = Id(r))

\* The message of q was handled or dead-lettered, by this delivery or through
\* another copy of it.
Resolved(q) == \E r \in handled \cup dlq : SameMessage(q, r)

InFlight(q) ==
    \E c \in Consumers : Responsible(c) /\ SameMessage(q, cur[c])

Passed(q) == q[2] < committed[q[1]]

\* An offset is committed past a record only when its message was handled,
\* dead-lettered, or is in the hands of a live consumer.
NoMessageLost ==
    \A q \in Positions : Passed(q) => Resolved(q) \/ InFlight(q)

\* That promise is broken only for an id one of whose consumers died, or was
\* stopped by a raising DLQ send, while it was responsible for the message, its
\* last mark_failed() included: other copies are skipped because of the record
\* it left.  In particular a message without an id is never lost.
LossOnlyIfAbandoned ==
    \A q \in Positions :
        Passed(q) => Resolved(q) \/ InFlight(q) \/ Id(q) \in abandoned

\* A message is dead-lettered only after max_retries failed attempts.
DeadLetterMeansExhausted ==
    \A q \in dlq : Id(q) # NoId => failures[Id(q)] >= CallerRetries

\* How often the messages with id k can have been delivered: each copy once,
\* and once more for each death and each rebalance.
Deliveries(k) ==
    Cardinality({q \in Positions : Id(q) = k}) + aborts + rebalances

\* Each delivery of a message fails at most max_retries times, although the
\* consumers overwrite each other's count of the attempts in the record.
FailuresPerDelivery ==
    \A k \in Keys : failures[k] <= CallerRetries * Deliveries(k)

\* Every partition is consumed to its end: no claim held by a dead consumer,
\* slow handler or unending failure blocks the records behind it.
EventuallyCommitted ==
    <>[](\A p \in Partitions : committed[p] = Len(Log[p]) + 1)

\* Every message is eventually handled or dead-lettered, unless its claim died
\* with a consumer.
EventuallyResolved ==
    <>(\A q \in Positions : Resolved(q) \/ Id(q) \in abandoned)
=============================================================================
