---------------------- MODULE DedupConsumerLossProofs ----------------------
(***************************************************************************)
(* Proofs about DedupConsumer that need no assumption on time: handlers may*)
(* outlive their leases and records their retention.                       *)
(***************************************************************************)
EXTENDS DedupConsumerProofs, FiniteSetTheorems

-----------------------------------------------------------------------------
(***************************************************************************)
(* Lost messages.  Three things lead past a record: its own commit, a claim*)
(* that was refused, and a commit that covers it.  So the invariant says of*)
(* all three that the message is safe: there is a record in the store only *)
(* for a safe message, a consumer is at its commit only with a safe record,*)
(* and only safe records are passed.                                       *)
(***************************************************************************)

\* Some copy of the message k was handled or dead-lettered, is in the hands of
\* a live consumer, or its claim died with a consumer.
KeySafe(k) ==
    \/ \E r \in handled \cup dlq : Id(r) = k
    \/ \E c \in Consumers : Responsible(c) /\ Id(cur[c]) = k
    \/ k \in abandoned

\* A record without an id is safe only by itself.
Safe(q) == IF Id(q) = NoId THEN q \in handled \cup dlq ELSE KeySafe(Id(q))

StoredIsSafe == \A k \in Keys : store[k] # Missing => KeySafe(k)

SettledIsSafe ==
    \A c \in Consumers :
        pc[c] \in {"mark_completed", "commit"} => Safe(cur[c])

PassedIsSafe == \A q \in Positions : Passed(q) => Safe(q)

LossInv == StoredIsSafe /\ SettledIsSafe /\ PassedIsSafe

\* A consumer gives up its message only by handling it, dead-lettering it or
\* dying.
LEMMA KeySafeStays ==
    ASSUME HasDlq, TypeInv, [Next]_vars, NEW k, k # NoId, KeySafe(k)
    PROVE  KeySafe(k)'
<1>1. /\ pc \in [Consumers -> PCs]
      /\ cur \in [Consumers -> Positions \cup {NoPos}]
  BY DEF TypeInv, ConsumerTypeOK
<1>2. /\ handled \subseteq handled' /\ dlq \subseteq dlq'
      /\ abandoned \subseteq abandoned'
  BY DEF Next, vars, ledgerVars, Step, Start, Abort, Assign, Elapse, Receive,
         ReceiveUndecodable, Leave, ClaimWon, ClaimLost, HandleReturns,
         HandleRaises, RecordFailure, RetryWon, RetryLost, Complete,
         CompleteRaises, SendToDlq, Commit
<1>3. CASE k \in abandoned \/ \E r \in handled \cup dlq : Id(r) = k
  BY <1>2, <1>3 DEF KeySafe
<1>4. ASSUME NEW c \in Consumers, Responsible(c), Id(cur[c]) = k
      PROVE  KeySafe(k)'
  <2>1. CASE pc'[c] = pc[c] /\ cur'[c] = cur[c]
    BY <1>4, <2>1 DEF KeySafe, Responsible
  <2>2. CASE HandleReturns(c) \/ SendToDlq(c)
    <3>1. cur[c] \in handled' \cup dlq'
      BY <2>2 DEF HandleReturns, SendToDlq
    <3> QED
      BY <1>4, <3>1 DEF KeySafe
  <2>3. CASE Abort(c)
    <3>1. k \in abandoned'
      BY <1>4, <2>3 DEF Abort, HasId
    <3> QED
      BY <3>1 DEF KeySafe
  <2>4. CASE HandleRaises(c) \/ RecordFailure(c) \/ RetryWon(c) \/ RetryLost(c)
    <3>1. Responsible(c)' /\ cur' = cur
      BY <1>1, <1>4, <2>4
         DEF HandleRaises, RecordFailure, RetryWon, RetryLost, GoTo,
             AfterFailure, Responsible
    <3> QED
      BY <1>4, <3>1 DEF KeySafe
  <2>5. CASE \/ Start(c) \/ ClaimWon(c) \/ ClaimLost(c) \/ Complete(c)
             \/ CompleteRaises(c) \/ Commit(c)
             \/ \E p \in Partitions :
                    Receive(c, p) \/ ReceiveUndecodable(c, p)
    <3>1. ~Responsible(c)
      BY <2>5 DEF Start, ClaimWon, ClaimLost, Complete, CompleteRaises, Commit,
                  Receive, ReceiveUndecodable, Delivered, Responsible
    <3> QED
      BY <1>4, <3>1
  <2>6. ASSUME NEW d \in Consumers \ {c}, Start(d) \/ Step(d) \/ Abort(d)
        PROVE  pc'[c] = pc[c] /\ cur'[c] = cur[c]
    BY <1>1, <2>6
       DEF Step, Start, Abort, Receive, ReceiveUndecodable, Leave, ClaimWon,
           ClaimLost, HandleReturns, HandleRaises, RecordFailure, RetryWon,
           RetryLost, Complete, CompleteRaises, SendToDlq, Commit, GoTo
  <2>7. ASSUME \/ Elapse \/ UNCHANGED vars
               \/ \E p \in Partitions, d \in Consumers : Assign(p, d)
        PROVE  pc'[c] = pc[c] /\ cur'[c] = cur[c]
    BY <2>7 DEF Elapse, vars, procVars, Assign
  <2> QED
    BY <2>1, <2>2, <2>3, <2>4, <2>5, <2>6, <2>7 DEF Next, Step
<1> QED
  BY <1>3, <1>4 DEF KeySafe

LEMMA SafeStays ==
    ASSUME HasDlq, TypeInv, [Next]_vars, NEW q, Safe(q)
    PROVE  Safe(q)'
<1>1. handled \subseteq handled' /\ dlq \subseteq dlq'
  BY DEF Next, vars, ledgerVars, Step, Start, Abort, Assign, Elapse, Receive,
         ReceiveUndecodable, Leave, ClaimWon, ClaimLost, HandleReturns,
         HandleRaises, RecordFailure, RetryWon, RetryLost, Complete,
         CompleteRaises, SendToDlq, Commit
<1>2. CASE Id(q) = NoId
  BY <1>1, <1>2 DEF Safe
<1>3. CASE Id(q) # NoId
  BY <1>3, KeySafeStays DEF Safe
<1> QED
  BY <1>2, <1>3

\* Only a won claim creates a record, and the winner is responsible for it.
LEMMA StoredStep ==
    ASSUME HasDlq, TypeInv, StoredIsSafe, [Next]_vars
    PROVE  StoredIsSafe'
<1>1. /\ pc \in [Consumers -> PCs]
      /\ store \in [Keys -> Records]
  BY DEF TypeInv, ConsumerTypeOK, StoreTypeOK, Records
<1>2. \A k \in Keys : KeySafe(k) => KeySafe(k)'
  BY KeySafeStays, ConsumerAssumption
<1>3. ASSUME \A k \in Keys : store[k] = Missing => store'[k] = Missing
      PROVE  StoredIsSafe'
  BY <1>2, <1>3 DEF StoredIsSafe
<1>4. ASSUME NEW c \in Consumers, ClaimWon(c) \/ RetryWon(c)
      PROVE  StoredIsSafe'
  <2>1. CASE UNCHANGED storeVars
    BY <1>3, <2>1 DEF storeVars
  <2>2. CASE ~UNCHANGED storeVars
    <3>1. Claim(Id(cur[c])) /\ cur' = cur /\ Responsible(c)'
      BY <1>1, <1>4, <2>2
         DEF ClaimWon, RetryWon, GoTo, LoopHead, Responsible
    <3>2. KeySafe(Id(cur[c]))'
      BY <3>1 DEF KeySafe
    <3>3. \A k \in Keys \ {Id(cur[c])} : store'[k] = store[k]
      BY <1>1, <3>1 DEF Claim
    <3>4. Id(cur[c])' = Id(cur[c])
      BY <3>1 DEF Id
    <3> QED
      BY <1>2, <3>2, <3>3, <3>4 DEF StoredIsSafe
  <2> QED
    BY <2>1, <2>2
<1>5. ASSUME NEW c \in Consumers, RecordFailure(c) \/ Complete(c)
      PROVE  StoredIsSafe'
  <2>1. \A k \in Keys : store[k] = Missing => store'[k] = Missing
    BY <1>1, <1>5
       DEF RecordFailure, Complete, MarkFailed, MarkCompleted, UpdateStatus,
           Updatable, Missing
  <2> QED
    BY <1>3, <2>1
<1>6. CASE Elapse
  <2>1. Aged(Missing) = Missing
    BY DEF Aged, Missing, NoLease
  <2> QED
    BY <1>3, <1>6, <2>1 DEF Elapse, Tick
<1>7. ASSUME NEW c \in Consumers,
             \/ Start(c) \/ Abort(c) \/ ClaimLost(c) \/ HandleReturns(c)
             \/ HandleRaises(c) \/ RetryLost(c) \/ CompleteRaises(c)
             \/ SendToDlq(c) \/ Commit(c)
             \/ \E p \in Partitions : \/ Receive(c, p)
                                      \/ ReceiveUndecodable(c, p)
                                      \/ Assign(p, c)
      PROVE  StoredIsSafe'
  <2>1. store' = store
    BY <1>7
       DEF Start, Abort, ClaimLost, HandleReturns, HandleRaises, RetryLost,
           CompleteRaises, SendToDlq, Commit, Receive, ReceiveUndecodable,
           Leave, Assign, storeVars
  <2> QED
    BY <1>3, <2>1
<1>8. CASE UNCHANGED vars
  BY <1>3, <1>8 DEF vars, storeVars
<1> QED
  BY <1>4, <1>5, <1>6, <1>7, <1>8 DEF Next, Step

\* A consumer comes to mark_completed or to its commit with a record it
\* handled or dead-lettered, or whose claim it was refused.
LEMMA SettledStep ==
    ASSUME HasDlq, TypeInv, StoredIsSafe, SettledIsSafe, [Next]_vars
    PROVE  SettledIsSafe'
<1>1. /\ pc \in [Consumers -> PCs]
      /\ cur \in [Consumers -> Positions \cup {NoPos}]
  BY DEF TypeInv, ConsumerTypeOK
<1>2. ASSUME NEW c \in Consumers,
             cur'[c] = cur[c], pc[c] \in {"mark_completed", "commit"}
      PROVE  Safe(cur[c])'
  <2>1. PICK q : q = cur[c]
    OBVIOUS
  <2>2. Safe(q)
    BY <1>2, <2>1 DEF SettledIsSafe
  <2>3. Safe(q)'
    BY <2>2, SafeStays
  <2> QED
    BY <1>2, <2>1, <2>3
\* Everybody but c stands where it stood.
<1>3. ASSUME NEW c \in Consumers,
             \A d \in Consumers \ {c} : pc'[d] = pc[d] /\ cur'[d] = cur[d],
             pc'[c] \in {"mark_completed", "commit"} => Safe(cur[c])'
      PROVE  SettledIsSafe'
  BY <1>2, <1>3 DEF SettledIsSafe
<1>4. ASSUME NEW c \in Consumers, HandleReturns(c) \/ SendToDlq(c)
      PROVE  SettledIsSafe'
  <2>1. cur' = cur /\ cur[c] \in handled' \cup dlq'
    BY <1>4 DEF HandleReturns, SendToDlq
  <2>2. Safe(cur[c])'
    BY <2>1 DEF Safe, KeySafe
  <2> QED
    BY <1>1, <1>3, <1>4, <2>1, <2>2 DEF HandleReturns, SendToDlq, GoTo
<1>5. ASSUME NEW c \in Consumers, ClaimLost(c) PROVE SettledIsSafe'
  <2>1. Id(cur[c]) \in Keys /\ Id(cur[c]) # NoId
    BY <1>5, CurrentId DEF ClaimLost, Idle, TypeInv, LabelsOK, HasId
  <2>2. Safe(cur[c])
    BY <1>5, <2>1 DEF ClaimLost, Claimable, StoredIsSafe, Safe
  <2>3. PICK q : q = cur[c]
    OBVIOUS
  <2>4. cur' = cur /\ Safe(q)'
    BY <1>5, <2>2, <2>3, SafeStays DEF ClaimLost
  <2>5. Safe(cur[c])'
    BY <2>3, <2>4
  <2> QED
    BY <1>1, <1>3, <1>5, <2>4, <2>5 DEF ClaimLost, GoTo
<1>6. ASSUME NEW c \in Consumers, Complete(c) \/ CompleteRaises(c)
      PROVE  SettledIsSafe'
  BY <1>1, <1>2, <1>3, <1>6 DEF Complete, CompleteRaises, GoTo
<1>7. ASSUME NEW c \in Consumers,
             \/ Start(c) \/ Abort(c) \/ ClaimWon(c) \/ HandleRaises(c)
             \/ RecordFailure(c) \/ RetryWon(c) \/ RetryLost(c) \/ Commit(c)
             \/ \E p \in Partitions :
                    Receive(c, p) \/ ReceiveUndecodable(c, p)
      PROVE  SettledIsSafe'
  <2>1. pc'[c] \notin {"mark_completed", "commit"}
    BY <1>1, <1>7
       DEF Start, Abort, ClaimWon, HandleRaises, RecordFailure, RetryWon,
           RetryLost, Commit, Receive, ReceiveUndecodable, Leave, GoTo,
           AfterFailure, LoopHead
  <2>2. \A d \in Consumers \ {c} : pc'[d] = pc[d] /\ cur'[d] = cur[d]
    BY <1>1, <1>7
       DEF Start, Abort, ClaimWon, HandleRaises, RecordFailure, RetryWon,
           RetryLost, Commit, Receive, ReceiveUndecodable, Leave, GoTo
  <2> QED
    BY <1>3, <2>1, <2>2
<1>8. CASE \/ Elapse \/ UNCHANGED vars
           \/ \E p \in Partitions, c \in Consumers : Assign(p, c)
  <2>1. pc' = pc /\ cur' = cur
    BY <1>8 DEF Elapse, vars, procVars, Assign
  <2> QED
    BY <1>2, <2>1 DEF SettledIsSafe
<1> QED
  BY <1>4, <1>5, <1>6, <1>7, <1>8 DEF Next, Step

\* A commit passes one record, the one its consumer is done with.
LEMMA PassedStep ==
    ASSUME HasDlq, TypeInv, OnlyCurrentUncommitted, SettledIsSafe,
           PassedIsSafe, [Next]_vars
    PROVE  PassedIsSafe'
<1>1. /\ owner \in [Partitions -> Consumers \cup {NoOwner}]
      /\ pos \in [Partitions -> Nat \ {0}]
      /\ committed \in [Partitions -> Nat \ {0}]
  BY DEF TypeInv, ConsumerTypeOK
<1>2. ASSUME NEW q \in Positions, Passed(q) PROVE Safe(q)'
  BY <1>2, SafeStays DEF PassedIsSafe
<1>3. CASE committed' = committed
  BY <1>2, <1>3 DEF PassedIsSafe, Passed
<1>4. ASSUME NEW c \in Consumers, Commit(c) PROVE PassedIsSafe'
  <2>1. ASSUME NEW q \in Positions, Passed(q)', ~Passed(q)
        PROVE  Safe(q)'
    <3>1. /\ q[1] \in Partitions /\ q[2] \in Nat /\ q = <<q[1], q[2]>>
      BY PositionFacts, ConsumerAssumption
    <3>2. q[2] < committed'[q[1]] /\ ~(q[2] < committed[q[1]])
      BY <2>1 DEF Passed
    <3>3. owner[q[1]] = c /\ committed'[q[1]] = pos[q[1]]
      BY <1>1, <1>4, <3>1, <3>2 DEF Commit
    <3>4. /\ pos[q[1]] = committed[q[1]] + 1
          /\ cur[c] = <<q[1], committed[q[1]]>>
      BY <3>1, <3>2, <3>3 DEF OnlyCurrentUncommitted
    <3>5. q[2] = committed[q[1]]
      BY <1>1, <3>1, <3>2, <3>3, <3>4
    <3>6. q = cur[c]
      BY <3>1, <3>4, <3>5
    <3>7. Safe(q)
      BY <1>4, <3>6 DEF Commit, SettledIsSafe
    <3> QED
      BY <3>7, SafeStays
  <2> QED
    BY <1>2, <2>1 DEF PassedIsSafe
<1>5. CASE ~\E c \in Consumers : Commit(c)
  BY <1>3, <1>5
     DEF Next, vars, kafkaVars, Step, Start, Abort, Assign, Elapse, Receive,
         ReceiveUndecodable, Leave, ClaimWon, ClaimLost, HandleReturns,
         HandleRaises, RecordFailure, RetryWon, RetryLost, Complete,
         CompleteRaises, SendToDlq
<1> QED
  BY <1>4, <1>5

\* With a dead-letter topic no message is lost, for any number of consumers,
\* duplicates, deaths, rebalances, slow handlers and expired records, but for
\* the one hole of a claim whose consumer died: LossOnlyIfAbandoned is an
\* invariant.
THEOREM LostOnlyWithItsClaim ==
    ASSUME HasDlq
    PROVE  Spec => []LossOnlyIfAbandoned
<1>1. Init => LossInv
  <2> SUFFICES ASSUME Init PROVE LossInv
    OBVIOUS
  <2>1. StoredIsSafe /\ SettledIsSafe
    BY DEF Init, StoreInit, StoredIsSafe, SettledIsSafe
  <2>2. \A q \in Positions : ~Passed(q)
    BY PositionFacts, ConsumerAssumption DEF Init, Passed
  <2> QED
    BY <2>1, <2>2 DEF LossInv, PassedIsSafe
<1>2. TypeInv /\ OnlyCurrentUncommitted /\ LossInv /\ [Next]_vars => LossInv'
  BY StoredStep, SettledStep, PassedStep DEF LossInv
<1>3. ASSUME LossInv PROVE LossOnlyIfAbandoned
  <2>1. ASSUME NEW q \in Positions, Safe(q)
        PROVE  Resolved(q) \/ InFlight(q) \/ Id(q) \in abandoned
    <3>1. CASE Id(q) = NoId
      BY <2>1, <3>1 DEF Safe, Resolved, SameMessage
    <3>2. CASE Id(q) # NoId
      BY <2>1, <3>2 DEF Safe, KeySafe, Resolved, InFlight, SameMessage
    <3> QED
      BY <3>1, <3>2
  <2> QED
    BY <1>3, <2>1 DEF LossInv, PassedIsSafe, LossOnlyIfAbandoned
<1> QED
  BY <1>1, <1>2, <1>3, TypeInvHolds, CommitCoversOneRecord, PTL DEF Spec

-----------------------------------------------------------------------------
(***************************************************************************)
(* Failed attempts.  The inductive form of FailuresPerDelivery counts, next*)
(* to the failures of the past, the attempts that may still fail: both are *)
(* paid for by the deliveries so far.  A death or a rebalance takes one    *)
(* record out of the delivered ones, and is itself one more delivery.      *)
(***************************************************************************)

\* The attempts the consumer may yet fail, at the record it has.
AttemptsAhead(c) ==
    CASE pc[c] \in {"claim", "handle"}        -> attempts[c] .. CallerRetries
      [] pc[c] \in {"mark_failed", "backoff"} -> attempts[c] + 1 .. CallerRetries
      [] OTHER                                -> {}

OpenAttempts(k) ==
    {t \in Consumers \X (1 .. CallerRetries) :
        Id(cur[t[1]]) = k /\ t[2] \in AttemptsAhead(t[1])}

\* The records with id k up to the positions.
Handed(k) == {q \in Positions : Id(q) = k /\ q[2] < pos[q[1]]}

Budget(k) == Cardinality(Handed(k)) + aborts + rebalances

AttemptsByLabel ==
    \A c \in Consumers :
        /\ pc[c] = "claim" => attempts[c] = 1
        /\ pc[c] = "handle" => attempts[c] \in 1 .. CallerRetries

WithinBudget(k) ==
    /\ IsFiniteSet(OpenAttempts(k))
    /\ failures[k] + Cardinality(OpenAttempts(k)) <= CallerRetries * Budget(k)

FailureInv == AttemptsByLabel /\ \A k \in Keys : WithinBudget(k)

LEMMA PositionsFinite == IsFiniteSet(Positions)
<1> DEFINE Part(p) == {p} \X (1 .. Len(Log[p]))
           f == [p \in Partitions |-> Part(p)]
           T == {Part(p) : p \in Partitions}
<1>1. IsFiniteSet(Partitions) /\ \A p \in Partitions : Len(Log[p]) \in Nat
  BY ConsumerAssumption
<1>2. f \in Surjection(Partitions, T)
  BY DEF Surjection
<1>3. IsFiniteSet(T)
  <2> HIDE DEF f, T
  <2> QED
    BY <1>1, <1>2, FS_Surjection
<1>4. ASSUME NEW p \in Partitions PROVE IsFiniteSet(Part(p))
  <2>1. IsFiniteSet({p})
    BY FS_Singleton
  <2>2. 1 \in Int /\ Len(Log[p]) \in Int
    BY <1>1
  <2>3. IsFiniteSet(1 .. Len(Log[p]))
    BY <2>2, FS_Interval
  <2> QED
    BY <2>1, <2>3, FS_Product
<1>5. IsFiniteSet(UNION T)
  <2>1. \A S \in T : IsFiniteSet(S)
    BY <1>4
  <2> HIDE DEF T
  <2> QED
    BY <1>3, <2>1, FS_UNION
<1> QED
  BY <1>5 DEF Positions

LEMMA HandedFinite ==
    ASSUME NEW k
    PROVE  /\ IsFiniteSet(Handed(k)) /\ Cardinality(Handed(k)) \in Nat
           /\ IsFiniteSet(Handed(k)') /\ Cardinality(Handed(k)') \in Nat
<1>1. Handed(k) \subseteq Positions /\ Handed(k)' \subseteq Positions
  BY DEF Handed
<1> QED
  BY <1>1, PositionsFinite, FS_Subset, FS_CardinalityType

LEMMA TimesMonotone ==
    ASSUME NEW m \in Nat, NEW x \in Nat, NEW y \in Nat, x <= y
    PROVE  m * x <= m * y
<1>1. PICK d \in Nat : y = x + d
  <2>1. y - x \in Nat /\ y = x + (y - x)
    OBVIOUS
  <2> QED
    BY <2>1
<1>2. m * (x + d) >= m * x
  OBVIOUS
<1> QED
  BY <1>1, <1>2

\* A step that opens no attempt, counts no failure and takes no delivery back.
LEMMA BudgetKept ==
    ASSUME TypeInv, TypeInv', NEW k \in Keys, WithinBudget(k),
           failures'[k] = failures[k],
           OpenAttempts(k)' \subseteq OpenAttempts(k),
           Budget(k) <= Budget(k)'
    PROVE  WithinBudget(k)'
<1>1. /\ failures[k] \in Nat /\ CallerRetries \in Nat
      /\ aborts \in Nat /\ rebalances \in Nat
      /\ aborts' \in Nat /\ rebalances' \in Nat
  BY ConsumerAssumption DEF TypeInv, ConsumerTypeOK
<1>2. Budget(k) \in Nat /\ Budget(k)' \in Nat
  BY <1>1, HandedFinite DEF Budget
<1>3. IsFiniteSet(OpenAttempts(k))
  BY DEF WithinBudget
<1>4. /\ IsFiniteSet(OpenAttempts(k)')
      /\ Cardinality(OpenAttempts(k)') <= Cardinality(OpenAttempts(k))
  BY <1>3, FS_Subset
<1>5. /\ Cardinality(OpenAttempts(k)) \in Nat
      /\ Cardinality(OpenAttempts(k)') \in Nat
  BY <1>3, <1>4, FS_CardinalityType
<1>6. CallerRetries * Budget(k) <= CallerRetries * Budget(k)'
  BY <1>1, <1>2, TimesMonotone
<1>7. CallerRetries * Budget(k) \in Nat /\ CallerRetries * Budget(k)' \in Nat
  BY <1>1, <1>2
<1>8. failures[k] + Cardinality(OpenAttempts(k)) <= CallerRetries * Budget(k)
  BY DEF WithinBudget
<1>9. failures'[k] + Cardinality(OpenAttempts(k)') <= CallerRetries * Budget(k)'
  <2> HIDE DEF Budget
  <2> QED
    BY <1>1, <1>4, <1>5, <1>6, <1>7, <1>8
<1> QED
  BY <1>4, <1>9 DEF WithinBudget

\* A step of one consumer that leaves the attempts ahead of the others, and
\* opens none of its own.
LEMMA NoNewAttempts ==
    ASSUME NEW c \in Consumers,
           \A d \in Consumers \ {c} : /\ pc'[d] = pc[d] /\ cur'[d] = cur[d]
                                      /\ attempts'[d] = attempts[d],
           \/ AttemptsAhead(c)' = {}
           \/ /\ cur'[c] = cur[c]
              /\ AttemptsAhead(c)' \subseteq AttemptsAhead(c),
           NEW k
    PROVE  OpenAttempts(k)' \subseteq OpenAttempts(k)
<1>1. \A d \in Consumers \ {c} : AttemptsAhead(d)' = AttemptsAhead(d)
  BY DEF AttemptsAhead
<1> QED
  BY <1>1 DEF OpenAttempts

\* A set with at most one member outside a finite set is at most one larger.
LEMMA AtMostOneMore ==
    ASSUME NEW S, NEW x, NEW R, IsFiniteSet(S), R \subseteq S \cup {x}
    PROVE  Cardinality(R) <= Cardinality(S) + 1
<1>1. Cardinality(S) \in Nat
  BY FS_CardinalityType
<1>2. /\ IsFiniteSet(S \cup {x})
      /\ Cardinality(S \cup {x}) = Cardinality(S) \/
         Cardinality(S \cup {x}) = Cardinality(S) + 1
  <2>1. CASE x \in S
    BY <2>1, FS_AddElement
  <2>2. CASE x \notin S
    BY <2>2, FS_AddElement
  <2> QED
    BY <2>1, <2>2
<1>3. /\ IsFiniteSet(R)
      /\ Cardinality(R) <= Cardinality(S \cup {x})
  BY <1>2, FS_Subset
<1>4. Cardinality(R) \in Nat
  BY <1>3, FS_CardinalityType
<1> QED
  BY <1>1, <1>2, <1>3, <1>4

\* The attempts of one delivery are as many as the caller makes.
LEMMA OneDelivery ==
    ASSUME NEW c, NEW n \in Nat
    PROVE  /\ IsFiniteSet({c} \X (1 .. n))
           /\ Cardinality({c} \X (1 .. n)) = n
<1>1. IsFiniteSet({c}) /\ Cardinality({c}) = 1
  BY FS_Singleton
<1>2. IsFiniteSet(1 .. n) /\ Cardinality(1 .. n) = n
  <2>1. /\ IsFiniteSet(1 .. n)
        /\ Cardinality(1 .. n) = IF 1 > n THEN 0 ELSE n - 1 + 1
    BY FS_Interval
  <2> QED
    BY <2>1
<1> DEFINE A == {c}
           B == 1 .. n
<1>3. /\ IsFiniteSet(A) /\ Cardinality(A) = 1
      /\ IsFiniteSet(B) /\ Cardinality(B) = n
  BY <1>1, <1>2
<1> HIDE DEF A, B
<1>4. IsFiniteSet(A \X B) /\ Cardinality(A \X B) = Cardinality(A) * Cardinality(B)
  BY <1>3, FS_Product, Zenon
<1>5. Cardinality(A \X B) = n
  BY <1>3, <1>4
<1> QED
  BY <1>4, <1>5 DEF A, B

LEMMA PaidFor ==
    ASSUME NEW m \in Nat, NEW n \in Nat, m <= n + 1,
           NEW x \in Nat, NEW y \in Nat, NEW u \in Nat, NEW v \in Nat,
           u + v = x + y + 1
    PROVE  m + x + y <= n + u + v
OBVIOUS

\* A record that is no longer handed out is paid for by the death or the
\* rebalance that took it back.
LEMMA OneTakenBack ==
    ASSUME TypeInv, TypeInv', NEW k, NEW q0,
           Handed(k) \subseteq Handed(k)' \cup {q0},
           aborts' + rebalances' = aborts + rebalances + 1
    PROVE  Budget(k) <= Budget(k)'
<1>1. /\ aborts \in Nat /\ rebalances \in Nat
      /\ aborts' \in Nat /\ rebalances' \in Nat
  BY ConsumerAssumption DEF TypeInv, ConsumerTypeOK
<1>2. Cardinality(Handed(k)) <= Cardinality(Handed(k)') + 1
  <2> DEFINE S == Handed(k)'
             R == Handed(k)
  <2>1. IsFiniteSet(S) /\ R \subseteq S \cup {q0}
    BY HandedFinite
  <2> HIDE DEF S, R
  <2>2. Cardinality(R) <= Cardinality(S) + 1
    BY <2>1, AtMostOneMore
  <2> QED
    BY <2>2 DEF S, R
<1> DEFINE m == Cardinality(Handed(k))
           n == Cardinality(Handed(k)')
<1>3. m \in Nat /\ n \in Nat /\ m <= n + 1
  BY <1>2, HandedFinite
<1>4. /\ Budget(k) = m + aborts + rebalances
      /\ Budget(k)' = n + aborts' + rebalances'
  BY DEF Budget
<1> HIDE DEF m, n
<1>5. m + aborts + rebalances <= n + aborts' + rebalances'
  BY <1>1, <1>3, PaidFor
<1> QED
  BY <1>4, <1>5

LEMMA AttemptsStep ==
    ASSUME TypeInv, AttemptsByLabel, [Next]_vars
    PROVE  AttemptsByLabel'
<1>1. /\ pc \in [Consumers -> PCs]
      /\ attempts \in [Consumers -> 0 .. CallerRetries + 1]
      /\ CallerRetries \in Nat
      /\ \A c \in Consumers : pc[c] = "backoff" => attempts[c] < CallerRetries
  BY ConsumerAssumption DEF TypeInv, ConsumerTypeOK, LabelsOK
<1>2. ASSUME NEW c \in Consumers,
             \A d \in Consumers \ {c} : pc'[d] = pc[d]
                                        /\ attempts'[d] = attempts[d],
             pc'[c] = "claim" => attempts'[c] = 1,
             pc'[c] = "handle" => attempts'[c] \in 1 .. CallerRetries
      PROVE  AttemptsByLabel'
  BY <1>2 DEF AttemptsByLabel
<1>3. ASSUME NEW c \in Consumers, NEW p \in Partitions, Receive(c, p)
      PROVE  AttemptsByLabel'
  BY <1>1, <1>2, <1>3 DEF Receive, GoTo, LoopHead
<1>4. ASSUME NEW c \in Consumers, ClaimWon(c) PROVE AttemptsByLabel'
  BY <1>1, <1>2, <1>4 DEF ClaimWon, GoTo, LoopHead, AttemptsByLabel
<1>5. ASSUME NEW c \in Consumers, RetryWon(c) PROVE AttemptsByLabel'
  BY <1>1, <1>2, <1>5 DEF RetryWon, GoTo
<1>6. ASSUME NEW c \in Consumers,
             \/ Start(c) \/ Abort(c) \/ ClaimLost(c) \/ HandleReturns(c)
             \/ HandleRaises(c) \/ RecordFailure(c) \/ RetryLost(c)
             \/ Complete(c) \/ CompleteRaises(c) \/ SendToDlq(c) \/ Commit(c)
             \/ \E p \in Partitions : ReceiveUndecodable(c, p)
      PROVE  AttemptsByLabel'
  <2>1. pc'[c] \notin {"claim", "handle"}
    BY <1>1, <1>6
       DEF Start, Abort, ClaimLost, HandleReturns, HandleRaises, RecordFailure,
           RetryLost, Complete, CompleteRaises, SendToDlq, Commit,
           ReceiveUndecodable, Leave, GoTo, AfterFailure
  <2>2. \A d \in Consumers \ {c} : pc'[d] = pc[d] /\ attempts'[d] = attempts[d]
    BY <1>1, <1>6
       DEF Start, Abort, ClaimLost, HandleReturns, HandleRaises, RecordFailure,
           RetryLost, Complete, CompleteRaises, SendToDlq, Commit,
           ReceiveUndecodable, Leave, GoTo
  <2> QED
    BY <1>2, <2>1, <2>2
<1>7. CASE \/ Elapse \/ UNCHANGED vars
           \/ \E p \in Partitions, c \in Consumers : Assign(p, c)
  BY <1>7 DEF Elapse, vars, procVars, Assign, AttemptsByLabel
<1> QED
  BY <1>3, <1>4, <1>5, <1>6, <1>7 DEF Next, Step

LEMMA BudgetStep ==
    ASSUME TypeInv, TypeInv', OnlyCurrentUncommitted, FailureInv, [Next]_vars,
           NEW k \in Keys
    PROVE  WithinBudget(k)'
<1>1. /\ pc \in [Consumers -> PCs]
      /\ cur \in [Consumers -> Positions \cup {NoPos}]
      /\ attempts \in [Consumers -> 0 .. CallerRetries + 1]
      /\ owner \in [Partitions -> Consumers \cup {NoOwner}]
      /\ pos \in [Partitions -> Nat \ {0}]
      /\ committed \in [Partitions -> Nat \ {0}]
      /\ failures \in [Keys -> Nat]
      /\ CallerRetries \in Nat /\ NoId \notin Keys /\ NoOwner \notin Consumers
      /\ aborts \in Nat /\ rebalances \in Nat
  BY ConsumerAssumption DEF TypeInv, ConsumerTypeOK
<1>2. WithinBudget(k) /\ AttemptsByLabel
  BY DEF FailureInv
<1>3. Budget(k) \in Nat
  BY <1>1, HandedFinite DEF Budget
\* Steps within one record.
<1>4. ASSUME pos' = pos, aborts' = aborts, rebalances' = rebalances
      PROVE  Budget(k)' = Budget(k) /\ Budget(k) <= Budget(k)'
  <2>1. Handed(k)' = Handed(k)
    BY <1>4 DEF Handed
  <2> QED
    BY <1>3, <1>4, <2>1 DEF Budget
<1>5. ASSUME NEW c \in Consumers,
             \/ Start(c) \/ ClaimWon(c) \/ ClaimLost(c) \/ HandleReturns(c)
             \/ RecordFailure(c) \/ RetryWon(c) \/ RetryLost(c)
             \/ Complete(c) \/ CompleteRaises(c) \/ SendToDlq(c) \/ Commit(c)
      PROVE  WithinBudget(k)'
  <2>1. /\ pos' = pos /\ aborts' = aborts /\ rebalances' = rebalances
        /\ failures' = failures
    BY <1>5
       DEF Start, ClaimWon, ClaimLost, HandleReturns, RecordFailure, RetryWon,
           RetryLost, Complete, CompleteRaises, SendToDlq, Commit, kafkaVars,
           ledgerVars, faultVars
  <2>2. \A d \in Consumers \ {c} : /\ pc'[d] = pc[d] /\ cur'[d] = cur[d]
                                   /\ attempts'[d] = attempts[d]
    BY <1>1, <1>5
       DEF Start, ClaimWon, ClaimLost, HandleReturns, RecordFailure, RetryWon,
           RetryLost, Complete, CompleteRaises, SendToDlq, Commit, GoTo
  <2>3. \/ AttemptsAhead(c)' = {}
        \/ /\ cur'[c] = cur[c]
           /\ AttemptsAhead(c)' \subseteq AttemptsAhead(c)
    <3>1. CASE ClaimWon(c)
      BY <1>1, <3>1 DEF ClaimWon, GoTo, LoopHead, AttemptsAhead
    <3>2. CASE RecordFailure(c)
      BY <1>1, <3>2 DEF RecordFailure, GoTo, AfterFailure, AttemptsAhead
    <3>3. CASE RetryWon(c)
      BY <1>1, <3>3 DEF RetryWon, GoTo, AttemptsAhead
    <3>4. CASE ~ClaimWon(c) /\ ~RecordFailure(c) /\ ~RetryWon(c)
      <4>1. pc'[c] \in {"poll", "commit", "mark_completed", "dlq"}
        BY <1>1, <1>5, <3>4
           DEF Start, ClaimLost, HandleReturns, RetryLost, Complete,
               CompleteRaises, SendToDlq, Commit, GoTo
      <4> QED
        BY <4>1 DEF AttemptsAhead
    <3> QED
      BY <3>1, <3>2, <3>3, <3>4
  <2>4. OpenAttempts(k)' \subseteq OpenAttempts(k)
    BY <2>2, <2>3, NoNewAttempts
  <2> QED
    BY <1>2, <1>4, <2>1, <2>4, BudgetKept
\* A failure uses up the attempt at hand.
<1>6. ASSUME NEW c \in Consumers, HandleRaises(c) PROVE WithinBudget(k)'
  <2>1. /\ pos' = pos /\ aborts' = aborts /\ rebalances' = rebalances
        /\ cur' = cur /\ attempts' = attempts /\ pc[c] = "handle"
        /\ pc'[c] \in {"mark_failed", "backoff", "dlq"}
        /\ \A d \in Consumers \ {c} : pc'[d] = pc[d]
    BY <1>1, <1>6 DEF HandleRaises, GoTo, AfterFailure, kafkaVars, faultVars
  <2>2. /\ AttemptsAhead(c) = attempts[c] .. CallerRetries
        /\ \/ AttemptsAhead(c)' = {}
           \/ AttemptsAhead(c)' = attempts[c] + 1 .. CallerRetries
        /\ attempts[c] \in 1 .. CallerRetries
    BY <1>2, <2>1 DEF AttemptsAhead, AttemptsByLabel
  <2>3. AttemptsAhead(c)' \subseteq AttemptsAhead(c)
    BY <1>1, <2>2
  <2>4. OpenAttempts(k)' \subseteq OpenAttempts(k)
    BY <2>1, <2>3, NoNewAttempts
  <2>5. CASE failures'[k] = failures[k]
    BY <1>2, <1>4, <2>1, <2>4, <2>5, BudgetKept
  <2>6. CASE failures'[k] # failures[k]
    <3>1. Id(cur[c]) = k /\ failures'[k] = failures[k] + 1
      BY <1>1, <1>6, <2>6 DEF HandleRaises
    <3> DEFINE t0 == <<c, attempts[c]>>
    <3>2. t0 \in OpenAttempts(k)
      BY <1>1, <2>2, <3>1 DEF OpenAttempts
    <3>3. t0 \notin OpenAttempts(k)'
      BY <1>1, <2>2 DEF OpenAttempts
    <3> HIDE DEF t0
    <3>4. OpenAttempts(k)' \subseteq OpenAttempts(k) \ {t0}
      BY <2>4, <3>3
    <3>5. IsFiniteSet(OpenAttempts(k))
      BY <1>2 DEF WithinBudget
    <3>6. /\ IsFiniteSet(OpenAttempts(k) \ {t0})
          /\ Cardinality(OpenAttempts(k) \ {t0})
                = Cardinality(OpenAttempts(k)) - 1
      BY <3>2, <3>5, FS_RemoveElement
    <3>7. /\ IsFiniteSet(OpenAttempts(k)')
          /\ Cardinality(OpenAttempts(k)')
                <= Cardinality(OpenAttempts(k) \ {t0})
      BY <3>4, <3>6, FS_Subset
    <3>8. /\ Cardinality(OpenAttempts(k)) \in Nat
          /\ Cardinality(OpenAttempts(k)') \in Nat
      BY <3>5, <3>7, FS_CardinalityType
    <3>9. CallerRetries * Budget(k) \in Nat
      BY <1>1, <1>3
    <3>10. failures[k] + Cardinality(OpenAttempts(k))
               <= CallerRetries * Budget(k)
      BY <1>2 DEF WithinBudget
    <3>11. failures'[k] + Cardinality(OpenAttempts(k)')
               <= CallerRetries * Budget(k)
      BY <1>1, <3>1, <3>6, <3>7, <3>8, <3>9, <3>10
    <3>12. Budget(k)' = Budget(k)
      BY <1>4, <2>1
    <3> QED
      BY <3>7, <3>11, <3>12 DEF WithinBudget
  <2> QED
    BY <2>5, <2>6
\* A delivery opens max_retries attempts, and pays for them.
<1>7. ASSUME NEW c \in Consumers, NEW p \in Partitions, Receive(c, p)
      PROVE  WithinBudget(k)'
  <2> DEFINE q0 == <<p, pos[p]>>
  <2>1. /\ aborts' = aborts /\ rebalances' = rebalances /\ failures' = failures
        /\ pos' = [pos EXCEPT ![p] = @ + 1]
        /\ cur' = [cur EXCEPT ![c] = q0]
        /\ attempts' = [attempts EXCEPT ![c] = 1]
        /\ \A d \in Consumers \ {c} : pc'[d] = pc[d]
        /\ pos[p] <= Len(Log[p])
    BY <1>1, <1>7 DEF Receive, Delivered, GoTo, ledgerVars, faultVars
  <2>2. q0 \in Positions
    BY <1>1, <2>1, OffsetIsPosition
  <2>3. q0 \notin Handed(k)
    BY <1>1 DEF Handed
  <2>4. Handed(k)' = IF Id(q0) = k THEN Handed(k) \cup {q0} ELSE Handed(k)
    <3>1. ASSUME NEW q \in Positions
          PROVE  q[2] < pos'[q[1]] <=> q[2] < pos[q[1]] \/ q = q0
      <4>1. /\ q[1] \in Partitions /\ q[2] \in Nat /\ q = <<q[1], q[2]>>
        BY PositionFacts, ConsumerAssumption
      <4>2. CASE q[1] = p
        <5>1. pos'[q[1]] = pos[p] + 1 /\ pos[p] \in Nat
          BY <1>1, <2>1, <4>2
        <5>2. q = q0 <=> q[2] = pos[p]
          BY <4>1, <4>2
        <5> QED
          BY <4>1, <4>2, <5>1, <5>2
      <4>3. CASE q[1] # p
        BY <1>1, <2>1, <4>1, <4>3
      <4> QED
        BY <4>2, <4>3
    <3> HIDE DEF q0
    <3> QED
      BY <2>2, <3>1 DEF Handed
  <2>5. \A d \in Consumers \ {c} : /\ cur'[d] = cur[d]
                                   /\ attempts'[d] = attempts[d]
                                   /\ AttemptsAhead(d)' = AttemptsAhead(d)
    BY <1>1, <2>1 DEF AttemptsAhead
  <2>6. cur'[c] = q0 /\ AttemptsAhead(c)' \subseteq 1 .. CallerRetries
    BY <1>1, <1>7, <2>1 DEF Receive, GoTo, LoopHead, AttemptsAhead
  <2> HIDE DEF q0
  <2>7. CASE Id(q0) # k
    <3>1. OpenAttempts(k)' \subseteq OpenAttempts(k)
      BY <2>5, <2>6, <2>7 DEF OpenAttempts
    <3>2. Budget(k)' = Budget(k)
      BY <2>1, <2>4, <2>7 DEF Budget
    <3> QED
      BY <1>2, <1>3, <2>1, <3>1, <3>2, BudgetKept
  <2>8. CASE Id(q0) = k
    <3> DEFINE New == {c} \X (1 .. CallerRetries)
    <3>1. OpenAttempts(k)' \subseteq OpenAttempts(k) \cup New
      BY <2>5, <2>6 DEF OpenAttempts
    <3>2. IsFiniteSet(New) /\ Cardinality(New) = CallerRetries
      BY <1>1, OneDelivery
    <3> HIDE DEF New
    <3>3. IsFiniteSet(OpenAttempts(k))
      BY <1>2 DEF WithinBudget
    <3>4. /\ IsFiniteSet(OpenAttempts(k) \cup New)
          /\ Cardinality(OpenAttempts(k) \cup New)
                 <= Cardinality(OpenAttempts(k)) + CallerRetries
      <4>1. /\ IsFiniteSet(OpenAttempts(k) \cup New)
            /\ Cardinality(OpenAttempts(k) \cup New)
                 = Cardinality(OpenAttempts(k)) + Cardinality(New)
                       - Cardinality(OpenAttempts(k) \cap New)
        BY <3>2, <3>3, FS_Union
      <4>2. Cardinality(OpenAttempts(k) \cap New) \in Nat
        BY <3>3, FS_Intersection, FS_CardinalityType
      <4>3. Cardinality(OpenAttempts(k)) \in Nat
        BY <3>3, FS_CardinalityType
      <4> QED
        BY <1>1, <3>2, <4>1, <4>2, <4>3
    <3>5. /\ IsFiniteSet(OpenAttempts(k)')
          /\ Cardinality(OpenAttempts(k)')
                 <= Cardinality(OpenAttempts(k) \cup New)
      BY <3>1, <3>4, FS_Subset
    <3>6. /\ Cardinality(OpenAttempts(k)) \in Nat
          /\ Cardinality(OpenAttempts(k)') \in Nat
          /\ Cardinality(OpenAttempts(k) \cup New) \in Nat
      BY <3>3, <3>4, <3>5, FS_CardinalityType
    <3>7. Budget(k)' = Budget(k) + 1
      <4>1. Cardinality(Handed(k)') = Cardinality(Handed(k)) + 1
        BY <2>3, <2>4, <2>8, HandedFinite, FS_AddElement
      <4> QED
        BY <1>1, <2>1, <4>1, HandedFinite DEF Budget
    <3>8. CallerRetries * (Budget(k) + 1)
              = CallerRetries * Budget(k) + CallerRetries
      BY <1>1, <1>3
    <3>9. failures[k] + Cardinality(OpenAttempts(k))
              <= CallerRetries * Budget(k)
      BY <1>2 DEF WithinBudget
    <3>10. CallerRetries * Budget(k) \in Nat /\ failures[k] \in Nat
      BY <1>1, <1>3
    <3>11. failures'[k] + Cardinality(OpenAttempts(k)')
               <= CallerRetries * Budget(k) + CallerRetries
      BY <1>1, <2>1, <3>4, <3>5, <3>6, <3>9, <3>10
    <3> QED
      BY <3>5, <3>7, <3>8, <3>11 DEF WithinBudget
  <2> QED
    BY <2>7, <2>8
\* Leaving the group takes back the record at hand, if it is not committed.
<1>8. ASSUME NEW c \in Consumers, Leave(c), NEW q \in Handed(k),
             q \notin Handed(k)'
      PROVE  pc[c] \notin Idle /\ q = cur[c]
  <2>1. /\ q \in Positions /\ q[1] \in Partitions /\ q[2] \in Nat
        /\ q = <<q[1], q[2]>>
    BY <1>8, PositionFacts, ConsumerAssumption DEF Handed
  <2>2. q[2] < pos[q[1]] /\ ~(q[2] < pos'[q[1]])
    BY <1>8, <2>1 DEF Handed
  <2>3. owner[q[1]] = c /\ pos'[q[1]] = committed[q[1]]
    BY <1>1, <1>8, <2>1, <2>2 DEF Leave
  <2>4. /\ pos[q[1]] = committed[q[1]] + 1
        /\ pc[c] \notin Idle
        /\ cur[c] = <<q[1], committed[q[1]]>>
    BY <2>1, <2>2, <2>3 DEF OnlyCurrentUncommitted
  <2>5. q[2] = committed[q[1]]
    BY <1>1, <2>1, <2>2, <2>3, <2>4
  <2> QED
    BY <2>1, <2>4, <2>5
<1>9. ASSUME NEW c \in Consumers, Leave(c)
      PROVE  OpenAttempts(k)' \subseteq OpenAttempts(k)
  <2>1. \A d \in Consumers \ {c} : /\ pc'[d] = pc[d] /\ cur'[d] = cur[d]
                                   /\ attempts'[d] = attempts[d]
    BY <1>1, <1>9 DEF Leave, GoTo
  <2>2. AttemptsAhead(c)' = {}
    BY <1>1, <1>9 DEF Leave, GoTo, AttemptsAhead
  <2> QED
    BY <2>1, <2>2, NoNewAttempts
<1>10. ASSUME NEW c \in Consumers, Abort(c) PROVE WithinBudget(k)'
  <2>1. /\ Leave(c) /\ aborts' = aborts + 1 /\ rebalances' = rebalances
        /\ failures' = failures
    BY <1>10 DEF Abort, Leave
  <2>2. Handed(k) \subseteq Handed(k)' \cup {cur[c]}
    BY <1>8, <2>1
  <2>3. aborts' + rebalances' = aborts + rebalances + 1
    BY <1>1, <2>1
  <2>4. Budget(k) <= Budget(k)'
    BY <2>2, <2>3, OneTakenBack
  <2> QED
    BY <1>2, <1>9, <2>1, <2>4, BudgetKept
<1>11. ASSUME NEW c \in Consumers, NEW p \in Partitions,
              ReceiveUndecodable(c, p)
       PROVE  WithinBudget(k)'
  <2>1. /\ Leave(c) /\ aborts' = aborts /\ rebalances' = rebalances
        /\ failures' = failures /\ pc[c] \in Idle
    BY <1>11 DEF ReceiveUndecodable, Delivered, Leave, Idle
  <2>2. Handed(k) \subseteq Handed(k)'
    BY <1>8, <2>1
  <2>3. Cardinality(Handed(k)) <= Cardinality(Handed(k)')
    BY <2>2, HandedFinite, FS_Subset
  <2>4. Budget(k) <= Budget(k)'
    BY <1>1, <2>1, <2>3, HandedFinite DEF Budget
  <2> QED
    BY <1>2, <1>9, <2>1, <2>4, BudgetKept
<1>12. ASSUME NEW p \in Partitions, NEW c \in Consumers, Assign(p, c)
       PROVE  WithinBudget(k)'
  <2>1. /\ pc' = pc /\ cur' = cur /\ attempts' = attempts
        /\ failures' = failures /\ aborts' = aborts
        /\ pos' = [pos EXCEPT ![p] = committed[p]]
    BY <1>12 DEF Assign, procVars, ledgerVars
  <2>2. OpenAttempts(k)' \subseteq OpenAttempts(k)
    BY <2>1 DEF OpenAttempts, AttemptsAhead
  <2>3. CASE owner[p] = NoOwner
    <3>1. pos' = pos /\ rebalances' = rebalances
      BY <1>1, <1>12, <2>1, <2>3 DEF Assign, OnlyCurrentUncommitted
    <3> QED
      BY <1>2, <1>4, <2>1, <2>2, <3>1, BudgetKept
  <2>4. CASE owner[p] # NoOwner
    <3>1. rebalances' = rebalances + 1
      BY <1>12, <2>4 DEF Assign
    <3>2. ASSUME NEW q \in Handed(k), q \notin Handed(k)'
          PROVE  q = <<p, committed[p]>>
      <4>1. /\ q \in Positions /\ q[1] \in Partitions /\ q[2] \in Nat
            /\ q = <<q[1], q[2]>>
        BY <3>2, PositionFacts, ConsumerAssumption DEF Handed
      <4>2. q[2] < pos[q[1]] /\ ~(q[2] < pos'[q[1]])
        BY <3>2, <4>1 DEF Handed
      <4>3. q[1] = p /\ pos'[p] = committed[p]
        BY <1>1, <2>1, <4>1, <4>2
      <4>4. pos[p] = committed[p] \/ pos[p] = committed[p] + 1
        BY DEF OnlyCurrentUncommitted
      <4>5. q[2] = committed[p]
        BY <1>1, <4>1, <4>2, <4>3, <4>4
      <4> QED
        BY <4>1, <4>3, <4>5
    <3>3. Handed(k) \subseteq Handed(k)' \cup {<<p, committed[p]>>}
      BY <3>2
    <3>4. aborts' + rebalances' = aborts + rebalances + 1
      BY <1>1, <2>1, <3>1
    <3>5. Budget(k) <= Budget(k)'
      BY <3>3, <3>4, OneTakenBack
    <3> QED
      BY <1>2, <2>1, <2>2, <3>5, BudgetKept
  <2> QED
    BY <2>3, <2>4
<1>13. CASE Elapse \/ UNCHANGED vars
  <2>1. /\ pos' = pos /\ aborts' = aborts /\ rebalances' = rebalances
        /\ failures' = failures
        /\ pc' = pc /\ cur' = cur /\ attempts' = attempts
    BY <1>13 DEF Elapse, vars, procVars, kafkaVars, ledgerVars, faultVars
  <2>2. OpenAttempts(k)' \subseteq OpenAttempts(k)
    BY <2>1 DEF OpenAttempts, AttemptsAhead
  <2> QED
    BY <1>2, <1>4, <2>1, <2>2, BudgetKept
<1> QED
  BY <1>5, <1>6, <1>7, <1>10, <1>11, <1>12, <1>13 DEF Next, Step

\* Each delivery of a message fails at most max_retries times, for any number
\* of consumers, copies, deaths, rebalances and lapsed leases, although the
\* consumers overwrite each other's count in the record: FailuresPerDelivery
\* is an invariant.
THEOREM FailuresAreBounded == Spec => []FailuresPerDelivery
<1>1. Init => FailureInv
  <2> SUFFICES ASSUME Init PROVE FailureInv
    OBVIOUS
  <2>1. AttemptsByLabel
    BY DEF Init, AttemptsByLabel
  <2>2. ASSUME NEW k \in Keys PROVE WithinBudget(k)
    <3>1. OpenAttempts(k) = {}
      BY DEF Init, OpenAttempts, AttemptsAhead
    <3>2. aborts = 0 /\ rebalances = 0 /\ failures[k] = 0
      BY DEF Init
    <3>3. Budget(k) \in Nat
      BY <3>2, HandedFinite DEF Budget
    <3>4. CallerRetries * Budget(k) \in Nat
      BY <3>3, ConsumerAssumption
    <3> QED
      BY <3>1, <3>2, <3>4, FS_EmptySet DEF WithinBudget
  <2> QED
    BY <2>1, <2>2 DEF FailureInv
<1>2. TypeInv /\ TypeInv' /\ OnlyCurrentUncommitted /\ FailureInv /\ [Next]_vars
          => FailureInv'
  BY AttemptsStep, BudgetStep DEF FailureInv
<1>3. ASSUME TypeInv, FailureInv PROVE FailuresPerDelivery
  <2>1. ASSUME NEW k \in Keys
        PROVE  failures[k] <= CallerRetries * Deliveries(k)
    <3> DEFINE S == {q \in Positions : Id(q) = k}
    <3>1. IsFiniteSet(S)
      BY PositionsFinite, FS_Subset
    <3>2. Handed(k) \subseteq S
      BY DEF Handed
    <3>3. Cardinality(Handed(k)) <= Cardinality(S) /\ Cardinality(S) \in Nat
      BY <3>1, <3>2, FS_Subset, FS_CardinalityType
    <3>4. /\ failures[k] \in Nat /\ aborts \in Nat /\ rebalances \in Nat
          /\ CallerRetries \in Nat
      BY <1>3, ConsumerAssumption DEF TypeInv, ConsumerTypeOK
    <3>5. /\ IsFiniteSet(OpenAttempts(k))
          /\ failures[k] + Cardinality(OpenAttempts(k))
                 <= CallerRetries * Budget(k)
      BY <1>3 DEF FailureInv, WithinBudget
    <3>6. Cardinality(OpenAttempts(k)) \in Nat
      BY <3>5, FS_CardinalityType
    <3> HIDE DEF S
    <3>7. Budget(k) \in Nat /\ Cardinality(S) + aborts + rebalances \in Nat
          /\ Budget(k) <= Cardinality(S) + aborts + rebalances
      BY <3>3, <3>4, HandedFinite DEF Budget
    <3>8. CallerRetries * Budget(k)
              <= CallerRetries * (Cardinality(S) + aborts + rebalances)
      BY <3>4, <3>7, TimesMonotone
    <3>9. /\ CallerRetries * Budget(k) \in Nat
          /\ CallerRetries * (Cardinality(S) + aborts + rebalances) \in Nat
      BY <3>4, <3>7
    <3>10. failures[k] <= CallerRetries * (Cardinality(S) + aborts + rebalances)
      BY <3>4, <3>5, <3>6, <3>8, <3>9
    <3> QED
      BY <3>10 DEF Deliveries, S
  <2> QED
    BY <2>1 DEF FailuresPerDelivery
<1> QED
  BY <1>1, <1>2, <1>3, TypeInvHolds, CommitCoversOneRecord, PTL DEF Spec
=============================================================================
