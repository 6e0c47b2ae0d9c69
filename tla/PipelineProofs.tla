--------------------------- MODULE PipelineProofs ---------------------------
(***************************************************************************)
(* Proofs about Pipeline.  A step of the pipeline is a step of the consumer*)
(* group or of the outbox, so what is proved of each holds of the whole;   *)
(* the theorems here relate the state of the two.                          *)
(***************************************************************************)
EXTENDS Pipeline, DedupConsumerLossProofs

BoxProofs == INSTANCE OutboxProofs

-----------------------------------------------------------------------------
(***************************************************************************)
(* Box and BoxProofs are two instances of the one module Outbox.           *)
(***************************************************************************)
LEMMA SameConstants ==
    /\ BoxProofs!Txns = Box!Txns
    /\ {NumTxns, MaxFaults, MaxStops} \subseteq Nat
    /\ DOMAIN Message = BoxProofs!Txns
    /\ BatchSize \in Nat \ {0}
    /\ SendMayFail \in BOOLEAN
  BY PipelineAssumption DEF Box!Txns, BoxProofs!Txns

LEMMA SameInit == Box!OutboxInit <=> BoxProofs!OutboxInit
  BY DEF Box!OutboxInit, BoxProofs!OutboxInit, Box!Txns, BoxProofs!Txns,
         Box!NoMarks, BoxProofs!NoMarks

LEMMA SameTxnStep ==
    ASSUME NEW i
    PROVE  Box!Write(i) \/ Box!CommitTxn(i) \/ Box!RollBackTxn(i)
              <=> \/ BoxProofs!Write(i) \/ BoxProofs!CommitTxn(i)
                  \/ BoxProofs!RollBackTxn(i)
<1>1. Box!Write(i) <=> BoxProofs!Write(i)
  BY DEF Box!Write, BoxProofs!Write, Box!Inserted, BoxProofs!Inserted,
         Box!ConflictSettled, BoxProofs!ConflictSettled,
         Box!Rivals, BoxProofs!Rivals, Box!Txns, BoxProofs!Txns,
         Box!relayVars, BoxProofs!relayVars
<1>2. ASSUME NEW o, NEW s
      PROVE  Box!EndTxn(i, o, s) <=> BoxProofs!EndTxn(i, o, s)
  BY DEF Box!EndTxn, BoxProofs!EndTxn, Box!relayVars, BoxProofs!relayVars
<1> QED
  BY <1>1, <1>2 DEF Box!CommitTxn, BoxProofs!CommitTxn,
                    Box!RollBackTxn, BoxProofs!RollBackTxn

LEMMA SameRelayStep ==
    ASSUME NEW r
    PROVE  Box!RelayStep(r) <=> BoxProofs!RelayStep(r)
<1>1. Box!Fetch(r) <=> BoxProofs!Fetch(r)
  <2>1. Box!Fetchable = BoxProofs!Fetchable
    BY DEF Box!Fetchable, BoxProofs!Fetchable, Box!Pending, BoxProofs!Pending,
           Box!Locked, BoxProofs!Locked, Box!Txns, BoxProofs!Txns
  <2>2. ASSUME NEW S, NEW n PROVE Box!Lowest(S, n) = BoxProofs!Lowest(S, n)
    BY DEF Box!Lowest, BoxProofs!Lowest, Box!Cardinality,
           BoxProofs!Cardinality
  <2> QED
    BY <2>1, <2>2 DEF Box!Fetch, BoxProofs!Fetch, Box!GoToStep,
                      BoxProofs!GoToStep
<1>2. Box!LeaveLoop(r) <=> BoxProofs!LeaveLoop(r)
  BY DEF Box!LeaveLoop, BoxProofs!LeaveLoop, Box!GoToStep, BoxProofs!GoToStep
<1>3. Box!SendReturns(r) <=> BoxProofs!SendReturns(r)
  BY DEF Box!SendReturns, BoxProofs!SendReturns, Box!Current,
         BoxProofs!Current, Box!GoToStep, BoxProofs!GoToStep
<1>4. Box!SendRaises(r) <=> BoxProofs!SendRaises(r)
  BY DEF Box!SendRaises, BoxProofs!SendRaises, Box!Fault, BoxProofs!Fault,
         Box!Current, BoxProofs!Current, Box!GoToStep, BoxProofs!GoToStep
<1>5. ASSUME NEW s PROVE Box!Mark(r, s) <=> BoxProofs!Mark(r, s)
  BY DEF Box!Mark, BoxProofs!Mark, Box!DealtWith, BoxProofs!DealtWith,
         Box!Current, BoxProofs!Current, Box!GoToStep, BoxProofs!GoToStep
<1>6. Box!CommitBatch(r) <=> BoxProofs!CommitBatch(r)
  BY DEF Box!CommitBatch, BoxProofs!CommitBatch, Box!NoMarks,
         BoxProofs!NoMarks, Box!Txns, BoxProofs!Txns,
         Box!GoToStep, BoxProofs!GoToStep
<1> QED
  BY <1>1, <1>2, <1>3, <1>4, <1>5, <1>6
     DEF Box!RelayStep, BoxProofs!RelayStep, Box!MarkPublished,
         BoxProofs!MarkPublished, Box!MarkFailed, BoxProofs!MarkFailed

LEMMA SameRelayFate ==
    ASSUME NEW r
    PROVE  /\ Box!StartRelay(r) <=> BoxProofs!StartRelay(r)
           /\ Box!StopRelay(r) <=> BoxProofs!StopRelay(r)
           /\ Box!BatchRaises(r) <=> BoxProofs!BatchRaises(r)
           /\ Box!CrashRelay(r) <=> BoxProofs!CrashRelay(r)
<1>1. Box!StartRelay(r) <=> BoxProofs!StartRelay(r)
  BY DEF Box!StartRelay, BoxProofs!StartRelay, Box!GoToStep,
         BoxProofs!GoToStep
<1>2. Box!StopRelay(r) <=> BoxProofs!StopRelay(r)
  BY DEF Box!StopRelay, BoxProofs!StopRelay
<1>3. Box!RollBackBatch(r) <=> BoxProofs!RollBackBatch(r)
  BY DEF Box!RollBackBatch, BoxProofs!RollBackBatch, Box!Fault,
         BoxProofs!Fault, Box!NoMarks, BoxProofs!NoMarks
<1>4. Box!BatchRaises(r) <=> BoxProofs!BatchRaises(r)
  BY <1>3 DEF Box!BatchRaises, BoxProofs!BatchRaises, Box!GoToStep,
              BoxProofs!GoToStep
<1>5. Box!CrashRelay(r) <=> BoxProofs!CrashRelay(r)
  BY <1>3 DEF Box!CrashRelay, BoxProofs!CrashRelay, Box!GoToStep,
              BoxProofs!GoToStep
<1> QED
  BY <1>1, <1>2, <1>4, <1>5

LEMMA SameNext == Box!OutboxNext <=> BoxProofs!OutboxNext
<1>1. Box!Txns = BoxProofs!Txns
  BY SameConstants
<1>2. (\E i \in Box!Txns :
           Box!Write(i) \/ Box!CommitTxn(i) \/ Box!RollBackTxn(i))
        <=> \E i \in BoxProofs!Txns : \/ BoxProofs!Write(i)
                                      \/ BoxProofs!CommitTxn(i)
                                      \/ BoxProofs!RollBackTxn(i)
  BY <1>1, SameTxnStep
<1> QED
  BY <1>2, SameRelayStep, SameRelayFate
     DEF Box!OutboxNext, BoxProofs!OutboxNext

-----------------------------------------------------------------------------
(***************************************************************************)
(* The steps of the pipeline                                               *)
(***************************************************************************)
LEMMA PipelineProjects ==
    ASSUME [PipelineNext]_pipelineVars
    PROVE  /\ [Next]_vars
           /\ [Box!OutboxNext]_(Box!outboxVars)
           /\ [BoxProofs!OutboxNext]_(BoxProofs!outboxVars)
           /\ \/ Next /\ OnlyPublished /\ UNCHANGED boxVars
              \/ UNCHANGED vars
<1>1. UNCHANGED boxVars => /\ UNCHANGED Box!outboxVars
                           /\ UNCHANGED BoxProofs!outboxVars
  BY DEF boxVars, Box!outboxVars, BoxProofs!outboxVars, Box!relayVars,
         BoxProofs!relayVars
<1>2. UNCHANGED pipelineVars => UNCHANGED vars /\ UNCHANGED boxVars
  BY DEF pipelineVars
<1> QED
  BY <1>1, <1>2, SameNext DEF PipelineNext, ConsumerNext, RelayNext

\* Put together, the consumers still do only what they do alone, and so do the
\* relays and the business transactions: every theorem about the consumer group
\* and every theorem about the outbox holds of the pipeline.
THEOREM PipelineImplementsComponents == PipelineSpec => Spec /\ Box!OutboxSpec
<1>1. PipelineInit => Init /\ Box!OutboxInit
  BY DEF PipelineInit
<1>2. [PipelineNext]_pipelineVars
          => [Next]_vars /\ [Box!OutboxNext]_(Box!outboxVars)
  BY PipelineProjects
<1> QED
  BY <1>1, <1>2, PTL DEF PipelineSpec, Spec, Box!OutboxSpec

-----------------------------------------------------------------------------
(***************************************************************************)
(* Nothing is handled that was not committed.  A record is delivered only  *)
(* after it was published, and stays so while it is being processed; what  *)
(* was published is committed by the invariant of the outbox.              *)
(***************************************************************************)
Published(q) == sent[q[1]] > 0

PublishedInv ==
    /\ \A q \in handled \cup dlq : Published(q)
    /\ \A c \in Consumers : pc[c] \notin Idle => Published(cur[c])

\* What a consumer step does to the records that must be published.
LEMMA RecordsUnderway ==
    ASSUME TypeInv, Next
    PROVE  /\ \A q \in (handled \cup dlq)' :
                  \/ q \in handled \cup dlq
                  \/ \E c \in Consumers : pc[c] \notin Idle /\ q = cur[c]
           /\ \A c \in Consumers : pc'[c] \notin Idle =>
                  \/ pc[c] \notin Idle /\ cur'[c] = cur[c]
                  \/ \E p \in Partitions : /\ cur'[c] = <<p, pos[p]>>
                                           /\ pos'[p] = pos[p] + 1
<1>1. /\ pc \in [Consumers -> PCs]
      /\ cur \in [Consumers -> Positions \cup {NoPos}]
      /\ pos \in [Partitions -> Nat \ {0}]
  BY DEF TypeInv, ConsumerTypeOK
<1> DEFINE Settled == \A q \in (handled \cup dlq)' :
                 \/ q \in handled \cup dlq
                 \/ \E c \in Consumers : pc[c] \notin Idle /\ q = cur[c]
           Underway(c) ==
                 pc'[c] \notin Idle =>
                     \/ pc[c] \notin Idle /\ cur'[c] = cur[c]
                     \/ \E p \in Partitions : /\ cur'[c] = <<p, pos[p]>>
                                              /\ pos'[p] = pos[p] + 1
<1>2. ASSUME NEW c \in Consumers,
             \/ ClaimWon(c) \/ ClaimLost(c) \/ HandleReturns(c)
             \/ HandleRaises(c) \/ RecordFailure(c) \/ RetryWon(c)
             \/ RetryLost(c) \/ Complete(c) \/ CompleteRaises(c)
             \/ SendToDlq(c)
      PROVE  Settled /\ \A d \in Consumers : Underway(d)
  <2>1. /\ handled' \cup dlq' \subseteq handled \cup dlq \cup {cur[c]}
        /\ pc[c] \notin Idle
        /\ cur' = cur
    BY <1>1, <1>2
       DEF ClaimWon, ClaimLost, HandleReturns, HandleRaises, RecordFailure,
           RetryWon, RetryLost, Complete, CompleteRaises, SendToDlq,
           ledgerVars, Idle
  <2>2. \A d \in Consumers \ {c} : pc'[d] = pc[d]
    BY <1>1, <1>2
       DEF ClaimWon, ClaimLost, HandleReturns, HandleRaises, RecordFailure,
           RetryWon, RetryLost, Complete, CompleteRaises, SendToDlq, GoTo
  <2> QED
    BY <2>1, <2>2
<1>3. ASSUME NEW c \in Consumers, NEW p \in Partitions, Receive(c, p)
      PROVE  Settled /\ \A d \in Consumers : Underway(d)
  <2>1. /\ handled' = handled /\ dlq' = dlq
        /\ cur'[c] = <<p, pos[p]>> /\ pos'[p] = pos[p] + 1
        /\ \A d \in Consumers \ {c} : pc'[d] = pc[d] /\ cur'[d] = cur[d]
    BY <1>1, <1>3 DEF Receive, GoTo, ledgerVars
  <2> QED
    BY <2>1
<1>4. ASSUME NEW c \in Consumers,
             \/ Start(c) \/ Abort(c) \/ Commit(c)
             \/ \E p \in Partitions : ReceiveUndecodable(c, p)
      PROVE  Settled /\ \A d \in Consumers : Underway(d)
  <2>1. /\ handled' = handled /\ dlq' = dlq
        /\ pc'[c] \in Idle
        /\ \A d \in Consumers \ {c} : pc'[d] = pc[d] /\ cur'[d] = cur[d]
    BY <1>1, <1>4
       DEF Start, Abort, Commit, ReceiveUndecodable, Leave, GoTo, ledgerVars,
           Idle
  <2> QED
    BY <2>1
<1>5. ASSUME Elapse \/ \E p \in Partitions, c \in Consumers : Assign(p, c)
      PROVE  Settled /\ \A d \in Consumers : Underway(d)
  <2>1. handled' = handled /\ dlq' = dlq /\ pc' = pc /\ cur' = cur
    BY <1>5 DEF Elapse, Assign, procVars, ledgerVars
  <2> QED
    BY <2>1
<1> HIDE DEF Settled, Underway
<1>6. Settled /\ \A d \in Consumers : Underway(d)
  BY <1>2, <1>3, <1>4, <1>5 DEF Next, Step
<1> QED
  BY <1>6 DEF Settled, Underway

\* The inductive invariant of the pipeline.
PipelineInv == TypeInv /\ BoxProofs!OutboxInv /\ PublishedInv

LEMMA PipelineInvInit ==
    ASSUME PipelineInit
    PROVE  PipelineInv
<1>1. TypeInv
  BY TypeInvInit DEF PipelineInit
<1>2. BoxProofs!OutboxInv
  BY SameConstants, SameInit, BoxProofs!OutboxInvInit DEF PipelineInit
<1>3. PublishedInv
  BY DEF PipelineInit, Init, PublishedInv, Idle
<1> QED
  BY <1>1, <1>2, <1>3 DEF PipelineInv

\* What was published stays published.
LEMMA SentIsForGood ==
    ASSUME BoxProofs!OutboxInv, [BoxProofs!OutboxNext]_(BoxProofs!outboxVars),
           NEW i \in Partitions, sent[i] > 0
    PROVE  sent'[i] > 0
<1>1. i \in BoxProofs!Txns
  BY PipelineAssumption, SameConstants
<1>2. BoxProofs!Sent \subseteq BoxProofs!Sent'
  BY SameConstants, BoxProofs!OutboxEffect
<1> QED
  BY <1>1, <1>2 DEF BoxProofs!Sent

LEMMA PublishedStep ==
    ASSUME PipelineInv, [PipelineNext]_pipelineVars
    PROVE  PublishedInv'
<1>1. /\ TypeInv /\ BoxProofs!OutboxInv /\ PublishedInv
      /\ [BoxProofs!OutboxNext]_(BoxProofs!outboxVars)
  BY PipelineProjects DEF PipelineInv
<1>2. /\ \A q \in handled \cup dlq : q[1] \in Partitions
      /\ \A c \in Consumers : pc[c] \notin Idle => cur[c][1] \in Partitions
  BY <1>1, PositionFacts DEF TypeInv, ConsumerTypeOK, LabelsOK
<1>3. \A i \in Partitions : sent[i] > 0 => sent'[i] > 0
  BY <1>1, SentIsForGood
<1>4. CASE UNCHANGED vars
  <2>1. handled' = handled /\ dlq' = dlq /\ pc' = pc /\ cur' = cur
    BY <1>4 DEF vars, procVars, ledgerVars
  <2> QED
    BY <1>1, <1>2, <1>3, <2>1 DEF PublishedInv, Published
<1>5. CASE Next /\ OnlyPublished /\ UNCHANGED boxVars
  <2>1. sent' = sent
    BY <1>5 DEF boxVars
  <2>2. ASSUME NEW p \in Partitions, pos'[p] = pos[p] + 1 PROVE sent[p] > 0
    <3>1. pos[p] \in Nat \ {0} /\ sent[p] \in Nat
      BY <1>1, PipelineAssumption, SameConstants
         DEF TypeInv, ConsumerTypeOK, BoxProofs!OutboxInv,
             BoxProofs!OutboxTypeInv, BoxProofs!OutboxTypeOK
    <3>2. pos[p] + 1 <= sent[p] + 1
      BY <1>5, <2>2 DEF OnlyPublished
    <3> QED
      BY <3>1, <3>2
  <2>3. \A q \in (handled \cup dlq)' : Published(q)'
    BY <1>1, <1>5, <2>1, RecordsUnderway DEF PublishedInv, Published
  <2>4. ASSUME NEW c \in Consumers, pc'[c] \notin Idle PROVE Published(cur[c])'
    <3>1. CASE pc[c] \notin Idle /\ cur'[c] = cur[c]
      BY <1>1, <2>1, <3>1 DEF PublishedInv, Published
    <3>2. ASSUME NEW p \in Partitions, cur'[c] = <<p, pos[p]>>,
                 pos'[p] = pos[p] + 1
          PROVE  Published(cur[c])'
      BY <2>1, <2>2, <3>2 DEF Published
    <3> QED
      BY <1>1, <1>5, <2>4, <3>1, <3>2, RecordsUnderway
  <2> QED
    BY <2>3, <2>4 DEF PublishedInv
<1> QED
  BY <1>4, <1>5, PipelineProjects

LEMMA PipelineInvStep ==
    ASSUME PipelineInv, [PipelineNext]_pipelineVars
    PROVE  PipelineInv'
<1>1. TypeInv'
  BY PipelineProjects, TypeInvStep DEF PipelineInv
<1>2. BoxProofs!OutboxInv'
  BY PipelineProjects, SameConstants, BoxProofs!OutboxInvStep DEF PipelineInv
<1> QED
  BY <1>1, <1>2, PublishedStep DEF PipelineInv

LEMMA PipelineInvHolds == PipelineSpec => []PipelineInv
  BY PipelineInvInit, PipelineInvStep, PTL DEF PipelineSpec

\* However relays and business transactions crash, roll back and are refused,
\* and whatever the consumers are handed of it: a record that was handled or
\* dead-lettered belongs to a transaction that was committed.
THEOREM HandledWasCommitted == PipelineSpec => []HandledMeansCommitted
<1>1. ASSUME PipelineInv, NEW q \in handled \cup dlq
      PROVE  txn[q[1]] = "committed"
  <2>1. q[1] \in BoxProofs!Txns
    BY <1>1, PositionFacts, PipelineAssumption, SameConstants
       DEF PipelineInv, TypeInv, ConsumerTypeOK
  <2>2. sent[q[1]] > 0
    BY <1>1 DEF PipelineInv, PublishedInv, Published
  <2>3. row[q[1]] \in BoxProofs!RowStatus
    BY <1>1, <2>1, <2>2
       DEF PipelineInv, BoxProofs!OutboxInv, BoxProofs!SentInv
  <2>4. txn[q[1]] \in {"new", "open", "committed", "rolled_back"}
    BY <1>1, <2>1
       DEF PipelineInv, BoxProofs!OutboxInv, BoxProofs!OutboxTypeInv,
           BoxProofs!OutboxTypeOK
  <2> QED
    BY <1>1, <2>1, <2>3, <2>4
       DEF PipelineInv, BoxProofs!OutboxInv, BoxProofs!RowByTxn,
           BoxProofs!RowStatus
<1>2. PipelineInv => HandledMeansCommitted
  BY <1>1 DEF HandledMeansCommitted
<1> QED
  BY <1>2, PipelineInvHolds, PTL

-----------------------------------------------------------------------------
(***************************************************************************)
(* Duplicates.  The copies of a message that were handled are no more than *)
(* its side effects, of which EffectsAreRecordedOnce says that none is     *)
(* repeated unless its return went unrecorded.                             *)
(***************************************************************************)
CopiesOf(k) == {q \in handled : Id(q) = k}

CopiesInv ==
    \A k \in Keys : /\ IsFiniteSet(CopiesOf(k))
                    /\ Cardinality(CopiesOf(k)) <= effects[k]

LEMMA CopiesStep ==
    ASSUME TypeInv, CopiesInv, [Next]_vars
    PROVE  CopiesInv'
<1>1. effects \in [Keys -> Nat] /\ NoId \notin Keys
  BY ConsumerAssumption DEF TypeInv, ConsumerTypeOK
<1>2. ASSUME handled' = handled, effects' = effects PROVE CopiesInv'
  BY <1>2 DEF CopiesInv, CopiesOf
<1>3. ASSUME NEW c \in Consumers, HandleReturns(c) PROVE CopiesInv'
  <2>1. handled' = handled \cup {cur[c]}
    BY <1>3 DEF HandleReturns
  <2>2. ASSUME NEW k \in Keys
        PROVE  /\ IsFiniteSet(CopiesOf(k)')
               /\ Cardinality(CopiesOf(k)') <= effects'[k]
    <3> DEFINE S == CopiesOf(k)
               R == CopiesOf(k)'
    <3>1. IsFiniteSet(S) /\ Cardinality(S) <= effects[k]
      BY DEF CopiesInv
    <3>2. CASE Id(cur[c]) # k
      <4>1. R = S
        BY <2>1, <3>2 DEF CopiesOf
      <4>2. effects'[k] = effects[k]
        BY <1>1, <1>3, <3>2 DEF HandleReturns
      <4> QED
        BY <3>1, <4>1, <4>2
    <3>3. CASE Id(cur[c]) = k
      <4>1. R \subseteq S \cup {cur[c]}
        BY <2>1 DEF CopiesOf
      <4>2. effects'[k] = effects[k] + 1
        BY <1>1, <1>3, <3>3 DEF HandleReturns, HasId
      <4> HIDE DEF S, R
      <4>3. IsFiniteSet(S \cup {cur[c]})
        BY <3>1, FS_AddElement
      <4>4. IsFiniteSet(R) /\ Cardinality(R) <= Cardinality(S) + 1
        BY <3>1, <4>1, <4>3, FS_Subset, AtMostOneMore
      <4>5. Cardinality(R) \in Nat /\ Cardinality(S) \in Nat
        BY <3>1, <4>4, FS_CardinalityType
      <4>6. Cardinality(R) <= effects'[k]
        BY <1>1, <3>1, <4>2, <4>4, <4>5
      <4> QED
        BY <4>4, <4>6 DEF R
    <3> QED
      BY <3>2, <3>3
  <2> QED
    BY <2>2 DEF CopiesInv
<1>4. ASSUME NEW c \in Consumers,
             \/ Start(c) \/ Abort(c) \/ Commit(c) \/ ClaimWon(c)
             \/ ClaimLost(c) \/ HandleRaises(c) \/ RecordFailure(c)
             \/ RetryWon(c) \/ RetryLost(c) \/ Complete(c)
             \/ CompleteRaises(c) \/ SendToDlq(c)
             \/ \E p \in Partitions : Receive(c, p) \/ ReceiveUndecodable(c, p)
      PROVE  handled' = handled /\ effects' = effects
  BY <1>4
     DEF Start, Abort, Commit, ClaimWon, ClaimLost, HandleRaises,
         RecordFailure, RetryWon, RetryLost, Complete, CompleteRaises,
         SendToDlq, Receive, ReceiveUndecodable, Leave, ledgerVars
<1>5. ASSUME \/ Elapse \/ UNCHANGED vars
             \/ \E p \in Partitions, c \in Consumers : Assign(p, c)
      PROVE  handled' = handled /\ effects' = effects
  BY <1>5 DEF Elapse, Assign, ledgerVars, vars
<1> QED
  BY <1>2, <1>3, <1>4, <1>5 DEF Next, Step

LEMMA CopiesHold == Spec => []CopiesInv
<1>1. ASSUME Init PROVE CopiesInv
  <2>1. \A k \in Keys : CopiesOf(k) = {} /\ effects[k] = 0
    BY <1>1 DEF Init, CopiesOf
  <2> QED
    BY <2>1, FS_EmptySet DEF CopiesInv
<1>2. TypeInv /\ CopiesInv /\ [Next]_vars => CopiesInv'
  BY CopiesStep
<1> QED
  BY <1>1, <1>2, TypeInvHolds, PTL DEF Spec

\* A row published again after a crash or a refused UPDATE of the relay is not
\* handled again: as long as every return of handle() was recorded, no lease
\* runs out under a handler and no record expires, one of its copies is handled.
THEOREM RepublishedRowHandledOnce ==
    ASSUME PromptRegime
    PROVE  PipelineSpec => []IdentifiedRowHandledOnce
<1>1. ASSUME TypeInv, CopiesInv, RepeatsAreUnrecorded
      PROVE  IdentifiedRowHandledOnce
  <2> SUFFICES ASSUME NEW i \in Partitions, PayloadId[i] # NoId,
                      unrecorded[PayloadId[i]] = 0
               PROVE  Cardinality(HandledCopies(i)) <= 1
    BY DEF IdentifiedRowHandledOnce
  <2> DEFINE k == PayloadId[i]
             S == CopiesOf(k)
             R == HandledCopies(i)
  <2>1. k \in Keys
    BY PipelineAssumption
  <2>2. \A q \in Positions : q[1] = i => Id(q) = k
    <3>1. Log[i] = [n \in 1 .. MaxFaults + 1 |-> k]
      BY PipelineAssumption DEF TopicLog, Box!Txns
    <3>2. Len(Log[i]) = MaxFaults + 1
      BY <3>1, PipelineAssumption
    <3>3. ASSUME NEW q \in Positions, q[1] = i
          PROVE  q[2] \in 1 .. MaxFaults + 1
      <4>1. q[2] \in 1 .. Len(Log[q[1]])
        BY PositionFacts
      <4> QED
        BY <3>2, <3>3, <4>1
    <3>4. \A n \in 1 .. MaxFaults + 1 : Log[i][n] = k
      BY <3>1
    <3> QED
      BY <3>3, <3>4 DEF Id
  <2>3. R \subseteq S
    BY <1>1, <2>2 DEF HandledCopies, CopiesOf, TypeInv, ConsumerTypeOK
  <2>4. IsFiniteSet(S) /\ Cardinality(S) <= effects[k]
    BY <1>1, <2>1 DEF CopiesInv
  <2>5. effects[k] <= 1 + unrecorded[k] /\ effects[k] \in Nat
    BY <1>1, <2>1 DEF RepeatsAreUnrecorded, TypeInv, ConsumerTypeOK
  <2> HIDE DEF S, R
  <2>6. IsFiniteSet(R) /\ Cardinality(R) <= Cardinality(S)
    BY <2>3, <2>4, FS_Subset
  <2>7. Cardinality(R) \in Nat /\ Cardinality(S) \in Nat
    BY <2>4, <2>6, FS_CardinalityType
  <2>8. Cardinality(R) <= 1
    BY <2>4, <2>5, <2>6, <2>7
  <2> QED
    BY <2>8 DEF R
<1> QED
  BY <1>1, PipelineImplementsComponents, TypeInvHolds, CopiesHold,
     EffectsAreRecordedOnce, PTL
=============================================================================
