------------------------ MODULE DedupConsumerProofs ------------------------
(***************************************************************************)
(* Proofs about DedupConsumer, for any number of consumers, partitions and *)
(* messages, and any number of deaths and rebalances.                      *)
(***************************************************************************)
EXTENDS DedupConsumer, RedisStoreProofs

\* A position of the log names a record, and its id is a key or one of the
\* two that are no id.
LEMMA PositionFacts ==
    ASSUME NEW q \in Positions
    PROVE  /\ q[1] \in Partitions
           /\ q[2] \in 1 .. Len(Log[q[1]])
           /\ q = <<q[1], q[2]>>
           /\ Id(q) \in Keys \cup {NoId, Undecodable}
<1>1. PICK p \in Partitions : q \in {p} \X (1 .. Len(Log[p]))
  BY DEF Positions
<1>2. q[1] = p /\ q[2] \in 1 .. Len(Log[p]) /\ q = <<q[1], q[2]>>
  BY <1>1
<1>3. Log[p] \in Seq(Keys \cup {NoId, Undecodable})
  BY ConsumerAssumption
<1>4. Log[p][q[2]] \in Keys \cup {NoId, Undecodable}
  BY <1>2, <1>3
<1> QED
  BY <1>2, <1>4 DEF Id

\* Every offset up to the end of a partition is a position.
LEMMA OffsetIsPosition ==
    ASSUME NEW p \in Partitions, NEW o \in Nat \ {0}, o <= Len(Log[p])
    PROVE  <<p, o>> \in Positions
<1>1. Len(Log[p]) \in Nat
  BY ConsumerAssumption
<1>2. <<p, o>> \in {p} \X (1 .. Len(Log[p]))
  BY <1>1
<1> QED
  BY <1>2 DEF Positions

LEMMA CallerRetriesType == CallerRetries \in Nat
  BY ConsumerAssumption

-----------------------------------------------------------------------------
(***************************************************************************)
(* Type correctness.  What a consumer does with cur[c] is well typed only  *)
(* because its label says whether there is a record and whether that has an*)
(* id, so the labels are part of the invariant.                            *)
(***************************************************************************)
LabelsOK ==
    \A c \in Consumers :
        /\ pc[c] \notin Idle => cur[c] \in Positions /\ Id(cur[c]) # Undecodable
        /\ pc[c] \in {"claim", "mark_failed", "mark_completed"} => HasId(c)
        /\ pc[c] = "backoff" => attempts[c] < CallerRetries

TypeInv == ConsumerTypeOK /\ LabelsOK

\* The variables of the consumers and of Kafka.
ProcTypeOK ==
    /\ pc \in [Consumers -> PCs]
    /\ cur \in [Consumers -> Positions \cup {NoPos}]
    /\ attempts \in [Consumers -> 0 .. CallerRetries + 1]
    /\ grant \in [Consumers -> 0 .. LeaseTicks]

KafkaTypeOK ==
    /\ owner \in [Partitions -> Consumers \cup {NoOwner}]
    /\ pos \in [Partitions -> Nat \ {0}]
    /\ committed \in [Partitions -> Nat \ {0}]

LedgerTypeOK ==
    /\ dlq \subseteq Positions
    /\ handled \subseteq Positions
    /\ effects \in [Keys -> Nat]
    /\ failures \in [Keys -> Nat]
    /\ unrecorded \in [Keys -> Nat]
    /\ abandoned \subseteq Keys

FaultTypeOK == aborts \in 0 .. MaxAborts /\ rebalances \in 0 .. MaxRebalances

LEMMA TypeParts ==
    TypeInv <=> /\ StoreTypeOK /\ ProcTypeOK /\ KafkaTypeOK
                /\ LedgerTypeOK /\ FaultTypeOK /\ LabelsOK
  BY DEF TypeInv, ConsumerTypeOK, ProcTypeOK, KafkaTypeOK, LedgerTypeOK,
         FaultTypeOK

\* The id of a record in progress is a key unless the record has none.
LEMMA CurrentId ==
    ASSUME TypeInv, NEW c \in Consumers, pc[c] \notin Idle
    PROVE  /\ cur[c] \in Positions
           /\ HasId(c) => Id(cur[c]) \in Keys
  BY PositionFacts DEF TypeInv, LabelsOK, HasId

LEMMA TypeInvInit == Init => TypeInv
<1>1. Init => StoreTypeOK
  BY StoreAssumption DEF Init, StoreInit, StoreTypeOK
<1>2. Init => ProcTypeOK
  BY ConfigAssumption, CallerRetriesType DEF Init, ProcTypeOK, PCs, Idle
<1>3. Init => KafkaTypeOK /\ LedgerTypeOK
  BY DEF Init, KafkaTypeOK, LedgerTypeOK
<1>4. Init => FaultTypeOK
  BY ConsumerAssumption DEF Init, FaultTypeOK
<1>5. Init => LabelsOK
  BY DEF Init, LabelsOK, Idle
<1> QED
  BY <1>1, <1>2, <1>3, <1>4, <1>5, TypeParts

LEMMA TypeInvStep ==
    ASSUME TypeInv, [Next]_vars
    PROVE  TypeInv'
<1>0. /\ StoreTypeOK /\ ProcTypeOK /\ KafkaTypeOK
      /\ LedgerTypeOK /\ FaultTypeOK /\ LabelsOK
  BY TypeParts
<1>a. ASSUME UNCHANGED storeVars PROVE StoreTypeOK'
  BY <1>0, <1>a DEF storeVars, StoreTypeOK
<1>b. ASSUME UNCHANGED kafkaVars PROVE KafkaTypeOK'
  BY <1>0, <1>b DEF kafkaVars, KafkaTypeOK
<1>c. ASSUME UNCHANGED ledgerVars PROVE LedgerTypeOK'
  BY <1>0, <1>c DEF ledgerVars, LedgerTypeOK
<1>d. ASSUME UNCHANGED faultVars PROVE FaultTypeOK'
  BY <1>0, <1>d DEF faultVars, FaultTypeOK
<1>e. ASSUME StoreTypeOK', ProcTypeOK', KafkaTypeOK', LedgerTypeOK',
             FaultTypeOK', LabelsOK'
      PROVE  TypeInv'
  BY <1>e DEF TypeInv, ConsumerTypeOK, ProcTypeOK, KafkaTypeOK, LedgerTypeOK,
              FaultTypeOK
<1> USE DEF ProcTypeOK, PCs, Idle, Working
<1>1. ASSUME NEW c \in Consumers, Start(c) PROVE TypeInv'
  <2>1. ProcTypeOK' /\ LabelsOK'
    BY <1>0, <1>1 DEF Start, GoTo, LabelsOK, HasId
  <2> QED
    BY <1>1, <2>1, <1>a, <1>b, <1>c, <1>d, <1>e DEF Start
<1>2. ASSUME NEW c \in Consumers, NEW p \in Partitions, Receive(c, p)
      PROVE  TypeInv'
  <2>1. <<p, pos[p]>> \in Positions
    BY <1>0, <1>2, OffsetIsPosition DEF Receive, Delivered, KafkaTypeOK
  <2>2. ProcTypeOK'
    BY <1>0, <1>2, <2>1, ConfigAssumption, CallerRetriesType
       DEF Receive, Delivered, GoTo, LoopHead
  <2>3. LabelsOK'
    BY <1>0, <1>2, <2>1 DEF Receive, Delivered, GoTo, LoopHead, LabelsOK, HasId
  <2>4. KafkaTypeOK'
    BY <1>0, <1>2 DEF Receive, Delivered, KafkaTypeOK
  <2> QED
    BY <1>2, <2>2, <2>3, <2>4, <1>a, <1>c, <1>d, <1>e DEF Receive, Delivered
<1>3. ASSUME NEW c \in Consumers, ClaimWon(c) PROVE TypeInv'
  <2>1. Id(cur[c]) \in Keys
    BY <1>0, <1>3, CurrentId DEF ClaimWon, LabelsOK
  <2>2. StoreTypeOK'
    BY <1>0, <1>3, <2>1, ClaimKeepsType DEF ClaimWon
  <2>3. ProcTypeOK'
    BY <1>0, <1>3, ConfigAssumption, CallerRetriesType
       DEF ClaimWon, GoTo, LoopHead
  <2>4. LabelsOK'
    BY <1>0, <1>3 DEF ClaimWon, GoTo, LoopHead, LabelsOK, HasId
  <2> QED
    BY <1>3, <2>2, <2>3, <2>4, <1>b, <1>c, <1>d, <1>e DEF ClaimWon
<1>4. ASSUME NEW c \in Consumers, ClaimLost(c) PROVE TypeInv'
  <2>1. ProcTypeOK' /\ LabelsOK'
    BY <1>0, <1>4 DEF ClaimLost, GoTo, LabelsOK, HasId
  <2> QED
    BY <1>4, <2>1, <1>a, <1>b, <1>c, <1>d, <1>e DEF ClaimLost
<1>5. ASSUME NEW c \in Consumers, HandleReturns(c) PROVE TypeInv'
  <2>1. cur[c] \in Positions /\ (HasId(c) => Id(cur[c]) \in Keys)
    BY <1>5, CurrentId DEF HandleReturns
  <2>2. ProcTypeOK' /\ LabelsOK'
    BY <1>0, <1>5 DEF HandleReturns, GoTo, LabelsOK, HasId
  <2>3. LedgerTypeOK'
    BY <1>0, <1>5, <2>1 DEF HandleReturns, LedgerTypeOK
  <2> QED
    BY <1>5, <2>2, <2>3, <1>a, <1>b, <1>d, <1>e DEF HandleReturns
<1>6. ASSUME NEW c \in Consumers, HandleRaises(c) PROVE TypeInv'
  <2>1. HasId(c) => Id(cur[c]) \in Keys
    BY <1>6, CurrentId DEF HandleRaises
  <2>2. ProcTypeOK' /\ LabelsOK'
    BY <1>0, <1>6 DEF HandleRaises, GoTo, LabelsOK, HasId, AfterFailure
  <2>3. LedgerTypeOK'
    BY <1>0, <1>6, <2>1 DEF HandleRaises, LedgerTypeOK
  <2> QED
    BY <1>6, <2>2, <2>3, <1>a, <1>b, <1>d, <1>e DEF HandleRaises
<1>7. ASSUME NEW c \in Consumers, RecordFailure(c) PROVE TypeInv'
  <2>1. Id(cur[c]) \in Keys
    BY <1>0, <1>7, CurrentId DEF RecordFailure, LabelsOK
  <2>2. attempts[c] \in Nat
    BY <1>0, ConfigAssumption, CallerRetriesType
  <2>3. StoreTypeOK'
    BY <1>0, <1>7, <2>1, <2>2, UpdateKeepsType DEF RecordFailure, MarkFailed
  <2>4. ProcTypeOK' /\ LabelsOK'
    BY <1>0, <1>7, ConfigAssumption, CallerRetriesType
       DEF RecordFailure, GoTo, LabelsOK, HasId, AfterFailure
  <2> QED
    BY <1>7, <2>3, <2>4, <1>b, <1>c, <1>d, <1>e DEF RecordFailure
<1>8. ASSUME NEW c \in Consumers, RetryWon(c) PROVE TypeInv'
  <2>1. HasId(c) => Id(cur[c]) \in Keys
    BY <1>8, CurrentId DEF RetryWon
  <2>2. StoreTypeOK'
    BY <1>0, <1>8, <2>1, ClaimKeepsType, <1>a DEF RetryWon
  <2>3. attempts[c] + 1 \in 0 .. CallerRetries + 1
    BY <1>0, <1>8, ConfigAssumption, CallerRetriesType DEF RetryWon, LabelsOK
  <2>4. ProcTypeOK'
    BY <1>0, <1>8, <2>3, ConfigAssumption, CallerRetriesType DEF RetryWon, GoTo
  <2>5. LabelsOK'
    BY <1>0, <1>8 DEF RetryWon, GoTo, LabelsOK, HasId
  <2> QED
    BY <1>8, <2>2, <2>4, <2>5, <1>b, <1>c, <1>d, <1>e DEF RetryWon
<1>9. ASSUME NEW c \in Consumers, RetryLost(c) PROVE TypeInv'
  <2>1. ProcTypeOK' /\ LabelsOK'
    BY <1>0, <1>9 DEF RetryLost, GoTo, LabelsOK, HasId
  <2> QED
    BY <1>9, <2>1, <1>a, <1>b, <1>c, <1>d, <1>e DEF RetryLost
<1>10. ASSUME NEW c \in Consumers, Complete(c) PROVE TypeInv'
  <2>1. Id(cur[c]) \in Keys
    BY <1>0, <1>10, CurrentId DEF Complete, LabelsOK
  <2>2. PICK r \in Results \cup {NoResult} : MarkCompleted(Id(cur[c]), r)
    BY <1>10 DEF Complete
  <2>3. StoreTypeOK'
    BY <1>0, <2>1, <2>2, MarkIsUpdate, UpdateKeepsType
  <2>4. ProcTypeOK' /\ LabelsOK'
    BY <1>0, <1>10, ConfigAssumption, CallerRetriesType
       DEF Complete, GoTo, LabelsOK, HasId
  <2> QED
    BY <1>10, <2>3, <2>4, <1>b, <1>c, <1>d, <1>e DEF Complete
<1>11. ASSUME NEW c \in Consumers, CompleteRaises(c) PROVE TypeInv'
  <2>1. ProcTypeOK' /\ LabelsOK'
    BY <1>0, <1>11, ConfigAssumption, CallerRetriesType
       DEF CompleteRaises, GoTo, LabelsOK, HasId
  <2>2. Id(cur[c]) \in Keys
    BY <1>0, <1>11, CurrentId DEF CompleteRaises, LabelsOK
  <2>3. LedgerTypeOK'
    BY <1>0, <1>11, <2>2 DEF CompleteRaises, LedgerTypeOK
  <2> QED
    BY <1>11, <2>1, <2>3, <1>a, <1>b, <1>d, <1>e DEF CompleteRaises
<1>12. ASSUME NEW c \in Consumers, SendToDlq(c) PROVE TypeInv'
  <2>1. cur[c] \in Positions
    BY <1>12, CurrentId DEF SendToDlq
  <2>2. ProcTypeOK' /\ LabelsOK'
    BY <1>0, <1>12, ConfigAssumption, CallerRetriesType
       DEF SendToDlq, GoTo, LabelsOK, HasId
  <2>3. LedgerTypeOK'
    BY <1>0, <1>12, <2>1 DEF SendToDlq, LedgerTypeOK
  <2> QED
    BY <1>12, <2>2, <2>3, <1>a, <1>b, <1>d, <1>e DEF SendToDlq
<1>13. ASSUME NEW c \in Consumers, Commit(c) PROVE TypeInv'
  <2>1. ProcTypeOK' /\ LabelsOK'
    BY <1>0, <1>13, ConfigAssumption, CallerRetriesType
       DEF Commit, GoTo, LabelsOK, HasId
  <2>2. KafkaTypeOK'
    BY <1>0, <1>13 DEF Commit, KafkaTypeOK
  <2> QED
    BY <1>13, <2>1, <2>2, <1>a, <1>c, <1>d, <1>e DEF Commit
<1>14. ASSUME NEW c \in Consumers, Abort(c) PROVE TypeInv'
  <2>1. ProcTypeOK' /\ LabelsOK'
    BY <1>0, <1>14, ConfigAssumption, CallerRetriesType
       DEF Abort, Leave, GoTo, LabelsOK, HasId
  <2>2. KafkaTypeOK'
    BY <1>0, <1>14 DEF Abort, Leave, KafkaTypeOK
  <2>3. Responsible(c) /\ HasId(c) => Id(cur[c]) \in Keys
    BY CurrentId DEF Responsible
  <2>4. pc[c] = "mark_completed" => Id(cur[c]) \in Keys
    BY <1>0, CurrentId DEF LabelsOK
  <2>5. LedgerTypeOK'
    BY <1>0, <1>14, <2>3, <2>4 DEF Abort, Leave, LedgerTypeOK
  <2>6. FaultTypeOK'
    BY <1>0, <1>14, ConsumerAssumption DEF Abort, Leave, FaultTypeOK
  <2> QED
    BY <1>14, <2>1, <2>2, <2>5, <2>6, <1>a, <1>e DEF Abort, Leave
<1>18. ASSUME NEW c \in Consumers, NEW p \in Partitions,
              ReceiveUndecodable(c, p)
       PROVE  TypeInv'
  <2>1. ProcTypeOK' /\ LabelsOK'
    BY <1>0, <1>18, ConfigAssumption, CallerRetriesType
       DEF ReceiveUndecodable, Leave, GoTo, LabelsOK, HasId
  <2>2. KafkaTypeOK'
    BY <1>0, <1>18 DEF ReceiveUndecodable, Leave, KafkaTypeOK
  <2>3. LedgerTypeOK'
    BY <1>0, <1>18 DEF ReceiveUndecodable, Leave, LedgerTypeOK
  <2>4. FaultTypeOK'
    BY <1>0, <1>18 DEF ReceiveUndecodable, Leave, FaultTypeOK
  <2> QED
    BY <1>18, <2>1, <2>2, <2>3, <2>4, <1>a, <1>e DEF ReceiveUndecodable, Leave
<1>15. ASSUME NEW c \in Consumers, NEW p \in Partitions, Assign(p, c)
       PROVE  TypeInv'
  <2>1. ProcTypeOK' /\ LabelsOK'
    BY <1>0, <1>15 DEF Assign, procVars, LabelsOK, HasId
  <2>2. KafkaTypeOK'
    BY <1>0, <1>15 DEF Assign, KafkaTypeOK
  <2>3. FaultTypeOK'
    BY <1>0, <1>15, ConsumerAssumption DEF Assign, FaultTypeOK
  <2> QED
    BY <1>15, <2>1, <2>2, <2>3, <1>a, <1>c, <1>e DEF Assign
<1>16. ASSUME Elapse PROVE TypeInv'
  <2>1. StoreTypeOK'
    BY <1>0, <1>16, TickKeepsType DEF Elapse
  <2>2. ProcTypeOK' /\ LabelsOK'
    BY <1>0, <1>16, ConfigAssumption, CallerRetriesType
       DEF Elapse, LabelsOK, HasId
  <2> QED
    BY <1>16, <2>1, <2>2, <1>b, <1>c, <1>d, <1>e DEF Elapse
<1>17. CASE UNCHANGED vars
  <2>1. ProcTypeOK' /\ LabelsOK'
    BY <1>0, <1>17 DEF vars, procVars, LabelsOK, HasId
  <2> QED
    BY <1>17, <2>1, <1>a, <1>b, <1>c, <1>d, <1>e DEF vars
<1> QED
  BY <1>1, <1>2, <1>3, <1>4, <1>5, <1>6, <1>7, <1>8, <1>9, <1>10, <1>11,
     <1>12, <1>13, <1>14, <1>15, <1>16, <1>17, <1>18 DEF Next, Step

LEMMA TypeInvHolds == Spec => []TypeInv
<1>1. TypeInv /\ [Next]_vars => TypeInv'
  BY TypeInvStep
<1> QED
  BY <1>1, TypeInvInit, PTL DEF Spec

\* Every variable of the consumer group keeps its type: ConsumerTypeOK is an
\* invariant of any group on any log.
THEOREM ConsumerTypeCorrect == Spec => []ConsumerTypeOK
<1>1. TypeInv => ConsumerTypeOK
  BY DEF TypeInv
<1> QED
  BY <1>1, TypeInvHolds, PTL

-----------------------------------------------------------------------------
(***************************************************************************)
(* Offsets.  OnlyCurrentUncommitted is inductive: only a consumer that is  *)
(* not idle can have a record beyond the committed offset, and it asks for *)
(* the next one only after commit() has made it idle again.                *)
(***************************************************************************)

\* A step within one record leaves the offsets alone.
LEMMA OffsetsUntouched ==
    ASSUME OnlyCurrentUncommitted, TypeInv, UNCHANGED kafkaVars,
           \A c \in Consumers :
               pc[c] \notin Idle => pc'[c] \notin Idle /\ cur'[c] = cur[c]
    PROVE  OnlyCurrentUncommitted'
  BY DEF OnlyCurrentUncommitted, TypeInv, ConsumerTypeOK, kafkaVars

LEMMA OffsetsStep ==
    ASSUME OnlyCurrentUncommitted, TypeInv, [Next]_vars
    PROVE  /\ OnlyCurrentUncommitted'
           /\ \A p \in Partitions : committed'[p] >= committed[p]
<1>1. /\ pc \in [Consumers -> PCs]
      /\ cur \in [Consumers -> Positions \cup {NoPos}]
      /\ owner \in [Partitions -> Consumers \cup {NoOwner}]
      /\ pos \in [Partitions -> Nat \ {0}]
      /\ committed \in [Partitions -> Nat \ {0}]
      /\ NoOwner \notin Consumers
  BY ConsumerAssumption DEF TypeInv, ConsumerTypeOK
<1>2. ASSUME UNCHANGED kafkaVars,
             \A c \in Consumers :
                 pc[c] \notin Idle => pc'[c] \notin Idle /\ cur'[c] = cur[c]
      PROVE  /\ OnlyCurrentUncommitted'
             /\ \A p \in Partitions : committed'[p] >= committed[p]
  BY <1>1, <1>2, OffsetsUntouched DEF kafkaVars
<1>3. ASSUME NEW c \in Consumers,
             \/ Start(c) \/ ClaimWon(c) \/ ClaimLost(c)
             \/ HandleReturns(c) \/ HandleRaises(c) \/ RecordFailure(c)
             \/ RetryWon(c) \/ RetryLost(c) \/ Complete(c)
             \/ CompleteRaises(c) \/ SendToDlq(c)
      PROVE  /\ OnlyCurrentUncommitted'
             /\ \A p \in Partitions : committed'[p] >= committed[p]
  <2>1. UNCHANGED kafkaVars /\ UNCHANGED cur
    BY <1>3
       DEF Start, ClaimWon, ClaimLost, HandleReturns, HandleRaises,
           RecordFailure, RetryWon, RetryLost, Complete, CompleteRaises,
           SendToDlq
  <2>2. \A d \in Consumers : pc[d] \notin Idle => pc'[d] \notin Idle
    BY <1>1, <1>3
       DEF Start, ClaimWon, ClaimLost, HandleReturns, HandleRaises,
           RecordFailure, RetryWon, RetryLost, Complete, CompleteRaises,
           SendToDlq, GoTo, Idle, LoopHead, AfterFailure
  <2> QED
    BY <1>2, <2>1, <2>2
<1>4. ASSUME NEW c \in Consumers, NEW p \in Partitions, Receive(c, p)
      PROVE  /\ OnlyCurrentUncommitted'
             /\ \A q \in Partitions : committed'[q] >= committed[q]
  <2>1. \A q \in Partitions : owner[q] = c => pos[q] = committed[q]
    BY <1>4 DEF Receive, Delivered, OnlyCurrentUncommitted, Idle
  <2>2. pc'[c] \notin Idle /\ cur'[c] = <<p, committed[p]>>
    BY <1>1, <1>4, <2>1 DEF Receive, Delivered, GoTo, LoopHead, Idle
  <2>3. pos'[p] = committed[p] + 1 /\ owner'[p] = c /\ committed' = committed
    BY <1>1, <1>4, <2>1 DEF Receive, Delivered
  <2>4. ASSUME NEW q \in Partitions, q # p
        PROVE  \/ pos'[q] = committed'[q]
               \/ /\ pos'[q] = committed'[q] + 1
                  /\ owner'[q] # NoOwner
                  /\ pc'[owner'[q]] \notin Idle
                  /\ cur'[owner'[q]] = <<q, committed'[q]>>
    <3>1. pos'[q] = pos[q] /\ owner'[q] = owner[q]
      BY <1>1, <1>4, <2>4 DEF Receive, Delivered
    <3>2. CASE owner[q] = c
      BY <2>1, <2>3, <3>1, <3>2
    <3>3. CASE owner[q] # c
      BY <1>1, <1>4, <2>3, <3>1, <3>3
         DEF Receive, Delivered, GoTo, OnlyCurrentUncommitted
    <3> QED
      BY <3>2, <3>3
  <2>5. OnlyCurrentUncommitted'
    BY <1>1, <2>2, <2>3, <2>4 DEF OnlyCurrentUncommitted
  <2> QED
    BY <1>1, <2>3, <2>5
<1>5. ASSUME NEW c \in Consumers, Commit(c)
      PROVE  /\ OnlyCurrentUncommitted'
             /\ \A p \in Partitions : committed'[p] >= committed[p]
  <2>1. \A p \in Partitions : owner[p] = c => committed'[p] = pos[p]
    BY <1>5 DEF Commit
  <2>2. \A p \in Partitions : owner[p] # c => committed'[p] = committed[p]
    BY <1>5 DEF Commit
  <2>3. owner' = owner /\ pos' = pos
    BY <1>5 DEF Commit
  <2>4. \A d \in Consumers : d # c => pc'[d] = pc[d] /\ cur'[d] = cur[d]
    BY <1>1, <1>5 DEF Commit, GoTo
  <2>5. OnlyCurrentUncommitted'
    BY <1>1, <2>1, <2>2, <2>3, <2>4 DEF OnlyCurrentUncommitted
  <2>6. \A p \in Partitions : pos[p] >= committed[p]
    BY <1>1 DEF OnlyCurrentUncommitted
  <2> QED
    BY <1>1, <2>1, <2>2, <2>5, <2>6
<1>6. ASSUME NEW c \in Consumers, Leave(c)
      PROVE  /\ OnlyCurrentUncommitted'
             /\ \A p \in Partitions : committed'[p] >= committed[p]
  <2>1. committed' = committed
    BY <1>6 DEF Leave
  <2>2. \A p \in Partitions : owner[p] = c => pos'[p] = committed[p]
    BY <1>6 DEF Leave
  <2>3. \A p \in Partitions : owner[p] # c => pos'[p] = pos[p]
                                            /\ owner'[p] = owner[p]
    BY <1>6 DEF Leave
  <2>4. \A d \in Consumers : d # c => pc'[d] = pc[d] /\ cur'[d] = cur[d]
    BY <1>1, <1>6 DEF Leave, GoTo
  <2>5. OnlyCurrentUncommitted'
    BY <1>1, <2>1, <2>2, <2>3, <2>4 DEF OnlyCurrentUncommitted
  <2> QED
    BY <1>1, <2>1, <2>5
<1>7. ASSUME NEW c \in Consumers, NEW p \in Partitions, Assign(p, c)
      PROVE  /\ OnlyCurrentUncommitted'
             /\ \A q \in Partitions : committed'[q] >= committed[q]
  <2>1. committed' = committed /\ pc' = pc /\ cur' = cur
    BY <1>7 DEF Assign, procVars
  <2>2. pos'[p] = committed[p]
    BY <1>1, <1>7 DEF Assign
  <2>3. \A q \in Partitions : q # p => pos'[q] = pos[q] /\ owner'[q] = owner[q]
    BY <1>1, <1>7 DEF Assign
  <2>4. OnlyCurrentUncommitted'
    BY <1>1, <2>1, <2>2, <2>3 DEF OnlyCurrentUncommitted
  <2> QED
    BY <1>1, <2>1, <2>4
<1>8. CASE Elapse
  BY <1>2, <1>8 DEF Elapse
<1>9. CASE UNCHANGED vars
  BY <1>2, <1>9 DEF vars, procVars
<1> QED
  BY <1>3, <1>4, <1>5, <1>6, <1>7, <1>8, <1>9
     DEF Next, Step, Abort, ReceiveUndecodable

\* commit() without offsets commits nothing that was not dealt with:
\* OnlyCurrentUncommitted is an invariant.
THEOREM CommitCoversOneRecord == Spec => []OnlyCurrentUncommitted
<1>1. Init => OnlyCurrentUncommitted
  BY DEF Init, OnlyCurrentUncommitted
<1>2. OnlyCurrentUncommitted /\ TypeInv /\ [Next]_vars
          => OnlyCurrentUncommitted'
  BY OffsetsStep
<1> QED
  BY <1>1, <1>2, TypeInvHolds, PTL DEF Spec

\* No late commit takes a partition back: every step satisfies
\* CommittedNeverRetreats.
THEOREM CommittedMonotone == Spec => CommittedNeverRetreats
<1>1. OnlyCurrentUncommitted /\ TypeInv /\ [Next]_vars
          => [\A p \in Partitions : committed'[p] >= committed[p]]_vars
  BY OffsetsStep
<1> QED
  BY <1>1, TypeInvHolds, CommitCoversOneRecord, PTL
     DEF Spec, CommittedNeverRetreats

-----------------------------------------------------------------------------
(***************************************************************************)
(* Exclusive processing, in the regime the configuration asks for: a lease *)
(* longer than the slowest handler, and a horizon within the retention.    *)
(*                                                                         *)
(* SoleProcessor is not inductive.  What makes it so is that the record of *)
(* every holder is PROCESSING with exactly the lease the holder counts on, *)
(* so that nobody else's claim() can be granted.                           *)
(***************************************************************************)
PromptRegime == LeaseTicks > 0 /\ ~SlowHandlers /\ ~TtlElapses

HolderInv ==
    \A c \in Consumers :
        HoldsClaim(c) => /\ store[Id(cur[c])].status = "PROCESSING"
                         /\ store[Id(cur[c])].lease = grant[c]
                         /\ grant[c] > 0

ExclusiveInv == TypeInv /\ HolderInv /\ SoleProcessor

\* A held message cannot be claimed.
LEMMA HeldNotClaimable ==
    ASSUME TypeInv, HolderInv, NEW c \in Consumers, HoldsClaim(c)
    PROVE  Id(cur[c]) \in Keys /\ ~Claimable(Id(cur[c]))
<1>1. Id(cur[c]) \in Keys
  BY CurrentId DEF HoldsClaim, Working, Idle
<1>2. store[Id(cur[c])].status = "PROCESSING" /\ store[Id(cur[c])].lease > 0
  BY DEF HolderInv
<1>3. store[Id(cur[c])].lease \in (0 .. LeaseTicks) \cup {NoLease}
  BY <1>1 DEF TypeInv, ConsumerTypeOK, StoreTypeOK, ProcessingStatus, Missing
<1> QED
  BY <1>1, <1>2, <1>3, ConfigAssumption
     DEF Claimable, Retryable, Orphaned, Missing, NoLease

\* Steps of c that leave the claims of the others, and the records they hold,
\* as they are.
LEMMA OthersKeepTheirs ==
    ASSUME ExclusiveInv, NEW c \in Consumers,
           \A d \in Consumers \ {c} :
               /\ pc'[d] = pc[d] /\ cur'[d] = cur[d] /\ grant'[d] = grant[d]
               /\ HoldsClaim(d) => store'[Id(cur[d])] = store[Id(cur[d])],
           HoldsClaim(c)' =>
               /\ store'[Id(cur'[c])].status = "PROCESSING"
               /\ store'[Id(cur'[c])].lease = grant'[c]
               /\ grant'[c] > 0
               /\ \A d \in Consumers \ {c} :
                     HoldsClaim(d) => Id(cur[d]) # Id(cur'[c])
    PROVE  HolderInv' /\ SoleProcessor'
<1>1. \A d \in Consumers \ {c} : HoldsClaim(d)' <=> HoldsClaim(d)
  BY DEF HoldsClaim, HasId
<1>2. HolderInv'
  BY <1>1 DEF ExclusiveInv, HolderInv
<1>3. SoleProcessor'
  BY <1>1 DEF ExclusiveInv, SoleProcessor
<1> QED
  BY <1>2, <1>3

LEMMA ExclusiveStep ==
    ASSUME PromptRegime, ExclusiveInv, [Next]_vars
    PROVE  ExclusiveInv'
<1>1. TypeInv /\ TypeInv' /\ HolderInv /\ SoleProcessor
  BY TypeInvStep DEF ExclusiveInv
<1>2. /\ pc \in [Consumers -> PCs]
      /\ cur \in [Consumers -> Positions \cup {NoPos}]
      /\ grant \in [Consumers -> 0 .. LeaseTicks]
      /\ store \in [Keys -> Records]
  BY <1>1 DEF TypeInv, ConsumerTypeOK, StoreTypeOK, Records
<1>3. ASSUME HolderInv', SoleProcessor' PROVE ExclusiveInv'
  BY <1>1, <1>3 DEF ExclusiveInv
\* Won claims: the message was nobody else's.
<1>4. ASSUME NEW c \in Consumers, pc[c] \notin Idle, HasId(c),
             Claim(Id(cur[c])), cur' = cur,
             grant' = [grant EXCEPT ![c] = LeaseTicks],
             \A d \in Consumers \ {c} : pc'[d] = pc[d]
      PROVE  ExclusiveInv'
  <2> DEFINE k == Id(cur[c])
  <2>1. k \in Keys
    BY <1>1, <1>4, CurrentId
  <2>2. \A d \in Consumers : HoldsClaim(d) => Id(cur[d]) # k
    BY <1>1, <1>4, HeldNotClaimable DEF Claim
  <2>3. store'[k].status = "PROCESSING" /\ store'[k].lease = LeaseTicks
    <3>1. store'[k] = IF store[k] = Missing THEN FirstClaim
                                            ELSE Reclaimed(store[k])
      BY <1>2, <1>4, <2>1 DEF Claim
    <3>2. CASE store[k] = Missing
      BY <3>1, <3>2 DEF FirstClaim
    <3>3. CASE store[k] # Missing
      <4>1. PICK rec \in ProcessingStatus : rec = store[k]
        BY <1>2, <2>1, <3>3 DEF Records
      <4> QED
        BY <3>1, <3>3, <4>1, ReclaimedType
    <3> QED
      BY <3>2, <3>3
  <2>4. \A j \in Keys \ {k} : store'[j] = store[j]
    BY <1>2, <1>4 DEF Claim
  <2>5. \A d \in Consumers \ {c} : HoldsClaim(d) => Id(cur[d]) \in Keys \ {k}
    BY <1>1, <2>2, HeldNotClaimable
  <2>6. grant'[c] = LeaseTicks /\ LeaseTicks > 0
    BY <1>2, <1>4 DEF PromptRegime
  <2>7. \A d \in Consumers \ {c} : cur'[d] = cur[d] /\ grant'[d] = grant[d]
    BY <1>2, <1>4
  <2> QED
    BY <1>3, <1>4, <2>2, <2>3, <2>4, <2>5, <2>6, <2>7, OthersKeepTheirs
\* Settled claims: only the record of the message is touched.
<1>5. ASSUME NEW c \in Consumers, HoldsClaim(c),
             NEW s, NEW r, NEW e, NEW n,
             UpdateStatus(Id(cur[c]), s, r, e, n),
             cur' = cur, pc'[c] \notin Working,
             \A d \in Consumers \ {c} : pc'[d] = pc[d] /\ grant'[d] = grant[d]
      PROVE  ExclusiveInv'
  <2>1. Id(cur[c]) \in Keys
    BY <1>1, <1>5, HeldNotClaimable
  <2>2. \A j \in Keys \ {Id(cur[c])} : store'[j] = store[j]
    BY <1>2, <1>5 DEF UpdateStatus, Updatable
  <2>3. \A d \in Consumers \ {c} :
            HoldsClaim(d) => Id(cur[d]) \in Keys \ {Id(cur[c])}
    BY <1>1, <1>5, HeldNotClaimable DEF SoleProcessor
  <2>4. ~HoldsClaim(c)'
    BY <1>5 DEF HoldsClaim
  <2> QED
    BY <1>3, <1>5, <2>2, <2>3, <2>4, OthersKeepTheirs
\* Steps that leave the store alone and do not make c a holder.
<1>6. ASSUME NEW c \in Consumers, UNCHANGED storeVars,
             \A d \in Consumers \ {c} :
                 pc'[d] = pc[d] /\ cur'[d] = cur[d] /\ grant'[d] = grant[d],
             HoldsClaim(c)' => /\ HoldsClaim(c)
                               /\ cur'[c] = cur[c]
                               /\ grant'[c] = grant[c]
      PROVE  ExclusiveInv'
  <2>1. store' = store
    BY <1>6 DEF storeVars
  <2>2. HoldsClaim(c)' =>
            /\ store'[Id(cur'[c])].status = "PROCESSING"
            /\ store'[Id(cur'[c])].lease = grant'[c]
            /\ grant'[c] > 0
            /\ \A d \in Consumers \ {c} :
                  HoldsClaim(d) => Id(cur[d]) # Id(cur'[c])
    BY <1>1, <1>6, <2>1 DEF HolderInv, SoleProcessor
  <2> QED
    BY <1>3, <1>6, <2>1, <2>2, OthersKeepTheirs
<1>0. ASSUME NEW c \in Consumers, Leave(c) PROVE ExclusiveInv'
  BY <1>0, <1>2, <1>6 DEF Leave, GoTo, HoldsClaim, Working
<1>7. ASSUME NEW c \in Consumers, Step(c) PROVE ExclusiveInv'
  <2> USE <1>2, <1>7 DEF GoTo, Idle, Working
  <2>1. ASSUME NEW p \in Partitions, Receive(c, p) PROVE ExclusiveInv'
    <3>1. HoldsClaim(c)' => FALSE
      <4>1. cur'[c] = <<p, pos[p]>>
        BY <2>1 DEF Receive, Delivered
      <4>2. Id(<<p, pos[p]>>) # NoId => pc'[c] = "claim"
        BY <2>1 DEF Receive, Delivered
      <4> QED
        BY <4>1, <4>2 DEF HoldsClaim, HasId
    <3> QED
      BY <1>6, <2>1, <3>1 DEF Receive, Delivered
  <2>2. CASE ClaimWon(c)
    <3>1. HasId(c)
      BY <1>1, <2>2 DEF ClaimWon, TypeInv, LabelsOK
    <3> QED
      BY <1>4, <2>2, <3>1 DEF ClaimWon
  <2>3. CASE ClaimLost(c)
    BY <1>6, <2>3 DEF ClaimLost, HoldsClaim
  <2>4. CASE HandleReturns(c)
    BY <1>6, <2>4 DEF HandleReturns, HoldsClaim, HasId
  <2>5. CASE HandleRaises(c)
    BY <1>6, <2>5 DEF HandleRaises, HoldsClaim, HasId, AfterFailure
  <2>6. CASE RecordFailure(c)
    <3>1. HoldsClaim(c)
      BY <1>1, <2>6 DEF RecordFailure, HoldsClaim, TypeInv, LabelsOK
    <3> QED
      BY <1>5, <2>6, <3>1 DEF RecordFailure, MarkFailed, AfterFailure
  <2>7. CASE RetryWon(c)
    <3>1. CASE HasId(c)
      BY <1>4, <2>7, <3>1 DEF RetryWon
    <3>2. CASE ~HasId(c)
      BY <1>6, <2>7, <3>2 DEF RetryWon, HoldsClaim, HasId
    <3> QED
      BY <3>1, <3>2
  <2>8. CASE RetryLost(c)
    BY <1>6, <2>8 DEF RetryLost, HoldsClaim
  <2>9. CASE Complete(c)
    <3>1. HoldsClaim(c)
      BY <1>1, <2>9 DEF Complete, HoldsClaim, TypeInv, LabelsOK
    <3> QED
      BY <1>5, <2>9, <3>1 DEF Complete, MarkCompleted
  <2>10. CASE CompleteRaises(c)
    BY <1>6, <2>10 DEF CompleteRaises, HoldsClaim
  <2>11. CASE SendToDlq(c)
    BY <1>6, <2>11 DEF SendToDlq, HoldsClaim
  <2>12. CASE Commit(c)
    BY <1>6, <2>12 DEF Commit, HoldsClaim
  <2>13. ASSUME NEW p \in Partitions, ReceiveUndecodable(c, p)
         PROVE  ExclusiveInv'
    BY <1>0, <2>13 DEF ReceiveUndecodable
  <2> QED
    BY <2>1, <2>2, <2>3, <2>4, <2>5, <2>6, <2>7, <2>8, <2>9, <2>10, <2>11,
       <2>12, <2>13 DEF Step
<1>8. ASSUME NEW c \in Consumers, Start(c) \/ Abort(c) PROVE ExclusiveInv'
  <2>1. CASE Start(c)
    BY <1>2, <1>6, <2>1 DEF Start, GoTo, HoldsClaim, Working
  <2>2. CASE Abort(c)
    BY <1>0, <2>2 DEF Abort
  <2> QED
    BY <1>8, <2>1, <2>2
<1>9. ASSUME NEW p \in Partitions, NEW c \in Consumers, Assign(p, c)
      PROVE  ExclusiveInv'
  BY <1>6, <1>9 DEF Assign, procVars, HoldsClaim, HasId
<1>10. CASE Elapse
  <2>1. \A c \in Consumers : HoldsClaim(c)' <=> HoldsClaim(c)
    BY <1>10 DEF Elapse, HoldsClaim, HasId
  <2>2. ASSUME NEW c \in Consumers, HoldsClaim(c)
        PROVE  /\ store'[Id(cur[c])].status = "PROCESSING"
               /\ store'[Id(cur[c])].lease = grant'[c]
               /\ grant'[c] > 0
    <3>1. grant[c] > 1 /\ grant'[c] = grant[c] - 1 /\ grant[c] \in Nat
      BY <1>2, <1>10, <2>2 DEF Elapse, PromptRegime
    <3>2. PICK k \in Keys : k = Id(cur[c])
      BY <1>1, <2>2, HeldNotClaimable
    <3>3. store'[k] = Aged(store[k])
      BY <1>10, <3>2 DEF Elapse, Tick, Expiring, PromptRegime
    <3>4. store[k].status = "PROCESSING" /\ store[k].lease = grant[c]
      BY <1>1, <2>2, <3>2 DEF HolderInv
    <3>5. PICK rec \in Records : rec = store[k]
      BY <1>2
    <3>6. Aged(rec).status = "PROCESSING" /\ Aged(rec).lease = grant[c] - 1
      BY <3>1, <3>4, <3>5, AgedType
    <3> QED
      BY <3>1, <3>2, <3>3, <3>5, <3>6
  <2>3. HolderInv' /\ SoleProcessor'
    BY <1>1, <1>10, <2>1, <2>2 DEF Elapse, HolderInv, SoleProcessor
  <2> QED
    BY <1>3, <2>3
<1>11. CASE UNCHANGED vars
  <2>1. HolderInv' /\ SoleProcessor'
    BY <1>1, <1>11
       DEF vars, procVars, storeVars, HolderInv, SoleProcessor, HoldsClaim,
           HasId
  <2> QED
    BY <1>3, <2>1
<1> QED
  BY <1>7, <1>8, <1>9, <1>10, <1>11 DEF Next

LEMMA ExclusiveInvHolds ==
    ASSUME PromptRegime
    PROVE  Spec => []ExclusiveInv
<1>1. Init => HolderInv /\ SoleProcessor
  BY DEF Init, HolderInv, SoleProcessor, HoldsClaim, Working
<1>2. Init => ExclusiveInv
  BY <1>1, TypeInvInit DEF ExclusiveInv
<1>3. ExclusiveInv /\ [Next]_vars => ExclusiveInv'
  BY ExclusiveStep
<1> QED
  BY <1>2, <1>3, PTL DEF Spec

\* As long as handlers keep within their lease and records within their
\* retention, two consumers never process the same message at a time, for any
\* number of consumers, duplicates, deaths and rebalances: SoleProcessor is an
\* invariant.
THEOREM ProcessingIsExclusive ==
    ASSUME PromptRegime
    PROVE  Spec => []SoleProcessor
<1>1. ExclusiveInv => SoleProcessor
  BY DEF ExclusiveInv
<1> QED
  BY <1>1, ExclusiveInvHolds, PTL

-----------------------------------------------------------------------------
(***************************************************************************)
(* Side effects.  The inductive form of RepeatsAreUnrecorded is a balance: *)
(* each return of handle() is either recorded as COMPLETED, about to be, or*)
(* counted as unrecorded.                                                  *)
(***************************************************************************)
Recorded(k) == IF store[k].status = "COMPLETED" THEN 1 ELSE 0

AboutToRecord(k) ==
    \E c \in Consumers : pc[c] = "mark_completed" /\ Id(cur[c]) = k

Pending(k) == IF AboutToRecord(k) THEN 1 ELSE 0

EffectBalance ==
    \A k \in Keys : effects[k] = unrecorded[k] + Recorded(k) + Pending(k)

\* A step that touches none of the terms keeps the balance.
LEMMA BalanceUntouched ==
    ASSUME EffectBalance, effects' = effects, unrecorded' = unrecorded,
           \A k \in Keys : store'[k].status = "COMPLETED"
                               <=> store[k].status = "COMPLETED",
           \A c \in Consumers : \/ pc'[c] = pc[c] /\ cur'[c] = cur[c]
                                \/ /\ pc[c] # "mark_completed"
                                   /\ pc'[c] # "mark_completed"
    PROVE  EffectBalance'
<1>1. ASSUME NEW k \in Keys
      PROVE  Recorded(k)' = Recorded(k) /\ Pending(k)' = Pending(k)
  <2>1. AboutToRecord(k)' <=> AboutToRecord(k)
    BY DEF AboutToRecord
  <2> QED
    BY <2>1 DEF Recorded, Pending
<1> QED
  BY <1>1 DEF EffectBalance

LEMMA BalanceStep ==
    ASSUME PromptRegime, ExclusiveInv, EffectBalance, [Next]_vars
    PROVE  EffectBalance'
<1>1. TypeInv /\ HolderInv /\ SoleProcessor
  BY DEF ExclusiveInv
<1>2. /\ pc \in [Consumers -> PCs]
      /\ cur \in [Consumers -> Positions \cup {NoPos}]
      /\ store \in [Keys -> Records]
      /\ effects \in [Keys -> Nat]
      /\ unrecorded \in [Keys -> Nat]
  BY <1>1 DEF TypeInv, ConsumerTypeOK, StoreTypeOK, Records
\* The only consumer about to record k is its holder.
<1>3. ASSUME NEW c \in Consumers, HoldsClaim(c),
             NEW d \in Consumers, pc[d] = "mark_completed",
             Id(cur[d]) = Id(cur[c])
      PROVE  d = c
  <2>1. HoldsClaim(d)
    BY <1>1, <1>3 DEF HoldsClaim, Working, TypeInv, LabelsOK
  <2> QED
    BY <1>1, <1>3, <2>1 DEF SoleProcessor
<1>4. ASSUME NEW k \in Keys, Claim(k)
      PROVE  \A j \in Keys : store'[j].status = "COMPLETED"
                                 <=> store[j].status = "COMPLETED"
  <2>1. store[k].status # "COMPLETED"
    BY <1>4 DEF Claim, Claimable, Retryable, Orphaned, Missing
  <2>2. store'[k].status # "COMPLETED"
    <3>1. store'[k] = IF store[k] = Missing THEN FirstClaim
                                            ELSE Reclaimed(store[k])
      BY <1>2, <1>4 DEF Claim
    <3>2. CASE store[k] = Missing
      BY <3>1, <3>2 DEF FirstClaim
    <3>3. CASE store[k] # Missing
      <4>1. PICK rec \in ProcessingStatus : rec = store[k]
        BY <1>2, <3>3 DEF Records
      <4> QED
        BY <3>1, <3>3, <4>1, ReclaimedType
    <3> QED
      BY <3>2, <3>3
  <2> QED
    BY <1>2, <1>4, <2>1, <2>2 DEF Claim
\* mark_completed() and mark_failed() of the holder take effect.
<1>5. ASSUME NEW c \in Consumers, HoldsClaim(c),
             NEW s \in {"COMPLETED", "FAILED"},
             NEW r \in Results \cup {NoResult}, NEW e \in ErrorTexts,
             NEW n \in Nat, UpdateStatus(Id(cur[c]), s, r, e, n)
      PROVE  /\ Id(cur[c]) \in Keys
             /\ store[Id(cur[c])].status = "PROCESSING"
             /\ store'[Id(cur[c])].status = s
             /\ \A j \in Keys \ {Id(cur[c])} : store'[j] = store[j]
  <2>1. PICK k \in Keys : k = Id(cur[c])
    BY <1>1, <1>5, HeldNotClaimable
  <2>2. store[k].status = "PROCESSING"
    BY <1>1, <1>5, <2>1 DEF HolderInv
  <2>3. PICK rec \in ProcessingStatus : rec = store[k]
    BY <1>2, <2>2, MissingByStatus
  <2>4. store'[k] = Updated(rec, s, r, e, n)
    BY <1>2, <1>5, <2>1, <2>2, <2>3 DEF UpdateStatus, Updatable
  <2>5. Updated(rec, s, r, e, n).status = s
    BY UpdatedType
  <2> QED
    BY <1>2, <1>5, <2>1, <2>2, <2>4, <2>5 DEF UpdateStatus, Updatable
<1>6. ASSUME NEW c \in Consumers, HandleReturns(c) PROVE EffectBalance'
  <2>1. CASE ~HasId(c)
    <3>1. effects' = effects /\ unrecorded' = unrecorded /\ store' = store
      BY <1>6, <2>1 DEF HandleReturns, storeVars
    <3>2. pc[c] # "mark_completed" /\ pc'[c] # "mark_completed"
      BY <1>2, <1>6, <2>1 DEF HandleReturns, GoTo
    <3>3. \A d \in Consumers \ {c} : pc'[d] = pc[d] /\ cur'[d] = cur[d]
      BY <1>2, <1>6 DEF HandleReturns, GoTo
    <3> QED
      BY <3>1, <3>2, <3>3, BalanceUntouched
  <2>2. CASE HasId(c)
    <3>1. HoldsClaim(c)
      BY <1>6, <2>2 DEF HandleReturns, HoldsClaim, Working
    <3>2. PICK k \in Keys : k = Id(cur[c])
      BY <1>1, <3>1, HeldNotClaimable
    <3>3. ~AboutToRecord(k)
      BY <1>3, <1>6, <3>1, <3>2 DEF AboutToRecord, HandleReturns
    <3>4. pc' = [pc EXCEPT ![c] = "mark_completed"] /\ cur' = cur
      BY <1>6, <2>2 DEF HandleReturns, GoTo
    <3>5. AboutToRecord(k)'
      BY <1>2, <3>2, <3>4 DEF AboutToRecord
    <3>6. \A j \in Keys \ {k} : AboutToRecord(j)' <=> AboutToRecord(j)
      BY <1>2, <1>6, <3>2, <3>4 DEF AboutToRecord, HandleReturns
    <3>7. /\ effects' = [effects EXCEPT ![k] = @ + 1]
          /\ unrecorded' = unrecorded /\ store' = store
      BY <1>6, <2>2, <3>2 DEF HandleReturns, storeVars
    <3> QED
      BY <1>2, <3>3, <3>5, <3>6, <3>7
         DEF EffectBalance, Recorded, Pending
  <2> QED
    BY <2>1, <2>2
<1>7. ASSUME NEW c \in Consumers, Complete(c) PROVE EffectBalance'
  <2>1. HoldsClaim(c)
    BY <1>1, <1>7 DEF Complete, HoldsClaim, Working, TypeInv, LabelsOK
  <2>2. EmptyText \in ErrorTexts /\ 0 \in Nat
    BY DEF ErrorTexts
  <2>3. PICK r \in Results \cup {NoResult} :
            UpdateStatus(Id(cur[c]), "COMPLETED", r, EmptyText, 0)
    BY <1>7, MarkIsUpdate DEF Complete
  <2>4. PICK k \in Keys : k = Id(cur[c])
    BY <1>1, <2>1, HeldNotClaimable
  <2>5. /\ store[k].status = "PROCESSING"
        /\ store'[k].status = "COMPLETED"
        /\ \A j \in Keys \ {k} : store'[j] = store[j]
    BY <1>5, <2>1, <2>2, <2>3, <2>4
  <2>6. pc' = [pc EXCEPT ![c] = "commit"] /\ cur' = cur
    BY <1>7 DEF Complete, GoTo
  <2>7. AboutToRecord(k)
    BY <1>7, <2>4 DEF AboutToRecord, Complete
  <2>8. ~AboutToRecord(k)'
    BY <1>2, <1>3, <2>1, <2>4, <2>6 DEF AboutToRecord
  <2>9. \A j \in Keys \ {k} : AboutToRecord(j)' <=> AboutToRecord(j)
    BY <1>2, <2>4, <2>6 DEF AboutToRecord
  <2>10. effects' = effects /\ unrecorded' = unrecorded
    BY <1>7 DEF Complete, ledgerVars
  <2> QED
    BY <1>2, <2>5, <2>7, <2>8, <2>9, <2>10
       DEF EffectBalance, Recorded, Pending
\* The holder gives up before mark_completed() took effect.
<1>8. ASSUME NEW c \in Consumers, pc[c] = "mark_completed",
             CompleteRaises(c) \/ Abort(c)
      PROVE  EffectBalance'
  <2>1. HoldsClaim(c)
    BY <1>1, <1>8 DEF HoldsClaim, Working, TypeInv, LabelsOK
  <2>2. PICK k \in Keys : k = Id(cur[c])
    BY <1>1, <2>1, HeldNotClaimable
  <2>3. pc'[c] # "mark_completed"
    BY <1>2, <1>8 DEF CompleteRaises, Abort, Leave, GoTo
  <2>4. \A d \in Consumers \ {c} : pc'[d] = pc[d] /\ cur'[d] = cur[d]
    BY <1>2, <1>8 DEF CompleteRaises, Abort, Leave, GoTo
  <2>5. AboutToRecord(k)
    BY <1>8, <2>2 DEF AboutToRecord
  <2>6. ~AboutToRecord(k)'
    BY <1>3, <2>1, <2>2, <2>3, <2>4 DEF AboutToRecord
  <2>7. \A j \in Keys \ {k} : AboutToRecord(j)' <=> AboutToRecord(j)
    BY <2>2, <2>3, <2>4 DEF AboutToRecord
  <2>8. /\ unrecorded' = [unrecorded EXCEPT ![k] = @ + 1]
        /\ effects' = effects /\ store' = store
    BY <1>8, <2>2 DEF CompleteRaises, Abort, Leave, storeVars
  <2> QED
    BY <1>2, <2>5, <2>6, <2>7, <2>8
       DEF EffectBalance, Recorded, Pending
<1>9. ASSUME NEW c \in Consumers, RecordFailure(c) PROVE EffectBalance'
  <2>1. HoldsClaim(c)
    BY <1>1, <1>9 DEF RecordFailure, HoldsClaim, Working, TypeInv, LabelsOK
  <2>2. attempts[c] \in Nat
    BY <1>1, CallerRetriesType DEF TypeInv, ConsumerTypeOK
  <2>3. PICK e \in ErrorTexts :
            UpdateStatus(Id(cur[c]), "FAILED", NoResult, e, attempts[c])
    BY <1>9 DEF RecordFailure, MarkFailed
  <2>4. PICK n \in Nat : n = attempts[c]
    BY <2>2
  <2>5. PICK k \in Keys : k = Id(cur[c])
    BY <1>1, <2>1, HeldNotClaimable
  <2>6. UpdateStatus(Id(cur[c]), "FAILED", NoResult, e, n)
    BY <2>3, <2>4
  <2>7. /\ store[k].status = "PROCESSING" /\ store'[k].status = "FAILED"
        /\ \A j \in Keys \ {k} : store'[j] = store[j]
    BY <1>5, <2>1, <2>5, <2>6
  <2>8. pc[c] # "mark_completed" /\ pc'[c] # "mark_completed"
    BY <1>2, <1>9 DEF RecordFailure, GoTo, AfterFailure
  <2>9. \A d \in Consumers \ {c} : pc'[d] = pc[d] /\ cur'[d] = cur[d]
    BY <1>2, <1>9 DEF RecordFailure, GoTo
  <2>10. effects' = effects /\ unrecorded' = unrecorded
    BY <1>9 DEF RecordFailure, ledgerVars
  <2> QED
    BY <2>7, <2>8, <2>9, <2>10, BalanceUntouched
<1>10. ASSUME NEW c \in Consumers,
              ClaimWon(c) \/ (RetryWon(c) /\ HasId(c))
       PROVE  EffectBalance'
  <2>1. pc[c] \notin Idle /\ HasId(c)
    BY <1>1, <1>10 DEF ClaimWon, RetryWon, Idle, TypeInv, LabelsOK
  <2>2. Id(cur[c]) \in Keys /\ Claim(Id(cur[c]))
    BY <1>1, <1>10, <2>1, CurrentId DEF ClaimWon, RetryWon
  <2>3. \A j \in Keys : store'[j].status = "COMPLETED"
                            <=> store[j].status = "COMPLETED"
    BY <1>4, <2>2
  <2>4. pc[c] # "mark_completed" /\ pc'[c] # "mark_completed"
    BY <1>2, <1>10 DEF ClaimWon, RetryWon, GoTo, LoopHead
  <2>5. \A d \in Consumers \ {c} : pc'[d] = pc[d] /\ cur'[d] = cur[d]
    BY <1>2, <1>10 DEF ClaimWon, RetryWon, GoTo
  <2>6. effects' = effects /\ unrecorded' = unrecorded
    BY <1>10 DEF ClaimWon, RetryWon, ledgerVars
  <2> QED
    BY <2>3, <2>4, <2>5, <2>6, BalanceUntouched
\* All other steps of a consumer.
<1>11. ASSUME NEW c \in Consumers,
              \/ Start(c) \/ ClaimLost(c) \/ HandleRaises(c)
              \/ RetryWon(c) /\ ~HasId(c)
              \/ RetryLost(c) \/ SendToDlq(c) \/ Commit(c)
              \/ Abort(c) /\ pc[c] # "mark_completed"
              \/ \E p \in Partitions :
                     Receive(c, p) \/ ReceiveUndecodable(c, p)
       PROVE  EffectBalance'
  <2>1. pc[c] # "mark_completed" /\ pc'[c] # "mark_completed"
    BY <1>2, <1>11
       DEF Start, ClaimLost, HandleRaises, RetryWon, RetryLost, SendToDlq,
           Commit, Abort, Leave, Receive, Delivered, ReceiveUndecodable,
           GoTo, AfterFailure, LoopHead
  <2>2. \A d \in Consumers \ {c} : pc'[d] = pc[d] /\ cur'[d] = cur[d]
    BY <1>2, <1>11
       DEF Start, ClaimLost, HandleRaises, RetryWon, RetryLost, SendToDlq,
           Commit, Abort, Leave, Receive, Delivered, ReceiveUndecodable, GoTo
  <2>3. effects' = effects /\ unrecorded' = unrecorded /\ store' = store
    BY <1>11
       DEF Start, ClaimLost, HandleRaises, RetryWon, RetryLost, SendToDlq,
           Commit, Abort, Leave, Receive, Delivered, ReceiveUndecodable,
           ledgerVars, storeVars
  <2> QED
    BY <2>1, <2>2, <2>3, BalanceUntouched
<1>12. CASE Elapse
  <2>1. \A k \in Keys : store'[k].status = store[k].status
    BY <1>2, <1>12, AgedType DEF Elapse, Tick, Expiring, PromptRegime
  <2> QED
    BY <1>12, <2>1, BalanceUntouched DEF Elapse, ledgerVars
<1>13. CASE UNCHANGED vars \/ \E p \in Partitions, c \in Consumers : Assign(p, c)
  BY <1>13, BalanceUntouched DEF vars, Assign, procVars, ledgerVars, storeVars
<1> QED
  BY <1>6, <1>7, <1>8, <1>9, <1>10, <1>11, <1>12, <1>13
     DEF Next, Step, CompleteRaises

\* In the same regime a side effect is repeated only if its return could not
\* be recorded: RepeatsAreUnrecorded is an invariant.
THEOREM EffectsAreRecordedOnce ==
    ASSUME PromptRegime
    PROVE  Spec => []RepeatsAreUnrecorded
<1>1. Init => EffectBalance
  BY DEF Init, StoreInit, EffectBalance, Recorded, Pending, AboutToRecord,
         Missing
<1>2. ExclusiveInv /\ EffectBalance /\ [Next]_vars => EffectBalance'
  BY BalanceStep
<1>3. ExclusiveInv /\ EffectBalance => RepeatsAreUnrecorded
  <2> SUFFICES ASSUME ExclusiveInv, EffectBalance, NEW k \in Keys
               PROVE  effects[k] <= 1 + unrecorded[k]
    BY DEF RepeatsAreUnrecorded
  <2>1. AboutToRecord(k) => store[k].status = "PROCESSING"
    BY DEF AboutToRecord, ExclusiveInv, HolderInv, HoldsClaim, Working,
           TypeInv, LabelsOK
  <2>2. Recorded(k) + Pending(k) \in {0, 1}
    BY <2>1 DEF Recorded, Pending
  <2>3. /\ Recorded(k) \in Nat /\ Pending(k) \in Nat
        /\ unrecorded[k] \in Nat
    BY DEF Recorded, Pending, ExclusiveInv, TypeInv, ConsumerTypeOK
  <2> QED
    BY <2>2, <2>3 DEF EffectBalance
<1> QED
  BY <1>1, <1>2, <1>3, ExclusiveInvHolds, PTL DEF Spec
=============================================================================
