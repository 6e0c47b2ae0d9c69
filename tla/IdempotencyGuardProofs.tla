----------------------- MODULE IdempotencyGuardProofs -----------------------
(***************************************************************************)
(* Proofs about IdempotencyGuard, for any number of guards, decorated      *)
(* functions and keys, and any number of calls and interruptions.          *)
(***************************************************************************)
EXTENDS IdempotencyGuard, RedisStoreProofs

LEMMA GuardConstants ==
    /\ CallerRetries \in Nat
    /\ MaxCalls \in Nat
    /\ MaxInterrupts \in Nat
    /\ LeaseTicks \in Nat
    /\ EmptyText \in ErrorTexts /\ "text" \in ErrorTexts
  BY GuardAssumption, ConfigAssumption DEF ErrorTexts

-----------------------------------------------------------------------------
(***************************************************************************)
(* Type correctness.  The counter of the decorator's loop keeps its bound  *)
(* only because the loop goes to sleep with attempts to spare.             *)
(***************************************************************************)
AttemptsLeft ==
    \A a \in Callers : pc[a] = "backoff" => attempts[a] < CallerRetries

GuardTypeInv == GuardTypeOK /\ AttemptsLeft

\* The variables of the calls, and those of the past.
CallTypeOK ==
    /\ pc \in [Callers -> Working \cup {"idle", "status", "claim", "backoff"}]
    /\ key \in [Callers -> Keys]
    /\ attempts \in [Callers -> 0 .. CallerRetries]
    /\ value \in [Callers -> Results \cup {NoResult}]
    /\ grant \in [Callers -> 0 .. LeaseTicks]

PastTypeOK ==
    /\ calls \in [Callers -> 0 .. MaxCalls]
    /\ interrupts \in 0 .. MaxInterrupts
    /\ effects \in [Keys -> Nat]
    /\ unrecorded \in [Keys -> Nat]

LEMMA GuardTypeParts ==
    GuardTypeInv <=> StoreTypeOK /\ CallTypeOK /\ PastTypeOK /\ AttemptsLeft
  BY DEF GuardTypeInv, GuardTypeOK, CallTypeOK, PastTypeOK

LEMMA GuardTypeInit == GuardInit => GuardTypeInv
<1>1. GuardInit => StoreTypeOK
  BY StoreAssumption DEF GuardInit, StoreInit, StoreTypeOK
<1>2. GuardInit => CallTypeOK /\ AttemptsLeft
  BY GuardConstants DEF GuardInit, CallTypeOK, AttemptsLeft
<1>3. GuardInit => PastTypeOK
  BY GuardConstants DEF GuardInit, PastTypeOK
<1> QED
  BY <1>1, <1>2, <1>3, GuardTypeParts

\* The end of a call leaves its variables in order.
LEMMA EndKeepsType ==
    ASSUME CallTypeOK, AttemptsLeft, NEW a \in Callers, End(a)
    PROVE  CallTypeOK' /\ AttemptsLeft'
  BY GuardConstants DEF CallTypeOK, AttemptsLeft, End, GoTo

LEMMA GuardTypeStep ==
    ASSUME GuardTypeInv, [GuardNext]_vars
    PROVE  GuardTypeInv'
<1>0. StoreTypeOK /\ CallTypeOK /\ PastTypeOK /\ AttemptsLeft
  BY GuardTypeParts
<1>a. ASSUME UNCHANGED storeVars PROVE StoreTypeOK'
  BY <1>0, <1>a DEF storeVars, StoreTypeOK
<1>b. ASSUME UNCHANGED pastVars PROVE PastTypeOK'
  BY <1>0, <1>b DEF pastVars, PastTypeOK
<1>c. ASSUME NEW a \in Callers PROVE key[a] \in Keys
  BY <1>0 DEF CallTypeOK
<1>e. ASSUME StoreTypeOK', CallTypeOK', PastTypeOK', AttemptsLeft'
      PROVE  GuardTypeInv'
  BY <1>e DEF GuardTypeInv, GuardTypeOK, CallTypeOK, PastTypeOK
<1> USE DEF Working
<1>1. ASSUME NEW a \in Callers, NEW k \in Keys, Call(a, k) PROVE GuardTypeInv'
  <2>1. CallTypeOK' /\ AttemptsLeft'
    BY <1>0, <1>1 DEF Call, GoTo, CallTypeOK, AttemptsLeft
  <2>2. PastTypeOK'
    BY <1>0, <1>1, GuardConstants DEF Call, PastTypeOK
  <2> QED
    BY <1>1, <2>1, <2>2, <1>a, <1>e DEF Call
<1>2. ASSUME NEW a \in Callers, ReadStatus(a) PROVE GuardTypeInv'
  <2>1. CallTypeOK' /\ AttemptsLeft'
    <3>1. CASE End(a)
      BY <1>0, <3>1, EndKeepsType
    <3>2. CASE ~End(a)
      BY <1>0, <1>2, <3>2 DEF ReadStatus, GoTo, CallTypeOK, AttemptsLeft
    <3> QED
      BY <3>1, <3>2
  <2> QED
    BY <1>2, <2>1, <1>a, <1>b, <1>e DEF ReadStatus
<1>3. ASSUME NEW a \in Callers, ClaimGranted(a) PROVE GuardTypeInv'
  <2>1. StoreTypeOK'
    BY <1>0, <1>3, <1>c, ClaimKeepsType DEF ClaimGranted
  <2>2. CallTypeOK' /\ AttemptsLeft'
    <3>1. CASE End(a)
      BY <1>0, <3>1, EndKeepsType
    <3>2. CASE ~End(a)
      BY <1>0, <1>3, <3>2, GuardConstants
         DEF ClaimGranted, GoTo, CallTypeOK, AttemptsLeft
    <3> QED
      BY <3>1, <3>2
  <2> QED
    BY <1>3, <2>1, <2>2, <1>b, <1>e DEF ClaimGranted
<1>4. ASSUME NEW a \in Callers, ClaimRefused(a) \/ RetryRefused(a)
      PROVE  GuardTypeInv'
  <2>1. CallTypeOK' /\ AttemptsLeft'
    BY <1>0, <1>4, EndKeepsType DEF ClaimRefused, RetryRefused
  <2> QED
    BY <1>4, <2>1, <1>a, <1>b, <1>e DEF ClaimRefused, RetryRefused
<1>5. ASSUME NEW a \in Callers, NEW r \in Results \cup {NoResult},
             BodyReturns(a, r)
      PROVE  GuardTypeInv'
  <2>1. CallTypeOK' /\ AttemptsLeft'
    BY <1>0, <1>5 DEF BodyReturns, GoTo, CallTypeOK, AttemptsLeft
  <2>2. PastTypeOK'
    BY <1>0, <1>5, <1>c DEF BodyReturns, PastTypeOK
  <2> QED
    BY <1>5, <2>1, <2>2, <1>a, <1>e DEF BodyReturns
<1>6. ASSUME NEW a \in Callers, BodyRaises(a) \/ CancelBlock(a)
      PROVE  GuardTypeInv'
  <2>1. CallTypeOK' /\ AttemptsLeft'
    BY <1>0, <1>6 DEF BodyRaises, CancelBlock, GoTo, CallTypeOK, AttemptsLeft
  <2>2. PastTypeOK'
    BY <1>0, <1>6, GuardConstants
       DEF BodyRaises, CancelBlock, Interrupted, pastVars, PastTypeOK
  <2> QED
    BY <1>6, <2>1, <2>2, <1>a, <1>e DEF BodyRaises, CancelBlock
<1>7. ASSUME NEW a \in Callers, GuardRecordsFailure(a) PROVE GuardTypeInv'
  <2>1. StoreTypeOK'
    BY <1>0, <1>7, <1>c, UpdateKeepsType, GuardConstants
       DEF GuardRecordsFailure, MarkFailed
  <2>2. CallTypeOK' /\ AttemptsLeft'
    BY <1>0, <1>7, EndKeepsType DEF GuardRecordsFailure
  <2> QED
    BY <1>7, <2>1, <2>2, <1>b, <1>e DEF GuardRecordsFailure
<1>8. ASSUME NEW a \in Callers, WrapperRecordsFailure(a) PROVE GuardTypeInv'
  <2>1. attempts[a] \in Nat
    BY <1>0, GuardConstants DEF CallTypeOK
  <2>2. StoreTypeOK'
    BY <1>0, <1>8, <2>1, <1>c, UpdateKeepsType
       DEF WrapperRecordsFailure, MarkFailed
  <2>3. CallTypeOK' /\ AttemptsLeft'
    <3>1. CASE End(a)
      BY <1>0, <3>1, EndKeepsType
    <3>2. CASE ~End(a)
      BY <1>0, <1>8, <3>2, GuardConstants
         DEF WrapperRecordsFailure, GoTo, CallTypeOK, AttemptsLeft
    <3> QED
      BY <3>1, <3>2
  <2> QED
    BY <1>8, <2>2, <2>3, <1>b, <1>e DEF WrapperRecordsFailure
<1>9. ASSUME NEW a \in Callers, RetryGranted(a) PROVE GuardTypeInv'
  <2>1. StoreTypeOK'
    BY <1>0, <1>9, <1>c, ClaimKeepsType DEF RetryGranted
  <2>2. attempts[a] + 1 \in 0 .. CallerRetries
    BY <1>0, <1>9, GuardConstants DEF RetryGranted, CallTypeOK, AttemptsLeft
  <2>3. CallTypeOK' /\ AttemptsLeft'
    BY <1>0, <1>9, <2>2, GuardConstants
       DEF RetryGranted, NextAttempt, GoTo, CallTypeOK, AttemptsLeft
  <2> QED
    BY <1>9, <2>1, <2>3, <1>b, <1>e DEF RetryGranted
<1>10. ASSUME NEW a \in Callers, SettleSuccess(a) PROVE GuardTypeInv'
  <2>1. value[a] \in Results \cup {NoResult}
    BY <1>0 DEF CallTypeOK
  <2>2. StoreTypeOK'
    BY <1>0, <1>10, <2>1, <1>c, MarkIsUpdate, UpdateKeepsType DEF SettleSuccess
  <2>3. CallTypeOK' /\ AttemptsLeft'
    BY <1>0, <1>10, EndKeepsType DEF SettleSuccess
  <2> QED
    BY <1>10, <2>2, <2>3, <1>b, <1>e DEF SettleSuccess
<1>11. ASSUME NEW a \in Callers, SettleRaises(a) PROVE GuardTypeInv'
  <2>1. CallTypeOK' /\ AttemptsLeft'
    BY <1>0, <1>11, EndKeepsType DEF SettleRaises
  <2>2. PastTypeOK'
    BY <1>0, <1>11, <1>c DEF SettleRaises, PastTypeOK
  <2> QED
    BY <1>11, <2>1, <2>2, <1>a, <1>e DEF SettleRaises
<1>12. ASSUME NEW a \in Callers, Cut(a) PROVE GuardTypeInv'
  <2>1. StoreTypeOK'
    BY <1>0, <1>12, <1>a, <1>c, ClaimKeepsType DEF Cut
  <2>2. CallTypeOK' /\ AttemptsLeft'
    BY <1>0, <1>12, EndKeepsType DEF Cut
  <2>3. PastTypeOK'
    BY <1>0, <1>12, <1>c, GuardConstants DEF Cut, Interrupted, PastTypeOK
  <2> QED
    BY <2>1, <2>2, <2>3, <1>e
<1>13. ASSUME Elapse PROVE GuardTypeInv'
  <2>1. StoreTypeOK'
    BY <1>0, <1>13, TickKeepsType DEF Elapse
  <2>2. CallTypeOK' /\ AttemptsLeft'
    BY <1>0, <1>13, GuardConstants DEF Elapse, CallTypeOK, AttemptsLeft
  <2> QED
    BY <1>13, <2>1, <2>2, <1>b, <1>e DEF Elapse
<1>14. CASE UNCHANGED vars
  <2>1. CallTypeOK' /\ AttemptsLeft'
    BY <1>0, <1>14 DEF vars, callVars, CallTypeOK, AttemptsLeft
  <2> QED
    BY <1>14, <2>1, <1>a, <1>b, <1>e DEF vars
<1> QED
  BY <1>1, <1>2, <1>3, <1>4, <1>5, <1>6, <1>7, <1>8, <1>9, <1>10, <1>11,
     <1>12, <1>13, <1>14 DEF GuardNext, Step

LEMMA GuardTypeHolds == GuardSpec => []GuardTypeInv
<1>1. GuardTypeInv /\ [GuardNext]_vars => GuardTypeInv'
  BY GuardTypeStep
<1> QED
  BY <1>1, GuardTypeInit, PTL DEF GuardSpec

\* The calls of guards and decorated functions keep every variable in its
\* type; in particular no attempt beyond max_retries is started.
THEOREM GuardTypeCorrect == GuardSpec => []GuardTypeOK
<1>1. GuardTypeInv => GuardTypeOK
  BY DEF GuardTypeInv
<1> QED
  BY <1>1, GuardTypeHolds, PTL

-----------------------------------------------------------------------------
(***************************************************************************)
(* One runner per key, in the regime the configuration asks for: the work  *)
(* ends within its lease, and records live longer than the horizon.  As for*)
(* the consumer, the invariant is that the record of every runner is       *)
(* PROCESSING with exactly the lease the runner counts on.                 *)
(***************************************************************************)
PromptBodies == LeaseTicks > 0 /\ ~SlowBodies /\ ~TtlElapses

RunnerInv ==
    \A a \in Callers :
        HoldsClaim(a) => /\ store[key[a]].status = "PROCESSING"
                         /\ store[key[a]].lease = grant[a]
                         /\ grant[a] > 0

GuardInv == GuardTypeInv /\ RunnerInv /\ SoleRunner

\* The key of a runner cannot be claimed.
LEMMA RunnerKeyNotClaimable ==
    ASSUME GuardTypeInv, RunnerInv, NEW a \in Callers, HoldsClaim(a)
    PROVE  key[a] \in Keys /\ ~Claimable(key[a])
<1>1. key[a] \in Keys
  BY DEF GuardTypeInv, GuardTypeOK
<1>2. store[key[a]].status = "PROCESSING" /\ store[key[a]].lease > 0
  BY DEF RunnerInv
<1>3. store[key[a]].lease \in (0 .. LeaseTicks) \cup {NoLease}
  BY <1>1 DEF GuardTypeInv, GuardTypeOK, StoreTypeOK, ProcessingStatus, Missing
<1> QED
  BY <1>1, <1>2, <1>3, ConfigAssumption
     DEF Claimable, Retryable, Orphaned, Missing, NoLease

\* Steps of a that leave the calls of the others, and the records they hold,
\* as they are.
LEMMA OtherRunnersKeepTheirs ==
    ASSUME GuardInv, NEW a \in Callers,
           \A b \in Callers \ {a} :
               /\ pc'[b] = pc[b] /\ key'[b] = key[b] /\ grant'[b] = grant[b]
               /\ HoldsClaim(b) => store'[key[b]] = store[key[b]],
           HoldsClaim(a)' =>
               /\ store'[key'[a]].status = "PROCESSING"
               /\ store'[key'[a]].lease = grant'[a]
               /\ grant'[a] > 0
               /\ \A b \in Callers \ {a} : HoldsClaim(b) => key[b] # key'[a]
    PROVE  RunnerInv' /\ SoleRunner'
<1>1. \A b \in Callers \ {a} : HoldsClaim(b)' <=> HoldsClaim(b)
  BY DEF HoldsClaim
<1>2. RunnerInv'
  BY <1>1 DEF GuardInv, RunnerInv
<1>3. SoleRunner'
  BY <1>1 DEF GuardInv, SoleRunner
<1> QED
  BY <1>2, <1>3

\* The call of a is over.
LEMMA EndEffect ==
    ASSUME GuardTypeInv, NEW a \in Callers, End(a)
    PROVE  /\ ~HoldsClaim(a)' /\ pc'[a] = "idle"
           /\ \A b \in Callers \ {a} :
                 pc'[b] = pc[b] /\ key'[b] = key[b] /\ grant'[b] = grant[b]
  BY DEF End, GoTo, HoldsClaim, Working, GuardTypeInv, GuardTypeOK

LEMMA GuardInvStep ==
    ASSUME PromptBodies, GuardInv, [GuardNext]_vars
    PROVE  GuardInv'
<1>1. GuardTypeInv /\ GuardTypeInv' /\ RunnerInv /\ SoleRunner /\ StoreTypeOK
  BY GuardTypeStep DEF GuardInv, GuardTypeInv, GuardTypeOK
<1>2. /\ pc \in [Callers -> Working \cup {"idle", "status", "claim", "backoff"}]
      /\ key \in [Callers -> Keys]
      /\ grant \in [Callers -> 0 .. LeaseTicks]
      /\ store \in [Keys -> Records]
  BY <1>1 DEF GuardTypeInv, GuardTypeOK, StoreTypeOK, Records
<1>3. ASSUME RunnerInv', SoleRunner' PROVE GuardInv'
  BY <1>1, <1>3 DEF GuardInv
\* A claim of a is granted: the key was nobody else's.
<1>4. ASSUME NEW a \in Callers, Claim(key[a]), key' = key,
             \A b \in Callers \ {a} : pc'[b] = pc[b] /\ grant'[b] = grant[b],
             HoldsClaim(a)' => grant'[a] = LeaseTicks
      PROVE  GuardInv'
  <2>1. PICK k \in Keys : k = key[a]
    BY <1>2
  <2>2. /\ store'[k].status = "PROCESSING" /\ store'[k].lease = LeaseTicks
        /\ \A j \in Keys \ {k} : store'[j] = store[j]
    BY <1>1, <1>4, <2>1, ClaimWrites
  <2>3. \A b \in Callers : HoldsClaim(b) => key[b] \in Keys \ {k}
    BY <1>1, <1>4, <2>1, RunnerKeyNotClaimable DEF Claim
  <2>4. LeaseTicks > 0
    BY DEF PromptBodies
  <2> QED
    BY <1>3, <1>4, <2>1, <2>2, <2>3, <2>4, OtherRunnersKeepTheirs
\* The claim of a is settled: only the record of its key is touched.
<1>5. ASSUME NEW a \in Callers, HoldsClaim(a), NEW s, NEW r, NEW e, NEW n,
             UpdateStatus(key[a], s, r, e, n), key' = key, ~HoldsClaim(a)',
             \A b \in Callers \ {a} : pc'[b] = pc[b] /\ grant'[b] = grant[b]
      PROVE  GuardInv'
  <2>1. \A j \in Keys \ {key[a]} : store'[j] = store[j]
    BY <1>2, <1>5 DEF UpdateStatus, Updatable
  <2>2. \A b \in Callers \ {a} : HoldsClaim(b) => key[b] \in Keys \ {key[a]}
    BY <1>1, <1>2, <1>5 DEF SoleRunner
  <2> QED
    BY <1>3, <1>5, <2>1, <2>2, OtherRunnersKeepTheirs
\* Steps that leave the store alone and do not make a a runner.
<1>6. ASSUME NEW a \in Callers, UNCHANGED storeVars,
             \A b \in Callers \ {a} :
                 pc'[b] = pc[b] /\ key'[b] = key[b] /\ grant'[b] = grant[b],
             HoldsClaim(a)' => /\ HoldsClaim(a)
                               /\ key'[a] = key[a]
                               /\ grant'[a] = grant[a]
      PROVE  GuardInv'
  <2>1. store' = store
    BY <1>6 DEF storeVars
  <2>2. HoldsClaim(a)' =>
            /\ store'[key'[a]].status = "PROCESSING"
            /\ store'[key'[a]].lease = grant'[a]
            /\ grant'[a] > 0
            /\ \A b \in Callers \ {a} : HoldsClaim(b) => key[b] # key'[a]
    BY <1>1, <1>6, <2>1 DEF RunnerInv, SoleRunner
  <2> QED
    BY <1>3, <1>6, <2>1, <2>2, OtherRunnersKeepTheirs
<1>7. ASSUME NEW a \in Callers, UNCHANGED storeVars, End(a) PROVE GuardInv'
  BY <1>1, <1>6, <1>7, EndEffect
<1>8. ASSUME NEW a \in Callers, Claim(key[a]), End(a) PROVE GuardInv'
  BY <1>1, <1>4, <1>8, EndEffect DEF End
<1>9. ASSUME NEW a \in Callers, NEW k \in Keys, Call(a, k) PROVE GuardInv'
  BY <1>2, <1>6, <1>9 DEF Call, GoTo, HoldsClaim, Working
<1>10. ASSUME NEW a \in Callers, ReadStatus(a) PROVE GuardInv'
  <2>1. CASE End(a)
    BY <1>7, <1>10, <2>1 DEF ReadStatus
  <2>2. CASE ~End(a)
    BY <1>2, <1>6, <1>10, <2>2 DEF ReadStatus, GoTo, HoldsClaim, Working
  <2> QED
    BY <2>1, <2>2
<1>11. ASSUME NEW a \in Callers, ClaimGranted(a) PROVE GuardInv'
  <2>1. CASE End(a)
    BY <1>8, <1>11, <2>1 DEF ClaimGranted
  <2>2. CASE ~End(a)
    BY <1>2, <1>4, <1>11, <2>2 DEF ClaimGranted, GoTo
  <2> QED
    BY <2>1, <2>2
<1>12. ASSUME NEW a \in Callers,
              ClaimRefused(a) \/ RetryRefused(a) \/ SettleRaises(a)
       PROVE  GuardInv'
  BY <1>7, <1>12 DEF ClaimRefused, RetryRefused, SettleRaises
<1>13. ASSUME NEW a \in Callers,
              \/ \E r \in Results \cup {NoResult} : BodyReturns(a, r)
              \/ BodyRaises(a) \/ CancelBlock(a)
       PROVE  GuardInv'
  BY <1>2, <1>6, <1>13
     DEF BodyReturns, BodyRaises, CancelBlock, GoTo, HoldsClaim, Working
<1>14. ASSUME NEW a \in Callers, GuardRecordsFailure(a) \/ SettleSuccess(a)
       PROVE  GuardInv'
  <2>1. HoldsClaim(a)
    BY <1>14 DEF GuardRecordsFailure, SettleSuccess, HoldsClaim, Working
  <2>2. key' = key /\ End(a)
    BY <1>14 DEF GuardRecordsFailure, SettleSuccess, End
  <2> QED
    BY <1>1, <1>5, <1>14, <2>1, <2>2, EndEffect
       DEF GuardRecordsFailure, SettleSuccess, MarkFailed, MarkCompleted
<1>15. ASSUME NEW a \in Callers, WrapperRecordsFailure(a) PROVE GuardInv'
  <2>1. HoldsClaim(a)
    BY <1>15 DEF WrapperRecordsFailure, HoldsClaim, Working
  <2>2. CASE End(a)
    BY <1>1, <1>5, <1>15, <2>1, <2>2, EndEffect
       DEF WrapperRecordsFailure, MarkFailed, End
  <2>3. CASE ~End(a)
    BY <1>2, <1>5, <1>15, <2>1, <2>3
       DEF WrapperRecordsFailure, MarkFailed, GoTo, HoldsClaim, Working
  <2> QED
    BY <2>2, <2>3
<1>16. ASSUME NEW a \in Callers, RetryGranted(a) PROVE GuardInv'
  BY <1>2, <1>4, <1>16 DEF RetryGranted, GoTo
<1>17. ASSUME NEW a \in Callers, Cut(a) PROVE GuardInv'
  BY <1>7, <1>8, <1>17 DEF Cut
<1>18. CASE Elapse
  <2>1. \A a \in Callers : HoldsClaim(a)' <=> HoldsClaim(a)
    BY <1>18 DEF Elapse, HoldsClaim
  <2>2. ASSUME NEW a \in Callers, HoldsClaim(a)
        PROVE  /\ store'[key[a]].status = "PROCESSING"
               /\ store'[key[a]].lease = grant'[a]
               /\ grant'[a] > 0
    <3>1. grant[a] > 1 /\ grant'[a] = grant[a] - 1 /\ grant[a] \in Nat
      BY <1>2, <1>18, <2>2 DEF Elapse, PromptBodies
    <3>2. PICK k \in Keys : k = key[a]
      BY <1>2
    <3>3. store'[k] = Aged(store[k])
      BY <1>18, <3>2 DEF Elapse, Tick, Expiring, PromptBodies
    <3>4. store[k].status = "PROCESSING" /\ store[k].lease = grant[a]
      BY <1>1, <2>2, <3>2 DEF RunnerInv
    <3>5. PICK rec \in Records : rec = store[k]
      BY <1>2
    <3>6. Aged(rec).status = "PROCESSING" /\ Aged(rec).lease = grant[a] - 1
      BY <3>1, <3>4, <3>5, AgedType
    <3> QED
      BY <3>1, <3>2, <3>3, <3>5, <3>6
  <2>3. RunnerInv' /\ SoleRunner'
    BY <1>1, <1>18, <2>1, <2>2 DEF Elapse, RunnerInv, SoleRunner
  <2> QED
    BY <1>3, <2>3
<1>19. CASE UNCHANGED vars
  <2>1. RunnerInv' /\ SoleRunner'
    BY <1>1, <1>19
       DEF vars, callVars, storeVars, RunnerInv, SoleRunner, HoldsClaim
  <2> QED
    BY <1>3, <2>1
<1> QED
  BY <1>9, <1>10, <1>11, <1>12, <1>13, <1>14, <1>15, <1>16, <1>17, <1>18,
     <1>19 DEF GuardNext, Step

LEMMA GuardInvHolds ==
    ASSUME PromptBodies
    PROVE  GuardSpec => []GuardInv
<1>1. GuardInit => GuardInv
  BY GuardTypeInit
     DEF GuardInit, GuardInv, RunnerInv, SoleRunner, HoldsClaim, Working
<1>2. GuardInv /\ [GuardNext]_vars => GuardInv'
  BY GuardInvStep
<1> QED
  BY <1>1, <1>2, PTL DEF GuardSpec

\* As long as the work ends within its lease, guards and decorated functions
\* never run the work of one key at the same time, whatever calls are
\* cancelled, refused or cut short: SoleRunner is an invariant.
THEOREM WorkIsExclusive ==
    ASSUME PromptBodies
    PROVE  GuardSpec => []SoleRunner
<1>1. GuardInv => SoleRunner
  BY DEF GuardInv
<1> QED
  BY <1>1, GuardInvHolds, PTL

-----------------------------------------------------------------------------
(***************************************************************************)
(* Repeated work.  The balance: each return of the work is recorded as     *)
(* COMPLETED, about to be, or counted as unrecorded.                       *)
(***************************************************************************)
Recorded(k) == IF store[k].status = "COMPLETED" THEN 1 ELSE 0

AboutToRecord(k) ==
    \E a \in Callers : pc[a] = "mark_completed" /\ key[a] = k

AwaitsRecord(k) == IF AboutToRecord(k) THEN 1 ELSE 0

WorkBalance ==
    \A k \in Keys : effects[k] = unrecorded[k] + Recorded(k) + AwaitsRecord(k)

\* A step that touches none of the terms keeps the balance.
LEMMA WorkBalanceUntouched ==
    ASSUME WorkBalance, effects' = effects, unrecorded' = unrecorded,
           \A k \in Keys : store'[k].status = "COMPLETED"
                               <=> store[k].status = "COMPLETED",
           \A a \in Callers : \/ pc'[a] = pc[a] /\ key'[a] = key[a]
                              \/ /\ pc[a] # "mark_completed"
                                 /\ pc'[a] # "mark_completed"
    PROVE  WorkBalance'
<1>1. ASSUME NEW k \in Keys
      PROVE  Recorded(k)' = Recorded(k) /\ AwaitsRecord(k)' = AwaitsRecord(k)
  <2>1. AboutToRecord(k)' <=> AboutToRecord(k)
    BY DEF AboutToRecord
  <2> QED
    BY <2>1 DEF Recorded, AwaitsRecord
<1> QED
  BY <1>1 DEF WorkBalance

LEMMA WorkBalanceStep ==
    ASSUME PromptBodies, GuardInv, WorkBalance, [GuardNext]_vars
    PROVE  WorkBalance'
<1>1. GuardTypeInv /\ RunnerInv /\ SoleRunner /\ StoreTypeOK
  BY DEF GuardInv, GuardTypeInv, GuardTypeOK
<1>2. /\ pc \in [Callers -> Working \cup {"idle", "status", "claim", "backoff"}]
      /\ key \in [Callers -> Keys]
      /\ store \in [Keys -> Records]
      /\ effects \in [Keys -> Nat]
      /\ unrecorded \in [Keys -> Nat]
  BY <1>1 DEF GuardTypeInv, GuardTypeOK, StoreTypeOK, Records
\* The only caller about to record a key is its runner.
<1>3. ASSUME NEW a \in Callers, HoldsClaim(a),
             NEW b \in Callers, pc[b] = "mark_completed", key[b] = key[a]
      PROVE  b = a
  BY <1>1, <1>3 DEF SoleRunner, HoldsClaim, Working
<1>4. ASSUME NEW k \in Keys, Claim(k)
      PROVE  \A j \in Keys : store'[j].status = "COMPLETED"
                                 <=> store[j].status = "COMPLETED"
  BY <1>1, <1>4, ClaimWrites
\* mark_completed() and mark_failed() of the runner take effect.
<1>5. ASSUME NEW a \in Callers, HoldsClaim(a),
             NEW s \in {"COMPLETED", "FAILED"},
             NEW r \in Results \cup {NoResult}, NEW e \in ErrorTexts,
             NEW n \in Nat, UpdateStatus(key[a], s, r, e, n)
      PROVE  /\ store[key[a]].status = "PROCESSING"
             /\ store'[key[a]].status = s
             /\ \A j \in Keys \ {key[a]} : store'[j] = store[j]
  <2>1. PICK k \in Keys : k = key[a]
    BY <1>2
  <2>2. store[k].status = "PROCESSING"
    BY <1>1, <1>5, <2>1 DEF RunnerInv
  <2> QED
    BY <1>1, <1>5, <2>1, <2>2, UpdateWrites
\* Steps that leave "mark_completed" to the others and the store alone.
<1>6. ASSUME NEW a \in Callers,
             effects' = effects, unrecorded' = unrecorded,
             \A k \in Keys : store'[k].status = "COMPLETED"
                                 <=> store[k].status = "COMPLETED",
             pc[a] # "mark_completed", pc'[a] # "mark_completed",
             \A b \in Callers \ {a} : pc'[b] = pc[b] /\ key'[b] = key[b]
      PROVE  WorkBalance'
  BY <1>6, WorkBalanceUntouched
<1>7. ASSUME NEW a \in Callers, NEW r \in Results \cup {NoResult},
             BodyReturns(a, r)
      PROVE  WorkBalance'
  <2>1. HoldsClaim(a)
    BY <1>7 DEF BodyReturns, HoldsClaim, Working
  <2>2. PICK k \in Keys : k = key[a]
    BY <1>2
  <2>3. ~AboutToRecord(k)
    BY <1>3, <1>7, <2>1, <2>2 DEF AboutToRecord, BodyReturns
  <2>4. pc' = [pc EXCEPT ![a] = "mark_completed"] /\ key' = key
    BY <1>7 DEF BodyReturns, GoTo
  <2>5. AboutToRecord(k)'
    BY <1>2, <2>2, <2>4 DEF AboutToRecord
  <2>6. \A j \in Keys \ {k} : AboutToRecord(j)' <=> AboutToRecord(j)
    BY <1>2, <1>7, <2>2, <2>4 DEF AboutToRecord, BodyReturns
  <2>7. /\ effects' = [effects EXCEPT ![k] = @ + 1]
        /\ unrecorded' = unrecorded /\ store' = store
    BY <1>7, <2>2 DEF BodyReturns, storeVars
  <2> QED
    BY <1>2, <2>3, <2>5, <2>6, <2>7 DEF WorkBalance, Recorded, AwaitsRecord
\* The runner leaves "mark_completed": the record is COMPLETED, or the return
\* is counted as unrecorded.
<1>8. ASSUME NEW a \in Callers, pc[a] = "mark_completed", End(a)
      PROVE  /\ AboutToRecord(key[a])
             /\ ~AboutToRecord(key[a])'
             /\ \A j \in Keys \ {key[a]} :
                   AboutToRecord(j)' <=> AboutToRecord(j)
  <2>1. HoldsClaim(a)
    BY <1>8 DEF HoldsClaim, Working
  <2>2. /\ pc'[a] # "mark_completed" /\ key' = key
        /\ \A b \in Callers \ {a} : pc'[b] = pc[b]
    BY <1>1, <1>8, EndEffect DEF End
  <2>3. AboutToRecord(key[a])
    BY <1>8 DEF AboutToRecord
  <2>4. ASSUME NEW b \in Callers, pc'[b] = "mark_completed", key'[b] = key[a]
        PROVE  FALSE
    BY <1>3, <2>1, <2>2, <2>4
  <2>5. \A j \in Keys \ {key[a]} : AboutToRecord(j)' <=> AboutToRecord(j)
    BY <1>8, <2>2 DEF AboutToRecord
  <2>6. PICK k \in Keys : k = key[a]
    BY <1>2
  <2>7. ~AboutToRecord(k)'
    BY <2>4, <2>6 DEF AboutToRecord
  <2> QED
    BY <2>2, <2>3, <2>5, <2>6, <2>7
<1>9. ASSUME NEW a \in Callers, SettleSuccess(a) PROVE WorkBalance'
  <2>1. HoldsClaim(a)
    BY <1>9 DEF SettleSuccess, HoldsClaim, Working
  <2>2. value[a] \in Results \cup {NoResult}
    BY <1>1 DEF GuardTypeInv, GuardTypeOK
  <2>3. PICK r \in Results \cup {NoResult} :
            UpdateStatus(key[a], "COMPLETED", r, EmptyText, 0)
    BY <1>9, <2>2, MarkIsUpdate DEF SettleSuccess
  <2>4. PICK k \in Keys : k = key[a]
    BY <1>2
  <2>5. /\ store[k].status = "PROCESSING"
        /\ store'[k].status = "COMPLETED"
        /\ \A j \in Keys \ {k} : store'[j] = store[j]
    BY <1>5, <2>1, <2>3, <2>4, GuardConstants
  <2>6. /\ AboutToRecord(k)
        /\ ~AboutToRecord(k)'
        /\ \A j \in Keys \ {k} : AboutToRecord(j)' <=> AboutToRecord(j)
    <3>1. key'[a] = key[a]
      BY <1>9 DEF SettleSuccess, End
    <3> QED
      BY <1>8, <1>9, <2>4, <3>1 DEF SettleSuccess, AboutToRecord
  <2>7. effects' = effects /\ unrecorded' = unrecorded
    BY <1>9 DEF SettleSuccess, pastVars
  <2> QED
    BY <1>2, <2>5, <2>6, <2>7 DEF WorkBalance, Recorded, AwaitsRecord
<1>10. ASSUME NEW a \in Callers, pc[a] = "mark_completed",
              SettleRaises(a) \/ Cut(a)
       PROVE  WorkBalance'
  <2>1. End(a) /\ store' = store
    BY <1>10 DEF SettleRaises, Cut, storeVars
  <2>2. PICK k \in Keys : k = key[a]
    BY <1>2
  <2>3. /\ AboutToRecord(k)
        /\ ~AboutToRecord(k)'
        /\ \A j \in Keys \ {k} : AboutToRecord(j)' <=> AboutToRecord(j)
    <3>1. key'[a] = key[a]
      BY <2>1 DEF End
    <3> QED
      BY <1>8, <1>10, <2>1, <2>2, <3>1 DEF AboutToRecord
  <2>4. /\ unrecorded' = [unrecorded EXCEPT ![k] = @ + 1]
        /\ effects' = effects
    BY <1>10, <2>2 DEF SettleRaises, Cut, Interrupted
  <2> QED
    BY <1>2, <2>1, <2>3, <2>4 DEF WorkBalance, Recorded, AwaitsRecord
\* A failure is recorded as FAILED.
<1>11. ASSUME NEW a \in Callers,
              GuardRecordsFailure(a) \/ WrapperRecordsFailure(a)
       PROVE  WorkBalance'
  <2>1. HoldsClaim(a) /\ pc[a] # "mark_completed"
    BY <1>11
       DEF GuardRecordsFailure, WrapperRecordsFailure, HoldsClaim, Working
  <2>2. attempts[a] \in Nat /\ 1 \in Nat
    BY <1>1, GuardConstants DEF GuardTypeInv, GuardTypeOK
  <2>3. PICK e \in ErrorTexts, n \in Nat :
            UpdateStatus(key[a], "FAILED", NoResult, e, n)
    BY <1>11, <2>2, GuardConstants
       DEF GuardRecordsFailure, WrapperRecordsFailure, MarkFailed
  <2>4. /\ store[key[a]].status = "PROCESSING"
        /\ store'[key[a]].status = "FAILED"
        /\ \A j \in Keys \ {key[a]} : store'[j] = store[j]
    BY <1>5, <2>1, <2>3
  <2>5. /\ pc'[a] # "mark_completed"
        /\ \A b \in Callers \ {a} : pc'[b] = pc[b] /\ key'[b] = key[b]
    BY <1>2, <1>11 DEF GuardRecordsFailure, WrapperRecordsFailure, End, GoTo
  <2>6. effects' = effects /\ unrecorded' = unrecorded
    BY <1>11 DEF GuardRecordsFailure, WrapperRecordsFailure, pastVars
  <2> QED
    BY <1>6, <2>1, <2>4, <2>5, <2>6
<1>12. ASSUME NEW a \in Callers,
              \/ ClaimGranted(a) \/ RetryGranted(a)
              \/ pc[a] # "mark_completed" /\ Cut(a)
       PROVE  WorkBalance'
  <2>1. key[a] \in Keys
    BY <1>2
  <2>2. Claim(key[a]) \/ store' = store
    BY <1>12 DEF ClaimGranted, RetryGranted, Cut, storeVars
  <2>3. \A j \in Keys : store'[j].status = "COMPLETED"
                            <=> store[j].status = "COMPLETED"
    BY <1>4, <2>1, <2>2
  <2>4. pc[a] # "mark_completed" /\ pc'[a] # "mark_completed"
    BY <1>2, <1>12 DEF ClaimGranted, RetryGranted, Cut, End, GoTo
  <2>5. \A b \in Callers \ {a} : pc'[b] = pc[b] /\ key'[b] = key[b]
    BY <1>2, <1>12 DEF ClaimGranted, RetryGranted, Cut, End, GoTo
  <2>6. effects' = effects /\ unrecorded' = unrecorded
    BY <1>12 DEF ClaimGranted, RetryGranted, Cut, Interrupted, pastVars
  <2> QED
    BY <1>6, <2>3, <2>4, <2>5, <2>6
\* All other steps of a caller.
<1>13. ASSUME NEW a \in Callers,
              \/ \E k \in Keys : Call(a, k)
              \/ ReadStatus(a) \/ ClaimRefused(a) \/ RetryRefused(a)
              \/ BodyRaises(a) \/ CancelBlock(a)
       PROVE  WorkBalance'
  <2>1. pc[a] # "mark_completed" /\ pc'[a] # "mark_completed"
    BY <1>2, <1>13 DEF Call, ReadStatus, ClaimRefused, RetryRefused, BodyRaises,
                       CancelBlock, End, GoTo
  <2>2. \A b \in Callers \ {a} : pc'[b] = pc[b] /\ key'[b] = key[b]
    BY <1>2, <1>13 DEF Call, ReadStatus, ClaimRefused, RetryRefused, BodyRaises,
                       CancelBlock, End, GoTo
  <2>3. effects' = effects /\ unrecorded' = unrecorded /\ store' = store
    BY <1>13 DEF Call, ReadStatus, ClaimRefused, RetryRefused, BodyRaises,
                 CancelBlock, Interrupted, pastVars, storeVars
  <2> QED
    BY <1>6, <2>1, <2>2, <2>3
<1>14. CASE Elapse
  <2>1. \A k \in Keys : store'[k].status = store[k].status
    BY <1>2, <1>14, AgedType DEF Elapse, Tick, Expiring, PromptBodies
  <2> QED
    BY <1>14, <2>1, WorkBalanceUntouched DEF Elapse, pastVars
<1>15. CASE UNCHANGED vars
  BY <1>15, WorkBalanceUntouched DEF vars, callVars, pastVars, storeVars
<1> QED
  BY <1>7, <1>9, <1>10, <1>11, <1>12, <1>13, <1>14, <1>15
     DEF GuardNext, Step, SettleRaises

\* In the same regime the work of a key returns once, plus once for each
\* return whose mark_completed() raised or was cut short: neither an error of
\* the store nor a cancelled call re-runs work that was recorded.
THEOREM WorkIsRecordedOnce ==
    ASSUME PromptBodies
    PROVE  GuardSpec => []WorkRepeatsOnlyUnrecorded
<1>1. GuardInit => WorkBalance
  BY DEF GuardInit, StoreInit, WorkBalance, Recorded, AwaitsRecord,
         AboutToRecord, Missing
<1>2. GuardInv /\ WorkBalance /\ [GuardNext]_vars => WorkBalance'
  BY WorkBalanceStep
<1>3. GuardInv /\ WorkBalance => WorkRepeatsOnlyUnrecorded
  <2> SUFFICES ASSUME GuardInv, WorkBalance, NEW k \in Keys
               PROVE  effects[k] <= 1 + unrecorded[k]
    BY DEF WorkRepeatsOnlyUnrecorded
  <2>1. AboutToRecord(k) => store[k].status = "PROCESSING"
    BY DEF AboutToRecord, GuardInv, RunnerInv, HoldsClaim, Working
  <2>2. Recorded(k) + AwaitsRecord(k) \in {0, 1}
    BY <2>1 DEF Recorded, AwaitsRecord
  <2>3. /\ Recorded(k) \in Nat /\ AwaitsRecord(k) \in Nat
        /\ unrecorded[k] \in Nat
    BY DEF Recorded, AwaitsRecord, GuardInv, GuardTypeInv, GuardTypeOK
  <2> QED
    BY <2>2, <2>3 DEF WorkBalance
<1> QED
  BY <1>1, <1>2, <1>3, GuardInvHolds, PTL DEF GuardSpec
=============================================================================
