-------------------------- MODULE RedisStoreProofs --------------------------
(***************************************************************************)
(* Proofs about RedisStore, for any keys, results, lease, retention and    *)
(* retry limit.                                                            *)
(***************************************************************************)
EXTENDS RedisStore, TLAPS

Records == ProcessingStatus \cup {Missing}

\* An absent record is told from a stored one by its status.
LEMMA MissingByStatus ==
    ASSUME NEW rec \in Records
    PROVE  /\ rec = Missing <=> rec.status = "MISSING"
           /\ rec # Missing => rec \in ProcessingStatus
           /\ rec.status \in StatusValue \cup {"MISSING"}
  BY DEF Records, ProcessingStatus, Missing, StatusValue

\* The record a first claim writes is well formed.
LEMMA FirstClaimType == FirstClaim \in ProcessingStatus
  BY ConfigAssumption DEF FirstClaim, ProcessingStatus, StatusValue, ErrorTexts,
         NoError

\* A re-claim leads from a well-formed record to a well-formed record.
LEMMA ReclaimedType ==
    ASSUME NEW rec \in ProcessingStatus
    PROVE  /\ Reclaimed(rec) \in ProcessingStatus
           /\ Reclaimed(rec).status = "PROCESSING"
           /\ Reclaimed(rec).lease = LeaseTicks
           /\ Reclaimed(rec).attempts = rec.attempts + 1
           /\ Reclaimed(rec).result = rec.result
           /\ Reclaimed(rec).error = NoError
<1>1. rec.attempts + 1 \in Nat
  BY DEF ProcessingStatus
<1>2. LeaseTicks \in (0 .. LeaseTicks) \cup {NoLease}
  BY ConfigAssumption
<1>3. "PROCESSING" \in StatusValue
  BY DEF StatusValue
<1>4. Reclaimed(rec) \in ProcessingStatus
  BY <1>1, <1>2, <1>3 DEF Reclaimed, ProcessingStatus
<1> QED
  BY <1>4 DEF Reclaimed, ProcessingStatus

\* The update script leads from a well-formed record to a well-formed record.
LEMMA UpdatedType ==
    ASSUME NEW rec \in ProcessingStatus,
           NEW s \in {"COMPLETED", "FAILED"},
           NEW r \in Results \cup {NoResult},
           NEW e \in ErrorTexts,
           NEW n \in Nat
    PROVE  /\ Updated(rec, s, r, e, n) \in ProcessingStatus
           /\ Updated(rec, s, r, e, n).status = s
           /\ Updated(rec, s, r, e, n).lease = NoLease
           /\ Updated(rec, s, r, e, n).attempts
                 = (IF n = 0 THEN rec.attempts ELSE n)
           /\ Updated(rec, s, r, e, n).result
                 = (IF r = NoResult THEN rec.result ELSE r)
           /\ Updated(rec, s, r, e, n).error 
                 = (IF e = EmptyText THEN rec.error ELSE e)
  BY ConfigAssumption
     DEF Updated, ProcessingStatus, StatusValue, NoLease, ErrorTexts, NoError

\* A mark_completed() that does not raise is an update with what JSON left of
\* the result.
LEMMA MarkIsUpdate ==
    ASSUME NEW k, NEW r \in Results \cup {NoResult}, MarkCompleted(k, r)
    PROVE  /\ r \notin Refused
           /\ Stored(r) \in Results \cup {NoResult}
           /\ EmptyText \in ErrorTexts
           /\ UpdateStatus(k, "COMPLETED", Stored(r), EmptyText, 0)
  BY StoreAssumption DEF MarkCompleted, Stored, ErrorTexts

\* Time changes nothing but a running lease.
LEMMA AgedType ==
    ASSUME NEW rec \in Records
    PROVE  /\ Aged(rec) \in Records
           /\ Aged(rec).status = rec.status
           /\ Aged(rec).attempts = rec.attempts
           /\ Aged(rec).result = rec.result
           /\ Aged(rec).error = rec.error
           /\ Aged(rec).lease = (IF rec.lease > 0 THEN rec.lease - 1
                                                  ELSE rec.lease)
           /\ rec.lease = NoLease => Aged(rec) = rec
<1>1. rec.lease \in (0 .. LeaseTicks) \cup {NoLease}
  BY DEF Records, ProcessingStatus, Missing
<1>2. rec.lease = NoLease => Aged(rec) = rec
  BY DEF Records, Aged, ProcessingStatus, Missing, NoLease
<1>3. Aged(Missing) = Missing
  BY DEF Aged, Missing, NoLease
<1>4. CASE rec \in ProcessingStatus
  <2>1. (IF rec.lease > 0 THEN rec.lease - 1 ELSE rec.lease)
            \in (0 .. LeaseTicks) \cup {NoLease}
    BY <1>1, ConfigAssumption DEF NoLease
  <2> QED
    BY <1>2, <1>4, <2>1 DEF Records, Aged, ProcessingStatus
<1>5. CASE rec = Missing
  BY <1>3, <1>5 DEF Records, Missing, NoLease
<1> QED
  BY <1>4, <1>5 DEF Records

-----------------------------------------------------------------------------
(***************************************************************************)
(* Type correctness                                                        *)
(***************************************************************************)

\* claim() keeps records and retentions well formed, ...
LEMMA ClaimKeepsType ==
    ASSUME StoreTypeOK, NEW k \in Keys, Claim(k)
    PROVE  StoreTypeOK'
<1>1. (IF store[k] = Missing THEN FirstClaim ELSE Reclaimed(store[k]))
          \in ProcessingStatus
  BY FirstClaimType, ReclaimedType DEF StoreTypeOK
<1> QED
  BY <1>1, StoreAssumption DEF Claim, StoreTypeOK

\* ... and so do the update script ...
LEMMA UpdateKeepsType ==
    ASSUME StoreTypeOK,
           NEW k \in Keys, NEW s \in {"COMPLETED", "FAILED"},
           NEW r \in Results \cup {NoResult}, NEW e \in ErrorTexts,
           NEW n \in Nat, UpdateStatus(k, s, r, e, n)
    PROVE  StoreTypeOK'
<1>1. store[k].status = "PROCESSING" =>
          Updated(store[k], s, r, e, n) \in ProcessingStatus
  <2> SUFFICES ASSUME store[k].status = "PROCESSING"
               PROVE  Updated(store[k], s, r, e, n) \in ProcessingStatus
    OBVIOUS
  <2>1. PICK rec \in ProcessingStatus : rec = store[k]
    BY MissingByStatus DEF StoreTypeOK, Records
  <2>2. Updated(rec, s, r, e, n) \in ProcessingStatus
    BY UpdatedType
  <2> QED
    BY <2>1, <2>2
<1> QED
  BY <1>1 DEF UpdateStatus, Updatable, StoreTypeOK

\* ... and the clock.
LEMMA TickKeepsType ==
    ASSUME StoreTypeOK, Tick
    PROVE  StoreTypeOK'
<1>1. \A k \in Keys : Aged(store[k]) \in ProcessingStatus \cup {Missing}
  BY AgedType DEF StoreTypeOK, Records
<1>2. \A k \in Keys :
          (IF TtlElapses /\ ttl[k] > 0 THEN ttl[k] - 1 ELSE ttl[k])
              \in 0 .. TtlTicks
  BY StoreAssumption DEF StoreTypeOK
<1> QED
  BY <1>1, <1>2 DEF Tick, StoreTypeOK

\* Every operation keeps records and retentions well formed.
LEMMA TypeStep ==
    ASSUME StoreTypeOK, [StoreNext]_storeVars
    PROVE  StoreTypeOK'
<1>1. ASSUME NEW k \in Keys, Delete(k)
      PROVE  StoreTypeOK'
  BY <1>1, StoreAssumption DEF Delete, StoreTypeOK
<1>2. CASE UNCHANGED storeVars
  BY <1>2 DEF storeVars, StoreTypeOK
<1>3. ASSUME NEW k \in Keys, NEW r \in Results \cup {NoResult},
             MarkCompleted(k, r)
      PROVE  StoreTypeOK'
  BY <1>3, MarkIsUpdate, UpdateKeepsType
<1>4. 1 .. MaxAttempts \subseteq Nat
  OBVIOUS
<1> QED
  BY <1>1, <1>2, <1>3, <1>4, ClaimKeepsType, UpdateKeepsType, TickKeepsType
     DEF StoreNext, MarkFailed

\* The records of the Redis store are always well formed: StoreTypeOK holds
\* in every reachable state, for any configuration.
THEOREM StoreTypeCorrect == StoreSpec => []StoreTypeOK
<1>1. StoreInit => StoreTypeOK
  BY StoreAssumption DEF StoreInit, StoreTypeOK
<1>2. StoreTypeOK /\ [StoreNext]_storeVars => StoreTypeOK'
  BY TypeStep
<1> QED
  BY <1>1, <1>2, PTL DEF StoreSpec

-----------------------------------------------------------------------------
(***************************************************************************)
(* What an operation does to the record of its key, and that it leaves the *)
(* others alone                                                            *)
(***************************************************************************)

\* A granted claim leaves the record PROCESSING, with a whole lease.
LEMMA ClaimWrites ==
    ASSUME StoreTypeOK, NEW k \in Keys, Claim(k)
    PROVE  /\ store[k].status # "COMPLETED"
           /\ store'[k].status = "PROCESSING"
           /\ store'[k].lease = LeaseTicks
           /\ \A j \in Keys \ {k} : store'[j] = store[j]
<1>1. store \in [Keys -> Records]
  BY DEF StoreTypeOK, Records
<1>2. store'[k] = IF store[k] = Missing THEN FirstClaim ELSE Reclaimed(store[k])
  BY <1>1 DEF Claim
<1>3. store'[k].status = "PROCESSING" /\ store'[k].lease = LeaseTicks
  <2>1. CASE store[k] = Missing
    BY <1>2, <2>1 DEF FirstClaim
  <2>2. CASE store[k] # Missing
    <3>1. PICK rec \in ProcessingStatus : rec = store[k]
      BY <1>1, <2>2 DEF Records
    <3> QED
      BY <1>2, <2>2, <3>1, ReclaimedType
  <2> QED
    BY <2>1, <2>2
<1>4. store[k].status # "COMPLETED"
  BY DEF Claim, Claimable, Retryable, Orphaned, Missing
<1> QED
  BY <1>1, <1>3, <1>4 DEF Claim

\* mark_completed() and mark_failed() settle a PROCESSING record.
LEMMA UpdateWrites ==
    ASSUME StoreTypeOK, NEW k \in Keys, store[k].status = "PROCESSING",
           NEW s \in {"COMPLETED", "FAILED"},
           NEW r \in Results \cup {NoResult}, NEW e \in ErrorTexts,
           NEW n \in Nat, UpdateStatus(k, s, r, e, n)
    PROVE  /\ store'[k].status = s
           /\ \A j \in Keys \ {k} : store'[j] = store[j]
<1>1. store \in [Keys -> Records]
  BY DEF StoreTypeOK, Records
<1>2. PICK rec \in ProcessingStatus : rec = store[k]
  BY <1>1, MissingByStatus
<1>3. store'[k] = Updated(rec, s, r, e, n)
  BY <1>1, <1>2 DEF UpdateStatus, Updatable
<1>4. Updated(rec, s, r, e, n).status = s
  BY UpdatedType
<1> QED
  BY <1>1, <1>3, <1>4 DEF UpdateStatus, Updatable

-----------------------------------------------------------------------------
(***************************************************************************)
(* The fields of a record agree, and every record has a retention.  Neither*)
(* part is inductive alone: that an update cannot leave an error on a      *)
(* COMPLETED record needs the shape of the PROCESSING one it starts from.  *)
(***************************************************************************)
StoreInv == StoreTypeOK /\ RecordShape /\ EveryRecordExpires

\* RecordShape, for one record.
Shape(rec) ==
    /\ rec.lease # NoLease <=> rec.status = "PROCESSING"
    /\ rec.result # NoResult => rec.status = "COMPLETED"
    /\ rec.error # NoError => rec.status = "FAILED"
    /\ rec.attempts > 0 <=> rec # Missing

\* So has no record at all.
LEMMA MissingShape == Shape(Missing)
  BY DEF Shape, Missing, NoLease, NoError

\* A claim writes a record of the right shape.
LEMMA ClaimedShape ==
    ASSUME NEW rec \in Records, Shape(rec),
           rec = Missing \/ Retryable(rec) \/ Orphaned(rec)
    PROVE  LET new == IF rec = Missing THEN FirstClaim ELSE Reclaimed(rec)
           IN  new \in ProcessingStatus /\ Shape(new) /\ new # Missing
<1>1. CASE rec = Missing
  <2>1. FirstClaim # Missing
    BY DEF FirstClaim, Missing
  <2>2. FirstClaim.lease # NoLease
    BY ConfigAssumption DEF FirstClaim, NoLease
  <2>3. Shape(FirstClaim)
    BY <2>1, <2>2 DEF FirstClaim, Shape
  <2> QED
    BY <1>1, <2>1, <2>3, FirstClaimType
<1>2. CASE rec # Missing
  <2>1. rec \in ProcessingStatus /\ rec.attempts \in Nat
    BY <1>2 DEF Records, ProcessingStatus
  <2>2. rec.status \in {"FAILED", "PROCESSING"}
    BY <1>2 DEF Retryable, Orphaned
  <2>3. Reclaimed(rec) \in ProcessingStatus
    BY <2>1, ReclaimedType
  <2>4. Reclaimed(rec) # Missing
    BY <2>1, ReclaimedType DEF Missing
  <2>5. Reclaimed(rec).attempts > 0 /\ Reclaimed(rec).lease # NoLease
    BY <2>1, ReclaimedType, ConfigAssumption DEF NoLease
  <2>6. Reclaimed(rec).result = NoResult
    BY <2>1, <2>2, ReclaimedType DEF Shape
  <2> QED
    BY <1>2, <2>1, <2>3, <2>4, <2>5, <2>6, ReclaimedType DEF Shape
<1> QED
  BY <1>1, <1>2

\* The update script writes a record of the right shape.
LEMMA UpdatedShape ==
    ASSUME NEW rec \in ProcessingStatus, Shape(rec),
           rec.status = "PROCESSING",
           NEW s \in {"COMPLETED", "FAILED"},
           NEW r \in Results \cup {NoResult}, NEW e \in ErrorTexts,
           NEW n \in Nat,
           r # NoResult => s = "COMPLETED",
           e # EmptyText => s = "FAILED"
    PROVE  /\ Updated(rec, s, r, e, n) \in ProcessingStatus
           /\ Updated(rec, s, r, e, n) # Missing
           /\ Shape(Updated(rec, s, r, e, n))
<1> DEFINE new == Updated(rec, s, r, e, n)
<1>1. /\ new \in ProcessingStatus
      /\ new.status = s
      /\ new.lease = NoLease
      /\ new.attempts = (IF n = 0 THEN rec.attempts ELSE n)
      /\ new.result = (IF r = NoResult THEN rec.result ELSE r)
      /\ new.error = (IF e = EmptyText THEN rec.error ELSE e)
  BY UpdatedType
<1>2. new # Missing /\ rec # Missing
  BY <1>1 DEF Missing
<1>3. rec.attempts \in Nat /\ rec.attempts > 0
  BY <1>2 DEF Shape, ProcessingStatus
<1>4. new.attempts > 0
  BY <1>1, <1>3
<1>5. rec.result = NoResult /\ rec.error = NoError
  BY DEF Shape
<1> HIDE DEF new
<1>6. Shape(new)
  BY <1>1, <1>2, <1>4, <1>5 DEF Shape
<1> QED
  BY <1>1, <1>2, <1>6 DEF new

\* Time keeps the shape of a record.
LEMMA AgedShape ==
    ASSUME NEW rec \in Records, Shape(rec)
    PROVE  /\ Shape(Aged(rec))
           /\ Aged(rec) = Missing <=> rec = Missing
<1>1. Aged(rec).lease = NoLease <=> rec.lease = NoLease
  BY AgedType, ConfigAssumption
     DEF Records, ProcessingStatus, Missing, NoLease
<1>2. Aged(rec) = Missing <=> rec = Missing
  BY AgedType, MissingByStatus
<1> QED
  BY <1>1, <1>2, AgedType DEF Shape

LEMMA StoreInvStep ==
    ASSUME StoreInv, [StoreNext]_storeVars
    PROVE  StoreInv'
<1>1. StoreTypeOK' /\ StoreTypeOK
  BY TypeStep DEF StoreInv
<1>2. \A k \in Keys : store[k] \in Records /\ Shape(store[k])
  BY DEF StoreInv, StoreTypeOK, RecordShape, Shape, Records
<1>3. \A k \in Keys : store[k] # Missing <=> ttl[k] > 0
  BY DEF StoreInv, EveryRecordExpires
<1>4. ASSUME \A k \in Keys : Shape(store'[k]) /\
                             (store'[k] # Missing <=> ttl'[k] > 0)
      PROVE  StoreInv'
  BY <1>1, <1>4 DEF StoreInv, RecordShape, Shape, EveryRecordExpires
<1>5. ASSUME NEW k \in Keys, Claim(k)
      PROVE  StoreInv'
  <2> DEFINE new == IF store[k] = Missing THEN FirstClaim
                                          ELSE Reclaimed(store[k])
  <2>1. Shape(new) /\ new # Missing
    BY <1>2, <1>5, ClaimedShape DEF Claim, Claimable
  <2>2. store' = [store EXCEPT ![k] = new]
    BY <1>5 DEF Claim
  <2>3. ttl' = [ttl EXCEPT ![k] = IF store[k] = Missing THEN TtlTicks ELSE @]
    BY <1>5 DEF Claim
  <2> HIDE DEF new
  <2>4. ttl'[k] > 0
    BY <1>1, <1>3, <2>3, StoreAssumption DEF StoreTypeOK
  <2> QED
    BY <1>1, <1>2, <1>3, <1>4, <2>1, <2>2, <2>3, <2>4 DEF StoreTypeOK
<1>6. ASSUME NEW k \in Keys, NEW s \in {"COMPLETED", "FAILED"},
             NEW r \in Results \cup {NoResult}, NEW e \in ErrorTexts,
             NEW n \in Nat, UpdateStatus(k, s, r, e, n),
             r # NoResult => s = "COMPLETED",
             e # EmptyText => s = "FAILED"
      PROVE  StoreInv'
  <2>1. CASE store[k].status = "PROCESSING"
    <3> DEFINE new == Updated(store[k], s, r, e, n)
    <3>1. store[k] \in ProcessingStatus /\ store[k] # Missing
      BY <1>2, <2>1, MissingByStatus DEF Missing
    <3>2. Shape(new) /\ new # Missing
      BY <1>2, <1>6, <2>1, <3>1, UpdatedShape
    <3>3. store' = [store EXCEPT ![k] = new] /\ ttl' = ttl
      BY <1>6, <2>1 DEF UpdateStatus, Updatable
    <3> HIDE DEF new
    <3> QED
      BY <1>1, <1>2, <1>3, <1>4, <3>1, <3>2, <3>3 DEF StoreTypeOK
  <2>2. CASE store[k].status # "PROCESSING"
    BY <1>2, <1>3, <1>4, <1>6, <2>2 DEF UpdateStatus, Updatable
  <2> QED
    BY <2>1, <2>2
<1>7. ASSUME NEW k \in Keys, Delete(k)
      PROVE  StoreInv'
  BY <1>1, <1>2, <1>3, <1>4, <1>7, MissingShape DEF Delete, StoreTypeOK
<1>8. CASE Tick
  <2>1. ASSUME NEW k \in Keys
        PROVE  Shape(store'[k]) /\ (store'[k] # Missing <=> ttl'[k] > 0)
    <3>1. ttl[k] \in Nat
      BY <1>1 DEF StoreTypeOK
    <3>2. /\ store'[k] = IF Expiring(k) THEN Missing ELSE Aged(store[k])
          /\ ttl'[k] = IF TtlElapses /\ ttl[k] > 0 THEN ttl[k] - 1 ELSE ttl[k]
      BY <1>8 DEF Tick
    <3>3. CASE Expiring(k)
      BY <3>1, <3>2, <3>3, MissingShape DEF Expiring
    <3>4. CASE ~Expiring(k)
      <4>1. Shape(Aged(store[k])) /\ (Aged(store[k]) # Missing <=> ttl[k] > 0)
        BY <1>2, <1>3, AgedShape
      <4>2. ttl'[k] > 0 <=> ttl[k] > 0
        BY <3>1, <3>2, <3>4 DEF Expiring
      <4> QED
        BY <3>2, <3>4, <4>1, <4>2
    <3> QED
      BY <3>3, <3>4
  <2> QED
    BY <1>4, <2>1
<1>9. CASE UNCHANGED storeVars
  BY <1>2, <1>3, <1>4, <1>9 DEF storeVars
<1>10. ASSUME NEW k \in Keys, NEW r \in Results \cup {NoResult},
              MarkCompleted(k, r)
       PROVE  StoreInv'
  BY <1>6, <1>10, MarkIsUpdate
<1>11. 1 .. MaxAttempts \subseteq Nat
  OBVIOUS
<1> QED
  BY <1>5, <1>6, <1>7, <1>8, <1>9, <1>10, <1>11 DEF StoreNext, MarkFailed

LEMMA StoreInvHolds == StoreSpec => []StoreInv
<1>1. StoreInit => StoreInv
  BY StoreAssumption, MissingShape
     DEF StoreInit, StoreInv, StoreTypeOK, RecordShape, EveryRecordExpires,
         Shape
<1>2. StoreInv /\ [StoreNext]_storeVars => StoreInv'
  BY StoreInvStep
<1> QED
  BY <1>1, <1>2, PTL DEF StoreSpec

\* The fields of every record agree with its status under any sequence of
\* claims, updates, deletions and expiries: RecordShape is an invariant.
THEOREM RecordsKeepShape == StoreSpec => []RecordShape
<1>1. StoreInv => RecordShape
  BY DEF StoreInv
<1> QED
  BY <1>1, StoreInvHolds, PTL

\* No sequence of scripts leaves a record that Redis never drops:
\* EveryRecordExpires is an invariant.
THEOREM RecordsExpire == StoreSpec => []EveryRecordExpires
<1>1. StoreInv => EveryRecordExpires
  BY DEF StoreInv
<1> QED
  BY <1>1, StoreInvHolds, PTL

-----------------------------------------------------------------------------
(***************************************************************************)
(* COMPLETED is terminal, and the store implements its contract            *)
(***************************************************************************)

\* A late mark_failed(), a second mark_completed() or a claim never touches a
\* COMPLETED record: every step satisfies CompletedIsTerminal.
THEOREM CompletedStays == StoreSpec => CompletedIsTerminal
<1>1. ASSUME StoreInv, StoreNext, NEW j \in Keys,
             store[j].status = "COMPLETED"
      PROVE  store'[j] \in {store[j], Missing}
  <2>1. store[j] \in Records /\ store[j] # Missing /\ store[j].lease = NoLease
    BY <1>1 DEF StoreInv, StoreTypeOK, RecordShape, Records, Missing
  <2>2. ASSUME NEW k \in Keys, Claim(k)
        PROVE  store'[j] = store[j]
    <3>1. ~Claimable(j)
      BY <1>1, <2>1 DEF Claimable, Retryable, Orphaned
    <3> QED
      BY <1>1, <2>2, <3>1 DEF Claim, StoreInv, StoreTypeOK
  <2>3. ASSUME NEW k \in Keys, NEW s, NEW r, NEW e, NEW n,
               UpdateStatus(k, s, r, e, n)
        PROVE  store'[j] = store[j]
    BY <1>1, <2>3 DEF UpdateStatus, Updatable, StoreInv, StoreTypeOK
  <2>4. ASSUME NEW k \in Keys, Delete(k)
        PROVE  store'[j] \in {store[j], Missing}
    BY <1>1, <2>4 DEF Delete, StoreInv, StoreTypeOK
  <2>5. CASE Tick
    BY <2>1, <2>5, AgedType DEF Tick
  <2> QED
    BY <1>1, <2>2, <2>3, <2>4, <2>5 DEF StoreNext, MarkCompleted, MarkFailed
<1>2. StoreInv /\ [StoreNext]_storeVars =>
          [\A k \in Keys : store[k].status = "COMPLETED" =>
                              store'[k] \in {store[k], Missing}]_storeVars
  BY <1>1
<1> QED
  BY <1>2, StoreInvHolds, PTL DEF StoreSpec, CompletedIsTerminal

\* Every step of the scripts is a step of the contract, or changes nothing
\* the contract speaks of.
LEMMA ContractStep ==
    ASSUME StoreInv, StoreNext
    PROVE  Contract!ContractNext \/ UNCHANGED Contract!contractVars
<1> DEFINE phase == [k \in Keys |-> store[k].status]
           answer == [k \in Keys |-> store[k].result]
<1>1. \A k \in Keys : store[k] \in Records /\ Shape(store[k])
  BY DEF StoreInv, StoreTypeOK, RecordShape, Shape, Records
<1>2. store \in [Keys -> Records]
  BY DEF StoreInv, StoreTypeOK, Records
<1>3. ASSUME NEW k \in Keys, Claim(k)
      PROVE  Contract!Claimed(k)
  <2> DEFINE new == IF store[k] = Missing THEN FirstClaim
                                          ELSE Reclaimed(store[k])
  <2>1. store[k].status # "COMPLETED"
    BY <1>3 DEF Claim, Claimable, Retryable, Orphaned, Missing
  <2>2. new.status = "PROCESSING" /\ new.result = store[k].result
    <3>1. CASE store[k] = Missing
      BY <3>1 DEF FirstClaim, Missing
    <3>2. CASE store[k] # Missing
      BY <1>1, <3>2, ReclaimedType DEF Records
    <3> QED
      BY <3>1, <3>2
  <2>3. store' = [store EXCEPT ![k] = new]
    BY <1>3 DEF Claim
  <2> HIDE DEF new
  <2>4. phase' = [phase EXCEPT ![k] = "PROCESSING"]
    BY <1>2, <2>2, <2>3
  <2>5. answer' = answer
    BY <1>2, <2>2, <2>3
  <2> QED
    BY <2>1, <2>4, <2>5 DEF Contract!Claimed
<1>4. ASSUME NEW k \in Keys, NEW s \in {"COMPLETED", "FAILED"},
             NEW r \in Results \cup {NoResult}, NEW e \in ErrorTexts,
             NEW n \in Nat, UpdateStatus(k, s, r, e, n)
      PROVE  \/ UNCHANGED <<phase, answer>>
             \/ /\ phase[k] = "PROCESSING"
                /\ phase' = [phase EXCEPT ![k] = s]
                /\ answer' = [answer EXCEPT ![k] = r]
  <2>1. CASE store[k].status # "PROCESSING"
    BY <1>4, <2>1 DEF UpdateStatus, Updatable
  <2>2. CASE store[k].status = "PROCESSING"
    <3>1. PICK rec \in ProcessingStatus : rec = store[k]
      BY <1>1, <2>2, MissingByStatus
    <3>2. rec.result = NoResult
      BY <1>1, <2>2, <3>1 DEF Shape
    <3> DEFINE new == Updated(rec, s, r, e, n)
    <3>3. new.status = s /\ new.result = r
      <4>1. /\ new.status = s
            /\ new.result = (IF r = NoResult THEN rec.result ELSE r)
        BY UpdatedType
      <4> QED
        BY <3>2, <4>1
    <3>4. store' = [store EXCEPT ![k] = new]
      BY <1>4, <2>2, <3>1 DEF UpdateStatus, Updatable
    <3> HIDE DEF new
    <3>5. phase' = [phase EXCEPT ![k] = s]
      BY <1>2, <3>3, <3>4
    <3>6. answer' = [answer EXCEPT ![k] = r]
      BY <1>2, <3>3, <3>4
    <3> QED
      BY <2>2, <3>5, <3>6
  <2> QED
    BY <2>1, <2>2
<1>5. ASSUME NEW k \in Keys, NEW r \in Results \cup {NoResult},
             MarkCompleted(k, r)
      PROVE  /\ Stored(r) \in Results \cup {NoResult}
             /\ Contract!Completed(k, Stored(r)) \/ UNCHANGED <<phase, answer>>
  <2>1. /\ Stored(r) \in Results \cup {NoResult}
        /\ EmptyText \in ErrorTexts
        /\ UpdateStatus(k, "COMPLETED", Stored(r), EmptyText, 0)
    BY <1>5, MarkIsUpdate
  <2> QED
    BY <1>4, <2>1 DEF Contract!Completed
<1>6. ASSUME NEW k \in Keys, NEW e \in ErrorTexts, NEW n \in 1 .. MaxAttempts,
             MarkFailed(k, e, n)
      PROVE  Contract!Failed(k) \/ UNCHANGED <<phase, answer>>
  <2>1. n \in Nat
    OBVIOUS
  <2>2. \/ UNCHANGED <<phase, answer>>
        \/ /\ phase[k] = "PROCESSING"
           /\ phase' = [phase EXCEPT ![k] = "FAILED"]
           /\ answer' = [answer EXCEPT ![k] = NoResult]
    BY <1>4, <1>6, <2>1 DEF MarkFailed
  <2>3. phase[k] = "PROCESSING" => answer[k] = NoResult
    BY <1>1 DEF Shape
  <2>4. answer = [answer EXCEPT ![k] = answer[k]]
    OBVIOUS
  <2> QED
    BY <2>2, <2>3, <2>4 DEF Contract!Failed
<1>7. ASSUME NEW k \in Keys, Delete(k)
      PROVE  Contract!Forgotten({k})
  BY <1>2, <1>7 DEF Delete, Missing, Contract!Forgotten
<1>8. ASSUME Tick
      PROVE  \E S \in SUBSET Keys : Contract!Forgotten(S)
  <2>1. PICK S \in SUBSET Keys : S = {k \in Keys : Expiring(k)}
    OBVIOUS
  <2>2. \A k \in Keys : /\ Aged(store[k]).status = store[k].status
                        /\ Aged(store[k]).result = store[k].result
    BY <1>1, AgedType
  <2>3. Contract!Forgotten(S)
    BY <1>8, <2>1, <2>2 DEF Tick, Missing, Contract!Forgotten
  <2> QED
    BY <2>3
<1> HIDE DEF phase, answer
<1>9. <<phase, answer>> = Contract!contractVars
  BY DEF phase, answer, Contract!contractVars
<1>10. \A k \in Keys : {k} \in SUBSET Keys
  OBVIOUS
<1>11. UNCHANGED <<phase, answer>> => UNCHANGED Contract!contractVars
  BY <1>9 DEF phase, answer, Contract!contractVars
<1>12. CASE \E k \in Keys : Claim(k)
  BY <1>3, <1>12 DEF Contract!ContractNext
<1>13. CASE \E k \in Keys, r \in Results \cup {NoResult} : MarkCompleted(k, r)
  BY <1>5, <1>11, <1>13 DEF Contract!ContractNext
<1>14. CASE \E k \in Keys, e \in ErrorTexts, n \in 1 .. MaxAttempts :
               MarkFailed(k, e, n)
  BY <1>6, <1>11, <1>14 DEF Contract!ContractNext
<1>15. CASE \E k \in Keys : Delete(k)
  BY <1>7, <1>10, <1>15 DEF Contract!ContractNext
<1>16. CASE Tick
  BY <1>8, <1>16 DEF Contract!ContractNext
<1> QED
  BY <1>12, <1>13, <1>14, <1>15, <1>16 DEF StoreNext

\* The Redis scripts implement the contract of store.py: ImplementsContract
\* holds for every configuration and every sequence of calls.
THEOREM StoreImplementsContract == StoreSpec => ImplementsContract
<1>1. StoreInit => Contract!ContractInit
  BY DEF StoreInit, Contract!ContractInit, Missing
<1>2. StoreInv /\ [StoreNext]_storeVars
          => [Contract!ContractNext]_(Contract!contractVars)
  BY ContractStep DEF storeVars, Contract!contractVars
<1> QED
  BY <1>1, <1>2, StoreInvHolds, PTL
     DEF StoreSpec, ImplementsContract, Contract!ContractSpec
=============================================================================
