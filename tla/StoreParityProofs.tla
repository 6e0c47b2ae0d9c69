------------------------- MODULE StoreParityProofs -------------------------
(***************************************************************************)
(* Proofs about StoreParity, for any keys, results, lease and retry limit. *)
(***************************************************************************)
EXTENDS StoreParity, RedisStoreProofs

\* The in-memory store means the same as Redis by a record.
LEMMA SameVocabulary ==
    /\ Memory!Missing = Missing
    /\ Memory!FirstClaim = FirstClaim
    /\ Memory!NoLease = NoLease
    /\ Memory!NoError = NoError
    /\ \A rec : /\ Memory!Aged(rec) = Aged(rec)
                /\ Memory!Retryable(rec) <=> Retryable(rec)
                /\ Memory!Orphaned(rec) <=> Orphaned(rec)
  BY DEF Memory!Missing, Missing, Memory!FirstClaim, FirstClaim,
         Memory!NoLease, NoLease, Memory!NoError, NoError, Memory!Aged, Aged,
         Memory!Retryable, Retryable, Memory!Orphaned, Orphaned

\* One call makes both stores write the same record, if they had the same.
Failed(rec, error, n) == [rec EXCEPT !.status   = "FAILED",
                                     !.error    = error,
                                     !.attempts = n,
                                     !.lease    = NoLease]

Completed(rec, result) == [rec EXCEPT !.status = "COMPLETED",
                                      !.result = result,
                                      !.lease  = NoLease]

LEMMA RenewedType ==
    ASSUME NEW rec \in ProcessingStatus
    PROVE  /\ Memory!Renewed(rec) \in ProcessingStatus
           /\ Memory!Renewed(rec).status = "PROCESSING"
           /\ Memory!Renewed(rec).lease = LeaseTicks
           /\ Memory!Renewed(rec).error = NoError
           /\ Memory!Renewed(rec).result = NoResult
<1>1. rec.attempts + 1 \in Nat
  BY DEF ProcessingStatus
<1>2. LeaseTicks \in (0 .. LeaseTicks) \cup {NoLease}
  BY ConfigAssumption
<1> QED
  BY <1>1, <1>2, SameVocabulary
     DEF Memory!Renewed, FirstClaim, ProcessingStatus, StatusValue, ErrorTexts,
         NoError

LEMMA FailedType ==
    ASSUME NEW rec \in ProcessingStatus, NEW e \in ErrorTexts, NEW n \in Nat
    PROVE  /\ Failed(rec, e, n) \in ProcessingStatus
           /\ Failed(rec, e, n).status = "FAILED"
           /\ Failed(rec, e, n).lease = NoLease
  BY DEF Failed, ProcessingStatus, StatusValue

LEMMA CompletedType ==
    ASSUME NEW rec \in ProcessingStatus, NEW r \in Results \cup {NoResult}
    PROVE  /\ Completed(rec, r) \in ProcessingStatus
           /\ Completed(rec, r).status = "COMPLETED"
           /\ Completed(rec, r).lease = NoLease
  BY DEF Completed, ProcessingStatus, StatusValue

LEMMA SameFields ==
    ASSUME NEW rec \in ProcessingStatus, NEW other \in ProcessingStatus,
           rec.status = other.status, rec.attempts = other.attempts,
           rec.result = other.result, rec.error = other.error,
           rec.lease = other.lease
    PROVE  rec = other
  BY DEF ProcessingStatus

\* What Redis makes of a record is not what the decisions look at, ...
LEMMA AsRedisFields ==
    ASSUME NEW rec \in Records
    PROVE  /\ AsRedis(rec).status = rec.status
           /\ AsRedis(rec).attempts = rec.attempts
           /\ AsRedis(rec).lease = rec.lease
           /\ AsRedis(rec) = Missing <=> rec = Missing
<1>1. /\ AsRedis(rec).status = rec.status
      /\ AsRedis(rec).attempts = rec.attempts
      /\ AsRedis(rec).lease = rec.lease
  BY DEF AsRedis, Records, ProcessingStatus, Missing
<1>2. AsRedis(Missing) = Missing
  BY DEF AsRedis, Missing, Stored, NoError, EmptyText
<1>3. rec.status = "MISSING" => rec = Missing
  BY MissingByStatus
<1> QED
  BY <1>1, <1>2, <1>3 DEF Missing

\* ... a record without result and text is kept as it is, ...
LEMMA AsRedisClean ==
    ASSUME NEW rec \in Records, rec.result = NoResult, rec.error = NoError
    PROVE  AsRedis(rec) = rec
  BY DEF AsRedis, Stored, Records, ProcessingStatus, Missing, NoError, EmptyText

\* ... and time does the same to both.
LEMMA AsRedisAged ==
    ASSUME NEW rec \in Records
    PROVE  AsRedis(Aged(rec)) = Aged(AsRedis(rec))
<1>1. CASE rec = Missing
  BY <1>1, AsRedisFields, AgedType DEF Records, Missing, NoLease
<1>2. CASE rec \in ProcessingStatus
  BY <1>2 DEF AsRedis, Aged, ProcessingStatus
<1> QED
  BY <1>1, <1>2 DEF Records

\* A re-claim in Redis edits the record, in memory it builds a new one.  The
\* two agree because a record that can be claimed again has no result.
LEMMA SameReclaim ==
    ASSUME NEW rec \in ProcessingStatus, NEW other \in ProcessingStatus,
           other.result = NoResult, other.attempts = rec.attempts
    PROVE  AsRedis(Memory!Renewed(rec)) = Reclaimed(other)
<1>1. Memory!Renewed(rec).attempts = rec.attempts + 1
  BY SameVocabulary DEF Memory!Renewed, FirstClaim
<1>2. Memory!Renewed(rec) = Reclaimed(other)
  BY <1>1, ReclaimedType, RenewedType, SameFields
<1>3. AsRedis(Memory!Renewed(rec)) = Memory!Renewed(rec)
  BY RenewedType, AsRedisClean DEF Records
<1> QED
  BY <1>2, <1>3

\* An argument that Redis takes for "leave the field alone" finds a field that
\* says None, which is what the conversion makes of that argument.
LEMMA SameUpdate ==
    ASSUME NEW rec \in ProcessingStatus, rec.result = NoResult,
           rec.error = NoError, NEW e \in ErrorTexts, NEW n \in Nat \ {0},
           NEW r \in Results \cup {NoResult}
    PROVE  /\ AsRedis(Failed(rec, e, n))
                  = Updated(rec, "FAILED", NoResult, e, n)
           /\ AsRedis(Completed(rec, r))
                  = Updated(rec, "COMPLETED", Stored(r), EmptyText, 0)
<1>1. NoError # EmptyText
  BY DEF NoError, EmptyText
<1>2. AsRedis(Failed(rec, e, n)) = Updated(rec, "FAILED", NoResult, e, n)
  BY <1>1 DEF AsRedis, Failed, Updated, Stored, ProcessingStatus
<1>3. AsRedis(Completed(rec, r))
          = Updated(rec, "COMPLETED", Stored(r), EmptyText, 0)
  BY <1>1 DEF AsRedis, Completed, Updated, ProcessingStatus
<1> QED
  BY <1>2, <1>3

-----------------------------------------------------------------------------
(***************************************************************************)
(* The calls to the in-memory store                                        *)
(***************************************************************************)
MemTypeOK == mem \in [Keys -> Records]

\* ProcessingIsClean, for one record.
Clean(rec) ==
    IF rec.status = "PROCESSING"
    THEN rec.lease # NoLease /\ rec.error = NoError /\ rec.result = NoResult
    ELSE rec.lease = NoLease

MemInv == MemTypeOK /\ \A k \in Keys : Clean(mem[k])

LEMMA CleanRecords ==
    /\ Clean(Missing) /\ Clean(FirstClaim)
    /\ \A rec \in ProcessingStatus : Clean(Memory!Renewed(rec))
    /\ \A rec \in Records : Clean(rec) => Clean(Aged(rec))
<1>1. Clean(Missing) /\ Clean(FirstClaim)
  BY ConfigAssumption DEF Clean, Missing, FirstClaim, NoLease
<1>2. \A rec \in ProcessingStatus : Clean(Memory!Renewed(rec))
  BY RenewedType, ConfigAssumption DEF Clean, NoLease
<1>3. ASSUME NEW rec \in Records, Clean(rec) PROVE Clean(Aged(rec))
  <2>1. Aged(rec).lease = NoLease <=> rec.lease = NoLease
    BY AgedType, ConfigAssumption
       DEF Records, ProcessingStatus, Missing, NoLease
  <2> QED
    BY <1>3, <2>1, AgedType DEF Clean
<1> QED
  BY <1>1, <1>2, <1>3

\* What each call does to the dict.
LEMMA MemoryWrites ==
    ASSUME MemTypeOK, NEW k \in Keys
    PROVE  /\ Memory!MemoryClaim(k) =>
                  mem' = [mem EXCEPT ![k] = IF mem[k] = Missing
                                            THEN FirstClaim
                                            ELSE Memory!Renewed(mem[k])]
           /\ \A r : Memory!MemoryMarkCompleted(k, r) =>
                  mem' = [mem EXCEPT ![k] = IF mem[k].status = "PROCESSING"
                                            THEN Completed(mem[k], r)
                                            ELSE mem[k]]
           /\ \A e, n : Memory!MemoryMarkFailed(k, e, n) =>
                  mem' = [mem EXCEPT ![k] = IF mem[k] # Missing
                                            THEN Failed(mem[k], e, n)
                                            ELSE mem[k]]
<1>1. mem = [mem EXCEPT ![k] = mem[k]]
  BY DEF MemTypeOK
<1>2. ASSUME NEW r, Memory!MemoryMarkCompleted(k, r)
      PROVE  mem' = [mem EXCEPT ![k] = IF mem[k].status = "PROCESSING"
                                       THEN Completed(mem[k], r)
                                       ELSE mem[k]]
  BY <1>1, <1>2, SameVocabulary DEF Memory!MemoryMarkCompleted, Completed, MemTypeOK
<1>3. ASSUME NEW e, NEW n, Memory!MemoryMarkFailed(k, e, n)
      PROVE  mem' = [mem EXCEPT ![k] = IF mem[k] # Missing
                                       THEN Failed(mem[k], e, n)
                                       ELSE mem[k]]
  BY <1>1, <1>3, SameVocabulary DEF Memory!MemoryMarkFailed, Failed, MemTypeOK
<1> QED
  BY <1>2, <1>3, SameVocabulary DEF Memory!MemoryClaim

LEMMA MemInvStep ==
    ASSUME MemInv, [ParityNext]_parityVars
    PROVE  MemInv'
<1>1. /\ mem \in [Keys -> Records]
      /\ \A k \in Keys : Clean(mem[k])
  BY DEF MemInv, MemTypeOK
\* A call that writes one clean record.
<1>2. ASSUME NEW k \in Keys, NEW rec \in Records, Clean(rec),
             mem' = [mem EXCEPT ![k] = rec]
      PROVE  MemInv'
  BY <1>1, <1>2 DEF MemInv, MemTypeOK
<1>3. ASSUME NEW k \in Keys, Memory!MemoryClaim(k) PROVE MemInv'
  <2>1. CASE mem[k] = Missing
    BY <1>1, <1>2, <1>3, <2>1, MemoryWrites, CleanRecords, FirstClaimType
       DEF MemTypeOK, Records
  <2>2. CASE mem[k] # Missing
    <3>1. PICK rec \in ProcessingStatus : rec = mem[k]
      BY <1>1, <2>2 DEF Records
    <3>2. Memory!Renewed(rec) \in Records /\ Clean(Memory!Renewed(rec))
      BY RenewedType, CleanRecords DEF Records
    <3>3. mem' = [mem EXCEPT ![k] = Memory!Renewed(rec)]
      BY <1>1, <1>3, <2>2, <3>1, MemoryWrites DEF MemTypeOK
    <3> QED
      BY <1>2, <3>2, <3>3
  <2> QED
    BY <2>1, <2>2
<1>4. ASSUME NEW k \in Keys, NEW r \in Results \cup {NoResult},
             Memory!MemoryMarkCompleted(k, r)
      PROVE  MemInv'
  <2>1. CASE mem[k].status = "PROCESSING"
    <3>1. PICK rec \in ProcessingStatus : rec = mem[k]
      BY <1>1, <2>1, MissingByStatus
    <3>2. Completed(rec, r) \in Records /\ Clean(Completed(rec, r))
      BY CompletedType DEF Records, Clean
    <3>3. mem' = [mem EXCEPT ![k] = Completed(rec, r)]
      BY <1>1, <1>4, <2>1, <3>1, MemoryWrites DEF MemTypeOK
    <3> QED
      BY <1>2, <3>2, <3>3
  <2>2. CASE mem[k].status # "PROCESSING"
    BY <1>1, <1>2, <1>4, <2>2, MemoryWrites DEF MemTypeOK
  <2> QED
    BY <2>1, <2>2
<1>5. ASSUME NEW k \in Keys, NEW e \in ErrorTexts, NEW n \in Nat,
             Memory!MemoryMarkFailed(k, e, n)
      PROVE  MemInv'
  <2>1. CASE mem[k] # Missing
    <3>1. PICK rec \in ProcessingStatus : rec = mem[k]
      BY <1>1, <2>1 DEF Records
    <3>2. Failed(rec, e, n) \in Records /\ Clean(Failed(rec, e, n))
      BY FailedType DEF Records, Clean
    <3>3. mem' = [mem EXCEPT ![k] = Failed(rec, e, n)]
      BY <1>1, <1>5, <2>1, <3>1, MemoryWrites DEF MemTypeOK
    <3> QED
      BY <1>2, <3>2, <3>3
  <2>2. CASE mem[k] = Missing
    BY <1>1, <1>2, <1>5, <2>2, MemoryWrites DEF MemTypeOK
  <2> QED
    BY <2>1, <2>2
<1>6. ASSUME NEW k \in Keys, Memory!MemoryDelete(k) PROVE MemInv'
  BY <1>2, <1>6, CleanRecords, SameVocabulary
     DEF Memory!MemoryDelete, Records
<1>7. CASE Memory!MemoryClear
  BY <1>7, CleanRecords, SameVocabulary
     DEF Memory!MemoryClear, MemInv, MemTypeOK, Records
<1>8. CASE Memory!MemoryTick
  <2>1. \A k \in Keys : Aged(mem[k]) \in Records /\ Clean(Aged(mem[k]))
    BY <1>1, AgedType, CleanRecords
  <2> QED
    BY <1>8, <2>1, SameVocabulary DEF Memory!MemoryTick, MemInv, MemTypeOK
<1>9. CASE UNCHANGED mem
  BY <1>1, <1>9 DEF MemInv, MemTypeOK
<1>10. 1 .. MaxAttempts \subseteq Nat
  OBVIOUS
<1> QED
  BY <1>3, <1>4, <1>5, <1>6, <1>7, <1>8, <1>9, <1>10
     DEF ParityNext, ClaimBoth, CompleteBoth, CompleteRefused, FailBoth,
         DeleteBoth, ClearBoth, TickBoth, parityVars

LEMMA MemInvHolds == ParitySpec => []MemInv
<1>1. ParityInit => MemInv
  BY CleanRecords, SameVocabulary
     DEF ParityInit, Memory!MemoryInit, MemInv, MemTypeOK, Records
<1>2. MemInv /\ [ParityNext]_parityVars => MemInv'
  BY MemInvStep
<1> QED
  BY <1>1, <1>2, PTL DEF ParitySpec

\* Whatever the calls and their order, also a mark_failed() of a record that
\* is already settled, the in-memory store starts every attempt clean.
THEOREM MemoryStartsClean == ParitySpec => []MemoryAttemptsAreClean
<1>1. MemInv => MemoryAttemptsAreClean
  BY SameVocabulary DEF MemInv, Clean, MemoryAttemptsAreClean, Memory!ProcessingIsClean
<1> QED
  BY <1>1, MemInvHolds, PTL

-----------------------------------------------------------------------------
(***************************************************************************)
(* The two stores hold the same records.  That needs the shape of the      *)
(* records in Redis, so the store's invariant is carried along.            *)
(***************************************************************************)
ParityInv == StoreInv /\ MemInv /\ SameRecords

\* The calls are calls of the Redis store, but for clear().
LEMMA ParityStoreStep ==
    ASSUME StoreInv, [ParityNext]_parityVars
    PROVE  StoreInv'
<1>1. CASE ClearBoth
  BY <1>1, MissingShape, StoreAssumption
     DEF ClearBoth, StoreInv, StoreTypeOK, RecordShape, EveryRecordExpires,
         Shape
<1>2. CASE ~ClearBoth
  <2>1. [StoreNext]_storeVars
    BY <1>2 DEF ParityNext, ClaimBoth, CompleteBoth, CompleteRefused, FailBoth,
                DeleteBoth, TickBoth, parityVars, StoreNext
  <2> QED
    BY <2>1, StoreInvStep
<1> QED
  BY <1>1, <1>2

LEMMA SameRecordsStep ==
    ASSUME ParityInv, ~TtlElapses, [ParityNext]_parityVars
    PROVE  SameRecords'
<1>1. /\ store \in [Keys -> Records]
      /\ mem \in [Keys -> Records]
      /\ \A k \in Keys : Shape(store[k])
      /\ \A k \in Keys : Clean(mem[k])
  BY DEF ParityInv, StoreInv, StoreTypeOK, RecordShape, Shape, Records,
         MemInv, MemTypeOK
<1>2. \A k \in Keys \ apart :
          /\ store[k] = AsRedis(mem[k])
          /\ store[k].status = mem[k].status
          /\ store[k].attempts = mem[k].attempts
          /\ store[k].lease = mem[k].lease
          /\ store[k] = Missing <=> mem[k] = Missing
  BY <1>1, AsRedisFields DEF ParityInv, SameRecords
\* A record that is being processed is the same in both.
<1>3. \A k \in Keys \ apart : mem[k].status = "PROCESSING" =>
          /\ mem[k] \in ProcessingStatus
          /\ mem[k].result = NoResult /\ mem[k].error = NoError
          /\ store[k] = mem[k]
  BY <1>1, <1>2, MissingByStatus, AsRedisClean DEF Clean
\* A call for k that leaves the two records of k alike.
<1>4. ASSUME NEW k \in Keys,
             \A j \in Keys \ {k} : store'[j] = store[j] /\ mem'[j] = mem[j],
             apart \ {k} \subseteq apart',
             k \notin apart' => store'[k] = AsRedis(mem'[k])
      PROVE  SameRecords'
  BY <1>2, <1>4 DEF SameRecords
<1>5. ASSUME NEW k \in Keys, ClaimBoth(k) PROVE SameRecords'
  <2>1. \A j \in Keys \ {k} : store'[j] = store[j] /\ mem'[j] = mem[j]
    BY <1>1, <1>5 DEF ClaimBoth, Claim, storeVars, Memory!MemoryClaim
  <2>2. ASSUME k \notin apart PROVE store'[k] = AsRedis(mem'[k])
    <3>1. Claimable(k) <=> Memory!MemoryClaimable(k)
      BY <1>2, <2>2, SameVocabulary
         DEF Claimable, Memory!MemoryClaimable, Retryable, Orphaned
    <3>2. CASE ~Claimable(k)
      BY <1>2, <1>5, <2>2, <3>1, <3>2
         DEF ClaimBoth, Claim, storeVars, Memory!MemoryClaim
    <3>3. CASE Claimable(k) /\ store[k] = Missing
      <4>1. store'[k] = FirstClaim /\ mem'[k] = FirstClaim
        BY <1>1, <1>2, <1>5, <2>2, <3>1, <3>3, SameVocabulary
           DEF ClaimBoth, Claim, Memory!MemoryClaim
      <4>2. AsRedis(FirstClaim) = FirstClaim
        BY AsRedisClean, FirstClaimType DEF Records, FirstClaim
      <4> QED
        BY <4>1, <4>2
    <3>4. CASE Claimable(k) /\ store[k] # Missing
      <4>1. PICK rec \in ProcessingStatus : rec = mem[k]
        BY <1>1, <1>2, <2>2, <3>4 DEF Records
      <4>2. PICK other \in ProcessingStatus : other = store[k]
        BY <1>1, <3>4 DEF Records
      <4>3. other.result = NoResult /\ other.attempts = rec.attempts
        BY <1>1, <1>2, <2>2, <3>4, <4>1, <4>2
           DEF Claimable, Retryable, Orphaned, Shape
      <4>4. store'[k] = Reclaimed(other) /\ mem'[k] = Memory!Renewed(rec)
        BY <1>1, <1>2, <1>5, <2>2, <3>1, <3>4, <4>1, <4>2, SameVocabulary
           DEF ClaimBoth, Claim, Memory!MemoryClaim
      <4> QED
        BY <4>3, <4>4, SameReclaim
    <3> QED
      BY <3>2, <3>3, <3>4
  <2> QED
    BY <1>4, <1>5, <2>1, <2>2 DEF ClaimBoth
<1>6. ASSUME NEW k \in Keys, NEW r \in Results \cup {NoResult},
             CompleteBoth(k, r)
      PROVE  SameRecords'
  <2>1. mem' = [mem EXCEPT ![k] = IF mem[k].status = "PROCESSING"
                                  THEN Completed(mem[k], r) ELSE mem[k]]
    BY <1>1, <1>6, MemoryWrites DEF CompleteBoth, MemTypeOK
  <2>2. UpdateStatus(k, "COMPLETED", Stored(r), EmptyText, 0)
    BY <1>6, MarkIsUpdate DEF CompleteBoth
  <2>3. \A j \in Keys \ {k} : store'[j] = store[j] /\ mem'[j] = mem[j]
    BY <1>1, <2>1, <2>2 DEF UpdateStatus
  <2>4. ASSUME k \notin apart PROVE store'[k] = AsRedis(mem'[k])
    <3>1. CASE mem[k].status # "PROCESSING"
      BY <1>1, <1>2, <2>1, <2>2, <2>4, <3>1 DEF UpdateStatus, Updatable
    <3>2. CASE mem[k].status = "PROCESSING"
      <4>1. PICK rec \in ProcessingStatus : rec = mem[k]
        BY <1>3, <2>4, <3>2
      <4>2. rec = store[k] /\ rec.result = NoResult /\ rec.error = NoError
        BY <1>3, <2>4, <3>2, <4>1
      <4>3. store'[k] = Updated(rec, "COMPLETED", Stored(r), EmptyText, 0)
        BY <1>1, <2>2, <3>2, <4>1, <4>2 DEF UpdateStatus, Updatable
      <4>4. mem'[k] = Completed(rec, r)
        BY <1>1, <2>1, <3>2, <4>1
      <4>5. EmptyText \in ErrorTexts /\ 1 \in Nat \ {0}
        BY DEF ErrorTexts
      <4> QED
        BY <4>2, <4>3, <4>4, <4>5, SameUpdate
    <3> QED
      BY <3>1, <3>2
  <2> QED
    BY <1>4, <1>6, <2>3, <2>4 DEF CompleteBoth
\* Redis raises: only a record that is being processed is set apart.
<1>7. ASSUME NEW k \in Keys, NEW r \in Results \cup {NoResult},
             CompleteRefused(k, r)
      PROVE  SameRecords'
  <2>1. mem' = [mem EXCEPT ![k] = IF mem[k].status = "PROCESSING"
                                  THEN Completed(mem[k], r) ELSE mem[k]]
    BY <1>1, <1>7, MemoryWrites DEF CompleteRefused, MemTypeOK
  <2>2. store' = store
    BY <1>7 DEF CompleteRefused, storeVars
  <2>3. \A j \in Keys \ {k} : store'[j] = store[j] /\ mem'[j] = mem[j]
    BY <1>1, <2>1, <2>2
  <2>4. ASSUME k \notin apart' PROVE store'[k] = AsRedis(mem'[k])
    <3>1. k \notin apart /\ store[k].status # "PROCESSING"
      BY <1>7, <2>4 DEF CompleteRefused
    <3> QED
      BY <1>1, <1>2, <2>1, <2>2, <3>1
  <2>5. apart \ {k} \subseteq apart'
    BY <1>7 DEF CompleteRefused
  <2> QED
    BY <1>4, <2>3, <2>4, <2>5
<1>8. ASSUME NEW k \in Keys, NEW e \in ErrorTexts, NEW n \in Nat \ {0},
             FailBoth(k, e, n)
      PROVE  SameRecords'
  <2>1. mem' = [mem EXCEPT ![k] = IF mem[k] # Missing
                                  THEN Failed(mem[k], e, n) ELSE mem[k]]
    BY <1>1, <1>8, MemoryWrites DEF FailBoth, MemTypeOK
  <2>2. \A j \in Keys \ {k} : store'[j] = store[j] /\ mem'[j] = mem[j]
    BY <1>1, <1>8, <2>1 DEF FailBoth, MarkFailed, UpdateStatus
  <2>3. ASSUME k \notin apart' PROVE store'[k] = AsRedis(mem'[k])
    <3>1. k \notin apart /\ store[k].status \in {"PROCESSING", "MISSING"}
      BY <1>8, <2>3 DEF FailBoth
    <3>2. CASE store[k].status = "MISSING"
      <4>1. store[k] = Missing /\ mem[k] = Missing
        BY <1>1, <1>2, <3>1, <3>2, MissingByStatus
      <4> QED
        BY <1>1, <1>2, <1>8, <2>1, <3>1, <3>2, <4>1
           DEF FailBoth, MarkFailed, UpdateStatus, Updatable
    <3>3. CASE store[k].status = "PROCESSING"
      <4>1. PICK rec \in ProcessingStatus : rec = mem[k]
        BY <1>2, <1>3, <3>1, <3>3
      <4>2. /\ rec = store[k] /\ rec.result = NoResult /\ rec.error = NoError
            /\ rec # Missing
        BY <1>2, <1>3, <3>1, <3>3, <4>1 DEF Missing
      <4>3. store'[k] = Updated(rec, "FAILED", NoResult, e, n)
        BY <1>1, <1>8, <3>3, <4>2
           DEF FailBoth, MarkFailed, UpdateStatus, Updatable
      <4>4. mem'[k] = Failed(rec, e, n)
        BY <1>1, <2>1, <4>1, <4>2
      <4> QED
        BY <4>2, <4>3, <4>4, SameUpdate
    <3> QED
      BY <3>1, <3>2, <3>3
  <2>4. apart \ {k} \subseteq apart'
    BY <1>8 DEF FailBoth
  <2> QED
    BY <1>4, <2>2, <2>3, <2>4
<1>9. AsRedis(Missing) = Missing
  BY AsRedisFields DEF Records
<1>10. ASSUME NEW k \in Keys, DeleteBoth(k) PROVE SameRecords'
  BY <1>1, <1>4, <1>9, <1>10, SameVocabulary
     DEF DeleteBoth, Delete, Memory!MemoryDelete
<1>11. CASE ClearBoth
  BY <1>9, <1>11, SameVocabulary DEF ClearBoth, Memory!MemoryClear, SameRecords
<1>12. CASE TickBoth
  <2>1. \A k \in Keys : /\ store'[k] = Aged(store[k])
                        /\ mem'[k] = Aged(mem[k])
    BY <1>12, SameVocabulary DEF TickBoth, Tick, Expiring, Memory!MemoryTick
  <2>2. \A k \in Keys : AsRedis(Aged(mem[k])) = Aged(AsRedis(mem[k]))
    BY <1>1, AsRedisAged
  <2> QED
    BY <1>2, <1>12, <2>1, <2>2 DEF TickBoth, SameRecords
<1>13. CASE UNCHANGED parityVars
  BY <1>2, <1>13 DEF parityVars, storeVars, SameRecords
<1>14. 1 .. MaxAttempts \subseteq Nat \ {0}
  OBVIOUS
<1> QED
  BY <1>5, <1>6, <1>7, <1>8, <1>10, <1>11, <1>12, <1>13, <1>14 DEF ParityNext

LEMMA ParityInvHolds ==
    ASSUME ~TtlElapses
    PROVE  ParitySpec => []ParityInv
<1>1. ParityInit => StoreInv
  BY StoreAssumption, MissingShape
     DEF ParityInit, StoreInit, StoreInv, StoreTypeOK, RecordShape,
         EveryRecordExpires, Shape
<1>2. ParityInit => MemInv
  BY CleanRecords, SameVocabulary
     DEF ParityInit, Memory!MemoryInit, MemInv, MemTypeOK, Records
<1>3. ParityInit => SameRecords
  BY AsRedisFields, SameVocabulary
     DEF ParityInit, StoreInit, Memory!MemoryInit, SameRecords, Records
<1>4. ParityInv /\ [ParityNext]_parityVars => ParityInv'
  BY ParityStoreStep, SameRecordsStep, MemInvStep DEF ParityInv
<1> QED
  BY <1>1, <1>2, <1>3, <1>4, PTL DEF ParitySpec, ParityInv

\* Within the retention period the in-memory store holds the records Redis
\* would hold, up to the conversion of results and empty texts, for every
\* sequence of calls that reach Redis; only keys that saw a mark_failed() of a
\* settled record, or a mark_completed() with a result that cannot be encoded,
\* are set apart.
THEOREM StoresAgree ==
    ASSUME ~TtlElapses
    PROVE  ParitySpec => []SameRecords
<1>1. ParityInv => SameRecords
  BY DEF ParityInv
<1> QED
  BY <1>1, ParityInvHolds, PTL
=============================================================================
