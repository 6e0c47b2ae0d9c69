---------------------------- MODULE MemoryStore ----------------------------
(***************************************************************************)
(* InMemoryDeduplicationStore (src/src/dedup/memory_store.py): a dict under*)
(* one asyncio.Lock, so that every operation is one step.  There is no TTL;*)
(* the lease is compared with the clock of the process.  StoreParity makes *)
(* the calls.                                                              *)
(***************************************************************************)
EXTENDS DedupRecord

CONSTANTS Keys          \* message ids

VARIABLE mem            \* mem[k]: the record of k, or Missing

MemoryInit == mem = [k \in Keys |-> Missing]

MemoryClaimable(k) ==
    \/ mem[k] = Missing
    \/ Retryable(mem[k])
    \/ Orphaned(mem[k])

\* Mutant: the old record is updated in place and keeps its error.
RenewedKeepingError(rec) == [rec EXCEPT !.status   = "PROCESSING",
                                        !.attempts = @ + 1,
                                        !.lease    = LeaseTicks]

\* A re-claim builds a new record: nothing of the old one but the count.
Renewed(rec) == [FirstClaim EXCEPT !.attempts = rec.attempts + 1]

MemoryClaim(k) ==
    /\ MemoryClaimable(k)
    /\ mem' = [mem EXCEPT ![k] = IF @ = Missing THEN FirstClaim
                                                ELSE Renewed(@)]

\* Mutant: the lease is left on the completed record.
MemoryMarkCompletedKeepingLease(k, result) ==
    mem' = IF mem[k].status = "PROCESSING"
           THEN [mem EXCEPT ![k].status = "COMPLETED", ![k].result = result]
           ELSE mem

MemoryMarkCompleted(k, result) ==
    mem' = IF mem[k].status = "PROCESSING"
           THEN [mem EXCEPT ![k].status = "COMPLETED",
                            ![k].result = result,
                            ![k].lease  = NoLease]
           ELSE mem

\* Unlike the Lua script, this asks only that the record exists.
MemoryMarkFailed(k, error, attempts) ==
    mem' = IF mem[k] # Missing
           THEN [mem EXCEPT ![k].status   = "FAILED",
                            ![k].error    = error,
                            ![k].attempts = attempts,
                            ![k].lease    = NoLease]
           ELSE mem

MemoryDelete(k) == mem' = [mem EXCEPT ![k] = Missing]

MemoryClear == mem' = [k \in Keys |-> Missing]

MemoryTick == mem' = [k \in Keys |-> Aged(mem[k])]

-----------------------------------------------------------------------------
(***************************************************************************)
(* Property                                                                *)
(***************************************************************************)

\* Whatever was stored before, a record that is being processed carries
\* neither an error nor a result of an earlier attempt, and a record that is
\* not being processed has no lease left that could make it claimable.
ProcessingIsClean ==
    \A k \in Keys :
        IF mem[k].status = "PROCESSING"
        THEN /\ mem[k].lease # NoLease
             /\ mem[k].error = NoError
             /\ mem[k].result = NoResult
        ELSE mem[k].lease = NoLease
=============================================================================
