----------------------------- MODULE RedisStore -----------------------------
(***************************************************************************)
(* RedisDeduplicationStore (src/src/dedup/redis_store.py).                 *)
(*                                                                         *)
(* Redis runs each Lua script atomically, so an operation of the store is  *)
(* one step on the record of one key.  No operation carries the identity   *)
(* of the caller: the actions below may be taken on behalf of anyone at    *)
(* any time, which is how a consumer that outlived its lease can still     *)
(* reach the store.  StoreSpec is the store under that most general client.*)
(***************************************************************************)
EXTENDS DedupRecord, FiniteSets

CONSTANTS Keys,         \* message ids
          Refused,      \* results that json.dumps or cjson will not encode
          Recoded,      \* Recoded[r]: r after json.dumps, cjson and json.loads
          TtlTicks,     \* ttl_seconds: Redis refuses a PX of zero
          TtlElapses,   \* FALSE: the horizon is shorter than the retention
          MaxAttempts   \* bound of the model: records stop counting there

ASSUME StoreAssumption ==
    /\ Refused \subseteq Results
    /\ Recoded \in [Results \ Refused -> Results]
    /\ TtlTicks \in Nat \ {0}
    /\ TtlElapses \in BOOLEAN
    /\ MaxAttempts \in Nat \ {0}

VARIABLES store,   \* store[k]: the record under dedup:{k}, or Missing
          ttl      \* ttl[k]: ticks until Redis drops the key, 0 if absent

storeVars == <<store, ttl>>

StoreTypeOK ==
    /\ store \in [Keys -> ProcessingStatus \cup {Missing}]
    /\ ttl \in [Keys -> 0 .. TtlTicks]

StoreInit ==
    /\ store = [k \in Keys |-> Missing]
    /\ ttl = [k \in Keys |-> 0]

(***************************************************************************)
(* claim(): _LUA_CLAIM.  A caller that loses changes nothing.              *)
(***************************************************************************)
Claimable(k) ==
    \/ store[k] = Missing
    \/ Retryable(store[k])
    \/ Orphaned(store[k])

\* Mutant: rec['error'] = nil forgotten.
ReclaimedKeepingError(rec) == [rec EXCEPT !.status   = "PROCESSING",
                                          !.attempts = @ + 1,
                                          !.lease    = LeaseTicks]

\* Mutant: the lease is computed from the neighbouring argument, ttl_ms.
ReclaimedForTtl(rec) == [rec EXCEPT !.status   = "PROCESSING",
                                    !.attempts = @ + 1,
                                    !.error    = NoError,
                                    !.lease    = TtlTicks]

\* KEEPTTL: a re-claim gets a new lease but not a new retention period.
Reclaimed(rec) == [rec EXCEPT !.status   = "PROCESSING",
                              !.attempts = @ + 1,
                              !.error    = NoError,
                              !.lease    = LeaseTicks]

\* Mutant: the re-claim is written without KEEPTTL, which clears the expiry.
ClaimDroppingTtl(k) ==
    /\ Claimable(k)
    /\ store' = [store EXCEPT ![k] = IF @ = Missing THEN FirstClaim
                                                    ELSE Reclaimed(@)]
    /\ ttl' = [ttl EXCEPT ![k] = IF store[k] = Missing THEN TtlTicks ELSE 0]

Claim(k) ==
    /\ Claimable(k)
    /\ store' = [store EXCEPT ![k] = IF @ = Missing THEN FirstClaim
                                                    ELSE Reclaimed(@)]
    /\ ttl' = [ttl EXCEPT ![k] = IF store[k] = Missing THEN TtlTicks ELSE @]

(***************************************************************************)
(* mark_completed() and mark_failed(): _LUA_UPDATE_STATUS.  An empty ARGV  *)
(* (no result, an empty error text, no attempts) leaves its field alone.   *)
(* The return code only chooses a log line: the caller is not told that    *)
(* its update was dropped.                                                 *)
(***************************************************************************)
Updated(rec, status, result, error, attempts) ==
    [rec EXCEPT !.status   = status,
                !.result   = IF result = NoResult THEN @ ELSE result,
                !.error    = IF error = EmptyText THEN @ ELSE error,
                !.attempts = IF attempts = 0 THEN @ ELSE attempts,
                !.lease    = NoLease]

\* Mutant: only the existence of the key is checked, not its status.
UpdatableAnyStatus(rec) == rec # Missing

\* The key exists and nobody settled the record yet.
Updatable(rec) == rec.status = "PROCESSING"

UpdateStatus(k, status, result, error, attempts) ==
    /\ store' = IF Updatable(store[k])
                THEN [store EXCEPT ![k] =
                        Updated(@, status, result, error, attempts)]
                ELSE store
    /\ UNCHANGED ttl

\* What get_status() will report of a result: [] comes back as {}, a tuple
\* as a list, a large integer rounded.  None is not converted.
Stored(result) == IF result = NoResult THEN NoResult ELSE Recoded[result]

\* A result that is refused makes the call raise, by json.dumps() before the
\* script or by cjson before its SET: nothing is written.
MarkCompleted(k, result) ==
    /\ result \notin Refused
    /\ UpdateStatus(k, "COMPLETED", Stored(result), EmptyText, 0)

MarkFailed(k, error, attempts) ==
    UpdateStatus(k, "FAILED", NoResult, error, attempts)

Delete(k) ==
    /\ store' = [store EXCEPT ![k] = Missing]
    /\ ttl' = [ttl EXCEPT ![k] = 0]

(***************************************************************************)
(* Redis' own clock: leases run down, and a key whose retention is over is *)
(* gone (external: Redis expiry as configured by SET ... PX).              *)
(***************************************************************************)
Expiring(k) == TtlElapses /\ ttl[k] = 1

Tick ==
    /\ store' = [k \in Keys |-> IF Expiring(k) THEN Missing
                                               ELSE Aged(store[k])]
    /\ ttl' = [k \in Keys |-> IF TtlElapses /\ ttl[k] > 0 THEN ttl[k] - 1
                                                          ELSE ttl[k]]

StoreNext ==
    \/ \E k \in Keys : store[k].attempts < MaxAttempts /\ Claim(k)
    \/ \E k \in Keys, r \in Results \cup {NoResult} : MarkCompleted(k, r)
    \/ \E k \in Keys, e \in ErrorTexts, n \in 1 .. MaxAttempts :
          MarkFailed(k, e, n)
    \/ \E k \in Keys : Delete(k)
    \/ Tick

StoreSpec == StoreInit /\ [][StoreNext]_storeVars

-----------------------------------------------------------------------------
(***************************************************************************)
(* Properties                                                              *)
(***************************************************************************)

\* The fields of a record agree with its status, whatever the order of
\* claims, late updates and expiries: a lease exists exactly while the
\* record is PROCESSING, a result only once it is COMPLETED, and an error
\* text only while it is FAILED (a retry that succeeds clears it).
RecordShape ==
    \A k \in Keys :
        /\ store[k].lease # NoLease <=> store[k].status = "PROCESSING"
        /\ store[k].result # NoResult => store[k].status = "COMPLETED"
        /\ store[k].error # NoError => store[k].status = "FAILED"
        /\ store[k].attempts > 0 <=> store[k] # Missing

\* Every record has a retention and every retention a record: no sequence
\* of re-claims and updates (all written with KEEPTTL) leaves a key that
\* Redis never drops.
EveryRecordExpires ==
    \A k \in Keys : store[k] # Missing <=> ttl[k] > 0

\* A COMPLETED record keeps its status and its result until the key is
\* dropped: no late mark_failed, second mark_completed or claim touches it.
CompletedIsTerminal ==
    [][\A k \in Keys :
          store[k].status = "COMPLETED" =>
              store'[k] \in {store[k], Missing}]_storeVars

\* The store implements the contract callers rely on.
Contract == INSTANCE StoreContract
    WITH phase  <- [k \in Keys |-> store[k].status],
         answer <- [k \in Keys |-> store[k].result]

\* Every step of the Redis scripts is a step the contract of store.py allows.
ImplementsContract == Contract!ContractSpec
=============================================================================
