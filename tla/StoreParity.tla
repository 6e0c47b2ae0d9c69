---------------------------- MODULE StoreParity ----------------------------
(***************************************************************************)
(* The in-memory store stands in for Redis in development and in the tests.*)
(* Here the same calls are made to both, in the same order, by callers that*)
(* may call anything at any time.  Two calls do different things:          *)
(*   - a mark_failed() that comes when the record is already settled is    *)
(*     refused by the Lua script and carried out by the in-memory store;   *)
(*   - a mark_completed() whose result cannot be encoded raises in Redis   *)
(*     and leaves the record PROCESSING; the in-memory store completes it. *)
(* And Redis holds a converted record: a result comes back as JSON left it,*)
(* and the empty text of an error is not stored.                           *)
(***************************************************************************)
EXTENDS RedisStore

VARIABLES mem,
          apart    \* keys that have seen such a call since their last delete

Memory == INSTANCE MemoryStore

parityVars == <<storeVars, mem, apart>>

ParityInit ==
    /\ StoreInit
    /\ Memory!MemoryInit
    /\ apart = {}

\* claim() on both; one store may grant what the other refuses.
ClaimBoth(k) ==
    /\ store[k].attempts < MaxAttempts /\ mem[k].attempts < MaxAttempts
    /\ Claim(k) \/ (~Claimable(k) /\ UNCHANGED storeVars)
    /\ \/ Memory!MemoryClaim(k)
       \/ ~Memory!MemoryClaimable(k) /\ UNCHANGED mem
    /\ UNCHANGED apart

CompleteBoth(k, r) ==
    /\ MarkCompleted(k, r)
    /\ Memory!MemoryMarkCompleted(k, r)
    /\ UNCHANGED apart

\* mark_completed() raises in Redis only.
CompleteRefused(k, r) ==
    /\ r \in Refused
    /\ UNCHANGED storeVars
    /\ Memory!MemoryMarkCompleted(k, r)
    /\ apart' = IF store[k].status = "PROCESSING" THEN apart \cup {k} ELSE apart

FailBoth(k, error, n) ==
    /\ MarkFailed(k, error, n)
    /\ Memory!MemoryMarkFailed(k, error, n)
    /\ apart' = IF store[k].status \in {"PROCESSING", "MISSING"}
               THEN apart ELSE apart \cup {k}

DeleteBoth(k) ==
    /\ Delete(k)
    /\ Memory!MemoryDelete(k)
    /\ apart' = apart \ {k}

\* clear() has no counterpart in Redis; it starts the comparison afresh.
ClearBoth ==
    /\ store' = [k \in Keys |-> Missing]
    /\ ttl' = [k \in Keys |-> 0]
    /\ Memory!MemoryClear
    /\ apart' = {}

TickBoth == Tick /\ Memory!MemoryTick /\ UNCHANGED apart

ParityNext ==
    \/ \E k \in Keys : ClaimBoth(k) \/ DeleteBoth(k)
    \/ \E k \in Keys, r \in Results \cup {NoResult} :
          CompleteBoth(k, r) \/ CompleteRefused(k, r)
    \/ \E k \in Keys, e \in ErrorTexts, n \in 1 .. MaxAttempts :
          FailBoth(k, e, n)
    \/ ClearBoth
    \/ TickBoth

ParitySpec == ParityInit /\ [][ParityNext]_parityVars

\* The in-memory record as Redis would hold it.
AsRedis(rec) == [rec EXCEPT !.result = Stored(@),
                            !.error  = IF @ = EmptyText THEN NoError ELSE @]

\* Within the retention period, and for calls that reach Redis, the two stores
\* hold the same records up to the conversion, so they grant and refuse the
\* same claims and report the same status and count: a test against the
\* in-memory store exercises the decisions production takes.  Only a
\* mark_failed() of a settled record and a mark_completed() with a result that
\* cannot be encoded set a key apart, until it is deleted.
SameRecords == \A k \in Keys \ apart : store[k] = AsRedis(mem[k])

\* Whatever the calls, the in-memory store starts every attempt clean.
MemoryAttemptsAreClean == Memory!ProcessingIsClean
=============================================================================
