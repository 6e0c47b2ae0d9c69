-------------------------- MODULE IdempotencyGuard --------------------------
(***************************************************************************)
(* IdempotencyGuard and @idempotent (src/src/idempotency/guard.py): callers*)
(* that wrap a piece of work with the life cycle of the store.             *)
(*                                                                         *)
(* Both read the status, claim, run the work and settle the claim.  The    *)
(* guard runs its block once and reports a failure without an attempt      *)
(* count; the decorator has a retry loop of its own.  pc[a] is the await a *)
(* call has reached, "idle" when the caller is in no call.                 *)
(***************************************************************************)
EXTENDS RedisStore

CONSTANTS Guards,          \* callers that use "async with IdempotencyGuard"
          Decorated,       \* callers of an @idempotent function
          CallerRetries,   \* max_retries of the decorator's configuration
          SlowBodies,      \* the work may take longer than the lease
          StoreMayFail,    \* mark_completed() may raise
          MaxCalls,        \* bound of the model: calls of one caller
          MaxInterrupts    \* bound of the model: calls cut short

ASSUME GuardAssumption ==
    /\ Guards \cap Decorated = {}
    /\ CallerRetries \in Nat
    /\ {SlowBodies, StoreMayFail} \subseteq BOOLEAN
    /\ MaxCalls \in Nat
    /\ MaxInterrupts \in Nat

Callers == Guards \cup Decorated

VARIABLES
    pc,           \* pc[a]: where the call of a stands
    key,          \* key[a]: its idempotency key (the last one when idle)
    attempts,     \* attempts[a]: the counter of the decorator's loop
    value,        \* value[a]: what the work returned
    grant,        \* grant[a]: ticks left of the lease a was given
    calls,        \* calls[a]: how often a called
    interrupts,   \* calls that were cut short
    effects,      \* effects[k]: how often the work for k returned
    unrecorded    \* unrecorded[k]: returns no COMPLETED was written for

callVars == <<pc, key, attempts, value, grant>>
pastVars == <<calls, interrupts, effects, unrecorded>>

vars == <<storeVars, callVars, pastVars>>

Working == {"body", "mark_failed", "mark_completed"}

GuardTypeOK ==
    /\ StoreTypeOK
    /\ pc \in [Callers -> Working \cup {"idle", "status", "claim", "backoff"}]
    /\ key \in [Callers -> Keys]
    /\ attempts \in [Callers -> 0 .. CallerRetries]
    /\ value \in [Callers -> Results \cup {NoResult}]
    /\ grant \in [Callers -> 0 .. LeaseTicks]
    /\ calls \in [Callers -> 0 .. MaxCalls]
    /\ interrupts \in 0 .. MaxInterrupts
    /\ effects \in [Keys -> Nat]
    /\ unrecorded \in [Keys -> Nat]

GuardInit ==
    /\ StoreInit
    /\ pc = [a \in Callers |-> "idle"]
    /\ key \in [Callers -> Keys]
    /\ attempts = [a \in Callers |-> 0]
    /\ value = [a \in Callers |-> NoResult]
    /\ grant = [a \in Callers |-> 0]
    /\ calls = [a \in Callers |-> 0]
    /\ interrupts = 0
    /\ effects = [k \in Keys |-> 0]
    /\ unrecorded = [k \in Keys |-> 0]

GoTo(a, label) == pc' = [pc EXCEPT ![a] = label]

\* The call is over, whether it returns or raises.
End(a) ==
    /\ GoTo(a, "idle")
    /\ attempts' = [attempts EXCEPT ![a] = 0]
    /\ value' = [value EXCEPT ![a] = NoResult]
    /\ grant' = [grant EXCEPT ![a] = 0]
    /\ UNCHANGED key

\* A call with a key; a key_fn that raises leaves no trace.
Call(a, k) ==
    /\ pc[a] = "idle"
    /\ calls[a] < MaxCalls
    /\ calls' = [calls EXCEPT ![a] = @ + 1]
    /\ key' = [key EXCEPT ![a] = k]
    /\ GoTo(a, "status")
    /\ UNCHANGED <<storeVars, attempts, value, grant, interrupts, effects,
                   unrecorded>>

\* get_status(): a COMPLETED record answers the call.
ReadStatus(a) ==
    /\ pc[a] = "status"
    /\ IF store[key[a]].status = "COMPLETED"
       THEN End(a)
       ELSE GoTo(a, "claim") /\ UNCHANGED <<key, attempts, value, grant>>
    /\ UNCHANGED <<storeVars, pastVars>>

\* claim() won: the block runs, or the loop of the decorator starts unless
\* max_retries is 0, when "raise last_exc" raises at once.
ClaimGranted(a) ==
    /\ pc[a] = "claim"
    /\ Claim(key[a])
    /\ IF a \in Guards \/ CallerRetries >= 1
       THEN /\ GoTo(a, "body")
            /\ attempts' = [attempts EXCEPT ![a] = IF a \in Guards THEN @ ELSE 1]
            /\ grant' = [grant EXCEPT ![a] = LeaseTicks]
            /\ UNCHANGED <<key, value>>
       ELSE End(a)
    /\ UNCHANGED pastVars

\* Mutant: already_processed is not set, so the block runs all the same.
ClaimRefusedRunsBlock(a) ==
    /\ pc[a] = "claim"
    /\ ~Claimable(key[a])
    /\ GoTo(a, "body")
    /\ UNCHANGED <<storeVars, key, attempts, value, grant, pastVars>>

\* claim() lost: already_processed without a result, or None.
ClaimRefused(a) ==
    /\ pc[a] = "claim"
    /\ ~Claimable(key[a])
    /\ End(a)
    /\ UNCHANGED <<storeVars, pastVars>>

BodyReturns(a, r) ==
    /\ pc[a] = "body"
    /\ effects' = [effects EXCEPT ![key[a]] = @ + 1]
    /\ value' = [value EXCEPT ![a] = r]
    /\ GoTo(a, "mark_completed")
    /\ UNCHANGED <<storeVars, key, attempts, grant, calls, interrupts,
                   unrecorded>>

BodyRaises(a) ==
    /\ pc[a] = "body"
    /\ GoTo(a, "mark_failed")
    /\ UNCHANGED <<storeVars, key, attempts, value, grant, pastVars>>

\* __aexit__ with an exception: a text that is never empty, and the default
\* attempts = 1.
GuardRecordsFailure(a) ==
    /\ a \in Guards
    /\ pc[a] = "mark_failed"
    /\ MarkFailed(key[a], "text", 1)
    /\ End(a)
    /\ UNCHANGED pastVars

\* The except clause of the decorator's loop, up to the backoff.
WrapperRecordsFailure(a) ==
    /\ a \in Decorated
    /\ pc[a] = "mark_failed"
    /\ \E text \in ErrorTexts : MarkFailed(key[a], text, attempts[a])
    /\ IF attempts[a] < CallerRetries
       THEN /\ GoTo(a, "backoff")
            /\ grant' = [grant EXCEPT ![a] = 0]
            /\ UNCHANGED <<key, attempts, value>>
       ELSE End(a)
    /\ UNCHANGED pastVars

\* Mutant: an attempt is counted when it fails and again when it is repeated.
AttemptCountedTwice(a) == attempts[a] + 2

\* Mutant: "attempts += 1" is skipped by the continue.
SameAttempt(a) == attempts[a]

NextAttempt(a) == attempts[a] + 1

RetryGranted(a) ==
    /\ pc[a] = "backoff"
    /\ Claim(key[a])
    /\ attempts' = [attempts EXCEPT ![a] = NextAttempt(a)]
    /\ grant' = [grant EXCEPT ![a] = LeaseTicks]
    /\ GoTo(a, "body")
    /\ UNCHANGED <<key, value, pastVars>>

RetryRefused(a) ==
    /\ pc[a] = "backoff"
    /\ ~Claimable(key[a])
    /\ End(a)
    /\ UNCHANGED <<storeVars, pastVars>>

SettleSuccess(a) ==
    /\ pc[a] = "mark_completed"
    /\ MarkCompleted(key[a], value[a])
    /\ End(a)
    /\ UNCHANGED pastVars

\* Mutant: mark_completed() inside the try of func().
SettleRaisesIntoRetry(a) ==
    /\ pc[a] = "mark_completed"
    /\ StoreMayFail \/ value[a] \in Refused
    /\ GoTo(a, "mark_failed")
    /\ UNCHANGED <<storeVars, key, attempts, value, grant, pastVars>>

\* mark_completed() raises without effect: the decorator logs and returns its
\* result, the guard lets the exception out of __aexit__.
SettleRaises(a) ==
    /\ pc[a] = "mark_completed"
    /\ StoreMayFail \/ value[a] \in Refused
    /\ unrecorded' = [unrecorded EXCEPT ![key[a]] = @ + 1]
    /\ End(a)
    /\ UNCHANGED <<storeVars, calls, interrupts, effects>>

Interrupted ==
    /\ interrupts < MaxInterrupts
    /\ interrupts' = interrupts + 1
    /\ UNCHANGED <<calls, effects>>

\* The task is cancelled inside the block: CancelledError is an exception to
\* __aexit__, while the decorator's "except Exception" lets it through.
CancelBlock(a) ==
    /\ a \in Guards
    /\ pc[a] = "body"
    /\ GoTo(a, "mark_failed")
    /\ Interrupted
    /\ UNCHANGED <<storeVars, key, attempts, value, grant, unrecorded>>

\* The call ends at the await it has reached: the process dies, the task is
\* cancelled elsewhere, or the store raises.  A claim() under way may have been
\* carried out all the same.
Cut(a) ==
    /\ pc[a] # "idle"
    /\ \/ UNCHANGED storeVars
       \/ pc[a] \in {"claim", "backoff"} /\ Claim(key[a])
    /\ unrecorded' = IF pc[a] = "mark_completed"
                     THEN [unrecorded EXCEPT ![key[a]] = @ + 1]
                     ELSE unrecorded
    /\ End(a)
    /\ Interrupted

HoldsClaim(a) == pc[a] \in Working

\* Time passes; unless SlowBodies, the work ends within its lease.
Elapse ==
    /\ SlowBodies \/ \A a \in Callers : HoldsClaim(a) => grant[a] > 1
    /\ Tick
    /\ grant' = [a \in Callers |-> IF grant[a] > 0 THEN grant[a] - 1 ELSE 0]
    /\ UNCHANGED <<pc, key, attempts, value, pastVars>>

Step(a) ==
    \/ ReadStatus(a)
    \/ ClaimGranted(a)
    \/ ClaimRefused(a)
    \/ \E r \in Results \cup {NoResult} : BodyReturns(a, r)
    \/ BodyRaises(a)
    \/ GuardRecordsFailure(a)
    \/ WrapperRecordsFailure(a)
    \/ RetryGranted(a)
    \/ RetryRefused(a)
    \/ SettleSuccess(a)
    \/ SettleRaises(a)

GuardNext ==
    \/ \E a \in Callers, k \in Keys : Call(a, k)
    \/ \E a \in Callers : Step(a) \/ CancelBlock(a) \/ Cut(a)
    \/ Elapse

GuardSpec == GuardInit /\ [][GuardNext]_vars

\* asyncio resumes every call that can go on, and time passes.
GuardFairSpec ==
    GuardSpec /\ WF_vars(Elapse) /\ \A a \in Callers : WF_vars(Step(a))

-----------------------------------------------------------------------------
(***************************************************************************)
(* Properties                                                              *)
(***************************************************************************)

\* Two callers are never both inside the work for one key, however guards,
\* decorated calls, retries and cancelled calls interleave.
SoleRunner ==
    \A a, b \in Callers :
        a # b /\ HoldsClaim(a) /\ HoldsClaim(b) => key[a] # key[b]

\* The work returns at most once for a key, plus once for each return whose
\* mark_completed() was lost: an error of the store never re-runs the work.
WorkRepeatsOnlyUnrecorded ==
    \A k \in Keys : effects[k] <= 1 + unrecorded[k]

\* Every call comes to an end, even if the work raises every time.
EveryCallReturns == \A a \in Callers : pc[a] # "idle" ~> pc[a] = "idle"

\* A key is blocked no longer than its lease: a PROCESSING record is settled
\* or becomes claimable, also when the call that claimed it was cut short.
NoKeyWedged ==
    \A k \in Keys : store[k].status = "PROCESSING"
                        ~> (store[k].status # "PROCESSING" \/ Claimable(k))

\* A call is told "already handled" only if the key is COMPLETED or somebody is
\* working on it.
RefusedMeansTaken ==
    [][\A a \in Callers : ClaimRefused(a) =>
          store[key[a]].status \in {"COMPLETED", "PROCESSING"}]_vars
=============================================================================
