---------------------------- MODULE DedupRecord ----------------------------
(***************************************************************************)
(* The deduplication record and its configuration (src/src/dedup/models.py)*)
(* shared by the Redis and the in-memory backend.                          *)
(*                                                                         *)
(* Time is discrete.  A record does not hold the absolute instant at which *)
(* its lease ends but the number of ticks left: the code only ever compares*)
(* "lease_until <= now", which is "no tick left", so the countdown keeps   *)
(* every decision and needs no bound on the clock.  Timestamps and the     *)
(* words of an error are left out, but not whether a text is empty: that   *)
(* is what the Redis script looks at.                                      *)
(***************************************************************************)
EXTENDS Integers

CONSTANTS Results,       \* values a handler may return
          NoResult,      \* Python's None
          MaxRetries,    \* max_retries of the store's configuration
          RetryFailed,   \* retry_failed
          LeaseTicks     \* processing_timeout_seconds

ASSUME ConfigAssumption ==
    /\ NoResult \notin Results
    /\ MaxRetries \in Nat
    /\ RetryFailed \in BOOLEAN
    /\ LeaseTicks \in Nat

\* SKIPPED is declared by the enumeration but written by no operation.
StatusValue == {"PROCESSING", "COMPLETED", "FAILED"}

NoLease == -1     \* lease_expires_at is None

NoError    == "none"               \* error is None
EmptyText  == "empty"              \* str(exc) of an exception without arguments
ErrorTexts == {EmptyText, "text"}  \* what a caller may report

ProcessingStatus ==
    [status   : StatusValue,
     attempts : Nat,
     result   : Results \cup {NoResult},
     error    : ErrorTexts \cup {NoError},
     lease    : (0 .. LeaseTicks) \cup {NoLease}]

\* What get_status() finds for a key with no record.
Missing == [status   |-> "MISSING",
            attempts |-> 0,
            result   |-> NoResult,
            error    |-> NoError,
            lease    |-> NoLease]

\* The record of a message seen for the first time.
FirstClaim == [status   |-> "PROCESSING",
               attempts |-> 1,
               result   |-> NoResult,
               error    |-> NoError,
               lease    |-> LeaseTicks]

\* Mutant: any settled record counts as retriable, COMPLETED included.
RetryableWhateverStatus(rec) ==
    /\ rec.status # "PROCESSING"
    /\ RetryFailed
    /\ rec.attempts < MaxRetries

\* is_failed() and still allowed another attempt by the configuration.
Retryable(rec) ==
    /\ rec.status = "FAILED"
    /\ RetryFailed
    /\ rec.attempts < MaxRetries

\* Mutant: the lease of a PROCESSING record is not looked at.
OrphanedNever(rec) == FALSE

\* PROCESSING, but the owner let its lease run out.
Orphaned(rec) ==
    /\ rec.status = "PROCESSING"
    /\ rec.lease # NoLease
    /\ rec.lease <= 0

\* A record one tick later: an exhausted lease stays exhausted.
Aged(rec) == [rec EXCEPT !.lease = IF @ > 0 THEN @ - 1 ELSE @]
=============================================================================
