------------------------- MODULE MCIdempotencyGuard -------------------------
(***************************************************************************)
(* Instances of IdempotencyGuard for TLC: results JSON does not change.    *)
(***************************************************************************)
EXTENDS IdempotencyGuard

PlainResults == [r \in Results \ Refused |-> r]
=============================================================================
