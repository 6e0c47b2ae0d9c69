--------------------------- MODULE StoreContract ---------------------------
(***************************************************************************)
(* What a DeduplicationStore promises its callers (src/src/dedup/store.py, *)
(* with the state machine of the README): per message id a status and,     *)
(* once the work is done, an answer.                                       *)
(*                                                                         *)
(*   MISSING -> PROCESSING -> COMPLETED                                    *)
(*                        \-> FAILED -> PROCESSING                         *)
(*                                                                         *)
(* COMPLETED is left only when the whole record is forgotten, and until    *)
(* then the answer does not change.  Attempts, leases and time are the     *)
(* implementation's business.                                              *)
(***************************************************************************)
CONSTANTS Keys, Results, NoResult

VARIABLES phase,    \* phase[k]: the status of key k
          answer    \* answer[k]: the stored result of key k

contractVars == <<phase, answer>>

Phases == {"MISSING", "PROCESSING", "COMPLETED", "FAILED"}

ContractTypeOK ==
    /\ phase \in [Keys -> Phases]
    /\ answer \in [Keys -> Results \cup {NoResult}]

ContractInit ==
    /\ phase = [k \in Keys |-> "MISSING"]
    /\ answer = [k \in Keys |-> NoResult]

Claimed(k) ==
    /\ phase[k] # "COMPLETED"
    /\ phase' = [phase EXCEPT ![k] = "PROCESSING"]
    /\ UNCHANGED answer

Completed(k, r) ==
    /\ phase[k] = "PROCESSING"
    /\ phase' = [phase EXCEPT ![k] = "COMPLETED"]
    /\ answer' = [answer EXCEPT ![k] = r]

Failed(k) ==
    /\ phase[k] = "PROCESSING"
    /\ phase' = [phase EXCEPT ![k] = "FAILED"]
    /\ UNCHANGED answer

\* delete(), or the retention of several records ending together.
Forgotten(S) ==
    /\ phase' = [k \in Keys |-> IF k \in S THEN "MISSING" ELSE phase[k]]
    /\ answer' = [k \in Keys |-> IF k \in S THEN NoResult ELSE answer[k]]

ContractNext ==
    \/ \E k \in Keys : Claimed(k)
    \/ \E k \in Keys, r \in Results \cup {NoResult} : Completed(k, r)
    \/ \E k \in Keys : Failed(k)
    \/ \E S \in SUBSET Keys : Forgotten(S)

ContractSpec == ContractInit /\ [][ContractNext]_contractVars
=============================================================================
