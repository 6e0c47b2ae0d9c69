------------------------------ MODULE MCOutbox ------------------------------
(***************************************************************************)
(* Instances of Outbox for TLC: what the transactions write.               *)
(***************************************************************************)
EXTENDS Outbox

CONSTANTS m1, m2

\* The second transaction repeats the message of the first.
MessageRepeated == <<m1, m1, m2>>

MessageDistinct == <<m1, m2>>
=============================================================================
