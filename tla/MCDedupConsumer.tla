-------------------------- MODULE MCDedupConsumer --------------------------
(***************************************************************************)
(* Instances of DedupConsumer for TLC: the contents of the topic.          *)
(***************************************************************************)
EXTENDS DedupConsumer, TLC

CONSTANTS k1, p1, p2

\* A duplicate in another partition, a record without an id, and one whose
\* header cannot be decoded.
LogMixed == p1 :> <<k1, NoId>> @@ p2 :> <<k1, Undecodable>>

\* One id, two copies.
LogTwice == p1 :> <<k1>> @@ p2 :> <<k1>>

\* One id, once: every repetition is a redelivery.
LogOnce == p1 :> <<k1>>

ConsumerSymmetry == Permutations(Consumers)

\* Results JSON does not change.
PlainResults == [r \in Results \ Refused |-> r]
=============================================================================
