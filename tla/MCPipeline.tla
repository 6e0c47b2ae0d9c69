----------------------------- MODULE MCPipeline -----------------------------
(***************************************************************************)
(* Instances of Pipeline for TLC.                                          *)
(***************************************************************************)
EXTENDS Pipeline

CONSTANTS k1, m1, m2

MessageDistinct == <<m1, m2>>

\* One payload with an id and one without.
PayloadMixed == <<k1, NoId>>

\* Results JSON does not change.
PlainResults == [r \in Results \ Refused |-> r]
=============================================================================
