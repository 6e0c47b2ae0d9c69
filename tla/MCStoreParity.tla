--------------------------- MODULE MCStoreParity ---------------------------
(***************************************************************************)
(* Instances of StoreParity for TLC.                                       *)
(***************************************************************************)
EXTENDS StoreParity, MCRedisStore
=============================================================================
