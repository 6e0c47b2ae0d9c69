---------------------------- MODULE MCRedisStore ----------------------------
(***************************************************************************)
(* Instances of RedisStore for TLC: what JSON makes of a result.           *)
(***************************************************************************)
EXTENDS RedisStore

CONSTANTS EmptyList, EmptyDict

\* Lua has one empty table, and cjson writes it as an object.
ListBecomesDict ==
    [r \in Results \ Refused |-> IF r = EmptyList THEN EmptyDict ELSE r]
=============================================================================
