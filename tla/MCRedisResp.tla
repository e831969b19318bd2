----------------------------- MODULE MCRedisResp -----------------------------
(* Instances of RedisResp for TLC. *)
EXTENDS RedisResp

CONSTANTS c1, c2, c3

MCCallers == {c1, c2, c3}
==============================================================================
