---------------------------- MODULE MCRedisQueue ----------------------------
(* RedisQueue for TLC: two entries of priority 0 and one of priority 1.      *)
EXTENDS RedisQueue, TLC

CONSTANTS low1, low2, high

MCEntry == {low1, low2, high}
MCPriority == (low1 :> 0) @@ (low2 :> 0) @@ (high :> 1)
=============================================================================
