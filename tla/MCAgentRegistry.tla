--------------------------- MODULE MCAgentRegistry ---------------------------
(* AgentRegistry for TLC: hosts, their names and the ordered keys.          *)
EXTENDS AgentRegistry, TLC

CONSTANTS h1, h2, n1, n2

MCFingerprint == [h \in Host |-> IF h = h1 THEN n1 ELSE n2]
MCAgentId == 1 .. 2

==============================================================================
