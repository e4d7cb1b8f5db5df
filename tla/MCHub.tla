-------------------------------- MODULE MCHub --------------------------------
(* Hub for TLC: every consumer on one channel.                              *)
EXTENDS Hub

MCChannelOf == [c \in Consumer |-> "logs"]
=============================================================================
