---------------------------- MODULE MCLogBuffer ----------------------------
(* An instance of LogBuffer for TLC: a ring of three that wraps, two writers  *)
(* and a stream with a channel of one.                                        *)
EXTENDS LogBuffer, TLC

CONSTANTS w1, w2, agent, proxy

Of == w1 :> agent @@ w2 :> proxy
=============================================================================
