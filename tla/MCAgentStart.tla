---------------------------- MODULE MCAgentStart ----------------------------
(***************************************************************************)
(* AgentStart on one proxy whose name has two addresses, and two files.    *)
(***************************************************************************)
EXTENDS AgentStart, TLC

Symmetric == Permutations(Files) \cup Permutations(Ips)
=============================================================================
