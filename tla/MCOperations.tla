---------------------------- MODULE MCOperations ----------------------------
(* Instances of Operations for TLC: two actions that share a resource and one *)
(* that does not, and enough ids for a resource to be taken again.            *)
EXTENDS Operations, TLC
=============================================================================
