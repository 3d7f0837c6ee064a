---------------------------- MODULE MCStateStore ----------------------------
(* Instances of StateStore for TLC.  Two writers and two subscribers are the  *)
(* least that can interleave two deliveries and tell a subscriber from the    *)
(* one that came later; three Updates let a writer overlap twice.             *)
EXTENDS StateStore, TLC

Symmetric == Permutations(Writers) \cup Permutations(Subscribers)
=============================================================================
