---------------------------- MODULE MCReconciler ----------------------------
(* Instances of Reconciler for TLC.  Two uplinks let one replace another, two *)
(* locations let one be changed under way; locations are interchangeable.     *)
EXTENDS Reconciler, TLC

Symmetric == Permutations(Locations)
=============================================================================
