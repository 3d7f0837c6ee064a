----------------------------- MODULE MCIngress -----------------------------
(***************************************************************************)
(* Ingress with one TCP connection after another next to the UDP relay.    *)
(***************************************************************************)
EXTENDS Ingress, TLC
=============================================================================
