---------------------------- MODULE MCXvpnDriver ----------------------------
(* An instance of XvpnDriver for TLC: a location the daemon has, another one  *)
(* it has, and one it does not know.                                          *)
EXTENDS XvpnDriver, TLC
=============================================================================
