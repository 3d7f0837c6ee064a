-------------------------- MODULE MCUplinkManager --------------------------
(* Instances of UplinkManager for TLC: host mode, a proxy whose udp is probed  *)
(* and another with a fixed one.  Two runs let a probe outlive its uplink.     *)
EXTENDS UplinkManager, TLC

CONSTANTS p, q

Few == {Host, [proxy |-> p, udp |-> "auto"], [proxy |-> q, udp |-> "off"]}
=============================================================================
