-------------------------- MODULE SessionContract --------------------------
(***************************************************************************)
(* What Manager.Connect and Manager.Disconnect promise their callers,      *)
(* whatever happens inside: a call may fail at any time, but one that      *)
(* succeeds has seen the daemon in Disconnected after the call began and,  *)
(* for connect, in Connected to the wanted location after that.            *)
(***************************************************************************)
CONSTANTS Locations, None

VARIABLES
  tunnel,  \* "down", "changing", or the location it is up to
  call,    \* [kind, loc, stage]; kind is "none" between calls
  result   \* of the last call

vars == <<tunnel, call, result>>

Tunnels == {"down", "changing"} \cup Locations
Kinds == {"connect", "disconnect"}
Stages == {"called", "released", "established"}
NoCall == [kind |-> "none", loc |-> None, stage |-> "called"]

(* How far a call has come once the tunnel is t. *)
Progress(c, t) ==
  CASE c.stage = "called" /\ t = "down"    -> "released"
    [] c.stage = "released" /\ t = c.loc   -> "established"
    [] OTHER                               -> c.stage

Init ==
  /\ tunnel \in Tunnels
  /\ call = NoCall
  /\ result = "none"

Begin(kind, loc) ==
  /\ call.kind = "none"
  /\ call' = [kind |-> kind, loc |-> loc,
              stage |-> IF tunnel = "down" THEN "released" ELSE "called"]
  /\ UNCHANGED <<tunnel, result>>

Change(t) ==
  /\ tunnel' = t
  /\ call' = [call EXCEPT !.stage = IF call.kind = "none" THEN @ ELSE Progress(call, t)]
  /\ UNCHANGED result

Kept == IF call.kind = "connect" THEN call.stage = "established" ELSE call.stage # "called"

Succeed ==
  /\ call.kind # "none"
  /\ Kept
  /\ call' = NoCall
  /\ result' = "ok"
  /\ UNCHANGED tunnel

(* Also by a command that timed out and took effect. *)
Fail ==
  /\ call.kind # "none"
  /\ call' = NoCall
  /\ result' = "failed"
  /\ tunnel' \in Tunnels

Next ==
  \/ \E kind \in Kinds, loc \in Locations : Begin(kind, loc)
  \/ \E t \in Tunnels : Change(t)
  \/ Succeed
  \/ Fail

Spec == Init /\ [][Next]_vars
=============================================================================
