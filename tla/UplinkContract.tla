--------------------------- MODULE UplinkContract ---------------------------
(***************************************************************************)
(* What uplink.Manager.Apply promises the loop: the way out of the         *)
(* container only changes during a call, the old one goes before the new   *)
(* one comes, engine first and default route last, and a call leaves       *)
(* either the whole new way or none.  What is recorded as applied is what  *)
(* the last successful call was for.                                       *)
(***************************************************************************)
CONSTANTS Uplinks, None

VARIABLES
  path,  \* [engine, route]: the proxy each is for, None if there is none
  call,  \* the uplink being applied, None between calls
  done   \* recorded as applied

vars == <<path, call, done>>

Direct == [engine |-> None, route |-> None]
Started(u) == [engine |-> u.proxy, route |-> None]
Through(u) == [engine |-> u.proxy, route |-> u.proxy]

Init == path = Direct /\ call = None /\ done = None

Begin(u) ==
  /\ call = None
  /\ u # done
  /\ call' = u
  /\ UNCHANGED <<path, done>>

TearDown ==
  /\ call # None
  /\ path' = Direct
  /\ UNCHANGED <<call, done>>

Start ==
  /\ call # None
  /\ path = Direct
  /\ path' = Started(call)
  /\ UNCHANGED <<call, done>>

Route ==
  /\ call # None
  /\ path = Started(call)
  /\ path' = Through(call)
  /\ UNCHANGED <<call, done>>

Succeed ==
  /\ call # None
  /\ path = Through(call)
  /\ done' = call
  /\ call' = None
  /\ UNCHANGED path

(* Host mode has nothing that could fail. *)
Fail ==
  /\ call # None
  /\ call.proxy # None
  /\ path = Direct
  /\ call' = None
  /\ UNCHANGED <<path, done>>

Next ==
  \/ \E u \in Uplinks : Begin(u)
  \/ TearDown \/ Start \/ Route
  \/ Succeed \/ Fail

Spec == Init /\ [][Next]_vars
=============================================================================
