--------------------------- MODULE AtomicDocument ---------------------------
(***************************************************************************)
(* What config.Store promises of the configuration in the volume: a patch  *)
(* is applied whole, once, to what the patches before it left, and only if *)
(* the result is valid; a client that was told so finds it there after any *)
(* restart, and one that was refused has changed nothing.                  *)
(***************************************************************************)
CONSTANTS Clients, Patches, NoPatch,
          Default,
          Merge(_, _),  \* the document under a patch
          Valid(_)

VARIABLES
  doc,   \* the document in the volume
  call   \* each client's patch: [patch, done]

vars == <<doc, call>>

Idle == [patch |-> NoPatch, done |-> FALSE]

Init == doc = Default /\ call = [c \in Clients |-> Idle]

Begin(c, p) ==
  /\ call[c] = Idle
  /\ call' = [call EXCEPT ![c].patch = p]
  /\ UNCHANGED doc

Apply(c) ==
  /\ call[c].patch # NoPatch /\ ~call[c].done
  /\ Valid(Merge(doc, call[c].patch))
  /\ doc' = Merge(doc, call[c].patch)
  /\ call' = [call EXCEPT ![c].done = TRUE]

(* A patch that changes nothing is not written. *)
Accept(c) ==
  /\ call[c].patch # NoPatch
  /\ call[c].done \/ Merge(doc, call[c].patch) = doc
  /\ call' = [call EXCEPT ![c] = Idle]
  /\ UNCHANGED doc

Refuse(c) ==
  /\ call[c].patch # NoPatch /\ ~call[c].done
  /\ call' = [call EXCEPT ![c] = Idle]
  /\ UNCHANGED doc

(* Clients cut off are told nothing. *)
Crash ==
  /\ call' = [c \in Clients |-> Idle]
  /\ UNCHANGED doc

Next ==
  \/ \E c \in Clients : (\E p \in Patches : Begin(c, p)) \/ Apply(c) \/ Accept(c) \/ Refuse(c)
  \/ Crash

Spec == Init /\ [][Next]_vars
=============================================================================
