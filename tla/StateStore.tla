----------------------------- MODULE StateStore -----------------------------
(***************************************************************************)
(* internal/state/store.go: the agent's one shared snapshot and its        *)
(* fan-out to subscribers (event streams, actions waiting for a result).   *)
(*                                                                         *)
(* Update changes the snapshot and copies the set of channels under the    *)
(* lock, then delivers to each channel after unlocking: a non-blocking     *)
(* send, and if the channel is full an eviction and a second send.  Every  *)
(* channel operation is a step of its own, so deliveries of concurrent     *)
(* Updates and the reads of subscribers interleave as goroutines do.       *)
(*                                                                         *)
(* A snapshot is abstracted to its version: the number of Updates applied. *)
(***************************************************************************)
EXTENDS Integers

CONSTANTS Writers,      \* goroutines that call Update
          Subscribers,  \* channels ever made by Subscribe, one per call
          MaxUpdates    \* bound: Updates explored

ASSUME StoreAssumption == MaxUpdates \in Nat

Empty == -1             \* an empty channel; also "nothing yet"
Version == 0..MaxUpdates
Slot == Version \cup {Empty}

VARIABLES
  cur,        \* version of Store.cur
  subs,       \* Store.subs
  chan,       \* content of each channel, capacity 1
  pc,         \* where each Update is
  snap,       \* the copy of cur an Update delivers
  todo,       \* channels of its copy of subs still to be visited
  at,         \* the full channel it is about to evict from
  base,       \* history: version a subscriber was given by Subscribe
  view,       \* last version a subscriber took from its channel
  overlapped  \* history: the last Update began while another was delivering

writerVars == <<pc, snap, todo, at>>
vars == <<cur, subs, chan, pc, snap, todo, at, base, view, overlapped>>

Init ==
  /\ cur = 0
  /\ subs = {}
  /\ chan = [s \in Subscribers |-> Empty]
  /\ pc = [w \in Writers |-> "idle"]
  /\ snap = [w \in Writers |-> 0]
  /\ todo = [w \in Writers |-> {}]
  /\ at \in [Writers -> Subscribers]
  /\ base = [s \in Subscribers |-> Empty]
  /\ view = [s \in Subscribers |-> Empty]
  /\ overlapped = FALSE

-----------------------------------------------------------------------------
(* Mutants: the live map is ranged over while        *)
(* sending; full channels are skipped; the second send is left out.          *)
RecipientsLive == Subscribers
RecipientsNotFull == {s \in subs : chan[s] = Empty}
RefillDropped(old, new) == old

(* The channels an Update will visit: copied under the lock. *)
Recipients == subs

(* A non-blocking send: a full channel keeps what it has. *)
Refill(old, new) == IF old = Empty THEN new ELSE old

(* fn(&s.cur) *)
Applied(v) == v + 1

(* The part of Update under the lock. *)
Update(w) ==
  /\ pc[w] = "idle"
  /\ cur < MaxUpdates
  /\ cur' = Applied(cur)
  /\ snap' = [snap EXCEPT ![w] = Applied(cur)]
  /\ todo' = [todo EXCEPT ![w] = Recipients]
  /\ pc' = [pc EXCEPT ![w] = "deliver"]
  /\ overlapped' = (\E v \in Writers : pc[v] # "idle")
  /\ UNCHANGED <<subs, chan, at, base, view>>

(* The first select: send, or find the channel full. *)
Send(w, s) ==
  /\ pc[w] = "deliver"
  /\ s \in todo[w]
  /\ \/ /\ chan[s] = Empty
        /\ chan' = [chan EXCEPT ![s] = snap[w]]
        /\ todo' = [todo EXCEPT ![w] = @ \ {s}]
        /\ UNCHANGED <<pc, at>>
     \/ /\ chan[s] # Empty
        /\ at' = [at EXCEPT ![w] = s]
        /\ pc' = [pc EXCEPT ![w] = "evict"]
        /\ UNCHANGED <<chan, todo>>
  /\ UNCHANGED <<cur, subs, snap, base, view, overlapped>>

(* The second select: take the old snapshot out, if it is still there. *)
Evict(w) ==
  /\ pc[w] = "evict"
  /\ chan' = [chan EXCEPT ![at[w]] = Empty]
  /\ pc' = [pc EXCEPT ![w] = "resend"]
  /\ UNCHANGED <<cur, subs, snap, todo, at, base, view, overlapped>>

(* The third select: put the fresh one, or give up on a channel that another *)
(* Update has filled meanwhile.                                              *)
Resend(w) ==
  /\ pc[w] = "resend"
  /\ chan' = [chan EXCEPT ![at[w]] = Refill(@, snap[w])]
  /\ todo' = [todo EXCEPT ![w] = @ \ {at[w]}]
  /\ pc' = [pc EXCEPT ![w] = "deliver"]
  /\ UNCHANGED <<cur, subs, snap, at, base, view, overlapped>>

Return(w) ==
  /\ pc[w] = "deliver"
  /\ todo[w] = {}
  /\ pc' = [pc EXCEPT ![w] = "idle"]
  /\ UNCHANGED <<cur, subs, chan, snap, todo, at, base, view, overlapped>>

(* A new channel, registered and filled with the current snapshot under the *)
(* lock.                                                                    *)
Subscribe(s) ==
  /\ base[s] = Empty
  /\ subs' = subs \cup {s}
  /\ chan' = [chan EXCEPT ![s] = cur]
  /\ base' = [base EXCEPT ![s] = cur]
  /\ UNCHANGED <<cur, writerVars, view, overlapped>>

(* cancel(): an Update that has already copied subs still sends to s. *)
Cancel(s) ==
  /\ s \in subs
  /\ subs' = subs \ {s}
  /\ UNCHANGED <<cur, chan, writerVars, base, view, overlapped>>

(* The subscriber's receive (the event stream, waitConnection). *)
Receive(s) ==
  /\ s \in subs
  /\ chan[s] # Empty
  /\ view' = [view EXCEPT ![s] = chan[s]]
  /\ chan' = [chan EXCEPT ![s] = Empty]
  /\ UNCHANGED <<cur, subs, writerVars, base, overlapped>>

Next ==
  \/ \E w \in Writers : \/ Update(w)
                        \/ \E s \in Subscribers : Send(w, s)
                        \/ Evict(w)
                        \/ Resend(w)
                        \/ Return(w)
  \/ \E s \in Subscribers : Subscribe(s) \/ Cancel(s) \/ Receive(s)

Spec == Init /\ [][Next]_vars

-----------------------------------------------------------------------------
TypeOK ==
  /\ cur \in Version
  /\ subs \subseteq Subscribers
  /\ chan \in [Subscribers -> Slot]
  /\ pc \in [Writers -> {"idle", "deliver", "evict", "resend"}]
  /\ snap \in [Writers -> Version]
  /\ todo \in [Writers -> SUBSET Subscribers]
  /\ at \in [Writers -> Subscribers]
  /\ base \in [Subscribers -> Slot]
  /\ view \in [Subscribers -> Slot]
  /\ overlapped \in BOOLEAN

(* No Update is between its lock and its last send. *)
Quiescent == \A w \in Writers : pc[w] = "idle"

(* What a subscriber has, or is about to have: the pending snapshot if there *)
(* is one, otherwise the last one it took.                                   *)
Latest(s) == IF chan[s] = Empty THEN view[s] ELSE chan[s]

(* Subscribe and the copy of subs are made under the same lock, so no Update *)
(* older than a subscription can reach it: a waiter that subscribes after    *)
(* changing the state never acts on a snapshot from before its change.       *)
NothingOlderThanSubscription ==
  \A s \in Subscribers :
    /\ chan[s] # Empty => base[s] # Empty /\ chan[s] >= base[s]
    /\ view[s] # Empty => view[s] >= base[s]

(* Coalescing drops snapshots but never the notification: once deliveries    *)
(* have ended, a subscriber has something newer than its first snapshot if   *)
(* anything changed since, however the sends of several Updates interleaved. *)
NoLostNotification ==
  Quiescent => \A s \in subs : cur > base[s] => Latest(s) > base[s]

(* If the last Update did not overlap another one, every subscriber ends up  *)
(* with exactly the current snapshot.                                        *)
FreshUnlessOverlapped ==
  Quiescent /\ ~overlapped => \A s \in subs : Latest(s) = cur
=============================================================================
