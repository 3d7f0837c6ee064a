----------------------------- MODULE LogBuffer -----------------------------
(***************************************************************************)
(* internal/logs: the ring that keeps the last entries, the queries over   *)
(* it (GET /v1/logs), and the streams (GET /v1/logs/stream) fed outside    *)
(* the lock.  An Append stamps its entry before it takes the lock, so the  *)
(* ring need not be in the order of the times.  Texts and their redaction  *)
(* are left out: an entry is its place in the history, its component and   *)
(* the time it was stamped, which passes with the entries put.             *)
(***************************************************************************)
EXTENDS Naturals, Sequences, SequencesExt

CONSTANTS Writers,
          Streams,     \* requests for a stream
          Component,   \* what each writer logs for
          Every,       \* no filter on the component
          Capacity,    \* len(b.entries)
          Buffered,    \* a stream's channel (64)
          MaxEntries   \* bound: entries put

ASSUME LogAssumption ==
  /\ DOMAIN Component = Writers
  /\ \A w \in Writers : Component[w] # Every
  /\ Capacity \in Nat \ {0}
  /\ Buffered \in Nat \ {0}
  /\ MaxEntries \in Nat

VARIABLES
  entries, next, full,  \* the ring; NoEntry where nothing has been put
  history,              \* every entry ever put, in order
  writer,               \* each Append: [pc, e, todo]
  subs,                 \* streams in b.subs
  chan,                 \* their channels
  stream,               \* [st, wants, from, late]: from, history: what had been
                        \* put when it began; late, history: it missed an entry
  sent                  \* history: what each stream has written to its client

ring == <<entries, next, full, history>>
logVars == <<ring, writer, subs, chan, stream, sent>>

Components == {Component[w] : w \in Writers}
NoEntry == [id |-> 0, component |-> Every, time |-> 0]
Slots == 0..Capacity - 1
Idle == [pc |-> "idle", e |-> NoEntry, todo |-> {}]

LogInit ==
  /\ entries = [i \in Slots |-> NoEntry] /\ next = 0 /\ full = FALSE
  /\ history = <<>>
  /\ writer = [w \in Writers |-> Idle]
  /\ subs = {} /\ chan = [s \in Streams |-> <<>>]
  /\ stream = [s \in Streams |-> [st |-> "new", wants |-> Every, from |-> 0, late |-> FALSE]]
  /\ sent = [s \in Streams |-> <<>>]

-----------------------------------------------------------------------------
(* Append stamps the entry, *)
Stamp(w) ==
  /\ writer[w].pc = "idle" /\ Len(history) < MaxEntries
  /\ writer' = [writer EXCEPT ![w] =
       [pc |-> "put", todo |-> {},
        e |-> [id |-> 0, component |-> Component[w], time |-> Len(history)]]]
  /\ UNCHANGED <<ring, subs, chan, stream, sent>>

(* Mutant: full at the last slot, not after it. *)
WrappedEarly(n) == full \/ n = Capacity - 1

Wrapped(n) == full \/ n = 0

(* puts it into the ring and copies the subscribers under the lock, *)
Put(w) ==
  /\ writer[w].pc = "put"
  /\ Len(history) < MaxEntries
  /\ LET e == [writer[w].e EXCEPT !.id = Len(history) + 1]
     IN  /\ entries' = [entries EXCEPT ![next] = e]
         /\ next' = (next + 1) % Capacity
         /\ full' = Wrapped(next')
         /\ history' = Append(history, e)
         /\ writer' = [writer EXCEPT ![w] = [pc |-> "send", e |-> e, todo |-> subs]]
  /\ UNCHANGED <<subs, chan, stream, sent>>

(* Mutant: a full channel is waited for. *)
RoomOrWait(s) == Len(chan[s]) < Buffered

(* The select has a default. *)
RoomOrNot(s) == TRUE

(* Mutant: the last place of a channel is never used. *)
SendEarlyDrop(s, e) ==
  IF Len(chan[s]) < Buffered - 1
  THEN /\ chan' = [chan EXCEPT ![s] = Append(@, e)]
       /\ UNCHANGED stream
  ELSE UNCHANGED <<chan, stream>>

(* A channel that is full loses the entry. *)
Send(s, e) ==
  IF Len(chan[s]) < Buffered
  THEN /\ chan' = [chan EXCEPT ![s] = Append(@, e)]
       /\ UNCHANGED stream
  ELSE /\ stream' = [stream EXCEPT ![s].late = TRUE]
       /\ UNCHANGED chan

(* and gives it to each of them outside it. *)
Deliver(w) ==
  /\ writer[w].pc = "send"
  /\ \/ /\ writer[w].todo = {}
        /\ writer' = [writer EXCEPT ![w] = Idle]
        /\ UNCHANGED <<chan, stream>>
     \/ \E s \in writer[w].todo :
          /\ RoomOrNot(s)
          /\ writer' = [writer EXCEPT ![w].todo = @ \ {s}]
          /\ Send(s, writer[w].e)
  /\ UNCHANGED <<ring, subs, sent>>

-----------------------------------------------------------------------------
(* Query walks from the newest slot back and keeps those that match, as long *)
(* as fewer than limit are kept; then it turns them round.                   *)
Total == IF full THEN Capacity ELSE next

Newest(i) == entries[(next - 1 - i + Capacity) % Capacity]

Matches(e, component, since) ==
  /\ component = Every \/ e.component = component
  /\ e.time >= since

Walk(component, since, limit) ==
  LET out[n \in 0..Total] ==
        IF n = 0 THEN <<>>
        ELSE IF Len(out[n - 1]) < limit /\ Matches(Newest(n - 1), component, since)
        THEN Append(out[n - 1], Newest(n - 1))
        ELSE out[n - 1]
  IN  out[Total]

Query(component, since, limit) == Reverse(Walk(component, since, limit))

-----------------------------------------------------------------------------
(* handleLogsStream subscribes, *)
Open(s) ==
  /\ stream[s].st = "new"
  /\ \E c \in Components \cup {Every} :
       stream' = [stream EXCEPT ![s] =
                    [st |-> "open", wants |-> c, from |-> Len(history), late |-> FALSE]]
  /\ subs' = subs \cup {s}
  /\ UNCHANGED <<ring, writer, chan, sent>>

(* writes what its client asked for, *)
Forward(s) ==
  /\ stream[s].st = "open" /\ chan[s] # <<>>
  /\ chan' = [chan EXCEPT ![s] = Tail(@)]
  /\ sent' = [sent EXCEPT ![s] =
       IF stream[s].wants \in {Every, Head(chan[s]).component} THEN Append(@, Head(chan[s])) ELSE @]
  /\ UNCHANGED <<ring, writer, subs, stream>>

(* and leaves b.subs when the client goes; its channel stays with those who  *)
(* copied it.                                                                *)
Close(s) ==
  /\ stream[s].st = "open"
  /\ stream' = [stream EXCEPT ![s].st = "closed"]
  /\ subs' = subs \ {s}
  /\ UNCHANGED <<ring, writer, chan, sent>>

Appending(w) == Put(w) \/ Deliver(w)

LogNext ==
  \/ \E w \in Writers : Stamp(w) \/ Appending(w)
  \/ \E s \in Streams : Open(s) \/ Forward(s) \/ Close(s)

LogSpec == LogInit /\ [][LogNext]_logVars

(* Goroutines that append go on; a client may stop reading. *)
LogFairSpec == LogSpec /\ \A w \in Writers : WF_logVars(Appending(w))

-----------------------------------------------------------------------------
(* A query (logs.go:68) over the ring is the query over the last Capacity    *)
(* entries of everything that was logged: whatever the filter and the limit, *)
(* before the ring is full, when it is just full, and after it has wrapped,  *)
(* it gives what was logged, oldest first, nothing twice, at most limit of   *)
(* those that match, and leaves out only what is older than all it gives.    *)
Asked(component, since) ==
  {i \in DOMAIN history : i + Capacity > Len(history) /\ Matches(history[i], component, since)}

QueryIsOfTheLast ==
  \A c \in Components \cup {Every}, since \in 0..MaxEntries, limit \in 1..Capacity + 1 :
    LET q == Query(c, since, limit)
        left == Asked(c, since) \ {q[k].id : k \in DOMAIN q}
    IN  /\ \A k \in DOMAIN q : q[k].id \in Asked(c, since) /\ q[k] = history[q[k].id]
        /\ \A k, l \in DOMAIN q : k < l => q[k].id < q[l].id
        /\ Len(q) <= limit
        /\ \A i \in left : Len(q) = limit /\ \A k \in DOMAIN q : i < q[k].id

(* A stream whose channel was never full has lost nothing: every entry put   *)
(* since it began and of the component it wants is with the client, in the   *)
(* channel, or still to be delivered by its Append, and none of them twice   *)
(* (logs.go:56, server.go:397).                                              *)
StreamKeepsUp ==
  \A s \in Streams : stream[s].st = "open" /\ ~stream[s].late =>
    LET due == {i \in stream[s].from + 1 .. Len(history) :
                  stream[s].wants \in {Every, history[i].component}}
        out == [i \in DOMAIN sent[s] |-> sent[s][i].id]
        in == [i \in DOMAIN chan[s] |-> chan[s][i].id]
        pending == {writer[w].e.id : w \in {v \in Writers : s \in writer[v].todo}}
    IN  /\ due \subseteq ToSet(out) \cup ToSet(in) \cup pending
        /\ IsInjective(out \o in)
        /\ pending \cap ToSet(out \o in) = {}

(* A client that stops reading never holds up the code that logs: every      *)
(* Append that has taken its place returns.                                  *)
AppendReturns == \A w \in Writers : writer[w].pc = "send" ~> writer[w].pc = "idle"
=============================================================================
