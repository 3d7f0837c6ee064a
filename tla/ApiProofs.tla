----------------------------- MODULE ApiProofs -----------------------------
(* Proofs about what the API gives its clients of the work it does behind a   *)
(* request: the operations, for any number of them and of clients, and the    *)
(* log, for any number of writers, streams and entries and any capacity.      *)
EXTENDS Operations, LogBuffer, SequenceTheorems, WellFoundedInduction, TLAPS

-----------------------------------------------------------------------------
(* The operations.                                                            *)

(* byResource and the statuses say the same: an operation runs exactly while  *)
(* its resource is booked under its id.                                       *)
BookedInv ==
  /\ \A r \in Resources : byResource[r] # None =>
       /\ ops[byResource[r]].status = "running"
       /\ actionResources[ops[byResource[r]].action] = r
  /\ \A i \in Ids : ops[i].status = "running" =>
       byResource[actionResources[ops[i].action]] = i

OpsInv == TypeOK /\ BookedInv

-----------------------------------------------------------------------------
LEMMA ResourceOfAction == \A a \in Actions : actionResources[a] \in Resources
  BY DEF Actions, actionResources, Resources

LEMMA OpsInit == Init => OpsInv
<1> SUFFICES ASSUME Init PROVE OpsInv
  OBVIOUS
<1>1. "connect" \in Actions
  BY DEF Actions, actionResources
<1>2. TypeOK
  BY <1>1 DEF Init, TypeOK, Status
<1>3. BookedInv
  BY DEF Init, BookedInv
<1>4. QED
  BY <1>2, <1>3 DEF OpsInv

LEMMA OpsStart ==
  ASSUME OpsInv, NEW c \in Clients, NEW a \in Actions, NEW id \in Ids, Start(c, a, id)
  PROVE  OpsInv'
<1>1. actionResources[a] \in Resources
  BY ResourceOfAction
<1>2. TypeOK'
  BY <1>1 DEF OpsInv, TypeOK, Start, Status
<1>3. BookedInv'
  BY <1>1, ResourceOfAction, OperationsAssumption DEF OpsInv, TypeOK, BookedInv, Start, Busy
<1>4. QED
  BY <1>2, <1>3 DEF OpsInv

LEMMA OpsFinish ==
  ASSUME OpsInv, NEW id \in Ids, NEW s \in Final, Finish(id, s)
  PROVE  OpsInv'
<1>1. actionResources[ops[id].action] \in Resources
  BY ResourceOfAction DEF OpsInv, TypeOK
<1>2. TypeOK'
  BY <1>1 DEF OpsInv, TypeOK, Finish, Final, Status, Recorded, Freed
<1>3. BookedInv'
  BY <1>1, ResourceOfAction, OperationsAssumption
     DEF OpsInv, TypeOK, BookedInv, Finish, Final, Recorded, Freed
<1>4. QED
  BY <1>2, <1>3 DEF OpsInv

LEMMA OpsInductive == Spec => []OpsInv
<1>1. ASSUME OpsInv, [Next]_vars PROVE OpsInv'
  <2>1. ASSUME NEW c \in Clients, NEW a \in Posted, NEW id \in Ids, Start(c, a, id)
        PROVE  OpsInv'
    BY <1>1, <2>1, OpsStart, OperationsAssumption
  <2>2. ASSUME NEW c \in Clients, NEW a \in Posted, Refuse(c, a) PROVE OpsInv'
    <3>1. actionResources[a] \in Resources
      BY ResourceOfAction, OperationsAssumption
    <3>2. QED
      BY <1>1, <2>2, <3>1 DEF OpsInv, TypeOK, BookedInv, Refuse, Status
  <2>3. ASSUME NEW c \in Clients, Get(c) PROVE OpsInv'
    BY <1>1, <2>3 DEF OpsInv, TypeOK, BookedInv, Get
  <2>4. ASSUME NEW id \in Ids, NEW s \in Final, Finish(id, s) PROVE OpsInv'
    BY <1>1, <2>4, OpsFinish
  <2>5. CASE UNCHANGED vars
    BY <1>1, <2>5 DEF OpsInv, TypeOK, BookedInv, vars
  <2>6. QED
    BY <1>1, <2>1, <2>2, <2>3, <2>4, <2>5 DEF Next
<1>2. QED
  BY OpsInit, <1>1, PTL DEF Spec

(* Every variable keeps its type.                                             *)
THEOREM OperationsTyped == Spec => []TypeOK
<1>1. OpsInv => TypeOK
  BY DEF OpsInv
<1>2. QED
  BY OpsInductive, <1>1, PTL

(* Two actions on one resource never run together.                            *)
THEOREM MutualExclusion == Spec => []OneRunningPerResource
<1>1. OpsInv => OneRunningPerResource
  BY DEF OpsInv, BookedInv, OneRunningPerResource
<1>2. QED
  BY OpsInductive, <1>1, PTL

(* A 409 always names an operation that runs and holds the resource.          *)
THEOREM RefusalIsHonest == Spec => RefusalNamesRunning
<1>1. ASSUME OpsInv, [Next]_vars
      PROVE  [\A c \in Clients : \A a \in Posted : Refuse(c, a) =>
                LET op == ops[answer'[c].op] IN
                /\ op.status = "running"
                /\ actionResources[op.action] = actionResources[a]]_vars
  <2>1. ASSUME NEW c \in Clients, NEW a \in Posted, Refuse(c, a)
        PROVE  /\ ops[answer'[c].op].status = "running"
               /\ actionResources[ops[answer'[c].op].action] = actionResources[a]
    <3>1. actionResources[a] \in Resources
      BY ResourceOfAction, OperationsAssumption
    <3>2. answer'[c].op = byResource[actionResources[a]]
      BY <1>1, <2>1 DEF OpsInv, TypeOK, Refuse
    <3>3. QED
      BY <1>1, <2>1, <3>1, <3>2 DEF OpsInv, BookedInv, Refuse, Busy
  <2>2. QED
    BY <2>1
<1>2. QED
  BY OpsInductive, <1>1, PTL DEF Spec, RefusalNamesRunning

-----------------------------------------------------------------------------
(* The log.                                                                   *)
Entries == [id : Nat, component : Components \cup {Every}, time : Nat]
Appends == [pc : {"idle", "put", "send"}, e : Entries, todo : SUBSET Streams]
Requests == [st : {"new", "open", "closed"}, wants : Components \cup {Every}, from : Nat, late : BOOLEAN]

LogType ==
  /\ entries \in [Slots -> Entries] /\ next \in Slots /\ full \in BOOLEAN
  /\ history \in Seq(Entries)
  /\ writer \in [Writers -> Appends]
  /\ subs \in SUBSET Streams
  /\ chan \in [Streams -> Seq(Entries)]
  /\ stream \in [Streams -> Requests]
  /\ sent \in [Streams -> Seq(Entries)]

(* The slot of the k-th newest entry, counted back from the next one. *)
Back(k) == IF next > k THEN next - 1 - k ELSE next - 1 - k + Capacity

(* The ring keeps the end of the history, and knows whether it has wrapped.   *)
RingInv ==
  /\ full <=> Len(history) >= Capacity
  /\ ~full => next = Len(history)
  /\ \A k \in 0..Capacity - 1 : k < Len(history) => entries[Back(k)] = history[Len(history) - k]

(* Entries are known by their number, and an Append has one of its own.       *)
Sends(w) == writer[w].pc = "send"

NumberInv ==
  /\ \A i \in 1..Len(history) : history[i].id = i
  /\ \A w \in Writers :
       /\ Sends(w) => writer[w].e.id \in 1..Len(history) /\ writer[w].e = history[writer[w].e.id]
       /\ ~Sends(w) => writer[w].todo = {}
  /\ \A v, w \in Writers : Sends(v) /\ Sends(w) /\ writer[v].e.id = writer[w].e.id => v = w

Numbers(q) == {q[i].id : i \in DOMAIN q}
Distinct(q) == \A i, j \in DOMAIN q : q[i].id = q[j].id => i = j
Pending(s) == {writer[w].e.id : w \in {v \in Writers : s \in writer[v].todo}}

(* No entry comes to a stream twice, and none is lost without being noted.    *)
Member(s) == s \in subs <=> stream[s].st = "open"

Fresh(s) == stream[s].st = "new" => chan[s] = <<>> /\ sent[s] = <<>> /\ Pending(s) = {}

Once(s) ==
  /\ Distinct(chan[s]) /\ Distinct(sent[s]) /\ Numbers(chan[s]) \cap Numbers(sent[s]) = {}
  /\ Pending(s) \cap (Numbers(chan[s]) \cup Numbers(sent[s])) = {}

Known(s) ==
  /\ \A i \in DOMAIN chan[s] :
       chan[s][i].id \in 1..Len(history) /\ chan[s][i] = history[chan[s][i].id]
  /\ Numbers(sent[s]) \subseteq 1..Len(history)

Complete(s) ==
  stream[s].st = "open" /\ ~stream[s].late =>
    \A i \in stream[s].from + 1 .. Len(history) :
      \/ i \in Numbers(chan[s]) \cup Numbers(sent[s]) \cup Pending(s)
      \/ stream[s].wants \notin {Every, history[i].component}

StreamInv(s) == Member(s) /\ Fresh(s) /\ Once(s) /\ Known(s) /\ Complete(s)

LogInv == LogType /\ RingInv /\ NumberInv /\ \A s \in Streams : StreamInv(s)

-----------------------------------------------------------------------------
LEMMA Modulo ==
  ASSUME NEW c \in Nat \ {0}, NEW x \in Nat, x < 2 * c
  PROVE  x % c = IF x < c THEN x ELSE x - c
  OBVIOUS

LEMMA Wrap == ASSUME NEW n \in Slots PROVE (n + 1) % Capacity = IF n + 1 = Capacity THEN 0 ELSE n + 1
  BY LogAssumption, Modulo DEF Slots

-----------------------------------------------------------------------------
LEMMA IdleAppend == Idle \in Appends /\ NoEntry \in Entries
  BY DEF Idle, NoEntry, Appends, Entries

LEMMA TypeInit == LogInit => LogType
<1> SUFFICES ASSUME LogInit PROVE LogType
  OBVIOUS
<1>1. 0 \in Slots
  BY LogAssumption DEF Slots
<1>2. <<>> \in Seq(Entries)
  OBVIOUS
<1> QED BY <1>1, <1>2, IdleAppend DEF LogInit, LogType, Requests

(* What Put adds to the history and to the ring. *)
LEMMA PutEntry ==
  ASSUME LogType, NEW w \in Writers, Put(w)
  PROVE  \E e \in Entries :
           /\ e.id = Len(history) + 1
           /\ history' = Append(history, e) /\ history' \in Seq(Entries)
           /\ Len(history') = Len(history) + 1 /\ history'[Len(history) + 1] = e
           /\ \A i \in 1..Len(history) : history'[i] = history[i]
           /\ entries' = [entries EXCEPT ![next] = e]
           /\ next' = IF next + 1 = Capacity THEN 0 ELSE next + 1
           /\ full' = (full \/ next' = 0)
           /\ writer' = [writer EXCEPT ![w] = [pc |-> "send", e |-> e, todo |-> subs]]
<1> DEFINE e == [writer[w].e EXCEPT !.id = Len(history) + 1]
<1>1. Len(history) \in Nat /\ history \in Seq(Entries) /\ writer[w].e \in Entries /\ next \in Slots
  BY DEF LogType, Appends
<1>2. e \in Entries /\ e.id = Len(history) + 1
  BY <1>1 DEF Entries
<1>3. /\ entries' = [entries EXCEPT ![next] = e] /\ history' = Append(history, e)
      /\ next' = (next + 1) % Capacity /\ full' = (full \/ next' = 0)
      /\ writer' = [writer EXCEPT ![w] = [pc |-> "send", e |-> e, todo |-> subs]]
  BY Zenon DEF Put, Wrapped
<1> HIDE DEF e
<1>4. /\ history' \in Seq(Entries) /\ Len(history') = Len(history) + 1
      /\ history'[Len(history) + 1] = e /\ \A i \in 1..Len(history) : history'[i] = history[i]
  BY <1>1, <1>2, <1>3, AppendProperties
<1>5. next' = IF next + 1 = Capacity THEN 0 ELSE next + 1
  BY <1>1, <1>3, Wrap
<1> QED BY <1>2, <1>3, <1>4, <1>5

(* What Deliver does to the streams and their channels. *)
LEMMA SendEntry ==
  ASSUME LogType, NEW s \in Streams, NEW e \in Entries, Send(s, e)
  PROVE  \/ /\ chan' = [chan EXCEPT ![s] = Append(chan[s], e)] /\ stream' = stream
            /\ chan'[s] \in Seq(Entries) /\ Len(chan'[s]) = Len(chan[s]) + 1
            /\ chan'[s][Len(chan[s]) + 1] = e
            /\ \A i \in 1..Len(chan[s]) : chan'[s][i] = chan[s][i]
         \/ /\ stream' = [stream EXCEPT ![s].late = TRUE] /\ chan' = chan
<1>1. chan \in [Streams -> Seq(Entries)]
  BY DEF LogType
<1>2. CASE Len(chan[s]) < Buffered
  <2>1. chan' = [chan EXCEPT ![s] = Append(chan[s], e)] /\ stream' = stream
    BY <1>2 DEF Send
  <2>2. chan'[s] = Append(chan[s], e) /\ chan[s] \in Seq(Entries)
    BY <1>1, <2>1
  <2> QED BY <2>1, <2>2, AppendProperties
<1>3. CASE ~(Len(chan[s]) < Buffered)
  BY <1>3 DEF Send
<1> QED BY <1>2, <1>3

(* What Forward takes from the channel. *)
LEMMA TakeEntry ==
  ASSUME LogType, NEW s \in Streams, Forward(s)
  PROVE  LET e == chan[s][1]
             n == Len(chan[s]) IN
         /\ n \in Nat \ {0} /\ e \in Entries
         /\ chan' = [chan EXCEPT ![s] = Tail(chan[s])] /\ Tail(chan[s]) \in Seq(Entries)
         /\ Len(Tail(chan[s])) = n - 1 /\ \A i \in 1..n - 1 : Tail(chan[s])[i] = chan[s][i + 1]
         /\ \/ /\ stream[s].wants \in {Every, e.component}
               /\ sent' = [sent EXCEPT ![s] = Append(sent[s], e)]
               /\ sent'[s] \in Seq(Entries) /\ Len(sent'[s]) = Len(sent[s]) + 1
               /\ sent'[s][Len(sent[s]) + 1] = e
               /\ \A i \in 1..Len(sent[s]) : sent'[s][i] = sent[s][i]
            \/ /\ stream[s].wants \notin {Every, e.component}
               /\ sent' = sent
<1>1. /\ chan[s] \in Seq(Entries) /\ chan[s] # <<>>
      /\ chan \in [Streams -> Seq(Entries)] /\ sent \in [Streams -> Seq(Entries)]
  BY DEF LogType, Forward
<1>2. /\ Head(chan[s]) = chan[s][1] /\ chan[s][1] \in Entries /\ Len(chan[s]) \in Nat \ {0}
      /\ Tail(chan[s]) \in Seq(Entries) /\ Len(Tail(chan[s])) = Len(chan[s]) - 1
      /\ \A i \in 1..Len(chan[s]) - 1 : Tail(chan[s])[i] = chan[s][i + 1]
  BY <1>1, HeadTailProperties, EmptySeq, ElementOfSeq
<1>3. /\ chan' = [chan EXCEPT ![s] = Tail(chan[s])]
      /\ sent' = [sent EXCEPT ![s] =
           IF stream[s].wants \in {Every, Head(chan[s]).component}
           THEN Append(sent[s], Head(chan[s])) ELSE sent[s]]
  BY DEF Forward
<1>4. CASE stream[s].wants \in {Every, chan[s][1].component}
  <2>1. /\ sent' = [sent EXCEPT ![s] = Append(sent[s], chan[s][1])]
        /\ sent'[s] = Append(sent[s], chan[s][1]) /\ sent[s] \in Seq(Entries)
    BY <1>1, <1>2, <1>3, <1>4
  <2>2. /\ sent'[s] \in Seq(Entries) /\ Len(sent'[s]) = Len(sent[s]) + 1
        /\ sent'[s][Len(sent[s]) + 1] = chan[s][1]
        /\ \A i \in 1..Len(sent[s]) : sent'[s][i] = sent[s][i]
    BY <1>2, <2>1, AppendProperties
  <2> QED BY <1>2, <1>3, <1>4, <2>1, <2>2
<1>5. CASE stream[s].wants \notin {Every, chan[s][1].component}
  <2>1. sent' = sent
    BY <1>1, <1>2, <1>3, <1>5
  <2> QED BY <1>2, <1>3, <1>5, <2>1
<1> QED BY <1>4, <1>5

LEMMA TypeStep == LogType /\ [LogNext]_logVars => LogType'
<1> SUFFICES ASSUME LogType, [LogNext]_logVars PROVE LogType'
  OBVIOUS
<1> USE DEF ring
<1>1. ASSUME NEW w \in Writers, Stamp(w) PROVE LogType'
  <2> DEFINE a == [pc |-> "put", todo |-> {},
                   e |-> [id |-> 0, component |-> Component[w], time |-> Len(history)]]
  <2>1. Len(history) \in Nat
    BY DEF LogType
  <2>2. a \in Appends
    BY <2>1 DEF Appends, Entries, Components
  <2>3. writer' = [writer EXCEPT ![w] = a] /\ UNCHANGED <<ring, subs, chan, stream, sent>>
    BY <1>1 DEF Stamp
  <2> HIDE DEF a
  <2> QED BY <2>2, <2>3 DEF LogType
<1>2. ASSUME NEW w \in Writers, Put(w) PROVE LogType'
  <2>1. PICK e \in Entries :
          /\ history' \in Seq(Entries) /\ entries' = [entries EXCEPT ![next] = e]
          /\ next' = IF next + 1 = Capacity THEN 0 ELSE next + 1
          /\ full' = (full \/ next' = 0)
          /\ writer' = [writer EXCEPT ![w] = [pc |-> "send", e |-> e, todo |-> subs]]
    BY <1>2, PutEntry
  <2>2. [pc |-> "send", e |-> e, todo |-> subs] \in Appends
    BY DEF LogType, Appends
  <2>3. next' \in Slots
    BY <2>1, LogAssumption DEF LogType, Slots
  <2>4. full' \in BOOLEAN
    BY <2>1, Zenon
  <2>5. UNCHANGED <<subs, chan, stream, sent>>
    BY <1>2 DEF Put
  <2> QED BY <2>1, <2>2, <2>3, <2>4, <2>5 DEF LogType
<1>3. ASSUME NEW w \in Writers, Deliver(w) PROVE LogType'
  <2>1. UNCHANGED <<ring, subs, sent>>
    BY <1>3 DEF Deliver
  <2>2. CASE writer' = [writer EXCEPT ![w] = Idle] /\ UNCHANGED <<chan, stream>>
    BY <2>1, <2>2, IdleAppend DEF LogType
  <2>3. ASSUME NEW s \in writer[w].todo, Send(s, writer[w].e),
               writer' = [writer EXCEPT ![w].todo = @ \ {s}]
        PROVE  LogType'
    <3>1. s \in Streams /\ writer[w].e \in Entries /\ writer[w] \in Appends
      BY DEF LogType, Appends
    <3>2. writer' \in [Writers -> Appends]
      BY <2>3, <3>1 DEF LogType, Appends
    <3>3. chan' \in [Streams -> Seq(Entries)] /\ stream' \in [Streams -> Requests]
      <4>1. chan \in [Streams -> Seq(Entries)] /\ stream \in [Streams -> Requests]
        BY DEF LogType
      <4>2. [stream[s] EXCEPT !.late = TRUE] \in Requests
        BY <3>1, <4>1 DEF Requests
      <4>3. \/ chan' = chan /\ stream' = [stream EXCEPT ![s] = [stream[s] EXCEPT !.late = TRUE]]
            \/ /\ stream' = stream /\ chan' = [chan EXCEPT ![s] = Append(chan[s], writer[w].e)]
               /\ chan'[s] \in Seq(Entries)
        BY <2>3, <3>1, SendEntry
      <4> QED BY <4>1, <4>2, <4>3
    <3> QED BY <2>1, <3>2, <3>3 DEF LogType
  <2> QED BY <1>3, <2>2, <2>3 DEF Deliver
<1>4. ASSUME NEW s \in Streams, Open(s) PROVE LogType'
  <2>1. PICK c \in Components \cup {Every} :
          stream' = [stream EXCEPT ![s] =
            [st |-> "open", wants |-> c, from |-> Len(history), late |-> FALSE]]
    BY <1>4 DEF Open
  <2>2. Len(history) \in Nat
    BY DEF LogType
  <2>3. stream' \in [Streams -> Requests]
    BY <2>1, <2>2 DEF LogType, Requests
  <2> QED BY <1>4, <2>3 DEF Open, LogType
<1>5. ASSUME NEW s \in Streams, Forward(s) PROVE LogType'
  <2>0. chan \in [Streams -> Seq(Entries)] /\ sent \in [Streams -> Seq(Entries)]
    BY DEF LogType
  <2>1. chan' \in [Streams -> Seq(Entries)] /\ sent' \in [Streams -> Seq(Entries)]
    BY <1>5, <2>0, TakeEntry
  <2> QED BY <1>5, <2>1 DEF Forward, LogType
<1>6. ASSUME NEW s \in Streams, Close(s) PROVE LogType'
  BY <1>6 DEF Close, LogType, Requests
<1>7. CASE UNCHANGED logVars
  BY <1>7 DEF logVars, LogType
<1> QED BY <1>1, <1>2, <1>3, <1>4, <1>5, <1>6, <1>7 DEF LogNext, Appending

-----------------------------------------------------------------------------
LEMMA RingInit == LogInit => RingInv
  BY LogAssumption DEF LogInit, RingInv

LEMMA RingStep == LogType /\ RingInv /\ [LogNext]_logVars => RingInv'
<1> SUFFICES ASSUME LogType, RingInv, [LogNext]_logVars PROVE RingInv'
  OBVIOUS
<1>1. ASSUME NEW w \in Writers, Put(w) PROVE RingInv'
  <2>1. PICK e \in Entries :
          /\ Len(history') = Len(history) + 1 /\ history'[Len(history) + 1] = e
          /\ \A i \in 1..Len(history) : history'[i] = history[i]
          /\ entries' = [entries EXCEPT ![next] = e]
          /\ next' = IF next + 1 = Capacity THEN 0 ELSE next + 1
          /\ full' = (full \/ next' = 0)
    BY <1>1, PutEntry
  <2>2. /\ Len(history) \in Nat /\ next \in 0..Capacity - 1 /\ Capacity \in Nat \ {0}
        /\ entries \in [0..Capacity - 1 -> Entries] /\ full \in BOOLEAN
    BY LogAssumption DEF LogType, Slots
  <2>3. full' <=> Len(history') >= Capacity
    BY <2>1, <2>2 DEF RingInv
  <2>4. ~full' => next' = Len(history')
    BY <2>1, <2>2 DEF RingInv
  <2>5. ASSUME NEW k \in 0..Capacity - 1, k < Len(history')
        PROVE  entries'[Back(k)'] = history'[Len(history') - k]
    <3>1. CASE k = 0
      <4>1. Back(k)' = next
        BY <2>1, <2>2, <3>1 DEF Back
      <4> QED BY <2>1, <2>2, <3>1, <4>1
    <3>2. CASE k > 0
      <4>1. Back(k)' = Back(k - 1) /\ Back(k - 1) \in 0..Capacity - 1 /\ Back(k - 1) # next
        BY <2>1, <2>2, <3>2 DEF Back
      <4>2. entries'[Back(k)'] = entries[Back(k - 1)]
        BY <2>1, <2>2, <4>1
      <4>3. entries[Back(k - 1)] = history[Len(history) - (k - 1)]
        BY <2>1, <2>2, <2>5, <3>2 DEF RingInv
      <4>4. history'[Len(history') - k] = history[Len(history) - (k - 1)]
        BY <2>1, <2>2, <2>5, <3>2
      <4> QED BY <4>2, <4>3, <4>4
    <3> QED BY <3>1, <3>2
  <2> QED BY <2>3, <2>4, <2>5 DEF RingInv
<1>2. ASSUME UNCHANGED ring PROVE RingInv'
  BY <1>2 DEF ring, RingInv, Back
<1> QED BY <1>1, <1>2 DEF LogNext, Appending, Stamp, Deliver, Open, Forward, Close, logVars

-----------------------------------------------------------------------------
LEMMA NumberInit == LogInit => NumberInv
  BY DEF LogInit, NumberInv, Sends, Idle

LEMMA NumberStep == LogType /\ NumberInv /\ [LogNext]_logVars => NumberInv'
<1> SUFFICES ASSUME LogType, NumberInv, [LogNext]_logVars PROVE NumberInv'
  OBVIOUS
<1>0. writer \in [Writers -> Appends] /\ Len(history) \in Nat
  BY DEF LogType
<1>1. ASSUME NEW w \in Writers, Stamp(w) PROVE NumberInv'
  <2>1. /\ writer'[w].pc = "put" /\ writer'[w].todo = {} /\ history' = history
        /\ \A v \in Writers \ {w} : writer'[v] = writer[v]
    BY <1>0, <1>1 DEF Stamp, ring
  <2> QED BY <2>1 DEF NumberInv, Sends
<1>2. ASSUME NEW w \in Writers, Put(w) PROVE NumberInv'
  <2>1. PICK e \in Entries :
          /\ e.id = Len(history) + 1
          /\ Len(history') = Len(history) + 1 /\ history'[Len(history) + 1] = e
          /\ \A i \in 1..Len(history) : history'[i] = history[i]
          /\ writer' = [writer EXCEPT ![w] = [pc |-> "send", e |-> e, todo |-> subs]]
    BY <1>2, PutEntry
  <2>2. /\ writer'[w].pc = "send" /\ writer'[w].e = e
        /\ \A v \in Writers \ {w} : writer'[v] = writer[v]
    BY <1>0, <2>1
  <2>3. \A i \in 1..Len(history') : history'[i].id = i
    BY <1>0, <2>1 DEF NumberInv
  <2>4. \A v \in Writers \ {w} : Sends(v) => writer[v].e.id \in 1..Len(history)
    BY DEF NumberInv
  <2>5. ASSUME NEW v \in Writers
        PROVE  /\ Sends(v)' => /\ writer'[v].e.id \in 1..Len(history')
                               /\ writer'[v].e = history'[writer'[v].e.id]
               /\ ~Sends(v)' => writer'[v].todo = {}
    <3>1. CASE v = w
      BY <1>0, <2>1, <2>2, <3>1 DEF Sends
    <3>2. CASE v # w
      BY <1>0, <2>1, <2>2, <2>4, <3>2 DEF NumberInv, Sends
    <3> QED BY <3>1, <3>2
  <2>6. ASSUME NEW u \in Writers, NEW v \in Writers, Sends(u)', Sends(v)', writer'[u].e.id = writer'[v].e.id
        PROVE  u = v
    BY <1>0, <2>1, <2>2, <2>4, <2>6 DEF NumberInv, Sends
  <2> QED BY <2>3, <2>5, <2>6 DEF NumberInv
<1>3. ASSUME NEW w \in Writers, Deliver(w) PROVE NumberInv'
  <2>1. history' = history /\ Sends(w)
    BY <1>3 DEF Deliver, ring, Sends
  <2>2. /\ \A v \in Writers \ {w} : writer'[v] = writer[v]
        /\ \/ writer'[w].pc = "idle" /\ writer'[w].todo = {}
           \/ writer'[w].pc = "send" /\ writer'[w].e = writer[w].e
    BY <1>0, <1>3 DEF Deliver, Idle, Appends
  <2> QED BY <2>1, <2>2 DEF NumberInv, Sends
<1>4. ASSUME UNCHANGED <<ring, writer>> PROVE NumberInv'
  BY <1>4 DEF ring, NumberInv, Sends
<1> QED BY <1>1, <1>2, <1>3, <1>4 DEF LogNext, Appending, Open, Forward, Close, logVars

-----------------------------------------------------------------------------
LEMMA NumbersAppend ==
  ASSUME NEW p \in Seq(Entries), NEW q \in Seq(Entries), NEW e,
         Len(q) = Len(p) + 1, q[Len(p) + 1] = e, \A i \in 1..Len(p) : q[i] = p[i]
  PROVE  /\ Numbers(q) = Numbers(p) \cup {e.id}
         /\ Distinct(p) /\ e.id \notin Numbers(p) => Distinct(q)
<1>1. /\ Len(p) \in Nat /\ DOMAIN p = 1..Len(p) /\ DOMAIN q = 1..Len(p) + 1
  OBVIOUS
<1>2. Numbers(q) = Numbers(p) \cup {e.id}
  BY <1>1 DEF Numbers
<1>3. ASSUME Distinct(p), e.id \notin Numbers(p) PROVE Distinct(q)
  BY <1>1, <1>3 DEF Numbers, Distinct
<1> QED BY <1>2, <1>3

LEMMA NumbersTail ==
  ASSUME NEW p \in Seq(Entries), NEW t \in Seq(Entries), Len(p) \in Nat \ {0},
         Len(t) = Len(p) - 1, \A i \in 1..Len(p) - 1 : t[i] = p[i + 1]
  PROVE  /\ Numbers(p) = Numbers(t) \cup {p[1].id}
         /\ Distinct(p) => Distinct(t) /\ p[1].id \notin Numbers(t)
<1>1. DOMAIN p = 1..Len(p) /\ DOMAIN t = 1..Len(p) - 1 /\ Len(p) >= 1
  OBVIOUS
<1>2. Numbers(t) \cup {p[1].id} \subseteq Numbers(p)
  <2>1. 1 \in DOMAIN p /\ \A i \in DOMAIN t : i + 1 \in DOMAIN p /\ t[i] = p[i + 1]
    BY <1>1
  <2> QED BY <2>1 DEF Numbers
<1>3. ASSUME NEW i \in DOMAIN p PROVE p[i].id \in Numbers(t) \cup {p[1].id}
  <2>1. CASE i = 1
    BY <2>1
  <2>2. CASE i # 1
    <3>1. i - 1 \in DOMAIN t /\ t[i - 1] = p[i]
      BY <1>1, <2>2
    <3> QED BY <3>1 DEF Numbers
  <2> QED BY <2>1, <2>2
<1>4. Numbers(p) \subseteq Numbers(t) \cup {p[1].id}
  BY <1>3 DEF Numbers
<1>5. ASSUME Distinct(p) PROVE Distinct(t) /\ p[1].id \notin Numbers(t)
  <2>1. \A i \in DOMAIN t : i + 1 \in DOMAIN p /\ t[i] = p[i + 1] /\ i + 1 # 1 /\ i \in Nat
    BY <1>1
  <2>2. Distinct(t)
    BY <1>5, <2>1 DEF Distinct
  <2>3. 1 \in DOMAIN p /\ \A i \in DOMAIN t : t[i].id # p[1].id
    BY <1>1, <1>5, <2>1 DEF Distinct
  <2> QED BY <2>2, <2>3 DEF Numbers
<1> QED BY <1>2, <1>4, <1>5

(* What is still to be delivered to s, after a step of the Append of w. *)
Others(w, s) == {writer[v].e.id : v \in {u \in Writers \ {w} : s \in writer[u].todo}}

LEMMA PendingNow ==
  ASSUME NEW w \in Writers, NEW s \in Streams
  PROVE  Pending(s) = Others(w, s) \cup IF s \in writer[w].todo THEN {writer[w].e.id} ELSE {}
  BY DEF Pending, Others

LEMMA PendingStep ==
  ASSUME NEW w \in Writers, NEW s \in Streams, \A v \in Writers \ {w} : writer'[v] = writer[v]
  PROVE  Pending(s)' = Others(w, s) \cup IF s \in writer'[w].todo THEN {writer'[w].e.id} ELSE {}
  BY DEF Pending, Others

LEMMA PendingSame ==
  ASSUME NEW w \in Writers, NEW s \in Streams, \A v \in Writers \ {w} : writer'[v] = writer[v],
         s \in writer'[w].todo <=> s \in writer[w].todo,
         s \in writer[w].todo => writer'[w].e = writer[w].e
  PROVE  Pending(s)' = Pending(s)
  BY PendingNow, PendingStep

(* A stream that a step does not concern. *)
LEMMA Apart ==
  ASSUME NEW s \in Streams, StreamInv(s), history' = history, chan'[s] = chan[s], sent'[s] = sent[s],
         stream'[s] = stream[s], s \in subs' <=> s \in subs, Pending(s)' = Pending(s)
  PROVE  StreamInv(s)'
  BY DEF StreamInv, Member, Fresh, Once, Known, Complete

LEMMA NumbersKnown ==
  ASSUME NEW s \in Streams, Known(s)
  PROVE  Numbers(chan[s]) \subseteq 1..Len(history) /\ Numbers(sent[s]) \subseteq 1..Len(history)
  BY DEF Known, Numbers

-----------------------------------------------------------------------------
LEMMA StreamInit == LogInit => \A s \in Streams : StreamInv(s)
<1> SUFFICES ASSUME LogInit, NEW s \in Streams PROVE StreamInv(s)
  OBVIOUS
<1>1. /\ history = <<>> /\ subs = {} /\ chan[s] = <<>> /\ sent[s] = <<>> /\ stream[s].st = "new"
      /\ \A w \in Writers : writer[w].todo = {}
  BY DEF LogInit, Idle
<1>2. Pending(s) = {}
  BY <1>1 DEF Pending
<1>3. Numbers(<<>>) = {} /\ Distinct(<<>>) /\ DOMAIN <<>> = {}
  BY DEF Numbers, Distinct
<1> QED BY <1>1, <1>2, <1>3 DEF StreamInv, Member, Fresh, Once, Known, Complete

(* An Append takes its place: its entry is due to every stream that is open.  *)
LEMMA PutStream ==
  ASSUME LogType, NumberInv, NEW w \in Writers, Put(w), NEW s \in Streams, StreamInv(s)
  PROVE  StreamInv(s)'
<1> DEFINE n == Len(history) + 1
<1>1. PICK e \in Entries :
        /\ e.id = n /\ Len(history') = n /\ history'[n] = e
        /\ \A i \in 1..Len(history) : history'[i] = history[i]
        /\ writer' = [writer EXCEPT ![w] = [pc |-> "send", e |-> e, todo |-> subs]]
  BY PutEntry
<1>0. /\ writer'[w] = [pc |-> "send", e |-> e, todo |-> subs]
      /\ \A v \in Writers \ {w} : writer'[v] = writer[v]
  BY <1>1 DEF LogType
<1>2. UNCHANGED <<subs, chan, stream, sent>> /\ ~Sends(w) /\ Len(history) \in Nat
  BY DEF Put, Sends, LogType
<1>3. writer[w].todo = {}
  BY <1>2 DEF NumberInv
<1>4. Pending(s)' = Pending(s) \cup IF s \in subs THEN {n} ELSE {}
  <2>1. Pending(s) = Others(w, s)
    BY <1>3, PendingNow
  <2>2. writer'[w].todo = subs /\ writer'[w].e.id = n
    BY <1>0, <1>1
  <2> QED BY <1>0, <2>1, <2>2, PendingStep
<1>5. n \notin Numbers(chan[s]) \cup Numbers(sent[s])
  <2>1. Numbers(chan[s]) \subseteq 1..Len(history) /\ Numbers(sent[s]) \subseteq 1..Len(history)
    BY NumbersKnown DEF StreamInv
  <2> QED BY <1>2, <2>1
<1>6. Member(s)' /\ Fresh(s)'
  BY <1>2, <1>4 DEF StreamInv, Member, Fresh
<1>7. Once(s)'
  BY <1>2, <1>4, <1>5 DEF StreamInv, Once
<1>8. Known(s)'
  BY <1>1, <1>2 DEF StreamInv, Known
<1>9. Complete(s)'
  <2> SUFFICES ASSUME stream[s].st = "open", ~stream[s].late, NEW i \in stream[s].from + 1 .. n
               PROVE  \/ i \in Numbers(chan[s]) \cup Numbers(sent[s]) \cup Pending(s)'
                      \/ stream[s].wants \notin {Every, history'[i].component}
    BY <1>1, <1>2 DEF Complete
  <2>1. CASE i = n
    BY <1>4, <2>1 DEF StreamInv, Member
  <2>2. CASE i # n
    <3>1. stream[s].from \in Nat
      BY DEF LogType, Requests
    <3>2. i \in stream[s].from + 1 .. Len(history) /\ i \in 1..Len(history)
      BY <1>2, <2>2, <3>1
    <3> QED BY <1>1, <1>4, <3>2 DEF StreamInv, Complete
  <2> QED BY <2>1, <2>2
<1> QED BY <1>6, <1>7, <1>8, <1>9 DEF StreamInv

(* An Append gives its entry to a stream, or notes that the channel was full. *)
LEMMA DeliverStream ==
  ASSUME LogType, NumberInv, NEW w \in Writers, Sends(w), NEW s \in writer[w].todo, s \in Streams,
         Send(s, writer[w].e), writer' = [writer EXCEPT ![w] = [writer[w] EXCEPT !.todo = @ \ {s}]],
         UNCHANGED <<ring, subs, sent>>, StreamInv(s)
  PROVE  StreamInv(s)'
<1> DEFINE e == writer[w].e
<1>0. /\ e \in Entries /\ writer[w] \in Appends /\ chan[s] \in Seq(Entries) /\ history' = history
      /\ stream \in [Streams -> Requests] /\ chan \in [Streams -> Seq(Entries)]
  BY DEF LogType, Appends, ring
<1>1. e.id \in 1..Len(history) /\ e = history[e.id]
  BY DEF NumberInv
<1>2. e.id \in Pending(s)
  BY DEF Pending
<1>3. Pending(s)' = Pending(s) \ {e.id}
  <2>1. s \notin writer'[w].todo /\ \A v \in Writers \ {w} : writer'[v] = writer[v]
    BY <1>0 DEF LogType, Appends
  <2>2. Pending(s)' = Others(w, s)
    <3>1. Pending(s)' = Others(w, s) \cup IF s \in writer'[w].todo THEN {writer'[w].e.id} ELSE {}
      BY <2>1, PendingStep, Zenon
    <3> QED BY <2>1, <3>1
  <2>3. Pending(s) = Others(w, s) \cup {e.id}
    BY PendingNow
  <2>4. \A v \in Writers \ {w} : s \in writer[v].todo => writer[v].e.id # e.id
    BY DEF NumberInv
  <2>5. e.id \notin Others(w, s)
    BY <2>4 DEF Others
  <2> QED BY <2>2, <2>3, <2>5
<1>4. e.id \notin Numbers(chan[s]) \cup Numbers(sent[s])
  BY <1>2 DEF StreamInv, Once
<1>5. stream[s].st # "new" /\ stream'[s].st = stream[s].st /\ stream'[s].wants = stream[s].wants
      /\ stream'[s].from = stream[s].from
  <2>1. stream[s].st # "new"
    BY <1>2 DEF StreamInv, Fresh
  <2>2. stream' = stream \/ stream' = [stream EXCEPT ![s].late = TRUE]
    BY <1>0, SendEntry
  <2> QED BY <1>0, <2>1, <2>2 DEF Requests
<1>6. Member(s)' /\ Fresh(s)'
  BY <1>5 DEF StreamInv, Member, Fresh
<1>7. CASE /\ stream' = stream /\ chan'[s] \in Seq(Entries)
           /\ Len(chan'[s]) = Len(chan[s]) + 1 /\ chan'[s][Len(chan[s]) + 1] = e
           /\ \A i \in 1..Len(chan[s]) : chan'[s][i] = chan[s][i]
  <2>1. Numbers(chan'[s]) = Numbers(chan[s]) \cup {e.id} /\ Distinct(chan'[s])
    <3>1. Distinct(chan[s]) /\ e.id \notin Numbers(chan[s])
      BY <1>4 DEF StreamInv, Once
    <3>2. chan[s] \in Seq(Entries) /\ chan'[s] \in Seq(Entries)
      BY <1>0, <1>7
    <3> HIDE DEF e
    <3> QED BY <1>7, <3>1, <3>2, NumbersAppend
  <2>2. Once(s)'
    BY <1>3, <1>4, <2>1 DEF StreamInv, Once
  <2>3. Known(s)'
    <3>1. DOMAIN chan'[s] = 1..Len(chan[s]) + 1 /\ DOMAIN chan[s] = 1..Len(chan[s]) /\ Len(chan[s]) \in Nat
      BY <1>0, <1>7
    <3>2. ASSUME NEW i \in DOMAIN chan'[s]
          PROVE  chan'[s][i].id \in 1..Len(history) /\ chan'[s][i] = history[chan'[s][i].id]
      <4>1. CASE i = Len(chan[s]) + 1
        BY <1>1, <1>7, <4>1
      <4>2. CASE i \in DOMAIN chan[s]
        BY <1>7, <3>1, <4>2 DEF StreamInv, Known
      <4> QED BY <3>1, <4>1, <4>2
    <3> QED BY <1>0, <3>2 DEF StreamInv, Known
  <2>4. Complete(s)'
    BY <1>0, <1>3, <1>7, <2>1 DEF StreamInv, Complete
  <2> QED BY <1>6, <2>2, <2>3, <2>4 DEF StreamInv
<1>8. CASE stream' = [stream EXCEPT ![s].late = TRUE] /\ chan' = chan
  <2>1. stream'[s].late
    BY <1>0, <1>8 DEF Requests
  <2>2. Once(s)' /\ Known(s)'
    BY <1>0, <1>3, <1>8 DEF StreamInv, Once, Known
  <2> QED BY <1>6, <2>1, <2>2 DEF StreamInv, Complete
<1>9. <1>7!1 \/ <1>8!1
  BY <1>0, SendEntry
<1> QED BY <1>7, <1>8, <1>9

(* A stream begins: nothing has been given to it, and nothing is due.         *)
LEMMA OpenStream ==
  ASSUME LogType, NEW s \in Streams, Open(s), StreamInv(s)
  PROVE  StreamInv(s)'
<1>1. /\ stream'[s].st = "open" /\ stream'[s].from = Len(history) /\ subs' = subs \cup {s}
      /\ UNCHANGED <<history, writer, chan, sent>> /\ stream[s].st = "new"
  BY DEF Open, LogType, ring
<1>2. Pending(s)' = Pending(s)
  BY <1>1 DEF Pending
<1>3. Len(history) \in Nat
  BY DEF LogType
<1>4. Member(s)' /\ Fresh(s)'
  BY <1>1 DEF Member, Fresh
<1>5. Once(s)' /\ Known(s)'
  BY <1>1, <1>2 DEF StreamInv, Once, Known
<1>6. Complete(s)'
  BY <1>1, <1>3 DEF Complete
<1> QED BY <1>4, <1>5, <1>6 DEF StreamInv

(* A stream ends: its Appends may still have entries for it. *)
LEMMA CloseStream ==
  ASSUME LogType, NEW s \in Streams, Close(s), StreamInv(s)
  PROVE  StreamInv(s)'
<1>1. /\ stream'[s].st = "closed" /\ subs' = subs \ {s}
      /\ UNCHANGED <<history, writer, chan, sent>>
  BY DEF Close, LogType, Requests, ring
<1>2. Pending(s)' = Pending(s)
  BY <1>1 DEF Pending
<1>3. Member(s)' /\ Fresh(s)' /\ Complete(s)'
  BY <1>1 DEF Member, Fresh, Complete
<1>4. Once(s)' /\ Known(s)'
  BY <1>1, <1>2 DEF StreamInv, Once, Known
<1> QED BY <1>3, <1>4 DEF StreamInv

(* A stream takes an entry from its channel, and writes it or leaves it out.  *)
LEMMA ForwardStream ==
  ASSUME LogType, NEW s \in Streams, Forward(s), StreamInv(s)
  PROVE  StreamInv(s)'
<1> DEFINE e == chan[s][1]
           t == Tail(chan[s])
<1>0. UNCHANGED <<history, writer, subs, stream>> /\ stream[s].st = "open"
  BY DEF Forward, ring
<1>1. Pending(s)' = Pending(s)
  BY <1>0 DEF Pending
<1>2. /\ Len(chan[s]) \in Nat \ {0} /\ chan'[s] = t /\ t \in Seq(Entries) /\ chan[s] \in Seq(Entries)
      /\ Len(t) = Len(chan[s]) - 1 /\ \A i \in 1..Len(chan[s]) - 1 : t[i] = chan[s][i + 1]
  BY TakeEntry DEF LogType
<1>3. /\ Numbers(chan[s]) = Numbers(t) \cup {e.id}
      /\ Distinct(t) /\ e.id \notin Numbers(t)
  BY <1>2, NumbersTail DEF StreamInv, Once
<1>4. DOMAIN chan[s] = 1..Len(chan[s]) /\ DOMAIN t = 1..Len(chan[s]) - 1
  BY <1>2
<1>5. e.id \in 1..Len(history) /\ e = history[e.id]
  BY <1>2, <1>4 DEF StreamInv, Known
<1>6. \/ /\ stream[s].wants \in {Every, e.component}
         /\ Numbers(sent'[s]) = Numbers(sent[s]) \cup {e.id} /\ Distinct(sent'[s])
      \/ /\ stream[s].wants \notin {Every, e.component} /\ sent' = sent
  <2>1. CASE /\ stream[s].wants \in {Every, e.component}
             /\ sent'[s] \in Seq(Entries) /\ Len(sent'[s]) = Len(sent[s]) + 1
             /\ sent'[s][Len(sent[s]) + 1] = e
             /\ \A i \in 1..Len(sent[s]) : sent'[s][i] = sent[s][i]
    <3>1. Distinct(sent[s]) /\ e.id \notin Numbers(sent[s]) /\ sent[s] \in Seq(Entries)
      BY <1>3 DEF StreamInv, Once, LogType
    <3> HIDE DEF e
    <3> QED BY <2>1, <3>1, NumbersAppend
  <2> HIDE DEF t
  <2> QED BY <2>1, TakeEntry
<1> HIDE DEF e, t
<1>7. Member(s)' /\ Fresh(s)'
  BY <1>0 DEF StreamInv, Member, Fresh
<1>8. Once(s)'
  BY <1>1, <1>2, <1>3, <1>6 DEF StreamInv, Once
<1>9. Known(s)'
  <2>1. ASSUME NEW i \in DOMAIN t
        PROVE  t[i].id \in 1..Len(history) /\ t[i] = history[t[i].id]
    <3>1. i + 1 \in DOMAIN chan[s] /\ t[i] = chan[s][i + 1]
      BY <1>2, <1>4
    <3> QED BY <3>1 DEF StreamInv, Known
  <2>2. Numbers(sent'[s]) \subseteq 1..Len(history)
    BY <1>5, <1>6 DEF StreamInv, Known
  <2> QED BY <1>0, <1>2, <2>1, <2>2 DEF Known
<1>10. Complete(s)'
  <2> SUFFICES ASSUME ~stream[s].late, NEW i \in stream[s].from + 1 .. Len(history)
               PROVE  \/ i \in Numbers(chan'[s]) \cup Numbers(sent'[s]) \cup Pending(s)'
                      \/ stream[s].wants \notin {Every, history[i].component}
    BY <1>0 DEF Complete
  <2>1. \/ i \in Numbers(chan[s]) \cup Numbers(sent[s]) \cup Pending(s)
        \/ stream[s].wants \notin {Every, history[i].component}
    BY <1>0 DEF StreamInv, Complete
  <2>2. CASE i = e.id
    BY <1>5, <1>6, <2>2
  <2>3. CASE i # e.id
    BY <1>1, <1>2, <1>3, <1>6, <2>1, <2>3
  <2> QED BY <2>2, <2>3
<1> QED BY <1>7, <1>8, <1>9, <1>10 DEF StreamInv

LEMMA StreamStep ==
  ASSUME LogType, NumberInv, \A s \in Streams : StreamInv(s), [LogNext]_logVars, NEW s \in Streams
  PROVE  StreamInv(s)'
<1>0. /\ StreamInv(s) /\ writer \in [Writers -> Appends]
      /\ stream \in [Streams -> Requests]
      /\ chan \in [Streams -> Seq(Entries)] /\ sent \in [Streams -> Seq(Entries)]
  BY DEF LogType
<1>1. ASSUME NEW w \in Writers, ~Sends(w), writer'[w].todo = {},
             \A v \in Writers \ {w} : writer'[v] = writer[v],
             UNCHANGED <<ring, subs, chan, stream, sent>>
      PROVE  StreamInv(s)'
  <2>1. writer[w].todo = {}
    BY <1>1 DEF NumberInv
  <2>2. Pending(s)' = Pending(s)
    BY <1>1, <2>1, PendingSame
  <2> QED BY <1>0, <1>1, <2>2, Apart DEF ring
<1>2. ASSUME NEW w \in Writers, Stamp(w) PROVE StreamInv(s)'
  <2>1. ~Sends(w) /\ UNCHANGED <<ring, subs, chan, stream, sent>>
    BY <1>2 DEF Stamp, Sends
  <2>2. writer'[w].todo = {} /\ \A v \in Writers \ {w} : writer'[v] = writer[v]
    BY <1>0, <1>2 DEF Stamp
  <2> QED BY <1>1, <2>1, <2>2
<1>3. ASSUME NEW w \in Writers, Put(w) PROVE StreamInv(s)'
  BY <1>0, <1>3, PutStream
<1>4. ASSUME NEW w \in Writers, Deliver(w) PROVE StreamInv(s)'
  <2>0. UNCHANGED <<ring, subs, sent>> /\ Sends(w) /\ writer[w] \in Appends
    BY <1>0, <1>4 DEF Deliver, Sends
  <2>1. CASE writer[w].todo = {} /\ writer' = [writer EXCEPT ![w] = Idle] /\ UNCHANGED <<chan, stream>>
    <3>1. writer'[w].todo = {} /\ \A v \in Writers \ {w} : writer'[v] = writer[v]
      BY <1>0, <2>1 DEF Idle
    <3>2. Pending(s)' = Pending(s)
      BY <2>1, <3>1, PendingSame
    <3> QED BY <1>0, <2>0, <2>1, <3>2, Apart DEF ring
  <2>2. ASSUME NEW r \in writer[w].todo, Send(r, writer[w].e),
               writer' = [writer EXCEPT ![w].todo = @ \ {r}]
        PROVE  StreamInv(s)'
    <3>0. r \in Streams /\ writer[w].e \in Entries
      BY <2>0 DEF Appends
    <3>1. CASE r = s
      BY <1>0, <2>0, <2>2, <3>0, <3>1, DeliverStream
    <3>2. CASE r # s
      <4>1. chan'[s] = chan[s] /\ stream'[s] = stream[s]
        BY <1>0, <2>2, <3>0, <3>2, SendEntry
      <4>2. /\ writer'[w].todo = writer[w].todo \ {r} /\ writer'[w].e = writer[w].e
            /\ \A v \in Writers \ {w} : writer'[v] = writer[v]
        BY <1>0, <2>0, <2>2 DEF Appends
      <4>3. Pending(s)' = Pending(s)
        BY <3>2, <4>2, PendingSame
      <4> QED BY <1>0, <2>0, <4>1, <4>3, Apart DEF ring
    <3> QED BY <3>1, <3>2
  <2> QED BY <1>4, <2>1, <2>2 DEF Deliver
<1>5. ASSUME NEW r \in Streams, Open(r) \/ Forward(r) \/ Close(r) PROVE StreamInv(s)'
  <2>1. CASE r = s
    BY <1>0, <1>5, <2>1, OpenStream, ForwardStream, CloseStream
  <2>2. CASE r # s
    <3>1. /\ history' = history /\ writer' = writer
          /\ chan'[s] = chan[s] /\ sent'[s] = sent[s] /\ stream'[s] = stream[s]
          /\ s \in subs' <=> s \in subs
      BY <1>0, <1>5, <2>2 DEF Open, Forward, Close, ring
    <3>2. Pending(s)' = Pending(s)
      BY <3>1 DEF Pending
    <3> QED BY <1>0, <3>1, <3>2, Apart
  <2> QED BY <2>1, <2>2
<1>6. CASE UNCHANGED logVars
  <2>1. Pending(s)' = Pending(s)
    BY <1>6 DEF Pending, logVars
  <2> QED BY <1>0, <1>6, <2>1, Apart DEF logVars, ring
<1> QED BY <1>2, <1>3, <1>4, <1>5, <1>6 DEF LogNext, Appending

-----------------------------------------------------------------------------
LEMMA LogInductive == LogSpec => []LogInv
<1>1. LogInit => LogInv
  BY TypeInit, RingInit, NumberInit, StreamInit DEF LogInv
<1>2. LogInv /\ [LogNext]_logVars => LogInv'
  <2> SUFFICES ASSUME LogInv, [LogNext]_logVars PROVE LogInv'
    OBVIOUS
  <2>1. LogType' /\ RingInv' /\ NumberInv'
    BY TypeStep, RingStep, NumberStep DEF LogInv
  <2>2. \A s \in Streams : StreamInv(s)'
    BY StreamStep DEF LogInv
  <2> QED BY <2>1, <2>2 DEF LogInv
<1> QED BY <1>1, <1>2, PTL DEF LogSpec

(* Every variable keeps its type. *)
THEOREM LogTyped == LogSpec => []LogType
<1>1. LogInv => LogType
  BY DEF LogInv
<1> QED BY <1>1, LogInductive, PTL

(* What the walk of a query (logs.go:68) reads: the slots from the newest     *)
(* back hold the last entries of all that was ever logged, the newest first,  *)
(* as many as the ring has places for, before and after it has wrapped.       *)
RingIsHistory ==
  /\ Total = IF Len(history) < Capacity THEN Len(history) ELSE Capacity
  /\ \A i \in 0..Total - 1 : Newest(i) = history[Len(history) - i]

(* The ring holds the end of the log, whatever was put and by whom.           *)
THEOREM RingKeepsTheLast == LogSpec => []RingIsHistory
<1>1. LogInv => RingIsHistory
  <2> SUFFICES ASSUME LogType, RingInv PROVE RingIsHistory
    BY DEF LogInv
  <2>1. /\ Len(history) \in Nat /\ next \in 0..Capacity - 1 /\ Capacity \in Nat \ {0}
        /\ full \in BOOLEAN
    BY LogAssumption DEF LogType, Slots
  <2>2. Total = IF Len(history) < Capacity THEN Len(history) ELSE Capacity
    BY <2>1 DEF RingInv, Total
  <2>3. ASSUME NEW i \in 0..Total - 1 PROVE Newest(i) = history[Len(history) - i]
    <3>1. i \in 0..Capacity - 1 /\ i < Len(history)
      BY <2>1, <2>2
    <3>2. (next - 1 - i + Capacity) % Capacity = Back(i)
      <4> DEFINE x == next - 1 - i + Capacity
      <4>1. x \in Nat /\ x < 2 * Capacity /\ Back(i) = IF x < Capacity THEN x ELSE x - Capacity
        BY <2>1, <3>1 DEF Back
      <4> HIDE DEF x
      <4>2. x % Capacity = IF x < Capacity THEN x ELSE x - Capacity
        BY <2>1, <4>1, Modulo
      <4> QED BY <4>1, <4>2 DEF x
    <3> QED BY <3>1, <3>2 DEF Newest, RingInv
  <2> QED BY <2>2, <2>3 DEF RingIsHistory
<1> QED BY <1>1, LogInductive, PTL

-----------------------------------------------------------------------------
(* Induction over numbers: what fails for some fails for a first one.         *)
LEMMA Least == ASSUME NEW T, T \subseteq Nat, T # {} PROVE \E x \in T : \A y \in T : ~(y < x)
<1>1. \E x \in T : \A y \in T : ~(<<y, x>> \in OpToRel(<, Nat))
  BY NatLessThanWellFounded, WFMin
<1> QED BY <1>1 DEF OpToRel

(* One slot of the walk. *)
Look(out, n, c, since, limit) ==
  IF Len(out) < limit /\ Matches(Newest(n - 1), c, since) THEN Append(out, Newest(n - 1)) ELSE out

IsWalk(f, N, c, since, limit) ==
  f = [n \in 0..N |-> IF n = 0 THEN <<>> ELSE Look(f[n - 1], n, c, since, limit)]

LEMMA WalkExists ==
  ASSUME NEW c, NEW since, NEW limit, NEW N \in Nat
  PROVE  \E f : IsWalk(f, N, c, since, limit)
<1> DEFINE Fails == {n \in Nat : ~\E f : IsWalk(f, n, c, since, limit)}
<1>1. SUFFICES ASSUME Fails # {} PROVE FALSE
  OBVIOUS
<1>2. PICK x \in Fails : \A y \in Fails : ~(y < x)
  <2>1. Fails \subseteq Nat
    OBVIOUS
  <2> HIDE DEF Fails
  <2> QED BY <1>1, <2>1, Least
<1>3. x \in Nat
  OBVIOUS
<1>4. CASE x = 0
  <2> DEFINE f == [n \in 0..0 |-> <<>>]
  <2>1. IsWalk(f, 0, c, since, limit)
    BY DEF IsWalk
  <2> QED BY <1>4, <2>1
<1>5. CASE x # 0
  <2>1. x - 1 \in Nat /\ x - 1 < x
    BY <1>3, <1>5
  <2>2. PICK f : IsWalk(f, x - 1, c, since, limit)
    BY <1>2, <2>1
  <2> DEFINE g == [n \in 0..x |-> IF n = x THEN Look(f[x - 1], x, c, since, limit) ELSE f[n]]
  <2>3. \A n \in 0..x - 1 : g[n] = f[n]
    BY <1>3
  <2>4. \A n \in 0..x - 1 : f[n] = IF n = 0 THEN <<>> ELSE Look(f[n - 1], n, c, since, limit)
    BY <2>2 DEF IsWalk
  <2>5. \A n \in 0..x : g[n] = IF n = 0 THEN <<>> ELSE Look(g[n - 1], n, c, since, limit)
    <3> SUFFICES ASSUME NEW n \in 0..x
                 PROVE g[n] = IF n = 0 THEN <<>> ELSE Look(g[n - 1], n, c, since, limit)
      OBVIOUS
    <3>1. CASE n = x
      <4>1. g[n] = Look(f[x - 1], x, c, since, limit) /\ n # 0 /\ x - 1 \in 0..x - 1
        BY <1>3, <1>5, <3>1
      <4> HIDE DEF g
      <4> QED BY <2>3, <3>1, <4>1
    <3>2. CASE n # x
      <4>1. n \in 0..x - 1 /\ (n # 0 => n - 1 \in 0..x - 1)
        BY <1>3, <3>2
      <4> HIDE DEF g
      <4> QED BY <2>3, <2>4, <4>1
    <3> QED BY <3>1, <3>2
  <2>6. g = [n \in 0..x |-> g[n]]
    OBVIOUS
  <2>7. IsWalk(g, x, c, since, limit)
    <3> HIDE DEF g
    <3> QED BY <2>5, <2>6 DEF IsWalk
  <2> QED BY <2>7
<1> QED BY <1>4, <1>5

(* The walk is its last step, from none. *)
LEMMA WalkSteps ==
  ASSUME NEW c, NEW since, NEW limit, Total \in Nat
  PROVE  \E f : /\ f[0] = <<>> /\ Walk(c, since, limit) = f[Total]
                /\ \A n \in 1..Total : f[n] = Look(f[n - 1], n, c, since, limit)
<1> DEFINE F == CHOOSE f : f = [n \in 0..Total |->
                   IF n = 0 THEN <<>>
                   ELSE IF Len(f[n - 1]) < limit /\ Matches(Newest(n - 1), c, since)
                   THEN Append(f[n - 1], Newest(n - 1))
                   ELSE f[n - 1]]
<1>1. Walk(c, since, limit) = F[Total]
  BY DEF Walk
<1>2. \E f : f = [n \in 0..Total |->
                   IF n = 0 THEN <<>>
                   ELSE IF Len(f[n - 1]) < limit /\ Matches(Newest(n - 1), c, since)
                   THEN Append(f[n - 1], Newest(n - 1))
                   ELSE f[n - 1]]
  <2>1. PICK f : IsWalk(f, Total, c, since, limit)
    BY WalkExists
  <2> QED BY <2>1 DEF IsWalk, Look
<1>3. F = [n \in 0..Total |->
                   IF n = 0 THEN <<>>
                   ELSE IF Len(F[n - 1]) < limit /\ Matches(Newest(n - 1), c, since)
                   THEN Append(F[n - 1], Newest(n - 1))
                   ELSE F[n - 1]]
  BY <1>2
<1>4. F[0] = <<>> /\ \A n \in 1..Total : F[n] = Look(F[n - 1], n, c, since, limit)
  <2> HIDE DEF F
  <2>1. 0 \in 0..Total /\ \A n \in 1..Total : n \in 0..Total /\ n # 0
    OBVIOUS
  <2> QED BY <1>3, <2>1 DEF Look
<1> HIDE DEF F
<1> QED BY <1>1, <1>4

(* What a walk over the n newest slots has found: the newest of those that    *)
(* match, the newest first.                                                   *)
Found(p, n, c, since, limit) ==
  /\ p \in Seq(Entries) /\ Len(p) <= limit
  /\ \A k \in 1..Len(p) :
       /\ p[k].id \in Len(history) - n + 1 .. Len(history)
       /\ p[k] = history[p[k].id] /\ Matches(p[k], c, since)
  /\ \A k, l \in 1..Len(p) : k < l => p[l].id < p[k].id
  /\ \A i \in Len(history) - n + 1 .. Len(history) :
       Matches(history[i], c, since) /\ (\A k \in 1..Len(p) : p[k].id # i) =>
         Len(p) = limit /\ \A k \in 1..Len(p) : i < p[k].id

LEMMA FoundNext ==
  ASSUME history \in Seq(Entries), NumberInv, RingIsHistory, Total \in Nat,
         NEW c, NEW since, NEW limit \in Nat, NEW n \in 1..Total, NEW p,
         Found(p, n - 1, c, since, limit)
  PROVE  Found(Look(p, n, c, since, limit), n, c, since, limit)
<1> DEFINE h == Len(history)
           e == Newest(n - 1)
           i0 == h - n + 1
<1>1. /\ h \in Nat /\ Total \in Nat /\ Total <= h /\ n \in Nat /\ n >= 1 /\ n <= Total
      /\ Len(p) \in Nat /\ p \in Seq(Entries) /\ Len(p) <= limit
  BY DEF RingIsHistory, Found
<1>2. i0 \in 1..h /\ e = history[i0] /\ e.id = i0 /\ e \in Entries
  <2>1. n - 1 \in 0..Total - 1 /\ h - (n - 1) = i0 /\ i0 \in 1..h
    BY <1>1
  <2>2. e = history[i0]
    BY <2>1 DEF RingIsHistory
  <2> QED BY <2>1, <2>2 DEF NumberInv
<1>3. /\ \A i : i \in i0..h <=> i = i0 \/ i \in h - (n - 1) + 1 .. h
      /\ \A i \in h - (n - 1) + 1 .. h : i0 < i
  BY <1>1
<1>4. /\ \A k \in 1..Len(p) :
           /\ p[k].id \in h - (n - 1) + 1 .. h
           /\ p[k] = history[p[k].id] /\ Matches(p[k], c, since)
      /\ \A k, l \in 1..Len(p) : k < l => p[l].id < p[k].id
      /\ \A i \in h - (n - 1) + 1 .. h :
           Matches(history[i], c, since) /\ (\A k \in 1..Len(p) : p[k].id # i) =>
             Len(p) = limit /\ \A k \in 1..Len(p) : i < p[k].id
  BY DEF Found
<1>5. CASE Len(p) < limit /\ Matches(e, c, since)
  <2> DEFINE q == Append(p, e)
  <2>1. /\ q \in Seq(Entries) /\ Len(q) = Len(p) + 1 /\ q[Len(p) + 1] = e
        /\ \A k \in 1..Len(p) : q[k] = p[k]
    BY <1>1, <1>2
  <2> HIDE DEF q, e, i0, h
  <2>2. \A k \in 1..Len(q) : k \in 1..Len(p) \/ k = Len(p) + 1
    BY <1>1, <2>1
  <2>3. \A k \in 1..Len(q) : q[k].id \in i0..h /\ q[k] = history[q[k].id] /\ Matches(q[k], c, since)
    BY <1>2, <1>3, <1>4, <1>5, <2>1, <2>2
  <2>4. ASSUME NEW k \in 1..Len(q), NEW l \in 1..Len(q), k < l PROVE q[l].id < q[k].id
    <3>1. k \in 1..Len(p)
      BY <1>1, <2>1, <2>4
    <3>2. CASE l \in 1..Len(p)
      BY <1>4, <2>1, <2>4, <3>1, <3>2
    <3>3. CASE l = Len(p) + 1
      <4>1. p[k].id \in h - (n - 1) + 1 .. h /\ q[l].id = i0 /\ q[k] = p[k]
        BY <1>2, <1>4, <2>1, <3>1, <3>3
      <4> QED BY <1>3, <4>1
    <3> QED BY <2>2, <3>2, <3>3
  <2>5. ASSUME NEW i \in i0..h, Matches(history[i], c, since), \A k \in 1..Len(q) : q[k].id # i
        PROVE  FALSE
    <3>1. i # i0
      <4>1. Len(p) + 1 \in 1..Len(q)
        BY <1>1, <2>1
      <4> QED BY <1>2, <2>1, <2>5, <4>1
    <3>2. \A k \in 1..Len(p) : p[k].id # i
      <4>1. \A k \in 1..Len(p) : k \in 1..Len(q)
        BY <1>1, <2>1
      <4> QED BY <2>1, <2>5, <4>1
    <3>3. Len(p) = limit
      BY <1>3, <1>4, <2>5, <3>1, <3>2
    <3> QED BY <1>1, <1>5, <3>3
  <2>6. Len(q) <= limit /\ Look(p, n, c, since, limit) = q
    BY <1>1, <1>5, <2>1 DEF Look, q, e
  <2> QED BY <2>1, <2>3, <2>4, <2>5, <2>6 DEF Found, i0, h
<1>6. CASE ~(Len(p) < limit /\ Matches(e, c, since))
  <2>1. Look(p, n, c, since, limit) = p
    BY <1>6 DEF Look
  <2> HIDE DEF e, i0, h
  <2>2. \A k \in 1..Len(p) : p[k].id \in i0..h /\ p[k] = history[p[k].id] /\ Matches(p[k], c, since)
    BY <1>3, <1>4
  <2>3. ASSUME NEW i \in i0..h, Matches(history[i], c, since), \A k \in 1..Len(p) : p[k].id # i
        PROVE  Len(p) = limit /\ \A k \in 1..Len(p) : i < p[k].id
    <3>1. CASE i = i0
      <4>1. Len(p) = limit
        BY <1>1, <1>2, <1>6, <2>3, <3>1
      <4> QED BY <1>3, <1>4, <3>1, <4>1
    <3>2. CASE i # i0
      BY <1>3, <1>4, <2>3, <3>2
    <3> QED BY <3>1, <3>2
  <2> QED BY <1>1, <1>4, <2>1, <2>2, <2>3 DEF Found, i0, h
<1> QED BY <1>5, <1>6

LEMMA WalkFinds ==
  ASSUME history \in Seq(Entries), NumberInv, RingIsHistory, Total \in Nat,
         NEW c, NEW since, NEW limit \in Nat
  PROVE  Found(Walk(c, since, limit), Total, c, since, limit)
<1>1. PICK f : /\ f[0] = <<>> /\ Walk(c, since, limit) = f[Total]
               /\ \A n \in 1..Total : f[n] = Look(f[n - 1], n, c, since, limit)
  BY WalkSteps
<1> DEFINE Fails == {n \in 0..Total : ~Found(f[n], n, c, since, limit)}
<1>2. SUFFICES ASSUME Fails # {} PROVE FALSE
  BY <1>1
<1>3. PICK n \in Fails : \A m \in Fails : ~(m < n)
  <2>1. Fails \subseteq Nat
    OBVIOUS
  <2> HIDE DEF Fails
  <2> QED BY <1>2, <2>1, Least
<1>4. n \in 0..Total /\ ~Found(f[n], n, c, since, limit)
  OBVIOUS
<1>5. n # 0
  <2>1. Found(<<>>, 0, c, since, limit)
    BY DEF Found
  <2> QED BY <1>1, <1>4, <2>1
<1>6. n \in 1..Total /\ n - 1 \in 0..Total /\ n - 1 < n
  BY <1>4, <1>5
<1>7. Found(f[n - 1], n - 1, c, since, limit)
  BY <1>3, <1>6
<1> QED BY <1>1, <1>4, <1>6, <1>7, FoundNext

(* Turned round, what the walk has found is what was asked for. *)
LEMMA Answer ==
  ASSUME history \in Seq(Entries), NumberInv, RingIsHistory, Total \in Nat,
         NEW c, NEW since, NEW limit \in Nat
  PROVE  LET q == Query(c, since, limit)
             left == Asked(c, since) \ {q[k].id : k \in DOMAIN q}
         IN  /\ \A k \in DOMAIN q : q[k].id \in Asked(c, since) /\ q[k] = history[q[k].id]
             /\ \A k, l \in DOMAIN q : k < l => q[k].id < q[l].id
             /\ Len(q) <= limit
             /\ \A i \in left : Len(q) = limit /\ \A k \in DOMAIN q : i < q[k].id
<1> DEFINE p == Walk(c, since, limit)
           q == Query(c, since, limit)
           m == Len(p)
           h == Len(history)
           Turn(k) == m - k + 1
<1>1. Found(p, Total, c, since, limit)
  BY WalkFinds
<1>2. m \in Nat /\ m <= limit /\ p \in Seq(Entries) /\ h \in Nat
  BY <1>1 DEF Found
<1>3. Len(q) = m /\ DOMAIN q = 1..m /\ \A k \in 1..m : q[k] = p[Turn(k)]
  BY <1>2 DEF Query, Reverse
<1>4. /\ \A k \in 1..m : Turn(k) \in 1..m /\ Turn(Turn(k)) = k
      /\ \A k, l \in 1..m : k < l => Turn(l) < Turn(k)
  BY <1>2
<1>5. Asked(c, since) = {i \in h - Total + 1 .. h : Matches(history[i], c, since)}
  <2> DEFINE low == h - Total + 1
  <2>1. low = (IF h < Capacity THEN 1 ELSE h - Capacity + 1) /\ low \in Int
    BY <1>2, LogAssumption DEF RingIsHistory
  <2> HIDE DEF h, low
  <2>2. \A i \in Int : (i \in 1..h /\ i + Capacity > h) <=> i \in low..h
    BY <1>2, <2>1, LogAssumption
  <2>3. DOMAIN history = 1..h /\ 1..h \subseteq Int /\ low..h \subseteq Int
    BY <1>2, <2>1 DEF h
  <2>4. Asked(c, since) = {i \in 1..h : i + Capacity > h /\ Matches(history[i], c, since)}
    BY <2>3 DEF Asked, h
  <2>5. Asked(c, since) = {i \in low..h : Matches(history[i], c, since)}
    BY <2>2, <2>3, <2>4
  <2> QED BY <2>5 DEF low
<1>6. /\ \A k \in 1..m : p[k].id \in h - Total + 1 .. h /\ p[k] = history[p[k].id] /\ Matches(p[k], c, since)
      /\ \A k, l \in 1..m : k < l => p[l].id < p[k].id
      /\ \A i \in h - Total + 1 .. h :
           Matches(history[i], c, since) /\ (\A k \in 1..m : p[k].id # i) =>
             m = limit /\ \A k \in 1..m : i < p[k].id
  BY <1>1 DEF Found
<1> HIDE DEF p, q, m, h, Turn
<1>7. \A k \in 1..m : q[k].id \in Asked(c, since) /\ q[k] = history[q[k].id]
  BY <1>3, <1>4, <1>5, <1>6
<1>8. \A k, l \in 1..m : k < l => q[k].id < q[l].id
  BY <1>3, <1>4, <1>6
<1>9. ASSUME NEW i \in Asked(c, since) \ {q[k].id : k \in 1..m}
      PROVE  m = limit /\ \A k \in 1..m : i < q[k].id
  <2>1. \A k \in 1..m : q[k].id # i
    OBVIOUS
  <2>2. \A k \in 1..m : p[k].id # i
    BY <1>3, <1>4, <2>1
  <2>3. m = limit /\ \A k \in 1..m : i < p[k].id
    BY <1>5, <1>6, <1>9, <2>2
  <2> QED BY <1>3, <1>4, <2>3
<1> QED BY <1>2, <1>3, <1>7, <1>8, <1>9 DEF q

(* A query gives the last entries that match, oldest first and at most limit  *)
(* of them, for every capacity, filter and limit, however far the ring has    *)
(* wrapped.                                                                   *)
THEOREM QueryGivesTheLast == LogSpec => []QueryIsOfTheLast
<1>1. LogType /\ NumberInv /\ RingIsHistory => QueryIsOfTheLast
  <2> SUFFICES ASSUME LogType, NumberInv, RingIsHistory,
                      NEW c \in Components \cup {Every}, NEW since \in 0..MaxEntries,
                      NEW limit \in 1..Capacity + 1
               PROVE  LET q == Query(c, since, limit)
                          left == Asked(c, since) \ {q[k].id : k \in DOMAIN q}
                      IN  /\ \A k \in DOMAIN q : q[k].id \in Asked(c, since) /\ q[k] = history[q[k].id]
                          /\ \A k, l \in DOMAIN q : k < l => q[k].id < q[l].id
                          /\ Len(q) <= limit
                          /\ \A i \in left : Len(q) = limit /\ \A k \in DOMAIN q : i < q[k].id
    BY DEF QueryIsOfTheLast
  <2>1. history \in Seq(Entries) /\ limit \in Nat
    BY LogAssumption DEF LogType
  <2>2. Total \in Nat
    BY <2>1, LogAssumption DEF RingIsHistory
  <2> QED BY <2>1, <2>2, Answer
<1>2. LogInv => LogType /\ NumberInv
  BY DEF LogInv
<1> QED BY <1>1, <1>2, LogInductive, RingKeepsTheLast, PTL

-----------------------------------------------------------------------------
(* The numbers of two sequences without a common entry are told apart by the  *)
(* sequence that follows one with the other.                                  *)
LEMMA Together ==
  ASSUME NEW p \in Seq(Entries), NEW q \in Seq(Entries),
         Distinct(p), Distinct(q), Numbers(p) \cap Numbers(q) = {}
  PROVE  LET ps == [i \in DOMAIN p |-> p[i].id]
             qs == [i \in DOMAIN q |-> q[i].id] IN
         /\ ToSet(ps) = Numbers(p) /\ ToSet(qs) = Numbers(q)
         /\ IsInjective(ps \o qs) /\ ToSet(ps \o qs) = Numbers(p) \cup Numbers(q)
<1> DEFINE ps == [i \in DOMAIN p |-> p[i].id]
           qs == [i \in DOMAIN q |-> q[i].id]
           c == ps \o qs
           m == Len(p)
           n == Len(q)
<1>1. m \in Nat /\ n \in Nat /\ DOMAIN p = 1..m /\ DOMAIN q = 1..n
  OBVIOUS
<1>2. ps \in Seq(Nat) /\ qs \in Seq(Nat) /\ Len(ps) = m /\ Len(qs) = n
  <2>0. \A e \in Entries : e.id \in Nat
    BY DEF Entries
  <2>1. \A i \in DOMAIN p : p[i].id \in Nat
    BY <1>1, <2>0
  <2>2. \A i \in DOMAIN q : q[i].id \in Nat
    BY <1>1, <2>0
  <2> QED BY <1>1, <2>1, <2>2
<1>3. c \in Seq(Nat) /\ Len(c) = m + n
      /\ \A i \in 1..m + n : c[i] = IF i <= m THEN ps[i] ELSE qs[i - m]
  <2> HIDE DEF ps, qs, m, n
  <2>1. /\ c \in Seq(Nat) /\ Len(c) = Len(ps) + Len(qs)
        /\ \A i \in 1..Len(ps) + Len(qs) : c[i] = IF i <= Len(ps) THEN ps[i] ELSE qs[i - Len(ps)]
    BY <1>2, ConcatProperties, Zenon
  <2> QED BY <1>2, <2>1, Zenon
<1>4. DOMAIN c = 1..m + n
  BY <1>1, <1>3
<1>5. \A i \in 1..m + n : i \in 1..m \/ i - m \in 1..n
  BY <1>1
<1>6. /\ \A i \in 1..m + n : i \in 1..m => c[i] = p[i].id
      /\ \A i \in 1..m + n : i - m \in 1..n => c[i] = q[i - m].id
  <2>1. \A i \in 1..m + n : i \in 1..m => i <= m /\ ps[i] = p[i].id
    BY <1>1
  <2>2. \A i \in 1..m + n : i - m \in 1..n => ~(i <= m) /\ qs[i - m] = q[i - m].id
    BY <1>1
  <2> HIDE DEF ps, qs, c, m, n
  <2> QED BY <1>3, <2>1, <2>2
<1>7. ToSet(ps) = Numbers(p) /\ ToSet(qs) = Numbers(q)
  BY DEF ToSet, Numbers
<1>8. ToSet(c) = Numbers(p) \cup Numbers(q)
  <2>1. ASSUME NEW i \in 1..m + n PROVE c[i] \in Numbers(p) \cup Numbers(q)
    <3> HIDE DEF c
    <3> QED BY <1>1, <1>5, <1>6 DEF Numbers
  <2>2. Numbers(p) \subseteq ToSet(c)
    <3>1. \A i \in 1..m : i \in 1..m + n
      BY <1>1
    <3> HIDE DEF c
    <3> QED BY <1>1, <1>4, <1>6, <3>1 DEF Numbers, ToSet
  <2>3. Numbers(q) \subseteq ToSet(c)
    <3> SUFFICES ASSUME NEW j \in 1..n PROVE q[j].id \in ToSet(c)
      BY <1>1 DEF Numbers
    <3>1. PICK i \in 1..m + n : i - m = j
      BY <1>1
    <3> HIDE DEF c
    <3> QED BY <1>4, <1>6, <3>1 DEF ToSet
  <2> HIDE DEF c
  <2> QED BY <1>4, <2>1, <2>2, <2>3 DEF ToSet
<1>9. IsInjective(c)
  <2>1. ASSUME NEW i \in 1..m + n, NEW j \in 1..m + n, c[i] = c[j] PROVE i = j
    <3> HIDE DEF c
    <3>1. CASE i \in 1..m /\ j \in 1..m
      BY <1>1, <1>6, <2>1, <3>1 DEF Distinct
    <3>2. CASE i - m \in 1..n /\ j - m \in 1..n
      <4>1. q[i - m].id = q[j - m].id
        BY <1>6, <2>1, <3>2
      <4>2. i - m = j - m
        BY <1>1, <3>2, <4>1 DEF Distinct
      <4> QED BY <1>1, <4>2
    <3>3. CASE i \in 1..m /\ j - m \in 1..n
      <4>1. p[i].id = q[j - m].id
        BY <1>6, <2>1, <3>3
      <4> QED BY <1>1, <3>3, <4>1 DEF Numbers
    <3>4. CASE i - m \in 1..n /\ j \in 1..m
      <4>1. q[i - m].id = p[j].id
        BY <1>6, <2>1, <3>4
      <4> QED BY <1>1, <3>4, <4>1 DEF Numbers
    <3> QED BY <1>5, <3>1, <3>2, <3>3, <3>4
  <2> HIDE DEF c
  <2> QED BY <1>4, <2>1 DEF IsInjective
<1> QED BY <1>7, <1>8, <1>9

(* A stream whose channel was never full has lost nothing, and nothing comes  *)
(* to its client twice, whichever Appends, streams and clients interleave     *)
(* (logs.go:56, server.go:397).                                               *)
THEOREM StreamMissesNothing == LogSpec => []StreamKeepsUp
<1>1. LogInv => StreamKeepsUp
  <2> SUFFICES ASSUME LogType, NEW s \in Streams, StreamInv(s), stream[s].st = "open", ~stream[s].late
      PROVE LET due == {i \in stream[s].from + 1 .. Len(history) :
                          stream[s].wants \in {Every, history[i].component}}
                out == [i \in DOMAIN sent[s] |-> sent[s][i].id]
                in == [i \in DOMAIN chan[s] |-> chan[s][i].id]
                pending == {writer[w].e.id : w \in {v \in Writers : s \in writer[v].todo}}
            IN  /\ due \subseteq ToSet(out) \cup ToSet(in) \cup pending
                /\ IsInjective(out \o in)
                /\ pending \cap ToSet(out \o in) = {}
    BY DEF LogInv, StreamKeepsUp
  <2> DEFINE out == [i \in DOMAIN sent[s] |-> sent[s][i].id]
             in == [i \in DOMAIN chan[s] |-> chan[s][i].id]
  <2>1. /\ ToSet(out) = Numbers(sent[s]) /\ ToSet(in) = Numbers(chan[s])
        /\ IsInjective(out \o in) /\ ToSet(out \o in) = Numbers(sent[s]) \cup Numbers(chan[s])
    <3>1. sent[s] \in Seq(Entries) /\ chan[s] \in Seq(Entries)
      BY DEF LogType
    <3>2. Distinct(sent[s]) /\ Distinct(chan[s]) /\ Numbers(sent[s]) \cap Numbers(chan[s]) = {}
      BY DEF StreamInv, Once
    <3> QED BY <3>1, <3>2, Together
  <2>2. {i \in stream[s].from + 1 .. Len(history) : stream[s].wants \in {Every, history[i].component}}
          \subseteq Numbers(sent[s]) \cup Numbers(chan[s]) \cup Pending(s)
    BY DEF StreamInv, Complete
  <2>3. Pending(s) \cap (Numbers(sent[s]) \cup Numbers(chan[s])) = {}
    BY DEF StreamInv, Once
  <2> HIDE DEF out, in
  <2> QED BY <2>1, <2>2, <2>3 DEF Pending, out, in
<1> QED BY <1>1, LogInductive, PTL
=============================================================================
