-------------------------- MODULE PublishingProofs --------------------------
(* Proofs about how what happens in the agent reaches those who watch it: the *)
(* store's fan-out of snapshots, for any number of writers, subscribers and   *)
(* Updates, and the proxy's statistics, for any number of connections, of UDP *)
(* clients and of bytes.                                                      *)
EXTENDS StateStore, Ingress, FiniteSetTheorems, TLAPS

-----------------------------------------------------------------------------
(* The store.                                                                 *)

(* A busy writer owes its snapshot only to channels registered before the     *)
(* Update, and a channel holds nothing before it is registered.               *)
DebtsInv ==
  /\ \A s \in Subscribers :
       /\ base[s] <= cur
       /\ base[s] = Empty => chan[s] = Empty /\ view[s] = Empty /\ s \notin subs
       /\ chan[s] # Empty => chan[s] >= base[s]
       /\ view[s] # Empty => view[s] >= base[s]
  /\ \A w \in Writers :
       /\ pc[w] = "idle" => todo[w] = {}
       /\ pc[w] \in {"evict", "resend"} => at[w] \in todo[w]
       /\ \A s \in todo[w] : base[s] # Empty /\ snap[w] > base[s]

(* A change that a subscriber has not been told of is still owed to it, and   *)
(* a channel found full after an eviction was filled by another Update.       *)
NotifyInv ==
  /\ \A s \in subs : cur > base[s] =>
       Latest(s) > base[s] \/ \E w \in Writers : s \in todo[w]
  /\ \A w \in Writers :
       pc[w] = "resend" /\ chan[at[w]] # Empty => chan[at[w]] > base[at[w]]

(* Without overlap there is one busy writer, it carries the current snapshot  *)
(* and nobody refills what it evicts.                                         *)
SerialInv == ~overlapped =>
  /\ \A v, w \in Writers : pc[v] # "idle" /\ pc[w] # "idle" => v = w
  /\ \A w \in Writers :
       /\ pc[w] # "idle" => snap[w] = cur
       /\ pc[w] = "resend" => chan[at[w]] = Empty
  /\ \A s \in subs : Latest(s) = cur \/ \E w \in Writers : s \in todo[w]

IInv == TypeOK /\ DebtsInv /\ NotifyInv /\ SerialInv

-----------------------------------------------------------------------------
LEMMA InitIInv == Init => IInv
<1> SUFFICES ASSUME Init PROVE IInv
  OBVIOUS
<1>1. TypeOK
  <2>1. 0 \in Version /\ Empty \in Slot
    BY StoreAssumption DEF Version, Slot
  <2>2. QED
    BY <2>1 DEF Init, TypeOK
<1> USE StoreAssumption DEF Init, Version, Slot, Empty
<1>2. DebtsInv
  BY DEF DebtsInv
<1>3. NotifyInv
  BY DEF NotifyInv
<1>4. SerialInv
  BY DEF SerialInv
<1>5. QED
  BY <1>1, <1>2, <1>3, <1>4 DEF IInv

LEMMA TypeStep == TypeOK /\ [Next]_vars => TypeOK'
<1> SUFFICES ASSUME TypeOK, [Next]_vars PROVE TypeOK'
  OBVIOUS
<1> USE StoreAssumption DEF TypeOK, Version, Slot, Empty
<1>1. ASSUME NEW w \in Writers, Update(w) PROVE TypeOK'
  BY <1>1 DEF Update, Recipients, Applied
<1>2. ASSUME NEW w \in Writers, NEW s \in Subscribers, Send(w, s) PROVE TypeOK'
  BY <1>2 DEF Send
<1>3. ASSUME NEW w \in Writers, Evict(w) PROVE TypeOK'
  BY <1>3 DEF Evict
<1>4. ASSUME NEW w \in Writers, Resend(w) PROVE TypeOK'
  BY <1>4 DEF Resend, Refill
<1>5. ASSUME NEW w \in Writers, Return(w) PROVE TypeOK'
  BY <1>5 DEF Return
<1>6. ASSUME NEW s \in Subscribers, Subscribe(s) PROVE TypeOK'
  BY <1>6 DEF Subscribe, writerVars
<1>7. ASSUME NEW s \in Subscribers, Cancel(s) PROVE TypeOK'
  BY <1>7 DEF Cancel, writerVars
<1>8. ASSUME NEW s \in Subscribers, Receive(s) PROVE TypeOK'
  BY <1>8 DEF Receive, writerVars
<1>9. CASE UNCHANGED vars
  BY <1>9 DEF vars
<1>10. QED
  BY <1>1, <1>2, <1>3, <1>4, <1>5, <1>6, <1>7, <1>8, <1>9 DEF Next

LEMMA DebtsStep == TypeOK /\ DebtsInv /\ [Next]_vars => DebtsInv'
<1> SUFFICES ASSUME TypeOK, DebtsInv, [Next]_vars PROVE DebtsInv'
  OBVIOUS
<1> USE StoreAssumption DEF TypeOK, DebtsInv, Version, Slot, Empty
<1>1. ASSUME NEW w \in Writers, Update(w) PROVE DebtsInv'
  BY <1>1 DEF Update, Recipients, Applied
<1>2. ASSUME NEW w \in Writers, NEW s \in Subscribers, Send(w, s) PROVE DebtsInv'
  BY <1>2 DEF Send
<1>3. ASSUME NEW w \in Writers, Evict(w) PROVE DebtsInv'
  BY <1>3 DEF Evict
<1>4. ASSUME NEW w \in Writers, Resend(w) PROVE DebtsInv'
  BY <1>4 DEF Resend, Refill
<1>5. ASSUME NEW w \in Writers, Return(w) PROVE DebtsInv'
  BY <1>5 DEF Return
<1>6. ASSUME NEW s \in Subscribers, Subscribe(s) PROVE DebtsInv'
  BY <1>6 DEF Subscribe, writerVars
<1>7. ASSUME NEW s \in Subscribers, Cancel(s) PROVE DebtsInv'
  BY <1>7 DEF Cancel, writerVars
<1>8. ASSUME NEW s \in Subscribers, Receive(s) PROVE DebtsInv'
  BY <1>8 DEF Receive, writerVars
<1>9. CASE UNCHANGED vars
  BY <1>9 DEF vars
<1>10. QED
  BY <1>1, <1>2, <1>3, <1>4, <1>5, <1>6, <1>7, <1>8, <1>9 DEF Next

LEMMA NotifyStep == TypeOK /\ DebtsInv /\ NotifyInv /\ [Next]_vars => NotifyInv'
<1> SUFFICES ASSUME TypeOK, DebtsInv, NotifyInv, [Next]_vars PROVE NotifyInv'
  OBVIOUS
<1> USE StoreAssumption DEF TypeOK, DebtsInv, NotifyInv, Latest, Version, Slot, Empty
<1>1. ASSUME NEW w \in Writers, Update(w) PROVE NotifyInv'
  BY <1>1 DEF Update, Recipients, Applied
<1>2. ASSUME NEW w \in Writers, NEW s \in Subscribers, Send(w, s) PROVE NotifyInv'
  BY <1>2 DEF Send
<1>3. ASSUME NEW w \in Writers, Evict(w) PROVE NotifyInv'
  BY <1>3 DEF Evict
<1>4. ASSUME NEW w \in Writers, Resend(w) PROVE NotifyInv'
  BY <1>4 DEF Resend, Refill
<1>5. ASSUME NEW w \in Writers, Return(w) PROVE NotifyInv'
  BY <1>5 DEF Return
<1>6. ASSUME NEW s \in Subscribers, Subscribe(s) PROVE NotifyInv'
  BY <1>6 DEF Subscribe, writerVars
<1>7. ASSUME NEW s \in Subscribers, Cancel(s) PROVE NotifyInv'
  BY <1>7 DEF Cancel, writerVars
<1>8. ASSUME NEW s \in Subscribers, Receive(s) PROVE NotifyInv'
  BY <1>8 DEF Receive, writerVars
<1>9. CASE UNCHANGED vars
  BY <1>9 DEF vars
<1>10. QED
  BY <1>1, <1>2, <1>3, <1>4, <1>5, <1>6, <1>7, <1>8, <1>9 DEF Next

LEMMA SerialStep == TypeOK /\ DebtsInv /\ SerialInv /\ [Next]_vars => SerialInv'
<1> SUFFICES ASSUME TypeOK, DebtsInv, SerialInv, [Next]_vars PROVE SerialInv'
  OBVIOUS
<1> USE StoreAssumption DEF TypeOK, DebtsInv, SerialInv, Latest, Version, Slot, Empty
<1>1. ASSUME NEW w \in Writers, Update(w) PROVE SerialInv'
  BY <1>1 DEF Update, Recipients, Applied
<1>2. ASSUME NEW w \in Writers, NEW s \in Subscribers, Send(w, s) PROVE SerialInv'
  BY <1>2 DEF Send
<1>3. ASSUME NEW w \in Writers, Evict(w) PROVE SerialInv'
  BY <1>3 DEF Evict
<1>4. ASSUME NEW w \in Writers, Resend(w) PROVE SerialInv'
  BY <1>4 DEF Resend, Refill
<1>5. ASSUME NEW w \in Writers, Return(w) PROVE SerialInv'
  BY <1>5 DEF Return
<1>6. ASSUME NEW s \in Subscribers, Subscribe(s) PROVE SerialInv'
  BY <1>6 DEF Subscribe, writerVars
<1>7. ASSUME NEW s \in Subscribers, Cancel(s) PROVE SerialInv'
  BY <1>7 DEF Cancel, writerVars
<1>8. ASSUME NEW s \in Subscribers, Receive(s) PROVE SerialInv'
  BY <1>8 DEF Receive, writerVars
<1>9. CASE UNCHANGED vars
  BY <1>9 DEF vars
<1>10. QED
  BY <1>1, <1>2, <1>3, <1>4, <1>5, <1>6, <1>7, <1>8, <1>9 DEF Next

LEMMA Inductive == Spec => []IInv
<1>1. IInv /\ [Next]_vars => IInv'
  BY TypeStep, DebtsStep, NotifyStep, SerialStep DEF IInv
<1>2. QED
  BY InitIInv, <1>1, PTL DEF Spec

(* Every variable keeps its type: a channel never holds more than one         *)
(* snapshot, and only versions that existed.                                  *)
THEOREM TypeCorrect == Spec => []TypeOK
<1>1. IInv => TypeOK
  BY DEF IInv
<1>2. QED
  BY Inductive, <1>1, PTL

(* No subscriber ever receives a snapshot older than its subscription.        *)
THEOREM SubscriptionBound == Spec => []NothingOlderThanSubscription
<1>1. IInv => NothingOlderThanSubscription
  BY DEF IInv, DebtsInv, TypeOK, NothingOlderThanSubscription
<1>2. QED
  BY Inductive, <1>1, PTL

(* Coalescing never loses the fact that something changed.                    *)
THEOREM NotificationKept == Spec => []NoLostNotification
<1>1. IInv => NoLostNotification
  BY DEF IInv, DebtsInv, NotifyInv, NoLostNotification, Quiescent
<1>2. QED
  BY Inductive, <1>1, PTL

(* An Update that overlaps no other leaves every subscriber up to date.       *)
THEOREM SerialFreshness == Spec => []FreshUnlessOverlapped
<1>1. IInv => FreshUnlessOverlapped
  BY DEF IInv, DebtsInv, SerialInv, FreshUnlessOverlapped, Quiescent
<1>2. QED
  BY Inductive, <1>1, PTL

-----------------------------------------------------------------------------
(* The proxy's statistics.                                                    *)
Stages == {"new", "dial", "associated", "count", "mark", "relay", "leave"}

IngressType ==
  /\ connected \in BOOLEAN
  /\ conn \in [Conns -> Stages]
  /\ copy \in [Conns -> [Way -> {"copying", "counted", "done"}]]
  /\ bytes \in Nat /\ active \in Int /\ dirty \in BOOLEAN
  /\ stats \in [at : {"tick", "bytes", "active", "update"}, bytes : Nat, active : Int]
  /\ published \in [bytes : Nat, active : Int]
  /\ relay \in [at : {"read", "parse", "count", "mark"},
                client : Clients \cup {None}, target : Targets \cup {None}]
  /\ relay.at = "parse" => relay.target \in Targets
  /\ flows \in [Clients -> SUBSET Targets]
  /\ age \in [Clients -> 0..Idle + 1]
  /\ since \in 0..2

(* The counter is the number of handlers between their two Adds.              *)
Relayed == {k \in Conns : conn[k] \in {"mark", "relay"}}

ActiveInv == active = Cardinality(Relayed)

(* What a counter holds is shown, or on its way to the state, or announced by *)
(* the flag, or about to be announced by who has just counted it.             *)
BytesInHand == relay.at = "mark" \/ \E k \in Conns, w \in Way : copy[k][w] = "counted"
ActiveInHand == \E k \in Conns : conn[k] \in {"mark", "leave"}

ShownInv ==
  /\ \/ dirty \/ BytesInHand \/ stats.at = "bytes"
     \/ stats.at \in {"active", "update"} /\ stats.bytes = bytes
     \/ stats.at = "tick" /\ published.bytes = bytes
  /\ \/ dirty \/ ActiveInHand \/ stats.at \in {"bytes", "active"}
     \/ stats.at = "update" /\ stats.active = active
     \/ stats.at = "tick" /\ published.active = active

IngressInv == IngressType /\ ActiveInv /\ ShownInv

-----------------------------------------------------------------------------
LEMMA StatsInit == IngressInit => IngressInv
<1> SUFFICES ASSUME IngressInit PROVE IngressInv
  OBVIOUS
<1>1. IngressType
  <2>1. /\ connected \in BOOLEAN /\ conn \in [Conns -> Stages]
        /\ copy \in [Conns -> [Way -> {"copying", "counted", "done"}]]
    BY DEF IngressInit, Stages
  <2>2. /\ bytes \in Nat /\ active \in Int /\ dirty \in BOOLEAN
        /\ stats \in [at : {"tick", "bytes", "active", "update"}, bytes : Nat, active : Int]
        /\ published \in [bytes : Nat, active : Int]
    <3>1. bytes \in Nat /\ active \in Int
      BY DEF IngressInit
    <3>2. dirty \in BOOLEAN
      BY DEF IngressInit
    <3>3. stats \in [at : {"tick", "bytes", "active", "update"}, bytes : Nat, active : Int]
      BY DEF IngressInit
    <3>4. published \in [bytes : Nat, active : Int]
      BY DEF IngressInit
    <3> QED BY <3>1, <3>2, <3>3, <3>4
  <2>3. /\ relay \in [at : {"read", "parse", "count", "mark"},
                      client : Clients \cup {None}, target : Targets \cup {None}]
        /\ relay.at = "read"
    BY DEF IngressInit, Reading
  <2>4. flows \in [Clients -> SUBSET Targets] /\ age \in [Clients -> 0..Idle + 1] /\ since \in 0..2
    BY IngressAssumption DEF IngressInit
  <2> QED BY <2>1, <2>2, <2>3, <2>4 DEF IngressType
<1>2. Relayed = {} /\ active = 0
  BY DEF IngressInit, Relayed
<1>3. ActiveInv
  BY <1>2, FS_EmptySet DEF ActiveInv
<1>4. ShownInv
  BY DEF IngressInit, ShownInv
<1> QED BY <1>1, <1>3, <1>4 DEF IngressInv

(* What a step of a connection's handler may do to it. *)
Handled(k) ==
  /\ conn' \in [Conns -> Stages] /\ \A j \in Conns \ {k} : conn'[j] = conn[j]
  /\ copy' \in [Conns -> [Way -> {"copying", "counted", "done"}]]
  /\ \A j \in Conns \ {k} : copy'[j] = copy[j]

LEMMA TcpHandled ==
  ASSUME IngressType, NEW k \in Conns, TcpHandler(k)
  PROVE  Handled(k)
<1> USE DEF IngressType, Handled
<1>1. ASSUME NEW s \in Stages, Goes(k, s), copy' = copy PROVE Handled(k)
  BY <1>1 DEF Goes
<1>2. CASE Mark(k)
  BY <1>2 DEF Mark, Goes, Stages
<1>3. ASSUME NEW w \in Way, CopyEnds(k, w) \/ CopyMarks(k, w) PROVE Handled(k)
  <2>1. PICK s \in {"counted", "done"} : conn' = conn /\ copy' = [copy EXCEPT ![k][w] = s]
    BY <1>3 DEF CopyEnds, CopyMarks
  <2> QED BY <2>1
<1> QED
  BY <1>1, <1>2, <1>3 DEF TcpHandler, Request, Dial, Count, Leave, Close, AssociationEnds, Stages

LEMMA IngressTypeStep == IngressType /\ [IngressNext]_ingressVars => IngressType'
<1> SUFFICES ASSUME IngressType, [IngressNext]_ingressVars PROVE IngressType'
  OBVIOUS
<1>1. CASE Toggle
  BY <1>1 DEF IngressType, Toggle, tcpVars, counters, statVars, udpVars
<1>2. ASSUME NEW k \in Conns, TcpHandler(k) PROVE IngressType'
  <2>1. Handled(k)
    BY <1>2, TcpHandled
  <2>2. bytes' \in Nat /\ active' \in Int /\ dirty' \in BOOLEAN
    <3> USE DEF IngressType
    <3>1. CASE Request(k) \/ Dial(k) \/ AssociationEnds(k)
      BY <3>1 DEF Request, Dial, AssociationEnds, counters
    <3>2. CASE Count(k) \/ Mark(k) \/ Leave(k) \/ Close(k)
      <4>1. bytes' \in Nat
        BY <3>2 DEF Count, Mark, Leave, Close
      <4>2. active' \in Int
        BY <3>2 DEF Count, Mark, Leave, Close
      <4>3. dirty' \in BOOLEAN
        BY <3>2 DEF Count, Mark, Leave, Close
      <4> QED BY <4>1, <4>2, <4>3
    <3>3. ASSUME NEW w \in Way, CopyEnds(k, w) \/ CopyMarks(k, w)
          PROVE  bytes' \in Nat /\ active' \in Int /\ dirty' \in BOOLEAN
      <4>1. bytes' \in Nat
        BY <3>3, IngressAssumption DEF CopyEnds, CopyMarks
      <4>2. active' \in Int
        BY <3>3 DEF CopyEnds, CopyMarks
      <4>3. dirty' \in BOOLEAN
        BY <3>3 DEF CopyEnds, CopyMarks
      <4> QED BY <4>1, <4>2, <4>3
    <3> QED BY <1>2, <3>1, <3>2, <3>3 DEF TcpHandler
  <2>3. Tcp
    BY <1>2 DEF TcpHandler, Request, Dial, Count, Mark, CopyEnds, CopyMarks, Leave, Close, AssociationEnds
  <2> QED BY <2>1, <2>2, <2>3 DEF IngressType, Handled, Tcp, statVars, udpVars
<1>3. CASE Statistics
  <2>1. /\ stats' \in [at : {"tick", "bytes", "active", "update"}, bytes : Nat, active : Int]
        /\ published' \in [bytes : Nat, active : Int] /\ dirty' \in BOOLEAN
    <3> USE DEF IngressType
    <3>1. CASE Tick
      BY <3>1 DEF Tick
    <3>2. CASE LoadBytes \/ LoadActive
      BY <3>2 DEF LoadBytes, LoadActive, Stat
    <3>3. CASE Publish
      BY <3>3 DEF Publish, AfterUpdate
    <3> QED BY <1>3, <3>1, <3>2, <3>3 DEF Statistics
  <2>2. Stat
    BY <1>3 DEF Statistics, Tick, LoadBytes, LoadActive, Publish
  <2> QED BY <2>1, <2>2 DEF IngressType, Stat, tcpVars, udpVars
<1>4. CASE Relay
  <2>0. Idle \in Nat
    BY IngressAssumption
  <2>1. Udp
    BY <1>4 DEF Relay, ReadRequest, ReadReply, Forward, CountDatagram, MarkDatagram, ReadTimeout
  <2>2. bytes' \in Nat /\ dirty' \in BOOLEAN
    <3>1. CASE CountDatagram
      BY <3>1, IngressAssumption DEF IngressType, CountDatagram
    <3>2. CASE ~CountDatagram
      BY <1>4, <3>2 DEF IngressType, Relay, ReadRequest, ReadReply, Forward, MarkDatagram, ReadTimeout
    <3> QED BY <3>1, <3>2
  <2>3. ASSUME NEW n \in {0, 1}, Waits(n)
        PROVE  age' \in [Clients -> 0..Idle + 1] /\ since' \in 0..2
    BY <2>0, <2>3 DEF IngressType, Waits, Least
  <2>4. age' \in [Clients -> 0..Idle + 1] /\ since' \in 0..2
    <3>1. CASE ReadTimeout
      BY <2>0, <3>1 DEF IngressType, ReadTimeout, Least, Cleaned
    <3>2. CASE Forward
      BY <2>0, <3>2 DEF IngressType, Forward
    <3>3. CASE CountDatagram \/ MarkDatagram
      BY <3>3 DEF IngressType, CountDatagram, MarkDatagram
    <3> QED BY <1>4, <2>3, <3>1, <3>2, <3>3 DEF Relay, ReadRequest, ReadReply
  <2>5. flows' \in [Clients -> SUBSET Targets]
    <3>1. CASE Forward
      BY <3>1 DEF IngressType, Forward
    <3>2. CASE ReadTimeout
      BY <3>2 DEF IngressType, ReadTimeout
    <3> QED BY <1>4, <3>1, <3>2 DEF IngressType, Relay, ReadRequest, ReadReply, CountDatagram, MarkDatagram
  <2>6. /\ relay' \in [at : {"read", "parse", "count", "mark"},
                       client : Clients \cup {None}, target : Targets \cup {None}]
        /\ relay'.at = "parse" => relay'.target \in Targets
    BY <1>4 DEF IngressType, Relay, ReadRequest, ReadReply, Forward, CountDatagram, MarkDatagram,
       ReadTimeout, Reading
  <2> QED BY <2>1, <2>2, <2>4, <2>5, <2>6 DEF IngressType, Udp, tcpVars, statVars
<1>5. CASE UNCHANGED ingressVars
  BY <1>5 DEF IngressType, ingressVars, tcpVars, counters, statVars, udpVars
<1> QED BY <1>1, <1>2, <1>3, <1>4, <1>5 DEF IngressNext

LEMMA ActiveStep == IngressType /\ ActiveInv /\ [IngressNext]_ingressVars => ActiveInv'
<1> SUFFICES ASSUME IngressType, ActiveInv, [IngressNext]_ingressVars PROVE ActiveInv'
  OBVIOUS
<1>0. IsFiniteSet(Relayed)
  BY IngressAssumption, FS_Subset DEF Relayed
<1>1. ASSUME UNCHANGED <<conn, active>> PROVE ActiveInv'
  <2>1. Relayed' = Relayed
    BY <1>1 DEF Relayed
  <2> QED BY <1>1, <2>1 DEF ActiveInv
<1>2. ASSUME NEW k \in Conns, TcpHandler(k) PROVE ActiveInv'
  <2>1. conn' \in [Conns -> Stages] /\ \A j \in Conns \ {k} : conn'[j] = conn[j]
    BY <1>2, TcpHandled DEF Handled
  <2>2. CASE Count(k)
    <3>1. conn[k] = "count" /\ conn'[k] = "mark" /\ active' = active + 1
      BY <2>2 DEF Count, Goes, IngressType
    <3>2. Relayed' = Relayed \cup {k} /\ k \notin Relayed
      BY <2>1, <3>1 DEF Relayed
    <3>3. Cardinality(Relayed') = Cardinality(Relayed) + 1
      BY <1>0, <3>2, FS_AddElement
    <3> QED BY <3>1, <3>3 DEF ActiveInv
  <2>3. CASE Leave(k)
    <3>1. conn[k] = "relay" /\ conn'[k] = "leave" /\ active' = active - 1
      BY <2>3 DEF Leave, Goes, IngressType
    <3>2. Relayed' = Relayed \ {k} /\ k \in Relayed
      BY <2>1, <3>1 DEF Relayed
    <3>3. Cardinality(Relayed') = Cardinality(Relayed) - 1
      BY <1>0, <3>2, FS_RemoveElement
    <3> QED BY <3>1, <3>3 DEF ActiveInv
  <2>4. CASE ~Count(k) /\ ~Leave(k)
    <3>1. active' = active /\ (conn[k] \in {"mark", "relay"} <=> conn'[k] \in {"mark", "relay"})
      BY <1>2, <2>4 DEF TcpHandler, Request, Dial, Mark, CopyEnds, CopyMarks, Close, AssociationEnds,
         counters, Goes, IngressType
    <3>2. Relayed' = Relayed
      BY <2>1, <3>1 DEF Relayed
    <3> QED BY <3>1, <3>2 DEF ActiveInv
  <2> QED BY <2>2, <2>3, <2>4
<1>3. CASE Toggle \/ Statistics \/ Relay \/ UNCHANGED ingressVars
  <2>1. UNCHANGED <<conn, active>>
    BY <1>3 DEF Toggle, Statistics, Tick, LoadBytes, LoadActive, Publish, Stat, Relay, ReadRequest,
       ReadReply, Forward, CountDatagram, MarkDatagram, ReadTimeout, Udp, ingressVars, tcpVars, counters
  <2> QED BY <1>1, <2>1
<1> QED BY <1>2, <1>3 DEF IngressNext

LEMMA ShownStep == IngressType /\ ShownInv /\ [IngressNext]_ingressVars => ShownInv'
<1> SUFFICES ASSUME IngressType, ShownInv, [IngressNext]_ingressVars PROVE ShownInv'
  OBVIOUS
<1>1. CASE Toggle \/ UNCHANGED ingressVars
  BY <1>1 DEF ShownInv, BytesInHand, ActiveInHand, Toggle, ingressVars, tcpVars, counters, statVars, udpVars
<1>2. ASSUME dirty', UNCHANGED <<stats, published>> PROVE ShownInv'
  BY <1>2 DEF ShownInv
<1>3. ASSUME NEW k \in Conns, TcpHandler(k) PROVE ShownInv'
  <2>0. Handled(k) /\ UNCHANGED <<stats, published, relay>>
    BY <1>3, TcpHandled DEF TcpHandler, Request, Dial, Count, Mark, CopyEnds, CopyMarks, Leave, Close,
       AssociationEnds, Tcp, statVars, udpVars
  <2>1. CASE Mark(k) \/ Close(k) \/ \E w \in Way : CopyMarks(k, w)
    BY <1>2, <2>0, <2>1 DEF Mark, Close, CopyMarks
  <2>2. CASE Request(k) \/ Dial(k) \/ AssociationEnds(k)
    <3>1. /\ copy' = copy /\ UNCHANGED <<bytes, active, dirty>>
          /\ conn[k] \notin {"mark", "leave"}
      BY <2>2 DEF Request, Dial, AssociationEnds, counters
    <3>2. ActiveInHand => ActiveInHand'
      BY <2>0, <3>1 DEF ActiveInHand, Handled
    <3>3. BytesInHand' = BytesInHand
      BY <2>0, <3>1 DEF BytesInHand
    <3> QED BY <2>0, <3>1, <3>2, <3>3 DEF ShownInv
  <2>3. CASE Count(k) \/ Leave(k)
    <3>1. /\ copy' = copy /\ UNCHANGED <<bytes, dirty>>
          /\ conn'[k] \in {"mark", "leave"}
      BY <2>3 DEF Count, Leave, Goes, IngressType
    <3>2. ActiveInHand'
      BY <3>1 DEF ActiveInHand
    <3>3. BytesInHand' = BytesInHand
      BY <2>0, <3>1 DEF BytesInHand
    <3> QED BY <2>0, <3>1, <3>2, <3>3 DEF ShownInv
  <2>4. ASSUME NEW w \in Way, CopyEnds(k, w) PROVE ShownInv'
    <3>1. conn' = conn /\ UNCHANGED <<active, dirty>> /\ copy'[k][w] = "counted"
      BY <2>4 DEF CopyEnds, IngressType
    <3>2. BytesInHand'
      BY <3>1 DEF BytesInHand
    <3>3. ActiveInHand' = ActiveInHand
      BY <3>1 DEF ActiveInHand
    <3> QED BY <2>0, <3>1, <3>2, <3>3 DEF ShownInv
  <2> QED BY <1>3, <2>1, <2>2, <2>3, <2>4 DEF TcpHandler
<1>4. CASE Statistics
  <2>1. UNCHANGED <<conn, copy, relay, bytes, active>>
    BY <1>4 DEF Statistics, Tick, LoadBytes, LoadActive, Publish, Stat, tcpVars, udpVars
  <2>2. BytesInHand' = BytesInHand /\ ActiveInHand' = ActiveInHand
    BY <2>1 DEF BytesInHand, ActiveInHand
  <2>3. CASE Tick
    BY <2>2, <2>3 DEF Tick, ShownInv, IngressType
  <2>4. CASE LoadBytes
    BY <2>1, <2>2, <2>4 DEF LoadBytes, ShownInv, IngressType
  <2>5. CASE LoadActive
    BY <2>1, <2>2, <2>5 DEF LoadActive, ShownInv, IngressType
  <2>6. CASE Publish
    BY <2>1, <2>2, <2>6 DEF Publish, AfterUpdate, ShownInv, IngressType
  <2> QED BY <1>4, <2>3, <2>4, <2>5, <2>6 DEF Statistics
<1>5. CASE Relay
  <2>1. UNCHANGED <<conn, copy, active, stats, published>>
    BY <1>5 DEF Relay, ReadRequest, ReadReply, Forward, CountDatagram, MarkDatagram, ReadTimeout, Udp,
       tcpVars, statVars
  <2>2. ActiveInHand' = ActiveInHand
    BY <2>1 DEF ActiveInHand
  <2>3. CASE MarkDatagram
    BY <1>2, <2>1, <2>3 DEF MarkDatagram
  <2>4. CASE CountDatagram
    <3>1. relay'.at = "mark" /\ dirty' = dirty
      BY <2>4 DEF CountDatagram, Reading
    <3> QED BY <2>1, <2>2, <3>1 DEF ShownInv, BytesInHand
  <2>5. CASE ~MarkDatagram /\ ~CountDatagram
    <3>1. relay.at # "mark" /\ UNCHANGED <<bytes, dirty>>
      BY <1>5, <2>5 DEF Relay, ReadRequest, ReadReply, Forward, ReadTimeout
    <3>2. BytesInHand => BytesInHand'
      BY <2>1, <3>1 DEF BytesInHand
    <3> QED BY <2>1, <2>2, <3>1, <3>2 DEF ShownInv
  <2> QED BY <2>3, <2>4, <2>5
<1> QED BY <1>1, <1>3, <1>4, <1>5 DEF IngressNext

LEMMA IngressInductive == IngressSpec => []IngressInv
<1>1. IngressInv /\ [IngressNext]_ingressVars => IngressInv'
  BY IngressTypeStep, ActiveStep, ShownStep DEF IngressInv
<1> QED BY StatsInit, <1>1, PTL DEF IngressSpec

(* Every variable of the proxy keeps its type. *)
THEOREM IngressTyped == IngressSpec => []IngressType
<1>1. IngressInv => IngressType
  BY DEF IngressInv
<1> QED BY IngressInductive, <1>1, PTL

(* server.go:131-149, 195-223: for any number of connections and of clients,  *)
(* no change of a counter is lost between its flag and the ticker's swap.     *)
THEOREM NoCountUnseen == IngressSpec => []StatsAreExact
<1>1. IngressInv => StatsAreExact
  <2> SUFFICES ASSUME IngressInv, ~dirty, stats.at = "tick", ~InHand
               PROVE  published = [bytes |-> bytes,
                                   active |-> Cardinality({k \in Conns : conn[k] = "relay"})]
    BY DEF StatsAreExact
  <2>1. ~BytesInHand /\ ~ActiveInHand
    BY DEF InHand, BytesInHand, ActiveInHand
  <2>2. published.bytes = bytes /\ published.active = active
    BY <2>1 DEF IngressInv, ShownInv
  <2>3. Relayed = {k \in Conns : conn[k] = "relay"}
    BY <2>1 DEF Relayed, ActiveInHand
  <2>4. published = [bytes |-> published.bytes, active |-> published.active]
    BY DEF IngressInv, IngressType
  <2> QED BY <2>2, <2>3, <2>4 DEF IngressInv, ActiveInv
<1> QED BY IngressInductive, <1>1, PTL
=============================================================================
