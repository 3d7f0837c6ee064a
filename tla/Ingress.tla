------------------------------ MODULE Ingress ------------------------------
(***************************************************************************)
(* The SOCKS5 server that lets applications into the tunnel:               *)
(*   internal/proxy/server.go   a goroutine per TCP connection, two per    *)
(*                              relay, and the ticker for the statistics   *)
(*   internal/proxy/socks5.go   handshake and request, by their outcomes   *)
(*   internal/proxy/udp.go      one goroutine and one socket for every UDP *)
(*                              association                                *)
(*   internal/proxy/resolver.go names, by their outcomes                   *)
(*                                                                         *)
(* The counters are atomics, so a step reads or writes one of them.  Bytes *)
(* of the two directions are counted together.  The unit of time is the    *)
(* relay's read timeout of 30 s: a minute is two, and a flow is idle after *)
(* Idle of them (ten in the code).                                         *)
(***************************************************************************)
EXTENDS Naturals, FiniteSets

CONSTANTS Conns,      \* TCP connections; one that is closed may be another's
          Clients,    \* addresses UDP clients send from
          Targets,    \* where they send to
          None,
          Idle,
          MaxBytes    \* bound: bytes ever counted

ASSUME IngressAssumption ==
  /\ Idle \in Nat \ {0} /\ MaxBytes \in Nat
  /\ Clients \cap Targets = {} /\ None \notin Clients \cup Targets
  /\ IsFiniteSet(Conns)

VARIABLES
  connected,   \* what the gate reads: state.expressvpn.connection = connected
  conn,        \* per connection: how far its handler is
  copy,        \* per connection and direction: copying, counted, done
  bytes, active, dirty,
  stats,       \* publishStats: the place in its loop and what it has loaded
  published,   \* state.proxy: bytes and active connections
  relay,       \* the UDP relay: where it is, and the client and target of the datagram in hand
  flows,       \* per client: the targets it has sent to; none for no flow
  age,         \* per client: time since flow.last
  since        \* time since lastCleanup

counters == <<bytes, active, dirty>>
tcpVars == <<conn, copy>>
statVars == <<stats, published>>
udpVars == <<relay, flows, age, since>>
ingressVars == <<connected, tcpVars, counters, statVars, udpVars>>

Way == {"in", "out"}
Reading == [at |-> "read", client |-> None, target |-> None]

IngressInit ==
  /\ connected \in BOOLEAN
  /\ conn = [k \in Conns |-> "new"] /\ copy = [k \in Conns |-> [w \in Way |-> "done"]]
  /\ bytes = 0 /\ active = 0 /\ dirty = FALSE
  /\ stats = [at |-> "tick", bytes |-> 0, active |-> 0] /\ published = [bytes |-> 0, active |-> 0]
  /\ relay = Reading /\ flows = [c \in Clients |-> {}]
  /\ age = [c \in Clients |-> 0] /\ since = 0

\* The agent connects and disconnects the tunnel.
Toggle ==
  /\ connected' = ~connected
  /\ UNCHANGED <<tcpVars, counters, statVars, udpVars>>

-----------------------------------------------------------------------------
(* A TCP connection: handle and handleConnect.                             *)

Tcp == UNCHANGED <<connected, statVars, udpVars>>
Goes(k, stage) == conn' = [conn EXCEPT ![k] = stage]

\* The handshake is refused, cut off or accepted, and so is the request; the gate
\* is read once, and UDP ASSOCIATE needs it as CONNECT does.  A connection that
\* ends makes room for another.
Request(k) ==
  /\ conn[k] = "new" /\ connected
  /\ Goes(k, "dial") \/ Goes(k, "associated")
  /\ Tcp /\ UNCHANGED <<copy, counters>>

\* The name resolves and the marked socket reaches the target within 20 s, and
\* the client is there to be told; or not.
Dial(k) ==
  /\ conn[k] = "dial"
  /\ Goes(k, "count") \/ Goes(k, "new")
  /\ Tcp /\ UNCHANGED <<copy, counters>>

Count(k) ==
  /\ conn[k] = "count" /\ Goes(k, "mark")
  /\ active' = active + 1
  /\ Tcp /\ UNCHANGED <<copy, bytes, dirty>>

Mark(k) ==
  /\ conn[k] = "mark" /\ Goes(k, "relay")
  /\ dirty' = TRUE
  /\ copy' = [copy EXCEPT ![k] = [w \in Way |-> "copying"]]
  /\ Tcp /\ UNCHANGED <<bytes, active>>

\* A direction ends, and only now counts what it has copied ...
CopyEnds(k, w) ==
  /\ conn[k] = "relay" /\ copy[k][w] = "copying"
  /\ copy' = [copy EXCEPT ![k][w] = "counted"]
  /\ \E n \in 0..(MaxBytes - bytes) : bytes' = bytes + n
  /\ Tcp /\ UNCHANGED <<conn, active, dirty>>

\* ... and closes the other end for writing.
CopyMarks(k, w) ==
  /\ conn[k] = "relay" /\ copy[k][w] = "counted"
  /\ copy' = [copy EXCEPT ![k][w] = "done"]
  /\ dirty' = TRUE
  /\ Tcp /\ UNCHANGED <<conn, bytes, active>>

Leave(k) ==
  /\ conn[k] = "relay" /\ \A w \in Way : copy[k][w] = "done"
  /\ Goes(k, "leave")
  /\ active' = active - 1
  /\ Tcp /\ UNCHANGED <<copy, bytes, dirty>>

Close(k) ==
  /\ conn[k] = "leave" /\ Goes(k, "new")
  /\ dirty' = TRUE
  /\ Tcp /\ UNCHANGED <<copy, bytes, active>>

\* UDP ASSOCIATE holds its TCP connection until the client closes it; the flows
\* know nothing of it.
AssociationEnds(k) ==
  /\ conn[k] = "associated" /\ Goes(k, "new")
  /\ Tcp /\ UNCHANGED <<copy, counters>>

-----------------------------------------------------------------------------
(* publishStats: once a second, if anything has changed.                   *)

Stat == UNCHANGED <<connected, tcpVars, bytes, active, udpVars>>

Tick ==
  /\ stats.at = "tick" /\ dirty
  /\ dirty' = FALSE
  /\ stats' = [stats EXCEPT !.at = "bytes"]
  /\ Stat /\ UNCHANGED published

LoadBytes ==
  /\ stats.at = "bytes"
  /\ stats' = [stats EXCEPT !.at = "active", !.bytes = bytes]
  /\ Stat /\ UNCHANGED <<dirty, published>>

LoadActive ==
  /\ stats.at = "active"
  /\ stats' = [stats EXCEPT !.at = "update", !.active = active]
  /\ Stat /\ UNCHANGED <<dirty, published>>

\* Mutant: the flag is taken back again, now that all is published.
AfterUpdateCleared == dirty' = FALSE
AfterUpdate == UNCHANGED dirty
Publish ==
  /\ stats.at = "update"
  /\ published' = [bytes |-> stats.bytes, active |-> stats.active]
  /\ stats' = [at |-> "tick", bytes |-> 0, active |-> 0]
  /\ AfterUpdate /\ Stat

-----------------------------------------------------------------------------
(* The UDP relay: one loop over one socket.                                *)

Udp == UNCHANGED <<connected, tcpVars, statVars, active>>
Least(m, n) == IF m < n THEN m ELSE n
HasFlow(c) == flows[c] # {}

\* The loop has waited n units for what it reads.
Waits(n) ==
  /\ age' = [c \in Clients |-> IF HasFlow(c) THEN Least(age[c] + n, Idle + 1) ELSE 0]
  /\ since' = Least(since + n, 2)

\* A client's datagram passes the gate, whether its address is known or not ...
ReadRequest(c, t) ==
  /\ relay.at = "read"
  /\ \E n \in {0, 1} : Waits(n)
  /\ relay' = IF connected THEN [at |-> "parse", client |-> c, target |-> t] ELSE relay
  /\ Udp /\ UNCHANGED <<flows, bytes, dirty>>

\* ... has its header read, which may mean a name to resolve while everyone
\* waits, and is sent on; the flow learns the target.
Forward ==
  /\ relay.at = "parse"
  /\ \/ /\ relay' = [relay EXCEPT !.at = "count"]
        /\ flows' = [flows EXCEPT ![relay.client] = @ \cup {relay.target}]
        /\ age' = [age EXCEPT ![relay.client] = 0]
     \/ relay' = Reading /\ UNCHANGED <<flows, age>>
  /\ Udp /\ UNCHANGED <<since, bytes, dirty>>

\* A datagram of a target goes to one client whose flow knows the target, gate
\* or no gate.
ReadReply(t) ==
  /\ relay.at = "read" /\ \E c \in Clients : t \in flows[c]
  /\ \E n \in {0, 1} : Waits(n)
  /\ relay' = [relay EXCEPT !.at = "count"]
  /\ Udp /\ UNCHANGED <<flows, bytes, dirty>>

CountDatagram ==
  /\ relay.at = "count"
  /\ \E n \in 0..(MaxBytes - bytes) : bytes' = bytes + n
  /\ relay' = [Reading EXCEPT !.at = "mark"]
  /\ Udp /\ UNCHANGED <<flows, age, since, dirty>>

MarkDatagram ==
  /\ relay.at = "mark"
  /\ dirty' = TRUE
  /\ relay' = Reading
  /\ Udp /\ UNCHANGED <<flows, age, since, bytes>>

\* No datagram for a whole unit.  Only here flows expire, at most once a minute.
\* Mutant: the time of the last cleanup is set at every timeout.
CleanedAlways(due) == 0
Cleaned(due) == IF due THEN 0 ELSE since + 1
ReadTimeout ==
  /\ relay.at = "read"
  /\ LET due == since + 1 >= 2
         idle == {c \in Clients : due /\ age[c] + 1 > Idle}
     IN /\ flows' = [c \in Clients |-> IF c \in idle THEN {} ELSE flows[c]]
        /\ age' = [c \in Clients |-> IF c \in idle \/ ~HasFlow(c) THEN 0 ELSE Least(age[c] + 1, Idle + 1)]
        /\ since' = Cleaned(due)
  /\ Udp /\ UNCHANGED <<relay, bytes, dirty>>

-----------------------------------------------------------------------------
TcpHandler(k) ==
  \/ Request(k) \/ Dial(k) \/ Count(k) \/ Mark(k)
  \/ \E w \in Way : CopyEnds(k, w) \/ CopyMarks(k, w)
  \/ Leave(k) \/ Close(k) \/ AssociationEnds(k)

Statistics == Tick \/ LoadBytes \/ LoadActive \/ Publish
Relay ==
  \/ \E c \in Clients, t \in Targets : ReadRequest(c, t)
  \/ \E t \in Targets : ReadReply(t)
  \/ Forward \/ CountDatagram \/ MarkDatagram \/ ReadTimeout

IngressNext == Toggle \/ (\E k \in Conns : TcpHandler(k)) \/ Statistics \/ Relay

IngressSpec == IngressInit /\ [][IngressNext]_ingressVars

\* The ticker; and the code between a counter and its flag, which nothing blocks.
IngressFairSpec ==
  /\ IngressSpec
  /\ WF_ingressVars(Statistics)
  /\ \A k \in Conns : WF_ingressVars(Mark(k) \/ Close(k) \/ \E w \in Way : CopyMarks(k, w))
  /\ WF_ingressVars(MarkDatagram)

-----------------------------------------------------------------------------
(* Properties.                                                             *)

\* Nothing that was counted stays behind unseen: with no flag raised, the ticker
\* between two ticks and nobody between a counter and its flag, what the state
\* shows is what was counted and the connections that are being relayed
\* (server.go:129-149, 195-223).
InHand ==
  \/ \E k \in Conns : conn[k] \in {"mark", "leave"} \/ \E w \in Way : copy[k][w] = "counted"
  \/ relay.at = "mark"

StatsAreExact ==
  ~dirty /\ stats.at = "tick" /\ ~InHand =>
    published = [bytes |-> bytes, active |-> Cardinality({k \in Conns : conn[k] = "relay"})]

\* Whatever the counters come to rest at is published, however handlers, the
\* relay and the ticker's loads fall between one another.
StatsPublished ==
  \A n \in 0..MaxBytes, m \in 0..Cardinality(Conns) :
    []<>(bytes = n /\ active = m => published = [bytes |-> n, active |-> m])

\* As long as the socket's reads go on timing out now and then, a client that is
\* silent loses its flow, whatever else passes through the relay.
FlowsExpire ==
  ([]<><<ReadTimeout>>_ingressVars) => \A c \in Clients : []<>(HasFlow(c) => age[c] <= Idle)
=============================================================================
