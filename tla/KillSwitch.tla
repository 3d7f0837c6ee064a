----------------------------- MODULE KillSwitch -----------------------------
(***************************************************************************)
(* The kill switch of the agent:                                           *)
(*   internal/killswitch/manager.go    Apply, nft with iptables in reserve *)
(*   internal/killswitch/ruleset.go    the rules for nft                   *)
(*   internal/killswitch/iptables.go   the same rules for iptables-legacy  *)
(* with the step of the reconciler's loop that calls it.                   *)
(*                                                                         *)
(* A rule is a set of packets and a verdict, and the first rule that       *)
(* matches decides.  A packet is what the rules can tell of it: whether    *)
(* its socket is the proxy's (marked), the interface it is about to leave  *)
(* by and where it goes.  Both back ends hook into the same output path,   *)
(* and neither is removed when Apply goes over to the other.               *)
(***************************************************************************)
EXTENDS Naturals, Sequences

CONSTANTS Uplinks,   \* the configurations of the uplink
          Host,      \* the one that needs no proxy
          Ips,       \* the addresses a proxy's name may resolve to
          None

ASSUME UplinksAssumption == Host \in Uplinks /\ None \notin Uplinks \cup Ips \cup BOOLEAN

VARIABLES
  appliedKS,  \* reconciler: the uplink of the last Apply that succeeded
  lc,         \* reconciler: the uplink Apply is called for
  active,     \* state.killswitch.active
  apply,      \* where Apply is
  p,          \* the parameters it is applying: the uplink's mode, the proxy's address, whether docker's subnet is known
  params,     \* m.params, those of the last Apply that succeeded
  nft,        \* the parameters behind table inet detour
  chain,      \* those behind the chain DETOUR_OUT
  jump,       \* whether OUTPUT jumps to that chain
  tried       \* history: the parameters tried since the last success

rules == <<nft, chain, jump>>
ksVars == <<lc, appliedKS, active, apply, p, params, rules, tried>>

Parameters == [mode : {"host", "socks5"}, ip : Ips \cup {None}, subnet : BOOLEAN]
Defaults == [mode |-> "host", ip |-> None, subnet |-> FALSE]

ASSUME ParametersAssumption == None \notin Parameters

-----------------------------------------------------------------------------
(* The rules.                                                              *)

Packets == [marked : BOOLEAN, dev : {"lo", "eth0", "tun0", "xup0"}, dst : Ips \cup {"docker", "world"}]
Marked == {k \in Packets : k.marked}
By(d) == {k \in Packets : k.dev = d}
To(a) == {k \in Packets : k.dst = a}

Accept(ks) == [packets |-> ks, accept |-> TRUE]
Drop(ks) == [packets |-> ks, accept |-> FALSE]
When(condition, rule) == IF condition THEN <<rule>> ELSE <<>>

\* What the proxy's own sockets may do ...
MarkedRules(r) ==
  When(r.subnet, Accept(Marked \cap By("eth0") \cap To("docker")))
    \o <<Accept(Marked \cap By("tun0")), Drop(Marked)>>
\* ... and, with a proxy to go through, everyone else.
EgressRules(r) ==
  IF r.mode = "host" THEN <<>>
  ELSE When(r.ip # None, Accept(By("eth0") \cap To(r.ip)))
         \o When(r.subnet, Accept(By("eth0") \cap To("docker")))
         \o <<Drop(By("eth0"))>>

\* Mutant: what the container may send comes before what the proxy may not.
RulesetEgressFirst(r) == <<Accept(By("lo"))>> \o EgressRules(r) \o MarkedRules(r)
Ruleset(r) == <<Accept(By("lo"))>> \o MarkedRules(r) \o EgressRules(r)

Passes(list, k) ==
  \A i \in DOMAIN list :
    /\ k \in list[i].packets
    /\ \A j \in 1..(i - 1) : k \notin list[j].packets
    => list[i].accept

\* The packets that leave under the rules in force.
Leaving == {k \in Packets : /\ nft # None => Passes(Ruleset(nft), k)
                            /\ jump /\ chain # None => Passes(Ruleset(chain), k)}

-----------------------------------------------------------------------------
KsInit ==
  /\ lc = None /\ appliedKS = None /\ active = FALSE
  /\ apply = "idle" /\ p = Defaults /\ params = Defaults
  /\ nft = None /\ chain = None /\ jump = FALSE
  /\ tried = {}

\* Apply returns nil: it keeps the parameters, the loop the uplink.
Succeed ==
  /\ apply' = "idle" /\ lc' = None /\ p' = Defaults
  /\ params' = p /\ appliedKS' = lc /\ active' = TRUE
  /\ tried' = {}

\* Apply returns an error: the rules stay as they are.
Fail ==
  /\ apply' = "idle" /\ lc' = None /\ p' = Defaults
  /\ active' = FALSE
  /\ UNCHANGED <<params, appliedKS, tried>>

Go(stage) ==
  /\ apply' = stage
  /\ UNCHANGED <<lc, appliedKS, active, p, params, tried>>

\* A pass finds an uplink in the config that is not the one whose rules are
\* recorded.  The name of its proxy may not resolve; where the container's subnet
\* cannot be read it stays what it was.
Begin ==
  /\ apply = "idle"
  /\ \E u \in Uplinks \ {appliedKS} :
       \/ /\ \E known \in {TRUE, params.subnet}, ip \in IF u = Host THEN {None} ELSE Ips :
               p' = [mode |-> IF u = Host THEN "host" ELSE "socks5", ip |-> ip, subnet |-> known]
          /\ lc' = u /\ apply' = "nft" /\ tried' = tried \cup {p'}
          /\ UNCHANGED active
       \/ /\ u # Host
          /\ active' = FALSE
          /\ UNCHANGED <<lc, apply, p, tried>>
  /\ UNCHANGED <<appliedKS, params, rules>>

\* nft -f replaces the table in one transaction, or does nothing.
ApplyNFT ==
  /\ apply = "nft"
  /\ \/ nft' = p /\ Succeed
     \/ UNCHANGED nft /\ Go("restore")
  /\ UNCHANGED <<chain, jump>>

\* iptables-legacy-restore --noflush replaces the chain in one step as well.
Restore ==
  /\ apply = "restore"
  /\ \/ chain' = p /\ Go("check")
     \/ UNCHANGED chain /\ Fail
  /\ UNCHANGED <<nft, jump>>

\* The jump to the chain: iptables -C asks for it, -I puts it in.  A -C that
\* does not run is an error, one that exits with an error reads as "not there".
Check ==
  /\ apply = "check"
  /\ \/ jump /\ Succeed
     \/ Go("insert")
     \/ Fail
  /\ UNCHANGED rules

Insert ==
  /\ apply = "insert"
  /\ \/ jump' = TRUE /\ Succeed
     \/ UNCHANGED jump /\ Fail
  /\ UNCHANGED <<nft, chain>>

KsNext == Begin \/ ApplyNFT \/ Restore \/ Check \/ Insert

KsTypeOK ==
  /\ {lc, appliedKS} \subseteq Uplinks \cup {None}
  /\ active \in BOOLEAN /\ jump \in BOOLEAN
  /\ apply \in {"idle", "nft", "restore", "check", "insert"}
  /\ {p, params} \subseteq Parameters
  /\ {nft, chain} \subseteq Parameters \cup {None}
  /\ tried \subseteq Parameters
=============================================================================
