-------------------------- MODULE AgentStartProofs --------------------------
(* Proofs of the safety properties of AgentStart for any files, uplinks,      *)
(* addresses, tokens and starts.                                              *)
EXTENDS AgentStart, TLAPS

(* What Apply has tried is what it is trying, too; from the check on, the     *)
(* chain is its own.                                                          *)
ApplyInv ==
  /\ apply # "idle" => p \in tried
  /\ apply \in {"check", "insert"} => chain = p

(* Rules that an uplink asked for are in force. *)
Guarded ==
  \/ nft # None /\ nft \in tried \cup {params}
  \/ jump /\ chain # None /\ chain \in tried \cup {params}

(* Clients are let in on a state that was published with such rules. *)
ProxyInv ==
  active \/ slot = TRUE \/ proxy \in {"running", "stopped"} => Guarded

(* The image's files are copied to a directory nothing was written to, and    *)
(* the daemon runs when its directory is on the volume.                       *)
DirInv ==
  /\ agent = "copy" => written = {}
  /\ agent \in {"token", "up", "stopping"} => etc = "link"

(* Tokens are numbered as they are made; neither the file nor the memory      *)
(* holds a retired one.                                                       *)
TokenInv ==
  /\ retired \subseteq 1..made
  /\ token \in 0..made /\ file \in 0..made
  /\ token \notin retired /\ file \notin retired
  /\ agent = "up" => token # 0
  /\ rotating => made < MaxTokens

IInv == TypeOK /\ ApplyInv /\ ProxyInv /\ DirInv /\ SessionKept /\ TokenInv

-----------------------------------------------------------------------------
(* The rules.                                                                 *)

Rules == [packets : SUBSET Packets, accept : BOOLEAN]
Matched(list, k) == \E i \in DOMAIN list : k \in list[i].packets

(* Of two lists, the second decides what the first does not.                  *)
LEMMA PassesConcat ==
  ASSUME NEW s \in Seq(Rules), NEW t \in Seq(Rules), NEW k, Passes(s \o t, k)
  PROVE  Passes(s, k) /\ (~Matched(s, k) => Passes(t, k))
<1>1. /\ Len(s) \in Nat /\ Len(t) \in Nat /\ Len(s \o t) = Len(s) + Len(t)
      /\ DOMAIN s = 1..Len(s) /\ DOMAIN t = 1..Len(t) /\ DOMAIN (s \o t) = 1..(Len(s) + Len(t))
      /\ \A i \in 1..Len(s) : (s \o t)[i] = s[i]
      /\ \A i \in 1..Len(t) : (s \o t)[Len(s) + i] = t[i]
  OBVIOUS
<1>2. Passes(s, k)
  <2> SUFFICES ASSUME NEW i \in DOMAIN s, k \in s[i].packets,
                      \A j \in 1..(i - 1) : k \notin s[j].packets
               PROVE  s[i].accept
    BY DEF Passes
  <2>1. i \in DOMAIN (s \o t) /\ (s \o t)[i] = s[i]
    BY <1>1
  <2>2. \A j \in 1..(i - 1) : (s \o t)[j] = s[j]
    BY <1>1
  <2> QED BY <2>1, <2>2 DEF Passes
<1>3. ASSUME ~Matched(s, k) PROVE Passes(t, k)
  <2> SUFFICES ASSUME NEW i \in DOMAIN t, k \in t[i].packets,
                      \A j \in 1..(i - 1) : k \notin t[j].packets
               PROVE  t[i].accept
    BY DEF Passes
  <2>1. Len(s) + i \in DOMAIN (s \o t) /\ (s \o t)[Len(s) + i] = t[i] /\ Len(s) + i \in Nat
    BY <1>1
  <2>2. ASSUME NEW j \in 1..(Len(s) + i - 1) PROVE k \notin (s \o t)[j].packets
    <3>1. CASE j \in 1..Len(s)
      BY <1>1, <1>3, <3>1 DEF Matched
    <3>2. CASE j \notin 1..Len(s)
      <4>0. j \in Nat /\ i \in 1..Len(t) /\ Len(s) \in Nat /\ Len(t) \in Nat
        BY <1>1
      <4>1. j - Len(s) \in 1..(i - 1) /\ j - Len(s) \in 1..Len(t) /\ Len(s) + (j - Len(s)) = j
        BY <4>0, <3>2
      <4>2. (s \o t)[j] = t[j - Len(s)]
        BY <1>1, <4>1
      <4> QED BY <4>1, <4>2
    <3> QED BY <3>1, <3>2
  <2> DEFINE n == Len(s) + i
             st == s \o t
  <2>3. n \in DOMAIN st /\ st[n] = t[i] /\ \A j \in 1..(n - 1) : k \notin st[j].packets
    BY <2>1, <2>2
  <2> HIDE DEF n, st
  <2>4. Passes(st, k)
    BY DEF st
  <2>5. st[n].accept
    BY <2>3, <2>4 DEF Passes
  <2> QED BY <2>3, <2>5
<1> QED BY <1>2, <1>3

LEMMA MatchedConcat ==
  ASSUME NEW s \in Seq(Rules), NEW t \in Seq(Rules), NEW k
  PROVE  Matched(s \o t, k) => Matched(s, k) \/ Matched(t, k)
<1>1. /\ Len(s) \in Nat /\ Len(t) \in Nat
      /\ DOMAIN s = 1..Len(s) /\ DOMAIN t = 1..Len(t) /\ DOMAIN (s \o t) = 1..(Len(s) + Len(t))
      /\ \A i \in 1..Len(s) : (s \o t)[i] = s[i]
      /\ \A i \in (Len(s) + 1)..(Len(s) + Len(t)) : (s \o t)[i] = t[i - Len(s)]
  OBVIOUS
<1>2. \A i \in 1..(Len(s) + Len(t)) :
        i \in 1..Len(s) \/ (i \in (Len(s) + 1)..(Len(s) + Len(t)) /\ i - Len(s) \in 1..Len(t))
  BY <1>1
<1> QED BY <1>1, <1>2 DEF Matched

LEMMA RuleTypes ==
  ASSUME NEW ks \in SUBSET Packets
  PROVE  /\ Accept(ks) \in Rules /\ Accept(ks).packets = ks
         /\ Drop(ks) \in Rules /\ Drop(ks).packets = ks /\ Drop(ks).accept = FALSE
  BY DEF Accept, Drop, Rules

LEMMA WhenMatches ==
  ASSUME NEW c \in BOOLEAN, NEW rule \in Rules, NEW k
  PROVE  /\ When(c, rule) \in Seq(Rules)
         /\ Matched(When(c, rule), k) => c /\ k \in rule.packets
  BY DEF When, Matched

LEMMA SetTypes ==
  /\ Marked \in SUBSET Packets
  /\ \A d : By(d) \in SUBSET Packets
  /\ \A a : To(a) \in SUBSET Packets
  BY DEF Marked, By, To

(* A list that ends with a drop of what is left of ks lets nothing else of it  *)
(* pass than what it has matched before.                                       *)
LEMMA LastDrop ==
  ASSUME NEW s \in Seq(Rules), NEW ks \in SUBSET Packets, NEW k \in ks,
         Passes(s \o <<Drop(ks)>>, k)
  PROVE  Matched(s, k)
<1>1. <<Drop(ks)>> \in Seq(Rules)
  <2>1. Drop(ks) \in Rules
    BY RuleTypes
  <2> QED BY <2>1
<1>2. ~Passes(<<Drop(ks)>>, k)
  <2>1. DOMAIN <<Drop(ks)>> = 1..1 /\ <<Drop(ks)>>[1] = Drop(ks)
    OBVIOUS
  <2>2. Drop(ks).packets = ks /\ Drop(ks).accept = FALSE
    BY RuleTypes
  <2>3. \A j \in 1..(1 - 1) : FALSE
    OBVIOUS
  <2> QED BY <2>1, <2>2, <2>3 DEF Passes
<1> QED BY <1>1, <1>2, PassesConcat

(* Past the rules for the proxy's sockets, theirs go into the tunnel or to     *)
(* docker's network, and no other packet is matched.                           *)
LEMMA MarkedSound ==
  ASSUME NEW r \in Parameters, NEW k \in Packets
  PROVE  /\ MarkedRules(r) \in Seq(Rules)
         /\ Matched(MarkedRules(r), k) => k.marked
         /\ Passes(MarkedRules(r), k) /\ k.marked =>
              k.dev = "tun0" \/ (k.dev = "eth0" /\ k.dst = "docker")
<1> DEFINE docker == Marked \cap By("eth0") \cap To("docker")
           tunnel == Marked \cap By("tun0")
           first == When(r.subnet, Accept(docker))
           rest == <<Accept(tunnel), Drop(Marked)>>
<1>1. docker \in SUBSET Packets /\ tunnel \in SUBSET Packets /\ Marked \in SUBSET Packets
  BY SetTypes
<1>2. /\ Accept(docker) \in Rules /\ Accept(docker).packets = docker
      /\ Accept(tunnel) \in Rules /\ Accept(tunnel).packets = tunnel
      /\ Drop(Marked) \in Rules /\ Drop(Marked).packets = Marked /\ Drop(Marked).accept = FALSE
  BY <1>1, RuleTypes
<1>3. r.subnet \in BOOLEAN
  BY DEF Parameters
<1>4. first \in Seq(Rules) /\ (Matched(first, k) => k \in docker)
  BY <1>2, <1>3, WhenMatches
<1>5. rest \in Seq(Rules) /\ DOMAIN rest = {1, 2} /\ rest[1] = Accept(tunnel) /\ rest[2] = Drop(Marked)
  BY <1>2
<1>6. MarkedRules(r) = first \o rest
  BY DEF MarkedRules
<1>7. /\ k \in Marked <=> k.marked
      /\ k \in docker <=> k.marked /\ k.dev = "eth0" /\ k.dst = "docker"
      /\ k \in tunnel <=> k.marked /\ k.dev = "tun0"
  BY DEF Marked, By, To, Packets
<1> HIDE DEF docker, tunnel, first, rest
<1>8. Matched(rest, k) => k.marked
  BY <1>2, <1>5, <1>7 DEF Matched
<1>9. Passes(rest, k) /\ k.marked => k \in tunnel
  <2> SUFFICES ASSUME Passes(rest, k), k.marked, k \notin tunnel PROVE FALSE
    OBVIOUS
  <2>1. \A j \in 1..(2 - 1) : j = 1
    OBVIOUS
  <2> QED BY <1>2, <1>5, <1>7, <2>1 DEF Passes
<1>10. first \o rest \in Seq(Rules)
  BY <1>4, <1>5
<1>11. Matched(first \o rest, k) => k.marked
  BY <1>4, <1>5, <1>7, <1>8, MatchedConcat
<1>12. Passes(first \o rest, k) /\ k.marked => k \in docker \/ k \in tunnel
  BY <1>4, <1>5, <1>9, PassesConcat
<1> QED BY <1>6, <1>7, <1>10, <1>11, <1>12

(* Past the rules for everyone else, nothing goes out by the container's own   *)
(* interface but to the proxy and to docker's network.                         *)
LEMMA EgressSound ==
  ASSUME NEW r \in Parameters, NEW k \in Packets
  PROVE  /\ EgressRules(r) \in Seq(Rules)
         /\ Passes(EgressRules(r), k) /\ r.mode # "host" /\ k.dev = "eth0" =>
              k.dst \in {"docker", r.ip}
<1>1. CASE r.mode = "host"
  BY <1>1 DEF EgressRules
<1>2. CASE r.mode # "host"
  <2> DEFINE proxy_ == By("eth0") \cap To(r.ip)
             docker == By("eth0") \cap To("docker")
             first == When(r.ip # None, Accept(proxy_))
             second == When(r.subnet, Accept(docker))
             last == <<Drop(By("eth0"))>>
  <2>1. proxy_ \in SUBSET Packets /\ docker \in SUBSET Packets /\ By("eth0") \in SUBSET Packets
    BY SetTypes
  <2>2. /\ Accept(proxy_) \in Rules /\ Accept(proxy_).packets = proxy_
        /\ Accept(docker) \in Rules /\ Accept(docker).packets = docker
        /\ Drop(By("eth0")) \in Rules
    BY <2>1, RuleTypes
  <2>3. r.subnet \in BOOLEAN
    BY DEF Parameters
  <2>4. /\ first \in Seq(Rules) /\ (Matched(first, k) => k \in proxy_)
        /\ second \in Seq(Rules) /\ (Matched(second, k) => k \in docker)
    BY <2>2, <2>3, WhenMatches
  <2>5. EgressRules(r) = (first \o second) \o last
    BY <1>2 DEF EgressRules
  <2>6. /\ k \in By("eth0") <=> k.dev = "eth0"
        /\ k \in proxy_ => k.dst = r.ip
        /\ k \in docker => k.dst = "docker"
    BY DEF By, To, Packets
  <2> HIDE DEF proxy_, docker, first, second
  <2>7. first \o second \in Seq(Rules) /\ last \in Seq(Rules)
    BY <2>2, <2>4
  <2>8. (first \o second) \o last \in Seq(Rules)
    BY <2>7
  <2>9. Passes((first \o second) \o last, k) /\ k.dev = "eth0" => Matched(first \o second, k)
    BY <2>1, <2>6, <2>7, LastDrop
  <2>10. Matched(first \o second, k) => k.dst \in {"docker", r.ip}
    BY <2>4, <2>6, MatchedConcat
  <2> QED BY <2>5, <2>8, <2>9, <2>10
<1> QED BY <1>1, <1>2

(* ruleset.go, iptables.go: what passes a set of rules is what its uplink      *)
(* permits, for any address of the proxy.                                      *)
THEOREM RulesetSound ==
  ASSUME NEW r \in Parameters, NEW k \in Packets, Passes(Ruleset(r), k)
  PROVE  k \in Permitted(r)
<1> SUFFICES ASSUME k.dev # "lo" PROVE k \in Permitted(r)
  BY DEF Permitted
<1> DEFINE lo == <<Accept(By("lo"))>>
<1>1. Ruleset(r) = (lo \o MarkedRules(r)) \o EgressRules(r)
  BY DEF Ruleset
<1>2. lo \in Seq(Rules) /\ ~Matched(lo, k)
  <2>1. By("lo") \in SUBSET Packets /\ k \notin By("lo")
    BY SetTypes DEF By
  <2>2. Accept(By("lo")) \in Rules /\ Accept(By("lo")).packets = By("lo")
    BY <2>1, RuleTypes
  <2>3. DOMAIN lo = {1} /\ lo[1] = Accept(By("lo"))
    OBVIOUS
  <2>4. lo \in Seq(Rules)
    BY <2>2
  <2> QED BY <2>1, <2>2, <2>3, <2>4 DEF Matched
<1> HIDE DEF lo
<1>3. MarkedRules(r) \in Seq(Rules) /\ EgressRules(r) \in Seq(Rules)
  BY MarkedSound, EgressSound
<1>4. lo \o MarkedRules(r) \in Seq(Rules)
  BY <1>2, <1>3
<1>5. /\ Passes(lo \o MarkedRules(r), k)
      /\ ~Matched(lo \o MarkedRules(r), k) => Passes(EgressRules(r), k)
  BY <1>1, <1>3, <1>4, PassesConcat
<1>6. Passes(MarkedRules(r), k)
  BY <1>2, <1>3, <1>5, PassesConcat
<1>7. CASE k.marked
  BY <1>6, <1>7, MarkedSound DEF Permitted
<1>8. CASE ~k.marked
  <2>1. ~Matched(lo \o MarkedRules(r), k)
    BY <1>2, <1>3, <1>8, MarkedSound, MatchedConcat
  <2>2. Passes(EgressRules(r), k)
    BY <1>5, <2>1
  <2> QED BY <1>8, <2>2, EgressSound DEF Permitted
<1> QED BY <1>7, <1>8

-----------------------------------------------------------------------------
(* The steps of the kill switch.                                              *)

LEMMA DefaultsType == Defaults \in Parameters
  BY DEF Defaults, Parameters

LEMMA KsStep ==
  ASSUME KsTypeOK, ApplyInv, KsNext
  PROVE  KsTypeOK' /\ ApplyInv' /\ (Guarded => Guarded') /\ (active' => active \/ Guarded')
<1> USE DefaultsType DEF KsTypeOK, ApplyInv, Guarded
<1>1. CASE Begin
  <2>1. CASE \E u \in Uplinks \ {appliedKS} : u # Host /\ UNCHANGED <<lc, apply, p, tried>> /\ active' = FALSE
    BY <1>1, <2>1 DEF Begin, rules
  <2>2. CASE \E u \in Uplinks \ {appliedKS} :
               /\ \E known \in {TRUE, params.subnet}, ip \in IF u = Host THEN {None} ELSE Ips :
                    p' = [mode |-> IF u = Host THEN "host" ELSE "socks5", ip |-> ip, subnet |-> known]
               /\ lc' = u /\ apply' = "nft" /\ tried' = tried \cup {p'}
               /\ UNCHANGED active
    <3>1. PICK u \in Uplinks, known \in {TRUE, params.subnet}, ip \in Ips \cup {None} :
            /\ p' = [mode |-> IF u = Host THEN "host" ELSE "socks5", ip |-> ip, subnet |-> known]
            /\ lc' = u
      BY <2>2
    <3>2. params.subnet \in BOOLEAN
      BY DEF Parameters
    <3>3. p' \in Parameters
      BY <3>1, <3>2 DEF Parameters
    <3> QED BY <1>1, <2>2, <3>1, <3>3 DEF Begin, rules
  <2> QED BY <1>1, <2>1, <2>2 DEF Begin
<1>2. CASE ApplyNFT
  <2>1. CASE nft' = p /\ Succeed
    BY <1>2, <2>1, ParametersAssumption DEF ApplyNFT, Succeed
  <2>2. CASE UNCHANGED nft /\ Go("restore")
    BY <1>2, <2>2 DEF ApplyNFT, Go
  <2> QED BY <1>2, <2>1, <2>2 DEF ApplyNFT
<1>3. CASE Restore
  <2>1. CASE chain' = p /\ Go("check")
    BY <1>3, <2>1, ParametersAssumption DEF Restore, Go
  <2>2. CASE UNCHANGED chain /\ Fail
    BY <1>3, <2>2 DEF Restore, Fail
  <2> QED BY <1>3, <2>1, <2>2 DEF Restore
<1>4. CASE Check
  <2>1. CASE jump /\ Succeed
    BY <1>4, <2>1, ParametersAssumption DEF Check, Succeed, rules
  <2>2. CASE Go("insert")
    BY <1>4, <2>2 DEF Check, Go, rules
  <2>3. CASE Fail
    BY <1>4, <2>3 DEF Check, Fail, rules
  <2> QED BY <1>4, <2>1, <2>2, <2>3 DEF Check
<1>5. CASE Insert
  <2>1. CASE jump' = TRUE /\ Succeed
    BY <1>5, <2>1, ParametersAssumption DEF Insert, Succeed
  <2>2. CASE UNCHANGED jump /\ Fail
    BY <1>5, <2>2 DEF Insert, Fail
  <2> QED BY <1>5, <2>1, <2>2 DEF Insert
<1> QED BY <1>1, <1>2, <1>3, <1>4, <1>5 DEF KsNext

(* The kill switch stays as it is. *)
LEMMA KsSame ==
  ASSUME KsTypeOK, ApplyInv, UNCHANGED ksVars
  PROVE  KsTypeOK' /\ ApplyInv' /\ (Guarded' <=> Guarded) /\ active' = active
  BY DEF ksVars, rules, KsTypeOK, ApplyInv, Guarded

LEMMA KsGone ==
  ASSUME IInv, Ends
  PROVE  KsTypeOK' /\ ApplyInv' /\ ProxyInv'
<1>1. None # TRUE
  BY UplinksAssumption
<1> QED BY <1>1, DefaultsType DEF Ends, IInv, TypeOK, KsTypeOK, ApplyInv, ProxyInv

-----------------------------------------------------------------------------
LEMMA InitIInv == Init => IInv
<1> SUFFICES ASSUME Init PROVE IInv
  OBVIOUS
<1>1. KsTypeOK /\ ApplyInv /\ ProxyInv
  BY DefaultsType, UplinksAssumption DEF Init, KsInit, KsTypeOK, ApplyInv, ProxyInv
<1>2. TypeOK
  <2>1. 0 \in 0..MaxStarts /\ 0 \in 0..MaxTokens
    BY StartAssumption
  <2>2. target \in [Files -> {"absent", "torn", "seed", "own"}]
    BY DEF Init, Empty
  <2>3. etc \in {"absent", "dir", "link"}
    BY DEF Init
  <2> QED BY <1>1, <2>1, <2>2, <2>3 DEF Init, TypeOK
<1>3. DirInv /\ SessionKept /\ TokenInv
  BY StartAssumption DEF Init, DirInv, SessionKept, TokenInv
<1> QED BY <1>1, <1>2, <1>3 DEF IInv

(* The steps of the container, of its directory and of the token leave the    *)
(* kill switch and the proxy alone, or end them.                              *)
Container == Start \/ Recreate \/ SeedBegins \/ CopyFile \/ Clear \/ Link \/ DaemonWrites
Tokens == Truncate \/ Generated \/ RotateFails \/ ReadToken
Serving == Subscribe \/ LoopStep \/ Receive \/ Terminate
Ending == Crash \/ Exit

LEMMA ContainerStep == IInv /\ Container => IInv'
<1> SUFFICES ASSUME IInv, Container PROVE IInv'
  OBVIOUS
<1>1. UNCHANGED <<tokenVars, proxyVars, ksVars>>
  BY DEF Container, Start, Recreate, SeedBegins, CopyFile, Clear, Link, DaemonWrites
<1>2. KsTypeOK' /\ ApplyInv' /\ ProxyInv'
  BY <1>1, KsSame DEF IInv, TypeOK, ProxyInv, proxyVars
<1>3. agent' # "up" \/ agent' = agent
  BY DEF Container, Start, Recreate, SeedBegins, CopyFile, Clear, Link, DaemonWrites
<1>4. TokenInv'
  BY <1>1, <1>3 DEF IInv, TokenInv, tokenVars
<1>5. /\ {file, token, made}' \subseteq 0..MaxTokens
      /\ retired' \subseteq 1..MaxTokens /\ rotating' \in BOOLEAN
      /\ proxy' \in {"none", "waiting", "running", "failed", "stopped"}
      /\ slot' \in BOOLEAN \cup {None}
  BY <1>1 DEF IInv, TypeOK, tokenVars, proxyVars
<1> USE DEF IInv, TypeOK, DirInv, SessionKept
<1>6. CASE Start
  <2>1. starts' \in 0..MaxStarts
    BY <1>6, StartAssumption DEF Start
  <2> QED BY <1>2, <1>4, <1>5, <1>6, <2>1 DEF Start, dirVars
<1>7. CASE Recreate
  BY <1>2, <1>4, <1>5, <1>7 DEF Recreate
<1>8. CASE SeedBegins
  <2>1. written = {}
    BY <1>8 DEF SeedBegins, SeedDue, Empty
  <2> QED BY <1>2, <1>4, <1>5, <1>8, <2>1 DEF SeedBegins
<1>9. CASE CopyFile
  <2>1. agent = "copy" /\ written = {} /\ UNCHANGED <<agent, starts, image, etc, written>>
    BY <1>9 DEF CopyFile
  <2>2. target' \in [Files -> {"absent", "torn", "seed", "own"}] /\ copying' \subseteq Files
    BY <1>9 DEF CopyFile
  <2> QED BY <1>2, <1>4, <1>5, <2>1, <2>2
<1>10. CASE Clear
  BY <1>2, <1>4, <1>5, <1>10 DEF Clear
<1>11. CASE Link
  BY <1>2, <1>4, <1>5, <1>11 DEF Link
<1>12. CASE DaemonWrites
  <2>1. etc = "link"
    BY <1>12 DEF DaemonWrites
  <2>2. PICK f \in Files \ written :
          written' = written \cup {f} /\ target' = [target EXCEPT ![f] = "own"]
    BY <1>12, <2>1 DEF DaemonWrites
  <2>3. \A g \in written' : target'[g] = "own"
    BY <2>2
  <2>4. target' \in [Files -> {"absent", "torn", "seed", "own"}] /\ written' \subseteq Files
    BY <2>2
  <2> QED BY <1>2, <1>4, <1>5, <1>12, <2>3, <2>4 DEF DaemonWrites
<1> QED BY <1>6, <1>7, <1>8, <1>9, <1>10, <1>11, <1>12 DEF Container

LEMMA TokensStep == IInv /\ Tokens => IInv'
<1> SUFFICES ASSUME IInv, Tokens PROVE IInv'
  OBVIOUS
<1>1. UNCHANGED <<starts, image, dirVars, proxyVars, ksVars>>
  BY DEF Tokens, Truncate, Generated, RotateFails, ReadToken
<1>2. KsTypeOK' /\ ApplyInv' /\ ProxyInv'
  BY <1>1, KsSame DEF IInv, TypeOK, ProxyInv, proxyVars
<1>3. agent' = agent \/ (agent = "token" /\ agent' = "up")
  BY DEF Tokens, Truncate, Generated, RotateFails, ReadToken
<1>4. DirInv' /\ SessionKept'
  BY <1>1, <1>3 DEF IInv, DirInv, SessionKept, dirVars
<1>5. made \in 0..MaxTokens /\ MaxTokens \in Nat /\ token \in 0..made /\ file \in 0..made
  BY StartAssumption DEF IInv, TypeOK, TokenInv
<1>6. TokenInv' /\ made' \in 0..MaxTokens /\ rotating' \in BOOLEAN
  <2> USE DEF IInv, TypeOK, TokenInv
  <2>1. CASE Truncate
    BY <1>5, <2>1 DEF Truncate
  <2>2. CASE Generated
    <3>1. /\ made' = made + 1 /\ made' \in 0..MaxTokens /\ file' = made + 1 /\ token' = made + 1
          /\ rotating' = FALSE
      BY <1>5, <2>2 DEF Generated
    <3>2. retired' \subseteq retired \cup {token} /\ (agent # "up" => retired' = retired)
      BY <2>2 DEF Generated
    <3>3. retired' \subseteq 1..made
      BY <1>5, <3>2
    <3>4. retired' \subseteq 1..made' /\ made + 1 \notin retired' /\ made + 1 \in 0..made' /\ made + 1 # 0
      BY <1>5, <3>1, <3>3
    <3> QED BY <3>1, <3>4
  <2>3. CASE RotateFails
    BY <2>3 DEF RotateFails, RotateFailsWith
  <2>4. CASE ReadToken
    BY <2>4 DEF ReadToken
  <2> QED BY <2>1, <2>2, <2>3, <2>4 DEF Tokens
<1>7. {file, token, made}' \subseteq 0..MaxTokens /\ retired' \subseteq 1..MaxTokens
  BY <1>5, <1>6 DEF TokenInv
<1> QED BY <1>1, <1>2, <1>3, <1>4, <1>6, <1>7 DEF IInv, TypeOK, dirVars, proxyVars

LEMMA ServingStep == IInv /\ Serving => IInv'
<1> SUFFICES ASSUME IInv, Serving PROVE IInv'
  OBVIOUS
<1>1. UNCHANGED <<starts, image, dirVars, tokenVars>>
      /\ (agent' = agent \/ (agent = "up" /\ agent' = "stopping"))
  BY DEF Serving, Subscribe, LoopStep, Receive, Terminate
<1>2. DirInv' /\ SessionKept' /\ TokenInv'
  BY <1>1 DEF IInv, DirInv, SessionKept, TokenInv, dirVars, tokenVars
<1>3. active \in BOOLEAN /\ slot \in BOOLEAN \cup {None} /\ None # TRUE
      /\ proxy \in {"none", "waiting", "running", "failed", "stopped"}
  BY UplinksAssumption DEF IInv, TypeOK, KsTypeOK
<1>4. /\ KsTypeOK' /\ ApplyInv' /\ ProxyInv'
      /\ proxy' \in {"none", "waiting", "running", "failed", "stopped"}
      /\ slot' \in BOOLEAN \cup {None}
  <2>1. CASE UNCHANGED ksVars
    <3>1. KsTypeOK' /\ ApplyInv' /\ (Guarded' <=> Guarded) /\ active' = active
      BY <2>1, KsSame DEF IInv, TypeOK
    <3>2. CASE Subscribe
      BY <1>3, <3>1, <3>2 DEF Subscribe, IInv, ProxyInv
    <3>3. CASE Receive
      BY <1>3, <3>1, <3>3 DEF Receive, MayServe, IInv, ProxyInv
    <3>4. CASE Terminate
      BY <1>3, <3>1, <3>4 DEF Terminate, IInv, ProxyInv
    <3>5. CASE LoopStep
      BY <1>3, <3>1, <3>5 DEF LoopStep, Published, IInv, ProxyInv
    <3> QED BY <3>2, <3>3, <3>4, <3>5 DEF Serving
  <2>2. CASE LoopStep
    <3>1. KsTypeOK' /\ ApplyInv' /\ (Guarded => Guarded') /\ (active' => active \/ Guarded')
      BY <2>2, KsStep DEF LoopStep, IInv, TypeOK
    <3>2. active' \in BOOLEAN
      BY <3>1 DEF KsTypeOK
    <3> QED BY <1>3, <2>2, <3>1, <3>2 DEF LoopStep, Published, IInv, ProxyInv
  <2> QED BY <2>1, <2>2 DEF Serving, Subscribe, Receive, Terminate
<1> QED BY <1>1, <1>2, <1>4 DEF IInv, TypeOK, dirVars, tokenVars

LEMMA EndingStep == IInv /\ Ending => IInv'
<1> SUFFICES ASSUME IInv, Ends PROVE IInv'
  BY DEF Ending, Crash, Exit
<1>1. KsTypeOK' /\ ApplyInv' /\ ProxyInv'
  BY KsGone
<1>2. made \in 0..MaxTokens /\ MaxTokens \in Nat /\ 0 \in 0..MaxTokens /\ 0 \in 0..made /\ 0 \notin 1..made
  BY StartAssumption DEF IInv, TypeOK
<1>3. TypeOK'
  BY <1>1, <1>2 DEF Ends, IInv, TypeOK
<1>4. DirInv' /\ SessionKept' /\ TokenInv'
  BY <1>2 DEF Ends, IInv, DirInv, SessionKept, TokenInv
<1> QED BY <1>1, <1>3, <1>4 DEF IInv

LEMMA Inductive == Spec => []IInv
<1>1. IInv /\ [Next]_vars => IInv'
  <2> SUFFICES ASSUME IInv, [Next]_vars PROVE IInv'
    OBVIOUS
  <2>1. CASE UNCHANGED vars
    <3>1. KsTypeOK' /\ ApplyInv' /\ ProxyInv'
      BY <2>1, KsSame DEF vars, IInv, TypeOK, ProxyInv, proxyVars
    <3> QED BY <2>1, <3>1 DEF vars, dirVars, tokenVars, proxyVars, IInv, TypeOK, DirInv,
                              SessionKept, TokenInv
  <2> QED BY <2>1, ContainerStep, TokensStep, ServingStep, EndingStep
          DEF Next, Container, Tokens, Serving, Ending
<1> QED BY InitIInv, <1>1, PTL DEF Spec

-----------------------------------------------------------------------------
(* Every variable of the start, the token, the proxy and the kill switch      *)
(* keeps its type.                                                            *)
THEOREM TypeCorrect == Spec => []TypeOK
<1>1. IInv => TypeOK
  BY DEF IInv
<1> QED BY Inductive, <1>1, PTL

(* statedir.go: what the daemon has saved survives a stop at any step of the  *)
(* start and any number of new containers.                                    *)
THEOREM SessionSurvives == Spec => []SessionKept
<1>1. IInv => SessionKept
  BY DEF IInv
<1> QED BY Inductive, <1>1, PTL

(* token.go: no token is valid again that a successful rotation replaced.     *)
THEOREM RetiredStaysDead == Spec => []RetiredTokenDead
<1>1. IInv => RetiredTokenDead
  BY DEF IInv, TokenInv, RetiredTokenDead
<1> QED BY Inductive, <1>1, PTL

(* main.go, manager.go of the kill switch: from the moment clients are let    *)
(* in, what leaves the container is what an uplink asked for permits.         *)
THEOREM ServedOnlyProtected == Spec => []NeverUnprotected
<1>1. IInv => NeverUnprotected
  <2> SUFFICES ASSUME IInv, Guarded
               PROVE  \E r \in tried \cup {params} : Leaving \subseteq Permitted(r)
    BY DEF IInv, ProxyInv, NeverUnprotected
  <2>1. tried \cup {params} \subseteq Parameters
    BY DEF IInv, TypeOK, KsTypeOK
  <2>2. CASE nft # None /\ nft \in tried \cup {params}
    <3>1. Leaving \subseteq Permitted(nft)
      BY <2>1, <2>2, RulesetSound DEF Leaving
    <3> QED BY <2>2, <3>1
  <2>3. CASE jump /\ chain # None /\ chain \in tried \cup {params}
    <3>1. Leaving \subseteq Permitted(chain)
      BY <2>1, <2>3, RulesetSound DEF Leaving
    <3> QED BY <2>3, <3>1
  <2> QED BY <2>2, <2>3 DEF Guarded
<1> QED BY Inductive, <1>1, PTL
=============================================================================
