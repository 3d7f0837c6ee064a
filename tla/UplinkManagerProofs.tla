------------------------ MODULE UplinkManagerProofs ------------------------
(* Proofs of the safety properties of UplinkManager for any uplinks, any      *)
(* number of probes and any number of faults.                                 *)
EXTENDS UplinkManager, TLAPS

(* A pass past its beginning works on an uplink; Apply is called for another  *)
(* one than the last recorded, and goes to its later stages for socks5.       *)
PassInv ==
  /\ pc # "idle" => lc # None
  /\ pc \in {"announce", "apply"} => done # lc
  /\ Locked => IsSocks(lc) /\ ~IsSocks(applied)
  /\ pc = "publish" /\ ~ok => IsSocks(lc) /\ ~IsSocks(applied)
  /\ ok => pc = "publish" /\ applied = lc
  /\ ~ok => applied \in {None, done}

(* What each stage of Apply has put in place.                                 *)
StageInv ==
  /\ Locked => routes = None /\ ~resolv
  /\ pc \in {"reach", "start"} => engine = None
  /\ pc \in {"start", "routes"} => lc.proxy \in direct
  /\ pc = "routes" => engine = lc.proxy

(* The current probe is the applied uplink's, and has published if it is no   *)
(* longer probing, unless the state is just being rewritten.                  *)
Settled == ok \/ ~Switching

ProbeInv ==
  /\ run # None => Probed(applied)
  /\ run # None /\ probe[run].pc = "probing" => probe[run].ul = applied
  /\ Settled /\ run # None => st.socks
  /\ Settled /\ run # None /\ probe[run].pc # "probing" => st.udp # None
  /\ pc = "reply" /\ run # None => probe[run].pc # "probing"
  /\ Switching => (st.socks <=> IsSocks(lc))
  /\ act.pc = "probing" => act.ul # None

(* A known udpSupported is the applied uplink's, or that of a manual probe.   *)
UdpInv ==
  /\ ok /\ Probed(lc) /\ st.udp # None /\ ~st.manual => st.udp = lc
  /\ pc = "reply" /\ used # None /\ ~st.manual => used = done

IInv ==
  /\ TypeOK /\ PassInv /\ StageInv /\ EngineServesApplied
  /\ ProbeInv /\ UdpInv /\ OwnUdp

-----------------------------------------------------------------------------
LEMMA InitIInv == Init => IInv
<1> SUFFICES ASSUME Init PROVE IInv
  OBVIOUS
<1>1. TypeOK
  <2>1. st \in States /\ act \in Acts /\ mon \in Monitors
    BY DEF Init, States, Statuses, Known, Acts, Monitors
  <2>2. probe \in [Runs -> Probes]
    BY DEF Init, NoProbe, Probes, Known
  <2>3. reach \subseteq Proxies /\ faults \in 0..MaxFaults
    BY UplinkAssumption DEF Init
  <2> QED BY <2>1, <2>2, <2>3 DEF Init, TypeOK, Passes, Known
<1>2. PassInv /\ StageInv /\ EngineServesApplied
  BY DEF Init, PassInv, StageInv, EngineServesApplied, Locked, IsSocks
<1>3. ProbeInv /\ UdpInv /\ OwnUdp
  BY DEF Init, ProbeInv, UdpInv, OwnUdp, Switching, Locked, Settled
<1> QED BY <1>1, <1>2, <1>3 DEF IInv

(* A socks5 uplink has a proxy. *)
LEMMA ProxyType ==
  ASSUME NEW u \in Known, IsSocks(u)
  PROVE  u \in Uplinks /\ u.proxy \in Proxies
  BY UplinkAssumption DEF Known, IsSocks

LEMMA TypeStep == TypeOK /\ PassInv /\ [Next]_vars => TypeOK'
<1> SUFFICES ASSUME TypeOK, PassInv, [Next]_vars PROVE TypeOK'
  OBVIOUS
<1> USE DEF TypeOK
<1>1. CASE Begin
  BY <1>1 DEF Begin, Passes, Known, manager, container
<1>2. CASE Announce
  <2>1. st' \in States
    BY <1>2, UplinkAssumption DEF Announce, States, Statuses, Known, IsSocks
  <2> QED BY <1>2, <2>1 DEF Announce, Passes, manager, container
<1>3. CASE ApplyBegins
  <2>1. pc' \in Passes /\ applied' \in Known /\ run' \in Runs \cup {None} /\ ok' \in BOOLEAN
    BY <1>3 DEF ApplyBegins, Passes, Known, IsSocks
  <2>2. /\ engine' \in Proxies \cup {None} /\ alive' \in BOOLEAN
        /\ routes' \in Proxies \cup {None} /\ direct' \subseteq Proxies /\ resolv' \in BOOLEAN
    BY <1>3 DEF ApplyBegins, Teardown, container
  <2> QED BY <1>3, <2>1, <2>2 DEF ApplyBegins
<1>4. CASE ApplyReach
  <2>1. lc.proxy \in Proxies
    BY <1>4, ProxyType DEF ApplyReach, PassInv, Locked
  <2>2. faults' \in 0..MaxFaults
    BY <1>4, UplinkAssumption DEF ApplyReach, Fault, NoFault
  <2> QED BY <1>4, <2>1, <2>2 DEF ApplyReach, Passes, manager
<1>5. CASE ApplyStart
  <2>1. lc.proxy \in Proxies
    BY <1>5, ProxyType DEF ApplyStart, PassInv, Locked
  <2>2. faults' \in 0..MaxFaults
    BY <1>5, UplinkAssumption DEF ApplyStart, Fault, NoFault
  <2> QED BY <1>5, <2>1, <2>2 DEF ApplyStart, Passes, manager
<1>6. CASE ApplyRoutes
  <2>1. lc \in Uplinks /\ lc.proxy \in Proxies
    BY <1>6, ProxyType DEF ApplyRoutes, PassInv, Locked
  <2>2. faults' \in 0..MaxFaults
    BY <1>6, UplinkAssumption DEF ApplyRoutes, Fault, NoFault
  <2>3. st' \in States /\ run' \in Runs \cup {None} /\ probe' \in [Runs -> Probes]
    <3>1. CASE StartProbe /\ lc.udp = "auto"
      <4>1. PICK r \in FreeRuns :
              /\ run' = r
              /\ probe' = [probe EXCEPT ![r] = [pc |-> "probing", ul |-> lc]]
              /\ st' = [st EXCEPT !.udp = None, !.manual = FALSE]
        BY <3>1 DEF StartProbe
      <4>2. r \in Runs
        BY DEF FreeRuns
      <4>3. st' \in States
        BY <4>1 DEF States, Known
      <4>4. [pc |-> "probing", ul |-> lc] \in Probes
        BY <2>1 DEF Probes, Known
      <4> QED BY <4>1, <4>2, <4>3, <4>4
    <3>2. CASE UNCHANGED <<probe, st>> /\ run' \in {run, None}
      BY <3>2
    <3> QED BY <1>6, <3>1, <3>2 DEF ApplyRoutes, StartProbe
  <2>4. /\ engine' \in Proxies \cup {None} /\ alive' \in BOOLEAN
        /\ routes' \in Proxies \cup {None} /\ direct' \subseteq Proxies /\ resolv' \in BOOLEAN
    BY <1>6, <2>1 DEF ApplyRoutes, RoutesFailed, Teardown
  <2> QED BY <1>6, <2>1, <2>2, <2>3, <2>4 DEF ApplyRoutes, Passes, Known
<1>7. CASE Publish
  <2>1. st' \in States
    <3>1. CASE ok
      <4>1. PublishedUdp \in Known /\ (Probed(lc) /\ st.manual) \in BOOLEAN
        BY DEF PublishedUdp, States, Probed
      <4>2. st' = [st EXCEPT !.status = "up", !.udp = PublishedUdp,
                             !.manual = Probed(lc) /\ st.manual]
        BY <1>7, <3>1 DEF Publish
      <4> HIDE DEF PublishedUdp
      <4> QED BY <4>1, <4>2 DEF States, Statuses
    <3>2. CASE ~ok
      BY <1>7, <3>2 DEF Publish, States, Statuses, Known
    <3> QED BY <3>1, <3>2
  <2>2. done' \in Known /\ lc' \in Known /\ pc' \in Passes /\ ok' \in BOOLEAN
    BY <1>7 DEF Publish, Recorded, Known, Passes
  <2> QED BY <1>7, <2>1, <2>2 DEF Publish, manager, container
<1>8. CASE Ask
  BY <1>8 DEF Ask, EndPass, Passes, Known, manager, container
<1>9. CASE WaitEnds
  BY <1>9 DEF WaitEnds, Passes, States, manager, container
<1>10. CASE WriteBack
  <2>1. st' \in States
    BY <1>10 DEF WriteBack, States
  <2> QED BY <1>10, <2>1 DEF WriteBack, EndPass, Passes, Known, manager, container
<1>11. CASE WaitGivesUp
  BY <1>11 DEF WaitGivesUp, EndPass, Passes, Known, manager, container
<1>12. ASSUME NEW r \in Runs, ProbePublishes(r) PROVE TypeOK'
  <2>1. st' \in States
    <3>1. probe[r].ul \in Known
      BY DEF Probes
    <3> QED BY <1>12, <3>1 DEF ProbePublishes, States
  <2>2. [pc |-> "published", ul |-> None] \in Probes
    BY DEF Probes, Known
  <2> QED BY <1>12, <2>1, <2>2 DEF ProbePublishes, loop, container
<1>13. ASSUME NEW r \in Runs, ProbeCloses(r) PROVE TypeOK'
  <2>1. NoProbe \in Probes
    BY DEF NoProbe, Probes, Known
  <2> QED BY <1>13, <2>1 DEF ProbeCloses, loop, container
<1>14. CASE ActBegins
  <2>1. act' \in Acts
    BY <1>14 DEF ActBegins, Acts
  <2> QED BY <1>14, <2>1 DEF ActBegins, loop, manager, container
<1>15. CASE ActPublishes
  <2>1. st' \in States
    BY <1>15 DEF ActPublishes, States, Acts
  <2>2. act' \in Acts
    BY <1>15 DEF ActPublishes, Acts, Known
  <2> QED BY <1>15, <2>1, <2>2 DEF ActPublishes, loop, manager, container
<1>16. CASE MonReads
  <2>1. mon' \in Monitors
    BY <1>16 DEF MonReads, Monitors
  <2> QED BY <1>16, <2>1 DEF MonReads, loop, manager, container
<1>17. CASE MonChecks
  <2>1. mon' \in Monitors
    BY <1>17 DEF MonChecks, Health, Monitors, Statuses, Known
  <2> QED BY <1>17, <2>1 DEF MonChecks, loop, manager, container
<1>18. CASE MonPublishes
  <2>1. mon' \in Monitors
    BY <1>18 DEF MonPublishes, Monitors, Statuses, Known
  <2>2. st' \in States
    BY <1>18 DEF MonPublishes, Monitors, States
  <2> QED BY <1>18, <2>1, <2>2 DEF MonPublishes, loop, manager, container
<1>19. ASSUME NEW u \in Uplinks, PatchConfig(u) PROVE TypeOK'
  BY <1>19 DEF PatchConfig, loop, manager, container
<1>20. CASE EngineExits
  <2>1. faults' \in 0..MaxFaults
    BY <1>20, UplinkAssumption DEF EngineExits, Fault
  <2> QED BY <1>20, <2>1 DEF EngineExits, loop, manager
<1>21. ASSUME NEW p \in Flaky, ProxyChanges(p) PROVE TypeOK'
  BY <1>21, UplinkAssumption DEF ProxyChanges, loop, manager, container
<1>22. CASE UNCHANGED vars
  BY <1>22 DEF vars, loop, manager, container
<1> QED
  BY <1>1, <1>2, <1>3, <1>4, <1>5, <1>6, <1>7, <1>8, <1>9, <1>10, <1>11, <1>12, <1>13,
     <1>14, <1>15, <1>16, <1>17, <1>18, <1>19, <1>20, <1>21, <1>22
  DEF Next, Loop, Monitor

(* Steps that leave the loop, the manager and what Apply puts in place alone. *)
LEMMA OthersKeepApply ==
  ASSUME \/ \E r \in Runs : ProbePublishes(r) \/ ProbeCloses(r)
         \/ ActBegins \/ ActPublishes \/ Monitor
         \/ \E u \in Uplinks : PatchConfig(u)
         \/ EngineExits
         \/ \E p \in Flaky : ProxyChanges(p)
         \/ UNCHANGED vars
  PROVE  UNCHANGED <<pc, lc, done, ok, used, applied, run, engine, routes, direct, resolv>>
  BY DEF ProbePublishes, ProbeCloses, ActBegins, ActPublishes, Monitor, MonReads, MonChecks,
     MonPublishes, PatchConfig, EngineExits, ProxyChanges, vars, loop, manager, container

LEMMA PassStep == TypeOK /\ PassInv /\ [Next]_vars => PassInv'
<1> SUFFICES ASSUME TypeOK, PassInv, [Next]_vars PROVE PassInv'
  OBVIOUS
<1> USE DEF PassInv, Locked
<1>1. cfg # None
  BY UplinkAssumption DEF TypeOK
<1>2. CASE Begin
  BY <1>1, <1>2 DEF Begin, manager
<1>3. CASE Announce
  BY <1>3 DEF Announce, manager
<1>4. CASE ApplyBegins
  BY <1>4 DEF ApplyBegins, IsSocks
<1>5. CASE ApplyReach \/ ApplyStart
  BY <1>5 DEF ApplyReach, ApplyStart, manager
<1>6. CASE ApplyRoutes
  BY <1>6 DEF ApplyRoutes, IsSocks
<1>7. CASE Publish
  BY <1>7 DEF Publish, Recorded, manager
<1>8. CASE Ask \/ WaitEnds \/ WriteBack \/ WaitGivesUp
  BY <1>8 DEF Ask, WaitEnds, WriteBack, WaitGivesUp, EndPass, manager
<1>9. CASE UNCHANGED <<pc, lc, done, ok, used, applied, run, engine, routes, direct, resolv>>
  BY <1>9 DEF IsSocks
<1> QED
  BY <1>2, <1>3, <1>4, <1>5, <1>6, <1>7, <1>8, <1>9, OthersKeepApply DEF Next, Loop

LEMMA EngineStep ==
  TypeOK /\ PassInv /\ StageInv /\ EngineServesApplied /\ [Next]_vars
    => StageInv' /\ EngineServesApplied'
<1> SUFFICES ASSUME TypeOK, PassInv, StageInv, EngineServesApplied, [Next]_vars
             PROVE  StageInv' /\ EngineServesApplied'
  OBVIOUS
<1> USE DEF PassInv, StageInv, EngineServesApplied, Locked, IsSocks
<1>1. CASE Begin \/ Announce
  BY <1>1 DEF Begin, Announce, manager, container
<1>2. CASE ApplyBegins
  BY <1>2 DEF ApplyBegins, Teardown, container
<1>3. CASE ApplyReach
  BY <1>3 DEF ApplyReach, manager
<1>4. CASE ApplyStart
  BY <1>4 DEF ApplyStart, manager
<1>5. CASE ApplyRoutes
  BY <1>5 DEF ApplyRoutes, RoutesFailed, Teardown
<1>6. CASE Publish
  BY <1>6 DEF Publish, manager, container
<1>7. CASE Ask \/ WaitEnds \/ WriteBack \/ WaitGivesUp
  BY <1>7 DEF Ask, WaitEnds, WriteBack, WaitGivesUp, EndPass, manager, container
<1>8. CASE UNCHANGED <<pc, lc, done, ok, used, applied, run, engine, routes, direct, resolv>>
  BY <1>8
<1> QED
  BY <1>1, <1>2, <1>3, <1>4, <1>5, <1>6, <1>7, <1>8, OthersKeepApply DEF Next, Loop

-----------------------------------------------------------------------------
LEMMA ProbeStep ==
  TypeOK /\ PassInv /\ ProbeInv /\ [Next]_vars => ProbeInv'
<1> SUFFICES ASSUME TypeOK, PassInv, ProbeInv, [Next]_vars PROVE ProbeInv'
  OBVIOUS
<1>a. run \in Runs \cup {None} /\ probe \in [Runs -> Probes] /\ st \in States
  BY DEF TypeOK
<1> USE DEF PassInv, ProbeInv, Settled, Switching, Locked
<1>1. CASE Begin \/ Announce
  BY <1>1 DEF Begin, Announce, manager
<1>2. CASE ApplyBegins
  BY <1>2 DEF ApplyBegins, Probed
<1>3. CASE ApplyReach \/ ApplyStart
  BY <1>3 DEF ApplyReach, ApplyStart, manager, Probed
<1>4. CASE ApplyRoutes
  <2>1. run = None
    BY <1>4 DEF ApplyRoutes, Probed
  <2>2. CASE ok' /\ lc.udp = "auto"
    <3>1. PICK r \in FreeRuns :
            /\ run' = r
            /\ probe' = [probe EXCEPT ![r] = [pc |-> "probing", ul |-> lc]]
            /\ st' = [st EXCEPT !.udp = None, !.manual = FALSE]
      BY <1>4, <2>2 DEF ApplyRoutes, StartProbe
    <3>2. r \in Runs /\ probe'[r] = [pc |-> "probing", ul |-> lc]
      BY <1>a, <3>1 DEF FreeRuns
    <3>3. st'.socks = st.socks
      BY <1>a, <3>1 DEF States
    <3>4. pc' = "publish" /\ applied' = lc /\ lc' = lc /\ IsSocks(lc) /\ act' = act /\ st.socks
      BY <1>4, <2>2 DEF ApplyRoutes
    <3>5. Probed(applied')
      BY <2>2, <3>4 DEF Probed
    <3>6. probe'[run'] = [pc |-> "probing", ul |-> applied']
      BY <3>1, <3>2, <3>4
    <3> QED BY <3>3, <3>4, <3>5, <3>6
  <2>3. CASE ~(ok' /\ lc.udp = "auto")
    <3>1. run' = None /\ st' = st
      BY <1>4, <2>1, <2>3 DEF ApplyRoutes, StartProbe
    <3> QED BY <1>4, <3>1 DEF ApplyRoutes
  <2> QED BY <2>2, <2>3
<1>5. CASE Publish
  <2>1. st'.socks = st.socks /\ (ok /\ Probed(lc) => st'.udp = st.udp)
    BY <1>5, <1>a DEF Publish, PublishedUdp, States
  <2> QED BY <1>5, <2>1 DEF Publish, manager, Probed
<1>6. CASE Ask \/ WaitEnds \/ WaitGivesUp
  BY <1>6 DEF Ask, WaitEnds, Ended, WaitGivesUp, EndPass, manager
<1>7. CASE WriteBack
  <2>1. st'.socks = st.socks /\ (st.udp # None => st'.udp # None)
    BY <1>7, <1>a DEF WriteBack, States
  <2> QED BY <1>7, <2>1 DEF WriteBack, EndPass, manager
<1>8. ASSUME NEW r \in Runs, ProbePublishes(r) PROVE ProbeInv'
  <2>1. probe'[r].pc = "published" /\ \A q \in Runs : q # r => probe'[q] = probe[q]
    BY <1>8, <1>a DEF ProbePublishes
  <2>2. st'.socks = st.socks
    BY <1>8, <1>a DEF ProbePublishes, States
  <2>3. r # run => st' = st
    BY <1>8 DEF ProbePublishes, Current
  <2>4. r = run /\ st.socks => st'.udp = applied /\ applied # None
    BY <1>8, <1>a, UplinkAssumption DEF ProbePublishes, Current, States, Probed, IsSocks
  <2>5. UNCHANGED <<pc, lc, ok, applied, run, act>>
    BY <1>8 DEF ProbePublishes, loop
  <2>6. CASE r = run
    BY <1>8, <2>1, <2>2, <2>4, <2>5, <2>6 DEF ProbePublishes
  <2>7. CASE r # run
    BY <1>a, <2>1, <2>3, <2>5, <2>7
  <2> QED BY <2>6, <2>7
<1>9. ASSUME NEW r \in Runs, ProbeCloses(r) PROVE ProbeInv'
  <2>1. probe'[r].pc = "free" /\ \A q \in Runs : q # r => probe'[q] = probe[q]
    BY <1>9, <1>a DEF ProbeCloses, NoProbe
  <2> QED BY <1>9, <1>a, <2>1 DEF ProbeCloses, loop
<1>10. CASE ActBegins
  BY <1>10 DEF ActBegins, Probed, IsSocks, loop, manager
<1>11. CASE ActPublishes
  <2>1. st'.socks = st.socks /\ (st.udp # None => st'.udp # None)
    BY <1>11, <1>a DEF ActPublishes, States
  <2> QED BY <1>11, <2>1 DEF ActPublishes, loop, manager
<1>12. CASE Monitor
  <2>1. st'.socks = st.socks /\ st'.udp = st.udp
    BY <1>12, <1>a DEF Monitor, MonReads, MonChecks, MonPublishes, States
  <2> QED BY <1>12, <2>1 DEF Monitor, MonReads, MonChecks, MonPublishes, loop, manager
<1>13. CASE \/ \E u \in Uplinks : PatchConfig(u)
            \/ EngineExits
            \/ \E p \in Flaky : ProxyChanges(p)
            \/ UNCHANGED vars
  BY <1>13 DEF PatchConfig, EngineExits, ProxyChanges, vars, loop, manager
<1> QED
  BY <1>1, <1>2, <1>3, <1>4, <1>5, <1>6, <1>7, <1>8, <1>9, <1>10, <1>11, <1>12, <1>13
  DEF Next, Loop

LEMMA UdpStep ==
  TypeOK /\ PassInv /\ ProbeInv /\ UdpInv /\ OwnUdp /\ [Next]_vars => UdpInv' /\ OwnUdp'
<1> SUFFICES ASSUME TypeOK, PassInv, ProbeInv, UdpInv, OwnUdp, [Next]_vars
             PROVE  UdpInv' /\ OwnUdp'
  OBVIOUS
<1>a. run \in Runs \cup {None} /\ probe \in [Runs -> Probes] /\ st \in States
  BY DEF TypeOK
<1> USE DEF PassInv, UdpInv, OwnUdp, Switching, Locked
<1>1. CASE Begin \/ Announce
  BY <1>1 DEF Begin, Announce
<1>2. CASE ApplyBegins
  BY <1>2 DEF ApplyBegins, Probed
<1>3. CASE ApplyReach \/ ApplyStart
  BY <1>3 DEF ApplyReach, ApplyStart
<1>4. CASE ApplyRoutes
  <2>1. ok' /\ Probed(lc) => st'.udp = None
    BY <1>4, <1>a DEF ApplyRoutes, StartProbe, Probed, States
  <2> QED BY <1>4, <2>1 DEF ApplyRoutes
<1>5. CASE Publish
  <2>1. CASE ok
    <3>1. CASE Probed(lc)
      <4>1. st'.udp = st.udp /\ (st.manual => st'.manual)
        BY <1>5, <2>1, <3>1, <1>a DEF Publish, PublishedUdp, States
      <4> QED BY <1>5, <2>1, <3>1, <4>1 DEF Publish, Recorded
    <3>2. CASE ~Probed(lc)
      <4>1. st'.udp = lc
        BY <1>5, <2>1, <3>2, <1>a DEF Publish, PublishedUdp, States
      <4> QED BY <1>5, <2>1, <4>1 DEF Publish, Recorded
    <3> QED BY <3>1, <3>2
  <2>2. CASE ~ok
    <3>1. st'.udp = None
      BY <1>5, <2>2, <1>a DEF Publish, States
    <3> QED BY <1>5, <2>2, <3>1 DEF Publish
  <2> QED BY <2>1, <2>2
<1>6. CASE Ask \/ WaitEnds \/ WaitGivesUp
  BY <1>6 DEF Ask, WaitEnds, WaitGivesUp, EndPass
<1>7. CASE WriteBack
  <2>1. st'.manual = st.manual /\ st'.udp = IF used = None THEN st.udp ELSE used
    BY <1>7, <1>a DEF WriteBack, States
  <2> QED BY <1>7, <2>1 DEF WriteBack, EndPass
<1>8. ASSUME NEW r \in Runs, ProbePublishes(r) PROVE UdpInv' /\ OwnUdp'
  <2>1. UNCHANGED <<pc, lc, done, ok, used, applied>>
    BY <1>8 DEF ProbePublishes, loop
  <2>2. CASE st' = st
    BY <2>1, <2>2
  <2>3. CASE r = run /\ st.socks
    <3>1. st'.udp = applied /\ applied # None /\ pc # "reply"
      BY <1>8, <1>a, <2>3, UplinkAssumption
      DEF ProbePublishes, Current, ProbeInv, States, Probed, IsSocks
    <3> QED BY <2>1, <3>1
  <2> QED BY <1>8, <2>2, <2>3 DEF ProbePublishes, Current
<1>9. ASSUME NEW r \in Runs, ProbeCloses(r) PROVE UdpInv' /\ OwnUdp'
  BY <1>9 DEF ProbeCloses, loop
<1>10. CASE ActPublishes
  <2>1. st' = st \/ st'.manual
    BY <1>10, <1>a DEF ActPublishes, States
  <2> QED BY <1>10, <2>1 DEF ActPublishes, loop
<1>11. CASE ActBegins \/ Monitor
  <2>1. st'.udp = st.udp /\ st'.manual = st.manual
    BY <1>11, <1>a DEF ActBegins, Monitor, MonReads, MonChecks, MonPublishes, States
  <2> QED BY <1>11, <2>1 DEF ActBegins, Monitor, MonReads, MonChecks, MonPublishes, loop
<1>12. CASE \/ \E u \in Uplinks : PatchConfig(u)
            \/ EngineExits
            \/ \E p \in Flaky : ProxyChanges(p)
            \/ UNCHANGED vars
  BY <1>12 DEF PatchConfig, EngineExits, ProxyChanges, vars, loop
<1> QED
  BY <1>1, <1>2, <1>3, <1>4, <1>5, <1>6, <1>7, <1>8, <1>9, <1>10, <1>11, <1>12
  DEF Next, Loop

-----------------------------------------------------------------------------
LEMMA Inductive == Spec => []IInv
<1>1. IInv /\ [Next]_vars => IInv'
  BY TypeStep, PassStep, EngineStep, ProbeStep, UdpStep DEF IInv
<1> QED BY InitIInv, <1>1, PTL DEF Spec

(* Every variable of the loop, the manager, its goroutines and the container  *)
(* keeps its type.                                                            *)
THEOREM TypeCorrect == Spec => []TypeOK
<1>1. IInv => TypeOK
  BY DEF IInv
<1> QED BY Inductive, <1>1, PTL

(* manager.go:77-165: after any failure of any Apply, engine and routes are   *)
(* those of the uplink the manager has recorded.                              *)
THEOREM EngineFits == Spec => []EngineServesApplied
<1>1. IInv => EngineServesApplied
  BY DEF IInv
<1> QED BY Inductive, <1>1, PTL

(* manager.go:92-94 is not reached: Apply is only called for another uplink.  *)
THEOREM ApplyNeverRepeats == Spec => []ApplyOnlyChanges
<1>1. IInv => ApplyOnlyChanges
  BY DEF IInv, PassInv, ApplyOnlyChanges
<1> QED BY Inductive, <1>1, PTL

(* manager.go:281-283: no probe of a former uplink decides udpSupported, the  *)
(* probe-uplink action apart.                                                 *)
THEOREM ProbeOfItsUplink == Spec => []OwnUdp
<1>1. IInv => OwnUdp
  BY DEF IInv
<1> QED BY Inductive, <1>1, PTL

(* reconciler.go:204-210: a probe faster than Apply keeps its result.         *)
THEOREM FastProbeKept == Spec => []ProbeResultKept
<1>1. IInv => ProbeResultKept
  BY DEF IInv, ProbeInv, Settled, ProbeResultKept
<1> QED BY Inductive, <1>1, PTL

(* manager.go:318-338: a wait that ends with the probe returns its result.    *)
THEOREM WaitIsWorthIt == Spec => WaitSeesResult
<1>1. IInv /\ [Next]_vars => [WaitEnds => used' # None]_vars
  BY DEF IInv, ProbeInv, Settled, Switching, Locked, WaitEnds, Ended
<1> QED BY Inductive, <1>1, PTL DEF Spec, WaitSeesResult

-----------------------------------------------------------------------------
(* The contract.                                                              *)
LEMMA InitKeeps == Init => Promise!Init
  BY DEF Init, Promise!Init, Promise!Direct, Path, Call, Switching, Locked

(* Steps outside a call and inside it that leave the way out as it is.        *)
LEMMA SamePath ==
  ASSUME UNCHANGED <<engine, routes, done, lc>>, Switching' <=> Switching
  PROVE  UNCHANGED Promise!vars
  BY DEF Path, Call, Promise!vars

LEMMA BeginKeeps ==
  ASSUME TypeOK, PassInv, Announce PROVE Promise!Next
<1>1. Call = None /\ Call' = lc /\ lc # None /\ lc # done /\ Path' = Path /\ done' = done
  BY DEF Announce, PassInv, Call, Switching, Locked, Path, container
<1>2. lc \in Uplinks
  BY <1>1 DEF TypeOK, Known
<1> QED BY <1>1, <1>2 DEF Promise!Next, Promise!Begin

LEMMA ApplyKeeps ==
  ASSUME TypeOK, PassInv, StageInv, EngineServesApplied,
         ApplyBegins \/ ApplyReach \/ ApplyStart \/ ApplyRoutes
  PROVE  [Promise!Next]_Promise!vars
<1>1. Switching /\ Switching' /\ lc' = lc /\ done' = done /\ lc # None
  BY DEF ApplyBegins, ApplyReach, ApplyStart, ApplyRoutes, PassInv, Switching, Locked
<1>2. Call = lc /\ Call' = Call /\ Call # None
  BY <1>1 DEF Call
<1>3. CASE ApplyBegins
  <2>1. CASE IsSocks(applied)
    <3>1. Path' = Promise!Direct
      BY <1>3, <2>1 DEF ApplyBegins, Teardown, Path, Promise!Direct
    <3> QED BY <1>1, <1>2, <3>1 DEF Promise!Next, Promise!TearDown
  <2>2. CASE ~IsSocks(applied)
    BY <1>1, <1>3, <2>2, SamePath DEF ApplyBegins, container
  <2> QED BY <2>1, <2>2
<1>4. CASE ApplyReach
  BY <1>1, <1>4, SamePath DEF ApplyReach
<1>5. CASE ApplyStart
  <2>1. engine = None /\ routes = None /\ routes' = None
    BY <1>5 DEF ApplyStart, StageInv, Locked
  <2>2. CASE engine' = lc.proxy
    <3>1. Path = Promise!Direct /\ Path' = Promise!Started(Call)
      BY <1>2, <2>1, <2>2 DEF Path, Promise!Direct, Promise!Started
    <3> QED BY <1>1, <1>2, <3>1 DEF Promise!Next, Promise!Start
  <2>3. CASE engine' = engine
    BY <1>1, <2>1, <2>3, SamePath
  <2> QED BY <1>5, <2>2, <2>3 DEF ApplyStart
<1>6. CASE ApplyRoutes
  <2>1. engine = lc.proxy /\ routes = None
    BY <1>6 DEF ApplyRoutes, StageInv, Locked
  <2>2. CASE routes' = lc.proxy /\ engine' = engine
    <3>1. Path = Promise!Started(Call) /\ Path' = Promise!Through(Call)
      BY <1>2, <2>1, <2>2 DEF Path, Promise!Started, Promise!Through
    <3> QED BY <1>1, <1>2, <3>1 DEF Promise!Next, Promise!Route
  <2>3. CASE RoutesFailed
    <3>1. Path' = Promise!Direct
      BY <2>3 DEF RoutesFailed, Teardown, Path, Promise!Direct
    <3> QED BY <1>1, <1>2, <3>1 DEF Promise!Next, Promise!TearDown
  <2> QED BY <1>6, <2>2, <2>3 DEF ApplyRoutes
<1> QED BY <1>3, <1>4, <1>5, <1>6

(* A call ends with the way out it was for, or with none.                     *)
LEMMA PublishKeeps ==
  ASSUME TypeOK, PassInv, StageInv, EngineServesApplied, Publish
  PROVE  Promise!Next
<1>1. Call = lc /\ lc # None /\ Call' = None /\ Path' = Path /\ ~Locked
  BY DEF Publish, PassInv, Call, Switching, Locked, Path, container
<1>2. lc \in Uplinks /\ lc.proxy \in Proxies \cup {None}
  BY <1>1, UplinkAssumption DEF TypeOK, Known
<1>3. CASE ok
  <2>1. applied = lc /\ done' = lc
    BY <1>3 DEF Publish, PassInv, Recorded
  <2>2. engine = lc.proxy /\ routes = lc.proxy
    BY <1>1, <2>1 DEF EngineServesApplied, IsSocks
  <2>3. Path = Promise!Through(Call)
    BY <1>1, <2>2 DEF Path, Promise!Through
  <2> QED BY <1>1, <2>1, <2>3 DEF Promise!Next, Promise!Succeed
<1>4. CASE ~ok
  <2>1. ~IsSocks(applied) /\ done' = done
    BY <1>4 DEF Publish, PassInv
  <2>2. Path = Promise!Direct
    BY <1>1, <2>1 DEF EngineServesApplied, Path, Promise!Direct
  <2>3. lc.proxy # None
    BY <1>4 DEF Publish, PassInv, IsSocks
  <2> QED BY <1>1, <2>1, <2>2, <2>3 DEF Promise!Next, Promise!Fail
<1> QED BY <1>3, <1>4

LEMMA StepKeeps ==
  ASSUME TypeOK, PassInv, StageInv, EngineServesApplied, [Next]_vars
  PROVE  [Promise!Next]_Promise!vars
<1>1. CASE Begin
  BY <1>1, SamePath DEF Begin, Path, Call, Switching, Locked, container, Promise!vars
<1>2. CASE Announce
  BY <1>2, BeginKeeps
<1>3. CASE ApplyBegins \/ ApplyReach \/ ApplyStart \/ ApplyRoutes
  BY <1>3, ApplyKeeps
<1>4. CASE Publish
  BY <1>4, PublishKeeps
<1>5. CASE Ask \/ WaitEnds \/ WriteBack \/ WaitGivesUp
  <2>1. ~Switching /\ ~Switching' /\ UNCHANGED <<engine, routes, done>>
    BY <1>5 DEF Ask, WaitEnds, WriteBack, WaitGivesUp, EndPass, Switching, Locked, container
  <2> QED BY <2>1 DEF Path, Call, Promise!vars
<1>6. CASE UNCHANGED <<pc, lc, done, ok, used, applied, run, engine, routes, direct, resolv>>
  BY <1>6, SamePath DEF Switching, Locked
<1> QED
  BY <1>1, <1>2, <1>3, <1>4, <1>5, <1>6, OthersKeepApply DEF Next, Loop

(* manager.go:77-165 implements UplinkContract for any uplinks and faults:    *)
(* each stage of Apply is a step of the contract or leaves it where it is,    *)
(* and the probes, the monitor and the actions never touch the way out.       *)
THEOREM KeepsContract == Spec => ApplyContract
<1>1. IInv => TypeOK /\ PassInv /\ StageInv /\ EngineServesApplied
  BY DEF IInv
<1>2. IInv /\ [Next]_vars => [Promise!Next]_Promise!vars
  BY <1>1, StepKeeps
<1> QED BY Inductive, InitKeeps, <1>2, PTL DEF Spec, ApplyContract, Promise!Spec
=============================================================================
