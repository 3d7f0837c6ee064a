--------------------------- MODULE UplinkManager ---------------------------
(***************************************************************************)
(* internal/uplink/manager.go and the loop's use of it: Apply in its       *)
(* stages under m.mu, the UDP probes it starts, the manual probe, WaitUDP  *)
(* and the health monitor, each goroutine with steps of its own.           *)
(*                                                                         *)
(* Apply holds m.mu from its first step to its last; the others take it    *)
(* for one step each, and probe, check and publish without it.  A known    *)
(* udpSupported is abstracted to the uplink it was measured on, or set     *)
(* for: what can go wrong is that it is another one's.                     *)
(***************************************************************************)
EXTENDS Naturals

CONSTANTS Proxies,
          Flaky,     \* bound: the proxies that come and go, the others answer
          None,      \* no proxy, no uplink, unknown
          Uplinks,   \* config.Uplink values: [proxy, udp]; host mode has no proxy
          Runs,      \* probe goroutines; bound: that many at a time
          MaxFaults  \* bound: failures of commands and of the engine

Host == [proxy |-> None, udp |-> "auto"]

ASSUME UplinkAssumption ==
  /\ None \notin Proxies \cup Uplinks \cup Runs
  /\ Uplinks \subseteq [proxy : Proxies \cup {None}, udp : {"auto", "on", "off"}]
  /\ Host \in Uplinks
  /\ Flaky \subseteq Proxies
  /\ MaxFaults \in Nat

VARIABLES
  cfg,      \* the configured uplink
  st,       \* state.Uplink: [socks: Mode is socks5, status, udp: None or the
            \* uplink the value is of, manual: history, written by probe-uplink]
  \* the loop
  pc, lc,   \* where its pass is, the uplink it read (None between passes)
  done,     \* appliedUplink
  ok,       \* Apply returned no error
  used,     \* the value WaitUDP returned
  \* Manager
  applied,  \* m.applied
  run,      \* m.probeRun
  probe,    \* each probe goroutine: [pc, ul]
  \* the container
  engine,   \* sing-box: None, or the proxy it was started for (m.proc)
  alive,    \* it has not exited
  routes,   \* default route: None for eth0, else the proxy behind xup0
  direct,   \* proxies with a route of their own through eth0
  resolv,   \* /etc/resolv.conf is redirected
  reach,    \* proxies that answer
  \* others
  act,      \* probe-uplink: [pc, ul]
  mon,      \* Monitor: [pc, ul, status]
  faults    \* failures left

loop == <<pc, lc, done, ok, used>>
manager == <<applied, run, probe>>
container == <<engine, alive, routes, direct, resolv>>
vars == <<cfg, st, loop, manager, container, reach, act, mon, faults>>

IsSocks(u) == u # None /\ u.proxy # None
NoProbe == [pc |-> "free", ul |-> None]

Init ==
  /\ cfg \in Uplinks
  /\ st = [socks |-> FALSE, status |-> "unknown", udp |-> None, manual |-> FALSE]
  /\ pc = "idle" /\ lc = None /\ done = None /\ ok = FALSE /\ used = None
  /\ applied = None /\ run = None /\ probe = [r \in Runs |-> NoProbe]
  /\ engine = None /\ alive = FALSE /\ routes = None /\ direct = {} /\ resolv = FALSE
  /\ reach \in {Proxies \ lost : lost \in SUBSET Flaky}
  /\ act = [pc |-> "idle", ul |-> None]
  /\ mon = [pc |-> "idle", ul |-> None, status |-> "unknown"]
  /\ faults = MaxFaults

Fault == faults > 0 /\ faults' = faults - 1
NoFault == UNCHANGED faults

(* m.mu is held by Apply. *)
Locked == pc \in {"reach", "start", "routes"}

-----------------------------------------------------------------------------
(* The loop: a pass that finds another uplink applies it; one that connects  *)
(* chooses the protocol.                                                     *)
Begin ==
  /\ pc = "idle"
  /\ lc' = cfg
  /\ pc' = IF done = cfg THEN "ask" ELSE "announce"
  /\ UNCHANGED <<cfg, st, done, ok, used, manager, container, reach, act, mon, faults>>

Announce ==
  /\ pc = "announce"
  /\ st' = [socks |-> IsSocks(lc), status |-> "unknown", udp |-> None, manual |-> FALSE]
  /\ pc' = "apply"
  /\ UNCHANGED <<cfg, lc, done, ok, used, manager, container, reach, act, mon, faults>>

(* teardownLocked: sing-box is stopped, resolv.conf, the default route and   *)
(* the route to the proxy are put back.  Its commands only log their         *)
(* failures and are taken to succeed.                                        *)
Teardown(proxy) ==
  /\ engine' = None /\ alive' = FALSE
  /\ routes' = None
  /\ direct' = direct \ {proxy}
  /\ resolv' = FALSE

(* Apply's first step: the old engine goes before the new one is tried. *)
ApplyBegins ==
  /\ pc = "apply"
  /\ run' = IF IsSocks(applied) \/ ~IsSocks(lc) THEN None ELSE run
  /\ IF IsSocks(applied) THEN Teardown(applied.proxy) ELSE UNCHANGED container
  /\ applied' = IF ~IsSocks(lc) THEN lc ELSE IF IsSocks(applied) THEN None ELSE applied
  /\ ok' = ~IsSocks(lc)
  /\ pc' = IF IsSocks(lc) THEN "reach" ELSE "publish"
  /\ UNCHANGED <<cfg, st, lc, done, used, probe, reach, act, mon, faults>>

(* The proxy is resolved and gets its route, then has to answer. *)
ApplyReach ==
  /\ pc = "reach"
  /\ \/ /\ direct' = direct \cup {lc.proxy}
        /\ pc' = IF lc.proxy \in reach THEN "start" ELSE "publish"
        /\ NoFault
     \/ /\ Fault
        /\ pc' = "publish"
        /\ UNCHANGED direct
  /\ UNCHANGED <<cfg, st, lc, done, ok, used, manager, engine, alive, routes, resolv,
                 reach, act, mon>>

(* startLocked *)
ApplyStart ==
  /\ pc = "start"
  /\ \/ /\ engine' = lc.proxy /\ alive' = TRUE
        /\ pc' = "routes"
        /\ NoFault
     \/ /\ Fault
        /\ pc' = "publish"
        /\ UNCHANGED <<engine, alive>>
  /\ UNCHANGED <<cfg, st, lc, done, ok, used, manager, routes, direct, resolv, reach, act, mon>>

(* Never started, or ended and known to nobody. *)
FreeRuns == {r \in Runs : probe[r].pc = "free" /\ r # run}

StartProbe ==
  IF lc.udp = "auto"
  THEN \E r \in FreeRuns :
         /\ run' = r
         /\ probe' = [probe EXCEPT ![r] = [pc |-> "probing", ul |-> lc]]
         /\ st' = [st EXCEPT !.udp = None, !.manual = FALSE]
  ELSE UNCHANGED <<run, probe, st>>

(* Mutant: a failure of the routes leaves the engine running. *)
RoutesFailedKeepEngine == UNCHANGED <<engine, alive, routes, direct, resolv>>

RoutesFailed == Teardown(lc.proxy)

(* applyRoutes, redirectResolvConf (a failure is only logged), the probe. *)
ApplyRoutes ==
  /\ pc = "routes"
  /\ \/ /\ routes' = lc.proxy
        /\ \/ resolv' = TRUE /\ NoFault
           \/ resolv' = FALSE /\ Fault
        /\ applied' = lc
        /\ ok' = TRUE
        /\ StartProbe
        /\ UNCHANGED <<engine, alive, direct>>
     \/ /\ Fault
        /\ RoutesFailed
        /\ applied' = None /\ run' = None
        /\ UNCHANGED <<probe, st, ok>>
  /\ pc' = "publish"
  /\ UNCHANGED <<cfg, lc, done, used, reach, act, mon>>

Probed(u) == IsSocks(u) /\ u.udp = "auto"

(* Mutant: Apply's unknown overwrites a probe that was faster. *)
PublishedUdpOverwrites == IF Probed(lc) THEN None ELSE lc

(* Mutant: what is recorded is the configuration of now. *)
RecordedNow == cfg

(* What is published and recorded after a successful Apply. *)
PublishedUdp == IF Probed(lc) THEN st.udp ELSE lc
Recorded == lc

Publish ==
  /\ pc = "publish"
  /\ IF ok
     THEN /\ done' = Recorded
          /\ st' = [st EXCEPT !.status = "up", !.udp = PublishedUdp,
                              !.manual = Probed(lc) /\ @]
          /\ pc' = "ask" /\ UNCHANGED lc
     ELSE /\ st' = [st EXCEPT !.status = "down", !.udp = None, !.manual = FALSE]
          /\ pc' = "idle" /\ lc' = None
          /\ UNCHANGED done
  /\ ok' = FALSE
  /\ UNCHANGED <<cfg, used, manager, container, reach, act, mon, faults>>

EndPass == pc' = "idle" /\ lc' = None

(* If the pass goes on to connect (module Reconciler), a probe whose result is *)
(* still unknown is waited for.                                                *)
Ask ==
  /\ pc = "ask"
  /\ \/ EndPass
     \/ Probed(lc) /\ st.udp = None /\ pc' = "wait" /\ UNCHANGED lc
  /\ UNCHANGED <<cfg, st, done, ok, used, manager, container, reach, act, mon, faults>>

(* Mutant: a probe reports its end before its result. *)
EndedEarly(r) == r \in Runs

Ended(r) == probe[r].pc = "free"

(* WaitUDP ended by the probe; the value it returns is written back. *)
WaitEnds ==
  /\ pc = "wait"
  /\ applied # None /\ run # None
  /\ Ended(run)
  /\ used' = st.udp
  /\ pc' = "reply"
  /\ UNCHANGED <<cfg, st, lc, done, ok, manager, container, reach, act, mon, faults>>

WriteBack ==
  /\ pc = "reply"
  /\ st' = IF used = None THEN st ELSE [st EXCEPT !.udp = used]
  /\ used' = None
  /\ EndPass
  /\ UNCHANGED <<cfg, done, ok, manager, container, reach, act, mon, faults>>

(* The limit of the wait, or an uplink that is not applied. *)
WaitGivesUp ==
  /\ pc = "wait"
  /\ EndPass
  /\ UNCHANGED <<cfg, st, done, ok, used, manager, container, reach, act, mon, faults>>

-----------------------------------------------------------------------------
(* Mutant: a probe does not ask whether it is still the current one. *)
CurrentAlways(r) == r \in Runs

(* probeAndPublish: the result is published under the lock, if no Apply has  *)
(* replaced the probe; then its end is reported.                             *)
Current(r) == run = r

ProbePublishes(r) ==
  /\ probe[r].pc = "probing"
  /\ ~Locked
  /\ st' = IF Current(r) /\ st.socks THEN [st EXCEPT !.udp = probe[r].ul, !.manual = FALSE]
                                    ELSE st
  /\ probe' = [probe EXCEPT ![r] = [pc |-> "published", ul |-> None]]
  /\ UNCHANGED <<cfg, loop, applied, run, container, reach, act, mon, faults>>

ProbeCloses(r) ==
  /\ probe[r].pc = "published"
  /\ probe' = [probe EXCEPT ![r] = NoProbe]
  /\ UNCHANGED <<cfg, st, loop, applied, run, container, reach, act, mon, faults>>

(* ProbeAction: the uplink is read under the lock, the result written without. *)
ActBegins ==
  /\ act.pc = "idle"
  /\ ~Locked
  /\ Probed(applied)
  /\ act' = [pc |-> "probing", ul |-> applied]
  /\ UNCHANGED <<cfg, st, loop, manager, container, reach, mon, faults>>

ActPublishes ==
  /\ act.pc = "probing"
  /\ st' = IF st.socks THEN [st EXCEPT !.udp = act.ul, !.manual = TRUE] ELSE st
  /\ act' = [pc |-> "idle", ul |-> None]
  /\ UNCHANGED <<cfg, loop, manager, container, reach, mon, faults>>

-----------------------------------------------------------------------------
(* Monitor: it copies the uplink, checks, compares and publishes. *)
MonReads ==
  /\ mon.pc = "idle"
  /\ ~Locked
  /\ IsSocks(applied)
  /\ mon' = [mon EXCEPT !.pc = "check", !.ul = applied]
  /\ UNCHANGED <<cfg, st, loop, manager, container, reach, act, faults>>

(* Mutants: the engine is not checked; a status nobody knows. *)
HealthNoEngine(u) == IF u.proxy \in reach THEN "up" ELSE "down"
HealthUnnamed(u) == IF alive THEN IF u.proxy \in reach THEN "up" ELSE "down"
                    ELSE "engine_not_running"

Health(u) == IF alive THEN IF u.proxy \in reach THEN "up" ELSE "down"
             ELSE "degraded"

MonChecks ==
  /\ mon.pc = "check"
  /\ mon' = [pc |-> "publish", ul |-> None, status |-> Health(mon.ul)]
  /\ UNCHANGED <<cfg, st, loop, manager, container, reach, act, faults>>

(* Its onRecovered is UplinkRecovered in module Reconciler. *)
MonPublishes ==
  /\ mon.pc = "publish"
  /\ st' = [st EXCEPT !.status = mon.status]
  /\ mon' = [pc |-> "idle", ul |-> None, status |-> "unknown"]
  /\ UNCHANGED <<cfg, loop, manager, container, reach, act, faults>>

-----------------------------------------------------------------------------
PatchConfig(u) ==
  /\ cfg' = u
  /\ u # cfg
  /\ UNCHANGED <<st, loop, manager, container, reach, act, mon, faults>>

EngineExits ==
  /\ alive
  /\ Fault
  /\ alive' = FALSE
  /\ UNCHANGED <<cfg, st, loop, manager, engine, routes, direct, resolv, reach, act, mon>>

ProxyChanges(p) ==
  /\ reach' = IF p \in reach THEN reach \ {p} ELSE reach \cup {p}
  /\ UNCHANGED <<cfg, st, loop, manager, container, act, mon, faults>>

Loop ==
  \/ Begin \/ Announce \/ ApplyBegins \/ ApplyReach \/ ApplyStart \/ ApplyRoutes
  \/ Publish \/ Ask \/ WaitEnds \/ WriteBack \/ WaitGivesUp
Monitor == MonReads \/ MonChecks \/ MonPublishes

Next ==
  \/ Loop
  \/ \E r \in Runs : ProbePublishes(r) \/ ProbeCloses(r)
  \/ ActBegins \/ ActPublishes
  \/ Monitor
  \/ \E u \in Uplinks : PatchConfig(u)
  \/ EngineExits
  \/ \E p \in Flaky : ProxyChanges(p)

Spec == Init /\ [][Next]_vars

(* The loop and the monitor have their ticks; commands and probes have limits. *)
FairSpec == Spec /\ WF_vars(Loop) /\ WF_vars(Monitor)

-----------------------------------------------------------------------------
Statuses == {"unknown", "up", "down", "degraded"}
Known == Uplinks \cup {None}
States == [socks : BOOLEAN, status : Statuses, udp : Known, manual : BOOLEAN]
Passes == {"idle", "announce", "apply", "reach", "start", "routes", "publish",
           "ask", "wait", "reply"}
Probes == [pc : {"free", "probing", "published"}, ul : Known]
Acts == [pc : {"idle", "probing"}, ul : Known]
Monitors == [pc : {"idle", "check", "publish"}, ul : Known, status : Statuses]

TypeOK ==
  /\ cfg \in Uplinks /\ st \in States
  /\ pc \in Passes /\ lc \in Known /\ done \in Known /\ ok \in BOOLEAN /\ used \in Known
  /\ applied \in Known /\ run \in Runs \cup {None} /\ probe \in [Runs -> Probes]
  /\ engine \in Proxies \cup {None} /\ alive \in BOOLEAN
  /\ routes \in Proxies \cup {None} /\ direct \subseteq Proxies /\ resolv \in BOOLEAN
  /\ reach \subseteq Proxies
  /\ act \in Acts /\ mon \in Monitors
  /\ faults \in 0..MaxFaults

(* Between two uplinks: the state is being rewritten. *)
Switching == pc \in {"apply", "publish"} \/ Locked

(* Whatever step of whatever Apply failed: with a socks5 uplink applied, its    *)
(* engine, its default route and its proxy's own route are in place; otherwise  *)
(* nothing of an engine is left.                                                *)
EngineServesApplied ==
  ~Locked =>
    IF IsSocks(applied)
    THEN engine = applied.proxy /\ routes = applied.proxy /\ applied.proxy \in direct
    ELSE engine = None /\ routes = None /\ ~resolv

(* Apply keeps the contract of UplinkContract: whatever step fails, a call      *)
(* leaves the whole way out it was for or none, the loop records only what      *)
(* succeeded, and nobody else changes the way out (manager.go:77-165,           *)
(* reconciler.go:174-211).                                                      *)
Path == [engine |-> engine, route |-> routes]
Call == IF Switching THEN lc ELSE None

Promise == INSTANCE UplinkContract WITH path <- Path, call <- Call

ApplyContract == Promise!Spec

(* Apply's branch for an uplink that is already applied is never needed: the    *)
(* loop's appliedUplink and the manager's never disagree in that direction.     *)
ApplyOnlyChanges == pc = "apply" => applied # lc

(* manager.go:281-283: a probe that outlives its uplink does not write over the *)
(* next one's result, unless it is the probe of the probe-uplink action.        *)
OwnUdp == ~Switching /\ st.udp # None /\ ~st.manual => st.udp = done

(* reconciler.go:204-205: the result of a probe is not overwritten by the state *)
(* that its own Apply returns later.                                            *)
ProbeResultKept ==
  ~Switching /\ run # None /\ probe[run].pc # "probing" => st.udp # None

(* WaitUDP: a wait that the probe ends sees the result of the probe.            *)
WaitSeesResult == [][WaitEnds => used' # None]_vars

(* A dead proxy or engine is not reported up for ever, whatever the monitor was *)
(* doing when it died.                                                          *)
FalselyUp ==
  /\ IsSocks(applied)
  /\ ~alive \/ applied.proxy \notin reach
  /\ st.status = "up"
LossIsReported == FalselyUp ~> ~FalselyUp
=============================================================================
