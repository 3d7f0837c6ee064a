----------------------------- MODULE Reconciler -----------------------------
(***************************************************************************)
(* The agent's control loop and everything that races with it:             *)
(*   internal/reconciler/reconciler.go  the single-threaded loop           *)
(*   internal/reconciler/actions.go     connect / disconnect / reconnect   *)
(*   internal/xvpn/manager.go           Supervise, and the driver calls    *)
(*   internal/uplink/manager.go         Apply and Monitor, as one result   *)
(*   cmd/detour-agent/main.go           the callback on a daemon crash     *)
(*                                                                         *)
(* A pass of the loop is one action per blocking call or state Update, so  *)
(* that user actions, the supervisor, the daemon and timers interleave     *)
(* with it as goroutines do.  connSpec (location and protocol) is one      *)
(* value, a location; the choice of protocol is not modelled here.         *)
(***************************************************************************)
EXTENDS Integers

CONSTANTS Uplinks,     \* config.Uplink values
          Host,        \* the one with mode=host; the others are socks5
          Locations,   \* config.ExpressVPN values
          None,        \* a nil pointer, an absent argument
          MaxReconnectFailures,
          MaxFaults    \* bound: failures of drivers and of the daemon

ASSUME ReconcilerAssumption ==
  /\ Host \in Uplinks
  /\ None \notin Uplinks \cup Locations
  /\ MaxReconnectFailures \in Nat \ {0}
  /\ MaxFaults \in Nat

Connection == {"disconnected", "connecting", "connected", "reconnecting", "error"}

VARIABLES
  cfg,     \* config.Store: [ul, loc]
  st,      \* state.Store: [conn, want: desired, err: is LastError
           \* reconnect_exhausted, ul: Uplink.Status, ks: Killswitch.Active]
  \* the loop
  pc,      \* where the pass is
  lc,      \* its copy c of the config
  wanted,  \* desired in its snapshot s; "unread" when nothing will read it
  done,    \* applied*: [ks, ul, evpn, loc]
  gaveUp,  \* n >= maxReconnectFailures, inside onConnectFailure
  retry,   \* [n: connectFailures, due: now is after nextRetryAt, timer: AfterFunc pending]
  force,   \* forceReason # ""
  wake,    \* the token in the wake channel
  \* what the drivers drive
  rules,   \* uplink the kill-switch rules in the kernel are for
  uplink,  \* uplink engine and routes in place
  dm,      \* the daemon: [conn, loc of its session]
  \* others
  sup,     \* superviseOnce
  op,      \* the operation on the "connection" resource: [pc, kind, loc,
           \* served: history, the daemon did what it asked for,
           \* misled: history, it began as a disconnect of what was reported
           \* disconnected and was not]
  faults   \* failures left

loop == <<pc, lc, wanted, done, gaveUp>>
env == <<rules, uplink>>
vars == <<cfg, st, pc, lc, wanted, done, gaveUp, retry, force, wake,
          rules, uplink, dm, sup, op, faults>>

NoSession(conn) == [conn |-> conn, loc |-> None]
NoOp == [pc |-> "idle", kind |-> "none", loc |-> None, served |-> FALSE, misled |-> FALSE]

Init ==
  /\ cfg \in [ul : Uplinks, loc : Locations]
  /\ st = [conn |-> "disconnected", want |-> "disconnected", err |-> "other",
           ul |-> "unknown", ks |-> FALSE]
  /\ pc = "idle"
  /\ lc = cfg
  /\ wanted = "unread"
  /\ done = [ks |-> None, ul |-> None, evpn |-> None, loc |-> None]
  /\ gaveUp = FALSE
  /\ retry = [n |-> 0, due |-> TRUE, timer |-> FALSE]
  /\ force = FALSE
  /\ wake = TRUE  \* Run reconciles once before it waits
  /\ rules = None
  /\ uplink = None
  /\ dm = NoSession("disconnected")
  /\ sup = "idle"
  /\ op = NoOp
  /\ faults = MaxFaults

Fault == faults > 0 /\ faults' = faults - 1
NoFault == UNCHANGED faults

(* A driver call fails by a fault, or because it cannot do otherwise. *)
CallFails(possible) == (possible /\ Fault) \/ (~possible /\ NoFault)

(* The daemon answers its CLI. *)
CliUp == dm.conn \notin {"crashed", "down"}
Gone == {"disconnected", "crashed", "down"}

(* What the running operation asked for: a disconnected daemon, a session   *)
(* to its location.                                                         *)
Serves(d) ==
  \/ op.kind = "disconnect" /\ d.conn \in Gone
  \/ op.kind = "connect" /\ d.conn = "connected" /\ op.loc \in {None, d.loc}

(* Every change of the daemon's session is remembered for that operation.   *)
SetDaemon(d) ==
  /\ dm' = d
  /\ op' = [op EXCEPT !.served = @ \/ Serves(d)]

ResetRetries ==
  /\ retry' = [retry EXCEPT !.n = 0, !.due = TRUE]
  /\ wake' = TRUE

-----------------------------------------------------------------------------
(* The loop. *)

(* Mutant: no periodic tick. *)
WokenNoTick == wake

(* Run's select: the wake channel or the 30 s tick, which may always come.  *)
Woken == TRUE

(* The token is taken before the config is read. *)
BeginPass ==
  /\ pc = "idle"
  /\ Woken
  /\ lc' = cfg
  /\ wake' = FALSE
  /\ pc' = "snapshot"
  /\ UNCHANGED <<cfg, st, wanted, done, gaveUp, retry, force, env, dm, sup, op, faults>>

(* Mutant: the rules are set once, not for every uplink. *)
KillswitchDueOnce == done.ks = None

KillswitchDue == done.ks # lc.ul
AfterUplink == IF done.evpn = lc.loc THEN "decide" ELSE "settings"
AfterKillswitch == IF done.ul = lc.ul THEN AfterUplink ELSE "announce"

Snapshot ==
  /\ pc = "snapshot"
  /\ wanted' = IF done.ul = lc.ul THEN "unread" ELSE st.want
  /\ pc' = IF KillswitchDue THEN "killswitch" ELSE AfterKillswitch
  /\ UNCHANGED <<cfg, st, lc, done, gaveUp, retry, force, wake, env, dm, sup, op, faults>>

ApplyKillswitch ==
  /\ pc = "killswitch"
  /\ \/ /\ rules' = lc.ul
        /\ done' = [done EXCEPT !.ks = lc.ul]
        /\ st' = [st EXCEPT !.ks = TRUE]
        /\ pc' = AfterKillswitch
        /\ NoFault
     \/ /\ Fault
        /\ st' = [st EXCEPT !.ks = FALSE, !.err = "other"]
        /\ pc' = "idle"
        /\ UNCHANGED <<rules, done>>
  /\ wanted' = IF pc' = "idle" THEN "unread" ELSE wanted
  /\ UNCHANGED <<cfg, lc, gaveUp, retry, force, wake, uplink, dm, sup, op>>

(* Mutant: the uplink's status is written to the connection as well. *)
ConnWhileApplyingUnknown == IF st.want = "connected" /\ st.conn = "connected"
                            THEN "unknown" ELSE st.conn

(* The connection that a rebuild is about to cut is not reported any more. *)
ConnWhileApplying == IF st.want = "connected" /\ st.conn = "connected"
                     THEN "reconnecting" ELSE st.conn

AnnounceUplink ==
  /\ pc = "announce"
  /\ st' = [st EXCEPT !.ul = "unknown", !.conn = ConnWhileApplying]
  /\ force' = (force \/ (wanted = "connected" /\ done.ul # None))
  /\ wanted' = "unread"
  /\ pc' = "apply"
  /\ UNCHANGED <<cfg, lc, done, gaveUp, retry, wake, env, dm, sup, op, faults>>

(* uplink.Manager.Apply: a socks5 engine that runs is torn down before the  *)
(* new one is tried.                                                        *)
ApplyUplink ==
  /\ pc = "apply"
  /\ \/ /\ uplink' = lc.ul
        /\ done' = [done EXCEPT !.ul = lc.ul]
        /\ st' = [st EXCEPT !.ul = "up"]
        /\ pc' = AfterUplink
        /\ NoFault
     \/ /\ lc.ul \notin {Host, uplink}
        /\ Fault
        /\ uplink' = IF uplink = Host THEN Host ELSE None
        /\ st' = [st EXCEPT !.ul = "down", !.err = "other"]
        /\ pc' = "idle"
        /\ UNCHANGED done
  /\ UNCHANGED <<cfg, lc, wanted, gaveUp, retry, force, wake, rules, dm, sup, op>>

(* A failure is recorded and the pass goes on. *)
ApplySettings ==
  /\ pc = "settings"
  /\ \/ /\ CliUp /\ NoFault
        /\ done' = [done EXCEPT !.evpn = lc.loc]
        /\ UNCHANGED st
     \/ /\ CallFails(CliUp)
        /\ st' = [st EXCEPT !.err = "other"]
        /\ UNCHANGED done
  /\ pc' = "decide"
  /\ UNCHANGED <<cfg, lc, wanted, gaveUp, retry, force, wake, env, dm, sup, op>>

(* Mutants: an error is left to the user; the location is not compared. *)
NeedsConnectNoError ==
  \/ force
  \/ st.conn \in {"disconnected", "reconnecting"}
  \/ st.conn = "connected" /\ done.loc \notin {None, lc.loc}
NeedsConnectNoLocation == force \/ st.conn \in {"disconnected", "reconnecting", "error"}

NeedsConnect ==
  \/ force
  \/ st.conn \in {"disconnected", "reconnecting", "error"}
  \/ st.conn = "connected" /\ done.loc \notin {None, lc.loc}

MayConnect == force \/ (retry.n < MaxReconnectFailures /\ retry.due)

DecideConnect ==
  /\ pc = "decide"
  /\ st.want = "connected"
  /\ force' = FALSE
  /\ pc' = IF NeedsConnect /\ MayConnect THEN "mark" ELSE "idle"
  /\ UNCHANGED <<cfg, st, lc, wanted, done, gaveUp, retry, wake, env, dm, sup, op, faults>>

DecideDisconnect ==
  /\ pc = "decide"
  /\ st.want = "disconnected"
  /\ pc' = IF st.conn \in {"connected", "connecting", "reconnecting"}
           THEN "disconnect" ELSE "idle"
  /\ UNCHANGED <<cfg, st, lc, wanted, done, gaveUp, retry, force, wake, env, dm, sup, op, faults>>

(* The state says reconnecting or connecting before the driver is called, so *)
(* that its own disconnect is not taken for a drop.                          *)
ConnWhileConnecting == IF st.conn \in {"connected", "reconnecting"}
                       THEN "reconnecting" ELSE "connecting"

MarkConnecting ==
  /\ pc = "mark"
  /\ st' = [st EXCEPT !.conn = ConnWhileConnecting]
  /\ pc' = "ensureDisconnected"
  /\ UNCHANGED <<cfg, lc, wanted, done, gaveUp, retry, force, wake, env, dm, sup, op, faults>>

(* xvpn.Manager.Connect, one attempt: the daemon is brought to Disconnected, *)
(* then told to connect, then watched until it is Connected.                 *)
EnsureDisconnected ==
  /\ pc = "ensureDisconnected"
  /\ \/ /\ CliUp /\ NoFault
        /\ SetDaemon(NoSession("disconnected"))
        /\ pc' = "dial"
     \/ /\ CallFails(CliUp)
        /\ pc' = "failed"
        /\ UNCHANGED <<dm, op>>
  /\ UNCHANGED <<cfg, st, lc, wanted, done, gaveUp, retry, force, wake, env, sup>>

(* The daemon's packets get out: there is an uplink and the kill switch is  *)
(* set for it.                                                              *)
CanReachOut == uplink # None /\ rules = uplink

Dial ==
  /\ pc = "dial"
  /\ \/ /\ CliUp /\ CanReachOut /\ NoFault
        /\ SetDaemon([conn |-> "connected", loc |-> lc.loc])
        /\ pc' = "publish"
     \/ /\ CallFails(CliUp /\ CanReachOut)
        /\ \/ UNCHANGED dm
           \/ CliUp /\ dm' = [conn |-> "broken", loc |-> lc.loc]
        /\ pc' = "failed"
        /\ UNCHANGED op
  /\ UNCHANGED <<cfg, st, lc, wanted, done, gaveUp, retry, force, wake, env, sup>>

PublishConnected ==
  /\ pc = "publish"
  /\ retry' = [retry EXCEPT !.n = 0, !.due = TRUE]
  /\ done' = [done EXCEPT !.loc = lc.loc]
  /\ st' = [st EXCEPT !.conn = "connected", !.err = "other"]
  /\ pc' = "idle"
  /\ UNCHANGED <<cfg, lc, wanted, gaveUp, force, wake, env, dm, sup, op, faults>>

(* onConnectFailure: the count, then a disconnect whose error is ignored,   *)
(* then the published error and the timer of the next try.                  *)
CountFailure ==
  /\ pc = "failed"
  /\ LET n == retry.n + 1 IN
     IF n < MaxReconnectFailures
     THEN /\ retry' = [retry EXCEPT !.n = n, !.due = FALSE]
          /\ gaveUp' = FALSE
     ELSE /\ retry' = [retry EXCEPT !.n = MaxReconnectFailures]
          /\ gaveUp' = TRUE
  /\ pc' = "stop"
  /\ UNCHANGED <<cfg, st, lc, wanted, done, force, wake, env, dm, sup, op, faults>>

StopDaemon ==
  /\ pc = "stop"
  /\ \/ /\ CliUp /\ NoFault
        /\ SetDaemon(NoSession("disconnected"))
     \/ /\ CallFails(CliUp)
        /\ UNCHANGED <<dm, op>>
  /\ pc' = "report"
  /\ UNCHANGED <<cfg, st, lc, wanted, done, gaveUp, retry, force, wake, env, sup>>

(* Mutant: the timer is forgotten. *)
TimerAfterFailureNone == retry.timer

TimerAfterFailure == retry.timer \/ ~gaveUp

ReportFailure ==
  /\ pc = "report"
  /\ st' = [st EXCEPT !.conn = "error", !.err = IF gaveUp THEN "exhausted" ELSE "other"]
  /\ retry' = [retry EXCEPT !.timer = TimerAfterFailure]
  /\ gaveUp' = FALSE
  /\ pc' = "idle"
  /\ UNCHANGED <<cfg, lc, wanted, done, force, wake, env, dm, sup, op, faults>>

(* Mutant: the published state does not depend on the driver's result. *)
AfterFailedDisconnectPublish == "publishDisconnected"

AfterFailedDisconnect == "idle"

Disconnect ==
  /\ pc = "disconnect"
  /\ \/ /\ CliUp /\ NoFault
        /\ SetDaemon(NoSession("disconnected"))
        /\ pc' = "publishDisconnected"
        /\ UNCHANGED st
     \/ /\ CallFails(CliUp)
        /\ st' = [st EXCEPT !.err = "other"]
        /\ pc' = AfterFailedDisconnect
        /\ UNCHANGED <<dm, op>>
  /\ UNCHANGED <<cfg, lc, wanted, done, gaveUp, retry, force, wake, env, sup>>

PublishDisconnected ==
  /\ pc = "publishDisconnected"
  /\ done' = [done EXCEPT !.loc = None]
  /\ st' = [st EXCEPT !.conn = "disconnected"]
  /\ pc' = "idle"
  /\ UNCHANGED <<cfg, lc, wanted, gaveUp, retry, force, wake, env, dm, sup, op, faults>>

(* nextRetryAt passes; time.AfterFunc, started later, fires no earlier.     *)
BackoffPasses ==
  /\ ~retry.due
  /\ retry' = [retry EXCEPT !.due = TRUE]
  /\ UNCHANGED <<cfg, st, loop, force, wake, env, dm, sup, op, faults>>

TimerFires ==
  /\ retry.timer /\ retry.due
  /\ retry' = [retry EXCEPT !.timer = FALSE]
  /\ wake' = TRUE
  /\ UNCHANGED <<cfg, st, loop, force, env, dm, sup, op, faults>>

-----------------------------------------------------------------------------
(* superviseOnce: the daemon is asked, then the state is read, then written. *)
Poll ==
  /\ sup = "idle"
  /\ CliUp
  /\ sup' = IF dm.conn = "connected" THEN "sawUp" ELSE "sawDown"
  /\ UNCHANGED <<cfg, st, loop, retry, force, wake, env, dm, op, faults>>

Compare ==
  /\ \/ /\ sup = "sawDown"
        /\ sup' = IF st.want = "connected" /\ st.conn = "connected" THEN "lost" ELSE "idle"
     \/ /\ sup = "sawUp"
        /\ sup' = IF st.conn = "disconnected" THEN "found" ELSE "idle"
  /\ UNCHANGED <<cfg, st, loop, retry, force, wake, env, dm, op, faults>>

MarkLost ==
  /\ sup = "lost"
  /\ st' = [st EXCEPT !.conn = "reconnecting"]
  /\ wake' = TRUE
  /\ sup' = "idle"
  /\ UNCHANGED <<cfg, loop, retry, force, env, dm, op, faults>>

MarkFound ==
  /\ sup = "found"
  /\ st' = [st EXCEPT !.conn = "connected"]
  /\ sup' = "idle"
  /\ UNCHANGED <<cfg, loop, retry, force, wake, env, dm, op, faults>>

-----------------------------------------------------------------------------
(* The daemon on its own: it loses a session, gets it back, dies.           *)
DaemonDrops ==
  /\ dm.conn = "connected"
  /\ Fault
  /\ dm' = [dm EXCEPT !.conn = "broken"]
  /\ UNCHANGED <<cfg, st, loop, retry, force, wake, env, sup, op>>

DaemonHeals ==
  /\ dm.conn = "broken"
  /\ CanReachOut
  /\ dm' = [dm EXCEPT !.conn = "connected"]
  /\ UNCHANGED <<cfg, st, loop, retry, force, wake, env, sup, op, faults>>

DaemonCrashes ==
  /\ CliUp
  /\ Fault
  /\ SetDaemon(NoSession("crashed"))
  /\ UNCHANGED <<cfg, st, loop, retry, force, wake, env, sup>>

(* The callback of Daemon.Run, before its restart delay.                    *)
OnCrash ==
  /\ dm.conn = "crashed"
  /\ st' = [st EXCEPT !.conn = IF st.want = "connected" THEN "reconnecting" ELSE @]
  /\ dm' = NoSession("down")
  /\ UNCHANGED <<cfg, loop, retry, force, wake, env, sup, op, faults>>

DaemonRestarts ==
  /\ dm.conn = "down"
  /\ dm' = NoSession("disconnected")
  /\ UNCHANGED <<cfg, st, loop, retry, force, wake, env, sup, op, faults>>

(* uplink.Monitor finds the proxy dead, and alive again.                    *)
Monitored == uplink \notin {Host, None} /\ pc # "apply"

UplinkLost ==
  /\ Monitored /\ st.ul # "down"
  /\ Fault
  /\ st' = [st EXCEPT !.ul = "down"]
  /\ UNCHANGED <<cfg, loop, retry, force, wake, env, dm, sup, op>>

UplinkRecovered ==
  /\ Monitored /\ st.ul # "up"
  /\ st' = [st EXCEPT !.ul = "up"]
  /\ ResetRetries
  /\ UNCHANGED <<cfg, loop, force, env, dm, sup, op, faults>>

-----------------------------------------------------------------------------
(* The API: PATCH /v1/config, and one operation at a time on "connection".  *)
(* Mutant: OnChange is not registered. *)
PatchConfigUnseen(c) ==
  /\ cfg' = c
  /\ c # cfg
  /\ UNCHANGED <<st, loop, retry, force, wake, env, dm, sup, op, faults>>

PatchConfig(c) ==
  /\ cfg' = c
  /\ c # cfg
  /\ wake' = TRUE
  /\ UNCHANGED <<st, loop, retry, force, env, dm, sup, op, faults>>

StartOp(kind, loc, at) ==
  /\ op.pc = "idle"
  /\ op' = [pc |-> at, kind |-> kind, loc |-> loc, served |->
             \/ kind = "disconnect" /\ dm.conn \in Gone
             \/ kind = "connect" /\ dm.conn = "connected" /\ loc \in {None, dm.loc},
             misled |-> kind = "disconnect" /\ st.conn = "disconnected" /\ dm.conn \notin Gone]

(* Actions.Connect: the location is saved first, then desired is set. *)
OpConnect(loc) ==
  /\ StartOp("connect", loc, "patched")
  /\ IF loc = None
     THEN UNCHANGED <<cfg, wake>>
     ELSE cfg' = [cfg EXCEPT !.loc = loc] /\ wake' = TRUE
  /\ UNCHANGED <<st, loop, retry, force, env, dm, sup, faults>>

OpConnectGo ==
  /\ op.pc = "patched"
  /\ st' = [st EXCEPT !.want = "connected", !.err = "other",
                      !.conn = IF @ = "error" THEN "disconnected" ELSE @]
  /\ ResetRetries
  /\ op' = [op EXCEPT !.pc = "wait"]
  /\ UNCHANGED <<cfg, loop, force, env, dm, sup, faults>>

OpDisconnect ==
  /\ StartOp("disconnect", None, "wait")
  /\ st' = [st EXCEPT !.want = "disconnected"]
  /\ wake' = TRUE
  /\ UNCHANGED <<cfg, loop, retry, force, env, dm, sup, faults>>

OpReconnect ==
  /\ st.want = "connected"
  /\ StartOp("reconnect", None, "marked")
  /\ st' = [st EXCEPT !.conn = "reconnecting"]
  /\ UNCHANGED <<cfg, loop, retry, force, wake, env, dm, sup, faults>>

OpReconnectGo ==
  /\ op.pc = "marked"
  /\ force' = TRUE
  /\ ResetRetries
  /\ op' = [op EXCEPT !.pc = "wait"]
  /\ UNCHANGED <<cfg, st, loop, env, dm, sup, faults>>

(* Three minutes outlast whatever the loop may be doing, but not a Connect   *)
(* of the driver: three attempts, each with its own limits.                  *)
ThreeMinutes == pc \in {"ensureDisconnected", "dial"} \/ (pc = "idle" /\ ~wake)

(* waitConnection: the target state, an error, or its limit.                 *)
Target == IF op.kind = "disconnect" THEN "disconnected" ELSE "connected"

EndOp ==
  /\ op' = NoOp
  /\ UNCHANGED <<cfg, st, loop, retry, force, wake, env, dm, sup, faults>>

OpSucceeds == op.pc = "wait" /\ st.conn = Target /\ EndOp
OpFails    == op.pc = "wait" /\ st.conn = "error" /\ EndOp
OpTimesOut == op.pc = "wait" /\ st.conn \notin {Target, "error"} /\ ThreeMinutes /\ EndOp

-----------------------------------------------------------------------------
Pass ==
  \/ BeginPass \/ Snapshot \/ ApplyKillswitch \/ AnnounceUplink \/ ApplyUplink
  \/ ApplySettings \/ DecideConnect \/ DecideDisconnect \/ MarkConnecting
  \/ EnsureDisconnected \/ Dial \/ PublishConnected \/ CountFailure
  \/ StopDaemon \/ ReportFailure \/ Disconnect \/ PublishDisconnected

Timers == BackoffPasses \/ TimerFires
Supervise == Poll \/ Compare \/ MarkLost \/ MarkFound
Daemon == DaemonDrops \/ DaemonHeals \/ DaemonCrashes \/ OnCrash \/ DaemonRestarts
Monitor == UplinkLost \/ UplinkRecovered

Api ==
  \/ \E c \in [ul : Uplinks, loc : Locations] : PatchConfig(c)
  \/ \E l \in Locations \cup {None} : OpConnect(l)
  \/ OpConnectGo \/ OpDisconnect \/ OpReconnect \/ OpReconnectGo
  \/ OpSucceeds \/ OpFails \/ OpTimesOut

Next == Pass \/ Timers \/ Supervise \/ Daemon \/ Monitor \/ Api

Spec == Init /\ [][Next]_vars

(* Every goroutine runs again once it can: the loop, which also has its 30 s *)
(* tick, timers, the supervisor, Daemon.Run, an operation's second step and  *)
(* its three-minute limit.  Nothing is assumed of users or of failures.      *)
Fairness ==
  /\ WF_vars(Pass) /\ WF_vars(Timers) /\ WF_vars(Supervise)
  /\ WF_vars(OnCrash \/ DaemonRestarts)
  /\ WF_vars(OpConnectGo \/ OpReconnectGo)
  /\ WF_vars(OpSucceeds \/ OpFails \/ OpTimesOut)

FairSpec == Spec /\ Fairness

-----------------------------------------------------------------------------
Passes == {"idle", "snapshot", "killswitch", "announce", "apply", "settings",
           "decide", "mark", "ensureDisconnected", "dial", "publish", "failed",
           "stop", "report", "disconnect", "publishDisconnected"}
Configs == [ul : Uplinks, loc : Locations]
States == [conn : Connection, want : {"connected", "disconnected"},
           err : {"other", "exhausted"}, ul : {"unknown", "up", "down"}, ks : BOOLEAN]
Applied == [ks : Uplinks \cup {None}, ul : Uplinks \cup {None},
            evpn : Locations \cup {None}, loc : Locations \cup {None}]
Retries == [n : 0..MaxReconnectFailures, due : BOOLEAN, timer : BOOLEAN]
Daemons == [conn : {"disconnected", "connected", "broken", "crashed", "down"},
            loc : Locations \cup {None}]
Operations == [pc : {"idle", "patched", "marked", "wait"},
               kind : {"none", "connect", "disconnect", "reconnect"},
               loc : Locations \cup {None}, served : BOOLEAN, misled : BOOLEAN]

TypeOK ==
  /\ cfg \in Configs /\ st \in States
  /\ pc \in Passes /\ lc \in Configs
  /\ wanted \in {"unread", "connected", "disconnected"}
  /\ done \in Applied /\ gaveUp \in BOOLEAN /\ retry \in Retries
  /\ force \in BOOLEAN /\ wake \in BOOLEAN
  /\ rules \in Uplinks \cup {None} /\ uplink \in Uplinks \cup {None}
  /\ dm \in Daemons
  /\ sup \in {"idle", "sawUp", "sawDown", "lost", "found"}
  /\ op \in Operations
  /\ faults \in 0..MaxFaults

(* The loop waits and nothing has woken it. *)
Idle == pc = "idle" /\ ~wake

(* Its last pass got through the kill switch and the uplink. *)
LayersApplied == done.ks = cfg.ul /\ done.ul = cfg.ul

(* An operation is between its two writes. *)
MidOperation == op.pc \in {"patched", "marked"}

(* reconciler.go:161 "kill switch before any change of routes and connections": *)
(* whenever the loop touches the uplink or the daemon the rules in the kernel   *)
(* are those for the uplink it is applying, also after earlier passes failed.   *)
KillswitchFirst ==
  pc \notin {"idle", "snapshot", "killswitch"} => rules = lc.ul

(* A config change is never slept on: unless the loop has been woken, what it   *)
(* last read is the current config.                                             *)
ChangesAreSeen == ~wake => lc = cfg

(* A failed connect always leads to another try, unless the tries are used up:  *)
(* no interleaving of timers, passes and user actions loses the retry.          *)
RetryScheduled ==
  Idle /\ LayersApplied /\ st.want = "connected" /\ st.conn = "error" =>
    retry.timer \/ retry.n = MaxReconnectFailures

(* At rest, with no retry to come and none refused, a session reported as       *)
(* connected is the one for the configured location, if the agent made it (a    *)
(* session found at the daemon has no appliedConn): a location changed at any   *)
(* moment of a connect, or before a failed one, is not forgotten.               *)
SettledOnWantedLocation ==
  Idle /\ LayersApplied /\ ~MidOperation
    /\ ~retry.timer /\ retry.n < MaxReconnectFailures
    /\ st.want = "connected" /\ st.conn = "connected" => done.loc \in {None, cfg.loc}

(* agent-api: a disconnect succeeds only if the daemon has been disconnected    *)
(* while the operation ran, whatever other operations timed out before it.      *)
(* Excepted is one that begins while a failed connect, asked for again, counts  *)
(* as disconnected (actions.go:57) although the daemon was never stopped: it    *)
(* finds its target reported at once.                                           *)
DisconnectSucceedsWhenDone ==
  [][OpSucceeds /\ op.kind = "disconnect" => op.served \/ op.misled]_vars

(* The loop never leaves a wanted connection behind in silence: it is reported  *)
(* connected, or the user gives up on it, or the tries are used up.             *)
WantedConnectionResolved ==
  []<>(\/ st.want = "disconnected" \/ st.conn = "connected"
       \/ retry.n = MaxReconnectFailures)

(* reconciler.go:3-6: every configured uplink gets its rules and is recorded    *)
(* as applied, after any failure of a layer, unless the user changes it again.  *)
LayersConverge ==
  \A u \in Uplinks : []<>(cfg.ul = u => rules = u /\ done.ul = u)

-----------------------------------------------------------------------------
(* What the repository's documents promise and the code does not keep.          *)

(* reconciler.go:3-6: the wanted disconnection is reached, repeated on later    *)
(* passes if it has to be.                                                      *)
DisconnectionReached ==
  st.want = "disconnected" ~> st.conn = "disconnected" \/ st.want = "connected"

=============================================================================
