-------------------------- MODULE ReconcilerProofs --------------------------
(* Proofs of safety properties of Reconciler for any uplinks, locations and   *)
(* limit of failures, and for any number of faults.                           *)
EXTENDS Reconciler, TLAPS

(* What the loop has applied is what is in the kernel, and a pass is past the *)
(* kill switch only when that is for the uplink it works on.                  *)
LayersInv ==
  /\ rules = done.ks
  /\ pc = "killswitch" => done.ks # lc.ul
  /\ pc \in {"announce", "apply"} => done.ul # lc.ul
  /\ pc \notin {"idle", "snapshot", "killswitch"} => done.ks = lc.ul

(* While the backoff runs its timer is pending, or about to be started; the   *)
(* loop gives up only at the limit, or has been woken since.                  *)
RetryInv ==
  /\ ~retry.due => retry.timer \/ (pc \in {"stop", "report"} /\ ~gaveUp)
  /\ pc \in {"stop", "report"} /\ gaveUp => wake \/ retry.n = MaxReconnectFailures
  /\ pc = "disconnect" => wake \/ st.want = "disconnected"

(* A pass that got as far as the decision comes to rest with the wrong        *)
(* location only if a retry is to come or refused; connecting, which would    *)
(* hold the decision back, is over when the pass is.                          *)
SettleInv ==
  /\ st.conn = "connecting" =>
       pc \in {"ensureDisconnected", "dial", "publish", "failed", "stop", "report"}
  /\ Idle /\ LayersApplied /\ st.want = "connected" /\ done.loc \notin {None, lc.loc} =>
       retry.timer \/ retry.n = MaxReconnectFailures

(* A disconnect that saw the daemon gone is served, and one that is neither    *)
(* served nor misled does not find its target reported: only a pass that has   *)
(* disconnected the daemon, or a connect, would report it.                     *)
ServedInv ==
  /\ pc = "publishDisconnected" => dm.conn \in Gone
  /\ op.pc = "patched" => op.kind = "connect"
  /\ op.kind = "disconnect" /\ dm.conn \in Gone => op.served
  /\ op.kind = "disconnect" /\ st.conn = "disconnected" => op.served \/ op.misled

IInv ==
  /\ TypeOK /\ LayersInv /\ ChangesAreSeen /\ RetryInv /\ RetryScheduled /\ SettleInv
  /\ ServedInv

-----------------------------------------------------------------------------
LEMMA InitIInv == Init => IInv
<1> SUFFICES ASSUME Init PROVE IInv
  OBVIOUS
<1> USE ReconcilerAssumption DEF Init, NoSession, NoOp
<1>1. TypeOK
  <2>1. cfg \in Configs
    BY DEF Configs
  <2>2. st \in States
    BY DEF States, Connection
  <2>3. retry \in Retries
    BY DEF Retries
  <2>4. dm \in Daemons
    BY DEF Daemons
  <2>5. op \in Operations
    BY DEF Operations
  <2>6. faults \in 0..MaxFaults
    OBVIOUS
  <2>7. done \in Applied
    BY DEF Applied
  <2>8. QED
    BY <2>1, <2>2, <2>3, <2>4, <2>5, <2>6, <2>7 DEF TypeOK, Passes
<1>2. LayersInv
  BY DEF LayersInv
<1>3. ChangesAreSeen
  BY DEF ChangesAreSeen
<1>4. RetryInv
  BY DEF RetryInv
<1>5. RetryScheduled
  BY DEF RetryScheduled, Idle
<1>6. SettleInv
  BY DEF SettleInv, Idle
<1>7. ServedInv
  BY DEF ServedInv
<1>8. QED
  BY <1>1, <1>2, <1>3, <1>4, <1>5, <1>6, <1>7 DEF IInv

(* The branch a pass takes once the rules are in place. *)
LEMMA AfterKillswitchCases ==
  /\ AfterKillswitch \in {"announce", "settings", "decide"}
  /\ AfterKillswitch = "announce" => done.ul # lc.ul
  /\ AfterUplink \in {"settings", "decide"}
BY DEF AfterKillswitch, AfterUplink

(* A change of the daemon's session is of the right type. *)
LEMMA SetDaemonType ==
  ASSUME TypeOK, NEW d \in Daemons, SetDaemon(d)
  PROVE dm' \in Daemons /\ op' \in Operations
<1>1. (op.served \/ Serves(d)) \in BOOLEAN
  OBVIOUS
<1>2. op' = [op EXCEPT !.served = op.served \/ Serves(d)]
  BY DEF SetDaemon
<1>3. op \in Operations
  BY DEF TypeOK
<1>4. op' \in Operations
  BY <1>1, <1>2, <1>3 DEF Operations
<1>5. QED
  BY <1>4 DEF SetDaemon

LEMMA NoSessionType ==
  ASSUME NEW c \in {"disconnected", "connected", "broken", "crashed", "down"}
  PROVE NoSession(c) \in Daemons
BY DEF NoSession, Daemons

LEMMA LostSessionType ==
  ASSUME TypeOK, NEW c \in {"disconnected", "crashed"}, SetDaemon(NoSession(c))
  PROVE dm' \in Daemons /\ op' \in Operations
<1>1. NoSession(c) \in Daemons
  BY NoSessionType
<1>2. QED
  BY <1>1, SetDaemonType

LEMMA ResetType ==
  ASSUME TypeOK
  PROVE [retry EXCEPT !.n = 0, !.due = TRUE] \in Retries
<1>1. 0 \in 0..MaxReconnectFailures
  BY ReconcilerAssumption
<1>2. QED
  BY <1>1 DEF TypeOK, Retries

LEMMA TypeStep == TypeOK /\ [Next]_vars => TypeOK'
<1> SUFFICES ASSUME TypeOK, [Next]_vars PROVE TypeOK'
  OBVIOUS
<1> USE ReconcilerAssumption DEF TypeOK, Passes, loop, env, Fault, NoFault, CallFails
<1>1. CASE BeginPass
  BY <1>1 DEF BeginPass
<1>2. CASE Snapshot
  <2>1. wanted' \in {"unread", "connected", "disconnected"}
    BY <1>2 DEF Snapshot, States
  <2>2. QED
    BY <1>2, <2>1, AfterKillswitchCases DEF Snapshot
<1>3. CASE ApplyKillswitch
  <2>1. st' \in States
    BY <1>3 DEF ApplyKillswitch, States, Connection
  <2>2. done' \in Applied
    BY <1>3 DEF ApplyKillswitch, Applied, Configs
  <2>3. rules' \in Uplinks \cup {None}
    BY <1>3 DEF ApplyKillswitch, Configs
  <2>4. QED
    BY <1>3, <2>1, <2>2, <2>3, AfterKillswitchCases DEF ApplyKillswitch
<1>4. CASE AnnounceUplink
  <2>1. st' \in States
    BY <1>4 DEF AnnounceUplink, States, Connection, ConnWhileApplying
  <2>2. QED
    BY <1>4, <2>1 DEF AnnounceUplink
<1>5. CASE ApplyUplink
  <2>1. st' \in States
    BY <1>5 DEF ApplyUplink, States, Connection
  <2>2. done' \in Applied
    BY <1>5 DEF ApplyUplink, Applied, Configs
  <2>3. dm' \in Daemons
    BY <1>5 DEF ApplyUplink, Daemons
  <2>4. uplink' \in Uplinks \cup {None}
    BY <1>5 DEF ApplyUplink, Configs
  <2>5. QED
    BY <1>5, <2>1, <2>2, <2>3, <2>4, AfterKillswitchCases DEF ApplyUplink
<1>6. CASE ApplySettings
  <2>1. st' \in States
    BY <1>6 DEF ApplySettings, States, Connection
  <2>2. done' \in Applied
    BY <1>6 DEF ApplySettings, Applied, Configs
  <2>3. QED
    BY <1>6, <2>1, <2>2 DEF ApplySettings
<1>7. CASE DecideConnect
  BY <1>7 DEF DecideConnect
<1>8. CASE DecideDisconnect
  BY <1>8 DEF DecideDisconnect
<1>9. CASE MarkConnecting
  <2>1. st' \in States
    BY <1>9 DEF MarkConnecting, States, Connection, ConnWhileConnecting
  <2>2. QED
    BY <1>9, <2>1 DEF MarkConnecting
<1>10. CASE EnsureDisconnected
  <2>1. dm' \in Daemons /\ op' \in Operations
    BY <1>10, LostSessionType DEF EnsureDisconnected
  <2>2. faults' \in 0..MaxFaults
    <3>1. faults' = faults \/ (faults > 0 /\ faults' = faults - 1)
      BY <1>10 DEF EnsureDisconnected
    <3>2. QED
      BY <3>1
  <2>3. QED
    BY <1>10, <2>1, <2>2 DEF EnsureDisconnected
<1>11. CASE Dial
  <2>1. lc.loc \in Locations \cup {None}
    BY DEF Configs
  <2>2. /\ [conn |-> "connected", loc |-> lc.loc] \in Daemons
        /\ [conn |-> "broken", loc |-> lc.loc] \in Daemons
    BY <2>1 DEF Daemons
  <2>3. dm' \in Daemons /\ op' \in Operations
    BY <1>11, <2>2, SetDaemonType DEF Dial
  <2>4. faults' \in 0..MaxFaults
    <3>1. faults' = faults \/ (faults > 0 /\ faults' = faults - 1)
      BY <1>11 DEF Dial
    <3>2. QED
      BY <3>1
  <2>5. QED
    BY <1>11, <2>3, <2>4 DEF Dial
<1>12. CASE PublishConnected
  <2>1. st' \in States
    BY <1>12 DEF PublishConnected, States, Connection
  <2>2. done' \in Applied
    BY <1>12 DEF PublishConnected, Applied, Configs
  <2>3. retry' \in Retries
    BY <1>12, ResetType DEF PublishConnected
  <2>4. QED
    BY <1>12, <2>1, <2>2, <2>3 DEF PublishConnected
<1>13. CASE CountFailure
  <2>1. retry' \in Retries
    <3>1. retry.n \in 0..MaxReconnectFailures
      BY DEF Retries
    <3>2. CASE retry.n + 1 < MaxReconnectFailures
      <4>1. retry.n + 1 \in 0..MaxReconnectFailures
        BY <3>1, <3>2
      <4>2. QED
        BY <1>13, <3>2, <4>1 DEF CountFailure, Retries
    <3>3. CASE ~(retry.n + 1 < MaxReconnectFailures)
      <4>1. MaxReconnectFailures \in 0..MaxReconnectFailures
        OBVIOUS
      <4>2. QED
        BY <1>13, <3>3, <4>1 DEF CountFailure, Retries
    <3>4. QED
      BY <3>2, <3>3
  <2>2. QED
    BY <1>13, <2>1 DEF CountFailure
<1>14. CASE StopDaemon
  <2>1. dm' \in Daemons /\ op' \in Operations
    BY <1>14, LostSessionType DEF StopDaemon
  <2>2. faults' \in 0..MaxFaults
    <3>1. faults' = faults \/ (faults > 0 /\ faults' = faults - 1)
      BY <1>14 DEF StopDaemon
    <3>2. QED
      BY <3>1
  <2>3. QED
    BY <1>14, <2>1, <2>2 DEF StopDaemon
<1>15. CASE ReportFailure
  <2>1. st' \in States
    BY <1>15 DEF ReportFailure, TimerAfterFailure, States, Connection
  <2>2. retry' \in Retries
    BY <1>15 DEF ReportFailure, TimerAfterFailure, Retries
  <2>3. QED
    BY <1>15, <2>1, <2>2 DEF ReportFailure, TimerAfterFailure
<1>16. CASE Disconnect
  <2>1. st' \in States
    BY <1>16 DEF Disconnect, AfterFailedDisconnect, States, Connection
  <2>2. dm' \in Daemons /\ op' \in Operations
    BY <1>16, LostSessionType DEF Disconnect
  <2>3. faults' \in 0..MaxFaults
    <3>1. faults' = faults \/ (faults > 0 /\ faults' = faults - 1)
      BY <1>16 DEF Disconnect
    <3>2. QED
      BY <3>1
  <2>4. QED
    BY <1>16, <2>1, <2>2, <2>3 DEF Disconnect, AfterFailedDisconnect
<1>17. CASE PublishDisconnected
  <2>1. st' \in States
    BY <1>17 DEF PublishDisconnected, States, Connection
  <2>2. done' \in Applied
    BY <1>17 DEF PublishDisconnected, Applied, Configs
  <2>3. QED
    BY <1>17, <2>1, <2>2 DEF PublishDisconnected
<1>18. CASE Timers
  <2>1. retry' \in Retries
    BY <1>18 DEF Timers, BackoffPasses, TimerFires, Retries
  <2>2. CASE BackoffPasses
    BY <2>1, <2>2 DEF BackoffPasses
  <2>3. CASE TimerFires
    BY <2>1, <2>3 DEF TimerFires
  <2>4. QED
    BY <1>18, <2>2, <2>3 DEF Timers
<1>19. CASE Supervise
  <2>1. st' \in States
    BY <1>19 DEF Supervise, Poll, Compare, MarkLost, MarkFound, States, Connection
  <2>2. QED
    BY <1>19, <2>1 DEF Supervise, Poll, Compare, MarkLost, MarkFound
<1>20. CASE DaemonDrops \/ DaemonHeals
  <2>1. dm' \in Daemons
    BY <1>20 DEF DaemonDrops, DaemonHeals, Daemons
  <2>2. QED
    BY <1>20, <2>1 DEF DaemonDrops, DaemonHeals
<1>21. CASE DaemonCrashes
  <2>1. dm' \in Daemons /\ op' \in Operations
    BY <1>21, LostSessionType DEF DaemonCrashes
  <2>2. QED
    BY <1>21, <2>1 DEF DaemonCrashes
<1>22. CASE OnCrash \/ DaemonRestarts
  <2>1. st' \in States
    BY <1>22 DEF OnCrash, DaemonRestarts, States, Connection
  <2>2. QED
    BY <1>22, <2>1, NoSessionType DEF OnCrash, DaemonRestarts
<1>23. CASE Monitor
  <2>1. st' \in States
    BY <1>23 DEF Monitor, UplinkLost, UplinkRecovered, States, Connection
  <2>2. CASE UplinkLost
    BY <2>1, <2>2 DEF UplinkLost
  <2>3. CASE UplinkRecovered
    BY <2>1, <2>3, ResetType DEF UplinkRecovered, ResetRetries
  <2>4. QED
    BY <1>23, <2>2, <2>3 DEF Monitor
<1>24. ASSUME NEW c \in Configs, PatchConfig(c) PROVE TypeOK'
  BY <1>24 DEF PatchConfig
<1>25. ASSUME NEW l \in Locations \cup {None}, OpConnect(l) PROVE TypeOK'
  <2>1. op' \in Operations
    BY <1>25 DEF OpConnect, StartOp, Operations
  <2>2. cfg' \in Configs /\ wake' \in BOOLEAN
    BY <1>25 DEF OpConnect, Configs
  <2>3. QED
    BY <1>25, <2>1, <2>2 DEF OpConnect
<1>26. CASE OpDisconnect
  <2>1. op' \in Operations
    BY <1>26 DEF OpDisconnect, StartOp, Operations
  <2>2. st' \in States
    BY <1>26 DEF OpDisconnect, StartOp, States, Connection
  <2>3. QED
    BY <1>26, <2>1, <2>2 DEF OpDisconnect, StartOp
<1>27. CASE OpReconnect
  <2>1. op' \in Operations
    BY <1>27 DEF OpReconnect, StartOp, Operations
  <2>2. st' \in States
    BY <1>27 DEF OpReconnect, StartOp, States, Connection
  <2>3. QED
    BY <1>27, <2>1, <2>2 DEF OpReconnect, StartOp
<1>28. CASE OpConnectGo \/ OpReconnectGo
  <2>1. op' \in Operations
    BY <1>28 DEF OpConnectGo, OpReconnectGo, ResetRetries, Operations
  <2>2. st' \in States
    BY <1>28 DEF OpConnectGo, OpReconnectGo, ResetRetries, States, Connection
  <2>3. retry' \in Retries
    BY <1>28, ResetType DEF OpConnectGo, OpReconnectGo, ResetRetries
  <2>4. QED
    BY <1>28, <2>1, <2>2, <2>3 DEF OpConnectGo, OpReconnectGo, ResetRetries
<1>29. CASE OpSucceeds \/ OpFails \/ OpTimesOut
  <2>1. op' \in Operations
    <3>1. NoOp \in Operations
      BY DEF NoOp, Operations
    <3>2. QED
      BY <1>29, <3>1 DEF OpSucceeds, OpFails, OpTimesOut, EndOp
  <2>2. QED
    BY <1>29, <2>1 DEF OpSucceeds, OpFails, OpTimesOut, EndOp, NoOp
<1>30. CASE UNCHANGED vars
  BY <1>30 DEF vars
<1>31. QED
  BY <1>1, <1>2, <1>3, <1>4, <1>5, <1>6, <1>7, <1>8, <1>9, <1>10, <1>11, <1>12, <1>13, <1>14, <1>15, <1>16, <1>17, <1>18, <1>19, <1>20, <1>21, <1>22, <1>23, <1>24, <1>25, <1>26, <1>27, <1>28, <1>29, <1>30
  DEF Next, Pass, Daemon, Api, Configs
(* Every action that is not a step of the loop leaves the loop alone. *)
LEMMA OthersKeepLoop ==
  ASSUME Timers \/ Supervise \/ Daemon \/ Monitor \/ Api
  PROVE UNCHANGED <<loop, env>>
<1>1. CASE Timers
  BY <1>1 DEF Timers, BackoffPasses, TimerFires
<1>2. CASE Supervise
  BY <1>2 DEF Supervise, Poll, Compare, MarkLost, MarkFound
<1>3. CASE Daemon
  BY <1>3 DEF Daemon, DaemonDrops, DaemonHeals, DaemonCrashes, OnCrash, DaemonRestarts
<1>4. CASE Monitor
  BY <1>4 DEF Monitor, UplinkLost, UplinkRecovered
<1>5. CASE Api
  BY <1>5 DEF Api, PatchConfig, OpConnect, OpConnectGo, OpDisconnect, OpReconnect,
              OpReconnectGo, OpSucceeds, OpFails, OpTimesOut, EndOp
<1>6. QED
  BY <1>1, <1>2, <1>3, <1>4, <1>5

LEMMA LayersStep == TypeOK /\ LayersInv /\ [Next]_vars => LayersInv'
<1> SUFFICES ASSUME TypeOK, LayersInv, [Next]_vars PROVE LayersInv'
  OBVIOUS
<1> USE DEF LayersInv, env
<1>1. CASE BeginPass \/ Snapshot
  BY <1>1, AfterKillswitchCases DEF BeginPass, Snapshot, KillswitchDue
<1>2. CASE ApplyKillswitch
  BY <1>2, AfterKillswitchCases DEF ApplyKillswitch, TypeOK, Applied
<1>3. CASE AnnounceUplink
  BY <1>3 DEF AnnounceUplink
<1>4. CASE ApplyUplink
  BY <1>4, AfterKillswitchCases DEF ApplyUplink, TypeOK, Applied
<1>5. CASE ApplySettings \/ DecideConnect \/ DecideDisconnect \/ MarkConnecting
  BY <1>5 DEF ApplySettings, DecideConnect, DecideDisconnect, MarkConnecting, TypeOK, Applied
<1>6. CASE EnsureDisconnected
  BY <1>6 DEF EnsureDisconnected
<1>7. CASE Dial
  BY <1>7 DEF Dial
<1>8. CASE PublishConnected \/ CountFailure \/ ReportFailure \/ PublishDisconnected
  BY <1>8 DEF PublishConnected, CountFailure, ReportFailure, PublishDisconnected, TypeOK, Applied
<1>9. CASE StopDaemon
  BY <1>9 DEF StopDaemon
<1>10. CASE Disconnect
  BY <1>10 DEF Disconnect, AfterFailedDisconnect
<1>11. CASE UNCHANGED <<loop, env>>
  BY <1>11 DEF loop
<1>12. CASE UNCHANGED vars
  BY <1>12 DEF vars
<1>13. QED
  BY <1>1, <1>2, <1>3, <1>4, <1>5, <1>6, <1>7, <1>8, <1>9, <1>10, <1>11, <1>12,
     OthersKeepLoop DEF Next, Pass

(* The token is given by every change of the config and taken only by the     *)
(* pass that reads it.                                                        *)
LEMMA ChangesStep == ChangesAreSeen /\ [Next]_vars => ChangesAreSeen'
<1> SUFFICES ASSUME ChangesAreSeen, [Next]_vars PROVE ChangesAreSeen'
  OBVIOUS
<1> USE DEF ChangesAreSeen
<1>1. CASE BeginPass
  BY <1>1 DEF BeginPass
<1>2. CASE \E c \in [ul : Uplinks, loc : Locations] : PatchConfig(c)
  BY <1>2 DEF PatchConfig
<1>3. CASE \E l \in Locations \cup {None} : OpConnect(l)
  BY <1>3 DEF OpConnect, loop
<1>4. CASE OpConnectGo \/ OpDisconnect \/ OpReconnectGo \/ UplinkRecovered
  BY <1>4 DEF OpConnectGo, OpDisconnect, OpReconnectGo, UplinkRecovered, ResetRetries
<1>5. CASE TimerFires \/ MarkLost
  BY <1>5 DEF TimerFires, MarkLost
<1>6. CASE UNCHANGED <<cfg, lc, wake>>
  BY <1>6
<1>7. ASSUME ~BeginPass, Pass PROVE UNCHANGED <<cfg, lc, wake>>
  BY <1>7 DEF Pass, Snapshot, ApplyKillswitch, AnnounceUplink, ApplyUplink, ApplySettings,
    DecideConnect, DecideDisconnect, MarkConnecting, EnsureDisconnected, Dial,
    PublishConnected, CountFailure, StopDaemon, ReportFailure, Disconnect, PublishDisconnected
<1>8. ASSUME BackoffPasses \/ Poll \/ Compare \/ MarkFound PROVE UNCHANGED <<cfg, lc, wake>>
  BY <1>8 DEF BackoffPasses, Poll, Compare, MarkFound, loop
<1>9. ASSUME Daemon \/ UplinkLost PROVE UNCHANGED <<cfg, lc, wake>>
  BY <1>9 DEF Daemon, DaemonDrops, DaemonHeals, DaemonCrashes, OnCrash, DaemonRestarts,
    UplinkLost, loop
<1>10. ASSUME OpReconnect \/ OpSucceeds \/ OpFails \/ OpTimesOut
       PROVE UNCHANGED <<cfg, lc, wake>>
  BY <1>10 DEF OpReconnect, OpSucceeds, OpFails, OpTimesOut, EndOp, loop
<1>11. CASE UNCHANGED vars
  BY <1>11 DEF vars
<1>12. QED
  BY <1>1, <1>2, <1>3, <1>4, <1>5, <1>6, <1>7, <1>8, <1>9, <1>10, <1>11
  DEF Next, Timers, Supervise, Monitor, Api

(* The retry that a failed connect schedules is not lost.                     *)
LEMMA RetryStep == IInv /\ [Next]_vars => RetryInv' /\ RetryScheduled'
<1> SUFFICES ASSUME IInv, [Next]_vars PROVE RetryInv' /\ RetryScheduled'
  OBVIOUS
<1> USE ReconcilerAssumption DEF IInv, TypeOK, States, Retries, Applied, LayersInv,
    ChangesAreSeen, RetryInv, RetryScheduled, Idle, LayersApplied, loop, env
<1>1. CASE BeginPass \/ Snapshot
  BY <1>1, AfterKillswitchCases DEF BeginPass, Snapshot
<1>2. CASE ApplyKillswitch
  BY <1>2, AfterKillswitchCases DEF ApplyKillswitch
<1>3. CASE AnnounceUplink
  BY <1>3 DEF AnnounceUplink
<1>4. CASE ApplyUplink
  BY <1>4, AfterKillswitchCases DEF ApplyUplink
<1>5. CASE ApplySettings
  BY <1>5 DEF ApplySettings
<1>6. CASE DecideConnect
  BY <1>6 DEF DecideConnect, NeedsConnect, MayConnect
<1>7. CASE DecideDisconnect
  BY <1>7 DEF DecideDisconnect
<1>8. CASE MarkConnecting
  BY <1>8 DEF MarkConnecting
<1>9. CASE EnsureDisconnected
  BY <1>9 DEF EnsureDisconnected
<1>10. CASE Dial
  BY <1>10 DEF Dial
<1>11. CASE PublishConnected
  BY <1>11 DEF PublishConnected
<1>12. CASE CountFailure
  BY <1>12 DEF CountFailure
<1>13. CASE StopDaemon
  BY <1>13 DEF StopDaemon
<1>14. CASE ReportFailure
  BY <1>14 DEF ReportFailure, TimerAfterFailure
<1>15. CASE Disconnect
  BY <1>15 DEF Disconnect, AfterFailedDisconnect
<1>16. CASE PublishDisconnected
  BY <1>16 DEF PublishDisconnected
<1>17. CASE BackoffPasses
  BY <1>17 DEF BackoffPasses
<1>18. CASE TimerFires
  BY <1>18 DEF TimerFires
<1>19. CASE Poll \/ Compare
  BY <1>19 DEF Poll, Compare
<1>20. CASE MarkLost \/ MarkFound
  BY <1>20 DEF MarkLost, MarkFound
<1>21. CASE Daemon /\ ~OnCrash
  <2>1. UNCHANGED <<cfg, st, loop, retry, wake, env>>
    BY <1>21 DEF Daemon, DaemonDrops, DaemonHeals, DaemonCrashes, DaemonRestarts
  <2>2. QED
    BY <2>1
<1>22. CASE OnCrash
  BY <1>22 DEF OnCrash
<1>23. CASE UplinkLost
  BY <1>23 DEF UplinkLost
<1>24. CASE UplinkRecovered
  BY <1>24 DEF UplinkRecovered, ResetRetries
<1>25. CASE \E c \in [ul : Uplinks, loc : Locations] : PatchConfig(c)
  BY <1>25 DEF PatchConfig
<1>26. CASE \E l \in Locations \cup {None} : OpConnect(l)
  BY <1>26 DEF OpConnect
<1>27. CASE OpConnectGo
  BY <1>27 DEF OpConnectGo, ResetRetries
<1>28. CASE OpDisconnect
  BY <1>28 DEF OpDisconnect
<1>29. CASE OpReconnect
  BY <1>29 DEF OpReconnect
<1>30. CASE OpReconnectGo
  BY <1>30 DEF OpReconnectGo, ResetRetries
<1>31. CASE OpSucceeds \/ OpFails \/ OpTimesOut
  BY <1>31 DEF OpSucceeds, OpFails, OpTimesOut, EndOp
<1>32. CASE UNCHANGED vars
  BY <1>32 DEF vars
<1>33. QED
  BY <1>1, <1>2, <1>3, <1>4, <1>5, <1>6, <1>7, <1>8, <1>9, <1>10, <1>11, <1>12,
     <1>13, <1>14, <1>15, <1>16, <1>17, <1>18, <1>19, <1>20, <1>21, <1>22, <1>23,
     <1>24, <1>25, <1>26, <1>27, <1>28, <1>29, <1>30, <1>31, <1>32
  DEF Next, Pass, Timers, Supervise, Monitor, Api

(* A wrong location is not slept on. *)
LEMMA SettleStep == IInv /\ [Next]_vars => SettleInv'
<1> SUFFICES ASSUME IInv, [Next]_vars PROVE SettleInv'
  OBVIOUS
<1> USE ReconcilerAssumption DEF IInv, TypeOK, States, Retries, Applied, LayersInv,
    ChangesAreSeen, RetryInv, SettleInv, Idle, LayersApplied, loop, env
<1>1. CASE BeginPass \/ Snapshot
  BY <1>1, AfterKillswitchCases DEF BeginPass, Snapshot
<1>2. CASE ApplyKillswitch
  BY <1>2, AfterKillswitchCases DEF ApplyKillswitch
<1>3. CASE AnnounceUplink
  BY <1>3 DEF AnnounceUplink, ConnWhileApplying
<1>4. CASE ApplyUplink
  BY <1>4, AfterKillswitchCases DEF ApplyUplink
<1>5. CASE ApplySettings
  BY <1>5 DEF ApplySettings
<1>6. CASE DecideConnect
  <2>1. ~(NeedsConnect /\ MayConnect) /\ done.loc \notin {None, lc.loc} =>
          retry.timer \/ retry.n = MaxReconnectFailures
    <3>1. st.conn \in {"disconnected", "connected", "reconnecting", "error"}
      BY <1>6 DEF DecideConnect, Connection
    <3>2. done.loc \notin {None, lc.loc} => NeedsConnect
      BY <3>1 DEF NeedsConnect
    <3>3. ~MayConnect => retry.timer \/ retry.n = MaxReconnectFailures
      BY <1>6 DEF DecideConnect, MayConnect
    <3> QED BY <3>2, <3>3
  <2>2. st.conn # "connecting" /\ UNCHANGED <<cfg, st, lc, done, retry, wake>>
    BY <1>6 DEF DecideConnect
  <2>3. pc' = IF NeedsConnect /\ MayConnect THEN "mark" ELSE "idle"
    BY <1>6 DEF DecideConnect
  <2>4. pc' = "idle" => ~(NeedsConnect /\ MayConnect)
    BY <2>3
  <2> QED BY <2>1, <2>2, <2>4
<1>7. CASE DecideDisconnect
  BY <1>7 DEF DecideDisconnect
<1>8. CASE MarkConnecting
  BY <1>8 DEF MarkConnecting, ConnWhileConnecting
<1>9. CASE EnsureDisconnected
  BY <1>9 DEF EnsureDisconnected
<1>10. CASE Dial
  BY <1>10 DEF Dial
<1>11. CASE PublishConnected
  BY <1>11 DEF PublishConnected
<1>12. CASE CountFailure
  BY <1>12 DEF CountFailure
<1>13. CASE StopDaemon
  BY <1>13 DEF StopDaemon
<1>14. CASE ReportFailure
  BY <1>14 DEF ReportFailure, TimerAfterFailure
<1>15. CASE Disconnect
  BY <1>15 DEF Disconnect, AfterFailedDisconnect
<1>16. CASE PublishDisconnected
  BY <1>16 DEF PublishDisconnected
<1>17. CASE BackoffPasses
  BY <1>17 DEF BackoffPasses
<1>18. CASE TimerFires
  BY <1>18 DEF TimerFires
<1>19. CASE Poll \/ Compare
  BY <1>19 DEF Poll, Compare
<1>20. CASE MarkLost \/ MarkFound
  BY <1>20 DEF MarkLost, MarkFound
<1>21. CASE Daemon /\ ~OnCrash
  <2>1. UNCHANGED <<cfg, st, loop, retry, wake, env>>
    BY <1>21 DEF Daemon, DaemonDrops, DaemonHeals, DaemonCrashes, DaemonRestarts
  <2>2. QED
    BY <2>1
<1>22. CASE OnCrash
  BY <1>22 DEF OnCrash
<1>23. CASE UplinkLost
  BY <1>23 DEF UplinkLost
<1>24. CASE UplinkRecovered
  BY <1>24 DEF UplinkRecovered, ResetRetries
<1>25. CASE \E c \in [ul : Uplinks, loc : Locations] : PatchConfig(c)
  BY <1>25 DEF PatchConfig
<1>26. CASE \E l \in Locations \cup {None} : OpConnect(l)
  BY <1>26 DEF OpConnect
<1>27. CASE OpConnectGo
  BY <1>27 DEF OpConnectGo, ResetRetries
<1>28. CASE OpDisconnect
  BY <1>28 DEF OpDisconnect
<1>29. CASE OpReconnect
  BY <1>29 DEF OpReconnect
<1>30. CASE OpReconnectGo
  BY <1>30 DEF OpReconnectGo, ResetRetries
<1>31. CASE OpSucceeds \/ OpFails \/ OpTimesOut
  BY <1>31 DEF OpSucceeds, OpFails, OpTimesOut, EndOp
<1>32. CASE UNCHANGED vars
  BY <1>32 DEF vars
<1>33. QED
  BY <1>1, <1>2, <1>3, <1>4, <1>5, <1>6, <1>7, <1>8, <1>9, <1>10, <1>11, <1>12,
     <1>13, <1>14, <1>15, <1>16, <1>17, <1>18, <1>19, <1>20, <1>21, <1>22, <1>23,
     <1>24, <1>25, <1>26, <1>27, <1>28, <1>29, <1>30, <1>31, <1>32
  DEF Next, Pass, Timers, Supervise, Monitor, Api

(* Only the loop reports a disconnection while a disconnect is waited for, and *)
(* it does so after the daemon was gone.                                       *)
LEMMA ServedStep == IInv /\ [Next]_vars => ServedInv'
<1> SUFFICES ASSUME IInv, [Next]_vars PROVE ServedInv'
  OBVIOUS
<1> USE ReconcilerAssumption DEF IInv, TypeOK, States, Daemons, Operations, ServedInv, Gone, loop, env
<1>0. ASSUME NEW d \in Daemons, SetDaemon(d), UNCHANGED st,
             pc' = "publishDisconnected" => d.conn \in Gone
      PROVE  ServedInv'
  BY <1>0 DEF SetDaemon, Serves
<1>1. CASE BeginPass \/ Snapshot
  BY <1>1, AfterKillswitchCases DEF BeginPass, Snapshot
<1>2. CASE ApplyKillswitch
  BY <1>2, AfterKillswitchCases DEF ApplyKillswitch
<1>3. CASE AnnounceUplink
  BY <1>3 DEF AnnounceUplink, ConnWhileApplying
<1>4. CASE ApplyUplink
  BY <1>4, AfterKillswitchCases DEF ApplyUplink
<1>5. CASE ApplySettings
  BY <1>5 DEF ApplySettings
<1>6. CASE DecideConnect
  BY <1>6 DEF DecideConnect
<1>7. CASE DecideDisconnect
  BY <1>7 DEF DecideDisconnect
<1>8. CASE MarkConnecting
  BY <1>8 DEF MarkConnecting, ConnWhileConnecting
<1>9. CASE EnsureDisconnected
  <2>1. NoSession("disconnected") \in Daemons
    BY DEF NoSession
  <2> QED BY <1>0, <1>9, <2>1 DEF EnsureDisconnected
<1>10. CASE Dial
  <2>1. [conn |-> "connected", loc |-> lc.loc] \in Daemons
    BY DEF Configs
  <2>2. ASSUME UNCHANGED op, dm' = dm \/ dm'.conn = "broken" PROVE ServedInv'
    BY <1>10, <2>2 DEF Dial
  <2> QED BY <1>0, <1>10, <2>1, <2>2 DEF Dial
<1>11. CASE PublishConnected
  BY <1>11 DEF PublishConnected
<1>12. CASE CountFailure
  BY <1>12 DEF CountFailure
<1>13. CASE StopDaemon
  <2>1. NoSession("disconnected") \in Daemons
    BY DEF NoSession
  <2> QED BY <1>0, <1>13, <2>1 DEF StopDaemon
<1>14. CASE ReportFailure
  BY <1>14 DEF ReportFailure
<1>15. CASE Disconnect
  <2>1. NoSession("disconnected") \in Daemons /\ NoSession("disconnected").conn \in Gone
    BY DEF NoSession
  <2> QED BY <1>0, <1>15, <2>1 DEF Disconnect, AfterFailedDisconnect
<1>16. CASE PublishDisconnected
  BY <1>16 DEF PublishDisconnected
<1>17. CASE BackoffPasses \/ TimerFires
  BY <1>17 DEF BackoffPasses, TimerFires
<1>18. CASE Poll \/ Compare
  BY <1>18 DEF Poll, Compare
<1>19. CASE MarkLost \/ MarkFound
  BY <1>19 DEF MarkLost, MarkFound
<1>20. CASE DaemonDrops \/ DaemonHeals
  BY <1>20 DEF DaemonDrops, DaemonHeals
<1>21. CASE DaemonCrashes
  <2>1. NoSession("crashed") \in Daemons /\ NoSession("crashed").conn \in Gone
    BY DEF NoSession
  <2> QED BY <1>0, <1>21, <2>1 DEF DaemonCrashes
<1>22. CASE OnCrash
  BY <1>22 DEF OnCrash, NoSession
<1>23. CASE DaemonRestarts
  BY <1>23 DEF DaemonRestarts, NoSession
<1>24. CASE UplinkLost \/ UplinkRecovered
  BY <1>24 DEF UplinkLost, UplinkRecovered
<1>25. CASE \E c \in [ul : Uplinks, loc : Locations] : PatchConfig(c)
  BY <1>25 DEF PatchConfig
<1>26. CASE \E l \in Locations \cup {None} : OpConnect(l)
  BY <1>26 DEF OpConnect, StartOp
<1>27. CASE OpConnectGo
  BY <1>27 DEF OpConnectGo
<1>28. CASE OpDisconnect
  BY <1>28 DEF OpDisconnect, StartOp
<1>29. CASE OpReconnect
  BY <1>29 DEF OpReconnect, StartOp
<1>30. CASE OpReconnectGo
  BY <1>30 DEF OpReconnectGo
<1>31. CASE OpSucceeds \/ OpFails \/ OpTimesOut
  BY <1>31 DEF OpSucceeds, OpFails, OpTimesOut, EndOp, NoOp
<1>32. CASE UNCHANGED vars
  BY <1>32 DEF vars
<1>33. QED
  BY <1>1, <1>2, <1>3, <1>4, <1>5, <1>6, <1>7, <1>8, <1>9, <1>10, <1>11, <1>12,
     <1>13, <1>14, <1>15, <1>16, <1>17, <1>18, <1>19, <1>20, <1>21, <1>22, <1>23,
     <1>24, <1>25, <1>26, <1>27, <1>28, <1>29, <1>30, <1>31, <1>32
  DEF Next, Pass, Timers, Supervise, Daemon, Monitor, Api

-----------------------------------------------------------------------------
LEMMA Inductive == Spec => []IInv
<1>1. IInv /\ [Next]_vars => IInv'
  BY TypeStep, LayersStep, ChangesStep, RetryStep, SettleStep, ServedStep DEF IInv
<1>2. QED
  BY InitIInv, <1>1, PTL DEF Spec

(* Every variable keeps its type. *)
THEOREM TypeCorrect == Spec => []TypeOK
<1>1. IInv => TypeOK
  BY DEF IInv
<1>2. QED
  BY Inductive, <1>1, PTL

(* The uplink and the daemon are touched only under the kill-switch rules of  *)
(* the uplink that is being applied (reconciler.go:161-171).                  *)
THEOREM RulesComeFirst == Spec => []KillswitchFirst
<1>1. IInv => KillswitchFirst
  BY DEF IInv, LayersInv, KillswitchFirst
<1>2. QED
  BY Inductive, <1>1, PTL

(* Unless it has been woken, the loop works from the current config.          *)
THEOREM NoChangeMissed == Spec => []ChangesAreSeen
<1>1. IInv => ChangesAreSeen
  BY DEF IInv
<1>2. QED
  BY Inductive, <1>1, PTL

(* A failed connect is tried again unless the tries are used up               *)
(* (onConnectFailure, reconciler.go:348-378).                                 *)
THEOREM RetryNotLost == Spec => []RetryScheduled
<1>1. IInv => RetryScheduled
  BY DEF IInv
<1>2. QED
  BY Inductive, <1>1, PTL

(* A location changed at any moment of a connect, or before one that failed,  *)
(* is not forgotten (reconciler.go:225-250).                         *)
THEOREM LocationNotForgotten == Spec => []SettledOnWantedLocation
<1>1. IInv => SettledOnWantedLocation
  BY ReconcilerAssumption DEF IInv, SettleInv, ChangesAreSeen, Idle, SettledOnWantedLocation
<1>2. QED
  BY Inductive, <1>1, PTL

(* A disconnect that was not misled when it began succeeds only after the      *)
(* daemon was disconnected (actions.go:66-70, 127-151).                        *)
THEOREM DisconnectIsDone == Spec => DisconnectSucceedsWhenDone
<1>1. IInv /\ [Next]_vars =>
        [OpSucceeds /\ op.kind = "disconnect" => op.served \/ op.misled]_vars
  BY DEF IInv, ServedInv, OpSucceeds, Target
<1>2. QED
  BY Inductive, <1>1, PTL DEF Spec, DisconnectSucceedsWhenDone
=============================================================================
