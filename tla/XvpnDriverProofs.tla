-------------------------- MODULE XvpnDriverProofs --------------------------
(* Proofs that the driver keeps its contract, and dials a daemon that will    *)
(* listen, for any locations, any number of attempts and any number of        *)
(* faults.                                                                    *)
EXTENDS XvpnDriver, TLAPS

(* A daemon has a location as long as it has a session. *)
DaemonInv ==
  /\ daemon.st \in {"Disconnected", "Disconnecting"} => daemon.loc = None
  /\ daemon.st \notin {"Disconnected", "Disconnecting", "Crashed"} => daemon.loc \in Known

(* A call that finds the daemon down has noted it, and the steps from there   *)
(* to the dialling are taken by connect alone and see the daemon stay down or *)
(* crash without a session to restore.                                        *)
ReleaseInv ==
  /\ pc # "idle" /\ daemon.st = "Disconnected" => stage # "called"
  /\ pc = "ensure" => kind = "connect"
  /\ pc \in {"set", "dial"} =>
       /\ kind = "connect" /\ stage # "called"
       /\ daemon.st \in {"Disconnected", "Crashed"} /\ daemon.loc = None

(* Once dialled, the daemon has no session but the wanted one. *)
DialInv ==
  /\ pc = "up" =>
       /\ kind = "connect" /\ stage # "called"
       /\ daemon.loc \in {None, want}
       /\ daemon.st = "Connected" => stage = "established"
  /\ pc = "after" => kind = "connect" /\ stage = "established"

IInv == TypeOK /\ DaemonInv /\ ReleaseInv /\ DialInv

-----------------------------------------------------------------------------
(* The states of a daemon that there can be. *)
Daemons == [st : Raw \cup {"Crashed"}, loc : Known \cup {None}]

LEMMA DaemonType ==
  ASSUME NEW st \in Raw \cup {"Crashed"}, NEW loc \in Known \cup {None}
  PROVE  D(st, loc) \in Daemons /\ D(st, loc).st = st /\ D(st, loc).loc = loc
  BY DEF D, Daemons

(* What a call has seen once the daemon is d. *)
LEMMA ProgressOf ==
  ASSUME TypeOK, pc # "idle", NEW d
  PROVE  Promise!Progress(Call, Tunnel(d)) =
           IF stage = "called" /\ Tunnel(d) = "down" THEN "released"
           ELSE IF stage = "released" /\ Tunnel(d) = want THEN "established" ELSE stage
  BY DEF Promise!Progress, Call, TypeOK

LEMMA TunnelOf ==
  ASSUME NEW d \in Daemons, d.st = "Connected" => d.loc \in Known
  PROVE  /\ Tunnel(d) = "down" <=> d.st = "Disconnected"
         /\ \A l \in Locations : Tunnel(d) = l <=> d.st = "Connected" /\ d.loc = l
         /\ Tunnel(d) \in {"down", "changing"} \cup Locations
  BY DriverAssumption DEF Tunnel, Daemons, Raw

-----------------------------------------------------------------------------
LEMMA InitIInv == Init => IInv
<1> SUFFICES ASSUME Init PROVE IInv
  OBVIOUS
<1>1. daemon \in Daemons /\ DaemonInv
  BY DEF Init, D, Daemons, Raw, DaemonInv
<1>2. 1 \in 1..Retries /\ MaxFaults \in 0..MaxFaults
  BY DriverAssumption
<1> QED BY <1>1, <1>2 DEF Init, IInv, TypeOK, Daemons, ReleaseInv, DialInv

(* The step takes the daemon to a state it can be in, and the call sees it.   *)
Moves(d) ==
  /\ d \in Daemons
  /\ d.st \in {"Disconnected", "Disconnecting"} => d.loc = None
  /\ d.st \notin {"Disconnected", "Disconnecting", "Crashed"} => d.loc \in Known

LEMMA StageOf ==
  ASSUME IInv, NEW d, Moves(d), SetDaemon(d)
  PROVE  /\ daemon' = d /\ stage' \in {"called", "released", "established"}
         /\ pc # "idle" => /\ stage # "called" => stage' # "called"
                           /\ stage = "established" => stage' = "established"
                           /\ d.st = "Disconnected" => stage' # "called"
                           /\ stage # "called" /\ d.st = "Connected" /\ d.loc = want =>
                                stage' = "established"
<1>1. d.st = "Connected" => d.loc \in Known
  BY DEF Moves
<1>2. want \in Locations /\ stage \in {"called", "released", "established"}
  BY DEF IInv, TypeOK
<1>3. /\ Tunnel(d) = "down" <=> d.st = "Disconnected"
      /\ Tunnel(d) = want <=> d.st = "Connected" /\ d.loc = want
  BY <1>1, <1>2, TunnelOf DEF Moves
<1>4. CASE pc = "idle"
  BY <1>2, <1>4 DEF SetDaemon
<1>5. CASE pc # "idle"
  <2>1. stage' = IF stage = "called" /\ Tunnel(d) = "down" THEN "released"
                 ELSE IF stage = "released" /\ Tunnel(d) = want THEN "established" ELSE stage
    BY <1>5, ProgressOf DEF SetDaemon, IInv
  <2> QED BY <1>2, <1>3, <1>5, <2>1 DEF SetDaemon
<1> QED BY <1>4, <1>5

LEMMA CommandMoves ==
  ASSUME IInv
  PROVE  /\ daemon.st # "Crashed" => Moves(IF AtRest THEN daemon ELSE D("Disconnecting", None))
         /\ pc = "dial" /\ ~Hopeless /\ daemon.st = "Disconnected" =>
              Moves(D("Connecting", want)) /\ Dialled = D("Connecting", want)
<1>1. Moves(daemon)
  BY DEF IInv, TypeOK, DaemonInv, Moves, Daemons
<1>2. Moves(D("Disconnecting", None))
  BY DEF Moves, Daemons, D, Raw
<1>3. ~Hopeless => Moves(D("Connecting", want))
  BY DEF Moves, Daemons, D, Raw, Hopeless
<1> QED BY <1>1, <1>2, <1>3 DEF Dialled

(* Moves of the daemon that no call asks for. *)
OfDaemon == DaemonSettles \/ DaemonDrops \/ DaemonCrashes \/ DaemonRestarts \/ Outside

LEMMA DaemonStep == IInv /\ OfDaemon => IInv'
<1> SUFFICES ASSUME IInv, OfDaemon PROVE IInv'
  OBVIOUS
<1>t. /\ daemon \in Daemons /\ DaemonInv /\ faults' \in 0..MaxFaults
  <2>1. daemon \in Daemons /\ DaemonInv /\ faults \in 0..MaxFaults /\ MaxFaults \in Nat
    BY DriverAssumption DEF IInv, TypeOK, Daemons
  <2> QED BY <2>1 DEF OfDaemon, DaemonSettles, Settles, DaemonDrops, DaemonCrashes,
                      DaemonRestarts, Outside, Fault, NoFault
<1> DEFINE Own(d) ==
             pc # "idle" =>
               /\ d.loc \in {daemon.loc, None}
               /\ daemon.st = "Disconnected" => d.st = "Crashed"
               /\ daemon.st = "Crashed" /\ daemon.loc = None => d.st = "Disconnected"
<1>0. \E d : Moves(d) /\ SetDaemon(d) /\ Own(d)
  <2>1. CASE DaemonSettles
    <3>1. ASSUME NEW from, NEW to, Settles(from, to), to \in Raw,
                 from \notin {"Disconnected", "Crashed"},
                 to = "Disconnected" <=> from = "Disconnecting", to # "Disconnecting"
          PROVE  Moves(D(to, daemon.loc)) /\ SetDaemon(D(to, daemon.loc)) /\ daemon.st = from
      BY <1>t, <3>1 DEF Settles, Moves, Daemons, D, DaemonInv, Raw
    <3> QED BY <2>1, <3>1 DEF DaemonSettles, D, Raw, Settles
  <2>2. CASE DaemonDrops
    BY <2>2, <1>t DEF DaemonDrops, Moves, Daemons, D, DaemonInv, Raw
  <2>3. CASE DaemonCrashes
    <3>1. Moves(D("Crashed", daemon.loc))
      BY <1>t DEF Moves, Daemons, D
    <3> QED BY <2>3, <3>1 DEF DaemonCrashes, D
  <2>4. CASE DaemonRestarts
    <3>1. Moves(D("Disconnected", None)) /\ (daemon.loc # None => Moves(D("Reconnecting", daemon.loc)))
      BY <1>t DEF Moves, Daemons, D, Raw
    <3> QED BY <2>4, <3>1 DEF DaemonRestarts, D
  <2>5. CASE Outside
    <3>1. \A loc \in Known : Moves(D("Connecting", loc))
      BY DEF Moves, Daemons, D, Raw
    <3> QED BY <2>5, <3>1 DEF Outside, D
  <2> QED BY <2>1, <2>2, <2>3, <2>4, <2>5 DEF OfDaemon
<1>1. PICK d : Moves(d) /\ SetDaemon(d) /\ Own(d)
  BY <1>0
<1>2. UNCHANGED <<account, auth, shown, pc, kind, want, attempt, result>>
  BY DEF OfDaemon, DaemonSettles, Settles, DaemonDrops, DaemonCrashes, DaemonRestarts,
         Outside, DaemonRest, env, fixed
<1>3. TypeOK'
  BY <1>1, <1>2, <1>t, StageOf DEF IInv, TypeOK, Moves, Daemons
<1>4. DaemonInv'
  BY <1>1, StageOf DEF Moves, DaemonInv
<1>5. ReleaseInv'
  BY <1>1, <1>2, StageOf DEF IInv, ReleaseInv, Moves
<1>6. DialInv'
  <2>1. want # None
    BY DriverAssumption DEF IInv, TypeOK
  <2>2. pc = "up" /\ d.st = "Connected" => d.loc \in Known /\ d.loc = want
    BY <2>1, <1>1, DriverAssumption DEF Moves, IInv, DialInv
  <2> QED BY <1>1, <1>2, <2>2, StageOf DEF IInv, DialInv
<1> QED BY <1>3, <1>4, <1>5, <1>6 DEF IInv

LEMMA DriverStep == IInv /\ Driver => IInv'
<1> SUFFICES ASSUME IInv, Driver PROVE IInv'
  OBVIOUS
<1>t. /\ Retries \in Nat \ {0} /\ MaxFaults \in Nat /\ attempt \in 1..Retries
      /\ faults \in 0..MaxFaults
  BY DriverAssumption DEF IInv, TypeOK
<1>r. /\ Retry => attempt' \in 1..Retries /\ pc' \in {"ensure", "idle"} /\ result' \in {result, "failed"}
      /\ \A res : Return(res) => attempt' \in 1..Retries
      /\ \A next : GoOn(next) => attempt' \in 1..Retries
      /\ Fault => faults' \in 0..MaxFaults
      /\ NoFault => faults' \in 0..MaxFaults
      /\ faults' = faults => faults' \in 0..MaxFaults
  BY <1>t DEF Retry, Return, GoOn, Fault, NoFault
<1>1. CASE Ensure
  BY <1>1, <1>r DEF Ensure, GoOn, NeedsDrop, AtRest, env, fixed, IInv, TypeOK, DaemonInv,
     ReleaseInv, DialInv
<1>2. CASE Drop
  <2>1. UNCHANGED <<account, auth, kind, want>> /\ faults' \in 0..MaxFaults
    BY <1>2, <1>r DEF Drop, env, fixed
  <2>2. /\ pc' \in {"down", "idle"} /\ attempt' \in 1..Retries /\ result' \in {result, "failed"}
        /\ shown' \in {shown, None}
    BY <1>2, <1>r DEF Drop, GoOn, Return
  <2>3. Moves(daemon')  /\ stage' \in {"called", "released", "established"}
        /\ (pc' = "down" /\ daemon'.st = "Disconnected" => stage' # "called")
    <3>1. CASE UNCHANGED <<daemon, stage>> /\ pc' = "idle"
      BY <3>1 DEF IInv, TypeOK, DaemonInv, Moves, Daemons
    <3>2. CASE Dropping /\ daemon.st # "Crashed"
      BY <3>2, <1>2, CommandMoves, StageOf DEF Dropping, Drop
    <3> QED BY <1>2, <3>1, <3>2 DEF Drop, Return
  <2> QED BY <2>1, <2>2, <2>3 DEF IInv, TypeOK, DaemonInv, ReleaseInv, DialInv, Moves, Daemons
<1>3. CASE WaitDown
  BY <1>3, <1>r DEF WaitDown, GoOn, Return, AtRest, env, fixed, IInv, TypeOK, DaemonInv,
     ReleaseInv, DialInv
<1>4. CASE SetProtocol
  BY <1>4, <1>r DEF SetProtocol, GoOn, Return, env, fixed, IInv, TypeOK, DaemonInv,
     ReleaseInv, DialInv
<1>5. CASE Dial
  <2>1. /\ UNCHANGED <<account, auth, kind, want, shown>> /\ faults' \in 0..MaxFaults
        /\ pc = "dial" /\ kind = "connect" /\ stage # "called"
        /\ daemon.st \in {"Disconnected", "Crashed"} /\ daemon.loc = None
    BY <1>5, <1>r DEF Dial, env, fixed, IInv, ReleaseInv
  <2>2. CASE SetDaemon(Dialled) /\ ~Hopeless /\ daemon.st # "Crashed"
    <3>1. /\ daemon' = D("Connecting", want) /\ Moves(daemon')
          /\ stage' \in {"called", "released", "established"} /\ stage' # "called"
      BY <2>1, <2>2, CommandMoves, StageOf
    <3>2. daemon'.st = "Connecting" /\ daemon'.loc = want
      BY <3>1 DEF D
    <3>3. /\ attempt' \in 1..Retries /\ pc' \in {"up", "ensure", "idle"}
          /\ result' \in {result, "failed"}
      BY <1>5, <1>r, <2>2 DEF Dial, GoOn, Return
    <3> QED BY <2>1, <3>1, <3>2, <3>3 DEF IInv, TypeOK, DaemonInv, ReleaseInv, DialInv, Moves, Daemons
  <2>3. CASE UNCHANGED <<daemon, stage>> /\ (Retry \/ Return("failed"))
    <3>1. attempt' \in 1..Retries /\ pc' \in {"ensure", "idle"} /\ result' \in {result, "failed"}
      BY <1>r, <2>3 DEF Return
    <3> QED BY <2>1, <2>3, <3>1 DEF IInv, TypeOK, DaemonInv, ReleaseInv, DialInv
  <2> QED BY <1>5, <2>1, <2>2, <2>3 DEF Dial
<1>6. CASE WaitUp
  <2>1. CASE daemon.st = "Connected"
    BY <1>6, <1>r, <2>1 DEF WaitUp, GoOn, env, fixed, IInv, TypeOK, DaemonInv, ReleaseInv, DialInv
  <2>2. CASE daemon.st # "Connected"
    BY <1>6, <1>r, <2>2 DEF WaitUp, env, fixed, IInv, TypeOK, DaemonInv, ReleaseInv, DialInv
  <2> QED BY <2>1, <2>2
<1>7. CASE AfterConnect
  BY <1>7, <1>r DEF AfterConnect, Return, env, fixed, IInv, TypeOK, DaemonInv, ReleaseInv, DialInv
<1> QED BY <1>1, <1>2, <1>3, <1>4, <1>5, <1>6, <1>7 DEF Driver

LEMMA Step == IInv /\ [Next]_vars => IInv'
<1> SUFFICES ASSUME IInv, [Next]_vars PROVE IInv'
  OBVIOUS
<1>1. CASE Begin
  <2>1. Tunnel(daemon) = "down" <=> daemon.st = "Disconnected"
    BY TunnelOf DEF IInv, TypeOK, Daemons, DaemonInv
  <2>2. 1 \in 1..Retries
    BY DriverAssumption
  <2> QED BY <1>1, <2>1, <2>2 DEF Begin, env, IInv, TypeOK, DaemonInv, ReleaseInv, DialInv
<1>2. CASE Driver
  BY <1>2, DriverStep
<1>3. CASE Login
  BY <1>3 DEF Login, fixed, IInv, TypeOK, DaemonInv, ReleaseInv, DialInv
<1>4. CASE Logout
  <2>1. /\ Moves(daemon') /\ stage' \in {"called", "released", "established"}
        /\ (pc # "idle" => /\ stage # "called" => stage' # "called"
                           /\ stage = "established" => stage' = "established"
                           /\ daemon'.st = "Disconnected" => stage' # "called")
    BY <1>4, CommandMoves, StageOf DEF Logout, Dropping
  <2>2. daemon' = daemon \/ (daemon.st # "Disconnected" /\ daemon' = D("Disconnecting", None))
    BY <1>4 DEF Logout, Dropping, SetDaemon, AtRest
  <2>3. D("Disconnecting", None).st = "Disconnecting" /\ D("Disconnecting", None).loc = None
    BY DEF D
  <2>4. UNCHANGED <<shown, pc, kind, want, attempt, result, faults>>
        /\ account' \in BOOLEAN /\ auth' \in BOOLEAN /\ daemon.st # "Crashed"
    BY <1>4 DEF Logout, fixed
  <2>5. TypeOK' /\ DaemonInv'
    BY <2>1, <2>4 DEF IInv, TypeOK, DaemonInv, Moves, Daemons
  <2>6. ReleaseInv' /\ DialInv'
    BY <2>1, <2>2, <2>3, <2>4 DEF IInv, TypeOK, ReleaseInv, DialInv
  <2> QED BY <2>5, <2>6 DEF IInv
<1>5. CASE OfDaemon
  BY <1>5, DaemonStep
<1>6. CASE UNCHANGED vars
  BY <1>6 DEF vars, env, fixed, IInv, TypeOK, DaemonInv, ReleaseInv, DialInv
<1> QED BY <1>1, <1>2, <1>3, <1>4, <1>5, <1>6 DEF Next, OfDaemon

LEMMA Inductive == Spec => []IInv
<1> QED BY InitIInv, Step, PTL DEF Spec

-----------------------------------------------------------------------------
(* Every variable of the driver and the daemon keeps its type. *)
THEOREM TypeCorrect == Spec => []TypeOK
<1>1. IInv => TypeOK
  BY DEF IInv
<1> QED BY Inductive, <1>1, PTL

(* manager.go:77: whatever the daemon does and whatever fails, connect is     *)
(* sent to a daemon in Disconnected, or to one that is not there.             *)
THEOREM DialsAtRest == Spec => []DialsFromDisconnected
<1>1. IInv => DialsFromDisconnected
  BY DEF IInv, ReleaseInv, DialsFromDisconnected
<1> QED BY Inductive, <1>1, PTL

-----------------------------------------------------------------------------
(* The contract. *)

(* Where a call has come. *)
LEMMA CallOf ==
  /\ pc = "idle" => Call = Promise!NoCall
  /\ pc # "idle" => Call = [kind |-> kind, loc |-> want, stage |-> stage]
  BY DEF Call, Promise!NoCall

(* A move of the daemon in or between calls is a change of the tunnel, unless *)
(* it ends the call.                                                          *)
LEMMA MoveChanges ==
  ASSUME IInv, NEW d, Moves(d), SetDaemon(d), UNCHANGED <<kind, want, result>>,
         pc' = "idle" <=> pc = "idle"
  PROVE  Promise!Next
<1>1. Tunnel(d) \in Promise!Tunnels /\ daemon' = d
  BY TunnelOf DEF Moves, Promise!Tunnels, SetDaemon
<1>2. kind \in {"connect", "disconnect"}
  BY DEF IInv, TypeOK
<1>3. Call' = [Call EXCEPT !.stage = IF Call.kind = "none" THEN @
                                     ELSE Promise!Progress(Call, Tunnel(d))]
  <2>1. CASE pc = "idle"
    BY <2>1 DEF Call
  <2>2. CASE pc # "idle"
    <3>1. stage' = Promise!Progress(Call, Tunnel(d))
      BY <2>2 DEF SetDaemon
    <3> HIDE DEF Tunnel
    <3>2. Call = [kind |-> kind, loc |-> want, stage |-> stage]
      BY <2>2, CallOf
    <3>3. Call' = [kind |-> kind, loc |-> want, stage |-> stage']
      BY <2>2 DEF Call
    <3> DEFINE reached == Promise!Progress(Call, Tunnel(d))
    <3>4. stage' = reached
      BY <3>1
    <3> HIDE DEF reached
    <3>5. Call.kind # "none"
      BY <1>2, <3>2
    <3>6. Call' = [Call EXCEPT !.stage = reached]
      BY <3>2, <3>3, <3>4
    <3> QED BY <3>5, <3>6 DEF reached
  <2> QED BY <2>1, <2>2
<1>4. Promise!Change(Tunnel(d))
  BY <1>1, <1>3 DEF Promise!Change
<1> QED BY <1>1, <1>4 DEF Promise!Next

(* A call may fail wherever it is. *)
LEMMA FailFails ==
  ASSUME IInv, IInv', pc # "idle", Return("failed")
  PROVE  Promise!Next
<1>1. Tunnel(daemon') \in Promise!Tunnels
  BY TunnelOf DEF IInv, TypeOK, DaemonInv, Daemons, Promise!Tunnels
<1>2. Call.kind # "none" /\ Call' = Promise!NoCall
  BY DEF Call, Return, Promise!NoCall, IInv, TypeOK
<1>3. Promise!Fail
  BY <1>1, <1>2 DEF Promise!Fail, Return
<1> QED BY <1>3 DEF Promise!Next

(* A call succeeds when it has brought about what it was for. *)
LEMMA SuccessIsEarned ==
  ASSUME IInv, pc # "idle", Return("ok"), UNCHANGED daemon,
         IF kind = "connect" THEN stage = "established" ELSE stage # "called"
  PROVE  Promise!Next
<1>1. Call.kind # "none" /\ Call' = Promise!NoCall /\ Call.kind = kind /\ Call.stage = stage
  BY DEF Call, Return, Promise!NoCall, IInv, TypeOK
<1>2. Promise!Succeed
  BY <1>1 DEF Promise!Succeed, Promise!Kept, Return
<1> QED BY <1>2 DEF Promise!Next

(* The steps of a call that leave the daemon alone are invisible. *)
LEMMA Within ==
  ASSUME pc # "idle", pc' # "idle", UNCHANGED <<daemon, kind, want, stage, result>>
  PROVE  UNCHANGED Promise!vars
<1>1. UNCHANGED Call
  BY DEF Call
<1> QED BY <1>1 DEF Promise!vars, Tunnel

LEMMA RetryStep ==
  ASSUME IInv, IInv', pc # "idle", Retry, UNCHANGED <<kind, want>>,
         UNCHANGED <<daemon, stage>> \/ \E d : Moves(d) /\ SetDaemon(d)
  PROVE  [Promise!Next]_Promise!vars
<1>1. CASE Return("failed")
  BY <1>1, FailFails
<1>2. CASE pc' = "ensure" /\ UNCHANGED result
  BY <1>2, Within, MoveChanges
<1> QED BY <1>1, <1>2 DEF Retry

LEMMA DriverKeeps == IInv /\ IInv' /\ Driver => [Promise!Next]_Promise!vars
<1> SUFFICES ASSUME IInv, IInv', Driver PROVE [Promise!Next]_Promise!vars
  OBVIOUS
<1>1. CASE Ensure
  BY <1>1, Within DEF Ensure, GoOn, fixed
<1>2. CASE Drop
  <2>1. CASE Return("failed")
    BY <1>2, <2>1, FailFails DEF Drop
  <2>2. CASE GoOn("down") /\ Dropping /\ daemon.st # "Crashed"
    BY <1>2, <2>2, CommandMoves, MoveChanges DEF Drop, Dropping, GoOn, fixed
  <2> QED BY <1>2, <2>1, <2>2 DEF Drop
<1>3. CASE WaitDown
  <2>1. CASE Return("failed")
    BY <1>3, <2>1, FailFails DEF WaitDown
  <2>2. CASE GoOn("set")
    BY <1>3, <2>2, Within DEF WaitDown, GoOn, fixed
  <2>3. CASE Return("ok") /\ AtRest /\ kind # "connect"
    BY <1>3, <2>3, SuccessIsEarned DEF WaitDown, AtRest, IInv, ReleaseInv
  <2> QED BY <1>3, <2>1, <2>2, <2>3 DEF WaitDown
<1>4. CASE SetProtocol
  BY <1>4, Within, FailFails DEF SetProtocol, GoOn, fixed
<1>5. CASE Dial
  <2>1. pc = "dial" /\ daemon.st \in {"Disconnected", "Crashed"}
    BY <1>5 DEF Dial, IInv, ReleaseInv
  <2>2. CASE SetDaemon(Dialled) /\ ~Hopeless /\ daemon.st # "Crashed" /\ GoOn("up")
    BY <1>5, <2>1, <2>2, CommandMoves, MoveChanges DEF Dial, GoOn, fixed
  <2>3. CASE Return("failed")
    BY <2>1, <2>3, FailFails
  <2>4. CASE Retry /\ UNCHANGED <<daemon, stage>>
    BY <1>5, <2>1, <2>4, RetryStep DEF Dial, fixed
  <2>5. CASE Retry /\ SetDaemon(Dialled) /\ ~Hopeless /\ daemon.st # "Crashed"
    <3>1. \E d : Moves(d) /\ SetDaemon(d)
      BY <2>1, <2>5, CommandMoves
    <3> QED BY <1>5, <2>1, <2>5, <3>1, RetryStep DEF Dial, fixed
  <2> QED BY <1>5, <2>2, <2>3, <2>4, <2>5 DEF Dial
<1>6. CASE WaitUp
  <2>1. CASE GoOn("after")
    BY <1>6, <2>1, Within DEF WaitUp, GoOn, fixed
  <2>2. CASE Retry
    BY <1>6, <2>2, RetryStep DEF WaitUp, fixed
  <2> QED BY <1>6, <2>1, <2>2 DEF WaitUp
<1>7. CASE AfterConnect
  BY <1>7, SuccessIsEarned DEF AfterConnect, IInv, DialInv
<1> QED BY <1>1, <1>2, <1>3, <1>4, <1>5, <1>6, <1>7 DEF Driver

LEMMA StepKeeps == IInv /\ IInv' /\ [Next]_vars => [Promise!Next]_Promise!vars
<1> SUFFICES ASSUME IInv, IInv', [Next]_vars PROVE [Promise!Next]_Promise!vars
  OBVIOUS
<1>1. CASE Begin
  <2>1. /\ kind' \in Promise!Kinds /\ want' \in Locations
        /\ pc = "idle" /\ pc' # "idle" /\ UNCHANGED <<daemon, result>>
    BY <1>1 DEF Begin, Promise!Kinds
  <2>2. /\ Call.kind = "none"
        /\ Call' = [kind |-> kind', loc |-> want', stage |-> stage']
        /\ stage' = IF Tunnel(daemon) = "down" THEN "released" ELSE "called"
    BY <1>1, <2>1 DEF Begin, Call
  <2>3. UNCHANGED Tunnel(daemon)
    BY <2>1 DEF Tunnel
  <2>4. Promise!Begin(kind', want')
    BY <2>1, <2>2, <2>3 DEF Promise!Begin
  <2> QED BY <2>1, <2>4 DEF Promise!Next
<1>2. CASE Driver
  BY <1>2, DriverKeeps
<1>3. CASE Login \/ UNCHANGED vars
  <2>1. UNCHANGED <<Call, daemon, result>>
    BY <1>3 DEF Login, vars, fixed, Call
  <2> QED BY <2>1 DEF Promise!vars, Tunnel
<1>4. CASE Logout
  BY <1>4, CommandMoves, MoveChanges DEF Logout, Dropping, fixed
<1>5. CASE OfDaemon
  <2>1. UNCHANGED <<kind, want, result, pc>>
    BY <1>5 DEF OfDaemon, DaemonSettles, Settles, DaemonDrops, DaemonCrashes, DaemonRestarts,
       Outside, DaemonRest, fixed
  <2>2. SetDaemon(daemon')
    BY <1>5 DEF OfDaemon, DaemonSettles, Settles, DaemonDrops, DaemonCrashes, DaemonRestarts,
       Outside, SetDaemon
  <2>3. Moves(daemon')
    BY DEF IInv, TypeOK, DaemonInv, Moves, Daemons
  <2> QED BY <2>1, <2>2, <2>3, MoveChanges
<1> QED BY <1>1, <1>2, <1>3, <1>4, <1>5 DEF Next, OfDaemon

LEMMA InitKeeps == Init => Promise!Init
<1> SUFFICES ASSUME Init PROVE Promise!Init
  OBVIOUS
<1>1. Tunnel(daemon) \in Promise!Tunnels
  BY InitIInv, TunnelOf DEF IInv, TypeOK, DaemonInv, Daemons, Promise!Tunnels
<1> QED BY <1>1, CallOf DEF Init, Promise!Init

(* manager.go:64: a connect that reports success has brought up a session of  *)
(* its own to the wanted location, a disconnect that does has seen the daemon *)
(* down; for any daemon that moves, refuses and crashes as this one may.      *)
THEOREM KeepsContract == Spec => Contract
<1> QED BY Inductive, InitKeeps, StepKeeps, PTL DEF Spec, Contract, Promise!Spec
=============================================================================
