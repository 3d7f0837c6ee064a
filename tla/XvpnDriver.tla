----------------------------- MODULE XvpnDriver -----------------------------
(***************************************************************************)
(* internal/xvpn/manager.go: Connect and Disconnect, command by command,   *)
(* against a daemon that answers before it has done what it was told,      *)
(* moves by itself, refuses commands while it is busy, crashes and comes   *)
(* back; with Login and Logout beside them and, between calls, sessions    *)
(* started from outside the agent.                                         *)
(*                                                                         *)
(* The daemon is external: testdata/NOTES.md tells what the code relies    *)
(* on.  A deadline may pass at any poll that has not seen what it waits    *)
(* for.                                                                    *)
(***************************************************************************)
EXTENDS Naturals

CONSTANTS Locations,  \* wanted by callers
          Known,      \* those the daemon has
          None,
          Retries,    \* connectRetries
          MaxFaults   \* bound: failures, crashes, drops, sessions from outside

ASSUME DriverAssumption ==
  /\ Known \subseteq Locations
  /\ None \notin Locations
  /\ {"down", "changing"} \cap Locations = {}
  /\ Retries \in Nat \ {0}
  /\ MaxFaults \in Nat

VARIABLES
  daemon,   \* [st, loc]: get connectionstate, "Crashed" when it does not run;
            \* where its session is to go, None without one
  account,  \* the daemon is logged in
  auth,     \* state.ExpressVPN.Auth is logged_in
  shown,    \* PublicIP and ConnectedAt: of a session to that location, or None
  pc,       \* where the call is, "idle" between calls
  kind, want,
  attempt,
  result,   \* of the last call
  stage,    \* history: what the call has brought the daemon to
  faults

env == <<account, auth>>
fixed == <<kind, want>>
vars == <<daemon, env, shown, pc, fixed, attempt, result, stage, faults>>

Raw == {"Disconnected", "Connecting", "Connected", "Interrupted", "Reconnecting",
        "DisconnectingToReconnect", "Disconnecting"}
D(st, loc) == [st |-> st, loc |-> loc]

Tunnel(d) ==
  CASE d.st = "Disconnected" -> "down"
    [] d.st = "Connected"    -> d.loc
    [] OTHER                 -> "changing"

Call == [kind |-> IF pc = "idle" THEN "none" ELSE kind,
         loc |-> IF pc = "idle" THEN None ELSE want,
         stage |-> IF pc = "idle" THEN "called" ELSE stage]

Promise == INSTANCE SessionContract WITH tunnel <- Tunnel(daemon), call <- Call

Init ==
  /\ daemon \in {D("Disconnected", None)} \cup {D("Connected", loc) : loc \in Known}
  /\ account \in BOOLEAN /\ auth = account
  /\ shown = None
  /\ pc = "idle" /\ kind = "disconnect" /\ want \in Locations
  /\ attempt = 1 /\ result = "none" /\ stage = "called"
  /\ faults = MaxFaults

(* The daemon becomes d, which may be what the call is after. *)
SetDaemon(d) ==
  /\ daemon' = d
  /\ stage' = IF pc = "idle" THEN stage ELSE Promise!Progress(Call, Tunnel(d))

Fault == faults > 0 /\ faults' = faults - 1
NoFault == UNCHANGED faults

-----------------------------------------------------------------------------
(* The driver.  A call begins, *)
Begin ==
  /\ pc = "idle"
  /\ kind' \in {"connect", "disconnect"} /\ want' \in Locations
  /\ pc' = IF kind' = "connect" THEN "ensure" ELSE "drop"
  /\ stage' = IF Tunnel(daemon) = "down" THEN "released" ELSE "called"
  /\ attempt' = 1
  /\ UNCHANGED <<daemon, env, shown, result, faults>>

(* and returns. *)
Return(res) ==
  /\ pc' = "idle"
  /\ result' = res
  /\ UNCHANGED attempt

GoOn(next) ==
  /\ pc' = next
  /\ UNCHANGED <<attempt, result>>

(* Mutant: one attempt too many. *)
RetryOnceMore ==
  IF attempt <= Retries
  THEN pc' = "ensure" /\ attempt' = attempt + 1 /\ UNCHANGED result
  ELSE Return("failed")

(* Mutant: the attempts are not counted. *)
RetryForever ==
  /\ pc' = "ensure"
  /\ UNCHANGED <<attempt, result>>

(* An attempt failed: another, or connect_failed. *)
Retry ==
  IF attempt < Retries
  THEN pc' = "ensure" /\ attempt' = attempt + 1 /\ UNCHANGED result
  ELSE Return("failed")

(* Mutant: through ParseConnectionState, Disconnecting is disconnected too. *)
AtRestParsed == daemon.st \in {"Disconnected", "Disconnecting"}

(* rawDisconnected is the only state in which the daemon is down. *)
AtRest == daemon.st = "Disconnected"

(* Mutant: a daemon that says Connected is left as it is. *)
NeedsDropNotConnected == ~AtRest /\ daemon.st # "Connected"

NeedsDrop == ~AtRest

(* ensureDisconnected reads the state; a failed read means disconnect. *)
Ensure ==
  /\ pc = "ensure"
  /\ \/ GoOn(IF NeedsDrop THEN "drop" ELSE "set") /\ NoFault
     \/ GoOn("drop") /\ Fault
  /\ UNCHANGED <<daemon, env, shown, fixed, stage>>

(* The daemon is told to disconnect, and has no session to go back to. *)
Dropping == SetDaemon(IF AtRest THEN daemon ELSE D("Disconnecting", None))

(* cli.Disconnect returns while the daemon is still Disconnecting.  When it  *)
(* times out the daemon may have heard it.                                   *)
Drop ==
  /\ pc = "drop"
  /\ \/ /\ daemon.st # "Crashed"
        /\ Dropping /\ shown' = None
        /\ GoOn("down") /\ NoFault
     \/ /\ daemon.st = "Crashed"
        /\ Return("failed")
        /\ UNCHANGED <<daemon, stage, shown, faults>>
     \/ /\ Fault /\ daemon.st # "Crashed"
        /\ Return("failed")
        /\ Dropping \/ UNCHANGED <<daemon, stage>>
        /\ UNCHANGED shown
  /\ UNCHANGED <<env, fixed>>

(* waitDisconnected *)
WaitDown ==
  /\ pc = "down"
  /\ IF AtRest
     THEN IF kind = "connect" THEN GoOn("set") ELSE Return("ok")
     ELSE Return("failed")  \* at the deadline
  /\ UNCHANGED <<daemon, env, shown, fixed, stage, faults>>

(* set protocol, refused while the daemon reconnects by itself *)
SetProtocol ==
  /\ pc = "set"
  /\ \/ /\ daemon.st \notin {"Reconnecting", "DisconnectingToReconnect", "Crashed"}
        /\ GoOn("dial") /\ NoFault
     \/ /\ daemon.st \in {"Reconnecting", "DisconnectingToReconnect", "Crashed"}
        /\ Return("failed") /\ NoFault
     \/ Return("failed") /\ Fault
  /\ UNCHANGED <<daemon, env, shown, fixed, stage>>

(* What cli.Connect makes of the daemon: a session that it takes for live    *)
(* stays, or is moved by the daemon's own way.                               *)
Dialled ==
  CASE daemon.st = "Disconnected" -> D("Connecting", want)
    [] daemon.st = "Connected" /\ daemon.loc # want -> D("DisconnectingToReconnect", want)
    [] OTHER -> daemon

Hopeless == ~account \/ want \notin Known

(* cli.Connect; not_logged_in and unknown_location end the call at once. *)
Dial ==
  /\ pc = "dial"
  /\ \/ /\ daemon.st \in {"Disconnected", "Connected"} /\ ~Hopeless
        /\ SetDaemon(Dialled)
        /\ GoOn("up") /\ NoFault
     \/ /\ daemon.st # "Crashed" /\ Hopeless
        /\ Return("failed")
        /\ UNCHANGED <<daemon, stage, faults>>
     \/ /\ daemon.st \notin {"Disconnected", "Connected"}
        /\ daemon.st # "Crashed" => ~Hopeless
        /\ Retry  \* Timed out
        /\ UNCHANGED <<daemon, stage, faults>>
     \/ /\ Fault /\ daemon.st \in {"Disconnected", "Connected"} /\ ~Hopeless
        /\ Retry
        /\ SetDaemon(Dialled) \/ UNCHANGED <<daemon, stage>>
  /\ UNCHANGED <<env, shown, fixed>>

(* waitConnected *)
WaitUp ==
  /\ pc = "up"
  /\ IF daemon.st = "Connected" THEN GoOn("after") ELSE Retry
  /\ UNCHANGED <<daemon, env, shown, fixed, stage, faults>>

AfterConnect ==
  /\ pc = "after"
  /\ shown' = want
  /\ Return("ok")
  /\ UNCHANGED <<daemon, env, fixed, stage, faults>>

Driver ==
  Ensure \/ Drop \/ WaitDown \/ SetProtocol \/ Dial \/ WaitUp \/ AfterConnect

-----------------------------------------------------------------------------
(* Login and Logout: operations of another resource than connect.  What      *)
(* Logout writes of the connection is not in this module.                    *)
Login ==
  /\ daemon.st # "Crashed"
  /\ account' = TRUE /\ auth' = TRUE
  /\ UNCHANGED <<daemon, shown, pc, fixed, attempt, result, stage, faults>>

Logout ==
  /\ daemon.st # "Crashed"
  /\ account' = FALSE /\ auth' = FALSE
  /\ Dropping
  /\ UNCHANGED <<shown, pc, fixed, attempt, result, faults>>

(* The daemon by itself. *)
DaemonRest == UNCHANGED <<env, shown, pc, fixed, attempt, result>>

Settles(from, to) ==
  /\ daemon.st = from
  /\ SetDaemon(D(to, daemon.loc))
  /\ NoFault
  /\ DaemonRest

DaemonSettles ==
  \/ Settles("Disconnecting", "Disconnected")
  \/ Settles("Connecting", "Connected")
  \/ Settles("DisconnectingToReconnect", "Reconnecting")
  \/ Settles("Interrupted", "Reconnecting")
  \/ Settles("Reconnecting", "Connected")

DaemonDrops ==
  /\ daemon.st = "Connected" /\ Fault
  /\ \E st \in {"Interrupted", "Reconnecting"} : SetDaemon(D(st, daemon.loc))
  /\ DaemonRest

DaemonCrashes ==
  /\ daemon.st # "Crashed" /\ Fault
  /\ SetDaemon(D("Crashed", daemon.loc))
  /\ DaemonRest

(* A daemon that had a session may restore it. *)
DaemonRestarts ==
  /\ daemon.st = "Crashed"
  /\ \/ SetDaemon(D("Disconnected", None))
     \/ daemon.loc # None /\ SetDaemon(D("Reconnecting", daemon.loc))
  /\ NoFault
  /\ DaemonRest

(* expressvpnctl connect between two calls, not by the agent (superviseOnce  *)
(* knows of these).                                                          *)
Outside ==
  /\ pc = "idle" /\ daemon.st = "Disconnected" /\ account /\ Fault
  /\ \E loc \in Known : SetDaemon(D("Connecting", loc))
  /\ DaemonRest

Next ==
  \/ Begin \/ Driver
  \/ Login \/ Logout
  \/ DaemonSettles \/ DaemonDrops \/ DaemonCrashes \/ DaemonRestarts \/ Outside

Spec == Init /\ [][Next]_vars

(* The calls of the loop go on; of the daemon nothing is expected. *)
FairSpec == Spec /\ WF_vars(Driver)

-----------------------------------------------------------------------------
TypeOK ==
  /\ daemon \in [st : Raw \cup {"Crashed"}, loc : Known \cup {None}]
  /\ account \in BOOLEAN /\ auth \in BOOLEAN
  /\ shown \in Locations \cup {None}
  /\ pc \in {"idle", "ensure", "drop", "down", "set", "dial", "up", "after"}
  /\ kind \in {"connect", "disconnect"} /\ want \in Locations
  /\ attempt \in 1..Retries
  /\ result \in {"none", "ok", "failed"}
  /\ stage \in {"called", "released", "established"}
  /\ faults \in 0..MaxFaults

(* The driver keeps the contract of SessionContract: a connect reported as   *)
(* done (manager.go:64) is a session newer than the call and to the wanted   *)
(* location, never a dead one that the daemon still takes for live, one that *)
(* it started by itself before, or a late answer to an earlier attempt; a    *)
(* disconnect reported as done has been seen in Disconnected.                *)
Contract == Promise!Spec

(* connect is sent to a daemon in Disconnected only, or to one that is not   *)
(* there: never to one that would ignore it, take its own way, or let it     *)
(* time out (manager.go:77).                                                 *)
DialsFromDisconnected ==
  pc = "dial" => daemon.st \in {"Disconnected", "Crashed"}

(* Whatever the daemon does, and if it never does anything again, each call  *)
(* comes back: no loop waits for the daemon without an end.                  *)
CallsReturn == pc # "idle" ~> pc = "idle"
=============================================================================
