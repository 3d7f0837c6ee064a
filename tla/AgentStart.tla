----------------------------- MODULE AgentStart -----------------------------
(***************************************************************************)
(* The agent from one start of its container to the next:                  *)
(*   cmd/detour-agent/main.go     run: the order of start and stop, and    *)
(*                                the goroutine that waits for the rules   *)
(*                                before it opens the proxy                *)
(*   internal/xvpn/statedir.go    the daemon's directory moved to the      *)
(*                                volume                                   *)
(*   internal/api/token.go        the API token, kept on the volume        *)
(* on top of the kill switch (module KillSwitch), whose rules live as long *)
(* as the container runs.                                                  *)
(*                                                                         *)
(* The volume outlives everything.  A container that is started again      *)
(* keeps its own files, one that is created anew gets those of the image.  *)
(* An error of a step of the start ends the process as a crash does.       *)
(***************************************************************************)
EXTENDS KillSwitch, FiniteSets

CONSTANTS Files,        \* what the daemon keeps in its directory
          MaxTokens,    \* bound: tokens ever made
          MaxStarts     \* bound: starts of the container

ASSUME StartAssumption == MaxTokens \in Nat \ {0} /\ MaxStarts \in Nat \ {0}

VARIABLES
  agent,     \* off; link, copy, symlink (EnsureStateDir); token
             \* (NewTokenStore); up; stopping
  starts,    \* starts so far
  image,     \* whether the image has a directory of its own for the daemon
  etc,       \* /opt/expressvpn/etc: absent, dir, link
  target,    \* <dataDir>/expressvpn: what it has of each file: absent, torn, seed, own
  copying,   \* the files copyTree has still to copy
  written,   \* history: files the daemon has written
  file,      \* <dataDir>/auth/token; 0 when it holds no token
  token,     \* TokenStore.token
  rotating,  \* a generate() is between truncating the file and writing it
  made,      \* tokens made so far, numbered
  retired,   \* history: tokens that a successful Rotate has replaced
  proxy,     \* none, waiting, running, failed, stopped
  slot       \* the snapshot waiting in the proxy's subscription: its killswitch.active

dirVars == <<etc, target, copying, written>>
tokenVars == <<file, token, rotating, made, retired>>
proxyVars == <<proxy, slot>>
vars == <<agent, starts, image, dirVars, tokenVars, proxyVars, ksVars>>

Empty == [f \in Files |-> "absent"]

Init ==
  /\ KsInit
  /\ agent = "off" /\ starts = 0
  /\ image \in BOOLEAN /\ etc = IF image THEN "dir" ELSE "absent"
  /\ target = Empty /\ copying = {} /\ written = {}
  /\ file = 0 /\ token = 0 /\ rotating = FALSE /\ made = 0 /\ retired = {}
  /\ proxy = "none" /\ slot = None

-----------------------------------------------------------------------------
(* The container.                                                          *)

\* A new process in a new network namespace.
Start ==
  /\ agent = "off" /\ starts < MaxStarts
  /\ agent' = "link" /\ starts' = starts + 1
  /\ UNCHANGED <<image, dirVars, tokenVars, proxyVars, ksVars>>

\* The process ends, by itself or not: its memory and the rules are gone.
Ends ==
  /\ agent' = "off"
  /\ lc' = None /\ appliedKS' = None /\ active' = FALSE
  /\ apply' = "idle" /\ p' = Defaults /\ params' = Defaults
  /\ nft' = None /\ chain' = None /\ jump' = FALSE /\ tried' = {}
  /\ copying' = {} /\ token' = 0 /\ rotating' = FALSE
  /\ proxy' = "none" /\ slot' = None
  /\ UNCHANGED <<starts, image, etc, target, written, file, made, retired>>

Crash == agent # "off" /\ Ends

Recreate ==
  /\ agent = "off"
  /\ etc' = IF image THEN "dir" ELSE "absent"
  /\ UNCHANGED <<agent, starts, image, target, copying, written, tokenVars, proxyVars, ksVars>>

-----------------------------------------------------------------------------
(* EnsureStateDir.                                                         *)

\* Mutant: the image's files are copied whatever the volume holds.
SeedDueAlways == etc = "dir"
SeedDue == etc = "dir" /\ target = Empty

SeedBegins ==
  /\ agent = "link" /\ SeedDue
  /\ agent' = "copy" /\ copying' = Files
  /\ UNCHANGED <<starts, image, etc, target, written, tokenVars, proxyVars, ksVars>>

\* copyFile truncates the copy before it fills it.
CopyFile ==
  /\ agent = "copy"
  /\ \E f \in copying :
       \/ /\ target[f] # "torn"
          /\ target' = [target EXCEPT ![f] = "torn"]
          /\ UNCHANGED copying
       \/ /\ target[f] = "torn"
          /\ target' = [target EXCEPT ![f] = "seed"]
          /\ copying' = copying \ {f}
  /\ UNCHANGED <<agent, starts, image, etc, written, tokenVars, proxyVars, ksVars>>

\* RemoveAll, when all is copied or there was nothing to copy ...
Clear ==
  /\ \/ agent = "copy" /\ copying = {}
     \/ agent = "link" /\ etc = "dir" /\ ~SeedDue
  /\ agent' = "symlink" /\ etc' = "absent"
  /\ UNCHANGED <<starts, image, target, copying, written, tokenVars, proxyVars, ksVars>>

\* ... and the link.
Link ==
  /\ \/ agent = "symlink"
     \/ agent = "link" /\ etc # "dir"
  /\ agent' = "token" /\ etc' = "link"
  /\ UNCHANGED <<starts, image, target, copying, written, tokenVars, proxyVars, ksVars>>

\* The daemon saves what it has, wherever its directory is.
DaemonWrites ==
  /\ agent = "up"
  /\ \E f \in Files \ written :
       /\ written' = written \cup {f}
       /\ target' = IF etc = "link" THEN [target EXCEPT ![f] = "own"] ELSE target
  /\ UNCHANGED <<agent, starts, image, etc, copying, tokenVars, proxyVars, ksVars>>

-----------------------------------------------------------------------------
(* The token.                                                              *)

\* generate() opens the file, which empties it ...
Truncate ==
  /\ ~rotating /\ made < MaxTokens
  /\ \/ agent = "token" /\ file = 0
     \/ agent = "up"
  /\ rotating' = TRUE /\ file' = 0
  /\ UNCHANGED <<agent, starts, image, dirVars, token, made, retired, proxyVars, ksVars>>

\* ... and writes it; only then does the new token replace the one in memory.
Generated ==
  /\ rotating
  /\ rotating' = FALSE /\ made' = made + 1
  /\ file' = made + 1 /\ token' = made + 1
  /\ retired' = IF agent = "up" THEN retired \cup {token} ELSE retired
  /\ agent' = IF agent = "token" THEN "up" ELSE agent
  /\ UNCHANGED <<starts, image, dirVars, proxyVars, ksVars>>

\* Rotate fails, at opening the file or at writing it.
\* Mutant: the new token is in use before it is saved, and the failure is only logged.
RotateFailsLate(t) == made' = made + 1 /\ token' = made + 1 /\ retired' = retired \cup {t}
RotateFailsWith(t) == token' = t /\ UNCHANGED <<made, retired>>
RotateFails ==
  /\ agent = "up" /\ made < MaxTokens
  /\ RotateFailsWith(token)
  /\ rotating' = FALSE
  /\ UNCHANGED <<agent, starts, image, dirVars, file, proxyVars, ksVars>>

\* NewTokenStore finds a token in the file.
ReadToken ==
  /\ agent = "token" /\ ~rotating /\ file # 0
  /\ agent' = "up" /\ token' = file
  /\ UNCHANGED <<starts, image, dirVars, file, rotating, made, retired, proxyVars, ksVars>>

-----------------------------------------------------------------------------
(* The proxy and the kill switch.                                          *)

\* The goroutine subscribes, and is given the current state.
Subscribe ==
  /\ agent = "up" /\ proxy = "none"
  /\ proxy' = "waiting" /\ slot' = active
  /\ UNCHANGED <<agent, starts, image, dirVars, tokenVars, ksVars>>

\* Every Update of the loop leaves its state in the subscription.
Published == IF proxy = "waiting" THEN slot' = active' ELSE UNCHANGED slot

LoopStep ==
  /\ agent = "up"
  /\ KsNext
  /\ IF apply' = "idle" THEN Published ELSE UNCHANGED slot
  /\ UNCHANGED <<agent, starts, image, dirVars, tokenVars, proxy>>

\* A snapshot arrives; the proxy is opened once, and may fail to listen.
\* Mutant: it opens on the first snapshot that comes.
MayServeAnyway(snapshot) == snapshot \in BOOLEAN
MayServe(snapshot) == snapshot = TRUE
Receive ==
  /\ agent = "up" /\ proxy = "waiting" /\ slot # None
  /\ proxy' \in IF MayServe(slot) THEN {"running", "failed"} ELSE {"waiting"}
  /\ slot' = None
  /\ UNCHANGED <<agent, starts, image, dirVars, tokenVars, ksVars>>

-----------------------------------------------------------------------------
\* SIGTERM: the listener closes, open relays stay until the process ends; the
\* loop stops where it is, and so may a command of Apply.
Terminate ==
  /\ agent = "up"
  /\ agent' = "stopping"
  /\ proxy' = IF proxy = "running" THEN "stopped" ELSE proxy
  /\ UNCHANGED <<starts, image, dirVars, tokenVars, slot, ksVars>>

\* The daemon and the uplink have stopped, or the budget is used up.
Exit == agent = "stopping" /\ Ends

Next ==
  \/ Start \/ Crash \/ Recreate
  \/ SeedBegins \/ CopyFile \/ Clear \/ Link \/ DaemonWrites
  \/ Truncate \/ Generated \/ RotateFails \/ ReadToken
  \/ Subscribe \/ LoopStep \/ Receive
  \/ Terminate \/ Exit

Spec == Init /\ [][Next]_vars

-----------------------------------------------------------------------------
(* Properties.                                                             *)

\* Every variable has its type.
TypeOK ==
  /\ KsTypeOK
  /\ agent \in {"off", "link", "copy", "symlink", "token", "up", "stopping"}
  /\ starts \in 0..MaxStarts /\ image \in BOOLEAN
  /\ etc \in {"absent", "dir", "link"}
  /\ target \in [Files -> {"absent", "torn", "seed", "own"}]
  /\ copying \subseteq Files /\ written \subseteq Files
  /\ {file, token, made} \subseteq 0..MaxTokens
  /\ retired \subseteq 1..MaxTokens /\ rotating \in BOOLEAN
  /\ proxy \in {"none", "waiting", "running", "failed", "stopped"}
  /\ slot \in BOOLEAN \cup {None}

\* What an uplink permits to leave the container, whatever the order of rules:
\* the proxy's sockets send into the tunnel and to docker's network, and past a
\* proxy of the user's nothing goes out by the container's own interface except
\* to that proxy and to docker's network.
Permitted(r) ==
  {k \in Packets :
     \/ k.dev = "lo"
     \/ k.marked /\ (k.dev = "tun0" \/ (k.dev = "eth0" /\ k.dst = "docker"))
     \/ ~k.marked /\ (r.mode = "host" \/ k.dev # "eth0" \/ k.dst \in {"docker", r.ip})}

\* From the moment clients are let in, and until the process ends, some set of
\* rules that was asked for since the last success, or that success's own, is in
\* force: while rules are replaced, when an Apply fails at any of its commands,
\* and when one back end takes over from the other.
NeverUnprotected ==
  proxy \in {"running", "stopped"} =>
    \E r \in tried \cup {params} : Leaving \subseteq Permitted(r)

\* What the daemon has saved is never lost or replaced by the image's files,
\* however often and at whatever step of the start the process was killed and
\* whether its container was restarted or made anew.
SessionKept == \A f \in written : target[f] = "own"

\* A token that was replaced by a rotation its caller was told of is never valid
\* again, in this process or after any restart.
RetiredTokenDead == agent = "up" => token \notin retired
=============================================================================
