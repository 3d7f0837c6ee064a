----------------------------- MODULE DataFiles -----------------------------
(***************************************************************************)
(* The two documents the agent keeps in its volume and in memory: the      *)
(* configuration (internal/config/store.go), patched under a lock and      *)
(* saved through a temporary file of its own, and the list of locations    *)
(* (internal/xvpn/locations.go), refreshed by goroutines that share one    *)
(* temporary file.  Writes fail, and the container stops between any two   *)
(* steps and reads the files again.                                        *)
(*                                                                         *)
(* A configuration is three of its fields, one that another requires and   *)
(* one that is masked for readers; a list of locations is a version of the *)
(* daemon's.  Files are inodes, so that a rename moves what is being       *)
(* written.                                                                *)
(***************************************************************************)
EXTENDS Naturals

CONSTANTS Clients, Refreshers,
          Hosts, Secrets,
          Patches,  \* bound: the patches that clients send
          None,
          MaxPatches, MaxLists, MaxRefreshes, MaxFaults, MaxCrashes  \* bounds

ASSUME DataAssumption ==
  /\ None \notin Clients \cup Refreshers
  /\ {"", "***", "absent", "null"} \cap (Hosts \cup Secrets) = {}
  /\ MaxPatches \in Nat /\ MaxLists \in Nat /\ MaxRefreshes \in Nat
  /\ MaxFaults \in Nat /\ MaxCrashes \in Nat

Modes == {"host", "socks5"}
Configs == [mode : Modes \cup {""}, host : Hosts \cup {""}, password : Secrets \cup {"", "***"}]
Default == [mode |-> "host", host |-> "", password |-> ""]

(* A merge patch leaves a field out, deletes it, or sets it. *)
MergePatches == [mode : Modes \cup {"absent", "null"},
                 host : Hosts \cup {"absent", "null"},
                 password : Secrets \cup {"absent", "null", "***"}]

ASSUME PatchAssumption == Patches \subseteq MergePatches /\ None \notin Patches

VARIABLES
  \* config.Store
  file,     \* config.json
  cur,      \* s.cur
  lock,     \* s.mu: the client whose patch has it
  patch,    \* each client's patch: [pc, patch, next]
  \* LocationCache
  daemon,   \* version of the daemon's list
  list,     \* c.data
  inode,    \* contents: a version, 0 for a file that is empty or mixed
  locs,     \* the inode of locations.json, 0 for none
  tmp,      \* the inode of locations.json.tmp, 0 for none
  fresh,    \* each Refresh: [pc, v, fd]
  mixed,    \* history: two of them have overlapped
  patches, refreshes, faults, crashes

configVars == <<file, cur, lock, patch, patches>>
locVars == <<daemon, list, inode, locs, tmp, fresh, mixed, refreshes>>
vars == <<configVars, locVars, faults, crashes>>

Waiting == [pc |-> "idle", patch |-> None, next |-> Default]
NoRefresh == [pc |-> "idle", v |-> 0, fd |-> 0]

Init ==
  /\ file = Default /\ cur = Default /\ lock = None
  /\ patch = [c \in Clients |-> Waiting]
  /\ daemon = 1 /\ list = 0 /\ locs = 0 /\ tmp = 0
  /\ inode = [i \in 1..MaxRefreshes |-> 0]
  /\ fresh = [r \in Refreshers |-> NoRefresh] /\ mixed = FALSE
  /\ patches = 0 /\ refreshes = 0 /\ faults = MaxFaults /\ crashes = 0

Fault == faults > 0 /\ faults' = faults - 1
NoFault == UNCHANGED faults

-----------------------------------------------------------------------------
(* The configuration. *)
(* Mutant: a mask sent back is taken for a password. *)
KeepsMaskToo(f, p) == p = "absent"

(* What a patch leaves: a password that comes back as its mask is one of     *)
(* these.                                                                    *)
Keeps(f, p) == p = "absent" \/ (f = "password" /\ p = "***")

Merge(c, p) ==
  [f \in DOMAIN c |-> IF Keeps(f, p[f]) THEN c[f] ELSE IF p[f] = "null" THEN "" ELSE p[f]]

Valid(c) == c.mode \in Modes /\ (c.mode = "socks5" => c.host # "")

Send(c) ==
  /\ patch[c].pc = "idle" /\ patches < MaxPatches
  /\ patches' = patches + 1
  /\ \E p \in Patches : patch' = [patch EXCEPT ![c] = [pc |-> "lock", patch |-> p, next |-> Default]]
  /\ UNCHANGED <<file, cur, lock, locVars, faults, crashes>>

Answer(c) ==
  /\ patch' = [patch EXCEPT ![c] = Waiting]
  /\ lock' = None

(* ApplyMergePatch under s.mu: merged, validated, compared; *)
MergePatch(c) ==
  /\ patch[c].pc = "lock" /\ lock = None
  /\ LET next == Merge(cur, patch[c].patch)
     IN  IF Valid(next) /\ next # cur
         THEN /\ patch' = [patch EXCEPT ![c].pc = "save", ![c].next = next]
              /\ lock' = c
         ELSE Answer(c)
  /\ UNCHANGED <<file, cur, patches, locVars, faults, crashes>>

(* Mutant: memory first. *)
BeforeSavingRemember(c) == cur' = patch[c].next

BeforeSaving(c) == UNCHANGED cur

(* save: the temporary file, which nobody else sees, is written and synced,  *)
WriteTemp(c) ==
  /\ patch[c].pc = "save"
  /\ BeforeSaving(c)
  /\ \/ /\ patch' = [patch EXCEPT ![c].pc = "rename"]
        /\ UNCHANGED lock
        /\ NoFault
     \/ Answer(c) /\ Fault
  /\ UNCHANGED <<file, patches, locVars, crashes>>

(* and takes the place of the old one; *)
Rename(c) ==
  /\ patch[c].pc = "rename"
  /\ \/ /\ file' = patch[c].next
        /\ patch' = [patch EXCEPT ![c].pc = "commit"]
        /\ UNCHANGED lock
        /\ NoFault
     \/ /\ Answer(c) /\ Fault
        /\ UNCHANGED file
  /\ UNCHANGED <<cur, patches, locVars, crashes>>

(* then memory follows. *)
Commit(c) ==
  /\ patch[c].pc = "commit"
  /\ cur' = patch[c].next
  /\ Answer(c)
  /\ UNCHANGED <<file, patches, locVars, faults, crashes>>

Patching(c) == Send(c) \/ MergePatch(c) \/ WriteTemp(c) \/ Rename(c) \/ Commit(c)

-----------------------------------------------------------------------------
(* The locations.  The daemon's list changes; *)
NewList ==
  /\ daemon < MaxLists
  /\ daemon' = daemon + 1
  /\ UNCHANGED <<configVars, list, inode, locs, tmp, fresh, mixed, refreshes, faults, crashes>>

Running == {r \in Refreshers : fresh[r].pc # "idle"}

(* Login or refresh-locations starts a Refresh, which asks the daemon, *)
Ask(r) ==
  /\ fresh[r].pc = "idle" /\ refreshes < MaxRefreshes
  /\ refreshes' = refreshes + 1
  /\ fresh' = [fresh EXCEPT ![r] = [pc |-> "keep", v |-> daemon, fd |-> 0]]
  /\ mixed' = (mixed \/ Running # {})
  /\ UNCHANGED <<configVars, daemon, list, inode, locs, tmp, faults, crashes>>

(* keeps the answer in memory, *)
Keep(r) ==
  /\ fresh[r].pc = "keep"
  /\ list' = fresh[r].v
  /\ fresh' = [fresh EXCEPT ![r].pc = "open"]
  /\ UNCHANGED <<configVars, daemon, inode, locs, tmp, mixed, refreshes, faults, crashes>>

(* Mutant: the file itself is written. *)
TargetInPlace == locs

Target == tmp

Unused == CHOOSE i \in DOMAIN inode :
            i \notin {locs, tmp} \cup {fresh[r].fd : r \in Refreshers}

(* opens the temporary file, truncating the one it finds, *)
Open(r) ==
  /\ fresh[r].pc = "open"
  /\ LET i == IF Target = 0 THEN Unused ELSE Target
     IN  /\ inode' = [inode EXCEPT ![i] = 0]
         /\ tmp' = i
         /\ fresh' = [fresh EXCEPT ![r].pc = "write", ![r].fd = i]
  /\ UNCHANGED <<configVars, daemon, list, locs, mixed, refreshes, faults, crashes>>

(* writes it, perhaps over what another has written, or fails in the middle, *)
Write(r) ==
  /\ fresh[r].pc = "write"
  /\ \/ /\ fresh' = [fresh EXCEPT ![r].pc = "rename"]
        /\ NoFault
        /\ \E v \in {fresh[r].v} \cup (IF inode[fresh[r].fd] = 0 THEN {} ELSE {0}) :
             inode' = [inode EXCEPT ![fresh[r].fd] = v]
     \/ /\ Fault
        /\ inode' = [inode EXCEPT ![fresh[r].fd] = 0]
        /\ fresh' = [fresh EXCEPT ![r] = NoRefresh]
  /\ UNCHANGED <<configVars, daemon, list, locs, tmp, mixed, refreshes, crashes>>

(* and renames whatever has the temporary name by now. *)
Move(r) ==
  /\ fresh[r].pc = "rename"
  /\ locs' = IF tmp = 0 THEN locs ELSE tmp
  /\ tmp' = 0
  /\ fresh' = [fresh EXCEPT ![r] = NoRefresh]
  /\ UNCHANGED <<configVars, daemon, list, inode, mixed, refreshes, faults, crashes>>

Refresh(r) == Ask(r) \/ Keep(r) \/ Open(r) \/ Write(r) \/ Move(r)

-----------------------------------------------------------------------------
(* The container stops and starts: NewStore and NewLocationCache. *)
Restart ==
  /\ crashes < MaxCrashes
  /\ crashes' = crashes + 1
  /\ cur' = file /\ lock' = None
  /\ patch' = [c \in Clients |-> Waiting]
  /\ list' = IF locs = 0 THEN 0 ELSE inode[locs]
  /\ fresh' = [r \in Refreshers |-> NoRefresh]
  /\ UNCHANGED <<file, patches, daemon, inode, locs, tmp, mixed, refreshes, faults>>

Next ==
  \/ \E c \in Clients : Patching(c)
  \/ NewList
  \/ \E r \in Refreshers : Refresh(r)
  \/ Restart

Spec == Init /\ [][Next]_vars

-----------------------------------------------------------------------------
Document == INSTANCE AtomicDocument WITH
  doc <- file,
  NoPatch <- None,
  call <- [c \in Clients |-> [patch |-> patch[c].patch, done |-> patch[c].pc = "commit"]]

(* Patches that overlap, fail to be saved or are cut off by a stop of the    *)
(* container are all or nothing, each applied to what the others left, and   *)
(* what a client was told holds after a restart (store.go:56-105).           *)
ConfigIsAtomic == Document!Spec

(* The mask that readers see in place of a password (config.go:108) is never *)
(* kept as one, in memory or in the volume, and what the agent reads at its  *)
(* next start is valid, so that it does start (store.go:38).                 *)
StoredConfigStarts == \A c \in {file, cur} : Valid(c) /\ c.password # "***"

(* Unless two Refreshes overlap (locations.go:83), the list in the volume is *)
(* never one that is half written, and once a Refresh is over without an     *)
(* error it is the list in memory: neither a failed write nor a stop of the  *)
(* container costs the list that was there.                                  *)
LocationsWhole ==
  ~mixed /\ locs # 0 =>
    /\ inode[locs] # 0
    /\ Running = {} /\ faults = MaxFaults => inode[locs] = list
=============================================================================
