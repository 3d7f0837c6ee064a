------------------------------ MODULE Sessions ------------------------------
(***************************************************************************)
(* internal/api/sessions.go and auth_handlers.go: the two files in the     *)
(* volume that say how the agent is protected, the requests that read and  *)
(* write them step by step without a common lock, the sessions in memory,  *)
(* the pause after wrong passwords, the reset-password process beside the  *)
(* agent, and a stop of the container between any two steps.               *)
(*                                                                         *)
(* A request is a program, a sequence of steps: a step goes on to the      *)
(* next, or answers with a refusal.  Hashes, cookies and CSRF are left     *)
(* out; two writes of the password file never have the same time.          *)
(***************************************************************************)
EXTENDS Naturals, Sequences, FiniteSets

CONSTANTS Clients,
          Host,          \* runs reset-password
          Passwords, None, Torn,
          ThrottleAfter, \* throttleAfter
          MaxRequests,   \* bound
          MaxCrashes     \* bound

ASSUME SessionsAssumption ==
  /\ Host \notin Clients
  /\ {None, Torn} \cap Passwords = {}
  /\ ThrottleAfter \in Nat \ {0}
  /\ MaxRequests \in Nat /\ MaxCrashes \in Nat

VARIABLES
  password,  \* <auth>/password: None, or [pw, ver]; Torn between truncation and write
  marker,    \* <auth>/disabled exists
  sess,      \* each client's session: None, or [ver] and history [proved, overlap]
  failures,  \* wrong passwords in a row
  blocked,   \* blockedTo is ahead
  late,      \* history: wrong passwords counted since it is
  under,     \* history: requests under way when it became so
  req,       \* each actor's request: [op, i, pw, new, seen, off, ok, ver, met];
             \* history: met, it has been under way together with another
  last,      \* history: the request that succeeded last if it met no other, None
             \* once another began
  writes,    \* of the password file, its modification time
  begun, crashes

files == <<password, marker, writes>>
throttle == <<failures, blocked, late, under>>
vars == <<files, sess, throttle, req, last, begun, crashes>>

Actors == Clients \cup {Host}
Gate == <<"peek", "sweep", "session">>  \* requireAuth
Set == <<"truncate", "hash", "unmark", "create">>
Verify == <<"blocked", "verify", "count">>

Program == [
  get       |-> Gate,
  setup     |-> <<"peek", "sweep", "unset">> \o Set,
  skip      |-> <<"unset", "peek", "sweep", "enabled", "unset", "mark">>,
  login     |-> <<"set">> \o Verify \o <<"create">>,
  change    |-> Gate \o Verify \o Set,
  disable   |-> Gate \o <<"set">> \o Verify \o <<"mark", "unhash", "drop">>,
  logout    |-> Gate \o <<"forget">>,
  logoutAll |-> Gate \o <<"drop">>,
  reset     |-> <<"unhash", "unmark">>]

ASSUME NoneAssumption ==
  None \notin DOMAIN Program \cup [pw : Passwords \cup {Torn}, ver : Nat]

NoRequest == [op |-> "none", i |-> 1, pw |-> None, new |-> None, seen |-> FALSE,
              off |-> FALSE, ok |-> FALSE, ver |-> 0, met |-> FALSE]

HasPassword == password # None

(* Mutant: the fingerprint without the time, every hash has the same size. *)
VersionOfSize == IF HasPassword THEN 1 ELSE 0

Version == IF HasPassword THEN password.ver ELSE 0

Init ==
  /\ writes = 1
  /\ password \in {None} \cup {[pw |-> p, ver |-> 1] : p \in Passwords}
  /\ marker \in BOOLEAN
  /\ sess \in [Clients -> {None} \cup
                 {[ver |-> 1, proved |-> password.pw, overlap |-> FALSE] : x \in {1} \cap {Version}}]
  /\ failures = 0 /\ blocked = FALSE /\ late = 0 /\ under = 0
  /\ req = [a \in Actors |-> NoRequest]
  /\ last = None /\ begun = 0 /\ crashes = 0

-----------------------------------------------------------------------------
Busy == {a \in Actors : req[a].op # "none"}

Begin(a, op, pw, new) ==
  /\ req[a].op = "none"
  /\ begun < MaxRequests
  /\ begun' = begun + 1
  /\ req' = [b \in Actors |->
       IF b = a
       THEN [NoRequest EXCEPT !.op = op, !.pw = pw, !.new = new, !.met = Busy # {}]
       ELSE [req[b] EXCEPT !.met = b \in Busy]]
  /\ last' = None
  /\ UNCHANGED <<files, sess, throttle, crashes>>

Client(c) ==
  \/ \E op \in {"get", "skip", "logout", "logoutAll"} : Begin(c, op, None, None)
  \/ \E p \in Passwords : Begin(c, "login", p, None) \/ Begin(c, "disable", p, None)
  \/ \E p \in Passwords : Begin(c, "setup", None, p)
  \/ \E p, q \in Passwords : Begin(c, "change", p, q)

At(a, step) == req[a].op # "none" /\ Program[req[a].op][req[a].i] = step

(* The request leaves its step with r; after its last step it has succeeded. *)
Proceed(a, r) ==
  IF r.i < Len(Program[r.op])
  THEN /\ req' = [req EXCEPT ![a] = [r EXCEPT !.i = @ + 1]]
       /\ UNCHANGED last
  ELSE /\ req' = [req EXCEPT ![a] = NoRequest]
       /\ last' = IF r.met THEN None ELSE r.op

Refuse(a) ==
  /\ req' = [req EXCEPT ![a] = NoRequest]
  /\ UNCHANGED last

Expect(a, cond, r) == IF cond THEN Proceed(a, r) ELSE Refuse(a)

(* AuthDisabled looks for the password, *)
Peek(a) ==
  /\ At(a, "peek")
  /\ Proceed(a, [req[a] EXCEPT !.seen = HasPassword])
  /\ UNCHANGED <<files, sess, throttle>>

(* and then removes the marker, or looks for it. *)
Sweep(a) ==
  /\ At(a, "sweep")
  /\ marker' = (marker /\ ~req[a].seen)
  /\ Proceed(a, [req[a] EXCEPT !.seen = FALSE, !.off = marker'])
  /\ UNCHANGED <<password, writes, sess, throttle>>

Valid(c) == sess[c] # None /\ sess[c].ver = Version

(* VerifyRequest; a session of another version is forgotten. *)
Session(a) ==
  /\ At(a, "session")
  /\ Expect(a, req[a].off \/ Valid(a), [req[a] EXCEPT !.off = FALSE])
  /\ sess' = IF req[a].off \/ Valid(a) THEN sess ELSE [sess EXCEPT ![a] = None]
  /\ UNCHANGED <<files, throttle>>

Look(a) ==
  /\ \/ At(a, "unset") /\ Expect(a, ~HasPassword, req[a])
     \/ At(a, "set") /\ Expect(a, HasPassword, req[a])
     \/ At(a, "enabled") /\ Expect(a, ~req[a].off, [req[a] EXCEPT !.off = FALSE])
  /\ UNCHANGED <<files, sess, throttle>>

(* VerifyPassword: the pause is looked up, the file read, and the outcome    *)
(* counted in steps of their own.                                            *)
(* Mutant: without the pause. *)
MayTryAlways(a) == TRUE

MayTry(a) == ~blocked

AskThrottle(a) ==
  /\ At(a, "blocked")
  /\ Expect(a, MayTry(a), req[a])
  /\ UNCHANGED <<files, sess, throttle>>

Read(a) ==
  /\ At(a, "verify")
  /\ Expect(a, HasPassword,
            [req[a] EXCEPT !.ok = HasPassword /\ password.pw = req[a].pw, !.ver = Version])
  /\ UNCHANGED <<files, sess, throttle>>

Count(a) ==
  /\ At(a, "count")
  /\ Expect(a, req[a].ok, [req[a] EXCEPT !.ok = FALSE])
  /\ IF req[a].ok
     THEN failures' = 0 /\ UNCHANGED <<blocked, late, under>>
     ELSE LET full == failures + 1 >= ThrottleAfter
          IN  /\ failures' = IF full THEN 0 ELSE failures + 1
              /\ blocked' = (blocked \/ full)
              /\ late' = IF blocked THEN late + 1 ELSE 0
              /\ under' = IF blocked THEN under ELSE Cardinality(Busy \ {a})
  /\ UNCHANGED <<files, sess>>

Unblock ==
  /\ blocked
  /\ blocked' = FALSE
  /\ UNCHANGED <<files, sess, failures, late, under, req, last, begun, crashes>>

(* SetPassword: WriteFile truncates and then writes, and the marker goes. *)
Write(a, pw) ==
  /\ password' = [pw |-> pw, ver |-> writes + 1]
  /\ writes' = writes + 1
  /\ Proceed(a, [req[a] EXCEPT !.ver = writes + 1])
  /\ UNCHANGED <<marker, sess, throttle>>

Truncate(a) == At(a, "truncate") /\ Write(a, Torn)
Hash(a) == At(a, "hash") /\ Write(a, req[a].new)

(* Mutant: reset-password leaves the marker. *)
UnmarkUnlessReset(a) == marker' = (marker /\ req[a].op = "reset")

RemoveMarker(a) == marker' = FALSE

Unmark(a) ==
  /\ At(a, "unmark")
  /\ RemoveMarker(a)
  /\ Proceed(a, req[a])
  /\ UNCHANGED <<password, writes, sess, throttle>>

Mark(a) ==
  /\ At(a, "mark")
  /\ marker' = TRUE
  /\ Proceed(a, req[a])
  /\ UNCHANGED <<password, writes, sess, throttle>>

Unhash(a) ==
  /\ At(a, "unhash")
  /\ password' = None
  /\ Proceed(a, req[a])
  /\ UNCHANGED <<marker, writes, sess, throttle>>

(* CreateSession takes the version of the file as it is now. *)
Create(a) ==
  /\ At(a, "create")
  /\ sess' = [sess EXCEPT ![a] =
       [ver |-> Version,
        proved |-> IF req[a].op = "login" THEN req[a].pw ELSE req[a].new,
        overlap |-> ~HasPassword \/ req[a].ver # password.ver]]
  /\ Proceed(a, req[a])
  /\ UNCHANGED <<files, throttle>>

DropSession(a) ==
  /\ At(a, "forget")
  /\ sess' = [sess EXCEPT ![a] = None]
  /\ Proceed(a, req[a])
  /\ UNCHANGED <<files, throttle>>

DropAll(a) ==
  /\ At(a, "drop")
  /\ sess' = [c \in Clients |-> None]
  /\ Proceed(a, req[a])
  /\ UNCHANGED <<files, throttle>>

Step(a) ==
  /\ \/ Peek(a) \/ Sweep(a) \/ Session(a) \/ Look(a)
     \/ AskThrottle(a) \/ Read(a) \/ Count(a)
     \/ Truncate(a) \/ Hash(a) \/ Unmark(a) \/ Mark(a) \/ Unhash(a)
     \/ Create(a) \/ DropSession(a) \/ DropAll(a)
  /\ UNCHANGED <<begun, crashes>>

(* The container stops and starts: the files stay as they are. *)
Crash ==
  /\ crashes < MaxCrashes
  /\ crashes' = crashes + 1
  /\ sess' = [c \in Clients |-> None]
  /\ failures' = 0 /\ blocked' = FALSE /\ late' = 0 /\ under' = 0
  /\ req' = [a \in Actors |-> NoRequest]
  /\ last' = None
  /\ UNCHANGED <<files, begun>>

Next ==
  \/ \E c \in Clients : Client(c)
  \/ Begin(Host, "reset", None, None)
  \/ \E a \in Actors : Step(a)
  \/ Unblock
  \/ Crash

Spec == Init /\ [][Next]_vars

-----------------------------------------------------------------------------
Protection == IF HasPassword THEN "set" ELSE IF marker THEN "disabled" ELSE "unset"

Outcome == [setup |-> "set", change |-> "set", login |-> "set",
            skip |-> "disabled", disable |-> "disabled", reset |-> "unset"]

(* A request that succeeds and met no other leaves the protection that the   *)
(* state machine of the API promises for it, whatever a stop of the          *)
(* container or an earlier request left half done: a torn hash, a hash and   *)
(* the marker together (sessions.go:93-112, 134-158, 284-292).               *)
OutcomeWhenAlone ==
  last # None /\ last \in DOMAIN Outcome => Protection = Outcome[last]

(* A session that is accepted was opened with the password that is set now:  *)
(* it does not outlive a change, a reset or a removal of the password, also  *)
(* when another process made it (sessions.go:241-247).  A login during which *)
(* the file was written is not covered: it gets the new version.             *)
SessionOfPassword ==
  \A c \in Clients :
    HasPassword /\ Valid(c) /\ ~sess[c].overlap => sess[c].proved = password.pw

(* During the pause no wrong password is counted but those of the requests   *)
(* under way when it began, once each (sessions.go:161): the check, the hash *)
(* and the count are three steps.                                            *)
PauseHolds == blocked => late <= under
=============================================================================
