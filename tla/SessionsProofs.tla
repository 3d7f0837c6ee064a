--------------------------- MODULE SessionsProofs ---------------------------
(* Proofs about Sessions for any clients and passwords, any number of         *)
(* requests under way at once, and any number of stops of the container.      *)
EXTENDS Sessions, FiniteSetTheorems, TLAPS

Ops == {"get", "setup", "skip", "login", "change", "disable", "logout", "logoutAll", "reset"}
Hashes == [pw : Passwords \cup {Torn}, ver : Nat]
Tickets == [ver : Nat, proved : Passwords \cup {None, Torn}, overlap : BOOLEAN]
Requests == [op : Ops \cup {"none"}, i : Nat, pw : Passwords \cup {None}, new : Passwords \cup {None},
             seen : BOOLEAN, off : BOOLEAN, ok : BOOLEAN, ver : Nat, met : BOOLEAN]

SessionsType ==
  /\ password \in {None} \cup Hashes /\ marker \in BOOLEAN /\ writes \in Nat
  /\ sess \in [Clients -> {None} \cup Tickets]
  /\ failures \in Nat /\ blocked \in BOOLEAN /\ late \in Nat /\ under \in Nat
  /\ req \in [Actors -> Requests]
  /\ \A a \in Busy :
       /\ req[a].i \in 1..Len(Program[req[a].op])
       /\ req[a].op \in {"setup", "change"} => req[a].new \in Passwords
  /\ last \in {None} \cup Ops

(* Nothing refers to a version of the password file that is not written yet,  *)
(* and a request that has checked or written a password knows the version it  *)
(* did that with.                                                             *)
Fits(a, pw) == HasPassword /\ password.ver = req[a].ver => password.pw = pw

Checked(a) == req[a].op = "login" /\ ((req[a].i = 4 /\ req[a].ok) \/ req[a].i = 5)

Written(a) ==
  \/ req[a].op = "setup" /\ req[a].i \in 6..7
  \/ req[a].op = "change" /\ req[a].i \in 9..10

VersionInv ==
  /\ HasPassword => password.ver <= writes
  /\ \A c \in Clients : sess[c] # None => sess[c].ver <= writes
  /\ \A a \in Actors : req[a].ver <= writes
  /\ \A a \in Actors : (Checked(a) => Fits(a, req[a].pw)) /\ (Written(a) => Fits(a, req[a].new))

(* A request that meets no other finds the files as its own steps left them.  *)
Half(a) ==
  LET op == req[a].op
      i == req[a].i
  IN  /\ (op = "setup" /\ i >= 5) \/ (op = "change" /\ i >= 8) \/ (op = "login" /\ i >= 2) => HasPassword
      /\ (op = "skip" /\ i = 6) \/ (op = "disable" /\ i = 10) \/ (op = "reset" /\ i = 2) => ~HasPassword
      /\ op = "disable" /\ i >= 9 => marker

LoneInv ==
  /\ last # None => Busy = {}
  /\ \A a \in Busy : ~req[a].met => Busy = {a} /\ Half(a)

(* Requests that are past the look at the pause and have not counted yet: a   *)
(* pause that has begun leaves them, and every other has been refused.        *)
Unpaused == {a \in Actors : At(a, "verify") \/ At(a, "count")}

PauseInv ==
  /\ IsFiniteSet(Busy)
  /\ blocked => late + Cardinality(Unpaused) <= under

IInv == SessionsType /\ VersionInv /\ LoneInv /\ OutcomeWhenAlone /\ SessionOfPassword /\ PauseInv

-----------------------------------------------------------------------------
(* Where the programs have the steps that the invariants speak of. *)
LEMMA Programs == DOMAIN Program = Ops
  BY DEF Program, Ops

LEMMA Lengths ==
  /\ Len(Program["get"]) = 3 /\ Len(Program["setup"]) = 7 /\ Len(Program["skip"]) = 6
  /\ Len(Program["login"]) = 5 /\ Len(Program["change"]) = 10 /\ Len(Program["disable"]) = 10
  /\ Len(Program["logout"]) = 4 /\ Len(Program["logoutAll"]) = 4 /\ Len(Program["reset"]) = 2
  BY DEF Program, Gate, Set, Verify

LEMMA Length == ASSUME NEW op \in Ops PROVE Len(Program[op]) \in 2..10
<1>1. op \in {"get", "setup", "skip"} => Len(Program[op]) \in 2..10
  BY Lengths
<1>2. op \in {"login", "change", "disable"} => Len(Program[op]) \in 2..10
  BY Lengths
<1>3. op \in {"logout", "logoutAll", "reset"} => Len(Program[op]) \in 2..10
  BY Lengths
<1> QED BY <1>1, <1>2, <1>3 DEF Ops

LEMMA Places ==
  ASSUME NEW op \in Ops, NEW i \in 1..Len(Program[op]), NEW s, s = Program[op][i]
  PROVE  /\ s = "sweep" => i <= 3
         /\ s = "set" <=> (op = "login" /\ i = 1) \/ (op = "disable" /\ i = 4)
         /\ s = "unset" <=> (op = "skip" /\ i \in {1, 5}) \/ (op = "setup" /\ i = 3)
         /\ s = "blocked" <=> (op = "login" /\ i = 2) \/ (op = "change" /\ i = 4) \/ (op = "disable" /\ i = 5)
         /\ s = "verify" <=> (op = "login" /\ i = 3) \/ (op = "change" /\ i = 5) \/ (op = "disable" /\ i = 6)
         /\ s = "count" <=> (op = "login" /\ i = 4) \/ (op = "change" /\ i = 6) \/ (op = "disable" /\ i = 7)
         /\ s = "truncate" <=> (op = "setup" /\ i = 4) \/ (op = "change" /\ i = 7)
         /\ s = "hash" <=> (op = "setup" /\ i = 5) \/ (op = "change" /\ i = 8)
         /\ s = "unmark" <=> (op = "setup" /\ i = 6) \/ (op = "change" /\ i = 9) \/ (op = "reset" /\ i = 2)
         /\ s = "create" <=> (op = "setup" /\ i = 7) \/ (op = "change" /\ i = 10) \/ (op = "login" /\ i = 5)
         /\ s = "mark" <=> (op = "skip" /\ i = 6) \/ (op = "disable" /\ i = 8)
         /\ s = "unhash" <=> (op = "disable" /\ i = 9) \/ (op = "reset" /\ i = 1)
<1>1. CASE op = "get"
  BY <1>1 DEF Program, Gate
<1>8. CASE op = "logout"
  BY <1>8 DEF Program, Gate
<1>9. CASE op = "logoutAll"
  BY <1>9 DEF Program, Gate
<1>2. CASE op = "setup"
  BY <1>2 DEF Program, Gate, Set
<1>3. CASE op = "skip"
  BY <1>3 DEF Program
<1>4. CASE op = "login"
  BY <1>4 DEF Program, Verify
<1>5. CASE op = "change"
  BY <1>5 DEF Program, Gate, Verify, Set
<1>6. CASE op = "disable"
  BY <1>6 DEF Program, Gate, Verify
<1>7. CASE op = "reset"
  BY <1>7 DEF Program
<1> QED BY <1>1, <1>2, <1>3, <1>4, <1>5, <1>6, <1>7, <1>8, <1>9 DEF Ops

(* A request under way is at a place of its program. *)
LEMMA Place ==
  ASSUME SessionsType, NEW a \in Actors, req[a].op # "none"
  PROVE  /\ a \in Busy /\ req[a].op \in Ops /\ req[a].i \in 1..Len(Program[req[a].op])
         /\ \A step : At(a, step) <=> step = Program[req[a].op][req[a].i]
  BY DEF SessionsType, Busy, Requests, At

LEMMA IdleRequest ==
  /\ NoRequest \in Requests /\ NoRequest.op = "none" /\ NoRequest.ver = 0
  /\ NoRequest.i = 1 /\ NoRequest.met = FALSE
  BY DEF NoRequest, Requests

(* What a step may make of the request of a before it goes on to the next. *)
Follows(a, r) ==
  /\ r \in Requests
  /\ r.op = req[a].op /\ r.i = req[a].i /\ r.met = req[a].met
  /\ r.pw = req[a].pw /\ r.new = req[a].new

LEMMA Refused ==
  ASSUME SessionsType, NEW a \in Actors, Refuse(a)
  PROVE  /\ req' \in [Actors -> Requests] /\ req'[a] = NoRequest
         /\ \A b \in Actors \ {a} : req'[b] = req[b]
         /\ Busy' = Busy \ {a} /\ last' = last
<1>1. /\ req' = [req EXCEPT ![a] = NoRequest] /\ last' = last
      /\ req \in [Actors -> Requests]
  BY DEF Refuse, SessionsType
<1>2. /\ req' \in [Actors -> Requests] /\ req'[a] = NoRequest
      /\ \A b \in Actors \ {a} : req'[b] = req[b]
  BY <1>1, IdleRequest
<1>3. Busy' = Busy \ {a}
  BY <1>2, IdleRequest DEF Busy
<1> QED BY <1>1, <1>2, <1>3

LEMMA Proceeded ==
  ASSUME SessionsType, NEW a \in Busy, NEW r, Follows(a, r), Proceed(a, r)
  PROVE  /\ req' \in [Actors -> Requests]
         /\ \A b \in Actors \ {a} : req'[b] = req[b]
         /\ \/ /\ r.i < Len(Program[r.op]) /\ last' = last /\ Busy' = Busy
               /\ req'[a] = [r EXCEPT !.i = r.i + 1]
            \/ /\ r.i = Len(Program[r.op]) /\ Busy' = Busy \ {a}
               /\ req'[a] = NoRequest /\ last' = IF r.met THEN None ELSE r.op
<1>1. /\ req \in [Actors -> Requests] /\ a \in Actors /\ req[a].op # "none"
      /\ r \in Requests /\ r.op = req[a].op /\ r.i \in 1..Len(Program[r.op])
  BY DEF SessionsType, Busy, Follows
<1>2. CASE r.i < Len(Program[r.op])
  <2> DEFINE n == [r EXCEPT !.i = r.i + 1]
  <2>1. n \in Requests /\ n.op = r.op
    BY <1>1 DEF Requests
  <2>2. req' = [req EXCEPT ![a] = n] /\ last' = last
    BY <1>2 DEF Proceed
  <2> HIDE DEF n
  <2>3. /\ req' \in [Actors -> Requests] /\ req'[a] = n
        /\ \A b \in Actors \ {a} : req'[b] = req[b]
    BY <1>1, <2>1, <2>2
  <2>4. Busy' = Busy
    BY <1>1, <2>1, <2>3 DEF Busy
  <2> QED BY <1>2, <2>2, <2>3, <2>4 DEF n
<1>3. CASE r.i = Len(Program[r.op])
  <2>1. req' = [req EXCEPT ![a] = NoRequest] /\ last' = IF r.met THEN None ELSE r.op
    BY <1>1, <1>3 DEF Proceed
  <2>2. /\ req' \in [Actors -> Requests] /\ req'[a] = NoRequest
        /\ \A b \in Actors \ {a} : req'[b] = req[b]
    BY <1>1, <2>1, IdleRequest
  <2>3. Busy' = Busy \ {a}
    BY <2>2, IdleRequest DEF Busy
  <2> QED BY <1>3, <2>1, <2>2, <2>3
<1>4. r.i < Len(Program[r.op]) \/ r.i = Len(Program[r.op])
  <2>1. Len(Program[r.op]) \in Nat
    BY <1>1, Lengths DEF Requests, Ops
  <2> QED BY <1>1, <2>1
<1> QED BY <1>2, <1>3, <1>4

(* What must hold for a step to let the request pass, *)
Allows(a) ==
  /\ At(a, "set") => HasPassword
  /\ At(a, "unset") => ~HasPassword
  /\ At(a, "blocked") => ~blocked
  /\ At(a, "count") => req[a].ok

(* and what the request knows of the password file after it. *)
Learns(a, r) ==
  /\ At(a, "verify") => r.ver = Version /\ (r.ok => HasPassword /\ password.pw = req[a].pw)
  /\ At(a, "truncate") \/ At(a, "hash") => r.ver = writes + 1
  /\ ~(At(a, "verify") \/ At(a, "truncate") \/ At(a, "hash")) => r.ver = req[a].ver

Moves(a, r) ==
  /\ Follows(a, r)
  /\ Refuse(a) \/ (Proceed(a, r) /\ Allows(a) /\ Learns(a, r))

(* Every step is one of a request under way, which it refuses or moves on. *)
LEMMA StepShape ==
  ASSUME SessionsType, NEW a \in Actors, Step(a)
  PROVE  a \in Busy /\ \E r : Moves(a, r)
<1> USE DEF Follows, Expect, Moves
<1>0. req[a] \in Requests
  BY DEF SessionsType
<1>1. CASE Peek(a)
  <2> DEFINE r == [req[a] EXCEPT !.seen = HasPassword]
  <2>1. HasPassword \in BOOLEAN
    BY DEF HasPassword
  <2>2. Follows(a, r) /\ r.ver = req[a].ver
    BY <1>0, <2>1 DEF Requests
  <2>3. Allows(a) /\ Learns(a, r)
    BY <1>1, <2>2 DEF Peek, At, Allows, Learns
  <2> QED BY <1>1, <2>2, <2>3, Place DEF Peek, At
<1>2. CASE Sweep(a)
  <2> DEFINE r == [req[a] EXCEPT !.seen = FALSE, !.off = marker']
  <2>1. marker' \in BOOLEAN
    BY <1>2 DEF Sweep
  <2>2. Follows(a, r) /\ r.ver = req[a].ver
    BY <1>0, <2>1 DEF Requests
  <2>3. Allows(a) /\ Learns(a, r)
    BY <1>2, <2>2 DEF Sweep, At, Allows, Learns
  <2> QED BY <1>2, <2>2, <2>3, Place DEF Sweep, At
<1>3. CASE Session(a)
  <2> DEFINE r == [req[a] EXCEPT !.off = FALSE]
  <2>1. Follows(a, r) /\ r.ver = req[a].ver
    BY <1>0 DEF Requests
  <2>2. Allows(a) /\ Learns(a, r)
    BY <1>3, <2>1 DEF Session, At, Allows, Learns
  <2> QED BY <1>3, <2>1, <2>2, Place DEF Session, At
<1>4. CASE Look(a)
  <2> DEFINE r == [req[a] EXCEPT !.off = FALSE]
  <2>1. Follows(a, r) /\ Follows(a, req[a]) /\ r.ver = req[a].ver
    BY <1>0 DEF Requests
  <2>2. Refuse(a) \/ (Allows(a) /\ (Proceed(a, r) \/ Proceed(a, req[a])))
    BY <1>4 DEF Look, At, Allows
  <2>3. Learns(a, r) /\ Learns(a, req[a])
    BY <1>4, <2>1 DEF Look, At, Learns
  <2> QED BY <1>4, <2>1, <2>2, <2>3, Place DEF Look, At
<1>5. CASE AskThrottle(a)
  <2>1. Follows(a, req[a]) /\ Learns(a, req[a])
    BY <1>0, <1>5 DEF AskThrottle, At, Learns
  <2>2. Refuse(a) \/ (Allows(a) /\ Proceed(a, req[a]))
    BY <1>5 DEF AskThrottle, MayTry, At, Allows
  <2> QED BY <1>5, <2>1, <2>2, Place DEF AskThrottle, At
<1>6. CASE Read(a)
  <2> DEFINE ok == HasPassword /\ password.pw = req[a].pw
             r == [req[a] EXCEPT !.ok = ok, !.ver = Version]
  <2>1. ok \in BOOLEAN /\ Version \in Nat /\ (ok => HasPassword /\ password.pw = req[a].pw)
    BY DEF SessionsType, Version, HasPassword, Hashes
  <2> HIDE DEF ok
  <2>2. Follows(a, r) /\ r.ver = Version /\ r.ok = ok
    BY <1>0, <2>1 DEF Requests
  <2>3. Allows(a) /\ Learns(a, r)
    BY <1>6, <2>1, <2>2 DEF Read, At, Allows, Learns
  <2> QED BY <1>6, <2>2, <2>3, Place DEF Read, At, ok
<1>7. CASE Count(a)
  <2> DEFINE r == [req[a] EXCEPT !.ok = FALSE]
  <2>1. Follows(a, r) /\ r.ver = req[a].ver
    BY <1>0 DEF Requests
  <2>2. Learns(a, r) /\ (req[a].ok => Allows(a))
    BY <1>7, <2>1 DEF Count, At, Allows, Learns
  <2> QED BY <1>7, <2>1, <2>2, Place DEF Count, At
<1>8. CASE Truncate(a) \/ Hash(a)
  <2> DEFINE r == [req[a] EXCEPT !.ver = writes + 1]
  <2>1. writes + 1 \in Nat
    BY DEF SessionsType
  <2>2. Follows(a, r) /\ r.ver = writes + 1
    BY <1>0, <2>1 DEF Requests
  <2>3. Allows(a) /\ Learns(a, r)
    BY <1>8, <2>2 DEF Truncate, Hash, At, Allows, Learns
  <2> QED BY <1>8, <2>2, <2>3, Place DEF Truncate, Hash, Write, At
<1>9. CASE Unmark(a) \/ Mark(a) \/ Unhash(a) \/ Create(a) \/ DropSession(a) \/ DropAll(a)
  <2>1. Follows(a, req[a]) /\ Proceed(a, req[a])
    BY <1>0, <1>9 DEF Unmark, Mark, Unhash, Create, DropSession, DropAll
  <2>2. Allows(a) /\ Learns(a, req[a])
    BY <1>9 DEF Unmark, Mark, Unhash, Create, DropSession, DropAll, At, Allows, Learns
  <2> QED BY <1>9, <2>1, <2>2, Place DEF Unmark, Mark, Unhash, Create, DropSession, DropAll, At
<1> QED BY <1>1, <1>2, <1>3, <1>4, <1>5, <1>6, <1>7, <1>8, <1>9 DEF Step

(* The request of a step, and the others, after it. *)
LEMMA Moved ==
  ASSUME SessionsType, NEW a \in Actors, Step(a)
  PROVE  /\ a \in Busy /\ req' \in [Actors -> Requests]
         /\ \A b \in Actors \ {a} : req'[b] = req[b]
         /\ \/ /\ req'[a] = NoRequest /\ Busy' = Busy \ {a}
               /\ \/ last' = last
                  \/ /\ Allows(a) /\ req[a].i = Len(Program[req[a].op])
                     /\ last' = IF req[a].met THEN None ELSE req[a].op
            \/ /\ req'[a].op = req[a].op /\ req'[a].i = req[a].i + 1 /\ req'[a].met = req[a].met
               /\ req'[a].pw = req[a].pw /\ req'[a].new = req[a].new
               /\ req[a].i < Len(Program[req[a].op])
               /\ Busy' = Busy /\ last' = last /\ Allows(a) /\ Learns(a, req'[a])
<1>0. a \in Busy
  BY StepShape
<1>1. PICK r : Moves(a, r)
  BY StepShape
<1> USE DEF Moves
<1>2. CASE Refuse(a)
  BY <1>0, <1>2, Refused
<1>3. CASE Proceed(a, r) /\ Allows(a) /\ Learns(a, r)
  <2> DEFINE n == [r EXCEPT !.i = r.i + 1]
  <2>1. /\ n.op = req[a].op /\ n.i = req[a].i + 1 /\ n.met = req[a].met
        /\ n.pw = req[a].pw /\ n.new = req[a].new /\ n.ver = r.ver /\ n.ok = r.ok
    BY <1>1 DEF Follows, Requests
  <2>2. Learns(a, n)
    BY <1>3, <2>1 DEF Learns
  <2>3. r.op = req[a].op /\ r.i = req[a].i /\ r.met = req[a].met
    BY <1>1 DEF Follows
  <2>4. /\ req' \in [Actors -> Requests]
        /\ \A b \in Actors \ {a} : req'[b] = req[b]
        /\ \/ /\ r.i < Len(Program[r.op]) /\ last' = last /\ Busy' = Busy /\ req'[a] = n
           \/ /\ r.i = Len(Program[r.op]) /\ Busy' = Busy \ {a}
              /\ req'[a] = NoRequest /\ last' = IF r.met THEN None ELSE r.op
    BY <1>0, <1>1, <1>3, Proceeded
  <2> HIDE DEF n
  <2> QED BY <1>0, <1>1, <1>3, <2>1, <2>2, <2>3, <2>4
<1> QED BY <1>1, <1>2, <1>3

(* What a request that begins does to itself and to those it meets. *)
LEMMA BeginShape ==
  ASSUME SessionsType, NEW a \in Actors, NEW op \in Ops,
         NEW pw \in Passwords \cup {None}, NEW new \in Passwords \cup {None}, Begin(a, op, pw, new)
  PROVE  /\ req' \in [Actors -> Requests] /\ a \notin Busy /\ Busy' = Busy \cup {a}
         /\ req'[a].op = op /\ req'[a].i = 1 /\ req'[a].ver = 0 /\ req'[a].new = new
         /\ ~req'[a].met => Busy = {}
         /\ \A b \in Actors \ {a} :
              /\ req'[b].op = req[b].op /\ req'[b].i = req[b].i /\ req'[b].ok = req[b].ok
              /\ req'[b].pw = req[b].pw /\ req'[b].new = req[b].new /\ req'[b].ver = req[b].ver
              /\ b \in Busy => req'[b].met
<1> DEFINE alone == Busy # {}
           met(b) == b \in Busy
           n == [NoRequest EXCEPT !.op = op, !.pw = pw, !.new = new, !.met = alone]
           m(b) == [req[b] EXCEPT !.met = met(b)]
<1>1. /\ a \notin Busy
      /\ req' = [b \in Actors |-> IF b = a THEN n ELSE m(b)]
  BY DEF Begin, Busy
<1>2. alone \in BOOLEAN /\ \A b : met(b) \in BOOLEAN
  OBVIOUS
<1> HIDE DEF alone, met
<1>3. /\ n \in Requests /\ n.op = op /\ n.i = 1 /\ n.ver = 0 /\ n.new = new /\ n.met = alone
  BY <1>2 DEF NoRequest, Requests
<1>4. ASSUME NEW b \in Actors
      PROVE  /\ m(b) \in Requests /\ m(b).op = req[b].op /\ m(b).i = req[b].i /\ m(b).ok = req[b].ok
             /\ m(b).pw = req[b].pw /\ m(b).new = req[b].new /\ m(b).ver = req[b].ver
             /\ m(b).met = met(b)
  <2>1. req[b] \in Requests /\ met(b) \in BOOLEAN
    BY <1>2, <1>4 DEF SessionsType
  <2> QED BY <2>1 DEF Requests
<1> HIDE DEF n, m
<1>5. req' \in [Actors -> Requests] /\ req'[a] = n /\ \A b \in Actors \ {a} : req'[b] = m(b)
  BY <1>1, <1>3, <1>4
<1>6. Busy' = Busy \cup {a}
  <2>1. op # "none"
    BY DEF Ops
  <2> QED BY <1>3, <1>4, <1>5, <2>1 DEF Busy
<1>7. ~req'[a].met => Busy = {}
  BY <1>3, <1>5 DEF alone
<1>8. \A b \in Actors \ {a} : b \in Busy => req'[b].met
  BY <1>4, <1>5 DEF met
<1> QED BY <1>1, <1>3, <1>4, <1>5, <1>6, <1>7, <1>8

(* The requests of users. *)
LEMMA Begins ==
  ASSUME Next
  PROVE  \/ \E a \in Actors, op \in Ops : \E pw, new \in Passwords \cup {None} :
              Begin(a, op, pw, new) /\ (op \in {"setup", "change"} => new \in Passwords)
         \/ \E a \in Actors : Step(a)
         \/ Unblock
         \/ Crash
  BY DEF Next, Client, Actors, Ops

LEMMA TypeInit == Init => SessionsType
<1> SUFFICES ASSUME Init PROVE SessionsType
  OBVIOUS
<1>1. password \in {None} \cup Hashes
  BY DEF Init, Hashes
<1>2. ASSUME NEW c \in Clients PROVE sess[c] \in {None} \cup Tickets
  <2>1. HasPassword /\ 1 \in {Version} => password.pw \in Passwords
    BY DEF Init, HasPassword
  <2>2. 1 \in {Version} => HasPassword
    BY DEF Version
  <2> QED BY <2>1, <2>2 DEF Init, Tickets
<1>3. req \in [Actors -> Requests] /\ Busy = {}
  BY IdleRequest DEF Init, Busy
<1> QED BY <1>1, <1>2, <1>3 DEF Init, SessionsType

(* A step leaves files, sessions and counts of their types. *)
LEMMA StepTypes ==
  ASSUME SessionsType, IsFiniteSet(Busy), NEW a \in Actors, Step(a)
  PROVE  /\ password' \in {None} \cup Hashes /\ marker' \in BOOLEAN /\ writes' \in Nat
         /\ sess' \in [Clients -> {None} \cup Tickets]
         /\ failures' \in Nat /\ blocked' \in BOOLEAN /\ late' \in Nat /\ under' \in Nat
<1> USE DEF SessionsType, files, throttle
<1>1. CASE Peek(a) \/ Look(a) \/ AskThrottle(a) \/ Read(a)
  BY <1>1 DEF Peek, Look, AskThrottle, Read
<1>2. CASE Sweep(a)
  <2>1. marker' \in BOOLEAN
    BY <1>2, Zenon DEF Sweep
  <2> QED BY <1>2, <2>1 DEF Sweep
<1>3. CASE Session(a) \/ DropSession(a) \/ DropAll(a)
  <2>1. UNCHANGED <<files, throttle>>
    BY <1>3 DEF Session, DropSession, DropAll
  <2>2. sess' \in {sess, [sess EXCEPT ![a] = None], [c \in Clients |-> None]}
    BY <1>3 DEF Session, DropSession, DropAll
  <2> QED BY <2>1, <2>2
<1>4. CASE Count(a)
  <2>1. Cardinality(Busy \ {a}) \in Nat
    BY FS_RemoveElement, FS_CardinalityType
  <2>2. blocked' \in BOOLEAN
    <3>1. blocked' = blocked \/ blocked' = (blocked \/ failures + 1 >= ThrottleAfter)
      BY <1>4 DEF Count
    <3> QED BY <3>1
  <2> QED BY <1>4, <2>1, <2>2, SessionsAssumption DEF Count
<1>5. CASE Truncate(a) \/ Hash(a)
  <2>1. /\ writes' = writes + 1 /\ UNCHANGED <<marker, sess, throttle>>
        /\ \/ password' = [pw |-> Torn, ver |-> writes + 1]
           \/ Hash(a) /\ password' = [pw |-> req[a].new, ver |-> writes + 1]
    BY <1>5 DEF Truncate, Hash, Write
  <2>2. Hash(a) => req[a].new \in Passwords
    <3>1. At(a, "hash") => a \in Busy /\ req[a].op \in {"setup", "change"}
      BY Place, Places DEF At
    <3> QED BY <3>1 DEF Hash
  <2>3. password' \in {None} \cup Hashes
    BY <2>1, <2>2 DEF Hashes
  <2> QED BY <2>1, <2>3
<1>6. CASE Unmark(a) \/ Mark(a) \/ Unhash(a)
  BY <1>6 DEF Unmark, Mark, Unhash, RemoveMarker
<1>7. CASE Create(a)
  <2> DEFINE lapped == ~HasPassword \/ req[a].ver # password.ver
             proof == IF req[a].op = "login" THEN req[a].pw ELSE req[a].new
             t == [ver |-> Version, proved |-> proof, overlap |-> lapped]
  <2>1. UNCHANGED <<files, throttle>> /\ sess' = [sess EXCEPT ![a] = t]
    BY <1>7 DEF Create
  <2>2. Version \in Nat /\ lapped \in BOOLEAN /\ proof \in Passwords \cup {None, Torn}
    BY DEF Version, HasPassword, Hashes, Requests
  <2> HIDE DEF lapped, proof
  <2>3. t \in Tickets
    BY <2>2 DEF Tickets
  <2> HIDE DEF t
  <2> QED BY <2>1, <2>3
<1> QED BY <1>1, <1>2, <1>3, <1>4, <1>5, <1>6, <1>7 DEF Step

LEMMA TypeStep == SessionsType /\ IsFiniteSet(Busy) /\ [Next]_vars => SessionsType'
<1> SUFFICES ASSUME SessionsType, IsFiniteSet(Busy), [Next]_vars PROVE SessionsType'
  OBVIOUS
<1>1. ASSUME NEW a \in Actors, NEW op \in Ops, NEW pw \in Passwords \cup {None},
             NEW new \in Passwords \cup {None}, Begin(a, op, pw, new),
             op \in {"setup", "change"} => new \in Passwords
      PROVE  SessionsType'
  <2>1. /\ req' \in [Actors -> Requests] /\ Busy' = Busy \cup {a}
        /\ req'[a].op = op /\ req'[a].i = 1 /\ req'[a].new = new
        /\ \A b \in Actors \ {a} :
             req'[b].op = req[b].op /\ req'[b].i = req[b].i /\ req'[b].new = req[b].new
    BY <1>1, BeginShape
  <2>2. ASSUME NEW b \in Busy'
        PROVE  /\ req'[b].i \in 1..Len(Program[req'[b].op])
               /\ req'[b].op \in {"setup", "change"} => req'[b].new \in Passwords
    <3>1. CASE b = a
      <4>1. Len(Program[op]) \in 2..10
        BY Length
      <4>2. req'[b].op = op /\ req'[b].i = 1 /\ req'[b].new = new
        BY <2>1, <3>1
      <4>3. \A n \in 2..10 : 1 \in 1..n
        OBVIOUS
      <4> QED BY <1>1, <4>1, <4>2, <4>3
    <3>2. CASE b # a
      BY <2>1, <2>2, <3>2 DEF SessionsType, Busy
    <3> QED BY <3>1, <3>2
  <2>3. last' = None /\ UNCHANGED <<files, sess, throttle>>
    BY <1>1 DEF Begin
  <2> QED BY <2>1, <2>2, <2>3 DEF SessionsType, files, throttle
<1>2. ASSUME NEW a \in Actors, Step(a) PROVE SessionsType'
  <2>1. /\ a \in Busy /\ req[a].op \in Ops
        /\ req[a].i \in 1..Len(Program[req[a].op]) /\ Len(Program[req[a].op]) \in 2..10
    BY <1>2, Moved, Place, Length DEF Busy
  <2>2. ASSUME NEW b \in Busy'
        PROVE  /\ req'[b].i \in 1..Len(Program[req'[b].op])
               /\ req'[b].op \in {"setup", "change"} => req'[b].new \in Passwords
    <3>1. b \in Busy /\ (b # a => req'[b] = req[b])
      BY <1>2, Moved DEF Busy
    <3>2. CASE b = a
      <4>1. /\ req'[a].op = req[a].op /\ req'[a].i = req[a].i + 1 /\ req'[a].new = req[a].new
            /\ req[a].i < Len(Program[req[a].op])
        BY <1>2, <3>2, Moved, IdleRequest DEF Busy
      <4> QED BY <2>1, <3>2, <4>1 DEF SessionsType
    <3> QED BY <3>1, <3>2 DEF SessionsType
  <2>4. req' \in [Actors -> Requests] /\ last' \in {None} \cup Ops
    BY <1>2, <2>1, Moved DEF SessionsType
  <2>3. /\ password' \in {None} \cup Hashes /\ marker' \in BOOLEAN /\ writes' \in Nat
        /\ sess' \in [Clients -> {None} \cup Tickets]
        /\ failures' \in Nat /\ blocked' \in BOOLEAN /\ late' \in Nat /\ under' \in Nat
    BY <1>2, StepTypes
  <2> QED BY <2>2, <2>3, <2>4 DEF SessionsType
<1>3. CASE Unblock
  BY <1>3 DEF Unblock, SessionsType, files, Busy
<1>4. CASE Crash
  BY <1>4, IdleRequest DEF Crash, SessionsType, files, Busy
<1>5. CASE UNCHANGED vars
  BY <1>5 DEF vars, files, throttle, SessionsType, Busy
<1> QED BY <1>1, <1>2, <1>3, <1>4, <1>5, Begins

-----------------------------------------------------------------------------
(* What a step does to the two files. *)
LEMMA StepFiles ==
  ASSUME SessionsType, NEW a \in Actors, Step(a)
  PROVE  \/ /\ At(a, "truncate") \/ (At(a, "hash") /\ password'.pw = req[a].new)
            /\ writes' = writes + 1 /\ HasPassword' /\ password'.ver = writes + 1
            /\ marker' = marker
         \/ /\ At(a, "unhash") /\ ~HasPassword'
            /\ writes' = writes /\ marker' = marker
         \/ /\ ~(At(a, "truncate") \/ At(a, "hash") \/ At(a, "unhash"))
            /\ password' = password /\ writes' = writes
            /\ marker' = IF At(a, "mark") THEN TRUE
                         ELSE IF At(a, "unmark") THEN FALSE
                         ELSE marker /\ ~(At(a, "sweep") /\ req[a].seen)
<1> USE DEF files
<1>0. marker \in BOOLEAN
  BY DEF SessionsType
<1>1. CASE Peek(a) \/ Session(a) \/ Look(a) \/ AskThrottle(a) \/ Read(a) \/ Count(a)
  BY <1>0, <1>1 DEF Peek, Session, Look, AskThrottle, Read, Count, At
<1>2. CASE Create(a) \/ DropSession(a) \/ DropAll(a)
  BY <1>0, <1>2 DEF Create, DropSession, DropAll, At
<1>3. CASE Sweep(a)
  <2>1. At(a, "sweep") /\ password' = password /\ writes' = writes
    BY <1>3 DEF Sweep
  <2>2. marker' = (marker /\ ~req[a].seen)
    BY <1>3, Zenon DEF Sweep
  <2>3. ~(At(a, "truncate") \/ At(a, "hash") \/ At(a, "unhash") \/ At(a, "mark") \/ At(a, "unmark"))
    BY <2>1 DEF At
  <2> QED BY <2>1, <2>2, <2>3, Zenon
<1>4. CASE Truncate(a)
  <2>1. /\ At(a, "truncate") /\ password' = [pw |-> Torn, ver |-> writes + 1]
        /\ writes' = writes + 1 /\ marker' = marker
    BY <1>4 DEF Truncate, Write
  <2>2. password' \in [pw : Passwords \cup {Torn}, ver : Nat]
    BY <2>1 DEF SessionsType
  <2>3. HasPassword'
    BY <2>2, NoneAssumption DEF HasPassword
  <2>4. password'.ver = writes + 1
    BY <2>1
  <2> QED BY <2>1, <2>3, <2>4, Zenon
<1>5. CASE Hash(a)
  <2>1. /\ At(a, "hash") /\ password' = [pw |-> req[a].new, ver |-> writes + 1]
        /\ writes' = writes + 1 /\ marker' = marker
    BY <1>5 DEF Hash, Write
  <2>2. a \in Busy /\ req[a].op \in {"setup", "change"}
    BY <2>1, Place, Places DEF At
  <2>3. password' \in [pw : Passwords \cup {Torn}, ver : Nat]
    BY <2>1, <2>2 DEF SessionsType
  <2> QED BY <2>1, <2>3, NoneAssumption DEF HasPassword
<1>6. CASE Unmark(a) \/ Mark(a)
  BY <1>6 DEF Unmark, Mark, RemoveMarker, At
<1>7. CASE Unhash(a)
  BY <1>7 DEF Unhash, HasPassword
<1> QED BY <1>1, <1>2, <1>3, <1>4, <1>5, <1>6, <1>7 DEF Step

(* A request that has just checked or written a password, or has and went on. *)
LEMMA Knowledge ==
  ASSUME SessionsType, VersionInv, NEW a \in Actors, Step(a)
  PROVE  /\ req'[a].ver <= writes'
         /\ Checked(a)' => Fits(a, req[a].pw)'
         /\ Written(a)' => Fits(a, req[a].new)'
<1>1. /\ writes \in Nat /\ writes' \in {writes, writes + 1}
      /\ req[a].ver \in Nat /\ req[a].ver <= writes
  BY StepFiles DEF SessionsType, Requests, VersionInv
<1>2. CASE req'[a] = NoRequest
  BY <1>1, <1>2, IdleRequest DEF Checked, Written
<1>3. ASSUME req'[a].op = req[a].op, req'[a].i = req[a].i + 1, Allows(a), Learns(a, req'[a]),
             req'[a].pw = req[a].pw, req'[a].new = req[a].new
      PROVE  /\ req'[a].ver <= writes'
             /\ Checked(a)' => Fits(a, req[a].pw)'
             /\ Written(a)' => Fits(a, req[a].new)'
  <2>1. a \in Busy /\ req[a].op \in Ops /\ req[a].i \in 1..Len(Program[req[a].op]) /\ req[a].i \in Nat
    BY Moved, Place DEF Busy, SessionsType, Requests
  <2>2. req'[a].ver <= writes'
    <3>1. Version \in Nat /\ Version <= writes
      BY DEF Version, SessionsType, VersionInv, Hashes, HasPassword
    <3>2. CASE At(a, "truncate") \/ At(a, "hash")
      <4>1. ~At(a, "unhash")
        BY <3>2 DEF At
      <4>2. req'[a].ver = writes + 1
        BY <1>3, <3>2 DEF Learns
      <4>3. writes' = writes + 1
        BY <3>2, <4>1, StepFiles
      <4> QED BY <1>1, <4>2, <4>3
    <3>3. CASE At(a, "verify")
      BY <1>1, <1>3, <3>1, <3>3 DEF Learns
    <3>4. CASE ~(At(a, "verify") \/ At(a, "truncate") \/ At(a, "hash"))
      BY <1>1, <1>3, <3>4 DEF Learns
    <3> QED BY <3>2, <3>3, <3>4
  <2>3. Checked(a)' => Fits(a, req[a].pw)'
    <3> SUFFICES ASSUME Checked(a)' PROVE Fits(a, req[a].pw)'
      OBVIOUS
    <3>1. req[a].op = "login" /\ (req[a].i = 4 \/ (req[a].i = 3 /\ req'[a].ok))
      BY <1>3, <2>1 DEF Checked
    <3>2. CASE req[a].i = 3 /\ req'[a].ok
      <4>1. At(a, "verify")
        BY <2>1, <3>1, <3>2, Place, Places
      <4>2. password' = password
        BY <4>1, StepFiles DEF At
      <4>3. password.pw = req[a].pw
        BY <1>3, <3>2, <4>1 DEF Learns
      <4> QED BY <1>3, <4>2, <4>3 DEF Fits
    <3>3. CASE req[a].i = 4
      <4>1. At(a, "count")
        BY <2>1, <3>1, <3>3, Place, Places
      <4>2. password' = password /\ req'[a].ver = req[a].ver /\ req[a].ok
        BY <1>3, <4>1, StepFiles DEF At, Learns, Allows
      <4>3. Fits(a, req[a].pw)
        BY <3>1, <3>3, <4>2 DEF VersionInv, Checked
      <4> QED BY <1>3, <4>2, <4>3 DEF Fits, HasPassword
    <3> QED BY <3>1, <3>2, <3>3
  <2>4. Written(a)' => Fits(a, req[a].new)'
    <3> SUFFICES ASSUME Written(a)' PROVE Fits(a, req[a].new)'
      OBVIOUS
    <3>1. \/ req[a].op = "setup" /\ req[a].i \in 5..6
          \/ req[a].op = "change" /\ req[a].i \in 8..9
      BY <1>3, <2>1 DEF Written
    <3>2. CASE (req[a].op = "setup" /\ req[a].i = 5) \/ (req[a].op = "change" /\ req[a].i = 8)
      <4>1. At(a, "hash")
        BY <2>1, <3>2, Place, Places
      <4>2. password'.pw = req[a].new
        BY <4>1, StepFiles DEF At
      <4> QED BY <1>3, <4>2 DEF Fits
    <3>3. CASE (req[a].op = "setup" /\ req[a].i = 6) \/ (req[a].op = "change" /\ req[a].i = 9)
      <4>1. At(a, "unmark")
        BY <2>1, <3>3, Place, Places
      <4>2. password' = password /\ req'[a].ver = req[a].ver
        BY <1>3, <4>1, StepFiles DEF At, Learns
      <4>3. Fits(a, req[a].new)
        BY <3>3 DEF VersionInv, Written
      <4> QED BY <1>3, <4>2, <4>3 DEF Fits, HasPassword
    <3> QED BY <3>1, <3>2, <3>3
  <2> QED BY <2>2, <2>3, <2>4
<1> QED BY <1>2, <1>3, Moved

(* A step gives at most its own client a session, of the version there is. *)
LEMMA StepSession ==
  ASSUME SessionsType, NEW a \in Actors, Step(a), NEW c \in Clients, sess'[c] # None
  PROVE  \/ sess'[c] = sess[c]
         \/ /\ c = a /\ At(a, "create") /\ sess'[c].ver = Version
            /\ sess'[c].proved = IF req[a].op = "login" THEN req[a].pw ELSE req[a].new
            /\ sess'[c].overlap = (~HasPassword \/ req[a].ver # password.ver)
<1>0. sess \in [Clients -> {None} \cup Tickets]
  BY DEF SessionsType
<1>1. CASE Create(a)
  <2> DEFINE lapped == ~HasPassword \/ req[a].ver # password.ver
             t == [ver |-> Version,
                   proved |-> IF req[a].op = "login" THEN req[a].pw ELSE req[a].new,
                   overlap |-> lapped]
  <2>1. At(a, "create") /\ sess' = [sess EXCEPT ![a] = t]
    BY <1>1 DEF Create
  <2> HIDE DEF lapped
  <2>2. c # a => sess'[c] = sess[c]
    BY <1>0, <2>1
  <2>3. c = a => sess'[c] = t
    BY <1>0, <2>1
  <2> QED BY <2>1, <2>2, <2>3 DEF lapped
<1>2. CASE Session(a) \/ DropSession(a) \/ DropAll(a)
  BY <1>0, <1>2 DEF Session, DropSession, DropAll
<1>3. CASE Peek(a) \/ Sweep(a) \/ Look(a) \/ AskThrottle(a) \/ Read(a) \/ Count(a)
  BY <1>3 DEF Peek, Sweep, Look, AskThrottle, Read, Count
<1>4. CASE Truncate(a) \/ Hash(a) \/ Unmark(a) \/ Mark(a) \/ Unhash(a)
  BY <1>4 DEF Truncate, Hash, Write, Unmark, Mark, Unhash
<1> QED BY <1>1, <1>2, <1>3, <1>4 DEF Step

-----------------------------------------------------------------------------
LEMMA VersionInit == Init => VersionInv
  BY IdleRequest DEF Init, VersionInv, HasPassword, Version, Checked, Written

LEMMA VersionStep == SessionsType /\ VersionInv /\ [Next]_vars => VersionInv'
<1> SUFFICES ASSUME SessionsType, VersionInv, [Next]_vars PROVE VersionInv'
  OBVIOUS
<1>1. ASSUME NEW a \in Actors, NEW op \in Ops, NEW pw \in Passwords \cup {None},
             NEW new \in Passwords \cup {None}, Begin(a, op, pw, new)
      PROVE  VersionInv'
  <2>1. /\ req'[a].i = 1 /\ req'[a].ver = 0
        /\ \A b \in Actors \ {a} :
             /\ req'[b].op = req[b].op /\ req'[b].i = req[b].i /\ req'[b].ok = req[b].ok
             /\ req'[b].pw = req[b].pw /\ req'[b].new = req[b].new /\ req'[b].ver = req[b].ver
    BY <1>1, BeginShape
  <2>2. password' = password /\ writes' = writes /\ sess' = sess /\ writes \in Nat
    BY <1>1 DEF Begin, files, SessionsType
  <2>3. \A b \in Actors : req'[b].ver <= writes'
    BY <2>1, <2>2 DEF VersionInv
  <2>4. ~Checked(a)' /\ ~Written(a)'
    BY <2>1 DEF Checked, Written
  <2>5. ASSUME NEW b \in Actors \ {a}
        PROVE  (Checked(b) => Fits(b, req[b].pw))' /\ (Written(b) => Fits(b, req[b].new))'
    BY <2>1, <2>2 DEF VersionInv, Checked, Written, Fits, HasPassword
  <2> QED BY <2>2, <2>3, <2>4, <2>5 DEF VersionInv, HasPassword
<1>2. ASSUME NEW a \in Actors, Step(a) PROVE VersionInv'
  <2>1. /\ writes \in Nat
        /\ \/ writes' = writes + 1 /\ HasPassword' /\ password'.ver = writes + 1
           \/ writes' = writes /\ (~HasPassword' \/ password' = password)
    BY <1>2, StepFiles DEF SessionsType
  <2>2. HasPassword' => password'.ver <= writes'
    BY <2>1 DEF VersionInv, HasPassword
  <2>3. Version \in Nat /\ Version <= writes
    BY DEF Version, SessionsType, VersionInv, Hashes, HasPassword
  <2>4. ASSUME NEW c \in Clients, sess'[c] # None PROVE sess'[c].ver <= writes'
    <3>1. sess'[c].ver \in Nat /\ sess'[c].ver <= writes
      <4>1. CASE sess'[c] = sess[c]
        BY <2>4, <4>1 DEF VersionInv, SessionsType, Tickets
      <4>2. CASE sess'[c].ver = Version
        BY <2>3, <4>2
      <4> QED BY <1>2, <2>4, <4>1, <4>2, StepSession
    <3> QED BY <2>1, <3>1
  <2>5. ASSUME NEW b \in Actors
        PROVE  /\ req'[b].ver <= writes'
               /\ (Checked(b) => Fits(b, req[b].pw))' /\ (Written(b) => Fits(b, req[b].new))'
    <3>1. CASE b = a
      BY <1>2, <3>1, Knowledge
    <3>2. CASE b # a
      <4>1. req'[b] = req[b] /\ req[b].ver \in Nat /\ req[b].ver <= writes
        BY <1>2, <3>2, Moved DEF SessionsType, Requests, VersionInv
      <4>2. \A pw : Fits(b, pw) => Fits(b, pw)'
        BY <2>1, <4>1 DEF Fits, HasPassword
      <4>3. (Checked(b)' => Checked(b)) /\ (Written(b)' => Written(b))
        BY <4>1 DEF Checked, Written
      <4>4. (Checked(b) => Fits(b, req[b].pw)) /\ (Written(b) => Fits(b, req[b].new))
        BY DEF VersionInv
      <4>5. (Checked(b)' => Fits(b, req[b].pw)') /\ (Written(b)' => Fits(b, req[b].new)')
        BY <4>1, <4>2, <4>3, <4>4 DEF Fits
      <4> QED BY <2>1, <4>1, <4>5
    <3> QED BY <3>1, <3>2
  <2> QED BY <2>2, <2>4, <2>5 DEF VersionInv
<1>3. CASE Crash
  BY <1>3, IdleRequest DEF Crash, VersionInv, files, HasPassword, Checked, Written, SessionsType
<1>4. CASE Unblock \/ UNCHANGED vars
  BY <1>4 DEF Unblock, vars, files, VersionInv, HasPassword, Checked, Written, Fits
<1> QED BY <1>1, <1>2, <1>3, <1>4, Begins

LEMMA SessionStep == SessionsType /\ VersionInv /\ SessionOfPassword /\ [Next]_vars => SessionOfPassword'
<1> SUFFICES ASSUME SessionsType, VersionInv, SessionOfPassword, [Next]_vars PROVE SessionOfPassword'
  OBVIOUS
<1>1. ASSUME NEW a \in Actors, Step(a) PROVE SessionOfPassword'
  <2> SUFFICES ASSUME NEW c \in Clients, HasPassword', Valid(c)', ~sess'[c].overlap
               PROVE  sess'[c].proved = password'.pw
    BY DEF SessionOfPassword
  <2>1. sess'[c] # None /\ sess'[c].ver = password'.ver
    BY DEF Valid, Version
  <2>2. CASE sess'[c] = sess[c]
    <3>1. sess[c].ver \in Nat /\ sess[c].ver <= writes /\ writes \in Nat
      BY <2>1, <2>2 DEF VersionInv, SessionsType, Tickets
    <3>2. password' = password
      <4>1. password'.ver # writes + 1
        BY <2>1, <2>2, <3>1
      <4> QED BY <1>1, <4>1, StepFiles
    <3> QED BY <2>1, <2>2, <3>2 DEF SessionOfPassword, Valid, Version, HasPassword
  <2>3. CASE /\ c = a /\ At(a, "create")
             /\ sess'[c].proved = IF req[a].op = "login" THEN req[a].pw ELSE req[a].new
             /\ sess'[c].overlap = (~HasPassword \/ req[a].ver # password.ver)
    <3>1. password' = password /\ HasPassword /\ req[a].ver = password.ver
      BY <1>1, <2>3, StepFiles DEF At
    <3>2. a \in Busy
      BY <1>1, Moved
    <3>3. Checked(a) \/ (req[a].op # "login" /\ Written(a))
      BY <2>3, <3>2, Place, Places DEF Checked, Written, Busy
    <3> QED BY <2>3, <3>1, <3>3 DEF VersionInv, Fits, Checked
  <2> QED BY <1>1, <2>1, <2>2, <2>3, StepSession
<1>2. CASE Crash
  BY <1>2 DEF Crash, SessionOfPassword, Valid
<1>3. ASSUME password' = password, sess' = sess PROVE SessionOfPassword'
  BY <1>3 DEF SessionOfPassword, Valid, Version, HasPassword
<1> QED BY <1>1, <1>2, <1>3, Begins DEF Begin, Unblock, vars, files

-----------------------------------------------------------------------------
LEMMA LoneInit == Init => LoneInv /\ OutcomeWhenAlone
  BY IdleRequest DEF Init, LoneInv, OutcomeWhenAlone, Busy

(* A lone request that is at a place finds the files as Half says there. *)
LEMMA HalfStep ==
  ASSUME SessionsType, NEW a \in Actors, Step(a), Half(a), Allows(a),
         req'[a].op = req[a].op, req'[a].i = req[a].i + 1
  PROVE  Half(a)'
<1> DEFINE op == req[a].op
           i == req[a].i
<1>0. a \in Busy /\ op \in Ops /\ i \in 1..Len(Program[op]) /\ i \in Nat
  BY Moved, Place DEF Busy, SessionsType, Requests
<1> HIDE DEF op, i
<1>1. req'[a].op = op /\ req'[a].i = i + 1
  BY DEF op, i
<1>2. (op = "setup" /\ i + 1 >= 5) \/ (op = "change" /\ i + 1 >= 8) \/ (op = "login" /\ i + 1 >= 2)
        => HasPassword'
  <2> SUFFICES ASSUME (op = "setup" /\ i >= 4) \/ (op = "change" /\ i >= 7) \/ op = "login"
               PROVE  HasPassword'
    BY <1>0
  <2>1. ~At(a, "unhash")
    BY <1>0, Place, Places DEF op, i
  <2>2. CASE At(a, "truncate")
    BY <2>1, <2>2, StepFiles
  <2>3. CASE ~At(a, "truncate")
    <3>1. (op = "setup" /\ i >= 5) \/ (op = "change" /\ i >= 8) \/ (op = "login" /\ i >= 2) => HasPassword
      BY DEF Half, op, i
    <3>2. op = "login" /\ i = 1 => HasPassword
      BY <1>0, Place, Places DEF op, i, Allows
    <3>3. HasPassword
      BY <1>0, <2>3, <3>1, <3>2, Place, Places DEF op, i
    <3> QED BY <2>1, <3>3, StepFiles DEF HasPassword
  <2> QED BY <2>2, <2>3
<1>3. (op = "skip" /\ i + 1 = 6) \/ (op = "disable" /\ i + 1 = 10) \/ (op = "reset" /\ i + 1 = 2)
        => ~HasPassword'
  <2>1. CASE op = "skip" /\ i = 5
    <3>1. ~HasPassword /\ ~(At(a, "truncate") \/ At(a, "hash") \/ At(a, "unhash"))
      BY <1>0, <2>1, Place, Places DEF op, i, Allows
    <3> QED BY <3>1, StepFiles DEF HasPassword
  <2>2. CASE (op = "disable" /\ i = 9) \/ (op = "reset" /\ i = 1)
    <3>1. At(a, "unhash") /\ ~(At(a, "truncate") \/ At(a, "hash"))
      BY <1>0, <2>2, Place, Places DEF op, i
    <3> QED BY <3>1, StepFiles
  <2> QED BY <1>0, <2>1, <2>2
<1>4. op = "disable" /\ i + 1 >= 9 => marker'
  <2> SUFFICES ASSUME op = "disable", i >= 8 PROVE marker'
    BY <1>0
  <2>1. ~(At(a, "unmark") \/ At(a, "sweep"))
    BY <1>0, Place, Places DEF op, i
  <2>2. CASE i = 8
    <3>1. At(a, "mark") /\ ~(At(a, "truncate") \/ At(a, "hash") \/ At(a, "unhash"))
      BY <1>0, <2>2, Place, Places DEF op, i
    <3> QED BY <3>1, StepFiles
  <2>3. CASE i >= 9
    <3>1. marker
      BY <2>3 DEF Half, op, i
    <3> QED BY <2>1, <3>1, StepFiles
  <2> QED BY <1>0, <2>2, <2>3
<1> QED BY <1>1, <1>2, <1>3, <1>4 DEF Half

(* The last step of a lone request leaves what the API promises for it. *)
LEMMA LastStep ==
  ASSUME SessionsType, NEW a \in Actors, Step(a), Half(a), Allows(a),
         req[a].i = Len(Program[req[a].op]), req[a].op \in DOMAIN Outcome
  PROVE  Protection' = Outcome[req[a].op]
<1> DEFINE op == req[a].op
           i == req[a].i
<1>0. a \in Busy /\ op \in Ops /\ i \in 1..Len(Program[op]) /\ i = Len(Program[op])
  BY Moved, Place DEF Busy
<1>5. /\ op \in {"setup", "change", "login"} => Outcome[op] = "set"
      /\ op \in {"skip", "disable"} => Outcome[op] = "disabled"
      /\ op = "reset" => Outcome[op] = "unset"
  BY DEF Outcome
<1>6. /\ (op = "setup" /\ i >= 5) \/ (op = "change" /\ i >= 8) \/ (op = "login" /\ i >= 2) => HasPassword
      /\ (op = "skip" /\ i = 6) \/ (op = "disable" /\ i = 10) \/ (op = "reset" /\ i = 2) => ~HasPassword
      /\ op = "disable" /\ i >= 9 => marker
  BY DEF Half
<1>7. op \in {"setup", "change", "login", "skip", "disable", "reset"}
  BY DEF Outcome
<1> SUFFICES Protection' = Outcome[op]
  OBVIOUS
<1> HIDE DEF op, i
<1>1. CASE op \in {"setup", "change", "login"}
  <2>1. /\ (op = "setup" /\ i = 7) \/ (op = "change" /\ i = 10) \/ (op = "login" /\ i = 5)
        /\ Outcome[op] = "set"
    BY <1>0, <1>1, <1>5, Lengths
  <2>2. HasPassword
    BY <1>6, <2>1
  <2>3. At(a, "create")
    <3>1. CASE op = "setup" /\ i = 7
      BY <1>0, <3>1, Place, Places DEF op, i
    <3>2. CASE op = "change" /\ i = 10
      BY <1>0, <3>2, Place, Places DEF op, i
    <3>3. CASE op = "login" /\ i = 5
      BY <1>0, <3>3, Place, Places DEF op, i
    <3> QED BY <2>1, <3>1, <3>2, <3>3
  <2>4. HasPassword'
    BY <2>2, <2>3, StepFiles DEF At, HasPassword
  <2> QED BY <2>1, <2>4 DEF Protection
<1>2. CASE op = "skip"
  <2>1. i = 6 /\ Outcome[op] = "disabled"
    BY <1>0, <1>2, <1>5, Lengths
  <2>2. ~HasPassword
    BY <1>2, <1>6, <2>1
  <2>3. At(a, "mark")
    BY <1>0, <1>2, <2>1, Place, Places DEF op, i
  <2>4. ~HasPassword' /\ marker'
    BY <2>2, <2>3, StepFiles DEF At, HasPassword
  <2> QED BY <2>1, <2>4 DEF Protection
<1>3. CASE op = "disable"
  <2>1. i = 10 /\ Outcome[op] = "disabled"
    BY <1>0, <1>3, <1>5, Lengths
  <2>2. ~HasPassword /\ marker
    BY <1>3, <1>6, <2>1
  <2>3. ~(At(a, "truncate") \/ At(a, "hash") \/ At(a, "unmark") \/ At(a, "sweep"))
    BY <1>0, <1>3, <2>1, Place, Places DEF op, i
  <2>4. ~HasPassword' /\ marker'
    BY <2>2, <2>3, StepFiles DEF HasPassword
  <2> QED BY <2>1, <2>4 DEF Protection
<1>4. CASE op = "reset"
  <2>1. i = 2 /\ Outcome[op] = "unset"
    BY <1>0, <1>4, <1>5, Lengths
  <2>2. ~HasPassword
    BY <1>4, <1>6, <2>1
  <2>3. At(a, "unmark")
    BY <1>0, <1>4, <2>1, Place, Places DEF op, i
  <2>4. ~HasPassword' /\ ~marker'
    BY <2>2, <2>3, StepFiles DEF At, HasPassword
  <2> QED BY <2>1, <2>4 DEF Protection
<1> QED BY <1>1, <1>2, <1>3, <1>4, <1>7

LEMMA LoneStep ==
  SessionsType /\ LoneInv /\ OutcomeWhenAlone /\ [Next]_vars => LoneInv' /\ OutcomeWhenAlone'
<1> SUFFICES ASSUME SessionsType, LoneInv, OutcomeWhenAlone, [Next]_vars
             PROVE  LoneInv' /\ OutcomeWhenAlone'
  OBVIOUS
<1>1. ASSUME NEW a \in Actors, NEW op \in Ops, NEW pw \in Passwords \cup {None},
             NEW new \in Passwords \cup {None}, Begin(a, op, pw, new)
      PROVE  LoneInv' /\ OutcomeWhenAlone'
  <2>1. /\ Busy' = Busy \cup {a} /\ req'[a].i = 1 /\ (~req'[a].met => Busy = {})
        /\ \A b \in Actors \ {a} : b \in Busy => req'[b].met
    BY <1>1, BeginShape
  <2>2. last' = None /\ Busy \subseteq Actors
    BY <1>1 DEF Begin, Busy
  <2>3. Half(a)'
    BY <2>1 DEF Half
  <2> QED BY <2>1, <2>2, <2>3 DEF LoneInv, OutcomeWhenAlone
<1>2. ASSUME NEW a \in Actors, Step(a) PROVE LoneInv' /\ OutcomeWhenAlone'
  <2>1. a \in Busy /\ last = None
    BY <1>2, Moved DEF LoneInv
  <2>2. ASSUME NEW b \in Busy', ~req'[b].met PROVE Busy' = {b} /\ Half(b)'
    <3>1. b \in Busy
      BY <1>2, Moved
    <3>2. CASE b # a
      <4>1. ~req[b].met
        BY <1>2, <2>2, <3>1, <3>2, Moved DEF Busy
      <4> QED BY <2>1, <3>1, <3>2, <4>1 DEF LoneInv
    <3>3. CASE b = a
      <4>1. req'[a].op # "none"
        BY <2>2, <3>3 DEF Busy
      <4>2. /\ req'[a].op = req[a].op /\ req'[a].i = req[a].i + 1 /\ req'[a].met = req[a].met
            /\ Busy' = Busy /\ Allows(a)
        BY <1>2, <4>1, IdleRequest, Moved
      <4>3. Busy = {a} /\ Half(a)
        BY <2>1, <2>2, <3>3, <4>2 DEF LoneInv
      <4> QED BY <1>2, <3>3, <4>2, <4>3, HalfStep
    <3> QED BY <3>2, <3>3
  <2>3. ASSUME last' # None PROVE Busy' = {} /\ (last' \in DOMAIN Outcome => Protection' = Outcome[last'])
    <3>1. /\ Allows(a) /\ req[a].i = Len(Program[req[a].op]) /\ ~req[a].met
          /\ last' = req[a].op /\ Busy' = Busy \ {a}
      BY <1>2, <2>1, <2>3, Moved
    <3>2. Busy = {a} /\ Half(a)
      BY <2>1, <3>1 DEF LoneInv
    <3> QED BY <1>2, <3>1, <3>2, LastStep
  <2> QED BY <2>2, <2>3 DEF LoneInv, OutcomeWhenAlone
<1>3. CASE Crash
  BY <1>3, IdleRequest DEF Crash, LoneInv, OutcomeWhenAlone, Busy
<1>4. CASE Unblock \/ UNCHANGED vars
  BY <1>4 DEF Unblock, vars, files, LoneInv, OutcomeWhenAlone, Busy, Half, Protection, HasPassword
<1> QED BY <1>1, <1>2, <1>3, <1>4, Begins

-----------------------------------------------------------------------------
LEMMA PauseInit == Init => PauseInv
<1> SUFFICES ASSUME Init PROVE PauseInv
  OBVIOUS
<1>1. Busy = {} /\ blocked = FALSE
  BY IdleRequest DEF Init, Busy
<1> QED BY <1>1, FS_EmptySet DEF PauseInv

(* The requests past the look at the pause are under way, and finitely many. *)
LEMMA UnpausedBusy ==
  ASSUME SessionsType, IsFiniteSet(Busy)
  PROVE  Unpaused \subseteq Busy /\ IsFiniteSet(Unpaused) /\ Cardinality(Unpaused) \in Nat
<1>1. Unpaused \subseteq Busy
  BY DEF Unpaused, Busy, At
<1> QED BY <1>1, FS_Subset, FS_CardinalityType

(* Nobody comes past the look during a pause, and who counts has left it. *)
LEMMA StepUnpaused ==
  ASSUME SessionsType, NEW a \in Actors, Step(a)
  PROVE  /\ blocked => Unpaused' \subseteq Unpaused
         /\ Unpaused' \subseteq Unpaused \cup {a}
         /\ At(a, "count") => a \in Unpaused /\ a \notin Unpaused'
<1>0. a \in Busy /\ req[a].op \in Ops /\ req[a].i \in 1..Len(Program[req[a].op]) /\ req[a].i \in Nat
  BY Moved, Place DEF Busy, SessionsType, Requests
<1>1. ASSUME NEW b \in Actors \ {a} PROVE b \in Unpaused' <=> b \in Unpaused
  <2>1. req'[b] = req[b]
    BY Moved
  <2> QED BY <2>1 DEF Unpaused, At
<1>2. CASE req'[a] = NoRequest
  <2>1. a \notin Unpaused'
    BY <1>2, IdleRequest DEF Unpaused, At
  <2> QED BY <1>1, <2>1 DEF Unpaused
<1>3. CASE /\ req'[a].op = req[a].op /\ req'[a].i = req[a].i + 1
           /\ req[a].i < Len(Program[req[a].op]) /\ Allows(a)
  <2> DEFINE op == req[a].op
             i == req[a].i
  <2>1. op \in Ops /\ i + 1 \in 1..Len(Program[op]) /\ Len(Program[op]) \in Nat
    BY <1>0, <1>3, Length
  <2>2. a \in Unpaused' <=> Program[op][i + 1] \in {"verify", "count"}
    BY <1>0, <1>3 DEF Unpaused, At, Busy
  <2> HIDE DEF op, i
  <2>3. Program[op][i + 1] \in {"verify", "count"}
          => \/ op = "login" /\ i + 1 \in 3..4
             \/ op = "change" /\ i + 1 \in 5..6
             \/ op = "disable" /\ i + 1 \in 6..7
    BY <2>1, Places
  <2>4. a \in Unpaused' => At(a, "blocked") \/ At(a, "verify")
    <3> SUFFICES ASSUME a \in Unpaused' PROVE At(a, "blocked") \/ At(a, "verify")
      OBVIOUS
    <3>1. \/ op = "login" /\ i \in 2..3
          \/ op = "change" /\ i \in 4..5
          \/ op = "disable" /\ i \in 5..6
      BY <1>0, <2>2, <2>3 DEF i
    <3>2. Program[op][i] \in {"blocked", "verify"}
      BY <1>0, <3>1, Places DEF op, i
    <3> QED BY <1>0, <3>2, Place DEF op, i, Busy
  <2>5. At(a, "verify") => a \in Unpaused
    BY DEF Unpaused
  <2>6. ~(At(a, "count") /\ (At(a, "blocked") \/ At(a, "verify")))
    BY DEF At
  <2>7. At(a, "count") => a \in Unpaused
    BY DEF Unpaused
  <2> QED BY <1>1, <1>3, <2>4, <2>5, <2>6, <2>7 DEF Allows, Unpaused
<1> QED BY <1>2, <1>3, Moved

LEMMA PauseStep == SessionsType /\ PauseInv /\ [Next]_vars => PauseInv'
<1> SUFFICES ASSUME SessionsType, PauseInv, [Next]_vars PROVE PauseInv'
  OBVIOUS
<1>0. /\ IsFiniteSet(Busy) /\ IsFiniteSet(Unpaused) /\ Cardinality(Unpaused) \in Nat
      /\ Unpaused \subseteq Busy /\ late \in Nat /\ under \in Nat /\ blocked \in BOOLEAN
  BY UnpausedBusy DEF PauseInv, SessionsType
<1>1. ASSUME NEW a \in Actors, NEW op \in Ops, NEW pw \in Passwords \cup {None},
             NEW new \in Passwords \cup {None}, Begin(a, op, pw, new)
      PROVE  PauseInv'
  <2>1. /\ Busy' = Busy \cup {a} /\ a \notin Busy /\ req'[a].op = op /\ req'[a].i = 1
        /\ \A b \in Actors \ {a} : req'[b].op = req[b].op /\ req'[b].i = req[b].i
    BY <1>1, BeginShape
  <2>2. IsFiniteSet(Busy')
    BY <1>0, <2>1, FS_AddElement
  <2>3. a \notin Unpaused'
    <3>1. 1 \in 1..Len(Program[op])
      BY Length
    <3>2. Program[op][1] \notin {"verify", "count"}
      BY <3>1, Places
    <3> QED BY <2>1, <3>2 DEF Unpaused, At
  <2>4. a \notin Unpaused
    BY <1>0, <2>1
  <2>5. Unpaused' = Unpaused
    BY <2>1, <2>3, <2>4 DEF Unpaused, At
  <2>6. blocked' = blocked /\ late' = late /\ under' = under
    BY <1>1 DEF Begin, throttle
  <2> QED BY <2>2, <2>5, <2>6 DEF PauseInv
<1>2. ASSUME NEW a \in Actors, Step(a) PROVE PauseInv'
  <2>1. a \in Busy /\ Busy' \in {Busy, Busy \ {a}}
    BY <1>2, Moved
  <2>2. IsFiniteSet(Busy') /\ IsFiniteSet(Busy \ {a}) /\ Cardinality(Busy \ {a}) \in Nat
    BY <1>0, <2>1, FS_RemoveElement, FS_CardinalityType
  <2>3. blocked' => late' + Cardinality(Unpaused') <= under'
    <3> SUFFICES ASSUME blocked' PROVE late' + Cardinality(Unpaused') <= under'
      OBVIOUS
    <3>1. CASE Count(a)
      <4>1. a \in Unpaused /\ Unpaused' \subseteq Unpaused \ {a}
        BY <1>2, <3>1, StepUnpaused DEF Count
      <4>2. /\ IsFiniteSet(Unpaused \ {a})
            /\ Cardinality(Unpaused \ {a}) = Cardinality(Unpaused) - 1
        BY <1>0, <4>1, FS_RemoveElement
      <4>3. /\ Cardinality(Unpaused') \in Nat
            /\ Cardinality(Unpaused') <= Cardinality(Unpaused) - 1
        BY <4>1, <4>2, FS_Subset, FS_CardinalityType
      <4>4. CASE blocked
        <5>1. under' = under /\ late' \in {late, late + 1}
          BY <3>1, <4>4 DEF Count
        <5> QED BY <1>0, <4>3, <4>4, <5>1 DEF PauseInv
      <4>5. CASE ~blocked
        <5>1. late' = 0 /\ under' = Cardinality(Busy \ {a})
          BY <3>1, <4>5 DEF Count
        <5>2. Unpaused' \subseteq Busy \ {a}
          BY <1>0, <4>1
        <5>3. Cardinality(Unpaused') <= Cardinality(Busy \ {a})
          BY <2>2, <5>2, FS_Subset
        <5> QED BY <2>2, <4>3, <5>1, <5>3
      <4> QED BY <4>4, <4>5
    <3>2. CASE ~Count(a)
      <4>1. UNCHANGED throttle
        BY <1>2, <3>2 DEF Step, Peek, Sweep, Session, Look, AskThrottle, Read, Truncate, Hash, Write,
                          Unmark, Mark, Unhash, Create, DropSession, DropAll
      <4>2. blocked /\ late' = late /\ under' = under
        BY <4>1 DEF throttle
      <4>3. Unpaused' \subseteq Unpaused
        BY <1>2, <4>2, StepUnpaused
      <4>4. Cardinality(Unpaused') \in Nat /\ Cardinality(Unpaused') <= Cardinality(Unpaused)
        BY <1>0, <4>3, FS_Subset, FS_CardinalityType
      <4> QED BY <1>0, <4>2, <4>4 DEF PauseInv
    <3> QED BY <3>1, <3>2
  <2> QED BY <2>2, <2>3 DEF PauseInv
<1>3. CASE Crash
  <2>1. Busy' = {} /\ blocked' = FALSE
    BY <1>3, IdleRequest DEF Crash, Busy
  <2> QED BY <2>1, FS_EmptySet DEF PauseInv
<1>4. CASE Unblock
  <2>1. blocked' = FALSE /\ Busy' = Busy
    BY <1>4 DEF Unblock, Busy
  <2> QED BY <1>0, <2>1 DEF PauseInv
<1>5. CASE UNCHANGED vars
  <2>1. Busy' = Busy /\ Unpaused' = Unpaused
    BY <1>5 DEF vars, Busy, Unpaused, At
  <2>2. blocked' = blocked /\ late' = late /\ under' = under
    BY <1>5 DEF vars, throttle
  <2> QED BY <2>1, <2>2 DEF PauseInv
<1> QED BY <1>1, <1>2, <1>3, <1>4, <1>5, Begins

-----------------------------------------------------------------------------
LEMMA Invariance == Spec => []IInv
<1>1. Init => IInv
  <2>1. Init => SessionOfPassword
    BY DEF Init, SessionOfPassword, Valid, Version, HasPassword
  <2> QED BY <2>1, TypeInit, VersionInit, LoneInit, PauseInit DEF IInv
<1>2. IInv /\ [Next]_vars => IInv'
  <2> SUFFICES ASSUME IInv, [Next]_vars PROVE IInv'
    OBVIOUS
  <2>1. SessionsType'
    BY TypeStep DEF IInv, PauseInv
  <2>2. VersionInv' /\ SessionOfPassword'
    BY VersionStep, SessionStep DEF IInv
  <2>3. LoneInv' /\ OutcomeWhenAlone'
    BY LoneStep DEF IInv
  <2>4. PauseInv'
    BY PauseStep DEF IInv
  <2> QED BY <2>1, <2>2, <2>3, <2>4 DEF IInv
<1> QED BY <1>1, <1>2, PTL DEF Spec

(* The files, the sessions, the counts and the requests are of their types:   *)
(* no request leaves its program, and only a password is ever hashed.         *)
THEOREM TypeCorrect == Spec => []SessionsType
<1>1. IInv => SessionsType
  BY DEF IInv
<1> QED BY <1>1, Invariance, PTL

(* A session that is accepted was opened with the password that is set now,   *)
(* whatever other requests, reset-password and stops of the container come    *)
(* between the steps (sessions.go:241-247).                                   *)
THEOREM SessionsFollowPassword == Spec => []SessionOfPassword
<1>1. IInv => SessionOfPassword
  BY DEF IInv
<1> QED BY <1>1, Invariance, PTL

(* A request that succeeds and met no other leaves the protection the API     *)
(* promises for it (sessions.go:93-112, 134-158, 284-292).                    *)
THEOREM LoneRequestKeepsPromise == Spec => []OutcomeWhenAlone
<1>1. IInv => OutcomeWhenAlone
  BY DEF IInv
<1> QED BY <1>1, Invariance, PTL

(* During the pause no wrong password is counted but those of the requests    *)
(* under way when it began, however many clients there are (sessions.go:161). *)
THEOREM PauseIsKept == Spec => []PauseHolds
<1>1. IInv => PauseHolds
  <2> SUFFICES ASSUME IInv, blocked PROVE late <= under
    BY DEF PauseHolds
  <2>1. Cardinality(Unpaused) \in Nat /\ late \in Nat /\ under \in Nat
    BY UnpausedBusy DEF IInv, PauseInv, SessionsType
  <2> QED BY <2>1 DEF IInv, PauseInv
<1> QED BY <1>1, Invariance, PTL
=============================================================================
