-------------------------- MODULE DataFilesProofs --------------------------
(* Proofs about DataFiles: the configuration, for any clients, patches and    *)
(* values, and the locations, for any number of Refreshes; both for any       *)
(* number of failed writes and of restarts.                                   *)
EXTENDS DataFiles, TLAPS

Stages == {"idle", "lock", "save", "rename", "commit"}
Pending == [pc : Stages, patch : Patches \cup {None}, next : Configs]

ConfigType ==
  /\ file \in Configs /\ cur \in Configs
  /\ lock \in Clients \cup {None}
  /\ patch \in [Clients -> Pending]

(* A configuration that the agent may store. *)
Sound(c) == Valid(c) /\ c.password # "***"

Saving(c) == patch[c].pc \in {"save", "rename", "commit"}

(* Whoever saves has the lock, and saves a sound merge of what is in memory.  *)
(* Memory and volume differ between the rename and the commit only.           *)
SaveInv ==
  /\ \A c \in Clients : Saving(c) <=> lock = c
  /\ \A c \in Clients : patch[c].pc = "idle" <=> patch[c].patch = None
  /\ \A c \in Clients : Saving(c) => Sound(patch[c].next)
  /\ \A c \in Clients : patch[c].pc \in {"save", "rename"} => patch[c].next = Merge(cur, patch[c].patch)
  /\ \A c \in Clients : patch[c].pc = "commit" => file = patch[c].next
  /\ (\A c \in Clients : patch[c].pc # "commit") => cur = file

IInv == ConfigType /\ SaveInv /\ StoredConfigStarts

-----------------------------------------------------------------------------
(* The merge of a patch keeps the type, and a mask never gets into it.        *)
LEMMA MergeSound ==
  ASSUME NEW c \in Configs, NEW p \in Patches
  PROVE  /\ Merge(c, p) \in Configs
         /\ c.password # "***" => Merge(c, p).password # "***"
<1> DEFINE F == {"mode", "host", "password"}
           m == Merge(c, p)
<1>1. c = [f \in F |-> c[f]] /\ DOMAIN c = F
  BY DEF Configs
<1>2. /\ c.mode \in Modes \cup {""} /\ c.host \in Hosts \cup {""} /\ c.password \in Secrets \cup {"", "***"}
      /\ p.mode \in Modes \cup {"absent", "null"} /\ p.host \in Hosts \cup {"absent", "null"}
      /\ p.password \in Secrets \cup {"absent", "null", "***"}
  BY PatchAssumption DEF Configs, MergePatches
<1>3. m = [f \in F |-> IF Keeps(f, p[f]) THEN c[f] ELSE IF p[f] = "null" THEN "" ELSE p[f]]
  BY <1>1 DEF Merge
<1>4. /\ m.mode \in Modes \cup {""} /\ m.host \in Hosts \cup {""} /\ m.password \in Secrets \cup {"", "***"}
  BY <1>2, <1>3 DEF Keeps
<1>5. m \in Configs
  BY <1>3, <1>4 DEF Configs
<1>6. ASSUME c.password # "***" PROVE m.password # "***"
  BY <1>2, <1>3, <1>6, DataAssumption DEF Keeps
<1> QED BY <1>5, <1>6

LEMMA DefaultSound == Default \in Configs /\ Sound(Default) /\ Waiting \in Pending
  BY DEF Default, Configs, Modes, Sound, Valid, Waiting, Pending, Stages

LEMMA InitIInv == Init => IInv
<1> SUFFICES ASSUME Init PROVE IInv
  OBVIOUS
<1>1. ConfigType
  BY DefaultSound DEF Init, ConfigType
<1>2. \A c \in Clients : patch[c].pc = "idle" /\ patch[c].patch = None
  BY DEF Init, Waiting
<1>3. lock \notin Clients /\ cur = file
  BY DataAssumption DEF Init
<1>4. SaveInv
  BY <1>2, <1>3 DEF SaveInv, Saving
<1> QED BY <1>1, <1>4, DefaultSound DEF Init, IInv, StoredConfigStarts, Sound

-----------------------------------------------------------------------------
(* A step of client c gives it the record n and leaves the others theirs. *)
LEMMA PatchStep ==
  ASSUME ConfigType, NEW c \in Clients, NEW n \in Pending, patch' = [patch EXCEPT ![c] = n]
  PROVE  /\ patch' \in [Clients -> Pending] /\ patch'[c] = n
         /\ \A d \in Clients \ {c} : patch'[d] = patch[d]
  BY DEF ConfigType

LEMMA WaitingType ==
  /\ Waiting \in Pending /\ Waiting.pc = "idle" /\ Waiting.patch = None
  BY DefaultSound DEF Waiting

(* A patch is answered by the client that has the lock, or when nobody has it, *)
(* at a point where memory and volume agree.                                   *)
LEMMA AnswerStep ==
  ASSUME IInv, NEW c \in Clients, Answer(c), lock \in {None, c},
         file' \in Configs, cur' = file', Sound(file')
  PROVE  IInv'
<1>1. /\ patch' \in [Clients -> Pending] /\ patch'[c] = Waiting
      /\ \A d \in Clients \ {c} : patch'[d] = patch[d]
  BY PatchStep, WaitingType DEF Answer, IInv
<1>2. lock' = None /\ None \notin Clients
  BY DataAssumption DEF Answer
<1>3. \A d \in Clients : ~Saving(d)'
  <2>1. \A d \in Clients \ {c} : ~Saving(d)
    BY <1>2 DEF IInv, SaveInv
  <2> QED BY <1>1, <2>1, WaitingType DEF Saving
<1>4. \A d \in Clients : patch'[d].pc = "idle" <=> patch'[d].patch = None
  BY <1>1, WaitingType DEF IInv, SaveInv
<1>5. \A d \in Clients : patch'[d].pc \notin {"save", "rename", "commit"}
  BY <1>3 DEF Saving
<1>6. SaveInv'
  BY <1>2, <1>3, <1>4, <1>5 DEF SaveInv
<1> QED BY <1>1, <1>2, <1>6 DEF IInv, ConfigType, StoredConfigStarts, Sound

LEMMA Step == IInv /\ [Next]_vars => IInv'
<1> SUFFICES ASSUME IInv, [Next]_vars PROVE IInv'
  OBVIOUS
<1>0. /\ Sound(file) /\ Sound(cur) /\ file \in Configs /\ cur \in Configs /\ None \notin Clients
      /\ \A d \in Clients : patch[d] \in Pending
  BY DataAssumption DEF IInv, StoredConfigStarts, Sound, ConfigType
<1>1. ASSUME NEW c \in Clients, Send(c) PROVE IInv'
  <2>1. PICK p \in Patches : patch' = [patch EXCEPT ![c] = [pc |-> "lock", patch |-> p, next |-> Default]]
    BY <1>1 DEF Send
  <2> DEFINE n == [pc |-> "lock", patch |-> p, next |-> Default]
  <2>2. n \in Pending /\ n.pc = "lock" /\ n.patch # None
    BY DefaultSound, PatchAssumption DEF Pending, Stages
  <2> HIDE DEF n
  <2>3. /\ patch' \in [Clients -> Pending] /\ patch'[c] = n
        /\ \A d \in Clients \ {c} : patch'[d] = patch[d]
    BY <2>1, <2>2, PatchStep DEF n, IInv
  <2>4. UNCHANGED <<file, cur, lock>> /\ patch[c].pc = "idle"
    BY <1>1 DEF Send
  <2>5. SaveInv'
    BY <2>2, <2>3, <2>4 DEF IInv, SaveInv, Saving
  <2> QED BY <2>3, <2>4, <2>5 DEF IInv, ConfigType, StoredConfigStarts, Valid
<1>2. ASSUME NEW c \in Clients, MergePatch(c) PROVE IInv'
  <2> DEFINE next == Merge(cur, patch[c].patch)
  <2>1. /\ patch[c].pc = "lock" /\ lock = None /\ UNCHANGED <<file, cur>>
        /\ IF Valid(next) /\ next # cur
           THEN /\ patch' = [patch EXCEPT ![c].pc = "save", ![c].next = next]
                /\ lock' = c
           ELSE Answer(c)
    BY <1>2 DEF MergePatch
  <2>2. \A d \in Clients : ~Saving(d)
    BY <2>1, <1>0 DEF IInv, SaveInv
  <2>3. cur = file
    BY <2>2 DEF IInv, SaveInv, Saving
  <2>4. CASE Answer(c)
    BY <2>1, <2>3, <2>4, <1>0, AnswerStep
  <2>5. CASE ~Answer(c)
    <3>1. patch[c].patch \in Patches
      BY <2>1, <1>0 DEF IInv, SaveInv, Pending
    <3>2. next \in Configs /\ next.password # "***"
      BY <3>1, <1>0, MergeSound DEF Sound
    <3> HIDE DEF next
    <3>3. Sound(next)
      BY <2>1, <2>5, <3>2 DEF Sound
    <3> DEFINE n == [patch[c] EXCEPT !.pc = "save", !.next = next]
    <3>4. n \in Pending /\ n.pc = "save" /\ n.next = next /\ n.patch = patch[c].patch
      BY <1>0, <3>2 DEF Pending, Stages
    <3>5. patch' = [patch EXCEPT ![c] = n]
      BY <2>1, <2>5 DEF IInv, ConfigType
    <3> HIDE DEF n
    <3>6. /\ patch' \in [Clients -> Pending] /\ patch'[c] = n
          /\ \A d \in Clients \ {c} : patch'[d] = patch[d]
      BY <3>4, <3>5, PatchStep DEF IInv
    <3>7. lock' = c /\ next = Merge(cur, patch[c].patch)
      BY <2>1, <2>5 DEF next
    <3>8. \A d \in Clients : Saving(d)' <=> d = c
      BY <2>2, <3>4, <3>6 DEF Saving
    <3>9. \A d \in Clients \ {c} : patch'[d].pc \notin {"save", "rename", "commit"}
      BY <3>8 DEF Saving
    <3>10. SaveInv'
      <4>1. \A d \in Clients : Saving(d)' <=> lock' = d
        BY <3>7, <3>8
      <4>2. \A d \in Clients : patch'[d].pc = "idle" <=> patch'[d].patch = None
        BY <3>1, <3>4, <3>6, PatchAssumption DEF IInv, SaveInv
      <4>3. \A d \in Clients : Saving(d)' => Sound(patch'[d].next)
        BY <3>3, <3>4, <3>6, <3>8
      <4>4. Merge(cur, patch[c].patch) = Merge(cur', patch'[c].patch)
        BY <2>1, <3>4, <3>6
      <4>5. \A d \in Clients : patch'[d].pc \in {"save", "rename"} =>
              patch'[d].next = Merge(cur', patch'[d].patch)
        BY <3>4, <3>6, <3>7, <3>9, <4>4
      <4>6. \A d \in Clients : patch'[d].pc # "commit"
        BY <3>4, <3>6, <3>9
      <4> QED BY <2>1, <2>3, <4>1, <4>2, <4>3, <4>5, <4>6 DEF SaveInv, Sound, Valid
    <3> QED BY <2>1, <3>6, <3>7, <3>10 DEF IInv, ConfigType, StoredConfigStarts, Valid
  <2> QED BY <2>4, <2>5
<1> DEFINE Moves(c, stage) ==
      /\ patch' = [patch EXCEPT ![c].pc = stage]
      /\ UNCHANGED <<lock, cur>>
<1>m. ASSUME NEW c \in Clients, NEW stage \in {"rename", "commit"}, Moves(c, stage), Saving(c)
      PROVE  /\ patch' \in [Clients -> Pending]
             /\ patch'[c].pc = stage /\ patch'[c].patch = patch[c].patch /\ patch'[c].next = patch[c].next
             /\ \A d \in Clients \ {c} : patch'[d] = patch[d] /\ ~Saving(d) /\ ~Saving(d)'
             /\ Saving(c)'
  <2> DEFINE n == [patch[c] EXCEPT !.pc = stage]
  <2>1. n \in Pending /\ n.pc = stage /\ n.next = patch[c].next /\ n.patch = patch[c].patch
    BY <1>0 DEF Pending, Stages
  <2>2. patch' = [patch EXCEPT ![c] = n]
    BY <1>m DEF IInv, ConfigType
  <2> HIDE DEF n
  <2>3. /\ patch' \in [Clients -> Pending] /\ patch'[c] = n
        /\ \A d \in Clients \ {c} : patch'[d] = patch[d]
    BY <2>1, <2>2, PatchStep DEF IInv
  <2>4. lock = c
    BY <1>m DEF IInv, SaveInv
  <2>5. \A d \in Clients \ {c} : ~Saving(d)
    BY <2>4 DEF IInv, SaveInv
  <2> QED BY <2>1, <2>3, <2>5 DEF Saving
<1>3. ASSUME NEW c \in Clients, WriteTemp(c) PROVE IInv'
  <2>1. patch[c].pc = "save" /\ Saving(c) /\ UNCHANGED <<file, cur>>
    BY <1>3 DEF WriteTemp, BeforeSaving, Saving
  <2>2. lock = c
    BY <2>1 DEF IInv, SaveInv
  <2>3. cur = file
    <3>1. \A d \in Clients : patch[d].pc # "commit"
      BY <2>1, <2>2 DEF IInv, SaveInv, Saving
    <3> QED BY <3>1 DEF IInv, SaveInv
  <2>4. CASE Answer(c)
    BY <2>1, <2>2, <2>3, <2>4, <1>0, AnswerStep
  <2>5. CASE Moves(c, "rename")
    <3>1. /\ patch' \in [Clients -> Pending] /\ lock' = lock
          /\ patch'[c].pc = "rename" /\ patch'[c].patch = patch[c].patch /\ patch'[c].next = patch[c].next
          /\ \A d \in Clients \ {c} : patch'[d] = patch[d] /\ ~Saving(d) /\ ~Saving(d)'
          /\ Saving(c)'
      BY <1>m, <2>1, <2>5
    <3>2. \A d \in Clients \ {c} : patch'[d].pc \notin {"save", "rename", "commit"}
      BY <3>1 DEF Saving
    <3>3. patch'[c].next = Merge(cur', patch'[c].patch) /\ Sound(patch'[c].next)
      BY <2>1, <3>1 DEF IInv, SaveInv
    <3>4. SaveInv'
      BY <2>1, <2>2, <2>3, <3>1, <3>2, <3>3 DEF IInv, SaveInv, Sound, Valid
    <3> QED BY <2>1, <3>1, <3>4 DEF IInv, ConfigType, StoredConfigStarts, Valid
  <2> QED BY <1>3, <2>1, <2>4, <2>5 DEF WriteTemp
<1>4. ASSUME NEW c \in Clients, Rename(c) PROVE IInv'
  <2>1. patch[c].pc = "rename" /\ Saving(c) /\ UNCHANGED cur
    BY <1>4 DEF Rename, Saving
  <2>2. lock = c
    BY <2>1 DEF IInv, SaveInv
  <2>3. cur = file
    <3>1. \A d \in Clients : patch[d].pc # "commit"
      BY <2>1, <2>2 DEF IInv, SaveInv, Saving
    <3> QED BY <3>1 DEF IInv, SaveInv
  <2>4. CASE Answer(c) /\ UNCHANGED file
    BY <2>1, <2>2, <2>3, <2>4, <1>0, AnswerStep
  <2>5. CASE Moves(c, "commit") /\ file' = patch[c].next
    <3>1. /\ patch' \in [Clients -> Pending] /\ lock' = lock
          /\ patch'[c].pc = "commit" /\ patch'[c].patch = patch[c].patch /\ patch'[c].next = patch[c].next
          /\ \A d \in Clients \ {c} : patch'[d] = patch[d] /\ ~Saving(d) /\ ~Saving(d)'
          /\ Saving(c)'
      BY <1>m, <2>1, <2>5
    <3>2. \A d \in Clients \ {c} : patch'[d].pc \notin {"save", "rename", "commit"}
      BY <3>1 DEF Saving
    <3>3. Sound(patch[c].next) /\ patch[c].next \in Configs
      BY <2>1, <1>0 DEF IInv, SaveInv, Pending
    <3>4. SaveInv'
      BY <2>1, <2>2, <2>5, <3>1, <3>2, <3>3 DEF IInv, SaveInv, Sound, Valid
    <3> QED BY <2>1, <2>5, <3>1, <3>3, <3>4 DEF IInv, ConfigType, StoredConfigStarts, Valid, Sound
  <2> QED BY <1>4, <2>1, <2>4, <2>5 DEF Rename
<1>5. ASSUME NEW c \in Clients, Commit(c) PROVE IInv'
  <2>1. patch[c].pc = "commit" /\ Saving(c) /\ Answer(c) /\ UNCHANGED file /\ cur' = patch[c].next
    BY <1>5 DEF Commit, Saving
  <2>2. lock = c /\ file = patch[c].next
    BY <2>1 DEF IInv, SaveInv
  <2> QED BY <2>1, <2>2, <1>0, AnswerStep
<1>6. CASE UNCHANGED configVars
  BY <1>6 DEF configVars, IInv, ConfigType, SaveInv, Saving, StoredConfigStarts, Valid, Sound
<1>7. CASE Restart
  <2>1. /\ \A d \in Clients : patch'[d] = Waiting
        /\ patch' \in [Clients -> Pending] /\ lock' = None /\ cur' = file /\ file' = file
    BY <1>7, WaitingType DEF Restart
  <2>2. \A d \in Clients : patch'[d].pc = "idle" /\ patch'[d].patch = None
    BY <2>1, WaitingType
  <2>3. SaveInv'
    BY <1>0, <2>1, <2>2 DEF SaveInv, Saving
  <2> QED BY <1>0, <2>1, <2>3 DEF IInv, ConfigType, StoredConfigStarts, Valid, Sound
<1>8. ASSUME NEW c \in Clients, Patching(c) PROVE IInv'
  BY <1>1, <1>2, <1>3, <1>4, <1>5, <1>8 DEF Patching
<1>9. CASE NewList \/ \E r \in Refreshers : Refresh(r)
  BY <1>6, <1>9 DEF NewList, Refresh, Ask, Keep, Open, Write, Move
<1>10. CASE UNCHANGED vars
  BY <1>6, <1>10 DEF vars
<1> QED BY <1>7, <1>8, <1>9, <1>10 DEF Next

LEMMA Inductive == Spec => []IInv
<1> QED BY InitIInv, Step, PTL DEF Spec

(* store.go:38, config.go:108: whatever clients send, what is in the volume   *)
(* and in memory is valid, and no mask is kept as a password.                 *)
THEOREM StoredIsSound == Spec => []StoredConfigStarts
<1>1. IInv => StoredConfigStarts
  BY DEF IInv
<1> QED BY Inductive, <1>1, PTL

-----------------------------------------------------------------------------
(* The document. *)

Calls == [c \in Clients |-> [patch |-> patch[c].patch, done |-> patch[c].pc = "commit"]]

LEMMA CallsType ==
  ASSUME ConfigType, NEW c \in Clients
  PROVE  /\ Calls[c] = [patch |-> patch[c].patch, done |-> patch[c].pc = "commit"]
         /\ Calls[c].patch = patch[c].patch
         /\ Calls[c].done <=> patch[c].pc = "commit"
  BY DEF Calls

(* One call changes as its patch does. *)
LEMMA OneCall ==
  ASSUME NEW c \in Clients, \A d \in Clients \ {c} : patch'[d] = patch[d]
  PROVE  Calls' = [Calls EXCEPT ![c] =
           [patch |-> patch'[c].patch, done |-> patch'[c].pc = "commit"]]
  BY DEF Calls

(* A record of a call with a field set. *)
LEMMA SetField ==
  ASSUME NEW r, NEW p, NEW q, NEW done, NEW t, r = [patch |-> p, done |-> done]
  PROVE  /\ [r EXCEPT !.patch = q] = [patch |-> q, done |-> done]
         /\ [r EXCEPT !.done = t] = [patch |-> p, done |-> t]
<1>1. [r EXCEPT !.patch = q] = [patch |-> q, done |-> done]
  <2> DEFINE R == [patch : {q}, done : {done}]
  <2>1. [r EXCEPT !.patch = q] \in R /\ [patch |-> q, done |-> done] \in R
    OBVIOUS
  <2>2. \A x, y \in R : x = y
    OBVIOUS
  <2> QED BY <2>1, <2>2
<1>2. [r EXCEPT !.done = t] = [patch |-> p, done |-> t]
  <2> DEFINE R == [patch : {p}, done : {t}]
  <2>1. [r EXCEPT !.done = t] \in R /\ [patch |-> p, done |-> t] \in R
    OBVIOUS
  <2>2. \A x, y \in R : x = y
    OBVIOUS
  <2> QED BY <2>1, <2>2
<1> QED BY <1>1, <1>2

LEMMA Unseen ==
  ASSUME UNCHANGED file, NEW c \in Clients, \A d \in Clients \ {c} : patch'[d] = patch[d],
         patch'[c].patch = patch[c].patch, patch'[c].pc # "commit", patch[c].pc # "commit"
  PROVE  UNCHANGED Document!vars
  BY DEF Document!vars

LEMMA Answered ==
  ASSUME ConfigType, NEW c \in Clients, Answer(c)
  PROVE  Calls' = [Calls EXCEPT ![c] = Document!Idle]
<1>1. patch'[c] = Waiting /\ \A d \in Clients \ {c} : patch'[d] = patch[d]
  BY PatchStep, WaitingType DEF Answer
<1>2. [patch |-> patch'[c].patch, done |-> patch'[c].pc = "commit"] = Document!Idle
  BY <1>1, WaitingType DEF Document!Idle
<1> QED BY <1>1, <1>2, OneCall

LEMMA InitKeeps == Init => Document!Init
<1> SUFFICES ASSUME Init PROVE Document!Init
  OBVIOUS
<1>1. \A c \in Clients : patch[c] = Waiting
  BY DEF Init
<1> QED BY <1>1, WaitingType DEF Init, Document!Init, Document!Idle

LEMMA StepKeeps == IInv /\ IInv' /\ [Next]_vars => [Document!Next]_Document!vars
<1> SUFFICES ASSUME IInv, IInv', [Next]_vars PROVE [Document!Next]_Document!vars
  OBVIOUS
<1>0. /\ ConfigType
      /\ \A d \in Clients : patch[d] \in Pending /\ (patch[d].pc = "idle" <=> patch[d].patch = None)
  BY DEF IInv, ConfigType, SaveInv
<1>1. ASSUME NEW c \in Clients, Send(c) PROVE Document!Next
  <2>1. PICK p \in Patches : patch' = [patch EXCEPT ![c] = [pc |-> "lock", patch |-> p, next |-> Default]]
    BY <1>1 DEF Send
  <2>2. patch'[c].pc = "lock" /\ patch'[c].patch = p /\ \A d \in Clients \ {c} : patch'[d] = patch[d]
    BY <2>1, <1>0 DEF ConfigType
  <2>3. patch[c].pc = "idle" /\ patch[c].patch = None /\ UNCHANGED file
    BY <1>0, <1>1 DEF Send
  <2>4. Calls[c] = Document!Idle
    BY <2>3, <1>0, CallsType DEF Document!Idle
  <2>5. Calls' = [Calls EXCEPT ![c].patch = p]
    <3>1. c \in DOMAIN Calls
      BY DEF Calls
    <3>2. [patch |-> patch'[c].patch, done |-> patch'[c].pc = "commit"] = [patch |-> p, done |-> FALSE]
      BY <2>2
    <3>3. [Calls[c] EXCEPT !.patch = p] = [patch |-> p, done |-> FALSE]
      <4> DEFINE no == FALSE
      <4>1. Calls[c] = [patch |-> None, done |-> no]
        BY <2>4 DEF Document!Idle
      <4> HIDE DEF no
      <4>2. [Calls[c] EXCEPT !.patch = p] = [patch |-> p, done |-> no]
        BY <4>1, SetField
      <4> QED BY <4>2 DEF no
    <3>4. Calls' = [Calls EXCEPT ![c] = [patch |-> p, done |-> FALSE]]
      BY <2>2, <3>2, OneCall
    <3> QED BY <3>1, <3>3, <3>4
  <2>6. Document!Begin(c, p)
    BY <2>3, <2>4, <2>5 DEF Document!Begin, Calls
  <2> QED BY <2>6 DEF Document!Next
<1>2. ASSUME NEW c \in Clients, MergePatch(c) PROVE [Document!Next]_Document!vars
  <2> DEFINE next == Merge(cur, patch[c].patch)
  <2>1. /\ patch[c].pc = "lock" /\ lock = None /\ UNCHANGED <<file, cur>>
        /\ IF Valid(next) /\ next # cur
           THEN patch' = [patch EXCEPT ![c].pc = "save", ![c].next = next]
           ELSE Answer(c)
    BY <1>2 DEF MergePatch
  <2>2. cur = file /\ patch[c].patch # None
    <3>1. \A d \in Clients : patch[d].pc # "commit"
      BY <2>1, DataAssumption DEF IInv, SaveInv, Saving
    <3> QED BY <3>1, <2>1, <1>0 DEF IInv, SaveInv
  <2>3. CASE Answer(c) /\ next = file
    <3>1. Calls' = [Calls EXCEPT ![c] = Document!Idle]
      BY <2>3, <1>0, Answered
    <3>2. Document!Accept(c)
      BY <2>1, <2>2, <2>3, <3>1, <1>0, CallsType DEF Document!Accept, Calls
    <3> QED BY <3>2 DEF Document!Next
  <2>4. CASE Answer(c) /\ next # file
    <3>1. Calls' = [Calls EXCEPT ![c] = Document!Idle]
      BY <2>4, <1>0, Answered
    <3>2. Document!Refuse(c)
      BY <2>1, <2>2, <3>1, <1>0, CallsType DEF Document!Refuse, Calls
    <3> QED BY <3>2 DEF Document!Next
  <2>5. CASE ~Answer(c)
    <3>1. /\ patch'[c].pc = "save" /\ patch'[c].patch = patch[c].patch
          /\ \A d \in Clients \ {c} : patch'[d] = patch[d]
      BY <2>1, <2>5, <1>0 DEF ConfigType, Pending
    <3> QED BY <2>1, <3>1, Unseen
  <2> QED BY <2>3, <2>4, <2>5
<1>3. ASSUME NEW c \in Clients, Answer(c), UNCHANGED file, patch[c].pc \in {"save", "rename"}
      PROVE  Document!Next
  <2>1. Calls' = [Calls EXCEPT ![c] = Document!Idle]
    BY <1>3, <1>0, Answered
  <2>2. Document!Refuse(c)
    BY <1>3, <2>1, <1>0, CallsType DEF Document!Refuse, Calls
  <2> QED BY <2>2 DEF Document!Next
<1>4. ASSUME NEW c \in Clients, WriteTemp(c) PROVE [Document!Next]_Document!vars
  <2>1. patch[c].pc = "save" /\ UNCHANGED file
    BY <1>4 DEF WriteTemp
  <2>2. CASE Answer(c)
    BY <1>3, <2>1, <2>2
  <2>3. CASE patch' = [patch EXCEPT ![c].pc = "rename"]
    <3>1. /\ patch'[c].pc = "rename" /\ patch'[c].patch = patch[c].patch
          /\ \A d \in Clients \ {c} : patch'[d] = patch[d]
      BY <2>3, <1>0 DEF ConfigType, Pending
    <3> QED BY <2>1, <3>1, Unseen
  <2> QED BY <1>4, <2>2, <2>3 DEF WriteTemp
<1>5. ASSUME NEW c \in Clients, Rename(c) PROVE [Document!Next]_Document!vars
  <2>1. patch[c].pc = "rename" /\ patch[c].patch # None
    BY <1>0, <1>5 DEF Rename
  <2>2. CASE Answer(c) /\ UNCHANGED file
    BY <1>3, <2>1, <2>2
  <2>3. CASE patch' = [patch EXCEPT ![c].pc = "commit"] /\ file' = patch[c].next
    <3>1. /\ patch'[c].pc = "commit" /\ patch'[c].patch = patch[c].patch
          /\ \A d \in Clients \ {c} : patch'[d] = patch[d]
      BY <2>3, <1>0 DEF ConfigType, Pending
    <3>2. lock = c /\ patch[c].next = Merge(cur, patch[c].patch) /\ Valid(patch[c].next)
      BY <2>1 DEF IInv, SaveInv, Saving, Sound
    <3>3. cur = file
      <4>1. \A d \in Clients : patch[d].pc # "commit"
        BY <2>1, <3>2 DEF IInv, SaveInv, Saving
      <4> QED BY <4>1 DEF IInv, SaveInv
    <3>4. Calls' = [Calls EXCEPT ![c].done = TRUE]
      <4>1. c \in DOMAIN Calls
        BY DEF Calls
      <4>2. [patch |-> patch'[c].patch, done |-> patch'[c].pc = "commit"]
              = [patch |-> patch[c].patch, done |-> TRUE]
        BY <3>1
      <4>3. Calls[c] = [patch |-> patch[c].patch, done |-> FALSE]
        BY <2>1, <1>0, CallsType
      <4>4. [Calls[c] EXCEPT !.done = TRUE] = [patch |-> patch[c].patch, done |-> TRUE]
        <5> DEFINE no == FALSE
                   yes == TRUE
        <5>1. Calls[c] = [patch |-> patch[c].patch, done |-> no]
          BY <4>3
        <5> HIDE DEF no, yes
        <5>2. [Calls[c] EXCEPT !.done = yes] = [patch |-> patch[c].patch, done |-> yes]
          BY <5>1, SetField
        <5> QED BY <5>2 DEF yes
      <4>5. Calls' = [Calls EXCEPT ![c] = [patch |-> patch[c].patch, done |-> TRUE]]
        BY <3>1, <4>2, OneCall
      <4> QED BY <4>1, <4>4, <4>5
    <3>5. Document!Apply(c)
      BY <2>1, <2>3, <3>2, <3>3, <3>4, <1>0, CallsType DEF Document!Apply, Calls
    <3> QED BY <3>5 DEF Document!Next
  <2> QED BY <1>5, <2>2, <2>3 DEF Rename
<1>6. ASSUME NEW c \in Clients, Commit(c) PROVE Document!Next
  <2>1. patch[c].pc = "commit" /\ patch[c].patch # None /\ Answer(c) /\ UNCHANGED file
    BY <1>0, <1>6 DEF Commit
  <2>2. Calls' = [Calls EXCEPT ![c] = Document!Idle]
    BY <2>1, <1>0, Answered
  <2>3. Document!Accept(c)
    BY <2>1, <2>2, <1>0, CallsType DEF Document!Accept, Calls
  <2> QED BY <2>3 DEF Document!Next
<1>7. CASE Restart
  <2>1. UNCHANGED file /\ \A c \in Clients : patch'[c] = Waiting
    BY <1>7 DEF Restart
  <2>2. Document!Crash
    BY <2>1, WaitingType DEF Document!Crash, Document!Idle
  <2> QED BY <2>2 DEF Document!Next
<1>8. CASE UNCHANGED configVars
  BY <1>8 DEF configVars, Document!vars
<1>9. ASSUME NEW c \in Clients, Patching(c) PROVE [Document!Next]_Document!vars
  BY <1>1, <1>2, <1>4, <1>5, <1>6, <1>9 DEF Patching
<1>10. CASE NewList \/ \E r \in Refreshers : Refresh(r)
  BY <1>8, <1>10 DEF NewList, Refresh, Ask, Keep, Open, Write, Move
<1>11. CASE UNCHANGED vars
  BY <1>8, <1>11 DEF vars
<1> QED BY <1>7, <1>9, <1>10, <1>11 DEF Next

(* store.go:56-105: the configuration is a document that each patch changes   *)
(* whole or not at all, for any clients, patches, failed writes and restarts. *)
THEOREM ConfigIsDocument == Spec => ConfigIsAtomic
<1> QED BY Inductive, InitKeeps, StepKeeps, PTL DEF Spec, ConfigIsAtomic, Document!Spec

-----------------------------------------------------------------------------
(* The locations.  While no two Refreshes have overlapped, the only one that  *)
(* runs owns the temporary file from its Open to its Move, and nothing else   *)
(* is ever renamed over the list.  The counts say that a file is always left  *)
(* to be created.                                                             *)
RefreshStages == {"idle", "keep", "open", "write", "rename"}
Jobs == [pc : RefreshStages, v : Nat, fd : 0..MaxRefreshes]

LocType ==
  /\ daemon \in Nat \ {0} /\ list \in Nat
  /\ inode \in [1..MaxRefreshes -> Nat]
  /\ locs \in 0..MaxRefreshes /\ tmp \in 0..MaxRefreshes
  /\ fresh \in [Refreshers -> Jobs]
  /\ refreshes \in 0..MaxRefreshes

(* What the Refresh r, if it runs, relies on at its stage. *)
JobInv(r) ==
  LET j == fresh[r] IN
  /\ j.pc # "idle" => j.v # 0 /\ refreshes > 0 /\ (locs # 0 => refreshes > 1)
  /\ j.pc \in {"idle", "keep", "open"} => j.fd = 0
  /\ j.pc \in {"write", "rename"} => j.fd = tmp /\ tmp # 0
  /\ j.pc = "write" => inode[tmp] = 0
  /\ j.pc = "rename" => inode[tmp] = j.v
  /\ j.pc \in {"open", "write", "rename"} => list = j.v

AloneInv ==
  /\ LocType
  /\ \A r, s \in Running : r = s
  /\ \A r \in Refreshers : JobInv(r)
  /\ locs # 0 => tmp # locs /\ refreshes > 0 /\ inode[locs] # 0
  /\ faults = MaxFaults /\ locs # 0 /\ (\A r \in Refreshers : fresh[r].pc \in {"idle", "keep"}) =>
       inode[locs] = list

LocInv == mixed \in BOOLEAN /\ faults \in 0..MaxFaults /\ (~mixed => AloneInv)

LEMMA BoundsType == MaxRefreshes \in Nat /\ MaxFaults \in Nat
  BY DataAssumption

(* A step of the Refresh r gives it the job n and leaves the others theirs. *)
LEMMA JobStep ==
  ASSUME LocType, NEW r \in Refreshers, NEW n \in Jobs, fresh' = [fresh EXCEPT ![r] = n]
  PROVE  /\ fresh' \in [Refreshers -> Jobs] /\ fresh'[r] = n
         /\ \A s \in Refreshers \ {r} : fresh'[s] = fresh[s]
  BY DEF LocType

LEMMA NoRefreshType == NoRefresh \in Jobs /\ NoRefresh.pc = "idle" /\ NoRefresh.fd = 0
  BY BoundsType DEF NoRefresh, Jobs, RefreshStages

LEMMA InitLoc == Init => LocInv
<1> SUFFICES ASSUME Init PROVE LocInv
  OBVIOUS
<1>1. LocType
  BY NoRefreshType, BoundsType DEF Init, LocType
<1>2. \A r \in Refreshers : fresh[r] = NoRefresh
  BY DEF Init
<1>3. AloneInv
  BY <1>1, <1>2, NoRefreshType DEF Init, AloneInv, JobInv, Running
<1>4. mixed = FALSE /\ faults = MaxFaults
  BY DEF Init
<1>5. mixed \in BOOLEAN
  BY <1>4, Zenon
<1>6. faults \in 0..MaxFaults
  BY <1>4, BoundsType
<1> QED BY <1>3, <1>5, <1>6, Zenon DEF LocInv

(* A step of the only Refresh that runs. *)
LEMMA AloneStep ==
  ASSUME NEW r \in Refreshers, AloneInv, LocType', NEW n \in Jobs,
         fresh' = [fresh EXCEPT ![r] = n],
         Running \subseteq {r}, JobInv(r)',
         locs' # 0 => tmp' # locs' /\ refreshes' > 0 /\ inode'[locs'] # 0,
         faults' = MaxFaults /\ locs' # 0 /\ n.pc \in {"idle", "keep"} => inode'[locs'] = list'
  PROVE  AloneInv'
<1>1. /\ fresh'[r] = n
      /\ \A s \in Refreshers \ {r} : fresh'[s] = fresh[s] /\ fresh[s].pc = "idle" /\ fresh[s].fd = 0
  BY JobStep DEF AloneInv, Running, JobInv
<1>2. \A s \in Refreshers : JobInv(s)'
  BY <1>1 DEF JobInv
<1>3. \A s, t \in Running' : s = t
  BY <1>1 DEF Running
<1> QED BY <1>1, <1>2, <1>3 DEF AloneInv

LEMMA AskStep ==
  ASSUME NEW r \in Refreshers, Ask(r), LocInv, ~mixed'
  PROVE  AloneInv'
<1> DEFINE n == [pc |-> "keep", v |-> daemon, fd |-> 0]
<1>1. AloneInv /\ Running = {} /\ fresh[r].pc = "idle" /\ LocType
  BY DEF Ask, LocInv, AloneInv
<1>2. n \in Jobs
  BY <1>1, BoundsType DEF LocType, Jobs, RefreshStages
<1>3. fresh' = [fresh EXCEPT ![r] = n] /\ n.pc = "keep" /\ n.v = daemon /\ n.fd = 0
  BY DEF Ask
<1> HIDE DEF n
<1>4. /\ refreshes' = refreshes + 1 /\ refreshes < MaxRefreshes
      /\ UNCHANGED <<daemon, list, inode, locs, tmp, faults>>
  BY DEF Ask
<1>5. LocType' /\ fresh'[r] = n
  BY <1>1, <1>2, <1>3, <1>4, JobStep, BoundsType DEF LocType
<1>6. JobInv(r)'
  BY <1>1, <1>3, <1>4, <1>5 DEF JobInv, AloneInv, LocType
<1>7. locs' # 0 => tmp' # locs' /\ refreshes' > 0 /\ inode'[locs'] # 0
  BY <1>1, <1>4 DEF AloneInv, LocType
<1>8. faults' = MaxFaults /\ locs' # 0 => inode'[locs'] = list'
  BY <1>1, <1>4 DEF AloneInv, Running
<1> QED BY <1>1, <1>2, <1>3, <1>5, <1>6, <1>7, <1>8, AloneStep

LEMMA RefreshStep ==
  ASSUME NEW r \in Refreshers, Keep(r) \/ Open(r) \/ Write(r) \/ Move(r), LocInv, ~mixed'
  PROVE  AloneInv'
<1>1. AloneInv /\ LocType /\ JobInv(r) /\ fresh[r].pc # "idle" /\ faults \in 0..MaxFaults
      /\ UNCHANGED <<daemon, refreshes>>
  BY DEF Keep, Open, Write, Move, LocInv, AloneInv
<1>2. Running \subseteq {r} /\ fresh[r] \in Jobs
  BY <1>1 DEF AloneInv, Running, LocType
<1>3. \A s \in Refreshers \ {r} : fresh[s].pc = "idle" /\ fresh[s].fd = 0
  BY <1>1, <1>2 DEF AloneInv, Running, JobInv
<1>4. locs # 0 => tmp # locs /\ refreshes > 1 /\ inode[locs] # 0
  BY <1>1 DEF AloneInv, JobInv
<1>5. CASE Keep(r)
  <2> DEFINE n == [fresh[r] EXCEPT !.pc = "open"]
  <2>1. /\ fresh' = [fresh EXCEPT ![r] = n] /\ n \in Jobs
        /\ n.pc = "open" /\ n.v = fresh[r].v /\ n.fd = fresh[r].fd
    BY <1>1, <1>2, <1>5 DEF Keep, LocType, Jobs, RefreshStages
  <2> HIDE DEF n
  <2>2. /\ list' = fresh[r].v /\ fresh[r].pc = "keep"
        /\ UNCHANGED <<inode, locs, tmp, faults>>
    BY <1>5 DEF Keep
  <2>3. LocType' /\ fresh'[r] = n
    BY <1>1, <1>2, <2>1, <2>2, JobStep DEF LocType, Jobs
  <2>4. JobInv(r)'
    BY <1>1, <2>1, <2>2, <2>3 DEF JobInv
  <2>5. locs' # 0 => tmp' # locs' /\ refreshes' > 0 /\ inode'[locs'] # 0
    BY <1>1, <1>4, <2>2 DEF LocType
  <2> QED BY <1>1, <1>2, <2>1, <2>3, <2>4, <2>5, AloneStep
<1>6. CASE Open(r)
  <2> DEFINE i == IF Target = 0 THEN Unused ELSE Target
             n == [pc |-> "write", v |-> fresh[r].v, fd |-> i]
  <2>1. i \in 1..MaxRefreshes /\ i # locs
    <3>1. CASE tmp # 0
      BY <1>1, <1>4, <3>1 DEF Target, LocType
    <3>2. CASE tmp = 0
      <4>1. \A s \in Refreshers : fresh[s].fd = 0
        BY <1>1, <1>3, <1>6 DEF Open, JobInv
      <4>2. \E j \in DOMAIN inode : j \notin {locs, tmp} \cup {fresh[s].fd : s \in Refreshers}
        <5>1. DOMAIN inode = 1..MaxRefreshes /\ MaxRefreshes \in Nat /\ refreshes \in 1..MaxRefreshes
          BY <1>1, BoundsType DEF LocType, JobInv
        <5>2. CASE locs = 1
          <6>1. 2 \in DOMAIN inode
            BY <1>4, <5>1, <5>2
          <6>2. 2 \notin {locs, tmp} \cup {fresh[s].fd : s \in Refreshers}
            BY <4>1, <5>2, <3>2
          <6> QED BY <6>1, <6>2
        <5>3. CASE locs # 1
          BY <4>1, <5>1, <5>3, <3>2
        <5> QED BY <5>2, <5>3
      <4>3. Unused \in DOMAIN inode /\ Unused \notin {locs, tmp} \cup {fresh[s].fd : s \in Refreshers}
        BY <4>2 DEF Unused
      <4> QED BY <1>1, <3>2, <4>3 DEF Target, LocType
    <3> QED BY <3>1, <3>2
  <2>2. /\ fresh' = [fresh EXCEPT ![r] = n] /\ n \in Jobs
        /\ n.pc = "write" /\ n.v = fresh[r].v /\ n.fd = i
        /\ inode' = [inode EXCEPT ![i] = 0] /\ tmp' = i
    <3>1. /\ fresh' = [fresh EXCEPT ![r].pc = "write", ![r].fd = i]
          /\ inode' = [inode EXCEPT ![i] = 0] /\ tmp' = i
      BY <1>6 DEF Open
    <3> HIDE DEF i
    <3>2. fresh' = [fresh EXCEPT ![r] = n]
      <4> DEFINE j == [pc |-> "write", v |-> fresh[r].v, fd |-> fresh[r].fd]
                 f == [fresh EXCEPT ![r] = j]
      <4>1. f = [fresh EXCEPT ![r].pc = "write"]
        BY <1>1, <1>2 DEF LocType, Jobs
      <4>2. fresh' = [f EXCEPT ![r].fd = i]
        BY <3>1, <4>1
      <4>3. f \in [Refreshers -> Jobs] /\ f[r] = j /\ [j EXCEPT !.fd = i] = n
        BY <1>1, <1>2 DEF LocType, Jobs, RefreshStages
      <4> HIDE DEF j, n
      <4>4. [f EXCEPT ![r] = n] = [fresh EXCEPT ![r] = n]
        BY <1>1 DEF LocType
      <4> QED BY <4>2, <4>3, <4>4
    <3>3. n \in Jobs /\ n.pc = "write" /\ n.v = fresh[r].v /\ n.fd = i
      BY <1>2, <2>1 DEF Jobs, RefreshStages
    <3> HIDE DEF n
    <3> QED BY <3>1, <3>2, <3>3
  <2>3. fresh[r].pc = "open" /\ UNCHANGED <<list, locs, faults>>
    BY <1>6 DEF Open
  <2> HIDE DEF i, n
  <2>4. LocType' /\ fresh'[r] = n /\ inode'[i] = 0
    BY <1>1, <1>2, <2>1, <2>2, <2>3, JobStep, BoundsType DEF LocType, Jobs
  <2>5. JobInv(r)'
    BY <1>1, <2>1, <2>2, <2>3, <2>4 DEF JobInv, LocType
  <2>6. locs' # 0 => tmp' # locs' /\ refreshes' > 0 /\ inode'[locs'] # 0
    BY <1>1, <1>4, <2>1, <2>2, <2>3 DEF LocType
  <2> QED BY <1>1, <1>2, <2>2, <2>4, <2>5, <2>6, AloneStep
<1>7. CASE Write(r)
  <2>1. /\ fresh[r].pc = "write" /\ fresh[r].fd = tmp /\ tmp \in 1..MaxRefreshes /\ inode[tmp] = 0
        /\ UNCHANGED <<list, locs, tmp>>
    BY <1>1, <1>7 DEF Write, JobInv, LocType
  <2>2. CASE /\ fresh' = [fresh EXCEPT ![r].pc = "rename"] /\ NoFault
             /\ inode' = [inode EXCEPT ![tmp] = fresh[r].v]
    <3> DEFINE n == [fresh[r] EXCEPT !.pc = "rename"]
    <3>1. /\ fresh' = [fresh EXCEPT ![r] = n] /\ n \in Jobs
          /\ n.pc = "rename" /\ n.v = fresh[r].v /\ n.fd = fresh[r].fd
      BY <1>1, <1>2, <2>2 DEF LocType, Jobs, RefreshStages
    <3> HIDE DEF n
    <3>2. LocType' /\ fresh'[r] = n /\ inode'[tmp] = fresh[r].v
      BY <1>1, <1>2, <2>1, <2>2, <3>1, JobStep DEF LocType, Jobs
    <3>3. JobInv(r)'
      BY <1>1, <2>1, <3>1, <3>2 DEF JobInv
    <3>4. locs' # 0 => tmp' # locs' /\ refreshes' > 0 /\ inode'[locs'] # 0
      BY <1>1, <1>4, <2>1, <2>2 DEF LocType
    <3> QED BY <1>1, <1>2, <3>1, <3>2, <3>3, <3>4, AloneStep
  <2>3. CASE /\ fresh' = [fresh EXCEPT ![r] = NoRefresh] /\ Fault
             /\ inode' = [inode EXCEPT ![tmp] = 0]
    <3>1. LocType' /\ fresh'[r] = NoRefresh
      BY <1>1, <2>1, <2>3, JobStep, NoRefreshType DEF LocType
    <3>2. JobInv(r)'
      BY <3>1, NoRefreshType DEF JobInv
    <3>3. locs' # 0 => tmp' # locs' /\ refreshes' > 0 /\ inode'[locs'] # 0
      BY <1>1, <1>4, <2>1, <2>3 DEF LocType
    <3>4. faults' # MaxFaults
      BY <1>1, <2>3, BoundsType DEF Fault
    <3> QED BY <1>1, <1>2, <2>3, <3>1, <3>2, <3>3, <3>4, NoRefreshType, AloneStep
  <2> QED BY <1>7, <2>1, <2>2, <2>3 DEF Write
<1>8. CASE Move(r)
  <2>1. /\ fresh[r].pc = "rename" /\ tmp \in 1..MaxRefreshes /\ inode[tmp] = fresh[r].v
        /\ fresh[r].v # 0 /\ list = fresh[r].v /\ refreshes > 0
        /\ locs' = tmp /\ tmp' = 0 /\ fresh' = [fresh EXCEPT ![r] = NoRefresh]
        /\ UNCHANGED <<list, inode, faults>>
    BY <1>1, <1>8 DEF Move, JobInv, LocType
  <2>2. LocType' /\ fresh'[r] = NoRefresh
    BY <1>1, <2>1, JobStep, NoRefreshType, BoundsType DEF LocType
  <2>3. JobInv(r)'
    BY <2>2, NoRefreshType DEF JobInv
  <2>4. tmp' # locs' /\ inode'[locs'] # 0 /\ inode'[locs'] = list' /\ refreshes' > 0
    BY <1>1, <2>1
  <2> QED BY <1>1, <1>2, <2>1, <2>2, <2>3, <2>4, NoRefreshType, AloneStep
<1> QED BY <1>5, <1>6, <1>7, <1>8

(* A step of another part keeps the locations and counts a fault at most. *)
LEMMA ElsewhereKeeps ==
  ASSUME LocInv, UNCHANGED <<list, inode, locs, tmp, fresh, mixed, refreshes>>,
         daemon' = daemon \/ daemon' = daemon + 1,
         NoFault \/ Fault
  PROVE  LocInv'
<1>1. faults' \in 0..MaxFaults /\ (faults' = MaxFaults => faults = MaxFaults)
  BY BoundsType DEF LocInv, NoFault, Fault
<1>2. LocType => LocType'
  BY DEF LocType
<1>3. \A r \in Refreshers : JobInv(r) => JobInv(r)'
  BY DEF JobInv
<1> QED BY <1>1, <1>2, <1>3 DEF LocInv, AloneInv, Running

LEMMA LocStep == LocInv /\ [Next]_vars => LocInv'
<1> SUFFICES ASSUME LocInv, [Next]_vars PROVE LocInv'
  OBVIOUS
<1>1. ASSUME NEW c \in Clients, Patching(c) PROVE LocInv'
  <2>1. UNCHANGED locVars /\ (NoFault \/ Fault)
    BY <1>1 DEF Patching, Send, MergePatch, WriteTemp, Rename, Commit, NoFault
  <2> QED BY <2>1, ElsewhereKeeps DEF locVars
<1>2. CASE NewList
  BY <1>2, ElsewhereKeeps DEF NewList, NoFault
<1>3. ASSUME NEW r \in Refreshers, Refresh(r) PROVE LocInv'
  <2>1. mixed' = mixed \/ mixed' = (mixed \/ Running # {})
    BY <1>3 DEF Refresh, Ask, Keep, Open, Write, Move
  <2>2. faults' = faults \/ Fault
    BY <1>3 DEF Refresh, Ask, Keep, Open, Write, Move, NoFault
  <2>3. mixed' \in BOOLEAN /\ faults' \in 0..MaxFaults
    <3>1. mixed \in BOOLEAN
      BY Zenon DEF LocInv
    <3>2. mixed' \in BOOLEAN
      BY <2>1, <3>1, Zenon
    <3>3. faults' \in 0..MaxFaults
      BY <2>2, BoundsType DEF LocInv, Fault
    <3> QED BY <3>2, <3>3, Zenon
  <2>4. ~mixed' => AloneInv'
    BY <1>3, AskStep, RefreshStep DEF Refresh
  <2> QED BY <2>3, <2>4 DEF LocInv
<1>4. CASE Restart
  <2>1. /\ UNCHANGED <<daemon, inode, locs, tmp, mixed, refreshes, faults>>
        /\ list' = IF locs = 0 THEN 0 ELSE inode[locs]
        /\ \A r \in Refreshers : fresh'[r] = NoRefresh
        /\ fresh' \in [Refreshers -> Jobs]
    BY <1>4, NoRefreshType DEF Restart
  <2>2. LocType => LocType'
    BY <2>1 DEF LocType
  <2>3. \A r \in Refreshers : JobInv(r)'
    BY <2>1, NoRefreshType DEF JobInv
  <2>4. Running' = {}
    BY <2>1, NoRefreshType DEF Running
  <2>5. AloneInv => AloneInv'
    BY <2>1, <2>2, <2>3, <2>4 DEF AloneInv
  <2> QED BY <2>1, <2>5 DEF LocInv
<1>5. CASE UNCHANGED vars
  BY <1>5, ElsewhereKeeps DEF vars, locVars, NoFault
<1> QED BY <1>1, <1>2, <1>3, <1>4, <1>5 DEF Next

(* locations.go:49-104: without overlapping Refreshes the list in the volume  *)
(* is whole, and after one without an error the one in memory, for any number *)
(* of Refreshes, failed writes and restarts.                                  *)
THEOREM ListIsWhole == Spec => []LocationsWhole
<1>1. LocInv => LocationsWhole
  BY DEF LocInv, AloneInv, LocationsWhole, Running
<1> QED BY InitLoc, LocStep, <1>1, PTL DEF Spec
=============================================================================
