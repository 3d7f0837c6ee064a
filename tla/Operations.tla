----------------------------- MODULE Operations -----------------------------
(***************************************************************************)
(* internal/api/operations.go and the action handler of server.go: actions *)
(* run in the background, at most one per resource; a second one is        *)
(* refused with the id of the first.                                       *)
(*                                                                         *)
(* Start and the end of an operation are single steps: each holds m.mu     *)
(* from its first access to its last.  A client keeps the id it was last   *)
(* given and asks for its status (GET /v1/operations/{id}).                *)
(***************************************************************************)
CONSTANTS Ids,      \* newOpID values; bound: operations explored
          Clients,
          Posted,   \* the actions clients post
          None

actionResources ==
  [connect |-> "connection", disconnect |-> "connection", reconnect |-> "connection",
   login |-> "account", logout |-> "account", refreshLocations |-> "locations",
   selfcheck |-> "selfcheck", probeUplink |-> "uplink"]
Actions == DOMAIN actionResources
Resources == {"connection", "account", "locations", "selfcheck", "uplink"}

ASSUME OperationsAssumption == None \notin Ids /\ Posted \subseteq Actions

VARIABLES
  ops,         \* OpManager.ops: [status, action] of every id; "none" if not used
  byResource,  \* OpManager.byResource: the id that runs, or None
  answer,      \* what a client was last told: [code, op]
  polled       \* the status it last read for that operation

vars == <<ops, byResource, answer, polled>>

Final == {"succeeded", "failed"}
Status == {"none", "running", "succeeded", "failed"}

Init ==
  /\ ops = [i \in Ids |-> [status |-> "none", action |-> "connect"]]
  /\ byResource = [r \in Resources |-> None]
  /\ answer = [c \in Clients |-> [code |-> 0, op |-> None]]
  /\ polled = [c \in Clients |-> "none"]

-----------------------------------------------------------------------------
(* Mutants: only the same action conflicts; only success frees the resource; *)
(* the result is written to a copy of the operation.                         *)
BusySameAction(a) == \E i \in Ids : ops[i].status = "running" /\ ops[i].action = a
FreedOnSuccess(s) == s = "succeeded"
RecordedInCopy(s) == "running"

Busy(a) == byResource[actionResources[a]] # None
Freed(s) == s \in Final
Recorded(s) == s

(* handleAction and Start, with an id drawn by newOpID.                      *)
Start(c, a, id) ==
  /\ ~Busy(a)
  /\ ops[id].status = "none"
  /\ ops' = [ops EXCEPT ![id] = [status |-> "running", action |-> a]]
  /\ byResource' = [byResource EXCEPT ![actionResources[a]] = id]
  /\ answer' = [answer EXCEPT ![c] = [code |-> 202, op |-> id]]
  /\ polled' = [polled EXCEPT ![c] = "none"]

Refuse(c, a) ==
  /\ Busy(a)
  /\ answer' = [answer EXCEPT ![c] = [code |-> 409, op |-> byResource[actionResources[a]]]]
  /\ polled' = [polled EXCEPT ![c] = "none"]
  /\ UNCHANGED <<ops, byResource>>

(* run has returned: the result is written and the resource freed.           *)
Finish(id, s) ==
  /\ ops[id].status = "running"
  /\ ops' = [ops EXCEPT ![id].status = Recorded(s)]
  /\ byResource' = [byResource EXCEPT ![actionResources[ops[id].action]] =
                      IF Freed(s) THEN None ELSE @]
  /\ UNCHANGED <<answer, polled>>

Get(c) ==
  /\ answer[c].op # None
  /\ polled' = [polled EXCEPT ![c] = ops[answer[c].op].status]
  /\ UNCHANGED <<ops, byResource, answer>>

Next ==
  \/ \E c \in Clients : \/ \E a \in Posted : \/ \E id \in Ids : Start(c, a, id)
                                             \/ Refuse(c, a)
                        \/ Get(c)
  \/ \E id \in Ids, s \in Final : Finish(id, s)

(* Every run ends: each action has a limit of its own.  Clients keep polling. *)
Fairness ==
  /\ \A id \in Ids : WF_vars(\E s \in Final : Finish(id, s))
  /\ \A c \in Clients : WF_vars(Get(c))

Spec == Init /\ [][Next]_vars
FairSpec == Spec /\ Fairness

-----------------------------------------------------------------------------
TypeOK ==
  /\ ops \in [Ids -> [status : Status, action : Actions]]
  /\ byResource \in [Resources -> Ids \cup {None}]
  /\ answer \in [Clients -> [code : {0, 202, 409}, op : Ids \cup {None}]]
  /\ polled \in [Clients -> Status]

(* agent-api, Actions: two operations on one resource never run together,     *)
(* whichever actions, clients and ends interleave.                            *)
OneRunningPerResource ==
  \A i, j \in Ids :
    /\ ops[i].status = "running" /\ ops[j].status = "running"
    /\ actionResources[ops[i].action] = actionResources[ops[j].action]
    => i = j

(* A refusal names the operation that is in the way: it runs at that moment   *)
(* and holds the resource of the refused action.                              *)
RefusalNamesRunning ==
  [][\A c \in Clients : \A a \in Posted : Refuse(c, a) =>
       LET op == ops[answer'[c].op] IN
       /\ op.status = "running"
       /\ actionResources[op.action] = actionResources[a]]_vars

(* No resource is kept for ever, so every action can be posted again.         *)
ResourceFreed == \A r \in Resources : byResource[r] # None ~> byResource[r] = None

(* A client that keeps its id learns how the operation ended.                 *)
ResultLearned ==
  \A c \in Clients : \A id \in Ids :
    answer[c].op = id ~> polled[c] \in Final \/ answer[c].op # id
=============================================================================
