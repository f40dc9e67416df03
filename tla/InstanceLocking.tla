--------------------------- MODULE InstanceLocking ---------------------------
(***************************************************************************)
(* Concurrent requests on the rows of one process instance in the database *)
(* store (internal/store/gormstore/store.go used by engine.go, reject.go,  *)
(* activity_complete.go, assignees.go and boundary.go).                    *)
(*                                                                         *)
(* A request reads the instance and the activity outside any transaction   *)
(* and decides on what it read.  It then writes in one of three ways:      *)
(*  - CompleteTask and UpdateActivityAssignees open a transaction, write   *)
(*    the activity row and then the instance row WHERE lock_version is the *)
(*    one they read (optimistic locking);                                  *)
(*  - completeExtensionActivity, completeReceiveActivity and               *)
(*    fireBoundaryEvent open a transaction, read the instance again FOR    *)
(*    UPDATE and write the activity row afterwards (row locking);          *)
(*  - Terminate writes row after row without a transaction.                *)
(* A row written by an open transaction stays locked until it ends.  The   *)
(* traversal itself is TokenFlow's subject: here a commit activates any    *)
(* set of new activities and may find the end event.                       *)
(***************************************************************************)
EXTENDS Integers, FiniteSets

CONSTANTS
    Clients,    \* concurrent requests, one each
    UserTasks,  \* activity rows of userTask elements
    Externals,  \* activity rows of extension elements and receiveTasks
    FirstActs,  \* the activities open when the requests arrive
    Ops,        \* the kinds of request that arrive
    NoClient

Acts == UserTasks \cup Externals

TaskOps == {"complete", "assign", "boundary"}
AllOps  == TaskOps \cup {"extend", "terminate"}

ASSUME LockingAssumption ==
    /\ UserTasks \cap Externals = {}
    /\ FirstActs \subseteq Acts /\ FirstActs # {}
    /\ Ops \subseteq AllOps
    /\ NoClient \notin Clients
    /\ IsFiniteSet(Acts)

VARIABLES
    row,       \* committed instance row: status and lock_version
    act,       \* committed status of every activity row
    instLock,  \* the transaction that holds the instance row
    actLock,   \* the transaction that holds each activity row
    pc,        \* where each request is
    req,       \* what each request asks for (Terminate: of no one activity)
    ver,       \* the lock_version each request has read
    todo,      \* the activities a Terminate still has to cancel
    exits      \* how often the flows out of an activity were followed

vars == <<row, act, instLock, actLock, pc, req, ver, todo, exits>>

Steps == {"ready", "readInst", "readAct", "writeAct", "updateInst",
          "forUpdate", "checkHost", "lockHost", "commit",
          "list", "cancel", "updateRow", "done"}

Init ==
    /\ row = [status |-> "running", version |-> 0]
    /\ act = [a \in Acts |-> IF a \in FirstActs THEN "active" ELSE "absent"]
    /\ instLock = NoClient
    /\ actLock = [a \in Acts |-> NoClient]
    /\ pc = [c \in Clients |-> "ready"]
    /\ req \in [Clients -> [op : Ops, on : Acts]]
    /\ \A c \in Clients :
         /\ req[c].op \in TaskOps => req[c].on \in UserTasks
         /\ req[c].op = "extend"  => req[c].on \in Externals
         /\ req[c].op = "terminate" => req[c].on = CHOOSE a \in Acts : TRUE
    /\ ver = [c \in Clients |-> 0]
    /\ todo = [c \in Clients |-> {}]
    /\ exits = [a \in Acts |-> 0]

Goto(c, step) == pc' = [pc EXCEPT ![c] = step]
On(c) == req[c].on

\* Mutant: activity rows stay locked.
ReleaseInstance(c) ==
    /\ instLock' = IF instLock = c THEN NoClient ELSE instLock
    /\ UNCHANGED actLock

Release(c) ==
    /\ instLock' = IF instLock = c THEN NoClient ELSE instLock
    /\ actLock' = [a \in Acts |-> IF actLock[a] = c THEN NoClient ELSE actLock[a]]

\* The transaction, if one is open, is rolled back and the request returns.
Abort(c) == Goto(c, "done") /\ Release(c)

-----------------------------------------------------------------------------
(* Reads before the transaction *)

Arrive(c) ==
    /\ pc[c] = "ready"
    /\ Goto(c, "readInst")
    /\ UNCHANGED <<row, act, instLock, actLock, req, ver, todo, exits>>

\* GetProcessInstance and the status check; remember lock_version.
ReadInstance(c) ==
    /\ pc[c] = "readInst"
    /\ IF row.status = "running"
       THEN /\ ver' = [ver EXCEPT ![c] = row.version]
            /\ Goto(c, IF req[c].op = "terminate" THEN "list" ELSE "readAct")
       ELSE Goto(c, "done") /\ UNCHANGED ver
    /\ UNCHANGED <<row, act, instLock, actLock, req, todo, exits>>

\* GetActivityInstance and the status check.
ReadActivity(c) ==
    /\ pc[c] = "readAct"
    /\ Goto(c, IF act[On(c)] # "active" THEN "done"
               ELSE IF req[c].op \in {"complete", "assign"} THEN "writeAct"
               ELSE "forUpdate")
    /\ UNCHANGED <<row, act, instLock, actLock, req, ver, todo, exits>>

-----------------------------------------------------------------------------
(* Optimistic transactions *)

\* UpdateActivityInstance: no version check, but the row is locked.
WriteActivity(c) ==
    /\ pc[c] = "writeAct"
    /\ actLock[On(c)] = NoClient
    /\ actLock' = [actLock EXCEPT ![On(c)] = c]
    /\ Goto(c, "updateInst")
    /\ UNCHANGED <<row, act, instLock, req, ver, todo, exits>>

\* Mutant: no WHERE lock_version.
UpdateUnconditionally(c) ==
    /\ pc[c] = "updateInst"
    /\ instLock = NoClient
    /\ instLock' = c
    /\ Goto(c, "commit")
    /\ UNCHANGED <<row, act, actLock, req, ver, todo, exits>>

\* UpdateProcessInstance ... WHERE lock_version = the one read, else
\* ErrVersionConflict rolls the activity write back.
UpdateInstance(c) ==
    /\ pc[c] = "updateInst"
    /\ instLock = NoClient
    /\ IF row.version = ver[c]
       THEN instLock' = c /\ Goto(c, "commit") /\ UNCHANGED actLock
       ELSE Abort(c)
    /\ UNCHANGED <<row, act, req, ver, todo, exits>>

-----------------------------------------------------------------------------
(* Row-locking transactions *)

\* GetProcessInstanceForUpdate; the version written later is the one read here.
ReadForUpdate(c) ==
    /\ pc[c] = "forUpdate"
    /\ instLock = NoClient
    /\ instLock' = c
    /\ ver' = [ver EXCEPT ![c] = row.version]
    /\ Goto(c, IF req[c].op = "boundary" THEN "checkHost" ELSE "lockHost")
    /\ UNCHANGED <<row, act, actLock, req, todo, exits>>

\* fireBoundaryEvent reads the host again and does nothing if it is closed
\* (here for interrupting events: the others write no row of the host).
CheckHost(c) ==
    /\ pc[c] = "checkHost"
    /\ IF act[On(c)] = "active"
       THEN Goto(c, "lockHost") /\ UNCHANGED <<instLock, actLock>>
       ELSE Abort(c)
    /\ UNCHANGED <<row, act, req, ver, todo, exits>>

LockHost(c) ==
    /\ pc[c] = "lockHost"
    /\ actLock[On(c)] = NoClient
    /\ actLock' = [actLock EXCEPT ![On(c)] = c]
    /\ Goto(c, "commit")
    /\ UNCHANGED <<row, act, instLock, req, ver, todo, exits>>

-----------------------------------------------------------------------------
\* Mutant: an assignee update has a status of its own.
WrittenAsAssigned(op) ==
    IF op = "assign" THEN "assigned" ELSE IF op = "boundary" THEN "cancelled" ELSE "completed"

\* What the transaction writes into its activity row: the whole row, so an
\* assignee update also writes back the status it read.
WrittenStatus(op) ==
    CASE op = "assign"   -> "active"
      [] op = "boundary" -> "cancelled"
      [] OTHER           -> "completed"

\* Mutant: the end event alone completes the instance.
StatusAtEnd(status, al, ended) == IF ended THEN "completed" ELSE status

\* tryCompleteProcess, when the traversal finds the end event.
StatusAfter(status, al, ended) ==
    IF ended /\ \A a \in Acts : al[a] # "active" THEN "completed" ELSE status

Commit(c) ==
    /\ pc[c] = "commit"
    /\ LET follows == req[c].op # "assign" IN
       \E new \in SUBSET {a \in Acts : act[a] = "absent"}, ended \in BOOLEAN :
         /\ ~follows => new = {} /\ ~ended
         /\ act' = [a \in Acts |-> IF a = On(c) THEN WrittenStatus(req[c].op)
                                   ELSE IF a \in new THEN "active" ELSE act[a]]
         /\ row' = [status  |-> StatusAfter(row.status, act', ended),
                    version |-> row.version + 1]
         /\ exits' = IF follows THEN [exits EXCEPT ![On(c)] = @ + 1] ELSE exits
    /\ Abort(c)
    /\ UNCHANGED <<req, ver, todo>>

-----------------------------------------------------------------------------
(* Terminate: every statement commits by itself *)

ListActive(c) ==
    /\ pc[c] = "list"
    /\ todo' = [todo EXCEPT ![c] = {a \in Acts : act[a] = "active"}]
    /\ Goto(c, "cancel")
    /\ UNCHANGED <<row, act, instLock, actLock, req, ver, exits>>

CancelNext(c) ==
    /\ pc[c] = "cancel"
    /\ \/ \E a \in todo[c] :
            /\ actLock[a] = NoClient
            /\ act' = [act EXCEPT ![a] = "cancelled"]
            /\ todo' = [todo EXCEPT ![c] = @ \ {a}]
            /\ UNCHANGED pc
       \/ todo[c] = {} /\ Goto(c, "updateRow") /\ UNCHANGED <<act, todo>>
    /\ UNCHANGED <<row, instLock, actLock, req, ver, exits>>

\* Mutant: the cancellation ignores lock_version.
UpdateUnversioned(c) ==
    /\ pc[c] = "updateRow"
    /\ instLock = NoClient
    /\ row' = [status |-> "cancelled", version |-> row.version + 1]
    /\ Goto(c, "done")
    /\ UNCHANGED <<act, instLock, actLock, req, ver, todo, exits>>

UpdateTerminated(c) ==
    /\ pc[c] = "updateRow"
    /\ instLock = NoClient
    /\ row' = IF row.version = ver[c]
              THEN [status |-> "cancelled", version |-> row.version + 1] ELSE row
    /\ Goto(c, "done")
    /\ UNCHANGED <<act, instLock, actLock, req, ver, todo, exits>>

-----------------------------------------------------------------------------
(* The database and the machine *)

\* CompleteTask locks activity then instance, fireBoundaryEvent the reverse:
\* the database breaks the cycle by failing one of the two.
BreakDeadlock(c) ==
    /\ \E d \in Clients \ {c} :
         \/ /\ pc[c] = "updateInst" /\ instLock = d
            /\ pc[d] = "lockHost" /\ actLock[On(d)] = c
         \/ /\ pc[c] = "lockHost" /\ actLock[On(c)] = d
            /\ pc[d] = "updateInst" /\ instLock = c
    /\ Abort(c)
    /\ UNCHANGED <<row, act, req, ver, todo, exits>>

\* A lost connection or a stopped server.
Crash(c) ==
    /\ pc[c] \notin {"ready", "done"}
    /\ Abort(c)
    /\ UNCHANGED <<row, act, req, ver, todo, exits>>

Step(c) ==
    \/ ReadInstance(c) \/ ReadActivity(c)
    \/ WriteActivity(c) \/ UpdateInstance(c)
    \/ ReadForUpdate(c) \/ CheckHost(c) \/ LockHost(c) \/ Commit(c)
    \/ ListActive(c) \/ CancelNext(c) \/ UpdateTerminated(c)
    \/ BreakDeadlock(c)

Next == \E c \in Clients : Arrive(c) \/ Step(c) \/ Crash(c)

Spec == Init /\ [][Next]_vars

\* Every request keeps running and the database resolves its deadlocks.
FairSpec == Spec /\ \A c \in Clients : WF_vars(Step(c))

-----------------------------------------------------------------------------
(* Properties *)

\* The rows, the locks and what each request remembers keep their types.
TypeOK ==
    /\ row \in [status : {"running", "completed", "cancelled"}, version : Nat]
    /\ act \in [Acts -> {"absent", "active", "completed", "cancelled"}]
    /\ instLock \in Clients \cup {NoClient}
    /\ actLock \in [Acts -> Clients \cup {NoClient}]
    /\ pc \in [Clients -> Steps]
    /\ req \in [Clients -> [op : Ops, on : Acts]]
    /\ ver \in [Clients -> Nat]
    /\ todo \in [Clients -> SUBSET Acts]
    /\ exits \in [Acts -> Nat]

\* The flows out of a userTask are followed at most once, whichever approvals,
\* boundary events, reassignments and terminations race for it.
SingleExit == \A a \in UserTasks : exits[a] <= 1

\* The same for extension elements and receiveTasks.
ExternalSingleExit == \A a \in Externals : exits[a] <= 1

\* A cancelled or completed instance has no open activity.
TerminalMeansQuiet ==
    row.status # "running" => \A a \in Acts : act[a] # "active"

\* A final status is final, whatever was in flight when it was written.
TerminalIsFinal ==
    [][row.status # "running" => row'.status = row.status]_vars

\* Once all requests have returned, an activity is cancelled only together
\* with its instance (no boundary event among the requests).
TerminateIsAtomic ==
    (\A c \in Clients : pc[c] \in {"ready", "done"}) =>
        ((\E a \in Acts : act[a] = "cancelled") => row.status = "cancelled")

\* Every request returns: no cycle of row locks survives.
RequestsReturn == \A c \in Clients : pc[c] = "readInst" ~> pc[c] = "done"
=============================================================================
