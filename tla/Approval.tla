------------------------------ MODULE Approval -------------------------------
(***************************************************************************)
(* The votes on one userTask activity and the changes of its assignees     *)
(* (internal/engine: approval.go, assignees.go, assignee_sync.go and the   *)
(* approval half of CompleteTask).                                         *)
(*                                                                         *)
(* CompleteTask and UpdateActivityAssignees re-read the activity and write *)
(* it under the lock_version of their instance, so each is one step (see   *)
(* InstanceLocking).  RemoveUserFromActiveTasks is two: it computes the    *)
(* new lists from a listing of all open tasks and applies them later.      *)
(* A Go slice is nil or a list: an empty list and nil behave differently.  *)
(***************************************************************************)
EXTENDS Lists, FiniteSets

CONSTANTS
    Users,
    ElementConfigs, \* userTask elements: mode, assignees, requiredApprovals
    Resolutions,    \* lists assigneesVariable may resolve to; <<>> if it is not set
    Replacements,   \* assignee lists an operator or an HR system may send
    PendingLists,   \* pendingAssignees such a request may send with them
    Removable,      \* users an HR system may remove
    MaxRecords      \* bound on the approval records of the task

Anonymous == ""     \* a request without an assignee

ASSUME ApprovalAssumption ==
    /\ Anonymous \notin Users
    /\ \A el \in ElementConfigs :
         /\ el.mode \in {"any", "all", "sequential"}
         /\ el.assignees \in Seq(Users)
         /\ el.required \in Nat
    /\ Resolutions \subseteq Seq(Users)
    /\ Replacements \subseteq Seq(Users)
    /\ PendingLists \subseteq Seq(Users)
    /\ Removable \subseteq Users
    /\ MaxRecords \in Nat

VARIABLES
    el,      \* the element of the pinned definition
    status,  \* of the activity: active, completed or rejected
    pool,    \* act.Assignees
    pending, \* act.PendingAssignees
    quota,   \* act.RequiredApprovals
    records, \* act.ApprovalRecords
    sync,    \* the lists a RemoveUserFromActiveTasks is about to apply
    excused  \* history: assignees whom a request's own pendingAssignees left out

vars == <<el, status, pool, pending, quota, records, sync, excused>>

Nil == [nil |-> TRUE, list |-> <<>>]
List(s) == [nil |-> FALSE, list |-> s]
NoSync == [user |-> Anonymous, assignees |-> <<>>, pending |-> Nil]

Record == [who : Users \cup {Anonymous}, action : {"approve", "reject", "skipped"}]

-----------------------------------------------------------------------------
(* Lists *)

Without(s, u) == Outside(s, {u})

\* Mutant: the voter stays on the list.
removeNobody(p, u) == p

\* removeString works in place: nil stays nil, a list that empties does not
\* become nil.
removeString(p, u) == [p EXCEPT !.list = Without(@, u)]

\* append([]string(nil), list...): an empty list becomes nil.
Copied(s) == IF s = <<>> THEN Nil ELSE List(s)

\* What a list still shows after removeString has compacted it in place.
Compacted(s, u) ==
    Without(s, u) \o SubSeq(s, Len(Without(s, u)) + 1, Len(s))

pendingForMode(mode, s) ==
    IF mode = "sequential" /\ s # <<>> THEN List(<<Head(s)>>) ELSE Copied(s)

\* The first position of u, 0 when it does not occur (indexOfString + 1).
IndexOf(s, u) ==
    IF u \in Members(s)
    THEN CHOOSE k \in DOMAIN s : s[k] = u /\ \A j \in 1..(k-1) : s[j] # u
    ELSE 0

-----------------------------------------------------------------------------
(* Activation *)

\* Mutant: no quota unless the designer sets one.
RequiredAsGiven(e) == e.required

RequiredApprovals(e) ==
    IF e.required > 0 THEN e.required
    ELSE IF e.mode = "all" /\ e.assignees # <<>> THEN Len(e.assignees) ELSE 1

resolveTaskAssignees(e, r) == IF r # <<>> THEN r ELSE e.assignees

\* initUserTaskApproval.
Init ==
    /\ el \in ElementConfigs
    /\ \E r \in Resolutions : pool = resolveTaskAssignees(el, r)
    /\ pending = pendingForMode(el.mode, pool)
    /\ quota = RequiredApprovals(el)
    /\ status = "active"
    /\ records = <<>>
    /\ sync = NoSync
    /\ excused = {}

-----------------------------------------------------------------------------
(* Votes *)

taskPendingAssignees == IF pending.nil THEN pool ELSE pending.list

VotesOf(u) == {k \in DOMAIN records : records[k].who = u}
Approvals == {k \in DOMAIN records : records[k].action = "approve"}
ApprovedBy == {records[k].who : k \in Approvals}

\* Mutant: nobody is remembered to have voted.
neverActed(u) == FALSE
assigneeAlreadyActed(u) == VotesOf(u) # {}

\* Mutant: membership of the pool is enough.
anyoneCanAct(u) == u \in Members(pool)
assigneeCanAct(u) == u \in Members(taskPendingAssignees)

\* The checks of applyApprovalStep: a request may leave the assignee out
\* unless the task has several.
MayVote(u) ==
    /\ status = "active"
    /\ Len(records) < MaxRecords
    /\ \/ u = Anonymous /\ Len(pool) <= 1
       \/ u # Anonymous /\ assigneeCanAct(u) /\ ~assigneeAlreadyActed(u)

Recorded(u, action) == Append(records, [who |-> u, action |-> action])

\* appendSkippedForQuota: one record for each assignee who has not voted.
Skipped(rs) ==
    LET voters == {rs[k].who : k \in DOMAIN rs}
        left   == Outside(pool, voters)
    IN  rs \o [k \in DOMAIN left |-> [who |-> left[k], action |-> "skipped"]]

Close(outcome) == status' = outcome /\ pending' = Nil

\* Mutant: the vote that is being cast is counted twice.
approveAnyEarly(u) ==
    IF Cardinality(Approvals) + 2 >= quota
    THEN Close("completed") /\ records' = Skipped(Recorded(u, "approve"))
    ELSE /\ pending' = removeString(pending, u)
         /\ records' = Recorded(u, "approve")
         /\ UNCHANGED status

approveAny(u) ==
    IF Cardinality(Approvals) + 1 >= quota
    THEN Close("completed") /\ records' = Skipped(Recorded(u, "approve"))
    ELSE /\ pending' = removeString(pending, u)
         /\ records' = Recorded(u, "approve")
         /\ UNCHANGED status

\* Mutant: the task is done when one assignee is left.
approveAllButOne(u) ==
    /\ records' = Recorded(u, "approve")
    /\ IF Len(removeString(pending, u).list) <= 1 THEN Close("completed")
       ELSE pending' = removeString(pending, u) /\ UNCHANGED status

approveAll(u) ==
    /\ records' = Recorded(u, "approve")
    /\ IF removeString(pending, u).list = <<>> THEN Close("completed")
       ELSE pending' = removeString(pending, u) /\ UNCHANGED status

\* Mutant: the last assignee is left out.
approveSequentialShort(u) ==
    LET k == IndexOf(el.assignees, u) + 1
    IN  /\ records' = Recorded(u, "approve")
        /\ IF k >= Len(el.assignees) THEN Close("completed")
           ELSE pending' = List(<<el.assignees[k]>>) /\ UNCHANGED status

\* Mutant: the head stays the head.
approveSequentialStill(u) ==
    LET k == IndexOf(el.assignees, u)
    IN  /\ records' = Recorded(u, "approve")
        /\ IF k >= Len(el.assignees) THEN Close("completed") ELSE UNCHANGED <<pending, status>>

\* The next in the element's list, looked up by the voter's position there or,
\* failing that, in the activity's own list.
approveSequential(u) ==
    LET k == IF IndexOf(el.assignees, u) > 0 THEN IndexOf(el.assignees, u)
             ELSE IndexOf(pool, u)
    IN  /\ records' = Recorded(u, "approve")
        /\ IF k >= Len(el.assignees) THEN Close("completed")
           ELSE pending' = List(<<el.assignees[k+1]>>) /\ UNCHANGED status

Approve(u) ==
    /\ MayVote(u)
    /\ \/ el.mode = "any" /\ approveAny(u)
       \/ el.mode = "all" /\ approveAll(u)
       \/ el.mode = "sequential" /\ approveSequential(u)
    /\ UNCHANGED <<el, pool, quota, sync, excused>>

\* One rejection closes the task in every mode (handleTaskReject).
Reject(u) ==
    /\ MayVote(u)
    /\ records' = Recorded(u, "reject")
    /\ Close("rejected")
    /\ UNCHANGED <<el, pool, quota, sync, excused>>

-----------------------------------------------------------------------------
(* Assignees *)

Acted == {records[k].who : k \in {k \in DOMAIN records : records[k].action # "skipped"}}
           \ {Anonymous}

\* Whom a replacement without pendingAssignees leaves pending: a sequential
\* task keeps its head if it is still assigned.
DefaultPending(s) ==
    IF /\ el.mode = "sequential" /\ taskPendingAssignees # <<>>
       /\ Head(taskPendingAssignees) \in Members(s)
    THEN <<Head(taskPendingAssignees)>>
    ELSE pendingForMode(el.mode, s).list

MayReplaceBy(s) ==
    /\ status = "active" /\ s # <<>>
    /\ Members(pool) \cap Acted \subseteq Members(s)
    /\ el.mode = "any" => quota <= Len(s)

UpdateActivityAssignees(s, p) ==
    /\ MayReplaceBy(s)
    /\ pool' = s
    /\ pending' = Copied(IF p.nil THEN DefaultPending(s) ELSE p.list)
    /\ UNCHANGED <<el, status, quota, records>>

\* ReplaceTaskAssigneesSync or the PATCH endpoint, pendingAssignees left out or
\* any list: it is stored as it is, also when it is a part of the assignees.  After
\* an empty one anybody may vote, and the first vote finds nobody else pending.
ReplaceAssignees(s, p) ==
    /\ UpdateActivityAssignees(s, p)
    /\ excused' = IF p.nil THEN excused
                  ELSE excused \cup (Members(s) \ (ApprovedBy \cup Members(p.list)))
    /\ UNCHANGED sync

\* The listing of RemoveUserFromActiveTasks and the lists made of it.
ListForRemoval(u) ==
    /\ sync = NoSync /\ status = "active"
    /\ u \in Members(pool) \cup Members(taskPendingAssignees)
    /\ u \notin Acted
    /\ Without(pool, u) # <<>>
    /\ el.mode = "any" => quota <= Len(Without(pool, u))
    /\ sync' = [user |-> u, assignees |-> Without(pool, u),
                pending |-> IF pending.nil THEN List(Without(Compacted(pool, u), u))
                            ELSE removeString(pending, u)]
    /\ UNCHANGED <<el, status, pool, pending, quota, records, excused>>

\* applyAssigneeList carries no lock version: the lists may be out of date.
ApplyRemoval ==
    /\ sync # NoSync
    /\ \/ UpdateActivityAssignees(sync.assignees, sync.pending)
       \/ /\ ~MayReplaceBy(sync.assignees)
          /\ UNCHANGED <<el, status, pool, pending, quota, records>>
    /\ sync' = NoSync
    /\ UNCHANGED excused

-----------------------------------------------------------------------------
Next ==
    \/ \E u \in Users \cup {Anonymous} : Approve(u) \/ Reject(u)
    \/ \E s \in Replacements, p \in {Nil} \cup {List(l) : l \in PendingLists} :
         ReplaceAssignees(s, p)
    \/ \E u \in Removable : ListForRemoval(u)
    \/ ApplyRemoval

Spec == Init /\ [][Next]_vars

-----------------------------------------------------------------------------
(* Properties *)

MaybeList == [nil : BOOLEAN, list : Seq(Users)]

\* The lists, the records and the quota of an activity keep their types; the quota
\* stays positive.
TypeOK ==
    /\ el \in ElementConfigs
    /\ status \in {"active", "completed", "rejected"}
    /\ pool \in Seq(Users)
    /\ pending \in MaybeList
    /\ quota \in Nat \ {0}
    /\ records \in Seq(Record)
    /\ sync \in [user : Users \cup {Anonymous}, assignees : Seq(Users), pending : MaybeList]
    /\ excused \subseteq Users

\* Nobody votes twice on a task, not even when an assignee change puts them
\* back among the pending (approval.go: "already acted on this task").
OneVoteEach ==
    \A j, k \in DOMAIN records :
        /\ records[j].who = records[k].who /\ records[j].who # Anonymous
        /\ records[j].action # "skipped" /\ records[k].action # "skipped"
        => j = k

\* An `any` task completes only when as many different people as its quota asks
\* for have approved.
QuotaMet ==
    status = "completed" /\ el.mode = "any"
        => Cardinality(ApprovedBy) >= quota

\* An `all` task completes only when everyone then assigned has approved, but
\* for those whom a request left out by sending pendingAssignees of its own: no
\* vote, stale removal or change without them drops anybody.
EveryoneApproved ==
    status = "completed" /\ el.mode = "all" => Members(pool) \subseteq ApprovedBy \cup excused

\* docs/ddd/task-approval.md of `all`: "Every assignee must approve before the task
\* completes."
EveryAssigneeApproved ==
    status = "completed" /\ el.mode = "all" => Members(pool) \subseteq ApprovedBy

\* A `sequential` task completes only when everyone then assigned has approved.
SequenceCompleted ==
    status = "completed" /\ el.mode = "sequential" => Members(pool) \subseteq ApprovedBy

\* The votes on a `sequential` task are cast in the order of the list: whoever
\* has voted comes after nobody who has not (docs/ddd/task-approval.md:
\* "Assignees act in list order").
VotesInOrder ==
    el.mode = "sequential" =>
        \A j, k \in DOMAIN pool :
            j < k /\ pool[k] \in Acted => pool[j] \in Acted

\* PendingAssignees are the approvers who remain: nobody who has voted is one
\* of them (docs/ddd/runtime.md: "Current and remaining approvers").
PendingAreRemaining == Members(pending.list) \cap Acted = {}

\* An open task with assignees is in the inbox of one of them: somebody is
\* pending and has not voted (TaskVisibleToAssignee).
InSomeInbox ==
    status = "active" /\ pool # <<>>
        => \E u \in Members(taskPendingAssignees) : ~assigneeAlreadyActed(u)
=============================================================================
