------------------------------ MODULE TokenFlow ------------------------------
(***************************************************************************)
(* Token traversal of one process instance (internal/engine: engine.go,    *)
(* tasks.go, extension.go, reject.go, activity_complete.go, boundary.go).  *)
(*                                                                         *)
(* A request or a job opens a transaction, marks an activity and walks the *)
(* sequence flows depth first until every branch waits, ends or is held at *)
(* a join.  The Go recursion is the sequence `stack`: its head is the flow *)
(* (or element) being entered, its tail what the callers still have to     *)
(* visit.  Transactions run one at a time here; how concurrent ones        *)
(* interleave on the rows of the store is the subject of InstanceLocking.  *)
(*                                                                         *)
(* Variables are abstracted: a condition may evaluate to either value each *)
(* time it is reached, and a comparison may fail on a non-numeric value.   *)
(***************************************************************************)
EXTENDS ProcessDefinition

CONSTANTS
    Async,      \* ASYNC_EXECUTION: starts and approvals are queued as jobs
    Crashes,    \* whether the server may stop, or a write fail, between two steps
    MaxRejects  \* bound on the rejections of one instance

ASSUME TokenFlowAssumption ==
    /\ Async \in BOOLEAN
    /\ Crashes \in BOOLEAN
    /\ MaxRejects \in Nat

VARIABLES
    inst,      \* the instance row: status, ActiveElements, InternalState
    acts,      \* the activity rows in order of creation
    jobs,      \* the job rows in order of creation
    stack,     \* elements the running transaction still has to enter
    scope,     \* execState.scopeID of the running transaction
    tx,        \* "idle", or on whose behalf a transaction runs
    committed, \* instance and activity rows other connections can read
    worker,    \* the job the worker has in hand
    irregular  \* history: the irregular ways in which Terminate was used or ended

vars == <<inst, acts, jobs, stack, scope, tx, committed, worker, irregular>>

-----------------------------------------------------------------------------
(* State *)

Terminal == {"completed", "failed", "cancelled"}
Statuses == {"absent", "pending", "running"} \cup Terminal

Instance == [status : Statuses,
             active : SUBSET Elements,
             joins  : [Elements -> SUBSET Flows],
             fired  : SUBSET (Nat \X Elements)]

Activity == [el : Elements,
             status  : {"active", "completed", "cancelled"},
             outcome : {"none", "approve", "reject", "cancelled"},
             scope   : ScopeIDs,
             branch  : Flows \cup {NoFlow}]

Job == [type : {"start", "continue"},
        el   : Elements \cup {NoElement},
        status : {"pending", "running", "done", "failed"}]

Entry == [via : Flows \cup {NoFlow}, to : Elements,
          branch : Flows \cup {NoFlow}]

\* How a Terminate may have gone: it stopped between its writes, or its
\* scopeId named no scope.
Irregularities == {"cut short", "no scope"}

Worker == [job : Nat, phase : {"idle", "claimed", "ran", "erred"}]

NoInstance == [status |-> "absent", active |-> {},
               joins |-> [e \in Elements |-> {}], fired |-> {}]
IdleWorker == [job |-> 0, phase |-> "idle"]

Init ==
    /\ inst = NoInstance
    /\ acts = <<>>
    /\ jobs = <<>>
    /\ stack = <<>>
    /\ scope = NoScope
    /\ tx = "idle"
    /\ committed = [inst |-> NoInstance, acts |-> <<>>]
    /\ worker = IdleWorker
    /\ irregular = {}

Idle == tx = "idle"

ActiveActs(al) == {i \in DOMAIN al : al[i].status = "active"}
WaitingAt(al)  == {al[i].el : i \in ActiveActs(al)}

-----------------------------------------------------------------------------
(* Routing: the set of flows taken out of a completed element, {} when the *)
(* engine reports that none matches.  T holds the conditions that are true.*)

First(S) == {f \in S : \A g \in S : f <= g}
Last(S)  == {f \in S : \A g \in S : f >= g}

\* EvalCondition: an empty expression is true.
EvalCondition(f, T) == f \in T \/ f \notin Conditional

followExclusive(out, T) ==
    LET hits     == {f \in out : f \in T /\ f \notin IsDefault}
        fallback == {f \in out : f \in IsDefault \/ f \notin Conditional}
    IN  IF hits # {} THEN First(hits) ELSE Last(fallback)

followInclusive(out, T) ==
    LET hits == {f \in out : EvalCondition(f, T) /\ f \notin IsDefault}
    IN  IF hits # {} THEN hits ELSE Last(out \cap IsDefault)

followEventBasedGateway(out, T, sel) ==
    LET hits == {f \in out : EvalCondition(f, T)}
    IN  IF sel # NoFlow THEN out \cap {sel}
        ELSE IF hits # {} THEN First(hits)
        ELSE IF Cardinality(out) = 1 THEN out ELSE {}

followComplexGateway(out, T) == out \cap T

\* The switch of completeElement and completeElementWithSelection.
Routes(e, T, sel) ==
    LET out == OutgoingFlows(e) IN
    CASE Kind(e) = "exclusiveGateway"  -> followExclusive(out, T)
      [] Kind(e) = "parallelGateway"   -> out
      [] Kind(e) = "inclusiveGateway"  -> IF Cardinality(IncomingFlows(e)) <= 1
                                          THEN followInclusive(out, T) ELSE out
      [] Kind(e) = "eventBasedGateway" -> followEventBasedGateway(out, T, sel)
      [] Kind(e) = "complexGateway"    -> followComplexGateway(out, T)
      [] OTHER                         -> IF Cardinality(out) > 1 THEN {} ELSE out

\* An error of the routing itself, and an error EvalCondition may return.
NoRoute(e, T, sel) == OutgoingFlows(e) # {} /\ Routes(e, T, sel) = {}
MayFailToEvaluate(e) ==
    /\ Kind(e) \in {"exclusiveGateway", "inclusiveGateway"}
    /\ OutgoingFlows(e) \cap Conditional # {}

\* The flows of S in definition order (the one function that sorts them).
InOrder(S) == {s \in [1..Cardinality(S) -> S] :
                 \A i, j \in 1..Cardinality(S) : i < j => s[i] < s[j]}

\* activateViaFlow: the first element of a parallel branch gets its identity.
BranchOf(f, branch) ==
    IF Kind(Source(f)) = "parallelGateway" /\ Cardinality(OutgoingFlows(Source(f))) > 1
    THEN f ELSE branch

FlowEntry(f, branch) ==
    [via |-> f, to |-> Target(f), branch |-> BranchOf(f, branch)]
ElementEntry(e, branch) == [via |-> NoFlow, to |-> e, branch |-> branch]

FlowEntries(s, branch) == [k \in DOMAIN s |-> FlowEntry(s[k], branch)]

-----------------------------------------------------------------------------
(* Effects on the rows *)

scopeForElement(e) == IF ScopeID(e) # NoScope THEN ScopeID(e) ELSE scope

NewActivity(e, status, branch) ==
    [el |-> e, status |-> status, outcome |-> "none",
     scope |-> scopeForElement(e), branch |-> branch]

\* The two list operations on ActiveElements, which holds no duplicates.
\* Mutant: an arrival forgets the other waiting elements.
appendUniqueLast(active, e) == {e}
appendUnique(active, e) == active \cup {e}
\* Mutant: the element stays listed.
removeNothing(active, gone) == active
removeString(active, gone) == active \ gone

\* Mutant: the first end event completes the instance.
tryCompleteAlways(p, al) == [p EXCEPT !.status = "completed"]
tryCompleteProcess(p, al) ==
    IF ActiveActs(al) = {} /\ p.active = {}
    THEN [p EXCEPT !.status = "completed"] ELSE p

\* Mutant: the two fields are swapped.
FinishedSwapped(al, i, outcome) ==
    [al EXCEPT ![i].status = outcome, ![i].outcome = "completed"]
Finished(al, i, outcome) ==
    [al EXCEPT ![i].status = "completed", ![i].outcome = outcome]

Cancelled(al, I) ==
    [i \in DOMAIN al |->
       IF i \in I THEN [al[i] EXCEPT !.status = "cancelled", !.outcome = "cancelled"]
       ELSE al[i]]

clearJoinStateInScope(p, s) ==
    IF s = NoScope THEN p
    ELSE [p EXCEPT !.joins =
            [e \in Elements |-> IF e \in ScopeGatewayIDs(s) THEN {} ELSE p.joins[e]]]

Rows(p, al) == [inst |-> p, acts |-> al]

\* A transaction opens with a fresh execState; its writes stay uncommitted.
Begin(owner, entries) ==
    /\ tx' = owner
    /\ stack' = entries
    /\ scope' = NoScope
    /\ UNCHANGED <<committed, irregular>>

\* A transaction that needs no traversal: its writes are committed at once.
CommitWrites ==
    /\ committed' = Rows(inst', acts')
    /\ UNCHANGED <<stack, scope, tx, worker>>

-----------------------------------------------------------------------------
(* Traversal: one step per element entered *)

Top == Head(stack)
Arrivals == inst.joins[Top.to] \cup {Top.via}
EntersJoin == Top.via # NoFlow /\ IsJoinGateway(Top.to)
\* Mutant: a complete join does not fire.
HeldAlways == EntersJoin
\* Mutant: a join lets every token pass.
HeldNever == FALSE
Held == EntersJoin /\ Arrivals # IncomingFlows(Top.to)

\* The instance once the top entry has got past its join, if there is one.
Entered == IF EntersJoin THEN [inst EXCEPT !.joins[Top.to] = {}] ELSE inst

\* activateViaFlow, join not complete: keep the arrival and go no further.
HoldAtJoin ==
    /\ Held
    /\ inst' = [inst EXCEPT !.joins[Top.to] = Arrivals]
    /\ stack' = Tail(stack)
    /\ UNCHANGED <<acts, scope>>

\* A subProcess marker only opens its scope and hands over to its entry.
EnterSubProcess ==
    /\ Kind(Top.to) = "subProcess"
    /\ scope' = scopeForElement(Top.to)
    /\ stack' = IF EntryRef(Top.to) = NoElement THEN Tail(stack)
                ELSE <<ElementEntry(EntryRef(Top.to), Top.branch)>> \o Tail(stack)
    /\ UNCHANGED <<inst, acts>>

ReachEndEvent ==
    /\ Kind(Top.to) = "endEvent"
    /\ LET al == Append(acts, NewActivity(Top.to, "completed", Top.branch))
       IN  /\ acts' = al
           /\ inst' = tryCompleteProcess(Entered, al)
    /\ stack' = Tail(stack)
    /\ UNCHANGED scope

\* userTask, receiveTask and extension elements stop the traversal.
WaitAtElement ==
    /\ Waits(Top.to)
    /\ acts' = Append(acts, NewActivity(Top.to, "active", Top.branch))
    /\ inst' = [Entered EXCEPT !.active = appendUnique(@, Top.to)]
    /\ stack' = Tail(stack)
    /\ UNCHANGED scope

PassesThrough(e) ==
    ~Waits(e) /\ Kind(e) \notin {"subProcess", "endEvent"}

\* Start events, automated tasks and gateways complete at once and follow
\* their outgoing flows; branchFlowID is empty past the first element.
PassElement ==
    /\ PassesThrough(Top.to)
    /\ \E T \in SUBSET (OutgoingFlows(Top.to) \cap Conditional) :
         /\ ~NoRoute(Top.to, T, NoFlow)
         /\ \E s \in InOrder(Routes(Top.to, T, NoFlow)) :
              stack' = FlowEntries(s, NoFlow) \o Tail(stack)
    /\ acts' = Append(acts, NewActivity(Top.to, "completed", Top.branch))
    /\ inst' = [Entered EXCEPT !.active = removeString(@, {Top.to})]
    /\ UNCHANGED scope

Traverse ==
    /\ ~Idle /\ stack # <<>>
    /\ \/ HoldAtJoin
       \/ ~Held /\ (EnterSubProcess \/ ReachEndEvent \/ WaitAtElement \/ PassElement)
    /\ UNCHANGED <<jobs, tx, committed, worker, irregular>>

\* The worker learns whether its job's transaction succeeded.
WorkerAfter(phase) ==
    worker' = IF tx = "job" THEN [worker EXCEPT !.phase = phase] ELSE worker

Commit ==
    /\ ~Idle /\ stack = <<>>
    /\ tx' = "idle"
    /\ scope' = NoScope
    /\ committed' = Rows(inst, acts)
    /\ WorkerAfter("ran")
    /\ UNCHANGED <<inst, acts, jobs, stack, irregular>>

RollBack ==
    /\ tx' = "idle"
    /\ scope' = NoScope
    /\ stack' = <<>>
    /\ inst' = committed.inst
    /\ acts' = committed.acts
    /\ UNCHANGED <<jobs, committed, irregular>>

\* An error anywhere in the traversal.  failInstance writes status failed and
\* returns the error, so the transaction it wrote it in is rolled back.
FailTraversal ==
    /\ ~Idle /\ stack # <<>> /\ ~Held
    /\ \/ Kind(Top.to) \in FallibleTasks
       \/ MayFailToEvaluate(Top.to)
       \/ /\ PassesThrough(Top.to)
          /\ \E T \in SUBSET (OutgoingFlows(Top.to) \cap Conditional) :
                NoRoute(Top.to, T, NoFlow)
    /\ WorkerAfter("erred")
    /\ RollBack

-----------------------------------------------------------------------------
(* Starting an instance *)

\* The start events of one request: all of them, or the one a trigger matched.
StartChoices == {NoElement} \cup {StartEvents[k] : k \in DOMAIN StartEvents}
StartEntries(chosen) ==
    IF chosen # NoElement THEN <<ElementEntry(chosen, NoFlow)>>
    ELSE [k \in DOMAIN StartEvents |-> ElementEntry(StartEvents[k], NoFlow)]

StartProcess ==
    /\ Idle /\ ~Async /\ inst.status = "absent"
    /\ \E chosen \in StartChoices : Begin("request", StartEntries(chosen))
    /\ inst' = [NoInstance EXCEPT !.status = "running"]
    /\ UNCHANGED <<acts, jobs, worker>>

\* The pending instance and its start job are one transaction; the chosen
\* start_element_ids travel in InternalState, here in the job.
StartProcessAsync ==
    /\ Idle /\ Async /\ inst.status = "absent"
    /\ inst' = [NoInstance EXCEPT !.status = "pending"]
    /\ \E chosen \in StartChoices :
         jobs' = Append(jobs, [type |-> "start", el |-> chosen, status |-> "pending"])
    /\ UNCHANGED <<acts, irregular>>
    /\ CommitWrites

-----------------------------------------------------------------------------
(* Requests on a running instance *)

\* Mutant: the status check is missing.
RunningOrEnded == Idle /\ inst.status \in {"running"} \cup Terminal
Running == Idle /\ inst.status = "running"
ActiveKind(i, K) == acts[i].status = "active" /\ Kind(acts[i].el) \in K

\* Leave activity i and follow its element's flows (completeElement).
Continue(i, outcome, T, sel) ==
    /\ ~NoRoute(acts[i].el, T, sel)
    /\ acts' = Finished(acts, i, outcome)
    /\ inst' = [inst EXCEPT !.active = removeString(@, {acts[i].el})]
    /\ \E s \in InOrder(Routes(acts[i].el, T, sel)) :
         Begin("request", FlowEntries(s, NoFlow))

\* CompleteTask whose approval step is done (see Approval for partial ones).
ApproveTask(i) ==
    /\ Running /\ ~Async /\ ActiveKind(i, {"userTask"})
    /\ Continue(i, "approve", {}, NoFlow)
    /\ UNCHANGED <<jobs, worker>>

\* The same request when traversal is left to the worker: the task is closed
\* and its continuation queued in one transaction.
ApproveTaskAsync(i) ==
    /\ Running /\ Async /\ ActiveKind(i, {"userTask"})
    /\ acts' = Finished(acts, i, "approve")
    /\ inst' = [inst EXCEPT !.active = removeString(@, {acts[i].el})]
    /\ jobs' = Append(jobs, [type |-> "continue", el |-> acts[i].el, status |-> "pending"])
    /\ UNCHANGED irregular
    /\ CommitWrites

\* completeReceiveActivity and completeExtensionActivity.
CompleteActivity(i) ==
    /\ Running /\ ActiveKind(i, ExtensionKinds \cup {"receiveTask"})
    /\ \E T \in SUBSET (OutgoingFlows(acts[i].el) \cap Conditional),
          sel \in OutgoingFlows(acts[i].el) \cup {NoFlow} :
         Continue(i, "none", T, sel)
    /\ UNCHANGED <<jobs, worker>>

\* Mutant: the open activities are forgotten.
cancelInstanceOnly(p, al) ==
    /\ acts' = al
    /\ inst' = [p EXCEPT !.status = "cancelled", !.active = {}]

\* cancelInstance: every active activity is cancelled, then the instance.
cancelInstance(p, al) ==
    /\ acts' = Cancelled(al, ActiveActs(al))
    /\ inst' = [p EXCEPT !.status = "cancelled", !.active = {}]

InScope(al, s) == {i \in ActiveActs(al) : \/ al[i].el \in ScopeElementIDs(s)
                                          \/ al[i].scope = s}

\* terminateScope up to its first write of the instance: cancel in the scope
\* and clear its joins.
ScopeLeft(p, al, s) ==
    clearJoinStateInScope(
        [p EXCEPT !.active = removeString(@, {al[i].el : i \in InScope(al, s)})], s)

\* Mutant: nothing completes the instance afterwards.
terminateScopeAndStop(p, al, s) ==
    /\ acts' = Cancelled(al, InScope(al, s))
    /\ inst' = ScopeLeft(p, al, s)

\* terminateScope: cancel in the scope, clear its joins, try to complete.
terminateScope(p, al, s) ==
    LET bl == Cancelled(al, InScope(al, s))
    IN  /\ acts' = bl
        /\ inst' = tryCompleteProcess(ScopeLeft(p, al, s), bl)

Rejections == {i \in DOMAIN acts : acts[i].outcome = "reject"}

\* handleTaskReject with onReject terminateScope.
RejectTerminating(i) ==
    LET al == Finished(acts, i, "reject")
        p  == [inst EXCEPT !.active = removeString(@, {acts[i].el})]
    IN  /\ Running /\ ActiveKind(i, {"userTask"})
        /\ acts[i].el \in TerminatesOnReject
        /\ IF acts[i].scope = NoScope THEN cancelInstance(p, al)
           ELSE terminateScope(p, al, acts[i].scope)
        /\ CommitWrites
        /\ UNCHANGED <<jobs, irregular>>

\* cancelBranchPeers: the active activities with the same branch identity.
BranchPeers(al, i) ==
    IF al[i].branch = NoFlow THEN {}
    ELSE {j \in ActiveActs(al) \ {i} : al[j].branch = al[i].branch}

\* handleTaskReject with onReject return; without a return target it is an
\* error and the transaction leaves no trace.
RejectReturning(i) ==
    LET al     == Finished(acts, i, "reject")
        peers  == BranchPeers(al, i)
        p      == [inst EXCEPT !.active =
                     removeString(@, {acts[i].el} \cup {acts[j].el : j \in peers})]
        target == ReturnTarget(acts[i].el)
    IN  /\ Running /\ ActiveKind(i, {"userTask"})
        /\ acts[i].el \notin TerminatesOnReject
        /\ target # NoElement
        /\ Cardinality(Rejections) < MaxRejects
        /\ acts' = Cancelled(al, peers)
        /\ inst' = clearJoinStateInScope(p, acts[i].scope)
        /\ Begin("request", <<ElementEntry(target, acts[i].branch)>>)
        /\ UNCHANGED <<jobs, worker>>

\* A request may send any scopeId; ScopeElementIDs also knows one element by its
\* own id, and an id that nothing has cancels nothing.
NoSuchScope == "no such scope"
ScopeArguments == Scopes \cup Elements \cup {NoSuchScope}

\* Terminate of the whole instance, or of what the scopeId names.
Terminate ==
    /\ Running
    /\ \/ cancelInstance(inst, acts) /\ UNCHANGED irregular
       \/ \E s \in ScopeArguments :
            /\ terminateScope(inst, acts, s)
            /\ irregular' = IF s \in Scopes THEN irregular ELSE irregular \cup {"no scope"}
    /\ CommitWrites
    /\ UNCHANGED jobs

\* Terminate runs outside any transaction.  The server stops, or a write fails,
\* after some of the activity rows (a store may list them in any order), or
\* after the instance row of terminateScope and before tryCompleteProcess.
TerminateCutShort ==
    /\ Crashes /\ Running
    /\ \/ /\ \E I \in SUBSET ActiveActs(acts) : acts' = Cancelled(acts, I)
          /\ UNCHANGED inst
       \/ \E s \in ScopeArguments : /\ acts' = Cancelled(acts, InScope(acts, s))
                                    /\ inst' = ScopeLeft(inst, acts, s)
    /\ irregular' = irregular \cup {"cut short"}
    /\ CommitWrites
    /\ UNCHANGED jobs

\* Mutant: earlier firings are not remembered.
boundaryNeverFired(i, b) == FALSE
boundaryAlreadyFired(i, b) == <<i, b>> \in inst.fired

\* fireBoundaryEvent on host activity i, from a timer, a message or the API.
FireBoundary(i, b) ==
    LET host == acts[i]
        al   == IF b \in Interrupting THEN Cancelled(acts, {i}) ELSE acts
        al1  == Append(al, [el |-> b, status |-> "completed", outcome |-> "none",
                            scope |-> host.scope, branch |-> host.branch])
        p    == [inst EXCEPT !.fired = @ \cup {<<i, b>>},
                             !.active = IF b \in Interrupting
                                       THEN removeString(@, {host.el}) ELSE @]
    IN  /\ Running /\ host.status = "active"
        /\ AttachedToRef(b) = host.el
        /\ ~boundaryAlreadyFired(i, b)
        /\ acts' = al1
        /\ inst' = IF OutgoingFlows(b) = {} THEN tryCompleteProcess(p, al1) ELSE p
        /\ \E s \in InOrder(OutgoingFlows(b)) :
             Begin("request", FlowEntries(s, host.branch))
        /\ UNCHANGED <<jobs, worker>>

-----------------------------------------------------------------------------
(* The worker *)

PendingJobs == {j \in DOMAIN jobs : jobs[j].status = "pending"}

ClaimNextJob ==
    /\ Idle /\ worker.phase = "idle"
    /\ \E j \in First(PendingJobs) :
         /\ jobs' = [jobs EXCEPT ![j].status = "running"]
         /\ worker' = [job |-> j, phase |-> "claimed"]
    /\ UNCHANGED <<inst, acts, stack, scope, tx, committed, irregular>>

\* Mutant: the status is not set to running.
runStartJobStillPending ==
    /\ Idle /\ worker.phase = "claimed" /\ jobs[worker.job].type = "start"
    /\ Begin("job", StartEntries(jobs[worker.job].el))
    /\ UNCHANGED <<inst, acts, jobs, worker>>

runStartJob ==
    /\ Idle /\ worker.phase = "claimed" /\ jobs[worker.job].type = "start"
    /\ inst' = [inst EXCEPT !.status = "running"]
    /\ Begin("job", StartEntries(jobs[worker.job].el))
    /\ UNCHANGED <<acts, jobs, worker>>

runContinueJob ==
    LET e == jobs[worker.job].el IN
    /\ Idle /\ worker.phase = "claimed" /\ jobs[worker.job].type = "continue"
    /\ \/ /\ inst.status = "running" /\ ~NoRoute(e, {}, NoFlow)
          /\ inst' = [inst EXCEPT !.active = removeString(@, {e})]
          /\ \E s \in InOrder(Routes(e, {}, NoFlow)) : Begin("job", FlowEntries(s, NoFlow))
          /\ UNCHANGED worker
       \/ /\ inst.status # "running" \/ NoRoute(e, {}, NoFlow)
          /\ worker' = [worker EXCEPT !.phase = "erred"]
          /\ UNCHANGED <<inst, tx, committed, stack, scope, irregular>>
    /\ UNCHANGED <<acts, jobs>>

\* Mutant: a failed job is never finished.
FinishJobIfRan ==
    /\ Idle /\ worker.phase = "ran"
    /\ jobs' = [jobs EXCEPT ![worker.job].status = "done"]
    /\ worker' = IdleWorker
    /\ UNCHANGED <<inst, acts, stack, scope, tx, committed, irregular>>

\* CompleteJob or FailJob, after the transaction; there is no retry.
FinishJob ==
    /\ Idle /\ worker.phase \in {"ran", "erred"}
    /\ jobs' = [jobs EXCEPT ![worker.job].status =
                  IF worker.phase = "ran" THEN "done" ELSE "failed"]
    /\ worker' = IdleWorker
    /\ UNCHANGED <<inst, acts, stack, scope, tx, committed, irregular>>

\* The server stops: the open transaction is lost and so is the claimed job.
Crash ==
    /\ Crashes
    /\ ~Idle \/ worker.phase # "idle"
    /\ worker' = IdleWorker
    /\ RollBack

-----------------------------------------------------------------------------
Request ==
    \/ StartProcess
    \/ StartProcessAsync
    \/ \E i \in DOMAIN acts :
         \/ ApproveTask(i)
         \/ ApproveTaskAsync(i)
         \/ CompleteActivity(i)
         \/ RejectTerminating(i)
         \/ RejectReturning(i)
         \/ \E b \in BoundaryEvents : FireBoundary(i, b)
    \/ Terminate
    \/ TerminateCutShort

Engine == Traverse \/ Commit \/ FailTraversal
WorkerStep == ClaimNextJob \/ runStartJob \/ runContinueJob \/ FinishJob

Next == Request \/ Engine \/ WorkerStep \/ Crash

Spec == Init /\ [][Next]_vars

\* A started traversal runs on, and the worker loop keeps polling.
FairSpec == Spec /\ WF_vars(Engine) /\ WF_vars(WorkerStep)

-----------------------------------------------------------------------------
(* Properties *)

\* The rows, the jobs, the stack of the traversal and the worker keep their types,
\* before and after every commit and rollback.
TypeOK ==
    /\ inst \in Instance
    /\ acts \in Seq(Activity)
    /\ jobs \in Seq(Job)
    /\ stack \in Seq(Entry)
    /\ scope \in ScopeIDs
    /\ tx \in {"idle", "request", "job"}
    /\ committed \in [inst : Instance, acts : Seq(Activity)]
    /\ worker \in Worker
    /\ irregular \subseteq Irregularities

\* Unfinished work: jobs that are queued, or claimed and not yet run.
Unfinished == {j \in DOMAIN jobs :
                 \/ jobs[j].status = "pending"
                 \/ jobs[j].status = "running" /\ worker = [job |-> j, phase |-> "claimed"]}

\* ActiveElements lists only elements that have an open activity: no inbox or
\* API client sees a wait that no request can end.  Only a Terminate that stops
\* between its writes leaves a closed element on the list.
WaitingListSound ==
    "cut short" \notin irregular => inst.active \subseteq WaitingAt(acts)

\* ActiveElements lists every element with an open activity (docs/ddd/runtime.md:
\* "denormalized list of waiting element ids").
WaitingListComplete == Idle => WaitingAt(acts) \subseteq inst.active

\* A join that has collected all its incoming flows fires in that very step:
\* arrivals are a proper part of the incoming flows, so no token sits in a
\* complete join.
JoinNeverFull ==
    \A e \in Elements :
        IsJoinGateway(e) => /\ inst.joins[e] \subseteq IncomingFlows(e)
                            /\ inst.joins[e] # IncomingFlows(e)

\* A cancelled instance has no open activity: nothing is left in an inbox
\* that its assignee could not complete.
CancelledMeansQuiet ==
    inst.status = "cancelled" => ActiveActs(acts) = {} /\ inst.active = {}

\* A completed instance has no open activity, no token held at a join and no
\* queued continuation (docs/ddd/execution.md: "when no active activities
\* remain -> instance completed"), as long as every Terminate named a scope or
\* nothing and came to its end: one with any other scopeId goes straight to
\* tryCompleteProcess, which looks at neither joins nor jobs.
CompletedMeansDone ==
    Idle /\ inst.status = "completed" /\ irregular = {} =>
        /\ ActiveActs(acts) = {}
        /\ \A e \in Elements : inst.joins[e] = {}
        /\ Unfinished = {}

\* A running instance at rest has something that can move it on: an open
\* activity or a job of the worker.  It holds wherever the server stops, but for
\* a stop between the writes of Terminate, and for a scopeId that names a single
\* element, whose token the join after it then waits for.
NoStrandedInstance ==
    Idle /\ inst.status = "running" /\ irregular = {} =>
        ActiveActs(acts) # {} \/ Unfinished # {}

\* A boundary event fires at most once on each visit of its host.
BoundaryFiresOnce ==
    \A b \in BoundaryEvents :
        Cardinality({k \in DOMAIN acts : acts[k].el = b})
          <= Cardinality({k \in DOMAIN acts : acts[k].el = AttachedToRef(b)})

\* Once other connections can read a final status it never changes again.
TerminalIsFinal ==
    [][committed.inst.status \in Terminal
         => committed'.inst.status = committed.inst.status]_vars

Lifecycle == INSTANCE InstanceLifecycle WITH
    status <- committed.inst.status,
    open   <- ActiveActs(committed.acts),
    closed <- DOMAIN committed.acts \ ActiveActs(committed.acts)

\* The engine implements the lifecycle of docs/ddd/runtime.md: what other
\* connections read goes from absent or pending to running to one final status,
\* an activity that is closed is never opened again, and an instance completes or
\* is cancelled only in a transaction that leaves no activity open.
ImplementsLifecycle == Lifecycle!Spec

\* The worker drains its queue.
JobsFinish == PendingJobs # {} ~> PendingJobs = {}

\* A pending instance leaves that status (docs/ddd/runtime.md: "pending ->
\* running -> completed | failed | cancelled").
PendingInstanceStarts ==
    committed.inst.status = "pending" ~> committed.inst.status # "pending"
=============================================================================
