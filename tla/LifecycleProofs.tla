--------------------------- MODULE LifecycleProofs ---------------------------
(***************************************************************************)
(* What clients can rely on over the whole life of an instance, proved of  *)
(* every definition on top of the invariant of TokenFlowProofs: the        *)
(* refinement of InstanceLifecycle, the completeness of the waiting list,  *)
(* the single firing of boundary events, that no running instance is       *)
(* stranded and that a completed one is done.  Each theorem names the      *)
(* condition on the definition or the traversal without which the code     *)
(* does not guarantee it.                                                  *)
(***************************************************************************)
EXTENDS TokenFlowProofs

-----------------------------------------------------------------------------
(* Activity rows over time *)

\* bl holds the activities of al, none of them opened again.
Follows(al, bl) ==
    /\ DOMAIN al \subseteq DOMAIN bl
    /\ ActiveActs(bl) \cap DOMAIN al \subseteq ActiveActs(al)

\* Rows follow themselves.
LEMMA FollowsItself == \A al : Follows(al, al)
BY DEF Follows, ActiveActs

\* What follows, followed on, follows.
LEMMA FollowsOn ==
    ASSUME NEW al, NEW bl, NEW cl, Follows(al, bl), Follows(bl, cl)
    PROVE  Follows(al, cl)
BY DEF Follows, ActiveActs

\* A row appended is a row more, the others are what they were.
LEMMA AppendedRow ==
    ASSUME NEW al \in Seq(Activity), NEW a \in Activity
    PROVE  /\ Append(al, a) \in Seq(Activity)
           /\ DOMAIN Append(al, a) = DOMAIN al \cup {Len(al) + 1}
           /\ Len(al) + 1 \notin DOMAIN al
           /\ \A j \in DOMAIN al : Append(al, a)[j] = al[j]
           /\ Append(al, a)[Len(al) + 1] = a
<1> DEFINE ap == Append(al, a)
<1>1. DOMAIN al = 1..Len(al) /\ Len(al) \in Nat
  OBVIOUS
<1>2. ap \in Seq(Activity) /\ DOMAIN ap = 1..(Len(al) + 1)
  OBVIOUS
<1>3. (\A j \in 1..Len(al) : ap[j] = al[j]) /\ ap[Len(al) + 1] = a
  OBVIOUS
<1> HIDE DEF ap
<1>4. DOMAIN ap = DOMAIN al \cup {Len(al) + 1} /\ Len(al) + 1 \notin DOMAIN al
  BY <1>1, <1>2
<1> QED
  BY <1>1, <1>2, <1>3, <1>4 DEF ap

\* An activity opened later opens none that is closed.
LEMMA FollowsAppend ==
    ASSUME NEW al \in Seq(Activity), NEW a \in Activity
    PROVE  Follows(al, Append(al, a))
<1> DEFINE ap == Append(al, a)
<1>1. DOMAIN al \subseteq DOMAIN ap /\ \A j \in DOMAIN al : ap[j] = al[j]
  BY AppendedRow
<1> HIDE DEF ap
<1>2. Follows(al, ap)
  BY <1>1 DEF Follows, ActiveActs
<1> QED
  BY <1>2 DEF ap

\* Closing one activity opens none.
LEMMA FollowsFinished ==
    ASSUME NEW al \in Seq(Activity), NEW i \in DOMAIN al,
           NEW outcome \in {"none", "approve", "reject"}
    PROVE  Follows(al, Finished(al, i, outcome))
<1> DEFINE fs == Finished(al, i, outcome)
<1>1. DOMAIN fs = DOMAIN al /\ ActiveActs(fs) = ActiveActs(al) \ {i}
  BY FinishedRows
<1> HIDE DEF fs
<1>2. Follows(al, fs)
  BY <1>1 DEF Follows
<1> QED
  BY <1>2 DEF fs

\* Cancelling activities opens none.
LEMMA FollowsCancelled ==
    ASSUME NEW al \in Seq(Activity), NEW I
    PROVE  Follows(al, Cancelled(al, I))
BY CancelledRows DEF Follows

-----------------------------------------------------------------------------
(* The refinement of InstanceLifecycle *)

\* A walk that has completed the instance finds nothing more to wait for: what
\* it still enters is an end, a passing element or an unfinished join.
NothingToWaitFor ==
    ~Idle /\ inst.status = "completed" /\ stack # <<>> => Held \/ ~Waits(Top.to)

\* A completed instance has no open activity.
Quiet(p, al) == p.status = "completed" => ActiveActs(al) = {}

LifeInv ==
    /\ Follows(committed.acts, acts)
    /\ tx # "idle" => inst.status \in {"running", "completed"}
    /\ Quiet(inst, acts)
    /\ Quiet(committed.inst, committed.acts)

\* Nothing has been started.
LEMMA InitLife == Init => LifeInv
<1> SUFFICES ASSUME Init PROVE LifeInv
  OBVIOUS
<1>1. committed.acts = acts /\ committed.inst.status = "absent" /\ inst.status = "absent"
      /\ tx = "idle"
  BY DEF Init, NoInstance
<1> QED
  BY <1>1, FollowsItself DEF LifeInv, Quiet

\* tryCompleteProcess completes an instance without open activities only.
LEMMA TryCompleteLife ==
    ASSUME NEW p \in Instance, NEW al, p.status \in {"running", "completed"}, Quiet(p, al)
    PROVE  /\ tryCompleteProcess(p, al).status \in {"running", "completed"}
           /\ Quiet(tryCompleteProcess(p, al), al)
BY DEF tryCompleteProcess, Instance, Quiet

\* A step of the walk closes nothing twice and opens nothing under a completed
\* instance.
LEMMA TraverseLife ==
    ASSUME IInv, LifeInv, NothingToWaitFor, Traverse
    PROVE  LifeInv'
<1>1. /\ RowsOK(inst, acts, irregular) /\ inst.status \in {"running", "completed"}
      /\ StackOK(stack) /\ stack # <<>> /\ scope \in ScopeIDs /\ tx # "idle"
  BY DEF IInv, LifeInv, Traverse, Idle, TxOK
<1>2. Top \in Entry
  BY <1>1, TailOK DEF Top
<1>3. Top.to \in Elements /\ Top.branch \in Branches
  BY <1>2 DEF Entry, Branches
<1>4. UNCHANGED <<tx, committed>>
  BY DEF Traverse
<1>5. acts \in Seq(Activity) /\ Entered \in Instance /\ Entered.status = inst.status
  BY <1>1, EnteredOK DEF RowsOK
<1>6. Quiet(inst, acts)
  BY DEF LifeInv
<1>7. /\ Follows(acts, acts') /\ inst'.status \in {"running", "completed"}
      /\ Quiet(inst', acts')
  <2>1. CASE HoldAtJoin
    <3>1. acts' = acts /\ inst'.status = inst.status
      BY <1>1, <2>1 DEF HoldAtJoin, RowsOK, Instance
    <3> QED
      BY <1>1, <1>6, <3>1, FollowsItself DEF Quiet
  <2>2. CASE EnterSubProcess
    BY <1>1, <1>6, <2>2, FollowsItself DEF EnterSubProcess
  <2>3. CASE ReachEndEvent
    <3> DEFINE a  == NewActivity(Top.to, "completed", Top.branch)
               al == Append(acts, a)
    <3>1. a \in Activity /\ a.status = "completed"
      BY <1>1, <1>3, NewActivityType
    <3>2. acts' = al /\ inst' = tryCompleteProcess(Entered, al)
      BY <2>3 DEF ReachEndEvent
    <3> HIDE DEF a
    <3>3. ActiveActs(al) = ActiveActs(acts) /\ Follows(acts, al)
      BY <1>5, <3>1, AppendRows, FollowsAppend
    <3> HIDE DEF al
    <3>4. Quiet(Entered, al)
      BY <1>5, <1>6, <3>3 DEF Quiet
    <3> QED
      BY <1>1, <1>5, <3>2, <3>3, <3>4, TryCompleteLife
  <2>4. CASE ~Held /\ WaitAtElement
    <3> DEFINE a == NewActivity(Top.to, "active", Top.branch)
    <3>1. a \in Activity
      BY <1>1, <1>3, NewActivityType
    <3>2. acts' = Append(acts, a) /\ inst'.status = inst.status
      BY <1>5, <2>4 DEF WaitAtElement, Instance
    <3> HIDE DEF a
    <3>3. inst.status # "completed"
      BY <1>1, <2>4 DEF NothingToWaitFor, WaitAtElement, Idle
    <3> QED
      BY <1>1, <1>5, <3>1, <3>2, <3>3, FollowsAppend DEF Quiet
  <2>5. CASE PassElement
    <3> DEFINE a == NewActivity(Top.to, "completed", Top.branch)
    <3>1. a \in Activity /\ a.status = "completed"
      BY <1>1, <1>3, NewActivityType
    <3>2. acts' = Append(acts, a) /\ inst'.status = inst.status
      BY <1>5, <2>5 DEF PassElement, Instance
    <3> HIDE DEF a
    <3>3. ActiveActs(acts') = ActiveActs(acts) /\ Follows(acts, acts')
      BY <1>5, <3>1, <3>2, AppendRows, FollowsAppend
    <3> QED
      BY <1>1, <1>6, <3>2, <3>3 DEF Quiet
  <2> QED
    BY <2>1, <2>2, <2>3, <2>4, <2>5 DEF Traverse
<1>8. Follows(committed.acts, acts')
  BY <1>7, FollowsOn DEF LifeInv
<1> QED
  BY <1>4, <1>7, <1>8 DEF LifeInv

\* A transaction that opens.
LEMMA BeginLife ==
    ASSUME IInv, LifeInv, Idle, NEW owner, NEW entries, Begin(owner, entries),
           Follows(acts, acts'), inst'.status \in {"running", "completed"},
           Quiet(inst', acts')
    PROVE  LifeInv' /\ committed' = committed
<1>1. committed' = committed /\ committed.acts = acts
  BY IdleRows DEF Begin
<1> QED
  BY <1>1 DEF LifeInv

\* A transaction that writes and commits in one step.
LEMMA WritesLife ==
    ASSUME IInv, LifeInv, Idle, CommitWrites, Quiet(inst', acts')
    PROVE  LifeInv'
<1>1. /\ committed' = Rows(inst', acts') /\ tx' = tx /\ tx = "idle"
  BY DEF CommitWrites, Idle
<1>2. committed'.inst = inst' /\ committed'.acts = acts'
  BY <1>1 DEF Rows
<1>3. Follows(committed'.acts, acts')
  BY <1>2, FollowsItself
<1> QED
  BY <1>1, <1>2, <1>3 DEF LifeInv

\* Rolling back.
LEMMA RollBackLife == ASSUME LifeInv, RollBack PROVE LifeInv' /\ committed' = committed
<1>1. /\ tx' = "idle" /\ inst' = committed.inst /\ acts' = committed.acts
      /\ committed' = committed
  BY DEF RollBack
<1> QED
  BY <1>1, FollowsItself DEF LifeInv

\* cancelInstance and terminateScope, as seen from outside.
LEMMA CancelInstanceLife ==
    ASSUME NEW p \in Instance, NEW al \in Seq(Activity), cancelInstance(p, al)
    PROVE  /\ Follows(al, acts') /\ inst'.status = "cancelled" /\ ActiveActs(acts') = {}
BY CancelledRows, FollowsCancelled DEF cancelInstance, Instance

\* terminateScope completes the instance only when nothing is left open.
LEMMA TerminateScopeLife ==
    ASSUME NEW p \in Instance, NEW al \in Seq(Activity), NEW s, terminateScope(p, al, s),
           p.status = "running"
    PROVE  /\ Follows(al, acts') /\ inst'.status \in {"running", "completed"}
           /\ Quiet(inst', acts')
<1> DEFINE I  == InScope(al, s)
           p1 == [p EXCEPT !.active = removeString(@, {al[i].el : i \in I})]
           p2 == clearJoinStateInScope(p1, s)
<1>1. acts' = Cancelled(al, I) /\ inst' = tryCompleteProcess(p2, Cancelled(al, I))
  BY DEF terminateScope, ScopeLeft
<1>2. p1 \in Instance /\ p1.status = "running"
  BY DEF Instance, removeString
<1> HIDE DEF p1, I
<1>3. p2 \in Instance /\ p2.status = "running"
  BY <1>2 DEF clearJoinStateInScope, Instance
<1> HIDE DEF p2
<1>4. Quiet(p2, Cancelled(al, I))
  BY <1>3 DEF Quiet
<1> QED
  BY <1>1, <1>3, <1>4, TryCompleteLife, FollowsCancelled

\* What an open transaction may do to the final status of the committed row.
LEMMA TransactLife ==
    ASSUME Follows(committed.acts, committed'.acts),
           committed.inst.status \in {"absent", "pending", "running"},
           committed'.inst.status \in {"running", "completed", "cancelled"},
           committed'.inst.status # "running" => ActiveActs(committed'.acts) = {}
    PROVE  Lifecycle!Next
<1> DEFINE open   == ActiveActs(committed.acts)
           dom    == DOMAIN committed.acts
           open1  == ActiveActs(committed'.acts)
           dom1   == DOMAIN committed'.acts
           New    == (open1 \cup (dom1 \ open1)) \ (open \cup (dom \ open))
           next   == committed'.inst.status
<1>1. /\ open \subseteq dom /\ open1 \subseteq dom1 /\ dom \subseteq dom1
      /\ open1 \cap dom \subseteq open
  BY DEF Follows, ActiveActs
<1>2. /\ New \cap (open \cup (dom \ open)) = {}
      /\ open1 \subseteq open \cup New
      /\ dom1 \ open1 = (dom \ open) \cup ((open \cup New) \ open1)
  <2> HIDE DEF open, dom, open1, dom1
  <2> QED
    BY <1>1
<1>3. next \in {"completed", "cancelled"} => open1 = {}
  OBVIOUS
<1>4. Lifecycle!Transact(next, New)
  BY <1>2, <1>3 DEF Lifecycle!Transact, Lifecycle!Ended
<1>5. next \in {"running"} \cup Lifecycle!Ended
  BY DEF Lifecycle!Ended
<1> QED
  BY <1>4, <1>5 DEF Lifecycle!Next

\* Closing one activity for the traversal.
LEMMA CloseLife ==
    ASSUME IInv, NEW i \in DOMAIN acts, NEW outcome \in {"none", "approve", "reject"},
           acts' = Finished(acts, i, outcome), inst.status = "running",
           inst' = [inst EXCEPT !.active = removeString(@, {acts[i].el})]
    PROVE  Follows(acts, acts') /\ inst'.status = "running" /\ Quiet(inst', acts')
<1>1. acts \in Seq(Activity) /\ inst \in Instance
  BY DEF IInv, RowsOK
<1>2. inst'.status = "running"
  BY <1>1 DEF Instance
<1> QED
  BY <1>1, <1>2, FollowsFinished DEF Quiet

\* A synchronous start opens a transaction that nobody sees yet.
LEMMA StartLife ==
    ASSUME IInv, LifeInv, StartProcess
    PROVE  LifeInv' /\ committed' = committed
<1>1. PICK chosen \in StartChoices : Begin("request", StartEntries(chosen))
  BY DEF StartProcess
<1>2. Idle /\ acts' = acts /\ inst'.status = "running"
  BY DEF StartProcess, NoInstance
<1> QED
  BY <1>1, <1>2, BeginLife, FollowsItself DEF Quiet

\* The queued start is the Queue step of the lifecycle.
LEMMA StartAsyncLife ==
    ASSUME IInv, LifeInv, StartProcessAsync
    PROVE  LifeInv' /\ Lifecycle!Next
<1>1. /\ Idle /\ acts' = acts /\ inst.status = "absent" /\ inst'.status = "pending"
      /\ CommitWrites
  BY DEF StartProcessAsync, NoInstance
<1>2. LifeInv'
  BY <1>1, WritesLife DEF Quiet
<1>3. /\ committed.inst = inst /\ committed.acts = acts
      /\ committed'.inst = inst' /\ committed'.acts = acts'
  BY <1>1, IdleRows DEF CommitWrites, Rows
<1>4. Lifecycle!Queue
  BY <1>1, <1>3 DEF Lifecycle!Queue
<1> QED
  BY <1>2, <1>4 DEF Lifecycle!Next

\* A completed activity opens a transaction that nobody sees yet.
LEMMA ContinueLife ==
    ASSUME IInv, LifeInv, Running, NEW i \in DOMAIN acts,
           NEW outcome \in {"none", "approve", "reject"},
           NEW T, NEW sel, Continue(i, outcome, T, sel)
    PROVE  LifeInv' /\ committed' = committed
<1>1. Idle /\ inst.status = "running"
  BY DEF Running
<1>2. /\ acts' = Finished(acts, i, outcome)
      /\ inst' = [inst EXCEPT !.active = removeString(@, {acts[i].el})]
  BY DEF Continue
<1>3. PICK s \in InOrder(Routes(acts[i].el, T, sel)) : Begin("request", FlowEntries(s, NoFlow))
  BY DEF Continue
<1>4. Follows(acts, acts') /\ inst'.status = "running" /\ Quiet(inst', acts')
  BY <1>1, <1>2, CloseLife
<1> QED
  BY <1>1, <1>3, <1>4, BeginLife

\* The requests that commit at once.
LEMMA WritesStep ==
    ASSUME IInv, LifeInv, Running, CommitWrites, Follows(acts, acts'),
           inst'.status \in {"running", "completed", "cancelled"},
           inst'.status # "running" => ActiveActs(acts') = {}
    PROVE  LifeInv' /\ Lifecycle!Next
<1>1. Idle /\ inst.status = "running" /\ Quiet(inst', acts')
  BY DEF Running, Quiet
<1>2. /\ committed.inst = inst /\ committed.acts = acts
      /\ committed'.inst = inst' /\ committed'.acts = acts'
  BY <1>1, IdleRows DEF CommitWrites, Rows
<1>3. Lifecycle!Next
  BY <1>1, <1>2, TransactLife
<1> QED
  BY <1>1, <1>3, WritesLife

\* The queued approval closes its task in one visible transaction.
LEMMA ApproveAsyncLife ==
    ASSUME IInv, LifeInv, NEW i \in DOMAIN acts, ApproveTaskAsync(i)
    PROVE  LifeInv' /\ Lifecycle!Next
<1>1. /\ Running /\ CommitWrites /\ acts' = Finished(acts, i, "approve")
      /\ inst' = [inst EXCEPT !.active = removeString(@, {acts[i].el})]
  BY DEF ApproveTaskAsync
<1>2. Follows(acts, acts') /\ inst'.status = "running"
  BY <1>1, CloseLife DEF Running
<1> QED
  BY <1>1, <1>2, WritesStep

\* cancelInstance or terminateScope on rows the request has prepared.
LEMMA EndingLife ==
    ASSUME IInv, LifeInv, Running, CommitWrites,
           NEW p \in Instance, NEW al \in Seq(Activity), NEW s,
           p.status = "running", Follows(acts, al),
           cancelInstance(p, al) \/ terminateScope(p, al, s)
    PROVE  LifeInv' /\ Lifecycle!Next
<1>1. /\ Follows(al, acts') /\ inst'.status \in {"running", "completed", "cancelled"}
      /\ inst'.status # "running" => ActiveActs(acts') = {}
  <2>1. CASE cancelInstance(p, al)
    BY <2>1, CancelInstanceLife
  <2>2. CASE terminateScope(p, al, s)
    BY <2>2, TerminateScopeLife DEF Quiet
  <2> QED
    BY <2>1, <2>2
<1>2. Follows(acts, acts')
  BY <1>1, FollowsOn
<1> QED
  BY <1>1, <1>2, WritesStep

\* A terminating rejection ends the scope or the instance in one transaction.
LEMMA RejectTerminatingLife ==
    ASSUME IInv, LifeInv, NEW i \in DOMAIN acts, RejectTerminating(i)
    PROVE  LifeInv' /\ Lifecycle!Next
<1> DEFINE al == Finished(acts, i, "reject")
           p  == [inst EXCEPT !.active = removeString(@, {acts[i].el})]
<1>1. /\ Running /\ CommitWrites
      /\ cancelInstance(p, al) \/ terminateScope(p, al, acts[i].scope)
  BY DEF RejectTerminating
<1>2. RowsOK(p, al, irregular) /\ p.status = "running"
  BY <1>1, CloseOK DEF IInv, Running
<1>3. Follows(acts, al)
  BY FollowsFinished DEF IInv, RowsOK
<1> HIDE DEF al, p
<1>4. p \in Instance /\ al \in Seq(Activity)
  BY <1>2 DEF RowsOK
<1> QED
  BY <1>1, <1>2, <1>3, <1>4, EndingLife

\* A termination that comes to its end writes what one transaction would.
LEMMA TerminateLife ==
    ASSUME IInv, LifeInv, Terminate
    PROVE  LifeInv' /\ Lifecycle!Next
<1>1. /\ Running /\ CommitWrites
      /\ \E s : cancelInstance(inst, acts) \/ terminateScope(inst, acts, s)
  BY DEF Terminate
<1>2. inst \in Instance /\ acts \in Seq(Activity) /\ inst.status = "running"
  BY <1>1 DEF IInv, RowsOK, Running
<1> QED
  BY <1>1, <1>2, FollowsItself, EndingLife

\* A termination that stops between its writes closes activities and no more.
LEMMA TerminateCutShortLife ==
    ASSUME IInv, LifeInv, TerminateCutShort
    PROVE  LifeInv' /\ Lifecycle!Next
<1>1. Running /\ CommitWrites /\ inst'.status = "running" /\ acts \in Seq(Activity)
  BY CutShortRows DEF Running, IInv, RowsOK
<1>2. PICK I : acts' = Cancelled(acts, I)
  BY CutShortRows
<1>3. Follows(acts, acts')
  BY <1>1, <1>2, FollowsCancelled
<1> QED
  BY <1>1, <1>3, WritesStep

\* A returning rejection opens a transaction.
LEMMA RejectReturningLife ==
    ASSUME IInv, LifeInv, NEW i \in DOMAIN acts, RejectReturning(i)
    PROVE  LifeInv' /\ committed' = committed
<1> DEFINE al     == Finished(acts, i, "reject")
           peers  == BranchPeers(al, i)
           gone   == {acts[i].el} \cup {acts[j].el : j \in peers}
           p      == [inst EXCEPT !.active = removeString(@, gone)]
           entry  == <<ElementEntry(ReturnTarget(acts[i].el), acts[i].branch)>>
<1>1. /\ Idle /\ inst.status = "running"
      /\ acts' = Cancelled(al, peers)
      /\ inst' = clearJoinStateInScope(p, acts[i].scope)
      /\ Begin("request", entry)
  BY DEF RejectReturning, Running
<1>2. inst \in Instance /\ acts \in Seq(Activity)
  BY DEF IInv, RowsOK
<1>3. al \in Seq(Activity) /\ Follows(acts, al)
  BY <1>2, FinishedRows, FollowsFinished
<1> HIDE DEF al, peers, gone, entry
<1>4. Follows(acts, acts')
  BY <1>1, <1>3, FollowsCancelled, FollowsOn
<1>5. p \in Instance /\ p.status = "running"
  BY <1>1, <1>2 DEF Instance, removeString
<1> HIDE DEF p
<1>6. inst'.status = "running"
  BY <1>1, <1>5 DEF clearJoinStateInScope, Instance
<1> QED
  BY <1>1, <1>4, <1>6, BeginLife DEF Quiet

\* So does a boundary event that fires.
LEMMA FireBoundaryLife ==
    ASSUME IInv, LifeInv, NEW i \in DOMAIN acts, NEW b \in BoundaryEvents, FireBoundary(i, b)
    PROVE  LifeInv' /\ committed' = committed
<1> DEFINE host == acts[i]
           al   == IF b \in Interrupting THEN Cancelled(acts, {i}) ELSE acts
           fire == [el |-> b, status |-> "completed", outcome |-> "none",
                    scope |-> host.scope, branch |-> host.branch]
           p    == [inst EXCEPT !.fired = @ \cup {<<i, b>>},
                                !.active = IF b \in Interrupting
                                           THEN removeString(@, {host.el}) ELSE @]
<1>1. /\ Idle /\ inst.status = "running"
      /\ acts' = Append(al, fire)
      /\ inst' = IF OutgoingFlows(b) = {} THEN tryCompleteProcess(p, Append(al, fire)) ELSE p
  BY DEF FireBoundary, Running
<1>2. PICK s \in InOrder(OutgoingFlows(b)) : Begin("request", FlowEntries(s, host.branch))
  BY DEF FireBoundary
<1>3. inst \in Instance /\ acts \in Seq(Activity) /\ host \in Activity /\ i \in Nat
      /\ b \in Elements
  BY DEF IInv, RowsOK, BoundaryEvents
<1>4. fire \in Activity
  BY <1>3 DEF Activity
<1>5. al \in Seq(Activity) /\ Follows(acts, al)
  BY <1>3, CancelledRows, FollowsCancelled, FollowsItself
<1>6. p \in Instance /\ p.status = "running"
  <2>1. inst.fired \cup {<<i, b>>} \subseteq Nat \X Elements
    BY <1>3 DEF Instance
  <2> QED
    BY <1>1, <1>3, <2>1 DEF Instance, removeString
<1> HIDE DEF al, fire, p, host
<1>7. Follows(acts, acts')
  BY <1>1, <1>4, <1>5, FollowsAppend, FollowsOn
<1>8. inst'.status \in {"running", "completed"} /\ Quiet(inst', acts')
  <2>1. Quiet(p, Append(al, fire))
    BY <1>6 DEF Quiet
  <2> QED
    BY <1>1, <1>6, <2>1, TryCompleteLife
<1> QED
  BY <1>1, <1>2, <1>7, <1>8, BeginLife

\* The committed status of an instance that a transaction works on.
LEMMA OpenStatus ==
    ASSUME IInv, tx # "idle"
    PROVE  committed.inst.status \in {"absent", "pending", "running"}
<1>1. CASE tx = "request"
  BY <1>1 DEF IInv, TxOK
<1>2. CASE tx = "job"
  <2>1. worker.phase = "claimed" /\ worker.job \in DOMAIN jobs /\ jobs \in Seq(Job)
    BY <1>2 DEF IInv, TxOK, JobsOK
  <2>2. jobs[worker.job] \in Job
    BY <2>1
  <2>3. jobs[worker.job].type \in {"start", "continue"}
    BY <2>2 DEF Job
  <2>4. jobs[worker.job].type = "start" => committed.inst.status = "pending"
    BY <2>1 DEF IInv, JobsOK, Unrun
  <2> QED
    BY <1>2, <2>3, <2>4 DEF IInv, TxOK
<1> QED
  BY <1>1, <1>2 DEF IInv, TxOK

\* What a transaction did becomes visible at its commit, in one lifecycle step.
LEMMA CommitLife ==
    ASSUME IInv, LifeInv, Commit
    PROVE  LifeInv' /\ Lifecycle!Next
<1>1. /\ tx # "idle" /\ tx' = "idle" /\ committed' = Rows(inst, acts)
      /\ UNCHANGED <<inst, acts>>
  BY DEF Commit, Idle
<1>2. committed'.inst = inst /\ committed'.acts = acts
  BY <1>1 DEF Rows
<1>3. LifeInv'
  BY <1>1, <1>2, FollowsItself DEF LifeInv
<1>4. Lifecycle!Next
  BY <1>1, <1>2, OpenStatus, TransactLife DEF LifeInv, Quiet
<1> QED
  BY <1>3, <1>4

\* The worker claims, runs and finishes jobs without changing visible rows.
LEMMA WorkerLife ==
    ASSUME IInv, LifeInv, WorkerStep
    PROVE  LifeInv' /\ committed' = committed
<1>1. inst \in Instance
  BY DEF IInv, RowsOK
<1>2. CASE UNCHANGED <<inst, acts, tx, committed>>
  BY <1>2 DEF LifeInv
<1>3. CASE runStartJob
  <2>1. /\ Idle /\ acts' = acts /\ inst'.status = "running"
        /\ Begin("job", StartEntries(jobs[worker.job].el))
    BY <1>1, <1>3 DEF runStartJob, Instance
  <2> QED
    BY <2>1, BeginLife, FollowsItself DEF Quiet
<1>4. CASE runContinueJob /\ tx' # tx
  <2> DEFINE e == jobs[worker.job].el
  <2>1. /\ Idle /\ acts' = acts /\ inst.status = "running"
        /\ inst' = [inst EXCEPT !.active = removeString(@, {e})]
        /\ \E s \in InOrder(Routes(e, {}, NoFlow)) : Begin("job", FlowEntries(s, NoFlow))
    BY <1>4 DEF runContinueJob
  <2>2. inst'.status = "running"
    BY <1>1, <2>1 DEF Instance
  <2> HIDE DEF e
  <2> QED
    BY <2>1, <2>2, BeginLife, FollowsItself DEF Quiet
<1>5. CASE runContinueJob /\ tx' = tx
  <2>1. UNCHANGED <<inst, acts, tx, committed>>
    BY <1>5 DEF runContinueJob, Begin, Idle
  <2> QED
    BY <1>2, <2>1
<1> QED
  BY <1>2, <1>3, <1>4, <1>5 DEF WorkerStep, ClaimNextJob, FinishJob

\* Every step, under the condition of the theorem.
LEMMA NextLife ==
    ASSUME IInv, LifeInv, NothingToWaitFor, [Next]_vars
    PROVE  LifeInv' /\ (Lifecycle!Next \/ committed' = committed)
<1>1. CASE Request
  <2>1. CASE \E i \in DOMAIN acts : ApproveTask(i) \/ CompleteActivity(i)
    <3>1. PICK i \in DOMAIN acts : ApproveTask(i) \/ CompleteActivity(i)
      BY <2>1
    <3>2. Running /\ \E outcome \in {"none", "approve", "reject"} :
                      \E T, sel : Continue(i, outcome, T, sel)
      BY <3>1 DEF ApproveTask, CompleteActivity
    <3> QED
      BY <3>2, ContinueLife
  <2> QED
    BY <1>1, <2>1, StartLife, StartAsyncLife, ApproveAsyncLife, RejectTerminatingLife,
       RejectReturningLife, FireBoundaryLife, TerminateLife, TerminateCutShortLife
    DEF Request
<1>2. CASE Engine
  <2>1. CASE Traverse
    BY <2>1, TraverseLife DEF Traverse
  <2>2. CASE FailTraversal
    BY <2>2, RollBackLife DEF FailTraversal
  <2> QED
    BY <1>2, <2>1, <2>2, CommitLife DEF Engine
<1>3. CASE WorkerStep
  BY <1>3, WorkerLife
<1>4. CASE Crash
  BY <1>4, RollBackLife DEF Crash
<1>5. CASE UNCHANGED vars
  BY <1>5 DEF vars, LifeInv
<1> QED
  BY <1>1, <1>2, <1>3, <1>4, <1>5 DEF Next

\* What other connections read of an instance follows its lifecycle, whatever
\* the definition, the requests, the failures and the crashes: activities are
\* closed for good, final statuses are final and leave nothing open.  The
\* condition is needed: tryCompleteProcess looks at the activities of the
\* moment, so a branch that ends before its sibling has reached the first
\* userTask completes the instance under it (engine.go: tryCompleteProcess,
\* completeElement).
THEOREM FollowsLifecycle == Spec /\ []NothingToWaitFor => ImplementsLifecycle
<1> DEFINE seen == <<committed.inst.status, ActiveActs(committed.acts),
                     DOMAIN committed.acts \ ActiveActs(committed.acts)>>
<1>1. Init => Lifecycle!Init
  <2> SUFFICES ASSUME Init PROVE Lifecycle!Init
    OBVIOUS
  <2>1. committed.inst.status = "absent" /\ committed.acts = <<>>
    BY DEF Init, NoInstance
  <2> QED
    BY <2>1 DEF Lifecycle!Init, ActiveActs
<1>2. IInv /\ LifeInv /\ NothingToWaitFor /\ [Next]_vars => LifeInv' /\ [Lifecycle!Next]_seen
  <2> SUFFICES ASSUME IInv, LifeInv, NothingToWaitFor, [Next]_vars
               PROVE  LifeInv' /\ [Lifecycle!Next]_seen
    OBVIOUS
  <2>1. committed' = committed => seen' = seen
    BY DEF ActiveActs
  <2> QED
    BY <2>1, NextLife
<1>3. ImplementsLifecycle <=> Lifecycle!Init /\ [][Lifecycle!Next]_seen
  BY DEF ImplementsLifecycle, Lifecycle!Spec
<1> HIDE DEF seen
<1> QED
  BY <1>1, <1>2, <1>3, InitInv, NextInv, InitLife, PTL DEF Spec

-----------------------------------------------------------------------------
(* Instances that do not exist yet *)

\* An absent instance has no rows at all.
Fresh(p, al) == p.status = "absent" => p = NoInstance /\ al = <<>>
FreshInv == Fresh(inst, acts) /\ Fresh(committed.inst, committed.acts)

\* The empty database.
LEMMA InitFresh == Init => FreshInv
BY DEF Init, FreshInv, Fresh

\* A step that leaves a status behind.
LEMMA StepFresh ==
    ASSUME FreshInv, inst'.status # "absent",
           committed' = committed \/ committed' = Rows(inst', acts')
    PROVE  FreshInv'
BY DEF FreshInv, Fresh, Rows

\* Only an instance that was never written is absent.
LEMMA NextFresh ==
    ASSUME IInv, IInv', FreshInv, [Next]_vars
    PROVE  FreshInv'
<1>1. CASE tx' # "idle" /\ committed' = committed
  BY <1>1, StepFresh DEF IInv, TxOK
<1>2. CASE UNCHANGED <<inst, acts, committed>>
  BY <1>2 DEF FreshInv, Fresh
<1>3. CASE CommitWrites /\ inst'.status # "absent"
  BY <1>3, StepFresh DEF CommitWrites
<1>4. CASE RollBack
  BY <1>4 DEF RollBack, FreshInv, Fresh
<1>5. CASE Commit
  <2>1. inst'.status # "absent" /\ committed' = Rows(inst', acts')
    BY <1>5 DEF Commit, Idle, IInv, TxOK
  <2> QED
    BY <2>1, StepFresh
<1>6. \A owner \in {"request", "job"} : \A entries :
        Begin(owner, entries) => tx' # "idle" /\ committed' = committed
  BY DEF Begin
<1>7. CASE Request
  <2>1. RowsOK(inst, acts, irregular) /\ inst \in Instance
    BY DEF IInv, RowsOK
  <2>2. CASE StartProcessAsync
    BY <1>3, <2>2 DEF StartProcessAsync, NoInstance
  <2>3. CASE Terminate
    <3>1. CommitWrites /\ inst.status = "running"
          /\ (cancelInstance(inst, acts) \/ \E s : terminateScope(inst, acts, s))
      BY <2>3 DEF Terminate, Running
    <3> QED
      BY <1>3, <2>1, <3>1, CancelInstanceOK, TerminateScopeOK
  <2>4. ASSUME NEW i \in DOMAIN acts, RejectTerminating(i) PROVE FreshInv'
    <3> DEFINE al == Finished(acts, i, "reject")
               p  == [inst EXCEPT !.active = removeString(@, {acts[i].el})]
    <3>1. /\ inst.status = "running" /\ CommitWrites
          /\ cancelInstance(p, al) \/ terminateScope(p, al, acts[i].scope)
      BY <2>4 DEF RejectTerminating, Running
    <3>2. RowsOK(p, al, irregular) /\ p.status = "running"
      BY <2>1, <3>1, CloseOK
    <3> HIDE DEF al, p
    <3> QED
      BY <1>3, <3>1, <3>2, CancelInstanceOK, TerminateScopeOK
  <2>5. ASSUME NEW i \in DOMAIN acts, ApproveTaskAsync(i) PROVE FreshInv'
    <3>1. CommitWrites /\ inst'.status = "running"
      BY <2>1, <2>5 DEF ApproveTaskAsync, Running, Instance
    <3> QED
      BY <1>3, <3>1
  <2>6. ASSUME NEW i \in DOMAIN acts,
               ApproveTask(i) \/ CompleteActivity(i) \/ RejectReturning(i)
                 \/ \E b \in BoundaryEvents : FireBoundary(i, b)
        PROVE  FreshInv'
    BY <1>1, <1>6, <2>6 DEF ApproveTask, CompleteActivity, Continue, RejectReturning, FireBoundary
  <2>7. CASE StartProcess
    BY <1>1, <1>6, <2>7 DEF StartProcess
  <2>8. CASE TerminateCutShort
    BY <1>3, <2>8, CutShortRows
  <2> QED
    BY <1>7, <2>2, <2>3, <2>4, <2>5, <2>6, <2>7, <2>8 DEF Request
<1>8. CASE Engine
  BY <1>1, <1>4, <1>5, <1>8 DEF Engine, Traverse, FailTraversal, Idle
<1>9. CASE WorkerStep
  BY <1>1, <1>2, <1>6, <1>9 DEF WorkerStep, ClaimNextJob, runStartJob, runContinueJob, FinishJob
<1>10. CASE Crash
  BY <1>4, <1>10 DEF Crash
<1>11. CASE UNCHANGED vars
  BY <1>2, <1>11 DEF vars
<1> QED
  BY <1>7, <1>8, <1>9, <1>10, <1>11 DEF Next

-----------------------------------------------------------------------------
(* The waiting list is complete *)

\* No element holds two tokens: two open activities, or at rest an open one and
\* a queued continuation.
OneEach(al) == \A i, j \in ActiveActs(al) : al[i].el = al[j].el => i = j
OneTokenEach ==
    /\ OneEach(acts)
    /\ Idle => \A j \in DOMAIN jobs : Unrun(j) => jobs[j].el \notin WaitingAt(acts)

\* Every open activity is listed and belongs to an element that waits.
Listed(p, al) ==
    /\ WaitingAt(al) \subseteq p.active
    /\ \A i \in ActiveActs(al) : Waits(al[i].el)
ListInv == Listed(inst, acts) /\ Listed(committed.inst, committed.acts)

\* The empty database lists nothing and has nothing open.
LEMMA InitList == Init => ListInv
<1> SUFFICES ASSUME Init PROVE ListInv
  OBVIOUS
<1>1. acts = <<>> /\ committed.acts = <<>>
  BY DEF Init
<1>2. ActiveActs(<<>>) = {}
  BY DEF ActiveActs
<1> QED
  BY <1>1, <1>2 DEF ListInv, Listed, WaitingAt

\* bl is al with the activities of I closed.
Closes(al, bl, I) ==
    /\ DOMAIN bl = DOMAIN al
    /\ \A j \in DOMAIN al : bl[j].el = al[j].el
    /\ ActiveActs(bl) = ActiveActs(al) \ I

\* Open activities leave the list together with their elements.
LEMMA ClosesListed ==
    ASSUME NEW al, NEW bl, NEW I, NEW p, NEW q, Closes(al, bl, I), I \subseteq ActiveActs(al),
           OneEach(al), Listed(p, al), q.active = p.active \ {al[i].el : i \in I}
    PROVE  Listed(q, bl) /\ OneEach(bl)
<1>1. ActiveActs(bl) \subseteq DOMAIN al /\ ActiveActs(bl) \subseteq ActiveActs(al)
  BY DEF Closes, ActiveActs
<1>2. \A j \in ActiveActs(bl) : /\ bl[j].el = al[j].el /\ j \in ActiveActs(al) /\ j \notin I
  BY <1>1 DEF Closes
<1>3. OneEach(bl)
  BY <1>2 DEF OneEach
<1>4. \A j \in ActiveActs(bl) : bl[j].el \in p.active
  BY <1>2 DEF Listed, WaitingAt
<1>5. \A j \in ActiveActs(bl) : bl[j].el \notin {al[i].el : i \in I}
  BY <1>2 DEF OneEach
<1>6. \A j \in ActiveActs(bl) : Waits(bl[j].el)
  BY <1>2 DEF Listed
<1> QED
  BY <1>3, <1>4, <1>5, <1>6 DEF Listed, WaitingAt

\* Finished closes one activity.
LEMMA FinishedCloses ==
    ASSUME NEW al \in Seq(Activity), NEW i \in DOMAIN al,
           NEW outcome \in {"none", "approve", "reject"}
    PROVE  Closes(al, Finished(al, i, outcome), {i})
<1> DEFINE fs == Finished(al, i, outcome)
<1>1. /\ DOMAIN fs = DOMAIN al /\ ActiveActs(fs) = ActiveActs(al) \ {i}
      /\ \A j \in DOMAIN al : fs[j].el = al[j].el
  BY FinishedRows
<1> HIDE DEF fs
<1>2. Closes(al, fs, {i})
  BY <1>1 DEF Closes
<1> QED
  BY <1>2 DEF fs

\* Cancelled closes a set of activities.
LEMMA CancelledCloses ==
    ASSUME NEW al \in Seq(Activity), NEW I
    PROVE  Closes(al, Cancelled(al, I), I)
<1> DEFINE cs == Cancelled(al, I)
<1>1. /\ DOMAIN cs = DOMAIN al /\ ActiveActs(cs) = ActiveActs(al) \ I
      /\ \A j \in DOMAIN al : cs[j].el = al[j].el
  BY CancelledRows
<1> HIDE DEF cs
<1>2. Closes(al, cs, I)
  BY <1>1 DEF Closes
<1> QED
  BY <1>2 DEF cs

\* A new activity is listed when it is open.
LEMMA AppendListed ==
    ASSUME NEW al \in Seq(Activity), NEW a \in Activity, NEW p, Listed(p, al),
           a.status = "active" => a.el \in p.active /\ Waits(a.el)
    PROVE  Listed(p, Append(al, a))
<1> DEFINE ap == Append(al, a)
<1>1. /\ DOMAIN ap = DOMAIN al \cup {Len(al) + 1}
      /\ \A j \in DOMAIN al : ap[j] = al[j]
      /\ ap[Len(al) + 1] = a
  BY AppendedRow
<1> HIDE DEF ap
<1>2. \A j \in ActiveActs(ap) : ap[j].el \in p.active /\ Waits(ap[j].el)
  BY <1>1 DEF ActiveActs, Listed, WaitingAt
<1>3. Listed(p, ap)
  BY <1>2 DEF Listed, WaitingAt
<1> QED
  BY <1>3 DEF ap

\* The walk lists what it opens and takes only passing elements off the list.
LEMMA TraverseList ==
    ASSUME IInv, ListInv, Traverse
    PROVE  ListInv'
<1>1. /\ RowsOK(inst, acts, irregular) /\ inst \in Instance /\ acts \in Seq(Activity)
      /\ StackOK(stack) /\ stack # <<>> /\ scope \in ScopeIDs
  BY DEF IInv, Traverse, Idle, TxOK, RowsOK
<1>2. Top \in Entry
  BY <1>1, TailOK DEF Top
<1>3. Top.to \in Elements /\ Top.branch \in Branches
  BY <1>2 DEF Entry, Branches
<1>4. Entered \in Instance /\ Entered.active = inst.active
  <2>1. Entered \in Instance
    BY <1>1, EnteredOK DEF RowsOK
  <2>2. Entered.active = inst.active
    BY <1>1 DEF Entered, Instance
  <2> QED
    BY <2>1, <2>2
<1>5. Listed(inst, acts) /\ Listed(Entered, acts)
  BY <1>4 DEF ListInv, Listed
<1>6. Listed(inst', acts')
  <2>1. CASE HoldAtJoin
    <3>1. acts' = acts /\ inst'.active = inst.active
      BY <1>1, <2>1 DEF HoldAtJoin, Instance
    <3> QED
      BY <1>5, <3>1 DEF Listed
  <2>2. CASE EnterSubProcess
    BY <1>5, <2>2 DEF EnterSubProcess
  <2>3. CASE ReachEndEvent
    <3> DEFINE a  == NewActivity(Top.to, "completed", Top.branch)
    <3>1. a \in Activity /\ a.status = "completed"
      BY <1>1, <1>3, NewActivityType
    <3>2. acts' = Append(acts, a) /\ inst' = tryCompleteProcess(Entered, Append(acts, a))
      BY <2>3 DEF ReachEndEvent
    <3> HIDE DEF a
    <3>3. inst'.active = inst.active
      BY <1>4, <3>2 DEF tryCompleteProcess, Instance
    <3>4. Listed(inst, Append(acts, a))
      BY <1>1, <1>5, <3>1, AppendListed
    <3> QED
      BY <3>2, <3>3, <3>4 DEF Listed
  <2>4. CASE WaitAtElement
    <3> DEFINE a == NewActivity(Top.to, "active", Top.branch)
    <3>1. a \in Activity /\ a.el = Top.to
      BY <1>1, <1>3, NewActivityType
    <3>2. acts' = Append(acts, a) /\ inst'.active = inst.active \cup {Top.to} /\ Waits(Top.to)
      BY <1>4, <2>4 DEF WaitAtElement, Instance, appendUnique
    <3> HIDE DEF a
    <3>3. Listed(inst', acts)
      BY <1>5, <3>2 DEF Listed
    <3> QED
      BY <1>1, <3>1, <3>2, <3>3, AppendListed
  <2>5. CASE PassElement
    <3> DEFINE a == NewActivity(Top.to, "completed", Top.branch)
    <3>1. a \in Activity /\ a.status = "completed"
      BY <1>1, <1>3, NewActivityType
    <3>2. acts' = Append(acts, a) /\ inst'.active = inst.active \ {Top.to} /\ ~Waits(Top.to)
      BY <1>4, <2>5 DEF PassElement, Instance, removeString, PassesThrough
    <3> HIDE DEF a
    <3>3. Listed(inst', acts)
      BY <1>5, <3>2 DEF Listed, WaitingAt
    <3> QED
      BY <1>1, <3>1, <3>2, <3>3, AppendListed
  <2> QED
    BY <2>1, <2>2, <2>3, <2>4, <2>5 DEF Traverse
<1> QED
  BY <1>6 DEF Traverse, ListInv

\* Requests: what they leave behind is listed.
LEMMA RequestList ==
    ASSUME IInv, FreshInv, ListInv, OneTokenEach, Request
    PROVE  Listed(inst', acts')
<1>1. /\ RowsOK(inst, acts, irregular) /\ inst \in Instance /\ acts \in Seq(Activity)
      /\ Listed(inst, acts) /\ OneEach(acts)
  BY DEF IInv, RowsOK, ListInv, OneTokenEach
<1>2. CASE StartProcess \/ StartProcessAsync
  <2>1. acts' = acts /\ acts = <<>>
    BY <1>2 DEF StartProcess, StartProcessAsync, FreshInv, Fresh
  <2>2. ActiveActs(<<>>) = {}
    BY DEF ActiveActs
  <2> QED
    BY <2>1, <2>2 DEF Listed, WaitingAt
<1>3. ASSUME NEW i \in DOMAIN acts, NEW outcome \in {"none", "approve", "reject"},
             NEW al, NEW p, al = Finished(acts, i, outcome), acts[i].status = "active",
             p = [inst EXCEPT !.active = removeString(@, {acts[i].el})]
      PROVE  Listed(p, al) /\ OneEach(al) /\ p \in Instance /\ al \in Seq(Activity)
             /\ p.active = inst.active \ {acts[i].el}
             /\ Closes(acts, al, {i})
  <2>1. p \in Instance /\ p.active = inst.active \ {acts[i].el}
    BY <1>1, <1>3 DEF Instance, removeString
  <2>2. {acts[j].el : j \in {i}} = {acts[i].el} /\ {i} \subseteq ActiveActs(acts)
    BY <1>3 DEF ActiveActs
  <2>3. Closes(acts, al, {i}) /\ al \in Seq(Activity)
    BY <1>1, <1>3, FinishedCloses, FinishedRows
  <2>4. p.active = inst.active \ {acts[j].el : j \in {i}}
    BY <2>1, <2>2
  <2>5. Listed(p, al) /\ OneEach(al)
    <3> DEFINE I == {i}
    <3>1. /\ Closes(acts, al, I) /\ I \subseteq ActiveActs(acts)
          /\ p.active = inst.active \ {acts[j].el : j \in I}
      BY <2>2, <2>3, <2>4
    <3> HIDE DEF I
    <3> QED
      BY <1>1, <3>1, ClosesListed
  <2> QED
    BY <2>1, <2>3, <2>5
<1>4. ASSUME NEW i \in DOMAIN acts,
             ApproveTask(i) \/ ApproveTaskAsync(i) \/ CompleteActivity(i)
      PROVE  Listed(inst', acts')
  <2>1. /\ acts' = Finished(acts, i, "approve") \/ acts' = Finished(acts, i, "none")
        /\ inst' = [inst EXCEPT !.active = removeString(@, {acts[i].el})]
        /\ acts[i].status = "active"
    BY <1>4 DEF ApproveTask, ApproveTaskAsync, CompleteActivity, Continue, ActiveKind
  <2> QED
    BY <1>3, <2>1
<1>5. ASSUME NEW p \in Instance, NEW al \in Seq(Activity), Listed(p, al), OneEach(al),
             NEW s, cancelInstance(p, al) \/ terminateScope(p, al, s)
      PROVE  Listed(inst', acts')
  <2>1. CASE cancelInstance(p, al)
    <3>1. ActiveActs(acts') = {}
      BY <2>1, CancelledRows DEF cancelInstance
    <3> QED
      BY <3>1 DEF Listed, WaitingAt
  <2>2. CASE terminateScope(p, al, s)
    <3> DEFINE I  == InScope(al, s)
               p1 == [p EXCEPT !.active = removeString(@, {al[i].el : i \in I})]
               p2 == clearJoinStateInScope(p1, s)
    <3>1. acts' = Cancelled(al, I) /\ inst' = tryCompleteProcess(p2, Cancelled(al, I))
      BY <2>2 DEF terminateScope, ScopeLeft
    <3>2. I \subseteq ActiveActs(al)
      BY DEF InScope
    <3>3. p1 \in Instance /\ p1.active = p.active \ {al[i].el : i \in I}
      BY DEF Instance, removeString
    <3> HIDE DEF I, p1
    <3>4. p2 \in Instance /\ p2.active = p1.active
      BY <3>3 DEF clearJoinStateInScope, Instance
    <3> HIDE DEF p2
    <3>5. inst'.active = p2.active
      BY <3>1, <3>4 DEF tryCompleteProcess, Instance
    <3>6. Closes(al, acts', I)
      BY <3>1, CancelledCloses
    <3> QED
      BY <1>5, <3>2, <3>3, <3>4, <3>5, <3>6, ClosesListed
  <2> QED
    BY <1>5, <2>1, <2>2
<1>6. ASSUME NEW i \in DOMAIN acts, RejectTerminating(i) PROVE Listed(inst', acts')
  <2> DEFINE al == Finished(acts, i, "reject")
             p  == [inst EXCEPT !.active = removeString(@, {acts[i].el})]
  <2>1. /\ acts[i].status = "active"
        /\ cancelInstance(p, al) \/ terminateScope(p, al, acts[i].scope)
    BY <1>6 DEF RejectTerminating, ActiveKind
  <2>2. Listed(p, al) /\ OneEach(al) /\ p \in Instance /\ al \in Seq(Activity)
    BY <1>3, <2>1
  <2> HIDE DEF al, p
  <2> QED
    BY <1>5, <2>1, <2>2
<1>7. CASE Terminate
  BY <1>1, <1>5, <1>7 DEF Terminate
<1>8. ASSUME NEW i \in DOMAIN acts, RejectReturning(i) PROVE Listed(inst', acts')
  <2> DEFINE al    == Finished(acts, i, "reject")
             peers == BranchPeers(al, i)
             gone  == {acts[i].el} \cup {acts[j].el : j \in peers}
             p     == [inst EXCEPT !.active = removeString(@, gone)]
             p0    == [inst EXCEPT !.active = removeString(@, {acts[i].el})]
  <2>1. /\ acts[i].status = "active" /\ acts' = Cancelled(al, peers)
        /\ inst' = clearJoinStateInScope(p, acts[i].scope)
    BY <1>8 DEF RejectReturning, ActiveKind
  <2>2. /\ Listed(p0, al) /\ OneEach(al) /\ al \in Seq(Activity)
        /\ Closes(acts, al, {i}) /\ p0.active = inst.active \ {acts[i].el}
    BY <1>3, <2>1
  <2>3. peers \subseteq ActiveActs(al)
    BY DEF BranchPeers
  <2>4. p \in Instance /\ p.active = inst.active \ gone
    BY <1>1 DEF Instance, removeString
  <2> HIDE DEF al, peers, p, p0
  <2>5. {acts[j].el : j \in peers} = {al[j].el : j \in peers}
    BY <2>2, <2>3 DEF Closes, ActiveActs
  <2>6. p.active = p0.active \ {al[j].el : j \in peers}
    BY <2>2, <2>4, <2>5
  <2>7. Closes(al, acts', peers)
    BY <2>1, <2>2, CancelledCloses
  <2>8. inst'.active = p.active
    BY <2>1, <2>4 DEF clearJoinStateInScope, Instance
  <2> QED
    BY <2>2, <2>3, <2>6, <2>7, <2>8, ClosesListed
<1>9. ASSUME NEW i \in DOMAIN acts, NEW b \in BoundaryEvents, FireBoundary(i, b)
      PROVE  Listed(inst', acts')
  <2> DEFINE host == acts[i]
             al   == IF b \in Interrupting THEN Cancelled(acts, {i}) ELSE acts
             fire == [el |-> b, status |-> "completed", outcome |-> "none",
                      scope |-> host.scope, branch |-> host.branch]
             p    == [inst EXCEPT !.fired = @ \cup {<<i, b>>},
                                  !.active = IF b \in Interrupting
                                             THEN removeString(@, {host.el}) ELSE @]
  <2>1. /\ host.status = "active"
        /\ acts' = Append(al, fire)
        /\ inst' = IF OutgoingFlows(b) = {} THEN tryCompleteProcess(p, Append(al, fire)) ELSE p
    BY <1>9 DEF FireBoundary
  <2>2. host \in Activity /\ i \in Nat /\ b \in Elements
    BY <1>1 DEF BoundaryEvents
  <2>3. fire \in Activity /\ fire.status = "completed"
    BY <2>2 DEF Activity
  <2>4. /\ p \in Instance
        /\ p.active = IF b \in Interrupting THEN inst.active \ {host.el} ELSE inst.active
    <3>1. inst.fired \cup {<<i, b>>} \subseteq Nat \X Elements
      BY <1>1, <2>2 DEF Instance
    <3> QED
      BY <1>1, <3>1 DEF Instance, removeString
  <2> HIDE DEF p, fire
  <2>5. inst'.active = p.active
    BY <2>1, <2>4 DEF tryCompleteProcess, Instance
  <2>6. Listed(p, al) /\ al \in Seq(Activity)
    <3>1. CASE b \in Interrupting
      <4>1. Closes(acts, al, {i}) /\ al \in Seq(Activity)
        BY <1>1, <3>1, CancelledCloses, CancelledRows
      <4>2. {acts[j].el : j \in {i}} = {host.el} /\ {i} \subseteq ActiveActs(acts)
        BY <2>1 DEF ActiveActs
      <4> QED
        BY <1>1, <2>4, <3>1, <4>1, <4>2, ClosesListed
    <3>2. CASE b \notin Interrupting
      BY <1>1, <2>4, <3>2 DEF Listed
    <3> QED
      BY <3>1, <3>2
  <2> HIDE DEF al
  <2>7. Listed(p, acts')
    BY <2>1, <2>3, <2>6, AppendListed
  <2> QED
    BY <2>5, <2>7 DEF Listed
<1>10. CASE TerminateCutShort
  <2>1. CASE inst' = inst
    <3>1. PICK I : acts' = Cancelled(acts, I)
      BY <1>10, CutShortRows
    <3>2. Closes(acts, acts', I)
      BY <1>1, <3>1, CancelledCloses
    <3>3. \A j \in ActiveActs(acts') : j \in ActiveActs(acts) /\ acts'[j].el = acts[j].el
      BY <3>2 DEF Closes, ActiveActs
    <3> QED
      BY <1>1, <2>1, <3>3 DEF Listed, WaitingAt
  <2>2. CASE inst' # inst
    <3>1. PICK s : /\ inst' = ScopeLeft(inst, acts, s)
                   /\ acts' = Cancelled(acts, InScope(acts, s))
      BY <1>10, <2>2, CutShortRows
    <3> DEFINE I  == InScope(acts, s)
               p1 == [inst EXCEPT !.active = removeString(@, {acts[i].el : i \in I})]
    <3>2. inst' = clearJoinStateInScope(p1, s) /\ I \subseteq ActiveActs(acts)
      BY <3>1 DEF ScopeLeft, InScope
    <3>3. p1 \in Instance /\ p1.active = inst.active \ {acts[i].el : i \in I}
      BY <1>1 DEF Instance, removeString
    <3>4. Closes(acts, acts', I)
      BY <1>1, <3>1, CancelledCloses
    <3> HIDE DEF I, p1
    <3>5. inst'.active = p1.active
      BY <3>2, <3>3 DEF clearJoinStateInScope, Instance
    <3> QED
      BY <1>1, <3>2, <3>3, <3>4, <3>5, ClosesListed
  <2> QED
    BY <2>1, <2>2
<1> QED
  BY <1>2, <1>4, <1>6, <1>7, <1>8, <1>9, <1>10 DEF Request

\* Every step, as long as no element holds two tokens.
LEMMA NextList ==
    ASSUME IInv, FreshInv, ListInv, OneTokenEach, [Next]_vars
    PROVE  ListInv'
<1>1. CASE Request
  <2>1. committed' = committed \/ committed' = Rows(inst', acts')
    BY <1>1 DEF Request, StartProcess, StartProcessAsync, ApproveTask, ApproveTaskAsync,
       CompleteActivity, Continue, RejectTerminating, RejectReturning, FireBoundary, Terminate,
       TerminateCutShort, Begin, CommitWrites
  <2> QED
    BY <1>1, <2>1, RequestList DEF ListInv, Rows
<1>2. CASE Traverse
  BY <1>2, TraverseList
<1>3. CASE Commit
  BY <1>3 DEF Commit, ListInv, Rows
<1>4. CASE RollBack
  BY <1>4 DEF RollBack, ListInv
<1>5. CASE UNCHANGED <<inst, acts, committed>>
  BY <1>5 DEF ListInv
<1>6. CASE runStartJob
  <2>1. inst'.active = inst.active /\ UNCHANGED <<acts, committed>>
    BY <1>6 DEF runStartJob, Begin, IInv, RowsOK, Instance
  <2> QED
    BY <2>1 DEF ListInv, Listed
<1>7. CASE runContinueJob
  <2> DEFINE e == jobs[worker.job].el
  <2>1. CASE /\ inst' = [inst EXCEPT !.active = removeString(@, {e})]
             /\ \E entries : Begin("job", entries)
    <3>1. Idle /\ worker.phase = "claimed" /\ worker.job \in DOMAIN jobs
      BY <1>7 DEF runContinueJob, IInv, JobsOK
    <3>2. e \notin WaitingAt(acts)
      BY <3>1 DEF OneTokenEach, Unrun
    <3>3. inst'.active = inst.active \ {e} /\ UNCHANGED <<acts, committed>>
      BY <1>7, <2>1 DEF runContinueJob, Begin, IInv, RowsOK, Instance, removeString
    <3> HIDE DEF e
    <3> QED
      BY <3>2, <3>3 DEF ListInv, Listed
  <2> QED
    BY <1>5, <1>7, <2>1 DEF runContinueJob
<1> QED
  BY <1>1, <1>2, <1>3, <1>4, <1>5, <1>6, <1>7
  DEF Next, Engine, FailTraversal, WorkerStep, ClaimNextJob, FinishJob, Crash, vars

\* ActiveElements lists every open activity, between transactions and inside
\* them, as long as no element holds two tokens at once: the list knows each
\* element once, so closing the first activity would take the second one off
\* too (engine.go: appendUnique, removeString; boundary.go; reject.go).
THEOREM WaitingListIsComplete == Spec /\ []OneTokenEach => []WaitingListComplete
<1>1. ListInv => WaitingListComplete
  BY DEF ListInv, Listed, WaitingListComplete
<1>2. IInv /\ IInv' /\ FreshInv /\ [Next]_vars => FreshInv'
  BY NextFresh
<1>3. IInv /\ FreshInv /\ ListInv /\ OneTokenEach /\ [Next]_vars => ListInv'
  BY NextList
<1> QED
  BY <1>1, <1>2, <1>3, InitInv, NextInv, InitFresh, InitList, PTL DEF Spec

-----------------------------------------------------------------------------
(* Boundary events fire once on each visit *)

\* No flow, start, entryRef or return leads to a boundary event.
BoundariesOnlyFire ==
    /\ \A f \in Flows : Target(f) \notin BoundaryEvents
    /\ \A k \in DOMAIN StartEvents : StartEvents[k] \notin BoundaryEvents
    /\ \A e \in Elements : EntryRef(e) \notin BoundaryEvents /\ ReturnTarget(e) \notin BoundaryEvents

Visits(al, e) == {k \in DOMAIN al : al[k].el = e}
FiredOn(p, b) == {i \in Nat : <<i, b>> \in p.fired}

\* The firings of a boundary event are remembered under visits of its host, and
\* there are no more of its rows than firings remembered.
Counted(p, al) ==
    \A b \in BoundaryEvents :
        /\ FiredOn(p, b) \subseteq Visits(al, AttachedToRef(b))
        /\ Cardinality(Visits(al, b)) <= Cardinality(FiredOn(p, b))

StackAvoids(st) == \A k \in DOMAIN st : st[k].to \notin BoundaryEvents

FireInv ==
    /\ StackAvoids(stack)
    /\ \A j \in DOMAIN jobs : jobs[j].type = "start" => jobs[j].el \in StartChoices
    /\ Counted(inst, acts)
    /\ Counted(committed.inst, committed.acts)

\* No rows, no firings.
LEMMA EmptyCounted == Counted(NoInstance, <<>>)
<1>1. \A b : FiredOn(NoInstance, b) = {} /\ Visits(<<>>, b) = {}
  BY DEF FiredOn, NoInstance, Visits
<1>2. Cardinality({}) = 0
  BY FS_EmptySet
<1>3. \A b : Cardinality(Visits(<<>>, b)) = 0 /\ Cardinality(FiredOn(NoInstance, b)) = 0
  BY <1>1, <1>2, Zenon
<1>4. \A b : Cardinality(Visits(<<>>, b)) <= Cardinality(FiredOn(NoInstance, b))
  BY <1>3
<1> QED
  BY <1>1, <1>4, Zenon DEF Counted

\* The empty database remembers no firing.
LEMMA InitFire == Init => FireInv
BY EmptyCounted DEF Init, FireInv, StackAvoids

\* Rows of other elements do not disturb the count.
LEMMA CountedKeeps ==
    ASSUME NEW p, NEW q, NEW al, NEW bl, Counted(p, al), q.fired = p.fired,
           \A b \in BoundaryEvents : Visits(bl, b) = Visits(al, b),
           \A e : Visits(al, e) \subseteq Visits(bl, e)
    PROVE  Counted(q, bl)
BY DEF Counted, FiredOn

\* Closing activities leaves the count as it is.
LEMMA CountedCloses ==
    ASSUME NEW p, NEW q, NEW al, NEW bl, NEW I, Counted(p, al), q.fired = p.fired,
           Closes(al, bl, I)
    PROVE  Counted(q, bl)
<1>1. \A e : Visits(bl, e) = Visits(al, e)
  BY DEF Visits, Closes
<1> QED
  BY <1>1, CountedKeeps

\* So does a row of an element that is no boundary event.
LEMMA CountedAppend ==
    ASSUME NEW p, NEW q, NEW al \in Seq(Activity), NEW a \in Activity, Counted(p, al),
           q.fired = p.fired, a.el \notin BoundaryEvents
    PROVE  Counted(q, Append(al, a))
<1> DEFINE ap == Append(al, a)
<1>1. /\ DOMAIN ap = DOMAIN al \cup {Len(al) + 1}
      /\ \A j \in DOMAIN al : ap[j] = al[j]
      /\ ap[Len(al) + 1] = a
  BY AppendedRow
<1> HIDE DEF ap
<1>2. \A e : Visits(al, e) \subseteq Visits(ap, e)
  BY <1>1 DEF Visits
<1>3. \A b \in BoundaryEvents : Visits(ap, b) = Visits(al, b)
  BY <1>1 DEF Visits
<1>4. Counted(q, ap)
  BY <1>2, <1>3, CountedKeeps
<1> QED
  BY <1>4 DEF ap

\* A firing adds one row and one entry to what is remembered.
LEMMA CountedFire ==
    ASSUME NEW p \in Instance, NEW q, NEW al \in Seq(Activity), NEW a \in Activity,
           Counted(p, al), NEW b \in BoundaryEvents, NEW i \in DOMAIN al,
           al[i].el = AttachedToRef(b), <<i, b>> \notin p.fired,
           q.fired = p.fired \cup {<<i, b>>}, a.el = b
    PROVE  Counted(q, Append(al, a))
<1> DEFINE ap == Append(al, a)
           n  == Len(al) + 1
<1>1. /\ DOMAIN ap = DOMAIN al \cup {n} /\ n \notin DOMAIN al
      /\ \A j \in DOMAIN al : ap[j] = al[j]
      /\ ap[n] = a
  BY AppendedRow
<1>2. IsFiniteSet(DOMAIN al)
  BY FS_Interval
<1>3. i \in Nat /\ DOMAIN al \subseteq Nat
  OBVIOUS
<1> HIDE DEF ap, n
<1> SUFFICES ASSUME NEW c \in BoundaryEvents
             PROVE  /\ FiredOn(q, c) \subseteq Visits(ap, AttachedToRef(c))
                    /\ Cardinality(Visits(ap, c)) <= Cardinality(FiredOn(q, c))
  BY DEF Counted, ap
<1>4. /\ FiredOn(p, c) \subseteq Visits(al, AttachedToRef(c))
      /\ Cardinality(Visits(al, c)) <= Cardinality(FiredOn(p, c))
  BY DEF Counted
<1>5. Visits(al, AttachedToRef(c)) \subseteq Visits(ap, AttachedToRef(c))
  BY <1>1 DEF Visits
<1>6. IsFiniteSet(Visits(al, c)) /\ IsFiniteSet(FiredOn(p, c))
  <2>1. Visits(al, c) \subseteq DOMAIN al /\ FiredOn(p, c) \subseteq DOMAIN al
    BY <1>4 DEF Visits
  <2> QED
    BY <1>2, <2>1, FS_Subset
<1>7. CASE c = b
  <2>1. Visits(ap, c) = Visits(al, c) \cup {n} /\ n \notin Visits(al, c)
    BY <1>1, <1>7 DEF Visits
  <2>2. FiredOn(q, c) = FiredOn(p, c) \cup {i} /\ i \notin FiredOn(p, c)
    BY <1>3, <1>7 DEF FiredOn
  <2>3. i \in Visits(al, AttachedToRef(c))
    BY <1>7 DEF Visits
  <2>4. FiredOn(q, c) \subseteq Visits(ap, AttachedToRef(c))
    BY <1>4, <1>5, <2>2, <2>3
  <2>5. /\ Cardinality(Visits(ap, c)) = Cardinality(Visits(al, c)) + 1
        /\ Cardinality(FiredOn(q, c)) = Cardinality(FiredOn(p, c)) + 1
    BY <1>6, <2>1, <2>2, FS_AddElement
  <2>6. Cardinality(Visits(al, c)) \in Nat /\ Cardinality(FiredOn(p, c)) \in Nat
    BY <1>6, FS_CardinalityType
  <2> QED
    BY <1>4, <2>4, <2>5, <2>6
<1>8. CASE c # b
  <2>1. Visits(ap, c) = Visits(al, c)
    BY <1>1, <1>8 DEF Visits
  <2>2. FiredOn(q, c) = FiredOn(p, c)
    BY <1>8 DEF FiredOn
  <2> QED
    BY <1>4, <1>5, <2>1, <2>2
<1> QED
  BY <1>7, <1>8

\* Entries that come from flows, starts, entryRefs and returns.
LEMMA TailAvoids ==
    ASSUME NEW st, StackOK(st), st # <<>>, StackAvoids(st)
    PROVE  StackAvoids(Tail(st)) /\ Head(st).to \notin BoundaryEvents
<1>1. /\ \A k \in DOMAIN Tail(st) : k + 1 \in DOMAIN st /\ Tail(st)[k] = st[k+1]
      /\ 1 \in DOMAIN st /\ Head(st) = st[1]
  BY DEF StackOK
<1> QED
  BY <1>1 DEF StackAvoids

\* Putting entries in front.
LEMMA ConcatAvoids ==
    ASSUME NEW front, NEW st, StackOK(front), StackOK(st), StackAvoids(front), StackAvoids(st)
    PROVE  StackAvoids(front \o st)
<1>1. \A k \in DOMAIN (front \o st) :
        \/ k \in DOMAIN front /\ (front \o st)[k] = front[k]
        \/ k - Len(front) \in DOMAIN st /\ (front \o st)[k] = st[k - Len(front)]
  BY DEF StackOK
<1> QED
  BY <1>1 DEF StackAvoids

\* Entries made from flows.
LEMMA FlowsAvoid ==
    ASSUME BoundariesOnlyFire, NEW e, NEW S, S \subseteq OutgoingFlows(e),
           NEW s \in InOrder(S), NEW branch
    PROVE  StackAvoids(FlowEntries(s, branch))
<1>1. s \in Seq(Flows)
  BY InOrderType DEF OutgoingFlows
<1>2. \A k \in DOMAIN s : s[k] \in Flows
  BY <1>1
<1> QED
  BY <1>2 DEF FlowEntries, FlowEntry, StackAvoids, BoundariesOnlyFire

\* Entries made from start events.
LEMMA StartsAvoid ==
    ASSUME BoundariesOnlyFire, NEW chosen \in StartChoices
    PROVE  StackAvoids(StartEntries(chosen))
<1>1. CASE chosen # NoElement
  <2>1. chosen \notin BoundaryEvents
    BY <1>1 DEF StartChoices, BoundariesOnlyFire
  <2>2. StartEntries(chosen) = <<ElementEntry(chosen, NoFlow)>>
    BY <1>1 DEF StartEntries
  <2> QED
    BY <2>1, <2>2 DEF StackAvoids, ElementEntry
<1>2. CASE chosen = NoElement
  <2>1. StartEntries(chosen) = [k \in DOMAIN StartEvents |-> ElementEntry(StartEvents[k], NoFlow)]
    BY <1>2 DEF StartEntries
  <2> QED
    BY <2>1 DEF StackAvoids, ElementEntry, BoundariesOnlyFire
<1> QED
  BY <1>1, <1>2

\* The walk enters no boundary event.
LEMMA TraverseFire ==
    ASSUME BoundariesOnlyFire, IInv, FireInv, Traverse
    PROVE  StackAvoids(stack') /\ Counted(inst', acts')
<1>1. /\ RowsOK(inst, acts, irregular) /\ inst \in Instance /\ acts \in Seq(Activity)
      /\ StackOK(stack) /\ stack # <<>> /\ scope \in ScopeIDs
      /\ StackAvoids(stack) /\ Counted(inst, acts)
  BY DEF IInv, FireInv, Traverse, Idle, TxOK, RowsOK
<1>2. /\ Top \in Entry /\ Top.to \notin BoundaryEvents
      /\ StackOK(Tail(stack)) /\ StackAvoids(Tail(stack))
  BY <1>1, TailOK, TailAvoids DEF Top
<1>3. Top.to \in Elements /\ Top.branch \in Branches
  BY <1>2 DEF Entry, Branches
<1>4. Entered \in Instance /\ Entered.fired = inst.fired
  <2>1. Entered \in Instance
    BY <1>1, EnteredOK DEF RowsOK
  <2>2. Entered.fired = inst.fired
    BY <1>1 DEF Entered, Instance
  <2> QED
    BY <2>1, <2>2
<1>5. \A st \in {"active", "completed"} : \A q :
        q.fired = inst.fired => Counted(q, Append(acts, NewActivity(Top.to, st, Top.branch)))
  <2> SUFFICES ASSUME NEW st \in {"active", "completed"}, NEW q, q.fired = inst.fired
               PROVE  Counted(q, Append(acts, NewActivity(Top.to, st, Top.branch)))
    OBVIOUS
  <2> DEFINE a == NewActivity(Top.to, st, Top.branch)
  <2>1. a \in Activity /\ a.el \notin BoundaryEvents
    BY <1>1, <1>2, <1>3, NewActivityType
  <2> HIDE DEF a
  <2>2. Counted(q, Append(acts, a))
    BY <1>1, <2>1, CountedAppend
  <2> QED
    BY <2>2 DEF a
<1>6. CASE HoldAtJoin
  <2>1. acts' = acts /\ inst'.fired = inst.fired /\ stack' = Tail(stack)
    BY <1>1, <1>6 DEF HoldAtJoin, Instance
  <2> QED
    BY <1>1, <1>2, <2>1, CountedKeeps
<1>7. CASE EnterSubProcess
  <2> DEFINE front == <<ElementEntry(EntryRef(Top.to), Top.branch)>>
  <2>1. EntryRef(Top.to) # NoElement => StackOK(front) /\ StackAvoids(front)
    <3>1. EntryRef(Top.to) # NoElement => EntryRef(Top.to) \in Elements
      BY <1>3, DefinitionAssumption DEF DefinitionAssumption
    <3>2. EntryRef(Top.to) \notin BoundaryEvents
      BY <1>3 DEF BoundariesOnlyFire
    <3>3. StackAvoids(front)
      BY <3>2 DEF StackAvoids, ElementEntry
    <3> QED
      BY <1>3, <3>1, <3>3, ElementOK
  <2>2. UNCHANGED <<inst, acts>> /\ stack' \in {Tail(stack), front \o Tail(stack)}
        /\ (EntryRef(Top.to) = NoElement => stack' = Tail(stack))
    BY <1>7 DEF EnterSubProcess
  <2> HIDE DEF front
  <2> QED
    BY <1>1, <1>2, <2>1, <2>2, ConcatAvoids
<1>8. CASE ReachEndEvent
  <2> DEFINE al == Append(acts, NewActivity(Top.to, "completed", Top.branch))
  <2>1. acts' = al /\ inst' = tryCompleteProcess(Entered, al) /\ stack' = Tail(stack)
    BY <1>8 DEF ReachEndEvent
  <2>2. \A q : q.fired = inst.fired => Counted(q, al)
    BY <1>5
  <2> HIDE DEF al
  <2>3. inst'.fired = inst.fired
    BY <1>4, <2>1 DEF tryCompleteProcess, Instance
  <2> QED
    BY <1>2, <2>1, <2>2, <2>3
<1>9. CASE WaitAtElement
  <2>1. /\ acts' = Append(acts, NewActivity(Top.to, "active", Top.branch))
        /\ inst'.fired = inst.fired /\ stack' = Tail(stack)
    BY <1>4, <1>9 DEF WaitAtElement, Instance
  <2> QED
    BY <1>2, <1>5, <2>1
<1>10. CASE PassElement
  <2>1. /\ acts' = Append(acts, NewActivity(Top.to, "completed", Top.branch))
        /\ inst'.fired = inst.fired
    BY <1>4, <1>10 DEF PassElement, Instance
  <2>2. PICK T : \E s \in InOrder(Routes(Top.to, T, NoFlow)) :
                    stack' = FlowEntries(s, NoFlow) \o Tail(stack)
    BY <1>10 DEF PassElement
  <2>3. PICK s \in InOrder(Routes(Top.to, T, NoFlow)) :
               stack' = FlowEntries(s, NoFlow) \o Tail(stack)
    BY <2>2
  <2>4. StackOK(FlowEntries(s, NoFlow)) /\ StackAvoids(FlowEntries(s, NoFlow))
    BY RoutesType, RoutesOK, FlowsAvoid DEF Branches
  <2>5. StackAvoids(stack')
    BY <1>2, <2>3, <2>4, ConcatAvoids
  <2> QED
    BY <1>5, <2>1, <2>5
<1> QED
  BY <1>6, <1>7, <1>8, <1>9, <1>10 DEF Traverse

\* Of the requests only fireBoundaryEvent writes a row of a boundary event.
LEMMA RequestFire ==
    ASSUME BoundariesOnlyFire, IInv, FreshInv, FireInv, Request
    PROVE  StackAvoids(stack') /\ Counted(inst', acts')
<1>1. /\ inst \in Instance /\ acts \in Seq(Activity) /\ Counted(inst, acts)
      /\ RowsOK(inst, acts, irregular) /\ StackAvoids(stack)
  BY DEF IInv, RowsOK, FireInv
<1>2. CASE StartProcess
  <2>1. PICK chosen \in StartChoices : stack' = StartEntries(chosen)
    BY <1>2 DEF StartProcess, Begin
  <2>2. acts' = acts /\ inst = NoInstance /\ inst'.fired = inst.fired
    BY <1>2 DEF StartProcess, FreshInv, Fresh, NoInstance
  <2>3. Counted(inst', acts')
    BY <1>1, <2>2, CountedKeeps
  <2> QED
    BY <2>1, <2>3, StartsAvoid
<1>3. CASE StartProcessAsync
  <2>1. acts' = acts /\ inst = NoInstance /\ inst'.fired = inst.fired /\ stack' = stack
    BY <1>3 DEF StartProcessAsync, FreshInv, Fresh, NoInstance, CommitWrites
  <2> QED
    BY <1>1, <2>1, CountedKeeps
<1>4. ASSUME NEW i \in DOMAIN acts, NEW outcome \in {"none", "approve", "reject"},
             NEW p, p = [inst EXCEPT !.active = removeString(@, {acts[i].el})]
      PROVE  /\ Counted(p, Finished(acts, i, outcome)) /\ p \in Instance
             /\ Finished(acts, i, outcome) \in Seq(Activity)
  <2>1. p \in Instance /\ p.fired = inst.fired
    BY <1>1, <1>4 DEF Instance, removeString
  <2>2. /\ Closes(acts, Finished(acts, i, outcome), {i})
        /\ Finished(acts, i, outcome) \in Seq(Activity)
    BY <1>1, FinishedCloses, FinishedRows
  <2> QED
    BY <1>1, <2>1, <2>2, CountedCloses
<1>5. ASSUME NEW i \in DOMAIN acts, ApproveTask(i) \/ CompleteActivity(i)
      PROVE  StackAvoids(stack') /\ Counted(inst', acts')
  <2>0. PICK outcome \in {"none", "approve"} : \E T, sel : Continue(i, outcome, T, sel)
    BY <1>5 DEF ApproveTask, CompleteActivity
  <2>1. PICK T, sel : Continue(i, outcome, T, sel)
    BY <2>0
  <2>2. /\ acts' = Finished(acts, i, outcome)
        /\ inst' = [inst EXCEPT !.active = removeString(@, {acts[i].el})]
    BY <2>1 DEF Continue
  <2>3. PICK s \in InOrder(Routes(acts[i].el, T, sel)) : stack' = FlowEntries(s, NoFlow)
    BY <2>1 DEF Continue, Begin
  <2> QED
    BY <1>4, <2>2, <2>3, RoutesType, FlowsAvoid
<1>6. ASSUME NEW i \in DOMAIN acts, ApproveTaskAsync(i)
      PROVE  StackAvoids(stack') /\ Counted(inst', acts')
  <2>1. /\ acts' = Finished(acts, i, "approve") /\ stack' = stack
        /\ inst' = [inst EXCEPT !.active = removeString(@, {acts[i].el})]
    BY <1>6 DEF ApproveTaskAsync, CommitWrites
  <2> QED
    BY <1>1, <1>4, <2>1
<1>7. ASSUME NEW p \in Instance, NEW al \in Seq(Activity), Counted(p, al),
             NEW s, cancelInstance(p, al) \/ terminateScope(p, al, s)
      PROVE  Counted(inst', acts')
  <2>1. CASE cancelInstance(p, al)
    <3>1. inst'.fired = p.fired /\ acts' = Cancelled(al, ActiveActs(al))
      BY <2>1 DEF cancelInstance, Instance
    <3> QED
      BY <1>7, <3>1, CancelledCloses, CountedCloses
  <2>2. CASE terminateScope(p, al, s)
    <3> DEFINE I  == InScope(al, s)
               p1 == [p EXCEPT !.active = removeString(@, {al[i].el : i \in I})]
               p2 == clearJoinStateInScope(p1, s)
    <3>1. acts' = Cancelled(al, I) /\ inst' = tryCompleteProcess(p2, Cancelled(al, I))
      BY <2>2 DEF terminateScope, ScopeLeft
    <3>2. p1 \in Instance /\ p1.fired = p.fired
      BY DEF Instance, removeString
    <3> HIDE DEF I, p1
    <3>3. p2 \in Instance /\ p2.fired = p1.fired
      BY <3>2 DEF clearJoinStateInScope, Instance
    <3> HIDE DEF p2
    <3>4. inst'.fired = p.fired
      BY <3>1, <3>2, <3>3 DEF tryCompleteProcess, Instance
    <3> QED
      BY <1>7, <3>1, <3>4, CancelledCloses, CountedCloses
  <2> QED
    BY <1>7, <2>1, <2>2
<1>8. ASSUME NEW i \in DOMAIN acts, RejectTerminating(i)
      PROVE  StackAvoids(stack') /\ Counted(inst', acts')
  <2> DEFINE al == Finished(acts, i, "reject")
             p  == [inst EXCEPT !.active = removeString(@, {acts[i].el})]
  <2>1. /\ stack' = stack
        /\ cancelInstance(p, al) \/ terminateScope(p, al, acts[i].scope)
    BY <1>8 DEF RejectTerminating, CommitWrites
  <2>2. Counted(p, al) /\ p \in Instance /\ al \in Seq(Activity)
    BY <1>4
  <2> HIDE DEF al, p
  <2> QED
    BY <1>1, <1>7, <2>1, <2>2
<1>9. CASE Terminate
  <2>1. stack' = stack /\ \E s : cancelInstance(inst, acts) \/ terminateScope(inst, acts, s)
    BY <1>9 DEF Terminate, CommitWrites
  <2> QED
    BY <1>1, <1>7, <2>1
<1>10. ASSUME NEW i \in DOMAIN acts, RejectReturning(i)
       PROVE  StackAvoids(stack') /\ Counted(inst', acts')
  <2> DEFINE al     == Finished(acts, i, "reject")
             peers  == BranchPeers(al, i)
             gone   == {acts[i].el} \cup {acts[j].el : j \in peers}
             p      == [inst EXCEPT !.active = removeString(@, gone)]
             target == ReturnTarget(acts[i].el)
  <2>1. /\ acts' = Cancelled(al, peers)
        /\ inst' = clearJoinStateInScope(p, acts[i].scope)
        /\ stack' = <<ElementEntry(target, acts[i].branch)>>
    BY <1>10 DEF RejectReturning, Begin
  <2>2. Counted(inst, al) /\ al \in Seq(Activity)
    <3>1. al \in Seq(Activity) /\ Closes(acts, al, {i})
      BY <1>1, FinishedCloses, FinishedRows
    <3> QED
      BY <1>1, <3>1, CountedCloses
  <2>3. p \in Instance /\ p.fired = inst.fired
    BY <1>1 DEF Instance, removeString
  <2>4. target \notin BoundaryEvents
    <3>1. acts[i] \in Activity
      BY <1>1
    <3> QED
      BY <3>1 DEF Activity, BoundariesOnlyFire
  <2> HIDE DEF al, peers, p, target
  <2>5. inst'.fired = inst.fired
    BY <2>1, <2>3 DEF clearJoinStateInScope, Instance
  <2>6. Counted(inst', acts')
    BY <2>1, <2>2, <2>5, CancelledCloses, CountedCloses
  <2> QED
    BY <2>1, <2>4, <2>6 DEF StackAvoids, ElementEntry
<1>11. ASSUME NEW i \in DOMAIN acts, NEW b \in BoundaryEvents, FireBoundary(i, b)
       PROVE  StackAvoids(stack') /\ Counted(inst', acts')
  <2> DEFINE host == acts[i]
             al   == IF b \in Interrupting THEN Cancelled(acts, {i}) ELSE acts
             fire == [el |-> b, status |-> "completed", outcome |-> "none",
                      scope |-> host.scope, branch |-> host.branch]
             p    == [inst EXCEPT !.fired = @ \cup {<<i, b>>},
                                  !.active = IF b \in Interrupting
                                             THEN removeString(@, {host.el}) ELSE @]
  <2>1. /\ AttachedToRef(b) = host.el /\ <<i, b>> \notin inst.fired
        /\ acts' = Append(al, fire)
        /\ inst' = IF OutgoingFlows(b) = {} THEN tryCompleteProcess(p, Append(al, fire)) ELSE p
    BY <1>11 DEF FireBoundary, boundaryAlreadyFired
  <2>2. PICK s \in InOrder(OutgoingFlows(b)) : stack' = FlowEntries(s, host.branch)
    BY <1>11 DEF FireBoundary, Begin
  <2>3. host \in Activity /\ i \in Nat /\ b \in Elements
    BY <1>1 DEF BoundaryEvents
  <2>4. fire \in Activity /\ fire.el = b
    BY <2>3 DEF Activity
  <2>5. p \in Instance /\ p.fired = inst.fired \cup {<<i, b>>}
    <3>1. inst.fired \cup {<<i, b>>} \subseteq Nat \X Elements
      BY <1>1, <2>3 DEF Instance
    <3> QED
      BY <1>1, <3>1 DEF Instance, removeString
  <2>6. /\ Counted(inst, al) /\ al \in Seq(Activity)
        /\ i \in DOMAIN al /\ al[i].el = AttachedToRef(b)
    <3>1. CASE b \in Interrupting
      <4>1. Closes(acts, al, {i}) /\ al \in Seq(Activity)
        BY <1>1, <3>1, CancelledCloses, CancelledRows
      <4> QED
        BY <1>1, <2>1, <4>1, CountedCloses DEF Closes
    <3>2. CASE b \notin Interrupting
      BY <1>1, <2>1, <3>2
    <3> QED
      BY <3>1, <3>2
  <2> HIDE DEF p, fire, al
  <2>7. inst'.fired = inst.fired \cup {<<i, b>>}
    BY <2>1, <2>5 DEF tryCompleteProcess, Instance
  <2>8. Counted(inst', acts')
    BY <1>1, <2>1, <2>4, <2>6, <2>7, CountedFire
  <2> QED
    BY <2>2, <2>8, FlowsAvoid
<1>12. CASE TerminateCutShort
  <2>1. PICK I : acts' = Cancelled(acts, I)
    BY <1>12, CutShortRows
  <2>2. inst'.fired = inst.fired /\ stack' = stack
    BY <1>12, CutShortRows DEF CommitWrites
  <2> QED
    BY <1>1, <2>1, <2>2, CancelledCloses, CountedCloses
<1> QED
  BY <1>2, <1>3, <1>5, <1>6, <1>8, <1>9, <1>10, <1>11, <1>12 DEF Request

\* The jobs of start requests name start events.
LEMMA NextStartJobs ==
    ASSUME IInv, FireInv, [Next]_vars
    PROVE  \A j \in DOMAIN jobs' : jobs'[j].type = "start" => jobs'[j].el \in StartChoices
<1>1. jobs \in Seq(Job) /\ \A j \in DOMAIN jobs : jobs[j].type = "start" => jobs[j].el \in StartChoices
  BY DEF IInv, JobsOK, FireInv
<1>2. CASE jobs' = jobs
  BY <1>1, <1>2
<1>3. ASSUME NEW job \in Job, jobs' = Append(jobs, job),
             job.type = "start" => job.el \in StartChoices
      PROVE  \A j \in DOMAIN jobs' : jobs'[j].type = "start" => jobs'[j].el \in StartChoices
  <2>1. \A j \in DOMAIN jobs' : (j \in DOMAIN jobs /\ jobs'[j] = jobs[j]) \/ jobs'[j] = job
    BY <1>1, <1>3
  <2> QED
    BY <1>1, <1>3, <2>1
<1>4. ASSUME NEW w \in DOMAIN jobs, NEW st \in {"running", "done", "failed"},
             jobs' = [jobs EXCEPT ![w].status = st]
      PROVE  \A j \in DOMAIN jobs' : jobs'[j].type = "start" => jobs'[j].el \in StartChoices
  <2>1. JobBecomes(jobs, jobs', w, st)
    BY <1>4 DEF JobBecomes
  <2> QED
    BY <1>1, <2>1, JobRows
<1>5. CASE StartProcessAsync
  <2>1. PICK chosen \in StartChoices :
          jobs' = Append(jobs, [type |-> "start", el |-> chosen, status |-> "pending"])
    BY <1>5 DEF StartProcessAsync
  <2>2. [type |-> "start", el |-> chosen, status |-> "pending"] \in Job
    BY DefinitionAssumption DEF DefinitionAssumption, StartChoices, Job
  <2> QED
    BY <1>3, <2>1, <2>2
<1>6. ASSUME NEW i \in DOMAIN acts, ApproveTaskAsync(i)
      PROVE  \A j \in DOMAIN jobs' : jobs'[j].type = "start" => jobs'[j].el \in StartChoices
  <2>1. acts[i] \in Activity
    BY DEF IInv, RowsOK
  <2>2. [type |-> "continue", el |-> acts[i].el, status |-> "pending"] \in Job
    BY <2>1 DEF Activity, Job
  <2>3. jobs' = Append(jobs, [type |-> "continue", el |-> acts[i].el, status |-> "pending"])
    BY <1>6 DEF ApproveTaskAsync
  <2> QED
    BY <1>3, <2>2, <2>3
<1>7. CASE ClaimNextJob
  <2>1. PICK j \in First(PendingJobs) : jobs' = [jobs EXCEPT ![j].status = "running"]
    BY <1>7 DEF ClaimNextJob
  <2>2. j \in DOMAIN jobs
    BY DEF First, PendingJobs
  <2> QED
    BY <1>4, <2>1, <2>2
<1>8. CASE FinishJob
  <2>1. worker.job \in DOMAIN jobs
    BY <1>8 DEF FinishJob, IInv, JobsOK
  <2>2. \/ jobs' = [jobs EXCEPT ![worker.job].status = "done"]
        \/ jobs' = [jobs EXCEPT ![worker.job].status = "failed"]
    BY <1>8 DEF FinishJob
  <2> QED
    BY <1>4, <2>1, <2>2
<1>9. CASE Request
  BY <1>2, <1>5, <1>6, <1>9 DEF Request, StartProcess, ApproveTask, CompleteActivity,
     RejectTerminating, RejectReturning, FireBoundary, Terminate, TerminateCutShort
<1>10. CASE Engine
  BY <1>2, <1>10 DEF Engine, Traverse, Commit, FailTraversal, RollBack
<1>11. CASE WorkerStep
  BY <1>2, <1>7, <1>8, <1>11 DEF WorkerStep, runStartJob, runContinueJob
<1>12. CASE Crash
  BY <1>2, <1>12 DEF Crash, RollBack
<1>13. CASE UNCHANGED vars
  BY <1>2, <1>13 DEF vars
<1> QED
  BY <1>9, <1>10, <1>11, <1>12, <1>13 DEF Next

\* Every step.
LEMMA NextFire ==
    ASSUME BoundariesOnlyFire, IInv, FreshInv, FireInv, [Next]_vars
    PROVE  FireInv'
<1>1. /\ inst \in Instance /\ Counted(inst, acts) /\ Counted(committed.inst, committed.acts)
      /\ StackAvoids(stack)
  BY DEF IInv, RowsOK, FireInv
<1>2. StackAvoids(<<>>)
  BY DEF StackAvoids
<1>3. StackAvoids(stack') /\ Counted(inst', acts') /\ Counted(committed'.inst, committed'.acts)
  <2>1. CASE Request
    <3>1. committed' = committed \/ committed' = Rows(inst', acts')
      BY <2>1 DEF Request, StartProcess, StartProcessAsync, ApproveTask, ApproveTaskAsync,
         CompleteActivity, Continue, RejectTerminating, RejectReturning, FireBoundary, Terminate,
         TerminateCutShort, Begin, CommitWrites
    <3> QED
      BY <1>1, <2>1, <3>1, RequestFire DEF Rows
  <2>2. CASE Traverse
    BY <1>1, <2>2, TraverseFire DEF Traverse
  <2>3. CASE Commit
    BY <1>1, <2>3 DEF Commit, Rows
  <2>4. CASE RollBack
    BY <1>1, <1>2, <2>4 DEF RollBack
  <2>5. CASE UNCHANGED <<inst, acts, committed, stack>>
    BY <1>1, <2>5
  <2>6. CASE runStartJob
    <3>1. /\ inst'.fired = inst.fired /\ UNCHANGED <<acts, committed>>
          /\ stack' = StartEntries(jobs[worker.job].el)
      BY <1>1, <2>6 DEF runStartJob, Begin, Instance
    <3>2. jobs[worker.job].el \in StartChoices
      BY <2>6 DEF runStartJob, IInv, JobsOK, FireInv
    <3>3. Counted(inst', acts')
      BY <1>1, <3>1, CountedKeeps
    <3> QED
      BY <1>1, <3>1, <3>2, <3>3, StartsAvoid
  <2>7. CASE runContinueJob
    <3> DEFINE e == jobs[worker.job].el
    <3>1. CASE /\ inst' = [inst EXCEPT !.active = removeString(@, {e})]
               /\ \E s \in InOrder(Routes(e, {}, NoFlow)) : Begin("job", FlowEntries(s, NoFlow))
      <4>1. PICK s \in InOrder(Routes(e, {}, NoFlow)) : stack' = FlowEntries(s, NoFlow)
        BY <3>1 DEF Begin
      <4>2. inst'.fired = inst.fired /\ UNCHANGED <<acts, committed>>
        BY <1>1, <2>7, <3>1 DEF runContinueJob, Begin, Instance
      <4> HIDE DEF e
      <4>3. StackAvoids(stack')
        BY <4>1, RoutesType, FlowsAvoid
      <4>4. Counted(inst', acts')
        BY <1>1, <4>2, CountedKeeps
      <4> QED
        BY <1>1, <4>2, <4>3, <4>4
    <3> QED
      BY <2>5, <2>7, <3>1 DEF runContinueJob
  <2> QED
    BY <2>1, <2>2, <2>3, <2>4, <2>5, <2>6, <2>7
    DEF Next, Engine, FailTraversal, WorkerStep, ClaimNextJob, FinishJob, Crash, vars
<1> QED
  BY <1>3, NextStartJobs DEF FireInv

\* A boundary event leaves at most one row for each visit of its host, over
\* loops, returns, rollbacks and crashes, in every definition that enters its
\* boundary events by firing only; validation does not refuse a flow into one,
\* which would make it an ordinary waiting element (boundary.go:
\* fireBoundaryEvent, boundaryAlreadyFired).
THEOREM BoundaryEventsFireOnce ==
    ASSUME BoundariesOnlyFire
    PROVE  Spec => []BoundaryFiresOnce
<1>1. IInv /\ FireInv => BoundaryFiresOnce
  <2> SUFFICES ASSUME IInv, FireInv, NEW b \in BoundaryEvents
               PROVE  Cardinality(Visits(acts, b)) <= Cardinality(Visits(acts, AttachedToRef(b)))
    BY DEF BoundaryFiresOnce, Visits
  <2> DEFINE A == Visits(acts, b)
             B == FiredOn(inst, b)
             C == Visits(acts, AttachedToRef(b))
  <2>1. B \subseteq C /\ Cardinality(A) <= Cardinality(B)
    BY DEF FireInv, Counted
  <2>2. IsFiniteSet(DOMAIN acts)
    BY FS_Interval DEF IInv, RowsOK
  <2>3. A \subseteq DOMAIN acts /\ C \subseteq DOMAIN acts
    BY DEF Visits
  <2> HIDE DEF A, B, C
  <2>4. IsFiniteSet(A) /\ IsFiniteSet(B) /\ IsFiniteSet(C) /\ Cardinality(B) <= Cardinality(C)
    BY <2>1, <2>2, <2>3, FS_Subset
  <2>5. Cardinality(A) \in Nat /\ Cardinality(B) \in Nat /\ Cardinality(C) \in Nat
    BY <2>4, FS_CardinalityType
  <2>6. Cardinality(A) <= Cardinality(C)
    BY <2>1, <2>4, <2>5
  <2> QED
    BY <2>6 DEF A, C
<1>2. IInv /\ IInv' /\ FreshInv /\ [Next]_vars => FreshInv'
  BY NextFresh
<1>3. IInv /\ FreshInv /\ FireInv /\ [Next]_vars => FireInv'
  BY NextFire
<1> QED
  BY <1>1, <1>2, <1>3, InitInv, NextInv, InitFresh, InitFire, PTL DEF Spec

-----------------------------------------------------------------------------
(* Nothing is stranded *)

\* Every element hands its token on: it has an outgoing flow, opens a scope
\* that has an entry, or is an end event.
LeadsOn(e) ==
    \/ Kind(e) = "endEvent"
    \/ Kind(e) = "subProcess" /\ EntryRef(e) # NoElement
    \/ Kind(e) # "subProcess" /\ OutgoingFlows(e) # {}

NoDeadEnds == \A e \in Elements : LeadsOn(e)

\* The jobs that will still move the instance on, the one that the open
\* transaction runs excluded.
Outstanding == IF tx = "job" THEN PendingJobs ELSE Unfinished

\* A join that holds the token a walk ends with is not alone: something else
\* of the instance is open or queued, and may bring the missing flows.
JoinsKeepNoLastToken ==
    ~Idle /\ stack # <<>> /\ Held /\ Tail(stack) = <<>> /\ inst.status = "running"
      => ActiveActs(acts) # {} \/ Outstanding # {}

\* No job of a running instance fails; there is no retry.
ContinuationsSucceed == worker.phase = "erred" => inst.status # "running"

\* What keeps a running instance going: the walk under way, an open activity or
\* a job, in the rows of the transaction and in those a rollback returns to.
Alive == inst.status = "running" => stack # <<>> \/ ActiveActs(acts) # {} \/ Outstanding # {}
CommittedAlive ==
    committed.inst.status = "running" => ActiveActs(committed.acts) # {} \/ Unfinished # {}

AliveInv ==
    /\ Alive
    /\ CommittedAlive
    /\ worker.phase # "idle" => jobs[worker.job].status = "running"
    /\ ~Async => jobs = <<>> /\ worker.phase = "idle"
    /\ \A j \in DOMAIN jobs : jobs[j].type = "continue" => Kind(jobs[j].el) = "userTask"

\* No Terminate was cut short between its writes.
Uncut == ~CutShort(irregular)
AliveIfUncut == Uncut => AliveInv

\* What has been irregular stays so.
LEMMA IrregularGrows == ASSUME [Next]_vars PROVE irregular \subseteq irregular'
<1>1. CASE Request
  BY <1>1 DEF Request, StartProcess, StartProcessAsync, ApproveTask, ApproveTaskAsync,
     CompleteActivity, Continue, RejectTerminating, RejectReturning, FireBoundary, Terminate,
     TerminateCutShort, Begin
<1>2. CASE Engine \/ Crash
  BY <1>2 DEF Engine, Traverse, Commit, FailTraversal, Crash, RollBack
<1>3. CASE WorkerStep
  BY <1>3 DEF WorkerStep, ClaimNextJob, runStartJob, runContinueJob, FinishJob, Begin
<1> QED
  BY <1>1, <1>2, <1>3 DEF Next, vars

\* Nothing runs yet.
LEMMA InitAlive == Init => AliveInv
BY DEF Init, AliveInv, Alive, CommittedAlive, NoInstance, IdleWorker

\* Flows put in order are as many as there are.
LEMMA InOrderSome ==
    ASSUME NEW S, S \subseteq Flows, S # {}, NEW s \in InOrder(S), NEW branch
    PROVE  FlowEntries(s, branch) # <<>>
<1>1. IsFiniteSet(S)
  BY DefinitionAssumption, FS_Subset DEF DefinitionAssumption
<1>2. Cardinality(S) \in Nat /\ Cardinality(S) # 0
  BY <1>1, FS_CardinalityType, FS_EmptySet
<1>3. 1 \in DOMAIN s
  BY <1>2 DEF InOrder
<1>4. DOMAIN FlowEntries(s, branch) = DOMAIN s
  BY DEF FlowEntries
<1> QED
  BY <1>3, <1>4

\* An element that leads on and can be routed is left by some flow.
LEMMA RoutesSome ==
    ASSUME NEW e, OutgoingFlows(e) # {}, NEW T, NEW sel, ~NoRoute(e, T, sel),
           NEW s \in InOrder(Routes(e, T, sel)), NEW branch
    PROVE  FlowEntries(s, branch) # <<>>
<1>1. Routes(e, T, sel) # {} /\ Routes(e, T, sel) \subseteq Flows
  BY RoutesType DEF NoRoute, OutgoingFlows
<1> QED
  BY <1>1, InOrderSome

\* There is always something to start with.
LEMMA StartsSome ==
    ASSUME NEW chosen \in Elements \cup {NoElement}
    PROVE  StartEntries(chosen) # <<>>
<1>1. CASE chosen # NoElement
  BY <1>1 DEF StartEntries
<1>2. CASE chosen = NoElement
  <2>1. 1 \in DOMAIN StartEvents
    BY DefinitionAssumption DEF DefinitionAssumption
  <2>2. DOMAIN StartEntries(chosen) = DOMAIN StartEvents
    BY <1>2 DEF StartEntries
  <2> QED
    BY <2>1, <2>2
<1> QED
  BY <1>1, <1>2

\* Some entries in front of others are some entries.
LEMMA FrontSome ==
    ASSUME NEW front \in Seq(Entry), NEW st \in Seq(Entry), front # <<>>
    PROVE  front \o st # <<>>
OBVIOUS

\* tryCompleteProcess leaves an instance running only if something is open: the
\* waiting list names nothing else.
LEMMA TryCompleteAlive ==
    ASSUME NEW p, NEW al, RowsOK(p, al, irregular), Uncut,
           tryCompleteProcess(p, al).status = "running"
    PROVE  ActiveActs(al) # {}
BY DEF tryCompleteProcess, RowsOK, Instance, WaitingAt, Uncut

\* terminateScope does the same after it has cancelled.
LEMMA TerminateScopeAlive ==
    ASSUME NEW p, NEW al, NEW s, RowsOK(p, al, irregular), terminateScope(p, al, s),
           RowsOK(inst', acts', irregular'), Uncut', inst'.status = "running"
    PROVE  ActiveActs(acts') # {}
<1> DEFINE I  == InScope(al, s)
           p1 == [p EXCEPT !.active = removeString(@, {al[i].el : i \in I})]
           p2 == clearJoinStateInScope(p1, s)
<1>1. acts' = Cancelled(al, I) /\ inst' = tryCompleteProcess(p2, acts')
  BY DEF terminateScope, ScopeLeft
<1>2. p1 \in Instance
  BY DEF RowsOK, Instance, removeString
<1> HIDE DEF p1, I
<1>3. p2 \in Instance
  BY <1>2 DEF clearJoinStateInScope, Instance
<1> HIDE DEF p2
<1>4. CASE ActiveActs(acts') = {} /\ p2.active = {}
  <2>1. inst' = [p2 EXCEPT !.status = "completed"]
    BY <1>1, <1>4 DEF tryCompleteProcess
  <2> QED
    BY <1>3, <2>1 DEF Instance
<1>5. CASE p2.active # {}
  <2>1. inst' = p2
    BY <1>1, <1>5 DEF tryCompleteProcess
  <2> QED
    BY <1>5, <2>1 DEF RowsOK, WaitingAt, Uncut
<1> QED
  BY <1>4, <1>5

\* A step of the walk leaves something to do unless it completes the instance.
LEMMA TraverseAlive ==
    ASSUME NoDeadEnds, IInv, Uncut, AliveInv, JoinsKeepNoLastToken, Traverse
    PROVE  AliveInv'
<1>1. /\ RowsOK(inst, acts, irregular) /\ StackOK(stack) /\ stack # <<>> /\ scope \in ScopeIDs
      /\ tx # "idle"
  BY DEF IInv, Traverse, Idle, TxOK
<1>2. Top \in Entry /\ StackOK(Tail(stack))
  BY <1>1, TailOK DEF Top
<1>3. Top.to \in Elements /\ Top.branch \in Branches /\ Tail(stack) \in Seq(Entry)
  BY <1>2 DEF Entry, Branches, StackOK
<1>4. UNCHANGED <<jobs, tx, committed, worker>>
  BY DEF Traverse
<1>5. acts \in Seq(Activity) /\ RowsOK(Entered, acts, irregular) /\ Entered \in Instance
      /\ Entered.status = inst.status
  BY <1>1, EnteredOK DEF RowsOK
<1>6. Outstanding' = Outstanding /\ Unfinished' = Unfinished
  BY <1>4 DEF Outstanding, Unfinished, PendingJobs
<1>7. Alive'
  <2> SUFFICES ASSUME inst'.status = "running"
               PROVE  stack' # <<>> \/ ActiveActs(acts') # {} \/ Outstanding # {}
    BY <1>6 DEF Alive
  <2>1. CASE HoldAtJoin
    <3>1. /\ acts' = acts /\ inst'.status = inst.status /\ stack' = Tail(stack) /\ Held
      BY <1>1, <2>1 DEF HoldAtJoin, RowsOK, Instance
    <3> QED
      BY <1>1, <3>1 DEF JoinsKeepNoLastToken, Idle
  <2>2. CASE EnterSubProcess
    <3> DEFINE e == ElementEntry(EntryRef(Top.to), Top.branch)
    <3>1. EntryRef(Top.to) # NoElement
      BY <1>3, <2>2 DEF EnterSubProcess, NoDeadEnds, LeadsOn
    <3>2. EntryRef(Top.to) \in Elements
      BY <1>3, <3>1, DefinitionAssumption DEF DefinitionAssumption
    <3>3. e \in Entry
      BY <1>3, <3>2 DEF ElementEntry, Entry, Branches
    <3>4. stack' = <<e>> \o Tail(stack)
      BY <2>2, <3>1 DEF EnterSubProcess
    <3> HIDE DEF e
    <3> QED
      BY <1>3, <3>3, <3>4, FrontSome
  <2>3. CASE ReachEndEvent
    <3> DEFINE al == Append(acts, NewActivity(Top.to, "completed", Top.branch))
    <3>1. acts' = al /\ inst' = tryCompleteProcess(Entered, al)
      BY <2>3 DEF ReachEndEvent
    <3>2. RowsOK(Entered, al, irregular)
      <4>1. /\ NewActivity(Top.to, "completed", Top.branch) \in Activity
            /\ NewActivity(Top.to, "completed", Top.branch).status = "completed"
        BY <1>1, <1>3, NewActivityType
      <4> QED
        BY <1>5, <4>1, AppendRows DEF RowsOK
    <3> HIDE DEF al
    <3> QED
      BY <3>1, <3>2, TryCompleteAlive
  <2>4. CASE WaitAtElement
    <3> DEFINE a == NewActivity(Top.to, "active", Top.branch)
    <3>1. a \in Activity /\ a.status = "active"
      BY <1>1, <1>3, NewActivityType
    <3>2. acts' = Append(acts, a)
      BY <2>4 DEF WaitAtElement
    <3> HIDE DEF a
    <3>3. Len(acts) + 1 \in DOMAIN acts' /\ acts'[Len(acts) + 1] = a
      BY <1>5, <3>1, <3>2, AppendedRow
    <3> QED
      BY <3>1, <3>3 DEF ActiveActs
  <2>5. CASE PassElement
    <3>1. PICK T \in SUBSET (OutgoingFlows(Top.to) \cap Conditional) :
            /\ ~NoRoute(Top.to, T, NoFlow)
            /\ \E s \in InOrder(Routes(Top.to, T, NoFlow)) :
                 stack' = FlowEntries(s, NoFlow) \o Tail(stack)
      BY <2>5 DEF PassElement
    <3>2. PICK s \in InOrder(Routes(Top.to, T, NoFlow)) :
            stack' = FlowEntries(s, NoFlow) \o Tail(stack)
      BY <3>1
    <3>3. OutgoingFlows(Top.to) # {}
      BY <1>3, <2>5 DEF PassElement, PassesThrough, NoDeadEnds, LeadsOn
    <3>4. FlowEntries(s, NoFlow) # <<>>
      BY <3>1, <3>3, RoutesSome
    <3>5. FlowEntries(s, NoFlow) \in Seq(Entry)
      BY RoutesType, RoutesOK DEF StackOK, Branches
    <3> QED
      BY <1>3, <3>2, <3>4, <3>5, FrontSome
  <2> QED
    BY <2>1, <2>2, <2>3, <2>4, <2>5 DEF Traverse
<1> QED
  BY <1>4, <1>6, <1>7 DEF AliveInv, CommittedAlive

\* A transaction that opens with something to enter.
LEMMA BeginAlive ==
    ASSUME AliveInv, NEW owner, NEW entries, Begin(owner, entries), entries # <<>>,
           UNCHANGED <<jobs, worker>>
    PROVE  AliveInv'
<1>1. stack' # <<>> /\ committed' = committed
  BY DEF Begin
<1>2. Unfinished' = Unfinished
  BY DEF Unfinished
<1> QED
  BY <1>1, <1>2 DEF AliveInv, Alive, CommittedAlive

\* A transaction that writes at once and leaves something open, or the instance
\* ended.
LEMMA WritesAlive ==
    ASSUME AliveInv, Idle, CommitWrites, UNCHANGED jobs,
           inst'.status = "running" => ActiveActs(acts') # {}
    PROVE  AliveInv'
<1>1. committed'.inst = inst' /\ committed'.acts = acts' /\ worker' = worker
  BY DEF CommitWrites, Rows
<1> QED
  BY <1>1 DEF AliveInv, Alive, CommittedAlive

\* A request that queues a job: the instance waits for that job.
LEMMA QueueAlive ==
    ASSUME IInv, AliveInv, Idle, Async, CommitWrites, NEW job \in Job, job.status = "pending",
           jobs' = Append(jobs, job), job.type = "continue" => Kind(job.el) = "userTask"
    PROVE  AliveInv'
<1>1. /\ committed'.inst = inst' /\ worker' = worker /\ tx' = "idle"
  BY DEF CommitWrites, Rows, Idle
<1>2. jobs \in Seq(Job) /\ (worker.phase # "idle" => worker.job \in DOMAIN jobs)
  BY DEF IInv, JobsOK
<1>3. /\ Len(jobs) + 1 \in DOMAIN jobs' /\ jobs'[Len(jobs) + 1] = job
      /\ \A j \in DOMAIN jobs : jobs'[j] = jobs[j]
      /\ \A j \in DOMAIN jobs' : j \in DOMAIN jobs \/ jobs'[j] = job
  BY <1>2
<1>4. Unfinished' # {} /\ Outstanding' = Unfinished'
  BY <1>1, <1>3 DEF Unfinished, Outstanding
<1> QED
  BY <1>1, <1>2, <1>3, <1>4 DEF AliveInv, Alive, CommittedAlive

\* An activity completed and left: its element has a flow to go on with.
LEMMA ContinueAlive ==
    ASSUME NoDeadEnds, IInv, AliveInv, NEW i \in DOMAIN acts, NEW outcome, NEW T, NEW sel,
           Continue(i, outcome, T, sel), UNCHANGED <<jobs, worker>>,
           Kind(acts[i].el) \notin {"endEvent", "subProcess"}
    PROVE  AliveInv'
<1>1. acts[i] \in Activity
  BY DEF IInv, RowsOK
<1>2. OutgoingFlows(acts[i].el) # {}
  BY <1>1 DEF Activity, NoDeadEnds, LeadsOn
<1>3. /\ ~NoRoute(acts[i].el, T, sel)
      /\ \E s \in InOrder(Routes(acts[i].el, T, sel)) : Begin("request", FlowEntries(s, NoFlow))
  BY DEF Continue
<1>4. PICK s \in InOrder(Routes(acts[i].el, T, sel)) : Begin("request", FlowEntries(s, NoFlow))
  BY <1>3
<1>5. FlowEntries(s, NoFlow) # <<>>
  BY <1>2, <1>3, RoutesSome
<1> QED
  BY <1>4, <1>5, BeginAlive

\* A termination that leaves the instance running leaves something open.
LEMMA EndingAlive ==
    ASSUME IInv', Uncut', AliveInv, Idle, CommitWrites, UNCHANGED jobs, NEW p, NEW al, NEW s,
           RowsOK(p, al, irregular), cancelInstance(p, al) \/ terminateScope(p, al, s)
    PROVE  AliveInv'
<1>1. RowsOK(inst', acts', irregular')
  BY DEF IInv
<1>2. inst'.status = "running" => ActiveActs(acts') # {}
  <2>1. CASE cancelInstance(p, al)
    BY <2>1 DEF cancelInstance, RowsOK, Instance
  <2>2. CASE terminateScope(p, al, s)
    BY <1>1, <2>2, TerminateScopeAlive
  <2> QED
    BY <2>1, <2>2
<1> QED
  BY <1>2, WritesAlive

\* The requests.
LEMMA RequestAlive ==
    ASSUME NoDeadEnds, IInv, IInv', Uncut', AliveInv, Request
    PROVE  AliveInv'
<1>1. RowsOK(inst, acts, irregular) /\ acts \in Seq(Activity)
  BY DEF IInv, RowsOK
<1>2. CASE StartProcess
  <2>1. PICK chosen \in StartChoices : Begin("request", StartEntries(chosen))
    BY <1>2 DEF StartProcess
  <2>2. StartEntries(chosen) # <<>>
    BY StartsSome, DefinitionAssumption DEF DefinitionAssumption, StartChoices
  <2> QED
    BY <1>2, <2>1, <2>2, BeginAlive DEF StartProcess
<1>3. CASE StartProcessAsync
  <2>1. PICK chosen \in StartChoices :
          jobs' = Append(jobs, [type |-> "start", el |-> chosen, status |-> "pending"])
    BY <1>3 DEF StartProcessAsync
  <2>2. [type |-> "start", el |-> chosen, status |-> "pending"] \in Job
    BY DefinitionAssumption DEF DefinitionAssumption, StartChoices, Job
  <2> QED
    BY <1>3, <2>1, <2>2, QueueAlive DEF StartProcessAsync
<1>4. ASSUME NEW i \in DOMAIN acts, ApproveTask(i)
      PROVE  AliveInv'
  <2>1. Kind(acts[i].el) = "userTask" /\ Continue(i, "approve", {}, NoFlow)
        /\ UNCHANGED <<jobs, worker>>
    BY <1>4 DEF ApproveTask, ActiveKind
  <2> QED
    BY <2>1, ContinueAlive
<1>5. ASSUME NEW i \in DOMAIN acts, CompleteActivity(i)
      PROVE  AliveInv'
  <2>1. /\ Kind(acts[i].el) \notin {"endEvent", "subProcess"}
        /\ UNCHANGED <<jobs, worker>>
        /\ \E T, sel : Continue(i, "none", T, sel)
    BY <1>5 DEF CompleteActivity, ActiveKind, ExtensionKinds
  <2> QED
    BY <2>1, ContinueAlive
<1>6. ASSUME NEW i \in DOMAIN acts, ApproveTaskAsync(i)
      PROVE  AliveInv'
  <2>1. acts[i] \in Activity
    BY <1>1
  <2>2. [type |-> "continue", el |-> acts[i].el, status |-> "pending"] \in Job
    BY <2>1 DEF Activity, Job
  <2> QED
    BY <1>6, <2>2, QueueAlive DEF ApproveTaskAsync, Running, ActiveKind
<1>7. ASSUME NEW i \in DOMAIN acts, RejectTerminating(i)
      PROVE  AliveInv'
  <2> DEFINE al == Finished(acts, i, "reject")
             p  == [inst EXCEPT !.active = removeString(@, {acts[i].el})]
  <2>1. /\ Idle /\ CommitWrites /\ UNCHANGED jobs
        /\ cancelInstance(p, al) \/ terminateScope(p, al, acts[i].scope)
    BY <1>7 DEF RejectTerminating, Running
  <2>2. RowsOK(p, al, irregular)
    BY <1>1, <1>7, CloseOK DEF RejectTerminating, Running
  <2> HIDE DEF al, p
  <2> QED
    BY <2>1, <2>2, EndingAlive
<1>8. CASE Terminate
  <2>1. /\ Idle /\ CommitWrites /\ UNCHANGED jobs
        /\ \E s : cancelInstance(inst, acts) \/ terminateScope(inst, acts, s)
    BY <1>8 DEF Terminate, Running
  <2> QED
    BY <1>1, <2>1, EndingAlive
<1>9. ASSUME NEW i \in DOMAIN acts, RejectReturning(i)
      PROVE  AliveInv'
  <2>1. PICK entry : Begin("request", <<entry>>) /\ UNCHANGED <<jobs, worker>>
    BY <1>9 DEF RejectReturning
  <2> QED
    BY <2>1, BeginAlive
<1>10. ASSUME NEW i \in DOMAIN acts, NEW b \in BoundaryEvents, FireBoundary(i, b)
       PROVE  AliveInv'
  <2>1. PICK s \in InOrder(OutgoingFlows(b)) : Begin("request", FlowEntries(s, acts[i].branch))
    BY <1>10 DEF FireBoundary
  <2>2. OutgoingFlows(b) # {} /\ OutgoingFlows(b) \subseteq Flows
    BY DEF BoundaryEvents, NoDeadEnds, LeadsOn, OutgoingFlows
  <2>3. FlowEntries(s, acts[i].branch) # <<>>
    BY <2>2, InOrderSome
  <2>4. UNCHANGED <<jobs, worker>>
    BY <1>10 DEF FireBoundary
  <2> QED
    BY <2>1, <2>3, <2>4, BeginAlive
<1>11. ~TerminateCutShort
  BY CutShortRows DEF Uncut, CutShort
<1> QED
  BY <1>2, <1>3, <1>4, <1>5, <1>6, <1>7, <1>8, <1>9, <1>10, <1>11 DEF Request

\* A commit makes the rows of the walk the committed ones; the job that ran is
\* not counted any more.
LEMMA CommitAlive == ASSUME IInv, AliveInv, Commit PROVE AliveInv'
<1>1. /\ stack = <<>> /\ tx # "idle" /\ tx' = "idle" /\ UNCHANGED <<inst, acts, jobs, stack>>
      /\ committed'.inst = inst /\ committed'.acts = acts
      /\ worker' = IF tx = "job" THEN [worker EXCEPT !.phase = "ran"] ELSE worker
  BY DEF Commit, Rows, Idle, WorkerAfter
<1>2. worker \in Worker /\ (tx = "job" => worker.phase = "claimed")
  BY DEF IInv, JobsOK, TxOK
<1>3. Outstanding \subseteq Unfinished'
  BY <1>1 DEF Outstanding, PendingJobs, Unfinished
<1>4. Outstanding' = Unfinished'
  BY <1>1 DEF Outstanding
<1>5. inst.status = "running" => ActiveActs(acts) # {} \/ Unfinished' # {}
  BY <1>1, <1>3 DEF AliveInv, Alive
<1>6. worker'.job = worker.job /\ (worker'.phase # "idle" => worker.phase # "idle")
      /\ (worker.phase = "idle" => worker'.phase = "idle")
  BY <1>1, <1>2 DEF Worker
<1> QED
  BY <1>1, <1>4, <1>5, <1>6 DEF AliveInv, Alive, CommittedAlive

\* A rollback returns to rows that were alive, with the same jobs.
LEMMA RollBackAlive ==
    ASSUME AliveInv, RollBack,
           \/ worker' = worker
           \/ jobs = <<>> /\ worker' = IdleWorker
    PROVE  AliveInv'
<1>1. /\ tx' = "idle" /\ inst' = committed.inst /\ acts' = committed.acts
      /\ UNCHANGED <<jobs, committed>>
  BY DEF RollBack
<1>2. Unfinished \subseteq Unfinished' /\ Outstanding' = Unfinished'
  BY <1>1 DEF Unfinished, Outstanding
<1>3. worker' = worker \/ worker'.phase = "idle"
  BY DEF IdleWorker
<1> QED
  BY <1>1, <1>2, <1>3 DEF AliveInv, Alive, CommittedAlive

\* A walk that fails in a request leaves the jobs as they were; in a job it
\* fails the job, which then was not one of a running instance.
LEMMA FailAlive ==
    ASSUME IInv, AliveInv, FailTraversal, ContinuationsSucceed'
    PROVE  AliveInv'
<1>1. RollBack /\ tx # "idle"
  BY DEF FailTraversal, Idle
<1>2. CASE tx # "job"
  <2>1. worker' = worker
    BY <1>2 DEF FailTraversal, WorkerAfter
  <2> QED
    BY <1>1, <2>1, RollBackAlive
<1>3. CASE tx = "job"
  <2>1. worker' = [worker EXCEPT !.phase = "erred"] /\ worker \in Worker
        /\ worker.phase = "claimed"
    BY <1>3 DEF FailTraversal, WorkerAfter, IInv, JobsOK, TxOK
  <2>2. worker'.phase = "erred" /\ worker'.job = worker.job
    BY <2>1 DEF Worker
  <2>3. inst'.status # "running" /\ committed'.inst = inst' /\ jobs' = jobs
    BY <1>1, <2>2 DEF ContinuationsSucceed, RollBack
  <2> QED
    BY <2>1, <2>2, <2>3 DEF AliveInv, Alive, CommittedAlive
<1> QED
  BY <1>2, <1>3

\* The worker's steps: a job claimed still counts, a job finished no longer did.
LEMMA WorkerAlive ==
    ASSUME NoDeadEnds, IInv, AliveInv, WorkerStep, ContinuationsSucceed'
    PROVE  AliveInv'
<1>1. jobs \in Seq(Job) /\ worker \in Worker
      /\ (worker.phase # "idle" => worker.job \in DOMAIN jobs)
  BY DEF IInv, JobsOK
<1>2. CASE ClaimNextJob
  <2>1. PICK j \in First(PendingJobs) : /\ jobs' = [jobs EXCEPT ![j].status = "running"]
                                        /\ worker' = [job |-> j, phase |-> "claimed"]
    BY <1>2 DEF ClaimNextJob
  <2>2. j \in DOMAIN jobs /\ jobs # <<>>
    BY DEF First, PendingJobs
  <2>3. JobBecomes(jobs, jobs', j, "running")
    BY <2>1 DEF JobBecomes
  <2>4. /\ DOMAIN jobs' = DOMAIN jobs /\ jobs'[j].status = "running"
        /\ \A k \in DOMAIN jobs : jobs'[k].type = jobs[k].type /\ jobs'[k].el = jobs[k].el
    BY <1>1, <2>2, <2>3, JobRows
  <2>5. j \in Unfinished' /\ worker'.job = j /\ worker'.phase = "claimed"
    BY <2>1, <2>2, <2>4 DEF Unfinished
  <2>6. tx' = "idle" /\ UNCHANGED <<inst, acts, committed>>
    BY <1>2 DEF ClaimNextJob, Idle
  <2> QED
    BY <2>2, <2>4, <2>5, <2>6 DEF AliveInv, Alive, CommittedAlive, Outstanding
<1>3. CASE runStartJob
  <2>1. jobs[worker.job].el \in Elements \cup {NoElement}
    <3>1. jobs[worker.job] \in Job
      BY <1>1, <1>3 DEF runStartJob
    <3> QED
      BY <3>1 DEF Job
  <2> QED
    BY <1>3, <2>1, StartsSome, BeginAlive DEF runStartJob
<1>4. CASE runContinueJob
  <2> DEFINE e == jobs[worker.job].el
  <2>1. CASE /\ ~NoRoute(e, {}, NoFlow) /\ UNCHANGED <<jobs, worker>>
             /\ OutgoingFlows(e) # {}
             /\ \E s \in InOrder(Routes(e, {}, NoFlow)) : Begin("job", FlowEntries(s, NoFlow))
    <3>1. PICK s \in InOrder(Routes(e, {}, NoFlow)) : Begin("job", FlowEntries(s, NoFlow))
      BY <2>1
    <3>2. FlowEntries(s, NoFlow) # <<>>
      BY <2>1, RoutesSome
    <3> QED
      BY <2>1, <3>1, <3>2, BeginAlive
  <2>2. CASE /\ worker' = [worker EXCEPT !.phase = "erred"]
             /\ UNCHANGED <<inst, acts, jobs, committed, tx>>
    <3>1. worker'.phase = "erred" /\ worker'.job = worker.job /\ worker.phase = "claimed"
      BY <1>1, <1>4, <2>2 DEF Worker, runContinueJob
    <3>2. inst.status # "running" /\ committed.inst = inst
      BY <1>4, <2>2, <3>1, IdleRows DEF ContinuationsSucceed, runContinueJob
    <3> QED
      BY <2>2, <3>1, <3>2 DEF AliveInv, Alive, CommittedAlive
  <2>3. OutgoingFlows(e) # {}
    <3>1. e \in Elements /\ Kind(e) = "userTask"
      BY <1>1, <1>4 DEF runContinueJob, IInv, JobsOK, AliveInv
    <3> QED
      BY <3>1 DEF NoDeadEnds, LeadsOn
  <2> QED
    BY <1>4, <2>1, <2>2, <2>3 DEF runContinueJob
<1>5. CASE FinishJob
  <2>1. /\ worker.phase \in {"ran", "erred"} /\ worker'.phase = "idle"
        /\ UNCHANGED <<inst, acts, stack, tx, committed>> /\ tx = "idle"
    BY <1>5 DEF FinishJob, IdleWorker, Idle
  <2>2. PICK st \in {"running", "done", "failed"} :
          jobs' = [jobs EXCEPT ![worker.job].status = st]
    BY <1>5 DEF FinishJob
  <2>3. JobBecomes(jobs, jobs', worker.job, st)
    BY <2>2 DEF JobBecomes
  <2>4. /\ DOMAIN jobs' = DOMAIN jobs
        /\ \A k \in DOMAIN jobs : /\ jobs'[k].type = jobs[k].type /\ jobs'[k].el = jobs[k].el
                                  /\ k # worker.job => jobs'[k] = jobs[k]
    BY <1>1, <2>1, <2>3, JobRows
  <2>5. jobs[worker.job].status = "running" /\ jobs # <<>>
    BY <1>1, <2>1 DEF AliveInv
  <2>6. Unfinished \subseteq Unfinished'
    BY <2>1, <2>4, <2>5 DEF Unfinished
  <2>7. Outstanding = Unfinished /\ Outstanding' = Unfinished'
    BY <2>1 DEF Outstanding
  <2> QED
    BY <2>1, <2>4, <2>5, <2>6, <2>7 DEF AliveInv, Alive, CommittedAlive
<1> QED
  BY <1>2, <1>3, <1>4, <1>5 DEF WorkerStep

\* Every step but the one that cuts a Terminate short.
LEMMA NextAlive ==
    ASSUME NoDeadEnds, Async => ~Crashes, IInv, IInv', AliveIfUncut, Uncut',
           JoinsKeepNoLastToken, ContinuationsSucceed', [Next]_vars
    PROVE  AliveInv'
<1>0. Uncut /\ AliveInv
  BY IrregularGrows DEF Uncut, CutShort, AliveIfUncut
<1>1. CASE Request
  BY <1>0, <1>1, RequestAlive
<1>2. CASE Engine
  BY <1>0, <1>2, TraverseAlive, CommitAlive, FailAlive DEF Engine
<1>3. CASE WorkerStep
  BY <1>0, <1>3, WorkerAlive
<1>4. CASE Crash
  <2>1. RollBack /\ worker' = IdleWorker /\ jobs = <<>>
    BY <1>0, <1>4 DEF Crash, AliveInv
  <2> QED
    BY <1>0, <2>1, RollBackAlive
<1>5. CASE UNCHANGED vars
  <2>1. Unfinished' = Unfinished /\ Outstanding' = Outstanding
    BY <1>5 DEF vars, Unfinished, Outstanding, PendingJobs
  <2> QED
    BY <1>0, <1>5, <2>1 DEF vars, AliveInv, Alive, CommittedAlive
<1> QED
  BY <1>1, <1>2, <1>3, <1>4, <1>5 DEF Next

\* NoStrandedInstance also after a Terminate whose scopeId named no scope.
NotStranded == Idle /\ inst.status = "running" => ActiveActs(acts) # {} \/ Unfinished # {}
UncutNotStranded == Uncut => NotStranded

\* The property the runs check is the weaker one.
LEMMA UncutIsEnough == UncutNotStranded => NoStrandedInstance
BY DEF UncutNotStranded, NotStranded, Uncut, CutShort, NoStrandedInstance

\* A running instance at rest has an open activity or a job, through every
\* routing, rejection, termination of whatever scopeId, boundary event, rollback
\* and, if no job can be lost by it, crash.  The ways to lose the last token that
\* the code has are the hypotheses: an element without a way out, a join that holds
\* the last token for ever (reject.go leaves such joins behind, as the run stranded
\* shows), a job of a running instance that fails or is lost (worker.go does not
\* retry); and Uncut: Terminate writes row by row in no transaction (reject.go:125-224),
\* so a stop or an error between two of its writes leaves a running instance with
\* nothing open.
THEOREM NothingStranded ==
    ASSUME NoDeadEnds, Async => ~Crashes
    PROVE  Spec /\ [](JoinsKeepNoLastToken /\ ContinuationsSucceed)
             => []UncutNotStranded /\ []NoStrandedInstance
<1>1. IInv /\ AliveIfUncut => UncutNotStranded
  <2> SUFFICES ASSUME IInv, AliveInv, Idle, inst.status = "running"
               PROVE  ActiveActs(acts) # {} \/ Unfinished # {}
    BY DEF UncutNotStranded, NotStranded, AliveIfUncut
  <2>1. stack = <<>> /\ Outstanding = Unfinished
    BY IdleRows DEF Outstanding
  <2> QED
    BY <2>1 DEF AliveInv, Alive
<1>2. /\ IInv /\ IInv' /\ AliveIfUncut /\ [Next]_vars
      /\ JoinsKeepNoLastToken /\ ContinuationsSucceed'
      => AliveIfUncut'
  BY NextAlive DEF AliveIfUncut
<1>3. Init => AliveIfUncut
  BY InitAlive DEF AliveIfUncut
<1> QED
  BY <1>1, <1>2, <1>3, UncutIsEnough, InitInv, NextInv, PTL DEF Spec

NoJobs == jobs = <<>>

\* Without asynchronous execution there are no jobs.
LEMMA SyncNoJobs ==
    ASSUME ~Async, IInv, NoJobs, [Next]_vars
    PROVE  NoJobs'
<1> USE DEF NoJobs
<1>1. worker.phase = "idle" /\ PendingJobs = {}
  BY DEF IInv, JobsOK, PendingJobs
<1>2. ~ClaimNextJob /\ ~FinishJob /\ ~StartProcessAsync
  BY <1>1 DEF ClaimNextJob, FinishJob, StartProcessAsync, First
<1>3. CASE Request
  BY <1>2, <1>3 DEF Request, StartProcess, ApproveTask, ApproveTaskAsync, CompleteActivity,
     RejectTerminating, RejectReturning, FireBoundary, Terminate, TerminateCutShort
<1>4. CASE Engine \/ Crash
  BY <1>4 DEF Engine, Traverse, Commit, FailTraversal, Crash, RollBack
<1>5. CASE WorkerStep
  BY <1>2, <1>5 DEF WorkerStep, runStartJob, runContinueJob
<1> QED
  BY <1>3, <1>4, <1>5 DEF Next, vars

\* A definition without joins and dead ends, walked by the requests themselves,
\* never strands an instance, whatever it forks, loops, rejects, terminates or interrupts
\* and wherever the server stops, but between the writes of a Terminate (engine.go:
\* activateElement, completeElement, tryCompleteProcess; reject.go; boundary.go).
THEOREM JoinFreeNeverStranded ==
    ASSUME NoDeadEnds, ~Async, \A e \in Elements : ~IsJoinGateway(e)
    PROVE  Spec => []UncutNotStranded /\ []NoStrandedInstance
<1>1. IInv => JoinsKeepNoLastToken
  <2> SUFFICES ASSUME IInv, stack # <<>> PROVE ~Held
    BY DEF JoinsKeepNoLastToken
  <2>1. Top \in Entry
    BY TailOK DEF IInv, Top
  <2> QED
    BY <2>1 DEF Held, EntersJoin, Entry
<1>2. IInv /\ NoJobs => ContinuationsSucceed
  BY DEF IInv, JobsOK, ContinuationsSucceed, NoJobs
<1>3. Init => NoJobs
  BY DEF Init, NoJobs
<1>4. IInv /\ NoJobs /\ [Next]_vars => NoJobs'
  BY SyncNoJobs
<1>5. Spec => []IInv
  BY InitInv, NextInv, PTL DEF Spec
<1>6. Spec => []NoJobs
  BY <1>3, <1>4, <1>5, PTL DEF Spec
<1>7. Spec /\ [](JoinsKeepNoLastToken /\ ContinuationsSucceed)
        => []UncutNotStranded /\ []NoStrandedInstance
  BY NothingStranded
<1> QED
  BY <1>1, <1>2, <1>5, <1>6, <1>7, PTL

-----------------------------------------------------------------------------
(* Definitions with one token *)

\* Tokens never multiply: one start event, no gateway or boundary event with
\* several ways out, no boundary event beside its host's token; and there is no
\* join to hold the one token.  Choices, loops, scopes, returning and
\* terminating rejections and interrupting boundary events are allowed.
Sequential ==
    /\ Len(StartEvents) = 1
    /\ \A e \in Elements :
         /\ ~IsJoinGateway(e)
         /\ Kind(e) \in {"parallelGateway", "inclusiveGateway", "complexGateway", "boundaryEvent"}
              => Cardinality(OutgoingFlows(e)) <= 1
         /\ Kind(e) = "boundaryEvent" => e \in Interrupting \/ OutgoingFlows(e) = {}

\* No scope can be terminated while its continuation waits in the queue.
NoScopesAsync == Async => Scopes = {}

OneAtMost(S) == \A x, y \in S : x = y

\* The token is an open activity, a job or the entry of the walk.
OneToken(al, J, st) ==
    /\ OneAtMost(ActiveActs(al)) /\ OneAtMost(J) /\ OneAtMost(DOMAIN st)
    /\ ActiveActs(al) # {} => J = {} /\ st = <<>>
    /\ J # {} => st = <<>>
\* No token is left, but for a job that a Terminate of no scope overlooked.
NoToken(al, J, st, h) == ActiveActs(al) = {} /\ st = <<>> /\ (h = {} => J = {})
NoneHeld(p) == \A e \in Elements : p.joins[e] = {}

SeqInv ==
    /\ OneToken(acts, Outstanding, stack)
    /\ OneToken(committed.acts, Unfinished, <<>>)
    /\ inst.status = "completed" => NoToken(acts, Outstanding, stack, irregular)
    /\ committed.inst.status = "completed"
         => NoToken(committed.acts, Unfinished, <<>>, irregular)
    /\ NoneHeld(inst) /\ NoneHeld(committed.inst)
    /\ ~Async => jobs = <<>>

\* There is no token yet.
LEMMA InitSeq == Init => SeqInv
<1> SUFFICES ASSUME Init PROVE SeqInv
  OBVIOUS
<1>1. /\ ActiveActs(acts) = {} /\ ActiveActs(committed.acts) = {} /\ stack = <<>> /\ jobs = <<>>
      /\ NoneHeld(inst) /\ NoneHeld(committed.inst)
      /\ inst.status = "absent" /\ committed.inst.status = "absent"
  BY DEF Init, ActiveActs, NoneHeld, NoInstance
<1>2. Unfinished = {} /\ Outstanding = {}
  BY <1>1 DEF Unfinished, Outstanding, PendingJobs
<1> QED
  BY <1>1, <1>2 DEF SeqInv, OneToken, OneAtMost

\* Sets of at most one flow.
LEMMA OneFlow ==
    ASSUME NEW S, S \subseteq Flows
    PROVE  /\ Cardinality(S) <= 1 <=> OneAtMost(S)
           /\ OneAtMost(First(S)) /\ OneAtMost(Last(S))
<1>1. IsFiniteSet(S) /\ Flows \subseteq Nat
  BY DefinitionAssumption, FS_Subset DEF DefinitionAssumption
<1>2. Cardinality(S) \in Nat
  BY <1>1, FS_CardinalityType
<1>3. Cardinality(S) <= 1 => OneAtMost(S)
  <2> SUFFICES ASSUME Cardinality(S) <= 1 PROVE OneAtMost(S)
    OBVIOUS
  <2>1. Cardinality(S) = 0 \/ Cardinality(S) = 1
    BY <1>2
  <2>2. S = {} \/ \E x : S = {x}
    BY <1>1, <2>1, FS_EmptySet, FS_Singleton
  <2> QED
    BY <2>2 DEF OneAtMost
<1>4. OneAtMost(S) => Cardinality(S) <= 1
  <2> SUFFICES ASSUME OneAtMost(S) PROVE Cardinality(S) <= 1
    OBVIOUS
  <2>1. CASE S = {}
    BY <2>1, FS_EmptySet
  <2>2. CASE S # {}
    <3>1. PICK x : x \in S
      BY <2>2
    <3>2. S = {x}
      BY <3>1 DEF OneAtMost
    <3> QED
      BY <3>2, FS_Singleton
  <2> QED
    BY <2>1, <2>2
<1>5. OneAtMost(First(S)) /\ OneAtMost(Last(S))
  <2>1. \A x, y \in S : x <= y /\ y <= x => x = y
    BY <1>1
  <2> QED
    BY <2>1 DEF OneAtMost, First, Last
<1> QED
  BY <1>3, <1>4, <1>5

\* What is part of at most one is at most one.
LEMMA OnePart == ASSUME NEW S, NEW R, R \subseteq S, OneAtMost(S) PROVE OneAtMost(R)
BY DEF OneAtMost

\* In a sequential definition an element is left by one flow.
LEMMA RoutesOne ==
    ASSUME Sequential, NEW e \in Elements, NEW T, NEW sel
    PROVE  OneAtMost(Routes(e, T, sel))
<1> DEFINE out == OutgoingFlows(e)
<1>1. out \subseteq Flows
  BY DEF OutgoingFlows
<1>2. Cardinality(out) <= 1 => OneAtMost(out)
  BY <1>1, OneFlow
<1>3. ~IsJoinGateway(e)
  BY DEF Sequential
<1>4. CASE Kind(e) = "exclusiveGateway"
  <2>1. Routes(e, T, sel) = followExclusive(out, T)
    BY <1>4 DEF Routes
  <2>2. \A R : R \subseteq out => OneAtMost(First(R)) /\ OneAtMost(Last(R))
    BY <1>1, OneFlow
  <2> HIDE DEF out
  <2> QED
    BY <2>1, <2>2 DEF followExclusive
<1>5. CASE Kind(e) \in {"parallelGateway", "inclusiveGateway", "complexGateway", "boundaryEvent"}
  <2>1. OneAtMost(out)
    BY <1>2, <1>5 DEF Sequential
  <2> QED
    BY <2>1, RoutesType, OnePart
<1>6. CASE Kind(e) = "eventBasedGateway"
  <2>1. Routes(e, T, sel) = followEventBasedGateway(out, T, sel)
    BY <1>6 DEF Routes
  <2>2. \A R : R \subseteq out => OneAtMost(First(R))
    BY <1>1, OneFlow
  <2>3. Cardinality(out) = 1 => OneAtMost(out)
    BY <1>2
  <2>4. OneAtMost(out \cap {sel}) /\ OneAtMost({})
    BY DEF OneAtMost
  <2> HIDE DEF out
  <2> QED
    BY <2>1, <2>2, <2>3, <2>4 DEF followEventBasedGateway
<1>7. CASE Kind(e) \notin {"exclusiveGateway", "parallelGateway", "inclusiveGateway",
                           "complexGateway", "eventBasedGateway"}
  <2>1. Routes(e, T, sel) = IF Cardinality(out) > 1 THEN {} ELSE out
    BY <1>7 DEF Routes
  <2>2. IsFiniteSet(out)
    BY <1>1, DefinitionAssumption, FS_Subset DEF DefinitionAssumption
  <2>3. Cardinality(out) \in Nat
    BY <2>2, FS_CardinalityType
  <2> QED
    BY <1>2, <2>1, <2>3 DEF OneAtMost
<1> QED
  BY <1>4, <1>5, <1>6, <1>7

\* One flow is one entry.
LEMMA EntryOne ==
    ASSUME NEW S, S \subseteq Flows, OneAtMost(S), NEW s \in InOrder(S), NEW branch
    PROVE  OneAtMost(DOMAIN FlowEntries(s, branch)) /\ (S = {} => FlowEntries(s, branch) = <<>>)
<1>1. Cardinality(S) <= 1
  BY OneFlow
<1>2. Cardinality(S) \in Nat /\ (S = {} => Cardinality(S) = 0)
  BY DefinitionAssumption, FS_Subset, FS_CardinalityType, FS_EmptySet DEF DefinitionAssumption
<1>3. DOMAIN FlowEntries(s, branch) = 1..Cardinality(S)
  BY DEF FlowEntries, InOrder
<1>4. FlowEntries(s, branch) = [k \in DOMAIN s |-> FlowEntry(s[k], branch)]
  BY DEF FlowEntries
<1>5. S = {} => FlowEntries(s, branch) = <<>>
  BY <1>2, <1>3, <1>4
<1> QED
  BY <1>1, <1>2, <1>3, <1>5 DEF OneAtMost

LEMMA StartOne ==
    ASSUME Sequential, NEW chosen
    PROVE  OneAtMost(DOMAIN StartEntries(chosen))
<1>1. DOMAIN StartEvents = {1}
  BY DefinitionAssumption DEF DefinitionAssumption, Sequential
<1>2. DOMAIN StartEntries(chosen) = {1}
  BY <1>1 DEF StartEntries
<1> QED
  BY <1>2 DEF OneAtMost

\* Fewer jobs are no more tokens.
LEMMA FewerJobs ==
    ASSUME NEW al, NEW J, NEW K, NEW st, NEW h, K \subseteq J
    PROVE  /\ OneToken(al, J, st) => OneToken(al, K, st)
           /\ NoToken(al, J, st, h) => NoToken(al, K, st, h)
BY DEF OneToken, NoToken, OneAtMost

\* The last entry leaves nothing behind.
LEMMA LastEntry ==
    ASSUME NEW st \in Seq(Entry), st # <<>>, Len(st) = 1
    PROVE  Tail(st) = <<>>
<1> DEFINE t == Tail(st)
<1>1. t \in Seq(Entry) /\ Len(t) = 0
  OBVIOUS
<1> HIDE DEF t
<1>2. t = <<>>
  BY <1>1
<1> QED
  BY <1>2 DEF t

\* A step of the walk moves the token.
LEMMA TraverseSeq ==
    ASSUME Sequential, IInv, SeqInv, Traverse
    PROVE  SeqInv'
<1>1. /\ RowsOK(inst, acts, irregular) /\ StackOK(stack) /\ stack # <<>> /\ scope \in ScopeIDs
  BY DEF IInv, Traverse, TxOK
<1>2. Top \in Entry /\ stack \in Seq(Entry)
  BY <1>1, TailOK DEF Top, StackOK
<1>3. Top.to \in Elements /\ Top.branch \in Branches
  BY <1>2 DEF Entry, Branches
<1>4. UNCHANGED <<jobs, tx, committed, worker, irregular>>
  BY DEF Traverse
<1>5. /\ ActiveActs(acts) = {} /\ Outstanding = {} /\ NoneHeld(inst) /\ inst.status # "completed"
      /\ OneAtMost(DOMAIN stack) /\ acts \in Seq(Activity) /\ inst \in Instance
  BY <1>1 DEF SeqInv, OneToken, NoToken, RowsOK
<1>6. Tail(stack) = <<>>
  <2>1. 1 \in DOMAIN stack /\ DOMAIN stack = 1..Len(stack) /\ Len(stack) \in Nat
    BY <1>1, <1>2
  <2>2. Len(stack) = 1
    BY <2>1, <1>5 DEF OneAtMost
  <2> QED
    BY <1>1, <1>2, <2>2, LastEntry
<1>7. ~Held /\ Entered = inst
  BY <1>3 DEF Held, EntersJoin, Entered, Sequential
<1>8. Outstanding' = {} /\ Unfinished' = Unfinished
  BY <1>4, <1>5 DEF Outstanding, Unfinished, PendingJobs
<1>9. /\ OneToken(acts', {}, stack') /\ NoneHeld(inst')
      /\ inst'.status = "completed" => NoToken(acts', {}, stack', irregular)
  <2>1. CASE EnterSubProcess
    <3>1. inst' = inst /\ acts' = acts
      BY <2>1 DEF EnterSubProcess
    <3>2. OneAtMost(DOMAIN stack')
      <4> DEFINE e == ElementEntry(EntryRef(Top.to), Top.branch)
      <4>1. stack' = <<>> \/ stack' = <<e>> \o <<>>
        BY <1>6, <2>1 DEF EnterSubProcess
      <4> HIDE DEF e
      <4>2. DOMAIN stack' = {} \/ DOMAIN stack' = {1}
        BY <4>1
      <4> QED
        BY <4>2 DEF OneAtMost
    <3> QED
      BY <1>5, <3>1, <3>2 DEF OneToken, OneAtMost
  <2>2. CASE ReachEndEvent
    <3> DEFINE a  == NewActivity(Top.to, "completed", Top.branch)
               al == Append(acts, a)
    <3>1. a \in Activity /\ a.status = "completed"
      BY <1>1, <1>3, NewActivityType
    <3>2. acts' = al /\ inst' = tryCompleteProcess(inst, al) /\ stack' = <<>>
      BY <1>6, <1>7, <2>2 DEF ReachEndEvent
    <3> HIDE DEF a
    <3>3. ActiveActs(al) = {}
      BY <1>5, <3>1, AppendRows
    <3> HIDE DEF al
    <3>4. NoneHeld(inst')
      BY <1>5, <3>2 DEF tryCompleteProcess, NoneHeld, Instance
    <3> QED
      BY <3>2, <3>3, <3>4 DEF OneToken, NoToken, OneAtMost
  <2>3. CASE WaitAtElement
    <3> DEFINE a == NewActivity(Top.to, "active", Top.branch)
    <3>1. a \in Activity
      BY <1>1, <1>3, NewActivityType
    <3>2. acts' = Append(acts, a) /\ stack' = <<>>
      BY <1>6, <2>3 DEF WaitAtElement
    <3> HIDE DEF a
    <3>3. /\ DOMAIN acts' = DOMAIN acts \cup {Len(acts) + 1}
          /\ \A j \in DOMAIN acts : acts'[j] = acts[j]
      BY <1>5, <3>1, <3>2, AppendedRow
    <3>4. ActiveActs(acts') \subseteq {Len(acts) + 1}
      BY <1>5, <3>3 DEF ActiveActs
    <3>5. NoneHeld(inst') /\ inst'.status = inst.status
      BY <1>5, <1>7, <2>3 DEF WaitAtElement, NoneHeld, Instance
    <3> QED
      BY <1>5, <3>2, <3>4, <3>5 DEF OneToken, OneAtMost
  <2>4. CASE PassElement
    <3>1. PICK T \in SUBSET (OutgoingFlows(Top.to) \cap Conditional) :
            \E s \in InOrder(Routes(Top.to, T, NoFlow)) :
              stack' = FlowEntries(s, NoFlow) \o Tail(stack)
      BY <2>4 DEF PassElement
    <3>2. PICK s \in InOrder(Routes(Top.to, T, NoFlow)) :
            stack' = FlowEntries(s, NoFlow) \o <<>>
      BY <1>6, <3>1
    <3>3. Routes(Top.to, T, NoFlow) \subseteq Flows /\ OneAtMost(Routes(Top.to, T, NoFlow))
      BY <1>3, RoutesType, RoutesOne DEF OutgoingFlows
    <3>4. OneAtMost(DOMAIN FlowEntries(s, NoFlow)) /\ FlowEntries(s, NoFlow) \in Seq(Entry)
      BY <3>3, EntryOne, RoutesType, RoutesOK DEF StackOK, Branches
    <3>5. stack' = FlowEntries(s, NoFlow)
      BY <3>2, <3>4
    <3>6. ActiveActs(acts') = {}
      <4> DEFINE a == NewActivity(Top.to, "completed", Top.branch)
      <4>1. a \in Activity /\ a.status = "completed"
        BY <1>1, <1>3, NewActivityType
      <4>2. acts' = Append(acts, a)
        BY <2>4 DEF PassElement
      <4> HIDE DEF a
      <4> QED
        BY <1>5, <4>1, <4>2, AppendRows
    <3>7. NoneHeld(inst') /\ inst'.status = inst.status
      BY <1>5, <1>7, <2>4 DEF PassElement, NoneHeld, Instance
    <3> QED
      BY <1>5, <3>4, <3>5, <3>6, <3>7 DEF OneToken, OneAtMost
  <2> QED
    BY <1>7, <2>1, <2>2, <2>3, <2>4 DEF Traverse, HoldAtJoin
<1> QED
  BY <1>4, <1>8, <1>9 DEF SeqInv

\* A transaction that opens: its rows, its jobs and its entries.
LEMMA BeginSeq ==
    ASSUME SeqInv, NEW owner, NEW entries, Begin(owner, entries), UNCHANGED <<jobs, worker>>,
           NEW J, J = IF owner = "job" THEN PendingJobs ELSE Unfinished,
           OneToken(acts', J, entries), NoneHeld(inst'),
           inst'.status = "completed" => NoToken(acts', J, entries, irregular)
    PROVE  SeqInv'
<1>1. /\ stack' = entries /\ committed' = committed /\ tx' = owner
      /\ irregular' = irregular
  BY DEF Begin
<1>2. Unfinished' = Unfinished /\ PendingJobs' = PendingJobs
  BY DEF Unfinished, PendingJobs
<1>3. Outstanding' = J
  BY <1>1, <1>2 DEF Outstanding
<1> QED
  BY <1>1, <1>2, <1>3 DEF SeqInv

\* A transaction that writes and commits in one step.
LEMMA WritesSeq ==
    ASSUME IInv, SeqInv, Idle, CommitWrites, OneToken(acts', Unfinished', <<>>), NoneHeld(inst'),
           inst'.status = "completed" => NoToken(acts', Unfinished', <<>>, irregular'),
           ~Async => jobs' = <<>>
    PROVE  SeqInv'
<1>1. /\ committed'.inst = inst' /\ committed'.acts = acts' /\ tx' = "idle" /\ stack' = <<>>
  BY IdleRows DEF CommitWrites, Rows, Idle
<1>2. Outstanding' = Unfinished'
  BY <1>1 DEF Outstanding
<1> QED
  BY <1>1, <1>2 DEF SeqInv

\* Where a request finds an open activity, that is the token.
LEMMA TokenOpen ==
    ASSUME IInv, SeqInv, Idle, NEW i \in ActiveActs(acts)
    PROVE  ActiveActs(acts) = {i} /\ Unfinished = {} /\ NoneHeld(inst)
<1>1. Outstanding = Unfinished
  BY IdleRows DEF Outstanding
<1> QED
  BY <1>1 DEF SeqInv, OneToken, OneAtMost

\* An activity completed and left.
LEMMA ContinueSeq ==
    ASSUME Sequential, IInv, SeqInv, Running, NEW i \in ActiveActs(acts),
           NEW outcome \in {"none", "approve", "reject"},
           NEW T, NEW sel, Continue(i, outcome, T, sel), UNCHANGED <<jobs, worker>>
    PROVE  SeqInv'
<1>1. /\ Idle /\ inst.status = "running" /\ i \in DOMAIN acts /\ acts \in Seq(Activity)
      /\ inst \in Instance
  BY DEF Running, ActiveActs, IInv, RowsOK
<1>2. ActiveActs(acts) = {i} /\ Unfinished = {} /\ NoneHeld(inst)
  BY <1>1, TokenOpen
<1>3. acts[i] \in Activity
  BY <1>1
<1>4. acts[i].el \in Elements
  BY <1>3 DEF Activity
<1>5. PICK s \in InOrder(Routes(acts[i].el, T, sel)) : Begin("request", FlowEntries(s, NoFlow))
  BY DEF Continue
<1>6. OneAtMost(DOMAIN FlowEntries(s, NoFlow))
  <2>1. Routes(acts[i].el, T, sel) \subseteq Flows
    BY RoutesType DEF OutgoingFlows
  <2> QED
    BY <1>4, <2>1, RoutesOne, EntryOne
<1>7. acts' = Finished(acts, i, outcome) /\ inst' = [inst EXCEPT !.active = removeString(@, {acts[i].el})]
  BY DEF Continue
<1>8. ActiveActs(acts') = {}
  <2>1. ActiveActs(Finished(acts, i, outcome)) = ActiveActs(acts) \ {i}
    BY <1>1, FinishedRows
  <2> QED
    BY <1>2, <1>7, <2>1
<1>9. NoneHeld(inst') /\ inst'.status = "running"
  BY <1>1, <1>2, <1>7 DEF NoneHeld, Instance
<1>10. OneToken(acts', Unfinished, FlowEntries(s, NoFlow))
  BY <1>2, <1>6, <1>8 DEF OneToken, OneAtMost
<1> QED
  BY <1>5, <1>9, <1>10, BeginSeq

\* cancelInstance and terminateScope keep the joins empty and open nothing.
LEMMA EndingSeq ==
    ASSUME NEW p \in Instance, NEW al \in Seq(Activity), NoneHeld(p), NEW s,
           cancelInstance(p, al) \/ terminateScope(p, al, s), p.status = "running"
    PROVE  /\ NoneHeld(inst') /\ ActiveActs(acts') \subseteq ActiveActs(al)
           /\ inst'.status = "completed" => ActiveActs(acts') = {}
           /\ cancelInstance(p, al) => inst'.status # "completed" /\ ActiveActs(acts') = {}
<1>1. CASE cancelInstance(p, al)
  <2>1. NoneHeld(inst') /\ inst'.status = "cancelled"
    BY <1>1 DEF cancelInstance, NoneHeld, Instance
  <2>2. ActiveActs(acts') = {}
    BY <1>1, CancelledRows DEF cancelInstance
  <2> QED
    BY <2>1, <2>2
<1>2. CASE terminateScope(p, al, s) /\ ~cancelInstance(p, al)
  <2> DEFINE I  == InScope(al, s)
             p1 == [p EXCEPT !.active = removeString(@, {al[i].el : i \in I})]
             p2 == clearJoinStateInScope(p1, s)
  <2>1. acts' = Cancelled(al, I) /\ inst' = tryCompleteProcess(p2, acts')
    BY <1>2 DEF terminateScope, ScopeLeft
  <2>2. p1 \in Instance /\ NoneHeld(p1) /\ p1.status = "running"
    BY DEF Instance, removeString, NoneHeld
  <2> HIDE DEF p1, I
  <2>3. p2 \in Instance /\ NoneHeld(p2) /\ p2.status = "running"
    BY <2>2 DEF clearJoinStateInScope, Instance, NoneHeld
  <2> HIDE DEF p2
  <2>4. NoneHeld(inst') /\ (inst'.status = "completed" => ActiveActs(acts') = {})
    BY <2>1, <2>3 DEF tryCompleteProcess, NoneHeld, Instance
  <2>5. ActiveActs(acts') \subseteq ActiveActs(al)
    BY <2>1, CancelledRows
  <2> QED
    BY <1>2, <2>4, <2>5
<1> QED
  BY <1>1, <1>2

\* The requests move, end or keep the token; only a start makes one.
LEMMA RequestSeq ==
    ASSUME Sequential, NoScopesAsync, IInv, FreshInv, SeqInv, Request
    PROVE  SeqInv'
<1>1. acts \in Seq(Activity) /\ inst \in Instance /\ NoneHeld(inst) /\ RowsOK(inst, acts, irregular)
      /\ (~Async => jobs = <<>>) /\ jobs \in Seq(Job)
  BY DEF IInv, RowsOK, SeqInv, JobsOK
<1>2. ASSUME Idle, inst.status = "absent"
      PROVE  acts = <<>> /\ jobs = <<>> /\ ActiveActs(acts) = {} /\ Unfinished = {}
  <2>1. acts = <<>> /\ jobs = <<>>
    BY <1>2, IdleRows DEF IInv, JobsOK, FreshInv, Fresh
  <2> QED
    BY <2>1 DEF ActiveActs, Unfinished
<1>3. ASSUME NEW i \in DOMAIN acts, acts[i].status = "active", Running
      PROVE  /\ Idle /\ inst.status = "running" /\ i \in ActiveActs(acts)
             /\ ActiveActs(acts) = {i} /\ Unfinished = {} /\ acts[i] \in Activity
  <2>1. Idle /\ inst.status = "running" /\ i \in ActiveActs(acts) /\ acts[i] \in Activity
    BY <1>1, <1>3 DEF Running, ActiveActs
  <2> QED
    BY <2>1, TokenOpen
<1>4. CASE StartProcess
  <2>1. PICK chosen \in StartChoices : Begin("request", StartEntries(chosen))
    BY <1>4 DEF StartProcess
  <2>2. acts' = acts /\ NoneHeld(inst') /\ inst'.status = "running"
    BY <1>4 DEF StartProcess, NoInstance, NoneHeld
  <2>3. OneToken(acts', Unfinished, StartEntries(chosen))
    <3>1. ActiveActs(acts) = {} /\ Unfinished = {}
      BY <1>2, <1>4 DEF StartProcess
    <3> QED
      BY <2>2, <3>1, StartOne DEF OneToken, OneAtMost
  <2> QED
    BY <1>4, <2>1, <2>2, <2>3, BeginSeq DEF StartProcess
<1>5. CASE StartProcessAsync
  <2>1. PICK job : jobs' = Append(jobs, job)
    BY <1>5 DEF StartProcessAsync
  <2>2. /\ acts' = acts /\ NoneHeld(inst') /\ inst'.status = "pending" /\ Idle /\ Async
        /\ CommitWrites
    BY <1>5 DEF StartProcessAsync, NoInstance, NoneHeld
  <2>3. jobs = <<>> /\ ActiveActs(acts') = {}
    BY <1>2, <1>5, <2>2 DEF StartProcessAsync
  <2>4. Unfinished' \subseteq {1}
    BY <2>1, <2>3 DEF Unfinished
  <2>5. OneToken(acts', Unfinished', <<>>)
    BY <2>3, <2>4 DEF OneToken, OneAtMost
  <2> QED
    BY <2>2, <2>5, WritesSeq
<1>6. ASSUME NEW i \in DOMAIN acts, ApproveTask(i) \/ CompleteActivity(i)
      PROVE  SeqInv'
  <2>1. /\ Running /\ acts[i].status = "active" /\ UNCHANGED <<jobs, worker>>
        /\ \E outcome \in {"none", "approve"} : \E T, sel : Continue(i, outcome, T, sel)
    BY <1>6 DEF ApproveTask, CompleteActivity, ActiveKind
  <2>2. i \in ActiveActs(acts)
    BY <1>3, <2>1
  <2> QED
    BY <2>1, <2>2, ContinueSeq
<1>7. ASSUME NEW i \in DOMAIN acts, ApproveTaskAsync(i)
      PROVE  SeqInv'
  <2>1. /\ Running /\ acts[i].status = "active" /\ CommitWrites /\ Async
        /\ acts' = Finished(acts, i, "approve")
        /\ inst' = [inst EXCEPT !.active = removeString(@, {acts[i].el})]
    BY <1>7 DEF ApproveTaskAsync, ActiveKind
  <2>2. Idle /\ inst.status = "running" /\ ActiveActs(acts) = {i} /\ Unfinished = {}
    BY <1>3, <2>1
  <2>3. ActiveActs(Finished(acts, i, "approve")) = ActiveActs(acts) \ {i}
    BY <1>1, FinishedRows
  <2>4. NoneHeld(inst') /\ inst'.status = "running"
    BY <1>1, <2>1, <2>2 DEF NoneHeld, Instance
  <2>5. Unfinished' \subseteq {Len(jobs) + 1}
    <3>1. PICK job : jobs' = Append(jobs, job)
      BY <1>7 DEF ApproveTaskAsync
    <3>2. /\ DOMAIN jobs' = DOMAIN jobs \cup {Len(jobs) + 1} /\ worker' = worker
          /\ \A j \in DOMAIN jobs : jobs'[j] = jobs[j]
      BY <1>1, <2>1, <3>1 DEF CommitWrites
    <3> QED
      BY <2>2, <3>2 DEF Unfinished
  <2>6. OneToken(acts', Unfinished', <<>>)
    BY <2>1, <2>2, <2>3, <2>5 DEF OneToken, OneAtMost
  <2> QED
    BY <2>1, <2>2, <2>4, <2>6, WritesSeq
<1>8. ASSUME NEW i \in DOMAIN acts, RejectTerminating(i)
      PROVE  SeqInv'
  <2> DEFINE al == Finished(acts, i, "reject")
             p  == [inst EXCEPT !.active = removeString(@, {acts[i].el})]
  <2>1. /\ Running /\ acts[i].status = "active" /\ CommitWrites /\ jobs' = jobs
        /\ cancelInstance(p, al) \/ terminateScope(p, al, acts[i].scope)
    BY <1>8 DEF RejectTerminating, ActiveKind
  <2>2. Idle /\ inst.status = "running" /\ ActiveActs(acts) = {i} /\ Unfinished = {}
    BY <1>3, <2>1
  <2>3. p \in Instance /\ NoneHeld(p) /\ p.status = "running"
    BY <1>1, <2>2 DEF Instance, removeString, NoneHeld
  <2>4. al \in Seq(Activity) /\ ActiveActs(al) = {}
    BY <1>1, <2>2, FinishedRows
  <2> HIDE DEF al, p
  <2>5. NoneHeld(inst') /\ ActiveActs(acts') = {}
    BY <2>1, <2>3, <2>4, EndingSeq
  <2>6. Unfinished' = {}
    BY <2>1, <2>2 DEF Unfinished, CommitWrites
  <2>7. OneToken(acts', Unfinished', <<>>) /\ NoToken(acts', Unfinished', <<>>, irregular')
    BY <2>5, <2>6 DEF OneToken, NoToken, OneAtMost
  <2> QED
    BY <1>1, <2>1, <2>2, <2>5, <2>7, WritesSeq
<1>9. CASE Terminate
  <2>1. /\ Idle /\ inst.status = "running" /\ CommitWrites /\ jobs' = jobs
        /\ \/ cancelInstance(inst, acts)
           \/ \E s \in Scopes : terminateScope(inst, acts, s)
           \/ irregular' # {} /\ \E s : terminateScope(inst, acts, s)
    BY <1>9 DEF Terminate, Running
  <2>2. Unfinished' = Unfinished /\ Outstanding = Unfinished
    BY <2>1, IdleRows DEF Unfinished, CommitWrites, Outstanding
  <2>3. /\ NoneHeld(inst') /\ ActiveActs(acts') \subseteq ActiveActs(acts)
        /\ inst'.status = "completed" => ActiveActs(acts') = {}
        /\ cancelInstance(inst, acts) => inst'.status # "completed"
    BY <1>1, <2>1, EndingSeq
  <2>4. OneToken(acts', Unfinished', <<>>)
    BY <2>2, <2>3 DEF SeqInv, OneToken, OneAtMost
  <2>5. inst'.status = "completed" /\ irregular' = {} => Unfinished' = {}
    <3> SUFFICES ASSUME inst'.status = "completed", irregular' = {} PROVE Unfinished = {}
      BY <2>2
    <3>1. ~Async
      BY <2>1, <2>3 DEF NoScopesAsync
    <3> QED
      BY <1>1, <3>1 DEF Unfinished
  <2> QED
    BY <1>1, <2>1, <2>3, <2>4, <2>5, WritesSeq DEF NoToken
<1>10. ASSUME NEW i \in DOMAIN acts, RejectReturning(i)
       PROVE  SeqInv'
  <2> DEFINE al    == Finished(acts, i, "reject")
             peers == BranchPeers(al, i)
             gone  == {acts[i].el} \cup {acts[j].el : j \in peers}
             p     == [inst EXCEPT !.active = removeString(@, gone)]
             entry == ElementEntry(ReturnTarget(acts[i].el), acts[i].branch)
  <2>1. /\ Running /\ acts[i].status = "active" /\ UNCHANGED <<jobs, worker>>
        /\ acts' = Cancelled(al, peers)
        /\ inst' = clearJoinStateInScope(p, acts[i].scope)
        /\ Begin("request", <<entry>>)
    BY <1>10 DEF RejectReturning, ActiveKind
  <2>2. inst.status = "running" /\ ActiveActs(acts) = {i} /\ Unfinished = {}
    BY <1>3, <2>1
  <2>3. al \in Seq(Activity) /\ ActiveActs(al) = {}
    BY <1>1, <2>2, FinishedRows
  <2>4. p \in Instance /\ NoneHeld(p) /\ p.status = "running"
    BY <1>1, <2>2 DEF Instance, removeString, NoneHeld
  <2> HIDE DEF al, peers, p, entry
  <2>5. NoneHeld(inst') /\ inst'.status = "running"
    BY <2>1, <2>4 DEF clearJoinStateInScope, Instance, NoneHeld
  <2>6. ActiveActs(acts') = {}
    BY <2>1, <2>3, CancelledRows
  <2>7. OneToken(acts', Unfinished, <<entry>>)
    BY <2>2, <2>6 DEF OneToken, OneAtMost
  <2> QED
    BY <2>1, <2>5, <2>7, BeginSeq
<1>11. ASSUME NEW i \in DOMAIN acts, NEW b \in BoundaryEvents, FireBoundary(i, b)
       PROVE  SeqInv'
  <2> DEFINE host == acts[i]
             al   == IF b \in Interrupting THEN Cancelled(acts, {i}) ELSE acts
             fire == [el |-> b, status |-> "completed", outcome |-> "none",
                      scope |-> host.scope, branch |-> host.branch]
             p    == [inst EXCEPT !.fired = @ \cup {<<i, b>>},
                                  !.active = IF b \in Interrupting
                                             THEN removeString(@, {host.el}) ELSE @]
  <2>1. /\ Running /\ host.status = "active" /\ UNCHANGED <<jobs, worker>>
        /\ acts' = Append(al, fire)
        /\ inst' = IF OutgoingFlows(b) = {} THEN tryCompleteProcess(p, Append(al, fire)) ELSE p
    BY <1>11 DEF FireBoundary
  <2>2. PICK s \in InOrder(OutgoingFlows(b)) : Begin("request", FlowEntries(s, host.branch))
    BY <1>11 DEF FireBoundary
  <2>3. /\ inst.status = "running" /\ ActiveActs(acts) = {i} /\ Unfinished = {}
        /\ host \in Activity /\ b \in Elements /\ Kind(b) = "boundaryEvent" /\ i \in Nat
    BY <1>1, <1>3, <2>1 DEF BoundaryEvents
  <2>4. fire \in Activity /\ fire.status = "completed"
    BY <2>3 DEF Activity
  <2>5. p \in Instance /\ NoneHeld(p) /\ p.status = "running"
    <3>1. inst.fired \cup {<<i, b>>} \subseteq Nat \X Elements
      BY <1>1, <2>3 DEF Instance
    <3> QED
      BY <1>1, <2>3, <3>1 DEF Instance, removeString, NoneHeld
  <2>6. /\ al \in Seq(Activity) /\ ActiveActs(al) \subseteq {i}
        /\ b \in Interrupting => ActiveActs(al) = {}
    BY <1>1, <2>3, CancelledRows
  <2>7. OutgoingFlows(b) \subseteq Flows /\ OneAtMost(OutgoingFlows(b))
        /\ (b \in Interrupting \/ OutgoingFlows(b) = {})
    BY <2>3, OneFlow DEF OutgoingFlows, Sequential
  <2>8. /\ OneAtMost(DOMAIN FlowEntries(s, host.branch))
        /\ OutgoingFlows(b) = {} => FlowEntries(s, host.branch) = <<>>
    BY <2>7, EntryOne
  <2> HIDE DEF al, fire, p
  <2>9. ActiveActs(acts') = ActiveActs(al)
    BY <2>1, <2>4, <2>6, AppendRows
  <2>10. /\ NoneHeld(inst')
         /\ inst'.status = "completed" => OutgoingFlows(b) = {} /\ ActiveActs(acts') = {}
    BY <2>1, <2>5 DEF tryCompleteProcess, NoneHeld, Instance
  <2>11. OneToken(acts', Unfinished, FlowEntries(s, host.branch))
    BY <2>3, <2>6, <2>7, <2>8, <2>9 DEF OneToken, OneAtMost
  <2>12. inst'.status = "completed" 
           => NoToken(acts', Unfinished, FlowEntries(s, host.branch), irregular)
    BY <2>3, <2>8, <2>10 DEF NoToken
  <2> QED
    BY <2>1, <2>2, <2>10, <2>11, <2>12, BeginSeq
<1>12. CASE TerminateCutShort
  <2>1. /\ Idle /\ inst.status = "running" /\ CommitWrites /\ jobs' = jobs
        /\ inst'.status = "running" /\ ActiveActs(acts') \subseteq ActiveActs(acts)
    BY <1>12, CutShortRows
  <2>2. NoneHeld(inst')
    <3>1. CASE inst' = inst
      BY <1>1, <3>1
    <3>2. CASE inst' # inst
      <4>1. PICK s : inst' = ScopeLeft(inst, acts, s)
        BY <1>12, <3>2, CutShortRows
      <4> DEFINE gone == {acts[i].el : i \in InScope(acts, s)}
                 p1   == [inst EXCEPT !.active = removeString(@, gone)]
      <4>2. p1 \in Instance /\ NoneHeld(p1)
        BY <1>1 DEF Instance, removeString, NoneHeld
      <4>3. inst' = clearJoinStateInScope(p1, s)
        BY <4>1 DEF ScopeLeft
      <4> HIDE DEF p1
      <4> QED
        BY <4>2, <4>3 DEF clearJoinStateInScope, Instance, NoneHeld
    <3> QED
      BY <3>1, <3>2
  <2>3. Unfinished' = Unfinished /\ Outstanding = Unfinished
    BY <2>1, IdleRows DEF Unfinished, CommitWrites, Outstanding
  <2>4. OneToken(acts', Unfinished', <<>>)
    BY <2>1, <2>3 DEF SeqInv, OneToken, OneAtMost
  <2> QED
    BY <1>1, <2>1, <2>2, <2>4, WritesSeq
<1> QED
  BY <1>4, <1>5, <1>6, <1>7, <1>8, <1>9, <1>10, <1>11, <1>12 DEF Request

\* Commits and rollbacks: the jobs become no more.
LEMMA SettleSeq ==
    ASSUME SeqInv, tx' = "idle", stack' = <<>>, UNCHANGED <<jobs, irregular>>,
           \/ UNCHANGED <<inst, acts>> /\ stack = <<>> /\ Unfinished' \subseteq Outstanding
              /\ committed'.inst = inst /\ committed'.acts = acts
           \/ inst' = committed.inst /\ acts' = committed.acts /\ committed' = committed
              /\ Unfinished' \subseteq Unfinished
    PROVE  SeqInv'
<1>1. Outstanding' = Unfinished'
  BY DEF Outstanding
<1>2. CASE UNCHANGED <<inst, acts>> /\ stack = <<>> /\ Unfinished' \subseteq Outstanding
           /\ committed'.inst = inst /\ committed'.acts = acts
  <2>1. OneToken(acts, Unfinished', <<>>)
    BY <1>2, FewerJobs DEF SeqInv
  <2>2. inst.status = "completed" => NoToken(acts, Unfinished', <<>>, irregular)
    BY <1>2, FewerJobs DEF SeqInv
  <2> QED
    BY <1>1, <1>2, <2>1, <2>2 DEF SeqInv
<1>3. CASE inst' = committed.inst /\ acts' = committed.acts /\ committed' = committed
           /\ Unfinished' \subseteq Unfinished
  <2>1. OneToken(committed.acts, Unfinished', <<>>)
    BY <1>3, FewerJobs DEF SeqInv
  <2>2. committed.inst.status = "completed" 
          => NoToken(committed.acts, Unfinished', <<>>, irregular)
    BY <1>3, FewerJobs DEF SeqInv
  <2> QED
    BY <1>1, <1>3, <2>1, <2>2 DEF SeqInv
<1> QED
  BY <1>2, <1>3

\* The engine's own steps, and a stop of the server.
LEMMA EngineSeq ==
    ASSUME Sequential, IInv, SeqInv, Engine \/ Crash
    PROVE  SeqInv'
<1>1. worker \in Worker /\ (tx = "job" => worker.phase = "claimed")
  BY DEF IInv, JobsOK, TxOK
<1>2. ASSUME jobs' = jobs, worker' = worker \/ worker'.phase # "claimed"
      PROVE  Unfinished' \subseteq Unfinished
  BY <1>2 DEF Unfinished
<1>3. CASE Commit
  <2>1. /\ stack = <<>> /\ tx' = "idle" /\ stack' = stack
        /\ UNCHANGED <<inst, acts, jobs, irregular>>
        /\ committed'.inst = inst /\ committed'.acts = acts
        /\ worker' = IF tx = "job" THEN [worker EXCEPT !.phase = "ran"] ELSE worker
    BY <1>3 DEF Commit, Rows, WorkerAfter
  <2>2. Unfinished' \subseteq Outstanding
    <3>1. CASE tx = "job"
      <4>1. worker'.phase = "ran"
        BY <1>1, <2>1, <3>1 DEF Worker
      <4> QED
        BY <2>1, <3>1, <4>1 DEF Unfinished, Outstanding, PendingJobs
    <3>2. CASE tx # "job"
      BY <2>1, <3>2 DEF Unfinished, Outstanding
    <3> QED
      BY <3>1, <3>2
  <2> QED
    BY <2>1, <2>2, SettleSeq
<1>4. CASE FailTraversal \/ Crash
  <2>1. /\ tx' = "idle" /\ stack' = <<>> /\ inst' = committed.inst /\ acts' = committed.acts
        /\ UNCHANGED <<jobs, committed, irregular>>
    BY <1>4 DEF FailTraversal, Crash, RollBack
  <2>2. worker' = worker \/ worker'.phase # "claimed"
    BY <1>1, <1>4 DEF FailTraversal, Crash, WorkerAfter, Worker, IdleWorker
  <2> QED
    BY <1>2, <2>1, <2>2, SettleSeq
<1> QED
  BY <1>3, <1>4, TraverseSeq DEF Engine

\* The worker turns a job into an entry of the walk; a job that fails or is
\* finished is no token any more.
LEMMA WorkerSeq ==
    ASSUME Sequential, IInv, SeqInv, WorkerStep
    PROVE  SeqInv'
<1>1. /\ jobs \in Seq(Job) /\ worker \in Worker /\ Idle
      /\ (worker.phase # "idle" => worker.job \in DOMAIN jobs)
      /\ (worker.phase = "claimed" => jobs[worker.job].status = "running")
  BY DEF IInv, JobsOK, WorkerStep, ClaimNextJob, runStartJob, runContinueJob, FinishJob
<1>2. /\ tx = "idle" /\ stack = <<>> /\ committed.inst = inst /\ committed.acts = acts
      /\ Outstanding = Unfinished
  BY <1>1, IdleRows DEF Outstanding
<1>3. ASSUME UNCHANGED <<inst, acts, stack, tx, committed, irregular>>,
             Unfinished' \subseteq Unfinished,
             ~Async => jobs' = <<>>
      PROVE  SeqInv'
  <2>1. Outstanding' = Unfinished'
    BY <1>2, <1>3 DEF Outstanding
  <2>2. /\ OneToken(acts, Unfinished', <<>>)
        /\ inst.status = "completed" => NoToken(acts, Unfinished', <<>>, irregular)
    BY <1>2, <1>3, FewerJobs DEF SeqInv
  <2> QED
    BY <1>2, <1>3, <2>1, <2>2 DEF SeqInv
<1>4. ASSUME worker.phase = "claimed"
      PROVE  PendingJobs = {} /\ ActiveActs(acts) = {} /\ NoneHeld(inst)
  <2>1. worker = [job |-> worker.job, phase |-> "claimed"]
    BY <1>1, <1>4 DEF Worker
  <2>2. worker.job \in Unfinished
    BY <1>1, <1>4, <2>1 DEF Unfinished
  <2>3. PendingJobs \subseteq Unfinished /\ worker.job \notin PendingJobs
    BY <1>1, <1>4 DEF PendingJobs, Unfinished
  <2> QED
    BY <1>2, <2>2, <2>3 DEF SeqInv, OneToken, OneAtMost
<1>5. ASSUME NEW entries, Begin("job", entries), OneAtMost(DOMAIN entries),
             worker.phase = "claimed", UNCHANGED <<acts, jobs, worker>>,
             NoneHeld(inst'), inst'.status = "running"
      PROVE  SeqInv'
  <2>1. OneToken(acts', PendingJobs, entries)
    BY <1>4, <1>5 DEF OneToken, OneAtMost
  <2> QED
    BY <1>5, <2>1, BeginSeq
<1>6. CASE ClaimNextJob
  <2>1. PICK j \in First(PendingJobs) : /\ jobs' = [jobs EXCEPT ![j].status = "running"]
                                        /\ worker' = [job |-> j, phase |-> "claimed"]
    BY <1>6 DEF ClaimNextJob
  <2>2. j \in DOMAIN jobs /\ jobs[j].status = "pending" /\ jobs # <<>>
    BY DEF First, PendingJobs
  <2>3. JobBecomes(jobs, jobs', j, "running")
    BY <2>1 DEF JobBecomes
  <2>4. DOMAIN jobs' = DOMAIN jobs /\ \A k \in DOMAIN jobs : k # j => jobs'[k] = jobs[k]
    BY <1>1, <2>2, <2>3, JobRows
  <2>5. worker'.job = j
    BY <2>1
  <2>6. Unfinished' \subseteq Unfinished
    BY <2>2, <2>4, <2>5 DEF Unfinished
  <2>7. Async
    BY <2>2 DEF SeqInv
  <2> QED
    BY <1>3, <1>6, <2>6, <2>7 DEF ClaimNextJob
<1>7. CASE runStartJob
  <2>1. /\ worker.phase = "claimed" /\ Begin("job", StartEntries(jobs[worker.job].el))
        /\ UNCHANGED <<acts, jobs, worker>> /\ inst' = [inst EXCEPT !.status = "running"]
    BY <1>7 DEF runStartJob
  <2>2. NoneHeld(inst') /\ inst'.status = "running"
    BY <2>1, <1>4 DEF NoneHeld, IInv, RowsOK, Instance
  <2> QED
    BY <1>5, <2>1, <2>2, StartOne
<1>8. CASE runContinueJob
  <2> DEFINE e == jobs[worker.job].el
  <2>1. worker.phase = "claimed" /\ UNCHANGED <<acts, jobs>> /\ e \in Elements
    BY <1>1, <1>8 DEF runContinueJob, IInv, JobsOK
  <2>2. CASE /\ inst.status = "running" /\ UNCHANGED worker
             /\ inst' = [inst EXCEPT !.active = removeString(@, {e})]
             /\ \E s \in InOrder(Routes(e, {}, NoFlow)) : Begin("job", FlowEntries(s, NoFlow))
    <3>1. PICK s \in InOrder(Routes(e, {}, NoFlow)) : Begin("job", FlowEntries(s, NoFlow))
      BY <2>2
    <3>2. Routes(e, {}, NoFlow) \subseteq Flows
      BY RoutesType DEF OutgoingFlows
    <3>3. OneAtMost(DOMAIN FlowEntries(s, NoFlow))
      BY <2>1, <3>2, RoutesOne, EntryOne
    <3>4. NoneHeld(inst') /\ inst'.status = "running"
      BY <1>4, <2>1, <2>2 DEF NoneHeld, IInv, RowsOK, Instance
    <3> QED
      BY <1>5, <2>1, <2>2, <3>1, <3>3, <3>4
  <2>3. CASE /\ worker' = [worker EXCEPT !.phase = "erred"]
             /\ UNCHANGED <<inst, tx, committed, stack, scope, irregular>>
    <3>1. worker'.phase = "erred"
      BY <1>1, <2>3 DEF Worker
    <3>2. Unfinished' \subseteq Unfinished
      BY <2>1, <3>1 DEF Unfinished
    <3> QED
      BY <1>3, <2>1, <2>3, <3>2 DEF SeqInv
  <2> QED
    BY <1>8, <2>2, <2>3 DEF runContinueJob
<1>9. CASE FinishJob
  <2>1. /\ worker.phase \in {"ran", "erred"} /\ worker'.phase = "idle"
        /\ UNCHANGED <<inst, acts, stack, tx, committed, irregular>>
    BY <1>9 DEF FinishJob, IdleWorker
  <2>2. PICK st \in {"done", "failed"} : jobs' = [jobs EXCEPT ![worker.job].status = st]
    BY <1>9 DEF FinishJob
  <2>3. JobBecomes(jobs, jobs', worker.job, st)
    BY <2>2 DEF JobBecomes
  <2>4. /\ DOMAIN jobs' = DOMAIN jobs /\ jobs'[worker.job].status = st
        /\ \A k \in DOMAIN jobs : k # worker.job => jobs'[k] = jobs[k]
    BY <1>1, <2>1, <2>3, JobRows
  <2>5. Unfinished' \subseteq Unfinished
    BY <2>1, <2>4 DEF Unfinished
  <2>6. Async
    BY <1>1, <2>1 DEF SeqInv
  <2> QED
    BY <1>3, <2>1, <2>5, <2>6
<1> QED
  BY <1>6, <1>7, <1>8, <1>9 DEF WorkerStep

\* Every step.
LEMMA NextSeq ==
    ASSUME Sequential, NoScopesAsync, IInv, FreshInv, SeqInv, [Next]_vars
    PROVE  SeqInv'
<1>1. CASE Request
  BY <1>1, RequestSeq
<1>2. CASE Engine \/ Crash
  BY <1>2, EngineSeq
<1>3. CASE WorkerStep
  BY <1>3, WorkerSeq
<1>4. CASE UNCHANGED vars
  <2>1. Unfinished' = Unfinished /\ Outstanding' = Outstanding
    BY <1>4 DEF vars, Unfinished, Outstanding, PendingJobs
  <2> QED
    BY <1>4, <2>1 DEF vars, SeqInv
<1> QED
  BY <1>1, <1>2, <1>3, <1>4 DEF Next

\* A sequential definition has one token at most, in every state.
LEMMA SeqAlways ==
    ASSUME Sequential, NoScopesAsync
    PROVE  Spec => [](IInv /\ SeqInv)
<1>1. IInv /\ IInv' /\ FreshInv /\ [Next]_vars => FreshInv'
  BY NextFresh
<1>2. IInv /\ FreshInv /\ SeqInv /\ [Next]_vars => SeqInv'
  BY NextSeq
<1> QED
  BY <1>1, <1>2, InitInv, NextInv, InitFresh, InitSeq, PTL DEF Spec

\* Whatever a Terminate was given, a completed instance has nothing open and no
\* token at a join.
CompletedMeansClosed == Idle /\ inst.status = "completed" => ActiveActs(acts) = {} /\ NoneHeld(inst)

\* A completed instance is done: nothing is open, no join holds a token and no
\* job is left to run, whatever loops, rejections, boundary events, failures and crashes
\* there were.  tryCompleteProcess looks at activities and the waiting list only, so this
\* needs that the token which reaches an end event was the last one (engine.go:
\* tryCompleteProcess, activateViaFlow; worker.go: runContinueJob).  The job is the one
\* exception of CompletedMeansDone: a Terminate whose scopeId names no scope goes
\* straight to tryCompleteProcess and completes the instance over a queued
\* continuation (reject.go:153, 194).
THEOREM CompletedIsDone ==
    ASSUME Sequential, NoScopesAsync
    PROVE  Spec => []CompletedMeansClosed /\ []CompletedMeansDone
<1>1. IInv /\ SeqInv => CompletedMeansClosed /\ CompletedMeansDone
  <2> SUFFICES ASSUME IInv, SeqInv, Idle, inst.status = "completed"
               PROVE  /\ ActiveActs(acts) = {} /\ NoneHeld(inst)
                      /\ irregular = {} => Unfinished = {}
    BY DEF CompletedMeansDone, CompletedMeansClosed, NoneHeld
  <2>1. Outstanding = Unfinished
    BY IdleRows DEF Outstanding
  <2> QED
    BY <2>1 DEF SeqInv, NoToken
<1> QED
  BY <1>1, SeqAlways, PTL

\* The conditions of FollowsLifecycle and WaitingListIsComplete hold of the same
\* definitions, so clients see the life cycle of docs/ddd/runtime.md and a
\* complete waiting list without further conditions (engine.go: activateElement,
\* appendUnique; runtime.md).
THEOREM SequentialKeepsPromises ==
    ASSUME Sequential, NoScopesAsync
    PROVE  Spec => ImplementsLifecycle /\ []WaitingListComplete
<1>1. SeqInv => NothingToWaitFor
  BY DEF SeqInv, NoToken, NothingToWaitFor
<1>2. IInv /\ SeqInv => OneTokenEach
  <2> SUFFICES ASSUME IInv, SeqInv PROVE OneTokenEach
    OBVIOUS
  <2>1. OneEach(acts)
    BY DEF SeqInv, OneToken, OneAtMost, OneEach
  <2>2. ASSUME Idle, NEW j \in DOMAIN jobs, Unrun(j)
        PROVE  jobs[j].el \notin WaitingAt(acts)
    <3>1. Outstanding = Unfinished
      BY <2>2, IdleRows DEF Outstanding
    <3>2. j \in Unfinished
      BY <2>2 DEF Unrun, Unfinished, IInv, JobsOK, Worker
    <3>3. ActiveActs(acts) = {}
      BY <3>1, <3>2 DEF SeqInv, OneToken
    <3> QED
      BY <3>3 DEF WaitingAt
  <2> QED
    BY <2>1, <2>2 DEF OneTokenEach
<1> QED
  BY <1>1, <1>2, SeqAlways, FollowsLifecycle, WaitingListIsComplete, PTL
=============================================================================
