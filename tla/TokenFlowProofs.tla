--------------------------- MODULE TokenFlowProofs ---------------------------
(***************************************************************************)
(* Proofs about TokenFlow, for every process definition that passes        *)
(* validation, synchronous or asynchronous, with or without crashes.       *)
(***************************************************************************)
EXTENDS TokenFlow, FiniteSetTheorems, TLAPS

Branches == Flows \cup {NoFlow}

-----------------------------------------------------------------------------
(* Routing *)

\* Whatever the conditions say, an element is left by its own outgoing flows.
LEMMA RoutesType ==
    ASSUME NEW e, NEW T, NEW sel
    PROVE  Routes(e, T, sel) \subseteq OutgoingFlows(e)
BY DEF Routes, followExclusive, followInclusive, followEventBasedGateway,
   followComplexGateway, First, Last

\* Flows put in definition order form a sequence of those flows.
LEMMA InOrderType ==
    ASSUME NEW S, S \subseteq Flows, NEW s \in InOrder(S)
    PROVE  s \in Seq(S) /\ s \in Seq(Flows)
<1>1. Cardinality(S) \in Nat
  BY DefinitionAssumption, FS_Subset, FS_CardinalityType DEF DefinitionAssumption
<1> QED
  BY <1>1 DEF InOrder

\* An entry made from a flow arrives through an incoming flow of its target.
LEMMA FlowEntriesType ==
    ASSUME NEW s \in Seq(Flows), NEW branch \in Branches
    PROVE  /\ FlowEntries(s, branch) \in Seq(Entry)
           /\ \A k \in DOMAIN FlowEntries(s, branch) :
                FlowEntries(s, branch)[k].via
                  \in IncomingFlows(FlowEntries(s, branch)[k].to)
<1>1. \A f \in Flows : FlowEntry(f, branch) \in Entry
                       /\ FlowEntry(f, branch).via \in IncomingFlows(FlowEntry(f, branch).to)
  BY DefinitionAssumption DEF DefinitionAssumption, FlowEntry, Entry, BranchOf, Branches,
     IncomingFlows
<1> QED
  BY <1>1 DEF FlowEntries

\* The start events as entries.
LEMMA StartEntriesType ==
    ASSUME NEW chosen \in Elements \cup {NoElement}
    PROVE  /\ StartEntries(chosen) \in Seq(Entry)
           /\ \A k \in DOMAIN StartEntries(chosen) : StartEntries(chosen)[k].via = NoFlow
<1>1. \A e \in Elements : ElementEntry(e, NoFlow) \in Entry
                          /\ ElementEntry(e, NoFlow).via = NoFlow
  BY DEF ElementEntry, Entry
<1>2. StartEvents \in Seq(Elements)
  BY DefinitionAssumption DEF DefinitionAssumption
<1> QED
  BY <1>1, <1>2 DEF StartEntries

-----------------------------------------------------------------------------
(* The rows *)

\* An activity that is closed leaves the others as they are.
LEMMA FinishedRows ==
    ASSUME NEW al \in Seq(Activity), NEW i \in DOMAIN al,
           NEW outcome \in {"none", "approve", "reject"}
    PROVE  /\ Finished(al, i, outcome) \in Seq(Activity)
           /\ DOMAIN Finished(al, i, outcome) = DOMAIN al
           /\ \A j \in DOMAIN al : Finished(al, i, outcome)[j].el = al[j].el
           /\ ActiveActs(Finished(al, i, outcome)) = ActiveActs(al) \ {i}
           /\ WaitingAt(al) \ {al[i].el} \subseteq WaitingAt(Finished(al, i, outcome))
<1> DEFINE fs == Finished(al, i, outcome)
<1>1. /\ fs \in Seq(Activity) /\ DOMAIN fs = DOMAIN al
      /\ \A j \in DOMAIN al : /\ fs[j].el = al[j].el
                              /\ j # i => fs[j] = al[j]
      /\ fs[i].status = "completed"
  <2>1. al \in [1..Len(al) -> Activity] /\ DOMAIN al = 1..Len(al) /\ Len(al) \in Nat
    OBVIOUS
  <2>2. \A j \in 1..Len(al) : al[j] \in Activity
    BY <2>1
  <2>3. /\ DOMAIN fs = 1..Len(al)
        /\ \A j \in 1..Len(al) : j # i => fs[j] = al[j]
        /\ fs[i] = [al[i] EXCEPT !.status = "completed", !.outcome = outcome]
    BY <2>1 DEF Finished
  <2>4. fs[i] \in Activity /\ fs[i].el = al[i].el /\ fs[i].status = "completed"
    BY <2>1, <2>2, <2>3 DEF Activity
  <2>5. \A j \in 1..Len(al) : fs[j] \in Activity
    BY <2>2, <2>3, <2>4
  <2>6. fs = [j \in 1..Len(al) |-> fs[j]]
    BY <2>1 DEF Finished
  <2> HIDE DEF fs
  <2>7. fs \in Seq(Activity)
    BY <2>1, <2>5, <2>6
  <2> QED
    BY <2>1, <2>3, <2>4, <2>7
<1>2. ActiveActs(fs) = ActiveActs(al) \ {i}
  BY <1>1 DEF ActiveActs
<1> HIDE DEF fs
<1>3. WaitingAt(al) \ {al[i].el} \subseteq WaitingAt(fs)
  BY <1>1, <1>2 DEF WaitingAt, ActiveActs
<1> QED
  BY <1>1, <1>2, <1>3 DEF fs

\* The same for a set of activities that are cancelled.
LEMMA CancelledRows ==
    ASSUME NEW al \in Seq(Activity), NEW I
    PROVE  /\ Cancelled(al, I) \in Seq(Activity)
           /\ DOMAIN Cancelled(al, I) = DOMAIN al
           /\ \A j \in DOMAIN al : Cancelled(al, I)[j].el = al[j].el
           /\ ActiveActs(Cancelled(al, I)) = ActiveActs(al) \ I
           /\ WaitingAt(al) \ {al[i].el : i \in I \cap DOMAIN al}
                \subseteq WaitingAt(Cancelled(al, I))
<1> DEFINE cs == Cancelled(al, I)
<1>1. /\ cs \in Seq(Activity) /\ DOMAIN cs = DOMAIN al
      /\ \A j \in DOMAIN al : /\ cs[j].el = al[j].el
                              /\ j \notin I => cs[j] = al[j]
                              /\ j \in I => cs[j].status = "cancelled"
  <2>1. DOMAIN al = 1..Len(al) /\ Len(al) \in Nat
    OBVIOUS
  <2>2. \A j \in 1..Len(al) : al[j] \in Activity
    BY <2>1
  <2>3. /\ DOMAIN cs = 1..Len(al)
        /\ \A j \in 1..Len(al) :
             cs[j] = IF j \in I THEN [al[j] EXCEPT !.status = "cancelled", !.outcome = "cancelled"]
                     ELSE al[j]
    BY <2>1 DEF Cancelled
  <2>4. \A j \in 1..Len(al) : /\ cs[j] \in Activity /\ cs[j].el = al[j].el
                              /\ j \in I => cs[j].status = "cancelled"
    <3> TAKE j \in 1..Len(al)
    <3>1. al[j] \in Activity
      BY <2>2
    <3>2. CASE j \in I
      BY <2>3, <3>1, <3>2 DEF Activity
    <3>3. CASE j \notin I
      BY <2>3, <3>1, <3>3
    <3> QED
      BY <3>2, <3>3
  <2>5. cs = [j \in 1..Len(al) |-> cs[j]]
    BY <2>1 DEF Cancelled
  <2> HIDE DEF cs
  <2>6. \A j \in 1..Len(al) : cs[j] \in Activity
    BY <2>4
  <2>7. cs \in Seq(Activity)
    BY <2>1, <2>5, <2>6
  <2>8. \A j \in 1..Len(al) : j \notin I => cs[j] = al[j]
    BY <2>3
  <2> QED
    BY <2>1, <2>3, <2>4, <2>7, <2>8
<1>2. ActiveActs(cs) = ActiveActs(al) \ I
  BY <1>1 DEF ActiveActs
<1> HIDE DEF cs
<1>3. WaitingAt(al) \ {al[i].el : i \in I \cap DOMAIN al} \subseteq WaitingAt(cs)
  BY <1>1, <1>2 DEF WaitingAt, ActiveActs
<1> QED
  BY <1>1, <1>2, <1>3 DEF cs

\* A new activity row leaves the earlier ones as they are.
LEMMA AppendRows ==
    ASSUME NEW al \in Seq(Activity), NEW a \in Activity
    PROVE  /\ Append(al, a) \in Seq(Activity)
           /\ WaitingAt(al) \subseteq WaitingAt(Append(al, a))
           /\ a.status = "active" => a.el \in WaitingAt(Append(al, a))
           /\ a.status # "active" => ActiveActs(Append(al, a)) = ActiveActs(al)
<1> DEFINE ap == Append(al, a)
<1>1. /\ ap \in Seq(Activity) /\ DOMAIN al \subseteq DOMAIN ap
      /\ DOMAIN ap = DOMAIN al \cup {Len(al) + 1} /\ Len(al) + 1 \notin DOMAIN al
      /\ \A j \in DOMAIN al : ap[j] = al[j]
      /\ Len(al) + 1 \in DOMAIN ap /\ ap[Len(al) + 1] = a
  <2>1. DOMAIN al = 1..Len(al) /\ Len(al) \in Nat
    OBVIOUS
  <2>2. ap \in Seq(Activity) /\ Len(ap) = Len(al) + 1 /\ DOMAIN ap = 1..(Len(al) + 1)
    OBVIOUS
  <2>3. \A j \in 1..Len(al) : ap[j] = al[j]
    OBVIOUS
  <2>4. ap[Len(al) + 1] = a
    OBVIOUS
  <2> HIDE DEF ap
  <2> QED
    BY <2>1, <2>2, <2>3, <2>4
<1> HIDE DEF ap
<1>2. WaitingAt(al) \subseteq WaitingAt(ap)
  BY <1>1 DEF WaitingAt, ActiveActs
<1>3. a.status = "active" => a.el \in WaitingAt(ap)
  BY <1>1 DEF WaitingAt, ActiveActs
<1>4. a.status # "active" => ActiveActs(ap) = ActiveActs(al)
  BY <1>1 DEF ActiveActs
<1> QED
  BY <1>1, <1>2, <1>3, <1>4 DEF ap

\* What holds of a pair of instance and activity rows, committed or not.
JoinsOpen(p) ==
    \A e \in Elements :
        IsJoinGateway(e) => /\ p.joins[e] \subseteq IncomingFlows(e)
                            /\ p.joins[e] # IncomingFlows(e)

CutShort(h) == "cut short" \in h

RowsOK(p, al, h) ==
    /\ p \in Instance
    /\ al \in Seq(Activity)
    /\ ~CutShort(h) => p.active \subseteq WaitingAt(al)
    /\ JoinsOpen(p)
    /\ p.status = "cancelled" => ActiveActs(al) = {} /\ p.active = {}

\* What holds of rows goes on holding when more has gone wrong.
LEMMA MoreIrregular ==
    ASSUME NEW p, NEW al, NEW h, irregular \subseteq h, RowsOK(p, al, irregular)
    PROVE  RowsOK(p, al, h)
BY DEF RowsOK, CutShort

\* A join waits for at least one flow.
LEMMA EmptyJoin ==
    \A e \in Elements : IsJoinGateway(e) => IncomingFlows(e) # {}
BY FS_EmptySet DEF IsJoinGateway

\* An instance that has just been created.
LEMMA NoInstanceOK ==
    ASSUME NEW st \in {"absent", "pending", "running"}, NEW al \in Seq(Activity)
    PROVE  /\ RowsOK([NoInstance EXCEPT !.status = st], al, irregular)
           /\ [NoInstance EXCEPT !.status = st].status = st
BY EmptyJoin DEF RowsOK, NoInstance, Instance, Statuses, Terminal, JoinsOpen

LEMMA NoRowsOK == RowsOK(NoInstance, <<>>, irregular)
BY EmptyJoin DEF RowsOK, NoInstance, Instance, Statuses, Terminal, JoinsOpen

\* Completing the process keeps the rows sound.
LEMMA TryCompleteOK ==
    ASSUME NEW p, NEW al, RowsOK(p, al, irregular)
    PROVE  RowsOK(tryCompleteProcess(p, al), al, irregular)
BY DEF tryCompleteProcess, RowsOK, Instance, Statuses, Terminal, JoinsOpen

\* Emptying the joins of a scope keeps the rows sound.
LEMMA ClearJoinOK ==
    ASSUME NEW p, NEW al, NEW s, RowsOK(p, al, irregular)
    PROVE  RowsOK(clearJoinStateInScope(p, s), al, irregular)
BY EmptyJoin DEF clearJoinStateInScope, RowsOK, Instance, JoinsOpen

\* Taking elements off the waiting list together with their activities.
LEMMA LeaveOK ==
    ASSUME NEW p, NEW al, NEW bs, NEW gone, RowsOK(p, al, irregular), bs \in Seq(Activity),
           WaitingAt(al) \ gone \subseteq WaitingAt(bs), ActiveActs(bs) \subseteq ActiveActs(al)
    PROVE  RowsOK([p EXCEPT !.active = removeString(@, gone)], bs, irregular)
BY DEF removeString, RowsOK, Instance, JoinsOpen

-----------------------------------------------------------------------------
(* The stack *)

\* A flow entry was reached through an incoming flow of its element.
StackOK(st) ==
    /\ st \in Seq(Entry)
    /\ \A k \in DOMAIN st :
         st[k].via # NoFlow => st[k].via \in IncomingFlows(st[k].to)

\* Taking the first entry off.
LEMMA TailOK ==
    ASSUME NEW st, StackOK(st), st # <<>>
    PROVE  /\ StackOK(Tail(st))
           /\ Head(st) \in Entry
           /\ Head(st).via # NoFlow => Head(st).via \in IncomingFlows(Head(st).to)
<1>1. /\ Tail(st) \in Seq(Entry)
      /\ \A k \in DOMAIN Tail(st) : k + 1 \in DOMAIN st /\ Tail(st)[k] = st[k+1]
      /\ 1 \in DOMAIN st /\ Head(st) = st[1] /\ st[1] \in Entry
  BY DEF StackOK
<1> QED
  BY <1>1 DEF StackOK

\* Putting entries in front.
LEMMA ConcatOK ==
    ASSUME NEW front, NEW st, StackOK(front), StackOK(st)
    PROVE  StackOK(front \o st)
<1>1. /\ front \o st \in Seq(Entry)
      /\ \A k \in DOMAIN (front \o st) :
           \/ k \in DOMAIN front /\ (front \o st)[k] = front[k]
           \/ k - Len(front) \in DOMAIN st /\ (front \o st)[k] = st[k - Len(front)]
  BY DEF StackOK
<1> QED
  BY <1>1 DEF StackOK

\* The flows out of an element, entered in order.
LEMMA RoutesOK ==
    ASSUME NEW e, NEW S, S \subseteq OutgoingFlows(e), NEW s \in InOrder(S),
           NEW branch \in Branches
    PROVE  StackOK(FlowEntries(s, branch))
<1>1. s \in Seq(Flows)
  BY InOrderType DEF OutgoingFlows
<1> QED
  BY <1>1, FlowEntriesType DEF StackOK

\* One element, entered without a flow.
LEMMA ElementOK ==
    ASSUME NEW e \in Elements, NEW branch \in Branches
    PROVE  StackOK(<<ElementEntry(e, branch)>>)
BY DEF StackOK, ElementEntry, Entry, Branches

-----------------------------------------------------------------------------
(* Requests that rewrite rows *)

\* A new activity row, in the scope of the traversal or of its element.
LEMMA NewActivityType ==
    ASSUME NEW e \in Elements, NEW status \in {"active", "completed"},
           NEW branch \in Branches, scope \in ScopeIDs
    PROVE  /\ NewActivity(e, status, branch) \in Activity
           /\ NewActivity(e, status, branch).el = e
           /\ NewActivity(e, status, branch).status = status
BY DefinitionAssumption DEF DefinitionAssumption, NewActivity, Activity, scopeForElement,
   Branches, ScopeIDs, Scopes

\* cancelInstance leaves nothing open.
LEMMA CancelInstanceOK ==
    ASSUME NEW p, NEW al, RowsOK(p, al, irregular), cancelInstance(p, al)
    PROVE  RowsOK(inst', acts', irregular) /\ inst'.status # "absent"
<1>1. acts' \in Seq(Activity) /\ ActiveActs(acts') = {}
  BY CancelledRows DEF RowsOK, cancelInstance
<1> QED
  BY <1>1 DEF RowsOK, cancelInstance, Instance, Statuses, Terminal, JoinsOpen

\* Up to its first write of the instance row terminateScope keeps waiting list,
\* joins and activities in step.
LEMMA ScopeLeftOK ==
    ASSUME NEW p, NEW al, NEW s, RowsOK(p, al, irregular)
    PROVE  /\ RowsOK(ScopeLeft(p, al, s), Cancelled(al, InScope(al, s)), irregular)
           /\ ScopeLeft(p, al, s).status = p.status
<1> DEFINE I    == InScope(al, s)
           gone == {al[i].el : i \in I}
           p1   == [p EXCEPT !.active = removeString(@, gone)]
<1>1. I \subseteq DOMAIN al
  BY DEF InScope, ActiveActs
<1>2. /\ Cancelled(al, I) \in Seq(Activity)
      /\ WaitingAt(al) \ gone \subseteq WaitingAt(Cancelled(al, I))
      /\ ActiveActs(Cancelled(al, I)) \subseteq ActiveActs(al)
  <2>1. I \cap DOMAIN al = I
    BY <1>1
  <2> QED
    BY <2>1, CancelledRows DEF RowsOK
<1>3. RowsOK(p1, Cancelled(al, I), irregular) /\ p1.status = p.status
  <2> HIDE DEF I, gone
  <2> QED
    BY <1>2, LeaveOK DEF RowsOK, Instance
<1>4. ScopeLeft(p, al, s) = clearJoinStateInScope(p1, s)
  BY DEF ScopeLeft
<1> HIDE DEF p1, I
<1>5. RowsOK(clearJoinStateInScope(p1, s), Cancelled(al, I), irregular)
  BY <1>3, ClearJoinOK
<1>6. clearJoinStateInScope(p1, s).status = p1.status
  BY <1>3 DEF clearJoinStateInScope, RowsOK, Instance
<1> QED
  BY <1>3, <1>4, <1>5, <1>6 DEF I

\* terminateScope keeps waiting list, joins and activities in step.
LEMMA TerminateScopeOK ==
    ASSUME NEW p, NEW al, NEW s, RowsOK(p, al, irregular), p.status # "absent",
           terminateScope(p, al, s)
    PROVE  RowsOK(inst', acts', irregular) /\ inst'.status # "absent"
<1> DEFINE q  == ScopeLeft(p, al, s)
           bl == Cancelled(al, InScope(al, s))
<1>1. RowsOK(q, bl, irregular) /\ q.status # "absent"
  BY ScopeLeftOK
<1>2. acts' = bl /\ inst' = tryCompleteProcess(q, bl)
  BY DEF terminateScope
<1> HIDE DEF q, bl
<1>3. inst'.status # "absent"
  BY <1>1, <1>2 DEF tryCompleteProcess, RowsOK, Instance
<1> QED
  BY <1>1, <1>2, <1>3, TryCompleteOK

-----------------------------------------------------------------------------
(* The inductive invariant *)

\* Between transactions the rows are the committed ones; a transaction works on
\* an instance that was not final when it began.
TxOK ==
    /\ tx \in {"idle", "request", "job"}
    /\ scope \in ScopeIDs
    /\ tx = "idle" => committed = Rows(inst, acts) /\ stack = <<>>
    /\ tx # "idle" => inst.status \notin {"absent", "cancelled"}
    /\ tx = "request" => committed.inst.status \in {"absent", "running"}
    /\ tx = "job" => /\ worker.phase = "claimed"
                     /\ jobs[worker.job].type = "continue"
                          => committed.inst.status = "running"

\* A job that is queued, or in the worker's hands and not committed.
Unrun(j) == jobs[j].status = "pending" \/ (worker.job = j /\ worker.phase = "claimed")

\* There is at most one start job, the first; it is run only while its
\* instance is pending.
JobsOK ==
    /\ jobs \in Seq(Job)
    /\ worker \in Worker
    /\ worker.phase # "idle" => worker.job \in DOMAIN jobs
    /\ worker.phase = "claimed" => jobs[worker.job].status = "running"
    /\ committed.inst.status = "absent" => jobs = <<>>
    /\ \A j \in DOMAIN jobs :
         /\ jobs[j].type = "continue" => jobs[j].el \in Elements
         /\ jobs[j].type = "start" => j = 1 /\ (Unrun(j) => committed.inst.status = "pending")

CommittedOK ==
    /\ committed \in [inst : Instance, acts : Seq(Activity)]
    /\ RowsOK(committed.inst, committed.acts, irregular)

IInv ==
    /\ RowsOK(inst, acts, irregular)
    /\ CommittedOK
    /\ StackOK(stack)
    /\ TxOK
    /\ JobsOK
    /\ irregular \subseteq Irregularities

\* The empty database satisfies the invariant.
LEMMA InitInv == Init => IInv
<1> SUFFICES ASSUME Init PROVE IInv
  OBVIOUS
<1>1. RowsOK(inst, acts, irregular) /\ RowsOK(committed.inst, committed.acts, irregular)
  BY NoRowsOK DEF Init
<1>2. CommittedOK
  BY <1>1 DEF CommittedOK, Init, RowsOK
<1>3. StackOK(stack)
  BY DEF Init, StackOK
<1>4. TxOK
  <2>1. tx = "idle" /\ scope \in ScopeIDs
    BY DEF Init, ScopeIDs
  <2>2. committed = Rows(inst, acts) /\ stack = <<>>
    BY DEF Init, Rows
  <2> QED
    BY <2>1, <2>2 DEF TxOK
<1>5. JobsOK
  BY DEF Init, JobsOK, Worker, IdleWorker, NoInstance
<1> QED
  BY <1>1, <1>2, <1>3, <1>4, <1>5 DEF IInv, Init

\* Getting past a join empties it and touches nothing else.
LEMMA EnteredOK ==
    ASSUME RowsOK(inst, acts, irregular)
    PROVE  RowsOK(Entered, acts, irregular) /\ Entered.status = inst.status
BY EmptyJoin DEF Entered, RowsOK, Instance, JoinsOpen

\* One step of the traversal keeps the rows, the stack and the scope sound.
LEMMA TraverseRows ==
    ASSUME IInv, Traverse
    PROVE  /\ RowsOK(inst', acts', irregular) /\ inst'.status \notin {"absent", "cancelled"}
           /\ StackOK(stack') /\ scope' \in ScopeIDs
<1>1. /\ RowsOK(inst, acts, irregular) /\ inst.status \notin {"absent", "cancelled"}
      /\ StackOK(stack) /\ stack # <<>> /\ scope \in ScopeIDs
  BY DEF IInv, Traverse, Idle, TxOK
<1>2. /\ StackOK(Tail(stack)) /\ Top \in Entry
      /\ Top.via # NoFlow => Top.via \in IncomingFlows(Top.to)
  BY <1>1, TailOK DEF Top
<1>3. Top.to \in Elements /\ Top.branch \in Branches
  BY <1>2 DEF Entry, Branches
<1>4. CASE HoldAtJoin
  <2>1. Top.via \in IncomingFlows(Top.to)
    BY <1>2, <1>4 DEF HoldAtJoin, Held, EntersJoin
  <2>2. Arrivals \subseteq IncomingFlows(Top.to) /\ Arrivals # IncomingFlows(Top.to)
        /\ Arrivals \subseteq Flows
    BY <1>1, <1>3, <1>4, <2>1 DEF HoldAtJoin, Held, EntersJoin, Arrivals, RowsOK, JoinsOpen,
       IncomingFlows
  <2>3. RowsOK(inst', acts', irregular) /\ inst'.status = inst.status
    BY <1>1, <1>3, <1>4, <2>2 DEF HoldAtJoin, RowsOK, Instance, JoinsOpen
  <2> QED
    BY <1>1, <1>2, <1>4, <2>3 DEF HoldAtJoin
<1>5. CASE EnterSubProcess
  <2>1. scope' \in ScopeIDs
    BY <1>1, <1>3, <1>5, DefinitionAssumption
    DEF EnterSubProcess, scopeForElement, DefinitionAssumption, ScopeIDs, Scopes
  <2>2. EntryRef(Top.to) # NoElement => EntryRef(Top.to) \in Elements
    BY <1>3, DefinitionAssumption DEF DefinitionAssumption
  <2>3. StackOK(stack')
    BY <1>2, <1>3, <1>5, <2>2, ElementOK, ConcatOK DEF EnterSubProcess
  <2> QED
    BY <1>1, <1>5, <2>1, <2>3 DEF EnterSubProcess
<1>6. CASE ReachEndEvent
  <2> DEFINE al == Append(acts, NewActivity(Top.to, "completed", Top.branch))
  <2>1. /\ al \in Seq(Activity) /\ ActiveActs(al) = ActiveActs(acts)
        /\ WaitingAt(acts) \subseteq WaitingAt(al)
    BY <1>1, <1>3, NewActivityType, AppendRows DEF RowsOK
  <2> HIDE DEF al
  <2>2. RowsOK(Entered, al, irregular) /\ Entered.status = inst.status
    BY <1>1, <2>1, EnteredOK DEF RowsOK
  <2>3. acts' = al /\ inst' = tryCompleteProcess(Entered, al)
    BY <1>6 DEF ReachEndEvent, al
  <2>4. inst'.status \notin {"absent", "cancelled"}
    BY <1>1, <2>2, <2>3 DEF tryCompleteProcess, RowsOK, Instance
  <2> QED
    BY <1>1, <1>2, <1>6, <2>2, <2>3, <2>4, TryCompleteOK DEF ReachEndEvent
<1>7. CASE WaitAtElement
  <2>1. /\ acts' \in Seq(Activity) /\ Top.to \in WaitingAt(acts')
        /\ WaitingAt(acts) \subseteq WaitingAt(acts')
    <3> DEFINE a == NewActivity(Top.to, "active", Top.branch)
    <3>1. a \in Activity /\ a.el = Top.to /\ a.status = "active"
      BY <1>1, <1>3, NewActivityType
    <3>2. acts \in Seq(Activity) /\ acts' = Append(acts, a)
      BY <1>1, <1>7 DEF WaitAtElement, RowsOK
    <3> HIDE DEF a
    <3> QED
      BY <3>1, <3>2, AppendRows
  <2>2. RowsOK(Entered, acts, irregular) /\ Entered.status = inst.status
    BY <1>1, EnteredOK
  <2>3. RowsOK(inst', acts', irregular) /\ inst'.status = inst.status
    BY <1>1, <1>3, <1>7, <2>1, <2>2 DEF WaitAtElement, appendUnique, RowsOK, Instance, JoinsOpen
  <2> QED
    BY <1>1, <1>2, <1>7, <2>3 DEF WaitAtElement
<1>8. CASE PassElement
  <2>1. /\ acts' \in Seq(Activity) /\ ActiveActs(acts') = ActiveActs(acts)
        /\ WaitingAt(acts) \subseteq WaitingAt(acts')
    BY <1>1, <1>3, <1>8, NewActivityType, AppendRows DEF PassElement, RowsOK
  <2>2. RowsOK(Entered, acts, irregular) /\ Entered.status = inst.status
    BY <1>1, EnteredOK
  <2>3. RowsOK(inst', acts', irregular) /\ inst'.status = inst.status
    BY <1>1, <1>3, <1>8, <2>1, <2>2 DEF PassElement, removeString, RowsOK, Instance, JoinsOpen
  <2>4. StackOK(stack')
    <3>0. PICK T \in SUBSET (OutgoingFlows(Top.to) \cap Conditional) :
            \E s \in InOrder(Routes(Top.to, T, NoFlow)) :
               stack' = FlowEntries(s, NoFlow) \o Tail(stack)
      BY <1>8 DEF PassElement
    <3>1. PICK s \in InOrder(Routes(Top.to, T, NoFlow)) :
            stack' = FlowEntries(s, NoFlow) \o Tail(stack)
      BY <3>0
    <3>2. StackOK(FlowEntries(s, NoFlow))
      BY RoutesType, RoutesOK DEF Branches
    <3> QED
      BY <1>2, <3>1, <3>2, ConcatOK
  <2> QED
    BY <1>1, <1>8, <2>3, <2>4 DEF PassElement
<1> QED
  BY <1>4, <1>5, <1>6, <1>7, <1>8 DEF Traverse

\* The invariant is preserved by every step of the engine on an open
\* transaction.
LEMMA TraverseInv == ASSUME IInv, Traverse PROVE IInv'
<1>1. UNCHANGED <<jobs, tx, committed, worker, irregular>> /\ tx # "idle"
  BY DEF Traverse, Idle
<1>2. /\ RowsOK(inst', acts', irregular) /\ inst'.status \notin {"absent", "cancelled"}
      /\ StackOK(stack') /\ scope' \in ScopeIDs
  BY TraverseRows
<1>3. CommittedOK' /\ JobsOK'
  BY <1>1 DEF IInv, CommittedOK, JobsOK, Unrun
<1>4. TxOK'
  BY <1>1, <1>2 DEF IInv, TxOK
<1> QED
  BY <1>1, <1>2, <1>3, <1>4 DEF IInv

LEMMA CommitInv == ASSUME IInv, Commit PROVE IInv'
<1>1. /\ tx # "idle" /\ stack = <<>> /\ tx' = "idle" /\ scope' = NoScope
      /\ committed' = Rows(inst, acts)
      /\ worker' = IF tx = "job" THEN [worker EXCEPT !.phase = "ran"] ELSE worker
      /\ UNCHANGED <<inst, acts, jobs, stack, irregular>>
  BY DEF Commit, Idle, WorkerAfter
<1>2. committed'.inst = inst /\ committed'.acts = acts
  BY <1>1 DEF Rows
<1>3. CommittedOK'
  BY <1>1, <1>2 DEF IInv, CommittedOK, Rows, RowsOK
<1>4. TxOK'
  BY <1>1 DEF TxOK, ScopeIDs
<1>5. inst.status # "absent" /\ worker \in Worker
  BY <1>1 DEF IInv, TxOK, JobsOK
<1>6. /\ worker' \in Worker /\ worker'.job = worker.job
      /\ worker'.phase = IF tx = "job" THEN "ran" ELSE worker.phase
  BY <1>1, <1>5 DEF Worker
<1>7. \A j \in DOMAIN jobs : jobs[j].type = "start" => ~Unrun(j)'
  <2> SUFFICES ASSUME NEW j \in DOMAIN jobs, jobs[j].type = "start", Unrun(j)' PROVE FALSE
    OBVIOUS
  <2>1. Unrun(j) /\ committed.inst.status = "pending" /\ j = 1
    BY <1>1, <1>6 DEF Unrun, IInv, JobsOK
  <2>2. tx = "job" /\ worker.phase = "claimed"
    BY <1>1, <2>1 DEF IInv, TxOK
  <2>3. worker.job \in DOMAIN jobs /\ jobs[worker.job].status = "running"
    BY <2>2 DEF IInv, JobsOK
  <2>4. jobs[worker.job].type = "start"
    <3>1. jobs[worker.job] \in Job
      BY <2>3 DEF IInv, JobsOK
    <3>2. jobs[worker.job].type \in {"start", "continue"}
      BY <3>1 DEF Job
    <3> QED
      BY <2>1, <2>2, <3>2 DEF IInv, TxOK
  <2>5. worker.job = 1
    BY <2>3, <2>4 DEF IInv, JobsOK
  <2> QED
    BY <1>1, <1>6, <2>1, <2>2, <2>3, <2>5 DEF Unrun
<1>8. JobsOK'
  <2>1. \A j \in DOMAIN jobs :
          /\ jobs[j].type = "continue" => jobs[j].el \in Elements
          /\ jobs[j].type = "start" => j = 1
    BY DEF IInv, JobsOK
  <2>2. worker'.phase = "claimed" => worker.phase = "claimed"
    BY <1>6
  <2>3. worker'.phase # "idle" => worker.phase # "idle"
    BY <1>1, <1>6 DEF IInv, TxOK
  <2> QED
    BY <1>1, <1>2, <1>5, <1>6, <1>7, <2>1, <2>2, <2>3 DEF IInv, JobsOK
<1> QED
  BY <1>1, <1>3, <1>4, <1>8 DEF IInv

\* Rolling back restores the committed rows; the worker lets go of its job.
LEMMA RollBackInv ==
    ASSUME IInv, RollBack, worker' \in Worker,
           worker'.phase # "idle" => worker'.job = worker.job /\ worker.phase # "idle",
           worker'.phase # "claimed" \/ worker' = worker
    PROVE  IInv'
<1>1. /\ tx' = "idle" /\ scope' = NoScope /\ stack' = <<>> /\ inst' = committed.inst
      /\ acts' = committed.acts /\ UNCHANGED <<jobs, committed, irregular>>
  BY DEF RollBack
<1>2. RowsOK(inst', acts', irregular) /\ CommittedOK'
  BY <1>1 DEF IInv, CommittedOK
<1>3. StackOK(stack')
  BY <1>1 DEF StackOK
<1>4. TxOK'
  <2>1. committed = Rows(committed.inst, committed.acts)
    BY DEF IInv, CommittedOK, Rows
  <2> QED
    BY <1>1, <2>1 DEF TxOK, Rows, ScopeIDs
<1>5. JobsOK'
  BY <1>1 DEF IInv, JobsOK, Unrun
<1> QED
  BY <1>1, <1>2, <1>3, <1>4, <1>5 DEF IInv

LEMMA FailInv == ASSUME IInv, FailTraversal PROVE IInv'
<1>1. /\ RollBack /\ tx # "idle" /\ worker \in Worker
      /\ worker' = IF tx = "job" THEN [worker EXCEPT !.phase = "erred"] ELSE worker
  BY DEF FailTraversal, WorkerAfter, Idle, IInv, JobsOK
<1>2. tx = "job" => worker.phase = "claimed"
  BY DEF IInv, TxOK
<1> QED
  BY <1>1, <1>2, RollBackInv DEF Worker

LEMMA CrashInv == ASSUME IInv, Crash PROVE IInv'
<1>1. RollBack /\ worker' = IdleWorker
  BY DEF Crash
<1> QED
  BY <1>1, RollBackInv DEF IdleWorker, Worker

-----------------------------------------------------------------------------
(* Requests *)

\* Between transactions the instance row read is the committed one.
LEMMA IdleRows ==
    ASSUME IInv, Idle
    PROVE  /\ committed.inst = inst /\ committed.acts = acts /\ stack = <<>>
           /\ RowsOK(inst, acts, irregular) /\ tx = "idle"
BY DEF IInv, TxOK, Idle, Rows

\* A transaction that opens on sound rows with a sound stack.
LEMMA BeginInv ==
    ASSUME IInv, Idle, NEW owner \in {"request", "job"}, NEW entries, Begin(owner, entries),
           StackOK(entries), RowsOK(inst', acts', irregular),
           inst'.status \notin {"absent", "cancelled"},
           UNCHANGED <<jobs, worker>>,
           owner = "request" => inst.status \in {"absent", "running"},
           owner = "job" => /\ worker.phase = "claimed"
                            /\ jobs[worker.job].type = "continue" => inst.status = "running"
    PROVE  IInv'
<1>1. /\ tx' = owner /\ stack' = entries /\ scope' = NoScope /\ committed' = committed
      /\ committed.inst = inst /\ irregular' = irregular
  BY IdleRows DEF Begin
<1>2. CommittedOK' /\ JobsOK'
  BY <1>1 DEF IInv, CommittedOK, JobsOK, Unrun
<1>3. TxOK'
  BY <1>1 DEF TxOK, ScopeIDs
<1> QED
  BY <1>1, <1>2, <1>3 DEF IInv

\* A transaction that writes and commits in one step, the jobs left alone.
LEMMA WritesRows ==
    ASSUME IInv, Idle, CommitWrites, RowsOK(inst', acts', irregular')
    PROVE  /\ RowsOK(inst', acts', irregular') /\ CommittedOK' /\ StackOK(stack') /\ TxOK'
           /\ committed'.inst = inst' /\ UNCHANGED worker
<1>1. /\ committed' = Rows(inst', acts') /\ UNCHANGED <<stack, scope, tx, worker>>
      /\ tx = "idle"
  BY DEF CommitWrites, Idle
<1>2. committed'.inst = inst' /\ committed'.acts = acts'
  BY <1>1 DEF Rows
<1>3. CommittedOK'
  BY <1>1, <1>2 DEF CommittedOK, Rows, RowsOK
<1>4. TxOK'
  BY <1>1 DEF IInv, TxOK, Rows
<1> QED
  BY <1>1, <1>2, <1>3, <1>4 DEF IInv

LEMMA WritesInv ==
    ASSUME IInv, Idle, inst.status = "running", CommitWrites, UNCHANGED jobs,
           RowsOK(inst', acts', irregular'), irregular' \subseteq Irregularities,
           inst'.status # "absent"
    PROVE  IInv'
<1>1. /\ CommittedOK' /\ StackOK(stack') /\ TxOK' /\ committed'.inst = inst'
      /\ UNCHANGED worker /\ committed.inst = inst
  BY WritesRows, IdleRows
<1>2. JobsOK'
  BY <1>1 DEF IInv, JobsOK, Unrun
<1> QED
  BY <1>1, <1>2 DEF IInv

LEMMA StartInv == ASSUME IInv, StartProcess PROVE IInv'
<1>1. PICK chosen \in StartChoices : Begin("request", StartEntries(chosen))
  BY DEF StartProcess
<1>2. /\ Idle /\ inst.status = "absent" /\ acts' = acts /\ UNCHANGED <<jobs, worker>>
      /\ inst' = [NoInstance EXCEPT !.status = "running"]
  BY DEF StartProcess
<1>3. chosen \in Elements \cup {NoElement}
  BY DefinitionAssumption DEF DefinitionAssumption, StartChoices
<1>4. StackOK(StartEntries(chosen))
  BY <1>3, StartEntriesType DEF StackOK
<1>5. RowsOK(inst', acts', irregular) /\ inst'.status = "running"
  BY <1>2, NoInstanceOK DEF IInv, RowsOK
<1> QED
  BY <1>1, <1>2, <1>4, <1>5, BeginInv

LEMMA StartAsyncInv == ASSUME IInv, StartProcessAsync PROVE IInv'
<1>1. PICK chosen \in StartChoices :
        jobs' = Append(jobs, [type |-> "start", el |-> chosen, status |-> "pending"])
  BY DEF StartProcessAsync
<1>2. /\ Idle /\ inst.status = "absent" /\ acts' = acts /\ CommitWrites
      /\ irregular' = irregular
      /\ inst' = [NoInstance EXCEPT !.status = "pending"]
  BY DEF StartProcessAsync
<1>3. chosen \in Elements \cup {NoElement}
  BY DefinitionAssumption DEF DefinitionAssumption, StartChoices
<1>4. RowsOK(inst', acts', irregular) /\ inst'.status = "pending"
  BY <1>2, NoInstanceOK DEF IInv, RowsOK
<1>5. /\ CommittedOK' /\ StackOK(stack') /\ TxOK' /\ committed'.inst = inst'
      /\ UNCHANGED worker /\ committed.inst = inst
  BY <1>2, <1>4, WritesRows, IdleRows
<1>6. jobs = <<>> /\ worker.phase = "idle" /\ worker \in Worker
  BY <1>2, <1>5 DEF IInv, JobsOK
<1>7. /\ jobs' \in Seq(Job) /\ DOMAIN jobs' = {1}
      /\ jobs'[1].type = "start" /\ jobs'[1].status = "pending"
  BY <1>1, <1>3, <1>6 DEF Job
<1>8. JobsOK'
  BY <1>4, <1>5, <1>6, <1>7 DEF JobsOK, Unrun
<1> QED
  BY <1>2, <1>4, <1>5, <1>8 DEF IInv

\* Closing an activity and taking its element off the waiting list.
LEMMA CloseOK ==
    ASSUME RowsOK(inst, acts, irregular), NEW i \in DOMAIN acts,
           NEW outcome \in {"none", "approve", "reject"}
    PROVE  /\ RowsOK([inst EXCEPT !.active = removeString(@, {acts[i].el})],
                     Finished(acts, i, outcome), irregular)
           /\ [inst EXCEPT !.active = removeString(@, {acts[i].el})].status = inst.status
           /\ acts[i].el \in Elements
<1>1. acts \in Seq(Activity) /\ acts[i] \in Activity
  BY DEF RowsOK
<1>2. /\ Finished(acts, i, outcome) \in Seq(Activity)
      /\ ActiveActs(Finished(acts, i, outcome)) \subseteq ActiveActs(acts)
      /\ WaitingAt(acts) \ {acts[i].el} \subseteq WaitingAt(Finished(acts, i, outcome))
  BY <1>1, FinishedRows
<1>3. RowsOK([inst EXCEPT !.active = removeString(@, {acts[i].el})],
             Finished(acts, i, outcome), irregular)
  BY <1>2, LeaveOK
<1> QED
  BY <1>1, <1>3 DEF RowsOK, Instance, Activity

\* completeElement: the activity is closed and its flows are entered.
LEMMA ContinueInv ==
    ASSUME IInv, Running, NEW i \in DOMAIN acts, NEW outcome \in {"none", "approve", "reject"},
           NEW T, NEW sel, Continue(i, outcome, T, sel), UNCHANGED <<jobs, worker>>
    PROVE  IInv'
<1>1. Idle /\ inst.status = "running" /\ RowsOK(inst, acts, irregular)
  BY DEF Running, IInv
<1>2. /\ acts' = Finished(acts, i, outcome)
      /\ inst' = [inst EXCEPT !.active = removeString(@, {acts[i].el})]
  BY DEF Continue
<1>3. PICK s \in InOrder(Routes(acts[i].el, T, sel)) : Begin("request", FlowEntries(s, NoFlow))
  BY DEF Continue
<1>4. StackOK(FlowEntries(s, NoFlow))
  BY RoutesType, RoutesOK DEF Branches
<1>5. RowsOK(inst', acts', irregular) /\ inst'.status = "running"
  BY <1>1, <1>2, CloseOK
<1> QED
  BY <1>1, <1>3, <1>4, <1>5, BeginInv

LEMMA ApproveInv == ASSUME IInv, NEW i \in DOMAIN acts, ApproveTask(i) PROVE IInv'
<1>1. Running /\ Continue(i, "approve", {}, NoFlow) /\ UNCHANGED <<jobs, worker>>
  BY DEF ApproveTask
<1> QED
  BY <1>1, ContinueInv

LEMMA CompleteInv == ASSUME IInv, NEW i \in DOMAIN acts, CompleteActivity(i) PROVE IInv'
<1>1. Running /\ UNCHANGED <<jobs, worker>> /\ \E T, sel : Continue(i, "none", T, sel)
  BY DEF CompleteActivity
<1> QED
  BY <1>1, ContinueInv

LEMMA ApproveAsyncInv == ASSUME IInv, NEW i \in DOMAIN acts, ApproveTaskAsync(i) PROVE IInv'
<1> DEFINE job == [type |-> "continue", el |-> acts[i].el, status |-> "pending"]
<1>1. /\ Idle /\ inst.status = "running" /\ CommitWrites /\ jobs' = Append(jobs, job)
      /\ irregular' = irregular
      /\ acts' = Finished(acts, i, "approve")
      /\ inst' = [inst EXCEPT !.active = removeString(@, {acts[i].el})]
  BY DEF ApproveTaskAsync, Running
<1>2. RowsOK(inst', acts', irregular) /\ inst'.status = "running" /\ acts[i].el \in Elements
  BY <1>1, CloseOK DEF IInv
<1>3. /\ CommittedOK' /\ StackOK(stack') /\ TxOK' /\ committed'.inst = inst'
      /\ UNCHANGED worker /\ committed.inst = inst
  BY <1>1, <1>2, WritesRows, IdleRows
<1>4. job \in Job /\ job.type = "continue" /\ job.el \in Elements
  BY <1>2 DEF Job
<1> HIDE DEF job
<1>5. jobs \in Seq(Job) /\ Len(jobs) \in Nat /\ DOMAIN jobs = 1..Len(jobs)
  BY DEF IInv, JobsOK
<1>6. /\ jobs' \in Seq(Job) /\ DOMAIN jobs' = 1..(Len(jobs) + 1)
      /\ \A j \in DOMAIN jobs : jobs'[j] = jobs[j]
      /\ jobs'[Len(jobs) + 1] = job
  BY <1>1, <1>4, <1>5
<1>7. \A j \in DOMAIN jobs' : j \in DOMAIN jobs \/ jobs'[j] = job
  BY <1>5, <1>6
<1>8. \A j \in DOMAIN jobs : jobs[j].type = "start" => j = 1 /\ ~Unrun(j)
  BY <1>1, <1>3 DEF IInv, JobsOK
<1>9. JobsOK'
  BY <1>1, <1>2, <1>3, <1>4, <1>5, <1>6, <1>7, <1>8 DEF IInv, JobsOK, Unrun
<1> QED
  BY <1>1, <1>2, <1>3, <1>9 DEF IInv

LEMMA RejectTerminatingInv == ASSUME IInv, NEW i \in DOMAIN acts, RejectTerminating(i) PROVE IInv'
<1> DEFINE al == Finished(acts, i, "reject")
           p  == [inst EXCEPT !.active = removeString(@, {acts[i].el})]
<1>1. /\ Idle /\ inst.status = "running" /\ CommitWrites /\ UNCHANGED <<jobs, irregular>>
      /\ cancelInstance(p, al) \/ terminateScope(p, al, acts[i].scope)
  BY DEF RejectTerminating, Running
<1>2. RowsOK(p, al, irregular) /\ p.status = "running"
  BY <1>1, CloseOK DEF IInv
<1> HIDE DEF al, p
<1>3. RowsOK(inst', acts', irregular) /\ inst'.status # "absent"
  BY <1>1, <1>2, CancelInstanceOK, TerminateScopeOK
<1>4. irregular' \subseteq Irregularities
  BY <1>1 DEF IInv
<1> QED
  BY <1>1, <1>3, <1>4, WritesInv

\* Whatever the scopeId names, the rows stay in step.
LEMMA TerminateInv == ASSUME IInv, Terminate PROVE IInv'
<1>1. /\ Idle /\ inst.status = "running" /\ CommitWrites /\ UNCHANGED jobs
      /\ \/ cancelInstance(inst, acts)
         \/ \E s \in ScopeArguments : terminateScope(inst, acts, s)
      /\ irregular' \in {irregular, irregular \cup {"no scope"}}
  BY DEF Terminate, Running
<1>2. RowsOK(inst, acts, irregular)
  BY DEF IInv
<1>3. RowsOK(inst', acts', irregular) /\ inst'.status # "absent"
  BY <1>1, <1>2, CancelInstanceOK, TerminateScopeOK
<1>4. irregular \subseteq irregular' /\ irregular' \subseteq Irregularities
  BY <1>1 DEF IInv, Irregularities
<1>5. RowsOK(inst', acts', irregular')
  BY <1>3, <1>4, MoreIrregular
<1> QED
  BY <1>1, <1>3, <1>4, <1>5, WritesInv

\* What a Terminate that stopped has written: activities are closed, and the
\* instance row is the old one or that of terminateScope before it completes.
LEMMA CutShortRows ==
    ASSUME IInv, TerminateCutShort
    PROVE  /\ Idle /\ inst.status = "running" /\ CommitWrites /\ UNCHANGED jobs
           /\ irregular' = irregular \cup {"cut short"}
           /\ \E I : acts' = Cancelled(acts, I)
           /\ \/ inst' = inst
              \/ \E s : /\ inst' = ScopeLeft(inst, acts, s)
                        /\ acts' = Cancelled(acts, InScope(acts, s))
           /\ inst' \in Instance /\ inst'.status = "running"
           /\ inst'.fired = inst.fired
           /\ acts' \in Seq(Activity) /\ DOMAIN acts' = DOMAIN acts
           /\ ActiveActs(acts') \subseteq ActiveActs(acts)
           /\ RowsOK(inst', acts', irregular')
<1>1. /\ Idle /\ inst.status = "running" /\ CommitWrites /\ UNCHANGED jobs
      /\ irregular' = irregular \cup {"cut short"}
      /\ \E I : acts' = Cancelled(acts, I)
      /\ \/ inst' = inst
         \/ \E s : /\ inst' = ScopeLeft(inst, acts, s)
                   /\ acts' = Cancelled(acts, InScope(acts, s))
  BY DEF TerminateCutShort, Running
<1>2. RowsOK(inst, acts, irregular) /\ inst \in Instance /\ acts \in Seq(Activity)
  BY DEF IInv, RowsOK
<1>3. /\ acts' \in Seq(Activity) /\ DOMAIN acts' = DOMAIN acts
      /\ ActiveActs(acts') \subseteq ActiveActs(acts)
  <2>1. PICK I : acts' = Cancelled(acts, I)
    BY <1>1
  <2> QED
    BY <1>2, <2>1, CancelledRows
<1>4. /\ inst' \in Instance /\ inst'.status = "running" /\ inst'.fired = inst.fired
      /\ JoinsOpen(inst')
  <2>1. CASE inst' = inst
    BY <1>1, <1>2, <2>1 DEF RowsOK
  <2>2. CASE inst' # inst
    <3>1. PICK s : /\ inst' = ScopeLeft(inst, acts, s)
                   /\ acts' = Cancelled(acts, InScope(acts, s))
      BY <1>1, <2>2
    <3>2. RowsOK(inst', acts', irregular) /\ inst'.status = inst.status
      BY <1>2, <3>1, ScopeLeftOK
    <3>3. inst'.fired = inst.fired
      BY <1>2, <3>1 DEF ScopeLeft, clearJoinStateInScope, Instance
    <3> QED
      BY <1>1, <3>2, <3>3 DEF RowsOK
  <2> QED
    BY <2>1, <2>2
<1>5. RowsOK(inst', acts', irregular')
  BY <1>1, <1>3, <1>4 DEF RowsOK, CutShort
<1> QED
  BY <1>1, <1>3, <1>4, <1>5

LEMMA TerminateCutShortInv == ASSUME IInv, TerminateCutShort PROVE IInv'
<1>1. irregular' \subseteq Irregularities
  BY CutShortRows DEF IInv, Irregularities
<1> QED
  BY <1>1, CutShortRows, WritesInv

LEMMA RejectReturningInv == ASSUME IInv, NEW i \in DOMAIN acts, RejectReturning(i) PROVE IInv'
<1> DEFINE al     == Finished(acts, i, "reject")
           peers  == BranchPeers(al, i)
           gone   == {acts[i].el} \cup {acts[j].el : j \in peers}
           p      == [inst EXCEPT !.active = removeString(@, gone)]
           target == ReturnTarget(acts[i].el)
<1>1. /\ Idle /\ inst.status = "running" /\ UNCHANGED <<jobs, worker>> /\ target # NoElement
      /\ acts' = Cancelled(al, peers)
      /\ inst' = clearJoinStateInScope(p, acts[i].scope)
      /\ Begin("request", <<ElementEntry(target, acts[i].branch)>>)
  BY DEF RejectReturning, Running
<1>2. RowsOK(inst, acts, irregular) /\ acts \in Seq(Activity) /\ acts[i] \in Activity
  BY DEF IInv, RowsOK
<1>3. acts[i].el \in Elements /\ acts[i].branch \in Branches
  BY <1>2 DEF Activity, Branches
<1>4. StackOK(<<ElementEntry(target, acts[i].branch)>>)
  <2>1. target \in Elements
    BY <1>1, <1>3, DefinitionAssumption DEF DefinitionAssumption
  <2> QED
    BY <1>3, <2>1, ElementOK
<1>5. /\ al \in Seq(Activity) /\ DOMAIN al = DOMAIN acts
      /\ \A j \in DOMAIN acts : al[j].el = acts[j].el
      /\ ActiveActs(al) \subseteq ActiveActs(acts)
      /\ WaitingAt(acts) \ {acts[i].el} \subseteq WaitingAt(al)
  BY <1>2, FinishedRows
<1>6. peers \subseteq DOMAIN al
  BY DEF BranchPeers, ActiveActs
<1> HIDE DEF al, peers
<1>7. /\ Cancelled(al, peers) \in Seq(Activity)
      /\ ActiveActs(Cancelled(al, peers)) \subseteq ActiveActs(al)
      /\ WaitingAt(al) \ {al[j].el : j \in peers} \subseteq WaitingAt(Cancelled(al, peers))
  <2>1. peers \cap DOMAIN al = peers
    BY <1>6
  <2> QED
    BY <1>5, <2>1, CancelledRows
<1>8. {al[j].el : j \in peers} = {acts[j].el : j \in peers}
  BY <1>5, <1>6
<1>9. WaitingAt(acts) \ gone \subseteq WaitingAt(Cancelled(al, peers))
  BY <1>5, <1>7, <1>8
<1> HIDE DEF gone, target
<1>10. RowsOK(p, Cancelled(al, peers), irregular) /\ p.status = "running"
  <2>1. RowsOK(p, Cancelled(al, peers), irregular)
    BY <1>2, <1>5, <1>7, <1>9, LeaveOK
  <2>2. p.status = "running"
    BY <1>1, <1>2 DEF RowsOK, Instance
  <2> QED
    BY <2>1, <2>2
<1> HIDE DEF p
<1>11. RowsOK(inst', acts', irregular) /\ inst'.status = "running"
  <2>1. RowsOK(inst', acts', irregular)
    BY <1>1, <1>10, ClearJoinOK
  <2>2. inst'.status = "running"
    BY <1>1, <1>10 DEF clearJoinStateInScope, RowsOK, Instance
  <2> QED
    BY <2>1, <2>2
<1> QED
  BY <1>1, <1>4, <1>11, BeginInv

LEMMA FireBoundaryInv ==
    ASSUME IInv, NEW i \in DOMAIN acts, NEW b \in BoundaryEvents, FireBoundary(i, b)
    PROVE  IInv'
<1> DEFINE host == acts[i]
           al   == IF b \in Interrupting THEN Cancelled(acts, {i}) ELSE acts
           fire == [el |-> b, status |-> "completed", outcome |-> "none",
                    scope |-> host.scope, branch |-> host.branch]
           gone == IF b \in Interrupting THEN {host.el} ELSE {}
           p    == [inst EXCEPT !.fired = @ \cup {<<i, b>>},
                                !.active = IF b \in Interrupting
                                           THEN removeString(@, {host.el}) ELSE @]
<1>1. /\ Idle /\ inst.status = "running" /\ UNCHANGED <<jobs, worker>>
      /\ acts' = Append(al, fire)
      /\ inst' = IF OutgoingFlows(b) = {} THEN tryCompleteProcess(p, Append(al, fire)) ELSE p
  BY DEF FireBoundary, Running
<1>2. PICK s \in InOrder(OutgoingFlows(b)) : Begin("request", FlowEntries(s, host.branch))
  BY DEF FireBoundary
<1>3. RowsOK(inst, acts, irregular) /\ acts \in Seq(Activity) /\ host \in Activity /\ i \in Nat
      /\ b \in Elements
  BY DEF IInv, RowsOK, BoundaryEvents
<1>4. fire \in Activity /\ fire.status = "completed" /\ host.branch \in Branches
  BY <1>3 DEF Activity, Branches
<1>5. StackOK(FlowEntries(s, host.branch))
  BY <1>4, RoutesOK
<1>6. /\ al \in Seq(Activity) /\ ActiveActs(al) \subseteq ActiveActs(acts)
      /\ WaitingAt(acts) \ gone \subseteq WaitingAt(al)
  <2>1. CASE b \in Interrupting
    <3>1. {acts[k].el : k \in {i} \cap DOMAIN acts} = {host.el}
      OBVIOUS
    <3> QED
      BY <1>3, <2>1, <3>1, CancelledRows
  <2>2. CASE b \notin Interrupting
    BY <1>3, <2>2
  <2> QED
    BY <2>1, <2>2
<1> HIDE DEF al, fire
<1>7. /\ Append(al, fire) \in Seq(Activity)
      /\ ActiveActs(Append(al, fire)) \subseteq ActiveActs(acts)
      /\ WaitingAt(acts) \ gone \subseteq WaitingAt(Append(al, fire))
  BY <1>4, <1>6, AppendRows
<1>8. RowsOK(p, Append(al, fire), irregular) /\ p.status = "running"
  <2>1. inst.fired \cup {<<i, b>>} \subseteq Nat \X Elements
    BY <1>3 DEF RowsOK, Instance
  <2>2. p \in Instance /\ p.joins = inst.joins /\ p.status = inst.status
        /\ p.active = inst.active \ gone
    BY <1>3, <2>1 DEF RowsOK, Instance, removeString
  <2> HIDE DEF p, gone
  <2> QED
    BY <1>1, <1>3, <1>7, <2>2 DEF RowsOK, JoinsOpen
<1> HIDE DEF p
<1>9. RowsOK(inst', acts', irregular)
  BY <1>1, <1>8, TryCompleteOK
<1>10. inst'.status \notin {"absent", "cancelled"}
  BY <1>1, <1>8 DEF tryCompleteProcess, RowsOK, Instance
<1> HIDE DEF host
<1> QED
  BY <1>1, <1>2, <1>5, <1>9, <1>10, BeginInv

-----------------------------------------------------------------------------
(* The worker *)

\* ks is js after job j has become st.
JobBecomes(js, ks, j, st) == ks = [js EXCEPT ![j].status = st]

\* A job that changes its status leaves the others as they are.
LEMMA JobRows ==
    ASSUME NEW js \in Seq(Job), NEW j \in DOMAIN js, NEW st \in {"running", "done", "failed"},
           NEW ks, JobBecomes(js, ks, j, st)
    PROVE  /\ ks \in Seq(Job) /\ DOMAIN ks = DOMAIN js
           /\ \A k \in DOMAIN js : /\ ks[k].type = js[k].type /\ ks[k].el = js[k].el
                                   /\ k # j => ks[k] = js[k]
           /\ ks[j].status = st
<1>0. ks = [js EXCEPT ![j].status = st]
  BY DEF JobBecomes
<1>1. DOMAIN js = 1..Len(js) /\ Len(js) \in Nat /\ DOMAIN ks = 1..Len(js)
  BY <1>0
<1>2. \A k \in 1..Len(js) : js[k] \in Job
  BY <1>1
<1>3. (\A k \in 1..Len(js) : k # j => ks[k] = js[k]) /\ ks[j] = [js[j] EXCEPT !.status = st]
  BY <1>0, <1>1
<1>4. ks[j] \in Job /\ ks[j].type = js[j].type /\ ks[j].el = js[j].el /\ ks[j].status = st
  BY <1>1, <1>2, <1>3 DEF Job
<1>5. \A k \in 1..Len(js) : ks[k] \in Job
  BY <1>2, <1>3, <1>4
<1>6. ks = [k \in 1..Len(js) |-> ks[k]]
  BY <1>0, <1>1
<1>7. ks \in Seq(Job)
  BY <1>1, <1>5, <1>6
<1>8. \A k \in DOMAIN js : /\ ks[k].type = js[k].type /\ ks[k].el = js[k].el
                           /\ k # j => ks[k] = js[k]
  BY <1>1, <1>3, <1>4
<1> QED
  BY <1>1, <1>4, <1>7, <1>8

LEMMA ClaimInv == ASSUME IInv, ClaimNextJob PROVE IInv'
<1>1. PICK j \in First(PendingJobs) : /\ jobs' = [jobs EXCEPT ![j].status = "running"]
                                      /\ worker' = [job |-> j, phase |-> "claimed"]
  BY DEF ClaimNextJob
<1>2. UNCHANGED <<inst, acts, stack, scope, tx, committed, irregular>> /\ tx = "idle"
  BY DEF ClaimNextJob, Idle
<1>3. j \in DOMAIN jobs /\ jobs[j].status = "pending" /\ jobs \in Seq(Job)
  BY DEF First, PendingJobs, IInv, JobsOK
<1>4. /\ jobs' \in Seq(Job) /\ DOMAIN jobs' = DOMAIN jobs
      /\ \A k \in DOMAIN jobs : /\ jobs'[k].type = jobs[k].type /\ jobs'[k].el = jobs[k].el
                                /\ k # j => jobs'[k] = jobs[k]
      /\ jobs'[j].status = "running"
  <2>1. JobBecomes(jobs, jobs', j, "running")
    BY <1>1 DEF JobBecomes
  <2> QED
    BY <1>3, <2>1, JobRows
<1>5. worker' \in Worker /\ worker'.job = j /\ worker'.phase = "claimed"
  BY <1>1, <1>3 DEF Worker
<1>6. \A k \in DOMAIN jobs : Unrun(k)' => Unrun(k)
  BY <1>3, <1>4, <1>5 DEF Unrun
<1>7. JobsOK'
  BY <1>2, <1>3, <1>4, <1>5, <1>6 DEF IInv, JobsOK
<1>8. TxOK' /\ CommittedOK' /\ RowsOK(inst', acts', irregular) /\ StackOK(stack')
  BY <1>2 DEF IInv, TxOK, CommittedOK
<1> QED
  BY <1>2, <1>7, <1>8 DEF IInv

LEMMA StartJobInv == ASSUME IInv, runStartJob PROVE IInv'
<1>1. /\ Idle /\ worker.phase = "claimed" /\ jobs[worker.job].type = "start"
      /\ inst' = [inst EXCEPT !.status = "running"]
      /\ Begin("job", StartEntries(jobs[worker.job].el))
      /\ UNCHANGED <<acts, jobs, worker>>
  BY DEF runStartJob
<1>2. jobs[worker.job] \in Job
  BY <1>1 DEF IInv, JobsOK
<1>3. jobs[worker.job].el \in Elements \cup {NoElement}
  BY <1>2 DEF Job
<1>4. StackOK(StartEntries(jobs[worker.job].el))
  BY <1>3, StartEntriesType DEF StackOK
<1>5. RowsOK(inst', acts', irregular) /\ inst'.status = "running"
  BY <1>1 DEF IInv, RowsOK, Instance, Statuses, JoinsOpen
<1> QED
  BY <1>1, <1>4, <1>5, BeginInv

LEMMA ContinueJobInv == ASSUME IInv, runContinueJob PROVE IInv'
<1> DEFINE e == jobs[worker.job].el
<1>1. /\ Idle /\ worker.phase = "claimed" /\ jobs[worker.job].type = "continue"
      /\ UNCHANGED <<acts, jobs>>
  BY DEF runContinueJob
<1>2. worker \in Worker /\ worker.job \in DOMAIN jobs
  BY <1>1 DEF IInv, JobsOK
<1>3. CASE /\ inst.status = "running"
           /\ inst' = [inst EXCEPT !.active = removeString(@, {e})]
           /\ \E s \in InOrder(Routes(e, {}, NoFlow)) : Begin("job", FlowEntries(s, NoFlow))
           /\ UNCHANGED worker
  <2>1. PICK s \in InOrder(Routes(e, {}, NoFlow)) : Begin("job", FlowEntries(s, NoFlow))
    BY <1>3
  <2>2. StackOK(FlowEntries(s, NoFlow))
    BY RoutesType, RoutesOK DEF Branches
  <2>3. RowsOK(inst', acts', irregular) /\ inst'.status = "running"
    BY <1>1, <1>3 DEF IInv, RowsOK, Instance, JoinsOpen, removeString
  <2> QED
    BY <1>1, <1>3, <2>1, <2>2, <2>3, BeginInv
<1>4. CASE /\ worker' = [worker EXCEPT !.phase = "erred"]
           /\ UNCHANGED <<inst, tx, committed, stack, scope, irregular>>
  <2>1. worker' \in Worker /\ worker'.job = worker.job /\ worker'.phase = "erred"
    BY <1>2, <1>4 DEF Worker
  <2>2. JobsOK'
    BY <1>1, <1>2, <1>4, <2>1 DEF IInv, JobsOK, Unrun
  <2>3. TxOK' /\ CommittedOK' /\ RowsOK(inst', acts', irregular) /\ StackOK(stack')
    BY <1>1, <1>4 DEF IInv, TxOK, CommittedOK, Idle
  <2> QED
    BY <1>4, <2>2, <2>3 DEF IInv
<1> QED
  BY <1>3, <1>4 DEF runContinueJob

LEMMA FinishJobInv == ASSUME IInv, FinishJob PROVE IInv'
<1>1. /\ Idle /\ worker.phase \in {"ran", "erred"} /\ worker' = IdleWorker
      /\ UNCHANGED <<inst, acts, stack, scope, tx, committed, irregular>>
  BY DEF FinishJob
<1>2. PICK w \in DOMAIN jobs, st \in {"running", "done", "failed"} :
        st # "pending" /\ jobs' = [jobs EXCEPT ![w].status = st]
  <2>1. worker.job \in DOMAIN jobs
    BY <1>1 DEF IInv, JobsOK
  <2>2. CASE worker.phase = "ran"
    BY <2>1, <2>2 DEF FinishJob
  <2>3. CASE worker.phase = "erred"
    BY <2>1, <2>3 DEF FinishJob
  <2> QED
    BY <1>1, <2>2, <2>3
<1>3. /\ jobs' \in Seq(Job) /\ DOMAIN jobs' = DOMAIN jobs
      /\ \A k \in DOMAIN jobs : /\ jobs'[k].type = jobs[k].type /\ jobs'[k].el = jobs[k].el
                                /\ k # w => jobs'[k] = jobs[k]
      /\ jobs'[w].status = st
  <2>1. jobs \in Seq(Job)
    BY DEF IInv, JobsOK
  <2>2. JobBecomes(jobs, jobs', w, st)
    BY <1>2 DEF JobBecomes
  <2> QED
    BY <2>1, <2>2, JobRows
<1>4. worker' \in Worker /\ worker'.phase = "idle"
  BY <1>1 DEF Worker, IdleWorker
<1>5. \A k \in DOMAIN jobs : Unrun(k)' => Unrun(k)
  BY <1>2, <1>3, <1>4 DEF Unrun
<1>6. jobs # <<>>
  BY <1>2
<1>7. JobsOK'
  BY <1>1, <1>3, <1>4, <1>5, <1>6 DEF IInv, JobsOK
<1>8. TxOK' /\ CommittedOK' /\ RowsOK(inst', acts', irregular) /\ StackOK(stack')
  BY <1>1 DEF IInv, TxOK, CommittedOK, Idle
<1> QED
  BY <1>1, <1>7, <1>8 DEF IInv

-----------------------------------------------------------------------------
(* Theorems *)

\* Every step preserves the invariant.
LEMMA NextInv == IInv /\ [Next]_vars => IInv'
<1> SUFFICES ASSUME IInv, [Next]_vars PROVE IInv'
  OBVIOUS
<1>1. CASE Request
  BY <1>1, StartInv, StartAsyncInv, ApproveInv, ApproveAsyncInv, CompleteInv,
     RejectTerminatingInv, RejectReturningInv, FireBoundaryInv, TerminateInv,
     TerminateCutShortInv DEF Request
<1>2. CASE Engine
  BY <1>2, TraverseInv, CommitInv, FailInv DEF Engine
<1>3. CASE WorkerStep
  BY <1>3, ClaimInv, StartJobInv, ContinueJobInv, FinishJobInv DEF WorkerStep
<1>4. CASE Crash
  BY <1>4, CrashInv
<1>5. CASE UNCHANGED vars
  BY <1>5 DEF vars, IInv, CommittedOK, TxOK, JobsOK, Unrun
<1> QED
  BY <1>1, <1>2, <1>3, <1>4, <1>5 DEF Next

\* The type invariant, for every definition.
THEOREM TypeCorrect == Spec => []TypeOK
<1>1. IInv => TypeOK
  BY DEF IInv, RowsOK, CommittedOK, StackOK, TxOK, JobsOK, TypeOK
<1> QED
  BY <1>1, InitInv, NextInv, PTL DEF Spec

\* ActiveElements never lists an element without an open activity, whatever the
\* definition, however forks, joins, rejections, boundary events and terminations
\* mix and wherever the server stops, but for a stop between the writes of one
\* Terminate (engine.go: activateElement, completeElement; reject.go; boundary.go).
THEOREM WaitingListIsSound == Spec => []WaitingListSound
<1>1. IInv => WaitingListSound
  BY DEF IInv, RowsOK, WaitingListSound, CutShort
<1> QED
  BY <1>1, InitInv, NextInv, PTL DEF Spec

\* A join that has collected its last flow fires at once: none is ever found
\* complete (engine.go: activateViaFlow, joinComplete).
THEOREM JoinsFireAtOnce == Spec => []JoinNeverFull
<1>1. IInv => JoinNeverFull
  BY DEF IInv, RowsOK, JoinsOpen, JoinNeverFull
<1> QED
  BY <1>1, InitInv, NextInv, PTL DEF Spec

\* A cancelled instance has no open activity (reject.go: cancelInstance).
THEOREM CancelledIsQuiet == Spec => []CancelledMeansQuiet
<1>1. IInv => CancelledMeansQuiet
  BY DEF IInv, RowsOK, CancelledMeansQuiet
<1> QED
  BY <1>1, InitInv, NextInv, PTL DEF Spec

\* A committed final status is final: no request, job, crash or late
\* continuation takes an instance out of it (the status checks of CompleteTask,
\* CompleteActivity, Terminate, TriggerBoundary and runContinueJob).
THEOREM FinalStatusIsFinal == Spec => TerminalIsFinal
<1> DEFINE Keeps == committed.inst.status \in Terminal
                      => committed'.inst.status = committed.inst.status
<1>1. IInv /\ [Next]_vars => [Keeps]_vars
  <2> SUFFICES ASSUME IInv, Next, committed.inst.status \in Terminal
               PROVE  committed' = committed
    BY DEF vars
  <2>1. committed.inst.status \notin {"absent", "pending", "running"}
    BY DEF Terminal
  <2>2. Idle => inst.status \in Terminal
    BY IdleRows
  <2>3. ~Running /\ (Idle => inst.status # "absent")
    BY <2>1, <2>2 DEF Running, Terminal
  <2>4. Idle
    <3>1. tx = "job" => jobs[worker.job].type # "continue"
      BY <2>1 DEF IInv, TxOK
    <3>2. tx = "job" => worker.job \in DOMAIN jobs /\ worker.phase = "claimed"
      BY DEF IInv, TxOK, JobsOK
    <3>3. tx = "job" => jobs[worker.job] \in Job
      BY <3>2 DEF IInv, JobsOK
    <3>4. tx = "job" => jobs[worker.job].type = "start"
      BY <3>1, <3>3 DEF Job
    <3>5. tx # "job"
      BY <2>1, <3>2, <3>4 DEF IInv, JobsOK, Unrun
    <3> QED
      BY <2>1, <3>5 DEF IInv, TxOK, Idle
  <2>5. ~Request
    BY <2>3 DEF Request, StartProcess, StartProcessAsync, ApproveTask, ApproveTaskAsync,
       CompleteActivity, RejectTerminating, RejectReturning, FireBoundary, Terminate,
       TerminateCutShort
  <2>6. CASE Engine
    BY <2>4, <2>6 DEF Engine, Traverse, Commit, FailTraversal
  <2>7. CASE WorkerStep
    BY <2>7 DEF WorkerStep, ClaimNextJob, runStartJob, runContinueJob, FinishJob, Begin
  <2>8. CASE Crash
    BY <2>8 DEF Crash, RollBack
  <2> QED
    BY <2>5, <2>6, <2>7, <2>8 DEF Next
<1>2. TerminalIsFinal <=> [][Keeps]_vars
  BY DEF TerminalIsFinal
<1> HIDE DEF Keeps
<1> QED
  BY <1>1, <1>2, InitInv, NextInv, PTL DEF Spec
=============================================================================
