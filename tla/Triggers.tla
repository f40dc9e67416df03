------------------------------- MODULE Triggers -------------------------------
(***************************************************************************)
(* Messages, signals and conditions that start processes                   *)
(* (internal/engine/trigger.go, trigger_signal.go, collaboration_trigger.go *)
(* over Engine.StartProcess).  A call is no transaction: between the lists *)
(* it reads, the search for a running instance, and each start, the steps  *)
(* of other calls, of the worker and of users interleave.                  *)
(*                                                                         *)
(* A deployed start event and a message flow are records; Starts and       *)
(* Partners hold them in the order ListProcesses and the definitions give. *)
(* What an instance does after its start is left to TokenFlow: it waits or *)
(* completes.                                                              *)
(***************************************************************************)
EXTENDS Integers, Sequences, FiniteSets

CONSTANTS
    Callers,    \* who may be calling the engine
    Keys,       \* business keys
    Starts,     \* <<[process, type, ref, correlates, condition]>>
    Partners,   \* <<[owner, ref, partner]>>: message flows to another pool
    Waits,      \* processes that wait for a user after their start
    Boundaries, \* <<process, ref>>: interrupting message boundary events on the waiting task
    Budgets     \* bounds on faults of the store, calls of the API, events, completions and
                \* deletions, and stops of the server

NoKey == ""
StartEvents == DOMAIN Starts
Processes == {Starts[s].process : s \in StartEvents}

\* What triggers: a message or signal name, a process or a boundary event, the
\* business key of the request, the key found in the variables under the correlation
\* path, and for a boundary event the instance, which need not exist.
Messages(Refs) == [kind : {"message", "signal", "conditional", "start", "boundary"}, ref : Refs,
                   businessKey : Keys \cup {NoKey}, payload : Keys \cup {NoKey},
                   instance : Nat]

ASSUME TriggersAssumption ==
    /\ NoKey \notin Keys /\ Waits \subseteq Processes
    /\ \A s \in StartEvents :
         /\ Starts[s].type \in {"none", "message", "signal", "conditional"}
         /\ Starts[s].correlates \in BOOLEAN
         /\ Starts[s].condition \in {"holds", "fails", "error"}

VARIABLES
    async,    \* Engine.async
    deployed, \* processes that have a version
    insts,    \* the instances in the order of their creation
    calls,    \* the call each caller is in
    left      \* what is left of the budget

triggerVars == <<async, deployed, insts, calls, left>>

Idle == [at |-> "idle"]

Init ==
    /\ async \in BOOLEAN
    /\ deployed = Processes
    /\ insts = <<>>
    /\ calls = [c \in Callers |-> Idle]
    /\ left \in Budgets

InstanceIDs == DOMAIN insts
At(c, step) == calls[c].at = step
Msg(c) == calls[c].msg
Spend(what) == left[what] > 0 /\ left' = [left EXCEPT ![what] = @ - 1]

-----------------------------------------------------------------------------
(* Matching *)

\* MessageStartMatch, SignalStartMatch, ConditionalStartMatch.  A condition that
\* cannot be evaluated is reported among the matches and starts nothing.
StartMatch(s, m) ==
    /\ Starts[s].type = m.kind
    /\ m.kind # "conditional" => Starts[s].ref = m.ref
    /\ Starts[s].condition = "holds"

Matching(m) == {s \in StartEvents : Starts[s].process \in deployed /\ StartMatch(s, m)}

\* The key of the request, or the one the correlation path of the start event
\* gives; signals and conditions have only the former.
BusinessKey(s, m) ==
    IF m.businessKey = NoKey /\ Starts[s].correlates /\ m.kind = "message"
    THEN m.payload ELSE m.businessKey

\* Pending instances are not found.
FindRunningInstanceByBusinessKey(p, k) ==
    {n \in InstanceIDs : insts[n].process = p /\ insts[n].key = k /\ insts[n].status = "running"}

-----------------------------------------------------------------------------
(* A call *)

\* ListProcesses; TriggerMessage looks for an instance before each start, StartProcess
\* itself starts the process it is given, and TriggerBoundary reads the instance.
Scan(c, m) ==
    calls' = [calls EXCEPT ![c] =
                [at |-> CASE m.kind = "message" -> "find"
                          [] m.kind = "start"   -> "direct"
                          [] m.kind = "boundary" -> "trigger"
                          [] OTHER              -> "start",
                 msg |-> m, todo |-> Matching(m), seen |-> {}]]

Current(c) == CHOOSE s \in calls[c].todo : \A t \in calls[c].todo : s <= t
Dropped(c) == calls[c].todo \ {Current(c)}

\* The search can find these; pending instances it cannot.
Visible == {n \in InstanceIDs : insts[n].status # "pending"}

SearchedFor(p, k) == k # NoKey /\ FindRunningInstanceByBusinessKey(p, k) # {}

FindOr(c, found) ==
    /\ At(c, "find") /\ calls[c].todo # {}
    /\ calls' = [calls EXCEPT ![c] =
                   IF found THEN [@ EXCEPT !.todo = Dropped(c)]
                   ELSE [@ EXCEPT !.at = "start", !.seen = Visible]]
    /\ UNCHANGED <<async, deployed, insts, left>>

\* Mutant: the search ignores the correlated key.
FindByRequestKey(c) ==
    FindOr(c, SearchedFor(Starts[Current(c)].process, Msg(c).businessKey))

\* A running instance under the key makes the message a duplicate, which is skipped.
Find(c) ==
    FindOr(c, SearchedFor(Starts[Current(c)].process, BusinessKey(Current(c), Msg(c))))

RunsTo(p) == IF p \in Waits THEN "running" ELSE "completed"

\* A pending instance with its job, or an instance that has run as far as it can.
Started(p, key, via, seen) ==
    insts' = Append(insts, [process |-> p, key |-> key, via |-> via, seen |-> seen,
                            status |-> IF async THEN "pending" ELSE RunsTo(p)])

\* The process may have been deleted since it was listed.
StartOne(c, s, key, via, next) ==
    /\ IF Starts[s].process \in deployed
       THEN Started(Starts[s].process, key, via, calls[c].seen) ELSE UNCHANGED insts
    /\ calls' = [calls EXCEPT ![c] = next]
    /\ UNCHANGED <<async, deployed, left>>

AfterStart(c) == [calls[c] EXCEPT !.at = IF Msg(c).kind = "message" THEN "find" ELSE "start",
                                  !.todo = Dropped(c)]

StartProcess(c) ==
    /\ At(c, "start") /\ calls[c].todo # {}
    /\ StartOne(c, Current(c), BusinessKey(Current(c), Msg(c)), Msg(c).kind, AfterStart(c))

\* A search, a start or a boundary event fails and is rolled back: the error is
\* one of the matches, and the call goes on.
MatchFails(c) ==
    /\ calls[c].at \in {"find", "start", "boundary", "partner"} /\ calls[c].todo # {}
    /\ Spend("faults")
    /\ \/ /\ calls[c].at \in {"find", "start"}
          /\ calls' = [calls EXCEPT ![c] = AfterStart(c)]
       \/ /\ calls[c].at \in {"boundary", "partner"}
          /\ \E t \in calls[c].todo : calls' = [calls EXCEPT ![c].todo = @ \ {t}]
    /\ UNCHANGED <<async, deployed, insts>>

\* StartProcess called by itself: its error goes to the caller.
StartDirect(c) ==
    /\ At(c, "direct")
    /\ IF Msg(c).ref \in deployed
       THEN Started(Msg(c).ref, Msg(c).businessKey, "start", {})
       ELSE UNCHANGED insts
    /\ calls' = [calls EXCEPT ![c].at = IF Msg(c).ref \in deployed THEN "ok" ELSE "error"]
    /\ UNCHANGED <<async, deployed, left>>

\* TriggerSignal and TriggerConditional return here.
SignalDone(c) ==
    /\ At(c, "start") /\ calls[c].todo = {} /\ Msg(c).kind # "message"
    /\ calls' = [calls EXCEPT ![c].at = "ok"]
    /\ UNCHANGED <<async, deployed, insts, left>>

HasBoundary(n, ref) == <<insts[n].process, ref>> \in Boundaries

\* matchBoundaryEventsOnInstances lists the running instances ...
ListRunningInstances(c) ==
    /\ At(c, "find") /\ calls[c].todo = {}
    /\ calls' = [calls EXCEPT ![c].at = "boundary", ![c].seen = {},
                   ![c].todo = {n \in InstanceIDs : insts[n].status = "running"
                                                    /\ HasBoundary(n, Msg(c).ref)}]
    /\ UNCHANGED <<async, deployed, insts, left>>

\* ... and fires on each, which reads it again: here the host is cancelled and the
\* instance ends; one whose host is no longer active is left alone.
fireBoundaryEvent(c, n) ==
    /\ At(c, "boundary") /\ n \in calls[c].todo /\ n = Current(c)
    /\ insts' = [insts EXCEPT ![n].status = IF @ = "running" THEN "completed" ELSE @]
    /\ calls' = [calls EXCEPT ![c].todo = @ \ {n}]
    /\ UNCHANGED <<async, deployed, left>>

\* The instance runs, has the boundary event, and its host is waiting.
HostIsActive(n, ref) == n \in InstanceIDs /\ insts[n].status = "running" /\ HasBoundary(n, ref)

\* TriggerBoundary, called for one instance: its error goes to the caller ...
TriggerBoundary(c) ==
    /\ At(c, "trigger")
    /\ calls' = [calls EXCEPT ![c].at = IF HostIsActive(Msg(c).instance, Msg(c).ref)
                                        THEN "fire" ELSE "error"]
    /\ UNCHANGED <<async, deployed, insts, left>>

\* ... but that the host has since been left is none.
FireTriggered(c) ==
    /\ At(c, "fire")
    /\ insts' = [insts EXCEPT ![Msg(c).instance].status = IF @ = "running" THEN "completed" ELSE @]
    /\ calls' = [calls EXCEPT ![c].at = "ok"]
    /\ UNCHANGED <<async, deployed, left>>

\* matchCollaborationMessageFlows lists the processes again: every message flow
\* of a deployed process to a deployed partner, with the partner's start events.
ListPartners(c) ==
    /\ At(c, "boundary") /\ calls[c].todo = {}
    /\ calls' = [calls EXCEPT ![c].at = "partner",
                   ![c].todo = {fs \in (DOMAIN Partners) \X Matching(Msg(c)) :
                                  LET f == Partners[fs[1]] IN
                                  /\ f.owner \in deployed /\ f.ref = Msg(c).ref
                                  /\ f.partner = Starts[fs[2]].process}]
    /\ UNCHANGED <<async, deployed, insts, left>>

\* A partner is started without looking for an instance, under the correlated key only.
StartPartner(c, fs) ==
    /\ At(c, "partner") /\ fs \in calls[c].todo
    /\ StartOne(c, fs[2], BusinessKey(fs[2], [Msg(c) EXCEPT !.businessKey = NoKey]), "partner",
                [calls[c] EXCEPT !.todo = @ \ {fs}])

MessageDone(c) ==
    /\ At(c, "partner") /\ calls[c].todo = {}
    /\ calls' = [calls EXCEPT ![c].at = "ok"]
    /\ UNCHANGED <<async, deployed, insts, left>>

\* A list cannot be read (of instances, of the activities of one, of processes), or
\* the one start or boundary event fails: the call returns the error, and what it
\* started stays started.
CallFails(c) ==
    /\ \/ calls[c].at \in {"direct", "boundary", "trigger", "fire"}
       \/ At(c, "find") /\ calls[c].todo = {}
    /\ Spend("faults")
    /\ calls' = [calls EXCEPT ![c].at = "error"]
    /\ UNCHANGED <<async, deployed, insts>>

Return(c) == At(c, "ok") \/ At(c, "error")

-----------------------------------------------------------------------------
(* Everyone else *)

\* The worker runs the start job, the oldest first.
RunStart(n) ==
    /\ insts[n].status = "pending"
    /\ \A i \in InstanceIDs : insts[i].status = "pending" => n <= i
    /\ insts' = [insts EXCEPT ![n].status = RunsTo(insts[n].process)]
    /\ UNCHANGED <<async, deployed, calls, left>>

\* Users complete the last task.
Complete(n) ==
    /\ insts[n].status = "running"
    /\ Spend("changes")
    /\ insts' = [insts EXCEPT ![n].status = "completed"]
    /\ UNCHANGED <<async, deployed, calls>>

DeleteProcess(p) ==
    /\ p \in deployed
    /\ Spend("changes")
    /\ deployed' = deployed \ {p}
    /\ UNCHANGED <<async, insts, calls>>

CallStep(c) ==
    \/ Find(c) \/ StartProcess(c) \/ MatchFails(c) \/ StartDirect(c) \/ SignalDone(c)
    \/ ListRunningInstances(c) \/ (\E n \in InstanceIDs : fireBoundaryEvent(c, n))
    \/ TriggerBoundary(c) \/ FireTriggered(c) \/ ListPartners(c)
    \/ (At(c, "partner") /\ \E fs \in calls[c].todo : StartPartner(c, fs))
    \/ MessageDone(c) \/ CallFails(c)

Environment ==
    \/ \E n \in InstanceIDs : RunStart(n) \/ Complete(n)
    \/ \E p \in Processes : DeleteProcess(p)

-----------------------------------------------------------------------------
(* Properties *)

\* Two running instances of one process under one business key, the later one
\* started by a message, come only from the window of the check: the call that
\* started the later one had looked before the earlier one was created, or while
\* it was still pending (TriggerMessage; ARCHITECTURE.md calls the check
\* "automatic when businessKey / correlationKey resolves").
DuplicatesOnlyInWindow ==
    \A i, j \in InstanceIDs :
        /\ i < j /\ insts[i].process = insts[j].process
        /\ insts[i].key = insts[j].key /\ insts[i].key # NoKey
        /\ insts[i].status = "running" /\ insts[j].via = "message"
        => i \notin insts[j].seen
=============================================================================
