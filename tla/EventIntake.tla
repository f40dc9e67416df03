------------------------------ MODULE EventIntake -----------------------------
(***************************************************************************)
(* The trigger stream from the broker to the instances: EventStreams, the  *)
(* plugin runtime that dispatches an event to its adapter                  *)
(* (internal/plugin/runtime.go, pkg/plugin/sdk/apply.go), and Triggers,    *)
(* beside callers of the HTTP API, in one server that may stop.            *)
(***************************************************************************)
EXTENDS Triggers, EventStreams

CONSTANTS
    Consumer,    \* the caller that is the stream's consumer
    ActionOf,    \* event -> the Action its adapter makes of it
    ApiMessages, \* what API callers send
    NoAdapter,   \* no adapter supports the event
    Ignored,     \* an action of a kind, or without the name, that ApplyTriggerAction needs
    BadInstance  \* a trigger_boundary without a readable process_instance_id

ASSUME IntakeAssumption ==
    /\ Consumer \in Callers
    /\ DOMAIN ActionOf = Events
    /\ BadInstance # Ignored

vars == <<triggerVars, streamVars>>

IntakeInit == Init /\ StreamInit

-----------------------------------------------------------------------------
\* An action of an unknown kind does nothing, a boundary event of an instance whose
\* id cannot be parsed is an error, otherwise the engine is called.
ApplyTriggerAction(action) ==
    CASE action = Ignored -> calls' = [calls EXCEPT ![Consumer] = [at |-> "ok"]]
      [] action = BadInstance -> calls' = [calls EXCEPT ![Consumer] = [at |-> "error"]]
      [] OTHER -> Scan(Consumer, action)

\* The adapter that supports the event handles it; without one it is an error.
Handle(e) ==
    IF ActionOf[e] = NoAdapter THEN calls' = [calls EXCEPT ![Consumer] = [at |-> "error"]]
    ELSE ApplyTriggerAction(ActionOf[e])

\* Bound: an event cut off by the shutdown is not taken again before a restart.
Deliver(e) ==
    /\ Fetch(e)
    /\ consumer = "stopping" => e \notin hist.cut
    /\ Handle(e)
    /\ UNCHANGED <<async, deployed, insts, left>>

\* EngineHost.TriggerMessage drops the matches: only the error of the call counts,
\* and that of the acknowledgement; nobody looks at that of Redis' push.
Settle ==
    /\ Return(Consumer)
    /\ \/ Handled(At(Consumer, "ok"), consumer = "running") /\ UNCHANGED left
       \/ At(Consumer, "ok") /\ Settles /\ Spend("faults") /\ Handled(FALSE, FALSE)
       \/ At(Consumer, "error") /\ driver = "redis" /\ Spend("faults") /\ Handled(FALSE, FALSE)
    /\ calls' = [calls EXCEPT ![Consumer] = Idle]
    /\ UNCHANGED <<async, deployed, insts>>

\* After consumerCancel statements fail: starts among the matches, lists with an
\* error; partners that are not yet started are left out.
ContextCancelled ==
    /\ consumer = "stopping"
    /\ \/ /\ calls[Consumer].at \in {"find", "start", "direct", "boundary", "trigger", "fire"}
          /\ calls' = [calls EXCEPT ![Consumer].at = "error"]
       \/ /\ At(Consumer, "partner") /\ calls[Consumer].todo # {}
          /\ calls' = [calls EXCEPT ![Consumer].todo = {}]
    /\ UNCHANGED <<async, deployed, insts, left, streamVars>>

\* An event is accepted, most often by handleStreamInboundEvent.
Arrive(e) ==
    /\ Publish(e) \/ PublishUnconfirmed(e)
    /\ Spend("events")
    /\ UNCHANGED <<async, deployed, insts, calls>>

\* A request of the HTTP API.
CallAPI(c, m) ==
    /\ ServerUp /\ At(c, "idle")
    /\ Spend("calls")
    /\ Scan(c, m)
    /\ UNCHANGED <<async, deployed, insts, streamVars>>

Respond(c) ==
    /\ Return(c)
    /\ calls' = [calls EXCEPT ![c] = Idle]
    /\ UNCHANGED <<async, deployed, insts, left, streamVars>>

\* The broker has handed out an event that does not arrive.
LoseReply ==
    /\ ReplyLost
    /\ Spend("faults")
    /\ UNCHANGED <<async, deployed, insts, calls>>

\* The server or the connection stops; calls under way are cut off.
Stop ==
    /\ Spend("stops")
    /\ \/ (ConsumerFails \/ consumerCancel) /\ UNCHANGED calls
       \/ Exit /\ calls' = [c \in Callers |-> Idle]
    /\ UNCHANGED <<async, deployed, insts>>

ConsumerStep ==
    \/ \E e \in Events : Deliver(e)
    \/ \E e \in Events : Discard(e) /\ UNCHANGED triggerVars
    \/ CallStep(Consumer) /\ UNCHANGED streamVars
    \/ Settle

Next ==
    \/ ConsumerStep \/ ContextCancelled
    \/ (\E e \in Events : Arrive(e)) \/ LoseReply
    \/ \E c \in Callers \ {Consumer} :
         (\E m \in ApiMessages : CallAPI(c, m)) \/ Respond(c) \/ (CallStep(c) /\ UNCHANGED streamVars)
    \/ Environment /\ ServerUp /\ UNCHANGED streamVars
    \/ Stop
    \/ (RunReturns \/ Restart) /\ UNCHANGED triggerVars

\* A running consumer goes on as long as it can.
Spec == IntakeInit /\ [][Next]_vars /\ WF_vars(ConsumerStep)

-----------------------------------------------------------------------------
(* Properties *)

\* An event whose handler can only fail, as things are: no adapter takes it, its
\* instance cannot be read or has no such boundary event waiting, or it starts a
\* process that is not deployed.
Poison(e) ==
    LET a == ActionOf[e] IN
    \/ a \in {NoAdapter, BadInstance}
    \/ /\ a # Ignored
       /\ \/ a.kind = "start" /\ a.ref \notin deployed
          \/ a.kind = "boundary" /\ ~HostIsActive(a.instance, a.ref)

\* While the consumer keeps running, every event accepted is handled in the end,
\* or has its driver's excuse, or is poison: failed events come back, and poison
\* that comes back for ever does not keep the others waiting (Run of each driver).
Delivered ==
    (<>[](consumer = "running")) =>
        \A e \in Events \ Malformed :
            e \in hist.accepted ~> (e \in hist.handled \/ Excused(e) \/ Poison(e))
=============================================================================
