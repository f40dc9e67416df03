----------------------------- MODULE EventStreams -----------------------------
(***************************************************************************)
(* One event stream (pkg/event): what the HTTP bridge or another producer  *)
(* publishes, the broker keeps, and the consumer's Run loop hands to a     *)
(* handler, for each of the five drivers.  The brokers are external and    *)
(* modelled from how the drivers use them.  The handler is a parameter:    *)
(* Fetch begins it and Handled ends it.                                    *)
(***************************************************************************)
EXTENDS Integers, Sequences, SequencesExt

CONSTANTS
    Events,    \* events producers have
    Malformed, \* those whose JSON cannot be decoded
    Buffer,    \* capacity of the memory driver's channel
    None       \* no event

ASSUME EventStreamsAssumption ==
    /\ Malformed \subseteq Events /\ None \notin Events /\ Buffer \in Nat \ {0}

Drivers == {"kafka", "rabbitmq", "redis", "nats", "memory", "none"}

VARIABLES
    driver,   \* EVENT_CONSUMER
    queue,    \* events not yet handed out
    unsettled,\* events handed out that the broker has not seen settled
    held,     \* the event in the handler, or None
    consumer, \* "running", "stopping" (context cancelled), "stopped" (Run has
              \* returned), or "down" with the whole server
    hist      \* history: events accepted, handled, failed, cut off by a stop, and
              \* dropped between this process and its broker

streamVars == <<driver, queue, unsettled, held, consumer, hist>>

\* NewStreams: the driver of the configuration; "none" makes no consumer.
StreamInit ==
    /\ driver \in Drivers
    /\ queue = <<>> /\ unsettled = <<>> /\ held = None
    /\ consumer = IF driver = "none" THEN "stopped" ELSE "running"
    /\ hist = [accepted |-> {}, handled |-> {}, failed |-> {}, cut |-> {}, dropped |-> {}]

ServerUp == consumer # "down"

\* The broker keeps what was handed out until it is settled.
Settles == driver \in {"kafka", "rabbitmq"}

-----------------------------------------------------------------------------
\* Only the HTTP bridge of this server reaches the memory driver's channel, and
\* waits for a free place in it; its events are never encoded.
HasRoom(e) == ServerUp /\ Len(queue) < Buffer /\ e \notin Malformed

\* NATS has nobody to give an event to unless Run has subscribed.
Subscribed == consumer \in {"running", "stopping"}

\* Publish of the driver, through RouterPublisher or from another producer.
Publish(e) ==
    /\ driver # "none"
    /\ e \notin hist.accepted
    /\ driver = "memory" => HasRoom(e)
    /\ LET kept == driver = "nats" => Subscribed IN
       /\ queue' = IF kept THEN Append(queue, e) ELSE queue
       /\ hist' = [hist EXCEPT !.accepted = @ \cup {e}, !.cut = IF kept THEN @ ELSE @ \cup {e}]
    /\ UNCHANGED <<driver, unsettled, held, consumer>>

\* Publish returns before the broker has the event: Kafka's writer with the default
\* RequiredAcks, RabbitMQ's channel without confirms, and NATS, whose reconnects and
\* slow consumers nobody hears of.
PublishUnconfirmed(e) ==
    /\ driver \in {"kafka", "rabbitmq", "nats"}
    /\ e \notin hist.accepted
    /\ hist' = [hist EXCEPT !.accepted = @ \cup {e}, !.dropped = @ \cup {e}]
    /\ UNCHANGED <<driver, queue, unsettled, held, consumer>>

\* Go's select may take an event although the context is cancelled, BRPop waits on
\* for up to two seconds, and NATS calls back until the connection is closed.
MayFetch == consumer \in {"running", "stopping"}

\* The next turn of the loop: Redis looks at the context first.
NextTurn == IF driver = "redis" /\ consumer = "stopping" THEN "stopped" ELSE consumer

\* Mutant: the broker forgets an event when it hands it out.
FetchSettled(e) ==
    /\ MayFetch /\ held = None /\ queue # <<>> /\ e = Head(queue) /\ e \notin Malformed
    /\ queue' = Tail(queue) /\ held' = e
    /\ UNCHANGED <<driver, unsettled, consumer, hist>>

Fetch(e) ==
    /\ MayFetch /\ held = None /\ queue # <<>> /\ e = Head(queue) /\ e \notin Malformed
    /\ queue' = Tail(queue)
    /\ unsettled' = IF Settles THEN Append(unsettled, e) ELSE unsettled
    /\ held' = e
    /\ UNCHANGED <<driver, consumer, hist>>

\* An event that cannot be decoded is settled: Kafka's commit covers all before it,
\* and once the context is cancelled fails, which Run ignores.
Discard(e) ==
    /\ MayFetch /\ held = None /\ queue # <<>> /\ e = Head(queue) /\ e \in Malformed
    /\ queue' = Tail(queue)
    /\ unsettled' = IF driver # "kafka" THEN unsettled
                    ELSE IF consumer = "running" THEN <<>> ELSE Append(unsettled, e)
    /\ consumer' = NextTurn
    /\ UNCHANGED <<driver, held, hist>>

\* BRPOP has taken the event from the list, and its answer does not arrive.
ReplyLost ==
    /\ MayFetch /\ held = None /\ queue # <<>> /\ driver = "redis"
    /\ queue' = Tail(queue)
    /\ hist' = [hist EXCEPT !.dropped = @ \cup {Head(queue)}]
    /\ UNCHANGED <<driver, unsettled, held, consumer>>

\* Mutant: a failed delivery is rejected without being queued again.
failedNoRequeue(e, pushed) ==
    /\ queue' = IF driver = "redis" /\ pushed THEN Append(queue, e) ELSE queue
    /\ unsettled' = IF driver = "rabbitmq" THEN <<>> ELSE unsettled

\* Mutant: a failed delivery is not rejected.
failedNoNack(e, pushed) ==
    /\ queue' = IF driver = "redis" /\ pushed THEN Append(queue, e) ELSE queue
    /\ UNCHANGED unsettled

\* RabbitMQ redelivers behind what it has already pushed.  Redis gets the event
\* back if LPush succeeds, whose error Run discards.  Kafka goes on to the next
\* event and leaves this one unsettled.  The other drivers drop it.
Failed(e, pushed) ==
    /\ queue' = IF driver = "rabbitmq" \/ (driver = "redis" /\ pushed)
                THEN Append(queue, e) ELSE queue
    /\ unsettled' = IF driver = "rabbitmq" THEN <<>> ELSE unsettled

\* A commit of the current offset settles everything before it.
Acked == queue' = queue /\ unsettled' = <<>>

\* The handler returns.  Once the context is cancelled Kafka cannot commit, and
\* Redis cannot push.
Handled(ok, pushed) ==
    /\ held # None
    /\ pushed => consumer = "running"
    /\ IF ok THEN IF driver = "kafka" /\ consumer = "stopping"
                  THEN UNCHANGED <<queue, unsettled>> ELSE Acked
       ELSE Failed(held, pushed)
    /\ hist' = IF ok THEN [hist EXCEPT !.handled = @ \cup {held}]
               ELSE [hist EXCEPT !.failed = @ \cup {held},
                                 !.cut = IF consumer = "stopping" THEN @ \cup {held} ELSE @,
                                 !.dropped = IF driver = "redis" /\ ~pushed THEN @ \cup {held} ELSE @]
    /\ held' = None
    /\ consumer' = NextTurn
    /\ UNCHANGED driver

\* The broker takes back what is unsettled when the consumer goes away.
Reclaimed == queue' = unsettled \o queue /\ unsettled' = <<>>

\* The connection breaks and Run returns; nothing starts it again.
ConsumerFails ==
    /\ consumer = "running" /\ held = None /\ driver \in {"kafka", "rabbitmq", "redis"}
    /\ consumer' = "stopped"
    /\ Reclaimed
    /\ UNCHANGED <<driver, held, hist>>

\* SIGTERM: consumerCancel comes before the HTTP server is shut down.
consumerCancel ==
    /\ consumer = "running"
    /\ consumer' = "stopping"
    /\ UNCHANGED <<driver, queue, unsettled, held, hist>>

\* The subscription of NATS outlives Run.
RunReturns ==
    /\ consumer = "stopping" /\ held = None /\ driver # "nats"
    /\ consumer' = "stopped"
    /\ UNCHANGED <<driver, queue, unsettled, held, hist>>

InBroker == ToSet(queue) \cup ToSet(unsettled)
InProcess == IF driver \in {"memory", "nats"} THEN ToSet(queue) ELSE {}

\* The process ends, at once or after consumerCancel: what it held in memory is gone.
Exit ==
    /\ ServerUp
    /\ consumer' = "down"
    /\ IF driver \in {"memory", "nats"} THEN queue' = <<>> /\ unsettled' = <<>> ELSE Reclaimed
    /\ held' = None
    /\ hist' = [hist EXCEPT !.cut = @ \cup InProcess \cup ({held} \ {None})]
    /\ UNCHANGED driver

Restart ==
    /\ consumer = "down"
    /\ consumer' = IF driver = "none" THEN "stopped" ELSE "running"
    /\ UNCHANGED <<driver, queue, unsettled, held, hist>>

-----------------------------------------------------------------------------
(* Properties *)

\* What may have happened to an event that is lost.  With RabbitMQ it never reached
\* the broker; with Kafka that, or its handler failed; with Redis the server stopped
\* while it was in the handler, or the answer that handed it out or the push that
\* gave it back failed; in memory and with NATS its handler failed, it was waiting
\* or in the handler at a stop, or, with NATS, it never reached the subscriber.
Excused(e) ==
    CASE driver = "rabbitmq" -> e \in hist.dropped
      [] driver = "kafka"    -> e \in hist.dropped \cup hist.failed
      [] driver = "redis"    -> e \in hist.dropped \cup hist.cut
      [] driver = "nats"     -> e \in hist.dropped \cup hist.failed \cup hist.cut
      [] OTHER               -> e \in hist.failed \cup hist.cut

Wellformed == hist.accepted \ Malformed

\* Every event accepted is in the broker, in the handler, or handled, unless its
\* driver has one of its own excuses above: stops, failing handlers, broken
\* connections and undecodable neighbours lose nothing else (Publish and Run of
\* each driver; redis/consumer.go calls its own re-queue "best effort").
AcceptedIsKept ==
    \A e \in Wellformed :
        e \in InBroker \cup {held} \cup hist.handled \/ Excused(e)

\* The abstract queue; only RabbitMQ's driver is held to losing nothing.
Queue == INSTANCE AtLeastOnceQueue WITH
    lossless <- driver = "rabbitmq",
    waiting  <- Wellformed \cap (InBroker \cup {held}),
    done     <- hist.handled

\* A RabbitMQ stream is an at-least-once queue: an event that has reached the broker
\* leaves it only after its handler has succeeded (Ack after Handle, Nack with requeue).
AtLeastOnce == Queue!Spec
=============================================================================
