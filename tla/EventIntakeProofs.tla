--------------------------- MODULE EventIntakeProofs ---------------------------
(***************************************************************************)
(* Proofs about the trigger stream: no driver loses an accepted event but   *)
(* for its own excuse, a RabbitMQ stream implements the at-least-once       *)
(* queue, and a message starts a second instance under a business key only  *)
(* through the window of the search that precedes the start.                *)
(***************************************************************************)
EXTENDS EventIntake, TLAPS

-----------------------------------------------------------------------------
(* What ToSet makes of the operations on sequences. *)

\* An empty broker list holds no event.
LEMMA EmptyToSet ==
  ASSUME NEW S
  PROVE  <<>> \in Seq(S) /\ ToSet(<<>>) = {}
  BY DEF ToSet

\* Appending adds the one element.
LEMMA AppendToSet ==
  ASSUME NEW S, NEW s \in Seq(S), NEW e \in S
  PROVE  /\ Append(s, e) \in Seq(S)
         /\ ToSet(Append(s, e)) = ToSet(s) \cup {e}
  <1>1. /\ Append(s, e) \in Seq(S)
        /\ Len(s) \in Nat
        /\ DOMAIN s = 1..Len(s)
        /\ DOMAIN Append(s, e) = 1..(Len(s) + 1)
        /\ \A i \in 1..Len(s) : Append(s, e)[i] = s[i]
        /\ Append(s, e)[Len(s) + 1] = e
    OBVIOUS
  <1>2. \A x \in ToSet(s) \cup {e} : x \in ToSet(Append(s, e))
    BY <1>1 DEF ToSet
  <1>3. \A x \in ToSet(Append(s, e)) : x \in ToSet(s) \cup {e}
    BY <1>1 DEF ToSet
  <1>4. QED
    BY <1>1, <1>2, <1>3

\* Taking the first element leaves the others.
LEMMA TailToSet ==
  ASSUME NEW S, NEW s \in Seq(S), s # <<>>
  PROVE  /\ Head(s) \in S
         /\ Tail(s) \in Seq(S)
         /\ ToSet(s) = ToSet(Tail(s)) \cup {Head(s)}
  <1>1. /\ Len(s) \in Nat \ {0}
        /\ DOMAIN s = 1..Len(s)
        /\ Head(s) = s[1] /\ Head(s) \in S
        /\ Tail(s) \in Seq(S)
        /\ DOMAIN Tail(s) = 1..(Len(s) - 1)
        /\ \A i \in 1..(Len(s) - 1) : Tail(s)[i] = s[i + 1]
    OBVIOUS
  <1>2. ASSUME NEW x \in ToSet(s) PROVE x \in ToSet(Tail(s)) \cup {Head(s)}
    <2>1. PICK i \in 1..Len(s) : s[i] = x
      BY <1>1 DEF ToSet
    <2>2. CASE i = 1
      BY <1>1, <2>1, <2>2
    <2>3. CASE i # 1
      <3>1. i - 1 \in 1..(Len(s) - 1) /\ (i - 1) + 1 = i
        BY <1>1, <2>1, <2>3
      <3>2. Tail(s)[i - 1] = x
        BY <1>1, <2>1, <3>1
      <3>3. QED
        BY <1>1, <3>1, <3>2 DEF ToSet
    <2>4. QED
      BY <2>2, <2>3
  <1>3. ASSUME NEW x \in ToSet(Tail(s)) \cup {Head(s)} PROVE x \in ToSet(s)
    BY <1>1 DEF ToSet
  <1>4. QED
    BY <1>1, <1>2, <1>3

\* Putting one sequence before another loses nothing of either.
LEMMA ConcatToSet ==
  ASSUME NEW S, NEW s \in Seq(S), NEW t \in Seq(S)
  PROVE  /\ s \o t \in Seq(S)
         /\ ToSet(s \o t) = ToSet(s) \cup ToSet(t)
  <1>1. /\ s \o t \in Seq(S)
        /\ Len(s) \in Nat /\ Len(t) \in Nat
        /\ DOMAIN s = 1..Len(s) /\ DOMAIN t = 1..Len(t)
        /\ DOMAIN (s \o t) = 1..(Len(s) + Len(t))
        /\ \A i \in 1..Len(s) : (s \o t)[i] = s[i]
        /\ \A i \in 1..Len(t) : (s \o t)[Len(s) + i] = t[i]
    OBVIOUS
  <1>2. ASSUME NEW x \in ToSet(s) \cup ToSet(t) PROVE x \in ToSet(s \o t)
    <2>1. CASE x \in ToSet(s)
      BY <1>1, <2>1 DEF ToSet
    <2>2. CASE x \in ToSet(t)
      <3>1. PICK i \in 1..Len(t) : t[i] = x
        BY <1>1, <2>2 DEF ToSet
      <3>2. Len(s) + i \in 1..(Len(s) + Len(t)) /\ (s \o t)[Len(s) + i] = x
        BY <1>1, <3>1
      <3>3. QED
        BY <1>1, <3>2 DEF ToSet
    <2>3. QED
      BY <2>1, <2>2
  <1>3. ASSUME NEW x \in ToSet(s \o t) PROVE x \in ToSet(s) \cup ToSet(t)
    <2>1. PICK i \in 1..(Len(s) + Len(t)) : (s \o t)[i] = x
      BY <1>1 DEF ToSet
    <2>2. CASE i <= Len(s)
      BY <1>1, <2>1, <2>2 DEF ToSet
    <2>3. CASE i > Len(s)
      <3>1. i - Len(s) \in 1..Len(t) /\ Len(s) + (i - Len(s)) = i
        BY <1>1, <2>1, <2>3
      <3>2. t[i - Len(s)] = x
        BY <1>1, <2>1, <3>1
      <3>3. QED
        BY <1>1, <3>1, <3>2 DEF ToSet
    <2>4. QED
      BY <1>1, <2>1, <2>2, <2>3
  <1>4. QED
    BY <1>1, <1>2, <1>3

-----------------------------------------------------------------------------
(* The stream *)

StreamType ==
  /\ driver \in Drivers
  /\ queue \in Seq(Events)
  /\ unsettled \in Seq(Events)
  /\ held \in (Events \ Malformed) \cup {None}
  /\ consumer \in {"running", "stopping", "stopped", "down"}
  /\ hist \in [accepted : SUBSET Events, handled : SUBSET Events,
              failed : SUBSET Events, cut : SUBSET Events, dropped : SUBSET Events]

\* Nothing is delivered that was not accepted.
OnlyAccepted == InBroker \cup ({held} \ {None}) \subseteq hist.accepted

\* An event is in a handler only while Run runs, and the broker that settles
\* still has it.
HeldIsUnsettled ==
  held # None => /\ consumer \in {"running", "stopping"}
                 /\ Settles => held \in ToSet(unsettled)

\* What else is unsettled: nothing with RabbitMQ, and with Kafka what the handler
\* has already returned from or was never given; the other drivers settle when they hand out.
UnsettledIsReturned ==
  /\ driver = "rabbitmq" => ToSet(unsettled) \subseteq {held}
  /\ driver = "kafka" =>
       ToSet(unsettled) \subseteq {held} \cup hist.failed \cup hist.handled \cup Malformed
  /\ ~Settles => unsettled = <<>>

StreamInv ==
  /\ StreamType
  /\ OnlyAccepted
  /\ HeldIsUnsettled
  /\ UnsettledIsReturned
  /\ AcceptedIsKept

\* The excuses, driver by driver.
LEMMA ExcusedCases ==
  ASSUME driver \in Drivers, NEW e
  PROVE  /\ driver = "rabbitmq" => (Excused(e) <=> e \in hist.dropped)
         /\ driver = "kafka" => (Excused(e) <=> e \in hist.dropped \cup hist.failed)
         /\ driver = "redis" => (Excused(e) <=> e \in hist.dropped \cup hist.cut)
         /\ driver = "nats" => (Excused(e) <=> e \in hist.dropped \cup hist.failed \cup hist.cut)
         /\ driver \in {"memory", "none"} => (Excused(e) <=> e \in hist.failed \cup hist.cut)
  BY DEF Excused, Drivers

\* ... and after a step.
LEMMA ExcusedAfter ==
  ASSUME driver' \in Drivers, NEW e
  PROVE  /\ driver' = "rabbitmq" => (Excused(e)' <=> e \in hist'.dropped)
         /\ driver' = "kafka" => (Excused(e)' <=> e \in hist'.dropped \cup hist'.failed)
         /\ driver' = "redis" => (Excused(e)' <=> e \in hist'.dropped \cup hist'.cut)
         /\ driver' = "nats" =>
              (Excused(e)' <=> e \in hist'.dropped \cup hist'.failed \cup hist'.cut)
         /\ driver' \in {"memory", "none"} => (Excused(e)' <=> e \in hist'.failed \cup hist'.cut)
  BY DEF Excused, Drivers

\* What the history may do in a step of the stream.
Grows ==
  /\ driver' = driver
  /\ hist' \in [accepted : SUBSET Events, handled : SUBSET Events,
               failed : SUBSET Events, cut : SUBSET Events, dropped : SUBSET Events]
  /\ hist.handled \subseteq hist'.handled
  /\ hist.failed \subseteq hist'.failed
  /\ hist.cut \subseteq hist'.cut
  /\ hist.dropped \subseteq hist'.dropped

\* An excuse lasts.
LEMMA ExcuseLasts ==
  ASSUME StreamType, Grows, NEW e, Excused(e)
  PROVE  Excused(e)'
  BY ExcusedCases, ExcusedAfter DEF StreamType, Grows, Drivers

\* The events that are somewhere: in the broker, in the handler, or done.
Somewhere == InBroker \cup {held} \cup hist.handled

\* An event that goes nowhere in a step must get an excuse by it.
LEMMA KeptStep ==
  ASSUME StreamType, AcceptedIsKept, Grows,
         \A e \in Wellformed' : e \in Wellformed \/ e \in Somewhere' \/ Excused(e)',
         \A e \in Somewhere : e \in Wellformed => e \in Somewhere' \/ Excused(e)'
  PROVE  AcceptedIsKept'
  <1> SUFFICES ASSUME NEW e \in Wellformed' PROVE e \in Somewhere' \/ Excused(e)'
    BY DEF AcceptedIsKept, Somewhere
  <1>1. CASE e \notin Wellformed
    BY <1>1
  <1>2. CASE e \in Wellformed
    <2>1. e \in Somewhere \/ Excused(e)
      BY <1>2 DEF AcceptedIsKept, Somewhere
    <2>2. Excused(e) => Excused(e)'
      BY ExcuseLasts
    <2>3. QED
      BY <1>2, <2>1, <2>2
  <1>3. QED
    BY <1>1, <1>2

waitingEvents == Wellformed \cap (InBroker \cup {held})

\* When a step of the stream is one of the abstract queue: some of the waiting
\* events are done, and without loss only those done are forgotten.
LEMMA QueueStep ==
  ASSUME StreamType, Grows,
         waitingEvents' \subseteq waitingEvents,
         \A e \in hist'.handled \ hist.handled : e \in waitingEvents,
         driver = "rabbitmq" =>
            \A e \in waitingEvents \ waitingEvents' : e \in hist'.handled
  PROVE  Queue!Next
  <1> DEFINE P == hist'.handled \ hist.handled
             F == waitingEvents \ waitingEvents'
  <1>1. P \in SUBSET waitingEvents /\ F \in SUBSET waitingEvents
    OBVIOUS
  <1>2. hist'.handled = hist.handled \cup P
    BY DEF Grows
  <1>3. waitingEvents' = waitingEvents \ F
    OBVIOUS
  <1>4. driver = "rabbitmq" => F \subseteq hist.handled \cup P
    BY <1>2
  <1>5. (driver' = "rabbitmq") = (driver = "rabbitmq")
    BY DEF Grows
  <1>6. Queue!Process(P, F)
    BY <1>2, <1>3, <1>4, <1>5 DEF Queue!Process, waitingEvents
  <1>7. QED
    BY <1>1, <1>6 DEF Queue!Next, waitingEvents

-----------------------------------------------------------------------------
(* Each operation of the stream keeps its invariant and is a step of the     *)
(* abstract queue.                                                           *)

\* Publish adds the event to the broker, or to nobody where NATS has no subscriber.
LEMMA PublishInv ==
  ASSUME StreamInv, NEW e \in Events, Publish(e)
  PROVE  StreamInv' /\ Queue!Next
  <1> USE EventStreamsAssumption
  <1> DEFINE kept == driver = "nats" => Subscribed
  <1>1. /\ queue' \in Seq(Events)
        /\ ToSet(queue') = IF kept THEN ToSet(queue) \cup {e} ELSE ToSet(queue)
    BY AppendToSet DEF StreamInv, StreamType, Publish
  <1>2. /\ UNCHANGED <<driver, unsettled, held, consumer>>
        /\ hist' = [hist EXCEPT !.accepted = @ \cup {e},
                               !.cut = IF kept THEN @ ELSE @ \cup {e}]
    BY DEF Publish
  <1> HIDE DEF kept
  <1>3. /\ hist'.accepted = hist.accepted \cup {e}
        /\ hist'.handled = hist.handled /\ hist'.failed = hist.failed
        /\ hist'.cut = IF kept THEN hist.cut ELSE hist.cut \cup {e}
        /\ Grows
    BY <1>2 DEF StreamInv, StreamType, Grows
  <1>4. StreamType'
    BY <1>1, <1>2, <1>3 DEF StreamInv, StreamType, Grows
  <1>5. InBroker' = IF kept THEN InBroker \cup {e} ELSE InBroker
    BY <1>1, <1>2 DEF InBroker
  <1>6. OnlyAccepted'
    BY <1>2, <1>3, <1>5 DEF StreamInv, OnlyAccepted
  <1>7. HeldIsUnsettled'
    BY <1>2 DEF StreamInv, HeldIsUnsettled, Settles
  <1>8. UnsettledIsReturned'
    BY <1>2, <1>3 DEF StreamInv, UnsettledIsReturned, Settles
  <1>9. Wellformed' = Wellformed \cup ({e} \ Malformed)
    BY <1>3 DEF Wellformed
  <1>10. AcceptedIsKept'
    <2>1. ~kept => Excused(e)'
      <3>1. ~kept => driver' = "nats" /\ e \in hist'.cut
        BY <1>2, <1>3 DEF kept
      <3>2. QED
        BY <3>1, <1>4, ExcusedAfter DEF StreamType
    <2>2. kept => e \in Somewhere'
      BY <1>5 DEF Somewhere
    <2>3. Somewhere \subseteq Somewhere'
      BY <1>2, <1>3, <1>5 DEF Somewhere
    <2>4. QED
      BY <2>1, <2>2, <2>3, <1>3, <1>9, KeptStep DEF StreamInv
  <1>11. Queue!Next
    <2>1. CASE kept /\ e \notin Malformed
      <3>1. waitingEvents' = waitingEvents \cup {e}
        BY <2>1, <1>2, <1>5, <1>9 DEF waitingEvents, StreamInv, OnlyAccepted, Wellformed
      <3>2. (driver' = "rabbitmq") = (driver = "rabbitmq")
        BY <1>2
      <3>3. QED
        BY <3>1, <3>2, <1>3 DEF Queue!Next, Queue!Accept, waitingEvents
    <2>2. CASE ~kept \/ e \in Malformed
      <3>0. e \notin hist.accepted
        BY DEF Publish
      <3>1. waitingEvents' = waitingEvents
        BY <2>2, <3>0, <1>2, <1>5, <1>9
           DEF waitingEvents, StreamInv, StreamType, OnlyAccepted, Wellformed
      <3>2. QED
        BY <3>1, <1>3, QueueStep DEF StreamInv
    <2>3. QED
      BY <2>1, <2>2
  <1>12. QED
    BY <1>4, <1>6, <1>7, <1>8, <1>10, <1>11 DEF StreamInv

\* An event that never reaches the broker is excused, and none of the queue's.
LEMMA PublishUnconfirmedInv ==
  ASSUME StreamInv, NEW e \in Events, PublishUnconfirmed(e)
  PROVE  StreamInv' /\ Queue!Next
  <1> USE EventStreamsAssumption
  <1>1. /\ UNCHANGED <<driver, queue, unsettled, held, consumer>>
        /\ driver \in {"kafka", "rabbitmq", "nats"} /\ e \notin hist.accepted
        /\ hist' = [hist EXCEPT !.accepted = @ \cup {e}, !.dropped = @ \cup {e}]
    BY DEF PublishUnconfirmed
  <1>2. /\ hist'.accepted = hist.accepted \cup {e}
        /\ hist'.handled = hist.handled /\ hist'.failed = hist.failed
        /\ hist'.cut = hist.cut /\ hist'.dropped = hist.dropped \cup {e}
        /\ Grows
    BY <1>1 DEF StreamInv, StreamType, Grows
  <1>3. StreamType'
    BY <1>1, <1>2 DEF StreamInv, StreamType, Grows
  <1>4. InBroker' = InBroker /\ Somewhere' = Somewhere
    BY <1>1, <1>2 DEF InBroker, Somewhere
  <1>5. OnlyAccepted' /\ HeldIsUnsettled' /\ UnsettledIsReturned'
    BY <1>1, <1>2, <1>4
       DEF StreamInv, OnlyAccepted, HeldIsUnsettled, UnsettledIsReturned, Settles
  <1>6. Wellformed' = Wellformed \cup ({e} \ Malformed)
    BY <1>2 DEF Wellformed
  <1>7. AcceptedIsKept'
    <2>1. Excused(e)'
      BY <1>1, <1>2, <1>3, ExcusedAfter DEF StreamType
    <2>2. QED
      BY <2>1, <1>2, <1>4, <1>6, KeptStep DEF StreamInv
  <1>8. waitingEvents' = waitingEvents
    BY <1>1, <1>4, <1>6 DEF waitingEvents, StreamInv, StreamType, OnlyAccepted, Wellformed
  <1>9. Queue!Next
    BY <1>2, <1>8, QueueStep DEF StreamInv
  <1>10. QED
    BY <1>3, <1>5, <1>7, <1>9 DEF StreamInv

\* An event handed out is still in the broker, if the broker waits for its settlement.
LEMMA FetchInv ==
  ASSUME StreamInv, NEW e \in Events, Fetch(e)
  PROVE  StreamInv' /\ Queue!Next
  <1> USE EventStreamsAssumption
  <1>1. /\ queue' \in Seq(Events)
        /\ ToSet(queue) = ToSet(queue') \cup {e}
        /\ held = None /\ held' = e /\ e \notin Malformed /\ e # None
        /\ UNCHANGED <<driver, consumer, hist>>
        /\ consumer \in {"running", "stopping"}
    BY TailToSet DEF StreamInv, StreamType, Fetch, MayFetch
  <1>2. /\ unsettled' \in Seq(Events)
        /\ ToSet(unsettled') = IF Settles THEN ToSet(unsettled) \cup {e} ELSE ToSet(unsettled)
        /\ ~Settles => unsettled' = unsettled
    BY AppendToSet DEF StreamInv, StreamType, Fetch
  <1>3. Grows
    BY <1>1 DEF Grows, StreamInv, StreamType
  <1>4. StreamType'
    BY <1>1, <1>2 DEF StreamInv, StreamType
  <1>5. InBroker' \cup {held'} = InBroker
    BY <1>1, <1>2 DEF InBroker
  <1>6. OnlyAccepted'
    BY <1>1, <1>5 DEF StreamInv, OnlyAccepted
  <1>7. HeldIsUnsettled'
    BY <1>1, <1>2 DEF HeldIsUnsettled, Settles
  <1>8. UnsettledIsReturned'
    <2>0. None \notin ToSet(unsettled)
      BY EventStreamsAssumption DEF ToSet, StreamInv, StreamType
    <2>1. QED
      BY <2>0, <1>1, <1>2 DEF StreamInv, UnsettledIsReturned, Settles
  <1>9. Wellformed' = Wellformed /\ None \notin Wellformed
    BY <1>1 DEF Wellformed, StreamInv, StreamType
  <1>10. AcceptedIsKept'
    BY <1>1, <1>3, <1>5, <1>9, KeptStep DEF Somewhere, StreamInv
  <1>11. waitingEvents' = waitingEvents
    BY <1>1, <1>5, <1>9 DEF waitingEvents
  <1>12. Queue!Next
    BY <1>1, <1>3, <1>11, QueueStep DEF StreamInv
  <1>13. QED
    BY <1>4, <1>6, <1>7, <1>8, <1>10, <1>12 DEF StreamInv

\* An event that cannot be decoded is none of the queue's, and Kafka's commit of it
\* covers only events whose handler has returned.
LEMMA DiscardInv ==
  ASSUME StreamInv, NEW e \in Events, Discard(e)
  PROVE  StreamInv' /\ Queue!Next
  <1> USE EventStreamsAssumption
  <1>1. /\ queue' \in Seq(Events)
        /\ ToSet(queue) = ToSet(queue') \cup {e}
        /\ held = None /\ e \in Malformed
        /\ UNCHANGED <<driver, held, hist>>
        /\ consumer' \in {"running", "stopping", "stopped", "down"}
    BY TailToSet DEF StreamInv, StreamType, Discard, NextTurn
  <1>2. /\ unsettled' \in Seq(Events)
        /\ driver # "kafka" => unsettled' = unsettled
        /\ \/ ToSet(unsettled') = ToSet(unsettled)
           \/ driver = "kafka" /\ ToSet(unsettled') = {}
           \/ driver = "kafka" /\ ToSet(unsettled') = ToSet(unsettled) \cup {e}
    <2>1. CASE driver = "kafka" /\ consumer = "running"
      <3>1. unsettled' = <<>>
        BY <2>1 DEF Discard
      <3>2. QED
        BY <2>1, <3>1, EmptyToSet
    <2>2. CASE driver # "kafka"
      <3>1. unsettled' = unsettled
        BY <2>2 DEF Discard
      <3>2. QED
        BY <2>2, <3>1 DEF StreamInv, StreamType
    <2>3. CASE driver = "kafka" /\ consumer # "running"
      <3>1. unsettled' = Append(unsettled, e)
        BY <2>3 DEF Discard
      <3>2. QED
        BY <2>3, <3>1, AppendToSet DEF StreamInv, StreamType
    <2>4. QED
      BY <2>1, <2>2, <2>3
  <1>3. Grows
    BY <1>1 DEF Grows, StreamInv, StreamType
  <1>4. StreamType'
    BY <1>1, <1>2 DEF StreamInv, StreamType
  <1>5. OnlyAccepted'
    BY <1>1, <1>2 DEF StreamInv, OnlyAccepted, InBroker
  <1>6. HeldIsUnsettled'
    BY <1>1 DEF HeldIsUnsettled
  <1>7. UnsettledIsReturned'
    BY <1>1, <1>2 DEF StreamInv, UnsettledIsReturned, Settles
  <1>8. Wellformed' = Wellformed /\ e \notin Wellformed /\ None \notin Wellformed
    BY <1>1 DEF Wellformed, StreamInv, StreamType
  <1>9. AcceptedIsKept'
    <2>1. ASSUME NEW x \in Somewhere, x \in Wellformed PROVE x \in Somewhere' \/ Excused(x)'
      <3>1. CASE driver = "kafka" /\ x \in ToSet(unsettled)
        BY <3>1, <2>1, <1>1, <1>4, <1>8, ExcusedAfter
           DEF StreamInv, StreamType, UnsettledIsReturned, Somewhere, Wellformed
      <3>2. CASE ~(driver = "kafka" /\ x \in ToSet(unsettled))
        BY <3>2, <2>1, <1>1, <1>2, <1>8 DEF Somewhere, InBroker
      <3>3. QED
        BY <3>1, <3>2
    <2>2. QED
      BY <2>1, <1>3, <1>8, KeptStep DEF StreamInv
  <1>10. waitingEvents' \subseteq waitingEvents
    BY <1>1, <1>2, <1>8 DEF waitingEvents, InBroker
  <1>11. driver = "rabbitmq" => waitingEvents' = waitingEvents
    BY <1>1, <1>2, <1>8 DEF waitingEvents, InBroker
  <1>12. Queue!Next
    BY <1>1, <1>3, <1>10, <1>11, QueueStep DEF StreamInv
  <1>13. QED
    BY <1>4, <1>5, <1>6, <1>7, <1>9, <1>12 DEF StreamInv

\* The broker has everything that was unsettled in its queue again.
LEMMA ReclaimedToSet ==
  ASSUME StreamType, Reclaimed
  PROVE  /\ queue' \in Seq(Events) /\ unsettled' \in Seq(Events)
         /\ unsettled' = <<>> /\ ToSet(unsettled') = {}
         /\ ToSet(queue') = InBroker
         /\ InBroker' = InBroker
  <1>1. queue' = unsettled \o queue /\ unsettled' = <<>>
    BY DEF Reclaimed
  <1>2. unsettled' \in Seq(Events) /\ ToSet(unsettled') = {}
    BY <1>1, EmptyToSet
  <1>3. queue' \in Seq(Events) /\ ToSet(queue') = ToSet(unsettled) \cup ToSet(queue)
    BY <1>1, ConcatToSet DEF StreamType
  <1>4. QED
    BY <1>1, <1>2, <1>3 DEF InBroker

\* The handler succeeds: the commit or acknowledgement covers the event and, with
\* Kafka, those before it that failed.
LEMMA HandledOkInv ==
  ASSUME StreamInv, NEW pushed, Handled(TRUE, pushed)
  PROVE  StreamInv' /\ Queue!Next
  <1> USE EventStreamsAssumption
  <1> DEFINE late == driver = "kafka" /\ consumer = "stopping"
  <1>1. /\ held # None /\ held \in Events \ Malformed /\ held' = None
        /\ UNCHANGED <<driver, queue>>
        /\ consumer' \in {"running", "stopping", "stopped", "down"}
        /\ hist' = [hist EXCEPT !.handled = @ \cup {held}]
        /\ unsettled' = IF late THEN unsettled ELSE <<>>
    BY DEF StreamInv, StreamType, Handled, Acked, NextTurn
  <1> HIDE DEF late
  <1>2. /\ hist'.accepted = hist.accepted /\ hist'.failed = hist.failed /\ hist'.cut = hist.cut
        /\ hist'.dropped = hist.dropped
        /\ hist'.handled = hist.handled \cup {held}
        /\ Grows
    BY <1>1 DEF StreamInv, StreamType, Grows
  <1>3. /\ unsettled' \in Seq(Events)
        /\ ToSet(unsettled') = IF late THEN ToSet(unsettled) ELSE {}
    <2>1. CASE late
      BY <2>1, <1>1 DEF StreamInv, StreamType
    <2>2. CASE ~late
      BY <2>2, <1>1, EmptyToSet
    <2>3. QED
      BY <2>1, <2>2
  <1>4. StreamType'
    BY <1>1, <1>2, <1>3 DEF StreamInv, StreamType, Grows
  <1>5. InBroker' \subseteq InBroker
    BY <1>1, <1>3 DEF InBroker
  <1>6. OnlyAccepted'
    BY <1>1, <1>2, <1>5 DEF StreamInv, OnlyAccepted
  <1>7. HeldIsUnsettled'
    BY <1>1 DEF HeldIsUnsettled
  <1>8. UnsettledIsReturned'
    BY <1>1, <1>2, <1>3 DEF StreamInv, UnsettledIsReturned, Settles, late
  <1>9. Wellformed' = Wellformed /\ held \in Wellformed
    BY <1>1, <1>2 DEF Wellformed, StreamInv, OnlyAccepted
  <1>10. \A x \in Somewhere \ Malformed :
           x \in Somewhere' \/ (driver = "kafka" /\ x \in hist.failed)
    <2> SUFFICES ASSUME NEW x \in Somewhere \ Malformed
                 PROVE  x \in Somewhere' \/ (driver = "kafka" /\ x \in hist.failed)
      OBVIOUS
    <2>1. CASE x \in ToSet(queue) \cup {held} \cup hist.handled
      BY <2>1, <1>1, <1>2 DEF Somewhere, InBroker
    <2>2. CASE x \in ToSet(unsettled)
      <3>1. unsettled # <<>>
        BY <2>2, EmptyToSet
      <3>2. Settles
        BY <3>1 DEF StreamInv, UnsettledIsReturned
      <3>3. QED
        BY <2>1, <2>2, <3>2 DEF StreamInv, UnsettledIsReturned, Settles
    <2>3. QED
      BY <2>1, <2>2 DEF Somewhere, InBroker
  <1>11. AcceptedIsKept'
    <2>1. \A x : driver = "kafka" /\ x \in hist.failed => Excused(x)'
      BY <1>1, <1>2, <1>4, ExcusedAfter DEF StreamType
    <2>2. QED
      BY <2>1, <1>2, <1>9, <1>10, KeptStep DEF StreamInv, Wellformed
  <1>12. /\ waitingEvents' \subseteq waitingEvents
         /\ held \in waitingEvents
    BY <1>1, <1>5, <1>9, None \notin Wellformed
       DEF waitingEvents, StreamInv, StreamType, Wellformed
  <1>13. driver = "rabbitmq" => \A x \in waitingEvents \ waitingEvents' : x \in hist'.handled
    BY <1>1, <1>2, <1>9 DEF waitingEvents, InBroker, StreamInv, UnsettledIsReturned
  <1>14. Queue!Next
    BY <1>2, <1>12, <1>13, QueueStep DEF StreamInv
  <1>15. QED
    BY <1>4, <1>6, <1>7, <1>8, <1>11, <1>14 DEF StreamInv

\* The handler fails: RabbitMQ has the event again, and Redis if the push succeeds,
\* Kafka still has it unsettled, the others have lost it.
LEMMA HandledErrorInv ==
  ASSUME StreamInv, NEW pushed, Handled(FALSE, pushed)
  PROVE  StreamInv' /\ Queue!Next
  <1> USE EventStreamsAssumption
  <1> DEFINE again == driver = "rabbitmq" \/ (driver = "redis" /\ pushed)
  <1>1. /\ held # None /\ held \in Events \ Malformed /\ held' = None
        /\ consumer \in {"running", "stopping"}
        /\ UNCHANGED driver
        /\ consumer' \in {"running", "stopping", "stopped", "down"}
        /\ hist' = [hist EXCEPT !.failed = @ \cup {held},
                               !.cut = IF consumer = "stopping" THEN @ \cup {held} ELSE @,
                               !.dropped = IF driver = "redis" /\ ~pushed THEN @ \cup {held} ELSE @]
        /\ queue' = IF again THEN Append(queue, held) ELSE queue
        /\ unsettled' = IF driver = "rabbitmq" THEN <<>> ELSE unsettled
    BY DEF StreamInv, StreamType, HeldIsUnsettled, Handled, Failed, NextTurn
  <1> HIDE DEF again
  <1>2. /\ hist'.accepted = hist.accepted /\ hist'.handled = hist.handled
        /\ hist'.failed = hist.failed \cup {held}
        /\ hist'.cut = IF consumer = "stopping" THEN hist.cut \cup {held} ELSE hist.cut
        /\ hist'.dropped = IF driver = "redis" /\ ~pushed THEN hist.dropped \cup {held}
                           ELSE hist.dropped
        /\ Grows
    BY <1>1 DEF StreamInv, StreamType, Grows
  <1>3. /\ queue' \in Seq(Events)
        /\ ToSet(queue') = IF again THEN ToSet(queue) \cup {held} ELSE ToSet(queue)
    BY <1>1, AppendToSet DEF StreamInv, StreamType
  <1>4. /\ unsettled' \in Seq(Events)
        /\ ToSet(unsettled') = IF driver = "rabbitmq" THEN {} ELSE ToSet(unsettled)
    <2>1. CASE driver = "rabbitmq"
      BY <2>1, <1>1, EmptyToSet
    <2>2. CASE driver # "rabbitmq"
      BY <2>2, <1>1 DEF StreamInv, StreamType
    <2>3. QED
      BY <2>1, <2>2
  <1>5. StreamType'
    BY <1>1, <1>2, <1>3, <1>4 DEF StreamInv, StreamType, Grows
  <1>6. InBroker' \subseteq InBroker \cup {held}
    BY <1>3, <1>4 DEF InBroker
  <1>7. OnlyAccepted'
    BY <1>1, <1>2, <1>6 DEF StreamInv, OnlyAccepted
  <1>8. HeldIsUnsettled'
    BY <1>1 DEF HeldIsUnsettled
  <1>9. UnsettledIsReturned'
    BY <1>1, <1>2, <1>4 DEF StreamInv, UnsettledIsReturned, Settles
  <1>10. Wellformed' = Wellformed /\ held \in Wellformed /\ None \notin Wellformed
    BY <1>1, <1>2 DEF Wellformed, StreamInv, StreamType, OnlyAccepted
  <1>11. \A x \in InBroker \cup {held} : x \in InBroker' \/ (x = held /\ ~again /\ ~Settles)
    BY <1>1, <1>3, <1>4
       DEF InBroker, StreamInv, UnsettledIsReturned, HeldIsUnsettled, again, Settles
  <1>12. AcceptedIsKept'
    <2>1. \A x : x = held /\ ~again /\ ~Settles => Excused(x)'
      <3>1. ~again /\ ~Settles => \/ driver' = "redis" /\ held \in hist'.dropped
                                 \/ driver' \in {"nats", "memory", "none"}
        BY <1>1, <1>2 DEF again, Settles, StreamInv, StreamType, Drivers
      <3>2. QED
        BY <3>1, <1>2, <1>5, ExcusedAfter DEF StreamType
    <2>2. QED
      BY <2>1, <1>2, <1>10, <1>11, KeptStep DEF StreamInv, Somewhere
  <1>13. waitingEvents' \subseteq waitingEvents
    BY <1>1, <1>6, <1>10 DEF waitingEvents
  <1>14. driver = "rabbitmq" => waitingEvents \subseteq waitingEvents'
    BY <1>10, <1>11 DEF waitingEvents, again
  <1>15. Queue!Next
    BY <1>2, <1>13, <1>14, QueueStep DEF StreamInv
  <1>16. QED
    BY <1>5, <1>7, <1>8, <1>9, <1>12, <1>15 DEF StreamInv

\* The process ends: what the broker has is its own, what the process held is cut off.
LEMMA ExitInv ==
  ASSUME StreamInv, Exit
  PROVE  StreamInv' /\ Queue!Next
  <1> USE EventStreamsAssumption
  <1>1. /\ consumer' = "down" /\ held' = None /\ UNCHANGED driver
        /\ hist' = [hist EXCEPT !.cut = @ \cup InProcess \cup ({held} \ {None})]
    BY DEF Exit
  <1>2. InProcess \subseteq Events
    BY DEF InProcess, ToSet, StreamInv, StreamType
  <1>3. /\ hist'.accepted = hist.accepted /\ hist'.handled = hist.handled
        /\ hist'.failed = hist.failed
        /\ hist'.cut = hist.cut \cup InProcess \cup ({held} \ {None})
        /\ hist'.dropped = hist.dropped
        /\ Grows
    BY <1>1, <1>2 DEF StreamInv, StreamType, Grows
  <1>4. /\ queue' \in Seq(Events) /\ unsettled' \in Seq(Events)
        /\ unsettled' = <<>> /\ ToSet(unsettled') = {}
        /\ InBroker' = IF driver \in {"memory", "nats"} THEN {} ELSE InBroker
    <2>1. CASE driver \in {"memory", "nats"}
      <3>1. queue' = <<>> /\ unsettled' = <<>>
        BY <2>1 DEF Exit
      <3>2. QED
        BY <2>1, <3>1, EmptyToSet DEF InBroker
    <2>2. CASE driver \notin {"memory", "nats"}
      <3>1. Reclaimed
        BY <2>2 DEF Exit
      <3>2. QED
        BY <2>2, <3>1, ReclaimedToSet DEF StreamInv
    <2>3. QED
      BY <2>1, <2>2
  <1>5. StreamType'
    BY <1>1, <1>3, <1>4 DEF StreamInv, StreamType, Grows
  <1>6. OnlyAccepted'
    BY <1>1, <1>3, <1>4 DEF StreamInv, OnlyAccepted
  <1>7. HeldIsUnsettled'
    BY <1>1 DEF HeldIsUnsettled
  <1>8. UnsettledIsReturned'
    BY <1>4 DEF UnsettledIsReturned
  <1>9. Wellformed' = Wellformed /\ None \notin Wellformed
    BY <1>3 DEF Wellformed, StreamInv, StreamType
  <1>10. \A x \in Wellformed : x \in InBroker \cup {held} =>
           \/ x \in InBroker'
           \/ driver \in {"redis", "memory", "nats", "none"} /\ x \in hist'.cut
    <2> SUFFICES ASSUME NEW x \in Wellformed, x \in InBroker \cup {held}
                 PROVE  \/ x \in InBroker'
                        \/ driver \in {"redis", "memory", "nats", "none"} /\ x \in hist'.cut
      OBVIOUS
    <2>1. CASE Settles
      BY <2>1, <1>4, <1>9 DEF Settles, StreamInv, HeldIsUnsettled, InBroker
    <2>2. CASE ~Settles
      <3>1. driver \in {"redis", "memory", "nats", "none"}
        BY <2>2 DEF Settles, StreamInv, StreamType, Drivers
      <3>2. InBroker = ToSet(queue)
        BY <2>2, EmptyToSet DEF InBroker, StreamInv, UnsettledIsReturned
      <3>3. QED
        BY <3>1, <3>2, <1>3, <1>4, <1>9 DEF InProcess
    <2>3. QED
      BY <2>1, <2>2
  <1>11. AcceptedIsKept'
    <2>1. \A x : driver \in {"redis", "memory", "nats", "none"} /\ x \in hist'.cut => Excused(x)'
      BY <1>1, <1>5, ExcusedAfter DEF StreamType
    <2>2. QED
      BY <2>1, <1>3, <1>9, <1>10, KeptStep DEF StreamInv, Somewhere
  <1>12. waitingEvents' \subseteq waitingEvents
    BY <1>1, <1>4, <1>9 DEF waitingEvents
  <1>13. driver = "rabbitmq" => waitingEvents \subseteq waitingEvents'
    BY <1>9, <1>10 DEF waitingEvents
  <1>14. Queue!Next
    BY <1>3, <1>12, <1>13, QueueStep DEF StreamInv
  <1>15. QED
    BY <1>5, <1>6, <1>7, <1>8, <1>11, <1>14 DEF StreamInv

\* An event whose answer does not arrive is excused: only Redis loses one so.
LEMMA ReplyLostInv ==
  ASSUME StreamInv, ReplyLost
  PROVE  StreamInv' /\ Queue!Next
  <1> USE EventStreamsAssumption
  <1>0. PICK e \in Events :
          e = Head(queue) /\ queue' \in Seq(Events) /\ ToSet(queue) = ToSet(queue') \cup {e}
    BY TailToSet DEF ReplyLost, StreamInv, StreamType
  <1>1. /\ driver = "redis" /\ held = None
        /\ UNCHANGED <<driver, unsettled, held, consumer>>
        /\ hist' = [hist EXCEPT !.dropped = @ \cup {e}]
    BY <1>0 DEF ReplyLost
  <1>3. /\ hist'.accepted = hist.accepted /\ hist'.handled = hist.handled
        /\ hist'.failed = hist.failed /\ hist'.cut = hist.cut
        /\ hist'.dropped = hist.dropped \cup {e}
        /\ Grows
    BY <1>0, <1>1 DEF StreamInv, StreamType, Grows
  <1>4. StreamType'
    BY <1>0, <1>1, <1>3 DEF StreamInv, StreamType, Grows
  <1>5. InBroker = InBroker' \cup {e}
    BY <1>0, <1>1 DEF InBroker
  <1>6. OnlyAccepted' /\ HeldIsUnsettled' /\ UnsettledIsReturned'
    BY <1>1, <1>3, <1>5
       DEF StreamInv, OnlyAccepted, HeldIsUnsettled, UnsettledIsReturned, Settles
  <1>7. Wellformed' = Wellformed
    BY <1>3 DEF Wellformed
  <1>8. AcceptedIsKept'
    <2>1. Excused(e)'
      BY <1>1, <1>3, <1>4, ExcusedAfter DEF StreamType
    <2>2. QED
      BY <2>1, <1>1, <1>3, <1>5, <1>7, KeptStep DEF StreamInv, Somewhere
  <1>9. waitingEvents' \subseteq waitingEvents
    BY <1>1, <1>5, <1>7 DEF waitingEvents
  <1>10. Queue!Next
    BY <1>1, <1>3, <1>9, QueueStep DEF StreamInv
  <1>11. QED
    BY <1>4, <1>6, <1>8, <1>10 DEF StreamInv

\* A step that leaves the broker, the handler and the history alone.
LEMMA SameEvents ==
  ASSUME StreamInv, StreamType', Grows,
         hist' = hist, held' = held, InBroker' = InBroker,
         HeldIsUnsettled', UnsettledIsReturned'
  PROVE  StreamInv' /\ Queue!Next
  <1>1. OnlyAccepted'
    BY DEF StreamInv, OnlyAccepted
  <1>2. Wellformed' = Wellformed /\ Somewhere' = Somewhere
    BY DEF Wellformed, Somewhere
  <1>3. AcceptedIsKept'
    BY <1>2, KeptStep DEF StreamInv
  <1>4. waitingEvents' = waitingEvents
    BY <1>2 DEF waitingEvents
  <1>5. Queue!Next
    BY <1>4, QueueStep DEF StreamInv
  <1>6. QED
    BY <1>1, <1>3, <1>5 DEF StreamInv

\* A broken connection gives the broker everything back.
LEMMA ConsumerFailsInv ==
  ASSUME StreamInv, ConsumerFails
  PROVE  StreamInv' /\ Queue!Next
  <1>1. /\ consumer' = "stopped" /\ held = None
        /\ UNCHANGED <<driver, held, hist>> /\ Reclaimed
    BY DEF ConsumerFails
  <1>2. /\ queue' \in Seq(Events) /\ unsettled' \in Seq(Events) /\ unsettled' = <<>>
        /\ InBroker' = InBroker /\ ToSet(unsettled') = {}
    BY <1>1, ReclaimedToSet DEF StreamInv
  <1>3. StreamType' /\ Grows
    BY <1>1, <1>2 DEF StreamInv, StreamType, Grows
  <1>4. HeldIsUnsettled' /\ UnsettledIsReturned'
    BY <1>1, <1>2 DEF HeldIsUnsettled, UnsettledIsReturned
  <1>5. QED
    BY <1>1, <1>2, <1>3, <1>4, SameEvents

\* A step that changes at most whether the consumer runs.
LEMMA ConsumerInv ==
  ASSUME StreamInv, UNCHANGED <<driver, queue, unsettled, held, hist>>,
         consumer' \in {"running", "stopping", "stopped", "down"},
         held # None => consumer' \in {"running", "stopping"}
  PROVE  StreamInv' /\ Queue!Next
  <1>1. StreamType' /\ Grows /\ InBroker' = InBroker
    BY DEF StreamInv, StreamType, Grows, InBroker
  <1>2. HeldIsUnsettled' /\ UnsettledIsReturned'
    BY DEF StreamInv, HeldIsUnsettled, UnsettledIsReturned, Settles
  <1>3. QED
    BY <1>1, <1>2, SameEvents

\* Every step of the system keeps the invariant of the stream.
LEMMA StreamNextInv ==
  ASSUME StreamInv, [Next]_vars
  PROVE  StreamInv' /\ Queue!Next
  <1>1. ASSUME NEW e \in Events, Deliver(e) PROVE StreamInv' /\ Queue!Next
    BY <1>1, FetchInv DEF Deliver
  <1>2. ASSUME NEW e \in Events, Discard(e) PROVE StreamInv' /\ Queue!Next
    BY <1>2, DiscardInv
  <1>3. CASE UNCHANGED streamVars
    BY <1>3, ConsumerInv DEF streamVars, StreamInv, StreamType, HeldIsUnsettled
  <1>4. CASE Settle
    <2>1. ASSUME NEW pushed, Handled(At(Consumer, "ok"), pushed) PROVE StreamInv' /\ Queue!Next
      <3>1. CASE At(Consumer, "ok")
        <4>1. Handled(TRUE, pushed)
          BY <2>1, <3>1 DEF Handled
        <4>2. QED
          BY <4>1, HandledOkInv
      <3>2. CASE ~At(Consumer, "ok")
        <4>1. Handled(FALSE, pushed)
          BY <2>1, <3>2 DEF Handled
        <4>2. QED
          BY <4>1, HandledErrorInv
      <3>3. QED
        BY <3>1, <3>2
    <2>2. CASE Handled(FALSE, FALSE)
      BY <2>2, HandledErrorInv
    <2>3. QED
      BY <1>4, <2>1, <2>2 DEF Settle
  <1>5. ASSUME NEW e \in Events, Arrive(e) PROVE StreamInv' /\ Queue!Next
    BY <1>5, PublishInv, PublishUnconfirmedInv DEF Arrive
  <1>6. CASE Stop
    <2>1. CASE ConsumerFails
      BY <2>1, ConsumerFailsInv
    <2>2. CASE consumerCancel
      BY <2>2, ConsumerInv DEF consumerCancel
    <2>3. CASE Exit
      BY <2>3, ExitInv
    <2>4. QED
      BY <1>6, <2>1, <2>2, <2>3 DEF Stop
  <1>7. CASE RunReturns
    BY <1>7, ConsumerInv DEF RunReturns
  <1>8. CASE Restart
    BY <1>8, ConsumerInv DEF Restart, StreamInv, HeldIsUnsettled
  <1>9. CASE LoseReply
    BY <1>9, ReplyLostInv DEF LoseReply
  <1>10. QED
    BY <1>1, <1>2, <1>3, <1>4, <1>5, <1>6, <1>7, <1>8, <1>9
       DEF Next, ConsumerStep, ContextCancelled, CallAPI, Respond, vars

\* ... and it holds of the empty stream.
LEMMA StreamInitInv == IntakeInit => StreamInv
  <1> SUFFICES ASSUME IntakeInit PROVE StreamInv
    OBVIOUS
  <1> USE EventStreamsAssumption
  <1>1. /\ driver \in Drivers /\ queue = <<>> /\ unsettled = <<>> /\ held = None
        /\ consumer \in {"running", "stopped"}
        /\ hist = [accepted |-> {}, handled |-> {}, failed |-> {}, cut |-> {}, dropped |-> {}]
    BY DEF IntakeInit, StreamInit
  <1>2. queue \in Seq(Events) /\ unsettled \in Seq(Events) /\ InBroker = {}
    BY <1>1, EmptyToSet DEF InBroker
  <1>3. QED
    BY <1>1, <1>2, EmptyToSet
       DEF StreamInv, StreamType, OnlyAccepted, HeldIsUnsettled, UnsettledIsReturned,
           AcceptedIsKept, Wellformed

\* The invariant of the stream holds for any events, adapters, callers and budgets.
LEMMA StreamInvariant == Spec => []StreamInv
  <1>1. StreamInv /\ [Next]_vars => StreamInv'
    BY StreamNextInv
  <1>2. QED
    BY <1>1, StreamInitInv, PTL DEF Spec

\* No driver loses an accepted event but for its own excuse, whatever the events, the
\* adapters, the budget of faults and stops and the interleaving with API callers:
\* publishing without confirmation (Kafka, RabbitMQ, NATS), an answer or a push that
\* fails (Redis), a failed handler (Kafka, NATS, memory) and a stop with the event in
\* the process (Redis, NATS, memory) are the only ways (Run and Publish of each driver
\* in pkg/event).
THEOREM EventsKept == Spec => []AcceptedIsKept
  <1>1. StreamInv => AcceptedIsKept
    BY DEF StreamInv
  <1>2. QED
    BY <1>1, StreamInvariant, PTL

\* The stream implements the abstract at-least-once queue, lossless with RabbitMQ:
\* every operation of the stream is a step of AtLeastOnceQueue (Ack only after
\* Handle has returned without an error, Nack with requeue otherwise).
THEOREM ImplementsQueue == Spec => AtLeastOnce
  <1>1. IntakeInit => Queue!Init
    <2> SUFFICES ASSUME IntakeInit PROVE Queue!Init
      OBVIOUS
    <2>1. hist = [accepted |-> {}, handled |-> {}, failed |-> {}, cut |-> {}, dropped |-> {}]
      BY DEF IntakeInit, StreamInit
    <2>2. QED
      BY <2>1 DEF Queue!Init, Wellformed
  <1>2. StreamInv /\ [Next]_vars => Queue!Next
    BY StreamNextInv
  <1>3. QED
    BY <1>1, <1>2, StreamInvariant, PTL DEF Spec, AtLeastOnce, Queue!Spec

-----------------------------------------------------------------------------
(* The instances that messages start *)

Row(p, k, v, s, st) == [process |-> p, key |-> k, via |-> v, seen |-> s, status |-> st]

\* The instances are a sequence of rows.
InstsOK ==
  /\ insts \in Seq(ToSet(insts))
  /\ \A n \in InstanceIDs :
       /\ insts[n] = Row(insts[n].process, insts[n].key, insts[n].via, insts[n].seen,
                         insts[n].status)
       /\ insts[n].status \in {"pending", "running", "completed"}

CallFields == {"at", "msg", "todo", "seen"}

\* A call under way knows its message, what is left to do and what it has seen.
CallsOK ==
  /\ DOMAIN calls = Callers
  /\ \A c \in Callers :
       calls[c].at \notin {"idle", "ok", "error"} =>
         DOMAIN calls[c] = CallFields

\* Every instance in a set is over, if it is of the process and under the key.
Over(seen, p, k) ==
  \A i \in seen :
    /\ i \in InstanceIDs
    /\ insts[i].process = p /\ insts[i].key = k /\ k # NoKey => insts[i].status = "completed"

\* Before TriggerMessage starts a process, what it has seen of it is over ...
LookedBefore ==
  \A c \in Callers :
    At(c, "start") /\ Msg(c).kind = "message" /\ calls[c].todo # {} =>
      Over(calls[c].seen, Starts[Current(c)].process, BusinessKey(Current(c), Msg(c)))

\* ... and so it is once the instance exists.
StartedAfterwards ==
  \A n \in InstanceIDs :
    insts[n].via = "message" => Over(insts[n].seen, insts[n].process, insts[n].key)

WindowInv == InstsOK /\ CallsOK /\ LookedBefore /\ StartedAfterwards

\* What a step may do to the instances that exist.
Advances ==
  \A n \in InstanceIDs :
    /\ n \in InstanceIDs'
    /\ insts'[n].process = insts[n].process /\ insts'[n].key = insts[n].key
    /\ insts'[n].via = insts[n].via /\ insts'[n].seen = insts[n].seen
    /\ insts[n].status = "completed" => insts'[n].status = "completed"

\* What is over stays over.
LEMMA OverLasts ==
  ASSUME Advances, NEW seen, NEW p, NEW k, Over(seen, p, k)
  PROVE  \A i \in seen :
           /\ i \in InstanceIDs'
           /\ insts'[i].process = p /\ insts'[i].key = k /\ k # NoKey
                => insts'[i].status = "completed"
  BY DEF Advances, Over

\* A function on 1..n is a sequence of its values.
LEMMA FunctionIsSeq ==
  ASSUME NEW n \in Nat, NEW f, f = [i \in 1..n |-> f[i]]
  PROVE  f \in Seq(ToSet(f))
  BY DEF ToSet

\* StartProcess and the worker's start job: one row more.
LEMMA StartedRow ==
  ASSUME InstsOK, NEW p, NEW k, NEW v, NEW s, Started(p, k, v, s)
  PROVE  /\ InstsOK' /\ Advances
         /\ \E m \in InstanceIDs' :
              /\ InstanceIDs' = InstanceIDs \cup {m}
              /\ m \notin InstanceIDs
              /\ insts'[m].process = p /\ insts'[m].key = k
              /\ insts'[m].via = v /\ insts'[m].seen = s
  <1> DEFINE r == Row(p, k, v, s, IF async THEN "pending" ELSE RunsTo(p))
             S == ToSet(insts) \cup {r}
             m == Len(insts) + 1
  <1>1. insts \in Seq(S) /\ r \in S /\ insts' = Append(insts, r)
    BY DEF InstsOK, Started, Row
  <1>2. /\ r.process = p /\ r.key = k /\ r.via = v /\ r.seen = s
        /\ r = Row(r.process, r.key, r.via, r.seen, r.status)
        /\ r.status \in {"pending", "running", "completed"}
    BY DEF Row, RunsTo
  <1> HIDE DEF r, S
  <1>3. /\ insts' \in Seq(S) /\ ToSet(insts') = S
    <2>1. ToSet(insts) \cup {r} = S
      BY DEF S
    <2>2. /\ Append(insts, r) \in Seq(S)
          /\ ToSet(Append(insts, r)) = ToSet(insts) \cup {r}
      BY <1>1, AppendToSet
    <2>3. QED
      BY <1>1, <2>1, <2>2
  <1>4. /\ Len(insts) \in Nat
        /\ InstanceIDs = 1..Len(insts)
        /\ InstanceIDs' = 1..m
        /\ \A i \in 1..Len(insts) : insts'[i] = insts[i]
        /\ insts'[m] = r
    BY <1>1 DEF InstanceIDs
  <1>5. /\ m \in InstanceIDs' /\ m \notin InstanceIDs
        /\ InstanceIDs' = InstanceIDs \cup {m}
    BY <1>4
  <1>6. InstsOK'
    BY <1>2, <1>3, <1>4, <1>5 DEF InstsOK, Row
  <1>7. Advances
    BY <1>4, <1>5 DEF Advances
  <1>8. QED
    BY <1>2, <1>4, <1>5, <1>6, <1>7

\* The worker, users and boundary events move one instance on.
LEMMA StatusMoves ==
  ASSUME InstsOK, NEW n \in InstanceIDs, NEW st \in {"running", "completed", "pending"},
         insts' = [insts EXCEPT ![n].status = st],
         insts[n].status = "completed" => st = "completed"
  PROVE  InstsOK' /\ Advances /\ InstanceIDs' = InstanceIDs
  <1>1. /\ DOMAIN insts' = DOMAIN insts
        /\ \A i \in InstanceIDs :
             insts'[i] = IF i = n THEN [insts[n] EXCEPT !.status = st] ELSE insts[i]
    BY DEF InstanceIDs
  <1>2. insts[n] = Row(insts[n].process, insts[n].key, insts[n].via, insts[n].seen,
                       insts[n].status)
    BY DEF InstsOK
  <1>3. insts'[n] = Row(insts[n].process, insts[n].key, insts[n].via, insts[n].seen, st)
    BY <1>1, <1>2 DEF Row
  <1>4. Advances
    BY <1>1, <1>2, <1>3 DEF Advances, Row, InstanceIDs
  <1>5. insts' \in Seq(ToSet(insts'))
    <2>1. Len(insts) \in Nat /\ DOMAIN insts = 1..Len(insts)
      BY DEF InstsOK
    <2>2. insts' = [i \in 1..Len(insts) |-> insts'[i]]
      BY <2>1, <1>1
    <2>3. QED
      BY <2>1, <2>2, FunctionIsSeq
  <1>6. InstsOK'
    BY <1>1, <1>2, <1>3, <1>5 DEF InstsOK, Row, InstanceIDs
  <1>7. QED
    BY <1>1, <1>4, <1>6 DEF InstanceIDs

\* A step that adds no instance keeps what was started after a search.
LEMMA NoNewInstance ==
  ASSUME StartedAfterwards, Advances, InstanceIDs' = InstanceIDs
  PROVE  StartedAfterwards'
  BY OverLasts DEF StartedAfterwards, Over, Advances

\* A call that a step leaves alone has looked before, or has no need to.
LEMMA OthersLooked ==
  ASSUME LookedBefore, Advances, NEW d \in Callers, calls'[d] = calls[d]
  PROVE  At(d, "start")' /\ Msg(d)'.kind = "message" /\ calls'[d].todo # {} =>
           Over(calls[d].seen, Starts[Current(d)].process, BusinessKey(Current(d), Msg(d)))'
  <1> SUFFICES ASSUME At(d, "start")', Msg(d)'.kind = "message", calls'[d].todo # {}
               PROVE  Over(calls[d].seen, Starts[Current(d)].process,
                           BusinessKey(Current(d), Msg(d)))'
    OBVIOUS
  <1> DEFINE seen == calls[d].seen
             p == Starts[Current(d)].process
             k == BusinessKey(Current(d), Msg(d))
  <1>1. seen' = seen /\ p' = p /\ k' = k
    BY DEF Current, BusinessKey, Msg
  <1>2. Over(seen, p, k)
    BY DEF LookedBefore, At, Msg
  <1> HIDE DEF seen, p, k
  <1>3. \A i \in seen :
          /\ i \in InstanceIDs'
          /\ insts'[i].process = p /\ insts'[i].key = k /\ k # NoKey
               => insts'[i].status = "completed"
    BY <1>2, OverLasts
  <1>4. Over(seen, p, k)'
    BY <1>1, <1>3 DEF Over
  <1>5. QED
    BY <1>4 DEF seen, p, k

\* A step of one caller that neither starts an instance nor searches keeps the
\* invariant: it may move any instance on.
LEMMA CallerMoves ==
  ASSUME WindowInv, InstsOK', Advances, InstanceIDs' = InstanceIDs,
         NEW c \in Callers, NEW r, calls' = [calls EXCEPT ![c] = r],
         r.at \notin {"idle", "ok", "error"} => DOMAIN r = CallFields,
         r.at = "start" => r.msg.kind # "message"
  PROVE  WindowInv'
  <1>1. /\ DOMAIN calls' = Callers /\ calls'[c] = r
        /\ \A d \in Callers \ {c} : calls'[d] = calls[d]
    BY DEF WindowInv, CallsOK
  <1>2. CallsOK'
    BY <1>1 DEF WindowInv, CallsOK
  <1>3. LookedBefore'
    BY <1>1, OthersLooked DEF WindowInv, LookedBefore, At, Msg
  <1>4. StartedAfterwards'
    BY NoNewInstance DEF WindowInv
  <1>5. QED
    BY <1>2, <1>3, <1>4 DEF WindowInv

\* The instances are left alone.
LEMMA SameInstances ==
  ASSUME InstsOK, insts' = insts
  PROVE  InstsOK' /\ Advances /\ InstanceIDs' = InstanceIDs
  BY DEF InstsOK, Advances, InstanceIDs

\* The calls are left alone.
LEMMA SameCalls ==
  ASSUME WindowInv, InstsOK', Advances, InstanceIDs' = InstanceIDs, calls' = calls
  PROVE  WindowInv'
  <1>1. CallsOK'
    BY DEF WindowInv, CallsOK
  <1>2. LookedBefore'
    BY OthersLooked DEF WindowInv, LookedBefore
  <1>3. StartedAfterwards'
    BY NoNewInstance DEF WindowInv
  <1>4. QED
    BY <1>1, <1>2, <1>3 DEF WindowInv

\* A call that starts an instance, which then goes on; a message has looked first.
LEMMA StartMoves ==
  ASSUME WindowInv, NEW c \in Callers, NEW p, NEW k, NEW v, NEW r, NEW seen,
         Started(p, k, v, seen),
         v = "message" => Over(seen, p, k),
         calls' = [calls EXCEPT ![c] = r],
         r.at \notin {"idle", "ok", "error"} => DOMAIN r = CallFields,
         r.at = "start" => r.msg.kind # "message"
  PROVE  WindowInv'
  <1>1. /\ DOMAIN calls' = Callers /\ calls'[c] = r
        /\ \A d \in Callers \ {c} : calls'[d] = calls[d]
    BY DEF WindowInv, CallsOK
  <1>2. CallsOK'
    BY <1>1 DEF WindowInv, CallsOK
  <1>3. InstsOK' /\ Advances
    BY StartedRow DEF WindowInv
  <1>4. LookedBefore'
    BY <1>1, <1>3, OthersLooked DEF WindowInv, LookedBefore, At, Msg
  <1>5. PICK m \in InstanceIDs' :
          /\ InstanceIDs' = InstanceIDs \cup {m}
          /\ insts'[m].process = p /\ insts'[m].key = k
          /\ insts'[m].via = v /\ insts'[m].seen = seen
    BY StartedRow DEF WindowInv
  <1>6. StartedAfterwards'
    <2>1. ASSUME NEW n \in InstanceIDs', insts'[n].via = "message", n \in InstanceIDs
          PROVE  Over(insts[n].seen, insts[n].process, insts[n].key)'
      BY <2>1, <1>3, OverLasts DEF WindowInv, StartedAfterwards, Over, Advances
    <2>2. ASSUME insts'[m].via = "message"
          PROVE  Over(insts[m].seen, insts[m].process, insts[m].key)'
      <3>1. \A i \in seen :
              /\ i \in InstanceIDs'
              /\ insts'[i].process = p /\ insts'[i].key = k /\ k # NoKey
                   => insts'[i].status = "completed"
        BY <2>2, <1>3, <1>5, OverLasts
      <3>2. QED
        BY <3>1, <1>5 DEF Over
    <2>3. QED
      BY <2>1, <2>2, <1>5 DEF StartedAfterwards
  <1>7. QED
    BY <1>2, <1>3, <1>4, <1>6 DEF WindowInv

IsCall(r, a, m, t, s) ==
  DOMAIN r = CallFields /\ r.at = a /\ r.msg = m /\ r.todo = t /\ r.seen = s

\* The record of a call that is under way, and what its updates make of it.
LEMMA CallUpdates ==
  ASSUME CallsOK, NEW c \in Callers, calls[c].at \notin {"idle", "ok", "error"},
         NEW a, NEW t, NEW s
  PROVE  /\ IsCall([calls[c] EXCEPT !.at = a], a, Msg(c), calls[c].todo, calls[c].seen)
         /\ IsCall([calls[c] EXCEPT !.todo = t], calls[c].at, Msg(c), t, calls[c].seen)
         /\ IsCall([calls[c] EXCEPT !.at = a, !.todo = t], a, Msg(c), t, calls[c].seen)
         /\ IsCall([calls[c] EXCEPT !.at = a, !.seen = s], a, Msg(c), calls[c].todo, s)
  <1>1. ASSUME NEW r, DOMAIN r = CallFields, NEW v
        PROVE  /\ IsCall([r EXCEPT !.at = v], v, r.msg, r.todo, r.seen)
               /\ IsCall([r EXCEPT !.todo = v], r.at, r.msg, v, r.seen)
               /\ IsCall([r EXCEPT !.seen = v], r.at, r.msg, r.todo, v)
    BY <1>1 DEF IsCall, CallFields
  <1>2. DOMAIN calls[c] = CallFields
    BY DEF CallsOK
  <1>3. IsCall([calls[c] EXCEPT !.at = a, !.todo = t], a, Msg(c), t, calls[c].seen)
    BY <1>1, <1>2 DEF Msg, IsCall
  <1>4. IsCall([calls[c] EXCEPT !.at = a, !.seen = s], a, Msg(c), calls[c].todo, s)
    BY <1>1, <1>2 DEF Msg, IsCall
  <1>5. QED
    BY <1>1, <1>2, <1>3, <1>4 DEF Msg

\* CallerMoves for a record of known parts.
LEMMA CallGoesOn ==
  ASSUME WindowInv, InstsOK', Advances, InstanceIDs' = InstanceIDs,
         NEW c \in Callers, NEW r, NEW a, NEW m, NEW t, NEW s,
         calls' = [calls EXCEPT ![c] = r], IsCall(r, a, m, t, s),
         a = "start" => m.kind # "message"
  PROVE  WindowInv'
  BY CallerMoves DEF IsCall

\* The search finds an instance, or what it has seen under the key is over.
LEMMA FindInv ==
  ASSUME WindowInv, NEW c \in Callers, Find(c)
  PROVE  WindowInv'
  <1> DEFINE s == Current(c)
             k == BusinessKey(s, Msg(c))
             p == Starts[s].process
             found == SearchedFor(p, k)
  <1>1. /\ calls[c].at = "find" /\ insts' = insts
        /\ calls' = [calls EXCEPT ![c] = IF found THEN [calls[c] EXCEPT !.todo = Dropped(c)]
                         ELSE [calls[c] EXCEPT !.at = "start", !.seen = Visible]]
    BY DEF Find, FindOr, At
  <1>2. InstsOK' /\ Advances /\ InstanceIDs' = InstanceIDs
    BY <1>1, SameInstances DEF WindowInv
  <1>3. CASE found
    <2> DEFINE r == [calls[c] EXCEPT !.todo = Dropped(c)]
    <2>1. IsCall(r, "find", Msg(c), Dropped(c), calls[c].seen)
      BY <1>1, CallUpdates DEF WindowInv
    <2>2. calls' = [calls EXCEPT ![c] = r]
      BY <1>1, <1>3
    <2> HIDE DEF r
    <2>3. QED
      BY <2>1, <2>2, <1>2, CallGoesOn
  <1>4. CASE ~found
    <2> DEFINE r == [calls[c] EXCEPT !.at = "start", !.seen = Visible]
    <2>1. IsCall(r, "start", Msg(c), calls[c].todo, Visible)
      BY <1>1, CallUpdates DEF WindowInv
    <2>2. /\ DOMAIN calls' = Callers
          /\ calls'[c] = r
          /\ \A d \in Callers \ {c} : calls'[d] = calls[d]
      BY <1>1, <1>4 DEF WindowInv, CallsOK
    <2> HIDE DEF r
    <2>3. CallsOK'
      BY <2>1, <2>2 DEF WindowInv, CallsOK, IsCall
    <2>4. StartedAfterwards'
      BY <1>2, NoNewInstance DEF WindowInv
    <2>5. \A i \in Visible :
            /\ i \in InstanceIDs
            /\ insts[i].process = p /\ insts[i].key = k /\ k # NoKey
                 => insts[i].status = "completed"
      BY <1>4 DEF SearchedFor, FindRunningInstanceByBusinessKey, Visible, WindowInv, InstsOK
    <2>6. /\ calls'[c].msg = calls[c].msg /\ calls'[c].todo = calls[c].todo
          /\ calls'[c].seen = Visible
      BY <2>1, <2>2 DEF IsCall, Msg
    <2>7. s' = s /\ k' = k /\ p' = p
      BY <2>6 DEF Current, BusinessKey, Msg
    <2> HIDE DEF s, k, p, found
    <2>8. Over(calls[c].seen, p, k)'
      BY <1>1, <2>5, <2>6, <2>7 DEF Over, InstanceIDs
    <2>9. LookedBefore'
      <3>1. ASSUME NEW d \in Callers, d # c,
                   At(d, "start")', Msg(d)'.kind = "message", calls'[d].todo # {}
            PROVE  Over(calls[d].seen, Starts[Current(d)].process,
                        BusinessKey(Current(d), Msg(d)))'
        BY <3>1, <2>2, <1>2, OthersLooked DEF WindowInv
      <3>2. QED
        BY <3>1, <2>8 DEF LookedBefore, p, k, s
    <2>10. QED
      BY <1>2, <2>3, <2>4, <2>9 DEF WindowInv
  <1>5. QED
    BY <1>3, <1>4

\* The next start event: the record after a start or its failure.
LEMMA AfterStartRecord ==
  ASSUME CallsOK, NEW c \in Callers, calls[c].at \in {"find", "start"}
  PROVE  \E a \in {"find", "start"} :
           /\ IsCall(AfterStart(c), a, Msg(c), Dropped(c), calls[c].seen)
           /\ a = "start" => Msg(c).kind # "message"
  <1> DEFINE a == IF Msg(c).kind = "message" THEN "find" ELSE "start"
  <1>1. AfterStart(c) = [calls[c] EXCEPT !.at = a, !.todo = Dropped(c)]
    BY DEF AfterStart
  <1>2. a \in {"find", "start"} /\ (a = "start" => Msg(c).kind # "message")
    OBVIOUS
  <1> HIDE DEF a
  <1>3. IsCall([calls[c] EXCEPT !.at = a, !.todo = Dropped(c)], a, Msg(c), Dropped(c),
               calls[c].seen)
    BY CallUpdates
  <1>4. QED
    BY <1>1, <1>2, <1>3

\* A start under the key that was looked for.
LEMMA StartProcessInv ==
  ASSUME WindowInv, NEW c \in Callers, StartProcess(c)
  PROVE  WindowInv'
  <1> DEFINE s == Current(c)
             k == BusinessKey(s, Msg(c))
             p == Starts[s].process
             v == Msg(c).kind
  <1>1. /\ calls[c].at = "start" /\ calls[c].todo # {}
        /\ calls' = [calls EXCEPT ![c] = AfterStart(c)]
        /\ Started(p, k, v, calls[c].seen) \/ insts' = insts
    BY DEF StartProcess, StartOne, At
  <1>2. PICK a \in {"find", "start"} :
           /\ IsCall(AfterStart(c), a, Msg(c), Dropped(c), calls[c].seen)
           /\ a = "start" => Msg(c).kind # "message"
    BY <1>1, AfterStartRecord DEF WindowInv
  <1>3. CASE insts' = insts
    <2>1. InstsOK' /\ Advances /\ InstanceIDs' = InstanceIDs
      BY <1>3, SameInstances DEF WindowInv
    <2>2. QED
      BY <2>1, <1>1, <1>2, CallGoesOn
  <1>4. CASE Started(p, k, v, calls[c].seen)
    <2>1. v = "message" => Over(calls[c].seen, p, k)
      BY <1>1 DEF WindowInv, LookedBefore, At
    <2> HIDE DEF p, k, v
    <2>2. QED
      BY <1>1, <1>2, <1>4, <2>1, StartMoves DEF IsCall
  <1>5. QED
    BY <1>1, <1>3, <1>4

\* A step of a call that leaves the instances alone and is no search.
LEMMA CallOnly ==
  ASSUME WindowInv, insts' = insts,
         NEW c \in Callers, NEW r, NEW a, NEW m, NEW t, NEW s,
         calls' = [calls EXCEPT ![c] = r], IsCall(r, a, m, t, s),
         a = "start" => m.kind # "message"
  PROVE  WindowInv'
  BY CallGoesOn, SameInstances DEF WindowInv

\* The call ends, or changes only where it is.
LEMMA CallTo ==
  ASSUME WindowInv, insts' = insts, NEW c \in Callers, NEW a \in {"ok", "error", "fire"},
         calls[c].at \notin {"idle", "ok", "error"},
         calls' = [calls EXCEPT ![c].at = a]
  PROVE  WindowInv'
  <1> DEFINE r == [calls[c] EXCEPT !.at = a]
  <1>1. IsCall(r, a, Msg(c), calls[c].todo, calls[c].seen)
    BY CallUpdates DEF WindowInv
  <1>2. calls' = [calls EXCEPT ![c] = r]
    OBVIOUS
  <1> HIDE DEF r
  <1>3. QED
    BY <1>1, <1>2, CallOnly

LeavesTodo(c, t) == calls' = [calls EXCEPT ![c].todo = t]

\* The call has something less to do.
LEMMA CallDrops ==
  ASSUME WindowInv, InstsOK', Advances, InstanceIDs' = InstanceIDs,
         NEW c \in Callers, NEW t, calls[c].at \in {"boundary", "partner"},
         LeavesTodo(c, t)
  PROVE  WindowInv'
  <1> DEFINE r == [calls[c] EXCEPT !.todo = t]
  <1>1. IsCall(r, calls[c].at, Msg(c), t, calls[c].seen)
    BY CallUpdates DEF WindowInv
  <1>2. calls' = [calls EXCEPT ![c] = r]
    BY DEF LeavesTodo
  <1> HIDE DEF r
  <1>3. calls[c].at # "start"
    OBVIOUS
  <1>4. QED
    BY <1>1, <1>2, <1>3, CallGoesOn

\* A failed search or start is dropped from the call.
LEMMA MatchFailsInv ==
  ASSUME WindowInv, NEW c \in Callers, MatchFails(c)
  PROVE  WindowInv'
  <1>1. insts' = insts
    BY DEF MatchFails
  <1>2. CASE calls[c].at \in {"find", "start"} /\ calls' = [calls EXCEPT ![c] = AfterStart(c)]
    BY <1>1, <1>2, AfterStartRecord, CallOnly DEF WindowInv
  <1>3. ASSUME calls[c].at \in {"boundary", "partner"},
               NEW t, calls' = [calls EXCEPT ![c].todo = @ \ {t}]
        PROVE  WindowInv'
    <2> DEFINE x == calls[c].todo \ {t}
    <2>1. LeavesTodo(c, x)
      BY <1>3 DEF LeavesTodo
    <2> HIDE DEF x
    <2>2. InstsOK' /\ Advances /\ InstanceIDs' = InstanceIDs
      BY <1>1, SameInstances DEF WindowInv
    <2>3. QED
      BY <1>3, <2>1, <2>2, CallDrops
  <1>4. QED
    BY <1>2, <1>3 DEF MatchFails

\* A process started by itself is not started by a message.
LEMMA StartDirectInv ==
  ASSUME WindowInv, NEW c \in Callers, StartDirect(c)
  PROVE  WindowInv'
  <1>1. calls[c].at = "direct"
    BY DEF StartDirect, At
  <1>2. CASE Msg(c).ref \notin deployed
    <2>1. insts' = insts /\ calls' = [calls EXCEPT ![c].at = "error"]
      BY <1>2 DEF StartDirect
    <2>2. QED
      BY <1>1, <2>1, CallTo
  <1>3. CASE Msg(c).ref \in deployed
    <2> DEFINE r == [calls[c] EXCEPT !.at = "ok"]
               p == Msg(c).ref
               k == Msg(c).businessKey
    <2>1. IsCall(r, "ok", Msg(c), calls[c].todo, calls[c].seen)
      BY <1>1, CallUpdates DEF WindowInv
    <2>2. calls' = [calls EXCEPT ![c] = r] /\ Started(p, k, "start", {})
      BY <1>3 DEF StartDirect
    <2> HIDE DEF r, p, k
    <2>3. QED
      BY <2>1, <2>2, StartMoves DEF IsCall
  <1>4. QED
    BY <1>2, <1>3

\* A partner is started by the message flow, without a search.
LEMMA StartPartnerInv ==
  ASSUME WindowInv, NEW c \in Callers, NEW fs, StartPartner(c, fs)
  PROVE  WindowInv'
  <1> DEFINE r == [calls[c] EXCEPT !.todo = @ \ {fs}]
             p == Starts[fs[2]].process
             k == BusinessKey(fs[2], [Msg(c) EXCEPT !.businessKey = NoKey])
  <1>1. /\ calls[c].at = "partner"
        /\ calls' = [calls EXCEPT ![c] = r]
        /\ Started(p, k, "partner", calls[c].seen) \/ insts' = insts
    BY DEF StartPartner, StartOne, At
  <1>2. IsCall(r, "partner", Msg(c), calls[c].todo \ {fs}, calls[c].seen)
    BY <1>1, CallUpdates DEF WindowInv
  <1> HIDE DEF r, p, k
  <1>3. CASE insts' = insts
    BY <1>1, <1>2, <1>3, CallOnly
  <1>4. CASE Started(p, k, "partner", calls[c].seen)
    BY <1>1, <1>2, <1>4, StartMoves DEF IsCall
  <1>5. QED
    BY <1>1, <1>3, <1>4

\* A boundary event moves an instance only towards its end.
LEMMA fireBoundaryEventInv ==
  ASSUME WindowInv, NEW c \in Callers, NEW n \in InstanceIDs, fireBoundaryEvent(c, n)
  PROVE  WindowInv'
  <1> DEFINE st == IF insts[n].status = "running" THEN "completed" ELSE insts[n].status
             t == calls[c].todo \ {n}
  <1>1. /\ calls[c].at = "boundary"
        /\ insts' = [insts EXCEPT ![n].status = st]
        /\ LeavesTodo(c, t)
    BY DEF fireBoundaryEvent, At, LeavesTodo
  <1>2. st \in {"running", "completed", "pending"} /\ (insts[n].status = "completed" => st = "completed")
    BY DEF WindowInv, InstsOK
  <1> HIDE DEF st, t
  <1>3. InstsOK' /\ Advances /\ InstanceIDs' = InstanceIDs
    BY <1>1, <1>2, StatusMoves DEF WindowInv
  <1>4. QED
    BY <1>1, <1>3, CallDrops

\* So does one that is triggered for one instance.
LEMMA FireTriggeredInv ==
  ASSUME WindowInv, NEW c \in Callers, FireTriggered(c)
  PROVE  WindowInv'
  <1> DEFINE n == Msg(c).instance
             st == IF insts[n].status = "running" THEN "completed" ELSE insts[n].status
             r == [calls[c] EXCEPT !.at = "ok"]
  <1>1. /\ calls[c].at = "fire"
        /\ insts' = [insts EXCEPT ![n].status = st]
        /\ calls' = [calls EXCEPT ![c] = r]
    BY DEF FireTriggered, At
  <1>2. IsCall(r, "ok", Msg(c), calls[c].todo, calls[c].seen)
    BY <1>1, CallUpdates DEF WindowInv
  <1>3. n \in InstanceIDs =>
          st \in {"running", "completed", "pending"} /\ (insts[n].status = "completed" => st = "completed")
    BY DEF WindowInv, InstsOK
  <1> HIDE DEF st, r, n
  <1>4. CASE n \in InstanceIDs
    <2>1. InstsOK' /\ Advances /\ InstanceIDs' = InstanceIDs
      BY <1>1, <1>3, <1>4, StatusMoves DEF WindowInv
    <2>2. QED
      BY <2>1, <1>1, <1>2, CallGoesOn
  <1>5. CASE n \notin InstanceIDs
    <2>1. insts' = insts
      BY <1>1, <1>5 DEF WindowInv, InstsOK, InstanceIDs
    <2>2. QED
      BY <2>1, <1>1, <1>2, CallOnly
  <1>6. QED
    BY <1>4, <1>5

\* The list of instances for boundary events is no search for a start.
LEMMA ListRunningInstancesInv ==
  ASSUME WindowInv, NEW c \in Callers, ListRunningInstances(c)
  PROVE  WindowInv'
  <1>1. PICK t : /\ calls[c].at = "find" /\ insts' = insts
                 /\ calls' = [calls EXCEPT ![c].at = "boundary", ![c].seen = {}, ![c].todo = t]
    BY DEF ListRunningInstances, At
  <1> DEFINE r == [calls[c] EXCEPT !.at = "boundary", !.seen = {}, !.todo = t]
  <1>2. calls' = [calls EXCEPT ![c] = r]
    BY <1>1 DEF WindowInv, CallsOK
  <1>3. DOMAIN calls[c] = CallFields
    BY <1>1 DEF WindowInv, CallsOK
  <1>4. IsCall(r, "boundary", Msg(c), t, {})
    BY <1>3 DEF IsCall, CallFields, Msg
  <1> HIDE DEF r
  <1>5. QED
    BY <1>1, <1>2, <1>4, CallOnly

\* Nor is that of the message flows.
LEMMA ListPartnersInv ==
  ASSUME WindowInv, NEW c \in Callers, ListPartners(c)
  PROVE  WindowInv'
  <1>1. PICK t : /\ calls[c].at = "boundary" /\ insts' = insts
                 /\ calls' = [calls EXCEPT ![c].at = "partner", ![c].todo = t]
    BY DEF ListPartners, At
  <1> DEFINE r == [calls[c] EXCEPT !.at = "partner", !.todo = t]
  <1>2. calls' = [calls EXCEPT ![c] = r]
    BY <1>1 DEF WindowInv, CallsOK
  <1>3. IsCall(r, "partner", Msg(c), t, calls[c].seen)
    BY <1>1, CallUpdates DEF WindowInv
  <1> HIDE DEF r
  <1>4. QED
    BY <1>1, <1>2, <1>3, CallOnly

\* Every step of a call keeps the invariant.
LEMMA CallStepInv ==
  ASSUME WindowInv, NEW c \in Callers, CallStep(c)
  PROVE  WindowInv'
  <1>1. CASE SignalDone(c)
    BY <1>1, CallTo DEF SignalDone, At
  <1>2. CASE MessageDone(c)
    BY <1>2, CallTo DEF MessageDone, At
  <1>3. CASE CallFails(c)
    BY <1>3, CallTo DEF CallFails, At
  <1>4. CASE TriggerBoundary(c)
    BY <1>4, CallTo DEF TriggerBoundary, At
  <1>5. QED
    BY <1>1, <1>2, <1>3, <1>4, FireTriggeredInv, FindInv, StartProcessInv, MatchFailsInv, StartDirectInv,
       ListRunningInstancesInv, fireBoundaryEventInv, ListPartnersInv, StartPartnerInv
       DEF CallStep

\* A message is given to a call, which begins with the search.
LEMMA ScanInv ==
  ASSUME WindowInv, insts' = insts, NEW c \in Callers, NEW m, Scan(c, m)
  PROVE  WindowInv'
  <1>1. PICK a, t : /\ calls' = [calls EXCEPT ![c] = [at |-> a, msg |-> m, todo |-> t, seen |-> {}]]
                    /\ a = "start" => m.kind # "message"
    <2> DEFINE a == CASE m.kind = "message" -> "find"
                      [] m.kind = "start"   -> "direct"
                      [] m.kind = "boundary" -> "trigger"
                      [] OTHER              -> "start"
    <2>1. m.kind = "message" => a = "find"
      OBVIOUS
    <2>2. calls' = [calls EXCEPT ![c] = [at |-> a, msg |-> m, todo |-> Matching(m), seen |-> {}]]
      BY DEF Scan
    <2> HIDE DEF a
    <2>3. QED
      BY <2>1, <2>2
  <1> DEFINE r == [at |-> a, msg |-> m, todo |-> t, seen |-> {}]
  <1>2. IsCall(r, a, m, t, {})
    BY DEF IsCall, CallFields
  <1>3. calls' = [calls EXCEPT ![c] = r]
    BY <1>1
  <1> HIDE DEF r
  <1>4. QED
    BY <1>1, <1>2, <1>3, CallOnly

\* The caller is idle or has its answer.
LEMMA RestInv ==
  ASSUME WindowInv, insts' = insts, NEW c \in Callers, NEW a \in {"idle", "ok", "error"},
         calls' = [calls EXCEPT ![c] = [at |-> a]]
  PROVE  WindowInv'
  <1> DEFINE r == [at |-> a]
  <1>1. r.at = a
    OBVIOUS
  <1>2. calls' = [calls EXCEPT ![c] = r]
    OBVIOUS
  <1> HIDE DEF r
  <1>3. InstsOK' /\ Advances /\ InstanceIDs' = InstanceIDs
    BY SameInstances DEF WindowInv
  <1>4. QED
    BY <1>1, <1>2, <1>3, CallerMoves

\* So do the worker, users and the deletion of processes.
LEMMA EnvironmentInv ==
  ASSUME WindowInv, Environment
  PROVE  WindowInv'
  <1>1. ASSUME NEW n \in InstanceIDs, RunStart(n) PROVE WindowInv'
    <2> DEFINE st == RunsTo(insts[n].process)
    <2>1. /\ insts' = [insts EXCEPT ![n].status = st] /\ calls' = calls
          /\ insts[n].status = "pending"
      BY <1>1 DEF RunStart
    <2>2. st \in {"running", "completed", "pending"}
      BY DEF RunsTo
    <2> HIDE DEF st
    <2>3. QED
      BY <2>1, <2>2, StatusMoves, SameCalls DEF WindowInv
  <1>2. ASSUME NEW n \in InstanceIDs, Complete(n) PROVE WindowInv'
    BY <1>2, StatusMoves, SameCalls DEF Complete, WindowInv
  <1>3. ASSUME NEW p \in Processes, DeleteProcess(p) PROVE WindowInv'
    BY <1>3, SameInstances, SameCalls DEF DeleteProcess, WindowInv
  <1>4. QED
    BY <1>1, <1>2, <1>3 DEF Environment

\* Neither calls nor instances change.
LEMMA SameTriggers ==
  ASSUME WindowInv, insts' = insts, calls' = calls
  PROVE  WindowInv'
  BY SameInstances, SameCalls DEF WindowInv

\* The consumer's call begins like any other.
LEMMA DeliverInv ==
  ASSUME WindowInv, NEW e \in Events, Deliver(e)
  PROVE  WindowInv'
  <1>1. Consumer \in Callers
    BY IntakeAssumption
  <1>2. insts' = insts /\ Handle(e)
    BY DEF Deliver
  <1>3. CASE ActionOf[e] = NoAdapter
    <2>1. calls' = [calls EXCEPT ![Consumer] = [at |-> "error"]]
      BY <1>2, <1>3 DEF Handle
    <2>2. QED
      BY <1>1, <1>2, <2>1, RestInv
  <1>4. CASE ActionOf[e] # NoAdapter /\ ActionOf[e] = Ignored
    <2>1. calls' = [calls EXCEPT ![Consumer] = [at |-> "ok"]]
      BY <1>2, <1>4, IntakeAssumption DEF Handle, ApplyTriggerAction
    <2>2. QED
      BY <1>1, <1>2, <2>1, RestInv
  <1>5. CASE ActionOf[e] \notin {NoAdapter, Ignored} /\ ActionOf[e] = BadInstance
    <2>1. calls' = [calls EXCEPT ![Consumer] = [at |-> "error"]]
      BY <1>2, <1>5, IntakeAssumption DEF Handle, ApplyTriggerAction
    <2>2. QED
      BY <1>1, <1>2, <2>1, RestInv
  <1>6. CASE ActionOf[e] \notin {NoAdapter, Ignored, BadInstance}
    <2>1. Scan(Consumer, ActionOf[e])
      BY <1>2, <1>6 DEF Handle, ApplyTriggerAction
    <2>2. QED
      BY <1>1, <1>2, <2>1, ScanInv
  <1>7. QED
    BY <1>3, <1>4, <1>5, <1>6

\* A cancelled context ends the call or empties what it has to do.
LEMMA ContextCancelledInv ==
  ASSUME WindowInv, ContextCancelled
  PROVE  WindowInv'
  <1>1. Consumer \in Callers /\ insts' = insts
    BY IntakeAssumption DEF ContextCancelled
  <1>2. CASE /\ calls[Consumer].at \in {"find", "start", "direct", "boundary", "trigger", "fire"}
             /\ calls' = [calls EXCEPT ![Consumer].at = "error"]
    BY <1>1, <1>2, CallTo
  <1>3. CASE /\ At(Consumer, "partner")
             /\ calls' = [calls EXCEPT ![Consumer].todo = {}]
    <2>1. LeavesTodo(Consumer, {})
      BY <1>3 DEF LeavesTodo
    <2>2. InstsOK' /\ Advances /\ InstanceIDs' = InstanceIDs
      BY <1>1, SameInstances DEF WindowInv
    <2>3. QED
      BY <1>1, <1>3, <2>1, <2>2, CallDrops DEF At
  <1>4. QED
    BY <1>2, <1>3 DEF ContextCancelled

\* The server is gone, and every call with it.
LEMMA CutOffInv ==
  ASSUME WindowInv, insts' = insts, calls' = [c \in Callers |-> Idle]
  PROVE  WindowInv'
  <1>1. InstsOK' /\ Advances /\ InstanceIDs' = InstanceIDs
    BY SameInstances DEF WindowInv
  <1>2. CallsOK' /\ LookedBefore'
    BY DEF CallsOK, LookedBefore, At, Idle
  <1>3. StartedAfterwards'
    BY <1>1, NoNewInstance DEF WindowInv
  <1>4. QED
    BY <1>1, <1>2, <1>3 DEF WindowInv

\* Every step of the system keeps the invariant of the window.
LEMMA WindowNextInv ==
  ASSUME WindowInv, [Next]_vars
  PROVE  WindowInv'
  <1> USE IntakeAssumption
  <1>1. CASE UNCHANGED triggerVars
    BY <1>1, SameTriggers DEF triggerVars
  <1>2. CASE Settle
    BY <1>2, RestInv DEF Settle, Idle
  <1>3. ASSUME NEW e \in Events, Arrive(e) PROVE WindowInv'
    BY <1>3, SameTriggers DEF Arrive
  <1>8. CASE LoseReply
    BY <1>8, SameTriggers DEF LoseReply
  <1>4. ASSUME NEW c \in Callers, NEW m \in ApiMessages, CallAPI(c, m) PROVE WindowInv'
    BY <1>4, ScanInv DEF CallAPI
  <1>5. ASSUME NEW c \in Callers, Respond(c) PROVE WindowInv'
    BY <1>5, RestInv DEF Respond, Idle
  <1>6. CASE Stop
    BY <1>6, CutOffInv, SameTriggers DEF Stop
  <1>7. QED
    BY <1>1, <1>2, <1>3, <1>4, <1>5, <1>6, <1>8, CallStepInv, DeliverInv, ContextCancelledInv,
       EnvironmentInv
       DEF Next, ConsumerStep, vars, triggerVars

\* Messages of any number of callers, with any start events and message flows and
\* any budget of faults, completions, deletions and stops: a message starts a
\* second running instance under a business key only if it looked before the first
\* one could be found (TriggerMessage).
THEOREM WindowOnly == Spec => []DuplicatesOnlyInWindow
  <1>1. IntakeInit => WindowInv
    <2> SUFFICES ASSUME IntakeInit PROVE WindowInv
      OBVIOUS
    <2>1. insts = <<>> /\ calls = [c \in Callers |-> Idle]
      BY DEF IntakeInit, Init
    <2>2. InstanceIDs = {} /\ insts \in Seq(ToSet(insts))
      BY <2>1 DEF InstanceIDs
    <2>3. QED
      BY <2>1, <2>2
         DEF WindowInv, InstsOK, CallsOK, LookedBefore, StartedAfterwards, At, Idle
  <1>2. WindowInv /\ [Next]_vars => WindowInv'
    BY WindowNextInv
  <1>3. WindowInv => DuplicatesOnlyInWindow
    BY DEF WindowInv, StartedAfterwards, Over, DuplicatesOnlyInWindow
  <1>4. QED
    BY <1>1, <1>2, <1>3, PTL DEF Spec
=============================================================================
