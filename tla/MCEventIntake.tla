---------------------------- MODULE MCEventIntake -----------------------------
(***************************************************************************)
(* Two webhooks for the same order, one that aborts it by its instance's   *)
(* id, one whose id is unreadable, an event no adapter takes, one whose    *)
(* action is unknown and one that is not JSON; an API caller that posts    *)
(* the order again, cancels or aborts it, or raises a signal or a          *)
(* condition.  "ship" is both started by the message itself and a partner  *)
(* in a collaboration of "order".                                          *)
(***************************************************************************)
EXTENDS EventIntake

Begin(process, type, ref, condition) ==
    [process |-> process, type |-> type, ref |-> ref, correlates |-> TRUE, condition |-> condition]

MCStarts == <<Begin("order", "message", "placed", "holds"), Begin("order", "message", "placed", "error"),
              Begin("ship", "message", "placed", "holds"), Begin("ship", "signal", "stock", "holds"),
              Begin("ship", "conditional", "", "fails")>>
MCPartners == <<[owner |-> "order", ref |-> "placed", partner |-> "ship"]>>
MCBoundaries == {<<"order", "cancelled">>}

Placed == [kind |-> "message", ref |-> "placed", businessKey |-> NoKey, payload |-> "k", instance |-> 0]
Abort == [Placed EXCEPT !.kind = "boundary", !.ref = "cancelled", !.instance = 1]
MCActionOf == [e \in Events |->
                 CASE e = "placed"  -> Placed
                   [] e = "direct"  -> [Placed EXCEPT !.kind = "start", !.ref = "ship"]
                   [] e = "abort"   -> Abort
                   [] e = "unknown" -> Ignored
                   [] e = "badid"   -> BadInstance
                   [] OTHER         -> NoAdapter]
MCApiMessages == {[Placed EXCEPT !.businessKey = "k", !.payload = NoKey],
                  [Placed EXCEPT !.ref = "cancelled"],
                  [Placed EXCEPT !.kind = "signal", !.ref = "stock"],
                  [Placed EXCEPT !.kind = "conditional"], Abort,
                  [Placed EXCEPT !.kind = "start", !.ref = "ship"]}

\* A consumer by itself, one with failing calls, one with a stopping server, one beside a caller of
\* the API, one beside users, and the API by itself.
MCBudgets == {[events |-> 3, faults |-> 0, calls |-> 0, changes |-> 0, stops |-> 0],
              [events |-> 2, faults |-> 1, calls |-> 0, changes |-> 0, stops |-> 0],
              [events |-> 2, faults |-> 0, calls |-> 0, changes |-> 0, stops |-> 1],
              [events |-> 1, faults |-> 0, calls |-> 0, changes |-> 0, stops |-> 2],
              [events |-> 1, faults |-> 0, calls |-> 1, changes |-> 0, stops |-> 0],
              [events |-> 1, faults |-> 0, calls |-> 0, changes |-> 1, stops |-> 0],
              [events |-> 0, faults |-> 1, calls |-> 2, changes |-> 0, stops |-> 0]}

\* What an API caller meets does not depend on the broker: one that redelivers will do.
MCInit == IntakeInit /\ (left.calls > 0 => driver = "rabbitmq")
MCSpec == MCInit /\ [][Next]_vars /\ WF_vars(ConsumerStep)
=============================================================================
