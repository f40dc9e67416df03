-------------------------- MODULE InstanceLifecycle ---------------------------
(***************************************************************************)
(* What clients see of one process instance: its status and its            *)
(* activities, each open and then closed for good.  A transaction that     *)
(* commits may open activities, close some and end the instance; one that  *)
(* completes or cancels it leaves nothing open.                            *)
(***************************************************************************)
EXTENDS Naturals, FiniteSets

VARIABLES status, open, closed

Ended == {"completed", "failed", "cancelled"}

Init == status = "absent" /\ open = {} /\ closed = {}

\* A start that is queued.
Queue == status = "absent" /\ status' = "pending" /\ UNCHANGED <<open, closed>>

\* New holds the activities this transaction creates.
Transact(next, New) ==
    /\ status \notin Ended
    /\ status' = next
    /\ New \cap (open \cup closed) = {}
    /\ open' \subseteq open \cup New
    /\ closed' = closed \cup ((open \cup New) \ open')
    /\ next \in {"completed", "cancelled"} => open' = {}

Next ==
    \/ Queue
    \/ \E next \in {"running"} \cup Ended :
         Transact(next, (open' \cup closed') \ (open \cup closed))

Spec == Init /\ [][Next]_<<status, open, closed>>
=============================================================================
