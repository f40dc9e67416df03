---------------------------- MODULE MCReturnPath ------------------------------
(***************************************************************************)
(* ReturnPath on every definition with the four elements q, a, b and m and *)
(* three flows: q is the rejected userTask, m may be the marker of q's     *)
(* scope.  The breadth-first walk is compared with a definition that has   *)
(* neither queue nor visited set.                                          *)
(***************************************************************************)
EXTENDS ReturnPath, FiniteSets

VARIABLES g, answer

vars == <<g, answer>>

Names == {"q", "a", "b", "m"}
Passing == {"startEvent", "userTask", "parallelGateway", "scriptTask"}
FlowPairs == {p \in Names \X Names : p[1] # p[2]}

Graph(ka, kb, km, flows, scoped, entry) ==
    [kind   |-> [e \in Names |-> CASE e = "a" -> ka [] e = "b" -> kb
                                   [] e = "m" -> km [] OTHER -> "userTask"],
     source |-> [f \in 1..3 |-> flows[f][1]],
     target |-> [f \in 1..3 |-> flows[f][2]],
     scope  |-> [e \in Names |-> IF scoped /\ e \in {"q", "m"} THEN "m" ELSE "none"],
     entry  |-> [e \in Names |-> IF e = "m" THEN entry ELSE "none"],
     returnTo |-> [e \in Names |-> "none"]]

Init ==
    /\ \E ka \in Passing, kb \in Passing, flows \in [1..3 -> FlowPairs],
          marker \in {<<"scriptTask", FALSE, "none">>, <<"subProcess", TRUE, "a">>,
                      <<"subProcess", TRUE, "q">>} :
         g = Graph(ka, kb, marker[1], flows, marker[2], marker[3])
    /\ answer = "unasked"

Resolve ==
    /\ answer = "unasked"
    /\ answer' = ResolveReturnTarget(g, "q")
    /\ UNCHANGED g

Spec == Init /\ [][Resolve]_vars

-----------------------------------------------------------------------------
\* The elements k flows upstream of q along elements the walk may pass.
PassedThrough(e) ==
    \/ e = "q"
    \/ g.kind[e] \in {"scriptTask", "subProcess"}
    \/ /\ g.kind[e] = "parallelGateway"
       /\ Cardinality({f \in DOMAIN g.target : g.target[f] = e}) < 2

Upstream == LET up[k \in 0..3] ==
                  IF k = 0 THEN {"q"}
                  ELSE {g.source[f] : f \in {f \in DOMAIN g.source :
                                               /\ g.target[f] \in up[k-1]
                                               /\ PassedThrough(g.target[f])}} \ {"q"}
            IN  up

TasksAt(k) == {e \in Upstream[k] : g.kind[e] = "userTask"}
Nearest == UNION {TasksAt(k) : k \in {k \in 0..3 : k > 0 /\ \A l \in 1..(k-1) : TasksAt(l) = {}}}

\* A rejected task returns to a userTask at the smallest distance upstream that
\* is not beyond a join or a start event; without one it returns to the entry of
\* its scope, or nowhere (return.go: upstreamUserTask, ResolveReturnTarget).
ReturnsToNearest ==
    answer # "unasked" =>
        IF Nearest # {} THEN answer \in Nearest
        ELSE answer = IF g.scope["q"] # "none" /\ g.entry["m"] # "q"
                      THEN g.entry["m"] ELSE "none"
=============================================================================
