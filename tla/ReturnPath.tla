----------------------------- MODULE ReturnPath ------------------------------
(***************************************************************************)
(* Which element a rejected userTask re-activates: ResolveReturnTarget and *)
(* upstreamUserTask (internal/domain/definition/return.go).  A definition  *)
(* g is a record of kind, source, target, scope, entry and returnTo, with  *)
(* flows named by their positions in def.Flows as in ProcessDefinition.    *)
(***************************************************************************)
EXTENDS Integers, SequencesExt

IncomingOf(g, e) ==
    SetToSortSeq({f \in DOMAIN g.source : g.target[f] = e}, LAMBDA x, y : x < y)

\* The walk goes no further upstream than joins, start and end events.
StopsWalk(g, e) ==
    \/ /\ g.kind[e] \in {"parallelGateway", "inclusiveGateway"}
       /\ Len(IncomingOf(g, e)) > 1
    \/ g.kind[e] \in {"startEvent", "endEvent"}

\* Mutant: depth first, the nearest task is not always the first one met.
RECURSIVE WalkDepthFirst(_, _, _)
WalkDepthFirst(g, queue, seen) ==
    IF queue = <<>> THEN "none"
    ELSE LET src == g.source[Head(queue)] IN
         IF src \in seen THEN WalkDepthFirst(g, Tail(queue), seen)
         ELSE IF g.kind[src] = "userTask" THEN src
         ELSE WalkDepthFirst(g,
                IF StopsWalk(g, src) THEN Tail(queue)
                ELSE IncomingOf(g, src) \o Tail(queue),
                seen \cup {src})

\* Breadth first over the incoming flows; the first userTask met wins.
RECURSIVE WalkUpstream(_, _, _)
WalkUpstream(g, queue, seen) ==
    IF queue = <<>> THEN "none"
    ELSE LET src == g.source[Head(queue)] IN
         IF src \in seen THEN WalkUpstream(g, Tail(queue), seen)
         ELSE IF g.kind[src] = "userTask" THEN src
         ELSE WalkUpstream(g,
                IF StopsWalk(g, src) THEN Tail(queue)
                ELSE Tail(queue) \o IncomingOf(g, src),
                seen \cup {src})

upstreamUserTask(g, e) == WalkUpstream(g, IncomingOf(g, e), {e})

\* The entryRef of the subProcess marking e's scope, unless it is e itself
\* (a scope has one marker, so the loop over the elements finds one entry).
ScopeEntries(g, e) ==
    {g.entry[m] : m \in {m \in DOMAIN g.kind :
                           /\ g.kind[m] = "subProcess"
                           /\ g.scope[m] = g.scope[e] \/ m = g.scope[e]}}
       \ {"none", e}

ResolveReturnTarget(g, e) ==
    LET upstream == upstreamUserTask(g, e) IN
    IF g.returnTo[e] # "none" THEN g.returnTo[e]
    ELSE IF upstream # "none" THEN upstream
    ELSE IF g.scope[e] = "none" \/ ScopeEntries(g, e) = {} THEN "none"
    ELSE CHOOSE m \in ScopeEntries(g, e) : TRUE
=============================================================================
