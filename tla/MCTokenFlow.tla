---------------------------- MODULE MCTokenFlow ------------------------------
(***************************************************************************)
(* Process definitions on which TLC checks TokenFlow.  The flows are pairs *)
(* source-target in definition order.                                      *)
(***************************************************************************)
EXTENDS TokenFlow, TLC

R == INSTANCE ReturnPath

Pairs(m, default, keys) == [k \in keys |-> IF k \in DOMAIN m THEN m[k] ELSE default]
None == [x \in {} |-> ""]

\* A definition from its kinds and flows; opts overrides the defaults.
Process(kind, flows, opts) ==
    LET el  == DOMAIN kind
        opt(name, default) == IF name \in DOMAIN opts THEN opts[name] ELSE default
        g   == [kind   |-> kind,
                source |-> [f \in DOMAIN flows |-> flows[f][1]],
                target |-> [f \in DOMAIN flows |-> flows[f][2]],
                scope    |-> Pairs(opt("scope", None), NoScope, el),
                entry    |-> Pairs(opt("entry", None), NoElement, el),
                returnTo |-> Pairs(opt("returnTo", None), NoElement, el)]
    IN  g @@ [startEvents  |-> opt("startEvents", <<"start">>),
              conditional  |-> opt("conditional", {}),
              default      |-> opt("default", {}),
              attachedTo   |-> Pairs(opt("attachedTo", None), NoElement, el),
              autoComplete |-> opt("autoComplete", {}),
              terminatesOnReject |-> opt("terminatesOnReject", {}),
              interrupting |-> opt("interrupting", {}),
              returnTarget |-> [e \in el |-> R!ResolveReturnTarget(g, e)]]

\* submit, then two reviews in parallel inside a scope, a join and a script
\* (reject_test.go: TestRejectReturnParallelBranch).
ForkJoin == Process(
    [start |-> "startEvent", sub1 |-> "subProcess", submit |-> "userTask",
     fork |-> "parallelGateway", reviewA |-> "userTask", reviewB |-> "userTask",
     join |-> "parallelGateway", notify |-> "scriptTask", end |-> "endEvent"],
    << <<"start", "submit">>, <<"submit", "fork">>, <<"fork", "reviewA">>,
       <<"fork", "reviewB">>, <<"reviewA", "join">>, <<"reviewB", "join">>,
       <<"join", "notify">>, <<"notify", "end">> >>,
    [scope |-> [e \in {"sub1", "submit", "fork", "reviewA", "reviewB", "join",
                       "notify"} |-> "sub1"],
     entry |-> [sub1 |-> "submit"],
     returnTo |-> [reviewA |-> "submit"]])

\* Two parallel reviews that end separately.
TwoEnds == Process(
    [start |-> "startEvent", fork |-> "parallelGateway", a |-> "userTask",
     b |-> "userTask", endA |-> "endEvent", endB |-> "endEvent"],
    << <<"start", "fork">>, <<"fork", "a">>, <<"fork", "b">>,
       <<"a", "endA">>, <<"b", "endB">> >>,
    [startEvents |-> <<"start">>])

\* A parallel branch that needs nobody beside one that waits.
AutoBranch == Process(
    [start |-> "startEvent", fork |-> "parallelGateway", s |-> "sendTask",
     b |-> "userTask", endA |-> "endEvent", endB |-> "endEvent"],
    << <<"start", "fork">>, <<"fork", "s">>, <<"fork", "b">>,
       <<"s", "endA">>, <<"b", "endB">> >>,
    [startEvents |-> <<"start">>])

\* Two userTasks in a row on a parallel branch.
LongBranch == Process(
    [start |-> "startEvent", fork |-> "parallelGateway", a1 |-> "userTask",
     a2 |-> "userTask", b |-> "userTask", join |-> "parallelGateway",
     end |-> "endEvent"],
    << <<"start", "fork">>, <<"fork", "a1">>, <<"fork", "b">>, <<"a1", "a2">>,
       <<"a2", "join">>, <<"b", "join">>, <<"join", "end">> >>,
    [startEvents |-> <<"start">>])

\* Conditions, adapters and boundary events around a userTask whose rejection
\* returns to the form before the choice.
Routing == Process(
    [start |-> "startEvent", msg |-> "startEvent", form |-> "userTask",
     choice |-> "exclusiveGateway", task |-> "userTask", late |-> "boundaryEvent",
     warn |-> "boundaryEvent", some |-> "inclusiveGateway", wait |-> "receiveTask",
     race |-> "eventBasedGateway", pick |-> "complexGateway",
     meet |-> "inclusiveGateway", end |-> "endEvent"],
    << <<"start", "form">>, <<"msg", "wait">>, <<"choice", "task">>,
       <<"choice", "some">>, <<"task", "end">>, <<"late", "race">>,
       <<"some", "wait">>, <<"some", "pick">>, <<"wait", "meet">>,
       <<"pick", "meet">>, <<"race", "end">>, <<"race", "pick">>,
       <<"meet", "end">>, <<"pick", "end">>, <<"form", "choice">> >>,
    [startEvents |-> <<"start", "msg">>,
     conditional |-> {3, 7, 8, 10, 12, 14}, default |-> {4},
     attachedTo |-> [late |-> "task", warn |-> "task"],
     interrupting |-> {"late"}])

\* Three parallel checks in a scope, joined before the signature: legal with a
\* reminder on the side, an audit that waits for a message, an automatic one.
Contract == Process(
    [start |-> "startEvent", sub |-> "subProcess", fork |-> "parallelGateway",
     legal |-> "userTask", remind |-> "boundaryEvent", mail |-> "sendTask",
     mailed |-> "endEvent", docs |-> "receiveTask", audit |-> "userTask",
     check |-> "scriptTask", join |-> "parallelGateway", sign |-> "userTask",
     late |-> "boundaryEvent", escalate |-> "userTask", end |-> "endEvent",
     given |-> "endEvent"],
    << <<"start", "sub">>, <<"fork", "legal">>, <<"fork", "docs">>, <<"fork", "check">>,
       <<"docs", "audit">>, <<"legal", "join">>, <<"audit", "join">>, <<"check", "join">>,
       <<"join", "sign">>, <<"sign", "end">>, <<"remind", "mail">>, <<"mail", "mailed">>,
       <<"late", "escalate">>, <<"escalate", "given">> >>,
    [scope |-> [e \in {"sub", "fork", "legal", "docs", "audit", "check", "join"} |-> "sub"],
     entry |-> [sub |-> "fork"],
     attachedTo |-> [remind |-> "legal", late |-> "sign"],
     interrupting |-> {"late"},
     terminatesOnReject |-> {"legal", "sign"}])

\* A script right after the start event.
ScriptStart == Process(
    [start |-> "startEvent", init |-> "scriptTask", task |-> "userTask",
     end |-> "endEvent"],
    << <<"start", "init">>, <<"init", "task">>, <<"task", "end">> >>,
    [startEvents |-> <<"start">>])

\* An activity between the fork and the join of LongBranch carries the identity
\* of its parallel branch, flow 2 or 3 (docs/ddd/runtime.md: "Parallel branch
\* identity for scoped reject").
BranchIdentityKept ==
    \A i \in DOMAIN acts :
        /\ acts[i].el \in {"a1", "a2"} => acts[i].branch = 2
        /\ acts[i].el = "b" => acts[i].branch = 3
=============================================================================
