-------------------------- MODULE ProcessDefinition --------------------------
(***************************************************************************)
(* A deployed process definition and the registry the engine indexes it    *)
(* with (internal/domain/definition: model.go, registry.go, return.go).    *)
(* The definition is one CONSTANT record, pinned on an instance as         *)
(* DefinitionSnapshot.  A sequence flow is named by its position in        *)
(* def.Flows, so the order in which the engine visits flows is <.          *)
(***************************************************************************)
EXTENDS Integers, Sequences, FiniteSets

CONSTANT Def

NoFlow    == 0
NoElement == "none"
NoScope   == "none"

\* Automated tasks are run by the engine; of these a sendTask cannot fail.
FallibleTasks == {"scriptTask", "serviceTask", "businessRuleTask"}

\* Elements an integration adapter completes (IsExtensionKind).
ExtensionKinds == {"boundaryEvent", "intermediateCatchEvent",
                   "intermediateThrowEvent", "eventBasedGateway",
                   "complexGateway", "callActivity"}

Gateways == {"exclusiveGateway", "parallelGateway", "inclusiveGateway"}

Kinds == FallibleTasks \cup ExtensionKinds \cup Gateways \cup
         {"startEvent", "endEvent", "userTask", "sendTask", "receiveTask",
          "subProcess"}

Elements == DOMAIN Def.kind
Flows    == DOMAIN Def.source

Kind(e)   == Def.kind[e]
Source(f) == Def.source[f]
Target(f) == Def.target[f]

\* Flows with a non-empty condition expression, and flows marked isDefault.
Conditional == Def.conditional
IsDefault   == Def.default

ScopeID(e)       == Def.scope[e]
EntryRef(e)      == Def.entry[e]
ReturnTarget(e)  == Def.returnTarget[e]
AttachedToRef(e) == Def.attachedTo[e]

\* userTasks with autoComplete, receiveTasks with autoComplete or no message.
AutoComplete == Def.autoComplete
\* userTasks whose onReject parses to terminateScope.
TerminatesOnReject == Def.terminatesOnReject
\* Boundary events whose cancelActivity is not false.
Interrupting == Def.interrupting

OutgoingFlows(e) == {f \in Flows : Source(f) = e}
IncomingFlows(e) == {f \in Flows : Target(f) = e}
StartEvents      == Def.startEvents
BoundaryEvents   == {e \in Elements : Kind(e) = "boundaryEvent"}
Scopes           == {ScopeID(e) : e \in Elements} \ {NoScope}
ScopeIDs         == Scopes \cup {NoScope}

IsJoinGateway(e) ==
    /\ Kind(e) \in {"parallelGateway", "inclusiveGateway"}
    /\ Cardinality(IncomingFlows(e)) > 1

\* Elements of a scope, the subProcess marker included.
ScopeElementIDs(s) == {e \in Elements : e = s \/ ScopeID(e) = s}
ScopeGatewayIDs(s) == {e \in ScopeElementIDs(s) : Kind(e) \in Gateways}

\* Which elements stop the traversal until a request completes them.
Waits(e) == \/ Kind(e) \in {"userTask", "receiveTask"} /\ e \notin AutoComplete
            \/ Kind(e) \in ExtensionKinds

\* What Validate and BuildRegistry guarantee of every deployed definition, and
\* that an entryRef names an element (activating an unknown one is an error).
ASSUME DefinitionAssumption ==
    /\ NoElement \notin Elements
    /\ IsFiniteSet(Elements)
    /\ IsFiniteSet(Flows)
    /\ Flows \subseteq Nat \ {NoFlow}
    /\ StartEvents \in Seq(Elements) /\ StartEvents # <<>>
    /\ \A f \in Flows : Source(f) \in Elements /\ Target(f) \in Elements
    /\ \A e \in Elements :
         /\ Kind(e) \in Kinds
         /\ EntryRef(e) \in Elements \cup {NoElement}
         /\ ReturnTarget(e) \in Elements \cup {NoElement}
         /\ AttachedToRef(e) \in Elements \cup {NoElement}
=============================================================================
