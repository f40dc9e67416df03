-------------------------- MODULE DefinitionExchange --------------------------
(***************************************************************************)
(* A process definition on its way between client and server              *)
(* (internal/api/processes.go): deployed as JSON or as BPMN XML, read back *)
(* as XML, and that XML deployed again, as often as a client likes.  The   *)
(* file store does the same with the definition at every restart.          *)
(***************************************************************************)
EXTENDS XmlCodec

CONSTANTS
    JSONDefinitions, \* sets of definitions clients post as JSON
    Uploads,         \* sets of BPMN documents clients post
    Texts,           \* ids, kinds, languages and property values
    NoText,          \* what is in the place of a document
    MaxTrips         \* bound on the documents read back and deployed again

EventDefs ==
    {ed \in [type : EventTypes, ref : BOOLEAN, condition : Conditions, correlation : BOOLEAN] :
       ed.ref => ed.type \notin {"none", "conditional"}}
Elements == [id : Texts, kind : Texts, fields : SUBSET Fields, lang : Texts, auto : BOOLEAN,
             script : BOOLEAN, props : SUBSET Texts, event : EventDefs \cup {NoEvent}]
Pools == [pools : SUBSET Texts, messageFlows : SUBSET Texts]
ProcessDefinitions ==
    [id : Texts, lanes : SUBSET Texts, data : BOOLEAN, elements : Seq(Elements),
     flow : [condition : Conditions, default : BOOLEAN, ends : SUBSET Texts],
     collaboration : Pools \cup {NoCollaboration}]

\* Extension elements and event definitions of a document Marshal writes.
Extensions ==
    [values : [DOMAIN NoValues -> Seq({"", "value"})], lang : Texts, auto : BOOLEAN,
     props : SUBSET Texts]
EventElements ==
    [type : EventTypes, ref : BOOLEAN, body : [text : Conditions, cdata : BOOLEAN]]

\* What is left out is told from what is there; clients post definitions, and
\* documents that Parse makes definitions of.
ASSUME ExchangeAssumption ==
    /\ MaxTrips \in Nat
    /\ {"", "javascript", "numeral"} \subseteq Texts
    /\ NoEvent \notin EventDefs \cup EventElements
    /\ NoExtension \notin Extensions
    /\ NoCollaboration \notin Pools
    /\ Unreadable \notin ProcessDefinitions
    /\ \A D \in JSONDefinitions : D \subseteq ProcessDefinitions
    /\ \A U \in Uploads : \A doc \in U : Parse(doc) \in ProcessDefinitions \cup {Unreadable}

VARIABLES
    deployed, \* the definition of the latest version
    original, \* history: the definition first deployed
    earlier,  \* history: the definition deployed before the latest
    text,     \* the document the client has read, or NoText
    trips,    \* how often a document was read and deployed
    rejected  \* the last deployment was refused

vars == <<deployed, original, earlier, text, trips, rejected>>

Acceptable(d) == d # Unreadable /\ Validate(d)

\* decodeProcessDefinition and BuildRegistry: the first deployment.
Init ==
    /\ \/ \E D \in JSONDefinitions : deployed \in D
       \/ \E U \in Uploads : \E doc \in U : deployed = Parse(doc)
    /\ Acceptable(deployed)
    /\ original = deployed /\ earlier = deployed
    /\ text = NoText /\ trips = 0 /\ rejected = FALSE

\* GET with Accept: application/xml.
writeProcessXML ==
    /\ text = NoText /\ ~rejected
    /\ text' = Marshal(deployed)
    /\ UNCHANGED <<deployed, original, earlier, trips, rejected>>

\* POST of the document that was read.
Deploy ==
    /\ text # NoText /\ trips < MaxTrips
    /\ trips' = trips + 1
    /\ text' = NoText
    /\ IF Acceptable(Parse(text))
       THEN earlier' = deployed /\ deployed' = Parse(text) /\ UNCHANGED rejected
       ELSE rejected' = TRUE /\ UNCHANGED <<earlier, deployed>>
    /\ UNCHANGED original

Next == writeProcessXML \/ Deploy

Spec == Init /\ [][Next]_vars

-----------------------------------------------------------------------------
(* Properties *)

\* What docs/ddd/extensions.md says the codec round-trips, and the engine routes
\* by: the elements and their kinds, in order, with all attributes, gateways and
\* forms, the type and reference of every event, flows, lanes and data.
Skeleton(d) ==
    [elements |-> [n \in DOMAIN d.elements |->
         LET el == d.elements[n] IN
         [id |-> el.id, kind |-> el.kind, fields |-> el.fields \cap (Attributes \cup Once),
          auto |-> el.auto, script |-> el.script,
          event |-> IF el.event = NoEvent \/ ~needsEventDefXML(el.kind) THEN <<"none", FALSE>>
                    ELSE <<el.event.type, el.event.ref>>]],
     flow |-> d.flow, lanes |-> d.lanes, data |-> d.data]

\* However often a definition goes out as XML and comes back, the parts the
\* engine routes tokens by are those first deployed (Marshal, Parse).
SkeletonSurvives == Skeleton(deployed) = Skeleton(original)

\* The losses of the codec happen on the first trip: the second and every later
\* one changes nothing, so restarts do not wear a definition down.
SettlesAfterOneTrip == trips >= 2 /\ ~rejected => deployed = earlier

HasLess(d) ==
    \/ d.flow.condition = "less"
    \/ \E n \in DOMAIN d.elements :
         /\ d.elements[n].event # NoEvent /\ needsEventDefXML(d.elements[n].kind)
         /\ d.elements[n].event.type = "conditional" /\ d.elements[n].event.condition = "less"

\* Automated tasks that say what to do only in fields the codec wipes.
Wiped(d) ==
    \E n \in DOMAIN d.elements :
        ~ValidateTaskElement([d.elements[n] EXCEPT !.fields = @ \ Twice])

\* A definition the server accepted it accepts again from its own XML, except a
\* condition with "<", which cannot be parsed, and an automated task whose only
\* instruction is a field written twice: exactly these are refused.
RefusedOnlyIfWiped == trips > 0 => (rejected <=> HasLess(original) \/ Wiped(original))
=============================================================================
