------------------------------- MODULE XmlCodec -------------------------------
(***************************************************************************)
(* internal/bpmnxml/codec.go: a process definition as BPMN XML and back,   *)
(* and definition.Validate, which a definition must pass to be deployed.   *)
(*                                                                         *)
(* A text is abstracted to whether it is empty: an element carries the set *)
(* of its non-empty fields.  A condition is "", "plain", or "less" when it *)
(* holds a "<".  A document is what encoding/xml (external) writes: under  *)
(* an element of extensionElements the values in document order, of which  *)
(* decoding keeps the last.                                                *)
(***************************************************************************)
EXTENDS Lists

CONSTANTS NoEvent,     \* an element without eventDefinition
          NoExtension, \* a flow element without extensionElements
          NoCollaboration,
          Unreadable   \* what Parse gives when it returns an error

-----------------------------------------------------------------------------
(* The fields of definition.Element, by how the codec writes them *)

\* Attributes and child elements of the flow element itself.
Attributes == {"attachedToRef", "cancelActivity", "calledElement", "multiInstance"}

\* One element of extensionElements each.
Once == {"assigneesVariable", "approvalMode", "returnTo", "onReject", "scopeId", "entryRef",
         "exitRef", "formKey", "formUrl", "extensionHandler"}

\* A second element in the extension namespace follows; Marshal leaves it empty,
\* and Parse decodes both into the first field, whose tag names no namespace.
Twice == {"taskType", "assignees", "implementation", "serviceUrl", "serviceMethod", "messageRef",
          "decisionRef"}

\* Not in the XML types at all.
Unwritten == {"description", "requiredApprovals", "laneRef", "dataInputRefs", "dataOutputRefs",
              "eventSubProcess"}

Fields == Attributes \cup Once \cup Twice \cup Unwritten
Conditions == {"", "plain", "less"}
EventTypes == {"none", "message", "signal", "timer", "conditional", "error"}

isSupportedKind(k) ==
    k \in {"startEvent", "endEvent", "userTask", "scriptTask", "serviceTask", "sendTask",
           "receiveTask", "businessRuleTask", "exclusiveGateway", "parallelGateway",
           "inclusiveGateway", "subProcess", "boundaryEvent", "intermediateCatchEvent",
           "intermediateThrowEvent", "eventBasedGateway", "complexGateway", "callActivity"}

needsEventDefXML(k) == k \in {"startEvent", "boundaryEvent", "intermediateCatchEvent",
                              "intermediateThrowEvent"}

-----------------------------------------------------------------------------
(* Marshal *)

Value(b) == IF b THEN "value" ELSE ""

\* Of the fields it writes, only serviceMethod does not count as content.
HasContent(el) == \/ el.fields \cap ((Once \cup Twice) \ {"serviceMethod"}) # {}
                  \/ el.auto \/ el.lang # "" \/ el.props # {}

\* Mutant: serviceMethod has no second element.
NoSecondMethod == [f \in Once \cup Twice \cup {"correlationKey"} |->
                     IF f \in Once \cup {"serviceMethod"} THEN <<"">> ELSE <<"", "">>]

NoValues == [f \in Once \cup Twice \cup {"correlationKey"} |->
               IF f \in Once THEN <<"">> ELSE <<"", "">>]

\* Property values are written with fmt.Sprint: a number becomes its numeral.
Sprint(p) == IF p = "number" THEN "numeral" ELSE p

\* Mutant: an element that only has a form is taken for one without extensions.
extensionsUnlessForm(el) ==
    IF ~HasContent([el EXCEPT !.fields = @ \ {"formKey", "formUrl"}]) THEN NoExtension
    ELSE [values |-> [f \in DOMAIN NoValues |-> [NoValues[f] EXCEPT ![1] = Value(f \in el.fields)]],
          lang |-> el.lang, auto |-> el.auto, props |-> {Sprint(p) : p \in el.props}]

extensionsFromElement(el) ==
    IF ~HasContent(el) THEN NoExtension
    ELSE [values |-> [f \in DOMAIN NoValues |-> [NoValues[f] EXCEPT ![1] = Value(f \in el.fields)]],
          lang |-> el.lang, auto |-> el.auto, props |-> {Sprint(p) : p \in el.props}]

\* The correlation key goes to extensionElements, which it may have to create.
WithCorrelation(ext) ==
    LET created == [values |-> NoValues, lang |-> "", auto |-> FALSE, props |-> {}]
        base == IF ext = NoExtension THEN created ELSE ext
    IN  [base EXCEPT !.values["correlationKey"][1] = "value"]

\* Mutant: the case of a conditional event is missing.
attachNoConditional(ed) ==
    IF ed.type \in {"none", "conditional"} THEN NoEvent
    ELSE [type |-> ed.type, ref |-> ed.ref, body |-> [text |-> "", cdata |-> FALSE]]

\* Nothing is written for type none, and a condition for a conditional event only.
attachEventDef(ed) ==
    IF ed.type = "none" THEN NoEvent
    ELSE [type |-> ed.type, ref |-> ed.ref,
          body |-> [text |-> IF ed.type = "conditional" THEN ed.condition ELSE "", cdata |-> FALSE]]

elementToXML(el) ==
    LET written == el.event # NoEvent /\ needsEventDefXML(el.kind)
        ext == extensionsFromElement(el)
    IN  [id |-> el.id, local |-> el.kind, attributes |-> el.fields \cap Attributes,
         script |-> el.script, format |-> IF el.script THEN el.lang ELSE "",
         ext |-> IF written /\ el.event.correlation THEN WithCorrelation(ext) ELSE ext,
         event |-> IF written THEN attachEventDef(el.event) ELSE NoEvent]

\* A pool without processRef gets the id of the process.
buildXMLCollaboration(c, id) ==
    IF c = NoCollaboration THEN c
    ELSE [c EXCEPT !.pools = {IF ref = "" THEN id ELSE ref : ref \in @}]

\* Conditions are written as they are (innerxml), never escaped.
buildXMLProcess(def) ==
    [id |-> def.id, lanes |-> def.lanes, data |-> def.data,
     elements |-> [n \in DOMAIN def.elements |-> elementToXML(def.elements[n])],
     flow |-> [body |-> [text |-> def.flow.condition, cdata |-> FALSE],
               default |-> def.flow.default, ends |-> def.flow.ends],
     collaboration |-> NoCollaboration]

Marshal(def) ==
    [buildXMLProcess(def) EXCEPT
       !.collaboration = buildXMLCollaboration(def.collaboration, def.id)]

-----------------------------------------------------------------------------
(* Parse *)

LastOf(s) == s[Len(s)]

\* TrimSpace and stripCDATA.
conditionBody(body) == body.text

\* A "<" outside CDATA opens a tag that is not closed.
BadBody(body) == body.text = "less" /\ ~body.cdata

\* encoding/xml returns a syntax error, also with Strict = false.
DecodeFails(doc) ==
    \/ BadBody(doc.flow.body)
    \/ \E n \in DOMAIN doc.elements :
         doc.elements[n].event # NoEvent /\ BadBody(doc.elements[n].event.body)

\* An event without one of the five definitions has type none; a condition that
\* is not there is taken from the property of that name.
mapEventDef(fe) ==
    LET ext == fe.ext # NoExtension
        ed  == fe.event # NoEvent
        own == IF ed THEN conditionBody(fe.event.body) ELSE ""
    IN  [type |-> IF ed THEN fe.event.type ELSE "none",
         ref  |-> ed /\ fe.event.ref,
         condition |-> IF own = "" /\ ext /\ "condition" \in fe.ext.props THEN "plain" ELSE own,
         correlation |-> ext /\ LastOf(fe.ext.values["correlationKey"]) # ""]

\* applyExtensions: the fields whose decoded value is not empty.
DecodedFields(fe) ==
    fe.attributes \cup
    IF fe.ext = NoExtension THEN {}
    ELSE {f \in Once \cup Twice : LastOf(fe.ext.values[f]) # ""}

\* The format of the script, JavaScript if it has none; scriptLang comes first.
ScriptLang(fe) ==
    LET own == IF fe.script /\ fe.format = "" THEN "javascript" ELSE fe.format
    IN  IF fe.ext # NoExtension /\ fe.ext.lang # "" THEN fe.ext.lang ELSE own

mapElement(fe) ==
    [id |-> fe.id, kind |-> fe.local, fields |-> DecodedFields(fe),
     lang |-> ScriptLang(fe), script |-> fe.script,
     auto  |-> fe.ext # NoExtension /\ fe.ext.auto,
     props |-> IF fe.ext = NoExtension THEN {} ELSE fe.ext.props,
     event |-> IF needsEventDefXML(fe.local) THEN mapEventDef(fe) ELSE NoEvent]

\* xmlLocalToKind: an element of another kind is skipped.
xmlLocalToKind(fe) == isSupportedKind(fe.local)

mapProcess(doc) ==
    LET skipped == {fe \in Members(doc.elements) : ~xmlLocalToKind(fe)}
        known == Outside(doc.elements, skipped)
    IN  [id |-> doc.id, lanes |-> doc.lanes, data |-> doc.data,
         elements |-> [n \in DOMAIN known |-> mapElement(known[n])],
         flow |-> [condition |-> conditionBody(doc.flow.body), default |-> doc.flow.default,
                  ends |-> doc.flow.ends],
         collaboration |-> NoCollaboration]

\* A collaboration with neither a message flow nor a pool of this process is dropped.
mapCollaborationForProcess(c, id) ==
    IF c # NoCollaboration /\ (c.messageFlows # {} \/ c.pools \cap {"", id} # {})
    THEN c ELSE NoCollaboration

Parse(doc) ==
    IF DecodeFails(doc) \/ doc.id = "" THEN Unreadable
    ELSE [mapProcess(doc) EXCEPT
            !.collaboration = mapCollaborationForProcess(doc.collaboration, doc.id)]

-----------------------------------------------------------------------------
(* Validate *)

\* What each kind of automated task needs.  The quota of a userTask is left out:
\* it is compared with assignees, and the codec drops both.
ValidateTaskElement(el) ==
    LET has(S) == el.fields \cap S # {} IN
    CASE el.kind = "scriptTask"  -> el.script
      [] el.kind = "serviceTask" -> has({"serviceUrl", "implementation", "taskType"})
      [] el.kind = "sendTask"    -> has({"messageRef", "taskType"})
      [] el.kind = "receiveTask" -> has({"messageRef"}) \/ el.auto
      [] el.kind = "businessRuleTask" -> has({"decisionRef", "taskType"}) \/ el.script
      [] OTHER -> TRUE

\* The reference, or the condition, that each type of event requires.
validateEventDefinitionBody(el) ==
    CASE el.event.type = "none" -> el.kind \notin {"boundaryEvent", "intermediateCatchEvent"}
      [] el.event.type = "conditional" -> el.event.condition # ""
      [] OTHER -> el.event.ref

ValidateEventDefinition(el) ==
    IF el.event = NoEvent THEN el.kind \notin {"boundaryEvent", "intermediateCatchEvent"}
    ELSE validateEventDefinitionBody(el)

\* The host of a boundary event must precede it in the document.
validateExtensionElement(el, before) ==
    /\ el.kind = "boundaryEvent" =>
         /\ "attachedToRef" \in el.fields
         /\ \E h \in before : h.kind \notin {"boundaryEvent", "startEvent", "endEvent"}
    /\ el.kind = "callActivity" => "calledElement" \in el.fields
    /\ needsEventDefXML(el.kind) => ValidateEventDefinition(el)

\* BuildRegistry runs Validate.  Sequence flows, lanes and message flows refer to
\* elements of the definition; a message flow to a pool is always in order.
Validate(def) ==
    /\ def.id # ""
    /\ \E n \in DOMAIN def.elements : def.elements[n].kind = "startEvent"
    /\ \A n \in DOMAIN def.elements :
         LET el == def.elements[n] IN
         /\ isSupportedKind(el.kind)
         /\ ValidateTaskElement(el)
         /\ validateExtensionElement(el, {def.elements[m] : m \in 1..(n - 1)})
    /\ LET ids == {def.elements[n].id : n \in DOMAIN def.elements}
           collaboration == IF def.collaboration = NoCollaboration THEN {}
                            ELSE def.collaboration.messageFlows
       IN  def.lanes \cup def.flow.ends \cup collaboration \subseteq ids
=============================================================================
