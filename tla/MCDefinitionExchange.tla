------------------------- MODULE MCDefinitionExchange -------------------------
(***************************************************************************)
(* Definitions of four elements, one of which (el) takes every kind and    *)
(* every combination of at most two fields; documents clients write hold   *)
(* each extension element once and may use CDATA.                          *)
(***************************************************************************)
EXTENDS DefinitionExchange, FiniteSets

Plain(id, kind) == [id |-> id, kind |-> kind, fields |-> {}, lang |-> "", auto |-> FALSE,
                    script |-> FALSE, props |-> {}, event |-> NoEvent]

FewFields == {{f, g} : f, g \in Fields} \cup {{}}

Tasks == {"userTask", "scriptTask", "serviceTask", "sendTask", "receiveTask", "businessRuleTask",
          "complexGateway", "subProcess", "callActivity", "manualTask"}
Events == {"startEvent", "boundaryEvent", "intermediateCatchEvent", "intermediateThrowEvent"}

TaskElements ==
    [id : {"el"}, kind : Tasks, fields : FewFields, lang : {"", "python"}, auto : BOOLEAN,
     script : BOOLEAN, props : {{}, {"number"}}, event : {NoEvent}]
CatchElements ==
    [id : {"el"}, kind : Events \cup {"endEvent"}, fields : {{}, {"attachedToRef"}, {"attachedToRef", "cancelActivity"}, {"formKey"}},
     lang : {""}, auto : {FALSE}, script : {FALSE}, props : {{}, {"condition"}, {"text"}},
     event : EventDefs \cup {NoEvent}]

Flow == [condition |-> "", default |-> FALSE, ends |-> {"s", "h", "e"}]
With(el) == [id |-> "self", lanes |-> {"h"}, data |-> TRUE, flow |-> Flow,
             elements |-> <<Plain("s", "startEvent"), Plain("h", "userTask"), el, Plain("e", "endEvent")>>,
             collaboration |-> NoCollaboration]

Collaborations ==
    [pools : SUBSET {"", "self", "other"}, messageFlows : {{}, {"h"}, {"el"}}] \cup {NoCollaboration}
Diagrams ==
    {[With(Plain("el", k)) EXCEPT
        !.flow = [condition |-> c, default |-> b, ends |-> {"s", "el"}],
        !.lanes = l, !.collaboration = collaboration] :
      k \in {"exclusiveGateway", "manualTask"}, c \in Conditions, b \in BOOLEAN,
      l \in {{}, {"el"}}, collaboration \in Collaborations}

MCTexts == {"", "python", "javascript", "number", "numeral", "text", "condition", "self", "other",
            "s", "h", "el", "e", "endEvent", "exclusiveGateway"} \cup Tasks \cup Events

MCJSONDefinitions == {{With(el) : el \in TaskElements}, {With(el) : el \in CatchElements}, Diagrams}

\* A client's document: every extension element once, bodies in CDATA if asked.
ClientXML(def, cdata) ==
    LET doc == Marshal(def)
        single(fe) == IF fe.ext = NoExtension THEN fe
                      ELSE [fe EXCEPT !.ext.values = [f \in DOMAIN @ |-> <<@[f][1]>>]]
        wrap(fe) == IF fe.event = NoEvent THEN fe ELSE [fe EXCEPT !.event.body.cdata = cdata]
    IN  [doc EXCEPT !.elements = [n \in DOMAIN @ |-> wrap(single(@[n]))],
                    !.flow.body.cdata = cdata, !.collaboration = def.collaboration]

MCUploads ==
    {{ClientXML(With(el), TRUE) : el \in CatchElements},
     {ClientXML(With(el), FALSE) : el \in {e \in TaskElements : e.lang = ""}},
     {ClientXML([d EXCEPT !.id = id], cdata) : d \in Diagrams, id \in {"", "self"}, cdata \in BOOLEAN}}
=============================================================================
