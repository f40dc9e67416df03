---------------------- MODULE DefinitionExchangeProofs ----------------------
(***************************************************************************)
(* Proofs about DefinitionExchange: what Marshal and Parse do to any       *)
(* definition, and from that what any number of trips does.                *)
(***************************************************************************)
EXTENDS DefinitionExchange, ListProofs, SequenceTheorems

-----------------------------------------------------------------------------
(* Extension elements *)

\* The fields are kept apart, and the correlation key is not one of them.
LEMMA FieldGroups ==
    /\ Once \cap Twice = {} /\ Attributes \cap (Once \cup Twice) = {}
    /\ "correlationKey" \notin Once \cup Twice
    /\ "serviceMethod" \notin Once
    /\ Once \cup Attributes \subseteq Fields
BY DEF Once, Twice, Attributes, Fields

\* The first of the values is written.
Written(t, v) == [t EXCEPT ![1] = v]

\* Decoding keeps the last value: of one element its value, of two the second.
LEMMA LastValue ==
    ASSUME NEW S, NEW t \in Seq(S), Len(t) = 1 \/ Len(t) = 2, NEW v \in S
    PROVE  /\ Written(t, v) \in Seq(S)
           /\ Len(Written(t, v)) = Len(t) /\ (Len(t) = 2 => Written(t, v)[2] = t[2])
           /\ Len(t) = 1 => LastOf(Written(t, v)) = v
           /\ Len(t) = 2 => LastOf(Written(t, v)) = t[2]
<1>1. PICK s : s = Written(t, v)
  OBVIOUS
<1>2. 1 \in 1..Len(t)
  <2>1. \A n \in Nat : n = 1 \/ n = 2 => 1 \in 1..n
    OBVIOUS
  <2>2. Len(t) \in Nat
    OBVIOUS
  <2> QED
    BY <2>1, <2>2
<1>3. s \in Seq(S) /\ Len(s) = Len(t)
  BY <1>1, <1>2, ExceptSeq DEF Written
<1>4. s[1] = v /\ (Len(t) = 2 => s[2] = t[2])
  BY <1>1, <1>2 DEF Written
<1>5. (Len(t) = 1 => LastOf(s) = v) /\ (Len(t) = 2 => LastOf(s) = t[2])
  BY <1>3, <1>4 DEF LastOf
<1> QED
  BY <1>1, <1>3, <1>4, <1>5

\* The values an element without extensions has.
LEMMA NoValuesFacts ==
    /\ DOMAIN NoValues = Once \cup Twice \cup {"correlationKey"}
    /\ \A f \in Once : NoValues[f] = <<"">>
    /\ \A f \in Twice \cup {"correlationKey"} : NoValues[f] = <<"", "">>
    /\ NoValues \in [DOMAIN NoValues -> Seq({"", "value"})]
    /\ \A f \in DOMAIN NoValues : LastOf(NoValues[f]) = ""
<1>1. DOMAIN NoValues = Once \cup Twice \cup {"correlationKey"}
  BY DEF NoValues
<1>2. \A f \in Once : NoValues[f] = <<"">>
  BY DEF NoValues
<1>3. \A f \in Twice \cup {"correlationKey"} : NoValues[f] = <<"", "">>
  BY FieldGroups DEF NoValues
<1>4. <<"">> \in Seq({"", "value"}) /\ <<"", "">> \in Seq({"", "value"})
  OBVIOUS
<1>5. NoValues \in [DOMAIN NoValues -> Seq({"", "value"})]
  BY <1>4 DEF NoValues
<1>6. LastOf(<<"">>) = "" /\ LastOf(<<"", "">>) = ""
  BY DEF LastOf
<1>7. \A f \in DOMAIN NoValues : LastOf(NoValues[f]) = ""
  BY <1>1, <1>2, <1>3, <1>6
<1> QED
  BY <1>1, <1>2, <1>3, <1>5, <1>7

\* Whatever is written first under a field, decoding keeps it only if the field
\* has one element.
LEMMA DecodedValue ==
    ASSUME NEW f \in DOMAIN NoValues, NEW v \in {"", "value"}
    PROVE  /\ Written(NoValues[f], v) \in Seq({"", "value"})
           /\ LastOf(Written(NoValues[f], v)) = IF f \in Once THEN v ELSE ""
           /\ f \notin Once => Len(Written(NoValues[f], v)) = 2 /\ Written(NoValues[f], v)[2] = ""
<1>1. PICK t : t = NoValues[f]
  OBVIOUS
<1>2. Len(<<"">>) = 1 /\ Len(<<"", "">>) = 2 /\ <<"", "">>[2] = ""
  OBVIOUS
<1>3. /\ t \in Seq({"", "value"})
      /\ f \in Once => Len(t) = 1
      /\ f \notin Once => Len(t) = 2 /\ t[2] = ""
  BY <1>1, <1>2, NoValuesFacts
<1>4. /\ Written(t, v) \in Seq({"", "value"})
      /\ Len(Written(t, v)) = Len(t) /\ (Len(t) = 2 => Written(t, v)[2] = t[2])
      /\ Len(t) = 1 => LastOf(Written(t, v)) = v
      /\ Len(t) = 2 => LastOf(Written(t, v)) = t[2]
  BY <1>3, LastValue
<1>5. /\ LastOf(Written(t, v)) = IF f \in Once THEN v ELSE ""
      /\ f \notin Once => Len(Written(t, v)) = 2 /\ Written(t, v)[2] = ""
  <2> DEFINE w == Written(t, v)
  <2>1. w = Written(t, v)
    OBVIOUS
  <2> HIDE DEF w
  <2>2. CASE f \in Once
    BY <1>3, <1>4, <2>1, <2>2
  <2>3. CASE f \notin Once
    BY <1>3, <1>4, <2>1, <2>3, Zenon
  <2> QED
    BY <2>1, <2>2, <2>3
<1> QED
  BY <1>1, <1>4, <1>5, Zenon

\* What Parse finds in the extension elements of el.
Decodes(ext, el) ==
    /\ ext \in Extensions
    /\ ext.auto = el.auto /\ ext.lang = el.lang /\ ext.props = {Sprint(p) : p \in el.props}
    /\ \A f \in DOMAIN NoValues : LastOf(ext.values[f]) = IF f \in Once THEN Value(f \in el.fields) ELSE ""
    /\ Len(ext.values["correlationKey"]) = 2 /\ ext.values["correlationKey"][2] = ""

\* Property values are texts.
LEMMA SprintTexts ==
    ASSUME NEW P \in SUBSET Texts
    PROVE  /\ {Sprint(p) : p \in P} \in SUBSET Texts
           /\ "condition" \in {Sprint(p) : p \in P} <=> "condition" \in P
           /\ {Sprint(q) : q \in {Sprint(p) : p \in P}} = {Sprint(p) : p \in P}
BY ExchangeAssumption DEF ExchangeAssumption, Sprint

\* Of what extensionsFromElement writes, decoding finds this; without content there
\* is nothing to lose but the fields that are written twice.
LEMMA ExtensionsDecode ==
    ASSUME NEW el \in Elements
    PROVE  /\ HasContent(el) => Decodes(extensionsFromElement(el), el)
           /\ ~HasContent(el) =>
                /\ extensionsFromElement(el) = NoExtension /\ ~el.auto /\ el.lang = ""
                /\ el.props = {} /\ el.fields \cap Once = {}
<1>1. CASE HasContent(el)
  <2> DEFINE vs == [f \in DOMAIN NoValues |-> Written(NoValues[f], Value(f \in el.fields))]
             ps == {Sprint(p) : p \in el.props}
             ext == [values |-> vs, lang |-> el.lang, auto |-> el.auto, props |-> ps]
  <2>1. extensionsFromElement(el) = ext
    BY <1>1, Zenon DEF extensionsFromElement, Written
  <2>2. /\ vs \in [DOMAIN NoValues -> Seq({"", "value"})]
        /\ \A f \in DOMAIN NoValues : LastOf(vs[f]) = IF f \in Once THEN Value(f \in el.fields) ELSE ""
        /\ Len(vs["correlationKey"]) = 2 /\ vs["correlationKey"][2] = ""
    <3>1. \A f \in DOMAIN NoValues : Value(f \in el.fields) \in {"", "value"}
      BY DEF Value
    <3> SUFFICES ASSUME NEW f \in DOMAIN NoValues
                 PROVE  /\ vs[f] \in Seq({"", "value"})
                        /\ LastOf(vs[f]) = IF f \in Once THEN Value(f \in el.fields) ELSE ""
                        /\ f \notin Once => Len(vs[f]) = 2 /\ vs[f][2] = ""
      BY FieldGroups, NoValuesFacts
    <3>2. PICK v : v = Value(f \in el.fields)
      OBVIOUS
    <3>3. v \in {"", "value"}
      BY <3>1, <3>2
    <3>4. vs[f] = Written(NoValues[f], v)
      BY <3>2, Zenon
    <3> HIDE DEF vs
    <3> QED
      BY <3>2, <3>3, <3>4, DecodedValue
  <2>3. ps \in SUBSET Texts /\ el.lang \in Texts /\ el.auto \in BOOLEAN
    BY SprintTexts DEF Elements
  <2> HIDE DEF vs, ps
  <2>4. ext \in Extensions /\ ext.values = vs /\ ext.lang = el.lang /\ ext.auto = el.auto
        /\ ext.props = ps
    BY <2>2, <2>3 DEF Extensions
  <2> HIDE DEF ext
  <2>5. Decodes(ext, el)
    BY <2>2, <2>4 DEF Decodes, ps
  <2> QED
    BY <1>1, <2>1, <2>5
<1>2. CASE ~HasContent(el)
  <2>1. el.auto \in BOOLEAN
    BY DEF Elements
  <2>2. el.fields \cap Once = {}
    BY <1>2, FieldGroups DEF HasContent
  <2> QED
    BY <1>2, <2>1, <2>2 DEF HasContent, extensionsFromElement
<1> QED
  BY <1>1, <1>2


\* The correlation key is the first of two values as well, so nothing is decoded
\* from it, and what else the element has stays.
LEMMA CorrelationLost ==
    ASSUME NEW el \in Elements
    PROVE  Decodes(WithCorrelation(extensionsFromElement(el)), el)
<1> DEFINE created == [values |-> NoValues, lang |-> "", auto |-> FALSE, props |-> {}]
<1>1. PICK base : base = IF extensionsFromElement(el) = NoExtension THEN created
                         ELSE extensionsFromElement(el)
  OBVIOUS
<1>2. Decodes(base, el)
  <2>1. CASE HasContent(el)
    <3>1. Decodes(extensionsFromElement(el), el)
      BY <2>1, ExtensionsDecode
    <3>2. extensionsFromElement(el) # NoExtension
      BY <3>1, ExchangeAssumption DEF Decodes, ExchangeAssumption
    <3> QED
      BY <1>1, <3>1, <3>2
  <2>2. CASE ~HasContent(el)
    <3>1. /\ extensionsFromElement(el) = NoExtension /\ ~el.auto /\ el.lang = ""
          /\ el.props = {} /\ el.fields \cap Once = {} /\ el.auto \in BOOLEAN
      BY <2>2, ExtensionsDecode DEF Elements
    <3>2. base = created
      BY <1>1, <3>1
    <3>3. /\ base.values = NoValues /\ base.lang = "" /\ base.auto = FALSE /\ base.props = {}
          /\ base \in Extensions
      BY <3>2, NoValuesFacts, ExchangeAssumption DEF Extensions, ExchangeAssumption
    <3>4. \A f \in DOMAIN NoValues :
            LastOf(base.values[f]) = IF f \in Once THEN Value(f \in el.fields) ELSE ""
      BY <3>1, <3>3, NoValuesFacts DEF Value
    <3>5. el.auto = FALSE
      BY <3>1
    <3>6. {Sprint(p) : p \in el.props} = {}
      BY <3>1
    <3>7. Len(base.values["correlationKey"]) = 2 /\ base.values["correlationKey"][2] = ""
      <4>1. NoValues["correlationKey"] = <<"", "">>
        BY NoValuesFacts
      <4>2. Len(<<"", "">>) = 2 /\ <<"", "">>[2] = ""
        OBVIOUS
      <4> QED
        BY <3>3, <4>1, <4>2, Zenon
    <3> QED
      BY <3>1, <3>3, <3>4, <3>5, <3>6, <3>7 DEF Decodes
  <2> QED
    BY <2>1, <2>2
<1>3. PICK vs : vs = base.values
  OBVIOUS
<1>4. PICK key : key = Written(vs["correlationKey"], "value")
  OBVIOUS
<1>5. PICK res : res = [base EXCEPT !.values = [vs EXCEPT !["correlationKey"] = key]]
  OBVIOUS
<1>6. WithCorrelation(extensionsFromElement(el)) = res
  BY <1>1, <1>3, <1>4, <1>5 DEF WithCorrelation, Written
<1>7. /\ vs \in [DOMAIN NoValues -> Seq({"", "value"})]
      /\ "correlationKey" \in DOMAIN NoValues
      /\ Len(vs["correlationKey"]) = 2 /\ vs["correlationKey"][2] = ""
  BY <1>2, <1>3, NoValuesFacts DEF Decodes, Extensions
<1>8. /\ key \in Seq({"", "value"})
      /\ Len(key) = 2 /\ key[2] = "" /\ LastOf(key) = ""
  <2>1. vs["correlationKey"] \in Seq({"", "value"})
    BY <1>7
  <2>2. PICK t : t = vs["correlationKey"]
    OBVIOUS
  <2>3. t \in Seq({"", "value"}) /\ Len(t) = 2 /\ t[2] = "" /\ "value" \in {"", "value"}
    BY <1>7, <2>1, <2>2
  <2>4. key = Written(t, "value")
    BY <1>4, <2>2
  <2>5. /\ Written(t, "value") \in Seq({"", "value"})
        /\ Len(Written(t, "value")) = Len(t) /\ (Len(t) = 2 => Written(t, "value")[2] = t[2])
        /\ Len(t) = 2 => LastOf(Written(t, "value")) = t[2]
    BY <2>3, LastValue
  <2> QED
    BY <2>3, <2>4, <2>5, Zenon
<1>9. PICK ws : ws = [vs EXCEPT !["correlationKey"] = key]
  OBVIOUS
<1>10. /\ ws \in [DOMAIN NoValues -> Seq({"", "value"})]
       /\ ws["correlationKey"] = key
       /\ \A f \in DOMAIN NoValues : f # "correlationKey" => ws[f] = vs[f]
  BY <1>7, <1>8, <1>9
<1>11. /\ res \in Extensions /\ res.values = ws
       /\ res.auto = base.auto /\ res.lang = base.lang /\ res.props = base.props
  BY <1>2, <1>5, <1>9, <1>10 DEF Decodes, Extensions
<1>12. \A f \in DOMAIN NoValues :
         LastOf(ws[f]) = IF f \in Once THEN Value(f \in el.fields) ELSE ""
  <2> SUFFICES ASSUME NEW f \in DOMAIN NoValues
               PROVE  LastOf(ws[f]) = IF f \in Once THEN Value(f \in el.fields) ELSE ""
    OBVIOUS
  <2>1. CASE f = "correlationKey"
    BY <1>8, <1>10, <2>1, FieldGroups
  <2>2. CASE f # "correlationKey"
    <3>1. ws[f] = base.values[f]
      BY <1>3, <1>10, <2>2
    <3> QED
      BY <1>2, <3>1 DEF Decodes
  <2> QED
    BY <2>1, <2>2
<1>13. Decodes(res, el)
  BY <1>2, <1>8, <1>10, <1>11, <1>12 DEF Decodes
<1> QED
  BY <1>6, <1>13

-----------------------------------------------------------------------------
(* One element, out and back *)

OwnCondition(ed) == IF ed # NoEvent /\ ed.type = "conditional" THEN ed.condition ELSE ""

\* The event definition that comes back.
TripEvent(el) ==
    IF ~needsEventDefXML(el.kind) THEN NoEvent
    ELSE [type |-> IF el.event = NoEvent THEN "none" ELSE el.event.type,
          ref  |-> el.event # NoEvent /\ el.event.ref,
          condition |-> IF OwnCondition(el.event) = "" /\ "condition" \in el.props THEN "plain"
                        ELSE OwnCondition(el.event),
          correlation |-> FALSE]

\* The element that comes back.
Trip(el) ==
    [id |-> el.id, kind |-> el.kind, fields |-> el.fields \cap (Attributes \cup Once),
     lang |-> IF el.script /\ el.lang = "" THEN "javascript" ELSE el.lang, script |-> el.script,
     auto |-> el.auto, props |-> {Sprint(p) : p \in el.props}, event |-> TripEvent(el)]

\* The extension elements of the document, with or without a correlation key.
LEMMA WrittenExtension ==
    ASSUME NEW el \in Elements, NEW ext, ext = elementToXML(el).ext
    PROVE  \/ /\ ext = NoExtension /\ el.auto = FALSE /\ el.lang = "" /\ el.props = {}
              /\ el.fields \cap Once = {}
           \/ ext # NoExtension /\ Decodes(ext, el)
<1>1. \/ ext = extensionsFromElement(el)
      \/ ext = WithCorrelation(extensionsFromElement(el))
  BY DEF elementToXML
<1>2. \A x : Decodes(x, el) => x # NoExtension
  BY ExchangeAssumption DEF Decodes, ExchangeAssumption
<1>3. el.auto \in BOOLEAN
  BY DEF Elements
<1>4. CASE ext = WithCorrelation(extensionsFromElement(el))
  BY <1>2, <1>4, CorrelationLost
<1>5. CASE ext = extensionsFromElement(el)
  <2>1. CASE HasContent(el)
    BY <1>2, <1>5, <2>1, ExtensionsDecode
  <2>2. CASE ~HasContent(el)
    BY <1>3, <1>5, <2>2, ExtensionsDecode
  <2> QED
    BY <2>1, <2>2
<1> QED
  BY <1>1, <1>4, <1>5

\* The event definition of the document.
LEMMA WrittenEvent ==
    ASSUME NEW el \in Elements, NEW ev, ev = elementToXML(el).event
    PROVE  /\ ev # NoEvent <=> /\ el.event # NoEvent /\ needsEventDefXML(el.kind)
                               /\ el.event.type # "none"
           /\ ev # NoEvent => /\ ev.type = el.event.type /\ ev.ref = el.event.ref
                              /\ ev.body = [text |-> OwnCondition(el.event), cdata |-> FALSE]
<1>1. ev = IF el.event # NoEvent /\ needsEventDefXML(el.kind) THEN attachEventDef(el.event) ELSE NoEvent
  BY DEF elementToXML
<1>2. CASE el.event # NoEvent /\ needsEventDefXML(el.kind) /\ el.event.type # "none"
  <2> DEFINE body == IF el.event.type = "conditional" THEN el.event.condition ELSE ""
             res == [type |-> el.event.type, ref |-> el.event.ref,
                     body |-> [text |-> body, cdata |-> FALSE]]
  <2>1. ev = res
    BY <1>1, <1>2 DEF attachEventDef
  <2>2. body = OwnCondition(el.event) /\ body \in Conditions
    BY <1>2 DEF OwnCondition, Elements, EventDefs, Conditions
  <2>3. el.event.type \in EventTypes /\ el.event.ref \in BOOLEAN
    BY <1>2 DEF Elements, EventDefs
  <2> HIDE DEF body
  <2>4. res \in EventElements
    BY <2>2, <2>3 DEF EventElements
  <2>5. res # NoEvent
    BY <2>4, ExchangeAssumption DEF ExchangeAssumption
  <2>6. /\ res.type = el.event.type /\ res.ref = el.event.ref
        /\ res.body = [text |-> OwnCondition(el.event), cdata |-> FALSE]
    BY <2>2
  <2> HIDE DEF res
  <2> QED
    BY <1>2, <2>1, <2>5, <2>6
<1>3. CASE ~(el.event # NoEvent /\ needsEventDefXML(el.kind) /\ el.event.type # "none")
  BY <1>1, <1>3 DEF attachEventDef
<1> QED
  BY <1>2, <1>3

\* Parse of what Marshal writes for an element.
LEMMA ElementTrip ==
    ASSUME NEW el \in Elements
    PROVE  mapElement(elementToXML(el)) = Trip(el)
<1>1. PICK fe : fe = elementToXML(el)
  OBVIOUS
<1>2. /\ fe.id = el.id /\ fe.local = el.kind /\ fe.attributes = el.fields \cap Attributes
      /\ fe.script = el.script /\ fe.format = IF el.script THEN el.lang ELSE ""
  BY <1>1 DEF elementToXML
<1>3. PICK ext : ext = fe.ext
  OBVIOUS
<1>4. PICK ev : ev = fe.event
  OBVIOUS
<1>5. \/ /\ ext = NoExtension /\ el.auto = FALSE /\ el.lang = "" /\ el.props = {}
         /\ el.fields \cap Once = {}
      \/ ext # NoExtension /\ Decodes(ext, el)
  BY <1>1, <1>3, WrittenExtension
<1>6. /\ ev # NoEvent <=> /\ el.event # NoEvent /\ needsEventDefXML(el.kind)
                          /\ el.event.type # "none"
      /\ ev # NoEvent => /\ ev.type = el.event.type /\ ev.ref = el.event.ref
                         /\ ev.body = [text |-> OwnCondition(el.event), cdata |-> FALSE]
  BY <1>1, <1>4, WrittenEvent
<1>7. DecodedFields(fe) = el.fields \cap (Attributes \cup Once)
  <2>1. CASE ext = NoExtension
    BY <1>2, <1>3, <1>5, <2>1 DEF DecodedFields, Decodes
  <2>2. CASE ext # NoExtension
    <3>1. \A f \in Once \cup Twice : LastOf(ext.values[f]) # "" <=> f \in Once /\ f \in el.fields
      BY <1>5, <2>2, NoValuesFacts DEF Decodes, Value
    <3>2. {f \in Once \cup Twice : LastOf(ext.values[f]) # ""} = Once \cap el.fields
      BY <3>1
    <3>3. DecodedFields(fe) = fe.attributes \cup {f \in Once \cup Twice : LastOf(ext.values[f]) # ""}
      BY <1>3, <2>2, Zenon DEF DecodedFields
    <3> QED
      BY <1>2, <3>2, <3>3
  <2> QED
    BY <2>1, <2>2
<1>8. ScriptLang(fe) = IF el.script /\ el.lang = "" THEN "javascript" ELSE el.lang
  <2>1. ext # NoExtension => ext.lang = el.lang
    BY <1>5 DEF Decodes
  <2>2. el.lang # "" => ext # NoExtension
    BY <1>5
  <2>3. el.script \in BOOLEAN
    BY DEF Elements
  <2> QED
    BY <1>2, <1>3, <2>1, <2>2, <2>3 DEF ScriptLang
<1>9. /\ (fe.ext # NoExtension /\ fe.ext.auto) = el.auto
      /\ (IF fe.ext = NoExtension THEN {} ELSE fe.ext.props) = {Sprint(p) : p \in el.props}
  <2>1. el.auto \in BOOLEAN
    BY DEF Elements
  <2> QED
    BY <1>3, <1>5, <2>1 DEF Decodes
<1>10. needsEventDefXML(el.kind) => mapEventDef(fe) = TripEvent(el)
  <2> SUFFICES ASSUME needsEventDefXML(el.kind) PROVE mapEventDef(fe) = TripEvent(el)
    OBVIOUS
  <2>1. /\ el.event # NoEvent => el.event \in EventDefs
        /\ el.event # NoEvent /\ el.event.type = "none" => ~el.event.ref
        /\ el.event # NoEvent => el.event.ref \in BOOLEAN
    BY DEF Elements, EventDefs
  <2>2. (IF ev # NoEvent THEN conditionBody(ev.body) ELSE "") = OwnCondition(el.event)
    <3>1. CASE ev # NoEvent
      <4>1. ev.body.text = OwnCondition(el.event)
        BY <1>6, <3>1
      <4> QED
        BY <3>1, <4>1 DEF conditionBody
    <3>2. CASE ev = NoEvent
      BY <1>6, <3>2 DEF OwnCondition
    <3> QED
      BY <3>1, <3>2
  <2>3. (ext # NoExtension /\ "condition" \in ext.props) <=> "condition" \in el.props
    <3>1. el.props \in SUBSET Texts
      BY DEF Elements
    <3>2. CASE ext = NoExtension
      BY <1>5, <3>2 DEF Decodes
    <3>3. CASE ext # NoExtension
      BY <1>5, <3>1, <3>3, SprintTexts DEF Decodes
    <3> QED
      BY <3>2, <3>3
  <2>4. ~(ext # NoExtension /\ LastOf(ext.values["correlationKey"]) # "")
    BY <1>5, NoValuesFacts, FieldGroups DEF Decodes
  <2>5. (IF ev # NoEvent THEN ev.type ELSE "none") = IF el.event = NoEvent THEN "none" ELSE el.event.type
    BY <1>6
  <2>6. (ev # NoEvent /\ ev.ref) = (el.event # NoEvent /\ el.event.ref)
    BY <1>6, <2>1
  <2>7. (ext # NoExtension /\ LastOf(ext.values["correlationKey"]) # "") = FALSE
    BY <2>4
  <2>8. (IF (IF ev # NoEvent THEN conditionBody(ev.body) ELSE "") = "" /\ ext # NoExtension
            /\ "condition" \in ext.props THEN "plain"
         ELSE IF ev # NoEvent THEN conditionBody(ev.body) ELSE "")
        = IF OwnCondition(el.event) = "" /\ "condition" \in el.props THEN "plain"
          ELSE OwnCondition(el.event)
    BY <2>2, <2>3
  <2> QED
    BY <1>3, <1>4, <2>5, <2>6, <2>7, <2>8 DEF mapEventDef, TripEvent
<1> QED
  BY <1>1, <1>2, <1>7, <1>8, <1>9, <1>10 DEF mapElement, Trip, TripEvent

\* What comes back is an element, and a second trip leaves it as it is.
LEMMA TripSettles ==
    ASSUME NEW el \in Elements
    PROVE  /\ Trip(el) \in Elements /\ Trip(Trip(el)) = Trip(el)
           /\ needsEventDefXML(el.kind) => TripEvent(el) # NoEvent
<1>1. PICK ev : ev = TripEvent(el)
  OBVIOUS
<1>2. PICK t : t = Trip(el)
  OBVIOUS
<1>3. /\ t.id = el.id /\ t.kind = el.kind /\ t.fields = el.fields \cap (Attributes \cup Once)
      /\ t.lang = IF el.script /\ el.lang = "" THEN "javascript" ELSE el.lang
      /\ t.script = el.script /\ t.auto = el.auto /\ t.props = {Sprint(p) : p \in el.props}
      /\ t.event = ev
  BY <1>1, <1>2 DEF Trip
<1>4. el.event # NoEvent => el.event \in EventDefs
  BY DEF Elements
<1>5. /\ needsEventDefXML(el.kind) => ev \in EventDefs /\ ev # NoEvent
      /\ ~needsEventDefXML(el.kind) => ev = NoEvent
  <2>1. CASE needsEventDefXML(el.kind)
    <3>1. /\ ev.type = IF el.event = NoEvent THEN "none" ELSE el.event.type
          /\ ev.ref = (el.event # NoEvent /\ el.event.ref)
          /\ ev \in [type : EventTypes, ref : BOOLEAN, condition : Conditions, correlation : BOOLEAN]
      BY <1>1, <1>4, <2>1 DEF TripEvent, EventDefs, EventTypes, Conditions, OwnCondition
    <3>2. ev.ref => ev.type \notin {"none", "conditional"}
      BY <1>4, <3>1 DEF EventDefs
    <3>3. ev \in EventDefs
      BY <3>1, <3>2 DEF EventDefs
    <3> QED
      BY <2>1, <3>3, ExchangeAssumption DEF ExchangeAssumption
  <2>2. CASE ~needsEventDefXML(el.kind)
    BY <1>1, <2>2 DEF TripEvent
  <2> QED
    BY <2>1, <2>2
<1>6. /\ t.props \in SUBSET Texts /\ {Sprint(p) : p \in t.props} = t.props
      /\ "condition" \in t.props <=> "condition" \in el.props
  <2>1. el.props \in SUBSET Texts
    BY DEF Elements
  <2> QED
    BY <1>3, <2>1, SprintTexts
<1>7. t \in Elements
  <2>1. t.lang \in Texts /\ t.fields \in SUBSET Fields
    BY <1>3, FieldGroups, ExchangeAssumption DEF Elements, ExchangeAssumption
  <2>2. t.event \in EventDefs \cup {NoEvent}
    BY <1>3, <1>5
  <2> QED
    BY <1>2, <1>3, <1>6, <2>1, <2>2 DEF Elements, Trip
<1>8. TripEvent(t) = ev
  <2>1. CASE ~needsEventDefXML(el.kind)
    BY <1>3, <1>5, <2>1 DEF TripEvent
  <2>2. CASE needsEventDefXML(el.kind)
    <3>1. ev.condition = IF OwnCondition(el.event) = "" /\ "condition" \in el.props THEN "plain"
                         ELSE OwnCondition(el.event)
      BY <1>1, <2>2 DEF TripEvent
    <3>2. ev.type = IF el.event = NoEvent THEN "none" ELSE el.event.type
      BY <1>1, <2>2 DEF TripEvent
    <3>3. (IF OwnCondition(ev) = "" /\ "condition" \in t.props THEN "plain" ELSE OwnCondition(ev))
          = ev.condition
      BY <1>5, <1>6, <2>2, <3>1, <3>2 DEF OwnCondition
    <3>4. ev.correlation = FALSE
      BY <1>1, <2>2 DEF TripEvent
    <3>5. TripEvent(t) = [type |-> ev.type, ref |-> ev.ref, condition |-> ev.condition,
                          correlation |-> ev.correlation]
      BY <1>3, <1>5, <2>2, <3>3, <3>4 DEF TripEvent, EventDefs
    <3> QED
      BY <1>5, <2>2, <3>5 DEF EventDefs
  <2> QED
    BY <2>1, <2>2
<1>9. /\ t.fields \cap (Attributes \cup Once) = t.fields
      /\ (IF t.script /\ t.lang = "" THEN "javascript" ELSE t.lang) = t.lang
  BY <1>3
<1>10. Trip(t) = [id |-> t.id, kind |-> t.kind, fields |-> t.fields, lang |-> t.lang,
                  script |-> t.script, auto |-> t.auto, props |-> t.props, event |-> t.event]
  BY <1>3, <1>6, <1>8, <1>9 DEF Trip
<1>11. Trip(t) = t
  BY <1>7, <1>10 DEF Elements
<1> QED
  BY <1>1, <1>2, <1>5, <1>7, <1>11

-----------------------------------------------------------------------------
(* A definition, out and back *)

\* What Parse makes of the document that Marshal writes.
Returned(d) == Parse(Marshal(d))

\* A condition that comes out with a bare "<".
Garbled(d) ==
    \/ d.flow.condition = "less"
    \/ \E n \in DOMAIN d.elements :
         /\ d.elements[n].event # NoEvent /\ needsEventDefXML(d.elements[n].kind)
         /\ OwnCondition(d.elements[n].event) = "less"

\* A function over the places of a list is a list.
LEMMA MappedList ==
    ASSUME NEW U, NEW V, NEW s \in Seq(U), NEW t, DOMAIN t = DOMAIN s,
           t = [n \in DOMAIN s |-> t[n]], \A n \in DOMAIN s : t[n] \in V
    PROVE  t \in Seq(V) /\ Len(t) = Len(s) /\ DOMAIN t = 1..Len(s)
<1>1. Len(s) \in Nat /\ DOMAIN s = 1..Len(s)
  OBVIOUS
<1>2. t \in [1..Len(s) -> V]
  BY <1>1
<1>3. t \in Seq(V)
  BY <1>1, <1>2, SeqDef
<1> QED
  BY <1>1, <1>3

\* The places of a document are those of the definition.
LEMMA DocumentElements ==
    ASSUME NEW d \in ProcessDefinitions, NEW doc, doc = Marshal(d)
    PROVE  /\ doc.id = d.id /\ doc.lanes = d.lanes /\ doc.data = d.data
           /\ doc.flow = [body |-> [text |-> d.flow.condition, cdata |-> FALSE],
                          default |-> d.flow.default, ends |-> d.flow.ends]
           /\ doc.collaboration = buildXMLCollaboration(d.collaboration, d.id)
           /\ doc.elements = [n \in DOMAIN d.elements |-> elementToXML(d.elements[n])]
BY DEF Marshal, buildXMLProcess

\* All elements are of known kinds, so Parse skips none of them.
LEMMA NoneSkipped ==
    ASSUME NEW d \in ProcessDefinitions, NEW doc, doc = Marshal(d),
           \A n \in DOMAIN d.elements : isSupportedKind(d.elements[n].kind)
    PROVE  mapProcess(doc) =
             [id |-> d.id, lanes |-> d.lanes, data |-> d.data,
              elements |-> [n \in DOMAIN d.elements |-> Trip(d.elements[n])],
              flow |-> [condition |-> d.flow.condition, default |-> d.flow.default,
                       ends |-> d.flow.ends],
              collaboration |-> NoCollaboration]
<1>1. PICK fes : fes = doc.elements
  OBVIOUS
<1>2. fes = [n \in DOMAIN d.elements |-> elementToXML(d.elements[n])]
  BY <1>1, DocumentElements
<1>3. d.elements \in Seq(Elements)
  BY DEF ProcessDefinitions
<1>4. \A n \in DOMAIN d.elements : fes[n] = elementToXML(d.elements[n])
  BY <1>2
<1>5. PICK X : X = {elementToXML(el) : el \in Elements}
  OBVIOUS
<1>6. \A n \in DOMAIN d.elements : fes[n] \in X
  BY <1>3, <1>4, <1>5
<1>7. fes \in Seq(X) /\ DOMAIN fes = DOMAIN d.elements
  <2>1. PICK s : s = d.elements
    OBVIOUS
  <2>2. s \in Seq(Elements) /\ DOMAIN fes = DOMAIN s /\ fes = [n \in DOMAIN s |-> fes[n]]
    BY <1>2, <1>3, <2>1
  <2>3. \A n \in DOMAIN s : fes[n] \in X
    BY <1>6, <2>1
  <2>4. fes \in Seq(X)
    BY <2>2, <2>3, MappedList
  <2> QED
    BY <2>1, <2>2, <2>4
<1>8. \A n \in DOMAIN fes : xmlLocalToKind(fes[n])
  <2>1. \A el : elementToXML(el).local = el.kind
    BY DEF elementToXML
  <2> QED
    BY <1>4, <1>7, <2>1 DEF xmlLocalToKind
<1>9. PICK skipped : skipped = {fe \in Members(fes) : ~xmlLocalToKind(fe)}
  OBVIOUS
<1>10. \A n \in DOMAIN fes : fes[n] \notin skipped
  BY <1>8, <1>9
<1>11. Outside(fes, skipped) = fes
  BY <1>7, <1>10, OutsideNothing
<1>12. \A n \in DOMAIN d.elements : mapElement(fes[n]) = Trip(d.elements[n])
  <2> SUFFICES ASSUME NEW n \in DOMAIN d.elements
               PROVE  mapElement(fes[n]) = Trip(d.elements[n])
    OBVIOUS
  <2>1. PICK el : el = d.elements[n]
    OBVIOUS
  <2>2. el \in Elements /\ fes[n] = elementToXML(el)
    BY <1>3, <1>4, <2>1
  <2>3. mapElement(elementToXML(el)) = Trip(el)
    BY <2>2, ElementTrip
  <2> QED
    BY <2>1, <2>2, <2>3, Zenon
<1>13. [n \in DOMAIN fes |-> mapElement(fes[n])] = [n \in DOMAIN d.elements |-> Trip(d.elements[n])]
  BY <1>7, <1>12, Zenon
<1>14. conditionBody(doc.flow.body) = d.flow.condition /\ doc.flow.default = d.flow.default
       /\ doc.flow.ends = d.flow.ends
  <2>1. doc.flow = [body |-> [text |-> d.flow.condition, cdata |-> FALSE],
                    default |-> d.flow.default, ends |-> d.flow.ends]
    BY DocumentElements
  <2>2. doc.flow.body = [text |-> d.flow.condition, cdata |-> FALSE]
    BY <2>1
  <2>3. doc.flow.body.text = d.flow.condition
    BY <2>2
  <2> QED
    BY <2>1, <2>3 DEF conditionBody
<1>15. mapProcess(doc) =
         [id |-> doc.id, lanes |-> doc.lanes, data |-> doc.data,
          elements |-> [n \in DOMAIN fes |-> mapElement(fes[n])],
          flow |-> [condition |-> conditionBody(doc.flow.body), default |-> doc.flow.default,
                    ends |-> doc.flow.ends],
          collaboration |-> NoCollaboration]
  BY <1>1, <1>9, <1>11, Zenon DEF mapProcess
<1>16. doc.id = d.id /\ doc.lanes = d.lanes /\ doc.data = d.data
  BY DocumentElements
<1> QED
  BY <1>13, <1>14, <1>15, <1>16, Zenon

\* The collaboration that comes back.
TripCollaboration(c, id) == mapCollaborationForProcess(buildXMLCollaboration(c, id), id)

\* The definition that comes back.
Image(d) ==
    [id |-> d.id, lanes |-> d.lanes, data |-> d.data,
     elements |-> [n \in DOMAIN d.elements |-> Trip(d.elements[n])], flow |-> d.flow,
     collaboration |-> TripCollaboration(d.collaboration, d.id)]

\* Only a bare "<" keeps a document from being decoded.
LEMMA DecodeFailsIff ==
    ASSUME NEW d \in ProcessDefinitions
    PROVE  DecodeFails(Marshal(d)) <=> Garbled(d)
<1>1. PICK doc : doc = Marshal(d)
  OBVIOUS
<1>2. /\ doc.flow = [body |-> [text |-> d.flow.condition, cdata |-> FALSE],
                     default |-> d.flow.default, ends |-> d.flow.ends]
      /\ doc.elements = [n \in DOMAIN d.elements |-> elementToXML(d.elements[n])]
  BY <1>1, DocumentElements
<1>3. BadBody(doc.flow.body) <=> d.flow.condition = "less"
  <2>1. doc.flow.body = [text |-> d.flow.condition, cdata |-> FALSE]
    BY <1>2
  <2>2. doc.flow.body.text = d.flow.condition /\ doc.flow.body.cdata = FALSE
    BY <2>1
  <2> QED
    BY <2>2 DEF BadBody
<1>4. DOMAIN doc.elements = DOMAIN d.elements
  BY <1>2
<1>5. ASSUME NEW n \in DOMAIN d.elements
      PROVE  (doc.elements[n].event # NoEvent /\ BadBody(doc.elements[n].event.body))
             <=> /\ d.elements[n].event # NoEvent /\ needsEventDefXML(d.elements[n].kind)
                 /\ OwnCondition(d.elements[n].event) = "less"
  <2>1. PICK el : el = d.elements[n]
    OBVIOUS
  <2>2. el \in Elements
    BY <2>1 DEF ProcessDefinitions
  <2>3. doc.elements[n] = elementToXML(el)
    BY <1>2, <2>1
  <2>4. PICK ev : ev = elementToXML(el).event
    OBVIOUS
  <2>5. /\ ev # NoEvent <=> /\ el.event # NoEvent /\ needsEventDefXML(el.kind)
                            /\ el.event.type # "none"
        /\ ev # NoEvent => ev.body = [text |-> OwnCondition(el.event), cdata |-> FALSE]
    BY <2>2, <2>4, WrittenEvent
  <2>6. ev # NoEvent => (BadBody(ev.body) <=> OwnCondition(el.event) = "less")
    <3> SUFFICES ASSUME ev # NoEvent PROVE BadBody(ev.body) <=> OwnCondition(el.event) = "less"
      OBVIOUS
    <3>1. ev.body.text = OwnCondition(el.event) /\ ev.body.cdata = FALSE
      BY <2>5
    <3> QED
      BY <3>1 DEF BadBody
  <2>7. el.event # NoEvent /\ el.event.type = "none" => OwnCondition(el.event) = ""
    BY DEF OwnCondition
  <2>8. (ev # NoEvent /\ BadBody(ev.body))
        <=> el.event # NoEvent /\ needsEventDefXML(el.kind) /\ OwnCondition(el.event) = "less"
    BY <2>5, <2>6, <2>7
  <2> QED
    BY <2>1, <2>3, <2>4, <2>8, Zenon
<1>6. DecodeFails(doc) <=> Garbled(d)
  BY <1>3, <1>4, <1>5 DEF DecodeFails, Garbled
<1> QED
  BY <1>1, <1>6

\* Known is a definition that can be written: every kind is known and it has an id.
Known(d) == d.id # "" /\ \A n \in DOMAIN d.elements : isSupportedKind(d.elements[n].kind)

\* Parse of the document that Marshal writes.
LEMMA ReturnedForm ==
    ASSUME NEW d \in ProcessDefinitions, Known(d)
    PROVE  Returned(d) = IF Garbled(d) THEN Unreadable ELSE Image(d)
<1>1. PICK doc : doc = Marshal(d)
  OBVIOUS
<1>2. DecodeFails(doc) <=> Garbled(d)
  BY <1>1, DecodeFailsIff
<1>3. doc.id = d.id /\ doc.id # "" /\ doc.collaboration = buildXMLCollaboration(d.collaboration, d.id)
  BY <1>1, DocumentElements DEF Known
<1>4. PICK es : es = [n \in DOMAIN d.elements |-> Trip(d.elements[n])]
  OBVIOUS
<1>5. PICK c : c = TripCollaboration(d.collaboration, d.id)
  OBVIOUS
<1>6. [condition |-> d.flow.condition, default |-> d.flow.default, ends |-> d.flow.ends] = d.flow
  BY DEF ProcessDefinitions
<1>7. mapProcess(doc) =
        [id |-> d.id, lanes |-> d.lanes, data |-> d.data, elements |-> es, flow |-> d.flow,
         collaboration |-> NoCollaboration]
  <2>1. mapProcess(doc) =
          [id |-> d.id, lanes |-> d.lanes, data |-> d.data,
           elements |-> [n \in DOMAIN d.elements |-> Trip(d.elements[n])],
           flow |-> [condition |-> d.flow.condition, default |-> d.flow.default,
                    ends |-> d.flow.ends],
           collaboration |-> NoCollaboration]
    BY <1>1, NoneSkipped DEF Known
  <2> QED
    BY <1>4, <1>6, <2>1, Zenon
<1>8. [mapProcess(doc) EXCEPT !.collaboration = c] =
        [id |-> d.id, lanes |-> d.lanes, data |-> d.data, elements |-> es, flow |-> d.flow,
         collaboration |-> c]
  BY <1>7
<1>9. Parse(doc) = IF Garbled(d) THEN Unreadable ELSE [mapProcess(doc) EXCEPT !.collaboration = c]
  BY <1>2, <1>3, <1>5 DEF Parse, TripCollaboration
<1>10. Image(d) = [id |-> d.id, lanes |-> d.lanes, data |-> d.data, elements |-> es,
                   flow |-> d.flow, collaboration |-> c]
  BY <1>4, <1>5, Zenon DEF Image
<1> QED
  BY <1>1, <1>8, <1>9, <1>10, Zenon DEF Returned

\* A pool that got the id of the process keeps it, and a collaboration that was
\* kept is kept again.
LEMMA CollaborationSettles ==
    ASSUME NEW c \in Pools \cup {NoCollaboration}, NEW id \in Texts, id # "",
           NEW r, r = TripCollaboration(c, id)
    PROVE  /\ r \in Pools \cup {NoCollaboration}
           /\ TripCollaboration(r, id) = r
           /\ r # NoCollaboration => c # NoCollaboration /\ r.messageFlows = c.messageFlows
<1>1. NoCollaboration \notin Pools
  BY ExchangeAssumption DEF ExchangeAssumption
<1>2. CASE c = NoCollaboration
  BY <1>2 DEF TripCollaboration, buildXMLCollaboration, mapCollaborationForProcess
<1>3. CASE c \in Pools
  <2>1. PICK ps : ps = {IF ref = "" THEN id ELSE ref : ref \in c.pools}
    OBVIOUS
  <2>2. PICK b : b = [c EXCEPT !.pools = ps]
    OBVIOUS
  <2>3. c.pools \in SUBSET Texts /\ c.messageFlows \in SUBSET Texts
    BY <1>3 DEF Pools
  <2>4. ps \in SUBSET Texts /\ "" \notin ps
    BY <2>1, <2>3
  <2>5. b \in Pools /\ b.pools = ps /\ b.messageFlows = c.messageFlows
    BY <1>3, <2>2, <2>4 DEF Pools
  <2>7. buildXMLCollaboration(c, id) = b
    BY <1>1, <1>3, <2>1, <2>2 DEF buildXMLCollaboration
  <2>8. r = NoCollaboration \/ (r = b /\ (b.messageFlows # {} \/ b.pools \cap {"", id} # {}))
    BY <2>7 DEF TripCollaboration, mapCollaborationForProcess
  <2>9. CASE r = NoCollaboration
    BY <2>9 DEF TripCollaboration, buildXMLCollaboration, mapCollaborationForProcess
  <2>10. CASE r = b /\ (b.messageFlows # {} \/ b.pools \cap {"", id} # {})
    <3>1. {IF ref = "" THEN id ELSE ref : ref \in b.pools} = b.pools
      BY <2>4, <2>5
    <3>2. [b EXCEPT !.pools = b.pools] = b
      BY <2>5 DEF Pools
    <3>3. buildXMLCollaboration(b, id) = b
      BY <1>1, <2>5, <3>1, <3>2 DEF buildXMLCollaboration
    <3>4. TripCollaboration(b, id) = b
      BY <1>1, <2>5, <2>10, <3>3 DEF TripCollaboration, mapCollaborationForProcess
    <3> QED
      BY <1>1, <1>3, <2>5, <2>10, <3>4
  <2> QED
    BY <2>8, <2>9, <2>10
<1> QED
  BY <1>2, <1>3

\* What comes back is a definition again, the second trip changes nothing, and
\* it can be decoded if the first could.
LEMMA ImageSettles ==
    ASSUME NEW d \in ProcessDefinitions, Known(d), NEW r, r = Image(d)
    PROVE  /\ r \in ProcessDefinitions /\ Known(r) /\ Image(r) = r
           /\ ~Garbled(d) => ~Garbled(r)
<1>1. PICK es : es = [n \in DOMAIN d.elements |-> Trip(d.elements[n])]
  OBVIOUS
<1>2. PICK c : c = TripCollaboration(d.collaboration, d.id)
  OBVIOUS
<1>3. r = [id |-> d.id, lanes |-> d.lanes, data |-> d.data, elements |-> es, flow |-> d.flow,
           collaboration |-> c]
  BY <1>1, <1>2, Zenon DEF Image
<1>4. /\ r.id = d.id /\ r.lanes = d.lanes /\ r.data = d.data /\ r.elements = es
      /\ r.flow = d.flow /\ r.collaboration = c
  BY <1>3
<1>5. /\ d.id \in Texts /\ d.lanes \in SUBSET Texts /\ d.data \in BOOLEAN
      /\ d.elements \in Seq(Elements)
      /\ d.flow \in [condition : Conditions, default : BOOLEAN, ends : SUBSET Texts]
      /\ d.collaboration \in Pools \cup {NoCollaboration}
  BY DEF ProcessDefinitions
<1>6. c \in Pools \cup {NoCollaboration} /\ TripCollaboration(c, d.id) = c
  BY <1>2, <1>5, CollaborationSettles DEF Known
<1>7. \A n \in DOMAIN d.elements :
        /\ d.elements[n] \in Elements /\ es[n] = Trip(d.elements[n])
        /\ es[n] \in Elements /\ Trip(es[n]) = es[n]
  <2> SUFFICES ASSUME NEW n \in DOMAIN d.elements
               PROVE  /\ d.elements[n] \in Elements /\ es[n] = Trip(d.elements[n])
                      /\ es[n] \in Elements /\ Trip(es[n]) = es[n]
    OBVIOUS
  <2>1. PICK el : el = d.elements[n]
    OBVIOUS
  <2>2. el \in Elements /\ es[n] = Trip(el)
    BY <1>1, <1>5, <2>1
  <2>3. Trip(el) \in Elements /\ Trip(Trip(el)) = Trip(el)
    BY <2>2, TripSettles
  <2> QED
    BY <2>1, <2>2, <2>3, Zenon
<1>8. es \in Seq(Elements) /\ DOMAIN es = DOMAIN d.elements
  <2>1. PICK s : s = d.elements
    OBVIOUS
  <2>2. s \in Seq(Elements) /\ DOMAIN es = DOMAIN s /\ es = [n \in DOMAIN s |-> es[n]]
    BY <1>1, <1>5, <2>1
  <2>3. \A n \in DOMAIN s : es[n] \in Elements
    BY <1>7, <2>1
  <2>4. es \in Seq(Elements)
    BY <2>2, <2>3, MappedList
  <2> QED
    BY <2>1, <2>2, <2>4
<1>9. r \in ProcessDefinitions
  BY <1>3, <1>5, <1>6, <1>8 DEF ProcessDefinitions
<1>10. \A el : Trip(el).kind = el.kind
  BY DEF Trip
<1>11. Known(r)
  BY <1>4, <1>7, <1>8, <1>10 DEF Known
<1>12. Image(r) = r
  <2>1. [n \in DOMAIN es |-> Trip(es[n])] = es
    <3>1. es = [n \in DOMAIN es |-> es[n]]
      BY <1>1
    <3>2. \A n \in DOMAIN es : Trip(es[n]) = es[n]
      BY <1>7, <1>8
    <3> QED
      BY <3>1, <3>2, Zenon
  <2>2. Image(r) = [id |-> r.id, lanes |-> r.lanes, data |-> r.data,
                    elements |-> [n \in DOMAIN es |-> Trip(es[n])], flow |-> r.flow,
                    collaboration |-> TripCollaboration(r.collaboration, r.id)]
    BY <1>4, Zenon DEF Image
  <2> QED
    BY <1>3, <1>4, <1>6, <2>1, <2>2, Zenon
<1>13. ~Garbled(d) => ~Garbled(r)
  <2> SUFFICES ASSUME ~Garbled(d) PROVE ~Garbled(r)
    OBVIOUS
  <2>1. r.flow.condition # "less"
    BY <1>4 DEF Garbled
  <2>2. ASSUME NEW n \in DOMAIN r.elements, r.elements[n].event # NoEvent,
               needsEventDefXML(r.elements[n].kind), OwnCondition(r.elements[n].event) = "less"
        PROVE  FALSE
    <3>1. PICK el : el = d.elements[n]
      OBVIOUS
    <3>2. el \in Elements /\ r.elements[n] = Trip(el) /\ n \in DOMAIN d.elements
      BY <1>4, <1>7, <1>8, <2>2, <3>1
    <3>3. Trip(el).kind = el.kind /\ Trip(el).event = TripEvent(el)
      BY DEF Trip
    <3>4. PICK ev : ev = TripEvent(el)
      OBVIOUS
    <3>5. needsEventDefXML(el.kind) /\ OwnCondition(ev) = "less" /\ ev # NoEvent
      BY <2>2, <3>2, <3>3, <3>4
    <3>6. /\ ev.type = IF el.event = NoEvent THEN "none" ELSE el.event.type
          /\ ev.condition = IF OwnCondition(el.event) = "" /\ "condition" \in el.props THEN "plain"
                            ELSE OwnCondition(el.event)
      BY <3>4, <3>5 DEF TripEvent
    <3>7. ev.type = "conditional" /\ ev.condition = "less"
      BY <3>5 DEF OwnCondition
    <3>8. el.event # NoEvent /\ OwnCondition(el.event) = "less"
      BY <3>6, <3>7
    <3> QED
      BY <3>1, <3>2, <3>5, <3>8 DEF Garbled
  <2> QED
    BY <2>1, <2>2 DEF Garbled
<1> QED
  BY <1>9, <1>11, <1>12, <1>13

\* The first trip takes everything that is lost: what comes back comes back again.
LEMMA ReturnedSettles ==
    ASSUME NEW d \in ProcessDefinitions, Known(d), Returned(d) # Unreadable
    PROVE  /\ Returned(d) \in ProcessDefinitions /\ Known(Returned(d))
           /\ Returned(d) = Image(d) /\ ~Garbled(d)
           /\ Returned(Returned(d)) = Returned(d)
<1>1. ~Garbled(d) /\ Returned(d) = Image(d)
  BY ReturnedForm
<1>2. PICK r : r = Image(d)
  OBVIOUS
<1>3. r \in ProcessDefinitions /\ Known(r) /\ Image(r) = r /\ ~Garbled(r)
  BY <1>1, <1>2, ImageSettles
<1>4. Returned(r) = r
  BY <1>3, ReturnedForm
<1> QED
  BY <1>1, <1>2, <1>3, <1>4, Zenon

-----------------------------------------------------------------------------
(* What is accepted again *)

\* The instructions of automated tasks are all among the fields written twice.
LEMMA TaskAgain ==
    ASSUME NEW el \in Elements, NEW w, w = [el EXCEPT !.fields = @ \ Twice]
    PROVE  ValidateTaskElement(Trip(el)) <=> ValidateTaskElement(w)
<1>1. PICK t : t = Trip(el)
  OBVIOUS
<1>2. /\ t.kind = el.kind /\ t.script = el.script /\ t.auto = el.auto
      /\ t.fields = el.fields \cap (Attributes \cup Once)
  BY <1>1 DEF Trip
<1>3. /\ w.kind = el.kind /\ w.script = el.script /\ w.auto = el.auto
      /\ w.fields = el.fields \ Twice
  BY DEF Elements
<1>4. \A S : S \subseteq Twice => t.fields \cap S = {} /\ w.fields \cap S = {}
  BY <1>2, <1>3, FieldGroups
<1>5. /\ {"serviceUrl", "implementation", "taskType"} \subseteq Twice
      /\ {"messageRef", "taskType"} \subseteq Twice /\ {"messageRef"} \subseteq Twice
      /\ {"decisionRef", "taskType"} \subseteq Twice
  BY DEF Twice
<1>6. ValidateTaskElement(t) <=> ValidateTaskElement(w)
  BY <1>2, <1>3, <1>4, <1>5 DEF ValidateTaskElement
<1> QED
  BY <1>1, <1>6

\* An event keeps what its type requires.
LEMMA EventAgain ==
    ASSUME NEW el \in Elements, needsEventDefXML(el.kind), ValidateEventDefinition(el)
    PROVE  ValidateEventDefinition(Trip(el))
<1>1. PICK t, ev : t = Trip(el) /\ ev = TripEvent(el)
  OBVIOUS
<1>2. t.kind = el.kind /\ t.event = ev
  BY <1>1 DEF Trip
<1>3. ev # NoEvent
  BY <1>1, TripSettles
<1>4. /\ ev.type = IF el.event = NoEvent THEN "none" ELSE el.event.type
      /\ ev.ref = (el.event # NoEvent /\ el.event.ref)
      /\ ev.condition = IF OwnCondition(el.event) = "" /\ "condition" \in el.props THEN "plain"
                        ELSE OwnCondition(el.event)
  BY <1>1 DEF TripEvent
<1>5. CASE el.event = NoEvent
  BY <1>1, <1>2, <1>3, <1>4, <1>5 DEF ValidateEventDefinition, validateEventDefinitionBody
<1>6. CASE el.event # NoEvent
  <2>1. validateEventDefinitionBody(el)
    BY <1>6 DEF ValidateEventDefinition
  <2>2. el.event.type = "conditional" => (el.event.condition # "" => ev.condition # "")
    BY <1>4, <1>6 DEF OwnCondition
  <2>3. validateEventDefinitionBody(t)
    BY <1>2, <1>4, <1>6, <2>1, <2>2 DEF validateEventDefinitionBody
  <2> QED
    BY <1>2, <1>3, <2>3, <1>1 DEF ValidateEventDefinition
<1> QED
  BY <1>1, <1>5, <1>6

\* So does an element its attributes and its host.
LEMMA ExtensionAgain ==
    ASSUME NEW el \in Elements, NEW before, NEW after, validateExtensionElement(el, before),
           \A h \in before : \E g \in after : g.kind = h.kind
    PROVE  validateExtensionElement(Trip(el), after)
<1>1. PICK t : t = Trip(el)
  OBVIOUS
<1>2. t.kind = el.kind /\ t.fields = el.fields \cap (Attributes \cup Once)
  BY <1>1 DEF Trip
<1>3. "attachedToRef" \in Attributes /\ "calledElement" \in Attributes
  BY DEF Attributes
<1>4. needsEventDefXML(el.kind) => ValidateEventDefinition(t)
  BY <1>1, EventAgain DEF validateExtensionElement
<1>5. el.kind = "boundaryEvent" =>
        /\ "attachedToRef" \in t.fields
        /\ \E h \in after : h.kind \notin {"boundaryEvent", "startEvent", "endEvent"}
  BY <1>2, <1>3 DEF validateExtensionElement
<1>6. el.kind = "callActivity" => "calledElement" \in t.fields
  BY <1>2, <1>3 DEF validateExtensionElement
<1> QED
  BY <1>1, <1>2, <1>4, <1>5, <1>6 DEF validateExtensionElement

\* Parse accepts what it wrote as it accepted the original, but for a bare "<" and
\* the instructions of automated tasks that were written twice.
LEMMA AcceptedAgain ==
    ASSUME NEW d \in ProcessDefinitions, Validate(d)
    PROVE  /\ Known(d)
           /\ Garbled(d) <=> HasLess(d)
           /\ Acceptable(Returned(d)) <=> ~(HasLess(d) \/ Wiped(d))
<1>1. Known(d)
  BY DEF Validate, Known
<1>2. Garbled(d) <=> HasLess(d)
  BY DEF Garbled, HasLess, OwnCondition
<1>3. CASE Garbled(d)
  BY <1>1, <1>2, <1>3, ReturnedForm DEF Acceptable
<1>4. CASE ~Garbled(d)
  <2>1. PICK r : r = Image(d)
    OBVIOUS
  <2>2. Returned(d) = r /\ r \in ProcessDefinitions
    BY <1>1, <1>4, <2>1, ReturnedForm, ImageSettles
  <2>3. r # Unreadable
    BY <2>2, ExchangeAssumption DEF ExchangeAssumption
  <2>4. Validate(r) <=> ~Wiped(d)
    <3>1. PICK es : es = d.elements
      OBVIOUS
    <3>2. /\ r.id = d.id /\ r.lanes = d.lanes /\ r.flow = d.flow
          /\ r.collaboration = TripCollaboration(d.collaboration, d.id)
          /\ r.elements = [n \in DOMAIN es |-> Trip(es[n])]
      BY <2>1, <3>1 DEF Image
    <3>3. PICK ts : ts = r.elements
      OBVIOUS
    <3>4. /\ DOMAIN ts = DOMAIN es /\ DOMAIN es = 1..Len(es) /\ Len(es) \in Nat
          /\ \A n \in DOMAIN es : es[n] \in Elements /\ ts[n] = Trip(es[n])
      BY <3>1, <3>2, <3>3 DEF ProcessDefinitions
    <3>5. \A el : Trip(el).kind = el.kind /\ Trip(el).id = el.id
      BY DEF Trip
    <3>6. /\ d.id # ""
          /\ \E n \in DOMAIN es : es[n].kind = "startEvent"
          /\ \A n \in DOMAIN es :
               /\ isSupportedKind(es[n].kind) /\ ValidateTaskElement(es[n])
               /\ validateExtensionElement(es[n], {es[m] : m \in 1..(n - 1)})
      BY <3>1 DEF Validate
    <3>7. \A n \in DOMAIN es :
            validateExtensionElement(ts[n], {ts[m] : m \in 1..(n - 1)})
      <4> SUFFICES ASSUME NEW n \in DOMAIN es
                   PROVE  validateExtensionElement(ts[n], {ts[m] : m \in 1..(n - 1)})
        OBVIOUS
      <4>1. PICK el, before, after : /\ el = es[n] /\ before = {es[m] : m \in 1..(n - 1)}
                                     /\ after = {ts[m] : m \in 1..(n - 1)}
        OBVIOUS
      <4>2. \A m \in 1..(n - 1) : m \in DOMAIN es
        BY <3>4
      <4>3. \A h \in before : \E g \in after : g.kind = h.kind
        BY <3>4, <3>5, <4>1, <4>2
      <4>4. el \in Elements /\ validateExtensionElement(el, before) /\ ts[n] = Trip(el)
        BY <3>4, <3>6, <4>1
      <4>5. validateExtensionElement(Trip(el), after)
        BY <4>3, <4>4, ExtensionAgain
      <4> QED
        BY <4>1, <4>4, <4>5
    <3>8. (\A n \in DOMAIN es : ValidateTaskElement(ts[n])) <=> ~Wiped(d)
      <4>1. ASSUME NEW n \in DOMAIN es
            PROVE  ValidateTaskElement(ts[n]) <=> ValidateTaskElement([es[n] EXCEPT !.fields = @ \ Twice])
        <5>1. PICK el : el = es[n]
          OBVIOUS
        <5>2. PICK w : w = [el EXCEPT !.fields = @ \ Twice]
          OBVIOUS
        <5>3. el \in Elements /\ ts[n] = Trip(el)
          BY <3>4, <5>1
        <5>4. ValidateTaskElement(Trip(el)) <=> ValidateTaskElement(w)
          BY <5>2, <5>3, TaskAgain
        <5> QED
          BY <5>1, <5>2, <5>3, <5>4, Zenon
      <4>2. Wiped(d) <=> \E n \in DOMAIN es : ~ValidateTaskElement([es[n] EXCEPT !.fields = @ \ Twice])
        BY <3>1, Zenon DEF Wiped
      <4> QED
        BY <4>1, <4>2, Zenon
    <3>9. {ts[n].id : n \in DOMAIN ts} = {es[n].id : n \in DOMAIN es}
      BY <3>4, <3>5
    <3>10. (IF r.collaboration = NoCollaboration THEN {} ELSE r.collaboration.messageFlows)
           \subseteq IF d.collaboration = NoCollaboration THEN {} ELSE d.collaboration.messageFlows
      <4>1. PICK c, e, id : c = r.collaboration /\ e = d.collaboration /\ id = d.id
        OBVIOUS
      <4>2. e \in Pools \cup {NoCollaboration} /\ id \in Texts /\ id # ""
        BY <3>6, <4>1 DEF ProcessDefinitions
      <4>3. c = TripCollaboration(e, id)
        BY <3>2, <4>1
      <4>4. c # NoCollaboration => e # NoCollaboration /\ c.messageFlows = e.messageFlows
        BY <4>2, <4>3, CollaborationSettles
      <4> QED
        BY <4>1, <4>4
    <3>11. d.lanes \cup d.flow.ends \cup
             (IF d.collaboration = NoCollaboration THEN {} ELSE d.collaboration.messageFlows)
           \subseteq {es[n].id : n \in DOMAIN es}
      BY <3>1 DEF Validate
    <3>12. r.lanes \cup r.flow.ends \cup
             (IF r.collaboration = NoCollaboration THEN {} ELSE r.collaboration.messageFlows)
           \subseteq {ts[n].id : n \in DOMAIN ts}
      BY <3>2, <3>9, <3>10, <3>11
    <3>13. /\ r.id # "" /\ \E n \in DOMAIN ts : ts[n].kind = "startEvent"
           /\ \A n \in DOMAIN ts : isSupportedKind(ts[n].kind)
      BY <3>2, <3>4, <3>5, <3>6
    <3>14. Validate(r) <=> \A n \in DOMAIN ts : ValidateTaskElement(ts[n])
      <4>1. Validate(r) => \A n \in DOMAIN ts : ValidateTaskElement(ts[n])
        BY <3>3 DEF Validate
      <4>2. ASSUME \A n \in DOMAIN ts : ValidateTaskElement(ts[n]) PROVE Validate(r)
        <5>1. /\ r.id # ""
              /\ \E n \in DOMAIN r.elements : r.elements[n].kind = "startEvent"
          BY <3>3, <3>13
        <5>2. \A n \in DOMAIN r.elements :
                /\ isSupportedKind(r.elements[n].kind)
                /\ ValidateTaskElement(r.elements[n])
                /\ validateExtensionElement(r.elements[n], {r.elements[m] : m \in 1..(n - 1)})
          <6>1. \A n \in DOMAIN ts :
                  /\ isSupportedKind(ts[n].kind)
                  /\ ValidateTaskElement(ts[n])
                  /\ validateExtensionElement(ts[n], {ts[m] : m \in 1..(n - 1)})
            BY <3>4, <3>7, <3>13, <4>2, Zenon
          <6> QED
            BY <3>3, <6>1, Zenon
        <5>3. r.lanes \cup r.flow.ends \cup
                (IF r.collaboration = NoCollaboration THEN {} ELSE r.collaboration.messageFlows)
              \subseteq {r.elements[n].id : n \in DOMAIN r.elements}
          BY <3>3, <3>12
        <5> QED
          BY <5>1, <5>2, <5>3 DEF Validate
      <4> QED
        BY <4>1, <4>2
    <3> QED
      BY <3>4, <3>8, <3>14
  <2> QED
    BY <1>1, <1>2, <1>4, <2>2, <2>3, <2>4 DEF Acceptable
<1> QED
  BY <1>3, <1>4

-----------------------------------------------------------------------------
(* What the engine routes by *)

\* The part of the skeleton that is one element's.
Bones(el) ==
    [id |-> el.id, kind |-> el.kind, fields |-> el.fields \cap (Attributes \cup Once),
     auto |-> el.auto, script |-> el.script,
     event |-> IF el.event = NoEvent \/ ~needsEventDefXML(el.kind) THEN <<"none", FALSE>>
               ELSE <<el.event.type, el.event.ref>>]

\* An element keeps its part of the skeleton.
LEMMA TripBones ==
    ASSUME NEW el \in Elements
    PROVE  Bones(Trip(el)) = Bones(el)
<1>1. PICK t, ev : t = Trip(el) /\ ev = TripEvent(el)
  OBVIOUS
<1>2. /\ t.id = el.id /\ t.kind = el.kind /\ t.fields = el.fields \cap (Attributes \cup Once)
      /\ t.script = el.script /\ t.auto = el.auto /\ t.event = ev
  BY <1>1 DEF Trip
<1>3. t.fields \cap (Attributes \cup Once) = el.fields \cap (Attributes \cup Once)
  BY <1>2
<1>4. (IF t.event = NoEvent \/ ~needsEventDefXML(t.kind) THEN <<"none", FALSE>>
       ELSE <<t.event.type, t.event.ref>>)
      = IF el.event = NoEvent \/ ~needsEventDefXML(el.kind) THEN <<"none", FALSE>>
        ELSE <<el.event.type, el.event.ref>>
  <2>1. CASE ~needsEventDefXML(el.kind)
    BY <1>2, <2>1
  <2>2. CASE needsEventDefXML(el.kind)
    <3>1. ev # NoEvent
      BY <1>1, <2>2, TripSettles
    <3>2. /\ ev.type = IF el.event = NoEvent THEN "none" ELSE el.event.type
          /\ ev.ref = (el.event # NoEvent /\ el.event.ref)
      BY <1>1, <2>2 DEF TripEvent
    <3>3. CASE el.event = NoEvent
      <4>1. ev.type = "none" /\ ev.ref = FALSE
        BY <3>2, <3>3
      <4> QED
        BY <1>2, <2>2, <3>1, <3>3, <4>1
    <3>4. CASE el.event # NoEvent
      <4>1. el.event.ref \in BOOLEAN
        BY <3>4 DEF Elements, EventDefs
      <4>2. ev.type = el.event.type /\ ev.ref = el.event.ref
        BY <3>2, <3>4, <4>1
      <4> QED
        BY <1>2, <2>2, <3>1, <3>4, <4>2
    <3> QED
      BY <3>3, <3>4
  <2> QED
    BY <2>1, <2>2
<1>5. Bones(t) = Bones(el)
  BY <1>2, <1>3, <1>4 DEF Bones
<1> QED
  BY <1>1, <1>5

\* A definition keeps its skeleton.
LEMMA ImageSkeleton ==
    ASSUME NEW d \in ProcessDefinitions
    PROVE  Skeleton(Image(d)) = Skeleton(d)
<1>1. PICK es, r, ts : es = d.elements /\ r = Image(d) /\ ts = r.elements
  OBVIOUS
<1>2. /\ r.lanes = d.lanes /\ r.data = d.data /\ r.flow = d.flow
      /\ r.elements = [n \in DOMAIN es |-> Trip(es[n])]
  BY <1>1 DEF Image
<1>3. DOMAIN ts = DOMAIN es /\ \A n \in DOMAIN es : es[n] \in Elements /\ ts[n] = Trip(es[n])
  BY <1>1, <1>2 DEF ProcessDefinitions
<1>4. \A n \in DOMAIN es : Bones(ts[n]) = Bones(es[n])
  <2> SUFFICES ASSUME NEW n \in DOMAIN es PROVE Bones(ts[n]) = Bones(es[n])
    OBVIOUS
  <2>1. PICK el : el = es[n]
    OBVIOUS
  <2>2. el \in Elements /\ ts[n] = Trip(el)
    BY <1>3, <2>1
  <2>3. Bones(Trip(el)) = Bones(el)
    BY <2>2, TripBones
  <2> QED
    BY <2>1, <2>2, <2>3, Zenon
<1>5. \A c : Skeleton(c) = [elements |-> [n \in DOMAIN c.elements |-> Bones(c.elements[n])],
                            flow |-> c.flow, lanes |-> c.lanes, data |-> c.data]
  BY DEF Skeleton, Bones
<1>6. [n \in DOMAIN ts |-> Bones(ts[n])] = [n \in DOMAIN es |-> Bones(es[n])]
  BY <1>3, <1>4, Zenon
<1>7. Skeleton(r) = [elements |-> [n \in DOMAIN ts |-> Bones(ts[n])],
                     flow |-> r.flow, lanes |-> r.lanes, data |-> r.data]
  BY <1>1, <1>5, Zenon
<1>8. Skeleton(d) = [elements |-> [n \in DOMAIN es |-> Bones(es[n])],
                     flow |-> d.flow, lanes |-> d.lanes, data |-> d.data]
  BY <1>1, <1>5, Zenon
<1>9. Skeleton(r) = Skeleton(d)
  BY <1>2, <1>6, <1>7, <1>8, Zenon
<1> QED
  BY <1>1, <1>9

-----------------------------------------------------------------------------
(* Any number of trips *)

\* The original is what was deployed, until the first trip; from then on what
\* comes back from it is.  A refusal is the first trip's.
ExchangeInv ==
    /\ original \in ProcessDefinitions /\ Validate(original)
    /\ trips \in Nat /\ rejected \in BOOLEAN
    /\ trips = 0 => deployed = original /\ ~rejected
    /\ trips > 0 /\ ~rejected => deployed = Returned(original) /\ Acceptable(deployed)
    /\ rejected => deployed = original /\ ~Acceptable(Returned(original))
    /\ trips > 1 /\ ~rejected => earlier = Returned(original)
    /\ text # NoText => text = Marshal(deployed) /\ ~rejected

\* The first deployment.
LEMMA InitExchange == Init => ExchangeInv
<1> SUFFICES ASSUME Init PROVE ExchangeInv
  OBVIOUS
<1>1. deployed \in ProcessDefinitions \cup {Unreadable}
  <2>1. CASE \E D \in JSONDefinitions : deployed \in D
    BY <2>1, ExchangeAssumption DEF ExchangeAssumption
  <2>2. CASE \E U \in Uploads : \E doc \in U : deployed = Parse(doc)
    BY <2>2, ExchangeAssumption DEF ExchangeAssumption
  <2> QED
    BY <2>1, <2>2 DEF Init
<1>2. deployed # Unreadable /\ Validate(deployed)
  BY DEF Init, Acceptable
<1>3. /\ original = deployed /\ text = NoText /\ trips = 0 /\ rejected = FALSE
      /\ original \in ProcessDefinitions /\ Validate(original)
  BY <1>1, <1>2 DEF Init
<1>4. trips \in Nat /\ ~(trips > 0) /\ ~(trips > 1)
  BY <1>3
<1> QED
  BY <1>3, <1>4, Zenon DEF ExchangeInv

\* Reading the document changes nothing, and deploying it only the first time.
LEMMA NextExchange == ExchangeInv /\ [Next]_vars => ExchangeInv'
<1> SUFFICES ASSUME ExchangeInv, [Next]_vars PROVE ExchangeInv'
  OBVIOUS
<1>1. CASE writeProcessXML
  BY <1>1 DEF writeProcessXML, ExchangeInv
<1>2. CASE Deploy
  <2>1. PICK r : r = Returned(original)
    OBVIOUS
  <2>2. text = Marshal(deployed) /\ ~rejected /\ trips' = trips + 1 /\ text' = NoText
        /\ original' = original
    BY <1>2 DEF Deploy, ExchangeInv
  <2>3. Known(original) /\ original \in ProcessDefinitions
    BY AcceptedAgain DEF ExchangeInv
  <2>4. Parse(text) = r
    <3>1. CASE trips = 0
      BY <2>1, <2>2, <3>1 DEF ExchangeInv, Returned
    <3>2. CASE trips > 0
      <4>1. deployed = r /\ r # Unreadable
        BY <2>1, <2>2, <3>2 DEF ExchangeInv, Acceptable
      <4>2. Returned(r) = r
        BY <2>1, <2>3, <4>1, ReturnedSettles
      <4> QED
        BY <2>2, <4>1, <4>2 DEF Returned
    <3> QED
      BY <3>1, <3>2 DEF ExchangeInv
  <2>5. IF Acceptable(r) THEN earlier' = deployed /\ deployed' = r /\ rejected' = rejected
        ELSE rejected' = TRUE /\ deployed' = deployed
    BY <1>2, <2>4 DEF Deploy
  <2>6. CASE Acceptable(r)
    <3>1. Acceptable(deployed)'
      BY <2>5, <2>6 DEF Acceptable
    <3>2. trips > 0 => deployed = r
      BY <2>1, <2>2 DEF ExchangeInv
    <3> QED
      BY <2>1, <2>2, <2>5, <2>6, <3>1, <3>2 DEF ExchangeInv
  <2>7. CASE ~Acceptable(r)
    <3>1. trips = 0
      BY <2>1, <2>2, <2>7 DEF ExchangeInv
    <3>2. trips' \in Nat /\ trips' # 0
      BY <2>2, <3>1
    <3>3. rejected' = TRUE /\ deployed' = original' /\ ~Acceptable(Returned(original))'
      BY <2>1, <2>2, <2>5, <2>7, <3>1 DEF ExchangeInv, Acceptable
    <3>4. original' \in ProcessDefinitions /\ Validate(original)'
      BY <2>2 DEF ExchangeInv
    <3> QED
      BY <2>2, <3>2, <3>3, <3>4, Zenon DEF ExchangeInv
  <2> QED
    BY <2>6, <2>7
<1>3. CASE UNCHANGED vars
  BY <1>3 DEF vars, ExchangeInv, Acceptable
<1> QED
  BY <1>1, <1>2, <1>3 DEF Next

\* The losses of the codec are those of one trip: Parse(Marshal(d)) is a fixed
\* point of the codec for every definition that can be deployed, so neither
\* clients nor restarts of the file store wear a definition down.
THEOREM LossesEnd == Spec => []SettlesAfterOneTrip
<1>1. ExchangeInv => SettlesAfterOneTrip
  BY DEF ExchangeInv, SettlesAfterOneTrip
<1> QED
  BY <1>1, InitExchange, NextExchange, PTL DEF Spec

\* Whatever the definition and however often it travels, the elements, their kinds,
\* attributes and events, and the flows the engine routes by are those first
\* deployed.
THEOREM RoutingSurvives == Spec => []SkeletonSurvives
<1>1. ExchangeInv => SkeletonSurvives
  <2> SUFFICES ASSUME ExchangeInv PROVE Skeleton(deployed) = Skeleton(original)
    BY DEF SkeletonSurvives
  <2>1. CASE deployed = original
    BY <2>1
  <2>2. CASE deployed = Returned(original) /\ Acceptable(deployed)
    <3>1. Known(original) /\ original \in ProcessDefinitions /\ Returned(original) # Unreadable
      BY <2>2, AcceptedAgain DEF ExchangeInv, Acceptable
    <3>2. deployed = Image(original)
      BY <2>2, <3>1, ReturnedSettles
    <3> QED
      BY <3>1, <3>2, ImageSkeleton
  <2> QED
    BY <2>1, <2>2 DEF ExchangeInv
<1> QED
  BY <1>1, InitExchange, NextExchange, PTL DEF Spec

\* The server refuses its own XML exactly when a condition holds a bare "<" or an
\* automated task has its only instruction in a field that is written twice, and
\* then on the first trip.
THEOREM RefusalsExplained == Spec => []RefusedOnlyIfWiped
<1>1. ExchangeInv => RefusedOnlyIfWiped
  <2> SUFFICES ASSUME ExchangeInv, trips > 0
               PROVE  rejected <=> HasLess(original) \/ Wiped(original)
    BY DEF RefusedOnlyIfWiped
  <2>1. Acceptable(Returned(original)) <=> ~(HasLess(original) \/ Wiped(original))
    BY AcceptedAgain DEF ExchangeInv
  <2>2. rejected <=> ~Acceptable(Returned(original))
    BY DEF ExchangeInv
  <2> QED
    BY <2>1, <2>2
<1> QED
  BY <1>1, InitExchange, NextExchange, PTL DEF Spec
=============================================================================
