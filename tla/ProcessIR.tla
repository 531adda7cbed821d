----------------------------- MODULE ProcessIR -----------------------------
(***************************************************************************)
(* From an org's flows to one model of processes: the flow body as         *)
(* the normaliser reads it (extract/categories/flow.py), the definition    *)
(* built of it (understand/process_ir.py, core/process.py),                *)
(* and the flow metadata rendered back from a definition                   *)
(* (knowledge/flow_xml.py).                                                *)
(*                                                                         *)
(* Abstracted: labels, locations and the text of messages; a literal is    *)
(* itself, {ref: "$Record.f"} is <<"record", f>> and any other reference   *)
(* <<"var", v>>; a qualified field is the pair of object and field; a      *)
(* formula is a condition with no field.                                   *)
(***************************************************************************)
EXTENDS Integers, SequencesExt, TLC

None == "none"

(* A flow body.                                                            *)

\* The XML lists elements by type; so do both sources once normalised.
ElementTypes == <<"actionCalls", "apexPluginCalls", "assignments", "collectionProcessors",
    "customErrors", "decisions", "loops", "orchestratedStages", "recordCreates",
    "recordDeletes", "recordLookups", "recordRollbacks", "recordUpdates", "screens",
    "steps", "subflows", "transforms", "waits">>

\* What _element reads, with the values absent keys have.
Element == [kind |-> None, name |-> None, next |-> None, fault |-> None, default |-> None,
    rules |-> <<>>,         \* of a decision, or the events of a wait: [name, when, next]
    after |-> None,         \* noMoreValuesConnector
    object |-> None, ref |-> None, filters |-> <<>>, inputs |-> <<>>, queried |-> {},
    output |-> None, idTo |-> None, first |-> FALSE, target |-> None, action |-> None,
    items |-> {}]           \* screen fields, messages, stage steps

\* SelectSeq, of whose definition the provers know nothing.
Kept(s, Test(_)) == FlattenSeq([i \in DOMAIN s |-> IF Test(s[i]) THEN <<s[i]>> ELSE <<>>])
Normalised(elements) ==
    FlattenSeq([i \in DOMAIN ElementTypes |->
                  Kept(elements, LAMBDA e : e.kind = ElementTypes[i])])

IsRecordKind(k) == k \in {"recordLookups", "recordCreates", "recordUpdates", "recordDeletes"}

\* _references: an element that names no object works on what its input
\* reference is: the record that triggered the flow, or a variable.
TargetObject(b, e) ==
    IF e.object # None \/ ~IsRecordKind(e.kind) THEN e.object
    ELSE IF e.ref = "$Record" THEN b.object
    ELSE IF e.ref \in DOMAIN b.variables THEN b.variables[e.ref]
    ELSE None

------------------------------------------------------------------------------
(* The definition of a flow.                                                *)

Notifying == {"emailAlert", "emailSimple", "chatterPost", "customNotificationAction"}
StepKind(e) ==
    CASE e.kind = "decisions" -> "decision"
      [] e.kind \in {"assignments", "collectionProcessors", "transforms"} -> "assign"
      [] e.kind = "recordLookups" -> "lookup"
      [] e.kind = "recordCreates" -> "create"
      [] e.kind = "recordUpdates" -> "update"
      [] e.kind = "recordDeletes" -> "delete"
      [] e.kind = "apexPluginCalls" -> "call_code"
      [] e.kind = "actionCalls" ->
            (CASE e.action = "apex" -> "call_code"
               [] e.action = "flow" -> "call_process"
               [] e.action \in Notifying -> "notify"
               [] OTHER -> "call_action")
      [] e.kind \in {"subflows", "orchestratedStages"} -> "call_process"
      [] e.kind = "screens" -> "screen"
      [] e.kind = "loops" -> "loop"
      [] e.kind = "waits" -> "wait"
      [] e.kind = "customErrors" -> "raise_error"
      [] e.kind = "recordRollbacks" -> "rollback"
      [] OTHER -> None

Step == [id |-> None, kind |-> None, next |-> None, fault |-> None, default |-> None,
    branches |-> <<>>, after |-> None, object |-> None, fields |-> {}, inputs |-> <<>>,
    when |-> <<>>, input |-> None, output |-> None, idTo |-> None, first |-> FALSE,
    target |-> None, action |-> None, items |-> {}]

Qualified(object, f) == [f EXCEPT ![1] = IF @ = None THEN object ELSE @]
QualifiedAll(object, values) ==
    [q \in {Qualified(object, f) : f \in DOMAIN values} |->
        values[CHOOSE f \in DOMAIN values : Qualified(object, f) = q]]

\* _flow_step.  The record-variable form of a create, update or delete counts
\* only when nothing else describes the record.
RecordStep(b, e, s) ==
    LET object == TargetObject(b, e)
        written == QualifiedAll(object, e.inputs) IN
    [s EXCEPT !.object = object, !.when = QualifiedAll(object, e.filters), !.inputs = written,
        !.fields = {Qualified(object, f) : f \in DOMAIN e.filters \cup e.queried} \cup DOMAIN written,
        !.first = e.kind = "recordLookups" /\ e.first,
        !.output = e.output, !.idTo = e.idTo,
        !.input = IF e.kind # "recordLookups" /\ written = <<>> /\ e.filters = <<>>
                  THEN e.ref ELSE None]
FlowStep(b, e) ==
    LET s == [Step EXCEPT !.id = e.name, !.kind = StepKind(e), !.next = e.next,
                !.fault = e.fault, !.default = e.default, !.branches = e.rules,
                !.after = e.after, !.target = e.target, !.inputs = e.inputs,
                !.items = e.items] IN
    CASE IsRecordKind(e.kind) -> RecordStep(b, e, s)
      [] e.kind = "actionCalls" /\ s.kind \in {"notify", "call_action"} -> [s EXCEPT !.action = e.action]
      [] e.kind = "transforms" -> [s EXCEPT !.object = e.object, !.inputs = <<>>]
      [] e.kind = "collectionProcessors" -> [s EXCEPT !.action = "processor"]
      [] OTHER -> s

Steps(b) ==
    LET named == Kept(Normalised(b.elements), LAMBDA e : StepKind(e) # None) IN
    [i \in DOMAIN named |-> FlowStep(b, named[i])]

TriggerKind(b) ==
    CASE b.trigger = "PlatformEvent" -> "platform_event"
      [] b.trigger = "Scheduled" -> "scheduled"
      [] b.trigger \in {"RecordBeforeSave", "RecordAfterSave", "RecordBeforeDelete"} ->
            IF b.events = <<"delete">> THEN "record_delete" ELSE "record_save"
      [] b.trigger = None /\ (\E i \in DOMAIN b.elements : b.elements[i].kind = "screens") -> "screen"
      [] OTHER -> "invocation"

\* _ref_fields: only $Record's fields are schema; a variable's are not.
RecordRefs(host, v) == IF host # None /\ v[1] = "record" THEN {<<host, v[2]>>} ELSE {}
ValuesOf(f) == {f[k] : k \in DOMAIN f}
ReadBy(host, s) ==
    (UNION {RecordRefs(host, v) : v \in ValuesOf(s.inputs) \cup ValuesOf(s.when)})
    \cup (UNION {UNION {RecordRefs(host, c.left) \cup RecordRefs(host, c.right) : c \in br.when}
                  : br \in ToSet(s.branches)})
    \cup (IF s.kind = "lookup" THEN s.fields ELSE {})
WrittenBy(host, s) ==
    CASE s.kind = "assign" -> UNION {RecordRefs(host, to) : to \in DOMAIN s.inputs}
      [] s.kind \in {"create", "update"} -> DOMAIN s.inputs
      [] OTHER -> {}

\* _from_flow.
FlowDefinition(b) ==
    LET steps == Steps(b)
        writes == UNION {WrittenBy(b.object, s) : s \in ToSet(steps)}
        reads == (UNION {ReadBy(b.object, s) : s \in ToSet(steps)})
                 \cup {<<b.object, c.field>> : c \in {x \in ToSet(b.when) : x.field # None}}
        opaque == \E s \in ToSet(steps) :
                    \/ s.kind = "screen"
                    \/ s.kind = "assign" /\ \E v \in ValuesOf(s.inputs) : v[1] \in {"record", "var"}
                    \/ s.kind = "call_action" /\ s.action = "component" IN
    [name |-> b.name, kind |-> b.kind, steps |-> steps,
     trigger |-> [kind |-> TriggerKind(b), object |-> b.object, events |-> b.events,
                  timing |-> CASE b.trigger = "RecordBeforeSave" -> "before"
                               [] b.trigger \in {"RecordAfterSave", "PlatformEvent"} -> "after"
                               [] OTHER -> None,
                  when |-> b.when, logic |-> b.logic, changed |-> b.changed],
     entry |-> IF b.next # None \/ steps = <<>> THEN b.next ELSE steps[1].id,
     variables |-> b.variables, recordInput |-> b.recordInput,
     reads |-> reads \ writes, writes |-> writes,
     fidelity |-> IF opaque THEN "partial" ELSE "full"]

\* core/process.py, verify/compare.py: a step by its id, and what may follow it.
Ids(d) == {s.id : s \in ToSet(d.steps)}
StepNamed(d, id) == CHOOSE s \in ToSet(d.steps) : s.id = id
Present(names) == names \ {None}
\* Mutant: what follows a fault does not follow the step.
SuccessorsNoFault(s) ==
    Present({s.next, s.default} \cup {br.next : br \in ToSet(s.branches)}
            \cup (IF s.kind = "loop" THEN {s.after} ELSE {}))
Successors(s) ==
    Present({s.next, s.default, s.fault} \cup {br.next : br \in ToSet(s.branches)}
            \cup (IF s.kind = "loop" THEN {s.after} ELSE {}))

------------------------------------------------------------------------------
(* Rendering a definition back to flow metadata.                            *)

Renderable(s) ==
    /\ s.kind \notin {"task", "escalate", "approval_step", "share", "end"}
    /\ ~(s.kind = "assign" /\ s.action = "processor")
    /\ ~(s.kind = "call_process" /\ s.target = None)
    /\ s.kind = "decision" => \A br \in ToSet(s.branches) : \A c \in br.when : c.left # None

Tag(s) ==
    CASE s.kind = "decision" -> "decisions" [] s.kind = "assign" -> "assignments"
      [] s.kind = "lookup" -> "recordLookups" [] s.kind = "create" -> "recordCreates"
      [] s.kind = "update" -> "recordUpdates" [] s.kind = "delete" -> "recordDeletes"
      [] s.kind \in {"call_code", "call_action", "notify"} -> "actionCalls"
      [] s.kind = "call_process" -> "subflows" [] s.kind = "screen" -> "screens"
      [] s.kind = "loop" -> "loops" [] s.kind = "raise_error" -> "customErrors"
      [] s.kind = "rollback" -> "recordRollbacks" [] s.kind = "wait" -> "waits"

\* _render_step.  Only record steps and actions keep their fault connector.
RenderRecord(s, e) ==
    LET byReference == s.kind # "lookup" /\ s.input # None /\ s.inputs = <<>> /\ s.when = <<>> IN
    [e EXCEPT !.next = s.next, !.fault = s.fault, !.filters = s.when,
        !.inputs = IF s.kind \in {"create", "update"} THEN s.inputs ELSE <<>>,
        !.idTo = IF s.kind = "create" THEN s.idTo ELSE None,
        !.ref = IF byReference THEN s.input ELSE None,
        !.object = IF byReference THEN None ELSE s.object,
        !.first = s.kind = "lookup" /\ s.first,
        !.output = IF s.kind = "lookup" THEN s.output ELSE None,
        !.queried = IF s.kind = "lookup" THEN s.fields \ DOMAIN s.when ELSE {}]
\* Mutant: the connector that leaves a loop is forgotten.
RenderNoExit(s) ==
    LET e == [Element EXCEPT !.kind = Tag(s), !.name = s.id] IN
    CASE s.kind = "loop" -> [e EXCEPT !.next = s.next, !.inputs = s.inputs]
      [] s.kind \in {"lookup", "create", "update", "delete"} -> RenderRecord(s, e)
      [] OTHER -> [e EXCEPT !.next = s.next, !.default = s.default, !.rules = s.branches,
                            !.inputs = s.inputs, !.target = s.target]
Render(s) ==
    LET e == [Element EXCEPT !.kind = Tag(s), !.name = s.id] IN
    CASE s.kind \in {"decision", "wait"} -> [e EXCEPT !.default = s.default, !.rules = s.branches]
      [] s.kind \in {"lookup", "create", "update", "delete"} -> RenderRecord(s, e)
      [] s.kind \in {"call_code", "call_action", "notify"} ->
            [e EXCEPT !.next = s.next, !.fault = s.fault, !.target = s.target, !.inputs = s.inputs,
                      !.action = IF s.kind = "call_code" THEN "apex" ELSE s.action]
      [] s.kind \in {"call_process", "assign"} ->
            [e EXCEPT !.next = s.next, !.target = s.target, !.inputs = s.inputs]
      [] s.kind = "loop" -> [e EXCEPT !.next = s.next, !.after = s.after, !.inputs = s.inputs]
      [] OTHER -> [e EXCEPT !.next = s.next, !.items = s.items]

\* _start, to_flow_xml.  Nothing tells when an event's flow starts but its
\* object; only a record's flow or a scheduled one keeps its filters.
RenderedKinds == {"screen_flow", "record_triggered_flow", "autolaunched_flow",
    "schedule_triggered_flow", "platform_event_triggered_flow"}
CanRender(d) == d.kind \in RenderedKinds /\ \A s \in ToSet(d.steps) : Renderable(s)
RenderedBody(d, name) ==
    LET t == d.trigger
        record == t.kind \in {"record_save", "record_delete"} IN
    [name |-> name, kind |-> d.kind,
     elements |-> [i \in DOMAIN d.steps |-> Render(d.steps[i])],
     object |-> IF t.kind = "invocation" THEN None ELSE t.object,
     trigger |-> CASE record /\ t.timing = "before" -> "RecordBeforeSave"
                   [] record /\ t.timing # "before" -> "RecordAfterSave"
                   [] t.kind = "platform_event" -> "PlatformEvent"
                   [] t.kind = "scheduled" -> "Scheduled"
                   [] OTHER -> None,
     events |-> IF record THEN t.events ELSE <<>>,
     when |-> IF record \/ t.kind = "scheduled" THEN t.when ELSE <<>>,
     logic |-> t.logic, changed |-> record /\ t.changed,
     next |-> d.entry, variables |-> d.variables, recordInput |-> d.recordInput]

=============================================================================
