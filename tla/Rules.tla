------------------------------- MODULE Rules -------------------------------
(***************************************************************************)
(* Automation that is not a flow: the metadata of an object's rules as the *)
(* extractors normalise it (extract/categories/) and the definitions built *)
(* of it (understand/process_ir.py), one per rule or group of entries.     *)
(*                                                                         *)
(* Abstracted: a criterion is [field, op, right], a formula the set of     *)
(* fields it names; an Apex class or trigger is what its analysis says     *)
(* (the analysis is not modelled); labels, offsets and addresses are left  *)
(* out.                                                                    *)
(***************************************************************************)
EXTENDS ProcessIR

\* as_bool.
AsBool(v, default) == IF v = None THEN default ELSE v = "true"
Or(v, default) == IF v = None THEN default ELSE v

Names(list) == {list[i].name : i \in DOMAIN list}
\* A dictionary by name: of two entries with one name the later counts.
ByName(list, n) == list[CHOOSE i \in DOMAIN list : list[i].name = n /\ \A j \in i+1..Len(list) : list[j].name # n]

------------------------------------------------------------------------------
(* Criteria: [items, formula].                                              *)

\* criteria_fields and the formula's references: what the graph is told.
CriteriaFields(object, when) ==
    {Qualified(object, i.field) : i \in when.items}
    \cup {Qualified(object, i.right[2]) : i \in {x \in when.items : x.right[1] = "ref"}}
    \cup {Qualified(object, f) : f \in when.formula}

Operator(op) ==
    CASE op = "equals" -> "EqualTo" [] op = "notEqual" -> "NotEqualTo"
      [] op = "lessThan" -> "LessThan" [] op = "greaterThan" -> "GreaterThan"
      [] op = "lessOrEqual" -> "LessThanOrEqualTo" [] op = "greaterOrEqual" -> "GreaterThanOrEqualTo"
      [] op = "contains" -> "Contains" [] op = "notContain" -> "DoesNotContain"
      [] op = "startsWith" -> "StartsWith" [] op = "includes" -> "Includes"
      [] op = "excludes" -> "Excludes" [] OTHER -> op
\* _criteria_group: a formula is one condition without a field.
CriteriaGroup(object, when) ==
    IF when.formula # {} THEN {}
    ELSE {[left |-> Qualified(object, i.field), op |-> Operator(i.op), right |-> i.right] : i \in when.items}
Lefts(group) == {c.left : c \in group}

------------------------------------------------------------------------------
(* Definitions.                                                             *)

Written(steps) == UNION {s.fields : s \in {x \in ToSet(steps) : x.kind = "update"}}
RuleDefinition(name, kind, trigger, steps, reads, active) ==
    [name |-> name, kind |-> kind, trigger |-> trigger, steps |-> steps,
     entry |-> IF steps = <<>> THEN None ELSE steps[1].id,
     reads |-> reads \ Written(steps), writes |-> Written(steps), calls |-> {}, active |-> active]
OnSave(object, events, timing, when, changed) ==
    [kind |-> "record_save", object |-> object, events |-> events, timing |-> timing,
     when |-> when, changed |-> changed]
NamedStep(id, kind, next, target) ==
    [Step EXCEPT !.id = id, !.kind = kind, !.next = next, !.target = target]

------------------------------------------------------------------------------
(* Workflow rules.                                                          *)

\* WorkflowRuleExtractor: the rules and the actions they name, and what the
\* graph is told of them.  Alerts come in two spellings.
ExtractWorkflow(f) ==
    [object |-> f.object, updates |-> f.fieldUpdates, alerts |-> f.alerts \o f.emailAlerts,
     tasks |-> f.tasks, messages |-> f.outboundMessages, flows |-> f.flowActions,
     rules |-> [i \in DOMAIN f.rules |->
        [f.rules[i] EXCEPT !.active = AsBool(@, TRUE), !.type = Or(@, "onCreateOnly")]],
     fields |-> (UNION {CriteriaFields(f.object, r.when) : r \in ToSet(f.rules)})
        \cup {Qualified(f.object, u.field) : u \in ToSet(f.fieldUpdates)}
        \cup (UNION {{Qualified(f.object, g) : g \in u.formula} : u \in ToSet(f.fieldUpdates)})
        \cup UNION {{Qualified(f.object, g) : g \in m.fields} : m \in ToSet(f.outboundMessages)},
     written |-> {Qualified(f.object, u.field) : u \in ToSet(f.fieldUpdates)}]

\* action_steps: what an action's name stands for; a flow action's target is
\* the action's name, not its flow's.
FieldUpdate(raw, id, a) ==
    LET u == ByName(raw.updates, a.name)
        object == Or(u.object, raw.object)
        q == Qualified(object, u.field) IN
    [NamedStep(id, "update", None, None) EXCEPT !.object = object, !.fields = {q},
                                               !.inputs = [f \in {q} |-> u.value]]
Alert(raw, id, a) ==
    IF a.name \in Names(raw.alerts)
    THEN LET alert == ByName(raw.alerts, a.name) IN
         [NamedStep(id, "notify", None, Or(alert.template, a.name)) EXCEPT !.items = alert.recipients]
    ELSE NamedStep(id, "notify", None, a.name)
ActionStep(raw, id, a) ==
    CASE a.type = "FieldUpdate" /\ a.name \in Names(raw.updates) -> FieldUpdate(raw, id, a)
      [] a.type = "Alert" -> Alert(raw, id, a)
      [] a.type = "Task" ->
            [NamedStep(id, "task", None,
                IF a.name \in Names(raw.tasks) THEN ByName(raw.tasks, a.name).to ELSE None)
             EXCEPT !.object = "Task"]
      [] a.type = "OutboundMessage" /\ a.name \in Names(raw.messages) ->
            LET m == ByName(raw.messages, a.name) IN
            [NamedStep(id, "call_action", None, Or(m.endpoint, a.name)) EXCEPT
                !.fields = {Qualified(raw.object, f) : f \in m.fields}]
      [] a.type = "FlowAction" -> NamedStep(id, "call_process", None, a.name)
      [] OTHER -> NamedStep(id, "call_action", None, a.name)

\* The immediate actions in a chain, then a wait and the actions of each time
\* trigger, which nothing leads to.  Mutant: the waits without their actions.
WaitsOnly(raw, rule) ==
    LET now == [i \in DOMAIN rule.immediate |->
                  ActionStep(raw, "a" \o ToString(i) \o "_" \o rule.immediate[i].name, rule.immediate[i])] IN
    [i \in DOMAIN now |-> IF i < Len(now) THEN [now[i] EXCEPT !.next = now[i + 1].id] ELSE now[i]]
    \o [k \in DOMAIN rule.timed |-> NamedStep("wait" \o ToString(k), "wait", None, None)]
WorkflowSteps(raw, rule) ==
    LET id(prefix, i, a) == prefix \o ToString(i) \o "_" \o a.name
        steps(prefix, actions) ==
            [i \in DOMAIN actions |-> ActionStep(raw, id(prefix, i, actions[i]), actions[i])]
        now == steps("a", rule.immediate)
        chained == [i \in DOMAIN now |->
                      IF i < Len(now) THEN [now[i] EXCEPT !.next = now[i + 1].id] ELSE now[i]]
        timed(k) == <<NamedStep("wait" \o ToString(k), "wait", None, None)>>
                    \o steps("t" \o ToString(k) \o "_", rule.timed[k]) IN
    chained \o FlattenSeq([k \in DOMAIN rule.timed |-> timed(k)])

\* _from_workflow.
WorkflowDefinition(raw, rule) ==
    LET when == CriteriaGroup(raw.object, rule.when)
        events == IF rule.type = "onCreateOnly" THEN <<"create">> ELSE <<"create", "update">>
        actions == ToSet(rule.immediate) \cup UNION {ToSet(rule.timed[k]) : k \in DOMAIN rule.timed} IN
    [RuleDefinition(<<raw.object, rule.name>>, "workflow_rule",
        OnSave(raw.object, events, "after", when, rule.type = "onCreateOrTriggeringUpdate"),
        WorkflowSteps(raw, rule), Lefts(when), rule.active)
     EXCEPT !.calls = {<<a.type, a.name>> : a \in {x \in actions : x.type \in {"OutboundMessage", "FlowAction"}}}]

------------------------------------------------------------------------------
(* Entry rules: assignment, escalation, auto-response.                      *)

Owner(object) == <<object, "OwnerId">>

\* AssignmentRuleExtractor and its two siblings.  Mutant: a group's entries
\* under their other name are passed over.
EntriesOnce(f) ==
    [object |-> f.object,
     groups |-> [i \in DOMAIN f.groups |->
        [name |-> f.groups[i].name, active |-> AsBool(f.groups[i].active, TRUE),
         entries |-> f.groups[i].ruleEntry]],
     fields |-> (UNION {UNION {CriteriaFields(f.object, e.when) : e \in ToSet(g.ruleEntry)} : g \in ToSet(f.groups)})
        \cup (IF f.kind = "assignment_rule" THEN {Owner(f.object)} ELSE {}),
     written |-> IF f.kind = "assignment_rule" THEN {Owner(f.object)} ELSE {}]
ExtractEntries(f) ==
    LET entries(g) == g.ruleEntry \o g.ruleEntries IN
    [object |-> f.object,
     groups |-> [i \in DOMAIN f.groups |->
        [name |-> f.groups[i].name, active |-> AsBool(f.groups[i].active, TRUE),
         entries |-> entries(f.groups[i])]],
     fields |-> (UNION {UNION {CriteriaFields(f.object, e.when) : e \in ToSet(entries(g))} : g \in ToSet(f.groups)})
        \cup (IF f.kind = "assignment_rule" THEN {Owner(f.object)} ELSE {}),
     written |-> IF f.kind = "assignment_rule" THEN {Owner(f.object)} ELSE {}]

Entry(i) == "entry" \o ToString(i)
EntryId(i, what) == Entry(i) \o what

Assignments(object, i, entry) ==
    LET assign == [NamedStep(Entry(i), "update", None, entry.to) EXCEPT
            !.object = object, !.fields = {Owner(object)},
            !.inputs = [f \in {Owner(object)} |-> <<Or(entry.type, "User"), entry.to>>]]
        notify == EntryId(i, "_notify") IN
    IF entry.template = None THEN <<assign>>
    ELSE <<[assign EXCEPT !.next = notify], NamedStep(notify, "notify", None, entry.template)>>
\* The waits and escalations of one entry, each leading to the next.
Escalations(object, i, entry) ==
    LET n == Len(entry.actions)
        waitId(j) == EntryId(i, "_wait" \o ToString(j))
        escalateId(j) == EntryId(i, "_escalate" \o ToString(j))
        wait(j) == NamedStep(waitId(j), "wait", escalateId(j), None)
        escalate(j) ==
            [NamedStep(escalateId(j), "escalate", IF j < n THEN waitId(j + 1) ELSE None, entry.actions[j])
             EXCEPT !.object = object, !.fields = IF entry.actions[j] = None THEN {} ELSE {Owner(object)}] IN
    FlattenSeq([j \in 1..n |-> <<wait(j), escalate(j)>>])
EntrySteps(kind, object, i, entry) ==
    CASE kind = "assignment_rule" -> Assignments(object, i, entry)
      [] kind = "escalation_rule" -> Escalations(object, i, entry)
      [] kind = "auto_response_rule" -> <<NamedStep(Entry(i), "notify", None, entry.template)>>

\* _entry_rules: one decision, a branch per entry, and each entry's own steps.
EntryDefinition(kind, object, group) ==
    LET entries == group.entries
        when(i) == CriteriaGroup(object, entries[i].when)
        branch(i) == [name |-> Entry(i), when |-> when(i), next |-> Entry(i)]
        match == [NamedStep("match", "decision", None, None) EXCEPT
                    !.branches = [i \in DOMAIN entries |-> branch(i)]] IN
    RuleDefinition(<<object, group.name>>, kind,
        OnSave(object, IF kind = "escalation_rule" THEN <<"create", "update">> ELSE <<"create">>,
               "after", {}, FALSE),
        <<match>> \o FlattenSeq([i \in DOMAIN entries |-> EntrySteps(kind, object, i, entries[i])]),
        UNION {Lefts(when(i)) : i \in DOMAIN entries}, group.active)

------------------------------------------------------------------------------
(* Validation rules and approval processes.                                 *)

\* ValidationRuleExtractor, _from_validation.
ValidationDefinition(f) ==
    LET reject == [NamedStep("reject", "raise_error", None, None) EXCEPT
            !.object = f.object, !.fields = IF f.display = None THEN {} ELSE {<<f.object, f.display>>}] IN
    RuleDefinition(<<f.object, f.name>>, "validation_rule",
        OnSave(f.object, <<"create", "update">>, "before", {}, FALSE), <<reject>>,
        {Qualified(f.object, g) : g \in f.formula}, AsBool(f.active, TRUE))

\* ApprovalProcessExtractor, _from_approval: the steps in a chain, then what
\* happens on each outcome that has actions, which no step leads to.
Approver(a) == IF a.name = None /\ a.type = "userHierarchyField" THEN [a EXCEPT !.name = "Manager"] ELSE a
ApprovalDefinition(f) ==
    LET when == CriteriaGroup(f.object, f.when)
        id(i) == Or(f.steps[i].name, "step" \o ToString(i))
        step(i) == [NamedStep(id(i), "approval_step", IF i < Len(f.steps) THEN id(i + 1) ELSE None, None)
                    EXCEPT !.object = f.object, !.items = {Approver(a) : a \in f.steps[i].approvers}]
        acts == Kept(<<"approved", "rejected", "recalled", "submitted">>,
                     LAMBDA o : f.outcomes[o] # {})
        outcome(o) == [NamedStep(o, "call_action", None, None) EXCEPT !.items = f.outcomes[o]] IN
    RuleDefinition(<<f.object, f.name>>, "approval_process",
        [OnSave(f.object, <<>>, None, when, FALSE) EXCEPT !.kind = "approval_submit"],
        [i \in DOMAIN f.steps |-> step(i)] \o [i \in DOMAIN acts |-> outcome(acts[i])],
        UNION {Lefts(CriteriaGroup(f.object, w)) : w \in {f.when} \cup {s.when : s \in ToSet(f.steps)}},
        AsBool(f.active, TRUE))

------------------------------------------------------------------------------
(* Apex: its effects, in no order that anything leads along (_from_apex).   *)

DmlKind(op) == CASE op = "insert" -> "create" [] op = "delete" -> "delete" [] OTHER -> "update"
ApexSteps(c) ==
    LET seq(set, step(_)) == LET s == SetToSeq(set) IN [i \in DOMAIN s |-> step(s[i])]
        lookup(o) == [NamedStep("q_" \o o, "lookup", None, None) EXCEPT !.object = o]
        dml(x) == [NamedStep("dml_" \o x.op, DmlKind(x.op), None, None) EXCEPT !.object = x.object] IN
    seq(c.soql, lookup) \o seq(c.dml, dml)
    \o seq(c.classes, LAMBDA n : NamedStep("call_" \o n, "call_code", None, n))
    \o seq(c.async, LAMBDA n : NamedStep("async_" \o n, "call_code", None, n))
    \o seq(c.credentials, LAMBDA n : NamedStep("callout_" \o n, "call_action", None, n))
ApexDefinition(c) ==
    [RuleDefinition(<<None, c.name>>, c.kind,
        IF c.kind = "apex_trigger"
        THEN OnSave(c.object, c.events, c.timing, {}, FALSE)
        ELSE [OnSave(None, <<>>, None, {}, FALSE) EXCEPT !.kind = "invocation"],
        ApexSteps(c), c.fields \ c.written, c.status = "Active")
     EXCEPT !.writes = c.written,
            !.calls = c.classes \cup c.async \cup {"callout:" \o n : n \in c.credentials}]

\* build_process.
BuildProcess(f) ==
    CASE f.kind = "workflow_rule" ->
            LET raw == ExtractWorkflow(f) IN
            [i \in DOMAIN raw.rules |-> WorkflowDefinition(raw, raw.rules[i])]
      [] f.kind \in {"assignment_rule", "escalation_rule", "auto_response_rule"} ->
            LET raw == ExtractEntries(f) IN
            [i \in DOMAIN raw.groups |-> EntryDefinition(f.kind, f.object, raw.groups[i])]
      [] f.kind = "validation_rule" -> <<ValidationDefinition(f)>>
      [] f.kind = "approval_process" -> <<ApprovalDefinition(f)>>
      [] f.kind \in {"apex_class", "apex_trigger"} -> IF f.test THEN <<>> ELSE <<ApexDefinition(f)>>

=============================================================================
