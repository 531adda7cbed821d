------------------------------- MODULE Health -------------------------------
(***************************************************************************)
(* Static health checks over the definitions (understand/health.py): what  *)
(* the org would otherwise be the first to report.  A finding is           *)
(* [code, severity, component, object, about].                             *)
(*                                                                         *)
(* Abstracted: messages and the order of the findings; names are compared  *)
(* as they are, and a literal is one value, never a list.                  *)
(***************************************************************************)
EXTENDS Rules, FiniteSets

FlowKinds == {"record_triggered_flow", "autolaunched_flow", "schedule_triggered_flow",
    "platform_event_triggered_flow", "screen_flow"}
IsFlow(d) == d.kind \in FlowKinds

Label(d) == IF IsFlow(d) THEN <<None, d.name>> ELSE d.name
Finding(code, severity, component, object, about) ==
    [code |-> code, severity |-> severity, component |-> component, object |-> object, about |-> about]

------------------------------------------------------------------------------
(* Picklists.                                                               *)

\* _lookup_field: "$Record.F" names no object of the schema; a name without a
\* dot is a field of the object at hand, were it a variable's.
LookupField(fields, object, left) ==
    LET o == IF left[1] \in {None, "var"} THEN object ELSE left[1] IN
    IF o \in DOMAIN fields THEN {fields[o][f] : f \in {left[2]} \cap DOMAIN fields[o]} ELSE {}

\* The values a literal may not have, of a picklist whose values are known.
Unknown(fields, object, left, value) ==
    /\ value[1] = "s"
    /\ \E node \in LookupField(fields, object, left) :
         /\ node.type = "picklist" /\ node.picklist # <<>>
         /\ ~Contains(node.picklist, value)

\* Of a flow's start, or of a rule's criteria; a formula has no field.
EntryConditions(d) ==
    IF IsFlow(d)
    THEN {[left |-> <<d.trigger.object, c.field>>, op |-> c.op, right |-> c.right] :
            c \in {x \in ToSet(d.trigger.when) : x.field # None}}
    ELSE d.trigger.when
Comparisons == {"EqualTo", "NotEqualTo"}

\* _check_picklists: [where, left, value].
PicklistUses(d) ==
    LET compared(where, conds) ==
            {[where |-> where, left |-> c.left, value |-> c.right] :
                c \in {x \in conds : x.left # None /\ x.op \in Comparisons}}
        branches(s) == UNION {compared(<<s.id, b.name>>, b.when) : b \in {x \in ToSet(s.branches) : x.when # {}}}
        filters(s) == {[where |-> <<s.id, "filter">>, left |-> f, value |-> s.when[f]] : f \in DOMAIN s.when}
        assigned(s) ==
            IF s.kind \notin {"assign", "update", "create"} THEN {}
            ELSE {[where |-> <<s.id, "assigns">>, left |-> f, value |-> s.inputs[f]] :
                    f \in DOMAIN s.inputs} IN
    compared(<<None, "entry">>, EntryConditions(d))
    \cup UNION {branches(s) \cup filters(s) \cup assigned(s) : s \in ToSet(d.steps)}
Picklists(d, fields) ==
    {Finding("picklist_value_unknown", "error", Label(d), d.trigger.object,
             {u.where[1], u.where[2], u.value[2]}) :
        u \in {x \in PicklistUses(d) : Unknown(fields, d.trigger.object, x.left, x.value)}}

------------------------------------------------------------------------------
(* Callouts.                                                                *)

ClassFacts(files) ==
    LET classes == {f \in files : f.kind = "apex_class"} IN
    [n \in {c.name : c \in classes} |-> CHOOSE c \in classes : c.name = n]

\* _check_callouts: the classes a definition runs, and one call further on.
Targets(d) ==
    IF d.kind = "apex_trigger" THEN d.calls
    ELSE {s.target : s \in {x \in ToSet(d.steps) : x.kind = "call_code" /\ x.target # None}}
Callouts(d, classes) ==
    LET finding(code, severity, about) == Finding(code, severity, Label(d), d.trigger.object, about)
        calling(c) == classes[c].callouts # {}
        runs == Targets(d) \cap DOMAIN classes
        inner(c) == {n \in classes[c].classes \cap DOMAIN classes :
                        calling(n) /\ classes[n].async = {}} IN
    IF d.trigger.kind \notin {"record_save", "record_delete"} THEN {}
    ELSE {finding("callout_deferred", "info", {c}) : c \in {x \in runs : calling(x) /\ classes[x].async # {}}}
         \cup {finding("callout_in_save_path", "error", {c}) :
                 c \in {x \in runs : calling(x) /\ classes[x].async = {}}}
         \cup UNION {{finding("callout_in_save_path", "error", {c, n}) : n \in inner(c)} :
                 c \in {x \in runs : ~calling(x)}}

------------------------------------------------------------------------------
(* A second save, faults, owners and triggers.                              *)

\* _touches_record: by its input or a value it takes; filters are not read.
TouchesRecord(s) ==
    \/ s.input = "$Record"
    \/ \E v \in ValuesOf(s.inputs) : v[1] = "record"
UpdatesOwnObject(d, s) == s.kind = "update" /\ s.object # None /\ s.object = d.trigger.object
\* Mutant: only the record-variable form of an update counts.
TouchingByInput(d) ==
    {s \in ToSet(d.steps) : UpdatesOwnObject(d, s) /\ s.input = "$Record"}
Touching(d) ==
    {s \in ToSet(d.steps) : UpdatesOwnObject(d, s) /\ (TouchesRecord(s) \/ s.when = <<>>)}
SameObjectUpdate(d) ==
    LET guarded == d.trigger.when # <<>> \/ d.trigger.changed IN
    IF /\ IsFlow(d) /\ d.trigger.kind = "record_save" /\ d.trigger.timing = "after" /\ Touching(d) # {}
    THEN {Finding("same_object_update_after_save", IF guarded THEN "info" ELSE "warning",
                  Label(d), d.trigger.object, {s.id : s \in Touching(d)})}
    ELSE {}

FaultPaths(d) ==
    LET risky == {s \in ToSet(d.steps) :
                    s.kind \in {"create", "update", "delete", "call_code", "call_action"}} IN
    IF IsFlow(d) /\ risky # {} /\ \A s \in risky : s.fault = None
    THEN {Finding("no_fault_path", "info", Label(d), d.trigger.object, {s.id : s \in risky})}
    ELSE {}

\* _check_owner_alerts: who an alert goes to is known of workflow alerts only.
Queues(ds, object) ==
    UNION {{v[2] : v \in {x \in UNION {ValuesOf(s.inputs) : s \in ToSet(d.steps)} : x[1] = "Queue"}} :
             d \in {x \in ds : x.kind = "assignment_rule" /\ x.trigger.object = object}}
OwnerAlerts(ds) ==
    UNION {{Finding("owner_alert_after_queue_assignment", "warning", Label(d), d.trigger.object, {s.target}) :
              s \in {x \in ToSet(d.steps) : x.kind = "notify" /\ "owner" \in x.items}} :
             d \in {x \in ds : x.trigger.object # None /\ Queues(ds, x.trigger.object) # {}}}

MultipleTriggers(files) ==
    LET triggers == {f \in files : f.kind = "apex_trigger" /\ f.status # "Inactive" /\ f.object # None}
        of(object) == {t.name : t \in {x \in triggers : x.object = object}} IN
    {Finding("multiple_triggers_per_object", "warning", <<None, o>>, o, of(o)) :
        o \in {x \in {t.object : t \in triggers} : Cardinality(of(x)) > 1}}

\* run_health_checks, over what is active.
HealthChecks(ds, files, fields) ==
    (UNION {Picklists(d, fields) \cup Callouts(d, ClassFacts(files))
           \cup SameObjectUpdate(d) \cup FaultPaths(d) : d \in ds})
    \cup OwnerAlerts(ds) \cup MultipleTriggers(files)

=============================================================================
