------------------------------ MODULE MCFlow -------------------------------
(* Small orgs for FlowVerify: a flow on Lead whose writes fire a flow on    *)
(* Task, an autolaunched flow with a subflow and a loop, a scheduled flow,  *)
(* flows on Lead that compete for the same field, one that updates its own  *)
(* record, and the object's rules and Apex.                                 *)
EXTENDS FlowVerify

El(kind, name, next) == [Element EXCEPT !.kind = kind, !.name = name, !.next = next]
Cond(f, op, v) == [field |-> f, op |-> op, right |-> v]
Lit(x) == <<"s", x>>
NoVars == [v \in {"recordId"} |-> None]
FlowOf(name, kind, object, trigger, events, when, next, elements) ==
    [name |-> name, kind |-> kind, object |-> object, trigger |-> trigger, events |-> events,
     when |-> when, logic |-> "and", changed |-> FALSE, next |-> next, elements |-> elements,
     variables |-> NoVars, recordInput |-> None]

\* Creates a Task (which fires AgeTask) or goes on at once, then mails.
Routing(when) == FlowOf("Routing", "record_triggered_flow", "Lead", "RecordAfterSave", <<"create">>, when, "Big",
    << [El("actionCalls", "Mail", None) EXCEPT !.target = "Hello", !.action = "emailAlert"],
       [El("decisions", "Big", None) EXCEPT !.default = "Mail",
           !.rules = <<[name |-> "isBig", next |-> "Make",
                        when |-> {[left |-> <<"record", "Size">>, op |-> "EqualTo", right |-> Lit("big")]}]>>],
       [El("recordCreates", "Make", "Mail") EXCEPT !.object = "Task", !.fault = "Tell",
           !.inputs = (<<None, "Subject">> :> <<"record", "Name">>)],
       [El("actionCalls", "Tell", None) EXCEPT !.target = "Desk", !.action = "chatterPost"] >>)
AgeTask == FlowOf("AgeTask", "record_triggered_flow", "Task", "RecordAfterSave", <<"create">>, <<>>, "Age",
    << [El("recordUpdates", "Age", None) EXCEPT !.ref = "$Record"] >>)

\* Looks a Lead up, loops over what it found, and calls Send.
Welcome == [FlowOf("Welcome", "autolaunched_flow", None, None, <<>>, <<>>, "Find",
    << [El("recordLookups", "Find", "Each") EXCEPT !.object = "Lead", !.first = TRUE,
           !.filters = (<<None, "Id">> :> <<"var", "recordId">>), !.queried = {<<None, "Name">>},
           !.output = "found"],
       [El("loops", "Each", "Note") EXCEPT !.after = "CallSend", !.inputs = ("collection" :> <<"var", "found">>)],
       [El("assignments", "Note", "Each") EXCEPT !.inputs = (<<"var", "n">> :> <<"s", "seen">>)],
       [El("subflows", "CallSend", "File") EXCEPT !.target = "Send"],
       [El("recordCreates", "File", None) EXCEPT !.object = "Task", !.inputs = (<<None, "Subject">> :> Lit("hi"))] >>)
    EXCEPT !.recordInput = "recordId"]
Send == FlowOf("Send", "autolaunched_flow", None, None, <<>>, <<>>, "Post",
    << [El("actionCalls", "Post", "Drop") EXCEPT !.target = "Poster", !.action = "apex", !.fault = "Drop"],
       [El("recordDeletes", "Drop", None) EXCEPT !.object = "Draft", !.filters = (<<None, "Old">> :> <<"b", TRUE>>)] >>)

\* Fires when a Lead is updated to meet its condition.
Closing(when, changed) == [FlowOf("Closing", "record_triggered_flow", "Lead", "RecordBeforeSave", <<"update">>, when, "Stamp",
    << [El("assignments", "Stamp", "Stop") EXCEPT !.inputs = (<<"record", "Closed">> :> <<"b", TRUE>>)],
       El("customErrors", "Stop", None) >>) EXCEPT !.changed = changed]

\* Starts by the clock, which nobody can drive, and cannot be rendered.
Nightly == [FlowOf("Nightly", "schedule_triggered_flow", "Lead", "Scheduled", <<>>, <<>>, "Sort",
    <<El("collectionProcessors", "Sort", None)>>) EXCEPT !.logic = "and"]

Node(type, picklist, required) ==
    [type |-> type, picklist |-> picklist, required |-> required, writable |-> TRUE]
Fields == ("Lead" :> [Name |-> Node("text", <<>>, TRUE),
                      Status |-> Node("picklist", <<Lit("Open"), Lit("Closed")>>, TRUE),
                      Size |-> Node("text", <<>>, FALSE),
                      Score |-> Node("number", <<>>, FALSE),
                      Parent |-> Node("reference", <<>>, FALSE)]
           @@ "Task" :> [Subject |-> Node("text", <<>>, TRUE)])

\* After a Lead is updated, updates it again.
Restamp == FlowOf("Restamp", "record_triggered_flow", "Lead", "RecordAfterSave", <<"update">>, <<>>, "Again",
    << [El("recordUpdates", "Again", "Sync") EXCEPT !.ref = "$Record", !.inputs = (<<None, "Status">> :> Lit("Open"))],
       [El("actionCalls", "Sync", None) EXCEPT !.target = "Handler", !.action = "apex"] >>)

NoWhen == [items |-> {}, formula |-> {}]
Is(f, v) == [items |-> {[field |-> <<None, f>>, op |-> "equals", right |-> Lit(v)]}, formula |-> {}]
EntryTo(type, to, template) ==
    [when |-> Is("Status", "Open"), to |-> to, type |-> type, template |-> template, actions |-> <<to, None>>]
Group(name, active, one, other) == [name |-> name, active |-> active, ruleEntry |-> one, ruleEntries |-> other]
EntryFile(kind, groups) == [kind |-> kind, object |-> "Lead", groups |-> groups]
Act_(type, name) == [type |-> type, name |-> name]
RuleOf(name, active, type, immediate, timed) ==
    [name |-> name, active |-> active, type |-> type, when |-> Is("Size", "big"),
     immediate |-> immediate, timed |-> timed]
Update(name, object) ==
    [name |-> name, field |-> <<None, "Status">>, object |-> object, value |-> Lit("Open"), formula |-> {<<None, "Size">>}]
AlertTo(name, who) == [name |-> name, template |-> "T_" \o name, recipients |-> who]
Workflow ==
    [kind |-> "workflow_rule", object |-> "Lead", flowActions |-> <<"Launch">>,
     fieldUpdates |-> <<Update("Open", None), Update("Parent", "Account")>>,
     alerts |-> <<AlertTo("Owner", {"owner"})>>, emailAlerts |-> <<AlertTo("Team", {"user"})>>,
     tasks |-> <<[name |-> "Call", to |-> "Amy"]>>,
     outboundMessages |-> <<[name |-> "Out", endpoint |-> None, fields |-> {<<None, "Name">>}]>>,
     rules |-> << RuleOf("Tell", "true", None, <<Act_("FieldUpdate", "Open"), Act_("Alert", "Owner"), Act_("Task", "Call")>>,
                         <<<<Act_("Alert", "Team")>>>>),
                  RuleOf("Later", None, "onAllChanges", <<>>, <<<<Act_("Alert", "Owner")>>>>),
                  RuleOf("Off", "false", "onCreateOrTriggeringUpdate",
                         <<Act_("Alert", "Owner"), Act_("OutboundMessage", "Out"), Act_("FlowAction", "Launch")>>, <<>>),
                  RuleOf("Cross", "true", None, <<Act_("FieldUpdate", "Parent"), Act_("Alert", "Team")>>, <<>>) >>]
Check == [kind |-> "validation_rule", object |-> "Lead", name |-> "HasSize", active |-> None,
          formula |-> {<<None, "Size">>}, display |-> "Size"]
Approve ==
    [kind |-> "approval_process", object |-> "Lead", name |-> "Deal", active |-> "true", when |-> Is("Status", "Open"),
     steps |-> <<[name |-> "first", when |-> NoWhen, approvers |-> {[type |-> "userHierarchyField", name |-> None]}],
                 [name |-> None, when |-> Is("Size", "big"), approvers |-> {[type |-> "user", name |-> "Amy"]}]>>,
     outcomes |-> [approved |-> {"Open"}, rejected |-> {}, recalled |-> {}, submitted |-> {"Lock"}]]
Code(kind, name, classes, async, callouts) ==
    [kind |-> kind, name |-> name, object |-> IF kind = "apex_trigger" THEN "Lead" ELSE None,
     events |-> <<"create">>, timing |-> "after", soql |-> {"Task"}, dml |-> {[op |-> "insert", object |-> "Task"]},
     classes |-> classes, async |-> async, credentials |-> {}, fields |-> {<<"Lead", "Name">>},
     written |-> {}, callouts |-> callouts, status |-> "Active", test |-> FALSE]
Files ==
    {EntryFile("assignment_rule",
        <<Group("Route", None, <<EntryTo("Queue", "Desk", None)>>, <<EntryTo(None, "Amy", "Hi")>>),
          Group("Old", "false", <<>>, <<EntryTo("User", "Bob", None)>>)>>),
     EntryFile("auto_response_rule", <<Group("Reply", "true", <<EntryTo(None, None, "A")>>, <<EntryTo(None, None, "B")>>)>>),
     EntryFile("escalation_rule", <<Group("Late", "true", <<EntryTo("User", "Amy", None)>>, <<>>)>>),
     Workflow, Check, Approve,
     Code("apex_trigger", "OnLead", {"Handler"}, {}, {}), Code("apex_class", "Handler", {"Service"}, {}, {}),
     Code("apex_class", "Service", {}, {}, {"http"}), Code("apex_class", "Job", {"Handler"}, {"Job"}, {"http"})}

OrgWith(flows, files, verify) ==
    [flows |-> [n \in {f.name : f \in flows} |-> CHOOSE f \in flows : f.name = n],
     files |-> files, fields |-> Fields, blanks |-> {"Size", "Parent"}, verify |-> verify]

Conditions == {Cond("Status", "EqualTo", Lit("Open")), Cond("Status", "NotEqualTo", Lit("Open")),
    Cond("Size", "Contains", Lit("big")), Cond("Size", "NotEqualTo", Text),
    Cond("Score", "GreaterThan", <<"n", 1>>), Cond("Score", "LessThan", <<"n", 3>>),
    Cond("Size", "IsNull", <<"b", FALSE>>), Cond("Status", "EqualTo", <<"var", "x">>)}
Rivals == {Cond("Status", "EqualTo", Lit("Open")), Cond("Size", "EqualTo", Lit("big"))}

MCOrgs ==
    {OrgWith({Routing(<<Cond("Status", "EqualTo", Lit("Open"))>>), Restamp}, Files, <<"Restamp">>)}
    \cup {OrgWith({Routing(<<Cond("Status", "EqualTo", Lit("Open"))>>), AgeTask, Welcome, Send, Nightly}, Files,
             <<"Nightly", "Routing", "Welcome">>)}
    \cup {OrgWith({Routing(<<c>>), Closing(<<r>>, ch)}, {}, <<"Closing">>) :
            c \in Rivals, r \in Conditions, ch \in BOOLEAN}
    \cup {OrgWith({Routing(<<c>>), Closing(<<r>>, FALSE)}, {}, <<"Routing">>) :
            c \in Conditions, r \in Rivals}
=============================================================================
