------------------------------- MODULE MCOrg -------------------------------
(* Two small orgs: one of references through lookups and rows, one of       *)
(* dispatch, packages and automation that is switched off or a test.        *)
EXTENDS Annotate

Some(name, category, evidence) ==
    [name |-> name, category |-> category, evidence |-> evidence, host |-> "none", events |-> {},
     fields |-> {}, written |-> {}, objects |-> {}, uses |-> {}, globals |-> {}, defines |-> <<>>, alerts |-> {},
     dynamic |-> FALSE, test |-> FALSE, active |-> TRUE, framework |-> FALSE,
     dispatcher |-> FALSE, logged |-> FALSE, granted |-> FALSE, entry |-> FALSE,
     source |-> name, hidden |-> FALSE, long |-> FALSE, signals |-> {}, empty |-> FALSE]
Uses(use, n) == [use |-> use, name |-> n]

Sales == [
    components |-> {
        [Some("OnContact", "apex_trigger", "apex_parse") EXCEPT !.host = "Contact",
            !.events = {"after"}, !.uses = {Uses("apex_class", "Helper")},
            !.fields = {<<"Contact", "Account", "Rank__c">>, <<"Contact", "Tier__c">>, <<"Contact", "AccountId">>},
            !.written = {<<"Contact", "Tier__c">>, <<"Contact", "AccountId">>}],
        [Some("Helper", "apex_class", "apex_parse") EXCEPT !.entry = TRUE, !.long = TRUE, !.signals = {"callout"},
            !.fields = {<<"Account", "Rank__c">>, <<"Account", "Gone__c">>}, !.written = {<<"Account", "Rank__c">>},
            !.objects = {[name |-> "Setup__mdt", write |-> FALSE]}],
        [Some("HelperTest", "apex_class", "apex_parse") EXCEPT !.test = TRUE,
            !.uses = {Uses("apex_class", "Helper"), Uses("apex_class", "Nowhere")},
            !.fields = {<<"Contact", "Score__c">>}, !.written = {<<"Contact", "Score__c">>}],
        [Some("AccountFlow", "record_triggered_flow", "flow_xml") EXCEPT !.host = "Account",
            !.events = {"AfterSave"},
            !.uses = {Uses("bundle", "picker"), Uses("template", "Welcome")},
            !.fields = {<<"Account", "Owner", "Name">>, <<"Account", "Rank__c">>}, !.written = {<<"Account", "Rank__c">>}],
        [Some("ContactSharing", "sharing_rule", "rule_xml") EXCEPT !.host = "Contact", !.empty = TRUE],
        [Some("ContactLayout", "page_layout", "layout_xml") EXCEPT !.host = "Contact",
            !.fields = {<<"Contact", "Tier__c">>, <<"Contact", "What", "Name">>}],
        [Some("AccountRules", "workflow_rule", "workflow_xml") EXCEPT !.host = "Account",
            !.active = FALSE, !.alerts = {"won"},
            !.fields = {<<"Account", "Old__c">>, <<"Account", "Dusty__c">>}, !.written = {<<"Account", "Old__c">>, <<"Account", "Dusty__c">>}],
        [Some("Rank", "formula_field", "formula") EXCEPT !.defines = <<"field", "Account", "Rank__c">>,
            !.fields = {<<"Account", "Old__c">>},
            !.globals = {[object |-> "User", field |-> "Region__c"]}]},
    objects |-> {"Account", "Contact"},
    fields |-> {
        [object |-> "Contact", name |-> "Tier__c", to |-> <<>>],
        [object |-> "Contact", name |-> "Score__c", to |-> <<>>],
        [object |-> "Account", name |-> "Rank__c", to |-> <<>>],
        [object |-> "Account", name |-> "Old__c", to |-> <<>>],
        [object |-> "Account", name |-> "Dusty__c", to |-> <<>>]},
    rows |-> {[name |-> "Row", type |-> "Setup__mdt", hosts |-> <<"Contact", "Account">>,
               values |-> {"Helper", "Old__c", "City"}]},
    dispatch |-> {}, cron |-> {"Helper", "Gone"},
    api |-> <<
        [from |-> [type |-> "apex_class", name |-> "Helper"],
         to |-> [type |-> "field", object |-> "Contact", name |-> "Score__c"]],
        [from |-> [type |-> "layout", name |-> "Old layout"],
         to |-> [type |-> "field", object |-> "Account", name |-> "Old__c"]],
        [from |-> [type |-> "apex_class", name |-> "HelperTest"],
         to |-> [type |-> "apex_class", name |-> "Helper"]],
        [from |-> [type |-> "flow", name |-> "AccountFlow"],
         to |-> [type |-> "field", object |-> "Account", name |-> "Rank__c"]],
        [from |-> [type |-> "dashboard", name |-> "Board"],
         to |-> [type |-> "object", name |-> "Account"]]>>]

Service == [
    components |-> {
        [Some("OnCase", "apex_trigger", "apex_parse") EXCEPT !.host = "Case", !.framework = TRUE,
            !.events = {"before"}, !.uses = {Uses("apex_class", "Dispatcher")},
            !.objects = {[name |-> "Task", write |-> TRUE]}],
        [Some("Dispatcher", "apex_class", "apex_parse") EXCEPT !.dispatcher = TRUE, !.dynamic = TRUE,
            !.uses = {Uses("candidate", "Handler"), Uses("apex_class", "Lib.Handler")}],
        [Some("Handler", "apex_class", "apex_parse") EXCEPT
            !.fields = {<<"Case", "Stage__c">>, <<"pkg__Plan__c", "pkg__Level__c">>, <<"Case", "Closed">>}, !.written = {<<"Case", "Stage__c">>, <<"Case", "Closed">>}],
        [Some("Closer", "apex_class", "apex_parse") EXCEPT !.source = "stub", !.hidden = TRUE],
        [Some("Nightly", "apex_class", "apex_parse") EXCEPT !.source = "stub", !.hidden = TRUE],
        [Some("Lonely", "apex_class", "apex_parse") EXCEPT
            !.uses = {Uses("async", "Handler"), Uses("apex_class", "Part")}],
        [Some("CaseFlow", "platform_event_triggered_flow", "flow_xml") EXCEPT !.host = "Closed__e",
            !.uses = {Uses("flow", "Missing"), Uses("event", "Closed__e")},
            !.fields = {<<"Case", "Stage__c">>, <<"Task", "Done__c">>}, !.written = {<<"Task", "Done__c">>}],
        [Some("Closed__e", "platform_event", "rule_xml") EXCEPT !.host = "Closed__e"],
        [Some("Agents", "permission_set", "permission_xml") EXCEPT
            !.uses = {Uses("apex_class", "Lonely")}, !.fields = {<<"Case", "Stage__c">>}],
        [Some("Approval", "approval_process", "rule_xml") EXCEPT !.host = "Case",
            !.uses = {Uses("action", "notify"),
                      [use |-> "alert", name |-> "gone", object |-> "Case"]},
            !.fields = {<<"Task", "Done__c">>}, !.written = {<<"Task", "Done__c">>}],
        [Some("panel", "lwc_bundle", "lwc_import") EXCEPT
            !.uses = {Uses("apex_class", "Lonely"), Uses("channel", "news"), Uses("bundle", "none")}]},
    objects |-> {"Case", "Task"},
    fields |-> {
        [object |-> "Case", name |-> "Stage__c", to |-> <<>>],
        [object |-> "Task", name |-> "Case__c", to |-> <<"Case">>],
        [object |-> "Task", name |-> "Done__c", to |-> <<>>]},
    rows |-> {},
    dispatch |-> {[handler |-> "Handler", object |-> "none", prefix |-> "Case", sure |-> 100],
                  [handler |-> "Closer", object |-> "none", prefix |-> "Case", sure |-> 100],
                  [handler |-> "Lonely", object |-> "none", prefix |-> "Lead", sure |-> 60]},
    cron |-> {"Nightly"},
    api |-> <<
        [from |-> [type |-> "flow", name |-> "CaseFlow"],
         to |-> [type |-> "apex_class", name |-> "Lonely"]],
        [from |-> [type |-> "object", name |-> "Case"],
         to |-> [type |-> "apex_trigger", name |-> "OnCase"]]>>]

MCFilters == {{"OnContact", "Helper"}, {"ContactSharing", "ContactLayout"}, {"Closer", "Nightly"}}
Says(tier, self, unknowns, evidence) == [tier |-> tier, self |-> self, unknowns |-> unknowns, evidence |-> evidence]
MCAnswers == {Says("tier2_temporal", 100, FALSE, TRUE), Says("tier1_rules", 0, TRUE, FALSE)}

MCOrgs == {Sales, Service}
MCCustomName == {"Tier__c", "Score__c", "Rank__c", "Old__c", "Dusty__c", "Gone__c", "Region__c", "Stage__c",
                 "pkg__Level__c", "Case__c", "Done__c"}
Words == {"Name", "City", "Closed", "AccountId", "OwnerId", "WhatId", "Account", "Owner", "What",
          "Contact", "Case", "Task", "User", "Setup__mdt", "pkg__Plan__c", "Closed__e"} \cup MCCustomName
MCPackage == [n \in Words |-> IF n \in {"pkg__Level__c", "pkg__Plan__c"} THEN "pkg" ELSE "none"]
MCFieldOfHop == [Account |-> "AccountId", Owner |-> "OwnerId", What |-> "WhatId"]
MCStandardTarget == [AccountId |-> "Account", OwnerId |-> "User"]
MCLooseObject == {"Setup__mdt"}
ClassNames == {"Helper", "Nowhere", "Dispatcher", "Handler", "Lib.Handler", "Lonely", "Part"}
MCForm == [n \in ClassNames |-> CASE n = "Part" -> "inner" [] n = "Lib.Handler" -> "dotted" [] OTHER -> "plain"]
MCBase == [n \in ClassNames |-> CASE n = "Part" -> "Dispatcher" [] n = "Lib.Handler" -> "Handler" [] OTHER -> n]
=============================================================================
