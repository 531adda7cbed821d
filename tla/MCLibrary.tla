----------------------------- MODULE MCLibrary -----------------------------
(* Small orgs of one item for each way of reading that matters.            *)
EXTENDS Library

NoFlow == [process |-> None, trigger |-> None, screens |-> FALSE]
Item(cat, name, body) ==
    [cat |-> cat, name |-> name, ns |-> None, body |-> body, broken |-> FALSE, flow |-> NoFlow]
Text(version) == [body |-> version]

Class(v) == Item("apex_class", "Pricing", Text(v))
\* The same class in a package.
Packaged == [Class("v1") EXCEPT !.ns = "pkg"]
Approval(v) == Item("approval_process", "Discount", Text(v))
Assignment == Item("assignment_rule", "Lead", Text("v1"))
Workflow == Item("workflow_rule", "Stamp", [rules |-> "v1", actions |-> "v1"])
Check == Item("validation_rule", "Amount", Text("v1"))
Report(v) == Item("report", "Pipeline", Text(v))
Layout == [Item("page_layout", "Account", Text("v1")) EXCEPT !.broken = TRUE]
ScreenFlow == [Item("flow", "Intake", Text("v1")) EXCEPT
    !.flow = [process |-> "Flow", trigger |-> None, screens |-> TRUE]]
\* The same flow in a package: nothing a scan sees of it differs.
PackagedFlow == [ScreenFlow EXCEPT !.ns = "pkg"]
\* A flow of a process type no reader of source trees lists.
RoutingFlow == [Item("flow", "Route", Text("v1")) EXCEPT
    !.flow = [process |-> "RoutingFlow", trigger |-> None, screens |-> FALSE]]

MCOrgs == {
    {Class("v1"), Packaged, Approval("v1"), Assignment, Workflow, Report("v1"), ScreenFlow},
    {Class("v2"), Approval("v2"), Assignment, Check, Layout, Report("v1"), RoutingFlow,
     PackagedFlow} }
MCCategories == {"apex_class", "screen_flow", "autolaunched_flow", "validation_rule",
    "workflow_rule", "approval_process", "assignment_rule", "page_layout", "report"}

Column(object, hidden, refused, type, rank) ==
    [object |-> object, hidden |-> hidden, refused |-> refused, type |-> type, rank |-> rank]
MCFields ==
    "Amount" :> Column("Account", FALSE, FALSE, "Currency", 1)
    @@ "Secret" :> Column("Account", TRUE, TRUE, "Text", 2)
    @@ "Tier" :> Column("Account", FALSE, FALSE, "Picklist", 3)
    @@ "Flag" :> Column("Account", FALSE, FALSE, "Checkbox", 4)
    @@ "Score" :> Column("Lead", FALSE, TRUE, "Number", 1)
=============================================================================
