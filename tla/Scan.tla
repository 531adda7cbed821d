------------------------------- MODULE Scan --------------------------------
(***************************************************************************)
(* One scan of an org (cli/_org.py, extract/): the supplement, the pull    *)
(* through the Tooling API and by retrieving metadata, the reconciliation  *)
(* of what several sources say of one component, the extraction and the    *)
(* coverage report.                                                        *)
(*                                                                         *)
(* Any call to the org may fail.  What that costs depends on where the     *)
(* code catches it: the scan, one category, one record or one part of its  *)
(* body.  Abstracted: a body is a function from its parts to what they     *)
(* say; the payload's other keys are those two sources share.              *)
(***************************************************************************)
EXTENDS Integers, SequencesExt, FiniteSetsExt, TLC

CONSTANTS
    Orgs,           \* the orgs to start from: sets of items
    Categories,     \* the categories of the instance
    Vias,           \* "rest", "mdapi" or "sf_cli"
    Fields,         \* the org's custom fields: name -> [object, hidden, refused, type, rank]
    PerQuery,       \* fields_per_query
    MaxFaults       \* calls that fail in one scan, halves of a failed retrieve aside

ASSUME ViaAssumption == Vias \subseteq {"rest", "mdapi", "sf_cli"}

VARIABLES
    org,            \* items: [cat, name, ns, body, broken, flow]; cat "flow" is any flow's
    via,
    pc,
    faults,
    schema,         \* field -> "describe" or "definition"
    profiled,       \* fields with a fill rate
    reads,          \* categories the Tooling client has still to read
    work,           \* type groups still to retrieve: a set of [types, split]
    retrieved, failed,      \* types
    raws,           \* RawMetadataRecords
    components, failures, disagreements,
    seen            \* ghost: the org when the pull began

pull == <<reads, work, retrieved, failed, raws>>
result == <<components, failures, disagreements>>
supplement == <<schema, profiled>>
scanVars == <<org, via, pc, faults, supplement, pull, result, seen>>

None == "none"

------------------------------------------------------------------------------
(* Flows: which category a flow is in depends on who reads it.              *)

Flows == {"record_triggered_flow", "screen_flow", "schedule_triggered_flow",
    "platform_event_triggered_flow", "autolaunched_flow", "flow_orchestration", "process_builder"}
IsFlow(i) == i.cat = "flow"
\* An org has one item of a category, name and namespace.
ASSUME OrgAssumption ==
    \A items \in Orgs :
        /\ IsFiniteSet(items)
        /\ \A i, j \in items : i.cat = j.cat /\ i.name = j.name /\ i.ns = j.ns => i = j
        /\ \A i \in items : i.cat \notin Flows
Recorded(t) == t \in {"RecordBeforeSave", "RecordAfterSave", "RecordBeforeDelete"}

\* classify_flow.
ClassifyFlow(f) ==
    CASE f.process = "Orchestrator" -> "flow_orchestration"
      [] f.process \in {"Workflow", "InvocableProcess", "CustomEvent"} -> "process_builder"
      [] OTHER ->
           (CASE f.trigger = "PlatformEvent" -> "platform_event_triggered_flow"
              [] f.trigger = "Scheduled" -> "schedule_triggered_flow"
              [] Recorded(f.trigger) -> "record_triggered_flow"
              [] f.trigger = None /\ f.process = "Flow" /\ f.screens -> "screen_flow"
              [] OTHER -> "autolaunched_flow")

\* _matches_category, tried in the order of _PRIORITY: a flow of no listed
\* process type and no trigger is in no category.
Priority == <<"flow_orchestration", "process_builder", "platform_event_triggered_flow",
    "schedule_triggered_flow", "record_triggered_flow", "screen_flow", "autolaunched_flow">>
Matches(f, cat) ==
    CASE cat = "flow_orchestration" -> f.process = "Orchestrator"
      [] cat = "process_builder" -> f.process \in {"Workflow", "InvocableProcess", "CustomEvent"}
      [] cat = "platform_event_triggered_flow" -> f.trigger = "PlatformEvent"
      [] cat = "schedule_triggered_flow" -> f.trigger = "Scheduled"
      [] cat = "record_triggered_flow" -> Recorded(f.trigger)
      [] cat = "screen_flow" -> f.process = "Flow" /\ f.screens
      [] cat = "autolaunched_flow" -> f.process \in {"AutoLaunchedFlow", "Flow"} /\ ~f.screens
TreeFlow(f) ==
    LET fits == {k \in DOMAIN Priority : Matches(f, Priority[k])} IN
    IF fits = {} THEN None ELSE Priority[Min(fits)]

------------------------------------------------------------------------------
(* What the Tooling client asks for, per category.  What a failed call      *)
(* costs: "raise", the scan; "empty", the category; "drop", the record;     *)
(* "thin", that part of that record; "bare", that part of every record.     *)
(* "with": no call of its own.  "never": it cannot be read.                 *)

Reading(list, parts) == [list |-> list, parts |-> parts]
Body(mode) == [body |-> mode]

ApexClasses == Reading("raise", Body("with"))
ApexTriggers == Reading("raise", [body |-> "with", object |-> "raise"])
FlowVersions == Reading("raise", Body("raise"))
ValidationRules == Reading("raise", Body("drop"))
Workflows == Reading("raise", [rules |-> "thin", actions |-> "bare"])
CustomFields == Reading("raise", Body("drop"))
Bundles == Reading("raise", Body("raise"))
PlatformEvents == Reading("raise", Body("with"))
ChangeCapture == Reading("empty", Body("with"))
ApprovalProcesses == Reading("raise", Body("never"))
PartialRules == Reading("empty", Body("never"))
EscalationRules == Reading("never", Body("never"))
Layouts == Reading("raise", Body("drop"))
FlexiPages == Reading("raise", Body("drop"))
Permissions == Reading("raise", [grants |-> "raise", access |-> "bare"])
Reports == Reading("raise", Body("drop"))
MetadataSurface == Reading("empty", Body("drop"))

Reader(cat) ==
    CASE cat = "apex_class" -> ApexClasses [] cat = "apex_trigger" -> ApexTriggers
      [] cat \in Flows -> FlowVersions
      [] cat = "validation_rule" -> ValidationRules [] cat = "workflow_rule" -> Workflows
      [] cat \in {"formula_field", "rollup_summary"} -> CustomFields
      [] cat \in {"lwc_bundle", "aura_bundle"} -> Bundles
      [] cat = "platform_event" -> PlatformEvents [] cat = "change_data_capture" -> ChangeCapture
      [] cat = "approval_process" -> ApprovalProcesses
      [] cat \in {"assignment_rule", "auto_response_rule", "sharing_rule"} -> PartialRules
      [] cat = "escalation_rule" -> EscalationRules
      [] cat = "page_layout" -> Layouts [] cat = "flexipage" -> FlexiPages
      [] cat \in {"permission_set", "profile"} -> Permissions
      [] cat = "report" -> Reports
      [] cat \in {"custom_tab", "custom_application", "path_assistant"} -> MetadataSurface

Partial(cat) == \E p \in DOMAIN Reader(cat).parts : Reader(cat).parts[p] = "never"

------------------------------------------------------------------------------
(* Retrieving: categories by metadata type, in groups.                      *)

Surfaces == {"page_layout", "flexipage", "permission_set", "profile", "report",
    "custom_tab", "custom_application", "path_assistant"}
ASSUME CategoryAssumption == Categories \subseteq Flows \cup Surfaces \cup
    {"apex_class", "apex_trigger", "validation_rule", "workflow_rule", "formula_field",
     "rollup_summary", "lwc_bundle", "aura_bundle", "platform_event", "change_data_capture",
     "approval_process", "assignment_rule", "escalation_rule", "auto_response_rule", "sharing_rule"}
\* The types Tooling cannot read in full, and those cheaper to retrieve.
PartialGroups == {
    {"approval_process", "assignment_rule", "auto_response_rule", "escalation_rule", "sharing_rule"},
    {"page_layout", "flexipage"}, {"permission_set", "profile"}, {"report"},
    {"custom_tab", "custom_application", "path_assistant"} }
CliGroups == {
    {"apex_class", "apex_trigger"}, {"flow"},
    {"validation_rule", "formula_field", "rollup_summary", "platform_event"},
    {"workflow_rule"},
    {"approval_process", "assignment_rule", "auto_response_rule", "escalation_rule", "sharing_rule"},
    {"lwc_bundle"} }
MdapiGroups == (CliGroups \ {{"lwc_bundle"}}) \cup {{"lwc_bundle", "aura_bundle"}} \cup PartialGroups
Scope == Categories \cup {t \in {"flow"} : Flows \cap Categories # {}}
Groups ==
    LET wanted == CASE via = "rest" -> PartialGroups [] via = "mdapi" -> MdapiGroups
                    [] via = "sf_cli" -> CliGroups IN
    {[types |-> t, split |-> TRUE] : t \in {g \cap Scope : g \in wanted} \ {{}}}

\* The Metadata API keeps these inside one file per object, which the reader
\* of source trees does not open; the CLI writes a file for each.
InObjectFile == {"validation_rule", "formula_field", "rollup_summary", "platform_event"}
Type(i) == i.cat
TreeCategory(i) ==
    CASE IsFlow(i) -> TreeFlow(i.flow)
      [] ~IsFlow(i) /\ via # "sf_cli" /\ i.cat \in InObjectFile -> None
      [] OTHER -> i.cat
ToolingCategory(i) == IF IsFlow(i) THEN ClassifyFlow(i.flow) ELSE i.cat

------------------------------------------------------------------------------
(* Records.                                                                 *)

Raw(source, cat, i, payload) ==
    [source |-> source, cat |-> cat, name |-> i.name, ns |-> i.ns, payload |-> payload]
Only(f, keys) == [k \in DOMAIN f \cap keys |-> f[k]]
\* f, and g where f says nothing.
Before(f, g) == [k \in DOMAIN f \cup DOMAIN g |-> IF k \in DOMAIN f THEN f[k] ELSE g[k]]
ToolingRaw(i, cat, missing) ==
    LET can == {p \in DOMAIN i.body : Reader(cat).parts[p] # "never"} \ missing IN
    Raw("tooling_api", cat, i,
        Before([path |-> i.name, parsed |-> Only(i.body, can), object |-> i.name],
               IF Partial(cat) THEN [partial |-> TRUE] ELSE <<>>))
\* A retrieve of everything leaves a managed package's components out.
TreeRaw(i) ==
    Raw(IF via = "sf_cli" THEN "sf_cli" ELSE "metadata_api", TreeCategory(i), i,
        [path |-> i.name, raw_xml |-> IF i.broken THEN <<>> ELSE i.body])

------------------------------------------------------------------------------
(* Connecting and the supplement.                                           *)

MayFail == faults < MaxFaults
Fault == faults' = faults + 1
\* Whatever leaves connect or run ends the scan with nothing written.
Abort ==
    /\ pc' = "aborted"
    /\ UNCHANGED <<org, via, supplement, pull, result, seen>>

\* connect: no scan when the org says too few requests remain.
Connect ==
    /\ pc = "connect"
    /\ \/ pc' = "schema" /\ UNCHANGED <<org, via, supplement, pull, result, seen>>
       \/ Abort
    /\ UNCHANGED faults

\* schema: a field the user may not see is in FieldDefinition, not in describe.
Objects == {Fields[f].object : f \in DOMAIN Fields}
Described(objects) == {f \in DOMAIN Fields : Fields[f].object \in objects /\ ~Fields[f].hidden}
Defined(objects) == {f \in DOMAIN Fields : Fields[f].object \in objects}
Snapshot(described, defined) ==
    [f \in Described(described) \cup Defined(described \cap defined) |->
        IF f \in Described(described) THEN "describe" ELSE "definition"]
ReadSchema ==
    /\ pc = "schema"
    /\ \/ /\ pc' = "profile"
          /\ \/ schema' = Snapshot(Objects, Objects) /\ UNCHANGED faults
             \/ \E o \in Objects :
                  /\ MayFail /\ Fault
                  /\ schema' \in {Snapshot(Objects \ {o}, Objects), Snapshot(Objects, Objects \ {o})}
          /\ UNCHANGED <<org, via, profiled, pull, result, seen>>
       \/ MayFail /\ Fault /\ Abort

\* profile_from_gateway: one aggregate query for so many fields, in the order
\* of the describe.  A refused field is dropped and the query tried again; when
\* none is left, or the error is another, the rest of the object is not asked.
NotCounted == {"LongTextArea", "Checkbox", "Location"}
Countable(o) == {f \in DOMAIN schema : Fields[f].object = o /\ Fields[f].type \notin NotCounted}
Query(o, f) == Cardinality({g \in Countable(o) : Fields[g].rank < Fields[f].rank}) \div PerQuery
Queries(o) == {Query(o, f) : f \in Countable(o)}
Asked(o, k) == {f \in Countable(o) : Query(o, f) = k}
Counted(fields) == {f \in fields : ~Fields[f].refused}
\* Mutant: the first refused field loses the whole object.
ProfiledUnlessRefused(o) ==
    LET refused == {k \in Queries(o) : Counted(Asked(o, k)) # Asked(o, k)} IN
    {f \in Counted(Countable(o)) : \A k \in refused : Query(o, f) < k}
Profiled(o) ==
    LET stops == {k \in Queries(o) : Counted(Asked(o, k)) = {}} IN
    {f \in Counted(Countable(o)) : \A k \in stops : Query(o, f) < k}
Profile ==
    /\ pc = "profile" /\ pc' = "pull"
    /\ \/ profiled' = UNION {Profiled(o) : o \in Objects} /\ UNCHANGED faults
       \/ \E o \in Objects :    \* at its first query
            MayFail /\ Fault /\ profiled' = UNION {Profiled(x) : x \in Objects \ {o}}
    /\ UNCHANGED <<org, via, schema, pull, result, seen>>

------------------------------------------------------------------------------
(* The pull.                                                                *)

BeginPull ==
    /\ pc = "pull" /\ pc' = "tooling"
    /\ reads' = IF via = "rest" THEN Categories \ Surfaces ELSE {}
    /\ work' = Groups
    /\ raws' = {} /\ retrieved' = {} /\ failed' = {}
    /\ seen' = org
    /\ UNCHANGED <<org, via, faults, supplement, result>>

\* ToolingApiPullClient.pull, one category after the other; any order is as good.
ReadTooling ==
    /\ pc = "tooling" /\ reads # {}
    /\ LET cat == CHOOSE c \in reads : TRUE
           items == IF Reader(cat).list = "never" THEN {}
                    ELSE {i \in org : ToolingCategory(i) = cat}
           got(set) == raws' = raws \cup set
           all(missing) == {ToolingRaw(i, cat, missing) : i \in items} IN
       /\ reads' = reads \ {cat}
       /\ \/ /\ got(all({})) /\ UNCHANGED <<faults, pc>>
          \/ /\ MayFail /\ Fault
             /\ \/ Reader(cat).list = "raise" /\ pc' = "aborted" /\ UNCHANGED raws
                \/ Reader(cat).list = "empty" /\ UNCHANGED <<pc, raws>>
                \/ \E p \in DOMAIN Reader(cat).parts :
                     LET mode == Reader(cat).parts[p] IN
                     \/ mode = "raise" /\ items # {} /\ pc' = "aborted" /\ UNCHANGED raws
                     \/ mode = "bare" /\ got(all({p})) /\ UNCHANGED pc
                     \/ /\ mode \in {"drop", "thin"} /\ UNCHANGED pc
                        /\ \E i \in items :
                             got({ToolingRaw(j, cat, {}) : j \in items \ {i}}
                                 \cup (IF mode = "drop" THEN {} ELSE {ToolingRaw(i, cat, {p})}))
    /\ UNCHANGED <<org, via, supplement, work, retrieved, failed, result, seen>>

\* A group that fails is halved: the Metadata API's once whatever the error,
\* the CLI's again and again when the error is about size.  Which types are in
\* which half is the order of a list; any is possible here.
Half(types) == [types |-> types, split |-> via = "sf_cli"]
Firsts(g) == {types \in SUBSET g.types : Cardinality(types) = Cardinality(g.types) \div 2}
\* Mutant: the second half is not retrieved.
FirstHalf(g, first) == {Half(first)}
Resplit(g, first) == {Half(first), Half(g.types \ first)}
\* One group after the other, in the order the list has; any is as good.
Retrieve ==
    /\ pc = "tooling" /\ reads = {} /\ work # {}
    /\ LET g == CHOOSE x \in work : TRUE
           rest == work \ {g} IN
       \/ /\ retrieved' = retrieved \cup g.types
          /\ work' = rest
          /\ UNCHANGED <<pc, faults, failed>>
       \/ /\ MayFail /\ Fault /\ g.split /\ Cardinality(g.types) > 1
          /\ \E first \in Firsts(g) : work' = Resplit(g, first) \cup rest
          /\ UNCHANGED <<pc, retrieved, failed>>
       \/ /\ MayFail \/ ~g.split
          /\ Fault /\ (via = "sf_cli" \/ ~g.split \/ Cardinality(g.types) = 1)
          /\ failed' = failed \cup g.types
          /\ work' = rest
          /\ UNCHANGED <<pc, retrieved>>
       \/ /\ MayFail /\ Fault /\ via # "sf_cli" /\ "report" \in g.types
          /\ pc' = "aborted"            \* listing the folders
          /\ UNCHANGED <<work, retrieved, failed>>
    /\ UNCHANGED <<org, via, supplement, reads, raws, result, seen>>

\* SourceTree.records over everything retrieved.
ReadTree ==
    /\ pc = "tooling" /\ reads = {} /\ work = {}
    /\ pc' = "reconcile"
    /\ raws' = raws \cup {TreeRaw(i) : i \in {x \in org : /\ Type(x) \in retrieved /\ x.ns = None
                                                        /\ TreeCategory(x) # None}}
    /\ UNCHANGED <<org, via, faults, supplement, reads, work, retrieved, failed, result, seen>>

------------------------------------------------------------------------------
(* Reconciliation, extraction, coverage.                                    *)

Rank(source) == IF source \in {"sf_cli", "metadata_api"} THEN 1 ELSE 2
BodyKeys == {"raw_xml", "parsed", "partial"}
Key(r) == <<r.cat, r.name, r.ns>>
Keys == {Key(r) : r \in raws}
Ranked(key, rank) == SetToSeq({r \in raws : Key(r) = key /\ Rank(r.source) = rank})
Bucket(key) == Ranked(key, 1) \o Ranked(key, 2)

HasBody(r) == DOMAIN r.payload \cap {"raw_xml", "parsed"} # {}
Fold(m, r, keys) ==
    LET new == Only(r.payload, keys) IN
    [payload |-> Before(m.payload, new),
     body |-> IF m.body = None /\ HasBody(r) THEN r.source ELSE m.body,
     clash |-> m.clash \/ \E k \in DOMAIN new \cap DOMAIN m.payload : m.payload[k] # new[k]]
\* Mutant: a stub's body is merged beside the body that won.
MergeAll(m, r) == Fold(m, r, DOMAIN r.payload)
\* The first source with a body is the only one whose body counts.
Merge(m, r) ==
    Fold(m, r, IF m.body \in {None, r.source} THEN DOMAIN r.payload ELSE DOMAIN r.payload \ BodyKeys)
Unmerged == [payload |-> <<>>, body |-> None, clash |-> FALSE]
Reconciled(key) == FoldLeft(Merge, Unmerged, Bucket(key))

\* get_body: a parsed body before the XML; XML that cannot be parsed is a failure.
BodyOf(p) == IF "parsed" \in DOMAIN p THEN p.parsed ELSE p.raw_xml
Unreadable(key) ==
    LET p == Reconciled(key).payload IN
    "parsed" \notin DOMAIN p /\ \E i \in seen : i.name = key[2] /\ i.broken /\ TreeCategory(i) = key[1]
\* What an extractor keeps is the body; the mark of a stub is not part of it.
Component(key) ==
    [cat |-> key[1], name |-> key[2], ns |-> key[3], raw |-> [body |-> BodyOf(Reconciled(key).payload)]]
Extracted == {Component(k) : k \in {x \in Keys : ~Unreadable(x)}}
Extract ==
    /\ pc = "reconcile"
    /\ \/ /\ pc' = "extracted"
          /\ components' = Extracted
          /\ failures' = {k \in Keys : Unreadable(k)}
          /\ disagreements' = {k \in Keys : Reconciled(k).clash}
          /\ UNCHANGED <<org, via, faults, supplement, pull, seen>>
       \/ MayFail /\ Fault /\ Abort       \* an anchor fails

\* build_report.
SuspectedGaps == failed
PartialCategories == {c.cat : c \in {x \in components : "partial" \in DOMAIN x.raw}}

ScanInit ==
    /\ org \in Orgs /\ via \in Vias
    /\ pc = "connect" /\ faults = 0
    /\ schema = <<>> /\ profiled = {}
    /\ reads = {} /\ work = {} /\ retrieved = {} /\ failed = {} /\ raws = {}
    /\ components = {} /\ failures = {} /\ disagreements = {}
    /\ seen = {}

ScanNext ==
    \/ Connect \/ ReadSchema \/ Profile \/ BeginPull \/ ReadTooling \/ Retrieve \/ ReadTree \/ Extract

------------------------------------------------------------------------------
(* Properties of a finished scan.                                           *)

Done == pc = "extracted"

\* Whoever could give a component's body whole, its body is whole: what a
\* retrieve brought is never replaced by or mixed with the Tooling client's
\* stub of it (reconcile).
RetrievedBodyWins ==
    Done => \A c \in components : \A i \in seen :
        (/\ c.name = i.name /\ c.cat = TreeCategory(i) /\ c.ns = None /\ i.ns = None
         /\ Type(i) \in retrieved /\ ~i.broken) => c.raw.body = i.body

\* Of the types to retrieve, each is either in the result or named among the
\* suspected gaps, however its group was split (_retrieve_group, _retrieve).
RetrievesAccounted ==
    Done => /\ UNION {g.types : g \in Groups} = retrieved \cup SuspectedGaps
            /\ retrieved \cap SuspectedGaps = {}

\* A field the database refuses to count costs that field: while a query has
\* one field it will count, the object's later fields are counted too
\* (profile_from_gateway).  A query with none ends its object.
RefusalCostsOneField ==
    (Done /\ faults = 0) =>
        \A o \in Objects :
            (\A k \in Queries(o) : Counted(Asked(o, k)) # {}) =>
                Countable(o) \cap profiled = Counted(Countable(o))

\* A component whose category's body Tooling cannot read, and which no retrieve
\* filled in, is reported as partial (tooling_api.py:20).
PartialIsReported ==
    Done => \A c \in components :
        (\E r \in raws : Key(r) = <<c.cat, c.name, c.ns>> /\ "partial" \in DOMAIN r.payload)
        /\ ~(\E r \in raws : Key(r) = <<c.cat, c.name, c.ns>> /\ "raw_xml" \in DOMAIN r.payload)
        => c.cat \in PartialCategories
=============================================================================
