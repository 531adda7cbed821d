------------------------------ MODULE OrgGraph ------------------------------
(***************************************************************************)
(* The dependency graph of an org (understand/dependencies.py): nodes      *)
(* first, then one pass per source of evidence, and at last the rows of    *)
(* Salesforce's own Dependency API, folded in as a cross-check.            *)
(*                                                                         *)
(* Components are linked one after the other, in any order.  Order matters *)
(* because a reference may make a node: standard fields and objects that   *)
(* the schema did not list are inferred when they are first named, and     *)
(* what is named later resolves against them.                              *)
(*                                                                         *)
(* Abstracted: names up to case; what kind of name a class reference is    *)
(* (Form, Base); confidences in hundredths; the notes of an edge are the   *)
(* set of the notes it was given.                                          *)
(***************************************************************************)
EXTENDS Integers, FiniteSets, SequencesExt

CONSTANTS
    Orgs,           \* the orgs a graph is built of
    CustomName,     \* field names that end in __c
    Package,        \* the installed package of a namespaced name, or "none"
    FieldOfHop,     \* _relationship_to_field: the field a path segment names
    StandardTarget, \* _STANDARD_FIELD_TARGETS
    LooseObject,    \* objects whose unknown custom fields are inferred (__mdt, ...)
    Form, Base      \* of a class name: its shape, and the class it may belong to

VARIABLES
    org, phase, todo,
    nodes, edges, gaps,
    target,         \* of each field that is known: reference_to, a sequence of objects
    stats           \* api_rows_seen, api_matched, api_only, api_unmapped

graph == <<nodes, edges, gaps, target>>
vars == <<org, phase, todo, graph, stats>>

Obj(o) == <<"object", o>>
Fld(o, f) == <<"field", o, f>>
Ext(kind, name) == <<"external", kind, name>>
Comp(c) == <<"component", c.name>>
Row(r) == <<"cmt_record", r.name>>

FlowCategory == {"record_triggered_flow", "screen_flow", "schedule_triggered_flow",
    "platform_event_triggered_flow", "autolaunched_flow", "flow_orchestration",
    "process_builder"}
Security == {"permission_set", "profile"}
Surface == Security \cup {"page_layout", "flexipage", "report", "custom_tab",
    "custom_application", "path_assistant"}
FiresOnHost == {"apex_trigger", "record_triggered_flow", "process_builder",
    "schedule_triggered_flow", "flow_orchestration", "workflow_rule", "validation_rule",
    "assignment_rule", "auto_response_rule", "escalation_rule", "sharing_rule",
    "approval_process"}
IsApex(c) == c.category \in {"apex_class", "apex_trigger"}

\* The components a name stands for in one of the builder's indexes.
Named(categories, n) == {c \in org.components : c.category \in categories /\ c.name = n}
Workflows(o) == {c \in org.components : c.category = "workflow_rule" /\ c.host = o}

\* An org is finite, and a component's name stands for its id.  Its extractors name
\* the uses they know; a bundle's imports name top-level classes.  A path starts with
\* an object, and what is written is a field of one.  Only a class is a test.  The
\* walks of impact.py look for the word "write" in an edge's note: no action and no
\* dispatch row is called that.
UseKinds == {"apex_class", "async", "candidate", "bundle", "flow", "event", "page", "tab", "alert",
    "action", "template", "credential", "label", "channel", "permission"}
LookupsOf(o) == UNION {{<<Fld(f.object, f.name), f.to[i]>> : i \in DOMAIN f.to} : f \in o.fields}
ASSUME GraphAssumption ==
    \A o \in Orgs :
        /\ IsFiniteSet(o.components) /\ IsFiniteSet(LookupsOf(o))
        /\ IsFiniteSet(o.rows) /\ IsFiniteSet(o.dispatch) /\ IsFiniteSet(o.cron)
        /\ \A r \in o.rows : IsFiniteSet(r.values) /\ r.hosts \in Seq(STRING)
        /\ \A d \in o.dispatch : d.prefix # "write"
        /\ \A c, d \in o.components : c.name = d.name => c = d
        /\ \A c \in o.components :
              /\ c.test => c.category = "apex_class"
              /\ IsFiniteSet(c.fields) /\ IsFiniteSet(c.objects)
              /\ IsFiniteSet(c.uses) /\ IsFiniteSet(c.globals)
              /\ \A path \in c.fields : path \in Seq(STRING) /\ Len(path) >= 2
              /\ \A pair \in c.written : pair \in Seq(STRING) /\ Len(pair) = 2
              /\ \A u \in c.uses : u.use \in UseKinds /\ (u.use = "action" => u.name # "write")
              /\ c.category = "lwc_bundle" => \A u \in c.uses :
                    \/ u.use \in {"bundle", "label", "channel"}
                    \/ u.use = "apex_class" /\ Form[u.name] \notin {"dotted", "inner"}

------------------------------------------------------------------------------
(* The graph.                                                               *)

\* f, but v for x.
With(f, x, v) == [y \in DOMAIN f \cup {x} |-> IF y = x THEN v ELSE f[y]]

Graph == [nodes |-> nodes, edges |-> edges, gaps |-> gaps, target |-> target]

\* add_edge: none to itself; one that is there keeps its channel, takes the
\* higher confidence and the new note.
AddEdge(g, s, t, kind, ev, conf, notes) ==
    LET key == <<s, t, kind>>
        old == g.edges[key] IN
    IF s = t THEN g
    ELSE IF key \in DOMAIN g.edges
    THEN [g EXCEPT !.edges[key] =
            [old EXCEPT !.confidence = IF conf > @ THEN conf ELSE @,
                        !.notes = @ \cup notes]]
    ELSE [g EXCEPT !.edges = With(@, key, [evidence |-> ev, confidence |-> conf,
                                           notes |-> notes, api |-> FALSE])]

AddNode(g, n) == [g EXCEPT !.nodes = @ \cup {n}]
Known(g, o, f) == Fld(o, f) \in DOMAIN g.target
\* Mutant: a reference that resolves to nothing is passed over in silence.
PassedOver(g, c, what) == g
Gap(g, c, what) == [g EXCEPT !.gaps = @ \cup {<<Comp(c), what>>}]

\* inferred_field: a field nobody listed, under an object that may be new too.
InferField(g, o, f) ==
    IF Known(g, o, f) THEN g
    ELSE [AddNode(AddNode(g, Obj(o)), Fld(o, f)) EXCEPT
            !.target = With(@, Fld(o, f), IF f \in DOMAIN StandardTarget
                                          THEN <<StandardTarget[f]>> ELSE <<>>)]

\* package_field: an inferred field, and the package it comes from.
PackageField(g, pkg, o, f) ==
    LET h == AddNode(InferField(g, o, f), Ext("Package", pkg)) IN
    AddEdge(h, Fld(o, f), Ext("Package", pkg), "references", "schema", 90, {"package"})

PackageOf(o, f) == IF Package[f] # "none" THEN Package[f] ELSE Package[o]

\* One hop of _link_field.  The walk w holds the graph, the object the path
\* has reached and whether the path was given up.
\* Mutant: a custom field that is missing is inferred like a standard one.
MissingIsInferred(w, o, f) == FALSE
MissingCustom(w, o, f) ==
    /\ ~Known(w.g, o, f) /\ PackageOf(o, f) = "none"
    /\ f \in CustomName /\ o \notin LooseObject

HopField(w, seg, last) ==
    LET f == IF last THEN seg ELSE FieldOfHop[seg] IN
    IF ~Known(w.g, w.at, f) /\ ~last /\ Known(w.g, w.at, seg) THEN seg ELSE f

Hop(w, c, path, i) ==
    LET last == i = Len(path)
        o == w.at
        f == HopField(w, path[i], last)
        conf == IF IsApex(c) THEN 90 ELSE 100
        h == IF Known(w.g, o, f) THEN w.g
             ELSE IF PackageOf(o, f) # "none" THEN PackageField(w.g, PackageOf(o, f), o, f)
             ELSE InferField(w.g, o, f)
        note == IF last /\ <<o, f>> \in c.written THEN "write" ELSE "read"
        linked == AddEdge(h, Comp(c), Fld(o, f), "references", c.evidence, conf, {note}) IN
    IF w.done THEN w
    ELSE IF MissingCustom(w, o, f)
    THEN [w EXCEPT !.done = TRUE,
                   !.g = AddEdge(Gap(AddNode(w.g, Obj(o)), c, path), Comp(c), Obj(o),
                                 "references", c.evidence, 70, {"unresolved field"})]
    ELSE IF last \/ h.target[Fld(o, f)] = <<>>
    THEN [w EXCEPT !.done = TRUE, !.g = linked]
    ELSE [w EXCEPT !.at = Head(h.target[Fld(o, f)]), !.g = linked]

\* _link_field: 'Object.path.to.Field', an edge per hop.
LinkField(g, c, path) ==
    FoldLeft(LAMBDA w, i : Hop(w, c, path, i), [g |-> g, at |-> path[1], done |-> FALSE],
             [i \in 1..Len(path) - 1 |-> i + 1]).g

------------------------------------------------------------------------------
(* What a component references besides fields: each use gives an edge, a    *)
(* recorded gap, or nothing.                                                *)

Edge(t, kind, conf, note) == [is |-> "edge", to |-> t, kind |-> kind, conf |-> conf, note |-> note]
Nothing == [is |-> "nothing"]
Missing == [is |-> "gap"]

Found(cs) == Comp(CHOOSE c \in cs : TRUE)
Or(cs, kind, conf, note, otherwise) ==
    IF cs # {} THEN Edge(Found(cs), kind, conf, note) ELSE otherwise

\* _apex_edges: a class by name; Ns.Class or Outer.Inner; a platform type; a
\* standard object; an inner class named alone; else a gap.
ClassUse(c, n) ==
    LET conf == IF c.dynamic THEN 75 ELSE IF IsApex(c) THEN 95 ELSE 100
        base == Named({"apex_class"}, Base[n]) IN
    Or(Named({"apex_class"}, n), IF c.category \in Security THEN "references" ELSE "calls",
       conf, "class",
       CASE Form[n] = "dotted" /\ base # {} -> Edge(Found(base), "calls", 80, "dotted")
         [] Form[n] = "noise" /\ IsApex(c) -> Nothing
         [] Form[n] = "platform" -> Nothing
         [] Form[n] = "sobject" -> Edge(Obj(n), "references", 100, "object type")
         [] Form[n] = "inner" /\ base # {} -> Edge(Found(base), "calls", 80, "inner type")
         [] OTHER -> Missing)

\* The rest of _apex_edges, _flow_edges, _surface_edges, _action_edges and
\* _global_edges.
Outcome(c, u) ==
    LET external(kind, conf) == Edge(Ext(kind, u.name), "references", conf, u.name) IN
    CASE u.use = "apex_class" -> ClassUse(c, u.name)
      [] u.use = "async" -> Or(Named({"apex_class"}, u.name), "calls", 100, "async/dynamic", Nothing)
      [] u.use = "candidate" -> Or(Named({"apex_class"}, u.name), "calls", 80, "qualifier", Nothing)
      [] u.use = "bundle" ->
            Or(Named({"lwc_bundle", "aura_bundle"}, u.name), "calls", 100, "embedded",
               IF c.category \in FlowCategory THEN Missing ELSE Nothing)
      [] u.use = "flow" ->
            Or(Named(FlowCategory, u.name),
               IF c.category \in Security THEN "references" ELSE "calls", 100, "flow", Missing)
      [] u.use = "event" -> Or(Named({"platform_event"}, u.name), "references", 100, "event", Nothing)
      [] u.use = "page" -> Or(Named({"flexipage"}, u.name), "references", 100, "opens page", Nothing)
      [] u.use = "tab" -> Or(Named({"custom_tab"}, u.name), "references", 100, "tab", Nothing)
      [] u.use = "alert" ->
            Or({w \in Workflows(u.object) : u.name \in w.alerts},
               "references", 100, "email alert", external("EmailAlert", 80))
      [] u.use = "action" ->
            Or(Workflows(c.host), "references", 100, u.name, Missing)
      [] u.use \in {"template", "credential", "label", "channel", "permission"} ->
            external(u.use, 100)

AddUse(g, c, u) ==
    LET o == Outcome(c, u) IN
    CASE o.is = "edge" -> AddEdge(AddNode(g, o.to), Comp(c), o.to, o.kind, c.evidence, o.conf, {o.note})
      [] o.is = "gap" -> Gap(g, c, <<u.use, u.name>>)
      [] OTHER -> g

\* _object_edges, and $Setup / $User (a global names an object, or its field
\* when that is known).
AddObject(g, c, r) ==
    IF r.name = c.host THEN g
    ELSE AddEdge(AddNode(g, Obj(r.name)), Comp(c), Obj(r.name), "references", c.evidence,
                 IF IsApex(c) THEN 90 ELSE 100, IF r.write THEN {"write"} ELSE {})
AddGlobal(g, c, r) ==
    LET t == IF Known(g, r.object, r.field) THEN Fld(r.object, r.field) ELSE Obj(r.object) IN
    AddEdge(AddNode(g, t), Comp(c), t, "references", c.evidence, 100, {"global"})

\* _trigger_edges: what it fires on or, for a surface, what it displays.
AddTrigger(g, c) ==
    LET h == AddNode(g, Obj(c.host))
        event == Named({"platform_event"}, c.host)
        subscribed == IF event = {} THEN Obj(c.host) ELSE Found(event) IN
    CASE c.host = "none" -> g
      [] c.host # "none" /\ c.category \in Surface ->
            AddEdge(h, Comp(c), Obj(c.host), "references", c.evidence, 100, {"surface"})
      [] c.host # "none" /\ c.category \in FiresOnHost ->
            AddEdge(h, Comp(c), Obj(c.host), "triggers", c.evidence, 100, c.events)
      [] c.host # "none" /\ c.category = "platform_event_triggered_flow" ->
            AddEdge(AddNode(g, subscribed), Comp(c), subscribed, "triggers", c.evidence, 100,
                    {"subscription"})
      [] OTHER -> g

\* The field a formula or roll-up is, and the object an event is.
AddOwned(g, c) ==
    LET f == IF c.defines \in DOMAIN g.target
             THEN AddEdge(g, Comp(c), c.defines, "owns", c.evidence, 100, {"defines"}) ELSE g IN
    IF c.category = "platform_event" /\ c.host # "none"
    THEN AddEdge(AddNode(f, Obj(c.host)), Comp(c), Obj(c.host), "owns", c.evidence, 100, {"event"})
    ELSE f

\* add_component_edges.  The fields of one component are linked in an order
\* its extractor chose.
Link(g, c, order) ==
    LET a == FoldSet(LAMBDA r, h : AddObject(h, c, r), AddTrigger(g, c), c.objects)
        b == AddOwned(FoldLeft(LAMBDA h, r : LinkField(h, c, r), a, order), c)
        d == FoldSet(LAMBDA u, h : AddUse(h, c, u), b, c.uses) IN
    FoldSet(LAMBDA r, h : AddGlobal(h, c, r), d, c.globals)

------------------------------------------------------------------------------
(* The passes of build_graph.                                               *)

Becomes(g) ==
    /\ nodes' = g.nodes /\ edges' = g.edges
    /\ gaps' = g.gaps /\ target' = g.target

InitGraph ==
    /\ org \in Orgs
    /\ phase = "schema" /\ todo = org.components
    /\ nodes = {Comp(c) : c \in org.components}     \* add_component_nodes
    /\ edges = <<>> /\ gaps = {} /\ target = <<>>
    /\ stats = [seen |-> 0, matched |-> 0, only |-> 0, unmapped |-> 0]

\* add_schema: objects and fields, and an edge per lookup target, which may be
\* an object the schema does not list.
Lookups == LookupsOf(org)
AddSchema ==
    LET fields == {Fld(f.object, f.name) : f \in org.fields}
        g == [Graph EXCEPT
               !.nodes = @ \cup fields \cup {Obj(o) : o \in org.objects} \cup {Obj(l[2]) : l \in Lookups},
               !.target = [q \in fields |->
                             (CHOOSE f \in org.fields : Fld(f.object, f.name) = q).to]] IN
    /\ phase = "schema"
    /\ phase' = "config"
    /\ Becomes(FoldSet(LAMBDA l, h : AddEdge(h, l[1], Obj(l[2]), "references", "schema", 100, {"lookup"}),
                       g, Lookups))
    /\ UNCHANGED <<org, todo, stats>>

\* add_cmt_records: a row points at its type, at the fields and classes its
\* values name, and is read by the Apex that reads the type.  A value may also
\* be the bare name of a field of an object another value names: the first
\* such object that has it, or can be inferred to, is taken.
Hosted(g, r, v) ==
    LET fits == {i \in DOMAIN r.hosts : Known(g, r.hosts[i], v) \/ v \notin CustomName} IN
    IF fits = {} THEN g
    ELSE LET host == r.hosts[Min(fits)] IN
         AddEdge(InferField(g, host, v), Row(r), Fld(host, v), "references", "cmt_record", 100, {v})
AddRow(g, r) ==
    LET a == AddNode(AddNode(g, Row(r)), Obj(r.type))
        b == AddEdge(a, Row(r), Obj(r.type), "references", "cmt_record", 100, {"row of"})
        classes == {c \in org.components : c.category = "apex_class" /\ c.name \in r.values}
        d == FoldSet(LAMBDA c, h : AddEdge(h, Row(r), Comp(c), "calls", "cmt_record", 100, {c.name}),
                     b, classes)
        e == FoldSet(LAMBDA v, h : Hosted(h, r, v), d, r.values \ {c.name : c \in classes})
        readers == {c \in org.components : \E o \in c.objects : o.name = r.type} IN
    FoldSet(LAMBDA c, h : AddEdge(h, Comp(c), Row(r), "references", "cmt_record", 80, {"reads"}),
            e, readers)
AddCmtRecords ==
    /\ phase = "config"
    /\ phase' = "components"
    /\ Becomes(FoldSet(LAMBDA r, h : AddRow(h, r), Graph, org.rows))
    /\ UNCHANGED <<org, todo, stats>>

LinkComponent(c) ==
    /\ phase = "components"
    /\ todo' = todo \ {c}
    /\ \E order \in SetToSeqs(c.fields) : Becomes(Link(Graph, c, order))
    /\ UNCHANGED <<org, phase, stats>>

\* add_dispatch_edges: from the trigger on the object the row names, else from
\* a trigger that uses a handler framework and whose object begins the row's
\* name, else from the dispatcher class that some trigger calls.
Dispatchers(d) ==
    LET triggers == {c \in org.components : c.category = "apex_trigger"}
        named == {c \in triggers : c.host = d.object}
        framework == {c \in triggers : c.framework /\ c.host = d.prefix}
        classes == {k \in org.components :
                      /\ k.category = "apex_class" /\ k.dispatcher
                      /\ \E c \in triggers : \E u \in c.uses : u.use = "apex_class" /\ u.name = k.name} IN
    IF named # {} THEN named ELSE IF framework # {} THEN framework ELSE classes

\* add_cron_edges: a scheduled job triggers its class.
AddCron(g, n) ==
    LET c == Named({"apex_class"}, n) IN
    IF c = {} THEN g
    ELSE AddEdge(AddNode(g, Ext("CronTrigger", n)), Ext("CronTrigger", n), Found(c), "triggers",
                 "cron", 100, {"schedule"})

Dispatch ==
    /\ phase = "components" /\ todo = {}
    /\ phase' = "rows"
    /\ LET known == {d \in org.dispatch : Named({"apex_class"}, d.handler) # {} /\ Dispatchers(d) # {}} IN
       \E from \in [known -> org.components] :
          /\ \A d \in known : from[d] \in Dispatchers(d)
          /\ Becomes(FoldSet(LAMBDA n, h : AddCron(h, n),
                             FoldSet(LAMBDA d, h : AddEdge(h, Comp(from[d]),
                                                      Found(Named({"apex_class"}, d.handler)),
                                                      "dispatches", "cmt_dispatch", d.sure, {d.prefix}),
                                     Graph, known),
                             org.cron))
    /\ UNCHANGED <<org, todo, stats>>

\* _fold_api_rows.  MapRef: several API names stand for one node (a workflow
\* rule, its alerts and its field updates are one component).
MapRef(ref) ==
    CASE ref.type \in {"apex_class", "apex_trigger", "flexipage", "permission_set"} ->
            {Comp(c) : c \in Named({ref.type}, ref.name)}
      [] ref.type = "flow" -> {Comp(c) : c \in Named(FlowCategory, ref.name)}
      [] ref.type = "field" -> {Fld(ref.object, ref.name)} \cap DOMAIN target
      [] ref.type = "object" -> {Obj(ref.name)}
      [] ref.type \in {"workflow_rule", "workflow_alert", "field_update"} ->
            {Comp(c) : c \in Workflows(ref.object)}
      [] ref.type \in {"layout", "listview"} -> {Ext(ref.type, ref.name)}
      [] OTHER -> {}

Outbound(s) == {k \in DOMAIN edges : k[1] = s}
Inbound(t) == {k \in DOMAIN edges : k[2] = t}

\* A row agrees with every edge between its two ends, in either direction;
\* only the first kind gains confidence.  A row nothing agrees with becomes an
\* edge of its own.
Corroborate(matches, forward) ==
    edges' = [k \in DOMAIN edges |->
                IF k \notin matches THEN edges[k]
                ELSE [edges[k] EXCEPT !.api = TRUE,
                        !.confidence = IF k \in forward /\ @ + 5 < 100 THEN @ + 5
                                       ELSE IF k \in forward THEN 100 ELSE @]]
FoldRow ==
    /\ phase = "rows"
    /\ stats.seen < Len(org.api)
    /\ LET row == org.api[stats.seen + 1]
           ends == MapRef(row.from) \X MapRef(row.to)
           seen == [stats EXCEPT !.seen = @ + 1] IN
       \/ /\ ends = {}
          /\ stats' = [seen EXCEPT !.unmapped = @ + 1]
          /\ UNCHANGED graph
       \/ \E end \in ends :
          LET s == end[1]
              t == end[2]
              forward == {k \in Outbound(s) : k[2] = t}
              matches == IF forward # {} THEN forward ELSE {k \in Outbound(t) : k[2] = s} IN
          IF matches # {}
          THEN /\ stats' = [seen EXCEPT !.matched = @ + 1]
               /\ Corroborate(matches, forward)
               /\ UNCHANGED <<nodes, gaps, target>>
          ELSE /\ stats' = [seen EXCEPT !.only = @ + 1]
               /\ Becomes(AddEdge(AddNode(AddNode(Graph, s), t), s, t, "references",
                                  "dependency_api", 60, {"API-only"}))
    /\ UNCHANGED <<org, phase, todo>>

Built ==
    /\ phase = "rows" /\ stats.seen = Len(org.api)
    /\ phase' = "built"
    /\ UNCHANGED <<org, todo, graph, stats>>

BuildNext ==
    \/ AddSchema \/ AddCmtRecords
    \/ \E c \in todo : LinkComponent(c)
    \/ Dispatch \/ FoldRow \/ Built

=============================================================================
