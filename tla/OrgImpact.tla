----------------------------- MODULE OrgImpact -----------------------------
(***************************************************************************)
(* Questions asked of a built graph (understand/impact.py and              *)
(* understand/orphan/resolver.py): where is a thing used, what does a      *)
(* change reach, what runs when a record is saved, which fields and        *)
(* classes nobody uses.                                                    *)
(*                                                                         *)
(* The change closure is a walk of several steps: the edges at a node come *)
(* in whatever order the graph was built, so any order is allowed.         *)
(***************************************************************************)
EXTENDS OrgGraph

CONSTANTS
    MaxDepth,       \* --depth, or impact_closure's max_depth
    MinConfidence   \* min_confidence, in hundredths

ASSUME ImpactAssumption == MaxDepth \in Nat

VARIABLE walk       \* of impact_closure: the node at hand, its edges left, the queue, what was found

impactVars == <<vars, walk>>

Idle == [at |-> "none"]
NoNode == <<"done">>
Source(n) == CHOOSE c \in org.components : Comp(c) = n
IsComponent(n) == n[1] = "component"
IsTest(n) == IsComponent(n) /\ Source(n).test
IsActive(n) == IsComponent(n) => Source(n).active
Category(n) == IF IsComponent(n) THEN Source(n).category ELSE IF n[1] = "external" THEN n[2] ELSE n[1]

\* _bucket.
Bucket(n) ==
    CASE IsComponent(n) /\ Category(n) \notin Surface -> "automation"
      [] Category(n) \in {"page_layout", "flexipage"} \/ (n[1] = "external" /\ n[2] \in {"layout", "listview"}) -> "ui"
      [] Category(n) \in Security -> "security"
      [] Category(n) = "report" -> "reporting"
      [] OTHER -> "other"

Defines(k) == k[3] = "owns" /\ edges[k].notes = {"defines"}
References(n) == {k \in Inbound(n) : ~Defines(k)}
Counts(k) == IsActive(k[1]) /\ ~IsTest(k[1])

------------------------------------------------------------------------------
(* where_used and unused_fields: two reports over the same edges.           *)

FieldsOf(o) == {f \in DOMAIN target : f[2] = o}

\* A reference is counted once per referring node and kind; an object is also
\* used wherever one of its fields is, by components only.
WhereUsed(n) ==
    LET via == IF n[1] # "object" THEN {}
               ELSE {k \in UNION {References(f) : f \in FieldsOf(n[2])} : IsComponent(k[1])}
        refs == References(n) \cup via
        active == {k \in refs : Counts(k)} IN
    [total |-> Cardinality(refs),
     active |-> Cardinality(active),
     automation |-> Cardinality({k \in active : Bucket(k[1]) = "automation"}),
     testOnly |-> refs # {} /\ \A k \in refs : IsTest(k[1]),
     inactiveOnly |-> refs # {} /\ \A k \in refs : ~IsActive(k[1]),
     apiOnly |-> Cardinality({k \in References(n) : edges[k].evidence = "dependency_api"})]

\* Of a custom field: why it is on the list of unused fields, or "used".
\* Mutant: forgets that a switched-off automation is no use.
LiveIfListed(sources) == {s \in sources : Bucket(s) = "automation" /\ ~IsTest(s)}
Live(sources) == {s \in sources : Bucket(s) = "automation" /\ IsActive(s) /\ ~IsTest(s)}
UnusedReason(f) ==
    LET sources == {k[1] : k \in References(f)}
        buckets == {Bucket(s) : s \in sources} IN
    CASE Live(sources) # {} -> "used"
      [] sources = {} -> "no_references"
      [] Live(sources) = {} /\ buckets = {"automation"} ->
            IF \A s \in sources : IsTest(s) THEN "test_only" ELSE "inactive_only"
      [] Live(sources) = {} /\ "ui" \in buckets -> "ui_only"
      [] Live(sources) = {} /\ "ui" \notin buckets /\ "security" \in buckets
            /\ "reporting" \notin buckets -> "security_only"
      [] Live(sources) = {} /\ "ui" \notin buckets /\ "reporting" \in buckets -> "reporting_only"
      [] OTHER -> "inactive_only"

CustomFields == {f \in DOMAIN target : f[3] \in CustomName}

------------------------------------------------------------------------------
(* save_impact.                                                             *)

\* The earliest step of the save a category takes part in; 0 when in none
\* (classify_steps).
StepOf == [record_triggered_flow |-> 4, platform_event_triggered_flow |-> 13,
    autolaunched_flow |-> 13, flow_orchestration |-> 13, process_builder |-> 13,
    apex_trigger |-> 5, validation_rule |-> 6, workflow_rule |-> 12, approval_process |-> 20,
    assignment_rule |-> 10, auto_response_rule |-> 11, escalation_rule |-> 14,
    sharing_rule |-> 17, rollup_summary |-> 16, platform_event |-> 20]
StepAt(k) ==
    LET cat == Category(k[1])
        notes == edges[k].notes IN
    CASE cat = "apex_trigger" /\ "after" \in notes /\ "before" \notin notes -> 9
      [] cat = "record_triggered_flow" /\ notes # {} /\ "BeforeSave" \notin notes -> 13
      [] cat \notin DOMAIN StepOf -> 0
      [] OTHER -> StepOf[cat]

\* What one edge says of its component: the whole of the object's edges come
\* before any of its fields'.
Relation(k) ==
    CASE k[3] = "triggers" -> "fires"
      [] k[3] # "triggers" /\ k[2][1] = "field" /\ "write" \in edges[k].notes -> "writes"
      [] OTHER -> "reads"

\* consider: rows is a function from the components met so far.
\* Mutant: the last word wins.
ConsideredLast(rows, k) ==
    IF ~IsComponent(k[1]) \/ IsTest(k[1]) \/ StepAt(k) = 0 THEN rows
    ELSE With(rows, k[1], [step |-> StepAt(k),
                           relation |-> IF IsActive(k[1]) THEN Relation(k) ELSE "inactive"])
Considered(rows, k) ==
    LET row == [step |-> StepAt(k), relation |-> IF IsActive(k[1]) THEN Relation(k) ELSE "inactive"] IN
    IF ~IsComponent(k[1]) \/ IsTest(k[1]) \/ StepAt(k) = 0 THEN rows
    ELSE IF k[1] \notin DOMAIN rows THEN With(rows, k[1], row)
    ELSE IF rows[k[1]].relation \in {"inactive", row.relation} THEN rows
    ELSE IF row.relation = "fires" THEN [rows EXCEPT ![k[1]] = row]
    ELSE IF row.relation = "writes" /\ rows[k[1]].relation = "reads"
    THEN [rows EXCEPT ![k[1]].relation = "writes"]
    ELSE rows

\* Only the edges of one component meet in a row.
EdgesToObject(c, o) == {k \in Outbound(Comp(c)) : k[2] = Obj(o)}
EdgesToFields(c, o) == {k \in Outbound(Comp(c)) : k[2] \in FieldsOf(o)}
SaveRow(objectEdges, fieldEdges) ==
    FoldLeft(Considered, FoldLeft(Considered, <<>>, objectEdges), fieldEdges)

------------------------------------------------------------------------------
(* resolve_orphans, on the channels a graph carries: the Apex classes no    *)
(* caller was found for, and why each may exist all the same.               *)

\* _called_apex_classes.  Mutant: dispatch by a configuration row is forgotten.
CallerCallsOnly(k) ==
    /\ k[3] \in {"calls", "triggers"}
    /\ Category(k[1]) \notin {"lwc_bundle", "CronTrigger"} /\ ~IsTest(k[1])
Caller(k) ==
    /\ k[3] \in {"calls", "dispatches", "triggers"}
    /\ Category(k[1]) \notin {"lwc_bundle", "CronTrigger"} /\ ~IsTest(k[1])
Called(c) == \E k \in Inbound(Comp(c)) : Caller(k)
ImportedByLwc(c) ==
    \E b \in org.components : /\ b.category = "lwc_bundle"
                              /\ \E u \in b.uses : u.use = "apex_class" /\ u.name = c.name
ScheduledInGraph(c) == \E k \in Inbound(Comp(c)) : Category(k[1]) = "CronTrigger"
Resolution(c) ==
    IF Called(c) THEN "referenced"
    ELSE IF c.logged THEN "runtime_log"
    ELSE IF ImportedByLwc(c) THEN "lwc_import"
    ELSE IF ScheduledInGraph(c) THEN "cron_trigger"
    ELSE IF c.granted THEN "connected_app_scope"
    ELSE IF c.entry THEN "entry_point"
    ELSE IF c.test THEN "test" ELSE "dead"

------------------------------------------------------------------------------
(* impact_closure.                                                          *)

Sees(k, seen) ==
    /\ edges[k].confidence >= MinConfidence
    /\ k[1] \notin seen /\ ~IsTest(k[1])
Lower(a, b) == IF a < b THEN a ELSE b

Ask(n) ==
    /\ phase = "built"
    /\ walk = Idle
    /\ walk' = [start |-> n, at |-> n, dist |-> 0, conf |-> 100, left |-> Inbound(n),
                queue |-> <<>>, seen |-> {n}, found |-> <<>>]
    /\ UNCHANGED vars

\* The fields (or objects) an automation writes are reached with it, two steps
\* away from the node at hand.
\* Mutant: they are reported but not followed.
WrittenNotFollowed(w, s, conf, order) ==
    [w EXCEPT !.seen = @ \cup {order[i][2] : i \in DOMAIN order},
              !.found = @ @@ [t \in {order[i][2] : i \in DOMAIN order} |-> w.dist + 2]]
Write(v, k, dist, conf) ==
    IF k[2] \in v.seen THEN v
    ELSE [v EXCEPT !.seen = @ \cup {k[2]},
                   !.found = With(@, k[2], dist + 2),
                   !.queue = Append(@, <<k[2], dist + 2, Lower(conf, edges[k].confidence)>>)]
Written(w, s, conf, order) ==
    FoldLeft(LAMBDA v, k : Write(v, k, w.dist, conf), w, order)

Follow(k) ==
    /\ walk # Idle /\ walk.at # NoNode
    /\ walk.dist < MaxDepth
    /\ LET left == [walk EXCEPT !.left = @ \ {k}]
           s == k[1]
           conf == Lower(walk.conf, edges[k].confidence)
           w == [left EXCEPT !.seen = @ \cup {s}, !.found = With(@, s, walk.dist + 1),
                             !.queue = Append(@, <<s, walk.dist + 1, conf>>)]
           writes == IF IsComponent(s) THEN {e \in Outbound(s) : "write" \in edges[e].notes} ELSE {} IN
       IF ~Sees(k, walk.seen) THEN walk' = left
       ELSE \E order \in SetToSeqs(writes) : walk' = Written(w, s, conf, order)
    /\ UNCHANGED vars

Pop ==
    /\ walk # Idle /\ walk.at # NoNode
    /\ walk.left = {} \/ walk.dist >= MaxDepth
    /\ walk' = IF walk.queue = <<>> THEN [walk EXCEPT !.at = NoNode, !.left = {}]
               ELSE LET q == Head(walk.queue) IN
                    [walk EXCEPT !.at = q[1], !.dist = q[2], !.conf = q[3],
                                 !.left = Inbound(q[1]), !.queue = Tail(@)]
    /\ UNCHANGED vars

Answered ==         \* the command line process ends
    /\ walk # Idle /\ walk.at = NoNode
    /\ UNCHANGED impactVars

Init == InitGraph /\ walk = Idle
Next ==
    \/ BuildNext /\ UNCHANGED walk
    \/ \E n \in nodes : Ask(n)
    \/ walk # Idle /\ \E k \in walk.left : Follow(k)
    \/ Pop \/ Answered
Spec == Init /\ [][Next]_impactVars

------------------------------------------------------------------------------
(* Properties.                                                              *)

Done == phase = "built"
Finished == walk # Idle /\ walk.at = NoNode

\* Every path a component names leaves a trace, in whatever order components
\* are linked: an edge to a field of the path's last name, an edge to a field
\* on the way whose target is not known, or a recorded gap.  And a field that
\* is written says so, whatever else the component does with it.
EveryReferenceTraced ==
    Done => \A c \in org.components : \A path \in c.fields :
        LET to == {k[2] : k \in Outbound(Comp(c))} \cap DOMAIN target IN
        /\ \/ \E t \in to : t[3] = Last(path)
           \/ \E t \in to : /\ target[t] = <<>>
                            /\ \E i \in 2..Len(path) - 1 : t[3] \in {path[i], FieldOfHop[path[i]]}
           \/ <<Comp(c), path>> \in gaps
        /\ path \in c.written /\ <<Comp(c), path>> \notin gaps =>
              "write" \in edges[<<Comp(c), Fld(path[1], path[2]), "references">>].notes

\* A custom field that the org does not have is a gap, never a node: only a
\* package or one of the loose objects may bring one along.
CustomFieldNeverInvented ==
    \A f \in CustomFields :
        \/ \E x \in org.fields : Fld(x.object, x.name) = f
        \/ PackageOf(f[2], f[3]) # "none"
        \/ f[2] \in LooseObject

\* The two reports agree: a custom field is listed as unused exactly when
\* where-used finds no live automation, and the reasons say the same.
UnusedAgreesWithWhereUsed ==
    Done => \A f \in CustomFields :
        LET w == WhereUsed(f) IN
        /\ UnusedReason(f) # "used" <=> w.automation = 0
        /\ UnusedReason(f) = "no_references" <=> w.total = 0
        /\ UnusedReason(f) = "test_only" => w.testOnly
        /\ w.testOnly => UnusedReason(f) = "test_only"

\* What the save report says of a component does not depend on the order in
\* which the fields of the object are visited (they are a set of strings).
SaveImpactIgnoresOrder ==
    Done => \A o \in org.objects : \A c \in org.components :
        \A os \in SetToSeqs(EdgesToObject(c, o)) :
            Cardinality({SaveRow(os, fs) : fs \in SetToSeqs(EdgesToFields(c, o))}) = 1

\* A class reported dead is called by nothing that lives, whichever parser
\* found the call: at most tests, grants and rows of the Dependency API point
\* at it.
DeadIsUncalled ==
    Done => \A c \in org.components :
        (c.category = "apex_class" /\ Resolution(c) = "dead") =>
            \A k \in Inbound(Comp(c)) : Counts(k) => k[3] = "references"

\* A finished walk has left nothing out: what depends on a node it reached
\* before the depth limit was reached too, and so was all that an automation
\* it reached writes.
Reached == DOMAIN walk.found \cup {walk.start}
ClosureComplete ==
    Finished => \A n \in Reached :
        LET dist == IF n = walk.start THEN 0 ELSE walk.found[n] IN
        /\ dist < MaxDepth => \A k \in Inbound(n) : Sees(k, {}) => k[1] \in Reached
        /\ IsComponent(n) /\ n # walk.start =>
              \A k \in Outbound(n) : "write" \in edges[k].notes => k[2] \in Reached
=============================================================================
