----------------------------- MODULE FlowVerify -----------------------------
(***************************************************************************)
(* `offramp verify --roundtrip` (cli/verify.py, verify/): each flow is     *)
(* rendered, deployed beside the original, driven by a recipe under a      *)
(* debug trace, and the log is compared with the definition.               *)
(*                                                                         *)
(* The org is external: a save fires the flows that fit it, one after the  *)
(* other; what a flow's element writes may fire others inside it; an       *)
(* unhandled error undoes the whole transaction.  Only what the log says   *)
(* reaches the verifier, and errors and DML are logged without the         *)
(* interview they belong to.                                               *)
(***************************************************************************)
EXTENDS Recipes, Health

CONSTANTS
    Orgs,           \* [flows, files, fields, blanks, verify]
    MaxFailures,    \* calls to the org that raise in one session
    MaxPasses,      \* passes through the body of a loop
    MaxDepth        \* frames of a transaction

VARIABLES
    org, defs,
    todo,           \* the flows still to verify
    pc,
    installed,      \* active flows of the org, copies included: name -> body
    flag,           \* a trace flag exists
    record,         \* the record of the recipe in the org, or Null
    known,          \* record_id: the runner knows of that record
    tx,             \* the transaction: frames, innermost last
    traces,         \* ExecutionTrace per interview, in order of start
    last,           \* the trace that logged an element most recently
    broken,         \* ghost: the interviews an unhandled error stopped
    note,           \* "none", "note" or, when a call raised, "raised"
    failures,       \* calls that raised
    spilled,        \* ghost: a record was made and its answer lost, or a clean-up call failed
    copied,         \* the round-trip copy is deployed
    results

trace == <<traces, last, broken>>
site == <<installed, flag, record, known>>
vars == <<org, defs, todo, pc, site, tx, trace, note, failures, spilled, copied, results>>

Copy(f) == f \o "_rt"

\* What an org's flows are: a copy has nobody else's name, a flow's elements and
\* outcomes have one name each and lead to one another, a flow a record triggers
\* has an object, and only an orchestration, which has no element that updates,
\* is of a category the health checks pass over.  A record-triggered flow is one
\* that a record triggers (classify_flow), and an action has no items (_element).
RuleKinds == {"workflow_rule", "assignment_rule", "escalation_rule", "auto_response_rule",
    "validation_rule", "approval_process", "apex_class", "apex_trigger"}
WellFormed(b) ==
    LET names == {e.name : e \in ToSet(b.elements)} \cup {None} IN
    /\ b.elements \in Seq(ToSet(b.elements)) /\ b.next \in names
    /\ \A e \in ToSet(b.elements) :
        /\ e.name # None /\ \A x \in ToSet(b.elements) : x.name = e.name => x = e
        /\ {e.next, e.fault, e.default, e.after} \subseteq names
        /\ e.rules \in Seq(ToSet(e.rules))
        /\ \A i \in DOMAIN e.rules :
            /\ e.rules[i].next \in names
            /\ \A x \in ToSet(b.elements) : \A j \in DOMAIN x.rules :
                  x.rules[j].name = e.rules[i].name => x = e /\ j = i
        /\ e.kind = "recordUpdates" => b.kind \in FlowKinds
        /\ e.kind = "actionCalls" => e.items = {}
    /\ b.trigger \in {"RecordBeforeSave", "RecordAfterSave"} => b.object # None
    /\ b.kind \notin RuleKinds
    /\ b.kind = "record_triggered_flow" =>
          b.trigger \in {"RecordBeforeSave", "RecordAfterSave", "RecordBeforeDelete"}
ASSUME FlowAssumption ==
    \A o \in Orgs :
        /\ o.verify \in Seq(DOMAIN o.flows) /\ None \notin DOMAIN o.flows
        /\ \A f \in DOMAIN o.flows :
            WellFormed(o.flows[f]) /\ \A g \in DOMAIN o.flows : f # Copy(g)
\* What its other files are: an object has one file of workflow rules, in which
\* names are told apart, as are classes by their names; only a class is a test.
Listed(list) == list \in Seq(ToSet(list))
OneEach(list) == Listed(list) /\ \A i, j \in DOMAIN list : list[i].name = list[j].name => i = j
Switched(x) == x.active \in {None, "true", "false"}
WorkflowOK(f, files) ==
    /\ f.object # None /\ \A g \in files : g.kind = f.kind /\ g.object = f.object => g = f
    /\ OneEach(f.rules) /\ Listed(f.alerts) /\ Listed(f.emailAlerts) /\ OneEach(f.alerts \o f.emailAlerts)
    /\ \A r \in ToSet(f.rules) :
          /\ {"name", "active", "type", "immediate", "timed"} \subseteq DOMAIN r /\ Switched(r)
          /\ Listed(r.immediate) /\ Listed(r.timed) /\ \A t \in ToSet(r.timed) : Listed(t)
EntriesOK(f) ==
    /\ Listed(f.groups)
    /\ \A g \in ToSet(f.groups) :
          /\ Switched(g) /\ Listed(g.ruleEntry) /\ Listed(g.ruleEntries)
          /\ \A e \in ToSet(g.ruleEntry \o g.ruleEntries) : Listed(e.actions)
FileOK(f, files) ==
    /\ f.kind \in RuleKinds
    /\ f.kind = "workflow_rule" => WorkflowOK(f, files)
    /\ f.kind \in {"assignment_rule", "escalation_rule", "auto_response_rule"} => EntriesOK(f)
    /\ f.kind = "approval_process" => Listed(f.steps)
    /\ f.kind = "apex_class" =>
          f.name # None /\ \A g \in files : g.kind = f.kind /\ g.name = f.name => g = f
    /\ f.kind = "apex_trigger" => ~f.test
ASSUME FileAssumption == \A o \in Orgs : \A f \in o.files : FileOK(f, o.files)
p == Head(todo)
Kind == defs[p].trigger.kind

------------------------------------------------------------------------------
(* build_processes: one definition per flow, and those of the other files.  *)

BuildProcesses ==
    /\ pc = "extract"
    /\ pc' = "next"
    /\ defs' = [f \in DOMAIN org.flows |-> FlowDefinition(org.flows[f])]
    /\ UNCHANGED <<org, todo, site, tx, trace, note, failures, spilled, copied, results>>
\* What never changes after, and so is no variable: the rules' definitions and
\* the findings about all of them.
RuleDefinitions == UNION {ToSet(BuildProcess(f)) : f \in org.files}
HealthFindings ==
    HealthChecks({defs[f] : f \in DOMAIN defs} \cup {d \in RuleDefinitions : d.active}, org.files, org.fields)

------------------------------------------------------------------------------
(* The debug log, parsed as it is written (parse_debug_log).                *)

\* outer (ghost): the interview it runs in, or 0 when what the recipe does fired it.
Trace(flow, outer) == [flow |-> flow, path |-> <<>>, dml |-> <<>>, errors |-> 0, rules |-> <<>>,
                       calls |-> {}, outer |-> outer]
Began(iv, e) ==
    /\ traces' = [traces EXCEPT ![iv].path = Append(@, [name |-> e.name, kind |-> e.kind])]
    /\ last' = iv
Judged(e, i) == {e.rules[j].name : j \in 1..i \cap DOMAIN e.rules}
Decided(iv, e, i) ==
    /\ traces' = [traces EXCEPT
            ![iv].path = Append(@, [name |-> e.name, kind |-> e.kind]),
            ![iv].rules = [n \in Judged(e, i) \cup DOMAIN @ |->
                IF n \in Judged(e, i) THEN i \in DOMAIN e.rules /\ e.rules[i].name = n ELSE @[n]]]
    /\ last' = iv
Called(iv, e) ==
    /\ traces' = [traces EXCEPT
            ![iv].path = Append(@, [name |-> e.name, kind |-> e.kind]),
            ![iv].calls = @ \cup {<<e.name, e.target>>}]
    /\ last' = iv
\* DML_BEGIN has no interview: it is the last one's.
Wrote(iv, e, object) ==
    /\ traces' = [traces EXCEPT
            ![iv].path = Append(@, [name |-> e.name, kind |-> e.kind]),
            ![iv].dml = Append(@, <<StepKind(e), object, e.name>>)]
    /\ last' = iv
\* FLOW_ELEMENT_ERROR has none either.
Errs == traces' = [traces EXCEPT ![last].errors = @ + 1]

------------------------------------------------------------------------------
(* The org's flow engine (external).                                        *)

\* A frame is an interview, or a subflow inside one; busy: its element has
\* begun and waits for what it called or fired.
NoFrame == [iv |-> 0, flow |-> None, at |-> None, fire |-> {}, busy |-> FALSE,
            failing |-> FALSE, passes |-> 0]
top == tx[Len(tx)]
Frame(f) == tx' = [tx EXCEPT ![Len(tx)] = f]
Body(frame) == installed[frame.flow]
At(frame) == LET b == Body(frame) IN
             b.elements[CHOOSE i \in DOMAIN b.elements : b.elements[i].name = frame.at]

Value(rec, f) == IF f \in DOMAIN rec THEN rec[f] ELSE Null
Holds(c, rec, prior) ==
    LET v == Value(rec, c.field) IN
    CASE c.op \in {"EqualTo", "Contains"} -> v = c.right
      [] c.op = "NotEqualTo" -> v # c.right
      [] c.op = "IsNull" -> (v = Null) = c.right[2]
      [] c.op = "GreaterThan" -> v[1] = "n" /\ v[2] > c.right[2]
      [] c.op = "LessThan" -> v[1] = "n" /\ v[2] < c.right[2]
      [] c.op = "IsChanged" -> v # Value(prior, c.field)
Meets(b, rec, prior) ==
    IF b.logic = "or" /\ b.when # <<>>
    THEN \E i \in DOMAIN b.when : Holds(b.when[i], rec, prior)
    ELSE \A i \in DOMAIN b.when : Holds(b.when[i], rec, prior)
Listens(b, object, event) ==
    /\ b.trigger \in {"RecordBeforeSave", "RecordAfterSave"}
    /\ b.object = object /\ Contains(b.events, event)
\* The org refuses a record without its required fields.
Complete(object, rec) ==
    {f \in DOMAIN org.fields[object] : org.fields[object][f].required} \subseteq DOMAIN rec
Fires(b, object, event, rec, prior) ==
    /\ Listens(b, object, event)
    /\ Meets(b, rec, prior)
    /\ b.changed /\ event = "update" => ~Meets(b, prior, prior)
Fired(object, event, rec, prior) ==
    {f \in DOMAIN installed : Fires(installed[f], object, event, rec, prior)}

Running == tx # <<>> /\ top.fire = {} /\ ~top.failing /\ ~top.busy /\ top.flow # None
EngineOnly == UNCHANGED <<org, defs, todo, pc, site, note, failures, spilled, copied, results>>
Doing(kinds) == Running /\ top.at # None /\ At(top).kind \in kinds

\* The next of the flows a save fires.
StartInterview ==
    /\ tx # <<>> /\ top.fire # {}
    /\ \E f \in top.fire :
       /\ traces' = Append(traces, Trace(f, top.iv))
       /\ last' = Len(traces) + 1
       /\ tx' = Append([tx EXCEPT ![Len(tx)].fire = @ \ {f}],
                       [NoFrame EXCEPT !.iv = Len(traces) + 1, !.flow = f, !.at = installed[f].next])
    /\ UNCHANGED broken /\ EngineOnly

Ended ==
    /\ Running /\ top.at = None
    /\ tx' = Front(tx)
    /\ UNCHANGED trace /\ EngineOnly

Decide(i) ==
    /\ Doing({"decisions"})
    /\ LET e == At(top) IN
       /\ i <= Len(e.rules) + 1
       /\ Decided(top.iv, e, i)
       /\ Frame([top EXCEPT !.at = IF i \in DOMAIN e.rules THEN e.rules[i].next ELSE e.default])
    /\ UNCHANGED broken /\ EngineOnly

Loop ==
    /\ Doing({"loops"})
    /\ LET e == At(top) IN
       /\ Began(top.iv, e)
       /\ \/ top.passes < MaxPasses /\ Frame([top EXCEPT !.at = e.next, !.passes = @ + 1])
          \/ Frame([top EXCEPT !.at = e.after])
    /\ UNCHANGED broken /\ EngineOnly

Subflow ==
    /\ Doing({"subflows"})
    /\ LET e == At(top) IN
       /\ Began(top.iv, e)
       /\ tx' = Append([tx EXCEPT ![Len(tx)].busy = TRUE],
                       [NoFrame EXCEPT !.iv = top.iv, !.flow = e.target,
                                       !.at = installed[e.target].next])
    /\ UNCHANGED broken /\ EngineOnly

\* A write fires some of the flows that listen to its object.
Event(e) == CASE e.kind = "recordCreates" -> "create" [] e.kind = "recordUpdates" -> "update"
              [] e.kind = "recordDeletes" -> "delete"
Write ==
    /\ Doing({"recordCreates", "recordUpdates", "recordDeletes"})
    /\ LET e == At(top)
           object == TargetObject(Body(top), e)
           listening == IF Len(tx) < MaxDepth
                        THEN {f \in DOMAIN installed : Listens(installed[f], object, Event(e))}
                        ELSE {} IN
       /\ Wrote(top.iv, e, object)
       /\ \E fs \in SUBSET listening : Frame([top EXCEPT !.fire = fs, !.busy = TRUE])
    /\ UNCHANGED broken /\ EngineOnly

\* Whatever else an element does, it may fail.
Act ==
    /\ Doing({"assignments", "recordLookups", "actionCalls", "customErrors"})
    /\ LET e == At(top) IN
       IF e.kind = "actionCalls" THEN Called(top.iv, e) ELSE Began(top.iv, e)
    /\ Frame([top EXCEPT !.busy = TRUE])
    /\ UNCHANGED broken /\ EngineOnly

Resume ==
    /\ tx # <<>> /\ top.fire = {} /\ top.busy /\ ~top.failing
    /\ \/ /\ At(top).kind # "customErrors"
          /\ Frame([top EXCEPT !.at = At(top).next, !.busy = FALSE])
       \/ /\ At(top).kind \notin {"assignments", "subflows"}
          /\ Frame([top EXCEPT !.failing = TRUE])
    /\ UNCHANGED trace /\ EngineOnly

\* A failed element takes its fault connector; without one its interview ends
\* in an error and the element around it fails too.
Handled ==
    /\ tx # <<>> /\ top.failing /\ top.flow # None /\ At(top).fault # None
    /\ Frame([top EXCEPT !.at = At(top).fault, !.failing = FALSE, !.busy = FALSE])
    /\ UNCHANGED trace /\ EngineOnly
Unhandled ==
    /\ tx # <<>> /\ top.failing /\ top.flow # None /\ At(top).fault = None
    /\ Errs
    /\ broken' = IF tx[Len(tx) - 1].iv = top.iv THEN broken ELSE broken \cup {top.iv}
    /\ tx' = [Front(tx) EXCEPT ![Len(tx) - 1].failing = TRUE, ![Len(tx) - 1].fire = {}]
    /\ UNCHANGED last /\ EngineOnly

EngineNext ==
    \/ StartInterview \/ Ended \/ Loop \/ Subflow \/ Write \/ Act \/ Resume \/ Handled \/ Unhandled
    \/ \E i \in 1..3 : Decide(i)

------------------------------------------------------------------------------
(* verify_process, compare_roundtrip.                                       *)

\* What a step that calls something is followed by, unless the model knows it,
\* is the callee's.
Attributed(d, w, e) ==
    IF e.name \in Ids(d)
    THEN [w EXCEPT !.visited = Append(@, e.name),
                   !.calling = StepNamed(d, e.name).kind \in {"call_process", "call_code"}]
    ELSE IF w.calling THEN [w EXCEPT !.nested = @ \cup {e.name}]
    ELSE [w EXCEPT !.visited = Append(@, e.name)]
Split(d, path) ==
    FoldLeft(LAMBDA w, e : Attributed(d, w, e),
             [visited |-> <<>>, nested |-> {}, calling |-> FALSE], path)

LoggedKind(e) == IF e.kind \in {"actionCalls", "apexPluginCalls"} THEN "call_code" ELSE StepKind(e)
KindsAgree(d, path) ==
    \A e \in ToSet(path) : e.name \in Ids(d) =>
        LET kind == StepNamed(d, e.name).kind
            logged == LoggedKind([Element EXCEPT !.kind = e.kind]) IN
        \/ kind = logged
        \/ logged = "call_code" /\ kind \in {"call_process", "call_action", "notify"}

Follows(d, a, b) ==
    LET s == StepNamed(d, a) IN
    Successors(s) = {} \/ s.kind = "loop" \/ b = a \/ b \in Successors(s)
Pairs(path) == {<<path[i], path[i + 1]>> : i \in 1..Len(path) - 1}
PathAllowed(d, visited) ==
    /\ visited # <<>> /\ d.entry # None => visited[1] = d.entry
    /\ \A pair \in Pairs(visited) : pair[1] \in Ids(d) => Follows(d, pair[1], pair[2])

Expected(d, rules, s) ==
    LET true == {i \in DOMAIN s.branches :
                   s.branches[i].name \in DOMAIN rules /\ rules[s.branches[i].name]} IN
    IF true = {} THEN s.default ELSE s.branches[Min(true)].next
OutcomesMatch(d, visited, rules) ==
    rules = <<>> \/ \A pair \in Pairs(visited) :
        (pair[1] \in Ids(d) /\ StepNamed(d, pair[1]).kind = "decision") =>
            Expected(d, rules, StepNamed(d, pair[1])) \in {None, pair[2]}

\* What the log says was written after an element is that element's to write.
WritesMatch(d, t, nested) ==
    \A w \in ToSet(t.dml) :
        \/ w[3] \in nested
        \/ w[3] \in Ids(d) /\ StepNamed(d, w[3]).kind = w[1] /\ StepNamed(d, w[3]).object = w[2]

Verify(d, t) ==
    LET w == Split(d, t.path)
        agrees == /\ ToSet(w.visited) \subseteq Ids(d)
                  /\ KindsAgree(d, t.path)
                  /\ PathAllowed(d, w.visited)
                  /\ OutcomesMatch(d, w.visited, t.rules)
                  /\ \A c \in t.calls : c[1] \in Ids(d) => StepNamed(d, c[1]).target \in {None, c[2]}
                  /\ WritesMatch(d, t, w.nested) IN
    IF ~agrees THEN "mismatch" ELSE IF t.errors > 0 THEN "runtime_error" ELSE "pass"

\* find_trace: the first interview of that label.
Interviews(f) == {i \in DOMAIN traces : traces[i].flow = f}
Original == Min(Interviews(p))
CopyAgrees ==
    LET o == traces[Original]
        c == traces[Min(Interviews(Copy(p)))]
        names(t) == [i \in DOMAIN t.path |-> t.path[i].name] IN
    IF Interviews(Copy(p)) = {} THEN o.errors > 0
    ELSE /\ c.errors = 0 \/ o.errors > 0
         /\ names(o) = names(c)
         /\ [i \in DOMAIN o.dml |-> SubSeq(o.dml[i], 1, 2)] = [i \in DOMAIN c.dml |-> SubSeq(c.dml[i], 1, 2)]

\* Mutant: what the runner noted does not count.
StatusWithoutNote ==
    LET verdict == Verify(defs[p], traces[Original]) IN
    IF Interviews(p) = {} THEN "not_verifiable"
    ELSE IF verdict # "mismatch" /\ ~(copied /\ CopyAgrees) THEN "mismatch"
    ELSE verdict
Status ==
    LET verdict == Verify(defs[p], traces[Original]) IN
    IF Interviews(p) = {} THEN "not_verifiable"
    ELSE IF verdict # "mismatch" /\ ~(copied /\ CopyAgrees) THEN "mismatch"
    ELSE IF verdict = "pass" /\ note = "note" THEN "runtime_error"
    ELSE verdict

------------------------------------------------------------------------------
(* The session (_run_org, run_with_trace).                                  *)

Recipe ==
    LET d == defs[p] IN
    CASE Kind = "record_save" -> RecordRecipe(d, org.fields[d.trigger.object], defs, org.blanks)
      [] Kind = "invocation" -> AutolaunchedRecipe(d, org.fields, defs, org.blanks)
      [] OTHER -> Builder
RecipeObject ==
    IF Kind = "record_save" THEN defs[p].trigger.object
    ELSE SelectSeq(defs[p].steps, LAMBDA s : s.kind = "lookup")[1].object

MayFail == failures < MaxFailures
Raise == failures' = failures + 1
Goto(l) == pc' = l
Transaction(fs) == tx' = <<[NoFrame EXCEPT !.fire = fs]>>
Settled == Len(tx) = 1 /\ top.fire = {}
NextFlow(status) ==
    /\ Goto("next")
    /\ results' = (p :> status) @@ results
    /\ todo' = Tail(todo)
    /\ traces' = <<>> /\ last' = 0 /\ broken' = {}
    /\ note' = "none" /\ copied' = FALSE

\* deploy_roundtrip_copy: active, so that it fires with the original.
WithCopy ==
    LET name == Copy(p) IN
    [f \in DOMAIN installed \cup {name} |->
        IF f = name THEN RenderedBody(defs[p], name) ELSE installed[f]]
Deploy ==
    /\ pc = "next" /\ todo # <<>>
    /\ Goto("flag")
    /\ \/ /\ CanRender(defs[p])
          /\ installed' = WithCopy
          /\ copied' = TRUE /\ UNCHANGED failures
       \/ /\ CanRender(defs[p]) /\ MayFail /\ Raise   \* refused, or deployed and not heard of
          /\ installed' \in {installed, WithCopy}
          /\ UNCHANGED copied
       \/ ~CanRender(defs[p]) /\ UNCHANGED <<installed, copied, failures>>
    /\ UNCHANGED <<org, defs, todo, flag, record, known, tx, trace, note, spilled, results>>

\* What the runner cannot drive is not run; the copy stays as it is.
NotDriven ==
    /\ pc = "flag"
    /\ \/ Kind \notin {"record_save", "invocation"}
       \/ Kind = "record_save" /\ Recipe.create = <<>>
    /\ NextFlow("not_verifiable")
    /\ UNCHANGED <<org, defs, site, tx, failures, spilled>>
SetTraceFlag ==
    /\ pc = "flag" /\ Kind \in {"record_save", "invocation"}
    /\ Kind = "record_save" => Recipe.create # <<>>
    /\ \/ /\ flag' = TRUE /\ Goto("create")
          /\ UNCHANGED <<todo, trace, note, failures, copied, results>>
       \/ /\ MayFail /\ Raise
          /\ NextFlow("not_verifiable") /\ UNCHANGED flag
    /\ UNCHANGED <<org, defs, installed, record, known, tx, spilled>>

CreateRecord ==
    /\ pc = "create"
    /\ IF Recipe.create = <<>>
       THEN Goto("drive") /\ UNCHANGED <<tx, note, failures>>
       ELSE \/ /\ Complete(RecipeObject, Recipe.create)
               /\ Transaction(Fired(RecipeObject, "create", Recipe.create, <<>>))
               /\ Goto("creating") /\ UNCHANGED <<note, failures>>
            \/ /\ ~Complete(RecipeObject, Recipe.create)
               /\ note' = "note" /\ Goto("drive") /\ UNCHANGED <<tx, failures>>
            \/ /\ MayFail /\ Raise
               /\ note' = "note" /\ Goto("drive") /\ UNCHANGED tx
    /\ UNCHANGED <<org, defs, todo, site, trace, spilled, copied, results>>
\* A save that an error undid raises; so does one whose answer is lost.
Created ==
    /\ pc = "creating" /\ Settled
    /\ Goto("drive") /\ tx' = <<>>
    /\ \/ /\ ~top.failing
          /\ record' = Recipe.create /\ known' = TRUE
          /\ UNCHANGED <<note, failures, spilled>>
       \/ /\ top.failing
          /\ note' = "note" /\ UNCHANGED <<record, known, failures, spilled>>
       \/ /\ ~top.failing /\ MayFail /\ Raise
          /\ record' = Recipe.create /\ note' = "note" /\ spilled' = TRUE
          /\ UNCHANGED known
    /\ UNCHANGED <<org, defs, todo, installed, flag, trace, copied, results>>

\* Mutant: what raises during the update goes past the clean-up.
Abandoned ==
    /\ todo' = Tail(todo) /\ results' = (p :> "not_verifiable") @@ results
    /\ Goto("next") /\ note' = "none" /\ copied' = FALSE
    /\ UNCHANGED <<org, defs, site, trace, failures, spilled>>
UpdateRaises ==
    /\ note' = "raised" /\ Goto("clean")
    /\ UNCHANGED <<org, defs, todo, site, trace, failures, spilled, copied, results>>
UpdateRecord ==
    /\ pc = "drive" /\ Kind = "record_save"
    /\ IF known /\ Recipe.update # <<>>
       THEN /\ Transaction(Fired(RecipeObject, "update", Recipe.update @@ record, record))
            /\ Goto("updating")
       ELSE Goto("logs") /\ UNCHANGED tx
    /\ UNCHANGED <<org, defs, todo, site, trace, note, failures, spilled, copied, results>>
Updated ==
    /\ pc = "updating" /\ Settled
    /\ tx' = <<>>
    /\ \/ /\ ~top.failing
          /\ record' = Recipe.update @@ record /\ Goto("logs")
          /\ UNCHANGED <<org, defs, todo, installed, flag, known, trace, note, failures, spilled, copied, results>>
       \/ top.failing /\ UpdateRaises

\* The flow, then its copy; each invocation stands alone.
Invoke ==
    /\ pc = "drive" /\ Kind = "invocation"
    /\ Transaction({p}) /\ Goto("invoking")
    /\ UNCHANGED <<org, defs, todo, site, trace, note, failures, spilled, copied, results>>
Invoked ==
    /\ pc \in {"invoking", "invoking copy"} /\ Settled
    /\ note' = IF top.failing THEN "note" ELSE note
    /\ IF pc = "invoking" /\ copied
       THEN Transaction({Copy(p)}) /\ Goto("invoking copy")
       ELSE tx' = <<>> /\ Goto("logs")
    /\ UNCHANGED <<org, defs, todo, site, trace, failures, spilled, copied, results>>

ReadLogs ==
    /\ pc = "logs" /\ Goto("clean")
    /\ \/ UNCHANGED <<note, failures>>
       \/ MayFail /\ Raise /\ note' = "raised"
    /\ UNCHANGED <<org, defs, todo, site, tx, trace, spilled, copied, results>>

\* The finally of run_with_trace: a call that fails is only logged.
DeleteFlag ==
    /\ pc = "clean" /\ Goto("clean record")
    /\ \/ flag' = FALSE /\ UNCHANGED <<failures, spilled>>
       \/ MayFail /\ Raise /\ spilled' = TRUE /\ UNCHANGED flag
    /\ UNCHANGED <<org, defs, todo, installed, record, known, tx, trace, note, copied, results>>
DeleteRecord ==
    /\ pc = "clean record" /\ Goto("compare")
    /\ \/ ~known /\ UNCHANGED <<record, known, failures, spilled>>
       \/ known /\ record' = Null /\ known' = FALSE /\ UNCHANGED <<failures, spilled>>
       \/ known /\ MayFail /\ Raise /\ spilled' = TRUE /\ known' = FALSE /\ UNCHANGED record
    /\ UNCHANGED <<org, defs, todo, installed, flag, tx, trace, note, copied, results>>

\* Nothing to compare: the run raised, or the log is not there yet.
NotCompared ==
    /\ pc = "compare"
    /\ NextFlow("not_verifiable")
    /\ UNCHANGED <<org, defs, site, tx, failures, spilled>>
Compare ==
    /\ pc = "compare" /\ note # "raised"
    /\ NextFlow(Status)
    /\ \/ installed' = [f \in DOMAIN installed \ {Copy(p)} |-> installed[f]] /\ UNCHANGED failures
       \/ copied /\ MayFail /\ Raise /\ UNCHANGED installed
    /\ UNCHANGED <<org, defs, flag, record, known, tx, spilled>>

Finished == pc = "next" /\ todo = <<>> /\ UNCHANGED vars

------------------------------------------------------------------------------

Init ==
    /\ org \in Orgs
    /\ defs = <<>> /\ todo = org.verify /\ pc = "extract"
    /\ installed = org.flows
    /\ flag = FALSE /\ record = Null /\ known = FALSE
    /\ tx = <<>> /\ traces = <<>> /\ last = 0 /\ broken = {}
    /\ note = "none" /\ failures = 0 /\ spilled = FALSE /\ copied = FALSE /\ results = <<>>

SessionNext ==
    \/ BuildProcesses \/ Deploy \/ NotDriven \/ SetTraceFlag \/ CreateRecord \/ Created
    \/ UpdateRecord \/ Updated \/ Invoke \/ Invoked \/ ReadLogs \/ DeleteFlag \/ DeleteRecord
    \/ NotCompared \/ Compare \/ Finished

Next == EngineNext \/ SessionNext
Spec == Init /\ [][Next]_vars

------------------------------------------------------------------------------
(* Properties.                                                              *)

\* What the model of a flow was made of runs as the model allows: an interview,
\* as far as it came, is never reported as a mismatch, whatever subflows and
\* other interviews ran inside it or around it (verify_process, parse_debug_log).
\* Left out: a decision met twice, since the log's last word on its rules is
\* taken for every visit, and subflows that share a name with their caller,
\* since what they run is then taken for the caller's.
Revisited(t, name) ==
    \E i, j \in DOMAIN t.path : i # j /\ t.path[i].name = name /\ t.path[j].name = name
NamesIn(b) == UNION {{e.name} \cup {e.rules[i].name : i \in DOMAIN e.rules} : e \in ToSet(b.elements)}
Callees(b) == {e.target : e \in {x \in ToSet(b.elements) : x.kind = "subflows"}}
Within(flows, f, called) ==
    /\ Callees(flows[f]) \subseteq called
    /\ \A g \in called : /\ Callees(flows[g]) \subseteq called
                         /\ NamesIn(flows[g]) \cap NamesIn(flows[f]) = {}
CallsApart(flows, f) == \E called \in SUBSET DOMAIN flows : Within(flows, f, called)
PassesOrRevisits ==
    LET t == traces[Original] IN
    \/ \E s \in ToSet(defs[p].steps) : s.kind = "decision" /\ Revisited(t, s.id)
    \/ Verify(defs[p], t) # "mismatch"
FaithfulRunPasses ==
    (pc = "compare" /\ Interviews(p) # {} /\ CallsApart(org.flows, p)) => PassesOrRevisits

\* A flow whose interview an error stopped is never reported as passing, though
\* the log may charge that error to an interview inside it: the save it ran in
\* was undone, and that is noted (trace.py, _run_org).  Left out: a flow that
\* first runs inside the write of another, which may handle the failed write.
StoppedRunNeverPasses ==
    (/\ pc = "compare" /\ note # "raised" /\ Interviews(p) # {}
     /\ Original \in broken /\ traces[Original].outer = 0) => Status # "pass"

\* Between two flows neither the recipe's record nor the trace flag is left in
\* the org, whatever raised on the way, unless the org kept a record whose
\* creation it did not confirm or refused the clean-up itself
\* (run_with_trace).
RunLeavesNothing == (pc = "next" /\ ~spilled) => ~flag /\ record = Null /\ ~known

\* The copy's metadata, read again, gives the definition it was rendered from,
\* but for the fault connectors of steps that are neither record operations
\* nor actions (to_flow_xml, parse_flow, _from_flow).
FaultKept == {"lookup", "create", "update", "delete", "call_code", "call_action", "notify"}
WithoutLostFaults(d) ==
    [d EXCEPT !.steps = [i \in DOMAIN @ |->
        IF @[i].kind \in FaultKept THEN @[i] ELSE [@[i] EXCEPT !.fault = None]]]
DefinitionSurvives ==
    (pc = "flag" /\ copied) =>
        FlowDefinition(installed[Copy(p)]) = [WithoutLostFaults(defs[p]) EXCEPT !.name = Copy(p)]

\* A recipe makes its flow fire: no required field, validation rule or sibling
\* flow takes back what the entry conditions asked for (recipes.py).  Left
\* out: a field that must be null, a number or flag that must differ, and a
\* difference that must come with the update (the blank before it differed too).
Decidable(c) ==
    /\ c.field # None /\ c.right[1] \notin {"record", "var"}
    /\ \/ c.op \in {"EqualTo", "Contains", "GreaterThan", "LessThan", "IsChanged"}
       \/ c.op = "NotEqualTo" /\ c.right[1] = "s" /\ ~defs[p].trigger.changed
RecipeFires ==
    /\ pc = "compare" /\ Kind = "record_save" /\ note = "none" /\ failures = 0
    /\ \A c \in ToSet(defs[p].trigger.when) : Decidable(c)
    => Interviews(p) # {}

\* What running a definition from its first step does: a decision takes its
\* first branch that holds, every other step acts and goes on to its next.
Acts(d, holds) ==
    LET taken(s) == LET true == {i \in DOMAIN s.branches : holds[i]} IN
                    IF true = {} THEN s.default ELSE s.branches[Min(true)].next
        move(w, i) == IF w.at \notin Ids(d) THEN w
                      ELSE LET s == StepNamed(d, w.at) IN
                           IF s.kind = "decision" THEN [w EXCEPT !.at = taken(s)]
                           ELSE [at |-> s.next, done |-> Append(w.done, <<s.kind, s.target, s.fields>>)] IN
    FoldLeft(move, [at |-> d.entry, done |-> <<>>], [i \in DOMAIN d.steps |-> i]).done

\* An assignment or auto-response rule does what its first entry that matches
\* says and nothing of any other, whatever names its entries go by; a workflow
\* rule does its immediate actions, all of them and in order; and what is not
\* switched off is active (_entry_rules, _from_workflow, the extractors).
EntryActs(f, e) ==
    CASE f.kind = "auto_response_rule" -> <<<<"notify", e.template, {}>>>>
      [] f.kind = "assignment_rule" ->
            <<<<"update", e.to, {<<f.object, "OwnerId">>}>>>>
            \o (IF e.template = None THEN <<>> ELSE <<<<"notify", e.template, {}>>>>)
GroupActs(f, g) ==
    \E d \in RuleDefinitions :
        LET entries == g.ruleEntry \o g.ruleEntries IN
        /\ d.kind = f.kind /\ d.name = <<f.object, g.name>> /\ d.active = (g.active # "false")
        /\ \A holds \in [DOMAIN entries -> BOOLEAN] :
             LET true == {i \in DOMAIN holds : holds[i]} IN
             Acts(d, holds) = IF true = {} THEN <<>> ELSE EntryActs(f, entries[Min(true)])
ActionDone(f, a, done) ==
    CASE a.type = "FieldUpdate" ->
            \E u \in ToSet(f.fieldUpdates) :
                /\ u.name = a.name
                /\ done = <<"update", None, {<<IF u.object = None THEN f.object ELSE u.object, u.field[2]>>}>>
      [] a.type = "Alert" ->
            \E x \in ToSet(f.alerts) \cup ToSet(f.emailAlerts) :
                x.name = a.name /\ done = <<"notify", x.template, {}>>
      [] OTHER -> TRUE
RuleActs(f, r) ==
    \E d \in RuleDefinitions :
        /\ d.kind = f.kind /\ d.name = <<f.object, r.name>> /\ d.active = (r.active # "false")
        /\ LET done == Acts(d, <<>>) IN
           /\ Len(done) = Len(r.immediate)
           /\ \A i \in DOMAIN done : ActionDone(f, r.immediate[i], done[i])
RulesActAsConfigured ==
    (pc = "next" /\ todo = org.verify) =>
        \A f \in org.files :
            CASE f.kind \in {"assignment_rule", "auto_response_rule"} ->
                    \A i \in DOMAIN f.groups : GroupActs(f, f.groups[i])
              [] f.kind = "workflow_rule" ->
                    \A r \in {x \in ToSet(f.rules) : x.immediate # <<>>} : RuleActs(f, r)
              [] OTHER -> TRUE

\* An after-save flow whose own update fires it again while it runs was reported
\* as one that updates its own record, whatever the update is made of
\* (_check_same_object_update).  Left out: a flow fired again by what it creates
\* or deletes, or through a subflow, and one whose filter alone leads back to the
\* record, since filters are not read.
Again == {k \in 1..Len(tx) - 1 : /\ tx[k].flow # None /\ tx[k].flow = tx[k + 1].flow
                                /\ tx[k].iv # tx[k + 1].iv /\ tx[k].flow \in DOMAIN defs}
ReentryReported ==
    \A k \in Again :
        LET d == defs[tx[k].flow]
            s == StepNamed(d, tx[k].at) IN
        /\ d.trigger.timing = "after" /\ s.kind = "update"
        /\ s.when = <<>> \/ TouchesRecord(s)
        => \E x \in HealthFindings :
                x.code = "same_object_update_after_save" /\ x.component = Label(d) /\ s.id \in x.about

\* What the org would drop or refuse is found in its files: an active rule's
\* alert to the owner where an active assignment rule hands records to a queue,
\* and a callout, directly or one class further, in what a save runs
\* (_check_owner_alerts, _check_callouts).  Left out: a class that makes
\* callouts two calls away, or hands work on besides.
ToQueue(object) ==
    \E f \in org.files : /\ f.kind = "assignment_rule" /\ f.object = object
        /\ \E g \in ToSet(f.groups) : /\ g.active # "false"
            /\ \E e \in ToSet(g.ruleEntry \o g.ruleEntries) : e.type = "Queue"
AlertsOwner(f, r) ==
    \E a \in ToSet(r.immediate) \cup UNION {ToSet(t) : t \in ToSet(r.timed)} :
        a.type = "Alert" /\ \E x \in ToSet(f.alerts) \cup ToSet(f.emailAlerts) :
            x.name = a.name /\ "owner" \in x.recipients
OnSaveClasses ==
    (UNION {f.classes : f \in {x \in org.files : x.kind = "apex_trigger" /\ x.status = "Active"}})
    \cup UNION {{e.target : e \in {x \in ToSet(b.elements) : x.kind = "actionCalls" /\ x.action = "apex"}} :
                  b \in {org.flows[n] : n \in {m \in DOMAIN org.flows : org.flows[m].kind = "record_triggered_flow"}}}
CallsOut(f) == f.kind = "apex_class" /\ f.callouts # {} /\ f.async = {}
SaveHazardsReported ==
    (pc = "next" /\ todo = org.verify) =>
        /\ \A f \in {x \in org.files : x.kind = "workflow_rule"} : \A r \in ToSet(f.rules) :
              (r.active # "false" /\ AlertsOwner(f, r) /\ ToQueue(f.object)) <=>
              \E x \in HealthFindings : /\ x.code = "owner_alert_after_queue_assignment"
                                        /\ x.component = <<f.object, r.name>>
        /\ \A f \in {x \in org.files : CallsOut(x)} :
              (\/ f.name \in OnSaveClasses
               \/ \E g \in org.files : /\ g.kind = "apex_class" /\ g.name \in OnSaveClasses
                                       /\ g.callouts = {} /\ f.name \in g.classes) =>
              \E x \in HealthFindings : x.code = "callout_in_save_path" /\ f.name \in x.about

=============================================================================
