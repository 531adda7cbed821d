------------------------------ MODULE Annotate ------------------------------
(***************************************************************************)
(* `offramp annotate` over an extract whose graph is built: a pass of      *)
(* concurrent model calls (understand/annotate.py), throttled by one       *)
(* limiter and tried again when an answer is not JSON, merged into         *)
(* annotations.json by content hash (cli/annotate.py), then a pass over    *)
(* the detected business processes (understand/clustering.py).             *)
(*                                                                         *)
(* Abstracted: time in ticks; texts; what the model is shown, but for what *)
(* the confidence rules ask about it (annotate_context.py, tier_rules.py); *)
(* confidences in hundredths; one command at a time, which the user may    *)
(* kill; a write_text happens at once; a version of a component is never   *)
(* restored.  The provenance anchors go to the in-memory client, which     *)
(* does not fail.                                                          *)
(***************************************************************************)
EXTENDS OrgImpact

CONSTANTS
    Filters,        \* values of --name: sets of component names
    Answers,        \* what the model answers: [tier, self, unknowns, evidence]
    Concurrency,    \* --concurrency
    PerWindow,      \* requests_per_minute
    Window,         \* the minute, in ticks
    MaxPasses,      \* commands given
    MaxChanges,     \* components that change between extracts
    MaxKills        \* commands killed

VARIABLES
    content,        \* content_hash of each component of the extract
    stage,          \* where the command is
    job,            \* of each task of the gather: where it is
    fresh, told,    \* what this command has produced: annotations by job, stories
    times, asleep,  \* the limiter: ages of its grants, and who sleeps in its lock
    file,           \* annotations.json
    stories,        \* process_annotations.json
    calls,          \* ghost: ages of the requests of this command
    latest,         \* ghost: the last saved answer about each component
    passes, changed, kills

commandVars == <<stage, job, fresh, told, times, asleep, calls>>
savedVars == <<content, file, stories, latest, passes, changed, kills>>
passVars == <<commandVars, savedVars>>

Names == {c.name : c \in org.components}
Of(n) == Source(<<"component", n>>)
NoOne == <<"no one">>

------------------------------------------------------------------------------
(* What the static facts of a component say of its tier.                    *)

Tiers == {"tier1_rules", "tier2_temporal", "tier3_langgraph"}
Tier2Category == {"approval_process", "flow_orchestration", "schedule_triggered_flow",
    "platform_event_triggered_flow", "escalation_rule", "platform_event"}
LaterSignals == {"callout", "credential", "async", "async_entry", "wait", "external_action", "outbound"}

\* The classes whose callouts and async work a caller inherits through the steps of
\* its definition; a test has none, nor a bundle or a surface.
Callees(c) == {k \in org.components : k.category = "apex_class" /\ ~c.test
                 /\ c.category \notin Surface \cup {"lwc_bundle", "aura_bundle"}
                 /\ \E u \in c.uses : u.use \in {"apex_class", "async"} /\ u.name = k.name}
TierHint(c) ==
    IF "inbound_email" \in c.signals THEN "tier3_langgraph"
    ELSE IF \/ c.category \in Tier2Category
            \/ c.signals \cap LaterSignals # {}
            \/ \E k \in Callees(c) : k.signals \cap {"callout", "async"} # {}
    THEN "tier2_temporal"
    ELSE "tier1_rules"

\* Empty sharing rules are answered without the model (build_dossier).
Deterministic(c) == c.category = "sharing_rule" /\ c.empty

\* What the dossier shows bounds what may be known: the rest of a hidden or
\* truncated source is not (source_available, truncated).
VisibleOf(c) == IF c.hidden THEN 50 ELSE IF c.long THEN 75 ELSE 100

\* _earned_confidence: agreeing with the hint helps, and then whatever the model
\* did not see or did not show caps.
Earned(c, a) ==
    Min({CASE a.tier = TierHint(c) -> a.self + 5
           [] a.tier \in Tiers \ {TierHint(c)} -> Min({a.self, 60})
           [] a.tier \notin Tiers -> a.self,
         VisibleOf(c),
         IF a.unknowns THEN 80 ELSE 100,
         IF a.evidence THEN 100 ELSE 50})

\* An annotation of a component, and of what content it was made.
Annotation(n, confidence, tier) ==
    [name |-> n, content |-> content[n], confidence |-> confidence, tier |-> tier,
     needsReview |-> tier # TierHint(Of(n))]
TierOf(n, a) == IF a.tier \in Tiers THEN a.tier ELSE TierHint(Of(n))

\* A minute admits requests; a model says in hundredths how sure it is; the source
\* of an empty component is neither hidden nor long (build_dossier).
ASSUME AnnotateAssumption ==
    /\ PerWindow \in Nat \ {0} /\ Window \in Nat \ {0}
    /\ \A a \in Answers : a.self \in 0..100
    /\ \A o \in Orgs : \A c \in o.components : Deterministic(c) => ~c.hidden /\ ~c.long

------------------------------------------------------------------------------
(* The limiter.  Its lock is held while its holder sleeps.                  *)

KeepRecent(kept, age) == IF age < Window THEN Append(kept, age) ELSE kept
Recent(ages) == FoldLeft(KeepRecent, <<>>, ages)
Send(j) ==
    /\ job' = [job EXCEPT ![j] = IF job[j] = "throttled" THEN "called" ELSE "called again"]
    /\ calls' = Append(calls, 0)
Throttled(j) == job[j] \in {"throttled", "throttled again"}

Wait(j) ==
    /\ Throttled(j) /\ asleep = NoOne
    /\ IF Len(Recent(times)) >= PerWindow
       THEN /\ asleep' = j /\ times' = Recent(times)
            /\ UNCHANGED <<job, calls>>
       ELSE /\ times' = Append(Recent(times), 0) /\ Send(j)
            /\ UNCHANGED asleep
    /\ UNCHANGED <<stage, fresh, told, savedVars>>

\* The sleep is until the oldest grant is a minute old; nothing is counted again.
Wake(j) ==
    /\ asleep = j /\ Head(times) >= Window
    /\ asleep' = NoOne
    /\ times' = Append(Recent(times), 0)
    /\ Send(j)
    /\ UNCHANGED <<stage, fresh, told, savedVars>>

Older(ages) == [i \in DOMAIN ages |-> IF ages[i] < Window THEN ages[i] + 1 ELSE Window]
Tick ==
    /\ stage # "idle"
    /\ times # Older(times)
    /\ times' = Older(times)
    /\ calls' = Recent(Older(calls))
    /\ UNCHANGED <<stage, job, fresh, told, asleep, savedVars>>

------------------------------------------------------------------------------
(* The tasks of a gather.                                                   *)

Holding == {j \in DOMAIN job : job[j] \notin {"waiting", "done"}}

\* The semaphore's slots go round in the order of the extract's list, which is
\* any.  A component answered by rule makes no request.
Start(j) ==
    /\ job[j] = "waiting" /\ Cardinality(Holding) < Concurrency
    /\ IF stage = "components" /\ Deterministic(Of(j[2]))
       THEN /\ job' = [job EXCEPT ![j] = "done"]
            /\ fresh' = With(fresh, j[2], Annotation(j[2], 100, "tier1_rules"))
       ELSE /\ job' = [job EXCEPT ![j] = "throttled"]
            /\ UNCHANGED fresh
    /\ UNCHANGED <<stage, told, times, asleep, calls, savedVars>>

\* A process is no surer than its members are on average; a model that is not
\* sure at all counts as half sure (`or 0.5`).
Story(members, a) ==
    LET sure == {n \in members : n \in DOMAIN fresh}
        sum == MapThenSumSet(LAMBDA n : fresh[n].confidence, sure)
        self == IF a.self = 0 THEN 50 ELSE a.self IN
    [members |-> members, confidence |-> Min({self, sum \div Cardinality(sure)})]

InFlight(j) == job[j] \in {"called", "called again"}
Answer(j) ==
    /\ InFlight(j)
    /\ job' = [job EXCEPT ![j] = "done"]
    /\ \E a \in Answers :
          IF stage = "components"
          THEN fresh' = With(fresh, j[2], Annotation(j[2], Earned(Of(j[2]), a), TierOf(j[2], a))) /\ UNCHANGED told
          ELSE told' = told \cup {Story(j[2], a)} /\ UNCHANGED fresh
    /\ UNCHANGED <<stage, times, asleep, calls, savedVars>>

\* Not JSON: a component is asked for again, once, through the limiter.
\* Mutant: it is asked again at once.
RetriedAtOnce(j) ==
    /\ job' = [job EXCEPT ![j] = "called again"]
    /\ calls' = Append(calls, 0)
Retried(j) ==
    /\ job' = [job EXCEPT ![j] = "throttled again"]
    /\ UNCHANGED calls
Unparseable(j) ==
    /\ stage = "components" /\ job[j] = "called"
    /\ Retried(j)
    /\ UNCHANGED <<stage, fresh, told, times, asleep, savedVars>>

\* Any other failure, and the second one, leaves the task without a result; the
\* others go on.
Skip(j) ==
    /\ InFlight(j)
    /\ job' = [job EXCEPT ![j] = "done"]
    /\ UNCHANGED <<stage, fresh, told, times, asleep, calls, savedVars>>

------------------------------------------------------------------------------
(* The command.                                                             *)

Gather(to, jobs) == stage' = to /\ job' = [j \in jobs |-> "waiting"]
Ended ==
    /\ stage' = "idle" /\ job' = <<>> /\ fresh' = <<>> /\ told' = {}
    /\ times' = <<>> /\ asleep' = NoOne /\ calls' = <<>>

\* Automation only, unless surfaces are asked for; a new limiter each time.
Begin(filter, surfaces) ==
    /\ phase = "built" /\ walk = Idle
    /\ stage = "idle"
    /\ passes < MaxPasses /\ passes' = passes + 1
    /\ Gather("components", {<<"component", n>> : n \in
            {m \in filter \cap Names : surfaces \/ Of(m).category \notin Surface}})
    /\ UNCHANGED <<fresh, told, times, asleep, calls, content, file, stories, latest, changed, kills>>

\* load_annotations: an annotation belongs to the component that has its
\* content now; of two with the same content, to the last in the extract.
Loaded ==
    {[a EXCEPT !.name = CHOOSE n \in Names : content[n] = a.content] :
        a \in {x \in file : \E n \in Names : content[n] = x.content}}

\* _merge_existing: what this pass did not produce is kept.
\* Mutant: what this pass was asked for is not kept, whether it was produced or not.
KeptUnasked == {a \in Loaded : <<"component", a.name>> \notin DOMAIN job}
Kept == {a \in Loaded : a.name \notin DOMAIN fresh}

\* A finer partition is possible, a coarser is not: networkx's communities
\* never join what no edge connects.
Beside(ns) == {k[1] : k \in {e \in DOMAIN edges : e[2] \in ns}} \cup {k[2] : k \in {e \in DOMAIN edges : e[1] \in ns}}
Inside == {n \in nodes : n[1] # "external"}
Cluster(n) == FoldSet(LAMBDA i, ns : ns \cup (Beside(ns) \cap Inside), {n}, 1..Cardinality(Inside))
Processes == {{m[2] : m \in {x \in Cluster(n) : IsComponent(x)}} : n \in {x \in nodes : IsComponent(x)}}

Settled == \A j \in DOMAIN job : job[j] = "done"

\* annotations.json is written when every component is done.  With --processes, and
\* if any was annotated, the processes with two members annotated in this pass follow.
SaveAnnotations ==
    /\ stage = "components" /\ Settled
    /\ file' = Kept \cup {fresh[n] : n \in DOMAIN fresh}
    /\ latest' = [n \in DOMAIN fresh \cup DOMAIN latest |->
                     IF n \in DOMAIN fresh THEN fresh[n] ELSE latest[n]]
    /\ \/ Ended
       \/ /\ DOMAIN fresh # {}
          /\ Gather("processes", {<<"process", p>> : p \in {q \in Processes : Cardinality(q \cap DOMAIN fresh) >= 2}})
          /\ UNCHANGED <<fresh, told, times, asleep, calls>>
    /\ UNCHANGED <<content, stories, passes, changed, kills>>

\* process_annotations.json is replaced by what this pass produced.
SaveStories ==
    /\ stage = "processes" /\ Settled
    /\ stories' = told
    /\ Ended
    /\ UNCHANGED <<content, file, latest, passes, changed, kills>>

Kill ==
    /\ stage # "idle"
    /\ kills < MaxKills /\ kills' = kills + 1
    /\ Ended
    /\ UNCHANGED <<content, file, stories, latest, passes, changed>>

\* Another extract finds a component changed.
Change(n) ==
    /\ stage = "idle" /\ passes > 0
    /\ changed < MaxChanges /\ changed' = changed + 1
    /\ content' = [content EXCEPT ![n] = <<n, @[2] + 1>>]
    /\ UNCHANGED <<commandVars, file, stories, latest, passes, kills>>

Rest ==     \* no command is given any more
    /\ stage = "idle" /\ passes = MaxPasses
    /\ UNCHANGED passVars

Task(j) == Start(j) \/ Wait(j) \/ Wake(j) \/ Answer(j) \/ Unparseable(j) \/ Skip(j)

PassInit ==
    /\ content = [n \in Names |-> <<Of(n).source, 1>>]
    /\ stage = "idle" /\ job = <<>> /\ fresh = <<>> /\ told = {}
    /\ times = <<>> /\ asleep = NoOne /\ calls = <<>>
    /\ file = {} /\ stories = {} /\ latest = <<>>
    /\ passes = 0 /\ changed = 0 /\ kills = 0
PassNext ==
    \/ \E f \in Filters, surfaces \in BOOLEAN : Begin(f, surfaces)
    \/ \E j \in DOMAIN job : Task(j)
    \/ Tick \/ SaveAnnotations \/ SaveStories \/ Kill
    \/ (\E n \in DOMAIN latest : Change(n)) \/ Rest

\* A question of the graph and an annotation pass are commands of their own;
\* neither writes what the other reads, so they are looked at one by one.
CommandInit == Init /\ PassInit
CommandNext ==
    \/ Next /\ passes = 0 /\ UNCHANGED passVars
    \/ PassNext /\ UNCHANGED impactVars
Commands == CommandInit /\ [][CommandNext]_<<impactVars, passVars>>

------------------------------------------------------------------------------
(* Properties.                                                              *)

\* However many tasks run, sleep and ask again, the model sees no more requests
\* in a minute than the setting allows (_RateLimiter): nobody's turn is counted
\* while another sleeps, and a retry takes its turn too.
RateRespected == Len(Recent(calls)) <= PerWindow

\* Between commands, what a reader of annotations.json is told of a component
\* (load_annotations) is the last saved answer about its present content, and
\* nothing else: a skipped answer or a killed pass costs nothing that was there,
\* a changed component loses its annotation.  Nor is it ever surer than what
\* Salesforce shows of the component.  Of components with the same content,
\* now or before one changed, one has the annotations of all: they are left out.
Alone(n) == \A m \in Names \ {n} : content[n] \notin {content[m], <<Of(m).source, 1>>}
AnnotationsKept ==
    stage = "idle" => \A n \in Names : Alone(n) =>
        LET shown == {a \in Loaded : a.name = n} IN
        /\ shown = IF n \in DOMAIN latest /\ latest[n].content = content[n] THEN {latest[n]} ELSE {}
        /\ \A a \in shown : a.confidence <= VisibleOf(Of(n))
=============================================================================
