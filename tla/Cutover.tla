------------------------------- MODULE Cutover -------------------------------
(***************************************************************************)
(* Cutover of one business process: the routing row in Postgres, the       *)
(* `offramp cutover` commands that read and rewrite it, the MCP gateways'  *)
(* copies of it, and the provenance anchors (cutover/, mcp/routing.py,       *)
(* cli/cutover.py).                                                        *)
(*                                                                         *)
(* A command is an operating-system process of its own: it reloads the     *)
(* routing table into private memory, decides from that memory, writes the *)
(* row and anchors the transition.  Nothing between the reload and the     *)
(* write excludes another command; the CronJob only excludes itself        *)
(* (infra/helm/offramp/templates/cutover-cronjob.yaml).                    *)
(*                                                                         *)
(* Abstracted: one process id (rows of different ids never meet), the      *)
(* printed JSON, scores other than as a verdict the scorer may return.     *)
(***************************************************************************)
EXTENDS StageLadder

CONSTANTS
    Worker,           \* OS processes with a RoutingTable: commands, gateways
    Cron,               \* the one of them that is the CronJob
    Stream,             \* anchor streams whose last entry is kept
    Seed,               \* hash seeds
    Record,             \* records of the business process
    Bucket,             \* _bucket: Bucket[seed][record] in 0..99
    Dwell,              \* _DEFAULT_DWELL, in ticks
    Verdict,            \* [score, eligible] pairs ReadinessScorer.score returns
    AdvanceAt,          \* advance_threshold              (98 in the code)
    RollbackAt,         \* rollback_threshold             (95)
    ImmediateAt,        \* immediate_rollback_threshold   (90)
    Exclusive,          \* TRUE: one command at a time; FALSE: they overlap
    MaxTime,            \* bound on the clock
    MaxCrashes          \* bound on killed commands

ASSUME CutoverAssumption ==
    /\ Cron \in Worker
    /\ Stream \subseteq {"stage_transition", "f44"}
    /\ Seed # {}
    /\ Bucket \in [Seed -> [Record -> 0..99]]
    /\ Dwell \in [Stages -> Nat]
    /\ Verdict \subseteq [score: 0..100, eligible: BOOLEAN]
    /\ AdvanceAt \in 0..100 /\ RollbackAt \in 0..100 /\ ImmediateAt \in 0..100
    /\ Exclusive \in BOOLEAN
    /\ MaxTime \in Nat
    /\ MaxCrashes \in Nat

VARIABLES
    row,        \* the routing_config row, or NoRow
    now,        \* the wall clock
    verdict,    \* what the shadow store currently says
    task,       \* the command each operator is running
    ledger,     \* per anchor stream, the last transition anchored
    torn,       \* a command died after its write and before its anchors
    crashes,
    firstHeld   \* history: when each stage was first in force, or Never

vars == <<row, now, verdict, task, ledger, torn, crashes, firstHeld>>

------------------------------------------------------------------------------
(* Data.                                                                    *)

Row == [stage: Stages, seed: Seed, since: Nat]
NoRow == [stage |-> -1]

Kind == {"begin", "advance", "rollback", "immediate_rollback",
         "instant_rollback", "hold"}
Transition == [kind: Kind, from: Stages, to: Stages]
Move(k, f, t) == [kind |-> k, from |-> f, to |-> t]
Hold == Move("hold", 0, 0)

\* The commands that may write; status, dry runs and monitoring without
\* --auto-rollback only read.  "serve" is an MCP gateway, which routes by a table
\* as RoutingTable's docstring has it: reload after construction, then lookups.
Command == {"begin", "advance", "advance_confirm", "rollback", "monitor_auto",
            "serve"}

Pc == {"idle", "loaded", "decided", "written", "anchored", "serving"}

Never == -1

\* A process slot with no command in it.
Idle == [pc |-> "idle", command |-> "advance", mem |-> NoRow, plan |-> Hold]

\* RoutingConfig.dwell_complete.  Mutant: one tick early.
DwellAlmostComplete(cfg, t) == t + 1 - cfg.since >= Dwell[cfg.stage]
DwellComplete(cfg, t) == t - cfg.since >= Dwell[cfg.stage]

\* route_for_record and RoutingTable.route: without a row, Salesforce.
RunsOnRuntime(cfg, r) == cfg # NoRow /\ Bucket[cfg.seed][r] < cfg.stage
RuntimeRecords(cfg) == {r \in Record : RunsOnRuntime(cfg, r)}

------------------------------------------------------------------------------
(* Decisions.                                                                *)

\* The conditions of CutoverOrchestrator.evaluate.  Mutants: a step back that
\* waits for the dwell, an advance that does not.
StepsBackAfterDwell(cfg, v, t) == v.score < RollbackAt /\ cfg.stage > 0 /\ DwellComplete(cfg, t)
StepsBack(cfg, v, t) == v.score < RollbackAt /\ cfg.stage > 0

AdvancesOnScore(cfg, v, t) == v.score >= AdvanceAt /\ v.eligible /\ HasNext(cfg.stage)
Advances(cfg, v, t) == /\ v.score >= AdvanceAt
                       /\ v.eligible
                       /\ DwellComplete(cfg, t)
                       /\ HasNext(cfg.stage)

\* CutoverOrchestrator.evaluate: the first condition that holds decides.
Evaluate(cfg, v, t) ==
    IF cfg = NoRow THEN Hold
    ELSE IF v.score < ImmediateAt THEN Move("immediate_rollback", cfg.stage, 0)
    ELSE IF StepsBack(cfg, v, t)
         THEN Move("rollback", cfg.stage, PreviousStage(cfg.stage))
    ELSE IF Advances(cfg, v, t)
         THEN Move("advance", cfg.stage, NextStage(cfg.stage))
    ELSE Hold

\* PostCutoverMonitor.check with auto_rollback: it says "from 100" and asks
\* nobody for a sign-off, whatever the score.
Check(cfg, v) ==
    IF cfg # NoRow /\ cfg.stage >= 100 /\ v.score < RollbackAt
    THEN Move("instant_rollback", 100, 0)
    ELSE Hold

\* What a loaded command resolves to.  Mutant: the manual rollback borrows
\* the monitor's "from 100".
ResolveFrom100(p, v, t) ==
    CASE p.command = "begin" -> Move("begin", 0, 1)
      [] p.command = "rollback" /\ p.mem # NoRow -> Move("instant_rollback", 100, 0)
      [] p.command \in {"advance", "advance_confirm"} -> Evaluate(p.mem, v, t)
      [] p.command = "monitor_auto" -> Check(p.mem, v)
      [] OTHER -> Hold
Resolve(p, v, t) ==
    CASE p.command = "begin" -> Move("begin", 0, 1)
      [] p.command = "rollback" /\ p.mem # NoRow ->
            Move("instant_rollback", p.mem.stage, 0)
      [] p.command \in {"advance", "advance_confirm"} -> Evaluate(p.mem, v, t)
      [] p.command = "monitor_auto" -> Check(p.mem, v)
      [] OTHER -> Hold

\* The first lines of CutoverOrchestrator.apply: a hold, or an immediate
\* rollback without its sign-off, ends the command with nothing applied.
Applies(p, plan) ==
    /\ plan.kind # "hold"
    /\ plan.kind = "immediate_rollback" => p.command = "advance_confirm"

------------------------------------------------------------------------------
(* The commands, step by step.                                              *)

\* RoutingTable.reload at the head of every command.
Reload(o, c) ==
    /\ task[o].pc = "idle"
    /\ o = Cron => c = "advance"
    /\ Exclusive => \A q \in Worker : task[q].pc \in {"idle", "serving"}
    /\ task' = [task EXCEPT ![o] = [pc |-> IF c = "serve" THEN "serving" ELSE "loaded",
                                    command |-> c, mem |-> row, plan |-> Hold]]
    /\ UNCHANGED <<row, now, verdict, ledger, torn, crashes, firstHeld>>

\* evaluate, check, or the head of begin and of rollback.
Decide(o) ==
    /\ task[o].pc = "loaded"
    /\ LET plan == Resolve(task[o], verdict, now) IN
       task' = [task EXCEPT ![o] = IF Applies(@, plan)
                                   THEN [@ EXCEPT !.pc = "decided", !.plan = plan]
                                   ELSE Idle]
    /\ UNCHANGED <<row, now, verdict, ledger, torn, crashes, firstHeld>>

\* The seed an upsert writes: begin chooses one, everything else carries the
\* one it loaded.  Mutant: every write falls back to begin's default.
AnySeed(p) == Seed
SeedsFor(p) == IF p.command = "begin" THEN Seed ELSE {p.mem.seed}

\* RoutingTable.upsert: the write looks at nothing that is in the row.
Upsert(o) ==
    /\ task[o].pc = "decided"
    /\ \E s \in SeedsFor(task[o]) :
          LET to == task[o].plan.to IN
          /\ row' = [stage |-> to, seed |-> s, since |-> now]
          /\ firstHeld' = [firstHeld EXCEPT ![to] = IF @ = Never THEN now ELSE @]
    /\ task' = [task EXCEPT ![o].pc = "written", ![o].mem = row']
    /\ UNCHANGED <<now, verdict, ledger, torn, crashes>>

\* CutoverProvenance.anchor_stage_transition: two anchors, one after the
\* other.
Anchored(o, a) ==
    ledger' = [b \in Stream |-> IF b = a THEN {task[o].plan} ELSE ledger[b]]

AnchorTransition(o) ==
    /\ task[o].pc = "written"
    /\ Anchored(o, "stage_transition")
    /\ task' = [task EXCEPT ![o].pc = "anchored"]
    /\ UNCHANGED <<row, now, verdict, torn, crashes, firstHeld>>

\* Mutant: no F44 anchor for a rollback.
AnchorF44Forward(o) ==
    /\ task[o].pc = "anchored"
    /\ IF task[o].plan.kind = "rollback" THEN UNCHANGED ledger ELSE Anchored(o, "f44")
    /\ task' = [task EXCEPT ![o] = Idle]
    /\ torn' = FALSE
    /\ UNCHANGED <<row, now, verdict, crashes, firstHeld>>
AnchorF44(o) ==
    /\ task[o].pc = "anchored"
    /\ Anchored(o, "f44")
    /\ task' = [task EXCEPT ![o] = Idle]
    /\ torn' = FALSE
    /\ UNCHANGED <<row, now, verdict, crashes, firstHeld>>

\* The command's process is killed (pod eviction, Ctrl-C, an exception from
\* Postgres or Engram): its memory is gone, what it wrote stays.
Crash(o) ==
    /\ task[o].pc \notin {"idle", "serving"}
    /\ crashes < MaxCrashes
    /\ crashes' = crashes + 1
    /\ task' = [task EXCEPT ![o] = Idle]
    /\ torn' = (torn \/ task[o].pc \in {"written", "anchored"})
    /\ UNCHANGED <<row, now, verdict, ledger, firstHeld>>

\* A gateway goes down; the next one is a new Reload.
StopServing(o) ==
    /\ task[o].pc = "serving"
    /\ task' = [task EXCEPT ![o] = Idle]
    /\ UNCHANGED <<row, now, verdict, ledger, torn, crashes, firstHeld>>

------------------------------------------------------------------------------
(* The rest of the world.                                                   *)

\* Shadow events arrive and the score moves.
Rescore ==
    /\ verdict' \in Verdict
    /\ UNCHANGED <<row, now, task, ledger, torn, crashes, firstHeld>>

Tick ==
    /\ now < MaxTime
    /\ now' = now + 1
    /\ UNCHANGED <<row, verdict, task, ledger, torn, crashes, firstHeld>>

Init ==
    /\ row = NoRow
    /\ now = 0
    /\ verdict \in Verdict
    /\ task = [o \in Worker |-> Idle]
    /\ ledger = [a \in Stream |-> {}]
    /\ torn = FALSE
    /\ crashes = 0
    /\ firstHeld = [s \in Stages |-> Never]

Step(o) == Decide(o) \/ Upsert(o) \/ AnchorTransition(o) \/ AnchorF44(o)

Next ==
    \/ \E o \in Worker :
          \/ \E c \in Command : Reload(o, c)
          \/ Decide(o)
          \/ Upsert(o)
          \/ AnchorTransition(o)
          \/ AnchorF44(o)
          \/ Crash(o)
          \/ StopServing(o)
    \/ Rescore
    \/ Tick

Spec == Init /\ [][Next]_vars

\* The CronJob runs `advance` every 15 minutes and a started command runs to
\* its end; people and gateways owe nobody a step.
FairSpec ==
    /\ Spec
    /\ WF_vars(Reload(Cron, "advance"))
    /\ \A o \in Worker : WF_vars(Step(o))

------------------------------------------------------------------------------
(* Properties.                                                              *)

\* Every variable keeps its type; in particular no sequence of overlapping
\* commands leaves a percentage in the row that is not a stage.
TypeOK ==
    /\ row \in Row \cup {NoRow}
    /\ now \in Nat
    /\ verdict \in Verdict
    /\ task \in [Worker -> [pc: Pc, command: Command,
                             mem: Row \cup {NoRow}, plan: Transition]]
    /\ ledger \in [Stream -> SUBSET Transition]
    /\ torn \in BOOLEAN
    /\ crashes \in Nat
    /\ firstHeld \in [Stages -> Nat \cup {Never}]

\* The ladder is climbed, whatever overlaps and whatever dies: no stage above
\* 1% is in force for the first time before the stage below it has been held
\* for its dwell.  Stale decisions may rewrite the row with an old rung, but
\* never with a rung nobody has earned (evaluate + apply + instant_rollback).
LadderClimbed ==
    \A s \in Stages \ {0, 1} :
        firstHeld[s] # Never =>
            /\ firstHeld[PreviousStage(s)] # Never
            /\ firstHeld[s] >= firstHeld[PreviousStage(s)] + Dwell[PreviousStage(s)]

\* While the score stays in the band where evaluate rolls back by itself, the
\* CronJob brings the process back to Salesforce again and again, no matter
\* what the people do meanwhile (architecture.md section 3, Cutover, step 4).
Slipping == row # NoRow /\ verdict.score \in ImmediateAt..(RollbackAt - 1)
RegressionUnwinds == <>[]Slipping => []<>(row.stage = 0)

\* One command at a time, the row moves as a staged rollout does: up one rung
\* after its dwell, down one rung or to zero, and nothing else.
Rollout == INSTANCE StagedRollout
               WITH stage <- row.stage,
                    since <- IF row = NoRow THEN 0 ELSE row.since
ImplementsRollout == Rollout!Spec

\* No flip-flop (router.py, module docstring): except by `begin`, which may
\* choose another seed, a record that runs on the runtime goes back to
\* Salesforce only when the percentage goes down.
BeginWrites == \E o \in Worker : /\ task[o].command = "begin"
                                  /\ task[o].pc = "decided"
                                  /\ task'[o].pc = "written"
NoFlipFlop ==
    [][~BeginWrites /\ row # NoRow /\ row'.stage >= row.stage
          => RuntimeRecords(row) \subseteq RuntimeRecords(row')]_vars

\* The provenance record is current: with no command under way and none dead
\* between write and anchors, both streams end with the stage in force.
LedgerTellsStage ==
    (\A o \in Worker : task[o].pc \in {"idle", "serving"}) /\ ~torn /\ row # NoRow
        => \A a \in Stream : \E t \in ledger[a] : t.to = row.stage

\* The provenance record is a chain: unless anchors were lost, each transition
\* starts where the one anchored before it ended (begin always says "from 0").
LedgerChains ==
    [][\A a \in Stream : \A old \in ledger[a], new \in ledger'[a] :
          old # new /\ ~torn /\ new.kind # "begin" => new.from = old.to]_vars

\* What mcp/routing.py (module docstring) and the rollback runbook say of a
\* rollback: the next request sees it.  Once the row is at 0%, no gateway
\* sends anything to the runtime.
RollbackReachesGateway ==
    row # NoRow /\ row.stage = 0
        => \A o \in Worker : task[o].pc = "serving" => RuntimeRecords(task[o].mem) = {}

=============================================================================
