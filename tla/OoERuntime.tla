----------------------------- MODULE OoERuntime -----------------------------
(***************************************************************************)
(* One transaction of the Order-of-Execution runtime                       *)
(* (runtime/ooe/state_machine.py, runtime/rules/engine.py).                *)
(*                                                                         *)
(* A transaction is a first save, which makes the TransactionContext, and  *)
(* the cascaded child saves its caller passes that context to, one after   *)
(* the other.  A save runs its steps in order; a step runs the rules       *)
(* registered for its object, in any order (the seeded shuffle).  The      *)
(* first exception ends the transaction.                                   *)
(*                                                                         *)
(* Abstracted: field values (a rule either mutates the record or does not) *)
(* and the trace.  What a rule answers depends on data, so it is any of    *)
(* the answers its kind allows.                                            *)
(***************************************************************************)
EXTENDS Integers, Sequences, FiniteSets

CONSTANTS
    Entity,         \* records that may be saved
    SObjectOf,      \* their object
    WithId,         \* the ones that carry an Id
    Setup,          \* SETUP_OBJECTS
    Rule,           \* the RulesEngine's registry
    RuleObject, RuleStep, RuleKind,
    Scopes,         \* the in_scope_steps a Surface Audit may have left
    DepthLimit,     \* cascade_depth_limit (16 in the code)
    MaxSaves        \* bound on the saves of the transaction

\* execute_save: the steps a save goes through.  The last two are the re-fire
\* cycle, entered only when step 12 asked for it.
Pipeline == <<5, 6, 9, 10, 11, 12, 13, 5, 9>>
Validation == 2
Workflow == 6
Flows == 7
Refire == 8
Positions == DOMAIN Pipeline
Done == Len(Pipeline) + 1

ASSUME OoEAssumption ==
    /\ WithId \subseteq Entity /\ "transaction_id" \notin Entity
    /\ DOMAIN SObjectOf = Entity
    /\ RuleStep \in [Rule -> 1..21]
    /\ RuleKind \in [Rule -> {"validation", "computation"}]
    /\ DOMAIN RuleObject = Rule
    /\ Scopes \subseteq SUBSET (1..21)
    /\ DepthLimit \in Nat /\ MaxSaves \in Nat

VARIABLES
    saves,      \* history: the entities saved so far, the current one last
    pc,         \* "idle" between saves, "entering" or "evaluating" a step, "raised"
    position,   \* in Pipeline
    todo,       \* rules of the step still to be evaluated
    ctx,        \* the TransactionContext
    runs,       \* history: the <<save, position>> whose step was executed
    rejected,   \* history: saves with a failed validation rule in step 6
    asked       \* history: saves with a field mutation in step 12

vars == <<saves, pc, position, todo, ctx, runs, rejected, asked>>

Context == [depth: Nat, refireFlag: BOOLEAN, refireDone: BOOLEAN,
            fired: SUBSET ((Entity \cup {"transaction_id"}) \X {SObjectOf[e] : e \in Entity}),
            failed: BOOLEAN, aborted: BOOLEAN, touched: SUBSET BOOLEAN, inScope: Scopes]

NewContext(scope) ==
    [depth |-> 0, refireFlag |-> FALSE, refireDone |-> FALSE, fired |-> {},
     failed |-> FALSE, aborted |-> FALSE, touched |-> {}, inScope |-> scope]

Current == saves[Len(saves)]
ObjectNow == SObjectOf[Current]
StepNow == Pipeline[position]

\* RulesEngine.rules_for
RulesFor(object, step) == {r \in Rule : RuleObject[r] = object /\ RuleStep[r] = step}

\* _maybe_fire_flows: a record without an Id is keyed by the transaction.
\* Mutant: keyed by its object alone.
ObjectKey(e) == <<"transaction_id", SObjectOf[e]>>
FlowKey(e) == <<IF e \in WithId THEN e ELSE "transaction_id", SObjectOf[e]>>

Init ==
    /\ saves = <<>> /\ pc = "idle" /\ position = 1 /\ todo = {}
    /\ \E scope \in Scopes : ctx = NewContext(scope)
    /\ runs = {} /\ rejected = {} /\ asked = {}

------------------------------------------------------------------------------
(* A save begins: execute_save down to _record_object_class.                *)

\* Each sees the context the save is given.
TooDeep(c) == c.depth > DepthLimit
Touches(c, e) == c.touched \cup {SObjectOf[e] \in Setup}
MixedDML(c) == c.touched = BOOLEAN

BeginSave(e) ==
    /\ pc = "idle" /\ Len(saves) < MaxSaves
    /\ LET deeper == [ctx EXCEPT !.depth = IF saves = <<>> THEN @ ELSE @ + 1]
           touching == [deeper EXCEPT !.touched = Touches(deeper, e)]
       IN IF TooDeep(deeper)
          THEN pc' = "raised" /\ ctx' = deeper
          ELSE /\ ctx' = touching
               /\ pc' = IF MixedDML(touching) THEN "raised" ELSE "entering"
    /\ saves' = Append(saves, e)
    /\ position' = 1
    /\ UNCHANGED <<todo, runs, rejected, asked>>

------------------------------------------------------------------------------
(* The steps of the save.                                                   *)

\* The next position after a step that returned.
Proceed == /\ position' = position + 1
           /\ pc' = "entering"

\* execute_save asks for the re-fire once per transaction.  Mutant: the flag
\* alone decides.
RefireWhenAsked(c) == c.refireFlag
RefireDue(c) == c.refireFlag /\ ~c.refireDone

\* _maybe_fire_flows' early return.
SkipsFlows == position = Flows /\ FlowKey(Current) \in ctx.fired

\* What the caller of _step sets before it.
BeforeStep(c) ==
    CASE position = Refire -> [c EXCEPT !.refireDone = TRUE, !.refireFlag = FALSE]
      [] position = Flows -> [c EXCEPT !.fired = @ \cup {FlowKey(Current)}]
      [] OTHER -> c

Skip ==
    /\ pc = "entering" /\ position < Done
    /\ SkipsFlows
    /\ Proceed
    /\ UNCHANGED <<saves, todo, ctx, runs, rejected, asked>>

\* The head of _step: out of scope is an error, no rules is a return.
EnterStep ==
    /\ pc = "entering" /\ position < Done
    /\ ~SkipsFlows
    /\ position = Refire => RefireDue(ctx)
    /\ ctx' = BeforeStep(ctx)
    /\ IF StepNow \notin ctx.inScope
       THEN pc' = "raised" /\ UNCHANGED <<position, todo, runs>>
       ELSE /\ runs' = runs \cup {<<Len(saves), position>>}
            /\ todo' = RulesFor(ObjectNow, StepNow)
            /\ IF todo' = {} THEN Proceed ELSE pc' = "evaluating" /\ UNCHANGED position
    /\ UNCHANGED <<saves, rejected, asked>>

\* One rule passes, or answers nothing, or is a computation that raised: the
\* exception is recorded as a result nobody looks at.
RulePasses(r) ==
    /\ pc = "evaluating" /\ r \in todo
    /\ todo' = todo \ {r}
    /\ UNCHANGED <<saves, pc, position, ctx, runs, rejected, asked>>

\* A validation rule whose error condition holds, or that raised.
RuleFails(r) ==
    /\ pc = "evaluating" /\ r \in todo
    /\ RuleKind[r] = "validation"
    /\ todo' = todo \ {r}
    /\ ctx' = [ctx EXCEPT !.failed = TRUE]
    /\ rejected' = IF position = Validation THEN rejected \cup {Len(saves)} ELSE rejected
    /\ UNCHANGED <<saves, pc, position, runs, asked>>

\* A computation writes fields: record.update, at once.
RuleMutates(r) ==
    /\ pc = "evaluating" /\ r \in todo
    /\ RuleKind[r] = "computation"
    /\ todo' = todo \ {r}
    /\ IF position = Workflow
       THEN /\ ctx' = [ctx EXCEPT !.refireFlag = TRUE]
            /\ asked' = asked \cup {Len(saves)}
       ELSE UNCHANGED <<ctx, asked>>
    /\ UNCHANGED <<saves, pc, position, runs, rejected>>

\* The foot of _step: step 6 looks at the results of the whole transaction.
\* Mutant: only the last rule's result counts.
FinishStepLenient ==
    /\ pc = "evaluating" /\ todo = {}
    /\ Proceed
    /\ UNCHANGED <<saves, todo, ctx, runs, rejected, asked>>
FinishStep ==
    /\ pc = "evaluating" /\ todo = {}
    /\ IF position = Validation /\ ctx.failed
       THEN /\ pc' = "raised"
            /\ ctx' = [ctx EXCEPT !.aborted = TRUE]
            /\ UNCHANGED position
       ELSE Proceed /\ UNCHANGED ctx
    /\ UNCHANGED <<saves, todo, runs, rejected, asked>>

\* execute_save returns the context.
Return ==
    /\ pc = "entering"
    /\ position = Done \/ (position = Refire /\ ~RefireDue(ctx))
    /\ pc' = "idle"
    /\ UNCHANGED <<saves, position, todo, ctx, runs, rejected, asked>>

Next ==
    \/ \E e \in Entity : BeginSave(e)
    \/ Skip
    \/ EnterStep
    \/ \E r \in Rule : RulePasses(r) \/ RuleFails(r) \/ RuleMutates(r)
    \/ FinishStep
    \/ Return

Spec == Init /\ [][Next]_vars

------------------------------------------------------------------------------
(* Properties.                                                              *)

\* Saves whose re-fire cycle was started.
Refired == {run[1] : run \in {x \in runs : x[2] = Refire}}

\* The re-fire cycle (step 12 asks for steps 5 and 9 again, once): a transaction
\* re-fires at most once; it does so at the first save that asks, in full, and
\* a save that never asked is never re-fired for.
RefireOnce ==
    /\ Cardinality(Refired) <= 1
    /\ \A i \in Refired : i \in asked /\ \A j \in asked : i <= j
    /\ pc = "idle" => /\ asked # {} => Refired # {}
                      /\ \A i \in Refired : <<i, Refire + 1>> \in runs

\* Once-per-entity-per-transaction for flows: when the saves are over, each
\* record with an Id that was saved has had its flows run by exactly one save.
FlowsOncePerEntity ==
    \A e \in WithId :
        LET fired == {i \in DOMAIN saves : saves[i] = e /\ <<i, Flows>> \in runs}
        IN /\ Cardinality(fired) <= 1
           /\ pc = "idle" /\ (\E i \in DOMAIN saves : saves[i] = e) => fired # {}

\* A save rejected by a validation rule stops there: no later step of it and
\* no later save runs, and the context says aborted once the step is over.
ValidationStops ==
    /\ \A i \in rejected : \A x \in runs : x[1] < i \/ (x[1] = i /\ x[2] <= Validation)
    /\ rejected # {} /\ pc \in {"idle", "entering", "raised"} => pc = "raised" /\ ctx.aborted

=============================================================================
