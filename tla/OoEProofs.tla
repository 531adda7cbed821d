------------------------------ MODULE OoEProofs ------------------------------
(***************************************************************************)
(* Proofs about OoERuntime for any records, rules, scopes, cascade depth   *)
(* and number of saves: type correctness, RefireOnce, FlowsOncePerEntity   *)
(* and ValidationStops.                                                    *)
(*                                                                         *)
(* The three properties speak of histories of the whole transaction; the   *)
(* code decides by the flags of the context it hands from save to save.    *)
(* IInv says what the flags know of the past: which save asked for the     *)
(* re-fire and which one got it (RefireInv), whose flows have run          *)
(* (FlowsInv), that a failed validation is looked at before anything else  *)
(* runs (RejectedInv), and that a save only ever moves forward             *)
(* (RunsInOrder).                                                          *)
(***************************************************************************)
EXTENDS OoERuntime, FiniteSetTheorems, TLAPS

Ran(i, p) == <<i, p>> \in runs
Last == Len(saves)

TypeOK ==
    /\ saves \in Seq(Entity)
    /\ pc \in {"idle", "entering", "evaluating", "raised"}
    /\ pc # "idle" => Last > 0
    /\ position \in 1..Done
    /\ todo \subseteq Rule
    /\ ctx \in Context
    /\ runs \subseteq (1..Last) \X Positions
    /\ rejected \subseteq 1..Last /\ asked \subseteq 1..Last

RunsInOrder ==
    /\ pc = "evaluating" => position < Done
    /\ \A p \in Positions :
          Ran(Last, p) => p <= position /\ (pc = "entering" => p < position)

\* The re-fire that the current save asked for is still to come; it has begun.
RefireAhead == /\ pc # "idle" /\ position \in Workflow..Refire
               /\ position = Refire => pc = "entering"
RefireUnderWay == \/ pc = "evaluating" /\ position = Refire
                  \/ pc = "entering" /\ position = Refire + 1
RefireInv ==
    /\ \A i \in 1..Last : Ran(i, Refire) =>
          ctx.refireDone /\ i \in asked /\ \A j \in asked : i <= j
    /\ pc # "raised" =>
          /\ ctx.refireDone => \E i \in 1..Last : Ran(i, Refire)
          /\ ~ctx.refireDone =>
                /\ ctx.refireFlag <=> asked # {}
                /\ asked \subseteq {Last}
                /\ asked # {} => RefireAhead
          /\ \A i \in 1..Last : Ran(i, Refire) =>
                Ran(i, Refire + 1) \/ (i = Last /\ RefireUnderWay)

\* The current save is past its flows.
FlowsDone == \/ pc = "idle" \/ position > Flows
             \/ pc = "evaluating" /\ position = Flows
FlowsInv ==
    /\ \A i \in 1..Last : Ran(i, Flows) => FlowKey(saves[i]) \in ctx.fired
    /\ \A i, j \in 1..Last :
          Ran(i, Flows) /\ Ran(j, Flows) /\ saves[i] = saves[j] /\ saves[i] \in WithId => i = j
    /\ pc # "raised" =>
          /\ \A e \in WithId : FlowKey(e) \in ctx.fired =>
                \E i \in 1..Last : saves[i] = e /\ Ran(i, Flows)
          /\ \A i \in 1..Last : i < Last \/ FlowsDone => FlowKey(saves[i]) \in ctx.fired

RejectedInv ==
    rejected # {} =>
        /\ rejected = {Last} /\ position = Validation /\ ctx.failed
        /\ pc = "evaluating" \/ (pc = "raised" /\ ctx.aborted)

IInv == TypeOK /\ RunsInOrder /\ RefireInv /\ FlowsInv /\ RejectedInv

------------------------------------------------------------------------------
(* The pipeline and the flow keys.                                          *)

LEMMA PipelineShape ==
    /\ Done = 10 /\ Positions = 1..9
    /\ Validation = 2 /\ Workflow = 6 /\ Flows = 7 /\ Refire = 8
BY DEF Done, Positions, Pipeline, Validation, Workflow, Flows, Refire

LEMMA KeyTyped ==
    \A e \in Entity :
        FlowKey(e) \in (Entity \cup {"transaction_id"}) \X {SObjectOf[d] : d \in Entity}
BY DEF FlowKey

\* A record with an Id shares its key with no other record, keyed by the
\* transaction or not.
LEMMA KeyIdentifies ==
    \A e \in WithId, d \in Entity : FlowKey(e) = FlowKey(d) => e = d
BY OoEAssumption DEF FlowKey

LEMMA InitIInv == Init => IInv
<1> SUFFICES ASSUME Init PROVE IInv
  OBVIOUS
<1> USE PipelineShape DEF Init
<1>1. PICK scope \in Scopes : ctx = NewContext(scope)
  OBVIOUS
<1>2. ctx \in Context /\ ~ctx.refireDone /\ ~ctx.refireFlag /\ ctx.fired = {}
  BY <1>1 DEF NewContext, Context
<1>3. saves \in Seq(Entity) /\ Last = 0
  BY DEF Last
<1>4. TypeOK
  BY <1>2, <1>3 DEF TypeOK
<1>5. RefireInv
  BY <1>2, <1>3 DEF RefireInv, Ran
<1>6. FlowsInv
  BY <1>2, <1>3 DEF FlowsInv, Ran
<1> QED
  BY <1>4, <1>5, <1>6 DEF IInv, RunsInOrder, RejectedInv, Ran

------------------------------------------------------------------------------
(* A save begins.                                                           *)

\* The flags of the context are handed on as they are.  Nothing has run in the
\* new save, and the one before it is over: what it asked for was done.
LEMMA BeginSaveIInv ==
    ASSUME IInv, NEW e \in Entity, BeginSave(e)
    PROVE  IInv'
<1> USE PipelineShape DEF IInv
<1> DEFINE deeper == [ctx EXCEPT !.depth = IF saves = <<>> THEN @ ELSE @ + 1]
           touching == [deeper EXCEPT !.touched = Touches(deeper, e)]
<1>1. /\ pc = "idle" /\ saves' = Append(saves, e) /\ position' = 1
      /\ \/ pc' = "raised" /\ ctx' = deeper
         \/ pc' \in {"raised", "entering"} /\ ctx' = touching
      /\ UNCHANGED <<todo, runs, rejected, asked>>
  BY DEF BeginSave
<1>2. /\ Last \in Nat /\ Last' = Last + 1 /\ saves' \in Seq(Entity)
      /\ \A i \in 1..Last : saves'[i] = saves[i]
      /\ saves'[Last'] = e
  BY <1>1 DEF TypeOK, Last
<1>3. deeper \in Context
  <2>1. ctx \in Context /\ ctx.depth \in Nat
    BY DEF TypeOK, Context
  <2>2. (IF saves = <<>> THEN ctx.depth ELSE ctx.depth + 1) \in Nat
    BY <2>1
  <2> QED
    BY <2>1, <2>2 DEF Context
<1>4. touching \in Context
  <2>1. Touches(deeper, e) \in SUBSET BOOLEAN
    <3>1. deeper.touched \subseteq BOOLEAN
      BY <1>3 DEF Context
    <3>2. (SObjectOf[e] \in Setup) \in BOOLEAN
      OBVIOUS
    <3> HIDE DEF deeper
    <3> QED
      BY <3>1, <3>2, Zenon DEF Touches
  <2> QED
    BY <1>3, <2>1 DEF Context
<1>5. /\ ctx' \in Context
      /\ ctx'.refireDone = ctx.refireDone /\ ctx'.refireFlag = ctx.refireFlag
      /\ ctx'.fired = ctx.fired
  <2>1. /\ deeper.refireDone = ctx.refireDone /\ deeper.refireFlag = ctx.refireFlag
        /\ deeper.fired = ctx.fired
    BY DEF TypeOK, Context
  <2>2. /\ touching.refireDone = ctx.refireDone /\ touching.refireFlag = ctx.refireFlag
        /\ touching.fired = ctx.fired
    BY <1>3, <2>1 DEF Context
  <2> HIDE DEF deeper, touching
  <2> QED
    BY <1>1, <1>3, <1>4, <2>1, <2>2
<1> HIDE DEF deeper, touching
<1>6. /\ \A i \in 1..Last' : i \in 1..Last \/ i = Last'
      /\ \A p : ~Ran(Last', p)
      /\ \A i, p : Ran(i, p) <=> Ran(i, p)'
  BY <1>1, <1>2 DEF TypeOK, Ran
<1>7. rejected = {}
  BY <1>1 DEF RejectedInv
<1>8. TypeOK'
  BY <1>1, <1>2, <1>5 DEF TypeOK
<1>9. RunsInOrder'
  BY <1>1, <1>6 DEF RunsInOrder
<1>10. RefireInv'
  <2>1. ~ctx.refireDone => asked = {}
    BY <1>1 DEF RefireInv, RefireAhead
  <2>2. \A i \in 1..Last : Ran(i, Refire) => Ran(i, Refire + 1)
    BY <1>1 DEF RefireInv, RefireUnderWay
  <2>3. \A i \in 1..Last' : Ran(i, Refire)' => i \in 1..Last /\ Ran(i, Refire)
    BY <1>6
  <2>4. \A i \in 1..Last : i \in 1..Last'
    BY <1>2
  <2> QED
    BY <1>1, <1>5, <1>6, <2>1, <2>2, <2>3, <2>4 DEF RefireInv
<1>11. FlowsInv'
  <2>1. \A i \in 1..Last' : Ran(i, Flows)' => i \in 1..Last /\ Ran(i, Flows)
    BY <1>6
  <2>2. /\ ~FlowsDone'
        /\ \A i \in 1..Last' : i < Last' => i \in 1..Last
        /\ \A i \in 1..Last : i \in 1..Last'
    BY <1>1, <1>2 DEF FlowsDone
  <2>3. FlowsDone
    BY <1>1 DEF FlowsDone
  <2>4. \A i \in 1..Last : /\ Ran(i, Flows) => FlowKey(saves'[i]) \in ctx'.fired
                           /\ (i < Last \/ FlowsDone) => FlowKey(saves'[i]) \in ctx'.fired
    BY <1>1, <1>2, <1>5 DEF FlowsInv
  <2>5. \A d \in WithId : FlowKey(d) \in ctx'.fired =>
          \E i \in 1..Last' : saves'[i] = d /\ Ran(i, Flows)'
    <3> SUFFICES ASSUME NEW d \in WithId, FlowKey(d) \in ctx.fired
                 PROVE  \E i \in 1..Last' : saves'[i] = d /\ Ran(i, Flows)'
      BY <1>5
    <3>1. PICK i \in 1..Last : saves[i] = d /\ Ran(i, Flows)
      BY <1>1 DEF FlowsInv
    <3>2. i \in 1..Last' /\ saves'[i] = d /\ Ran(i, Flows)'
      BY <1>2, <1>6, <2>2, <3>1
    <3> QED
      BY <3>2
  <2>6. \A i, j \in 1..Last' :
          Ran(i, Flows)' /\ Ran(j, Flows)' /\ saves'[i] = saves'[j] /\ saves'[i] \in WithId
          => i = j
    BY <1>2, <2>1 DEF FlowsInv
  <2>7. \A i \in 1..Last' : Ran(i, Flows)' => FlowKey(saves'[i]) \in ctx'.fired
    BY <2>1, <2>4
  <2>8. \A i \in 1..Last' : (i < Last' \/ FlowsDone') => FlowKey(saves'[i]) \in ctx'.fired
    BY <2>2, <2>3, <2>4
  <2> QED
    BY <2>5, <2>6, <2>7, <2>8 DEF FlowsInv
<1>12. RejectedInv'
  BY <1>1, <1>7 DEF RejectedInv
<1> QED
  BY <1>8, <1>9, <1>10, <1>11, <1>12

------------------------------------------------------------------------------
(* The rules of a step.                                                     *)

\* A rule that passes or fails, or nothing at all, moves nothing the flags
\* are about.
LEMMA RuleAnswersIInv ==
    ASSUME IInv, (\E r \in Rule : RulePasses(r) \/ RuleFails(r)) \/ UNCHANGED vars
    PROVE  IInv'
<1> USE PipelineShape DEF IInv
<1>1. /\ UNCHANGED <<saves, pc, position, runs, asked>>
      /\ todo' \subseteq todo
      /\ ctx' = ctx \/ ctx' = [ctx EXCEPT !.failed = TRUE]
  BY DEF RulePasses, RuleFails, vars
<1>2. /\ ctx' \in Context /\ ctx'.fired = ctx.fired
      /\ ctx'.refireDone = ctx.refireDone /\ ctx'.refireFlag = ctx.refireFlag
      /\ ctx.failed => ctx'.failed
      /\ ctx'.aborted = ctx.aborted
  <2>1. ctx \in Context
    BY DEF TypeOK
  <2>2. CASE ctx' = ctx
    BY <2>1, <2>2
  <2>3. CASE ctx' = [ctx EXCEPT !.failed = TRUE]
    BY <2>1, <2>3 DEF Context
  <2> QED
    BY <1>1, <2>2, <2>3
<1>3. \/ rejected' = rejected
      \/ /\ rejected' = rejected \cup {Last} /\ position = Validation
         /\ pc = "evaluating" /\ ctx'.failed
  <2>1. CASE UNCHANGED vars
    BY <2>1 DEF vars
  <2>2. ASSUME NEW r \in Rule, RulePasses(r)
        PROVE  rejected' = rejected
    BY <2>2 DEF RulePasses
  <2>3. ASSUME NEW r \in Rule, RuleFails(r)
        PROVE  \/ rejected' = rejected
               \/ /\ rejected' = rejected \cup {Last} /\ position = Validation
                  /\ pc = "evaluating" /\ ctx'.failed
    <3>1. ctx \in Context /\ ctx' = [ctx EXCEPT !.failed = TRUE]
      BY <2>3 DEF RuleFails, TypeOK
    <3>2. ctx'.failed
      BY <3>1 DEF Context
    <3> QED
      BY <2>3, <3>2 DEF RuleFails, Last
  <2> QED
    BY <2>1, <2>2, <2>3
<1>4. TypeOK'
  <2>1. Last > 0 \/ rejected' = rejected
    BY <1>3 DEF TypeOK
  <2>2. Last \in Nat /\ Last' = Last
    BY <1>1 DEF TypeOK, Last
  <2> QED
    BY <1>1, <1>2, <1>3, <2>1, <2>2 DEF TypeOK
<1>5. RunsInOrder' /\ FlowsInv'
  BY <1>1, <1>2 DEF RunsInOrder, FlowsInv, FlowsDone, Ran, Last
<1>6. RefireInv'
  BY <1>1, <1>2 DEF RefireInv, RefireAhead, RefireUnderWay, Ran, Last
<1>7. RejectedInv'
  BY <1>1, <1>2, <1>3 DEF RejectedInv, Last
<1> QED
  BY <1>4, <1>5, <1>6, <1>7

\* A field update of step 12 asks for the re-fire, and is the first to ask
\* unless the transaction has had it.
LEMMA RuleMutatesIInv ==
    ASSUME IInv, NEW r \in Rule, RuleMutates(r)
    PROVE  IInv'
<1> USE PipelineShape DEF IInv
<1>1. /\ UNCHANGED <<saves, pc, position, runs, rejected>>
      /\ pc = "evaluating" /\ todo' \subseteq todo
      /\ \/ ctx' = ctx /\ asked' = asked
         \/ /\ position = Workflow
            /\ ctx' = [ctx EXCEPT !.refireFlag = TRUE]
            /\ asked' = asked \cup {Last}
  BY DEF RuleMutates, Last
<1>2. CASE ctx' = ctx /\ asked' = asked
  <2>1. TypeOK'
    BY <1>1, <1>2 DEF TypeOK, Last
  <2> QED
    BY <1>1, <1>2, <2>1 DEF RunsInOrder, RefireInv, FlowsInv, RejectedInv, FlowsDone,
       RefireAhead, RefireUnderWay, Ran, Last
<1>3. CASE /\ position = Workflow
           /\ ctx' = [ctx EXCEPT !.refireFlag = TRUE]
           /\ asked' = asked \cup {Last}
  <2>1. /\ ctx' \in Context /\ ctx'.fired = ctx.fired
        /\ ctx'.refireDone = ctx.refireDone /\ ctx'.refireFlag
    BY <1>3 DEF TypeOK, Context
  <2>2. Last \in 1..Last /\ Last' = Last
    BY <1>1 DEF TypeOK, Last
  <2>3. TypeOK'
    BY <1>1, <1>3, <2>1, <2>2 DEF TypeOK
  <2>4. RunsInOrder' /\ FlowsInv'
    BY <1>1, <2>1 DEF RunsInOrder, FlowsInv, FlowsDone, Ran, Last
  <2>5. rejected = {}
    BY <1>3 DEF RejectedInv
  <2>6. ~Ran(Last, Refire)
    BY <1>3 DEF RunsInOrder
  <2>7. RefireInv'
    <3>1. RefireAhead'
      BY <1>1, <1>3 DEF RefireAhead
    <3>2. \A i \in 1..Last : Ran(i, Refire)' => Ran(i, Refire) /\ i < Last
      BY <1>1, <2>2, <2>6 DEF Ran
    <3>3. /\ ctx.refireDone => \E i \in 1..Last : Ran(i, Refire)'
          /\ ~ctx.refireDone => asked' \subseteq {Last} /\ asked' # {}
      BY <1>1, <1>3 DEF RefireInv, Ran
    <3>4. \A i \in 1..Last : Ran(i, Refire) =>
            /\ ctx.refireDone /\ i \in asked' /\ \A j \in asked' : i <= j
            /\ Ran(i, Refire + 1)'
      <4> SUFFICES ASSUME NEW i \in 1..Last, Ran(i, Refire)
                   PROVE  /\ ctx.refireDone /\ i \in asked' /\ \A j \in asked' : i <= j
                          /\ Ran(i, Refire + 1)'
        OBVIOUS
      <4>1. i < Last
        BY <1>1, <3>2 DEF Ran
      <4> QED
        BY <1>1, <1>3, <4>1 DEF RefireInv, Ran
    <3> QED
      BY <1>1, <2>1, <2>2, <3>1, <3>2, <3>3, <3>4 DEF RefireInv
  <2>8. RejectedInv'
    BY <1>1, <2>5 DEF RejectedInv
  <2> QED
    BY <2>3, <2>4, <2>7, <2>8
<1> QED
  BY <1>1, <1>2, <1>3

------------------------------------------------------------------------------
(* From one step of the save to the next.                                   *)

\* Flows are skipped for a record whose key is in the context; step 6 looks at
\* the failures; the save ends behind the re-fire it asked for.
LEMMA MovesOnIInv ==
    ASSUME IInv, Skip \/ FinishStep \/ Return
    PROVE  IInv'
<1> USE PipelineShape DEF IInv
<1>1. UNCHANGED <<saves, todo, runs, rejected, asked>>
  BY DEF Skip, FinishStep, Return
<1>2. Last' = Last /\ Last \in 1..Last
  BY <1>1 DEF Skip, FinishStep, Return, TypeOK, Last
<1>3. CASE Skip
  <2>1. /\ pc = "entering" /\ pc' = "entering" /\ position = 7 /\ position' = 8
        /\ ctx' = ctx /\ FlowKey(saves[Last]) \in ctx.fired
    BY <1>3 DEF Skip, SkipsFlows, Proceed, Current, Last, TypeOK
  <2>2. TypeOK' /\ RunsInOrder' /\ RejectedInv'
    BY <1>1, <1>2, <2>1 DEF TypeOK, RunsInOrder, RejectedInv, Ran
  <2>3. RefireInv'
    BY <1>1, <1>2, <2>1 DEF RefireInv, RefireAhead, RefireUnderWay, Ran
  <2>4. FlowsInv'
    BY <1>1, <1>2, <2>1 DEF FlowsInv, FlowsDone, Ran
  <2> QED
    BY <2>2, <2>3, <2>4
<1>4. CASE FinishStep
  <2>1. CASE position = Validation /\ ctx.failed
    <3>1. /\ pc' = "raised" /\ position' = position /\ pc = "evaluating"
          /\ ctx' = [ctx EXCEPT !.aborted = TRUE]
      BY <1>4, <2>1 DEF FinishStep
    <3>2. /\ ctx' \in Context /\ ctx'.fired = ctx.fired /\ ctx'.aborted
          /\ ctx'.refireDone = ctx.refireDone /\ ctx'.failed
      BY <2>1, <3>1 DEF TypeOK, Context
    <3>3. TypeOK' /\ RunsInOrder' /\ RejectedInv'
      BY <1>1, <1>2, <2>1, <3>1, <3>2 DEF TypeOK, RunsInOrder, RejectedInv, Ran
    <3>4. RefireInv' /\ FlowsInv'
      BY <1>1, <1>2, <3>1, <3>2 DEF RefireInv, FlowsInv, Ran
    <3> QED
      BY <3>3, <3>4
  <2>2. CASE ~(position = Validation /\ ctx.failed)
    <3>1. /\ pc = "evaluating" /\ pc' = "entering" /\ position' = position + 1
          /\ ctx' = ctx
      BY <1>4, <2>2 DEF FinishStep, Proceed
    <3>2. rejected = {} /\ position \in 1..9
      BY <2>2, <3>1 DEF RejectedInv, RunsInOrder, TypeOK
    <3>3. TypeOK' /\ RunsInOrder' /\ RejectedInv'
      BY <1>1, <1>2, <3>1, <3>2 DEF TypeOK, RunsInOrder, RejectedInv, Ran
    <3>4. RefireInv'
      <4>1. Ran(Last, Refire) => \/ Ran(Last, Refire + 1) \/ RefireUnderWay'
        BY <1>2, <3>1 DEF RefireInv, RefireUnderWay
      <4>2. asked # {} /\ ~ctx.refireDone => RefireAhead'
        BY <3>1, <3>2 DEF RefireInv, RefireAhead
      <4>3. \A j \in 1..Last : j # Last /\ Ran(j, Refire) => Ran(j, Refire + 1)
        BY <3>1 DEF RefireInv
      <4> QED
        BY <1>1, <1>2, <3>1, <4>1, <4>2, <4>3 DEF RefireInv, Ran
    <3>5. FlowsInv'
      <4>1. FlowsDone' => FlowsDone
        BY <3>1, <3>2 DEF FlowsDone
      <4> QED
        BY <1>1, <1>2, <3>1, <4>1 DEF FlowsInv, Ran
    <3> QED
      BY <3>3, <3>4, <3>5
  <2> QED
    BY <2>1, <2>2
<1>5. CASE Return
  <2>1. /\ pc = "entering" /\ pc' = "idle" /\ position' = position /\ ctx' = ctx
        /\ position = Done \/ (position = Refire /\ ~RefireDue(ctx))
    BY <1>5 DEF Return
  <2>2. rejected = {} /\ position \in {8, 10}
    BY <2>1 DEF RejectedInv
  <2>3. TypeOK' /\ RunsInOrder' /\ RejectedInv'
    BY <1>1, <1>2, <2>1, <2>2 DEF TypeOK, RunsInOrder, RejectedInv, Ran
  <2>4. FlowsInv'
    BY <1>1, <1>2, <2>1, <2>2 DEF FlowsInv, FlowsDone, Ran
  <2>5. ~ctx.refireDone => asked = {}
    <3> SUFFICES ASSUME ~ctx.refireDone, asked # {}
                 PROVE  FALSE
      OBVIOUS
    <3>1. RefireAhead /\ ctx.refireFlag
      BY <2>1 DEF RefireInv
    <3> QED
      BY <2>1, <3>1 DEF RefireAhead, RefireDue
  <2>6. \A i \in 1..Last : Ran(i, Refire) => Ran(i, Refire + 1)
    BY <2>1, <2>2 DEF RefireInv, RefireUnderWay
  <2>7. RefireInv'
    BY <1>1, <1>2, <2>1, <2>5, <2>6 DEF RefireInv, Ran
  <2> QED
    BY <2>3, <2>4, <2>7
<1> QED
  BY <1>3, <1>4, <1>5

\* What _step's caller sets, and where the step leaves the save.
LEMMA StepEntered ==
    ASSUME IInv, EnterStep
    PROVE  /\ UNCHANGED <<saves, rejected, asked>> /\ rejected = {}
           /\ pc = "entering" /\ position \in 1..9
           /\ Last' = Last /\ Last \in 1..Last
           /\ ctx' = BeforeStep(ctx) /\ ctx' \in Context
           /\ \/ pc' = "raised" /\ UNCHANGED <<position, todo, runs>>
              \/ /\ runs' = runs \cup {<<Last, position>>} /\ todo' \subseteq Rule
                 /\ \/ pc' = "evaluating" /\ position' = position
                    \/ pc' = "entering" /\ position' = position + 1
<1> USE PipelineShape DEF IInv
<1>1. /\ UNCHANGED <<saves, rejected, asked>>
      /\ pc = "entering" /\ position \in 1..9 /\ ctx' = BeforeStep(ctx)
      /\ Last \in 1..Last
  BY DEF EnterStep, TypeOK, Last
<1>2. rejected = {}
  BY <1>1 DEF RejectedInv
<1>3. ctx \in Context /\ Current \in Entity
  BY <1>1 DEF TypeOK, Current, Last
<1>4. BeforeStep(ctx) \in Context
  <2>1. CASE position = Refire
    <3>1. BeforeStep(ctx) = [ctx EXCEPT !.refireDone = TRUE, !.refireFlag = FALSE]
      BY <2>1 DEF BeforeStep
    <3> DEFINE Keys == SUBSET ((Entity \cup {"transaction_id"}) \X {SObjectOf[d] : d \in Entity})
    <3>2. Context = [depth: Nat, refireFlag: BOOLEAN, refireDone: BOOLEAN, fired: Keys,
                     failed: BOOLEAN, aborted: BOOLEAN, touched: SUBSET BOOLEAN,
                     inScope: Scopes]
      BY DEF Context
    <3> HIDE DEF Keys
    <3> QED
      BY <1>3, <3>1, <3>2
  <2>2. CASE position = Flows
    <3> DEFINE fired == ctx.fired \cup {FlowKey(Current)}
               Keys == SUBSET ((Entity \cup {"transaction_id"}) \X {SObjectOf[d] : d \in Entity})
    <3>1. fired \in Keys
      BY <1>3, KeyTyped DEF Context
    <3>2. BeforeStep(ctx) = [ctx EXCEPT !.fired = fired]
      BY <2>2 DEF BeforeStep
    <3>3. Context = [depth: Nat, refireFlag: BOOLEAN, refireDone: BOOLEAN, fired: Keys,
                     failed: BOOLEAN, aborted: BOOLEAN, touched: SUBSET BOOLEAN,
                     inScope: Scopes]
      BY DEF Context
    <3> HIDE DEF fired, Keys
    <3> QED
      BY <1>3, <3>1, <3>2, <3>3
  <2>3. CASE position \notin {Refire, Flows}
    BY <1>3, <2>3 DEF BeforeStep
  <2> QED
    BY <2>1, <2>2, <2>3
<1>5. RulesFor(ObjectNow, StepNow) \subseteq Rule
  BY DEF RulesFor
<1>6. CASE StepNow \notin ctx.inScope
  BY <1>1, <1>2, <1>4, <1>6 DEF EnterStep, Last
<1>7. CASE StepNow \in ctx.inScope
  BY <1>1, <1>2, <1>4, <1>5, <1>7 DEF EnterStep, Proceed, Last
<1> QED
  BY <1>6, <1>7

\* A step that is no re-fire and no flow leaves the flags alone; the re-fire
\* sets refire_done before anything of it runs, and the flows their key.
LEMMA StepFlags ==
    ASSUME IInv, EnterStep
    PROVE  /\ position = Refire => ctx'.refireDone /\ RefireDue(ctx)
           /\ position # Refire => /\ ctx'.refireDone = ctx.refireDone
                                   /\ ctx'.refireFlag = ctx.refireFlag
           /\ position = Flows => /\ FlowKey(saves[Last]) \notin ctx.fired
                                  /\ ctx'.fired = ctx.fired \cup {FlowKey(saves[Last])}
           /\ position # Flows => ctx'.fired = ctx.fired
<1> USE PipelineShape DEF IInv
<1>1. ctx \in Context /\ ctx' = BeforeStep(ctx) /\ pc = "entering" /\ Last \in Nat
  BY DEF TypeOK, EnterStep, Last
<1>2. CASE position = Refire
  <2>1. RefireDue(ctx) /\ ctx' = [ctx EXCEPT !.refireDone = TRUE, !.refireFlag = FALSE]
    BY <1>1, <1>2 DEF BeforeStep, EnterStep
  <2>2. ctx'.refireDone /\ ctx'.fired = ctx.fired
    BY <1>1, <2>1 DEF Context
  <2> QED
    BY <1>2, <2>1, <2>2
<1>3. CASE position = Flows
  <2>1. /\ Current = saves[Last] /\ FlowKey(Current) \notin ctx.fired
        /\ ctx' = [ctx EXCEPT !.fired = @ \cup {FlowKey(Current)}]
    BY <1>1, <1>3 DEF EnterStep, SkipsFlows, Current, Last, BeforeStep
  <2> QED
    BY <1>1, <1>3, <2>1 DEF Context
<1>4. CASE position \notin {Refire, Flows}
  BY <1>1, <1>4 DEF BeforeStep
<1> QED
  BY <1>2, <1>3, <1>4

\* A step is executed, or is out of scope and ends the transaction.
LEMMA EnterStepIInv ==
    ASSUME IInv, EnterStep
    PROVE  IInv'
<1> USE PipelineShape DEF IInv
<1>1. /\ UNCHANGED <<saves, rejected, asked>> /\ rejected = {}
      /\ pc = "entering" /\ position \in 1..9
      /\ Last' = Last /\ Last \in 1..Last /\ ctx' \in Context
  BY StepEntered
<1>2. /\ ctx.refireDone => ctx'.refireDone
      /\ ctx.fired \subseteq ctx'.fired
  BY <1>1, StepFlags
<1>3. CASE pc' = "raised" /\ UNCHANGED <<position, todo, runs>>
  <2>1. TypeOK' /\ RunsInOrder' /\ RejectedInv'
    BY <1>1, <1>3 DEF TypeOK, RunsInOrder, RejectedInv, Ran
  <2>2. RefireInv' /\ FlowsInv'
    BY <1>1, <1>2, <1>3 DEF RefireInv, FlowsInv, Ran
  <2> QED
    BY <2>1, <2>2
<1>4. CASE /\ runs' = runs \cup {<<Last, position>>} /\ todo' \subseteq Rule
           /\ \/ pc' = "evaluating" /\ position' = position
              \/ pc' = "entering" /\ position' = position + 1
  <2>1. \A k, p : Ran(k, p)' <=> Ran(k, p) \/ (k = Last /\ p = position)
    BY <1>4 DEF Ran
  <2>2. TypeOK' /\ RejectedInv'
    BY <1>1, <1>4 DEF TypeOK, RejectedInv
  <2>3. RunsInOrder'
    BY <1>1, <1>4, <2>1 DEF RunsInOrder
  <2>4. ~Ran(Last, position)
    BY <1>1 DEF RunsInOrder
  <2>5. FlowsInv'
    <3>1. CASE position = Flows
      <4>1. /\ FlowKey(saves[Last]) \notin ctx.fired
            /\ ctx'.fired = ctx.fired \cup {FlowKey(saves[Last])}
        BY <3>1, StepFlags
      <4>2. \A k \in 1..Last : Ran(k, Flows) => saves[k] # saves[Last]
        BY <4>1 DEF FlowsInv
      <4>3. \A k \in 1..Last : Ran(k, Flows)' => FlowKey(saves[k]) \in ctx'.fired
        BY <1>1, <2>1, <4>1 DEF FlowsInv
      <4>4. \A k, l \in 1..Last :
              Ran(k, Flows)' /\ Ran(l, Flows)' /\ saves[k] = saves[l] /\ saves[k] \in WithId
              => k = l
        <5> SUFFICES ASSUME NEW k \in 1..Last, NEW l \in 1..Last,
                            Ran(k, Flows)', Ran(l, Flows)', k # l,
                            saves[k] = saves[l], saves[k] \in WithId
                     PROVE  FALSE
          OBVIOUS
        <5>1. k = Last \/ Ran(k, Flows)
          BY <1>4 DEF Ran
        <5>2. l = Last \/ Ran(l, Flows)
          BY <1>4 DEF Ran
        <5> QED
          BY <4>2, <5>1, <5>2 DEF FlowsInv
      <4>5. ASSUME NEW e \in WithId, FlowKey(e) \in ctx'.fired
            PROVE  \E k \in 1..Last : saves[k] = e /\ Ran(k, Flows)'
        <5>1. CASE FlowKey(e) \in ctx.fired
          BY <1>1, <2>1, <5>1 DEF FlowsInv
        <5>2. CASE FlowKey(e) = FlowKey(saves[Last])
          <6>1. saves[Last] \in Entity
            BY <1>1 DEF TypeOK, Last
          <6>2. e = saves[Last]
            BY <5>2, <6>1, KeyIdentifies
          <6>3. Ran(Last, Flows)'
            BY <1>1, <1>4, <3>1 DEF Ran
          <6> QED
            BY <1>1, <6>2, <6>3
        <5> QED
          BY <4>1, <4>5, <5>1, <5>2
      <4>6. \A k \in 1..Last : k < Last \/ k = Last
        BY <1>1
      <4>7. \A k \in 1..Last : FlowKey(saves[k]) \in ctx'.fired
        BY <1>1, <4>1, <4>6 DEF FlowsInv
      <4> QED
        BY <1>1, <4>3, <4>4, <4>5, <4>7 DEF FlowsInv
    <3>2. CASE position # Flows
      <4>1. ctx'.fired = ctx.fired
        BY <3>2, StepFlags
      <4>2. \A k : Ran(k, Flows)' <=> Ran(k, Flows)
        BY <2>1, <3>2
      <4>3. FlowsDone' => FlowsDone
        BY <1>1, <1>4, <3>2 DEF FlowsDone
      <4> QED
        BY <1>1, <4>1, <4>2, <4>3 DEF FlowsInv
    <3> QED
      BY <3>1, <3>2
  <2>6. RefireInv'
    <3>1. CASE position = Refire
      <4>1. ctx'.refireDone /\ ctx.refireFlag /\ ~ctx.refireDone
        BY <3>1, StepFlags DEF RefireDue
      <4>2. asked = {Last} /\ \A k \in 1..Last : ~Ran(k, Refire)
        BY <1>1, <4>1 DEF RefireInv
      <4>3. \A k \in 1..Last : Ran(k, Refire)' <=> k = Last
        BY <2>1, <3>1, <4>2
      <4>4. RefireUnderWay'
        BY <1>4, <3>1 DEF RefireUnderWay
      <4>5. Last \in Int
        BY <1>1 DEF TypeOK, Last
      <4> QED
        BY <1>1, <4>1, <4>2, <4>3, <4>4, <4>5 DEF RefireInv
    <3>2. CASE position # Refire
      <4>1. ctx'.refireDone = ctx.refireDone /\ ctx'.refireFlag = ctx.refireFlag
        BY <3>2, StepFlags
      <4>2. \A k : /\ Ran(k, Refire)' <=> Ran(k, Refire)
                   /\ Ran(k, Refire + 1) => Ran(k, Refire + 1)'
        BY <2>1, <3>2
      <4>3. RefireAhead => RefireAhead'
        BY <1>1, <1>4, <3>2 DEF RefireAhead
      <4>4. RefireUnderWay => Ran(Last, Refire + 1)'
        BY <1>1, <2>1 DEF RefireUnderWay
      <4> QED
        BY <1>1, <4>1, <4>2, <4>3, <4>4 DEF RefireInv
    <3> QED
      BY <3>1, <3>2
  <2> QED
    BY <2>2, <2>3, <2>5, <2>6
<1> QED
  BY <1>3, <1>4, StepEntered

\* IInv is inductive.
LEMMA NextIInv == IInv /\ [Next]_vars => IInv'
<1> SUFFICES ASSUME IInv, [Next]_vars PROVE IInv'
  OBVIOUS
<1>1. ASSUME NEW e \in Entity, BeginSave(e)
      PROVE  IInv'
  BY <1>1, BeginSaveIInv
<1>2. ASSUME NEW r \in Rule, RuleMutates(r)
      PROVE  IInv'
  BY <1>2, RuleMutatesIInv
<1> QED
  BY <1>1, <1>2, RuleAnswersIInv, MovesOnIInv, EnterStepIInv DEF Next

------------------------------------------------------------------------------
(* The properties.                                                          *)

LEMMA AtMostOne ==
    ASSUME NEW S, \A i, j \in S : i = j
    PROVE  Cardinality(S) <= 1
<1>1. CASE S = {}
  BY <1>1, FS_EmptySet
<1>2. CASE S # {}
  <2>1. PICK i : i \in S
    BY <1>2
  <2>2. S = {i}
    BY <2>1
  <2>3. Cardinality({i}) = 1
    BY FS_Singleton
  <2> QED
    BY <2>2, <2>3
<1> QED
  BY <1>1, <1>2

LEMMA RefiredIsRan == ASSUME TypeOK, NEW i PROVE i \in Refired <=> i \in 1..Last /\ Ran(i, Refire)
BY DEF TypeOK, Refired, Ran

LEMMA RefireFollows == IInv => RefireOnce
<1> SUFFICES ASSUME IInv PROVE RefireOnce
  OBVIOUS
<1> USE DEF IInv
<1>1. \A i \in Refired : i \in asked /\ \A j \in asked : i <= j
  BY RefiredIsRan DEF RefireInv
<1>2. \A i, j \in Refired : i = j
  <2>1. Refired \subseteq Int
    BY RefiredIsRan DEF TypeOK, Last
  <2> QED
    BY <1>1, <2>1
<1>3. Cardinality(Refired) <= 1
  BY <1>2, AtMostOne
<1>4. ASSUME pc = "idle"
      PROVE  /\ asked # {} => Refired # {}
             /\ \A i \in Refired : <<i, Refire + 1>> \in runs
  <2>1. asked # {} => ctx.refireDone
    BY <1>4 DEF RefireInv, RefireAhead
  <2>2. ctx.refireDone => Refired # {}
    BY <1>4, RefiredIsRan DEF RefireInv
  <2>3. \A i \in 1..Last : Ran(i, Refire) => Ran(i, Refire + 1)
    BY <1>4 DEF RefireInv, RefireUnderWay
  <2> QED
    BY <2>1, <2>2, <2>3, RefiredIsRan DEF Ran
<1> QED
  BY <1>1, <1>3, <1>4 DEF RefireOnce

LEMMA FlowsFollow == IInv => FlowsOncePerEntity
<1> SUFFICES ASSUME IInv, NEW e \in WithId
             PROVE  LET fired == {i \in DOMAIN saves : saves[i] = e /\ <<i, Flows>> \in runs}
                    IN /\ Cardinality(fired) <= 1
                       /\ pc = "idle" /\ (\E i \in DOMAIN saves : saves[i] = e) => fired # {}
  BY DEF FlowsOncePerEntity
<1> USE DEF IInv
<1> DEFINE fired == {i \in DOMAIN saves : saves[i] = e /\ <<i, Flows>> \in runs}
<1>1. DOMAIN saves = 1..Last
  BY DEF TypeOK, Last
<1>2. \A i, j \in fired : i = j
  BY <1>1 DEF FlowsInv, Ran
<1>3. ASSUME pc = "idle", NEW i \in DOMAIN saves, saves[i] = e
      PROVE  fired # {}
  <2>1. FlowKey(e) \in ctx.fired
    BY <1>1, <1>3 DEF FlowsInv, FlowsDone
  <2>2. PICK k \in 1..Last : saves[k] = e /\ Ran(k, Flows)
    BY <1>3, <2>1 DEF FlowsInv
  <2> QED
    BY <1>1, <2>2 DEF Ran
<1> HIDE DEF fired
<1>4. Cardinality(fired) <= 1
  BY <1>2, AtMostOne
<1> QED
  BY <1>3, <1>4 DEF fired

LEMMA RejectionFollows == IInv => ValidationStops
<1> SUFFICES ASSUME IInv, rejected # {} PROVE ValidationStops
  BY DEF ValidationStops
<1>1. /\ rejected = {Last} /\ position = Validation
      /\ pc = "evaluating" \/ (pc = "raised" /\ ctx.aborted)
  BY DEF IInv, RejectedInv
<1>2. \A x \in runs : x[1] < Last \/ (x[1] = Last /\ x[2] <= Validation)
  <2> SUFFICES ASSUME NEW x \in runs, ~(x[1] < Last)
               PROVE  x[1] = Last /\ x[2] <= Validation
    OBVIOUS
  <2>1. x[1] \in 1..Last /\ x[2] \in Positions /\ x = <<x[1], x[2]>> /\ Last \in Nat
    BY DEF IInv, TypeOK, Last
  <2>2. x[1] = Last
    BY <2>1
  <2> QED
    BY <1>1, <2>1, <2>2 DEF IInv, RunsInOrder, Ran
<1> QED
  BY <1>1, <1>2 DEF ValidationStops

LEMMA SpecIInv == Spec => []IInv
BY InitIInv, NextIInv, PTL DEF Spec

\* The types of the transaction's state; among them, that a save and a step
\* are only ever executed within the saves begun so far.
THEOREM TypeCorrect == Spec => []TypeOK
BY SpecIInv, PTL DEF IInv

\* The re-fire cycle is run at most once in a transaction, at the first save
\* that asked for it and in full if the saves return (refire_flag, refire_done),
\* whatever the rules answer and however many cascaded saves there are.
THEOREM RefiresOnce == Spec => []RefireOnce
BY SpecIInv, RefireFollows, PTL

\* Each record with an Id has its flows run by exactly one save of the
\* transaction (_maybe_fire_flows).
THEOREM FlowsRunOnce == Spec => []FlowsOncePerEntity
BY SpecIInv, FlowsFollow, PTL

\* A save with a failed validation rule stops at step 6, and the transaction
\* with it.
THEOREM RejectionStops == Spec => []ValidationStops
BY SpecIInv, RejectionFollows, PTL

=============================================================================
