---------------------------- MODULE CutoverProofs ----------------------------
(***************************************************************************)
(* Proofs about Cutover for any set of overlapping processes, any dwell    *)
(* times, thresholds, seeds and clock bound: type correctness and          *)
(* LadderClimbed; and about what it promises when one command runs at a    *)
(* time (Exclusive): it implements StagedRollout, no record flips back     *)
(* while the percentage stays, and the provenance ledger is current and a  *)
(* chain.                                                                  *)
(*                                                                         *)
(* LadderClimbed is not inductive: it says nothing of the plans that are   *)
(* on their way to the row.  IInv adds that every configuration a process  *)
(* may still be holding, however stale, names a stage that was in force    *)
(* (Earned), and that every decision not yet written aims at a stage whose *)
(* predecessor has been held long enough (Attainable).                     *)
(*                                                                         *)
(* The others rest on SerialInv: the one busy command holds the row that   *)
(* is in force (Fresh), so its plan is a step of the rollout from that     *)
(* very row (PlansFit) until it is written (WrittenStands); and in each    *)
(* stream the last entry ends where the row is or, between the write and   *)
(* the anchor, where the plan begins (LedgerKept).  With overlapping       *)
(* commands Fresh is what fails first.                                     *)
(***************************************************************************)
EXTENDS Cutover, TLAPS

Earned(cfg) == /\ firstHeld[cfg.stage] # Never
               /\ firstHeld[cfg.stage] <= cfg.since

Attainable(s) ==
    \/ s \in {0, 1}
    \/ /\ firstHeld[PreviousStage(s)] # Never
       /\ now >= firstHeld[PreviousStage(s)] + Dwell[PreviousStage(s)]

NothingFromTheFuture == \A s \in Stages : firstHeld[s] <= now
RowEarned == row # NoRow => Earned(row)
MemoryEarned == \A o \in Worker : task[o].mem # NoRow => Earned(task[o].mem)
PlansAttainable ==
    \A o \in Worker : task[o].pc = "decided" =>
        /\ Attainable(task[o].plan.to)
        /\ task[o].command = "begin" \/ task[o].mem # NoRow

IInv == /\ TypeOK
        /\ LadderClimbed
        /\ NothingFromTheFuture
        /\ RowEarned
        /\ MemoryEarned
        /\ PlansAttainable

------------------------------------------------------------------------------
(* The ladder.                                                              *)

\* Stepping down, and stepping up below the top, stays on the ladder.
LEMMA LadderClosed ==
    \A s \in Stages : /\ PreviousStage(s) \in Stages
                      /\ HasNext(s) => NextStage(s) \in Stages
BY DEF Stages, PreviousStage, NextStage, HasNext

\* The rung below the next rung is this one, except that stepping back from
\* 1% is stepping back to 0%.
LEMMA PreviousOfNext ==
    \A s \in Stages : HasNext(s) => PreviousStage(NextStage(s)) = s
BY DEF Stages, PreviousStage, NextStage, HasNext

LEMMA NoRowIsNoRow == NoRow \notin Row
BY DEF NoRow, Row, Stages

\* A stage once in force stays attainable: this is why a stale rollback
\* decision cannot break the ladder.
LEMMA HeldIsAttainable ==
    ASSUME IInv, NEW s \in Stages, firstHeld[s] # Never
    PROVE  Attainable(s)
<1>1. CASE s \in {0, 1}
  BY <1>1 DEF Attainable
<1>2. CASE s \in Stages \ {0, 1}
  <2>1. /\ firstHeld[PreviousStage(s)] # Never
        /\ firstHeld[s] >= firstHeld[PreviousStage(s)] + Dwell[PreviousStage(s)]
    BY <1>2 DEF IInv, LadderClimbed
  <2>2. firstHeld[s] <= now
    BY DEF IInv, NothingFromTheFuture
  <2>3. PreviousStage(s) \in Stages
    BY LadderClosed
  <2>4. /\ firstHeld[s] \in Int /\ now \in Int
        /\ firstHeld[PreviousStage(s)] \in Int
        /\ Dwell[PreviousStage(s)] \in Int
    BY <2>3, CutoverAssumption DEF IInv, TypeOK, Never
  <2> QED
    BY <2>1, <2>2, <2>4 DEF Attainable
<1> QED
  BY <1>1, <1>2

------------------------------------------------------------------------------
(* What a decision is.                                                      *)

\* evaluate, check and the other commands only ever resolve to a transition
\* between stages.
LEMMA ResolveType ==
    ASSUME IInv, NEW o \in Worker
    PROVE  Resolve(task[o], verdict, now) \in Transition
<1> DEFINE p == task[o]
<1>1. /\ p.mem \in Row \cup {NoRow}
      /\ 0 \in Stages /\ 1 \in Stages /\ 100 \in Stages
  BY DEF IInv, TypeOK, Stages
<1>2. Hold \in Transition
  BY <1>1 DEF Hold, Move, Transition, Kind
<1>3. p.mem # NoRow => p.mem.stage \in Stages
  BY <1>1 DEF Row
<1>4. Evaluate(p.mem, verdict, now) \in Transition
  BY <1>1, <1>2, <1>3, LadderClosed
     DEF Evaluate, Move, Transition, Kind, Advances
<1>5. Check(p.mem, verdict) \in Transition
  BY <1>1, <1>2 DEF Check, Move, Transition, Kind
<1>6. Move("begin", 0, 1) \in Transition
  BY <1>1 DEF Move, Transition, Kind
<1>7. p.mem # NoRow => Move("instant_rollback", p.mem.stage, 0) \in Transition
  BY <1>1, <1>3 DEF Move, Transition, Kind
<1> QED
  BY <1>2, <1>4, <1>5, <1>6, <1>7 DEF Resolve

\* A decision that will be applied aims at an attainable stage, and unless it
\* is begin's it was taken with a routing row in memory.
LEMMA ResolveAttainable ==
    ASSUME IInv, NEW o \in Worker,
           Applies(task[o], Resolve(task[o], verdict, now))
    PROVE  /\ Attainable(Resolve(task[o], verdict, now).to)
           /\ task[o].command = "begin" \/ task[o].mem # NoRow
<1> DEFINE p == task[o]
           d == Resolve(p, verdict, now)
<1>1. d.kind # "hold"
  BY DEF Applies
<1>2. p.mem \in Row \cup {NoRow}
  BY DEF IInv, TypeOK
<1>3. d.to \in {0, 1} => Attainable(d.to)
  BY DEF Attainable
<1>4. CASE p.command = "begin"
  BY <1>3, <1>4 DEF Resolve, Move
<1>5. CASE p.command = "rollback"
  BY <1>1, <1>3, <1>5 DEF Resolve, Move, Hold
<1>6. CASE p.command = "monitor_auto"
  BY <1>1, <1>3, <1>6 DEF Resolve, Check, Move, Hold
<1>7. CASE p.command \in {"advance", "advance_confirm"}
  <2>1. d = Evaluate(p.mem, verdict, now)
    BY <1>7 DEF Resolve
  <2>2. p.mem # NoRow
    BY <1>1, <2>1 DEF Evaluate, Hold, Move
  <2>3. /\ p.mem.stage \in Stages
        /\ p.mem.since \in Nat
    BY <1>2, <2>2 DEF Row
  <2>4. Earned(p.mem)
    BY <2>2 DEF IInv, MemoryEarned
  <2>5. CASE d.to = 0
    BY <1>3, <2>2, <2>5
  <2>6. CASE d = Move("rollback", p.mem.stage, PreviousStage(p.mem.stage))
    <3>1. d.to = PreviousStage(p.mem.stage)
      BY <2>6 DEF Move
    <3>2. CASE p.mem.stage \in {0, 1}
      BY <1>3, <2>2, <3>1, <3>2 DEF PreviousStage
    <3>3. CASE p.mem.stage \in Stages \ {0, 1}
      <4>1. firstHeld[d.to] # Never
        BY <2>4, <3>1, <3>3 DEF IInv, LadderClimbed, Earned
      <4> QED
        BY <2>2, <2>3, <3>1, <4>1, LadderClosed, HeldIsAttainable
    <3> QED
      BY <2>3, <3>2, <3>3
  <2>7. CASE d = Move("advance", p.mem.stage, NextStage(p.mem.stage))
    <3>1. d.to = NextStage(p.mem.stage) /\ d.kind = "advance"
      BY <2>7 DEF Move
    <3>2. HasNext(p.mem.stage) /\ DwellComplete(p.mem, now)
      BY <2>1, <3>1 DEF Evaluate, Advances, Move, Hold
    <3>3. PreviousStage(d.to) = p.mem.stage
      BY <2>3, <3>1, <3>2, PreviousOfNext
    <3>4. /\ firstHeld[p.mem.stage] \in Int /\ now \in Int
          /\ Dwell[p.mem.stage] \in Int
      BY <2>3, CutoverAssumption DEF IInv, TypeOK, Never
    <3>5. now >= firstHeld[p.mem.stage] + Dwell[p.mem.stage]
      BY <2>3, <2>4, <3>2, <3>4 DEF Earned, DwellComplete
    <3> QED
      BY <2>2, <2>4, <3>3, <3>5 DEF Attainable, Earned
  <2> QED
    BY <1>1, <2>1, <2>2, <2>5, <2>6, <2>7 DEF Evaluate, Hold, Move
<1>8. CASE p.command = "serve"
  BY <1>1, <1>8 DEF Resolve, Hold, Move
<1>9. p.command \in Command
  BY DEF IInv, TypeOK
<1> QED
  BY <1>4, <1>5, <1>6, <1>7, <1>8, <1>9 DEF Command

------------------------------------------------------------------------------
(* The inductive invariant.                                                 *)

LEMMA InitIInv == Init => IInv
<1> SUFFICES ASSUME Init PROVE IInv
  OBVIOUS
<1>1. Hold \in Transition
  BY DEF Hold, Move, Transition, Kind, Stages
<1>2. TypeOK
  BY <1>1, CutoverAssumption DEF Init, TypeOK, Idle, Pc, Command, Never
<1>3. LadderClimbed
  BY DEF Init, LadderClimbed
<1>4. NothingFromTheFuture
  <2>1. firstHeld = [s \in Stages |-> -1] /\ now = 0
    BY DEF Init, Never
  <2>2. \A s \in Stages : firstHeld[s] = -1
    BY <2>1
  <2>3. -1 <= 0
    OBVIOUS
  <2> QED
    BY <2>1, <2>2, <2>3 DEF NothingFromTheFuture
<1>5. RowEarned /\ MemoryEarned /\ PlansAttainable
  BY DEF Init, RowEarned, MemoryEarned, PlansAttainable, Idle
<1> QED
  BY <1>2, <1>3, <1>4, <1>5 DEF IInv

\* Starting a command copies the row into its memory.
LEMMA ReloadIInv ==
    ASSUME IInv, NEW o \in Worker, NEW c \in Command, Reload(o, c)
    PROVE  IInv'
<1>1. Hold \in Transition
  BY DEF Hold, Move, Transition, Kind, Stages
<1>2. TypeOK'
  BY <1>1 DEF IInv, TypeOK, Reload, Pc
<1>3. (LadderClimbed /\ NothingFromTheFuture /\ RowEarned)'
  BY DEF IInv, LadderClimbed, NothingFromTheFuture, RowEarned, Earned, Reload
<1>4. MemoryEarned'
  BY DEF IInv, TypeOK, MemoryEarned, RowEarned, Earned, Reload
<1>5. PlansAttainable'
  BY DEF IInv, TypeOK, PlansAttainable, Attainable, Reload
<1> QED
  BY <1>2, <1>3, <1>4, <1>5 DEF IInv

\* Deciding puts an attainable target in the plan.
LEMMA DecideIInv ==
    ASSUME IInv, NEW o \in Worker, Decide(o)
    PROVE  IInv'
<1> DEFINE plan == Resolve(task[o], verdict, now)
<1>1. Hold \in Transition /\ plan \in Transition
  BY ResolveType DEF Hold, Move, Transition, Kind, Stages
<1>2. Idle \in [pc: Pc, command: Command, mem: Row \cup {NoRow}, plan: Transition]
  BY <1>1 DEF Idle, Pc, Command
<1>3. CASE Applies(task[o], plan)
  <2>1. task' = [task EXCEPT ![o] = [task[o] EXCEPT !.pc = "decided", !.plan = plan]]
    BY <1>3 DEF Decide
  <2>2. TypeOK'
    <3> DEFINE Task == [pc: Pc, command: Command, mem: Row \cup {NoRow},
                        plan: Transition]
    <3>1. TypeOK /\ task \in [Worker -> Task]
      BY DEF IInv, TypeOK
    <3>2. [task[o] EXCEPT !.pc = "decided", !.plan = plan] \in Task
      <4> HIDE DEF plan
      <4>1. task[o] \in Task /\ plan \in Transition /\ "decided" \in Pc
        BY <1>1, <3>1 DEF Pc
      <4> QED
        BY <4>1
    <3>3. task' \in [Worker -> Task]
      <4> DEFINE t == [task[o] EXCEPT !.pc = "decided", !.plan = plan]
      <4> HIDE DEF t, Task
      <4>1. task' = [task EXCEPT ![o] = t]
        BY <2>1 DEF t
      <4> QED
        BY <3>1, <3>2, <4>1 DEF t
    <3>4. UNCHANGED <<row, now, verdict, ledger, torn, crashes, firstHeld>>
      BY DEF Decide
    <3> QED
      BY <3>1, <3>3, <3>4 DEF TypeOK
  <2>3. (LadderClimbed /\ NothingFromTheFuture /\ RowEarned)'
    BY DEF IInv, LadderClimbed, NothingFromTheFuture, RowEarned, Earned, Decide
  <2>4. MemoryEarned'
    <3>1. \A q \in Worker : task'[q].mem = task[q].mem
      BY <2>1 DEF IInv, TypeOK
    <3> QED
      BY <3>1 DEF IInv, MemoryEarned, Earned, Decide
  <2>5. /\ Attainable(plan.to)
        /\ task[o].command = "begin" \/ task[o].mem # NoRow
    BY <1>3, ResolveAttainable
  <2>6. PlansAttainable'
    BY <2>1, <2>5 DEF IInv, TypeOK, PlansAttainable, Attainable, Decide
  <2> QED
    BY <2>2, <2>3, <2>4, <2>6 DEF IInv
<1>4. CASE ~Applies(task[o], plan)
  <2>1. task' = [task EXCEPT ![o] = Idle]
    BY <1>4 DEF Decide
  <2>2. TypeOK'
    BY <1>2, <2>1 DEF IInv, TypeOK, Decide
  <2>3. (LadderClimbed /\ NothingFromTheFuture /\ RowEarned)'
    BY DEF IInv, LadderClimbed, NothingFromTheFuture, RowEarned, Earned, Decide
  <2>4. \A q \in Worker : task'[q] = task[q] \/ task'[q] = Idle
    BY <2>1 DEF IInv, TypeOK
  <2>5. MemoryEarned'
    BY <2>4 DEF IInv, MemoryEarned, Earned, Idle, Decide
  <2>6. PlansAttainable'
    <3>1. \A q \in Worker : task'[q].pc = "decided" => task'[q] = task[q]
      BY <2>4 DEF Idle
    <3>2. UNCHANGED <<now, firstHeld>>
      BY DEF Decide
    <3> QED
      BY <3>1, <3>2 DEF IInv, PlansAttainable, Attainable
  <2> QED
    BY <2>2, <2>3, <2>5, <2>6 DEF IInv
<1> QED
  BY <1>3, <1>4

\* The write: the only step that lets a stage be in force for the first time.
LEMMA UpsertIInv ==
    ASSUME IInv, NEW o \in Worker, Upsert(o)
    PROVE  IInv'
<1> DEFINE to == task[o].plan.to
<1>1. PICK s \in SeedsFor(task[o]) :
        /\ row' = [stage |-> to, seed |-> s, since |-> now]
        /\ firstHeld' = [firstHeld EXCEPT ![to] = IF @ = Never THEN now ELSE @]
  BY DEF Upsert
<1>2. /\ task[o].pc = "decided"
      /\ task' = [task EXCEPT ![o].pc = "written", ![o].mem = row']
      /\ UNCHANGED <<now, verdict, ledger, torn, crashes>>
  BY DEF Upsert
<1>3. to \in Stages /\ now \in Nat
  BY DEF IInv, TypeOK, Transition
<1>4. Attainable(to) /\ (task[o].command = "begin" \/ task[o].mem # NoRow)
  BY <1>2 DEF IInv, PlansAttainable
<1>5. s \in Seed
  BY <1>4 DEF IInv, TypeOK, SeedsFor, Row
<1>6. row' \in Row /\ row' # NoRow
  BY <1>1, <1>3, <1>5, NoRowIsNoRow DEF Row
<1>7. TypeOK'
  <2>1. firstHeld' \in [Stages -> Nat \cup {Never}]
    BY <1>1, <1>3 DEF IInv, TypeOK
  <2>2. task' \in [Worker -> [pc: Pc, command: Command,
                              mem: Row \cup {NoRow}, plan: Transition]]
    BY <1>2, <1>6 DEF IInv, TypeOK, Pc
  <2> QED
    BY <1>2, <1>6, <2>1, <2>2 DEF IInv, TypeOK
<1>8. \A r \in Stages : /\ firstHeld[r] # Never => firstHeld'[r] = firstHeld[r]
                        /\ r # to => firstHeld'[r] = firstHeld[r]
  BY <1>1, <1>3 DEF IInv, TypeOK
<1>9. firstHeld'[to] # Never /\ firstHeld'[to] <= now
  BY <1>1, <1>3 DEF IInv, TypeOK, NothingFromTheFuture, Never
<1>10. LadderClimbed'
  <2> SUFFICES ASSUME NEW r \in Stages \ {0, 1}, firstHeld'[r] # Never
               PROVE  /\ firstHeld'[PreviousStage(r)] # Never
                      /\ firstHeld'[r] >= firstHeld'[PreviousStage(r)]
                                           + Dwell[PreviousStage(r)]
    BY DEF LadderClimbed
  <2>1. PreviousStage(r) \in Stages
    BY LadderClosed
  <2>2. CASE firstHeld[r] # Never
    BY <1>8, <2>1, <2>2 DEF IInv, LadderClimbed
  <2>3. CASE firstHeld[r] = Never
    <3>1. r = to /\ firstHeld'[r] = now
      BY <1>1, <1>3, <1>8, <2>3 DEF IInv, TypeOK
    <3>2. /\ firstHeld[PreviousStage(to)] # Never
          /\ now >= firstHeld[PreviousStage(to)] + Dwell[PreviousStage(to)]
      BY <1>4, <3>1 DEF Attainable
    <3> QED
      BY <1>8, <2>1, <3>1, <3>2
  <2> QED
    BY <2>2, <2>3
<1>11. NothingFromTheFuture'
  BY <1>2, <1>8, <1>9 DEF IInv, NothingFromTheFuture
<1>12. Earned(row)'
  BY <1>1, <1>9 DEF Earned
<1>13. MemoryEarned'
  <2> SUFFICES ASSUME NEW q \in Worker, task'[q].mem # NoRow
               PROVE  Earned(task[q].mem)'
    BY DEF MemoryEarned
  <2>1. CASE q = o
    BY <1>2, <1>12, <2>1 DEF IInv, TypeOK, Earned
  <2>2. CASE q # o
    <3>1. task'[q] = task[q]
      BY <1>2, <2>2 DEF IInv, TypeOK
    <3>2. task[q].mem \in Row /\ Earned(task[q].mem)
      BY <3>1 DEF IInv, TypeOK, MemoryEarned
    <3> QED
      BY <1>8, <3>1, <3>2 DEF Earned, Row
  <2> QED
    BY <2>1, <2>2
<1>14. PlansAttainable'
  <2> SUFFICES ASSUME NEW q \in Worker, task'[q].pc = "decided"
               PROVE  /\ Attainable(task[q].plan.to)'
                      /\ task'[q].command = "begin" \/ task'[q].mem # NoRow
    BY DEF PlansAttainable
  <2>1. q # o /\ task'[q] = task[q]
    BY <1>2 DEF IInv, TypeOK
  <2>2. /\ Attainable(task[q].plan.to)
        /\ task[q].command = "begin" \/ task[q].mem # NoRow
    BY <2>1 DEF IInv, PlansAttainable
  <2>3. task[q].plan.to \in Stages
    BY DEF IInv, TypeOK, Transition
  <2>4. PreviousStage(task[q].plan.to) \in Stages
    BY <2>3, LadderClosed
  <2> QED
    BY <1>2, <1>8, <2>1, <2>2, <2>4 DEF Attainable
<1> QED
  BY <1>7, <1>10, <1>11, <1>12, <1>13, <1>14 DEF IInv, RowEarned

\* The steps that only end a command, anchor something or change the score.
LEMMA QuietIInv ==
    ASSUME IInv, NEW o \in Worker,
           \/ AnchorTransition(o) \/ AnchorF44(o) \/ Crash(o)
           \/ StopServing(o) \/ Rescore
    PROVE  IInv'
<1>1. UNCHANGED <<row, now, firstHeld>>
  BY DEF AnchorTransition, AnchorF44, Crash, StopServing, Rescore
<1>2. Idle \in [pc: Pc, command: Command, mem: Row \cup {NoRow}, plan: Transition]
  BY DEF Idle, Pc, Command, Hold, Move, Transition, Kind, Stages
<1>3. \/ task' = task
      \/ task' = [task EXCEPT ![o] = Idle]
      \/ task' = [task EXCEPT ![o].pc = "anchored"]
  BY DEF AnchorTransition, AnchorF44, Crash, StopServing, Rescore
<1>4. task' \in [Worker -> [pc: Pc, command: Command,
                            mem: Row \cup {NoRow}, plan: Transition]]
  BY <1>2, <1>3 DEF IInv, TypeOK, Pc
<1>5. ledger' \in [Stream -> SUBSET Transition]
  <2>1. task[o].plan \in Transition /\ ledger \in [Stream -> SUBSET Transition]
    BY DEF IInv, TypeOK
  <2>2. \/ ledger' = ledger
        \/ \E a \in {"stage_transition", "f44"} : Anchored(o, a)
    BY DEF AnchorTransition, AnchorF44, Crash, StopServing, Rescore
  <2> QED
    BY <2>1, <2>2 DEF Anchored
<1>6. torn' \in BOOLEAN /\ crashes' \in Nat /\ verdict' \in Verdict
  <2>1. torn \in BOOLEAN /\ crashes \in Nat /\ verdict \in Verdict
    BY DEF IInv, TypeOK
  <2>2. verdict' \in Verdict
    BY <2>1 DEF AnchorTransition, AnchorF44, Crash, StopServing, Rescore
  <2>3. crashes' = crashes \/ crashes' = crashes + 1
    BY DEF AnchorTransition, AnchorF44, Crash, StopServing, Rescore
  <2>4. torn' \in BOOLEAN
    BY <2>1 DEF AnchorTransition, AnchorF44, Crash, StopServing, Rescore
  <2> QED
    BY <2>1, <2>2, <2>3, <2>4
<1>7. TypeOK'
  BY <1>1, <1>4, <1>5, <1>6 DEF IInv, TypeOK
<1>8. (LadderClimbed /\ NothingFromTheFuture /\ RowEarned)'
  BY <1>1 DEF IInv, LadderClimbed, NothingFromTheFuture, RowEarned, Earned
<1>9. (MemoryEarned /\ PlansAttainable)'
  BY <1>1, <1>3 DEF IInv, TypeOK, MemoryEarned, PlansAttainable, Attainable, Earned,
                    Idle
<1> QED
  BY <1>7, <1>8, <1>9 DEF IInv

\* Time passes: what was attainable stays so.
LEMMA TickIInv == ASSUME IInv, Tick PROVE IInv'
<1>1. now \in Nat /\ now' = now + 1 /\ UNCHANGED <<row, task, firstHeld>>
  BY DEF IInv, TypeOK, Tick
<1>2. TypeOK'
  BY <1>1 DEF IInv, TypeOK, Tick
<1>3. (LadderClimbed /\ RowEarned /\ MemoryEarned)'
  BY <1>1 DEF IInv, LadderClimbed, RowEarned, MemoryEarned, Earned
<1>4. NothingFromTheFuture'
  BY <1>1 DEF IInv, TypeOK, NothingFromTheFuture, Never
<1>5. PlansAttainable'
  <2> SUFFICES ASSUME NEW q \in Worker, task[q].pc = "decided"
               PROVE  /\ Attainable(task[q].plan.to)'
                      /\ task[q].command = "begin" \/ task[q].mem # NoRow
    BY <1>1 DEF PlansAttainable
  <2>1. /\ Attainable(task[q].plan.to)
        /\ task[q].command = "begin" \/ task[q].mem # NoRow
    BY DEF IInv, PlansAttainable
  <2>2. PreviousStage(task[q].plan.to) \in Stages
    BY LadderClosed DEF IInv, TypeOK, Transition
  <2>3. /\ firstHeld[PreviousStage(task[q].plan.to)] \in Int
        /\ Dwell[PreviousStage(task[q].plan.to)] \in Int
    BY <2>2, CutoverAssumption DEF IInv, TypeOK, Never
  <2> QED
    BY <1>1, <2>1, <2>3 DEF Attainable
<1> QED
  BY <1>2, <1>3, <1>4, <1>5 DEF IInv

LEMMA NextIInv == IInv /\ [Next]_vars => IInv'
<1> SUFFICES ASSUME IInv, [Next]_vars PROVE IInv'
  OBVIOUS
<1>1. CASE UNCHANGED vars
  BY <1>1 DEF vars, IInv, TypeOK, LadderClimbed, NothingFromTheFuture, RowEarned,
              MemoryEarned, PlansAttainable, Attainable, Earned
<1>2. CASE Tick
  BY <1>2, TickIInv
<1>3. CASE Rescore
  BY <1>3, QuietIInv, CutoverAssumption
<1>4. ASSUME NEW o \in Worker,
             \/ \E c \in Command : Reload(o, c)
             \/ Decide(o) \/ Upsert(o) \/ AnchorTransition(o) \/ AnchorF44(o)
             \/ Crash(o) \/ StopServing(o)
      PROVE  IInv'
  BY <1>4, ReloadIInv, DecideIInv, UpsertIInv, QuietIInv
<1> QED
  BY <1>1, <1>2, <1>3, <1>4 DEF Next

\* Types hold however many commands overlap: in particular the row's
\* percentage is always one of STAGE_PERCENTS.
THEOREM TypeCorrect == Spec => []TypeOK
<1>1. Spec => []IInv
  BY InitIInv, NextIInv, PTL DEF Spec
<1>2. IInv => TypeOK
  BY DEF IInv
<1> QED
  BY <1>1, <1>2, PTL

\* No interleaving of commands, crashes and clock ticks puts a stage in force
\* before the stage below it has been held for its dwell: 100% of the traffic
\* never runs on the runtime sooner after the start than the dwells add up to.
THEOREM LadderIsClimbed == Spec => []LadderClimbed
<1>1. Spec => []IInv
  BY InitIInv, NextIInv, PTL DEF Spec
<1>2. IInv => LadderClimbed
  BY DEF IInv
<1> QED
  BY <1>1, <1>2, PTL

------------------------------------------------------------------------------
(* One command at a time.                                                   *)

Busy(o) == task[o].pc \notin {"idle", "serving"}
Written(o) == task[o].pc \in {"written", "anchored"}

Alone == \A o, q \in Worker : Busy(o) /\ Busy(q) => o = q
Fresh == \A o \in Worker : task[o].pc \in {"loaded", "decided"} => task[o].mem = row

\* The moves of the rollout that do not begin it.
Permitted(cfg, s) ==
    \/ s = 0
    \/ s = PreviousStage(cfg.stage)
    \/ HasNext(cfg.stage) /\ DwellComplete(cfg, now) /\ s = NextStage(cfg.stage)
Fits(p) ==
    \/ p.command = "begin" /\ p.plan = Move("begin", 0, 1)
    \/ /\ p.command # "begin" /\ row # NoRow
       /\ p.plan.from = row.stage /\ Permitted(row, p.plan.to)
PlansFit == \A o \in Worker : task[o].pc = "decided" => Fits(task[o])
WrittenStands ==
    \A o \in Worker : Written(o) => row # NoRow /\ row.stage = task[o].plan.to

OneEntry == \A a \in Stream : \A x, y \in ledger[a] : x = y
\* A stream ends at the stage in force; it leads up to the plan.
Tells(a) == IF row = NoRow THEN ledger[a] = {}
            ELSE \E t \in ledger[a] : t.to = row.stage
LeadsTo(plan, a) == plan.kind # "begin" => \A t \in ledger[a] : t.to = plan.from
LedgerKept ==
    /\ ~torn /\ (\A o \in Worker : ~Written(o)) => \A a \in Stream : Tells(a)
    /\ \A o \in Worker, a \in Stream :
          /\ ~torn /\ task[o].pc = "written" => LeadsTo(task[o].plan, a)
          /\ ~torn /\ task[o].pc = "anchored" /\ a = "f44" => LeadsTo(task[o].plan, a)
          /\ task[o].pc = "anchored" /\ a = "stage_transition"
                => ledger[a] = {task[o].plan}

SerialInv == /\ Alone
             /\ Fresh
             /\ PlansFit
             /\ WrittenStands
             /\ OneEntry
             /\ LedgerKept

------------------------------------------------------------------------------

\* The commands under way besides a busy one: none.
LEMMA OthersRest ==
    ASSUME SerialInv, NEW o \in Worker, Busy(o)
    PROVE  \A q \in Worker \ {o} : ~Busy(q)
BY DEF SerialInv, Alone

LEMMA InitSerial == Init => SerialInv
<1> SUFFICES ASSUME Init PROVE SerialInv
  OBVIOUS
<1>1. \A o \in Worker : task[o].pc = "idle"
  BY DEF Init, Idle
<1>2. \A a \in Stream : ledger[a] = {}
  BY DEF Init
<1> QED
  BY <1>1, <1>2 DEF Init, SerialInv, Alone, Fresh, PlansFit, WrittenStands, OneEntry,
     LedgerKept, Tells, Busy, Written

\* A decision from the row in force is a step of the rollout.
LEMMA ResolveFits ==
    ASSUME TypeOK, NEW o \in Worker, task[o].mem = row,
           Applies(task[o], Resolve(task[o], verdict, now))
    PROVE  LET plan == Resolve(task[o], verdict, now) IN
           \/ task[o].command = "begin" /\ plan = Move("begin", 0, 1)
           \/ /\ task[o].command # "begin" /\ row # NoRow
              /\ plan.from = row.stage /\ Permitted(row, plan.to)
<1> DEFINE p == task[o]
           plan == Resolve(p, verdict, now)
<1>1. plan.kind # "hold"
  BY DEF Applies
<1>2. CASE p.command = "begin"
  BY <1>2 DEF Resolve
<1>3. CASE p.command = "rollback"
  BY <1>1, <1>3 DEF Resolve, Move, Hold, Permitted
<1>4. CASE p.command = "monitor_auto"
  <2>1. /\ row # NoRow /\ row.stage >= 100
        /\ plan = Move("instant_rollback", 100, 0)
    BY <1>1, <1>4 DEF Resolve, Check, Hold, Move
  <2>2. row.stage = 100
    BY <2>1 DEF TypeOK, Row, Stages
  <2> QED
    BY <1>4, <2>1, <2>2 DEF Move, Permitted
<1>5. CASE p.command \in {"advance", "advance_confirm"}
  <2>1. plan = Evaluate(row, verdict, now)
    BY <1>5 DEF Resolve
  <2>2. row # NoRow
    BY <1>1, <2>1 DEF Evaluate, Hold, Move
  <2>3. \/ plan = Move("immediate_rollback", row.stage, 0)
        \/ plan = Move("rollback", row.stage, PreviousStage(row.stage))
        \/ /\ plan = Move("advance", row.stage, NextStage(row.stage))
           /\ HasNext(row.stage) /\ DwellComplete(row, now)
    BY <1>1, <2>1, <2>2 DEF Evaluate, Advances, Hold, Move
  <2> QED
    BY <1>5, <2>2, <2>3 DEF Move, Permitted
<1>6. CASE p.command = "serve"
  BY <1>1, <1>6 DEF Resolve, Hold, Move
<1>7. p.command \in Command
  BY DEF TypeOK
<1> QED
  BY <1>2, <1>3, <1>4, <1>5, <1>6, <1>7 DEF Command

\* A command starts only when no other is under way, and loads the row.
LEMMA ReloadSerial ==
    ASSUME TypeOK, SerialInv, Exclusive, NEW o \in Worker, NEW c \in Command, Reload(o, c)
    PROVE  SerialInv'
<1>1. /\ \A q \in Worker : ~Busy(q) /\ ~Written(q)
      /\ UNCHANGED <<row, now, verdict, ledger, torn>>
  BY DEF Reload, Busy, Written
<1>2. /\ \A q \in Worker \ {o} : task'[q] = task[q]
      /\ task'[o].pc \in {"serving", "loaded"} /\ task'[o].mem = row
  BY DEF Reload, TypeOK
<1>3. \A q \in Worker : /\ task'[q].pc \notin {"decided", "written", "anchored"}
                        /\ task'[q].pc = "loaded" => q = o
  BY <1>1, <1>2 DEF Busy, Written
<1>4. \A q \in Worker : Busy(q)' => q = o
  BY <1>1, <1>2 DEF Busy
<1> QED
  BY <1>1, <1>2, <1>3, <1>4 DEF SerialInv, Alone, Fresh, PlansFit, WrittenStands, OneEntry,
     LedgerKept, Tells, LeadsTo, Busy, Written

LEMMA DecideSerial ==
    ASSUME TypeOK, SerialInv, NEW o \in Worker, Decide(o)
    PROVE  SerialInv'
<1> DEFINE plan == Resolve(task[o], verdict, now)
<1>1. /\ task[o].pc = "loaded" /\ task[o].mem = row
      /\ UNCHANGED <<row, now, verdict, ledger, torn>>
  BY DEF Decide, SerialInv, Fresh
<1>2. \A q \in Worker \ {o} : ~Busy(q)
  BY <1>1, OthersRest DEF Busy
<1>3. CASE Applies(task[o], plan)
  <2>1. /\ \A q \in Worker \ {o} : task'[q] = task[q]
        /\ task'[o] = [task[o] EXCEPT !.pc = "decided", !.plan = plan]
    BY <1>3 DEF Decide, TypeOK
  <2>2. /\ task'[o].pc = "decided" /\ task'[o].plan = plan
        /\ task'[o].mem = row /\ task'[o].command = task[o].command
    <3> HIDE DEF plan
    <3> QED
      BY <1>1, <2>1 DEF TypeOK
  <2>3. Fits(task[o])'
    BY <1>1, <1>3, <2>2, ResolveFits DEF Fits, Permitted, DwellComplete
  <2>4. \A q \in Worker : /\ ~Written(q) /\ ~Written(q)'
                          /\ task'[q].pc \in {"loaded", "decided"} => q = o
                          /\ Busy(q)' => q = o
    BY <1>1, <1>2, <2>1, <2>2 DEF Busy, Written
  <2> HIDE DEF plan
  <2> QED
    BY <1>1, <2>2, <2>3, <2>4 DEF SerialInv, Alone, Fresh, PlansFit, WrittenStands,
       OneEntry, LedgerKept, Tells, LeadsTo, Written
<1>4. CASE ~Applies(task[o], plan)
  <2>1. \A q \in Worker : task'[q] = IF q = o THEN Idle ELSE task[q]
    BY <1>4 DEF Decide, TypeOK
  <2>2. \A q \in Worker : ~Written(q) /\ ~Busy(q)' /\ ~Written(q)'
    BY <1>1, <1>2, <2>1 DEF Busy, Written, Idle
  <2> QED
    BY <1>1, <2>2 DEF SerialInv, Alone, Fresh, PlansFit, WrittenStands,
       OneEntry, LedgerKept, Tells, LeadsTo, Written, Busy
<1> QED
  BY <1>3, <1>4

\* The write: the last transition anchored ended where this one begins.
LEMMA UpsertSerial ==
    ASSUME TypeOK, SerialInv, NEW o \in Worker, Upsert(o)
    PROVE  SerialInv'
<1>1. /\ task[o].pc = "decided" /\ UNCHANGED <<ledger, torn>>
      /\ row'.stage = task[o].plan.to
      /\ task' = [task EXCEPT ![o].pc = "written", ![o].mem = row']
  BY DEF Upsert
<1>2. row' # NoRow
  <2>1. PICK s : row' = [stage |-> task[o].plan.to, seed |-> s, since |-> now]
    BY DEF Upsert
  <2>2. row'.stage \in Stages
    BY <1>1 DEF TypeOK, Transition
  <2> QED
    BY <2>2 DEF NoRow, Stages
<1>3. \A q \in Worker \ {o} : ~Busy(q) /\ task'[q] = task[q]
  BY <1>1, OthersRest DEF Busy, TypeOK
<1>4. task'[o].pc = "written" /\ task'[o].plan = task[o].plan
  BY <1>1 DEF TypeOK
<1>5. \A q \in Worker : /\ Busy(q)' => q = o
                        /\ task'[q].pc \notin {"loaded", "decided", "anchored"}
                        /\ ~Written(q)
  BY <1>1, <1>3, <1>4 DEF Busy, Written
<1>6. \A a \in Stream : ~torn => LeadsTo(task[o].plan, a)
  <2> SUFFICES ASSUME NEW a \in Stream, ~torn, task[o].plan.kind # "begin",
                      NEW t \in ledger[a]
               PROVE  t.to = task[o].plan.from
    BY DEF LeadsTo
  <2>1. Tells(a) /\ OneEntry
    BY <1>5 DEF SerialInv, LedgerKept
  <2>2. row # NoRow /\ task[o].plan.from = row.stage
    BY <1>1 DEF SerialInv, PlansFit, Fits, Move
  <2> QED
    BY <2>1, <2>2 DEF Tells, OneEntry
<1>7. LedgerKept'
  BY <1>1, <1>4, <1>5, <1>6 DEF LedgerKept, LeadsTo, Written, Busy
<1>8. WrittenStands'
  BY <1>1, <1>2, <1>4, <1>5 DEF WrittenStands, Written, Busy
<1> QED
  BY <1>1, <1>5, <1>7, <1>8 DEF SerialInv, Alone, Fresh, PlansFit, OneEntry

\* The first anchor: that stream now ends with the plan.
LEMMA AnchorTransitionSerial ==
    ASSUME TypeOK, SerialInv, NEW o \in Worker, AnchorTransition(o)
    PROVE  SerialInv'
<1>1. /\ task[o].pc = "written" /\ UNCHANGED <<row, now, torn>>
      /\ \A a \in Stream : ledger'[a] = IF a = "stage_transition" THEN {task[o].plan}
                                                                  ELSE ledger[a]
      /\ task' = [task EXCEPT ![o].pc = "anchored"]
  BY DEF AnchorTransition, Anchored
<1>2. \A q \in Worker \ {o} : ~Busy(q) /\ task'[q] = task[q]
  BY <1>1, OthersRest DEF Busy, TypeOK
<1>3. task'[o].pc = "anchored" /\ task'[o].plan = task[o].plan
  BY <1>1 DEF TypeOK
<1>4. \A q \in Worker : /\ Busy(q)' => q = o
                        /\ task'[q].pc \notin {"loaded", "decided", "written"}
  BY <1>2, <1>3 DEF Busy
<1>5. OneEntry'
  BY <1>1 DEF SerialInv, OneEntry
<1>6. WrittenStands'
  BY <1>1, <1>3, <1>4 DEF SerialInv, WrittenStands, Written, Busy
<1>7. LedgerKept'
  <2>1. \A a \in Stream : a = "f44" /\ ~torn => LeadsTo(task[o].plan, a)'
    BY <1>1 DEF SerialInv, LedgerKept, LeadsTo
  <2>2. Written(o)'
    BY <1>3 DEF Written
  <2> QED
    BY <1>1, <1>3, <1>4, <2>1, <2>2 DEF LedgerKept, LeadsTo, Busy
<1> QED
  BY <1>4, <1>5, <1>6, <1>7 DEF SerialInv, Alone, Fresh, PlansFit

\* The second anchor ends the command: both streams end at the stage in force,
\* also when earlier anchors were lost.
LEMMA AnchorF44Serial ==
    ASSUME TypeOK, SerialInv, NEW o \in Worker, AnchorF44(o)
    PROVE  SerialInv'
<1>1. /\ task[o].pc = "anchored" /\ UNCHANGED <<row, now>>
      /\ \A a \in Stream : ledger'[a] = IF a = "f44" THEN {task[o].plan} ELSE ledger[a]
      /\ task' = [task EXCEPT ![o] = Idle]
  BY DEF AnchorF44, Anchored
<1>2. \A q \in Worker : ~Busy(q)' /\ ~Written(q)'
  <2>1. \A q \in Worker : task'[q] = IF q = o THEN Idle ELSE task[q]
    BY <1>1 DEF TypeOK
  <2>2. \A q \in Worker \ {o} : ~Busy(q)
    BY <1>1, OthersRest DEF Busy
  <2> QED
    BY <2>1, <2>2 DEF Busy, Written, Idle
<1>3. \A a \in Stream : ledger'[a] = {task[o].plan}
  BY <1>1, CutoverAssumption DEF SerialInv, LedgerKept
<1>4. row # NoRow /\ row.stage = task[o].plan.to
  BY <1>1 DEF SerialInv, WrittenStands, Written
<1>5. \A a \in Stream : Tells(a)'
  BY <1>1, <1>3, <1>4 DEF Tells
<1> QED
  BY <1>2, <1>3, <1>5 DEF SerialInv, Alone, Fresh, PlansFit, WrittenStands, OneEntry,
     LedgerKept, Busy, Written

\* A crash between the write and the anchors is remembered in torn; before the
\* write it leaves nothing behind.
LEMMA CrashSerial ==
    ASSUME TypeOK, SerialInv, NEW o \in Worker, Crash(o)
    PROVE  SerialInv'
<1>1. /\ Busy(o) /\ UNCHANGED <<row, now, ledger>>
      /\ task' = [task EXCEPT ![o] = Idle]
      /\ torn' = (torn \/ Written(o))
  BY DEF Crash, Busy, Written
<1>2. \A q \in Worker \ {o} : ~Busy(q)
  BY <1>1, OthersRest
<1>3. \A q \in Worker : task'[q] = IF q = o THEN Idle ELSE task[q]
  BY <1>1 DEF TypeOK
<1>4. \A q \in Worker : ~Busy(q)' /\ ~Written(q)'
  BY <1>2, <1>3 DEF Busy, Written, Idle
<1>5. ~torn' => \A q \in Worker : ~Written(q)
  BY <1>1, <1>2 DEF Busy, Written
<1>6. ~torn' => ~torn
  BY <1>1
<1>7. ~torn' => \A a \in Stream : Tells(a)'
  BY <1>1, <1>5, <1>6 DEF SerialInv, LedgerKept, Tells
<1>8. OneEntry'
  BY <1>1 DEF SerialInv, OneEntry
<1> QED
  BY <1>4, <1>7, <1>8 DEF SerialInv, Alone, Fresh, PlansFit, WrittenStands,
     LedgerKept, Busy, Written

\* A gateway that stops, a new score and the passing of time: a dwell that is
\* complete stays complete.
LEMMA ElsewhereSerial ==
    ASSUME TypeOK, SerialInv,
           (\E o \in Worker : StopServing(o)) \/ Rescore \/ Tick \/ UNCHANGED vars
    PROVE  SerialInv'
<1>1. /\ UNCHANGED <<row, ledger, torn>> /\ now' \in Int /\ now \in Int /\ now' >= now
      /\ \A q \in Worker : task'[q] = task[q] \/ (~Busy(q) /\ task'[q] = Idle)
  <2>1. ASSUME NEW o \in Worker, StopServing(o)
        PROVE  \A q \in Worker : task'[q] = task[q] \/ (~Busy(q) /\ task'[q] = Idle)
    BY <2>1 DEF StopServing, TypeOK, Busy
  <2>2. (\E o \in Worker : StopServing(o)) \/ UNCHANGED task
    BY DEF Rescore, Tick, vars
  <2>3. UNCHANGED <<row, ledger, torn>> /\ now' \in Int /\ now \in Int /\ now' >= now
    BY DEF StopServing, Rescore, Tick, vars, TypeOK
  <2> QED
    BY <2>1, <2>2, <2>3
<1>2. \A q \in Worker : Busy(q)' \/ Busy(q) => task'[q] = task[q]
  BY <1>1 DEF Busy, Idle
<1>3. \A q \in Worker : task'[q].pc = task[q].pc \/ (~Busy(q) /\ ~Busy(q)')
  BY <1>1 DEF Busy, Idle
<1>4. \A q \in Worker : /\ Written(q)' <=> Written(q)
                        /\ Busy(q)' <=> Busy(q)
  BY <1>3 DEF Written, Busy
<1>5. Alone' /\ Fresh'
  BY <1>1, <1>2, <1>4 DEF SerialInv, Alone, Fresh, Busy
<1>6. PlansFit'
  <2> SUFFICES ASSUME NEW q \in Worker, task'[q].pc = "decided"
               PROVE  Fits(task[q])'
    BY DEF PlansFit
  <2>1. task'[q] = task[q] /\ Fits(task[q])
    BY <1>2 DEF SerialInv, PlansFit, Busy
  <2>2. row # NoRow => (DwellComplete(row, now) => DwellComplete(row, now'))
    <3> SUFFICES ASSUME row # NoRow PROVE DwellComplete(row, now) => DwellComplete(row, now')
      OBVIOUS
    <3>1. row.since \in Int /\ Dwell[row.stage] \in Int
      BY CutoverAssumption DEF TypeOK, Row
    <3> QED
      BY <1>1, <3>1 DEF DwellComplete
  <2> QED
    BY <1>1, <2>1, <2>2 DEF Fits, Permitted
<1>7. WrittenStands'
  BY <1>1, <1>2, <1>4 DEF SerialInv, WrittenStands, Written, Busy
<1>8. OneEntry'
  BY <1>1 DEF SerialInv, OneEntry
<1>9. LedgerKept'
  <2>1. ~torn /\ (\A q \in Worker : ~Written(q)') => \A a \in Stream : Tells(a)'
    BY <1>1, <1>4 DEF SerialInv, LedgerKept, Tells
  <2>2. \A q \in Worker : task'[q].pc \in {"written", "anchored"} => task'[q] = task[q]
    BY <1>2 DEF Busy
  <2> QED
    BY <1>1, <2>1, <2>2 DEF SerialInv, LedgerKept, LeadsTo
<1> QED
  BY <1>5, <1>6, <1>7, <1>8, <1>9 DEF SerialInv

\* SerialInv is inductive, given the types.
LEMMA NextSerial ==
    ASSUME Exclusive
    PROVE  TypeOK /\ SerialInv /\ [Next]_vars => SerialInv'
<1> SUFFICES ASSUME TypeOK, SerialInv, [Next]_vars PROVE SerialInv'
  OBVIOUS
<1>1. ASSUME NEW o \in Worker, NEW c \in Command, Reload(o, c)
      PROVE  SerialInv'
  BY <1>1, ReloadSerial
<1>2. ASSUME NEW o \in Worker, Decide(o) \/ Upsert(o)
      PROVE  SerialInv'
  BY <1>2, DecideSerial, UpsertSerial
<1>3. ASSUME NEW o \in Worker, AnchorTransition(o) \/ AnchorF44(o) \/ Crash(o)
      PROVE  SerialInv'
  BY <1>3, AnchorTransitionSerial, AnchorF44Serial, CrashSerial
<1> QED
  BY <1>1, <1>2, <1>3, ElsewhereSerial DEF Next

LEMMA SpecSerial ==
    ASSUME Exclusive
    PROVE  Spec => [](TypeOK /\ SerialInv)
BY TypeCorrect, InitSerial, NextSerial, PTL DEF Spec

------------------------------------------------------------------------------
(* The provenance ledger.                                                   *)

\* With no command under way and none that died between its write and its
\* anchors, every anchor stream ends with the stage in force.
THEOREM LedgerIsCurrent ==
    ASSUME Exclusive
    PROVE  Spec => []LedgerTellsStage
<1>1. SerialInv => LedgerTellsStage
  BY DEF SerialInv, LedgerKept, Tells, Written, LedgerTellsStage
<1> QED
  BY <1>1, SpecSerial, PTL

\* An anchor starts where the one before it in its stream ended, unless anchors
\* were lost or the transition is a begin.
THEOREM LedgerIsChain ==
    ASSUME Exclusive
    PROVE  Spec => LedgerChains
<1>1. ASSUME SerialInv, [Next]_vars, NEW a \in Stream, NEW old \in ledger[a],
             NEW new \in ledger'[a], old # new, ~torn, new.kind # "begin"
      PROVE  new.from = old.to
  <2>1. OneEntry
    BY <1>1 DEF SerialInv
  <2>2. ASSUME NEW o \in Worker, AnchorTransition(o)
        PROVE  new.from = old.to
    <3>1. LeadsTo(task[o].plan, a) /\ new \in ledger[a] \cup {task[o].plan}
      BY <1>1, <2>2 DEF AnchorTransition, Anchored, SerialInv, LedgerKept
    <3> QED
      BY <1>1, <2>1, <3>1 DEF LeadsTo, OneEntry
  <2>3. ASSUME NEW o \in Worker, AnchorF44(o)
        PROVE  new.from = old.to
    <3>1. a = "f44" => LeadsTo(task[o].plan, a)
      BY <1>1, <2>3 DEF AnchorF44, SerialInv, LedgerKept
    <3>2. new \in IF a = "f44" THEN {task[o].plan} ELSE ledger[a]
      BY <1>1, <2>3 DEF AnchorF44, Anchored
    <3> QED
      BY <1>1, <2>1, <3>1, <3>2 DEF LeadsTo, OneEntry
  <2>4. CASE UNCHANGED ledger
    BY <1>1, <2>1, <2>4 DEF OneEntry
  <2>5. \/ \E o \in Worker : AnchorTransition(o) \/ AnchorF44(o)
        \/ UNCHANGED ledger
    BY <1>1 DEF Next, Reload, Decide, Upsert, Crash, StopServing, Rescore, Tick, vars
  <2> QED
    BY <2>2, <2>3, <2>4, <2>5
<1>2. SerialInv /\ [Next]_vars =>
        [\A a \in Stream : \A old \in ledger[a], new \in ledger'[a] :
            old # new /\ ~torn /\ new.kind # "begin" => new.from = old.to]_vars
  BY <1>1
<1> QED
  BY <1>2, SpecSerial, PTL DEF Spec, LedgerChains

------------------------------------------------------------------------------
(* The row.                                                                 *)

\* Every write that is not a begin's keeps the seed and is a step of the
\* rollout from the row in force.
LEMMA UpsertStep ==
    ASSUME TypeOK, SerialInv, NEW o \in Worker, Upsert(o)
    PROVE  /\ row' \in Row /\ row' # NoRow /\ now' = now
           /\ row'.since = now
           /\ \/ task[o].command = "begin" /\ row'.stage = 1
              \/ /\ task[o].command # "begin" /\ row \in Row /\ row # NoRow
                 /\ row'.seed = row.seed /\ Permitted(row, row'.stage)
<1>1. PICK s \in SeedsFor(task[o]) :
        row' = [stage |-> task[o].plan.to, seed |-> s, since |-> now]
  BY DEF Upsert
<1>2. task[o].pc = "decided" /\ UNCHANGED now
  BY DEF Upsert
<1>3. Fits(task[o]) /\ task[o].mem = row
  BY <1>2 DEF SerialInv, PlansFit, Fresh
<1>4. task[o].plan.to \in Stages /\ now \in Nat
  BY DEF TypeOK, Transition
<1>5. CASE task[o].command = "begin"
  <2>1. s \in Seed /\ task[o].plan.to = 1
    BY <1>3, <1>5 DEF SeedsFor, Fits, Move
  <2>2. row' \in Row
    BY <1>1, <1>4, <2>1 DEF Row
  <2> QED
    BY <1>1, <1>2, <1>5, <2>1, <2>2, NoRowIsNoRow
<1>6. CASE task[o].command # "begin"
  <2>1. row # NoRow /\ row \in Row /\ Permitted(row, task[o].plan.to)
    BY <1>3, <1>6 DEF Fits, TypeOK
  <2>2. s = row.seed
    BY <1>3, <1>6 DEF SeedsFor
  <2>3. s \in Seed
    BY <2>1, <2>2 DEF Row
  <2>4. row' \in Row
    BY <1>1, <1>4, <2>3 DEF Row
  <2> QED
    BY <1>1, <1>2, <1>6, <2>1, <2>2, <2>4, NoRowIsNoRow
<1> QED
  BY <1>5, <1>6

\* The row is written by Upsert and the clock moved by Tick, never both.
LEMMA RowAndClock ==
    ASSUME [Next]_vars
    PROVE  \/ \E o \in Worker : Upsert(o)
           \/ Tick
           \/ UNCHANGED <<row, now>>
BY DEF Next, Reload, Decide, AnchorTransition, AnchorF44, Crash, StopServing, Rescore, vars

\* Except by begin, a record that runs on the runtime goes back to Salesforce
\* only when the percentage goes down: the seed is carried and the buckets of
\* a lower percentage are among those of a higher one.
THEOREM NoRecordFlipsBack ==
    ASSUME Exclusive
    PROVE  Spec => NoFlipFlop
<1>1. ASSUME TypeOK, SerialInv, [Next]_vars, ~BeginWrites, row # NoRow,
             row'.stage >= row.stage
      PROVE  RuntimeRecords(row) \subseteq RuntimeRecords(row')
  <2>1. ASSUME NEW o \in Worker, Upsert(o)
        PROVE  RuntimeRecords(row) \subseteq RuntimeRecords(row')
    <3>1. task[o].pc = "decided" /\ task'[o].pc = "written"
      BY <2>1, <1>1 DEF Upsert, TypeOK
    <3>2. task[o].command # "begin"
      BY <1>1, <3>1 DEF BeginWrites
    <3>3. row' # NoRow /\ row'.seed = row.seed /\ row \in Row /\ row' \in Row
      BY <1>1, <2>1, <3>2, UpsertStep
    <3>4. ASSUME NEW r \in Record, RunsOnRuntime(row, r)
          PROVE  RunsOnRuntime(row', r)
      <4>1. Bucket[row.seed][r] \in Int /\ row.stage \in Int /\ row'.stage \in Int
        BY <3>3, CutoverAssumption DEF Row, Stages
      <4> QED
        BY <1>1, <3>3, <3>4, <4>1 DEF RunsOnRuntime
    <3> QED
      BY <3>4 DEF RuntimeRecords
  <2>2. CASE UNCHANGED row
    BY <2>2
  <2> QED
    BY <1>1, <2>1, <2>2, RowAndClock DEF Tick
<1>2. TypeOK /\ SerialInv /\ [Next]_vars =>
        [~BeginWrites /\ row # NoRow /\ row'.stage >= row.stage
            => RuntimeRecords(row) \subseteq RuntimeRecords(row')]_vars
  BY <1>1
<1> QED
  BY <1>2, SpecSerial, PTL DEF Spec, NoFlipFlop

------------------------------------------------------------------------------
(* The refinement.                                                          *)

LEMMA RolloutInit == Init => Rollout!Init
BY DEF Init, Rollout!Init, Rollout!NotBegun, NoRow

\* A write is Begin, Advance, StepBack or BackToZero, a tick is Tick, and
\* everything else leaves the rollout where it is.
LEMMA RolloutStep ==
    ASSUME TypeOK, SerialInv, [Next]_vars
    PROVE  [Rollout!Next]_(Rollout!vars)
<1>1. ASSUME NEW o \in Worker, Upsert(o)
      PROVE  Rollout!Next
  <2>1. /\ row' \in Row /\ row' # NoRow /\ now' = now /\ row'.since = now
        /\ \/ task[o].command = "begin" /\ row'.stage = 1
           \/ /\ task[o].command # "begin" /\ row \in Row /\ row # NoRow
              /\ row'.seed = row.seed /\ Permitted(row, row'.stage)
    BY <1>1, UpsertStep
  <2>2. \A s : row'.stage = s => Rollout!Enter(s)
    BY <2>1 DEF Rollout!Enter
  <2>3. CASE row'.stage = 1 /\ task[o].command = "begin"
    BY <2>2, <2>3 DEF Rollout!Next, Rollout!Begin
  <2>4. CASE row \in Row /\ row # NoRow /\ Permitted(row, row'.stage)
    <3>1. row.stage # Rollout!NotBegun
      BY <2>4 DEF Row, Stages, Rollout!NotBegun
    <3>2. CASE row'.stage = 0
      BY <2>2, <3>1, <3>2 DEF Rollout!Next, Rollout!BackToZero
    <3>3. CASE row'.stage = PreviousStage(row.stage)
      BY <2>2, <3>1, <3>3
         DEF Rollout!Next, Rollout!StepBack, PreviousStage, Rollout!PreviousStage
    <3>4. CASE /\ HasNext(row.stage) /\ DwellComplete(row, now)
               /\ row'.stage = NextStage(row.stage)
      <4>1. Rollout!Enter(Rollout!NextStage(row.stage))
        BY <2>2, <3>4 DEF NextStage, Rollout!NextStage
      <4>2. Rollout!HasNext(row.stage)
        BY <3>4 DEF HasNext, Rollout!HasNext
      <4>3. now - (IF row = NoRow THEN 0 ELSE row.since) >= Dwell[row.stage]
        BY <2>4, <3>4 DEF DwellComplete
      <4> QED
        BY <3>1, <4>1, <4>2, <4>3 DEF Rollout!Next, Rollout!Advance
    <3> QED
      BY <2>4, <3>2, <3>3, <3>4 DEF Permitted
  <2> QED
    BY <2>1, <2>3, <2>4
<1>2. CASE Tick
  BY <1>2 DEF Tick, Rollout!Next, Rollout!Tick
<1>3. CASE UNCHANGED <<row, now>>
  BY <1>3 DEF Rollout!vars
<1> QED
  BY <1>1, <1>2, <1>3, RowAndClock

\* With one command at a time the cutover machinery implements the staged
\* rollout: its processes, private memories, stale verdicts and crashes never
\* show in the percentage.
THEOREM CutoverImplementsRollout ==
    ASSUME Exclusive
    PROVE  Spec => ImplementsRollout
<1>1. TypeOK /\ SerialInv /\ [Next]_vars => [Rollout!Next]_(Rollout!vars)
  BY RolloutStep
<1> QED
  BY <1>1, RolloutInit, SpecSerial, PTL DEF Spec, ImplementsRollout, Rollout!Spec

=============================================================================
