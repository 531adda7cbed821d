---------------------------- MODULE StagedRollout ----------------------------
(***************************************************************************)
(* What a staged rollout promises, with no processes, caches or decisions  *)
(* in it: traffic moves to the runtime one rung at a time, a rung is left  *)
(* upwards only after its dwell, and the way down is one rung or all the   *)
(* way.  Cutover implements it as long as one command runs at a time.      *)
(***************************************************************************)
EXTENDS StageLadder

CONSTANTS
    Dwell,      \* time a rung must be held before the next one
    MaxTime     \* bound on the clock

VARIABLES
    stage,      \* the percentage in force, or NotBegun
    since,      \* when it was entered
    now

vars == <<stage, since, now>>

NotBegun == -1

Enter(s) == /\ stage' = s
            /\ since' = now
            /\ UNCHANGED now

Begin == Enter(1)

Advance == /\ stage # NotBegun
           /\ HasNext(stage)
           /\ now - since >= Dwell[stage]
           /\ Enter(NextStage(stage))

StepBack == stage # NotBegun /\ Enter(PreviousStage(stage))

BackToZero == stage # NotBegun /\ Enter(0)

Tick == /\ now < MaxTime
        /\ now' = now + 1
        /\ UNCHANGED <<stage, since>>

Init == stage = NotBegun /\ since = 0 /\ now = 0

Next == Begin \/ Advance \/ StepBack \/ BackToZero \/ Tick

Spec == Init /\ [][Next]_vars

=============================================================================
