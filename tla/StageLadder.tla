----------------------------- MODULE StageLadder -----------------------------
(***************************************************************************)
(* The ladder of traffic percentages a cutover climbs (cutover/router.py)  *)
(* and the per-record routing decision.  Pure definitions shared by the    *)
(* abstract rollout, by the cutover machinery and by the proofs.           *)
(***************************************************************************)
EXTENDS Integers

\* STAGE_PERCENTS: the percentages, in the order the cutover climbs them.
Stages == {0, 1, 5, 25, 50, 100}

\* next_stage: there is none above 100 (callers ask HasNext first).
HasNext(s) == s < 100
NextStage(s) == CASE s = 0  -> 1
                  [] s = 1  -> 5
                  [] s = 5  -> 25
                  [] s = 25 -> 50
                  [] s = 50 -> 100
                  [] OTHER  -> 1

\* previous_stage: 0 stays at 0.
PreviousStage(s) == CASE s = 5   -> 1
                      [] s = 25  -> 5
                      [] s = 50  -> 25
                      [] s = 100 -> 50
                      [] OTHER   -> 0

=============================================================================
