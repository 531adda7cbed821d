-------------------------------- MODULE Saga --------------------------------
(***************************************************************************)
(* Compensation of a saga when a cutover is rolled back (cutover/saga.py   *)
(* and the rollback branch of CutoverOrchestrator.apply).                  *)
(*                                                                         *)
(* While a share of the traffic runs on the runtime, executed activities   *)
(* are recorded in the saga.  A rollback walks the saga from its newest    *)
(* activity to its oldest, one awaited compensation after another, and     *)
(* only then writes the lower percentage: traffic keeps arriving during    *)
(* the walk.  The walk has no memory of earlier walks.                     *)
(*                                                                         *)
(* Abstracted: inputs, outputs and the per-activity result records (a      *)
(* result is what the world saw of the compensation, see `times`).         *)
(***************************************************************************)
EXTENDS Naturals, Sequences

CONSTANTS
    Activity,       \* the activity specs that may be recorded
    KindOf,         \* ActivitySpec.compensation_kind
    HasFunction,    \* ActivitySpec.compensate is not None
    MaxActivities,  \* bound on the length of the saga
    MaxAttempts     \* bound on the number of rollback attempts

CompensationKind == {"undo", "offset", "log_only", "requires_human"}

ASSUME SagaAssumption ==
    /\ KindOf \in [Activity -> CompensationKind]
    /\ HasFunction \in [Activity -> BOOLEAN]
    /\ MaxActivities \in Nat /\ MaxAttempts \in Nat

VARIABLES
    activities,     \* SagaTransaction.activities
    times,          \* times[i]: how often the i-th activity was compensated
    phase,             \* where apply is: "idle", "walking", "writing", "applied"
    at,             \* the walk's position: the next activity to look at
    covered,        \* history: the saga's length when the walk began
    confirmed,      \* apply's argument
    fully,          \* CompensationOutcome.fully_compensated
    paused,         \* CompensationOutcome.paused_for_human
    attempts

sagaVars == <<activities, times, phase, at, covered, confirmed, fully, paused, attempts>>

KindAt(i) == KindOf[activities[i]]
Reversible(i) == KindAt(i) \in {"undo", "offset"}

SagaInit ==
    /\ activities = <<>> /\ times = <<>>
    /\ phase = "idle" /\ at = 0 /\ covered = 0
    /\ confirmed = FALSE /\ fully = TRUE /\ paused = FALSE
    /\ attempts = 0

\* SagaTransaction.record, by the runtime: possible until the routing row says
\* otherwise, also in the middle of a walk.
Record(a) ==
    /\ phase # "applied"
    /\ Len(activities) < MaxActivities
    /\ activities' = Append(activities, a)
    /\ times' = Append(times, 0)
    /\ UNCHANGED <<phase, at, covered, confirmed, fully, paused, attempts>>

\* apply reaches `compensate(saga)`: reversed() fixes the walk's start now.
StartRollback(c) ==
    /\ phase = "idle"
    /\ attempts < MaxAttempts
    /\ attempts' = attempts + 1
    /\ phase' = "walking" /\ confirmed' = c
    /\ at' = Len(activities) /\ covered' = Len(activities)
    /\ fully' = TRUE /\ paused' = FALSE
    /\ UNCHANGED <<activities, times>>

AtActivity(k) == phase = "walking" /\ ~paused /\ at > 0 /\ KindAt(at) \in k

\* The walk stops for good at a REQUIRES_HUMAN activity.  Mutant: it goes on.
GoesOnPastHuman ==
    /\ AtActivity({"requires_human"})
    /\ paused' = FALSE /\ fully' = FALSE /\ at' = at - 1
    /\ UNCHANGED <<activities, times, phase, covered, confirmed, attempts>>
PauseForHuman ==
    /\ AtActivity({"requires_human"})
    /\ paused' = TRUE /\ fully' = FALSE
    /\ UNCHANGED <<activities, times, phase, at, covered, confirmed, attempts>>

LogOnly ==
    /\ AtActivity({"log_only"})
    /\ at' = at - 1
    /\ UNCHANGED <<activities, times, phase, covered, confirmed, fully, paused, attempts>>

NoFunctionRegistered ==
    /\ AtActivity({"undo", "offset"})
    /\ ~HasFunction[activities[at]]
    /\ fully' = FALSE
    /\ at' = at - 1
    /\ UNCHANGED <<activities, times, phase, covered, confirmed, paused, attempts>>

Compensates ==
    /\ AtActivity({"undo", "offset"})
    /\ HasFunction[activities[at]]
    /\ times' = [times EXCEPT ![at] = @ + 1]
    /\ at' = at - 1
    /\ UNCHANGED <<activities, phase, covered, confirmed, fully, paused, attempts>>

\* A compensation that raises may have reached the outside world first.
\* Mutant: the exception is swallowed.
RaisesUnnoticed ==
    /\ AtActivity({"undo", "offset"})
    /\ HasFunction[activities[at]]
    /\ at' = at - 1
    /\ UNCHANGED <<activities, times, phase, covered, confirmed, fully, paused, attempts>>
CompensationRaises ==
    /\ AtActivity({"undo", "offset"})
    /\ HasFunction[activities[at]]
    /\ \/ times' = [times EXCEPT ![at] = @ + 1]
       \/ times' = times
    /\ fully' = FALSE
    /\ at' = at - 1
    /\ UNCHANGED <<activities, phase, covered, confirmed, paused, attempts>>

\* compensate returned: apply gives up, or goes on to the routing table.
WalkReturns ==
    /\ phase = "walking" /\ (paused \/ at = 0)
    /\ phase' = IF ~fully /\ ~confirmed THEN "idle" ELSE "writing"
    /\ UNCHANGED <<activities, times, at, covered, confirmed, fully, paused, attempts>>

\* The upsert at the end of apply: from here on no traffic reaches the runtime.
WritePercentage ==
    /\ phase = "writing"
    /\ phase' = "applied"
    /\ UNCHANGED <<activities, times, at, covered, confirmed, fully, paused, attempts>>

SagaNext ==
    \/ \E a \in Activity : Record(a)
    \/ \E c \in BOOLEAN : StartRollback(c)
    \/ PauseForHuman \/ LogOnly \/ NoFunctionRegistered
    \/ Compensates \/ CompensationRaises
    \/ WalkReturns \/ WritePercentage

SagaSpec == SagaInit /\ [][SagaNext]_sagaVars

------------------------------------------------------------------------------
(* Properties.                                                              *)

\* Types, and the walk's position stays inside the saga it walks.
TypeOK ==
    /\ activities \in Seq(Activity)
    /\ times \in Seq(Nat) /\ Len(times) = Len(activities)
    /\ phase \in {"idle", "walking", "writing", "applied"}
    /\ covered \in 0..Len(activities) /\ at \in 0..covered
    /\ confirmed \in BOOLEAN /\ fully \in BOOLEAN /\ paused \in BOOLEAN
    /\ attempts \in Nat

\* A rollback nobody confirmed is applied only when everything the saga held
\* when its walk began has been reversed, whatever failed in earlier attempts.
UnconfirmedRollbackIsClean ==
    phase \in {"writing", "applied"} /\ ~confirmed
        => \A i \in 1..covered : /\ KindAt(i) # "requires_human"
                                 /\ Reversible(i) => times[i] > 0

\* A human's decision is a barrier: in no attempt is an activity compensated
\* while a REQUIRES_HUMAN activity recorded after it awaits its sign-off.
HumanIsBarrier ==
    [][\A i \in DOMAIN times :
          i \in DOMAIN times' /\ times'[i] # times[i]
          => \A j \in i..covered : KindAt(j) # "requires_human"]_sagaVars

\* What the rollback runbook says of a saga pause: with --confirm the rollback
\* resumes.  A confirmed rollback that was applied has passed over no
\* reversible activity of its walk.
ConfirmResumes ==
    phase = "applied" /\ confirmed
        => \A i \in 1..covered :
              Reversible(i) /\ HasFunction[activities[i]] => at < i

=============================================================================
