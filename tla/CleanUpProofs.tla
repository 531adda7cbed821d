--------------------------- MODULE CleanUpProofs ---------------------------
(***************************************************************************)
(* What a run of several calls has done, and undone, by its end: the       *)
(* rollback walk of Saga, for any activities, any assignment of kinds and  *)
(* functions, and any bounds; and a session of FlowVerify, for any orgs    *)
(* and bounds, whatever its flows do and whichever calls raise.            *)
(*                                                                         *)
(* UnconfirmedRollbackIsClean speaks of a rollback that is over; IInv says *)
(* of the walk, while it is under way, what it has left behind it.         *)
(* StoppedRunNeverPasses speaks of a run that is over; NotedInv says of    *)
(* the transaction under way what a stopped interview has set failing.     *)
(* ReentryReported relates a transaction under way to findings made before *)
(* it; FiredInv says of it that whoever was fired heard of the write.      *)
(* FaithfulRunPasses speaks of a whole log; FaithInv says of each log that *)
(* it is what the model allows as far as it came, and where it may go on.  *)
(* SaveHazardsReported relates an org's files to findings over definitions *)
(* built of them; what it needs of each definition is proved of its kind.  *)
(***************************************************************************)
EXTENDS Saga, FlowVerify, FoldLemmas

------------------------------------------------------------------------------
(* Saga.                                                                    *)

\* Behind the walk lies no activity that needs a human, ...
NoHumanPassed ==
    phase # "idle" /\ ~paused
        => \A i \in 1..covered : at < i => KindAt(i) # "requires_human"

\* ... and, as long as nothing failed, nothing reversible that is still undone.
PassedIsReversed ==
    phase # "idle" /\ fully
        => \A i \in 1..covered : at < i /\ Reversible(i) => times[i] > 0

PauseIsNotFull == paused => ~fully

\* apply goes on without a confirmation only after a whole, clean walk.
GoesOnClean == phase \in {"writing", "applied"} /\ ~confirmed => fully /\ at = 0

IInv == /\ TypeOK
        /\ NoHumanPassed
        /\ PassedIsReversed
        /\ PauseIsNotFull
        /\ GoesOnClean

------------------------------------------------------------------------------
(* Types.                                                                   *)

\* The provers take the data and the flags apart.
DataOK ==
    /\ activities \in Seq(Activity)
    /\ times \in Seq(Nat) /\ Len(times) = Len(activities)
    /\ phase \in {"idle", "walking", "writing", "applied"}
    /\ covered \in 0..Len(activities) /\ at \in 0..covered
    /\ attempts \in Nat
FlagsOK == confirmed \in BOOLEAN /\ fully \in BOOLEAN /\ paused \in BOOLEAN

LEMMA TypesApart == TypeOK <=> DataOK /\ FlagsOK
BY Zenon DEF TypeOK, DataOK, FlagsOK

LEMMA InitTypeOK == SagaInit => TypeOK
<1>1. SagaInit => DataOK
  BY DEF SagaInit, DataOK
<1>2. SagaInit => FlagsOK
  BY Zenon DEF SagaInit, FlagsOK
<1> QED
  BY <1>1, <1>2, TypesApart

\* A compensation only counts.
LEMMA CountKeepsType ==
    ASSUME DataOK, at > 0,
           times' = [times EXCEPT ![at] = @ + 1] \/ times' = times
    PROVE  times' \in Seq(Nat) /\ Len(times') = Len(times)
<1>1. at \in 1..Len(times) /\ times \in Seq(Nat)
  BY DEF DataOK
<1>2. CASE times' = [times EXCEPT ![at] = @ + 1]
  BY <1>1, <1>2
<1>3. CASE times' = times
  BY <1>1, <1>3
<1> QED
  BY <1>2, <1>3

\* What every walk step leaves alone keeps its type; the position only moves
\* down.
LEMMA NextDataOK ==
    ASSUME DataOK, [SagaNext]_sagaVars
    PROVE  DataOK'
<1>1. ASSUME NEW a \in Activity, Record(a)
      PROVE  DataOK'
  BY <1>1 DEF Record, DataOK
<1>2. ASSUME NEW c \in BOOLEAN, StartRollback(c)
      PROVE  DataOK'
  <2>1. /\ attempts' = attempts + 1 /\ phase' = "walking"
        /\ at' = Len(activities) /\ covered' = Len(activities)
        /\ activities' = activities /\ times' = times
    BY <1>2, Zenon DEF StartRollback
  <2> QED
    BY <2>1 DEF DataOK
<1>3. CASE PauseForHuman
  BY <1>3 DEF PauseForHuman, DataOK
<1>4. CASE LogOnly
  BY <1>4 DEF LogOnly, AtActivity, DataOK
<1>5. CASE NoFunctionRegistered
  BY <1>5 DEF NoFunctionRegistered, AtActivity, DataOK
<1>6. CASE Compensates \/ CompensationRaises
  <2>1. /\ at > 0 /\ at' = at - 1
        /\ times' = [times EXCEPT ![at] = @ + 1] \/ times' = times
        /\ UNCHANGED <<activities, phase, covered, attempts>>
    BY <1>6 DEF Compensates, CompensationRaises, AtActivity
  <2>2. times' \in Seq(Nat) /\ Len(times') = Len(times)
    BY <2>1, CountKeepsType
  <2> QED
    BY <2>1, <2>2 DEF DataOK
<1>7. CASE WalkReturns
  BY <1>7 DEF WalkReturns, DataOK
<1>8. CASE WritePercentage
  BY <1>8 DEF WritePercentage, DataOK
<1>9. CASE UNCHANGED sagaVars
  BY <1>9 DEF sagaVars, DataOK
<1> QED
  BY <1>1, <1>2, <1>3, <1>4, <1>5, <1>6, <1>7, <1>8, <1>9 DEF SagaNext

LEMMA NextFlagsOK ==
    ASSUME FlagsOK, [SagaNext]_sagaVars
    PROVE  FlagsOK'
BY Zenon DEF FlagsOK, SagaNext, sagaVars, Record, StartRollback, PauseForHuman, LogOnly,
             NoFunctionRegistered, Compensates, CompensationRaises, WalkReturns,
             WritePercentage

LEMMA NextTypeOK ==
    ASSUME TypeOK, [SagaNext]_sagaVars
    PROVE  TypeOK'
<1>1. DataOK' /\ FlagsOK'
  BY TypesApart, NextDataOK, NextFlagsOK
<1> QED
  BY <1>1, Zenon DEF TypeOK, DataOK, FlagsOK

\* The types hold in every reachable state; in particular the walk never looks
\* outside the saga it began with.
THEOREM TypeCorrect == SagaSpec => []TypeOK
BY InitTypeOK, NextTypeOK, PTL DEF SagaSpec

------------------------------------------------------------------------------
(* The walk.                                                                *)

\* What is recorded during a walk lies beyond what the walk covers.
LEMMA RecordKeepsIInv ==
    ASSUME IInv, NEW a \in Activity, Record(a)
    PROVE  IInv'
<1>1. TypeOK /\ TypeOK'
  BY NextTypeOK DEF IInv, SagaNext
<1>2. \A i \in 1..covered : activities'[i] = activities[i] /\ times'[i] = times[i]
  BY <1>1 DEF Record, TypeOK
<1>3. UNCHANGED <<phase, at, covered, confirmed, fully, paused>>
  BY DEF Record
<1>4. \A i \in 1..covered : KindAt(i)' = KindAt(i) /\ Reversible(i)' = Reversible(i)
  BY <1>2 DEF KindAt, Reversible
<1>5. NoHumanPassed' /\ PassedIsReversed'
  BY <1>2, <1>3, <1>4 DEF IInv, NoHumanPassed, PassedIsReversed
<1> QED
  BY <1>1, <1>3, <1>5 DEF IInv, PauseIsNotFull, GoesOnClean

\* One step of the walk over the activity at `at`: what becomes of the position,
\* of the verdict and of the count decides whether the invariant is kept.
LEMMA WalkStepKeepsIInv ==
    ASSUME IInv, TypeOK', phase = "walking", phase' = phase, ~paused, paused' = paused,
           at > 0, at' = at - 1, UNCHANGED <<activities, covered, confirmed>>,
           KindAt(at) # "requires_human",
           fully' => fully,
           fully' /\ Reversible(at) => times'[at] > 0,
           \A i \in 1..covered : i # at => times'[i] = times[i]
    PROVE  IInv'
<1>1. TypeOK
  BY DEF IInv
<1>2. \A i \in 1..covered : KindAt(i)' = KindAt(i) /\ Reversible(i)' = Reversible(i)
  BY DEF KindAt, Reversible
<1>3. ASSUME NEW i \in 1..covered, at' < i
      PROVE  i = at \/ at < i
  BY <1>1, <1>3 DEF TypeOK
<1>4. NoHumanPassed'
  BY <1>2, <1>3 DEF IInv, NoHumanPassed
<1>5. PassedIsReversed'
  <2> SUFFICES ASSUME fully', NEW i \in 1..covered, at' < i, Reversible(i)
               PROVE  times'[i] > 0
    BY <1>2 DEF PassedIsReversed
  <2>1. CASE i = at
    BY <2>1
  <2>2. CASE i # at
    BY <1>1, <1>3, <2>2 DEF IInv, PassedIsReversed, TypeOK
  <2> QED
    BY <2>1, <2>2
<1> QED
  BY <1>4, <1>5 DEF IInv, PauseIsNotFull, GoesOnClean

LEMMA InitIInv == SagaInit => IInv
BY InitTypeOK DEF SagaInit, IInv, NoHumanPassed, PassedIsReversed, PauseIsNotFull, GoesOnClean

LEMMA NextIInv ==
    ASSUME IInv, [SagaNext]_sagaVars
    PROVE  IInv'
<1>1. TypeOK /\ TypeOK'
  BY NextTypeOK DEF IInv
<1>2. ASSUME NEW a \in Activity, Record(a)
      PROVE  IInv'
  BY <1>2, RecordKeepsIInv
<1>3. ASSUME NEW c \in BOOLEAN, StartRollback(c)
      PROVE  IInv'
  BY <1>1, <1>3 DEF StartRollback, IInv, TypeOK, NoHumanPassed, PassedIsReversed,
                    PauseIsNotFull, GoesOnClean
<1>4. CASE PauseForHuman
  BY <1>1, <1>4 DEF PauseForHuman, AtActivity, IInv, NoHumanPassed, PassedIsReversed,
                    PauseIsNotFull, GoesOnClean
<1>5. CASE LogOnly
  <2>1. KindAt(at) = "log_only" /\ ~Reversible(at)
    BY <1>5 DEF LogOnly, AtActivity, Reversible
  <2> QED
    BY <1>1, <1>5, <2>1, WalkStepKeepsIInv DEF IInv, LogOnly, AtActivity
<1>6. CASE NoFunctionRegistered
  <2>1. KindAt(at) # "requires_human"
    BY <1>6 DEF NoFunctionRegistered, AtActivity
  <2> QED
    BY <1>1, <1>6, <2>1, WalkStepKeepsIInv DEF IInv, NoFunctionRegistered, AtActivity
<1>7. CASE Compensates
  <2>1. KindAt(at) # "requires_human"
    BY <1>7 DEF Compensates, AtActivity
  <2>2. at \in DOMAIN times /\ times[at] \in Nat
    BY <1>1, <1>7 DEF Compensates, AtActivity, TypeOK
  <2>3. times'[at] > 0
    BY <1>7, <2>2 DEF Compensates
  <2>4. \A i \in 1..covered : i # at => times'[i] = times[i]
    BY <1>1, <1>7 DEF Compensates, TypeOK
  <2> QED
    BY <1>1, <1>7, <2>1, <2>3, <2>4, WalkStepKeepsIInv DEF IInv, Compensates, AtActivity
<1>8. CASE CompensationRaises
  <2>1. KindAt(at) # "requires_human"
    BY <1>8 DEF CompensationRaises, AtActivity
  <2>2. \A i \in 1..covered : i # at => times'[i] = times[i]
    BY <1>1, <1>8 DEF CompensationRaises, TypeOK
  <2> QED
    BY <1>1, <1>8, <2>1, <2>2, WalkStepKeepsIInv DEF IInv, CompensationRaises, AtActivity
<1>9. CASE WalkReturns
  <2>1. UNCHANGED <<activities, times, at, covered, confirmed, fully, paused>> /\ phase = "walking"
    BY <1>9 DEF WalkReturns
  <2>2. NoHumanPassed' /\ PassedIsReversed' /\ PauseIsNotFull'
    BY <2>1 DEF IInv, NoHumanPassed, PassedIsReversed, PauseIsNotFull, KindAt, Reversible
  <2>3. GoesOnClean'
    BY <1>1, <1>9 DEF WalkReturns, IInv, PauseIsNotFull, GoesOnClean, TypeOK
  <2> QED
    BY <1>1, <2>2, <2>3 DEF IInv
<1>10. CASE WritePercentage
  <2>1. UNCHANGED <<activities, times, at, covered, confirmed, fully, paused>> /\ phase = "writing"
    BY <1>10 DEF WritePercentage
  <2>2. NoHumanPassed' /\ PassedIsReversed' /\ PauseIsNotFull'
    BY <2>1 DEF IInv, NoHumanPassed, PassedIsReversed, PauseIsNotFull, KindAt, Reversible
  <2>3. GoesOnClean'
    BY <2>1 DEF IInv, GoesOnClean
  <2> QED
    BY <1>1, <2>2, <2>3 DEF IInv
<1>11. CASE UNCHANGED sagaVars
  BY <1>1, <1>11 DEF sagaVars, IInv, NoHumanPassed, PassedIsReversed, PauseIsNotFull, GoesOnClean,
                     KindAt, Reversible
<1> QED
  BY <1>2, <1>3, <1>4, <1>5, <1>6, <1>7, <1>8, <1>9, <1>10, <1>11 DEF SagaNext

------------------------------------------------------------------------------
(* What it gives.                                                           *)

\* Whatever compensations raise, whatever is recorded meanwhile and however
\* often a rollback is tried: one that is applied without a confirmation has
\* reversed everything its walk covered, and met nothing that needs a human.
THEOREM UnconfirmedIsClean == SagaSpec => []UnconfirmedRollbackIsClean
<1>1. IInv => UnconfirmedRollbackIsClean
  <2> SUFFICES ASSUME IInv, phase \in {"writing", "applied"}, ~confirmed,
                      NEW i \in 1..covered
               PROVE  KindAt(i) # "requires_human" /\ (Reversible(i) => times[i] > 0)
    BY DEF UnconfirmedRollbackIsClean
  <2>1. fully /\ at = 0 /\ ~paused /\ phase # "idle"
    BY DEF IInv, GoesOnClean, PauseIsNotFull
  <2>2. at < i
    BY <2>1
  <2> QED
    BY <2>1, <2>2 DEF IInv, NoHumanPassed, PassedIsReversed
<1> QED
  BY InitIInv, NextIInv, <1>1, PTL DEF SagaSpec

\* No step of any attempt compensates an activity while one recorded after it,
\* among those the walk covers, needs a human.
THEOREM BarrierHolds == SagaSpec => HumanIsBarrier
<1> DEFINE Barrier == \A i \in DOMAIN times :
                         i \in DOMAIN times' /\ times'[i] # times[i]
                         => \A j \in i..covered : KindAt(j) # "requires_human"
<1>1. ASSUME IInv, [SagaNext]_sagaVars
      PROVE  [Barrier]_sagaVars
  <2> SUFFICES ASSUME NEW i \in DOMAIN times, times'[i] # times[i], NEW j \in i..covered
               PROVE  KindAt(j) # "requires_human"
    OBVIOUS
  <2>1. TypeOK
    BY <1>1 DEF IInv
  <2>2. Compensates \/ CompensationRaises
    <3>0. times \in Seq(Nat) /\ i \in 1..Len(times)
      BY <2>1 DEF TypeOK
    <3>1. ASSUME NEW a \in Activity, Record(a)
          PROVE  FALSE
      <4>1. times' = Append(times, 0)
        BY <3>1 DEF Record
      <4>2. times'[i] = times[i]
        BY <3>0, <4>1
      <4> QED
        BY <4>2
    <3> QED
      BY <1>1, <3>1 DEF SagaNext, sagaVars, StartRollback, PauseForHuman, LogOnly,
                        NoFunctionRegistered, WalkReturns, WritePercentage
  <2>3. /\ phase = "walking" /\ ~paused /\ at > 0
        /\ KindAt(at) # "requires_human"
        /\ \/ times' = [times EXCEPT ![at] = @ + 1]
           \/ times' = times
    BY <2>2 DEF Compensates, CompensationRaises, AtActivity
  <2>4. i = at
    BY <2>1, <2>3 DEF TypeOK
  <2>5. j = at \/ (j \in 1..covered /\ at < j)
    BY <2>1, <2>3, <2>4 DEF TypeOK
  <2> QED
    BY <1>1, <2>3, <2>5 DEF IInv, NoHumanPassed
<1>2. IInv /\ [SagaNext]_sagaVars => [Barrier]_sagaVars
  BY <1>1
<1> QED
  BY InitIInv, NextIInv, <1>2, PTL DEF SagaSpec, HumanIsBarrier

------------------------------------------------------------------------------
(* A session leaves nothing in the org.                                     *)

\* The trace flag exists from its creation to the clean-up, and so does what the
\* runner knows of a record; no record is there that it does not know of.
Flagged == {"create", "creating", "drive", "updating", "invoking", "invoking copy", "logs", "clean"}
Recorded == {"drive", "updating", "invoking", "invoking copy", "logs", "clean", "clean record"}
LeftInv ==
    spilled \/ /\ flag => pc \in Flagged
               /\ known => pc \in Recorded
               /\ pc = "updating" => known
               /\ record # Null => known

\* What the org runs moves nothing but the transaction and its log.
LEMMA EngineRests ==
    ASSUME EngineNext
    PROVE  UNCHANGED <<org, defs, todo, pc, site, note, failures, spilled, copied, results>>
BY DEF EngineNext, StartInterview, Ended, Loop, Subflow,
       Write, Act, Resume, Handled, Unhandled, Decide,
       EngineOnly

LEMMA StepLeaves == ASSUME LeftInv, [Next]_vars  PROVE LeftInv'
<1> USE DEF LeftInv, Flagged, Recorded
<1>1. CASE EngineNext
  BY <1>1, EngineRests DEF site
<1>2. CASE BuildProcesses
  BY <1>2 DEF BuildProcesses, site
<1>3. CASE Deploy
  BY <1>3 DEF Deploy, Goto
<1>4. CASE NotDriven
  BY <1>4 DEF NotDriven, NextFlow, Goto, site
<1>5. CASE SetTraceFlag
  <2>1. UNCHANGED <<record, known, spilled>>
    BY <1>5 DEF SetTraceFlag
  <2>2. pc = "flag"
    BY <1>5 DEF SetTraceFlag
  <2>3. pc' = "create" \/ (pc' = "next" /\ UNCHANGED flag)
    BY <1>5 DEF SetTraceFlag, NextFlow, Goto
  <2> QED
    BY <2>1, <2>2, <2>3
<1>6. CASE CreateRecord
  BY <1>6 DEF CreateRecord, Goto, site
<1>7. CASE Created
  BY <1>7 DEF Created, Goto
<1>8. CASE UpdateRecord
  BY <1>8 DEF UpdateRecord, Goto, site
<1>9. CASE Updated
  <2>1. CASE UpdateRaises
    BY <1>9, <2>1 DEF Updated, UpdateRaises, Goto, site
  <2>2. CASE pc' = "logs" /\ UNCHANGED <<flag, known, spilled>>
    BY <1>9, <2>2 DEF Updated
  <2> QED
    BY <1>9, <2>1, <2>2 DEF Updated, Goto
<1>10. CASE Invoke
  BY <1>10 DEF Invoke, Goto, site
<1>11. CASE Invoked
  BY <1>11 DEF Invoked, Goto, site
<1>12. CASE ReadLogs
  BY <1>12 DEF ReadLogs, Goto, site
<1>13. CASE DeleteFlag
  BY <1>13 DEF DeleteFlag, Goto
<1>14. CASE DeleteRecord
  BY <1>14 DEF DeleteRecord, Goto
<1>15. CASE NotCompared
  BY <1>15 DEF NotCompared, NextFlow, Goto, site
<1>16. CASE Compare
  BY <1>16 DEF Compare, NextFlow, Goto
<1>17. CASE UNCHANGED vars
  BY <1>17 DEF vars, site
<1> QED
  BY <1>1, <1>2, <1>3, <1>4, <1>5, <1>6, <1>7, <1>8, <1>9, <1>10, <1>11, <1>12, <1>13, <1>14,
     <1>15, <1>16, <1>17 DEF Next, SessionNext, Finished

\* Between two flows neither record nor trace flag is left in the org, whatever
\* raised on the way (the finally of run_with_trace).
THEOREM SessionLeavesNothing == Spec => []RunLeavesNothing
<1>1. Init => LeftInv
  BY DEF Init, LeftInv, Flagged, Recorded
<1>2. LeftInv /\ [Next]_vars => LeftInv'
  BY StepLeaves
<1>3. LeftInv => RunLeavesNothing
  BY DEF LeftInv, Flagged, Recorded, RunLeavesNothing
<1> QED
  BY <1>1, <1>2, <1>3, PTL DEF Spec
------------------------------------------------------------------------------
(* A stopped run is noted.                                                  *)

\* A transaction is under way; ...
Busy == {"creating", "updating", "invoking", "invoking copy"}

\* ... every interview's log says which one it began in, ...
LogOK ==
    /\ \E T : traces \in Seq(T)
    /\ \A i \in 1..Len(traces) : "outer" \in DOMAIN traces[i]

\* ... the frames are those of what began in one another, the outermost the
\* recipe's own write, ...
StackOK ==
    /\ pc \notin Busy => tx = <<>>
    /\ \E F : tx \in Seq(F)
    /\ \A k \in 1..Len(tx) : DOMAIN tx[k] = DOMAIN NoFrame
    /\ tx # <<>> => tx[1].iv = 0 /\ tx[1].flow = None
    /\ \A k \in 2..Len(tx) :
          /\ tx[k].iv \in 1..Len(traces)
          /\ tx[k].iv = tx[k - 1].iv \/ traces[tx[k].iv].outer = tx[k - 1].iv

\* ... and an interview stopped there fails that write, or has been noted.
StopNoted ==
    /\ note \in {"none", "note", "raised"}
    /\ \A i \in broken :
          /\ i \in 1..Len(traces)
          /\ traces[i].outer = 0 => note # "none" \/ (tx # <<>> /\ tx[1].failing)
NotedInv == LogOK /\ StackOK /\ StopNoted

LEMMA SeqAsFunction ==
    ASSUME NEW F, NEW s \in Seq(F)
    PROVE  Len(s) \in Nat /\ s \in [1..Len(s) -> F] /\ DOMAIN s = 1..Len(s)
OBVIOUS

LEMMA FunctionAsSeq ==
    ASSUME NEW F, NEW n \in Nat, NEW s \in [1..n -> F]
    PROVE  s \in Seq(F) /\ Len(s) = n
OBVIOUS

\* What the log gains leaves the interviews inside the ones they were in.
LogKeeps ==
    /\ \E T : traces' \in Seq(T)
    /\ Len(traces') = Len(traces)
    /\ \A i \in 1..Len(traces) : "outer" \in DOMAIN traces'[i] /\ traces'[i].outer = traces[i].outer

\* One entry is written, or the same entry twice.
LEMMA Rewritten ==
    ASSUME LogOK, NEW j, NEW x, NEW y,
           traces' = [[traces EXCEPT ![j] = x] EXCEPT ![j] = y],
           j \in DOMAIN traces => "outer" \in DOMAIN y /\ y.outer = traces[j].outer
    PROVE  LogKeeps
<1>1. PICK T : traces \in Seq(T)
  BY DEF LogOK
<1>2. PICK n \in Nat : n = Len(traces) /\ traces \in [1..n -> T]
  BY <1>1, SeqAsFunction
<1>3. traces' \in [1..n -> T \cup {x, y}]
  BY <1>2
<1>4. traces' \in Seq(T \cup {x, y}) /\ Len(traces') = n
  BY <1>3, FunctionAsSeq
<1>5. \A k \in 1..n : traces'[k] = IF k = j THEN y ELSE traces[k]
  BY <1>2
<1>6. \A k \in 1..n : "outer" \in DOMAIN traces'[k] /\ traces'[k].outer = traces[k].outer
  BY <1>2, <1>5 DEF LogOK
<1> QED
  BY <1>2, <1>4, <1>6 DEF LogKeeps

\* None of the fields of an interview that the log fills is its place.
LEMMA Logged ==
    ASSUME LogOK, NEW j, NEW a, NEW b,
           \/ UNCHANGED traces
           \/ traces' = [traces EXCEPT ![j].errors = a]
           \/ traces' = [traces EXCEPT ![j].path = a]
           \/ traces' = [traces EXCEPT ![j].path = a, ![j].rules = b]
           \/ traces' = [traces EXCEPT ![j].path = a, ![j].calls = b]
           \/ traces' = [traces EXCEPT ![j].path = a, ![j].dml = b]
    PROVE  LogKeeps
<1>1. PICK T : traces \in Seq(T)
  BY DEF LogOK
<1>2. CASE UNCHANGED traces
  BY <1>1, <1>2 DEF LogOK, LogKeeps
<1>3. ASSUME j \in DOMAIN traces  PROVE "outer" \in DOMAIN traces[j]
  BY <1>1, <1>3 DEF LogOK
<1> DEFINE x == [traces[j] EXCEPT !.path = a]
<1>4. CASE traces' = [traces EXCEPT ![j].errors = a]
  <2> DEFINE y == [traces[j] EXCEPT !.errors = a]
  <2>1. traces' = [[traces EXCEPT ![j] = y] EXCEPT ![j] = y]
    BY <1>4
  <2>2. j \in DOMAIN traces => "outer" \in DOMAIN y /\ y.outer = traces[j].outer
    BY <1>3
  <2> QED
    BY <2>1, <2>2, Rewritten
<1>5. CASE traces' = [traces EXCEPT ![j].path = a]
  <2>1. traces' = [[traces EXCEPT ![j] = x] EXCEPT ![j] = x]
    BY <1>5
  <2>2. j \in DOMAIN traces => "outer" \in DOMAIN x /\ x.outer = traces[j].outer
    BY <1>3
  <2> QED
    BY <2>1, <2>2, Rewritten
<1>6. CASE traces' = [traces EXCEPT ![j].path = a, ![j].rules = b]
  <2> DEFINE y == [x EXCEPT !.rules = b]
  <2>1. traces' = [[traces EXCEPT ![j] = x] EXCEPT ![j] = y]
    BY <1>6
  <2>2. j \in DOMAIN traces => "outer" \in DOMAIN y /\ y.outer = traces[j].outer
    BY <1>3
  <2> QED
    BY <2>1, <2>2, Rewritten
<1>7. CASE traces' = [traces EXCEPT ![j].path = a, ![j].calls = b]
  <2> DEFINE y == [x EXCEPT !.calls = b]
  <2>1. traces' = [[traces EXCEPT ![j] = x] EXCEPT ![j] = y]
    BY <1>7
  <2>2. j \in DOMAIN traces => "outer" \in DOMAIN y /\ y.outer = traces[j].outer
    BY <1>3
  <2> QED
    BY <2>1, <2>2, Rewritten
<1>8. CASE traces' = [traces EXCEPT ![j].path = a, ![j].dml = b]
  <2> DEFINE y == [x EXCEPT !.dml = b]
  <2>1. traces' = [[traces EXCEPT ![j] = x] EXCEPT ![j] = y]
    BY <1>8
  <2>2. j \in DOMAIN traces => "outer" \in DOMAIN y /\ y.outer = traces[j].outer
    BY <1>3
  <2> QED
    BY <2>1, <2>2, Rewritten
<1> QED
  BY <1>2, <1>4, <1>5, <1>6, <1>7, <1>8

\* A frame is entered from another.
LEMMA Grown ==
    ASSUME NEW F, NEW s \in Seq(F), s # <<>>, NEW w, NEW x, NEW t,
           t = Append([s EXCEPT ![Len(s)] = w], x)
    PROVE  /\ t \in Seq(F \cup {w, x}) /\ Len(t) = Len(s) + 1 /\ t[Len(s) + 1] = x
           /\ \A k \in 1..Len(s) : t[k] = IF k = Len(s) THEN w ELSE s[k]
<1> DEFINE u == [s EXCEPT ![Len(s)] = w]
<1>1. /\ u \in Seq(F \cup {w, x}) /\ Len(u) = Len(s)
      /\ \A k \in 1..Len(s) : u[k] = IF k = Len(s) THEN w ELSE s[k]
  OBVIOUS
<1>2. t = Append(u, x)
  OBVIOUS
<1> HIDE DEF u
<1> QED
  BY <1>1, <1>2

LEMMA FrontOf ==
    ASSUME NEW F, NEW t \in Seq(F), Len(t) >= 2
    PROVE  /\ Front(t) \in Seq(F) /\ Len(Front(t)) = Len(t) - 1
           /\ DOMAIN Front(t) = 1..Len(t) - 1
           /\ \A k \in 1..Len(t) - 1 : Front(t)[k] = t[k]
BY DEF Front

\* The innermost frame goes on; none but the outermost stops failing.
LEMMA FrameStep ==
    ASSUME NotedInv, tx # <<>>, LogKeeps, UNCHANGED <<pc, broken, note>>,
           NEW r, tx' = [tx EXCEPT ![Len(tx)] = r], DOMAIN r = DOMAIN NoFrame,
           r.iv = top.iv, r.flow = top.flow,
           top.failing => r.failing \/ top.flow # None
    PROVE  NotedInv'
<1>1. PICK F : tx \in Seq(F)
  BY DEF NotedInv, StackOK
<1> DEFINE n == Len(tx)
<1>2. n \in Nat /\ n >= 1
  BY <1>1
<1>3. tx' \in Seq(F \cup {r}) /\ Len(tx') = n
  BY <1>1, <1>2
<1>4. \A k \in 1..n : tx'[k] = IF k = n THEN r ELSE tx[k]
  BY <1>1, <1>2
<1>5. top = tx[n]
  BY DEF top
<1>6. tx # <<>> /\ tx' # <<>>
  BY <1>2, <1>3
<1>7. LogOK'
  BY DEF LogKeeps, LogOK
<1>8. Len(traces') = Len(traces)
  BY DEF LogKeeps
<1>9. \A i \in 1..Len(traces) : traces'[i].outer = traces[i].outer
  BY DEF LogKeeps
<1> HIDE DEF n
<1>10. StackOK'
  <2>1. \A k \in 1..n : DOMAIN tx'[k] = DOMAIN NoFrame
    BY <1>4, <1>3, <1>5 DEF NotedInv, StackOK, n
  <2>2. \A k \in 1..n : tx'[k].iv = tx[k].iv /\ tx'[k].flow = tx[k].flow
    BY <1>4, <1>5
  <2>3. tx[1].iv = 0 /\ tx[1].flow = None
    BY <1>6 DEF NotedInv, StackOK
  <2>4. tx'[1].iv = 0 /\ tx'[1].flow = None
    BY <2>2, <2>3, <1>2
  <2>5. \A k \in 2..n :
          /\ tx[k].iv \in 1..Len(traces)
          /\ tx[k].iv = tx[k - 1].iv \/ traces[tx[k].iv].outer = tx[k - 1].iv
    BY DEF NotedInv, StackOK, n
  <2>6. ASSUME NEW k \in 2..n
        PROVE  /\ tx'[k].iv \in 1..Len(traces)
               /\ tx'[k].iv = tx'[k - 1].iv \/ traces'[tx'[k].iv].outer = tx'[k - 1].iv
    <3>1. k \in 1..n /\ k - 1 \in 1..n
      BY <1>2
    <3>2. tx'[k].iv = tx[k].iv /\ tx'[k - 1].iv = tx[k - 1].iv
      BY <2>2, <3>1
    <3> QED
      BY <2>5, <3>2, <1>9
  <2>7. pc' \notin Busy => tx' = <<>>
    BY <1>6 DEF NotedInv, StackOK
  <2> QED
    BY <2>1, <2>4, <2>6, <2>7, <1>3, <1>8 DEF StackOK
<1>11. StopNoted'
  <2>1. tx[1].failing => tx'[1].failing
    BY <1>2, <1>4, <1>5, <1>6 DEF NotedInv, StackOK
  <2> QED
    BY <2>1, <1>6, <1>8, <1>9 DEF NotedInv, StopNoted
<1> QED
  BY <1>7, <1>10, <1>11 DEF NotedInv

\* A fired flow begins inside the interview whose write fired it.
LEMMA StartNoted == ASSUME NotedInv, StartInterview  PROVE NotedInv'
<1> DEFINE n == Len(tx)
           m == Len(traces)
<1>1. PICK F : tx \in Seq(F)
  BY DEF NotedInv, StackOK
<1>2. PICK T : traces \in Seq(T)
  BY DEF NotedInv, LogOK
<1>3. tx # <<>> /\ n \in Nat /\ n >= 1 /\ m \in Nat
  BY <1>1, <1>2 DEF StartInterview
<1>4. PICK f \in top.fire :
        /\ traces' = Append(traces, Trace(f, top.iv))
        /\ tx' = Append([tx EXCEPT ![Len(tx)].fire = @ \ {f}],
                        [NoFrame EXCEPT !.iv = Len(traces) + 1, !.flow = f,
                                                !.at = installed[f].next])
  BY DEF StartInterview
<1> DEFINE was == [tx[n] EXCEPT !.fire = @ \ {f}]
           new == [NoFrame EXCEPT !.iv = m + 1, !.flow = f, !.at = installed[f].next]
           log == Trace(f, top.iv)
<1>5. UNCHANGED <<pc, note, broken>>
  BY DEF StartInterview, EngineOnly
<1>6. DOMAIN new = DOMAIN NoFrame /\ new.iv = m + 1
  BY DEF NoFrame
<1>7. "outer" \in DOMAIN log /\ log.outer = tx[n].iv
  BY DEF Trace, top
<1>8. /\ DOMAIN was = DOMAIN NoFrame
      /\ was.iv = tx[n].iv /\ was.flow = tx[n].flow /\ was.failing = tx[n].failing
  <2>1. DOMAIN tx[n] = DOMAIN NoFrame
    BY <1>3 DEF NotedInv, StackOK
  <2> QED
    BY <2>1 DEF NoFrame
<1>9. tx' = Append([tx EXCEPT ![n] = was], new) /\ traces' = Append(traces, log)
  BY <1>4
<1> HIDE DEF was, new, log
<1>11. /\ tx' \in Seq(F \cup {was, new}) /\ Len(tx') = n + 1
       /\ tx'[n + 1] = new
       /\ \A k \in 1..n : tx'[k] = IF k = n THEN was ELSE tx[k]
  BY <1>1, <1>3, <1>9, Grown
<1>12. /\ traces' \in Seq(T \cup {log}) /\ Len(traces') = m + 1 /\ traces'[m + 1] = log
       /\ \A i \in 1..m : traces'[i] = traces[i]
  BY <1>2, <1>3, <1>9
<1>13. LogOK'
  BY <1>3, <1>7, <1>12 DEF NotedInv, LogOK
<1>14. \A k \in 1..n : /\ DOMAIN tx'[k] = DOMAIN NoFrame
                       /\ tx'[k].iv = tx[k].iv /\ tx'[k].flow = tx[k].flow
                       /\ tx'[k].failing = tx[k].failing
  BY <1>8, <1>11 DEF NotedInv, StackOK
<1>15. StackOK'
  <2>1. \A k \in 1..Len(tx') : DOMAIN tx'[k] = DOMAIN NoFrame
    BY <1>3, <1>6, <1>11, <1>14
  <2>2. tx'[1].iv = 0 /\ tx'[1].flow = None
    BY <1>3, <1>14 DEF NotedInv, StackOK
  <2>3. ASSUME NEW k \in 2..Len(tx')
        PROVE  /\ tx'[k].iv \in 1..Len(traces')
               /\ tx'[k].iv = tx'[k - 1].iv \/ traces'[tx'[k].iv].outer = tx'[k - 1].iv
    <3>1. CASE k = n + 1
      BY <3>1, <1>3, <1>6, <1>7, <1>11, <1>12, <1>14
    <3>2. CASE k \in 2..n
      <4>1. k \in 1..n /\ k - 1 \in 1..n
        BY <3>2, <1>3
      <4>2. tx'[k].iv = tx[k].iv /\ tx'[k - 1].iv = tx[k - 1].iv
        BY <4>1, <1>14
      <4>3. /\ tx[k].iv \in 1..m
            /\ tx[k].iv = tx[k - 1].iv \/ traces[tx[k].iv].outer = tx[k - 1].iv
        BY <3>2 DEF NotedInv, StackOK
      <4> QED
        BY <4>2, <4>3, <1>3, <1>12
    <3> QED
      BY <3>1, <3>2, <1>3, <1>11
  <2>4. tx' # <<>> /\ pc' \in Busy
    BY <1>3, <1>5, <1>11 DEF NotedInv, StackOK
  <2> QED
    BY <2>1, <2>2, <2>3, <2>4, <1>11 DEF StackOK
<1>16. StopNoted'
  BY <1>3, <1>5, <1>11, <1>12, <1>14 DEF NotedInv, StopNoted
<1> QED
  BY <1>13, <1>15, <1>16 DEF NotedInv

\* A frame stays where it is, whatever its element does.
InPlace(t, r) == DOMAIN r = DOMAIN t /\ r.iv = t.iv /\ r.flow = t.flow

LEMMA Adjusted ==
    ASSUME NEW t, DOMAIN t = DOMAIN NoFrame
    PROVE  \A a, b, c :
             /\ InPlace(t, [t EXCEPT !.at = a])
             /\ InPlace(t, [t EXCEPT !.at = a, !.passes = b])
             /\ InPlace(t, [t EXCEPT !.fire = a, !.busy = b])
             /\ InPlace(t, [t EXCEPT !.busy = a])
             /\ InPlace(t, [t EXCEPT !.at = a, !.busy = b])
             /\ InPlace(t, [t EXCEPT !.failing = a])
             /\ InPlace(t, [t EXCEPT !.at = a, !.failing = b, !.busy = c])
BY DEF InPlace, NoFrame

LEMMA ElementNoted ==
    ASSUME NotedInv,
           \/ Loop \/ Write \/ Act \/ Resume \/ Handled
           \/ \E i \in 1..3 : Decide(i)
    PROVE  NotedInv'
<1>1. tx # <<>> /\ UNCHANGED <<pc, broken, note>>
  BY DEF Loop, Write, Act, Resume, Handled, Decide,
         Doing, Running, EngineOnly, trace
<1>2. DOMAIN top = DOMAIN NoFrame
  <2>1. PICK F : tx \in Seq(F)
    BY DEF NotedInv, StackOK
  <2> QED
    BY <2>1, <1>1 DEF NotedInv, StackOK, top
<1>3. LogKeeps
  <2>1. \E a, b :
          \/ UNCHANGED traces
          \/ traces' = [traces EXCEPT ![top.iv].path = a]
          \/ traces' = [traces EXCEPT ![top.iv].path = a, ![top.iv].rules = b]
          \/ traces' = [traces EXCEPT ![top.iv].path = a, ![top.iv].calls = b]
          \/ traces' = [traces EXCEPT ![top.iv].path = a, ![top.iv].dml = b]
    BY DEF Loop, Write, Act, Resume, Handled, Decide,
           Began, Decided, Called, Wrote, trace
  <2> QED
    BY <2>1, Logged DEF NotedInv
<1>4. PICK r : Frame(r) /\ InPlace(top, r)
  <2>1. CASE Loop
    BY <1>2, <2>1, Adjusted DEF Loop
  <2>2. CASE Write
    BY <1>2, <2>2, Adjusted DEF Write
  <2>3. CASE Act
    BY <1>2, <2>3, Adjusted DEF Act
  <2>4. CASE Resume
    BY <1>2, <2>4, Adjusted DEF Resume
  <2>5. CASE Handled
    <3>1. PICK a : Frame([top EXCEPT !.at = a, !.failing = FALSE, !.busy = FALSE])
      BY <2>5 DEF Handled
    <3>2. InPlace(top, [top EXCEPT !.at = a, !.failing = FALSE, !.busy = FALSE])
      BY <1>2, Adjusted
    <3> QED
      BY <3>1, <3>2
  <2>6. CASE \E i \in 1..3 : Decide(i)
    BY <1>2, <2>6, Adjusted DEF Decide
  <2> QED
    BY <2>1, <2>2, <2>3, <2>4, <2>5, <2>6
<1>5. top.failing => top.flow # None
  BY DEF Loop, Write, Act, Resume, Handled, Decide,
         Doing, Running
<1> QED
  BY <1>1, <1>2, <1>3, <1>4, <1>5, FrameStep DEF Frame, InPlace

\* Behind an interview or a subflow there is always another frame.
LEMMA Inside ==
    ASSUME NotedInv, tx # <<>>, top.flow # None
    PROVE  /\ Len(tx) \in Nat /\ Len(tx) >= 2
           /\ top.iv \in 1..Len(traces)
           /\ \/ top.iv = tx[Len(tx) - 1].iv
              \/ traces[top.iv].outer = tx[Len(tx) - 1].iv
<1>1. PICK F : tx \in Seq(F)
  BY DEF NotedInv, StackOK
<1>2. Len(tx) \in Nat /\ Len(tx) # 0
  BY <1>1
<1>3. Len(tx) # 1
  BY DEF NotedInv, StackOK, top
<1> QED
  BY <1>2, <1>3 DEF NotedInv, StackOK, top

LEMMA SubflowNoted == ASSUME NotedInv, Subflow  PROVE NotedInv'
<1> DEFINE n == Len(tx)
<1>1. PICK F : tx \in Seq(F)
  BY DEF NotedInv, StackOK
<1>2. tx # <<>> /\ top.flow # None
  BY DEF Subflow, Doing, Running
<1>3. tx # <<>> /\ n \in Nat /\ n >= 2 /\ tx[n].iv \in 1..Len(traces)
  BY <1>2, Inside DEF top
<1>4. UNCHANGED <<pc, note, broken>>
  BY DEF Subflow, EngineOnly
<1>5. LogKeeps
  BY Logged DEF NotedInv, Subflow, Began
<1> DEFINE was == [tx[n] EXCEPT !.busy = TRUE]
<1>6. PICK x, y : tx' = Append([tx EXCEPT ![n] = was],
                              [NoFrame EXCEPT !.iv = tx[n].iv, !.flow = x, !.at = y])
  BY DEF Subflow, top
<1> DEFINE new == [NoFrame EXCEPT !.iv = tx[n].iv, !.flow = x, !.at = y]
<1>7. DOMAIN new = DOMAIN NoFrame /\ new.iv = tx[n].iv
  BY DEF NoFrame
<1>8. /\ DOMAIN was = DOMAIN NoFrame
      /\ was.iv = tx[n].iv /\ was.flow = tx[n].flow /\ was.failing = tx[n].failing
  <2>1. DOMAIN tx[n] = DOMAIN NoFrame
    BY <1>3 DEF NotedInv, StackOK
  <2> QED
    BY <2>1 DEF NoFrame
<1>9. tx' = Append([tx EXCEPT ![n] = was], new)
  BY <1>6
<1> HIDE DEF was, new
<1>11. /\ tx' \in Seq(F \cup {was, new}) /\ Len(tx') = n + 1
       /\ tx'[n + 1] = new
       /\ \A k \in 1..n : tx'[k] = IF k = n THEN was ELSE tx[k]
  BY <1>1, <1>3, <1>9, Grown
<1>12. LogOK' /\ Len(traces') = Len(traces)
       /\ \A i \in 1..Len(traces) : traces'[i].outer = traces[i].outer
  BY <1>5 DEF LogKeeps, LogOK
<1>14. \A k \in 1..n : /\ DOMAIN tx'[k] = DOMAIN NoFrame
                       /\ tx'[k].iv = tx[k].iv /\ tx'[k].flow = tx[k].flow
                       /\ tx'[k].failing = tx[k].failing
  BY <1>8, <1>11 DEF NotedInv, StackOK
<1>15. StackOK'
  <2>1. \A k \in 1..Len(tx') : DOMAIN tx'[k] = DOMAIN NoFrame
    BY <1>3, <1>7, <1>11, <1>14
  <2>2. tx'[1].iv = 0 /\ tx'[1].flow = None
    BY <1>3, <1>14 DEF NotedInv, StackOK
  <2>3. ASSUME NEW k \in 2..Len(tx')
        PROVE  /\ tx'[k].iv \in 1..Len(traces')
               /\ tx'[k].iv = tx'[k - 1].iv \/ traces'[tx'[k].iv].outer = tx'[k - 1].iv
    <3>1. CASE k = n + 1
      BY <3>1, <1>3, <1>7, <1>11, <1>12, <1>14
    <3>2. CASE k \in 2..n
      <4>1. k \in 1..n /\ k - 1 \in 1..n
        BY <3>2, <1>3
      <4>2. tx'[k].iv = tx[k].iv /\ tx'[k - 1].iv = tx[k - 1].iv
        BY <4>1, <1>14
      <4>3. /\ tx[k].iv \in 1..Len(traces)
            /\ tx[k].iv = tx[k - 1].iv \/ traces[tx[k].iv].outer = tx[k - 1].iv
        BY <3>2 DEF NotedInv, StackOK
      <4> QED
        BY <4>2, <4>3, <1>12
    <3> QED
      BY <3>1, <3>2, <1>3, <1>11
  <2>4. tx' # <<>> /\ pc' \in Busy
    BY <1>2, <1>3, <1>4, <1>11 DEF NotedInv, StackOK
  <2> QED
    BY <2>1, <2>2, <2>3, <2>4, <1>11 DEF StackOK
<1>16. StopNoted'
  BY <1>2, <1>3, <1>4, <1>11, <1>12, <1>14 DEF NotedInv, StopNoted
<1> QED
  BY <1>12, <1>15, <1>16 DEF NotedInv

\* The last frame goes, and the one behind it begins to fail.
FailsBehind(n) == tx' = [Front(tx) EXCEPT ![n].failing = TRUE, ![n].fire = {}]
LEMMA FrontFails ==
    ASSUME NEW F, tx \in Seq(F), Len(tx) >= 2, NEW n \in Nat, n = Len(tx) - 1, FailsBehind(n)
    PROVE  /\ \E G : tx' \in Seq(G)
           /\ Len(tx') = n
           /\ tx'[n] = [[tx[n] EXCEPT !.failing = TRUE] EXCEPT !.fire = {}]
           /\ \A k \in 1..n : k # n => tx'[k] = tx[k]
<1>1. PICK u : u = Front(tx)
  OBVIOUS
<1>2. u \in Seq(F) /\ Len(u) = n /\ \A k \in 1..n : u[k] = tx[k]
  BY <1>1, FrontOf
<1>3. n \in Nat /\ n \in 1..n /\ u \in [1..n -> F]
  BY <1>2, SeqAsFunction
<1>4. PICK r : r = [[tx[n] EXCEPT !.failing = TRUE] EXCEPT !.fire = {}]
  OBVIOUS
<1>5. u[n] = tx[n]
  BY <1>2, <1>3
<1>6. tx' = [u EXCEPT ![n].failing = TRUE, ![n].fire = {}]
  BY <1>1 DEF FailsBehind
<1>7. tx' = [u EXCEPT ![n] = r]
  <2>1. r = [[u[n] EXCEPT !.failing = TRUE] EXCEPT !.fire = {}]
    BY <1>4, <1>5
  <2> QED
    BY <1>3, <1>6, <2>1
<1>8. tx' \in [1..n -> F \cup {r}]
  BY <1>3, <1>7
<1>9. tx' \in Seq(F \cup {r}) /\ Len(tx') = n
  BY <1>3, <1>8, FunctionAsSeq
<1>10. tx'[n] = r /\ \A k \in 1..n : k # n => tx'[k] = tx[k]
  BY <1>2, <1>3, <1>7
<1> QED
  BY <1>4, <1>9, <1>10

\* An interview stopped where the recipe's own write fired it fails that write.
LEMMA EndNoted == ASSUME NotedInv, Ended \/ Unhandled  PROVE NotedInv'
<1>1. PICK F : tx \in Seq(F)
  BY DEF NotedInv, StackOK
<1>2. tx # <<>> /\ top.flow # None
  BY DEF Ended, Unhandled, Running
<1>3. Len(tx) \in Nat /\ Len(tx) >= 2
  BY <1>2, Inside
<1>4. PICK n : n = Len(tx) - 1
  OBVIOUS
<1>5. n \in Nat /\ n >= 1 /\ Len(tx) = n + 1
  BY <1>3, <1>4
<1>6. top = tx[n + 1]
  BY <1>5 DEF top
<1>7. /\ tx[n + 1].iv \in 1..Len(traces)
      /\ tx[n + 1].iv = tx[n].iv \/ traces[tx[n + 1].iv].outer = tx[n].iv
  BY <1>2, <1>4, <1>6, Inside
<1>8. UNCHANGED <<pc, note>>
  BY DEF Ended, Unhandled, EngineOnly
<1>9. LogKeeps
  BY Logged DEF NotedInv, Ended, Unhandled, Errs, trace
<1>10. LogOK' /\ Len(traces') = Len(traces)
       /\ \A i \in 1..Len(traces) : traces'[i].outer = traces[i].outer
  BY <1>9 DEF LogKeeps, LogOK
<1>11. \/ tx' = Front(tx)
       \/ FailsBehind(n)
  BY <1>4 DEF Ended, Unhandled, FailsBehind
<1>12. Len(tx') = n /\ \E G : tx' \in Seq(G)
  <2>1. CASE tx' = Front(tx)
    BY <1>1, <1>3, <1>4, <2>1, FrontOf
  <2>2. CASE FailsBehind(n)
    BY <1>1, <1>3, <1>4, <1>5, <2>2, FrontFails
  <2> QED
    BY <1>11, <2>1, <2>2
<1>13. \A k \in 1..n : DOMAIN tx[k] = DOMAIN NoFrame
  BY <1>5 DEF NotedInv, StackOK
<1>14. \A k \in 1..n : /\ DOMAIN tx'[k] = DOMAIN NoFrame
                       /\ tx'[k].iv = tx[k].iv /\ tx'[k].flow = tx[k].flow
                       /\ tx[k].failing => tx'[k].failing
  <2>1. CASE tx' = Front(tx)
    BY <1>1, <1>3, <1>4, <1>13, <2>1, FrontOf
  <2>2. CASE FailsBehind(n)
    <3>1. tx'[n] = [[tx[n] EXCEPT !.failing = TRUE] EXCEPT !.fire = {}]
      BY <1>1, <1>3, <1>4, <1>5, <2>2, FrontFails
    <3>4. ASSUME NEW k \in 1..n, k # n  PROVE tx'[k] = tx[k]
      BY <1>1, <1>3, <1>4, <1>5, <2>2, <3>4, FrontFails
    <3>2. DOMAIN tx[n] = DOMAIN NoFrame
      BY <1>5, <1>13
    <3>3. /\ DOMAIN tx'[n] = DOMAIN NoFrame
          /\ tx'[n].iv = tx[n].iv /\ tx'[n].flow = tx[n].flow /\ tx'[n].failing
      BY <3>1, <3>2 DEF NoFrame
    <3> QED
      BY <1>13, <3>3, <3>4
  <2> QED
    BY <1>11, <2>1, <2>2
<1>15. tx' # <<>>
  <2>1. Len(tx') # 0
    BY <1>5, <1>12
  <2> QED
    BY <2>1
<1>16. pc' \in Busy
  BY <1>2, <1>8 DEF NotedInv, StackOK
<1>17. StackOK'
  <2>1. tx'[1].iv = 0 /\ tx'[1].flow = None
    BY <1>2, <1>5, <1>14 DEF NotedInv, StackOK
  <2>2. ASSUME NEW k \in 2..n
        PROVE  /\ tx'[k].iv \in 1..Len(traces')
               /\ tx'[k].iv = tx'[k - 1].iv \/ traces'[tx'[k].iv].outer = tx'[k - 1].iv
    <3>1. k \in 1..n /\ k - 1 \in 1..n /\ k \in 2..Len(tx)
      BY <1>5
    <3>2. tx'[k].iv = tx[k].iv /\ tx'[k - 1].iv = tx[k - 1].iv
      BY <3>1, <1>14
    <3>3. /\ tx[k].iv \in 1..Len(traces)
          /\ tx[k].iv = tx[k - 1].iv \/ traces[tx[k].iv].outer = tx[k - 1].iv
      BY <3>1 DEF NotedInv, StackOK
    <3> QED
      BY <3>2, <3>3, <1>10
  <2> QED
    BY <2>1, <2>2, <1>12, <1>14, <1>15, <1>16 DEF StackOK
<1>18. StopNoted'
  <2>1. tx[1].failing => tx'[1].failing
    BY <1>5, <1>14
  <2>2. \A i \in broken : traces[i].outer = 0 => note # "none" \/ tx'[1].failing
    BY <1>2, <2>1 DEF NotedInv, StopNoted
  <2>3. CASE broken' = broken
    BY <2>2, <2>3, <1>8, <1>10, <1>15 DEF NotedInv, StopNoted
  <2>4. CASE Unhandled /\ tx[n].iv # tx[n + 1].iv
    <3>1. broken' = broken \cup {tx[n + 1].iv}
      BY <2>4, <1>4, <1>6 DEF Unhandled
    <3>2. ASSUME traces[tx[n + 1].iv].outer = 0  PROVE tx'[1].failing
      <4>1. tx[n].iv = 0
        BY <1>7, <2>4, <3>2
      <4>2. \A k \in 2..n : tx[k].iv \in 1..Len(traces)
        BY <1>5 DEF NotedInv, StackOK
      <4>3. n \notin 2..n
        BY <4>1, <4>2
      <4>4. n = 1
        BY <1>5, <4>3
      <4>5. FailsBehind(n)
        BY <2>4, <1>4 DEF Unhandled, FailsBehind
      <4>6. tx'[n] = [[tx[n] EXCEPT !.failing = TRUE] EXCEPT !.fire = {}]
        BY <1>1, <1>3, <1>4, <1>5, <4>5, FrontFails
      <4>7. DOMAIN tx[n] = DOMAIN NoFrame
        BY <1>5, <1>13
      <4>8. tx'[n].failing
        BY <4>6, <4>7 DEF NoFrame
      <4> QED
        BY <4>4, <4>8
    <3> QED
      BY <2>2, <3>1, <3>2, <1>7, <1>8, <1>10, <1>15 DEF NotedInv, StopNoted
  <2>5. broken' = broken \/ (Unhandled /\ tx[n].iv # tx[n + 1].iv)
    BY <1>4, <1>6 DEF Ended, Unhandled, trace
  <2> QED
    BY <2>3, <2>4, <2>5
<1> QED
  BY <1>10, <1>17, <1>18 DEF NotedInv

LEMMA EngineNoted == ASSUME NotedInv, EngineNext  PROVE NotedInv'
BY StartNoted, ElementNoted, SubflowNoted, EndNoted DEF EngineNext

\* A call of the session begins a transaction or ends one, and notes its failure.
LEMMA CallNoted ==
    ASSUME NotedInv, UNCHANGED <<traces, broken>>, note' \in {note, "note", "raised"},
           tx # <<>> /\ tx[1].failing => note' # "none",
           \/ tx' = <<>>
           \/ pc' \in Busy /\ \E fs : Transaction(fs)
    PROVE  NotedInv'
<1>1. LogOK' /\ Len(traces') = Len(traces)
  BY DEF NotedInv, LogOK
<1>2. StopNoted'
  BY DEF NotedInv, StopNoted
<1>3. StackOK'
  <2>1. CASE tx' = <<>>
    <3>1. tx' \in Seq({}) /\ Len(tx') = 0
      BY <2>1
    <3> QED
      BY <2>1, <3>1 DEF StackOK
  <2>2. CASE pc' \in Busy /\ \E fs : Transaction(fs)
    <3>1. PICK fs : tx' = <<[NoFrame EXCEPT !.fire = fs]>>
      BY <2>2 DEF Transaction
    <3>2. PICK r : r = [NoFrame EXCEPT !.fire = fs]
      OBVIOUS
    <3>3. DOMAIN r = DOMAIN NoFrame /\ r.iv = 0 /\ r.flow = None
      BY <3>2 DEF NoFrame
    <3>4. tx' = <<r>>
      BY <3>1, <3>2
    <3>5. tx' \in Seq({r}) /\ Len(tx') = 1 /\ tx'[1] = r
      BY <3>4
    <3> QED
      BY <2>2, <3>3, <3>5 DEF StackOK
  <2> QED
    BY <2>1, <2>2
<1> QED
  BY <1>1, <1>2, <1>3 DEF NotedInv

\* The next flow's log is empty.
LEMMA NextFlowNoted ==
    ASSUME NotedInv, pc \notin Busy, NEW s, NextFlow(s), UNCHANGED tx  PROVE NotedInv'
<1>1. tx' = <<>> /\ traces' = <<>> /\ broken' = {} /\ note' = "none"
  BY DEF NotedInv, StackOK, NextFlow
<1>2. traces' \in Seq({}) /\ Len(traces') = 0 /\ tx' \in Seq({}) /\ Len(tx') = 0
  BY <1>1
<1> QED
  BY <1>1, <1>2 DEF NotedInv, LogOK, StackOK, StopNoted

LEMMA StepNoted == ASSUME NotedInv, [Next]_vars  PROVE NotedInv'
<1>1. CASE EngineNext
  BY <1>1, EngineNoted
<1>2. ASSUME pc \notin Busy, UNCHANGED <<tx, trace>>, note' \in {note, "note", "raised"}
      PROVE  NotedInv'
  <2>1. tx = <<>>
    BY <1>2 DEF NotedInv, StackOK
  <2> QED
    BY <1>2, <2>1, CallNoted DEF trace
<1>3. CASE \/ BuildProcesses \/ Deploy \/ ReadLogs \/ DeleteFlag
           \/ DeleteRecord
  BY <1>2, <1>3 DEF Busy, BuildProcesses, Deploy, ReadLogs,
                    DeleteFlag, DeleteRecord
<1>4. CASE NotDriven \/ NotCompared \/ Compare
  BY <1>4, NextFlowNoted DEF Busy, NotDriven, NotCompared, Compare
<1>5. CASE SetTraceFlag
  <2>1. pc = "flag" /\ UNCHANGED tx
    BY <1>5 DEF SetTraceFlag
  <2>2. UNCHANGED <<trace, note>> \/ NextFlow("not_verifiable")
    BY <1>5 DEF SetTraceFlag
  <2> QED
    BY <1>2, <2>1, <2>2, NextFlowNoted DEF Busy
<1>6. CASE CreateRecord
  <2>1. pc = "create" /\ UNCHANGED <<traces, broken>>
    BY <1>6 DEF CreateRecord, trace
  <2>2. tx = <<>>
    BY <2>1 DEF NotedInv, StackOK, Busy
  <2>3. note' \in {note, "note", "raised"}
    BY <1>6 DEF CreateRecord
  <2>4. tx' = tx \/ (pc' = "creating" /\ \E fs : Transaction(fs))
    BY <1>6 DEF CreateRecord, Goto
  <2> QED
    BY <2>1, <2>2, <2>3, <2>4, CallNoted DEF Busy
<1>7. CASE Created
  <2>1. tx' = <<>> /\ UNCHANGED <<traces, broken>>
    BY <1>7 DEF Created, trace
  <2>2. note' \in {note, "note", "raised"} /\ (tx[1].failing => note' = "note")
    BY <1>7 DEF Created, Settled, top
  <2> QED
    BY <2>1, <2>2, CallNoted
<1>8. CASE UpdateRecord \/ Invoke
  <2>1. pc = "drive" /\ UNCHANGED <<traces, broken, note>>
    BY <1>8 DEF UpdateRecord, Invoke, trace
  <2>2. tx = <<>>
    BY <2>1 DEF NotedInv, StackOK, Busy
  <2>3. tx' = tx \/ (pc' \in Busy /\ \E fs : Transaction(fs))
    BY <1>8 DEF Busy, UpdateRecord, Invoke, Goto
  <2> QED
    BY <2>1, <2>2, <2>3, CallNoted
<1>9. CASE Updated
  <2>1. tx' = <<>> /\ UNCHANGED <<traces, broken>>
    BY <1>9 DEF Updated, UpdateRaises, trace
  <2>2. note' \in {note, "raised"} /\ (tx[1].failing => note' = "raised")
    BY <1>9 DEF Updated, UpdateRaises, Settled, top
  <2> QED
    BY <2>1, <2>2, CallNoted
<1>10. CASE Invoked
  <2>1. UNCHANGED <<traces, broken>>
    BY <1>10 DEF Invoked, trace
  <2>2. note' \in {note, "note"} /\ (tx[1].failing => note' = "note")
    BY <1>10 DEF Invoked, Settled, top
  <2>3. tx' = <<>> \/ (pc' \in Busy /\ \E fs : Transaction(fs))
    BY <1>10 DEF Busy, Invoked, Goto
  <2> QED
    BY <2>1, <2>2, <2>3, CallNoted
<1>11. CASE UNCHANGED vars
  BY <1>11 DEF vars, trace, NotedInv, LogOK, StackOK, StopNoted
<1> QED
  BY <1>1, <1>3, <1>4, <1>5, <1>6, <1>7, <1>8, <1>9, <1>10, <1>11
     DEF Next, SessionNext, Finished

LEMMA AlwaysNoted == Spec => []NotedInv
<1>1. Init => NotedInv
  <2>1. <<>> \in Seq({}) /\ Len(<<>>) = 0
    OBVIOUS
  <2> QED
    BY <2>1 DEF Init, NotedInv, LogOK, StackOK, StopNoted
<1>2. NotedInv /\ [Next]_vars => NotedInv'
  BY StepNoted
<1> QED
  BY <1>1, <1>2, PTL DEF Spec

\* A flow the recipe itself set off and an error stopped is never reported as
\* passing, however the log charged the error (_run_org).
THEOREM StoppedRunsAreNoted == Spec => []StoppedRunNeverPasses
<1>1. NotedInv => StoppedRunNeverPasses
  <2>1. SUFFICES ASSUME NotedInv, pc = "compare", note # "raised", Interviews(p) # {},
                        Original \in broken, traces[Original].outer = 0
                 PROVE  Status # "pass"
    BY DEF StoppedRunNeverPasses
  <2>2. tx = <<>>
    BY <2>1 DEF NotedInv, StackOK, Busy
  <2>3. note = "note"
    BY <2>1, <2>2 DEF NotedInv, StopNoted
  <2> QED
    BY <2>1, <2>3 DEF Status
<1> QED
  BY <1>1, AlwaysNoted, PTL

------------------------------------------------------------------------------
(* Sequences put together.                                                  *)

\* FlattenSeq's result, one sequence after the other.
FlatEquation(s, flat) == flat = [i \in 1..Len(s) |-> IF i = 1 THEN s[i] ELSE flat[i - 1] \o s[i]]
LEMMA FlatUnfolds ==
    ASSUME NEW T, NEW s \in Seq(Seq(T)), Len(s) # 0
    PROVE  FlattenSeq(s) = (CHOOSE flat : FlatEquation(s, flat))[Len(s)]
BY Zenon DEF FlattenSeq, FlatEquation

LEMMA JoinedSet ==
    ASSUME NEW T, NEW u \in Seq(T), NEW v \in Seq(T)
    PROVE  u \o v \in Seq(T) /\ ToSet(u \o v) = ToSet(u) \cup ToSet(v)
<1>1. PICK m \in Nat, n \in Nat : /\ m = Len(u) /\ n = Len(v) /\ DOMAIN u = 1..m /\ DOMAIN v = 1..n
                                /\ DOMAIN (u \o v) = 1..m + n
  OBVIOUS
<1>2. \A i \in 1..m : i \in 1..m + n /\ (u \o v)[i] = u[i]
  BY <1>1
<1>3. \A i \in 1..n : m + i \in 1..m + n /\ (u \o v)[m + i] = v[i]
  BY <1>1
<1>4. \A i \in 1..m + n : i \in 1..m \/ (i - m \in 1..n /\ i = m + (i - m))
  OBVIOUS
<1>5. u \o v \in Seq(T)
  OBVIOUS
<1> DEFINE w == u \o v
<1>6. DOMAIN w = 1..m + n /\ (\A i \in 1..m : w[i] = u[i]) /\ (\A i \in 1..n : w[m + i] = v[i])
  BY <1>1, <1>2, <1>3
<1> HIDE DEF w
<1>7. ASSUME NEW x \in ToSet(w)  PROVE x \in ToSet(u) \cup ToSet(v)
  <2>1. PICK i \in 1..m + n : x = w[i]
    BY <1>6 DEF ToSet
  <2>2. CASE i \in 1..m
    BY <1>1, <1>6, <2>1, <2>2 DEF ToSet
  <2>3. CASE i \notin 1..m
    <3>1. PICK j \in 1..n : i = m + j
      BY <1>4, <2>3
    <3> QED
      BY <1>1, <1>6, <2>1, <3>1 DEF ToSet
  <2> QED
    BY <2>2, <2>3
<1>8. ToSet(u) \subseteq ToSet(w)
  BY <1>1, <1>2, <1>6 DEF ToSet
<1>9. ToSet(v) \subseteq ToSet(w)
  BY <1>1, <1>3, <1>6 DEF ToSet
<1> QED
  BY <1>5, <1>7, <1>8, <1>9 DEF w

LEMMA Flattened ==
    ASSUME NEW T, NEW s \in Seq(Seq(T))
    PROVE  /\ FlattenSeq(s) \in Seq(T)
           /\ ToSet(FlattenSeq(s)) = UNION {ToSet(s[i]) : i \in 1..Len(s)}
<1>1. PICK n \in Nat : n = Len(s) /\ s \in [1..n -> Seq(T)] /\ DOMAIN s = 1..n
  OBVIOUS
<1>2. CASE n = 0
  <2>1. s = <<>> /\ FlattenSeq(s) = s
    BY <1>1, <1>2 DEF FlattenSeq
  <2>2. DOMAIN s = {} /\ 1..Len(s) = {} /\ <<>> \in Seq(T)
    BY <1>1, <1>2
  <2>3. ToSet(s) = {}
    BY <2>2 DEF ToSet
  <2> QED
    BY <2>1, <2>2, <2>3
<1>3. CASE n # 0
  <2>1. \E flat : FlatEquation(s, flat)
    <3> DEFINE step == [x \in (1..n) \X Seq(T) |-> x[2] \o s[x[1]]]
    <3>1. <<>> \in Seq(T) /\ step \in [(1..n) \X Seq(T) -> Seq(T)]
      BY <1>1
    <3>2. \A i \in 1..n, u \in Seq(T) : step[<<i, u>>] = u \o s[i]
      OBVIOUS
    <3> HIDE DEF step
    <3>3. PICK it \in [SUBSET (1..n) -> Seq(T)] : FoldEquation(n, <<>>, step, it)
      BY <3>1, FoldExists
    <3>4. FoldWithin(n, Seq(T), <<>>, step, it)
      <4>1. {} \in SUBSET (1..n)
        OBVIOUS
      <4> QED
        BY <3>3, <4>1 DEF FoldEquation, FoldWithin
    <3>5. PICK run \in [0..n -> Seq(T)] : StepByStep(n, <<>>, step, run)
      BY <3>1, <3>4, FoldRuns DEF FoldsTo
    <3> DEFINE flat == [i \in 1..n |-> run[i]]
    <3>6. ASSUME NEW i \in 1..n  PROVE run[i] = IF i = 1 THEN s[i] ELSE flat[i - 1] \o s[i]
      <4>1. run[i] = step[<<i, run[i - 1]>>] /\ run[i - 1] \in Seq(T) /\ run[0] = <<>>
        <5>1. i - 1 \in 0..n
          OBVIOUS
        <5> QED
          BY <3>5, <5>1 DEF StepByStep
      <4>2. run[i] = run[i - 1] \o s[i]
        BY <3>2, <4>1
      <4>3. s[i] \in Seq(T)
        BY <1>1
      <4>4. <<>> \o s[i] = s[i]
        BY <4>3
      <4>5. CASE i = 1
        <5>1. i - 1 = 0
          BY <4>5
        <5> QED
          BY <4>1, <4>2, <4>4, <4>5, <5>1
      <4>6. CASE i # 1
        <5>1. i - 1 \in 1..n
          BY <4>6
        <5>2. flat[i - 1] = run[i - 1]
          BY <5>1
        <5> QED
          BY <4>2, <4>6, <5>2
      <4> QED
        BY <4>5, <4>6
    <3>7. FlatEquation(s, flat)
      BY <1>1, <3>6 DEF FlatEquation
    <3> QED
      BY <3>7
  <2>2. PICK flat : FlatEquation(s, flat) /\ FlattenSeq(s) = flat[n]
    BY <1>1, <1>3, <2>1, FlatUnfolds, Zenon
  <2>3. \A i \in 1..n : flat[i] = IF i = 1 THEN s[i] ELSE flat[i - 1] \o s[i]
    BY <1>1, <2>2 DEF FlatEquation
  <2> DEFINE Good == {i \in Nat : i + 1 \in 1..n =>
                        /\ flat[i + 1] \in Seq(T)
                        /\ ToSet(flat[i + 1]) = UNION {ToSet(s[j]) : j \in 1..i + 1}}
  <2>4. 0 \in Good
    <3>1. flat[1] = s[1] /\ s[1] \in Seq(T)
      BY <1>1, <1>3, <2>3
    <3>2. UNION {ToSet(s[j]) : j \in 1..0 + 1} = ToSet(s[1])
      OBVIOUS
    <3> QED
      BY <3>1, <3>2
  <2>5. ASSUME NEW i \in Nat, i \in Good  PROVE i + 1 \in Good
    <3>1. SUFFICES ASSUME i + 2 \in 1..n
                   PROVE  /\ flat[i + 2] \in Seq(T)
                          /\ ToSet(flat[i + 2]) = UNION {ToSet(s[j]) : j \in 1..i + 2}
      <4>1. (i + 1) + 1 = i + 2 /\ i + 1 \in Nat
        OBVIOUS
      <4> QED
        BY <4>1
    <3>2. i + 1 \in 1..n /\ (i + 2) - 1 = i + 1 /\ i + 2 # 1
      BY <3>1
    <3>3. flat[i + 2] = flat[i + 1] \o s[i + 2]
      BY <2>3, <3>1, <3>2
    <3>4. flat[i + 1] \in Seq(T) /\ s[i + 2] \in Seq(T)
      BY <1>1, <2>5, <3>1, <3>2
    <3>5. /\ flat[i + 2] \in Seq(T)
          /\ ToSet(flat[i + 2]) = ToSet(flat[i + 1]) \cup ToSet(s[i + 2])
      BY <3>3, <3>4, JoinedSet
    <3>6. \A j : j \in 1..i + 2 <=> j \in 1..i + 1 \/ j = i + 2
      OBVIOUS
    <3>7. UNION {ToSet(s[j]) : j \in 1..i + 2} = (UNION {ToSet(s[j]) : j \in 1..i + 1}) \cup ToSet(s[i + 2])
      BY <3>6
    <3>8. ToSet(flat[i + 1]) = UNION {ToSet(s[j]) : j \in 1..i + 1}
      BY <2>5, <3>2
    <3> QED
      BY <3>5, <3>7, <3>8
  <2> HIDE DEF Good
  <2>6. \A i \in Nat : i \in Good
    BY <2>4, <2>5, CountingUp
  <2>7. n - 1 \in Nat /\ (n - 1) + 1 = n /\ n \in 1..n
    BY <1>3
  <2> QED
    BY <1>1, <2>2, <2>6, <2>7 DEF Good
<1> QED
  BY <1>2, <1>3

\* What flattening the elements that pass gives.
LEMMA Sifted ==
    ASSUME NEW T, NEW s \in Seq(T), NEW keep
    PROVE  LET sifted == FlattenSeq([i \in DOMAIN s |-> IF s[i] \in keep THEN <<s[i]>> ELSE <<>>]) IN
           sifted \in Seq(T) /\ ToSet(sifted) = ToSet(s) \cap keep
<1> DEFINE parts == [i \in DOMAIN s |-> IF s[i] \in keep THEN <<s[i]>> ELSE <<>>]
<1>1. PICK n \in Nat : n = Len(s) /\ DOMAIN s = 1..n /\ \A i \in 1..n : s[i] \in T
  OBVIOUS
<1>2. parts \in [1..n -> Seq(T)]
  BY <1>1
<1>3. parts \in Seq(Seq(T)) /\ Len(parts) = n
  BY <1>2
<1>4. \A i \in 1..n : ToSet(parts[i]) = {s[i]} \cap keep
  <2>1. \A x : ToSet(<<x>>) = {x}
    BY DEF ToSet
  <2>2. ToSet(<<>>) = {}
    BY DEF ToSet
  <2>3. ASSUME NEW i \in 1..n  PROVE ToSet(parts[i]) = {s[i]} \cap keep
    <3>1. CASE s[i] \in keep
      <4>1. parts[i] = <<s[i]>>
        BY <1>1, <3>1
      <4> QED
        BY <2>1, <3>1, <4>1
    <3>2. CASE s[i] \notin keep
      <4>1. parts[i] = <<>>
        BY <1>1, <3>2
      <4> QED
        BY <2>2, <3>2, <4>1
    <3> QED
      BY <3>1, <3>2
  <2> QED
    BY <2>3
<1> HIDE DEF parts
<1>5. /\ FlattenSeq(parts) \in Seq(T)
      /\ ToSet(FlattenSeq(parts)) = UNION {ToSet(parts[i]) : i \in 1..n}
  BY <1>3, Flattened
<1>6. UNION {ToSet(parts[i]) : i \in 1..n} = ToSet(s) \cap keep
  BY <1>1, <1>4 DEF ToSet
<1> QED
  BY <1>5, <1>6 DEF parts

LEMMA OneKind ==
    ASSUME NEW T, NEW elements \in Seq(T), NEW k
    PROVE  LET of == Kept(elements, LAMBDA e : e.kind = k) IN
           of \in Seq(T) /\ ToSet(of) = {e \in ToSet(elements) : e.kind = k}
<1> DEFINE keep == {e \in ToSet(elements) : e.kind = k}
           parts == [i \in DOMAIN elements |-> IF elements[i] \in keep THEN <<elements[i]>> ELSE <<>>]
<1>1. \A i \in DOMAIN elements : elements[i] \in keep <=> elements[i].kind = k
  BY DEF ToSet
<1>2. parts = [i \in DOMAIN elements |-> IF elements[i].kind = k THEN <<elements[i]>> ELSE <<>>]
  BY <1>1
<1>3. Kept(elements, LAMBDA e : e.kind = k) = FlattenSeq(parts)
  BY <1>2 DEF Kept
<1>4. FlattenSeq(parts) \in Seq(T) /\ ToSet(FlattenSeq(parts)) = ToSet(elements) \cap keep
  BY Sifted
<1> QED
  BY <1>3, <1>4

\* Sorting the elements by type loses those of no known type.
LEMMA SortedElements ==
    ASSUME NEW T, NEW elements \in Seq(T)
    PROVE  /\ Normalised(elements) \in Seq(T)
           /\ ToSet(Normalised(elements)) = {e \in ToSet(elements) : e.kind \in ToSet(ElementTypes)}
<1> DEFINE of(k) == Kept(elements, LAMBDA e : e.kind = k)
           parts == [i \in DOMAIN ElementTypes |-> of(ElementTypes[i])]
<1>1. \A k : of(k) \in Seq(T) /\ ToSet(of(k)) = {e \in ToSet(elements) : e.kind = k}
  BY OneKind
<1>2. Normalised(elements) = FlattenSeq(parts)
  BY DEF Normalised
<1> HIDE DEF of
<1>3. DOMAIN ElementTypes = 1..18
  BY DEF ElementTypes
<1>4. parts \in [1..18 -> Seq(T)]
  BY <1>1, <1>3
<1>5. parts \in Seq(Seq(T)) /\ Len(parts) = 18
  BY <1>4
<1>6. \A i \in 1..18 : parts[i] = of(ElementTypes[i])
  BY <1>3
<1> HIDE DEF parts
<1>7. /\ FlattenSeq(parts) \in Seq(T)
      /\ ToSet(FlattenSeq(parts)) = UNION {ToSet(parts[i]) : i \in 1..18}
  BY <1>5, Flattened
<1>8. UNION {ToSet(parts[i]) : i \in 1..18} = {e \in ToSet(elements) : e.kind \in ToSet(ElementTypes)}
  <2>1. ToSet(ElementTypes) = {ElementTypes[i] : i \in 1..18}
    BY <1>3 DEF ToSet
  <2>2. \A i \in 1..18 : ToSet(parts[i]) = {e \in ToSet(elements) : e.kind = ElementTypes[i]}
    BY <1>1, <1>6
  <2>3. \A e : e \in UNION {ToSet(parts[i]) : i \in 1..18}
                 <=> e \in ToSet(elements) /\ \E i \in 1..18 : e.kind = ElementTypes[i]
    BY <2>2
  <2> QED
    BY <2>1, <2>3
<1> QED
  BY <1>2, <1>7, <1>8

LEMMA StepsOf ==
    ASSUME NEW b, NEW T, b.elements \in Seq(T)
    PROVE  /\ \E U : Steps(b) \in Seq(U)
           /\ ToSet(Steps(b)) =
                {FlowStep(b, e) : e \in {x \in ToSet(b.elements) :
                                          x.kind \in ToSet(ElementTypes) /\ StepKind(x) # None}}
<1> DEFINE all == Normalised(b.elements)
           keep == {e \in ToSet(all) : StepKind(e) # None}
           parts == [i \in DOMAIN all |-> IF all[i] \in keep THEN <<all[i]>> ELSE <<>>]
           named == Kept(all, LAMBDA e : StepKind(e) # None)
<1>1. /\ all \in Seq(T)
      /\ ToSet(all) = {e \in ToSet(b.elements) : e.kind \in ToSet(ElementTypes)}
  BY SortedElements
<1> HIDE DEF all
<1>2. \A i \in DOMAIN all : all[i] \in keep <=> StepKind(all[i]) # None
  BY DEF ToSet
<1>3. parts = [i \in DOMAIN all |-> IF StepKind(all[i]) # None THEN <<all[i]>> ELSE <<>>]
  BY <1>2
<1>4. named = FlattenSeq(parts)
  BY <1>3 DEF Kept
<1>5. FlattenSeq(parts) \in Seq(T) /\ ToSet(FlattenSeq(parts)) = ToSet(all) \cap keep
  BY <1>1, Sifted
<1>6. named \in Seq(T) /\ ToSet(named) = keep
  BY <1>4, <1>5
<1>7. Steps(b) = [i \in DOMAIN named |-> FlowStep(b, named[i])]
  BY DEF Steps, all
<1> HIDE DEF named, keep
<1>8. ToSet(Steps(b)) = {FlowStep(b, e) : e \in keep}
  BY <1>6, <1>7 DEF ToSet
<1>9. DOMAIN named = 1..Len(named) /\ Len(named) \in Nat
  BY <1>6
<1>10. Steps(b) \in Seq({FlowStep(b, e) : e \in keep})
  <2>1. \A i \in 1..Len(named) : named[i] \in keep
    BY <1>6, <1>9 DEF ToSet
  <2> QED
    BY <1>7, <1>9, <2>1
<1>11. keep = {x \in ToSet(b.elements) : x.kind \in ToSet(ElementTypes) /\ StepKind(x) # None}
  BY <1>1 DEF keep
<1> QED
  BY <1>8, <1>10, <1>11

------------------------------------------------------------------------------
(* A flow that fires itself is reported.                                    *)

\* An element and its step have one name.
LEMMA StepHasName == ASSUME NEW b, NEW e  PROVE FlowStep(b, e).id = e.name
<1> DEFINE s == [Step EXCEPT !.id = e.name, !.kind = StepKind(e), !.next = e.next,
                !.fault = e.fault, !.default = e.default, !.branches = e.rules,
                !.after = e.after, !.target = e.target, !.inputs = e.inputs,
                !.items = e.items]
<1>1. s.id = e.name /\ "id" \in DOMAIN s
  BY DEF Step
<1>2. \A x : x.id = e.name /\ "id" \in DOMAIN x => RecordStep(b, e, x).id = e.name
  BY DEF RecordStep
<1> HIDE DEF s
<1>3. /\ [s EXCEPT !.action = e.action].id = e.name
      /\ [s EXCEPT !.object = e.object, !.inputs = <<>>].id = e.name
      /\ [s EXCEPT !.action = "processor"].id = e.name
  BY <1>1
<1>4. FlowStep(b, e) \in {RecordStep(b, e, s), [s EXCEPT !.action = e.action],
                          [s EXCEPT !.object = e.object, !.inputs = <<>>],
                          [s EXCEPT !.action = "processor"], s}
  BY Zenon DEF FlowStep, s
<1> QED
  BY <1>1, <1>2, <1>3, <1>4

LEMMA NamedElement ==
    ASSUME NEW b, WellFormed(b), NEW e \in ToSet(b.elements),
           e.kind \in ToSet(ElementTypes), StepKind(e) # None
    PROVE  /\ StepNamed(FlowDefinition(b), e.name) = FlowStep(b, e)
           /\ FlowStep(b, e) \in ToSet(FlowDefinition(b).steps)
<1>1. FlowDefinition(b).steps = Steps(b)
  BY DEF FlowDefinition
<1>2. ToSet(Steps(b)) = {FlowStep(b, x) : x \in {y \in ToSet(b.elements) :
                              y.kind \in ToSet(ElementTypes) /\ StepKind(y) # None}}
  BY StepsOf DEF WellFormed
<1>3. FlowStep(b, e) \in ToSet(Steps(b)) /\ FlowStep(b, e).id = e.name
  BY <1>2, StepHasName
<1>4. \A s \in ToSet(Steps(b)) : s.id = e.name => s = FlowStep(b, e)
  BY <1>2, StepHasName DEF WellFormed
<1> QED
  BY <1>1, <1>3, <1>4 DEF StepNamed

LEMMA RecordStepIs ==
    ASSUME NEW b, NEW e, IsRecordKind(e.kind)
    PROVE  FlowStep(b, e).kind = StepKind(e) /\ FlowStep(b, e).object = TargetObject(b, e)
<1> DEFINE s == [Step EXCEPT !.id = e.name, !.kind = StepKind(e), !.next = e.next,
                !.fault = e.fault, !.default = e.default, !.branches = e.rules,
                !.after = e.after, !.target = e.target, !.inputs = e.inputs,
                !.items = e.items]
<1>1. s.kind = StepKind(e) /\ "kind" \in DOMAIN s /\ "object" \in DOMAIN s
  BY DEF Step
<1>2. FlowStep(b, e) = RecordStep(b, e, s)
  BY DEF FlowStep, IsRecordKind
<1> HIDE DEF s
<1>3. RecordStep(b, e, s).kind = s.kind /\ RecordStep(b, e, s).object = TargetObject(b, e)
  BY <1>1 DEF RecordStep
<1> QED
  BY <1>1, <1>2, <1>3

\* An update by which a flow fires itself is one the check looks for.
LEMMA OwnUpdateFound ==
    ASSUME NEW b, WellFormed(b), NEW e \in ToSet(b.elements),
           e.kind \in {"recordCreates", "recordUpdates", "recordDeletes"},
           Listens(b, TargetObject(b, e), Event(e)),
           LET s == StepNamed(FlowDefinition(b), e.name) IN
             /\ FlowDefinition(b).trigger.timing = "after" /\ s.kind = "update"
             /\ s.when = <<>> \/ TouchesRecord(s)
    PROVE  \E x \in SameObjectUpdate(FlowDefinition(b)) :
              /\ x.code = "same_object_update_after_save" /\ x.component = Label(FlowDefinition(b))
              /\ StepNamed(FlowDefinition(b), e.name).id \in x.about
<1> DEFINE d == FlowDefinition(b)
           s == FlowStep(b, e)
<1>1. IsRecordKind(e.kind) /\ e.kind \in ToSet(ElementTypes) /\ StepKind(e) # None
      /\ (StepKind(e) = "update" => e.kind = "recordUpdates")
  <2>1. DOMAIN ElementTypes = 1..18 /\ ElementTypes[9] = "recordCreates"
        /\ ElementTypes[10] = "recordDeletes" /\ ElementTypes[13] = "recordUpdates"
    BY DEF ElementTypes
  <2>2. 9 \in 1..18 /\ 10 \in 1..18 /\ 13 \in 1..18
    OBVIOUS
  <2> QED
    BY <2>1, <2>2 DEF IsRecordKind, StepKind, None, ToSet
<1>2. StepNamed(d, e.name) = s /\ s \in ToSet(d.steps)
  BY <1>1, NamedElement
<1>3. s.kind = StepKind(e) /\ s.object = TargetObject(b, e)
  BY <1>1, RecordStepIs
<1>4. e.kind = "recordUpdates" /\ Event(e) = "update"
  BY <1>1, <1>2, <1>3 DEF Event
<1>5. /\ b.trigger \in {"RecordBeforeSave", "RecordAfterSave"} /\ b.object = s.object
      /\ Contains(b.events, "update") /\ b.object # None /\ b.kind \in FlowKinds
  BY <1>3, <1>4 DEF Listens, WellFormed
<1>6. TriggerKind(b) = "record_save"
  <2>1. b.events # <<"delete">>
    BY <1>5 DEF Contains
  <2> QED
    BY <1>5, <2>1 DEF TriggerKind, None
<1>7. /\ d.kind = b.kind /\ d.trigger.kind = TriggerKind(b) /\ d.trigger.object = b.object
  BY DEF FlowDefinition
<1>8. s \in Touching(d) /\ IsFlow(d) /\ d.trigger.timing = "after"
  BY <1>2, <1>3, <1>4, <1>5, <1>7 DEF Touching, UpdatesOwnObject, IsFlow
<1> HIDE DEF d, s
<1>9. PICK severity, about :
        /\ about = {t.id : t \in Touching(d)}
        /\ SameObjectUpdate(d) = {Finding("same_object_update_after_save", severity, Label(d),
                                          d.trigger.object, about)}
  BY <1>6, <1>7, <1>8, Zenon DEF SameObjectUpdate
<1> DEFINE x == Finding("same_object_update_after_save", severity, Label(d), d.trigger.object, about)
<1>10. x.code = "same_object_update_after_save" /\ x.component = Label(d) /\ x.about = about
  BY DEF Finding
<1>11. s.id \in about
  BY <1>8, <1>9
<1> HIDE DEF x
<1>12. x \in SameObjectUpdate(d)
  BY <1>9 DEF x
<1> QED
  BY <1>2, <1>10, <1>11, <1>12 DEF d

\* Where a frame stands in a flow's body, ...
Stands(b, frame) == b.elements[CHOOSE i \in DOMAIN b.elements : b.elements[i].name = frame.at]

\* ... which of the active flows hear of the record its element writes, ...
DmlKinds == {"recordCreates", "recordUpdates", "recordDeletes"}
Hears(flows, frame, f) ==
    LET b == flows[frame.flow]
        e == Stands(b, frame) IN
    /\ frame.at # None /\ e.kind \in DmlKinds
    /\ Listens(flows[f], TargetObject(b, e), Event(e))

\* ... and what a frame fires, as long as it does: flows that hear of it.
FrameOK(flows, own, frame) ==
    /\ frame.failing => frame.fire = {}
    /\ frame.flow \in own =>
        /\ frame.at # None =>
            LET b == flows[frame.flow] IN
            Stands(b, frame) \in ToSet(b.elements) /\ Stands(b, frame).name = frame.at
        /\ frame.busy \/ frame.failing => frame.at # None
        /\ \A f \in frame.fire : Hears(flows, frame, f)

\* The definitions are those of the org's flows, which the copies leave alone; an
\* interview that runs inside the write of another hears of it.
FiredInv ==
    /\ org \in Orgs
    /\ defs = IF pc = "extract" THEN <<>>
              ELSE [f \in DOMAIN org.flows |-> FlowDefinition(org.flows[f])]
    /\ todo \in Seq(DOMAIN org.flows) /\ (pc \notin {"extract", "next"} => todo # <<>>)
    /\ \A f \in DOMAIN org.flows : f \in DOMAIN installed /\ installed[f] = org.flows[f]
    /\ \A k \in 1..Len(tx) : FrameOK(installed, DOMAIN org.flows, tx[k])
    /\ \A k \in 1..Len(tx) - 1 : tx[k].flow \in DOMAIN org.flows =>
          /\ tx[k].at # None
          /\ tx[k].iv # tx[k + 1].iv => Hears(installed, tx[k], tx[k + 1].flow)

LEMMA StandsAt == ASSUME NEW frame  PROVE At(frame) = Stands(installed[frame.flow], frame)
BY DEF At, Body, Stands

LEMMA OwnFlow ==
    ASSUME FiredInv, NEW f \in DOMAIN org.flows
    PROVE  WellFormed(installed[f]) /\ f # None /\ \A g \in DOMAIN org.flows : f # Copy(g)
BY FlowAssumption DEF FiredInv

\* What an element leads to is an element or the end.
Ends(b) == {e.name : e \in ToSet(b.elements)} \cup {None}
LEMMA Leads ==
    ASSUME NEW b, WellFormed(b)
    PROVE  /\ b.next \in Ends(b)
           /\ \A e \in ToSet(b.elements) :
                /\ e.next \in Ends(b) /\ e.fault \in Ends(b) /\ e.default \in Ends(b) /\ e.after \in Ends(b)
                /\ \A i \in DOMAIN e.rules : e.rules[i].next \in Ends(b)
BY DEF WellFormed, Ends

\* A frame that fires nothing has only to stand somewhere.
LEMMA StandsSomewhere ==
    ASSUME NEW flows, NEW own, NEW r, r.fire = {},
           r.flow \in own => /\ r.at \in Ends(flows[r.flow])
                             /\ r.busy \/ r.failing => r.at # None
    PROVE  FrameOK(flows, own, r)
<1>1. ASSUME r.flow \in own, r.at # None
      PROVE  LET b == flows[r.flow] IN
             Stands(b, r) \in ToSet(b.elements) /\ Stands(b, r).name = r.at
  <2> DEFINE b == flows[r.flow]
  <2>1. PICK i \in DOMAIN b.elements : b.elements[i].name = r.at
    BY <1>1 DEF Ends, ToSet
  <2>2. PICK j \in DOMAIN b.elements : b.elements[j].name = r.at /\ Stands(b, r) = b.elements[j]
    BY <2>1, Zenon DEF Stands
  <2> QED
    BY <2>2 DEF ToSet
<1> QED
  BY <1>1 DEF FrameOK

\* The innermost frame goes on.
LEMMA MovedFires ==
    ASSUME NotedInv, FiredInv, tx # <<>>, UNCHANGED <<org, defs, todo, pc, installed>>,
           NEW r, tx' = [tx EXCEPT ![Len(tx)] = r], InPlace(top, r),
           FrameOK(installed, DOMAIN org.flows, r)
    PROVE  FiredInv'
<1>1. PICK F : tx \in Seq(F)
  BY DEF NotedInv, StackOK
<1>2. PICK n : n = Len(tx)
  OBVIOUS
<1>3. n \in Nat /\ n >= 1 /\ top = tx[n]
  BY <1>1, <1>2 DEF top
<1>4. Len(tx') = n /\ \A k \in 1..n : tx'[k] = IF k = n THEN r ELSE tx[k]
  BY <1>1, <1>2, <1>3
<1>5. r.iv = tx[n].iv /\ r.flow = tx[n].flow
  BY <1>3 DEF InPlace
<1>6. \A k \in 1..n : FrameOK(installed, DOMAIN org.flows, tx'[k])
  BY <1>2, <1>4 DEF FiredInv
<1>7. ASSUME NEW k \in 1..n - 1, tx'[k].flow \in DOMAIN org.flows
      PROVE  /\ tx'[k].at # None
             /\ tx'[k].iv # tx'[k + 1].iv => Hears(installed, tx'[k], tx'[k + 1].flow)
  <2>1. k \in 1..n /\ k + 1 \in 1..n /\ k # n
    BY <1>3
  <2>2. tx'[k] = tx[k] /\ tx'[k + 1].iv = tx[k + 1].iv /\ tx'[k + 1].flow = tx[k + 1].flow
    BY <1>4, <1>5, <2>1
  <2> QED
    BY <1>2, <1>7, <2>2 DEF FiredInv
<1> QED
  BY <1>4, <1>6, <1>7 DEF FiredInv

\* A frame is entered: a subflow, or what a write fires.
LEMMA EnteredFires ==
    ASSUME NotedInv, FiredInv, tx # <<>>, UNCHANGED <<org, defs, todo, pc, installed>>,
           NEW was, NEW new, tx' = Append([tx EXCEPT ![Len(tx)] = was], new), InPlace(top, was),
           FrameOK(installed, DOMAIN org.flows, was), FrameOK(installed, DOMAIN org.flows, new),
           was.flow \in DOMAIN org.flows =>
               was.at # None /\ (was.iv # new.iv => Hears(installed, was, new.flow))
    PROVE  FiredInv'
<1>1. PICK F : tx \in Seq(F)
  BY DEF NotedInv, StackOK
<1>2. PICK n : n = Len(tx)
  OBVIOUS
<1>3. n \in Nat /\ n >= 1 /\ top = tx[n]
  BY <1>1, <1>2 DEF top
<1>4. /\ Len(tx') = n + 1 /\ tx'[n + 1] = new
      /\ \A k \in 1..n : tx'[k] = IF k = n THEN was ELSE tx[k]
  BY <1>1, <1>2, Grown
<1>5. was.iv = tx[n].iv /\ was.flow = tx[n].flow
  BY <1>3 DEF InPlace
<1>6. \A k \in 1..n + 1 : FrameOK(installed, DOMAIN org.flows, tx'[k])
  <2>1. \A k \in 1..n : FrameOK(installed, DOMAIN org.flows, tx'[k])
    BY <1>2, <1>4 DEF FiredInv
  <2>2. \A k \in 1..n + 1 : k \in 1..n \/ k = n + 1
    BY <1>3
  <2> QED
    BY <1>4, <2>1, <2>2
<1>7. ASSUME NEW k \in 1..n, tx'[k].flow \in DOMAIN org.flows
      PROVE  /\ tx'[k].at # None
             /\ tx'[k].iv # tx'[k + 1].iv => Hears(installed, tx'[k], tx'[k + 1].flow)
  <2>1. CASE k = n
    BY <1>4, <1>7, <2>1
  <2>2. CASE k # n
    <3>1. k \in 1..n - 1 /\ k + 1 \in 1..n
      BY <1>3, <2>2
    <3>2. tx'[k] = tx[k] /\ tx'[k + 1].iv = tx[k + 1].iv /\ tx'[k + 1].flow = tx[k + 1].flow
      BY <1>4, <1>5, <2>2, <3>1
    <3> QED
      BY <1>2, <1>7, <3>1, <3>2 DEF FiredInv
  <2> QED
    BY <2>1, <2>2
<1>8. (n + 1) - 1 = n
  BY <1>3
<1> QED
  BY <1>4, <1>6, <1>7, <1>8 DEF FiredInv

\* A flow a write fires.
LEMMA StartFires == ASSUME NotedInv, FiredInv, StartInterview  PROVE FiredInv'
<1>1. PICK F : tx \in Seq(F)
  BY DEF NotedInv, StackOK
<1>2. tx # <<>> /\ UNCHANGED <<org, defs, todo, pc, installed>>
  BY DEF StartInterview, EngineOnly, site
<1>3. PICK f \in top.fire :
        tx' = Append([tx EXCEPT ![Len(tx)].fire = @ \ {f}],
                     [NoFrame EXCEPT !.iv = Len(traces) + 1, !.flow = f, !.at = installed[f].next])
  BY DEF StartInterview
<1> DEFINE was == [top EXCEPT !.fire = @ \ {f}]
           new == [NoFrame EXCEPT !.iv = Len(traces) + 1, !.flow = f, !.at = installed[f].next]
<1>4. tx' = Append([tx EXCEPT ![Len(tx)] = was], new)
  BY <1>3 DEF top
<1>5. Len(tx) \in 1..Len(tx) /\ top = tx[Len(tx)]
  BY <1>1, <1>2 DEF top
<1>6. DOMAIN top = DOMAIN NoFrame /\ FrameOK(installed, DOMAIN org.flows, top)
  BY <1>2, <1>5 DEF NotedInv, StackOK, FiredInv
<1>7. /\ InPlace(top, was) /\ was.fire = top.fire \ {f}
      /\ was.at = top.at /\ was.failing = top.failing /\ was.busy = top.busy
  BY <1>6 DEF InPlace, NoFrame
<1>8. new.fire = {} /\ new.flow = f /\ new.at = installed[f].next /\ ~new.busy /\ ~new.failing
  BY DEF NoFrame
<1> HIDE DEF was, new
<1>9. \A g : Hears(installed, was, g) <=> Hears(installed, top, g)
  BY <1>7 DEF Hears, Stands, InPlace
<1>10. FrameOK(installed, DOMAIN org.flows, was)
  BY <1>6, <1>7, <1>9 DEF FrameOK, Stands, InPlace
<1>11. FrameOK(installed, DOMAIN org.flows, new)
  <2>1. f \in DOMAIN org.flows => installed[f].next \in Ends(installed[f])
    BY OwnFlow, Leads
  <2> QED
    BY <1>8, <2>1, StandsSomewhere
<1>12. was.flow \in DOMAIN org.flows => was.at # None /\ Hears(installed, was, new.flow)
  BY <1>6, <1>7, <1>8, <1>9 DEF FrameOK, InPlace, Hears
<1> QED
  BY <1>2, <1>4, <1>7, <1>10, <1>11, <1>12, EnteredFires

\* Where a frame stands it can go on from.
LEMMA StandsAndLeads ==
    ASSUME FiredInv, NEW t, FrameOK(installed, DOMAIN org.flows, t), t.flow \in DOMAIN org.flows
    PROVE  LET b == installed[t.flow]
               e == At(t) IN
           /\ t.at \in Ends(b)
           /\ t.at # None =>
                /\ e \in ToSet(b.elements)
                /\ e.next \in Ends(b) /\ e.fault \in Ends(b) /\ e.default \in Ends(b) /\ e.after \in Ends(b)
                /\ \A i \in DOMAIN e.rules : e.rules[i].next \in Ends(b)
<1>1. WellFormed(installed[t.flow])
  BY OwnFlow
<1>2. At(t) = Stands(installed[t.flow], t)
  BY StandsAt
<1>3. t.at # None => At(t) \in ToSet(installed[t.flow].elements) /\ At(t).name = t.at
  BY <1>2 DEF FrameOK
<1>4. t.at \in Ends(installed[t.flow])
  BY <1>3 DEF Ends
<1> QED
  BY <1>1, <1>3, <1>4, Leads

\* What the fields of a frame that goes on are.
Puts(t, r, place, fire, busy, failing) ==
    InPlace(t, r) /\ r.at = place /\ r.fire = fire /\ r.busy = busy /\ r.failing = failing
LEMMA AtSet ==
    ASSUME NEW t, DOMAIN t = DOMAIN NoFrame, NEW a, NEW q
    PROVE  /\ Puts(t, [t EXCEPT !.at = a], a, t.fire, t.busy, t.failing)
           /\ Puts(t, [t EXCEPT !.at = a, !.passes = q], a, t.fire, t.busy, t.failing)
           /\ Puts(t, [t EXCEPT !.at = a, !.busy = FALSE], a, t.fire, FALSE, t.failing)
           /\ Puts(t, [t EXCEPT !.at = a, !.failing = FALSE, !.busy = FALSE], a, t.fire, FALSE, FALSE)
BY DEF Puts, InPlace, NoFrame
LEMMA MarkSet ==
    ASSUME NEW t, DOMAIN t = DOMAIN NoFrame, NEW fs
    PROVE  /\ Puts(t, [t EXCEPT !.busy = TRUE], t.at, t.fire, TRUE, t.failing)
           /\ Puts(t, [t EXCEPT !.failing = TRUE], t.at, t.fire, t.busy, TRUE)
           /\ Puts(t, [t EXCEPT !.fire = fs, !.busy = TRUE], t.at, fs, TRUE, t.failing)
BY DEF Puts, InPlace, NoFrame

LEMMA ElementFires ==
    ASSUME NotedInv, FiredInv,
           \/ Loop \/ Write \/ Act \/ Resume \/ Handled
           \/ \E i \in 1..3 : Decide(i)
    PROVE  FiredInv'
<1> DEFINE own == DOMAIN org.flows
           b == installed[top.flow]
<1>1. tx # <<>> /\ UNCHANGED <<org, defs, todo, pc, installed>>
  BY DEF Loop, Write, Act, Resume, Handled, Decide, Doing, Running, EngineOnly, site
<1>2. DOMAIN top = DOMAIN NoFrame /\ FrameOK(installed, own, top)
  <2>1. PICK F : tx \in Seq(F)
    BY DEF NotedInv, StackOK
  <2>2. Len(tx) \in 1..Len(tx) /\ top = tx[Len(tx)]
    BY <1>1, <2>1 DEF top
  <2> QED
    BY <2>2 DEF NotedInv, StackOK, FiredInv
<1>3. top.flow \in own =>
        /\ top.at \in Ends(b) /\ (top.busy \/ top.failing => top.at # None)
        /\ top.at # None =>
             /\ At(top).next \in Ends(b) /\ At(top).fault \in Ends(b)
             /\ At(top).default \in Ends(b) /\ At(top).after \in Ends(b)
             /\ \A i \in DOMAIN At(top).rules : At(top).rules[i].next \in Ends(b)
  BY <1>2, StandsAndLeads DEF FrameOK
<1>4. top.failing => top.fire = {}
  BY <1>2 DEF FrameOK
<1> HIDE DEF own
<1>5. SUFFICES ASSUME TRUE
               PROVE  \E r : Frame(r) /\ InPlace(top, r) /\ FrameOK(installed, own, r)
  BY <1>1, MovedFires DEF Frame, own
<1>6. ASSUME NEW r, NEW a, NEW busy, NEW failing, Puts(top, r, a, {}, busy, failing), Frame(r),
             top.flow \in own => a \in Ends(b) /\ (busy \/ failing => a # None)
      PROVE  \E s : Frame(s) /\ InPlace(top, s) /\ FrameOK(installed, own, s)
  <2>1. r.flow = top.flow /\ r.fire = {} /\ r.at = a /\ r.busy = busy /\ r.failing = failing
    BY <1>6 DEF Puts, InPlace
  <2>2. FrameOK(installed, own, r)
    BY <1>6, <2>1, StandsSomewhere
  <2> QED
    BY <1>6, <2>2 DEF Puts
<1>7. CASE Loop
  <2>1. top.fire = {} /\ ~top.busy /\ ~top.failing /\ top.at # None
    BY <1>7 DEF Loop, Doing, Running
  <2>2. PICK e : e = At(top)
    OBVIOUS
  <2>3. CASE Frame([top EXCEPT !.at = e.next, !.passes = @ + 1])
    <3>1. PICK r, q : r = [top EXCEPT !.at = e.next, !.passes = q] /\ Frame(r)
      BY <2>3
    <3>2. Puts(top, r, e.next, {}, top.busy, top.failing)
      BY <1>2, <2>1, <3>1, AtSet
    <3> QED
      BY <1>3, <1>6, <2>1, <2>2, <3>1, <3>2
  <2>4. CASE Frame([top EXCEPT !.at = e.after])
    <3>1. PICK r : r = [top EXCEPT !.at = e.after] /\ Frame(r)
      BY <2>4
    <3>2. Puts(top, r, e.after, {}, top.busy, top.failing)
      BY <1>2, <2>1, <3>1, AtSet
    <3> QED
      BY <1>3, <1>6, <2>1, <2>2, <3>1, <3>2
  <2> QED
    BY <1>7, <2>2, <2>3, <2>4 DEF Loop
<1>8. CASE \E i \in 1..3 : Decide(i)
  <2>1. top.fire = {} /\ ~top.busy /\ ~top.failing /\ top.at # None
    BY <1>8 DEF Decide, Doing, Running
  <2>2. PICK i \in 1..3 :
          Frame([top EXCEPT !.at = IF i \in DOMAIN At(top).rules THEN At(top).rules[i].next
                                   ELSE At(top).default])
    BY <1>8 DEF Decide
  <2>3. PICK a : a = IF i \in DOMAIN At(top).rules THEN At(top).rules[i].next ELSE At(top).default
    OBVIOUS
  <2>4. top.flow \in own => a \in Ends(b)
    BY <1>3, <2>1, <2>3
  <2>5. PICK r : r = [top EXCEPT !.at = a] /\ Frame(r)
    BY <2>2, <2>3
  <2>6. Puts(top, r, a, {}, top.busy, top.failing)
    BY <1>2, <2>1, <2>5, AtSet
  <2> QED
    BY <1>6, <2>1, <2>4, <2>5, <2>6
<1>9. CASE Act
  <2>1. top.fire = {} /\ ~top.busy /\ ~top.failing /\ top.at # None
    BY <1>9 DEF Act, Doing, Running
  <2>2. PICK r : r = [top EXCEPT !.busy = TRUE] /\ Frame(r)
    BY <1>9 DEF Act
  <2>3. Puts(top, r, top.at, {}, TRUE, top.failing)
    BY <1>2, <2>1, <2>2, MarkSet
  <2> QED
    BY <1>3, <1>6, <2>1, <2>2, <2>3
<1>10. CASE Resume
  <2>1. top.fire = {} /\ top.busy /\ ~top.failing
    BY <1>10 DEF Resume
  <2>2. CASE Frame([top EXCEPT !.at = At(top).next, !.busy = FALSE])
    <3>1. PICK a : a = At(top).next
      OBVIOUS
    <3>2. PICK r : r = [top EXCEPT !.at = a, !.busy = FALSE] /\ Frame(r)
      BY <2>2, <3>1
    <3>3. Puts(top, r, a, {}, FALSE, top.failing)
      BY <1>2, <2>1, <3>2, AtSet
    <3> QED
      BY <1>3, <1>6, <2>1, <3>1, <3>2, <3>3
  <2>3. CASE Frame([top EXCEPT !.failing = TRUE])
    <3>1. PICK r : r = [top EXCEPT !.failing = TRUE] /\ Frame(r)
      BY <2>3
    <3>2. Puts(top, r, top.at, {}, top.busy, TRUE)
      BY <1>2, <2>1, <3>1, MarkSet
    <3> QED
      BY <1>3, <1>6, <2>1, <3>1, <3>2
  <2> QED
    BY <1>10, <2>2, <2>3 DEF Resume
<1>11. CASE Handled
  <2>1. top.failing /\ At(top).fault # None
    BY <1>11 DEF Handled
  <2>2. PICK a : a = At(top).fault
    OBVIOUS
  <2>3. PICK r : r = [top EXCEPT !.at = a, !.failing = FALSE, !.busy = FALSE] /\ Frame(r)
    BY <1>11, <2>2 DEF Handled
  <2>4. Puts(top, r, a, {}, FALSE, FALSE)
    BY <1>2, <1>4, <2>1, <2>3, AtSet
  <2> QED
    BY <1>3, <1>6, <2>1, <2>2, <2>3, <2>4
<1>12. CASE Write
  <2>1. top.fire = {} /\ ~top.busy /\ ~top.failing /\ top.at # None /\ At(top).kind \in DmlKinds
    BY <1>12 DEF Write, Doing, Running, DmlKinds
  <2>2. PICK fs :
          /\ Frame([top EXCEPT !.fire = fs, !.busy = TRUE])
          /\ \A f \in fs : Listens(installed[f], TargetObject(Body(top), At(top)), Event(At(top)))
    BY <1>12 DEF Write
  <2>3. PICK r : r = [top EXCEPT !.fire = fs, !.busy = TRUE] /\ Frame(r)
    BY <2>2
  <2>4. Puts(top, r, top.at, fs, TRUE, top.failing)
    BY <1>2, <2>3, MarkSet
  <2>5. r.at = top.at /\ r.fire = fs /\ ~r.failing /\ InPlace(top, r) /\ r.flow = top.flow
    BY <2>1, <2>4 DEF Puts, InPlace
  <2>6. Body(top) = installed[r.flow] /\ At(top) = Stands(installed[r.flow], r)
    BY <2>5, StandsAt DEF Body, Stands
  <2>7. \A f \in fs : Hears(installed, r, f)
    BY <2>1, <2>2, <2>5, <2>6 DEF Hears
  <2>8. r.flow \in own => Stands(installed[r.flow], r) \in ToSet(installed[r.flow].elements)
                          /\ Stands(installed[r.flow], r).name = r.at
    <3>1. At(top) = Stands(installed[top.flow], top)
      BY StandsAt
    <3> QED
      BY <1>2, <2>1, <2>5, <2>6, <3>1 DEF FrameOK
  <2>9. FrameOK(installed, own, r)
    BY <2>1, <2>5, <2>7, <2>8 DEF FrameOK
  <2> QED
    BY <2>3, <2>5, <2>9
<1> QED
  BY <1>7, <1>8, <1>9, <1>10, <1>11, <1>12

\* A subflow runs inside its caller's interview.
LEMMA SubflowFires == ASSUME NotedInv, FiredInv, Subflow  PROVE FiredInv'
<1>1. /\ tx # <<>> /\ UNCHANGED <<org, defs, todo, pc, installed>>
      /\ top.fire = {} /\ ~top.failing /\ top.at # None
  BY DEF Subflow, Doing, Running, EngineOnly, site
<1>2. DOMAIN top = DOMAIN NoFrame /\ FrameOK(installed, DOMAIN org.flows, top)
  <2>1. PICK F : tx \in Seq(F)
    BY DEF NotedInv, StackOK
  <2>2. Len(tx) \in 1..Len(tx) /\ top = tx[Len(tx)]
    BY <1>1, <2>1 DEF top
  <2> QED
    BY <2>2 DEF NotedInv, StackOK, FiredInv
<1>3. PICK was : was = [top EXCEPT !.busy = TRUE]
  OBVIOUS
<1>4. PICK new, x : new = [NoFrame EXCEPT !.iv = top.iv, !.flow = x, !.at = installed[x].next]
                    /\ tx' = Append([tx EXCEPT ![Len(tx)] = was], new)
  BY <1>3 DEF Subflow, top
<1>5. new.iv = top.iv /\ new.flow = x /\ new.at = installed[x].next
      /\ new.fire = {} /\ ~new.busy /\ ~new.failing
  BY <1>4 DEF NoFrame
<1>6. Puts(top, was, top.at, {}, TRUE, FALSE)
  <2>1. Puts(top, was, top.at, top.fire, TRUE, top.failing)
    BY <1>2, <1>3, MarkSet
  <2> QED
    BY <1>1, <2>1 DEF Puts
<1>7. InPlace(top, was) /\ was.at = top.at /\ was.fire = {} /\ was.iv = top.iv /\ was.flow = top.flow
  BY <1>6 DEF Puts, InPlace
<1>8. FrameOK(installed, DOMAIN org.flows, was)
  BY <1>1, <1>2, <1>7 DEF FrameOK, Stands
<1>9. FrameOK(installed, DOMAIN org.flows, new)
  <2>1. x \in DOMAIN org.flows => installed[x].next \in Ends(installed[x])
    BY OwnFlow, Leads
  <2> QED
    BY <1>5, <2>1, StandsSomewhere
<1> QED
  BY <1>1, <1>4, <1>5, <1>7, <1>8, <1>9, EnteredFires

\* A frame ends, and the one behind it goes on or fails.
LEMMA EndFires == ASSUME NotedInv, FiredInv, Ended \/ Unhandled  PROVE FiredInv'
<1> DEFINE own == DOMAIN org.flows
<1>1. PICK F : tx \in Seq(F)
  BY DEF NotedInv, StackOK
<1>2. /\ tx # <<>> /\ top.flow # None /\ UNCHANGED <<org, defs, todo, pc, installed>>
  BY DEF Ended, Unhandled, Running, EngineOnly, site
<1>3. Len(tx) \in Nat /\ Len(tx) >= 2
  BY <1>2, Inside
<1>4. PICK n : n = Len(tx) - 1
  OBVIOUS
<1>5. n \in Nat /\ n >= 1 /\ Len(tx) = n + 1
  BY <1>3, <1>4
<1>6. \/ tx' = Front(tx)
      \/ FailsBehind(n)
  BY <1>4 DEF Ended, Unhandled, FailsBehind
<1>7. \A k \in 1..n : /\ FrameOK(installed, own, tx[k]) /\ DOMAIN tx[k] = DOMAIN NoFrame
                      /\ tx[k].flow \in own =>
                           /\ tx[k].at # None
                           /\ tx[k].iv # tx[k + 1].iv => Hears(installed, tx[k], tx[k + 1].flow)
  <2>1. \A k \in 1..n : k \in 1..Len(tx) /\ k \in 1..Len(tx) - 1
    BY <1>5
  <2> QED
    BY <2>1 DEF NotedInv, StackOK, FiredInv
<1>8. Len(tx') = n
      /\ \A k \in 1..n : /\ FrameOK(installed, own, tx'[k])
                         /\ tx'[k].iv = tx[k].iv /\ tx'[k].flow = tx[k].flow
                         /\ tx'[k].at = tx[k].at
  <2>1. CASE tx' = Front(tx)
    BY <1>1, <1>3, <1>4, <1>7, <2>1, FrontOf
  <2>2. CASE FailsBehind(n)
    <3>1. PICK r : r = [[tx[n] EXCEPT !.failing = TRUE] EXCEPT !.fire = {}]
      OBVIOUS
    <3>2. Len(tx') = n /\ tx'[n] = r /\ \A k \in 1..n : k # n => tx'[k] = tx[k]
      BY <1>1, <1>3, <1>4, <1>5, <2>2, <3>1, FrontFails
    <3>3. PICK t : t = tx[n] /\ DOMAIN t = DOMAIN NoFrame
      BY <1>5, <1>7
    <3>4. r.iv = t.iv /\ r.flow = t.flow /\ r.at = t.at /\ r.fire = {}
      BY <3>1, <3>3 DEF NoFrame
    <3>5. FrameOK(installed, own, r)
      <4>1. FrameOK(installed, own, t) /\ (t.flow \in own => t.at # None)
        BY <1>5, <1>7, <3>3
      <4> QED
        BY <3>4, <4>1 DEF FrameOK, Stands
    <3>6. ASSUME NEW k \in 1..n
          PROVE  /\ FrameOK(installed, own, tx'[k])
                 /\ tx'[k].iv = tx[k].iv /\ tx'[k].flow = tx[k].flow /\ tx'[k].at = tx[k].at
      <4>1. CASE k = n
        BY <3>2, <3>3, <3>4, <3>5, <4>1
      <4>2. CASE k # n
        BY <1>7, <3>2, <4>2
      <4> QED
        BY <4>1, <4>2
    <3> QED
      BY <3>2, <3>6
  <2> QED
    BY <1>6, <2>1, <2>2
<1>9. ASSUME NEW k \in 1..n - 1, tx'[k].flow \in own
      PROVE  /\ tx'[k].at # None
             /\ tx'[k].iv # tx'[k + 1].iv => Hears(installed, tx'[k], tx'[k + 1].flow)
  <2>1. k \in 1..n /\ k + 1 \in 1..n
    BY <1>5
  <2>2. PICK t, u : t = tx[k] /\ u = tx'[k] /\ u.at = t.at /\ u.flow = t.flow /\ u.iv = t.iv
    BY <1>8, <2>1
  <2>3. /\ t.at # None
        /\ t.iv # tx[k + 1].iv => Hears(installed, t, tx[k + 1].flow)
    BY <1>7, <1>9, <2>1, <2>2
  <2>4. tx'[k + 1].iv = tx[k + 1].iv /\ tx'[k + 1].flow = tx[k + 1].flow
    BY <1>8, <2>1
  <2>5. \A g : Hears(installed, u, g) <=> Hears(installed, t, g)
    BY <2>2 DEF Hears, Stands
  <2> QED
    BY <2>2, <2>3, <2>4, <2>5
<1> QED
  BY <1>2, <1>8, <1>9 DEF FiredInv

LEMMA EngineFires == ASSUME NotedInv, FiredInv, EngineNext  PROVE FiredInv'
BY StartFires, ElementFires, SubflowFires, EndFires DEF EngineNext

\* A call of the session begins a transaction or ends one.
LEMMA CallFires ==
    ASSUME FiredInv, UNCHANGED <<org, defs, installed>>, pc # "extract", pc' # "extract",
           todo # <<>>, todo' = todo \/ (pc' = "next" /\ todo' = Tail(todo)),
           \/ tx' = <<>>
           \/ \E fs : Transaction(fs)
    PROVE  FiredInv'
<1>1. todo' \in Seq(DOMAIN org'.flows) /\ (pc' \notin {"extract", "next"} => todo' # <<>>)
  BY DEF FiredInv
<1>2. CASE tx' = <<>>
  <2>1. Len(tx') = 0
    BY <1>2
  <2> QED
    BY <1>1, <2>1 DEF FiredInv
<1>3. CASE \E fs : Transaction(fs)
  <2>1. PICK fs, r : tx' = <<r>> /\ r = [NoFrame EXCEPT !.fire = fs]
    BY <1>3 DEF Transaction
  <2>2. r.flow = None /\ ~r.failing
    BY <2>1 DEF NoFrame
  <2>3. None \notin DOMAIN org.flows
    BY FlowAssumption DEF FiredInv
  <2>4. FrameOK(installed, DOMAIN org.flows, r)
    BY <2>2, <2>3 DEF FrameOK
  <2>5. Len(tx') = 1 /\ tx'[1] = r
    BY <2>1
  <2>6. \A k \in 1..Len(tx') : FrameOK(installed, DOMAIN org.flows, tx'[k])
    BY <2>4, <2>5
  <2>7. \A k \in 1..Len(tx') - 1 : FALSE
    BY <2>5
  <2> QED
    BY <1>1, <2>6, <2>7 DEF FiredInv
<1> QED
  BY <1>2, <1>3

\* Of the bodies only the copy's changes: no flow of the org goes by its name.
LEMMA BodiesKept ==
    ASSUME FiredInv, pc # "extract", pc' # "extract", UNCHANGED <<org, defs>>, tx' = <<>>,
           todo # <<>>, todo' = todo \/ (pc' = "next" /\ todo' = Tail(todo)),
           \A f \in DOMAIN installed : f # Copy(p) => f \in DOMAIN installed' /\ installed'[f] = installed[f]
    PROVE  FiredInv'
<1>1. PICK D, q : D = DOMAIN org.flows /\ q = todo /\ q \in Seq(D) /\ q # <<>>
  BY DEF FiredInv
<1>2. Head(q) \in D /\ Tail(q) \in Seq(D)
  BY <1>1
<1>3. p \in DOMAIN org.flows /\ todo' \in Seq(DOMAIN org.flows)
      /\ (pc' \notin {"extract", "next"} => todo' # <<>>)
  BY <1>1, <1>2 DEF p
<1>4. \A f \in DOMAIN org.flows : f \in DOMAIN installed' /\ installed'[f] = org.flows[f]
  BY <1>3, OwnFlow DEF FiredInv
<1>5. Len(tx') = 0
  OBVIOUS
<1> QED
  BY <1>3, <1>4, <1>5 DEF FiredInv

LEMMA StepFires == ASSUME NotedInv, FiredInv, [Next]_vars  PROVE FiredInv'
<1>1. CASE EngineNext
  BY <1>1, EngineFires
<1>2. CASE BuildProcesses
  <2>1. tx = <<>> /\ pc' = "next"
    BY <1>2 DEF BuildProcesses, NotedInv, StackOK, Busy
  <2> QED
    BY <1>2, <2>1 DEF BuildProcesses, FiredInv, site
<1>3. /\ pc \notin Busy => tx = <<>>
      /\ pc \notin {"extract", "next"} => todo # <<>>
  BY DEF NotedInv, StackOK, FiredInv
<1>4. CASE Deploy
  <2>1. /\ tx' = <<>> /\ pc # "extract" /\ pc' # "extract" /\ todo # <<>>
        /\ UNCHANGED <<org, defs, todo>>
    BY <1>3, <1>4 DEF Deploy, Goto, Busy
  <2>2. installed' \in {installed, WithCopy}
    BY <1>4 DEF Deploy
  <2>3. \A f \in DOMAIN installed :
           f # Copy(p) => f \in DOMAIN WithCopy /\ WithCopy[f] = installed[f]
    BY DEF WithCopy
  <2> QED
    BY <2>1, <2>2, <2>3, BodiesKept
<1>5. CASE Compare
  <2>1. /\ tx' = <<>> /\ pc # "extract" /\ pc' = "next" /\ todo # <<>> /\ todo' = Tail(todo)
        /\ UNCHANGED <<org, defs>>
    BY <1>3, <1>5 DEF Compare, NextFlow, Goto, Busy
  <2>2. \A f \in DOMAIN installed : f # Copy(p) => f \in DOMAIN installed' /\ installed'[f] = installed[f]
    BY <1>5 DEF Compare
  <2> QED
    BY <2>1, <2>2, BodiesKept
<1>6. CASE NotDriven \/ NotCompared \/ SetTraceFlag
  <2>1. /\ pc \in {"flag", "compare"} /\ pc' \in {"next", "create"} /\ tx' = tx
        /\ UNCHANGED <<org, defs, installed>>
        /\ todo' = todo \/ (pc' = "next" /\ todo' = Tail(todo))
    BY <1>6 DEF NotDriven, NotCompared, SetTraceFlag, NextFlow, Goto, site
  <2> QED
    BY <1>3, <2>1, CallFires DEF Busy
<1>7. CASE CreateRecord \/ UpdateRecord \/ Invoke
  <2>1. /\ pc \in {"create", "drive"} /\ pc' \notin {"extract", "next"}
        /\ UNCHANGED <<org, defs, todo, installed>>
        /\ tx' = tx \/ \E fs : Transaction(fs)
    BY <1>7 DEF CreateRecord, UpdateRecord, Invoke, Goto, site
  <2> QED
    BY <1>3, <2>1, CallFires DEF Busy
<1>8. CASE Created \/ Updated \/ Invoked
  <2>1. /\ pc \notin {"extract", "next"} /\ pc' \notin {"extract", "next"}
        /\ UNCHANGED <<org, defs, todo, installed>>
        /\ tx' = <<>> \/ \E fs : Transaction(fs)
    BY <1>8 DEF Created, Updated, UpdateRaises, Invoked, Goto, site
  <2> QED
    BY <1>3, <2>1, CallFires
<1>9. CASE ReadLogs \/ DeleteFlag \/ DeleteRecord
  <2>1. /\ pc \in {"logs", "clean", "clean record"} /\ pc' \notin {"extract", "next"}
        /\ UNCHANGED <<org, defs, todo, installed, tx>>
    BY <1>9 DEF ReadLogs, DeleteFlag, DeleteRecord, Goto, site
  <2> QED
    BY <1>3, <2>1, CallFires DEF Busy
<1>10. CASE UNCHANGED vars
  BY <1>10 DEF vars, site, FiredInv
<1> QED
  BY <1>1, <1>2, <1>4, <1>5, <1>6, <1>7, <1>8, <1>9, <1>10
     DEF Next, SessionNext, Finished

LEMMA AlwaysFired == Spec => []FiredInv
<1>1. Init => FiredInv
  <2>1. ASSUME Init  PROVE FiredInv
    <3>1. Len(tx) = 0 /\ tx = <<>> /\ org \in Orgs
      BY <2>1 DEF Init
    <3>2. todo \in Seq(DOMAIN org.flows)
      BY <2>1, FlowAssumption DEF Init
    <3> QED
      BY <2>1, <3>1, <3>2 DEF Init, FiredInv
  <2> QED
    BY <2>1
<1>2. NotedInv /\ FiredInv /\ [Next]_vars => FiredInv'
  BY StepFires
<1> QED
  BY <1>1, <1>2, AlwaysNoted, PTL DEF Spec

\* The check looks at every update by which an after-save flow fires itself
\* again, whatever that update is made of (_check_same_object_update).
THEOREM ReentriesAreReported == Spec => []ReentryReported
<1>1. NotedInv /\ FiredInv => ReentryReported
  <2>1. SUFFICES ASSUME NotedInv, FiredInv, NEW k \in Again,
                        defs[tx[k].flow].trigger.timing = "after",
                        LET s == StepNamed(defs[tx[k].flow], tx[k].at) IN
                            s.kind = "update" /\ (s.when = <<>> \/ TouchesRecord(s))
                 PROVE  LET d == defs[tx[k].flow] IN
                        \E x \in HealthFindings :
                            /\ x.code = "same_object_update_after_save" /\ x.component = Label(d)
                            /\ StepNamed(d, tx[k].at).id \in x.about
    BY DEF ReentryReported
  <2>2. PICK F : tx \in Seq(F)
    BY <2>1 DEF NotedInv, StackOK
  <2>3. PICK t, f : t = tx[k] /\ f = t.flow
    OBVIOUS
  <2>4. /\ k \in 1..Len(tx) /\ k \in 1..Len(tx) - 1
        /\ f = tx[k + 1].flow /\ t.iv # tx[k + 1].iv /\ f \in DOMAIN defs
    BY <2>1, <2>2, <2>3 DEF Again
  <2>5. DOMAIN defs = DOMAIN org.flows
        /\ defs[f] = FlowDefinition(installed[f]) /\ WellFormed(installed[f])
    <3>1. DOMAIN <<>> = {}
      OBVIOUS
    <3>2. defs = [g \in DOMAIN org.flows |-> FlowDefinition(org.flows[g])]
      BY <2>1, <2>4, <3>1 DEF FiredInv
    <3> QED
      BY <2>1, <2>4, <3>2, OwnFlow DEF FiredInv
  <2>6. Hears(installed, t, f) /\ FrameOK(installed, DOMAIN org.flows, t)
    BY <2>1, <2>3, <2>4, <2>5 DEF FiredInv
  <2>7. PICK b, e : b = installed[f] /\ e = Stands(b, t)
    OBVIOUS
  <2>8. /\ e.kind \in DmlKinds /\ Listens(b, TargetObject(b, e), Event(e))
        /\ e \in ToSet(b.elements) /\ e.name = t.at
    BY <2>3, <2>4, <2>5, <2>6, <2>7 DEF Hears, FrameOK
  <2>9. PICK x \in SameObjectUpdate(FlowDefinition(b)) :
              /\ x.code = "same_object_update_after_save" /\ x.component = Label(FlowDefinition(b))
              /\ StepNamed(FlowDefinition(b), e.name).id \in x.about
    BY <2>1, <2>3, <2>5, <2>7, <2>8, OwnUpdateFound DEF DmlKinds
  <2>10. x \in HealthFindings
    <3>1. defs[f] \in {defs[g] : g \in DOMAIN defs} \cup {d \in RuleDefinitions : d.active}
      BY <2>4
    <3>2. ASSUME NEW ds, NEW d \in ds, NEW files, NEW fields, x \in SameObjectUpdate(d)
          PROVE  x \in HealthChecks(ds, files, fields)
      BY <3>2 DEF HealthChecks
    <3> QED
      BY <2>5, <2>7, <2>9, <3>1, <3>2 DEF HealthFindings
  <2> QED
    BY <2>3, <2>5, <2>7, <2>8, <2>9, <2>10
<1> QED
  BY <1>1, AlwaysNoted, AlwaysFired, PTL
------------------------------------------------------------------------------
(* A run of what the model was made of is no mismatch.                      *)

\* Splitting a path goes from one element to the next.
Unsplit == [visited |-> <<>>, nested |-> {}, calling |-> FALSE]
Splits(N) == [visited : Seq(N), nested : SUBSET N, calling : BOOLEAN]
NameSet(path) == {path[i].name : i \in DOMAIN path}

LEMMA AttributedIn ==
    ASSUME NEW d, NEW N, NEW w \in Splits(N), NEW e, e.name \in N
    PROVE  Attributed(d, w, e) \in Splits(N)
<1>1. w.visited \in Seq(N) /\ w.nested \in SUBSET N /\ w.calling \in BOOLEAN
  BY DEF Splits
<1>2. Append(w.visited, e.name) \in Seq(N) /\ w.nested \cup {e.name} \in SUBSET N
  BY <1>1
<1>3. \E c \in BOOLEAN : c = (StepNamed(d, e.name).kind \in {"call_process", "call_code"})
  <2>1. PICK k, S : k = StepNamed(d, e.name).kind /\ S = {"call_process", "call_code"}
    OBVIOUS
  <2>2. (k \in S) \in BOOLEAN
    OBVIOUS
  <2>3. \E c \in BOOLEAN : c = (k \in S)
    <3> WITNESS (k \in S) \in BOOLEAN
    <3> QED
      OBVIOUS
  <2> QED
    BY <2>1, <2>3, Zenon
<1>4. \/ \E c \in BOOLEAN :
            Attributed(d, w, e) = [w EXCEPT !.visited = Append(@, e.name), !.calling = c]
      \/ Attributed(d, w, e) = [w EXCEPT !.nested = @ \cup {e.name}]
      \/ Attributed(d, w, e) = [w EXCEPT !.visited = Append(@, e.name)]
  BY <1>3, Zenon DEF Attributed
<1> QED
  BY <1>1, <1>2, <1>4 DEF Splits

SplitsBy(d, path, n, run) ==
    /\ run \in [0..n -> Splits(NameSet(path))]
    /\ run[0] = Unsplit /\ Split(d, path) = run[n]
    /\ \A i \in 1..n : run[i] = Attributed(d, run[i - 1], path[i])
LEMMA SplitRuns ==
    ASSUME NEW d, NEW path, NEW n \in Nat, DOMAIN path = 1..n
    PROVE  \E run : SplitsBy(d, path, n, run)
<1> DEFINE N == NameSet(path)
           U == Splits(N)
           step == [x \in (1..n) \X U |-> Attributed(d, x[2], path[x[1]])]
           After(f, s) == IF s = {} THEN Unsplit
                          ELSE Attributed(d, f[s \ {Max(s)}], path[Max(s)])
           Solves(f) == f = [s \in SUBSET DOMAIN path |-> After(f, s)]
<1>1. Unsplit \in U
  BY DEF Unsplit, Splits
<1>2. \A i \in 1..n : path[i].name \in N
  BY DEF NameSet
<1> HIDE DEF N, U
<1>3. step \in [(1..n) \X U -> U]
  <2>1. ASSUME NEW x \in (1..n) \X U  PROVE Attributed(d, x[2], path[x[1]]) \in U
    <3>1. x[1] \in 1..n /\ x[2] \in U
      OBVIOUS
    <3> QED
      BY <1>2, <3>1, AttributedIn DEF U
  <2> QED
    BY <2>1
<1>4. \A i \in 1..n, w \in U : step[<<i, w>>] = Attributed(d, w, path[i])
  OBVIOUS
<1> HIDE DEF step
<1>5. \A s \in SUBSET (1..n) : s # {} =>
          Max(s) \in 1..n /\ s \ {Max(s)} \in SUBSET (1..n)
  BY MaxOfPositions
<1>6. \E f : Solves(f)
  <2>1. PICK it \in [SUBSET (1..n) -> U] : FoldEquation(n, Unsplit, step, it)
    BY <1>1, <1>3, FoldExists
  <2>2. \A s \in SUBSET (1..n) : it[s] = After(it, s)
    BY <1>4, <1>5, <2>1 DEF FoldEquation
  <2> HIDE DEF After
  <2>3. it = [s \in SUBSET (1..n) |-> After(it, s)]
    BY <2>1, <2>2
  <2> QED
    BY <2>3
<1>7. PICK it : it = CHOOSE f : Solves(f)
  OBVIOUS
<1>8. Split(d, path) = it[DOMAIN path]
  BY <1>7, Zenon DEF Split, FoldLeft, MapThenFoldSet, Unsplit
<1>9. Solves(it)
  BY <1>6, <1>7, Zenon
<1>10. \A s \in SUBSET (1..n) : it[s] = After(it, s)
  <2> HIDE DEF After
  <2> QED
    BY <1>9
<1>11. FoldWithin(n, U, Unsplit, step, it)
  <2>1. it[{}] = Unsplit
    BY <1>10
  <2>2. \A s \in SUBSET (1..n) : s # {} /\ it[s \ {Max(s)}] \in U =>
           it[s] = step[<<Max(s), it[s \ {Max(s)}]>>]
    BY <1>4, <1>5, <1>10
  <2> QED
    BY <2>1, <2>2 DEF FoldWithin
<1>12. PICK run \in [0..n -> U] : StepByStep(n, Unsplit, step, run) /\ it[1..n] = run[n]
  <2>1. FoldsTo(n, U, Unsplit, step, it[1..n])
    BY <1>1, <1>3, <1>11, FoldRuns
  <2> QED
    BY <2>1, Zenon DEF FoldsTo
<1>13. \A i \in 1..n : run[i] = Attributed(d, run[i - 1], path[i])
  <2>1. \A i \in 1..n : i - 1 \in 0..n
    OBVIOUS
  <2> QED
    BY <1>4, <1>12, <2>1 DEF StepByStep
<1> QED
  BY <1>8, <1>12, <1>13 DEF StepByStep, U, N, SplitsBy

LEMMA SplitTyped ==
    ASSUME NEW d, NEW T, NEW path \in Seq(T)
    PROVE  Split(d, path) \in Splits(NameSet(path))
<1>1. PICK n \in Nat : n = Len(path) /\ DOMAIN path = 1..n
  OBVIOUS
<1>2. PICK run : SplitsBy(d, path, n, run)
  BY <1>1, SplitRuns
<1> QED
  BY <1>2 DEF SplitsBy

LEMMA SplitEmpty == ASSUME NEW d  PROVE Split(d, <<>>) = Unsplit
<1>1. DOMAIN <<>> = 1..0 /\ 0 \in Nat
  OBVIOUS
<1>2. PICK run : SplitsBy(d, <<>>, 0, run)
  BY <1>1, SplitRuns
<1> QED
  BY <1>2 DEF SplitsBy

LEMMA SplitLonger ==
    ASSUME NEW d, NEW path, NEW longer, NEW n \in Nat, DOMAIN path = 1..n,
           DOMAIN longer = 1..n + 1, \A i \in 1..n : longer[i] = path[i]
    PROVE  Split(d, longer) = Attributed(d, Split(d, path), longer[n + 1])
<1>4. PICK run : SplitsBy(d, path, n, run)
  BY SplitRuns
<1>5. PICK far : SplitsBy(d, longer, n + 1, far)
  <2>1. n + 1 \in Nat
    OBVIOUS
  <2> QED
    BY <2>1, SplitRuns
<1> DEFINE Same == {i \in Nat : i <= n => far[i] = run[i]}
<1>6. 0 \in Same
  BY <1>4, <1>5 DEF SplitsBy
<1>7. ASSUME NEW i \in Nat, i \in Same  PROVE i + 1 \in Same
  <2>1. ASSUME i + 1 <= n  PROVE far[i + 1] = run[i + 1]
    <3>1. i + 1 \in 1..n /\ i + 1 \in 1..n + 1 /\ (i + 1) - 1 = i /\ i <= n
      BY <2>1
    <3>2. far[i + 1] = Attributed(d, far[i], longer[i + 1])
      BY <1>5, <3>1 DEF SplitsBy
    <3>3. run[i + 1] = Attributed(d, run[i], path[i + 1])
      BY <1>4, <3>1 DEF SplitsBy
    <3> QED
      BY <1>7, <3>1, <3>2, <3>3
  <2> QED
    BY <2>1
<1> HIDE DEF Same
<1>8. n \in Same
  BY <1>6, <1>7, CountingUp
<1>9. far[n] = run[n]
  BY <1>8 DEF Same
<1>10. n + 1 \in 1..n + 1 /\ (n + 1) - 1 = n
  OBVIOUS
<1>11. far[n + 1] = Attributed(d, far[n], longer[n + 1])
  BY <1>5, <1>10 DEF SplitsBy
<1> QED
  BY <1>4, <1>5, <1>9, <1>11 DEF SplitsBy

LEMMA SplitAppend ==
    ASSUME NEW d, NEW T, NEW path \in Seq(T), NEW e
    PROVE  Split(d, Append(path, e)) = Attributed(d, Split(d, path), e)
<1>1. PICK n \in Nat : n = Len(path) /\ DOMAIN path = 1..n
  OBVIOUS
<1>2. PICK longer : longer = Append(path, e)
  OBVIOUS
<1>3. /\ n \in Nat /\ DOMAIN longer = 1..n + 1 /\ longer[n + 1] = e
      /\ \A i \in 1..n : longer[i] = path[i]
  BY <1>1, <1>2
<1>4. Split(d, longer) = Attributed(d, Split(d, path), longer[n + 1])
  BY <1>1, <1>3, SplitLonger
<1> QED
  BY <1>2, <1>3, <1>4

\* What a step takes from its element.
SharedFields == {"id", "kind", "next", "fault", "default", "branches", "after", "target", "items"}
LEMMA StepIs ==
    ASSUME NEW b, NEW e
    PROVE  LET s == FlowStep(b, e) IN
           /\ s.id = e.name /\ s.kind = StepKind(e) /\ s.next = e.next /\ s.fault = e.fault
           /\ s.default = e.default /\ s.branches = e.rules /\ s.after = e.after /\ s.target = e.target
           /\ s.items = e.items
<1> DEFINE s == [Step EXCEPT !.id = e.name, !.kind = StepKind(e), !.next = e.next,
                !.fault = e.fault, !.default = e.default, !.branches = e.rules,
                !.after = e.after, !.target = e.target, !.inputs = e.inputs,
                !.items = e.items]
<1>1. /\ s.id = e.name /\ s.kind = StepKind(e) /\ s.next = e.next /\ s.fault = e.fault
      /\ s.default = e.default /\ s.branches = e.rules /\ s.after = e.after /\ s.target = e.target
      /\ s.items = e.items
      /\ SharedFields \subseteq DOMAIN s
  BY DEF Step, SharedFields
<1> HIDE DEF s
<1>2. \A f \in SharedFields :
        /\ RecordStep(b, e, s)[f] = s[f]
        /\ [s EXCEPT !.action = e.action][f] = s[f]
        /\ [s EXCEPT !.object = e.object, !.inputs = <<>>][f] = s[f]
        /\ [s EXCEPT !.action = "processor"][f] = s[f]
  BY <1>1 DEF RecordStep, SharedFields
<1>3. FlowStep(b, e) \in {RecordStep(b, e, s), [s EXCEPT !.action = e.action],
                          [s EXCEPT !.object = e.object, !.inputs = <<>>],
                          [s EXCEPT !.action = "processor"], s}
  BY Zenon DEF FlowStep, s
<1>4. \A f \in SharedFields : FlowStep(b, e)[f] = s[f]
  BY <1>2, <1>3
<1> QED
  BY <1>1, <1>4 DEF SharedFields

\* The elements an org runs are all steps of the model.
RunKinds == DmlKinds \cup {"decisions", "loops", "subflows", "assignments", "recordLookups",
                           "actionCalls", "customErrors"}
LEMMA RunKindsAreSteps ==
    ASSUME NEW e, e.kind \in RunKinds
    PROVE  /\ e.kind \in ToSet(ElementTypes) /\ StepKind(e) # None
           /\ StepKind(e) = "decision" <=> e.kind = "decisions"
           /\ e.kind = "loops" => StepKind(e) = "loop"
           /\ e.kind = "subflows" => StepKind(e) = "call_process"
           /\ \/ StepKind(e) = LoggedKind([Element EXCEPT !.kind = e.kind])
              \/ /\ LoggedKind([Element EXCEPT !.kind = e.kind]) = "call_code"
                 /\ StepKind(e) \in {"call_process", "call_action", "notify"}
<1>1. e.kind \in ToSet(ElementTypes)
  <2>1. /\ DOMAIN ElementTypes = 1..18
        /\ ElementTypes[1] = "actionCalls" /\ ElementTypes[3] = "assignments"
        /\ ElementTypes[5] = "customErrors" /\ ElementTypes[6] = "decisions"
        /\ ElementTypes[7] = "loops" /\ ElementTypes[9] = "recordCreates"
        /\ ElementTypes[10] = "recordDeletes" /\ ElementTypes[11] = "recordLookups"
        /\ ElementTypes[13] = "recordUpdates" /\ ElementTypes[16] = "subflows"
    BY DEF ElementTypes
  <2>2. {1, 3, 5, 6, 7, 9, 10, 11, 13, 16} \subseteq 1..18
    OBVIOUS
  <2> QED
    BY <2>1, <2>2 DEF ToSet, RunKinds, DmlKinds
<1>2. PICK x : x = [Element EXCEPT !.kind = e.kind]
  OBVIOUS
<1>3. x.kind = e.kind
  BY <1>2 DEF Element
<1>4. CASE e.kind = "actionCalls"
  <2>1. LoggedKind(x) = "call_code"
    BY <1>3, <1>4 DEF LoggedKind
  <2>2. StepKind(e) \in {"call_code", "call_process", "call_action", "notify"}
    BY <1>4 DEF StepKind
  <2> QED
    BY <1>1, <1>2, <1>4, <2>1, <2>2 DEF None
<1>5. CASE e.kind # "actionCalls"
  <2>1. e.kind \in RunKinds \ {"actionCalls"} /\ e.kind # "apexPluginCalls"
    BY <1>5 DEF RunKinds, DmlKinds
  <2>2. LoggedKind(x) = StepKind(x)
    BY <1>3, <2>1 DEF LoggedKind
  <2>3. /\ StepKind(e) = StepKind(x) /\ StepKind(e) # None
        /\ StepKind(e) = "decision" <=> e.kind = "decisions"
        /\ e.kind = "loops" => StepKind(e) = "loop"
        /\ e.kind = "subflows" => StepKind(e) = "call_process"
    BY <1>3, <2>1 DEF StepKind, RunKinds, DmlKinds, None
  <2> QED
    BY <1>1, <1>2, <2>2, <2>3
<1> QED
  BY <1>4, <1>5

LEMMA ElementsAreSteps ==
    ASSUME NEW b, WellFormed(b), NEW e \in ToSet(b.elements), e.kind \in RunKinds
    PROVE  /\ e.name \in Ids(FlowDefinition(b))
           /\ StepNamed(FlowDefinition(b), e.name) = FlowStep(b, e)
<1>1. /\ StepNamed(FlowDefinition(b), e.name) = FlowStep(b, e)
      /\ FlowStep(b, e) \in ToSet(FlowDefinition(b).steps)
  BY RunKindsAreSteps, NamedElement
<1>2. FlowStep(b, e).id = e.name
  BY StepHasName
<1> QED
  BY <1>1, <1>2 DEF Ids

LEMMA StepsAreElements ==
    ASSUME NEW b, WellFormed(b), NEW a \in Ids(FlowDefinition(b))
    PROVE  \E x \in ToSet(b.elements) :
              x.name = a /\ StepNamed(FlowDefinition(b), a) = FlowStep(b, x)
<1>1. FlowDefinition(b).steps = Steps(b)
  BY DEF FlowDefinition
<1>2. ToSet(Steps(b)) = {FlowStep(b, x) : x \in {y \in ToSet(b.elements) :
                              y.kind \in ToSet(ElementTypes) /\ StepKind(y) # None}}
  BY StepsOf DEF WellFormed
<1>3. PICK s \in ToSet(Steps(b)) : s.id = a
  BY <1>1 DEF Ids
<1>4. PICK x \in ToSet(b.elements) :
          x.kind \in ToSet(ElementTypes) /\ StepKind(x) # None /\ s = FlowStep(b, x)
  BY <1>2, <1>3
<1>5. x.name = a
  BY <1>3, <1>4, StepHasName
<1> QED
  BY <1>4, <1>5, NamedElement

\* A log of an interview as the model of its flow allows it, as far as it came:
\* each element visited led to the next, and the outcomes logged of a decision
\* met once are those it was left by.
Told(d, rules, a, c) ==
    StepNamed(d, a).kind = "decision" => Expected(d, rules, StepNamed(d, a)) \in {None, c}
Allowed(d, first, t, visited) ==
    /\ \A i \in DOMAIN visited : visited[i] \in Ids(d) /\ visited[i] \in NameSet(t.path)
    /\ visited # <<>> => first # None /\ visited[1] = first
    /\ \A i \in 1..Len(visited) - 1 :
          /\ Follows(d, visited[i], visited[i + 1])
          /\ Revisited(t, visited[i]) \/ Told(d, t.rules, visited[i], visited[i + 1])
TargetsMatch(d, t) ==
    \A c \in t.calls : c[1] \in Ids(d) => StepNamed(d, c[1]).target \in {None, c[2]}
Good(b, t) ==
    LET d == FlowDefinition(b)
        w == Split(d, t.path) IN
    /\ Allowed(d, b.next, t, w.visited)
    /\ KindsAgree(d, t.path)
    /\ TargetsMatch(d, t)
    /\ WritesMatch(d, t, w.nested)

\* Where such an interview may go on to.
MayGo(d, first, rules, visited, c) ==
    \/ visited = <<>> /\ c = first
    \/ /\ visited # <<>> /\ Follows(d, visited[Len(visited)], c)
       /\ Told(d, rules, visited[Len(visited)], c)

\* What an element of the flow g adds to the log of its interview.
Outcomes(e) == {e.rules[i].name : i \in DOMAIN e.rules}
KeepsRules(names, t, u) ==
    \A n : n \notin names =>
        /\ n \in DOMAIN u.rules <=> n \in DOMAIN t.rules
        /\ n \in DOMAIN t.rules => u.rules[n] = t.rules[n]
Adds(g, e, t, u) ==
    /\ u.path = Append(t.path, [name |-> e.name, kind |-> e.kind])
    /\ u.calls \subseteq t.calls \cup {<<e.name, e.target>>}
    /\ ToSet(u.dml) \subseteq ToSet(t.dml) \cup
          (IF e.kind \in DmlKinds THEN {<<StepKind(e), TargetObject(g, e), e.name>>} ELSE {})
    /\ KeepsRules(Outcomes(e), t, u)

LEMMA KindsGrow ==
    ASSUME NEW d, NEW T, NEW path \in Seq(T), KindsAgree(d, path), NEW x,
           x.name \in Ids(d) =>
               LET kind == StepNamed(d, x.name).kind
                   logged == LoggedKind([Element EXCEPT !.kind = x.kind]) IN
               \/ kind = logged
               \/ logged = "call_code" /\ kind \in {"call_process", "call_action", "notify"}
    PROVE  KindsAgree(d, Append(path, x))
<1>1. ToSet(Append(path, x)) = ToSet(path) \cup {x}
  <2>1. PICK n \in Nat : n = Len(path) /\ DOMAIN path = 1..n
    OBVIOUS
  <2>2. PICK q : q = Append(path, x)
    OBVIOUS
  <2>3. DOMAIN q = 1..n + 1 /\ q[n + 1] = x /\ \A i \in 1..n : q[i] = path[i]
    BY <2>1, <2>2
  <2>4. \A i : i \in 1..n + 1 <=> i \in 1..n \/ i = n + 1
    OBVIOUS
  <2> QED
    BY <2>1, <2>2, <2>3, <2>4 DEF ToSet
<1> QED
  BY <1>1 DEF KindsAgree

\* The path only grows.
LEMMA PathGrows ==
    ASSUME NEW T, NEW t, NEW u, NEW x, t.path \in Seq(T), u.path = Append(t.path, x)
    PROVE  /\ \A a : Revisited(t, a) => Revisited(u, a)
           /\ x.name \in NameSet(t.path) => Revisited(u, x.name)
           /\ NameSet(u.path) = NameSet(t.path) \cup {x.name}
<1>1. PICK n \in Nat : n = Len(t.path) /\ DOMAIN t.path = 1..n
  OBVIOUS
<1>2. /\ DOMAIN u.path = 1..n + 1 /\ u.path[n + 1] = x
      /\ \A i \in 1..n : u.path[i] = t.path[i]
  BY <1>1
<1>3. 1..n \subseteq 1..n + 1 /\ n + 1 \in 1..n + 1 /\ \A i \in 1..n : i # n + 1
  OBVIOUS
<1>4. \A i \in 1..n + 1 : i \in 1..n \/ i = n + 1
  OBVIOUS
<1> QED
  BY <1>1, <1>2, <1>3, <1>4 DEF Revisited, NameSet

\* Rules an element does not judge tell what they told.
LEMMA ToldKept ==
    ASSUME NEW d, NEW a, NEW c, NEW names, NEW t, NEW u, KeepsRules(names, t, u),
           \A i \in DOMAIN StepNamed(d, a).branches : StepNamed(d, a).branches[i].name \notin names,
           Told(d, t.rules, a, c)
    PROVE  Told(d, u.rules, a, c)
<1>1. PICK s : s = StepNamed(d, a)
  OBVIOUS
<1>2. \A i \in DOMAIN s.branches :
        /\ s.branches[i].name \in DOMAIN u.rules <=> s.branches[i].name \in DOMAIN t.rules
        /\ s.branches[i].name \in DOMAIN t.rules =>
              u.rules[s.branches[i].name] = t.rules[s.branches[i].name]
  BY <1>1 DEF KeepsRules
<1>3. {i \in DOMAIN s.branches : s.branches[i].name \in DOMAIN u.rules /\ u.rules[s.branches[i].name]}
        = {i \in DOMAIN s.branches : s.branches[i].name \in DOMAIN t.rules /\ t.rules[s.branches[i].name]}
  BY <1>2
<1>4. Expected(d, u.rules, s) = Expected(d, t.rules, s)
  BY <1>3, Zenon DEF Expected
<1> QED
  BY <1>1, <1>4 DEF Told

\* An element of the interview's own flow is visited.
Visits(b, t, u, e) ==
    LET w == Split(FlowDefinition(b), t.path)
        z == Split(FlowDefinition(b), u.path) IN
    /\ Good(b, u)
    /\ z.visited = Append(w.visited, e.name)
    /\ z.visited # <<>> /\ z.visited[Len(z.visited)] = e.name
    /\ e.kind = "subflows" => z.calling
LEMMA GoodOwn ==
    ASSUME NEW b, WellFormed(b), NEW T, NEW t, NEW u, t.path \in Seq(T),
           NEW e \in ToSet(b.elements), e.kind \in RunKinds, Good(b, t), Adds(b, e, t, u),
           MayGo(FlowDefinition(b), b.next, t.rules, Split(FlowDefinition(b), t.path).visited, e.name)
    PROVE  Visits(b, t, u, e)
<1>1. PICK d : d = FlowDefinition(b)
  OBVIOUS
<1>2. PICK x : x = [name |-> e.name, kind |-> e.kind]
  OBVIOUS
<1>3. PICK w, v, N : w = Split(d, t.path) /\ w \in Splits(N) /\ v = w.visited /\ v \in Seq(N)
  BY SplitTyped DEF Splits
<1>4. PICK z : z = Split(d, u.path)
  OBVIOUS
<1>5. x.name = e.name /\ x.kind = e.kind /\ u.path = Append(t.path, x)
  BY <1>2 DEF Adds
<1>6. e.name \in Ids(d) /\ StepNamed(d, e.name) = FlowStep(b, e)
  BY <1>1, ElementsAreSteps
<1>7. z = Attributed(d, w, x)
  BY <1>3, <1>4, <1>5, SplitAppend
<1>8. z = [w EXCEPT !.visited = Append(@, e.name),
                    !.calling = StepNamed(d, e.name).kind \in {"call_process", "call_code"}]
  BY <1>5, <1>6, <1>7, Zenon DEF Attributed
<1>9. z.visited = Append(v, e.name) /\ z.nested = w.nested
      /\ (StepNamed(d, e.name).kind = "call_process" => z.calling)
  BY <1>3, <1>8 DEF Splits
<1>10. PICK n \in Nat : n = Len(v) /\ DOMAIN v = 1..n
  BY <1>3
<1>11. /\ DOMAIN z.visited = 1..n + 1 /\ Len(z.visited) = n + 1 /\ z.visited[n + 1] = e.name
       /\ \A i \in 1..n : z.visited[i] = v[i]
  BY <1>3, <1>9, <1>10
<1>12. e.name # None /\ b.next = e.name => b.next # None
  OBVIOUS
<1>13. Allowed(d, b.next, t, v) /\ KindsAgree(d, t.path) /\ TargetsMatch(d, t)
       /\ WritesMatch(d, t, w.nested)
  BY <1>1, <1>3 DEF Good
<1>14. KeepsRules(Outcomes(e), t, u)
  BY DEF Adds
<1>15. ASSUME NEW a \in Ids(d), a \in NameSet(t.path), NEW c,
              Revisited(t, a) \/ Told(d, t.rules, a, c)
       PROVE  Revisited(u, a) \/ Told(d, u.rules, a, c)
  <2>1. CASE Revisited(t, a) \/ a = e.name
    <3>1. /\ Revisited(t, a) => Revisited(u, a)
          /\ x.name \in NameSet(t.path) => Revisited(u, x.name)
      BY <1>5, PathGrows
    <3> QED
      BY <1>5, <1>15, <2>1, <3>1
  <2>2. CASE a # e.name /\ Told(d, t.rules, a, c)
    <3>1. PICK y \in ToSet(b.elements) : y.name = a /\ StepNamed(d, a) = FlowStep(b, y)
      BY <1>1, <1>15, StepsAreElements
    <3>2. StepNamed(d, a).branches = y.rules
      BY <3>1, StepIs
    <3>3. \A i \in DOMAIN y.rules : y.rules[i].name \notin Outcomes(e)
      BY <2>2, <3>1 DEF WellFormed, Outcomes
    <3> QED
      BY <1>14, <2>2, <3>2, <3>3, ToldKept
  <2> QED
    BY <1>15, <2>1, <2>2
<1>16. Allowed(d, b.next, u, z.visited)
  <2>1. NameSet(u.path) = NameSet(t.path) \cup {e.name}
    <3>1. NameSet(u.path) = NameSet(t.path) \cup {x.name}
      BY <1>5, PathGrows
    <3> QED
      BY <1>5, <3>1
  <2>2. \A i \in 1..n : v[i] \in Ids(d) /\ v[i] \in NameSet(t.path)
    BY <1>10, <1>13 DEF Allowed
  <2>3. \A i \in 1..n + 1 : z.visited[i] \in Ids(d) /\ z.visited[i] \in NameSet(u.path)
    <3>1. \A i \in 1..n + 1 : i \in 1..n \/ i = n + 1
      OBVIOUS
    <3> QED
      BY <1>6, <1>11, <2>1, <2>2, <3>1
  <2>4. b.next # None /\ z.visited[1] = b.next
    <3>1. CASE v = <<>>
      <4>1. n = 0 /\ e.name = b.next
        BY <1>1, <1>3, <1>10, <3>1 DEF MayGo
      <4> QED
        BY <1>11, <4>1 DEF WellFormed
    <3>2. CASE v # <<>>
      <4>1. 1 \in 1..n
        BY <1>3, <1>10, <3>2
      <4> QED
        BY <1>11, <1>13, <3>2, <4>1 DEF Allowed
    <3> QED
      BY <3>1, <3>2
  <2>5. ASSUME NEW i \in 1..n
        PROVE  LET a == z.visited[i]
                   c == z.visited[i + 1] IN
               Follows(d, a, c) /\ (Revisited(u, a) \/ Told(d, u.rules, a, c))
    <3>1. PICK a, c : a = z.visited[i] /\ c = z.visited[i + 1]
      OBVIOUS
    <3>2. a = v[i] /\ a \in Ids(d) /\ a \in NameSet(t.path)
      BY <1>11, <2>2, <3>1
    <3>3. Follows(d, a, c) /\ (Revisited(t, a) \/ Told(d, t.rules, a, c))
      <4>1. CASE i = n
        <5>1. c = e.name
          BY <1>11, <3>1, <4>1
        <5>2. v # <<>>
          BY <1>3, <1>10
        <5> QED
          BY <1>1, <1>3, <1>10, <3>2, <4>1, <5>1, <5>2 DEF MayGo
      <4>2. CASE i # n
        <5>1. i \in 1..n - 1 /\ i + 1 \in 1..n
          BY <4>2
        <5>2. c = v[i + 1]
          BY <1>11, <3>1, <5>1
        <5> QED
          BY <1>10, <1>13, <3>2, <5>1, <5>2 DEF Allowed
      <4> QED
        BY <4>1, <4>2
    <3> QED
      BY <1>15, <3>1, <3>2, <3>3
  <2>6. (n + 1) - 1 = n
    OBVIOUS
  <2> QED
    BY <1>11, <2>3, <2>4, <2>5, <2>6 DEF Allowed
<1>17. KindsAgree(d, u.path)
  <2>1. StepNamed(d, x.name).kind = StepKind(e)
    BY <1>5, <1>6, StepIs
  <2>2. LET logged == LoggedKind([Element EXCEPT !.kind = x.kind]) IN
        \/ StepNamed(d, x.name).kind = logged
        \/ logged = "call_code" /\ StepNamed(d, x.name).kind \in {"call_process", "call_action", "notify"}
    BY <1>5, <2>1, RunKindsAreSteps
  <2>3. KindsAgree(d, Append(t.path, x))
    BY <1>13, <2>2, KindsGrow
  <2> QED
    BY <1>5, <2>3
<1>18. TargetsMatch(d, u)
  <2>1. StepNamed(d, e.name).target = e.target
    BY <1>6, StepIs
  <2>2. u.calls \subseteq t.calls \cup {<<e.name, e.target>>}
    BY DEF Adds
  <2> QED
    BY <1>13, <2>1, <2>2 DEF TargetsMatch
<1>19. WritesMatch(d, u, z.nested)
  <2>1. ASSUME NEW y \in ToSet(u.dml)
        PROVE  \/ y[3] \in z.nested
               \/ y[3] \in Ids(d) /\ StepNamed(d, y[3]).kind = y[1] /\ StepNamed(d, y[3]).object = y[2]
    <3>1. CASE y \in ToSet(t.dml)
      BY <1>9, <1>13, <3>1 DEF WritesMatch
    <3>2. CASE y \notin ToSet(t.dml)
      <4>1. e.kind \in DmlKinds /\ y = <<StepKind(e), TargetObject(b, e), e.name>>
        BY <2>1, <3>2 DEF Adds
      <4>2. y[1] = StepKind(e) /\ y[2] = TargetObject(b, e) /\ y[3] = e.name
        BY <4>1
      <4>3. IsRecordKind(e.kind)
        BY <4>1 DEF IsRecordKind, DmlKinds
      <4> QED
        BY <1>6, <4>2, <4>3, RecordStepIs
    <3> QED
      BY <3>1, <3>2
  <2> QED
    BY <2>1 DEF WritesMatch
<1>20. Good(b, u)
  <2>1. /\ Allowed(FlowDefinition(b), b.next, u, Split(FlowDefinition(b), u.path).visited)
        /\ KindsAgree(FlowDefinition(b), u.path) /\ TargetsMatch(FlowDefinition(b), u)
        /\ WritesMatch(FlowDefinition(b), u, Split(FlowDefinition(b), u.path).nested)
    BY <1>1, <1>4, <1>16, <1>17, <1>18, <1>19
  <2> QED
    BY <2>1 DEF Good
<1>21. e.kind = "subflows" => z.calling
  <2>1. StepNamed(d, e.name).kind = StepKind(e)
    BY <1>6, StepIs
  <2>2. e.kind = "subflows" => StepKind(e) = "call_process"
    BY RunKindsAreSteps
  <2> QED
    BY <1>9, <2>1, <2>2
<1>22. z.visited # <<>>
  BY <1>11
<1> QED
  BY <1>1, <1>3, <1>4, <1>9, <1>11, <1>20, <1>21, <1>22 DEF Visits

\* An element of a subflow whose names are its own is not.
LEMMA GoodNested ==
    ASSUME NEW b, WellFormed(b), NEW T, NEW t, NEW u, t.path \in Seq(T), NEW g, NEW e,
           e.name \notin NamesIn(b), Outcomes(e) \cap NamesIn(b) = {},
           Good(b, t), Adds(g, e, t, u), Split(FlowDefinition(b), t.path).calling
    PROVE  LET w == Split(FlowDefinition(b), t.path)
               z == Split(FlowDefinition(b), u.path) IN
           Good(b, u) /\ z.visited = w.visited /\ z.calling
<1>1. PICK d : d = FlowDefinition(b)
  OBVIOUS
<1>2. PICK x : x = [name |-> e.name, kind |-> e.kind]
  OBVIOUS
<1>3. PICK w, v, N : w = Split(d, t.path) /\ w \in Splits(N) /\ v = w.visited /\ v \in Seq(N)
  BY SplitTyped DEF Splits
<1>4. PICK z : z = Split(d, u.path)
  OBVIOUS
<1>5. x.name = e.name /\ x.kind = e.kind /\ u.path = Append(t.path, x)
  BY <1>2 DEF Adds
<1>6. \A a \in Ids(d) : \E y \in ToSet(b.elements) : y.name = a /\ StepNamed(d, a) = FlowStep(b, y)
  BY <1>1, StepsAreElements
<1>7. \A y \in ToSet(b.elements) : y.name \in NamesIn(b) /\ \A i \in DOMAIN y.rules : y.rules[i].name \in NamesIn(b)
  BY DEF NamesIn
<1>8. e.name \notin Ids(d)
  BY <1>6, <1>7
<1>9. z = Attributed(d, w, x)
  BY <1>3, <1>4, <1>5, SplitAppend
<1>10. z = [w EXCEPT !.nested = @ \cup {e.name}]
  BY <1>1, <1>3, <1>5, <1>8, <1>9, Zenon DEF Attributed
<1>11. z.visited = v /\ z.nested = w.nested \cup {e.name} /\ (w.calling => z.calling)
  BY <1>3, <1>10 DEF Splits
<1>12. Allowed(d, b.next, t, v) /\ KindsAgree(d, t.path) /\ TargetsMatch(d, t)
       /\ WritesMatch(d, t, w.nested)
  BY <1>1, <1>3 DEF Good
<1>13. KeepsRules(Outcomes(e), t, u)
  BY DEF Adds
<1>14. ASSUME NEW a \in Ids(d), NEW c, Revisited(t, a) \/ Told(d, t.rules, a, c)
       PROVE  Revisited(u, a) \/ Told(d, u.rules, a, c)
  <2>1. Revisited(t, a) => Revisited(u, a)
    BY <1>5, PathGrows
  <2>2. \A i \in DOMAIN StepNamed(d, a).branches : StepNamed(d, a).branches[i].name \notin Outcomes(e)
    <3>1. PICK y \in ToSet(b.elements) : y.name = a /\ StepNamed(d, a) = FlowStep(b, y)
      BY <1>6
    <3>2. StepNamed(d, a).branches = y.rules
      BY <3>1, StepIs
    <3> QED
      BY <1>7, <3>1, <3>2
  <2> QED
    BY <1>13, <1>14, <2>1, <2>2, ToldKept
<1>15. Allowed(d, b.next, u, z.visited)
  <2>1. NameSet(u.path) = NameSet(t.path) \cup {x.name}
    BY <1>5, PathGrows
  <2>2. PICK n \in Nat : n = Len(v) /\ DOMAIN v = 1..n
    BY <1>3
  <2>3. \A i \in 1..n : v[i] \in Ids(d) /\ v[i] \in NameSet(u.path)
    BY <1>12, <2>1, <2>2 DEF Allowed
  <2>4. ASSUME NEW i \in 1..n - 1
        PROVE  Follows(d, v[i], v[i + 1]) /\ (Revisited(u, v[i]) \/ Told(d, u.rules, v[i], v[i + 1]))
    <3>1. v[i] \in Ids(d) /\ Follows(d, v[i], v[i + 1])
          /\ (Revisited(t, v[i]) \/ Told(d, t.rules, v[i], v[i + 1]))
      BY <1>12, <2>2, <2>3 DEF Allowed
    <3> QED
      BY <1>14, <3>1
  <2> QED
    BY <1>11, <1>12, <2>2, <2>3, <2>4 DEF Allowed
<1>16. KindsAgree(d, u.path)
  BY <1>5, <1>8, <1>12, KindsGrow
<1>17. TargetsMatch(d, u)
  <2>1. u.calls \subseteq t.calls \cup {<<e.name, e.target>>}
    BY DEF Adds
  <2> QED
    BY <1>8, <1>12, <2>1 DEF TargetsMatch
<1>18. WritesMatch(d, u, z.nested)
  <2>1. ASSUME NEW y \in ToSet(u.dml), y \notin ToSet(t.dml)  PROVE y[3] \in z.nested
    <3>1. y = <<StepKind(e), TargetObject(g, e), e.name>>
      BY <2>1 DEF Adds
    <3>2. y[3] = e.name
      BY <3>1
    <3> QED
      BY <1>11, <3>2
  <2> QED
    BY <1>11, <1>12, <2>1 DEF WritesMatch
<1>19. Good(b, u)
  <2>1. /\ Allowed(FlowDefinition(b), b.next, u, Split(FlowDefinition(b), u.path).visited)
        /\ KindsAgree(FlowDefinition(b), u.path) /\ TargetsMatch(FlowDefinition(b), u)
        /\ WritesMatch(FlowDefinition(b), u, Split(FlowDefinition(b), u.path).nested)
    BY <1>1, <1>4, <1>15, <1>16, <1>17, <1>18
  <2> QED
    BY <2>1 DEF Good
<1> QED
  BY <1>1, <1>3, <1>4, <1>11, <1>19

\* Of a log only these fields are judged.
SameLog(t, u) ==
    /\ u.flow = t.flow /\ u.path = t.path /\ u.rules = t.rules
    /\ u.calls = t.calls /\ u.dml = t.dml
LEMMA GoodSame == ASSUME NEW b, NEW t, NEW u, SameLog(t, u), Good(b, t)  PROVE Good(b, u)
<1>1. Allowed(FlowDefinition(b), b.next, u, Split(FlowDefinition(b), u.path).visited)
  BY DEF Good, SameLog, Allowed, Revisited
<1> QED
  BY <1>1 DEF Good, SameLog, TargetsMatch, WritesMatch

\* An interview about to begin has nothing to answer for.
LEMMA GoodEmpty == ASSUME NEW b, NEW f, NEW outer  PROVE Good(b, Trace(f, outer))
<1>1. PICK d, t, w : d = FlowDefinition(b) /\ t = Trace(f, outer) /\ w = Split(d, t.path)
  OBVIOUS
<1>2. t.path = <<>> /\ t.calls = {} /\ t.dml = <<>>
  BY <1>1 DEF Trace
<1>3. w.visited = <<>> /\ DOMAIN w.visited = {} /\ Len(w.visited) - 1 = -1
  BY <1>1, <1>2, SplitEmpty DEF Unsplit
<1>4. Allowed(d, b.next, t, w.visited)
  BY <1>3 DEF Allowed
<1>5. ToSet(t.path) = {} /\ ToSet(t.dml) = {}
  BY <1>2 DEF ToSet
<1>6. KindsAgree(d, t.path) /\ TargetsMatch(d, t) /\ WritesMatch(d, t, w.nested)
  BY <1>2, <1>5 DEF KindsAgree, TargetsMatch, WritesMatch
<1>7. /\ Allowed(FlowDefinition(b), b.next, t, Split(FlowDefinition(b), t.path).visited)
      /\ KindsAgree(FlowDefinition(b), t.path) /\ TargetsMatch(FlowDefinition(b), t)
      /\ WritesMatch(FlowDefinition(b), t, Split(FlowDefinition(b), t.path).nested)
  BY <1>1, <1>4, <1>6
<1> QED
  BY <1>1, <1>7 DEF Good

\* A log the model allows passes, or meets a decision twice.
LEMMA GoodPasses ==
    ASSUME NEW b, WellFormed(b), NEW T, NEW t, t.path \in Seq(T), Good(b, t)
    PROVE  LET d == FlowDefinition(b) IN
           \/ \E s \in ToSet(d.steps) : s.kind = "decision" /\ Revisited(t, s.id)
           \/ Verify(d, t) # "mismatch"
<1>1. PICK d : d = FlowDefinition(b)
  OBVIOUS
<1>2. PICK w, v, N : w = Split(d, t.path) /\ w \in Splits(N) /\ v = w.visited /\ v \in Seq(N)
  BY SplitTyped DEF Splits
<1>3. PICK n \in Nat : n = Len(v) /\ DOMAIN v = 1..n
  BY <1>2
<1>4. Allowed(d, b.next, t, v) /\ KindsAgree(d, t.path) /\ TargetsMatch(d, t)
      /\ WritesMatch(d, t, w.nested)
  BY <1>1, <1>2 DEF Good
<1>5. SUFFICES ASSUME ~\E s \in ToSet(d.steps) : s.kind = "decision" /\ Revisited(t, s.id)
               PROVE  Verify(d, t) # "mismatch"
  BY <1>1
<1>6. \A i \in 1..n : v[i] \in Ids(d)
  BY <1>3, <1>4 DEF Allowed
<1>7. ToSet(v) \subseteq Ids(d)
  BY <1>3, <1>6 DEF ToSet
<1>8. ASSUME NEW i \in 1..n - 1
      PROVE  Follows(d, v[i], v[i + 1]) /\ Told(d, t.rules, v[i], v[i + 1])
  <2>1. PICK a, c : a = v[i] /\ c = v[i + 1]
    OBVIOUS
  <2>2. i \in 1..n
    OBVIOUS
  <2>3. a \in Ids(d) /\ Follows(d, a, c) /\ (Revisited(t, a) \/ Told(d, t.rules, a, c))
    BY <1>3, <1>4, <1>6, <2>1, <2>2 DEF Allowed
  <2>4. PICK s \in ToSet(d.steps) : s.id = a /\ s = StepNamed(d, a)
    <3>1. \E s \in ToSet(d.steps) : s.id = a
      BY <2>3 DEF Ids
    <3> QED
      BY <3>1, Zenon DEF StepNamed
  <2>5. Told(d, t.rules, a, c)
    BY <1>5, <2>3, <2>4 DEF Told
  <2> QED
    BY <2>1, <2>3, <2>5
<1>9. \A pair \in Pairs(v) : Follows(d, pair[1], pair[2]) /\ Told(d, t.rules, pair[1], pair[2])
  BY <1>3, <1>8 DEF Pairs
<1>10. PathAllowed(d, v)
  <2>1. v # <<>> => v[1] = d.entry
    <3>1. b.next # None => d.entry = b.next
      BY <1>1 DEF FlowDefinition
    <3> QED
      BY <1>4, <3>1 DEF Allowed
  <2> QED
    BY <1>9, <2>1 DEF PathAllowed
<1>11. OutcomesMatch(d, v, t.rules)
  BY <1>9 DEF OutcomesMatch, Told
<1> QED
  BY <1>2, <1>4, <1>7, <1>10, <1>11 DEF Verify, TargetsMatch

\* Where an element leads is where the model lets it lead.
LEMMA LeadsFollow ==
    ASSUME NEW b, NEW e, StepNamed(FlowDefinition(b), e.name) = FlowStep(b, e), NEW a, a # None,
           \/ a \in {e.next, e.default, e.fault} \cup {e.rules[i].next : i \in DOMAIN e.rules}
           \/ StepKind(e) = "loop"
    PROVE  Follows(FlowDefinition(b), e.name, a)
<1>1. PICK s : s = StepNamed(FlowDefinition(b), e.name)
  OBVIOUS
<1>2. /\ s.kind = StepKind(e) /\ s.next = e.next /\ s.fault = e.fault
      /\ s.default = e.default /\ s.branches = e.rules
  BY <1>1, StepIs
<1>3. \A i \in DOMAIN e.rules : e.rules[i].next \in {br.next : br \in ToSet(s.branches)}
  BY <1>2 DEF ToSet
<1>4. StepKind(e) = "loop" \/ a \in Successors(s)
  BY <1>2, <1>3 DEF Successors, Present
<1> QED
  BY <1>1, <1>2, <1>4 DEF Follows

\* A decision's entry says which of its outcomes held as far as it looked.
Judges(e, i, was, rules) ==
    rules = [n \in Judged(e, i) \cup DOMAIN was |->
               IF n \in Judged(e, i) THEN i \in DOMAIN e.rules /\ e.rules[i].name = n ELSE was[n]]

\* The outcome a decision is left by is the first that the log has true.
LEMMA OutcomeTold ==
    ASSUME NEW b, WellFormed(b), NEW e \in ToSet(b.elements),
           StepNamed(FlowDefinition(b), e.name) = FlowStep(b, e),
           NEW i \in 1..3, i <= Len(e.rules) + 1, NEW was, NEW rules,
           Judges(e, i, was, rules)
    PROVE  Told(FlowDefinition(b), rules, e.name,
                IF i \in DOMAIN e.rules THEN e.rules[i].next ELSE e.default)
<1>1. PICK s : s = StepNamed(FlowDefinition(b), e.name)
  OBVIOUS
<1>2. s.default = e.default /\ s.branches = e.rules
  BY <1>1, StepIs
<1>3. PICK n \in Nat : n = Len(e.rules) /\ DOMAIN e.rules = 1..n
  BY DEF WellFormed
<1>4. Judged(e, i) = {e.rules[j].name : j \in 1..i \cap 1..n}
  BY <1>3 DEF Judged
<1>5. \A j, k \in 1..n : e.rules[j].name = e.rules[k].name => j = k
  <2>1. \A k \in DOMAIN e.rules : \A j \in DOMAIN e.rules :
           e.rules[j].name = e.rules[k].name => j = k
    BY DEF WellFormed
  <2> QED
    BY <1>3, <2>1
<1> DEFINE true == {j \in DOMAIN s.branches : s.branches[j].name \in DOMAIN rules /\ rules[s.branches[j].name]}
<1>6. \A j \in 1..n : j \in true <=> e.rules[j].name \in DOMAIN rules /\ rules[e.rules[j].name]
  BY <1>2, <1>3
<1>7. \A j \in 1..n : j <= i => (j \in true <=> j = i)
  <2>1. ASSUME NEW j \in 1..n, j <= i  PROVE j \in true <=> j = i
    <3>1. e.rules[j].name \in Judged(e, i)
      BY <1>4, <2>1
    <3>2. e.rules[j].name \in DOMAIN rules
          /\ rules[e.rules[j].name] = (i \in DOMAIN e.rules /\ e.rules[i].name = e.rules[j].name)
      BY <3>1 DEF Judges
    <3>3. i \in DOMAIN e.rules /\ e.rules[i].name = e.rules[j].name <=> j = i
      BY <1>3, <1>5
    <3> QED
      BY <1>6, <3>2, <3>3
  <2> QED
    BY <2>1
<1>8. true \subseteq 1..n
  BY <1>2, <1>3
<1>9. Expected(FlowDefinition(b), rules, s) = IF true = {} THEN s.default ELSE s.branches[Min(true)].next
  BY Zenon DEF Expected
<1> HIDE DEF true
<1>10. CASE i \in 1..n
  <2>1. i \in true /\ \A j \in true : i <= j
    BY <1>7, <1>8, <1>10
  <2>2. Min(true) = i
    <3>1. \A j \in true : j \in Int /\ (j <= i => j = i)
      BY <1>8, <2>1
    <3>2. \A m \in true : (\A y \in true : m <= y) => m = i
      BY <2>1, <3>1
    <3> QED
      BY <2>1, <3>2, Zenon DEF Min
  <2>3. Expected(FlowDefinition(b), rules, s) = e.rules[i].next
    BY <1>2, <1>9, <2>1, <2>2
  <2> QED
    BY <1>1, <1>3, <1>10, <2>3 DEF Told
<1>11. CASE i \notin 1..n
  <2>1. \A j \in 1..n : j <= i /\ j # i
    BY <1>3, <1>11
  <2>2. true = {}
    BY <1>7, <1>8, <2>1
  <2>3. Expected(FlowDefinition(b), rules, s) = e.default
    BY <1>2, <1>9, <2>2
  <2> QED
    BY <1>1, <1>3, <1>11, <2>3 DEF Told
<1> QED
  BY <1>10, <1>11

\* Flows of the org that call nobody whose names are theirs; ...
Judgeable(flows, f) == f \in DOMAIN flows /\ CallsApart(flows, f)

\* ... logs as the org writes them; ...
Shaped(t) ==
    /\ DOMAIN t = DOMAIN Trace(None, 0)
    /\ \E T : t.path \in Seq(T)
    /\ \E T : t.dml \in Seq(T)
LogFaithful(flows, logs) ==
    \A i \in 1..Len(logs) :
        /\ Shaped(logs[i])
        /\ Judgeable(flows, logs[i].flow) => Good(flows[logs[i].flow], logs[i])

\* ... an interview's first frame, which waits for the element visited last or
\* goes on to where the model lets it; ...
Awaits(b, t, r) ==
    LET d == FlowDefinition(b)
        v == Split(d, t.path).visited IN
    /\ r.busy => v # <<>> /\ v[Len(v)] = r.at /\ StepNamed(d, r.at).kind # "decision"
    /\ ~r.busy /\ r.at # None => MayGo(d, b.next, t.rules, v, r.at)

\* ... and the frames of its subflows, which run while a call is open.
Reached(flows, f, g) == \A R \in SUBSET DOMAIN flows : Within(flows, f, R) => g \in R
PlaceOK(flows, t, caller, r) ==
    /\ r.iv # caller =>
          /\ r.flow = t.flow
          /\ Judgeable(flows, t.flow) => Awaits(flows[t.flow], t, r)
    /\ r.iv = caller =>
          /\ t.flow \in DOMAIN flows => Reached(flows, t.flow, r.flow)
          /\ Judgeable(flows, t.flow) => Split(FlowDefinition(flows[t.flow]), t.path).calling
StackFaithful(flows, logs, frames) ==
    /\ Len(frames) > 0 => ~frames[1].busy
    /\ \A j, k \in 1..Len(frames) : j <= k => frames[j].iv <= frames[k].iv
    /\ \A k \in 2..Len(frames) :
          /\ k < Len(frames) \/ frames[k].fire # {} \/ frames[k].failing => frames[k].busy
          /\ PlaceOK(flows, logs[frames[k].iv], frames[k - 1].iv, frames[k])
FaithInv == LogFaithful(org.flows, traces) /\ StackFaithful(org.flows, traces, tx)

\* What a subflow's element changes of its interview.
SameCaller(flows, t, u) ==
    Judgeable(flows, t.flow) =>
        LET d == FlowDefinition(flows[t.flow]) IN
        Split(d, u.path).visited = Split(d, t.path).visited /\ Split(d, u.path).calling

LEMMA PlaceKept ==
    ASSUME NEW flows, NEW t, NEW u, u.flow = t.flow, SameCaller(flows, t, u),
           NEW c, NEW r, r.busy, PlaceOK(flows, t, c, r)
    PROVE  PlaceOK(flows, u, c, r)
BY DEF PlaceOK, SameCaller, Awaits

LEMMA PlaceSame ==
    ASSUME NEW flows, NEW t, NEW u, SameLog(t, u), NEW c, NEW r, NEW s, PlaceOK(flows, t, c, r),
           s.iv = r.iv, s.flow = r.flow, s.at = r.at, s.busy = r.busy
    PROVE  PlaceOK(flows, u, c, s)
BY DEF PlaceOK, SameLog, Awaits

\* One interview's log grows.
LEMMA LogKept ==
    ASSUME NEW flows, NEW S, NEW logs \in Seq(S), NEW j \in 1..Len(logs), NEW u, NEW after,
           after = [logs EXCEPT ![j] = u], LogFaithful(flows, logs),
           Shaped(u), Judgeable(flows, u.flow) => Good(flows[u.flow], u)
    PROVE  LogFaithful(flows, after)
<1>1. Len(after) = Len(logs) /\ \A i \in 1..Len(logs) : after[i] = IF i = j THEN u ELSE logs[i]
  OBVIOUS
<1> QED
  BY <1>1 DEF LogFaithful

\* The frames behind the innermost are where they were.
LEMMA BehindKept ==
    ASSUME NotedInv, FaithInv, NEW n \in Nat, n = Len(tx), n >= 2,
           NEW u, NEW after, after = [traces EXCEPT ![tx[n].iv] = u], u.flow = traces[tx[n].iv].flow,
           tx[n].iv = tx[n - 1].iv => SameCaller(org.flows, traces[tx[n].iv], u)
    PROVE  \A k \in 2..n - 1 :
              tx[k].busy /\ PlaceOK(org.flows, after[tx[k].iv], tx[k - 1].iv, tx[k])
<1>1. PICK T : traces \in Seq(T)
  BY DEF NotedInv, LogOK
<1>2. PICK m \in Nat : m = Len(traces) /\ DOMAIN traces = 1..m
  BY <1>1
<1>3. \A k \in 2..n : tx[k].iv \in 1..m
  BY <1>2 DEF NotedInv, StackOK
<1>4. SUFFICES ASSUME NEW k \in 2..n - 1
               PROVE  tx[k].busy /\ PlaceOK(org.flows, after[tx[k].iv], tx[k - 1].iv, tx[k])
  OBVIOUS
<1>5. k \in 2..n /\ k < n /\ k \in 1..n /\ n - 1 \in 1..n /\ n \in 1..n /\ k <= n - 1 /\ n \in 2..n
  OBVIOUS
<1>6. PICK i, j : i = tx[k].iv /\ j = tx[n].iv /\ i \in 1..m /\ j \in 1..m
  BY <1>3, <1>5
<1>7. tx[k].busy /\ PlaceOK(org.flows, traces[i], tx[k - 1].iv, tx[k])
  BY <1>5, <1>6 DEF FaithInv, StackFaithful
<1>8. CASE i # j
  <2>1. after[i] = traces[i]
    BY <1>2, <1>6, <1>8
  <2> QED
    BY <1>6, <1>7, <2>1
<1>9. CASE i = j
  <2>1. tx[k].iv <= tx[n - 1].iv /\ tx[n - 1].iv <= tx[n].iv
    BY <1>5 DEF FaithInv, StackFaithful
  <2>2. tx[n - 1].iv \in Nat
    <3>1. CASE n = 2
      BY <1>5, <3>1 DEF NotedInv, StackOK
    <3>2. CASE n # 2
      <4>1. n - 1 \in 2..n
        BY <3>2
      <4> QED
        BY <1>2, <1>3, <4>1
    <3> QED
      BY <3>1, <3>2
  <2>3. tx[n - 1].iv = tx[n].iv
    BY <1>2, <1>6, <1>9, <2>1, <2>2
  <2>4. after[i] = u
    BY <1>2, <1>6, <1>9
  <2>5. SameCaller(org.flows, traces[i], u) /\ u.flow = traces[i].flow
    BY <1>6, <1>9, <2>3
  <2>6. PlaceOK(org.flows, u, tx[k - 1].iv, tx[k])
    BY <1>7, <2>5, PlaceKept
  <2> QED
    BY <1>6, <1>7, <2>4, <2>6
<1> QED
  BY <1>8, <1>9

LEMMA InsideToo ==
    ASSUME NotedInv, tx # <<>>, top.flow # None \/ Len(tx) # 1
    PROVE  Len(tx) \in Nat /\ Len(tx) >= 2 /\ top.iv \in 1..Len(traces)
<1>1. PICK n \in Nat : n = Len(tx) /\ n # 0
  BY DEF NotedInv, StackOK
<1>2. n >= 2
  BY <1>1, Inside
<1>3. n \in 2..n
  BY <1>2
<1> QED
  BY <1>1, <1>2, <1>3 DEF NotedInv, StackOK, top

\* The innermost frame goes on.
LEMMA MovedFaith ==
    ASSUME NotedInv, FaithInv, tx # <<>>, top.flow # None \/ Len(tx) # 1, UNCHANGED org,
           NEW u, traces' = [traces EXCEPT ![top.iv] = u], Shaped(u), u.flow = traces[top.iv].flow,
           Judgeable(org.flows, u.flow) => Good(org.flows[u.flow], u),
           top.iv = tx[Len(tx) - 1].iv => SameCaller(org.flows, traces[top.iv], u),
           NEW r, tx' = [tx EXCEPT ![Len(tx)] = r], InPlace(top, r),
           PlaceOK(org.flows, u, tx[Len(tx) - 1].iv, r),
           r.fire # {} \/ r.failing => r.busy
    PROVE  FaithInv'
<1>1. PICK F : tx \in Seq(F)
  BY DEF NotedInv, StackOK
<1>2. PICK T : traces \in Seq(T)
  BY DEF NotedInv, LogOK
<1>3. PICK n \in Nat : n = Len(tx) /\ n >= 2 /\ top = tx[n]
  BY InsideToo DEF top
<1>4. top.iv \in 1..Len(traces)
  BY InsideToo
<1>5. PICK after : after = traces' /\ after = [traces EXCEPT ![tx[n].iv] = u]
  BY <1>3
<1>6. LogFaithful(org.flows, after)
  BY <1>2, <1>3, <1>4, <1>5, LogKept DEF FaithInv
<1>7. \A k \in 2..n - 1 : tx[k].busy /\ PlaceOK(org.flows, after[tx[k].iv], tx[k - 1].iv, tx[k])
  BY <1>3, <1>5, BehindKept
<1>8. after[r.iv] = u /\ r.iv = tx[n].iv
  BY <1>2, <1>3, <1>4, <1>5 DEF InPlace
<1>15. PICK st : st = tx'
  OBVIOUS
<1>9. st = tx' /\ Len(st) = n /\ \A k \in 1..n : st[k] = IF k = n THEN r ELSE tx[k]
  BY <1>1, <1>3, <1>15
<1>10. \A k \in 1..n : st[k].iv = tx[k].iv
  BY <1>8, <1>9
<1>11. \A j, k \in 1..n : j <= k => st[j].iv <= st[k].iv
  BY <1>3, <1>10 DEF FaithInv, StackFaithful
<1>12. ASSUME NEW k \in 2..n
       PROVE  /\ k < n \/ st[k].fire # {} \/ st[k].failing => st[k].busy
              /\ PlaceOK(org.flows, after[st[k].iv], st[k - 1].iv, st[k])
  <2>1. k \in 1..n /\ k - 1 \in 1..n /\ st[k - 1].iv = tx[k - 1].iv
    BY <1>3, <1>10
  <2>2. CASE k = n
    <3>1. st[k] = r
      BY <1>9, <2>1, <2>2
    <3> QED
      BY <1>3, <1>8, <2>1, <2>2, <3>1
  <2>3. CASE k # n
    <3>1. k \in 2..n - 1 /\ st[k] = tx[k]
      BY <1>9, <2>1, <2>3
    <3> QED
      BY <1>7, <2>1, <3>1
  <2> QED
    BY <2>2, <2>3
<1>13. StackFaithful(org.flows, after, st)
  <2>1. ~st[1].busy
    BY <1>3, <1>9 DEF FaithInv, StackFaithful
  <2> QED
    BY <1>9, <1>11, <1>12, <2>1 DEF StackFaithful
<1> QED
  BY <1>5, <1>6, <1>9, <1>13 DEF FaithInv

\* A subflow is entered.
LEMMA CalledFaith ==
    ASSUME NotedInv, FaithInv, tx # <<>>, top.flow # None, UNCHANGED org,
           NEW u, traces' = [traces EXCEPT ![top.iv] = u], Shaped(u), u.flow = traces[top.iv].flow,
           Judgeable(org.flows, u.flow) => Good(org.flows[u.flow], u),
           top.iv = tx[Len(tx) - 1].iv => SameCaller(org.flows, traces[top.iv], u),
           NEW was, NEW new, tx' = Append([tx EXCEPT ![Len(tx)] = was], new), InPlace(top, was),
           PlaceOK(org.flows, u, tx[Len(tx) - 1].iv, was), was.busy,
           new.iv = top.iv, PlaceOK(org.flows, u, top.iv, new), new.fire = {}, ~new.failing
    PROVE  FaithInv'
<1>1. PICK F : tx \in Seq(F)
  BY DEF NotedInv, StackOK
<1>2. PICK T : traces \in Seq(T)
  BY DEF NotedInv, LogOK
<1>3. PICK n \in Nat : n = Len(tx) /\ n >= 2 /\ top = tx[n]
  BY Inside DEF top
<1>4. top.iv \in 1..Len(traces)
  BY Inside
<1>5. PICK after : after = traces' /\ after = [traces EXCEPT ![tx[n].iv] = u]
  BY <1>3
<1>6. LogFaithful(org.flows, after)
  BY <1>2, <1>3, <1>4, <1>5, LogKept DEF FaithInv
<1>7. \A k \in 2..n - 1 : tx[k].busy /\ PlaceOK(org.flows, after[tx[k].iv], tx[k - 1].iv, tx[k])
  BY <1>3, <1>5, BehindKept
<1>8. after[tx[n].iv] = u /\ was.iv = tx[n].iv /\ new.iv = tx[n].iv
  BY <1>2, <1>3, <1>4, <1>5 DEF InPlace
<1>9. PICK st : /\ st = tx' /\ Len(st) = n + 1 /\ st[n + 1] = new
                /\ \A k \in 1..n : st[k] = IF k = n THEN was ELSE tx[k]
  BY <1>1, <1>3, Grown
<1>10. \A k \in 1..n : st[k].iv = tx[k].iv
  BY <1>8, <1>9
<1>11. \A j, k \in 1..n : j <= k => tx[j].iv <= tx[k].iv
  BY <1>3 DEF FaithInv, StackFaithful
<1>12. \A j, k \in 1..n + 1 : j <= k => st[j].iv <= st[k].iv
  <2>1. ASSUME NEW j \in 1..n + 1, NEW k \in 1..n + 1, j <= k  PROVE st[j].iv <= st[k].iv
    <3>1. PICK i, l : /\ i \in 1..n /\ l \in 1..n /\ i <= l
                      /\ st[j].iv = tx[i].iv /\ st[k].iv = tx[l].iv
      <4>1. CASE k \in 1..n
        <5>1. j \in 1..n
          BY <2>1, <4>1
        <5> QED
          BY <1>10, <2>1, <4>1, <5>1
      <4>2. CASE k = n + 1 /\ j \in 1..n
        <5>1. n \in 1..n /\ j <= n /\ st[k].iv = tx[n].iv /\ st[j].iv = tx[j].iv
          BY <1>3, <1>8, <1>9, <1>10, <4>2
        <5> QED
          BY <4>2, <5>1
      <4>3. CASE k = n + 1 /\ j = n + 1
        <5>1. n \in 1..n /\ n <= n /\ st[k].iv = tx[n].iv /\ st[j].iv = tx[n].iv
          BY <1>3, <1>8, <1>9, <4>3
        <5> QED
          BY <5>1
      <4> QED
        BY <2>1, <4>1, <4>2, <4>3
    <3> QED
      BY <1>11, <3>1
  <2> QED
    BY <2>1
<1>13. ASSUME NEW k \in 2..n + 1
       PROVE  /\ k < n + 1 \/ st[k].fire # {} \/ st[k].failing => st[k].busy
              /\ PlaceOK(org.flows, after[st[k].iv], st[k - 1].iv, st[k])
  <2>1. CASE k = n + 1
    <3>1. st[k] = new /\ n \in 1..n /\ k - 1 = n
      BY <1>3, <1>9, <2>1
    <3>2. st[k - 1].iv = top.iv
      BY <1>3, <1>10, <3>1
    <3>3. PlaceOK(org.flows, after[st[k].iv], st[k - 1].iv, st[k])
      BY <1>8, <3>1, <3>2
    <3>4. ~(k < n + 1) /\ st[k].fire = {} /\ ~st[k].failing
      BY <2>1, <3>1
    <3> QED
      BY <3>3, <3>4
  <2>2. CASE k \in 2..n
    <3>1. k \in 1..n /\ k - 1 \in 1..n /\ st[k - 1].iv = tx[k - 1].iv
      BY <1>3, <1>10, <2>2
    <3>2. CASE k = n
      <4>1. st[k] = was
        BY <1>9, <3>1, <3>2
      <4> QED
        BY <1>3, <1>8, <3>1, <3>2, <4>1
    <3>3. CASE k # n
      <4>1. k \in 2..n - 1 /\ st[k] = tx[k]
        BY <1>9, <2>2, <3>1, <3>3
      <4> QED
        BY <1>7, <3>1, <4>1
    <3> QED
      BY <3>2, <3>3
  <2> QED
    BY <2>1, <2>2
<1>14. StackFaithful(org.flows, after, st)
  <2>1. ~st[1].busy
    BY <1>3, <1>9 DEF FaithInv, StackFaithful
  <2> QED
    BY <1>9, <1>12, <1>13, <2>1 DEF StackFaithful
<1> QED
  BY <1>5, <1>6, <1>9, <1>14 DEF FaithInv

\* What the innermost frame may rely on.
LEMMA TopStands ==
    ASSUME NotedInv, FiredInv, FaithInv, tx # <<>>, top.flow # None \/ Len(tx) # 1
    PROVE  LET t == traces[top.iv]
               c == tx[Len(tx) - 1].iv IN
           /\ DOMAIN top = DOMAIN NoFrame /\ top.iv \in 1..Len(traces)
           /\ FrameOK(installed, DOMAIN org.flows, top)
           /\ PlaceOK(org.flows, t, c, top)
           /\ top.fire # {} \/ top.failing => top.busy
           /\ Shaped(t) /\ (Judgeable(org.flows, t.flow) => Good(org.flows[t.flow], t))
<1>1. PICK n \in Nat : n = Len(tx) /\ n >= 2 /\ top = tx[n]
  BY InsideToo DEF top
<1>2. top.iv \in 1..Len(traces) /\ n \in 1..n /\ n \in 2..n
  BY <1>1, InsideToo
<1>3. DOMAIN top = DOMAIN NoFrame /\ FrameOK(installed, DOMAIN org.flows, top)
  BY <1>1, <1>2 DEF NotedInv, StackOK, FiredInv
<1>4. /\ PlaceOK(org.flows, traces[top.iv], tx[n - 1].iv, top)
      /\ top.fire # {} \/ top.failing => top.busy
  BY <1>1, <1>2 DEF FaithInv, StackFaithful
<1>5. /\ Shaped(traces[top.iv])
      /\ Judgeable(org.flows, traces[top.iv].flow) =>
            Good(org.flows[traces[top.iv].flow], traces[top.iv])
  BY <1>2 DEF FaithInv, LogFaithful
<1> QED
  BY <1>1, <1>2, <1>3, <1>4, <1>5

\* Where a frame of one of the org's flows stands, the model has a step.
LEMMA StepThere ==
    ASSUME FiredInv, NEW r, FrameOK(installed, DOMAIN org.flows, r), r.flow \in DOMAIN org.flows,
           r.at # None
    PROVE  LET b == org.flows[r.flow]
               e == At(r) IN
           /\ WellFormed(b) /\ Body(r) = b /\ e \in ToSet(b.elements) /\ e.name = r.at
           /\ e.kind \in RunKinds => StepNamed(FlowDefinition(b), e.name) = FlowStep(b, e)
<1>1. installed[r.flow] = org.flows[r.flow] /\ WellFormed(org.flows[r.flow])
  BY OwnFlow DEF FiredInv
<1>2. At(r) = Stands(org.flows[r.flow], r) /\ Body(r) = org.flows[r.flow]
  BY <1>1, StandsAt DEF Body
<1>3. At(r) \in ToSet(org.flows[r.flow].elements) /\ At(r).name = r.at
  BY <1>1, <1>2 DEF FrameOK
<1>4. At(r).kind \in RunKinds =>
        StepNamed(FlowDefinition(org.flows[r.flow]), At(r).name) = FlowStep(org.flows[r.flow], At(r))
  BY <1>1, <1>3, ElementsAreSteps
<1> QED
  BY <1>1, <1>2, <1>3, <1>4

\* The next element of an interview's own flow is logged; ...
LEMMA EntryOwn ==
    ASSUME NotedInv, FiredInv, FaithInv, tx # <<>>, top.flow # None, ~top.busy, top.at # None,
           At(top).kind \in RunKinds, top.iv # tx[Len(tx) - 1].iv, NEW u,
           Adds(Body(top), At(top), traces[top.iv], u), Judgeable(org.flows, traces[top.iv].flow)
    PROVE  LET f == traces[top.iv].flow
               b == org.flows[f]
               z == Split(FlowDefinition(b), u.path) IN
           /\ top.flow = f /\ Good(b, u)
           /\ z.visited # <<>> /\ z.visited[Len(z.visited)] = top.at
           /\ At(top).kind = "subflows" => z.calling
<1>1. PICK t, f, b, e : /\ t = traces[top.iv] /\ f = t.flow /\ b = org.flows[f] /\ e = At(top)
  OBVIOUS
<1>2. top.flow = f /\ Awaits(b, t, top) /\ Shaped(t) /\ Good(b, t)
      /\ FrameOK(installed, DOMAIN org.flows, top)
  BY <1>1, TopStands DEF PlaceOK
<1>3. f \in DOMAIN org.flows
  BY <1>1 DEF Judgeable
<1>4. WellFormed(b) /\ Body(top) = b /\ e \in ToSet(b.elements) /\ e.name = top.at
  BY <1>1, <1>2, <1>3, StepThere
<1>5. MayGo(FlowDefinition(b), b.next, t.rules, Split(FlowDefinition(b), t.path).visited, e.name)
  BY <1>2, <1>4 DEF Awaits
<1>6. PICK T : t.path \in Seq(T)
  BY <1>2 DEF Shaped
<1>7. e.kind \in RunKinds /\ Adds(b, e, t, u)
  BY <1>1, <1>4
<1>8. LET z == Split(FlowDefinition(b), u.path) IN
      /\ Good(b, u) /\ z.visited # <<>> /\ z.visited[Len(z.visited)] = e.name
      /\ e.kind = "subflows" => z.calling
  <2>1. Good(b, t) /\ WellFormed(b) /\ e \in ToSet(b.elements)
    BY <1>2, <1>4
  <2>2. Visits(b, t, u, e)
    BY <2>1, <1>5, <1>6, <1>7, GoodOwn
  <2> QED
    BY <2>2 DEF Visits
<1> QED
  BY <1>1, <1>2, <1>4, <1>8

\* ... one of a subflow, which shares no name with it.
LEMMA EntryNested ==
    ASSUME NotedInv, FiredInv, FaithInv, tx # <<>>, top.flow # None, top.at # None,
           top.iv = tx[Len(tx) - 1].iv, NEW u,
           Adds(Body(top), At(top), traces[top.iv], u), Judgeable(org.flows, traces[top.iv].flow)
    PROVE  Good(org.flows[traces[top.iv].flow], u) /\ SameCaller(org.flows, traces[top.iv], u)
<1>1. PICK t, f, b, e : /\ t = traces[top.iv] /\ f = t.flow /\ b = org.flows[f] /\ e = At(top)
  OBVIOUS
<1>2. /\ Reached(org.flows, f, top.flow) /\ Split(FlowDefinition(b), t.path).calling
      /\ Shaped(t) /\ Good(b, t) /\ FrameOK(installed, DOMAIN org.flows, top)
  BY <1>1, TopStands DEF PlaceOK, Judgeable
<1>3. PICK R \in SUBSET DOMAIN org.flows : Within(org.flows, f, R)
  BY <1>1 DEF Judgeable, CallsApart
<1>4. top.flow \in R /\ top.flow \in DOMAIN org.flows
  BY <1>2, <1>3 DEF Reached
<1>5. PICK g : g = org.flows[top.flow]
  OBVIOUS
<1>6. NamesIn(g) \cap NamesIn(b) = {}
  BY <1>1, <1>3, <1>4, <1>5 DEF Within
<1>7. Body(top) = g /\ e \in ToSet(g.elements)
  BY <1>1, <1>2, <1>4, <1>5, StepThere
<1>8. e.name \in NamesIn(g) /\ Outcomes(e) \subseteq NamesIn(g)
  BY <1>7 DEF NamesIn, Outcomes
<1>9. WellFormed(b)
  BY <1>1, OwnFlow DEF FiredInv, Judgeable
<1>10. PICK T : t.path \in Seq(T)
  BY <1>2 DEF Shaped
<1>11. Adds(g, e, t, u) /\ e.name \notin NamesIn(b) /\ Outcomes(e) \cap NamesIn(b) = {}
  BY <1>1, <1>6, <1>7, <1>8
<1>12. LET w == Split(FlowDefinition(b), t.path)
           z == Split(FlowDefinition(b), u.path) IN
       Good(b, u) /\ z.visited = w.visited /\ z.calling
  BY <1>2, <1>9, <1>10, <1>11, GoodNested
<1> QED
  BY <1>1, <1>12 DEF SameCaller

\* What an element's entry makes of its interview's log.
Enters(j, g, e, u) ==
    /\ traces' = [traces EXCEPT ![j] = u]
    /\ Shaped(u) /\ u.flow = traces[j].flow /\ Adds(g, e, traces[j], u)

LEMMA LongerSeq ==
    ASSUME NEW T, NEW s \in Seq(T), NEW x
    PROVE  Append(s, x) \in Seq(T \cup {x}) /\ ToSet(Append(s, x)) = ToSet(s) \cup {x}
<1>1. PICK n \in Nat : n = Len(s) /\ DOMAIN s = 1..n
  OBVIOUS
<1>2. PICK q : q = Append(s, x)
  OBVIOUS
<1>3. DOMAIN q = 1..n + 1 /\ q[n + 1] = x /\ \A i \in 1..n : q[i] = s[i]
  BY <1>1, <1>2
<1>4. \A i : i \in 1..n + 1 <=> i \in 1..n \/ i = n + 1
  OBVIOUS
<1>5. ToSet(q) = ToSet(s) \cup {x}
  BY <1>1, <1>3, <1>4 DEF ToSet
<1> QED
  BY <1>2, <1>5

EntryOf(t, x, a, u) ==
    \/ u = [t EXCEPT !.path = Append(t.path, x)]
    \/ u = [[t EXCEPT !.path = Append(t.path, x)] EXCEPT !.rules = a]
    \/ u = [[t EXCEPT !.path = Append(t.path, x)] EXCEPT !.calls = a]
    \/ u = [[t EXCEPT !.path = Append(t.path, x)] EXCEPT !.dml = Append(t.dml, a)]
LEMMA EntrySet ==
    ASSUME NEW t, Shaped(t), NEW x, NEW a, NEW u, EntryOf(t, x, a, u)
    PROVE  /\ Shaped(u) /\ u.flow = t.flow /\ u.path = Append(t.path, x)
           /\ u.rules \in {t.rules, a} /\ u.calls \in {t.calls, a}
           /\ u.dml \in {t.dml, Append(t.dml, a)}
<1>1. DOMAIN t = {"flow", "path", "dml", "errors", "rules", "calls", "outer"}
  BY DEF Shaped, Trace
<1>2. PICK pa : pa = Append(t.path, x)
  OBVIOUS
<1>3. PICK dm : dm = Append(t.dml, a)
  OBVIOUS
<1>4. /\ DOMAIN u = DOMAIN t /\ u.flow = t.flow /\ u.path = pa
      /\ u.rules \in {t.rules, a} /\ u.calls \in {t.calls, a} /\ u.dml \in {t.dml, dm}
  BY <1>1, <1>2, <1>3 DEF EntryOf
<1>5. \E T : pa \in Seq(T)
  BY <1>2, LongerSeq DEF Shaped
<1>6. \E T : u.dml \in Seq(T)
  <2>1. \E T : dm \in Seq(T)
    BY <1>3, LongerSeq DEF Shaped
  <2>2. \E T : t.dml \in Seq(T)
    BY DEF Shaped
  <2>3. u.dml = t.dml \/ u.dml = dm
    BY <1>4
  <2> QED
    BY <2>1, <2>2, <2>3
<1> QED
  BY <1>2, <1>3, <1>4, <1>5, <1>6 DEF Shaped

LEMMA BeganEnters ==
    ASSUME NEW j, j \in DOMAIN traces, Shaped(traces[j]), NEW g, NEW e,
           Began(j, e) \/ Called(j, e)
    PROVE  \E u : Enters(j, g, e, u)
<1>1. PICK t, x : t = traces[j] /\ x = [name |-> e.name, kind |-> e.kind]
  OBVIOUS
<1>2. PICK a : a = t.calls \cup {<<e.name, e.target>>}
  OBVIOUS
<1>3. PICK u : /\ traces' = [traces EXCEPT ![j] = u]
               /\ \/ u = [t EXCEPT !.path = Append(t.path, x)]
                  \/ u = [[t EXCEPT !.path = Append(t.path, x)] EXCEPT !.calls = a]
  <2>1. CASE Began(j, e)
    BY <1>1, <2>1 DEF Began
  <2>2. CASE Called(j, e)
    <3>1. PICK v : v = [[t EXCEPT !.path = Append(t.path, x)] EXCEPT !.calls = a]
      OBVIOUS
    <3>2. [t EXCEPT !.path = Append(t.path, x)].calls = t.calls
      BY <1>1 DEF Shaped, Trace
    <3>3. traces' = [traces EXCEPT ![j] = v]
      BY <1>1, <1>2, <2>2, <3>1, <3>2 DEF Called
    <3> QED
      BY <3>1, <3>3
  <2> QED
    BY <2>1, <2>2
<1>4. /\ Shaped(u) /\ u.flow = t.flow /\ u.path = Append(t.path, x)
      /\ u.calls \in {t.calls, a}
  <2>1. EntryOf(t, x, a, u) /\ Shaped(t)
    BY <1>1, <1>3 DEF EntryOf
  <2> QED
    BY <2>1, EntrySet
<1>5. u.rules = t.rules /\ u.dml = t.dml
  BY <1>1, <1>3 DEF Shaped, Trace
<1>6. Adds(g, e, t, u)
  BY <1>1, <1>2, <1>4, <1>5 DEF Adds, KeepsRules
<1> QED
  BY <1>1, <1>3, <1>4, <1>6 DEF Enters

LEMMA WroteEnters ==
    ASSUME NEW j, j \in DOMAIN traces, Shaped(traces[j]), NEW g, NEW e, e.kind \in DmlKinds,
           Wrote(j, e, TargetObject(g, e))
    PROVE  \E u : Enters(j, g, e, u)
<1>1. PICK t, x : t = traces[j] /\ x = [name |-> e.name, kind |-> e.kind]
  OBVIOUS
<1>2. PICK a : a = <<StepKind(e), TargetObject(g, e), e.name>>
  OBVIOUS
<1>3. PICK u : u = [[t EXCEPT !.path = Append(t.path, x)] EXCEPT !.dml = Append(t.dml, a)]
  OBVIOUS
<1>4. traces' = [traces EXCEPT ![j] = u]
  <2>1. [t EXCEPT !.path = Append(t.path, x)].dml = t.dml
    BY <1>1 DEF Shaped, Trace
  <2> QED
    BY <1>1, <1>2, <1>3, <2>1 DEF Wrote
<1>5. /\ Shaped(u) /\ u.flow = t.flow /\ u.path = Append(t.path, x)
      /\ u.dml \in {t.dml, Append(t.dml, a)}
  <2>1. EntryOf(t, x, a, u) /\ Shaped(t)
    BY <1>1, <1>3 DEF EntryOf
  <2> QED
    BY <2>1, EntrySet
<1>6. u.rules = t.rules /\ u.calls = t.calls
  BY <1>1, <1>3 DEF Shaped, Trace
<1>7. ToSet(u.dml) \subseteq ToSet(t.dml) \cup {a}
  <2>1. PICK T : t.dml \in Seq(T)
    BY <1>1 DEF Shaped
  <2> QED
    BY <1>5, <2>1, LongerSeq
<1>8. Adds(g, e, t, u)
  BY <1>1, <1>2, <1>5, <1>6, <1>7 DEF Adds, KeepsRules
<1> QED
  BY <1>1, <1>4, <1>5, <1>8 DEF Enters

LEMMA DecidedEnters ==
    ASSUME NEW j, j \in DOMAIN traces, Shaped(traces[j]), NEW g, NEW e, NEW i, Decided(j, e, i)
    PROVE  \E u : Enters(j, g, e, u) /\ Judges(e, i, traces[j].rules, u.rules)
<1>1. PICK t, x : t = traces[j] /\ x = [name |-> e.name, kind |-> e.kind]
  OBVIOUS
<1>2. PICK a : a = [n \in Judged(e, i) \cup DOMAIN t.rules |->
                      IF n \in Judged(e, i) THEN i \in DOMAIN e.rules /\ e.rules[i].name = n
                      ELSE t.rules[n]]
  OBVIOUS
<1>3. PICK u : u = [[t EXCEPT !.path = Append(t.path, x)] EXCEPT !.rules = a]
  OBVIOUS
<1>4. traces' = [traces EXCEPT ![j] = u]
  <2>1. [t EXCEPT !.path = Append(t.path, x)].rules = t.rules
    BY <1>1 DEF Shaped, Trace
  <2> QED
    BY <1>1, <1>2, <1>3, <2>1 DEF Decided
<1>5. /\ Shaped(u) /\ u.flow = t.flow /\ u.path = Append(t.path, x) /\ u.rules = a
  <2>1. EntryOf(t, x, a, u) /\ Shaped(t)
    BY <1>1, <1>3 DEF EntryOf
  <2>2. u.rules = a
    BY <1>1, <1>3 DEF Shaped, Trace
  <2> QED
    BY <2>1, <2>2, EntrySet
<1>6. u.dml = t.dml /\ u.calls = t.calls
  BY <1>1, <1>3 DEF Shaped, Trace
<1>7. KeepsRules(Outcomes(e), t, u)
  <2>1. Judged(e, i) \subseteq Outcomes(e)
    BY DEF Judged, Outcomes
  <2>2. DOMAIN u.rules = Judged(e, i) \cup DOMAIN t.rules
        /\ \A n \in DOMAIN t.rules : n \notin Judged(e, i) => u.rules[n] = t.rules[n]
    BY <1>2, <1>5
  <2> QED
    BY <2>1, <2>2 DEF KeepsRules
<1>8. Adds(g, e, t, u)
  BY <1>1, <1>5, <1>6, <1>7 DEF Adds
<1> QED
  BY <1>1, <1>2, <1>4, <1>5, <1>8 DEF Enters, Judges

\* Its interview is as faithful with the entry as without, ...
LEMMA EntryGood ==
    ASSUME NotedInv, FiredInv, FaithInv, Running, top.at # None, At(top).kind \in RunKinds,
           NEW u, Enters(top.iv, Body(top), At(top), u)
    PROVE  /\ Judgeable(org.flows, u.flow) => Good(org.flows[u.flow], u)
           /\ top.iv = tx[Len(tx) - 1].iv => SameCaller(org.flows, traces[top.iv], u)
<1>1. /\ tx # <<>> /\ top.flow # None /\ ~top.busy
      /\ Adds(Body(top), At(top), traces[top.iv], u) /\ u.flow = traces[top.iv].flow
  BY DEF Running, Enters
<1>2. ASSUME Judgeable(org.flows, u.flow), top.iv # tx[Len(tx) - 1].iv
      PROVE  Good(org.flows[u.flow], u)
  BY <1>1, <1>2, EntryOwn
<1>3. ASSUME Judgeable(org.flows, u.flow), top.iv = tx[Len(tx) - 1].iv
      PROVE  Good(org.flows[u.flow], u) /\ SameCaller(org.flows, traces[top.iv], u)
  BY <1>1, <1>3, EntryNested
<1>4. ~Judgeable(org.flows, u.flow) => SameCaller(org.flows, traces[top.iv], u)
  BY <1>1 DEF SameCaller
<1> QED
  BY <1>2, <1>3, <1>4

\* ... and the frame stands where that interview lets it.
LetsStand(flows, e, place, u, r) ==
    \A b : /\ b = flows[u.flow] /\ WellFormed(b)
           /\ e \in ToSet(b.elements) /\ e.name = place
           /\ StepNamed(FlowDefinition(b), place) = FlowStep(b, e)
           /\ LET v == Split(FlowDefinition(b), u.path).visited IN v # <<>> /\ v[Len(v)] = place
           => Awaits(b, u, r)
LEMMA EntryPlace ==
    ASSUME NotedInv, FiredInv, FaithInv, Running, top.at # None, At(top).kind \in RunKinds,
           NEW u, Enters(top.iv, Body(top), At(top), u), NEW r, InPlace(top, r),
           LetsStand(org.flows, At(top), top.at, u, r)
    PROVE  PlaceOK(org.flows, u, tx[Len(tx) - 1].iv, r)
<1>1. /\ tx # <<>> /\ top.flow # None /\ ~top.busy
      /\ Adds(Body(top), At(top), traces[top.iv], u) /\ u.flow = traces[top.iv].flow
      /\ r.iv = top.iv /\ r.flow = top.flow
  BY DEF Running, Enters, InPlace
<1>2. PICK t, c : t = traces[top.iv] /\ c = tx[Len(tx) - 1].iv
  OBVIOUS
<1>3. PlaceOK(org.flows, t, c, top) /\ FrameOK(installed, DOMAIN org.flows, top)
  BY <1>1, <1>2, TopStands
<1>4. CASE top.iv # c
  <2>1. top.flow = u.flow
    BY <1>1, <1>2, <1>3, <1>4 DEF PlaceOK
  <2>2. ASSUME Judgeable(org.flows, u.flow)  PROVE Awaits(org.flows[u.flow], u, r)
    <3>1. PICK b : b = org.flows[u.flow]
      OBVIOUS
    <3>2. /\ WellFormed(b) /\ At(top) \in ToSet(b.elements) /\ At(top).name = top.at
          /\ StepNamed(FlowDefinition(b), At(top).name) = FlowStep(b, At(top))
      BY <1>3, <2>1, <2>2, <3>1, StepThere DEF Judgeable
    <3>3. LET v == Split(FlowDefinition(b), u.path).visited IN v # <<>> /\ v[Len(v)] = top.at
      BY <1>1, <1>2, <1>4, <2>2, <3>1, EntryOwn
    <3>4. Awaits(b, u, r)
      BY <3>1, <3>2, <3>3 DEF LetsStand
    <3> QED
      BY <3>1, <3>4
  <2> QED
    BY <1>1, <1>2, <1>4, <2>1, <2>2 DEF PlaceOK
<1>5. CASE top.iv = c
  <2>1. SameCaller(org.flows, t, u)
    BY <1>2, <1>5, EntryGood
  <2>2. t.flow \in DOMAIN org.flows => Reached(org.flows, t.flow, top.flow)
    BY <1>3, <1>5 DEF PlaceOK
  <2> QED
    BY <1>1, <1>2, <1>5, <2>1, <2>2 DEF PlaceOK, SameCaller
<1> QED
  BY <1>4, <1>5

\* An element that waits, and one that leads on.
LEMMA WaitsThere ==
    ASSUME NEW flows, NEW e, e.kind \in RunKinds \ {"decisions"}, NEW place, NEW u, NEW r,
           r.busy, r.at = place
    PROVE  LetsStand(flows, e, place, u, r)
<1>1. ASSUME NEW b, StepNamed(FlowDefinition(b), place) = FlowStep(b, e),
             LET v == Split(FlowDefinition(b), u.path).visited IN v # <<>> /\ v[Len(v)] = place
      PROVE  Awaits(b, u, r)
  <2>1. StepNamed(FlowDefinition(b), place).kind # "decision"
    <3>1. StepNamed(FlowDefinition(b), place).kind = StepKind(e)
      BY <1>1, StepIs
    <3>2. e.kind \in RunKinds /\ e.kind # "decisions"
      OBVIOUS
    <3>3. StepKind(e) # "decision"
      BY <3>2, RunKindsAreSteps
    <3> QED
      BY <3>1, <3>3
  <2> QED
    BY <1>1, <2>1 DEF Awaits
<1> QED
  BY <1>1 DEF LetsStand

LEMMA GoesOn ==
    ASSUME NEW flows, NEW e, NEW place, NEW u, NEW r, ~r.busy,
           \/ r.at \in {e.next, e.default, e.fault} \cup {e.rules[i].next : i \in DOMAIN e.rules}
           \/ StepKind(e) = "loop",
           \A b : WellFormed(b) /\ e \in ToSet(b.elements)
                  /\ StepNamed(FlowDefinition(b), e.name) = FlowStep(b, e)
                  => Told(FlowDefinition(b), u.rules, e.name, r.at)
    PROVE  LetsStand(flows, e, place, u, r)
<1>1. ASSUME NEW b, WellFormed(b), e \in ToSet(b.elements), e.name = place,
             StepNamed(FlowDefinition(b), place) = FlowStep(b, e),
             LET v == Split(FlowDefinition(b), u.path).visited IN v # <<>> /\ v[Len(v)] = place
      PROVE  Awaits(b, u, r)
  <2>1. r.at # None => Follows(FlowDefinition(b), e.name, r.at)
    BY <1>1, LeadsFollow
  <2>2. Told(FlowDefinition(b), u.rules, e.name, r.at)
    BY <1>1
  <2> QED
    BY <1>1, <2>1, <2>2 DEF Awaits, MayGo
<1> QED
  BY <1>1 DEF LetsStand

\* An element begins, is decided or is looped over.
LEMMA EntryFaith ==
    ASSUME NotedInv, FiredInv, FaithInv, Running, top.at # None, At(top).kind \in RunKinds,
           UNCHANGED org, NEW u, Enters(top.iv, Body(top), At(top), u), NEW r, Frame(r),
           InPlace(top, r), LetsStand(org.flows, At(top), top.at, u, r),
           r.fire # {} \/ r.failing => r.busy
    PROVE  FaithInv'
<1>1. /\ tx # <<>> /\ top.flow # None /\ Shaped(u) /\ u.flow = traces[top.iv].flow
      /\ traces' = [traces EXCEPT ![top.iv] = u] /\ tx' = [tx EXCEPT ![Len(tx)] = r]
  BY DEF Running, Enters, Frame
<1>2. /\ Judgeable(org.flows, u.flow) => Good(org.flows[u.flow], u)
      /\ top.iv = tx[Len(tx) - 1].iv => SameCaller(org.flows, traces[top.iv], u)
  BY EntryGood
<1>3. PlaceOK(org.flows, u, tx[Len(tx) - 1].iv, r)
  BY EntryPlace
<1> QED
  BY <1>1, <1>2, <1>3, MovedFaith

LEMMA LoopFaith == ASSUME NotedInv, FiredInv, FaithInv, Loop  PROVE FaithInv'
<1>1. /\ Running /\ top.at # None /\ At(top).kind = "loops" /\ UNCHANGED org
      /\ tx # <<>> /\ top.flow # None /\ top.fire = {} /\ ~top.failing /\ ~top.busy
  BY DEF Loop, Doing, Running, EngineOnly
<1>2. DOMAIN top = DOMAIN NoFrame /\ top.iv \in DOMAIN traces /\ Shaped(traces[top.iv])
  <2>1. PICK T : traces \in Seq(T)
    BY DEF NotedInv, LogOK
  <2> QED
    BY <1>1, <2>1, TopStands
<1>3. PICK e : e = At(top) /\ e.kind \in RunKinds /\ StepKind(e) = "loop"
  BY <1>1, RunKindsAreSteps DEF RunKinds
<1>4. PICK u : Enters(top.iv, Body(top), e, u)
  BY <1>2, <1>3, BeganEnters DEF Loop
<1>5. PICK r, a : Frame(r) /\ Puts(top, r, a, top.fire, top.busy, top.failing)
  <2>1. CASE Frame([top EXCEPT !.at = e.next, !.passes = @ + 1])
    BY <1>2, <2>1, AtSet
  <2>2. CASE Frame([top EXCEPT !.at = e.after])
    BY <1>2, <2>2, AtSet
  <2> QED
    BY <1>3, <2>1, <2>2 DEF Loop
<1>6. InPlace(top, r) /\ ~r.busy /\ r.fire = {} /\ ~r.failing
  BY <1>1, <1>5 DEF Puts
<1>7. ASSUME NEW b, StepNamed(FlowDefinition(b), e.name) = FlowStep(b, e)
      PROVE  Told(FlowDefinition(b), u.rules, e.name, r.at)
  BY <1>3, <1>7, StepIs DEF Told
<1>8. LetsStand(org.flows, e, top.at, u, r)
  BY <1>3, <1>6, <1>7, GoesOn
<1> QED
  BY <1>1, <1>3, <1>4, <1>5, <1>6, <1>8, EntryFaith

LEMMA DecideFaith == ASSUME NotedInv, FiredInv, FaithInv, NEW i \in 1..3, Decide(i)  PROVE FaithInv'
<1>1. /\ Running /\ top.at # None /\ At(top).kind = "decisions" /\ UNCHANGED org
      /\ tx # <<>> /\ top.flow # None /\ top.fire = {} /\ ~top.failing /\ ~top.busy
  BY DEF Decide, Doing, Running, EngineOnly
<1>2. DOMAIN top = DOMAIN NoFrame /\ top.iv \in DOMAIN traces /\ Shaped(traces[top.iv])
  <2>1. PICK T : traces \in Seq(T)
    BY DEF NotedInv, LogOK
  <2> QED
    BY <1>1, <2>1, TopStands
<1>3. PICK e : e = At(top) /\ e.kind \in RunKinds /\ i <= Len(e.rules) + 1
  BY <1>1 DEF RunKinds, Decide
<1>4. PICK t : t = traces[top.iv]
  OBVIOUS
<1>5. PICK u : Enters(top.iv, Body(top), e, u) /\ Judges(e, i, t.rules, u.rules)
  BY <1>2, <1>3, <1>4, DecidedEnters DEF Decide
<1>6. PICK a : a = IF i \in DOMAIN e.rules THEN e.rules[i].next ELSE e.default
  OBVIOUS
<1>7. PICK r : Frame(r) /\ Puts(top, r, a, top.fire, top.busy, top.failing)
  <2>1. Frame([top EXCEPT !.at = a])
    BY <1>3, <1>6 DEF Decide
  <2> QED
    BY <1>2, <2>1, AtSet
<1>8. InPlace(top, r) /\ ~r.busy /\ r.fire = {} /\ ~r.failing /\ r.at = a
  BY <1>1, <1>7 DEF Puts
<1>9. ASSUME NEW b, WellFormed(b), e \in ToSet(b.elements),
             StepNamed(FlowDefinition(b), e.name) = FlowStep(b, e)
      PROVE  Told(FlowDefinition(b), u.rules, e.name, r.at)
  <2>1. Told(FlowDefinition(b), u.rules, e.name,
             IF i \in DOMAIN e.rules THEN e.rules[i].next ELSE e.default)
    BY <1>3, <1>5, <1>9, OutcomeTold
  <2> QED
    BY <1>6, <1>8, <2>1
<1>10. r.at \in {e.next, e.default, e.fault} \cup {e.rules[k].next : k \in DOMAIN e.rules}
  BY <1>6, <1>8
<1>11. LetsStand(org.flows, e, top.at, u, r)
  BY <1>8, <1>9, <1>10, GoesOn
<1>12. /\ At(top).kind \in RunKinds /\ Enters(top.iv, Body(top), At(top), u)
       /\ LetsStand(org.flows, At(top), top.at, u, r)
  BY <1>3, <1>5, <1>11
<1> QED
  BY <1>1, <1>7, <1>8, <1>12, EntryFaith

LEMMA WriteFaith == ASSUME NotedInv, FiredInv, FaithInv, Write  PROVE FaithInv'
<1>1. /\ Running /\ top.at # None /\ At(top).kind \in DmlKinds /\ UNCHANGED org
      /\ tx # <<>> /\ top.flow # None /\ top.fire = {} /\ ~top.failing /\ ~top.busy
  BY DEF Write, Doing, Running, EngineOnly, DmlKinds
<1>2. DOMAIN top = DOMAIN NoFrame /\ top.iv \in DOMAIN traces /\ Shaped(traces[top.iv])
  <2>1. PICK T : traces \in Seq(T)
    BY DEF NotedInv, LogOK
  <2> QED
    BY <1>1, <2>1, TopStands
<1>3. PICK e : e = At(top) /\ e.kind \in DmlKinds
  BY <1>1
<1>4. PICK u : Enters(top.iv, Body(top), e, u)
  <2>1. Wrote(top.iv, e, TargetObject(Body(top), e))
    BY <1>3 DEF Write
  <2> QED
    BY <1>2, <1>3, <2>1, WroteEnters
<1>5. PICK r, fs : Frame(r) /\ Puts(top, r, top.at, fs, TRUE, top.failing)
  <2>1. PICK fs : Frame([top EXCEPT !.fire = fs, !.busy = TRUE])
    BY DEF Write
  <2> QED
    BY <1>2, <2>1, MarkSet
<1>6. InPlace(top, r) /\ r.busy /\ r.at = top.at
  BY <1>5 DEF Puts
<1>7. e.kind \in RunKinds \ {"decisions"}
  BY <1>3 DEF RunKinds, DmlKinds
<1>8. LetsStand(org.flows, e, top.at, u, r)
  BY <1>6, <1>7, WaitsThere
<1>9. /\ At(top).kind \in RunKinds /\ Enters(top.iv, Body(top), At(top), u)
       /\ LetsStand(org.flows, At(top), top.at, u, r)
  BY <1>3, <1>4, <1>7, <1>8
<1> QED
  BY <1>1, <1>5, <1>6, <1>9, EntryFaith

LEMMA ActFaith == ASSUME NotedInv, FiredInv, FaithInv, Act  PROVE FaithInv'
<1>1. /\ Running /\ top.at # None /\ UNCHANGED org
      /\ At(top).kind \in {"assignments", "recordLookups", "actionCalls", "customErrors"}
      /\ tx # <<>> /\ top.flow # None /\ top.fire = {} /\ ~top.failing /\ ~top.busy
  BY DEF Act, Doing, Running, EngineOnly
<1>2. DOMAIN top = DOMAIN NoFrame /\ top.iv \in DOMAIN traces /\ Shaped(traces[top.iv])
  <2>1. PICK T : traces \in Seq(T)
    BY DEF NotedInv, LogOK
  <2> QED
    BY <1>1, <2>1, TopStands
<1>3. PICK e : e = At(top) /\ e.kind \in RunKinds \ {"decisions"}
  BY <1>1 DEF RunKinds
<1>4. PICK u : Enters(top.iv, Body(top), e, u)
  <2>1. Began(top.iv, e) \/ Called(top.iv, e)
    BY <1>3 DEF Act
  <2> QED
    BY <1>2, <2>1, BeganEnters
<1>5. PICK r : Frame(r) /\ Puts(top, r, top.at, top.fire, TRUE, top.failing)
  <2>1. Frame([top EXCEPT !.busy = TRUE])
    BY DEF Act
  <2> QED
    BY <1>2, <2>1, MarkSet
<1>6. InPlace(top, r) /\ r.busy /\ r.at = top.at
  BY <1>5 DEF Puts
<1>7. LetsStand(org.flows, e, top.at, u, r)
  BY <1>3, <1>6, WaitsThere
<1>8. /\ At(top).kind \in RunKinds /\ Enters(top.iv, Body(top), At(top), u)
       /\ LetsStand(org.flows, At(top), top.at, u, r)
  BY <1>3, <1>4, <1>7
<1> QED
  BY <1>1, <1>5, <1>6, <1>8, EntryFaith

\* What waited goes on from where it is, or waits on.
LEMMA LeavesPlace ==
    ASSUME NotedInv, FiredInv, FaithInv, tx # <<>>, top.flow # None \/ Len(tx) # 1, top.busy, NEW r, InPlace(top, r),
           \/ ~r.busy /\ r.at \in {At(top).next, At(top).fault}
           \/ r.busy /\ r.at = top.at
    PROVE  /\ PlaceOK(org.flows, traces[top.iv], tx[Len(tx) - 1].iv, r)
           /\ top.iv = tx[Len(tx) - 1].iv => SameCaller(org.flows, traces[top.iv], traces[top.iv])
<1>1. PICK t, c, e : t = traces[top.iv] /\ c = tx[Len(tx) - 1].iv /\ e = At(top)
  OBVIOUS
<1>2. /\ PlaceOK(org.flows, t, c, top) /\ FrameOK(installed, DOMAIN org.flows, top)
      /\ Shaped(t) /\ (Judgeable(org.flows, t.flow) => Good(org.flows[t.flow], t))
  BY <1>1, TopStands
<1>3. r.iv = top.iv /\ r.flow = top.flow
  BY DEF InPlace
<1>4. CASE top.iv = c
  BY <1>1, <1>2, <1>3, <1>4 DEF PlaceOK, SameCaller
<1>5. CASE top.iv # c
  <2>1. top.flow = t.flow
    BY <1>2, <1>5 DEF PlaceOK
  <2>2. ASSUME Judgeable(org.flows, t.flow)  PROVE Awaits(org.flows[t.flow], t, r)
    <3>1. PICK b, d : b = org.flows[t.flow] /\ d = FlowDefinition(b)
      OBVIOUS
    <3>2. PICK w, v, N : w = Split(d, t.path) /\ w \in Splits(N) /\ v = w.visited /\ v \in Seq(N)
      BY <1>2, SplitTyped DEF Shaped, Splits
    <3>3. v # <<>> /\ v[Len(v)] = top.at /\ StepNamed(d, top.at).kind # "decision"
      BY <1>2, <1>5, <2>2, <3>1, <3>2 DEF PlaceOK, Awaits
    <3>4. Len(v) \in DOMAIN v
      BY <3>2, <3>3
    <3>5. top.at \in Ids(d)
      BY <1>2, <2>2, <3>1, <3>2, <3>3, <3>4 DEF Good, Allowed
    <3>6. t.flow \in DOMAIN org.flows /\ top.at # None
      BY <1>2, <2>1, <2>2 DEF Judgeable, FrameOK
    <3>7. WellFormed(b) /\ e \in ToSet(b.elements) /\ e.name = top.at
      BY <1>1, <1>2, <2>1, <3>1, <3>6, StepThere
    <3>8. StepNamed(d, e.name) = FlowStep(b, e)
      <4>1. PICK x \in ToSet(b.elements) : x.name = top.at /\ StepNamed(d, top.at) = FlowStep(b, x)
        BY <3>1, <3>5, <3>7, StepsAreElements
      <4>2. x = e
        BY <3>7, <4>1 DEF WellFormed
      <4> QED
        BY <3>7, <4>1, <4>2
    <3>9. CASE r.busy /\ r.at = top.at
      BY <3>1, <3>2, <3>3, <3>9 DEF Awaits
    <3>10. CASE ~r.busy /\ r.at \in {e.next, e.fault}
      <4>1. r.at # None => Follows(d, e.name, r.at)
        BY <3>1, <3>8, <3>10, LeadsFollow
      <4>2. Told(d, t.rules, e.name, r.at)
        BY <3>3, <3>7 DEF Told
      <4> QED
        BY <3>1, <3>2, <3>3, <3>7, <3>10, <4>1, <4>2 DEF Awaits, MayGo
    <3> QED
      BY <1>1, <3>9, <3>10
  <2> QED
    BY <1>1, <1>3, <1>5, <2>1, <2>2 DEF PlaceOK
<1> QED
  BY <1>4, <1>5

LEMMA LeftFaith == ASSUME NotedInv, FiredInv, FaithInv, Resume \/ Handled  PROVE FaithInv'
<1>1. PICK n \in Nat : n = Len(tx) /\ n >= 1 /\ top = tx[n]
  <2>1. PICK F : tx \in Seq(F)
    BY DEF NotedInv, StackOK
  <2>2. tx # <<>>
    BY DEF Resume, Handled
  <2> QED
    BY <2>1, <2>2 DEF top
<1>2. tx # <<>> /\ UNCHANGED <<org, traces>>
  BY DEF Resume, Handled, EngineOnly, trace
<1>3. top.busy /\ n # 1
  <2>1. CASE Handled
    <3>1. top.failing /\ top.flow # None
      BY <2>1 DEF Handled
    <3> QED
      BY <1>1, <1>2, <3>1, TopStands, Inside
  <2>2. CASE Resume
    BY <1>1, <2>2 DEF Resume, FaithInv, StackFaithful
  <2> QED
    BY <2>1, <2>2
<1>4. /\ DOMAIN top = DOMAIN NoFrame /\ top.iv \in 1..Len(traces)
      /\ FrameOK(installed, DOMAIN org.flows, top) /\ Shaped(traces[top.iv])
      /\ (Judgeable(org.flows, traces[top.iv].flow) =>
             Good(org.flows[traces[top.iv].flow], traces[top.iv]))
  BY <1>1, <1>2, <1>3, TopStands
<1>5. PICK a, b : a = At(top).next /\ b = At(top).fault
  OBVIOUS
<1>6. PICK r : /\ Frame(r) /\ InPlace(top, r) /\ r.fire = {} /\ (r.failing => r.busy)
               /\ \/ ~r.busy /\ r.at \in {a, b}
                  \/ r.busy /\ r.at = top.at
  <2>1. top.failing => top.fire = {}
    BY <1>4 DEF FrameOK
  <2>2. CASE Handled
    <3>1. PICK r : r = [top EXCEPT !.at = b, !.failing = FALSE, !.busy = FALSE] /\ Frame(r)
      BY <1>5, <2>2 DEF Handled
    <3>2. Puts(top, r, b, top.fire, FALSE, FALSE)
      BY <1>4, <3>1, AtSet
    <3>3. top.fire = {}
      BY <2>1, <2>2 DEF Handled
    <3> QED
      BY <3>1, <3>2, <3>3 DEF Puts
  <2>3. CASE Resume
    <3>1. top.fire = {} /\ ~top.failing
      BY <2>3 DEF Resume
    <3>2. CASE Frame([top EXCEPT !.at = a, !.busy = FALSE])
      <4>1. PICK r : r = [top EXCEPT !.at = a, !.busy = FALSE] /\ Frame(r)
        BY <3>2
      <4>2. Puts(top, r, a, top.fire, FALSE, top.failing)
        BY <1>4, <4>1, AtSet
      <4> QED
        BY <3>1, <4>1, <4>2 DEF Puts
    <3>3. CASE Frame([top EXCEPT !.failing = TRUE])
      <4>1. PICK r : r = [top EXCEPT !.failing = TRUE] /\ Frame(r)
        BY <3>3
      <4>2. Puts(top, r, top.at, top.fire, top.busy, TRUE)
        BY <1>4, <4>1, MarkSet
      <4> QED
        BY <1>3, <3>1, <4>1, <4>2 DEF Puts
    <3> QED
      BY <1>5, <2>3, <3>2, <3>3 DEF Resume
  <2> QED
    BY <2>2, <2>3
<1>7. /\ PlaceOK(org.flows, traces[top.iv], tx[Len(tx) - 1].iv, r)
      /\ top.iv = tx[Len(tx) - 1].iv => SameCaller(org.flows, traces[top.iv], traces[top.iv])
  BY <1>1, <1>2, <1>3, <1>5, <1>6, LeavesPlace
<1>8. PICK u : u = traces[top.iv] /\ traces' = [traces EXCEPT ![top.iv] = u]
  <2>1. PICK T : traces \in Seq(T)
    BY DEF NotedInv, LogOK
  <2>2. traces = [traces EXCEPT ![top.iv] = traces[top.iv]]
    BY <2>1
  <2> QED
    BY <1>2, <2>2
<1>9. tx' = [tx EXCEPT ![Len(tx)] = r]
  BY <1>6 DEF Frame
<1>10. /\ Shaped(u) /\ u.flow = traces[top.iv].flow
       /\ Judgeable(org.flows, u.flow) => Good(org.flows[u.flow], u)
       /\ top.iv = tx[Len(tx) - 1].iv => SameCaller(org.flows, traces[top.iv], u)
       /\ PlaceOK(org.flows, u, tx[Len(tx) - 1].iv, r)
  BY <1>4, <1>7, <1>8
<1> QED
  BY <1>1, <1>2, <1>3, <1>6, <1>8, <1>9, <1>10, MovedFaith

\* A subflow's first frame: what is called can be reached, and the call is open.
LEMMA CalledPlace ==
    ASSUME NotedInv, FiredInv, FaithInv, Running, top.at # None, At(top).kind = "subflows",
           NEW u, Enters(top.iv, Body(top), At(top), u), NEW new, new.iv = top.iv,
           new.flow = At(top).target
    PROVE  PlaceOK(org.flows, u, top.iv, new)
<1>1. PICK t, c, e, f : t = traces[top.iv] /\ c = tx[Len(tx) - 1].iv /\ e = At(top) /\ f = t.flow
  OBVIOUS
<1>2. /\ tx # <<>> /\ top.flow # None /\ ~top.busy /\ u.flow = f
      /\ Adds(Body(top), At(top), traces[top.iv], u)
  BY <1>1 DEF Running, Enters
<1>3. PlaceOK(org.flows, t, c, top) /\ FrameOK(installed, DOMAIN org.flows, top)
  BY <1>1, <1>2, TopStands
<1>4. e.kind \in RunKinds /\ At(top).kind \in RunKinds
  BY <1>1 DEF RunKinds
<1>5. top.flow \in DOMAIN org.flows => e.target \in Callees(org.flows[top.flow])
  BY <1>1, <1>2, <1>3, StepThere DEF Callees
<1>6. ASSUME f \in DOMAIN org.flows, NEW R \in SUBSET DOMAIN org.flows, Within(org.flows, f, R)
      PROVE  e.target \in R
  <2>1. CASE top.iv # c
    BY <1>1, <1>3, <1>5, <1>6, <2>1 DEF PlaceOK, Within
  <2>2. CASE top.iv = c
    <3>1. top.flow \in R
      BY <1>1, <1>3, <1>6, <2>2 DEF PlaceOK, Reached
    <3> QED
      BY <1>5, <1>6, <3>1 DEF Within
  <2> QED
    BY <2>1, <2>2
<1>7. f \in DOMAIN org.flows => Reached(org.flows, f, e.target)
  BY <1>6 DEF Reached
<1>8. ASSUME Judgeable(org.flows, f)
      PROVE  Split(FlowDefinition(org.flows[f]), u.path).calling
  <2>1. CASE top.iv # c
    BY <1>1, <1>2, <1>4, <1>8, <2>1, EntryOwn
  <2>2. CASE top.iv = c
    BY <1>1, <1>4, <1>8, <2>2, EntryGood DEF SameCaller
  <2> QED
    BY <2>1, <2>2
<1> QED
  BY <1>1, <1>2, <1>7, <1>8 DEF PlaceOK

LEMMA SubflowFaith == ASSUME NotedInv, FiredInv, FaithInv, Subflow  PROVE FaithInv'
<1>1. /\ Running /\ top.at # None /\ At(top).kind = "subflows" /\ UNCHANGED org
      /\ tx # <<>> /\ top.flow # None /\ top.fire = {} /\ ~top.failing /\ ~top.busy
  BY DEF Subflow, Doing, Running, EngineOnly
<1>2. DOMAIN top = DOMAIN NoFrame /\ top.iv \in DOMAIN traces /\ Shaped(traces[top.iv])
  <2>1. PICK T : traces \in Seq(T)
    BY DEF NotedInv, LogOK
  <2> QED
    BY <1>1, <2>1, TopStands
<1>3. PICK e : e = At(top) /\ e.kind \in RunKinds \ {"decisions"}
  BY <1>1 DEF RunKinds
<1>4. PICK u : Enters(top.iv, Body(top), At(top), u)
  <2>1. Began(top.iv, At(top))
    BY DEF Subflow
  <2> QED
    BY <1>2, <2>1, BeganEnters
<1>5. PICK was : was = [top EXCEPT !.busy = TRUE]
  OBVIOUS
<1>6. Puts(top, was, top.at, top.fire, TRUE, top.failing)
  BY <1>2, <1>5, MarkSet
<1>7. InPlace(top, was) /\ was.busy /\ was.at = top.at
  BY <1>6 DEF Puts
<1>8. PICK new : /\ new = [NoFrame EXCEPT !.iv = top.iv, !.flow = At(top).target,
                                          !.at = installed[At(top).target].next]
                 /\ tx' = Append([tx EXCEPT ![Len(tx)] = was], new)
  BY <1>5 DEF Subflow, top
<1>9. new.iv = top.iv /\ new.flow = At(top).target /\ new.fire = {} /\ ~new.failing
  BY <1>8 DEF NoFrame
<1>10. PlaceOK(org.flows, u, top.iv, new)
  BY <1>1, <1>4, <1>9, CalledPlace
<1>11. PlaceOK(org.flows, u, tx[Len(tx) - 1].iv, was)
  <2>1. LetsStand(org.flows, At(top), top.at, u, was)
    BY <1>3, <1>7, WaitsThere
  <2> QED
    BY <1>1, <1>3, <1>4, <1>7, <2>1, EntryPlace
<1>12. /\ Judgeable(org.flows, u.flow) => Good(org.flows[u.flow], u)
       /\ top.iv = tx[Len(tx) - 1].iv => SameCaller(org.flows, traces[top.iv], u)
  BY <1>1, <1>3, <1>4, EntryGood
<1>13. traces' = [traces EXCEPT ![top.iv] = u] /\ Shaped(u) /\ u.flow = traces[top.iv].flow
  BY <1>4 DEF Enters
<1> QED
  BY <1>1, <1>7, <1>8, <1>9, <1>10, <1>11, <1>12, <1>13, CalledFaith

\* A fired flow begins: nothing is logged of it, and it is about to go to its first element.
LEMMA StartFaith == ASSUME NotedInv, FiredInv, FaithInv, StartInterview  PROVE FaithInv'
<1>1. PICK F : tx \in Seq(F)
  BY DEF NotedInv, StackOK
<1>2. PICK T : traces \in Seq(T)
  BY DEF NotedInv, LogOK
<1>3. tx # <<>> /\ top.fire # {} /\ org' = org
  BY DEF StartInterview, EngineOnly
<1>4. PICK n \in Nat : n = Len(tx) /\ n >= 1 /\ top = tx[n]
  BY <1>1, <1>3 DEF top
<1>5. PICK m \in Nat : m = Len(traces) /\ DOMAIN traces = 1..m
  BY <1>2
<1>6. PICK f \in top.fire :
        /\ traces' = Append(traces, Trace(f, top.iv))
        /\ tx' = Append([tx EXCEPT ![Len(tx)].fire = @ \ {f}],
                        [NoFrame EXCEPT !.iv = Len(traces) + 1, !.flow = f, !.at = installed[f].next])
  BY DEF StartInterview
<1>7. PICK was : was = [top EXCEPT !.fire = @ \ {f}]
  OBVIOUS
<1>8. PICK new : new = [NoFrame EXCEPT !.iv = m + 1, !.flow = f, !.at = installed[f].next]
  OBVIOUS
<1>9. PICK log : log = Trace(f, top.iv)
  OBVIOUS
<1>10. PICK st : st = tx'
  OBVIOUS
<1>11. /\ Len(st) = n + 1 /\ st[n + 1] = new
       /\ \A k \in 1..n : st[k] = IF k = n THEN was ELSE tx[k]
  <2>1. tx' = Append([tx EXCEPT ![n] = was], new)
    BY <1>4, <1>5, <1>6, <1>7, <1>8
  <2> QED
    BY <1>1, <1>3, <1>4, <1>10, <2>1, Grown
<1>12. PICK after : after = traces'
  OBVIOUS
<1>13. Len(after) = m + 1 /\ after[m + 1] = log /\ \A i \in 1..m : after[i] = traces[i]
  BY <1>2, <1>5, <1>6, <1>9, <1>12
<1>14. \A k \in 1..n : DOMAIN tx[k] = DOMAIN NoFrame
  BY <1>4 DEF NotedInv, StackOK
<1>15. /\ was.iv = top.iv /\ was.flow = top.flow /\ was.at = top.at /\ was.busy = top.busy
  BY <1>4, <1>7, <1>14 DEF NoFrame
<1>16. /\ new.iv = m + 1 /\ new.flow = f /\ new.at = installed[f].next
       /\ new.fire = {} /\ ~new.busy /\ ~new.failing
  BY <1>8 DEF NoFrame
<1>17. LogFaithful(org.flows, after)
  <2>1. Shaped(log)
    <3>1. <<>> \in Seq({})
      OBVIOUS
    <3> QED
      BY <1>9, <3>1 DEF Shaped, Trace
  <2>2. log.flow = f /\ Good(org.flows[f], log)
    BY <1>9, GoodEmpty DEF Trace
  <2>3. \A i \in 1..m : /\ Shaped(after[i])
                        /\ Judgeable(org.flows, after[i].flow) => Good(org.flows[after[i].flow], after[i])
    BY <1>5, <1>13 DEF FaithInv, LogFaithful
  <2>4. \A i \in 1..m + 1 : i \in 1..m \/ i = m + 1
    OBVIOUS
  <2> QED
    BY <1>13, <2>1, <2>2, <2>3, <2>4 DEF LogFaithful
<1>18. \A k \in 1..n : tx[k].iv \in 0..m
  <2>1. tx[1].iv = 0
    BY <1>3 DEF NotedInv, StackOK
  <2>2. \A k \in 2..n : tx[k].iv \in 1..m
    BY <1>4, <1>5 DEF NotedInv, StackOK
  <2> QED
    BY <2>1, <2>2
<1>19. \A k \in 1..n : /\ st[k].iv = tx[k].iv /\ st[k].flow = tx[k].flow
                       /\ st[k].at = tx[k].at /\ st[k].busy = tx[k].busy
  BY <1>4, <1>11, <1>15
<1>20. \A j, k \in 1..n + 1 : j <= k => st[j].iv <= st[k].iv
  <2>1. ASSUME NEW j \in 1..n + 1, NEW k \in 1..n + 1, j <= k  PROVE st[j].iv <= st[k].iv
    <3>1. CASE k \in 1..n
      <4>1. j \in 1..n
        BY <2>1, <3>1
      <4>2. tx[j].iv <= tx[k].iv
        BY <1>4, <2>1, <3>1, <4>1 DEF FaithInv, StackFaithful
      <4> QED
        BY <1>19, <3>1, <4>1, <4>2
    <3>2. CASE k = n + 1 /\ j \in 1..n
      <4>1. st[k].iv = m + 1 /\ st[j].iv \in 0..m
        BY <1>11, <1>16, <1>18, <1>19, <3>2
      <4> QED
        BY <4>1
    <3>3. CASE k = n + 1 /\ j = n + 1
      BY <1>11, <1>16, <3>3
    <3> QED
      BY <2>1, <3>1, <3>2, <3>3
  <2> QED
    BY <2>1
<1>21. ~st[1].busy
  BY <1>4, <1>19 DEF FaithInv, StackFaithful
<1>22. ASSUME NEW k \in 2..n
       PROVE  st[k].busy /\ PlaceOK(org.flows, after[st[k].iv], st[k - 1].iv, st[k])
  <2>1. k \in 1..n /\ k - 1 \in 1..n
    OBVIOUS
  <2>2. k < n \/ tx[k].fire # {}
    BY <1>3, <1>4
  <2>3. tx[k].busy /\ PlaceOK(org.flows, traces[tx[k].iv], tx[k - 1].iv, tx[k])
    BY <1>4, <2>2 DEF FaithInv, StackFaithful
  <2>4. tx[k].iv \in 1..m
    BY <1>4, <1>5 DEF NotedInv, StackOK
  <2>5. PICK t : t = traces[tx[k].iv] /\ t = after[st[k].iv] /\ SameLog(t, t)
    BY <1>13, <1>19, <2>1, <2>4 DEF SameLog
  <2>6. PlaceOK(org.flows, t, tx[k - 1].iv, st[k])
    BY <1>19, <2>1, <2>3, <2>5, PlaceSame
  <2> QED
    BY <1>19, <2>1, <2>3, <2>5, <2>6
<1>23. PlaceOK(org.flows, log, was.iv, new)
  <2>1. new.iv # was.iv
    BY <1>4, <1>15, <1>16, <1>18
  <2>2. log.flow = f /\ log.path = <<>>
    BY <1>9 DEF Trace
  <2>3. ASSUME f \in DOMAIN org.flows  PROVE Awaits(org.flows[f], log, new)
    <3>1. installed[f] = org.flows[f]
      BY <2>3 DEF FiredInv
    <3>2. Split(FlowDefinition(org.flows[f]), log.path).visited = <<>>
      BY <2>2, SplitEmpty DEF Unsplit
    <3> QED
      BY <1>16, <3>1, <3>2 DEF Awaits, MayGo
  <2> QED
    BY <1>16, <2>1, <2>2, <2>3 DEF PlaceOK, Judgeable
<1>24. ASSUME NEW k \in 2..n + 1
       PROVE  /\ k < n + 1 \/ st[k].fire # {} \/ st[k].failing => st[k].busy
              /\ PlaceOK(org.flows, after[st[k].iv], st[k - 1].iv, st[k])
  <2>1. CASE k = n + 1
    <3>1. st[k] = new /\ k - 1 = n /\ n \in 1..n /\ ~(k < n + 1)
      BY <1>4, <1>11, <2>1
    <3>2. st[k - 1].iv = was.iv /\ after[st[k].iv] = log
      BY <1>4, <1>13, <1>15, <1>16, <1>19, <3>1
    <3>3. st[k].fire = {} /\ ~st[k].failing
      BY <1>16, <3>1
    <3>4. PlaceOK(org.flows, after[st[k].iv], st[k - 1].iv, st[k])
      BY <1>23, <3>1, <3>2
    <3> QED
      BY <3>1, <3>3, <3>4
  <2>2. CASE k \in 2..n
    BY <1>22, <2>2
  <2> QED
    BY <2>1, <2>2
<1>25. StackFaithful(org.flows, after, st)
  BY <1>11, <1>20, <1>21, <1>24 DEF StackFaithful
<1> QED
  BY <1>3, <1>10, <1>12, <1>17, <1>25 DEF FaithInv

\* A frame ends; an error changes nothing of what a log is judged by.
LEMMA EndFaith == ASSUME NotedInv, FiredInv, FaithInv, Ended \/ Unhandled  PROVE FaithInv'
<1>1. PICK F : tx \in Seq(F)
  BY DEF NotedInv, StackOK
<1>2. PICK T : traces \in Seq(T)
  BY DEF NotedInv, LogOK
<1>3. tx # <<>> /\ top.flow # None /\ org' = org
  BY DEF Ended, Unhandled, Running, EngineOnly
<1>4. Len(tx) \in Nat /\ Len(tx) >= 2
  BY <1>3, Inside
<1>5. PICK n \in Nat : n = Len(tx) - 1 /\ n >= 1 /\ Len(tx) = n + 1
  BY <1>4
<1>6. PICK m \in Nat : m = Len(traces) /\ DOMAIN traces = 1..m
  BY <1>2
<1>7. PICK after : after = traces'
  OBVIOUS
<1>8. PICK st : st = tx'
  OBVIOUS
<1>9. /\ Len(after) = m
      /\ \A i \in 1..m : SameLog(traces[i], after[i]) /\ Shaped(after[i])
  <2>1. \A i \in 1..m : Shaped(traces[i])
    BY <1>6 DEF FaithInv, LogFaithful
  <2>2. CASE Ended
    <3>1. after = traces
      BY <1>7, <2>2 DEF Ended, trace
    <3> QED
      BY <1>6, <2>1, <3>1 DEF SameLog
  <2>3. CASE Unhandled
    <3>1. PICK x, t : t = traces[last] /\ x = [t EXCEPT !.errors = t.errors + 1]
      OBVIOUS
    <3>2. after = [traces EXCEPT ![last] = x]
      BY <1>7, <2>3, <3>1 DEF Unhandled, Errs
    <3>3. Len(after) = m /\ \A i \in 1..m : after[i] = IF i = last THEN x ELSE traces[i]
      BY <1>2, <1>6, <3>2
    <3>4. last \in 1..m => SameLog(t, x) /\ Shaped(x)
      BY <2>1, <3>1 DEF SameLog, Shaped, Trace
    <3>5. ASSUME NEW i \in 1..m  PROVE SameLog(traces[i], after[i]) /\ Shaped(after[i])
      <4>1. CASE i = last
        BY <3>1, <3>3, <3>4, <4>1
      <4>2. CASE i # last
        BY <2>1, <3>3, <4>2 DEF SameLog
      <4> QED
        BY <4>1, <4>2
    <3> QED
      BY <3>3, <3>5
  <2> QED
    BY <2>2, <2>3
<1>10. LogFaithful(org.flows, after)
  <2>1. ASSUME NEW i \in 1..m, Judgeable(org.flows, after[i].flow)
        PROVE  Good(org.flows[after[i].flow], after[i])
    <3>1. SameLog(traces[i], after[i]) /\ after[i].flow = traces[i].flow
      BY <1>9 DEF SameLog
    <3>2. Good(org.flows[after[i].flow], traces[i])
      BY <1>6, <2>1, <3>1 DEF FaithInv, LogFaithful
    <3> QED
      BY <3>1, <3>2, GoodSame
  <2> QED
    BY <1>9, <2>1 DEF LogFaithful
<1>11. /\ Len(st) = n
       /\ \A k \in 1..n : /\ st[k].iv = tx[k].iv /\ st[k].flow = tx[k].flow
                          /\ st[k].at = tx[k].at /\ st[k].busy = tx[k].busy
  <2>1. CASE tx' = Front(tx)
    BY <1>1, <1>4, <1>5, <1>8, <2>1, FrontOf
  <2>2. CASE FailsBehind(n)
    <3>1. PICK r : r = [[tx[n] EXCEPT !.failing = TRUE] EXCEPT !.fire = {}]
      OBVIOUS
    <3>2. Len(st) = n /\ st[n] = r /\ \A k \in 1..n : k # n => st[k] = tx[k]
      BY <1>1, <1>4, <1>5, <1>8, <2>2, <3>1, FrontFails
    <3>3. PICK t : t = tx[n] /\ DOMAIN t = DOMAIN NoFrame
      BY <1>5 DEF NotedInv, StackOK
    <3>4. r.iv = t.iv /\ r.flow = t.flow /\ r.at = t.at /\ r.busy = t.busy
      BY <3>1, <3>3 DEF NoFrame
    <3> QED
      BY <3>2, <3>3, <3>4
  <2>3. \/ tx' = Front(tx)
        \/ FailsBehind(n)
    BY <1>5 DEF Ended, Unhandled, FailsBehind
  <2> QED
    BY <2>1, <2>2, <2>3
<1>12. \A j, k \in 1..n : j <= k => st[j].iv <= st[k].iv
  <2>1. \A j, k \in 1..n : j <= k => tx[j].iv <= tx[k].iv
    <3>1. 1..n \subseteq 1..n + 1
      OBVIOUS
    <3> QED
      BY <1>5, <3>1 DEF FaithInv, StackFaithful
  <2> QED
    BY <1>11, <2>1
<1>13. ASSUME NEW k \in 2..n
       PROVE  st[k].busy /\ PlaceOK(org.flows, after[st[k].iv], st[k - 1].iv, st[k])
  <2>1. k \in 1..n /\ k - 1 \in 1..n /\ k < n + 1 /\ k \in 2..n + 1
    OBVIOUS
  <2>2. tx[k].busy /\ PlaceOK(org.flows, traces[tx[k].iv], tx[k - 1].iv, tx[k])
    BY <1>5, <2>1 DEF FaithInv, StackFaithful
  <2>3. tx[k].iv \in 1..m
    BY <1>5, <1>6, <2>1 DEF NotedInv, StackOK
  <2>4. PICK t, u : t = traces[tx[k].iv] /\ u = after[tx[k].iv] /\ SameLog(t, u)
    BY <1>9, <2>3
  <2>5. PlaceOK(org.flows, u, tx[k - 1].iv, st[k])
    BY <1>11, <2>1, <2>2, <2>4, PlaceSame
  <2> QED
    BY <1>11, <2>1, <2>2, <2>4, <2>5
<1>14. ~st[1].busy
  BY <1>4, <1>5, <1>11 DEF FaithInv, StackFaithful
<1>15. StackFaithful(org.flows, after, st)
  BY <1>11, <1>12, <1>13, <1>14 DEF StackFaithful
<1> QED
  BY <1>3, <1>7, <1>8, <1>10, <1>15 DEF FaithInv

LEMMA EngineFaith == ASSUME NotedInv, FiredInv, FaithInv, EngineNext  PROVE FaithInv'
BY StartFaith, EndFaith, LoopFaith, SubflowFaith, WriteFaith, ActFaith, LeftFaith, DecideFaith
   DEF EngineNext

\* A call of the session begins a transaction or ends one, and keeps the log or clears it.
LEMMA CallFaith ==
    ASSUME FaithInv, UNCHANGED org, traces' = traces \/ traces' = <<>>,
           \/ tx' = <<>>
           \/ \E fs : Transaction(fs)
    PROVE  FaithInv'
<1>1. LogFaithful(org.flows, traces')
  <2>1. Len(<<>>) = 0
    OBVIOUS
  <2> QED
    BY <2>1 DEF FaithInv, LogFaithful
<1>2. StackFaithful(org.flows, traces', tx')
  <2>1. CASE tx' = <<>>
    <3>1. PICK st : st = tx' /\ Len(st) = 0
      BY <2>1
    <3> QED
      BY <3>1 DEF StackFaithful
  <2>2. CASE \E fs : Transaction(fs)
    <3>1. PICK r, fs : tx' = <<r>> /\ r = [NoFrame EXCEPT !.fire = fs]
      BY <2>2 DEF Transaction
    <3>2. ~r.busy /\ r.iv = 0
      BY <3>1 DEF NoFrame
    <3>3. PICK st : st = tx' /\ Len(st) = 1 /\ st[1] = r
      BY <3>1
    <3> QED
      BY <3>2, <3>3 DEF StackFaithful
  <2> QED
    BY <2>1, <2>2
<1> QED
  BY <1>1, <1>2 DEF FaithInv

LEMMA StepFaith == ASSUME NotedInv, FiredInv, FaithInv, [Next]_vars  PROVE FaithInv'
<1>1. CASE EngineNext
  BY <1>1, EngineFaith
<1>2. pc \notin Busy => tx = <<>>
  BY DEF NotedInv, StackOK
<1>3. CASE \/ BuildProcesses \/ Deploy \/ ReadLogs \/ DeleteFlag \/ DeleteRecord
  <2>1. pc \notin Busy /\ UNCHANGED <<org, tx, traces>>
    BY <1>3 DEF Busy, BuildProcesses, Deploy, ReadLogs, DeleteFlag, DeleteRecord, trace
  <2> QED
    BY <1>2, <2>1, CallFaith
<1>4. CASE NotDriven \/ NotCompared \/ Compare
  <2>1. pc \notin Busy /\ UNCHANGED <<org, tx>> /\ traces' = <<>>
    BY <1>4 DEF Busy, NotDriven, NotCompared, Compare, NextFlow
  <2> QED
    BY <1>2, <2>1, CallFaith
<1>5. CASE SetTraceFlag
  <2>1. pc \notin Busy /\ UNCHANGED <<org, tx>> /\ (traces' = traces \/ traces' = <<>>)
    BY <1>5 DEF Busy, SetTraceFlag, NextFlow, trace
  <2> QED
    BY <1>2, <2>1, CallFaith
<1>6. CASE CreateRecord \/ UpdateRecord \/ Invoke
  <2>1. /\ pc \notin Busy /\ UNCHANGED <<org, traces>>
        /\ tx' = tx \/ \E fs : Transaction(fs)
    BY <1>6 DEF Busy, CreateRecord, UpdateRecord, Invoke, trace
  <2> QED
    BY <1>2, <2>1, CallFaith
<1>7. CASE Created \/ Updated \/ Invoked
  <2>1. /\ UNCHANGED <<org, traces>>
        /\ tx' = <<>> \/ \E fs : Transaction(fs)
    BY <1>7 DEF Created, Updated, UpdateRaises, Invoked, trace
  <2> QED
    BY <2>1, CallFaith
<1>8. CASE UNCHANGED vars
  BY <1>8 DEF vars, trace, FaithInv
<1> QED
  BY <1>1, <1>3, <1>4, <1>5, <1>6, <1>7, <1>8 DEF Next, SessionNext, Finished

\* What the log shows of a flow is never taken for a mismatch with the flow's own
\* model, however far it came and whatever ran inside it, unless it met a
\* decision twice or a callee shares a name with it (verify_process).
THEOREM FaithfulRunsPass == Spec => []FaithfulRunPasses
<1>1. Init => FaithInv
  <2>1. ASSUME Init  PROVE FaithInv
    <3>1. Len(tx) = 0 /\ Len(traces) = 0
      BY <2>1 DEF Init
    <3> QED
      BY <3>1 DEF FaithInv, LogFaithful, StackFaithful
  <2> QED
    BY <2>1
<1>2. NotedInv /\ FiredInv /\ FaithInv => FaithfulRunPasses
  <2>1. SUFFICES ASSUME NotedInv, FiredInv, FaithInv, pc = "compare", Interviews(p) # {},
                        CallsApart(org.flows, p)
                 PROVE  PassesOrRevisits
    BY DEF FaithfulRunPasses
  <2>2. PICK T : traces \in Seq(T)
    BY <2>1 DEF NotedInv, LogOK
  <2>3. PICK m \in Nat : m = Len(traces) /\ DOMAIN traces = 1..m
    BY <2>2
  <2>4. PICK i : i = Original /\ i \in 1..m /\ traces[i].flow = p
    <3>1. PICK S : S = Interviews(p) /\ S \subseteq 1..m /\ S # {}
      BY <2>1, <2>3 DEF Interviews
    <3>2. S \in SUBSET Nat
      BY <3>1
    <3>3. PICK l \in S : \A k \in S : l <= k
      BY <3>1, <3>2, LeastElement
    <3>4. Min(S) \in S
      BY <3>3, Zenon DEF Min
    <3> QED
      BY <3>1, <3>4 DEF Original, Interviews
  <2>5. p \in DOMAIN org.flows
    BY <2>1 DEF FiredInv, p
  <2>6. PICK t, b : t = traces[i] /\ b = org.flows[p]
    OBVIOUS
  <2>7. defs[p] = FlowDefinition(b) /\ WellFormed(b)
    <3>1. defs = [f \in DOMAIN org.flows |-> FlowDefinition(org.flows[f])]
      BY <2>1 DEF FiredInv
    <3>2. WellFormed(installed[p]) /\ installed[p] = org.flows[p]
      BY <2>1, <2>5, OwnFlow DEF FiredInv
    <3> QED
      BY <2>5, <2>6, <3>1, <3>2
  <2>8. Shaped(t) /\ Good(b, t)
    BY <2>1, <2>3, <2>4, <2>5, <2>6 DEF FaithInv, LogFaithful, Judgeable
  <2>9. PICK U : t.path \in Seq(U)
    BY <2>8 DEF Shaped
  <2> QED
    BY <2>4, <2>6, <2>7, <2>8, <2>9, GoodPasses DEF PassesOrRevisits
<1>3. NotedInv /\ FiredInv /\ FaithInv /\ [Next]_vars => FaithInv'
  BY StepFaith
<1> QED
  BY <1>1, <1>2, <1>3, AlwaysNoted, AlwaysFired, PTL DEF Spec

------------------------------------------------------------------------------
(* What a save would lose or refuse is found beforehand.                    *)

ToOwner(s) == s.kind = "notify" /\ "owner" \in s.items
HandsToQueue(s) == \E x \in ValuesOf(s.inputs) : x[1] = "Queue"
Owned(list, a) == a.type = "Alert" /\ a.name \in Names(list) /\ "owner" \in ByName(list, a.name).recipients

LEMMA NamedStepIs ==
    ASSUME NEW id, NEW kind, NEW next, NEW target
    PROVE  LET s == NamedStep(id, kind, next, target) IN
           /\ DOMAIN s = DOMAIN Step
           /\ s.kind = kind /\ s.items = {} /\ s.inputs = <<>> /\ s.object = None
BY DEF NamedStep, Step

LEMMA StepDomain ==
    /\ "kind" \in DOMAIN Step /\ "items" \in DOMAIN Step /\ "inputs" \in DOMAIN Step
    /\ "next" \in DOMAIN Step /\ "object" \in DOMAIN Step /\ "fields" \in DOMAIN Step
    /\ "branches" \in DOMAIN Step
BY DEF Step

\* Of what an action's name stands for, only an alert goes to anybody.
LEMMA ActionIs ==
    ASSUME NEW raw, NEW id, NEW a
    PROVE  LET s == ActionStep(raw, id, a) IN
           DOMAIN s = DOMAIN Step /\ (ToOwner(s) <=> Owned(raw.alerts, a))
<1> DEFINE s == ActionStep(raw, id, a)
<1>1. CASE a.type = "FieldUpdate" /\ a.name \in Names(raw.updates)
  <2>1. s = FieldUpdate(raw, id, a)
    BY <1>1 DEF ActionStep
  <2>2. FieldUpdate(raw, id, a).kind = "update" /\ DOMAIN FieldUpdate(raw, id, a) = DOMAIN Step
    BY NamedStepIs, StepDomain DEF FieldUpdate
  <2> QED
    BY <1>1, <2>1, <2>2 DEF ToOwner, Owned
<1>2. CASE a.type = "Alert"
  <2>1. s = Alert(raw, id, a)
    BY <1>2 DEF ActionStep
  <2>2. CASE a.name \in Names(raw.alerts)
    <3>1. PICK x : x = ByName(raw.alerts, a.name)
      OBVIOUS
    <3>2. PICK n : n = NamedStep(id, "notify", None, Or(x.template, a.name))
      OBVIOUS
    <3>3. s = [n EXCEPT !.items = x.recipients]
      BY <2>1, <2>2, <3>1, <3>2 DEF Alert
    <3>4. n.kind = "notify" /\ DOMAIN n = DOMAIN Step
      BY <3>2, NamedStepIs
    <3>5. s.kind = "notify" /\ s.items = x.recipients /\ DOMAIN s = DOMAIN Step
      BY <3>3, <3>4, StepDomain
    <3> QED
      BY <1>2, <2>2, <3>1, <3>5 DEF ToOwner, Owned
  <2>3. CASE a.name \notin Names(raw.alerts)
    <3>1. s = NamedStep(id, "notify", None, a.name)
      BY <2>1, <2>3 DEF Alert
    <3> QED
      BY <2>3, <3>1, NamedStepIs DEF ToOwner, Owned
  <2> QED
    BY <2>2, <2>3
<1>3. CASE a.type # "Alert" /\ ~(a.type = "FieldUpdate" /\ a.name \in Names(raw.updates))
  <2>1. DOMAIN s = DOMAIN Step /\ s.kind # "notify"
    <3>1. CASE a.type = "Task"
      <4>1. PICK t : t = NamedStep(id, "task", None,
                          IF a.name \in Names(raw.tasks) THEN ByName(raw.tasks, a.name).to ELSE None)
        OBVIOUS
      <4>2. s = [t EXCEPT !.object = "Task"]
        BY <3>1, <4>1 DEF ActionStep
      <4> QED
        BY <4>1, <4>2, NamedStepIs, StepDomain
    <3>2. CASE a.type = "OutboundMessage" /\ a.name \in Names(raw.messages)
      <4>1. PICK m : m = ByName(raw.messages, a.name)
        OBVIOUS
      <4>2. PICK t : t = NamedStep(id, "call_action", None, Or(m.endpoint, a.name))
        OBVIOUS
      <4>3. s = [t EXCEPT !.fields = {Qualified(raw.object, f) : f \in m.fields}]
        BY <3>2, <4>1, <4>2 DEF ActionStep
      <4> QED
        BY <4>2, <4>3, NamedStepIs, StepDomain
    <3>3. CASE a.type # "Task" /\ ~(a.type = "OutboundMessage" /\ a.name \in Names(raw.messages))
      <4>1. s \in {NamedStep(id, "call_process", None, a.name), NamedStep(id, "call_action", None, a.name)}
        BY <1>3, <3>3 DEF ActionStep
      <4> QED
        BY <4>1, NamedStepIs
    <3> QED
      BY <3>1, <3>2, <3>3
  <2> QED
    BY <1>3, <2>1 DEF ToOwner, Owned
<1> QED
  BY <1>1, <1>2, <1>3

LEMMA WiderSeq == ASSUME NEW S, NEW U, S \subseteq U, NEW s \in Seq(S)  PROVE s \in Seq(U)
OBVIOUS

LEMMA SomeStep ==
    ASSUME NEW n \in Nat, NEW s, DOMAIN s = 1..n, s = [i \in 1..n |-> s[i]]
    PROVE  s \in Seq(ToSet(s)) /\ Len(s) = n
<1>1. \A i \in 1..n : s[i] \in ToSet(s)
  BY DEF ToSet
<1> QED
  BY <1>1

LEMMA FlattenedParts ==
    ASSUME NEW m \in Nat, NEW parts, DOMAIN parts = 1..m, parts = [k \in 1..m |-> parts[k]],
           \A k \in 1..m : \E U : parts[k] \in Seq(U)
    PROVE  LET all == UNION {ToSet(parts[k]) : k \in 1..m} IN
           FlattenSeq(parts) \in Seq(all) /\ ToSet(FlattenSeq(parts)) = all
<1> DEFINE all == UNION {ToSet(parts[k]) : k \in 1..m}
<1>1. \A k \in 1..m : parts[k] \in Seq(all)
  <2>1. SUFFICES ASSUME NEW k \in 1..m  PROVE parts[k] \in Seq(all)
    OBVIOUS
  <2>2. PICK U : parts[k] \in Seq(U)
    OBVIOUS
  <2>3. ToSet(parts[k]) \subseteq all
    OBVIOUS
  <2> HIDE DEF all
  <2>4. \A i \in 1..Len(parts[k]) : parts[k][i] \in all
    BY <2>2, <2>3 DEF ToSet
  <2> QED
    BY <2>2, <2>4
<1>2. parts \in Seq(Seq(all)) /\ Len(parts) = m
  <2> HIDE DEF all
  <2> QED
    BY <1>1
<1> QED
  BY <1>2, Flattened

\* A workflow rule's steps go to the owner when one of its actions does, now or
\* later.
LEMMA WorkflowStepsAre ==
    ASSUME NEW raw, NEW rule, Listed(rule.immediate), Listed(rule.timed),
           \A t \in ToSet(rule.timed) : Listed(t)
    PROVE  (\E s \in ToSet(WorkflowSteps(raw, rule)) : ToOwner(s))
           <=> \E a \in ToSet(rule.immediate) \cup UNION {ToSet(t) : t \in ToSet(rule.timed)} :
                  Owned(raw.alerts, a)
<1> DEFINE id(prefix, i, a) == prefix \o ToString(i) \o "_" \o a.name
           steps(prefix, actions) ==
               [i \in DOMAIN actions |-> ActionStep(raw, id(prefix, i, actions[i]), actions[i])]
           now == steps("a", rule.immediate)
           chained == [i \in DOMAIN now |->
                         IF i < Len(now) THEN [now[i] EXCEPT !.next = now[i + 1].id] ELSE now[i]]
           wait(k) == <<NamedStep("wait" \o ToString(k), "wait", None, None)>>
           later(k) == steps("t" \o ToString(k) \o "_", rule.timed[k])
           parts == [k \in DOMAIN rule.timed |-> wait(k) \o later(k)]
<1>1. WorkflowSteps(raw, rule) = chained \o FlattenSeq(parts)
  BY DEF WorkflowSteps
<1>2. PICK n \in Nat, m \in Nat :
        /\ n = Len(rule.immediate) /\ DOMAIN rule.immediate = 1..n
        /\ m = Len(rule.timed) /\ DOMAIN rule.timed = 1..m
  BY DEF Listed
<1>3. ASSUME NEW prefix, NEW actions, Listed(actions)
      PROVE  /\ steps(prefix, actions) \in Seq(ToSet(steps(prefix, actions)))
             /\ Len(steps(prefix, actions)) = Len(actions)
             /\ \A i \in DOMAIN actions : /\ DOMAIN steps(prefix, actions)[i] = DOMAIN Step
                                          /\ ToOwner(steps(prefix, actions)[i]) <=> Owned(raw.alerts, actions[i])
  <2>1. PICK l \in Nat : l = Len(actions) /\ DOMAIN actions = 1..l
    BY <1>3 DEF Listed
  <2> DEFINE made == steps(prefix, actions)
  <2>2. \A i \in 1..l : made[i] = ActionStep(raw, id(prefix, i, actions[i]), actions[i])
    BY <2>1
  <2>3. DOMAIN made = 1..l /\ made = [i \in 1..l |-> made[i]]
    BY <2>1
  <2>4. \A i \in 1..l : DOMAIN made[i] = DOMAIN Step /\ (ToOwner(made[i]) <=> Owned(raw.alerts, actions[i]))
    <3> HIDE DEF id, made
    <3> QED
      BY <2>2, ActionIs
  <2> HIDE DEF made
  <2>5. made \in Seq(ToSet(made)) /\ Len(made) = l
    BY <2>3, SomeStep
  <2> QED
    BY <2>1, <2>4, <2>5 DEF made
<1> HIDE DEF id, steps
<1>4. /\ now \in Seq(ToSet(now)) /\ Len(now) = n /\ DOMAIN now = 1..n
      /\ \A i \in 1..n : DOMAIN now[i] = DOMAIN Step /\ (ToOwner(now[i]) <=> Owned(raw.alerts, rule.immediate[i]))
  BY <1>2, <1>3
<1> HIDE DEF now
<1>5. /\ chained \in Seq(ToSet(chained)) /\ DOMAIN chained = 1..n
      /\ \A i \in 1..n : ToOwner(chained[i]) <=> ToOwner(now[i])
  <2>1. DOMAIN chained = 1..n /\ chained = [i \in 1..n |-> chained[i]]
    BY <1>4
  <2>2. \A i \in 1..n : chained[i] = IF i < n THEN [now[i] EXCEPT !.next = now[i + 1].id] ELSE now[i]
    BY <1>4
  <2> HIDE DEF chained
  <2>3. \A i \in 1..n : chained[i].kind = now[i].kind /\ chained[i].items = now[i].items
    BY <1>4, <2>2, StepDomain
  <2> QED
    BY <2>1, <2>3, SomeStep DEF ToOwner
<1> HIDE DEF chained
<1>6. ASSUME NEW k \in 1..m
      PROVE  /\ parts[k] = wait(k) \o later(k)
             /\ \E U : parts[k] \in Seq(U)
             /\ (\E s \in ToSet(parts[k]) : ToOwner(s)) <=> \E a \in ToSet(rule.timed[k]) : Owned(raw.alerts, a)
  <2>1. parts[k] = wait(k) \o later(k)
    BY <1>2
  <2> HIDE DEF parts
  <2>2. Listed(rule.timed[k])
    BY <1>2 DEF ToSet
  <2>3. PICK w : w = NamedStep("wait" \o ToString(k), "wait", None, None)
    OBVIOUS
  <2>4. PICK U : U = ToSet(later(k)) \cup {w}
    OBVIOUS
  <2>5. /\ later(k) \in Seq(ToSet(later(k))) /\ Len(later(k)) = Len(rule.timed[k])
        /\ \A i \in DOMAIN rule.timed[k] : ToOwner(later(k)[i]) <=> Owned(raw.alerts, rule.timed[k][i])
    BY <1>3, <2>2
  <2> HIDE DEF later
  <2>6. wait(k) \in Seq(U) /\ ToSet(wait(k)) = {w} /\ ~ToOwner(w)
    <3>1. <<w>> \in Seq(U) /\ ToSet(<<w>>) = {w}
      BY <2>4 DEF ToSet
    <3>2. w.kind = "wait"
      BY <2>3, NamedStepIs
    <3> QED
      BY <2>3, <3>1, <3>2 DEF ToOwner
  <2> HIDE DEF wait
  <2>7. PICK v, l : v = wait(k) /\ l = later(k)
    OBVIOUS
  <2>8. ToSet(parts[k]) = {w} \cup ToSet(l) /\ parts[k] \in Seq(U)
    <3>1. l \in Seq(ToSet(l)) /\ ToSet(l) \subseteq U
      BY <2>4, <2>5, <2>7
    <3>2. l \in Seq(U)
      BY <3>1, WiderSeq
    <3>3. v \in Seq(U) /\ ToSet(v) = {w} /\ parts[k] = v \o l
      BY <2>1, <2>6, <2>7
    <3>4. v \o l \in Seq(U) /\ ToSet(v \o l) = ToSet(v) \cup ToSet(l)
      BY <3>2, <3>3, JoinedSet
    <3> QED
      BY <3>3, <3>4
  <2>9. DOMAIN later(k) = DOMAIN rule.timed[k]
    BY <2>2, <2>5 DEF Listed
  <2>10. (\E s \in ToSet(later(k)) : ToOwner(s)) <=> \E a \in ToSet(rule.timed[k]) : Owned(raw.alerts, a)
    BY <2>5, <2>9 DEF ToSet
  <2> QED
    BY <2>1, <2>6, <2>7, <2>8, <2>10
<1>7. DOMAIN parts = 1..m /\ parts = [k \in 1..m |-> parts[k]]
  BY <1>2
<1> HIDE DEF parts
<1> DEFINE V == UNION {ToSet(parts[k]) : k \in 1..m}
<1> DEFINE W == ToSet(chained) \cup V
<1>9. FlattenSeq(parts) \in Seq(V) /\ ToSet(FlattenSeq(parts)) = V
  <2>1. \A k \in 1..m : \E U : parts[k] \in Seq(U)
    BY <1>6
  <2> QED
    BY <1>7, <2>1, FlattenedParts
<1>10. ToSet(WorkflowSteps(raw, rule)) = ToSet(chained) \cup V
  <2>1. chained \in Seq(W) /\ FlattenSeq(parts) \in Seq(W)
    <3> HIDE DEF V
    <3> QED
      BY <1>5, <1>9
  <2> HIDE DEF V, W
  <2> QED
    BY <1>1, <1>9, <2>1, JoinedSet
<1>11. (\E s \in ToSet(chained) : ToOwner(s)) <=> \E a \in ToSet(rule.immediate) : Owned(raw.alerts, a)
  BY <1>2, <1>4, <1>5 DEF ToSet
<1>12. (\E s \in V : ToOwner(s))
       <=> \E a \in UNION {ToSet(t) : t \in ToSet(rule.timed)} : Owned(raw.alerts, a)
  <2>1. \A t : t \in ToSet(rule.timed) <=> \E k \in 1..m : t = rule.timed[k]
    BY <1>2 DEF ToSet
  <2>2. \A s : s \in V <=> \E k \in 1..m : s \in ToSet(parts[k])
    OBVIOUS
  <2>3. \A a : a \in UNION {ToSet(t) : t \in ToSet(rule.timed)} <=> \E k \in 1..m : a \in ToSet(rule.timed[k])
    BY <2>1
  <2> HIDE DEF V
  <2>4. \A k \in 1..m : (\E s \in ToSet(parts[k]) : ToOwner(s)) <=> \E a \in ToSet(rule.timed[k]) : Owned(raw.alerts, a)
    BY <1>6
  <2> QED
    BY <2>2, <2>3, <2>4, Zenon
<1> QED
  BY <1>10, <1>11, <1>12

LEMMA OwnedAlert ==
    ASSUME NEW list, OneEach(list), NEW a
    PROVE  Owned(list, a) <=> /\ a.type = "Alert"
                              /\ \E x \in ToSet(list) : x.name = a.name /\ "owner" \in x.recipients
<1>1. PICK n \in Nat : n = Len(list) /\ DOMAIN list = 1..n
  BY DEF OneEach, Listed
<1>2. \A i, j \in 1..n : list[i].name = list[j].name => i = j
  BY <1>1 DEF OneEach
<1>3. \A x : x \in ToSet(list) <=> \E i \in 1..n : x = list[i]
  BY <1>1 DEF ToSet
<1>4. a.name \in Names(list) <=> \E i \in 1..n : list[i].name = a.name
  BY <1>1 DEF Names
<1>5. ASSUME NEW i \in 1..n, list[i].name = a.name  PROVE ByName(list, a.name) = list[i]
  <2> DEFINE Latest(k) == list[k].name = a.name /\ \A j \in k+1..Len(list) : list[j].name # a.name
  <2>1. \A j \in i+1..Len(list) : list[j].name # a.name
    BY <1>1, <1>2, <1>5
  <2>2. \E k \in DOMAIN list : Latest(k)
    BY <1>1, <1>5, <2>1
  <2>3. PICK k : k = CHOOSE l \in DOMAIN list : Latest(l)
    OBVIOUS
  <2>4. k \in DOMAIN list /\ Latest(k)
    <3> HIDE DEF Latest
    <3> QED
      BY <2>2, <2>3
  <2>5. k = i
    BY <1>1, <1>2, <1>5, <2>4
  <2> QED
    BY <2>3, <2>5 DEF ByName
<1> QED
  BY <1>3, <1>4, <1>5 DEF Owned

LEMMA RuleDefinitionIs ==
    ASSUME NEW name, NEW kind, NEW trigger, NEW steps, NEW reads, NEW active
    PROVE  LET d == RuleDefinition(name, kind, trigger, steps, reads, active) IN
           /\ d.name = name /\ d.kind = kind /\ d.trigger = trigger /\ d.steps = steps /\ d.active = active
           /\ {"name", "kind", "trigger", "steps", "active", "calls", "writes"} \subseteq DOMAIN d
BY DEF RuleDefinition

LEMMA OnSaveIs ==
    ASSUME NEW object, NEW events, NEW timing, NEW when, NEW changed
    PROVE  LET t == OnSave(object, events, timing, when, changed) IN
           t.kind = "record_save" /\ t.object = object /\ "kind" \in DOMAIN t /\ "object" \in DOMAIN t
BY DEF OnSave

LEMMA WorkflowDefinitionIs ==
    ASSUME NEW f, NEW files, WorkflowOK(f, files), NEW i \in DOMAIN f.rules
    PROVE  LET d == WorkflowDefinition(ExtractWorkflow(f), ExtractWorkflow(f).rules[i])
               r == f.rules[i] IN
           /\ d.name = <<f.object, r.name>> /\ d.kind = "workflow_rule" /\ d.trigger.object = f.object
           /\ d.active <=> r.active # "false"
           /\ (\E s \in ToSet(d.steps) : ToOwner(s)) <=> AlertsOwner(f, r)
<1>1. PICK raw, rule, r : raw = ExtractWorkflow(f) /\ rule = raw.rules[i] /\ r = f.rules[i]
  OBVIOUS
<1>2. /\ raw.object = f.object /\ raw.alerts = f.alerts \o f.emailAlerts
      /\ rule = [r EXCEPT !.active = AsBool(@, TRUE), !.type = Or(@, "onCreateOnly")]
  BY <1>1 DEF ExtractWorkflow
<1>3. OneEach(raw.alerts) /\ ToSet(raw.alerts) = ToSet(f.alerts) \cup ToSet(f.emailAlerts)
  <2>1. PICK u, v : u = f.alerts /\ v = f.emailAlerts /\ u \in Seq(ToSet(u)) /\ v \in Seq(ToSet(v))
    BY DEF WorkflowOK, Listed
  <2>2. PICK U : U = ToSet(u) \cup ToSet(v)
    OBVIOUS
  <2>3. u \in Seq(U) /\ v \in Seq(U)
    BY <2>1, <2>2, WiderSeq
  <2>4. ToSet(u \o v) = ToSet(u) \cup ToSet(v)
    BY <2>3, JoinedSet
  <2> QED
    BY <1>2, <2>1, <2>4 DEF WorkflowOK
<1>4. /\ {"name", "active", "type", "immediate", "timed"} \subseteq DOMAIN r /\ Switched(r)
      /\ Listed(r.immediate) /\ Listed(r.timed) /\ \A t \in ToSet(r.timed) : Listed(t)
  BY <1>1 DEF WorkflowOK, ToSet
<1>5. /\ rule.name = r.name /\ rule.immediate = r.immediate /\ rule.timed = r.timed
      /\ rule.active = AsBool(r.active, TRUE)
  BY <1>2, <1>4
<1>6. rule.active <=> r.active # "false"
  BY <1>4, <1>5 DEF AsBool, Switched, None
<1>7. PICK d : d = WorkflowDefinition(raw, rule)
  OBVIOUS
<1>8. /\ d.name = <<raw.object, rule.name>> /\ d.kind = "workflow_rule" /\ d.trigger.object = raw.object
      /\ d.active = rule.active /\ d.steps = WorkflowSteps(raw, rule)
  <2>1. PICK t, e : t = OnSave(raw.object,
                        IF rule.type = "onCreateOnly" THEN <<"create">> ELSE <<"create", "update">>, "after",
                        CriteriaGroup(raw.object, rule.when), rule.type = "onCreateOrTriggeringUpdate")
               /\ e = RuleDefinition(<<raw.object, rule.name>>, "workflow_rule", t,
                        WorkflowSteps(raw, rule), Lefts(CriteriaGroup(raw.object, rule.when)), rule.active)
    OBVIOUS
  <2>2. \E c : d = [e EXCEPT !.calls = c]
    BY <1>7, <2>1 DEF WorkflowDefinition
  <2>3. /\ e.name = <<raw.object, rule.name>> /\ e.kind = "workflow_rule" /\ e.trigger = t
        /\ e.steps = WorkflowSteps(raw, rule) /\ e.active = rule.active
        /\ {"name", "kind", "trigger", "steps", "active"} \subseteq DOMAIN e
    BY <2>1, RuleDefinitionIs
  <2>4. t.object = raw.object
    BY <2>1, OnSaveIs
  <2> QED
    BY <2>2, <2>3, <2>4
<1>9. (\E s \in ToSet(d.steps) : ToOwner(s))
      <=> \E a \in ToSet(r.immediate) \cup UNION {ToSet(t) : t \in ToSet(r.timed)} : Owned(raw.alerts, a)
  <2>1. Listed(rule.immediate) /\ Listed(rule.timed) /\ \A t \in ToSet(rule.timed) : Listed(t)
    BY <1>4, <1>5
  <2> QED
    BY <1>5, <1>8, <2>1, WorkflowStepsAre
<1>10. \A a : Owned(raw.alerts, a) <=>
          /\ a.type = "Alert"
          /\ \E x \in ToSet(f.alerts) \cup ToSet(f.emailAlerts) : x.name = a.name /\ "owner" \in x.recipients
  BY <1>3, OwnedAlert
<1>11. (\E s \in ToSet(d.steps) : ToOwner(s)) <=> AlertsOwner(f, r)
  BY <1>9, <1>10 DEF AlertsOwner
<1> QED
  BY <1>1, <1>2, <1>5, <1>6, <1>7, <1>8, <1>11

\* The steps of an entry tell nobody but its template's addressees, and hand to a
\* queue only what the entry does.
LEMMA AssignmentsAre ==
    ASSUME NEW object, NEW i, NEW entry
    PROVE  LET steps == Assignments(object, i, entry) IN
           /\ \E U : steps \in Seq(U)
           /\ \A s \in ToSet(steps) : ~ToOwner(s)
           /\ (\E s \in ToSet(steps) : HandsToQueue(s)) <=> entry.type = "Queue"
<1> DEFINE owner == Owner(object)
           given == Or(entry.type, "User")
           n == NamedStep(Entry(i), "update", None, entry.to)
           w == [n EXCEPT !.object = object, !.fields = {owner}, !.inputs = [f \in {owner} |-> <<given, entry.to>>]]
           m == NamedStep(EntryId(i, "_notify"), "notify", None, entry.template)
           c == [w EXCEPT !.next = EntryId(i, "_notify")]
<1>5. \/ Assignments(object, i, entry) = <<w>>
      \/ Assignments(object, i, entry) = <<c, m>>
  <2>1. CASE entry.template = None
    BY <2>1 DEF Assignments
  <2>2. CASE entry.template # None
    BY <2>2 DEF Assignments
  <2> QED
    BY <2>1, <2>2
<1>6. n.kind = "update" /\ DOMAIN n = DOMAIN Step
  BY NamedStepIs
<1>9. m.inputs = <<>> /\ m.items = {}
  BY NamedStepIs
<1>10. given = "Queue" <=> entry.type = "Queue"
  BY DEF Or, None
<1> HIDE DEF n, m, given, owner
<1>7. /\ w.kind = "update" /\ w.inputs = [f \in {owner} |-> <<given, entry.to>>]
      /\ DOMAIN w = DOMAIN Step
  BY <1>6, StepDomain
<1> HIDE DEF w
<1>8. c.kind = "update" /\ c.inputs = w.inputs
  BY <1>7, StepDomain
<1> HIDE DEF c
<1>11. HandsToQueue(w) <=> entry.type = "Queue"
  <2>1. ValuesOf(w.inputs) = {<<given, entry.to>>}
    BY <1>7 DEF ValuesOf
  <2> QED
    BY <1>10, <2>1 DEF HandsToQueue
<1>12. HandsToQueue(c) <=> HandsToQueue(w)
  BY <1>8 DEF HandsToQueue
<1>13. ~HandsToQueue(m)
  BY <1>9 DEF HandsToQueue, ValuesOf
<1>14. ~ToOwner(w) /\ ~ToOwner(c) /\ ~ToOwner(m)
  BY <1>7, <1>8, <1>9 DEF ToOwner
<1>15. ToSet(<<w>>) = {w} /\ ToSet(<<c, m>>) = {c, m}
  BY DEF ToSet
<1>16. <<w>> \in Seq({w}) /\ <<c, m>> \in Seq({c, m})
  OBVIOUS
<1>17. CASE Assignments(object, i, entry) = <<w>>
  BY <1>11, <1>14, <1>15, <1>16, <1>17
<1>18. CASE Assignments(object, i, entry) = <<c, m>>
  BY <1>11, <1>12, <1>13, <1>14, <1>15, <1>16, <1>18
<1> QED
  BY <1>5, <1>17, <1>18

LEMMA EscalationsAre ==
    ASSUME NEW object, NEW i, NEW entry, Listed(entry.actions)
    PROVE  LET steps == Escalations(object, i, entry) IN
           (\E U : steps \in Seq(U)) /\ \A s \in ToSet(steps) : ~ToOwner(s)
<1> DEFINE n == Len(entry.actions)
           waitId(j) == EntryId(i, "_wait" \o ToString(j))
           escalateId(j) == EntryId(i, "_escalate" \o ToString(j))
           wait(j) == NamedStep(waitId(j), "wait", escalateId(j), None)
           escalate(j) ==
               [NamedStep(escalateId(j), "escalate", IF j < n THEN waitId(j + 1) ELSE None, entry.actions[j])
                EXCEPT !.object = object, !.fields = IF entry.actions[j] = None THEN {} ELSE {Owner(object)}]
           parts == [j \in 1..n |-> <<wait(j), escalate(j)>>]
<1>1. Escalations(object, i, entry) = FlattenSeq(parts)
  BY DEF Escalations
<1>2. PICK m \in Nat : m = n
  BY DEF Listed
<1>3. ASSUME NEW j \in 1..m
      PROVE  (\E U : parts[j] \in Seq(U)) /\ \A s \in ToSet(parts[j]) : ~ToOwner(s)
  <2>1. PICK w, e : w = wait(j) /\ e = escalate(j)
    OBVIOUS
  <2>2. parts[j] = <<w, e>>
    BY <1>2, <2>1
  <2>3. w.kind = "wait"
    BY <2>1, NamedStepIs
  <2>4. e.kind = "escalate"
    <3>1. PICK x : x = NamedStep(escalateId(j), "escalate", IF j < n THEN waitId(j + 1) ELSE None, entry.actions[j])
      OBVIOUS
    <3>2. x.kind = "escalate" /\ DOMAIN x = DOMAIN Step
      BY <3>1, NamedStepIs
    <3>3. e = [x EXCEPT !.object = object, !.fields = IF entry.actions[j] = None THEN {} ELSE {Owner(object)}]
      BY <2>1, <3>1
    <3> QED
      BY <3>2, <3>3, StepDomain
  <2>5. <<w, e>> \in Seq({w, e}) /\ ToSet(<<w, e>>) = {w, e}
    BY DEF ToSet
  <2> QED
    BY <2>2, <2>3, <2>4, <2>5 DEF ToOwner
<1>4. DOMAIN parts = 1..m /\ parts = [j \in 1..m |-> parts[j]]
  BY <1>2
<1> HIDE DEF parts
<1>5. /\ FlattenSeq(parts) \in Seq(UNION {ToSet(parts[j]) : j \in 1..m})
      /\ ToSet(FlattenSeq(parts)) = UNION {ToSet(parts[j]) : j \in 1..m}
  BY <1>3, <1>4, FlattenedParts
<1> QED
  BY <1>1, <1>3, <1>5

EntryKinds == {"assignment_rule", "escalation_rule", "auto_response_rule"}
LEMMA EntryStepsAre ==
    ASSUME NEW kind \in EntryKinds, NEW object, NEW i, NEW entry, Listed(entry.actions)
    PROVE  LET steps == EntrySteps(kind, object, i, entry) IN
           /\ \E U : steps \in Seq(U)
           /\ \A s \in ToSet(steps) : ~ToOwner(s)
           /\ kind = "assignment_rule" =>
                ((\E s \in ToSet(steps) : HandsToQueue(s)) <=> entry.type = "Queue")
<1>1. CASE kind = "assignment_rule"
  <2>1. EntrySteps(kind, object, i, entry) = Assignments(object, i, entry)
    BY <1>1 DEF EntrySteps
  <2> QED
    BY <2>1, AssignmentsAre
<1>2. CASE kind = "escalation_rule"
  <2>1. EntrySteps(kind, object, i, entry) = Escalations(object, i, entry)
    BY <1>2 DEF EntrySteps
  <2> QED
    BY <1>2, <2>1, EscalationsAre
<1>3. CASE kind = "auto_response_rule"
  <2>1. PICK n : n = NamedStep(Entry(i), "notify", None, entry.template)
    OBVIOUS
  <2>2. EntrySteps(kind, object, i, entry) = <<n>>
    BY <1>3, <2>1 DEF EntrySteps
  <2>3. n.items = {}
    BY <2>1, NamedStepIs
  <2>4. <<n>> \in Seq({n}) /\ ToSet(<<n>>) = {n}
    BY DEF ToSet
  <2> QED
    BY <1>3, <2>2, <2>3, <2>4 DEF ToOwner
<1> QED
  BY <1>1, <1>2, <1>3 DEF EntryKinds

LEMMA EntryDefinitionIs ==
    ASSUME NEW f, f.kind \in EntryKinds, EntriesOK(f), NEW i \in DOMAIN f.groups
    PROVE  LET d == EntryDefinition(f.kind, f.object, ExtractEntries(f).groups[i])
               g == f.groups[i] IN
           /\ d.name = <<f.object, g.name>> /\ d.kind = f.kind /\ d.trigger.object = f.object
           /\ d.active <=> g.active # "false"
           /\ \A s \in ToSet(d.steps) : ~ToOwner(s)
           /\ f.kind = "assignment_rule" =>
                ((\E s \in ToSet(d.steps) : HandsToQueue(s))
                 <=> \E e \in ToSet(g.ruleEntry \o g.ruleEntries) : e.type = "Queue")
<1>1. PICK g, group : g = f.groups[i] /\ group = ExtractEntries(f).groups[i]
  OBVIOUS
<1> DEFINE entries == group.entries
<1>2. group.name = g.name /\ group.active = AsBool(g.active, TRUE) /\ entries = g.ruleEntry \o g.ruleEntries
  BY <1>1 DEF ExtractEntries
<1>3. /\ Switched(g) /\ Listed(g.ruleEntry) /\ Listed(g.ruleEntries)
      /\ \A e \in ToSet(entries) : Listed(e.actions)
  <2>1. g \in ToSet(f.groups)
    BY <1>1 DEF ToSet
  <2> QED
    BY <1>2, <2>1 DEF EntriesOK
<1>4. PICK n \in Nat : n = Len(entries) /\ DOMAIN entries = 1..n
  <2>1. PICK U : U = ToSet(g.ruleEntry) \cup ToSet(g.ruleEntries)
    OBVIOUS
  <2>2. g.ruleEntry \in Seq(U) /\ g.ruleEntries \in Seq(U)
    BY <1>3, <2>1, WiderSeq DEF Listed
  <2>3. entries \in Seq(U)
    BY <1>2, <2>2
  <2> QED
    BY <2>3
<1>5. group.active <=> g.active # "false"
  BY <1>2, <1>3 DEF AsBool, Switched, None
<1> DEFINE parts == [k \in DOMAIN entries |-> EntrySteps(f.kind, f.object, k, entries[k])]
<1>6. ASSUME NEW k \in 1..n
      PROVE  /\ \E U : parts[k] \in Seq(U)
             /\ \A s \in ToSet(parts[k]) : ~ToOwner(s)
             /\ f.kind = "assignment_rule" =>
                  ((\E s \in ToSet(parts[k]) : HandsToQueue(s)) <=> entries[k].type = "Queue")
  <2>1. PICK e : e = entries[k] /\ Listed(e.actions) /\ parts[k] = EntrySteps(f.kind, f.object, k, e)
    BY <1>3, <1>4 DEF ToSet
  <2> HIDE DEF parts
  <2> QED
    BY <2>1, EntryStepsAre
<1>7. DOMAIN parts = 1..n /\ parts = [k \in 1..n |-> parts[k]]
  BY <1>4
<1> DEFINE branches == [k \in DOMAIN entries |->
               [name |-> Entry(k), when |-> CriteriaGroup(f.object, entries[k].when), next |-> Entry(k)]]
           first == NamedStep("match", "decision", None, None)
           match == [first EXCEPT !.branches = branches]
           events == IF f.kind = "escalation_rule" THEN <<"create", "update">> ELSE <<"create">>
           trigger == OnSave(f.object, events, "after", {}, FALSE)
           flat == FlattenSeq(parts)
           d == EntryDefinition(f.kind, f.object, group)
           reads == UNION {Lefts(CriteriaGroup(f.object, entries[k].when)) : k \in DOMAIN entries}
           name == <<f.object, group.name>>
           steps == <<match>> \o flat
<1>9. d = RuleDefinition(name, f.kind, trigger, steps, reads, group.active)
  BY DEF EntryDefinition
<1> HIDE DEF reads, events
<1>11. trigger.object = f.object
  BY DEF OnSave
<1> HIDE DEF parts, trigger, branches
<1>12. match.kind = "decision" /\ match.inputs = <<>>
  <2>1. first.kind = "decision" /\ first.inputs = <<>> /\ DOMAIN first = DOMAIN Step
    BY NamedStepIs
  <2> HIDE DEF first
  <2> QED
    BY <2>1, StepDomain
<1> HIDE DEF match, d, steps, name
<1>18. /\ d.name = name /\ d.kind = f.kind /\ d.trigger = trigger /\ d.steps = steps
       /\ d.active = group.active
  BY <1>9, RuleDefinitionIs
<1>10. /\ d.name = <<f.object, g.name>> /\ d.kind = f.kind /\ d.trigger = trigger
       /\ d.steps = <<match>> \o flat /\ d.active = group.active
  BY <1>2, <1>18 DEF name, steps
<1>13. PICK V : V = UNION {ToSet(parts[k]) : k \in 1..n} /\ flat \in Seq(V) /\ ToSet(flat) = V
  BY <1>6, <1>7, FlattenedParts
<1> HIDE DEF flat
<1>14. ToSet(<<match>> \o flat) = {match} \cup V
  <2>1. PICK one, U : one = <<match>> /\ U = {match} \cup V
    OBVIOUS
  <2>2. one \in Seq(U) /\ ToSet(one) = {match}
    BY <2>1 DEF ToSet
  <2>3. flat \in Seq(U)
    BY <1>13, <2>1, WiderSeq
  <2>4. ToSet(one \o flat) = ToSet(one) \cup ToSet(flat)
    BY <2>2, <2>3, JoinedSet
  <2> QED
    BY <1>13, <2>1, <2>2, <2>4
<1>15. ~ToOwner(match) /\ ~HandsToQueue(match)
  BY <1>12 DEF ToOwner, HandsToQueue, ValuesOf
<1>16. \A s \in ToSet(d.steps) : ~ToOwner(s)
  BY <1>6, <1>10, <1>13, <1>14, <1>15
<1>17. ASSUME f.kind = "assignment_rule"
       PROVE  (\E s \in ToSet(d.steps) : HandsToQueue(s)) <=> \E e \in ToSet(entries) : e.type = "Queue"
  <2>1. \A s : s \in ToSet(d.steps) <=> s = match \/ \E k \in 1..n : s \in ToSet(parts[k])
    BY <1>10, <1>13, <1>14
  <2>2. \A k \in 1..n : (\E s \in ToSet(parts[k]) : HandsToQueue(s)) <=> entries[k].type = "Queue"
    BY <1>6, <1>17
  <2>3. \A e : e \in ToSet(entries) <=> \E k \in 1..n : e = entries[k]
    BY <1>4 DEF ToSet
  <2> QED
    BY <1>15, <2>1, <2>2, <2>3
<1> QED
  BY <1>1, <1>2, <1>5, <1>10, <1>11, <1>16, <1>17 DEF d

LEMMA HeldIn ==
    ASSUME NEW T, NEW s \in Seq(T), NEW h
    PROVE  FlattenSeq([i \in DOMAIN s |-> IF h[s[i]] # {} THEN <<s[i]>> ELSE <<>>]) \in Seq(T)
<1> DEFINE keep == {o \in ToSet(s) : h[o] # {}}
           parts == [i \in DOMAIN s |-> IF s[i] \in keep THEN <<s[i]>> ELSE <<>>]
<1>1. \A i \in DOMAIN s : s[i] \in keep <=> h[s[i]] # {}
  BY DEF ToSet
<1>2. parts = [i \in DOMAIN s |-> IF h[s[i]] # {} THEN <<s[i]>> ELSE <<>>]
  BY <1>1
<1>3. FlattenSeq(parts) \in Seq(T)
  BY Sifted
<1> QED
  BY <1>2, <1>3

\* Nothing but a workflow's alert goes to the owner.
LEMMA ApprovalDefinitionIs ==
    ASSUME NEW f, Listed(f.steps)
    PROVE  LET d == ApprovalDefinition(f) IN
           d.kind = "approval_process" /\ \A s \in ToSet(d.steps) : ~ToOwner(s)
<1> DEFINE id(i) == Or(f.steps[i].name, "step" \o ToString(i))
           named(i) == NamedStep(id(i), "approval_step", IF i < Len(f.steps) THEN id(i + 1) ELSE None, None)
           step(i) == [named(i) EXCEPT !.object = f.object, !.items = {Approver(a) : a \in f.steps[i].approvers}]
           asked == [i \in DOMAIN f.steps |-> step(i)]
           outcomes == <<"approved", "rejected", "recalled", "submitted">>
           acts == Kept(outcomes, LAMBDA o : f.outcomes[o] # {})
           outcome(o) == [NamedStep(o, "call_action", None, None) EXCEPT !.items = f.outcomes[o]]
           done == [i \in DOMAIN acts |-> outcome(acts[i])]
           when == CriteriaGroup(f.object, f.when)
           trigger == [OnSave(f.object, <<>>, None, when, FALSE) EXCEPT !.kind = "approval_submit"]
           name == <<f.object, f.name>>
           active == AsBool(f.active, TRUE)
           reads == UNION {Lefts(CriteriaGroup(f.object, w)) : w \in {f.when} \cup {s.when : s \in ToSet(f.steps)}}
           steps == asked \o done
           d == ApprovalDefinition(f)
<1>1. d = RuleDefinition(name, "approval_process", trigger, steps, reads, active)
  BY DEF ApprovalDefinition
<1>2. PICK n \in Nat : DOMAIN f.steps = 1..n
  BY DEF Listed
<1>3. \A i \in 1..n : asked[i].kind = "approval_step"
  <2>1. SUFFICES ASSUME NEW i \in 1..n  PROVE asked[i].kind = "approval_step"
    OBVIOUS
  <2>2. asked[i] = step(i)
    BY <1>2
  <2>3. named(i).kind = "approval_step" /\ DOMAIN named(i) = DOMAIN Step
    <3> HIDE DEF id
    <3> QED
      BY NamedStepIs
  <2> HIDE DEF named
  <2>4. step(i).kind = "approval_step"
    BY <2>3, StepDomain
  <2> QED
    BY <2>2, <2>4
<1>4. DOMAIN asked = 1..n /\ asked = [i \in 1..n |-> asked[i]]
  BY <1>2
<1>5. PICK m \in Nat : DOMAIN acts = 1..m
  <2>1. PICK T : T = {"approved", "rejected", "recalled", "submitted"}
    OBVIOUS
  <2>2. outcomes \in Seq(T)
    BY <2>1
  <2> HIDE DEF outcomes
  <2>3. PICK h : h = f.outcomes
    OBVIOUS
  <2> DEFINE kept == FlattenSeq([i \in DOMAIN outcomes |-> IF h[outcomes[i]] # {} THEN <<outcomes[i]>> ELSE <<>>])
  <2>5. acts = kept
    BY <2>3 DEF Kept
  <2>6. kept \in Seq(T)
    BY <2>2, HeldIn
  <2>4. acts \in Seq(T)
    BY <2>5, <2>6
  <2> HIDE DEF acts
  <2> QED
    BY <2>4
<1> HIDE DEF acts
<1>6. \A i \in 1..m : done[i].kind = "call_action"
  <2>1. SUFFICES ASSUME NEW i \in 1..m  PROVE done[i].kind = "call_action"
    OBVIOUS
  <2>2. PICK o, x : o = acts[i] /\ x = NamedStep(o, "call_action", None, None)
    OBVIOUS
  <2>3. done[i] = [x EXCEPT !.items = f.outcomes[o]]
    BY <1>5, <2>2
  <2>4. x.kind = "call_action" /\ DOMAIN x = DOMAIN Step
    BY <2>2, NamedStepIs
  <2> QED
    BY <2>3, <2>4, StepDomain
<1>7. DOMAIN done = 1..m /\ done = [i \in 1..m |-> done[i]]
  BY <1>5
<1> HIDE DEF asked, done, trigger, reads, active, name, d, steps
<1>13. d.kind = "approval_process" /\ d.steps = steps
  BY <1>1, RuleDefinitionIs
<1>8. d.kind = "approval_process" /\ d.steps = asked \o done
  BY <1>13 DEF steps
<1>9. asked \in Seq(ToSet(asked)) /\ done \in Seq(ToSet(done))
  BY <1>4, <1>7, SomeStep
<1>10. ToSet(asked \o done) = ToSet(asked) \cup ToSet(done)
  <2>1. PICK U : U = ToSet(asked) \cup ToSet(done)
    OBVIOUS
  <2>2. asked \in Seq(U) /\ done \in Seq(U)
    BY <1>9, <2>1, WiderSeq
  <2> QED
    BY <2>2, JoinedSet
<1>11. \A s \in ToSet(asked) \cup ToSet(done) : s.kind # "notify"
  BY <1>3, <1>4, <1>6, <1>7 DEF ToSet
<1> QED
  BY <1>8, <1>10, <1>11 DEF d, ToOwner

LEMMA ValidationDefinitionIs ==
    ASSUME NEW f
    PROVE  LET d == ValidationDefinition(f) IN
           d.kind = "validation_rule" /\ \A s \in ToSet(d.steps) : ~ToOwner(s)
<1> DEFINE named == NamedStep("reject", "raise_error", None, None)
           reject == [named EXCEPT
               !.object = f.object, !.fields = IF f.display = None THEN {} ELSE {<<f.object, f.display>>}]
           name == <<f.object, f.name>>
           trigger == OnSave(f.object, <<"create", "update">>, "before", {}, FALSE)
           reads == {Qualified(f.object, g) : g \in f.formula}
           active == AsBool(f.active, TRUE)
           d == ValidationDefinition(f)
<1>1. d = RuleDefinition(name, "validation_rule", trigger, <<reject>>, reads, active)
  BY DEF ValidationDefinition
<1>2. named.kind = "raise_error" /\ DOMAIN named = DOMAIN Step
  BY NamedStepIs
<1> HIDE DEF named
<1>3. reject.kind = "raise_error"
  BY <1>2, StepDomain
<1> HIDE DEF reject, trigger, reads, active, name, d
<1>4. d.kind = "validation_rule" /\ d.steps = <<reject>>
  BY <1>1, RuleDefinitionIs
<1>5. ToSet(<<reject>>) = {reject}
  BY DEF ToSet
<1> QED
  BY <1>3, <1>4, <1>5 DEF d, ToOwner

\* A trigger's definition runs the classes its body names.
LEMMA ApexDefinitionIs ==
    ASSUME NEW c
    PROVE  LET d == ApexDefinition(c) IN
           /\ d.name = <<None, c.name>> /\ d.kind = c.kind
           /\ d.active <=> c.status = "Active"
           /\ c.classes \subseteq d.calls
           /\ c.kind = "apex_trigger" => d.trigger.kind = "record_save"
<1> DEFINE name == <<None, c.name>>
           trigger == IF c.kind = "apex_trigger"
               THEN OnSave(c.object, c.events, c.timing, {}, FALSE)
               ELSE [OnSave(None, <<>>, None, {}, FALSE) EXCEPT !.kind = "invocation"]
           steps == ApexSteps(c)
           reads == c.fields \ c.written
           active == c.status = "Active"
           e == RuleDefinition(name, c.kind, trigger, steps, reads, active)
           calls == c.classes \cup c.async \cup {"callout:" \o n : n \in c.credentials}
           d == ApexDefinition(c)
<1>1. d = [e EXCEPT !.writes = c.written, !.calls = calls]
  BY DEF ApexDefinition
<1>2. c.kind = "apex_trigger" => trigger.kind = "record_save"
  BY DEF OnSave
<1>3. c.classes \subseteq calls
  OBVIOUS
<1>4. active <=> c.status = "Active"
  OBVIOUS
<1> HIDE DEF steps, trigger, reads, calls
<1>5. /\ e.name = name /\ e.kind = c.kind /\ e.trigger = trigger /\ e.active = active
      /\ {"name", "kind", "trigger", "active", "calls"} \subseteq DOMAIN e
  BY DEF RuleDefinition
<1> HIDE DEF e, d, active
<1>6. /\ d.name = e.name /\ d.kind = e.kind /\ d.trigger = e.trigger /\ d.active = e.active
      /\ d.calls = calls
  BY <1>1, <1>5
<1> QED
  BY <1>2, <1>3, <1>4, <1>5, <1>6 DEF d

\* Of a flow: no action goes to the owner, and what runs a class says so.
LEMMA FlowDefinitionIs ==
    ASSUME NEW b, WellFormed(b)
    PROVE  LET d == FlowDefinition(b) IN
           /\ d.kind = b.kind /\ d.trigger.kind = TriggerKind(b)
           /\ \A s \in ToSet(d.steps) : ~ToOwner(s)
           /\ \A e \in ToSet(b.elements) : e.kind = "actionCalls" /\ e.action = "apex" =>
                \E s \in ToSet(d.steps) : s.kind = "call_code" /\ s.target = e.target
<1>1. PICK steps : steps = Steps(b)
  OBVIOUS
<1>2. LET d == FlowDefinition(b) IN d.kind = b.kind /\ d.trigger.kind = TriggerKind(b) /\ d.steps = steps
  BY <1>1 DEF FlowDefinition
<1>3. \A s : s \in ToSet(steps) <=>
        \E e \in ToSet(b.elements) :
            e.kind \in ToSet(ElementTypes) /\ StepKind(e) # None /\ s = FlowStep(b, e)
  <2>1. b.elements \in Seq(ToSet(b.elements))
    BY DEF WellFormed
  <2> QED
    BY <1>1, <2>1, StepsOf
<1>4. ASSUME NEW s \in ToSet(steps)  PROVE ~ToOwner(s)
  <2>1. PICK e \in ToSet(b.elements) : s = FlowStep(b, e)
    BY <1>3
  <2>2. s.kind = StepKind(e) /\ s.items = e.items
    BY <2>1, StepIs
  <2>3. StepKind(e) = "notify" => e.kind = "actionCalls"
    BY DEF StepKind, None
  <2>4. e.kind = "actionCalls" => e.items = {}
    BY DEF WellFormed
  <2> QED
    BY <2>2, <2>3, <2>4 DEF ToOwner
<1>5. ASSUME NEW e \in ToSet(b.elements), e.kind = "actionCalls", e.action = "apex"
      PROVE  \E s \in ToSet(steps) : s.kind = "call_code" /\ s.target = e.target
  <2> DEFINE action == CASE e.action = "apex" -> "call_code"
                         [] e.action = "flow" -> "call_process"
                         [] e.action \in Notifying -> "notify"
                         [] OTHER -> "call_action"
  <2>4. action = "call_code"
    BY <1>5 DEF Notifying
  <2>5. StepKind(e) = action
    BY <1>5 DEF StepKind
  <2>1. StepKind(e) = "call_code"
    BY <2>4, <2>5
  <2>2. "actionCalls" \in ToSet(ElementTypes)
    BY DEF ElementTypes, ToSet
  <2>3. FlowStep(b, e) \in ToSet(steps)
    BY <1>3, <1>5, <2>1, <2>2 DEF None
  <2> QED
    BY <2>1, <2>3, StepIs
<1> QED
  BY <1>2, <1>4, <1>5

\* The definitions of a file.
LEMMA BuiltOfWorkflow ==
    ASSUME NEW f, f.kind = "workflow_rule"
    PROVE  ToSet(BuildProcess(f)) =
             {WorkflowDefinition(ExtractWorkflow(f), ExtractWorkflow(f).rules[i]) : i \in DOMAIN f.rules}
<1>1. PICK raw : raw = ExtractWorkflow(f)
  OBVIOUS
<1>2. DOMAIN raw.rules = DOMAIN f.rules
  BY <1>1 DEF ExtractWorkflow
<1>3. BuildProcess(f) = [i \in DOMAIN raw.rules |-> WorkflowDefinition(raw, raw.rules[i])]
  BY <1>1 DEF BuildProcess
<1> QED
  BY <1>1, <1>2, <1>3 DEF ToSet

LEMMA BuiltOfEntries ==
    ASSUME NEW f, f.kind \in EntryKinds
    PROVE  ToSet(BuildProcess(f)) =
             {EntryDefinition(f.kind, f.object, ExtractEntries(f).groups[i]) : i \in DOMAIN f.groups}
<1>1. PICK raw : raw = ExtractEntries(f)
  OBVIOUS
<1>2. DOMAIN raw.groups = DOMAIN f.groups
  BY <1>1 DEF ExtractEntries
<1>3. BuildProcess(f) = [i \in DOMAIN raw.groups |-> EntryDefinition(f.kind, f.object, raw.groups[i])]
  BY <1>1 DEF BuildProcess, EntryKinds
<1> QED
  BY <1>1, <1>2, <1>3 DEF ToSet

LEMMA BuiltOfOne ==
    ASSUME NEW f, f.kind \in {"validation_rule", "approval_process", "apex_class", "apex_trigger"}
    PROVE  /\ f.kind = "validation_rule" => ToSet(BuildProcess(f)) = {ValidationDefinition(f)}
           /\ f.kind = "approval_process" => ToSet(BuildProcess(f)) = {ApprovalDefinition(f)}
           /\ f.kind \in {"apex_class", "apex_trigger"} =>
                ToSet(BuildProcess(f)) = IF f.test THEN {} ELSE {ApexDefinition(f)}
<1>1. \A x : ToSet(<<x>>) = {x}
  BY DEF ToSet
<1>2. ToSet(<<>>) = {}
  BY DEF ToSet
<1>3. f.kind = "validation_rule" => BuildProcess(f) = <<ValidationDefinition(f)>>
  BY DEF BuildProcess
<1>4. f.kind = "approval_process" => BuildProcess(f) = <<ApprovalDefinition(f)>>
  BY DEF BuildProcess
<1>5. f.kind \in {"apex_class", "apex_trigger"} =>
        BuildProcess(f) = IF f.test THEN <<>> ELSE <<ApexDefinition(f)>>
  BY DEF BuildProcess
<1> QED
  BY <1>1, <1>2, <1>3, <1>4, <1>5

LEMMA FileGives ==
    ASSUME NEW f, NEW files, FileOK(f, files), NEW d \in ToSet(BuildProcess(f))
    PROVE  /\ d.kind = f.kind
           /\ (\E s \in ToSet(d.steps) : ToOwner(s)) => f.kind = "workflow_rule" \/ d.name = <<None, f.name>>
<1>1. CASE f.kind = "workflow_rule"
  <2>1. PICK i \in DOMAIN f.rules :
              d = WorkflowDefinition(ExtractWorkflow(f), ExtractWorkflow(f).rules[i])
    BY <1>1, BuiltOfWorkflow
  <2>2. WorkflowOK(f, files)
    BY <1>1 DEF FileOK
  <2> QED
    BY <1>1, <2>1, <2>2, WorkflowDefinitionIs
<1>2. CASE f.kind \in EntryKinds
  <2>1. PICK i \in DOMAIN f.groups : d = EntryDefinition(f.kind, f.object, ExtractEntries(f).groups[i])
    BY <1>2, BuiltOfEntries
  <2>2. EntriesOK(f)
    BY <1>2 DEF FileOK, EntryKinds
  <2> QED
    BY <1>2, <2>1, <2>2, EntryDefinitionIs
<1>3. CASE f.kind = "validation_rule"
  <2>1. d = ValidationDefinition(f)
    BY <1>3, BuiltOfOne
  <2> QED
    BY <1>3, <2>1, ValidationDefinitionIs
<1>4. CASE f.kind = "approval_process"
  <2>1. d = ApprovalDefinition(f)
    BY <1>4, BuiltOfOne
  <2>2. Listed(f.steps)
    BY <1>4 DEF FileOK
  <2> QED
    BY <1>4, <2>1, <2>2, ApprovalDefinitionIs
<1>5. CASE f.kind \in {"apex_class", "apex_trigger"}
  <2>1. d = ApexDefinition(f)
    BY <1>5, BuiltOfOne
  <2> QED
    BY <1>5, <2>1, ApexDefinitionIs
<1> QED
  BY <1>1, <1>2, <1>3, <1>4, <1>5 DEF FileOK, RuleKinds, EntryKinds

\* What the checks see: the org's flows, and its rules that are not switched off.
InForce == {defs[f] : f \in DOMAIN defs} \cup {d \in RuleDefinitions : d.active}

LEMMA FlowInForce ==
    ASSUME FiredInv, pc # "extract"
    PROVE  /\ DOMAIN defs = DOMAIN org.flows
           /\ \A f \in DOMAIN defs : WellFormed(org.flows[f]) /\ defs[f] = FlowDefinition(org.flows[f])
           /\ \A f \in org.files : FileOK(f, org.files)
<1>1. org \in Orgs /\ defs = [f \in DOMAIN org.flows |-> FlowDefinition(org.flows[f])]
  BY DEF FiredInv
<1>2. \A f \in DOMAIN org.flows : WellFormed(org.flows[f])
  BY <1>1, FlowAssumption
<1>3. \A f \in org.files : FileOK(f, org.files)
  BY <1>1, FileAssumption
<1>4. DOMAIN defs = DOMAIN org.flows
  BY <1>1
<1>5. ASSUME NEW f \in DOMAIN defs  PROVE defs[f] = FlowDefinition(org.flows[f])
  BY <1>1, <1>4
<1> QED
  BY <1>2, <1>3, <1>4, <1>5

LEMMA QueuesFound ==
    ASSUME FiredInv, pc # "extract", NEW object
    PROVE  Queues(InForce, object) # {} <=> ToQueue(object)
<1> DEFINE Hands(d) == /\ d.kind = "assignment_rule" /\ d.trigger.object = object
                       /\ \E s \in ToSet(d.steps) : HandsToQueue(s)
<1>1. Queues(InForce, object) # {} <=> \E d \in InForce : Hands(d)
  BY DEF Queues, HandsToQueue
<1>2. ASSUME NEW d \in InForce, d.kind = "assignment_rule"
      PROVE  d.active /\ \E f \in org.files : f.kind = "assignment_rule" /\ d \in ToSet(BuildProcess(f))
  <2>1. d \notin {defs[f] : f \in DOMAIN defs}
    <3>1. SUFFICES ASSUME NEW f \in DOMAIN defs, d = defs[f]  PROVE FALSE
      OBVIOUS
    <3>2. PICK b : b = org.flows[f] /\ WellFormed(b) /\ d = FlowDefinition(b)
      BY <3>1, FlowInForce
    <3>3. d.kind = b.kind
      BY <3>2, FlowDefinitionIs
    <3> QED
      BY <1>2, <3>2, <3>3 DEF WellFormed, RuleKinds
  <2>2. PICK f \in org.files : d \in ToSet(BuildProcess(f))
    BY <2>1 DEF InForce, RuleDefinitions
  <2>3. d.active
    BY <2>1 DEF InForce
  <2> QED
    BY <1>2, <2>2, <2>3, FileGives, FlowInForce
<1>3. ASSUME NEW f \in org.files, f.kind = "assignment_rule", NEW i \in DOMAIN f.groups
      PROVE  LET d == EntryDefinition(f.kind, f.object, ExtractEntries(f).groups[i])
                 g == f.groups[i] IN
             /\ d.kind = "assignment_rule" /\ d.trigger.object = f.object
             /\ d.active <=> g.active # "false"
             /\ (\E s \in ToSet(d.steps) : HandsToQueue(s))
                <=> \E e \in ToSet(g.ruleEntry \o g.ruleEntries) : e.type = "Queue"
  <2>1. EntriesOK(f)
    BY <1>3, FlowInForce DEF FileOK
  <2> QED
    BY <1>3, <2>1, EntryDefinitionIs DEF EntryKinds
<1>4. \A f : f.kind = "assignment_rule" =>
        ToSet(BuildProcess(f)) =
          {EntryDefinition(f.kind, f.object, ExtractEntries(f).groups[i]) : i \in DOMAIN f.groups}
  BY BuiltOfEntries DEF EntryKinds
<1>5. ASSUME NEW d \in InForce, Hands(d)  PROVE ToQueue(object)
  <2>1. PICK f \in org.files : f.kind = "assignment_rule" /\ d \in ToSet(BuildProcess(f)) /\ d.active
    BY <1>2, <1>5
  <2>2. PICK i \in DOMAIN f.groups : d = EntryDefinition(f.kind, f.object, ExtractEntries(f).groups[i])
    BY <1>4, <2>1
  <2>3. f.groups[i] \in ToSet(f.groups)
    BY DEF ToSet
  <2> QED
    BY <1>3, <1>5, <2>1, <2>2, <2>3 DEF ToQueue
<1>6. ASSUME ToQueue(object)  PROVE \E d \in InForce : Hands(d)
  <2>7. PICK f \in org.files :
              /\ f.kind = "assignment_rule" /\ f.object = object
              /\ \E g \in ToSet(f.groups) : /\ g.active # "false"
                    /\ \E e \in ToSet(g.ruleEntry \o g.ruleEntries) : e.type = "Queue"
    BY <1>6 DEF ToQueue
  <2>1. PICK g \in ToSet(f.groups) :
              /\ g.active # "false" /\ \E e \in ToSet(g.ruleEntry \o g.ruleEntries) : e.type = "Queue"
    BY <2>7
  <2>2. PICK i \in DOMAIN f.groups : g = f.groups[i]
    BY DEF ToSet
  <2>3. PICK d : d = EntryDefinition(f.kind, f.object, ExtractEntries(f).groups[i])
    OBVIOUS
  <2>4. d.active /\ Hands(d)
    BY <1>3, <2>1, <2>2, <2>3, <2>7
  <2>5. d \in ToSet(BuildProcess(f))
    BY <1>4, <2>3, <2>7
  <2>6. d \in InForce
    BY <2>4, <2>5 DEF InForce, RuleDefinitions
  <2> QED
    BY <2>4, <2>6
<1> QED
  BY <1>1, <1>5, <1>6

\* Callouts: what a finding says, and what is found.
Says(x, code) == \E severity, component, object, about :
    x = Finding(code, severity, component, object, about)
LEMMA CalloutsAre ==
    ASSUME NEW d, NEW classes
    PROVE  /\ \A x \in Callouts(d, classes) : Says(x, "callout_deferred") \/ Says(x, "callout_in_save_path")
           /\ d.trigger.kind \in {"record_save", "record_delete"} =>
                \A c \in Targets(d) \cap DOMAIN classes :
                    /\ classes[c].callouts # {} /\ classes[c].async = {} =>
                          \E x \in Callouts(d, classes) : x.code = "callout_in_save_path" /\ c \in x.about
                    /\ \A n \in classes[c].classes \cap DOMAIN classes :
                          classes[c].callouts = {} /\ classes[n].callouts # {} /\ classes[n].async = {} =>
                          \E x \in Callouts(d, classes) : x.code = "callout_in_save_path" /\ n \in x.about
<1> DEFINE finding(code, severity, about) == Finding(code, severity, Label(d), d.trigger.object, about)
           calling(c) == classes[c].callouts # {}
           runs == Targets(d) \cap DOMAIN classes
           inner(c) == {n \in classes[c].classes \cap DOMAIN classes : calling(n) /\ classes[n].async = {}}
           deferred == {finding("callout_deferred", "info", {c}) : c \in {x \in runs : calling(x) /\ classes[x].async # {}}}
           direct == {finding("callout_in_save_path", "error", {c}) :
                        c \in {x \in runs : calling(x) /\ classes[x].async = {}}}
           passed(c) == {finding("callout_in_save_path", "error", {c, n}) : n \in inner(c)}
           further == UNION {passed(c) : c \in {x \in runs : ~calling(x)}}
<1>1. Callouts(d, classes) = IF d.trigger.kind \notin {"record_save", "record_delete"} THEN {}
                            ELSE deferred \cup direct \cup further
  BY DEF Callouts
<1>2. \A x \in deferred : Says(x, "callout_deferred")
  BY DEF Says
<1>3. \A x \in direct : Says(x, "callout_in_save_path")
  BY DEF Says
<1>4. ASSUME NEW c  PROVE \A x \in passed(c) : Says(x, "callout_in_save_path")
  BY DEF Says
<1>5. ASSUME NEW c \in runs, calling(c), classes[c].async = {}
      PROVE  \E x \in direct : x.code = "callout_in_save_path" /\ c \in x.about
  <2>1. PICK x : x = finding("callout_in_save_path", "error", {c})
    OBVIOUS
  <2>2. x \in direct
    BY <1>5, <2>1
  <2>3. x.code = "callout_in_save_path" /\ c \in x.about
    BY <2>1 DEF Finding
  <2> QED
    BY <2>2, <2>3
<1>6. ASSUME NEW c \in runs, NEW n \in inner(c)
      PROVE  \E x \in passed(c) : x.code = "callout_in_save_path" /\ n \in x.about
  <2>1. PICK x : x = finding("callout_in_save_path", "error", {c, n})
    OBVIOUS
  <2>2. x \in passed(c)
    BY <2>1
  <2>3. x.code = "callout_in_save_path" /\ n \in x.about
    BY <2>1 DEF Finding
  <2> QED
    BY <2>2, <2>3
<1> HIDE DEF deferred, direct, passed
<1>7. \A x \in further : \E c \in runs : x \in passed(c)
  OBVIOUS
<1>8. \A c \in runs : ~calling(c) => passed(c) \subseteq further
  OBVIOUS
<1> HIDE DEF further, runs
<1>9. \A x \in Callouts(d, classes) : Says(x, "callout_deferred") \/ Says(x, "callout_in_save_path")
  BY <1>1, <1>2, <1>3, <1>4, <1>7
<1>10. ASSUME d.trigger.kind \in {"record_save", "record_delete"}, NEW c \in runs
       PROVE  /\ classes[c].callouts # {} /\ classes[c].async = {} =>
                    \E x \in Callouts(d, classes) : x.code = "callout_in_save_path" /\ c \in x.about
              /\ \A n \in classes[c].classes \cap DOMAIN classes :
                    classes[c].callouts = {} /\ classes[n].callouts # {} /\ classes[n].async = {} =>
                    \E x \in Callouts(d, classes) : x.code = "callout_in_save_path" /\ n \in x.about
  BY <1>1, <1>5, <1>6, <1>8, <1>10
<1> QED
  BY <1>9, <1>10 DEF runs

\* The one check with that code looks at every definition in force.
ReportsOwner(x, c) == x.code = "owner_alert_after_queue_assignment" /\ x.component = c
WarnsOwner(ds, d, c) ==
    /\ d.trigger.object # None /\ Queues(ds, d.trigger.object) # {}
    /\ Label(d) = c /\ \E s \in ToSet(d.steps) : ToOwner(s)
LEMMA OwnerFindings ==
    ASSUME NEW ds, NEW files, NEW fields, NEW c
    PROVE  (\E x \in HealthChecks(ds, files, fields) : ReportsOwner(x, c))
           <=> \E d \in ds : WarnsOwner(ds, d, c)
<1> DEFINE code == "owner_alert_after_queue_assignment"
<1>1. \A x, what : Says(x, what) => x.code = what
  BY DEF Finding, Says
<1>2. ASSUME NEW d, NEW x \in Picklists(d, fields)  PROVE x.code # code
  <2>1. Says(x, "picklist_value_unknown")
    BY DEF Picklists, Says
  <2> QED
    BY <1>1, <2>1
<1>3. ASSUME NEW d, NEW x \in Callouts(d, ClassFacts(files))  PROVE x.code # code
  BY <1>1, CalloutsAre
<1>4. ASSUME NEW d, NEW x \in SameObjectUpdate(d)  PROVE x.code # code
  <2>1. Says(x, "same_object_update_after_save")
    BY DEF SameObjectUpdate, Says
  <2> QED
    BY <1>1, <2>1
<1>5. ASSUME NEW d, NEW x \in FaultPaths(d)  PROVE x.code # code
  <2>1. Says(x, "no_fault_path")
    BY DEF FaultPaths, Says
  <2> QED
    BY <1>1, <2>1
<1>6. ASSUME NEW x \in MultipleTriggers(files)  PROVE x.code # code
  <2>1. Says(x, "multiple_triggers_per_object")
    BY DEF MultipleTriggers, Says
  <2> QED
    BY <1>1, <2>1
<1>7. ASSUME NEW x, x.code = code
      PROVE  x \in HealthChecks(ds, files, fields) <=> x \in OwnerAlerts(ds)
  <2>1. \A d \in ds : /\ x \notin Picklists(d, fields) /\ x \notin Callouts(d, ClassFacts(files))
                     /\ x \notin SameObjectUpdate(d) /\ x \notin FaultPaths(d)
    BY <1>2, <1>3, <1>4, <1>5, <1>7
  <2>2. x \notin MultipleTriggers(files)
    BY <1>6, <1>7
  <2> DEFINE each == UNION {Picklists(d, fields) \cup Callouts(d, ClassFacts(files))
                            \cup SameObjectUpdate(d) \cup FaultPaths(d) : d \in ds}
  <2>3. HealthChecks(ds, files, fields) = each \cup OwnerAlerts(ds) \cup MultipleTriggers(files)
    BY DEF HealthChecks
  <2>4. x \notin each
    BY <2>1
  <2> HIDE DEF each
  <2> QED
    BY <2>2, <2>3, <2>4
<1>8. ASSUME NEW x \in OwnerAlerts(ds), x.component = c
      PROVE  \E d \in ds : WarnsOwner(ds, d, c)
  <2>1. PICK d \in ds : /\ d.trigger.object # None /\ Queues(ds, d.trigger.object) # {}
                        /\ \E s \in ToSet(d.steps) :
                              /\ s.kind = "notify" /\ "owner" \in s.items
                              /\ x = Finding(code, "warning", Label(d), d.trigger.object, {s.target})
    BY DEF OwnerAlerts
  <2>2. x.component = Label(d)
    BY <2>1 DEF Finding
  <2> QED
    BY <1>8, <2>1, <2>2 DEF ToOwner, WarnsOwner
<1>9. ASSUME NEW d \in ds, WarnsOwner(ds, d, c)  PROVE \E x \in OwnerAlerts(ds) : ReportsOwner(x, c)
  <2> DEFINE alert(e, s) == Finding(code, "warning", Label(e), e.trigger.object, {s.target})
             alerting(e) == {s \in ToSet(e.steps) : s.kind = "notify" /\ "owner" \in s.items}
             alerts(e) == {alert(e, s) : s \in alerting(e)}
             handed == {e \in ds : e.trigger.object # None /\ Queues(ds, e.trigger.object) # {}}
  <2>1. OwnerAlerts(ds) = UNION {alerts(e) : e \in handed}
    BY DEF OwnerAlerts
  <2>2. PICK s \in alerting(d) : TRUE
    BY <1>9 DEF WarnsOwner, ToOwner
  <2>3. PICK x : x = alert(d, s)
    OBVIOUS
  <2>4. ReportsOwner(x, c)
    BY <1>9, <2>3 DEF Finding, ReportsOwner, WarnsOwner
  <2> HIDE DEF alert, alerting
  <2>5. x \in alerts(d)
    BY <2>2, <2>3
  <2> HIDE DEF alerts
  <2>6. d \in handed
    BY <1>9 DEF WarnsOwner
  <2> QED
    BY <2>1, <2>4, <2>5, <2>6
<1> QED
  BY <1>7, <1>8, <1>9 DEF ReportsOwner

LEMMA AlertsFound ==
    ASSUME FiredInv, pc # "extract", NEW f \in org.files, f.kind = "workflow_rule", NEW r \in ToSet(f.rules)
    PROVE  (r.active # "false" /\ AlertsOwner(f, r) /\ ToQueue(f.object)) <=>
           \E x \in HealthFindings : /\ x.code = "owner_alert_after_queue_assignment"
                                     /\ x.component = <<f.object, r.name>>
<1> DEFINE Warned(d) == /\ d.trigger.object # None /\ ToQueue(d.trigger.object)
                        /\ Label(d) = <<f.object, r.name>> /\ \E s \in ToSet(d.steps) : ToOwner(s)
<1>1. (\E x \in HealthFindings : /\ x.code = "owner_alert_after_queue_assignment"
                                 /\ x.component = <<f.object, r.name>>)
      <=> \E d \in InForce : Warned(d)
  <2>1. PICK files, fields, c : files = org.files /\ fields = org.fields /\ c = <<f.object, r.name>>
    OBVIOUS
  <2>2. HealthFindings = HealthChecks(InForce, files, fields)
    BY <2>1 DEF HealthFindings, InForce
  <2>3. (\E x \in HealthChecks(InForce, files, fields) : ReportsOwner(x, c))
        <=> \E d \in InForce : WarnsOwner(InForce, d, c)
    BY OwnerFindings
  <2>4. \A object : Queues(InForce, object) # {} <=> ToQueue(object)
    BY QueuesFound
  <2> QED
    BY <2>1, <2>2, <2>3, <2>4 DEF ReportsOwner, WarnsOwner
<1>2. FileOK(f, org.files) /\ WorkflowOK(f, org.files) /\ f.object # None
  BY FlowInForce DEF FileOK, WorkflowOK
<1>3. ASSUME NEW g \in org.files, g.kind = "workflow_rule", NEW i \in DOMAIN g.rules
      PROVE  LET d == WorkflowDefinition(ExtractWorkflow(g), ExtractWorkflow(g).rules[i])
                 q == g.rules[i] IN
             /\ d.name = <<g.object, q.name>> /\ d.kind = "workflow_rule" /\ d.trigger.object = g.object
             /\ d.active <=> q.active # "false"
             /\ (\E s \in ToSet(d.steps) : ToOwner(s)) <=> AlertsOwner(g, q)
             /\ Label(d) = d.name
             /\ d \in ToSet(BuildProcess(g))
  <2>1. WorkflowOK(g, org.files)
    BY <1>3, FlowInForce DEF FileOK
  <2>2. PICK d : d = WorkflowDefinition(ExtractWorkflow(g), ExtractWorkflow(g).rules[i])
    OBVIOUS
  <2>3. d \in ToSet(BuildProcess(g))
    BY <1>3, <2>2, BuiltOfWorkflow
  <2>4. d.kind = "workflow_rule"
    BY <2>1, <2>2, WorkflowDefinitionIs
  <2>5. Label(d) = d.name
    BY <2>4 DEF Label, IsFlow, FlowKinds
  <2> QED
    BY <2>1, <2>2, <2>3, <2>5, WorkflowDefinitionIs
<1>4. ASSUME r.active # "false", AlertsOwner(f, r), ToQueue(f.object)
      PROVE  \E d \in InForce : Warned(d)
  <2>1. PICK i \in DOMAIN f.rules : r = f.rules[i]
    BY DEF ToSet
  <2>2. PICK d : d = WorkflowDefinition(ExtractWorkflow(f), ExtractWorkflow(f).rules[i])
    OBVIOUS
  <2>3. d.active /\ d \in ToSet(BuildProcess(f)) /\ Warned(d)
    BY <1>2, <1>3, <1>4, <2>1, <2>2
  <2> QED
    BY <2>3 DEF InForce, RuleDefinitions
<1>5. ASSUME NEW d \in InForce, Warned(d)
      PROVE  r.active # "false" /\ AlertsOwner(f, r) /\ ToQueue(f.object)
  <2>1. d \notin {defs[g] : g \in DOMAIN defs}
    <3>1. SUFFICES ASSUME NEW g \in DOMAIN defs, d = defs[g]  PROVE FALSE
      OBVIOUS
    <3>2. PICK b : b = org.flows[g] /\ WellFormed(b) /\ d = FlowDefinition(b)
      BY <3>1, FlowInForce
    <3> QED
      BY <1>5, <3>2, FlowDefinitionIs
  <2>2. PICK g \in org.files : d \in ToSet(BuildProcess(g)) /\ d.active
    BY <2>1 DEF InForce, RuleDefinitions
  <2>3. FileOK(g, org.files) /\ g.kind \in RuleKinds
    BY FlowInForce DEF FileOK
  <2>4. d.kind = g.kind /\ (g.kind = "workflow_rule" \/ d.name = <<None, g.name>>)
    BY <1>5, <2>2, <2>3, FileGives
  <2>5. Label(d) = d.name
    BY <2>3, <2>4 DEF Label, IsFlow, FlowKinds, RuleKinds
  <2>6. g.kind = "workflow_rule"
    BY <1>2, <1>5, <2>4, <2>5
  <2>7. PICK i \in DOMAIN g.rules :
              d = WorkflowDefinition(ExtractWorkflow(g), ExtractWorkflow(g).rules[i])
    BY <2>2, <2>6, BuiltOfWorkflow
  <2>8. g.object = f.object /\ g.rules[i].name = r.name
    BY <1>3, <1>5, <2>5, <2>6, <2>7
  <2>9. g = f
    BY <1>2, <2>6, <2>8 DEF WorkflowOK
  <2>10. PICK j \in DOMAIN f.rules : r = f.rules[j]
    BY DEF ToSet
  <2>11. g.rules[i] = r
    BY <1>2, <2>8, <2>9, <2>10 DEF WorkflowOK, OneEach
  <2> QED
    BY <1>3, <1>5, <2>2, <2>6, <2>7, <2>9, <2>11
<1> QED
  BY <1>1, <1>4, <1>5

\* What a save runs is a target of a definition in force.
LEMMA RunOnSave ==
    ASSUME FiredInv, pc # "extract", NEW m \in OnSaveClasses, m # None
    PROVE  \E d \in InForce : d.trigger.kind \in {"record_save", "record_delete"} /\ m \in Targets(d)
<1>1. CASE \E t \in org.files : t.kind = "apex_trigger" /\ t.status = "Active" /\ m \in t.classes
  <2>1. PICK t \in org.files : t.kind = "apex_trigger" /\ t.status = "Active" /\ m \in t.classes
    BY <1>1
  <2>2. ~t.test
    BY <2>1, FlowInForce DEF FileOK
  <2>3. PICK d : d = ApexDefinition(t)
    OBVIOUS
  <2>4. d \in ToSet(BuildProcess(t))
    BY <2>1, <2>2, <2>3, BuiltOfOne
  <2>5. d.active /\ d.kind = "apex_trigger" /\ m \in d.calls /\ d.trigger.kind = "record_save"
    BY <2>1, <2>3, ApexDefinitionIs
  <2> QED
    BY <2>4, <2>5 DEF InForce, RuleDefinitions, Targets
<1>2. CASE \E n \in DOMAIN org.flows :
             /\ org.flows[n].kind = "record_triggered_flow"
             /\ \E e \in ToSet(org.flows[n].elements) :
                    e.kind = "actionCalls" /\ e.action = "apex" /\ m = e.target
  <2>7. PICK n \in DOMAIN org.flows :
             /\ org.flows[n].kind = "record_triggered_flow"
             /\ \E e \in ToSet(org.flows[n].elements) :
                    e.kind = "actionCalls" /\ e.action = "apex" /\ m = e.target
    BY <1>2
  <2>1. PICK b : /\ b = org.flows[n] /\ b.kind = "record_triggered_flow"
                 /\ \E e \in ToSet(b.elements) : e.kind = "actionCalls" /\ e.action = "apex" /\ m = e.target
    BY <2>7
  <2>2. PICK d : n \in DOMAIN defs /\ d = defs[n] /\ d = FlowDefinition(b) /\ WellFormed(b)
    BY <2>1, FlowInForce
  <2>3. /\ d.kind = "record_triggered_flow" /\ d.trigger.kind = TriggerKind(b)
        /\ \E s \in ToSet(d.steps) : s.kind = "call_code" /\ s.target = m
    BY <2>1, <2>2, FlowDefinitionIs
  <2>4. b.trigger \in {"RecordBeforeSave", "RecordAfterSave", "RecordBeforeDelete"}
    BY <2>1, <2>2 DEF WellFormed
  <2>5. TriggerKind(b) \in {"record_save", "record_delete"}
    BY <2>4 DEF TriggerKind, None
  <2>6. m \in Targets(d)
    BY <2>3 DEF Targets
  <2> QED
    BY <2>2, <2>3, <2>5, <2>6 DEF InForce
<1> QED
  BY <1>1, <1>2 DEF OnSaveClasses

LEMMA CalloutsFound ==
    ASSUME FiredInv, pc # "extract", NEW f \in org.files, CallsOut(f),
           \/ f.name \in OnSaveClasses
           \/ \E g \in org.files : /\ g.kind = "apex_class" /\ g.name \in OnSaveClasses
                                   /\ g.callouts = {} /\ f.name \in g.classes
    PROVE  \E x \in HealthFindings : x.code = "callout_in_save_path" /\ f.name \in x.about
<1>1. PICK classes : classes = ClassFacts(org.files)
  OBVIOUS
<1>2. ASSUME NEW g \in org.files, g.kind = "apex_class"
      PROVE  g.name # None /\ g.name \in DOMAIN classes /\ classes[g.name] = g
  <2>1. g.name # None /\ \A h \in org.files : h.kind = g.kind /\ h.name = g.name => h = g
    BY <1>2, FlowInForce DEF FileOK
  <2> DEFINE all == {h \in org.files : h.kind = "apex_class"}
  <2>2. classes = [n \in {c.name : c \in all} |-> CHOOSE c \in all : c.name = n]
    BY <1>1 DEF ClassFacts
  <2>3. g.name \in {c.name : c \in all} /\ \A c \in all : c.name = g.name <=> c = g
    BY <1>2, <2>1
  <2>4. (CHOOSE c \in all : c.name = g.name) = g
    BY <1>2, <2>3
  <2> QED
    BY <2>1, <2>2, <2>3, <2>4
<1>3. ASSUME NEW d \in InForce, NEW x \in Callouts(d, classes)  PROVE x \in HealthFindings
  <2>1. PICK ds, files, fields : ds = InForce /\ files = org.files /\ fields = org.fields
    OBVIOUS
  <2>2. HealthFindings = HealthChecks(ds, files, fields)
    BY <2>1 DEF HealthFindings, InForce
  <2>3. x \in HealthChecks(ds, files, fields)
    BY <1>1, <1>3, <2>1 DEF HealthChecks
  <2> QED
    BY <2>2, <2>3
<1>4. f.kind = "apex_class" /\ f.callouts # {} /\ f.async = {}
  BY DEF CallsOut
<1>5. f.name # None /\ f.name \in DOMAIN classes /\ classes[f.name] = f
  BY <1>2, <1>4
<1>6. CASE f.name \in OnSaveClasses
  <2>1. PICK d \in InForce : d.trigger.kind \in {"record_save", "record_delete"} /\ f.name \in Targets(d)
    BY <1>5, <1>6, RunOnSave
  <2>2. \E x \in Callouts(d, classes) : x.code = "callout_in_save_path" /\ f.name \in x.about
    BY <1>4, <1>5, <2>1, CalloutsAre
  <2> QED
    BY <1>3, <2>2
<1>7. CASE \E g \in org.files : /\ g.kind = "apex_class" /\ g.name \in OnSaveClasses
                                /\ g.callouts = {} /\ f.name \in g.classes
  <2>1. PICK g \in org.files : /\ g.kind = "apex_class" /\ g.name \in OnSaveClasses
                              /\ g.callouts = {} /\ f.name \in g.classes
    BY <1>7
  <2>2. g.name # None /\ g.name \in DOMAIN classes /\ classes[g.name] = g
    BY <1>2, <2>1
  <2>3. PICK d \in InForce : d.trigger.kind \in {"record_save", "record_delete"} /\ g.name \in Targets(d)
    BY <2>1, <2>2, RunOnSave
  <2>4. \E x \in Callouts(d, classes) : x.code = "callout_in_save_path" /\ f.name \in x.about
    BY <1>4, <1>5, <2>1, <2>2, <2>3, CalloutsAre
  <2> QED
    BY <1>3, <2>4
<1> QED
  BY <1>6, <1>7

\* What the org would drop or refuse is found in its files: an active rule's
\* alert to the owner where an active assignment rule hands records to a queue,
\* exactly, and a callout, directly or one class further, in what a save runs
\* (_check_owner_alerts, _check_callouts, over what build_process makes).
THEOREM HazardsAreReported == Spec => []SaveHazardsReported
<1>1. FiredInv => SaveHazardsReported
  <2>1. SUFFICES ASSUME FiredInv, pc = "next", todo = org.verify  PROVE
          /\ \A f \in {x \in org.files : x.kind = "workflow_rule"} : \A r \in ToSet(f.rules) :
                (r.active # "false" /\ AlertsOwner(f, r) /\ ToQueue(f.object)) <=>
                \E x \in HealthFindings : /\ x.code = "owner_alert_after_queue_assignment"
                                          /\ x.component = <<f.object, r.name>>
          /\ \A f \in {x \in org.files : CallsOut(x)} :
                (\/ f.name \in OnSaveClasses
                 \/ \E g \in org.files : /\ g.kind = "apex_class" /\ g.name \in OnSaveClasses
                                         /\ g.callouts = {} /\ f.name \in g.classes) =>
                \E x \in HealthFindings : x.code = "callout_in_save_path" /\ f.name \in x.about
    BY DEF SaveHazardsReported
  <2>2. pc # "extract"
    BY <2>1
  <2>3. ASSUME NEW f \in org.files, f.kind = "workflow_rule", NEW r \in ToSet(f.rules)
        PROVE  (r.active # "false" /\ AlertsOwner(f, r) /\ ToQueue(f.object)) <=>
               \E x \in HealthFindings : /\ x.code = "owner_alert_after_queue_assignment"
                                         /\ x.component = <<f.object, r.name>>
    BY <2>1, <2>2, <2>3, AlertsFound
  <2>4. ASSUME NEW f \in org.files, CallsOut(f),
               \/ f.name \in OnSaveClasses
               \/ \E g \in org.files : /\ g.kind = "apex_class" /\ g.name \in OnSaveClasses
                                       /\ g.callouts = {} /\ f.name \in g.classes
        PROVE  \E x \in HealthFindings : x.code = "callout_in_save_path" /\ f.name \in x.about
    BY <2>1, <2>2, <2>4, CalloutsFound
  <2> QED
    BY <2>3, <2>4
<1> QED
  BY <1>1, AlwaysFired, PTL

=============================================================================
