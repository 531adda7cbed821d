------------------------------ MODULE MCCutover ------------------------------
(***************************************************************************)
(* Small instances of Cutover: the CronJob and one person, two seeds whose *)
(* buckets straddle the stages, dwells scaled from hours to ticks (48, 24, *)
(* 12 and 6 hours become 1, 1, 0 and 0), one verdict per branch of         *)
(* evaluate.                                                               *)
(***************************************************************************)
EXTENDS Cutover

CONSTANTS cron, sre

MCWorker == {cron, sre}
MCSeed == {"a", "b"}
MCRecord == {"r1", "r2"}
MCBucket == [s \in MCSeed |-> IF s = "a" THEN [r1 |-> 0, r2 |-> 60]
                                         ELSE [r1 |-> 30, r2 |-> 3]]
MCOneSeedBucket == [s \in {"a"} |-> MCBucket["a"]]
MCDwell == [s \in Stages |-> CASE s = 1 -> 1 [] s = 5 -> 1 [] OTHER -> 0]
MCVerdict == {[score |-> 99, eligible |-> TRUE],
              [score |-> 92, eligible |-> FALSE],
              [score |-> 80, eligible |-> FALSE]}

==============================================================================
