---------------------------- MODULE MCSfBackend ----------------------------
(***************************************************************************)
(* Two calls of the cutover process, which has twice the weight of the     *)
(* shadow process beside it.                                               *)
(***************************************************************************)
EXTENDS SfBackend

MCWeight == [p \in {"cutover", "shadow"} |-> IF p = "cutover" THEN 2 ELSE 1]

=============================================================================
