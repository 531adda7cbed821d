---------------------------- MODULE MCShadowMode ----------------------------
(***************************************************************************)
(* One subscriber on the channel of one record.  Two values of a field are *)
(* enough for a change.                                                    *)
(***************************************************************************)
EXTENDS ShadowMode

MCTopics == [w \in {"left"} |-> {"r1"}]

=============================================================================
