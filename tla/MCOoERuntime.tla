---------------------------- MODULE MCOoERuntime ----------------------------
(***************************************************************************)
(* Two Accounts, an Account without an Id and a User (a setup object), with *)
(* a before-save computation, a validation rule, a workflow field update   *)
(* and a flow; the Surface Audit kept every step, or excluded the flows.   *)
(***************************************************************************)
EXTENDS OoERuntime

MCEntity == {"acme", "globex", "draft", "admin"}
MCSObjectOf == [acme |-> "Account", globex |-> "Account", draft |-> "Account", admin |-> "User"]
MCWithId == MCEntity \ {"draft"}
MCRule == {"fill", "check", "update", "flow", "grant"}
MCRuleObject == [fill |-> "Account", check |-> "Account", update |-> "Account",
                 flow |-> "Account", grant |-> "User"]
MCRuleStep == [fill |-> 5, check |-> 6, update |-> 12, flow |-> 13, grant |-> 9]
MCRuleKind == [r \in MCRule |-> IF r = "check" THEN "validation" ELSE "computation"]

MCScopes == {1..21, (1..21) \ {13}}

=============================================================================
