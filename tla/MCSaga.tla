------------------------------- MODULE MCSaga -------------------------------
(***************************************************************************)
(* One activity spec per branch of compensate: a reversible one with and   *)
(* one without a registered function, a log-only one, a human one.         *)
(***************************************************************************)
EXTENDS Saga

MCActivity == {"createRecord", "sendEmail", "unregistered", "llmCall", "payment"}
MCKindOf == [createRecord |-> "undo", sendEmail |-> "offset", unregistered |-> "undo",
             llmCall |-> "log_only", payment |-> "requires_human"]
MCHasFunction == [a \in MCActivity |-> a \in {"createRecord", "sendEmail"}]

=============================================================================
