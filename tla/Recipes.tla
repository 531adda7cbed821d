------------------------------ MODULE Recipes ------------------------------
(***************************************************************************)
(* Recipes for verification (verify/recipes.py): the record to insert, and *)
(* the update to apply, that make one record-triggered flow fire, with the *)
(* object's required fields filled, the blanks its validation rules reject *)
(* filled and the other flows of the object kept quiet where that can be   *)
(* done.                                                                   *)
(*                                                                         *)
(* Abstracted: types are the five ways a value is found for them; values   *)
(* are tagged, <<"n", 3>> or <<"s", "text">>.                              *)
(***************************************************************************)
EXTENDS Integers, SequencesExt, ProcessIR

Null == <<"null">>
Text == <<"s", "Offramp verify">>

\* value_for.
ValueFor(node) ==
    CASE node.type = "reference" -> Null
      [] node.type = "picklist" -> IF node.picklist = <<>> THEN Null ELSE node.picklist[1]
      [] node.type = "boolean" -> <<"b", FALSE>>
      [] node.type = "number" -> <<"n", 1>>
      [] OTHER -> Text
OtherPick(node, avoid) ==
    LET others == SelectSeq(node.picklist, LAMBDA v : v # avoid) IN
    IF others = <<>> THEN Null ELSE others[1]

(* The builder: what to create, what to update, what is left to a reader.   *)

Builder == [create |-> <<>>, update |-> <<>>, needs |-> FALSE]
Set(b, f, v, onUpdate) ==
    IF onUpdate THEN [b EXCEPT !.update = (f :> v) @@ @] ELSE [b EXCEPT !.create = (f :> v) @@ @]
Has(b, f) == f \in DOMAIN b.create \cup DOMAIN b.update
Needs(b) == [b EXCEPT !.needs = TRUE]
Drop(g, fields) == [f \in DOMAIN g \ fields |-> g[f]]

\* _Builder.satisfy: one entry condition, on a field the schema lists.
Satisfy(b, c, node, onUpdate) ==
    LET v == ValueFor(node)
        other == OtherPick(node, c.right)
        number(n) == Set(b, c.field, <<"n", n>>, onUpdate) IN
    CASE c.field = None -> Needs(b)
      [] c.field # None /\ c.right[1] \in {"record", "var"} -> Needs(b)
      [] c.op \in {"EqualTo", "Contains"} /\ c.right[1] \notin {"record", "var"} ->
            Set(b, c.field, c.right, onUpdate)
      [] c.op = "NotEqualTo" /\ c.right[1] \notin {"record", "var"} ->
            Set(b, c.field, IF node.type = "picklist" /\ other # Null THEN other
                            ELSE IF c.right = Text THEN <<"s", "x">> ELSE v, onUpdate)
      [] c.op = "IsNull" /\ c.right = <<"b", TRUE>> ->
            [b EXCEPT !.create = Drop(@, {c.field}), !.update = Drop(@, {c.field})]
      [] c.op = "IsNull" /\ c.right = <<"b", FALSE>> ->
            IF v = Null THEN Needs(b) ELSE Set(b, c.field, v, onUpdate)
      [] c.op = "GreaterThan" -> number(c.right[2] + 1)
      [] c.op = "GreaterThanOrEqualTo" -> number(c.right[2])
      [] c.op = "LessThan" -> number(c.right[2] - 1)
      [] c.op = "LessThanOrEqualTo" -> number(c.right[2])
      [] c.op = "IsChanged" -> Set(Set(b, c.field, v, FALSE), c.field, <<"s", "changed">>, TRUE)
      [] OTHER -> Needs(b)

\* _Builder.required_fields.
Required(b, fields) ==
    LET open == {f \in DOMAIN fields : fields[f].required /\ fields[f].writable /\ ~Has(b, f)}
        fill(f, c) == IF ValueFor(fields[f]) = Null THEN Needs(c)
                      ELSE Set(c, f, ValueFor(fields[f]), FALSE) IN
    FoldSet(fill, b, open)

\* _validation_guards: a field whose blank a validation rule rejects.
Guarded(b, fields, blanks) ==
    FoldSet(LAMBDA f, c : IF f \notin DOMAIN fields \/ Has(c, f) \/ ValueFor(fields[f]) = Null THEN c
                          ELSE Set(c, f, ValueFor(fields[f]), FALSE),
            b, blanks)

\* _quiet_other_flows: of each sibling, the first equality that can be made
\* false without touching a field that already has a value.
\* Mutant: a field that has a value is overwritten.
CanSilenceAny(b, fields, c) ==
    /\ c.field \in DOMAIN fields /\ c.op = "EqualTo" /\ c.right[1] \notin {"record", "var"}
    /\ fields[c.field].type = "picklist" => OtherPick(fields[c.field], c.right) # Null
    /\ fields[c.field].type \in {"picklist", "text"}
CanSilence(b, fields, c) ==
    /\ c.field \in DOMAIN fields /\ c.op = "EqualTo" /\ c.right[1] \notin {"record", "var"}
    /\ ~Has(b, c.field)
    /\ fields[c.field].type = "picklist" => OtherPick(fields[c.field], c.right) # Null
    /\ fields[c.field].type \in {"picklist", "text"}
Quieted(b, fields, d) ==
    LET fit == SelectSeq(d.trigger.when, LAMBDA c : c.field # None /\ CanSilence(b, fields, c)) IN
    IF fit = <<>> \/ d.trigger.logic = "or" THEN b
    ELSE LET c == fit[1]
             node == fields[c.field] IN
         Set(b, c.field, IF node.type = "picklist" THEN OtherPick(node, c.right) ELSE <<"not", c.right>>,
             FALSE)
Siblings(d, object, defs) ==
    {n \in DOMAIN defs : /\ n # d.name /\ defs[n].kind = "record_triggered_flow"
                         /\ defs[n].trigger.kind = "record_save"
                         /\ defs[n].trigger.object = object}
Quiet(b, fields, d, object, defs) ==
    FoldSet(LAMBDA n, c : Quieted(c, fields, defs[n]), b, Siblings(d, object, defs))

\* What every recipe ends with.
Completed(b, fields, d, object, defs, blanks) ==
    Quiet(Guarded(Required(b, fields), fields, blanks), fields, d, object, defs)

\* _record_triggered: a flow that fires on update only needs its criteria met
\* by the update, and an update to happen at all.
OnUpdateOnly(d) == d.trigger.events # <<>> /\ ~Contains(d.trigger.events, "create")
Touch(b, fields) ==
    LET texts == {f \in DOMAIN fields : fields[f].type = "text"} IN
    IF texts = {} THEN b ELSE Set(b, CHOOSE f \in texts : TRUE, <<"s", "updated">>, TRUE)
RecordRecipe(d, fields, defs, blanks) ==
    LET conds == IF d.trigger.logic = "or" /\ d.trigger.when # <<>>
                 THEN <<d.trigger.when[1]>> ELSE d.trigger.when
        onUpdate == OnUpdateOnly(d)
        own == FoldLeft(LAMBDA b, c : Satisfy(b, c, IF c.field \in DOMAIN fields THEN fields[c.field]
                                                    ELSE [type |-> "text", picklist |-> <<>>], onUpdate),
                        Builder, conds)
        full == Completed(own, fields, d, d.trigger.object, defs, blanks)
        moved == IF onUpdate /\ full.update = <<>> THEN Touch(full, fields) ELSE full IN
    IF onUpdate /\ d.trigger.changed
    THEN [moved EXCEPT !.create = Drop(@, DOMAIN moved.update)] ELSE moved

\* _autolaunched: an input that takes a record's id is given a fresh record of
\* the object the flow looks up first.
AutolaunchedRecipe(d, fields, defs, blanks) ==
    LET lookups == SelectSeq(d.steps, LAMBDA s : s.kind = "lookup" /\ s.object # None) IN
    IF lookups = <<>> \/ d.recordInput = None THEN Builder
    ELSE Completed(Builder, fields[lookups[1].object], d, lookups[1].object, defs, blanks)

=============================================================================
