------------------------------ MODULE OrgProofs ------------------------------
(***************************************************************************)
(* Theorems about the dependency graph of an org, about the questions and  *)
(* commands that read it, for every org:                                   *)
(*   - a reference is traced, a custom field is never made up;             *)
(*   - the two reports about unused fields agree, a dead class has no      *)
(*     caller, the save report does not depend on an order;                *)
(*   - the change closure leaves nothing out;                              *)
(*   - the annotation pass keeps the model's rate limit and loses no       *)
(*     answer.                                                             *)
(*                                                                         *)
(* The graph is built by folds over sets whose results no theorem of the   *)
(* library types.  What is proved of a fold is what each of its steps      *)
(* keeps: the first sections turn the folds into steps, the next go        *)
(* through the steps, and GraphInv puts them together.                     *)
(***************************************************************************)
EXTENDS Annotate, FoldLemmas

------------------------------------------------------------------------------
(* The folds of the graph.  A fold takes one element out of a set after the *)
(* other; each element is one Step, of a pass that is about something.      *)

Step(pass, of, v, x) ==
    CASE pass = "lookup"   -> AddEdge(v, x[1], Obj(x[2]), "references", "schema", 100, {"lookup"})
      [] pass = "row"      -> AddRow(v, x)
      [] pass = "class"    -> AddEdge(v, Row(of), Comp(x), "calls", "cmt_record", 100, {x.name})
      [] pass = "value"    -> Hosted(v, of, x)
      [] pass = "reader"   -> AddEdge(v, Comp(x), Row(of), "references", "cmt_record", 80, {"reads"})
      [] pass = "hop"      -> Hop(v, of.component, of.path, of.order[x])
      [] pass = "path"     -> LinkField(v, of.component, of.order[x])
      [] pass = "object"   -> AddObject(v, of, x)
      [] pass = "use"      -> AddUse(v, of, x)
      [] pass = "global"   -> AddGlobal(v, of, x)
      [] pass = "dispatch" -> AddEdge(v, Comp(of[x]), Found(Named({"apex_class"}, x.handler)),
                                      "dispatches", "cmt_dispatch", x.sure, {x.prefix})
      [] pass = "cron"     -> AddCron(v, x)
      [] pass = "written"  -> Write(v, of.order[x], of.dist, of.conf)
      [] pass = "considered" -> Considered(v, of[x])

Stepwise(pass, of, S, pick, base, it) ==
    it = [s \in SUBSET S |-> IF s = {} THEN base
                             ELSE Step(pass, of, it[s \ {pick[s]}], pick[s])]

\* The LET of a fold is well founded, whatever its steps return.
LEMMA StepwiseExists ==
    ASSUME NEW pass, NEW of, NEW S, IsFiniteSet(S), NEW base,
           NEW pick, \A s \in SUBSET S : s # {} => pick[s] \in s
    PROVE  \E it : Stepwise(pass, of, S, pick, base, it)
<1> DEFINE Upto(n) == {s \in SUBSET S : Cardinality(s) <= n}
           Onward(it, s) == IF s = {} THEN base ELSE Step(pass, of, it[s \ {pick[s]}], pick[s])
           Reachable == {n \in Nat : \E it : it = [s \in Upto(n) |-> Onward(it, s)]}
<1>1. \A s \in SUBSET S : IsFiniteSet(s) /\ Cardinality(s) \in Nat
  BY FS_Subset, FS_CardinalityType
<1>2. \A s \in SUBSET S : s # {} =>
          /\ s \ {pick[s]} \in SUBSET S
          /\ Cardinality(s \ {pick[s]}) = Cardinality(s) - 1
  BY <1>1, FS_RemoveElement
<1>3. 0 \in Reachable
  <2> DEFINE it == [s \in Upto(0) |-> base]
  <2>1. \A s \in Upto(0) : s = {}
    BY <1>1, FS_EmptySet
  <2>2. it = [s \in Upto(0) |-> Onward(it, s)]
    BY <2>1, Zenon
  <2> HIDE DEF it
  <2> QED
    BY <2>2
<1>4. ASSUME NEW n \in Nat, n \in Reachable  PROVE n + 1 \in Reachable
  <2>1. PICK it : it = [s \in Upto(n) |-> Onward(it, s)]
    BY <1>4
  <2> DEFINE jt == [s \in Upto(n + 1) |-> Onward(it, s)]
  <2>2. \A s \in Upto(n + 1) : s # {} => s \ {pick[s]} \in Upto(n)
    BY <1>1, <1>2
  <2>3. \A s \in Upto(n) : s \in Upto(n + 1)
    BY <1>1
  <2>4. \A s \in Upto(n) : jt[s] = it[s]
    <3> HIDE DEF Onward
    <3> QED
      BY <2>1, <2>3, Zenon
  <2>5. \A s \in Upto(n + 1) : Onward(jt, s) = Onward(it, s)
    <3>1. ASSUME NEW s \in Upto(n + 1), s # {}  PROVE jt[s \ {pick[s]}] = it[s \ {pick[s]}]
      BY <2>2, <2>4, <3>1
    <3> HIDE DEF jt
    <3> QED
      BY <3>1
  <2>6. jt = [s \in Upto(n + 1) |-> Onward(jt, s)]
    <3> HIDE DEF Onward, Upto
    <3> QED
      BY <2>5, Zenon
  <2>7. n + 1 \in Nat
    OBVIOUS
  <2> HIDE DEF jt, Onward, Upto
  <2> QED
    BY <2>6, <2>7
<1> HIDE DEF Reachable
<1>5. \A n \in Nat : n \in Reachable
  BY <1>3, <1>4, CountingUp
<1>6. Cardinality(S) \in Nat /\ Upto(Cardinality(S)) = SUBSET S
  BY FS_Subset, FS_CardinalityType
<1>7. PICK it : it = [s \in SUBSET S |-> Onward(it, s)]
  <2>1. Cardinality(S) \in Reachable
    BY <1>5, <1>6
  <2> HIDE DEF Upto, Onward
  <2>2. PICK it : it = [s \in Upto(Cardinality(S)) |-> Onward(it, s)]
    BY <2>1, Zenon DEF Reachable
  <2> QED
    BY <1>6, <2>2, Zenon
<1> QED
  BY <1>7, Zenon DEF Stepwise

\* What the LET of a fold over a set is, for one of the passes.
Folded(pass, of, S, base, f) ==
    f = [s \in SUBSET S |-> IF s = {} THEN base
                            ELSE Step(pass, of, f[s \ {CHOOSE x \in s : TRUE}], CHOOSE x \in s : TRUE)]

LEMMA FoldedExists ==
    ASSUME NEW pass, NEW of, NEW S, IsFiniteSet(S), NEW base
    PROVE  \E f : Folded(pass, of, S, base, f)
<1>1. PICK pick : pick = [s \in SUBSET S |-> CHOOSE x \in s : TRUE]
  OBVIOUS
<1>2. \A s \in SUBSET S : pick[s] = CHOOSE x \in s : TRUE
  BY <1>1, Zenon
<1>3. \A s \in SUBSET S : s # {} => pick[s] \in s
  BY <1>2, Zenon
<1>4. PICK f : Stepwise(pass, of, S, pick, base, f)
  BY <1>3, StepwiseExists
<1>5. ASSUME NEW s \in SUBSET S
      PROVE  (IF s = {} THEN base ELSE Step(pass, of, f[s \ {pick[s]}], pick[s]))
             = (IF s = {} THEN base
                ELSE Step(pass, of, f[s \ {CHOOSE x \in s : TRUE}], CHOOSE x \in s : TRUE))
  BY <1>2, Zenon
<1>6. Folded(pass, of, S, base, f)
  BY <1>4, <1>5, Zenon DEF Stepwise, Folded
<1> QED
  BY <1>6

\* The same of a fold over a sequence, which takes the greatest position out.
FoldedLast(pass, of, S, base, f) ==
    f = [s \in SUBSET S |-> IF s = {} THEN base ELSE Step(pass, of, f[s \ {Max(s)}], Max(s))]

LEMMA FoldedLastExists ==
    ASSUME NEW pass, NEW of, NEW n \in Nat, NEW base
    PROVE  \E f : FoldedLast(pass, of, 1..n, base, f)
<1>1. PICK pick : pick = [s \in SUBSET (1..n) |-> Max(s)]
  OBVIOUS
<1>2. \A s \in SUBSET (1..n) : pick[s] = Max(s)
  BY <1>1, Zenon
<1>3. \A s \in SUBSET (1..n) : s # {} => pick[s] \in s
  BY <1>2, MaxOfPositions
<1>4. PICK f : Stepwise(pass, of, 1..n, pick, base, f)
  <2>1. IsFiniteSet(1..n)
    BY FS_Interval
  <2> QED
    BY <1>3, <2>1, StepwiseExists
<1>5. ASSUME NEW s \in SUBSET (1..n)
      PROVE  (IF s = {} THEN base ELSE Step(pass, of, f[s \ {pick[s]}], pick[s]))
             = (IF s = {} THEN base ELSE Step(pass, of, f[s \ {Max(s)}], Max(s)))
  BY <1>2, Zenon
<1>6. FoldedLast(pass, of, 1..n, base, f)
  BY <1>4, <1>5, Zenon DEF Stepwise, FoldedLast
<1> QED
  BY <1>6

\* What is needed of either: each subset is one step from one with an element less.
Taken(pass, of, S, base, f) ==
    /\ f[{}] = base
    /\ \A s \in SUBSET S : s # {} => \E x \in s : f[s] = Step(pass, of, f[s \ {x}], x)

LEMMA FoldedTakes ==
    ASSUME NEW pass, NEW of, NEW S, NEW base, NEW f, Folded(pass, of, S, base, f)
    PROVE  Taken(pass, of, S, base, f)
<1>1. \A s \in SUBSET S :
          f[s] = IF s = {} THEN base
                 ELSE Step(pass, of, f[s \ {CHOOSE x \in s : TRUE}], CHOOSE x \in s : TRUE)
  BY Zenon DEF Folded
<1>2. f[{}] = base
  BY <1>1, Zenon
<1>3. ASSUME NEW s \in SUBSET S, s # {}
      PROVE  \E x \in s : f[s] = Step(pass, of, f[s \ {x}], x)
  <2>1. PICK x : x = CHOOSE y \in s : TRUE
    OBVIOUS
  <2>2. x \in s
    BY <1>3, <2>1, Zenon
  <2>3. f[s] = Step(pass, of, f[s \ {x}], x)
    BY <1>1, <1>3, <2>1, Zenon
  <2> QED
    BY <2>2, <2>3
<1> QED
  BY <1>2, <1>3 DEF Taken

LEMMA FoldedLastTakes ==
    ASSUME NEW pass, NEW of, NEW n \in Nat, NEW base, NEW f, FoldedLast(pass, of, 1..n, base, f)
    PROVE  Taken(pass, of, 1..n, base, f)
<1>1. \A s \in SUBSET (1..n) :
          f[s] = IF s = {} THEN base ELSE Step(pass, of, f[s \ {Max(s)}], Max(s))
  BY Zenon DEF FoldedLast
<1>2. f[{}] = base
  BY <1>1, Zenon
<1>3. ASSUME NEW s \in SUBSET (1..n), s # {}
      PROVE  \E x \in s : f[s] = Step(pass, of, f[s \ {x}], x)
  <2>1. Max(s) \in s
    BY <1>3, MaxOfPositions
  <2>2. f[s] = Step(pass, of, f[s \ {Max(s)}], Max(s))
    BY <1>1, <1>3
  <2> QED
    BY <2>1, <2>2
<1> QED
  BY <1>2, <1>3 DEF Taken

------------------------------------------------------------------------------
(* Each fold of the graph is such a fold.                                   *)

LookupsPass(g, S) == FoldSet(LAMBDA l, h : AddEdge(h, l[1], Obj(l[2]), "references", "schema", 100, {"lookup"}), g, S)
LEMMA LookupsFold ==
    ASSUME NEW g, NEW S, IsFiniteSet(S)
    PROVE  \E f : Taken("lookup", 0, S, g, f) /\ LookupsPass(g, S) = f[S]
<1> DEFINE x(s) == CHOOSE y \in s : TRUE
           After(f, s) == IF s = {} THEN g ELSE AddEdge(f[s \ {x(s)}], x(s)[1], Obj(x(s)[2]), "references", "schema", 100, {"lookup"})
<1>1. ASSUME NEW f, NEW s
      PROVE  (IF s = {} THEN g ELSE Step("lookup", 0, f[s \ {x(s)}], x(s))) = After(f, s)
  <2> HIDE DEF x
  <2> QED
    BY DEF Step
<1>2. ASSUME NEW f  PROVE f = [s \in SUBSET S |-> After(f, s)] <=> Folded("lookup", 0, S, g, f)
  <2> HIDE DEF After
  <2> QED
    BY <1>1, Zenon DEF Folded
<1>3. PICK f : f = CHOOSE e : e = [s \in SUBSET S |-> After(e, s)]
  OBVIOUS
<1>4. Folded("lookup", 0, S, g, f)
  <2> HIDE DEF After
  <2> QED
    BY <1>2, <1>3, FoldedExists, Zenon
<1> QED
  BY <1>3, <1>4, FoldedTakes, Zenon DEF LookupsPass, FoldSet, MapThenFoldSet

RowsPass(g, S) == FoldSet(LAMBDA r, h : AddRow(h, r), g, S)
LEMMA RowsFold ==
    ASSUME NEW g, NEW S, IsFiniteSet(S)
    PROVE  \E f : Taken("row", 0, S, g, f) /\ RowsPass(g, S) = f[S]
<1> DEFINE x(s) == CHOOSE y \in s : TRUE
           After(f, s) == IF s = {} THEN g ELSE AddRow(f[s \ {x(s)}], x(s))
<1>1. ASSUME NEW f, NEW s
      PROVE  (IF s = {} THEN g ELSE Step("row", 0, f[s \ {x(s)}], x(s))) = After(f, s)
  <2> HIDE DEF x
  <2> QED
    BY DEF Step
<1>2. ASSUME NEW f  PROVE f = [s \in SUBSET S |-> After(f, s)] <=> Folded("row", 0, S, g, f)
  <2> HIDE DEF After
  <2> QED
    BY <1>1, Zenon DEF Folded
<1>3. PICK f : f = CHOOSE e : e = [s \in SUBSET S |-> After(e, s)]
  OBVIOUS
<1>4. Folded("row", 0, S, g, f)
  <2> HIDE DEF After
  <2> QED
    BY <1>2, <1>3, FoldedExists, Zenon
<1> QED
  BY <1>3, <1>4, FoldedTakes, Zenon DEF RowsPass, FoldSet, MapThenFoldSet

ClassesPass(g, r, S) == FoldSet(LAMBDA c, h : AddEdge(h, Row(r), Comp(c), "calls", "cmt_record", 100, {c.name}), g, S)
LEMMA ClassesFold ==
    ASSUME NEW g, NEW r, NEW S, IsFiniteSet(S)
    PROVE  \E f : Taken("class", r, S, g, f) /\ ClassesPass(g, r, S) = f[S]
<1> DEFINE x(s) == CHOOSE y \in s : TRUE
           After(f, s) == IF s = {} THEN g ELSE AddEdge(f[s \ {x(s)}], Row(r), Comp(x(s)), "calls", "cmt_record", 100, {x(s).name})
<1>1. ASSUME NEW f, NEW s
      PROVE  (IF s = {} THEN g ELSE Step("class", r, f[s \ {x(s)}], x(s))) = After(f, s)
  <2> HIDE DEF x
  <2> QED
    BY DEF Step
<1>2. ASSUME NEW f  PROVE f = [s \in SUBSET S |-> After(f, s)] <=> Folded("class", r, S, g, f)
  <2> HIDE DEF After
  <2> QED
    BY <1>1, Zenon DEF Folded
<1>3. PICK f : f = CHOOSE e : e = [s \in SUBSET S |-> After(e, s)]
  OBVIOUS
<1>4. Folded("class", r, S, g, f)
  <2> HIDE DEF After
  <2> QED
    BY <1>2, <1>3, FoldedExists, Zenon
<1> QED
  BY <1>3, <1>4, FoldedTakes, Zenon DEF ClassesPass, FoldSet, MapThenFoldSet

ValuesPass(g, r, S) == FoldSet(LAMBDA v, h : Hosted(h, r, v), g, S)
LEMMA ValuesFold ==
    ASSUME NEW g, NEW r, NEW S, IsFiniteSet(S)
    PROVE  \E f : Taken("value", r, S, g, f) /\ ValuesPass(g, r, S) = f[S]
<1> DEFINE x(s) == CHOOSE y \in s : TRUE
           After(f, s) == IF s = {} THEN g ELSE Hosted(f[s \ {x(s)}], r, x(s))
<1>1. ASSUME NEW f, NEW s
      PROVE  (IF s = {} THEN g ELSE Step("value", r, f[s \ {x(s)}], x(s))) = After(f, s)
  <2> HIDE DEF x
  <2> QED
    BY DEF Step
<1>2. ASSUME NEW f  PROVE f = [s \in SUBSET S |-> After(f, s)] <=> Folded("value", r, S, g, f)
  <2> HIDE DEF After
  <2> QED
    BY <1>1, Zenon DEF Folded
<1>3. PICK f : f = CHOOSE e : e = [s \in SUBSET S |-> After(e, s)]
  OBVIOUS
<1>4. Folded("value", r, S, g, f)
  <2> HIDE DEF After
  <2> QED
    BY <1>2, <1>3, FoldedExists, Zenon
<1> QED
  BY <1>3, <1>4, FoldedTakes, Zenon DEF ValuesPass, FoldSet, MapThenFoldSet

ReadersPass(g, r, S) == FoldSet(LAMBDA c, h : AddEdge(h, Comp(c), Row(r), "references", "cmt_record", 80, {"reads"}), g, S)
LEMMA ReadersFold ==
    ASSUME NEW g, NEW r, NEW S, IsFiniteSet(S)
    PROVE  \E f : Taken("reader", r, S, g, f) /\ ReadersPass(g, r, S) = f[S]
<1> DEFINE x(s) == CHOOSE y \in s : TRUE
           After(f, s) == IF s = {} THEN g ELSE AddEdge(f[s \ {x(s)}], Comp(x(s)), Row(r), "references", "cmt_record", 80, {"reads"})
<1>1. ASSUME NEW f, NEW s
      PROVE  (IF s = {} THEN g ELSE Step("reader", r, f[s \ {x(s)}], x(s))) = After(f, s)
  <2> HIDE DEF x
  <2> QED
    BY DEF Step
<1>2. ASSUME NEW f  PROVE f = [s \in SUBSET S |-> After(f, s)] <=> Folded("reader", r, S, g, f)
  <2> HIDE DEF After
  <2> QED
    BY <1>1, Zenon DEF Folded
<1>3. PICK f : f = CHOOSE e : e = [s \in SUBSET S |-> After(e, s)]
  OBVIOUS
<1>4. Folded("reader", r, S, g, f)
  <2> HIDE DEF After
  <2> QED
    BY <1>2, <1>3, FoldedExists, Zenon
<1> QED
  BY <1>3, <1>4, FoldedTakes, Zenon DEF ReadersPass, FoldSet, MapThenFoldSet

ObjectsPass(g, c, S) == FoldSet(LAMBDA r, h : AddObject(h, c, r), g, S)
LEMMA ObjectsFold ==
    ASSUME NEW g, NEW c, NEW S, IsFiniteSet(S)
    PROVE  \E f : Taken("object", c, S, g, f) /\ ObjectsPass(g, c, S) = f[S]
<1> DEFINE x(s) == CHOOSE y \in s : TRUE
           After(f, s) == IF s = {} THEN g ELSE AddObject(f[s \ {x(s)}], c, x(s))
<1>1. ASSUME NEW f, NEW s
      PROVE  (IF s = {} THEN g ELSE Step("object", c, f[s \ {x(s)}], x(s))) = After(f, s)
  <2> HIDE DEF x
  <2> QED
    BY DEF Step
<1>2. ASSUME NEW f  PROVE f = [s \in SUBSET S |-> After(f, s)] <=> Folded("object", c, S, g, f)
  <2> HIDE DEF After
  <2> QED
    BY <1>1, Zenon DEF Folded
<1>3. PICK f : f = CHOOSE e : e = [s \in SUBSET S |-> After(e, s)]
  OBVIOUS
<1>4. Folded("object", c, S, g, f)
  <2> HIDE DEF After
  <2> QED
    BY <1>2, <1>3, FoldedExists, Zenon
<1> QED
  BY <1>3, <1>4, FoldedTakes, Zenon DEF ObjectsPass, FoldSet, MapThenFoldSet

UsesPass(g, c, S) == FoldSet(LAMBDA u, h : AddUse(h, c, u), g, S)
LEMMA UsesFold ==
    ASSUME NEW g, NEW c, NEW S, IsFiniteSet(S)
    PROVE  \E f : Taken("use", c, S, g, f) /\ UsesPass(g, c, S) = f[S]
<1> DEFINE x(s) == CHOOSE y \in s : TRUE
           After(f, s) == IF s = {} THEN g ELSE AddUse(f[s \ {x(s)}], c, x(s))
<1>1. ASSUME NEW f, NEW s
      PROVE  (IF s = {} THEN g ELSE Step("use", c, f[s \ {x(s)}], x(s))) = After(f, s)
  <2> HIDE DEF x
  <2> QED
    BY DEF Step
<1>2. ASSUME NEW f  PROVE f = [s \in SUBSET S |-> After(f, s)] <=> Folded("use", c, S, g, f)
  <2> HIDE DEF After
  <2> QED
    BY <1>1, Zenon DEF Folded
<1>3. PICK f : f = CHOOSE e : e = [s \in SUBSET S |-> After(e, s)]
  OBVIOUS
<1>4. Folded("use", c, S, g, f)
  <2> HIDE DEF After
  <2> QED
    BY <1>2, <1>3, FoldedExists, Zenon
<1> QED
  BY <1>3, <1>4, FoldedTakes, Zenon DEF UsesPass, FoldSet, MapThenFoldSet

GlobalsPass(g, c, S) == FoldSet(LAMBDA r, h : AddGlobal(h, c, r), g, S)
LEMMA GlobalsFold ==
    ASSUME NEW g, NEW c, NEW S, IsFiniteSet(S)
    PROVE  \E f : Taken("global", c, S, g, f) /\ GlobalsPass(g, c, S) = f[S]
<1> DEFINE x(s) == CHOOSE y \in s : TRUE
           After(f, s) == IF s = {} THEN g ELSE AddGlobal(f[s \ {x(s)}], c, x(s))
<1>1. ASSUME NEW f, NEW s
      PROVE  (IF s = {} THEN g ELSE Step("global", c, f[s \ {x(s)}], x(s))) = After(f, s)
  <2> HIDE DEF x
  <2> QED
    BY DEF Step
<1>2. ASSUME NEW f  PROVE f = [s \in SUBSET S |-> After(f, s)] <=> Folded("global", c, S, g, f)
  <2> HIDE DEF After
  <2> QED
    BY <1>1, Zenon DEF Folded
<1>3. PICK f : f = CHOOSE e : e = [s \in SUBSET S |-> After(e, s)]
  OBVIOUS
<1>4. Folded("global", c, S, g, f)
  <2> HIDE DEF After
  <2> QED
    BY <1>2, <1>3, FoldedExists, Zenon
<1> QED
  BY <1>3, <1>4, FoldedTakes, Zenon DEF GlobalsPass, FoldSet, MapThenFoldSet

DispatchesPass(g, from, S) == FoldSet(LAMBDA d, h : AddEdge(h, Comp(from[d]), Found(Named({"apex_class"}, d.handler)), "dispatches", "cmt_dispatch", d.sure, {d.prefix}), g, S)
LEMMA DispatchesFold ==
    ASSUME NEW g, NEW from, NEW S, IsFiniteSet(S)
    PROVE  \E f : Taken("dispatch", from, S, g, f) /\ DispatchesPass(g, from, S) = f[S]
<1> DEFINE x(s) == CHOOSE y \in s : TRUE
           After(f, s) == IF s = {} THEN g ELSE AddEdge(f[s \ {x(s)}], Comp(from[x(s)]), Found(Named({"apex_class"}, x(s).handler)), "dispatches", "cmt_dispatch", x(s).sure, {x(s).prefix})
<1>1. ASSUME NEW f, NEW s
      PROVE  (IF s = {} THEN g ELSE Step("dispatch", from, f[s \ {x(s)}], x(s))) = After(f, s)
  <2> HIDE DEF x
  <2> QED
    BY DEF Step
<1>2. ASSUME NEW f  PROVE f = [s \in SUBSET S |-> After(f, s)] <=> Folded("dispatch", from, S, g, f)
  <2> HIDE DEF After
  <2> QED
    BY <1>1, Zenon DEF Folded
<1>3. PICK f : f = CHOOSE e : e = [s \in SUBSET S |-> After(e, s)]
  OBVIOUS
<1>4. Folded("dispatch", from, S, g, f)
  <2> HIDE DEF After
  <2> QED
    BY <1>2, <1>3, FoldedExists, Zenon
<1> QED
  BY <1>3, <1>4, FoldedTakes, Zenon DEF DispatchesPass, FoldSet, MapThenFoldSet

CronsPass(g, S) == FoldSet(LAMBDA n, h : AddCron(h, n), g, S)
LEMMA CronsFold ==
    ASSUME NEW g, NEW S, IsFiniteSet(S)
    PROVE  \E f : Taken("cron", 0, S, g, f) /\ CronsPass(g, S) = f[S]
<1> DEFINE x(s) == CHOOSE y \in s : TRUE
           After(f, s) == IF s = {} THEN g ELSE AddCron(f[s \ {x(s)}], x(s))
<1>1. ASSUME NEW f, NEW s
      PROVE  (IF s = {} THEN g ELSE Step("cron", 0, f[s \ {x(s)}], x(s))) = After(f, s)
  <2> HIDE DEF x
  <2> QED
    BY DEF Step
<1>2. ASSUME NEW f  PROVE f = [s \in SUBSET S |-> After(f, s)] <=> Folded("cron", 0, S, g, f)
  <2> HIDE DEF After
  <2> QED
    BY <1>1, Zenon DEF Folded
<1>3. PICK f : f = CHOOSE e : e = [s \in SUBSET S |-> After(e, s)]
  OBVIOUS
<1>4. Folded("cron", 0, S, g, f)
  <2> HIDE DEF After
  <2> QED
    BY <1>2, <1>3, FoldedExists, Zenon
<1> QED
  BY <1>3, <1>4, FoldedTakes, Zenon DEF CronsPass, FoldSet, MapThenFoldSet

HopsPass(base, c, path, seq) == FoldLeft(LAMBDA w, i : Hop(w, c, path, i), base, seq)
LEMMA HopsFold ==
    ASSUME NEW c, NEW path, NEW base, NEW seq, NEW n \in Nat, DOMAIN seq = 1..n
    PROVE  \E f : FoldedLast("hop", [component |-> c, path |-> path, order |-> seq], 1..n, base, f)
                  /\ HopsPass(base, c, path, seq) = f[1..n]
<1> DEFINE After(f, s) == IF s = {} THEN base ELSE Hop(f[s \ {Max(s)}], c, path, seq[Max(s)])
<1>1. ASSUME NEW f, NEW s
      PROVE  (IF s = {} THEN base ELSE Step("hop", [component |-> c, path |-> path, order |-> seq], f[s \ {Max(s)}], Max(s))) = After(f, s)
  BY DEF Step
<1>2. ASSUME NEW f
      PROVE  f = [s \in SUBSET (1..n) |-> After(f, s)] <=> FoldedLast("hop", [component |-> c, path |-> path, order |-> seq], 1..n, base, f)
  BY <1>1, Zenon DEF FoldedLast
<1>3. PICK f : f = CHOOSE e : e = [s \in SUBSET DOMAIN seq |-> After(e, s)]
  OBVIOUS
<1>4. FoldedLast("hop", [component |-> c, path |-> path, order |-> seq], 1..n, base, f)
  <2> HIDE DEF After
  <2> QED
    BY <1>2, <1>3, FoldedLastExists, Zenon
<1>5. f[1..n] = f[DOMAIN seq]
  OBVIOUS
<1> QED
  BY <1>3, <1>4, <1>5, Zenon DEF HopsPass, FoldLeft, MapThenFoldSet

PathsPass(base, c, seq) == FoldLeft(LAMBDA h, r : LinkField(h, c, r), base, seq)
LEMMA PathsFold ==
    ASSUME NEW c, NEW base, NEW seq, NEW n \in Nat, DOMAIN seq = 1..n
    PROVE  \E f : FoldedLast("path", [component |-> c, order |-> seq], 1..n, base, f)
                  /\ PathsPass(base, c, seq) = f[1..n]
<1> DEFINE After(f, s) == IF s = {} THEN base ELSE LinkField(f[s \ {Max(s)}], c, seq[Max(s)])
<1>1. ASSUME NEW f, NEW s
      PROVE  (IF s = {} THEN base ELSE Step("path", [component |-> c, order |-> seq], f[s \ {Max(s)}], Max(s))) = After(f, s)
  BY DEF Step
<1>2. ASSUME NEW f
      PROVE  f = [s \in SUBSET (1..n) |-> After(f, s)] <=> FoldedLast("path", [component |-> c, order |-> seq], 1..n, base, f)
  BY <1>1, Zenon DEF FoldedLast
<1>3. PICK f : f = CHOOSE e : e = [s \in SUBSET DOMAIN seq |-> After(e, s)]
  OBVIOUS
<1>4. FoldedLast("path", [component |-> c, order |-> seq], 1..n, base, f)
  <2> HIDE DEF After
  <2> QED
    BY <1>2, <1>3, FoldedLastExists, Zenon
<1>5. f[1..n] = f[DOMAIN seq]
  OBVIOUS
<1> QED
  BY <1>3, <1>4, <1>5, Zenon DEF PathsPass, FoldLeft, MapThenFoldSet

WritesPass(base, dist, conf, seq) == FoldLeft(LAMBDA v, k : Write(v, k, dist, conf), base, seq)
LEMMA WritesFold ==
    ASSUME NEW dist, NEW conf, NEW base, NEW seq, NEW n \in Nat, DOMAIN seq = 1..n
    PROVE  \E f : FoldedLast("written", [order |-> seq, dist |-> dist, conf |-> conf], 1..n, base, f)
                  /\ WritesPass(base, dist, conf, seq) = f[1..n]
<1> DEFINE After(f, s) == IF s = {} THEN base ELSE Write(f[s \ {Max(s)}], seq[Max(s)], dist, conf)
<1>1. ASSUME NEW f, NEW s
      PROVE  (IF s = {} THEN base ELSE Step("written", [order |-> seq, dist |-> dist, conf |-> conf], f[s \ {Max(s)}], Max(s))) = After(f, s)
  BY DEF Step
<1>2. ASSUME NEW f
      PROVE  f = [s \in SUBSET (1..n) |-> After(f, s)] <=> FoldedLast("written", [order |-> seq, dist |-> dist, conf |-> conf], 1..n, base, f)
  BY <1>1, Zenon DEF FoldedLast
<1>3. PICK f : f = CHOOSE e : e = [s \in SUBSET DOMAIN seq |-> After(e, s)]
  OBVIOUS
<1>4. FoldedLast("written", [order |-> seq, dist |-> dist, conf |-> conf], 1..n, base, f)
  <2> HIDE DEF After
  <2> QED
    BY <1>2, <1>3, FoldedLastExists, Zenon
<1>5. f[1..n] = f[DOMAIN seq]
  OBVIOUS
<1> QED
  BY <1>3, <1>4, <1>5, Zenon DEF WritesPass, FoldLeft, MapThenFoldSet

ConsiderPass(base, seq) == FoldLeft(Considered, base, seq)
LEMMA ConsiderFold ==
    ASSUME NEW base, NEW seq, NEW n \in Nat, DOMAIN seq = 1..n
    PROVE  \E f : FoldedLast("considered", seq, 1..n, base, f) /\ ConsiderPass(base, seq) = f[1..n]
<1> DEFINE After(f, s) == IF s = {} THEN base ELSE Considered(f[s \ {Max(s)}], seq[Max(s)])
<1>1. ASSUME NEW f, NEW s
      PROVE  (IF s = {} THEN base ELSE Step("considered", seq, f[s \ {Max(s)}], Max(s))) = After(f, s)
  BY DEF Step
<1>2. ASSUME NEW f
      PROVE  f = [s \in SUBSET (1..n) |-> After(f, s)] <=> FoldedLast("considered", seq, 1..n, base, f)
  BY <1>1, Zenon DEF FoldedLast
<1>3. PICK f : f = CHOOSE e : e = [s \in SUBSET DOMAIN seq |-> After(e, s)]
  OBVIOUS
<1>4. FoldedLast("considered", seq, 1..n, base, f)
  <2> HIDE DEF After
  <2> QED
    BY <1>2, <1>3, FoldedLastExists, Zenon
<1>5. f[1..n] = f[DOMAIN seq]
  OBVIOUS
<1> QED
  BY <1>3, <1>4, <1>5, Zenon DEF ConsiderPass, FoldLeft, MapThenFoldSet

------------------------------------------------------------------------------
(* What every graph of the build is, and how one pass leaves the next: what *)
(* was linked, noted, known or missed stays so.                             *)

NodeTag == {"component", "object", "field", "external", "cmt_record"}
Node(n) ==
    /\ n[1] \in NodeTag
    /\ IsComponent(n) => \E c \in org.components : n = Comp(c)
    /\ n[1] = "external" => n[2] # "lwc_bundle"

\* What an edge may say.  Only an automation writes, and never an automation; an
\* edge from an automation to a field tells how it uses the field and nothing of when
\* it fires; nothing owns an automation; and a class a bundle calls is one it imports.
EdgeKind == {"references", "calls", "triggers", "dispatches", "owns"}
Timing == {"before", "after", "BeforeSave"}
ImportKnown(s, t) ==
    \A b, c \in org.components :
        s = Comp(b) /\ t = Comp(c) /\ b.category = "lwc_bundle" /\ c.category = "apex_class"
            => ImportedByLwc(c)
MaySay(s, t, kind, notes) ==
    /\ kind \in EdgeKind
    /\ kind = "owns" => ~IsComponent(t)
    /\ IsComponent(s) /\ IsComponent(t) => "write" \notin notes
    /\ IsComponent(s) /\ t[1] = "field" =>
          kind # "triggers" /\ notes # {} /\ notes \cap Timing = {}
    /\ kind = "references" \/ ImportKnown(s, t)
EdgeSound(k, e) ==
    /\ k = <<k[1], k[2], k[3]>> /\ Node(k[1]) /\ Node(k[2])
    /\ e = [evidence |-> e.evidence, confidence |-> e.confidence, notes |-> e.notes, api |-> e.api]
    /\ MaySay(k[1], k[2], k[3], e.notes)
MayExist(o, n) ==
    n \in CustomName => \/ \E x \in org.fields : Fld(x.object, x.name) = Fld(o, n)
                        \/ PackageOf(o, n) # "none"
                        \/ o \in LooseObject
FieldSound(f) == f = Fld(f[2], f[3]) /\ MayExist(f[2], f[3])

Total(f) == f = [x \in DOMAIN f |-> f[x]]
Sound(g) ==
    /\ g = [nodes |-> g.nodes, edges |-> g.edges, gaps |-> g.gaps, target |-> g.target]
    /\ Total(g.edges) /\ Total(g.target)
    /\ IsFiniteSet(DOMAIN g.edges)
    /\ \A n \in g.nodes : Node(n)
    /\ \A k \in DOMAIN g.edges : EdgeSound(k, g.edges[k])
    /\ \A f \in DOMAIN g.target : FieldSound(f)

Grown(b, g) ==
    /\ b.gaps \subseteq g.gaps
    /\ DOMAIN b.edges \subseteq DOMAIN g.edges
    /\ \A k \in DOMAIN b.edges : b.edges[k].notes \subseteq g.edges[k].notes
    /\ DOMAIN b.target \subseteq DOMAIN g.target
    /\ \A f \in DOMAIN b.target : g.target[f] = b.target[f]
Keeps(b, g) == Sound(g) /\ Grown(b, g)

LEMMA GrownItself == \A g : Grown(g, g)
BY DEF Grown

LEMMA KeepsOn == \A a, b, g : Keeps(a, b) /\ Keeps(b, g) => Keeps(a, g)
BY DEF Keeps, Grown

LEMMA NodesOf ==
    /\ \A c \in org.components : Node(Comp(c)) /\ IsComponent(Comp(c))
    /\ \A o : Node(Obj(o)) /\ ~IsComponent(Obj(o))
    /\ \A o, f : Node(Fld(o, f)) /\ ~IsComponent(Fld(o, f))
    /\ \A kind, name : kind # "lwc_bundle" => Node(Ext(kind, name))
    /\ \A kind, name : ~IsComponent(Ext(kind, name))
    /\ \A r : Node(Row(r)) /\ ~IsComponent(Row(r))
BY DEF Node, NodeTag, IsComponent, Comp, Obj, Fld, Ext, Row

LEMMA TogetherMaySay ==
    ASSUME NEW s, NEW t, NEW kind, NEW one, NEW other,
           MaySay(s, t, kind, one), MaySay(s, t, kind, other)
    PROVE  MaySay(s, t, kind, one \cup other)
BY DEF MaySay

\* Most edges are of a kind that may say anything, or nearly.
LEMMA MaySayTo ==
    /\ \A s, o, notes : \A kind \in EdgeKind : MaySay(s, Obj(o), kind, notes)
    /\ \A s, r, notes : \A kind \in EdgeKind : MaySay(s, Row(r), kind, notes)
    /\ \A s, x, y, notes : \A kind \in EdgeKind : MaySay(s, Ext(x, y), kind, notes)
    /\ \A s, o, f, note : note \notin Timing => MaySay(s, Fld(o, f), "references", {note})
    /\ \A s, o, f : MaySay(s, Fld(o, f), "owns", {"defines"})
<1>1. \A s, o : ImportKnown(s, Obj(o))
  BY DEF ImportKnown, Obj, Comp
<1>2. \A s, r : ImportKnown(s, Row(r))
  BY DEF ImportKnown, Row, Comp
<1>3. \A s, x, y : ImportKnown(s, Ext(x, y))
  BY DEF ImportKnown, Ext, Comp
<1>4. \A s, o, f : ImportKnown(s, Fld(o, f))
  BY DEF ImportKnown, Fld, Comp
<1>5. \A s, o, notes : \A kind \in EdgeKind : MaySay(s, Obj(o), kind, notes)
  BY <1>1 DEF MaySay, IsComponent, Obj
<1>6. \A s, r, notes : \A kind \in EdgeKind : MaySay(s, Row(r), kind, notes)
  BY <1>2 DEF MaySay, IsComponent, Row
<1>7. \A s, x, y, notes : \A kind \in EdgeKind : MaySay(s, Ext(x, y), kind, notes)
  BY <1>3 DEF MaySay, IsComponent, Ext
<1>8. \A s, o, f, note : note \notin Timing => MaySay(s, Fld(o, f), "references", {note})
  BY DEF MaySay, IsComponent, Fld, EdgeKind
<1>9. \A s, o, f : MaySay(s, Fld(o, f), "owns", {"defines"})
  BY <1>4 DEF MaySay, IsComponent, Fld, EdgeKind, Timing
<1> QED
  BY <1>5, <1>6, <1>7, <1>8, <1>9

LEMMA MaySayFrom ==
    \A s, t, notes : \A kind \in EdgeKind \ {"owns"} :
        ~IsComponent(s) => MaySay(s, t, kind, notes)
BY DEF MaySay, ImportKnown, IsComponent, Comp

\* Between components only a call has to be accounted for.
LEMMA MaySayBetween ==
    ASSUME NEW s, NEW t, IsComponent(t), NEW note, note # "write"
    PROVE  /\ MaySay(s, t, "references", {note})
           /\ \A kind \in {"calls", "triggers", "dispatches"} :
                  ImportKnown(s, t) => MaySay(s, t, kind, {note})
BY DEF MaySay, EdgeKind, IsComponent

LEMMA AddNodeKeeps ==
    ASSUME NEW g, Sound(g), NEW n, Node(n)
    PROVE  /\ Keeps(g, AddNode(g, n))
           /\ AddNode(g, n).edges = g.edges /\ AddNode(g, n).target = g.target
           /\ AddNode(g, n).gaps = g.gaps
<1>1. PICK h : h = AddNode(g, n)
  OBVIOUS
<1>2. h = [nodes |-> g.nodes \cup {n}, edges |-> g.edges, gaps |-> g.gaps, target |-> g.target]
  BY <1>1, Zenon DEF AddNode, Sound
<1>3. h.nodes = g.nodes \cup {n} /\ h.edges = g.edges /\ h.gaps = g.gaps /\ h.target = g.target
  BY <1>2
<1>4. h = [nodes |-> h.nodes, edges |-> h.edges, gaps |-> h.gaps, target |-> h.target]
  BY <1>2, <1>3
<1> QED
  BY <1>1, <1>3, <1>4 DEF Keeps, Sound, Grown

LEMMA GapKeeps ==
    ASSUME NEW g, Sound(g), NEW c, NEW what
    PROVE  /\ Keeps(g, Gap(g, c, what))
           /\ <<Comp(c), what>> \in Gap(g, c, what).gaps
           /\ Gap(g, c, what).target = g.target
<1>1. PICK h : h = Gap(g, c, what)
  OBVIOUS
<1>2. h = [nodes |-> g.nodes, edges |-> g.edges, gaps |-> g.gaps \cup {<<Comp(c), what>>},
           target |-> g.target]
  BY <1>1, Zenon DEF Gap, Sound
<1>3. /\ h.nodes = g.nodes /\ h.edges = g.edges /\ h.gaps = g.gaps \cup {<<Comp(c), what>>}
      /\ h.target = g.target
  BY <1>2
<1>4. h = [nodes |-> h.nodes, edges |-> h.edges, gaps |-> h.gaps, target |-> h.target]
  BY <1>2, <1>3
<1> QED
  BY <1>1, <1>3, <1>4 DEF Keeps, Sound, Grown

LEMMA AddEdgeKeeps ==
    ASSUME NEW g, Sound(g), NEW s, NEW t, NEW kind, NEW ev, NEW conf, NEW notes,
           Node(s), Node(t), MaySay(s, t, kind, notes)
    PROVE  /\ Keeps(g, AddEdge(g, s, t, kind, ev, conf, notes))
           /\ s # t => /\ <<s, t, kind>> \in DOMAIN AddEdge(g, s, t, kind, ev, conf, notes).edges
                      /\ notes \subseteq AddEdge(g, s, t, kind, ev, conf, notes).edges[<<s, t, kind>>].notes
<1>1. PICK key : key = <<s, t, kind>>
  OBVIOUS
<1>2. PICK h : h = AddEdge(g, s, t, kind, ev, conf, notes)
  OBVIOUS
<1>k. key[1] = s /\ key[2] = t /\ key[3] = kind /\ key = <<key[1], key[2], key[3]>>
  BY <1>1
<1>3. CASE s = t
  <2>1. h = g
    BY <1>2, <1>3 DEF AddEdge
  <2> QED
    BY <1>2, <1>3, <2>1, GrownItself DEF Keeps
<1>4. CASE s # t /\ key \notin DOMAIN g.edges
  <2>1. PICK e : e = [evidence |-> ev, confidence |-> conf, notes |-> notes, api |-> FALSE]
    OBVIOUS
  <2>2. PICK more : more = With(g.edges, key, e)
    OBVIOUS
  <2>3. h = [g EXCEPT !.edges = more]
    BY <1>1, <1>2, <1>4, <2>1, <2>2, Zenon DEF AddEdge
  <2>4. h = [nodes |-> g.nodes, edges |-> more, gaps |-> g.gaps, target |-> g.target]
    BY <2>3, Zenon DEF Sound
  <2>5. h.nodes = g.nodes /\ h.edges = more /\ h.gaps = g.gaps /\ h.target = g.target
    BY <2>4
  <2>6. h = [nodes |-> h.nodes, edges |-> h.edges, gaps |-> h.gaps, target |-> h.target]
    BY <2>4, <2>5
  <2>7. /\ DOMAIN more = DOMAIN g.edges \cup {key} /\ more[key] = e /\ Total(more)
        /\ \A k \in DOMAIN g.edges : k # key => more[k] = g.edges[k]
    BY <2>2 DEF With, Total
  <2>8. IsFiniteSet(DOMAIN more)
    BY <2>7, FS_AddElement DEF Sound
  <2>9. EdgeSound(key, e)
    BY <1>k, <2>1 DEF EdgeSound
  <2>10. \A k \in DOMAIN more : EdgeSound(k, more[k])
    BY <1>4, <2>7, <2>9 DEF Sound
  <2>11. Sound(h)
    BY <2>5, <2>6, <2>7, <2>8, <2>10 DEF Sound
  <2>12. Grown(g, h)
    BY <1>4, <2>5, <2>7 DEF Grown
  <2>13. e.notes = notes
    BY <2>1
  <2> QED
    BY <1>1, <1>2, <2>5, <2>7, <2>11, <2>12, <2>13 DEF Keeps
<1>5. CASE s # t /\ key \in DOMAIN g.edges
  <2>1. PICK old : old = g.edges[key]
    OBVIOUS
  <2>2. old = [evidence |-> old.evidence, confidence |-> old.confidence, notes |-> old.notes, api |-> old.api]
    BY <1>5, <2>1 DEF Sound, EdgeSound
  <2>3. PICK c : c = IF conf > old.confidence THEN conf ELSE old.confidence
    OBVIOUS
  <2>4. PICK e : e = [old EXCEPT !.confidence = c, !.notes = old.notes \cup notes]
    OBVIOUS
  <2>5. e = [evidence |-> old.evidence, confidence |-> c, notes |-> old.notes \cup notes, api |-> old.api]
    BY <2>2, <2>4, Zenon
  <2>6. PICK more : more = [g.edges EXCEPT ![key] = e]
    OBVIOUS
  <2>7. h = [g EXCEPT !.edges[key] = e]
    BY <1>1, <1>2, <1>5, <2>1, <2>3, <2>4, Zenon DEF AddEdge
  <2>8. h = [nodes |-> g.nodes, edges |-> more, gaps |-> g.gaps, target |-> g.target]
    BY <2>6, <2>7, Zenon DEF Sound
  <2>9. h.nodes = g.nodes /\ h.edges = more /\ h.gaps = g.gaps /\ h.target = g.target
    BY <2>8
  <2>10. h = [nodes |-> h.nodes, edges |-> h.edges, gaps |-> h.gaps, target |-> h.target]
    BY <2>8, <2>9
  <2>11. /\ DOMAIN more = DOMAIN g.edges /\ more[key] = e
         /\ \A k \in DOMAIN g.edges : k # key => more[k] = g.edges[k]
    BY <1>5, <2>6
  <2>12. Total(more)
    BY <2>6 DEF Total
  <2>13. e.notes = old.notes \cup notes /\ e = [evidence |-> e.evidence, confidence |-> e.confidence,
                                                notes |-> e.notes, api |-> e.api]
    BY <2>5
  <2>14. EdgeSound(key, old)
    BY <1>5, <2>1 DEF Sound
  <2>15. EdgeSound(key, e)
    BY <1>k, <2>13, <2>14, TogetherMaySay DEF EdgeSound
  <2>16. \A k \in DOMAIN more : EdgeSound(k, more[k])
    BY <1>5, <2>11, <2>15 DEF Sound
  <2>17. Sound(h)
    BY <2>9, <2>10, <2>11, <2>12, <2>16 DEF Sound
  <2>18. Grown(g, h)
    BY <1>5, <2>1, <2>9, <2>11, <2>13 DEF Grown
  <2> QED
    BY <1>1, <1>2, <1>5, <2>9, <2>11, <2>13, <2>17, <2>18 DEF Keeps
<1> QED
  BY <1>3, <1>4, <1>5

LEMMA AddEdgeLeaves ==
    ASSUME NEW g, NEW s, NEW t, NEW kind, NEW ev, NEW conf, NEW notes
    PROVE  /\ AddEdge(g, s, t, kind, ev, conf, notes).target = g.target
           /\ AddEdge(g, s, t, kind, ev, conf, notes).gaps = g.gaps
BY DEF AddEdge

LEMMA InferKeeps ==
    ASSUME NEW g, Sound(g), NEW o, NEW f, Known(g, o, f) \/ MayExist(o, f)
    PROVE  LET h == InferField(g, o, f) IN
           Keeps(g, h) /\ Fld(o, f) \in DOMAIN h.target
<1>1. CASE Known(g, o, f)
  BY <1>1, GrownItself DEF InferField, Known, Keeps
<1>2. CASE ~Known(g, o, f)
  <2>1. PICK a : a = AddNode(g, Obj(o))
    OBVIOUS
  <2>2. Keeps(g, a) /\ a.target = g.target
    BY <2>1, AddNodeKeeps, NodesOf
  <2>3. PICK b : b = AddNode(a, Fld(o, f))
    OBVIOUS
  <2>4. Sound(a)
    BY <2>2 DEF Keeps
  <2>5. Keeps(a, b) /\ b.target = g.target
    BY <2>2, <2>3, <2>4, AddNodeKeeps, NodesOf
  <2>6. PICK to : to = IF f \in DOMAIN StandardTarget THEN <<StandardTarget[f]>> ELSE <<>>
    OBVIOUS
  <2>7. PICK more : more = With(b.target, Fld(o, f), to)
    OBVIOUS
  <2>8. PICK h : h = InferField(g, o, f)
    OBVIOUS
  <2>9. h = [b EXCEPT !.target = more]
    BY <1>2, <2>1, <2>3, <2>6, <2>7, <2>8, Zenon DEF InferField
  <2>10. h = [nodes |-> b.nodes, edges |-> b.edges, gaps |-> b.gaps, target |-> more]
    BY <2>5, <2>9, Zenon DEF Keeps, Sound
  <2>11. h.nodes = b.nodes /\ h.edges = b.edges /\ h.gaps = b.gaps /\ h.target = more
    BY <2>10
  <2>12. h = [nodes |-> h.nodes, edges |-> h.edges, gaps |-> h.gaps, target |-> h.target]
    BY <2>10, <2>11
  <2>13. /\ DOMAIN more = DOMAIN b.target \cup {Fld(o, f)} /\ Total(more)
         /\ \A q \in DOMAIN b.target : q # Fld(o, f) => more[q] = b.target[q]
    BY <2>7 DEF With, Total
  <2>14. Fld(o, f) \notin DOMAIN b.target
    BY <1>2, <2>5 DEF Known
  <2>15. FieldSound(Fld(o, f))
    BY <1>2 DEF FieldSound, Fld
  <2>16. Sound(h)
    BY <2>5, <2>11, <2>12, <2>13, <2>15 DEF Sound, Keeps
  <2>17. Grown(b, h)
    BY <2>11, <2>13, <2>14 DEF Grown
  <2>18. Keeps(g, h)
    BY <2>2, <2>5, <2>16, <2>17, KeepsOn DEF Keeps
  <2> QED
    BY <2>8, <2>11, <2>13, <2>18
<1> QED
  BY <1>1, <1>2

LEMMA PackageKeeps ==
    ASSUME NEW g, Sound(g), NEW o, NEW f, PackageOf(o, f) # "none", NEW pkg
    PROVE  LET h == PackageField(g, pkg, o, f) IN
           Keeps(g, h) /\ Fld(o, f) \in DOMAIN h.target
<1>1. PICK a : a = InferField(g, o, f)
  OBVIOUS
<1>2. Keeps(g, a) /\ Fld(o, f) \in DOMAIN a.target
  BY <1>1, InferKeeps DEF MayExist
<1>3. PICK b : b = AddNode(a, Ext("Package", pkg))
  OBVIOUS
<1>4. Keeps(a, b) /\ b.target = a.target
  BY <1>2, <1>3, AddNodeKeeps, NodesOf DEF Keeps
<1>5. PICK from, to : from = Fld(o, f) /\ to = Ext("Package", pkg)
  OBVIOUS
<1>6. Node(from) /\ Node(to) /\ MaySay(from, to, "references", {"package"}) /\ Sound(b)
  BY <1>4, <1>5, NodesOf, MaySayTo DEF Keeps, EdgeKind
<1>7. PICK h : h = AddEdge(b, from, to, "references", "schema", 90, {"package"})
  OBVIOUS
<1>8. Keeps(b, h) /\ h.target = b.target
  <2>1. Keeps(b, h)
    BY <1>6, <1>7, AddEdgeKeeps
  <2>2. h.target = b.target
    BY <1>7, AddEdgeLeaves
  <2> QED
    BY <2>1, <2>2
<1>9. h = PackageField(g, pkg, o, f)
  BY <1>1, <1>3, <1>5, <1>7, Zenon DEF PackageField
<1> QED
  BY <1>2, <1>4, <1>8, <1>9, KeepsOn

LEMMA FoundIs == \A cs : cs # {} => \E c \in cs : Found(cs) = Comp(c)
<1>1. ASSUME NEW cs, cs # {}  PROVE \E c \in cs : Found(cs) = Comp(c)
  <2>1. PICK c : c = CHOOSE x \in cs : TRUE
    OBVIOUS
  <2>2. c \in cs
    BY <1>1, <2>1, Zenon
  <2>3. Found(cs) = Comp(c)
    BY <2>1, Zenon DEF Found
  <2> QED
    BY <2>2, <2>3
<1> QED
  BY <1>1

\* A node, and an edge to it.
LEMMA AddBothKeeps ==
    ASSUME NEW g, Sound(g), NEW s, NEW t, NEW kind, NEW ev, NEW conf, NEW notes,
           Node(s), Node(t), MaySay(s, t, kind, notes)
    PROVE  Keeps(g, AddEdge(AddNode(g, t), s, t, kind, ev, conf, notes))
<1>1. PICK a : a = AddNode(g, t)
  OBVIOUS
<1>2. Keeps(g, a) /\ Sound(a)
  BY <1>1, AddNodeKeeps DEF Keeps
<1>3. Keeps(a, AddEdge(a, s, t, kind, ev, conf, notes))
  BY <1>2, AddEdgeKeeps
<1> QED
  BY <1>1, <1>2, <1>3, KeepsOn

LEMMA ObjectKeeps ==
    ASSUME NEW g, Sound(g), NEW c \in org.components, NEW r
    PROVE  Keeps(g, AddObject(g, c, r))
BY AddBothKeeps, NodesOf, MaySayTo, GrownItself DEF AddObject, Keeps, EdgeKind

LEMMA GlobalKeeps ==
    ASSUME NEW g, Sound(g), NEW c \in org.components, NEW r
    PROVE  Keeps(g, AddGlobal(g, c, r))
<1>1. PICK t : t = IF Known(g, r.object, r.field) THEN Fld(r.object, r.field) ELSE Obj(r.object)
  OBVIOUS
<1>2. Node(t) /\ MaySay(Comp(c), t, "references", {"global"})
  BY <1>1, NodesOf, MaySayTo DEF EdgeKind, Timing
<1>3. AddGlobal(g, c, r) = AddEdge(AddNode(g, t), Comp(c), t, "references", c.evidence, 100, {"global"})
  BY <1>1, Zenon DEF AddGlobal
<1> QED
  BY <1>2, <1>3, AddBothKeeps, NodesOf

LEMMA NamedAre ==
    /\ \A categories, n : Named(categories, n) \subseteq org.components
    /\ \A o : Workflows(o) \subseteq org.components
BY DEF Named, Workflows

\* A component is the only one of its name: what it does is its category's doing.
LEMMA NoBundleCalls ==
    ASSUME org \in Orgs, NEW c \in org.components, c.category # "lwc_bundle", NEW t
    PROVE  ImportKnown(Comp(c), t)
<1>1. \A b \in org.components : Comp(b) = Comp(c) => b = c
  BY GraphAssumption DEF Comp
<1> QED
  BY <1>1 DEF ImportKnown

LEMMA TriggerKeeps ==
    ASSUME NEW g, Sound(g), org \in Orgs, NEW c \in org.components
    PROVE  Keeps(g, AddTrigger(g, c))
<1>1. PICK event : event = Named({"platform_event"}, c.host)
  OBVIOUS
<1>2. PICK t : t = IF event = {} THEN Obj(c.host) ELSE Found(event)
  OBVIOUS
<1>3. Node(t)
  BY <1>1, <1>2, FoundIs, NodesOf DEF Named
<1>4. Keeps(g, g)
  BY GrownItself DEF Keeps
<1>5. \A kind \in EdgeKind : \A notes :
          Keeps(g, AddEdge(AddNode(g, Obj(c.host)), Comp(c), Obj(c.host), kind, c.evidence, 100, notes))
  BY AddBothKeeps, NodesOf, MaySayTo
<1>6. ASSUME c.category = "platform_event_triggered_flow"
      PROVE  Keeps(g, AddEdge(AddNode(g, t), Comp(c), t, "triggers", c.evidence, 100, {"subscription"}))
  <2>1. ImportKnown(Comp(c), t)
    BY <1>6, NoBundleCalls
  <2>2. event # {} => IsComponent(t)
    BY <1>1, <1>2, FoundIs, NodesOf, NamedAre
  <2>3. MaySay(Comp(c), t, "triggers", {"subscription"})
    BY <1>2, <2>1, <2>2, MaySayBetween, MaySayTo DEF EdgeKind
  <2> QED
    BY <1>3, <2>3, AddBothKeeps, NodesOf
<1>7. \/ AddTrigger(g, c) = g
      \/ \E kind \in {"references", "triggers"} : \E notes :
            AddTrigger(g, c) = AddEdge(AddNode(g, Obj(c.host)), Comp(c), Obj(c.host), kind,
                                       c.evidence, 100, notes)
      \/ /\ c.category = "platform_event_triggered_flow"
         /\ AddTrigger(g, c) = AddEdge(AddNode(g, t), Comp(c), t, "triggers", c.evidence, 100,
                                       {"subscription"})
  BY <1>1, <1>2 DEF AddTrigger
<1>8. {"references", "triggers"} \subseteq EdgeKind
  BY DEF EdgeKind
<1> QED
  BY <1>4, <1>5, <1>6, <1>7, <1>8

LEMMA OwnedKeeps ==
    ASSUME NEW g, Sound(g), NEW c \in org.components
    PROVE  Keeps(g, AddOwned(g, c))
<1>1. PICK f : f = IF c.defines \in DOMAIN g.target
                   THEN AddEdge(g, Comp(c), c.defines, "owns", c.evidence, 100, {"defines"}) ELSE g
  OBVIOUS
<1>2. Keeps(g, f)
  <2>1. CASE c.defines \in DOMAIN g.target
    <3>1. Node(c.defines) /\ MaySay(Comp(c), c.defines, "owns", {"defines"})
      BY <2>1, NodesOf, MaySayTo DEF Sound, FieldSound
    <3> QED
      BY <1>1, <2>1, <3>1, AddEdgeKeeps, NodesOf
  <2>2. CASE c.defines \notin DOMAIN g.target
    BY <1>1, <2>2, GrownItself DEF Keeps
  <2> QED
    BY <2>1, <2>2
<1>3. Keeps(f, AddEdge(AddNode(f, Obj(c.host)), Comp(c), Obj(c.host), "owns", c.evidence, 100, {"event"}))
  BY <1>2, AddBothKeeps, NodesOf, MaySayTo DEF Keeps, EdgeKind
<1>4. \/ AddOwned(g, c) = f
      \/ AddOwned(g, c) = AddEdge(AddNode(f, Obj(c.host)), Comp(c), Obj(c.host), "owns", c.evidence, 100,
                                  {"event"})
  BY <1>1 DEF AddOwned
<1> QED
  BY <1>2, <1>3, <1>4, KeepsOn

\* What a use comes to: an edge to a node that may say what it says.
EdgeOk(c, o) == o.is = "edge" => Node(o.to) /\ MaySay(Comp(c), o.to, o.kind, {o.note})

LEMMA EdgeOks ==
    ASSUME NEW c
    PROVE  /\ EdgeOk(c, Nothing) /\ EdgeOk(c, Missing)
           /\ \A kind, name, conf, note :
                  kind # "lwc_bundle" => EdgeOk(c, Edge(Ext(kind, name), "references", conf, note))
           /\ \A n, conf, note : EdgeOk(c, Edge(Obj(n), "references", conf, note))
<1>1. EdgeOk(c, Nothing) /\ EdgeOk(c, Missing)
  BY DEF EdgeOk, Nothing, Missing
<1>2. \A kind, name, conf, note :
          kind # "lwc_bundle" => EdgeOk(c, Edge(Ext(kind, name), "references", conf, note))
  BY NodesOf, MaySayTo DEF EdgeOk, Edge, EdgeKind
<1>3. \A n, conf, note : EdgeOk(c, Edge(Obj(n), "references", conf, note))
  BY NodesOf, MaySayTo DEF EdgeOk, Edge, EdgeKind
<1> QED
  BY <1>1, <1>2, <1>3

\* An edge to a component that was found calls it only when that is accounted for.
LEMMA FoundOk ==
    ASSUME NEW c, NEW cs, cs \subseteq org.components, NEW kind \in {"references", "calls"},
           kind = "calls" => \A x \in cs : ImportKnown(Comp(c), Comp(x)),
           NEW conf, NEW note, note # "write"
    PROVE  /\ cs # {} => EdgeOk(c, Edge(Found(cs), kind, conf, note))
           /\ \A o : EdgeOk(c, o) => EdgeOk(c, Or(cs, kind, conf, note, o))
<1>1. ASSUME cs # {}  PROVE EdgeOk(c, Edge(Found(cs), kind, conf, note))
  <2>1. PICK x \in cs : Found(cs) = Comp(x)
    BY <1>1, FoundIs
  <2>2. Node(Comp(x)) /\ IsComponent(Comp(x))
    BY NodesOf
  <2>3. MaySay(Comp(c), Comp(x), kind, {note})
    BY <2>2, MaySayBetween
  <2> QED
    BY <2>1, <2>2, <2>3 DEF EdgeOk, Edge
<1>2. ASSUME NEW o, EdgeOk(c, o)  PROVE EdgeOk(c, Or(cs, kind, conf, note, o))
  BY <1>1, <1>2 DEF Or
<1> QED
  BY <1>1, <1>2

LEMMA KnownOk ==
    ASSUME NEW c, NEW cs, cs \subseteq org.components, \A x \in cs : ImportKnown(Comp(c), Comp(x)),
           NEW kind \in {"references", "calls"}, NEW conf, NEW o, EdgeOk(c, o)
    PROVE  EdgeOk(c, Or(cs, kind, conf, "class", o))
<1>1. PICK note : note = "class"
  OBVIOUS
<1> QED
  BY <1>1, FoundOk

\* The class an automation names may be called: by a bundle, because it imports it.
LEMMA ClassKnown ==
    ASSUME org \in Orgs, NEW c \in org.components, NEW u \in c.uses,
           u.use = "apex_class" \/ c.category # "lwc_bundle", NEW x \in Named({"apex_class"}, u.name)
    PROVE  ImportKnown(Comp(c), Comp(x))
<1>1. CASE c.category # "lwc_bundle"
  BY <1>1, NoBundleCalls
<1>2. CASE c.category = "lwc_bundle" /\ u.use = "apex_class"
  <2>1. \A b \in org.components : Comp(c) = Comp(b) => b = c
    BY GraphAssumption DEF Comp
  <2>2. \A b \in org.components : Comp(x) = Comp(b) => b.name = u.name
    BY DEF Comp, Named
  <2>3. \A b \in org.components : b.name = u.name => ImportedByLwc(b)
    BY <1>2 DEF ImportedByLwc
  <2> QED
    BY <2>1, <2>2, <2>3 DEF ImportKnown
<1> QED
  BY <1>1, <1>2

LEMMA ClassUseOk ==
    ASSUME org \in Orgs, NEW c \in org.components, NEW u \in c.uses, u.use = "apex_class"
    PROVE  EdgeOk(c, ClassUse(c, u.name))
<1>1. PICK n, base : n = u.name /\ base = Named({"apex_class"}, Base[n])
  OBVIOUS
<1>2. PICK otherwise : otherwise =
        CASE Form[n] = "dotted" /\ base # {} -> Edge(Found(base), "calls", 80, "dotted")
          [] Form[n] = "noise" /\ IsApex(c) -> Nothing
          [] Form[n] = "platform" -> Nothing
          [] Form[n] = "sobject" -> Edge(Obj(n), "references", 100, "object type")
          [] Form[n] = "inner" /\ base # {} -> Edge(Found(base), "calls", 80, "inner type")
          [] OTHER -> Missing
  OBVIOUS
<1>3. base \subseteq org.components
  BY <1>1, NamedAre
<1>4. ASSUME NEW note, note # "write", Form[n] \in {"dotted", "inner"}, base # {}
      PROVE  EdgeOk(c, Edge(Found(base), "calls", 80, note))
  <2>1. c.category # "lwc_bundle"
    BY <1>1, <1>4, GraphAssumption
  <2>2. \A x \in base : ImportKnown(Comp(c), Comp(x))
    BY <2>1, NoBundleCalls
  <2> QED
    BY <1>3, <1>4, <2>2, FoundOk
<1>5. EdgeOk(c, otherwise)
  BY <1>2, <1>4, EdgeOks
<1>6. PICK kind \in {"references", "calls"}, conf \in {75, 95, 100} :
          ClassUse(c, n) = Or(Named({"apex_class"}, n), kind, conf, "class", otherwise)
  BY <1>1, <1>2, Zenon DEF ClassUse
<1>7. Named({"apex_class"}, n) \subseteq org.components
  BY NamedAre
<1>8. \A x \in Named({"apex_class"}, n) : ImportKnown(Comp(c), Comp(x))
  BY <1>1, ClassKnown
<1>9. EdgeOk(c, Or(Named({"apex_class"}, n), kind, conf, "class", otherwise))
  BY <1>5, <1>6, <1>7, <1>8, KnownOk
<1> QED
  BY <1>1, <1>6, <1>9

LEMMA OutcomeOk ==
    ASSUME org \in Orgs, NEW c \in org.components, NEW u \in c.uses
    PROVE  EdgeOk(c, Outcome(c, u))
<1>1. /\ u.use \in UseKinds /\ (u.use = "action" => u.name # "write")
      /\ c.category = "lwc_bundle" => u.use \in {"bundle", "label", "channel", "apex_class"}
  BY GraphAssumption
<1>2. EdgeOk(c, Nothing) /\ EdgeOk(c, Missing)
  BY EdgeOks
<1>3. \A cs, conf, note, o : cs \subseteq org.components /\ note # "write" /\ EdgeOk(c, o) =>
          EdgeOk(c, Or(cs, "references", conf, note, o))
  BY FoundOk
<1>4. ASSUME c.category # "lwc_bundle", NEW cs, cs \subseteq org.components, NEW conf,
             NEW note, note # "write", NEW o, EdgeOk(c, o)
      PROVE  EdgeOk(c, Or(cs, "calls", conf, note, o))
  <2>1. \A x \in cs : ImportKnown(Comp(c), Comp(x))
    BY <1>4, NoBundleCalls
  <2> QED
    BY <1>4, <2>1, FoundOk
<1>5. \A kind, conf : kind # "lwc_bundle" => EdgeOk(c, Edge(Ext(kind, u.name), "references", conf, u.name))
  BY EdgeOks
<1>6. CASE u.use = "apex_class"
  BY <1>6, ClassUseOk DEF Outcome
<1>7. CASE u.use \in {"async", "candidate"}
  <2>1. c.category # "lwc_bundle"
    BY <1>1, <1>7
  <2> QED
    BY <1>2, <1>4, <1>7, <2>1, NamedAre DEF Outcome
<1>8. CASE u.use = "bundle"
  <2>1. PICK found : found = Named({"lwc_bundle", "aura_bundle"}, u.name)
    OBVIOUS
  <2>2. PICK o \in {Missing, Nothing} : Outcome(c, u) = Or(found, "calls", 100, "embedded", o)
    BY <1>8, <2>1 DEF Outcome
  <2>3. found \subseteq org.components
    BY <2>1, NamedAre
  <2>4. ASSUME NEW x \in found  PROVE ImportKnown(Comp(c), Comp(x))
    <3>1. x.category # "apex_class" /\ x \in org.components
      BY <2>1, <2>4 DEF Named
    <3>2. \A b \in org.components : Comp(x) = Comp(b) => b = x
      BY <3>1, GraphAssumption DEF Comp
    <3> QED
      BY <3>1, <3>2 DEF ImportKnown
  <2>5. EdgeOk(c, Or(found, "calls", 100, "embedded", o))
    BY <1>2, <2>3, <2>4, FoundOk
  <2> QED
    BY <2>2, <2>5
<1>9. CASE u.use = "flow"
  <2>1. PICK found : found = Named(FlowCategory, u.name)
    OBVIOUS
  <2>2. PICK kind \in {"references", "calls"} : Outcome(c, u) = Or(found, kind, 100, "flow", Missing)
    BY <1>9, <2>1 DEF Outcome
  <2>3. c.category # "lwc_bundle" /\ found \subseteq org.components
    BY <1>1, <1>9, <2>1, NamedAre
  <2> QED
    BY <1>2, <1>3, <1>4, <2>2, <2>3
<1>10. CASE u.use \in {"event", "page", "tab"}
  BY <1>2, <1>3, <1>10, NamedAre DEF Outcome
<1>11. CASE u.use = "alert"
  <2>1. {w \in Workflows(u.object) : u.name \in w.alerts} \subseteq org.components
    BY NamedAre
  <2> QED
    BY <1>3, <1>5, <1>11, <2>1 DEF Outcome
<1>12. CASE u.use = "action"
  BY <1>1, <1>2, <1>3, <1>12, NamedAre DEF Outcome
<1>13. CASE u.use \in {"template", "credential", "label", "channel", "permission"}
  BY <1>5, <1>13 DEF Outcome
<1> QED
  BY <1>1, <1>6, <1>7, <1>8, <1>9, <1>10, <1>11, <1>12, <1>13 DEF UseKinds

LEMMA UseKeeps ==
    ASSUME NEW g, Sound(g), org \in Orgs, NEW c \in org.components, NEW u \in c.uses
    PROVE  Keeps(g, AddUse(g, c, u))
<1>1. PICK o : o = Outcome(c, u)
  OBVIOUS
<1>2. EdgeOk(c, o)
  BY <1>1, OutcomeOk
<1>3. CASE o.is = "edge"
  <2>1. Node(Comp(c)) /\ Node(o.to) /\ MaySay(Comp(c), o.to, o.kind, {o.note})
    BY <1>2, <1>3, NodesOf DEF EdgeOk
  <2>2. AddUse(g, c, u) = AddEdge(AddNode(g, o.to), Comp(c), o.to, o.kind, c.evidence, o.conf, {o.note})
    BY <1>1, <1>3 DEF AddUse
  <2> QED
    BY <2>1, <2>2, AddBothKeeps
<1>4. CASE o.is = "gap"
  <2>1. AddUse(g, c, u) = Gap(g, c, <<u.use, u.name>>)
    BY <1>1, <1>4 DEF AddUse
  <2> QED
    BY <2>1, GapKeeps
<1>5. CASE o.is # "edge" /\ o.is # "gap"
  <2>1. AddUse(g, c, u) = g
    BY <1>1, <1>5 DEF AddUse
  <2> QED
    BY <2>1, GrownItself DEF Keeps
<1> QED
  BY <1>3, <1>4, <1>5

LEMMA CronKeeps == ASSUME NEW g, Sound(g), NEW n  PROVE Keeps(g, AddCron(g, n))
<1>1. PICK c : c = Named({"apex_class"}, n)
  OBVIOUS
<1>2. CASE c = {}
  BY <1>1, <1>2, GrownItself DEF AddCron, Keeps
<1>3. CASE c # {}
  <2>1. Node(Found(c)) /\ Node(Ext("CronTrigger", n)) /\ ~IsComponent(Ext("CronTrigger", n))
    BY <1>1, <1>3, FoundIs, NamedAre, NodesOf
  <2>2. PICK a : a = AddNode(g, Ext("CronTrigger", n))
    OBVIOUS
  <2>3. Keeps(g, a) /\ Sound(a)
    BY <2>1, <2>2, AddNodeKeeps DEF Keeps
  <2>4. MaySay(Ext("CronTrigger", n), Found(c), "triggers", {"schedule"})
    BY <2>1, MaySayFrom DEF EdgeKind
  <2>5. Keeps(a, AddEdge(a, Ext("CronTrigger", n), Found(c), "triggers", "cron", 100, {"schedule"}))
    BY <2>1, <2>3, <2>4, AddEdgeKeeps
  <2>6. AddCron(g, n) = AddEdge(a, Ext("CronTrigger", n), Found(c), "triggers", "cron", 100, {"schedule"})
    BY <1>1, <1>3, <2>2 DEF AddCron
  <2> QED
    BY <2>3, <2>5, <2>6, KeepsOn
<1> QED
  BY <1>2, <1>3

LEMMA HostedKeeps ==
    ASSUME NEW g, Sound(g), NEW r, r.hosts \in Seq(STRING), NEW v
    PROVE  Keeps(g, Hosted(g, r, v))
<1>1. PICK fits : fits = {i \in DOMAIN r.hosts : Known(g, r.hosts[i], v) \/ v \notin CustomName}
  OBVIOUS
<1>2. CASE fits = {}
  BY <1>1, <1>2, GrownItself DEF Hosted, Keeps
<1>3. CASE fits # {}
  <2>1. fits \subseteq Nat
    BY <1>1
  <2>2. \E m \in fits : \A j \in fits : m <= j
    BY <1>3, <2>1, LeastElement
  <2>3. PICK m : m = Min(fits)
    OBVIOUS
  <2>4. m \in fits
    BY <2>2, <2>3, Zenon DEF Min
  <2>5. PICK host : host = r.hosts[m]
    OBVIOUS
  <2>6. Known(g, host, v) \/ MayExist(host, v)
    BY <1>1, <2>4, <2>5 DEF MayExist
  <2>7. PICK a : a = InferField(g, host, v)
    OBVIOUS
  <2>8. Keeps(g, a) /\ Sound(a)
    BY <2>6, <2>7, InferKeeps DEF Keeps
  <2>9. PICK h : h = AddEdge(a, Row(r), Fld(host, v), "references", "cmt_record", 100, {v})
    OBVIOUS
  <2>10. /\ Node(Row(r)) /\ Node(Fld(host, v))
         /\ MaySay(Row(r), Fld(host, v), "references", {v})
    BY NodesOf, MaySayFrom DEF EdgeKind
  <2>11. Keeps(a, h)
    BY <2>8, <2>9, <2>10, AddEdgeKeeps
  <2>12. Hosted(g, r, v) = h
    BY <1>1, <1>3, <2>3, <2>5, <2>7, <2>9, Zenon DEF Hosted
  <2> QED
    BY <2>8, <2>11, <2>12, KeepsOn
<1> QED
  BY <1>2, <1>3

\* A pass whose steps keep a graph sound and let it grow does so as a whole.
LEMMA FoldKeeps ==
    ASSUME NEW pass, NEW of, NEW S, IsFiniteSet(S), NEW g, Sound(g), NEW f,
           Taken(pass, of, S, g, f),
           \A x \in S : \A v : Sound(v) => Keeps(v, Step(pass, of, v, x))
    PROVE  Keeps(g, f[S])
<1> DEFINE Good == {s \in SUBSET S : Keeps(g, f[s])}
<1>1. {} \in Good
  BY GrownItself DEF Keeps, Taken
<1>2. ASSUME NEW s \in SUBSET S, s # {}  PROVE \E x \in s : s \ {x} \in Good => s \in Good
  <2>1. PICK x \in s : f[s] = Step(pass, of, f[s \ {x}], x)
    BY <1>2 DEF Taken
  <2>2. ASSUME Keeps(g, f[s \ {x}])  PROVE Keeps(g, f[s])
    <3>1. Keeps(f[s \ {x}], f[s])
      BY <2>1, <2>2 DEF Keeps
    <3> QED
      BY <2>2, <3>1, KeepsOn
  <2> QED
    BY <2>2
<1> HIDE DEF Good
<1>3. \A s \in SUBSET S : s \in Good
  BY <1>1, <1>2, SubsetsByPicking
<1> QED
  BY <1>3 DEF Good

LEMMA RowKeeps ==
    ASSUME NEW g, Sound(g), org \in Orgs, NEW r \in org.rows
    PROVE  Keeps(g, AddRow(g, r))
<1>1. PICK n : n = AddNode(g, Row(r))
  OBVIOUS
<1>2. Keeps(g, n) /\ Sound(n)
  BY <1>1, AddNodeKeeps, NodesOf DEF Keeps
<1>3. PICK b : b = AddEdge(AddNode(n, Obj(r.type)), Row(r), Obj(r.type), "references", "cmt_record", 100, {"row of"})
  OBVIOUS
<1>4. Keeps(n, b) /\ Sound(b)
  BY <1>2, <1>3, AddBothKeeps, NodesOf, MaySayTo DEF Keeps, EdgeKind
<1>5. PICK classes : classes = {c \in org.components : c.category = "apex_class" /\ c.name \in r.values}
  OBVIOUS
<1>6. PICK readers : readers = {c \in org.components : \E o \in c.objects : o.name = r.type}
  OBVIOUS
<1>7. PICK names : names = r.values \ {c.name : c \in classes}
  OBVIOUS
<1>8. IsFiniteSet(classes) /\ IsFiniteSet(readers) /\ IsFiniteSet(names) /\ r.hosts \in Seq(STRING)
  <2>1. IsFiniteSet(org.components) /\ IsFiniteSet(r.values) /\ r.hosts \in Seq(STRING)
    BY GraphAssumption
  <2>2. classes \subseteq org.components /\ readers \subseteq org.components /\ names \subseteq r.values
    BY <1>5, <1>6, <1>7
  <2> QED
    BY <2>1, <2>2, FS_Subset
<1>9. PICK d : d = ClassesPass(b, r, classes)
  OBVIOUS
<1>10. Keeps(b, d) /\ Sound(d)
  <2>1. PICK f : Taken("class", r, classes, b, f) /\ d = f[classes]
    BY <1>8, <1>9, ClassesFold, Zenon
  <2>2. ASSUME NEW c \in classes, NEW v, Sound(v)  PROVE Keeps(v, Step("class", r, v, c))
    <3>1. Node(Row(r)) /\ Node(Comp(c)) /\ MaySay(Row(r), Comp(c), "calls", {c.name})
      BY <1>5, NodesOf, MaySayFrom DEF EdgeKind
    <3>2. Keeps(v, AddEdge(v, Row(r), Comp(c), "calls", "cmt_record", 100, {c.name}))
      BY <2>2, <3>1, AddEdgeKeeps
    <3> QED
      BY <3>2 DEF Step
  <2>3. Keeps(b, f[classes])
    BY <1>4, <1>8, <2>1, <2>2, FoldKeeps
  <2> QED
    BY <2>1, <2>3 DEF Keeps
<1>11. PICK e : e = ValuesPass(d, r, names)
  OBVIOUS
<1>12. Keeps(d, e) /\ Sound(e)
  <2>1. PICK f : Taken("value", r, names, d, f) /\ e = f[names]
    BY <1>8, <1>11, ValuesFold, Zenon
  <2>2. ASSUME NEW x \in names, NEW v, Sound(v)  PROVE Keeps(v, Step("value", r, v, x))
    <3>1. Keeps(v, Hosted(v, r, x))
      BY <1>8, <2>2, HostedKeeps
    <3> QED
      BY <3>1 DEF Step
  <2>3. Keeps(d, f[names])
    BY <1>8, <1>10, <2>1, <2>2, FoldKeeps
  <2> QED
    BY <2>1, <2>3 DEF Keeps
<1>13. PICK h : h = ReadersPass(e, r, readers)
  OBVIOUS
<1>14. Keeps(e, h)
  <2>1. PICK f : Taken("reader", r, readers, e, f) /\ h = f[readers]
    BY <1>8, <1>13, ReadersFold, Zenon
  <2>2. ASSUME NEW c \in readers, NEW v, Sound(v)  PROVE Keeps(v, Step("reader", r, v, c))
    <3>1. Node(Row(r)) /\ Node(Comp(c)) /\ MaySay(Comp(c), Row(r), "references", {"reads"})
      BY <1>6, NodesOf, MaySayTo DEF EdgeKind
    <3>2. Keeps(v, AddEdge(v, Comp(c), Row(r), "references", "cmt_record", 80, {"reads"}))
      BY <2>2, <3>1, AddEdgeKeeps
    <3> QED
      BY <3>2 DEF Step
  <2>3. Keeps(e, f[readers])
    BY <1>8, <1>12, <2>1, <2>2, FoldKeeps
  <2> QED
    BY <2>1, <2>3
<1>15. AddRow(g, r) = h
  BY <1>1, <1>3, <1>5, <1>6, <1>7, <1>9, <1>11, <1>13, Zenon DEF AddRow, ClassesPass, ValuesPass, ReadersPass
<1> QED
  BY <1>2, <1>4, <1>10, <1>12, <1>14, <1>15, KeepsOn

------------------------------------------------------------------------------
(* The fields a component names: each path leaves a trace.                  *)

\* What EveryReferenceTraced says of one path in a graph.
Traced(g, c, path) ==
    /\ \/ \E k \in DOMAIN g.edges :
             /\ k[1] = Comp(c) /\ k[2] \in DOMAIN g.target
             /\ \/ k[2][3] = Last(path)
                \/ /\ g.target[k[2]] = <<>>
                   /\ \E i \in 2..Len(path) - 1 : k[2][3] \in {path[i], FieldOfHop[path[i]]}
       \/ <<Comp(c), path>> \in g.gaps
    /\ path \in c.written /\ <<Comp(c), path>> \notin g.gaps =>
          /\ <<Comp(c), Fld(path[1], path[2]), "references">> \in DOMAIN g.edges
          /\ "write" \in g.edges[<<Comp(c), Fld(path[1], path[2]), "references">>].notes

LEMMA TraceStays ==
    ASSUME NEW b, NEW g, Grown(b, g), NEW c, NEW path, Traced(b, c, path)
    PROVE  Traced(g, c, path)
<1>1. ASSUME NEW k \in DOMAIN b.edges, k[1] = Comp(c), k[2] \in DOMAIN b.target,
             \/ k[2][3] = Last(path)
             \/ /\ b.target[k[2]] = <<>>
                /\ \E i \in 2..Len(path) - 1 : k[2][3] \in {path[i], FieldOfHop[path[i]]}
      PROVE  /\ k \in DOMAIN g.edges /\ k[2] \in DOMAIN g.target
             /\ \/ k[2][3] = Last(path)
                \/ /\ g.target[k[2]] = <<>>
                   /\ \E i \in 2..Len(path) - 1 : k[2][3] \in {path[i], FieldOfHop[path[i]]}
  BY <1>1 DEF Grown
<1>2. b.gaps \subseteq g.gaps
  BY DEF Grown
<1>3. path \in c.written /\ <<Comp(c), path>> \notin g.gaps =>
          /\ <<Comp(c), Fld(path[1], path[2]), "references">> \in DOMAIN g.edges
          /\ "write" \in g.edges[<<Comp(c), Fld(path[1], path[2]), "references">>].notes
  BY <1>2 DEF Traced, Grown
<1> QED
  BY <1>1, <1>2, <1>3, Zenon DEF Traced

\* Where a walk along a path is after some hops: given up or at its end with a
\* trace left, or at the object the next hop starts from.
HopInv(g, c, path, i, w) ==
    /\ w = [g |-> w.g, at |-> w.at, done |-> w.done]
    /\ Keeps(g, w.g)
    /\ w.done = TRUE \/ w.done = FALSE
    /\ w.done => Traced(w.g, c, path)
    /\ i = Len(path) => w.done
    /\ i = 1 => w.at = path[1] /\ ~w.done

LEMMA HopKeeps ==
    ASSUME org \in Orgs, NEW c \in org.components, NEW path \in c.fields,
           NEW g, NEW i \in 2..Len(path), NEW w, HopInv(g, c, path, i - 1, w)
    PROVE  HopInv(g, c, path, i, Hop(w, c, path, i))
<1>1. path \in Seq(STRING) /\ Len(path) \in Nat /\ i \in Nat /\ i >= 2 /\ i <= Len(path)
  BY GraphAssumption
<1>2. Keeps(g, w.g) /\ Sound(w.g)
  BY DEF HopInv, Keeps
<1>3. w = [g |-> w.g, at |-> w.at, done |-> w.done]
  BY DEF HopInv
<1>4. CASE w.done = TRUE
  <2>1. Hop(w, c, path, i) = w
    BY <1>4 DEF Hop
  <2> QED
    BY <1>1, <1>4, <2>1 DEF HopInv
<1>5. CASE w.done = FALSE
  <2>1. PICK o : o = w.at
    OBVIOUS
  <2>3. PICK f : f = HopField(w, path[i], i = Len(path))
    OBVIOUS
  <2>4. f \in {path[i], FieldOfHop[path[i]]} /\ (i = Len(path) => f = path[i])
    BY <2>3 DEF HopField
  <2>5. CASE MissingCustom(w, o, f)
    <3>1. PICK m : m = AddNode(w.g, Obj(o))
      OBVIOUS
    <3>2. Keeps(w.g, m) /\ Sound(m)
      BY <1>2, <3>1, AddNodeKeeps, NodesOf DEF Keeps
    <3>3. PICK n : n = Gap(m, c, path)
      OBVIOUS
    <3>4. Keeps(m, n) /\ Sound(n) /\ <<Comp(c), path>> \in n.gaps
      BY <3>2, <3>3, GapKeeps DEF Keeps
    <3>5. PICK h : h = AddEdge(n, Comp(c), Obj(o), "references", c.evidence, 70, {"unresolved field"})
      OBVIOUS
    <3>6. Keeps(n, h) /\ <<Comp(c), path>> \in h.gaps
      <4>1. Keeps(n, h)
        BY <3>4, <3>5, AddEdgeKeeps, NodesOf, MaySayTo DEF EdgeKind
      <4> QED
        BY <3>4, <4>1 DEF Keeps, Grown
    <3>7. Hop(w, c, path, i) = [w EXCEPT !.done = TRUE, !.g = h]
      BY <1>5, <2>1, <2>3, <2>5, <3>1, <3>3, <3>5, Zenon DEF Hop
    <3>8. Hop(w, c, path, i) = [g |-> h, at |-> w.at, done |-> TRUE]
      BY <1>3, <3>7, Zenon
    <3>9. Keeps(g, h)
      BY <1>2, <3>2, <3>4, <3>6, KeepsOn
    <3>10. Traced(h, c, path)
      BY <3>6 DEF Traced
    <3> QED
      BY <1>1, <3>8, <3>9, <3>10 DEF HopInv
  <2>6. CASE ~MissingCustom(w, o, f)
    <3>1. PICK h : h = IF Known(w.g, o, f) THEN w.g
                       ELSE IF PackageOf(o, f) # "none" THEN PackageField(w.g, PackageOf(o, f), o, f)
                       ELSE InferField(w.g, o, f)
      OBVIOUS
    <3>2. Keeps(w.g, h) /\ Fld(o, f) \in DOMAIN h.target
      <4>1. CASE Known(w.g, o, f)
        BY <1>2, <3>1, <4>1, GrownItself DEF Known, Keeps
      <4>2. CASE ~Known(w.g, o, f) /\ PackageOf(o, f) # "none"
        BY <1>2, <3>1, <4>2, PackageKeeps
      <4>3. CASE ~Known(w.g, o, f) /\ PackageOf(o, f) = "none"
        <5>1. MayExist(o, f)
          BY <2>6, <4>3 DEF MissingCustom, MayExist
        <5> QED
          BY <1>2, <3>1, <4>3, <5>1, InferKeeps
      <4> QED
        BY <4>1, <4>2, <4>3
    <3>3. PICK note : note = IF i = Len(path) /\ <<o, f>> \in c.written THEN "write" ELSE "read"
      OBVIOUS
    <3>4. PICK conf : conf = IF IsApex(c) THEN 90 ELSE 100
      OBVIOUS
    <3>5. PICK linked : linked = AddEdge(h, Comp(c), Fld(o, f), "references", c.evidence, conf, {note})
      OBVIOUS
    <3>6. Keeps(h, linked) /\ <<Comp(c), Fld(o, f), "references">> \in DOMAIN linked.edges
          /\ note \in linked.edges[<<Comp(c), Fld(o, f), "references">>].notes
      <4>1. Comp(c) # Fld(o, f)
        BY NodesOf
      <4>2. Node(Comp(c)) /\ Node(Fld(o, f)) /\ Sound(h)
        BY <3>2, NodesOf DEF Keeps
      <4>3. MaySay(Comp(c), Fld(o, f), "references", {note})
        BY <3>3, MaySayTo DEF Timing
      <4> QED
        BY <3>5, <4>1, <4>2, <4>3, AddEdgeKeeps
    <3>7. linked.target = h.target
      BY <3>5, AddEdgeLeaves
    <3>8. Keeps(g, linked)
      BY <1>2, <3>2, <3>6, KeepsOn
    <3>9. CASE i = Len(path) \/ h.target[Fld(o, f)] = <<>>
      <4>1. Hop(w, c, path, i) = [w EXCEPT !.done = TRUE, !.g = linked]
        BY <1>5, <2>1, <2>3, <2>6, <3>1, <3>3, <3>4, <3>5, <3>9, Zenon DEF Hop
      <4>2. Hop(w, c, path, i) = [g |-> linked, at |-> w.at, done |-> TRUE]
        BY <1>3, <4>1, Zenon
      <4>3. PICK key : key = <<Comp(c), Fld(o, f), "references">>
        OBVIOUS
      <4>4. key \in DOMAIN linked.edges /\ key[1] = Comp(c) /\ key[2] = Fld(o, f) /\ key[2][3] = f
        BY <3>6, <4>3 DEF Fld
      <4>5. key[2] \in DOMAIN linked.target /\ linked.target[key[2]] = h.target[Fld(o, f)]
        BY <3>2, <3>7, <4>4
      <4>6. i = Len(path) => key[2][3] = Last(path)
        BY <1>1, <2>4, <4>4 DEF Last
      <4>7. i # Len(path) => /\ linked.target[key[2]] = <<>>
                     /\ i \in 2..Len(path) - 1 /\ key[2][3] \in {path[i], FieldOfHop[path[i]]}
        BY <1>1, <2>4, <3>9, <4>4, <4>5
      <4>8. path \in c.written => key = <<Comp(c), Fld(path[1], path[2]), "references">> /\ note = "write"
        <5>1. SUFFICES ASSUME path \in c.written
                       PROVE  key = <<Comp(c), Fld(path[1], path[2]), "references">> /\ note = "write"
          OBVIOUS
        <5>2. Len(path) = 2
          BY <5>1, GraphAssumption
        <5>3. i = 2 /\ i = Len(path) /\ i - 1 = 1
          BY <1>1, <5>2
        <5>4. o = path[1] /\ f = path[2]
          BY <2>1, <2>4, <5>3 DEF HopInv
        <5>5. path = <<path[1], path[2]>>
          BY <1>1, <5>2
        <5> QED
          BY <3>3, <4>3, <5>1, <5>3, <5>4, <5>5
      <4>9. Traced(linked, c, path)
        <5>1. \/ key[2][3] = Last(path)
              \/ /\ linked.target[key[2]] = <<>>
                 /\ \E j \in 2..Len(path) - 1 : key[2][3] \in {path[j], FieldOfHop[path[j]]}
          BY <4>6, <4>7
        <5>2. path \in c.written =>
                /\ <<Comp(c), Fld(path[1], path[2]), "references">> \in DOMAIN linked.edges
                /\ "write" \in linked.edges[<<Comp(c), Fld(path[1], path[2]), "references">>].notes
          BY <3>6, <4>3, <4>8
        <5> QED
          BY <4>4, <4>5, <5>1, <5>2, Zenon DEF Traced
      <4> QED
        BY <1>1, <3>8, <4>2, <4>9 DEF HopInv
    <3>10. CASE i # Len(path) /\ h.target[Fld(o, f)] # <<>>
      <4>1. Hop(w, c, path, i) = [w EXCEPT !.at = Head(h.target[Fld(o, f)]), !.g = linked]
        BY <1>5, <2>1, <2>3, <2>6, <3>1, <3>3, <3>4, <3>5, <3>10, Zenon DEF Hop
      <4>2. Hop(w, c, path, i) = [g |-> linked, at |-> Head(h.target[Fld(o, f)]), done |-> FALSE]
        BY <1>3, <1>5, <4>1, Zenon
      <4> QED
        BY <1>1, <3>8, <3>10, <4>2 DEF HopInv
    <3> QED
      BY <3>9, <3>10
  <2> QED
    BY <2>5, <2>6
<1> QED
  BY <1>4, <1>5 DEF HopInv

\* A list without repetition of all the elements of a set misses none.
LEMMA OntoWhenAsMany ==
    ASSUME NEW S, IsFiniteSet(S), NEW n \in Nat, n = Cardinality(S),
           NEW f \in [1..n -> S], \A i, j \in 1..n : i # j => f[i] # f[j]
    PROVE  \A x \in S : \E i \in 1..n : f[i] = x
<1>1. f \in Injection(1..n, S)
  BY DEF Injection, IsInjective
<1>2. IsFiniteSet(1..n) /\ Cardinality(1..n) = n
  BY FS_Interval
<1>3. f \in Surjection(1..n, S)
  BY <1>1, <1>2, FS_Injection
<1> QED
  BY <1>3 DEF Surjection

LEMMA LinkFieldTraces ==
    ASSUME org \in Orgs, NEW c \in org.components, NEW path \in c.fields, NEW g, Sound(g)
    PROVE  Keeps(g, LinkField(g, c, path)) /\ Traced(LinkField(g, c, path), c, path)
<1>1. path \in Seq(STRING) /\ Len(path) \in Nat /\ Len(path) >= 2
  BY GraphAssumption
<1>2. PICK n \in Nat : n = Len(path) - 1
  BY <1>1
<1>3. PICK seq : seq = [i \in 1..Len(path) - 1 |-> i + 1]
  OBVIOUS
<1>4. DOMAIN seq = 1..n /\ \A i \in 1..n : seq[i] = i + 1
  BY <1>2, <1>3
<1>5. PICK base : base = [g |-> g, at |-> path[1], done |-> FALSE]
  OBVIOUS
<1>6. PICK f : /\ FoldedLast("hop", [component |-> c, path |-> path, order |-> seq], 1..n, base, f)
               /\ HopsPass(base, c, path, seq) = f[1..n]
  BY <1>4, HopsFold
<1>7. \A s \in SUBSET (1..n) :
          f[s] = IF s = {} THEN base
                 ELSE Step("hop", [component |-> c, path |-> path, order |-> seq], f[s \ {Max(s)}], Max(s))
  BY <1>6, Zenon DEF FoldedLast
<1>8. ASSUME NEW i \in 1..n  PROVE f[1..i] = Hop(f[1..(i - 1)], c, path, i + 1)
  <2>1. f[1..i] = Step("hop", [component |-> c, path |-> path, order |-> seq], f[1..(i - 1)], i)
    BY <1>7, LastOut
  <2>2. \A w : Step("hop", [component |-> c, path |-> path, order |-> seq], w, i) = Hop(w, c, path, seq[i])
    BY DEF Step
  <2> QED
    BY <1>4, <2>1, <2>2
<1> DEFINE Good == {i \in Nat : i <= n => HopInv(g, c, path, i + 1, f[1..i])}
<1>9. 0 \in Good
  <2>1. 1..0 = {} /\ 0 + 1 = 1
    OBVIOUS
  <2>2. f[1..0] = base
    BY <1>7, <2>1
  <2>3. HopInv(g, c, path, 1, base)
    <3>1. base.g = g /\ base.at = path[1] /\ base.done = FALSE
      BY <1>5
    <3>2. base = [g |-> base.g, at |-> base.at, done |-> base.done]
      BY <1>5, <3>1
    <3>3. Keeps(g, g)
      BY GrownItself DEF Keeps
    <3>4. 1 # Len(path)
      <4>1. PICK len \in Nat : len = Len(path) /\ len >= 2
        BY <1>1
      <4>2. 1 # len
        BY <4>1
      <4> QED
        BY <4>1, <4>2
    <3> QED
      BY <3>1, <3>2, <3>3, <3>4 DEF HopInv
  <2> QED
    BY <2>1, <2>2, <2>3
<1>10. ASSUME NEW i \in Nat, i \in Good  PROVE i + 1 \in Good
  <2>1. SUFFICES ASSUME i + 1 <= n  PROVE HopInv(g, c, path, (i + 1) + 1, f[1..(i + 1)])
    OBVIOUS
  <2>2. PICK j \in 2..Len(path) : j = (i + 1) + 1
    BY <1>1, <1>2, <2>1
  <2>3. i + 1 \in 1..n /\ (i + 1) - 1 = i /\ j - 1 = i + 1 /\ i <= n
    BY <2>1, <2>2
  <2>4. f[1..(i + 1)] = Hop(f[1..i], c, path, j)
    BY <1>8, <2>2, <2>3
  <2>5. HopInv(g, c, path, j - 1, f[1..i])
    BY <1>10, <2>3
  <2>6. HopInv(g, c, path, j, Hop(f[1..i], c, path, j))
    BY <2>5, HopKeeps
  <2> QED
    BY <2>2, <2>4, <2>6
<1> HIDE DEF Good
<1>11. \A i \in Nat : i \in Good
  BY <1>9, <1>10, CountingUp
<1>12. HopInv(g, c, path, Len(path), f[1..n])
  <2>1. HopInv(g, c, path, n + 1, f[1..n])
    BY <1>11 DEF Good
  <2> QED
    BY <1>1, <1>2, <2>1
<1>13. LinkField(g, c, path) = f[1..n].g
  BY <1>3, <1>5, <1>6, Zenon DEF LinkField, HopsPass
<1> QED
  BY <1>12, <1>13 DEF HopInv

\* A component is linked in any order of its fields; each is traced.
LEMMA PathsTraced ==
    ASSUME org \in Orgs, NEW c \in org.components, NEW g, Sound(g), NEW order \in SetToSeqs(c.fields)
    PROVE  /\ Keeps(g, PathsPass(g, c, order))
           /\ \A path \in c.fields : Traced(PathsPass(g, c, order), c, path)
<1>1. PICK n \in Nat : n = Cardinality(c.fields)
  BY GraphAssumption, FS_CardinalityType
<1>2. order \in [1..n -> c.fields] /\ \A i, j \in 1..n : i # j => order[i] # order[j]
  BY <1>1 DEF SetToSeqs
<1>3. PICK f : /\ FoldedLast("path", [component |-> c, order |-> order], 1..n, g, f)
               /\ PathsPass(g, c, order) = f[1..n]
  BY <1>2, PathsFold
<1>4. Taken("path", [component |-> c, order |-> order], 1..n, g, f)
  BY <1>3, FoldedLastTakes
<1> DEFINE Good == {s \in SUBSET (1..n) : Keeps(g, f[s]) /\ \A i \in s : Traced(f[s], c, order[i])}
<1>5. {} \in Good
  BY <1>4, GrownItself DEF Taken, Keeps
<1>6. ASSUME NEW s \in SUBSET (1..n), s # {}  PROVE \E x \in s : s \ {x} \in Good => s \in Good
  <2>1. PICK x \in s : f[s] = Step("path", [component |-> c, order |-> order], f[s \ {x}], x)
    BY <1>4, <1>6 DEF Taken
  <2>2. f[s] = LinkField(f[s \ {x}], c, order[x])
    BY <2>1 DEF Step
  <2>3. ASSUME s \ {x} \in Good  PROVE s \in Good
    <3>1. Keeps(g, f[s \ {x}]) /\ Sound(f[s \ {x}]) /\ order[x] \in c.fields
      BY <1>2, <2>3 DEF Keeps
    <3>2. Keeps(f[s \ {x}], f[s]) /\ Traced(f[s], c, order[x])
      BY <2>2, <3>1, LinkFieldTraces
    <3>3. Keeps(g, f[s])
      BY <3>1, <3>2, KeepsOn
    <3>4. ASSUME NEW i \in s  PROVE Traced(f[s], c, order[i])
      <4>1. CASE i = x
        BY <3>2, <4>1
      <4>2. CASE i # x
        <5>1. Traced(f[s \ {x}], c, order[i])
          BY <2>3, <4>2
        <5> QED
          BY <3>2, <5>1, TraceStays DEF Keeps
      <4> QED
        BY <4>1, <4>2
    <3> QED
      BY <3>3, <3>4
  <2> QED
    BY <2>3
<1> HIDE DEF Good
<1>7. \A s \in SUBSET (1..n) : s \in Good
  <2>1. IsFiniteSet(1..n)
    BY FS_Interval
  <2> QED
    BY <1>5, <1>6, <2>1, SubsetsByPicking
<1>8. Keeps(g, f[1..n]) /\ \A i \in 1..n : Traced(f[1..n], c, order[i])
  BY <1>7 DEF Good
<1>9. \A path \in c.fields : \E i \in 1..n : order[i] = path
  <2>1. IsFiniteSet(c.fields)
    BY GraphAssumption
  <2> QED
    BY <1>1, <1>2, <2>1, OntoWhenAsMany
<1> QED
  BY <1>3, <1>8, <1>9

LEMMA LinkKeeps ==
    ASSUME org \in Orgs, NEW c \in org.components, NEW g, Sound(g), NEW order \in SetToSeqs(c.fields)
    PROVE  /\ Keeps(g, Link(g, c, order))
           /\ \A path \in c.fields : Traced(Link(g, c, order), c, path)
<1>1. IsFiniteSet(c.objects) /\ IsFiniteSet(c.uses) /\ IsFiniteSet(c.globals)
  BY GraphAssumption
<1>3. PICK t : t = AddTrigger(g, c)
  OBVIOUS
<1>4. Keeps(g, t) /\ Sound(t)
  BY <1>3, TriggerKeeps DEF Keeps
<1>5. PICK a : a = ObjectsPass(t, c, c.objects)
  OBVIOUS
<1>6. Keeps(t, a) /\ Sound(a)
  <2>1. PICK f : Taken("object", c, c.objects, t, f) /\ a = f[c.objects]
    BY <1>1, <1>5, ObjectsFold
  <2>2. ASSUME NEW r \in c.objects, NEW v, Sound(v)  PROVE Keeps(v, Step("object", c, v, r))
    <3>1. Keeps(v, AddObject(v, c, r))
      BY <2>2, ObjectKeeps
    <3> QED
      BY <3>1 DEF Step
  <2>3. Keeps(t, f[c.objects])
    BY <1>1, <1>4, <2>1, <2>2, FoldKeeps
  <2> QED
    BY <2>1, <2>3 DEF Keeps
<1>7. PICK p : p = PathsPass(a, c, order)
  OBVIOUS
<1>8. Keeps(a, p) /\ Sound(p) /\ \A path \in c.fields : Traced(p, c, path)
  BY <1>6, <1>7, PathsTraced DEF Keeps
<1>9. PICK b : b = AddOwned(p, c)
  OBVIOUS
<1>10. Keeps(p, b) /\ Sound(b)
  BY <1>8, <1>9, OwnedKeeps DEF Keeps
<1>11. PICK d : d = UsesPass(b, c, c.uses)
  OBVIOUS
<1>12. Keeps(b, d) /\ Sound(d)
  <2>1. PICK f : Taken("use", c, c.uses, b, f) /\ d = f[c.uses]
    BY <1>1, <1>11, UsesFold
  <2>2. ASSUME NEW u \in c.uses, NEW v, Sound(v)  PROVE Keeps(v, Step("use", c, v, u))
    <3>1. Keeps(v, AddUse(v, c, u))
      BY <2>2, UseKeeps
    <3> QED
      BY <3>1 DEF Step
  <2>3. Keeps(b, f[c.uses])
    BY <1>1, <1>10, <2>1, <2>2, FoldKeeps
  <2> QED
    BY <2>1, <2>3 DEF Keeps
<1>13. PICK h : h = GlobalsPass(d, c, c.globals)
  OBVIOUS
<1>14. Keeps(d, h)
  <2>1. PICK f : Taken("global", c, c.globals, d, f) /\ h = f[c.globals]
    BY <1>1, <1>13, GlobalsFold
  <2>2. ASSUME NEW r \in c.globals, NEW v, Sound(v)  PROVE Keeps(v, Step("global", c, v, r))
    <3>1. Keeps(v, AddGlobal(v, c, r))
      BY <2>2, GlobalKeeps
    <3> QED
      BY <3>1 DEF Step
  <2>3. Keeps(d, f[c.globals])
    BY <1>1, <1>12, <2>1, <2>2, FoldKeeps
  <2> QED
    BY <2>1, <2>3
<1>15. Link(g, c, order) = h
  BY <1>3, <1>5, <1>7, <1>9, <1>11, <1>13, Zenon DEF Link, ObjectsPass, PathsPass, UsesPass, GlobalsPass
<1>16. Keeps(p, h)
  BY <1>10, <1>12, <1>14, KeepsOn
<1>17. Keeps(g, h)
  BY <1>4, <1>6, <1>8, <1>16, KeepsOn
<1>18. \A path \in c.fields : Traced(h, c, path)
  BY <1>8, <1>16, TraceStays DEF Keeps
<1> QED
  BY <1>15, <1>17, <1>18

------------------------------------------------------------------------------
(* The invariant of the build.                                              *)

GraphInv ==
    /\ org \in Orgs
    /\ Sound(Graph)
    /\ phase \in {"schema", "config", "components", "rows", "built"}
    /\ todo \subseteq org.components
    /\ phase \in {"schema", "config"} => todo = org.components
    /\ phase \in {"rows", "built"} => todo = {}
    /\ \A c \in org.components \ todo : \A path \in c.fields : Traced(Graph, c, path)

LEMMA GraphIs ==
    Graph.nodes = nodes /\ Graph.edges = edges /\ Graph.gaps = gaps /\ Graph.target = target
BY DEF Graph

\* A pass that keeps the graph sound leads to the graph it computes.
LEMMA PassLeads ==
    ASSUME NEW g, Sound(g), Becomes(g), org' = org
    PROVE  Graph' = g /\ Sound(Graph)'
<1>1. g = [nodes |-> g.nodes, edges |-> g.edges, gaps |-> g.gaps, target |-> g.target]
  BY DEF Sound
<1>2. Graph' = g
  BY <1>1, Zenon DEF Graph, Becomes
<1>3. Sound(g)'
  BY DEF Sound, EdgeSound, FieldSound, Node, MayExist, MaySay, ImportKnown, ImportedByLwc
<1> QED
  BY <1>2, <1>3

LEMMA PassKeeps ==
    ASSUME GraphInv, NEW g, Keeps(Graph, g), Becomes(g), org' = org
    PROVE  /\ Sound(Graph)'
           /\ \A c \in org.components \ todo : \A path \in c.fields : Traced(Graph', c, path)
<1>1. Graph' = g /\ Sound(Graph)'
  BY PassLeads DEF Keeps
<1>2. ASSUME NEW c \in org.components \ todo, NEW path \in c.fields  PROVE Traced(g, c, path)
  BY <1>2, TraceStays DEF GraphInv, Keeps
<1> QED
  BY <1>1, <1>2

LEMMA SchemaInv == ASSUME GraphInv, AddSchema  PROVE GraphInv'
<1>1. PICK fields : fields = {Fld(f.object, f.name) : f \in org.fields}
  OBVIOUS
<1>2. PICK found : found = nodes \cup fields \cup {Obj(o) : o \in org.objects} \cup {Obj(l[2]) : l \in Lookups}
  OBVIOUS
<1>3. PICK to : to = [q \in fields |-> (CHOOSE f \in org.fields : Fld(f.object, f.name) = q).to]
  OBVIOUS
<1>4. PICK g : g = [nodes |-> found, edges |-> edges, gaps |-> gaps, target |-> to]
  OBVIOUS
<1>5. [Graph EXCEPT !.nodes = found, !.target = to] = g
  <2>1. PICK b : b = Graph
    OBVIOUS
  <2>2. b = [nodes |-> nodes, edges |-> edges, gaps |-> gaps, target |-> target]
    BY <2>1 DEF Graph
  <2>3. PICK e : e = [b EXCEPT !.nodes = found, !.target = to]
    OBVIOUS
  <2>4. e = [nodes |-> found, edges |-> edges, gaps |-> gaps, target |-> to]
    BY <2>2, <2>3, Zenon
  <2> QED
    BY <1>4, <2>1, <2>3, <2>4
<1>6. PICK h : h = LookupsPass(g, Lookups)
  OBVIOUS
<1>7. Becomes(h)
  <2>1. Graph.nodes = nodes
    BY DEF Graph
  <2> QED
    BY <1>1, <1>2, <1>3, <1>5, <1>6, <2>1, Zenon DEF AddSchema, LookupsPass
<1>8. org \in Orgs /\ phase = "schema" /\ phase' = "config" /\ org' = org /\ todo' = todo
      /\ todo = org.components
  BY DEF AddSchema, GraphInv
<1>9. g.nodes = found /\ g.edges = edges /\ g.gaps = gaps /\ g.target = to
  BY <1>4
<1>10. Sound(g)
  <2>1. \A n \in nodes : Node(n)
    BY GraphIs DEF GraphInv, Sound
  <2>2. \A n \in found : Node(n)
    BY <1>1, <1>2, <2>1, NodesOf
  <2>3. ASSUME NEW q \in DOMAIN to  PROVE FieldSound(q)
    <3>1. PICK f \in org.fields : q = Fld(f.object, f.name)
      BY <1>1, <1>3, <2>3
    <3>2. q[2] = f.object /\ q[3] = f.name
      BY <3>1 DEF Fld
    <3>3. MayExist(f.object, f.name)
      BY DEF MayExist
    <3> QED
      BY <3>1, <3>2, <3>3 DEF FieldSound
  <2>4. Total(to)
    BY <1>3 DEF Total
  <2>5. Total(edges) /\ IsFiniteSet(DOMAIN edges) /\ \A k \in DOMAIN edges : EdgeSound(k, edges[k])
    BY GraphIs DEF GraphInv, Sound
  <2> QED
    BY <1>4, <1>9, <2>2, <2>3, <2>4, <2>5 DEF Sound
<1>11. Sound(h)
  <2>1. IsFiniteSet(Lookups)
    BY <1>8, GraphAssumption DEF Lookups
  <2>2. PICK f : Taken("lookup", 0, Lookups, g, f) /\ h = f[Lookups]
    BY <1>6, <2>1, LookupsFold
  <2>3. ASSUME NEW l \in Lookups, NEW v, Sound(v)  PROVE Keeps(v, Step("lookup", 0, v, l))
    <3>1. PICK q \in org.fields : \E i \in DOMAIN q.to : l = <<Fld(q.object, q.name), q.to[i]>>
      BY DEF Lookups, LookupsOf
    <3>2. Node(l[1]) /\ Node(Obj(l[2])) /\ MaySay(l[1], Obj(l[2]), "references", {"lookup"})
      BY <3>1, NodesOf, MaySayTo DEF EdgeKind
    <3>3. Keeps(v, AddEdge(v, l[1], Obj(l[2]), "references", "schema", 100, {"lookup"}))
      BY <2>3, <3>2, AddEdgeKeeps
    <3> QED
      BY <3>3 DEF Step
  <2>4. Keeps(g, f[Lookups])
    BY <1>10, <2>1, <2>2, <2>3, FoldKeeps
  <2> QED
    BY <2>2, <2>4 DEF Keeps
<1>12. Sound(Graph)'
  BY <1>7, <1>8, <1>11, PassLeads
<1> QED
  BY <1>8, <1>12 DEF GraphInv

LEMMA RowsInv == ASSUME GraphInv, AddCmtRecords  PROVE GraphInv'
<1>1. org \in Orgs /\ phase = "config" /\ phase' = "components" /\ org' = org /\ todo' = todo
      /\ todo = org.components /\ Sound(Graph)
  BY DEF AddCmtRecords, GraphInv
<1>2. PICK h : h = RowsPass(Graph, org.rows)
  OBVIOUS
<1>3. Becomes(h)
  BY <1>2, Zenon DEF AddCmtRecords, RowsPass
<1>4. Keeps(Graph, h)
  <2>1. IsFiniteSet(org.rows)
    BY <1>1, GraphAssumption
  <2>2. PICK f : Taken("row", 0, org.rows, Graph, f) /\ h = f[org.rows]
    BY <1>2, <2>1, RowsFold
  <2>3. ASSUME NEW r \in org.rows, NEW v, Sound(v)  PROVE Keeps(v, Step("row", 0, v, r))
    <3>1. Keeps(v, AddRow(v, r))
      BY <1>1, <2>3, RowKeeps
    <3> QED
      BY <3>1 DEF Step
  <2> QED
    BY <1>1, <2>1, <2>2, <2>3, FoldKeeps
<1>5. Sound(Graph)'
  BY <1>1, <1>3, <1>4, PassLeads DEF Keeps
<1> QED
  BY <1>1, <1>5 DEF GraphInv

LEMMA ComponentInv == ASSUME GraphInv, NEW c \in todo, LinkComponent(c)  PROVE GraphInv'
<1>1. org \in Orgs /\ phase = "components" /\ phase' = phase /\ org' = org /\ todo' = todo \ {c}
      /\ c \in org.components /\ Sound(Graph) /\ todo \subseteq org.components
  BY DEF LinkComponent, GraphInv
<1>2. PICK order \in SetToSeqs(c.fields) : Becomes(Link(Graph, c, order))
  BY DEF LinkComponent
<1>3. PICK h : h = Link(Graph, c, order)
  OBVIOUS
<1>4. Keeps(Graph, h) /\ \A path \in c.fields : Traced(h, c, path)
  BY <1>1, <1>3, LinkKeeps
<1>5. Sound(Graph)' /\ \A k \in org.components \ todo : \A path \in k.fields : Traced(Graph', k, path)
  BY <1>1, <1>2, <1>3, <1>4, PassKeeps
<1>6. Graph' = h
  BY <1>1, <1>2, <1>3, <1>4, PassLeads DEF Keeps
<1>7. \A k \in org.components \ todo' : \A path \in k.fields : Traced(Graph', k, path)
  BY <1>1, <1>4, <1>5, <1>6
<1> QED
  BY <1>1, <1>5, <1>7 DEF GraphInv

LEMMA DispatchInv == ASSUME GraphInv, Dispatch  PROVE GraphInv'
<1>1. org \in Orgs /\ phase' = "rows" /\ org' = org /\ todo' = todo /\ todo = {} /\ Sound(Graph)
  BY DEF Dispatch, GraphInv
<1>2. PICK known : known = {d \in org.dispatch : Named({"apex_class"}, d.handler) # {} /\ Dispatchers(d) # {}}
  OBVIOUS
<1>3. PICK from \in [known -> org.components] :
          /\ \A d \in known : from[d] \in Dispatchers(d)
          /\ Becomes(CronsPass(DispatchesPass(Graph, from, known), org.cron))
  BY <1>2, Zenon DEF Dispatch, CronsPass, DispatchesPass
<1>4. IsFiniteSet(known) /\ IsFiniteSet(org.cron)
  <2>1. IsFiniteSet(org.dispatch) /\ IsFiniteSet(org.cron)
    BY <1>1, GraphAssumption
  <2> QED
    BY <1>2, <2>1, FS_Subset
<1>5. PICK a : a = DispatchesPass(Graph, from, known)
  OBVIOUS
<1>6. Keeps(Graph, a) /\ Sound(a)
  <2>1. PICK f : Taken("dispatch", from, known, Graph, f) /\ a = f[known]
    BY <1>4, <1>5, DispatchesFold
  <2>2. ASSUME NEW d \in known, NEW v, Sound(v)  PROVE Keeps(v, Step("dispatch", from, v, d))
    <3>1. from[d] \in org.components /\ d.prefix # "write" /\ Named({"apex_class"}, d.handler) # {}
      BY <1>1, <1>2, <1>3, GraphAssumption
    <3>2. PICK to : to = Found(Named({"apex_class"}, d.handler))
      OBVIOUS
    <3>3. Node(Comp(from[d])) /\ Node(to) /\ IsComponent(to)
      BY <3>1, <3>2, FoundIs, NamedAre, NodesOf
    <3>4. from[d].category # "lwc_bundle"
      <4>1. \A x \in Dispatchers(d) : x.category \in {"apex_trigger", "apex_class"}
        BY DEF Dispatchers
      <4> QED
        BY <1>3, <4>1
    <3>5. ImportKnown(Comp(from[d]), to)
      BY <1>1, <3>1, <3>4, NoBundleCalls
    <3>6. MaySay(Comp(from[d]), to, "dispatches", {d.prefix})
      BY <3>1, <3>3, <3>5, MaySayBetween
    <3>7. Keeps(v, AddEdge(v, Comp(from[d]), to, "dispatches", "cmt_dispatch", d.sure, {d.prefix}))
      BY <2>2, <3>3, <3>6, AddEdgeKeeps
    <3> QED
      BY <3>2, <3>7 DEF Step
  <2>3. Keeps(Graph, f[known])
    BY <1>1, <1>4, <2>1, <2>2, FoldKeeps
  <2> QED
    BY <2>1, <2>3 DEF Keeps
<1>7. PICK h : h = CronsPass(a, org.cron)
  OBVIOUS
<1>8. Keeps(a, h)
  <2>1. PICK f : Taken("cron", 0, org.cron, a, f) /\ h = f[org.cron]
    BY <1>4, <1>7, CronsFold
  <2>2. ASSUME NEW n \in org.cron, NEW v, Sound(v)  PROVE Keeps(v, Step("cron", 0, v, n))
    <3>1. Keeps(v, AddCron(v, n))
      BY <2>2, CronKeeps
    <3> QED
      BY <3>1 DEF Step
  <2> QED
    BY <1>4, <1>6, <2>1, <2>2, FoldKeeps
<1>9. Keeps(Graph, h) /\ Becomes(h)
  BY <1>3, <1>5, <1>6, <1>7, <1>8, KeepsOn
<1>10. /\ Sound(Graph)'
       /\ \A c \in org.components \ todo : \A path \in c.fields : Traced(Graph', c, path)
  BY <1>1, <1>9, PassKeeps
<1> QED
  BY <1>1, <1>10 DEF GraphInv

LEMMA EndsAreNodes == ASSUME GraphInv, NEW ref, NEW n \in MapRef(ref)  PROVE Node(n)
<1>1. \A categories, name : Named(categories, name) \subseteq org.components
  BY NamedAre
<1>2. \A o : Workflows(o) \subseteq org.components
  BY NamedAre
<1>3. \A f \in DOMAIN target : Node(f)
  <2>1. ASSUME NEW f \in DOMAIN target  PROVE Node(f)
    <3>1. f = Fld(f[2], f[3])
      BY <2>1, GraphIs DEF GraphInv, Sound, FieldSound
    <3> QED
      BY <3>1, NodesOf
  <2> QED
    BY <2>1
<1>4. CASE ref.type \in {"apex_class", "apex_trigger", "flexipage", "permission_set"}
  <2>1. MapRef(ref) = {Comp(c) : c \in Named({ref.type}, ref.name)}
    BY <1>4 DEF MapRef
  <2> QED
    BY <1>1, <2>1, NodesOf
<1>5. CASE ref.type = "flow"
  <2>1. MapRef(ref) = {Comp(c) : c \in Named(FlowCategory, ref.name)}
    BY <1>5 DEF MapRef
  <2> QED
    BY <1>1, <2>1, NodesOf
<1>6. CASE ref.type = "field"
  <2>1. MapRef(ref) = {Fld(ref.object, ref.name)} \cap DOMAIN target
    BY <1>6 DEF MapRef
  <2> QED
    BY <1>3, <2>1
<1>7. CASE ref.type = "object"
  <2>1. MapRef(ref) = {Obj(ref.name)}
    BY <1>7 DEF MapRef
  <2> QED
    BY <2>1, NodesOf
<1>8. CASE ref.type \in {"workflow_rule", "workflow_alert", "field_update"}
  <2>1. MapRef(ref) = {Comp(c) : c \in Workflows(ref.object)}
    BY <1>8 DEF MapRef
  <2> QED
    BY <1>2, <2>1, NodesOf
<1>9. CASE ref.type \in {"layout", "listview"}
  <2>1. MapRef(ref) = {Ext(ref.type, ref.name)}
    BY <1>9 DEF MapRef
  <2> QED
    BY <1>9, <2>1, NodesOf
<1>10. CASE ref.type \notin {"apex_class", "apex_trigger", "flexipage", "permission_set", "flow", "field",
                             "object", "workflow_rule", "workflow_alert", "field_update", "layout", "listview"}
  <2>1. MapRef(ref) = {}
    BY <1>10 DEF MapRef
  <2> QED
    BY <2>1
<1> QED
  BY <1>4, <1>5, <1>6, <1>7, <1>8, <1>9, <1>10

\* A row that agrees with an edge changes nothing but how sure it is.
LEMMA CorroborateKeeps ==
    ASSUME GraphInv, NEW matches, NEW forward, Corroborate(matches, forward),
           UNCHANGED <<nodes, gaps, target>>
    PROVE  \E g : Keeps(Graph, g) /\ Becomes(g)
<1>1. PICK more : more = [k \in DOMAIN edges |->
                IF k \notin matches THEN edges[k]
                ELSE [edges[k] EXCEPT !.api = TRUE,
                        !.confidence = IF k \in forward /\ @ + 5 < 100 THEN @ + 5
                                       ELSE IF k \in forward THEN 100 ELSE @]]
  OBVIOUS
<1>2. edges' = more
  BY <1>1, Zenon DEF Corroborate
<1>3. \A k \in DOMAIN edges : EdgeSound(k, edges[k])
  BY GraphIs DEF GraphInv, Sound
<1>4. ASSUME NEW k \in DOMAIN edges  PROVE EdgeSound(k, more[k]) /\ more[k].notes = edges[k].notes
  <2>1. PICK e : e = edges[k]
    OBVIOUS
  <2>2. e = [evidence |-> e.evidence, confidence |-> e.confidence, notes |-> e.notes, api |-> e.api]
    BY <1>3, <2>1 DEF EdgeSound
  <2>3. PICK conf : conf = IF k \in forward /\ e.confidence + 5 < 100 THEN e.confidence + 5
                           ELSE IF k \in forward THEN 100 ELSE e.confidence
    OBVIOUS
  <2>4. PICK f : f = [e EXCEPT !.api = TRUE, !.confidence = conf]
    OBVIOUS
  <2>5. f = [evidence |-> e.evidence, confidence |-> conf, notes |-> e.notes, api |-> TRUE]
    BY <2>2, <2>4, Zenon
  <2>6. more[k] = IF k \notin matches THEN e ELSE f
    BY <1>1, <2>1, <2>3, <2>4, Zenon
  <2>7. f.notes = e.notes
        /\ f = [evidence |-> f.evidence, confidence |-> f.confidence, notes |-> f.notes, api |-> f.api]
    BY <2>5
  <2>8. EdgeSound(k, f)
    BY <1>3, <2>1, <2>7 DEF EdgeSound
  <2> QED
    BY <1>3, <2>1, <2>6, <2>7, <2>8
<1>5. DOMAIN more = DOMAIN edges /\ Total(more)
  BY <1>1, Zenon DEF Total
<1>6. PICK g : g = [nodes |-> nodes, edges |-> more, gaps |-> gaps, target |-> target]
  OBVIOUS
<1>7. g.nodes = nodes /\ g.edges = more /\ g.gaps = gaps /\ g.target = target
  BY <1>6
<1>8. g = [nodes |-> g.nodes, edges |-> g.edges, gaps |-> g.gaps, target |-> g.target]
  BY <1>6, <1>7
<1>9. /\ IsFiniteSet(DOMAIN edges) /\ Total(target) /\ \A n \in nodes : Node(n)
      /\ \A f \in DOMAIN target : FieldSound(f)
  BY GraphIs DEF GraphInv, Sound
<1>10. Sound(g)
  BY <1>4, <1>5, <1>7, <1>8, <1>9 DEF Sound
<1>11. Grown(Graph, g)
  BY <1>4, <1>5, <1>7, GraphIs DEF Grown
<1>12. Becomes(g)
  BY <1>2, <1>7 DEF Becomes
<1> QED
  BY <1>10, <1>11, <1>12 DEF Keeps

LEMMA FoldRowInv == ASSUME GraphInv, FoldRow  PROVE GraphInv'
<1>1. org \in Orgs /\ phase = "rows" /\ phase' = phase /\ org' = org /\ todo' = todo /\ todo = {}
      /\ Sound(Graph)
  BY DEF FoldRow, GraphInv
<1>2. \E g : Keeps(Graph, g) /\ Becomes(g)
  <2>1. PICK row : row = org.api[stats.seen + 1]
    OBVIOUS
  <2>2. PICK ends : ends = MapRef(row.from) \X MapRef(row.to)
    OBVIOUS
  <2>3. CASE UNCHANGED graph
    <3>1. Becomes(Graph)
      BY <2>3, GraphIs DEF Becomes, graph
    <3> QED
      BY <1>1, <3>1, GrownItself DEF Keeps
  <2>4. ASSUME NEW s \in MapRef(row.from), NEW t \in MapRef(row.to),
               Becomes(AddEdge(AddNode(AddNode(Graph, s), t), s, t, "references",
                               "dependency_api", 60, {"API-only"}))
        PROVE  \E g : Keeps(Graph, g) /\ Becomes(g)
    <3>1. Node(s) /\ Node(t) /\ MaySay(s, t, "references", {"API-only"})
      BY EndsAreNodes DEF MaySay, EdgeKind, Timing
    <3>2. PICK a : a = AddNode(Graph, s)
      OBVIOUS
    <3>3. Keeps(Graph, a) /\ Sound(a)
      BY <1>1, <3>1, <3>2, AddNodeKeeps DEF Keeps
    <3>4. Keeps(a, AddEdge(AddNode(a, t), s, t, "references", "dependency_api", 60, {"API-only"}))
      BY <3>1, <3>3, AddBothKeeps
    <3> QED
      BY <2>4, <3>2, <3>3, <3>4, KeepsOn
  <2>5. ASSUME NEW end \in ends, NEW forward, NEW matches, Corroborate(matches, forward),
               UNCHANGED <<nodes, gaps, target>>
        PROVE  \E g : Keeps(Graph, g) /\ Becomes(g)
    BY <2>5, CorroborateKeeps
  <2>6. \/ UNCHANGED graph
        \/ \E end \in ends : \E forward, matches :
              Corroborate(matches, forward) /\ UNCHANGED <<nodes, gaps, target>>
        \/ \E end \in ends :
              Becomes(AddEdge(AddNode(AddNode(Graph, end[1]), end[2]), end[1], end[2], "references",
                              "dependency_api", 60, {"API-only"}))
    BY <2>1, <2>2, Zenon DEF FoldRow
  <2>7. \A end \in ends : end[1] \in MapRef(row.from) /\ end[2] \in MapRef(row.to)
    BY <2>2
  <2> QED
    BY <2>3, <2>4, <2>5, <2>6, <2>7
<1>3. PICK g : Keeps(Graph, g) /\ Becomes(g)
  BY <1>2
<1>4. /\ Sound(Graph)'
      /\ \A c \in org.components \ todo : \A path \in c.fields : Traced(Graph', c, path)
  BY <1>1, <1>3, PassKeeps
<1> QED
  BY <1>1, <1>4 DEF GraphInv

\* Nothing but a pass of the build changes the graph.
LEMMA GraphRests ==
    ASSUME GraphInv, org' = org, todo' = todo, UNCHANGED graph,
           phase' = phase \/ (phase = "rows" /\ phase' = "built")
    PROVE  GraphInv'
<1>1. Graph' = Graph
  BY DEF Graph, graph
<1>2. Keeps(Graph, Graph) /\ Becomes(Graph)
  BY GraphIs, GrownItself DEF GraphInv, Keeps, Becomes, graph
<1>3. /\ Sound(Graph)'
      /\ \A c \in org.components \ todo : \A path \in c.fields : Traced(Graph', c, path)
  BY <1>2, PassKeeps
<1> QED
  BY <1>3 DEF GraphInv

LEMMA GraphStep == ASSUME GraphInv, [CommandNext]_<<impactVars, passVars>>  PROVE GraphInv'
<1>1. CASE BuildNext
  <2>1. CASE AddSchema
    BY <2>1, SchemaInv
  <2>2. CASE AddCmtRecords
    BY <2>2, RowsInv
  <2>3. CASE \E c \in todo : LinkComponent(c)
    BY <2>3, ComponentInv
  <2>4. CASE Dispatch
    BY <2>4, DispatchInv
  <2>5. CASE FoldRow
    BY <2>5, FoldRowInv
  <2>6. CASE Built
    BY <2>6, GraphRests DEF Built
  <2> QED
    BY <1>1, <2>1, <2>2, <2>3, <2>4, <2>5, <2>6 DEF BuildNext
<1>2. CASE UNCHANGED vars
  BY <1>2, GraphRests DEF vars
<1>3. CASE BuildNext \/ UNCHANGED vars
  BY <1>1, <1>2, <1>3
<1>4. BuildNext \/ UNCHANGED vars
  BY DEF CommandNext, Next, Ask, Follow, Pop, Answered, impactVars
<1> QED
  BY <1>3, <1>4

LEMMA GraphStarts == ASSUME CommandInit  PROVE GraphInv
<1>1. /\ org \in Orgs /\ phase = "schema" /\ todo = org.components
      /\ nodes = {Comp(c) : c \in org.components}
      /\ edges = <<>> /\ gaps = {} /\ target = <<>>
  BY DEF CommandInit, Init, InitGraph
<1>2. DOMAIN edges = {} /\ DOMAIN target = {}
  BY <1>1
<1>3. Total(edges) /\ Total(target)
  BY <1>1, <1>2 DEF Total
<1>4. IsFiniteSet(DOMAIN edges)
  BY <1>2, FS_EmptySet
<1>5. \A n \in nodes : Node(n)
  BY <1>1, NodesOf
<1>6. Graph = [nodes |-> Graph.nodes, edges |-> Graph.edges, gaps |-> Graph.gaps, target |-> Graph.target]
  BY GraphIs DEF Graph
<1>7. Sound(Graph)
  BY <1>2, <1>3, <1>4, <1>5, <1>6, GraphIs DEF Sound
<1> QED
  BY <1>1, <1>7 DEF GraphInv

LEMMA GraphIsSound == Commands => []GraphInv
<1>1. CommandInit => GraphInv
  BY GraphStarts
<1>2. GraphInv /\ [CommandNext]_<<impactVars, passVars>> => GraphInv'
  BY GraphStep
<1> QED
  BY <1>1, <1>2, PTL DEF Commands

------------------------------------------------------------------------------
(* What the invariant says of the graph and of the reports over it.         *)

\* A custom field nobody listed is never made up: a reference to one that is missing
\* is a gap, on every pass of the build and in whatever order components are linked.
THEOREM CustomFieldsAreReal == Commands => []CustomFieldNeverInvented
<1>1. ASSUME GraphInv  PROVE CustomFieldNeverInvented
  <2>1. ASSUME NEW f \in CustomFields
        PROVE  \/ \E x \in org.fields : Fld(x.object, x.name) = f
               \/ PackageOf(f[2], f[3]) # "none"
               \/ f[2] \in LooseObject
    <3>1. f = Fld(f[2], f[3]) /\ MayExist(f[2], f[3]) /\ f[3] \in CustomName
      BY <1>1, <2>1, GraphIs DEF GraphInv, Sound, FieldSound, CustomFields
    <3> QED
      BY <3>1 DEF MayExist
  <2> QED
    BY <2>1 DEF CustomFieldNeverInvented
<1> QED
  BY <1>1, GraphIsSound, PTL

\* Whatever the order of the links, a path a component names is found in the built
\* graph, or as a gap; and what it writes is marked as written.
THEOREM ReferencesAreTraced == Commands => []EveryReferenceTraced
<1>1. ASSUME GraphInv, Done  PROVE EveryReferenceTraced
  <2>1. ASSUME NEW c \in org.components, NEW path \in c.fields
        PROVE  LET to == {k[2] : k \in Outbound(Comp(c))} \cap DOMAIN target IN
               /\ \/ \E t \in to : t[3] = Last(path)
                  \/ \E t \in to : /\ target[t] = <<>>
                                   /\ \E i \in 2..Len(path) - 1 : t[3] \in {path[i], FieldOfHop[path[i]]}
                  \/ <<Comp(c), path>> \in gaps
               /\ path \in c.written /\ <<Comp(c), path>> \notin gaps =>
                     "write" \in edges[<<Comp(c), Fld(path[1], path[2]), "references">>].notes
    <3>1. PICK to : to = {k[2] : k \in Outbound(Comp(c))} \cap DOMAIN target
      OBVIOUS
    <3>2. Traced(Graph, c, path)
      BY <1>1 DEF GraphInv, Done
    <3>3. \A k \in DOMAIN edges : k[1] = Comp(c) /\ k[2] \in DOMAIN target => k[2] \in to
      BY <3>1 DEF Outbound
    <3>4. \/ \E t \in to : t[3] = Last(path)
          \/ \E t \in to : /\ target[t] = <<>>
                           /\ \E i \in 2..Len(path) - 1 : t[3] \in {path[i], FieldOfHop[path[i]]}
          \/ <<Comp(c), path>> \in gaps
      BY <3>2, <3>3, GraphIs, Zenon DEF Traced
    <3>5. path \in c.written /\ <<Comp(c), path>> \notin gaps =>
              "write" \in edges[<<Comp(c), Fld(path[1], path[2]), "references">>].notes
      BY <3>2, GraphIs, Zenon DEF Traced
    <3> QED
      BY <3>1, <3>4, <3>5, Zenon
  <2> QED
    BY <2>1, Zenon DEF EveryReferenceTraced
<1>2. ASSUME GraphInv, ~Done  PROVE EveryReferenceTraced
  BY <1>2 DEF EveryReferenceTraced
<1>3. GraphInv => EveryReferenceTraced
  BY <1>1, <1>2
<1> QED
  BY <1>3, GraphIsSound, PTL

\* A class the report calls dead has no caller that lives: whichever pass found an edge
\* to it, a caller is seen by _called_apex_classes, and the callers it leaves aside, the
\* scheduled jobs and the bundles, are accounted for on their own.
THEOREM DeadClassesAreUncalled == Commands => []DeadIsUncalled
<1>1. ASSUME GraphInv, NEW c \in org.components, c.category = "apex_class", Resolution(c) = "dead",
             NEW k \in Inbound(Comp(c)), Counts(k), k[3] # "references"
      PROVE  FALSE
  <2>1. k \in DOMAIN edges /\ k[2] = Comp(c)
    BY DEF Inbound
  <2>2. Node(k[1]) /\ MaySay(k[1], Comp(c), k[3], edges[k].notes)
    <3>1. EdgeSound(k, edges[k])
      BY <1>1, <2>1, GraphIs DEF GraphInv, Sound
    <3> QED
      BY <2>1, <3>1 DEF EdgeSound
  <2>3. k[3] \in {"calls", "dispatches", "triggers"} /\ ImportKnown(k[1], Comp(c))
    BY <1>1, <2>2, NodesOf DEF MaySay, EdgeKind
  <2>4. ~Called(c) /\ ~ImportedByLwc(c) /\ ~ScheduledInGraph(c)
    BY <1>1 DEF Resolution
  <2>5. Category(k[1]) = "lwc_bundle"
    <3>1. Category(k[1]) \in {"lwc_bundle", "CronTrigger"}
      BY <1>1, <2>3, <2>4 DEF Called, Caller, Counts
    <3>2. Category(k[1]) # "CronTrigger"
      BY <1>1, <2>4 DEF ScheduledInGraph
    <3> QED
      BY <3>1, <3>2
  <2>6. IsComponent(k[1])
    BY <2>2, <2>5 DEF Node, NodeTag, Category
  <2>7. PICK b : b = Source(k[1])
    OBVIOUS
  <2>8. b \in org.components /\ Comp(b) = k[1]
    <3>1. \E x \in org.components : Comp(x) = k[1]
      BY <2>2, <2>6 DEF Node
    <3> QED
      BY <2>7, <3>1, Zenon DEF Source
  <2>9. b.category = "lwc_bundle"
    BY <2>5, <2>6, <2>7, Zenon DEF Category
  <2>10. ImportedByLwc(c)
    BY <1>1, <2>3, <2>8, <2>9 DEF ImportKnown
  <2> QED
    BY <2>4, <2>10
<1>2. GraphInv => DeadIsUncalled
  BY <1>1 DEF DeadIsUncalled
<1> QED
  BY <1>2, GraphIsSound, PTL

\* The rows of the save report so far.
Rows(R) ==
    /\ Total(R)
    /\ \A n \in DOMAIN R : R[n] = [step |-> R[n].step, relation |-> R[n].relation]

\* An edge to a field tells when its component runs only by what the component is.
FieldEdge(n, k) ==
    /\ k[1] = n /\ k[2][1] = "field" /\ k[3] # "triggers"
    /\ edges[k].notes # {} /\ edges[k].notes \cap Timing = {}
FieldStep(n) ==
    IF Category(n) = "record_triggered_flow" THEN 13
    ELSE IF Category(n) \notin DOMAIN StepOf THEN 0 ELSE StepOf[Category(n)]
Writes(k) == "write" \in edges[k].notes

LEMMA StepsAlike ==
    ASSUME NEW n, NEW k, FieldEdge(n, k)
    PROVE  StepAt(k) = FieldStep(n) /\ Relation(k) = IF Writes(k) THEN "writes" ELSE "reads"
<1>1. k[1] = n /\ k[2][1] = "field" /\ k[3] # "triggers"
  BY DEF FieldEdge
<1>2. "after" \notin edges[k].notes /\ "BeforeSave" \notin edges[k].notes /\ edges[k].notes # {}
  BY DEF FieldEdge, Timing
<1>3. PICK cat, notes : cat = Category(n) /\ notes = edges[k].notes
  OBVIOUS
<1>4. StepAt(k) = FieldStep(n)
  <2>1. CASE cat = "record_triggered_flow"
    BY <1>1, <1>2, <1>3, <2>1 DEF StepAt, FieldStep, StepOf
  <2>2. CASE cat # "record_triggered_flow" /\ cat \notin DOMAIN StepOf
    BY <1>1, <1>2, <1>3, <2>2 DEF StepAt, FieldStep
  <2>3. CASE cat # "record_triggered_flow" /\ cat \in DOMAIN StepOf
    BY <1>1, <1>2, <1>3, <2>3 DEF StepAt, FieldStep
  <2> QED
    BY <2>1, <2>2, <2>3
<1>5. Relation(k) = IF Writes(k) THEN "writes" ELSE "reads"
  BY <1>1 DEF Relation, Writes
<1> QED
  BY <1>4, <1>5

\* What a set of edges from one node to fields makes of the rows, whatever their order.
Silent(n) == ~IsComponent(n) \/ IsTest(n) \/ FieldStep(n) = 0
RelationOf(R, n, V) ==
    LET wrote == IsActive(n) /\ \E k \in V : Writes(k) IN
    IF n \in DOMAIN R
    THEN IF R[n].relation = "reads" /\ wrote THEN "writes" ELSE R[n].relation
    ELSE IF ~IsActive(n) THEN "inactive" ELSE IF wrote THEN "writes" ELSE "reads"
After(R, n, V) ==
    IF Silent(n) \/ V = {} THEN R
    ELSE With(R, n, [step |-> IF n \in DOMAIN R THEN R[n].step ELSE FieldStep(n),
                     relation |-> RelationOf(R, n, V)])

LEMMA OneMore ==
    ASSUME NEW R, Rows(R), NEW n, NEW V, \A j \in V : FieldEdge(n, j), NEW k, FieldEdge(n, k)
    PROVE  Considered(After(R, n, V), k) = After(R, n, V \cup {k})
<1>1. k[1] = n /\ StepAt(k) = FieldStep(n) /\ Relation(k) = IF Writes(k) THEN "writes" ELSE "reads"
  BY StepsAlike DEF FieldEdge
<1>2. CASE Silent(n)
  BY <1>1, <1>2 DEF Silent, Considered, After
<1>3. CASE ~Silent(n)
  <2>1. PICK Q : Q = After(R, n, V)
    OBVIOUS
  <2>2. PICK step : step = IF n \in DOMAIN R THEN R[n].step ELSE FieldStep(n)
    OBVIOUS
  <2>3. PICK was, now : was = RelationOf(R, n, V) /\ now = RelationOf(R, n, V \cup {k})
    OBVIOUS
  <2>4. After(R, n, V \cup {k}) = With(R, n, [step |-> step, relation |-> now])
    BY <1>3, <2>2, <2>3 DEF After
  <2>5. PICK row : row = [step |-> FieldStep(n), relation |-> IF IsActive(n) THEN Relation(k) ELSE "inactive"]
    OBVIOUS
  <2>6. row.relation = (IF ~IsActive(n) THEN "inactive" ELSE IF Writes(k) THEN "writes" ELSE "reads")
    BY <1>1, <2>5
  <2>7. Considered(Q, k) = IF n \notin DOMAIN Q THEN With(Q, n, row)
                           ELSE IF Q[n].relation \in {"inactive", row.relation} THEN Q
                           ELSE IF row.relation = "fires" THEN [Q EXCEPT ![n] = row]
                           ELSE IF row.relation = "writes" /\ Q[n].relation = "reads"
                           THEN [Q EXCEPT ![n].relation = "writes"] ELSE Q
    BY <1>1, <1>3, <2>5, Zenon DEF Considered, Silent
  <2>8. CASE n \notin DOMAIN Q
    <3>1. V = {} /\ Q = R
      BY <1>3, <2>1, <2>8 DEF After, With
    <3>2. step = FieldStep(n) /\ now = row.relation
      BY <2>2, <2>3, <2>6, <2>8, <3>1 DEF RelationOf
    <3>3. row = [step |-> step, relation |-> now]
      BY <2>5, <3>2
    <3> QED
      BY <2>1, <2>4, <2>7, <2>8, <3>1, <3>3
  <2>9. CASE n \in DOMAIN Q
    <3>1. Q[n] = [step |-> step, relation |-> was] /\ Q = With(R, n, Q[n])
      <4>1. CASE V # {}
        <5>1. Q = With(R, n, [step |-> step, relation |-> was])
          BY <1>3, <2>1, <2>2, <2>3, <4>1 DEF After
        <5> QED
          BY <5>1 DEF With
      <4>2. CASE V = {}
        <5>1. Q = R
          BY <2>1, <4>2 DEF After
        <5>2. was = R[n].relation /\ step = R[n].step
          BY <2>2, <2>3, <2>9, <4>2, <5>1 DEF RelationOf
        <5>3. R[n] = [step |-> R[n].step, relation |-> R[n].relation]
          BY <2>9, <5>1 DEF Rows
        <5>4. R = With(R, n, R[n])
          <6>1. DOMAIN R \cup {n} = DOMAIN R
            BY <2>9, <5>1
          <6>2. R = [y \in DOMAIN R |-> IF y = n THEN R[n] ELSE R[y]]
            BY DEF Rows, Total
          <6> QED
            BY <6>1, <6>2 DEF With
        <5> QED
          BY <5>1, <5>2, <5>3, <5>4
      <4> QED
        BY <4>1, <4>2
    <3>2. /\ DOMAIN Q = DOMAIN R \cup {n}
          /\ \A x : With(Q, n, x) = With(R, n, x)
      <4>1. DOMAIN Q = DOMAIN R \cup {n} /\ \A y \in DOMAIN R : y # n => Q[y] = R[y]
        BY <3>1 DEF With
      <4>2. DOMAIN Q \cup {n} = DOMAIN R \cup {n}
        BY <4>1
      <4>3. ASSUME NEW x  PROVE With(Q, n, x) = With(R, n, x)
        BY <4>1, <4>2 DEF With
      <4> QED
        BY <4>1, <4>3
    <3>3. After(R, n, V \cup {k}) = With(Q, n, [step |-> step, relation |-> now])
      BY <2>4, <3>2
    <3>4. Q[n].relation = was
      BY <3>1
    <3>5. CASE was = now
      <4>1. Considered(Q, k) = Q
        BY <2>3, <2>6, <2>7, <2>9, <3>4, <3>5 DEF RelationOf
      <4> QED
        BY <2>1, <3>1, <3>2, <3>3, <3>5, <4>1
    <3>6. CASE was # now
      <4>1. row.relation = "writes" /\ was = "reads" /\ now = "writes"
        BY <2>3, <2>6, <3>6 DEF RelationOf
      <4>2. Considered(Q, k) = [Q EXCEPT ![n].relation = "writes"]
        BY <2>7, <2>9, <3>4, <4>1
      <4>3. PICK r : r = [step |-> step, relation |-> "writes"]
        OBVIOUS
      <4>4. [Q[n] EXCEPT !.relation = "writes"] = r
        BY <3>1, <4>3
      <4>5. [Q EXCEPT ![n].relation = "writes"] = [Q EXCEPT ![n] = r]
        BY <4>4, Zenon
      <4>6. [Q EXCEPT ![n] = r] = With(Q, n, r)
        <5>1. DOMAIN Q \cup {n} = DOMAIN Q
          BY <2>9
        <5> QED
          BY <5>1 DEF With
      <4> QED
        BY <2>1, <3>3, <4>1, <4>2, <4>3, <4>5, <4>6
    <3> QED
      BY <3>5, <3>6
  <2> QED
    BY <2>8, <2>9
<1> QED
  BY <1>2, <1>3

LEMMA ConsideredIsRows == ASSUME NEW R, Rows(R), NEW k  PROVE Rows(Considered(R, k))
<1>1. PICK row : row = [step |-> StepAt(k), relation |-> IF IsActive(k[1]) THEN Relation(k) ELSE "inactive"]
  OBVIOUS
<1>2. row = [step |-> row.step, relation |-> row.relation]
  BY <1>1
<1>3. PICK n : n = k[1]
  OBVIOUS
<1>4. Rows(With(R, n, row))
  BY <1>2 DEF Rows, Total, With
<1>5. ASSUME n \in DOMAIN R  PROVE Rows([R EXCEPT ![n] = row])
  BY <1>2, <1>5 DEF Rows, Total
<1>6. ASSUME n \in DOMAIN R  PROVE Rows([R EXCEPT ![n].relation = "writes"])
  <2>1. PICK r : r = [R[n] EXCEPT !.relation = "writes"]
    OBVIOUS
  <2>2. r = [step |-> R[n].step, relation |-> "writes"]
    BY <1>6, <2>1 DEF Rows
  <2>3. r = [step |-> r.step, relation |-> r.relation]
    BY <2>2
  <2>4. Rows([R EXCEPT ![n] = r])
    BY <1>6, <2>3 DEF Rows, Total
  <2>5. [R EXCEPT ![n].relation = "writes"] = [R EXCEPT ![n] = r]
    BY <2>1, Zenon
  <2> QED
    BY <2>4, <2>5
<1>7. \/ Considered(R, k) = R
      \/ Considered(R, k) = With(R, n, row)
      \/ n \in DOMAIN R /\ Considered(R, k) = [R EXCEPT ![n] = row]
      \/ n \in DOMAIN R /\ Considered(R, k) = [R EXCEPT ![n].relation = "writes"]
  BY <1>1, <1>3, Zenon DEF Considered
<1> QED
  BY <1>4, <1>5, <1>6, <1>7

LEMMA ConsiderIsRows ==
    ASSUME NEW base, Rows(base), NEW seq, NEW n \in Nat, DOMAIN seq = 1..n
    PROVE  Rows(ConsiderPass(base, seq))
<1>1. PICK f : FoldedLast("considered", seq, 1..n, base, f) /\ ConsiderPass(base, seq) = f[1..n]
  BY ConsiderFold
<1>2. Taken("considered", seq, 1..n, base, f)
  BY <1>1, FoldedLastTakes
<1> DEFINE Good == {t \in SUBSET (1..n) : Rows(f[t])}
<1>3. {} \in Good
  BY <1>2 DEF Taken
<1>4. ASSUME NEW t \in SUBSET (1..n), t # {}  PROVE \E x \in t : t \ {x} \in Good => t \in Good
  <2>1. PICK x \in t : f[t] = Step("considered", seq, f[t \ {x}], x)
    BY <1>2, <1>4 DEF Taken
  <2>2. f[t] = Considered(f[t \ {x}], seq[x])
    BY <2>1 DEF Step
  <2> QED
    BY <2>2, ConsideredIsRows
<1> HIDE DEF Good
<1>5. \A t \in SUBSET (1..n) : t \in Good
  <2>1. IsFiniteSet(1..n)
    BY FS_Interval
  <2> QED
    BY <1>3, <1>4, <2>1, SubsetsByPicking
<1> QED
  BY <1>1, <1>5 DEF Good

LEMMA ConsiderAll ==
    ASSUME NEW base, Rows(base), NEW at, NEW E, IsFiniteSet(E), \A k \in E : FieldEdge(at, k),
           NEW seq \in SetToSeqs(E)
    PROVE  ConsiderPass(base, seq) = After(base, at, E)
<1>1. PICK n \in Nat : n = Cardinality(E)
  BY FS_CardinalityType
<1>2. seq \in [1..n -> E] /\ \A i, j \in 1..n : i # j => seq[i] # seq[j]
  BY <1>1 DEF SetToSeqs
<1>3. PICK f : FoldedLast("considered", seq, 1..n, base, f) /\ ConsiderPass(base, seq) = f[1..n]
  BY <1>2, ConsiderFold
<1>4. Taken("considered", seq, 1..n, base, f)
  BY <1>3, FoldedLastTakes
<1> DEFINE Met(t) == {seq[i] : i \in t}
           Good == {t \in SUBSET (1..n) : f[t] = After(base, at, Met(t))}
<1>5. {} \in Good
  <2>1. Met({}) = {}
    OBVIOUS
  <2>2. After(base, at, {}) = base
    BY DEF After
  <2> QED
    BY <1>4, <2>1, <2>2 DEF Taken
<1>6. ASSUME NEW t \in SUBSET (1..n), t # {}  PROVE \E x \in t : t \ {x} \in Good => t \in Good
  <2>1. PICK x \in t : f[t] = Step("considered", seq, f[t \ {x}], x)
    BY <1>4, <1>6 DEF Taken
  <2>2. f[t] = Considered(f[t \ {x}], seq[x])
    BY <2>1 DEF Step
  <2>3. Met(t) = Met(t \ {x}) \cup {seq[x]}
    BY <2>1
  <2>4. FieldEdge(at, seq[x]) /\ \A j \in Met(t \ {x}) : FieldEdge(at, j)
    BY <1>2, <2>1
  <2> HIDE DEF Met
  <2>5. ASSUME f[t \ {x}] = After(base, at, Met(t \ {x}))
        PROVE  f[t] = After(base, at, Met(t))
    <3>1. PICK V, k : V = Met(t \ {x}) /\ k = seq[x]
      OBVIOUS
    <3>2. FieldEdge(at, k) /\ \A j \in V : FieldEdge(at, j)
      BY <2>4, <3>1
    <3>3. Considered(After(base, at, V), k) = After(base, at, V \cup {k})
      BY <3>2, OneMore
    <3> QED
      BY <2>2, <2>3, <2>5, <3>1, <3>3
  <2> QED
    BY <2>5
<1> HIDE DEF Good
<1>7. \A t \in SUBSET (1..n) : t \in Good
  <2>1. IsFiniteSet(1..n)
    BY FS_Interval
  <2> QED
    BY <1>5, <1>6, <2>1, SubsetsByPicking
<1>8. f[1..n] = After(base, at, Met(1..n))
  BY <1>7 DEF Good
<1>9. Met(1..n) = E
  <2>1. \A k \in E : \E i \in 1..n : seq[i] = k
    BY <1>1, <1>2, OntoWhenAsMany
  <2> QED
    BY <1>2, <2>1
<1> QED
  BY <1>3, <1>8, <1>9

\* A finite set can be visited in some order.
LEMMA SomeOrder == ASSUME NEW S, IsFiniteSet(S)  PROVE SetToSeqs(S) # {}
<1>1. PICK n \in Nat : ExistsBijection(1..n, S)
  BY FS_NatBijection
<1>2. n = Cardinality(S)
  BY <1>1, FS_CountingElements
<1>3. PICK f : f \in Bijection(1..n, S)
  BY <1>1 DEF ExistsBijection
<1>4. f \in [1..n -> S] /\ \A i, j \in 1..n : f[i] = f[j] => i = j
  BY <1>3 DEF Bijection, Injection, IsInjective
<1>5. f \in SetToSeqs(S)
  BY <1>2, <1>4 DEF SetToSeqs
<1> QED
  BY <1>5

\* What the save report says of a component is the same whichever of the object's
\* fields is visited first: an edge to a field tells nothing of when its component runs.
THEOREM SaveReportIsOneThing == Commands => []SaveImpactIgnoresOrder
<1>1. ASSUME GraphInv, NEW o \in org.objects, NEW c \in org.components,
             NEW os \in SetToSeqs(EdgesToObject(c, o))
      PROVE  Cardinality({SaveRow(os, fs) : fs \in SetToSeqs(EdgesToFields(c, o))}) = 1
  <2>1. PICK E, O : E = EdgesToFields(c, o) /\ O = EdgesToObject(c, o)
    OBVIOUS
  <2>2. E \subseteq DOMAIN edges /\ O \subseteq DOMAIN edges
    BY <2>1 DEF EdgesToFields, EdgesToObject, Outbound
  <2>3. IsFiniteSet(E) /\ IsFiniteSet(O)
    <3>1. IsFiniteSet(DOMAIN edges)
      BY <1>1, GraphIs DEF GraphInv, Sound
    <3> QED
      BY <2>2, <3>1, FS_Subset
  <2>4. ASSUME NEW k \in E  PROVE FieldEdge(Comp(c), k)
    <3>1. k[1] = Comp(c) /\ k[2] \in DOMAIN target /\ k \in DOMAIN edges
      BY <2>1 DEF EdgesToFields, Outbound, FieldsOf
    <3>2. EdgeSound(k, edges[k]) /\ FieldSound(k[2])
      BY <1>1, <3>1, GraphIs DEF GraphInv, Sound
    <3>3. k[2][1] = "field"
      BY <3>2 DEF FieldSound, Fld
    <3>4. MaySay(Comp(c), k[2], k[3], edges[k].notes)
      BY <3>1, <3>2 DEF EdgeSound
    <3> QED
      BY <3>1, <3>3, <3>4, NodesOf DEF FieldEdge, MaySay
  <2>5. PICK R : R = ConsiderPass(<<>>, os)
    OBVIOUS
  <2>6. Rows(R)
    <3>1. Rows(<<>>)
      BY DEF Rows, Total
    <3>2. PICK n \in Nat : n = Cardinality(O)
      BY <2>3, FS_CardinalityType
    <3>3. DOMAIN os = 1..n
      BY <2>1, <3>2 DEF SetToSeqs
    <3> QED
      BY <2>5, <3>1, <3>3, ConsiderIsRows
  <2>7. ASSUME NEW fs \in SetToSeqs(E)  PROVE SaveRow(os, fs) = After(R, Comp(c), E)
    <3>1. SaveRow(os, fs) = ConsiderPass(R, fs)
      BY <2>5, Zenon DEF SaveRow, ConsiderPass
    <3> QED
      BY <2>3, <2>4, <2>6, <3>1, ConsiderAll
  <2>8. PICK fs : fs \in SetToSeqs(E)
    BY <2>3, SomeOrder
  <2>9. {SaveRow(os, x) : x \in SetToSeqs(E)} = {After(R, Comp(c), E)}
    <3>1. PICK orders : orders = SetToSeqs(E)
      OBVIOUS
    <3>2. PICK row : row = After(R, Comp(c), E)
      OBVIOUS
    <3>3. \A x \in orders : SaveRow(os, x) = row
      BY <2>7, <3>1, <3>2
    <3>4. {SaveRow(os, x) : x \in orders} = {row}
      BY <2>8, <3>1, <3>3
    <3> QED
      BY <3>1, <3>2, <3>4
  <2> QED
    BY <2>1, <2>9, FS_Singleton
<1>2. GraphInv => SaveImpactIgnoresOrder
  BY <1>1 DEF SaveImpactIgnoresOrder
<1> QED
  BY <1>2, GraphIsSound, PTL

\* A custom field is on the list of the unused for the same reason where-used gives:
\* the two reports count the edges of one graph.
THEOREM ReportsAgree == Commands => []UnusedAgreesWithWhereUsed
<1>1. ASSUME GraphInv, NEW f \in CustomFields
      PROVE  LET w == WhereUsed(f) IN
             /\ UnusedReason(f) # "used" <=> w.automation = 0
             /\ UnusedReason(f) = "no_references" <=> w.total = 0
             /\ UnusedReason(f) = "test_only" => w.testOnly
             /\ w.testOnly => UnusedReason(f) = "test_only"
  <2>1. PICK refs : refs = References(f)
    OBVIOUS
  <2>2. refs \subseteq DOMAIN edges /\ IsFiniteSet(refs)
    <3>1. refs \subseteq DOMAIN edges
      BY <2>1 DEF References, Inbound
    <3>2. IsFiniteSet(DOMAIN edges)
      BY <1>1, GraphIs DEF GraphInv, Sound
    <3> QED
      BY <3>1, <3>2, FS_Subset
  <2>3. f[1] = "field"
    <3>1. f = Fld(f[2], f[3])
      BY <1>1, GraphIs DEF GraphInv, Sound, FieldSound, CustomFields
    <3> QED
      BY <3>1 DEF Fld
  <2>4. PICK live : live = {k \in {r \in refs : Counts(r)} : Bucket(k[1]) = "automation"}
    OBVIOUS
  <2>5. PICK w : w = WhereUsed(f)
    OBVIOUS
  <2>6. /\ w.total = Cardinality(refs)
        /\ w.automation = Cardinality(live)
        /\ w.testOnly <=> refs # {} /\ \A k \in refs : IsTest(k[1])
    BY <2>1, <2>3, <2>4, <2>5 DEF WhereUsed
  <2>7. (w.total = 0 <=> refs = {}) /\ (w.automation = 0 <=> live = {})
    <3>1. live \subseteq refs
      BY <2>4
    <3>2. IsFiniteSet(live)
      BY <2>2, <3>1, FS_Subset
    <3> QED
      BY <2>2, <2>6, <3>2, FS_EmptySet
  <2>8. PICK sources : sources = {k[1] : k \in refs}
    OBVIOUS
  <2>9. Live(sources) = {} <=> live = {}
    BY <2>4, <2>8 DEF Live, Counts
  <2>10. PICK buckets : buckets = {Bucket(s) : s \in sources}
    OBVIOUS
  <2>11. UnusedReason(f) =
          CASE Live(sources) # {} -> "used"
            [] sources = {} -> "no_references"
            [] Live(sources) = {} /\ buckets = {"automation"} ->
                  IF \A s \in sources : IsTest(s) THEN "test_only" ELSE "inactive_only"
            [] Live(sources) = {} /\ "ui" \in buckets -> "ui_only"
            [] Live(sources) = {} /\ "ui" \notin buckets /\ "security" \in buckets
                  /\ "reporting" \notin buckets -> "security_only"
            [] Live(sources) = {} /\ "ui" \notin buckets /\ "reporting" \in buckets -> "reporting_only"
            [] OTHER -> "inactive_only"
    BY <2>1, <2>8, <2>10, Zenon DEF UnusedReason
  <2>12. sources = {} => Live(sources) = {} /\ buckets = {}
    BY <2>10 DEF Live
  <2>13. ASSUME NEW k \in refs, IsTest(k[1])
         PROVE  Bucket(k[1]) = "automation"
    <3>1. IsComponent(k[1]) /\ Source(k[1]).test
      BY <2>13 DEF IsTest
    <3>2. PICK c \in org.components : k[1] = Comp(c)
      BY <1>1, <2>2, <3>1, GraphIs DEF GraphInv, Sound, EdgeSound, Node
    <3>3. Source(k[1]) \in org.components
      BY <3>2, Zenon DEF Source
    <3>4. Category(k[1]) \notin Surface
      BY <1>1, <3>1, <3>3, GraphAssumption DEF Category, GraphInv, Surface, Security
    <3>5. PICK cat : cat = Category(k[1])
      OBVIOUS
    <3>6. /\ cat \notin Surface /\ cat \notin Security /\ cat # "report"
          /\ cat \notin {"page_layout", "flexipage"} /\ k[1][1] # "external"
      BY <3>1, <3>4, <3>5 DEF Surface, IsComponent
    <3> QED
      BY <3>1, <3>5, <3>6, Zenon DEF Bucket
  <2>14. refs # {} /\ (\A k \in refs : IsTest(k[1])) =>
             Live(sources) = {} /\ sources # {} /\ buckets = {"automation"} /\ \A s \in sources : IsTest(s)
    BY <2>8, <2>10, <2>13 DEF Live
  <2>15. sources # {} <=> refs # {}
    BY <2>8
  <2>16. (UnusedReason(f) # "used" <=> Live(sources) = {})
    BY <2>11, <2>12
  <2>17. UnusedReason(f) = "no_references" <=> sources = {}
    BY <2>11, <2>12
  <2>18. UnusedReason(f) = "test_only" => sources # {} /\ \A s \in sources : IsTest(s)
    BY <2>11, <2>12
  <2>19. Live(sources) = {} /\ sources # {} /\ buckets = {"automation"} /\ (\A s \in sources : IsTest(s)) =>
             UnusedReason(f) = "test_only"
    BY <2>11
  <2>20. (\A s \in sources : IsTest(s)) <=> \A k \in refs : IsTest(k[1])
    BY <2>8
  <2> QED
    BY <2>5, <2>6, <2>7, <2>9, <2>14, <2>15, <2>16, <2>17, <2>18, <2>19, <2>20
<1>2. GraphInv => UnusedAgreesWithWhereUsed
  BY <1>1 DEF UnusedAgreesWithWhereUsed
<1> QED
  BY <1>2, GraphIsSound, PTL

------------------------------------------------------------------------------
(* The walk of impact_closure.                                              *)

DistOf(w, n) == IF n = w.start THEN 0 ELSE w.found[n]
Waits(w, n) == \E i \in 1..Len(w.queue) : w.queue[i][1] = n
Followed(w, n) == DistOf(w, n) < MaxDepth => \A k \in Inbound(n) : Sees(k, {}) => k[1] \in w.seen
WritesSeen(w, n) ==
    IsComponent(n) => \A k \in Outbound(n) : "write" \in edges[k].notes => k[2] \in w.seen

\* Each node that was reached is at hand, waits, or was followed as far as the depth
\* allows; and all but those that owe it have what they write reached with them.
AtHand(w) ==
    /\ w.at = NoNode => w.queue = <<>>
    /\ w.at # NoNode =>
          /\ w.at \in w.seen /\ w.dist = DistOf(w, w.at)
          /\ w.left \subseteq Inbound(w.at)
          /\ \A k \in Inbound(w.at) : k \in w.left \/ (Sees(k, {}) => k[1] \in w.seen)
Walking(w, owing) ==
    /\ w = [start |-> w.start, at |-> w.at, dist |-> w.dist, conf |-> w.conf,
            left |-> w.left, queue |-> w.queue, seen |-> w.seen, found |-> w.found]
    /\ w.start \notin DOMAIN w.found /\ w.seen = DOMAIN w.found \cup {w.start}
    /\ \A n \in w.seen : Node(n)
    /\ \A n \in DOMAIN w.found : w.found[n] \in Nat
    /\ \E S : w.queue \in Seq(S)
    /\ \A i \in 1..Len(w.queue) : /\ w.queue[i][1] \in DOMAIN w.found
                                  /\ w.queue[i][2] = w.found[w.queue[i][1]]
    /\ AtHand(w)
    /\ \A n \in w.seen : n = w.at \/ Waits(w, n) \/ Followed(w, n)
    /\ \A n \in DOMAIN w.found : n \in owing \/ WritesSeen(w, n)

LEMMA QueueGrows ==
    ASSUME NEW S, NEW q \in Seq(S), NEW e
    PROVE  /\ Append(q, e) \in Seq(S \cup {e}) /\ Len(Append(q, e)) = Len(q) + 1 /\ Len(q) \in Nat
           /\ \A i \in 1..Len(q) : Append(q, e)[i] = q[i]
           /\ Append(q, e)[Len(q) + 1] = e
<1>1. q \in Seq(S \cup {e})
  OBVIOUS
<1> QED
  BY <1>1

\* A node that is reached waits for its turn.
Reach(w, n, d, c) ==
    [w EXCEPT !.seen = @ \cup {n}, !.found = With(@, n, d), !.queue = Append(@, <<n, d, c>>)]
LEMMA ReachIs ==
    ASSUME NEW w, NEW n, NEW d, NEW c,
           w = [start |-> w.start, at |-> w.at, dist |-> w.dist, conf |-> w.conf,
                left |-> w.left, queue |-> w.queue, seen |-> w.seen, found |-> w.found]
    PROVE  Reach(w, n, d, c).seen = w.seen \cup {n} /\ Reach(w, n, d, c).at = w.at
BY DEF Reach

LEMMA ReachKeeps ==
    ASSUME NEW w, NEW owing, Walking(w, owing), w.at # NoNode,
           NEW n, Node(n), n \notin w.seen, NEW d \in Nat, NEW c
    PROVE  Walking(Reach(w, n, d, c), owing \cup {n})
<1>0. PICK v : v = Reach(w, n, d, c)
  OBVIOUS
<1>1. PICK seen, found, queue :
          seen = w.seen \cup {n} /\ found = With(w.found, n, d) /\ queue = Append(w.queue, <<n, d, c>>)
  OBVIOUS
<1>2. w = [start |-> w.start, at |-> w.at, dist |-> w.dist, conf |-> w.conf,
           left |-> w.left, queue |-> w.queue, seen |-> w.seen, found |-> w.found]
  BY DEF Walking
<1>3. v = [w EXCEPT !.seen = seen, !.found = found, !.queue = queue]
  BY <1>0, <1>1, Zenon DEF Reach
<1>4. v = [start |-> w.start, at |-> w.at, dist |-> w.dist, conf |-> w.conf,
           left |-> w.left, queue |-> queue, seen |-> seen, found |-> found]
  BY <1>2, <1>3, Zenon
<1>5. /\ v.start = w.start /\ v.at = w.at /\ v.dist = w.dist /\ v.conf = w.conf
      /\ v.left = w.left /\ v.queue = queue /\ v.seen = seen /\ v.found = found
  BY <1>4
<1>6. v = [start |-> v.start, at |-> v.at, dist |-> v.dist, conf |-> v.conf,
           left |-> v.left, queue |-> v.queue, seen |-> v.seen, found |-> v.found]
  BY <1>4, <1>5
<1>7. /\ DOMAIN found = DOMAIN w.found \cup {n} /\ found[n] = d
      /\ \A m \in DOMAIN w.found : m # n => found[m] = w.found[m]
  BY <1>1 DEF With
<1>8. /\ w.start \notin DOMAIN w.found /\ w.seen = DOMAIN w.found \cup {w.start}
      /\ \A m \in w.seen : Node(m)
      /\ \A m \in DOMAIN w.found : w.found[m] \in Nat
  BY DEF Walking
<1>9. \A m \in DOMAIN w.found : m # n
  BY <1>8
<1>10. v.start \notin DOMAIN v.found /\ v.seen = DOMAIN v.found \cup {v.start}
  BY <1>1, <1>5, <1>7, <1>8
<1>11. (\A m \in v.seen : Node(m)) /\ \A m \in DOMAIN v.found : v.found[m] \in Nat
  BY <1>1, <1>5, <1>7, <1>8, <1>9
<1>12. PICK S : w.queue \in Seq(S)
  BY DEF Walking
<1>13. PICK e : e = <<n, d, c>>
  OBVIOUS
<1>14. e[1] = n /\ e[2] = d
  BY <1>13
<1>15. /\ queue \in Seq(S \cup {e}) /\ Len(queue) = Len(w.queue) + 1 /\ Len(w.queue) \in Nat
       /\ \A i \in 1..Len(w.queue) : queue[i] = w.queue[i]
       /\ queue[Len(w.queue) + 1] = e
  BY <1>1, <1>12, <1>13, QueueGrows
<1>16. \A i \in 1..Len(w.queue) : /\ w.queue[i][1] \in DOMAIN w.found
                                  /\ w.queue[i][2] = w.found[w.queue[i][1]]
  BY DEF Walking
<1>17. ASSUME NEW i \in 1..Len(v.queue)
       PROVE  v.queue[i][1] \in DOMAIN v.found /\ v.queue[i][2] = v.found[v.queue[i][1]]
  <2>1. CASE i \in 1..Len(w.queue)
    <3>1. PICK q : q = w.queue[i]
      OBVIOUS
    <3>2. v.queue[i] = q /\ q[1] \in DOMAIN w.found /\ q[2] = w.found[q[1]]
      BY <1>5, <1>15, <1>16, <2>1, <3>1
    <3> QED
      BY <1>5, <1>7, <1>9, <3>2
  <2>2. CASE i = Len(w.queue) + 1
    BY <1>5, <1>7, <1>14, <1>15, <2>2
  <2> QED
    BY <1>5, <1>15, <2>1, <2>2
<1>18. \A m \in w.seen : DistOf(v, m) = DistOf(w, m)
  BY <1>5, <1>7, <1>8 DEF DistOf
<1>19. AtHand(v)
  BY <1>1, <1>5, <1>18 DEF AtHand, Walking
<1>20. Waits(v, n)
  BY <1>5, <1>14, <1>15 DEF Waits
<1>21. ASSUME NEW m \in w.seen  PROVE m = v.at \/ Waits(v, m) \/ Followed(v, m)
  <2>1. CASE m = w.at
    BY <1>5, <2>1
  <2>2. CASE Waits(w, m)
    <3>1. PICK i \in 1..Len(w.queue) : w.queue[i][1] = m
      BY <2>2 DEF Waits
    <3>2. i \in 1..Len(v.queue) /\ v.queue[i] = w.queue[i]
      BY <1>5, <1>15
    <3> QED
      BY <3>1, <3>2 DEF Waits
  <2>3. CASE Followed(w, m)
    <3>1. Followed(v, m)
      BY <1>1, <1>5, <1>18, <2>3 DEF Followed
    <3> QED
      BY <3>1
  <2> QED
    BY <2>1, <2>2, <2>3 DEF Walking
<1>22. \A m \in v.seen : m = v.at \/ Waits(v, m) \/ Followed(v, m)
  BY <1>1, <1>5, <1>20, <1>21
<1>23. \A m \in DOMAIN v.found : m \in owing \cup {n} \/ WritesSeen(v, m)
  <2>1. \A m \in DOMAIN w.found : m \in owing \/ WritesSeen(w, m)
    BY DEF Walking
  <2>2. \A m : WritesSeen(w, m) => WritesSeen(v, m)
    BY <1>1, <1>5 DEF WritesSeen
  <2> QED
    BY <1>5, <1>7, <2>1, <2>2
<1>24. v.queue \in Seq(S \cup {e})
  BY <1>5, <1>15
<1>25. Walking(v, owing \cup {n})
  BY <1>6, <1>10, <1>11, <1>17, <1>19, <1>22, <1>23, <1>24, Zenon DEF Walking
<1> QED
  BY <1>0, <1>25

\* An edge is dealt with.
LEMMA LeftKeeps ==
    ASSUME NEW w, NEW owing, Walking(w, owing), w.at # NoNode,
           NEW k, Sees(k, {}) => k[1] \in w.seen, NEW v, v = [w EXCEPT !.left = @ \ {k}]
    PROVE  Walking(v, owing) /\ v.seen = w.seen
<1>1. PICK left : left = w.left \ {k}
  OBVIOUS
<1>2. w = [start |-> w.start, at |-> w.at, dist |-> w.dist, conf |-> w.conf,
           left |-> w.left, queue |-> w.queue, seen |-> w.seen, found |-> w.found]
  BY DEF Walking
<1>3. v = [w EXCEPT !.left = left]
  BY <1>1, Zenon
<1>4. v = [start |-> w.start, at |-> w.at, dist |-> w.dist, conf |-> w.conf,
           left |-> left, queue |-> w.queue, seen |-> w.seen, found |-> w.found]
  BY <1>2, <1>3, Zenon
<1>5. /\ v.start = w.start /\ v.at = w.at /\ v.dist = w.dist /\ v.conf = w.conf
      /\ v.left = left /\ v.queue = w.queue /\ v.seen = w.seen /\ v.found = w.found
  BY <1>4
<1>6. v = [start |-> v.start, at |-> v.at, dist |-> v.dist, conf |-> v.conf,
           left |-> v.left, queue |-> v.queue, seen |-> v.seen, found |-> v.found]
  BY <1>4, <1>5
<1>7. AtHand(v)
  BY <1>1, <1>5 DEF AtHand, Walking, DistOf
<1>8. \A m : (Waits(w, m) => Waits(v, m)) /\ (Followed(w, m) => Followed(v, m))
             /\ (WritesSeen(w, m) => WritesSeen(v, m))
  BY <1>5 DEF Waits, Followed, WritesSeen, DistOf
<1> QED
  BY <1>5, <1>6, <1>7, <1>8 DEF Walking

\* One thing an automation writes.
LEMMA WriteKeeps ==
    ASSUME NEW w, NEW owing, Walking(w, owing), w.at # NoNode,
           NEW k, Node(k[2]), ~IsComponent(k[2]), NEW d \in Nat, NEW c, NEW v, v = Write(w, k, d, c)
    PROVE  /\ Walking(v, owing) /\ v.at = w.at
           /\ k[2] \in v.seen /\ w.seen \subseteq v.seen
<1>1. CASE k[2] \in w.seen
  BY <1>1 DEF Write
<1>2. CASE k[2] \notin w.seen
  <2>1. PICK n, x : n = k[2] /\ x = Lower(c, edges[k].confidence)
    OBVIOUS
  <2>0. PICK e \in Nat : e = d + 2
    OBVIOUS
  <2>2. v = Reach(w, n, e, x)
    BY <1>2, <2>0, <2>1, Zenon DEF Write, Reach
  <2>3. Walking(v, owing \cup {n}) /\ v.seen = w.seen \cup {n} /\ v.at = w.at
    <3>1. Node(n) /\ n \notin w.seen
      BY <1>2, <2>1
    <3>2. Walking(Reach(w, n, e, x), owing \cup {n})
      BY <3>1, ReachKeeps
    <3>3. Reach(w, n, e, x).seen = w.seen \cup {n} /\ Reach(w, n, e, x).at = w.at
      BY ReachIs DEF Walking
    <3> QED
      BY <2>2, <3>2, <3>3
  <2>4. WritesSeen(v, n)
    BY <2>1 DEF WritesSeen
  <2>5. Walking(v, owing)
    BY <2>3, <2>4 DEF Walking
  <2> QED
    BY <2>1, <2>3, <2>5
<1> QED
  BY <1>1, <1>2

\* What an automation writes is reached with it, in any order.
WritesOf(s) == IF IsComponent(s) THEN {e \in Outbound(s) : "write" \in edges[e].notes} ELSE {}
LEMMA WrittenKeeps ==
    ASSUME GraphInv, NEW w, NEW s, Walking(w, {s}), w.at # NoNode, NEW conf, w.dist \in Nat,
           NEW order \in SetToSeqs(WritesOf(s))
    PROVE  Walking(Written(w, s, conf, order), {})
<1>0. PICK writes : writes = WritesOf(s)
  OBVIOUS
<1>1. writes \subseteq DOMAIN edges /\ IsFiniteSet(writes)
  <2>1. writes \subseteq DOMAIN edges
    BY <1>0 DEF Outbound, WritesOf
  <2>2. IsFiniteSet(DOMAIN edges)
    BY GraphIs DEF GraphInv, Sound
  <2> QED
    BY <2>1, <2>2, FS_Subset
<1>2. ASSUME NEW k \in writes  PROVE Node(k[2]) /\ ~IsComponent(k[2])
  <2>1. k[1] = s /\ IsComponent(s) /\ "write" \in edges[k].notes /\ k \in DOMAIN edges
    BY <1>0, <1>2 DEF Outbound, WritesOf
  <2>2. EdgeSound(k, edges[k])
    BY <2>1, GraphIs DEF GraphInv, Sound
  <2> QED
    BY <2>1, <2>2 DEF EdgeSound, MaySay
<1>3. PICK n \in Nat : n = Cardinality(writes)
  BY <1>1, FS_CardinalityType
<1>4. order \in [1..n -> writes] /\ \A i, j \in 1..n : i # j => order[i] # order[j]
  BY <1>0, <1>3 DEF SetToSeqs
<1>5. PICK d : d = w.dist
  OBVIOUS
<1>6. PICK f : /\ FoldedLast("written", [order |-> order, dist |-> d, conf |-> conf], 1..n, w, f)
               /\ WritesPass(w, d, conf, order) = f[1..n]
  BY <1>4, WritesFold
<1>7. Taken("written", [order |-> order, dist |-> d, conf |-> conf], 1..n, w, f)
  BY <1>6, FoldedLastTakes
<1> DEFINE Good == {t \in SUBSET (1..n) : /\ Walking(f[t], {s}) /\ f[t].at = w.at
                                          /\ \A i \in t : order[i][2] \in f[t].seen}
<1>8. {} \in Good
  BY <1>7 DEF Taken
<1>9. ASSUME NEW t \in SUBSET (1..n), t # {}  PROVE \E x \in t : t \ {x} \in Good => t \in Good
  <2>1. PICK x \in t : f[t] = Step("written", [order |-> order, dist |-> d, conf |-> conf], f[t \ {x}], x)
    BY <1>7, <1>9 DEF Taken
  <2>2. f[t] = Write(f[t \ {x}], order[x], d, conf)
    BY <2>1 DEF Step
  <2>3. ASSUME t \ {x} \in Good  PROVE t \in Good
    <3>1. Walking(f[t \ {x}], {s}) /\ f[t \ {x}].at = w.at /\ \A i \in t \ {x} : order[i][2] \in f[t \ {x}].seen
      BY <2>3
    <3>2. order[x] \in writes
      BY <1>4, <1>9
    <3>3. PICK b, k, v : b = f[t \ {x}] /\ k = order[x] /\ v = f[t]
      OBVIOUS
    <3>4. Walking(b, {s}) /\ b.at # NoNode /\ Node(k[2]) /\ ~IsComponent(k[2]) /\ d \in Nat /\ v = Write(b, k, d, conf)
      BY <1>2, <1>5, <2>2, <3>1, <3>2, <3>3
    <3>5. /\ Walking(v, {s}) /\ v.at = b.at
          /\ k[2] \in v.seen /\ b.seen \subseteq v.seen
      BY <3>4, WriteKeeps
    <3> QED
      BY <3>1, <3>3, <3>5
  <2> QED
    BY <2>3
<1> HIDE DEF Good
<1>10. \A t \in SUBSET (1..n) : t \in Good
  <2>1. IsFiniteSet(1..n)
    BY FS_Interval
  <2> QED
    BY <1>8, <1>9, <2>1, SubsetsByPicking
<1>11. PICK v : v = f[1..n]
  OBVIOUS
<1>12. Walking(v, {s}) /\ \A i \in 1..n : order[i][2] \in v.seen
  <2>1. 1..n \in Good
    BY <1>10
  <2>2. Walking(f[1..n], {s}) /\ \A i \in 1..n : order[i][2] \in f[1..n].seen
    BY <2>1, Zenon DEF Good
  <2> QED
    BY <1>11, <2>2
<1>13. \A k \in writes : k[2] \in v.seen
  <2>1. \A k \in writes : \E i \in 1..n : order[i] = k
    BY <1>1, <1>3, <1>4, OntoWhenAsMany
  <2> QED
    BY <1>12, <2>1
<1>14. WritesSeen(v, s)
  BY <1>0, <1>13 DEF WritesSeen, WritesOf
<1>15. Walking(v, {})
  <2>1. \A m \in DOMAIN v.found : m \in {} \/ WritesSeen(v, m)
    BY <1>12, <1>14 DEF Walking
  <2> QED
    BY <1>12, <2>1, Zenon DEF Walking
<1>16. Written(w, s, conf, order) = v
  <2>1. Written(w, s, conf, order) = WritesPass(w, w.dist, conf, order)
    BY Zenon DEF Written, WritesPass
  <2> QED
    BY <1>5, <1>6, <1>11, <2>1
<1> QED
  BY <1>15, <1>16

\* Where a walk is between its steps.
WalkInv == walk # Idle => phase = "built" /\ Walking(walk, {})

LEMMA AskStarts ==
    ASSUME GraphInv, NEW n \in nodes, NEW w,
           w = [start |-> n, at |-> n, dist |-> 0, conf |-> 100, left |-> Inbound(n),
                queue |-> <<>>, seen |-> {n}, found |-> <<>>]
    PROVE  Walking(w, {})
<1>1. /\ w.start = n /\ w.at = n /\ w.dist = 0 /\ w.conf = 100 /\ w.left = Inbound(n)
      /\ w.queue = <<>> /\ w.seen = {n} /\ w.found = <<>>
  OBVIOUS
<1>2. w = [start |-> w.start, at |-> w.at, dist |-> w.dist, conf |-> w.conf,
           left |-> w.left, queue |-> w.queue, seen |-> w.seen, found |-> w.found]
  BY <1>1
<1>3. Node(n)
  BY GraphIs DEF GraphInv, Sound
<1>4. DOMAIN w.found = {} /\ w.queue \in Seq({}) /\ Len(w.queue) = 0
  BY <1>1
<1>5. w.start \notin DOMAIN w.found /\ w.seen = DOMAIN w.found \cup {w.start}
  BY <1>1, <1>4
<1>6. AtHand(w)
  BY <1>1 DEF AtHand, DistOf
<1>7. \A i \in 1..Len(w.queue) : FALSE
  BY <1>4
<1> QED
  BY <1>1, <1>2, <1>3, <1>4, <1>5, <1>6, <1>7, Zenon DEF Walking

LEMMA FollowKeeps ==
    ASSUME GraphInv, Walking(walk, {}), NEW k \in walk.left, Follow(k)
    PROVE  \E v : walk' = v /\ Walking(v, {})
<1>1. PICK w : w = walk
  OBVIOUS
<1>2. Walking(w, {}) /\ w.at # NoNode
  BY <1>1 DEF Follow
<1>3. k \in Inbound(w.at) /\ k[2] = w.at /\ k \in DOMAIN edges
  BY <1>1, <1>2 DEF Walking, AtHand, Inbound
<1>4. EdgeSound(k, edges[k])
  BY <1>3, GraphIs DEF GraphInv, Sound
<1>5. w.dist \in Nat
  BY <1>2 DEF Walking, AtHand, DistOf
<1>6. CASE ~Sees(k, w.seen)
  <2>1. PICK v : v = [w EXCEPT !.left = @ \ {k}]
    OBVIOUS
  <2>2. Sees(k, {}) => k[1] \in w.seen
    BY <1>6 DEF Sees
  <2>3. Walking(v, {})
    BY <1>2, <2>1, <2>2, LeftKeeps
  <2>4. walk' = v
    BY <1>1, <1>6, <2>1, Zenon DEF Follow
  <2> QED
    BY <2>3, <2>4
<1>7. CASE Sees(k, w.seen)
  <2>0. PICK d \in Nat : d = w.dist + 1
    BY <1>5
  <2>1. PICK s, conf : s = k[1] /\ conf = Lower(w.conf, edges[k].confidence)
    OBVIOUS
  <2>2. Node(s) /\ s \notin w.seen
    BY <1>4, <1>7, <2>1 DEF EdgeSound, Sees
  <2>3. PICK r : r = Reach(w, s, d, conf)
    OBVIOUS
  <2>4. PICK none : none = {}
    OBVIOUS
  <2>14. /\ Walking(Reach(w, s, d, conf), none \cup {s})
         /\ Reach(w, s, d, conf).seen = w.seen \cup {s} /\ Reach(w, s, d, conf).at = w.at
    <3>1. Walking(w, none)
      BY <1>2, <2>4
    <3>2. w.at # NoNode /\ Node(s) /\ s \notin w.seen
      BY <1>2, <2>2
    <3>3. Walking(Reach(w, s, d, conf), none \cup {s})
      BY <3>1, <3>2, ReachKeeps
    <3>4. Reach(w, s, d, conf).seen = w.seen \cup {s} /\ Reach(w, s, d, conf).at = w.at
      <4>1. w = [start |-> w.start, at |-> w.at, dist |-> w.dist, conf |-> w.conf,
                 left |-> w.left, queue |-> w.queue, seen |-> w.seen, found |-> w.found]
        BY <1>2 DEF Walking
      <4> QED
        BY <4>1, ReachIs
    <3> QED
      BY <3>3, <3>4
  <2>5. PICK v : v = [r EXCEPT !.left = @ \ {k}]
    OBVIOUS
  <2>6. none \cup {s} = {s}
    BY <2>4
  <2>7. Walking(r, {s}) /\ r.at # NoNode /\ k[1] \in r.seen
    BY <1>2, <2>1, <2>3, <2>14, <2>6
  <2>8. Walking(v, {s})
    BY <2>5, <2>7, LeftKeeps
  <2>9. v = [[w EXCEPT !.left = @ \ {k}] EXCEPT !.seen = @ \cup {s}, !.found = With(@, s, w.dist + 1),
                                                 !.queue = Append(@, <<s, w.dist + 1, conf>>)]
    <3>1. PICK left, seen, found, queue :
            /\ left = w.left \ {k} /\ seen = w.seen \cup {s} /\ found = With(w.found, s, d)
            /\ queue = Append(w.queue, <<s, d, conf>>)
      OBVIOUS
    <3>2. w = [start |-> w.start, at |-> w.at, dist |-> w.dist, conf |-> w.conf,
               left |-> w.left, queue |-> w.queue, seen |-> w.seen, found |-> w.found]
      BY <1>2 DEF Walking
    <3>3. r = [w EXCEPT !.seen = seen, !.found = found, !.queue = queue]
      BY <2>3, <3>1, Zenon DEF Reach
    <3>4. r = [start |-> w.start, at |-> w.at, dist |-> w.dist, conf |-> w.conf,
               left |-> w.left, queue |-> queue, seen |-> seen, found |-> found]
      BY <3>2, <3>3, Zenon
    <3>5. r.left = w.left
      BY <3>4
    <3>6. v = [r EXCEPT !.left = left]
      BY <2>5, <3>1, <3>5, Zenon
    <3>7. v = [start |-> w.start, at |-> w.at, dist |-> w.dist, conf |-> w.conf,
               left |-> left, queue |-> queue, seen |-> seen, found |-> found]
      BY <3>4, <3>6, Zenon
    <3>8. PICK l : l = [w EXCEPT !.left = @ \ {k}]
      OBVIOUS
    <3>9. l = [w EXCEPT !.left = left]
      BY <3>1, <3>8, Zenon
    <3>10. l = [start |-> w.start, at |-> w.at, dist |-> w.dist, conf |-> w.conf,
                left |-> left, queue |-> w.queue, seen |-> w.seen, found |-> w.found]
      BY <3>2, <3>9, Zenon
    <3>11. l.seen = w.seen /\ l.found = w.found /\ l.queue = w.queue
      BY <3>10
    <3>12. PICK u : u = [l EXCEPT !.seen = seen, !.found = found, !.queue = queue]
      OBVIOUS
    <3>13. u = [start |-> w.start, at |-> w.at, dist |-> w.dist, conf |-> w.conf,
                left |-> left, queue |-> queue, seen |-> seen, found |-> found]
      BY <3>10, <3>12, Zenon
    <3>14. u = [l EXCEPT !.seen = @ \cup {s}, !.found = With(@, s, d), !.queue = Append(@, <<s, d, conf>>)]
      BY <3>1, <3>11, <3>12, Zenon
    <3>15. v = u
      BY <3>7, <3>13
    <3> QED
      BY <2>0, <3>8, <3>14, <3>15
  <2>10. PICK order \in SetToSeqs(WritesOf(s)) : walk' = Written(v, s, conf, order)
    BY <1>1, <1>7, <2>1, <2>9, Zenon DEF Follow, WritesOf
  <2>11. v.at # NoNode /\ v.dist \in Nat
    BY <1>2, <1>5, <2>3, <2>14, <2>5, <2>8 DEF Reach, Walking
  <2>12. Walking(Written(v, s, conf, order), {})
    BY <2>8, <2>11, WrittenKeeps
  <2> QED
    BY <2>10, <2>12
<1> QED
  BY <1>6, <1>7

LEMMA PopKeeps ==
    ASSUME GraphInv, Walking(walk, {}), Pop
    PROVE  \E v : walk' = v /\ Walking(v, {})
<1>1. PICK w : w = walk
  OBVIOUS
<1>2. Walking(w, {}) /\ w.at # NoNode /\ (w.left = {} \/ w.dist >= MaxDepth)
  BY <1>1 DEF Pop
<1>3. w = [start |-> w.start, at |-> w.at, dist |-> w.dist, conf |-> w.conf,
           left |-> w.left, queue |-> w.queue, seen |-> w.seen, found |-> w.found]
  BY <1>2 DEF Walking
<1>4. Followed(w, w.at)
  <2>1. w.dist \in Nat /\ w.dist = DistOf(w, w.at)
    BY <1>2 DEF Walking, AtHand, DistOf
  <2>2. CASE w.left = {}
    BY <1>2, <2>2 DEF Walking, AtHand, Followed
  <2>3. CASE w.dist >= MaxDepth
    BY <2>1, <2>3, ImpactAssumption DEF Followed
  <2> QED
    BY <1>2, <2>2, <2>3
<1>5. \A n \in w.seen : Waits(w, n) \/ Followed(w, n)
  BY <1>2, <1>4 DEF Walking
<1>6. CASE w.queue = <<>>
  <2>1. PICK v : v = [w EXCEPT !.at = NoNode, !.left = {}]
    OBVIOUS
  <2>2. v = [start |-> w.start, at |-> NoNode, dist |-> w.dist, conf |-> w.conf,
             left |-> {}, queue |-> w.queue, seen |-> w.seen, found |-> w.found]
    BY <1>3, <2>1, Zenon
  <2>3. /\ v.start = w.start /\ v.at = NoNode /\ v.dist = w.dist /\ v.conf = w.conf /\ v.left = {}
        /\ v.queue = w.queue /\ v.seen = w.seen /\ v.found = w.found
    BY <2>2
  <2>4. v = [start |-> v.start, at |-> v.at, dist |-> v.dist, conf |-> v.conf,
             left |-> v.left, queue |-> v.queue, seen |-> v.seen, found |-> v.found]
    BY <2>2, <2>3
  <2>5. AtHand(v)
    BY <1>6, <2>3 DEF AtHand
  <2>6. \A m : (Waits(w, m) => Waits(v, m)) /\ (Followed(w, m) => Followed(v, m))
               /\ (WritesSeen(w, m) => WritesSeen(v, m))
    BY <2>3 DEF Waits, Followed, WritesSeen, DistOf
  <2>7. Walking(v, {})
    BY <1>2, <1>5, <2>3, <2>4, <2>5, <2>6 DEF Walking
  <2>8. walk' = v
    BY <1>1, <1>6, <2>1, Zenon DEF Pop
  <2> QED
    BY <2>7, <2>8
<1>7. CASE w.queue # <<>>
  <2>1. PICK S : w.queue \in Seq(S)
    BY <1>2 DEF Walking
  <2>2. PICK q, rest : q = Head(w.queue) /\ rest = Tail(w.queue)
    OBVIOUS
  <2>3. /\ rest \in Seq(S) /\ Len(w.queue) \in Nat /\ Len(rest) = Len(w.queue) - 1
        /\ Len(w.queue) >= 1 /\ q = w.queue[1]
        /\ \A i \in 1..Len(rest) : rest[i] = w.queue[i + 1]
    BY <1>7, <2>1, <2>2
  <2>4. PICK v : v = [w EXCEPT !.at = q[1], !.dist = q[2], !.conf = q[3], !.left = Inbound(q[1]), !.queue = rest]
    OBVIOUS
  <2>5. v = [start |-> w.start, at |-> q[1], dist |-> q[2], conf |-> q[3],
             left |-> Inbound(q[1]), queue |-> rest, seen |-> w.seen, found |-> w.found]
    BY <1>3, <2>4, Zenon
  <2>6. /\ v.start = w.start /\ v.at = q[1] /\ v.dist = q[2] /\ v.conf = q[3] /\ v.left = Inbound(q[1])
        /\ v.queue = rest /\ v.seen = w.seen /\ v.found = w.found
    BY <2>5
  <2>7. v = [start |-> v.start, at |-> v.at, dist |-> v.dist, conf |-> v.conf,
             left |-> v.left, queue |-> v.queue, seen |-> v.seen, found |-> v.found]
    BY <2>5, <2>6
  <2>8. \A i \in 1..Len(w.queue) : /\ w.queue[i][1] \in DOMAIN w.found
                                   /\ w.queue[i][2] = w.found[w.queue[i][1]]
    BY <1>2 DEF Walking
  <2>9. q[1] \in DOMAIN w.found /\ q[2] = w.found[q[1]]
    BY <2>3, <2>8
  <2>10. q[1] \in w.seen /\ q[2] = DistOf(w, q[1]) /\ Node(q[1])
    BY <1>2, <2>9 DEF Walking, DistOf
  <2>11. q[1] # NoNode
    <3>1. NoNode[1] = "done"
      BY DEF NoNode
    <3> QED
      BY <2>10, <3>1 DEF Node, NodeTag
  <2>12. AtHand(v)
    BY <2>6, <2>10, <2>11 DEF AtHand, DistOf
  <2>13. ASSUME NEW i \in 1..Len(v.queue)
         PROVE  v.queue[i][1] \in DOMAIN v.found /\ v.queue[i][2] = v.found[v.queue[i][1]]
    <3>1. i + 1 \in 1..Len(w.queue) /\ v.queue[i] = w.queue[i + 1]
      BY <2>3, <2>6
    <3> QED
      BY <2>6, <2>8, <3>1
  <2>14. ASSUME NEW n \in w.seen  PROVE n = v.at \/ Waits(v, n) \/ Followed(v, n)
    <3>1. CASE Waits(w, n)
      <4>1. PICK i \in 1..Len(w.queue) : w.queue[i][1] = n
        BY <3>1 DEF Waits
      <4>2. CASE i = 1
        BY <2>3, <2>6, <4>1, <4>2
      <4>3. CASE i # 1
        <5>1. i - 1 \in 1..Len(v.queue) /\ v.queue[i - 1] = w.queue[i]
          BY <2>3, <2>6, <4>3
        <5> QED
          BY <4>1, <5>1 DEF Waits
      <4> QED
        BY <4>2, <4>3
    <3>2. CASE Followed(w, n)
      <4>1. Followed(v, n)
        BY <2>6, <3>2 DEF Followed, DistOf
      <4> QED
        BY <4>1
    <3> QED
      BY <1>5, <3>1, <3>2
  <2>15. \A m : WritesSeen(w, m) => WritesSeen(v, m)
    BY <2>6 DEF WritesSeen
  <2>16. \E T : v.queue \in Seq(T)
    BY <2>3, <2>6
  <2>17. Walking(v, {})
    BY <1>2, <2>6, <2>7, <2>12, <2>13, <2>14, <2>15, <2>16 DEF Walking
  <2>18. walk' = v
    BY <1>1, <1>7, <2>2, <2>4, Zenon DEF Pop
  <2> QED
    BY <2>17, <2>18
<1> QED
  BY <1>6, <1>7

LEMMA WalkStep == ASSUME GraphInv, WalkInv, [CommandNext]_<<impactVars, passVars>>  PROVE WalkInv'
<1>1. ASSUME NEW v, walk' = v, Walking(v, {}), UNCHANGED vars, phase = "built"  PROVE WalkInv'
  <2>1. org' = org /\ edges' = edges /\ phase' = "built"
    BY <1>1 DEF vars, graph
  <2>2. Walking(v, {})'
    BY <1>1, <2>1 DEF Walking, AtHand, DistOf, Waits, Followed, WritesSeen, Node, Sees, IsTest, Source, Inbound, Outbound
  <2> QED
    BY <1>1, <2>1, <2>2 DEF WalkInv
<1>2. CASE BuildNext /\ UNCHANGED walk
  <2>1. phase # "built"
    BY <1>2 DEF BuildNext, AddSchema, AddCmtRecords, LinkComponent, Dispatch, FoldRow, Built
  <2>2. walk = Idle
    BY <2>1 DEF WalkInv
  <2> QED
    BY <1>2, <2>2 DEF WalkInv, Idle
<1>3. CASE \E n \in nodes : Ask(n)
  <2>1. PICK n \in nodes : Ask(n)
    BY <1>3
  <2>2. PICK w : w = [start |-> n, at |-> n, dist |-> 0, conf |-> 100, left |-> Inbound(n),
                      queue |-> <<>>, seen |-> {n}, found |-> <<>>]
    OBVIOUS
  <2>3. Walking(w, {})
    BY <2>2, AskStarts
  <2>4. walk' = w /\ UNCHANGED vars /\ phase = "built"
    BY <2>1, <2>2, Zenon DEF Ask
  <2> QED
    BY <1>1, <2>3, <2>4
<1>4. CASE walk # Idle /\ \E k \in walk.left : Follow(k)
  <2>1. PICK k \in walk.left : Follow(k)
    BY <1>4
  <2>2. phase = "built" /\ Walking(walk, {})
    BY <1>4 DEF WalkInv
  <2>3. \E v : walk' = v /\ Walking(v, {})
    BY <2>1, <2>2, FollowKeeps
  <2>4. UNCHANGED vars
    BY <2>1 DEF Follow
  <2> QED
    BY <1>1, <2>2, <2>3, <2>4
<1>5. CASE Pop
  <2>1. phase = "built" /\ Walking(walk, {}) /\ UNCHANGED vars
    BY <1>5 DEF WalkInv, Pop
  <2>2. \E v : walk' = v /\ Walking(v, {})
    BY <1>5, <2>1, PopKeeps
  <2> QED
    BY <1>1, <2>1, <2>2
<1>6. CASE UNCHANGED impactVars
  <2>1. UNCHANGED vars /\ walk' = walk /\ phase' = phase
    BY <1>6 DEF impactVars, vars
  <2>2. CASE walk = Idle
    BY <2>1, <2>2 DEF WalkInv, Idle
  <2>3. CASE walk # Idle
    <3>1. phase = "built" /\ Walking(walk, {})
      BY <2>3 DEF WalkInv
    <3> QED
      BY <1>1, <2>1, <3>1
  <2> QED
    BY <2>2, <2>3
<1> QED
  BY <1>2, <1>3, <1>4, <1>5, <1>6 DEF CommandNext, Next, Answered

\* A finished walk has left nothing out, whatever the order of the edges at a node:
\* what depends on a node above the depth limit is reached, and what a reached
\* automation writes.
THEOREM ClosureIsComplete == Commands => []ClosureComplete
<1>1. CommandInit => WalkInv
  BY DEF CommandInit, Init, WalkInv
<1>2. GraphInv /\ WalkInv /\ [CommandNext]_<<impactVars, passVars>> => WalkInv'
  BY WalkStep
<1>3. WalkInv => ClosureComplete
  <2>1. ASSUME WalkInv, Finished, NEW n \in Reached
        PROVE  LET dist == IF n = walk.start THEN 0 ELSE walk.found[n] IN
               /\ dist < MaxDepth => \A k \in Inbound(n) : Sees(k, {}) => k[1] \in Reached
               /\ IsComponent(n) /\ n # walk.start =>
                     \A k \in Outbound(n) : "write" \in edges[k].notes => k[2] \in Reached
    <3>1. Walking(walk, {}) /\ walk.at = NoNode
      BY <2>1 DEF WalkInv, Finished
    <3>2. Reached = walk.seen /\ walk.queue = <<>>
      BY <3>1 DEF Reached, Walking, AtHand
    <3>3. n # NoNode
      <4>1. Node(n)
        BY <2>1, <3>1, <3>2 DEF Walking
      <4>2. NoNode[1] = "done"
        BY DEF NoNode
      <4> QED
        BY <4>1, <4>2 DEF Node, NodeTag
    <3>4. ~Waits(walk, n)
      BY <3>2 DEF Waits
    <3>5. Followed(walk, n)
      BY <2>1, <3>1, <3>2, <3>3, <3>4 DEF Walking
    <3>6. n # walk.start => WritesSeen(walk, n)
      BY <2>1, <3>1 DEF Walking, Reached
    <3> QED
      BY <3>2, <3>5, <3>6 DEF Followed, DistOf, WritesSeen
  <2> QED
    BY <2>1 DEF ClosureComplete
<1> QED
  BY <1>1, <1>2, <1>3, GraphIsSound, PTL DEF Commands

Age == 0..Window

------------------------------------------------------------------------------
(* The limiter's list: what a fold keeps of it.                             *)

IsKept(ages, it) ==
    it = [s \in SUBSET DOMAIN ages |->
             IF s = {} THEN <<>> ELSE KeepRecent(it[s \ {Max(s)}], ages[Max(s)])]

LEMMA RecentRuns ==
    ASSUME NEW ages \in Seq(Age)
    PROVE  \E run \in [0..Len(ages) -> Seq(Age)] :
               /\ run[0] = <<>> /\ Recent(ages) = run[Len(ages)]
               /\ \A i \in 1..Len(ages) : run[i] = KeepRecent(run[i - 1], ages[i])
<1> DEFINE U == Seq(Age)
<1>1. PICK n \in Nat : n = Len(ages)
  OBVIOUS
<1>2. DOMAIN ages = 1..n /\ \A i \in 1..n : ages[i] \in Age
  BY <1>1
<1> DEFINE step == [p \in (1..n) \X U |-> KeepRecent(p[2], ages[p[1]])]
<1>3. \A i \in 1..n, kept \in U : KeepRecent(kept, ages[i]) \in U
  BY <1>2 DEF KeepRecent
<1>4. step \in [(1..n) \X U -> U]
  BY <1>3
<1>5. \A i \in 1..n, kept \in U : step[<<i, kept>>] = KeepRecent(kept, ages[i])
  OBVIOUS
<1>6. \A s \in SUBSET (1..n) : s # {} => Max(s) \in 1..n /\ s \ {Max(s)} \in SUBSET (1..n)
  BY MaxOfPositions
<1>7. PICK none \in U : none = <<>>
  <2>1. <<>> \in U
    OBVIOUS
  <2> HIDE DEF U
  <2> QED
    BY <2>1
<1> HIDE DEF step, U
<1>8. \E it : IsKept(ages, it)
  <2>1. PICK it \in [SUBSET (1..n) -> U] : FoldEquation(n, none, step, it)
    BY <1>4, <1>7, FoldExists
  <2>2. \A s \in SUBSET (1..n) :
            it[s] = IF s = {} THEN <<>> ELSE KeepRecent(it[s \ {Max(s)}], ages[Max(s)])
    BY <1>5, <1>6, <1>7, <2>1 DEF FoldEquation
  <2>3. it = [s \in SUBSET (1..n) |-> it[s]]
    OBVIOUS
  <2>4. IsKept(ages, it)
    BY <1>2, <2>2, <2>3 DEF IsKept
  <2> QED
    BY <2>4
<1>9. PICK it : it = CHOOSE f : IsKept(ages, f)
  OBVIOUS
<1>10. IsKept(ages, it)
  BY <1>8, <1>9, Zenon
<1>11. Recent(ages) = it[DOMAIN ages]
  BY <1>9, Zenon DEF Recent, FoldLeft, MapThenFoldSet, IsKept
<1>12. \A s \in SUBSET (1..n) :
           it[s] = IF s = {} THEN <<>> ELSE KeepRecent(it[s \ {Max(s)}], ages[Max(s)])
  BY <1>2, <1>10 DEF IsKept
<1>13. it[{}] = none
  BY <1>7, <1>12
<1>14. FoldWithin(n, U, none, step, it)
  BY <1>5, <1>6, <1>12, <1>13 DEF FoldWithin
<1>15. PICK run \in [0..n -> U] :
           StepByStep(n, none, step, run) /\ it[1..n] = run[n]
  <2>1. FoldsTo(n, U, none, step, it[1..n])
    BY <1>4, <1>7, <1>14, FoldRuns
  <2> QED
    BY <2>1 DEF FoldsTo
<1>16. \A i \in 1..n : run[i] = KeepRecent(run[i - 1], ages[i])
  <2>1. \A i \in 1..n : i - 1 \in 0..n
    OBVIOUS
  <2> QED
    BY <1>5, <1>15, <2>1 DEF StepByStep
<1> QED
  BY <1>1, <1>2, <1>7, <1>11, <1>15, <1>16 DEF U, StepByStep

LEMMA RecentType == ASSUME NEW ages \in Seq(Age) PROVE Recent(ages) \in Seq(Age)
<1>1. Len(ages) \in 0..Len(ages)
  OBVIOUS
<1> QED
  BY <1>1, RecentRuns

LEMMA RecentOfNone == Recent(<<>>) = <<>>
<1>1. <<>> \in Seq(Age) /\ Len(<<>>) = 0
  OBVIOUS
<1> QED
  BY <1>1, RecentRuns

LEMMA RecentAppend ==
    ASSUME NEW ages \in Seq(Age), NEW age \in Age
    PROVE  Recent(Append(ages, age)) = KeepRecent(Recent(ages), age)
<1>1. PICK n \in Nat : n = Len(ages)
  OBVIOUS
<1>2. PICK longer \in Seq(Age) : longer = Append(ages, age)
  <2>1. Append(ages, age) \in Seq(Age)
    OBVIOUS
  <2> QED
    BY <2>1
<1>3. /\ Len(longer) = n + 1 /\ longer[n + 1] = age
      /\ \A i \in 1..n : longer[i] = ages[i]
  BY <1>1, <1>2
<1>4. PICK r \in [0..n -> Seq(Age)] :
          /\ r[0] = <<>> /\ Recent(ages) = r[n]
          /\ \A i \in 1..n : r[i] = KeepRecent(r[i - 1], ages[i])
  BY <1>1, RecentRuns
<1>5. PICK q \in [0..(n + 1) -> Seq(Age)] :
          /\ q[0] = <<>> /\ Recent(longer) = q[n + 1]
          /\ \A i \in 1..(n + 1) : q[i] = KeepRecent(q[i - 1], longer[i])
  BY <1>3, RecentRuns
<1> DEFINE Good == {i \in Nat : i <= n => r[i] = q[i]}
<1>6. 0 \in Good
  BY <1>4, <1>5
<1>7. ASSUME NEW i \in Nat, i \in Good  PROVE i + 1 \in Good
  <2>1. ASSUME i + 1 <= n  PROVE r[i + 1] = q[i + 1]
    <3>1. i + 1 \in 1..n /\ i + 1 \in 1..(n + 1) /\ (i + 1) - 1 = i /\ r[i] = q[i]
      BY <1>7, <2>1
    <3> QED
      BY <1>3, <1>4, <1>5, <3>1
  <2> QED
    BY <2>1
<1> HIDE DEF Good
<1>8. \A i \in Nat : i \in Good
  BY <1>6, <1>7, CountingUp
<1>9. r[n] = q[n]
  BY <1>8 DEF Good
<1>10. n + 1 \in 1..(n + 1) /\ (n + 1) - 1 = n
  OBVIOUS
<1>11. q[n + 1] = KeepRecent(q[n], longer[n + 1])
  BY <1>5, <1>10
<1> QED
  BY <1>2, <1>3, <1>4, <1>5, <1>9, <1>11

\* What holds for the empty list, and of a longer one if it holds of all but its
\* last, holds of every list.
LEMMA ListsByAppending ==
    ASSUME NEW Good, <<>> \in Good,
           \A ages \in Seq(Age), age \in Age : ages \in Good => Append(ages, age) \in Good
    PROVE  \A ages \in Seq(Age) : ages \in Good
<1> DEFINE Sized == {n \in Nat : \A ages \in Seq(Age) : Len(ages) = n => ages \in Good}
<1>1. 0 \in Sized
  <2>1. \A ages \in Seq(Age) : Len(ages) = 0 => ages = <<>>
    OBVIOUS
  <2> QED
    BY <2>1
<1>2. ASSUME NEW n \in Nat, n \in Sized  PROVE n + 1 \in Sized
  <2>1. SUFFICES ASSUME NEW ages \in Seq(Age), Len(ages) = n + 1  PROVE ages \in Good
    OBVIOUS
  <2>2. PICK front : front = SubSeq(ages, 1, n)
    OBVIOUS
  <2>3. front \in Seq(Age) /\ Len(front) = n /\ ages[n + 1] \in Age
    BY <2>1, <2>2
  <2>4. ages = Append(front, ages[n + 1])
    BY <2>1, <2>2, <2>3
  <2> QED
    BY <1>2, <2>3, <2>4
<1> HIDE DEF Sized
<1>3. \A n \in Nat : n \in Sized
  BY <1>1, <1>2, CountingUp
<1> QED
  BY <1>3 DEF Sized

\* What is recent is young, and young lists are kept whole.
AllYoung(ages) == \A i \in 1..Len(ages) : ages[i] < Window
LEMMA RecentIsYoung ==
    ASSUME NEW ages \in Seq(Age)  PROVE AllYoung(Recent(ages))
<1> DEFINE Good == {s \in Seq(Age) : AllYoung(Recent(s))}
<1>1. <<>> \in Good
  BY RecentOfNone DEF AllYoung
<1>2. ASSUME NEW s \in Seq(Age), NEW age \in Age, s \in Good  PROVE Append(s, age) \in Good
  <2>1. PICK r \in Seq(Age) : r = Recent(s)
    BY RecentType
  <2>2. Recent(Append(s, age)) = KeepRecent(r, age) /\ AllYoung(r)
    BY <1>2, <2>1, RecentAppend
  <2>3. AllYoung(KeepRecent(r, age))
    BY <2>1, <2>2 DEF AllYoung, KeepRecent
  <2> QED
    BY <2>2, <2>3
<1> HIDE DEF Good
<1>3. \A s \in Seq(Age) : s \in Good
  BY <1>1, <1>2, ListsByAppending
<1> QED
  BY <1>3 DEF Good

LEMMA YoungIsRecent ==
    ASSUME NEW ages \in Seq(Age), AllYoung(ages)  PROVE Recent(ages) = ages
<1> DEFINE Good == {s \in Seq(Age) : AllYoung(s) => Recent(s) = s}
<1>1. <<>> \in Good
  BY RecentOfNone
<1>2. ASSUME NEW s \in Seq(Age), NEW age \in Age, s \in Good  PROVE Append(s, age) \in Good
  <2>1. PICK t \in Seq(Age) : t = Append(s, age)
    <3>1. Append(s, age) \in Seq(Age)
      OBVIOUS
    <3> QED
      BY <3>1
  <2>2. /\ Len(t) = Len(s) + 1 /\ Len(s) \in Nat /\ t[Len(t)] = age
        /\ \A i \in 1..Len(s) : t[i] = s[i]
    BY <2>1
  <2>3. ASSUME AllYoung(t)  PROVE AllYoung(s) /\ age < Window
    BY <2>2, <2>3 DEF AllYoung
  <2>4. Recent(t) = KeepRecent(Recent(s), age)
    BY <2>1, RecentAppend
  <2>5. ASSUME AllYoung(t)  PROVE Recent(t) = t
    BY <1>2, <2>1, <2>3, <2>4, <2>5 DEF KeepRecent
  <2> QED
    BY <2>1, <2>5
<1> HIDE DEF Good
<1>3. \A s \in Seq(Age) : s \in Good
  BY <1>1, <1>2, ListsByAppending
<1> QED
  BY <1>3 DEF Good

\* It is no longer than the list, and shorter when the oldest has run out.
LEMMA RecentLength ==
    ASSUME NEW ages \in Seq(Age)
    PROVE  /\ Len(Recent(ages)) \in Nat /\ Len(Recent(ages)) <= Len(ages)
           /\ Len(ages) > 0 /\ ages[1] >= Window => Len(Recent(ages)) < Len(ages)
<1> DEFINE Good == {s \in Seq(Age) :
                       /\ Len(Recent(s)) <= Len(s)
                       /\ Len(s) > 0 /\ s[1] >= Window => Len(Recent(s)) < Len(s)}
<1>1. <<>> \in Good
  BY RecentOfNone
<1>2. ASSUME NEW s \in Seq(Age), NEW age \in Age, s \in Good  PROVE Append(s, age) \in Good
  <2>1. PICK r \in Seq(Age) : r = Recent(s)
    BY RecentType
  <2>2. PICK t \in Seq(Age) : t = Append(s, age)
    <3>1. Append(s, age) \in Seq(Age)
      OBVIOUS
    <3> QED
      BY <3>1
  <2>3. /\ Len(t) = Len(s) + 1 /\ Len(s) \in Nat /\ t[Len(t)] = age
        /\ \A i \in 1..Len(s) : t[i] = s[i]
    BY <2>2
  <2>4. Recent(t) = KeepRecent(r, age)
    BY <2>1, <2>2, RecentAppend
  <2>5. /\ Len(r) \in Nat /\ Len(r) <= Len(s)
        /\ Len(s) > 0 /\ s[1] >= Window => Len(r) < Len(s)
    BY <1>2, <2>1
  <2>6. Len(KeepRecent(r, age)) <= Len(r) + (IF age < Window THEN 1 ELSE 0)
    BY DEF KeepRecent
  <2>7. Len(KeepRecent(r, age)) \in Nat
    BY DEF KeepRecent
  <2>8. CASE Len(s) = 0
    <3>1. t[1] = age
      BY <2>3, <2>8
    <3> QED
      BY <2>2, <2>3, <2>4, <2>5, <2>6, <2>7, <2>8, <3>1, AnnotateAssumption DEF Age
  <2>9. CASE Len(s) > 0
    <3>1. t[1] = s[1]
      BY <2>3, <2>9
    <3>2. Len(Recent(t)) <= Len(t)
      BY <2>3, <2>4, <2>5, <2>6, <2>7
    <3>3. ASSUME s[1] >= Window  PROVE Len(Recent(t)) < Len(t)
      BY <2>3, <2>4, <2>5, <2>6, <2>7, <2>9, <3>3
    <3> QED
      BY <2>2, <3>1, <3>2, <3>3
  <2> QED
    BY <2>3, <2>8, <2>9
<1> HIDE DEF Good
<1>3. \A s \in Seq(Age) : s \in Good
  BY <1>1, <1>2, ListsByAppending
<1>4. Len(Recent(ages)) \in Nat
  BY RecentType
<1> QED
  BY <1>3, <1>4 DEF Good

\* What a tick makes of a list.
OneOlder(age) == IF age < Window THEN age + 1 ELSE Window
LEMMA OlderType ==
    ASSUME NEW ages \in Seq(Age)
    PROVE  Older(ages) \in Seq(Age) /\ Len(Older(ages)) = Len(ages)
<1>1. PICK n \in Nat : n = Len(ages)
  OBVIOUS
<1>2. DOMAIN ages = 1..n /\ \A i \in 1..n : ages[i] \in Age
  BY <1>1
<1>3. \A i \in 1..n : OneOlder(ages[i]) \in Age
  BY <1>2, AnnotateAssumption DEF Age, OneOlder
<1>4. Older(ages) = [i \in 1..n |-> OneOlder(ages[i])]
  BY <1>2 DEF Older, OneOlder
<1> QED
  BY <1>1, <1>3, <1>4

LEMMA OlderAppend ==
    ASSUME NEW ages \in Seq(Age), NEW age \in Age
    PROVE  OneOlder(age) \in Age /\ Older(Append(ages, age)) = Append(Older(ages), OneOlder(age))
<1>1. PICK t \in Seq(Age) : t = Append(ages, age)
  <2>1. Append(ages, age) \in Seq(Age)
    OBVIOUS
  <2> QED
    BY <2>1
<1>2. /\ Len(t) = Len(ages) + 1 /\ Len(ages) \in Nat /\ t[Len(t)] = age
      /\ \A i \in 1..Len(ages) : t[i] = ages[i]
  BY <1>1
<1>3. OneOlder(age) \in Age
  BY AnnotateAssumption DEF Age, OneOlder
<1>4. PICK o \in Seq(Age) : o = Older(ages) /\ Len(o) = Len(ages)
  BY OlderType
<1>5. PICK u \in Seq(Age) : u = Older(t) /\ Len(u) = Len(t)
  BY OlderType
<1>6. \A i \in 1..Len(ages) : o[i] = OneOlder(ages[i])
  BY <1>4 DEF Older, OneOlder
<1>7. \A i \in 1..Len(t) : u[i] = OneOlder(t[i])
  BY <1>5 DEF Older, OneOlder
<1>8. PICK w \in Seq(Age) : w = Append(o, OneOlder(age))
  <2>1. Append(o, OneOlder(age)) \in Seq(Age)
    BY <1>3
  <2> QED
    BY <2>1
<1>9. /\ Len(w) = Len(t) /\ w[Len(t)] = OneOlder(age)
      /\ \A i \in 1..Len(ages) : w[i] = o[i]
  BY <1>2, <1>3, <1>4, <1>8
<1>10. ASSUME NEW i \in 1..Len(t)  PROVE u[i] = w[i]
  <2>1. i = Len(t) \/ i \in 1..Len(ages)
    BY <1>2
  <2>2. u[i] = OneOlder(t[i])
    BY <1>7
  <2>3. CASE i = Len(t)
    BY <1>2, <1>9, <2>2, <2>3
  <2>4. CASE i \in 1..Len(ages)
    BY <1>2, <1>6, <1>9, <2>2, <2>4
  <2> QED
    BY <2>1, <2>3, <2>4
<1>11. u = w
  BY <1>5, <1>9, <1>10
<1> QED
  BY <1>1, <1>3, <1>4, <1>5, <1>8, <1>11

\* What was forgotten before a tick is not missed after it.
LEMMA RecentOfOlder ==
    ASSUME NEW ages \in Seq(Age)
    PROVE  Recent(Older(Recent(ages))) = Recent(Older(ages))
<1> DEFINE Good == {s \in Seq(Age) : Recent(Older(Recent(s))) = Recent(Older(s))}
<1>1. <<>> \in Good
  BY RecentOfNone
<1>2. ASSUME NEW s \in Seq(Age), NEW age \in Age, s \in Good  PROVE Append(s, age) \in Good
  <2>1. PICK r \in Seq(Age) : r = Recent(s)
    BY RecentType
  <2>2. PICK t \in Seq(Age) : t = Append(s, age)
    <3>1. Append(s, age) \in Seq(Age)
      OBVIOUS
    <3> QED
      BY <3>1
  <2>3. PICK old \in Age : old = OneOlder(age)
    BY OlderAppend
  <2>4. Recent(t) = KeepRecent(r, age)
    BY <2>1, <2>2, RecentAppend
  <2>5. PICK os \in Seq(Age) : os = Older(s)
    BY OlderType
  <2>6. PICK or \in Seq(Age) : or = Older(r)
    BY OlderType
  <2>7. Recent(or) = Recent(os)
    BY <1>2, <2>1, <2>5, <2>6
  <2>8. Recent(Older(t)) = KeepRecent(Recent(os), old)
    BY <2>2, <2>3, <2>5, OlderAppend, RecentAppend
  <2>9. CASE age < Window
    <3>1. Recent(t) = Append(r, age)
      BY <2>4, <2>9 DEF KeepRecent
    <3>2. Older(Recent(t)) = Append(or, old)
      BY <2>3, <2>6, <3>1, OlderAppend
    <3>3. Recent(Older(Recent(t))) = KeepRecent(Recent(or), old)
      BY <3>2, RecentAppend
    <3> QED
      BY <2>2, <2>7, <2>8, <3>3
  <2>10. CASE ~(age < Window)
    <3>1. Recent(t) = r
      BY <2>4, <2>10 DEF KeepRecent
    <3>2. ~(old < Window)
      BY <2>3, <2>10, AnnotateAssumption DEF OneOlder
    <3>3. Recent(Older(t)) = Recent(os)
      BY <2>8, <3>2 DEF KeepRecent
    <3> QED
      BY <2>2, <2>6, <2>7, <3>1, <3>3
  <2> QED
    BY <2>9, <2>10
<1> HIDE DEF Good
<1>3. \A s \in Seq(Age) : s \in Good
  BY <1>1, <1>2, ListsByAppending
<1> QED
  BY <1>3 DEF Good

------------------------------------------------------------------------------
\* The limiter's list and the requests really sent tell the same minute.
RateInv ==
    /\ times \in Seq(Age) /\ Len(times) <= PerWindow
    /\ calls = Recent(times)

LEMMA WaitRate == ASSUME RateInv, NEW j, Wait(j)  PROVE RateInv'
<1>1. PICK t \in Seq(Age) : t = times
  BY DEF RateInv
<1>2. PICK r \in Seq(Age) : r = Recent(t)
  BY RecentType
<1>3. calls = r /\ Len(t) <= PerWindow /\ Len(r) <= Len(t) /\ AllYoung(r)
  BY <1>1, <1>2, RecentIsYoung, RecentLength DEF RateInv
<1>4. Recent(r) = r
  BY <1>3, YoungIsRecent
<1>5. CASE Len(Recent(times)) >= PerWindow
  <2>1. times' = r /\ calls' = r
    BY <1>1, <1>2, <1>3, <1>5 DEF Wait
  <2>2. Len(r) <= PerWindow
    BY <1>3, AnnotateAssumption
  <2> QED
    BY <1>4, <2>1, <2>2 DEF RateInv
<1>6. CASE ~(Len(Recent(times)) >= PerWindow)
  <2>1. times' = Append(r, 0) /\ calls' = Append(r, 0)
    BY <1>1, <1>2, <1>3, <1>6 DEF Wait, Send
  <2>2. ~(Len(r) >= PerWindow)
    BY <1>1, <1>2, <1>6
  <2>3. PICK a \in Seq(Age) : a = Append(r, 0)
    <3>1. Append(r, 0) \in Seq(Age)
      BY AnnotateAssumption DEF Age
    <3> QED
      BY <3>1
  <2>4. Len(a) <= PerWindow
    BY <2>2, <2>3, AnnotateAssumption
  <2>5. Recent(a) = a
    <3>1. AllYoung(a)
      BY <1>3, <2>3, AnnotateAssumption DEF AllYoung
    <3> QED
      BY <3>1, YoungIsRecent
  <2> QED
    BY <2>1, <2>3, <2>4, <2>5 DEF RateInv
<1> QED
  BY <1>5, <1>6

LEMMA WakeRate == ASSUME RateInv, NEW j, Wake(j)  PROVE RateInv'
<1>1. PICK t \in Seq(Age) : t = times
  BY DEF RateInv
<1>2. PICK r \in Seq(Age) : r = Recent(t)
  BY RecentType
<1>3. calls = r /\ Len(t) <= PerWindow /\ AllYoung(r)
  BY <1>1, <1>2, RecentIsYoung DEF RateInv
<1>4. times' = Append(r, 0) /\ calls' = Append(r, 0) /\ Head(t) >= Window
  BY <1>1, <1>2, <1>3 DEF Wake, Send
<1>5. Len(r) < PerWindow
  <2>1. CASE Len(t) = 0
    <3>1. Len(r) <= Len(t) /\ Len(r) \in Nat
      BY <1>2, RecentLength
    <3> QED
      BY <2>1, <3>1, AnnotateAssumption
  <2>2. CASE Len(t) > 0
    <3>1. t[1] >= Window
      BY <1>4, <2>2
    <3>2. Len(r) < Len(t)
      BY <1>2, <2>2, <3>1, RecentLength
    <3>3. Len(r) \in Nat /\ Len(t) \in Nat
      OBVIOUS
    <3> QED
      BY <1>3, <3>2, <3>3, AnnotateAssumption
  <2> QED
    BY <2>1, <2>2
<1>6. PICK a \in Seq(Age) : a = Append(r, 0)
  <2>1. Append(r, 0) \in Seq(Age)
    BY AnnotateAssumption DEF Age
  <2> QED
    BY <2>1
<1>7. Len(a) <= PerWindow
  BY <1>5, <1>6, AnnotateAssumption
<1>8. Recent(a) = a
  <2>1. AllYoung(a)
    BY <1>3, <1>6, AnnotateAssumption DEF AllYoung
  <2> QED
    BY <2>1, YoungIsRecent
<1> QED
  BY <1>4, <1>6, <1>7, <1>8 DEF RateInv

LEMMA TickRate == ASSUME RateInv, Tick  PROVE RateInv'
<1>1. PICK t \in Seq(Age) : t = times
  BY DEF RateInv
<1>2. PICK o \in Seq(Age) : o = Older(t) /\ Len(o) = Len(t)
  BY OlderType
<1>3. times' = o /\ calls' = Recent(Older(Recent(t))) /\ Len(t) <= PerWindow
  BY <1>1, <1>2 DEF Tick, RateInv
<1>4. calls' = Recent(o)
  BY <1>2, <1>3, RecentOfOlder
<1> QED
  BY <1>2, <1>3, <1>4 DEF RateInv

LEMMA EndedRate == ASSUME Ended  PROVE RateInv'
<1>1. times' = <<>> /\ calls' = <<>>
  BY DEF Ended
<1> QED
  BY <1>1, RecentOfNone, AnnotateAssumption DEF RateInv

\* Every other action leaves the limiter and the requests alone.
LEMMA RateStep == ASSUME RateInv, [CommandNext]_<<impactVars, passVars>>  PROVE RateInv'
<1>1. ASSUME UNCHANGED <<times, calls>>  PROVE RateInv'
  BY <1>1 DEF RateInv
<1>2. CASE UNCHANGED passVars
  BY <1>1, <1>2 DEF passVars, commandVars
<1>3. ASSUME NEW f \in Filters, NEW surfaces \in BOOLEAN, Begin(f, surfaces)  PROVE RateInv'
  BY <1>1, <1>3 DEF Begin
<1>4. ASSUME NEW j, Task(j)  PROVE RateInv'
  <2>1. CASE Wait(j)
    BY <2>1, WaitRate
  <2>2. CASE Wake(j)
    BY <2>2, WakeRate
  <2>3. CASE Start(j) \/ Answer(j) \/ Skip(j)
    BY <1>1, <2>3 DEF Start, Answer, Skip
  <2>4. CASE Unparseable(j)
    BY <1>1, <2>4 DEF Unparseable, Retried
  <2> QED
    BY <1>4, <2>1, <2>2, <2>3, <2>4 DEF Task
<1>5. CASE SaveAnnotations
  BY <1>1, <1>5, EndedRate DEF SaveAnnotations
<1>6. CASE SaveStories \/ Kill
  BY <1>6, EndedRate DEF SaveStories, Kill
<1>7. ASSUME NEW n, Change(n)  PROVE RateInv'
  BY <1>1, <1>7 DEF Change, commandVars
<1> QED
  BY <1>2, <1>3, <1>4, <1>5, <1>6, <1>7, TickRate DEF CommandNext, PassNext, Rest

\* However many tasks run, sleep and ask again, for any setting and any minute,
\* the model sees no more requests in a minute than the setting allows
\* (_RateLimiter.wait): a grant forgotten while nobody looked is forgotten by
\* the count as well, and whoever wakes finds one of the full list run out.
THEOREM RateIsRespected == Commands => []RateRespected
<1>1. CommandInit => RateInv
  BY RecentOfNone, AnnotateAssumption DEF CommandInit, PassInit, RateInv
<1>2. RateInv /\ [CommandNext]_<<impactVars, passVars>> => RateInv'
  BY RateStep
<1>3. RateInv => RateRespected
  <2> SUFFICES ASSUME RateInv  PROVE Len(Recent(calls)) <= PerWindow
    BY DEF RateRespected
  <2>1. PICK r \in Seq(Age) : r = Recent(times)
    BY RecentType DEF RateInv
  <2>2. calls = r /\ Len(r) <= Len(times) /\ Len(times) <= PerWindow /\ AllYoung(r)
    BY <2>1, RecentIsYoung, RecentLength DEF RateInv
  <2>3. Recent(r) = r
    BY <2>2, YoungIsRecent
  <2>4. Len(times) \in Nat /\ Len(r) \in Nat
    BY DEF RateInv
  <2> QED
    BY <2>2, <2>3, <2>4, AnnotateAssumption
<1> QED
  BY <1>1, <1>2, <1>3, PTL DEF Commands

------------------------------------------------------------------------------
(* What annotations.json keeps.                                             *)

Orig(n) == <<Of(n).source, 1>>
\* Contents the component n has, or had before it changed.
Had(n, c) == \/ c = Orig(n)
             \/ \E k \in Nat : k >= 2 /\ c = <<n, k>> /\ k <= content[n][2]
IsAnnotation(a) ==
    a = [name |-> a.name, content |-> a.content, confidence |-> a.confidence,
         tier |-> a.tier, needsReview |-> a.needsReview]
Bounded(n, a) ==
    /\ IsAnnotation(a) /\ a.name = n /\ a.confidence <= VisibleOf(Of(n))

ContentTyped ==
    /\ DOMAIN content = Names
    /\ content = [n \in Names |-> content[n]]
    /\ \A n \in Names : content[n] = Orig(n) \/ \E k \in Nat : k >= 2 /\ content[n] = <<n, k>>
FileTyped == \A a \in file : IsAnnotation(a) /\ a.name \in Names /\ Had(a.name, a.content)
LatestTyped ==
    /\ DOMAIN latest \subseteq Names
    /\ \A n \in DOMAIN latest : Bounded(n, latest[n]) /\ Had(n, latest[n].content)
PassTyped ==
    /\ stage = "idle" => DOMAIN fresh = {} /\ DOMAIN job = {}
    /\ stage = "components" => \A j \in DOMAIN job : j[2] \in Names
    /\ DOMAIN fresh \subseteq Names
    /\ \A n \in DOMAIN fresh : Bounded(n, fresh[n]) /\ fresh[n].content = content[n]
\* What the file says of a component nobody shares a content with.
Told(n) == IF n \in DOMAIN latest /\ latest[n].content = content[n] THEN {latest[n]} ELSE {}
FileTells ==
    \A n \in Names : Alone(n) => {a \in file : a.content = content[n]} = Told(n)
KeptInv ==
    /\ org \in Orgs
    /\ ContentTyped /\ FileTyped /\ LatestTyped /\ PassTyped /\ FileTells

\* The graph's org is the one it was built for.
LEMMA OrgStays == ASSUME [CommandNext]_<<impactVars, passVars>>  PROVE org' = org
<1>1. CASE UNCHANGED <<impactVars, passVars>>
  BY <1>1 DEF impactVars, vars
<1>2. CASE PassNext /\ UNCHANGED impactVars
  BY <1>2 DEF impactVars, vars
<1>3. CASE Next
  <2>1. CASE BuildNext
    BY <2>1 DEF BuildNext, AddSchema, AddCmtRecords, LinkComponent, Dispatch, FoldRow, Built
  <2>2. ASSUME NEW n, Ask(n)  PROVE org' = org
    BY <2>2 DEF Ask, vars
  <2>3. ASSUME NEW k, Follow(k)  PROVE org' = org
    BY <2>3 DEF Follow, vars
  <2>4. CASE Pop \/ Answered
    BY <2>4 DEF Pop, Answered, impactVars, vars
  <2> QED
    BY <1>3, <2>1, <2>2, <2>3, <2>4 DEF Next
<1> QED
  BY <1>1, <1>2, <1>3 DEF CommandNext

LEMMA SameOrg ==
    ASSUME org' = org
    PROVE  /\ Names' = Names
           /\ \A n : Of(n)' = Of(n) /\ Orig(n)' = Orig(n)
BY DEF Names, Of, Source, Orig, Comp

\* The confidence earned is never above what the component shows.
LEMMA LeastOfFour ==
    ASSUME NEW a \in Int, NEW b \in Int, NEW c \in Int, NEW d \in Int
    PROVE  Min({a, b, c, d}) \in Int /\ Min({a, b, c, d}) <= b
<1> DEFINE S == {a, b, c, d}
<1>1. \E x \in S : \A y \in S : x <= y
  <2>1. CASE a <= b /\ a <= c /\ a <= d
    BY <2>1
  <2>2. CASE b <= a /\ b <= c /\ b <= d
    BY <2>2
  <2>3. CASE c <= a /\ c <= b /\ c <= d
    BY <2>3
  <2>4. CASE d <= a /\ d <= b /\ d <= c
    BY <2>4
  <2> QED
    BY <2>1, <2>2, <2>3, <2>4
<1>2. Min(S) \in S /\ \A y \in S : Min(S) <= y
  BY <1>1, Zenon DEF Min
<1>3. b \in S /\ S \subseteq Int
  OBVIOUS
<1> QED
  BY <1>2, <1>3

LEMMA LeastOfTwo ==
    ASSUME NEW a \in Int, NEW b \in Int
    PROVE  Min({a, b}) \in Int
<1>1. Min({a, b}) = Min({a, b, a, b})
  <2>1. {a, b} = {a, b, a, b}
    OBVIOUS
  <2> QED
    BY <2>1
<1> QED
  BY <1>1, LeastOfFour

LEMMA EarnedBounded ==
    ASSUME NEW c, NEW a \in Answers
    PROVE  Earned(c, a) <= VisibleOf(c)
<1>1. a.self \in Int
  BY AnnotateAssumption
<1>2. PICK self : self = CASE a.tier = TierHint(c) -> a.self + 5
                           [] a.tier \in Tiers \ {TierHint(c)} -> Min({a.self, 60})
                           [] a.tier \notin Tiers -> a.self
  OBVIOUS
<1>3. self \in Int
  <2>1. TierHint(c) \in Tiers
    BY DEF TierHint, Tiers
  <2>2. Min({a.self, 60}) \in Int
    BY <1>1, LeastOfTwo
  <2>3. CASE a.tier = TierHint(c)
    BY <1>1, <1>2, <2>1, <2>3
  <2>4. CASE a.tier \in Tiers \ {TierHint(c)}
    BY <1>2, <2>2, <2>4
  <2>5. CASE a.tier \notin Tiers
    BY <1>1, <1>2, <2>1, <2>5
  <2> QED
    BY <2>3, <2>4, <2>5
<1>4. PICK unknowns \in Int : unknowns = IF a.unknowns THEN 80 ELSE 100
  OBVIOUS
<1>5. PICK evidence \in Int : evidence = IF a.evidence THEN 100 ELSE 50
  OBVIOUS
<1>6. PICK visible \in Int : visible = VisibleOf(c)
  BY DEF VisibleOf
<1>7. Earned(c, a) = Min({self, visible, unknowns, evidence})
  BY <1>2, <1>4, <1>5, <1>6 DEF Earned
<1> QED
  BY <1>3, <1>6, <1>7, LeastOfFour

\* A content of a component that is alone is nobody else's.
LEMMA OnlyOwn ==
    ASSUME ContentTyped, NEW n \in Names, Alone(n), NEW m \in Names, Had(m, content[n])
    PROVE  m = n
<1>1. SUFFICES ASSUME m # n  PROVE FALSE
  OBVIOUS
<1>2. content[n] # Orig(m) /\ content[n] # content[m]
  BY <1>1 DEF Alone, Orig
<1>3. PICK k \in Nat : k >= 2 /\ content[n] = <<m, k>>
  BY <1>2 DEF Had
<1>4. CASE content[n] = Orig(n)
  BY <1>3, <1>4 DEF Orig
<1>5. CASE \E j \in Nat : j >= 2 /\ content[n] = <<n, j>>
  BY <1>1, <1>3, <1>5
<1> QED
  BY <1>4, <1>5 DEF ContentTyped

LEMMA HasItsContent == ASSUME ContentTyped, NEW n \in Names  PROVE Had(n, content[n])
<1>1. CASE content[n] = Orig(n)
  BY <1>1 DEF Had
<1>2. ASSUME NEW k \in Nat, k >= 2, content[n] = <<n, k>>  PROVE Had(n, content[n])
  <2>1. content[n][2] = k
    BY <1>2
  <2> QED
    BY <1>2, <2>1 DEF Had
<1> QED
  BY <1>1, <1>2 DEF ContentTyped

\* What a reader is told of a component that is alone is what the file says.
LEMMA LoadedAre ==
    ASSUME FileTyped, NEW b \in Loaded
    PROVE  /\ IsAnnotation(b) /\ b.name \in Names /\ content[b.name] = b.content
           /\ \E a \in file : a.content = b.content /\ (b.name = a.name => b = a)
<1>1. PICK a \in file : /\ \E n \in Names : content[n] = a.content
                        /\ b = [a EXCEPT !.name = CHOOSE n \in Names : content[n] = a.content]
  BY DEF Loaded
<1>2. PICK n : n = CHOOSE m \in Names : content[m] = a.content
  OBVIOUS
<1>3. n \in Names /\ content[n] = a.content
  BY <1>1, <1>2, Zenon
<1>4. b = [a EXCEPT !.name = n]
  BY <1>1, <1>2, Zenon
<1>5. a = [name |-> a.name, content |-> a.content, confidence |-> a.confidence,
           tier |-> a.tier, needsReview |-> a.needsReview]
  BY DEF FileTyped, IsAnnotation
<1>6. b = [name |-> n, content |-> a.content, confidence |-> a.confidence,
           tier |-> a.tier, needsReview |-> a.needsReview]
  BY <1>4, <1>5
<1>7. b.name = n /\ b.content = a.content
  BY <1>6
<1>8. IsAnnotation(b)
  BY <1>6 DEF IsAnnotation
<1>9. b.name = a.name => b = a
  BY <1>5, <1>6, <1>7
<1> QED
  BY <1>3, <1>7, <1>8, <1>9

LEMMA LoadedTells ==
    ASSUME ContentTyped, FileTyped, LatestTyped, FileTells, NEW n \in Names, Alone(n)
    PROVE  /\ \A b \in Loaded : b.name = n <=> b.content = content[n]
           /\ {b \in Loaded : b.name = n} = Told(n)
<1>1. \A b \in Loaded : b.name = n <=> b.content = content[n]
  <2> SUFFICES ASSUME NEW b \in Loaded  PROVE b.name = n <=> b.content = content[n]
    OBVIOUS
  <2>1. b.name \in Names /\ content[b.name] = b.content
    BY LoadedAre
  <2>2. b.content = content[n] => b.name = n
    BY <2>1 DEF Alone
  <2> QED
    BY <2>1, <2>2
<1>2. ASSUME NEW b \in Loaded, b.name = n  PROVE b \in Told(n)
  <2>1. PICK a \in file : a.content = b.content /\ (b.name = a.name => b = a)
    BY LoadedAre
  <2>2. a.content = content[n]
    BY <1>1, <1>2, <2>1
  <2>3. a \in Told(n)
    BY <2>2 DEF FileTells
  <2>4. a.name = n
    BY <2>3 DEF Told, LatestTyped, Bounded
  <2> QED
    BY <1>2, <2>1, <2>3, <2>4
<1>3. ASSUME NEW b \in Told(n)  PROVE b \in Loaded /\ b.name = n
  <2>1. b = latest[n] /\ n \in DOMAIN latest /\ b.content = content[n]
    BY <1>3 DEF Told
  <2>2. b \in file
    BY <1>3 DEF FileTells
  <2>3. b.name = n /\ IsAnnotation(b)
    BY <2>1 DEF LatestTyped, Bounded
  <2>4. PICK m : m = CHOOSE k \in Names : content[k] = b.content
    OBVIOUS
  <2>5. m \in Names /\ content[m] = b.content
    BY <2>1, <2>4, Zenon
  <2>6. m = n
    BY <2>1, <2>5 DEF Alone
  <2>7. [b EXCEPT !.name = m] = b
    <3>1. b = [name |-> n, content |-> b.content, confidence |-> b.confidence,
               tier |-> b.tier, needsReview |-> b.needsReview]
      BY <2>3 DEF IsAnnotation
    <3> QED
      BY <2>6, <3>1
  <2>8. [b EXCEPT !.name = CHOOSE k \in Names : content[k] = b.content] \in Loaded
    BY <2>1, <2>2, Zenon DEF Loaded
  <2>9. b \in Loaded
    BY <2>4, <2>7, <2>8
  <2> QED
    BY <2>3, <2>9
<1> QED
  BY <1>1, <1>2, <1>3

\* What is saved: the answers of this pass, and what was there of all others.
LEMMA SaveKeeps ==
    ASSUME KeptInv, SaveAnnotations, org' = org
    PROVE  ContentTyped' /\ FileTyped' /\ LatestTyped' /\ FileTells'
<1>1. /\ content' = content
      /\ file' = Kept \cup {fresh[n] : n \in DOMAIN fresh}
      /\ latest' = [n \in DOMAIN fresh \cup DOMAIN latest |->
                       IF n \in DOMAIN fresh THEN fresh[n] ELSE latest[n]]
  BY DEF SaveAnnotations
<1>2. Names' = Names /\ \A n : Of(n)' = Of(n) /\ Orig(n)' = Orig(n)
  BY SameOrg
<1>3. ContentTyped'
  BY <1>1, <1>2 DEF KeptInv, ContentTyped
<1>4. \A n, c : Had(n, c)' <=> Had(n, c)
  BY <1>1, <1>2 DEF Had
<1>5. \A n \in DOMAIN fresh : /\ n \in Names /\ Bounded(n, fresh[n])
                              /\ fresh[n].name = n /\ IsAnnotation(fresh[n])
                              /\ fresh[n].content = content[n]
  BY DEF KeptInv, PassTyped, Bounded
<1>6. ASSUME NEW n \in DOMAIN fresh  PROVE Had(n, fresh[n].content)
  BY <1>5, HasItsContent DEF KeptInv
<1>7. ASSUME NEW b \in Kept
      PROVE  /\ IsAnnotation(b) /\ b.name \in Names /\ b.name \notin DOMAIN fresh
             /\ content[b.name] = b.content /\ Had(b.name, b.content) /\ b \in Loaded
  <2>1. b \in Loaded /\ b.name \notin DOMAIN fresh
    BY DEF Kept
  <2>2. IsAnnotation(b) /\ b.name \in Names /\ content[b.name] = b.content
    BY <2>1, LoadedAre DEF KeptInv
  <2>3. Had(b.name, content[b.name])
    BY <2>2, HasItsContent DEF KeptInv
  <2> QED
    BY <2>1, <2>2, <2>3
<1>8. FileTyped'
  <2> SUFFICES ASSUME NEW a \in file'
               PROVE  IsAnnotation(a) /\ a.name \in Names /\ Had(a.name, a.content)
    BY <1>2, <1>4 DEF FileTyped
  <2>1. CASE a \in Kept
    BY <1>7, <2>1
  <2>2. CASE \E n \in DOMAIN fresh : a = fresh[n]
    BY <1>5, <1>6, <2>2
  <2> QED
    BY <1>1, <2>1, <2>2
<1>9. LatestTyped'
  <2>1. DOMAIN latest' = DOMAIN fresh \cup DOMAIN latest
    BY <1>1
  <2>2. DOMAIN latest' \subseteq Names
    BY <1>5, <2>1 DEF KeptInv, LatestTyped
  <2>3. ASSUME NEW n \in DOMAIN latest'
        PROVE  Bounded(n, latest'[n]) /\ Had(n, latest'[n].content)
    <3>1. CASE n \in DOMAIN fresh
      <4>1. latest'[n] = fresh[n]
        BY <1>1, <3>1
      <4> QED
        BY <1>5, <1>6, <3>1, <4>1
    <3>2. CASE n \notin DOMAIN fresh
      <4>1. n \in DOMAIN latest /\ latest'[n] = latest[n]
        BY <1>1, <2>1, <3>2
      <4> QED
        BY <4>1 DEF KeptInv, LatestTyped
    <3> QED
      BY <3>1, <3>2
  <2>4. \A n, a : Bounded(n, a)' <=> Bounded(n, a)
    BY <1>2 DEF Bounded
  <2> QED
    BY <1>2, <1>4, <2>2, <2>3, <2>4 DEF LatestTyped
<1>10. FileTells'
  <2> SUFFICES ASSUME NEW n \in Names, Alone(n)
               PROVE  {a \in file' : a.content = content[n]} = Told(n)'
    <3>1. \A n \in Names : Alone(n)' <=> Alone(n)
      BY <1>1, <1>2 DEF Alone
    <3> QED
      BY <1>1, <1>2, <3>1 DEF FileTells
  <2>1. /\ \A b \in Loaded : b.name = n <=> b.content = content[n]
        /\ {b \in Loaded : b.name = n} = Told(n)
    BY LoadedTells DEF KeptInv
  <2>2. \A m \in DOMAIN fresh : fresh[m].content = content[n] <=> m = n
    BY <1>5 DEF Alone
  <2>3. CASE n \in DOMAIN fresh
    <3>1. Told(n)' = {fresh[n]}
      BY <1>1, <1>5, <2>3 DEF Told
    <3>2. fresh[n] \in file' /\ fresh[n].content = content[n]
      BY <1>1, <1>5, <2>3
    <3>3. ASSUME NEW a \in file', a.content = content[n]  PROVE a = fresh[n]
      <4>1. a \notin Kept
        BY <1>7, <2>1, <2>3, <3>3
      <4>2. PICK m \in DOMAIN fresh : a = fresh[m]
        BY <1>1, <4>1
      <4> QED
        BY <2>2, <3>3, <4>2
    <3> QED
      BY <3>1, <3>2, <3>3
  <2>4. CASE n \notin DOMAIN fresh
    <3>1. Told(n)' = Told(n)
      BY <1>1, <2>4 DEF Told
    <3>2. ASSUME NEW a \in file', a.content = content[n]  PROVE a \in Told(n)
      <4>1. a \in Kept
        BY <1>1, <2>2, <2>4, <3>2
      <4> QED
        BY <1>7, <2>1, <3>2, <4>1
    <3>3. ASSUME NEW a \in Told(n)  PROVE a \in file' /\ a.content = content[n]
      <4>1. a \in Loaded /\ a.name = n
        BY <2>1, <3>3
      <4>2. a \in Kept
        BY <2>4, <4>1 DEF Kept
      <4> QED
        BY <1>1, <2>1, <4>1, <4>2
    <3> QED
      BY <3>1, <3>2, <3>3
  <2> QED
    BY <2>3, <2>4
<1> QED
  BY <1>3, <1>8, <1>9, <1>10

\* A component that changed has a content the file knows nothing of; nobody
\* else's is shared or freed by it.
LEMMA ChangeKeeps ==
    ASSUME KeptInv, NEW n \in DOMAIN latest, Change(n), org' = org
    PROVE  ContentTyped' /\ FileTyped' /\ LatestTyped' /\ PassTyped' /\ FileTells'
<1>1. /\ content' = [content EXCEPT ![n] = <<n, @[2] + 1>>]
      /\ file' = file /\ latest' = latest /\ stage = "idle" /\ stage' = stage
      /\ job' = job /\ fresh' = fresh
  BY DEF Change, commandVars
<1>2. Names' = Names /\ \A m : Of(m)' = Of(m) /\ Orig(m)' = Orig(m)
  BY SameOrg
<1>3. n \in Names /\ DOMAIN content = Names
  BY DEF KeptInv, LatestTyped, ContentTyped
<1>4. PICK k \in Nat : content[n][2] = k /\ k >= 1
  <2>1. CASE content[n] = Orig(n)
    <3>1. content[n][2] = 1
      BY <2>1 DEF Orig
    <3> QED
      BY <3>1
  <2>2. ASSUME NEW j \in Nat, j >= 2, content[n] = <<n, j>>  PROVE content[n][2] \in Nat /\ content[n][2] >= 1
    <3>1. content[n][2] = j
      BY <2>2
    <3> QED
      BY <2>2, <3>1
  <2> QED
    BY <1>3, <2>1, <2>2 DEF KeptInv, ContentTyped
<1>5. /\ content'[n] = <<n, k + 1>> /\ content'[n][2] = k + 1
      /\ DOMAIN content' = Names
      /\ \A m \in Names \ {n} : content'[m] = content[m]
  BY <1>1, <1>3, <1>4
<1>6. ContentTyped'
  <2>1. content' = [m \in Names |-> content'[m]]
    BY <1>1, <1>3, <1>5
  <2>2. ASSUME NEW m \in Names
        PROVE  content'[m] = Orig(m) \/ \E j \in Nat : j >= 2 /\ content'[m] = <<m, j>>
    <3>1. CASE m = n
      <4>1. k + 1 \in Nat /\ k + 1 >= 2
        BY <1>4
      <4> QED
        BY <1>5, <3>1, <4>1
    <3>2. CASE m # n
      BY <1>5, <3>2 DEF KeptInv, ContentTyped
    <3> QED
      BY <3>1, <3>2
  <2> QED
    BY <1>2, <1>5, <2>1, <2>2 DEF ContentTyped
<1>7. ASSUME NEW m \in Names, NEW c, Had(m, c)  PROVE Had(m, c)'
  <2>1. CASE c = Orig(m)
    BY <1>2, <2>1 DEF Had
  <2>2. ASSUME NEW j \in Nat, j >= 2, c = <<m, j>>, j <= content[m][2]  PROVE Had(m, c)'
    <3>1. j <= content'[m][2]
      <4>1. CASE m = n
        BY <1>4, <1>5, <2>2, <4>1
      <4>2. CASE m # n
        BY <1>5, <2>2, <4>2
      <4> QED
        BY <4>1, <4>2
    <3> QED
      BY <2>2, <3>1 DEF Had
  <2> QED
    BY <1>7, <2>1, <2>2 DEF Had
<1>8. FileTyped'
  BY <1>1, <1>2, <1>7 DEF KeptInv, FileTyped
<1>9. LatestTyped'
  <2>1. \A m, a : Bounded(m, a)' <=> Bounded(m, a)
    BY <1>2 DEF Bounded
  <2> QED
    BY <1>1, <1>2, <1>7, <2>1 DEF KeptInv, LatestTyped
<1>10. PassTyped'
  BY <1>1 DEF KeptInv, PassTyped
<1>11. ASSUME NEW m \in Names, Had(m, <<n, k + 1>>)  PROVE m # n /\ <<n, k + 1>> = Orig(m)
  <2>1. CASE <<n, k + 1>> = Orig(m)
    BY <1>4, <2>1 DEF Orig
  <2>2. ASSUME NEW j \in Nat, <<n, k + 1>> = <<m, j>>, j <= content[m][2]  PROVE FALSE
    <3>1. m = n /\ j = k + 1
      BY <2>2
    <3> QED
      BY <1>4, <2>2, <3>1
  <2> QED
    BY <1>11, <2>1, <2>2 DEF Had
<1>12. FileTells'
  <2> SUFFICES ASSUME NEW m \in Names, Alone(m)'
               PROVE  {a \in file : a.content = content'[m]} = Told(m)'
    BY <1>1, <1>2 DEF FileTells
  <2>1. \A o \in Names \ {m} : content'[m] # content'[o] /\ content'[m] # Orig(o)
    BY <1>2 DEF Alone, Orig
  <2>2. CASE m = n
    <3>1. ASSUME NEW a \in file  PROVE a.content # content'[n]
      <4>1. a.name \in Names /\ Had(a.name, a.content)
        BY DEF KeptInv, FileTyped
      <4> QED
        BY <1>5, <1>11, <2>1, <2>2, <4>1
    <3>2. latest[n].content # content'[n]
      <4>1. Had(n, latest[n].content)
        BY DEF KeptInv, LatestTyped
      <4> QED
        BY <1>3, <1>5, <1>11, <4>1
    <3> QED
      BY <1>1, <2>2, <3>1, <3>2 DEF Told
  <2>3. CASE m # n
    <3>1. content'[m] = content[m]
      BY <1>5, <2>3
    <3>2. content[m] # content[n]
      <4>1. content[m] # Orig(n)
        BY <1>3, <2>1, <2>3, <3>1
      <4>2. ASSUME NEW j \in Nat, j >= 2, content[n] = <<n, j>>  PROVE content[m] # content[n]
        <5>1. CASE content[m] = Orig(m)
          BY <4>2, <5>1 DEF Orig
        <5>2. CASE \E i \in Nat : i >= 2 /\ content[m] = <<m, i>>
          BY <2>3, <4>2, <5>2
        <5> QED
          BY <5>1, <5>2 DEF KeptInv, ContentTyped
      <4> QED
        BY <1>3, <4>1, <4>2 DEF KeptInv, ContentTyped
    <3>3. Alone(m)
      <4> SUFFICES ASSUME NEW o \in Names \ {m}
                   PROVE  content[m] # content[o] /\ content[m] # Orig(o)
        BY DEF Alone, Orig
      <4>1. content[m] # Orig(o)
        BY <2>1, <3>1
      <4>2. CASE o = n
        BY <3>2, <4>1, <4>2
      <4>3. CASE o # n
        BY <1>5, <2>1, <3>1, <4>1, <4>3
      <4> QED
        BY <4>2, <4>3
    <3>4. {a \in file : a.content = content[m]} = Told(m)
      BY <3>3 DEF KeptInv, FileTells
    <3>5. Told(m)' = Told(m)
      BY <1>1, <3>1 DEF Told
    <3> QED
      BY <3>1, <3>4, <3>5
  <2> QED
    BY <2>2, <2>3
<1> QED
  BY <1>6, <1>8, <1>9, <1>10, <1>12

\* A fresh answer is about the component it was asked of, and no surer than what
\* the component shows.
LEMMA FreshGrows ==
    ASSUME KeptInv, stage = "components", org' = org, NEW j \in DOMAIN job,
           NEW confidence, NEW tier, confidence <= VisibleOf(Of(j[2])),
           fresh' = With(fresh, j[2], Annotation(j[2], confidence, tier)),
           stage' = stage, content' = content, DOMAIN job' = DOMAIN job
    PROVE  PassTyped'
<1>1. PICK n : n = j[2]
  OBVIOUS
<1>2. PICK a : a = Annotation(n, confidence, tier)
  OBVIOUS
<1>3. n \in Names /\ Bounded(n, a) /\ a.content = content[n]
  <2>1. n \in Names
    BY <1>1 DEF KeptInv, PassTyped
  <2>2. a = [name |-> n, content |-> content[n], confidence |-> confidence,
             tier |-> tier, needsReview |-> tier # TierHint(Of(n))]
    BY <1>2 DEF Annotation
  <2> QED
    BY <1>1, <2>1, <2>2 DEF Bounded, IsAnnotation
<1>4. fresh' = [m \in DOMAIN fresh \cup {n} |-> IF m = n THEN a ELSE fresh[m]]
  BY <1>1, <1>2 DEF With
<1>5. \A m, b : Bounded(m, b)' <=> Bounded(m, b)
  BY SameOrg DEF Bounded
<1>6. DOMAIN fresh' \subseteq Names
  BY <1>3, <1>4 DEF KeptInv, PassTyped
<1>7. ASSUME NEW m \in DOMAIN fresh'
      PROVE  Bounded(m, fresh'[m]) /\ fresh'[m].content = content[m]
  <2>1. CASE m = n
    <3>1. fresh'[m] = a
      BY <1>4, <2>1
    <3> QED
      BY <1>3, <2>1, <3>1
  <2>2. CASE m # n
    <3>1. m \in DOMAIN fresh /\ fresh'[m] = fresh[m]
      BY <1>4, <2>2
    <3> QED
      BY <3>1 DEF KeptInv, PassTyped
  <2> QED
    BY <2>1, <2>2
<1>8. \A i \in DOMAIN job' : i[2] \in Names
  BY DEF KeptInv, PassTyped
<1> QED
  BY <1>5, <1>6, <1>7, <1>8, SameOrg DEF PassTyped

\* Whatever leaves the file, the contents and the answers alone keeps the rest.
LEMMA QuietKeeps ==
    ASSUME KeptInv, org' = org, UNCHANGED <<content, file, latest>>
    PROVE  /\ ContentTyped' /\ FileTyped' /\ LatestTyped' /\ FileTells'
           /\ UNCHANGED <<stage, fresh>> /\ DOMAIN job' = DOMAIN job => PassTyped'
           /\ DOMAIN fresh' = {} /\ DOMAIN job' = {} => PassTyped'
<1>1. Names' = Names /\ \A n : Of(n)' = Of(n) /\ Orig(n)' = Orig(n)
  BY SameOrg
<1>2. (\A n, c : Had(n, c)' <=> Had(n, c)) /\ (\A n, a : Bounded(n, a)' <=> Bounded(n, a))
  BY <1>1 DEF Had, Bounded
<1>3. ContentTyped' /\ FileTyped' /\ LatestTyped'
  BY <1>1, <1>2 DEF KeptInv, ContentTyped, FileTyped, LatestTyped
<1>4. FileTells'
  <2>1. \A n \in Names : (Alone(n)' <=> Alone(n)) /\ Told(n)' = Told(n)
    BY <1>1 DEF Alone, Told
  <2> QED
    BY <1>1, <2>1 DEF KeptInv, FileTells
<1>5. UNCHANGED <<stage, fresh>> /\ DOMAIN job' = DOMAIN job => PassTyped'
  BY <1>1, <1>2 DEF KeptInv, PassTyped
<1>6. DOMAIN fresh' = {} /\ DOMAIN job' = {} => PassTyped'
  BY DEF PassTyped
<1> QED
  BY <1>3, <1>4, <1>5, <1>6

LEMMA EndedEmpties == ASSUME Ended  PROVE DOMAIN fresh' = {} /\ DOMAIN job' = {}
<1>1. fresh' = <<>> /\ job' = <<>>
  BY DEF Ended
<1>2. DOMAIN <<>> = {}
  OBVIOUS
<1> QED
  BY <1>1, <1>2

LEMMA TaskKeeps ==
    ASSUME KeptInv, NEW j \in DOMAIN job, Task(j), org' = org
    PROVE  ContentTyped' /\ FileTyped' /\ LatestTyped' /\ PassTyped' /\ FileTells'
<1>1. UNCHANGED <<content, file, latest, stage>>
  BY DEF Task, Start, Wait, Wake, Answer, Unparseable, Skip, savedVars
<1>2. DOMAIN job' = DOMAIN job
  BY DEF Task, Start, Wait, Wake, Answer, Unparseable, Retried, Skip, Send
<1>3. ContentTyped' /\ FileTyped' /\ LatestTyped' /\ FileTells'
  BY <1>1, QuietKeeps
<1>4. CASE fresh' = fresh
  BY <1>1, <1>2, <1>4, QuietKeeps
<1>5. CASE Wait(j) \/ Wake(j) \/ Unparseable(j) \/ Skip(j)
  BY <1>4, <1>5 DEF Wait, Wake, Unparseable, Skip
<1>6. CASE Start(j)
  <2>1. CASE stage = "components" /\ Deterministic(Of(j[2]))
    <3>1. fresh' = With(fresh, j[2], Annotation(j[2], 100, "tier1_rules"))
      BY <1>6, <2>1 DEF Start
    <3>2. Of(j[2]) \in org.components
      <4>1. PICK c \in org.components : c.name = j[2]
        BY <2>1 DEF KeptInv, PassTyped, Names
      <4>2. Comp(c) = <<"component", j[2]>>
        BY <4>1 DEF Comp
      <4> QED
        BY <4>2, Zenon DEF Of, Source
    <3>3. 100 <= VisibleOf(Of(j[2]))
      BY <2>1, <3>2, AnnotateAssumption DEF KeptInv, VisibleOf
    <3> QED
      BY <1>1, <1>2, <1>3, <2>1, <3>1, <3>3, FreshGrows
  <2>2. CASE ~(stage = "components" /\ Deterministic(Of(j[2])))
    BY <1>4, <1>6, <2>2 DEF Start
  <2> QED
    BY <2>1, <2>2
<1>7. CASE Answer(j)
  <2>1. CASE stage = "components"
    <3>1. PICK a \in Answers :
              fresh' = With(fresh, j[2], Annotation(j[2], Earned(Of(j[2]), a), TierOf(j[2], a)))
      BY <1>7, <2>1 DEF Answer
    <3>2. Earned(Of(j[2]), a) <= VisibleOf(Of(j[2]))
      BY EarnedBounded
    <3> QED
      BY <1>1, <1>2, <1>3, <2>1, <3>1, <3>2, FreshGrows
  <2>2. CASE stage # "components"
    BY <1>4, <1>7, <2>2 DEF Answer
  <2> QED
    BY <2>1, <2>2
<1> QED
  BY <1>5, <1>6, <1>7 DEF Task

LEMMA BeginKeeps ==
    ASSUME KeptInv, NEW f \in Filters, NEW surfaces \in BOOLEAN, Begin(f, surfaces), org' = org
    PROVE  ContentTyped' /\ FileTyped' /\ LatestTyped' /\ PassTyped' /\ FileTells'
<1>1. UNCHANGED <<content, file, latest, fresh>> /\ stage = "idle" /\ stage' = "components"
  BY DEF Begin, Gather
<1>2. ContentTyped' /\ FileTyped' /\ LatestTyped' /\ FileTells'
  BY <1>1, QuietKeeps
<1>3. PICK asked : asked = {m \in f \cap Names : surfaces \/ Of(m).category \notin Surface}
  OBVIOUS
<1>4. job' = [j \in {<<"component", n>> : n \in asked} |-> "waiting"]
  BY <1>3 DEF Begin, Gather
<1>5. \A j \in DOMAIN job' : j[2] \in Names
  BY <1>3, <1>4
<1>6. DOMAIN fresh = {}
  BY <1>1 DEF KeptInv, PassTyped
<1>7. PassTyped'
  BY <1>1, <1>5, <1>6, SameOrg DEF PassTyped
<1> QED
  BY <1>2, <1>7

LEMMA SaveKeepsAll ==
    ASSUME KeptInv, SaveAnnotations, org' = org
    PROVE  ContentTyped' /\ FileTyped' /\ LatestTyped' /\ PassTyped' /\ FileTells'
<1>1. ContentTyped' /\ FileTyped' /\ LatestTyped' /\ FileTells'
  BY SaveKeeps
<1>2. CASE Ended
  <2>1. DOMAIN fresh' = {} /\ DOMAIN job' = {}
    BY <1>2, EndedEmpties
  <2> QED
    BY <1>1, <2>1 DEF PassTyped
<1>3. CASE stage' = "processes" /\ fresh' = fresh /\ content' = content
  <2>1. \A n, a : Bounded(n, a)' <=> Bounded(n, a)
    BY SameOrg DEF Bounded
  <2> QED
    BY <1>1, <1>3, <2>1, SameOrg DEF KeptInv, PassTyped
<1> QED
  BY <1>1, <1>2, <1>3 DEF SaveAnnotations, Gather

LEMMA KeptStep == ASSUME KeptInv, [CommandNext]_<<impactVars, passVars>>  PROVE KeptInv'
<1>1. org' = org
  BY OrgStays
<1>2. SUFFICES ContentTyped' /\ FileTyped' /\ LatestTyped' /\ PassTyped' /\ FileTells'
  BY <1>1 DEF KeptInv
<1>3. CASE UNCHANGED passVars
  BY <1>1, <1>3, QuietKeeps DEF passVars, commandVars, savedVars
<1>4. CASE PassNext
  <2>1. ASSUME NEW f \in Filters, NEW surfaces \in BOOLEAN, Begin(f, surfaces)
        PROVE  ContentTyped' /\ FileTyped' /\ LatestTyped' /\ PassTyped' /\ FileTells'
    BY <1>1, <2>1, BeginKeeps
  <2>2. ASSUME NEW j \in DOMAIN job, Task(j)
        PROVE  ContentTyped' /\ FileTyped' /\ LatestTyped' /\ PassTyped' /\ FileTells'
    BY <1>1, <2>2, TaskKeeps
  <2>3. CASE Tick
    BY <1>1, <2>3, QuietKeeps DEF Tick, savedVars
  <2>4. CASE SaveAnnotations
    BY <1>1, <2>4, SaveKeepsAll
  <2>5. CASE SaveStories \/ Kill
    BY <1>1, <2>5, QuietKeeps, EndedEmpties DEF SaveStories, Kill
  <2>6. ASSUME NEW n \in DOMAIN latest, Change(n)
        PROVE  ContentTyped' /\ FileTyped' /\ LatestTyped' /\ PassTyped' /\ FileTells'
    BY <1>1, <2>6, ChangeKeeps
  <2>7. CASE Rest
    BY <1>3, <2>7 DEF Rest
  <2> QED
    BY <1>4, <2>1, <2>2, <2>3, <2>4, <2>5, <2>6, <2>7 DEF PassNext
<1> QED
  BY <1>3, <1>4 DEF CommandNext

LEMMA KeptFromTheStart == ASSUME CommandInit  PROVE KeptInv
<1>1. org \in Orgs
  BY DEF CommandInit, Init, InitGraph
<1>2. /\ content = [n \in Names |-> Orig(n)] /\ file = {} /\ latest = <<>>
      /\ job = <<>> /\ fresh = <<>>
  BY DEF CommandInit, PassInit, Orig
<1>3. DOMAIN latest = {} /\ DOMAIN job = {} /\ DOMAIN fresh = {}
  BY <1>2
<1>4. ContentTyped
  BY <1>2 DEF ContentTyped
<1>5. FileTyped /\ LatestTyped /\ PassTyped
  BY <1>2, <1>3 DEF FileTyped, LatestTyped, PassTyped, CommandInit, PassInit
<1>6. FileTells
  BY <1>2, <1>3 DEF FileTells, Told
<1> QED
  BY <1>1, <1>4, <1>5, <1>6 DEF KeptInv

\* Whatever is skipped, killed or changed between two commands, for any org and any
\* answers, a reader of annotations.json is told the last saved answer about a
\* component's present content and no other, and never surer than what Salesforce
\* shows of it (_merge_existing, load_annotations, _earned_confidence).
THEOREM AnnotationsAreKept == Commands => []AnnotationsKept
<1>1. CommandInit => KeptInv
  BY KeptFromTheStart
<1>2. KeptInv /\ [CommandNext]_<<impactVars, passVars>> => KeptInv'
  BY KeptStep
<1>3. KeptInv => AnnotationsKept
  <2> SUFFICES ASSUME KeptInv, NEW n \in Names, Alone(n)
               PROVE  LET shown == {a \in Loaded : a.name = n} IN
                      /\ shown = Told(n)
                      /\ \A a \in shown : a.confidence <= VisibleOf(Of(n))
    BY DEF AnnotationsKept, Told
  <2>1. {a \in Loaded : a.name = n} = Told(n)
    BY LoadedTells DEF KeptInv
  <2>2. \A a \in Told(n) : a.confidence <= VisibleOf(Of(n))
    BY DEF Told, KeptInv, LatestTyped, Bounded
  <2> QED
    BY <2>1, <2>2
<1> QED
  BY <1>1, <1>2, <1>3, PTL DEF Commands
=============================================================================
