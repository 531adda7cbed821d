---------------------------- MODULE ShadowProofs ----------------------------
(***************************************************************************)
(* Theorems about ShadowMode, for every number of subscribers, records,    *)
(* fields, values, changes, crashes and resyncs.                           *)
(*                                                                         *)
(* The two properties hold when each channel has one subscriber, as the    *)
(* chart of the Deployment says ("partition by object",                    *)
(* infra/helm/offramp/values.yaml).  The theorems name that hypothesis,    *)
(* and the type invariant does without it.                                 *)
(***************************************************************************)
EXTENDS ShadowMode, FoldLemmas

------------------------------------------------------------------------------
(* The type invariant, and where a subscriber can be in the log.            *)

Rows == RowOf \cup {Absent}
Found == Full \cup {Absent}
SubState == [pc: Pc, next: Nat \ {0}, pre: RowOf, view: RowOf, diverged: BOOLEAN]
Fetches == {NoFetch} \cup [active: {TRUE}, record: Record, row: Found, at: Nat]
Resyncs == {Never} \cup [at: Nat, row: Found]
Counts == [1..MaxChanges -> Nat]

TypeOK ==
    /\ prod \in [Record -> Found]
    /\ log \in Seq(Event) /\ Len(log) <= MaxChanges
    /\ shadow \in [Record -> Rows]
    /\ anchors \in Counts /\ rows \in Counts /\ scored \in Counts
    /\ flagged \in SUBSET (1..Len(log)) /\ checkpoint \in 0..Len(log)
    /\ sub \in [Subscriber -> SubState]
    /\ fetch \in Fetches /\ resynced \in [Record -> Resyncs]
    /\ crashes \in Nat /\ resyncs \in Nat

Busy(w) == sub[w].pc \notin {"down", "idle"}
Places ==
    \A w \in Subscriber :
        /\ sub[w].next <= Len(log) + 1
        /\ Busy(w) => Pending(w) # {}

\* What a subscriber between the first and the last await of an event knows.
HereOK(w) ==
    /\ At(w) \in 1..Len(log) /\ At(w) >= sub[w].next
    /\ log[At(w)] \in Event /\ log[At(w)].record \in Topics[w]

------------------------------------------------------------------------------
(* The event a subscriber is at.                                            *)

\* At(w) is the first of the events still to come for w.
LEMMA AtIsFirst ==
    ASSUME TypeOK, NEW w \in Subscriber, Pending(w) # {}
    PROVE  /\ At(w) \in Pending(w)
           /\ \A j \in Pending(w) : At(w) <= j
<1>1. Pending(w) \subseteq Nat
  BY DEF TypeOK, SubState, Pending
<1>2. \E m \in Pending(w) : \A j \in Pending(w) : m <= j
  BY <1>1, LeastElement
<1> QED
  BY <1>2 DEF At

LEMMA AtIsHere ==
    ASSUME TypeOK, NEW w \in Subscriber, Pending(w) # {}
    PROVE  HereOK(w)
<1>1. At(w) \in Pending(w)
  BY AtIsFirst
<1>2. sub[w].next \in Nat \ {0} /\ log \in Seq(Event)
  BY DEF TypeOK, SubState
<1> QED
  BY <1>1, <1>2 DEF Pending, HereOK

\* The log only grows, so a subscriber that does not move on stays at its event.
Grows == \/ log' = log
         \/ \E e \in Event : log' = Append(log, e)

LEMMA LogKeeps ==
    ASSUME TypeOK, Grows
    PROVE  /\ Len(log) \in Nat /\ Len(log') \in {Len(log), Len(log) + 1}
           /\ \A i \in 1..Len(log) : i \in 1..Len(log') /\ log'[i] = log[i]
<1>1. log \in Seq(Event) /\ Len(log) \in Nat
  BY DEF TypeOK
<1>2. CASE log' = log
  BY <1>1, <1>2
<1>3. ASSUME NEW e \in Event, log' = Append(log, e)
      PROVE  /\ Len(log') = Len(log) + 1
             /\ \A i \in 1..Len(log) : i \in 1..Len(log') /\ log'[i] = log[i]
  BY <1>1, <1>3
<1> QED
  BY <1>1, <1>2, <1>3 DEF Grows

LEMMA AtStays ==
    ASSUME TypeOK, TypeOK', Grows, NEW w \in Subscriber, Pending(w) # {},
           sub'[w].next = sub[w].next
    PROVE  Pending(w)' # {} /\ At(w)' = At(w)
<1>1. At(w) \in Pending(w) /\ \A j \in Pending(w) : At(w) <= j
  BY AtIsFirst
<1>2. sub[w].next \in Nat \ {0} /\ log \in Seq(Event) /\ Len(log) \in Nat
  BY DEF TypeOK, SubState
<1>3. Pending(w) \subseteq Pending(w)'
  BY <1>2 DEF Pending, Grows
<1>4. \A j \in Pending(w)' : j \in Pending(w) \/ j = Len(log) + 1
  BY <1>2 DEF Pending, Grows
<1>5. Pending(w)' # {}
  BY <1>1, <1>3
<1>6. At(w)' \in Pending(w)' /\ \A j \in Pending(w)' : At(w)' <= j
  <2>1. Pending(w)' \subseteq Nat
    BY DEF TypeOK, SubState, Pending
  <2>2. \E m \in Pending(w)' : \A j \in Pending(w)' : m <= j
    BY <1>5, <2>1, LeastElement
  <2> QED
    BY <2>2 DEF At
<1>7. At(w) <= Len(log) /\ At(w) \in Nat
  BY <1>1, <1>2 DEF Pending
<1>8. At(w)' \in Nat
  BY <1>6, <1>2, <1>4, <1>7 DEF Pending
<1>9. At(w)' <= At(w)
  BY <1>1, <1>3, <1>6
<1>10. At(w) <= At(w)'
  BY <1>1, <1>2, <1>4, <1>6, <1>7
<1> QED
  BY <1>5, <1>7, <1>8, <1>9, <1>10

------------------------------------------------------------------------------
(* The type invariant is inductive together with Places.                    *)

Worker(w) == Step(w) \/ Crash(w)

\* A step of a subscriber changes the state of no other one.
LEMMA OthersStay ==
    ASSUME TypeOK, NEW w \in Subscriber, Worker(w)
    PROVE  /\ UNCHANGED <<log, prod, fetch, resynced, resyncs>>
           /\ \A v \in Subscriber \ {w} : sub'[v] = sub[v]
<1> USE DEF Worker, Step, TypeOK, store
<1>1. CASE Start(w) \/ Crash(w)
  BY <1>1 DEF Start, Crash
<1>2. CASE ReadShadow(w)
  BY <1>2 DEF ReadShadow
<1>3. CASE ReadProduction(w)
  BY <1>3 DEF ReadProduction
<1>4. CASE Execute(w)
  BY <1>4 DEF Execute
<1>5. CASE InsertDivergence(w)
  BY <1>5 DEF InsertDivergence
<1>6. CASE InsertReadiness(w)
  BY <1>6 DEF InsertReadiness
<1>7. CASE UpdateReplayState(w)
  BY <1>7 DEF UpdateReplayState
<1>8. CASE ApplyToShadow(w)
  BY <1>8 DEF ApplyToShadow
<1> QED
  BY <1>1, <1>2, <1>3, <1>4, <1>5, <1>6, <1>7, <1>8

\* The views an event may be judged by are rows.
LEMMA ViewsAreRows ==
    ASSUME TypeOK, NEW w \in Subscriber, HereOK(w),
           NEW view \in RuntimeViews(CdcPostState(w))
    PROVE  view \in RowOf
<1>1. Ev(w).fields \in RowOf /\ sub[w].pre \in RowOf
  BY DEF TypeOK, SubState, HereOK, Ev, Event
<1>2. CdcPostState(w) \in RowOf
  BY <1>1 DEF CdcPostState, RowOf
<1> QED
  BY <1>2, ShadowAssumption DEF RuntimeViews, RowOf

\* The states of a subscriber that has no event.
Rested(n) == [Down EXCEPT !.pc = "idle", !.next = n]

LEMMA RestedStates ==
    ASSUME NEW n \in Nat \ {0}
    PROVE  /\ AllNull \in RowOf
           /\ Down \in SubState /\ Down.pc = "down" /\ Down.next = 1
           /\ [Down EXCEPT !.pc = "idle"] \in SubState
           /\ [Down EXCEPT !.pc = "idle"].pc = "idle" /\ [Down EXCEPT !.pc = "idle"].next = 1
           /\ Rested(n) \in SubState /\ Rested(n).pc = "idle" /\ Rested(n).next = n
<1>1. AllNull \in RowOf
  BY DEF AllNull, RowOf, Null
<1>2. Down \in SubState /\ Down.pc = "down" /\ Down.next = 1
  BY <1>1 DEF Down, SubState, Pc
<1>3. /\ [Down EXCEPT !.pc = "idle"] \in SubState
      /\ [Down EXCEPT !.pc = "idle"].pc = "idle" /\ [Down EXCEPT !.pc = "idle"].next = 1
  BY <1>2 DEF SubState, Pc
<1>4. Rested(n) \in SubState /\ Rested(n).pc = "idle" /\ Rested(n).next = n
  BY <1>2 DEF Rested, SubState, Pc
<1> QED
  BY <1>1, <1>2, <1>3, <1>4, Zenon

\* What each step makes of its own subscriber.
LEMMA OwnState ==
    ASSUME TypeOK, Places, NEW w \in Subscriber, Worker(w)
    PROVE  sub' \in [Subscriber -> SubState]
<1>0. sub \in [Subscriber -> SubState] /\ sub[w] \in SubState
  BY DEF TypeOK
<1>1. AllNull \in RowOf /\ Down \in SubState /\ [Down EXCEPT !.pc = "idle"] \in SubState
  <2>1. 1 \in Nat \ {0}
    OBVIOUS
  <2> QED
    BY <2>1, RestedStates, Zenon
<1>2. CASE Start(w) \/ Crash(w)
  BY <1>0, <1>1, <1>2 DEF Start, Crash
<1>3. CASE ReadShadow(w)
  <2>1. HereOK(w) /\ Ev(w).record \in Record
    BY <1>3, AtIsHere DEF ReadShadow, HereOK, Ev, Event
  <2>2. shadow[Ev(w).record] \in Rows
    BY <2>1 DEF TypeOK
  <2>3. PICK pc \in Pc, pre \in RowOf :
            sub' = [sub EXCEPT ![w].pc = pc, ![w].pre = pre]
    BY <1>1, <1>3, <2>2 DEF ReadShadow, Rows, Pc
  <2> QED
    BY <1>0, <2>3 DEF SubState
<1>4. CASE ReadProduction(w)
  <2>1. HereOK(w) /\ Ev(w).record \in Record
    BY <1>4, AtIsHere DEF ReadProduction, Places, Busy, HereOK, Ev, Event
  <2>2. prod[Ev(w).record] # Absent => prod[Ev(w).record] \in RowOf
    BY <2>1 DEF TypeOK, Found, Full, RowOf
  <2>3. PICK pc \in Pc, pre \in RowOf :
            sub' = [sub EXCEPT ![w].pc = pc, ![w].pre = pre]
    BY <1>1, <1>4, <2>2 DEF ReadProduction, Pc
  <2> QED
    BY <1>0, <2>3 DEF SubState
<1>5. CASE Execute(w)
  <2>1. HereOK(w)
    BY <1>5, AtIsHere DEF Execute, Places, Busy
  <2>2. PICK view \in RowOf, diverged \in BOOLEAN :
            sub' = [sub EXCEPT ![w].pc = "anchored", ![w].pre = AllNull, ![w].view = view,
                               ![w].diverged = diverged]
    <3>1. PICK view \in RuntimeViews(CdcPostState(w)), aborted \in BOOLEAN :
              sub' = [sub EXCEPT ![w].pc = "anchored", ![w].pre = AllNull, ![w].view = view,
                                 ![w].diverged = Diverges(Ev(w), CdcPostState(w), view, aborted)]
      BY <1>5 DEF Execute
    <3>2. view \in RowOf
      BY <2>1, ViewsAreRows
    <3>3. Diverges(Ev(w), CdcPostState(w), view, aborted) \in BOOLEAN
      BY DEF Diverges
    <3> QED
      BY <3>1, <3>2, <3>3
  <2> QED
    BY <1>0, <1>1, <2>2 DEF SubState, Pc
<1>6. CASE InsertDivergence(w)
  BY <1>0, <1>6 DEF InsertDivergence, SubState, Pc
<1>7. CASE InsertReadiness(w)
  BY <1>0, <1>7 DEF InsertReadiness, SubState, Pc
<1>8. CASE UpdateReplayState(w)
  BY <1>0, <1>8 DEF UpdateReplayState, SubState, Pc
<1>9. CASE ApplyToShadow(w)
  <2>1. At(w) \in Nat
    BY <1>9, AtIsHere DEF ApplyToShadow, Places, Busy, HereOK
  <2>2. Rested(At(w) + 1) \in SubState
    <3>1. At(w) + 1 \in Nat \ {0}
      BY <2>1
    <3> QED
      BY <3>1, RestedStates, Zenon
  <2> QED
    BY <1>0, <1>9, <2>2 DEF ApplyToShadow, Rested
<1> QED
  BY <1>2, <1>3, <1>4, <1>5, <1>6, <1>7, <1>8, <1>9 DEF Worker, Step

\* Production only adds to the log.
LEMMA PublishedEvents ==
    ASSUME TypeOK, NEW r \in Record, Change(r) \/ Delete(r) \/ Gap(r)
    PROVE  \E new \in Found, type \in ChangeType, fields \in RowOf :
              Publish(r, new, type, fields)
<1>1. prod[r] \in Found
  BY DEF TypeOK
<1>2. AllNull \in RowOf
  BY DEF AllNull, RowOf, Null
<1>3. CASE Change(r)
  <2>1. PICK new \in Full :
            Publish(r, new, IF prod[r] = Absent THEN "CREATE" ELSE "UPDATE",
                    Payload(prod[r], new))
    BY <1>3 DEF Change
  <2>2. Payload(prod[r], new) \in RowOf
    BY DEF Payload, RowOf, Full, Null
  <2> QED
    BY <2>1, <2>2 DEF Found, ChangeType
<1>4. CASE Delete(r)
  BY <1>2, <1>4 DEF Delete, Found, ChangeType
<1>5. CASE Gap(r)
  BY <1>2, <1>5 DEF Gap, Found, ChangeType
<1> QED
  BY <1>3, <1>4, <1>5

LEMMA PublishTyped ==
    ASSUME TypeOK, NEW r \in Record, NEW new \in Found, NEW type \in ChangeType,
           NEW fields \in RowOf, Publish(r, new, type, fields)
    PROVE  TypeOK' /\ Grows
<1> DEFINE e == [record |-> r, type |-> type, fields |-> fields, after |-> new]
<1>1. e \in Event
  BY DEF Event, Found
<1>2. log' = Append(log, e) /\ Len(log) < MaxChanges /\ prod' = [prod EXCEPT ![r] = new]
  BY DEF Publish
<1> HIDE DEF e
<1>3. /\ log \in Seq(Event) /\ log' \in Seq(Event) /\ Len(log) \in Nat
      /\ Len(log') = Len(log) + 1
  BY <1>1, <1>2 DEF TypeOK
<1>4. prod' \in [Record -> Found]
  BY <1>2 DEF TypeOK
<1>5. flagged' \in SUBSET (1..Len(log')) /\ checkpoint' \in 0..Len(log') /\ Len(log') <= MaxChanges
  BY <1>2, <1>3, ShadowAssumption DEF TypeOK, Publish, store
<1>6. UNCHANGED <<store, sub, fetch, resynced, crashes, resyncs>>
  BY DEF Publish
<1> QED
  BY <1>1, <1>2, <1>3, <1>4, <1>5, <1>6 DEF TypeOK, Grows, store

LEMMA FetchTyped ==
    ASSUME TypeOK, (\E r \in Record : ResyncFetch(r)) \/ ResyncApply
    PROVE  TypeOK' /\ UNCHANGED <<log, prod, sub>>
<1>1. CASE \E r \in Record : ResyncFetch(r)
  <2>1. PICK r \in Record : ResyncFetch(r)
    BY <1>1
  <2>2. fetch' \in Fetches
    BY <2>1 DEF ResyncFetch, Fetches, TypeOK
  <2> QED
    BY <2>1, <2>2 DEF ResyncFetch, TypeOK, store
<1>2. CASE ResyncApply
  <2>1. fetch.record \in Record /\ fetch.row \in Found /\ fetch.at \in Nat
    <3>1. fetch # NoFetch
      <4>1. NoFetch.active = FALSE
        BY DEF NoFetch
      <4> QED
        BY <1>2, <4>1, Zenon DEF ResyncApply
    <3>2. fetch \in [active: {TRUE}, record: Record, row: Found, at: Nat]
      BY <3>1, Zenon DEF TypeOK, Fetches
    <3> QED
      BY <3>2
  <2>2. fetch.row \in Rows
    BY <2>1 DEF Found, Rows, Full, RowOf
  <2>3. shadow' \in [Record -> Rows] /\ resynced' \in [Record -> Resyncs] /\ fetch' \in Fetches
    BY <1>2, <2>1, <2>2 DEF ResyncApply, TypeOK, Resyncs, Fetches
  <2> QED
    BY <1>2, <2>3 DEF ResyncApply, TypeOK
<1> QED
  BY <1>1, <1>2

LEMMA CountsCount ==
    ASSUME NEW f \in Counts, NEW k
    PROVE  [f EXCEPT ![k] = @ + 1] \in Counts
<1> DEFINE D == 1..MaxChanges
<1>1. f \in [D -> Nat]
  BY DEF Counts
<1> HIDE DEF D
<1>2. [f EXCEPT ![k] = @ + 1] \in [D -> Nat]
  <2>1. CASE k \in D
    BY <1>1, <2>1
  <2>2. CASE k \notin D
    BY <1>1, <2>2
  <2> QED
    BY <2>1, <2>2
<1> QED
  BY <1>2 DEF D, Counts

LEMMA WorkerTyped ==
    ASSUME TypeOK, Places, NEW w \in Subscriber, Worker(w)
    PROVE  TypeOK'
<1>0. sub' \in [Subscriber -> SubState] /\ UNCHANGED <<log, prod, fetch, resynced, resyncs>>
  BY OwnState, OthersStay
<1>1. Busy(w) => HereOK(w)
  BY AtIsHere DEF Places
<1>2. 1..Len(log) \subseteq 1..MaxChanges
  BY ShadowAssumption DEF TypeOK
<1>3. CASE Start(w) \/ Crash(w) \/ ReadShadow(w) \/ ReadProduction(w)
  BY <1>0, <1>3 DEF Start, Crash, ReadShadow, ReadProduction, TypeOK, store
<1>4. CASE Execute(w)
  <2>1. anchors' \in Counts
    BY <1>4, CountsCount DEF Execute, TypeOK
  <2> QED
    BY <1>0, <1>4, <2>1 DEF Execute, TypeOK
<1>5. CASE InsertDivergence(w)
  <2>1. At(w) \in 1..Len(log)
    BY <1>1, <1>5 DEF InsertDivergence, Busy, HereOK
  <2>2. rows' \in Counts
    BY <1>5, CountsCount DEF InsertDivergence, TypeOK
  <2> QED
    BY <1>0, <1>5, <2>1, <2>2 DEF InsertDivergence, TypeOK
<1>6. CASE InsertReadiness(w)
  <2>1. scored' \in Counts
    BY <1>6, CountsCount DEF InsertReadiness, TypeOK
  <2> QED
    BY <1>0, <1>6, <2>1 DEF InsertReadiness, TypeOK
<1>7. CASE UpdateReplayState(w)
  <2>1. At(w) \in 1..Len(log)
    BY <1>1, <1>7 DEF UpdateReplayState, Busy, HereOK
  <2> QED
    BY <1>0, <1>7, <2>1 DEF UpdateReplayState, TypeOK
<1>8. CASE ApplyToShadow(w)
  <2>1. sub[w].view \in Rows /\ Absent \in Rows
    BY DEF TypeOK, SubState, Rows
  <2>2. Ev(w).record \in Record
    BY <1>1, <1>8 DEF ApplyToShadow, Busy, HereOK, Ev, Event
  <2>3. shadow' \in [Record -> Rows]
    BY <1>8, <2>1, <2>2 DEF ApplyToShadow, TypeOK
  <2> QED
    BY <1>0, <1>8, <2>3 DEF ApplyToShadow, TypeOK
<1> QED
  BY <1>3, <1>4, <1>5, <1>6, <1>7, <1>8 DEF Worker, Step

\* A subscriber at an event stays at it, or comes to rest.
Stays(w) == Pending(w) # {} /\ sub'[w].next = sub[w].next
Rests(w) == ~Busy(w)' /\ sub'[w].next <= Len(log) + 1

LEMMA Moves ==
    ASSUME TypeOK, Places, NEW w \in Subscriber, Worker(w)
    PROVE  Stays(w) \/ Rests(w)
<1>0. sub \in [Subscriber -> SubState] /\ Len(log) \in Nat
  BY DEF TypeOK
<1>1. Busy(w) => Pending(w) # {} /\ HereOK(w)
  BY AtIsHere DEF Places
<1>2. CASE Start(w) \/ Crash(w)
  <2>1. sub'[w] = Down \/ sub'[w] = [Down EXCEPT !.pc = "idle"]
    BY <1>0, <1>2 DEF Start, Crash
  <2>2. 1 \in Nat \ {0}
    OBVIOUS
  <2>3. sub'[w].next = 1 /\ sub'[w].pc \in {"down", "idle"}
    BY <2>1, <2>2, RestedStates
  <2> QED
    BY <1>0, <2>3 DEF Rests, Busy
<1>3. CASE ReadShadow(w)
  BY <1>0, <1>3 DEF ReadShadow, Stays
<1>4. CASE ReadProduction(w)
  BY <1>0, <1>1, <1>4 DEF ReadProduction, Stays, Busy
<1>5. CASE Execute(w)
  BY <1>0, <1>1, <1>5 DEF Execute, Stays, Busy
<1>6. CASE InsertDivergence(w)
  BY <1>0, <1>1, <1>6 DEF InsertDivergence, Stays, Busy
<1>7. CASE InsertReadiness(w)
  BY <1>0, <1>1, <1>7 DEF InsertReadiness, Stays, Busy
<1>8. CASE UpdateReplayState(w)
  BY <1>0, <1>1, <1>8 DEF UpdateReplayState, Stays, Busy
<1>9. CASE ApplyToShadow(w)
  <2>1. At(w) \in 1..Len(log)
    BY <1>1, <1>9 DEF ApplyToShadow, Busy, HereOK
  <2>2. sub'[w] = Rested(At(w) + 1)
    BY <1>0, <1>9 DEF ApplyToShadow, Rested
  <2>3. At(w) + 1 \in Nat \ {0}
    BY <2>1
  <2>4. sub'[w].pc = "idle" /\ sub'[w].next = At(w) + 1
    BY <2>2, <2>3, RestedStates
  <2> QED
    BY <1>0, <2>1, <2>4 DEF Rests, Busy
<1> QED
  BY <1>2, <1>3, <1>4, <1>5, <1>6, <1>7, <1>8, <1>9 DEF Worker, Step

LEMMA PlacesKept ==
    ASSUME TypeOK, TypeOK', Places, Grows,
           \A v \in Subscriber : Stays(v) \/ Rests(v) \/ sub'[v] = sub[v]
    PROVE  Places'
<1> SUFFICES ASSUME NEW v \in Subscriber
             PROVE  /\ sub'[v].next <= Len(log') + 1
                    /\ Busy(v)' => Pending(v)' # {}
  BY DEF Places
<1>0. /\ Len(log) \in Nat /\ Len(log') \in Nat /\ Len(log') >= Len(log)
      /\ sub[v].next \in Nat /\ sub'[v].next \in Nat
  BY DEF TypeOK, SubState, Grows
<1>1. CASE Rests(v)
  BY <1>0, <1>1 DEF Rests
<1>2. CASE Stays(v)
  BY <1>0, <1>2, AtStays DEF Stays, Places
<1>3. CASE sub'[v] = sub[v]
  <2>1. CASE Busy(v)
    <3>1. Stays(v)
      BY <1>3, <2>1 DEF Places, Stays
    <3> QED
      BY <1>0, <3>1, AtStays DEF Stays, Places
  <2>2. CASE ~Busy(v)
    BY <1>0, <1>3, <2>2 DEF Places, Busy
  <2> QED
    BY <2>1, <2>2
<1> QED
  BY <1>1, <1>2, <1>3

LEMMA InitTyped == Init => TypeOK /\ Places
<1> SUFFICES ASSUME Init  PROVE TypeOK /\ Places
  OBVIOUS
<1>1. 1 \in Nat \ {0}
  OBVIOUS
<1>2. Down \in SubState /\ Down.pc = "down" /\ Down.next = 1
  BY <1>1, RestedStates
<1>3. log = <<>> /\ Len(log) = 0 /\ log \in Seq(Event)
  BY DEF Init
<1>4. anchors \in Counts /\ rows \in Counts /\ scored \in Counts
  BY DEF Init, Counts
<1>5. TypeOK
  BY <1>2, <1>3, <1>4, ShadowAssumption DEF Init, TypeOK, Found, Rows, Fetches, Resyncs
<1>6. Places
  BY <1>2, <1>3 DEF Init, Places, Busy
<1> QED
  BY <1>5, <1>6

LEMMA StepTyped == TypeOK /\ Places /\ [Next]_vars => TypeOK' /\ Places'
<1> SUFFICES ASSUME TypeOK, Places, [Next]_vars  PROVE TypeOK' /\ Places'
  OBVIOUS
<1>1. CASE \E r \in Record : Change(r) \/ Delete(r) \/ Gap(r)
  <2>1. PICK r \in Record : Change(r) \/ Delete(r) \/ Gap(r)
    BY <1>1
  <2>2. PICK new \in Found, type \in ChangeType, fields \in RowOf :
            Publish(r, new, type, fields)
    BY <2>1, PublishedEvents
  <2>3. TypeOK' /\ Grows /\ sub' = sub
    BY <2>2, PublishTyped DEF Publish
  <2> QED
    BY <2>3, PlacesKept
<1>2. CASE (\E r \in Record : ResyncFetch(r)) \/ ResyncApply
  <2>1. TypeOK' /\ Grows /\ sub' = sub
    BY <1>2, FetchTyped DEF Grows
  <2> QED
    BY <2>1, PlacesKept
<1>3. CASE \E w \in Subscriber : Worker(w)
  <2>1. PICK w \in Subscriber : Worker(w)
    BY <1>3
  <2>2. TypeOK' /\ Grows
    BY <2>1, WorkerTyped, OthersStay DEF Grows
  <2>3. \A v \in Subscriber : Stays(v) \/ Rests(v) \/ sub'[v] = sub[v]
    BY <2>1, Moves, OthersStay
  <2> QED
    BY <2>2, <2>3, PlacesKept
<1>4. CASE UNCHANGED vars
  BY <1>4 DEF vars, store, TypeOK, Places, Busy, Pending
<1> QED
  BY <1>1, <1>2, <1>3, <1>4 DEF Next, Worker

\* Type correctness (the tables of validate/shadow/store.py and what an
\* executor holds between two awaits), and where the subscribers are: one that
\* is at work on an event has an event to work on.
THEOREM TypeCorrect == Spec => [](TypeOK /\ Places)
<1>1. Init => TypeOK /\ Places
  BY InitTyped
<1>2. TypeOK /\ Places /\ [Next]_vars => (TypeOK /\ Places)'
  BY StepTyped
<1> QED
  BY <1>1, <1>2, PTL DEF Spec

------------------------------------------------------------------------------
(* EvidenceComplete.  What the tables may say of an event depends on which  *)
(* await of it its one subscriber is at, and on whether that one still has  *)
(* the event before it.                                                     *)

\* The hypothesis: the channels are partitioned among the subscribers.
OneSubscriberEach == \A v, w \in Subscriber : v # w => Topics[v] \cap Topics[w] = {}

Owns(w, i) == i \in 1..Len(log) /\ log[i].record \in Topics[w]
PcAt(w, i) == IF Busy(w) /\ At(w) = i THEN sub[w].pc ELSE "away"

\* a anchors, r divergence rows and s readiness rows of one event, after c
\* crashes.  An anchor without its readiness row takes a crash or an event in
\* flight; a second readiness row takes a crash, and so does a first one of an
\* event that is still to come.
Balanced(pc, ahead, a, r, s, c) ==
    /\ s <= r /\ r <= a
    /\ pc = "anchored" => r < a
    /\ pc = "recorded" => s < r
    /\ a - s <= c + (IF pc \in {"anchored", "recorded"} THEN 1 ELSE 0)
    /\ s <= c + (IF ahead /\ pc \notin {"scored", "checkpointed"} THEN 0 ELSE 1)
    /\ pc \in {"scored", "checkpointed"} => s > 0

Ledger(w, i) ==
    Balanced(PcAt(w, i), i >= sub[w].next, anchors[i], rows[i], scored[i], crashes)
Ledgers == \A w \in Subscriber, i \in 1..MaxChanges : Owns(w, i) => Ledger(w, i)
Untouched ==
    \A i \in 1..MaxChanges :
        (\A w \in Subscriber : ~Owns(w, i))
        => anchors[i] = 0 /\ rows[i] = 0 /\ scored[i] = 0
Checkpointed == checkpoint \in 1..MaxChanges => scored[checkpoint] > 0
DownAtStart == \A w \in Subscriber : sub[w].pc = "down" => sub[w].next = 1

EvidenceInv ==
    /\ TypeOK /\ Places
    /\ Ledgers /\ Untouched /\ Checkpointed /\ DownAtStart

\* An event has one owner, and only its owner can be at it.
LEMMA OneOwner ==
    ASSUME OneSubscriberEach, NEW v \in Subscriber, NEW w \in Subscriber,
           NEW i, Owns(v, i), Owns(w, i)
    PROVE  v = w
BY DEF OneSubscriberEach, Owns

LEMMA BusyOwns ==
    ASSUME TypeOK, Places, NEW w \in Subscriber, Busy(w)
    PROVE  /\ Owns(w, At(w)) /\ At(w) >= sub[w].next
           /\ At(w) \in 1..MaxChanges /\ PcAt(w, At(w)) = sub[w].pc
<1>1. HereOK(w)
  BY AtIsHere DEF Places
<1>2. Len(log) <= MaxChanges /\ Len(log) \in Nat
  BY DEF TypeOK
<1> QED
  BY <1>1, <1>2, ShadowAssumption DEF HereOK, Owns, PcAt

\* The place of a subscriber that does not move.
LEMMA PlaceKept ==
    ASSUME TypeOK, TypeOK', Places, Grows, NEW w \in Subscriber, sub'[w] = sub[w], NEW i
    PROVE  PcAt(w, i)' = PcAt(w, i)
<1>1. CASE Busy(w)
  <2>1. At(w)' = At(w)
    BY <1>1, AtStays DEF Places
  <2> QED
    BY <1>1, <2>1 DEF PcAt, Busy
<1>2. CASE ~Busy(w)
  BY <1>2 DEF PcAt, Busy
<1> QED
  BY <1>1, <1>2

\* Crashes only relax a balance.
LEMMA BalanceRelaxes ==
    ASSUME NEW pc, NEW ahead \in BOOLEAN, NEW a \in Nat, NEW r \in Nat, NEW s \in Nat,
           NEW c \in Nat, NEW d \in Nat, c <= d, Balanced(pc, ahead, a, r, s, c)
    PROVE  Balanced(pc, ahead, a, r, s, d)
BY DEF Balanced

LEMMA NothingBalances ==
    ASSUME NEW ahead \in BOOLEAN, NEW c \in Nat
    PROVE  Balanced("away", ahead, 0, 0, 0, c)
BY DEF Balanced

\* A record published: the new event is untouched and nobody is at it.
LEMMA PublishLedgers ==
    ASSUME EvidenceInv, TypeOK', NEW r \in Record, NEW new \in Found,
           NEW type \in ChangeType, NEW fields \in RowOf, Publish(r, new, type, fields)
    PROVE  Ledgers' /\ Untouched' /\ Checkpointed' /\ DownAtStart'
<1>0. /\ TypeOK /\ Places /\ Grows
      /\ UNCHANGED <<sub, anchors, rows, scored, checkpoint, crashes>>
  BY PublishTyped DEF EvidenceInv, Publish, store
<1>1. \A w \in Subscriber, i \in 1..MaxChanges : PcAt(w, i)' = PcAt(w, i)
  BY <1>0, PlaceKept
<1>2. \A w \in Subscriber, i \in 1..MaxChanges : Owns(w, i) => Owns(w, i)'
  BY <1>0, LogKeeps DEF Owns
<1>3. ASSUME NEW w \in Subscriber, NEW i \in 1..MaxChanges, Owns(w, i)'
      PROVE  Ledger(w, i)'
  <2>1. CASE Owns(w, i)
    <3>1. Ledger(w, i)
      BY <2>1 DEF EvidenceInv, Ledgers
    <3> QED
      BY <1>0, <1>1, <3>1 DEF Ledger
  <2>2. CASE ~Owns(w, i)
    <3>1. i = Len(log) + 1
      BY <1>0, <1>3, <2>2, LogKeeps DEF Owns
    <3>2. \A v \in Subscriber : ~Owns(v, i)
      BY <1>0, <3>1 DEF Owns, TypeOK
    <3>3. anchors[i] = 0 /\ rows[i] = 0 /\ scored[i] = 0
      BY <3>2 DEF EvidenceInv, Untouched
    <3>4. PcAt(w, i) = "away"
      BY <1>0, <3>2, BusyOwns DEF PcAt
    <3>5. (i >= sub[w].next) \in BOOLEAN /\ crashes \in Nat
      BY <1>0 DEF TypeOK
    <3>6. Balanced("away", i >= sub[w].next, 0, 0, 0, crashes)
      BY <3>5, NothingBalances
    <3> QED
      BY <1>0, <1>1, <3>3, <3>4, <3>6 DEF Ledger
  <2> QED
    BY <2>1, <2>2
<1>4. Ledgers'
  BY <1>3 DEF Ledgers
<1>5. Untouched'
  BY <1>0, <1>2 DEF EvidenceInv, Untouched
<1>6. Checkpointed' /\ DownAtStart'
  BY <1>0 DEF EvidenceInv, Checkpointed, DownAtStart
<1> QED
  BY <1>4, <1>5, <1>6

\* What each await makes of the balance of its event.
LEMMA BalanceSteps ==
    ASSUME NEW ahead \in BOOLEAN, NEW a \in Nat, NEW r \in Nat, NEW s \in Nat, NEW c \in Nat
    PROVE  /\ Balanced("away", ahead, a, r, s, c) => Balanced("missing", ahead, a, r, s, c)
           /\ Balanced("away", ahead, a, r, s, c) => Balanced("read", ahead, a, r, s, c)
           /\ Balanced("missing", ahead, a, r, s, c) => Balanced("read", ahead, a, r, s, c)
           /\ Balanced("read", ahead, a, r, s, c) => Balanced("anchored", ahead, a + 1, r, s, c)
           /\ Balanced("anchored", ahead, a, r, s, c)
              => Balanced("recorded", ahead, a, r + 1, s, c)
           /\ Balanced("recorded", TRUE, a, r, s, c) => Balanced("scored", TRUE, a, r, s + 1, c)
           /\ Balanced("scored", ahead, a, r, s, c)
              => Balanced("checkpointed", ahead, a, r, s, c)
           /\ Balanced("checkpointed", ahead, a, r, s, c) => Balanced("away", FALSE, a, r, s, c)
           /\ Balanced("away", TRUE, a, r, s, c) => Balanced("away", ahead, a, r, s, c)
           /\ \A pc : Balanced(pc, ahead, a, r, s, c) => Balanced("away", TRUE, a, r, s, c + 1)
<1> USE DEF Balanced
<1>1. /\ Balanced("away", ahead, a, r, s, c) => Balanced("missing", ahead, a, r, s, c)
      /\ Balanced("away", ahead, a, r, s, c) => Balanced("read", ahead, a, r, s, c)
      /\ Balanced("missing", ahead, a, r, s, c) => Balanced("read", ahead, a, r, s, c)
  OBVIOUS
<1>2. Balanced("read", ahead, a, r, s, c) => Balanced("anchored", ahead, a + 1, r, s, c)
  OBVIOUS
<1>3. Balanced("anchored", ahead, a, r, s, c) => Balanced("recorded", ahead, a, r + 1, s, c)
  OBVIOUS
<1>4. Balanced("recorded", TRUE, a, r, s, c) => Balanced("scored", TRUE, a, r, s + 1, c)
  OBVIOUS
<1>5. Balanced("scored", ahead, a, r, s, c) => Balanced("checkpointed", ahead, a, r, s, c)
  OBVIOUS
<1>6. /\ Balanced("checkpointed", ahead, a, r, s, c) => Balanced("away", FALSE, a, r, s, c)
      /\ Balanced("away", TRUE, a, r, s, c) => Balanced("away", ahead, a, r, s, c)
  OBVIOUS
<1>7. \A pc : Balanced(pc, ahead, a, r, s, c) => Balanced("away", TRUE, a, r, s, c + 1)
  OBVIOUS
<1> HIDE DEF Balanced
<1> QED
  BY <1>1, <1>2, <1>3, <1>4, <1>5, <1>6, <1>7

\* Only the counts of the event a subscriber is at change under its hands.
LEMMA CountsKept ==
    ASSUME TypeOK, Places, NEW w \in Subscriber, Worker(w), NEW i \in 1..MaxChanges,
           ~(Busy(w) /\ At(w) = i)
    PROVE  /\ anchors'[i] = anchors[i] /\ rows'[i] = rows[i] /\ scored'[i] = scored[i]
           /\ crashes <= crashes'
<1>0. /\ anchors \in Counts /\ rows \in Counts /\ scored \in Counts
      /\ crashes \in Nat
  BY DEF TypeOK
<1>1. CASE Start(w) \/ Crash(w) \/ ReadShadow(w) \/ ReadProduction(w)
  BY <1>0, <1>1 DEF Start, Crash, ReadShadow, ReadProduction, store
<1>2. CASE Execute(w)
  BY <1>0, <1>2 DEF Execute, Busy, Counts
<1>3. CASE InsertDivergence(w)
  BY <1>0, <1>3 DEF InsertDivergence, Busy, Counts
<1>4. CASE InsertReadiness(w)
  BY <1>0, <1>4 DEF InsertReadiness, Busy, Counts
<1>5. CASE UpdateReplayState(w) \/ ApplyToShadow(w)
  BY <1>0, <1>5 DEF UpdateReplayState, ApplyToShadow
<1> QED
  BY <1>1, <1>2, <1>3, <1>4, <1>5 DEF Worker, Step

LEMMA BalanceTyped ==
    ASSUME TypeOK, NEW w \in Subscriber, NEW i \in 1..MaxChanges
    PROVE  /\ (i >= sub[w].next) \in BOOLEAN
           /\ anchors[i] \in Nat /\ rows[i] \in Nat /\ scored[i] \in Nat /\ crashes \in Nat
BY DEF TypeOK, Counts

LEMMA OtherLedgers ==
    ASSUME EvidenceInv, TypeOK', OneSubscriberEach, NEW w \in Subscriber, Worker(w),
           NEW v \in Subscriber \ {w}, NEW i \in 1..MaxChanges, Owns(v, i)
    PROVE  Ledger(v, i)'
<1>0. TypeOK /\ Places /\ Ledger(v, i)
  BY DEF EvidenceInv, Ledgers
<1>1. sub'[v] = sub[v] /\ log' = log
  BY <1>0, OthersStay
<1>2. ~(Busy(w) /\ At(w) = i)
  BY <1>0, BusyOwns, OneOwner
<1>3. /\ anchors'[i] = anchors[i] /\ rows'[i] = rows[i] /\ scored'[i] = scored[i]
      /\ crashes <= crashes'
  BY <1>0, <1>2, CountsKept
<1>4. PcAt(v, i)' = PcAt(v, i)
  BY <1>0, <1>1, PlaceKept DEF Grows
<1>5. Balanced(PcAt(v, i), i >= sub[v].next, anchors[i], rows[i], scored[i], crashes')
  <2>1. crashes' \in Nat
    BY DEF TypeOK
  <2>2. Balanced(PcAt(v, i), i >= sub[v].next, anchors[i], rows[i], scored[i], crashes)
    BY <1>0 DEF Ledger
  <2> QED
    BY <1>0, <1>3, <2>1, <2>2, BalanceTyped, BalanceRelaxes
<1> QED
  BY <1>1, <1>3, <1>4, <1>5 DEF Ledger

\* What a subscriber's own step makes of its places.
LEMMA OwnPlaces ==
    ASSUME TypeOK, TypeOK', Places, NEW w \in Subscriber, Worker(w), NEW i
    PROVE  /\ Stays(w) => PcAt(w, i)' = IF Busy(w)' /\ At(w) = i THEN sub'[w].pc ELSE "away"
           /\ Rests(w) => PcAt(w, i)' = "away"
<1>1. Grows
  BY OthersStay DEF Grows
<1>2. CASE Stays(w)
  <2>1. At(w)' = At(w)
    BY <1>1, <1>2, AtStays DEF Stays
  <2> QED
    BY <2>1 DEF PcAt, Rests
<1>3. CASE ~Stays(w)
  BY <1>3 DEF PcAt, Rests
<1> QED
  BY <1>2, <1>3

LEMMA RestLedger ==
    ASSUME EvidenceInv, TypeOK', NEW w \in Subscriber, NEW i \in 1..MaxChanges, Ledger(w, i),
           Start(w) \/ Crash(w) \/ ApplyToShadow(w)
    PROVE  Ledger(w, i)'
<1> DEFINE a == anchors[i]  r == rows[i]  s == scored[i]
           ahead == i >= sub[w].next  pc == PcAt(w, i)
<1>0. /\ TypeOK /\ Places /\ Worker(w)
      /\ ahead \in BOOLEAN /\ a \in Nat /\ r \in Nat /\ s \in Nat /\ crashes \in Nat
      /\ Balanced(pc, ahead, a, r, s, crashes)
      /\ sub[w].next \in Nat \ {0} /\ sub \in [Subscriber -> SubState]
  BY BalanceTyped DEF EvidenceInv, Ledger, Worker, Step, TypeOK, SubState
<1>1. 1 \in Nat \ {0}
  OBVIOUS
<1>2. UNCHANGED <<anchors, rows, scored>>
  BY DEF Start, Crash, ApplyToShadow, store
<1> HIDE DEF a, r, s, ahead, pc
<1>3. CASE Start(w)
  <2>1. sub'[w] = [Down EXCEPT !.pc = "idle"] /\ sub[w].pc = "down" /\ crashes' = crashes
    BY <1>0, <1>3 DEF Start
  <2>2. sub'[w].next = 1 /\ sub'[w].pc = "idle"
    BY <1>1, <2>1, RestedStates
  <2>3. PcAt(w, i)' = pc /\ (sub'[w].next = sub[w].next)
    BY <2>1, <2>2 DEF EvidenceInv, DownAtStart, PcAt, Busy, pc
  <2> QED
    BY <1>0, <1>2, <2>1, <2>3 DEF Ledger, a, r, s, ahead
<1>4. CASE Crash(w)
  <2>1. sub'[w] = Down /\ crashes' = crashes + 1
    BY <1>0, <1>4 DEF Crash
  <2>2. sub'[w].next = 1 /\ PcAt(w, i)' = "away"
    BY <1>1, <2>1, RestedStates DEF PcAt, Busy
  <2>3. Balanced("away", TRUE, a, r, s, crashes + 1)
    BY <1>0, BalanceSteps
  <2>4. (i >= sub'[w].next) = TRUE
    BY <2>2
  <2> QED
    BY <1>2, <2>1, <2>2, <2>3, <2>4 DEF Ledger, a, r, s
<1>5. CASE ApplyToShadow(w)
  <2>1. /\ Busy(w) /\ sub[w].pc = "checkpointed" /\ sub'[w] = Rested(At(w) + 1)
        /\ crashes' = crashes
    BY <1>0, <1>5 DEF ApplyToShadow, Rested, Busy
  <2>2. At(w) \in 1..MaxChanges /\ At(w) >= sub[w].next /\ At(w) + 1 \in Nat \ {0}
    BY <1>0, <2>1, BusyOwns
  <2>3. sub'[w].next = At(w) + 1 /\ PcAt(w, i)' = "away"
    BY <2>1, <2>2, RestedStates DEF PcAt, Busy
  <2>4. Balanced("away", i >= At(w) + 1, a, r, s, crashes)
    <3>1. CASE i = At(w)
      <4>1. pc = "checkpointed"
        BY <2>1, <3>1 DEF PcAt, pc
      <4>2. (i >= At(w) + 1) = FALSE
        BY <2>2, <3>1
      <4>3. Balanced("away", FALSE, a, r, s, crashes)
        BY <1>0, <4>1, BalanceSteps
      <4> QED
        BY <4>2, <4>3
    <3>2. CASE i # At(w) /\ i >= At(w) + 1
      <4>1. pc = "away" /\ ahead = TRUE /\ (i >= At(w) + 1) = TRUE
        BY <1>0, <2>2, <3>2 DEF PcAt, pc, ahead
      <4> QED
        BY <1>0, <4>1
    <3>3. CASE i # At(w) /\ ~(i >= At(w) + 1)
      <4>1. pc = "away" /\ (i >= At(w) + 1) = FALSE
        BY <3>3 DEF PcAt, pc
      <4>2. Balanced("away", FALSE, a, r, s, crashes)
        BY <1>0, <4>1 DEF Balanced
      <4> QED
        BY <4>1, <4>2
    <3> QED
      BY <3>1, <3>2, <3>3
  <2> QED
    BY <1>2, <2>1, <2>3, <2>4 DEF Ledger, a, r, s
<1> QED
  BY <1>3, <1>4, <1>5

LEMMA PcMoves ==
    ASSUME TypeOK, NEW w \in Subscriber
    PROVE  /\ ReadShadow(w) => sub[w].pc = "idle" /\ sub'[w].pc \in {"missing", "read"}
           /\ ReadProduction(w) => sub[w].pc = "missing" /\ sub'[w].pc = "read"
           /\ Execute(w) => sub[w].pc = "read" /\ sub'[w].pc = "anchored"
           /\ InsertDivergence(w) => sub[w].pc = "anchored" /\ sub'[w].pc = "recorded"
           /\ InsertReadiness(w) => sub[w].pc = "recorded" /\ sub'[w].pc = "scored"
           /\ UpdateReplayState(w) => sub[w].pc = "scored" /\ sub'[w].pc = "checkpointed"
           /\ (\/ ReadShadow(w) \/ ReadProduction(w) \/ Execute(w)
               \/ InsertDivergence(w) \/ InsertReadiness(w) \/ UpdateReplayState(w))
              => sub'[w].next = sub[w].next
<1>0. sub \in [Subscriber -> SubState] /\ sub[w] \in SubState
  BY DEF TypeOK
<1>1. ASSUME ReadShadow(w)
      PROVE  /\ sub[w].pc = "idle" /\ sub'[w].pc \in {"missing", "read"}
             /\ sub'[w].next = sub[w].next
  BY <1>0, <1>1 DEF ReadShadow, SubState
<1>2. ASSUME ReadProduction(w)
      PROVE  /\ sub[w].pc = "missing" /\ sub'[w].pc = "read"
             /\ sub'[w].next = sub[w].next
  <2>1. PICK pre : sub' = [sub EXCEPT ![w].pc = "read", ![w].pre = pre]
    BY <1>2 DEF ReadProduction
  <2> QED
    BY <1>0, <1>2, <2>1 DEF ReadProduction, SubState
<1>3. ASSUME Execute(w)
      PROVE  /\ sub[w].pc = "read" /\ sub'[w].pc = "anchored"
             /\ sub'[w].next = sub[w].next
  <2>1. PICK view, aborted :
            sub' = [sub EXCEPT ![w].pc = "anchored", ![w].pre = AllNull, ![w].view = view,
                               ![w].diverged = Diverges(Ev(w), CdcPostState(w), view, aborted)]
    BY <1>3 DEF Execute
  <2> QED
    BY <1>0, <1>3, <2>1 DEF Execute, SubState
<1>4. ASSUME InsertDivergence(w)
      PROVE  /\ sub[w].pc = "anchored" /\ sub'[w].pc = "recorded"
             /\ sub'[w].next = sub[w].next
  BY <1>0, <1>4 DEF InsertDivergence, SubState
<1>5. ASSUME InsertReadiness(w)
      PROVE  /\ sub[w].pc = "recorded" /\ sub'[w].pc = "scored"
             /\ sub'[w].next = sub[w].next
  BY <1>0, <1>5 DEF InsertReadiness, SubState
<1>6. ASSUME UpdateReplayState(w)
      PROVE  /\ sub[w].pc = "scored" /\ sub'[w].pc = "checkpointed"
             /\ sub'[w].next = sub[w].next
  BY <1>0, <1>6 DEF UpdateReplayState, SubState
<1> QED
  BY <1>1, <1>2, <1>3, <1>4, <1>5, <1>6

LEMMA WorkLedger ==
    ASSUME EvidenceInv, TypeOK', NEW w \in Subscriber, NEW i \in 1..MaxChanges, Ledger(w, i),
           \/ ReadShadow(w) \/ ReadProduction(w) \/ Execute(w)
           \/ InsertDivergence(w) \/ InsertReadiness(w) \/ UpdateReplayState(w)
    PROVE  Ledger(w, i)'
<1> DEFINE a == anchors[i]  r == rows[i]  s == scored[i]
           ahead == i >= sub[w].next  pc == PcAt(w, i)
<1>0. /\ TypeOK /\ Places /\ Worker(w)
      /\ ahead \in BOOLEAN /\ a \in Nat /\ r \in Nat /\ s \in Nat /\ crashes \in Nat
      /\ Balanced(pc, ahead, a, r, s, crashes)
      /\ sub \in [Subscriber -> SubState] /\ sub[w] \in SubState
      /\ anchors \in Counts /\ rows \in Counts /\ scored \in Counts
  BY BalanceTyped DEF EvidenceInv, Ledger, Worker, Step, TypeOK
<1>1. crashes' = crashes
  BY DEF ReadShadow, ReadProduction, Execute, InsertDivergence, InsertReadiness,
         UpdateReplayState
<1>2. sub'[w].next = sub[w].next
  BY <1>0, PcMoves
<1>3. Stays(w)
  <2>1. CASE ReadShadow(w)
    BY <1>2, <2>1 DEF Stays, ReadShadow
  <2>2. CASE ~ReadShadow(w)
    BY <1>0, <1>2, <2>2, PcMoves DEF Stays, Places, Busy
  <2> QED
    BY <2>1, <2>2
<1>4. PcAt(w, i)' = IF Busy(w)' /\ At(w) = i THEN sub'[w].pc ELSE "away"
  BY <1>0, <1>3, OwnPlaces
<1>5. SUFFICES Balanced(PcAt(w, i)', ahead, anchors'[i], rows'[i], scored'[i], crashes)
  BY <1>1, <1>2 DEF Ledger
<1> HIDE DEF a, r, s, ahead, pc
<1>8. /\ Balanced("away", ahead, a, r, s, crashes) => Balanced("missing", ahead, a, r, s, crashes)
      /\ Balanced("away", ahead, a, r, s, crashes) => Balanced("read", ahead, a, r, s, crashes)
      /\ Balanced("missing", ahead, a, r, s, crashes) => Balanced("read", ahead, a, r, s, crashes)
      /\ Balanced("read", ahead, a, r, s, crashes)
         => Balanced("anchored", ahead, a + 1, r, s, crashes)
      /\ Balanced("anchored", ahead, a, r, s, crashes)
         => Balanced("recorded", ahead, a, r + 1, s, crashes)
      /\ Balanced("recorded", TRUE, a, r, s, crashes)
         => Balanced("scored", TRUE, a, r, s + 1, crashes)
      /\ Balanced("scored", ahead, a, r, s, crashes)
         => Balanced("checkpointed", ahead, a, r, s, crashes)
  BY <1>0, BalanceSteps
<1>6. CASE At(w) # i
  <2>1. PcAt(w, i)' = "away" /\ pc = "away"
    BY <1>4, <1>6 DEF PcAt, pc
  <2>2. anchors'[i] = a /\ rows'[i] = r /\ scored'[i] = s
    BY <1>0, <1>6, CountsKept DEF a, r, s
  <2> QED
    BY <1>0, <2>1, <2>2
<1>7. CASE At(w) = i
  <2>0. PcAt(w, i)' = IF Busy(w)' THEN sub'[w].pc ELSE "away"
    BY <1>4, <1>7
  <2>1. pc = IF Busy(w) THEN sub[w].pc ELSE "away"
    BY <1>7 DEF PcAt, pc
  <2>2. CASE ReadShadow(w)
    <3>1. /\ pc = "away" /\ PcAt(w, i)' \in {"missing", "read"}
          /\ anchors'[i] = a /\ rows'[i] = r /\ scored'[i] = s
      BY <1>0, <2>0, <2>1, <2>2, PcMoves DEF ReadShadow, Busy, store, a, r, s
    <3> QED
      BY <1>0, <1>8, <3>1
  <2>3. CASE ReadProduction(w)
    <3>1. /\ pc = "missing" /\ PcAt(w, i)' = "read"
          /\ anchors'[i] = a /\ rows'[i] = r /\ scored'[i] = s
      BY <1>0, <2>0, <2>1, <2>3, PcMoves DEF ReadProduction, Busy, store, a, r, s
    <3> QED
      BY <1>0, <1>8, <3>1
  <2>4. CASE Execute(w)
    <3>1. /\ pc = "read" /\ PcAt(w, i)' = "anchored"
          /\ anchors'[i] = a + 1 /\ rows'[i] = r /\ scored'[i] = s
      BY <1>0, <1>7, <2>0, <2>1, <2>4, PcMoves DEF Execute, Busy, Counts, a, r, s
    <3> QED
      BY <1>0, <1>8, <3>1
  <2>5. CASE InsertDivergence(w)
    <3>1. /\ pc = "anchored" /\ PcAt(w, i)' = "recorded"
          /\ anchors'[i] = a /\ rows'[i] = r + 1 /\ scored'[i] = s
      BY <1>0, <1>7, <2>0, <2>1, <2>5, PcMoves DEF InsertDivergence, Busy, Counts, a, r, s
    <3> QED
      BY <1>0, <1>8, <3>1
  <2>6. CASE InsertReadiness(w)
    <3>1. /\ pc = "recorded" /\ PcAt(w, i)' = "scored"
          /\ anchors'[i] = a /\ rows'[i] = r /\ scored'[i] = s + 1
      BY <1>0, <1>7, <2>0, <2>1, <2>6, PcMoves DEF InsertReadiness, Busy, Counts, a, r, s
    <3>2. ahead = TRUE
      BY <1>0, <1>7, <2>6, BusyOwns DEF InsertReadiness, Busy, ahead
    <3> QED
      BY <1>0, <1>8, <3>1, <3>2
  <2>7. CASE UpdateReplayState(w)
    <3>1. /\ pc = "scored" /\ PcAt(w, i)' = "checkpointed"
          /\ anchors'[i] = a /\ rows'[i] = r /\ scored'[i] = s
      BY <1>0, <2>0, <2>1, <2>7, PcMoves DEF UpdateReplayState, Busy, a, r, s
    <3> QED
      BY <1>0, <1>8, <3>1
  <2> QED
    BY <2>2, <2>3, <2>4, <2>5, <2>6, <2>7
<1> QED
  BY <1>6, <1>7

LEMMA WorkerLedgers ==
    ASSUME EvidenceInv, TypeOK', OneSubscriberEach, NEW w \in Subscriber, Worker(w)
    PROVE  Ledgers' /\ Untouched' /\ Checkpointed' /\ DownAtStart'
<1>0. TypeOK /\ Places /\ log' = log
  BY OthersStay DEF EvidenceInv
<1>1. ASSUME NEW v \in Subscriber, NEW i \in 1..MaxChanges, Owns(v, i)'
      PROVE  Ledger(v, i)'
  <2>1. Owns(v, i) /\ Ledger(v, i)
    BY <1>0, <1>1 DEF EvidenceInv, Ledgers, Owns
  <2> QED
    BY <2>1, OtherLedgers, RestLedger, WorkLedger DEF Worker, Step
<1>2. Untouched'
  <2> SUFFICES ASSUME NEW i \in 1..MaxChanges, \A v \in Subscriber : ~Owns(v, i)'
               PROVE  anchors'[i] = 0 /\ rows'[i] = 0 /\ scored'[i] = 0
    BY DEF Untouched
  <2>1. \A v \in Subscriber : ~Owns(v, i)
    BY <1>0 DEF Owns
  <2>2. ~(Busy(w) /\ At(w) = i)
    BY <1>0, <2>1, BusyOwns
  <2> QED
    BY <1>0, <2>1, <2>2, CountsKept DEF EvidenceInv, Untouched
<1>3. Checkpointed'
  <2>1. CASE UpdateReplayState(w)
    <3>1. Busy(w) /\ sub[w].pc = "scored" /\ checkpoint' = At(w) /\ scored' = scored
      BY <2>1 DEF UpdateReplayState, Busy
    <3>2. At(w) \in 1..MaxChanges /\ Owns(w, At(w)) /\ PcAt(w, At(w)) = "scored"
      BY <1>0, <3>1, BusyOwns
    <3>3. Ledger(w, At(w))
      BY <3>2 DEF EvidenceInv, Ledgers
    <3> QED
      BY <3>1, <3>2, <3>3 DEF Ledger, Balanced, Checkpointed
  <2>2. CASE ~UpdateReplayState(w)
    <3>1. checkpoint' = checkpoint
      BY <2>2 DEF Worker, Step, Start, Crash, ReadShadow, ReadProduction, Execute,
             InsertDivergence, InsertReadiness, ApplyToShadow, store
    <3>2. ASSUME NEW i \in 1..MaxChanges, scored[i] > 0  PROVE scored'[i] > 0
      <4>1. CASE Busy(w) /\ At(w) = i /\ InsertReadiness(w)
        BY <1>0, <3>2, <4>1 DEF InsertReadiness, TypeOK, Counts
      <4>2. CASE Busy(w) /\ At(w) = i /\ ~InsertReadiness(w)
        BY <2>2, <3>2, <4>2 DEF Worker, Step, Start, Crash, ReadShadow, ReadProduction,
               Execute, InsertDivergence, ApplyToShadow, store
      <4>3. CASE ~(Busy(w) /\ At(w) = i)
        BY <1>0, <3>2, <4>3, CountsKept
      <4> QED
        BY <4>1, <4>2, <4>3
    <3> QED
      BY <3>1, <3>2 DEF EvidenceInv, Checkpointed
  <2> QED
    BY <2>1, <2>2
<1>4. DownAtStart'
  <2> SUFFICES ASSUME NEW v \in Subscriber, sub'[v].pc = "down"  PROVE sub'[v].next = 1
    BY DEF DownAtStart
  <2>0. sub \in [Subscriber -> SubState]
    BY <1>0 DEF TypeOK
  <2>1. CASE v # w
    BY <1>0, <2>1, OthersStay DEF EvidenceInv, DownAtStart
  <2>2. CASE v = w /\ Crash(w)
    BY <2>0, <2>2 DEF Crash, Down
  <2>3. CASE v = w /\ (Start(w) \/ ApplyToShadow(w))
    <3>1. PICK n \in Nat \ {0} : sub'[w] = Rested(n) \/ sub'[w] = [Down EXCEPT !.pc = "idle"]
      <4>1. CASE Start(w)
        BY <2>0, <4>1 DEF Start
      <4>2. CASE ApplyToShadow(w)
        <5>1. At(w) + 1 \in Nat \ {0}
          BY <1>0, <4>2, BusyOwns DEF ApplyToShadow, Busy
        <5> QED
          BY <2>0, <4>2, <5>1 DEF ApplyToShadow, Rested
      <4> QED
        BY <2>3, <4>1, <4>2
    <3> QED
      BY <2>3, <3>1, RestedStates
  <2>4. CASE v = w /\ ~(Crash(w) \/ Start(w) \/ ApplyToShadow(w))
    BY <1>0, <2>4, PcMoves DEF Worker, Step
  <2> QED
    BY <2>1, <2>2, <2>3, <2>4
<1> QED
  BY <1>1, <1>2, <1>3, <1>4 DEF Ledgers

LEMMA EvidenceStep ==
    ASSUME OneSubscriberEach, EvidenceInv, [Next]_vars
    PROVE  EvidenceInv'
<1>0. TypeOK /\ Places /\ TypeOK' /\ Places'
  BY StepTyped DEF EvidenceInv
<1>1. CASE \E r \in Record : Change(r) \/ Delete(r) \/ Gap(r)
  <2>1. PICK r \in Record : Change(r) \/ Delete(r) \/ Gap(r)
    BY <1>1
  <2>2. PICK new \in Found, type \in ChangeType, fields \in RowOf :
            Publish(r, new, type, fields)
    BY <1>0, <2>1, PublishedEvents
  <2> QED
    BY <1>0, <2>2, PublishLedgers DEF EvidenceInv
<1>2. CASE \E w \in Subscriber : Worker(w)
  BY <1>0, <1>2, WorkerLedgers DEF EvidenceInv
<1>3. CASE (\E r \in Record : ResyncFetch(r)) \/ ResyncApply \/ UNCHANGED vars
  <2>1. UNCHANGED <<log, sub, anchors, rows, scored, checkpoint, crashes>>
    BY <1>3 DEF ResyncFetch, ResyncApply, vars, store
  <2>2. \A w \in Subscriber, i \in 1..MaxChanges : PcAt(w, i)' = PcAt(w, i)
    BY <2>1 DEF PcAt, Busy, At, Pending
  <2>3. Ledgers' /\ Untouched'
    BY <2>1, <2>2 DEF EvidenceInv, Ledgers, Ledger, Untouched, Owns
  <2> QED
    BY <1>0, <2>1, <2>3 DEF EvidenceInv, Checkpointed, DownAtStart
<1> QED
  BY <1>1, <1>2, <1>3 DEF Next, Worker

LEMMA EvidenceInit == Init => EvidenceInv
<1> SUFFICES ASSUME Init  PROVE EvidenceInv
  OBVIOUS
<1>1. TypeOK /\ Places
  BY InitTyped
<1>2. log = <<>> /\ Len(log) = 0 /\ 1 \in Nat \ {0}
  BY DEF Init
<1>3. \A w, i : ~Owns(w, i)
  BY <1>2 DEF Owns
<1>4. Untouched /\ Checkpointed
  BY DEF Init, Untouched, Checkpointed
<1>5. DownAtStart
  BY <1>2, RestedStates DEF Init, DownAtStart
<1> QED
  BY <1>1, <1>3, <1>4, <1>5 DEF EvidenceInv, Ledgers

\* The balance of every event is the property: at most one subscriber, its
\* owner, has the event in flight.
LEMMA EvidenceIs ==
    ASSUME OneSubscriberEach, EvidenceInv
    PROVE  EvidenceComplete
<1>0. TypeOK /\ Places /\ DOMAIN rows = 1..MaxChanges
  BY DEF EvidenceInv, TypeOK, Counts
<1> SUFFICES ASSUME NEW i \in 1..MaxChanges
             PROVE  /\ scored[i] <= rows[i] /\ rows[i] <= anchors[i]
                    /\ anchors[i] - scored[i] <= crashes + Cardinality(InFlight(i))
                    /\ scored[i] <= 1 + crashes
                    /\ checkpoint = i => scored[i] > 0
  BY <1>0 DEF EvidenceComplete
<1>1. /\ anchors[i] \in Nat /\ rows[i] \in Nat /\ scored[i] \in Nat /\ crashes \in Nat
  BY <1>0 DEF TypeOK, Counts
<1>2. checkpoint = i => scored[i] > 0
  BY DEF EvidenceInv, Checkpointed
<1>3. \A v \in InFlight(i) : v \in Subscriber /\ Busy(v) /\ Owns(v, i)
  BY <1>0, BusyOwns DEF InFlight, Busy
<1>4. CASE \A w \in Subscriber : ~Owns(w, i)
  <2>1. anchors[i] = 0 /\ rows[i] = 0 /\ scored[i] = 0
    BY <1>4 DEF EvidenceInv, Untouched
  <2>2. InFlight(i) = {}
    BY <1>3, <1>4
  <2>3. Cardinality(InFlight(i)) = 0
    BY <2>2, FS_EmptySet
  <2> QED
    BY <1>1, <1>2, <2>1, <2>3
<1>5. ASSUME NEW w \in Subscriber, Owns(w, i)
      PROVE  /\ scored[i] <= rows[i] /\ rows[i] <= anchors[i]
             /\ anchors[i] - scored[i] <= crashes + Cardinality(InFlight(i))
             /\ scored[i] <= 1 + crashes
  <2>1. Ledger(w, i)
    BY <1>5 DEF EvidenceInv, Ledgers
  <2>2. InFlight(i) \subseteq {w}
    BY <1>3, <1>5, OneOwner
  <2>3. CASE PcAt(w, i) \in {"anchored", "recorded"}
    <3>1. InFlight(i) = {w}
      BY <2>2, <2>3 DEF InFlight, PcAt
    <3>2. Cardinality(InFlight(i)) = 1
      BY <3>1, FS_Singleton
    <3> QED
      BY <1>1, <2>1, <2>3, <3>2 DEF Ledger, Balanced
  <2>4. CASE PcAt(w, i) \notin {"anchored", "recorded"}
    <3>1. InFlight(i) = {}
      BY <2>2, <2>4 DEF InFlight, PcAt, Busy
    <3>2. Cardinality(InFlight(i)) = 0
      BY <3>1, FS_EmptySet
    <3> QED
      BY <1>1, <2>1, <2>4, <3>2 DEF Ledger, Balanced
  <2> QED
    BY <2>3, <2>4
<1> QED
  BY <1>2, <1>4, <1>5

\* When every channel has one subscriber, the evidence behind the readiness
\* score is complete up to events in flight and subscribers that died, no event
\* is scored twice but for a crash, and the checkpoint names a scored event: the
\* order of awaits in execute_event (validate/shadow/executor.py), for every
\* interleaving of subscribers, crashes and resyncs.
THEOREM EvidenceIsComplete ==
    ASSUME OneSubscriberEach
    PROVE  Spec => []EvidenceComplete
<1>1. Init => EvidenceInv
  BY EvidenceInit
<1>2. EvidenceInv /\ [Next]_vars => EvidenceInv'
  BY EvidenceStep
<1>3. EvidenceInv => EvidenceComplete
  BY EvidenceIs
<1> QED
  BY <1>1, <1>2, <1>3, PTL DEF Spec

------------------------------------------------------------------------------
(* NoSilentDrift.  An event of a record that carries the whole record says  *)
(* what production holds, so a subscriber past the last one has it or has   *)
(* said that it diverged.                                                   *)

\* The hypothesis: payloads carry every field of the object.
WholeRecords == ~Partial /\ Schema = Field

Touched(r) == {i \in 1..Len(log) : log[i].record = r}
IsLast(r, i) == i \in Touched(r) /\ \A j \in Touched(r) : j <= i

\* What an event says of the record when nothing of it was dropped.
Tells(e, row) ==
    \/ e.type \in {"CREATE", "UPDATE"} /\ row = e.fields
    \/ e.type = "DELETE" /\ row = Absent

LogTells ==
    \A i \in 1..Len(log) : log[i].type # "GAP" => Tells(log[i], log[i].after)
ProdTold ==
    \A r \in Record :
        \/ Touched(r) = {} /\ prod[r] = Absent
        \/ \E i \in 1..Len(log) : IsLast(r, i) /\ prod[r] = log[i].after

\* An event that is not reported diverged was judged by a view that is its own.
Judgements ==
    \A w \in Subscriber :
        LET kept == Ev(w).type # "GAP" /\ sub[w].view = Ev(w).fields
        IN  /\ sub[w].pc = "anchored" /\ ~sub[w].diverged => kept
            /\ sub[w].pc \in {"recorded", "scored", "checkpointed"} /\ At(w) \notin flagged
               => kept

Clean(r) == \A i \in flagged : log[i].record # r
Brought(r) == resynced[r] # Never /\ shadow[r] = resynced[r].row
Tracks(w, r) ==
    /\ Touched(r) = {} => shadow[r] = Absent
    /\ \A i \in 1..Len(log) : IsLast(r, i) /\ i < sub[w].next => shadow[r] = log[i].after
Shadowed ==
    \A w \in Subscriber : \A r \in Topics[w] : Clean(r) => Brought(r) \/ Tracks(w, r)

DriftInv ==
    /\ TypeOK /\ Places
    /\ LogTells /\ ProdTold /\ Judgements /\ Shadowed

\* What production publishes tells what it did, unless it is a gap.
LEMMA PublishedTruly ==
    ASSUME WholeRecords, TypeOK, NEW r \in Record, Change(r) \/ Delete(r) \/ Gap(r)
    PROVE  \E new \in Found, type \in ChangeType, fields \in RowOf :
              /\ Publish(r, new, type, fields)
              /\ \/ type \in {"CREATE", "UPDATE"} /\ new = fields
                 \/ type = "DELETE" /\ new = Absent
                 \/ type = "GAP"
<1>1. AllNull \in RowOf /\ prod[r] \in Found
  BY DEF TypeOK, AllNull, RowOf, Null
<1>2. CASE Change(r)
  <2>1. PICK new \in Full :
            Publish(r, new, IF prod[r] = Absent THEN "CREATE" ELSE "UPDATE",
                    Payload(prod[r], new))
    BY <1>2 DEF Change
  <2>2. Payload(prod[r], new) = new
    BY DEF WholeRecords, Payload, Full
  <2>3. new \in Found /\ new \in RowOf
    BY DEF Found, Full, RowOf
  <2> QED
    BY <2>1, <2>2, <2>3 DEF ChangeType
<1>3. CASE Delete(r)
  BY <1>1, <1>3 DEF Delete, Found, ChangeType
<1>4. CASE Gap(r)
  BY <1>1, <1>4 DEF Gap, Found, ChangeType
<1> QED
  BY <1>2, <1>3, <1>4

LEMMA PublishDrift ==
    ASSUME DriftInv, TypeOK', NEW r \in Record, NEW new \in Found, NEW type \in ChangeType,
           NEW fields \in RowOf, Publish(r, new, type, fields),
           \/ type \in {"CREATE", "UPDATE"} /\ new = fields
           \/ type = "DELETE" /\ new = Absent
           \/ type = "GAP"
    PROVE  LogTells' /\ ProdTold' /\ Judgements' /\ Shadowed'
<1> DEFINE e == [record |-> r, type |-> type, fields |-> fields, after |-> new]
<1>n. PICK n : n = Len(log) + 1
  OBVIOUS
<1>0. /\ TypeOK /\ Places /\ Grows
      /\ UNCHANGED <<sub, shadow, flagged, resynced>>
      /\ prod \in [Record -> Found] /\ prod' = [prod EXCEPT ![r] = new]
  BY PublishTyped DEF DriftInv, Publish, store, TypeOK
<1>1. e.record = r /\ e.type = type /\ e.fields = fields /\ e.after = new
  OBVIOUS
<1>2. /\ Len(log) \in Nat /\ n \in Nat /\ n \in 1..n /\ Len(log') = n /\ log'[n] = e
      /\ \A i \in 1..Len(log) : i \in 1..n /\ log'[i] = log[i]
      /\ \A i \in 1..n : i = n \/ i \in 1..Len(log)
  <2>1. log' = Append(log, e) /\ log \in Seq(Event)
    BY <1>0 DEF Publish, TypeOK
  <2> QED
    BY <1>n, <2>1
<1> HIDE DEF e
<1>3. LogTells'
  <2>1. type # "GAP" => Tells(e, new)
    BY <1>1 DEF Tells
  <2> QED
    BY <1>1, <1>2, <2>1 DEF LogTells, DriftInv, Tells
<1>4. \A q \in Record \ {r} : Touched(q)' = Touched(q)
  BY <1>1, <1>2 DEF Touched
<1>5. n \in Touched(r)' /\ IsLast(r, n)' /\ \A i : IsLast(r, i)' => i = n
  <2>1. n \in Touched(r)'
    BY <1>1, <1>2 DEF Touched
  <2>2. \A j \in Touched(r)' : j \in Nat /\ j <= n
    BY <1>2 DEF Touched
  <2>3. ASSUME NEW i, IsLast(r, i)'  PROVE i = n
    <3>1. i \in Touched(r)' /\ n <= i
      BY <2>1, <2>3 DEF IsLast
    <3> QED
      BY <1>2, <2>2, <3>1
  <2>4. IsLast(r, n)'
    BY <2>1, <2>2 DEF IsLast
  <2> QED
    BY <2>1, <2>3, <2>4
<1>6. ProdTold'
  <2> SUFFICES ASSUME NEW q \in Record
               PROVE  \/ Touched(q)' = {} /\ prod'[q] = Absent
                      \/ \E i \in 1..Len(log') : IsLast(q, i)' /\ prod'[q] = log'[i].after
    BY DEF ProdTold
  <2>1. CASE q = r
    BY <1>0, <1>1, <1>2, <1>5, <2>1
  <2>2. CASE q # r
    <3>1. prod'[q] = prod[q] /\ Touched(q)' = Touched(q)
      BY <1>0, <1>4, <2>2
    <3>2. \A i : IsLast(q, i) => IsLast(q, i)'
      BY <3>1 DEF IsLast
    <3>3. \/ Touched(q) = {} /\ prod[q] = Absent
          \/ \E i \in 1..Len(log) : IsLast(q, i) /\ prod[q] = log[i].after
      BY DEF DriftInv, ProdTold
    <3> QED
      BY <1>2, <3>1, <3>2, <3>3
  <2> QED
    BY <2>1, <2>2
<1>7. Judgements'
  <2>1. \A w \in Subscriber : Busy(w) => At(w)' = At(w) /\ Ev(w)' = Ev(w)
    <3> SUFFICES ASSUME NEW w \in Subscriber, Busy(w)
                 PROVE  At(w)' = At(w) /\ Ev(w)' = Ev(w)
      OBVIOUS
    <3>1. At(w)' = At(w) /\ HereOK(w)
      BY <1>0, AtStays, AtIsHere DEF Places
    <3> QED
      BY <1>2, <3>1 DEF Ev, HereOK
  <2> QED
    BY <1>0, <2>1 DEF DriftInv, Judgements, Busy
<1>8. Shadowed'
  <2> SUFFICES ASSUME NEW w \in Subscriber, NEW q \in Topics[w], Clean(q)'
               PROVE  Brought(q)' \/ Tracks(w, q)'
    BY DEF Shadowed
  <2>1. q \in Record
    BY ShadowAssumption
  <2>2. Clean(q)
    BY <1>0, <1>2 DEF Clean, TypeOK
  <2>3. Brought(q) \/ Tracks(w, q)
    BY <2>2 DEF DriftInv, Shadowed
  <2>4. CASE q = r
    <3>1. sub[w].next <= n /\ sub[w].next \in Nat
      BY <1>n, <1>0 DEF Places, TypeOK, SubState
    <3> QED
      BY <1>0, <1>2, <1>5, <2>4, <3>1 DEF Tracks
  <2>5. CASE q # r
    <3>1. Touched(q)' = Touched(q)
      BY <1>4, <2>1, <2>5
    <3>2. \A i : IsLast(q, i)' => IsLast(q, i) /\ i \in 1..Len(log)
      BY <3>1 DEF IsLast, Touched
    <3> QED
      BY <1>0, <1>2, <2>3, <3>1, <3>2 DEF Brought, Tracks
  <2> QED
    BY <2>4, <2>5
<1> QED
  BY <1>3, <1>6, <1>7, <1>8

\* A view that passes for an event that is not diverged is the event's own.
LEMMA JudgedTruly ==
    ASSUME WholeRecords, TypeOK, NEW w \in Subscriber, HereOK(w), NEW view, NEW aborted,
           ~Diverges(Ev(w), CdcPostState(w), view, aborted)
    PROVE  Ev(w).type # "GAP" /\ view = Ev(w).fields
<1>1. Ev(w).fields \in [Field -> Value \cup {Null, Rewritten}]
  BY DEF HereOK, Ev, Event, RowOf
<1>2. CdcPostState(w) = Ev(w).fields
  BY <1>1 DEF CdcPostState, WholeRecords
<1>3. view = CdcPostState(w) /\ Ev(w).type # "GAP"
  BY DEF Diverges
<1> QED
  BY <1>2, <1>3

LEMMA WorkerJudges ==
    ASSUME DriftInv, TypeOK', WholeRecords, NEW w \in Subscriber, Worker(w)
    PROVE  Judgements'
<1>0. /\ TypeOK /\ Places /\ log' = log /\ \A v \in Subscriber \ {w} : sub'[v] = sub[v]
      /\ sub \in [Subscriber -> SubState] /\ sub[w] \in SubState
  BY OthersStay DEF DriftInv, TypeOK
<1>1. flagged \subseteq flagged'
  BY DEF Worker, Step, Start, Crash, ReadShadow, ReadProduction, Execute, InsertDivergence,
         InsertReadiness, UpdateReplayState, ApplyToShadow, store
<1>2. ASSUME NEW v \in Subscriber, Stays(v)
      PROVE  At(v)' = At(v) /\ Ev(v)' = Ev(v)
  <2>1. At(v)' = At(v)
    BY <1>0, <1>2, AtStays DEF Stays, Grows
  <2> QED
    BY <1>0, <2>1 DEF Ev
<1> DEFINE Kept(v, view) == Ev(v).type # "GAP" /\ view = Ev(v).fields
           Judged(v) == /\ sub[v].pc = "anchored" /\ ~sub[v].diverged => Kept(v, sub[v].view)
                        /\ (sub[v].pc \in {"recorded", "scored", "checkpointed"}
                            /\ At(v) \notin flagged) => Kept(v, sub[v].view)
<1>3. \A v \in Subscriber : Judged(v)
  BY DEF DriftInv, Judgements
<1>4. SUFFICES ASSUME NEW v \in Subscriber  PROVE Judged(v)'
  BY DEF Judgements
<1>5. CASE v # w
  <2>1. sub'[v] = sub[v]
    BY <1>0, <1>5
  <2>2. CASE Busy(v)
    <3>1. Stays(v)
      BY <1>0, <2>1, <2>2 DEF Stays, Places
    <3> QED
      BY <1>1, <1>2, <1>3, <2>1, <3>1
  <2>3. CASE ~Busy(v)
    BY <2>1, <2>3 DEF Busy
  <2> QED
    BY <2>2, <2>3
<1>6. CASE v = w
  <2>1. CASE Execute(w)
    <3>1. Stays(w) /\ HereOK(w)
      BY <1>0, <2>1, PcMoves, AtIsHere DEF Places, Busy, Stays
    <3>2. PICK view \in RuntimeViews(CdcPostState(w)), aborted \in BOOLEAN :
              sub' = [sub EXCEPT ![w].pc = "anchored", ![w].pre = AllNull, ![w].view = view,
                                 ![w].diverged = Diverges(Ev(w), CdcPostState(w), view, aborted)]
      BY <2>1 DEF Execute
    <3>3. /\ sub'[w].pc = "anchored" /\ sub'[w].view = view
          /\ sub'[w].diverged = Diverges(Ev(w), CdcPostState(w), view, aborted)
      BY <1>0, <3>2 DEF SubState
    <3>4. ~sub'[w].diverged => Kept(w, view)
      BY <1>0, <3>1, <3>3, JudgedTruly
    <3> QED
      BY <1>2, <1>6, <3>1, <3>3, <3>4
  <2>2. CASE InsertDivergence(w)
    <3>1. Stays(w) /\ sub[w].pc = "anchored" /\ sub'[w].pc = "recorded"
      BY <1>0, <2>2, PcMoves DEF Places, Busy, Stays
    <3>2. sub'[w].view = sub[w].view /\ (sub[w].diverged => At(w) \in flagged')
      BY <1>0, <2>2 DEF InsertDivergence, SubState
    <3> QED
      BY <1>2, <1>3, <1>6, <3>1, <3>2
  <2>3. CASE InsertReadiness(w) \/ UpdateReplayState(w)
    <3>1. /\ Stays(w) /\ sub[w].pc \in {"recorded", "scored"}
          /\ sub'[w].pc \in {"scored", "checkpointed"}
      BY <1>0, <2>3, PcMoves DEF Places, Busy, Stays
    <3>2. sub'[w].view = sub[w].view
      BY <1>0, <2>3 DEF InsertReadiness, UpdateReplayState, SubState
    <3> QED
      BY <1>1, <1>2, <1>3, <1>6, <3>1, <3>2
  <2>4. CASE ReadShadow(w) \/ ReadProduction(w)
    BY <1>0, <1>6, <2>4, PcMoves
  <2>5. CASE Start(w) \/ Crash(w)
    BY <1>0, <1>6, <2>5 DEF Start, Crash, Down
  <2>6. CASE ApplyToShadow(w)
    BY <1>0, <1>6, <2>6 DEF ApplyToShadow, Down
  <2> QED
    BY <2>1, <2>2, <2>3, <2>4, <2>5, <2>6 DEF Worker, Step
<1> QED
  BY <1>5, <1>6

\* The row a subscriber applies is what its event tells of the record, unless
\* the event was reported.
LEMMA AppliedTruly ==
    ASSUME DriftInv, NEW w \in Subscriber, ApplyToShadow(w), At(w) \notin flagged
    PROVE  /\ shadow' = [shadow EXCEPT ![Ev(w).record] = Ev(w).after]
           /\ Ev(w).record \in Record
<1>1. HereOK(w) /\ sub[w].pc = "checkpointed"
  BY AtIsHere DEF DriftInv, Places, Busy, ApplyToShadow
<1>2. Ev(w).type # "GAP" /\ sub[w].view = Ev(w).fields
  BY <1>1 DEF DriftInv, Judgements
<1>3. Tells(Ev(w), Ev(w).after)
  BY <1>1, <1>2 DEF DriftInv, LogTells, HereOK, Ev
<1>4. Ev(w).record \in Record
  BY <1>1 DEF HereOK, Ev, Event
<1> QED
  BY <1>2, <1>3, <1>4 DEF ApplyToShadow, Tells

LEMMA ApplyShadows ==
    ASSUME DriftInv, OneSubscriberEach, NEW w \in Subscriber, ApplyToShadow(w)
    PROVE  Shadowed'
<1>0. /\ TypeOK /\ Places /\ log' = log /\ flagged' = flagged /\ resynced' = resynced
      /\ \A v \in Subscriber \ {w} : sub'[v] = sub[v]
      /\ shadow \in [Record -> Rows] /\ sub \in [Subscriber -> SubState]
      /\ sub[w].next \in Nat
  BY OthersStay DEF DriftInv, TypeOK, SubState, ApplyToShadow, Worker, Step
<1>1. /\ At(w) \in 1..Len(log) /\ At(w) >= sub[w].next /\ log[At(w)].record \in Topics[w]
      /\ Ev(w).record = log[At(w)].record /\ At(w) \in Nat /\ Len(log) \in Nat
  BY <1>0, AtIsHere DEF Places, Busy, ApplyToShadow, HereOK, Ev, TypeOK
<1>2. sub'[w].next = At(w) + 1
  <2>1. sub'[w] = Rested(At(w) + 1)
    BY <1>0 DEF ApplyToShadow, Rested
  <2>2. At(w) + 1 \in Nat \ {0}
    BY <1>1
  <2> QED
    BY <2>1, <2>2, RestedStates
<1>3. \A r : Touched(r)' = Touched(r)
  BY <1>0 DEF Touched
<1> SUFFICES ASSUME NEW v \in Subscriber, NEW r \in Topics[v], Clean(r)'
             PROVE  Brought(r)' \/ Tracks(v, r)'
  BY DEF Shadowed
<1>4. /\ r \in Record /\ Clean(r) /\ (Brought(r) \/ Tracks(v, r))
  BY <1>0, ShadowAssumption DEF Clean, DriftInv, Shadowed
<1>5. CASE r = Ev(w).record
  <2>1. v = w
    BY <1>1, <1>5 DEF OneSubscriberEach
  <2>2. At(w) \notin flagged
    BY <1>1, <1>4, <1>5 DEF Clean
  <2>3. shadow'[r] = log[At(w)].after
    BY <1>0, <1>4, <1>5, <2>2, AppliedTruly DEF Ev
  <2>4. At(w) \in Touched(r)
    BY <1>1, <1>5 DEF Touched
  <2>5. ASSUME NEW i \in 1..Len(log), IsLast(r, i), i < At(w) + 1
        PROVE  i = At(w)
    <3>1. At(w) <= i
      BY <2>4, <2>5 DEF IsLast
    <3> QED
      BY <1>1, <2>5, <3>1
  <2>6. \A i : IsLast(r, i)' => IsLast(r, i)
    BY <1>3 DEF IsLast
  <2> QED
    BY <1>0, <1>2, <1>3, <2>1, <2>3, <2>4, <2>5, <2>6 DEF Tracks
<1>6. CASE r # Ev(w).record
  <2>1. shadow'[r] = shadow[r]
    BY <1>0, <1>4, <1>6 DEF ApplyToShadow
  <2>2. \A i : IsLast(r, i)' => IsLast(r, i)
    BY <1>3 DEF IsLast
  <2>3. ASSUME NEW i \in 1..Len(log), IsLast(r, i), i < sub'[v].next
        PROVE  i < sub[v].next
    <3>1. CASE v = w
      <4>1. log[i].record = r
        BY <2>3 DEF IsLast, Touched
      <4>2. i < At(w)
        BY <1>1, <1>2, <1>6, <2>3, <3>1, <4>1
      <4>3. Pending(w) # {}
        BY <1>0 DEF Places, Busy, ApplyToShadow
      <4>4. i \notin Pending(w)
        BY <1>0, <1>1, <4>2, <4>3, AtIsFirst
      <4> QED
        BY <1>0, <1>1, <2>3, <3>1, <4>1, <4>4 DEF Pending
    <3>2. CASE v # w
      BY <1>0, <2>3, <3>2
    <3> QED
      BY <3>1, <3>2
  <2> QED
    BY <1>0, <1>3, <1>4, <2>1, <2>2, <2>3 DEF Brought, Tracks
<1> QED
  BY <1>5, <1>6

LEMMA WorkerShadows ==
    ASSUME DriftInv, TypeOK', OneSubscriberEach, NEW w \in Subscriber, Worker(w)
    PROVE  Shadowed'
<1>1. CASE ApplyToShadow(w)
  BY <1>1, ApplyShadows
<1>2. CASE ~ApplyToShadow(w)
  <2>0. /\ TypeOK /\ Places /\ log' = log /\ resynced' = resynced
        /\ \A v \in Subscriber \ {w} : sub'[v] = sub[v]
        /\ sub \in [Subscriber -> SubState]
    BY OthersStay DEF DriftInv, TypeOK
  <2>1. flagged \subseteq flagged' /\ shadow' = shadow
    BY <1>2 DEF Worker, Step, Start, Crash, ReadShadow, ReadProduction, Execute,
           InsertDivergence, InsertReadiness, UpdateReplayState, store
  <2>2. sub'[w].next = sub[w].next \/ sub'[w].next = 1
    BY <1>2, <2>0, PcMoves DEF Worker, Step, Start, Crash, Down
  <2>3. \A r : Touched(r)' = Touched(r)
    BY <2>0 DEF Touched
  <2> SUFFICES ASSUME NEW v \in Subscriber, NEW r \in Topics[v], Clean(r)'
               PROVE  Brought(r)' \/ Tracks(v, r)'
    BY DEF Shadowed
  <2>4. Brought(r) \/ Tracks(v, r)
    BY <2>0, <2>1 DEF Clean, DriftInv, Shadowed
  <2>5. \A i : IsLast(r, i)' => IsLast(r, i)
    BY <2>3 DEF IsLast
  <2>6. \A i \in 1..Len(log) : i < sub'[v].next => i < sub[v].next
    BY <2>0, <2>2 DEF TypeOK, SubState
  <2> QED
    BY <2>0, <2>1, <2>3, <2>4, <2>5, <2>6 DEF Brought, Tracks
<1> QED
  BY <1>1, <1>2

LEMMA DriftStep ==
    ASSUME OneSubscriberEach, WholeRecords, DriftInv, [Next]_vars
    PROVE  DriftInv'
<1>0. TypeOK /\ Places /\ TypeOK' /\ Places'
  BY StepTyped DEF DriftInv
<1>1. CASE \E r \in Record : Change(r) \/ Delete(r) \/ Gap(r)
  <2>1. PICK r \in Record : Change(r) \/ Delete(r) \/ Gap(r)
    BY <1>1
  <2>2. PICK new \in Found, type \in ChangeType, fields \in RowOf :
            /\ Publish(r, new, type, fields)
            /\ \/ type \in {"CREATE", "UPDATE"} /\ new = fields
               \/ type = "DELETE" /\ new = Absent
               \/ type = "GAP"
    BY <1>0, <2>1, PublishedTruly
  <2> QED
    BY <1>0, <2>2, PublishDrift DEF DriftInv
<1>2. CASE \E w \in Subscriber : Worker(w)
  <2>1. PICK w \in Subscriber : Worker(w)
    BY <1>2
  <2>2. UNCHANGED <<log, prod>>
    BY <1>0, <2>1, OthersStay
  <2>3. LogTells' /\ ProdTold'
    BY <2>2 DEF DriftInv, LogTells, ProdTold, IsLast, Touched
  <2> QED
    BY <1>0, <2>1, <2>3, WorkerJudges, WorkerShadows DEF DriftInv
<1>3. CASE (\E r \in Record : ResyncFetch(r)) \/ ResyncApply \/ UNCHANGED vars
  <2>1. UNCHANGED <<log, prod, sub, flagged>>
    BY <1>3 DEF ResyncFetch, ResyncApply, vars, store
  <2>2. LogTells' /\ ProdTold' /\ Judgements'
    BY <2>1 DEF DriftInv, LogTells, ProdTold, IsLast, Touched, Judgements, Ev, At, Pending
  <2>3. Shadowed'
    <3> SUFFICES ASSUME NEW v \in Subscriber, NEW r \in Topics[v], Clean(r)'
                 PROVE  Brought(r)' \/ Tracks(v, r)'
      BY DEF Shadowed
    <3>1. r \in Record /\ (Brought(r) \/ Tracks(v, r))
      BY <2>1, ShadowAssumption DEF Clean, DriftInv, Shadowed
    <3>2. CASE ResyncApply /\ fetch.record = r
      <4>1. /\ shadow'[r] = fetch.row
            /\ resynced'[r] = [at |-> fetch.at, row |-> fetch.row]
        BY <1>0, <3>1, <3>2 DEF ResyncApply, TypeOK
      <4>2. fetch.at \in Nat
        <5>1. fetch # NoFetch
          <6>1. NoFetch.active = FALSE
            BY DEF NoFetch
          <6> QED
            BY <3>2, <6>1, Zenon DEF ResyncApply
        <5>2. fetch \in [active: {TRUE}, record: Record, row: Found, at: Nat]
          BY <1>0, <5>1, Zenon DEF TypeOK, Fetches
        <5> QED
          BY <5>2
      <4>3. resynced'[r].at \in Nat /\ resynced'[r].row = fetch.row
        BY <4>1, <4>2
      <4>4. resynced'[r] # Never
        BY <4>3 DEF Never
      <4> QED
        BY <4>1, <4>3, <4>4 DEF Brought
    <3>3. CASE ~(ResyncApply /\ fetch.record = r)
      <4>1. shadow'[r] = shadow[r] /\ resynced'[r] = resynced[r]
        BY <1>0, <1>3, <3>1, <3>3 DEF ResyncApply, ResyncFetch, vars, store, TypeOK
      <4> QED
        BY <2>1, <3>1, <4>1 DEF Brought, Tracks, IsLast, Touched
    <3> QED
      BY <3>2, <3>3
  <2> QED
    BY <1>0, <2>2, <2>3 DEF DriftInv
<1> QED
  BY <1>1, <1>2, <1>3 DEF Next, Worker

LEMMA DriftInit == Init => DriftInv
<1> SUFFICES ASSUME Init  PROVE DriftInv
  OBVIOUS
<1>1. TypeOK /\ Places
  BY InitTyped
<1>2. log = <<>> /\ Len(log) = 0 /\ \A r : Touched(r) = {}
  BY DEF Init, Touched
<1>3. LogTells /\ ProdTold
  BY <1>2 DEF Init, LogTells, ProdTold
<1>4. Judgements
  BY DEF Init, Judgements, Down
<1>5. Shadowed
  BY <1>2, ShadowAssumption DEF Init, Shadowed, Tracks
<1> QED
  BY <1>1, <1>3, <1>4, <1>5 DEF DriftInv

LEMMA DriftIs ==
    ASSUME DriftInv, \A r \in Record : \E w \in Subscriber : r \in Topics[w]
    PROVE  NoSilentDrift
<1> SUFFICES ASSUME NEW r \in Record, CaughtUp(r), shadow[r] # prod[r], Clean(r)
             PROVE  Brought(r)
  BY DEF NoSilentDrift, Clean, Brought
<1>1. PICK w \in Subscriber : r \in Topics[w]
  OBVIOUS
<1>2. Pending(w) = {} /\ sub[w].next \in Nat \ {0} /\ Len(log) \in Nat
  BY <1>1 DEF CaughtUp, DriftInv, TypeOK, SubState
<1>3. Brought(r) \/ Tracks(w, r)
  BY <1>1 DEF DriftInv, Shadowed
<1>4. ASSUME Tracks(w, r)  PROVE shadow[r] = prod[r]
  <2>1. CASE Touched(r) = {} /\ prod[r] = Absent
    BY <1>4, <2>1 DEF Tracks
  <2>2. ASSUME NEW i \in 1..Len(log), IsLast(r, i), prod[r] = log[i].after
        PROVE  shadow[r] = prod[r]
    <3>1. log[i].record \in Topics[w]
      BY <1>1, <2>2 DEF IsLast, Touched
    <3>2. i < sub[w].next
      BY <1>2, <3>1 DEF Pending
    <3> QED
      BY <1>4, <2>2, <3>2 DEF Tracks
  <2> QED
    BY <2>1, <2>2 DEF DriftInv, ProdTold
<1> QED
  BY <1>3, <1>4

\* When the channels are partitioned among the subscribers and cover the
\* records, and payloads carry every field, a shadow row that is not
\* production's once the events of its record are processed is one a divergence
\* row tells of or one a resync brought (execute_event, Resyncer.resync_record).
THEOREM DriftIsNeverSilent ==
    ASSUME OneSubscriberEach, WholeRecords,
           \A r \in Record : \E w \in Subscriber : r \in Topics[w]
    PROVE  Spec => []NoSilentDrift
<1>1. Init => DriftInv
  BY DriftInit
<1>2. DriftInv /\ [Next]_vars => DriftInv'
  BY DriftStep
<1>3. DriftInv => NoSilentDrift
  BY DriftIs
<1> QED
  BY <1>1, <1>2, <1>3, PTL DEF Spec

=============================================================================
