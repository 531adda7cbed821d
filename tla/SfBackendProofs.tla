--------------------------- MODULE SfBackendProofs ---------------------------
(***************************************************************************)
(* Proofs about SfBackend for any calls, processes, weights and bounds:    *)
(* type correctness, the connect lock's exclusion, OneExchange,            *)
(* NoStaleSession and BudgetRespected.                                     *)
(*                                                                         *)
(* None is inductive.  For the connection, IInv adds what the connect lock *)
(* is for: it belongs to the call that exchanges or builds (LockHeld), the *)
(* client, if there is one, was built from the session in the cache and    *)
(* nobody connects meanwhile (ClientOfSession), and whoever exchanges      *)
(* found no session fit for use (ExchangeNeeded).  OneExchange counts      *)
(* sessions; the next one is paid for in advance, by the invalidation or   *)
(* the ageing that made the last one unfit (NextIsPaidFor).                *)
(*                                                                         *)
(* For the budget, BudgetInv says that what was charged since the last     *)
(* snapshot is at most what the processes spent of their shares (Spent).   *)
(* That the shares of any number of processes fit the snapshot is a fact   *)
(* about sums, taken up one process at a time.                             *)
(***************************************************************************)
EXTENDS SfBackend, FoldLemmas

Holding(c) == At(c, "exchanging") \/ At(c, "building")
Unfit == session = None \/ session \in aged

CallState == [pc : Pc, kind : Kind, using : Nat, retried : BOOLEAN]

\* The calls and the quota.
CallsTyped == call \in [Call -> CallState]
QuotaTyped ==
    /\ remaining \in Int /\ consumed \in [Process -> Int]
    /\ refreshes \in Nat /\ charged \in Nat
\* The connection: the cache holds the last session obtained or none.
ConnTyped ==
    /\ minted \in Nat /\ session \in {None, minted} /\ client \in {None, session}
    /\ lock \in Call \cup {Free}
    /\ aged \subseteq 1..minted /\ dead \subseteq 1..minted
    /\ dropped \subseteq 1..minted /\ invalidations \in Nat
TypeOK == CallsTyped /\ QuotaTyped /\ ConnTyped

LockHeld == \A c \in Call : Holding(c) <=> lock = c
ClientOfSession == \A c \in Call : Holding(c) => client = None
ExchangeNeeded == \A c \in Call : /\ At(c, "exchanging") => Unfit
                                  /\ At(c, "building") => session # None
NextIsPaidFor == Unfit => minted <= invalidations + Cardinality(aged)

ConnInv == /\ LockHeld
           /\ ClientOfSession
           /\ ExchangeNeeded
           /\ OneExchange
           /\ NextIsPaidFor
           /\ NoStaleSession
IInv == TypeOK /\ ConnInv

------------------------------------------------------------------------------

\* Sessions are finitely many, so those past their TTL can be counted.
LEMMA AgedIsFinite ==
    ASSUME TypeOK
    PROVE  IsFiniteSet(aged) /\ Cardinality(aged) \in Nat
<1>1. minted \in Int /\ 1 \in Int
  BY DEF TypeOK, ConnTyped
<1>2. IsFiniteSet(1..minted)
  BY <1>1, FS_Interval
<1>3. aged \in SUBSET (1..minted)
  BY DEF TypeOK, ConnTyped
<1> QED
  BY <1>2, <1>3, FS_Subset, FS_CardinalityType

LEMMA InitIInv == Init => IInv
<1> SUFFICES ASSUME Init PROVE IInv
  OBVIOUS
<1>1. CallsTyped
  BY DEF Init, CallsTyped, CallState, Idle, Pc, Kind, None
<1>2. QuotaTyped
  BY DEF Init, QuotaTyped, NoSnapshot
<1>3. ConnTyped
  BY DEF Init, ConnTyped, None
<1>4. \A c \in Call : ~Holding(c) /\ lock # c
  BY BackendAssumption DEF Init, Holding, At, Idle
<1>5. Cardinality(aged) = 0
  BY FS_EmptySet DEF Init
<1>6. ConnInv
  BY <1>3, <1>4, <1>5 DEF Init, ConnInv, LockHeld, ClientOfSession, ExchangeNeeded,
     OneExchange, NextIsPaidFor, NoStaleSession, Holding, ConnTyped
<1> QED
  BY <1>1, <1>2, <1>3, <1>6 DEF IInv, TypeOK

\* A step of one call that neither takes nor leaves the lock's section, and
\* leaves the connection alone, keeps the connection's invariant.
LEMMA ElsewhereConnInv ==
    ASSUME IInv, UNCHANGED <<conn, aged, dead, history>>,
           \A d \in Call : /\ At(d, "exchanging")' <=> At(d, "exchanging")
                           /\ At(d, "building")' <=> At(d, "building")
    PROVE  ConnTyped' /\ ConnInv'
BY DEF IInv, TypeOK, ConnTyped, ConnInv, conn, history, LockHeld, ClientOfSession,
   ExchangeNeeded, OneExchange, NextIsPaidFor, NoStaleSession, Holding, Unfit, At

\* Charging keeps the allocator's types, whoever charges.
LEMMA ConsumeTyped ==
    ASSUME QuotaTyped, NEW p \in Process, Consume(p)
    PROVE  QuotaTyped'
BY DEF QuotaTyped, Consume

------------------------------------------------------------------------------
(* What a call does by itself.                                              *)

\* End and Retries leave a call of the right type behind, out of the lock's
\* section.
LEMMA FailsTyped ==
    ASSUME CallsTyped, NEW c \in Call, Fails(c)
    PROVE  /\ CallsTyped'
           /\ ~Holding(c)'
           /\ \A d \in Call \ {c} : call'[d] = call[d]
<1>1. CASE End(c)
  BY <1>1 DEF CallsTyped, CallState, End, Idle, Holding, At, Pc, Kind, None
<1>2. CASE Retries(c)
  BY <1>2 DEF CallsTyped, CallState, Retries, Holding, At, Pc
<1> QED
  BY <1>1, <1>2 DEF Fails

\* The steps outside the lock's section.
LEMMA OutsideIInv ==
    ASSUME IInv, NEW c \in Call,
           \/ \E kind \in Kind : Begin(c, kind)
           \/ Connect(c) \/ Answers(c) \/ Refused(c)
           \/ NextPage(c) \/ PageExhausted(c) \/ NotFound(c)
    PROVE  IInv'
<1> USE DEF IInv, TypeOK
<1>1. /\ CallsTyped /\ client \in Nat /\ None \in Nat
  BY DEF ConnTyped, None
<1>2. /\ CallsTyped'
      /\ ~Holding(c) /\ ~Holding(c)'
      /\ \A d \in Call \ {c} : call'[d] = call[d]
      /\ UNCHANGED <<conn, aged, dead, history>>
      /\ Consume(Own) \/ UNCHANGED quota
  <2>1. CASE \E kind \in Kind : Begin(c, kind)
    <3>1. PICK kind \in Kind : Begin(c, kind)
      BY <2>1
    <3> QED
      BY <1>1, <3>1 DEF Begin, CallsTyped, CallState, Holding, At, Pc
  <2>2. CASE Connect(c)
    BY <1>1, <2>2 DEF Connect, CallsTyped, CallState, Holding, At, Pc
  <2>3. CASE Answers(c)
    <3>1. ~Holding(c) /\ UNCHANGED <<conn, aged, dead, quota, history>>
      BY <2>3 DEF Answers, Holding, At
    <3>2. CASE End(c)
      BY <1>1, <3>1, <3>2, FailsTyped DEF Fails
    <3>3. CASE Goto(c, "paging")
      BY <1>1, <3>1, <3>3 DEF Goto, CallsTyped, CallState, Holding, At, Pc
    <3> QED
      BY <2>3, <3>2, <3>3 DEF Answers
  <2>4. CASE Refused(c) \/ PageExhausted(c) \/ NotFound(c)
    BY <1>1, <2>4, FailsTyped DEF Refused, PageExhausted, NotFound, Fails, Holding, At
  <2>5. CASE NextPage(c)
    BY <1>1, <2>5 DEF NextPage, Goto, CallsTyped, CallState, Holding, At, Pc
  <2> QED
    BY <2>1, <2>2, <2>3, <2>4, <2>5
<1>3. \A d \in Call : /\ At(d, "exchanging")' <=> At(d, "exchanging")
                      /\ At(d, "building")' <=> At(d, "building")
  BY <1>2 DEF Holding, At
<1>4. ConnTyped' /\ ConnInv'
  BY <1>2, <1>3, ElsewhereConnInv
<1>5. QuotaTyped'
  BY <1>2, BackendAssumption, ConsumeTyped DEF QuotaTyped, quota
<1> QED
  BY <1>2, <1>4, <1>5

\* Taking the lock: nobody else is inside, and there is no client.
LEMMA LockIInv ==
    ASSUME IInv, NEW c \in Call, Lock(c)
    PROVE  IInv'
<1> USE DEF IInv, TypeOK
<1>1. /\ At(c, "waiting") /\ lock = Free /\ QuotaTyped'
      /\ UNCHANGED <<client, session, minted, aged, dead, dropped, invalidations>>
  BY DEF Lock, QuotaTyped, quota, history
<1>2. \A d \in Call : ~Holding(d) /\ d # Free
  BY <1>1, BackendAssumption DEF ConnInv, LockHeld
<1>3. CASE client # None
  <2>1. /\ call' = [call EXCEPT ![c].pc = "ready", ![c].using = client]
        /\ lock' = Free
    BY <1>1, <1>3 DEF Lock
  <2>2. CallsTyped'
    <3>1. client \in Nat
      BY DEF ConnTyped, None
    <3> QED
      BY <2>1, <3>1 DEF CallsTyped, CallState, Pc
  <2>3. \A d \in Call : ~Holding(d)'
    BY <1>2, <2>1 DEF CallsTyped, CallState, Holding, At
  <2> QED
    BY <1>1, <1>2, <2>1, <2>2, <2>3 DEF ConnTyped, ConnInv, LockHeld, ClientOfSession,
       ExchangeNeeded, OneExchange, NextIsPaidFor, NoStaleSession, Unfit, Holding
<1>4. CASE client = None
  <2>1. lock' = c /\ Goto(c, IF Cached THEN "building" ELSE "exchanging")
    BY <1>1, <1>4 DEF Lock
  <2>2. CallsTyped'
    BY <2>1 DEF CallsTyped, CallState, Goto, Pc
  <2>3. /\ Holding(c)' /\ \A d \in Call \ {c} : ~Holding(d)'
        /\ At(c, "exchanging")' => Unfit
        /\ At(c, "building")' => session # None
    BY <1>2, <2>1 DEF CallsTyped, CallState, Goto, Holding, At, Cached, Unfit
  <2> QED
    BY <1>1, <1>2, <1>4, <2>1, <2>2, <2>3 DEF ConnTyped, ConnInv, LockHeld,
       ClientOfSession, ExchangeNeeded, OneExchange, NextIsPaidFor, NoStaleSession, Unfit,
       Holding
<1> QED
  BY <1>3, <1>4

\* Inside the lock there is one call.
LEMMA HolderIsAlone ==
    ASSUME IInv, NEW c \in Call, Holding(c)
    PROVE  lock = c /\ client = None /\ \A d \in Call \ {c} : ~Holding(d)
BY DEF IInv, ConnInv, LockHeld, ClientOfSession

\* A session is obtained: the one before it was unfit, so it is paid for, and
\* it is younger than any that was invalidated or has aged.
LEMMA ExchangeIInv ==
    ASSUME IInv, NEW c \in Call, Exchange(c)
    PROVE  IInv'
<1> USE DEF IInv, TypeOK
<1>1. /\ At(c, "exchanging") /\ Goto(c, "building")
      /\ minted' = minted + 1 /\ session' = minted + 1
      /\ UNCHANGED <<client, lock, aged, dead, dropped, invalidations>> /\ QuotaTyped'
  BY DEF Exchange, QuotaTyped, quota, history
<1>2. lock = c /\ client = None /\ \A d \in Call \ {c} : ~Holding(d)
  BY <1>1, HolderIsAlone DEF Holding
<1>3. CallsTyped'
  BY <1>1 DEF CallsTyped, CallState, Goto, Pc
<1>4. At(c, "building")' /\ \A d \in Call \ {c} : ~Holding(d)'
  BY <1>1, <1>2 DEF CallsTyped, CallState, Goto, Holding, At
<1>5. ~At(c, "exchanging")' /\ Holding(c)'
  BY <1>4 DEF At, Holding
<1>6. minted \in Nat /\ \A s \in aged \cup dead \cup dropped : s \in 1..minted
  BY DEF ConnTyped
<1>7. ConnTyped'
  BY <1>1, <1>2, <1>6 DEF ConnTyped, None
<1>8. OneExchange'
  BY <1>1, <1>6, AgedIsFinite DEF ConnInv, ExchangeNeeded, NextIsPaidFor, OneExchange,
     ConnTyped
<1>9. session' \notin aged' /\ session' # None /\ session' \notin dropped' /\ 0 \notin dropped'
  BY <1>1, <1>6 DEF None
<1> QED
  BY <1>1, <1>2, <1>3, <1>4, <1>5, <1>7, <1>8, <1>9 DEF ConnInv, LockHeld, ClientOfSession,
     ExchangeNeeded, NextIsPaidFor, NoStaleSession, Unfit, Holding, None

\* The exchange or the client's constructor raises: the lock is given back and
\* the cache is as it was, so whoever is next needs an exchange as much.
LEMMA ConnectFailsIInv ==
    ASSUME IInv, NEW c \in Call, ExchangeFails(c) \/ BuildFails(c)
    PROVE  IInv'
<1> USE DEF IInv, TypeOK
<1>1. /\ Holding(c) /\ lock' = Free /\ Fails(c) /\ QuotaTyped'
      /\ UNCHANGED <<client, session, minted, aged, dead, dropped, invalidations>>
  BY DEF ExchangeFails, BuildFails, Holding, QuotaTyped, quota, history
<1>2. \A d \in Call \ {c} : ~Holding(d)
  BY <1>1, HolderIsAlone
<1>3. CallsTyped' /\ ~Holding(c)' /\ \A d \in Call \ {c} : call'[d] = call[d]
  BY <1>1, FailsTyped
<1>4. \A d \in Call : ~Holding(d)' /\ d # Free
  BY <1>2, <1>3, BackendAssumption DEF Holding, At
<1> QED
  BY <1>1, <1>3, <1>4 DEF ConnTyped, ConnInv, LockHeld, ClientOfSession, ExchangeNeeded,
     OneExchange, NextIsPaidFor, NoStaleSession, Unfit, Holding

\* The client is the cached session's, and the lock is given back.
LEMMA BuildIInv ==
    ASSUME IInv, NEW c \in Call, Build(c)
    PROVE  IInv'
<1> USE DEF IInv, TypeOK
<1>1. /\ Holding(c) /\ lock' = Free /\ client' = session /\ QuotaTyped'
      /\ call' = [call EXCEPT ![c].pc = "ready", ![c].using = session]
      /\ UNCHANGED <<session, minted, aged, dead, dropped, invalidations>>
  BY DEF Build, Holding, QuotaTyped, quota, history
<1>2. \A d \in Call \ {c} : ~Holding(d)
  BY <1>1, HolderIsAlone
<1>3. CallsTyped'
  <2>1. session \in Nat
    BY DEF ConnTyped, None
  <2> QED
    BY <1>1, <2>1 DEF CallsTyped, CallState, Pc
<1>4. \A d \in Call : ~Holding(d)' /\ d # Free
  BY <1>1, <1>2, BackendAssumption DEF CallsTyped, CallState, Holding, At
<1> QED
  BY <1>1, <1>3, <1>4 DEF ConnTyped, ConnInv, LockHeld, ClientOfSession, ExchangeNeeded,
     OneExchange, NextIsPaidFor, NoStaleSession, Unfit, Holding

\* An invalidation waits for the lock, so it never falls between an exchange
\* and the client built from it; it pays for the next exchange.
LEMMA InvalidateIInv ==
    ASSUME IInv, NEW c \in Call, Invalidate(c)
    PROVE  IInv'
<1> USE DEF IInv, TypeOK
<1>1. /\ At(c, "invalidating") /\ lock = Free /\ Goto(c, "connecting") /\ QuotaTyped'
      /\ client' = None /\ session' = None /\ dropped' = 1..minted
      /\ invalidations' = invalidations + 1
      /\ UNCHANGED <<lock, minted, aged, dead>>
  BY DEF Invalidate, QuotaTyped, quota
<1>2. CallsTyped'
  BY <1>1 DEF CallsTyped, CallState, Goto, Pc
<1>3. \A d \in Call : ~Holding(d) /\ d # Free
  BY <1>1, BackendAssumption DEF ConnInv, LockHeld
<1>4. \A d \in Call : ~Holding(d)'
  BY <1>1, <1>3 DEF CallsTyped, CallState, Goto, Holding, At
<1>5. minted \in Nat /\ invalidations \in Nat /\ None = 0
  BY DEF ConnTyped, None
<1>6. minted <= invalidations' + Cardinality(aged)
  BY <1>1, <1>5, AgedIsFinite DEF ConnInv, OneExchange
<1>7. OneExchange' /\ NextIsPaidFor'
  BY <1>1, <1>5, <1>6, AgedIsFinite DEF OneExchange, NextIsPaidFor
<1>8. NoStaleSession'
  BY <1>1, <1>5 DEF NoStaleSession
<1>9. ConnTyped'
  BY <1>1, <1>5 DEF ConnTyped
<1> QED
  BY <1>1, <1>2, <1>3, <1>4, <1>7, <1>8, <1>9 DEF ConnInv, LockHeld, ClientOfSession,
     ExchangeNeeded, Holding

------------------------------------------------------------------------------
(* Salesforce, the clock and the other processes.                           *)

\* A session that ages pays for the exchange that may replace it.
LEMMA AgeIInv ==
    ASSUME IInv, NEW s, Age(s)
    PROVE  IInv'
<1> USE DEF IInv, TypeOK
<1>1. /\ s \in (1..minted) \ aged /\ aged' = aged \cup {s}
      /\ UNCHANGED <<call, client, session, lock, minted, dead, dropped, invalidations>>
      /\ QuotaTyped' /\ CallsTyped'
  BY DEF Age, conn, history, QuotaTyped, quota, CallsTyped
<1>2. Cardinality(aged') = Cardinality(aged) + 1
  BY <1>1, AgedIsFinite, FS_AddElement
<1>3. minted \in Nat /\ invalidations \in Nat /\ Cardinality(aged) \in Nat
  BY AgedIsFinite DEF ConnTyped
<1>4. OneExchange' /\ NextIsPaidFor'
  BY <1>1, <1>2, <1>3 DEF ConnInv, OneExchange, NextIsPaidFor
<1>5. ConnTyped'
  BY <1>1 DEF ConnTyped
<1> QED
  BY <1>1, <1>4, <1>5 DEF ConnInv, LockHeld, ClientOfSession, ExchangeNeeded,
     NoStaleSession, Unfit, Holding, At

\* A revocation, a snapshot and another process's charge leave the
\* connection alone.
LEMMA ElsewhereIInv ==
    ASSUME IInv,
           \/ \E s \in 1..MaxSessions : Revoke(s)
           \/ \E n \in 0..MaxRemaining : Refresh(n)
           \/ \E p \in Process : OtherConsumes(p)
           \/ UNCHANGED vars
    PROVE  IInv'
<1> USE DEF IInv, TypeOK
<1>1. CASE \E s \in 1..MaxSessions : Revoke(s)
  <2>1. PICK s \in 1..MaxSessions : Revoke(s)
    BY <1>1
  <2> QED
    BY <2>1 DEF Revoke, CallsTyped, QuotaTyped, ConnTyped, conn, quota, history, ConnInv,
       LockHeld, ClientOfSession, ExchangeNeeded, OneExchange, NextIsPaidFor,
       NoStaleSession, Unfit, Holding, At
<1>2. CASE \E n \in 0..MaxRemaining : Refresh(n)
  <2>1. PICK n \in 0..MaxRemaining : Refresh(n)
    BY <1>2
  <2>2. CallsTyped' /\ QuotaTyped' /\ UNCHANGED <<call, conn, aged, dead, history>>
    BY <2>1, BackendAssumption DEF Refresh, CallsTyped, QuotaTyped
  <2> QED
    BY <2>2, ElsewhereConnInv DEF At
<1>3. CASE \E p \in Process : OtherConsumes(p)
  <2>1. CallsTyped' /\ QuotaTyped' /\ UNCHANGED <<call, conn, aged, dead, history>>
    BY <1>3, ConsumeTyped DEF OtherConsumes, CallsTyped
  <2> QED
    BY <2>1, ElsewhereConnInv DEF At
<1>4. CASE UNCHANGED vars
  <2>1. CallsTyped' /\ QuotaTyped' /\ UNCHANGED <<call, conn, aged, dead, history>>
    BY <1>4 DEF vars, quota, CallsTyped, QuotaTyped
  <2> QED
    BY <2>1, ElsewhereConnInv DEF At
<1> QED
  BY <1>1, <1>2, <1>3, <1>4

\* IInv is inductive.
LEMMA NextIInv == IInv /\ [Next]_vars => IInv'
<1> SUFFICES ASSUME IInv, [Next]_vars PROVE IInv'
  OBVIOUS
<1>1. ASSUME NEW c \in Call, Proceed(c)
      PROVE  IInv'
  BY <1>1, OutsideIInv, LockIInv, ExchangeIInv, ConnectFailsIInv, BuildIInv,
     InvalidateIInv DEF Proceed
<1>2. ASSUME NEW c \in Call, \E kind \in Kind : Begin(c, kind)
      PROVE  IInv'
  BY <1>2, OutsideIInv
<1>3. ASSUME NEW s \in 1..MaxSessions, Age(s)
      PROVE  IInv'
  BY <1>3, AgeIInv
<1> QED
  BY <1>1, <1>2, <1>3, ElsewhereIInv DEF Next

------------------------------------------------------------------------------

LEMMA SpecIInv == Spec => []IInv
BY InitIInv, NextIInv, PTL DEF Spec

\* The types of the calls, the allocator and the connection; among them, that
\* the client is the cached session's or none and that session is the last one
\* obtained or none (connect, invalidate_session).
THEOREM TypeCorrect == Spec => []TypeOK
BY SpecIInv, PTL DEF IInv

\* However many calls connect at once, at most one exchanges or builds, and it
\* is the one that holds _connect_lock, on the paths that raise too.
THEOREM OneConnects ==
    Spec => [](\A c, d \in Call : Holding(c) /\ Holding(d) => c = d)
<1>1. IInv => \A c, d \in Call : Holding(c) /\ Holding(d) => c = d
  BY DEF IInv, ConnInv, LockHeld
<1> QED
  BY <1>1, SpecIInv, PTL

\* A session is obtained only for the first connect, after an invalidation or
\* for one past its TTL, for any number of concurrent calls (connect's double
\* check under the lock).
THEOREM SessionsArePaidFor == Spec => []OneExchange
BY SpecIInv, PTL DEF IInv, ConnInv

\* After invalidate_session neither the client nor the cache ever holds a
\* session from before it.
THEOREM NoSessionReturns == Spec => []NoStaleSession
BY SpecIInv, PTL DEF IInv, ConnInv

------------------------------------------------------------------------------
(* Sums over the processes, which is how MapThenSumSet takes them.          *)

Weights == [Process -> Nat]
Picked(s) == CHOOSE p \in s : TRUE
IsSum(f, it) ==
    it = [s \in SUBSET Process |-> IF s = {} THEN 0 ELSE f[Picked(s)] + it[s \ {Picked(s)}]]
Partial(f) == CHOOSE it : IsSum(f, it)
Total(f) == Partial(f)[Process]

LEMMA SumExists ==
    ASSUME NEW f \in Weights
    PROVE  IsSum(f, Partial(f)) /\ Partial(f) \in [SUBSET Process -> Nat]
<1> DEFINE add == [x \in Process \X Nat |-> f[x[1]] + x[2]]
           pick == [s \in SUBSET Process |-> Picked(s)]
<1>1. \A s \in SUBSET Process : s # {} => Picked(s) \in s
  BY DEF Picked
<1>2. add \in [Process \X Nat -> Nat] /\ \A s \in SUBSET Process : s # {} => pick[s] \in s
  BY <1>1 DEF Weights
<1>3. PICK it \in [SUBSET Process -> Nat] : Iterated(Process, pick, 0, add, it)
  <2> HIDE DEF add, pick
  <2> QED
    BY <1>2, BackendAssumption, IterationExists
<1>4. \A s \in SUBSET Process : s # {} =>
          <<pick[s], it[s \ {pick[s]}]>> \in Process \X Nat
  BY <1>1
<1>5. \A s \in SUBSET Process :
          it[s] = IF s = {} THEN 0 ELSE f[Picked(s)] + it[s \ {Picked(s)}]
  BY <1>3, <1>4 DEF Iterated
<1>6. it = [s \in SUBSET Process |-> it[s]]
  OBVIOUS
<1>7. IsSum(f, it)
  BY <1>5, <1>6 DEF IsSum
<1>8. IsSum(f, Partial(f))
  BY <1>7, Zenon DEF Partial
<1>9. Partial(f) \in [SUBSET Process -> Nat]
  <2> DEFINE sums == Partial(f)
             Good == {s \in SUBSET Process : sums[s] \in Nat}
  <2>1. \A s \in SUBSET Process :
            sums[s] = IF s = {} THEN 0 ELSE f[Picked(s)] + sums[s \ {Picked(s)}]
    BY <1>8 DEF IsSum
  <2>2. sums = [s \in SUBSET Process |-> sums[s]]
    BY <1>8 DEF IsSum
  <2> HIDE DEF sums
  <2>3. {} \in Good
    <3>1. {} \in SUBSET Process
      OBVIOUS
    <3>2. sums[{}] = 0
      BY <2>1, <3>1
    <3> QED
      BY <3>1, <3>2
  <2>4. \A s \in SUBSET Process : s # {} => \E x \in s : s \ {x} \in Good => s \in Good
    <3> SUFFICES ASSUME NEW s \in SUBSET Process, s # {}, s \ {Picked(s)} \in Good
                 PROVE  s \in Good
      BY <1>1
    <3> QED
      BY <1>1, <2>1 DEF Weights
  <2> HIDE DEF Good
  <2>5. \A s \in SUBSET Process : s \in Good
    BY <2>3, <2>4, BackendAssumption, SubsetsByPicking
  <2> QED
    BY <2>2, <2>5 DEF Good, sums
<1> QED
  BY <1>8, <1>9

LEMMA TotalWeightIsTotal == TotalWeight = Total(Weight)
BY Zenon DEF TotalWeight, Total, Partial, IsSum, Picked, MapThenSumSet, MapThenFoldSet

\* What the sums do: they are taken in one order, so they compare step by step.
LEMMA SumSteps ==
    ASSUME NEW f \in Weights, NEW s \in SUBSET Process, s # {}
    PROVE  /\ Picked(s) \in s /\ Picked(s) \in Process /\ s \ {Picked(s)} \in SUBSET Process
           /\ Partial(f)[s] = f[Picked(s)] + Partial(f)[s \ {Picked(s)}]
           /\ Partial(f)[s] \in Nat /\ Partial(f)[s \ {Picked(s)}] \in Nat
           /\ f[Picked(s)] \in Nat
<1>1. Picked(s) \in s
  BY DEF Picked
<1>2. Partial(f)[s] = f[Picked(s)] + Partial(f)[s \ {Picked(s)}]
  BY SumExists DEF IsSum
<1> QED
  BY <1>1, <1>2, SumExists DEF Weights

LEMMA SumEmpty == ASSUME NEW f \in Weights PROVE Partial(f)[{}] = 0
<1>1. {} \in SUBSET Process
  OBVIOUS
<1> QED
  BY <1>1, SumExists DEF IsSum

LEMMA TotalType == ASSUME NEW f \in Weights PROVE Total(f) \in Nat
<1>1. Process \in SUBSET Process
  OBVIOUS
<1> QED
  BY <1>1, SumExists DEF Total

\* One more for one process is one more in all.
LEMMA TotalOfOneMore ==
    ASSUME NEW f \in Weights, NEW g \in Weights, NEW q \in Process,
           g[q] = f[q] + 1, \A p \in Process \ {q} : g[p] = f[p]
    PROVE  Total(g) = Total(f) + 1
<1> DEFINE Good == {s \in SUBSET Process :
                       Partial(g)[s] = Partial(f)[s] + IF q \in s THEN 1 ELSE 0}
<1>1. {} \in Good
  BY SumEmpty
<1>2. ASSUME NEW s \in SUBSET Process, s # {}
      PROVE  \E x \in s : s \ {x} \in Good => s \in Good
  <2>1. PICK x : x = Picked(s)
    OBVIOUS
  <2>2. /\ x \in s /\ x \in Process /\ s \ {x} \in SUBSET Process
        /\ Partial(f)[s] = f[x] + Partial(f)[s \ {x}]
        /\ Partial(g)[s] = g[x] + Partial(g)[s \ {x}]
        /\ f[x] \in Nat /\ Partial(f)[s \ {x}] \in Nat
    BY <1>2, <2>1, SumSteps
  <2>3. ASSUME s \ {x} \in Good  PROVE s \in Good
    <3>1. CASE x = q
      BY <2>2, <2>3, <3>1
    <3>2. CASE x # q
      <4>1. q \in s <=> q \in s \ {x}
        BY <3>2
      <4> QED
        BY <2>2, <2>3, <3>2, <4>1
    <3> QED
      BY <3>1, <3>2
  <2> QED
    BY <2>2, <2>3
<1> HIDE DEF Good
<1>3. \A s \in SUBSET Process : s \in Good
  BY <1>1, <1>2, BackendAssumption, SubsetsByPicking
<1>4. Process \in SUBSET Process
  OBVIOUS
<1> QED
  BY <1>3, <1>4 DEF Good, Total

\* What every process has at most, all have at most.
LEMMA TotalGrows ==
    ASSUME NEW f \in Weights, NEW g \in Weights, \A p \in Process : f[p] <= g[p]
    PROVE  Total(f) <= Total(g)
<1> DEFINE Good == {s \in SUBSET Process : Partial(f)[s] <= Partial(g)[s]}
<1>1. {} \in Good
  BY SumEmpty
<1>2. ASSUME NEW s \in SUBSET Process, s # {}
      PROVE  \E x \in s : s \ {x} \in Good => s \in Good
  <2>1. PICK x : x = Picked(s)
    OBVIOUS
  <2>2. /\ x \in s /\ x \in Process /\ s \ {x} \in SUBSET Process
        /\ Partial(f)[s] = f[x] + Partial(f)[s \ {x}]
        /\ Partial(g)[s] = g[x] + Partial(g)[s \ {x}]
        /\ f[x] \in Nat /\ Partial(f)[s \ {x}] \in Nat
        /\ g[x] \in Nat /\ Partial(g)[s \ {x}] \in Nat
    BY <1>2, <2>1, SumSteps
  <2>3. f[x] <= g[x]
    BY <2>2
  <2>4. ASSUME s \ {x} \in Good  PROVE s \in Good
    BY <2>2, <2>3, <2>4
  <2> QED
    BY <2>2, <2>4
<1> HIDE DEF Good
<1>3. \A s \in SUBSET Process : s \in Good
  BY <1>1, <1>2, BackendAssumption, SubsetsByPicking
<1>4. Process \in SUBSET Process
  OBVIOUS
<1> QED
  BY <1>3, <1>4 DEF Good, Total

------------------------------------------------------------------------------
(* The shares of a budget.                                                  *)

LEMMA DivisionRoundsDown ==
    ASSUME NEW a \in Nat, NEW t \in Nat \ {0}
    PROVE  a \div t \in Nat /\ t * (a \div t) <= a
OBVIOUS

LEMMA TotalWeightPositive == TotalWeight \in Nat \ {0}
<1>1. Weight \in Weights /\ Process \in SUBSET Process /\ Process # {}
  BY BackendAssumption DEF Weights
<1>2. PICK x : x = Picked(Process)
  OBVIOUS
<1>3. x \in Process /\ Total(Weight) = Weight[x] + Partial(Weight)[Process \ {x}]
      /\ Partial(Weight)[Process \ {x}] \in Nat
  BY <1>1, <1>2, SumSteps DEF Total
<1>4. Weight[x] \in Nat \ {0}
  BY <1>3, BackendAssumption
<1> QED
  BY <1>3, <1>4, TotalWeightIsTotal

LEMMA SharesFit ==
    ASSUME NEW r \in Nat, NEW shares,
           shares = [p \in Process |-> (r * Weight[p]) \div TotalWeight]
    PROVE  shares \in Weights /\ Total(shares) <= r
<1>1. PICK t \in Nat \ {0} : t = TotalWeight
  BY TotalWeightPositive
<1>2. Weight \in Weights
  BY BackendAssumption DEF Weights
<1>3. ASSUME NEW p \in Process
      PROVE  shares[p] \in Nat /\ t * shares[p] <= r * Weight[p]
  <2>1. PICK a \in Nat : a = r * Weight[p]
    BY <1>2 DEF Weights
  <2>2. shares[p] = a \div t
    BY <1>1, <2>1
  <2> QED
    BY <2>1, <2>2, DivisionRoundsDown
<1>4. shares \in Weights
  BY <1>3 DEF Weights
<1> DEFINE Good == {s \in SUBSET Process : t * Partial(shares)[s] <= r * Partial(Weight)[s]}
<1>5. {} \in Good
  <2>1. Partial(shares)[{}] = 0 /\ Partial(Weight)[{}] = 0
    BY <1>2, <1>4, SumEmpty
  <2> QED
    BY <2>1
<1>6. ASSUME NEW s \in SUBSET Process, s # {}
      PROVE  \E x \in s : s \ {x} \in Good => s \in Good
  <2>1. PICK x : x = Picked(s)
    OBVIOUS
  <2>2. /\ x \in s /\ x \in Process /\ s \ {x} \in SUBSET Process
        /\ Partial(shares)[s] = shares[x] + Partial(shares)[s \ {x}]
        /\ Partial(Weight)[s] = Weight[x] + Partial(Weight)[s \ {x}]
        /\ shares[x] \in Nat /\ Partial(shares)[s \ {x}] \in Nat
        /\ Weight[x] \in Nat /\ Partial(Weight)[s \ {x}] \in Nat
    BY <1>2, <1>4, <1>6, <2>1, SumSteps
  <2>3. PICK a \in Nat, b \in Nat, c \in Nat, d \in Nat :
            a = shares[x] /\ b = Partial(shares)[s \ {x}]
            /\ c = Weight[x] /\ d = Partial(Weight)[s \ {x}]
    BY <2>2
  <2>4. t * (a + b) = t * a + t * b /\ r * (c + d) = r * c + r * d
    OBVIOUS
  <2>5. t * a <= r * c
    BY <1>3, <2>2, <2>3
  <2>6. ASSUME s \ {x} \in Good  PROVE s \in Good
    <3>1. t * b <= r * d
      BY <2>3, <2>6
    <3>2. t * (a + b) <= r * (c + d)
      BY <2>4, <2>5, <3>1
    <3> QED
      BY <2>2, <2>3, <3>2
  <2> QED
    BY <2>2, <2>6
<1> HIDE DEF Good
<1>7. \A s \in SUBSET Process : s \in Good
  BY <1>5, <1>6, BackendAssumption, SubsetsByPicking
<1>8. t * Total(shares) <= r * t
  <2>1. Process \in SUBSET Process
    OBVIOUS
  <2> QED
    BY <1>1, <1>7, <2>1, TotalWeightIsTotal DEF Good, Total
<1>9. PICK m \in Nat : m = Total(shares)
  BY <1>4, TotalType
<1>10. m <= r
  <2>1. SUFFICES ASSUME r + 1 <= m  PROVE FALSE
    OBVIOUS
  <2>2. t * (r + 1) <= t * m
    BY <2>1
  <2>3. t * (r + 1) = r * t + t
    OBVIOUS
  <2> QED
    BY <1>8, <1>9, <2>2, <2>3
<1> QED
  BY <1>4, <1>9, <1>10

------------------------------------------------------------------------------
(* The budget.                                                              *)

Share(p) == (remaining * Weight[p]) \div TotalWeight

\* What a process may have charged since the last snapshot: all it ever
\* consumed while that is within its share, and nothing when it is not, since
\* then it was already past its share when the snapshot came.
Spent == [p \in Process |-> IF consumed[p] <= Share(p) THEN consumed[p] ELSE 0]

BudgetType == /\ consumed \in [Process -> Nat]
              /\ remaining \in Nat \cup {NoSnapshot} /\ charged \in Nat
BudgetInv ==
    /\ BudgetType
    /\ remaining = NoSnapshot => charged = 0
    /\ remaining # NoSnapshot => charged <= Total(Spent)

\* What is spent is typed and within the shares, and the shares fit the budget.
LEMMA SpentFits ==
    ASSUME BudgetType, remaining # NoSnapshot
    PROVE  /\ Spent \in Weights
           /\ \A p \in Process : Share(p) \in Nat
           /\ Total(Spent) <= remaining
<1>1. remaining \in Nat
  BY DEF BudgetType
<1>2. PICK shares : shares = [p \in Process |-> (remaining * Weight[p]) \div TotalWeight]
  OBVIOUS
<1>3. shares \in Weights /\ Total(shares) <= remaining
  BY <1>1, <1>2, SharesFit
<1>4. \A p \in Process : shares[p] = Share(p) /\ shares[p] \in Nat
  BY <1>2, <1>3 DEF Share, Weights
<1>5. Spent \in Weights
  BY <1>4 DEF Spent, Weights, BudgetType
<1>6. \A p \in Process : Spent[p] <= shares[p]
  BY <1>4 DEF Spent, BudgetType
<1>7. Total(Spent) <= Total(shares)
  BY <1>3, <1>5, <1>6, TotalGrows
<1>8. Total(Spent) \in Nat /\ Total(shares) \in Nat
  BY <1>3, <1>5, TotalType
<1> QED
  BY <1>1, <1>3, <1>4, <1>5, <1>7, <1>8

\* A process that may consume raises what it spent, and what all spent, by one.
LEMMA ConsumeKeepsBudget ==
    ASSUME BudgetInv, NEW q \in Process, Consume(q)
    PROVE  BudgetInv'
<1>1. /\ remaining # NoSnapshot /\ remaining \in Nat /\ Allowance(q) >= 1
      /\ remaining' = remaining
      /\ consumed' = [consumed EXCEPT ![q] = @ + 1]
      /\ charged' = charged + 1
      /\ consumed \in [Process -> Nat] /\ charged \in Nat
  BY DEF Consume, MayConsume, BudgetInv, BudgetType
<1>2. BudgetType /\ BudgetType'
  BY <1>1 DEF BudgetInv, BudgetType
<1>3. \A p \in Process : Share(p)' = Share(p)
  BY <1>1 DEF Share
<1>4. Spent \in Weights /\ \A p \in Process : Share(p) \in Nat
  BY <1>1, <1>2, SpentFits
<1>5. consumed[q] + 1 <= Share(q)
  <2>1. Share(q) - consumed[q] >= 1
    BY <1>1 DEF Allowance, Share
  <2> QED
    BY <1>1, <1>4, <2>1
<1> DEFINE after == [p \in Process |-> IF consumed'[p] <= Share(p) THEN consumed'[p] ELSE 0]
<1>6. Spent' = after
  BY <1>3 DEF Spent
<1>7. PICK f, g : f = Spent /\ g = after
  OBVIOUS
<1>8. g[q] = f[q] + 1 /\ \A p \in Process \ {q} : g[p] = f[p]
  BY <1>1, <1>4, <1>5, <1>7 DEF Spent
<1>9. g \in Weights
  BY <1>1, <1>2, <1>4, <1>7 DEF Weights, BudgetType
<1>10. Total(g) = Total(f) + 1 /\ Total(f) \in Nat
  BY <1>4, <1>7, <1>8, <1>9, TotalOfOneMore, TotalType
<1>11. Total(Spent)' = Total(g)
  BY <1>6, <1>7
<1>12. charged <= Total(f)
  BY <1>1, <1>7 DEF BudgetInv
<1>13. charged + 1 <= Total(g)
  BY <1>1, <1>10, <1>12
<1> QED
  BY <1>1, <1>2, <1>11, <1>13 DEF BudgetInv

\* A snapshot starts the count anew.
LEMMA RefreshKeepsBudget ==
    ASSUME BudgetInv, NEW n \in 0..MaxRemaining, Refresh(n)
    PROVE  BudgetInv'
<1>1. remaining' = n /\ n \in Nat /\ charged' = 0 /\ consumed' = consumed
  BY BackendAssumption DEF Refresh
<1>2. BudgetType' /\ remaining' # NoSnapshot
  BY <1>1 DEF BudgetInv, BudgetType, NoSnapshot
<1> DEFINE after == [p \in Process |->
                        IF consumed[p] <= (n * Weight[p]) \div TotalWeight
                        THEN consumed[p] ELSE 0]
<1>3. after \in Weights
  BY DEF BudgetInv, BudgetType, Weights
<1>4. Spent' = after
  BY <1>1 DEF Spent, Share
<1>5. PICK f : f = after
  OBVIOUS
<1>6. Total(f) \in Nat
  BY <1>3, <1>5, TotalType
<1>7. Total(Spent)' = Total(f)
  BY <1>4, <1>5
<1>8. charged' <= Total(Spent)'
  BY <1>1, <1>6, <1>7
<1> QED
  BY <1>1, <1>2, <1>8 DEF BudgetInv

LEMMA BudgetStep == ASSUME BudgetInv, [Next]_vars  PROVE BudgetInv'
<1>1. ASSUME UNCHANGED quota
      PROVE  BudgetInv'
  <2>1. remaining' = remaining /\ consumed' = consumed /\ charged' = charged
    BY <1>1 DEF quota
  <2>2. Spent' = Spent
    BY <2>1 DEF Spent, Share
  <2>3. PICK f : f = Spent
    OBVIOUS
  <2>4. Total(Spent)' = Total(f) /\ Total(Spent) = Total(f)
    BY <2>2, <2>3
  <2> QED
    BY <2>1, <2>4 DEF BudgetInv, BudgetType
<1>2. ASSUME NEW q \in Process, Consume(q)
      PROVE  BudgetInv'
  BY <1>2, ConsumeKeepsBudget
<1>3. ASSUME NEW n \in 0..MaxRemaining, Refresh(n)
      PROVE  BudgetInv'
  BY <1>3, RefreshKeepsBudget
<1>4. ASSUME NEW c \in Call, Proceed(c)
      PROVE  UNCHANGED quota \/ Consume(Own)
  BY <1>4 DEF Proceed, Connect, Lock, Exchange, ExchangeFails, Build, BuildFails, Answers,
              Refused, NextPage, PageExhausted, NotFound, Invalidate
<1>5. CASE UNCHANGED vars
  <2>1. UNCHANGED quota
    BY <1>5 DEF vars
  <2> QED
    BY <1>1, <2>1
<1>6. CASE \E n \in 0..MaxRemaining : Refresh(n)
  BY <1>3, <1>6
<1>7. CASE \E p \in Process : OtherConsumes(p)
  BY <1>2, <1>7 DEF OtherConsumes
<1>8. CASE \E c \in Call : Proceed(c)
  BY <1>1, <1>2, <1>4, <1>8, BackendAssumption
<1>9. CASE \E c \in Call, kind \in Kind : Begin(c, kind)
  BY <1>2, <1>9, BackendAssumption DEF Begin
<1>10. CASE \E s \in 1..MaxSessions : Age(s) \/ Revoke(s)
  <2>1. UNCHANGED quota
    BY <1>10 DEF Age, Revoke
  <2> QED
    BY <1>1, <2>1
<1> QED
  BY <1>5, <1>6, <1>7, <1>8, <1>9, <1>10 DEF Next

\* Together the processes never charge more than the last snapshot left
\* (QuotaAllocator.remaining_for, consume), whatever their number, their
\* weights and the snapshots: the shares are rounded down, so they fit the
\* budget, and each process stays within its own.
THEOREM BudgetIsRespected == Spec => []BudgetRespected
<1>1. Init => BudgetInv
  BY DEF Init, BudgetInv, BudgetType, NoSnapshot
<1>2. BudgetInv /\ [Next]_vars => BudgetInv'
  BY BudgetStep
<1>3. BudgetInv => BudgetRespected
  <2> SUFFICES ASSUME BudgetInv, remaining # NoSnapshot
               PROVE  charged <= remaining
    BY DEF BudgetRespected
  <2>1. BudgetType /\ charged <= Total(Spent) /\ charged \in Nat /\ remaining \in Nat
    BY DEF BudgetInv, BudgetType
  <2>2. Spent \in Weights /\ Total(Spent) <= remaining
    BY <2>1, SpentFits
  <2>3. Total(Spent) \in Nat
    BY <2>2, TotalType
  <2> QED
    BY <2>1, <2>2, <2>3
<1> QED
  BY <1>1, <1>2, <1>3, PTL DEF Spec

=============================================================================
