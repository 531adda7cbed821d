------------------------------ MODULE SfBackend ------------------------------
(***************************************************************************)
(* The MCP gateway's Salesforce backend of one process: concurrent calls   *)
(* (coroutines of one event loop) that charge the org-wide quota, share    *)
(* one lazily made client and re-authenticate (mcp/sf_backend.py,          *)
(* mcp/jwt_auth.py, mcp/quota.py).                                         *)
(*                                                                         *)
(* A coroutine runs alone until it awaits: the steps below are what        *)
(* happens between two awaits that can really suspend.  QuotaAllocator and *)
(* SessionCache never suspend while holding their own locks uncontended,   *)
(* so consume is one step; connect holds _connect_lock over the exchange.  *)
(*                                                                         *)
(* Abstracted: what a call asks and answers.  A call is "plain" (one round *)
(* trip), "paged" (tooling_query) or "retrieve" (mdapi_retrieve with its   *)
(* retry; its status polls are round trips nobody charges).  Sessions are  *)
(* numbered in the order they are obtained.                                *)
(***************************************************************************)
EXTENDS Integers, FiniteSets, FiniteSetsExt

CONSTANTS
    Call,           \* coroutines that may be under way
    Process,        \* processes registered with the allocator
    Own,            \* the backend's process_id
    Weight,         \* their weights
    MaxRemaining,   \* bound on what /limits reports
    MaxRefreshes,   \* bound on the polls of /limits
    MaxSessions     \* bound on token exchanges

\* asyncio.Lock: no task holds it.
Free == "free"

ASSUME BackendAssumption ==
    /\ Free \notin Call
    /\ Own \in Process /\ IsFiniteSet(Process)
    /\ Weight \in [Process -> Nat \ {0}]
    /\ MaxRemaining \in Nat /\ MaxRefreshes \in Nat /\ MaxSessions \in Nat

VARIABLES
    call,           \* the calls
    client,         \* _client's session, None when there is no client
    session,        \* SessionCache._session, None when there is none
    lock,           \* who holds _connect_lock
    minted,         \* sessions obtained so far
    aged,           \* sessions older than the cache's TTL
    dead,           \* sessions Salesforce no longer accepts
    remaining,      \* the last snapshot, NoSnapshot before the first refresh
    consumed,       \* ProcessAllocation.consumed
    refreshes,
    charged,        \* history: calls charged since the last refresh
    dropped,        \* history: sessions obtained before the last invalidation
    invalidations   \* history: how many there were

conn == <<client, session, lock, minted>>
quota == <<remaining, consumed, refreshes, charged>>
history == <<dropped, invalidations>>
vars == <<call, conn, aged, dead, quota, history>>

None == 0
NoSnapshot == -1
Kind == {"plain", "paged", "retrieve"}
Pc == {"idle", "connecting", "waiting", "exchanging", "building", "ready", "paging",
       "invalidating"}
Idle == [pc |-> "idle", kind |-> "plain", using |-> None, retried |-> FALSE]

At(c, pc) == call[c].pc = pc
Goto(c, pc) == call' = [call EXCEPT ![c].pc = pc]
End(c) == call' = [call EXCEPT ![c] = Idle]

------------------------------------------------------------------------------
(* QuotaAllocator.                                                          *)

TotalWeight == MapThenSumSet(LAMBDA p : Weight[p], Process)

\* remaining_for; the share is rounded down.  Mutant: every process may use the
\* whole budget.
WholeBudget(p) == remaining - consumed[p]
Allowance(p) == (remaining * Weight[p]) \div TotalWeight - consumed[p]
MayConsume(p) == remaining # NoSnapshot /\ Allowance(p) >= 1

\* consume(process_id, 1); the next step of the caller is the caller's.
Consume(p) ==
    /\ MayConsume(p)
    /\ consumed' = [consumed EXCEPT ![p] = @ + 1]
    /\ charged' = charged + 1
    /\ UNCHANGED <<remaining, refreshes>>

\* refresh: what others, users included, left of the day's budget.  The
\* consumption it already contains stays in `consumed`.
Refresh(n) ==
    /\ refreshes < MaxRefreshes
    /\ refreshes' = refreshes + 1
    /\ remaining' = n /\ charged' = 0
    /\ UNCHANGED <<call, conn, aged, dead, consumed, history>>

\* Another process of the gateway makes a call.
OtherConsumes(p) ==
    /\ p # Own
    /\ Consume(p)
    /\ UNCHANGED <<call, conn, aged, dead, history>>

------------------------------------------------------------------------------
(* A call, from its charge to its end.  Each exception ends it.             *)

\* mdapi_retrieve catches what is raised before the job is accepted, and starts
\* over once if the message says "Not Found".
Retries(c) ==
    /\ call[c].kind = "retrieve" /\ ~call[c].retried
    /\ call' = [call EXCEPT ![c].pc = "invalidating", ![c].retried = TRUE]
Fails(c) == End(c) \/ Retries(c)

\* _charge_quota, or QuotaExhausted and no call at all.
Begin(c, kind) ==
    /\ At(c, "idle")
    /\ Consume(Own)
    /\ call' = [call EXCEPT ![c].pc = "connecting", ![c].kind = kind]
    /\ UNCHANGED <<conn, aged, dead, history>>

\* connect: the client that is there, or the lock.
Connect(c) ==
    /\ At(c, "connecting")
    /\ call' = [call EXCEPT ![c].pc = IF client # None THEN "ready" ELSE "waiting",
                            ![c].using = client]
    /\ UNCHANGED <<conn, aged, dead, quota, history>>

\* The lock, the second look, and SessionCache.get's look at its session.
\* Mutant: the cached session is not looked at.
CachedNever == FALSE
Cached == session # None /\ session \notin aged

Lock(c) ==
    /\ At(c, "waiting") /\ lock = Free
    /\ IF client # None
       THEN call' = [call EXCEPT ![c].pc = "ready", ![c].using = client] /\ UNCHANGED lock
       ELSE /\ lock' = c
            /\ Goto(c, IF Cached THEN "building" ELSE "exchanging")
    /\ UNCHANGED <<client, session, minted, aged, dead, quota, history>>

\* SessionCache._exchange, or JWTAuthError.
Exchange(c) ==
    /\ At(c, "exchanging") /\ minted < MaxSessions
    /\ minted' = minted + 1
    /\ session' = minted + 1
    /\ Goto(c, "building")
    /\ UNCHANGED <<client, lock, aged, dead, quota, history>>

\* Mutant: the lock is kept when the exchange raises.
ExchangeFailsLocked(c) ==
    /\ At(c, "exchanging")
    /\ Fails(c)
    /\ UNCHANGED <<conn, aged, dead, quota, history>>
ExchangeFails(c) ==
    /\ At(c, "exchanging")
    /\ lock' = Free
    /\ Fails(c)
    /\ UNCHANGED <<client, session, minted, aged, dead, quota, history>>

\* The Salesforce client is constructed from the session, or JWTAuthError.
Build(c) ==
    /\ At(c, "building")
    /\ client' = session /\ lock' = Free
    /\ call' = [call EXCEPT ![c].pc = "ready", ![c].using = session]
    /\ UNCHANGED <<session, minted, aged, dead, quota, history>>

BuildFails(c) ==
    /\ At(c, "building")
    /\ lock' = Free
    /\ Fails(c)
    /\ UNCHANGED <<client, session, minted, aged, dead, quota, history>>

\* One round trip on the call's client.
Answers(c) ==
    /\ At(c, "ready") /\ call[c].using \notin dead
    /\ \/ End(c)
       \/ call[c].kind = "paged" /\ Goto(c, "paging")
    /\ UNCHANGED <<conn, aged, dead, quota, history>>

\* 401: the exception goes up to the caller and nothing else happens.
Refused(c) ==
    /\ At(c, "ready") /\ call[c].using \in dead
    /\ End(c)
    /\ UNCHANGED <<conn, aged, dead, quota, history>>

\* The next page is charged like a call, with the client it has, or raises
\* QuotaExhausted and the pages read so far are lost.
NextPage(c) ==
    /\ At(c, "paging")
    /\ Consume(Own)
    /\ Goto(c, "ready")
    /\ UNCHANGED <<conn, aged, dead, history>>

PageExhausted(c) ==
    /\ At(c, "paging") /\ ~MayConsume(Own)
    /\ End(c)
    /\ UNCHANGED <<conn, aged, dead, quota, history>>

\* The submission of a retrieve answers "Not Found".
NotFound(c) ==
    /\ At(c, "ready")
    /\ Retries(c)
    /\ UNCHANGED <<conn, aged, dead, quota, history>>

\* invalidate_session, then connect again.  Mutant: only the client goes.
InvalidateClient(c) ==
    /\ At(c, "invalidating") /\ lock = Free
    /\ client' = None
    /\ dropped' = 1..minted /\ invalidations' = invalidations + 1
    /\ Goto(c, "connecting")
    /\ UNCHANGED <<session, lock, minted, aged, dead, quota>>
Invalidate(c) ==
    /\ At(c, "invalidating") /\ lock = Free
    /\ client' = None /\ session' = None
    /\ dropped' = 1..minted /\ invalidations' = invalidations + 1
    /\ Goto(c, "connecting")
    /\ UNCHANGED <<lock, minted, aged, dead, quota>>

------------------------------------------------------------------------------
(* Salesforce and the clock (external).                                     *)

Age(s) == /\ s \in (1..minted) \ aged
          /\ aged' = aged \cup {s}
          /\ UNCHANGED <<call, conn, dead, quota, history>>

Revoke(s) == /\ s \in (1..minted) \ dead
             /\ dead' = dead \cup {s}
             /\ UNCHANGED <<call, conn, aged, quota, history>>

Init ==
    /\ call = [c \in Call |-> Idle]
    /\ client = None /\ session = None /\ lock = Free /\ minted = 0
    /\ aged = {} /\ dead = {}
    /\ remaining = NoSnapshot /\ consumed = [p \in Process |-> 0]
    /\ refreshes = 0 /\ charged = 0
    /\ dropped = {} /\ invalidations = 0

\* What a call that has begun does by itself.
Proceed(c) ==
    \/ Connect(c) \/ Lock(c) \/ Exchange(c) \/ ExchangeFails(c) \/ Build(c) \/ BuildFails(c)
    \/ Answers(c) \/ Refused(c) \/ NextPage(c) \/ PageExhausted(c)
    \/ NotFound(c) \/ Invalidate(c)

Next ==
    \/ \E n \in 0..MaxRemaining : Refresh(n)
    \/ \E p \in Process : OtherConsumes(p)
    \/ \E c \in Call : Proceed(c) \/ \E kind \in Kind : Begin(c, kind)
    \/ \E s \in 1..MaxSessions : Age(s) \/ Revoke(s)

Spec == Init /\ [][Next]_vars

\* An await returns: every call that has begun takes its next step.
FairSpec == Spec /\ \A c \in Call : WF_vars(Proceed(c))

------------------------------------------------------------------------------
(* Properties.                                                              *)

\* Together the processes never charge more than the last snapshot left, in
\* whatever order they charge and however the snapshots move (remaining_for
\* and consume; all processes registered before the first call).
BudgetRespected == remaining # NoSnapshot => charged <= remaining

\* Concurrent callers obtain one session (connect's docstring): a session is
\* obtained again only after an invalidation or for one that is past its TTL.
OneExchange == minted <= 1 + invalidations + Cardinality(aged)

\* Nobody is handed a session that was invalidated before they asked: after
\* invalidate_session the client and the cache hold newer sessions or none,
\* also when the invalidation and a connect were under way together.
NoStaleSession == client \notin dropped /\ session \notin dropped

\* Every call ends, whoever holds the connect lock when something raises.
CallsEnd == \A c \in Call : ~At(c, "idle") ~> At(c, "idle")

=============================================================================
