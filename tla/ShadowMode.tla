----------------------------- MODULE ShadowMode -----------------------------
(***************************************************************************)
(* Shadow validation of one process (validate/shadow, validate/reconcile). *)
(*                                                                         *)
(* Production changes records; Change Data Capture turns each change into  *)
(* an event.  Subscribers (pods of the shadow Deployment) stream the       *)
(* events in order and push each through ShadowExecutor.execute_event: a   *)
(* dozen awaits, each of them a place to be killed or overtaken.  A        *)
(* resync re-fetches records from production beside them.                  *)
(*                                                                         *)
(* Every store call is a statement of its own on a pooled connection:      *)
(* nothing groups the calls of one event into a transaction.               *)
(*                                                                         *)
(* Abstracted: one object; an event names one record; divergence           *)
(* categories and severities; the first 30 days of the window.             *)
(***************************************************************************)
EXTENDS Integers, Sequences, FiniteSets

CONSTANTS
    Subscriber,
    Topics,         \* Topics[w]: the records whose channel w streams
    Record,
    Field,
    Schema,         \* the fields an event's schema has
    Value,          \* field values, positive; 0 is null
    Rewritten,      \* a value only the runtime's computations produce
    Computed,       \* the field they write
    Partial,        \* TRUE: an update's payload has only the changed fields
    ReadThrough,    \* TRUE: read-through to production; FALSE: the CLI's stub
    MaxChanges,     \* bound on production's changes
    MaxCrashes,     \* bound on killed subscribers
    MaxResyncs      \* bound on resyncs

ASSUME ShadowAssumption ==
    /\ Topics \in [Subscriber -> SUBSET Record]
    /\ Value \subseteq Nat \ {0}
    /\ Rewritten \in Nat \ (Value \cup {0})
    /\ Schema \subseteq Field /\ Computed \in Field
    /\ Partial \in BOOLEAN /\ ReadThrough \in BOOLEAN
    /\ MaxChanges \in Nat /\ MaxCrashes \in Nat /\ MaxResyncs \in Nat

VARIABLES
    prod,       \* production's records
    log,        \* the event log, replay id = index
    shadow,     \* table shadow_record
    anchors,    \* per event: "shadow.executor" anchors
    rows,       \* per event: rows of table divergence
    scored,     \* per event: rows of table readiness_event
    flagged,    \* events with a divergence row that says diverged
    checkpoint, \* replay_state.latest_replay_id, 0 when there is none
    sub,        \* the subscribers
    fetch,      \* the resync under way
    resynced,   \* history: what the last resync of each record wrote
    crashes, resyncs

store == <<shadow, anchors, rows, scored, flagged, checkpoint>>
vars == <<prod, log, store, sub, fetch, resynced, crashes, resyncs>>

------------------------------------------------------------------------------
(* Data.                                                                    *)

Null == 0
Full == [Field -> Value]
RowOf == [Field -> Value \cup {Null, Rewritten}]
Absent == [f \in {} |-> Null]       \* no record
AllNull == [f \in Field |-> Null]

\* ChangeType.  UNDELETE carries a whole record and is treated like CREATE;
\* every GAP_* type carries none and is treated like every other.
ChangeType == {"CREATE", "UPDATE", "DELETE", "GAP"}
\* CDCEvent; `after` is what production held once it had made the change.
Event == [record: Record, type: ChangeType, fields: RowOf, after: Full \cup {Absent}]

\* The schemas give a field that is not in the payload the value null.
Payload(old, new) ==
    [f \in Field |-> IF f \in Schema /\ (old = Absent \/ ~Partial \/ new[f] # old[f])
                     THEN new[f] ELSE Null]

Pc == {"down", "idle", "missing", "read", "anchored", "recorded", "scored", "checkpointed"}
Down == [pc |-> "down", next |-> 1, pre |-> AllNull, view |-> AllNull, diverged |-> FALSE]

\* The events still to come for w, and the one it is at.
Pending(w) == {i \in sub[w].next..Len(log) : log[i].record \in Topics[w]}
At(w) == CHOOSE i \in Pending(w) : \A j \in Pending(w) : i <= j
Ev(w) == log[At(w)]

\* execute_event's cdc_post_state: what the payload says of a field wins, and
\* the decoder says something of every field of the schema.
CdcPostState(w) == [f \in Field |-> IF f \in Schema THEN Ev(w).fields[f] ELSE sub[w].pre[f]]

\* What OoERuntime.execute_save may make of it: no change, or a computation
\* that writes; with or without a validation failure.
RuntimeViews(cdc) == {cdc, [cdc EXCEPT ![Computed] = Rewritten]}

\* field_diff and categorize.  Mutant: a gap is judged by its fields.
DivergesOnFields(ev, cdc, view, aborted) == aborted \/ view # cdc
Diverges(ev, cdc, view, aborted) == ev.type = "GAP" \/ aborted \/ view # cdc

------------------------------------------------------------------------------
(* Production and its change events (external).                             *)

Publish(r, new, type, fields) ==
    /\ Len(log) < MaxChanges
    /\ prod' = [prod EXCEPT ![r] = new]
    /\ log' = Append(log, [record |-> r, type |-> type, fields |-> fields, after |-> new])
    /\ UNCHANGED <<store, sub, fetch, resynced, crashes, resyncs>>

Change(r) ==
    \E new \in Full :
        /\ new # prod[r]
        /\ Publish(r, new, IF prod[r] = Absent THEN "CREATE" ELSE "UPDATE",
                   Payload(prod[r], new))

Delete(r) == prod[r] # Absent /\ Publish(r, Absent, "DELETE", AllNull)

\* A change whose deltas Salesforce dropped.
Gap(r) == \E new \in (Full \cup {Absent}) \ {prod[r]} : Publish(r, new, "GAP", AllNull)

------------------------------------------------------------------------------
(* ShadowExecutor.execute_event, one await after the other.                 *)

\* `offramp shadow start`: the source is streamed from its first event.
\* Mutant: a restart that resumes with the latest event (ReplayPreset LATEST).
StartAtLatest(w) ==
    /\ sub[w].pc = "down"
    /\ sub' = [sub EXCEPT ![w] = [Down EXCEPT !.pc = "idle", !.next = Len(log) + 1]]
    /\ UNCHANGED <<prod, log, store, fetch, resynced, crashes, resyncs>>
Start(w) ==
    /\ sub[w].pc = "down"
    /\ sub' = [sub EXCEPT ![w] = [Down EXCEPT !.pc = "idle"]]
    /\ UNCHANGED <<prod, log, store, fetch, resynced, crashes, resyncs>>

\* ForkedDataEnv.read: the shadow row, or else production.
ReadShadow(w) ==
    /\ sub[w].pc = "idle" /\ Pending(w) # {}
    /\ LET row == shadow[Ev(w).record] IN
       sub' = [sub EXCEPT ![w].pc = IF row = Absent THEN "missing" ELSE "read",
                          ![w].pre = IF row = Absent THEN AllNull ELSE row]
    /\ UNCHANGED <<prod, log, store, fetch, resynced, crashes, resyncs>>

ReadProduction(w) ==
    /\ sub[w].pc = "missing"
    /\ LET found == prod[Ev(w).record] IN
       \E pre \in {AllNull} \cup (IF ReadThrough /\ found # Absent THEN {found} ELSE {}) :
          sub' = [sub EXCEPT ![w].pc = "read", ![w].pre = pre]
    /\ UNCHANGED <<prod, log, store, fetch, resynced, crashes, resyncs>>

\* The runtime, the diff, the verdict, and the anchor.  Mutant: no anchor for
\* an event that did not diverge.
ExecuteAnchorsDiverged(w) ==
    /\ sub[w].pc = "read"
    /\ \E view \in RuntimeViews(CdcPostState(w)), aborted \in BOOLEAN :
          LET diverged == Diverges(Ev(w), CdcPostState(w), view, aborted) IN
          /\ sub' = [sub EXCEPT ![w].pc = "anchored", ![w].pre = AllNull, ![w].view = view,
                                ![w].diverged = diverged]
          /\ anchors' = IF diverged THEN [anchors EXCEPT ![At(w)] = @ + 1] ELSE anchors
    /\ UNCHANGED <<prod, log, shadow, rows, scored, flagged, checkpoint, fetch, resynced,
                   crashes, resyncs>>
Execute(w) ==
    /\ sub[w].pc = "read"
    /\ \E view \in RuntimeViews(CdcPostState(w)), aborted \in BOOLEAN :
          sub' = [sub EXCEPT ![w].pc = "anchored", ![w].pre = AllNull, ![w].view = view,
                             ![w].diverged = Diverges(Ev(w), CdcPostState(w), view, aborted)]
    /\ anchors' = [anchors EXCEPT ![At(w)] = @ + 1]
    /\ UNCHANGED <<prod, log, shadow, rows, scored, flagged, checkpoint, fetch, resynced,
                   crashes, resyncs>>

\* ShadowStore.write_divergence: two inserts, each committed by itself.
InsertDivergence(w) ==
    /\ sub[w].pc = "anchored"
    /\ rows' = [rows EXCEPT ![At(w)] = @ + 1]
    /\ flagged' = IF sub[w].diverged THEN flagged \cup {At(w)} ELSE flagged
    /\ sub' = [sub EXCEPT ![w].pc = "recorded"]
    /\ UNCHANGED <<prod, log, shadow, anchors, scored, checkpoint, fetch, resynced,
                   crashes, resyncs>>

InsertReadiness(w) ==
    /\ sub[w].pc = "recorded"
    /\ scored' = [scored EXCEPT ![At(w)] = @ + 1]
    /\ sub' = [sub EXCEPT ![w].pc = "scored"]
    /\ UNCHANGED <<prod, log, shadow, anchors, rows, flagged, checkpoint, fetch, resynced,
                   crashes, resyncs>>

UpdateReplayState(w) ==
    /\ sub[w].pc = "scored"
    /\ checkpoint' = At(w)
    /\ sub' = [sub EXCEPT ![w].pc = "checkpointed"]
    /\ UNCHANGED <<prod, log, shadow, anchors, rows, scored, flagged, fetch, resynced,
                   crashes, resyncs>>

ApplyToShadow(w) ==
    /\ sub[w].pc = "checkpointed"
    /\ shadow' = [shadow EXCEPT ![Ev(w).record] =
                      CASE Ev(w).type \in {"CREATE", "UPDATE"} -> sub[w].view
                        [] Ev(w).type = "DELETE" -> Absent
                        [] OTHER -> @]
    /\ sub' = [sub EXCEPT ![w] = [Down EXCEPT !.pc = "idle", !.next = At(w) + 1]]
    /\ UNCHANGED <<prod, log, anchors, rows, scored, flagged, checkpoint, fetch, resynced,
                   crashes, resyncs>>

\* The pod is evicted, or Postgres or Engram raises.
Crash(w) ==
    /\ sub[w].pc # "down" /\ crashes < MaxCrashes
    /\ crashes' = crashes + 1
    /\ sub' = [sub EXCEPT ![w] = Down]
    /\ UNCHANGED <<prod, log, store, fetch, resynced, resyncs>>

------------------------------------------------------------------------------
(* Resyncer.resync_record, by an operator or by GapHandler.handle.          *)

NoFetch == [active |-> FALSE]
Never == [at |-> -1]

ResyncFetch(r) ==
    /\ ~fetch.active /\ resyncs < MaxResyncs
    /\ resyncs' = resyncs + 1
    /\ fetch' = [active |-> TRUE, record |-> r, row |-> prod[r], at |-> Len(log)]
    /\ UNCHANGED <<prod, log, store, sub, resynced, crashes>>

\* Overwrites or deletes the row, whatever was processed since the query; the
\* replay state is left alone.
ResyncApply ==
    /\ fetch.active
    /\ shadow' = [shadow EXCEPT ![fetch.record] = fetch.row]
    /\ resynced' = [resynced EXCEPT ![fetch.record] = [at |-> fetch.at, row |-> fetch.row]]
    /\ fetch' = NoFetch
    /\ UNCHANGED <<prod, log, anchors, rows, scored, flagged, checkpoint, sub, crashes, resyncs>>

Init ==
    /\ prod = [r \in Record |-> Absent]
    /\ log = <<>>
    /\ shadow = [r \in Record |-> Absent]
    /\ anchors = [i \in 1..MaxChanges |-> 0]
    /\ rows = anchors /\ scored = anchors
    /\ flagged = {} /\ checkpoint = 0
    /\ sub = [w \in Subscriber |-> Down]
    /\ fetch = NoFetch /\ resynced = [r \in Record |-> Never]
    /\ crashes = 0 /\ resyncs = 0

Step(w) ==
    \/ Start(w) \/ ReadShadow(w) \/ ReadProduction(w) \/ Execute(w)
    \/ InsertDivergence(w) \/ InsertReadiness(w) \/ UpdateReplayState(w) \/ ApplyToShadow(w)

Next ==
    \/ \E r \in Record : Change(r) \/ Delete(r) \/ Gap(r) \/ ResyncFetch(r)
    \/ ResyncApply
    \/ \E w \in Subscriber : Step(w) \/ Crash(w)

Spec == Init /\ [][Next]_vars

\* The Deployment restarts its pods, and a started subscriber goes on.
FairSpec == Spec /\ \A w \in Subscriber : WF_vars(Step(w))

------------------------------------------------------------------------------
(* Properties.                                                              *)

InFlight(i) == {w \in Subscriber : sub[w].pc \in {"anchored", "recorded"} /\ At(w) = i}

\* The evidence behind the readiness score: every readiness row has its
\* divergence row and every divergence row its anchor; all of them are there
\* but for events in flight and for subscribers that died; and an event is
\* scored again only because one died (execute_event's order of awaits).  And the
\* checkpoint the lag monitor reads never names an event the score does not count.
EvidenceComplete ==
    \A i \in DOMAIN rows :
        /\ scored[i] <= rows[i] /\ rows[i] <= anchors[i]
        /\ anchors[i] - scored[i] <= crashes + Cardinality(InFlight(i))
        /\ scored[i] <= 1 + crashes
        /\ checkpoint = i => scored[i] > 0

\* Nothing drifts unnoticed: once the events of a record are processed, its
\* shadow row is production's row, or a divergence of the record is on file, or
\* the row is the one a resync brought.
CaughtUp(r) ==
    \A w \in Subscriber : r \in Topics[w] => sub[w].pc = "idle" /\ Pending(w) = {}
NoSilentDrift ==
    \A r \in Record :
        CaughtUp(r) /\ shadow[r] # prod[r]
        => \/ \E i \in flagged : log[i].record = r
           \/ resynced[r] # Never /\ shadow[r] = resynced[r].row

\* No change is lost, whenever the subscribers die: each event is scored in the
\* end.
EveryEventScored ==
    \A i \in 1..MaxChanges : i <= Len(log) ~> scored[i] > 0

=============================================================================
