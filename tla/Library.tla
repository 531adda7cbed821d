------------------------------ MODULE Library ------------------------------
(***************************************************************************)
(* What a scan leaves in a library (cli/_org.py write_result, `offramp     *)
(* sync`): the knowledge store's process files, scan records and index     *)
(* (knowledge/store.py), and the org's change log and last snapshot        *)
(* (understand/changes.py).  Files are written one after the other and the *)
(* program may be killed between any two; one write_text is taken to       *)
(* happen at once.  The scan is module Scan's; another may follow, after   *)
(* the org has changed.                                                    *)
(*                                                                         *)
(* Abstracted: one library, one org alias and one command at a time; a     *)
(* process's content is its component's; a scan is named by its number.    *)
(***************************************************************************)
EXTENDS Scan

CONSTANTS
    MaxScans,       \* scans of the org
    MaxCrashes      \* times the command is killed while it writes

VARIABLES
    scan,               \* number of this scan
    crashes,
    files,              \* processes/<id>.json: id -> scans among its sources
    index,              \* index.json: id -> scans among its sources
    records,            \* scans/<scan_id>.json: scan -> ids
    changes,            \* changes/<org>.jsonl
    snapshot,           \* snapshots/<org>.json: key -> content
    mem, todo,          \* the loaded index, the processes still to ingest
    listed,             \* the components by key: key -> content
    before,             \* ghost: the org of the last snapshot, and whether its scan was whole
    torn                \* ghost: it was killed between the log and the snapshot

store == <<files, index, records>>
history == <<changes, snapshot>>
memory == <<mem, todo, listed>>
vars == <<scanVars, scan, crashes, store, history, memory, before, torn>>

------------------------------------------------------------------------------
(* The store.                                                               *)

ProcessCategories == Flows \cup {"workflow_rule", "validation_rule", "assignment_rule",
    "escalation_rule", "auto_response_rule", "approval_process", "apex_trigger", "apex_class"}
\* A definition's id digests its content: two namespaces' copies share one.
Id(c) == <<c.cat, c.name, c.raw>>
Processes == {Id(c) : c \in {x \in components : x.cat \in ProcessCategories}}

\* Components by category and name: of two with one key the later counts.
ComponentKey(c) == <<c.cat, c.name>>
Listings ==
    {f \in [{ComponentKey(c) : c \in components} -> {c.raw : c \in components}] :
        \A k \in DOMAIN f : \E c \in components : ComponentKey(c) = k /\ c.raw = f[k]}

\* result.write and the start of ingest; sync writes nothing for an empty scan.
BeginIngest ==
    /\ pc = "extracted" /\ components # {}
    /\ pc' = "ingest"
    /\ mem' = index
    /\ todo' = Processes
    /\ listed' \in Listings
    /\ UNCHANGED <<org, via, faults, supplement, pull, result, seen>>
    /\ UNCHANGED <<scan, crashes, store, history, before, torn>>

Sources(f, id) == IF id \in DOMAIN f THEN f[id] ELSE {}
With(f, id, sources) == [x \in DOMAIN f \cup {id} |-> IF x = id THEN sources ELSE f[x]]

\* Mutant: a process of an earlier scan does not gain this one's source.
IngestedNew(id) ==
    IF id \in DOMAIN mem
    THEN UNCHANGED <<mem, files>>
    ELSE mem' = With(mem, id, {scan}) /\ files' = With(files, id, {scan})
\* A new id's file is written, whatever was there; a known one's row and, if
\* there is one, its file gain a source.
Ingested(id) ==
    IF id \in DOMAIN mem
    THEN /\ mem' = With(mem, id, mem[id] \cup {scan})
         /\ files' = IF id \in DOMAIN files THEN With(files, id, files[id] \cup {scan}) ELSE files
    ELSE mem' = With(mem, id, {scan}) /\ files' = With(files, id, {scan})
\* One process after the other, in the order the list has; any is as good.
Ingest ==
    /\ pc = "ingest" /\ todo # {}
    /\ LET id == CHOOSE x \in todo : TRUE IN Ingested(id) /\ todo' = todo \ {id}
    /\ UNCHANGED <<listed, scanVars, scan, crashes, index, records, history, before, torn>>

\* The next file of those every scan writes.
At(from, to) ==
    /\ pc = from /\ pc' = to
    /\ UNCHANGED <<org, via, faults, supplement, pull, result, seen, scan, crashes, memory>>

\* The scan record names what the scan found, before the index does.
RecordScan ==
    /\ todo = {} /\ At("ingest", "index")
    /\ records' = With(records, scan, Processes)
    /\ UNCHANGED <<files, index, history, before, torn>>
SaveIndex ==
    /\ At("index", "log")
    /\ index' = mem
    /\ UNCHANGED <<files, records, history, before, torn>>

------------------------------------------------------------------------------
(* The change log.                                                          *)

\* Mutant: what is gone is not in the change set.
DiffKept(was, now) ==
    [to |-> scan, removed |-> {},
     added |-> [k \in DOMAIN now \ DOMAIN was |-> now[k]],
     modified |-> [k \in {x \in DOMAIN now \cap DOMAIN was : now[x] # was[x]} |-> now[k]]]
\* Mutant: what both scans have is modified, whether or not its hash differs.
DiffUnhashed(was, now) ==
    [to |-> scan, removed |-> DOMAIN was \ DOMAIN now,
     added |-> [k \in DOMAIN now \ DOMAIN was |-> now[k]],
     modified |-> [k \in DOMAIN now \cap DOMAIN was |-> now[k]]]
\* diff_components: the change set says what each component has become.
Diff(was, now) ==
    [to |-> scan, removed |-> DOMAIN was \ DOMAIN now,
     added |-> [k \in DOMAIN now \ DOMAIN was |-> now[k]],
     modified |-> [k \in {x \in DOMAIN now \cap DOMAIN was : now[x] # was[x]} |-> now[k]]]

AppendLog ==
    /\ At("log", "snapshot")
    /\ changes' = Append(changes, Diff(snapshot, listed))
    /\ UNCHANGED <<store, snapshot, before, torn>>
WriteSnapshot ==
    /\ At("snapshot", "written")
    /\ snapshot' = listed
    /\ UNCHANGED <<store, changes, before, torn>>

------------------------------------------------------------------------------
(* Killed, and scanning again.                                              *)

Writing == {"ingest", "index", "log", "snapshot"}
Crash ==
    /\ crashes < MaxCrashes /\ crashes' = crashes + 1
    /\ pc \in Writing /\ pc' = "killed"
    /\ mem' = <<>> /\ todo' = {} /\ listed' = <<>>
    /\ UNCHANGED <<org, via, faults, supplement, pull, result, seen>>
    /\ torn' = (torn \/ pc = "snapshot")
    /\ UNCHANGED <<scan, store, history, before>>

\* The interval passes, or the command is given again; the org has moved on.
NextScan ==
    /\ \/ pc \in {"written", "aborted", "killed"}
       \/ pc = "extracted" /\ components = {}
    /\ scan < MaxScans /\ scan' = scan + 1
    /\ before' = IF pc = "written" THEN [items |-> seen, whole |-> faults = 0] ELSE before
    /\ org' \in Orgs
    /\ pc' = "connect" /\ faults' = 0
    /\ schema' = <<>> /\ profiled' = {}
    /\ reads' = {} /\ work' = {} /\ retrieved' = {} /\ failed' = {} /\ raws' = {}
    /\ components' = {} /\ failures' = {} /\ disagreements' = {}
    /\ seen' = {}
    /\ mem' = <<>> /\ todo' = {} /\ listed' = <<>>
    /\ UNCHANGED <<via, crashes, store, history, torn>>

Init ==
    /\ ScanInit
    /\ scan = 1 /\ crashes = 0
    /\ files = <<>> /\ index = <<>> /\ records = <<>>
    /\ changes = <<>> /\ snapshot = <<>>
    /\ mem = <<>> /\ todo = {} /\ listed = <<>>
    /\ before = [items |-> {}, whole |-> TRUE]
    /\ torn = FALSE

Next ==
    \/ ScanNext /\ UNCHANGED <<scan, crashes, store, history, memory, before, torn>>
    \/ BeginIngest \/ Ingest \/ RecordScan \/ SaveIndex
    \/ AppendLog \/ WriteSnapshot \/ Crash \/ NextScan

Spec == Init /\ [][Next]_vars

------------------------------------------------------------------------------
(* Properties.                                                              *)

\* A scan in the change log stays in the library for good: its record's
\* processes are all in the index and on disk, with that scan among the sources
\* of both (ingest, _append_source), whatever was killed before or since.
LoggedScansAreKept ==
    \A n \in DOMAIN changes : LET s == changes[n].to IN
        \A id \in records[s] : s \in Sources(index, id) /\ s \in Sources(files, id)

\* The log can be replayed: unless a command was ever killed between the log and
\* the snapshot, applying its change sets in order gives the last snapshot (record).
Replayed(state, entry) ==
    [k \in DOMAIN entry.added \cup DOMAIN entry.modified \cup (DOMAIN state \ entry.removed) |->
        IF k \in DOMAIN entry.added THEN entry.added[k]
        ELSE IF k \in DOMAIN entry.modified THEN entry.modified[k] ELSE state[k]]
LogReplays == (~torn /\ pc # "snapshot") => FoldLeft(Replayed, <<>>, changes) = snapshot

\* What a scan in which no call failed sees of an item: its category and the parts
\* of its body that somebody reads.
Retrievable(i) ==
    Type(i) \in UNION {g.types : g \in Groups} /\ i.ns = None /\ TreeCategory(i) # None
Legible(i) ==
    Only(i.body, {p \in DOMAIN i.body :
                    IF Retrievable(i) THEN ~i.broken
                    ELSE Reader(ToolingCategory(i)).parts[p] # "never"})
Face(i) == <<i.cat, Legible(i)>>

\* Between two scans in which no call failed, the log reports what moved in the
\* org and nothing else (diff_components over reconcile), of the names that one
\* item has at most: a name is reported only if its item came, went or differs,
\* and it is reported if what can be seen of it does and either scan lists it.
Named(items, name) == {i \in items : i.name = name}
Faces(items) == {Face(i) : i \in items}
Reported(entry) == {k[2] : k \in DOMAIN entry.added \cup DOMAIN entry.modified \cup entry.removed}
ChangesAreReal ==
    (pc = "written" /\ faults = 0 /\ before.whole /\ crashes = 0) =>
        LET reported == Reported(Last(changes))
            earlier == FoldLeft(Replayed, <<>>, Front(changes)) IN
        \A n \in {i.name : i \in seen \cup before.items} :
            LET now == Named(seen, n)
                was == Named(before.items, n)
                listedAtAll == \E k \in DOMAIN snapshot \cup DOMAIN earlier : k[2] = n IN
            (Cardinality(now) <= 1 /\ Cardinality(was) <= 1) =>
                /\ n \in reported => now # was
                /\ Faces(now) # Faces(was) /\ listedAtAll => n \in reported
=============================================================================
