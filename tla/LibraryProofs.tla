--------------------------- MODULE LibraryProofs ----------------------------
(***************************************************************************)
(* Theorems about Library and the scan in it, for every org, every way of  *)
(* reading it and any number of scans, failed calls and kills: a scan in   *)
(* the change log is never lost from the library, and the log replays to   *)
(* the snapshot; every type to retrieve is retrieved or reported, what was *)
(* retrieved is what the extraction says, a field the database will not    *)
(* count costs no other, and the log names what moved and nothing else.    *)
(*                                                                         *)
(* Replaying folds over the log and reconciling over a key's records, so   *)
(* two theorems need what a fold of one more entry is.  The library's      *)
(* induction theorems take operators, which the provers cannot             *)
(* instantiate; the lemmas do the induction by looking at the least        *)
(* counterexample.                                                         *)
(***************************************************************************)
EXTENDS Library, FoldLemmas

------------------------------------------------------------------------------
(* Replaying a log: what FoldLeft iterates.                                 *)

Iterates(entries, n, it) ==
    it = [s \in SUBSET (1..n) |->
             IF s = {} THEN <<>> ELSE Replayed(it[s \ {Max(s)}], entries[Max(s)])]

LEMMA IteratesFirst ==
    ASSUME NEW entries
    PROVE  \E it : Iterates(entries, 0, it)
<1> DEFINE it == [s \in SUBSET (1..0) |-> <<>>]
<1>1. \A s \in SUBSET (1..0) : s = {}
  OBVIOUS
<1>2. Iterates(entries, 0, it)
  BY <1>1 DEF Iterates
<1> QED
  BY <1>2

LEMMA IteratesNext ==
    ASSUME NEW entries, NEW n \in Nat, NEW it, Iterates(entries, n, it)
    PROVE  \E jt : Iterates(entries, n + 1, jt)
<1> DEFINE D == SUBSET (1..n)
           E == SUBSET (1..n + 1)
           jt == [s \in E |-> IF n + 1 \in s THEN Replayed(it[s \ {n + 1}], entries[n + 1])
                              ELSE it[s]]
<1>1. \A s \in E : (n + 1 \notin s => s \in D) /\ s \ {n + 1} \in D /\ (s \in D => n + 1 \notin s)
  OBVIOUS
<1>2. \A s \in D : s \in E /\ it[s] = IF s = {} THEN <<>>
                                      ELSE Replayed(it[s \ {Max(s)}], entries[Max(s)])
  <2>1. \A s \in D : s \in E
    OBVIOUS
  <2>2. \A s \in D : it[s] = IF s = {} THEN <<>>
                             ELSE Replayed(it[s \ {Max(s)}], entries[Max(s)])
    BY DEF Iterates
  <2> QED
    BY <2>1, <2>2
<1>3. \A s \in E : n + 1 \in s => Max(s) = n + 1
  <2> SUFFICES ASSUME NEW s \in E, n + 1 \in s  PROVE Max(s) = n + 1
    OBVIOUS
  <2>1. n + 1 \in Nat /\ s # {}
    OBVIOUS
  <2>2. Max(s) \in 1..n + 1 /\ Max(s) >= n + 1
    BY <2>1, MaxOfPositions
  <2> QED
    BY <2>2
<1>4. \A s \in D : s \ {Max(s)} \in D
  OBVIOUS
<1>5. \A s \in D : jt[s] = it[s]
  BY <1>1, <1>2
<1> HIDE DEF D, E
<1>6. ASSUME NEW s \in E
      PROVE  jt[s] = IF s = {} THEN <<>> ELSE Replayed(jt[s \ {Max(s)}], entries[Max(s)])
  <2>1. CASE n + 1 \in s
    BY <1>1, <1>3, <1>5, <2>1
  <2>2. CASE n + 1 \notin s
    <3>1. s \in D /\ s \ {Max(s)} \in D
      BY <1>1, <1>4, <2>2
    <3> QED
      BY <1>2, <1>5, <3>1
  <2> QED
    BY <2>1, <2>2
<1>7. jt = [s \in E |-> IF s = {} THEN <<>>
                         ELSE Replayed(jt[s \ {Max(s)}], entries[Max(s)])]
  <2>1. jt = [s \in E |-> jt[s]]
    OBVIOUS
  <2> HIDE DEF jt
  <2> QED
    BY <1>6, <2>1
<1>8. Iterates(entries, n + 1, jt)
  BY <1>7, Zenon DEF Iterates, E
<1> QED
  BY <1>8

LEMMA IteratesExists ==
    ASSUME NEW entries, NEW n \in Nat
    PROVE  \E it : Iterates(entries, n, it)
<1> DEFINE Bad == {k \in Nat : ~\E it : Iterates(entries, k, it)}
<1>1. SUFFICES ASSUME Bad # {}  PROVE FALSE
  BY Zenon
<1>2. PICK m \in Bad : \A j \in Bad : m <= j
  BY <1>1, LeastElement
<1>3. m # 0 /\ m \in Nat
  BY <1>2, IteratesFirst
<1>4. m - 1 \in Nat /\ m - 1 \notin Bad /\ (m - 1) + 1 = m
  BY <1>2, <1>3
<1>5. PICK it : Iterates(entries, m - 1, it)
  BY <1>4
<1>6. \E jt : Iterates(entries, (m - 1) + 1, jt)
  BY <1>4, <1>5, IteratesNext
<1> QED
  BY <1>2, <1>4, <1>6

\* Two logs that begin alike iterate alike.
LEMMA IteratesAlike ==
    ASSUME NEW entries, NEW longer, NEW n \in Nat, NEW m \in Nat, n <= m,
           NEW it, NEW jt, Iterates(entries, n, it), Iterates(longer, m, jt),
           \A i \in 1..n : entries[i] = longer[i]
    PROVE  \A s \in SUBSET (1..n) : it[s] = jt[s]
<1>1. \A s \in SUBSET (1..n) :
          it[s] = IF s = {} THEN <<>> ELSE Replayed(it[s \ {Max(s)}], entries[Max(s)])
  BY DEF Iterates
<1>2. \A s \in SUBSET (1..n) :
          jt[s] = IF s = {} THEN <<>> ELSE Replayed(jt[s \ {Max(s)}], longer[Max(s)])
  <2>1. SUBSET (1..n) \subseteq SUBSET (1..m)
    OBVIOUS
  <2>2. \A s \in SUBSET (1..m) :
            jt[s] = IF s = {} THEN <<>> ELSE Replayed(jt[s \ {Max(s)}], longer[Max(s)])
    BY DEF Iterates
  <2> QED
    BY <2>1, <2>2
<1> DEFINE Bad == {k \in 0..n : \E s \in SUBSET (1..k) : it[s] # jt[s]}
<1>3. SUFFICES ASSUME Bad # {}  PROVE FALSE
  OBVIOUS
<1>4. PICK k \in Bad : \A j \in Bad : k <= j
  <2>1. Bad \subseteq Nat
    OBVIOUS
  <2> QED
    BY <1>3, <2>1, LeastElement
<1>5. k \in Nat /\ k <= n
  BY <1>4
<1>6. PICK s \in SUBSET (1..k) : it[s] # jt[s]
  BY <1>4
<1>7. s \in SUBSET (1..n)
  BY <1>5, <1>6
<1>8. s # {}
  BY <1>1, <1>2, <1>6, <1>7
<1>9. Max(s) \in 1..k /\ \A y \in s : Max(s) >= y
  BY <1>5, <1>6, <1>8, MaxOfPositions
<1>10. s \ {Max(s)} \in SUBSET (1..k - 1)
  <2>1. ASSUME NEW y \in s, y # Max(s)  PROVE y \in 1..k - 1
    BY <1>5, <1>6, <1>9, <2>1
  <2> QED
    BY <2>1
<1>11. k - 1 \in 0..n /\ k - 1 \notin Bad
  BY <1>4, <1>5, <1>9
<1>12. it[s \ {Max(s)}] = jt[s \ {Max(s)}]
  BY <1>10, <1>11
<1>13. entries[Max(s)] = longer[Max(s)]
  BY <1>5, <1>9
<1> QED
  BY <1>1, <1>2, <1>6, <1>7, <1>8, <1>12, <1>13

LEMMA FoldIterates ==
    ASSUME NEW entries, NEW n \in Nat, DOMAIN entries = 1..n, NEW it, Iterates(entries, n, it)
    PROVE  FoldLeft(Replayed, <<>>, entries) = it[1..n]
<1> DEFINE jt == CHOOSE f : Iterates(entries, n, f)
<1>1. FoldLeft(Replayed, <<>>, entries) = jt[1..n]
  BY Zenon DEF FoldLeft, MapThenFoldSet, Iterates
<1>2. Iterates(entries, n, jt)
  BY Zenon
<1> HIDE DEF jt
<1>3. 1..n \in SUBSET (1..n)
  OBVIOUS
<1>4. it[1..n] = jt[1..n]
  BY <1>2, <1>3, IteratesAlike
<1> QED
  BY <1>1, <1>4

\* What applying a log's change sets in order gives.
LogState(entries) == FoldLeft(Replayed, <<>>, entries)

LEMMA ReplayEmpty == LogState(<<>>) = <<>>
<1>1. PICK it : Iterates(<<>>, 0, it)
  BY IteratesFirst
<1>2. DOMAIN <<>> = 1..0 /\ 1..0 = {} /\ 0 \in Nat
  OBVIOUS
<1>3. LogState(<<>>) = it[1..0]
  BY <1>1, <1>2, FoldIterates DEF LogState
<1>4. it[1..0] = <<>>
  BY <1>1, <1>2 DEF Iterates
<1> QED
  BY <1>3, <1>4

LEMMA ReplayAppend ==
    ASSUME NEW S, NEW entries \in Seq(S), NEW e \in S
    PROVE  LogState(Append(entries, e))
               = Replayed(LogState(entries), e)
<1> DEFINE n == Len(entries)
           longer == Append(entries, e)
<1>1. /\ n \in Nat /\ DOMAIN entries = 1..n /\ DOMAIN longer = 1..n + 1
      /\ longer[n + 1] = e /\ \A i \in 1..n : entries[i] = longer[i]
  OBVIOUS
<1> HIDE DEF n, longer
<1>2. PICK it : Iterates(entries, n, it)
  BY <1>1, IteratesExists
<1>3. n + 1 \in Nat /\ n <= n + 1
  BY <1>1
<1>4. PICK jt : Iterates(longer, n + 1, jt)
  BY <1>3, IteratesExists
<1>5. LogState(entries) = it[1..n]
  BY <1>1, <1>2, FoldIterates DEF LogState
<1>6. LogState(longer) = jt[1..n + 1]
  BY <1>1, <1>3, <1>4, FoldIterates DEF LogState
<1>7. it[1..n] = jt[1..n]
  <2>1. 1..n \in SUBSET (1..n)
    OBVIOUS
  <2> QED
    BY <1>1, <1>2, <1>3, <1>4, <2>1, IteratesAlike
<1>8. 1..n + 1 # {} /\ 1..n + 1 \in SUBSET (1..n + 1) /\ (1..n + 1) \ {n + 1} = 1..n
  <2>1. n + 1 \in 1..n + 1
    BY <1>1
  <2>2. \A y : y \in (1..n + 1) \ {n + 1} <=> y \in 1..n
    BY <1>1
  <2> QED
    BY <2>1, <2>2
<1>9. Max(1..n + 1) = n + 1
  <2>1. Max(1..n + 1) \in 1..n + 1 /\ \A y \in 1..n + 1 : Max(1..n + 1) >= y
    BY <1>3, <1>8, MaxOfPositions
  <2> QED
    BY <1>1, <2>1
<1>10. jt[1..n + 1] = Replayed(jt[1..n], longer[n + 1])
  BY <1>4, <1>8, <1>9 DEF Iterates
<1> QED
  BY <1>1, <1>5, <1>6, <1>7, <1>10 DEF longer

\* A change set says what it takes to get from one scan to the next.
LEMMA ReplayOfDiff ==
    ASSUME NEW was, NEW now, was = [k \in DOMAIN was |-> was[k]],
           now = [k \in DOMAIN now |-> now[k]]
    PROVE  Replayed(was, Diff(was, now)) = now
BY DEF Replayed, Diff

------------------------------------------------------------------------------
(* What a scan leaves alone: the library is written only once it is done.   *)

ScanPcs == {"connect", "schema", "profile", "pull", "tooling", "reconcile", "extracted", "aborted"}
Pcs == ScanPcs \cup Writing \cup {"written", "killed"}

Scanning == ScanNext /\ UNCHANGED <<scan, crashes, store, history, memory, before, torn>>

LEMMA ScanningStays ==
    ASSUME Scanning
    PROVE  /\ pc \in ScanPcs /\ pc' \in ScanPcs
           /\ scan' = scan /\ torn' = torn
           /\ files' = files /\ index' = index /\ records' = records
           /\ changes' = changes /\ snapshot' = snapshot
           /\ mem' = mem /\ todo' = todo /\ listed' = listed
<1>1. pc \in ScanPcs /\ pc' \in ScanPcs
  <2>1. CASE Connect
    BY <2>1 DEF Connect, Abort, ScanPcs
  <2>2. CASE ReadSchema
    BY <2>2 DEF ReadSchema, Abort, ScanPcs
  <2>3. CASE Profile
    BY <2>3 DEF Profile, ScanPcs
  <2>4. CASE BeginPull
    BY <2>4 DEF BeginPull, ScanPcs
  <2>5. CASE ReadTooling
    BY <2>5 DEF ReadTooling, ScanPcs
  <2>6. CASE Retrieve
    BY <2>6 DEF Retrieve, ScanPcs
  <2>7. CASE ReadTree
    BY <2>7 DEF ReadTree, ScanPcs
  <2>8. CASE Extract
    BY <2>8 DEF Extract, Abort, ScanPcs
  <2> QED
    BY <2>1, <2>2, <2>3, <2>4, <2>5, <2>6, <2>7, <2>8 DEF Scanning, ScanNext
<1> QED
  BY <1>1 DEF Scanning, store, history, memory

------------------------------------------------------------------------------
(* The invariants.                                                          *)

IsFunction(f) == f = [k \in DOMAIN f |-> f[k]]
IsLog == changes \in Seq({changes[n] : n \in DOMAIN changes})

\* The log is one entry ahead of the snapshot exactly while the command is
\* between the two writes, and for good once it was killed there.
ReplayInv ==
    /\ pc \in Pcs
    /\ IsLog
    /\ IsFunction(snapshot) /\ IsFunction(listed)
    /\ ~torn => LogState(changes) = IF pc = "snapshot" THEN listed ELSE snapshot

\* This scan is in the log from its entry to the next scan, and no later one is.
LogInOrder ==
    \A n \in DOMAIN changes :
        /\ changes[n].to \in DOMAIN records
        /\ changes[n].to \in Nat /\ changes[n].to <= scan
        /\ pc \notin {"snapshot", "written", "killed"} => changes[n].to < scan

\* What is in an index is on disk, and the loaded index has what the saved has.
Filed ==
    /\ DOMAIN index \subseteq DOMAIN files
    /\ pc \in {"ingest", "index"} =>
          /\ DOMAIN mem \subseteq DOMAIN files
          /\ \A id \in DOMAIN index : Sources(index, id) \subseteq Sources(mem, id)

\* How far this scan has come: its processes are ingested, then recorded, then
\* in the saved index, and only then in the log.
Kept(ids, rows) == \A id \in ids : scan \in Sources(rows, id) /\ scan \in Sources(files, id)
Progress ==
    /\ pc = "ingest" => Kept(Processes \ todo, mem)
    /\ pc = "index" => scan \in DOMAIN records /\ Kept(records[scan], mem)
    /\ pc = "log" => scan \in DOMAIN records /\ Kept(records[scan], index)

StoreInv ==
    /\ pc \in Pcs
    /\ scan \in Nat
    /\ IsLog
    /\ LogInOrder
    /\ Filed
    /\ Progress
    /\ LoggedScansAreKept

------------------------------------------------------------------------------
(* The log.                                                                 *)

LEMMA LogGrows ==
    ASSUME IsLog, NEW e, changes' = Append(changes, e)
    PROVE  /\ IsLog'
           /\ DOMAIN changes' = DOMAIN changes \cup {Len(changes) + 1}
           /\ Len(changes) + 1 \notin DOMAIN changes
           /\ changes'[Len(changes) + 1] = e
           /\ \A n \in DOMAIN changes : changes'[n] = changes[n]
<1> DEFINE S == {changes[n] : n \in DOMAIN changes} \cup {e}
<1>1. changes \in Seq(S) /\ e \in S
  BY DEF IsLog
<1> HIDE DEF S
<1>2. changes' \in Seq(S)
  BY <1>1
<1>3. /\ DOMAIN changes' = DOMAIN changes \cup {Len(changes) + 1}
      /\ Len(changes) + 1 \notin DOMAIN changes
      /\ changes'[Len(changes) + 1] = e
      /\ \A n \in DOMAIN changes : changes'[n] = changes[n]
  BY <1>1
<1>4. IsLog'
  <2> DEFINE T == {changes'[n] : n \in DOMAIN changes'}
  <2>1. changes' \in Seq(T)
    BY <1>2
  <2> QED
    BY <2>1 DEF IsLog
<1> QED
  BY <1>3, <1>4

LEMMA EmptyLog == ASSUME changes = <<>> PROVE IsLog
BY DEF IsLog

LEMMA ListingsAreFunctions == ASSUME NEW f \in Listings PROVE IsFunction(f)
BY DEF Listings, IsFunction

------------------------------------------------------------------------------
(* The log replays.                                                         *)

LEMMA ReplayInit == Init => ReplayInv
<1> SUFFICES ASSUME Init PROVE ReplayInv
  OBVIOUS
<1>1. pc \in Pcs
  BY DEF Init, ScanInit, Pcs, ScanPcs
<1>2. changes = <<>> /\ snapshot = <<>> /\ listed = <<>> /\ pc = "connect"
  BY DEF Init, ScanInit
<1>3. IsFunction(snapshot) /\ IsFunction(listed)
  BY <1>2 DEF IsFunction
<1>4. LogState(changes) = snapshot
  BY <1>2, ReplayEmpty
<1> QED
  BY <1>1, <1>2, <1>3, <1>4, EmptyLog DEF ReplayInv

\* A step that leaves the log and the snapshot alone, and neither begins nor
\* ends the moment between the two writes.
LEMMA ReplayStays ==
    ASSUME ReplayInv, changes' = changes, snapshot' = snapshot, IsFunction(listed)',
           pc' \in Pcs, pc' # "snapshot", ~torn' => ~torn /\ pc # "snapshot"
    PROVE  ReplayInv'
<1>1. IsLog' /\ IsFunction(snapshot)'
  BY DEF ReplayInv, IsLog, IsFunction
<1>2. ASSUME ~torn'  PROVE LogState(changes') = snapshot'
  BY <1>2 DEF ReplayInv
<1> QED
  BY <1>1, <1>2 DEF ReplayInv

LEMMA ReplayStep == ReplayInv /\ [Next]_vars => ReplayInv'
<1> SUFFICES ASSUME ReplayInv, [Next]_vars PROVE ReplayInv'
  OBVIOUS
<1> USE DEF Pcs, ScanPcs, Writing
<1>1. CASE Scanning
  <2>1. IsFunction(listed)'
    BY <1>1, ScanningStays DEF ReplayInv, IsFunction
  <2> QED
    BY <1>1, <2>1, ScanningStays, ReplayStays
<1>2. CASE BeginIngest
  <2>1. IsFunction(listed')
    BY <1>2, ListingsAreFunctions DEF BeginIngest
  <2>2. IsFunction(listed)'
    BY <2>1 DEF IsFunction
  <2> QED
    BY <1>2, <2>2, ReplayStays DEF BeginIngest, history
<1>3. CASE Ingest \/ RecordScan \/ SaveIndex
  <2>1. /\ changes' = changes /\ snapshot' = snapshot /\ listed' = listed /\ torn' = torn
        /\ pc' \in Pcs /\ pc' # "snapshot" /\ pc # "snapshot"
    BY <1>3 DEF Ingest, RecordScan, SaveIndex, At, history, memory, scanVars
  <2>2. IsFunction(listed)'
    BY <2>1 DEF ReplayInv, IsFunction
  <2> QED
    BY <2>1, <2>2, ReplayStays
<1>4. CASE AppendLog
  <2>1. /\ pc = "log" /\ pc' = "snapshot" /\ changes' = Append(changes, Diff(snapshot, listed))
        /\ snapshot' = snapshot /\ listed' = listed /\ torn' = torn
    BY <1>4 DEF AppendLog, At, memory
  <2>2. IsLog'
    BY <2>1, LogGrows DEF ReplayInv
  <2>3. IsFunction(snapshot)' /\ IsFunction(listed)'
    BY <2>1 DEF ReplayInv, IsFunction
  <2>4. ASSUME ~torn  PROVE LogState(changes') = listed
    <3> DEFINE S == {changes[n] : n \in DOMAIN changes} \cup {Diff(snapshot, listed)}
    <3>1. changes \in Seq(S) /\ Diff(snapshot, listed) \in S
      BY DEF ReplayInv, IsLog
    <3>2. LogState(changes) = snapshot
      BY <2>1, <2>4 DEF ReplayInv
    <3>3. Replayed(snapshot, Diff(snapshot, listed)) = listed
      BY ReplayOfDiff DEF ReplayInv, IsFunction
    <3> HIDE DEF S
    <3>4. LogState(Append(changes, Diff(snapshot, listed)))
              = Replayed(LogState(changes), Diff(snapshot, listed))
      BY <3>1, ReplayAppend
    <3> QED
      BY <2>1, <3>2, <3>3, <3>4
  <2> QED
    BY <2>1, <2>2, <2>3, <2>4 DEF ReplayInv
<1>5. CASE WriteSnapshot
  <2>1. /\ pc = "snapshot" /\ pc' = "written" /\ changes' = changes
        /\ snapshot' = listed /\ listed' = listed /\ torn' = torn
    BY <1>5 DEF WriteSnapshot, At, memory
  <2>2. IsLog' /\ IsFunction(snapshot)' /\ IsFunction(listed)'
    BY <2>1 DEF ReplayInv, IsLog, IsFunction
  <2>3. ASSUME ~torn  PROVE LogState(changes') = snapshot'
    BY <2>1, <2>3 DEF ReplayInv
  <2> QED
    BY <2>1, <2>2, <2>3 DEF ReplayInv
<1>6. CASE Crash \/ NextScan
  <2>1. /\ changes' = changes /\ snapshot' = snapshot /\ listed' = <<>>
        /\ pc' \in Pcs /\ pc' # "snapshot" /\ (~torn' => ~torn /\ pc # "snapshot")
    <3>1. CASE Crash
      <4>1. /\ changes' = changes /\ snapshot' = snapshot /\ listed' = <<>> /\ pc' = "killed"
        BY <3>1 DEF Crash, history
      <4>2. ~torn' => ~torn /\ pc # "snapshot"
        BY <3>1, Zenon DEF Crash
      <4> QED
        BY <4>1, <4>2
    <3>2. CASE NextScan
      <4>1. /\ changes' = changes /\ snapshot' = snapshot /\ listed' = <<>> /\ pc' = "connect"
        BY <3>2 DEF NextScan, history
      <4>2. torn' = torn /\ pc # "snapshot"
        BY <3>2 DEF NextScan
      <4> QED
        BY <4>1, <4>2
    <3> QED
      BY <1>6, <3>1, <3>2
  <2>2. IsFunction(listed)'
    BY <2>1 DEF IsFunction
  <2> QED
    BY <2>1, <2>2, ReplayStays
<1>7. CASE UNCHANGED vars
  <2>1. changes' = changes /\ snapshot' = snapshot /\ listed' = listed /\ torn' = torn /\ pc' = pc
    BY <1>7 DEF vars, scanVars, history, memory
  <2> QED
    BY <2>1 DEF ReplayInv, IsLog, IsFunction
<1> QED
  BY <1>1, <1>2, <1>3, <1>4, <1>5, <1>6, <1>7 DEF Next, Scanning

\* Unless a command was ever killed between the change log and the snapshot, the
\* log's change sets, applied in order, give the last snapshot.
THEOREM LogReplaysToSnapshot == Spec => []LogReplays
<1>1. ReplayInv => LogReplays
  BY Zenon DEF ReplayInv, LogReplays, LogState
<1> QED
  BY <1>1, ReplayInit, ReplayStep, PTL DEF Spec

------------------------------------------------------------------------------
(* A logged scan is kept.                                                   *)

\* Ingesting a process gives it this scan's source, and takes no source from a
\* row of the index or from its file.
LEMMA IngestKeeps ==
    ASSUME Filed, pc = "ingest", NEW id, Ingested(id)
    PROVE  /\ scan \in Sources(mem', id) /\ scan \in Sources(files', id)
           /\ \A x : Sources(mem, x) \subseteq Sources(mem', x)
           /\ \A x \in DOMAIN mem : Sources(files, x) \subseteq Sources(files', x)
           /\ DOMAIN files \subseteq DOMAIN files'
           /\ DOMAIN mem' \subseteq DOMAIN files'
<1>1. DOMAIN mem \subseteq DOMAIN files
  BY DEF Filed
<1>2. CASE id \in DOMAIN mem
  <2>1. mem' = With(mem, id, mem[id] \cup {scan}) /\ files' = With(files, id, files[id] \cup {scan})
    BY <1>1, <1>2 DEF Ingested
  <2>2. ASSUME NEW x
        PROVE  /\ Sources(mem', x) = IF x = id THEN mem[id] \cup {scan} ELSE Sources(mem, x)
               /\ Sources(files', x) = IF x = id THEN files[id] \cup {scan} ELSE Sources(files, x)
    BY <2>1 DEF With, Sources
  <2>3. DOMAIN mem' = DOMAIN mem \cup {id} /\ DOMAIN files' = DOMAIN files \cup {id}
    BY <2>1 DEF With
  <2>4. Sources(mem, id) = mem[id] /\ Sources(files, id) = files[id]
    BY <1>1, <1>2 DEF Sources
  <2> QED
    BY <1>1, <1>2, <2>2, <2>3, <2>4
<1>3. CASE id \notin DOMAIN mem
  <2>1. mem' = With(mem, id, {scan}) /\ files' = With(files, id, {scan})
    BY <1>3 DEF Ingested
  <2>2. ASSUME NEW x
        PROVE  /\ Sources(mem', x) = IF x = id THEN {scan} ELSE Sources(mem, x)
               /\ Sources(files', x) = IF x = id THEN {scan} ELSE Sources(files, x)
    BY <2>1 DEF With, Sources
  <2>3. DOMAIN mem' = DOMAIN mem \cup {id} /\ DOMAIN files' = DOMAIN files \cup {id}
    BY <2>1 DEF With
  <2>4. Sources(mem, id) = {}
    BY <1>3 DEF Sources
  <2> QED
    BY <1>1, <1>3, <2>2, <2>3, <2>4
<1> QED
  BY <1>2, <1>3

LEMMA StoreInit == Init => StoreInv
<1> SUFFICES ASSUME Init PROVE StoreInv
  OBVIOUS
<1>1. pc = "connect" /\ scan = 1 /\ changes = <<>> /\ index = <<>>
  BY DEF Init, ScanInit
<1>2. DOMAIN changes = {} /\ DOMAIN index = {}
  BY <1>1
<1>3. LogInOrder /\ LoggedScansAreKept
  BY <1>2 DEF LogInOrder, LoggedScansAreKept
<1>4. Filed /\ Progress
  BY <1>1, <1>2 DEF Filed, Progress
<1> QED
  BY <1>1, <1>3, <1>4, EmptyLog DEF StoreInv, Pcs, ScanPcs

LEMMA StoreStep == StoreInv /\ [Next]_vars => StoreInv'
<1> SUFFICES ASSUME StoreInv, [Next]_vars PROVE StoreInv'
  OBVIOUS
<1> USE DEF Pcs, ScanPcs, Writing
<1>0. pc \in Pcs /\ scan \in Nat /\ IsLog /\ LogInOrder /\ Filed /\ Progress /\ LoggedScansAreKept
  BY DEF StoreInv
<1>1. CASE Scanning
  <2>1. /\ pc \in ScanPcs /\ pc' \in ScanPcs /\ scan' = scan
        /\ files' = files /\ index' = index /\ records' = records /\ changes' = changes
    BY <1>1, ScanningStays
  <2> QED
    BY <1>0, <2>1 DEF StoreInv, IsLog, LogInOrder, Filed, Progress, LoggedScansAreKept, Sources
<1>2. CASE BeginIngest
  <2>1. /\ pc = "extracted" /\ pc' = "ingest" /\ mem' = index /\ todo' = Processes
        /\ components' = components /\ scan' = scan
        /\ files' = files /\ index' = index /\ records' = records /\ changes' = changes
    BY <1>2 DEF BeginIngest, result, store, history
  <2>2. Processes' \ todo' = {}
    BY <2>1 DEF Processes
  <2>3. Progress'
    BY <2>1, <2>2 DEF Progress, Kept
  <2> QED
    BY <1>0, <2>1, <2>3 DEF StoreInv, IsLog, LogInOrder, Filed, LoggedScansAreKept, Sources
<1>3. CASE Ingest
  <2>1. /\ pc = "ingest" /\ pc' = "ingest" /\ components' = components /\ scan' = scan
        /\ index' = index /\ records' = records /\ changes' = changes
    BY <1>3 DEF Ingest, scanVars, result, history
  <2>2. PICK id \in todo : Ingested(id) /\ todo' = todo \ {id}
    BY <1>3 DEF Ingest
  <2>3. /\ scan \in Sources(mem', id) /\ scan \in Sources(files', id)
        /\ \A x : Sources(mem, x) \subseteq Sources(mem', x)
        /\ \A x \in DOMAIN mem : Sources(files, x) \subseteq Sources(files', x)
        /\ DOMAIN files \subseteq DOMAIN files'
        /\ DOMAIN mem' \subseteq DOMAIN files'
    BY <1>0, <2>1, <2>2, IngestKeeps
  <2>4. Filed'
    BY <1>0, <2>1, <2>3 DEF Filed, Sources
  <2>5. Progress'
    <3> SUFFICES ASSUME NEW x \in Processes, x \notin todo'
                 PROVE  scan \in Sources(mem', x) /\ scan \in Sources(files', x)
      BY <2>1 DEF Progress, Kept, Processes, Sources
    <3>1. CASE x = id
      BY <2>3, <3>1
    <3>2. CASE x \notin todo
      <4>1. scan \in Sources(mem, x) /\ scan \in Sources(files, x)
        BY <1>0, <2>1, <3>2 DEF Progress, Kept
      <4>2. x \in DOMAIN mem
        BY <4>1 DEF Sources
      <4> QED
        BY <2>3, <4>1, <4>2
    <3> QED
      BY <2>2, <3>1, <3>2
  <2>6. LoggedScansAreKept'
    <3> SUFFICES ASSUME NEW n \in DOMAIN changes, NEW x \in records[changes[n].to]
                 PROVE  changes[n].to \in Sources(index, x) /\ changes[n].to \in Sources(files', x)
      BY <2>1 DEF LoggedScansAreKept, Sources
    <3>1. changes[n].to \in Sources(index, x) /\ changes[n].to \in Sources(files, x)
      BY <1>0 DEF LoggedScansAreKept
    <3>2. x \in DOMAIN index
      BY <3>1 DEF Sources
    <3>3. changes[n].to \in Sources(mem, x)
      BY <1>0, <2>1, <3>1, <3>2 DEF Filed
    <3>4. x \in DOMAIN mem
      BY <3>3 DEF Sources
    <3> QED
      BY <2>3, <3>1, <3>4
  <2> QED
    BY <1>0, <2>1, <2>4, <2>5, <2>6 DEF StoreInv, IsLog, LogInOrder
<1>4. CASE RecordScan
  <2>1. /\ pc = "ingest" /\ pc' = "index" /\ todo = {} /\ scan' = scan /\ mem' = mem
        /\ records' = With(records, scan, Processes)
        /\ files' = files /\ index' = index /\ changes' = changes
    BY <1>4 DEF RecordScan, At, memory, history
  <2>2. DOMAIN records' = DOMAIN records \cup {scan}
    BY <2>1 DEF With
  <2>3. records'[scan] = Processes /\ \A s \in DOMAIN records : s # scan => records'[s] = records[s]
    BY <2>1 DEF With
  <2>4. LogInOrder'
    BY <1>0, <2>1, <2>2 DEF LogInOrder
  <2>5. Filed'
    BY <1>0, <2>1 DEF Filed, Sources
  <2>6. Kept(Processes, mem)
    BY <1>0, <2>1 DEF Progress, Kept
  <2>7. Progress'
    BY <2>1, <2>2, <2>3, <2>6 DEF Progress, Kept, Sources
  <2>8. LoggedScansAreKept'
    <3> SUFFICES ASSUME NEW n \in DOMAIN changes, NEW x \in records'[changes[n].to]
                 PROVE  changes[n].to \in Sources(index, x) /\ changes[n].to \in Sources(files, x)
      BY <2>1 DEF LoggedScansAreKept, Sources
    <3>1. changes[n].to \in DOMAIN records /\ changes[n].to # scan
      BY <1>0, <2>1 DEF LogInOrder
    <3>2. records'[changes[n].to] = records[changes[n].to]
      BY <2>3, <3>1
    <3> QED
      BY <1>0, <3>2 DEF LoggedScansAreKept
  <2> QED
    BY <1>0, <2>1, <2>4, <2>5, <2>7, <2>8 DEF StoreInv, IsLog
<1>5. CASE SaveIndex
  <2>1. /\ pc = "index" /\ pc' = "log" /\ scan' = scan /\ index' = mem
        /\ records' = records /\ files' = files /\ changes' = changes
    BY <1>5 DEF SaveIndex, At, history
  <2>2. LogInOrder'
    BY <1>0, <2>1 DEF LogInOrder
  <2>3. Filed'
    BY <1>0, <2>1 DEF Filed
  <2>4. Progress'
    BY <1>0, <2>1 DEF Progress, Kept, Sources
  <2>5. LoggedScansAreKept'
    <3> SUFFICES ASSUME NEW n \in DOMAIN changes, NEW x \in records[changes[n].to]
                 PROVE  changes[n].to \in Sources(mem, x) /\ changes[n].to \in Sources(files, x)
      BY <2>1 DEF LoggedScansAreKept, Sources
    <3>1. changes[n].to \in Sources(index, x) /\ changes[n].to \in Sources(files, x)
      BY <1>0 DEF LoggedScansAreKept
    <3>2. x \in DOMAIN index
      BY <3>1 DEF Sources
    <3> QED
      BY <1>0, <2>1, <3>1, <3>2 DEF Filed
  <2> QED
    BY <1>0, <2>1, <2>2, <2>3, <2>4, <2>5 DEF StoreInv, IsLog
<1>6. CASE AppendLog
  <2>1. /\ pc = "log" /\ pc' = "snapshot" /\ scan' = scan
        /\ changes' = Append(changes, Diff(snapshot, listed))
        /\ records' = records /\ files' = files /\ index' = index
    BY <1>6 DEF AppendLog, At, store
  <2>2. PICK n : n = Len(changes) + 1
    OBVIOUS
  <2>3. /\ IsLog' /\ DOMAIN changes' = DOMAIN changes \cup {n}
        /\ changes'[n] = Diff(snapshot, listed)
        /\ \A k \in DOMAIN changes : changes'[k] = changes[k]
    BY <1>0, <2>1, <2>2, LogGrows
  <2>4. changes'[n].to = scan
    BY <2>3 DEF Diff
  <2>5. scan \in DOMAIN records /\ Kept(records[scan], index)
    BY <1>0, <2>1 DEF Progress
  <2>6. LogInOrder'
    BY <1>0, <2>1, <2>3, <2>4, <2>5 DEF LogInOrder
  <2>7. LoggedScansAreKept'
    <3> SUFFICES ASSUME NEW k \in DOMAIN changes', NEW x \in records[changes'[k].to]
                 PROVE  changes'[k].to \in Sources(index, x) /\ changes'[k].to \in Sources(files, x)
      BY <2>1 DEF LoggedScansAreKept, Sources
    <3>1. CASE k = n
      BY <2>4, <2>5, <3>1 DEF Kept
    <3>2. CASE k \in DOMAIN changes
      BY <1>0, <2>3, <3>2 DEF LoggedScansAreKept
    <3> QED
      BY <2>3, <3>1, <3>2
  <2> QED
    BY <1>0, <2>1, <2>3, <2>6, <2>7 DEF StoreInv, Filed, Progress
<1>7. CASE WriteSnapshot
  <2>1. /\ pc = "snapshot" /\ pc' = "written" /\ scan' = scan /\ changes' = changes
        /\ records' = records /\ files' = files /\ index' = index
    BY <1>7 DEF WriteSnapshot, At, store
  <2> QED
    BY <1>0, <2>1 DEF StoreInv, IsLog, LogInOrder, Filed, Progress, LoggedScansAreKept, Sources
<1>8. CASE Crash
  <2>1. /\ pc \in Writing /\ pc' = "killed" /\ scan' = scan /\ changes' = changes
        /\ records' = records /\ files' = files /\ index' = index
    BY <1>8 DEF Crash, store, history
  <2> QED
    BY <1>0, <2>1 DEF StoreInv, IsLog, LogInOrder, Filed, Progress, LoggedScansAreKept, Sources
<1>9. CASE NextScan
  <2>1. /\ pc' = "connect" /\ scan' = scan + 1 /\ changes' = changes
        /\ records' = records /\ files' = files /\ index' = index
    BY <1>9 DEF NextScan, store, history
  <2> QED
    BY <1>0, <2>1 DEF StoreInv, IsLog, LogInOrder, Filed, Progress, LoggedScansAreKept, Sources
<1>10. CASE UNCHANGED vars
  <2>1. /\ pc' = pc /\ scan' = scan /\ changes' = changes /\ records' = records
        /\ files' = files /\ index' = index /\ mem' = mem /\ todo' = todo /\ components' = components
    BY <1>10 DEF vars, scanVars, result, store, history, memory
  <2> QED
    BY <1>0, <2>1
       DEF StoreInv, IsLog, LogInOrder, Filed, Progress, Kept, Processes, LoggedScansAreKept, Sources
<1> QED
  BY <1>1, <1>2, <1>3, <1>4, <1>5, <1>6, <1>7, <1>8, <1>9, <1>10 DEF Next, Scanning

\* A scan that reached the change log is never lost from the library: whatever
\* was killed before or since, each process of its record is in the index and on
\* disk with that scan among the sources.
THEOREM LoggedScansStay == Spec => []LoggedScansAreKept
<1>1. StoreInv => LoggedScansAreKept
  BY DEF StoreInv
<1> QED
  BY <1>1, StoreInit, StoreStep, PTL DEF Spec

------------------------------------------------------------------------------
(* Every type to retrieve is accounted for.                                 *)

Pulling == pc \in {"tooling", "reconcile", "extracted"}
Left == UNION {g.types : g \in work}

\* What was retrieved, what failed and the groups still to retrieve share the
\* types out among them, and no type is in two groups.
AccountInv ==
    /\ via \in Vias
    /\ Pulling =>
          /\ UNION {g.types : g \in Groups} = retrieved \cup failed \cup Left
          /\ retrieved \cap failed = {}
          /\ \A g \in work : g.types \cap (retrieved \cup failed) = {}
          /\ \A g, h \in work : g # h => g.types \cap h.types = {}
    /\ pc \in {"reconcile", "extracted"} => work = {}

LEMMA TypesApart ==
    /\ \A g, h \in PartialGroups : g # h => g \cap h = {}
    /\ \A g, h \in CliGroups : g # h => g \cap h = {}
    /\ \A g, h \in MdapiGroups : g # h => g \cap h = {}
<1>1. \A g, h \in PartialGroups : g # h => g \cap h = {}
  BY DEF PartialGroups
<1>2. \A g, h \in CliGroups : g # h => g \cap h = {}
  BY DEF CliGroups
<1>3. \A g \in PartialGroups, h \in CliGroups : g # h => g \cap h = {}
  BY DEF PartialGroups, CliGroups
<1>4. \A g \in PartialGroups : g \cap {"lwc_bundle", "aura_bundle"} = {}
  BY DEF PartialGroups
<1>5. \A g \in CliGroups : g # {"lwc_bundle"} => g \cap {"lwc_bundle", "aura_bundle"} = {}
  BY DEF CliGroups
<1> QED
  BY <1>1, <1>2, <1>3, <1>4, <1>5 DEF MdapiGroups

LEMMA GroupsApart ==
    ASSUME via \in Vias
    PROVE  \A g, h \in Groups : g # h => g.types \cap h.types = {}
<1>1. PICK wanted : /\ wanted = CASE via = "rest" -> PartialGroups [] via = "mdapi" -> MdapiGroups
                                   [] via = "sf_cli" -> CliGroups
  OBVIOUS
<1>2. wanted \in {PartialGroups, MdapiGroups, CliGroups}
  BY <1>1, ViaAssumption
<1>3. \A s, t \in wanted : s # t => s \cap t = {}
  BY <1>2, TypesApart
<1>4. Groups = {[types |-> t, split |-> TRUE] : t \in {s \cap Scope : s \in wanted} \ {{}}}
  BY <1>1, Zenon DEF Groups
<1>5. ASSUME NEW g \in Groups
      PROVE  \E s \in wanted : g = [types |-> s \cap Scope, split |-> TRUE]
  BY <1>4, <1>5
<1>6. SUFFICES ASSUME NEW g \in Groups, NEW h \in Groups, g # h  PROVE g.types \cap h.types = {}
  OBVIOUS
<1>7. PICK s \in wanted : g = [types |-> s \cap Scope, split |-> TRUE]
  BY <1>5
<1>8. PICK t \in wanted : h = [types |-> t \cap Scope, split |-> TRUE]
  BY <1>5
<1>9. s # t /\ g.types = s \cap Scope /\ h.types = t \cap Scope
  BY <1>6, <1>7, <1>8
<1> QED
  BY <1>3, <1>9

\* Retrieving a group, giving it up or splitting it keeps the account.
LEMMA RetrieveKeeps ==
    ASSUME AccountInv, Retrieve
    PROVE  AccountInv'
<1>1. PICK g \in work : g = CHOOSE x \in work : TRUE
  BY DEF Retrieve
<1>2. pc = "tooling" /\ via' = via /\ Groups' = Groups
  BY DEF Retrieve, Groups
<1>3. /\ UNION {x.types : x \in Groups} = retrieved \cup failed \cup Left
      /\ retrieved \cap failed = {}
      /\ \A x \in work : x.types \cap (retrieved \cup failed) = {}
      /\ \A x, h \in work : x # h => x.types \cap h.types = {}
  BY <1>2 DEF AccountInv, Pulling
<1>4. Left = g.types \cup UNION {x.types : x \in work \ {g}}
  BY DEF Left
<1>5. CASE retrieved' = retrieved \cup g.types /\ work' = work \ {g} /\ pc' = pc /\ failed' = failed
  BY <1>2, <1>3, <1>4, <1>5 DEF AccountInv, Pulling, Left
<1>6. CASE failed' = failed \cup g.types /\ work' = work \ {g} /\ pc' = pc /\ retrieved' = retrieved
  BY <1>2, <1>3, <1>4, <1>6 DEF AccountInv, Pulling, Left
<1>7. CASE /\ \E first \in Firsts(g) : work' = Resplit(g, first) \cup (work \ {g})
           /\ pc' = pc /\ retrieved' = retrieved /\ failed' = failed
  <2>1. PICK first \in SUBSET g.types : work' = Resplit(g, first) \cup (work \ {g})
    BY <1>7 DEF Firsts
  <2>6. PICK a : a = Half(first)
    OBVIOUS
  <2>7. PICK b : b = Half(g.types \ first)
    OBVIOUS
  <2>2. a.types = first /\ b.types = g.types \ first /\ work' = {a, b} \cup (work \ {g})
    BY <2>1, <2>6, <2>7 DEF Resplit, Half
  <2>3. Left' = Left
    BY <1>4, <2>2 DEF Left
  <2>4. \A x \in work' : x.types \cap (retrieved \cup failed) = {}
    BY <1>3, <2>2
  <2>5. \A x, h \in work' : x # h => x.types \cap h.types = {}
    BY <1>3, <2>2
  <2> QED
    BY <1>2, <1>3, <1>7, <2>3, <2>4, <2>5 DEF AccountInv, Pulling
<1>8. CASE pc' = "aborted"
  BY <1>2, <1>8 DEF AccountInv, Pulling
<1> QED
  BY <1>1, <1>5, <1>6, <1>7, <1>8 DEF Retrieve

\* A step that neither begins the pull nor retrieves.
LEMMA AccountStays ==
    ASSUME AccountInv, via' = via, Groups' = Groups, pc' \in {"tooling", "reconcile", "extracted"} => Pulling,
           retrieved' = retrieved, failed' = failed, work' = work,
           pc' \in {"reconcile", "extracted"} => work = {}
    PROVE  AccountInv'
BY DEF AccountInv, Pulling, Left

LEMMA AccountStep == AccountInv /\ [Next]_vars => AccountInv'
<1> SUFFICES ASSUME AccountInv, [Next]_vars PROVE AccountInv'
  OBVIOUS
<1>0. pc \in {"reconcile", "extracted"} => work = {}
  BY DEF AccountInv
<1>1. ASSUME via' = via PROVE Groups' = Groups
  BY <1>1 DEF Groups
<1>11. via' \in Vias
  BY DEF AccountInv, Next, ScanNext, Connect, ReadSchema, Profile, Abort, BeginPull, ReadTooling,
         Retrieve, ReadTree, Extract, BeginIngest, Ingest, RecordScan, SaveIndex, AppendLog,
         WriteSnapshot, At, Crash, NextScan, vars, scanVars
<1>2. ASSUME pc' \notin {"tooling", "reconcile", "extracted"} PROVE AccountInv'
  BY <1>2, <1>11 DEF AccountInv, Pulling
<1>3. CASE Connect \/ ReadSchema \/ Profile
  BY <1>2, <1>3 DEF Connect, ReadSchema, Profile, Abort
<1>4. CASE BeginPull
  <2>1. /\ work' = Groups /\ retrieved' = {} /\ failed' = {} /\ via' = via /\ pc' = "tooling"
    BY <1>4 DEF BeginPull
  <2>2. Groups' = Groups
    BY <1>1, <2>1
  <2> QED
    BY <2>1, <2>2, GroupsApart DEF AccountInv, Pulling, Left
<1>5. CASE ReadTooling
  <2>1. /\ pc = "tooling" /\ pc' \in {"tooling", "aborted"}
        /\ via' = via /\ work' = work /\ retrieved' = retrieved /\ failed' = failed
    BY <1>5 DEF ReadTooling
  <2> QED
    BY <1>1, <2>1, AccountStays DEF Pulling
<1>6. CASE Retrieve
  BY <1>6, RetrieveKeeps
<1>7. CASE ReadTree
  <2>1. /\ pc = "tooling" /\ work = {} /\ pc' = "reconcile"
        /\ via' = via /\ work' = work /\ retrieved' = retrieved /\ failed' = failed
    BY <1>7 DEF ReadTree
  <2> QED
    BY <1>1, <2>1, AccountStays DEF Pulling
<1>8. CASE Extract
  <2>1. /\ pc = "reconcile" /\ pc' \in {"extracted", "aborted"}
        /\ via' = via /\ work' = work /\ retrieved' = retrieved /\ failed' = failed
    BY <1>8 DEF Extract, Abort, pull
  <2> QED
    BY <1>0, <1>1, <2>1, AccountStays DEF Pulling
<1>9. CASE BeginIngest \/ RecordScan \/ SaveIndex \/ AppendLog \/ WriteSnapshot \/ Crash \/ NextScan
  BY <1>2, <1>9 DEF BeginIngest, RecordScan, SaveIndex, AppendLog, WriteSnapshot, Crash, NextScan, At
<1>10. CASE Ingest \/ UNCHANGED vars
  <2>1. /\ pc' = pc /\ via' = via /\ work' = work /\ retrieved' = retrieved /\ failed' = failed
    BY <1>10 DEF Ingest, vars, scanVars, pull
  <2> QED
    BY <1>0, <1>1, <2>1, AccountStays DEF Pulling
<1> QED
  BY <1>3, <1>4, <1>5, <1>6, <1>7, <1>8, <1>9, <1>10 DEF Next, ScanNext

\* Of the types to retrieve, each is in the result or among the suspected gaps,
\* and none in both, however often a group was split and whichever half failed.
THEOREM TypesAccountedFor == Spec => []RetrievesAccounted
<1>1. Init => AccountInv
  BY DEF Init, ScanInit, AccountInv, Pulling
<1>2. AccountInv => RetrievesAccounted
  BY DEF AccountInv, Pulling, Left, RetrievesAccounted, Done, SuspectedGaps
<1> QED
  BY <1>1, <1>2, AccountStep, PTL DEF Spec

------------------------------------------------------------------------------
(* What a retrieve brought is what the component says.                      *)

LEMMA ImagesAreFinite ==
    ASSUME NEW S, IsFiniteSet(S), NEW f, DOMAIN f = S
    PROVE  IsFiniteSet({f[x] : x \in S})
<1> DEFINE T == {f[x] : x \in S}
           g == [x \in S |-> f[x]]
<1>1. g \in Surjection(S, T)
  BY DEF Surjection
<1> HIDE DEF g, T
<1>2. IsFiniteSet(T)
  BY <1>1, FS_Surjection
<1> QED
  BY <1>2 DEF T

\* A finite set in some order.
LEMMA SetInOrder ==
    ASSUME NEW S, IsFiniteSet(S)
    PROVE  \E n \in Nat : SetToSeq(S) \in [1..n -> S] /\ n = Cardinality(S)
<1>1. Cardinality(S) \in Nat /\ ExistsBijection(1..Cardinality(S), S)
  BY FS_CardinalityType
<1>2. PICK f : f \in Bijection(1..Cardinality(S), S)
  BY <1>1 DEF ExistsBijection
<1>3. f \in [1..Cardinality(S) -> S] /\ IsInjective(f)
  BY <1>2 DEF Bijection, Injection, IsInjective
<1>4. SetToSeq(S) \in [1..Cardinality(S) -> S]
  BY <1>3, Zenon DEF SetToSeq
<1> QED
  BY <1>1, <1>4

LEMMA OneInOrder == ASSUME NEW x PROVE SetToSeq({x}) = <<x>>
<1>1. IsFiniteSet({x}) /\ Cardinality({x}) = 1
  BY FS_Singleton
<1>2. PICK s : s = SetToSeq({x})
  OBVIOUS
<1>3. s \in [1..1 -> {x}]
  BY <1>1, <1>2, SetInOrder
<1>4. s = <<x>>
  BY <1>3
<1> QED
  BY <1>2, <1>4

\* Reconciling merges the records of a key one after the other.
LEMMA MergeRuns ==
    ASSUME NEW n \in Nat, NEW s, DOMAIN s = 1..n
    PROVE  \E run : /\ run[0] = Unmerged /\ FoldLeft(Merge, Unmerged, s) = run[n]
                    /\ \A i \in 1..n : run[i] = Merge(run[i - 1], s[i])
<1> DEFINE K == UNION {DOMAIN s[i].payload : i \in 1..n}
           V == UNION {{s[i].payload[k] : k \in DOMAIN s[i].payload} : i \in 1..n}
           P == UNION {[D -> V] : D \in SUBSET K}
           B == {None} \cup {s[i].source : i \in 1..n}
           U == [payload : P, body : B, clash : BOOLEAN]
           step == [p \in (1..n) \X U |-> Merge(p[2], s[p[1]])]
<1>1. ASSUME NEW i \in 1..n, NEW f \in P, NEW keys
      PROVE  Before(f, Only(s[i].payload, keys)) \in P
  <2>1. PICK D \in SUBSET K : f \in [D -> V]
    OBVIOUS
  <2>2. PICK new : new = Only(s[i].payload, keys)
    OBVIOUS
  <2>3. DOMAIN new \in SUBSET K /\ \A k \in DOMAIN new : new[k] \in V
    BY <2>2 DEF Only
  <2>4. Before(f, new) \in [D \cup DOMAIN new -> V]
    BY <2>1, <2>3 DEF Before
  <2> QED
    BY <2>2, <2>3, <2>4
<1>2. ASSUME NEW i \in 1..n, NEW m \in U  PROVE Merge(m, s[i]) \in U
  <2>1. m.payload \in P /\ m.body \in B /\ m.clash \in BOOLEAN
    OBVIOUS
  <2> HIDE DEF P
  <2>2. s[i].source \in B
    OBVIOUS
  <2> HIDE DEF B
  <2>3. ASSUME NEW keys  PROVE Fold(m, s[i], keys) \in U
    BY <1>1, <2>1, <2>2 DEF Fold
  <2> HIDE DEF U
  <2> QED
    BY <2>3 DEF Merge
<1>3. step \in [(1..n) \X U -> U]
  BY <1>2
<1>4. \A i \in 1..n, m \in U : step[<<i, m>>] = Merge(m, s[i])
  OBVIOUS
<1>5. PICK base \in U : base = Unmerged
  <2>1. <<>> \in [{} -> V] /\ {} \in SUBSET K
    OBVIOUS
  <2>2. <<>> \in P
    BY <2>1
  <2> QED
    BY <2>2 DEF Unmerged
<1> HIDE DEF step, U
<1>6. \A t \in SUBSET (1..n) : t # {} => Max(t) \in 1..n /\ t \ {Max(t)} \in SUBSET (1..n)
  BY MaxOfPositions
<1> DEFINE IsMerged(it) ==
    it = [t \in SUBSET DOMAIN s |-> IF t = {} THEN Unmerged ELSE Merge(it[t \ {Max(t)}], s[Max(t)])]
<1>7. \E it : IsMerged(it)
  <2>1. PICK it \in [SUBSET (1..n) -> U] : FoldEquation(n, base, step, it)
    BY <1>3, FoldExists
  <2>2. \A t \in SUBSET (1..n) : it[t] = IF t = {} THEN Unmerged ELSE Merge(it[t \ {Max(t)}], s[Max(t)])
    BY <1>4, <1>5, <1>6, <2>1 DEF FoldEquation
  <2>3. it = [t \in SUBSET (1..n) |-> it[t]]
    OBVIOUS
  <2>4. IsMerged(it)
    BY <2>2, <2>3
  <2> QED
    BY <2>4
<1>8. PICK it : it = CHOOSE f : IsMerged(f)
  OBVIOUS
<1>9. FoldLeft(Merge, Unmerged, s) = it[DOMAIN s]
  BY <1>8, Zenon DEF FoldLeft, MapThenFoldSet
<1>10. \A t \in SUBSET (1..n) : it[t] = IF t = {} THEN Unmerged ELSE Merge(it[t \ {Max(t)}], s[Max(t)])
  <2>1. IsMerged(it)
    BY <1>7, <1>8, Zenon
  <2> QED
    BY <2>1
<1>11. FoldWithin(n, U, base, step, it)
  BY <1>4, <1>5, <1>6, <1>10 DEF FoldWithin
<1>12. PICK run \in [0..n -> U] : StepByStep(n, base, step, run) /\ it[1..n] = run[n]
  <2>1. FoldsTo(n, U, base, step, it[1..n])
    BY <1>3, <1>5, <1>11, FoldRuns
  <2> QED
    BY <2>1 DEF FoldsTo
<1>13. \A i \in 1..n : run[i] = Merge(run[i - 1], s[i])
  <2>1. \A i \in 1..n : i - 1 \in 0..n
    OBVIOUS
  <2> QED
    BY <1>4, <1>12, <2>1 DEF StepByStep
<1> QED
  BY <1>5, <1>9, <1>12, <1>13 DEF StepByStep

\* Once a retrieved body has won, merging leaves it alone.
Says(m, text) ==
    /\ m.body \in {"sf_cli", "metadata_api"}
    /\ "raw_xml" \in DOMAIN m.payload /\ m.payload["raw_xml"] = text
    /\ "parsed" \notin DOMAIN m.payload

LEMMA RetrievedWins ==
    ASSUME NEW i
    PROVE  Says(Merge(Unmerged, TreeRaw(i)), IF i.broken THEN <<>> ELSE i.body)
<1>11. PICK m : m = Unmerged
  OBVIOUS
<1>0. m = Unmerged /\ m.payload = <<>> /\ m.body = None
  BY <1>11 DEF Unmerged
<1>1. PICK r : r = TreeRaw(i)
  OBVIOUS
<1>2. /\ r.payload = [path |-> i.name, raw_xml |-> IF i.broken THEN <<>> ELSE i.body]
      /\ r.source \in {"sf_cli", "metadata_api"}
  BY <1>1 DEF TreeRaw, Raw
<1>3. DOMAIN r.payload = {"path", "raw_xml"}
  BY <1>2
<1>4. PICK new : new = Only(r.payload, DOMAIN r.payload)
  OBVIOUS
<1>5. DOMAIN new = {"path", "raw_xml"} /\ new["raw_xml"] = IF i.broken THEN <<>> ELSE i.body
  BY <1>2, <1>3, <1>4 DEF Only
<1>6. PICK p : p = Before(<<>>, new)
  OBVIOUS
<1>7. DOMAIN p = {"path", "raw_xml"} /\ p["raw_xml"] = IF i.broken THEN <<>> ELSE i.body
  BY <1>5, <1>6 DEF Before
<1>8. HasBody(r)
  BY <1>3 DEF HasBody
<1>9. Merge(m, r).payload = p
  BY <1>0, <1>4, <1>6 DEF Merge, Fold
<1>10. Merge(m, r).body = r.source
  BY <1>0, <1>8 DEF Merge, Fold
<1> QED
  BY <1>0, <1>1, <1>2, <1>7, <1>9, <1>10 DEF Says, None

LEMMA WinnerStays ==
    ASSUME NEW m, NEW r, NEW text, Says(m, text), r.source = "tooling_api"
    PROVE  Says(Merge(m, r), text)
<1>1. PICK new : new = Only(r.payload, DOMAIN r.payload \ BodyKeys)
  OBVIOUS
<1>2. "raw_xml" \notin DOMAIN new /\ "parsed" \notin DOMAIN new
  BY <1>1 DEF Only, BodyKeys
<1>3. PICK p : p = Before(m.payload, new)
  OBVIOUS
<1>4. Merge(m, r).payload = p /\ Merge(m, r).body = m.body
  BY <1>1, <1>3 DEF Merge, Fold, Says, None
<1>5. "raw_xml" \in DOMAIN p /\ p["raw_xml"] = text /\ "parsed" \notin DOMAIN p
  BY <1>2, <1>3 DEF Before, Says
<1> QED
  BY <1>4, <1>5 DEF Says

LEMMA MergedSays ==
    ASSUME NEW n \in Nat, NEW s, DOMAIN s = 1..n, n > 0, NEW i, s[1] = TreeRaw(i),
           \A k \in 2..n : s[k].source = "tooling_api"
    PROVE  Says(FoldLeft(Merge, Unmerged, s), IF i.broken THEN <<>> ELSE i.body)
<1> DEFINE text == IF i.broken THEN <<>> ELSE i.body
<1>1. PICK run : /\ run[0] = Unmerged /\ FoldLeft(Merge, Unmerged, s) = run[n]
                 /\ \A k \in 1..n : run[k] = Merge(run[k - 1], s[k])
  BY MergeRuns
<1> DEFINE Good == {k \in Nat : k > 0 /\ k <= n => Says(run[k], text)}
<1>2. 0 \in Good
  OBVIOUS
<1>3. Says(run[1], text)
  <2>1. run[1] = Merge(Unmerged, TreeRaw(i))
    BY <1>1
  <2>2. Says(Merge(Unmerged, TreeRaw(i)), text)
    BY RetrievedWins
  <2> QED
    BY <2>1, <2>2
<1> HIDE DEF text
<1>4. ASSUME NEW k \in Nat, k \in Good  PROVE k + 1 \in Good
  <2>1. SUFFICES ASSUME k + 1 <= n  PROVE Says(run[k + 1], text)
    OBVIOUS
  <2>2. CASE k = 0
    BY <1>3, <2>2
  <2>3. CASE k > 0
    <3>1. Says(run[k], text)
      BY <1>4, <2>1, <2>3
    <3>2. run[k + 1] = Merge(run[k], s[k + 1]) /\ s[k + 1].source = "tooling_api"
      BY <1>1, <2>1, <2>3
    <3> QED
      BY <3>1, <3>2, WinnerStays
  <2> QED
    BY <2>2, <2>3
<1> HIDE DEF Good
<1>5. n \in Good
  BY <1>2, <1>4, CountingUp
<1> QED
  BY <1>1, <1>5 DEF Good, text

\* The invariant: who brought a record, and that a retrieve's are all there.
TreeRaws == {TreeRaw(i) : i \in {x \in org : Type(x) \in retrieved /\ x.ns = None /\ TreeCategory(x) # None}}
Stubs(set) == IsFiniteSet(set) /\ \A r \in set : r.source = "tooling_api" /\ r.cat # None
BodiesInv ==
    /\ org \in Orgs
    /\ pc \in {"tooling", "reconcile", "extracted"} => seen = org
    /\ pc = "tooling" => Stubs(raws) /\ reads \subseteq Categories
    /\ pc \in {"reconcile", "extracted"} => \E stubs : Stubs(stubs) /\ raws = stubs \cup TreeRaws
    /\ RetrievedBodyWins

\* What a flow's file says it is, and what any other component's does.
LEMMA TreeCategories ==
    ASSUME NEW x, TreeCategory(x) # None, x.cat \notin Flows
    PROVE  IF x.cat = "flow" THEN TreeCategory(x) \in Flows ELSE TreeCategory(x) = x.cat
<1>1. \A f : TreeFlow(f) \in Flows \cup {None}
  <2> SUFFICES ASSUME NEW f PROVE TreeFlow(f) \in Flows \cup {None}
    OBVIOUS
  <2>1. PICK fits : fits = {k \in DOMAIN Priority : Matches(f, Priority[k])}
    OBVIOUS
  <2>2. CASE fits = {}
    BY <2>1, <2>2 DEF TreeFlow
  <2>3. CASE fits # {}
    <3>1. DOMAIN Priority = 1..7 /\ \A k \in 1..7 : Priority[k] \in Flows
      BY DEF Priority, Flows
    <3>2. fits \in SUBSET (1..7)
      BY <2>1, <3>1
    <3>3. \E k \in fits : \A y \in fits : k <= y
      <4>1. fits \subseteq Nat
        BY <3>2
      <4> QED
        BY <2>3, <4>1, LeastElement
    <3>4. Min(fits) \in fits
      BY <3>3, Zenon DEF Min
    <3>5. TreeFlow(f) = Priority[Min(fits)]
      BY <2>1, <2>3 DEF TreeFlow
    <3> QED
      BY <3>1, <3>2, <3>4, <3>5
  <2> QED
    BY <2>2, <2>3
<1>2. CASE IsFlow(x)
  BY <1>1, <1>2 DEF TreeCategory, IsFlow
<1>3. CASE ~IsFlow(x)
  <2>1. TreeCategory(x) = x.cat
    BY <1>3 DEF TreeCategory
  <2> QED
    BY <1>3, <2>1 DEF IsFlow
<1> QED
  BY <1>2, <1>3

\* Two items of an org whose retrieved records have one key are one item.
LEMMA OneItem ==
    ASSUME org \in Orgs, NEW i \in org, NEW j \in org,
           i.ns = None, j.ns = None, i.name = j.name,
           TreeCategory(i) = TreeCategory(j), TreeCategory(i) # None
    PROVE  i = j
<1>1. i.cat \notin Flows /\ j.cat \notin Flows
  BY OrgAssumption
<1>2. i.cat = j.cat
  BY <1>1, TreeCategories
<1> QED
  BY <1>2, OrgAssumption

\* A retrieve's record comes before all others of its key, and is the only one.
LEMMA RetrievedFirst ==
    ASSUME org \in Orgs, NEW stubs, Stubs(stubs), raws = stubs \cup TreeRaws,
           NEW i \in org, Type(i) \in retrieved, i.ns = None, TreeCategory(i) # None
    PROVE  \E n \in Nat : /\ n > 0 /\ DOMAIN Bucket(Key(TreeRaw(i))) = 1..n
                         /\ Bucket(Key(TreeRaw(i)))[1] = TreeRaw(i)
                         /\ \A k \in 2..n : Bucket(Key(TreeRaw(i)))[k].source = "tooling_api"
<1>1. PICK r : r = TreeRaw(i)
  OBVIOUS
<1>2. \A j : /\ TreeRaw(j).source \in {"sf_cli", "metadata_api"} /\ Rank(TreeRaw(j).source) = 1
             /\ Key(TreeRaw(j)) = <<TreeCategory(j), j.name, j.ns>>
  BY DEF TreeRaw, Raw, Rank, Key
<1>3. \A x \in stubs : Rank(x.source) = 2
  BY DEF Stubs, Rank
<1>4. {x \in raws : Key(x) = Key(r) /\ Rank(x.source) = 1} = {r}
  <2>1. r \in raws
    BY <1>1 DEF TreeRaws
  <2>2. ASSUME NEW x \in raws, Key(x) = Key(r), Rank(x.source) = 1  PROVE x = r
    <3>1. x \in TreeRaws
      BY <1>3, <2>2
    <3>2. PICK j \in org : x = TreeRaw(j) /\ j.ns = None /\ TreeCategory(j) # None
      BY <3>1 DEF TreeRaws
    <3>3. TreeCategory(j) = TreeCategory(i) /\ j.name = i.name
      BY <1>1, <1>2, <2>2, <3>2
    <3>4. j = i
      BY <3>2, <3>3, OneItem
    <3> QED
      BY <1>1, <3>2, <3>4
  <2> QED
    BY <1>1, <1>2, <2>1, <2>2
<1>5. Ranked(Key(r), 1) = <<r>>
  BY <1>4, OneInOrder DEF Ranked
<1>6. PICK S : S = {x \in raws : Key(x) = Key(r) /\ Rank(x.source) = 2}
  OBVIOUS
<1>7. S \in SUBSET stubs
  BY <1>2, <1>6 DEF TreeRaws
<1>8. IsFiniteSet(S)
  BY <1>7, FS_Subset DEF Stubs
<1>9. PICK m \in Nat : SetToSeq(S) \in [1..m -> S]
  BY <1>8, SetInOrder
<1>10. PICK rest : rest = Ranked(Key(r), 2) /\ rest \in [1..m -> S]
  BY <1>6, <1>9 DEF Ranked
<1>11. Bucket(Key(r)) = <<r>> \o rest
  BY <1>5, <1>10 DEF Bucket
<1>12. /\ DOMAIN (<<r>> \o rest) = 1..(m + 1) /\ (<<r>> \o rest)[1] = r
       /\ \A k \in 2..(m + 1) : (<<r>> \o rest)[k].source = "tooling_api"
  <2>1. rest \in Seq(S) /\ Len(rest) = m
    BY <1>10
  <2>2. \A x \in S : x.source = "tooling_api"
    BY <1>7 DEF Stubs
  <2>3. ASSUME NEW k \in 2..(m + 1)  PROVE (<<r>> \o rest)[k] \in S
    <3>1. (<<r>> \o rest)[k] = rest[k - 1] /\ k - 1 \in 1..m
      BY <2>1
    <3> QED
      BY <1>10, <3>1
  <2> QED
    BY <2>1, <2>2, <2>3
<1> QED
  BY <1>1, <1>11, <1>12

LEMMA StubsOf ==
    ASSUME org \in Orgs, NEW cat, cat # None, NEW missing, NEW items, items \subseteq org
    PROVE  Stubs({ToolingRaw(i, cat, missing) : i \in items})
<1> DEFINE f == [i \in items |-> ToolingRaw(i, cat, missing)]
<1>1. IsFiniteSet(items)
  BY OrgAssumption, FS_Subset
<1>2. IsFiniteSet({f[i] : i \in items})
  <2>1. DOMAIN f = items
    OBVIOUS
  <2> HIDE DEF f
  <2> QED
    BY <1>1, <2>1, ImagesAreFinite
<1>3. {f[i] : i \in items} = {ToolingRaw(i, cat, missing) : i \in items}
  OBVIOUS
<1>4. \A i : ToolingRaw(i, cat, missing).source = "tooling_api" /\ ToolingRaw(i, cat, missing).cat = cat
  BY DEF ToolingRaw, Raw
<1> QED
  BY <1>2, <1>3, <1>4 DEF Stubs

LEMMA StubsUnion ==
    ASSUME NEW a, NEW b, Stubs(a), Stubs(b)
    PROVE  Stubs(a \cup b)
BY FS_Union DEF Stubs

LEMMA ReadToolingStubs ==
    ASSUME org \in Orgs, Stubs(raws), reads \subseteq Categories, ReadTooling
    PROVE  Stubs(raws') \/ pc' = "aborted"
<1> DEFINE cat == CHOOSE c \in reads : TRUE
           items == IF Reader(cat).list = "never" THEN {}
                    ELSE {i \in org : ToolingCategory(i) = cat}
           All(missing) == {ToolingRaw(i, cat, missing) : i \in items}
           Without(i, p, drops) == {ToolingRaw(j, cat, {}) : j \in items \ {i}}
                                   \cup (IF drops THEN {} ELSE {ToolingRaw(i, cat, {p})})
<1>1. \/ pc' = "aborted" \/ raws' = raws
      \/ \E missing : raws' = raws \cup All(missing)
      \/ \E i \in items : \E p : \E drops \in BOOLEAN : raws' = raws \cup Without(i, p, drops)
  <2>1. \/ pc' = "aborted" \/ raws' = raws \/ raws' = raws \cup All({})
        \/ \E p \in DOMAIN Reader(cat).parts :
              \/ pc' = "aborted" \/ raws' = raws \cup All({p})
              \/ \E i \in items : raws' = raws \cup Without(i, p, Reader(cat).parts[p] = "drop")
    BY Zenon DEF ReadTooling
  <2> HIDE DEF All, Without, items, cat
  <2>2. \A p : (Reader(cat).parts[p] = "drop") \in BOOLEAN
    BY Zenon
  <2> QED
    BY <2>1, <2>2, Zenon
<1>2. items \in SUBSET org
  OBVIOUS
<1>6. cat # None
  <2>1. cat \in reads
    BY DEF ReadTooling
  <2>2. None \notin Categories
    BY CategoryAssumption DEF None, Flows, Surfaces
  <2> QED
    BY <2>1, <2>2
<1> HIDE DEF items, cat
<1>3. ASSUME NEW missing, NEW some \in SUBSET items
      PROVE  Stubs({ToolingRaw(i, cat, missing) : i \in some})
  BY <1>2, <1>6, StubsOf
<1>4. ASSUME NEW missing, raws' = raws \cup All(missing)  PROVE Stubs(raws')
  BY <1>3, <1>4, StubsUnion
<1>5. ASSUME NEW i \in items, NEW p, NEW drops \in BOOLEAN, raws' = raws \cup Without(i, p, drops)
      PROVE  Stubs(raws')
  <2>1. Stubs({ToolingRaw(j, cat, {}) : j \in items \ {i}})
    BY <1>3
  <2>2. Stubs({ToolingRaw(j, cat, {p}) : j \in {i}})
    BY <1>3
  <2>3. {ToolingRaw(j, cat, {p}) : j \in {i}} = {ToolingRaw(i, cat, {p})}
    OBVIOUS
  <2>4. Stubs({})
    BY FS_EmptySet DEF Stubs
  <2>5. Stubs(IF drops THEN {} ELSE {ToolingRaw(i, cat, {p})})
    BY <2>2, <2>3, <2>4
  <2> QED
    BY <1>5, <2>1, <2>5, StubsUnion
<1> HIDE DEF All, Without
<1> QED
  BY <1>1, <1>4, <1>5

\* Extraction says of a retrieved component what its item says.
LEMMA ExtractedSay ==
    ASSUME org \in Orgs, NEW stubs, Stubs(stubs), raws = stubs \cup TreeRaws,
           NEW c \in Extracted, NEW i \in org,
           c.name = i.name, c.cat = TreeCategory(i), c.ns = None, i.ns = None, Type(i) \in retrieved, ~i.broken
    PROVE  c.raw.body = i.body
<1>1. PICK r \in raws : c = Component(Key(r))
  BY DEF Extracted, Keys
<1>2. Key(r) = <<r.cat, r.name, r.ns>>
  BY DEF Key
<1>3. c.cat = r.cat /\ c.name = r.name /\ c.ns = r.ns
  BY <1>1, <1>2 DEF Component
<1>4. r.cat # None
  <2>1. CASE r \in stubs
    BY <2>1 DEF Stubs
  <2>2. CASE r \in TreeRaws
    BY <2>2 DEF TreeRaws, TreeRaw, Raw
  <2> QED
    BY <2>1, <2>2
<1>5. PICK key : key = Key(r) /\ c = Component(key)
  BY <1>1
<1>6. key = Key(TreeRaw(i))
  BY <1>2, <1>3, <1>5 DEF Key, TreeRaw, Raw
<1>7. TreeCategory(i) # None
  BY <1>3, <1>4
<1>8. PICK n \in Nat : /\ n > 0 /\ DOMAIN Bucket(key) = 1..n /\ Bucket(key)[1] = TreeRaw(i)
                       /\ \A k \in 2..n : Bucket(key)[k].source = "tooling_api"
  BY <1>6, <1>7, RetrievedFirst
<1>9. Says(FoldLeft(Merge, Unmerged, Bucket(key)), i.body)
  BY <1>8, MergedSays
<1>10. Says(Reconciled(key), i.body)
  BY <1>9, Zenon DEF Reconciled
<1>11. BodyOf(Reconciled(key).payload) = i.body
  BY <1>10 DEF Says, BodyOf
<1> QED
  BY <1>5, <1>11 DEF Component

LEMMA ReadTreeBrings ==
    ASSUME BodiesInv, ReadTree
    PROVE  \E stubs : Stubs(stubs) /\ raws' = stubs \cup TreeRaws'
<1>1. TreeRaws' = TreeRaws
  BY DEF ReadTree, TreeRaws, TreeRaw, TreeCategory, Raw, Type
<1>2. Stubs(raws) /\ raws' = raws \cup TreeRaws
  BY DEF BodiesInv, ReadTree, TreeRaws
<1> QED
  BY <1>1, <1>2

LEMMA BodiesStep == BodiesInv /\ [Next]_vars => BodiesInv'
<1> SUFFICES ASSUME BodiesInv, [Next]_vars PROVE BodiesInv'
  OBVIOUS
<1>1. org' \in Orgs
  BY DEF BodiesInv, Next, ScanNext, Connect, ReadSchema, Profile, Abort, BeginPull, ReadTooling,
         Retrieve, ReadTree, Extract, BeginIngest, Ingest, RecordScan, SaveIndex, AppendLog,
         WriteSnapshot, At, Crash, NextScan, vars, scanVars
<1>2. ASSUME pc' \notin {"tooling", "reconcile", "extracted"} PROVE BodiesInv'
  BY <1>1, <1>2 DEF BodiesInv, RetrievedBodyWins, Done
<1>3. CASE Connect \/ ReadSchema \/ Profile
  BY <1>2, <1>3 DEF Connect, ReadSchema, Profile, Abort
<1>4. CASE BeginPull
  <2>1. /\ org' = org /\ seen' = org /\ pc' = "tooling" /\ raws' = {} /\ reads' \subseteq Categories
    BY <1>4 DEF BeginPull
  <2>2. Stubs({})
    BY FS_EmptySet DEF Stubs
  <2> QED
    BY <1>1, <2>1, <2>2 DEF BodiesInv, RetrievedBodyWins, Done, Stubs
<1>5. CASE ReadTooling
  <2>1. /\ pc = "tooling" /\ pc' \in {"tooling", "aborted"} /\ org' = org /\ seen' = seen
        /\ reads' \subseteq reads
    BY <1>5 DEF ReadTooling
  <2>2. Stubs(raws) /\ reads \subseteq Categories /\ org \in Orgs /\ seen = org
    BY <2>1 DEF BodiesInv
  <2>3. Stubs(raws') \/ pc' = "aborted"
    BY <1>5, <2>2, ReadToolingStubs
  <2> QED
    BY <1>1, <1>2, <2>1, <2>2, <2>3 DEF BodiesInv, RetrievedBodyWins, Done, Stubs
<1>6. CASE Retrieve
  <2>1. /\ pc = "tooling" /\ pc' \in {"tooling", "aborted"} /\ org' = org /\ seen' = seen
        /\ reads' = reads /\ raws' = raws
    BY <1>6 DEF Retrieve
  <2> QED
    BY <1>1, <1>2, <2>1 DEF BodiesInv, RetrievedBodyWins, Done, Stubs
<1>7. CASE ReadTree
  <2>1. pc = "tooling" /\ pc' = "reconcile" /\ org' = org /\ seen' = seen
    BY <1>7 DEF ReadTree
  <2>2. PICK stubs : Stubs(stubs) /\ raws' = stubs \cup TreeRaws'
    BY <1>7, ReadTreeBrings
  <2>3. (\E s : Stubs(s) /\ raws = s \cup TreeRaws)'
    BY <2>2 DEF Stubs
  <2> QED
    BY <1>1, <2>1, <2>3 DEF BodiesInv, RetrievedBodyWins, Done
<1>8. CASE Extract
  <2>1. /\ pc = "reconcile" /\ pc' \in {"extracted", "aborted"} /\ org' = org /\ seen' = seen
        /\ raws' = raws /\ via' = via /\ retrieved' = retrieved
    BY <1>8 DEF Extract, Abort, pull
  <2>2. pc' = "extracted" => components' = Extracted
    BY <1>8 DEF Extract, Abort
  <2>3. PICK stubs : Stubs(stubs) /\ raws = stubs \cup TreeRaws
    BY <2>1 DEF BodiesInv
  <2>4. TreeRaws' = TreeRaws
    BY <2>1 DEF TreeRaws, TreeRaw, TreeCategory, Raw, Type
  <2>5. (\E s : Stubs(s) /\ raws = s \cup TreeRaws)'
    BY <2>1, <2>3, <2>4 DEF Stubs
  <2>6. org \in Orgs /\ seen = org
    BY <2>1 DEF BodiesInv
  <2>7. RetrievedBodyWins'
    <3> SUFFICES ASSUME pc' = "extracted", NEW c \in components', NEW i \in seen',
                        c.name = i.name, c.cat = TreeCategory(i)', c.ns = None, i.ns = None,
                        Type(i) \in retrieved', ~i.broken
                 PROVE  c.raw.body = i.body
      BY DEF RetrievedBodyWins, Done, Type
    <3>1. TreeCategory(i)' = TreeCategory(i)
      BY <2>1 DEF TreeCategory
    <3>2. c \in Extracted /\ i \in org
      BY <2>1, <2>2, <2>6
    <3> QED
      BY <2>1, <2>3, <2>6, <3>1, <3>2, ExtractedSay
  <2> QED
    BY <1>1, <2>1, <2>5, <2>6, <2>7 DEF BodiesInv
<1>9. CASE BeginIngest \/ RecordScan \/ SaveIndex \/ AppendLog \/ WriteSnapshot \/ Crash \/ NextScan
  BY <1>2, <1>9 DEF BeginIngest, RecordScan, SaveIndex, AppendLog, WriteSnapshot, Crash, NextScan, At
<1>10. CASE Ingest
  BY <1>2, <1>10 DEF Ingest, scanVars
<1>11. CASE UNCHANGED vars
  BY <1>11 DEF BodiesInv, vars, scanVars, pull, result, RetrievedBodyWins, Done, Stubs, TreeRaws,
               TreeRaw, TreeCategory, Raw, Type
<1> QED
  BY <1>3, <1>4, <1>5, <1>6, <1>7, <1>8, <1>9, <1>10, <1>11 DEF Next, ScanNext

\* Whatever a retrieve brought of a component outside packages is what the
\* extraction says of it, whole, whichever records were merged with it.
THEOREM RetrievedBodiesWin == Spec => []RetrievedBodyWins
<1>1. Init => BodiesInv
  BY DEF Init, ScanInit, BodiesInv, RetrievedBodyWins, Done
<1>2. BodiesInv => RetrievedBodyWins
  BY DEF BodiesInv
<1> QED
  BY <1>1, <1>2, BodiesStep, PTL DEF Spec

------------------------------------------------------------------------------
(* What a refused field costs.                                              *)

\* A scan's calls fail one by one, and what it profiled it has from its schema.
ProfileInv ==
    /\ faults \in Nat
    /\ (pc \in {"pull", "tooling", "reconcile", "extracted"} /\ faults = 0) =>
           profiled = UNION {Profiled(o) : o \in Objects}

LEMMA SameSchema ==
    ASSUME schema' = schema
    PROVE  (UNION {Profiled(o) : o \in Objects})' = UNION {Profiled(o) : o \in Objects}
<1>1. \A o : Countable(o)' = Countable(o)
  BY DEF Countable
<1>2. \A o, f : Query(o, f)' = Query(o, f)
  BY <1>1 DEF Query
<1>3. \A o : Queries(o)' = Queries(o)
  BY <1>1, <1>2 DEF Queries
<1>4. \A o, k : Asked(o, k)' = Asked(o, k)
  BY <1>1, <1>2 DEF Asked
<1>5. ASSUME NEW o  PROVE Profiled(o)' = Profiled(o)
  <2> DEFINE stops == {k \in Queries(o) : Counted(Asked(o, k)) = {}}
  <2>1. stops' = stops
    BY <1>3, <1>4 DEF Counted
  <2>2. Profiled(o) = {f \in Counted(Countable(o)) : \A k \in stops : Query(o, f) < k}
    BY DEF Profiled
  <2>3. Profiled(o)' = {f \in Counted(Countable(o))' : \A k \in stops' : Query(o, f)' < k}
    BY DEF Profiled
  <2>4. Counted(Countable(o))' = Counted(Countable(o))
    BY <1>1 DEF Counted
  <2> HIDE DEF stops
  <2> QED
    BY <1>2, <2>1, <2>2, <2>3, <2>4
<1> QED
  BY <1>5 DEF Objects

LEMMA ProfileStays ==
    ASSUME ProfileInv, faults' \in Nat, faults' = 0 => faults = 0,
           schema' = schema, profiled' = profiled,
           pc' \in {"pull", "tooling", "reconcile", "extracted"} =>
               pc \in {"pull", "tooling", "reconcile", "extracted"}
    PROVE  ProfileInv'
BY SameSchema DEF ProfileInv

LEMMA ProfileStep == ProfileInv /\ [Next]_vars => ProfileInv'
<1> SUFFICES ASSUME ProfileInv, [Next]_vars PROVE ProfileInv'
  OBVIOUS
<1>0. faults \in Nat
  BY DEF ProfileInv
<1>8. CASE pc' = "connect" /\ faults' = 0
  BY <1>8 DEF ProfileInv
<1>1. \/ faults' \in Nat /\ (faults' = 0 => faults = 0)
      \/ pc' = "connect" /\ faults' = 0
  <2>1. CASE Connect \/ Profile \/ BeginPull
    BY <1>0, <2>1 DEF Connect, Profile, Abort, BeginPull, Fault
  <2>6. CASE ReadSchema
    <3>1. faults' = faults \/ faults' = faults + 1
      BY <2>6, Zenon DEF ReadSchema, Fault
    <3> QED
      BY <1>0, <3>1
  <2>7. CASE ReadTooling
    <3>1. faults' \in {faults, faults + 1}
      BY <2>7 DEF ReadTooling, Fault
    <3> QED
      BY <1>0, <3>1
  <2>2. CASE Retrieve \/ ReadTree \/ Extract \/ BeginIngest \/ Ingest
    BY <1>0, <2>2 DEF Retrieve, Fault, ReadTree, Extract, Abort, BeginIngest, Ingest, scanVars
  <2>3. CASE RecordScan \/ SaveIndex \/ AppendLog \/ WriteSnapshot \/ Crash
    BY <1>0, <2>3 DEF RecordScan, SaveIndex, AppendLog, WriteSnapshot, At, Crash
  <2>4. CASE NextScan
    BY <2>4 DEF NextScan
  <2>5. CASE UNCHANGED vars
    BY <1>0, <2>5 DEF vars, scanVars
  <2> QED
    BY <2>1, <2>2, <2>3, <2>4, <2>5, <2>6, <2>7 DEF Next, ScanNext
<1>2. ASSUME pc' \notin {"pull", "tooling", "reconcile", "extracted"} PROVE ProfileInv'
  BY <1>1, <1>2, <1>8 DEF ProfileInv
<1>3. CASE Connect \/ ReadSchema
  BY <1>2, <1>3 DEF Connect, ReadSchema, Abort
<1>4. CASE Profile
  <2>1. schema' = schema
    BY <1>4 DEF Profile
  <2>2. faults' = 0 => profiled' = UNION {Profiled(o) : o \in Objects}
    BY <1>0, <1>4 DEF Profile, Fault
  <2> QED
    BY <1>1, <1>8, <2>1, <2>2, SameSchema DEF ProfileInv
<1>5. CASE BeginPull \/ ReadTooling \/ Retrieve \/ ReadTree \/ Extract \/ BeginIngest
  <2>1. /\ pc \in {"pull", "tooling", "reconcile", "extracted"}
        /\ pc' # "connect" /\ schema' = schema /\ profiled' = profiled
    BY <1>5 DEF BeginPull, ReadTooling, Retrieve, ReadTree, Extract, Abort, BeginIngest, supplement
  <2> QED
    BY <1>1, <1>8, <2>1, ProfileStays
<1>6. CASE RecordScan \/ SaveIndex \/ AppendLog \/ WriteSnapshot \/ Crash \/ NextScan
  BY <1>2, <1>6 DEF RecordScan, SaveIndex, AppendLog, WriteSnapshot, Crash, NextScan, At
<1>7. CASE Ingest \/ UNCHANGED vars
  <2>1. pc' = pc /\ schema' = schema /\ profiled' = profiled /\ faults' = faults
    BY <1>7 DEF Ingest, vars, scanVars, supplement
  <2> QED
    BY <1>0, <2>1, ProfileStays
<1> QED
  BY <1>3, <1>4, <1>5, <1>6, <1>7 DEF Next, ScanNext

\* A field the database refuses to count costs that field only: when no call
\* failed and every query has a field it will count, what the profile has of an
\* object is every field of it that can be counted and is not refused.
THEOREM RefusalsCostOneField == Spec => []RefusalCostsOneField
<1>1. Init => ProfileInv
  BY DEF Init, ScanInit, ProfileInv
<1>2. ASSUME ProfileInv  PROVE RefusalCostsOneField
  <2> SUFFICES ASSUME Done, faults = 0, NEW o \in Objects,
                      \A k \in Queries(o) : Counted(Asked(o, k)) # {}
               PROVE  Countable(o) \cap profiled = Counted(Countable(o))
    BY DEF RefusalCostsOneField
  <2>1. profiled = UNION {Profiled(x) : x \in Objects}
    BY <1>2 DEF ProfileInv, Done
  <2>2. Profiled(o) = Counted(Countable(o))
    BY DEF Profiled
  <2>3. \A x \in Objects : Profiled(x) \subseteq Counted(Countable(x))
    BY DEF Profiled
  <2>4. \A x, f : f \in Countable(x) => Fields[f].object = x
    BY DEF Countable
  <2> QED
    BY <2>1, <2>2, <2>3, <2>4 DEF Counted
<1> QED
  BY <1>1, <1>2, ProfileStep, PTL DEF Spec

------------------------------------------------------------------------------
(* The log reports what moved.                                              *)

\* What a scan in which no call failed lists an item as, and what it says of it.
ToolingReads(i) ==
    /\ via = "rest" /\ ToolingCategory(i) \in Categories \ Surfaces
    /\ Reader(ToolingCategory(i)).list # "never"
ListedAs(i, cat) ==
    IF Retrievable(i) THEN cat = TreeCategory(i) /\ ~i.broken
    ELSE ToolingReads(i) /\ cat = ToolingCategory(i)
Shown(i) == [body |-> IF Retrievable(i) THEN i.body ELSE Legible(i)]

AtMostOne(S) == \A x, y \in S : x = y

\* The records of a pull in which no call failed.
Stub(i) == ToolingRaw(i, ToolingCategory(i), {})
StubsBut(categories) == {Stub(i) : i \in {x \in org : ToolingReads(x) /\ ToolingCategory(x) \notin categories}}
PulledWhole ==
    /\ org \in Orgs /\ seen = org
    /\ Stubs(StubsBut({})) /\ raws = StubsBut({}) \cup TreeRaws
    /\ retrieved = UNION {g.types : g \in Groups}

LEMMA CategoriesOfFlows ==
    ASSUME NEW i
    PROVE  IF i.cat = "flow" THEN ToolingCategory(i) \in Flows ELSE ToolingCategory(i) = i.cat
<1>1. ClassifyFlow(i.flow) \in Flows
  BY DEF ClassifyFlow, Flows
<1>2. CASE i.cat = "flow"
  <2>1. ToolingCategory(i) = ClassifyFlow(i.flow)
    BY <1>2 DEF ToolingCategory, IsFlow
  <2> QED
    BY <1>1, <1>2, <2>1
<1>3. CASE i.cat # "flow"
  <2>1. ToolingCategory(i) = i.cat
    BY <1>3 DEF ToolingCategory, IsFlow
  <2> QED
    BY <1>3, <2>1
<1> QED
  BY <1>2, <1>3

\* No flow is retrieved beside the Tooling client's reading of it.
LEMMA RetrievedBesideTooling ==
    ASSUME NEW i, via = "rest", Retrievable(i)
    PROVE  TreeCategory(i) = i.cat /\ ToolingCategory(i) = i.cat
<1>1. Groups = {[types |-> t, split |-> TRUE] : t \in {g \cap Scope : g \in PartialGroups} \ {{}}}
  BY Zenon DEF Groups
<1>2. PICK g \in Groups : i.cat \in g.types
  BY DEF Retrievable, Type
<1>3. PICK p \in PartialGroups : g = [types |-> p \cap Scope, split |-> TRUE]
  BY <1>1, <1>2
<1>4. i.cat \in p
  BY <1>2, <1>3
<1>5. i.cat # "flow" /\ i.cat \notin InObjectFile
  BY <1>4 DEF PartialGroups, InObjectFile
<1> QED
  BY <1>5 DEF TreeCategory, ToolingCategory, IsFlow

\* What reconciling makes of an item that is retrieved.
LEMMA RetrievedReconciles ==
    ASSUME PulledWhole, NEW i \in org, Retrievable(i)
    PROVE  Says(Reconciled(Key(TreeRaw(i))), IF i.broken THEN <<>> ELSE i.body)
<1>1. Type(i) \in retrieved /\ i.ns = None /\ TreeCategory(i) # None
  BY DEF Retrievable, PulledWhole
<1>2. PICK key : key = Key(TreeRaw(i))
  OBVIOUS
<1>3. PICK n \in Nat : /\ n > 0 /\ DOMAIN Bucket(key) = 1..n /\ Bucket(key)[1] = TreeRaw(i)
                       /\ \A k \in 2..n : Bucket(key)[k].source = "tooling_api"
  BY <1>1, <1>2, RetrievedFirst DEF PulledWhole
<1>4. Says(FoldLeft(Merge, Unmerged, Bucket(key)), IF i.broken THEN <<>> ELSE i.body)
  BY <1>3, MergedSays
<1> QED
  BY <1>2, <1>4, Zenon DEF Reconciled

\* What reconciling makes of an item that only the Tooling client reads.
LEMMA NoneInOrder == SetToSeq({}) = <<>>
<1>1. IsFiniteSet({}) /\ Cardinality({}) = 0
  BY FS_EmptySet
<1>2. PICK s : s = SetToSeq({})
  OBVIOUS
<1>3. s \in [1..0 -> {}]
  BY <1>1, <1>2, SetInOrder
<1>4. s = <<>>
  BY <1>3
<1> QED
  BY <1>2, <1>4

LEMMA MergeOfOne ==
    ASSUME NEW s, DOMAIN s = 1..1
    PROVE  FoldLeft(Merge, Unmerged, s) = Merge(Unmerged, s[1])
<1>1. 1 \in Nat
  OBVIOUS
<1>2. PICK run : /\ run[0] = Unmerged /\ FoldLeft(Merge, Unmerged, s) = run[1]
                 /\ \A k \in 1..1 : run[k] = Merge(run[k - 1], s[k])
  BY <1>1, MergeRuns, Zenon
<1> QED
  BY <1>2

LEMMA StubPayload ==
    ASSUME NEW i
    PROVE  /\ DOMAIN Stub(i).payload \subseteq {"path", "parsed", "object", "partial"}
           /\ "parsed" \in DOMAIN Stub(i).payload
           /\ ~Retrievable(i) => Stub(i).payload["parsed"] = Legible(i)
           /\ Stub(i).source = "tooling_api" /\ Stub(i).cat = ToolingCategory(i)
           /\ Stub(i).name = i.name /\ Stub(i).ns = i.ns
<1>1. PICK cat : cat = ToolingCategory(i)
  OBVIOUS
<1>2. PICK can : can = {p \in DOMAIN i.body : Reader(cat).parts[p] # "never"} \ {}
  OBVIOUS
<1>3. PICK first : first = [path |-> i.name, parsed |-> Only(i.body, can), object |-> i.name]
  OBVIOUS
<1>4. PICK second : second = IF Partial(cat) THEN [partial |-> TRUE] ELSE <<>>
  OBVIOUS
<1>5. DOMAIN first = {"path", "parsed", "object"} /\ first["parsed"] = Only(i.body, can)
  BY <1>3
<1>6. DOMAIN second \subseteq {"partial"}
  BY <1>4
<1>7. PICK p : p = Before(first, second)
  OBVIOUS
<1>8. /\ DOMAIN p \subseteq {"path", "parsed", "object", "partial"}
      /\ "parsed" \in DOMAIN p /\ p["parsed"] = Only(i.body, can)
  BY <1>5, <1>6, <1>7 DEF Before
<1>9. Stub(i) = Raw("tooling_api", cat, i, p)
  BY <1>1, <1>2, <1>3, <1>4, <1>7, Zenon DEF Stub, ToolingRaw
<1>10. ASSUME ~Retrievable(i)  PROVE Only(i.body, can) = Legible(i)
  <2>1. can = {q \in DOMAIN i.body :
                 IF Retrievable(i) THEN ~i.broken ELSE Reader(ToolingCategory(i)).parts[q] # "never"}
    BY <1>1, <1>2, <1>10
  <2> QED
    BY <2>1, Zenon DEF Legible
<1> QED
  BY <1>1, <1>8, <1>9, <1>10 DEF Raw

LEMMA StubReconciles ==
    ASSUME PulledWhole, NEW i \in org, AtMostOne(Named(org, i.name)), ToolingReads(i), ~Retrievable(i)
    PROVE  /\ "parsed" \in DOMAIN Reconciled(Key(Stub(i))).payload
           /\ Reconciled(Key(Stub(i))).payload["parsed"] = Legible(i)
<1>1. PICK r : r = Stub(i)
  OBVIOUS
<1>2. PICK key : key = Key(r) /\ key = <<r.cat, r.name, r.ns>>
  BY DEF Key
<1>3. ASSUME NEW j \in org, j.name = i.name  PROVE j = i
  BY <1>3 DEF AtMostOne, Named
<1>4. ASSUME NEW x \in raws, Key(x) = key  PROVE x = r
  <2>1. x.name = i.name
    BY <1>1, <1>2, <1>4, StubPayload DEF Key
  <2>2. CASE x \in TreeRaws
    <3>1. PICK j \in org : x = TreeRaw(j) /\ Type(j) \in retrieved /\ j.ns = None /\ TreeCategory(j) # None
      BY <2>2 DEF TreeRaws
    <3>2. j.name = i.name
      BY <2>1, <3>1 DEF TreeRaw, Raw
    <3>3. Retrievable(i)
      BY <1>3, <3>1, <3>2 DEF Retrievable, PulledWhole
    <3> QED
      BY <3>3
  <2>3. CASE x \in StubsBut({})
    <3>1. PICK j \in org : x = Stub(j)
      BY <2>3 DEF StubsBut
    <3>2. j.name = i.name
      BY <2>1, <3>1, StubPayload
    <3> QED
      BY <1>1, <1>3, <3>1, <3>2
  <2> QED
    BY <2>2, <2>3 DEF PulledWhole
<1>5. r \in raws
  BY <1>1 DEF PulledWhole, StubsBut
<1>6. r.source = "tooling_api" /\ Rank(r.source) = 2
  BY <1>1, StubPayload DEF Rank
<1>7. {x \in raws : Key(x) = key /\ Rank(x.source) = 1} = {}
  BY <1>4, <1>6
<1>8. {x \in raws : Key(x) = key /\ Rank(x.source) = 2} = {r}
  BY <1>2, <1>4, <1>5, <1>6
<1>9. Ranked(key, 1) = <<>> /\ Ranked(key, 2) = <<r>>
  BY <1>7, <1>8, NoneInOrder, OneInOrder DEF Ranked
<1>10. Bucket(key) = <<r>>
  <2>1. <<>> \o <<r>> = <<r>>
    OBVIOUS
  <2> QED
    BY <1>9, <2>1, Zenon DEF Bucket
<1>11. PICK s : s = <<r>>
  OBVIOUS
<1>12. DOMAIN s = 1..1 /\ s[1] = r /\ s = Bucket(key)
  BY <1>10, <1>11
<1>13. Reconciled(key) = Merge(Unmerged, r)
  <2>1. Reconciled(key) = FoldLeft(Merge, Unmerged, s)
    BY <1>12, Zenon DEF Reconciled
  <2>2. FoldLeft(Merge, Unmerged, s) = Merge(Unmerged, s[1])
    BY <1>12, MergeOfOne
  <2> QED
    BY <1>12, <2>1, <2>2
<1>20. PICK m : m = Unmerged
  OBVIOUS
<1>14. m = Unmerged /\ m.payload = <<>> /\ m.body = None
  BY <1>20 DEF Unmerged
<1>15. PICK new : new = Only(r.payload, DOMAIN r.payload)
  OBVIOUS
<1>16. "parsed" \in DOMAIN new /\ new["parsed"] = Legible(i)
  BY <1>1, <1>15, StubPayload DEF Only
<1>17. PICK p : p = Before(<<>>, new)
  OBVIOUS
<1>18. "parsed" \in DOMAIN p /\ p["parsed"] = Legible(i)
  BY <1>16, <1>17 DEF Before
<1>19. Merge(m, r).payload = p
  BY <1>14, <1>15, <1>17 DEF Merge, Fold
<1> QED
  BY <1>1, <1>2, <1>13, <1>14, <1>18, <1>19

\* So, of a name one item has at most, extraction says what its item is.
Exact(found, items) ==
    /\ \A c \in found : AtMostOne(Named(items, c.name)) =>
          \E i \in items : i.name = c.name /\ ListedAs(i, c.cat) /\ c.raw = Shown(i)
    /\ \A i \in items : AtMostOne(Named(items, i.name)) =>
          \A cat : ListedAs(i, cat) => \E c \in found : c.cat = cat /\ c.name = i.name

LEMMA RetrievedIsShown ==
    ASSUME PulledWhole, NEW i \in org, Retrievable(i), AtMostOne(Named(org, i.name)),
           NEW key, key = Key(TreeRaw(i))
    PROVE  /\ key \in Keys
           /\ Unreadable(key) <=> i.broken
           /\ ~i.broken => Component(key).raw = Shown(i)
<1>1. key = <<TreeCategory(i), i.name, i.ns>>
  BY DEF Key, TreeRaw, Raw
<1>2. TreeRaw(i) \in raws
  BY DEF PulledWhole, TreeRaws, Retrievable
<1>3. key \in Keys
  BY <1>2 DEF Keys
<1>4. PICK p : p = Reconciled(key).payload
  OBVIOUS
<1>5. "raw_xml" \in DOMAIN p /\ p["raw_xml"] = (IF i.broken THEN <<>> ELSE i.body) /\ "parsed" \notin DOMAIN p
  BY <1>4, RetrievedReconciles DEF Says
<1>6. ASSUME NEW j \in org, j.name = i.name  PROVE j = i
  BY <1>6 DEF AtMostOne, Named
<1>7. Unreadable(key) <=> \E j \in seen : j.name = key[2] /\ j.broken /\ TreeCategory(j) = key[1]
  BY <1>4, <1>5 DEF Unreadable
<1>8. Unreadable(key) <=> i.broken
  BY <1>1, <1>6, <1>7 DEF PulledWhole
<1>9. ASSUME ~i.broken  PROVE Component(key).raw = Shown(i)
  <2>1. BodyOf(p) = i.body
    BY <1>5, <1>9 DEF BodyOf
  <2> QED
    BY <1>4, <2>1 DEF Component, Shown
<1> QED
  BY <1>3, <1>8, <1>9

LEMMA StubIsShown ==
    ASSUME PulledWhole, NEW i \in org, ToolingReads(i), ~Retrievable(i), AtMostOne(Named(org, i.name)),
           NEW key, key = Key(Stub(i))
    PROVE  key \in Keys /\ ~Unreadable(key) /\ Component(key).raw = Shown(i)
<1>1. Stub(i) \in raws
  BY DEF PulledWhole, StubsBut
<1>2. key \in Keys
  BY <1>1 DEF Keys
<1>3. PICK p : p = Reconciled(key).payload
  OBVIOUS
<1>4. "parsed" \in DOMAIN p /\ p["parsed"] = Legible(i)
  BY <1>3, StubReconciles
<1>5. ~Unreadable(key)
  BY <1>3, <1>4 DEF Unreadable
<1>6. BodyOf(p) = Legible(i)
  BY <1>4 DEF BodyOf
<1> QED
  BY <1>2, <1>3, <1>5, <1>6 DEF Component, Shown

LEMMA ExtractionIsExact ==
    ASSUME PulledWhole
    PROVE  Exact(Extracted, org)
<1>1. ASSUME NEW c \in Extracted, AtMostOne(Named(org, c.name))
      PROVE  \E i \in org : i.name = c.name /\ ListedAs(i, c.cat) /\ c.raw = Shown(i)
  <2>1. PICK r \in raws : c = Component(Key(r)) /\ ~Unreadable(Key(r))
    BY DEF Extracted, Keys
  <2>2. PICK key : key = Key(r)
    OBVIOUS
  <2>3. key = <<r.cat, r.name, r.ns>>
    BY <2>2 DEF Key
  <2>4. c = Component(key) /\ ~Unreadable(key) /\ c.cat = r.cat /\ c.name = r.name
    BY <2>1, <2>2, <2>3 DEF Component
  <2>5. ASSUME NEW i \in org, r = TreeRaw(i), Retrievable(i)
        PROVE  i.name = c.name /\ ListedAs(i, c.cat) /\ c.raw = Shown(i)
    <3>1. r.cat = TreeCategory(i) /\ r.name = i.name
      BY <2>5 DEF TreeRaw, Raw
    <3>2. ~i.broken /\ Component(key).raw = Shown(i)
      BY <1>1, <2>2, <2>4, <2>5, <3>1, RetrievedIsShown
    <3> QED
      BY <2>4, <2>5, <3>1, <3>2 DEF ListedAs
  <2>6. CASE r \in TreeRaws
    <3>1. PICK i \in org : r = TreeRaw(i) /\ Retrievable(i)
      BY <2>6 DEF TreeRaws, Retrievable, PulledWhole
    <3> QED
      BY <2>5, <3>1
  <2>7. CASE r \in StubsBut({})
    <3>1. PICK i \in org : r = Stub(i) /\ ToolingReads(i)
      BY <2>7 DEF StubsBut
    <3>2. r.cat = ToolingCategory(i) /\ r.name = i.name /\ r.ns = i.ns
      BY <3>1, StubPayload
    <3>3. CASE Retrievable(i)
      <4>1. TreeCategory(i) = ToolingCategory(i)
        BY <3>1, <3>3, RetrievedBesideTooling DEF ToolingReads
      <4>2. key = Key(TreeRaw(i))
        BY <2>3, <3>2, <4>1 DEF Key, TreeRaw, Raw
      <4>3. ~i.broken /\ Component(key).raw = Shown(i)
        BY <1>1, <2>4, <3>2, <3>3, <4>2, RetrievedIsShown
      <4> QED
        BY <2>4, <3>2, <3>3, <4>1, <4>3 DEF ListedAs
    <3>4. CASE ~Retrievable(i)
      <4>1. Component(key).raw = Shown(i)
        BY <1>1, <2>2, <2>4, <3>1, <3>2, <3>4, StubIsShown
      <4> QED
        BY <2>4, <3>1, <3>2, <3>4, <4>1 DEF ListedAs
    <3> QED
      BY <3>3, <3>4
  <2> QED
    BY <2>6, <2>7 DEF PulledWhole
<1>2. ASSUME NEW i \in org, AtMostOne(Named(org, i.name)), NEW cat, ListedAs(i, cat)
      PROVE  \E c \in Extracted : c.cat = cat /\ c.name = i.name
  <2>1. CASE Retrievable(i)
    <3>1. PICK key : key = Key(TreeRaw(i))
      OBVIOUS
    <3>2. key = <<cat, i.name, i.ns>> /\ ~i.broken
      BY <1>2, <2>1, <3>1 DEF ListedAs, Key, TreeRaw, Raw
    <3>3. key \in Keys /\ ~Unreadable(key)
      BY <1>2, <2>1, <3>1, <3>2, RetrievedIsShown
    <3>4. Component(key) \in Extracted
      BY <3>3 DEF Extracted
    <3> QED
      BY <3>2, <3>4 DEF Component
  <2>2. CASE ~Retrievable(i)
    <3>1. PICK key : key = Key(Stub(i))
      OBVIOUS
    <3>2. ToolingReads(i) /\ cat = ToolingCategory(i)
      BY <1>2, <2>2 DEF ListedAs
    <3>3. key = <<cat, i.name, i.ns>>
      BY <3>1, <3>2, StubPayload DEF Key
    <3>4. key \in Keys /\ ~Unreadable(key)
      BY <1>2, <2>2, <3>1, <3>2, StubIsShown
    <3>5. Component(key) \in Extracted
      BY <3>4 DEF Extracted
    <3> QED
      BY <3>3, <3>5 DEF Component
  <2> QED
    BY <2>1, <2>2
<1> QED
  BY <1>1, <1>2 DEF Exact

------------------------------------------------------------------------------
(* From what extraction says to what the log does.                          *)

\* f lists, under each category, what the items show.
Lists(f, items) ==
    /\ IsFiniteSet(items) /\ \A i \in items : i.cat \notin Flows
    /\ \A k \in DOMAIN f : k = <<k[1], k[2]>>
    /\ \A n : AtMostOne(Named(items, n)) =>
          \A cat :
             /\ <<cat, n>> \in DOMAIN f => \E i \in items : i.name = n /\ ListedAs(i, cat)
             /\ \A i \in items : i.name = n /\ ListedAs(i, cat) =>
                    <<cat, n>> \in DOMAIN f /\ f[<<cat, n>>] = Shown(i)

LEMMA ListingsList ==
    ASSUME NEW items, IsFiniteSet(items), \A i \in items : i.cat \notin Flows,
           Exact(components, items), NEW f \in Listings
    PROVE  Lists(f, items)
<1>1. DOMAIN f = {ComponentKey(c) : c \in components}
  BY DEF Listings
<1>2. \A k \in DOMAIN f : \E c \in components : k = <<c.cat, c.name>> /\ c.raw = f[k]
  BY DEF Listings, ComponentKey
<1>3. \A k \in DOMAIN f : k = <<k[1], k[2]>>
  BY <1>2
<1>4. ASSUME NEW n, AtMostOne(Named(items, n)), NEW cat, <<cat, n>> \in DOMAIN f
      PROVE  \E i \in items : i.name = n /\ ListedAs(i, cat) /\ f[<<cat, n>>] = Shown(i)
  <2>1. PICK c \in components : c.cat = cat /\ c.name = n /\ c.raw = f[<<cat, n>>]
    BY <1>2, <1>4
  <2> QED
    BY <1>4, <2>1 DEF Exact
<1>5. ASSUME NEW n, AtMostOne(Named(items, n)), NEW cat, NEW i \in items, i.name = n, ListedAs(i, cat)
      PROVE  <<cat, n>> \in DOMAIN f /\ f[<<cat, n>>] = Shown(i)
  <2>1. PICK c \in components : c.cat = cat /\ c.name = i.name
    BY <1>5 DEF Exact
  <2>2. <<cat, n>> \in DOMAIN f
    BY <1>1, <1>5, <2>1 DEF ComponentKey
  <2>3. PICK j \in items : j.name = n /\ f[<<cat, n>>] = Shown(j)
    BY <1>4, <1>5, <2>2
  <2>4. j = i
    BY <1>5, <2>3 DEF AtMostOne, Named
  <2> QED
    BY <2>2, <2>3, <2>4
<1> QED
  BY <1>3, <1>4, <1>5 DEF Lists

\* Two items listed alike have the same to show of themselves.
LEMMA SameFace ==
    ASSUME NEW i, NEW j, NEW cat, ListedAs(i, cat), ListedAs(j, cat), Shown(i) = Shown(j),
           i.cat \notin Flows, j.cat \notin Flows
    PROVE  Face(i) = Face(j)
<1>1. ASSUME NEW x, ListedAs(x, cat), x.cat \notin Flows
      PROVE  IF x.cat = "flow" THEN cat \in Flows ELSE cat = x.cat
  <2>1. CASE Retrievable(x)
    BY <1>1, <2>1, TreeCategories DEF ListedAs, Retrievable
  <2>2. CASE ~Retrievable(x)
    BY <1>1, <2>2, CategoriesOfFlows DEF ListedAs
  <2> QED
    BY <2>1, <2>2
<1>2. i.cat = j.cat
  BY <1>1
<1>3. ASSUME NEW x, ListedAs(x, cat), Retrievable(x)
      PROVE  Legible(x) = [k \in DOMAIN x.body |-> x.body[k]]
  <2>1. {p \in DOMAIN x.body : IF Retrievable(x) THEN ~x.broken
                               ELSE Reader(ToolingCategory(x)).parts[p] # "never"} = DOMAIN x.body
    BY <1>3 DEF ListedAs
  <2>2. Only(x.body, DOMAIN x.body) = [k \in DOMAIN x.body |-> x.body[k]]
    BY DEF Only
  <2>3. Legible(x) = Only(x.body, DOMAIN x.body)
    BY <2>1, Zenon DEF Legible
  <2> QED
    BY <2>2, <2>3
<1>4. \A x : Legible(x) = [k \in DOMAIN Legible(x) |-> Legible(x)[k]]
  BY DEF Legible, Only
<1>5. Legible(i) = Legible(j)
  <2>1. (IF Retrievable(i) THEN i.body ELSE Legible(i)) = (IF Retrievable(j) THEN j.body ELSE Legible(j))
    BY DEF Shown
  <2>2. CASE Retrievable(i) /\ Retrievable(j)
    <3>1. i.body = j.body
      BY <2>1, <2>2
    <3> QED
      BY <1>3, <2>2, <3>1
  <2>3. CASE Retrievable(i) /\ ~Retrievable(j)
    <3>1. i.body = Legible(j)
      BY <2>1, <2>3
    <3> QED
      BY <1>3, <1>4, <2>3, <3>1
  <2>4. CASE ~Retrievable(i) /\ Retrievable(j)
    <3>1. j.body = Legible(i)
      BY <2>1, <2>4
    <3> QED
      BY <1>3, <1>4, <2>4, <3>1
  <2>5. CASE ~Retrievable(i) /\ ~Retrievable(j)
    BY <2>1, <2>5
  <2> QED
    BY <2>2, <2>3, <2>4, <2>5
<1> QED
  BY <1>2, <1>5 DEF Face

LEMMA FewAreOne ==
    ASSUME NEW S, IsFiniteSet(S), Cardinality(S) <= 1
    PROVE  AtMostOne(S)
<1> SUFFICES ASSUME NEW x \in S, NEW y \in S, x # y  PROVE FALSE
  BY DEF AtMostOne
<1>1. IsFiniteSet({x}) /\ Cardinality({x}) = 1
  BY FS_Singleton
<1>2. IsFiniteSet({x} \cup {y}) /\ Cardinality({x} \cup {y}) = 2
  <2>1. y \notin {x}
    OBVIOUS
  <2> QED
    BY <1>1, <2>1, FS_AddElement
<1>3. Cardinality({x} \cup {y}) <= Cardinality(S)
  BY FS_Subset
<1>4. Cardinality(S) \in Nat
  BY FS_CardinalityType
<1> QED
  BY <1>2, <1>3, <1>4

\* What the difference of two listings reports.
LEMMA DifferenceReports ==
    ASSUME NEW was, NEW now, NEW olds, NEW items, Lists(was, olds), Lists(now, items), NEW n,
           AtMostOne(Named(items, n)), AtMostOne(Named(olds, n))
    PROVE  /\ n \in Reported(Diff(was, now)) => Named(items, n) # Named(olds, n)
           /\ Faces(Named(items, n)) # Faces(Named(olds, n))
              /\ (\E k \in DOMAIN now \cup DOMAIN was : k[2] = n) => n \in Reported(Diff(was, now))
<1> DEFINE Moved(k) == \/ k \in DOMAIN now /\ k \notin DOMAIN was
                       \/ k \in DOMAIN was /\ k \notin DOMAIN now
                       \/ k \in DOMAIN now /\ k \in DOMAIN was /\ now[k] # was[k]
<1>1. \A x : x \in Reported(Diff(was, now)) <=> \E k : Moved(k) /\ k[2] = x
  <2>1. PICK e : e = Diff(was, now)
    OBVIOUS
  <2>2. DOMAIN e.added = DOMAIN now \ DOMAIN was /\ e.removed = DOMAIN was \ DOMAIN now
    BY <2>1 DEF Diff
  <2>3. DOMAIN e.modified = {k \in DOMAIN now \cap DOMAIN was : now[k] # was[k]}
    BY <2>1 DEF Diff
  <2>4. \A k : k \in DOMAIN e.added \cup DOMAIN e.modified \cup e.removed <=> Moved(k)
    BY <2>2, <2>3
  <2> HIDE DEF Moved
  <2> QED
    BY <2>1, <2>4 DEF Reported
<1>2. \A k \in DOMAIN now \cup DOMAIN was : k = <<k[1], k[2]>>
  BY DEF Lists
<1>3. ASSUME NEW cat
      PROVE  /\ <<cat, n>> \in DOMAIN now => \E i \in items : i.name = n /\ ListedAs(i, cat)
             /\ <<cat, n>> \in DOMAIN was => \E i \in olds : i.name = n /\ ListedAs(i, cat)
             /\ \A i \in items : i.name = n /\ ListedAs(i, cat) =>
                    <<cat, n>> \in DOMAIN now /\ now[<<cat, n>>] = Shown(i)
             /\ \A i \in olds : i.name = n /\ ListedAs(i, cat) =>
                    <<cat, n>> \in DOMAIN was /\ was[<<cat, n>>] = Shown(i)
  BY DEF Lists
<1>4. ASSUME n \in Reported(Diff(was, now)), Named(items, n) = Named(olds, n)  PROVE FALSE
  <2>1. PICK k : Moved(k) /\ k[2] = n
    BY <1>1, <1>4
  <2>2. PICK cat : k = <<cat, n>>
    BY <1>2, <2>1
  <2>3. \A i : i \in items /\ i.name = n <=> i \in olds /\ i.name = n
    BY <1>4 DEF Named
  <2> QED
    BY <1>3, <2>1, <2>2, <2>3
<1>5. ASSUME NEW k \in DOMAIN now \cup DOMAIN was, k[2] = n, n \notin Reported(Diff(was, now))
      PROVE  Faces(Named(items, n)) = Faces(Named(olds, n))
  <2>1. k \in DOMAIN now /\ k \in DOMAIN was /\ now[k] = was[k]
    BY <1>1, <1>5
  <2>2. PICK cat : k = <<cat, n>>
    BY <1>2, <1>5
  <2>3. PICK i \in items : i.name = n /\ ListedAs(i, cat) /\ now[k] = Shown(i)
    BY <1>3, <2>1, <2>2
  <2>4. PICK j \in olds : j.name = n /\ ListedAs(j, cat) /\ was[k] = Shown(j)
    BY <1>3, <2>1, <2>2
  <2>5. Face(i) = Face(j)
    BY <2>1, <2>3, <2>4, SameFace DEF Lists
  <2>6. Named(items, n) = {i} /\ Named(olds, n) = {j}
    BY <2>3, <2>4 DEF Named, AtMostOne
  <2> QED
    BY <2>5, <2>6 DEF Faces
<1> QED
  BY <1>4, <1>5

------------------------------------------------------------------------------
(* A scan in which no call failed.                                          *)

\* While no call has failed, the records are those of what was read so far, all
\* of them at the end, and extraction says what every item is.
WholeInv ==
    /\ (pc = "tooling" /\ faults = 0) =>
          /\ failed = {} /\ raws = StubsBut(reads)
          /\ reads \subseteq IF via = "rest" THEN Categories \ Surfaces ELSE {}
    /\ (pc = "reconcile" /\ faults = 0) => failed = {} /\ raws = StubsBut({}) \cup TreeRaws
    /\ (pc = "extracted" /\ faults = 0) => Exact(components, org)

LEMMA StubsAreStubs == ASSUME org \in Orgs PROVE Stubs(StubsBut({}))
<1> DEFINE items == {x \in org : ToolingReads(x) /\ ToolingCategory(x) \notin {}}
           f == [i \in items |-> Stub(i)]
<1>1. IsFiniteSet(items)
  <2>1. IsFiniteSet(org) /\ items \subseteq org
    BY OrgAssumption
  <2> QED
    BY <2>1, FS_Subset
<1>2. \A i \in items : Stub(i).source = "tooling_api" /\ Stub(i).cat # None
  <2>1. None \notin Categories
    BY CategoryAssumption DEF None, Flows, Surfaces
  <2>2. \A i \in items : ToolingCategory(i) \in Categories
    BY DEF ToolingReads
  <2> QED
    BY <2>1, <2>2, StubPayload
<1>3. StubsBut({}) = {f[i] : i \in items}
  BY DEF StubsBut
<1>4. DOMAIN f = items /\ \A i \in items : f[i] = Stub(i)
  OBVIOUS
<1> HIDE DEF f, items
<1>5. IsFiniteSet({f[i] : i \in items})
  BY <1>1, <1>4, ImagesAreFinite
<1> QED
  BY <1>2, <1>3, <1>4, <1>5 DEF Stubs

\* What an item shows depends on the way of reading and on nothing that changes.
LEMMA SameView ==
    ASSUME via' = via
    PROVE  /\ \A i : ToolingReads(i)' = ToolingReads(i) /\ Retrievable(i)' = Retrievable(i)
           /\ \A i : TreeCategory(i)' = TreeCategory(i) /\ TreeRaw(i)' = TreeRaw(i)
           /\ \A i : Shown(i)' = Shown(i)
           /\ \A i, cat : ListedAs(i, cat)' = ListedAs(i, cat)
<1>1. \A i : TreeCategory(i)' = TreeCategory(i)
  BY DEF TreeCategory
<1>2. \A i : TreeRaw(i)' = TreeRaw(i)
  BY <1>1 DEF TreeRaw, Raw
<1>3. \A i : ToolingReads(i)' = ToolingReads(i)
  BY DEF ToolingReads
<1>4. Groups' = Groups
  BY DEF Groups
<1>5. \A i : Retrievable(i)' = Retrievable(i)
  BY <1>1, <1>4 DEF Retrievable
<1>6. \A i : Legible(i)' = Legible(i)
  <2> SUFFICES ASSUME NEW i PROVE Legible(i)' = Legible(i)
    OBVIOUS
  <2>1. Retrievable(i)' = Retrievable(i)
    BY <1>5
  <2> QED
    BY <2>1 DEF Legible
<1>7. \A i : Shown(i)' = Shown(i)
  BY <1>5, <1>6 DEF Shown
<1>8. \A i, cat : ListedAs(i, cat)' = ListedAs(i, cat)
  BY <1>1, <1>3, <1>5 DEF ListedAs
<1> QED
  BY <1>1, <1>2, <1>3, <1>5, <1>7, <1>8

LEMMA SameExact ==
    ASSUME via' = via, components' = components, org' = org, Exact(components, org)
    PROVE  Exact(components, org)'
BY SameView DEF Exact

LEMMA SameLists ==
    ASSUME via' = via, NEW f, NEW items, Lists(f, items)
    PROVE  Lists(f, items)'
BY SameView DEF Lists

LEMMA ReadToolingWhole ==
    ASSUME org \in Orgs, pc = "tooling", faults = 0, raws = StubsBut(reads),
           reads \subseteq IF via = "rest" THEN Categories \ Surfaces ELSE {},
           ReadTooling, faults' = 0
    PROVE  raws' = StubsBut(reads)' /\ pc' = "tooling"
<1> DEFINE cat == CHOOSE c \in reads : TRUE
           items == IF Reader(cat).list = "never" THEN {}
                    ELSE {i \in org : ToolingCategory(i) = cat}
<1>1. cat \in reads /\ reads' = reads \ {cat} /\ org' = org /\ via' = via
  BY DEF ReadTooling
<1>2. raws' = raws \cup {ToolingRaw(i, cat, {}) : i \in items} /\ pc' = pc
  <2>1. faults' # faults + 1
    OBVIOUS
  <2> QED
    BY <2>1, Zenon DEF ReadTooling, Fault
<1>3. \A x \in org : ToolingCategory(x) = cat => (ToolingReads(x) <=> Reader(cat).list # "never")
  BY <1>1 DEF ToolingReads
<1>4. StubsBut(reads)' = {Stub(i) : i \in {x \in org : ToolingReads(x) /\ ToolingCategory(x) \notin reads'}}
  BY <1>1, SameView DEF StubsBut
<1>5. {ToolingRaw(i, cat, {}) : i \in items} = {Stub(i) : i \in items}
  BY DEF Stub
<1>6. \A x : x \in items <=> (x \in org /\ ToolingCategory(x) = cat /\ ToolingReads(x))
  BY <1>3
<1> HIDE DEF items, cat
<1>7. {x \in org : ToolingReads(x) /\ ToolingCategory(x) \notin reads'}
          = {x \in org : ToolingReads(x) /\ ToolingCategory(x) \notin reads} \cup items
  BY <1>1, <1>6
<1> QED
  BY <1>2, <1>4, <1>5, <1>7 DEF StubsBut

LEMMA WholeStep ==
    WholeInv /\ AccountInv /\ BodiesInv /\ ProfileInv /\ [Next]_vars => WholeInv'
<1> SUFFICES ASSUME WholeInv, AccountInv, BodiesInv, ProfileInv, [Next]_vars PROVE WholeInv'
  OBVIOUS
<1>0. faults \in Nat
  BY DEF ProfileInv
<1>1. ASSUME pc' \notin {"tooling", "reconcile", "extracted"} \/ faults' # 0  PROVE WholeInv'
  BY <1>1 DEF WholeInv
<1>2. CASE Connect \/ ReadSchema \/ Profile
  BY <1>1, <1>2 DEF Connect, ReadSchema, Profile, Abort
<1>3. CASE BeginPull
  <2>1. /\ pc' = "tooling" /\ via' = via /\ org' = org /\ raws' = {} /\ failed' = {}
        /\ reads' = IF via = "rest" THEN Categories \ Surfaces ELSE {}
    BY <1>3 DEF BeginPull
  <2>2. (StubsBut(reads))' = {}
    BY <2>1 DEF StubsBut, ToolingReads
  <2> QED
    BY <2>1, <2>2 DEF WholeInv
<1>4. CASE ReadTooling
  <2>1. SUFFICES ASSUME faults' = 0  PROVE WholeInv'
    BY <1>1
  <2>2. faults = 0
    <3>1. faults' \in {faults, faults + 1}
      BY <1>4 DEF ReadTooling, Fault
    <3> QED
      BY <1>0, <2>1, <3>1
  <2>3. pc = "tooling" /\ reads' \subseteq reads /\ via' = via /\ failed' = failed
    BY <1>4 DEF ReadTooling
  <2>4. /\ failed = {} /\ raws = StubsBut(reads)
        /\ reads \subseteq IF via = "rest" THEN Categories \ Surfaces ELSE {}
    BY <2>2, <2>3 DEF WholeInv
  <2>5. raws' = StubsBut(reads)' /\ pc' = "tooling"
    BY <1>4, <2>1, <2>2, <2>3, <2>4, ReadToolingWhole DEF BodiesInv
  <2> QED
    BY <2>3, <2>4, <2>5 DEF WholeInv
<1>5. CASE Retrieve
  <2>1. SUFFICES ASSUME faults' = 0  PROVE WholeInv'
    BY <1>1
  <2>2. faults' # faults + 1
    BY <1>0, <2>1
  <2>3. pc' = pc /\ failed' = failed /\ faults' = faults
    BY <1>5, <2>2 DEF Retrieve, Fault
  <2>4. pc = "tooling" /\ org' = org /\ via' = via /\ reads' = reads /\ raws' = raws
    BY <1>5 DEF Retrieve
  <2>5. StubsBut(reads)' = StubsBut(reads)
    BY <2>4, SameView DEF StubsBut
  <2> QED
    BY <2>1, <2>3, <2>4, <2>5 DEF WholeInv
<1>6. CASE ReadTree
  <2>1. /\ pc = "tooling" /\ pc' = "reconcile" /\ reads = {} /\ faults' = faults /\ failed' = failed
        /\ org' = org /\ via' = via /\ retrieved' = retrieved
    BY <1>6 DEF ReadTree
  <2>2. raws' = raws \cup TreeRaws
    BY <1>6 DEF ReadTree, TreeRaws
  <2>3. TreeRaws' = TreeRaws /\ StubsBut({})' = StubsBut({})
    BY <2>1, SameView DEF TreeRaws, StubsBut, Type
  <2> QED
    BY <2>1, <2>2, <2>3 DEF WholeInv
<1>7. CASE Extract
  <2>1. SUFFICES ASSUME faults' = 0, pc' = "extracted"  PROVE WholeInv'
    BY <1>1, <1>7 DEF Extract, Abort
  <2>2. /\ pc = "reconcile" /\ faults' = faults /\ org' = org /\ via' = via /\ components' = Extracted
    BY <1>7, <2>1 DEF Extract, Abort
  <2>3. failed = {} /\ raws = StubsBut({}) \cup TreeRaws
    BY <2>1, <2>2 DEF WholeInv
  <2>4. retrieved = UNION {g.types : g \in Groups}
    BY <2>2, <2>3 DEF AccountInv, Pulling, Left
  <2>5. PulledWhole
    BY <2>2, <2>3, <2>4, StubsAreStubs DEF PulledWhole, BodiesInv
  <2>6. Exact(Extracted, org)
    BY <2>5, ExtractionIsExact
  <2>7. PICK found : found = Extracted
    OBVIOUS
  <2>8. Exact(components, org)'
    BY <2>2, <2>6, <2>7, SameView DEF Exact
  <2> QED
    BY <2>1, <2>8 DEF WholeInv
<1>8. CASE BeginIngest \/ RecordScan \/ SaveIndex \/ AppendLog \/ WriteSnapshot \/ Crash \/ NextScan
  BY <1>1, <1>8 DEF BeginIngest, RecordScan, SaveIndex, AppendLog, WriteSnapshot, Crash, NextScan, At
<1>9. CASE Ingest \/ UNCHANGED vars
  <2>1. /\ pc' = pc /\ faults' = faults /\ org' = org /\ via' = via /\ reads' = reads /\ failed' = failed
        /\ raws' = raws /\ retrieved' = retrieved /\ components' = components
    BY <1>9 DEF Ingest, vars, scanVars, pull, result
  <2>2. TreeRaws' = TreeRaws /\ StubsBut({})' = StubsBut({}) /\ StubsBut(reads)' = StubsBut(reads)
    BY <2>1, SameView DEF TreeRaws, StubsBut, Type
  <2>3. Exact(components, org) => Exact(components, org)'
    BY <2>1, SameExact
  <2> QED
    BY <2>1, <2>2, <2>3 DEF WholeInv
<1> QED
  BY <1>2, <1>3, <1>4, <1>5, <1>6, <1>7, <1>8, <1>9 DEF Next, ScanNext

\* What the log says was there before its last entry.
Earlier == LogState(Front(changes))

\* The last snapshot lists the org it was taken of if no call failed in that scan,
\* and the log's last entry is what it takes to get there from the one before.
HistoryInv ==
    /\ crashes \in Nat /\ (crashes = 0 => ~torn)
    /\ (before.whole /\ pc # "written") => Lists(snapshot, before.items)
    /\ (pc \in Writing /\ faults = 0) => Lists(listed, seen)
    /\ (pc = "written" /\ faults = 0) => Lists(snapshot, seen)
    /\ (pc = "snapshot" /\ ~torn) => Earlier = snapshot /\ Last(changes) = Diff(snapshot, listed)
    /\ (pc = "written" /\ ~torn) =>
          /\ Last(changes) = Diff(Earlier, snapshot)
          /\ before.whole => Lists(Earlier, before.items)

LEMMA LastOfLonger ==
    ASSUME NEW S, NEW log \in Seq(S), NEW e \in S
    PROVE  Front(Append(log, e)) = log /\ Last(Append(log, e)) = e
BY DEF Front, Last

\* A step that leaves the log, the snapshot and the org they are of alone, and
\* neither begins nor ends the writing of either.
LEMMA HistoryStays ==
    ASSUME HistoryInv, via' = via, changes' = changes, snapshot' = snapshot, before' = before,
           crashes' \in Nat, crashes' = 0 => ~torn', ~torn' => ~torn,
           pc # "written", pc' \notin {"snapshot", "written"},
           (pc' \in Writing /\ faults' = 0) => Lists(listed, seen)'
    PROVE  HistoryInv'
<1>1. ASSUME before'.whole  PROVE Lists(snapshot, before.items)'
  <2>1. PICK f, items : f = snapshot /\ items = before.items
    OBVIOUS
  <2>2. Lists(f, items)
    BY <1>1, <2>1 DEF HistoryInv
  <2>3. Lists(f, items)'
    BY <2>2, SameLists
  <2>4. f = snapshot' /\ items = before'.items
    BY <2>1
  <2> QED
    BY <2>3, <2>4 DEF Lists
<1> QED
  BY <1>1 DEF HistoryInv

LEMMA HistoryStep ==
    HistoryInv /\ WholeInv /\ BodiesInv /\ ReplayInv /\ ProfileInv /\ [Next]_vars => HistoryInv'
<1> SUFFICES ASSUME HistoryInv, WholeInv, BodiesInv, ReplayInv, ProfileInv, [Next]_vars
             PROVE  HistoryInv'
  OBVIOUS
<1> USE DEF Writing
<1>0. crashes \in Nat /\ (crashes = 0 => ~torn) /\ faults \in Nat
  BY DEF HistoryInv, ProfileInv
<1>1. CASE Scanning
  <2>1. /\ pc \in ScanPcs /\ pc' \in ScanPcs /\ torn' = torn /\ crashes' = crashes
        /\ changes' = changes /\ snapshot' = snapshot /\ before' = before
    BY <1>1, ScanningStays DEF Scanning
  <2>2. via' = via
    BY <1>1 DEF Scanning, ScanNext, Connect, ReadSchema, Profile, Abort, BeginPull, ReadTooling,
                Retrieve, ReadTree, Extract
  <2> QED
    BY <1>0, <2>1, <2>2, HistoryStays DEF ScanPcs
<1>2. CASE BeginIngest
  <2>1. /\ pc = "extracted" /\ pc' = "ingest" /\ torn' = torn /\ crashes' = crashes /\ via' = via
        /\ changes' = changes /\ snapshot' = snapshot /\ before' = before /\ seen' = seen
        /\ faults' = faults /\ listed' \in Listings
    BY <1>2 DEF BeginIngest, history
  <2>2. ASSUME faults' = 0  PROVE Lists(listed, seen)'
    <3>1. Exact(components, org) /\ seen = org /\ org \in Orgs
      BY <2>1, <2>2 DEF WholeInv, BodiesInv
    <3>2. IsFiniteSet(org) /\ \A i \in org : i.cat \notin Flows
      BY <3>1, OrgAssumption
    <3>3. PICK f \in Listings : f = listed'
      BY <2>1
    <3>4. PICK items : items = seen
      OBVIOUS
    <3>5. Lists(f, items)
      BY <3>1, <3>2, <3>4, ListingsList
    <3>6. Lists(f, items)'
      BY <2>1, <3>5, SameLists
    <3>7. f = listed' /\ items = seen'
      BY <2>1, <3>3, <3>4
    <3> QED
      BY <3>6, <3>7 DEF Lists
  <2> QED
    BY <1>0, <2>1, <2>2, HistoryStays
<1>3. CASE Ingest \/ RecordScan \/ SaveIndex
  <2>1. /\ pc \in {"ingest", "index"} /\ pc' \in {"ingest", "index", "log"} /\ torn' = torn
        /\ crashes' = crashes /\ via' = via /\ changes' = changes /\ snapshot' = snapshot
        /\ before' = before /\ seen' = seen /\ faults' = faults /\ listed' = listed
    BY <1>3 DEF Ingest, RecordScan, SaveIndex, At, history, memory, scanVars
  <2>2. ASSUME faults' = 0  PROVE Lists(listed, seen)'
    <3>1. PICK f, items : f = listed /\ items = seen
      OBVIOUS
    <3>2. Lists(f, items)
      BY <2>1, <2>2, <3>1 DEF HistoryInv
    <3>3. Lists(f, items)'
      BY <2>1, <3>2, SameLists
    <3>4. f = listed' /\ items = seen'
      BY <2>1, <3>1
    <3> QED
      BY <3>3, <3>4 DEF Lists
  <2> QED
    BY <1>0, <2>1, <2>2, HistoryStays
<1>4. CASE AppendLog
  <2>1. /\ pc = "log" /\ pc' = "snapshot" /\ torn' = torn /\ crashes' = crashes /\ via' = via
        /\ changes' = Append(changes, Diff(snapshot, listed)) /\ snapshot' = snapshot
        /\ before' = before /\ seen' = seen /\ faults' = faults /\ listed' = listed /\ scan' = scan
    BY <1>4 DEF AppendLog, At, memory
  <2>2. PICK f, items, was, olds : f = listed /\ items = seen /\ was = snapshot /\ olds = before.items
    OBVIOUS
  <2>3. f = listed' /\ items = seen' /\ was = snapshot' /\ olds = before'.items
    BY <2>1, <2>2
  <2>4. ASSUME faults' = 0  PROVE Lists(listed, seen)'
    <3>1. Lists(f, items)
      BY <2>1, <2>2, <2>4 DEF HistoryInv
    <3>2. Lists(f, items)'
      BY <2>1, <3>1, SameLists
    <3> QED
      BY <2>3, <3>2 DEF Lists
  <2>5. ASSUME before'.whole  PROVE Lists(snapshot, before.items)'
    <3>1. Lists(was, olds)
      BY <2>1, <2>2, <2>5 DEF HistoryInv
    <3>2. Lists(was, olds)'
      BY <2>1, <3>1, SameLists
    <3> QED
      BY <2>3, <3>2 DEF Lists
  <2>6. Front(changes') = changes /\ Last(changes') = Diff(snapshot, listed)
    <3>1. PICK e : e = Diff(snapshot, listed)
      OBVIOUS
    <3>2. PICK S : changes \in Seq(S) /\ e \in S
      <4>1. changes \in Seq({changes[n] : n \in DOMAIN changes} \cup {e})
        BY DEF ReplayInv, IsLog
      <4> QED
        BY <4>1
    <3> QED
      BY <2>1, <3>1, <3>2, LastOfLonger
  <2>7. ASSUME ~torn  PROVE Earlier' = snapshot
    <3>1. LogState(changes) = snapshot
      BY <2>1, <2>7 DEF ReplayInv
    <3> QED
      BY <2>6, <3>1 DEF Earlier, LogState
  <2>8. Diff(snapshot, listed)' = Diff(snapshot, listed)
    BY <2>1 DEF Diff
  <2> QED
    BY <1>0, <2>1, <2>4, <2>5, <2>6, <2>7, <2>8 DEF HistoryInv
<1>5. CASE WriteSnapshot
  <2>1. /\ pc = "snapshot" /\ pc' = "written" /\ torn' = torn /\ crashes' = crashes /\ via' = via
        /\ changes' = changes /\ snapshot' = listed
        /\ before' = before /\ seen' = seen /\ faults' = faults /\ scan' = scan
    BY <1>5 DEF WriteSnapshot, At
  <2>2. PICK f, items, was, olds : f = listed /\ items = seen /\ was = Earlier /\ olds = before.items
    OBVIOUS
  <2>3. Earlier' = Earlier
    BY <2>1 DEF Earlier, LogState
  <2>4. f = snapshot' /\ items = seen' /\ was = Earlier' /\ olds = before'.items
    BY <2>1, <2>2, <2>3
  <2>5. ASSUME faults' = 0  PROVE Lists(snapshot, seen)'
    <3>1. Lists(f, items)
      BY <2>1, <2>2, <2>5 DEF HistoryInv
    <3>2. Lists(f, items)'
      BY <2>1, <3>1, SameLists
    <3> QED
      BY <2>4, <3>2 DEF Lists
  <2>6. ASSUME ~torn, before'.whole  PROVE Lists(Earlier, before.items)'
    <3>1. Lists(was, olds)
      BY <2>1, <2>2, <2>6 DEF HistoryInv
    <3>2. Lists(was, olds)'
      BY <2>1, <3>1, SameLists
    <3> QED
      BY <2>4, <3>2 DEF Lists
  <2>7. ASSUME ~torn  PROVE Last(changes') = Diff(Earlier, snapshot)'
    <3>1. Earlier = snapshot /\ Last(changes) = Diff(snapshot, listed)
      BY <2>1, <2>7 DEF HistoryInv
    <3>2. Last(changes') = Last(changes)
      BY <2>1
    <3>3. Diff(Earlier, snapshot)' = Diff(was, f)
      BY <2>1, <2>4 DEF Diff
    <3> QED
      BY <2>2, <3>1, <3>2, <3>3
  <2> QED
    BY <1>0, <2>1, <2>5, <2>6, <2>7 DEF HistoryInv
<1>6. CASE Crash
  <2>1. /\ pc \in Writing /\ pc' = "killed" /\ crashes' = crashes + 1 /\ via' = via
        /\ changes' = changes /\ snapshot' = snapshot /\ before' = before /\ (~torn' => ~torn)
    BY <1>6 DEF Crash, history
  <2> QED
    BY <1>0, <2>1, HistoryStays
<1>7. CASE NextScan
  <2>1. /\ pc' = "connect" /\ crashes' = crashes /\ torn' = torn /\ via' = via
        /\ changes' = changes /\ snapshot' = snapshot
        /\ before' = IF pc = "written" THEN [items |-> seen, whole |-> faults = 0] ELSE before
    BY <1>7 DEF NextScan, history
  <2>2. CASE pc = "written"
    <3>1. before'.items = seen /\ (before'.whole => faults = 0)
      BY <2>1, <2>2
    <3>2. ASSUME before'.whole  PROVE Lists(snapshot, before.items)'
      <4>1. PICK f, items : f = snapshot /\ items = seen
        OBVIOUS
      <4>2. Lists(f, items)
        BY <2>2, <3>1, <3>2, <4>1 DEF HistoryInv
      <4>3. Lists(f, items)'
        BY <2>1, <4>2, SameLists
      <4>4. f = snapshot' /\ items = before'.items
        BY <2>1, <3>1, <4>1
      <4> QED
        BY <4>3, <4>4 DEF Lists
    <3> QED
      BY <1>0, <2>1, <3>2 DEF HistoryInv
  <2>3. CASE pc # "written"
    BY <1>0, <2>1, <2>3, HistoryStays
  <2> QED
    BY <2>2, <2>3
<1>8. CASE UNCHANGED vars
  <2>1. /\ pc' = pc /\ torn' = torn /\ crashes' = crashes /\ via' = via /\ changes' = changes
        /\ snapshot' = snapshot /\ before' = before /\ seen' = seen /\ faults' = faults
        /\ listed' = listed /\ scan' = scan
    BY <1>8 DEF vars, scanVars, history, memory
  <2>2. Earlier' = Earlier
    BY <2>1 DEF Earlier, LogState
  <2>3. Diff(snapshot, listed)' = Diff(snapshot, listed) /\ Diff(Earlier, snapshot)' = Diff(Earlier, snapshot)
    BY <2>1, <2>2 DEF Diff
  <2>5. Lists(snapshot, before.items) => Lists(snapshot, before.items)'
    BY <2>1, SameView DEF Lists
  <2>6. Lists(listed, seen) => Lists(listed, seen)'
    BY <2>1, SameView DEF Lists
  <2>7. Lists(snapshot, seen) => Lists(snapshot, seen)'
    BY <2>1, SameView DEF Lists
  <2>8. Lists(Earlier, before.items) => Lists(Earlier, before.items)'
    BY <2>1, <2>2, SameView DEF Lists
  <2> QED
    BY <2>1, <2>2, <2>3, <2>5, <2>6, <2>7, <2>8 DEF HistoryInv
<1> QED
  BY <1>1, <1>2, <1>3, <1>4, <1>5, <1>6, <1>7, <1>8 DEF Next, Scanning

\* Between two scans in which no call failed and no write was cut short, the change
\* log names exactly what moved: of the names that one item has at most, none whose
\* item is as it was, and every one of which something to be seen came, went or changed.
THEOREM ChangesReported == Spec => []ChangesAreReal
<1>1. Init => AccountInv /\ BodiesInv /\ ProfileInv /\ WholeInv /\ HistoryInv
  <2> SUFFICES ASSUME Init PROVE AccountInv /\ BodiesInv /\ ProfileInv /\ WholeInv /\ HistoryInv
    OBVIOUS
  <2>1. AccountInv /\ BodiesInv /\ ProfileInv /\ WholeInv
    BY DEF Init, ScanInit, AccountInv, Pulling, BodiesInv, RetrievedBodyWins, Done, ProfileInv, WholeInv
  <2>2. pc = "connect" /\ crashes = 0 /\ torn = FALSE /\ snapshot = <<>> /\ before.items = {}
    BY DEF Init, ScanInit
  <2>3. Lists(snapshot, before.items)
    BY <2>2, FS_EmptySet DEF Lists
  <2> QED
    BY <2>1, <2>2, <2>3 DEF HistoryInv, Writing
<1>2. ASSUME HistoryInv  PROVE ChangesAreReal
  <2> SUFFICES ASSUME pc = "written", faults = 0, before.whole, crashes = 0, NEW n,
                      Cardinality(Named(seen, n)) <= 1, Cardinality(Named(before.items, n)) <= 1
               PROVE  /\ n \in Reported(Last(changes)) => Named(seen, n) # Named(before.items, n)
                      /\ Faces(Named(seen, n)) # Faces(Named(before.items, n))
                         /\ (\E k \in DOMAIN snapshot \cup DOMAIN Earlier : k[2] = n) => n \in Reported(Last(changes))
    BY Zenon DEF ChangesAreReal, Earlier, LogState
  <2>1. /\ Lists(snapshot, seen) /\ Lists(Earlier, before.items)
        /\ Last(changes) = Diff(Earlier, snapshot)
    BY <1>2 DEF HistoryInv
  <2>2. IsFiniteSet(Named(seen, n)) /\ IsFiniteSet(Named(before.items, n))
    <3>1. IsFiniteSet(seen) /\ IsFiniteSet(before.items)
      BY <2>1 DEF Lists
    <3>2. Named(seen, n) \subseteq seen /\ Named(before.items, n) \subseteq before.items
      BY DEF Named
    <3> QED
      BY <3>1, <3>2, FS_Subset
  <2>3. AtMostOne(Named(seen, n)) /\ AtMostOne(Named(before.items, n))
    BY <2>2, FewAreOne
  <2> QED
    BY <2>1, <2>3, DifferenceReports
<1> QED
  BY <1>1, <1>2, ReplayInit, ReplayStep, AccountStep, BodiesStep, ProfileStep, WholeStep, HistoryStep, PTL DEF Spec

=============================================================================
