---------------------------- MODULE EstateHistory ----------------------------
(***************************************************************************)
(* Estate snapshots in a registry (estate/history.go, estate/estate.go).   *)
(*                                                                         *)
(* PushSnapshot stores one snapshot under its digest, then appends it to   *)
(* the history: an image index that one mutable tag names.  The append     *)
(* reads the index, adds an entry and writes the whole index back, with    *)
(* nothing to stop another push in between.  Any number of pushers run     *)
(* PushSnapshot; any call to the registry may fail, and a write that       *)
(* fails may have been applied before its answer was lost.  Readers fetch  *)
(* the index and sort it by the time each snapshot records.                *)
(*                                                                         *)
(* A snapshot is its digest: Build is deterministic, so the same files and *)
(* time give the same manifest.  An entry's annotations (its time and its  *)
(* metrics) are computed from the snapshot, so an entry is its digest too. *)
(***************************************************************************)
EXTENDS Naturals, Sequences, SequencesExt

CONSTANTS
    Pushers,            \* processes that run `estate push --history`
    Snapshots,          \* digests of the snapshots pushed; digests compare
    GeneratedAt,        \* the time each snapshot records; 0: none
    NoSnapshot,         \* what the snapshot tag names before the first push
    Circumstances       \* what pushes may meet: whether only one runs at a
                        \* time, and bounds on failed reads and writes

ASSUME SnapshotsAreDigests == Snapshots \subseteq Nat
ASSUME GeneratedAtIsTime == GeneratedAt \in [Snapshots -> Nat]
ASSUME NoSnapshotIsNone == NoSnapshot \notin Snapshots
ASSUME CircumstancesAreBounds ==
    Circumstances \subseteq [serial : BOOLEAN, reads : Nat, writes : Nat]

VARIABLES
    manifests,          \* snapshot manifests in the registry, by digest
    latest,             \* the snapshot the snapshot tag names
    history,            \* the index the history tag names; <<>>: no tag yet
    pc,                 \* where each pusher is in PushSnapshot
    snapshot,           \* what each pusher pushes
    base,               \* the index each pusher will append to
    acked,              \* snapshots a push reported as appended
    trend,              \* what the last ReadHistory returned
    given,              \* the circumstances of this behaviour; never changes
    readFaults, writeFaults

registry == <<manifests, latest, history>>
faults == <<given, readFaults, writeFaults>>
vars == <<registry, pc, snapshot, base, acked, trend, faults>>

Entries(index) == ToSet(index)

\* The order ReadHistory puts entries in.
Before(a, b) ==
    \/ GeneratedAt[a] < GeneratedAt[b]
    \/ GeneratedAt[a] = GeneratedAt[b] /\ a < b

InPushOrder(index) == {index}             \* mutant

\* The index in that order; entries the order does not tell apart are the same.
Trends(index) ==
    {[i \in DOMAIN index |-> index[place[i]]] : place \in
        {p \in [DOMAIN index -> DOMAIN index] : \A i, j \in DOMAIN index :
            i < j => p[i] # p[j] /\ ~Before(index[p[j]], index[p[i]])}}

-----------------------------------------------------------------------------
Init ==
    /\ manifests = {}
    /\ latest = NoSnapshot
    /\ history = <<>>
    /\ pc = [p \in Pushers |-> "idle"]
    /\ snapshot = [p \in Pushers |-> NoSnapshot]
    /\ base = [p \in Pushers |-> <<>>]
    /\ acked = {}
    /\ trend = <<>>
    /\ given \in Circumstances
    /\ readFaults = 0
    /\ writeFaults = 0

Goto(p, label) == pc' = [pc EXCEPT ![p] = label]

\* PushSnapshot returns; nothing it held matters to anyone.
Return(p) ==
    /\ pc' = [pc EXCEPT ![p] = "idle"]
    /\ snapshot' = [snapshot EXCEPT ![p] = NoSnapshot]
    /\ base' = [base EXCEPT ![p] = <<>>]

ReadFault ==
    /\ readFaults < given.reads
    /\ readFaults' = readFaults + 1
    /\ UNCHANGED <<given, writeFaults>>
WriteFault ==
    /\ writeFaults < given.writes
    /\ writeFaults' = writeFaults + 1
    /\ UNCHANGED <<given, readFaults>>

Stored(p) ==
    /\ manifests' = manifests \cup {snapshot[p]}
    /\ latest' = snapshot[p]
    /\ UNCHANGED history

Appended(p) ==
    /\ history' = Append(base[p], snapshot[p])
    /\ UNCHANGED <<manifests, latest>>

(* Mutants: the faults each property must notice.                          *)

StoreFailureIgnored(p) ==
    /\ pc[p] = "store"
    /\ Stored(p) \/ UNCHANGED registry
    /\ WriteFault
    /\ Goto(p, "read")
    /\ UNCHANGED <<snapshot, base, acked, trend>>

ReadIndexDropped(p) ==
    /\ pc[p] = "read"
    /\ base' = [base EXCEPT ![p] = <<>>]
    /\ Goto(p, "append")
    /\ UNCHANGED <<registry, snapshot, acked, trend, faults>>

WriteIndexAnyway(p) ==
    /\ pc[p] = "append"
    /\ Appended(p)
    /\ acked' = acked \cup {snapshot[p]}
    /\ Return(p)
    /\ UNCHANGED <<trend, faults>>

-----------------------------------------------------------------------------
(* PushSnapshot, one action per call to the registry.                      *)

Start(p, s) ==
    /\ pc[p] = "idle"
    /\ given.serial => \A q \in Pushers : pc[q] = "idle"
    /\ snapshot' = [snapshot EXCEPT ![p] = s]
    /\ Goto(p, "store")
    /\ UNCHANGED <<registry, base, acked, trend, faults>>

\* remote.Write of the snapshot; without a history reference the push ends.
StoreSnapshot(p) ==
    /\ pc[p] = "store"
    /\ Stored(p)
    /\ \/ Goto(p, "read") /\ UNCHANGED <<snapshot, base>>
       \/ Return(p)
    /\ UNCHANGED <<acked, trend, faults>>

StoreSnapshotFails(p) ==
    /\ pc[p] = "store"
    /\ Stored(p) \/ UNCHANGED registry
    /\ WriteFault
    /\ Return(p)
    /\ UNCHANGED <<acked, trend>>

\* remote.Index of the history tag; no such tag gives an empty index.
ReadIndex(p) ==
    /\ pc[p] = "read"
    /\ base' = [base EXCEPT ![p] = history]
    /\ Goto(p, "append")
    /\ UNCHANGED <<registry, snapshot, acked, trend, faults>>

\* Any other error gives an empty index too.
ReadIndexFails(p) ==
    /\ pc[p] = "read"
    /\ ReadFault
    /\ base' = [base EXCEPT ![p] = <<>>]
    /\ Goto(p, "append")
    /\ UNCHANGED <<registry, snapshot, acked, trend>>

\* The index already lists the digest: nothing is written.
AlreadyListed(p) ==
    /\ pc[p] = "append"
    /\ snapshot[p] \in Entries(base[p])
    /\ acked' = acked \cup {snapshot[p]}
    /\ Return(p)
    /\ UNCHANGED <<registry, trend, faults>>

\* remote.WriteIndex moves the history tag to the longer index.
WriteIndex(p) ==
    /\ pc[p] = "append"
    /\ snapshot[p] \notin Entries(base[p])
    /\ Appended(p)
    /\ acked' = acked \cup {snapshot[p]}
    /\ Return(p)
    /\ UNCHANGED <<trend, faults>>

WriteIndexFails(p) ==
    /\ pc[p] = "append"
    /\ snapshot[p] \notin Entries(base[p])
    /\ Appended(p) \/ UNCHANGED registry
    /\ WriteFault
    /\ Return(p)
    /\ UNCHANGED <<acked, trend>>

\* The process is killed between two calls.
Crash(p) ==
    /\ pc[p] # "idle"
    /\ Return(p)
    /\ UNCHANGED <<registry, acked, trend, faults>>

\* ReadHistory; before the first append there is nothing to read.
ReadHistory ==
    /\ history # <<>>
    /\ trend' \in Trends(history)
    /\ UNCHANGED <<registry, pc, snapshot, base, acked, faults>>

PushStep(p) ==
    \/ StoreSnapshot(p) \/ StoreSnapshotFails(p)
    \/ ReadIndex(p) \/ ReadIndexFails(p)
    \/ AlreadyListed(p) \/ WriteIndex(p) \/ WriteIndexFails(p)

Next ==
    \/ \E p \in Pushers, s \in Snapshots : Start(p, s)
    \/ \E p \in Pushers : PushStep(p) \/ Crash(p)
    \/ ReadHistory

Spec == Init /\ [][Next]_vars

-----------------------------------------------------------------------------
(* Properties.                                                             *)

IndexType == Seq(Snapshots)

\* Every variable holds a value of its type.
TypeOK ==
    /\ manifests \in SUBSET Snapshots
    /\ latest \in Snapshots \cup {NoSnapshot}
    /\ history \in IndexType
    /\ pc \in [Pushers -> {"idle", "store", "read", "append"}]
    /\ snapshot \in [Pushers -> Snapshots \cup {NoSnapshot}]
    /\ \A p \in Pushers : pc[p] # "idle" => snapshot[p] \in Snapshots
    /\ base \in [Pushers -> IndexType]
    /\ acked \in SUBSET Snapshots
    /\ given \in Circumstances
    /\ readFaults \in 0..given.reads
    /\ writeFaults \in 0..given.writes

NoRepeats(index) == \A i, j \in DOMAIN index : index[i] = index[j] => i = j

\* A re-push of a snapshot, a retry after a lost answer and pushes that
\* overlap never give the history two entries for one digest
\* (history.go: "must not add a duplicate entry").
NoDuplicateEntries == NoRepeats(history)

\* Every entry names a snapshot the registry stores, so a date on the trend
\* can be pulled, whatever failed or crashed on the way: the snapshot is
\* written before the index that names it.
EntriesStored == Entries(history) \subseteq manifests

\* A snapshot whose push reported "appended to history" is in the history.
AckedListed == acked \subseteq Entries(history)

\* The history is a growing series: no push takes an entry out of it.
HistoryGrows == [][Entries(history) \subseteq Entries(history')]_vars

Reliable == given.serial /\ given.reads = 0

\* Where pushes are made one at a time and no read of the index fails, the
\* history, with what pushes reported, behaves as a log, whatever writes fail
\* and wherever pushers crash.  Where pushes overlap or a read fails it does
\* not (HistoryGrows), and nothing is claimed.
Log == INSTANCE AppendLog WITH
    Items <- Snapshots,
    log <- IF Reliable THEN Entries(history) ELSE {},
    acked <- IF Reliable THEN acked ELSE {}
ImplementsLog == Log!Spec

\* Two entries never swap places between two readings of the trend, even
\* when one was lost and pushed again or was backfilled.
TrendOrderStable ==
    [][\A i, j \in DOMAIN trend : i < j =>
          \A k, l \in DOMAIN trend' :
             trend'[k] = trend[i] /\ trend'[l] = trend[j] => k < l]_trend
=============================================================================
