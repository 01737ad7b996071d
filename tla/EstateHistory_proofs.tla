------------------------ MODULE EstateHistory_proofs ------------------------
(***************************************************************************)
(* Proofs about EstateHistory, for any pushers, snapshots and bounds on    *)
(* the faults, and about EstateJob, for any number of jobs, failures and   *)
(* times.                                                                  *)
(***************************************************************************)
EXTENDS EstateHistory, EstateJob, WellFoundedInduction, TLAPS

-----------------------------------------------------------------------------
(* Indexes.                                                                *)

\* The positions of an index with one entry more, and what is at them.
LEMMA AppendPositions ==
    ASSUME NEW index \in IndexType, NEW s \in Snapshots
    PROVE  /\ Append(index, s) \in IndexType
           /\ Len(index) \in Nat
           /\ DOMAIN index = 1..Len(index)
           /\ DOMAIN Append(index, s) = 1..(Len(index) + 1)
           /\ \A i \in 1..Len(index) : Append(index, s)[i] = index[i]
           /\ Append(index, s)[Len(index) + 1] = s
  BY DEF IndexType

\* What appending an entry does to the entries of an index.
LEMMA AppendEntries ==
    ASSUME NEW index \in IndexType, NEW s \in Snapshots
    PROVE  Entries(Append(index, s)) = Entries(index) \cup {s}
<1> DEFINE longer == Append(index, s)
<1>1. ASSUME NEW i \in DOMAIN longer PROVE longer[i] \in Entries(index) \cup {s}
  BY <1>1, AppendPositions DEF Entries, ToSet
<1>2. ASSUME NEW i \in DOMAIN index PROVE index[i] \in Entries(longer)
  <2>1. i \in DOMAIN longer /\ longer[i] = index[i]
    BY <1>2, AppendPositions
  <2>2. QED
    BY <2>1 DEF Entries, ToSet
<1>3. s \in Entries(longer)
  <2>1. Len(index) + 1 \in DOMAIN longer /\ longer[Len(index) + 1] = s
    BY AppendPositions
  <2>2. QED
    BY <2>1 DEF Entries, ToSet
<1>4. QED
  BY <1>1, <1>2, <1>3 DEF Entries, ToSet

\* Appending an entry that is not there keeps an index free of repeats.
LEMMA AppendNoRepeats ==
    ASSUME NEW index \in IndexType, NEW s \in Snapshots,
           NoRepeats(index), s \notin Entries(index)
    PROVE  NoRepeats(Append(index, s))
<1> DEFINE longer == Append(index, s)
<1> SUFFICES ASSUME NEW i \in DOMAIN longer, NEW j \in DOMAIN longer,
                    longer[i] = longer[j]
             PROVE  i = j
  BY DEF NoRepeats
<1>1. \A k \in 1..Len(index) : longer[k] # s
  BY AppendPositions DEF Entries, ToSet
<1>2. QED
  BY <1>1, AppendPositions DEF NoRepeats

\* The empty index has no entries and no repeats.
LEMMA EmptyIndex ==
    /\ <<>> \in IndexType
    /\ Entries(<<>>) = {}
    /\ NoRepeats(<<>>)
  BY DEF IndexType, Entries, ToSet, NoRepeats

-----------------------------------------------------------------------------
(* Types.                                                                  *)

\* The bounds of the circumstances are what they are declared to be.
LEMMA Bounds ==
    ASSUME given \in Circumstances
    PROVE  given.serial \in BOOLEAN /\ given.reads \in Nat /\ given.writes \in Nat
  BY CircumstancesAreBounds

\* Every variable keeps its type.
THEOREM TypeCorrect == Spec => []TypeOK
<1>1. Init => TypeOK
  BY EmptyIndex, Bounds DEF Init, TypeOK
<1>2. TypeOK /\ [Next]_vars => TypeOK'
  <2> SUFFICES ASSUME TypeOK, [Next]_vars PROVE TypeOK'
    OBVIOUS
  <2> USE Bounds, NoSnapshotIsNone, EmptyIndex
      DEF TypeOK, registry, faults, Goto, Return, ReadFault, WriteFault
  <2>1. ASSUME NEW p \in Pushers, NEW s \in Snapshots, Start(p, s)
        PROVE  TypeOK'
    BY <2>1 DEF Start
  <2>2. ASSUME NEW p \in Pushers, StoreSnapshot(p)
        PROVE  TypeOK'
    BY <2>2 DEF StoreSnapshot, Stored
  <2>3. ASSUME NEW p \in Pushers, StoreSnapshotFails(p)
        PROVE  TypeOK'
    BY <2>3 DEF StoreSnapshotFails, Stored
  <2>4. ASSUME NEW p \in Pushers, ReadIndex(p)
        PROVE  TypeOK'
    BY <2>4 DEF ReadIndex
  <2>5. ASSUME NEW p \in Pushers, ReadIndexFails(p)
        PROVE  TypeOK'
    BY <2>5 DEF ReadIndexFails
  <2>6. ASSUME NEW p \in Pushers, AlreadyListed(p)
        PROVE  TypeOK'
    BY <2>6 DEF AlreadyListed
  <2>7. ASSUME NEW p \in Pushers, WriteIndex(p)
        PROVE  TypeOK'
    BY <2>7, AppendPositions DEF WriteIndex, Appended
  <2>8. ASSUME NEW p \in Pushers, WriteIndexFails(p)
        PROVE  TypeOK'
    <3>1. Append(base[p], snapshot[p]) \in IndexType
      BY <2>8, AppendPositions DEF WriteIndexFails
    <3>2. /\ history' \in IndexType
          /\ UNCHANGED <<manifests, latest, acked, given, readFaults>>
      BY <2>8, <3>1 DEF WriteIndexFails, Appended
    <3>3. writeFaults' \in 0..given'.writes
      BY <2>8 DEF WriteIndexFails
    <3>4. QED
      BY <2>8, <3>2, <3>3 DEF WriteIndexFails
  <2>9. ASSUME NEW p \in Pushers, Crash(p)
        PROVE  TypeOK'
    BY <2>9 DEF Crash
  <2>10. CASE ReadHistory
    BY <2>10 DEF ReadHistory
  <2>11. CASE UNCHANGED vars
    BY <2>11 DEF vars
  <2>12. QED
    BY <2>1, <2>2, <2>3, <2>4, <2>5, <2>6, <2>7, <2>8, <2>9, <2>10, <2>11
    DEF Next, PushStep
<1>3. QED
  BY <1>1, <1>2, PTL DEF Spec

-----------------------------------------------------------------------------
(* What is listed is listed once, and stored.                              *)

\* An index as PushSnapshot reads and writes it.
SoundIndex(index) == NoRepeats(index) /\ Entries(index) \subseteq manifests

\* NoDuplicateEntries and EntriesStored are not inductive: a push writes
\* what it read, so its base is as sound as the history, and it has stored
\* its snapshot before it gets to the history.
IndexInv ==
    /\ SoundIndex(history)
    /\ \A p \in Pushers : SoundIndex(base[p])
    /\ \A p \in Pushers : pc[p] \in {"read", "append"} => snapshot[p] \in manifests

\* The invariant behind both theorems holds throughout.
THEOREM IndexCorrect == Spec => []IndexInv
<1>1. Init => IndexInv
  BY EmptyIndex DEF Init, IndexInv, SoundIndex
<1>2. TypeOK /\ IndexInv /\ [Next]_vars => IndexInv'
  <2> SUFFICES ASSUME TypeOK, IndexInv, [Next]_vars PROVE IndexInv'
    OBVIOUS
  <2> USE EmptyIndex DEF TypeOK, IndexInv, SoundIndex, registry, faults, Goto, Return
  <2>1. ASSUME NEW p \in Pushers, NEW s \in Snapshots, Start(p, s)
        PROVE  IndexInv'
    BY <2>1 DEF Start
  <2>2. ASSUME NEW p \in Pushers, StoreSnapshot(p)
        PROVE  IndexInv'
    BY <2>2 DEF StoreSnapshot, Stored
  <2>3. ASSUME NEW p \in Pushers, StoreSnapshotFails(p)
        PROVE  IndexInv'
    BY <2>3 DEF StoreSnapshotFails, Stored
  <2>4. ASSUME NEW p \in Pushers, ReadIndex(p)
        PROVE  IndexInv'
    BY <2>4 DEF ReadIndex
  <2>5. ASSUME NEW p \in Pushers, ReadIndexFails(p)
        PROVE  IndexInv'
    BY <2>5 DEF ReadIndexFails
  <2>6. ASSUME NEW p \in Pushers, AlreadyListed(p)
        PROVE  IndexInv'
    BY <2>6 DEF AlreadyListed
  <2>7. ASSUME NEW p \in Pushers, pc[p] = "append",
               snapshot[p] \notin Entries(base[p]), Appended(p)
        PROVE  SoundIndex(history)'
    <3>1. snapshot[p] \in Snapshots /\ base[p] \in IndexType
      BY <2>7
    <3>2. NoRepeats(history') /\ Entries(history') = Entries(base[p]) \cup {snapshot[p]}
      BY <2>7, <3>1, AppendEntries, AppendNoRepeats DEF Appended
    <3>3. QED
      BY <2>7, <3>2 DEF Appended
  <2>8. ASSUME NEW p \in Pushers, WriteIndex(p)
        PROVE  IndexInv'
    BY <2>7, <2>8 DEF WriteIndex, Appended
  <2>9. ASSUME NEW p \in Pushers, WriteIndexFails(p)
        PROVE  IndexInv'
    <3>1. CASE Appended(p)
      BY <2>7, <2>9, <3>1 DEF WriteIndexFails, Appended
    <3>2. CASE UNCHANGED registry
      BY <2>9, <3>2 DEF WriteIndexFails
    <3>3. QED
      BY <2>9, <3>1, <3>2 DEF WriteIndexFails
  <2>10. ASSUME NEW p \in Pushers, Crash(p)
        PROVE  IndexInv'
    BY <2>10 DEF Crash
  <2>11. CASE ReadHistory
    BY <2>11 DEF ReadHistory
  <2>12. CASE UNCHANGED vars
    BY <2>12 DEF vars
  <2>13. QED
    BY <2>1, <2>2, <2>3, <2>4, <2>5, <2>6, <2>8, <2>9, <2>10, <2>11, <2>12
    DEF Next, PushStep
<1>3. QED
  BY <1>1, <1>2, TypeCorrect, PTL DEF Spec

\* However pushes overlap, fail and are repeated, the history lists a
\* digest once.
THEOREM HistoryHasNoDuplicates == Spec => []NoDuplicateEntries
<1>1. IndexInv => NoDuplicateEntries
  BY DEF IndexInv, SoundIndex, NoDuplicateEntries
<1>2. QED
  BY <1>1, IndexCorrect, PTL

\* However pushes overlap, fail and are repeated, what the history lists is
\* stored.
THEOREM HistoryEntriesStored == Spec => []EntriesStored
<1>1. IndexInv => EntriesStored
  BY DEF IndexInv, SoundIndex, EntriesStored
<1>2. QED
  BY <1>1, IndexCorrect, PTL

-----------------------------------------------------------------------------
(* Readings of the trend.                                                  *)

\* Snapshots are in one order: by the time they record, then by digest.
LEMMA BeforeIsOrder ==
  ASSUME NEW a \in Snapshots, NEW b \in Snapshots
  PROVE  /\ a # b /\ ~Before(b, a) => Before(a, b)
         /\ ~(Before(a, b) /\ Before(b, a))
<1>1. a \in Nat /\ b \in Nat /\ GeneratedAt[a] \in Nat /\ GeneratedAt[b] \in Nat
  BY SnapshotsAreDigests, GeneratedAtIsTime
<1> QED
  BY <1>1 DEF Before

\* A reading lists snapshots strictly in that order.
Ordered(t) ==
    /\ DOMAIN t \subseteq Nat
    /\ \A i \in DOMAIN t : t[i] \in Snapshots
    /\ \A i, j \in DOMAIN t : i < j => Before(t[i], t[j])

\* A trend read from an index with no repeats is in order of time.
LEMMA TrendsAreOrdered ==
  ASSUME NEW index \in IndexType, NoRepeats(index), NEW t \in Trends(index)
  PROVE  Ordered(t)
<1>1. PICK p \in [DOMAIN index -> DOMAIN index] :
         /\ t = [i \in DOMAIN index |-> index[p[i]]]
         /\ \A i, j \in DOMAIN index :
               i < j => p[i] # p[j] /\ ~Before(index[p[j]], index[p[i]])
  BY DEF Trends
<1>2. /\ DOMAIN index \subseteq Nat
      /\ \A i \in DOMAIN index : index[i] \in Snapshots
  BY DEF IndexType
<1>3. DOMAIN t = DOMAIN index /\ \A i \in DOMAIN t : t[i] = index[p[i]]
  BY <1>1
<1>4. ASSUME NEW i \in DOMAIN t, NEW j \in DOMAIN t, i < j PROVE Before(t[i], t[j])
  <2>1. p[i] \in DOMAIN index /\ p[j] \in DOMAIN index /\ p[i] # p[j]
    BY <1>1, <1>3, <1>4
  <2>2. t[i] \in Snapshots /\ t[j] \in Snapshots /\ t[i] # t[j]
    BY <1>2, <1>3, <2>1 DEF NoRepeats
  <2>3. ~Before(t[j], t[i])
    BY <1>1, <1>3, <1>4
  <2> QED
    BY <2>2, <2>3, BeforeIsOrder
<1> QED
  BY <1>2, <1>3, <1>4, <1>1 DEF Ordered

\* Two readings never order two snapshots differently, whatever was pushed, lost
\* or pushed again between them.
THEOREM TrendOrderIsStable == Spec => TrendOrderStable
<1>1. Init => Ordered(trend)
  BY DEF Init, Ordered
<1>2. TypeOK /\ IndexInv /\ Ordered(trend) /\ [Next]_vars => Ordered(trend)'
  <2> SUFFICES ASSUME TypeOK, IndexInv, Ordered(trend), [Next]_vars
               PROVE  Ordered(trend')
    BY DEF Ordered, Before
  <2>1. CASE ReadHistory
    BY <2>1, TrendsAreOrdered DEF ReadHistory, TypeOK, IndexInv, SoundIndex
  <2>2. CASE UNCHANGED trend
    BY <2>2
  <2> QED
    BY <2>1, <2>2
    DEF Next, PushStep, vars, Start, StoreSnapshot, StoreSnapshotFails, ReadIndex,
        ReadIndexFails, AlreadyListed, WriteIndex, WriteIndexFails, Crash
<1>3. ASSUME Ordered(trend), Ordered(trend)'
      PROVE  \A i, j \in DOMAIN trend : i < j =>
                \A k, l \in DOMAIN trend' :
                   trend'[k] = trend[i] /\ trend'[l] = trend[j] => k < l
  <2> SUFFICES ASSUME NEW i \in DOMAIN trend, NEW j \in DOMAIN trend, i < j,
                      NEW k \in DOMAIN trend', NEW l \in DOMAIN trend',
                      trend'[k] = trend[i], trend'[l] = trend[j]
               PROVE  k < l
    OBVIOUS
  <2>1. Ordered(trend')
    BY <1>3 DEF Ordered, Before
  <2>2. Before(trend[i], trend[j]) /\ trend[i] \in Snapshots /\ trend[j] \in Snapshots
    BY <1>3 DEF Ordered
  <2>3. ~Before(trend[j], trend[i])
    BY <2>2, BeforeIsOrder
  <2>4. k # l
    BY <2>2, <2>3
  <2>5. ~(l < k)
    BY <2>1, <2>3 DEF Ordered
  <2>6. k \in Nat /\ l \in Nat
    BY <2>1 DEF Ordered
  <2> QED
    BY <2>4, <2>5, <2>6
<1> QED
  BY <1>1, <1>2, <1>3, TypeCorrect, IndexCorrect, PTL DEF Spec, TrendOrderStable

-----------------------------------------------------------------------------
(* When pushes are made one at a time and no read fails.                   *)

\* Only one push runs, so what it read is still the history when it writes;
\* what was acknowledged is listed.
SerialInv ==
    /\ \A p, q \in Pushers : pc[p] # "idle" /\ pc[q] # "idle" => p = q
    /\ \A p \in Pushers : pc[p] = "append" => base[p] = history
    /\ acked \subseteq Entries(history)

\* The circumstances of a behaviour stay what they are.
LEMMA GivenStays == ASSUME [Next]_vars PROVE given' = given
  BY DEF Next, PushStep, Start, StoreSnapshot, StoreSnapshotFails, ReadIndex,
         ReadIndexFails, AlreadyListed, WriteIndex, WriteIndexFails, Crash,
         ReadHistory, ReadFault, WriteFault, vars, faults

\* What each step does to the history and to what was acknowledged.
LEMMA SerialStep ==
    ASSUME Reliable, TypeOK, SerialInv, [Next]_vars
    PROVE  SerialInv' /\ [Log!Next]_(Log!vars)
<1>0. Reliable'
  BY GivenStays DEF Reliable
<1> USE <1>0 DEF Reliable, TypeOK, SerialInv, registry, faults, Goto, Return, Log!vars
<1>1. ASSUME NEW p \in Pushers, NEW s \in Snapshots, Start(p, s)
      PROVE  SerialInv' /\ UNCHANGED Log!vars
  BY <1>1 DEF Start
<1>2. ASSUME NEW p \in Pushers, StoreSnapshot(p)
      PROVE  SerialInv' /\ UNCHANGED Log!vars
  BY <1>2 DEF StoreSnapshot, Stored
<1>3. ASSUME NEW p \in Pushers, StoreSnapshotFails(p)
      PROVE  SerialInv' /\ UNCHANGED Log!vars
  BY <1>3 DEF StoreSnapshotFails, Stored
<1>4. ASSUME NEW p \in Pushers, ReadIndex(p)
      PROVE  SerialInv' /\ UNCHANGED Log!vars
  BY <1>4 DEF ReadIndex
<1>5. ASSUME NEW p \in Pushers, ReadIndexFails(p)
      PROVE  FALSE
  BY <1>5 DEF ReadIndexFails, ReadFault
<1>6. ASSUME NEW p \in Pushers, AlreadyListed(p)
      PROVE  SerialInv' /\ Log!Acknowledge(snapshot[p])
  BY <1>6 DEF AlreadyListed, Log!Acknowledge
<1>7. ASSUME NEW p \in Pushers, pc[p] = "append", Appended(p)
      PROVE  Entries(history') = Entries(history) \cup {snapshot[p]}
  <2>1. snapshot[p] \in Snapshots /\ base[p] \in IndexType /\ base[p] = history
    BY <1>7
  <2>2. QED
    BY <1>7, <2>1, AppendEntries DEF Appended
<1>8. ASSUME NEW p \in Pushers, WriteIndex(p)
      PROVE  SerialInv' /\ Log!Acknowledge(snapshot[p])
  BY <1>7, <1>8 DEF WriteIndex, Log!Acknowledge
<1>9. ASSUME NEW p \in Pushers, WriteIndexFails(p)
      PROVE  SerialInv' /\ (Log!Record(snapshot[p]) \/ UNCHANGED Log!vars)
  <2>1. CASE Appended(p)
    BY <1>7, <1>9, <2>1 DEF WriteIndexFails, Log!Record
  <2>2. CASE UNCHANGED registry
    BY <1>9, <2>2 DEF WriteIndexFails
  <2>3. QED
    BY <1>9, <2>1, <2>2 DEF WriteIndexFails
<1>10. ASSUME NEW p \in Pushers, Crash(p)
      PROVE  SerialInv' /\ UNCHANGED Log!vars
  BY <1>10 DEF Crash
<1>11. CASE ReadHistory
  BY <1>11 DEF ReadHistory
<1>12. CASE UNCHANGED vars
  BY <1>12 DEF vars
<1>13. ASSUME NEW p \in Pushers, pc[p] # "idle" PROVE snapshot[p] \in Snapshots
  BY <1>13
<1>14. QED
  BY <1>1, <1>2, <1>3, <1>4, <1>5, <1>6, <1>8, <1>9, <1>10, <1>11, <1>12, <1>13
  DEF Next, PushStep, AlreadyListed, WriteIndex, WriteIndexFails, Log!Next

\* Pushed one at a time with every read answered, the history implements a
\* log: no push takes an entry out, and what was acknowledged stays.
THEOREM HistoryImplementsLog == Spec => ImplementsLog
<1>1. Init => (Reliable => SerialInv) /\ Log!Init
  BY EmptyIndex DEF Init, SerialInv, Log!Init
<1>2. TypeOK /\ (Reliable => SerialInv) /\ [Next]_vars
      => (Reliable => SerialInv)' /\ [Log!Next]_(Log!vars)
  <2>1. ASSUME [Next]_vars, ~Reliable PROVE ~Reliable' /\ UNCHANGED Log!vars
    BY <2>1, GivenStays DEF Reliable, Log!vars
  <2>2. QED
    BY <2>1, SerialStep, GivenStays DEF Reliable
<1>3. QED
  BY <1>1, <1>2, TypeCorrect, PTL DEF Spec, ImplementsLog, Log!Spec

\* Pushed one at a time with every read answered, a snapshot whose push
\* reported success is in the history.
THEOREM AckedSnapshotsListed == Spec => [](Reliable => AckedListed)
<1>1. Init => (Reliable => SerialInv)
  BY EmptyIndex DEF Init, SerialInv
<1>2. TypeOK /\ (Reliable => SerialInv) /\ [Next]_vars => (Reliable => SerialInv)'
  BY SerialStep, GivenStays DEF Reliable
<1>3. (Reliable => SerialInv) => (Reliable => AckedListed)
  BY DEF SerialInv, AckedListed
<1>4. QED
  BY <1>1, <1>2, <1>3, TypeCorrect, PTL DEF Spec

\* Pushed one at a time with every read answered, the history only grows.
THEOREM HistoryOnlyGrows ==
    Spec => [][Reliable => Entries(history) \subseteq Entries(history')]_vars
<1>1. Init => (Reliable => SerialInv)
  BY EmptyIndex DEF Init, SerialInv
<1>2. TypeOK /\ (Reliable => SerialInv) /\ [Next]_vars => (Reliable => SerialInv)'
  BY SerialStep, GivenStays DEF Reliable
<1>3. TypeOK /\ (Reliable => SerialInv) /\ [Next]_vars
      => (Reliable => Entries(history) \subseteq Entries(history'))
  BY SerialStep, GivenStays DEF Reliable, Log!Next, Log!vars, Log!Record, Log!Acknowledge
<1>4. QED
  BY <1>1, <1>2, <1>3, TypeCorrect, PTL DEF Spec

-----------------------------------------------------------------------------
(* The scheduled job.                                                      *)

\* While a torn history is stored, what a job has of it is torn as well or
\* was never pulled, and a job that verifies did pull it.
TornInv ==
    stored.history = Torn =>
        /\ dir.history \in {NoFile, Torn}
        /\ step \in {"verify", "extend"} => dir.history = Torn

Shape ==
    /\ dir = [report |-> dir.report, history |-> dir.history]
    /\ stored = [report |-> stored.report, history |-> stored.history]

\* The shape of the files, and what a torn write can leave, hold in every
\* behaviour.
LEMMA TornInvariant == JobSpec => [](Shape /\ TornInv)
<1>1. JobInit => Shape /\ TornInv
  BY NoContents DEF JobInit, Shape, TornInv, NoBundle
<1>2. Shape /\ TornInv /\ [JobNext]_jobVars => (Shape /\ TornInv)'
  <2> SUFFICES ASSUME Shape, TornInv, [JobNext]_jobVars PROVE (Shape /\ TornInv)'
    OBVIOUS
  <2> USE DEF Shape, TornInv
  <2>1. CASE StartJob
    BY <2>1 DEF StartJob, NoBundle
  <2>2. CASE Pull \/ PullFails
    BY <2>2 DEF Pull, PullFails
  <2>3. CASE VerifyFails \/ WriteReport \/ TearReport
    BY <2>3 DEF VerifyFails, WriteReport, TearReport
  <2>4. CASE WriteHistory \/ HistoryUnreadable \/ TearHistory \/ Cancel
    BY <2>4 DEF WriteHistory, HistoryUnreadable, TearHistory, Cancel
  <2>5. CASE Push \/ PushFails \/ Lost
    BY <2>5 DEF Push, PushFails, Lost
  <2>6. CASE UNCHANGED jobVars
    BY <2>6 DEF jobVars
  <2> QED
    BY <2>1, <2>2, <2>3, <2>4, <2>5, <2>6 DEF JobNext
<1> QED
  BY <1>1, <1>2, PTL DEF JobSpec

\* A stored history that cannot be read is never replaced by one that can,
\* whatever fails, is cancelled or is lost in the jobs that follow.
THEOREM UnreadableIsLeft == JobSpec => UnreadableStays
<1>1. TornInv /\ [JobNext]_jobVars => (stored.history = Torn => stored'.history = Torn)
  <2> SUFFICES ASSUME TornInv, [JobNext]_jobVars, stored.history = Torn
               PROVE  stored'.history = Torn
    OBVIOUS
  <2>1. CASE Push
    BY <2>1 DEF Push, TornInv
  <2>2. CASE UNCHANGED stored
    BY <2>2
  <2> QED
    BY <2>1, <2>2
    DEF JobNext, jobVars, StartJob, Pull, PullFails, VerifyFails, WriteReport,
        TearReport, WriteHistory, HistoryUnreadable, TearHistory, Cancel,
        PushFails, Lost
<1> QED
  BY <1>1, TornInvariant, PTL DEF JobSpec, UnreadableStays

\* Induction over the numbers, for a set of them: what holds of 0, and of n + 1
\* when it holds of n, holds of every number.
Successive(S) == 0 \in S /\ \A n \in Nat : n \in S => n + 1 \in S

\* A set with 0 and the successor of each member holds every number.
LEMMA EveryNumber ==
  ASSUME NEW S, Successive(S)
  PROVE  Nat \subseteq S
<1> DEFINE R == OpToRel(<, Nat)
           missed == Nat \ S
<1>1. IsWellFoundedOn(R, Nat)
  BY NatLessThanWellFounded
<1>2. \A x, y \in Nat : x < y => <<x, y>> \in R
  BY DEF OpToRel
<1> SUFFICES ASSUME missed # {} PROVE FALSE
  OBVIOUS
<1>3. /\ missed \in SUBSET Nat
      /\ \A x \in Nat : x \in missed \/ x \in S
      /\ \A x \in missed : x \in Nat /\ x # 0 /\ x \notin S
  BY DEF Successive
<1> HIDE DEF R, missed
<1>4. PICK x \in missed : \A y \in missed : ~ (<<y, x>> \in R)
  BY <1>1, <1>3, WFMin, Zenon
<1>5. x \in Nat /\ x # 0 /\ x \notin S
  BY <1>3
<1>6. PICK y \in Nat : y < x /\ y + 1 = x
  <2>1. x - 1 \in Nat /\ x - 1 < x /\ (x - 1) + 1 = x
    BY <1>5
  <2> QED
    BY <2>1
<1>7. <<y, x>> \in R
  BY <1>2, <1>5, <1>6
<1>8. y \in S
  BY <1>3, <1>4, <1>7
<1>9. y + 1 \in S
  BY <1>8 DEF Successive
<1> QED
  BY <1>5, <1>6, <1>9

\* The entries of n that a run keeps of a history, as extendHistory gathers them.
Keeps(entries, n) ==
    CHOOSE kept : kept = [m \in 0..n |->
        IF m = 0 THEN <<>>
        ELSE IF entries[m] = now THEN kept[m - 1]
        ELSE Append(kept[m - 1], entries[m])]

\* The entries kept are found one after the other, in the order of the
\* entries.
LEMMA KeepsExists ==
  ASSUME NEW entries, NEW n \in Nat
  PROVE  Keeps(entries, n) = [m \in 0..n |->
             IF m = 0 THEN <<>>
             ELSE IF entries[m] = now THEN Keeps(entries, n)[m - 1]
             ELSE Append(Keeps(entries, n)[m - 1], entries[m])]
<1> DEFINE Is(kept, k) == kept = [m \in 0..k |->
               IF m = 0 THEN <<>>
               ELSE IF entries[m] = now THEN kept[m - 1]
               ELSE Append(kept[m - 1], entries[m])]
           S == {k \in Nat : \E kept : Is(kept, k)}
<1>1. 0 \in S
  <2> DEFINE kept == [m \in 0..0 |-> <<>>]
  <2>1. Is(kept, 0)
    OBVIOUS
  <2> QED
    BY <2>1
<1>2. ASSUME NEW k \in Nat, k \in S PROVE k + 1 \in S
  <2>1. PICK kept : Is(kept, k)
    BY <1>2
  <2> DEFINE last == IF entries[k + 1] = now THEN kept[k]
                     ELSE Append(kept[k], entries[k + 1])
             more == [m \in 0..(k + 1) |-> IF m = k + 1 THEN last ELSE kept[m]]
             body(m) == IF m = 0 THEN <<>>
                        ELSE IF entries[m] = now THEN more[m - 1]
                        ELSE Append(more[m - 1], entries[m])
  <2>2. ASSUME NEW m \in 0..(k + 1) PROVE more[m] = body(m)
    <3>1. CASE m = k + 1
      <4>1. more[m] = last /\ more[m - 1] = kept[k] /\ m # 0
        BY <3>1
      <4> QED
        BY <3>1, <4>1
    <3>2. CASE m # k + 1
      <4>1. m \in 0..k
        BY <3>2
      <4>2. more[m] = kept[m]
        BY <3>2
      <4>3. m # 0 => more[m - 1] = kept[m - 1]
        BY <4>1
      <4>4. kept[m] = IF m = 0 THEN <<>>
                      ELSE IF entries[m] = now THEN kept[m - 1]
                      ELSE Append(kept[m - 1], entries[m])
        BY <2>1, <4>1
      <4> QED
        BY <4>2, <4>3, <4>4
    <3> QED
      BY <3>1, <3>2
  <2>3. more = [m \in 0..(k + 1) |-> body(m)]
    <3>1. more = [m \in 0..(k + 1) |-> more[m]]
      OBVIOUS
    <3> HIDE DEF more, body
    <3> QED
      BY <2>2, <3>1
  <2>4. Is(more, k + 1)
    BY <2>3
  <2>5. (k + 1) \in Nat
    OBVIOUS
  <2> HIDE DEF Is
  <2> QED
    BY <2>4, <2>5
<1>3. Nat \subseteq S
  <2> HIDE DEF S
  <2> QED
    BY <1>1, <1>2, EveryNumber DEF Successive
<1>4. n \in S
  <2> HIDE DEF S
  <2> QED
    BY <1>3
<1>5. PICK kept : Is(kept, n)
  BY <1>4
<1> QED
  BY <1>5, Zenon DEF Keeps

Decreasing(times) == \A i, j \in DOMAIN times : i < j => times[i] > times[j]

\* What is kept of the first m entries.
LEMMA KeepsWhat ==
  ASSUME NEW entries \in Seq(Times), NEW m \in 0..Len(entries)
  PROVE  LET kept == Keeps(entries, Len(entries))[m]
         IN  /\ kept \in Seq(Times)
             /\ ToSet(kept) = {entries[i] : i \in 1..m} \ {now}
             /\ Decreasing(entries) => Decreasing(kept)
<1> DEFINE n == Len(entries)
           kept == Keeps(entries, n)
           Good(k) == /\ kept[k] \in Seq(Times)
                      /\ ToSet(kept[k]) = {entries[i] : i \in 1..k} \ {now}
                      /\ Decreasing(entries) => Decreasing(kept[k])
           S == {k \in Nat : k <= n => Good(k)}
<1>1. n \in Nat /\ DOMAIN entries = 1..n
  OBVIOUS
<1>2. kept = [k \in 0..n |->
                 IF k = 0 THEN <<>>
                 ELSE IF entries[k] = now THEN kept[k - 1]
                 ELSE Append(kept[k - 1], entries[k])]
  BY <1>1, KeepsExists
<1> HIDE DEF n, kept
<1>3. 0 \in S
  <2>1. kept[0] = <<>>
    BY <1>1, <1>2
  <2>2. <<>> \in Seq(Times) /\ DOMAIN <<>> = {} /\ ToSet(<<>>) = {}
    BY DEF ToSet
  <2>3. {entries[i] : i \in 1..0} = {}
    OBVIOUS
  <2> QED
    BY <2>1, <2>2, <2>3 DEF Decreasing
<1>4. ASSUME NEW k \in Nat, k \in S PROVE k + 1 \in S
  <2> SUFFICES ASSUME k + 1 <= n PROVE Good(k + 1)
    OBVIOUS
  <2>1. Good(k)
    BY <1>1, <1>4
  <2>2. k + 1 \in 1..n /\ entries[k + 1] \in Times
    BY <1>1
  <2>3. {entries[i] : i \in 1..(k + 1)} = {entries[i] : i \in 1..k} \cup {entries[k + 1]}
    <3>1. 1..(k + 1) = 1..k \cup {k + 1}
      OBVIOUS
    <3> QED
      BY <3>1
  <2>4. kept[k + 1] = IF entries[k + 1] = now THEN kept[k]
                      ELSE Append(kept[k], entries[k + 1])
    <3>1. k + 1 \in 0..n /\ k + 1 # 0 /\ (k + 1) - 1 = k
      BY <1>1
    <3> QED
      BY <1>2, <3>1
  <2>5. CASE entries[k + 1] = now
    <3>1. kept[k + 1] = kept[k]
      BY <2>4, <2>5
    <3> QED
      BY <2>1, <2>3, <2>5, <3>1
  <2>6. CASE entries[k + 1] # now
    <3> DEFINE old == kept[k]
               t == entries[k + 1]
               new == Append(old, t)
    <3>1. kept[k + 1] = new /\ old \in Seq(Times) /\ t \in Times
      BY <2>1, <2>2, <2>4, <2>6
    <3>2. /\ new \in Seq(Times)
          /\ Len(old) \in Nat /\ DOMAIN old = 1..Len(old)
          /\ DOMAIN new = 1..(Len(old) + 1)
          /\ \A i \in 1..Len(old) : new[i] = old[i]
          /\ new[Len(old) + 1] = t
      <4> HIDE DEF old, t
      <4> QED
        BY <3>1
    <3> HIDE DEF old, new, t
    <3>3. ToSet(new) = ToSet(old) \cup {t}
      <4>1. ToSet(new) = {new[i] : i \in 1..(Len(old) + 1)}
        BY <3>2 DEF ToSet
      <4>2. 1..(Len(old) + 1) = 1..Len(old) \cup {Len(old) + 1}
        BY <3>2
      <4>3. ToSet(old) = {old[i] : i \in 1..Len(old)}
        BY <3>2 DEF ToSet
      <4> QED
        BY <3>2, <4>1, <4>2, <4>3
    <3>4. ToSet(new) = {entries[i] : i \in 1..(k + 1)} \ {now}
      BY <2>1, <2>3, <2>6, <3>3 DEF old, t
    <3>5. ASSUME Decreasing(entries) PROVE Decreasing(new)
      <4>1. Decreasing(old)
        BY <2>1, <3>5 DEF old
      <4>2. ASSUME NEW i \in 1..Len(old) PROVE old[i] > t
        <5>1. old[i] \in ToSet(old)
          BY <3>2 DEF ToSet
        <5>2. ToSet(old) \subseteq {entries[h] : h \in 1..k}
          BY <2>1 DEF old
        <5>3. PICK h \in 1..k : old[i] = entries[h]
          BY <5>1, <5>2
        <5>4. h < k + 1 /\ h \in DOMAIN entries /\ k + 1 \in DOMAIN entries
          BY <1>1
        <5> QED
          BY <3>5, <5>3, <5>4 DEF Decreasing, t
      <4>3. ASSUME NEW i \in 1..(Len(old) + 1), NEW j \in 1..(Len(old) + 1), i < j
            PROVE  new[i] > new[j]
        <5>1. i \in 1..Len(old) /\ new[i] = old[i]
          BY <3>2, <4>3
        <5>2. CASE j = Len(old) + 1
          BY <3>2, <4>2, <5>1, <5>2
        <5>3. CASE j # Len(old) + 1
          <6>1. j \in 1..Len(old) /\ new[j] = old[j]
            BY <3>2, <5>3
          <6> QED
            BY <3>2, <4>1, <4>3, <5>1, <6>1 DEF Decreasing
        <5> QED
          BY <5>2, <5>3
      <4> QED
        BY <3>2, <4>3 DEF Decreasing
    <3> QED
      BY <3>1, <3>2, <3>4, <3>5
  <2> QED
    BY <2>5, <2>6
<1>5. Nat \subseteq S
  <2> HIDE DEF S
  <2> QED
    BY <1>3, <1>4, EveryNumber DEF Successive
<1>6. Good(m)
  <2>1. m \in Nat /\ m <= n
    BY <1>1 DEF n
  <2>2. m \in S
    BY <1>5, <2>1
  <2> HIDE DEF Good
  <2> QED
    BY <2>1, <2>2
<1> QED
  BY <1>6 DEF kept, n

\* A run goes before what it keeps of the history, in order if that is.
LEMMA ExtendedIs ==
  ASSUME NEW entries \in Seq(Times), now \in Times
  PROVE  /\ Extended(entries) \in Seq(Times) /\ Extended(entries) # <<>>
         /\ Head(Extended(entries)) = now
         /\ ToSet(Extended(entries)) = {now} \cup ToSet(entries)
         /\ Decreasing(entries) /\ (\A t \in ToSet(entries) : t <= now) =>
               Decreasing(Extended(entries))
<1> DEFINE n == Len(entries)
           kept == Keeps(entries, n)[n]
           longer == Extended(entries)
<1>1. longer = <<now>> \o kept
  BY DEF Extended, Keeps
<1>2. n \in Nat /\ n \in 0..Len(entries) /\ DOMAIN entries = 1..n
  OBVIOUS
<1>3. /\ kept \in Seq(Times)
      /\ ToSet(kept) = {entries[i] : i \in 1..n} \ {now}
      /\ Decreasing(entries) => Decreasing(kept)
  BY <1>2, KeepsWhat
<1>4. ToSet(entries) = {entries[i] : i \in 1..n}
  BY <1>2 DEF ToSet
<1> HIDE DEF n, kept, longer
<1>5. /\ longer \in Seq(Times) /\ Len(kept) \in Nat
      /\ DOMAIN kept = 1..Len(kept)
      /\ DOMAIN longer = 1..(Len(kept) + 1) /\ longer # <<>>
      /\ longer[1] = now
      /\ \A i \in 2..(Len(kept) + 1) : longer[i] = kept[i - 1] /\ i - 1 \in 1..Len(kept)
  BY <1>1, <1>3
<1>6. Head(longer) = now
  BY <1>5
<1>7. ToSet(longer) = {now} \cup ToSet(kept)
  <2>1. ToSet(longer) = {longer[i] : i \in 1..(Len(kept) + 1)}
    BY <1>5 DEF ToSet
  <2>2. ToSet(kept) = {kept[i] : i \in 1..Len(kept)}
    BY <1>5 DEF ToSet
  <2>3. ASSUME NEW i \in 1..Len(kept)
        PROVE  i + 1 \in 1..(Len(kept) + 1) /\ longer[i + 1] = kept[i]
    BY <1>5
  <2>4. 1 \in 1..(Len(kept) + 1)
    BY <1>5
  <2>5. ASSUME NEW i \in 1..(Len(kept) + 1)
        PROVE  longer[i] \in {now} \cup ToSet(kept)
    BY <1>5, <2>2
  <2>6. ToSet(kept) \subseteq ToSet(longer)
    BY <2>1, <2>2, <2>3
  <2>7. now \in ToSet(longer)
    BY <1>5, <2>1, <2>4
  <2>8. ToSet(longer) \subseteq {now} \cup ToSet(kept)
    BY <2>1, <2>5
  <2> QED
    BY <2>6, <2>7, <2>8
<1>8. ASSUME Decreasing(entries), \A t \in ToSet(entries) : t <= now
      PROVE  Decreasing(longer)
  <2>1. \A t \in ToSet(kept) : t < now
    <3>1. \A i \in 1..Len(kept) : kept[i] \in Times
      BY <1>3, <1>5
    <3>2. ToSet(kept) \subseteq Times
      BY <1>5, <3>1 DEF ToSet
    <3>3. ToSet(kept) \subseteq ToSet(entries) /\ now \notin ToSet(kept)
      BY <1>3, <1>4
    <3> SUFFICES ASSUME NEW t \in ToSet(kept) PROVE t < now
      OBVIOUS
    <3>4. t <= now /\ t # now /\ t \in Times
      BY <1>8, <3>2, <3>3
    <3>5. t \in Nat /\ now \in Nat
      BY <3>4, TimesAreNumbers
    <3> QED
      BY <3>4, <3>5
  <2> SUFFICES ASSUME NEW i \in 1..(Len(kept) + 1), NEW j \in 1..(Len(kept) + 1), i < j
               PROVE  longer[i] > longer[j]
    BY <1>5 DEF Decreasing
  <2>2. j \in 2..(Len(kept) + 1)
    BY <1>5
  <2>3. longer[j] = kept[j - 1] /\ j - 1 \in 1..Len(kept)
    BY <1>5, <2>2
  <2>4. CASE i = 1
    <3>1. longer[j] \in ToSet(kept)
      BY <1>5, <2>3 DEF ToSet
    <3>2. longer[j] \in Times /\ now \in Times
      BY <1>3, <1>5, <2>3
    <3>3. longer[j] \in Nat /\ now \in Nat
      BY <3>2, TimesAreNumbers
    <3> QED
      BY <1>5, <2>1, <2>4, <3>1, <3>3
  <2>5. CASE i # 1
    <3>1. longer[i] = kept[i - 1] /\ i - 1 \in 1..Len(kept) /\ i - 1 < j - 1
      BY <1>5, <2>5
    <3> QED
      BY <1>3, <1>5, <1>8, <2>3, <3>1 DEF Decreasing
  <2> QED
    BY <2>4, <2>5
<1> QED
  BY <1>3, <1>4, <1>5, <1>6, <1>7, <1>8 DEF longer

Readable(bundle) == bundle.history \notin {NoFile, Torn}

\* A history that can be read names its runs newest first, none after now ...
InOrder(bundle) ==
    Readable(bundle) =>
        /\ bundle.history \in Seq(Times) /\ bundle.history # <<>>
        /\ Decreasing(bundle.history)
        /\ \A t \in ToSet(bundle.history) : t <= now

\* ... and the report beside it is its first run's.
Matches(bundle) == Readable(bundle) => bundle.report = Head(bundle.history)

\* While no file is cut short, what a job pushes has the entries that are
\* stored, and while none is cancelled either its report is the first run's.
JobInv ==
    /\ Shape
    /\ now \in Times /\ cancels \in Nat /\ tornWrites \in Nat
    /\ InOrder(stored) /\ InOrder(dir)
    /\ step \in {"idle", "pull", "verify", "extend", "push"}
    /\ step = "pull" => dir = NoBundle
    /\ tornWrites = 0 =>
          /\ stored.history # Torn
          /\ step # "idle" => dir.history # Torn
          /\ step \in {"verify", "extend"} => EntriesOf(stored) \subseteq EntriesOf(dir)
          /\ step = "push" =>
                \/ dir = NoBundle
                \/ EntriesOf(stored) \subseteq EntriesOf(dir)
    /\ tornWrites = 0 /\ cancels = 0 =>
          /\ Matches(stored)
          /\ step \in {"verify", "push"} => Matches(dir)
          /\ step = "extend" => dir.report = now

\* What a step does to a bundle that stays as it is.
LEMMA BundleStays ==
  ASSUME now \in Times, now' \in Times, now' >= now, NEW bundle, InOrder(bundle)
  PROVE  InOrder(bundle)'
<1> SUFFICES ASSUME Readable(bundle), NEW t \in ToSet(bundle.history) PROVE t <= now'
  BY DEF InOrder, Readable
<1>1. t \in Times /\ t <= now
  <2>1. bundle.history \in Seq(Times) /\ t <= now
    BY DEF InOrder
  <2>2. DOMAIN bundle.history = 1..Len(bundle.history)
        /\ \A i \in 1..Len(bundle.history) : bundle.history[i] \in Times
    BY <2>1
  <2> QED
    BY <2>1, <2>2 DEF ToSet
<1> QED
  BY <1>1, TimesAreNumbers

\* The history a job writes.
LEMMA WrittenIs ==
  ASSUME NEW bundle, InOrder(bundle), now \in Times, bundle.history # Torn
  PROVE  LET new == Extended(IF bundle.history = NoFile THEN <<>> ELSE bundle.history)
         IN  /\ new \in Seq(Times) /\ new # <<>> /\ new \notin {NoFile, Torn}
             /\ Decreasing(new)
             /\ \A t \in ToSet(new) : t <= now
             /\ Head(new) = now
             /\ EntriesOf(bundle) \subseteq ToSet(new)
<1> DEFINE old == IF bundle.history = NoFile THEN <<>> ELSE bundle.history
           new == Extended(old)
<1>1. /\ old \in Seq(Times) /\ Decreasing(old)
      /\ \A t \in ToSet(old) : t <= now
      /\ EntriesOf(bundle) = ToSet(old)
  <2>1. CASE bundle.history = NoFile
    <3>1. <<>> \in Seq(Times) /\ ToSet(<<>>) = {} /\ DOMAIN <<>> = {}
      BY DEF ToSet
    <3> QED
      BY <2>1, <3>1 DEF EntriesOf, Decreasing
  <2>2. CASE bundle.history # NoFile
    <3>1. bundle.history \notin {NoFile, Torn} /\ old = bundle.history
      BY <2>2
    <3> QED
      BY <3>1 DEF InOrder, Readable, EntriesOf
  <2> QED
    BY <2>1, <2>2
<1> HIDE DEF old
<1>2. /\ new \in Seq(Times) /\ new # <<>> /\ Head(new) = now
      /\ ToSet(new) = {now} \cup ToSet(old) /\ Decreasing(new)
  BY <1>1, ExtendedIs
<1>3. new \notin {NoFile, Torn}
  <2>1. ASSUME NEW s \in Seq(Times) PROVE s \in Seq(Nat)
    <3>1. Len(s) \in Nat /\ s \in [1..Len(s) -> Times]
      OBVIOUS
    <3>2. s \in [1..Len(s) -> Nat]
      BY <3>1, TimesAreNumbers
    <3> QED
      BY <3>1, <3>2
  <2> QED
    BY <1>2, <2>1, NoContents
<1>4. \A t \in ToSet(new) : t <= now
  <2>1. now <= now
    BY TimesAreNumbers
  <2> QED
    BY <1>1, <1>2, <2>1
<1> QED
  BY <1>1, <1>2, <1>3, <1>4 DEF old

\* The invariant of the job holds in every behaviour.
LEMMA JobInvariant == JobSpec => []JobInv
<1>1. JobInit => JobInv
  BY NoContents DEF JobInit, JobInv, Shape, NoBundle, InOrder, Readable, Matches,
                    EntriesOf
<1>2. JobInv /\ [JobNext]_jobVars => JobInv'
  <2> SUFFICES ASSUME JobInv, [JobNext]_jobVars PROVE JobInv'
    OBVIOUS
  <2>1. now \in Times /\ now \in Nat /\ cancels \in Nat /\ tornWrites \in Nat
        /\ InOrder(stored) /\ InOrder(dir) /\ Shape
    BY TimesAreNumbers DEF JobInv
  <2>2. ASSUME now' = now PROVE \A bundle : InOrder(bundle) => InOrder(bundle)'
    BY <2>2 DEF InOrder, Readable
  <2>3. \A bundle : /\ Readable(bundle)' <=> Readable(bundle)
                    /\ Matches(bundle)' <=> Matches(bundle)
                    /\ EntriesOf(bundle)' = EntriesOf(bundle)
    BY DEF Readable, Matches, EntriesOf
  <2>4. InOrder(NoBundle)' /\ InOrder(NoBundle) /\ Matches(NoBundle)
        /\ EntriesOf(NoBundle) = {}
    BY DEF InOrder, NoBundle, Readable, Matches, EntriesOf
  <2>5. CASE StartJob
    <3>1. now' \in Times /\ now' >= now
      BY <2>5 DEF StartJob
    <3>2. InOrder(stored)'
      <4>1. \A bundle : InOrder(bundle) => InOrder(bundle)'
        BY <2>1, <3>1, BundleStays
      <4> QED
        BY <2>1, <2>5, <4>1 DEF StartJob, InOrder, Readable
    <3> QED
      BY <2>3, <2>4, <2>5, <3>1, <3>2, NoContents
      DEF StartJob, jobFaults, JobInv, Shape, NoBundle, InOrder, Readable, Matches,
          EntriesOf
  <2>6. CASE Pull
    BY <2>6 DEF Pull, jobFaults, JobInv, Shape, InOrder, Readable, Matches, EntriesOf
  <2>7. CASE PullFails \/ VerifyFails
    BY <2>7 DEF PullFails, VerifyFails, RequestFault, JobInv, Shape, InOrder, Readable,
                Matches, EntriesOf, NoBundle
  <2>8. CASE WriteReport
    BY <2>8 DEF WriteReport, jobFaults, JobInv, Shape, InOrder, Readable, Matches,
                EntriesOf
  <2>9. CASE TearReport
    BY <2>9 DEF TearReport, JobInv, Shape, InOrder, Readable, Matches
  <2>10. CASE WriteHistory
    <3> DEFINE new == Extended(IF dir.history = NoFile THEN <<>> ELSE dir.history)
    <3>1. /\ step = "extend" /\ dir.history # Torn
          /\ dir' = [dir EXCEPT !.history = new]
          /\ step' = "push"
          /\ UNCHANGED <<stored, now, jobs, requestFaults, cancels, tornWrites>>
      BY <2>10 DEF WriteHistory, jobFaults
    <3>2. /\ new \in Seq(Times) /\ new # <<>> /\ new \notin {NoFile, Torn}
          /\ Decreasing(new)
          /\ \A t \in ToSet(new) : t <= now
          /\ Head(new) = now
          /\ EntriesOf(dir) \subseteq ToSet(new)
      BY <2>1, <3>1, WrittenIs
    <3> HIDE DEF new
    <3>3. dir'.history = new /\ dir'.report = dir.report /\ Shape'
      BY <2>1, <3>1 DEF Shape
    <3>4. InOrder(stored)' /\ InOrder(dir)'
      BY <2>1, <3>1, <3>2, <3>3 DEF InOrder, Readable
    <3>5. EntriesOf(dir)' = ToSet(new)
      BY <3>2, <3>3 DEF EntriesOf
    <3>6. EntriesOf(stored)' = EntriesOf(stored) /\ (Matches(stored)' <=> Matches(stored))
      BY <3>1 DEF EntriesOf, Matches, Readable
    <3>7. tornWrites = 0 /\ cancels = 0 => Matches(dir)'
      BY <3>1, <3>2, <3>3 DEF Matches, Readable, JobInv
    <3> QED
      BY <3>1, <3>2, <3>3, <3>4, <3>5, <3>6, <3>7 DEF JobInv
  <2>11. CASE HistoryUnreadable
    BY <2>11 DEF HistoryUnreadable, jobFaults, JobInv, Shape, InOrder, Readable,
                 Matches, EntriesOf
  <2>12. CASE TearHistory
    BY <2>12 DEF TearHistory, JobInv, Shape, InOrder, Readable, Matches
  <2>13. CASE Cancel
    BY <2>13 DEF Cancel, JobInv, Shape, InOrder, Readable, EntriesOf
  <2>14. CASE Push
    BY <2>14 DEF Push, jobFaults, JobInv, Shape, InOrder, Readable, Matches
  <2>15. CASE PushFails \/ Lost
    BY <2>15 DEF PushFails, Lost, RequestFault, JobInv, Shape, InOrder, Readable, Matches
  <2>16. CASE UNCHANGED jobVars
    BY <2>16 DEF jobVars, jobFaults, JobInv, Shape, InOrder, Readable, Matches, EntriesOf
  <2> QED
    BY <2>5, <2>6, <2>7, <2>8, <2>9, <2>10, <2>11, <2>12, <2>13, <2>14, <2>15, <2>16
    DEF JobNext
<1> QED
  BY <1>1, <1>2, PTL DEF JobSpec

\* A stored history names every run once, newest first, and begins with the
\* run of the report beside it unless a job was cancelled or a file cut short.
THEOREM HistoriesInOrder == JobSpec => []HistoryInOrder
<1>1. JobInv => HistoryInOrder
  <2> SUFFICES ASSUME JobInv, Readable(stored)
               PROVE  /\ stored.history # <<>> /\ Decreasing(stored.history)
                      /\ cancels + tornWrites = 0 => stored.report = Head(stored.history)
    BY DEF HistoryInOrder, Readable, Decreasing
  <2>1. cancels \in Nat /\ tornWrites \in Nat
    BY DEF JobInv
  <2>2. cancels + tornWrites = 0 => cancels = 0 /\ tornWrites = 0
    BY <2>1
  <2> QED
    BY <2>2 DEF JobInv, InOrder, Matches
<1> QED
  BY <1>1, JobInvariant, PTL

\* While files are written whole, no job takes an entry out of the history.
THEOREM HistoriesKept == JobSpec => HistoryKept
<1>1. JobInv /\ [JobNext]_jobVars =>
         (tornWrites = 0 => EntriesOf(stored) \subseteq EntriesOf(stored'))
  <2> SUFFICES ASSUME JobInv, [JobNext]_jobVars, tornWrites = 0
               PROVE  EntriesOf(stored) \subseteq EntriesOf(stored')
    OBVIOUS
  <2>1. CASE Push
    <3>1. dir = NoBundle \/ EntriesOf(stored) \subseteq EntriesOf(dir)
      BY <2>1 DEF Push, JobInv
    <3> QED
      BY <2>1, <3>1 DEF Push, NoBundle
  <2>2. CASE UNCHANGED stored
    BY <2>2
  <2> QED
    BY <2>1, <2>2
    DEF JobNext, jobVars, StartJob, Pull, PullFails, VerifyFails, WriteReport,
        TearReport, WriteHistory, HistoryUnreadable, TearHistory, Cancel,
        PushFails, Lost
<1> QED
  BY <1>1, JobInvariant, PTL DEF JobSpec, HistoryKept
=============================================================================
