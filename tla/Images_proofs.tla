----------------------------- MODULE Images_proofs -----------------------------
(***************************************************************************)
(* Proofs about reading the images of an inventory (ImageObservation) and  *)
(* about judging one (ImageVerdict), for any number of images, workers,    *)
(* runs and faults.                                                        *)
(***************************************************************************)
EXTENDS ImageObservation, ImageVerdict, WellFoundedInduction,
        SequenceTheorems, TLAPS

-----------------------------------------------------------------------------
(* Numbers.                                                                *)

\* A non-empty set of numbers has a least one.
LEMMA LeastExists ==
  ASSUME NEW T \in SUBSET Nat, T # {}
  PROVE  \E x \in T : \A y \in T : x <= y
<1> DEFINE R == OpToRel(<, Nat)
<1>1. IsWellFoundedOn(R, Nat)
  BY NatLessThanWellFounded
<1>2. \A x, y \in Nat : x < y => <<x, y>> \in R
  BY DEF OpToRel
<1> HIDE DEF R
<1>3. PICK x \in T : \A y \in T : ~ (<<y, x>> \in R)
  BY <1>1, WFMin, Zenon
<1>4. \A y \in T : ~ (y < x)
  BY <1>2, <1>3
<1> QED
  BY <1>4

\* A non-empty set of numbers up to n has a greatest one.
LEMMA GreatestExists ==
  ASSUME NEW n \in Nat, NEW T \in SUBSET (1..n), T # {}
  PROVE  \E x \in T : \A y \in T : y <= x
<1> DEFINE gaps == {k \in Nat : n - k \in T}
<1>1. PICK t \in T : TRUE
  OBVIOUS
<1>2. gaps \in SUBSET Nat /\ n - t \in gaps
  BY <1>1
<1>3. PICK k \in gaps : \A j \in gaps : k <= j
  BY <1>2, LeastExists
<1>4. n - k \in T /\ \A y \in T : n - y \in gaps
  BY <1>3
<1> QED
  BY <1>3, <1>4

-----------------------------------------------------------------------------
(* Observation.                                                            *)

\* An image of the inventory is a record with an ID and a reference.
LEMMA SpecsOf ==
  ASSUME NEW inv \in Inventories, NEW p \in StableOrders(inv)
  PROVE  [i \in DOMAIN inv |-> inv[p[i]]] \in Seq([id : IDs, ref : Refs])
<1>1. inv \in Seq([id : Nat \ {NoID}, ref : Refs])
  BY InventoryType
<1>2. p \in [DOMAIN inv -> DOMAIN inv]
  BY DEF StableOrders, Bijection, Injection
<1>3. DOMAIN inv = 1..Len(inv) /\ Len(inv) \in Nat
  BY <1>1
<1>4. ASSUME NEW i \in DOMAIN inv PROVE inv[i] \in [id : IDs, ref : Refs]
  <2>1. inv[i] \in [id : Nat \ {NoID}, ref : Refs]
    BY <1>1, <1>3, ElementOfSeq
  <2>2. inv[i].id \in {spec.id : spec \in ToSet(inv)}
    BY DEF ToSet
  <2>3. inv[i].id \in IDs
    BY <2>2 DEF IDs
  <2> QED
    BY <2>1, <2>3
<1> QED
  BY <1>2, <1>3, <1>4

\* What was last observed of a reference is about that reference.
LEMMA PriorIsOfRef ==
  ASSUME previous \in Seq(Observation), NEW ref \in Refs
  PROVE  PriorOf(ref) \in Observation /\ PriorOf(ref).ref = ref
<1> DEFINE at == {i \in DOMAIN previous : previous[i].ref = ref}
<1>1. CASE at = {}
  BY <1>1 DEF PriorOf, Unread, Observation
<1>2. CASE at # {}
  <2>1. \E x \in at : \A y \in at : y <= x
    <3>1. DOMAIN previous = 1..Len(previous) /\ Len(previous) \in Nat
      OBVIOUS
    <3> QED
      BY <1>2, <3>1, GreatestExists
  <2>2. PriorOf(ref) = previous[CHOOSE i \in at : \A j \in at : j <= i]
    BY <1>2 DEF PriorOf
  <2> QED
    BY <2>1, <2>2
<1> QED
  BY <1>1, <1>2

\* A worker that waits is at no image, and only then; nobody works between runs.
WorkersInv ==
    /\ \A w \in Workers : worker[w] = Idle \/ worker[w].at \in Places
    /\ ~running => \A w \in Workers : worker[w] = Idle

ObserveTypes == ObserveTypeOK /\ WorkersInv

\* A worker that reports an outcome keeps the types.
LEMMA ReportType ==
  ASSUME ObserveTypes, NEW w \in Workers, worker[w].step # "idle",
         NEW kind \in {"reused", "observed", "failed", "error"},
         NEW o \in Observation, Reporting(w, Outcome(kind, o)),
         UNCHANGED <<tag, given, next, saved, running, named>>
  PROVE  /\ worker' \in [Workers -> [at : 0..Len(specs),
                                     step : {"idle", "digest", "observe"}]]
         /\ DOMAIN outcomes' = Places
         /\ \A i \in Places : outcomes'[i] # NoOutcome =>
               /\ outcomes'[i].kind \in {"reused", "observed", "failed", "error"}
               /\ outcomes'[i].observation \in Observation
         /\ WorkersInv'
<1> USE DEF ObserveTypes, ObserveTypeOK, WorkersInv, Reporting, Outcome, Places,
            given, Idle
<1>1. worker' = [worker EXCEPT ![w] = Idle] /\ Len(specs) \in Nat
  OBVIOUS
<1>2. worker' \in [Workers -> [at : 0..Len(specs),
                               step : {"idle", "digest", "observe"}]]
  BY <1>1
<1>3. WorkersInv'
  BY <1>1
<1>4. outcomes' = [outcomes EXCEPT ![worker[w].at] =
                      [kind |-> kind, observation |-> o]]
  OBVIOUS
<1> QED
  BY <1>2, <1>3, <1>4

\* Every place, and every worker at one, has a reference.
LEMMA RefsAreRefs ==
  ASSUME ObserveTypes
  PROVE  /\ \A i \in Places : specs[i] \in [id : IDs, ref : Refs]
         /\ Len(specs) \in Nat
         /\ \A w \in Workers : worker[w].step # "idle" =>
               worker[w].at \in Places /\ RefAt(w) \in Refs /\ running
<1>1. specs \in Seq([id : IDs, ref : Refs])
  BY DEF ObserveTypes, ObserveTypeOK
<1>2. \A i \in Places : specs[i] \in [id : IDs, ref : Refs]
  BY <1>1, ElementOfSeq DEF Places
<1>3. Len(specs) \in Nat
  BY <1>1
<1>4. ASSUME NEW w \in Workers, worker[w].step # "idle"
      PROVE  worker[w].at \in Places /\ running
  BY <1>4 DEF ObserveTypes, WorkersInv, Idle
<1> QED
  BY <1>2, <1>3, <1>4 DEF RefAt

\* A run that read every place returns an observation for each.
LEMMA ResultType ==
  ASSUME ObserveTypes, running, next \notin Places,
         \A i \in Places : outcomes[i] # NoOutcome
  PROVE  Result \in Seq(Observation)
<1>1. ASSUME NEW i \in Places PROVE Result[i] \in Observation
  <2>1. outcomes[i].observation \in Observation /\ specs[i] \in [id : IDs, ref : Refs]
    BY RefsAreRefs DEF ObserveTypes, ObserveTypeOK
  <2>2. Result[i] = LET o == outcomes[i].observation
                    IN  IF o.id = NoID THEN [o EXCEPT !.id = specs[i].id] ELSE o
    BY DEF Result
  <2> QED
    BY <2>1, <2>2 DEF Observation
<1>2. Len(specs) \in Nat /\ Result = [i \in 1..Len(specs) |-> Result[i]]
  BY RefsAreRefs DEF Result, Places
<1> QED
  BY <1>1, <1>2 DEF Places

\* While a run goes on, what each place holds is about its image and as fresh
\* as the run, or a worker is at it, or it has not been handed out.
Fresh(i) ==
    LET o == outcomes[i].observation
    IN  /\ outcomes[i] # NoOutcome
        /\ o.ref = specs[i].ref
        /\ o.digest \in named[o.ref] \cup {NoDigest}
        /\ strict /\ outcomes[i].kind # "error" => o.digest # NoDigest

RunInv ==
    running =>
        /\ \A r \in Refs : tag[r] \in named[r]
        /\ \A i \in Places :
              \/ Fresh(i)
              \/ /\ outcomes[i] = NoOutcome
                 /\ i < next => \E w \in Workers : worker[w].at = i

ObserveInv == ObserveTypes /\ RunInv

\* When every place was taken and no worker is at one, what each place holds
\* was read in this run.
LEMMA AllRead ==
  ASSUME ObserveInv, running, next \notin Places,
         \A w \in Workers : worker[w].at = 0
  PROVE  \A i \in Places : Fresh(i)
<1>1. next \in 1..(Len(specs) + 1) /\ Len(specs) \in Nat
  BY RefsAreRefs DEF ObserveInv, ObserveTypes, ObserveTypeOK
<1>2. \A i \in Places : i < next /\ i # 0
  BY <1>1 DEF Places
<1> QED
  BY <1>2 DEF ObserveInv, RunInv

\* An outcome reported is of the place's own reference and of the digest its
\* tag has.
LEMMA ReportFresh ==
  ASSUME ObserveInv, NEW w \in Workers, worker[w].step # "idle",
         NEW kind \in {"reused", "observed", "failed", "error"},
         NEW o \in Observation, Reporting(w, Outcome(kind, o)),
         o.ref = RefAt(w), o.digest \in {tag[RefAt(w)], NoDigest},
         strict /\ kind # "error" => o.digest # NoDigest,
         UNCHANGED <<tag, given, next, saved, running, named>>
  PROVE  RunInv'
<1>1. PICK at \in Places : at = worker[w].at
  BY RefsAreRefs DEF ObserveInv
<1>0. RefAt(w) \in Refs /\ running /\ RefAt(w) = specs[at].ref
  BY <1>1, RefsAreRefs DEF ObserveInv, RefAt
<1>2. /\ outcomes' = [outcomes EXCEPT ![at] = Outcome(kind, o)]
      /\ worker' = [worker EXCEPT ![w] = Idle]
      /\ DOMAIN outcomes = Places /\ Places' = Places
      /\ DOMAIN worker = Workers
  BY <1>1 DEF Reporting, ObserveInv, ObserveTypes, ObserveTypeOK, Places, given
<1>3. Fresh(at)'
  <2>1. outcomes'[at] = [kind |-> kind, observation |-> o]
    BY <1>1, <1>2 DEF Outcome
  <2>2. tag[RefAt(w)] \in named[RefAt(w)]
    BY <1>0 DEF ObserveInv, RunInv
  <2> QED
    BY <1>0, <2>1, <2>2 DEF Fresh, NoOutcome, given
<1>4. ASSUME NEW i \in Places, i # at
      PROVE  \/ Fresh(i)'
             \/ /\ outcomes'[i] = NoOutcome
                /\ i < next => \E v \in Workers : worker'[v].at = i
  <2>1. outcomes'[i] = outcomes[i] /\ \A v \in Workers : v # w => worker'[v] = worker[v]
    BY <1>2, <1>4
  <2>2. Fresh(i) => Fresh(i)'
    BY <2>1 DEF Fresh, given
  <2> QED
    BY <1>0, <1>1, <1>4, <2>1, <2>2 DEF ObserveInv, RunInv
<1>5. \A r \in Refs : tag'[r] \in named'[r]
  BY <1>0 DEF ObserveInv, RunInv
<1>6. \A i \in Places' :
         \/ Fresh(i)'
         \/ /\ outcomes'[i] = NoOutcome
            /\ i < next' => \E v \in Workers : worker'[v].at = i
  BY <1>2, <1>3, <1>4
<1> QED
  BY <1>5, <1>6 DEF RunInv

\* The observation's invariant holds at the start.
LEMMA ObserveInitially == ObserveInit => ObserveInv
<1> SUFFICES ASSUME ObserveInit PROVE ObserveInv
  OBVIOUS
<1>1. specs = <<>> /\ Len(specs) = 0 /\ Places = {}
  BY DEF ObserveInit, Places
<1>2. \A S : <<>> \in Seq(S)
  OBVIOUS
<1>3. /\ specs \in Seq([id : IDs, ref : Refs])
      /\ previous \in Seq(Observation) /\ saved \in Seq(Observation)
  BY <1>2 DEF ObserveInit
<1>4. worker \in [Workers -> [at : 0..Len(specs),
                              step : {"idle", "digest", "observe"}]]
  BY <1>1 DEF ObserveInit, Idle
<1>5. DOMAIN outcomes = Places
  BY <1>1 DEF ObserveInit
<1>6. /\ runs \in 0..MaxRuns /\ moves \in 0..MaxMoves /\ faults \in 0..MaxFaults
      /\ next \in 1..(Len(specs) + 1)
  BY <1>1, BoundsType DEF ObserveInit
<1>7. /\ tag \in [Refs -> Digests] /\ named \in [Refs -> SUBSET Digests]
      /\ running \in BOOLEAN /\ strict \in BOOLEAN
  BY DEF ObserveInit
<1>8. ObserveTypeOK
  BY <1>1, <1>3, <1>4, <1>5, <1>6, <1>7 DEF ObserveTypeOK
<1>9. WorkersInv
  BY DEF ObserveInit, WorkersInv
<1> QED
  BY <1>8, <1>9 DEF ObserveInit, ObserveInv, ObserveTypes, RunInv

\* A tag that moves keeps the observation's invariant.
LEMMA MoveKeeps ==
  ASSUME ObserveInv, NEW r \in Refs, Move(r)
  PROVE  ObserveInv'
<1>1. /\ tag' \in [Refs -> Digests] /\ named' \in [Refs -> SUBSET Digests]
      /\ \A q \in Refs : named[q] \subseteq named'[q]
      /\ \A q \in Refs : tag[q] \in named[q] => tag'[q] \in named'[q]
  BY DEF Move, ObserveInv, ObserveTypes, ObserveTypeOK
<1>2. ObserveTypes'
  BY <1>1, BoundsType
  DEF Move, ObserveInv, ObserveTypes, ObserveTypeOK, WorkersInv, given, Places
<1>3. ASSUME NEW i \in Places, Fresh(i) PROVE Fresh(i)'
  <2>1. outcomes[i].observation.ref \in Refs
    BY <1>3, RefsAreRefs DEF Fresh, ObserveInv
  <2> QED
    BY <1>1, <1>3, <2>1 DEF Fresh, Move, given
<1>4. RunInv'
  BY <1>1, <1>3 DEF ObserveInv, RunInv, Move, given, Places
<1> QED
  BY <1>2, <1>4 DEF ObserveInv

\* Starting a run keeps the observation's invariant.
LEMMA StartRunKeeps ==
  ASSUME ObserveInv, StartRun
  PROVE  ObserveInv'
<1>1. specs' \in Seq([id : IDs, ref : Refs])
  BY SpecsOf DEF StartRun
<1>2. Len(specs') \in Nat
  BY <1>1
<1>3. /\ outcomes' = [i \in 1..Len(specs') |-> NoOutcome]
      /\ worker' = worker /\ next' = 1 /\ running' = TRUE
      /\ named' = [r \in Refs |-> {tag[r]}] /\ tag' = tag
  BY DEF StartRun
<1>4. worker' = worker /\ \A w \in Workers : worker[w] = Idle
  BY <1>3 DEF StartRun, ObserveInv, ObserveTypes, WorkersInv
<1>5. worker' \in [Workers -> [at : 0..Len(specs'),
                               step : {"idle", "digest", "observe"}]]
  BY <1>2, <1>4 DEF ObserveInv, ObserveTypes, ObserveTypeOK, Idle
<1>6. /\ previous' \in Seq(Observation) /\ strict' \in BOOLEAN
      /\ saved' \in Seq(Observation) /\ runs' \in 0..MaxRuns
      /\ moves' = moves /\ faults' = faults
  BY BoundsType
  DEF StartRun, Since, ObserveInv, ObserveTypes, ObserveTypeOK
<1>7. /\ tag' \in [Refs -> Digests] /\ named' \in [Refs -> SUBSET Digests]
      /\ \A r \in Refs : tag'[r] \in named'[r]
  BY <1>3 DEF ObserveInv, ObserveTypes, ObserveTypeOK
<1>8. ObserveTypeOK'
  BY <1>1, <1>2, <1>3, <1>5, <1>6, <1>7
  DEF ObserveInv, ObserveTypes, ObserveTypeOK, Places
<1>9. WorkersInv'
  BY <1>3, <1>4 DEF WorkersInv
<1>10. RunInv'
  BY <1>2, <1>3, <1>7 DEF RunInv, Places
<1> QED
  BY <1>8, <1>9, <1>10 DEF ObserveInv, ObserveTypes

\* Taking a place keeps the observation's invariant.
LEMMA TakeKeeps ==
  ASSUME ObserveInv, NEW w \in Workers, Take(w)
  PROVE  ObserveInv'
<1>1. /\ next \in 1..Len(specs) /\ Len(specs) \in Nat /\ next' = next + 1
      /\ worker[w] = Idle /\ running
  BY RefsAreRefs DEF Take, ObserveInv, Places
<1>2. PICK step \in {"digest", "observe"} :
         worker' = [worker EXCEPT ![w] = [at |-> next, step |-> step]]
  BY DEF Take
<1>3. worker \in [Workers -> [at : 0..Len(specs),
                              step : {"idle", "digest", "observe"}]]
  BY DEF ObserveInv, ObserveTypes, ObserveTypeOK
<1>4. ObserveTypes'
  BY <1>1, <1>2, <1>3
  DEF Take, ObserveInv, ObserveTypes, ObserveTypeOK, WorkersInv, given, bounds,
      Places, Idle
<1>5. ASSUME NEW i \in Places
      PROVE  \/ Fresh(i)'
             \/ /\ outcomes'[i] = NoOutcome
                /\ i < next' => \E v \in Workers : worker'[v].at = i
  <2>1. Fresh(i) => Fresh(i)'
    BY DEF Fresh, Take, given
  <2>2. CASE i = next
    BY <1>1, <1>2, <1>3, <2>1, <2>2 DEF ObserveInv, RunInv, Take
  <2>3. CASE i # next
    <3>1. i < next' => i < next
      BY <1>1, <2>3 DEF Places
    <3>2. \A v \in Workers : worker[v].at = i => worker'[v].at = i
      BY <1>1, <1>2, <1>3 DEF Places, Idle
    <3> QED
      BY <1>1, <2>1, <3>1, <3>2 DEF ObserveInv, RunInv, Take
  <2> QED
    BY <2>2, <2>3
<1>6. RunInv'
  BY <1>1, <1>5 DEF ObserveInv, RunInv, Take, given, Places
<1> QED
  BY <1>4, <1>6 DEF ObserveInv

\* Reading an image, or failing to, keeps the observation's invariant.
LEMMA ReadingKeeps ==
  ASSUME ObserveInv, NEW w \in Workers,
         \/ CheckDigest(w) \/ CheckDigestFails(w)
         \/ \E whole \in BOOLEAN : Observe(w, whole)
         \/ ObserveFails(w)
  PROVE  ObserveInv'
<1>0. faults \in 0..MaxFaults /\ MaxFaults \in Nat
  BY BoundsType DEF ObserveInv, ObserveTypes, ObserveTypeOK
<1>1. /\ worker[w].step # "idle"
      /\ UNCHANGED <<tag, given, next, saved, running, named>>
      /\ runs' = runs /\ moves' = moves /\ faults' \in 0..MaxFaults
  <2>1. CASE CheckDigest(w)
    BY <1>0, <2>1 DEF CheckDigest, bounds
  <2>2. CASE CheckDigestFails(w) \/ ObserveFails(w)
    BY <1>0, <2>2 DEF CheckDigestFails, ObserveFails, Fault
  <2>3. CASE \E whole \in BOOLEAN : Observe(w, whole)
    <3>1. PICK whole \in BOOLEAN : Observe(w, whole)
      BY <2>3
    <3>2. /\ ~whole => faults < MaxFaults
          /\ faults' = faults + IF whole THEN 0 ELSE 1
          /\ worker[w].step = "observe" /\ runs' = runs /\ moves' = moves
          /\ UNCHANGED <<tag, given, next, saved, running, named>>
      BY <3>1, Zenon DEF Observe
    <3>3. faults' \in 0..MaxFaults
      BY <1>0, <3>2
    <3> QED
      BY <3>2, <3>3
  <2> QED
    BY <2>1, <2>2, <2>3
<1>2. /\ RefAt(w) \in Refs /\ worker[w].at \in Places
      /\ tag[RefAt(w)] \in Digests /\ NoDigest \notin Digests
      /\ previous \in Seq(Observation) /\ Len(specs) \in Nat
  BY <1>1, RefsAreRefs, NoDigestIsNone DEF ObserveInv, ObserveTypes, ObserveTypeOK
<1>3. CASE \E kind \in {"reused", "observed", "failed", "error"}, o \in Observation :
              /\ Reporting(w, Outcome(kind, o)) /\ o.ref = RefAt(w)
              /\ o.digest \in {tag[RefAt(w)], NoDigest}
              /\ strict /\ kind # "error" => o.digest # NoDigest
  <2>1. RunInv'
    BY <1>1, <1>3, ReportFresh
  <2>2. /\ worker' \in [Workers -> [at : 0..Len(specs),
                                     step : {"idle", "digest", "observe"}]]
        /\ DOMAIN outcomes' = Places
        /\ \A i \in Places : outcomes'[i] # NoOutcome =>
              /\ outcomes'[i].kind \in {"reused", "observed", "failed", "error"}
              /\ outcomes'[i].observation \in Observation
        /\ WorkersInv'
    BY <1>1, <1>3, ReportType DEF ObserveInv
  <2>3. ObserveTypeOK'
    BY <1>1, <2>2 DEF ObserveInv, ObserveTypes, ObserveTypeOK, given, Places
  <2> QED
    BY <2>1, <2>2, <2>3 DEF ObserveInv, ObserveTypes
<1>4. CASE worker' = [worker EXCEPT ![w].step = "observe"] /\ outcomes' = outcomes
  <2>1. worker \in [Workers -> [at : 0..Len(specs),
                                step : {"idle", "digest", "observe"}]]
    BY DEF ObserveInv, ObserveTypes, ObserveTypeOK
  <2>2. /\ worker' \in [Workers -> [at : 0..Len(specs),
                                    step : {"idle", "digest", "observe"}]]
        /\ \A v \in Workers : worker'[v].at = worker[v].at
        /\ \A v \in Workers : v # w => worker'[v] = worker[v]
    BY <1>4, <2>1
  <2>3. ObserveTypeOK'
    BY <1>1, <1>4, <2>2 DEF ObserveInv, ObserveTypes, ObserveTypeOK, given, Places
  <2>4. running
    BY <1>1, RefsAreRefs DEF ObserveInv
  <2>5. WorkersInv'
    BY <1>1, <1>2, <2>2, <2>4 DEF ObserveInv, ObserveTypes, WorkersInv, given, Places
  <2>6. \A i \in Places : Fresh(i) => Fresh(i)'
    BY <1>1, <1>4 DEF Fresh, given
  <2>7. RunInv'
    BY <1>1, <1>4, <2>2, <2>6 DEF ObserveInv, RunInv, given, Places
  <2> QED
    BY <2>3, <2>5, <2>7 DEF ObserveInv, ObserveTypes
<1>5. CASE CheckDigest(w)
  BY <1>2, <1>3, <1>4, <1>5, PriorIsOfRef DEF CheckDigest
<1>6. CASE CheckDigestFails(w)
  BY <1>4, <1>6 DEF CheckDigestFails
<1>7. CASE \E whole \in BOOLEAN : Observe(w, whole)
  <2>1. PICK whole \in BOOLEAN : Observe(w, whole)
    BY <1>7
  <2> DEFINE o == [Unread(RefAt(w)) EXCEPT !.digest = tag[RefAt(w)],
                                           !.whole = whole]
  <2>2. o \in Observation /\ o.ref = RefAt(w) /\ o.digest = tag[RefAt(w)]
    BY <1>2 DEF Unread, Observation
  <2>3. Reporting(w, Outcome("observed", o))
    BY <2>1 DEF Observe
  <2> HIDE DEF o
  <2> QED
    BY <1>2, <1>3, <2>2, <2>3
<1>8. CASE ObserveFails(w)
  <2> DEFINE o == Unread(RefAt(w))
  <2>1. o \in Observation /\ o.ref = RefAt(w) /\ o.digest = NoDigest
    BY <1>2 DEF Unread, Observation
  <2>2. Reporting(w, Outcome(IF strict THEN "error" ELSE "failed", o))
    BY <1>8 DEF ObserveFails
  <2> HIDE DEF o
  <2> QED
    BY <1>3, <2>1, <2>2
<1> QED
  BY <1>5, <1>6, <1>7, <1>8

\* Ending a run keeps the observation's invariant.
LEMMA FinishKeeps ==
  ASSUME ObserveInv, Finish
  PROVE  ObserveInv'
<1>1. \A i \in Places : Fresh(i)
  BY AllRead DEF Finish
<1>2. Result \in Seq(Observation)
  BY <1>1, ResultType DEF Finish, Fresh, ObserveInv
<1>3. ObserveTypeOK'
  BY <1>2 DEF Finish, Written, ObserveInv, ObserveTypes, ObserveTypeOK, given,
              bounds, Places
<1>4. WorkersInv'
  BY DEF Finish, ObserveInv, ObserveTypes, ObserveTypeOK, WorkersInv, given, Places
<1> QED
  BY <1>3, <1>4 DEF Finish, ObserveInv, ObserveTypes, RunInv

\* Killing a run keeps the observation's invariant.
LEMMA KillKeeps ==
  ASSUME ObserveInv, Kill
  PROVE  ObserveInv'
<1>1. /\ specs' = <<>> /\ previous' = <<>> /\ Len(specs') = 0 /\ Places' = {}
      /\ outcomes' = <<>>
  BY DEF Kill, Places
<1>2. \A S : <<>> \in Seq(S)
  OBVIOUS
<1>3. specs' \in Seq([id : IDs, ref : Refs]) /\ previous' \in Seq(Observation)
  BY <1>1, <1>2
<1>4. worker' \in [Workers -> [at : 0..Len(specs'),
                               step : {"idle", "digest", "observe"}]]
  BY <1>1 DEF Kill, Idle
<1>5. DOMAIN outcomes' = Places'
  BY <1>1
<1>6. /\ runs' \in 0..MaxRuns /\ moves' \in 0..MaxMoves
      /\ faults' \in 0..MaxFaults /\ next' \in 1..(Len(specs') + 1)
  BY <1>1, BoundsType DEF Kill, Fault, ObserveInv, ObserveTypes, ObserveTypeOK
<1>7. /\ running' \in BOOLEAN /\ strict' \in BOOLEAN
      /\ tag' \in [Refs -> Digests] /\ named' \in [Refs -> SUBSET Digests]
      /\ saved' \in Seq(Observation)
  BY DEF Kill, ObserveInv, ObserveTypes, ObserveTypeOK
<1>8. ObserveTypeOK'
  BY <1>1, <1>3, <1>4, <1>5, <1>6, <1>7 DEF ObserveTypeOK
<1>9. WorkersInv'
  BY DEF Kill, WorkersInv
<1> QED
  BY <1>8, <1>9 DEF Kill, ObserveInv, ObserveTypes, RunInv

\* The observation's invariant holds in every behaviour.
LEMMA ObserveInvariant == ObserveSpec => []ObserveInv
<1>1. ObserveInv /\ [ObserveNext]_observeVars => ObserveInv'
  <2> SUFFICES ASSUME ObserveInv, [ObserveNext]_observeVars PROVE ObserveInv'
    OBVIOUS
  <2>1. ASSUME NEW r \in Refs, Move(r) PROVE ObserveInv'
    BY <2>1, MoveKeeps
  <2>2. CASE StartRun
    BY <2>2, StartRunKeeps
  <2>3. ASSUME NEW w \in Workers, WorkerStep(w) PROVE ObserveInv'
    BY <2>3, TakeKeeps, ReadingKeeps DEF WorkerStep
  <2>4. CASE Finish
    BY <2>4, FinishKeeps
  <2>5. CASE Kill
    BY <2>5, KillKeeps
  <2>6. CASE UNCHANGED observeVars
    <3>1. \A i \in Places : Fresh(i) => Fresh(i)'
      BY <2>6 DEF observeVars, given, Fresh
    <3> QED
      BY <2>6, <3>1
      DEF observeVars, given, bounds, ObserveInv, ObserveTypes, ObserveTypeOK,
          WorkersInv, RunInv, Places
  <2> QED
    BY <2>1, <2>2, <2>3, <2>4, <2>5, <2>6 DEF ObserveNext
<1> QED
  BY <1>1, ObserveInitially, PTL DEF ObserveSpec

\* Every variable of the runs has its type.
THEOREM ObservationTypes == ObserveSpec => []ObserveTypeOK
<1>1. ObserveInv => ObserveTypeOK
  BY DEF ObserveInv, ObserveTypes
<1> QED
  BY <1>1, ObserveInvariant, PTL

\* What a run writes is one observation of each image, in the inventory's
\* order and none older than the run, for any number of workers, however they
\* interleave with tags that move and requests that fail.
THEOREM WrittenIsObserved == ObserveSpec => ObservedInThisRun
<1>1. ObserveInv /\ Writes =>
         /\ Len(saved') = Len(specs)
         /\ \A i \in Places :
               /\ saved'[i].ref = specs[i].ref
               /\ saved'[i].digest \in named[saved'[i].ref] \cup {NoDigest}
               /\ strict /\ saved' # saved => saved'[i].digest # NoDigest
  <2> SUFFICES ASSUME ObserveInv, Writes
               PROVE  /\ Len(saved') = Len(specs)
                      /\ \A i \in Places :
                            /\ saved'[i].ref = specs[i].ref
                            /\ saved'[i].digest \in
                                  named[saved'[i].ref] \cup {NoDigest}
                            /\ strict /\ saved' # saved =>
                                  saved'[i].digest # NoDigest
    OBVIOUS
  <2>1. saved' = Result /\ Finish /\ Len(specs) \in Nat
    BY RefsAreRefs DEF Writes, ObserveInv
  <2>2. Len(saved') = Len(specs)
    BY <2>1 DEF Result, Places
  <2>3. ASSUME NEW i \in Places
        PROVE  /\ Result[i].ref = outcomes[i].observation.ref
               /\ Result[i].digest = outcomes[i].observation.digest
    <3>1. outcomes[i].observation \in Observation
      BY <2>1, AllRead
      DEF Fresh, Finish, ObserveInv, ObserveTypes, ObserveTypeOK
    <3>2. Result[i] = LET o == outcomes[i].observation
                      IN  IF o.id = NoID THEN [o EXCEPT !.id = specs[i].id] ELSE o
      BY DEF Result
    <3> QED
      BY <3>1, <3>2 DEF Observation
  <2>4. \A i \in Places : Fresh(i)
    BY <2>1, AllRead DEF Finish
  <2>5. saved' # saved => \A i \in Places : outcomes[i].kind # "error"
    BY <2>1 DEF Finish, Written
  <2> QED
    BY <2>1, <2>2, <2>3, <2>4, <2>5 DEF Fresh
<1> QED
  BY <1>1, ObserveInvariant, PTL DEF ObserveSpec, ObservedInThisRun

-----------------------------------------------------------------------------
(* Verdicts.                                                               *)

\* The most concerning of some statuses is one of them, and none of them
\* concerns more.
LEMMA WorstIsWorst ==
  ASSUME NEW statuses, statuses # {},
         statuses \subseteq {"verified", "present", "unknown", "missing", "failed"}
  PROVE  \E i \in 1..5 : /\ Worst(statuses) = Concern[i] /\ Concern[i] \in statuses
                         /\ \A j \in 1..5 : Concern[j] \in statuses => j <= i
<1> DEFINE T == {i \in 1..5 : Concern[i] \in statuses}
<1>1. DOMAIN Concern = 1..5
  BY DEF Concern
<1>2. T # {}
  <2>1. PICK s \in statuses : TRUE
    OBVIOUS
  <2>2. \/ s = Concern[1] \/ s = Concern[2] \/ s = Concern[3] \/ s = Concern[4]
        \/ s = Concern[5]
    BY DEF Concern
  <2> QED
    BY <2>1, <2>2
<1>3. PICK i \in T : \A j \in T : j <= i
  BY <1>2, GreatestExists
<1>4. \E k \in DOMAIN Concern :
         /\ Concern[k] \in statuses
         /\ \A j \in DOMAIN Concern : Concern[j] \in statuses => j <= k
  BY <1>1, <1>3
<1> QED
  BY <1>1, <1>4 DEF Worst

\* The statuses of a kind are taken of the image or of its platform images.
LEMMA LookType ==
  ASSUME NEW list \in Seq(Subjects), NEW kind \in Kinds
  PROVE  /\ Look(kind, list) \in Seq(Subjects) /\ Len(Look(kind, list)) \in Nat \ {0}
         /\ ToSet(Look(kind, list)) # {}
         /\ ToSet(Look(kind, list)) \subseteq {Top} \cup ToSet(list)
         /\ ToSet(Look(kind, list)) \subseteq Subjects
         /\ kind \notin PerPlatform => ToSet(Look(kind, list)) = {Top}
<1>1. <<Top>> \in Seq(Subjects) /\ Len(<<Top>>) = 1 /\ <<Top>>[1] = Top
  BY NamesType
<1>2. ToSet(<<Top>>) = {Top}
  BY <1>1 DEF ToSet
<1>3. list # <<>> => Len(list) \in Nat \ {0} /\ 1 \in DOMAIN list
  OBVIOUS
<1>4. ToSet(list) \subseteq Subjects
  BY DEF ToSet
<1>5. list # <<>> => ToSet(list) # {}
  BY <1>3 DEF ToSet
<1>6. CASE kind \in PerPlatform /\ list # <<>>
  <2>1. Look(kind, list) = list
    BY <1>6 DEF Look
  <2>2. /\ Len(list) \in Nat \ {0} /\ ToSet(list) # {}
        /\ ToSet(list) \subseteq Subjects
    BY <1>3, <1>4, <1>5, <1>6
  <2> QED
    BY <1>6, <2>1, <2>2
<1>7. CASE ~(kind \in PerPlatform /\ list # <<>>)
  <2>1. Look(kind, list) = <<Top>>
    BY <1>7 DEF Look
  <2>2. Look(kind, list) \in Seq(Subjects) /\ Len(Look(kind, list)) \in Nat \ {0}
    BY <1>1, <2>1
  <2>3. ToSet(Look(kind, list)) = {Top}
    BY <1>2, <2>1
  <2> QED
    BY <2>2, <2>3, NamesType
<1> QED
  BY <1>6, <1>7

\* What is said of one kind of evidence of a subject is one of the five
\* statuses.
LEMMA StatusType ==
  ASSUME image \in Images, NEW s \in Subjects, NEW kind \in Kinds, NEW failing
  PROVE  StatusAt(s, kind, failing) \in
            {"verified", "present", "unknown", "missing", "failed"}
<1>1. image.held[s][kind] \in Held
  BY InputsType DEF Image
<1> QED
  BY <1>1 DEF StatusAt, Held

\* The status gathered over the subjects is the status of one of them, and of
\* none of them a worse one.
LEMMA GatheredIsWorst ==
  ASSUME image \in Images, NEW list \in Seq(Subjects), NEW kind \in Kinds,
         NEW failing
  PROVE  \E i \in 1..5 :
            /\ Gathered(kind, list, failing) = Concern[i]
            /\ \E s \in ToSet(Look(kind, list)) : StatusAt(s, kind, failing) = Concern[i]
            /\ \A s \in ToSet(Look(kind, list)), j \in 1..5 :
                  StatusAt(s, kind, failing) = Concern[j] => j <= i
<1> DEFINE st == {StatusAt(s, kind, failing) : s \in ToSet(Look(kind, list))}
<1>1. st # {}
  BY LookType
<1>2. st \subseteq {"verified", "present", "unknown", "missing", "failed"}
  BY LookType, StatusType
<1>3. Gathered(kind, list, failing) = Worst(st)
  BY DEF Gathered
<1> HIDE DEF st
<1>4. PICK i \in 1..5 : /\ Worst(st) = Concern[i] /\ Concern[i] \in st
                        /\ \A j \in 1..5 : Concern[j] \in st => j <= i
  BY <1>1, <1>2, WorstIsWorst
<1> QED
  BY <1>3, <1>4 DEF st

\* A kind is verified only where it was verified on every subject.
LEMMA VerifiedEverywhere ==
  ASSUME image \in Images, NEW list \in Seq(Subjects), NEW kind \in Kinds,
         NEW failing
  PROVE  /\ Gathered(kind, list, failing) \in
               {"verified", "present", "unknown", "missing", "failed"}
         /\ Gathered(kind, list, failing) = "verified" <=>
               \A s \in ToSet(Look(kind, list)) :
                  s \notin failing /\ image.held[s][kind] = "verified"
<1>1. PICK i \in 1..5 :
         /\ Gathered(kind, list, failing) = Concern[i]
         /\ \E s \in ToSet(Look(kind, list)) : StatusAt(s, kind, failing) = Concern[i]
         /\ \A s \in ToSet(Look(kind, list)), j \in 1..5 :
               StatusAt(s, kind, failing) = Concern[j] => j <= i
  BY GatheredIsWorst
<1>2. /\ Concern[1] = "verified" /\ Concern[2] = "present" /\ Concern[3] = "unknown"
      /\ Concern[4] = "missing" /\ Concern[5] = "failed"
  BY DEF Concern
<1>3. \A s \in ToSet(Look(kind, list)) : \E j \in 1..5 :
         StatusAt(s, kind, failing) = Concern[j]
  <2>1. \A s \in ToSet(Look(kind, list)) : s \in Subjects
    BY LookType
  <2> QED
    BY <1>2, <2>1, StatusType
<1>4. Gathered(kind, list, failing) = "verified" <=> i = 1
  BY <1>1, <1>2
<1>5. i = 1 <=> \A s \in ToSet(Look(kind, list)) :
                   StatusAt(s, kind, failing) = "verified"
  BY <1>1, <1>2, <1>3
<1> QED
  BY <1>1, <1>2, <1>4, <1>5 DEF StatusAt

\* What the image itself has of a kind is gathered as it is.
LEMMA OfTheImage ==
  ASSUME image \in Images, NEW list \in Seq(Subjects),
         NEW kind \in Kinds \ PerPlatform, NEW failing
  PROVE  Gathered(kind, list, failing) = StatusAt(Top, kind, failing)
<1>1. ToSet(Look(kind, list)) = {Top}
  BY LookType
<1> QED
  BY <1>1, GatheredIsWorst

\* What the image's evidence amounts to.
LEMMA ItemsAre ==
  ASSUME image \in Images, image.observed, NEW list \in Seq(Subjects), NEW failing,
         NEW kind \in Kinds
  PROVE  /\ Items(list, failing)[kind] = "verified" <=>
               Gathered(kind, list, failing) = "verified"
         /\ Items(list, failing)[kind] \in
               {"verified", "present", "unknown", "missing", "failed", "not-applicable"}
         /\ Items(list, failing)[kind] = "not-applicable" <=>
               \/ kind = "rebase" /\ Gathered("rebase", list, failing) = "missing"
               \/ kind = "recipe" /\ Gathered("recipe", list, failing) = "missing"
                  /\ Gathered("rebase", list, failing) # "missing"
         /\ kind # "tests" /\ Items(list, failing)[kind] # "not-applicable" =>
               Items(list, failing)[kind] = Gathered(kind, list, failing)
<1> DEFINE g == [k \in Kinds |-> Gathered(k, list, failing)]
<1>1. Items(list, failing) = Excused(g, image.smokeTest)
  BY DEF Items
<1>2. /\ g \in [Kinds -> {"verified", "present", "unknown", "missing", "failed"}]
      /\ \A k \in Kinds : g[k] = Gathered(k, list, failing)
  BY VerifiedEverywhere
<1>3. {"rebase", "recipe", "tests"} \subseteq Kinds
  BY DEF Kinds
<1> HIDE DEF g
<1>4. /\ kind \notin {"rebase", "recipe", "tests"} =>
            Excused(g, image.smokeTest)[kind] = g[kind]
      /\ Excused(g, image.smokeTest)["rebase"] =
            IF g["rebase"] = "missing" THEN "not-applicable" ELSE g["rebase"]
      /\ Excused(g, image.smokeTest)["recipe"] =
            IF g["rebase"] # "missing" /\ g["recipe"] = "missing"
            THEN "not-applicable" ELSE g["recipe"]
      /\ Excused(g, image.smokeTest)["tests"] \in {g["tests"], "present"}
      /\ g["tests"] # "missing" =>
            Excused(g, image.smokeTest)["tests"] = g["tests"]
  BY <1>2, <1>3 DEF Excused
<1> QED
  BY <1>1, <1>2, <1>3, <1>4

\* Nothing is decided of an image that was not observed.
LEMMA UnobservedIsUnknown ==
  ASSUME ~image.observed, NEW list, NEW failing, NEW kind \in Kinds
  PROVE  Items(list, failing)[kind] = "unknown"
BY DEF Items

\* The platform images read are among those the image lists.
Among(list) == list \in Seq(Subjects) /\ ToSet(list) \subseteq ToSet(image.children)

\* If scans are verified wherever they belong and read, each platform's counts,
\* unless another of its name overwrites it, and no two that count share a name.
LEMMA ScansOfAll ==
  ASSUME image \in Images, image.observed, Among(listed), NEW failing,
         Gathered("scan", listed, failing) = "verified",
         VerifiedScans(listed, failing) # {}
  PROVE  /\ VerifiedScans(listed, failing) \subseteq ToSet(Look("scan", listed))
         /\ \A s \in ToSet(Look("scan", listed)) :
               image.scan[s].readable /\ (s \in VerifiedScans(listed, failing) \/ Overwritten(s))
         /\ \A s, t \in VerifiedScans(listed, failing) : NameOf[s] = NameOf[t] => s = t
<1> DEFINE look == Look("scan", listed)
           verified == {i \in DOMAIN look :
                           StatusAt(look[i], "scan", failing) = "verified"}
           readable == {i \in verified : image.scan[look[i]].readable}
           kept == {j \in readable : \A k \in readable :
                       NameOf[look[k]] = NameOf[look[j]] => k <= j}
<1>1. "scan" \in Kinds
  BY DEF Kinds, PerPlatform
<1>2. look \in Seq(Subjects) /\ DOMAIN look = 1..Len(look) /\ Len(look) \in Nat
  BY <1>1, LookType DEF Among
<1>3. verified = DOMAIN look
  BY <1>1, VerifiedEverywhere DEF StatusAt, Among, ToSet
<1>4. VerifiedScans(listed, failing) = IF ~image.observed \/ readable # verified THEN {}
                                       ELSE {look[i] : i \in kept}
  BY DEF VerifiedScans
<1>5. readable = DOMAIN look /\ VerifiedScans(listed, failing) = {look[i] : i \in kept}
  BY <1>3, <1>4
<1>6. \A i \in DOMAIN look : image.scan[look[i]].readable
  BY <1>5
<1>7. ASSUME NEW i \in DOMAIN look
      PROVE  \E j \in kept : i <= j /\ NameOf[look[j]] = NameOf[look[i]]
  <2> DEFINE T == {j \in readable : NameOf[look[j]] = NameOf[look[i]]}
  <2>1. i \in T /\ T \in SUBSET (1..Len(look))
    BY <1>2, <1>5
  <2>2. PICK j \in T : \A k \in T : k <= j
    BY <1>2, <2>1, GreatestExists
  <2>3. j \in kept
    BY <2>2
  <2> QED
    BY <2>1, <2>2, <2>3
<1>8. ToSet(look) = {look[i] : i \in DOMAIN look}
  BY DEF ToSet
<1>9. kept \subseteq DOMAIN look
  BY <1>5
<1>10. \A j, k \in kept : NameOf[look[j]] = NameOf[look[k]] => j = k
  BY <1>2, <1>5
<1> HIDE DEF kept, readable, verified
<1>11. ASSUME NEW s \in ToSet(look)
       PROVE  /\ image.scan[s].readable
              /\ s \in VerifiedScans(listed, failing) \/ Overwritten(s)
  <2>1. PICK i \in DOMAIN look : s = look[i]
    BY <1>8
  <2>2. PICK j \in kept : i <= j /\ NameOf[look[j]] = NameOf[look[i]]
    BY <1>7
  <2>3. CASE look[j] = s
    BY <1>5, <1>6, <2>1, <2>3
  <2>4. CASE look[j] # s
    <3>1. i < j /\ j \in DOMAIN look
      BY <1>2, <1>9, <2>1, <2>2, <2>4
    <3>2. Overwritten(s)
      BY <2>1, <2>2, <2>4, <3>1 DEF Overwritten
    <3> QED
      BY <1>6, <2>1, <3>2
  <2> QED
    BY <2>3, <2>4
<1>12. ASSUME NEW s \in VerifiedScans(listed, failing),
              NEW t \in VerifiedScans(listed, failing), NameOf[s] = NameOf[t]
       PROVE  s = t
  BY <1>5, <1>10, <1>12
<1> QED
  BY <1>5, <1>8, <1>9, <1>11, <1>12 DEF look

\* Where the scan evidence is verified, every scan looked at was read, and
\* what it found and when it was made count in the verdict, with the gaps that
\* ScansAreClean names.
LEMMA CleanScans ==
  ASSUME image \in Images, image.observed, policy \in Policies, Among(listed),
         NEW failing, Gathered("scan", listed, failing) = "verified",
         VerifiedScans(listed, failing) # {}, NEW s \in ToSet(Look("scan", listed))
  PROVE  /\ s \notin failing /\ image.held[s]["scan"] = "verified"
         /\ image.scan[s].readable
         /\ image.scan[s].found /\ ~image.scan[s].suppressed =>
               \/ Counts(VerifiedScans(listed, failing))
               \/ policy.onlyFixed /\ (~image.scan[s].fixed \/ FixUnknownBefore(s))
               \/ Overwritten(s)
         /\ ScannedAt(VerifiedScans(listed, failing)) = "recent" =>
               image.scan[s].at = "recent" \/ Overwritten(s)
<1> DEFINE scans == VerifiedScans(listed, failing)
<1>1. "scan" \in Kinds /\ listed \in Seq(Subjects)
  BY DEF Kinds, PerPlatform, Among
<1>2. s \notin failing /\ image.held[s]["scan"] = "verified" /\ s \in Subjects
  BY <1>1, VerifiedEverywhere, LookType
<1>3. /\ scans \subseteq ToSet(Look("scan", listed)) /\ image.scan[s].readable
      /\ s \in scans \/ Overwritten(s)
      /\ \A u, v \in scans : NameOf[u] = NameOf[v] => u = v
  BY ScansOfAll
<1>5. scans \subseteq Subjects
  BY <1>1, <1>3, LookType
<1>6. \A u \in Subjects : image.scan[u] \in Scan /\ NameOf[u] \in Nat
  BY NamesType, InputsType DEF Image
<1> HIDE DEF scans
<1>8. ASSUME image.scan[s].found, ~image.scan[s].suppressed, s \in scans,
             policy.onlyFixed => image.scan[s].fixed /\ ~FixUnknownBefore(s)
      PROVE  Counts(scans)
  <2> DEFINE found == {u \in scans : image.scan[u].found}
             names == {NameOf[u] : u \in found}
  <2>1. s \in found /\ ~image.scan[s].suppressed
    BY <1>8
  <2>2. names \in SUBSET Nat /\ names # {}
    BY <1>5, <1>6, <2>1
  <2>3. PICK n \in names : \A m \in names : n <= m
    BY <2>2, LeastExists
  <2>4. PICK u \in found : NameOf[u] = n
    BY <2>3
  <2>5. \A v \in found : NameOf[u] <= NameOf[v]
    BY <2>3, <2>4
  <2>6. policy.onlyFixed => image.scan[u].fixed
    <3>1. CASE u = s
      BY <1>8, <3>1
    <3>2. CASE u # s
      <4>1. NameOf[u] < NameOf[s]
        BY <1>3, <1>5, <1>6, <2>1, <2>5, <3>2
      <4>2. u \in ToSet(Look("scan", listed)) /\ image.scan[u].found
        BY <1>3
      <4> QED
        BY <1>8, <4>1, <4>2 DEF FixUnknownBefore
    <3> QED
      BY <3>1, <3>2
  <2> QED
    BY <2>1, <2>4, <2>5, <2>6 DEF Counts
<1>9. ASSUME ScannedAt(scans) = "recent", s \in scans PROVE image.scan[s].at = "recent"
  <2>1. image.scan[s].at \in {"recent", "old", "unknown"}
    BY <1>2, <1>6 DEF Scan
  <2> QED
    BY <1>9, <2>1 DEF ScannedAt
<1> QED
  BY <1>2, <1>3, <1>8, <1>9 DEF scans

VerdictFollows ==
    verdict = IF phase = "done"
              THEN VerdictAt(Items(listed, unread), VerifiedScans(listed, unread))
              ELSE "none"

\* What the verdict rests on: the platform images read are the first of the
\* image's, all of them if no read failed, and the verdict is that of the
\* evidence found on them.
VerdictInv ==
    /\ image \in Images /\ policy \in Policies
    /\ listed \in Seq(Subjects) /\ Len(listed) <= Len(image.children)
    /\ \A i \in 1..Len(listed) : listed[i] = image.children[i]
    /\ phase = "list" => listed = <<>>
    /\ phase = "children" => Len(listed) < Len(image.children)
    /\ phase \in {"discover", "done"} /\ listFaults = 0 /\ image.observed =>
          listed = image.children
    /\ ~image.observed => phase # "children"
    /\ listFaults \in Nat
    /\ VerdictFollows

\* What is listed is among the subjects of the image.
LEMMA ReadIsListed ==
  ASSUME VerdictInv
  PROVE  Among(listed) /\ image.children \in Seq(Subjects)
<1>1. image.children \in Seq(Subjects)
  BY InputsType DEF VerdictInv, Image
<1>2. Len(listed) \in Nat /\ Len(image.children) \in Nat
      /\ DOMAIN listed = 1..Len(listed)
      /\ DOMAIN image.children = 1..Len(image.children)
  BY <1>1 DEF VerdictInv
<1> QED
  BY <1>1, <1>2 DEF VerdictInv, Among, ToSet

\* The verdict is decided by the image, the policy and what was listed and
\* read.
LEMMA VerdictStays ==
  ASSUME UNCHANGED <<image, policy, listed, unread>>
  PROVE  VerdictAt(Items(listed, unread), VerifiedScans(listed, unread))' =
            VerdictAt(Items(listed, unread), VerifiedScans(listed, unread))
<1>1. /\ Items(listed, unread)' = Items(listed, unread)
      /\ VerifiedScans(listed, unread)' = VerifiedScans(listed, unread)
  BY DEF Items, VerifiedScans, Gathered, StatusAt
<1>2. ASSUME NEW items, NEW scans
      PROVE  VerdictAt(items, scans)' = VerdictAt(items, scans)
  <2>1. Counts(scans)' <=> Counts(scans)
    BY DEF Counts
  <2>2. ScannedAt(scans)' = ScannedAt(scans)
    BY DEF ScannedAt
  <2>3. Reproduced(items)' = Reproduced(items)
    BY DEF Reproduced
  <2>4. FailedBy(items, scans)' <=> FailedBy(items, scans)
    BY <2>1, <2>3 DEF FailedBy
  <2>5. UndecidedBy(items, scans)' <=> UndecidedBy(items, scans)
    BY <2>2, <2>3 DEF UndecidedBy
  <2> QED
    BY <2>4, <2>5 DEF VerdictAt
<1> QED
  BY <1>1, <1>2

\* The verdict's invariant holds in every behaviour.
LEMMA VerdictInvariant == Spec => []VerdictInv
<1>1. Init => VerdictInv
  <2> SUFFICES ASSUME Init PROVE VerdictInv
    OBVIOUS
  <2>1. listed = <<>> /\ Len(listed) = 0 /\ listed \in Seq(Subjects)
    BY DEF Init
  <2>2. image.children \in Seq(Subjects)
    BY InputsType DEF Init, Image
  <2> QED
    BY <2>1, <2>2 DEF Init, VerdictInv, VerdictFollows
<1>2. VerdictInv /\ [Next]_vars => VerdictInv'
  <2> SUFFICES ASSUME VerdictInv, [Next]_vars PROVE VerdictInv'
    OBVIOUS
  <2>1. image.children \in Seq(Subjects) /\ Len(image.children) \in Nat
        /\ Len(listed) \in Nat
    BY ReadIsListed DEF VerdictInv
  <2>2. CASE Unobserved
    BY <2>2 DEF Unobserved, VerdictInv, VerdictFollows, readFaults
  <2>3. CASE GetImage
    <3>1. CASE image.children \in {<<>>, <<Top>>}
      <4>1. /\ listed' = image.children /\ phase' = "discover"
            /\ UNCHANGED <<image, policy, unread, item, verdict, readFaults>>
            /\ phase = "list"
        BY <2>3, <3>1 DEF GetImage, DiscoverFrom
      <4> QED
        BY <2>1, <4>1 DEF VerdictInv, VerdictFollows, readFaults
    <3>2. CASE image.children \notin {<<>>, <<Top>>}
      <4>1. /\ listed' = listed /\ phase' = "children" /\ image.observed
            /\ UNCHANGED <<image, policy, unread, item, verdict, readFaults>>
            /\ phase = "list"
        BY <2>3, <3>2 DEF GetImage
      <4>2. Len(image.children) # 0 /\ Len(listed) = 0
        BY <2>1, <3>2, <4>1 DEF VerdictInv
      <4> QED
        BY <2>1, <4>1, <4>2 DEF VerdictInv, VerdictFollows, readFaults
    <3> QED
      BY <3>1, <3>2
  <2>4. CASE GetImageFails \/ ReadChildFails
    <3>1. /\ phase' = "discover" /\ phase \in {"list", "children"}
          /\ listFaults' = listFaults + 1
          /\ UNCHANGED <<image, policy, listed, unread, item, verdict>>
      BY <2>4 DEF GetImageFails, ReadChildFails, DiscoverFrom, ListFault
    <3> QED
      BY <2>1, <3>1 DEF VerdictInv, VerdictFollows
  <2>5. CASE ReadChild
    <3>1. /\ phase = "children"
          /\ listed' = Append(listed, image.children[Len(listed) + 1])
          /\ phase' = IF listed' = image.children THEN "discover" ELSE phase
          /\ UNCHANGED <<image, policy, unread, item, verdict, readFaults>>
      BY <2>5 DEF ReadChild, DiscoverFrom
    <3>2. Len(listed) < Len(image.children) /\ listed \in Seq(Subjects)
      BY <3>1 DEF VerdictInv
    <3>3. image.children[Len(listed) + 1] \in Subjects
      BY <2>1, <3>2, ElementOfSeq
    <3>4. listed' \in Seq(Subjects) /\ Len(listed') = Len(listed) + 1
      BY <3>1, <3>2, <3>3
    <3>5. ASSUME NEW i \in 1..Len(listed') PROVE listed'[i] = image.children[i]
      BY <2>1, <3>1, <3>2, <3>3, <3>4 DEF VerdictInv
    <3>6. Len(listed') = Len(image.children) => listed' = image.children
      BY <2>1, <3>4, <3>5
    <3> QED
      BY <2>1, <3>1, <3>2, <3>4, <3>5, <3>6 DEF VerdictInv, VerdictFollows, readFaults
  <2>6. CASE Discover
    BY <2>6 DEF Discover, VerdictInv, VerdictFollows, readFaults
  <2>7. CASE DiscoverFails
    BY <2>7 DEF DiscoverFails, VerdictInv, VerdictFollows
  <2>8. CASE Decide
    <3>1. /\ phase = "discover" /\ phase' = "done"
          /\ verdict' = VerdictAt(Items(listed, unread), VerifiedScans(listed, unread))
          /\ UNCHANGED <<image, policy, listed, unread, readFaults>>
      BY <2>8 DEF Decide
    <3>2. VerdictFollows'
      BY <3>1, VerdictStays DEF VerdictFollows
    <3> QED
      BY <3>1, <3>2 DEF VerdictInv, readFaults
  <2>9. CASE UNCHANGED vars
    <3>1. VerdictFollows'
      BY <2>9, VerdictStays DEF vars, VerdictInv, VerdictFollows
    <3> QED
      BY <2>9, <3>1 DEF vars, VerdictInv, readFaults
  <2> QED
    BY <2>2, <2>3, <2>4, <2>5, <2>6, <2>7, <2>8, <2>9 DEF Next
<1> QED
  BY <1>1, <1>2, PTL DEF Spec

\* A required kind that does not keep an image from being verified was verified
\* wherever it belongs, or is one an image made the other way cannot have.
LEMMA RequiredIsVerified ==
  ASSUME image \in Images, image.observed, NEW list \in Seq(Subjects), NEW failing,
         NEW kind \in Kinds,
         Items(list, failing)[kind] \in {"verified", "not-applicable"}
  PROVE  \/ \A s \in ToSet(Look(kind, list)) : image.held[s][kind] = "verified"
         \/ kind = "rebase" /\ image.held[Top]["rebase"] = "missing"
         \/ /\ kind = "recipe" /\ image.held[Top]["recipe"] = "missing"
            /\ RebaseSaysSo \/ RebaseUntrusted
<1>1. {"rebase", "recipe"} \subseteq Kinds \ PerPlatform
  BY DEF Kinds, PerPlatform
<1>2. /\ Gathered("rebase", list, failing) = StatusAt(Top, "rebase", failing)
      /\ Gathered("recipe", list, failing) = StatusAt(Top, "recipe", failing)
  BY <1>1, OfTheImage
<1>3. CASE Items(list, failing)[kind] = "verified"
  BY <1>3, ItemsAre, VerifiedEverywhere
<1>4. CASE Items(list, failing)[kind] = "not-applicable"
  <2>1. \/ kind = "rebase" /\ StatusAt(Top, "rebase", failing) = "missing"
        \/ /\ kind = "recipe" /\ StatusAt(Top, "recipe", failing) = "missing"
           /\ StatusAt(Top, "rebase", failing) # "missing"
    BY <1>2, <1>4, ItemsAre
  <2>2. image.held[Top]["rebase"] \in Held
    <3>1. image.held \in [Subjects -> [Kinds -> Held]]
      BY InputsType DEF Image
    <3> QED
      BY <1>1, <3>1, NamesType
  <2> QED
    BY <2>1, <2>2 DEF StatusAt, Held, RebaseSaysSo, RebaseUntrusted
<1> QED
  BY <1>3, <1>4

\* What a reproduction that is not held against an image rests on.
LEMMA ReproducedRests ==
  ASSUME image \in Images, image.observed, NEW list \in Seq(Subjects), NEW failing,
         Reproduced(Items(list, failing)) \notin {"not-reproduced", "not-checked"},
         Top \notin failing
  PROVE  \/ \A k \in {"recipe", "rebase"} : image.held[Top][k] = "missing"
         \/ image.rebuild = "reproduced"
         \/ /\ image.attested # "none"
            /\ image.held[Top][image.attested] = "verified"
<1> DEFINE items == Items(list, failing)
           attached == {k \in {"recipe", "rebase"} :
                           items[k] \in {"verified", "present", "failed"}}
<1>1. {"rebase", "recipe"} \subseteq Kinds \ PerPlatform
  BY DEF Kinds, PerPlatform
<1>2. \A k \in {"recipe", "rebase"} :
         /\ Gathered(k, list, failing) = image.held[Top][k]
         /\ image.held[Top][k] \in Held
  <2> SUFFICES ASSUME NEW k \in {"recipe", "rebase"}
               PROVE  /\ Gathered(k, list, failing) = image.held[Top][k]
                      /\ image.held[Top][k] \in Held
    OBVIOUS
  <2>1. k \in Kinds \ PerPlatform
    BY <1>1
  <2>2. Gathered(k, list, failing) = StatusAt(Top, k, failing)
    BY <2>1, OfTheImage
  <2>3. StatusAt(Top, k, failing) = image.held[Top][k]
    BY DEF StatusAt
  <2>4. image.held \in [Subjects -> [Kinds -> Held]]
    BY InputsType DEF Image
  <2> QED
    BY <2>1, <2>2, <2>3, <2>4, NamesType
<1>3. \A k \in {"recipe", "rebase"} :
         items[k] = "verified" <=> image.held[Top][k] = "verified"
  BY <1>1, <1>2, ItemsAre
<1>4. \A k \in {"recipe", "rebase"} :
         items[k] # "not-applicable" => items[k] = image.held[Top][k]
  BY <1>1, <1>2, ItemsAre
<1>5. \A k \in {"recipe", "rebase"} :
         items[k] = "not-applicable" => image.held[Top][k] = "missing"
  BY <1>1, <1>2, ItemsAre
<1>6. CASE attached = {}
  BY <1>2, <1>4, <1>5, <1>6 DEF Held
<1>7. CASE \E k \in attached : k = image.attested /\ items[k] = "verified"
  BY <1>3, <1>7
<1>8. CASE attached # {} /\ ~\E k \in attached :
                                k = image.attested /\ items[k] = "verified"
  <2>1. Reproduced(items) \in {"not-checked", image.rebuild}
    BY <1>8 DEF Reproduced
  <2>2. image.rebuild \in {"reproduced", "not-reproduced", "not-checked"}
    BY InputsType DEF Image
  <2> QED
    BY <2>1, <2>2
<1> QED
  BY <1>6, <1>7, <1>8

\* An image is verified only when the policy is met, whatever lookups were
\* refused, on all of its platforms while the list of them could be read, with
\* the gaps that VerifiedMeetsPolicy and ScansAreClean name.
THEOREM VerifiedMeets == Spec => []VerifiedMeetsPolicy
<1>1. VerdictInv => VerifiedMeetsPolicy
  <2> SUFFICES ASSUME VerdictInv, verdict = "verified" PROVE VerifiedMeetsPolicy
    BY DEF VerifiedMeetsPolicy
  <2> DEFINE items == Items(listed, unread)
             scans == VerifiedScans(listed, unread)
  <2>1. verdict = VerdictAt(items, scans)
    BY DEF VerdictInv, VerdictFollows
  <2>2. ~FailedBy(items, scans) /\ ~UndecidedBy(items, scans)
    BY <2>1 DEF VerdictAt
  <2>3. /\ image \in Images /\ policy \in Policies /\ Among(listed)
        /\ listed \in Seq(Subjects)
    BY ReadIsListed DEF VerdictInv
  <2>4. PICK kind \in Kinds : items[kind] = "verified"
    BY <2>2 DEF UndecidedBy
  <2>5. image.observed
    <3>1. image.observed \in BOOLEAN
      BY <2>3, InputsType DEF Image
    <3> QED
      BY <2>4, <3>1, UnobservedIsUnknown
  <2>6. policy.hasSigners
    BY <2>2 DEF UndecidedBy
  <2>7. \E s \in {Top} \cup ToSet(listed), k \in Kinds :
           image.held[s][k] = "verified"
    <3>1. Gathered(kind, listed, unread) = "verified"
      BY <2>3, <2>4, <2>5, ItemsAre
    <3>2. \A s \in ToSet(Look(kind, listed)) : image.held[s][kind] = "verified"
      BY <2>3, <3>1, VerifiedEverywhere
    <3> QED
      BY <2>3, <3>2, LookType
  <2>8. ASSUME NEW k \in policy.required
        PROVE  \/ \A s \in ToSet(Look(k, listed)) : image.held[s][k] = "verified"
               \/ k = "rebase" /\ image.held[Top]["rebase"] = "missing"
               \/ /\ k = "recipe" /\ image.held[Top]["recipe"] = "missing"
                  /\ RebaseSaysSo \/ RebaseUntrusted
    <3>1. k \in Kinds
      BY <2>3, InputsType DEF Policy
    <3>2. items[k] \in {"verified", "not-applicable"}
      <4>1. items[k] \notin {"failed", "missing", "present", "unknown"}
        BY <2>2 DEF FailedBy, UndecidedBy
      <4> QED
        BY <2>3, <2>5, <3>1, <4>1, ItemsAre
    <3> QED
      BY <2>3, <2>5, <3>1, <3>2, RequiredIsVerified
  <2>9. policy.maxDaysBehind => image.base \in {"root", "current"}
    <3>1. image.base \in {"root", "current", "far behind", "undated", "unknown",
                          "none"}
      BY <2>3, InputsType DEF Image
    <3> QED
      BY <2>2, <3>1 DEF FailedBy, UndecidedBy
  <2>10. policy.reproduce /\ Top \notin unread =>
            \/ \A k \in {"recipe", "rebase"} : image.held[Top][k] = "missing"
            \/ image.rebuild = "reproduced"
            \/ /\ image.attested # "none"
               /\ image.held[Top][image.attested] = "verified"
    <3>1. policy.reproduce =>
             Reproduced(items) \notin {"not-reproduced", "not-checked"}
      BY <2>2 DEF FailedBy, UndecidedBy
    <3> QED
      BY <2>3, <2>5, <3>1, ReproducedRests
  <2>11. ScansAreClean
    <3>1. policy.failOn \/ policy.maxScanAge =>
             Gathered("scan", listed, unread) = "verified" /\ scans # {}
      <4>1. policy.failOn \/ policy.maxScanAge =>
               items["scan"] = "verified" /\ scans # {}
        BY <2>2 DEF UndecidedBy
      <4>2. "scan" \in Kinds
        BY DEF Kinds, PerPlatform
      <4> QED
        BY <2>3, <2>5, <4>1, <4>2, ItemsAre
    <3>2. /\ policy.failOn => ~Counts(scans)
          /\ policy.maxScanAge => ScannedAt(scans) = "recent"
      BY <2>2 DEF FailedBy, UndecidedBy
    <3>3. ASSUME NEW s \in ToSet(Look("scan", listed)),
                 policy.failOn \/ policy.maxScanAge
          PROVE  /\ image.held[s]["scan"] = "verified" /\ image.scan[s].readable
                 /\ image.scan[s].found /\ ~image.scan[s].suppressed =>
                       \/ Counts(scans)
                       \/ policy.onlyFixed /\ (~image.scan[s].fixed \/ FixUnknownBefore(s))
                       \/ Overwritten(s)
                 /\ ScannedAt(scans) = "recent" =>
                       image.scan[s].at = "recent" \/ Overwritten(s)
      BY <2>3, <2>5, <3>1, <3>3, CleanScans
    <3> QED
      BY <3>2, <3>3 DEF ScansAreClean
  <2>12. listed = image.children \/ listFaults > 0
    BY <2>5 DEF VerdictInv, VerdictFollows
  <2> QED
    BY <2>6, <2>7, <2>8, <2>9, <2>10, <2>11, <2>12 DEF VerifiedMeetsPolicy
<1> QED
  BY <1>1, VerdictInvariant, PTL

-----------------------------------------------------------------------------
(* Refused lookups: what is gathered when some fail, against what would be  *)
(* gathered when none does.                                                *)

\* A lookup that fails leaves a kind as it is or makes it unknown, unless what
\* remains still fails the image.
LEMMA RefusedGathers ==
  ASSUME image \in Images, NEW list \in Seq(Subjects), NEW kind \in Kinds, NEW failing
  PROVE  Gathered(kind, list, failing) \in {"failed", "missing"} =>
            Gathered(kind, list, {}) \in {"failed", "missing"}
<1>1. PICK i \in 1..5 :
         /\ Gathered(kind, list, failing) = Concern[i]
         /\ \E s \in ToSet(Look(kind, list)) : StatusAt(s, kind, failing) = Concern[i]
  BY GatheredIsWorst
<1>2. PICK j \in 1..5 :
         /\ Gathered(kind, list, {}) = Concern[j]
         /\ \A s \in ToSet(Look(kind, list)), k \in 1..5 :
               StatusAt(s, kind, {}) = Concern[k] => k <= j
  BY GatheredIsWorst
<1>3. /\ Concern[1] = "verified" /\ Concern[2] = "present" /\ Concern[3] = "unknown"
      /\ Concern[4] = "missing" /\ Concern[5] = "failed"
  BY DEF Concern
<1>4. SUFFICES ASSUME i \in {4, 5} PROVE j \in {4, 5}
  BY <1>1, <1>2, <1>3
<1>5. PICK s \in ToSet(Look(kind, list)) : StatusAt(s, kind, failing) = Concern[i]
  BY <1>1
<1>6. StatusAt(s, kind, {}) = Concern[i]
  BY <1>3, <1>4, <1>5 DEF StatusAt
<1>7. i <= j
  BY <1>2, <1>6
<1> QED
  BY <1>4, <1>7

\* The image's own evidence is all there when the lookup of it succeeds ...
LEMMA ItsOwnIsRead ==
  ASSUME image \in Images, image.observed, NEW list \in Seq(Subjects), NEW failing,
         Top \notin failing, NEW kind \in Kinds \ PerPlatform
  PROVE  Items(list, failing)[kind] = Items(list, {})[kind]
<1> DEFINE g(bad) == [k \in Kinds |-> Gathered(k, list, bad)]
<1>1. ASSUME NEW k \in Kinds \ PerPlatform
      PROVE  g(failing)[k] = g({})[k]
  <2>1. /\ Gathered(k, list, failing) = StatusAt(Top, k, failing)
        /\ Gathered(k, list, {}) = StatusAt(Top, k, {})
    BY OfTheImage
  <2> QED
    BY <2>1 DEF StatusAt
<1>2. /\ Items(list, failing) = Excused(g(failing), image.smokeTest)
      /\ Items(list, {}) = Excused(g({}), image.smokeTest)
  BY DEF Items
<1>3. DOMAIN g(failing) = Kinds /\ DOMAIN g({}) = Kinds
  OBVIOUS
<1>4. {"rebase", "recipe", "tests"} \subseteq Kinds \ PerPlatform
  BY DEF Kinds, PerPlatform
<1> HIDE DEF g
<1> QED
  BY <1>1, <1>2, <1>3, <1>4 DEF Excused

\* ... and all unknown when it fails.
LEMMA ItsOwnIsUnknown ==
  ASSUME image \in Images, image.observed, NEW list \in Seq(Subjects), NEW failing,
         Top \in failing, NEW kind \in Kinds \ PerPlatform
  PROVE  Items(list, failing)[kind] = "unknown"
<1> DEFINE g == [k \in Kinds |-> Gathered(k, list, failing)]
<1>1. ASSUME NEW k \in Kinds \ PerPlatform PROVE g[k] = "unknown"
  BY OfTheImage DEF StatusAt
<1>2. Items(list, failing) = Excused(g, image.smokeTest)
  BY DEF Items
<1>3. DOMAIN g = Kinds
  OBVIOUS
<1>4. {"rebase", "recipe", "tests"} \subseteq Kinds \ PerPlatform
  BY DEF Kinds, PerPlatform
<1> HIDE DEF g
<1> QED
  BY <1>1, <1>2, <1>3, <1>4 DEF Excused

\* The scans are those of every platform when none is unknown.
LEMMA ScansAreRead ==
  ASSUME image \in Images, image.observed, NEW list \in Seq(Subjects), NEW failing,
         Gathered("scan", list, failing) = "verified"
  PROVE  VerifiedScans(list, failing) = VerifiedScans(list, {})
<1>1. "scan" \in Kinds
  BY DEF Kinds, PerPlatform
<1>2. \A i \in DOMAIN Look("scan", list) :
         StatusAt(Look("scan", list)[i], "scan", failing) =
            StatusAt(Look("scan", list)[i], "scan", {})
  BY <1>1, VerifiedEverywhere DEF StatusAt, ToSet
<1> QED
  BY <1>2 DEF VerifiedScans

\* What counts among the verified scans was found by one of them.
LEMMA CountedWasFound ==
  ASSUME image \in Images, NEW list \in Seq(Subjects), NEW failing,
         Counts(VerifiedScans(list, failing))
  PROVE  \E s \in ToSet(Look("scan", list)) \ failing :
            /\ image.held[s]["scan"] = "verified" /\ image.scan[s].readable
            /\ image.scan[s].found /\ ~image.scan[s].suppressed
<1> DEFINE look == Look("scan", list)
           verified == {i \in DOMAIN look :
                           StatusAt(look[i], "scan", failing) = "verified"}
           readable == {i \in verified : image.scan[look[i]].readable}
<1>1. PICK s \in VerifiedScans(list, failing) :
         image.scan[s].found /\ ~image.scan[s].suppressed
  BY DEF Counts
<1>2. PICK i \in readable : s = look[i]
  BY <1>1 DEF VerifiedScans
<1>3. look[i] \in ToSet(look)
  BY <1>2 DEF ToSet
<1> QED
  BY <1>1, <1>2, <1>3 DEF StatusAt

\* With the platforms listed in full, refused lookups decide nothing but what a
\* verified scan decides.
THEOREM RefusalsDecideNothing == Spec => []RefusedDecidesNothing
<1>1. VerdictInv => RefusedDecidesNothing
  <2> SUFFICES ASSUME VerdictInv, listFaults = 0,
                      verdict \in {"verified", "failed"}
               PROVE  /\ verdict = "verified" /\ ~(policy.reproduce /\ Top \in unread) =>
                            VerdictIfRead = "verified"
                      /\ verdict = "failed" =>
                            \/ VerdictIfRead = "failed"
                            \/ /\ policy.failOn
                               /\ \E s \in ToSet(Look("scan", listed)) \ unread :
                                     /\ image.held[s]["scan"] = "verified"
                                     /\ image.scan[s].readable
                                     /\ image.scan[s].found /\ ~image.scan[s].suppressed
    BY DEF RefusedDecidesNothing
  <2> DEFINE list == image.children
             items == Items(listed, unread)
             scans == VerifiedScans(listed, unread)
             itemsIf == Items(list, {})
             scansIf == VerifiedScans(list, {})
  <2>1. verdict = VerdictAt(items, scans) /\ phase = "done"
    BY DEF VerdictInv, VerdictFollows
  <2>2. VerdictIfRead = VerdictAt(itemsIf, scansIf)
    BY DEF VerdictIfRead
  <2>3. /\ image \in Images /\ policy \in Policies
        /\ listed \in Seq(Subjects) /\ list \in Seq(Subjects)
    BY ReadIsListed DEF VerdictInv, Among
  <2>4. CASE ~image.observed
    <3>1. items = itemsIf
      BY <2>4 DEF Items
    <3>2. scans = scansIf
      BY <2>4 DEF VerifiedScans
    <3> QED
      BY <2>1, <2>2, <3>1, <3>2
  <2>5. CASE image.observed
    <3>1. listed = list
      BY <2>1, <2>5 DEF VerdictInv
    <3>2. ASSUME NEW k \in Kinds, items[k] = "verified" PROVE itemsIf[k] = "verified"
      <4>1. Gathered(k, list, unread) = "verified"
        BY <2>3, <2>5, <3>1, <3>2, ItemsAre
      <4>2. Gathered(k, list, {}) = "verified"
        BY <2>3, <4>1, VerifiedEverywhere
      <4> QED
        BY <2>3, <2>5, <4>2, ItemsAre
    <3>3. items["scan"] = "verified" => scans = scansIf
      <4>1. "scan" \in Kinds
        BY DEF Kinds, PerPlatform
      <4>2. items["scan"] = "verified" => Gathered("scan", list, unread) = "verified"
        BY <2>3, <2>5, <3>1, <4>1, ItemsAre
      <4> QED
        BY <2>3, <2>5, <3>1, <4>2, ScansAreRead
    <3>4. ASSUME NEW k \in Kinds \ PerPlatform
          PROVE  IF Top \in unread THEN items[k] = "unknown" ELSE items[k] = itemsIf[k]
      BY <2>3, <2>5, <3>1, ItsOwnIsRead, ItsOwnIsUnknown
    <3>5. {"recipe", "rebase"} \subseteq Kinds \ PerPlatform
      BY DEF Kinds, PerPlatform
    <3>6. Top \notin unread => Reproduced(items) = Reproduced(itemsIf)
      <4>1. Top \notin unread => items["recipe"] = itemsIf["recipe"]
                                 /\ items["rebase"] = itemsIf["rebase"]
        BY <3>4, <3>5
      <4> HIDE DEF items, itemsIf
      <4> QED
        BY <4>1 DEF Reproduced
    <3>7. Top \in unread => Reproduced(items) = "none"
      <4>1. Top \in unread => items["recipe"] = "unknown" /\ items["rebase"] = "unknown"
        BY <3>4, <3>5
      <4> HIDE DEF items
      <4> QED
        BY <4>1 DEF Reproduced
    <3>8. policy.required \subseteq Kinds
      BY <2>3, InputsType DEF Policy
    <3>9. ASSUME NEW k \in Kinds, items[k] \in {"failed", "missing"}
          PROVE  itemsIf[k] \in {"failed", "missing"}
      <4>1. CASE k \in PerPlatform
        <5>1. k \notin {"tests", "rebase", "recipe"}
          BY <4>1 DEF PerPlatform
        <5>2. items[k] = Gathered(k, list, unread) /\ itemsIf[k] = Gathered(k, list, {})
          BY <2>3, <2>5, <3>1, <5>1, ItemsAre
        <5> QED
          BY <2>3, <3>9, <5>2, RefusedGathers
      <4>2. CASE k \notin PerPlatform
        BY <3>4, <3>9, <4>2
      <4> QED
        BY <4>1, <4>2
    <3>10. ASSUME verdict = "verified", ~(policy.reproduce /\ Top \in unread)
           PROVE  VerdictIfRead = "verified"
      <4>1. ~FailedBy(items, scans) /\ ~UndecidedBy(items, scans)
        BY <2>1, <3>10 DEF VerdictAt
      <4>2. ASSUME NEW k \in policy.required
            PROVE  itemsIf[k] \notin {"failed", "missing", "present", "unknown"}
        <5>1. k \in Kinds
          BY <3>8
        <5>2. items[k] \in {"verified", "not-applicable"}
          <6>1. items[k] \notin {"failed", "missing", "present", "unknown"}
            BY <4>1 DEF FailedBy, UndecidedBy
          <6> QED
            BY <2>3, <2>5, <5>1, <6>1, ItemsAre
        <5>3. CASE items[k] = "verified"
          BY <3>2, <5>1, <5>3
        <5>4. CASE items[k] = "not-applicable"
          <6>1. k \in {"recipe", "rebase"}
            BY <2>3, <2>5, <5>1, <5>4, ItemsAre
          <6> QED
            BY <3>4, <3>5, <5>4, <6>1
        <5> QED
          BY <5>2, <5>3, <5>4
      <4>3. \E k \in Kinds : itemsIf[k] = "verified"
        BY <3>2, <4>1 DEF UndecidedBy
      <4>4. policy.failOn \/ policy.maxScanAge =>
               itemsIf["scan"] = "verified" /\ scansIf = scans /\ scans # {}
        <5>1. "scan" \in Kinds
          BY DEF Kinds, PerPlatform
        <5> QED
          BY <3>2, <3>3, <4>1, <5>1 DEF UndecidedBy
      <4>5. policy.reproduce => Reproduced(itemsIf) = Reproduced(items)
        BY <3>6, <3>10
      <4> HIDE DEF items, itemsIf, scans, scansIf
      <4>6. ~FailedBy(itemsIf, scansIf)
        BY <4>1, <4>2, <4>4, <4>5 DEF FailedBy
      <4>7. ~UndecidedBy(itemsIf, scansIf)
        BY <4>1, <4>2, <4>3, <4>4, <4>5 DEF UndecidedBy
      <4> QED
        BY <2>2, <4>6, <4>7 DEF VerdictAt
    <3>11. ASSUME verdict = "failed", ~(policy.failOn /\ Counts(scans))
           PROVE  VerdictIfRead = "failed"
      <4>1. FailedBy(items, scans)
        BY <2>1, <3>11 DEF VerdictAt
      <4>2. CASE \E k \in policy.required : items[k] \in {"failed", "missing"}
        <5>1. FailedBy(itemsIf, scansIf)
          BY <3>8, <3>9, <4>2 DEF FailedBy
        <5> QED
          BY <2>2, <5>1 DEF VerdictAt
      <4>3. CASE policy.maxDaysBehind /\ image.base = "far behind"
        <5>1. FailedBy(itemsIf, scansIf)
          BY <4>3 DEF FailedBy
        <5> QED
          BY <2>2, <5>1 DEF VerdictAt
      <4>4. CASE policy.reproduce /\ Reproduced(items) = "not-reproduced"
        <5>1. Reproduced(itemsIf) = "not-reproduced"
          BY <3>6, <3>7, <4>4
        <5>2. FailedBy(itemsIf, scansIf)
          BY <4>4, <5>1 DEF FailedBy
        <5> QED
          BY <2>2, <5>2 DEF VerdictAt
      <4> QED
        BY <3>11, <4>1, <4>2, <4>3, <4>4 DEF FailedBy
    <3>12. ASSUME Counts(scans)
           PROVE  \E s \in ToSet(Look("scan", listed)) \ unread :
                     /\ image.held[s]["scan"] = "verified" /\ image.scan[s].readable
                     /\ image.scan[s].found /\ ~image.scan[s].suppressed
      BY <2>3, <3>12, CountedWasFound
    <3> QED
      BY <3>10, <3>11, <3>12
  <2>6. image.observed \in BOOLEAN
    BY <2>3, InputsType DEF Image
  <2> QED
    BY <2>4, <2>5, <2>6
<1> QED
  BY <1>1, VerdictInvariant, PTL
=============================================================================
