--------------------------- MODULE ImageObservation ---------------------------
(***************************************************************************)
(* Observing the images of an inventory (estategraph/observe.go,           *)
(* ObserveImages) in one run after another, each given the observations of *)
(* the last (import observe --since).                                      *)
(*                                                                         *)
(* A feeder hands the images, in the order of their IDs, to workers over   *)
(* an unbuffered channel.  A worker carries the last observation of an     *)
(* image forward when a HEAD of its reference names the same manifest, and *)
(* reads the image otherwise.  Tags move while workers read, any request   *)
(* may fail, and a run may be killed.  An observation is the manifest read *)
(* and whether its config and layers could be read as well.                *)
(***************************************************************************)
EXTENDS Naturals, Sequences, FiniteSets, SequencesExt

CONSTANTS
    Workers,            \* opts.Concurrency
    Refs,               \* image references
    Digests,            \* what they may name
    NoDigest,           \* the digest of an image that was not read
    Inventories,        \* the inventories a run may be given
    MaxRuns, MaxMoves, MaxFaults

IDs == UNION {{spec.id : spec \in ToSet(inv)} : inv \in Inventories}
NoID == 0                \* the ID of an observation not given one
Observation ==
    [id : IDs \cup {NoID}, ref : Refs, digest : Digests \cup {NoDigest},
     whole : BOOLEAN]

ASSUME NoDigestIsNone == NoDigest \notin Digests
ASSUME InventoryType ==
    \A inv \in Inventories : inv \in Seq([id : Nat \ {NoID}, ref : Refs])
ASSUME BoundsType == MaxRuns \in Nat /\ MaxMoves \in Nat /\ MaxFaults \in Nat

VARIABLES
    tag,                \* what each reference names
    specs,              \* the images of the run, in the order of their IDs
    previous,           \* the observations the run was given
    strict,             \* opts.Strict
    next,               \* the image the feeder hands out next
    worker,             \* the image each worker is at, 0 if none, and its step
    outcomes,           \* the outcome at each image's place
    saved,              \* the observations the last run that succeeded wrote
    running,
    named,              \* digests each reference named since the run started
    runs, moves, faults

bounds == <<runs, moves, faults>>
given == <<specs, previous, strict>>
observeVars ==
    <<tag, given, next, worker, outcomes, saved, running, named, bounds>>

Idle == [at |-> 0, step |-> "idle"]
NoOutcome == [kind |-> "none"]
Outcome(kind, o) == [kind |-> kind, observation |-> o]
Unread(ref) ==
    [id |-> NoID, ref |-> ref, digest |-> NoDigest, whole |-> FALSE]

\* previous[spec.Image]: of several observations of one reference, the last.
PriorOf(ref) ==
    LET at == {i \in DOMAIN previous : previous[i].ref = ref}
    IN  IF at = {} THEN Unread(ref)
        ELSE previous[CHOOSE i \in at : \A j \in at : j <= i]

Places == 1..Len(specs)
RefAt(w) == specs[worker[w].at].ref
Reporting(w, outcome) ==
    /\ outcomes' = [outcomes EXCEPT ![worker[w].at] = outcome]
    /\ worker' = [worker EXCEPT ![w] = Idle]
Fault == faults < MaxFaults /\ faults' = faults + 1

-----------------------------------------------------------------------------
ObserveInit ==
    /\ tag \in [Refs -> Digests]
    /\ specs = <<>> /\ previous = <<>> /\ outcomes = <<>> /\ saved = <<>>
    /\ next = 1 /\ strict = FALSE
    /\ worker = [w \in Workers |-> Idle]
    /\ running = FALSE
    /\ named = [r \in Refs |-> {}]
    /\ runs = 0 /\ moves = 0 /\ faults = 0

\* Someone pushes another image to the tag.
Move(r) ==
    /\ moves < MaxMoves /\ moves' = moves + 1
    /\ \E d \in Digests \ {tag[r]} : tag' = [tag EXCEPT ![r] = d]
    /\ named' = [named EXCEPT ![r] = @ \cup {tag'[r]}]
    /\ UNCHANGED <<given, next, worker, outcomes, saved, running, runs, faults>>

\* runImportObserve: --since names the file the last run wrote.
Since == saved

\* sort.SliceStable: images of one ID stay in the order they are given in.
StableOrders(inv) ==
    {p \in Bijection(DOMAIN inv, DOMAIN inv) : \A i, j \in DOMAIN inv :
        i < j => \/ inv[p[i]].id < inv[p[j]].id
                 \/ inv[p[i]].id = inv[p[j]].id /\ p[i] < p[j]}

StartRun ==
    /\ ~running /\ runs < MaxRuns
    /\ running' = TRUE /\ runs' = runs + 1
    /\ \E inv \in Inventories : \E p \in StableOrders(inv) :
          specs' = [i \in DOMAIN inv |-> inv[p[i]]]
    /\ previous' = Since
    /\ strict' \in BOOLEAN
    /\ next' = 1
    /\ outcomes' = [i \in 1..Len(specs') |-> NoOutcome]
    /\ named' = [r \in Refs |-> {tag[r]}]
    /\ UNCHANGED <<tag, worker, saved, moves, faults>>

\* A worker that waits receives the next image.
Take(w) ==
    /\ running /\ worker[w] = Idle /\ next \in Places
    /\ next' = next + 1
    /\ worker' = [worker EXCEPT ![w] =
          [at |-> next,
           step |-> IF PriorOf(specs[next].ref).digest = NoDigest
                    THEN "observe" ELSE "digest"]]
    /\ UNCHANGED <<tag, given, outcomes, saved, running, named,
                   bounds>>

\* The HEAD of incremental observation.
CheckDigest(w) ==
    /\ worker[w].step = "digest"
    /\ LET prior == PriorOf(RefAt(w))
       IN  IF tag[RefAt(w)] = prior.digest
           THEN Reporting(w, Outcome("reused", prior))
           ELSE /\ worker' = [worker EXCEPT ![w].step = "observe"]
                /\ UNCHANGED outcomes
    /\ UNCHANGED <<tag, given, next, saved, running, named, bounds>>

TrustsPrior(w) ==                                               \* mutant
    /\ worker[w].step = "digest"
    /\ Fault
    /\ Reporting(w, Outcome("reused", PriorOf(RefAt(w))))
    /\ UNCHANGED <<tag, given, next, saved, running, named, runs,
                   moves>>

\* "A failed or mismatched digest check falls through to a full observation."
CheckDigestFails(w) ==
    /\ worker[w].step = "digest"
    /\ Fault
    /\ worker' = [worker EXCEPT ![w].step = "observe"]
    /\ UNCHANGED <<tag, given, next, outcomes, saved, running, named,
                   runs, moves>>

InCompletionOrder(w, whole) ==                                  \* mutant
    /\ worker[w].step = "observe"
    /\ ~whole => faults < MaxFaults
    /\ faults' = faults + IF whole THEN 0 ELSE 1
    /\ LET done == {i \in Places : outcomes[i] # NoOutcome}
       IN  outcomes' = [outcomes EXCEPT ![Cardinality(done) + 1] =
              Outcome("observed", [Unread(RefAt(w)) EXCEPT
                                      !.digest = tag[RefAt(w)],
                                      !.whole = whole])]
    /\ worker' = [worker EXCEPT ![w] = Idle]
    /\ UNCHANGED <<tag, given, next, saved, running, named, runs,
                   moves>>

\* RegistryObserver.Observe: once the manifest is read, a config or layers
\* that cannot be are a warning.
Observe(w, whole) ==
    /\ worker[w].step = "observe"
    /\ ~whole => faults < MaxFaults
    /\ faults' = faults + IF whole THEN 0 ELSE 1
    /\ Reporting(w, Outcome("observed", [Unread(RefAt(w)) EXCEPT
                                            !.digest = tag[RefAt(w)],
                                            !.whole = whole]))
    /\ UNCHANGED <<tag, given, next, saved, running, named, runs,
                   moves>>

BlocksOnError(w) ==                                             \* mutant
    /\ worker[w].step = "observe"
    /\ Fault
    /\ worker' = [worker EXCEPT ![w].step = "reporting"]
    /\ UNCHANGED <<tag, given, next, outcomes, saved, running, named, runs,
                   moves>>

ObserveFails(w) ==
    /\ worker[w].step = "observe"
    /\ Fault
    /\ Reporting(w, Outcome(IF strict THEN "error" ELSE "failed",
                            Unread(RefAt(w))))
    /\ UNCHANGED <<tag, given, next, saved, running, named, runs,
                   moves>>

\* The result: an observation without an ID gets its image's.
Result ==
    [i \in Places |->
        LET o == outcomes[i].observation
        IN  IF o.id = NoID THEN [o EXCEPT !.id = specs[i].id] ELSE o]

\* runImportObserve: a run that ends with an error writes nothing.
Written == IF \E i \in Places : outcomes[i].kind = "error" THEN saved ELSE Result

ErrorsSkipped ==                                                \* mutant
    /\ running /\ next \notin Places
    /\ \A w \in Workers : worker[w].at = 0
    /\ running' = FALSE
    /\ saved' = Result
    /\ UNCHANGED <<tag, given, next, worker, outcomes, named, bounds>>

\* The channel is closed, the workers have returned, and unless an image
\* failed under --strict the observations are written.
Finish ==
    /\ running /\ next \notin Places
    /\ \A w \in Workers : worker[w].at = 0
    /\ running' = FALSE
    /\ saved' = Written
    /\ UNCHANGED <<tag, given, next, worker, outcomes, named, bounds>>

Kill ==
    /\ running /\ Fault
    /\ running' = FALSE
    /\ worker' = [w \in Workers |-> Idle]
    /\ next' = 1 /\ strict' = FALSE
    /\ specs' = <<>> /\ outcomes' = <<>> /\ previous' = <<>>
    /\ UNCHANGED <<tag, saved, named, runs, moves>>

WorkerStep(w) ==
    \/ Take(w)
    \/ CheckDigest(w) \/ CheckDigestFails(w)
    \/ \E whole \in BOOLEAN : Observe(w, whole)
    \/ ObserveFails(w)

ObserveNext ==
    \/ \E r \in Refs : Move(r)
    \/ StartRun
    \/ \E w \in Workers : WorkerStep(w)
    \/ Finish
    \/ Kill

ObserveSpec == ObserveInit /\ [][ObserveNext]_observeVars

\* Go runs every goroutine that can run, and requests return.
FairObserveSpec ==
    /\ ObserveSpec
    /\ \A w \in Workers : WF_observeVars(WorkerStep(w))
    /\ WF_observeVars(Finish)

-----------------------------------------------------------------------------
(* Properties.                                                             *)

\* Every variable holds a value of its type.
ObserveTypeOK ==
    /\ tag \in [Refs -> Digests]
    /\ specs \in Seq([id : IDs, ref : Refs])
    /\ previous \in Seq(Observation) /\ saved \in Seq(Observation)
    /\ next \in 1..(Len(specs) + 1)
    /\ worker \in [Workers -> [at : 0..Len(specs),
                               step : {"idle", "digest", "observe"}]]
    /\ DOMAIN outcomes = Places
    /\ \A i \in Places : outcomes[i] # NoOutcome =>
          /\ outcomes[i].kind \in {"reused", "observed", "failed", "error"}
          /\ outcomes[i].observation \in Observation
    /\ running \in BOOLEAN /\ strict \in BOOLEAN
    /\ named \in [Refs -> SUBSET Digests]
    /\ runs \in 0..MaxRuns /\ moves \in 0..MaxMoves /\ faults \in 0..MaxFaults

\* A run writes its observations.
Writes == Finish /\ saved' = Result

\* What a run writes has one observation of each image, in the order of the
\* inventory's IDs, whatever order the workers finish in ("Concurrency must
\* not make the snapshot non-deterministic"), and none is stale: the manifest
\* it holds is one its reference named while that run was under way, though it
\* be carried forward from an earlier run and requests fail.  Under --strict a
\* run that could not read an image writes nothing, whatever it was given.
ObservedInThisRun ==
    [][Writes =>
          /\ Len(saved') = Len(specs)
          /\ \A i \in Places :
                /\ saved'[i].ref = specs[i].ref
                /\ saved'[i].digest \in named[saved'[i].ref] \cup {NoDigest}
                /\ strict /\ saved' # saved => saved'[i].digest # NoDigest]_observeVars

\* Every run ends, though images fail: no worker stops while the feeder still
\* has images to hand out.
RunsEnd == running ~> ~running
=============================================================================
