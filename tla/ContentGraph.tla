------------------------------ MODULE ContentGraph -----------------------------
(***************************************************************************)
(* What the images of an inventory have in common (estategraph/sbom.go,    *)
(* packages.go, layergraph.go): the images are observed, SBOMs are fetched *)
(* by concurrent workers for those that record no packages, and then the   *)
(* layers or the packages images share are counted, pairs compared within  *)
(* a budget, and images grouped.                                           *)
(*                                                                         *)
(* Tags go on moving after the inventory was made.  Layers and packages    *)
(* are numbers, sorted as their keys are.                                  *)
(***************************************************************************)
EXTENDS Inventory

CONSTANTS
    LayersOf,           \* of each content
    RecordedIn,         \* packages its config names
    AttachedTo,         \* packages of each SBOM-like attachment, in the order
                        \* they are looked at, a cosign sidecar last
    Scoped,             \* packages whose name starts with @
    Workers,
    Budgets, MinSimilarity, MaxPairs

ASSUME ItemsType ==
    /\ \A c \in Contents : /\ LayersOf[c] \in SUBSET Nat /\ IsFiniteSet(LayersOf[c])
                          /\ RecordedIn[c] \in SUBSET Nat /\ IsFiniteSet(RecordedIn[c])
                          /\ AttachedTo[c] \in Seq(SUBSET Nat)
    /\ \A c \in Contents : \A k \in DOMAIN AttachedTo[c] : IsFiniteSet(AttachedTo[c][k])
ASSUME LimitsType == Budgets \subseteq Nat /\ {MinSimilarity, MaxPairs} \subseteq Nat
\* BuildLayerGraph refuses more than 1.
ASSUME SimilarityIsShare == MinSimilarity <= 100

VARIABLES
    observed,           \* the content each image was read as, or None
    packages,           \* of each image; {} is unknown
    fetch,              \* the step of EnrichWithSBOMs, and its queue
    working,            \* what each worker fetches
    cache, failures,    \* by key
    fetches,            \* how often each key was asked for
    graph               \* the comparison, and what is reported of it

contentVars == <<observed, packages, fetch, working, cache, failures, fetches, graph>>
vars == <<inventoryVars, contentVars>>

Imgs == DOMAIN inventory
-----------------------------------------------------------------------------
(* Observations.                                                           *)

\* An image that cannot be read is observed without a digest.
Observe ==
    /\ scan.step = "imported" /\ fetch.step = "observe"
    /\ \E failing \in SUBSET Imgs :
          /\ IF failing = {} THEN UNCHANGED faults
             ELSE Cardinality(failing) = 1 /\ Fault
          /\ observed' = [n \in Imgs |->
                IF n \in failing THEN None
                ELSE Current(inventory[n].repo, inventory[n].tag)]
    /\ packages' = [n \in Imgs |->
          IF observed'[n] = None THEN {} ELSE RecordedIn[observed'[n]]]
    /\ fetch' = [fetch EXCEPT !.step = "plan"]
    /\ UNCHANGED <<published, scanning, during, changes, working, cache,
                   failures, fetches, graph>>
-----------------------------------------------------------------------------
(* EnrichWithSBOMs.                                                        *)

\* Identical content is fetched once; an image without a digest by its tag.
Key(n) == IF observed[n] = None THEN <<"ref", n>> ELSE <<"digest", observed[n]>>

FetchedByTag(n) == Current(inventory[n].repo, inventory[n].tag) \* mutant

\* DigestRef, and only without one SourceRef.
Fetched(n) == IF observed[n] = None
              THEN Current(inventory[n].repo, inventory[n].tag) ELSE observed[n]

Wanting == {n \in Imgs : packages[n] = {}}
Earlier == {pair \in Wanting \X Wanting : pair[1] < pair[2]}
FirstOfKey(n) == \A m \in Wanting : Key(m) = Key(n) => n <= m

\* PlanSBOMFetch: the requests announced before any is made.
PlannedFetches == Cardinality({Key(n) : n \in Wanting})

QueueEveryJob ==                                                \* mutant
    /\ fetch.step = "plan"
    /\ fetch' = [step |-> IF Wanting = {} THEN "fetched" ELSE "fetch",
                 queue |-> InOrder(Wanting, Earlier), planned |-> PlannedFetches]
    /\ UNCHANGED <<inventoryVars, observed, packages, working, cache, failures,
                   fetches, graph>>
Queue ==
    /\ fetch.step = "plan"
    /\ fetch' = [step |-> IF Wanting = {} THEN "fetched" ELSE "fetch",
                 queue |-> InOrder({n \in Wanting : FirstOfKey(n)}, Earlier),
                 planned |-> PlannedFetches]
    /\ UNCHANGED <<inventoryVars, observed, packages, working, cache, failures,
                   fetches, graph>>

\* Without --fetch-sboms, and for graph layers, nothing is fetched.
FetchNothing ==
    /\ fetch.step = "plan"
    /\ fetch' = [fetch EXCEPT !.step = "fetched"]
    /\ UNCHANGED <<inventoryVars, observed, packages, working, cache, failures,
                   fetches, graph>>

Take(w) ==
    /\ fetch.step = "fetch" /\ fetch.queue # <<>> /\ working[w] = 0
    /\ working' = [working EXCEPT ![w] = Head(fetch.queue)]
    /\ fetch' = [fetch EXCEPT !.queue = Tail(@)]
    /\ fetches' = [k \in DOMAIN fetches \cup {Key(Head(fetch.queue))} |->
          (IF k \in DOMAIN fetches THEN fetches[k] ELSE 0) +
          (IF k = Key(Head(fetch.queue)) THEN 1 ELSE 0)]
    /\ UNCHANGED <<inventoryVars, observed, packages, cache, failures, graph>>

Answers(w, key, found) ==
    /\ IF found = {} THEN failures' = failures \cup {key} /\ UNCHANGED cache
       ELSE /\ cache' = [k \in DOMAIN cache \cup {key} |->
                            IF k = key THEN found ELSE cache[k]]
            /\ UNCHANGED failures
    /\ working' = [working EXCEPT ![w] = 0]
    /\ UNCHANGED <<published, scanning, during, changes, observed, packages,
                   fetch, fetches, graph>>

\* FetchSBOM: the first attachment of a type an SBOM may have, and the next
\* when one cannot be read.  The first may be an attestation of another kind,
\* in which no packages are found.
Fetch(w) ==
    /\ working[w] # 0 /\ Fetched(working[w]) # None
    /\ LET attached == AttachedTo[Fetched(working[w])]
       IN  \/ /\ attached = <<>> /\ UNCHANGED faults
              /\ Answers(w, Key(working[w]), {})
           \/ \E k \in DOMAIN attached :
                 /\ IF k = 1 THEN UNCHANGED faults ELSE Fault
                 /\ Answers(w, Key(working[w]), attached[k])
FetchFails(w) ==
    /\ working[w] # 0
    /\ IF Fetched(working[w]) = None THEN UNCHANGED faults ELSE Fault
    /\ Answers(w, Key(working[w]), {})

\* withSBOMPackages, ExtractPackages: packages are written into a line of the
\* image's history and read back; a name before the first @ is needed.
ReadBack(found) == found \ Scoped

Applied(n) == IF Key(n) \in DOMAIN cache THEN ReadBack(cache[Key(n)]) ELSE {}
FoldIn ==
    /\ fetch.step = "fetch" /\ fetch.queue = <<>>
    /\ \A w \in Workers : working[w] = 0
    /\ packages' = [n \in Imgs |-> IF n \in Wanting THEN Applied(n) ELSE packages[n]]
    /\ fetch' = [fetch EXCEPT !.step = "fetched"]
    /\ UNCHANGED <<inventoryVars, observed, working, cache, failures, fetches, graph>>
-----------------------------------------------------------------------------
(* BuildLayerGraph and BuildPackageGraph.                                  *)

\* indexObservations: every image is in the layer graph, and in the package
\* graph those whose packages are known.
Sets(view) ==
    IF view = "packages"
    THEN [n \in {m \in Imgs : packages[m] # {}} |-> packages[n]]
    ELSE [n \in Imgs |-> IF observed[n] = None THEN {} ELSE LayersOf[observed[n]]]

\* groupIdenticalImages; images without layers are in no group.
Identical(sets) ==
    {g \in {{n \in DOMAIN sets : sets[n] = sets[m]} : m \in DOMAIN sets} :
        Cardinality(g) > 1 /\ \A n \in g : sets[n] # {}}

Build(view, budget) ==
    /\ fetch.step = "fetched" /\ graph.step = "idle"
    /\ graph' = [graph EXCEPT !.step = "compare", !.view = view,
            !.budget = budget, !.sets = Sets(view),
            !.identical = IF view = "layers" THEN Identical(Sets(view)) ELSE {},
            !.todo = UNION {Sets(view)[n] : n \in DOMAIN Sets(view)}]
    /\ UNCHANGED <<inventoryVars, observed, packages, fetch, working, cache,
                   failures, fetches>>

Carriers(item) == {n \in DOMAIN graph.sets : item \in graph.sets[n]}
PairsOf(images) == {p \in SUBSET images : Cardinality(p) = 2}
Overlap(p) == Cardinality({x \in graph.counted : p \subseteq Carriers(x)})
Overlapping == {p \in PairsOf(DOMAIN graph.sets) : Overlap(p) > 0}

ByKey(x, y) == x < y                                            \* mutant

\* Narrowest first, and by key among equals.
Before(x, y) == \/ Cardinality(Carriers(x)) < Cardinality(Carriers(y))
                \/ Cardinality(Carriers(x)) = Cardinality(Carriers(y)) /\ x < y

\* What an item adds to the pairs is counted before any is entered, those
\* that are there already included.
Fits(x) ==
    LET n == Cardinality(Carriers(x))
    IN  n > 1 => Cardinality(Overlapping) + (n * (n - 1)) \div 2 <= graph.budget

CompareItem ==
    /\ graph.step = "compare" /\ graph.todo # {}
    /\ LET x == CHOOSE x \in graph.todo :
                  \A y \in graph.todo \ {x} : Before(x, y)
       IN  graph' = [graph EXCEPT !.todo = @ \ {x},
                !.counted = IF Fits(x) THEN @ \cup {x} ELSE @,
                !.excluded = IF Fits(x) THEN @ ELSE @ \cup {x}]
    /\ UNCHANGED <<inventoryVars, observed, packages, fetch, working, cache,
                   failures, fetches>>

WholeSize(n) == Cardinality(graph.sets[n])                      \* mutant

\* effectiveSize, round2: in percent, rounded.
Effective(n) == Cardinality(graph.sets[n] \ graph.excluded)
Percent(part, whole) == (200 * part + whole) \div (2 * whole)

\* A pair's images are named in the order of their references.
A(p) == CHOOSE n \in p : \A m \in p \ {n} : RefBefore(inventory[n], inventory[m])
B(p) == CHOOSE n \in p : n # A(p)

Jaccard(p) ==
    LET union == Effective(A(p)) + Effective(B(p)) - Overlap(p)
    IN  IF union > 0 THEN Percent(Overlap(p), union) ELSE 0

\* Closest first, then, between layers, those that share more.
Closer(p, q) ==
    \/ Jaccard(p) > Jaccard(q)
    \/ /\ Jaccard(p) = Jaccard(q)
       /\ \/ graph.view = "layers" /\ Overlap(p) > Overlap(q)
          \/ /\ graph.view = "layers" => Overlap(p) = Overlap(q)
             /\ \/ RefBefore(inventory[A(p)], inventory[A(q)])
                \/ A(p) = A(q) /\ RefBefore(inventory[B(p)], inventory[B(q)])
Pairs ==
    LET close == {p \in Overlapping : Jaccard(p) >= MinSimilarity}
    IN  InOrder(close, {pair \in close \X close : Closer(pair[1], pair[2])})

\* clusterImages: union-find over the pairs.
Root(parent, n) == LET up[m \in Imgs] == IF parent[m] = m THEN m ELSE up[parent[m]]
                   IN  up[n]
JoinsWithoutRoot(p, parent) ==                                  \* mutant
    [parent EXCEPT ![A(p)] = Root(parent, B(p))]
Joined(p, parent) ==
    LET a == Root(parent, A(p)) b == Root(parent, B(p))
    IN  [parent EXCEPT ![a] = b]
Clusters(pairs) ==
    LET parents[k \in 0..Len(pairs)] ==
            IF k = 0 THEN [n \in Imgs |-> n] ELSE Joined(pairs[k], parents[k - 1])
        parent == parents[Len(pairs)]
        groups == {{n \in Imgs : Root(parent, n) = r} : r \in Imgs}
    IN  {g \in groups : Cardinality(g) > 1}

Capped(pairs) == SubSeq(pairs, 1, Min({MaxPairs, Len(pairs)}))

ClustersAfterCap ==                                             \* mutant
    /\ graph.step = "compare" /\ graph.todo = {}
    /\ graph' = [graph EXCEPT !.step = "done", !.pairs = Capped(Pairs),
            !.clusters = IF graph.view = "layers" THEN Clusters(Capped(Pairs)) ELSE {}]
    /\ UNCHANGED <<inventoryVars, observed, packages, fetch, working, cache,
                   failures, fetches>>
Report ==
    /\ graph.step = "compare" /\ graph.todo = {}
    /\ graph' = [graph EXCEPT !.step = "done", !.pairs = Capped(Pairs),
            !.clusters = IF graph.view = "layers" THEN Clusters(Pairs) ELSE {}]
    /\ UNCHANGED <<inventoryVars, observed, packages, fetch, working, cache,
                   failures, fetches>>
-----------------------------------------------------------------------------
Init ==
    /\ InventoryInit
    /\ observed = <<>> /\ packages = <<>>
    /\ fetch = [step |-> "observe", queue |-> <<>>, planned |-> 0]
    /\ working = [w \in Workers |-> 0]
    /\ cache = <<>> /\ failures = {} /\ fetches = <<>>
    /\ graph = [step |-> "idle", view |-> "none", budget |-> 0, sets |-> <<>>,
                identical |-> {}, todo |-> {}, counted |-> {}, excluded |-> {},
                pairs |-> <<>>, clusters |-> {}]

Next ==
    \/ (ScanNext \/ Release) /\ UNCHANGED contentVars
    \/ Observe \/ Queue \/ FetchNothing \/ FoldIn
    \/ \E w \in Workers : Take(w) \/ Fetch(w) \/ FetchFails(w)
    \/ \E view \in {"layers", "packages"}, budget \in Budgets : Build(view, budget)
    \/ CompareItem \/ Report

Spec == Init /\ [][Next]_vars
-----------------------------------------------------------------------------
(* Properties.                                                             *)

\* What an image is said to contain is recorded in the content it was observed
\* as or attached to it, whatever its tag names by the time the SBOM is
\* fetched and whichever image it was fetched for.
PackagesAreItsContents ==
    \A n \in DOMAIN packages : observed[n] # None =>
        packages[n] \subseteq RecordedIn[observed[n]] \cup
            UNION {AttachedTo[observed[n]][k] : k \in DOMAIN AttachedTo[observed[n]]}

\* However many images and workers there are, one content is asked for once,
\* as many requests are made as were announced ("this makes %d registry
\* request(s)"), and while nothing fails every image whose content has an SBOM
\* that can be read first is known by it.
FetchedOnce ==
    /\ \A k \in DOMAIN fetches : fetches[k] = 1
    /\ fetch.step = "fetched" => Cardinality(DOMAIN fetches) = fetch.planned
    /\ fetch.step = "fetched" /\ fetch.queue = <<>> /\ fetches # <<>> /\ faults = 0 =>
          \A n \in Imgs : LET attached == AttachedTo[observed[n]]
                          IN  observed[n] # None /\ attached # <<>> =>
                                 ReadBack(attached[1]) \subseteq packages[n]
                                 \/ RecordedIn[observed[n]] # {}

\* The pairs held never exceed the budget, and what is left out to keep it is
\* never narrower than what is counted.
WidestLeftOut ==
    /\ Cardinality(Overlapping) <= graph.budget
    /\ \A x \in graph.excluded, y \in graph.counted :
          Cardinality(Carriers(x)) >= Cardinality(Carriers(y))

\* A reported similarity is that of the two images' contents without what was
\* left out, on both sides of the fraction, and nothing as close is missing
\* unless the cap cut it off.
Alike(p) ==
    LET sets == [n \in p |-> graph.sets[n] \ graph.excluded]
        both == {x \in graph.counted : \A n \in p : x \in sets[n]}
        any == {x \in UNION {graph.sets[n] : n \in p} : x \notin graph.excluded}
    IN  any # {} /\ 2 * 100 * Cardinality(both) + Cardinality(any)
                      >= 2 * MinSimilarity * Cardinality(any) /\ both # {}
ScoresAreShares ==
    graph.step = "done" =>
        /\ \A k \in DOMAIN graph.pairs : Alike(graph.pairs[k])
        /\ Len(graph.pairs) < MaxPairs =>
              \A p \in PairsOf(DOMAIN graph.sets) : Alike(p) => p \in ToSet(graph.pairs)

\* Two images are in one cluster exactly when pairs that are close enough lead
\* from one to the other, also through pairs the cap cuts off the report; and
\* images of identical layers are in one, unless all they hold was left out.
Closed(S) == \A m \in S, n \in Imgs \ S : ~Alike({m, n})
Reaches(a) == {n \in Imgs : \A S \in SUBSET Imgs : a \in S /\ Closed(S) => n \in S}
ClustersAreConnected ==
    graph.step = "done" /\ graph.view = "layers" =>
        /\ \A m, n \in Imgs : m # n =>
              ((\E c \in graph.clusters : {m, n} \subseteq c) <=> n \in Reaches(m))
        /\ \A g \in graph.identical :
              \/ \E c \in graph.clusters : g \subseteq c
              \/ \A n \in g : graph.sets[n] \subseteq graph.excluded
===============================================================================
