----------------------------- MODULE EstateBases ------------------------------
(***************************************************************************)
(* The base, root or gap each image of an estate is reported with.         *)
(* graph build finds edges in what was observed (BaseGraph).  estate       *)
(* verify does the same without options, then asks the registry about the  *)
(* base an image names (estateverify/build.go), in one goroutine an image; *)
(* estate dependents reads its report (dependents.go).                     *)
(*                                                                         *)
(* The images are of one platform, and a repository has one tag that is    *)
(* named as a base.  A claim names a repository's tag and a digest.        *)
(***************************************************************************)
EXTENDS BaseGraph

CONSTANTS
    Estates,            \* how the estate may be observed
    Options,            \* of graph build
    Tags,               \* what the repositories' tags may name by then
    Strengths           \* the least strengths dependents may be asked for

ASSUME EstatesObserve ==
    \A est \in Estates : /\ DOMAIN est \subseteq Ids
                         /\ \A i \in DOMAIN est :
                               est[i] \in {"read", "unread", "nothing"}
                         /\ IsFiniteSet(DOMAIN est)
ASSUME TagsName ==
    \A t \in Tags : \A r \in Repos : t[r] \in Ids /\ Repo(t[r]) = r
ASSUME Numbers == NoRepo \notin Repos /\ Repos \subseteq Nat /\ Ids \subseteq Nat
ASSUME OptionsType == \A o \in Options : o.minimum \in 0..3
\* What has one digest has the same layers.
ASSUME DigestsName ==
    \A i, j \in Ids : /\ Repo(i) \in Repos /\ Image[i].digest # NoDigest
                      /\ Image[i].layers = [k \in 1..Len(Image[i].layers) |->
                                               Image[i].layers[k]]
                      /\ Len(Image[i].layers) \in Nat
                      /\ Image[i].digest = Image[j].digest =>
                            Image[i].layers = Image[j].layers
\* A digest is named after it is there: an image's own covers its annotations,
\* and a base is pinned before it is built on.  So no images of equal layers
\* name each other in a circle.
ASSUME NamedLater ==
    \A S \in (SUBSET Ids) \ {{}} : \E i \in S : \A b \in S :
        Image[b].layers = Image[i].layers =>
            \A c \in {Image[i].annotation, Image[i].pin} :
                c.repo # Repo(b) \/ c.digest # Image[b].digest

VARIABLES
    estate,             \* the observed images and how they were read
    opts,               \* graph build's options; estate verify gives none
    tag,                \* the image each repository's tag names by now
    phase,
    edge,               \* the edges of the graph, NoLink where there is none
    place,              \* what estate verify reports of each image
    known,              \* the base it could read each image to name
    query               \* a question of estate dependents, and its answer

vars == <<estate, opts, tag, phase, edge, place, known, query>>

Observed == DOMAIN estate
Proof(link) == link.method = LayerPrefix
Extend(f, x, v) == [y \in DOMAIN f \cup {x} |-> IF y = x THEN v ELSE f[y]]

Gap == [link |-> NoLink, root |-> FALSE, unresolved |-> TRUE, named |-> FALSE]
NoQuery == [base |-> NoRepo, minimum |-> 0, transitive |-> FALSE,
            frontier |-> {}, depth |-> 0, found |-> <<>>]

-----------------------------------------------------------------------------
(* The graph.                                                              *)

Init ==
    /\ estate \in Estates
    /\ opts \in Options
    /\ tag \in Tags
    /\ phase = "graph"
    /\ edge = <<>> /\ place = <<>> /\ known = <<>>
    /\ query = NoQuery

\* BuildGraph looks at the images in the order of their references.
AddToGraph(c) ==
    /\ phase = "graph" /\ DOMAIN edge # Observed
    /\ c = Min(Observed \ DOMAIN edge)
    /\ \E e \in EdgesOf(estate, opts, c) : edge' = Extend(edge, c, e)
    /\ UNCHANGED <<estate, opts, tag, phase, place, known, query>>

\* graph build ends here; estate verify goes on.
GraphBuilt ==
    /\ phase = "graph" /\ DOMAIN edge = Observed
    /\ phase' = IF opts = Unnamed THEN "verify" ELSE "built"
    /\ UNCHANGED <<estate, opts, tag, edge, place, known, query>>

-----------------------------------------------------------------------------
(* estate verify.                                                          *)

\* The image the report knows by a digest, the last in the estate.  Those that
\* could not be read at all have the empty one.
InReport(d, images) ==
    LET having == {j \in images : Digest(estate, j) = d}
    IN  IF having = {} THEN NoImage ELSE Max(having)

\* baseOf: what the graph says of an image.  One whose config could not be
\* read has nothing to show that it has no base.
FromGraph(i) ==
    LET root == IsRoot(edge, opts, i) /\ estate[i] = "read"
        e == edge[i]
    IN  [link |-> IF e = NoLink THEN e
                  ELSE [e EXCEPT !.image = InReport(e.digest, Observed)],
         root |-> root, unresolved |-> e = NoLink /\ ~root, named |-> FALSE]

\* The base an image names: its annotations when they give both a name and a
\* digest, else what its recipe's lock pins, if a recipe was found.
Claims(i, recipe) ==
    LET complete == {c \in {Image[i].annotation} :
                        c.repo # NoRepo /\ c.digest # NoDigest}
    IN  IF complete # {} THEN complete
        ELSE {c \in {Image[i].pin} : recipe /\ c.repo # NoRepo}

TrustsNames(i, b) == TRUE                                       \* mutant

\* layerPrefix: here an image need not add a layer of its own.
LayersMatch(i, b) == StartsWith(Image[i].layers, Image[b].layers)

\* What claimedBase records of a claim the layers bear out; whether the tag
\* still names that base may not be known.
ClaimedLink(claim, current) ==
    LET now == Image[tag[claim.repo]].digest
        drift == IF ~current THEN "unknown"
                 ELSE IF now = claim.digest THEN "current" ELSE "stale"
    IN  [image |-> InReport(claim.digest, Family(estate, claim.repo)),
         repo |-> claim.repo, digest |-> claim.digest, method |-> LayerPrefix,
         drift |-> drift, behind |-> IF drift = "stale" THEN 1 ELSE 0]

RootKept(p) == [p EXCEPT !.unresolved = TRUE, !.named = TRUE]     \* mutant
RootDropped(p) ==                                               \* mutant
    [p EXCEPT !.root = p.root /\ p.link # NoLink, !.named = TRUE]

\* A claim that cannot be shown leaves the image without the base it names.
Unproven(p) ==
    [p EXCEPT !.root = p.root /\ p.link # NoLink,
              !.unresolved = TRUE, !.named = TRUE]

\* The requests are made in this order, and the first that fails is the last.
Answered ==
    {{}, {"platforms"}, {"platforms", "self"}, {"platforms", "self", "base"},
     {"platforms", "self", "base", "current"}}

\* claimedBase, fetched being the requests that were answered.
WithClaim(i, p, recipe, fetched) ==
    LET claims == Claims(i, recipe)
        proven == {c \in claims : "base" \in fetched /\ \E b \in Ids :
                      /\ Repo(b) = c.repo /\ Image[b].digest = c.digest
                      /\ LayersMatch(i, b)}
    IN  IF "platforms" \notin fetched THEN p
        ELSE IF "self" \notin fetched
             THEN IF recipe /\ Image[i].pin.repo # NoRepo THEN Unproven(p)
                  ELSE p
        ELSE IF claims = {} THEN p
        ELSE IF proven = {} THEN Unproven(p)
        ELSE [link |-> ClaimedLink(CHOOSE c \in proven : TRUE,
                                   "current" \in fetched),
              root |-> FALSE, unresolved |-> FALSE, named |-> TRUE]

\* buildImage, as far as the base goes.
Place(i) ==
    /\ phase = "verify" /\ i \in Observed \ DOMAIN place
    /\ \E recipe \in {FALSE, Image[i].pin.repo # NoRepo},
          fetched \in Answered :
          LET p == FromGraph(i)
              asked == estate[i] # "nothing" /\ ~Proof(p.link)
              read == asked /\ {"platforms", "self"} \subseteq fetched
          IN  /\ place' = Extend(place, i,
                    IF asked THEN WithClaim(i, p, recipe, fetched)
                    ELSE IF estate[i] = "nothing" THEN Gap ELSE p)
              /\ known' = Extend(known, i,
                    IF read THEN Claims(i, recipe) ELSE {})
    /\ UNCHANGED <<estate, opts, tag, phase, edge, query>>

\* markRoots, over what basesOf lists.
Marked ==
    LET bases == {place[i].link.repo : i \in DOMAIN place} \ {NoRepo}
        marked(i) == /\ place[i].link = NoLink /\ ~place[i].root
                     /\ Repo(i) \in bases
                     /\ ~place[i].named /\ estate[i] = "read"
    IN  [i \in DOMAIN place |->
            IF marked(i)
            THEN [place[i] EXCEPT !.root = TRUE, !.unresolved = FALSE]
            ELSE place[i]]

\* Build waits for the goroutines.
MarkRoots ==
    /\ phase = "verify" /\ DOMAIN place = Observed
    /\ place' = Marked
    /\ phase' = "reported"
    /\ UNCHANGED <<estate, opts, tag, edge, known, query>>

-----------------------------------------------------------------------------
(* estate dependents.                                                      *)

Ask ==
    /\ phase = "reported" /\ query.frontier = {}
    /\ \E r \in Repos, m \in Strengths, t \in BOOLEAN :
          query' = [base |-> r, minimum |-> m, transitive |-> t,
                    frontier |-> {r}, depth |-> 0, found |-> <<>>]
    /\ UNCHANGED <<estate, opts, tag, phase, edge, place, known>>

Counts(i) ==
    /\ place[i].link # NoLink
    /\ Confidence[place[i].link.method] <= query.minimum

UnseenRepository(i) ==                                          \* mutant
    \A j \in DOMAIN query.found : Repo(j) # Repo(i)
Unseen(i) == i \notin DOMAIN query.found

\* One level of Dependents: the images not yet seen that are built on a
\* repository of the level before.
NextLevel ==
    /\ phase = "reported" /\ query.frontier # {}
    /\ LET level == {i \in Observed : /\ Counts(i) /\ Unseen(i)
                                      /\ place[i].link.repo \in query.frontier}
       IN  query' =
             [query EXCEPT
                !.depth = @ + 1,
                !.found = [i \in DOMAIN @ \cup level |->
                              IF i \in level THEN query.depth + 1 ELSE @[i]],
                !.frontier = IF query.transitive THEN {Repo(i) : i \in level}
                             ELSE {}]
    /\ UNCHANGED <<estate, opts, tag, phase, edge, place, known>>

Done == phase = "built" /\ UNCHANGED vars

Next ==
    \/ \E c \in Observed : AddToGraph(c)
    \/ GraphBuilt
    \/ \E i \in Observed : Place(i)
    \/ MarkRoots
    \/ Ask \/ NextLevel
    \/ Done

Spec == Init /\ [][Next]_vars

-----------------------------------------------------------------------------
(* Properties.                                                             *)

\* Every variable holds a value of its type.
Link == [image : Ids \cup {NoImage}, repo : Repos, method : Methods,
         digest : {Image[i].digest : i \in Ids} \cup {NoDigest},
         drift : {"current", "stale", "unknown"}, behind : Nat]

TypeOK ==
    /\ opts \in Options
    /\ tag \in Tags
    /\ phase \in {"graph", "built", "verify", "reported"}
    /\ DOMAIN edge \subseteq Observed
    /\ \A i \in DOMAIN edge : edge[i] \in Link \cup {NoLink}
    /\ DOMAIN place \subseteq Observed /\ DOMAIN known = DOMAIN place
    /\ phase # "graph" => DOMAIN edge = Observed
    /\ phase = "reported" => DOMAIN place = Observed
    /\ \A i \in DOMAIN place :
          place[i] \in [link : Link \cup {NoLink}, root : BOOLEAN,
                        unresolved : BOOLEAN, named : BOOLEAN]
    /\ DOMAIN query.found \subseteq Observed

\* A base that is called proven is one whose layers the image starts with,
\* whatever the image says of itself and whatever could not be fetched.
ProofIsLayers ==
    \A i \in DOMAIN place : Proof(place[i].link) =>
        \E b \in Ids : /\ Repo(b) = place[i].link.repo
                       /\ Image[b].digest = place[i].link.digest
                       /\ StartsWith(Image[i].layers, Image[b].layers)

\* "The nearest base wins", and "a self-reported label never outranks layer
\* proof": no allowed image of another repository whose layers the image
\* strictly starts with has more of them than the base it is given.
NearestBase ==
    \A i \in DOMAIN edge, n \in Observed :
        /\ estate[i] = "read" /\ estate[n] = "read"
        /\ Repo(n) # Repo(i) /\ AllowedAsBase(opts, Repo(n))
        /\ HasStrictLayerPrefix(Image[i].layers, Image[n].layers)
        => /\ Proof(edge[i])
           /\ Len(Image[edge[i].image].layers) >= Len(Image[n].layers)

Below(i) == {j \in Observed : /\ j \in DOMAIN place /\ Proof(place[j].link)
                              /\ place[j].link.repo = Repo(i)
                              /\ place[j].link.digest = Image[i].digest}

\* No image is, over proven links, the base of its own base.
ProvenAcyclic ==
    \A i \in DOMAIN place : i \notin Below(i) /\
        \A j \in Below(i) : i \notin Below(j) /\
            \A k \in Below(j) : i \notin Below(k)

\* Every image of a report has a base, is a root, or is a gap it explains, and
\* "an image that names a base in its annotations or its recipe's lock is no
\* root": not one that could be read to name one, and no image without layers.
RootNamesNoBase ==
    \A i \in DOMAIN place : place[i].root =>
        /\ estate[i] = "read" /\ known[i] = {}
        /\ place[i].link = NoLink /\ ~place[i].unresolved
EveryImageIsPlaced ==
    /\ \A i \in DOMAIN place :
          place[i].link # NoLink \/ place[i].root \/ place[i].unresolved
    /\ RootNamesNoBase

\* Links that count, from the base that was asked for on: each image is built on
\* some version of the repository of the image before it.
Chains == {s \in SeqOf({i \in Observed : Counts(i)}, Cardinality(Observed)) :
              /\ s # <<>>
              /\ place[s[1]].link.repo = query.base
              /\ \A k \in 2..Len(s) : place[s[k]].link.repo = Repo(s[k - 1])}

\* Each is built on the very image before it.
ImageChains == {s \in Chains : \A k \in 2..Len(s) :
                    place[s[k]].link.digest = Image[s[k - 1]].digest}
AskedFor(s) == query.transitive \/ Len(s) = 1

\* The images built on the base, and with transitive "the images built on those
\* images", are all in the answer, no later than the shortest way to them, however
\* the links go in circles.  Whatever else is in it got there by the one gap:
\* transitive follows repositories, so an image that is built on another version
\* of a dependent's repository is taken for one built on the dependent.
NoDependentMissed ==
    query.base # NoRepo /\ query.frontier = {} =>
        /\ \A s \in ImageChains : AskedFor(s) =>
              /\ Last(s) \in DOMAIN query.found
              /\ query.found[Last(s)] <= Len(s)
        /\ \A i \in DOMAIN query.found :
              \/ \E s \in ImageChains :
                    AskedFor(s) /\ Last(s) = i /\ Len(s) = query.found[i]
              \/ /\ query.transitive
                 /\ \E s \in Chains \ ImageChains :
                       Last(s) = i /\ Len(s) = query.found[i]
=============================================================================
