------------------------------ MODULE BaseGraph -------------------------------
(***************************************************************************)
(* Which observed image is built on which (estategraph/graph.go).  An      *)
(* image is known by its number, its place in the order of references; a   *)
(* repository by its place in the order of names.  An estate is a function *)
(* from the observed images to how well each could be read: "read", its    *)
(* manifest only ("unread"), or not at all ("nothing").                    *)
(***************************************************************************)
EXTENDS Naturals, FiniteSets, FiniteSetsExt, SequencesExt

CONSTANTS
    Ids, Repos,         \* numbers of the images, and of the repositories
    Image,              \* what the registries hold under each number
    NoRepo, NoDigest, NoLayer, NoImage

NoLink == [image |-> NoImage, repo |-> NoRepo, digest |-> NoDigest,
           method |-> 0, drift |-> "unknown", behind |-> 0]

\* The methods, strongest first: layer-prefix, oci-base-digest,
\* buildpacks-metadata, oci-base-name, history.
LayerPrefix == 1
BaseDigest == 2
Buildpacks == 3
BaseName == 4
History == 5
Methods == 1..5

\* methodConfidence by rank: verified, declared twice, assisted, weak.
Confidence == <<0, 1, 1, 2, 3>>

Unnamed == [named |-> {}, minimum |-> 3]

AllowedAsBase(opts, r) == opts.named = {} \/ r \in opts.named

Repo(i) == Image[i].repo
Digest(est, i) == IF est[i] = "nothing" THEN NoDigest ELSE Image[i].digest
Layers(est, i) == IF est[i] = "read" THEN Image[i].layers ELSE <<>>

\* parseCreated: a time that is missing, or a reproducible build's, is none.
Dated(est, i) == est[i] = "read" /\ Image[i].created > 0

-----------------------------------------------------------------------------
(* The versions of a repository, oldest first.                             *)

Family(est, r) == {i \in DOMAIN est : Repo(i) = r}

\* "An undated version cannot be proven newer, so it sorts older."
Older(est, i, j) ==
    \/ ~Dated(est, i) /\ Dated(est, j)
    \/ /\ Dated(est, i) /\ Dated(est, j)
       /\ Image[i].created < Image[j].created
    \/ /\ Dated(est, i) = Dated(est, j)
       /\ Dated(est, i) => Image[i].created = Image[j].created
       /\ i < j

Newer(est, i) == {j \in Family(est, Repo(i)) : Older(est, i, j)}
Current(est, r) == CHOOSE i \in Family(est, r) : Newer(est, i) = {}

-----------------------------------------------------------------------------
(* What shows that c is built on b.                                        *)

StartsWith(c, b) ==
    b # <<>> /\ Len(b) <= Len(c) /\ \A k \in 1..Len(b) : b[k] = c[k]

EqualLayersCount(c, b) == StartsWith(c, b)                      \* mutant

\* "Equal layer sets mean the two images are the same content".
HasStrictLayerPrefix(c, b) == StartsWith(c, b) /\ Len(b) < Len(c)

Signals(est, c, b) ==
    LET claims == Image[c]
        known == Digest(est, b) # NoDigest
        top == IF Layers(est, b) = <<>> THEN NoLayer ELSE Last(Layers(est, b))
    IN  {m \in Methods :
           \/ /\ m = LayerPrefix
              /\ HasStrictLayerPrefix(Layers(est, c), Layers(est, b))
           \/ /\ m = BaseDigest /\ known
              /\ claims.label.digest = Digest(est, b)
           \/ /\ m = Buildpacks /\ known
              /\ \/ claims.run.digest = Digest(est, b)
                 \/ claims.run.top # NoLayer /\ claims.run.top = top
           \/ m = BaseName /\ claims.label.repo = Repo(b)
           \/ m = History /\ Repo(b) \in claims.mentions}

\* detectRelationship returns the first that matches.
Method(est, c, b) == Min(Signals(est, c, b))

Candidates(est, opts, c) ==
    {b \in DOMAIN est : /\ Repo(b) # Repo(c)
                        /\ AllowedAsBase(opts, Repo(b))
                        /\ Signals(est, c, b) # {}}

\* Whether what c says of itself names b; it only breaks ties.
DeclaresBase(est, c, b) ==
    \E claim \in {Image[c].label, Image[c].annotation} :
        \/ Digest(est, b) # NoDigest /\ claim.digest = Digest(est, b)
        \/ claim.repo = Repo(b)

MethodThenDeclared(est, c, a, b) ==                             \* mutant
    LET ma == Method(est, c, a)  mb == Method(est, c, b)
    IN  \/ ma < mb
        \/ /\ ma = mb
           /\ DeclaresBase(est, c, a) /\ ~DeclaresBase(est, c, b)

BetterBase(est, c, a, b) ==
    LET ma == Method(est, c, a)
        mb == Method(est, c, b)
        na == IF ma = LayerPrefix THEN Len(Layers(est, a)) ELSE 0
        nb == IF mb = LayerPrefix THEN Len(Layers(est, b)) ELSE 0
    IN  \/ ma < mb
        \/ ma = mb /\ na > nb
        \/ /\ ma = mb /\ na = nb
           /\ DeclaresBase(est, c, a) /\ ~DeclaresBase(est, c, b)

\* bestEdgeFor keeps the first of the best: "repositories in name order, each
\* family's versions oldest first".
ComesFirst(est, a, b) ==
    \/ Repo(a) < Repo(b)
    \/ Repo(a) = Repo(b) /\ Older(est, a, b)

BestBases(est, opts, c) ==
    LET found == Candidates(est, opts, c)
        best == {b \in found : \A a \in found : ~BetterBase(est, c, a, b)}
    IN  {b \in best : \A a \in best \ {b} : ComesFirst(est, b, a)}

Drift(est, b) ==
    LET now == Digest(est, Current(est, Repo(b)))
    IN  IF NoDigest \in {now, Digest(est, b)} THEN "unknown"
        ELSE IF now = Digest(est, b) THEN "current" ELSE "stale"

Edge(est, c, b) ==
    [image |-> b, repo |-> Repo(b), digest |-> Digest(est, b),
     method |-> Method(est, c, b), drift |-> Drift(est, b),
     behind |-> IF Drift(est, b) = "stale" THEN Cardinality(Newer(est, b))
                ELSE 0]

\* What BuildGraph makes of one image: its edge, or none when its layers could
\* not be read, nothing matched, or the best match is too weak.
EdgesOf(est, opts, c) ==
    LET found == {Edge(est, c, b) : b \in BestBases(est, opts, c)}
    IN  IF \/ Layers(est, c) = <<>> \/ Candidates(est, opts, c) = {}
           \/ \E e \in found : Confidence[e.method] > opts.minimum
        THEN {NoLink} ELSE found

\* partitionRoots: whether an image without an edge is a root: others are built
\* on it, it was named as a base, or others are built on another version.
IsRoot(edge, opts, i) ==
    LET bases == {edge[c].image : c \in DOMAIN edge} \ {NoImage}
    IN  /\ edge[i] = NoLink
        /\ \/ i \in bases
           \/ opts.named # {} /\ AllowedAsBase(opts, Repo(i))
           \/ \E b \in bases : Repo(b) = Repo(i)
=============================================================================
