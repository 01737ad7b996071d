-------------------------- MODULE EstateBases_proofs ---------------------------
(***************************************************************************)
(* Proofs about EstateBases, for every set of images, every estate they    *)
(* can be observed as, every option and every failed fetch.                *)
(***************************************************************************)
EXTENDS EstateBases, FiniteSetTheorems, SequenceTheorems, WellFoundedInduction,
        TLAPS

-----------------------------------------------------------------------------
(* The graph.                                                              *)

\* Layers that could be read are the image's, and only such an image has a
\* digest and layers.
LEMMA ReadLayers ==
    ASSUME NEW est, NEW i, Layers(est, i) # <<>>
    PROVE  /\ Layers(est, i) = Image[i].layers
           /\ Digest(est, i) = Image[i].digest
BY DEF Layers, Digest

\* The strongest of some methods is one of them.
LEMMA StrongestIsOne ==
    ASSUME NEW S \in SUBSET Methods, S # {}
    PROVE  Min(S) \in S
<1>1. \E m \in S : \A n \in S : m <= n
  <2>1. CASE 1 \in S
    BY <2>1 DEF Methods
  <2>2. CASE 1 \notin S /\ 2 \in S
    BY <2>2 DEF Methods
  <2>3. CASE 1 \notin S /\ 2 \notin S /\ 3 \in S
    BY <2>3 DEF Methods
  <2>4. CASE 1 \notin S /\ 2 \notin S /\ 3 \notin S /\ 4 \in S
    BY <2>4 DEF Methods
  <2>5. CASE 1 \notin S /\ 2 \notin S /\ 3 \notin S /\ 4 \notin S
    <3>1. \A m \in S : m = 5
      BY <2>5 DEF Methods
    <3> QED
      BY <3>1
  <2> QED
    BY <2>1, <2>2, <2>3, <2>4, <2>5
<1> QED
  BY <1>1 DEF Min

\* Only layers give an edge the strength of proof: whatever an image says of
\* itself, a candidate found by layer-prefix has layers it starts with.
LEMMA ProofNeedsLayers ==
    ASSUME NEW est, NEW options, NEW c, NEW b \in Candidates(est, options, c),
           Method(est, c, b) = LayerPrefix
    PROVE  /\ Digest(est, b) = Image[b].digest
           /\ HasStrictLayerPrefix(Image[c].layers, Image[b].layers)
<1>1. Signals(est, c, b) \in SUBSET Methods /\ Signals(est, c, b) # {}
  BY DEF Candidates, Signals
<1>2. LayerPrefix \in Signals(est, c, b)
  BY <1>1, StrongestIsOne DEF Method
<1>3. HasStrictLayerPrefix(Layers(est, c), Layers(est, b))
  BY <1>2 DEF Signals, LayerPrefix, BaseDigest, Buildpacks, BaseName, History
<1>4. Layers(est, b) # <<>> /\ Len(Layers(est, b)) < Len(Layers(est, c))
  BY <1>3 DEF HasStrictLayerPrefix, StartsWith
<1>5. Layers(est, c) # <<>>
  BY <1>3, <1>4 DEF HasStrictLayerPrefix, StartsWith
<1> QED
  BY <1>3, <1>4, <1>5, ReadLayers

-----------------------------------------------------------------------------
(* The proof that a proven base is one.                                    *)

\* A link that is called proven is to a base whose layers the image starts
\* with, and adds to unless it names that base.
Names(i, link) == \E c \in {Image[i].annotation, Image[i].pin} :
                     c.repo = link.repo /\ c.digest = link.digest
Borne(i, link) ==
    Proof(link) => \E b \in Ids :
        /\ Repo(b) = link.repo /\ Image[b].digest = link.digest
        /\ StartsWith(Image[i].layers, Image[b].layers)
        /\ HasStrictLayerPrefix(Image[i].layers, Image[b].layers) \/ Names(i, link)

\* That every edge and every reported link is borne out is inductive, given
\* what is observed.
BasesInv ==
    /\ Observed \subseteq Ids
    /\ DOMAIN edge \subseteq Observed
    /\ phase # "graph" => DOMAIN edge = Observed
    /\ DOMAIN place \subseteq Observed
    /\ \A i \in DOMAIN edge : Borne(i, edge[i])
    /\ \A i \in DOMAIN place : Borne(i, place[i].link)

\* No base is borne out by nothing.
LEMMA NoLinkIsBorne == ASSUME NEW i PROVE Borne(i, NoLink)
BY DEF Borne, Proof, NoLink, LayerPrefix

\* The edge of an image is borne out, whichever candidate is best.
LEMMA EdgesAreBorne ==
    ASSUME BasesInv, NEW c \in Observed, NEW e \in EdgesOf(estate, opts, c)
    PROVE  Borne(c, e)
<1>1. CASE e = NoLink
  BY <1>1, NoLinkIsBorne
<1>2. CASE e # NoLink
  <2>1. PICK b \in BestBases(estate, opts, c) : e = Edge(estate, c, b)
    BY <1>2 DEF EdgesOf
  <2>2. b \in Candidates(estate, opts, c) /\ b \in Ids
    BY <2>1 DEF BestBases, Candidates, BasesInv, Observed
  <2>3. SUFFICES ASSUME Proof(e)
                 PROVE  \E a \in Ids :
                           /\ Repo(a) = e.repo /\ Image[a].digest = e.digest
                           /\ StartsWith(Image[c].layers, Image[a].layers)
                           /\ HasStrictLayerPrefix(Image[c].layers, Image[a].layers)
    BY DEF Borne
  <2>4. Method(estate, c, b) = LayerPrefix
    BY <2>1, <2>3 DEF Proof, Edge
  <2>5. /\ Digest(estate, b) = Image[b].digest
        /\ HasStrictLayerPrefix(Image[c].layers, Image[b].layers)
    BY <2>2, <2>4, ProofNeedsLayers
  <2> QED
    BY <2>1, <2>2, <2>5 DEF Edge, HasStrictLayerPrefix
<1> QED
  BY <1>1, <1>2

\* What the report takes over from the graph is borne out.
LEMMA GraphIsBorne ==
    ASSUME BasesInv, NEW i \in DOMAIN edge
    PROVE  Borne(i, FromGraph(i).link)
<1>1. CASE edge[i] = NoLink
  BY <1>1, NoLinkIsBorne DEF FromGraph
<1>2. CASE edge[i] # NoLink
  <2> DEFINE l == [edge[i] EXCEPT !.image = InReport(edge[i].digest, Observed)]
  <2>1. FromGraph(i).link = l
    BY <1>2 DEF FromGraph
  <2>2. l.method = edge[i].method /\ l.repo = edge[i].repo /\ l.digest = edge[i].digest
    OBVIOUS
  <2> HIDE DEF l
  <2>3. Borne(i, edge[i])
    BY DEF BasesInv
  <2> QED
    BY <2>1, <2>2, <2>3 DEF Borne, Proof, Names
<1> QED
  BY <1>1, <1>2

\* A claim replaces a link only by one that is borne out, whatever could be
\* fetched.
LEMMA ClaimsAreBorne ==
    ASSUME NEW i, NEW p, NEW recipe, NEW fetched, Borne(i, p.link),
           p \in [link : {p.link}, root : BOOLEAN, unresolved : BOOLEAN,
                  named : BOOLEAN]
    PROVE  Borne(i, WithClaim(i, p, recipe, fetched).link)
<1> DEFINE proven == {c \in Claims(i, recipe) : "base" \in fetched /\ \E b \in Ids :
                         /\ Repo(b) = c.repo /\ Image[b].digest = c.digest
                         /\ LayersMatch(i, b)}
           taken == CHOOSE c \in proven : TRUE
           link == ClaimedLink(taken, "current" \in fetched)
<1>1. Unproven(p).link = p.link
  BY DEF Unproven
<1>2. WithClaim(i, p, recipe, fetched).link \in {p.link, link}
  BY <1>1 DEF WithClaim
<1>3. proven = {} => WithClaim(i, p, recipe, fetched).link = p.link
  BY <1>1 DEF WithClaim
<1>4. ASSUME proven # {} PROVE Borne(i, link)
  <2>1. taken \in proven
    BY <1>4
  <2>2. PICK b \in Ids : /\ Repo(b) = taken.repo /\ Image[b].digest = taken.digest
                         /\ LayersMatch(i, b)
    BY <2>1
  <2>3. link.repo = taken.repo /\ link.digest = taken.digest
    BY DEF ClaimedLink
  <2>4. taken \in {Image[i].annotation, Image[i].pin}
    BY <2>1 DEF Claims
  <2> HIDE DEF link, taken, proven
  <2>5. Names(i, link)
    BY <2>3, <2>4 DEF Names
  <2> QED
    BY <2>2, <2>3, <2>5 DEF Borne, LayersMatch
<1> HIDE DEF link, proven
<1> QED
  BY <1>2, <1>3, <1>4

\* The invariant of the base links holds in every behaviour.
LEMMA BasesInvariant == Spec => []BasesInv
<1>1. Init => BasesInv
  BY EstatesObserve DEF Init, BasesInv, Observed
<1>2. BasesInv /\ [Next]_vars => BasesInv'
  <2> SUFFICES ASSUME BasesInv, [Next]_vars PROVE BasesInv'
    OBVIOUS
  <2>u. CASE UNCHANGED vars
    BY <2>u DEF vars, BasesInv, Observed, Borne, Proof
  <2>1. ASSUME NEW c \in Observed, AddToGraph(c) PROVE BasesInv'
    <3>1. PICK e \in EdgesOf(estate, opts, c) : edge' = Extend(edge, c, e)
      BY <2>1 DEF AddToGraph
    <3>2. Borne(c, e)
      BY EdgesAreBorne
    <3>3. DOMAIN edge' = DOMAIN edge \cup {c}
      BY <3>1 DEF Extend
    <3>4. \A i \in DOMAIN edge' : Borne(i, edge'[i])
      BY <3>1, <3>2, <3>3 DEF Extend, BasesInv
    <3> QED
      BY <2>1, <3>3, <3>4 DEF AddToGraph, BasesInv, Observed, Borne, Proof
  <2>2. CASE GraphBuilt
    BY <2>2 DEF GraphBuilt, BasesInv, Observed, Borne, Proof
  <2>3. ASSUME NEW i \in Observed, Place(i) PROVE BasesInv'
    <3>1. PICK recipe, fetched :
             place' = Extend(place, i,
                IF estate[i] # "nothing" /\ ~Proof(FromGraph(i).link)
                THEN WithClaim(i, FromGraph(i), recipe, fetched)
                ELSE IF estate[i] = "nothing" THEN Gap ELSE FromGraph(i))
      BY <2>3 DEF Place
    <3> DEFINE p == FromGraph(i)
               placed == IF estate[i] # "nothing" /\ ~Proof(p.link)
                         THEN WithClaim(i, p, recipe, fetched)
                         ELSE IF estate[i] = "nothing" THEN Gap ELSE p
    <3>2. Borne(i, p.link)
      BY <2>3, GraphIsBorne DEF Place, BasesInv
    <3>3. p \in [link : {p.link}, root : BOOLEAN, unresolved : BOOLEAN,
                 named : BOOLEAN]
      BY DEF FromGraph, IsRoot
    <3> HIDE DEF p
    <3>4. Borne(i, WithClaim(i, p, recipe, fetched).link)
      BY <3>2, <3>3, ClaimsAreBorne
    <3>5. Borne(i, placed.link)
      BY <3>2, <3>4, NoLinkIsBorne DEF Gap
    <3>6. place' = Extend(place, i, placed)
      BY <3>1 DEF p
    <3> HIDE DEF placed
    <3>7. \A j \in DOMAIN place' : Borne(j, place'[j].link)
      BY <3>5, <3>6 DEF Extend, BasesInv
    <3>8. DOMAIN place' = DOMAIN place \cup {i}
      BY <3>6 DEF Extend
    <3> QED
      BY <2>3, <3>7, <3>8 DEF Place, BasesInv, Observed, Borne, Proof
  <2>4. CASE MarkRoots
    <3>1. DOMAIN Marked = DOMAIN place
      BY DEF Marked
    <3>2. \A j \in DOMAIN place : Borne(j, Marked[j].link)
      <4> TAKE j \in DOMAIN place
      <4>1. Marked[j].link = place[j].link
        BY DEF Marked
      <4> QED
        BY <4>1 DEF BasesInv
    <3> QED
      BY <2>4, <3>1, <3>2 DEF MarkRoots, BasesInv, Observed, Borne, Proof
  <2>5. CASE Ask \/ NextLevel \/ Done
    BY <2>5 DEF Ask, NextLevel, Done, vars, BasesInv, Observed, Borne, Proof
  <2> QED
    BY <2>u, <2>1, <2>2, <2>3, <2>4, <2>5 DEF Next
<1> QED
  BY <1>1, <1>2, PTL DEF Spec

\* A base the report calls proven is one whose layers the image starts with,
\* whatever the image says of itself and whatever could not be fetched.
THEOREM ProvenBasesAreLayers == Spec => []ProofIsLayers
<1>1. BasesInv => ProofIsLayers
  BY DEF BasesInv, ProofIsLayers, Borne
<1> QED
  BY <1>1, BasesInvariant, PTL

-----------------------------------------------------------------------------
(* The proof that roots name no base, and that nothing is left out.        *)

\* A root has no link, no gap and no claim that could be read; an image that
\* is reported to name no base, and has none, names none that could be read;
\* and every image is one of the three.  The middle part is what markRoots
\* relies on.
Settled(i, p, claims) ==
    /\ p \in [link : {p.link}, root : BOOLEAN, unresolved : BOOLEAN,
              named : BOOLEAN]
    /\ p.root => /\ estate[i] = "read" /\ claims = {}
                 /\ p.link = NoLink /\ ~p.unresolved
    /\ p.link = NoLink /\ ~p.named => claims = {}
    /\ p.link # NoLink \/ p.root \/ p.unresolved

RootsInv ==
    /\ DOMAIN edge \subseteq Observed
    /\ phase # "graph" => DOMAIN edge = Observed
    /\ \A i \in DOMAIN edge : edge[i] = NoLink \/ edge[i].method \in Methods
    /\ DOMAIN place \subseteq Observed
    /\ DOMAIN known = DOMAIN place
    /\ \A i \in DOMAIN place : Settled(i, place[i], known[i])

\* A claim always makes a link.
LEMMA ClaimedLinkIsALink ==
    ASSUME NEW claim, NEW current PROVE ClaimedLink(claim, current) # NoLink
<1>1. ClaimedLink(claim, current).method = 1 /\ NoLink.method = 0
  BY DEF ClaimedLink, NoLink, LayerPrefix
<1> QED
  BY <1>1

\* What the graph says of an image settles it: a link, a root, or a base not
\* resolved.
LEMMA GraphSettles ==
    ASSUME NEW i, edge[i] = NoLink \/ edge[i].method \in Methods
    PROVE  Settled(i, FromGraph(i), {})
<1>1. CASE edge[i] = NoLink
  BY <1>1 DEF FromGraph, Settled, IsRoot
<1>2. CASE edge[i] # NoLink
  <2>1. ~IsRoot(edge, opts, i)
    BY <1>2 DEF IsRoot
  <2>2. ~FromGraph(i).root /\ ~FromGraph(i).unresolved
    BY <1>2, <2>1 DEF FromGraph
  <2>3. FromGraph(i).link # NoLink
    <3> DEFINE l == [edge[i] EXCEPT !.image = InReport(edge[i].digest, Observed)]
    <3>1. FromGraph(i).link = l
      BY <1>2 DEF FromGraph
    <3>2. l.method = edge[i].method
      OBVIOUS
    <3>3. NoLink.method = 0 /\ edge[i].method # 0
      BY <1>2 DEF NoLink, Methods
    <3> QED
      BY <3>1, <3>2, <3>3
  <2> QED
    BY <2>1, <2>2, <2>3 DEF FromGraph, Settled
<1> QED
  BY <1>1, <1>2

\* An edge has the method of the candidate it is to.
LEMMA EdgesHaveMethods ==
    ASSUME NEW c, NEW e \in EdgesOf(estate, opts, c)
    PROVE  e = NoLink \/ e.method \in Methods
<1> SUFFICES ASSUME e # NoLink PROVE e.method \in Methods
  OBVIOUS
<1>1. PICK b \in BestBases(estate, opts, c) : e = Edge(estate, c, b)
  BY DEF EdgesOf
<1>2. Signals(estate, c, b) \in SUBSET Methods /\ Signals(estate, c, b) # {}
  BY <1>1 DEF BestBases, Candidates, Signals
<1>3. Method(estate, c, b) \in Methods
  BY <1>2, StrongestIsOne DEF Method
<1> QED
  BY <1>1, <1>3 DEF Edge

\* Whatever claimedBase could fetch, what it makes of the graph's answer is
\* one of the three, and no root that was read to name a base.
LEMMA ClaimsSettle ==
    ASSUME NEW i, NEW p, NEW recipe, NEW fetched, Settled(i, p, {})
    PROVE  Settled(i, WithClaim(i, p, recipe, fetched),
                   IF {"platforms", "self"} \subseteq fetched
                   THEN Claims(i, recipe) ELSE {})
<1> DEFINE w == WithClaim(i, p, recipe, fetched)
           read == IF {"platforms", "self"} \subseteq fetched
                   THEN Claims(i, recipe) ELSE {}
           proven == {c \in Claims(i, recipe) : "base" \in fetched /\ \E b \in Ids :
                         /\ Repo(b) = c.repo /\ Image[b].digest = c.digest
                         /\ LayersMatch(i, b)}
           link == ClaimedLink(CHOOSE c \in proven : TRUE, "current" \in fetched)
           new == [link |-> link, root |-> FALSE, unresolved |-> FALSE,
                   named |-> TRUE]
<1>1. CASE w = p /\ read = {}
  BY <1>1
<1>2. CASE w = Unproven(p)
  <2>1. /\ Unproven(p).link = p.link /\ Unproven(p).unresolved = TRUE
        /\ Unproven(p).named = TRUE /\ Unproven(p).root = FALSE
        /\ Unproven(p) \in [link : {Unproven(p).link}, root : BOOLEAN,
                            unresolved : BOOLEAN, named : BOOLEAN]
    BY DEF Unproven, Settled
  <2> QED
    BY <1>2, <2>1 DEF Settled
<1>3. CASE w = new
  <2> HIDE DEF link
  <2>1. link # NoLink
    BY ClaimedLinkIsALink DEF link
  <2> QED
    BY <1>3, <2>1 DEF Settled
<1>4. (w = p /\ read = {}) \/ w = Unproven(p) \/ w = new
  BY DEF WithClaim
<1> QED
  BY <1>1, <1>2, <1>3, <1>4

\* The invariant of the roots holds in every behaviour.
LEMMA RootsInvariant == Spec => []RootsInv
<1>1. Init => RootsInv
  BY DEF Init, RootsInv, Observed
<1>2. RootsInv /\ [Next]_vars => RootsInv'
  <2> SUFFICES ASSUME RootsInv, [Next]_vars PROVE RootsInv'
    OBVIOUS
  <2>u. CASE UNCHANGED vars
    BY <2>u DEF vars, RootsInv, Observed, Settled
  <2>1. ASSUME NEW c \in Observed, AddToGraph(c) PROVE RootsInv'
    <3>1. PICK e \in EdgesOf(estate, opts, c) : edge' = Extend(edge, c, e)
      BY <2>1 DEF AddToGraph
    <3>2. e = NoLink \/ e.method \in Methods
      BY EdgesHaveMethods
    <3> QED
      BY <2>1, <3>1, <3>2
      DEF AddToGraph, Extend, RootsInv, Observed, Settled
  <2>2. CASE GraphBuilt
    BY <2>2 DEF GraphBuilt, RootsInv, Observed, Settled
  <2>3. ASSUME NEW i \in Observed, Place(i) PROVE RootsInv'
    <3> DEFINE p == FromGraph(i)
               asked == estate[i] # "nothing" /\ ~Proof(p.link)
    <3>1. PICK recipe, fetched :
             /\ place' = Extend(place, i,
                   IF asked THEN WithClaim(i, p, recipe, fetched)
                   ELSE IF estate[i] = "nothing" THEN Gap ELSE p)
             /\ known' = Extend(known, i,
                   IF asked /\ {"platforms", "self"} \subseteq fetched
                   THEN Claims(i, recipe) ELSE {})
      BY <2>3 DEF Place
    <3>2. Settled(i, p, {})
      BY <2>3, GraphSettles DEF Place, RootsInv
    <3>3. Settled(i, Gap, {})
      BY DEF Settled, Gap
    <3>4. Settled(i, WithClaim(i, p, recipe, fetched),
                  IF {"platforms", "self"} \subseteq fetched
                  THEN Claims(i, recipe) ELSE {})
      BY <3>2, ClaimsSettle
    <3>5. DOMAIN place' = DOMAIN place \cup {i} /\ DOMAIN known' = DOMAIN place'
      BY <3>1 DEF Extend, RootsInv
    <3> HIDE DEF p
    <3>6. Settled(i, place'[i], known'[i])
      <4>1. CASE asked
        BY <3>1, <3>4, <4>1 DEF Extend
      <4>2. CASE ~asked
        BY <3>1, <3>2, <3>3, <4>2 DEF Extend
      <4> QED
        BY <4>1, <4>2
    <3>7. \A j \in DOMAIN place \ {i} :
             place'[j] = place[j] /\ known'[j] = known[j]
      BY <3>1 DEF Extend, RootsInv
    <3>8. \A j \in DOMAIN place' : Settled(j, place'[j], known'[j])
      BY <3>5, <3>6, <3>7 DEF RootsInv
    <3> QED
      BY <2>3, <3>5, <3>8 DEF Place, RootsInv, Observed, Settled
  <2>4. CASE MarkRoots
    <3>1. DOMAIN Marked = DOMAIN place
      BY DEF Marked
    <3>2. \A j \in DOMAIN place : Settled(j, Marked[j], known[j])
      <4> TAKE j \in DOMAIN place
      <4>1. Settled(j, place[j], known[j])
        BY DEF RootsInv
      <4>2. CASE Marked[j] = place[j]
        BY <4>1, <4>2
      <4>3. CASE /\ place[j].link = NoLink /\ ~place[j].named
                 /\ estate[j] = "read"
                 /\ Marked[j] = [place[j] EXCEPT !.root = TRUE,
                                                 !.unresolved = FALSE]
        <5>1. /\ Marked[j].link = NoLink /\ Marked[j].root = TRUE
              /\ Marked[j].unresolved = FALSE
              /\ Marked[j] \in [link : {Marked[j].link}, root : BOOLEAN,
                                unresolved : BOOLEAN, named : BOOLEAN]
          BY <4>1, <4>3 DEF Settled
        <5> QED
          BY <4>1, <4>3, <5>1 DEF Settled
      <4> QED
        BY <4>2, <4>3 DEF Marked
    <3> QED
      BY <2>4, <3>1, <3>2 DEF MarkRoots, RootsInv, Observed, Settled
  <2>5. CASE Ask \/ NextLevel \/ Done
    BY <2>5 DEF Ask, NextLevel, Done, vars, RootsInv, Observed, Settled
  <2> QED
    BY <2>u, <2>1, <2>2, <2>3, <2>4, <2>5 DEF Next
<1> QED
  BY <1>1, <1>2, PTL DEF Spec

\* Every image of a report has a base, is a root, or is a gap it explains, and
\* an image that could be read to name a base, in its annotations or its
\* recipe's lock, is never a root, nor is one whose layers could not be read.
THEOREM EveryImagePlaced == Spec => []EveryImageIsPlaced
<1>1. RootsInv => EveryImageIsPlaced
  BY DEF RootsInv, Settled, EveryImageIsPlaced, RootNamesNoBase
<1> QED
  BY <1>1, RootsInvariant, PTL

-----------------------------------------------------------------------------
(* The proof that the nearest base wins.                                   *)

\* NearestBase for one image and the edge it is given.
IsNearest(c, e) ==
    \A n \in Observed :
        /\ estate[c] = "read" /\ estate[n] = "read"
        /\ Repo(n) # Repo(c) /\ AllowedAsBase(opts, Repo(n))
        /\ HasStrictLayerPrefix(Image[c].layers, Image[n].layers)
        => /\ Proof(e)
           /\ Len(Image[e.image].layers) >= Len(Image[n].layers)

NearestInv ==
    /\ Observed \subseteq Ids
    /\ opts \in Options
    /\ \A i \in DOMAIN edge : IsNearest(i, edge[i])

\* A base whose layers an image strictly starts with is found by layer-prefix,
\* whatever else matches.
LEMMA PrefixIsFound ==
    ASSUME NEW c \in Observed, NEW n \in Observed,
           estate[c] = "read", estate[n] = "read",
           HasStrictLayerPrefix(Image[c].layers, Image[n].layers)
    PROVE  LayerPrefix \in Signals(estate, c, n) /\ Method(estate, c, n) = LayerPrefix
<1>1. LayerPrefix \in Signals(estate, c, n)
  BY DEF Signals, Layers, Methods, LayerPrefix
<1>2. Signals(estate, c, n) \subseteq Methods
  BY DEF Signals
<1>3. \A m \in Signals(estate, c, n) : LayerPrefix <= m
  BY <1>2 DEF Methods, LayerPrefix
<1>4. Method(estate, c, n) \in Signals(estate, c, n)
      /\ \A m \in Signals(estate, c, n) : Method(estate, c, n) <= m
  BY <1>1, <1>3 DEF Method, Min
<1> QED
  BY <1>1, <1>2, <1>3, <1>4 DEF Methods, LayerPrefix

\* The edges of an observed image lead to its nearest base.
LEMMA EdgesAreNearest ==
    ASSUME NearestInv, NEW c \in Observed, NEW e \in EdgesOf(estate, opts, c)
    PROVE  IsNearest(c, e)
<1> SUFFICES ASSUME NEW n \in Observed,
                    estate[c] = "read", estate[n] = "read",
                    Repo(n) # Repo(c), AllowedAsBase(opts, Repo(n)),
                    HasStrictLayerPrefix(Image[c].layers, Image[n].layers)
             PROVE  /\ Proof(e)
                    /\ Len(Image[e.image].layers) >= Len(Image[n].layers)
  BY DEF IsNearest
<1>1. LayerPrefix \in Signals(estate, c, n) /\ Method(estate, c, n) = LayerPrefix
  BY PrefixIsFound
<1>2. n \in Candidates(estate, opts, c)
  BY <1>1 DEF Candidates, Observed
<1>3. /\ Layers(estate, n) = Image[n].layers /\ Layers(estate, c) # <<>>
      /\ Len(Image[n].layers) \in Nat
  <2>1. c \in Ids /\ n \in Ids
    BY DEF NearestInv
  <2> QED
    BY <2>1, DigestsName DEF Layers, HasStrictLayerPrefix, StartsWith
\* The best candidate is one that n does not beat.
<1>4. ASSUME NEW b \in BestBases(estate, opts, c)
      PROVE  /\ Method(estate, c, b) = LayerPrefix
             /\ Len(Image[b].layers) >= Len(Image[n].layers)
  <2>1. b \in Candidates(estate, opts, c) /\ ~BetterBase(estate, c, n, b)
    BY <1>2 DEF BestBases
  <2>2. Method(estate, c, b) \in Methods
    <3>1. Signals(estate, c, b) \in SUBSET Methods /\ Signals(estate, c, b) # {}
      BY <2>1 DEF Candidates, Signals
    <3> QED
      BY <3>1, StrongestIsOne DEF Method
  <2>3. Method(estate, c, b) = LayerPrefix
    BY <1>1, <2>1, <2>2 DEF BetterBase, LayerPrefix, Methods
  <2>4. b \in Ids /\ Len(Image[b].layers) \in Nat
    BY <2>1, DigestsName DEF Candidates, NearestInv, Observed
  <2>5. Layers(estate, b) = Image[b].layers
    <3>1. LayerPrefix \in Signals(estate, c, b)
      <4>1. Signals(estate, c, b) \in SUBSET Methods /\ Signals(estate, c, b) # {}
        BY <2>1 DEF Candidates, Signals
      <4> QED
        BY <2>3, <4>1, StrongestIsOne DEF Method
    <3>2. HasStrictLayerPrefix(Layers(estate, c), Layers(estate, b))
      BY <3>1 DEF Signals, LayerPrefix, BaseDigest, Buildpacks, BaseName, History
    <3> QED
      BY <3>2, ReadLayers DEF HasStrictLayerPrefix, StartsWith
  <2> QED
    BY <1>1, <1>3, <2>1, <2>3, <2>4, <2>5 DEF BetterBase
<1>5. \E b \in BestBases(estate, opts, c) : e = Edge(estate, c, b)
  <2>1. \A f \in {Edge(estate, c, b) : b \in BestBases(estate, opts, c)} :
           Confidence[f.method] = 0
    <3> SUFFICES ASSUME NEW b \in BestBases(estate, opts, c)
                 PROVE  Confidence[Edge(estate, c, b).method] = 0
      OBVIOUS
    <3> QED
      BY <1>4 DEF Edge, Confidence, LayerPrefix
  <2>2. opts.minimum \in 0..3
    BY OptionsType DEF NearestInv
  <2> QED
    BY <1>2, <1>3, <2>1, <2>2 DEF EdgesOf
<1> QED
  BY <1>4, <1>5 DEF Edge, Proof

\* Of the other repositories' images whose layers an image strictly starts
\* with, the graph gives it the longest, whatever its labels claim.
THEOREM NearestBaseWins == Spec => []NearestBase
<1>1. Init => NearestInv
  BY EstatesObserve DEF Init, NearestInv, Observed
<1>2. NearestInv /\ [Next]_vars => NearestInv'
  <2> SUFFICES ASSUME NearestInv, [Next]_vars PROVE NearestInv'
    OBVIOUS
  <2>1. ASSUME NEW c \in Observed, AddToGraph(c) PROVE NearestInv'
    <3>1. PICK e \in EdgesOf(estate, opts, c) : edge' = Extend(edge, c, e)
      BY <2>1 DEF AddToGraph
    <3>2. IsNearest(c, e)
      BY EdgesAreNearest
    <3>3. \A i \in DOMAIN edge' : IsNearest(i, edge'[i])
      BY <3>1, <3>2 DEF Extend, NearestInv
    <3> QED
      BY <2>1, <3>3 DEF AddToGraph, NearestInv, Observed, IsNearest, Proof
  <2>2. CASE UNCHANGED <<estate, opts, edge>>
    BY <2>2 DEF NearestInv, Observed, IsNearest, Proof
  <2> QED
    BY <2>1, <2>2
    DEF Next, vars, GraphBuilt, Place, MarkRoots, Ask, NextLevel, Done
<1>3. NearestInv => NearestBase
  BY DEF NearestInv, IsNearest, NearestBase
<1> QED
  BY <1>1, <1>2, <1>3, PTL DEF Spec

-----------------------------------------------------------------------------
(* The proof that no image is the base of its own base.                    *)

\* A non-empty set of numbers has a smallest one.
LEMMA SmallestExists ==
  ASSUME NEW S \in SUBSET Nat, S # {}
  PROVE  \E n \in S : \A m \in S : n <= m
<1> DEFINE R == OpToRel(<, Nat)
<1>1. IsWellFoundedOn(R, Nat)
  BY NatLessThanWellFounded
<1>2. \A x, y \in Nat : x < y => <<x, y>> \in R
  BY DEF OpToRel
<1> HIDE DEF R
<1>3. PICK x \in S : \A y \in S : ~ (<<y, x>> \in R)
  BY <1>1, WFMin, Zenon
<1>4. \A y \in S : ~ (y < x)
  BY <1>2, <1>3
<1> QED
  BY <1>4

\* Among the images of an estate that are placed there is one whose base, if it
\* is proven, is none of them.
LEMMA BasesAreFounded ==
  ASSUME BasesInv, NEW S \in SUBSET DOMAIN place, S # {}
  PROVE  \E i \in S : \A b \in S : i \notin Below(b)
<1> DEFINE len(i) == Len(Image[i].layers)
           lens == {len(i) : i \in S}
<1>1. /\ S \subseteq Ids /\ \A i \in S : Borne(i, place[i].link)
      /\ \A i \in Ids : len(i) \in Nat
  BY DigestsName DEF BasesInv
<1>2. PICK i0 \in S : \A i \in S : len(i0) <= len(i)
  <2>1. lens \in SUBSET Nat /\ lens # {}
    BY <1>1
  <2> HIDE DEF lens
  <2>2. PICK n \in lens : \A m \in lens : n <= m
    BY <2>1, SmallestExists
  <2> HIDE DEF len
  <2> QED
    BY <2>2 DEF lens
<1> DEFINE T == {i \in S : Image[i].layers = Image[i0].layers}
<1>3. T \in (SUBSET Ids) \ {{}}
  BY <1>1
<1>4. PICK i \in T : \A b \in T : Image[b].layers = Image[i].layers =>
            \A c \in {Image[i].annotation, Image[i].pin} :
                c.repo # Repo(b) \/ c.digest # Image[b].digest
  BY <1>3, NamedLater
<1>5. ASSUME NEW b \in S, i \in Below(b) PROVE FALSE
  <2>1. /\ Proof(place[i].link) /\ place[i].link.repo = Repo(b)
        /\ place[i].link.digest = Image[b].digest
    BY <1>5 DEF Below
  <2>2. PICK a \in Ids : /\ Repo(a) = Repo(b) /\ Image[a].digest = Image[b].digest
                         /\ StartsWith(Image[i].layers, Image[a].layers)
                         /\ \/ HasStrictLayerPrefix(Image[i].layers, Image[a].layers)
                            \/ Names(i, place[i].link)
    BY <1>1, <2>1 DEF Borne
  <2>3. Image[a].layers = Image[b].layers
    BY <1>1, <2>2, DigestsName
  <2>4. len(i) = len(i0) /\ len(b) <= len(i) /\ len(i0) <= len(b)
    BY <1>2, <2>2, <2>3 DEF StartsWith
  <2>5. len(b) = len(i)
    <3> HIDE DEF len
    <3> QED
      BY <1>1, <2>4
  <2>6. ~HasStrictLayerPrefix(Image[i].layers, Image[b].layers)
    BY <1>1, <2>5 DEF HasStrictLayerPrefix
  <2>7. Image[b].layers = Image[i].layers
    <3> DEFINE bl == Image[b].layers
               il == Image[i].layers
    <3>1. /\ DOMAIN bl = 1..Len(bl) /\ DOMAIN il = 1..Len(il) /\ Len(bl) = Len(il)
      BY <1>1, <2>5, DigestsName
    <3>2. \A k \in 1..Len(bl) : bl[k] = il[k]
      BY <2>2, <2>3 DEF StartsWith
    <3>3. bl = [k \in 1..Len(bl) |-> bl[k]] /\ il = [k \in 1..Len(il) |-> il[k]]
      BY <1>1, DigestsName
    <3> HIDE DEF bl, il
    <3>4. bl = il
      BY <3>1, <3>2, <3>3
    <3> QED
      BY <3>4 DEF bl, il
  <2>8. b \in T /\ Names(i, place[i].link)
    BY <2>2, <2>3, <2>6, <2>7
  <2>9. PICK c \in {Image[i].annotation, Image[i].pin} :
            c.repo = Repo(b) /\ c.digest = Image[b].digest
    BY <2>1, <2>8 DEF Names
  <2> QED
    BY <1>4, <2>7, <2>8, <2>9
<1> QED
  BY <1>4, <1>5

\* An image proves another its base only by layers of its own above it, or by a
\* name, and no names go in a circle: so no image is, over proven links, the
\* base of its own base.
THEOREM ProvenBasesAreAcyclic == Spec => []ProvenAcyclic
<1>1. BasesInv => ProvenAcyclic
  <2> SUFFICES ASSUME BasesInv, NEW i \in DOMAIN place
               PROVE  /\ i \notin Below(i)
                      /\ \A j \in Below(i) : i \notin Below(j) /\
                            \A k \in Below(j) : i \notin Below(k)
    BY DEF ProvenAcyclic
  <2>1. \A j, k : j \in Below(k) => j \in DOMAIN place
    BY DEF Below
  <2>2. i \notin Below(i)
    <3>1. \E m \in {i} : \A b \in {i} : m \notin Below(b)
      BY BasesAreFounded
    <3> QED
      BY <3>1
  <2>3. ASSUME NEW j \in Below(i), i \in Below(j) PROVE FALSE
    <3>1. {i, j} \in SUBSET DOMAIN place /\ {i, j} # {}
      BY <2>1
    <3>2. PICK m \in {i, j} : \A b \in {i, j} : m \notin Below(b)
      BY <3>1, BasesAreFounded
    <3> QED
      BY <2>3, <3>2
  <2>4. ASSUME NEW j \in Below(i), NEW k \in Below(j), i \in Below(k) PROVE FALSE
    <3>1. {i, j, k} \in SUBSET DOMAIN place /\ {i, j, k} # {}
      BY <2>1
    <3>2. PICK m \in {i, j, k} : \A b \in {i, j, k} : m \notin Below(b)
      BY <3>1, BasesAreFounded
    <3> QED
      BY <2>4, <3>2
  <2> QED
    BY <2>2, <2>3, <2>4
<1> QED
  BY <1>1, BasesInvariant, PTL

-----------------------------------------------------------------------------
(* The proof that dependents finds every image, by the shortest way.       *)

Counted == {i \in Observed : Counts(i)}
Under(i) == place[i].link.repo
Found == DOMAIN query.found
Level(i) == query.found[i]

\* What was found so far was found by a way of that many links; all that is
\* built on what was found before the last level was found by then; and what
\* was found at the last level is still to be followed.
Reached ==
    \A i \in Found :
        IF Level(i) = 1 THEN Under(i) = query.base
        ELSE query.transitive /\ \E j \in Found : Level(j) = Level(i) - 1 /\ Under(i) = Repo(j)
Spread ==
    /\ query.depth > 0 => \A i \in Counted : Under(i) = query.base => i \in Found /\ Level(i) = 1
    /\ query.transitive => \A j \in Found, i \in Counted :
          Level(j) < query.depth /\ Under(i) = Repo(j) => i \in Found /\ Level(i) <= Level(j) + 1
Following ==
    query.frontier =
        IF query.depth = 0 THEN {query.base}
        ELSE IF query.transitive THEN {Repo(j) : j \in {i \in Found : Level(i) = query.depth}}
        ELSE {}
QueryFields ==
    /\ query = [base |-> query.base, minimum |-> query.minimum,
                transitive |-> query.transitive, frontier |-> query.frontier,
                depth |-> query.depth, found |-> query.found]
    /\ query.depth \in Nat /\ query.transitive \in BOOLEAN
    /\ query.found = [i \in Found |-> query.found[i]]
AnswerInv ==
    /\ IsFiniteSet(Observed)
    /\ QueryFields
    /\ query.base = NoRepo => query.frontier = {}
    /\ query.base # NoRepo =>
          /\ phase = "reported"
          /\ Found \subseteq Counted /\ \A i \in Found : Level(i) \in 1..query.depth
          /\ Reached /\ Spread /\ Following

\* Taking the next level of dependents keeps the invariant of the answer.
LEMMA NextLevelKeeps ==
  ASSUME AnswerInv, NextLevel
  PROVE  AnswerInv'
<1> DEFINE level == {i \in Observed : /\ Counts(i) /\ Unseen(i)
                                      /\ place[i].link.repo \in query.frontier}
           depth == query.depth
<1>1. /\ query.frontier # {} /\ query.base # NoRepo
      /\ UNCHANGED <<estate, phase, place>>
      /\ depth \in Nat /\ query.transitive \in BOOLEAN
      /\ Found \subseteq Counted /\ \A i \in Found : Level(i) \in 1..depth
      /\ Reached /\ Spread /\ Following
  BY DEF NextLevel, AnswerInv, QueryFields
<1>2. /\ query'.base = query.base /\ query'.minimum = query.minimum
      /\ query'.transitive = query.transitive /\ query'.depth = depth + 1
      /\ query'.found = [i \in Found \cup level |-> IF i \in level THEN depth + 1 ELSE Level(i)]
      /\ query'.frontier = IF query.transitive THEN {Repo(i) : i \in level} ELSE {}
      /\ query' = [base |-> query'.base, minimum |-> query'.minimum,
                   transitive |-> query'.transitive, frontier |-> query'.frontier,
                   depth |-> query'.depth, found |-> query'.found]
  <2> DEFINE found == [i \in Found \cup level |-> IF i \in level THEN depth + 1 ELSE Level(i)]
             frontier == IF query.transitive THEN {Repo(i) : i \in level} ELSE {}
  <2>1. query' = [query EXCEPT !.depth = depth + 1, !.found = found, !.frontier = frontier]
    BY DEF NextLevel, Found, Level
  <2>2. query = [base |-> query.base, minimum |-> query.minimum,
                 transitive |-> query.transitive, frontier |-> query.frontier,
                 depth |-> query.depth, found |-> query.found]
    BY DEF AnswerInv, QueryFields
  <2> HIDE DEF found, frontier
  <2>3. /\ query'.base = query.base /\ query'.minimum = query.minimum
        /\ query'.transitive = query.transitive /\ query'.depth = depth + 1
        /\ query'.found = found /\ query'.frontier = frontier
        /\ query' = [base |-> query'.base, minimum |-> query'.minimum,
                     transitive |-> query'.transitive, frontier |-> query'.frontier,
                     depth |-> query'.depth, found |-> query'.found]
    BY <2>1, <2>2
  <2> QED
    BY <2>3 DEF found, frontier
<1>3. level \subseteq Counted /\ level \cap Found = {}
  BY DEF Counted, Unseen, Found
<1>4. \A i \in level : Under(i) \in query.frontier
  BY DEF Under
<1>5. \A i \in Counted : Under(i) \in query.frontier => i \in level \/ i \in Found
  BY DEF Counted, Unseen, Found, Under
<1> HIDE DEF level, depth
<1>6. /\ Found' = Found \cup level
      /\ \A i \in level : query'.found[i] = depth + 1
      /\ \A i \in Found : query'.found[i] = Level(i)
  BY <1>2, <1>3 DEF Found
<1>7. /\ Counted' = Counted /\ Observed' = Observed
      /\ \A i : Under(i)' = Under(i) /\ Level(i)' = query'.found[i]
  BY <1>1, <1>2 DEF Counted, Counts, Observed, Under, Level
<1>8. QueryFields'
  BY <1>1, <1>2, <1>6 DEF QueryFields
<1>9. Found' \subseteq Counted' /\ \A i \in Found' : Level(i)' \in 1..query'.depth
  <2>1. Found' \subseteq Counted'
    BY <1>1, <1>3, <1>6, <1>7
  <2>2. ASSUME NEW i \in Found' PROVE query'.found[i] \in 1..(depth + 1)
    <3>1. CASE i \in Found
      BY <1>1, <1>6, <3>1
    <3>2. CASE i \in level
      BY <1>1, <1>6, <3>2
    <3> QED
      BY <1>6, <3>1, <3>2
  <2> QED
    BY <1>2, <1>7, <2>1, <2>2
<1>10. depth > 0 => query.transitive /\ query.frontier = {Repo(j) : j \in {i \in Found : Level(i) = depth}}
  BY <1>1 DEF Following, depth
<1>11. depth = 0 => query.frontier = {query.base} /\ Found = {}
  BY <1>1 DEF Following, depth
<1>12. Reached'
  <2> SUFFICES ASSUME NEW i \in Found'
               PROVE  IF query'.found[i] = 1 THEN Under(i) = query.base
                      ELSE query.transitive /\ \E j \in Found' :
                              query'.found[j] = query'.found[i] - 1 /\ Under(i) = Repo(j)
    <3>1. \A i \in Found' : Level(i)' = query'.found[i] /\ Under(i)' = Under(i)
      BY <1>7
    <3>2. query'.base = query.base /\ query'.transitive = query.transitive
      BY <1>2
    <3> HIDE DEF Found, Level, Under
    <3> QED
      BY <3>1, <3>2 DEF Reached
  <2>1. CASE i \in Found
    BY <1>1, <1>6, <2>1 DEF Reached
  <2>2. CASE i \in level /\ depth = 0
    BY <1>4, <1>6, <1>11, <2>2
  <2>3. CASE i \in level /\ depth > 0
    <3>1. PICK j \in Found : Level(j) = depth /\ Under(i) = Repo(j)
      BY <1>4, <1>10, <2>3
    <3>2. query'.found[i] = depth + 1 /\ query'.found[j] = depth /\ j \in Found'
      BY <1>6, <2>3, <3>1
    <3> QED
      BY <1>1, <1>10, <2>3, <3>1, <3>2
  <2> QED
    BY <1>1, <1>6, <2>1, <2>2, <2>3
<1>13. ASSUME NEW i \in Counted, Under(i) = query.base PROVE i \in Found' /\ query'.found[i] = 1
  <2>1. CASE depth = 0
    BY <1>5, <1>6, <1>11, <1>13, <2>1
  <2>2. CASE depth > 0
    BY <1>1, <1>6, <1>13, <2>2 DEF Spread, depth
  <2> QED
    BY <1>1, <2>1, <2>2
<1>14. ASSUME query.transitive, NEW j \in Found', NEW i \in Counted,
              query'.found[j] < depth + 1, Under(i) = Repo(j)
       PROVE  i \in Found' /\ query'.found[i] <= query'.found[j] + 1
  <2>1. j \in Found /\ query'.found[j] = Level(j) /\ Level(j) \in 1..depth
    BY <1>1, <1>6, <1>14
  <2>2. CASE Level(j) < depth
    BY <1>1, <1>6, <1>14, <2>1, <2>2 DEF Spread, depth
  <2>3. CASE Level(j) = depth
    <3>1. Under(i) \in query.frontier
      BY <1>1, <1>10, <1>14, <2>1, <2>3
    <3>2. CASE i \in level
      BY <1>1, <1>6, <2>1, <2>3, <3>2
    <3>3. CASE i \in Found
      BY <1>1, <1>6, <2>1, <2>3, <3>3
    <3> QED
      BY <1>5, <3>1, <3>2, <3>3
  <2> QED
    BY <1>1, <2>1, <2>2, <2>3
<1>15. Spread'
  BY <1>2, <1>7, <1>13, <1>14 DEF Spread
<1>16. Following'
  <2>1. {i \in Found' : query'.found[i] = depth + 1} = level
    BY <1>1, <1>6
  <2>2. {i \in Found' : Level(i)' = query'.depth} = level
    BY <1>2, <1>7, <2>1
  <2>3. query'.depth # 0
    BY <1>1, <1>2
  <2> DEFINE last == {i \in Found : Level(i) = query.depth}
  <2>4. Following' <=> query'.frontier =
            IF query'.depth = 0 THEN {query'.base}
            ELSE IF query'.transitive THEN {Repo(j) : j \in last'} ELSE {}
    BY DEF Following
  <2>5. last' = level
    BY <2>2
  <2> HIDE DEF last
  <2> QED
    BY <1>2, <2>3, <2>4, <2>5
<1> QED
  BY <1>1, <1>2, <1>7, <1>8, <1>9, <1>12, <1>15, <1>16 DEF AnswerInv

\* Every step keeps the invariant of the answer.
LEMMA AnswerStep == AnswerInv /\ [Next]_vars => AnswerInv'
<1> SUFFICES ASSUME AnswerInv, [Next]_vars PROVE AnswerInv'
  OBVIOUS
<1>1. CASE NextLevel
  BY <1>1, NextLevelKeeps
<1>2. CASE Ask
  <2>1. PICK r \in Repos, m \in Strengths, t \in BOOLEAN :
          query' = [base |-> r, minimum |-> m, transitive |-> t,
                    frontier |-> {r}, depth |-> 0, found |-> <<>>]
    BY <1>2 DEF Ask
  <2>2. /\ query'.base = r /\ query'.depth = 0 /\ query'.transitive = t
        /\ query'.frontier = {r} /\ query'.found = <<>> /\ Found' = {}
    BY <2>1 DEF Found
  <2>3. phase = "reported" /\ phase' = phase /\ IsFiniteSet(Observed')
    BY <1>2 DEF Ask, AnswerInv, Observed
  <2>4. r # NoRepo
    BY Numbers
  <2>5. QueryFields'
    <3>1. <<>> = [i \in {} |-> query'.found[i]]
      OBVIOUS
    <3> QED
      BY <2>1, <2>2, <3>1 DEF QueryFields
  <2>6. Reached' /\ Spread' /\ Following'
    BY <2>2 DEF Reached, Spread, Following
  <2> QED
    BY <2>2, <2>3, <2>4, <2>5, <2>6 DEF AnswerInv
<1>3. CASE query' = query /\ Observed' = Observed
            /\ (query.base # NoRepo => phase' = phase /\ place' = place)
  <2>1. QueryFields'
    BY <1>3 DEF AnswerInv, QueryFields, Found
  <2>2. CASE query.base = NoRepo
    BY <1>3, <2>1, <2>2 DEF AnswerInv
  <2>3. CASE query.base # NoRepo
    <3>1. /\ Found' = Found /\ Counted' = Counted
          /\ \A i : Under(i)' = Under(i) /\ Level(i)' = Level(i)
      BY <1>3, <2>3 DEF Found, Counted, Counts, Under, Level
    <3>2. Reached => Reached'
      BY <1>3, <3>1 DEF Reached
    <3>3. Spread => Spread'
      BY <1>3, <3>1 DEF Spread
    <3>4. Following => Following'
      BY <1>3, <3>1 DEF Following
    <3> QED
      BY <1>3, <2>1, <2>3, <3>1, <3>2, <3>3, <3>4 DEF AnswerInv
  <2> QED
    BY <2>2, <2>3
<1>4. NextLevel \/ Ask \/ (query' = query /\ Observed' = Observed
            /\ (query.base # NoRepo => phase' = phase /\ place' = place))
  <2>1. query.base # NoRepo => phase = "reported"
    BY DEF AnswerInv
  <2> QED
    BY <2>1 DEF Next, vars, AddToGraph, GraphBuilt, Place, MarkRoots, Done, Observed
<1> QED
  BY <1>1, <1>2, <1>3, <1>4

\* The invariant of the answer holds in every behaviour.
LEMMA AnswerInvariant == Spec => []AnswerInv
<1>1. Init => AnswerInv
  <2> SUFFICES ASSUME Init PROVE AnswerInv
    OBVIOUS
  <2>1. IsFiniteSet(Observed)
    BY EstatesObserve DEF Init, Observed
  <2>2. query = NoQuery /\ Found = {}
    BY DEF Init, NoQuery, Found
  <2>3. <<>> = [i \in {} |-> query.found[i]]
    OBVIOUS
  <2>4. QueryFields
    BY <2>2, <2>3 DEF NoQuery, QueryFields
  <2> QED
    BY <2>1, <2>2, <2>4 DEF NoQuery, AnswerInv
<1> QED
  BY <1>1, AnswerStep, PTL DEF Spec

\* A way of links from the base that was asked for to an image, that takes as
\* many of them as the image was found at.
Way(s, i) ==
    /\ s \in Seq(Found) /\ Len(s) = Level(i) /\ s[Len(s)] = i
    /\ Under(s[1]) = query.base
    /\ \A k \in 2..Len(s) : Under(s[k]) = Repo(s[k - 1])
    /\ \A k \in 1..Len(s) : s[k] \in Found /\ Level(s[k]) = k

\* Every image found depends on the base by some way.
LEMMA WaysExist ==
  ASSUME AnswerInv, query.base # NoRepo, NEW i \in Found
  PROVE  \E s : Way(s, i)
<1> DEFINE lost == {d \in Nat : \E j \in Found : Level(j) = d /\ ~\E s : Way(s, j)}
<1>1. Reached /\ \A j \in Found : Level(j) \in Nat /\ Level(j) > 0
  BY DEF AnswerInv, QueryFields
<1> SUFFICES ASSUME ~\E s : Way(s, i) PROVE FALSE
  OBVIOUS
<1>2. lost \in SUBSET Nat /\ lost # {}
  <2>1. Level(i) \in lost
    BY <1>1
  <2> QED
    BY <2>1
<1>3. PICK d \in lost : \A e \in lost : d <= e
  <2> HIDE DEF lost
  <2> QED
    BY <1>2, SmallestExists
<1>4. PICK j \in Found : Level(j) = d /\ ~\E s : Way(s, j)
  BY <1>3
<1>5. CASE d = 1
  <2> DEFINE s == <<j>>
  <2>1. s \in Seq(Found) /\ Len(s) = 1 /\ s[1] = j
    OBVIOUS
  <2>2. Under(j) = query.base
    BY <1>1, <1>4, <1>5 DEF Reached
  <2> HIDE DEF s
  <2>3. Way(s, j)
    BY <1>4, <1>5, <2>1, <2>2 DEF Way
  <2> QED
    BY <1>4, <2>3
<1>6. CASE d # 1
  <2>1. PICK h \in Found : Level(h) = d - 1 /\ Under(j) = Repo(h)
    BY <1>1, <1>4, <1>6 DEF Reached
  <2>2. d \in Nat /\ Level(h) \in Nat /\ Level(h) > 0 /\ Level(h) < d
    BY <1>1, <1>4, <2>1
  <2>3. \E t : Way(t, h)
    <3>1. Level(h) \notin lost
      <4> HIDE DEF lost
      <4> QED
        BY <1>3, <2>2
    <3> QED
      BY <2>2, <3>1
  <2>4. PICK t : Way(t, h)
    BY <2>3
  <2> DEFINE s == Append(t, j)
  <2>5. /\ s \in Seq(Found) /\ Len(s) = Len(t) + 1 /\ s[Len(s)] = j
        /\ \A k \in 1..Len(t) : s[k] = t[k]
    BY <2>4, AppendProperties DEF Way
  <2>6. Len(t) = d - 1 /\ Len(t) \in Nat /\ Len(t) > 0 /\ t[Len(t)] = h
    BY <2>1, <2>2, <2>4 DEF Way
  <2> HIDE DEF s
  <2>7. /\ Len(s) = d /\ s[d] = j /\ s[d - 1] = h
        /\ \A k \in 1..d : k = d \/ (k \in 1..Len(t) /\ s[k] = t[k])
        /\ \A k \in 2..d : k = d \/ (k \in 2..Len(t) /\ s[k] = t[k] /\ s[k - 1] = t[k - 1])
    BY <2>2, <2>5, <2>6
  <2>8. /\ Under(t[1]) = query.base
        /\ \A k \in 2..Len(t) : Under(t[k]) = Repo(t[k - 1])
        /\ \A k \in 1..Len(t) : t[k] \in Found /\ Level(t[k]) = k
    BY <2>4 DEF Way
  <2>9. s[1] = t[1]
    BY <2>5, <2>6
  <2>10. \A k \in 2..d : Under(s[k]) = Repo(s[k - 1])
    BY <2>1, <2>7, <2>8
  <2>11. \A k \in 1..d : s[k] \in Found /\ Level(s[k]) = k
    BY <1>4, <2>7, <2>8
  <2>12. Way(s, j)
    BY <1>4, <2>5, <2>7, <2>8, <2>9, <2>10, <2>11 DEF Way
  <2> QED
    BY <1>4, <2>12
<1> QED
  BY <1>5, <1>6

\* A way is a chain of images that ends at the one found, as long as its level
\* says.
LEMMA WaysAreChains ==
  ASSUME AnswerInv, query.base # NoRepo, NEW i \in Found, NEW s, Way(s, i)
  PROVE  s \in Chains /\ Last(s) = i /\ Len(s) = Level(i)
<1>1. Found \subseteq Counted /\ IsFiniteSet(Observed) /\ Level(i) \in Nat /\ Level(i) > 0
  BY DEF AnswerInv, QueryFields
<1> DEFINE n == Len(s)
           here == 1..n
<1>2. n \in Nat /\ n > 0 /\ s \in [here -> Found] /\ \A k \in here : Level(s[k]) = k
  BY <1>1 DEF Way
<1>3. IsFiniteSet(here) /\ Cardinality(here) = n
  <2>1. IsFiniteSet(here) /\ Cardinality(here) = IF 1 > n THEN 0 ELSE n - 1 + 1
    BY <1>2, FS_Interval
  <2> QED
    BY <1>2, <2>1
<1>4. s \in Injection(here, Observed)
  <2>1. Found \subseteq Observed
    BY <1>1 DEF Counted
  <2>2. s \in [here -> Observed]
    BY <1>2, <2>1
  <2>3. \A j, k \in here : s[j] = s[k] => j = k
    BY <1>2
  <2> QED
    BY <2>2, <2>3 DEF Injection, IsInjective
<1> HIDE DEF here
<1>5. n <= Cardinality(Observed)
  BY <1>1, <1>3, <1>4, FS_Injection
<1>6. Cardinality(Observed) \in Nat
  BY <1>1, FS_CardinalityType
<1>7. s \in SeqOf(Counted, Cardinality(Observed))
  <2>1. s \in [1..n -> Counted]
    BY <1>1, <1>2 DEF here
  <2>2. n \in 0..Cardinality(Observed)
    BY <1>2, <1>5, <1>6
  <2> QED
    BY <2>1, <2>2 DEF SeqOf
<1>8. s # <<>> /\ Under(s[1]) = query.base /\ \A k \in 2..Len(s) : Under(s[k]) = Repo(s[k - 1])
  BY <1>2 DEF Way
<1>9. s \in Chains
  BY <1>7, <1>8 DEF Chains, Counted, Under
<1> QED
  BY <1>9 DEF Way, Last

\* Whatever way there is, an image at its end was found, and no later.
LEMMA ChainsAreFollowed ==
  ASSUME AnswerInv, query.base # NoRepo, query.frontier = {},
         NEW s \in Chains, query.transitive \/ Len(s) = 1
  PROVE  /\ Len(s) \in Nat /\ Last(s) \in Found /\ Level(Last(s)) <= Len(s)
<1> DEFINE n == Len(s)
           missed == {k \in 1..n : ~(s[k] \in Found /\ Level(s[k]) <= k)}
<1>1. /\ query.depth \in Nat /\ query.transitive \in BOOLEAN
      /\ \A i \in Found : Level(i) \in 1..query.depth
      /\ Spread /\ Following
  BY DEF AnswerInv, QueryFields
<1>2. /\ s \in SeqOf(Counted, Cardinality(Observed)) /\ s # <<>>
      /\ Under(s[1]) = query.base /\ \A k \in 2..n : Under(s[k]) = Repo(s[k - 1])
  BY DEF Chains, Counted, Under
<1>3. n \in Nat /\ n > 0 /\ \A k \in 1..n : s[k] \in Counted
  <2>1. PICK m \in 0..Cardinality(Observed) : s \in [1..m -> Counted]
    BY <1>2 DEF SeqOf
  <2>2. Cardinality(Observed) \in Nat
    BY FS_CardinalityType DEF AnswerInv
  <2>3. m \in Nat /\ s \in Seq(Counted) /\ Len(s) = m
    BY <2>1, <2>2
  <2>4. m # 0
    BY <1>2, <2>3
  <2> QED
    BY <2>1, <2>3, <2>4
<1>4. query.depth > 0
  BY <1>1 DEF Following
<1>5. query.transitive => \A i \in Found : Level(i) < query.depth
  <2> SUFFICES ASSUME query.transitive, NEW i \in Found, ~(Level(i) < query.depth) PROVE FALSE
    OBVIOUS
  <2>1. Level(i) = query.depth
    BY <1>1
  <2>2. Repo(i) \in {Repo(j) : j \in {h \in Found : Level(h) = query.depth}}
    BY <2>1
  <2> QED
    BY <1>1, <1>4, <2>2 DEF Following
<1> HIDE DEF n
<1>6. missed = {}
  <2> SUFFICES ASSUME missed # {} PROVE FALSE
    OBVIOUS
  <2>1. missed \in SUBSET Nat
    BY <1>3
  <2>2. PICK k \in missed : \A j \in missed : k <= j
    <3> HIDE DEF missed
    <3> QED
      BY <2>1, SmallestExists
  <2>3. k \in 1..n /\ k \in Nat /\ s[k] \in Counted
    BY <1>3, <2>2
  <2>4. CASE k = 1
    <3>1. s[1] \in Found /\ Level(s[1]) = 1
      BY <1>1, <1>2, <1>4, <2>3, <2>4 DEF Spread
    <3> QED
      BY <2>2, <2>4, <3>1
  <2>5. CASE k # 1
    <3>1. k - 1 \in 1..n /\ k - 1 \in Nat /\ k - 1 < k /\ k \in 2..n /\ n # 1
      BY <1>3, <2>3, <2>5
    <3>2. k - 1 \notin missed
      <4> HIDE DEF missed
      <4> QED
        BY <2>1, <2>2, <2>3, <3>1
    <3>3. s[k - 1] \in Found /\ Level(s[k - 1]) <= k - 1
      BY <3>1, <3>2
    <3>4. query.transitive
      BY <3>1 DEF n
    <3>5. s[k] \in Found /\ Level(s[k]) <= Level(s[k - 1]) + 1
      BY <1>1, <1>2, <1>5, <2>3, <3>1, <3>3, <3>4 DEF Spread
    <3>6. Level(s[k]) \in Nat /\ Level(s[k - 1]) \in Nat
      BY <1>1, <3>3, <3>5
    <3>7. Level(s[k]) <= k
      BY <2>3, <3>3, <3>5, <3>6
    <3> QED
      BY <2>2, <3>5, <3>7
  <2> QED
    BY <2>4, <2>5
<1>7. n \in 1..n
  BY <1>3
<1>8. s[n] \in Found /\ Level(s[n]) <= n
  BY <1>6, <1>7
<1> QED
  BY <1>3, <1>8 DEF Last, n

\* The level by level search that stops at images seen before misses no image that
\* a chain of images leads to, finds it by the shortest way or sooner, and finds
\* nothing that a chain of links by repository does not lead to, however the links
\* go in circles.
THEOREM DependentsAreFound == Spec => []NoDependentMissed
<1>1. AnswerInv => NoDependentMissed
  <2> SUFFICES ASSUME AnswerInv, query.base # NoRepo, query.frontier = {}
               PROVE  /\ \A s \in ImageChains : AskedFor(s) =>
                            Last(s) \in Found /\ query.found[Last(s)] <= Len(s)
                      /\ \A i \in Found :
                            \/ \E s \in ImageChains :
                                  AskedFor(s) /\ Last(s) = i /\ Len(s) = query.found[i]
                            \/ /\ query.transitive
                               /\ \E s \in Chains \ ImageChains :
                                     Last(s) = i /\ Len(s) = query.found[i]
    BY DEF NoDependentMissed, Found
  <2>1. ASSUME NEW s \in ImageChains, AskedFor(s)
        PROVE  Last(s) \in Found /\ query.found[Last(s)] <= Len(s)
    <3>1. s \in Chains /\ (query.transitive \/ Len(s) = 1)
      BY <2>1 DEF ImageChains, AskedFor
    <3> QED
      BY <3>1, ChainsAreFollowed DEF Level
  <2>2. ASSUME NEW i \in Found
        PROVE  \E s \in Chains : AskedFor(s) /\ Last(s) = i /\ Len(s) = query.found[i]
    <3>1. PICK s : Way(s, i)
      BY WaysExist
    <3>2. s \in Chains /\ Last(s) = i /\ Len(s) = Level(i)
      BY <3>1, WaysAreChains
    <3>3. query.transitive \/ Len(s) = 1
      BY <3>2 DEF AnswerInv, Reached
    <3> QED
      BY <3>2, <3>3 DEF AskedFor, Level
  <2>3. ASSUME NEW s \in Chains \ ImageChains, AskedFor(s) PROVE query.transitive
    <3>1. CASE Len(s) = 1
      <4>1. 2..Len(s) = {}
        BY <3>1
      <4>2. s \in ImageChains
        BY <2>3, <4>1 DEF ImageChains
      <4> QED
        BY <2>3, <4>2
    <3> QED
      BY <2>3, <3>1 DEF AskedFor
  <2> QED
    BY <2>1, <2>2, <2>3
<1> QED
  BY <1>1, AnswerInvariant, PTL
===============================================================================
