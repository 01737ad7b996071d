------------------------- MODULE ManifestCache_proofs --------------------------
(***************************************************************************)
(* Proofs about ManifestCache, for any number of goroutines, tags, Accept  *)
(* headers and manifests, and however often tags move.                     *)
(***************************************************************************)
EXTENDS ManifestCache, TLAPS

-----------------------------------------------------------------------------
(* What may be remembered under a key: the manifest a digest names, and    *)
(* for a tag one that was served for it, and for what was asked.           *)

MayHold(key, content) ==
    \/ \E d \in Digests : key = DigestKey(d) /\ content = d
    \/ \E t \in Tags, a \in Accepts : \E d \in everNamed[t] :
          key = TagKey(t, a) /\ content = Served[d][a]

\* A goroutine that is under way has a key to remember the answer under, and
\* once it is answered the answer is one its key may hold, under the digest in
\* the header too.  Without this, that entries are served is not inductive:
\* the tag may move between the answer and the store.
Answered(c) ==
    /\ step[c] \in {"look", "ask", "read"} =>
          \/ \E d \in Digests : request[c] = DigestKey(d)
          \/ \E t \in Tags, a \in Accepts :
                request[c] = [by |-> "tag", tag |-> t, accept |-> a]
    /\ step[c] = "read" =>
          /\ MayHold(KeyOf(c), answer[c].content)
          /\ answer[c].header \in {answer[c].content, None}
          /\ answer[c].content \in Digests

CacheInv ==
    /\ names \in [Tags -> Digests]
    /\ everNamed \in [Tags -> SUBSET Digests]
    /\ \A t \in Tags : names[t] \in everNamed[t]
    /\ request \in [Clients -> {NoRequest} \cup {DigestKey(d) : d \in Digests}
          \cup [by : {"tag"}, tag : Tags, accept : Accepts]]
    /\ step \in [Clients -> {"idle", "look", "ask", "read"}]
    /\ answer \in [Clients -> [content : Digests \cup {None},
                               header : Digests \cup {None}]]
    /\ \A c \in Clients : Answered(c)
    /\ \A k \in DOMAIN entries : MayHold(k, entries[k])

\* A goroutine's key is a digest's or a tag's.
LEMMA KeysDiffer ==
    /\ \A d \in Digests, t \in Tags, a \in Accepts : DigestKey(d) # TagKey(t, a)
    /\ \A d, e \in Digests : DigestKey(d) = DigestKey(e) => d = e
    /\ \A t, u \in Tags : \A a, b \in Accepts :
          TagKey(t, a) = TagKey(u, b) => t = u /\ a = b
<1>1. ASSUME NEW d \in Digests, NEW t \in Tags, NEW a \in Accepts
      PROVE  DigestKey(d) # TagKey(t, a)
  <2>1. DigestKey(d).by = "digest" /\ TagKey(t, a).by = "tag"
    BY DEF DigestKey, TagKey
  <2> QED
    BY <2>1
<1>2. ASSUME NEW d \in Digests, NEW e \in Digests, DigestKey(d) = DigestKey(e)
      PROVE  d = e
  <2>1. DigestKey(d).digest = d /\ DigestKey(e).digest = e
    BY DEF DigestKey
  <2> QED
    BY <1>2, <2>1
<1>3. ASSUME NEW t \in Tags, NEW u \in Tags, NEW a \in Accepts,
             NEW b \in Accepts, TagKey(t, a) = TagKey(u, b)
      PROVE  t = u /\ a = b
  <2>1. /\ TagKey(t, a).tag = t /\ TagKey(u, b).tag = u
        /\ TagKey(t, a).accept = a /\ TagKey(u, b).accept = b
    BY DEF TagKey
  <2> QED
    BY <1>3, <2>1
<1> QED
  BY <1>1, <1>2, <1>3

\* What a registry serves for a key is something the key may hold.
LEMMA ServeAnswers ==
    ASSUME CacheInv, NEW c \in Clients, Serve(c)
    PROVE  Answered(c)'
<1>1. PICK content, header :
         /\ header \in {content, None}
         /\ content = IF ByTag(c)
                      THEN Served[names[request[c].tag]][request[c].accept]
                      ELSE request[c].digest
         /\ answer' = [answer EXCEPT ![c] = [content |-> content,
                                             header |-> header]]
  BY DEF Serve
<1>2. /\ step[c] = "ask" /\ step' = [step EXCEPT ![c] = "read"]
      /\ request' = request /\ everNamed' = everNamed
  BY DEF Serve
<1>3. answer'[c].content = content /\ answer'[c].header = header
  BY <1>1 DEF CacheInv
<1>4. CASE \E d \in Digests : request[c] = DigestKey(d)
  <2>1. PICK d \in Digests : request[c] = DigestKey(d)
    BY <1>4
  <2>2. request[c].by = "digest" /\ request[c].digest = d
    BY <2>1 DEF DigestKey
  <2>3. content = d /\ KeyOf(c) = DigestKey(d)
    BY <1>1, <2>1, <2>2 DEF ByTag, KeyOf
  <2>4. KeyOf(c)' = DigestKey(d)
    BY <1>2, <2>3 DEF KeyOf, ByTag
  <2> QED
    BY <1>1, <1>2, <1>3, <2>1, <2>3, <2>4 DEF Answered, MayHold, CacheInv
<1>5. CASE \E t \in Tags, a \in Accepts :
              request[c] = [by |-> "tag", tag |-> t, accept |-> a]
  <2>1. PICK t \in Tags, a \in Accepts :
           request[c] = [by |-> "tag", tag |-> t, accept |-> a]
    BY <1>5
  <2>2. request[c].by = "tag" /\ request[c].tag = t /\ request[c].accept = a
    BY <2>1
  <2>3. content = Served[names[t]][a] /\ KeyOf(c) = TagKey(t, a)
    BY <1>1, <2>2 DEF ByTag, KeyOf
  <2>4. KeyOf(c)' = TagKey(t, a)
    BY <1>2, <2>3 DEF KeyOf, ByTag
  <2>5. names[t] \in everNamed[t] /\ content \in Digests
    BY <2>3, ServedType DEF CacheInv
  <2> QED
    BY <1>1, <1>2, <1>3, <2>1, <2>3, <2>4, <2>5 DEF Answered, MayHold, CacheInv
<1> QED
  BY <1>2, <1>4, <1>5 DEF CacheInv, Answered

\* What is stored is held under keys that may hold it, the header's digest
\* among them.
LEMMA StoreIsHeld ==
    ASSUME CacheInv, NEW c \in Clients, Store(c)
    PROVE  \A k \in DOMAIN entries' : MayHold(k, entries'[k])
<1> DEFINE under == {KeyOf(c)} \cup
                        {DigestKey(d) : d \in {answer[c].header} \ {None}}
<1>1. step[c] = "read" /\ Answered(c)
  BY DEF Store, CacheInv
<1>2. \A k \in under : MayHold(k, answer[c].content)
  <2>1. MayHold(KeyOf(c), answer[c].content)
    BY <1>1 DEF Answered
  <2>2. ASSUME NEW d \in {answer[c].header} \ {None}
        PROVE  MayHold(DigestKey(d), answer[c].content)
    BY <1>1 DEF Answered, MayHold
  <2> QED
    BY <2>1, <2>2
<1>3. entries' = [k \in DOMAIN entries \cup under |->
                     IF k \in under THEN answer[c].content ELSE entries[k]]
  BY DEF Store, Updated
<1> HIDE DEF under
<1> QED
  BY <1>2, <1>3 DEF CacheInv

\* The cache's invariant holds in every behaviour.
LEMMA CacheInvariant == Spec => []CacheInv
<1>1. Init => CacheInv
  BY DEF Init, CacheInv, Answered, NoAnswer
<1>2. CacheInv /\ [Next]_vars => CacheInv'
  <2> SUFFICES ASSUME CacheInv, [Next]_vars PROVE CacheInv'
    OBVIOUS
  <2> USE DEF CacheInv
  <2>u. CASE UNCHANGED vars
    BY <2>u DEF vars, client, seen, Answered, MayHold, KeyOf, ByTag
  <2>1. ASSUME NEW t \in Tags, Move(t) PROVE CacheInv'
    <3>1. \A u \in Tags : everNamed[u] \subseteq everNamed'[u]
                          /\ names'[u] \in everNamed'[u]
      BY <2>1 DEF Move
    <3>2. \A k, content : MayHold(k, content) => MayHold(k, content)'
      BY <3>1 DEF MayHold
    <3>3. /\ names' \in [Tags -> Digests]
          /\ everNamed' \in [Tags -> SUBSET Digests]
      BY <2>1 DEF Move
    <3>4. UNCHANGED <<request, step, answer, entries>>
      BY <2>1 DEF Move, client
    <3>5. \A c \in Clients : KeyOf(c)' = KeyOf(c)
      BY <3>4 DEF KeyOf, ByTag
    <3>6. \A c \in Clients : Answered(c)'
      BY <3>2, <3>4, <3>5 DEF Answered
    <3> QED
      BY <3>1, <3>2, <3>3, <3>4, <3>6
  <2>2. ASSUME NEW c \in Clients, Request(c) \/ Hit(c) \/ Miss(c) \/ Fails(c)
                                  \/ Serve(c) \/ Store(c)
        PROVE  CacheInv'
    <3>1. UNCHANGED <<names, everNamed>>
      BY <2>2 DEF Request, Hit, Miss, Fails, Serve, Store
    <3>2. \A k, content : MayHold(k, content) => MayHold(k, content)'
      BY <3>1 DEF MayHold
    <3>3. \A d \in Clients \ {c} : /\ request'[d] = request[d]
                                   /\ step'[d] = step[d]
                                   /\ answer'[d] = answer[d]
      BY <2>2 DEF Request, Hit, Miss, Fails, Serve, Store, Return
    <3>4. \A d \in Clients \ {c} : Answered(d)'
      <4> TAKE d \in Clients \ {c}
      <4>1. KeyOf(d)' = KeyOf(d)
        BY <3>3 DEF KeyOf, ByTag
      <4> QED
        BY <3>2, <3>3, <4>1 DEF Answered
    <3>5. Answered(c)'
      <4>1. CASE Request(c)
        BY <4>1 DEF Request, Answered
      <4>2. CASE Hit(c) \/ Fails(c) \/ Store(c)
        BY <4>2 DEF Hit, Fails, Store, Return, Answered
      <4>3. CASE Miss(c)
        BY <4>3 DEF Miss, Answered
      <4>4. CASE Serve(c)
        BY <4>4, ServeAnswers
      <4> QED
        BY <2>2, <4>1, <4>2, <4>3, <4>4
    <3>6. /\ request' \in [Clients -> {NoRequest}
                \cup {DigestKey(d) : d \in Digests}
                \cup [by : {"tag"}, tag : Tags, accept : Accepts]]
          /\ step' \in [Clients -> {"idle", "look", "ask", "read"}]
      BY <2>2 DEF Request, Hit, Miss, Fails, Serve, Store, Return
    <3>7. answer' \in [Clients -> [content : Digests \cup {None},
                                   header : Digests \cup {None}]]
      <4>1. CASE Serve(c)
        <5>1. PICK content, header :
                 /\ header \in {content, None}
                 /\ answer' = [answer EXCEPT ![c] = [content |-> content,
                                                     header |-> header]]
          BY <4>1 DEF Serve
        <5>2. answer'[c].content = content /\ step'[c] = "read"
          BY <4>1, <5>1 DEF Serve
        <5>3. content \in Digests
          BY <3>5, <5>2 DEF Answered
        <5> QED
          BY <5>1, <5>3
      <4>2. CASE ~Serve(c)
        BY <2>2, <4>2 DEF Request, Hit, Miss, Fails, Store, Return, NoAnswer
      <4> QED
        BY <4>1, <4>2
    <3>8. (\A k \in DOMAIN entries : MayHold(k, entries[k]))'
      <4>1. \A k \in DOMAIN entries' : MayHold(k, entries'[k])
        <5>1. CASE Store(c)
          BY <5>1, StoreIsHeld
        <5>2. CASE ~Store(c)
          BY <2>2, <5>2 DEF Request, Hit, Miss, Fails, Serve
        <5> QED
          BY <5>1, <5>2
      <4> QED
        BY <3>1, <4>1 DEF MayHold
    <3> QED
      BY <3>1, <3>4, <3>5, <3>6, <3>7, <3>8
  <2> QED
    BY <2>u, <2>1, <2>2 DEF Next
<1> QED
  BY <1>1, <1>2, PTL DEF Spec

\* A manifest remembered under a digest is the one it names, and one
\* remembered for a tag was served for that tag and what was asked, whatever
\* the goroutines do and wherever tags move meanwhile.
THEOREM EntriesWereServed == Spec => []EntriesAreServed
<1>1. CacheInv => EntriesAreServed
  <2> SUFFICES ASSUME CacheInv PROVE EntriesAreServed
    OBVIOUS
  <2>1. ASSUME NEW d \in Digests, DigestKey(d) \in DOMAIN entries
        PROVE  entries[DigestKey(d)] = d
    <3>1. MayHold(DigestKey(d), entries[DigestKey(d)])
      BY <2>1 DEF CacheInv
    <3> QED
      BY <3>1, KeysDiffer DEF MayHold
  <2>2. ASSUME NEW t \in Tags, NEW a \in Accepts,
               TagKey(t, a) \in DOMAIN entries
        PROVE  entries[TagKey(t, a)] \in {Served[d][a] : d \in everNamed[t]}
    <3>1. MayHold(TagKey(t, a), entries[TagKey(t, a)])
      BY <2>2 DEF CacheInv
    <3> QED
      BY <3>1, KeysDiffer DEF MayHold
  <2> QED
    BY <2>1, <2>2 DEF EntriesAreServed
<1> QED
  BY <1>1, CacheInvariant, PTL

-----------------------------------------------------------------------------
(* One view of each tag.                                                   *)

Asking(c) == step[c] \in {"ask", "read"}

\* A tag's manifest is remembered only once it was read, and a goroutine that
\* is asking for what was read since, or for what another is asking for, is
\* one of two that overlapped.
ViewInv ==
    /\ fetched \subseteq DOMAIN entries
    /\ \A t \in Tags, a \in Accepts :
          TagKey(t, a) \in DOMAIN entries => TagKey(t, a) \in fetched
    /\ again \subseteq overlapped
    /\ \A c \in Clients :
          Asking(c) /\ KeyOf(c) \in fetched => KeyOf(c) \in overlapped
    /\ \A c, d \in Clients :
          c # d /\ Asking(c) /\ Asking(d) /\ KeyOf(c) = KeyOf(d)
              => KeyOf(c) \in overlapped

View ==
    /\ \A k \in DOMAIN entries \ overlapped :
          k \in DOMAIN entries' /\ entries'[k] = entries[k]
    /\ again' \subseteq overlapped'

\* What was read, and who overlapped, stays as recorded when no entry changes
\* and no goroutine starts to ask.
LEMMA ViewKept ==
    ASSUME ViewInv, UNCHANGED <<entries, seen>>,
           \A c \in Clients : Asking(c)' => Asking(c) /\ KeyOf(c)' = KeyOf(c)
    PROVE  ViewInv' /\ View
BY DEF ViewInv, View, seen

\* A goroutine that misses is not asking for what was read before.
LEMMA MissKeepsView ==
    ASSUME CacheInv, ViewInv, NEW c \in Clients, Miss(c)
    PROVE  ViewInv' /\ View
<1>1. /\ step' = [step EXCEPT ![c] = "ask"] /\ KeyOf(c) \notin fetched
      /\ UNCHANGED <<entries, request, fetched, again>>
      /\ overlapped' = overlapped \cup Underway(c)
  BY DEF Miss, ViewInv
<1>2. \A d \in Clients : KeyOf(d)' = KeyOf(d)
  BY <1>1 DEF KeyOf, ByTag
<1>3. \A d \in Clients \ {c} : Asking(d)' <=> Asking(d)
  BY <1>1 DEF Asking, CacheInv
<1>4. \A d \in Clients \ {c} :
          Asking(d) /\ KeyOf(d) = KeyOf(c) => KeyOf(c) \in overlapped'
  BY <1>1 DEF Underway, Asking
<1>5. ASSUME NEW d \in Clients, Asking(d)', KeyOf(d) \in fetched
      PROVE  KeyOf(d) \in overlapped'
  BY <1>1, <1>3, <1>5 DEF ViewInv
<1>6. ASSUME NEW d \in Clients, NEW e \in Clients, d # e, Asking(d)', Asking(e)',
             KeyOf(d) = KeyOf(e)
      PROVE  KeyOf(d) \in overlapped'
  <2>1. CASE d = c
    BY <1>3, <1>4, <1>6, <2>1
  <2>2. CASE e = c
    BY <1>3, <1>4, <1>6, <2>2
  <2>3. CASE d # c /\ e # c
    <3>1. Asking(d) /\ Asking(e)
      BY <1>3, <1>6, <2>3
    <3> QED
      BY <1>1, <1>6, <3>1 DEF ViewInv
  <2> QED
    BY <2>1, <2>2, <2>3
<1> QED
  BY <1>1, <1>2, <1>5, <1>6 DEF ViewInv, View

\* What is stored leaves alone what is remembered, unless two goroutines
\* overlapped: under a digest it is the same manifest.
LEMMA StoreKeepsView ==
    ASSUME CacheInv, ViewInv, NEW c \in Clients, Store(c)
    PROVE  ViewInv' /\ View
<1> DEFINE key == KeyOf(c)
           named == {DigestKey(d) : d \in {answer[c].header} \ {None}}
<1>1. /\ step[c] = "read" /\ Answered(c) /\ Asking(c)
      /\ step' = [step EXCEPT ![c] = "idle"] /\ request' = [request EXCEPT ![c] = NoRequest]
      /\ fetched' = fetched \cup {key} /\ again' = again \cup ({key} \cap fetched)
      /\ overlapped' = overlapped
      /\ entries' = [k \in DOMAIN entries \cup ({key} \cup named) |->
                        IF k \in {key} \cup named THEN answer[c].content ELSE entries[k]]
  BY DEF Store, Return, Updated, CacheInv, Asking
<1>2. answer[c].content \in Digests /\ named \subseteq {DigestKey(answer[c].content)}
  BY <1>1 DEF Answered
<1>3. \/ \E d \in Digests : key = DigestKey(d) /\ answer[c].content = d
      \/ \E t \in Tags, a \in Accepts : key = TagKey(t, a)
  BY <1>1 DEF Answered, MayHold
<1>4. key \in fetched => key \in overlapped
  BY <1>1 DEF ViewInv
<1>5. ASSUME NEW d \in Digests, DigestKey(d) \in DOMAIN entries
      PROVE  entries[DigestKey(d)] = d
  <2>1. MayHold(DigestKey(d), entries[DigestKey(d)])
    BY <1>5 DEF CacheInv
  <2> QED
    BY <2>1, KeysDiffer DEF MayHold
<1>6. ASSUME NEW k \in DOMAIN entries \ overlapped
      PROVE  k \in DOMAIN entries' /\ entries'[k] = entries[k]
  <2> HIDE DEF key, named
  <2>1. CASE k \notin {key} \cup named
    BY <1>1, <2>1
  <2>2. CASE k = key \/ k \in named
    <3>1. CASE \E d \in Digests : k = DigestKey(d) /\ answer[c].content = d
      BY <1>1, <1>5, <2>2, <3>1
    <3>2. CASE \E t \in Tags, a \in Accepts : k = key /\ key = TagKey(t, a)
      BY <1>4, <3>2 DEF ViewInv
    <3> QED
      BY <1>2, <1>3, <2>2, <3>1, <3>2
  <2> QED
    BY <2>1, <2>2
<1>7. View
  BY <1>1, <1>4, <1>6 DEF View, ViewInv
<1>8. DOMAIN entries' = DOMAIN entries \cup ({key} \cup named)
  BY <1>1
<1>9. ASSUME NEW t \in Tags, NEW a \in Accepts, TagKey(t, a) \in DOMAIN entries'
      PROVE  TagKey(t, a) \in fetched'
  <2>1. TagKey(t, a) \notin named
    BY <1>2, KeysDiffer
  <2> QED
    BY <1>1, <1>8, <1>9, <2>1 DEF ViewInv
<1>10. ~Asking(c)' /\ \A d \in Clients \ {c} : KeyOf(d)' = KeyOf(d)
                                               /\ (Asking(d)' <=> Asking(d))
  BY <1>1 DEF Asking, KeyOf, ByTag, CacheInv
<1>11. ASSUME NEW d \in Clients, Asking(d)', KeyOf(d)' \in fetched'
       PROVE  KeyOf(d)' \in overlapped'
  <2>1. d # c /\ Asking(d) /\ KeyOf(d)' = KeyOf(d)
    BY <1>10, <1>11
  <2>2. CASE KeyOf(d) \in fetched
    BY <1>1, <2>1, <2>2 DEF ViewInv
  <2>3. CASE KeyOf(d) = key
    BY <1>1, <2>1, <2>3 DEF ViewInv
  <2> QED
    BY <1>1, <1>11, <2>1, <2>2, <2>3
<1>12. ASSUME NEW d \in Clients, NEW e \in Clients, d # e, Asking(d)', Asking(e)',
              KeyOf(d)' = KeyOf(e)'
       PROVE  KeyOf(d)' \in overlapped'
  BY <1>1, <1>10, <1>12 DEF ViewInv
<1>13. fetched' \subseteq DOMAIN entries'
  BY <1>1, <1>8 DEF ViewInv
<1> HIDE DEF key, named
<1> QED
  BY <1>7, <1>9, <1>11, <1>12, <1>13 DEF ViewInv, View

\* Every step keeps what was read, and who overlapped, as recorded.
LEMMA ViewStep == CacheInv /\ ViewInv /\ [Next]_vars => ViewInv' /\ View
<1> SUFFICES ASSUME CacheInv, ViewInv, [Next]_vars
             PROVE  ViewInv' /\ View
  OBVIOUS
<1>1. CASE UNCHANGED <<entries, seen, request, step>>
  BY <1>1, ViewKept DEF Asking, KeyOf, ByTag
<1>2. ASSUME NEW t \in Tags, Move(t)
      PROVE  ViewInv' /\ View
  BY <1>1, <1>2 DEF Move, client
<1>3. ASSUME NEW c \in Clients, Request(c) \/ Hit(c) \/ Fails(c) \/ Serve(c)
      PROVE  ViewInv' /\ View
  <2>1. UNCHANGED <<entries, seen>>
    BY <1>3 DEF Request, Hit, Fails, Serve
  <2>2. \A d \in Clients \ {c} : request'[d] = request[d] /\ step'[d] = step[d]
    BY <1>3 DEF Request, Hit, Fails, Serve, Return, CacheInv
  <2>3. Asking(c)' => Asking(c) /\ request'[c] = request[c]
    BY <1>3 DEF Request, Hit, Fails, Serve, Return, CacheInv, Asking
  <2> QED
    BY <2>1, <2>2, <2>3, ViewKept DEF Asking, KeyOf, ByTag
<1>4. ASSUME NEW c \in Clients, Miss(c) \/ Store(c)
      PROVE  ViewInv' /\ View
  BY <1>4, MissKeepsView, StoreKeepsView
<1>5. CASE UNCHANGED vars
  BY <1>1, <1>5 DEF vars, client
<1> QED
  BY <1>2, <1>3, <1>4, <1>5 DEF Next

\* For any number of goroutines and however often tags move, what is remembered
\* of a tag stands to the end of the run and nothing is read twice under one
\* key, unless two goroutines asked for it at once.
THEOREM OneViewPerRun == Spec => OneViewOfTags
<1>1. Init => ViewInv
  BY DEF Init, ViewInv, Asking
<1>2. CacheInv /\ ViewInv /\ [Next]_vars => ViewInv' /\ [View]_vars
  BY ViewStep
<1>3. View <=> /\ \A k \in DOMAIN entries \ overlapped :
                     k \in DOMAIN entries' /\ entries'[k] = entries[k]
               /\ again' \subseteq overlapped'
  BY DEF View
<1> HIDE DEF View
<1>4. Spec => [][View]_vars
  BY <1>1, <1>2, CacheInvariant, PTL DEF Spec
<1> QED
  BY <1>3, <1>4, PTL DEF OneViewOfTags
=============================================================================
