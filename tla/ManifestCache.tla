---------------------------- MODULE ManifestCache -----------------------------
(***************************************************************************)
(* The manifests one run remembers (estateverify/cache.go), an             *)
(* http.RoundTripper shared by the goroutines of estate verify.            *)
(*                                                                         *)
(* A manifest is asked for by tag, with an Accept header, or by digest.    *)
(* What a tag names, and so what is served for it, may change at any time; *)
(* a digest names one manifest.  A registry that answers gives the digest  *)
(* of what it served in a header, or leaves it out.                        *)
(***************************************************************************)
EXTENDS Naturals, FiniteSets

CONSTANTS
    Clients,            \* goroutines that read manifests
    Tags, Accepts,
    Digests,            \* manifests, each known by its digest
    Served,             \* what a tag that names a digest serves for an Accept
    None,               \* no manifest, and no digest header
    MaxMoves            \* bound on how often a tag is moved

ASSUME ServedType == Served \in [Digests -> [Accepts -> Digests]]
ASSUME NoneIsNoDigest == None \notin Digests
ASSUME BoundType == MaxMoves \in Nat

VARIABLES
    names,              \* what each tag names
    everNamed,          \* all it has named during the run
    entries,            \* the manifests remembered, by key
    request,            \* each goroutine's request
    step,               \* "look", "ask" the registry, or "read" its answer
    answer,             \* what the registry served
    fetched,            \* keys whose manifest was read from the registry
    again,              \* and those it was read for more than once
    overlapped,         \* keys two goroutines asked the registry for at once
    moves

client == <<request, step, answer>>
seen == <<fetched, again, overlapped>>
vars == <<names, everNamed, entries, client, seen, moves>>

DigestKey(d) == [by |-> "digest", digest |-> d]

AnyAccept(t, a) ==                                              \* mutant
    [by |-> "tag", tag |-> t, accept |-> CHOOSE b \in Accepts : TRUE]

\* cacheKey: "What a digest names never changes, so a digest's key ignores the
\* Accept header; what a tag names depends on what was asked for".
TagKey(t, a) == [by |-> "tag", tag |-> t, accept |-> a]

Keys == {DigestKey(d) : d \in Digests} \cup
        {TagKey(t, a) : t \in Tags, a \in Accepts}
NoRequest == [by |-> "nobody"]
NoAnswer == [content |-> None, header |-> None]

ByTag(c) == request[c].by = "tag"
KeyOf(c) == IF ByTag(c) THEN TagKey(request[c].tag, request[c].accept)
            ELSE request[c]

Return(c) ==
    /\ request' = [request EXCEPT ![c] = NoRequest]
    /\ step' = [step EXCEPT ![c] = "idle"]
    /\ answer' = [answer EXCEPT ![c] = NoAnswer]

-----------------------------------------------------------------------------
Init ==
    /\ names \in [Tags -> Digests]
    /\ everNamed = [t \in Tags |-> {names[t]}]
    /\ entries = [k \in {} |-> None]
    /\ request = [c \in Clients |-> NoRequest]
    /\ step = [c \in Clients |-> "idle"]
    /\ answer = [c \in Clients |-> NoAnswer]
    /\ fetched = {} /\ again = {} /\ overlapped = {}
    /\ moves = 0

\* Someone pushes another image to the tag.
Move(t) ==
    /\ moves < MaxMoves /\ moves' = moves + 1
    /\ \E d \in Digests \ {names[t]} : names' = [names EXCEPT ![t] = d]
    /\ everNamed' = [everNamed EXCEPT ![t] = @ \cup {names'[t]}]
    /\ UNCHANGED <<entries, client, seen>>

Request(c) ==
    /\ step[c] = "idle"
    /\ \/ \E d \in Digests : request' = [request EXCEPT ![c] = DigestKey(d)]
       \/ \E t \in Tags, a \in Accepts :
             request' = [request EXCEPT ![c] =
                            [by |-> "tag", tag |-> t, accept |-> a]]
    /\ step' = [step EXCEPT ![c] = "look"]
    /\ UNCHANGED <<names, everNamed, entries, answer, seen, moves>>

Hit(c) ==
    /\ step[c] = "look" /\ KeyOf(c) \in DOMAIN entries
    /\ Return(c)
    /\ UNCHANGED <<names, everNamed, entries, seen, moves>>

Underway(c) ==
    {KeyOf(d) : d \in {e \in Clients \ {c} : step[e] \in {"ask", "read"}}}
        \cap {KeyOf(c)}

AlwaysAsks(c) ==                                                \* mutant
    /\ step[c] = "look"
    /\ step' = [step EXCEPT ![c] = "ask"]
    /\ overlapped' = overlapped \cup Underway(c)
    /\ UNCHANGED <<names, everNamed, entries, request, answer, fetched, again,
                   moves>>

\* The lock is let go of before the registry is asked.
Miss(c) ==
    /\ step[c] = "look" /\ KeyOf(c) \notin DOMAIN entries
    /\ step' = [step EXCEPT ![c] = "ask"]
    /\ overlapped' = overlapped \cup Underway(c)
    /\ UNCHANGED <<names, everNamed, entries, request, answer, fetched, again,
                   moves>>

Serve(c) ==
    /\ step[c] = "ask"
    /\ LET content == IF ByTag(c)
                      THEN Served[names[request[c].tag]][request[c].accept]
                      ELSE request[c].digest
       IN  \E header \in {content, None} :
              answer' = [answer EXCEPT ![c] = [content |-> content,
                                               header |-> header]]
    /\ step' = [step EXCEPT ![c] = "read"]
    /\ UNCHANGED <<names, everNamed, entries, request, seen, moves>>

\* An error, another status than OK, or a body cut short is passed on and not
\* remembered.
Fails(c) ==
    /\ step[c] \in {"ask", "read"}
    /\ Return(c)
    /\ UNCHANGED <<names, everNamed, entries, seen, moves>>

DigestInsteadOfKey(key, a) ==                                   \* mutant
    LET under == IF a.header = None THEN {key} ELSE {DigestKey(a.header)}
    IN  [k \in DOMAIN entries \cup under |->
            IF k \in under THEN a.content ELSE entries[k]]

\* A manifest is remembered under the key it was asked for by and under the
\* digest the registry gives for it.
Updated(key, a) ==
    LET under == {key} \cup {DigestKey(d) : d \in {a.header} \ {None}}
    IN  [k \in DOMAIN entries \cup under |->
            IF k \in under THEN a.content ELSE entries[k]]

Store(c) ==
    /\ step[c] = "read"
    /\ entries' = Updated(KeyOf(c), answer[c])
    /\ fetched' = fetched \cup {KeyOf(c)}
    /\ again' = again \cup ({KeyOf(c)} \cap fetched)
    /\ Return(c)
    /\ UNCHANGED <<names, everNamed, overlapped, moves>>

Next ==
    \/ \E t \in Tags : Move(t)
    \/ \E c \in Clients :
          \/ Request(c)
          \/ Hit(c) \/ Miss(c)
          \/ Serve(c) \/ Fails(c)
          \/ Store(c)

Spec == Init /\ [][Next]_vars

-----------------------------------------------------------------------------
(* Properties.                                                             *)

\* Every variable holds a value of its type.
TypeOK ==
    /\ names \in [Tags -> Digests]
    /\ everNamed \in [Tags -> SUBSET Digests]
    /\ DOMAIN entries \subseteq Keys
    /\ \A k \in DOMAIN entries : entries[k] \in Digests
    /\ request \in [Clients -> {NoRequest} \cup {DigestKey(d) : d \in Digests}
          \cup [by : {"tag"}, tag : Tags, accept : Accepts]]
    /\ step \in [Clients -> {"idle", "look", "ask", "read"}]
    /\ answer \in [Clients -> [content : Digests \cup {None},
                               header : Digests \cup {None}]]
    /\ fetched \subseteq Keys /\ again \subseteq fetched
    /\ overlapped \subseteq Keys
    /\ moves \in 0..MaxMoves

\* A manifest remembered under a digest is the one it names, whoever asked for
\* it and however, and one remembered for a tag was served for that tag, and
\* for what was asked, during the run.
EntriesAreServed ==
    /\ \A d \in Digests :
          DigestKey(d) \in DOMAIN entries => entries[DigestKey(d)] = d
    /\ \A t \in Tags, a \in Accepts :
          TagKey(t, a) \in DOMAIN entries =>
              entries[TagKey(t, a)] \in {Served[d][a] : d \in everNamed[t]}

\* What was once remembered stands to the end of the run, wherever the tag has
\* moved to and whoever asks, and no manifest is read twice under one key ("A
\* run reads each manifest once"), unless two goroutines asked for it at once.
OneViewOfTags ==
    [][/\ \A k \in DOMAIN entries \ overlapped :
             k \in DOMAIN entries' /\ entries'[k] = entries[k]
       /\ again' \subseteq overlapped']_vars
=============================================================================
