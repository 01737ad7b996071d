------------------------------- MODULE Referrers -------------------------------
(***************************************************************************)
(* What is attached to images in a registry: the evidence store            *)
(* (evidence/evidence.go, export.go), which attaches, lists, exports and   *)
(* restores bundles, and estate verify's discovery (estateverify/          *)
(* discover.go), which finds what is attached to one image.                *)
(*                                                                         *)
(* One action per registry call.  Meanwhile tags move, a lifecycle policy  *)
(* deletes attachments, other tools attach theirs, and any call may fail.  *)
(* The registry lists referrers itself (the Referrers API) or writers keep *)
(* an index under the tag sha256-<digest>, which two writers at once may   *)
(* each rewrite from what they read.                                       *)
(***************************************************************************)
EXTENDS Naturals, FiniteSets

CONSTANTS
    Images,             \* image digests
    Released,           \* the one the tag names at first
    Classes,            \* what is attached to an image, apart from its image
    Form,               \* how each class is stored and what it holds
    Ours,               \* classes evidence attach makes, one per content
    Before,             \* sets of referrers the image may start with
    Clients,            \* commands that attach or restore
    FreshDir,           \* an export is only written to an empty directory
    MaxWrites, MaxReads,
    MaxTrouble          \* failed calls, moved tags, deletions, other tools

\* A manifest's digest says what it holds and which image it is about.
Artifact == [of : Images, is : Classes]
NoTag == {}              \* an index tag that does not exist
NoDir == [layout |-> {}, listed |-> {}, subject |-> {}]
ASSUME OursAreClasses == Ours \subseteq Classes /\ Released \in Images
\* evidence attach writes referrers, and what an image starts with are some.
ASSUME AttachedAsReferrers ==
    /\ \A k \in Ours : Form[k].place = "referrer"
    /\ \A before \in Before : \A k \in before :
          k \in Classes /\ Form[k].place = "referrer"

VARIABLES
    api,                \* the registry has the Referrers API
    stored,             \* manifests in the registry
    collected,          \* those deleted and not stored again
    index,              \* what the tag sha256-<digest> of each image lists
    tag,                \* the image the tag names
    client,             \* each command's progress
    acked,              \* attachments a command reported
    offered,            \* evidence listed when the export began
    raced,              \* images whose index was written over a newer one
    cutShort,           \* manifests whose write ended before the index had
                        \* them, and that no write has listed since
    export,             \* the progress of evidence export
    dir,                \* the export's directory: oci/, export.json, subject
    discovery,          \* the progress of Discover
    standing,           \* what was attached all along since it began
    bounds

registry == <<api, stored, collected, index, tag>>
exporting == <<export, dir, offered>>
discovering == <<discovery, standing>>
reports == <<acked, raced, cutShort>>
vars == <<registry, client, reports, exporting, discovering, bounds>>

Spend(what, most) ==
    /\ bounds[what] < most
    /\ bounds' = [bounds EXCEPT ![what] = @ + 1]
Trouble(what) ==
    /\ bounds.faults + bounds.moves + bounds.collects + bounds.tools < MaxTrouble
    /\ bounds' = [bounds EXCEPT ![what] = @ + 1]
Fault == Trouble("faults")

IsReferrer(a) == Form[a.is].place = "referrer"
\* Referrers of an image by the API, or what the tag lists.
Referrers(i) == IF api THEN {a \in stored : IsReferrer(a) /\ a.of = i}
                ELSE index[i]
CosignTag(i, suffix) == {a \in stored : a.of = i /\ Form[a.is].place = suffix}
Attached(i) == Referrers(i) \cup CosignTag(i, ".sig") \cup CosignTag(i, ".att")

Idle == [at |-> "idle", todo |-> {}, held |-> {}, owes |-> {}]
-----------------------------------------------------------------------------
(* remote.Write of a manifest with a subject.                              *)

\* evidence attach: the HEAD that pins the subject.
Attach(c) ==
    /\ client[c] = Idle /\ Spend("writes", MaxWrites)
    /\ \E content \in Ours :
          client' = [client EXCEPT ![c] =
             [at |-> "head", todo |-> {[of |-> tag, is |-> content]},
              held |-> {}, owes |-> {}]]
    /\ UNCHANGED <<registry, reports, exporting, discovering>>

\* evidence import: every manifest of the layout is written in turn.
Import(c) ==
    /\ client[c] = Idle /\ Spend("writes", MaxWrites)
    /\ dir.layout # {}
    /\ client' = [client EXCEPT ![c] =
          [at |-> "head", todo |-> dir.layout, held |-> {}, owes |-> dir.listed]]
    /\ UNCHANGED <<registry, reports, exporting, discovering>>

\* The manifest a client is writing: the rest of todo comes after it.
Writing(c) == CHOOSE a \in client[c].todo : TRUE
Written(c) ==
    LET rest == client[c].todo \ {Writing(c)}
    IN  /\ acked' = acked \cup {Writing(c)}
        /\ client' = [client EXCEPT ![c] =
              IF rest = {} THEN Idle ELSE [@ EXCEPT !.at = "head",
                                                    !.todo = rest,
                                                    !.held = {}]]

SkipsListed(c) ==                                               \* mutant
    /\ client[c].at = "head"
    /\ IF Writing(c) \in Referrers(Writing(c).of)
       THEN Written(c)
       ELSE client' = [client EXCEPT ![c].at = "put"] /\ UNCHANGED acked
    /\ UNCHANGED <<registry, raced, cutShort, exporting, discovering, bounds>>

\* A manifest that is stored is not written again, and its image's index is
\* not looked at.
HeadManifest(c) ==
    /\ client[c].at = "head"
    /\ IF Writing(c) \in stored
       THEN Written(c)
       ELSE client' = [client EXCEPT ![c].at = "put"] /\ UNCHANGED acked
    /\ UNCHANGED <<registry, raced, cutShort, exporting, discovering, bounds>>

PutManifest(c) ==
    /\ client[c].at = "put"
    /\ stored' = stored \cup {Writing(c)}
    /\ collected' = collected \ {Writing(c)}
    /\ IF api THEN Written(c)
       ELSE client' = [client EXCEPT ![c].at = "read"] /\ UNCHANGED acked
    /\ UNCHANGED <<api, index, tag, raced, cutShort, exporting, discovering, bounds>>

\* The entry is listed already, or is added to the index that was read.
ReadIndex(c) ==
    /\ client[c].at = "read"
    /\ LET held == index[Writing(c).of]
       IN  IF Writing(c) \in held
           THEN Written(c) /\ cutShort' = cutShort \ {Writing(c)}
           ELSE /\ client' = [client EXCEPT ![c].at = "write",
                                            ![c].held = held]
                /\ UNCHANGED <<acked, cutShort>>
    /\ UNCHANGED <<registry, raced, exporting, discovering, bounds>>

StartsIndexAfresh(c) ==                                         \* mutant
    /\ client[c].at = "write"
    /\ LET i == Writing(c).of
       IN  /\ index' = [index EXCEPT ![i] = {Writing(c)}]
           /\ raced' = IF index[i] \subseteq client[c].held THEN raced
                       ELSE raced \cup {i}
    /\ Written(c)
    /\ UNCHANGED <<api, stored, collected, tag, cutShort, exporting, discovering,
                   bounds>>

WriteIndex(c) ==
    /\ client[c].at = "write"
    /\ LET i == Writing(c).of
       IN  /\ index' = [index EXCEPT ![i] = client[c].held \cup {Writing(c)}]
           /\ raced' = IF index[i] \subseteq client[c].held THEN raced
                       ELSE raced \cup {i}
           /\ standing' = standing \cap ({a \in Artifact : a.of # i}
                              \cup {a \in Artifact : ~IsReferrer(a)}
                              \cup index'[i])
    /\ cutShort' = cutShort \ {Writing(c)}
    /\ Written(c)
    /\ UNCHANGED <<api, stored, collected, tag, exporting, discovery, bounds>>

\* The manifest is stored and the index is still to be written.
Unlisted(c) == client[c].at \in {"read", "write"}

\* The command ends with the error; an import leaves what it restored.
WriteFails(c) ==
    /\ client[c] # Idle /\ Fault
    /\ client' = [client EXCEPT ![c] = Idle]
    /\ cutShort' = IF Unlisted(c) THEN cutShort \cup {Writing(c)} ELSE cutShort
    /\ UNCHANGED <<registry, acked, raced, exporting, discovering>>
-----------------------------------------------------------------------------
(* What happens to the registry meanwhile.                                 *)

\* cosign or another tool attaches something, in one step.
ToolAttaches(a) ==
    /\ a \notin stored /\ a.is \notin Ours /\ Trouble("tools")
    /\ stored' = stored \cup {a} /\ collected' = collected \ {a}
    /\ index' = IF api \/ ~IsReferrer(a) THEN index
                ELSE [index EXCEPT ![a.of] = @ \cup {a}]
    /\ UNCHANGED <<api, tag, client, reports, exporting, discovering>>

\* The lifecycle policy deletes a manifest, though a tagged index lists it.
Collect(a) ==
    /\ a \in stored /\ Trouble("collects")
    /\ stored' = stored \ {a}
    /\ collected' = collected \cup {a}
    /\ standing' = standing \ {a}
    /\ client' = [c \in Clients |-> [client[c] EXCEPT !.owes = @ \ {a}]]
    /\ UNCHANGED <<api, index, tag, reports, exporting, discovery>>

\* A release moves the tag to another image.
Move ==
    /\ Trouble("moves")
    /\ \E i \in Images \ {tag} : tag' = i
    /\ UNCHANGED <<api, stored, collected, index, client, reports, exporting,
                   discovering>>
-----------------------------------------------------------------------------
(* List and Export.                                                        *)

\* Fetch takes bundles of evidence attach only.
IsOurs(a) == Form[a.is].holds = "evidence"
NoExport == [at |-> "idle", todo |-> {}, done |-> {}, subject |-> {}]

\* List takes entries of its own type and of none.
OfOurType(a) == Form[a.is].listedAs \in {"evidence", ""}

\* List: HEAD and referrers.  An attachment whose manifest cannot be read is
\* listed without its names; one attachment or more is needed to go on.
StartExport ==
    /\ export.at = "idle" /\ Spend("reads", MaxReads)
    /\ LET listed == {a \in Referrers(tag) : OfOurType(a)}
       IN  IF listed = {} THEN UNCHANGED <<export, offered>>
           ELSE /\ export' = [at |-> "head", todo |-> listed, done |-> {},
                              subject |-> {}]
                /\ offered' = {a \in listed \cap stored : a.is \in Ours}
    /\ UNCHANGED <<registry, client, reports, dir, discovering>>

\* The second HEAD names the subject, and the layout is started anew.
HeadSubject ==
    /\ export.at = "head"
    /\ export' = [export EXCEPT !.at = "copy", !.subject = {tag}]
    /\ dir' = IF FreshDir THEN NoDir ELSE [dir EXCEPT !.layout = {}]
    /\ UNCHANGED <<registry, client, reports, offered, discovering,
                   bounds>>

SkipsUnreadable ==                                              \* mutant
    /\ export.at = "copy"
    /\ \E a \in export.todo :
          IF a \notin stored
          THEN export' = [export EXCEPT !.todo = @ \ {a}] /\ UNCHANGED dir
          ELSE /\ dir' = [dir EXCEPT !.layout = @ \cup {a}]
               /\ export' = IF ~IsOurs(a) THEN NoExport
                            ELSE [export EXCEPT !.todo = @ \ {a},
                                                !.done = @ \cup {a}]
    /\ UNCHANGED <<registry, client, reports, offered, discovering,
                   bounds>>

\* The manifest is appended to the layout before Fetch looks at its type; an
\* attachment that is gone or is none of ours ends the export.
CopyAttachment ==
    /\ export.at = "copy"
    /\ \E a \in export.todo :
          IF a \notin stored
          THEN export' = NoExport /\ UNCHANGED dir
          ELSE /\ dir' = [dir EXCEPT !.layout = @ \cup {a}]
               /\ export' = IF ~IsOurs(a) THEN NoExport
                            ELSE [export EXCEPT !.todo = @ \ {a},
                                                !.done = @ \cup {a}]
    /\ UNCHANGED <<registry, client, reports, offered, discovering,
                   bounds>>

WritesJSONFirst ==                                              \* mutant
    /\ export.at = "copy"
    /\ dir' = [dir EXCEPT !.listed = export.done \cup export.todo,
                          !.subject = export.subject]
    /\ export' = [export EXCEPT !.at = IF export.todo = {} THEN "idle" ELSE "copy"]
    /\ UNCHANGED <<registry, client, reports, offered, discovering,
                   bounds>>

WriteExportJSON ==
    /\ export.at = "copy" /\ export.todo = {}
    /\ dir' = [dir EXCEPT !.listed = export.done, !.subject = export.subject]
    /\ export' = NoExport
    /\ UNCHANGED <<registry, client, reports, offered, discovering,
                   bounds>>

ExportFails ==
    /\ export.at # "idle" /\ Fault
    /\ export' = NoExport
    /\ UNCHANGED <<registry, client, reports, dir, offered, discovering>>
-----------------------------------------------------------------------------
(* Discover: the referrers tag is looked for first, and without one the    *)
(* registry is asked, which go-containerregistry answers from the tag when *)
(* there is no API; then cosign's tags.  Any failure makes all unknown.    *)

\* KindOf, over the predicate types the report knows.
KindOf(predicate) ==
    CASE predicate \in {"cyclonedx", "spdx"} -> "sbom"
      [] predicate \in {"recipe", "legacyRecipe"} -> "recipe"
      [] predicate \in {"rebase", "legacyRebase"} -> "rebase"
      [] predicate \in {"signature", "vulnerabilityScan", "provenance",
                        "tests", "reproduction"} -> predicate
      [] OTHER -> ""

\* An attestation's statement says what it is; its layer's annotation only
\* where the statement does not.
Predicate(a) == IF Form[a.is].predicate # "" THEN Form[a.is].predicate
                ELSE Form[a.is].annotation
Found(a) == [of |-> a, kind |-> KindOf(Predicate(a))]

\* Evidence whose kind the report knows is stored where and as its readers
\* look for it.
ASSUME KindsAreStored == \A k \in Classes : Form[k].kind # "" =>
    /\ Form[k].kind = KindOf(IF Form[k].predicate # "" THEN Form[k].predicate
                             ELSE Form[k].annotation)
    /\ \/ Form[k].place \in {".sig", ".att"}
       \/ /\ Form[k].place = "referrer"
          /\ \/ Form[k].listedAs = "sbom"
             \/ Form[k].listedAs \in {"bundle", "empty", ""} /\ Form[k].holds = "bundle"

NoDiscovery == [at |-> "idle", of |-> Released, todo |-> {}, found |-> {},
                byTag |-> FALSE]
Unknown == [discovery EXCEPT !.at = "unknown"]
Looking(at, todo) == [discovery EXCEPT !.at = at, !.todo = todo]

HeadReferrersTag(i) ==
    /\ discovery.at \in {"idle", "done", "unknown"}
    /\ Spend("reads", MaxReads)
    /\ discovery' = [at |-> IF index[i] = NoTag THEN "api" ELSE "tag",
                     of |-> i, todo |-> {}, found |-> {},
                     byTag |-> index[i] # NoTag]
    /\ standing' = Attached(i)
    /\ UNCHANGED <<registry, client, reports, exporting>>

GetReferrers ==
    /\ discovery.at \in {"tag", "api"}
    /\ discovery' = Looking("entry", IF discovery.at = "tag"
                                     THEN index[discovery.of]
                                     ELSE Referrers(discovery.of))
    /\ UNCHANGED <<registry, client, reports, exporting, standing,
                   bounds>>

\* Entries that may hold a bundle are read; a raw SBOM is one by its type.
ByTypeAlone(a) == Form[a.is].listedAs = "bundle"                \* mutant
MayHoldBundle(a) == Form[a.is].listedAs \in {"bundle", "empty", ""}
ReadEntry ==
    /\ discovery.at = "entry"
    /\ \E a \in discovery.todo :
          LET form == Form[a.is]
              rest == [discovery EXCEPT !.todo = @ \ {a}]
              found == [rest EXCEPT !.found = @ \cup {Found(a)}]
          IN  discovery' =
                CASE MayHoldBundle(a) /\ (a \notin stored
                          \/ form.holds = "garbage") -> Unknown
                  [] MayHoldBundle(a) /\ a \in stored
                          /\ form.holds = "bundle" -> found
                  [] form.listedAs = "sbom" -> found
                  [] OTHER -> rest
    /\ UNCHANGED <<registry, client, reports, exporting, standing,
                   bounds>>

\* cosign's tags: a HEAD, and where there is one the image and its layers.
Suffix == [entry |-> ".sig", sig |-> ".sig", att |-> ".att", atts |-> ".att"]
AfterHead == [entry |-> "sig", att |-> "atts"]
AfterRead == [entry |-> "att", sig |-> "att", att |-> "done", atts |-> "done"]
HeadCosignTag ==
    /\ discovery.at \in {"entry", "att"} /\ discovery.todo = {}
    /\ LET there == CosignTag(discovery.of, Suffix[discovery.at]) # {}
       IN  discovery' = Looking(IF there THEN AfterHead[discovery.at]
                                ELSE AfterRead[discovery.at], {})
    /\ UNCHANGED <<registry, client, reports, exporting, standing,
                   bounds>>

ReadCosignTag ==
    /\ discovery.at \in {"sig", "atts"}
    /\ LET entries == CosignTag(discovery.of, Suffix[discovery.at])
       IN  discovery' =
             IF entries = {} THEN Unknown
             ELSE [discovery EXCEPT !.at = AfterRead[discovery.at],
                                    !.found = @ \cup {Found(a) : a \in entries}]
    /\ UNCHANGED <<registry, client, reports, exporting, standing,
                   bounds>>

\* A failure that is not a 404.
DiscoveryFails ==
    /\ discovery.at \notin {"idle", "done", "unknown"} /\ Fault
    /\ discovery' = Unknown
    /\ UNCHANGED <<registry, client, reports, exporting, standing>>
-----------------------------------------------------------------------------
\* A registry may have gained the API after writers kept an index in it.
Init ==
    /\ api \in BOOLEAN
    /\ tag = Released
    /\ \E before \in Before : LET first == [of : {Released}, is : before] IN
          /\ stored = first
          /\ index = [i \in Images |-> IF i = tag THEN first ELSE NoTag]
    /\ client = [c \in Clients |-> Idle]
    /\ collected = {} /\ acked = {} /\ raced = {} /\ cutShort = {} /\ offered = {} /\ standing = {}
    /\ export = NoExport /\ dir = NoDir
    /\ discovery = NoDiscovery
    /\ bounds = [writes |-> 0, reads |-> 0, moves |-> 0, collects |-> 0,
                 tools |-> 0, faults |-> 0]

Write == \E c \in Clients : \/ Attach(c) \/ Import(c) \/ HeadManifest(c) \/ PutManifest(c)
                            \/ ReadIndex(c) \/ WriteIndex(c) \/ WriteFails(c)
Export == \/ StartExport \/ HeadSubject \/ CopyAttachment
          \/ WriteExportJSON \/ ExportFails
Discover == \/ \E i \in Images : HeadReferrersTag(i)
            \/ GetReferrers \/ ReadEntry \/ HeadCosignTag \/ ReadCosignTag
            \/ DiscoveryFails
Next == \/ Write \/ Export \/ Discover \/ Move
        \/ \E a \in Artifact : ToolAttaches(a) \/ Collect(a)

Spec == Init /\ [][Next]_vars
-----------------------------------------------------------------------------
(* Properties.                                                             *)

\* What was attached before a discovery began and stays is found, as the kind
\* it was attached as, or the image's evidence is unknown: no failure, race
\* or deletion on the way reads as "missing".  The one gap is a referrers tag
\* from before the registry had the API, which hides what only the API lists.
FoundOrUnknown ==
    discovery.at = "done" =>
        \A a \in standing :
            \/ Form[a.is].kind = ""
            \/ [of |-> a, kind |-> Form[a.is].kind] \in discovery.found
            \/ api /\ discovery.byTag /\ a \notin index[discovery.of]

\* What attach or import reported is listed on its image unless it is deleted,
\* with two gaps, both on a registry without the API: two writers rewrote one
\* image's index at once; or a write of the same manifest has stored it and not
\* listed it, because it is still under way or because it ended in between, and
\* remote.Write then takes the stored manifest for a written one, so attaching
\* again after a failure reports success and lists nothing.
StillUnlisted(a) == a \in cutShort \/ \E c \in Clients : Unlisted(c) /\ Writing(c) = a
ReportedIsListed ==
    \A a \in acked : \/ a \in stored \cap Referrers(a.of)
                     \/ a \in collected
                     \/ ~api /\ (a.of \in raced \/ StillUnlisted(a))

\* export.json lists what oci/ holds, and, while no release moves the tag, all
\* of it is about the subject it names.
ExportIsTrue ==
    /\ dir.listed \subseteq dir.layout
    /\ bounds.moves = 0 => \A a \in dir.listed : dir.subject = {a.of}

\* An export that reports success has all the evidence that was listed: what
\* is deleted or cannot be read meanwhile never leaves it short in silence.
ExportIsWhole == [][dir'.listed \notin {dir.listed, {}} =>
                        offered \subseteq dir'.listed]_vars

\* An import that reports success has put back everything export.json lists
\* that was not deleted again meanwhile.
ImportRestores ==
    [][\A c \in Clients :
        client[c] # Idle /\ client'[c] = Idle /\ bounds' = bounds =>
            client[c].owes \subseteq stored']_vars
===============================================================================
