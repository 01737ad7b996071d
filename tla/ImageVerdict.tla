----------------------------- MODULE ImageVerdict -----------------------------
(***************************************************************************)
(* Verifying one image (estateverify/build.go, buildImage, platformImages  *)
(* and gatherEvidence) and deciding its verdict (policy.go, verdictAt).    *)
(*                                                                         *)
(* The image is one manifest, or an index of platform images.  Its         *)
(* platform images are read one by one, then the evidence attached to it   *)
(* and to each of them is looked up; every read may fail.  SBOMs and scans *)
(* are expected on each platform image, the rest on the image itself.      *)
(* What verifyEvidence says of one kind on one subject is given: see       *)
(* EvidenceCopies.  Scans record one vulnerability, at the policy's        *)
(* severity.  Base drift and the outcome of a rebuild are given too.       *)
(***************************************************************************)
EXTENDS Naturals, Sequences, FiniteSets, SequencesExt

CONSTANTS
    Top,                \* the image's own digest
    NameOf,             \* the name of each platform image's platform
    Images,             \* the images that may be verified
    Policies,           \* the policies they may be verified under
    MaxListFaults,      \* bound on failed reads of the index and its images
    MaxLookupFaults     \* bound on failed lookups of evidence

PerPlatform == {"sbom", "scan"}
Kinds == PerPlatform \cup {"signature", "provenance", "recipe", "rebase", "tests"}

Held == {"verified", "present", "failed", "missing"}
Statuses == Held \cup {"unknown", "not-applicable"}

Subjects == DOMAIN NameOf
Scan == [readable : BOOLEAN, found : BOOLEAN, fixed : BOOLEAN,
         suppressed : BOOLEAN, at : {"recent", "old", "unknown"}]
Image ==
    [observed : BOOLEAN,
     children : Seq(Subjects),  \* the platform images an index lists
     held : [Subjects -> [Kinds -> Held]],
     scan : [Subjects -> Scan],
     smokeTest : BOOLEAN,       \* in the recipe
     base : {"root", "current", "far behind", "undated", "unknown", "none"},
     rebuild : {"reproduced", "not-reproduced", "not-checked"},
     attested : {"recipe", "rebase", "none"}]
Policy ==
    [required : SUBSET Kinds, hasSigners : BOOLEAN, failOn : BOOLEAN,
     onlyFixed : BOOLEAN, maxScanAge : BOOLEAN, maxDaysBehind : BOOLEAN,
     reproduce : BOOLEAN]

ASSUME FaultBounds == MaxListFaults \in Nat /\ MaxLookupFaults \in Nat
ASSUME NamesType == Top \in Subjects /\ NameOf \in [Subjects -> Nat]
ASSUME InputsType == Images \subseteq Image /\ Policies \subseteq Policy

VARIABLES
    image, policy,
    phase,              \* "list", "children", "discover", "done"
    listed,             \* the platform images read
    toDiscover,         \* subjects whose evidence is to be looked up, in order
    unread,             \* subjects whose lookup failed
    item,               \* the status of each kind of evidence
    verdict,
    listFaults, lookupFaults

readFaults == <<listFaults, lookupFaults>>
vars == <<image, policy, phase, listed, toDiscover, unread, item, verdict,
          readFaults>>

-----------------------------------------------------------------------------
(* Evidence, as read from the platform images in list when the lookups of   *)
(* the subjects in failing failed.                                         *)

Look(kind, list) ==
    IF kind \in PerPlatform /\ list # <<>> THEN list ELSE <<Top>>

StatusAt(subject, kind, failing) ==
    IF subject \in failing THEN "unknown" ELSE image.held[subject][kind]

Concern == <<"verified", "present", "unknown", "missing", "failed">>

\* worst: the most concerning status of a kind's subjects.
Worst(statuses) ==
    Concern[CHOOSE i \in DOMAIN Concern :
        /\ Concern[i] \in statuses
        /\ \A j \in DOMAIN Concern : Concern[j] \in statuses => j <= i]

Gathered(kind, list, failing) ==
    Worst({StatusAt(s, kind, failing) : s \in ToSet(Look(kind, list))})

AlwaysExcused(gathered, smokeTest) ==                           \* mutant
    [gathered EXCEPT !["rebase"] = "not-applicable",
                     !["recipe"] = "not-applicable"]

\* An image was built from a recipe or rebased; a verified recipe may say
\* that a smoke test ran.
Excused(gathered, smokeTest) ==
    LET built == gathered["rebase"] = "missing"
        tested == gathered["recipe"] = "verified" /\ smokeTest
    IN  [gathered EXCEPT
            !["rebase"] = IF built THEN "not-applicable" ELSE @,
            !["recipe"] = IF ~built /\ @ = "missing"
                          THEN "not-applicable" ELSE @,
            !["tests"] = IF @ = "missing" /\ tested THEN "present" ELSE @]

Items(list, failing) ==
    IF image.observed
    THEN Excused([k \in Kinds |-> Gathered(k, list, failing)], image.smokeTest)
    ELSE [k \in Kinds |-> "unknown"]

\* Subjects whose verified scan is read; scans are kept by platform name, so
\* of two with one name the later is.
VerifiedScans(list, failing) ==
    LET look == Look("scan", list)
        verified == {i \in DOMAIN look :
                        StatusAt(look[i], "scan", failing) = "verified"}
        readable == {i \in verified : image.scan[look[i]].readable}
    IN  IF ~image.observed \/ readable # verified THEN {}
        ELSE {look[i] : i \in {j \in readable : \A k \in readable :
                   NameOf[look[k]] = NameOf[look[j]] => k <= j}}

LatestScan(scans) ==                                            \* mutant
    IF \E s \in scans : image.scan[s].at = "recent" THEN "recent" ELSE "old"

\* oldestScan: the image's findings are as fresh as its stalest scan.
ScannedAt(scans) ==
    IF \E s \in scans : image.scan[s].at = "unknown" THEN "unknown"
    ELSE IF \E s \in scans : image.scan[s].at = "old" THEN "old"
    ELSE "recent"

\* mergeVulnerabilities, then countAtOrAbove: whether the vulnerability
\* counts.  What several platforms report has the fix of the first by name.
Counts(scans) ==
    LET found == {s \in scans : image.scan[s].found}
    IN  /\ \E s \in found : ~image.scan[s].suppressed
        /\ policy.onlyFixed =>
              \E s \in found : /\ image.scan[s].fixed
                               /\ \A t \in found : NameOf[s] <= NameOf[t]

\* reproduce: "none" has no recipe, or none that could be read.  A verified
\* attestation of a reproduction from a verified record stands for a rebuild.
Reproduced(items) ==
    LET attached == {k \in {"recipe", "rebase"} :
                        items[k] \in {"verified", "present", "failed"}}
        record == IF "rebase" \in attached THEN "rebase" ELSE "recipe"
    IN  IF attached = {} THEN "none"
        ELSE IF \E k \in attached :
                    k = image.attested /\ items[k] = "verified"
             THEN "reproduced"
        ELSE IF items[record] # "verified" THEN "not-checked"
        ELSE image.rebuild

-----------------------------------------------------------------------------
(* The verdict (verdictAt).                                                *)

FailedBy(items, scans) ==
    \/ \E k \in policy.required : items[k] \in {"failed", "missing"}
    \/ policy.failOn /\ Counts(scans)
    \/ policy.maxDaysBehind /\ image.base = "far behind"
    \/ policy.reproduce /\ Reproduced(items) = "not-reproduced"

UndecidedBy(items, scans) ==
    \/ ~policy.hasSigners
    \/ \A k \in Kinds : items[k] # "verified"
    \/ \E k \in policy.required : items[k] \in {"present", "unknown"}
    \/ policy.failOn /\ (items["scan"] # "verified" \/ scans = {})
    \/ policy.maxScanAge /\ \/ items["scan"] # "verified" \/ scans = {}
                            \/ ScannedAt(scans) # "recent"
    \/ policy.maxDaysBehind /\ image.base \in {"undated", "unknown", "none"}
    \/ policy.reproduce /\ Reproduced(items) = "not-checked"

UndecidedIsVerified(items, scans) ==                            \* mutant
    IF FailedBy(items, scans) THEN "failed" ELSE "verified"

UnreadIsMissing(items, scans) ==                                \* mutant
    IF FailedBy([k \in Kinds |-> IF items[k] = "unknown" THEN "missing"
                                 ELSE items[k]], scans) THEN "failed"
    ELSE IF UndecidedBy(items, scans) THEN "unverified"
    ELSE "verified"

VerdictAt(items, scans) ==
    IF FailedBy(items, scans) THEN "failed"
    ELSE IF UndecidedBy(items, scans) THEN "unverified"
    ELSE "verified"

-----------------------------------------------------------------------------
Init ==
    /\ image \in Images
    /\ policy \in Policies
    /\ phase = "list"
    /\ listed = <<>>
    /\ toDiscover = <<>>
    /\ unread = {}
    /\ item = [k \in Kinds |-> "unknown"]
    /\ verdict = "none"
    /\ listFaults = 0 /\ lookupFaults = 0

ListFault == listFaults < MaxListFaults /\ listFaults' = listFaults + 1
LookupFault ==
    lookupFaults < MaxLookupFaults /\ lookupFaults' = lookupFaults + 1

DiscoverFrom(list) ==
    /\ phase' = "discover"
    /\ toDiscover' = <<Top>> \o SelectSeq(list, LAMBDA s : s # Top)

\* An image that couldn't be observed has no digest to ask about.
Unobserved ==
    /\ phase = "list" /\ ~image.observed
    /\ phase' = "discover"
    /\ UNCHANGED <<image, policy, listed, toDiscover, unread, item, verdict,
                   readFaults>>

\* remote.Get of the image: an index lists its platform images, if any are
\* looked at, and an image of one platform is its own.
GetImage ==
    /\ phase = "list" /\ image.observed
    /\ IF image.children \in {<<>>, <<Top>>}
       THEN listed' = image.children /\ DiscoverFrom(listed')
       ELSE phase' = "children" /\ UNCHANGED <<listed, toDiscover>>
    /\ UNCHANGED <<image, policy, unread, item, verdict, readFaults>>

GetImageFails ==
    /\ phase = "list" /\ image.observed
    /\ ListFault
    /\ DiscoverFrom(<<>>)
    /\ UNCHANGED <<image, policy, listed, unread, item, verdict, lookupFaults>>

\* idx.Image of the next platform image; after the last the list is done.
ReadChild ==
    /\ phase = "children"
    /\ listed' = Append(listed, image.children[Len(listed) + 1])
    /\ IF listed' = image.children THEN DiscoverFrom(listed')
       ELSE UNCHANGED <<phase, toDiscover>>
    /\ UNCHANGED <<image, policy, unread, item, verdict, readFaults>>

\* The platform images read so far are returned with a warning.
ReadChildFails ==
    /\ phase = "children"
    /\ ListFault
    /\ DiscoverFrom(listed)
    /\ UNCHANGED <<image, policy, listed, unread, item, verdict, lookupFaults>>

Discover ==
    /\ phase = "discover" /\ toDiscover # <<>>
    /\ toDiscover' = Tail(toDiscover)
    /\ UNCHANGED <<image, policy, phase, listed, unread, item, verdict, readFaults>>

DiscoverFails ==
    /\ phase = "discover" /\ toDiscover # <<>>
    /\ LookupFault
    /\ toDiscover' = Tail(toDiscover)
    /\ unread' = unread \cup {Head(toDiscover)}
    /\ UNCHANGED <<image, policy, phase, listed, item, verdict, listFaults>>

\* gatherEvidence's verification, and the verdict Build reaches at the end.
Decide ==
    /\ phase = "discover" /\ toDiscover = <<>>
    /\ item' = Items(listed, unread)
    /\ verdict' = VerdictAt(item', VerifiedScans(listed, unread))
    /\ phase' = "done"
    /\ UNCHANGED <<image, policy, listed, toDiscover, unread, readFaults>>

Next ==
    \/ Unobserved
    \/ GetImage \/ GetImageFails
    \/ ReadChild \/ ReadChildFails
    \/ Discover \/ DiscoverFails
    \/ Decide

Spec == Init /\ [][Next]_vars

-----------------------------------------------------------------------------
(* Properties.                                                             *)

\* Every variable that changes holds a value of its type, and the platform
\* images read are the first of the image's.
TypeOK ==
    /\ phase \in {"list", "children", "discover", "done"}
    /\ IsPrefix(listed, image.children)
    /\ IsSuffix(toDiscover, <<Top>> \o SelectSeq(listed, LAMBDA s : s # Top))
    /\ unread \subseteq {Top} \cup ToSet(listed)
    /\ item \in [Kinds -> Statuses]
    /\ verdict \in {"none", "verified", "unverified", "failed"}
    /\ (verdict = "none") = (phase # "done")
    /\ listFaults \in 0..MaxListFaults
    /\ lookupFaults \in 0..MaxLookupFaults

\* The verdict had every read succeeded.
VerdictIfRead ==
    LET items == Items(image.children, {})
    IN  VerdictAt(items, VerifiedScans(image.children, {}))

\* With the platforms listed in full, refused lookups of evidence decide
\* nothing ("Lookups the registry refuses are reported as unknown, not
\* missing"): they make no image verified that would not be, and none fail but
\* for what a verified scan found, since a scan that cannot be parsed keeps
\* those of the other platforms from counting until its lookup is refused.  A
\* rebuild is left out of the first: whether one is asked for depends on what
\* the lookup of the image's own evidence found.
RefusedDecidesNothing ==
    listFaults = 0 =>
        /\ verdict = "verified" /\ ~(policy.reproduce /\ Top \in unread) =>
              VerdictIfRead = "verified"
        /\ verdict = "failed" =>
              \/ VerdictIfRead = "failed"
              \/ /\ policy.failOn
                 /\ \E s \in ToSet(Look("scan", listed)) \ unread :
                       /\ image.held[s]["scan"] = "verified" /\ image.scan[s].readable
                       /\ image.scan[s].found /\ ~image.scan[s].suppressed

\* Scans are kept by the name of the platform: of two platform images with one
\* name, the earlier one's scan is overwritten by the later one's.
Overwritten(s) ==
    LET look == Look("scan", listed)
    IN  \E i, j \in DOMAIN look :
          i < j /\ look[i] = s /\ look[j] # s /\ NameOf[look[i]] = NameOf[look[j]]

\* What several platforms report has the fixes of the first by name: of what is
\* fixed on one platform, an earlier one may know no fix.
FixUnknownBefore(s) ==
    \E t \in ToSet(Look("scan", listed)) :
        /\ NameOf[t] < NameOf[s]
        /\ image.scan[t].found /\ ~image.scan[t].fixed

\* Under failOn or maxScanAge, every platform image read has a verified scan that
\* could be read; under failOn it reports nothing that counts, and under
\* maxScanAge it is neither old nor undated.  Two gaps: a scan may be overwritten,
\* and under onlyFixed what a scan says is fixed may not count because another
\* says that it is not.
ScansAreClean ==
    \A s \in ToSet(Look("scan", listed)) :
        LET scan == image.scan[s]
        IN  /\ policy.failOn \/ policy.maxScanAge =>
                  image.held[s]["scan"] = "verified" /\ scan.readable
            /\ policy.failOn /\ scan.found /\ ~scan.suppressed =>
                  \/ policy.onlyFixed /\ (~scan.fixed \/ FixUnknownBefore(s))
                  \/ Overwritten(s)
            /\ policy.maxScanAge => scan.at = "recent" \/ Overwritten(s)

\* A rebased image has no recipe: its rebase record says so, when it is verified
\* ("Evidence that is present or failed is reported, but nothing in it is read or
\* counted").  The gap: a rebase record nobody trusted signed, or that did not
\* verify, excuses the image of its recipe all the same.
RebaseSaysSo == image.held[Top]["rebase"] = "verified"
RebaseUntrusted == image.held[Top]["rebase"] \in {"present", "failed"}

\* An image is verified only when someone the policy trusts vouched for some
\* of its evidence and each kind required of it was verified wherever it
\* belongs, but for a rebase record that a built image has not and a recipe that
\* a rebased one has not; when how far its base is behind was measured, if the
\* policy limits it; when the record it was made from reproduces it, if the
\* policy asks, its own evidence could be looked up and there is one; and when
\* its scans are clean, on whichever platform the worst or the oldest is.  This
\* is said of every platform image while the list of them can be read.  After a
\* failed read it is said of those read before it, though the documentation would
\* have such an image unverified ("no verified scan of every platform").
VerifiedMeetsPolicy ==
    verdict = "verified" =>
        /\ policy.hasSigners
        /\ listed = image.children \/ listFaults > 0
        /\ ScansAreClean
        /\ \E s \in {Top} \cup ToSet(listed), k \in Kinds :
              image.held[s][k] = "verified"
        /\ \A k \in policy.required :
              \/ \A s \in ToSet(Look(k, listed)) :
                    image.held[s][k] = "verified"
              \/ k = "rebase" /\ image.held[Top]["rebase"] = "missing"
              \/ /\ k = "recipe" /\ image.held[Top]["recipe"] = "missing"
                 /\ RebaseSaysSo \/ RebaseUntrusted
        /\ policy.maxDaysBehind => image.base \in {"root", "current"}
        /\ policy.reproduce /\ Top \notin unread =>
              \/ \A k \in {"recipe", "rebase"} : image.held[Top][k] = "missing"
              \/ image.rebuild = "reproduced"
              \/ /\ image.attested # "none"
                 /\ image.held[Top][image.attested] = "verified"
=============================================================================
