# A verification development of clearcutt

clearcutt records what an estate of container images is built on and what vouches for it. It
reads images and the evidence attached to them from registries, works out which image is
built on which, gives every image a verdict under a policy, and keeps a history of the
reports in a registry. This directory models the parts of it whose behaviour depends on
order, failure or concurrency: TLA+ modules translated from the Go source under `cli/`, TLC
configurations that check them on small instances, and theorems that TLAPS checks for every
value of the constants.

Paths below are relative to the repository root. `PROJECT.json` is the index: the components,
the runs with the properties each checks, the source lines behind every definition (`map`),
for every property a fault of the code it would notice (`mutants`), the hazards and the
theorems. Section 6 lists where code and docs, or code and expectation, part.

To check a run: `tlc -workers 2 -config bases.cfg MCEstateBases.tla`.
To check proofs: `tlapm EstateBases_proofs.tla`.

## 1. The system

    registries ──► import observe ──► snapshot ──► graph build ──► estate push ──► registry
        │                                              │                              ▲
        │  (images, referrers, tags)                   │ base graph                   │
        ▼                                              ▼                              │
    estate verify:  manifest cache ─► observation ─► discovery ─► evidence            │
                    verification ─► bases ─► rebuilds ─► verdicts ─► report, history ─┘

| Component | Source (`cli/internal/`) | State it keeps | Operations | Model |
|---|---|---|---|---|
| Estate history | `estate/history.go` | an image index under one mutable tag | PushSnapshot, ReadHistory | `EstateHistory`, `AppendLog` |
| Snapshot artifact, metrics | `estate/estate.go`, `metrics.go` | a manifest under a tag and its digest | Build, Push, Pull, Metrics | the write, in `EstateHistory`; the rest is data |
| Evidence verification | `estateverify/verify.go` | per kind of evidence: copies and their statuses | verifyEvidence, verifyKeys | `EvidenceCopies` |
| Evidence discovery | `estateverify/discover.go` | none across calls | list referrers and cosign tags, decode | `Referrers` |
| Image verification, verdict | `estateverify/build.go`, `policy.go`, `extract.go` | the report being built | platformImages, gatherEvidence, verdictAt | `ImageVerdict` (partly) |
| Manifest cache | `estateverify/cache.go` | answers by digest, and by tag and Accept header | RoundTrip | `ManifestCache` |
| Image observation | `estategraph/observe.go` | results by position, the written snapshot | ObserveImages | `ImageObservation` |
| Base graph | `estategraph/graph.go`, `layers.go`, `estateverify/build.go` | edges, roots; bases in the report | BuildGraph, claimedBase, markRoots | `BaseGraph`, `EstateBases` (partly) |
| Dependents | `estateverify/dependents.go` | none | Dependents | in `EstateBases` |
| Estate job commands | `commands/estate_cmd.go`, `estate_verify.go` | report and history files, the bundle at a reference | pull, verify, extendHistory, push | `EstateJob` (partly) |
| Rebuilds, stacks | `estateverify/reproduce.go`, `reproduction.go`, `stacks.go` | rebuild results | read or run rebuilds, follow rebase records, group by stack | `FactoryRecords` |
| Layer graph, packages | `estategraph/layergraph.go`, `packages.go`, `sbom.go` | queue, cache and failures while SBOMs are fetched | fetch SBOMs, compare and group images | `ContentGraph` (partly) |
| Evidence store | `evidence/` | manifests with a subject, export directories | attach, list, fetch, export, import | `Referrers` |
| Registry scan | `registryscan/` | a listing | page through repositories and tags | `Inventory` (partly) |
| Graph imports and reports | `estategraph/import.go`, `assess.go`, `builder.go`, `*_report.go` | none | parse, number, render | the IDs, in `Inventory` |
| Report schema, trust policy | `report/` | none | types, validation | no state |
| Commands and output | `commands/`, `output/` | none beyond the above | flags, printing | what `registry scan`, `graph packages` and `import observe` choose and write |
| Registry credentials | `registryauth/` | none | keychain lookup | no state |

**How they interact.** `estate verify` reads through one manifest cache that its goroutines
share. For each image it lists the platforms, looks up and verifies evidence, and settles a
base: first from the graph of what was observed, then from the registry. The verdict comes
from all of these. The report is written, then the history file beside it; `estate push`
stores both as one bundle. `registry scan` makes the inventory that `import observe` reads;
`graph layers` and `graph packages` compare what was observed. `evidence` attaches files to
images as referrers, next to what cosign and other tools attach. The registry calls, the files and the tags are
shared with other processes and nothing locks them.

**Where it is hard.**

- *Concurrency*: pushes that overlap on one tag; writers that each rewrite one index of
  referrers; goroutines that share the cache; observation workers fed over an unbuffered
  channel; workers that fetch SBOMs for images of one content.
- *Things that move*: tags are re-pointed between any two reads of one run, versions shift from
  one page of a listing to the next, and a lifecycle policy deletes what is being read.
- *Partial failure*: any request, cosign run or file write may fail while its neighbours
  succeed, and a write may be applied and its answer lost. What is unknown must not read as
  "missing", "verified" or "first run".
- *Crashes and cancellation*: between storing a snapshot and listing it, and between the
  report and the history.
- *Adversarial data, in order and number*: anyone who can push can attach copies, and labels
  may say anything; cost and outcome must not depend on them.
- *Circles*: rebase records, and repositories built on each other, may lead back to where they
  began.
- *Boundaries*: images with equal layers or equal names, times that are absent or the same
  second, a platform whose scan has no date, a page that is exactly full, a budget used up.

**What makes each part correct.** The history loses and repeats nothing. Only what a trusted
identity signed is verified, and nothing attached crowds it out. A failure never turns
into a better verdict. One run has one view of each tag. Observations are fresh and in
inventory order. A proven base is one whose layers are there, and the nearest wins. A
history that cannot be read is never started afresh. What is attached is found or unknown, what
was exported can be put back, and only verified records put an image on a stack. A scan misses
no tag silently, and a similarity is a share of what is really in both images.

## 2. The modules and the code

| Module | Models | State ↔ code |
|---|---|---|
| `AppendLog` | the promise of a history: recorded is kept, acknowledged is recorded | abstract |
| `EstateHistory` | `PushSnapshot`, `appendToHistory`, `ReadHistory` | `given` ↔ what one behaviour may meet (overlap, failed reads, failed writes), `history` ↔ the index's manifest list, `base[p]` ↔ the index held in memory between the read and the write, `acked` ↔ "appended to history" printed |
| `EvidenceCopies` | `verifyEvidence` with `verifyKeys`, `verifyWith`, `accepting`, `callerUnchecked` | `attached`/`status` ↔ the sorted copies and their statuses, `claims` ↔ certificates still to be settled, `untried`/`genuine` ↔ the runs that ask who signed and the content they gave |
| `Referrers` | `Attach`, `List`, `Fetch`, `Export`, `Import`; `Discover` with `cosignTags` and `decodeBundle` | `stored` ↔ manifests in the registry, `index` ↔ the tag `sha256-<digest>`, `client[c]` ↔ a command between its calls, with the index it read (`held`), `HeadManifest` ↔ the HEAD with which `remote.Write` begins and ends when the manifest is there, `cutShort` ↔ manifests whose write ended before the index listed them, `dir` ↔ `oci/`, the list in `export.json` and its subject, `discovery` ↔ where `Discover` is and what it returned so far |
| `ImageVerdict` | `buildImage`'s reads, `platformImages`, `gatherEvidence`, scan merging, `verdictAt` | `listed` ↔ platform images read, `unread` ↔ subjects whose lookup was refused, `item` ↔ the evidence in the report |
| `FactoryRecords` | `verifyKind`, `originalRecipe`, `boundReproduction`, `reproduce`, `reproduceLocally`, `FactoryReproducer.Reproduce`, `stacksOf` | `image` ↔ the image `buildImage` is at, `at`/`hops` ↔ the loop of `originalRecipe`, `stack` ↔ `Factory.StackDigest`, `outcome` ↔ `Reproducibility`, `current`/`signature` ↔ the stack's tag and its versions' signatures |
| `ManifestCache` | `RoundTrip` | `entries` ↔ the map under the mutex; `step`/`answer` ↔ each goroutine between lock, request and store |
| `ImageObservation` | `ObserveImages`, one run after another | `outcomes` ↔ the results slice, `next` ↔ the feeder, `saved` ↔ the snapshot written, `previous` ↔ what `--since` gave |
| `BaseGraph` | the rules of `graph.go` as operators: methods, strengths, candidates, `betterBase`, currency, roots | no state |
| `EstateBases` | `BuildGraph`, `claimedBase`, `markRoots`, `Dependents` | `edge` ↔ the graph's edges, `place` ↔ base, root or gap in the report, `known` ↔ the claims that could be read, `query` ↔ Dependents' frontier and result |
| `EstateJob` | the job of `docs/github-actions.md`: pull, verify, extend, push | `stored` ↔ the bundle at the reference, `dir` ↔ the files in the job's directory |
| `Inventory` | `Scan` over `GitHubPackages`, `runRegistryScan`, `ImportRefList` | `published` ↔ the registry's versions, `scan` ↔ repository, page and tags read so far, `entries` ↔ `Result.Repositories`, `inventory` ↔ the images with their IDs, an ID the words its string joins with dashes |
| `ContentGraph` | `EnrichWithSBOMs`, `PlanSBOMFetch`, `FetchSBOM`, `BuildLayerGraph`, `BuildPackageGraph`, `clusterImages` | `fetch.queue`/`working`/`cache`/`failures` ↔ the jobs channel, the workers and the two maps, `graph` ↔ the index being compared, what is left out, pairs and clusters |

`EstateHistory` implements `AppendLog` (`INSTANCE AppendLog WITH log <- Entries(history)`,
run and proved). `EstateBases` extends `BaseGraph`. `ContentGraph` extends `Inventory` and
composes with it: the registry that is scanned goes on changing while its images are observed
and their SBOMs fetched. `Referrers` composes the evidence store with discovery over one
registry. The seams between the others are inputs: `ImageVerdict` takes the statuses
`EvidenceCopies` computes, the drift `EstateBases` computes and the outcomes `FactoryRecords`
computes as given, and `FactoryRecords` takes statuses as given.

Definitions marked `mutant` in a module are plausible faults of the code named beside them.
They are never part of a specification.

**Abstractions worth knowing.** A snapshot is its digest (Build is deterministic). A
certificate stands for everything it names. Scans record one vulnerability at the
policy's severity, so counts are 0 or 1. Observations are a manifest digest and whether
config and layers could be read. In `EstateBases` images have one platform, a repository has
one tag that claims name, and days behind, shared layers and the builder profile are left out.
In `Referrers` an attachment is its image and a class of content, which stands for its digest;
what a tool other than `evidence` attaches appears in one step. In `FactoryRecords` images are
taken one at a time, as `Build`'s goroutines share none of this. Layers and packages of
`ContentGraph` are numbers, sorted as their keys are; a similarity is a rounded percentage.

## 3. The runs

| Run | Checks | Size | Shows |
|---|---|---|---|
| `history` | `NoDuplicateEntries` `EntriesStored` `ImplementsLog` `TrendOrderStable` | 0.9 M states | pushes one at a time, with crashes and unanswered writes: the history is a log; pushes that overlap, with every fault: no duplicate, no dangling entry, one order of the trend |
| `history_failed_read` | `HistoryGrows` | *violated* | the first finding of section 5 |
| `copies` | `VerifiedIsVouched` `NoCrowdingOut` `NothingNewerVouched` `MadeUpCostsNothing` `Decided` | 0.7 M | only vouched copies are verified, all those a certificate identity vouched for are, and forgeries cost nothing |
| `referrers` | `FoundOrUnknown` `ReportedIsListed` `ExportIsTrue` `ExportIsWhole` `ImportRestores` | 1.8 M | what is attached is found or unknown, what was reported stays listed but for two named gaps, and exports are whole, true and can be put back, while others write, delete and move |
| `verdict` | `VerifiedMeetsPolicy` `RefusedDecidesNothing` | 1.9 M | "verified" means the policy is met, but for named gaps; a refused lookup decides nothing |
| `factory` | `StackRestsOnVerified` `NoConsumerLost` `ReproductionRests` `StacksReported` | 0.6 M | records count only where an unbroken chain of verified ones leads, and wherever one does unless a recipe that cannot be read blocks it; circles end; the newest attestation counts, and a failed rebuild is no answer |
| `observe` | `ObservedInThisRun` `RunsEnd` | 71 k | incremental runs write nothing stale or out of order, strict runs write all or nothing, and runs end |
| `cache` | `EntriesAreServed` `OneViewOfTags` | 0.4 M | what is remembered was served; one run sees a tag one way but where two goroutines asked at once |
| `job` | `HistoryInOrder` `HistoryKept` `UnreadableStays` | 12 k | failures, cancellations and torn files lose no history while files are written whole |
| `bases` | `ProofIsLayers` `NearestBase` `ProvenAcyclic` `EveryImageIsPlaced` `NoDependentMissed` | 0.3 M | the graph, the claims and the questions over every small estate of nine images |
| `graph` | `NoTagMissed` `ListedWasThere` `PackagesAreItsContents` `FetchedOnce` `WidestLeftOut` `ScoresAreShares` `ClustersAreConnected` | 0.7 M | from a registry that changes to pairs and clusters: nothing missed, nothing of another image, scores and groups as defined |
| `ids` | `IDsUnique` | *violated* | the second finding of section 5 |

Properties are stated at the end of each module, each with the behaviour of the code it is
about. `TypeOK`, where a module has one, states the types of its variables; most are proved
(section 4), and the time of the runs is spent on the rest.

**Bounds, and why they are enough.**

- *History*: two pushers and three snapshots, two of them of one time. A lost update needs two
  pushers and a third entry to see what is left; a retry needs one write fault, and a retry
  that also fails needs two. `Circumstances` says what goes together: pushes one at a time with
  two failed writes, or pushes that overlap with a failed read and a failed write.
- *Copies*: up to three copies, two contents, three certificates, six signer lists (none, one,
  two identities, an identity with a key, two keys, an identity that is refused), one cosign
  run that fails. Crowding out takes one genuine copy and two others on either side; the
  number of runs depends on whether certificates name more than one signer, and two do.
- *Referrers*: two images, two commands that attach or restore, one export and one discovery,
  two troubles (a failed call, a deletion, a moved tag, another tool's attachment), and eight
  classes of attachments, one for each way evidence is stored and listed. A lost entry takes two
  writers of one index; an export that is short takes a deletion, one about another image a
  moved tag. Exports are to an empty directory (`FreshDir`, see section 6).
- *Verdict*: one platform or two, as merging takes two, with every pair of scans, and two platform
  images of one name, as a multi-variant index has; one failed read while listing, two refused
  lookups, so both platforms may be unknown at once.
- *Factory*: three images, so that a chain may be as long as `MaxHops` or lead in a circle past
  it; every chain with records verified or not, readable or not; eight sets of attestations:
  none, one or two that count, of two times, and such as are each wrong in one way; one fault. The code looks at no more than eight images (`build.go:798`), the model at two.
- *Observation*: two workers and two images, as completion order needs; two runs, as a
  carry-forward needs; one tag move and one fault at any point.
- *Cache*: two goroutines, one tag, one move. Three would add only more of the pairwise
  overlap that is allowed; an index and the image it lists tell the Accept headers apart.
- *Job*: five jobs over three seconds, so that equal times, a torn file and recovery from it
  fit in one behaviour.
- *Bases*: any one to three of nine images, at most one not fully read: upstream versions, an
  exact mirror, a mirror with other labels, run images, apps whose claims are true, false or
  name something unobserved. The longest chain of links takes three images.
- *Graph*: two repositories whose images end in one name, pages of two with up to four
  versions, a cap of two tags, two releases or deletions at any point, one fault, two workers.
  A version shifts to the next page with one push; a scan that is cut off needs more
  tags than the cap; two of the first versions share their content. The budgets are three pairs,
  which is exceeded, and ten, which is not; one reported pair, so the cap cuts some off.

`CHECK_DEADLOCK FALSE` stands only where the code returns: `verifyEvidence` and `verdictAt`
are done, the last job or observation run has ended, every image's records are read, the
commands of `referrers` and of `graph` have ended and nothing more is released. The other
runs check for deadlock.

**Fairness.** `EvidenceCopies` and `FactoryRecords` assume weak fairness of their next step:
each is one goroutine in a loop without blocking calls other than cosign, the registry and
clearcutt-factory, which are given a context. `ImageObservation` assumes weak fairness of each
worker's steps and of the end of a run: Go runs every goroutine that can run, and that a request
returns, with an answer or an error, is assumed (its context is the command's). Killing a run,
moving a tag and starting another run are never fair. Nothing else states liveness; pushers,
jobs, commands and cache clients may stop anywhere.

## 4. Proofs

| Theorem | Module | Assumes | By |
|---|---|---|---|
| `TypeCorrect` | `EstateHistory_proofs` | `FaultBounds`, `NoSnapshotIsNone` | `TypeOK` is inductive |
| `HistoryHasNoDuplicates`, `HistoryEntriesStored` | same | nothing more | `IndexInv` |
| `TrendOrderIsStable` | same | nothing more, whatever overlaps and fails | `IndexInv` and `Ordered` |
| `HistoryImplementsLog`, `AckedSnapshotsListed`, `HistoryOnlyGrows` | same | `Reliable`: one push at a time and no failed read | `SerialInv` |
| `UnreadableIsLeft` | same, about `EstateJob` | `NoContents` | `TornInv` |
| `HistoriesInOrder`, `HistoriesKept` | same | `NoContents`, `TimesAreNumbers` | `JobInv` |
| `TypeCorrect` | `EvidenceCopies_proofs` | `CopiesAreCopies`, `PolicyIsPolicy`, `CopyBounds`, `SignersAreApart` | `TypeInv` |
| `OnlyVouchedIsVerified` | same | the same, whatever runs fail | every status and every answer of cosign rests on a signature |
| `NothingCrowdsOut`, `NewestVouchedWins` | same | the same; the properties speak of no failed run | `AllOnCourse`, `BestIsNewest` |
| `MadeUpAttestationsCostNothing` | same | the same | `CostInv` |
| `StoreCorrect` | `Referrers_proofs` | `OursAreClasses`, `AttachedAsReferrers` | `StoreInv` is inductive |
| `ReportedStaysListed` | same | the same | `ReportInv`, whatever was written over or cut short |
| `ExportStaysTrue` | same | the same and `FreshDir` | `ExportInv` |
| `ExportsAreWhole` | same | the same, whatever the directory | `OfferInv` |
| `ImportsRestore` | same | the same and `FreshDir` | `RestoreInv` |
| `FoundOrElseUnknown` | same | the same and `KindsAreStored` | `FoundInv` |
| `TypeCorrect`, `ReproductionRestsOnRecords` | `FactoryRecords_proofs` | `Bounds`, `ImagesAreNamed`, `RecordsName`, `AttestationsAreTimed` | `TypeInv`; `Rests` of each outcome |
| `ConsumersRestOnVerified` | same | the same | `StackInv` |
| `ConsumersAreFound` | same | the same and `StacksAreNamed` | `FollowInv` |
| `ObservationTypes`, `WrittenIsObserved` | `Images_proofs`, about `ImageObservation` | `NoDigestIsNone`, `InventoryType`, `BoundsType` | `ObserveInv` |
| `VerifiedMeets`, `RefusalsDecideNothing` | same, about `ImageVerdict` | `NamesType`, `InputsType` | `VerdictInv` |
| `EntriesWereServed` | `ManifestCache_proofs` | `ServedType` | `CacheInv` |
| `OneViewPerRun` | same | the same | `ViewInv` |
| `ProvenBasesAreLayers` | `EstateBases_proofs` | `EstatesObserve` | `BasesInv` |
| `EveryImagePlaced` | same | `EstatesObserve` | `RootsInv` |
| `NearestBaseWins` | same | `EstatesObserve`, `OptionsType`, `DigestsName` | `NearestInv` |
| `ProvenBasesAreAcyclic` | same | `EstatesObserve`, `DigestsName`, `NamedLater` | `BasesInv` |
| `DependentsAreFound` | same | `EstatesObserve`, `Numbers` | `AnswerInv` |
| `ListingsWereThere` | `ContentGraph_proofs`, about `Inventory` | `Sizes`, `NamesType`, `VersionsType` | `ScanInv` |
| `NothingIsMissed` | same | the same | `ScanInv` and `StillToCome` |
| `PackagesComeFromContents` | same, about `ContentGraph` | nothing | its `CacheInv` |
| `ContentsFetchedOnce` | same | those of `NothingIsMissed` | `ContentInv`, `FetchInv` |
| `WidestIsLeftOut` | same | the same, `ItemsType`, `LimitsType` | `GraphInv` |
| `ReportedAsShared` | same | the same | `GraphInv`, and what the operators say of pairs |
| `ClustersConnect` | same | the same and `SimilarityIsShare` | `GraphInv`, `Grouped`, and `Joins` of the trees |

Most of the properties are not inductive. What each strengthening adds, and why:

- `IndexInv`: a push writes what it read earlier, so the index each pusher *holds* is as sound
  as the one stored, and a pusher past its first write has stored its snapshot.
- `Ordered`: entries are in the order of their time and, within one second, of their digest
  (`history.go:182`), whatever order they were pushed in; so two readings agree on any two entries
  that both have.
- `SerialInv`: at most one pusher is under way, and at the write what it holds still *is* the
  history. That is what fails when pushes overlap, and why the refinement needs `Reliable`.
  A write of the index whose answer arrives, or the finding that the entry is listed already, is
  the log's `Acknowledge`; a write whose answer is lost is its `Record`; every other step is a
  stutter. That acknowledged snapshots are listed and that the history only grows follow; neither
  has a run of its own.
- `TypeInv` of the copies: a pending copy is one whose turn is yet to come (its certificate
  is still among the claims, or the keys have not been tried), so none is pending at the end.
- `AllOnCourse`: a copy that ought to be verified either is, or is pending and every signer
  that would verify it is still to be asked; answers for other signers never settle it.
- `BestIsNewest`: once the item is concluded, what it stands on is a verified copy
  with none newer verified beside it.
- `CostInv`: a claim that survives to an exact run holds content that an earlier run found
  genuine.
- `StoreInv`: what a command holds of an index is about the image whose manifest it writes, so
  no index ever lists another image's attachments.
- `ReportInv`: a referrer that was ever stored is listed, or its image's index was written over, or
  a command has still to list it, or its write was cut short. A report without a write rests on this: `remote.Write` stops at
  the HEAD when the manifest is there. What is listed stays unless somebody who read the index
  before writes over it.
- `ExportInv`: what is copied is in the layout *before* `export.json` lists it, and while the tag
  stays the subject of the second HEAD is the one `List` pinned.
- `OfferInv`: what was offered is to be copied or was. An attachment that is gone ends the export
  and never leaves the list.
- `RestoreInv`: what an import owes is stored or still to be written. It needs that `export.json`
  lists no more than the layout holds, hence `ExportStaysTrue` and an empty directory.
- `FoundInv`: a referrer that stood all along is found, still to be read, or hidden by a
  referrers tag from before the API; attachments of cosign are there until their tag is read.
- `Rests`: the attestations that show an image reproduces are those that count and those without
  a time (`ShowsCounts`), so the newest that counts is the newest that shows it.
- `StackInv`: while records are followed an unbroken chain leads from the image
  to the one the search is at, so the recipe it ends with is at the end of a chain.
- `FollowInv`, the other way round: the image's own recipe counts only when it can be read
  (`Starts`), and a recipe attached to a later image ends the search (`Leads`). What leads on from the image being followed leads on, by as
  many records less, from the one the search is at, and the hops taken are never more than those
  a chain has. An image whose search is over is on the stack its records lead to.
- `CacheInv` of the cache: the tag may move between the answer and the store, so it is *answers
  under way* that must be what the tag has named at some time during the run, not the tag's
  present name.
- `ViewInv`: a goroutine that asks for what has been read since is one of two that overlapped;
  nobody else ever writes over an entry.
- `TornInv`: while a torn history is stored, a job's copy of it is torn or was never pulled,
  and a job that verifies did pull it.
- `JobInv`: while no file was cut short, a job past the pull holds all the entries that are
  stored, and while none was cancelled the report it holds is its history's first run.
- `ObserveInv`: every image of the run is with a worker, still to be fed, or has an outcome that
  a tag named *during this run*; a run that is over holds no worker. The carry-forward rests on
  the digest asked for in this run being the one observed before.
- `VerdictInv`: what was listed is a prefix of the image's platforms, all of them if no read
  failed. That a finding which is kept and whose fix is known counts, however many platforms have
  it, follows from the definition of the merge, over which `VerifiedMeets` counts.
- `BasesInv`: every edge and every reported link that is called proven is borne out by
  layers, whether the graph found it in what was observed or `claimedBase` in what the registry
  serves by then.
- `RootsInv`: an image reported to name no base, and given none, has no claim that could be read;
  `markRoots` relies on exactly this, and that every image is placed rests on it.
- `NearestInv`: layer proof outranks every other method and among proofs more layers win, so
  a best candidate cannot lose to a longer prefix. That lists of layers have lengths is in
  `DigestsName`.
- `ProvenBasesAreAcyclic` needs no more than `BasesInv`: a proven base has fewer layers, or
  the same layers and is named by what is built on it. So in any set of placed images one with
  the fewest layers, and among those one that names none of the others (`NamedLater`), has its
  base outside the set. A circle would be a set without such an image.
- `AnswerInv`: after *n* rounds everything found has a way of as many links as its level says
  (`Reached`), by digest or, with `--transitive`, by repository, all that is built on an earlier level was found (`Spread`), and the frontier is the
  last level (`Following`). So a chain is followed link by link, and a shortest chain has no image
  twice, which is why the bound on `Chains` leaves none out.
- `ScanInv`: repositories are recorded in turn, and a tag that was read was there while its
  repository was listed.
- `StillToCome`: a tag that stays, once its repository is being listed, was read or is on a page
  that comes next: a push moves it to a later place, and only a deletion to an earlier one.
- `ContentInv`, `FetchInv`: the keys in the queue and those asked for are the ones wanted, each
  once. A content that was asked for is with a worker or has its answer.
- `GraphInv`: items are compared narrowest first, so what was left out is never narrower than
  what was counted, and the pairs held only grow, so what did not fit then would not fit now.
  Scores need that shared items of a pair are counted once, and that rounding keeps the order of
  shares (`PercentIs`, `CloserOrders`).
- `Rooted` and `Joins`: the trees of union-find lead every image to one root, and joining two
  roots joins what they are the roots of (`JoinedIs`). After each pair, images whose roots are
  equal are in every set that is closed under the pairs so far. `Grouped` says that
  the images grouped are all there are, and that a group's really hold the same.
- `CacheInv` of the SBOMs: an answer is kept under the digest that was observed, and that digest
  is what was asked for, so the image an answer is folded into may be any of that content.

**Only model-checked.** Liveness (`Decided`, `RunsEnd`, `StacksReported`), which needs `ENABLED`:
every other property of the runs that pass is proved too. The library's induction theorems take
an operator as a parameter, which the provers cannot instantiate. Induction is therefore used in
the form of sets, where it needs no such theorem: a set of numbers has a least member, and among
a finite set of images one comes first. That the few recursive functions of the modules exist
(what `extendHistory` keeps, the trees of `clusterImages`) is proved the same way. No
module with a theorem declares a `RECURSIVE` operator.

## 5. Findings

Each is a run that TLC finds violated, and stands in `PROJECT.json` with the line it refutes.

**A failed read restarts the history** (`history_failed_read`, `estate/history.go:90`).
Any error of `remote.Index`, not only a missing tag, leaves an empty index, and the
write that follows replaces the series by one entry. `estate pull` guards against the same
thing (`commands/estate_cmd.go:238-240`).

**Two images of one ID** (`ids`, `estategraph/import.go:121-127`). An ID is the name of the image
and its tag, and the second image of a name gets `-2` appended. The result is neither looked up
nor recorded, so it may be the name of another: `a/app`, `b/app` and `c/app-2`, all `latest`, become
`app`, `app-2` and `app-2`, and so do `a/app:latest`, `b/app:2` and `b/app:latest`.
`report/report.go:241` says that "ID is unique within the report", and `Dependents` skips an image
whose ID it has seen (`dependents.go:48`).

## 6. Differences met that are not runs

The models do what the code does in each of these. Where a property would fail for it, the
property names the gap: an operator of its own or a disjunct of the formula, stated in its comment.
The instances reach it: without the disjunct, TLC finds the property violated.

*History and jobs*

- Overlapping pushes lose entries (`history.go:135`): inherent in the read and the write;
  the workflow serialises jobs. the run `history` leaves `HistoryGrows` out for this, and of
  two overlapping jobs the later drops the earlier's entry (`estate_verify.go:290`).
- A job cancelled between the report and the history pushes a report that its history does not
  list (`estate_verify.go:188-191`), and a torn history is pushed as it is (`:392`); later jobs then
  stop at it.

*Evidence and verdicts*

- With two trusted keys, as while one is rotated, the first that verifies anything marks the
  other's copies `failed`, newer ones included (`verify.go:195`); the docs say the newest verified
  copy counts. `NothingNewerVouched`, and `NoCrowdingOut` for copies signed with keys, speak of
  signers with at most one key.
- For plain signatures, made-up certificates do cost exact runs (`verify.go:770`);
  `MadeUpCostsNothing` is about attestations.
- Any cosign error, a registry it cannot reach included, makes a copy `failed`
  (`verify.go:789`). The properties about crowding out speak of runs without it.
- A platform that could not be read is not expected to have evidence (`build.go:280`), so an
  image may be verified on some of its platforms; `docs/verify-estate.md:89-94` says otherwise.
  `VerifiedMeetsPolicy` speaks of the platforms read (`listFaults > 0`).
- When platforms cannot be listed at all, evidence they carry is looked for on the index and
  reported missing (`build.go:190`, `:670`); `RefusedDecidesNothing` is about images listed in
  full.
- A rebase record nobody trusted signed, or that did not verify, excuses a recipe the policy
  requires (`build.go:694-696`), though nothing in such evidence is to be read or counted
  (`docs/verify-estate.md:41-42`): `RebaseUntrusted` in `VerifiedMeetsPolicy`.
- Of two platform images with one name the later one's scan overwrites the earlier one's
  (`build.go:756`), and its findings are lost: `Overwritten`.
- What several platforms report is one finding, with the fixes of the first platform by name
  (`extract.go:107`). Under `onlyFixed` a vulnerability that one platform can fix does not
  count if an earlier one cannot: `FixUnknownBefore`.
- One platform's unparsable scan keeps the others' findings from counting (`build.go:207-209`).
- Under `reproduce`, an image whose recipe lookup was refused may be verified
  (`policy.go:239`).
- A referrers tag left from before a registry gained the API hides what only the API lists
  (`discover.go:155`); `FoundOrUnknown` names the gap.
- One referrer that cannot be decoded makes all evidence of its image unknown.
- Two goroutines that miss together read a manifest twice, and of a tag that moved in between
  the later store wins (`cache.go:46`).

*Evidence store*

- On a registry without the Referrers API, an attach whose index write failed cannot be repaired
  by attaching again: the manifest has the same digest (`evidence.go:121`), `remote.Write` (`:153`)
  finds it with a HEAD and returns, and success is reported of what no listing will ever show;
  `docs/registry-native-evidence.md:61-64` has it listed. An import restores such an attachment no
  better. `ReportedIsListed` names it (`cutShort`), beside writers of one index that overlap
  (`raced`).

- An export into a directory that holds an older one, failing midway, leaves the older
  `export.json` beside a layout that no longer has what it lists (`export.go:83-85`);
  `ExportIsTrue` and `ImportRestores` are stated for empty directories.
- An export that is aborted leaves a layout an import then restores without complaint.
- A referrer that declares no artifact type is listed (`OfOurType`), and its export then ends with
  an error, so no export of that image succeeds while it is there.
- A tag that moves between `List` and the HEAD after it (`export.go:61`, `:72`) makes
  `export.json` name a subject the evidence is not about; `ExportIsTrue` excludes moves.

*Factory records*

- A recipe that is attached to an image on the way back, and that nobody trusted signed or that
  cannot be read, ends the search (`build.go:807-810`). The rebase record beside it would lead on
  to the recipe that names the stack, so anyone who can push hides a consumer of it;
  `docs/verify-estate.md:41-46` and `:211-214` say otherwise. `NoConsumerLost` names it: `Blocked`.
  The image's own unread recipe does not do this.

*Bases*

- A base's image ID is looked up by digest alone (`build.go:297`): a mirror, or an unread image
  with an empty digest, may be named.
- A root stays "proven" although `claimedBase` then places its only consumer elsewhere, and
  roots rest on weak edges too (`graph.go:449`).
- An observation whose config or layers could not be read keeps its manifest digest, so later
  incremental runs carry it forward unread (`observe.go:117`).
- Two images of equal layers that name each other would be each other's proven base. A digest
  covers the annotations, so they cannot do so by annotation. A recipe's lock
  written after its image was built could, and nothing looks: `ProvenAcyclic` is stated for
  recipes whose lock is older than their image (`NamedLater`).
- Transitive dependents follow repositories, not images (`dependents.go:45`,
  `docs/verify-estate.md:232`): an image on an old tag of a repository counts as a dependent of
  what the new tag is built on. `NoDependentMissed` has every chain of images in the answer, and
  what else is in it as this gap.
- When the platform listing fails, an image whose recipe's lock names a base is kept as a root
  (`build.go:335`, `docs/verify-estate.md:191`); `EveryImageIsPlaced` speaks of claims that could
  be read.
- "Versions behind" counts tags, so two tags of one version count twice.

*Scans, IDs and graphs*

- Adding a repository that sorts earlier renumbers the ones after it (`import.go:122`), though an ID
  is to be "stable across runs for the same repository" (`report.go:241`).
- A version deleted between two pages shifts the rest, and one is missed without a warning
  (`github.go`); `NoTagMissed` is stated for scans without deletions. A tag read twice takes two
  of the cap's places, and the cap sorts tags as strings, so `v9` is kept before `v10`.
- Packages are folded into a line of history and read back: scoped npm packages (`@scope/name`)
  and names with spaces are lost or split (`sbom.go:180`, `packages.go`). `Scoped` models the
  former.
- An attestation listed before the SBOM is taken for it and found to have no packages
  (`FetchSBOM`).
- `PlanSBOMFetch` also counts images without any reference, which `EnrichWithSBOMs` skips; every
  image of the model has one.
- `BuildPackageGraph` does not merge images of one reference, `BuildLayerGraph` does; an inventory
  of the model has each reference once.
- The budget counts pairs that are held already (`layergraph.go:430`), so an item may be left out
  that would add none; and the warning's "they are still reported in full as fleet core" need
  not hold of what is left out (`layergraph.go:241`).

## 7. Plan

Done, in order: `EstateHistory` over `AppendLog` (the mutable tag is the one thing several
processes write); `EvidenceCopies` (what trust rests on); `ImageVerdict`; `ImageObservation`
and `ManifestCache` (the goroutines); `EstateJob`; `BaseGraph` and `EstateBases`; `Referrers`
(where evidence comes from and goes to); `FactoryRecords`; `Inventory` and `ContentGraph`; proofs
of every safety property of the runs that pass.

Left:

1. *Compositions*: `Referrers`' discovery as the source of `EvidenceCopies`' copies, and
   `FactoryRecords` and `EstateBases` as the source of what `ImageVerdict` is given.
2. *Data*: the builder profile and days behind in `EstateBases`, several platforms per image
   there, and stacks over its links.

**Not modelled, and why.** Rendering, flag parsing and credentials keep no state. Types,
schema, validation and the trust policy's parsing are data. Parsing of payloads (SBOMs, scans,
in-toto statements) is modelled by its outcome: readable or not, found or not, dated or not.
`RemoteLister` pages inside the registry library. Byte counts, reach, coverage and the limit on
the number of images compared pairwise are sums over the index `ContentGraph` already has.
`assess.go` classifies one observation at a time. cosign, clearcutt-factory, go-containerregistry
and the registry are outside the repository: modelled as what their callers rely on, with every
failure the callers can meet.
