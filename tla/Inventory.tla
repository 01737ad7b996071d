------------------------------- MODULE Inventory -------------------------------
(***************************************************************************)
(* From a registry to an inventory (registryscan, estategraph/import.go,   *)
(* commands/registry_cmd.go): repositories are listed, each one's tags are *)
(* read page by page while releases push, move and delete them, what is no *)
(* image and what is beyond the cap is left out, and every reference gets  *)
(* an ID.                                                                  *)
(*                                                                         *)
(* The lister is the one of GitHubPackages: versions come newest first.    *)
(***************************************************************************)
EXTENDS Naturals, Sequences, FiniteSets, FiniteSetsExt,
        SequencesExt, TLC

CONSTANTS
    Repositories,       \* their [path, base], sorted by path
    TagNames,           \* the tags there may be, sorted
    Sidecars,           \* places in TagNames of tags that hold evidence
    Selected,           \* of those --tag-pattern and --exclude-tag leave
    Sanitized,          \* sanitizeID of a base and of a tag, as its words:
                        \* runs of letters and digits, in lower case
    Words,              \* the words IDs are made of, sorted
    Contents,           \* digests
    Released,           \* of those a release may push while the scan goes on
    Published,          \* what the repositories may hold at first
    PageSize, MaxTags,
    MaxFaults, MaxChanges

Repos == DOMAIN Repositories
Tags == DOMAIN TagNames
None == "none"
Versions == [content : Contents, tags : SUBSET Tags]
ASSUME Sizes == {PageSize, MaxTags} \subseteq Nat \ {0}
ASSUME Bounds == {MaxFaults, MaxChanges} \subseteq Nat
ASSUME NamesType ==
    /\ Repositories \in Seq([path : STRING, base : STRING])
    /\ TagNames \in Seq(STRING) /\ Sidecars \cup Selected \subseteq Tags
    /\ \A name \in {Repositories[r].base : r \in Repos} \cup ToSet(TagNames) :
          Sanitized[name] \in Seq(STRING)
ASSUME VersionsType ==
    /\ None \notin Contents /\ Released \subseteq Contents
    /\ Published \subseteq [Repos -> Seq(Versions)]

VARIABLES
    published,          \* versions of each repository, newest first
    scan,               \* the step, the repository and the page it is at,
                        \* and how often each tag was read
    entries,            \* what the scan records of each repository
    inventory,          \* [repo, tag, id] of each image
    during,             \* of each repository while it is listed: tags that
                        \* were there, that stayed where they were, and
                        \* whether none was deleted
    faults, changes

scanning == <<scan, entries, inventory>>
inventoryVars == <<published, scanning, during, faults, changes>>

\* The elements of a finite set in the order `before` gives them.
InOrder(S, before) ==
    [k \in 1..Cardinality(S) |->
        CHOOSE x \in S : Cardinality({y \in S : <<y, x>> \in before}) = k - 1]

Fault == faults < MaxFaults /\ faults' = faults + 1
TagsOf(versions) == UNION {versions[k].tags : k \in DOMAIN versions}
\* What a tag names, and None once it names nothing.
Current(repo, tag) ==
    LET named == {k \in DOMAIN published[repo] : tag \in published[repo][k].tags}
    IN  IF named = {} THEN None ELSE published[repo][Min(named)].content
-----------------------------------------------------------------------------
(* Releases, while the registry is scanned and afterwards.                 *)

Underway(repo) == scan.step = "tags" /\ scan.of = repo
Change(repo, versions, moved, deletes) ==
    /\ changes < MaxChanges /\ changes' = changes + 1
    /\ published' = [published EXCEPT ![repo] = versions]
    /\ during' = IF Underway(repo)
                 THEN [during EXCEPT ![repo] =
                         [there |-> @.there \cup moved, stayed |-> @.stayed \ moved,
                          whole |-> @.whole /\ ~deletes]]
                 ELSE during
    /\ UNCHANGED <<scanning, faults>>

\* A push takes its tags from the versions that had them.
Push(repo, content, tag) ==
    /\ \A k \in DOMAIN published[repo] : published[repo][k].content # content
    /\ LET rest == [k \in DOMAIN published[repo] |->
                      [published[repo][k] EXCEPT !.tags = @ \ {tag}]]
       IN  Change(repo, <<[content |-> content, tags |-> {tag}]>> \o rest, {tag}, FALSE)

Delete(repo, k) ==
    /\ k \in DOMAIN published[repo]
    /\ Change(repo, RemoveAt(published[repo], k), published[repo][k].tags, TRUE)
-----------------------------------------------------------------------------
(* Scan.                                                                   *)

NoReads == [t \in Tags |-> 0]
At(repo) == IF repo \in Repos
            THEN [step |-> "tags", of |-> repo, page |-> 1, reads |-> NoReads]
            ELSE [step |-> "scanned", of |-> 0, page |-> 1, reads |-> NoReads]
Begun(repo, seen) ==
    IF repo \in Repos
    THEN [seen EXCEPT ![repo] = LET now == TagsOf(published[repo])
                                IN  [there |-> now, stayed |-> now, whole |-> TRUE]]
    ELSE seen

\* discoverRepositories: without a list of repositories there is no scan.
ListRepositories ==
    /\ scan.step = "list"
    /\ scan' = At(1) /\ during' = Begun(1, during)
    /\ UNCHANGED <<published, entries, inventory, faults, changes>>
ListFails ==
    /\ scan.step = "list" /\ Fault
    /\ scan' = [scan EXCEPT !.step = "failed"]
    /\ UNCHANGED <<published, entries, inventory, during, changes>>

\* The highest-sorting tags of what is read.  A tag read twice takes two of
\* the places.
Images(reads) == {t \in Selected \ Sidecars : reads[t] > 0}
Reads(reads, tags) == Cardinality(UNION {{t} \X (1..reads[t]) : t \in tags})
Kept(reads) == {t \in Images(reads) :
                  Reads(reads, {u \in Images(reads) : u > t}) < MaxTags}

Listed(repo, reads) ==
    /\ entries' = [entries EXCEPT ![repo] =
          [status |-> "listed", tags |-> Kept(reads),
           truncated |-> Reads(reads, Images(reads)) > MaxTags]]
    /\ scan' = At(repo + 1) /\ during' = Begun(repo + 1, during)

Page(versions, page) ==
    SubSeq(versions, (page - 1) * PageSize + 1,
           Min({page * PageSize, Len(versions)}))
OnePage(page) == Len(page) <= PageSize                          \* mutant
ShortPage(page) == Len(page) < PageSize                              \* a short page

\* GitHubPackages.pages: what lies on a page depends on what was pushed and
\* deleted since the last one.
ReadPage ==
    /\ scan.step = "tags"
    /\ LET page == Page(published[scan.of], scan.page)
           reads == [t \in Tags |-> scan.reads[t] +
                        Cardinality({k \in DOMAIN page : t \in page[k].tags})]
       IN  IF ShortPage(page) THEN Listed(scan.of, reads)
           ELSE /\ scan' = [scan EXCEPT !.page = @ + 1, !.reads = reads]
                /\ UNCHANGED <<entries, during>>
    /\ UNCHANGED <<published, inventory, faults, changes>>

PageFailureKeepsTags ==                                         \* mutant
    /\ scan.step = "tags" /\ Fault
    /\ entries' = [entries EXCEPT ![scan.of].status = "failed",
                                  ![scan.of].tags = Kept(scan.reads)]
    /\ scan' = At(scan.of + 1) /\ during' = Begun(scan.of + 1, during)
    /\ UNCHANGED <<published, inventory, changes>>

\* A repository that cannot be listed to its end is recorded as failed.
PageFails ==
    /\ scan.step = "tags" /\ Fault
    /\ entries' = [entries EXCEPT ![scan.of].status = "failed"]
    /\ scan' = At(scan.of + 1) /\ during' = Begun(scan.of + 1, during)
    /\ UNCHANGED <<published, inventory, changes>>
-----------------------------------------------------------------------------
(* ImportRefList.                                                          *)

Listing == {ref \in [repo : Repos, tag : Tags] : ref.tag \in entries[ref.repo].tags}
RefBefore(m, n) == m.repo < n.repo \/ (m.repo = n.repo /\ m.tag < n.tag)

\* References sort by repository, then by tag.
Refs == InOrder(Listing, {pair \in Listing \X Listing : RefBefore(pair[1], pair[2])})

\* An ID is a string of words with dashes between them, so it is given by
\* its words: two IDs are equal when their words are.
\* stableIDForRef: the last element of the path, and the tag unless latest.
StableID(ref) ==
    LET base == Repositories[ref.repo].base
        tag == TagNames[ref.tag]
    IN  Sanitized[base] \o (IF tag = "latest" THEN <<>> ELSE Sanitized[tag])

\* importedImageSpec: the second image of a name gets "-2", and so on; what
\* that makes is not looked up among the names.
ID(refs, n) ==
    LET earlier == {k \in 1..(n - 1) : StableID(refs[k]) = StableID(refs[n])}
    IN  IF earlier = {} THEN StableID(refs[n])
        ELSE Append(StableID(refs[n]), ToString(Cardinality(earlier) + 1))

\* IDs sort as strings do: by the first word that differs, the shorter first
\* (a dash sorts before letters and digits).
Sorts(v, w) == \E j, k \in DOMAIN Words : j < k /\ v = Words[j] /\ w = Words[k]
SortsBefore(x, y) ==
    \/ IsStrictPrefix(x, y)
    \/ \E k \in DOMAIN x \cap DOMAIN y :
          SubSeq(x, 1, k - 1) = SubSeq(y, 1, k - 1) /\ Sorts(x[k], y[k])

\* sort.SliceStable by ID: the images of one ID stay in the order they are in.
Sorted(ids) ==
    {p \in Bijection(DOMAIN ids, DOMAIN ids) : \A i, j \in DOMAIN ids :
        i < j => \/ SortsBefore(ids[p[i]], ids[p[j]])
                 \/ ids[p[i]] = ids[p[j]] /\ p[i] < p[j]}

\* ImportRefList.
Imported(refs) ==
    LET ids == [n \in DOMAIN refs |-> ID(refs, n)]
    IN  {[n \in DOMAIN refs |->
            [repo |-> refs[p[n]].repo, tag |-> refs[p[n]].tag, id |-> ids[p[n]]]] :
         p \in Sorted(ids)}

\* A scan that matched no image fails.
Import ==
    /\ scan.step = "scanned"
    /\ scan' = [scan EXCEPT !.step = IF Refs = <<>> THEN "failed" ELSE "imported"]
    /\ inventory' \in Imported(Refs)
    /\ UNCHANGED <<published, entries, during, faults, changes>>
-----------------------------------------------------------------------------
InventoryInit ==
    /\ published \in Published
    /\ scan = [step |-> "list", of |-> 0, page |-> 1, reads |-> NoReads]
    /\ entries = [r \in Repos |-> [status |-> "none", tags |-> {}, truncated |-> FALSE]]
    /\ inventory = <<>>
    /\ during = [r \in Repos |-> [there |-> {}, stayed |-> {}, whole |-> TRUE]]
    /\ faults = 0 /\ changes = 0

Release == \E r \in Repos :
    \/ \E c \in Released, t \in Tags \ Sidecars : Push(r, c, t)
    \/ \E k \in DOMAIN published[r] : Delete(r, k)
ScanNext == ListRepositories \/ ListFails \/ ReadPage \/ PageFails \/ Import
-----------------------------------------------------------------------------
(* Properties.                                                             *)

Scanned == scan.step \in {"scanned", "imported"}

\* However releases go on while it is scanned, a repository that is not
\* recorded as failed has every image tag that stayed where it was, but for
\* those that sort below as many as the cap keeps, as long as nothing was
\* deleted: a version that moves to the next page is read twice, not missed.
NoTagMissed ==
    \A r \in Repos : entries[r].status = "listed" /\ during[r].whole =>
        \A t \in (during[r].stayed \cap Selected) \ Sidecars :
            \/ t \in entries[r].tags
            \/ entries[r].truncated /\ \A u \in entries[r].tags : u > t

\* What the inventory lists was an image tag of the repository while it was
\* listed, and nothing is listed of a repository that could only be read in
\* part: that one is recorded as failed.
ListedWasThere ==
    /\ Scanned => \A r \in Repos : entries[r].status # "none"
    /\ \A r \in Repos :
          /\ entries[r].tags \subseteq during[r].there \ Sidecars
          /\ entries[r].status = "failed" => entries[r].tags = {}
    /\ \A n \in DOMAIN inventory :
          inventory[n].tag \in entries[inventory[n].repo].tags

\* "ID is unique within the report" (report.go:241): the images of a report have
\* the IDs the inventory gave them, so no two images of an inventory have one.
IDsUnique == \A m, n \in DOMAIN inventory : inventory[m].id = inventory[n].id => m = n
===============================================================================
