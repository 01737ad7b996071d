---------------------------- MODULE FactoryRecords ----------------------------
(***************************************************************************)
(* What clearcutt-factory's records say of the images of an estate         *)
(* (estateverify/build.go, reproduce.go, reproduction.go, stacks.go):      *)
(* which stack an image was built on, followed through rebase records to   *)
(* the recipe of its original, whether it reproduces, and which version of *)
(* its stack it is on.                                                     *)
(*                                                                         *)
(* An image carries a recipe, a rebase record and reproduction             *)
(* attestations, each vouched for or not (EvidenceCopies decides that).    *)
(* Records may lead in a circle.  Lookups fail, a rebuild may end in any   *)
(* way.  Build's goroutines share none of this, so the images are taken    *)
(* one at a time.                                                          *)
(***************************************************************************)
EXTENDS Naturals, FiniteSets

CONSTANTS
    Images,             \* image digests
    Estate,             \* those in the report
    Held,               \* what may be attached to the images
    Stacks,             \* versions of a stack
    NoStack,            \* of a recipe whose stack is none of the registry's
    Policies,           \* whether the policy asks for rebuilds
    Answers,            \* digests a rebuild may name
    MaxHops,            \* how far rebase records are followed
    MaxFaults

NoImage == "none"
ASSUME Bounds == MaxHops \in Nat /\ Estate \subseteq Images
ASSUME ImagesAreNamed == NoImage \notin Images /\ Answers \subseteq Images
ASSUME StacksAreNamed == NoStack \notin Stacks
\* A rebase record that can be read names an image.
ASSUME RecordsName ==
    \A h \in Held : \A i \in Images :
        h[i].rebase.status = "verified" /\ h[i].rebase.readable =>
            h[i].rebase.from \in Images
\* An attestation's time is a number, 0 when it cannot be parsed.
ASSUME AttestationsAreTimed ==
    \A h \in Held : \A i \in Images : \A a \in h[i].attests : a.at \in Nat

VARIABLES
    held,               \* [recipe, rebase, attests] of each image
    reproduces,         \* Policy.Reproduce
    image,              \* the image buildImage is at, and its step
    at, hops,           \* originalRecipe: the image it is at, how far it came
    stack,              \* Factory.StackDigest of each image
    outcome,            \* Reproducibility of each image
    current,            \* whether the stack's tag was resolved
    signature,          \* of the versions consumers pin
    faults

reading == <<image, at, hops>>
vars == <<held, reproduces, reading, stack, outcome, current, signature, faults>>

Fault == faults < MaxFaults /\ faults' = faults + 1
-----------------------------------------------------------------------------
(* Records.                                                                *)

Attached(i, kind) == held[i][kind].status # "missing"
Verified(i, kind) == held[i][kind].status = "verified"
\* verifyKind, originalRecipe: what is read of the verified copy that counts.
Read(i, kind) == Verified(i, kind) /\ held[i][kind].readable

\* statements: every recipe or rebase record verified on the image.
Statements(i) == {kind \in {"recipe", "rebase"} : Verified(i, kind)}

Method == [recipe |-> "recipe-rebuild", rebase |-> "rebase-repeat"]

AnyStatement(a, i) ==                                           \* mutant
    /\ a.about = {i} /\ a.gave = i /\ a.names \in {i, NoImage}
    /\ \E kind \in {"recipe", "rebase"} : a.method = Method[kind]
    /\ a.at # 0

\* boundReproduction: an attestation counts when it is about this image alone
\* and was made from a statement verified on it, by the method for its kind.
BoundTo(a, i) ==
    /\ a.about = {i} /\ a.gave = i /\ a.names \in {i, NoImage}
    /\ \E kind \in Statements(i) :
          /\ a.from = held[i][kind].id
          /\ a.fromType = kind /\ a.method = Method[kind]
    /\ a.at # 0
Counting(i) == {a \in held[i].attests : a.status = "verified" /\ BoundTo(a, i)}
-----------------------------------------------------------------------------
(* One image: its evidence, the recipe it was first built from, and        *)
(* whether it reproduces.                                                  *)

Undecided == [is |-> "not-checked", by |-> "nobody"]
Working(step) == image' = [image EXCEPT !.step = step]

TakeImage(i) ==
    /\ image.step = "next" /\ i \in image.todo
    /\ image' = [of |-> i, step |-> "gather", todo |-> image.todo \ {i}]
    /\ UNCHANGED <<held, reproduces, at, hops, stack, outcome, current,
                   signature, faults>>

\* The image's own recipe names its stack; an image that only carries a
\* rebase record is followed back.
Gather ==
    /\ image.step = "gather"
    /\ LET i == image.of
           follow == ~Read(i, "recipe") /\ Read(i, "rebase")
       IN  /\ Working(IF follow THEN "follow" ELSE "reproduce")
           /\ at' = IF follow THEN held[i].rebase.from ELSE NoImage
           /\ stack' = [stack EXCEPT ![i] = IF Read(i, "recipe")
                                            THEN held[i].recipe.stack
                                            ELSE NoStack]
    /\ hops' = 0
    /\ UNCHANGED <<held, reproduces, outcome, current, signature, faults>>

GatherFails ==
    /\ image.step = "gather" /\ Fault
    /\ Working("next")
    /\ outcome' = [outcome EXCEPT ![image.of] = Undecided]
    /\ UNCHANGED <<held, reproduces, at, hops, stack, current, signature>>

FollowsAnyRecord ==                                             \* mutant
    /\ image.step = "follow"
    /\ IF hops < MaxHops /\ ~Attached(at, "recipe") /\ Attached(at, "rebase")
       THEN /\ at' = held[at].rebase.from /\ hops' = hops + 1
            /\ UNCHANGED <<image, stack>>
       ELSE /\ stack' = [stack EXCEPT ![image.of] =
                  IF hops < MaxHops /\ Read(at, "recipe")
                  THEN held[at].recipe.stack ELSE NoStack]
            /\ Working("reproduce") /\ UNCHANGED <<at, hops>>
    /\ UNCHANGED <<held, reproduces, outcome, current, signature, faults>>

FollowsWithoutEnd ==                                            \* mutant
    /\ image.step = "follow"
    /\ IF ~Attached(at, "recipe") /\ Read(at, "rebase")
       THEN at' = held[at].rebase.from /\ UNCHANGED <<image, stack>>
       ELSE /\ stack' = [stack EXCEPT ![image.of] =
                  IF Read(at, "recipe") THEN held[at].recipe.stack ELSE NoStack]
            /\ Working("reproduce") /\ UNCHANGED at
    /\ UNCHANGED <<held, reproduces, hops, outcome, current, signature,
                   faults>>

FollowsOneRecord ==                                             \* mutant
    /\ image.step = "follow"
    /\ stack' = [stack EXCEPT ![image.of] =
           IF Read(at, "recipe") THEN held[at].recipe.stack ELSE NoStack]
    /\ Working("reproduce")
    /\ UNCHANGED <<held, reproduces, at, hops, outcome, current, signature,
                   faults>>

\* originalRecipe: an attached recipe ends the search, whether it can be read
\* or not; without one a verified rebase record leads one image further back.
Follow ==
    /\ image.step = "follow"
    /\ IF hops < MaxHops /\ ~Attached(at, "recipe") /\ Read(at, "rebase")
       THEN /\ at' = held[at].rebase.from /\ hops' = hops + 1
            /\ UNCHANGED <<image, stack>>
       ELSE /\ stack' = [stack EXCEPT ![image.of] =
                  IF hops < MaxHops /\ Read(at, "recipe")
                  THEN held[at].recipe.stack ELSE NoStack]
            /\ Working("reproduce") /\ UNCHANGED <<at, hops>>
    /\ UNCHANGED <<held, reproduces, outcome, current, signature, faults>>

FollowFails ==
    /\ image.step = "follow" /\ Fault
    /\ Working("reproduce")
    /\ UNCHANGED <<held, reproduces, at, hops, stack, outcome, current,
                   signature>>

AttestsAny ==                                                   \* mutant
    /\ image.step = "reproduce"
    /\ \E a \in Counting(image.of) :
          outcome' = [outcome EXCEPT ![image.of] =
                [is |-> "reproduced", by |-> "attestation", from |-> a]]
    /\ Working("next")
    /\ UNCHANGED <<held, reproduces, at, hops, stack, current, signature,
                   faults>>

\* reproduce: the newest attestation that counts stands for a rebuild.
Attest ==
    /\ image.step = "reproduce" /\ Counting(image.of) # {}
    /\ \E a \in Counting(image.of) :
          /\ \A b \in Counting(image.of) : b.at <= a.at
          /\ outcome' = [outcome EXCEPT ![image.of] =
                [is |-> "reproduced", by |-> "attestation", from |-> a]]
    /\ Working("next")
    /\ UNCHANGED <<held, reproduces, at, hops, stack, current, signature,
                   faults>>

\* reproduceLocally: a rebase record, vouched for or not, comes first.
Record(i) == IF Attached(i, "rebase") THEN "rebase" ELSE "recipe"
Rebuilds(i) == reproduces /\ Read(i, Record(i))

NotRebuilt ==
    /\ image.step = "reproduce" /\ Counting(image.of) = {}
    /\ ~Rebuilds(image.of)
    /\ outcome' = [outcome EXCEPT ![image.of] =
          IF Attached(image.of, Record(image.of)) THEN Undecided
          ELSE [is |-> "no-recipe", by |-> "nobody"]]
    /\ Working("next")
    /\ UNCHANGED <<held, reproduces, at, hops, stack, current, signature,
                   faults>>

\* FactoryReproducer.Reproduce: a run that succeeds names the digest it gave;
\* one that fails counts only when it names this image's and another.
DigestOf(run, want) ==
    IF run.succeeds THEN run.gave
    ELSE IF run.expected = want /\ run.gave # want THEN run.gave
    ELSE NoImage

Rebuild ==
    /\ image.step = "reproduce" /\ Counting(image.of) = {}
    /\ Rebuilds(image.of)
    /\ \E run \in [succeeds : BOOLEAN, gave : Answers \cup {NoImage},
                   expected : Answers \cup {NoImage}] :
          LET got == DigestOf(run, image.of)
          IN  outcome' = [outcome EXCEPT ![image.of] =
                [is |-> CASE got = image.of -> "reproduced"
                          [] got = NoImage -> "not-checked"
                          [] OTHER -> "not-reproduced",
                 by |-> "rebuild", from |-> run]]
    /\ Working("next")
    /\ UNCHANGED <<held, reproduces, at, hops, stack, current, signature,
                   faults>>
-----------------------------------------------------------------------------
(* stacksOf, after every image.                                            *)

\* Only what a verified record says puts an image on a stack.
Consumers == {i \in Estate : /\ stack[i] # NoStack
                             /\ Statements(i) # {}}
Ended == image.step = "next" /\ image.todo = {}

HeadStack(fails) ==
    /\ Ended /\ current = "unasked" /\ Consumers # {}
    /\ IF fails THEN Fault /\ current' = "unknown"
       ELSE current' = "resolved" /\ UNCHANGED faults
    /\ UNCHANGED <<held, reproduces, reading, stack, outcome, signature>>

\* stackSignature, once for each version a consumer pins.
CheckSignature(v, fails) ==
    /\ Ended /\ current # "unasked" /\ signature[v] = "unasked"
    /\ \E i \in Consumers : stack[i] = v
    /\ signature' = [signature EXCEPT ![v] = IF fails THEN "unknown" ELSE "read"]
    /\ IF fails THEN Fault ELSE UNCHANGED faults
    /\ UNCHANGED <<held, reproduces, reading, stack, outcome, current>>
-----------------------------------------------------------------------------
Init ==
    /\ held \in Held /\ reproduces \in Policies
    /\ image = [of |-> NoImage, step |-> "next", todo |-> Estate]
    /\ at = NoImage /\ hops = 0
    /\ stack = [i \in Estate |-> NoStack]
    /\ outcome = [i \in Estate |-> Undecided]
    /\ current = "unasked" /\ signature = [v \in Stacks |-> "unasked"]
    /\ faults = 0

Next == \/ \E i \in Estate : TakeImage(i)
        \/ Gather \/ GatherFails \/ Follow \/ FollowFails
        \/ Attest \/ NotRebuilt \/ Rebuild
        \/ \E fails \in BOOLEAN : \/ HeadStack(fails)
                                  \/ \E v \in Stacks : CheckSignature(v, fails)

Spec == Init /\ [][Next]_vars /\ WF_vars(Next)
-----------------------------------------------------------------------------
(* Properties.                                                             *)

\* Images whose records lead from one to the next: n hops back from i.
Paths(i, n) == {p \in [0..n -> Images] :
    /\ p[0] = i
    /\ \A k \in 1..n : Read(p[k - 1], "rebase") /\ held[p[k - 1]].rebase.from = p[k]}
Names(i, s) == Read(i, "recipe") /\ held[i].recipe.stack = s

\* An image counts as a consumer of a stack version only when an unbroken
\* chain of verified records leads from it to the verified recipe that pins
\* that version: nothing unverified on the way, and nothing after a failure,
\* puts it there.
StackRestsOnVerified ==
    \A i \in Consumers : \E n \in 0..MaxHops : \E p \in Paths(i, n) :
        Names(p[n], stack[i])

\* The nearest recipe that can be read, n records back, names s.
FirstRecipe(p, n, s) == Names(p[n], s) /\ \A k \in 0..(n - 1) : ~Read(p[k], "recipe")
\* originalRecipe stops at a recipe that is attached but cannot be read, where
\* an unverified copy should not crowd out what is verified (verify-estate.md).
Blocked(p, n) == \E k \in 1..(n - 1) : Attached(p[k], "recipe")

\* While nothing fails, every image a chain of that length leads from is
\* counted, and on that version: rebasing twice, a circle elsewhere in the
\* records or an unreadable recipe on the image itself loses no consumer.  One
\* is lost where the chain is blocked: a recipe no one trusted signed, attached
\* to an image on the way, hides the stack.
NoConsumerLost ==
    Ended /\ faults = 0 =>
        \A i \in Estate, s \in Stacks, n \in 0..MaxHops : \A p \in Paths(i, n) :
            FirstRecipe(p, n, s) =>
                (i \in Consumers /\ stack[i] = s) \/ Blocked(p, n)

\* A trusted attestation that names this image alone and says it was rebuilt
\* from a record verified on it, by the method that rebuilds from such records.
Shows(a, i) ==
    /\ a.status = "verified" /\ a.about = {i} /\ a.gave = i
    /\ a.names \in {i, NoImage}
    /\ \E kind \in {"recipe", "rebase"} :
          /\ Verified(i, kind) /\ held[i][kind].id = a.from
          /\ a.fromType = kind /\ a.method = Method[kind]

\* "Reproduced" rests on a rebuild that succeeded with this image's digest or
\* on an attestation that shows it, and none attached that shows it is newer;
\* "not reproduced" on a rebuild of a verified record that ended with another
\* digest.  No failure reads as either.
ReproductionRests ==
    \A i \in Estate :
        /\ outcome[i].by = "attestation" =>
              /\ outcome[i].from \in held[i].attests /\ Shows(outcome[i].from, i)
              /\ \A b \in held[i].attests : Shows(b, i) => b.at <= outcome[i].from.at
        /\ outcome[i].is = "reproduced" /\ outcome[i].by # "attestation" =>
              outcome[i].from.succeeds /\ outcome[i].from.gave = i
        /\ outcome[i].is = "not-reproduced" =>
              /\ Read(i, Record(i)) /\ outcome[i].from.gave \in Images \ {i}
              /\ outcome[i].from.succeeds \/ outcome[i].from.expected = i

\* Every run ends with each image's records read and, if any image is on a
\* stack, the stack's versions compared, also when records lead in a circle.
StacksReported ==
    <>[](Ended /\ (Consumers # {} => /\ current # "unasked"
                                     /\ \A i \in Consumers :
                                           signature[stack[i]] # "unasked"))
===============================================================================
