------------------------- MODULE FactoryRecords_proofs -------------------------
(***************************************************************************)
(* Proofs about FactoryRecords, for every estate, whatever its images      *)
(* carry, wherever records lead, whatever a rebuild answers, and whatever  *)
(* fails.                                                                  *)
(***************************************************************************)
EXTENDS FactoryRecords, TLAPS

Steps == {"next", "gather", "follow", "reproduce"}
TypeInv ==
    /\ held \in Held
    /\ image \in [of : Estate \cup {NoImage}, step : Steps, todo : SUBSET Estate]
    /\ image.step # "next" => image.of \in Estate
    /\ stack = [i \in Estate |-> stack[i]]
    /\ outcome = [i \in Estate |-> outcome[i]]

\* The types hold at the start.
LEMMA TypeInit == Init => TypeInv
<1> SUFFICES ASSUME Init
             PROVE  TypeInv
  OBVIOUS
<1>1. held \in Held
  BY DEF Init
<1>2. image \in [of : Estate \cup {NoImage}, step : Steps, todo : SUBSET Estate]
  BY DEF Init, Steps
<1>3. image.step = "next"
  BY DEF Init
<1>4. stack = [i \in Estate |-> stack[i]] /\ outcome = [i \in Estate |-> outcome[i]]
  BY Zenon DEF Init
<1> QED
  BY <1>1, <1>2, <1>3, <1>4 DEF TypeInv

\* What is attached to images does not change while they are read, and the
\* tables are of the estate's images.
LEMMA TypeStep == TypeInv /\ [Next]_vars => TypeInv'
<1> SUFFICES ASSUME TypeInv, [Next]_vars
             PROVE  TypeInv'
  OBVIOUS
<1> USE DEF TypeInv, Steps
<1>1. ASSUME NEW i \in Estate, TakeImage(i)
      PROVE  TypeInv'
  BY <1>1 DEF TakeImage
<1>2. CASE Gather
  BY <1>2 DEF Gather, Working
<1>3. CASE GatherFails
  BY <1>3 DEF GatherFails, Working
<1>4. CASE Follow
  BY <1>4 DEF Follow, Working
<1>5. CASE FollowFails
  BY <1>5 DEF FollowFails, Working
<1>6. CASE Attest
  BY <1>6 DEF Attest, Working
<1>7. CASE NotRebuilt
  BY <1>7 DEF NotRebuilt, Working
<1>8. CASE Rebuild
  BY <1>8 DEF Rebuild, Working
<1>9. ASSUME NEW fails \in BOOLEAN, HeadStack(fails)
      PROVE  TypeInv'
  BY <1>9 DEF HeadStack, reading
<1>10. ASSUME NEW fails \in BOOLEAN, NEW v \in Stacks, CheckSignature(v, fails)
       PROVE  TypeInv'
  BY <1>10 DEF CheckSignature, reading
<1>11. CASE UNCHANGED vars
  BY <1>11 DEF vars, reading
<1> QED
  BY <1>1, <1>2, <1>3, <1>4, <1>5, <1>6, <1>7, <1>8, <1>9, <1>10, <1>11 DEF Next

\* The records, the walks and the outcomes hold what their types allow in
\* every behaviour.
THEOREM TypeCorrect == Spec => []TypeInv
BY TypeInit, TypeStep, PTL DEF Spec
-----------------------------------------------------------------------------
(* What "reproduced" rests on.                                             *)

\* What one outcome says of an image, by what is attached to it.
Rests(o, i) ==
    /\ o.by = "attestation" =>
          /\ o.from \in held[i].attests /\ Shows(o.from, i)
          /\ \A b \in held[i].attests : Shows(b, i) => b.at <= o.from.at
    /\ o.is = "reproduced" /\ o.by # "attestation" =>
          o.from.succeeds /\ o.from.gave = i
    /\ o.is = "not-reproduced" =>
          /\ Read(i, Record(i)) /\ o.from.gave \in Images \ {i}
          /\ o.from.succeeds \/ o.from.expected = i

\* The property, one image at a time.
LEMMA OutcomesRest == ReproductionRests <=> \A i \in Estate : Rests(outcome[i], i)
BY DEF ReproductionRests, Rests

\* The attestations that show an image reproduces are those that count, and
\* those whose time could not be read.
LEMMA ShowsCounts ==
    ASSUME NEW i, NEW a \in held[i].attests
    PROVE  a \in Counting(i) <=> Shows(a, i) /\ a.at # 0
<1>1. \A kind : kind \in Statements(i) <=>
                   kind \in {"recipe", "rebase"} /\ Verified(i, kind)
  BY DEF Statements
<1> QED
  BY <1>1 DEF Counting, BoundTo, Shows

\* The newest attestation that counts shows that the image reproduces, and no
\* other that shows it is newer.
LEMMA CountingRests ==
    ASSUME NEW i, NEW a \in Counting(i), NEW o,
           \A b \in Counting(i) : b.at <= a.at,
           \A b \in held[i].attests : b.at \in Nat,
           o = [is |-> "reproduced", by |-> "attestation", from |-> a]
    PROVE  Rests(o, i)
<1>1. a \in held[i].attests /\ Shows(a, i) /\ a.at \in Nat
  BY ShowsCounts DEF Counting
<1>2. ASSUME NEW b \in held[i].attests, Shows(b, i)
      PROVE  b.at <= a.at
  <2>1. CASE b.at = 0
    BY <1>1, <2>1
  <2>2. CASE b.at # 0
    BY <1>2, <2>2, ShowsCounts
  <2> QED
    BY <2>1, <2>2
<1> QED
  BY <1>1, <1>2 DEF Rests

\* A rebuild says "reproduced" only when it succeeded with this digest, and
\* "not reproduced" only when it named another.
LEMMA RebuildRests ==
    ASSUME NEW i \in Images, Read(i, Record(i)),
           NEW run \in [succeeds : BOOLEAN, gave : Answers \cup {NoImage},
                        expected : Answers \cup {NoImage}],
           NEW o,
           o = [is |-> CASE DigestOf(run, i) = i -> "reproduced"
                         [] DigestOf(run, i) = NoImage -> "not-checked"
                         [] OTHER -> "not-reproduced",
                by |-> "rebuild", from |-> run]
    PROVE  Rests(o, i)
<1>1. i # NoImage
  BY ImagesAreNamed
<1>2. o.from = run /\ o.by = "rebuild"
  OBVIOUS
<1>3. CASE DigestOf(run, i) = i
  <2>1. run.succeeds /\ run.gave = i
    BY <1>1, <1>3 DEF DigestOf
  <2>2. o.is = "reproduced"
    BY <1>1, <1>3
  <2> QED
    BY <1>2, <2>1, <2>2 DEF Rests
<1>4. CASE DigestOf(run, i) = NoImage
  <2>1. o.is = "not-checked"
    BY <1>1, <1>4
  <2> QED
    BY <1>2, <2>1 DEF Rests
<1>5. CASE DigestOf(run, i) # i /\ DigestOf(run, i) # NoImage
  <2>1. o.is = "not-reproduced"
    BY <1>5
  <2>2. run.gave # i /\ run.gave # NoImage /\ (run.succeeds \/ run.expected = i)
    BY <1>5 DEF DigestOf
  <2>3. run.gave \in Images \ {i}
    BY <2>2, ImagesAreNamed
  <2> QED
    BY <1>2, <2>1, <2>2, <2>3 DEF Rests
<1> QED
  BY <1>3, <1>4, <1>5

\* Every step keeps the outcomes resting on the records read.
LEMMA OutcomeStep == TypeInv /\ ReproductionRests /\ [Next]_vars => ReproductionRests'
<1> SUFFICES ASSUME TypeInv, ReproductionRests, [Next]_vars,
                    NEW i \in Estate
             PROVE  Rests(outcome[i], i)'
  BY DEF ReproductionRests, Rests
<1>1. Rests(outcome[i], i)
  BY OutcomesRest
<1>2. held' = held
  BY DEF Next, TakeImage, Gather, GatherFails, Follow, FollowFails, Attest,
         NotRebuilt, Rebuild, HeadStack, CheckSignature, vars
<1>3. ASSUME Rests(outcome'[i], i)
      PROVE  Rests(outcome[i], i)'
  BY <1>2, <1>3 DEF Rests, Shows, Read, Verified, Record, Attached
<1>4. Rests(Undecided, i)
  BY DEF Rests, Undecided
<1>5. CASE outcome' = outcome
  BY <1>1, <1>3, <1>5
<1>6. ASSUME NEW o, outcome' = [outcome EXCEPT ![image.of] = o],
             image.of = i => Rests(o, i)
      PROVE  Rests(outcome'[i], i)
  <2>1. outcome'[i] = IF i = image.of THEN o ELSE outcome[i]
    BY <1>6 DEF TypeInv
  <2> QED
    BY <1>1, <1>6, <2>1
<1>7. CASE GatherFails
  BY <1>3, <1>4, <1>6, <1>7 DEF GatherFails
<1>8. CASE Attest
  <2>1. PICK a \in Counting(image.of) :
            /\ \A b \in Counting(image.of) : b.at <= a.at
            /\ outcome' = [outcome EXCEPT ![image.of] =
                  [is |-> "reproduced", by |-> "attestation", from |-> a]]
    BY <1>8 DEF Attest
  <2>2. \A b \in held[i].attests : b.at \in Nat
    BY AttestationsAreTimed, Bounds DEF TypeInv
  <2>3. image.of = i =>
           Rests([is |-> "reproduced", by |-> "attestation", from |-> a], i)
    BY <2>1, <2>2, CountingRests
  <2> QED
    BY <1>3, <1>6, <2>1, <2>3
<1>9. CASE NotRebuilt
  <2>1. Rests([is |-> "no-recipe", by |-> "nobody"], i)
    BY DEF Rests
  <2>2. \E o \in {Undecided, [is |-> "no-recipe", by |-> "nobody"]} :
           outcome' = [outcome EXCEPT ![image.of] = o]
    BY <1>9 DEF NotRebuilt
  <2> QED
    BY <1>3, <1>4, <1>6, <2>1, <2>2
<1>10. CASE Rebuild
  <2>1. Rebuilds(image.of)
    BY <1>10 DEF Rebuild
  <2>2. PICK run \in [succeeds : BOOLEAN, gave : Answers \cup {NoImage},
                      expected : Answers \cup {NoImage}] :
           outcome' = [outcome EXCEPT ![image.of] =
                [is |-> CASE DigestOf(run, image.of) = image.of -> "reproduced"
                          [] DigestOf(run, image.of) = NoImage -> "not-checked"
                          [] OTHER -> "not-reproduced",
                 by |-> "rebuild", from |-> run]]
    BY <1>10 DEF Rebuild
  <2> DEFINE o == [is |-> CASE DigestOf(run, image.of) = image.of -> "reproduced"
                            [] DigestOf(run, image.of) = NoImage -> "not-checked"
                            [] OTHER -> "not-reproduced",
                   by |-> "rebuild", from |-> run]
  <2>3. image.of = i => Rests(o, i)
    BY <2>1, RebuildRests, Bounds DEF Rebuilds
  <2> QED
    BY <1>3, <1>6, <2>2, <2>3
<1> QED
  BY <1>5, <1>7, <1>8, <1>9, <1>10
     DEF Next, TakeImage, Gather, Follow, FollowFails, HeadStack, CheckSignature, vars

\* Whatever fails and whatever is attached, "reproduced" and "not reproduced"
\* rest on a rebuild of this image from a verified record or on the newest of
\* the trusted attestations that show it.
THEOREM ReproductionRestsOnRecords == Spec => []ReproductionRests
<1>1. Init => ReproductionRests
  BY DEF Init, ReproductionRests, Undecided
<1> QED
  BY <1>1, TypeCorrect, OutcomeStep, PTL DEF Spec
-----------------------------------------------------------------------------
(* What puts an image on a stack.                                          *)

\* The way back that originalRecipe has come: while it follows records, an
\* unbroken chain of them leads from the image to the one it is at, and every
\* image whose stack is known has a chain to the recipe that names it.
StackInv ==
    /\ image.step = "follow" =>
          /\ hops \in 0..MaxHops
          /\ \E p \in Paths(image.of, hops + 1) : p[hops + 1] = at
    /\ \A i \in Estate : stack[i] # NoStack =>
          \E n \in 0..MaxHops : \E p \in Paths(i, n) : Names(p[n], stack[i])

\* A chain of no record, and of one.
LEMMA PathOfNone ==
    ASSUME NEW i \in Images
    PROVE  \E p \in Paths(i, 0) : p[0] = i
<1> DEFINE p == [k \in 0..0 |-> i]
<1>1. p \in [0..0 -> Images] /\ p[0] = i /\ 1..0 = {}
  OBVIOUS
<1> QED
  BY <1>1 DEF Paths

\* A verified record leads one image further.
LEMMA PathOfOneMore ==
    ASSUME TypeInv, NEW i, NEW n \in Nat, NEW p \in Paths(i, n), Read(p[n], "rebase")
    PROVE  \E q \in Paths(i, n + 1) : q[n + 1] = held[p[n]].rebase.from
<1>1. p \in [0..n -> Images] /\ p[n] \in Images /\ p[0] = i
  BY DEF Paths
<1>2. held[p[n]].rebase.from \in Images
  BY <1>1, RecordsName DEF TypeInv, Read, Verified
<1> DEFINE q == [k \in 0..(n + 1) |-> IF k = n + 1 THEN held[p[n]].rebase.from ELSE p[k]]
<1>3. q \in [0..(n + 1) -> Images] /\ q[0] = i
  BY <1>1, <1>2
<1>4. \A k \in 0..n : q[k] = p[k]
  OBVIOUS
<1>5. ASSUME NEW k \in 1..(n + 1)
      PROVE  Read(q[k - 1], "rebase") /\ held[q[k - 1]].rebase.from = q[k]
  <2>1. CASE k = n + 1
    <3>1. q[k - 1] = p[n] /\ q[k] = held[p[n]].rebase.from
      BY <2>1, <1>4
    <3> QED
      BY <3>1
  <2>2. CASE k # n + 1
    <3>1. k \in 1..n /\ q[k - 1] = p[k - 1] /\ q[k] = p[k]
      BY <2>2, <1>4
    <3>2. Read(p[k - 1], "rebase") /\ held[p[k - 1]].rebase.from = p[k]
      BY <3>1 DEF Paths
    <3> QED
      BY <3>1, <3>2
  <2> QED
    BY <2>1, <2>2
<1>6. q \in Paths(i, n + 1)
  BY <1>3, <1>5 DEF Paths
<1>7. q[n + 1] = held[p[n]].rebase.from
  OBVIOUS
<1> QED
  BY <1>6, <1>7

\* Every step keeps the stack's invariant.
LEMMA StackStep == TypeInv /\ StackInv /\ [Next]_vars => StackInv'
<1> SUFFICES ASSUME TypeInv, StackInv, [Next]_vars
             PROVE  StackInv'
  OBVIOUS
<1>1. held' = held
  BY DEF Next, TakeImage, Gather, GatherFails, Follow, FollowFails, Attest,
         NotRebuilt, Rebuild, HeadStack, CheckSignature, vars
<1>2. \A i, n : Paths(i, n)' = Paths(i, n)
  BY <1>1 DEF Paths, Read, Verified
<1>3. \A i, s : Names(i, s)' = Names(i, s)
  BY <1>1 DEF Names, Read, Verified
<1> DEFINE OnStack(i, s) ==
             \E n \in 0..MaxHops : \E p \in Paths(i, n) : Names(p[n], s)
<1>4. \A i \in Estate : stack[i] # NoStack => OnStack(i, stack[i])
  BY DEF StackInv
<1>5. ASSUME \A i \in Estate : stack'[i] # NoStack => OnStack(i, stack'[i]),
             image'.step = "follow" =>
                 /\ hops' \in 0..MaxHops
                 /\ \E p \in Paths(image'.of, hops' + 1) : p[hops' + 1] = at'
      PROVE  StackInv'
  BY <1>1, <1>2, <1>3, <1>5 DEF StackInv, Names, Read, Verified
<1>6. ASSUME NEW s, stack' = [stack EXCEPT ![image.of] = s],
             image.of \in Estate /\ s # NoStack => OnStack(image.of, s)
      PROVE  \A i \in Estate : stack'[i] # NoStack => OnStack(i, stack'[i])
  <2> SUFFICES ASSUME NEW i \in Estate, stack'[i] # NoStack
               PROVE  OnStack(i, stack'[i])
    OBVIOUS
  <2>1. stack'[i] = IF i = image.of THEN s ELSE stack[i]
    BY <1>6 DEF TypeInv
  <2> QED
    BY <1>4, <1>6, <2>1
<1>7. CASE Gather
  <2> DEFINE i == image.of
             follow == ~Read(i, "recipe") /\ Read(i, "rebase")
             s == IF Read(i, "recipe") THEN held[i].recipe.stack ELSE NoStack
  <2>1. /\ stack' = [stack EXCEPT ![i] = s] /\ hops' = 0
        /\ at' = IF follow THEN held[i].rebase.from ELSE NoImage
        /\ image' = [image EXCEPT !.step = IF follow THEN "follow" ELSE "reproduce"]
    BY <1>7 DEF Gather, Working
  <2>2. ASSUME i \in Estate, s # NoStack
        PROVE  OnStack(i, s)
    <3>1. PICK p \in Paths(i, 0) : p[0] = i
      BY <2>2, PathOfNone, Bounds
    <3>2. Names(p[0], s)
      BY <2>2, <3>1 DEF Names
    <3> QED
      BY <3>2, Bounds
  <2>3. ASSUME image'.step = "follow"
        PROVE  \E p \in Paths(image'.of, 1) : p[1] = at'
    <3>1. image'.of = i /\ follow
      BY <2>1, <2>3 DEF TypeInv
    <3>2. i \in Images
      BY <1>7, Bounds DEF TypeInv, Gather
    <3>3. PICK p \in Paths(i, 0) : p[0] = i
      BY <3>2, PathOfNone
    <3>4. \E q \in Paths(i, 0 + 1) : q[0 + 1] = held[p[0]].rebase.from
      BY <3>1, <3>3, PathOfOneMore
    <3> QED
      BY <2>1, <3>1, <3>3, <3>4
  <2>4. hops' \in 0..MaxHops /\ hops' + 1 = 1
    BY <2>1, Bounds
  <2>5. \A j \in Estate : stack'[j] # NoStack => OnStack(j, stack'[j])
    BY <1>6, <2>1, <2>2
  <2> QED
    BY <1>5, <2>3, <2>4, <2>5
<1>8. CASE Follow
  <2>1. /\ image.step = "follow" /\ hops \in 0..MaxHops /\ hops \in Nat
    BY <1>8, Bounds DEF Follow, StackInv
  <2>2. PICK p \in Paths(image.of, hops + 1) : p[hops + 1] = at
    BY <2>1 DEF StackInv
  <2>3. CASE hops < MaxHops /\ ~Attached(at, "recipe") /\ Read(at, "rebase")
    <3>1. /\ at' = held[at].rebase.from /\ hops' = hops + 1
          /\ image' = image /\ stack' = stack
      BY <1>8, <2>3 DEF Follow
    <3>2. hops' \in 0..MaxHops
      BY <2>1, <2>3, <3>1, Bounds
    <3>3. \E q \in Paths(image.of, (hops + 1) + 1) :
              q[(hops + 1) + 1] = held[at].rebase.from
      BY <2>1, <2>2, <2>3, PathOfOneMore
    <3> QED
      BY <1>4, <1>5, <3>1, <3>2, <3>3
  <2>4. CASE ~(hops < MaxHops /\ ~Attached(at, "recipe") /\ Read(at, "rebase"))
    <3> DEFINE s == IF hops < MaxHops /\ Read(at, "recipe")
                    THEN held[at].recipe.stack ELSE NoStack
    <3>1. /\ stack' = [stack EXCEPT ![image.of] = s]
          /\ image'.step # "follow"
      BY <1>8, <2>4 DEF Follow, Working, TypeInv
    <3>2. s # NoStack => OnStack(image.of, s)
      <4>1. SUFFICES ASSUME s # NoStack
                     PROVE  OnStack(image.of, s)
        OBVIOUS
      <4>2. hops + 1 \in 0..MaxHops
        BY <2>1, <4>1, Bounds
      <4>3. Names(p[hops + 1], s)
        BY <2>2, <4>1 DEF Names
      <4> QED
        BY <2>2, <4>2, <4>3
    <3>3. \A j \in Estate : stack'[j] # NoStack => OnStack(j, stack'[j])
      BY <1>6, <3>1, <3>2
    <3> QED
      BY <1>5, <3>1, <3>3
  <2> QED
    BY <2>3, <2>4
<1>9. CASE stack' = stack /\ image'.step # "follow"
  BY <1>4, <1>5, <1>9
<1>10. CASE UNCHANGED <<stack, reading>>
  BY <1>4, <1>5, <1>10 DEF reading, StackInv
<1>11. CASE \E i \in Estate : TakeImage(i)
  BY <1>9, <1>11 DEF TakeImage
<1>12. CASE GatherFails \/ FollowFails \/ Attest \/ NotRebuilt \/ Rebuild
  <2>1. image'.step # "follow"
    BY <1>12 DEF GatherFails, FollowFails, Attest, NotRebuilt, Rebuild, Working, TypeInv
  <2>2. stack' = stack
    BY <1>12 DEF GatherFails, FollowFails, Attest, NotRebuilt, Rebuild
  <2> QED
    BY <1>9, <2>1, <2>2
<1>13. CASE UNCHANGED vars
  BY <1>10, <1>13 DEF vars
<1>14. CASE \E fails \in BOOLEAN : \/ HeadStack(fails)
                                   \/ \E v \in Stacks : CheckSignature(v, fails)
  BY <1>10, <1>14 DEF HeadStack, CheckSignature
<1> QED
  BY <1>7, <1>8, <1>11, <1>12, <1>13, <1>14 DEF Next

\* Whatever fails, and also when records lead in a circle, an image counts as
\* a consumer of a stack version only by a chain of verified records.
THEOREM ConsumersRestOnVerified == Spec => []StackRestsOnVerified
<1>1. Init => StackInv
  BY DEF Init, StackInv
<1>2. StackInv => StackRestsOnVerified
  BY DEF StackInv, StackRestsOnVerified, Consumers
<1> QED
  BY <1>1, <1>2, TypeCorrect, StackStep, PTL DEF Spec
-----------------------------------------------------------------------------
(* That no consumer is lost.                                               *)

\* n verified records lead back from i to the recipe that names s, and no image
\* on the way has a recipe of its own.
Leads(i, n, s) ==
    \E p \in Paths(i, n) :
        Names(p[n], s) /\ \A k \in 0..(n - 1) : ~Attached(p[k], "recipe")

\* Where no record leads on, the image's own recipe names the stack; where one
\* does, what it names leads there by one record less.
LEMMA LeadsByRecipe ==
    ASSUME NEW i, NEW s, Leads(i, 0, s)
    PROVE  Names(i, s)
BY DEF Leads, Paths

\* A chain of records without its first is one from the image that one names.
LEMMA PathTail ==
    ASSUME NEW i, NEW n \in Nat \ {0}, NEW p \in Paths(i, n)
    PROVE  /\ p[0] = i /\ Read(i, "rebase")
           /\ \E q \in Paths(held[i].rebase.from, n - 1) :
                  q[n - 1] = p[n] /\ \A k \in 0..(n - 1) : q[k] = p[k + 1]
<1>1. /\ p \in [0..n -> Images] /\ p[0] = i
      /\ \A k \in 1..n : Read(p[k - 1], "rebase") /\ held[p[k - 1]].rebase.from = p[k]
  BY DEF Paths
<1>2. 1 \in 1..n /\ 1 - 1 = 0 /\ n - 1 \in Nat
  OBVIOUS
<1>3. Read(i, "rebase") /\ held[i].rebase.from = p[1]
  BY <1>1, <1>2
<1> DEFINE q == [k \in 0..(n - 1) |-> p[k + 1]]
<1>4. q \in [0..(n - 1) -> Images] /\ q[0] = p[1] /\ q[n - 1] = p[n]
  BY <1>1
<1>5. ASSUME NEW k \in 1..(n - 1)
      PROVE  Read(q[k - 1], "rebase") /\ held[q[k - 1]].rebase.from = q[k]
  <2>1. q[k - 1] = p[k] /\ q[k] = p[k + 1] /\ k + 1 \in 1..n /\ (k + 1) - 1 = k
    OBVIOUS
  <2>2. Read(p[(k + 1) - 1], "rebase") /\ held[p[(k + 1) - 1]].rebase.from = p[k + 1]
    BY <1>1, <2>1
  <2> QED
    BY <2>1, <2>2
<1>6. q \in Paths(p[1], n - 1)
  BY <1>4, <1>5 DEF Paths
<1>7. \A k \in 0..(n - 1) : q[k] = p[k + 1]
  OBVIOUS
<1> QED
  BY <1>1, <1>3, <1>4, <1>6, <1>7

\* Records lead on from an image with no recipe of its own only by the rebase
\* record read for it.
LEMMA LeadsByRecord ==
    ASSUME NEW i, NEW n \in Nat \ {0}, NEW s, Leads(i, n, s)
    PROVE  /\ ~Attached(i, "recipe") /\ Read(i, "rebase")
           /\ Leads(held[i].rebase.from, n - 1, s)
<1>1. PICK p \in Paths(i, n) :
          Names(p[n], s) /\ \A k \in 0..(n - 1) : ~Attached(p[k], "recipe")
  BY DEF Leads
<1>2. ~Attached(i, "recipe") /\ Read(i, "rebase")
  BY <1>1, PathTail
<1>3. PICK q \in Paths(held[i].rebase.from, n - 1) :
          q[n - 1] = p[n] /\ \A k \in 0..(n - 1) : q[k] = p[k + 1]
  BY PathTail
<1>4. ASSUME NEW k \in 0..((n - 1) - 1)
      PROVE  ~Attached(q[k], "recipe")
  <2>1. q[k] = p[k + 1] /\ k + 1 \in 0..(n - 1)
    BY <1>3
  <2> QED
    BY <1>1, <2>1
<1>5. Leads(held[i].rebase.from, n - 1, s)
  BY <1>1, <1>3, <1>4 DEF Leads
<1> QED
  BY <1>2, <1>5

\* What the records say of an image itself: a recipe of its own counts only
\* when it can be read, and does not end the search when it cannot.
Starts(i, n, s) ==
    IF n = 0 THEN Names(i, s)
    ELSE ~Read(i, "recipe") /\ Read(i, "rebase") /\ Leads(held[i].rebase.from, n - 1, s)

\* A chain to the nearest recipe that can be read, with no other recipe
\* attached on the way, starts the search that finds it.
LEMMA ChainStarts ==
    ASSUME NEW i, NEW n \in Nat, NEW s, NEW p \in Paths(i, n),
           FirstRecipe(p, n, s), ~Blocked(p, n)
    PROVE  Starts(i, n, s)
<1>1. CASE n = 0
  BY <1>1 DEF Starts, FirstRecipe, Paths
<1>2. CASE n # 0
  <2>1. n \in Nat \ {0}
    BY <1>2
  <2>2. p[0] = i /\ Read(i, "rebase")
    BY <2>1, PathTail
  <2>3. PICK q \in Paths(held[i].rebase.from, n - 1) :
            q[n - 1] = p[n] /\ \A k \in 0..(n - 1) : q[k] = p[k + 1]
    BY <2>1, PathTail
  <2>4. ASSUME NEW k \in 0..((n - 1) - 1)
        PROVE  ~Attached(q[k], "recipe")
    <3>1. q[k] = p[k + 1] /\ k + 1 \in 1..(n - 1)
      BY <2>1, <2>3
    <3> QED
      BY <3>1 DEF Blocked
  <2>5. Leads(held[i].rebase.from, n - 1, s)
    BY <2>3, <2>4 DEF Leads, FirstRecipe
  <2>6. 0 \in 0..(n - 1)
    BY <2>1
  <2>7. ~Read(i, "recipe")
    BY <2>2, <2>6 DEF FirstRecipe
  <2> QED
    BY <1>2, <2>2, <2>5, <2>7 DEF Starts
<1> QED
  BY <1>1, <1>2

\* An image whose records have been followed to their end.
Settled(i) == /\ i \in Estate \ image.todo
              /\ i = image.of => image.step \in {"next", "reproduce"}

\* While nothing fails, a settled image is on the stack its records lead to,
\* and what is left of the way back of the image being followed leads there
\* from the image the search is at.
FollowInv ==
    /\ faults \in Nat /\ hops \in Nat
    /\ image.step # "next" => image.of \notin image.todo
    /\ faults = 0 =>
          /\ \A i \in Estate, s \in Stacks, n \in 0..MaxHops :
                Settled(i) /\ Starts(i, n, s) => stack[i] = s
          /\ image.step = "follow" =>
                \A s \in Stacks, n \in 0..MaxHops : Starts(image.of, n, s) =>
                    n >= hops + 1 /\ Leads(at, n - (hops + 1), s)

\* Every step keeps the walk on the images its records lead to.
LEMMA FollowStep == TypeInv /\ FollowInv /\ [Next]_vars => FollowInv'
<1> SUFFICES ASSUME TypeInv, FollowInv, [Next]_vars
             PROVE  FollowInv'
  OBVIOUS
<1> USE Bounds
<1>1. held' = held
  BY DEF Next, TakeImage, Gather, GatherFails, Follow, FollowFails, Attest,
         NotRebuilt, Rebuild, HeadStack, CheckSignature, vars
<1>2. \A i, n, s : Leads(i, n, s)' = Leads(i, n, s)
  BY <1>1 DEF Leads, Paths, Names, Attached, Read, Verified
<1>15. \A i, n, s : Starts(i, n, s)' = Starts(i, n, s)
  BY <1>1, <1>2 DEF Starts, Names, Read, Verified
<1>3. faults' \in Nat /\ (faults' = 0 => faults = 0)
  BY DEF FollowInv, Next, Fault, TakeImage, Gather, GatherFails, Follow, FollowFails,
         Attest, NotRebuilt, Rebuild, HeadStack, CheckSignature, vars
<1>4. hops' \in Nat
  BY DEF FollowInv, Next, TakeImage, Gather, GatherFails, Follow, FollowFails, Attest,
         NotRebuilt, Rebuild, HeadStack, CheckSignature, reading, vars
<1>5. image'.step # "next" => image'.of \notin image'.todo
  BY DEF FollowInv, TypeInv, Next, Working, TakeImage, Gather, GatherFails, Follow,
         FollowFails, Attest, NotRebuilt, Rebuild, HeadStack, CheckSignature, reading,
         vars
<1> DEFINE OnItsStack ==
             \A i \in Estate, s \in Stacks, n \in 0..MaxHops :
                 Settled(i)' /\ Starts(i, n, s) => stack'[i] = s
           LeadsOn ==
             image'.step = "follow" =>
                 \A s \in Stacks, n \in 0..MaxHops : Starts(image'.of, n, s) =>
                     n >= hops' + 1 /\ Leads(at', n - (hops' + 1), s)
<1>6. ASSUME faults' = 0 => OnItsStack /\ LeadsOn
      PROVE  FollowInv'
  <2>1. \A i, n, s : (Leads(i, n, s))' <=> Leads(i, n, s)
    BY <1>2
  <2>2. \A i, n, s : (Starts(i, n, s))' <=> Starts(i, n, s)
    BY <1>15
  <2> QED
    BY <1>1, <1>3, <1>4, <1>5, <1>6, <2>1, <2>2 DEF FollowInv
<1>7. CASE Gather
  <2> SUFFICES ASSUME faults' = 0 PROVE OnItsStack /\ LeadsOn
    BY <1>6
  <2> DEFINE i == image.of
             follow == ~Read(i, "recipe") /\ Read(i, "rebase")
             s0 == IF Read(i, "recipe") THEN held[i].recipe.stack ELSE NoStack
  <2>1. /\ stack' = [stack EXCEPT ![i] = s0] /\ hops' = 0
        /\ at' = IF follow THEN held[i].rebase.from ELSE NoImage
        /\ image' = [image EXCEPT !.step = IF follow THEN "follow" ELSE "reproduce"]
        /\ image.step = "gather" /\ i \in Estate
    BY <1>7 DEF Gather, Working, TypeInv
  <2>2. /\ image'.of = i /\ image'.todo = image.todo
        /\ image'.step = IF follow THEN "follow" ELSE "reproduce"
    BY <2>1 DEF TypeInv
  <2>3. \A j \in Estate : stack'[j] = IF j = i THEN s0 ELSE stack[j]
    BY <2>1 DEF TypeInv
  <2>4. ASSUME NEW s \in Stacks, NEW n \in 0..MaxHops, Starts(i, n, s)
        PROVE  IF n = 0 THEN Read(i, "recipe") /\ held[i].recipe.stack = s
               ELSE /\ ~Read(i, "recipe") /\ Read(i, "rebase")
                    /\ Leads(held[i].rebase.from, n - 1, s)
    BY <2>4 DEF Starts, Names
  <2>5. OnItsStack
    <3> SUFFICES ASSUME NEW j \in Estate, NEW s \in Stacks, NEW n \in 0..MaxHops,
                        Settled(j)', Starts(j, n, s)
                 PROVE  stack'[j] = s
      OBVIOUS
    <3>1. CASE j = i
      <4>1. ~follow
        BY <2>2, <3>1 DEF Settled
      <4> QED
        BY <2>3, <2>4, <3>1, <4>1
    <3>2. CASE j # i
      <4>1. Settled(j)
        BY <2>2, <3>2 DEF Settled
      <4> QED
        BY <1>3, <2>3, <3>2, <4>1 DEF FollowInv
    <3> QED
      BY <3>1, <3>2
  <2>6. LeadsOn
    <3> SUFFICES ASSUME image'.step = "follow", NEW s \in Stacks, NEW n \in 0..MaxHops,
                        Starts(image'.of, n, s)
                 PROVE  n >= hops' + 1 /\ Leads(at', n - (hops' + 1), s)
      OBVIOUS
    <3>1. follow /\ Starts(i, n, s) /\ hops' + 1 = 1 /\ at' = held[i].rebase.from
      BY <2>1, <2>2
    <3>2. n # 0 /\ Leads(held[i].rebase.from, n - 1, s)
      BY <2>4, <3>1
    <3> QED
      BY <3>1, <3>2
  <2> QED
    BY <2>5, <2>6
<1>8. CASE Follow
  <2> SUFFICES ASSUME faults' = 0 PROVE OnItsStack /\ LeadsOn
    BY <1>6
  <2> DEFINE i == image.of
  <2>1. /\ image.step = "follow" /\ i \in Estate /\ hops \in Nat /\ MaxHops \in Nat
        /\ faults = 0
    BY <1>3, <1>8 DEF Follow, FollowInv, TypeInv
  <2>2. ASSUME NEW s \in Stacks, NEW n \in 0..MaxHops, Starts(i, n, s)
        PROVE  /\ hops < MaxHops /\ n - (hops + 1) \in Nat
               /\ Leads(at, n - (hops + 1), s)
    <3>1. n >= hops + 1 /\ Leads(at, n - (hops + 1), s)
      BY <2>1, <2>2 DEF FollowInv
    <3> QED
      BY <2>1, <3>1
  <2>3. CASE hops < MaxHops /\ ~Attached(at, "recipe") /\ Read(at, "rebase")
    <3>1. /\ at' = held[at].rebase.from /\ hops' = hops + 1
          /\ image' = image /\ stack' = stack
      BY <1>8, <2>3 DEF Follow
    <3>2. OnItsStack
      BY <2>1, <3>1 DEF FollowInv, Settled
    <3>3. ASSUME NEW s \in Stacks, NEW n \in 0..MaxHops, Starts(i, n, s)
          PROVE  n >= hops' + 1 /\ Leads(at', n - (hops' + 1), s)
      <4> DEFINE m == n - (hops + 1)
      <4>1. m \in Nat /\ Leads(at, m, s)
        BY <2>2, <3>3
      <4>2. m # 0
        <5>1. SUFFICES ASSUME m = 0 PROVE FALSE
          OBVIOUS
        <5>2. Names(at, s)
          BY <4>1, <5>1, LeadsByRecipe
        <5> QED
          BY <2>3, <5>2 DEF Names, Read, Verified, Attached
      <4>3. m \in Nat \ {0}
        BY <4>1, <4>2
      <4>4. Leads(held[at].rebase.from, m - 1, s)
        BY <4>1, <4>3, LeadsByRecord
      <4>5. m - 1 = n - (hops' + 1) /\ n >= hops' + 1
        BY <2>1, <3>1, <4>3
      <4> QED
        BY <3>1, <4>4, <4>5
    <3> QED
      BY <3>1, <3>2, <3>3
  <2>4. CASE ~(hops < MaxHops /\ ~Attached(at, "recipe") /\ Read(at, "rebase"))
    <3> DEFINE s0 == IF hops < MaxHops /\ Read(at, "recipe")
                     THEN held[at].recipe.stack ELSE NoStack
    <3>1. /\ stack' = [stack EXCEPT ![i] = s0]
          /\ image' = [image EXCEPT !.step = "reproduce"]
      BY <1>8, <2>4 DEF Follow, Working
    <3>2. image'.of = i /\ image'.todo = image.todo /\ image'.step = "reproduce"
      BY <3>1 DEF TypeInv
    <3>3. ASSUME NEW j \in Estate, NEW s \in Stacks, NEW n \in 0..MaxHops,
                 Settled(j)', Starts(j, n, s)
          PROVE  stack'[j] = s
      <4>1. CASE j = i
        <5> DEFINE m == n - (hops + 1)
        <5>1. hops < MaxHops /\ m \in Nat /\ Leads(at, m, s)
          BY <2>2, <3>3, <4>1
        <5>2. m = 0
          <6>1. SUFFICES ASSUME m \in Nat \ {0} PROVE FALSE
            BY <5>1
          <6>2. ~Attached(at, "recipe") /\ Read(at, "rebase")
            BY <5>1, <6>1, LeadsByRecord
          <6> QED
            BY <2>4, <5>1, <6>2
        <5>3. Names(at, s)
          BY <5>1, <5>2, LeadsByRecipe
        <5>4. s0 = s
          BY <5>1, <5>3 DEF Names
        <5> QED
          BY <2>1, <3>1, <4>1, <5>4 DEF TypeInv
      <4>2. CASE j # i
        <5>1. Settled(j) /\ stack'[j] = stack[j]
          BY <3>1, <3>2, <3>3, <4>2 DEF Settled, TypeInv
        <5> QED
          BY <2>1, <3>3, <5>1 DEF FollowInv
      <4> QED
        BY <4>1, <4>2
    <3> QED
      BY <3>2, <3>3
  <2> QED
    BY <2>3, <2>4
<1>9. CASE GatherFails \/ FollowFails
  <2>1. faults' # 0
    BY <1>9 DEF GatherFails, FollowFails, Fault, FollowInv
  <2> QED
    BY <1>6, <2>1
<1>10. CASE Attest \/ NotRebuilt \/ Rebuild
  <2>1. /\ stack' = stack /\ image.step = "reproduce"
        /\ image' = [image EXCEPT !.step = "next"]
    BY <1>10 DEF Attest, NotRebuilt, Rebuild, Working
  <2>2. /\ image'.step = "next" /\ image'.of = image.of /\ image'.todo = image.todo
    BY <2>1 DEF TypeInv
  <2>3. \A j : Settled(j)' => Settled(j)
    BY <2>1, <2>2 DEF Settled
  <2> QED
    BY <1>3, <1>6, <2>1, <2>2, <2>3 DEF FollowInv
<1>11. ASSUME NEW i \in Estate, TakeImage(i)
       PROVE  FollowInv'
  <2>1. /\ stack' = stack /\ image.step = "next" /\ i \in image.todo
        /\ image' = [of |-> i, step |-> "gather", todo |-> image.todo \ {i}]
    BY <1>11 DEF TakeImage
  <2>2. \A j : Settled(j)' => Settled(j)
    BY <2>1 DEF Settled
  <2> QED
    BY <1>3, <1>6, <2>1, <2>2 DEF FollowInv
<1>12. CASE UNCHANGED <<stack, reading>>
  <2>1. \A j : Settled(j)' = Settled(j)
    BY <1>12 DEF Settled, reading
  <2> QED
    BY <1>3, <1>6, <1>12, <2>1 DEF FollowInv, reading
<1>13. CASE UNCHANGED vars
  BY <1>12, <1>13 DEF vars
<1>14. CASE \E fails \in BOOLEAN : \/ HeadStack(fails)
                                   \/ \E v \in Stacks : CheckSignature(v, fails)
  BY <1>12, <1>14 DEF HeadStack, CheckSignature
<1> QED
  BY <1>7, <1>8, <1>9, <1>10, <1>11, <1>13, <1>14 DEF Next

\* While nothing fails, an image from which verified records lead back to a
\* recipe counts as a consumer of the stack that the nearest such recipe names,
\* or a recipe that could not be read blocks the way between them.
THEOREM ConsumersAreFound == Spec => []NoConsumerLost
<1>1. Init => FollowInv
  BY DEF Init, FollowInv, Settled
<1>2. TypeInv /\ FollowInv => NoConsumerLost
  <2> SUFFICES ASSUME TypeInv, FollowInv, Ended, faults = 0, NEW i \in Estate,
                      NEW s \in Stacks, NEW n \in 0..MaxHops, NEW p \in Paths(i, n),
                      FirstRecipe(p, n, s), ~Blocked(p, n)
               PROVE  i \in Consumers /\ stack[i] = s
    BY DEF NoConsumerLost
  <2>1. Starts(i, n, s)
    BY ChainStarts, Bounds
  <2>2. Settled(i)
    BY DEF Settled, Ended
  <2>3. stack[i] = s
    BY <2>1, <2>2 DEF FollowInv
  <2>4. \E kind \in {"recipe", "rebase"} : Verified(i, kind)
    BY <2>1 DEF Starts, Names, Read
  <2> QED
    BY <2>3, <2>4, StacksAreNamed DEF Consumers, Statements
<1> QED
  BY <1>1, <1>2, TypeCorrect, FollowStep, PTL DEF Spec
===============================================================================
