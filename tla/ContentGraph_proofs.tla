-------------------------- MODULE ContentGraph_proofs --------------------------
(***************************************************************************)
(* Proofs about Inventory and ContentGraph, for every registry, any number *)
(* of workers, and whatever is released or fails meanwhile.                *)
(***************************************************************************)
EXTENDS ContentGraph, FiniteSetTheorems, SequenceTheorems, WellFoundedInduction,
        TLAPS

-----------------------------------------------------------------------------
(* Numbers, sets and orders.                                               *)

\* A non-empty set of numbers has a least one.
LEMMA LeastExists ==
  ASSUME NEW T \in SUBSET Nat, T # {}
  PROVE  \E x \in T : \A y \in T : x <= y
<1> DEFINE R == OpToRel(<, Nat)
<1>1. IsWellFoundedOn(R, Nat)
  BY NatLessThanWellFounded
<1>2. \A x, y \in Nat : x < y => <<x, y>> \in R
  BY DEF OpToRel
<1> HIDE DEF R
<1>3. PICK x \in T : \A y \in T : ~ (<<y, x>> \in R)
  BY <1>1, WFMin, Zenon
<1>4. \A y \in T : ~ (y < x)
  BY <1>2, <1>3
<1> QED
  BY <1>4

\* There are n numbers from 1 to n.
LEMMA UpTo ==
  ASSUME NEW n \in Nat
  PROVE  IsFiniteSet(1..n) /\ Cardinality(1..n) = n
<1>1. IsFiniteSet(1..n) /\ Cardinality(1..n) = IF 1 > n THEN 0 ELSE n - 1 + 1
  BY FS_Interval
<1> QED
  BY <1>1

\* The elements of a finite set in a strict total order: all of them, each once,
\* and in that order.
StrictOrder(S, before) ==
    /\ \A x \in S : <<x, x>> \notin before
    /\ \A x, y \in S : x # y => <<x, y>> \in before \/ <<y, x>> \in before
    /\ \A x, y, z \in S : <<x, y>> \in before /\ <<y, z>> \in before => <<x, z>> \in before

\* Putting a finite set in a strict order lists each member once, and an
\* earlier place holds the smaller member: what the code's sorts return.
LEMMA InOrderIs ==
  ASSUME NEW S, IsFiniteSet(S), NEW before, StrictOrder(S, before)
  PROVE  LET n == Cardinality(S)
             s == InOrder(S, before)
         IN  /\ n \in Nat /\ s \in [1..n -> S]
             /\ \A x \in S : \E k \in 1..n : s[k] = x
             /\ \A j, k \in 1..n : j < k => s[j] # s[k] /\ <<s[j], s[k]>> \in before
<1> DEFINE n == Cardinality(S)
           s == InOrder(S, before)
           Less(x) == {y \in S : <<y, x>> \in before}
           rank == [x \in S |-> Cardinality(Less(x))]
<1>1. n \in Nat
  BY FS_CardinalityType
<1>2. ASSUME NEW x \in S PROVE IsFiniteSet(Less(x)) /\ rank[x] \in Nat /\ rank[x] < n
  <2>1. Less(x) \in SUBSET S /\ x \notin Less(x)
    BY DEF StrictOrder
  <2>2. IsFiniteSet(Less(x)) /\ Cardinality(Less(x)) <= n
    BY <2>1, FS_Subset
  <2>3. Cardinality(Less(x)) # n
    BY <2>1, FS_Subset
  <2>4. Cardinality(Less(x)) \in Nat
    BY <2>2, FS_CardinalityType
  <2> HIDE DEF Less
  <2> QED
    BY <1>1, <2>2, <2>3, <2>4
<1>3. ASSUME NEW x \in S, NEW y \in S, <<x, y>> \in before PROVE rank[x] < rank[y]
  <2>1. Less(x) \in SUBSET Less(y) /\ x \in Less(y) /\ x \notin Less(x)
    BY <1>3 DEF StrictOrder
  <2>2. Cardinality(Less(x)) <= Cardinality(Less(y))
        /\ Cardinality(Less(x)) # Cardinality(Less(y))
    BY <1>2, <2>1, FS_Subset
  <2>3. rank[x] \in Nat /\ rank[y] \in Nat
    BY <1>2
  <2> HIDE DEF Less
  <2> QED
    BY <2>2, <2>3
<1>4. \A x, y \in S : rank[x] < rank[y] => <<x, y>> \in before
  <2> SUFFICES ASSUME NEW x \in S, NEW y \in S, rank[x] < rank[y], <<x, y>> \notin before
               PROVE  FALSE
    OBVIOUS
  <2>1. x # y
    <3>1. rank[x] \in Nat
      BY <1>2
    <3> HIDE DEF rank
    <3> QED
      BY <3>1
  <2>2. <<y, x>> \in before
    BY <2>1 DEF StrictOrder
  <2>3. rank[y] < rank[x]
    BY <1>3, <2>2
  <2>4. rank[x] \in Nat /\ rank[y] \in Nat
    BY <1>2
  <2> HIDE DEF rank
  <2> QED
    BY <2>3, <2>4
<1>5. \A x, y \in S : rank[x] = rank[y] => x = y
  <2> SUFFICES ASSUME NEW x \in S, NEW y \in S, rank[x] = rank[y], x # y PROVE FALSE
    OBVIOUS
  <2>1. rank[x] < rank[y] \/ rank[y] < rank[x]
    BY <1>3 DEF StrictOrder
  <2>2. rank[x] \in Nat /\ rank[y] \in Nat
    BY <1>2
  <2> HIDE DEF rank
  <2> QED
    BY <2>1, <2>2
<1>6. \A x \in S : rank[x] = Cardinality(Less(x))
  OBVIOUS
<1>7. DOMAIN rank = S /\ rank = [x \in S |-> rank[x]]
  OBVIOUS
<1> HIDE DEF rank
<1>8. rank \in Surjection(S, 0..(n - 1))
  <2>1. rank \in [S -> 0..(n - 1)]
    <3>1. ASSUME NEW x \in S PROVE rank[x] \in 0..(n - 1)
      <4>1. rank[x] \in Nat /\ rank[x] < n
        BY <1>2
      <4> HIDE DEF n
      <4> QED
        BY <1>1, <4>1
    <3> QED
      BY <1>7, <3>1
  <2>2. rank \in Injection(S, 0..(n - 1))
    BY <1>5, <2>1 DEF Injection, IsInjective
  <2>3. IsFiniteSet(0..(n - 1)) /\ Cardinality(0..(n - 1)) = n
    <3> HIDE DEF n
    <3> DEFINE m == n - 1
    <3>1. m \in Int /\ 0 \in Int /\ (0 <= m \/ n = 0) /\ m - 0 + 1 = n /\ (0 > m => n = 0)
      BY <1>1
    <3> HIDE DEF m
    <3>2. IsFiniteSet(0..m) /\ Cardinality(0..m) = IF 0 > m THEN 0 ELSE m - 0 + 1
      BY <3>1, FS_Interval
    <3>3. Cardinality(0..m) = n
      BY <3>1, <3>2
    <3> QED
      BY <3>2, <3>3 DEF m
  <2> QED
    BY <2>2, <2>3, FS_Injection
<1>9. ASSUME NEW k \in 1..n
      PROVE  s[k] \in S /\ rank[s[k]] = k - 1
  <2>1. k - 1 \in 0..(n - 1)
    BY <1>1
  <2>2. PICK x \in S : rank[x] = k - 1
    BY <1>8, <2>1 DEF Surjection
  <2>3. \E y \in S : Cardinality(Less(y)) = k - 1
    BY <1>6, <2>2
  <2>4. s[k] = CHOOSE y \in S : Cardinality(Less(y)) = k - 1
    BY DEF InOrder
  <2>5. s[k] \in S /\ Cardinality(Less(s[k])) = k - 1
    BY <2>3, <2>4
  <2> QED
    BY <1>6, <2>5
<1>10. s \in [1..n -> S]
  <2>1. s = [k \in 1..n |-> CHOOSE y \in S : Cardinality(Less(y)) = k - 1]
    BY DEF InOrder
  <2> HIDE DEF s
  <2> QED
    BY <1>9, <2>1
<1> HIDE DEF s
<1>11. ASSUME NEW x \in S PROVE \E k \in 1..n : s[k] = x
  <2>1. rank[x] \in Nat /\ rank[x] < n
    BY <1>2
  <2>2. PICK k \in 1..n : k - 1 = rank[x]
    <3> HIDE DEF n
    <3>1. rank[x] + 1 \in 1..n /\ (rank[x] + 1) - 1 = rank[x]
      BY <1>1, <2>1
    <3> QED
      BY <3>1
  <2>3. s[k] \in S /\ rank[s[k]] = rank[x]
    BY <1>9, <2>2
  <2> QED
    BY <1>5, <2>2, <2>3
<1>12. ASSUME NEW j \in 1..n, NEW k \in 1..n, j < k
       PROVE  s[j] # s[k] /\ <<s[j], s[k]>> \in before
  <2>1. rank[s[j]] < rank[s[k]]
    BY <1>1, <1>9, <1>12
  <2>2. s[j] \in S /\ s[k] \in S
    BY <1>9
  <2>3. <<s[j], s[k]>> \in before
    BY <1>4, <2>1, <2>2
  <2> QED
    BY <2>2, <2>3 DEF StrictOrder
<1> QED
  BY <1>1, <1>10, <1>11, <1>12 DEF s

-----------------------------------------------------------------------------
(* The registry, while it is scanned.                                      *)

\* The smaller of two numbers.
LEMMA MinOfTwo ==
  ASSUME NEW x \in Int, NEW y \in Int
  PROVE  Min({x, y}) = IF x <= y THEN x ELSE y
<1> DEFINE m == IF x <= y THEN x ELSE y
<1>1. m \in {x, y} /\ m \in Int /\ \A z \in {x, y} : m <= z
  OBVIOUS
<1>2. \A w \in {x, y} : (\A z \in {x, y} : w <= z) => w = m
  BY <1>1
<1> HIDE DEF m
<1> QED
  BY <1>1, <1>2 DEF Min, m

\* The versions on a page, and the places they have in the whole list.
LEMMA PageIs ==
  ASSUME NEW v \in Seq(Versions), NEW page \in Nat \ {0}
  PROVE  LET before == (page - 1) * PageSize
             read == Page(v, page)
         IN  /\ before \in Nat /\ page * PageSize = before + PageSize
             /\ read \in Seq(Versions)
             /\ \A j \in DOMAIN read : j + before \in DOMAIN v /\ read[j] = v[j + before]
             /\ \A k \in DOMAIN v : before < k /\ k <= before + PageSize =>
                   k - before \in DOMAIN read /\ read[k - before] = v[k]
             /\ ShortPage(read) => Len(v) < before + PageSize
<1> DEFINE a == (page - 1) * PageSize
           read == Page(v, page)
           n == IF a + PageSize <= Len(v) THEN a + PageSize ELSE Len(v)
<1>1. PageSize \in Nat \ {0} /\ Len(v) \in Nat /\ DOMAIN v = 1..Len(v)
  BY Sizes
<1>2. a \in Nat /\ page * PageSize = a + PageSize
  BY <1>1
<1> HIDE DEF a
<1>3. n \in Nat /\ n <= Len(v)
  BY <1>1, <1>2
<1>4. read = SubSeq(v, a + 1, n)
  <2>1. Min({page * PageSize, Len(v)}) = n
    BY <1>1, <1>2, MinOfTwo
  <2> QED
    BY <2>1 DEF Page, a
<1>5. \A i \in (a + 1)..n : v[i] \in Versions
  BY <1>1, <1>2, <1>3
<1>6. /\ read \in Seq(Versions)
      /\ Len(read) = IF a + 1 <= n THEN n - (a + 1) + 1 ELSE 0
      /\ \A i \in 1..(n - (a + 1) + 1) : read[i] = v[(a + 1) + i - 1]
  <2> HIDE DEF n, read
  <2>1. a + 1 \in Int /\ n \in Int
    BY <1>2, <1>3
  <2> QED
    BY <1>4, <1>5, <2>1, SubSeqProperties
<1> HIDE DEF read
<1>7. DOMAIN read = 1..Len(read)
  BY <1>6
<1>8. ASSUME NEW j \in DOMAIN read PROVE j + a \in DOMAIN v /\ read[j] = v[j + a]
  <2> HIDE DEF n
  <2>1. j \in 1..(n - (a + 1) + 1) /\ (a + 1) + j - 1 = j + a
    BY <1>2, <1>3, <1>6, <1>7
  <2>2. read[j] = v[j + a]
    BY <1>6, <2>1
  <2>3. j + a \in 1..Len(v)
    BY <1>1, <1>2, <1>3, <2>1
  <2> QED
    BY <1>1, <2>2, <2>3
<1>9. ASSUME NEW k \in DOMAIN v, a < k, k <= a + PageSize
      PROVE  k - a \in DOMAIN read /\ read[k - a] = v[k]
  <2> DEFINE i == k - a
  <2>1. i \in 1..(n - (a + 1) + 1) /\ (a + 1) + i - 1 = k
    BY <1>1, <1>2, <1>9
  <2> HIDE DEF n
  <2>2. i \in 1..Len(read)
    BY <1>2, <1>3, <1>6, <2>1
  <2> HIDE DEF i
  <2>3. read[i] = v[k]
    BY <1>6, <2>1
  <2> QED
    BY <1>7, <2>2, <2>3 DEF i
<1>10. ShortPage(read) => Len(v) < a + PageSize
  <2> SUFFICES ASSUME a + PageSize <= Len(v) PROVE Len(read) = PageSize
    BY <1>1, <1>2 DEF ShortPage
  <2>1. n = a + PageSize
    OBVIOUS
  <2> HIDE DEF n
  <2> QED
    BY <1>1, <1>2, <1>6, <2>1
<1> QED
  BY <1>2, <1>6, <1>8, <1>9, <1>10 DEF a, read

\* A release adds versions before the others, or takes one away.
ReleaseOf(r, versions, moved, deletes) ==
    /\ published' = [published EXCEPT ![r] = versions]
    /\ during' = IF Underway(r)
                 THEN [during EXCEPT ![r] =
                         [there |-> @.there \cup moved, stayed |-> @.stayed \ moved,
                          whole |-> @.whole /\ ~deletes]]
                 ELSE during
    /\ UNCHANGED <<scan, entries, inventory>>

\* A release adds the tags it moved and no others, and unless it deletes
\* versions it only puts new ones in front of those listed.
LEMMA ReleaseIs ==
  ASSUME published \in [Repos -> Seq(Versions)], Release
  PROVE  \E r \in Repos, versions \in Seq(Versions), moved \in SUBSET Tags,
            deletes \in BOOLEAN :
            /\ ReleaseOf(r, versions, moved, deletes)
            /\ TagsOf(versions) \subseteq TagsOf(published[r]) \cup moved
            /\ ~deletes => \A k \in DOMAIN published[r] :
                  /\ k + 1 \in DOMAIN versions
                  /\ published[r][k].tags \ moved \subseteq versions[k + 1].tags
<1>1. ASSUME NEW r \in Repos, NEW c \in Released, NEW t \in Tags \ Sidecars, Push(r, c, t)
      PROVE  \E versions \in Seq(Versions), moved \in SUBSET Tags, deletes \in BOOLEAN :
                /\ ReleaseOf(r, versions, moved, deletes)
                /\ TagsOf(versions) \subseteq TagsOf(published[r]) \cup moved
                /\ ~deletes => \A k \in DOMAIN published[r] :
                      /\ k + 1 \in DOMAIN versions
                      /\ published[r][k].tags \ moved \subseteq versions[k + 1].tags
  <2> DEFINE old == published[r]
             rest == [k \in DOMAIN old |-> [old[k] EXCEPT !.tags = @ \ {t}]]
             new == [content |-> c, tags |-> {t}]
             versions == <<new>> \o rest
  <2>1. old \in Seq(Versions) /\ new \in Versions
    BY <1>1, VersionsType DEF Versions
  <2>2. ReleaseOf(r, versions, {t}, FALSE)
    BY <1>1 DEF Push, Change, ReleaseOf, scanning
  <2> HIDE DEF old, new
  <2>3. Len(old) \in Nat /\ DOMAIN old = 1..Len(old)
    BY <2>1
  <2>4. ASSUME NEW k \in 1..Len(old)
        PROVE  rest[k] \in Versions /\ rest[k].tags = old[k].tags \ {t}
    <3>0. old[k] \in Versions
      BY <2>1, <2>3
    <3>1. old[k] \in [content : Contents, tags : SUBSET Tags]
      BY <3>0 DEF Versions
    <3>2. rest[k] = [old[k] EXCEPT !.tags = @ \ {t}]
      BY <2>3
    <3> QED
      BY <3>1, <3>2 DEF Versions
  <2>5. rest = [k \in 1..Len(old) |-> rest[k]]
    BY <2>3
  <2> HIDE DEF rest
  <2>6. rest \in Seq(Versions) /\ Len(rest) = Len(old)
    <3>1. rest \in [1..Len(old) -> Versions]
      BY <2>4, <2>5
    <3> QED
      BY <2>3, <3>1
  <2>7. /\ versions \in Seq(Versions)
        /\ DOMAIN versions = 1..(Len(old) + 1)
        /\ versions[1] = new
        /\ \A k \in 1..Len(old) : versions[k + 1] = rest[k]
        /\ \A i \in 2..(Len(old) + 1) : versions[i] = rest[i - 1] /\ i - 1 \in 1..Len(old)
    BY <2>1, <2>3, <2>6
  <2> HIDE DEF versions
  <2>8. ASSUME NEW i \in DOMAIN versions
        PROVE  versions[i].tags \subseteq TagsOf(old) \cup {t}
    <3>1. CASE i = 1
      BY <2>7, <3>1 DEF new
    <3>2. CASE i # 1
      <4>1. i - 1 \in 1..Len(old) /\ versions[i] = rest[i - 1]
        BY <2>3, <2>7, <3>2
      <4> QED
        BY <2>3, <2>4, <4>1 DEF TagsOf
    <3> QED
      BY <3>1, <3>2
  <2>9. TagsOf(versions) \subseteq TagsOf(old) \cup {t}
    BY <2>8 DEF TagsOf
  <2>10. ASSUME NEW k \in DOMAIN old
         PROVE  k + 1 \in DOMAIN versions /\ old[k].tags \ {t} \subseteq versions[k + 1].tags
    BY <2>3, <2>4, <2>7
  <2>11. {t} \in SUBSET Tags
    OBVIOUS
  <2> QED
    BY <2>2, <2>7, <2>9, <2>10, <2>11 DEF old
<1>2. ASSUME NEW r \in Repos, NEW k \in DOMAIN published[r], Delete(r, k)
      PROVE  \E versions \in Seq(Versions), moved \in SUBSET Tags, deletes \in BOOLEAN :
                /\ ReleaseOf(r, versions, moved, deletes)
                /\ TagsOf(versions) \subseteq TagsOf(published[r]) \cup moved
                /\ ~deletes => \A j \in DOMAIN published[r] :
                      /\ j + 1 \in DOMAIN versions
                      /\ published[r][j].tags \ moved \subseteq versions[j + 1].tags
  <2> DEFINE old == published[r]
             left == SubSeq(old, 1, k - 1)
             right == SubSeq(old, k + 1, Len(old))
             versions == RemoveAt(old, k)
  <2>1. old \in Seq(Versions) /\ Len(old) \in Nat /\ k \in 1..Len(old)
        /\ DOMAIN old = 1..Len(old)
    OBVIOUS
  <2>2. ReleaseOf(r, versions, old[k].tags, TRUE)
    BY <1>2 DEF Delete, Change, ReleaseOf, scanning
  <2>3. old[k].tags \in SUBSET Tags
    <3>1. old[k] \in Versions
      BY <2>1
    <3> QED
      BY <3>1 DEF Versions
  <2>4. versions = left \o right
    BY DEF RemoveAt
  <2> DEFINE n == Len(old)
             last == n - k
             first == k - 1
  <2> HIDE DEF old
  <2>10. /\ n \in Nat /\ last \in Nat /\ first \in Nat /\ k \in Int
        /\ last = n - k /\ first = k - 1 /\ first + 1 + last = n
        /\ DOMAIN old = 1..n
    <3>1. n \in Nat /\ k \in 1..n /\ DOMAIN old = 1..n
      BY <2>1
    <3> HIDE DEF n
    <3>2. last \in Nat /\ first \in Nat
      BY <3>1
    <3>3. last = n - k /\ first = k - 1
      OBVIOUS
    <3>4. first + 1 + last = n
      BY <3>1
    <3> HIDE DEF first, last
    <3> QED
      BY <3>1, <3>2, <3>3, <3>4
  <2>5. /\ left \in Seq(Versions) /\ Len(left) = first
        /\ \A i \in 1..first : left[i] = old[i]
    <3>1. /\ left \in Seq(Versions)
          /\ Len(left) = IF 1 <= k - 1 THEN (k - 1) - 1 + 1 ELSE 0
          /\ \A i \in 1..((k - 1) - 1 + 1) : left[i] = old[1 + i - 1]
      BY <2>1, SubSeqProperties
    <3> HIDE DEF left, n, first
    <3>2. (k - 1) - 1 + 1 = first
      BY <2>10
    <3>4. Len(left) = first
      <4>1. CASE 1 <= k - 1
        BY <3>1, <3>2, <4>1
      <4>2. CASE ~(1 <= k - 1)
        <5>1. first = 0
          BY <2>10, <4>2
        <5> QED
          BY <3>1, <4>2, <5>1
      <4> QED
        BY <4>1, <4>2
    <3>3. ASSUME NEW i \in 1..first PROVE left[i] = old[i]
      <4>1. 1 + i - 1 = i
        OBVIOUS
      <4> QED
        BY <3>1, <3>2, <4>1
    <3> QED
      BY <3>1, <3>3, <3>4
  <2>6. /\ right \in Seq(Versions) /\ Len(right) = last
        /\ \A i \in 1..last : right[i] = old[k + i]
    <3>1. /\ right \in Seq(Versions)
          /\ Len(right) = IF k + 1 <= n THEN n - (k + 1) + 1 ELSE 0
          /\ \A i \in 1..(n - (k + 1) + 1) : right[i] = old[(k + 1) + i - 1]
      BY <2>1, SubSeqProperties
    <3> HIDE DEF right, n, last
    <3>2. n - (k + 1) + 1 = last
      BY <2>10
    <3>3. Len(right) = last
      <4>1. CASE k + 1 <= n
        BY <3>1, <3>2, <4>1
      <4>2. CASE ~(k + 1 <= n)
        <5>1. last = 0
          BY <2>10, <4>2
        <5> QED
          BY <3>1, <4>2, <5>1
      <4> QED
        BY <4>1, <4>2
    <3>4. ASSUME NEW i \in 1..last PROVE right[i] = old[k + i]
      <4>1. (k + 1) + i - 1 = k + i
        BY <2>10
      <4> QED
        BY <3>1, <3>2, <4>1
    <3> QED
      BY <3>1, <3>3, <3>4
  <2> HIDE DEF left, right, versions, n, last, first
  <2>7. /\ versions \in Seq(Versions)
        /\ DOMAIN versions = 1..(first + last)
        /\ \A i \in DOMAIN versions :
              versions[i] = IF i <= first THEN left[i] ELSE right[i - first]
    BY <2>4, <2>5, <2>6
  <2>8. ASSUME NEW i \in DOMAIN versions PROVE versions[i].tags \subseteq TagsOf(old)
    <3>1. CASE i <= first
      <4>1. i \in 1..first /\ i \in 1..n
        BY <2>10, <2>7, <3>1
      <4>2. versions[i] = old[i]
        BY <2>5, <2>7, <3>1, <4>1
      <4> QED
        BY <2>10, <4>1, <4>2 DEF TagsOf
    <3>2. CASE ~(i <= first)
      <4> DEFINE j == i - first
      <4>1. versions[i] = right[j]
        BY <2>7, <3>2
      <4>2. j \in 1..last /\ k + j \in 1..n
        BY <2>10, <2>7, <3>2
      <4> HIDE DEF j
      <4>3. right[j] = old[k + j]
        BY <2>6, <4>2
      <4> QED
        BY <2>10, <4>1, <4>2, <4>3 DEF TagsOf
    <3> QED
      BY <3>1, <3>2
  <2>9. TagsOf(versions) \subseteq TagsOf(old) \cup old[k].tags
    BY <2>8 DEF TagsOf
  <2> QED
    BY <2>2, <2>3, <2>7, <2>9 DEF old
<1> QED
  BY <1>1, <1>2 DEF Release

-----------------------------------------------------------------------------
(* The scan.                                                               *)

registryVars == <<published, scan, entries, inventory, during>>

Recorded == [status : {"none", "listed", "failed"}, tags : SUBSET Tags,
             truncated : BOOLEAN]
Seen == [there : SUBSET Tags, stayed : SUBSET Tags, whole : BOOLEAN]
Steps == {"list", "tags", "scanned", "imported", "failed"}
Place == [step : Steps, of : Nat, page : Nat \ {0}, reads : [Tags -> Nat]]

ScanTypes ==
    /\ published \in [Repos -> Seq(Versions)]
    /\ scan \in Place /\ (scan.step = "tags" => scan.of \in Repos)
    /\ entries \in [Repos -> Recorded] /\ during \in [Repos -> Seen]

\* A step is one of the scan, a release in the registry, or leaves what the
\* registry lists and the scan alone.
LEMMA StepIs ==
    [Next]_vars => ScanNext \/ Release \/ UNCHANGED registryVars
<1>1. Observe \/ Queue \/ FetchNothing \/ FoldIn => UNCHANGED registryVars
  BY DEF Observe, Queue, FetchNothing, FoldIn, inventoryVars, scanning, registryVars
<1>2. ASSUME NEW w \in Workers, Take(w) \/ Fetch(w) \/ FetchFails(w)
      PROVE  UNCHANGED registryVars
  <2>1. CASE Take(w)
    BY <2>1 DEF Take, inventoryVars, scanning, registryVars
  <2>2. CASE Fetch(w) \/ FetchFails(w)
    <3>1. PICK found : Answers(w, Key(working[w]), found)
      BY <2>2 DEF Fetch, FetchFails
    <3> QED
      BY <3>1 DEF Answers, scanning, registryVars
  <2> QED
    BY <1>2, <2>1, <2>2
<1>3. ASSUME NEW view, NEW budget, Build(view, budget) PROVE UNCHANGED registryVars
  BY <1>3 DEF Build, inventoryVars, scanning, registryVars
<1>4. CompareItem \/ Report \/ UNCHANGED vars => UNCHANGED registryVars
  BY DEF CompareItem, Report, vars, inventoryVars, scanning, registryVars
<1> QED
  BY <1>1, <1>2, <1>3, <1>4 DEF Next

\* The next repository, or the end of the scan.
LEMMA Turns ==
  ASSUME ScanTypes, NEW r \in Nat, NEW seen,
         seen \in [Repos -> Seen]
  PROVE  /\ At(r) \in Place
         /\ At(r).step = IF r \in Repos THEN "tags" ELSE "scanned"
         /\ At(r).step = "tags" => At(r).of = r
         /\ At(r).page = 1 /\ \A t \in Tags : At(r).reads[t] = 0
         /\ Begun(r, seen) \in [Repos -> Seen]
         /\ \A o \in Repos : o # r => Begun(r, seen)[o] = seen[o]
         /\ r \in Repos => Begun(r, seen)[r] =
               [there |-> TagsOf(published[r]), stayed |-> TagsOf(published[r]), whole |-> TRUE]
<1>1. NoReads \in [Tags -> Nat] /\ \A t \in Tags : NoReads[t] = 0
  BY DEF NoReads
<1> HIDE DEF NoReads
<1>2. CASE r \in Repos
  <2>1. /\ At(r) = [step |-> "tags", of |-> r, page |-> 1, reads |-> NoReads]
        /\ Begun(r, seen) = [seen EXCEPT ![r] =
              [there |-> TagsOf(published[r]), stayed |-> TagsOf(published[r]), whole |-> TRUE]]
    BY <1>2 DEF At, Begun
  <2>2. TagsOf(published[r]) \in SUBSET Tags
    <3>1. published[r] \in Seq(Versions)
      BY <1>2 DEF ScanTypes
    <3>2. \A k \in DOMAIN published[r] : published[r][k] \in Versions
      BY <3>1
    <3>3. \A v \in Versions : v.tags \in SUBSET Tags
      BY DEF Versions
    <3> QED
      BY <3>2, <3>3 DEF TagsOf
  <2> DEFINE now == TagsOf(published[r])
  <2> HIDE DEF now
  <2>3. [there |-> now, stayed |-> now, whole |-> TRUE] \in Seen
    BY <2>2 DEF now, Seen
  <2>4. At(r) \in Place
    BY <1>1, <2>1 DEF Place, Steps
  <2> QED
    BY <1>1, <1>2, <2>1, <2>3, <2>4 DEF now
<1>3. CASE r \notin Repos
  <2>1. /\ At(r) = [step |-> "scanned", of |-> 0, page |-> 1, reads |-> NoReads]
        /\ Begun(r, seen) = seen
    BY <1>3 DEF At, Begun
  <2>2. At(r) \in Place
    BY <1>1, <2>1 DEF Place, Steps
  <2> QED
    BY <1>1, <1>3, <2>1, <2>2
<1> QED
  BY <1>2, <1>3

\* The reads of a tag grow by the places it has on the page.
PageRead == Page(published[scan.of], scan.page)
ReadsNow == [t \in Tags |-> scan.reads[t] +
               Cardinality({k \in DOMAIN PageRead : t \in PageRead[k].tags})]

\* A page adds to what the scan read of a tag and takes nothing away, and what
\* it adds was listed when the page was read.
LEMMA MoreReads ==
  ASSUME ScanTypes, scan.step = "tags"
  PROVE  LET page == PageRead
             reads == ReadsNow
         IN  /\ reads \in [Tags -> Nat]
             /\ \A t \in Tags : scan.reads[t] > 0 => reads[t] > 0
             /\ \A t \in Tags : reads[t] > 0 =>
                   scan.reads[t] > 0 \/ t \in TagsOf(published[scan.of])
             /\ \A k \in DOMAIN page : \A t \in page[k].tags \cap Tags : reads[t] > 0
<1> DEFINE v == published[scan.of]
           page == Page(v, scan.page)
           On(t) == {k \in DOMAIN page : t \in page[k].tags}
           more == [t \in Tags |-> Cardinality(On(t))]
           reads == [t \in Tags |-> scan.reads[t] + Cardinality(On(t))]
<1>1. scan.of \in Repos /\ v \in Seq(Versions) /\ scan.page \in Nat \ {0}
      /\ scan.reads \in [Tags -> Nat]
  BY DEF ScanTypes, Place
<1> HIDE DEF v
<1>2. /\ page \in Seq(Versions)
      /\ \A j \in DOMAIN page : \E k \in DOMAIN v : page[j] = v[k]
  BY <1>1, PageIs
<1> HIDE DEF page
<1>3. DOMAIN page = 1..Len(page) /\ Len(page) \in Nat
  BY <1>2
<1>4. ASSUME NEW t \in Tags
      PROVE  IsFiniteSet(On(t)) /\ more[t] \in Nat /\ (more[t] = 0 <=> On(t) = {})
  <2>1. IsFiniteSet(1..Len(page))
    BY <1>3, FS_Interval
  <2>2. IsFiniteSet(On(t))
    BY <1>3, <2>1, FS_Subset
  <2> QED
    BY <2>2, FS_CardinalityType, FS_EmptySet
<1>5. \A t \in Tags : reads[t] = scan.reads[t] + more[t]
  OBVIOUS
<1>6. reads = [t \in Tags |-> reads[t]]
  OBVIOUS
<1> HIDE DEF reads, more
<1>7. \A t \in Tags : scan.reads[t] \in Nat /\ more[t] \in Nat /\ reads[t] \in Nat
  <2>1. \A t \in Tags : scan.reads[t] \in Nat
    BY <1>1
  <2>2. \A t \in Tags : more[t] \in Nat
    BY <1>4
  <2> HIDE DEF On
  <2> QED
    BY <1>5, <2>1, <2>2
<1>8. reads \in [Tags -> Nat]
  BY <1>6, <1>7
<1>9. ASSUME NEW t \in Tags
      PROVE  /\ scan.reads[t] > 0 => reads[t] > 0
             /\ On(t) # {} => reads[t] > 0
             /\ reads[t] > 0 => scan.reads[t] > 0 \/ On(t) # {}
  <2>1. /\ scan.reads[t] > 0 => reads[t] > 0
        /\ more[t] # 0 => reads[t] > 0
        /\ reads[t] > 0 => scan.reads[t] > 0 \/ more[t] # 0
    <3> HIDE DEF On
    <3> QED
      BY <1>5, <1>7
  <2> QED
    BY <1>4, <2>1
<1>10. ASSUME NEW t \in Tags, On(t) # {} PROVE t \in TagsOf(v)
  BY <1>2, <1>10 DEF TagsOf
<1>11. \A k \in DOMAIN page : \A t \in page[k].tags \cap Tags : k \in On(t)
  OBVIOUS
<1> QED
  BY <1>8, <1>9, <1>10, <1>11 DEF reads, page, v, PageRead, ReadsNow


\* What a step of the scan does to the repository it is at.
Ends(entry) ==
    /\ scan.step = "tags" /\ entries' = [entries EXCEPT ![scan.of] = entry]
    /\ scan' = At(scan.of + 1) /\ during' = Begun(scan.of + 1, during)
    /\ UNCHANGED <<published, inventory>>
ListedEntry(reads) ==
    [status |-> "listed", tags |-> Kept(reads),
     truncated |-> Reads(reads, Images(reads)) > MaxTags]
FailedEntry == [entries[scan.of] EXCEPT !.status = "failed"]
ReadsOn ==
    /\ scan.step = "tags"
    /\ scan' = [scan EXCEPT !.page = @ + 1, !.reads = ReadsNow]
    /\ UNCHANGED <<published, entries, inventory, during>>
Starts ==
    /\ scan.step = "list" /\ scan' = At(1) /\ during' = Begun(1, during)
    /\ UNCHANGED <<published, entries, inventory>>
NoList ==
    /\ scan.step = "list" /\ scan' = [scan EXCEPT !.step = "failed"]
    /\ UNCHANGED <<published, entries, inventory, during>>
Imports ==
    /\ scan.step = "scanned"
    /\ \E step \in {"failed", "imported"} : scan' = [scan EXCEPT !.step = step]
    /\ inventory' \in Imported(Refs)
    /\ UNCHANGED <<published, entries, during>>

\* The steps of a scan, with the end of a repository told from the page that
\* does not end it.
LEMMA ScanStepIs ==
    ScanNext => Starts \/ NoList \/ ReadsOn \/ Ends(FailedEntry) \/ Imports
                \/ (ShortPage(PageRead) /\ Ends(ListedEntry(ReadsNow)))
<1>1. ListRepositories => Starts
  BY DEF ListRepositories, Starts
<1>2. ListFails => NoList
  BY DEF ListFails, NoList
<1>3. ReadPage => ReadsOn \/ (ShortPage(PageRead) /\ Ends(ListedEntry(ReadsNow)))
  BY DEF ReadPage, ReadsOn, Ends, Listed, ListedEntry, PageRead, ReadsNow
<1>4. PageFails => Ends(FailedEntry)
  BY DEF PageFails, Ends, FailedEntry
<1>5. Import => Imports
  BY DEF Import, Imports
<1> QED
  BY <1>1, <1>2, <1>3, <1>4, <1>5 DEF ScanNext

\* Ending a repository records its entry and moves the scan on, and no other
\* entry changes.
LEMMA EntriesEnd ==
  ASSUME ScanTypes, scan.step = "tags", NEW entry \in Recorded, Ends(entry)
  PROVE  /\ ScanTypes'
         /\ entries'[scan.of] = entry
         /\ \A r \in Repos : r # scan.of => entries'[r] = entries[r]
<1>1. scan.of \in Repos /\ Repos \subseteq Nat
  BY NamesType DEF ScanTypes, Repos
<1>2. scan.of + 1 \in Nat
  <2>1. scan.of \in Nat
    BY <1>1
  <2> QED
    BY <2>1
<1>3. entries' = [entries EXCEPT ![scan.of] = entry] /\ entries \in [Repos -> Recorded]
  BY DEF Ends, ScanTypes
<1>4. entries' \in [Repos -> Recorded]
  BY <1>1, <1>3
<1>5. scan' = At(scan.of + 1) /\ during' = Begun(scan.of + 1, during)
      /\ during \in [Repos -> Seen]
  BY DEF Ends, ScanTypes
<1>6. scan' \in Place /\ (scan'.step = "tags" => scan'.of \in Repos)
      /\ during' \in [Repos -> Seen]
  BY <1>2, <1>5, Turns
<1>7. published' \in [Repos -> Seq(Versions)]
  BY DEF Ends, ScanTypes
<1> QED
  BY <1>1, <1>3, <1>4, <1>6, <1>7 DEF ScanTypes

\* What is recorded of a repository is an entry, listed or failed.
LEMMA EntryTypes ==
  ASSUME ScanTypes, scan.step = "tags"
  PROVE  ListedEntry(ReadsNow) \in Recorded /\ FailedEntry \in Recorded
<1>1. entries[scan.of] \in Recorded
  BY DEF ScanTypes
<1>2. FailedEntry \in Recorded
  BY <1>1 DEF FailedEntry, Recorded
<1>3. Kept(ReadsNow) \in SUBSET Tags
  BY NamesType DEF Kept, Images
<1>4. ListedEntry(ReadsNow) \in Recorded
  BY <1>3 DEF ListedEntry, Recorded
<1> QED
  BY <1>2, <1>4

\* Every step keeps the types of the scan.
LEMMA TypesStep == ScanTypes /\ [Next]_vars => ScanTypes'
<1> SUFFICES ASSUME ScanTypes, [Next]_vars PROVE ScanTypes'
  OBVIOUS
<1>0. Repos \subseteq Nat
  BY NamesType DEF Repos
<1>1. CASE Starts
  <2>1. scan' = At(1) /\ during' = Begun(1, during) /\ during \in [Repos -> Seen]
    BY <1>1 DEF Starts, ScanTypes
  <2>2. scan' \in Place /\ (scan'.step = "tags" => scan'.of \in Repos)
        /\ during' \in [Repos -> Seen]
    BY <2>1, Turns
  <2> QED
    BY <1>1, <2>2 DEF Starts, ScanTypes
<1>2. ASSUME NEW step \in Steps, step # "tags", scan' = [scan EXCEPT !.step = step],
             UNCHANGED <<published, entries, during>>
      PROVE  ScanTypes'
  <2>1. scan' \in Place /\ scan'.step # "tags"
    BY <1>2 DEF ScanTypes, Place
  <2> QED
    BY <1>2, <2>1 DEF ScanTypes
<1>3. CASE NoList \/ Imports
  BY <1>2, <1>3 DEF NoList, Imports, Steps
<1>4. CASE ReadsOn
  <2>1. ReadsNow \in [Tags -> Nat] /\ scan \in Place /\ scan.of \in Repos
    BY <1>4, MoreReads DEF ReadsOn, ScanTypes
  <2> HIDE DEF ReadsNow
  <2>2. scan' = [scan EXCEPT !.page = @ + 1, !.reads = ReadsNow]
    BY <1>4 DEF ReadsOn
  <2>3. scan.page \in Nat \ {0}
    BY <2>1 DEF Place
  <2>4. scan.page + 1 \in Nat \ {0}
    BY <2>3
  <2>5. scan' \in Place /\ scan'.of = scan.of
    BY <2>1, <2>2, <2>4 DEF Place
  <2> QED
    BY <1>4, <2>1, <2>5 DEF ReadsOn, ScanTypes
<1>5. ASSUME NEW entry, Ends(entry), entry \in {FailedEntry, ListedEntry(ReadsNow)}
      PROVE  ScanTypes'
  <2>1. scan.step = "tags"
    BY <1>5 DEF Ends
  <2> QED
    BY <1>5, <2>1, EntryTypes, EntriesEnd
<1>6. CASE Release
  <2>1. PICK r \in Repos, versions \in Seq(Versions), moved \in SUBSET Tags,
             deletes \in BOOLEAN : ReleaseOf(r, versions, moved, deletes)
    BY <1>6, ReleaseIs DEF ScanTypes
  <2>2. published' \in [Repos -> Seq(Versions)] /\ UNCHANGED <<scan, entries>>
    BY <2>1 DEF ReleaseOf, ScanTypes
  <2>3. during' \in [Repos -> Seen]
    <3>1. during \in [Repos -> Seen] /\ during[r] \in Seen
      BY DEF ScanTypes
    <3> DEFINE d == [there |-> during[r].there \cup moved,
                     stayed |-> during[r].stayed \ moved,
                     whole |-> during[r].whole /\ ~deletes]
    <3>2. d \in Seen
      BY <3>1 DEF Seen
    <3>3. during' = IF Underway(r) THEN [during EXCEPT ![r] = d] ELSE during
      BY <2>1 DEF ReleaseOf
    <3> HIDE DEF d
    <3> QED
      BY <3>1, <3>2, <3>3
  <2> QED
    BY <2>2, <2>3 DEF ScanTypes
<1>7. CASE UNCHANGED registryVars
  BY <1>7 DEF registryVars, ScanTypes
<1> QED
  BY <1>1, <1>3, <1>4, <1>5, <1>6, <1>7, StepIs, ScanStepIs

\* Repositories are recorded in turn, and what is recorded or read of one was
\* there while it was listed.
InTurn ==
    /\ scan.step = "list" => \A r \in Repos : entries[r].status = "none"
    /\ scan.step = "tags" =>
          \A r \in Repos : entries[r].status = "none" <=> scan.of <= r
    /\ Scanned => \A r \in Repos : entries[r].status # "none"
WasThere ==
    /\ \A r \in Repos : /\ entries[r].status # "listed" => entries[r].tags = {}
                        /\ entries[r].tags \subseteq during[r].there \ Sidecars
    /\ \A r \in Repos : Underway(r) =>
          /\ TagsOf(published[r]) \subseteq during[r].there
          /\ \A t \in Tags : scan.reads[t] > 0 => t \in during[r].there

\* The repositories are taken by number, and the one being scanned is one of
\* them.
LEMMA PlacesAreNumbers ==
  ASSUME ScanTypes
  PROVE  /\ Repos = 1..Len(Repositories) /\ Len(Repositories) \in Nat
         /\ scan.step = "tags" => scan.of \in Repos /\ scan.of \in Nat
                                  /\ scan.of + 1 \in Nat
<1>1. Repos = 1..Len(Repositories) /\ Len(Repositories) \in Nat
  BY NamesType DEF Repos
<1>2. scan.step = "tags" => scan.of \in Nat
  BY <1>1 DEF ScanTypes
<1> QED
  BY <1>1, <1>2 DEF ScanTypes

\* Every step keeps the repositories scanned in turn.
LEMMA InTurnStep ==
  ASSUME ScanTypes, InTurn, ScanNext \/ Release \/ UNCHANGED registryVars
  PROVE  InTurn'
<1>0. /\ Repos = 1..Len(Repositories) /\ Len(Repositories) \in Nat
      /\ scan.step = "tags" => scan.of \in Repos /\ scan.of \in Nat /\ scan.of + 1 \in Nat
  BY PlacesAreNumbers
<1>1. CASE Starts
  <2>1. scan' = At(1) /\ entries' = entries /\ \A r \in Repos : entries[r].status = "none"
    BY <1>1 DEF Starts, InTurn
  <2>2. during \in [Repos -> Seen]
    BY DEF ScanTypes
  <2>3. /\ scan'.step = IF 1 \in Repos THEN "tags" ELSE "scanned"
        /\ scan'.step = "tags" => scan'.of = 1
    BY <2>1, <2>2, Turns
  <2>4. \A r \in Repos : 1 <= r /\ 1 \in Repos
    BY <1>0
  <2> QED
    BY <2>1, <2>3, <2>4 DEF InTurn, Scanned
<1>2. CASE NoList
  <2>1. scan'.step = "failed"
    BY <1>2 DEF NoList, ScanTypes, Place
  <2> QED
    BY <2>1 DEF InTurn, Scanned
<1>3. CASE Imports
  <2>1. scan'.step \in {"failed", "imported"} /\ entries' = entries /\ Scanned
    BY <1>3 DEF Imports, ScanTypes, Place, Scanned
  <2> QED
    BY <2>1 DEF InTurn, Scanned
<1>4. CASE ReadsOn
  <2>1. scan'.step = "tags" /\ scan'.of = scan.of /\ scan.step = "tags" /\ entries' = entries
    BY <1>4 DEF ReadsOn, ScanTypes, Place
  <2> QED
    BY <2>1 DEF InTurn, Scanned
<1>5. ASSUME NEW entry, Ends(entry), entry \in {FailedEntry, ListedEntry(ReadsNow)}
      PROVE  InTurn'
  <2>1. scan.step = "tags" /\ scan' = At(scan.of + 1) /\ during \in [Repos -> Seen]
    BY <1>5 DEF Ends, ScanTypes
  <2>2. entry \in Recorded
    BY <1>5, <2>1, EntryTypes
  <2>3. /\ entries'[scan.of] = entry
        /\ \A r \in Repos : r # scan.of => entries'[r] = entries[r]
    BY <1>5, <2>1, <2>2, EntriesEnd
  <2>4. entry.status # "none"
    <3>1. entries[scan.of] \in Recorded
      BY <1>0, <2>1 DEF ScanTypes
    <3>2. FailedEntry.status = "failed"
      BY <3>1 DEF FailedEntry, Recorded
    <3>3. ListedEntry(ReadsNow).status = "listed"
      BY DEF ListedEntry
    <3> QED
      BY <1>5, <3>2, <3>3
  <2>5. \A r \in Repos : entries'[r].status = "none" <=> scan.of <= r /\ r # scan.of
    BY <2>1, <2>3, <2>4 DEF InTurn
  <2>6. \A r \in Repos : scan.of <= r /\ r # scan.of <=> scan.of + 1 <= r
    BY <1>0, <2>1
  <2>7. /\ scan'.step = IF scan.of + 1 \in Repos THEN "tags" ELSE "scanned"
        /\ scan'.step = "tags" => scan'.of = scan.of + 1
    BY <1>0, <2>1, Turns
  <2>8. scan.of + 1 \notin Repos => \A r \in Repos : ~ (scan.of + 1 <= r)
    BY <1>0, <2>1
  <2> QED
    BY <2>5, <2>6, <2>7, <2>8 DEF InTurn, Scanned
<1>6. CASE Release
  <2>1. UNCHANGED <<scan, entries>>
    BY <1>6, ReleaseIs DEF ScanTypes, ReleaseOf
  <2> QED
    BY <2>1 DEF InTurn, Scanned
<1>7. CASE UNCHANGED registryVars
  BY <1>7 DEF InTurn, Scanned, registryVars
<1> QED
  BY <1>1, <1>2, <1>3, <1>4, <1>5, <1>6, <1>7, ScanStepIs

\* Every step keeps that what was read had been there.
LEMMA WasThereStep ==
  ASSUME ScanTypes, InTurn, WasThere, ScanNext \/ Release \/ UNCHANGED registryVars
  PROVE  WasThere'
<1>0. /\ Repos = 1..Len(Repositories) /\ Len(Repositories) \in Nat
      /\ scan.step = "tags" => scan.of \in Repos /\ scan.of \in Nat /\ scan.of + 1 \in Nat
  BY PlacesAreNumbers
<1>1. ASSUME NEW o \in Nat, scan' = At(o), during' = Begun(o, during),
             published' = published,
             \A r \in Repos : /\ entries'[r].status # "listed" => entries'[r].tags = {}
                              /\ entries'[r].tags \subseteq during[r].there \ Sidecars,
             o \in Repos => entries'[o].tags = {}
      PROVE  WasThere'
  <2>1. during \in [Repos -> Seen]
    BY DEF ScanTypes
  <2>2. /\ \A r \in Repos : r # o => during'[r] = during[r]
        /\ o \in Repos => during'[o].there = TagsOf(published[o])
        /\ scan'.step = IF o \in Repos THEN "tags" ELSE "scanned"
        /\ scan'.step = "tags" => scan'.of = o
        /\ \A t \in Tags : scan'.reads[t] = 0
    <3>1. /\ \A r \in Repos : r # o => Begun(o, during)[r] = during[r]
          /\ At(o).step = IF o \in Repos THEN "tags" ELSE "scanned"
          /\ At(o).step = "tags" => At(o).of = o
          /\ \A t \in Tags : At(o).reads[t] = 0
      BY <2>1, Turns
    <3>2. o \in Repos => Begun(o, during)[o].there = TagsOf(published[o])
      <4> DEFINE now == TagsOf(published[o])
      <4>1. o \in Repos => Begun(o, during)[o] = [there |-> now, stayed |-> now, whole |-> TRUE]
        BY <2>1, Turns
      <4> HIDE DEF now
      <4>2. o \in Repos => Begun(o, during)[o].there = now
        BY <4>1
      <4> QED
        BY <4>2 DEF now
    <3> QED
      BY <1>1, <3>1, <3>2
  <2>3. \A r \in Repos : entries'[r].tags \subseteq during'[r].there \ Sidecars
    BY <1>1, <2>2
  <2>4. \A r \in Repos : (scan'.step = "tags" /\ scan'.of = r) =>
          /\ TagsOf(published[r]) \subseteq during'[r].there
          /\ \A t \in Tags : scan'.reads[t] > 0 => t \in during'[r].there
    BY <2>2
  <2> QED
    BY <1>1, <2>3, <2>4 DEF WasThere, Underway, TagsOf
<1>2. CASE Starts
  <2>1. \A r \in Repos : entries[r].tags = {}
    BY <1>2 DEF Starts, InTurn, WasThere
  <2> QED
    BY <1>1, <1>2, <2>1 DEF Starts, WasThere
<1>3. CASE NoList \/ Imports
  <2>1. scan'.step # "tags" /\ UNCHANGED <<entries, during>>
    BY <1>3 DEF NoList, Imports, ScanTypes, Place
  <2> QED
    BY <2>1 DEF WasThere, Underway
<1>4. CASE ReadsOn
  <2>1. /\ scan.step = "tags" /\ scan'.step = "tags" /\ scan'.of = scan.of
        /\ scan'.reads = ReadsNow /\ UNCHANGED <<published, entries, during>>
    BY <1>4 DEF ReadsOn, ScanTypes, Place
  <2>2. \A t \in Tags : ReadsNow[t] > 0 =>
           scan.reads[t] > 0 \/ t \in TagsOf(published[scan.of])
    BY <2>1, MoreReads
  <2> HIDE DEF ReadsNow
  <2> QED
    BY <2>1, <2>2 DEF WasThere, Underway, TagsOf
<1>5. ASSUME NEW entry, Ends(entry), entry \in {FailedEntry, ListedEntry(ReadsNow)}
      PROVE  WasThere'
  <2>1. /\ scan.step = "tags" /\ scan' = At(scan.of + 1)
        /\ during' = Begun(scan.of + 1, during) /\ published' = published
    BY <1>5 DEF Ends
  <2>2. entry \in Recorded
    BY <1>5, <2>1, EntryTypes
  <2>3. /\ entries'[scan.of] = entry
        /\ \A r \in Repos : r # scan.of => entries'[r] = entries[r]
    BY <1>5, <2>1, <2>2, EntriesEnd
  <2>4. /\ entries[scan.of].tags = {}
        /\ scan.of + 1 \in Repos => entries[scan.of + 1].tags = {}
    <3>1. \A r \in Repos : scan.of <= r => entries[r].tags = {}
      BY <2>1 DEF InTurn, WasThere
    <3>2. scan.of <= scan.of /\ scan.of <= scan.of + 1
      BY <1>0, <2>1
    <3> QED
      BY <1>0, <2>1, <3>1, <3>2
  <2>5. /\ entry.status # "listed" => entry.tags = {}
        /\ entry.tags \subseteq during[scan.of].there \ Sidecars
    <3>1. CASE entry = FailedEntry
      <4>1. entries[scan.of] \in Recorded
        BY <1>0, <2>1 DEF ScanTypes
      <4> QED
        BY <2>4, <3>1, <4>1 DEF FailedEntry, Recorded
    <3>2. CASE entry = ListedEntry(ReadsNow)
      <4>1. \A t \in Tags : ReadsNow[t] > 0 =>
               scan.reads[t] > 0 \/ t \in TagsOf(published[scan.of])
        BY <2>1, MoreReads
      <4> HIDE DEF ReadsNow
      <4>2. \A t \in Tags : ReadsNow[t] > 0 => t \in during[scan.of].there
        BY <1>0, <2>1, <4>1 DEF WasThere, Underway
      <4>3. entry.status = "listed" /\ entry.tags = Kept(ReadsNow)
        BY <3>2 DEF ListedEntry
      <4>4. \A t \in Kept(ReadsNow) : t \in Tags /\ t \notin Sidecars /\ ReadsNow[t] > 0
        BY NamesType DEF Kept, Images
      <4> QED
        BY <4>2, <4>3, <4>4
    <3> QED
      BY <1>5, <3>1, <3>2
  <2>6. \A r \in Repos : /\ entries'[r].status # "listed" => entries'[r].tags = {}
                         /\ entries'[r].tags \subseteq during[r].there \ Sidecars
    BY <2>3, <2>5 DEF WasThere
  <2>7. scan.of + 1 # scan.of
    BY <1>0, <2>1
  <2> QED
    BY <1>0, <1>1, <2>1, <2>3, <2>4, <2>6, <2>7
<1>6. CASE Release
  <2>1. PICK r \in Repos, versions \in Seq(Versions), moved \in SUBSET Tags,
             deletes \in BOOLEAN :
               /\ ReleaseOf(r, versions, moved, deletes)
               /\ TagsOf(versions) \subseteq TagsOf(published[r]) \cup moved
    BY <1>6, ReleaseIs DEF ScanTypes
  <2>2. /\ published' = [published EXCEPT ![r] = versions]
        /\ published \in [Repos -> Seq(Versions)] /\ UNCHANGED <<scan, entries>>
        /\ during \in [Repos -> Seen]
    BY <2>1 DEF ReleaseOf, ScanTypes
  <2>3. published'[r] = versions /\ \A o \in Repos : o # r => published'[o] = published[o]
    BY <2>2
  <2>4. /\ \A o \in Repos : o # r => during'[o] = during[o]
        /\ Underway(r) => during'[r].there = during[r].there \cup moved
        /\ ~Underway(r) => during'[r] = during[r]
    <3>1. CASE Underway(r)
      <4> DEFINE d == [there |-> during[r].there \cup moved,
                     stayed |-> during[r].stayed \ moved,
                     whole |-> during[r].whole /\ ~deletes]
      <4>1. during' = [during EXCEPT ![r] = d] /\ d.there = during[r].there \cup moved
        BY <2>1, <3>1 DEF ReleaseOf
      <4> HIDE DEF d
      <4> QED
        BY <2>2, <3>1, <4>1
    <3>2. CASE ~Underway(r)
      BY <2>1, <3>2 DEF ReleaseOf
    <3> QED
      BY <3>1, <3>2
  <2>5. \A o \in Repos : during[o].there \subseteq during'[o].there
    BY <2>4
  <2>6. \A o \in Repos : Underway(o) =>
           TagsOf(published'[o]) \subseteq during'[o].there
    <3>1. ASSUME NEW o \in Repos, Underway(o)
          PROVE  TagsOf(published'[o]) \subseteq during'[o].there
      <4>1. CASE o = r
        <5>1. TagsOf(published[r]) \subseteq during[r].there
          BY <3>1, <4>1 DEF WasThere
        <5> QED
          BY <2>1, <2>3, <2>4, <3>1, <4>1, <5>1
      <4>2. CASE o # r
        BY <2>3, <2>4, <3>1, <4>2 DEF WasThere
      <4> QED
        BY <4>1, <4>2
    <3> QED
      BY <3>1
  <2>7. \A o \in Repos : (TagsOf(published[o]))' = TagsOf(published'[o])
                         /\ Underway(o)' = Underway(o)
    BY <2>2 DEF TagsOf, Underway
  <2> QED
    BY <2>2, <2>5, <2>6, <2>7 DEF WasThere
<1>7. CASE UNCHANGED registryVars
  BY <1>7 DEF WasThere, Underway, registryVars, TagsOf
<1> QED
  BY <1>2, <1>3, <1>4, <1>5, <1>6, <1>7, ScanStepIs

-----------------------------------------------------------------------------
(* The inventory.                                                          *)

\* The references are those that are listed, each once, in their order.
LEMMA RefsAre ==
  ASSUME entries \in [Repos -> Recorded]
  PROVE  LET n == Cardinality(Listing)
         IN  /\ IsFiniteSet(Listing) /\ Listing \subseteq [repo : Repos, tag : Tags]
             /\ n \in Nat /\ n <= Len(Repositories) * Len(TagNames)
             /\ Refs \in [1..n -> Listing] /\ DOMAIN Refs = 1..n
             /\ \A x \in Listing : \E k \in 1..n : Refs[k] = x
             /\ \A j, k \in 1..n : j < k => Refs[j] # Refs[k] /\ RefBefore(Refs[j], Refs[k])
<1> DEFINE places == Repos \X Tags
           place == [x \in Listing |-> <<x.repo, x.tag>>]
           before == {pair \in Listing \X Listing : RefBefore(pair[1], pair[2])}
<1>1. /\ Repos = 1..Len(Repositories) /\ Len(Repositories) \in Nat
      /\ Tags = 1..Len(TagNames) /\ Len(TagNames) \in Nat
  BY NamesType DEF Repos, Tags
<1>2. /\ IsFiniteSet(Repos) /\ Cardinality(Repos) = Len(Repositories)
      /\ IsFiniteSet(Tags) /\ Cardinality(Tags) = Len(TagNames)
  BY <1>1, UpTo
<1>3. IsFiniteSet(places) /\ Cardinality(places) = Len(Repositories) * Len(TagNames)
  <2>1. Cardinality(places) = Cardinality(Repos) * Cardinality(Tags)
    BY <1>2, FS_Product
  <2>2. IsFiniteSet(places)
    BY <1>2, FS_Product
  <2> QED
    BY <1>2, <2>1, <2>2
<1>4. Listing \subseteq [repo : Repos, tag : Tags]
  BY DEF Listing
<1>5. place \in Injection(Listing, places)
  <2>1. \A x \in Listing : place[x] = <<x.repo, x.tag>> /\ x.repo \in Repos /\ x.tag \in Tags
    BY <1>4
  <2>2. DOMAIN place = Listing /\ place = [x \in Listing |-> place[x]]
    OBVIOUS
  <2> HIDE DEF place
  <2>3. \A x \in Listing : place[x] \in places
    <3>1. \A r \in Repos, t \in Tags : <<r, t>> \in places
      OBVIOUS
    <3> HIDE DEF places
    <3> QED
      BY <2>1, <3>1
  <2>4. place \in [Listing -> places]
    BY <2>2, <2>3
  <2>5. \A x, y \in Listing : place[x] = place[y] => x = y
    <3> SUFFICES ASSUME NEW x \in Listing, NEW y \in Listing, place[x] = place[y]
                 PROVE  x = y
      OBVIOUS
    <3>1. x.repo = y.repo /\ x.tag = y.tag
      BY <2>1
    <3>2. x \in [repo : Repos, tag : Tags] /\ y \in [repo : Repos, tag : Tags]
      BY <1>4
    <3> QED
      BY <3>1, <3>2
  <2> QED
    BY <2>4, <2>5 DEF Injection, IsInjective
<1>6. IsFiniteSet(Listing) /\ Cardinality(Listing) <= Len(Repositories) * Len(TagNames)
  BY <1>3, <1>5, FS_Injection
<1>7. StrictOrder(Listing, before)
  <2>1. \A x \in Listing : x.repo \in Int /\ x.tag \in Int
    BY <1>1, <1>4
  <2>2. \A x, y \in Listing : <<x, y>> \in before <=>
           x.repo < y.repo \/ (x.repo = y.repo /\ x.tag < y.tag)
    BY DEF RefBefore
  <2>3. \A x, y \in Listing : x.repo = y.repo /\ x.tag = y.tag => x = y
    BY <1>4
  <2> HIDE DEF before
  <2>4. \A x \in Listing : <<x, x>> \notin before
    BY <2>1, <2>2
  <2>5. \A x, y \in Listing : x # y => <<x, y>> \in before \/ <<y, x>> \in before
    BY <2>1, <2>2, <2>3
  <2>6. \A x, y, z \in Listing :
           <<x, y>> \in before /\ <<y, z>> \in before => <<x, z>> \in before
    BY <2>1, <2>2
  <2> QED
    BY <2>4, <2>5, <2>6 DEF StrictOrder
<1>8. Refs = InOrder(Listing, before)
  BY DEF Refs
<1> HIDE DEF before
<1>9. LET n == Cardinality(Listing)
      IN  /\ n \in Nat /\ Refs \in [1..n -> Listing]
          /\ \A x \in Listing : \E k \in 1..n : Refs[k] = x
          /\ \A j, k \in 1..n : j < k => Refs[j] # Refs[k] /\ <<Refs[j], Refs[k]>> \in before
  BY <1>6, <1>7, <1>8, InOrderIs
<1>10. \A x, y : <<x, y>> \in before => RefBefore(x, y)
  BY DEF before
<1> QED
  BY <1>4, <1>6, <1>9, <1>10

\* Importing turns the listing into as many images, each from one reference of
\* it and no two from the same one.
LEMMA ImportedIs ==
  ASSUME entries \in [Repos -> Recorded], NEW inv \in Imported(Refs)
  PROVE  LET n == Cardinality(Listing)
         IN  \E p \in [1..n -> 1..n] :
                /\ DOMAIN inv = 1..n /\ inv = [k \in 1..n |-> inv[k]]
                /\ \A j, k \in 1..n : p[j] = p[k] => j = k
                /\ \A k \in 1..n :
                      /\ inv[k] = [repo |-> Refs[p[k]].repo, tag |-> Refs[p[k]].tag,
                                   id |-> ID(Refs, p[k])]
                      /\ p[k] \in 1..n /\ Refs[p[k]] \in Listing
<1> DEFINE n == Cardinality(Listing)
           ids == [k \in DOMAIN Refs |-> ID(Refs, k)]
<1>1. DOMAIN Refs = 1..n /\ Refs \in [1..n -> Listing]
  BY RefsAre
<1>2. PICK p \in Sorted(ids) :
         inv = [k \in DOMAIN Refs |->
                  [repo |-> Refs[p[k]].repo, tag |-> Refs[p[k]].tag, id |-> ids[p[k]]]]
  BY DEF Imported
<1>3. p \in Bijection(1..n, 1..n)
  BY <1>1 DEF Sorted
<1>4. p \in [1..n -> 1..n] /\ \A j, k \in 1..n : p[j] = p[k] => j = k
  BY <1>3 DEF Bijection, Injection, IsInjective
<1>5. \A k \in 1..n : ids[k] = ID(Refs, k)
  BY <1>1
<1> HIDE DEF n, ids
<1>6. DOMAIN inv = 1..n /\ inv = [k \in 1..n |-> inv[k]]
  BY <1>1, <1>2
<1>7. ASSUME NEW k \in 1..n
      PROVE  /\ inv[k] = [repo |-> Refs[p[k]].repo, tag |-> Refs[p[k]].tag,
                          id |-> ID(Refs, p[k])]
             /\ p[k] \in 1..n /\ Refs[p[k]] \in Listing
  <2>1. p[k] \in 1..n
    BY <1>4
  <2> QED
    BY <1>1, <1>2, <1>5, <2>1
<1> QED
  BY <1>4, <1>6, <1>7 DEF n

\* The inventory is what the entries of a finished scan were imported as.
InventoryIs ==
    inventory = <<>> \/ (scan.step \in {"imported", "failed"} /\ inventory \in Imported(Refs))

\* What is imported depends on the entries alone.
LEMMA SameImport == entries' = entries => (Imported(Refs))' = Imported(Refs)
<1> SUFFICES ASSUME entries' = entries PROVE (Imported(Refs))' = Imported(Refs)
  OBVIOUS
<1>1. Listing' = Listing
  BY DEF Listing
<1>2. Refs' = Refs
  BY <1>1 DEF Refs, RefBefore
<1> QED
  BY <1>2

\* Every step keeps the inventory what importing the listing gives.
LEMMA InventoryStep ==
  ASSUME ScanTypes, InventoryIs, ScanNext \/ Release \/ UNCHANGED registryVars
  PROVE  InventoryIs'
<1>1. ASSUME UNCHANGED <<entries, inventory>>,
             inventory # <<>> => scan' = scan
      PROVE  InventoryIs'
  <2>1. (Imported(Refs))' = Imported(Refs)
    BY <1>1, SameImport
  <2> QED
    BY <1>1, <2>1 DEF InventoryIs
<1>2. CASE Imports
  <2>1. entries' = entries /\ scan'.step \in {"failed", "imported"} /\ inventory' \in Imported(Refs)
    BY <1>2 DEF Imports, ScanTypes, Place
  <2>2. (Imported(Refs))' = Imported(Refs)
    BY <2>1, SameImport
  <2> QED
    BY <2>1, <2>2 DEF InventoryIs
<1>3. ASSUME inventory # <<>> PROVE scan.step \in {"imported", "failed"}
  BY <1>3 DEF InventoryIs
<1>4. CASE Starts \/ NoList \/ ReadsOn
  <2>1. inventory = <<>>
    BY <1>3, <1>4 DEF Starts, NoList, ReadsOn
  <2> QED
    BY <1>1, <1>4, <2>1 DEF Starts, NoList, ReadsOn
<1>5. ASSUME NEW entry, Ends(entry) PROVE InventoryIs'
  <2>1. inventory' = <<>>
    BY <1>3, <1>5 DEF Ends
  <2> QED
    BY <2>1 DEF InventoryIs
<1>6. CASE Release
  <2>1. UNCHANGED <<scan, entries, inventory>>
    BY <1>6, ReleaseIs DEF ScanTypes, ReleaseOf
  <2> QED
    BY <1>1, <2>1
<1>7. CASE UNCHANGED registryVars
  BY <1>1, <1>7 DEF registryVars
<1> QED
  BY <1>2, <1>4, <1>5, <1>6, <1>7, ScanStepIs

ScanInv == ScanTypes /\ InTurn /\ WasThere /\ InventoryIs

\* The scan's invariant holds when nothing has been scanned.
LEMMA ScanInvInit == Init => ScanInv
<1> SUFFICES ASSUME Init PROVE ScanInv
  OBVIOUS
<1>1. /\ published \in Published
      /\ scan = [step |-> "list", of |-> 0, page |-> 1, reads |-> NoReads]
      /\ entries = [r \in Repos |-> [status |-> "none", tags |-> {}, truncated |-> FALSE]]
      /\ inventory = <<>>
      /\ during = [r \in Repos |-> [there |-> {}, stayed |-> {}, whole |-> TRUE]]
  BY DEF Init, InventoryInit
<1>2. NoReads \in [Tags -> Nat]
  BY DEF NoReads
<1>3. published \in [Repos -> Seq(Versions)]
  BY <1>1, VersionsType
<1>4. scan \in Place /\ scan.step = "list"
  BY <1>1, <1>2 DEF Place, Steps
<1>5. entries \in [Repos -> Recorded] /\ during \in [Repos -> Seen]
  BY <1>1 DEF Recorded, Seen
<1>6. \A r \in Repos : entries[r].status = "none" /\ entries[r].tags = {}
  BY <1>1
<1> QED
  BY <1>1, <1>3, <1>4, <1>5, <1>6
     DEF ScanInv, ScanTypes, InTurn, WasThere, InventoryIs, Underway, Scanned

\* Every step keeps the scan's invariant.
LEMMA ScanInvStep == ScanInv /\ [Next]_vars => ScanInv'
BY TypesStep, InTurnStep, WasThereStep, InventoryStep, StepIs DEF ScanInv

\* The scan's invariant holds in every behaviour.
LEMMA ScanInvHolds == Spec => []ScanInv
BY ScanInvInit, ScanInvStep, PTL DEF Spec

\* Whatever is released and whichever pages fail meanwhile, what is listed was
\* there, and nothing is of what could only be read in part.
THEOREM ListingsWereThere == Spec => []ListedWasThere
<1>1. ASSUME ScanInv PROVE ListedWasThere
  <2> USE <1>1 DEF ScanInv
  <2>1. ASSUME NEW k \in DOMAIN inventory
        PROVE  inventory[k].tag \in entries[inventory[k].repo].tags
    <3>1. inventory \in Imported(Refs)
      BY <2>1 DEF InventoryIs
    <3>2. entries \in [Repos -> Recorded]
      BY DEF ScanTypes
    <3> DEFINE n == Cardinality(Listing)
    <3>3. PICK p \in [1..n -> 1..n] :
             /\ DOMAIN inventory = 1..n
             /\ \A j \in 1..n :
                   /\ inventory[j] = [repo |-> Refs[p[j]].repo, tag |-> Refs[p[j]].tag,
                                      id |-> ID(Refs, p[j])]
                   /\ Refs[p[j]] \in Listing
      BY <3>1, <3>2, ImportedIs
    <3>4. PICK x \in Listing : inventory[k].repo = x.repo /\ inventory[k].tag = x.tag
      BY <2>1, <3>3
    <3> QED
      BY <3>4 DEF Listing
  <2> QED
    BY <2>1 DEF ListedWasThere, InTurn, WasThere, ScanTypes
<1> QED
  BY <1>1, ScanInvHolds, PTL

-----------------------------------------------------------------------------
(* What is not missed.                                                     *)

\* Of the tags that stayed where they were, those not read yet are on pages that
\* come next, as long as nothing was deleted.
StillToCome ==
    \A r \in Repos : Underway(r) /\ during[r].whole =>
        \A t \in during[r].stayed : scan.reads[t] > 0 \/
            \E k \in DOMAIN published[r] :
                (scan.page - 1) * PageSize < k /\ t \in published[r][k].tags

\* The places taken by the tags of a set.
LEMMA ReadsAre ==
  ASSUME NEW reads \in [Tags -> Nat], NEW S \in SUBSET Tags
  PROVE  /\ Reads(reads, S) \in Nat
         /\ \A T \in SUBSET S : Reads(reads, T) <= Reads(reads, S)
         /\ \A T \in SUBSET S : \A t \in S \ T :
               reads[t] > 0 => Reads(reads, T) < Reads(reads, S)
<1> DEFINE of == [t \in Tags |-> {t} \X (1..reads[t])]
           all(T) == UNION {{t} \X (1..reads[t]) : t \in T}
<1>1. ASSUME NEW T \in SUBSET Tags PROVE IsFiniteSet(all(T))
  <2> DEFINE sets == {{t} \X (1..reads[t]) : t \in T}
             f == [t \in T |-> {t} \X (1..reads[t])]
  <2>1. IsFiniteSet(Tags)
    <3>1. Tags = 1..Len(TagNames) /\ Len(TagNames) \in Nat
      BY NamesType DEF Tags
    <3> QED
      BY <3>1, FS_Interval
  <2>2. IsFiniteSet(T)
    BY <2>1, FS_Subset
  <2>3. f \in Surjection(T, sets)
    BY DEF Surjection
  <2>4. IsFiniteSet(sets)
    BY <2>2, <2>3, FS_Surjection
  <2>5. ASSUME NEW t \in T PROVE IsFiniteSet({t} \X (1..reads[t]))
    <3>1. reads[t] \in Nat
      OBVIOUS
    <3>2. IsFiniteSet(1..reads[t])
      BY <3>1, FS_Interval
    <3> QED
      BY <3>2, FS_Singleton, FS_Product
  <2> QED
    BY <2>4, <2>5, FS_UNION
<1>2. \A T : Reads(reads, T) = Cardinality(all(T))
  BY DEF Reads
<1>3. IsFiniteSet(all(S)) /\ Reads(reads, S) \in Nat
  BY <1>1, <1>2, FS_CardinalityType
<1>4. ASSUME NEW T \in SUBSET S
      PROVE  /\ Reads(reads, T) <= Reads(reads, S)
             /\ Reads(reads, T) \in Nat
             /\ Reads(reads, T) = Reads(reads, S) => all(S) = all(T)
  <2>1. all(T) \in SUBSET all(S)
    OBVIOUS
  <2> HIDE DEF all
  <2>2. IsFiniteSet(all(T))
    BY <1>3, <2>1, FS_Subset
  <2> QED
    BY <1>2, <1>3, <2>1, <2>2, FS_Subset, FS_CardinalityType
<1>5. ASSUME NEW T \in SUBSET S, NEW t \in S \ T, reads[t] > 0
      PROVE  all(S) # all(T)
  <2>1. 1 \in 1..reads[t]
    <3>1. reads[t] \in Nat
      OBVIOUS
    <3> QED
      BY <1>5, <3>1
  <2>2. <<t, 1>> \in all(S)
    BY <2>1
  <2>3. <<t, 1>> \notin all(T)
    OBVIOUS
  <2> QED
    BY <2>2, <2>3
<1> HIDE DEF all
<1>6. \A T \in SUBSET S : \A t \in S \ T :
         reads[t] > 0 => Reads(reads, T) < Reads(reads, S)
  <2> SUFFICES ASSUME NEW T \in SUBSET S, NEW t \in S \ T, reads[t] > 0
               PROVE  Reads(reads, T) < Reads(reads, S)
    OBVIOUS
  <2>1. Reads(reads, T) # Reads(reads, S)
    BY <1>4, <1>5
  <2>2. /\ Reads(reads, T) <= Reads(reads, S)
        /\ Reads(reads, T) \in Nat /\ Reads(reads, S) \in Nat
    BY <1>3, <1>4
  <2> QED
    BY <2>1, <2>2
<1> QED
  BY <1>3, <1>4, <1>6

\* An image tag that was read is kept, or sorts below as many as the cap keeps.
LEMMA KeptIs ==
  ASSUME NEW reads \in [Tags -> Nat], NEW t \in Images(reads), t \notin Kept(reads)
  PROVE  Reads(reads, Images(reads)) > MaxTags /\ \A u \in Kept(reads) : u > t
<1> DEFINE images == Images(reads)
           above(u) == {v \in images : v > u}
<1>1. images \in SUBSET Tags /\ Tags \in SUBSET Int /\ MaxTags \in Nat
  BY NamesType, Sizes DEF Images, Tags
<1>0. t \in images /\ \A u \in images : u \in Int
  BY <1>1
<1>2. ASSUME NEW u \in images
      PROVE  /\ Reads(reads, above(u)) \in Nat /\ above(u) \in SUBSET images
             /\ u \in Kept(reads) <=> Reads(reads, above(u)) < MaxTags
  <2>1. above(u) \in SUBSET images
    OBVIOUS
  <2>2. Reads(reads, above(u)) \in Nat
    BY <1>1, <2>1, ReadsAre
  <2> QED
    BY <2>1, <2>2 DEF Kept
<1>3. ~(Reads(reads, above(t)) < MaxTags) /\ reads[t] > 0
  BY <1>2 DEF Images
<1>4. Reads(reads, images) > MaxTags
  <2>1. t \in images \ above(t)
    <3> HIDE DEF images
    <3> QED
      BY <1>0
  <2>2. Reads(reads, above(t)) < Reads(reads, images) /\ Reads(reads, images) \in Nat
    BY <1>1, <1>2, <1>3, <2>1, ReadsAre
  <2>3. Reads(reads, above(t)) \in Nat
    BY <1>2
  <2> HIDE DEF above, images
  <2> QED
    BY <1>1, <1>3, <2>2, <2>3
<1>5. ASSUME NEW u \in Kept(reads), ~(u > t) PROVE FALSE
  <2>1. u \in images /\ u # t
    BY DEF Kept
  <2>2. u < t
    <3> HIDE DEF images
    <3> QED
      BY <1>0, <1>5, <2>1
  <2>3. above(t) \in SUBSET above(u) /\ above(u) \in SUBSET Tags
    <3>1. above(u) \in SUBSET images
      OBVIOUS
    <3> HIDE DEF images
    <3>2. \A v \in images : v > t => v > u
      BY <1>0, <2>1, <2>2
    <3> QED
      BY <1>1, <3>1, <3>2
  <2>4. Reads(reads, above(t)) <= Reads(reads, above(u))
    BY <2>3, ReadsAre
  <2>5. Reads(reads, above(u)) < MaxTags /\ Reads(reads, above(u)) \in Nat
        /\ Reads(reads, above(t)) \in Nat
    BY <1>2, <2>1
  <2> HIDE DEF above, images
  <2> QED
    BY <1>1, <1>3, <2>4, <2>5
<1> QED
  BY <1>4, <1>5

\* After the last page every tag that stayed was read.
LEMMA AllRead ==
  ASSUME ScanTypes, StillToCome, scan.step = "tags", during[scan.of].whole
  PROVE  \A t \in during[scan.of].stayed :
            \/ ReadsNow[t] > 0
            \/ /\ ~ ShortPage(PageRead)
               /\ \E k \in DOMAIN published[scan.of] :
                     /\ scan.page * PageSize < k
                     /\ t \in published[scan.of][k].tags
<1> DEFINE v == published[scan.of]
           before == (scan.page - 1) * PageSize
<1>1. /\ scan.of \in Repos /\ v \in Seq(Versions) /\ scan.page \in Nat \ {0}
      /\ during[scan.of].stayed \subseteq Tags
  <2>1. scan.of \in Repos /\ v \in Seq(Versions) /\ scan.page \in Nat \ {0}
    BY DEF ScanTypes, Place
  <2>2. during[scan.of] \in Seen
    BY <2>1 DEF ScanTypes
  <2> QED
    BY <2>1, <2>2 DEF Seen
<1>2. /\ before \in Nat /\ scan.page * PageSize = before + PageSize
      /\ \A k \in DOMAIN v : before < k /\ k <= before + PageSize =>
            k - before \in DOMAIN PageRead /\ PageRead[k - before] = v[k]
      /\ ShortPage(PageRead) => Len(v) < before + PageSize
  BY <1>1, PageIs DEF PageRead
<1>3. \A k \in DOMAIN PageRead : \A t \in PageRead[k].tags \cap Tags : ReadsNow[t] > 0
  BY MoreReads
<1>4. \A t \in Tags : scan.reads[t] > 0 => ReadsNow[t] > 0
  BY MoreReads
<1>5. \A t \in during[scan.of].stayed : scan.reads[t] > 0 \/
            \E k \in DOMAIN v : before < k /\ t \in v[k].tags
  BY <1>1 DEF StillToCome, Underway
<1>6. DOMAIN v = 1..Len(v) /\ Len(v) \in Nat /\ PageSize \in Nat
  BY <1>1, Sizes
<1> HIDE DEF v, before, ReadsNow, PageRead
<1>7. ASSUME NEW t \in during[scan.of].stayed, NEW k \in DOMAIN v, before < k,
             t \in v[k].tags
      PROVE  \/ ReadsNow[t] > 0
             \/ ~ ShortPage(PageRead) /\ before + PageSize < k
  <2>1. CASE k <= before + PageSize
    <3>1. k - before \in DOMAIN PageRead /\ PageRead[k - before] = v[k]
      BY <1>2, <1>7, <2>1
    <3>2. t \in PageRead[k - before].tags \cap Tags
      BY <1>1, <1>7, <3>1
    <3> QED
      BY <1>3, <3>1, <3>2
  <2>2. CASE ~(k <= before + PageSize)
    <3>1. before + PageSize < k /\ ~(Len(v) < before + PageSize)
      BY <1>2, <1>6, <2>2
    <3> QED
      BY <1>2, <3>1
  <2> QED
    BY <2>1, <2>2
<1>8. ASSUME NEW t \in during[scan.of].stayed
      PROVE  \/ ReadsNow[t] > 0
             \/ /\ ~ ShortPage(PageRead)
                /\ \E k \in DOMAIN v : before + PageSize < k /\ t \in v[k].tags
  <2>1. CASE scan.reads[t] > 0
    BY <1>1, <1>4, <2>1
  <2>2. CASE ~(scan.reads[t] > 0)
    BY <1>5, <1>7, <2>2
  <2> QED
    BY <2>1, <2>2
<1> QED
  BY <1>2, <1>8 DEF v

Misses == StillToCome /\ NoTagMissed

\* Every step keeps that no tag which stayed listed all along is missed, and
\* that what is not read yet is still to come.
LEMMA MissesStep ==
  ASSUME ScanTypes, InTurn, Misses, ScanNext \/ Release \/ UNCHANGED registryVars
  PROVE  Misses'
<1>0. /\ Repos = 1..Len(Repositories) /\ Len(Repositories) \in Nat
      /\ scan.step = "tags" => scan.of \in Repos /\ scan.of \in Nat /\ scan.of + 1 \in Nat
  BY PlacesAreNumbers
<1> DEFINE Missed(r, entry, seen) ==
              \E t \in (seen.stayed \cap Selected) \ Sidecars :
                 t \notin entry.tags /\ ~(entry.truncated /\ \A u \in entry.tags : u > t)
<1>1. NoTagMissed <=> \A r \in Repos : entries[r].status = "listed" /\ during[r].whole
                                          => ~Missed(r, entries[r], during[r])
  BY DEF NoTagMissed
<1>2. NoTagMissed' <=> \A r \in Repos : entries'[r].status = "listed" /\ during'[r].whole
                                          => ~Missed(r, entries'[r], during'[r])
  BY DEF NoTagMissed
<1> HIDE DEF Missed
\* The repository the scan turns to next, if any.
<1>3. ASSUME NEW o \in Nat, scan' = At(o), during' = Begun(o, during),
             published' = published,
             \A r \in Repos : entries'[r].status = "listed" /\ during[r].whole
                                 => ~Missed(r, entries'[r], during[r]),
             o \in Repos => entries'[o].status = "none"
      PROVE  Misses'
  <2>1. during \in [Repos -> Seen]
    BY DEF ScanTypes
  <2>2. /\ \A r \in Repos : r # o => Begun(o, during)[r] = during[r]
        /\ At(o).step = IF o \in Repos THEN "tags" ELSE "scanned"
        /\ At(o).step = "tags" => At(o).of = o
        /\ At(o).page = 1
    BY <2>1, Turns
  <2>3. NoTagMissed'
    <3> SUFFICES ASSUME NEW r \in Repos, entries'[r].status = "listed", during'[r].whole
                 PROVE  ~Missed(r, entries'[r], during'[r])
      BY <1>2
    <3>1. r # o
      BY <1>3
    <3> QED
      BY <1>3, <2>2, <3>1
  <2>4. ASSUME scan'.step = "tags" PROVE o \in Repos /\ scan'.of = o /\ scan'.page = 1
    BY <1>3, <2>2, <2>4
  <2>5. ASSUME NEW t, o \in Repos, t \in during'[o].stayed
        PROVE  \E k \in DOMAIN published[o] : 0 < k /\ t \in published[o][k].tags
    <3> DEFINE now == TagsOf(published[o])
    <3>1. Begun(o, during)[o] = [there |-> now, stayed |-> now, whole |-> TRUE]
      BY <2>1, <2>5, Turns
    <3> HIDE DEF now
    <3>2. during'[o].stayed = now
      BY <1>3, <3>1
    <3>3. PICK k \in DOMAIN published[o] : t \in published[o][k].tags
      BY <2>5, <3>2 DEF now, TagsOf
    <3>4. k > 0
      <4>1. published[o] \in Seq(Versions)
        BY <2>5 DEF ScanTypes
      <4> QED
        BY <4>1
    <3> QED
      BY <3>3, <3>4
  <2>6. (scan'.page - 1) * PageSize = 0 \/ scan'.step # "tags"
    BY <2>4, Sizes
  <2>7. StillToCome'
    <3> SUFFICES ASSUME NEW r \in Repos, scan'.step = "tags", scan'.of = r,
                        NEW t \in during'[r].stayed
                 PROVE  \E k \in DOMAIN published'[r] :
                           (scan'.page - 1) * PageSize < k /\ t \in published'[r][k].tags
      BY DEF StillToCome, Underway
    <3> QED
      BY <1>3, <2>4, <2>5, <2>6
  <2> QED
    BY <2>3, <2>7 DEF Misses
<1>4. ASSUME scan'.step # "tags", UNCHANGED <<entries, during>> PROVE Misses'
  BY <1>4 DEF Misses, StillToCome, NoTagMissed, Underway
<1>5. CASE NoList \/ Imports
  <2>1. scan'.step # "tags" /\ UNCHANGED <<entries, during>>
    BY <1>5 DEF NoList, Imports, ScanTypes, Place
  <2> QED
    BY <1>4, <2>1
<1>6. CASE Starts
  <2>1. \A r \in Repos : entries'[r].status = "none"
    BY <1>6 DEF Starts, InTurn
  <2> QED
    BY <1>3, <1>6, <2>1 DEF Starts
<1>7. CASE ReadsOn
  <2>1. /\ scan.step = "tags" /\ scan'.step = "tags" /\ scan'.of = scan.of
        /\ scan'.page = scan.page + 1 /\ scan.page \in Nat
        /\ scan'.reads = ReadsNow /\ UNCHANGED <<published, entries, during>>
    BY <1>7 DEF ReadsOn, ScanTypes, Place
  <2>2. NoTagMissed'
    BY <2>1 DEF NoTagMissed, Misses
  <2>3. during[scan.of].whole => \A t \in during[scan.of].stayed :
           \/ ReadsNow[t] > 0
           \/ \E k \in DOMAIN published[scan.of] :
                 scan.page * PageSize < k /\ t \in published[scan.of][k].tags
    BY <2>1, AllRead DEF Misses
  <2>4. scan'.page - 1 = scan.page
    BY <2>1
  <2> HIDE DEF ReadsNow
  <2>5. StillToCome'
    BY <2>1, <2>3, <2>4 DEF StillToCome, Underway
  <2> QED
    BY <2>2, <2>5 DEF Misses
<1>8. ASSUME NEW entry \in Recorded, Ends(entry),
             entry.status = "listed" /\ during[scan.of].whole
                => ~Missed(scan.of, entry, during[scan.of])
      PROVE  Misses'
  <2>1. /\ scan.step = "tags" /\ scan' = At(scan.of + 1)
        /\ during' = Begun(scan.of + 1, during) /\ published' = published
    BY <1>8 DEF Ends
  <2>2. /\ entries'[scan.of] = entry
        /\ \A r \in Repos : r # scan.of => entries'[r] = entries[r]
    BY <1>8, <2>1, EntriesEnd
  <2>3. \A r \in Repos : entries'[r].status = "listed" /\ during[r].whole
                                 => ~Missed(r, entries'[r], during[r])
    BY <1>1, <1>8, <2>2 DEF Misses
  <2>4. scan.of + 1 \in Repos => entries'[scan.of + 1].status = "none"
    <3>1. scan.of <= scan.of + 1 /\ scan.of # scan.of + 1
      BY <1>0, <2>1
    <3> QED
      BY <2>1, <2>2, <3>1 DEF InTurn
  <2> QED
    BY <1>0, <1>3, <2>1, <2>3, <2>4
<1>9. CASE Ends(FailedEntry)
  <2>1. scan.step = "tags" /\ FailedEntry \in Recorded
    BY <1>9, EntryTypes DEF Ends
  <2>2. FailedEntry.status = "failed"
    <3>1. entries[scan.of] \in Recorded
      BY <1>0, <2>1 DEF ScanTypes
    <3> QED
      BY <3>1 DEF FailedEntry, Recorded
  <2> QED
    BY <1>8, <1>9, <2>1, <2>2
<1>10. CASE ShortPage(PageRead) /\ Ends(ListedEntry(ReadsNow))
  <2>1. scan.step = "tags" /\ ListedEntry(ReadsNow) \in Recorded /\ ReadsNow \in [Tags -> Nat]
    BY <1>10, EntryTypes, MoreReads DEF Ends
  <2>2. ASSUME during[scan.of].whole PROVE ~Missed(scan.of, ListedEntry(ReadsNow), during[scan.of])
    <3>1. \A t \in during[scan.of].stayed : ReadsNow[t] > 0
      BY <1>10, <2>1, <2>2, AllRead DEF Misses
    <3>2. ASSUME NEW t \in (during[scan.of].stayed \cap Selected) \ Sidecars,
                 t \notin Kept(ReadsNow)
          PROVE  Reads(ReadsNow, Images(ReadsNow)) > MaxTags
                 /\ \A u \in Kept(ReadsNow) : u > t
      <4>1. t \in Images(ReadsNow)
        BY <3>1 DEF Images
      <4> QED
        BY <2>1, <3>2, <4>1, KeptIs
    <3> QED
      BY <3>2 DEF Missed, ListedEntry
  <2> QED
    BY <1>8, <1>10, <2>1, <2>2
<1>11. CASE Release
  <2>1. PICK r \in Repos, versions \in Seq(Versions), moved \in SUBSET Tags,
             deletes \in BOOLEAN :
               /\ ReleaseOf(r, versions, moved, deletes)
               /\ ~deletes => \A k \in DOMAIN published[r] :
                     /\ k + 1 \in DOMAIN versions
                     /\ published[r][k].tags \ moved \subseteq versions[k + 1].tags
    BY <1>11, ReleaseIs DEF ScanTypes
  <2>2. /\ published' = [published EXCEPT ![r] = versions]
        /\ published \in [Repos -> Seq(Versions)] /\ UNCHANGED <<scan, entries>>
        /\ during \in [Repos -> Seen]
    BY <2>1 DEF ReleaseOf, ScanTypes
  <2>3. published'[r] = versions /\ \A o \in Repos : o # r => published'[o] = published[o]
    BY <2>2
  <2>4. /\ \A o \in Repos : ~(o = r /\ Underway(r)) => during'[o] = during[o]
        /\ Underway(r) => /\ during'[r].stayed = during[r].stayed \ moved
                          /\ during'[r].whole = (during[r].whole /\ ~deletes)
    <3>1. CASE Underway(r)
      <4> DEFINE d == [there |-> during[r].there \cup moved,
                     stayed |-> during[r].stayed \ moved,
                     whole |-> during[r].whole /\ ~deletes]
      <4>1. during' = [during EXCEPT ![r] = d] /\ d.stayed = during[r].stayed \ moved
            /\ d.whole = (during[r].whole /\ ~deletes)
        BY <2>1, <3>1 DEF ReleaseOf
      <4> HIDE DEF d
      <4> QED
        BY <2>2, <3>1, <4>1
    <3>2. CASE ~Underway(r)
      BY <2>1, <3>2 DEF ReleaseOf
    <3> QED
      BY <3>1, <3>2
  <2>5. NoTagMissed'
    <3> SUFFICES ASSUME NEW o \in Repos, entries[o].status = "listed", during'[o].whole
                 PROVE  ~Missed(o, entries[o], during'[o])
      BY <1>2, <2>2
    <3>1. ~Underway(o)
      <4>1. Underway(o) => scan.of <= o
        BY <1>0 DEF Underway
      <4> QED
        BY <4>1 DEF InTurn, Underway
    <3> QED
      BY <1>1, <2>4, <3>1 DEF Misses
  <2>6. ASSUME NEW o \in Repos, Underway(o), during'[o].whole, NEW t \in during'[o].stayed,
               ~(scan.reads[t] > 0)
        PROVE  \E k \in DOMAIN published'[o] :
                  (scan.page - 1) * PageSize < k /\ t \in published'[o][k].tags
    <3>1. CASE o # r
      BY <2>3, <2>4, <2>6, <3>1 DEF Misses, StillToCome
    <3>2. CASE o = r
      <4>1. during[r].whole /\ ~deletes /\ t \in during[r].stayed /\ t \notin moved
        BY <2>4, <2>6, <3>2
      <4>2. PICK k \in DOMAIN published[r] :
               (scan.page - 1) * PageSize < k /\ t \in published[r][k].tags
        BY <2>6, <3>2, <4>1 DEF Misses, StillToCome
      <4>3. k + 1 \in DOMAIN versions /\ t \in versions[k + 1].tags
        BY <2>1, <4>1, <4>2
      <4>4. (scan.page - 1) * PageSize < k + 1
        <5>1. published[r] \in Seq(Versions) /\ scan.page \in Nat
          BY DEF ScanTypes, Place
        <5>2. k \in Nat /\ (scan.page - 1) * PageSize \in Int
          BY <5>1, Sizes
        <5> QED
          BY <4>2, <5>2
      <4> QED
        BY <2>3, <3>2, <4>3, <4>4
    <3> QED
      BY <3>1, <3>2
  <2>7. StillToCome'
    BY <2>2, <2>6 DEF StillToCome, Underway
  <2> QED
    BY <2>5, <2>7 DEF Misses
<1>12. CASE UNCHANGED registryVars
  BY <1>12 DEF Misses, StillToCome, NoTagMissed, Underway, registryVars
<1> QED
  BY <1>5, <1>6, <1>7, <1>9, <1>10, <1>11, <1>12, ScanStepIs

\* A version that moves to the next page while its repository is listed is read
\* twice, not missed: of a repository that was listed to its end, every image
\* tag that stayed where it was is listed, or sorts below as many as the cap
\* keeps, as long as nothing was deleted.
THEOREM NothingIsMissed == Spec => []NoTagMissed
<1>1. Init => Misses
  <2> SUFFICES ASSUME Init PROVE Misses
    OBVIOUS
  <2>1. /\ scan.step = "list" /\ \A r \in Repos : entries[r].status = "none"
    BY DEF Init, InventoryInit
  <2> QED
    BY <2>1 DEF Misses, StillToCome, NoTagMissed, Underway
<1>2. ScanInv /\ Misses /\ [Next]_vars => Misses'
  BY MissesStep, StepIs DEF ScanInv
<1> QED
  BY <1>1, <1>2, ScanInvHolds, PTL DEF Spec, Misses
-----------------------------------------------------------------------------
(* What images are said to contain.                                        *)

\* What was found of a content is attached to it, whichever image of that
\* content it was fetched for: the key of an answer is the content that was
\* observed, and that is what was asked for.
CacheInv ==
    \A d : <<"digest", d>> \in DOMAIN cache =>
        \E k \in DOMAIN AttachedTo[d] : cache[<<"digest", d>>] = AttachedTo[d][k]

\* An answer of the package source, found or not, keeps the cache and the
\* packages those of their content.
LEMMA AnswerKeeps ==
    ASSUME CacheInv, PackagesAreItsContents, NEW w, NEW found,
           Answers(w, Key(working[w]), found),
           found # {} =>
               \E k \in DOMAIN AttachedTo[Fetched(working[w])] :
                   found = AttachedTo[Fetched(working[w])][k]
    PROVE  CacheInv' /\ PackagesAreItsContents'
<1>1. observed' = observed /\ packages' = packages
  BY DEF Answers
<1>2. PackagesAreItsContents'
  BY <1>1 DEF PackagesAreItsContents
<1>3. CASE found = {}
  BY <1>2, <1>3 DEF Answers, CacheInv
<1>4. CASE found # {}
  <2> DEFINE key == Key(working[w])
  <2>1. cache' = [k \in DOMAIN cache \cup {key} |-> IF k = key THEN found ELSE cache[k]]
    BY <1>4 DEF Answers
  <2>2. /\ DOMAIN cache' = {key} \cup DOMAIN cache
        /\ \A x \in DOMAIN cache' : cache'[x] = IF x = key THEN found ELSE cache[x]
    BY <2>1
  <2>3. ASSUME NEW d, <<"digest", d>> \in DOMAIN cache'
        PROVE  \E k \in DOMAIN AttachedTo[d] : cache'[<<"digest", d>>] = AttachedTo[d][k]
    <3>1. CASE <<"digest", d>> = key
      <4>1. observed[working[w]] # None /\ d = observed[working[w]]
        BY <3>1 DEF Key
      <4>2. Fetched(working[w]) = d
        BY <4>1 DEF Fetched
      <4> QED
        BY <1>4, <2>2, <2>3, <3>1, <4>2
    <3>2. CASE <<"digest", d>> # key
      BY <2>2, <2>3, <3>2 DEF CacheInv
    <3> QED
      BY <3>1, <3>2
  <2> QED
    BY <1>2, <2>3 DEF CacheInv
<1> QED
  BY <1>3, <1>4

\* Folding the fetched packages in gives each image those of its own content.
LEMMA FoldInKeeps ==
    ASSUME CacheInv, PackagesAreItsContents, packages = [n \in Imgs |-> packages[n]],
           FoldIn
    PROVE  PackagesAreItsContents'
<1>1. /\ observed' = observed
      /\ packages' = [n \in Imgs |-> IF n \in Wanting THEN Applied(n) ELSE packages[n]]
  BY DEF FoldIn
<1>2. ASSUME NEW n \in Imgs, observed[n] # None
      PROVE  packages'[n] \subseteq RecordedIn[observed[n]] \cup
                UNION {AttachedTo[observed[n]][k] : k \in DOMAIN AttachedTo[observed[n]]}
  <2>1. CASE n \in Wanting
    <3>1. packages'[n] = Applied(n)
      BY <1>1, <1>2, <2>1
    <3>2. Key(n) = <<"digest", observed[n]>>
      BY <1>2 DEF Key
    <3>3. CASE Key(n) \in DOMAIN cache
      <4>1. PICK k \in DOMAIN AttachedTo[observed[n]] :
                cache[Key(n)] = AttachedTo[observed[n]][k]
        BY <3>2, <3>3 DEF CacheInv
      <4>2. Applied(n) \subseteq AttachedTo[observed[n]][k]
        BY <3>3, <4>1 DEF Applied, ReadBack
      <4> QED
        BY <3>1, <4>2
    <3>4. CASE Key(n) \notin DOMAIN cache
      BY <3>1, <3>4 DEF Applied
    <3> QED
      BY <3>3, <3>4
  <2>2. CASE n \notin Wanting
    BY <1>1, <1>2, <2>2 DEF PackagesAreItsContents
  <2> QED
    BY <2>1, <2>2
<1> QED
  BY <1>1, <1>2 DEF PackagesAreItsContents

\* The images are those of the inventory from the time they are observed.
PackagesInv ==
    /\ CacheInv /\ PackagesAreItsContents
    /\ fetch.step # "observe" =>
          /\ scan.step = "imported"
          /\ packages = [n \in Imgs |-> packages[n]]

\* Every step keeps the packages those of the content they are recorded under.
LEMMA PackagesStep == PackagesInv /\ [Next]_vars => PackagesInv'
<1> SUFFICES ASSUME PackagesInv, [Next]_vars
             PROVE  PackagesInv'
  OBVIOUS
<1> USE DEF PackagesInv
<1>1. ASSUME UNCHANGED <<observed, packages, cache>>
      PROVE  CacheInv' /\ PackagesAreItsContents'
  BY <1>1 DEF CacheInv, PackagesAreItsContents
<1>2. CASE (ScanNext \/ Release) /\ UNCHANGED contentVars
  <2>1. UNCHANGED <<observed, packages, cache, fetch>>
    BY <1>2 DEF contentVars
  <2>2. scan.step = "imported" => UNCHANGED <<scan, inventory>>
    BY <1>2 DEF ScanNext, Release, ListRepositories, ListFails, ReadPage,
           PageFails, Import, Push, Delete, Change, scanning
  <2> QED
    BY <1>1, <2>1, <2>2 DEF Imgs
<1>3. CASE Observe
  <2>1. /\ \A n \in Imgs : packages'[n] =
               IF observed'[n] = None THEN {} ELSE RecordedIn[observed'[n]]
        /\ packages' = [n \in Imgs |-> packages'[n]]
        /\ scan.step = "imported" /\ UNCHANGED <<scan, inventory, cache>>
    BY <1>3 DEF Observe, scanning
  <2>2. PackagesAreItsContents'
    BY <2>1 DEF PackagesAreItsContents
  <2>3. CacheInv'
    BY <2>1 DEF CacheInv
  <2> QED
    BY <2>1, <2>2, <2>3 DEF Imgs
<1>4. CASE FoldIn
  <2>1. fetch.step = "fetch"
    BY <1>4 DEF FoldIn
  <2>2. PackagesAreItsContents'
    BY <1>4, <2>1, FoldInKeeps
  <2>3. UNCHANGED <<scan, inventory, cache>>
    BY <1>4 DEF FoldIn, inventoryVars, scanning
  <2>4. CacheInv' /\ packages' = [n \in Imgs |-> packages'[n]]
    BY <1>4, <2>3 DEF FoldIn, CacheInv
  <2> QED
    BY <2>1, <2>2, <2>3, <2>4 DEF Imgs
<1>5. ASSUME NEW w \in Workers, Fetch(w) \/ FetchFails(w)
      PROVE  PackagesInv'
  <2>1. PICK found : /\ Answers(w, Key(working[w]), found)
                     /\ found # {} =>
                           \E k \in DOMAIN AttachedTo[Fetched(working[w])] :
                              found = AttachedTo[Fetched(working[w])][k]
    BY <1>5 DEF Fetch, FetchFails
  <2>2. CacheInv' /\ PackagesAreItsContents'
    BY <2>1, AnswerKeeps
  <2>3. UNCHANGED <<scan, inventory, packages, fetch>>
    BY <2>1 DEF Answers, scanning
  <2> QED
    BY <2>2, <2>3 DEF Imgs
<1>6. CASE Queue \/ FetchNothing
  <2>1. fetch.step = "plan" /\ UNCHANGED <<scan, inventory, observed, packages, cache>>
    BY <1>6 DEF Queue, FetchNothing, inventoryVars, scanning
  <2> QED
    BY <1>1, <2>1 DEF Imgs
<1>7. CASE \E w \in Workers : Take(w)
  <2>1. fetch.step = "fetch" /\ UNCHANGED <<scan, inventory, observed, packages, cache>>
    BY <1>7 DEF Take, inventoryVars, scanning
  <2> QED
    BY <1>1, <2>1 DEF Imgs
<1>8. CASE UNCHANGED <<inventoryVars, observed, packages, fetch, cache>>
  BY <1>1, <1>8 DEF Imgs, inventoryVars, scanning
<1>9. CASE \E view \in {"layers", "packages"}, budget \in Budgets : Build(view, budget)
  BY <1>8, <1>9 DEF Build
<1>10. CASE CompareItem \/ Report \/ UNCHANGED vars
  BY <1>8, <1>10 DEF CompareItem, Report, vars, contentVars
<1> QED
  BY <1>2, <1>3, <1>4, <1>5, <1>6, <1>7, <1>9, <1>10 DEF Next

\* Whatever is released while the images are observed and their SBOMs fetched,
\* and whichever of the images that share a content is asked for, an image is
\* only said to contain what its own content records or has attached.
THEOREM PackagesComeFromContents == Spec => []PackagesAreItsContents
<1>1. Init => PackagesInv
  BY DEF Init, InventoryInit, PackagesInv, CacheInv, PackagesAreItsContents
<1> QED
  BY <1>1, PackagesStep, PTL DEF Spec, PackagesInv

-----------------------------------------------------------------------------
(* What the images are read as.                                            *)

ItemSet(S) == S \in SUBSET Nat /\ IsFiniteSet(S)

\* The images are numbered from 1, finite in number, and no two have the same
\* repository and tag.
LEMMA ImagesAre ==
  ASSUME ScanInv
  PROVE  /\ \E n \in Nat : Imgs = 1..n
         /\ IsFiniteSet(Imgs) /\ Imgs \subseteq Nat /\ 0 \notin Imgs
         /\ \A k \in Imgs : inventory[k].repo \in Repos /\ inventory[k].tag \in Tags
         /\ \A j, k \in Imgs :
               inventory[j].repo = inventory[k].repo /\ inventory[j].tag = inventory[k].tag
                  => j = k
<1> USE DEF ScanInv
<1>1. CASE inventory = <<>>
  <2>1. Imgs = 1..0
    BY <1>1 DEF Imgs
  <2> QED
    BY <2>1, UpTo
<1>2. CASE inventory # <<>>
  <2> DEFINE n == Cardinality(Listing)
  <2>1. entries \in [Repos -> Recorded] /\ inventory \in Imported(Refs)
    BY <1>2 DEF ScanTypes, InventoryIs
  <2>2. PICK p \in [1..n -> 1..n] :
           /\ DOMAIN inventory = 1..n
           /\ \A j, k \in 1..n : p[j] = p[k] => j = k
           /\ \A k \in 1..n :
                 /\ inventory[k] = [repo |-> Refs[p[k]].repo, tag |-> Refs[p[k]].tag,
                                    id |-> ID(Refs, p[k])]
                 /\ p[k] \in 1..n /\ Refs[p[k]] \in Listing
    BY <2>1, ImportedIs
  <2>3. /\ n \in Nat /\ Listing \subseteq [repo : Repos, tag : Tags]
        /\ \A j, k \in 1..n : j < k => Refs[j] # Refs[k]
    BY <2>1, RefsAre
  <2> HIDE DEF n
  <2>4. IsFiniteSet(1..n) /\ 1..n \subseteq Nat /\ 0 \notin 1..n
    BY <2>3, UpTo
  <2>5. \A k \in 1..n : inventory[k].repo = Refs[p[k]].repo /\ inventory[k].tag = Refs[p[k]].tag
    BY <2>2
  <2>6. \A k \in 1..n : Refs[p[k]] \in [repo : Repos, tag : Tags]
    BY <2>2, <2>3
  <2>7. \A k \in 1..n : inventory[k].repo \in Repos /\ inventory[k].tag \in Tags
    BY <2>5, <2>6
  <2>8. ASSUME NEW j \in 1..n, NEW k \in 1..n, inventory[j].repo = inventory[k].repo,
               inventory[j].tag = inventory[k].tag
        PROVE  j = k
    <3>1. Refs[p[j]] = Refs[p[k]]
      <4> DEFINE x == Refs[p[j]]
                 y == Refs[p[k]]
      <4>1. x \in [repo : Repos, tag : Tags] /\ y \in [repo : Repos, tag : Tags]
            /\ x.repo = y.repo /\ x.tag = y.tag
        BY <2>5, <2>6, <2>8
      <4> HIDE DEF x, y
      <4>2. x = y
        BY <4>1
      <4> QED
        BY <4>2 DEF x, y
    <3>2. p[j] \in 1..n /\ p[k] \in 1..n
      BY <2>2
    <3>3. ~(p[j] < p[k]) /\ ~(p[k] < p[j])
      BY <2>3, <3>1, <3>2
    <3>4. p[j] = p[k]
      BY <2>3, <3>2, <3>3
    <3> QED
      BY <2>2, <3>4
  <2> QED
    BY <2>2, <2>3, <2>4, <2>7, <2>8 DEF Imgs
<1> QED
  BY <1>1, <1>2

\* A tag is of a content, or of nothing.
LEMMA CurrentIs ==
  ASSUME ScanInv, NEW r \in Repos, NEW t
  PROVE  Current(r, t) \in Contents \cup {None}
<1> DEFINE named == {k \in DOMAIN published[r] : t \in published[r][k].tags}
<1>1. published[r] \in Seq(Versions)
  BY DEF ScanInv, ScanTypes
<1>2. CASE named # {}
  <2>1. named \in SUBSET Nat
    BY <1>1
  <2>2. PICK x \in named : \A y \in named : x <= y
    BY <1>2, <2>1, LeastExists
  <2>3. Min(named) \in named
    BY <2>2 DEF Min
  <2> DEFINE first == Min(named)
  <2>4. Current(r, t) = published[r][first].content
    BY <1>2 DEF Current
  <2>5. first \in DOMAIN published[r]
    BY <2>3
  <2> HIDE DEF first
  <2>6. published[r][first] \in Versions
    BY <1>1, <2>5
  <2>7. published[r][first].content \in Contents
    BY <2>6 DEF Versions
  <2> QED
    BY <2>4, <2>7
<1>3. CASE named = {}
  BY <1>3 DEF Current
<1> QED
  BY <1>2, <1>3

ContentInv ==
    /\ fetch \in [step : {"observe", "plan", "fetch", "fetched"}, queue : Seq(Imgs),
                  planned : Nat]
    /\ fetch.step # "observe" => scan.step = "imported"
    /\ fetch.step # "fetch" => fetch.queue = <<>> /\ \A w \in Workers : working[w] = 0
    /\ working \in [Workers -> Imgs \cup {0}]
    /\ fetch.step # "observe" =>
          /\ observed \in [Imgs -> Contents \cup {None}]
          /\ packages = [n \in Imgs |-> packages[n]]
          /\ \A n \in Imgs : ItemSet(packages[n])
    /\ \A k \in DOMAIN cache : ItemSet(cache[k])

\* What was fetched for an image is a content, or nothing.
LEMMA FetchedIs ==
  ASSUME ScanInv, ContentInv, fetch.step # "observe", NEW n \in Imgs
  PROVE  Fetched(n) \in Contents \cup {None}
<1>1. inventory[n].repo \in Repos
  BY ImagesAre
<1>2. Current(inventory[n].repo, inventory[n].tag) \in Contents \cup {None}
  BY <1>1, CurrentIs
<1>3. observed[n] \in Contents \cup {None}
  BY DEF ContentInv
<1> QED
  BY <1>2, <1>3 DEF Fetched

\* What a request can be answered with.
LEMMA AnswersAre ==
  ASSUME ScanInv, ContentInv, NEW w \in Workers, Fetch(w) \/ FetchFails(w)
  PROVE  /\ working[w] \in Imgs /\ fetch.step = "fetch"
         /\ faults' = faults \/ faults' = faults + 1
         /\ \E found :
               /\ Answers(w, Key(working[w]), found) /\ ItemSet(found)
               /\ LET attached == AttachedTo[Fetched(working[w])]
                  IN  \/ Fetched(working[w]) = None
                      \/ faults' = faults /\ attached = <<>>
                      \/ faults' = faults /\ attached # <<>> /\ found = attached[1]
                      \/ faults' = faults + 1
<1> DEFINE n == working[w]
           attached == AttachedTo[Fetched(n)]
<1>1. n # 0
  BY DEF Fetch, FetchFails
<1>2. n \in Imgs /\ fetch.step = "fetch" /\ fetch.step # "observe"
  BY <1>1 DEF ContentInv
<1>3. Fetched(n) \in Contents \cup {None}
  BY <1>2, FetchedIs
<1>4. ItemSet({})
  BY FS_EmptySet DEF ItemSet
<1>5. CASE FetchFails(w)
  BY <1>2, <1>4, <1>5 DEF FetchFails, Fault
<1>6. CASE Fetch(w)
  <2>1. Fetched(n) \in Contents
    BY <1>3, <1>6 DEF Fetch
  <2>2. /\ attached \in Seq(SUBSET Nat)
        /\ \A k \in DOMAIN attached : ItemSet(attached[k])
    BY <2>1, ItemsType DEF ItemSet
  <2>3. CASE attached = <<>> /\ UNCHANGED faults /\ Answers(w, Key(n), {})
    BY <1>2, <1>4, <2>3
  <2>4. ASSUME NEW k \in DOMAIN attached, IF k = 1 THEN UNCHANGED faults ELSE Fault,
               Answers(w, Key(n), attached[k])
        PROVE  /\ faults' = faults \/ faults' = faults + 1
               /\ \E found : /\ Answers(w, Key(n), found) /\ ItemSet(found)
                             /\ \/ faults' = faults /\ attached # <<>> /\ found = attached[1]
                                \/ faults' = faults + 1
    <3>1. attached # <<>> /\ ItemSet(attached[k])
      BY <2>2
    <3>2. CASE k = 1
      BY <2>4, <3>1, <3>2
    <3>3. CASE k # 1
      BY <2>4, <3>1, <3>3 DEF Fault
    <3> QED
      BY <3>2, <3>3
  <2> QED
    BY <1>2, <1>6, <2>3, <2>4 DEF Fetch
<1> QED
  BY <1>5, <1>6

\* The first images of their keys, in their order.
LEMMA QueueIs ==
  ASSUME ScanInv
  PROVE  LET firsts == {n \in Wanting : FirstOfKey(n)}
             queue == InOrder(firsts, Earlier)
         IN  /\ queue \in Seq(Imgs) /\ Wanting \subseteq Imgs /\ IsFiniteSet(Wanting)
             /\ \A k \in DOMAIN queue : queue[k] \in firsts
             /\ \A n \in firsts : \E k \in DOMAIN queue : queue[k] = n
             /\ \A j, k \in DOMAIN queue : queue[j] = queue[k] => j = k
<1> DEFINE firsts == {n \in Wanting : FirstOfKey(n)}
           queue == InOrder(firsts, Earlier)
           c == Cardinality(firsts)
<1>1. IsFiniteSet(Imgs) /\ Imgs \subseteq Nat
  BY ImagesAre
<1>2. Wanting \in SUBSET Imgs /\ firsts \in SUBSET Wanting
  BY DEF Wanting
<1>3. IsFiniteSet(Wanting) /\ IsFiniteSet(firsts)
  BY <1>1, <1>2, FS_Subset
<1>4. \A x, y \in firsts : <<x, y>> \in Earlier <=> x < y
  BY <1>2 DEF Earlier
<1>5. \A x \in firsts : x \in Nat
  BY <1>1, <1>2
<1> HIDE DEF firsts
<1>6. StrictOrder(firsts, Earlier)
  <2>1. \A x \in firsts : <<x, x>> \notin Earlier
    BY <1>4, <1>5
  <2>2. \A x, y \in firsts : x # y => <<x, y>> \in Earlier \/ <<y, x>> \in Earlier
    BY <1>4, <1>5
  <2>3. \A x, y, z \in firsts :
           <<x, y>> \in Earlier /\ <<y, z>> \in Earlier => <<x, z>> \in Earlier
    BY <1>4, <1>5
  <2> QED
    BY <2>1, <2>2, <2>3 DEF StrictOrder
<1>7. /\ c \in Nat /\ queue \in [1..c -> firsts]
      /\ \A x \in firsts : \E k \in 1..c : queue[k] = x
      /\ \A j, k \in 1..c : j < k => queue[j] # queue[k] /\ <<queue[j], queue[k]>> \in Earlier
  <2> HIDE DEF queue, c
  <2> QED
    BY <1>3, <1>6, InOrderIs DEF queue, c
<1> HIDE DEF queue, c
<1>8. queue \in Seq(Imgs) /\ DOMAIN queue = 1..c
  <2>1. queue \in [1..c -> Imgs]
    BY <1>2, <1>7
  <2> QED
    BY <1>7, <2>1
<1>9. \A j, k \in 1..c : queue[j] = queue[k] => j = k
  <2> SUFFICES ASSUME NEW j \in 1..c, NEW k \in 1..c, queue[j] = queue[k], j # k PROVE FALSE
    OBVIOUS
  <2>1. j < k \/ k < j
    BY <1>7
  <2> QED
    BY <1>7, <2>1
<1> QED
  BY <1>2, <1>3, <1>7, <1>8, <1>9 DEF firsts, queue

\* The requests that are announced are as many as keys are wanted.
LEMMA PlannedIs ==
  ASSUME ScanInv
  PROVE  IsFiniteSet({Key(n) : n \in Wanting}) /\ PlannedFetches \in Nat
<1> DEFINE keys == {Key(n) : n \in Wanting}
           f == [n \in Wanting |-> Key(n)]
<1>1. IsFiniteSet(Wanting)
  BY QueueIs
<1>2. f \in Surjection(Wanting, keys)
  BY DEF Surjection
<1>3. IsFiniteSet(keys)
  BY <1>1, <1>2, FS_Surjection
<1> QED
  BY <1>3, FS_CardinalityType DEF PlannedFetches

\* After the import no step changes the images.
LEMMA ImagesStay ==
  ASSUME ScanInv, [Next]_vars, scan.step = "imported"
  PROVE  UNCHANGED <<scan, inventory>>
<1>1. CASE Release
  BY <1>1, ReleaseIs DEF ScanInv, ScanTypes, ReleaseOf
<1>2. ~ScanNext
  BY DEF ScanNext, ListRepositories, ListFails, ReadPage, PageFails, Import
<1> QED
  BY <1>1, <1>2, StepIs DEF registryVars

\* Every step keeps the invariant of what was observed and fetched.
LEMMA ContentStep ==
  ASSUME ScanInv, ContentInv, [Next]_vars
  PROVE  ContentInv'
<1>0. /\ fetch \in [step : {"observe", "plan", "fetch", "fetched"}, queue : Seq(Imgs),
                    planned : Nat]
      /\ working \in [Workers -> Imgs \cup {0}]
  BY DEF ContentInv
<1>i. scan.step = "imported" => UNCHANGED <<scan, inventory, Imgs>>
  BY ImagesStay DEF Imgs
<1>1. ASSUME UNCHANGED <<fetch, working, observed, packages, cache>> PROVE ContentInv'
  <2>1. CASE fetch.step = "observe"
    <3>1. fetch.queue = <<>> /\ \A w \in Workers : working[w] = 0
      BY <2>1 DEF ContentInv
    <3>2. fetch.queue \in Seq(Imgs')
      BY <3>1
    <3>3. fetch' \in [step : {"observe", "plan", "fetch", "fetched"}, queue : Seq(Imgs'),
                     planned : Nat]
      BY <1>0, <1>1, <3>2
    <3>4. working' \in [Workers -> Imgs' \cup {0}]
      BY <1>0, <1>1, <3>1
    <3> QED
      BY <1>1, <2>1, <3>1, <3>3, <3>4 DEF ContentInv
  <2>2. CASE fetch.step # "observe"
    <3>1. Imgs' = Imgs /\ scan' = scan
      BY <1>i, <2>2 DEF ContentInv
    <3> QED
      BY <1>1, <2>2, <3>1 DEF ContentInv
  <2> QED
    BY <2>1, <2>2
<1>2. CASE (ScanNext \/ Release) /\ UNCHANGED contentVars
  BY <1>1, <1>2 DEF contentVars
<1>3. CASE Observe
  <2>1. PICK failing \in SUBSET Imgs :
           observed' = [n \in Imgs |-> IF n \in failing THEN None
                                       ELSE Current(inventory[n].repo, inventory[n].tag)]
    BY <1>3 DEF Observe
  <2>2. /\ packages' = [n \in Imgs |->
              IF observed'[n] = None THEN {} ELSE RecordedIn[observed'[n]]]
        /\ fetch' = [fetch EXCEPT !.step = "plan"] /\ UNCHANGED <<working, cache>>
        /\ scan.step = "imported" /\ fetch.step = "observe"
    BY <1>3 DEF Observe
  <2>3. Imgs' = Imgs /\ scan' = scan
    BY <1>i, <2>2
  <2>4. \A n \in Imgs : Current(inventory[n].repo, inventory[n].tag) \in Contents \cup {None}
    BY ImagesAre, CurrentIs
  <2>5. observed' \in [Imgs -> Contents \cup {None}]
    <3>1. \A n \in Imgs : observed'[n] \in Contents \cup {None}
      BY <2>1, <2>4
    <3>2. observed' = [n \in Imgs |-> observed'[n]]
      BY <2>1
    <3> QED
      BY <3>1, <3>2
  <2>6. \A n \in Imgs : ItemSet(packages'[n])
    BY <2>2, <2>5, ItemsType, FS_EmptySet DEF ItemSet
  <2>7. /\ fetch' \in [step : {"observe", "plan", "fetch", "fetched"}, queue : Seq(Imgs),
                       planned : Nat]
        /\ fetch'.queue = fetch.queue
    BY <1>0, <2>2
  <2>8. packages' = [n \in Imgs |-> packages'[n]]
    BY <2>2
  <2> QED
    BY <2>2, <2>3, <2>5, <2>6, <2>7, <2>8 DEF ContentInv
\* Steps that only move the queue, and where the workers are.
<1>4. ASSUME fetch.step # "observe", UNCHANGED <<observed, packages, cache>>,
             fetch' \in [step : {"plan", "fetch", "fetched"}, queue : Seq(Imgs),
                         planned : Nat],
             working' \in [Workers -> Imgs \cup {0}],
             fetch'.step # "fetch" =>
                fetch'.queue = <<>> /\ \A w \in Workers : working'[w] = 0
      PROVE  ContentInv'
  <2>1. Imgs' = Imgs /\ scan' = scan /\ scan.step = "imported"
    BY <1>i, <1>4 DEF ContentInv
  <2> QED
    BY <1>4, <2>1 DEF ContentInv
<1>5. CASE Queue
  <2>1. /\ fetch.step = "plan" /\ UNCHANGED <<observed, packages, cache, working>>
        /\ fetch' = [step |-> IF Wanting = {} THEN "fetched" ELSE "fetch",
                     queue |-> InOrder({n \in Wanting : FirstOfKey(n)}, Earlier),
                     planned |-> PlannedFetches]
    BY <1>5 DEF Queue
  <2>2. InOrder({n \in Wanting : FirstOfKey(n)}, Earlier) \in Seq(Imgs)
    BY QueueIs
  <2>3. Wanting = {} => InOrder({n \in Wanting : FirstOfKey(n)}, Earlier) = <<>>
    <3> DEFINE queue == InOrder({n \in Wanting : FirstOfKey(n)}, Earlier)
    <3>1. \A k \in DOMAIN queue : queue[k] \in Wanting
      BY QueueIs
    <3> HIDE DEF queue
    <3>2. queue \in Seq(Imgs)
      BY <2>2 DEF queue
    <3>3. Wanting = {} => queue = <<>>
      BY <3>1, <3>2
    <3> QED
      BY <3>3 DEF queue
  <2> DEFINE queue == InOrder({n \in Wanting : FirstOfKey(n)}, Earlier)
  <2> HIDE DEF queue
  <2>4. fetch' = [step |-> IF Wanting = {} THEN "fetched" ELSE "fetch",
                  queue |-> queue, planned |-> PlannedFetches]
    BY <2>1 DEF queue
  <2>5. queue \in Seq(Imgs) /\ (Wanting = {} => queue = <<>>)
    BY <2>2, <2>3 DEF queue
  <2>6. PlannedFetches \in Nat
    BY PlannedIs
  <2>7. \A w \in Workers : working[w] = 0
    BY <2>1 DEF ContentInv
  <2> QED
    BY <1>0, <1>4, <2>1, <2>4, <2>5, <2>6, <2>7
<1>6. CASE FetchNothing
  <2>1. /\ fetch.step = "plan" /\ UNCHANGED <<observed, packages, cache, working>>
        /\ fetch' = [fetch EXCEPT !.step = "fetched"]
    BY <1>6 DEF FetchNothing
  <2>2. fetch.queue = <<>> /\ \A w \in Workers : working[w] = 0
    BY <2>1 DEF ContentInv
  <2> QED
    BY <1>0, <1>4, <2>1, <2>2
<1>7. ASSUME NEW w \in Workers, Take(w) PROVE ContentInv'
  <2>1. /\ fetch.step = "fetch" /\ fetch.queue # <<>>
        /\ working' = [working EXCEPT ![w] = Head(fetch.queue)]
        /\ fetch' = [fetch EXCEPT !.queue = Tail(@)]
        /\ UNCHANGED <<observed, packages, cache>>
    BY <1>7 DEF Take
  <2>2. fetch.queue \in Seq(Imgs)
    BY <1>0
  <2>3. Head(fetch.queue) \in Imgs /\ Tail(fetch.queue) \in Seq(Imgs)
    BY <2>1, <2>2
  <2>4. working' \in [Workers -> Imgs \cup {0}]
    BY <1>0, <2>1, <2>3
  <2>5. fetch' \in [step : {"plan", "fetch", "fetched"}, queue : Seq(Imgs), planned : Nat]
        /\ fetch'.step = "fetch"
    BY <1>0, <2>1, <2>3
  <2> QED
    BY <1>4, <2>1, <2>4, <2>5
<1>8. ASSUME NEW w \in Workers, Fetch(w) \/ FetchFails(w) PROVE ContentInv'
  <2>1. PICK found : Answers(w, Key(working[w]), found) /\ ItemSet(found)
    BY <1>8, AnswersAre
  <2>2. fetch.step = "fetch"
    BY <1>8, AnswersAre
  <2>3. /\ working' = [working EXCEPT ![w] = 0] /\ UNCHANGED <<observed, packages, fetch>>
        /\ \/ cache' = cache
           \/ cache' = [k \in DOMAIN cache \cup {Key(working[w])} |->
                           IF k = Key(working[w]) THEN found ELSE cache[k]]
    BY <2>1 DEF Answers
  <2>4. \A k \in DOMAIN cache' : ItemSet(cache'[k])
    BY <2>1, <2>3 DEF ContentInv
  <2>5. working' \in [Workers -> Imgs \cup {0}]
    BY <1>0, <2>3
  <2>6. Imgs' = Imgs /\ scan' = scan /\ scan.step = "imported"
    BY <1>i, <2>2 DEF ContentInv
  <2> QED
    BY <2>2, <2>3, <2>4, <2>5, <2>6 DEF ContentInv
<1>9. CASE FoldIn
  <2>1. /\ fetch.step = "fetch" /\ fetch.queue = <<>> /\ \A w \in Workers : working[w] = 0
        /\ packages' = [n \in Imgs |-> IF n \in Wanting THEN Applied(n) ELSE packages[n]]
        /\ fetch' = [fetch EXCEPT !.step = "fetched"]
        /\ UNCHANGED <<observed, working, cache>>
    BY <1>9 DEF FoldIn
  <2>2. Imgs' = Imgs /\ scan' = scan /\ scan.step = "imported"
    BY <1>i, <2>1 DEF ContentInv
  <2>3. ASSUME NEW n PROVE ItemSet(Applied(n))
    <3>1. CASE Key(n) \in DOMAIN cache
      <4> DEFINE found == cache[Key(n)]
      <4>1. ItemSet(found)
        BY <3>1 DEF ContentInv
      <4> HIDE DEF found
      <4>2. ItemSet(ReadBack(found))
        <5>1. ReadBack(found) \in SUBSET found
          BY DEF ReadBack
        <5> QED
          BY <4>1, <5>1, FS_Subset DEF ItemSet
      <4> QED
        BY <3>1, <4>2 DEF Applied, found
    <3>2. CASE Key(n) \notin DOMAIN cache
      BY <3>2, FS_EmptySet DEF Applied, ItemSet
    <3> QED
      BY <3>1, <3>2
  <2>4. \A n \in Imgs : ItemSet(packages'[n])
    BY <2>1, <2>3 DEF ContentInv
  <2>5. packages' = [n \in Imgs |-> packages'[n]]
    BY <2>1
  <2>6. fetch' \in [step : {"observe", "plan", "fetch", "fetched"}, queue : Seq(Imgs),
                    planned : Nat]
        /\ fetch'.queue = <<>> /\ fetch'.step = "fetched"
    BY <1>0, <2>1
  <2> QED
    BY <2>1, <2>2, <2>4, <2>5, <2>6 DEF ContentInv
<1>10. ASSUME NEW view, NEW budget, Build(view, budget) PROVE ContentInv'
  BY <1>1, <1>10 DEF Build
<1>11. CASE CompareItem \/ Report \/ UNCHANGED vars
  BY <1>1, <1>11 DEF CompareItem, Report, vars, contentVars
<1> QED
  BY <1>2, <1>3, <1>5, <1>6, <1>7, <1>8, <1>9, <1>10, <1>11 DEF Next

\* The invariant of what was observed holds at the start.
LEMMA ContentInit == Init => ContentInv
<1> SUFFICES ASSUME Init PROVE ContentInv
  OBVIOUS
<1>1. /\ inventory = <<>> /\ fetch = [step |-> "observe", queue |-> <<>>, planned |-> 0]
      /\ working = [w \in Workers |-> 0] /\ cache = <<>>
  BY DEF Init, InventoryInit
<1>2. fetch \in [step : {"observe", "plan", "fetch", "fetched"}, queue : Seq(Imgs), planned : Nat]
  BY <1>1
<1>3. working \in [Workers -> Imgs \cup {0}] /\ DOMAIN cache = {}
  BY <1>1
<1> QED
  BY <1>1, <1>2, <1>3 DEF ContentInv

\* The invariant of what was observed holds in every behaviour.
LEMMA ContentHolds == Spec => []ContentInv
<1>1. ScanInv /\ ContentInv /\ [Next]_vars => ContentInv'
  BY ContentStep
<1> QED
  BY <1>1, ContentInit, ScanInvHolds, PTL DEF Spec

\* What the images were read as, until SBOMs are folded in.
AsRecorded ==
    \A n \in Imgs : packages[n] =
        IF observed[n] = None THEN {} ELSE RecordedIn[observed[n]]

\* The keys that wait in the queue and those that were asked for are those that
\* are wanted, each in one place; and what was asked for is being fetched, or
\* was answered with the attachment that is looked at first.
Waiting == {Key(fetch.queue[k]) : k \in DOMAIN fetch.queue}
KeysDiffer ==
    \A j, k \in DOMAIN fetch.queue : Key(fetch.queue[j]) = Key(fetch.queue[k]) => j = k
Answered(d) ==
    \/ \E w \in Workers : working[w] # 0 /\ Key(working[w]) = <<"digest", d>>
    \/ AttachedTo[d][1] = {}
    \/ <<"digest", d>> \in DOMAIN cache /\ cache[<<"digest", d>>] = AttachedTo[d][1]
Asking ==
    /\ KeysDiffer /\ Waiting \cap DOMAIN fetches = {}
    /\ Waiting \cup DOMAIN fetches = {Key(n) : n \in Wanting}
    /\ fetch.planned = PlannedFetches
    /\ faults = 0 => \A d : <<"digest", d>> \in DOMAIN fetches /\ AttachedTo[d] # <<>>
                               => Answered(d)
FetchInv ==
    /\ faults \in Nat
    /\ \A k \in DOMAIN fetches : fetches[k] = 1
    /\ fetch.step \in {"observe", "plan"} => fetches = <<>> /\ fetch.planned = 0
    /\ fetch.step \in {"plan", "fetch"} => AsRecorded
    /\ fetch.step = "fetch" => Asking
    /\ FetchedOnce

\* A step makes one fault or none.
LEMMA FaultsStep == [Next]_vars => faults' = faults \/ faults' = faults + 1
<1> SUFFICES ASSUME [Next]_vars PROVE faults' = faults \/ faults' = faults + 1
  OBVIOUS
<1>1. CASE ScanNext
  BY <1>1 DEF ScanNext, ListRepositories, ListFails, ReadPage, PageFails, Import, Fault
<1>2. CASE Release
  BY <1>2 DEF Release, Push, Delete, Change
<1>3. CASE Observe
  BY <1>3 DEF Observe, Fault
<1>4. CASE Queue \/ FetchNothing \/ FoldIn
  BY <1>4 DEF Queue, FetchNothing, FoldIn, inventoryVars
<1>5. ASSUME NEW w \in Workers, Take(w) \/ Fetch(w) \/ FetchFails(w)
      PROVE  faults' = faults \/ faults' = faults + 1
  BY <1>5 DEF Take, Fetch, FetchFails, Fault, inventoryVars
<1>6. ASSUME NEW view, NEW budget, Build(view, budget) PROVE faults' = faults
  BY <1>6 DEF Build, inventoryVars
<1>7. CASE CompareItem \/ Report \/ UNCHANGED vars
  BY <1>7 DEF CompareItem, Report, vars, inventoryVars
<1> QED
  BY <1>1, <1>2, <1>3, <1>4, <1>5, <1>6, <1>7 DEF Next

\* Nothing has been asked for at the start.
LEMMA FetchInvInit == Init => FetchInv
<1> SUFFICES ASSUME Init PROVE FetchInv
  OBVIOUS
<1>1. /\ fetch = [step |-> "observe", queue |-> <<>>, planned |-> 0]
      /\ fetches = <<>> /\ faults = 0 /\ DOMAIN fetches = {}
  BY DEF Init, InventoryInit
<1>2. fetch.step = "observe" /\ fetch.planned = 0
  BY <1>1
<1> QED
  BY <1>1, <1>2 DEF FetchInv, FetchedOnce

\* What is asked for while nothing is read or asked.
LEMMA FetchSame ==
  ASSUME FetchInv, faults' = faults \/ faults' = faults + 1,
         UNCHANGED <<observed, packages, fetch, working, cache, fetches>>,
         fetch.step # "observe" => Imgs' = Imgs
  PROVE  FetchInv'
<1>1. faults' \in Nat /\ (faults' = 0 => faults = 0)
  BY DEF FetchInv
<1>2. CASE fetch.step = "observe"
  BY <1>1, <1>2 DEF FetchInv, FetchedOnce
<1>3. CASE fetch.step # "observe"
  <2>1. Imgs' = Imgs /\ Wanting' = Wanting /\ Waiting' = Waiting /\ PlannedFetches' = PlannedFetches
    BY <1>3 DEF Wanting, Waiting, PlannedFetches, Key
  <2>2. AsRecorded => AsRecorded'
    BY <2>1 DEF AsRecorded
  <2>3. Asking => Asking'
    <3>1. KeysDiffer => KeysDiffer'
      BY DEF KeysDiffer, Key
    <3>2. \A d : Answered(d) => Answered(d)'
      BY DEF Answered, Key
    <3>3. {Key(m) : m \in Wanting}' = {Key(m) : m \in Wanting}
      BY <2>1 DEF Key
    <3> QED
      BY <1>1, <2>1, <3>1, <3>2, <3>3 DEF Asking
  <2>4. FetchedOnce => FetchedOnce'
    BY <1>1, <2>1 DEF FetchedOnce
  <2> QED
    BY <1>1, <1>3, <2>1, <2>2, <2>3, <2>4 DEF FetchInv
<1> QED
  BY <1>2, <1>3

\* Planning asks for each content once: one request for all the images of it.
LEMMA QueueAsks ==
  ASSUME ScanInv, ContentInv, FetchInv, Queue, Imgs' = Imgs
  PROVE  FetchInv'
<1> DEFINE firsts == {n \in Wanting : FirstOfKey(n)}
           queue == InOrder(firsts, Earlier)
<1>1. /\ fetch.step = "plan" /\ UNCHANGED <<observed, packages, fetches, faults, working, cache>>
      /\ fetch' = [step |-> IF Wanting = {} THEN "fetched" ELSE "fetch",
                   queue |-> queue, planned |-> PlannedFetches]
  BY DEF Queue, inventoryVars
<1>2. /\ queue \in Seq(Imgs) /\ Wanting \subseteq Imgs /\ IsFiniteSet(Wanting)
      /\ \A k \in DOMAIN queue : queue[k] \in firsts
      /\ \A n \in firsts : \E k \in DOMAIN queue : queue[k] = n
      /\ \A j, k \in DOMAIN queue : queue[j] = queue[k] => j = k
  BY QueueIs
<1>3. fetches = <<>> /\ DOMAIN fetches = {} /\ AsRecorded /\ faults \in Nat
  BY <1>1 DEF FetchInv
<1> HIDE DEF queue
<1>4. fetch'.queue = queue /\ fetch'.planned = PlannedFetches
      /\ fetch'.step = (IF Wanting = {} THEN "fetched" ELSE "fetch")
  BY <1>1
<1>5. Wanting' = Wanting /\ PlannedFetches' = PlannedFetches /\ AsRecorded'
      /\ \A n : Key(n)' = Key(n)
  BY <1>1, <1>3 DEF Wanting, PlannedFetches, Key, AsRecorded
<1>6. Imgs \subseteq Nat
  BY ImagesAre
<1>7. ASSUME NEW n \in Wanting PROVE \E m \in firsts : Key(m) = Key(n)
  <2> DEFINE same == {m \in Wanting : Key(m) = Key(n)}
  <2>1. n \in same /\ same \in SUBSET Nat
    BY <1>2, <1>6
  <2>2. PICK m \in same : \A x \in same : m <= x
    BY <2>1, LeastExists
  <2>3. m \in firsts
    BY <2>2 DEF FirstOfKey
  <2> QED
    BY <2>2, <2>3
<1>8. ASSUME NEW m \in firsts, NEW n \in firsts, Key(m) = Key(n) PROVE m = n
  <2>1. m <= n /\ n <= m /\ m \in Nat /\ n \in Nat
    BY <1>2, <1>6, <1>8 DEF FirstOfKey
  <2> QED
    BY <2>1
<1>9. firsts \subseteq Wanting
  OBVIOUS
<1> HIDE DEF firsts
<1>10. \A j, k \in DOMAIN queue : Key(queue[j]) = Key(queue[k]) => j = k
  BY <1>2, <1>8
<1>11. {Key(queue[k]) : k \in DOMAIN queue} = {Key(n) : n \in Wanting}
  BY <1>2, <1>7, <1>9
<1>12. Asking'
  <2>1. Waiting' = {Key(queue[k]) : k \in DOMAIN queue}
    BY <1>4, <1>5 DEF Waiting
  <2>2. {Key(n)' : n \in Wanting'} = {Key(n) : n \in Wanting}
    BY <1>5
  <2>3. KeysDiffer'
    BY <1>4, <1>5, <1>10 DEF KeysDiffer
  <2> QED
    BY <1>1, <1>3, <1>4, <1>5, <1>11, <2>1, <2>2, <2>3 DEF Asking
<1>13. CASE Wanting = {}
  <2>1. PlannedFetches = 0
    <3>1. {Key(n) : n \in Wanting} = {}
      BY <1>13
    <3> QED
      BY <3>1, FS_EmptySet DEF PlannedFetches
  <2>2. Cardinality(DOMAIN fetches) = 0
    BY <1>3, FS_EmptySet
  <2>3. FetchedOnce'
    BY <1>1, <1>3, <1>4, <2>1, <2>2 DEF FetchedOnce
  <2>4. fetch'.step = "fetched"
    BY <1>4, <1>13
  <2> QED
    BY <1>1, <1>3, <2>3, <2>4 DEF FetchInv
<1>14. CASE Wanting # {}
  <2>1. fetch'.step = "fetch"
    BY <1>4, <1>14
  <2>2. FetchedOnce'
    BY <1>1, <1>3, <2>1 DEF FetchedOnce
  <2> QED
    BY <1>1, <1>3, <1>5, <1>12, <2>1, <2>2 DEF FetchInv
<1> QED
  BY <1>13, <1>14

\* A worker that takes a request is the only one with it.
LEMMA TakeAsks ==
  ASSUME ScanInv, ContentInv, FetchInv, NEW w \in Workers, Take(w), Imgs' = Imgs
  PROVE  FetchInv'
<1> DEFINE queue == fetch.queue
           key == Key(Head(queue))
<1>1. /\ fetch.step = "fetch" /\ queue # <<>> /\ working[w] = 0
      /\ working' = [working EXCEPT ![w] = Head(queue)]
      /\ fetch' = [fetch EXCEPT !.queue = Tail(@)]
      /\ fetches' = [k \in DOMAIN fetches \cup {key} |->
            (IF k \in DOMAIN fetches THEN fetches[k] ELSE 0) + (IF k = key THEN 1 ELSE 0)]
      /\ UNCHANGED <<observed, packages, cache, faults>>
  BY DEF Take, inventoryVars
<1>2. /\ fetch \in [step : {"observe", "plan", "fetch", "fetched"}, queue : Seq(Imgs),
                    planned : Nat]
      /\ working \in [Workers -> Imgs \cup {0}]
  BY DEF ContentInv
<1>3. queue \in Seq(Imgs) /\ 0 \notin Imgs
  BY <1>2, ImagesAre
<1>4. /\ fetch'.queue = Tail(queue) /\ fetch'.step = "fetch" /\ fetch'.planned = fetch.planned
  BY <1>1, <1>2
<1>5. Asking /\ AsRecorded /\ faults \in Nat
  BY <1>1 DEF FetchInv
<1> HIDE DEF queue
<1>6. /\ DOMAIN queue = 1..Len(queue) /\ Len(queue) \in Nat \ {0} /\ 1 \in DOMAIN queue
      /\ Head(queue) = queue[1] /\ queue[1] \in Imgs
      /\ DOMAIN Tail(queue) = 1..(Len(queue) - 1)
      /\ \A k \in 1..(Len(queue) - 1) : Tail(queue)[k] = queue[k + 1]
  BY <1>1, <1>3
<1>7. key = Key(queue[1]) /\ key \in Waiting /\ key \notin DOMAIN fetches
  BY <1>5, <1>6 DEF Waiting, queue, Asking
<1>8. DOMAIN fetches' = DOMAIN fetches \cup {key}
  BY <1>1
<1>9. \A k \in DOMAIN fetches' : fetches'[k] = 1
  <2>1. ASSUME NEW k \in DOMAIN fetches PROVE fetches'[k] = 1
    <3>1. fetches[k] = 1 /\ k # key
      BY <1>7 DEF FetchInv
    <3>2. fetches'[k] = fetches[k] + 0
      BY <1>1, <3>1
    <3> QED
      BY <3>1, <3>2
  <2>2. fetches'[key] = 1
    <3>1. fetches'[key] = 0 + 1
      BY <1>1, <1>7
    <3> QED
      BY <3>1
  <2> HIDE DEF key
  <2> QED
    BY <1>8, <2>1, <2>2
<1> HIDE DEF key
<1>10. \A n : Key(n)' = Key(n)
  BY <1>1 DEF Key
<1>11. \A j, k \in DOMAIN queue : Key(queue[j]) = Key(queue[k]) => j = k
  BY <1>5 DEF Asking, KeysDiffer, queue
<1>12. Waiting' = Waiting \ {key}
  <2>1. Waiting' = {Key(Tail(queue)[k]) : k \in DOMAIN Tail(queue)}
    BY <1>4, <1>10 DEF Waiting
  <2>2. Waiting = {Key(queue[k]) : k \in DOMAIN queue}
    BY DEF Waiting, queue
  <2>3. \A k \in 1..(Len(queue) - 1) : k + 1 \in DOMAIN queue /\ k + 1 # 1
    BY <1>6
  <2>4. \A k \in DOMAIN queue : k # 1 => k - 1 \in 1..(Len(queue) - 1) /\ (k - 1) + 1 = k
    BY <1>6
  <2>5. ASSUME NEW x \in Waiting' PROVE x \in Waiting \ {key}
    <3>1. PICK k \in 1..(Len(queue) - 1) : x = Key(Tail(queue)[k])
      BY <1>6, <2>1
    <3>2. x = Key(queue[k + 1])
      BY <1>6, <3>1
    <3> QED
      BY <1>6, <1>7, <1>11, <2>2, <2>3, <3>2
  <2>6. ASSUME NEW x \in Waiting \ {key} PROVE x \in Waiting'
    <3>1. PICK k \in DOMAIN queue : x = Key(queue[k])
      BY <2>2
    <3>2. k # 1
      BY <1>7, <3>1
    <3>3. k - 1 \in DOMAIN Tail(queue) /\ Tail(queue)[k - 1] = queue[k]
      BY <1>6, <2>4, <3>2
    <3> QED
      BY <2>1, <3>1, <3>3
  <2> QED
    BY <2>5, <2>6
<1>13. \A j, k \in DOMAIN Tail(queue) : Key(Tail(queue)[j]) = Key(Tail(queue)[k]) => j = k
  <2> SUFFICES ASSUME NEW j \in 1..(Len(queue) - 1), NEW k \in 1..(Len(queue) - 1),
                      Key(Tail(queue)[j]) = Key(Tail(queue)[k])
               PROVE  j = k
    BY <1>6
  <2>1. j + 1 \in DOMAIN queue /\ k + 1 \in DOMAIN queue
    BY <1>6
  <2>2. Key(queue[j + 1]) = Key(queue[k + 1])
    BY <1>6
  <2>3. j + 1 = k + 1
    BY <1>11, <2>1, <2>2
  <2> QED
    BY <2>3
<1>14. Wanting' = Wanting /\ PlannedFetches' = PlannedFetches /\ AsRecorded'
  BY <1>1, <1>5, <1>10 DEF Wanting, PlannedFetches, Key, AsRecorded
<1>15. Asking'
  <2>1. \A d : <<"digest", d>> \in DOMAIN fetches' /\ AttachedTo[d] # <<>> /\ faults = 0
                  => Answered(d)'
    <3> SUFFICES ASSUME NEW d, <<"digest", d>> \in DOMAIN fetches', AttachedTo[d] # <<>>, faults = 0
                 PROVE  Answered(d)'
      OBVIOUS
    <3>1. working'[w] = queue[1] /\ \A v \in Workers : v # w => working'[v] = working[v]
      BY <1>1, <1>2, <1>6 DEF queue
    <3>2. CASE <<"digest", d>> = key
      <4>1. working'[w] # 0 /\ Key(working'[w]) = key
        BY <1>3, <1>6, <1>7, <3>1 DEF key
      <4> QED
        BY <1>10, <3>2, <4>1 DEF Answered
    <3>3. CASE <<"digest", d>> # key
      <4>1. Answered(d)
        BY <1>5, <1>8, <3>3 DEF Asking
      <4> QED
        BY <1>1, <1>10, <3>1, <4>1 DEF Answered
    <3> QED
      BY <3>2, <3>3
  <2>2. {Key(n)' : n \in Wanting'} = {Key(n) : n \in Wanting}
    BY <1>10, <1>14
  <2>3. Waiting' \cap DOMAIN fetches' = {}
        /\ Waiting' \cup DOMAIN fetches' = {Key(n) : n \in Wanting}
    BY <1>5, <1>7, <1>8, <1>12 DEF Asking
  <2>4. fetch'.planned = PlannedFetches'
    BY <1>4, <1>5, <1>14 DEF Asking
  <2>5. KeysDiffer'
    BY <1>4, <1>10, <1>13 DEF KeysDiffer
  <2> QED
    BY <1>1, <2>1, <2>2, <2>3, <2>4, <2>5 DEF Asking
<1>16. FetchedOnce'
  BY <1>4, <1>9 DEF FetchedOnce
<1> QED
  BY <1>1, <1>4, <1>5, <1>9, <1>14, <1>15, <1>16 DEF FetchInv

\* The answer to a request ends it, and no other is open for its content.
LEMMA AnswerFound ==
  ASSUME ScanInv, ContentInv, FetchInv, NEW w \in Workers, Fetch(w) \/ FetchFails(w),
         Imgs' = Imgs
  PROVE  FetchInv'
<1> DEFINE n == working[w]
           key == Key(n)
<1>1. PICK found :
         /\ Answers(w, key, found)
         /\ LET attached == AttachedTo[Fetched(n)]
            IN  \/ Fetched(n) = None
                \/ faults' = faults /\ attached = <<>>
                \/ faults' = faults /\ attached # <<>> /\ found = attached[1]
                \/ faults' = faults + 1
  BY AnswersAre
<1>2. n \in Imgs /\ fetch.step = "fetch" /\ (faults' = faults \/ faults' = faults + 1)
  BY AnswersAre
<1>3. faults \in Nat /\ faults' \in Nat /\ (faults' = 0 => faults = 0)
  BY <1>2 DEF FetchInv
<1>4. Asking /\ AsRecorded
  BY <1>2 DEF FetchInv
<1>5. /\ working' = [working EXCEPT ![w] = 0]
      /\ UNCHANGED <<observed, packages, fetch, fetches>>
      /\ IF found = {} THEN cache' = cache
         ELSE cache' = [k \in DOMAIN cache \cup {key} |-> IF k = key THEN found ELSE cache[k]]
  BY <1>1 DEF Answers
<1>6. working \in [Workers -> Imgs \cup {0}]
  BY DEF ContentInv
<1>7. \A v \in Workers : v # w => working'[v] = working[v]
  BY <1>5, <1>6
<1>8. /\ \A m : Key(m)' = Key(m)
      /\ Wanting' = Wanting /\ PlannedFetches' = PlannedFetches /\ Waiting' = Waiting /\ AsRecorded'
  BY <1>4, <1>5 DEF Key, Wanting, PlannedFetches, Waiting, AsRecorded
<1>9. ASSUME NEW d, <<"digest", d>> \in DOMAIN fetches, AttachedTo[d] # <<>>, faults' = 0
      PROVE  Answered(d)'
  <2>1. Answered(d) /\ faults' = faults /\ faults' # faults + 1
    BY <1>2, <1>3, <1>4, <1>9 DEF Asking
  <2>2. CASE key = <<"digest", d>>
    <3>1. observed[n] # None /\ observed[n] = d
      BY <2>2 DEF Key
    <3>2. Fetched(n) = d /\ d # None
      BY <3>1 DEF Fetched
    <3>3. found = AttachedTo[d][1]
      BY <1>1, <1>9, <2>1, <3>2
    <3>4. CASE found = {}
      BY <3>3, <3>4 DEF Answered
    <3>5. CASE found # {}
      <4>1. key \in DOMAIN cache' /\ cache'[key] = found
        BY <1>5, <3>5
      <4> QED
        BY <2>2, <3>3, <4>1 DEF Answered
    <3> QED
      BY <3>4, <3>5
  <2>3. CASE key # <<"digest", d>>
    <3> DEFINE other == <<"digest", d>>
    <3> HIDE DEF other, key
    <3>1. \A x : x # key /\ x \in DOMAIN cache =>
             x \in DOMAIN cache' /\ cache'[x] = cache[x]
      BY <1>5
    <3>2. other # key /\ (other \in DOMAIN cache =>
             other \in DOMAIN cache' /\ cache'[other] = cache[other])
      BY <2>3, <3>1 DEF other
    <3>3. \A v \in Workers : working[v] # 0 /\ Key(working[v]) = other =>
             working'[v] # 0 /\ Key(working'[v]) = other
      BY <1>7, <3>2 DEF key
    <3> QED
      BY <1>8, <2>1, <3>2, <3>3 DEF Answered, other
  <2> QED
    BY <2>2, <2>3
<1>10. Asking'
  <2>1. {Key(m)' : m \in Wanting'} = {Key(m) : m \in Wanting}
    BY <1>8
  <2>2. KeysDiffer'
    BY <1>4, <1>5, <1>8 DEF Asking, KeysDiffer
  <2> QED
    BY <1>4, <1>5, <1>8, <1>9, <2>1, <2>2 DEF Asking
<1>11. FetchedOnce'
  BY <1>2, <1>5 DEF FetchedOnce, FetchInv
<1> QED
  BY <1>2, <1>3, <1>5, <1>8, <1>10, <1>11 DEF FetchInv

\* Folding the answers in opens no request.
LEMMA FoldInFetched ==
  ASSUME ScanInv, ContentInv, FetchInv, FoldIn, Imgs' = Imgs
  PROVE  FetchInv'
<1>1. /\ fetch.step = "fetch" /\ fetch.queue = <<>> /\ \A w \in Workers : working[w] = 0
      /\ packages' = [n \in Imgs |-> IF n \in Wanting THEN Applied(n) ELSE packages[n]]
      /\ fetch' = [fetch EXCEPT !.step = "fetched"]
      /\ UNCHANGED <<observed, working, cache, fetches, faults>>
  BY DEF FoldIn, inventoryVars
<1>2. fetch'.step = "fetched" /\ fetch'.planned = fetch.planned /\ fetch'.queue = <<>>
  BY <1>1 DEF ContentInv
<1>3. Asking /\ AsRecorded /\ faults \in Nat /\ \A k \in DOMAIN fetches : fetches[k] = 1
  BY <1>1 DEF FetchInv
<1>4. DOMAIN fetches = {Key(n) : n \in Wanting}
  <2>1. Waiting = {}
    BY <1>1 DEF Waiting
  <2> QED
    BY <1>3, <2>1 DEF Asking
<1>5. Cardinality(DOMAIN fetches) = fetch.planned
  BY <1>3, <1>4 DEF Asking, PlannedFetches
<1>6. ASSUME faults = 0, NEW n \in Imgs, observed[n] # None, AttachedTo[observed[n]] # <<>>
      PROVE  \/ ReadBack(AttachedTo[observed[n]][1]) \subseteq packages'[n]
             \/ RecordedIn[observed[n]] # {}
  <2>1. CASE n \in Wanting
    <3>1. Key(n) = <<"digest", observed[n]>> /\ Key(n) \in DOMAIN fetches
      BY <1>4, <1>6, <2>1 DEF Key
    <3>2. Answered(observed[n])
      BY <1>3, <1>6, <3>1 DEF Asking
    <3>3. packages'[n] = Applied(n)
      BY <1>1, <2>1
    <3>4. \/ AttachedTo[observed[n]][1] = {}
          \/ Key(n) \in DOMAIN cache /\ cache[Key(n)] = AttachedTo[observed[n]][1]
      BY <1>1, <3>1, <3>2 DEF Answered
    <3> QED
      BY <3>3, <3>4 DEF Applied, ReadBack
  <2>2. CASE n \notin Wanting
    <3>1. packages[n] = RecordedIn[observed[n]] /\ packages[n] # {}
      BY <1>3, <1>6, <2>2 DEF AsRecorded, Wanting
    <3> QED
      BY <3>1
  <2> QED
    BY <2>1, <2>2
<1>7. FetchedOnce'
  BY <1>1, <1>2, <1>3, <1>5, <1>6 DEF FetchedOnce
<1> QED
  BY <1>1, <1>2, <1>3, <1>7 DEF FetchInv

\* Every step keeps at most one request for a content.
LEMMA FetchStep ==
  ASSUME ScanInv, ContentInv, FetchInv, [Next]_vars
  PROVE  FetchInv'
<1>1. faults' = faults \/ faults' = faults + 1
  BY FaultsStep
<1>2. fetch.step # "observe" => Imgs' = Imgs
  BY ImagesStay DEF ContentInv, Imgs
<1>3. faults \in Nat /\ faults' \in Nat /\ \A k \in DOMAIN fetches : fetches[k] = 1
  BY <1>1 DEF FetchInv
<1>4. CASE (ScanNext \/ Release) /\ UNCHANGED contentVars
  BY <1>1, <1>2, <1>4, FetchSame DEF contentVars
<1>5. CASE Observe
  <2>1. /\ fetch.step = "observe" /\ fetch' = [fetch EXCEPT !.step = "plan"]
        /\ packages' = [n \in Imgs |->
              IF observed'[n] = None THEN {} ELSE RecordedIn[observed'[n]]]
        /\ UNCHANGED <<inventory, fetches>>
    BY <1>5 DEF Observe, scanning
  <2>2. fetch'.step = "plan" /\ fetch'.planned = fetch.planned /\ Imgs' = Imgs
    BY <2>1 DEF ContentInv, Imgs
  <2>3. AsRecorded'
    BY <2>1, <2>2 DEF AsRecorded
  <2>4. FetchedOnce' /\ fetches' = <<>> /\ fetch'.planned = 0
    BY <1>3, <2>1, <2>2 DEF FetchInv, FetchedOnce
  <2> QED
    BY <1>3, <2>1, <2>2, <2>3, <2>4 DEF FetchInv
<1>6. CASE Queue
  <2>1. fetch.step = "plan"
    BY <1>6 DEF Queue
  <2> QED
    BY <1>2, <1>6, <2>1, QueueAsks
<1>7. CASE FetchNothing
  <2>1. /\ fetch.step = "plan" /\ fetch' = [fetch EXCEPT !.step = "fetched"]
        /\ UNCHANGED <<fetches, faults>>
    BY <1>7 DEF FetchNothing, inventoryVars
  <2>2. fetch'.step = "fetched" /\ fetch'.planned = fetch.planned
    BY <2>1 DEF ContentInv
  <2>3. fetches = <<>> /\ fetch.planned = 0
    BY <2>1 DEF FetchInv
  <2>4. Cardinality(DOMAIN fetches) = 0
    <3>1. DOMAIN fetches = {}
      BY <2>3
    <3> QED
      BY <3>1, FS_EmptySet
  <2>5. FetchedOnce'
    BY <1>3, <2>1, <2>2, <2>3, <2>4 DEF FetchedOnce
  <2> QED
    BY <1>3, <2>1, <2>2, <2>5 DEF FetchInv
<1>8. ASSUME NEW w \in Workers, Take(w) PROVE FetchInv'
  <2>1. fetch.step = "fetch"
    BY <1>8 DEF Take
  <2> QED
    BY <1>2, <1>8, <2>1, TakeAsks
<1>9. ASSUME NEW w \in Workers, Fetch(w) \/ FetchFails(w) PROVE FetchInv'
  <2>1. fetch.step = "fetch"
    BY <1>9, AnswersAre
  <2> QED
    BY <1>2, <1>9, <2>1, AnswerFound
<1>10. CASE FoldIn
  <2>1. fetch.step = "fetch"
    BY <1>10 DEF FoldIn
  <2> QED
    BY <1>2, <1>10, <2>1, FoldInFetched
<1>11. ASSUME NEW view, NEW budget, Build(view, budget) PROVE FetchInv'
  BY <1>1, <1>2, <1>11, FetchSame DEF Build
<1>12. CASE CompareItem \/ Report \/ UNCHANGED vars
  BY <1>1, <1>2, <1>12, FetchSame DEF CompareItem, Report, vars, contentVars
<1> QED
  BY <1>4, <1>5, <1>6, <1>7, <1>8, <1>9, <1>10, <1>11, <1>12 DEF Next

\* However many images and workers there are, one content is asked for once, as
\* many requests are made as were announced, and while nothing fails every image
\* whose content has an SBOM that can be read first is known by it.
THEOREM ContentsFetchedOnce == Spec => []FetchedOnce
<1>1. ScanInv /\ ContentInv /\ FetchInv /\ [Next]_vars => FetchInv'
  BY FetchStep
<1> QED
  BY <1>1, FetchInvInit, ScanInvHolds, ContentHolds, PTL DEF Spec, FetchInv

-----------------------------------------------------------------------------
(* What is compared.                                                       *)

\* The pairs of n things are n(n-1)/2.
LEMMA PairsAre ==
  ASSUME NEW S, IsFiniteSet(S)
  PROVE  LET n == Cardinality(S)
         IN  IsFiniteSet(PairsOf(S)) /\ Cardinality(PairsOf(S)) <= (n * (n - 1)) \div 2
<1> DEFINE Bounded(n) == \A C \in SUBSET S : Cardinality(C) = n =>
              Cardinality(PairsOf(C)) <= (n * (n - 1)) \div 2
           wrong == {n \in Nat : ~Bounded(n)}
<1>1. ASSUME NEW C \in SUBSET S PROVE IsFiniteSet(C) /\ IsFiniteSet(PairsOf(C))
  <2>1. IsFiniteSet(C)
    BY FS_Subset
  <2>2. IsFiniteSet(SUBSET C)
    BY <2>1, FS_SUBSET
  <2>3. PairsOf(C) \in SUBSET SUBSET C
    BY DEF PairsOf
  <2> QED
    BY <2>1, <2>2, <2>3, FS_Subset
<1>2. Bounded(0)
  <2> SUFFICES ASSUME NEW C \in SUBSET S, Cardinality(C) = 0
               PROVE  Cardinality(PairsOf(C)) <= 0
    OBVIOUS
  <2>1. C = {}
    BY <1>1, FS_EmptySet
  <2>2. PairsOf(C) = {}
    BY <2>1, FS_EmptySet DEF PairsOf
  <2> QED
    BY <2>2, FS_EmptySet
<1>3. ASSUME NEW n \in Nat, Bounded(n) PROVE Bounded(n + 1)
  <2> SUFFICES ASSUME NEW C \in SUBSET S, Cardinality(C) = n + 1
               PROVE  Cardinality(PairsOf(C)) <= ((n + 1) * n) \div 2
    OBVIOUS
  <2>1. IsFiniteSet(C) /\ C # {}
    BY <1>1, FS_EmptySet
  <2>2. PICK c : c \in C
    BY <2>1
  <2> DEFINE D == C \ {c}
             with == {{c, d} : d \in D}
             f == [d \in D |-> {c, d}]
  <2>3. D \in SUBSET S /\ IsFiniteSet(D) /\ Cardinality(D) = n
    <3>1. IsFiniteSet(D) /\ Cardinality(D) = Cardinality(C) - 1
      BY <2>1, <2>2, FS_RemoveElement
    <3> QED
      BY <3>1
  <2>4. Cardinality(PairsOf(D)) <= (n * (n - 1)) \div 2
    BY <1>3, <2>3
  <2>5. IsFiniteSet(with) /\ Cardinality(with) <= n
    <3>1. f \in Surjection(D, with)
      BY DEF Surjection
    <3> HIDE DEF f, with, D
    <3> QED
      BY <2>3, <3>1, FS_Surjection
  <2>6. PairsOf(C) \subseteq PairsOf(D) \cup with
    <3> SUFFICES ASSUME NEW p \in PairsOf(C), p \notin PairsOf(D) PROVE p \in with
      OBVIOUS
    <3>1. p \in SUBSET C /\ Cardinality(p) = 2
      BY DEF PairsOf
    <3>2. c \in p
      BY <3>1 DEF PairsOf
    <3>3. IsFiniteSet(p)
      BY <2>1, <3>1, FS_Subset
    <3>4. IsFiniteSet(p \ {c}) /\ Cardinality(p \ {c}) = 1
      <4>1. IsFiniteSet(p \ {c}) /\ Cardinality(p \ {c}) = Cardinality(p) - 1
        BY <3>2, <3>3, FS_RemoveElement
      <4> QED
        BY <3>1, <4>1
    <3>5. PICK d : p \ {c} = {d}
      BY <3>4, FS_Singleton
    <3>6. p = {c, d} /\ d \in D
      BY <3>1, <3>2, <3>5
    <3> QED
      BY <3>6
  <2>7. IsFiniteSet(PairsOf(D)) /\ IsFiniteSet(with)
    BY <1>1, <2>3, <2>5
  <2> HIDE DEF D, with
  <2>8. /\ Cardinality(PairsOf(D) \cup with) =
              Cardinality(PairsOf(D)) + Cardinality(with) - Cardinality(PairsOf(D) \cap with)
        /\ IsFiniteSet(PairsOf(D) \cup with) /\ IsFiniteSet(PairsOf(D) \cap with)
    BY <2>7, FS_Union, FS_Intersection
  <2>9. Cardinality(PairsOf(C)) <= Cardinality(PairsOf(D) \cup with)
    BY <2>6, <2>8, FS_Subset
  <2> DEFINE a == Cardinality(PairsOf(D))
             b == Cardinality(with)
             both == Cardinality(PairsOf(D) \cap with)
             all == Cardinality(PairsOf(D) \cup with)
             pairs == Cardinality(PairsOf(C))
             product == n * (n - 1)
  <2>10. a \in Nat /\ b \in Nat /\ both \in Nat /\ all \in Nat /\ pairs \in Nat
    BY <1>1, <2>7, <2>8, FS_CardinalityType
  <2>11. a <= product \div 2 /\ b <= n /\ all = a + b - both /\ pairs <= all
    BY <2>4, <2>5, <2>8, <2>9
  <2>12. product \in Int /\ (n + 1) * n = product + 2 * n
    OBVIOUS
  <2> HIDE DEF a, b, both, all, pairs, product
  <2>13. (product + 2 * n) \div 2 = product \div 2 + n /\ product \div 2 \in Int
    BY <2>12
  <2>14. pairs <= (product + 2 * n) \div 2
    BY <2>10, <2>11, <2>13
  <2> QED
    BY <2>12, <2>14 DEF pairs
<1>4. wrong = {}
  <2> SUFFICES ASSUME wrong # {} PROVE FALSE
    OBVIOUS
  <2>1. wrong \in SUBSET Nat
    OBVIOUS
  <2>2. PICK n \in wrong : \A m \in wrong : n <= m
    <3> HIDE DEF wrong
    <3> QED
      BY <2>1, LeastExists
  <2>3. n \in Nat /\ ~Bounded(n) /\ \A m \in Nat : m < n => Bounded(m)
    <3> HIDE DEF Bounded
    <3>1. n \in Nat /\ ~Bounded(n)
      BY <2>2
    <3>2. \A m \in Nat : ~Bounded(m) => n <= m
      BY <2>2
    <3> QED
      BY <3>1, <3>2
  <2> HIDE DEF Bounded, wrong
  <2>4. n # 0
    BY <1>2, <2>3
  <2>5. n - 1 \in Nat /\ n - 1 < n /\ (n - 1) + 1 = n
    BY <2>3, <2>4
  <2>6. Bounded((n - 1) + 1)
    BY <1>3, <2>3, <2>5
  <2> QED
    BY <2>3, <2>5, <2>6
<1>5. Cardinality(S) \in Nat
  BY FS_CardinalityType
<1>6. Bounded(Cardinality(S))
  <2> HIDE DEF Bounded
  <2> QED
    BY <1>4, <1>5
<1> QED
  BY <1>1, <1>6

\* Triangular numbers grow.
LEMMA Triangles ==
  ASSUME NEW m \in Nat, NEW n \in Nat, m <= n
  PROVE  (m * (m - 1)) \div 2 <= (n * (n - 1)) \div 2
<1> DEFINE a == m * (m - 1)
           b == n * (n - 1)
<1>1. a \in Int /\ b \in Int
  OBVIOUS
<1>2. a <= b
  <2>1. b - a = (n - m) * (n + m - 1)
    OBVIOUS
  <2>2. CASE m = n
    BY <2>2
  <2>3. CASE m # n
    <3>1. n - m \in Nat /\ n + m - 1 \in Nat
      BY <2>3
    <3>2. (n - m) * (n + m - 1) \in Nat
      BY <3>1
    <3>3. b - a >= 0
      BY <2>1, <3>2
    <3> HIDE DEF a, b
    <3> QED
      BY <1>1, <3>3
  <2> QED
    BY <2>2, <2>3
<1> HIDE DEF a, b
<1>3. a \div 2 <= b \div 2
  BY <1>1, <1>2
<1> QED
  BY <1>3 DEF a, b

GraphFields ==
    graph = [step |-> graph.step, view |-> graph.view, budget |-> graph.budget,
             sets |-> graph.sets, identical |-> graph.identical, todo |-> graph.todo,
             counted |-> graph.counted, excluded |-> graph.excluded,
             pairs |-> graph.pairs, clusters |-> graph.clusters]

\* What is compared are the items of the images, narrowest first: those that are
\* still to be compared are no narrower than those that were, and none of those
\* that were left out would fit by now.
Items == UNION {graph.sets[n] : n \in DOMAIN graph.sets}
GraphTypes ==
    /\ GraphFields
    /\ graph.step \in {"idle", "compare", "done"} /\ graph.budget \in Nat
    /\ DOMAIN graph.sets \subseteq Imgs
    /\ \A n \in DOMAIN graph.sets : ItemSet(graph.sets[n])
    /\ ItemSet(graph.todo) /\ ItemSet(graph.counted) /\ ItemSet(graph.excluded)
Compared ==
    /\ graph.step # "idle" => fetch.step = "fetched"
    /\ graph.step = "idle" =>
          /\ graph.counted = {} /\ graph.excluded = {} /\ graph.todo = {}
          /\ DOMAIN graph.sets = {}
    /\ graph.counted \cup graph.excluded \cup graph.todo = Items
    /\ graph.counted \cap graph.excluded = {}
    /\ (graph.counted \cup graph.excluded) \cap graph.todo = {}
NarrowestFirst ==
    \A x \in graph.counted \cup graph.excluded, y \in graph.todo : Before(x, y)
NoneFits == \A x \in graph.excluded : ~Fits(x)

GraphInv == GraphTypes /\ Compared /\ NarrowestFirst /\ NoneFits /\ WidestLeftOut

\* The images that carry an item are finitely many.
LEMMA CarriersAre ==
  ASSUME ScanInv, GraphTypes
  PROVE  \A x : IsFiniteSet(Carriers(x)) /\ Cardinality(Carriers(x)) \in Nat
<1>1. IsFiniteSet(Imgs)
  BY ImagesAre
<1> SUFFICES ASSUME NEW x PROVE IsFiniteSet(Carriers(x)) /\ Cardinality(Carriers(x)) \in Nat
  OBVIOUS
<1>2. Carriers(x) \in SUBSET Imgs
  BY DEF Carriers, GraphTypes
<1> QED
  BY <1>1, <1>2, FS_Subset, FS_CardinalityType

OverlappingKnown ==
    /\ IsFiniteSet(Overlapping) /\ Cardinality(Overlapping) \in Nat
    /\ \A p : Overlap(p) \in Nat
    /\ \A p : p \in Overlapping <=>
          /\ p \in PairsOf(DOMAIN graph.sets)
          /\ \E x \in graph.counted : p \subseteq Carriers(x)

\* The pairs that overlap are those with a counted item in common, finite in
\* number, and each has a number of such items.
LEMMA OverlappingAre == ScanInv /\ GraphTypes => OverlappingKnown
<1> SUFFICES ASSUME ScanInv, GraphTypes PROVE OverlappingKnown
  OBVIOUS
<1>1. ASSUME NEW p
      PROVE  Overlap(p) \in Nat /\ (Overlap(p) > 0 <=> \E x \in graph.counted : p \subseteq Carriers(x))
  <2> DEFINE shared == {x \in graph.counted : p \subseteq Carriers(x)}
  <2>1. IsFiniteSet(graph.counted) /\ shared \in SUBSET graph.counted
    BY DEF GraphTypes, ItemSet
  <2>2. shared # {} <=> \E x \in graph.counted : p \subseteq Carriers(x)
    OBVIOUS
  <2>3. Overlap(p) = Cardinality(shared)
    BY DEF Overlap
  <2> HIDE DEF shared
  <2>4. Overlap(p) \in Nat /\ (Overlap(p) = 0 <=> shared = {})
    BY <2>1, <2>3, FS_Subset, FS_CardinalityType, FS_EmptySet
  <2>5. Overlap(p) > 0 <=> shared # {}
    BY <2>4
  <2> QED
    BY <2>2, <2>4, <2>5
<1>2. IsFiniteSet(Overlapping)
  <2>1. IsFiniteSet(DOMAIN graph.sets)
    <3>1. IsFiniteSet(Imgs)
      BY ImagesAre
    <3> QED
      BY <3>1, FS_Subset DEF GraphTypes
  <2>2. IsFiniteSet(PairsOf(DOMAIN graph.sets))
    BY <2>1, PairsAre
  <2>3. Overlapping \in SUBSET PairsOf(DOMAIN graph.sets)
    BY DEF Overlapping
  <2> QED
    BY <2>2, <2>3, FS_Subset
<1>3. \A p : p \in Overlapping <=> p \in PairsOf(DOMAIN graph.sets) /\ Overlap(p) > 0
  BY DEF Overlapping
<1>4. Cardinality(Overlapping) \in Nat
  BY <1>2, FS_CardinalityType
<1> HIDE DEF Overlap
<1> QED
  BY <1>1, <1>2, <1>3, <1>4 DEF OverlappingKnown

\* The item that is compared next.
Next1 == CHOOSE x \in graph.todo : \A y \in graph.todo \ {x} : Before(x, y)

\* The item compared next comes before every other still to do.
LEMMA NarrowestIs ==
  ASSUME ScanInv, GraphTypes, graph.todo # {}
  PROVE  Next1 \in graph.todo /\ \A y \in graph.todo \ {Next1} : Before(Next1, y)
<1> DEFINE before == {pair \in graph.todo \X graph.todo : Before(pair[1], pair[2])}
           c == [x \in graph.todo |-> Cardinality(Carriers(x))]
           n == Cardinality(graph.todo)
           s == InOrder(graph.todo, before)
<1>1. /\ IsFiniteSet(graph.todo)
      /\ \A x \in graph.todo : x \in Nat /\ c[x] \in Nat
  BY CarriersAre DEF GraphTypes, ItemSet
<1>2. \A x, y \in graph.todo : Before(x, y) <=> c[x] < c[y] \/ (c[x] = c[y] /\ x < y)
  BY DEF Before
<1>3. \A x, y \in graph.todo : <<x, y>> \in before <=> Before(x, y)
  OBVIOUS
<1> HIDE DEF c, before
<1>4. StrictOrder(graph.todo, before)
  <2>0. \A x, y \in graph.todo : <<x, y>> \in before <=> c[x] < c[y] \/ (c[x] = c[y] /\ x < y)
    BY <1>2, <1>3
  <2>1. \A x \in graph.todo : <<x, x>> \notin before
    BY <1>1, <2>0
  <2>2. \A x, y \in graph.todo : x # y => <<x, y>> \in before \/ <<y, x>> \in before
    BY <1>1, <2>0
  <2>3. \A x, y, z \in graph.todo :
           <<x, y>> \in before /\ <<y, z>> \in before => <<x, z>> \in before
    BY <1>1, <2>0
  <2> QED
    BY <2>1, <2>2, <2>3 DEF StrictOrder
<1>5. /\ n \in Nat /\ s \in [1..n -> graph.todo]
      /\ \A x \in graph.todo : \E k \in 1..n : s[k] = x
      /\ \A j, k \in 1..n : j < k => s[j] # s[k] /\ <<s[j], s[k]>> \in before
  <2> HIDE DEF s, n
  <2> QED
    BY <1>1, <1>4, InOrderIs DEF s, n
<1> HIDE DEF s, n
<1>6. 1 \in 1..n
  <2>1. PICK x \in graph.todo : TRUE
    OBVIOUS
  <2>2. PICK k \in 1..n : s[k] = x
    BY <1>5, <2>1
  <2> QED
    BY <1>5, <2>2
<1>7. ASSUME NEW y \in graph.todo \ {s[1]} PROVE Before(s[1], y)
  <2>1. PICK k \in 1..n : s[k] = y
    BY <1>5
  <2>2. k # 1 /\ 1 < k
    <3>1. k # 1
      BY <2>1
    <3> QED
      BY <1>5, <3>1
  <2>3. <<s[1], y>> \in before /\ s[1] \in graph.todo
    BY <1>5, <1>6, <2>1, <2>2
  <2> QED
    BY <1>3, <2>3
<1>8. \E x \in graph.todo : \A y \in graph.todo \ {x} : Before(x, y)
  BY <1>5, <1>6, <1>7
<1> QED
  BY <1>8 DEF Next1

\* An item that is wider than one left out is left out too.
LEMMA NoneIfFits ==
  ASSUME ScanInv, GraphInv, NEW x \in graph.todo, Fits(x)
  PROVE  graph.excluded = {}
<1> SUFFICES ASSUME NEW e \in graph.excluded PROVE FALSE
  OBVIOUS
<1> DEFINE m == Cardinality(Carriers(e))
           n == Cardinality(Carriers(x))
           held == Cardinality(Overlapping)
<1>1. m \in Nat /\ n \in Nat /\ held \in Nat /\ graph.budget \in Nat
  BY CarriersAre, OverlappingAre DEF GraphInv, GraphTypes, OverlappingKnown
<1>2. m <= n
  <2>1. Before(e, x)
    BY DEF GraphInv, NarrowestFirst
  <2> HIDE DEF m, n
  <2>2. m < n \/ m = n
    BY <2>1 DEF Before, m, n
  <2> QED
    BY <1>1, <2>2
<1>3. m > 1 /\ ~(held + (m * (m - 1)) \div 2 <= graph.budget)
  BY DEF GraphInv, NoneFits, Fits
<1>4. n > 1 => held + (n * (n - 1)) \div 2 <= graph.budget
  BY DEF Fits
<1>5. (m * (m - 1)) \div 2 <= (n * (n - 1)) \div 2
  BY <1>1, <1>2, Triangles
<1> DEFINE tm == (m * (m - 1)) \div 2
           tn == (n * (n - 1)) \div 2
<1>6. tm \in Int /\ tn \in Int
  BY <1>1
<1>7. /\ m > 1 /\ ~(held + tm <= graph.budget)
      /\ n > 1 => held + tn <= graph.budget
      /\ tm <= tn
  BY <1>3, <1>4, <1>5
<1> HIDE DEF m, n, held, tm, tn
<1> QED
  BY <1>1, <1>2, <1>6, <1>7

\* Comparing one more item keeps the graph's invariant.
LEMMA CompareKeeps ==
  ASSUME ScanInv, GraphInv, CompareItem
  PROVE  GraphInv'
<1> DEFINE x == Next1
           c(y) == Cardinality(Carriers(y))
<1>1. /\ graph.step = "compare" /\ graph.todo # {} /\ UNCHANGED <<inventory, fetch>>
      /\ graph' = [graph EXCEPT !.todo = @ \ {x},
                      !.counted = IF Fits(x) THEN @ \cup {x} ELSE @,
                      !.excluded = IF Fits(x) THEN @ ELSE @ \cup {x}]
  BY DEF CompareItem, Next1, inventoryVars, scanning
<1>2. x \in graph.todo /\ \A y \in graph.todo \ {x} : Before(x, y)
  BY <1>1, NarrowestIs DEF GraphInv
<1> HIDE DEF x
<1>3. /\ GraphFields'
      /\ graph'.step = graph.step /\ graph'.budget = graph.budget /\ graph'.sets = graph.sets
      /\ graph'.todo = graph.todo \ {x}
      /\ graph'.counted = IF Fits(x) THEN graph.counted \cup {x} ELSE graph.counted
      /\ graph'.excluded = IF Fits(x) THEN graph.excluded ELSE graph.excluded \cup {x}
  <2>1. GraphFields
    BY DEF GraphInv, GraphTypes
  <2> QED
    BY <1>1, <2>1 DEF GraphFields
<1>4. /\ Items' = Items /\ \A y : Carriers(y)' = Carriers(y)
      /\ \A y, z : Before(y, z)' <=> Before(y, z)
  BY <1>3 DEF Items, Carriers, Before
<1>5. GraphTypes /\ Compared /\ NarrowestFirst /\ NoneFits /\ WidestLeftOut
  BY DEF GraphInv
<1>6. GraphTypes'
  <2>1. ItemSet(graph.todo) /\ ItemSet(graph.counted) /\ ItemSet(graph.excluded)
    BY <1>5 DEF GraphTypes
  <2>2. x \in Nat /\ ItemSet(graph.todo \ {x})
    BY <1>2, <2>1, FS_RemoveElement DEF ItemSet
  <2>3. ItemSet(graph.counted \cup {x}) /\ ItemSet(graph.excluded \cup {x})
    BY <2>1, <2>2, FS_AddElement DEF ItemSet
  <2>4. ItemSet(graph'.todo) /\ ItemSet(graph'.counted) /\ ItemSet(graph'.excluded)
    BY <1>3, <2>1, <2>2, <2>3
  <2>5. Imgs' = Imgs
    BY <1>1 DEF Imgs
  <2> QED
    BY <1>3, <1>5, <2>4, <2>5 DEF GraphTypes
<1>7. Compared'
  BY <1>1, <1>2, <1>3, <1>4, <1>5 DEF Compared
<1>8. NarrowestFirst'
  <2>1. ASSUME NEW y \in graph'.counted \cup graph'.excluded, NEW z \in graph'.todo
        PROVE  Before(y, z)
    BY <1>2, <1>3, <1>5 DEF NarrowestFirst
  <2> QED
    BY <1>4, <2>1 DEF NarrowestFirst
<1>9. /\ IsFiniteSet(Overlapping) /\ Cardinality(Overlapping) \in Nat
      /\ IsFiniteSet(Overlapping') /\ Cardinality(Overlapping') \in Nat
      /\ \A p : p \in Overlapping <=>
            /\ p \in PairsOf(DOMAIN graph.sets)
            /\ \E y \in graph.counted : p \subseteq Carriers(y)
      /\ \A p : p \in Overlapping' <=>
            /\ p \in PairsOf(DOMAIN graph.sets)
            /\ \E y \in graph'.counted : p \subseteq Carriers(y)
  <2>1. ScanInv'
    <3>1. [Next]_vars
      BY DEF Next
    <3> QED
      BY <3>1, ScanInvStep
  <2>2. /\ IsFiniteSet(Overlapping) /\ Cardinality(Overlapping) \in Nat
        /\ \A p : p \in Overlapping <=>
              /\ p \in PairsOf(DOMAIN graph.sets)
              /\ \E y \in graph.counted : p \subseteq Carriers(y)
    BY <1>5, OverlappingAre DEF OverlappingKnown
  <2>3. /\ IsFiniteSet(Overlapping') /\ Cardinality(Overlapping') \in Nat
        /\ \A p : p \in Overlapping' <=>
              /\ p \in PairsOf(DOMAIN graph'.sets)
              /\ \E y \in graph'.counted : p \subseteq Carriers(y)'
    <3>1. OverlappingKnown'
      BY <1>6, <2>1, OverlappingAre, PTL
    <3> QED
      BY <3>1 DEF OverlappingKnown
  <2> QED
    BY <1>3, <1>4, <2>2, <2>3
<1>10. CASE Fits(x)
  <2>1. /\ graph.excluded = {} /\ graph'.excluded = {}
        /\ graph'.counted = graph.counted \cup {x}
    BY <1>2, <1>3, <1>10, NoneIfFits
  <2> DEFINE n == Cardinality(Carriers(x))
             new == PairsOf(Carriers(x))
             tri == (n * (n - 1)) \div 2
             held == Cardinality(Overlapping)
  <2>2. IsFiniteSet(new) /\ Cardinality(new) <= tri /\ n \in Nat /\ Cardinality(new) \in Nat
    BY <1>5, CarriersAre, PairsAre, FS_CardinalityType
  <2>3. Overlapping' \subseteq Overlapping \cup new
    BY <1>9, <2>1 DEF PairsOf
  <2>4. /\ IsFiniteSet(Overlapping \cup new)
        /\ Cardinality(Overlapping \cup new) =
              Cardinality(Overlapping) + Cardinality(new) - Cardinality(Overlapping \cap new)
        /\ IsFiniteSet(Overlapping \cap new)
    <3> HIDE DEF new
    <3> QED
      BY <1>9, <2>2, FS_Union, FS_Intersection
  <2>5. Cardinality(Overlapping') <= Cardinality(Overlapping \cup new)
    BY <2>3, <2>4, FS_Subset
  <2>6. Cardinality(Overlapping \cap new) \in Nat
    BY <2>4, FS_CardinalityType
  <2>7. n > 1 => held + tri <= graph.budget
    BY <1>10 DEF Fits
  <2>8. ~(n > 1) => tri = 0
    <3>1. CASE n = 0
      BY <3>1
    <3>2. CASE n = 1
      BY <3>2
    <3> QED
      BY <2>2, <3>1, <3>2
  <2>9. held <= graph.budget /\ graph.budget \in Nat
    BY <1>5 DEF WidestLeftOut, GraphTypes
  <2>10. tri \in Int
    BY <2>2
  <2>11. Cardinality(Overlapping') <= held + Cardinality(new)
    <3> DEFINE after == Cardinality(Overlapping')
               all == Cardinality(Overlapping \cup new)
               some == Cardinality(Overlapping \cap new)
               added == Cardinality(new)
    <3>1. after \in Nat /\ all = held + added - some /\ some \in Nat /\ held \in Nat
          /\ added \in Nat /\ after <= all
      BY <1>9, <2>2, <2>4, <2>5, <2>6
    <3> HIDE DEF after, all, some, added, held
    <3>2. after <= held + added
      BY <3>1
    <3> QED
      BY <3>2 DEF after, added
  <2>12. Cardinality(Overlapping') <= graph.budget
    <3> DEFINE after == Cardinality(Overlapping')
               added == Cardinality(new)
    <3>1. /\ after \in Nat /\ added \in Nat /\ held \in Nat /\ after <= held + added
          /\ added <= tri
      BY <1>9, <2>2, <2>11
    <3> HIDE DEF after, added, held, tri, n
    <3>2. after <= graph.budget
      BY <2>2, <2>7, <2>8, <2>9, <2>10, <3>1
    <3> QED
      BY <3>2 DEF after
  <2>13. WidestLeftOut' /\ NoneFits'
    BY <1>3, <2>1, <2>12 DEF WidestLeftOut, NoneFits
  <2> QED
    BY <1>6, <1>7, <1>8, <2>13 DEF GraphInv
<1>11. CASE ~Fits(x)
  <2>1. /\ graph'.excluded = graph.excluded \cup {x} /\ graph'.counted = graph.counted
    BY <1>3, <1>11
  <2>2. Overlapping' = Overlapping
    BY <1>9, <2>1
  <2>3. \A y : Fits(y)' <=> Fits(y)
    BY <1>3, <1>4, <2>2 DEF Fits
  <2>4. NoneFits'
    BY <1>5, <1>11, <2>1, <2>3 DEF NoneFits
  <2>5. \A y \in graph.counted : c(x) >= c(y)
    <3> SUFFICES ASSUME NEW y \in graph.counted PROVE c(x) >= c(y)
      OBVIOUS
    <3>1. Before(y, x)
      BY <1>2, <1>5 DEF NarrowestFirst
    <3>2. c(y) < c(x) \/ c(y) = c(x)
      BY <3>1 DEF Before
    <3>3. c(x) \in Nat /\ c(y) \in Nat
      BY <1>5, CarriersAre
    <3> HIDE DEF c
    <3> QED
      BY <3>2, <3>3
  <2>6. \A e \in graph'.excluded, y \in graph'.counted : c(e) >= c(y)
    BY <1>5, <2>1, <2>5 DEF WidestLeftOut
  <2>7. \A e \in graph'.excluded, y \in graph'.counted :
           Cardinality(Carriers(e))' >= Cardinality(Carriers(y))'
    BY <1>4, <2>6
  <2>8. WidestLeftOut'
    BY <1>3, <1>5, <2>2, <2>7 DEF WidestLeftOut
  <2> QED
    BY <1>6, <1>7, <1>8, <2>4, <2>8 DEF GraphInv
<1> QED
  BY <1>10, <1>11

\* The sets a graph is built from belong to images and hold items.
LEMMA SetsAre ==
  ASSUME ScanInv, ContentInv, fetch.step = "fetched", NEW view
  PROVE  /\ DOMAIN Sets(view) \subseteq Imgs
         /\ \A n \in DOMAIN Sets(view) : ItemSet(Sets(view)[n])
<1>1. /\ observed \in [Imgs -> Contents \cup {None}]
      /\ \A n \in Imgs : ItemSet(packages[n])
  BY DEF ContentInv
<1>2. CASE view = "packages"
  <2>1. Sets(view) = [n \in {m \in Imgs : packages[m] # {}} |-> packages[n]]
    BY <1>2 DEF Sets
  <2> QED
    BY <1>1, <2>1
<1>3. CASE view # "packages"
  <2>1. Sets(view) = [n \in Imgs |-> IF observed[n] = None THEN {} ELSE LayersOf[observed[n]]]
    BY <1>3 DEF Sets
  <2>2. ItemSet({})
    BY FS_EmptySet DEF ItemSet
  <2>3. \A c \in Contents : ItemSet(LayersOf[c])
    BY ItemsType DEF ItemSet
  <2> QED
    BY <1>1, <2>1, <2>2, <2>3
<1> QED
  BY <1>2, <1>3

\* A graph begun anew has compared nothing, whatever was reported of the last
\* one.
LEMMA BuildKeeps ==
  ASSUME ScanInv, ContentInv, GraphInv,
         NEW view, NEW budget \in Budgets, Build(view, budget)
  PROVE  GraphInv'
<1> DEFINE sets == Sets(view)
           items == UNION {sets[n] : n \in DOMAIN sets}
<1>1. /\ fetch.step = "fetched" /\ graph.step = "idle" /\ UNCHANGED <<inventory, fetch>>
      /\ graph' = [graph EXCEPT !.step = "compare", !.view = view,
            !.budget = budget, !.sets = sets,
            !.identical = IF view = "layers" THEN Identical(sets) ELSE {},
            !.todo = items]
  BY DEF Build, inventoryVars, scanning
<1>2. GraphTypes /\ Compared
  BY DEF GraphInv
<1>3. /\ DOMAIN sets \subseteq Imgs /\ \A n \in DOMAIN sets : ItemSet(sets[n])
  BY <1>1, SetsAre
<1> HIDE DEF sets
<1>4. /\ GraphFields'
      /\ graph'.step = "compare" /\ graph'.budget = budget /\ graph'.sets = sets
      /\ graph'.todo = items
      /\ graph'.counted = {} /\ graph'.excluded = {}
  <2>1. GraphFields /\ graph.counted = {} /\ graph.excluded = {}
    BY <1>1, <1>2 DEF GraphTypes, Compared
  <2> HIDE DEF items
  <2> QED
    BY <1>1, <2>1 DEF GraphFields
<1>5. ItemSet(items)
  <2>1. IsFiniteSet(DOMAIN sets)
    <3>1. IsFiniteSet(Imgs)
      BY ImagesAre
    <3> QED
      BY <1>3, <3>1, FS_Subset
  <2> DEFINE some == {sets[n] : n \in DOMAIN sets}
             f == [n \in DOMAIN sets |-> sets[n]]
  <2>2. f \in Surjection(DOMAIN sets, some)
    BY DEF Surjection
  <2>3. \A S \in some : ItemSet(S)
    BY <1>3
  <2>4. items = UNION some
    OBVIOUS
  <2> HIDE DEF f, some, items
  <2>5. IsFiniteSet(some)
    BY <2>1, <2>2, FS_Surjection
  <2>6. IsFiniteSet(UNION some)
    BY <2>3, <2>5, FS_UNION DEF ItemSet
  <2>7. UNION some \subseteq Nat
    BY <2>3 DEF ItemSet
  <2> QED
    BY <2>4, <2>6, <2>7 DEF ItemSet
<1>6. Items' = items
  BY <1>4 DEF Items
<1>7. GraphTypes'
  <2>1. Imgs' = Imgs
    BY <1>1 DEF Imgs
  <2>2. budget \in Nat
    BY LimitsType
  <2>3. ItemSet({})
    BY FS_EmptySet DEF ItemSet
  <2> HIDE DEF items
  <2> QED
    BY <1>3, <1>4, <1>5, <2>1, <2>2, <2>3 DEF GraphTypes
<1> HIDE DEF items
<1>8. Compared' /\ NarrowestFirst' /\ NoneFits'
  BY <1>1, <1>4, <1>6 DEF Compared, NarrowestFirst, NoneFits
<1>9. Overlapping' = {}
  <2>1. \A p : Overlap(p)' = 0
    BY <1>4, FS_EmptySet DEF Overlap
  <2> QED
    BY <2>1 DEF Overlapping
<1>10. WidestLeftOut'
  <2>1. Cardinality(Overlapping') = 0
    BY <1>9, FS_EmptySet
  <2>2. budget >= 0
    BY LimitsType
  <2> QED
    BY <1>4, <2>1, <2>2 DEF WidestLeftOut
<1> QED
  BY <1>7, <1>8, <1>10 DEF GraphInv

\* Nothing else than the comparison changes what it is about.
LEMMA GraphSame ==
  ASSUME ScanInv, ContentInv, GraphInv, [Next]_vars,
         graph' = [graph EXCEPT !.step = graph'.step, !.pairs = graph'.pairs,
                                !.clusters = graph'.clusters],
         graph'.step \in {"idle", "compare", "done"},
         graph'.step = "idle" <=> graph.step = "idle",
         graph.step # "idle" => fetch' = fetch
  PROVE  GraphInv'
<1>1. GraphTypes /\ Compared /\ NarrowestFirst /\ NoneFits /\ WidestLeftOut
  BY DEF GraphInv
<1>2. /\ GraphFields'
      /\ graph'.budget = graph.budget /\ graph'.sets = graph.sets
      /\ graph'.todo = graph.todo /\ graph'.counted = graph.counted
      /\ graph'.excluded = graph.excluded
  <2>1. GraphFields
    BY <1>1 DEF GraphTypes
  <2> DEFINE step == graph'.step
             pairs == graph'.pairs
             clusters == graph'.clusters
  <2>2. graph' = [graph EXCEPT !.step = step, !.pairs = pairs, !.clusters = clusters]
    OBVIOUS
  <2> HIDE DEF step, pairs, clusters
  <2> QED
    BY <2>1, <2>2 DEF GraphFields
<1>3. DOMAIN graph.sets \subseteq Imgs'
  <2>1. CASE graph.step = "idle"
    BY <1>1, <2>1 DEF Compared
  <2>2. CASE graph.step # "idle"
    <3>1. scan.step = "imported"
      BY <1>1, <2>2 DEF Compared, ContentInv
    <3>2. inventory' = inventory
      BY <3>1, ImagesStay
    <3> QED
      BY <1>1, <3>2 DEF GraphTypes, Imgs
  <2> QED
    BY <2>1, <2>2
<1>4. GraphTypes'
  BY <1>1, <1>2, <1>3 DEF GraphTypes
<1>5. Items' = Items
  BY <1>2 DEF Items
<1>6. Compared'
  BY <1>1, <1>2, <1>5 DEF Compared
<1>7. /\ \A y : Carriers(y)' = Carriers(y)
      /\ \A y, z : Before(y, z)' <=> Before(y, z)
  BY <1>2 DEF Carriers, Before
<1>8. Overlapping' = Overlapping
  <2>1. \A p : Overlap(p)' = Overlap(p)
    BY <1>2, <1>7 DEF Overlap
  <2> QED
    BY <1>2, <2>1 DEF Overlapping
<1>9. NarrowestFirst' /\ NoneFits' /\ WidestLeftOut'
  BY <1>1, <1>2, <1>7, <1>8 DEF NarrowestFirst, NoneFits, Fits, WidestLeftOut
<1> QED
  BY <1>4, <1>6, <1>9 DEF GraphInv

\* There is no graph at the start.
LEMMA GraphInvInit == Init => GraphInv
<1> SUFFICES ASSUME Init PROVE GraphInv
  OBVIOUS
<1>1. /\ GraphFields /\ graph.step = "idle" /\ graph.budget = 0 /\ graph.sets = <<>>
      /\ graph.todo = {} /\ graph.counted = {} /\ graph.excluded = {}
      /\ DOMAIN graph.sets = {}
  BY DEF Init, GraphFields
<1>2. Items = {}
  BY <1>1 DEF Items
<1>3. ItemSet({})
  BY FS_EmptySet DEF ItemSet
<1>4. GraphTypes /\ Compared /\ NarrowestFirst /\ NoneFits
  BY <1>1, <1>2, <1>3 DEF GraphTypes, Compared, NarrowestFirst, NoneFits
<1>5. \A p : Overlap(p) = 0
  BY <1>1, FS_EmptySet DEF Overlap
<1>6. Overlapping = {} /\ Cardinality(Overlapping) = 0
  BY <1>5, FS_EmptySet DEF Overlapping
<1> QED
  BY <1>1, <1>4, <1>6 DEF GraphInv, WidestLeftOut

\* Every step keeps the graph's invariant.
LEMMA GraphStep ==
  ScanInv /\ ContentInv /\ GraphInv /\ [Next]_vars => GraphInv'
<1> SUFFICES ASSUME ScanInv, ContentInv, GraphInv, [Next]_vars PROVE GraphInv'
  OBVIOUS
<1>1. ASSUME NEW view \in {"layers", "packages"}, NEW budget \in Budgets, Build(view, budget)
      PROVE  GraphInv'
  BY <1>1, BuildKeeps
<1>2. CASE CompareItem
  BY <1>2, CompareKeeps
<1>3. CASE Report
  <2>1. /\ graph.step = "compare" /\ fetch' = fetch
        /\ graph' = [graph EXCEPT !.step = "done", !.pairs = Capped(Pairs),
              !.clusters = IF graph.view = "layers" THEN Clusters(Pairs) ELSE {}]
    BY <1>3 DEF Report
  <2>2. GraphFields
    BY DEF GraphInv, GraphTypes
  <2> DEFINE pairs == Capped(Pairs)
             clusters == IF graph.view = "layers" THEN Clusters(Pairs) ELSE {}
  <2>3. graph' = [graph EXCEPT !.step = "done", !.pairs = pairs, !.clusters = clusters]
    BY <2>1
  <2> HIDE DEF pairs, clusters
  <2>4. graph'.step = "done" /\ graph'.pairs = pairs /\ graph'.clusters = clusters
    BY <2>2, <2>3 DEF GraphFields
  <2>5. graph' = [graph EXCEPT !.step = graph'.step, !.pairs = graph'.pairs,
                               !.clusters = graph'.clusters]
    BY <2>3, <2>4
  <2> QED
    BY <2>1, <2>4, <2>5, GraphSame
<1>4. CASE graph' = graph
  <2>1. /\ GraphFields /\ graph.step \in {"idle", "compare", "done"}
        /\ graph.step # "idle" => fetch.step = "fetched"
    BY DEF GraphInv, GraphTypes, Compared
  <2>2. graph' = [graph EXCEPT !.step = graph'.step, !.pairs = graph'.pairs,
                               !.clusters = graph'.clusters]
    <3>1. graph = [graph EXCEPT !.step = graph.step, !.pairs = graph.pairs,
                                !.clusters = graph.clusters]
      BY <2>1 DEF GraphFields
    <3> QED
      BY <1>4, <3>1
  <2>3. fetch.step = "fetched" => fetch' = fetch
    BY DEF Next, vars, contentVars, Observe, Queue, FetchNothing, FoldIn, Take, Fetch,
           FetchFails, Answers, Build, CompareItem, Report, ContentInv
  <2> QED
    BY <1>4, <2>1, <2>2, <2>3, GraphSame
<1>5. \/ \E view \in {"layers", "packages"}, budget \in Budgets : Build(view, budget)
      \/ CompareItem \/ Report \/ graph' = graph
  BY DEF Next, vars, contentVars, Observe, Queue, FetchNothing, FoldIn, Take, Fetch,
         FetchFails, Answers
<1> QED
  BY <1>1, <1>2, <1>3, <1>4, <1>5

\* The graph's invariant holds in every behaviour.
LEMMA GraphHolds == Spec => []GraphInv
<1>1. ScanInv /\ ContentInv /\ GraphInv /\ [Next]_vars => GraphInv'
  BY GraphStep
<1> QED
  BY <1>1, GraphInvInit, ScanInvHolds, ContentHolds, PTL DEF Spec

\* The pairs held stay within the budget although what an item adds is counted
\* before it is known which of its pairs are there already, and what is left out
\* is as wide as everything counted: items are taken narrowest first, and once
\* one does not fit, no later one does.
THEOREM WidestIsLeftOut == Spec => []WidestLeftOut
BY GraphHolds, PTL DEF GraphInv

(* What is reported.                                                       *)

\* Two images that are in the order of their references.
LEMMA RefsTotal ==
  ASSUME ScanInv, NEW m \in Imgs, NEW n \in Imgs
  PROVE  /\ ~RefBefore(inventory[m], inventory[m])
         /\ m # n => RefBefore(inventory[m], inventory[n]) \/ RefBefore(inventory[n], inventory[m])
         /\ \A k \in Imgs : RefBefore(inventory[m], inventory[n]) /\ RefBefore(inventory[n], inventory[k])
                              => RefBefore(inventory[m], inventory[k])
<1>1. /\ \A k \in Imgs : inventory[k].repo \in Nat /\ inventory[k].tag \in Nat
      /\ inventory[m].repo = inventory[n].repo /\ inventory[m].tag = inventory[n].tag => m = n
  <2>1. Repos \subseteq Nat /\ Tags \subseteq Nat
    BY NamesType DEF Repos, Tags
  <2> QED
    BY <2>1, ImagesAre
<1> QED
  BY <1>1 DEF RefBefore

\* A pair is its two images.
LEMMA PairIs ==
  ASSUME ScanInv, NEW p \in PairsOf(Imgs)
  PROVE  A(p) \in Imgs /\ B(p) \in Imgs /\ A(p) # B(p) /\ p = {A(p), B(p)}
<1>1. p \in SUBSET Imgs /\ Cardinality(p) = 2
  BY DEF PairsOf
<1>2. IsFiniteSet(p)
  BY <1>1, ImagesAre, FS_Subset
<1>3. PICK m : m \in p
  <2>1. p # {}
    BY <1>1, FS_EmptySet
  <2> QED
    BY <2>1
<1>4. IsFiniteSet(p \ {m}) /\ Cardinality(p \ {m}) = 1
  <2>1. IsFiniteSet(p \ {m}) /\ Cardinality(p \ {m}) = Cardinality(p) - 1
    BY <1>2, <1>3, FS_RemoveElement
  <2> QED
    BY <1>1, <2>1
<1>5. PICK n : p \ {m} = {n}
  BY <1>4, FS_Singleton
<1>6. p = {m, n} /\ m # n /\ m \in Imgs /\ n \in Imgs
  BY <1>1, <1>3, <1>5
<1>7. \E a \in p : \A b \in p \ {a} : RefBefore(inventory[a], inventory[b])
  <2>1. CASE RefBefore(inventory[m], inventory[n])
    BY <1>6, <2>1
  <2>2. CASE RefBefore(inventory[n], inventory[m])
    BY <1>6, <2>2
  <2> QED
    BY <1>6, <2>1, <2>2, RefsTotal
<1>8. A(p) \in p
  BY <1>7 DEF A
<1>9. \E b \in p : b # A(p)
  BY <1>6
<1>10. B(p) \in p /\ B(p) # A(p)
  BY <1>9 DEF B
<1> QED
  BY <1>6, <1>8, <1>10

\* A percentage, rounded, is at least that of the limit exactly when the share
\* is, to within half a percent.
LEMMA PercentIs ==
  ASSUME NEW part \in Nat, NEW whole \in Nat, whole > 0, NEW limit \in Nat
  PROVE  /\ Percent(part, whole) \in Int
         /\ Percent(part, whole) >= limit <=> 2 * 100 * part + whole >= 2 * limit * whole
<1> DEFINE x == 200 * part + whole
           y == 2 * whole
           q == x \div y
           r == x % y
<1>1. x \in Nat /\ y \in Nat /\ y > 0
  OBVIOUS
<1>2. q \in Int /\ r \in Int /\ x = y * q + r /\ 0 <= r /\ r < y
  <2> HIDE DEF x, y
  <2> QED
    BY <1>1
<1>3. q >= limit <=> x >= y * limit
  <2> HIDE DEF x, y, q, r
  <2>1. ASSUME q >= limit PROVE x >= y * limit
    <3>1. y * (q - limit) >= 0
      <4>1. q - limit \in Nat
        BY <1>2, <2>1
      <4> DEFINE d == q - limit
      <4> HIDE DEF d
      <4>2. y * d \in Nat
        BY <1>1, <4>1 DEF d
      <4> QED
        BY <4>2 DEF d
    <3>2. y * q = y * limit + y * (q - limit)
      BY <1>1, <1>2
    <3> QED
      BY <1>1, <1>2, <3>1, <3>2
  <2>2. ASSUME ~(q >= limit) PROVE ~(x >= y * limit)
    <3>1. limit - q - 1 \in Nat
      BY <1>2, <2>2
    <3> DEFINE d == limit - q - 1
    <3>2. y * limit = y * q + y + y * d
      BY <1>1, <1>2
    <3>3. y * d \in Nat
      <4> HIDE DEF d
      <4> QED
        BY <1>1, <3>1 DEF d
    <3> HIDE DEF d
    <3> DEFINE yd == y * d
               yq == y * q
               yl == y * limit
    <3>4. yd \in Nat /\ yq \in Int /\ yl \in Int /\ yl = yq + y + yd /\ x = yq + r
      BY <1>1, <1>2, <3>2, <3>3
    <3> HIDE DEF yd, yq, yl
    <3>5. x < yl
      BY <1>1, <1>2, <3>4
    <3> QED
      BY <1>1, <3>4, <3>5 DEF yl
  <2> QED
    BY <2>1, <2>2
<1>4. Percent(part, whole) = q
  BY DEF Percent
<1>5. x = 2 * 100 * part + whole /\ y * limit = 2 * limit * whole
  OBVIOUS
<1> HIDE DEF x, y, q
<1> QED
  BY <1>2, <1>3, <1>4, <1>5

AllCompared == graph.todo = {}

\* The similarity of a pair is that of what is counted of its two images.
LEMMA AlikeIs ==
  ASSUME ScanInv, GraphInv, AllCompared, NEW p \in PairsOf(DOMAIN graph.sets)
  PROVE  /\ Jaccard(p) \in Int
         /\ Alike(p) <=> p \in Overlapping /\ Jaccard(p) >= MinSimilarity
<1> DEFINE E(n) == graph.sets[n] \ graph.excluded
           both == {x \in graph.counted : p \subseteq Carriers(x)}
           a == A(p)
           b == B(p)
           any == E(a) \cup E(b)
<1>1. /\ DOMAIN graph.sets \subseteq Imgs
      /\ \A n \in DOMAIN graph.sets : ItemSet(graph.sets[n])
      /\ graph.counted \cup graph.excluded = Items
      /\ graph.counted \cap graph.excluded = {}
      /\ ItemSet(graph.counted)
  BY DEF GraphInv, GraphTypes, Compared, AllCompared
<1>2. a \in DOMAIN graph.sets /\ b \in DOMAIN graph.sets /\ p = {a, b} /\ a # b
  <2>1. p \in PairsOf(Imgs) /\ p \in SUBSET DOMAIN graph.sets
    BY <1>1 DEF PairsOf
  <2>2. A(p) \in Imgs /\ B(p) \in Imgs /\ A(p) # B(p) /\ p = {A(p), B(p)}
    BY <2>1, PairIs
  <2> QED
    BY <2>1, <2>2
<1> HIDE DEF a, b
<1>3. E(a) \subseteq graph.counted /\ E(b) \subseteq graph.counted
  BY <1>1, <1>2 DEF Items
<1>4. both = E(a) \cap E(b)
  <2>1. \A x : p \subseteq Carriers(x) <=> x \in graph.sets[a] /\ x \in graph.sets[b]
    BY <1>2 DEF Carriers
  <2> QED
    BY <1>1, <1>3, <2>1
<1>5. IsFiniteSet(E(a)) /\ IsFiniteSet(E(b))
  BY <1>1, <1>2, FS_Difference DEF ItemSet
<1>6. /\ IsFiniteSet(any) /\ IsFiniteSet(both)
      /\ Cardinality(any) = Cardinality(E(a)) + Cardinality(E(b)) - Cardinality(both)
  <2> DEFINE ea == E(a)
             eb == E(b)
  <2>1. IsFiniteSet(ea) /\ IsFiniteSet(eb) /\ any = ea \cup eb /\ both = ea \cap eb
    BY <1>4, <1>5
  <2> HIDE DEF ea, eb, any, both
  <2>2. /\ IsFiniteSet(any) /\ IsFiniteSet(both)
        /\ Cardinality(any) = Cardinality(ea) + Cardinality(eb) - Cardinality(both)
    BY <2>1, FS_Union, FS_Intersection
  <2> QED
    BY <2>2 DEF ea, eb
<1>7. both \subseteq any /\ both \subseteq graph.counted
  BY <1>4
<1>8. Overlap(p) = Cardinality(both)
  BY DEF Overlap
<1>9. p \in Overlapping <=> both # {}
  BY OverlappingAre DEF GraphInv, OverlappingKnown
<1>10. Alike(p) <=> any # {} /\ 2 * 100 * Cardinality(both) + Cardinality(any)
                        >= 2 * MinSimilarity * Cardinality(any) /\ both # {}
  <2> DEFINE sets == [n \in p |-> graph.sets[n] \ graph.excluded]
             common == {x \in graph.counted : \A n \in p : x \in sets[n]}
             either == {x \in UNION {graph.sets[n] : n \in p} : x \notin graph.excluded}
  <2>1. common = both
    <3>1. \A x : (\A n \in p : x \in sets[n]) <=> x \in E(a) /\ x \in E(b)
      BY <1>2
    <3> QED
      BY <1>3, <1>4, <3>1
  <2>2. either = any
    <3>1. \A x : x \in UNION {graph.sets[n] : n \in p} <=> x \in graph.sets[a] \/ x \in graph.sets[b]
      BY <1>2
    <3> QED
      BY <3>1
  <2>3. Alike(p) <=> either # {} /\ 2 * 100 * Cardinality(common) + Cardinality(either)
                        >= 2 * MinSimilarity * Cardinality(either) /\ common # {}
    BY DEF Alike
  <2> HIDE DEF common, either, both, any
  <2> QED
    BY <2>1, <2>2, <2>3
<1>11. Jaccard(p) = IF Cardinality(any) > 0
                    THEN Percent(Cardinality(both), Cardinality(any)) ELSE 0
  <2>1. Effective(A(p)) + Effective(B(p)) - Overlap(p) = Cardinality(any)
    BY <1>6, <1>8 DEF Effective, a, b
  <2> HIDE DEF any, both
  <2> QED
    BY <1>8, <2>1 DEF Jaccard
<1> HIDE DEF any, both, E
<1>12. /\ Cardinality(any) \in Nat /\ Cardinality(both) \in Nat
       /\ Cardinality(any) = 0 <=> any = {}
  BY <1>6, FS_CardinalityType, FS_EmptySet
<1>13. MinSimilarity \in Nat
  BY LimitsType
<1>14. CASE any = {}
  <2>1. both = {} /\ ~(Cardinality(any) > 0)
    BY <1>7, <1>12, <1>14
  <2>2. Jaccard(p) = 0
    BY <1>11, <2>1
  <2> QED
    BY <1>9, <1>10, <2>1, <2>2
<1>15. CASE any # {}
  <2>1. Cardinality(any) > 0
    BY <1>12, <1>15
  <2>2. Jaccard(p) = Percent(Cardinality(both), Cardinality(any))
    BY <1>11, <2>1
  <2>3. /\ Jaccard(p) \in Int
        /\ Jaccard(p) >= MinSimilarity <=>
              2 * 100 * Cardinality(both) + Cardinality(any) >= 2 * MinSimilarity * Cardinality(any)
    BY <1>12, <1>13, <2>1, <2>2, PercentIs
  <2> QED
    BY <1>9, <1>10, <1>15, <2>3
<1> QED
  BY <1>14, <1>15

\* No two pairs are as close as each other once their references are looked at.
LEMMA CloserOrders ==
  ASSUME ScanInv, GraphInv, AllCompared,
         NEW S \in SUBSET PairsOf(DOMAIN graph.sets)
  PROVE  StrictOrder(S, {pair \in S \X S : Closer(pair[1], pair[2])})
<1> DEFINE before == {pair \in S \X S : Closer(pair[1], pair[2])}
           less == {pair \in Imgs \X Imgs : RefBefore(inventory[pair[1]], inventory[pair[2]])}
           j == [p \in S |-> Jaccard(p)]
           o == [p \in S |-> Overlap(p)]
           a == [p \in S |-> A(p)]
           b == [p \in S |-> B(p)]
<1>1. S \in SUBSET PairsOf(Imgs)
  BY DEF PairsOf, GraphInv, GraphTypes
<1>2. \A p \in S : /\ a[p] \in Imgs /\ b[p] \in Imgs /\ p = {a[p], b[p]}
                   /\ j[p] \in Int /\ o[p] \in Nat
  BY <1>1, PairIs, AlikeIs, OverlappingAre DEF GraphInv, OverlappingKnown
<1>3. \A m, n \in Imgs : <<m, n>> \in less <=> RefBefore(inventory[m], inventory[n])
  OBVIOUS
<1> DEFINE more == {p \in S \X S : Jaccard(p[1]) > Jaccard(p[2])}
           wider == {p \in S \X S : graph.view = "layers" /\ Overlap(p[1]) > Overlap(p[2])}
           first(p, q) == <<a[p], a[q]>> \in less \/ (a[p] = a[q] /\ <<b[p], b[q]>> \in less)
<1>4. ASSUME NEW p \in S, NEW q \in S
      PROVE  <<p, q>> \in before <=>
        \/ <<p, q>> \in more
        \/ /\ j[p] = j[q]
           /\ \/ <<p, q>> \in wider
              \/ (graph.view = "layers" => o[p] = o[q]) /\ first(p, q)
  <2>1. <<p, q>> \in before <=> Closer(p, q)
    OBVIOUS
  <2>2. /\ <<p, q>> \in more <=> Jaccard(p) > Jaccard(q)
        /\ <<p, q>> \in wider <=> graph.view = "layers" /\ Overlap(p) > Overlap(q)
    OBVIOUS
  <2>3. /\ RefBefore(inventory[A(p)], inventory[A(q)]) <=> <<a[p], a[q]>> \in less
        /\ RefBefore(inventory[B(p)], inventory[B(q)]) <=> <<b[p], b[q]>> \in less
    BY <1>2, <1>3
  <2>4. /\ j[p] = Jaccard(p) /\ o[p] = Overlap(p) /\ a[p] = A(p) /\ b[p] = B(p)
        /\ j[q] = Jaccard(q) /\ o[q] = Overlap(q) /\ a[q] = A(q) /\ b[q] = B(q)
    OBVIOUS
  <2> HIDE DEF before, less, j, o, a, b, more, wider
  <2>5. Closer(p, q) <=>
          \/ <<p, q>> \in more
          \/ /\ Jaccard(p) = Jaccard(q)
             /\ \/ <<p, q>> \in wider
                \/ /\ graph.view = "layers" => Overlap(p) = Overlap(q)
                   /\ first(p, q)
    <3>1. first(p, q) <=> \/ RefBefore(inventory[A(p)], inventory[A(q)])
                          \/ A(p) = A(q) /\ RefBefore(inventory[B(p)], inventory[B(q)])
      BY <2>3, <2>4
    <3> HIDE DEF first
    <3> QED
      BY <2>2, <3>1, Zenon DEF Closer
  <2> HIDE DEF first
  <2> QED
    BY <2>1, <2>4, <2>5
<1>41. ASSUME NEW p \in S, NEW q \in S
       PROVE  /\ <<p, q>> \in more <=> j[p] > j[q]
              /\ <<p, q>> \in wider <=> graph.view = "layers" /\ o[p] > o[q]
  OBVIOUS
<1>5. /\ \A m \in Imgs : <<m, m>> \notin less
      /\ \A m, n \in Imgs : m # n => <<m, n>> \in less \/ <<n, m>> \in less
      /\ \A m, n, k \in Imgs : <<m, n>> \in less /\ <<n, k>> \in less => <<m, k>> \in less
  BY <1>3, RefsTotal
<1> HIDE DEF before, less, j, o, a, b, more, wider
<1>6. /\ \A p \in S : <<p, p>> \notin more /\ <<p, p>> \notin wider
      /\ \A p, q \in S : j[p] = j[q] \/ <<p, q>> \in more \/ <<q, p>> \in more
      /\ \A p, q \in S : graph.view = "layers" =>
            o[p] = o[q] \/ <<p, q>> \in wider \/ <<q, p>> \in wider
      /\ \A p, q \in S : <<p, q>> \in more => j[p] # j[q]
      /\ \A p, q \in S : <<p, q>> \in wider => o[p] # o[q] /\ graph.view = "layers"
  BY <1>2, <1>41
<1>7. /\ \A p, q, r \in S : <<p, q>> \in more /\ <<q, r>> \in more => <<p, r>> \in more
      /\ \A p, q, r \in S : <<p, q>> \in wider /\ <<q, r>> \in wider => <<p, r>> \in wider
      /\ \A p, q, r \in S : <<p, q>> \in more /\ j[q] = j[r] => <<p, r>> \in more
      /\ \A p, q, r \in S : j[p] = j[q] /\ <<q, r>> \in more => <<p, r>> \in more
      /\ \A p, q, r \in S : <<p, q>> \in wider /\ o[q] = o[r] => <<p, r>> \in wider
      /\ \A p, q, r \in S : o[p] = o[q] /\ <<q, r>> \in wider => <<p, r>> \in wider
  BY <1>2, <1>41
<1>8. /\ \A p \in S : ~first(p, p)
      /\ \A p, q \in S : p # q => first(p, q) \/ first(q, p)
      /\ \A p, q, r \in S : first(p, q) /\ first(q, r) => first(p, r)
  <2>1. \A p, q \in S : p # q => a[p] # a[q] \/ b[p] # b[q]
    BY <1>2
  <2>2. \A p \in S : a[p] \in Imgs /\ b[p] \in Imgs
    BY <1>2
  <2> QED
    BY <1>5, <2>1, <2>2
<1> HIDE DEF first
<1>9. ASSUME NEW p \in S PROVE <<p, p>> \notin before
  BY <1>4, <1>6, <1>8
<1>10. ASSUME NEW p \in S, NEW q \in S, p # q PROVE <<p, q>> \in before \/ <<q, p>> \in before
  BY <1>4, <1>6, <1>8, <1>10
<1>11. ASSUME NEW p \in S, NEW q \in S, NEW r \in S, <<p, q>> \in before, <<q, r>> \in before
       PROVE  <<p, r>> \in before
  <2>1. CASE <<p, q>> \in more
    <3>1. <<q, r>> \in more \/ j[q] = j[r]
      BY <1>4, <1>11
    <3>2. <<p, r>> \in more
      BY <1>7, <2>1, <3>1
    <3> QED
      BY <1>4, <3>2
  <2>2. CASE j[p] = j[q] /\ <<q, r>> \in more
    <3>1. <<p, r>> \in more
      BY <1>7, <2>2
    <3> QED
      BY <1>4, <3>1
  <2>3. CASE j[p] = j[q] /\ j[q] = j[r]
    <3>1. /\ \/ <<p, q>> \in wider
             \/ (graph.view = "layers" => o[p] = o[q]) /\ first(p, q)
          /\ \/ <<q, r>> \in wider
             \/ (graph.view = "layers" => o[q] = o[r]) /\ first(q, r)
      BY <1>4, <1>6, <1>11, <2>3
    <3>2. \/ <<p, r>> \in wider
          \/ (graph.view = "layers" => o[p] = o[r]) /\ first(p, r)
      BY <1>6, <1>7, <1>8, <3>1
    <3> QED
      BY <1>4, <2>3, <3>2
  <2>4. \/ <<p, q>> \in more
        \/ j[p] = j[q] /\ <<q, r>> \in more
        \/ j[p] = j[q] /\ j[q] = j[r]
    BY <1>4, <1>11
  <2> QED
    BY <2>1, <2>2, <2>3, <2>4
<1>12. StrictOrder(S, before)
  BY <1>9, <1>10, <1>11 DEF StrictOrder
<1> QED
  BY <1>12 DEF before

Close == {p \in Overlapping : Jaccard(p) >= MinSimilarity}

\* All pairs that are close enough are listed, and only those.
LEMMA PairsListed ==
  ASSUME ScanInv, GraphInv, AllCompared
  PROVE  LET n == Cardinality(Close)
         IN  /\ n \in Nat /\ Pairs \in [1..n -> Close]
             /\ \A p \in Close : \E k \in 1..n : Pairs[k] = p
<1> DEFINE before == {pair \in Close \X Close : Closer(pair[1], pair[2])}
           n == Cardinality(Close)
           s == InOrder(Close, before)
<1>1. Close \in SUBSET PairsOf(DOMAIN graph.sets) /\ IsFiniteSet(Close)
  <2>1. Close \subseteq Overlapping /\ Overlapping \subseteq PairsOf(DOMAIN graph.sets)
    BY DEF Close, Overlapping
  <2>2. IsFiniteSet(Overlapping)
    BY OverlappingAre DEF GraphInv, OverlappingKnown
  <2> QED
    BY <2>1, <2>2, FS_Subset
<1>2. StrictOrder(Close, before)
  BY <1>1, CloserOrders
<1>3. Pairs = s
  BY DEF Pairs, Close
<1> HIDE DEF before
<1>4. /\ n \in Nat /\ s \in [1..n -> Close]
      /\ \A x \in Close : \E k \in 1..n : s[k] = x
  <2> HIDE DEF s, n
  <2> QED
    BY <1>1, <1>2, InOrderIs DEF s, n
<1> QED
  BY <1>3, <1>4

\* The cap keeps pairs from the front, and all of them when they are fewer
\* than the cap.
LEMMA CappedIs ==
  ASSUME NEW S, NEW n \in Nat, NEW s \in [1..n -> S]
  PROVE  /\ Capped(s) \in Seq(S) /\ \A k \in DOMAIN Capped(s) : Capped(s)[k] \in S
         /\ Len(Capped(s)) < MaxPairs =>
               \A k \in 1..n : k \in DOMAIN Capped(s) /\ Capped(s)[k] = s[k]
<1> DEFINE m == Min({MaxPairs, n})
           c == SubSeq(s, 1, m)
<1>1. s \in Seq(S) /\ Len(s) = n
  OBVIOUS
<1>2. MaxPairs \in Nat
  BY LimitsType
<1>3. m = IF MaxPairs <= n THEN MaxPairs ELSE n
  BY <1>2, MinOfTwo
<1>4. Capped(s) = c
  BY <1>1 DEF Capped
<1> HIDE DEF m
<1>5. m \in Nat /\ m <= n
  BY <1>2, <1>3
<1>6. c \in Seq(S) /\ Len(c) = m /\ DOMAIN c = 1..m /\ \A k \in 1..m : c[k] = s[k]
  BY <1>1, <1>5
<1> HIDE DEF c
<1>7. Len(c) < MaxPairs => m = n
  BY <1>2, <1>3, <1>6
<1> QED
  BY <1>4, <1>6, <1>7

\* A report of a graph scores each pair with the share of its items.
LEMMA ReportScores ==
  ASSUME ScanInv, GraphInv, Report
  PROVE  ScoresAreShares'
<1>1. /\ AllCompared
      /\ graph' = [graph EXCEPT !.step = "done", !.pairs = Capped(Pairs),
            !.clusters = IF graph.view = "layers" THEN Clusters(Pairs) ELSE {}]
  BY DEF Report, AllCompared
<1>2. /\ graph'.pairs = Capped(Pairs) /\ graph'.sets = graph.sets
      /\ graph'.counted = graph.counted /\ graph'.excluded = graph.excluded
  <2>1. GraphFields
    BY DEF GraphInv, GraphTypes
  <2> DEFINE clusters == IF graph.view = "layers" THEN Clusters(Pairs) ELSE {}
  <2>2. graph' = [graph EXCEPT !.step = "done", !.pairs = Capped(Pairs), !.clusters = clusters]
    BY <1>1
  <2> HIDE DEF clusters
  <2> QED
    BY <2>1, <2>2 DEF GraphFields
<1>3. \A p : Alike(p)' <=> Alike(p)
  BY <1>2 DEF Alike
<1>4. \A p : p \in Close <=> p \in PairsOf(DOMAIN graph.sets) /\ Alike(p)
  <2>1. Close \subseteq Overlapping /\ Overlapping \subseteq PairsOf(DOMAIN graph.sets)
    BY DEF Close, Overlapping
  <2>2. \A p \in PairsOf(DOMAIN graph.sets) :
           Alike(p) <=> p \in Overlapping /\ Jaccard(p) >= MinSimilarity
    BY <1>1, AlikeIs
  <2> QED
    BY <2>1, <2>2 DEF Close
<1> DEFINE n == Cardinality(Close)
           s == Pairs
           c == Capped(s)
<1>5. n \in Nat /\ s \in [1..n -> Close] /\ \A p \in Close : \E k \in 1..n : s[k] = p
  BY <1>1, PairsListed
<1> HIDE DEF n, s
<1>6. /\ c \in Seq(Close) /\ \A k \in DOMAIN c : c[k] \in Close
      /\ Len(c) < MaxPairs => \A k \in 1..n : k \in DOMAIN c /\ c[k] = s[k]
  BY <1>5, CappedIs
<1> HIDE DEF c
<1>7. graph'.pairs = c
  BY <1>2 DEF c, s
<1>8. \A k \in DOMAIN graph'.pairs : Alike(graph'.pairs[k])
  BY <1>4, <1>6, <1>7
<1>9. ASSUME Len(graph'.pairs) < MaxPairs, NEW p \in PairsOf(DOMAIN graph.sets), Alike(p)
      PROVE  p \in ToSet(graph'.pairs)
  <2>1. PICK k \in 1..n : s[k] = p
    BY <1>4, <1>5, <1>9
  <2>2. k \in DOMAIN c /\ c[k] = p
    BY <1>6, <1>7, <1>9, <2>1
  <2> QED
    BY <1>7, <2>2 DEF ToSet
<1> QED
  BY <1>2, <1>3, <1>8, <1>9 DEF ScoresAreShares

\* The similarity two images are reported with, which is computed from counts of
\* what is shared and what is in each, is that of their contents without what
\* was left out, and none as close is missing that the cap did not cut off.
THEOREM ReportedAsShared == Spec => []ScoresAreShares
<1>1. Init => ScoresAreShares
  BY DEF Init, ScoresAreShares
<1>2. ScanInv /\ GraphInv /\ ScoresAreShares /\ [Next]_vars => ScoresAreShares'
  <2> SUFFICES ASSUME ScanInv, GraphInv, ScoresAreShares, [Next]_vars PROVE ScoresAreShares'
    OBVIOUS
  <2>1. CASE Report
    BY <2>1, ReportScores
  <2>2. CASE graph' = graph
    <3>1. \A p : Alike(p)' <=> Alike(p)
      BY <2>2 DEF Alike
    <3> QED
      BY <2>2, <3>1 DEF ScoresAreShares
  <2>3. CASE graph'.step = "compare"
    BY <2>3 DEF ScoresAreShares
  <2>4. ASSUME NEW view, NEW budget, Build(view, budget) PROVE graph'.step = "compare"
    BY <2>4 DEF Build, GraphInv, GraphTypes, GraphFields
  <2>5. CompareItem => graph'.step = "compare"
    BY DEF CompareItem, GraphInv, GraphTypes, GraphFields
  <2>6. \/ \E view \in {"layers", "packages"}, budget \in Budgets : Build(view, budget)
        \/ CompareItem \/ Report \/ graph' = graph
    BY DEF Next, vars, contentVars, Observe, Queue, FetchNothing, FoldIn, Take, Fetch,
           FetchFails, Answers
  <2> QED
    BY <2>1, <2>2, <2>3, <2>4, <2>5, <2>6
<1> QED
  BY <1>1, <1>2, ScanInvHolds, GraphHolds, PTL DEF Spec

-----------------------------------------------------------------------------
(* Clusters.                                                               *)

\* Trees of images: each leads up to a root, and to one only.
Leads(parent) ==
    \A S \in (SUBSET Imgs) \ {{}} :
        (\A n \in S : parent[n] \in S) => \E n \in S : parent[n] = n
IsUp(up, parent) == up = [m \in Imgs |-> IF parent[m] = m THEN m ELSE up[parent[m]]]
Rooted(parent) == /\ parent \in [Imgs -> Imgs] /\ Leads(parent)
                  /\ \E up : IsUp(up, parent)
Ups(parent) == CHOOSE up : up = [m \in Imgs |-> IF parent[m] = m THEN m ELSE up[parent[m]]]

\* The root of an image is where following parents from it ends.
LEMMA RootIsUp ==
  ASSUME NEW parent, NEW n \in Imgs
  PROVE  Root(parent, n) = Ups(parent)[n]
BY DEF Root, Ups

\* What agrees with the trees at every image is where they lead.
LEMMA UpIsOne ==
  ASSUME NEW parent, Rooted(parent), NEW f, NEW g, IsUp(f, parent), IsUp(g, parent)
  PROVE  f = g
<1> DEFINE differ == {n \in Imgs : f[n] # g[n]}
<1>1. \A n \in Imgs : /\ f[n] = IF parent[n] = n THEN n ELSE f[parent[n]]
                      /\ g[n] = IF parent[n] = n THEN n ELSE g[parent[n]]
  BY DEF IsUp
<1>2. \A n \in Imgs : parent[n] \in Imgs
  BY DEF Rooted
<1>3. ASSUME NEW n \in differ PROVE parent[n] \in differ /\ parent[n] # n
  BY <1>1, <1>2
<1>4. differ = {}
  <2> HIDE DEF differ
  <2>1. differ \in SUBSET Imgs
    BY DEF differ
  <2> QED
    BY <1>3, <2>1 DEF Rooted, Leads
<1>5. f = [n \in Imgs |-> f[n]] /\ g = [n \in Imgs |-> g[n]]
  BY DEF IsUp
<1>6. \A n \in Imgs : f[n] = g[n]
  BY <1>4
<1> HIDE DEF differ
<1> QED
  BY <1>5, <1>6

\* In a forest the root of an image is its own parent.
LEMMA RootIs ==
  ASSUME NEW parent, Rooted(parent)
  PROVE  /\ IsUp(Ups(parent), parent)
         /\ \A n \in Imgs : /\ Root(parent, n) = Ups(parent)[n]
                            /\ Ups(parent)[n] \in Imgs
                            /\ parent[Ups(parent)[n]] = Ups(parent)[n]
<1> DEFINE up == Ups(parent)
           wrong == {n \in Imgs : ~(up[n] \in Imgs /\ parent[up[n]] = up[n])}
<1>1. PICK u : IsUp(u, parent)
  BY DEF Rooted
<1>2. IsUp(Ups(parent), parent)
  BY <1>1 DEF IsUp, Ups
<1> HIDE DEF up
<1>3. \A n \in Imgs : up[n] = IF parent[n] = n THEN n ELSE up[parent[n]]
  BY <1>2 DEF IsUp, up
<1>4. \A n \in Imgs : parent[n] \in Imgs
  BY DEF Rooted
<1>5. ASSUME NEW n \in wrong PROVE parent[n] \in wrong /\ parent[n] # n
  BY <1>3, <1>4
<1>6. wrong = {}
  <2> HIDE DEF wrong
  <2>1. wrong \in SUBSET Imgs
    BY DEF wrong
  <2> QED
    BY <1>5, <2>1 DEF Rooted, Leads
<1>7. \A n \in Imgs : up[n] \in Imgs /\ parent[up[n]] = up[n]
  BY <1>6
<1> QED
  BY <1>2, <1>7, RootIsUp DEF up

\* Before any pair is joined, each image is its own root.
LEMMA AloneAreRooted ==
  LET alone == [n \in Imgs |-> n]
  IN  Rooted(alone) /\ \A n \in Imgs : Root(alone, n) = n
<1> DEFINE alone == [n \in Imgs |-> n]
<1>1. alone \in [Imgs -> Imgs] /\ \A n \in Imgs : alone[n] = n
  OBVIOUS
<1>2. IsUp(alone, alone)
  <2>1. [m \in Imgs |-> IF alone[m] = m THEN m ELSE alone[alone[m]]] = [m \in Imgs |-> m]
    OBVIOUS
  <2> QED
    BY <2>1 DEF IsUp
<1> HIDE DEF alone
<1>3. Leads(alone)
  BY <1>1 DEF Leads
<1>4. Rooted(alone)
  BY <1>1, <1>2, <1>3 DEF Rooted
<1>5. Ups(alone) = alone
  BY <1>2, <1>4, RootIs, UpIsOne
<1> QED
  BY <1>1, <1>4, <1>5, RootIs DEF alone

\* Joining two roots joins what they are the roots of, and nothing else.
LEMMA JoinedIs ==
  ASSUME NEW parent, Rooted(parent), NEW p, A(p) \in Imgs, B(p) \in Imgs
  PROVE  LET a == Root(parent, A(p))
             b == Root(parent, B(p))
         IN  /\ Rooted(Joined(p, parent))
             /\ \A n \in Imgs : Root(Joined(p, parent), n) =
                                    IF Root(parent, n) = a THEN b ELSE Root(parent, n)
<1> DEFINE up == Ups(parent)
           a == up[A(p)]
           b == up[B(p)]
           joined == [parent EXCEPT ![a] = b]
           g == [n \in Imgs |-> IF up[n] = a THEN b ELSE up[n]]
<1>1. /\ IsUp(up, parent)
      /\ \A n \in Imgs : Root(parent, n) = up[n] /\ up[n] \in Imgs /\ parent[up[n]] = up[n]
  BY RootIs
<1>2. Joined(p, parent) = joined
  BY <1>1 DEF Joined
<1> HIDE DEF up
<1>3. a \in Imgs /\ b \in Imgs /\ parent[a] = a /\ parent[b] = b
  BY <1>1
<1>4. parent \in [Imgs -> Imgs] /\ Leads(parent)
  BY DEF Rooted
<1> HIDE DEF a, b
<1>5. /\ joined \in [Imgs -> Imgs]
      /\ \A n \in Imgs : joined[n] = IF n = a THEN b ELSE parent[n]
  BY <1>3, <1>4
<1>6. \A n \in Imgs : g[n] = IF up[n] = a THEN b ELSE up[n]
  OBVIOUS
<1>7. \A n \in Imgs : up[n] = IF parent[n] = n THEN n ELSE up[parent[n]]
  BY <1>1 DEF IsUp
<1>8. g = [n \in Imgs |-> g[n]]
  OBVIOUS
<1> HIDE DEF joined, g
<1>9. ASSUME NEW n \in Imgs PROVE g[n] = IF joined[n] = n THEN n ELSE g[joined[n]]
  <2>1. parent[n] \in Imgs
    BY <1>4
  <2>2. CASE n = a
    BY <1>3, <1>5, <1>6, <1>7, <2>2
  <2>3. CASE n # a
    <3>1. joined[n] = parent[n]
      BY <1>5, <2>3
    <3>2. CASE parent[n] = n
      BY <1>6, <1>7, <2>3, <3>1, <3>2
    <3>3. CASE parent[n] # n
      BY <1>6, <1>7, <2>1, <3>1, <3>3
    <3> QED
      BY <3>2, <3>3
  <2> QED
    BY <2>2, <2>3
<1>10. IsUp(g, joined)
  BY <1>8, <1>9 DEF IsUp
<1>11. Leads(joined)
  <2> SUFFICES ASSUME NEW S \in (SUBSET Imgs) \ {{}}, \A n \in S : joined[n] \in S,
                      \A n \in S : joined[n] # n
               PROVE  FALSE
    BY DEF Leads
  <2>1. b \notin S
    BY <1>3, <1>5
  <2>2. a \notin S
    BY <1>3, <1>5, <2>1
  <2>3. \A n \in S : parent[n] = joined[n]
    BY <1>5, <2>2
  <2>4. PICK n \in S : parent[n] = n
    BY <1>4, <2>3 DEF Leads
  <2> QED
    BY <2>3, <2>4
<1>12. Rooted(joined)
  BY <1>5, <1>10, <1>11 DEF Rooted
<1>13. \A n \in Imgs : Root(joined, n) = g[n]
  <2>1. Ups(joined) = g
    BY <1>10, <1>12, RootIs, UpIsOne
  <2> QED
    BY <1>12, <2>1, RootIs
<1>14. Root(parent, A(p)) = a /\ Root(parent, B(p)) = b
  BY <1>1 DEF a, b
<1> QED
  BY <1>1, <1>2, <1>6, <1>12, <1>13, <1>14

\* The trees after each pair of a list.
Trees(pairs, n) ==
    CHOOSE parents : parents = [k \in 0..n |->
        IF k = 0 THEN [m \in Imgs |-> m] ELSE Joined(pairs[k], parents[k - 1])]

\* The forest after k pairs is the one after k - 1 with the trees of the k-th
\* pair joined.
LEMMA TreesAre ==
  ASSUME NEW pairs, NEW n \in Nat
  PROVE  \A k \in 0..n : Trees(pairs, n)[k] = IF k = 0 THEN [m \in Imgs |-> m]
                                      ELSE Joined(pairs[k], Trees(pairs, n)[k - 1])
<1> DEFINE Is(f, last) == f = [k \in 0..last |->
               IF k = 0 THEN [m \in Imgs |-> m] ELSE Joined(pairs[k], f[k - 1])]
           none == {k \in Nat : ~\E f : Is(f, k)}
<1>1. none = {}
  <2> SUFFICES ASSUME none # {} PROVE FALSE
    OBVIOUS
  <2>1. none \in SUBSET Nat
    OBVIOUS
  <2>2. PICK x \in none : \A y \in none : x <= y
    <3> HIDE DEF none
    <3> QED
      BY <2>1, LeastExists
  <2>3. x \in Nat /\ ~\E f : Is(f, x)
    BY <2>2
  <2>4. x # 0
    <3> DEFINE f == [k \in 0..0 |-> [m \in Imgs |-> m]]
    <3>1. ASSUME x = 0 PROVE FALSE
      <4>1. Is(f, 0)
        OBVIOUS
      <4> QED
        BY <2>3, <3>1, <4>1
    <3> QED
      BY <3>1
  <2> DEFINE y == x - 1
  <2>5. y \in Nat /\ y + 1 = x /\ ~(x <= y)
    BY <2>3, <2>4
  <2> HIDE DEF y
  <2>6. \E f : Is(f, y)
    <3>1. y \notin none
      BY <2>2, <2>5
    <3> QED
      BY <2>5, <3>1
  <2>7. PICK f : Is(f, y)
    BY <2>6
  <2> DEFINE more == [k \in 0..x |-> IF k = x THEN Joined(pairs[x], f[y]) ELSE f[k]]
             body == [k \in 0..x |->
                         IF k = 0 THEN [m \in Imgs |-> m] ELSE Joined(pairs[k], more[k - 1])]
  <2>8. ASSUME NEW k \in 0..x PROVE more[k] = body[k]
    <3>1. CASE k = x
      <4>1. more[k] = Joined(pairs[x], f[y])
        BY <3>1
      <4>2. k - 1 = y /\ y \in 0..x /\ y # x
        BY <2>3, <2>5, <3>1
      <4>3. more[k - 1] = f[y]
        BY <4>2
      <4>4. body[k] = Joined(pairs[k], more[k - 1])
        BY <2>4, <3>1
      <4> HIDE DEF more, body
      <4> QED
        BY <3>1, <4>1, <4>3, <4>4
    <3>2. CASE k # x
      <4>1. k \in 0..y /\ (k # 0 => k - 1 \in 0..x /\ k - 1 # x)
        BY <2>3, <2>5, <3>2
      <4>2. f[k] = IF k = 0 THEN [m \in Imgs |-> m] ELSE Joined(pairs[k], f[k - 1])
        BY <2>7, <4>1
      <4>3. more[k] = f[k]
        BY <3>2
      <4>4. k # 0 => more[k - 1] = f[k - 1]
        BY <4>1
      <4>5. body[k] = IF k = 0 THEN [m \in Imgs |-> m] ELSE Joined(pairs[k], more[k - 1])
        OBVIOUS
      <4> HIDE DEF more, body
      <4> QED
        BY <4>2, <4>3, <4>4, <4>5
    <3> QED
      BY <3>1, <3>2
  <2>9. more = [k \in 0..x |-> more[k]] /\ body = [k \in 0..x |-> body[k]]
    OBVIOUS
  <2>10. more = body
    <3> HIDE DEF more, body
    <3> QED
      BY <2>8, <2>9
  <2>11. Is(more, x)
    BY <2>10
  <2> HIDE DEF more, Is
  <2> QED
    BY <2>3, <2>11
<1>2. \E f : Is(f, n)
  BY <1>1
<1>3. Is(Trees(pairs, n), n)
  <2>1. PICK f : Is(f, n)
    BY <1>2
  <2> QED
    BY <2>1, Zenon DEF Trees
<1> QED
  BY <1>3

\* What k pairs join: their own images, and nothing that they do not lead to.
Joins(root, pairs, k) ==
    /\ \A j \in 1..k : root[A(pairs[j])] = root[B(pairs[j])]
    /\ \A S \in SUBSET Imgs :
          (\A j \in 1..k : A(pairs[j]) \in S <=> B(pairs[j]) \in S) =>
              \A m \in S, n \in Imgs : root[m] = root[n] => n \in S

\* Images have the same root when, and only when, the pairs taken so far lead
\* from one to the other.
LEMMA TreesJoin ==
  ASSUME NEW n \in Nat, NEW pairs,
         \A j \in 1..n : A(pairs[j]) \in Imgs /\ B(pairs[j]) \in Imgs
  PROVE  LET parent == Trees(pairs, n)[n]
         IN  Rooted(parent) /\ Joins([m \in Imgs |-> Root(parent, m)], pairs, n)
<1> DEFINE tree(k) == Trees(pairs, n)[k]
           root(k) == [m \in Imgs |-> Root(tree(k), m)]
           Good(k) == Rooted(tree(k)) /\ Joins(root(k), pairs, k)
           wrong == {k \in 0..n : ~Good(k)}
<1>1. tree(0) = [m \in Imgs |-> m]
  BY TreesAre
<1>2. ASSUME NEW k \in 1..n PROVE tree(k) = Joined(pairs[k], tree(k - 1))
  <2>1. k \in 0..n /\ k # 0
    OBVIOUS
  <2> QED
    BY <2>1, TreesAre
<1> HIDE DEF tree
<1>3. Good(0)
  <2>1. Rooted(tree(0)) /\ \A m \in Imgs : root(0)[m] = m
    BY <1>1, AloneAreRooted
  <2> HIDE DEF root
  <2> QED
    BY <2>1 DEF Joins
<1>4. ASSUME NEW k \in 1..n, Good(k - 1) PROVE Good(k)
  <2> DEFINE p == pairs[k]
             h == k - 1
             old == root(h)
             new == root(k)
             a == old[A(p)]
             b == old[B(p)]
  <2>1. A(p) \in Imgs /\ B(p) \in Imgs
    OBVIOUS
  <2>2. h \in Nat /\ 1..k = 1..h \cup {k}
    OBVIOUS
  <2>3. Rooted(tree(h)) /\ Joins(old, pairs, h)
    BY <1>4
  <2>4. tree(k) = Joined(p, tree(h))
    BY <1>2
  <2>5. Root(tree(h), A(p)) = a /\ Root(tree(h), B(p)) = b
    BY <2>1
  <2>6. Rooted(tree(k)) /\ \A m \in Imgs : Root(tree(k), m) =
            IF Root(tree(h), m) = a THEN b ELSE Root(tree(h), m)
    <3> HIDE DEF p, h, a, b, old, new, root
    <3> QED
      BY <2>1, <2>3, <2>4, <2>5, JoinedIs
  <2>7. \A m \in Imgs : new[m] = IF old[m] = a THEN b ELSE old[m]
    BY <2>6
  <2>8. a = old[A(p)] /\ b = old[B(p)]
    OBVIOUS
  <2> HIDE DEF old, new, root, a, b, h
  <2>9. \A j \in 1..k : new[A(pairs[j])] = new[B(pairs[j])]
    <3>1. new[A(p)] = new[B(p)]
      BY <2>1, <2>7, <2>8
    <3>2. ASSUME NEW j \in 1..h PROVE new[A(pairs[j])] = new[B(pairs[j])]
      <4>1. A(pairs[j]) \in Imgs /\ B(pairs[j]) \in Imgs
        BY <2>2
      <4>2. old[A(pairs[j])] = old[B(pairs[j])]
        BY <2>3 DEF Joins
      <4> QED
        BY <2>7, <4>1, <4>2
    <3> QED
      BY <2>2, <3>1, <3>2
  <2>10. ASSUME NEW S \in SUBSET Imgs,
                \A j \in 1..k : A(pairs[j]) \in S <=> B(pairs[j]) \in S,
                NEW m \in S, NEW x \in Imgs, new[m] = new[x]
         PROVE  x \in S
    <3>1. \A j \in 1..h : A(pairs[j]) \in S <=> B(pairs[j]) \in S
      BY <2>2, <2>10
    <3>2. \A y \in S, z \in Imgs : old[y] = old[z] => z \in S
      BY <2>3, <3>1 DEF Joins
    <3>3. A(p) \in S <=> B(p) \in S
      BY <2>2, <2>10
    <3>4. A(p) \in Imgs /\ B(p) \in Imgs
      BY <2>1
    <3>5. CASE old[m] = old[x]
      BY <3>2, <3>5
    <3>6. CASE old[m] # old[x]
      <4>1. \/ old[m] = old[A(p)] /\ old[x] = old[B(p)]
            \/ old[x] = old[A(p)] /\ old[m] = old[B(p)]
        BY <2>7, <2>8, <2>10, <3>6
      <4> HIDE DEF p
      <4> QED
        BY <3>2, <3>3, <3>4, <4>1
    <3> QED
      BY <3>5, <3>6
  <2>11. Joins(new, pairs, k)
    BY <2>9, <2>10 DEF Joins
  <2> QED
    BY <2>6, <2>11 DEF new, root
<1>5. wrong = {}
  <2> SUFFICES ASSUME wrong # {} PROVE FALSE
    OBVIOUS
  <2>1. wrong \in SUBSET Nat /\ \A k \in wrong : k \in 0..n /\ ~Good(k)
    OBVIOUS
  <2>2. \A k \in 0..n : k \in wrong \/ Good(k)
    OBVIOUS
  <2> HIDE DEF wrong, Good
  <2>3. PICK k \in wrong : \A j \in wrong : k <= j
    BY <2>1, LeastExists
  <2>4. k \in 1..n
    BY <1>3, <2>1
  <2>5. k - 1 \in 0..n /\ ~(k <= k - 1)
    BY <2>4
  <2>6. Good(k - 1)
    BY <2>2, <2>3, <2>5
  <2> QED
    BY <1>4, <2>1, <2>4, <2>6
<1>6. Good(n)
  BY <1>5
<1> QED
  BY <1>6 DEF tree

\* What is grouped are the images, those of identical layers as they are found.
Grouped ==
    /\ graph.step # "idle" /\ graph.view = "layers" => DOMAIN graph.sets = Imgs
    /\ graph.step # "idle" \/ graph.identical = {}
    /\ \A g \in graph.identical :
          /\ graph.view = "layers" /\ g \in SUBSET DOMAIN graph.sets /\ Cardinality(g) > 1
          /\ \A m, n \in g : graph.sets[m] = graph.sets[n]

\* Two different things are two.
LEMMA PairOfTwo ==
  ASSUME NEW m, NEW n, m # n
  PROVE  IsFiniteSet({m, n}) /\ Cardinality({m, n}) = 2
<1>1. IsFiniteSet({m}) /\ Cardinality({m}) = 1
  BY FS_Singleton
<1>2. {m, n} = {m} \cup {n} /\ n \notin {m}
  OBVIOUS
<1>3. IsFiniteSet({m} \cup {n}) /\ Cardinality({m} \cup {n}) = Cardinality({m}) + 1
  BY <1>1, <1>2, FS_AddElement
<1> QED
  BY <1>1, <1>2, <1>3

\* A set of more than one holds two different things.
LEMMA TwoOf ==
  ASSUME NEW S, IsFiniteSet(S), Cardinality(S) > 1
  PROVE  \E m, n \in S : m # n
<1>1. PICK m : m \in S
  <2>1. S # {}
    BY FS_EmptySet
  <2> QED
    BY <2>1
<1> SUFFICES ASSUME S = {m} PROVE FALSE
  BY <1>1
<1> QED
  BY FS_Singleton

\* Images are in one cluster if, and only if, close pairs lead from one to the
\* other.
LEMMA ClustersAre ==
  ASSUME ScanInv, GraphInv, AllCompared, DOMAIN graph.sets = Imgs
  PROVE  /\ \A m, n \in Imgs : m # n =>
               ((\E c \in Clusters(Pairs) : {m, n} \subseteq c) <=> n \in Reaches(m))
         /\ \A g \in SUBSET Imgs : Cardinality(g) > 1 =>
               ((\A m, n \in g : m # n => Alike({m, n})) => \E c \in Clusters(Pairs) : g \subseteq c)
<1> DEFINE N == Cardinality(Close)
           pairs == Pairs
           parent == Trees(pairs, N)[N]
           root == [m \in Imgs |-> Root(parent, m)]
           with(m) == {n \in Imgs : root[n] = root[m]}
<1>1. N \in Nat /\ pairs \in [1..N -> Close] /\ \A p \in Close : \E k \in 1..N : pairs[k] = p
  BY PairsListed
<1>2. \A p : p \in Close <=> p \in PairsOf(Imgs) /\ Alike(p)
  <2>1. Close \subseteq Overlapping /\ Overlapping \subseteq PairsOf(DOMAIN graph.sets)
    BY DEF Close, Overlapping
  <2>2. \A p \in PairsOf(DOMAIN graph.sets) :
           Alike(p) <=> p \in Overlapping /\ Jaccard(p) >= MinSimilarity
    BY AlikeIs
  <2> QED
    BY <2>1, <2>2 DEF Close
<1>3. \A p \in Close : A(p) \in Imgs /\ B(p) \in Imgs /\ A(p) # B(p) /\ p = {A(p), B(p)}
  BY <1>2, PairIs
<1> HIDE DEF N, pairs
<1>4. Clusters(pairs) = {g \in {{n \in Imgs : Root(parent, n) = r} : r \in Imgs} :
                            Cardinality(g) > 1}
  <2>1. Len(pairs) = N
    BY <1>1
  <2>2. Clusters(pairs) = {g \in {{n \in Imgs : Root(Trees(pairs, Len(pairs))[Len(pairs)], n) = r}
                                     : r \in Imgs} : Cardinality(g) > 1}
    BY DEF Clusters, Trees
  <2> QED
    BY <2>1, <2>2
<1>5. Rooted(parent) /\ Joins(root, pairs, N)
  <2>1. \A j \in 1..N : A(pairs[j]) \in Imgs /\ B(pairs[j]) \in Imgs
    BY <1>1, <1>3
  <2> HIDE DEF parent
  <2> QED
    BY <1>1, <2>1, TreesJoin DEF parent
<1> HIDE DEF parent
<1>6. \A n \in Imgs : root[n] = Root(parent, n) /\ root[n] \in Imgs
  BY <1>5, RootIs
<1> HIDE DEF root
<1>7. ASSUME NEW m \in Imgs, NEW n \in with(m), m # n PROVE with(m) \in Clusters(pairs)
  <2>1. with(m) = {k \in Imgs : Root(parent, k) = root[m]} /\ root[m] \in Imgs
    BY <1>6
  <2>2. Cardinality(with(m)) > 1
    <3>1. {m, n} \subseteq with(m)
      BY <1>7
    <3>2. IsFiniteSet(with(m))
      <4>1. with(m) \in SUBSET Imgs
        OBVIOUS
      <4> QED
        BY <4>1, ImagesAre, FS_Subset
    <3>3. Cardinality({m, n}) = 2
      BY <1>7, PairOfTwo
    <3> DEFINE w == with(m)
    <3> HIDE DEF w, with
    <3>4. Cardinality(w) \in Nat /\ 2 <= Cardinality(w)
      BY <3>1, <3>2, <3>3, FS_Subset, FS_CardinalityType DEF w
    <3> QED
      BY <3>4 DEF w
  <2> HIDE DEF with
  <2> QED
    BY <1>4, <2>1, <2>2
<1>8. ASSUME NEW c \in Clusters(pairs), NEW m \in c, NEW n \in c
      PROVE  m \in Imgs /\ n \in Imgs /\ root[m] = root[n]
  BY <1>4, <1>6
<1>9. ASSUME NEW m \in Imgs, NEW n \in Imgs, m # n, Alike({m, n}) PROVE root[m] = root[n]
  <2>1. {m, n} \in PairsOf(Imgs)
    BY <1>9, PairOfTwo DEF PairsOf
  <2>2. PICK k \in 1..N : pairs[k] = {m, n}
    BY <1>1, <1>2, <1>9, <2>1
  <2>3. root[A(pairs[k])] = root[B(pairs[k])]
    BY <1>5 DEF Joins
  <2>4. /\ A({m, n}) # B({m, n}) /\ {m, n} = {A({m, n}), B({m, n})}
    BY <1>2, <1>3, <1>9, <2>1
  <2> QED
    BY <2>2, <2>3, <2>4
<1>10. ASSUME NEW m \in Imgs, NEW n \in Imgs, m # n, n \in Reaches(m)
       PROVE  \E c \in Clusters(pairs) : {m, n} \subseteq c
  <2>1. Closed(with(m))
    <3> SUFFICES ASSUME NEW x \in with(m), NEW y \in Imgs \ with(m), Alike({x, y}) PROVE FALSE
      BY DEF Closed
    <3>1. x \in Imgs /\ x # y /\ root[x] = root[m] /\ root[y] # root[m]
      OBVIOUS
    <3> QED
      BY <1>9, <3>1
  <2>2. with(m) \in SUBSET Imgs /\ m \in with(m)
    OBVIOUS
  <2>3. n \in with(m)
    BY <1>10, <2>1, <2>2 DEF Reaches
  <2>4. with(m) \in Clusters(pairs)
    BY <1>7, <1>10, <2>3
  <2> QED
    BY <2>2, <2>3, <2>4
<1>11. ASSUME NEW c \in Clusters(pairs), NEW m \in c, NEW n \in c PROVE n \in Reaches(m)
  <2>1. m \in Imgs /\ n \in Imgs /\ root[m] = root[n]
    BY <1>8
  <2>2. ASSUME NEW S \in SUBSET Imgs, m \in S, Closed(S) PROVE n \in S
    <3>1. ASSUME NEW j \in 1..N PROVE A(pairs[j]) \in S <=> B(pairs[j]) \in S
      <4> DEFINE a == A(pairs[j])
                 b == B(pairs[j])
      <4>1. pairs[j] \in Close
        BY <1>1
      <4>2. a \in Imgs /\ b \in Imgs /\ pairs[j] = {a, b} /\ {a, b} = {b, a} /\ Alike(pairs[j])
        BY <1>2, <1>3, <4>1
      <4> HIDE DEF a, b
      <4>3. a \in S => b \in S
        BY <2>2, <4>2 DEF Closed
      <4>4. b \in S => a \in S
        BY <2>2, <4>2 DEF Closed
      <4> QED
        BY <4>3, <4>4 DEF a, b
    <3> QED
      BY <1>5, <2>1, <2>2, <3>1 DEF Joins
  <2> QED
    BY <2>1, <2>2 DEF Reaches
<1>12. ASSUME NEW g \in SUBSET Imgs, Cardinality(g) > 1,
              \A m, n \in g : m # n => Alike({m, n})
       PROVE  \E c \in Clusters(pairs) : g \subseteq c
  <2>1. IsFiniteSet(g)
    BY ImagesAre, FS_Subset
  <2>2. PICK m \in g, n \in g : m # n
    BY <1>12, <2>1, TwoOf
  <2>3. \A k \in g : k \in Imgs /\ root[k] = root[m]
    BY <1>9, <1>12
  <2>4. g \subseteq with(m) /\ m \in Imgs
    BY <2>3
  <2>5. with(m) \in Clusters(pairs)
    BY <1>7, <2>2, <2>4
  <2> QED
    BY <2>4, <2>5
<1>13. \A m, n \in Imgs : m # n =>
           ((\E c \in Clusters(pairs) : {m, n} \subseteq c) <=> n \in Reaches(m))
  BY <1>10, <1>11
<1> QED
  BY <1>12, <1>13 DEF pairs

\* Images that hold the same are as close as can be, if anything they hold counts.
LEMMA SameAreAlike ==
  ASSUME GraphInv, AllCompared, NEW m \in DOMAIN graph.sets, NEW n \in DOMAIN graph.sets,
         graph.sets[m] = graph.sets[n], ~(graph.sets[m] \subseteq graph.excluded)
  PROVE  Alike({m, n})
<1> DEFINE items == graph.sets[m]
           both == items \ graph.excluded
           c == Cardinality(both)
<1>1. /\ ItemSet(items) /\ items \subseteq Items
      /\ graph.counted \cup graph.excluded = Items
      /\ graph.counted \cap graph.excluded = {}
  BY DEF GraphInv, GraphTypes, Compared, AllCompared, Items
<1>2. both # {} /\ IsFiniteSet(both)
  BY <1>1, FS_Subset DEF ItemSet
<1>3. c \in Nat /\ c # 0
  BY <1>2, FS_CardinalityType, FS_EmptySet
<1>4. \A k \in {m, n} : [j \in {m, n} |-> graph.sets[j] \ graph.excluded][k] = both
  OBVIOUS
<1>5. {x \in graph.counted :
         \A k \in {m, n} : x \in [j \in {m, n} |-> graph.sets[j] \ graph.excluded][k]} = both
  <2>1. both \subseteq graph.counted
    BY <1>1
  <2> HIDE DEF both
  <2> QED
    BY <1>4, <2>1
<1>6. {x \in UNION {graph.sets[k] : k \in {m, n}} : x \notin graph.excluded} = both
  <2>1. UNION {graph.sets[k] : k \in {m, n}} = items
    OBVIOUS
  <2> QED
    BY <2>1
<1>7. 2 * 100 * c + c >= 2 * MinSimilarity * c
  <2> HIDE DEF c
  <2>1. MinSimilarity \in Nat /\ MinSimilarity <= 100
    BY LimitsType, SimilarityIsShare
  <2> DEFINE k == 201 - 2 * MinSimilarity
  <2>2. k \in Nat /\ 2 * MinSimilarity + k = 201
    BY <2>1
  <2> DEFINE d == 2 * MinSimilarity
  <2>3. d \in Nat /\ d + k = 201
    BY <2>1, <2>2
  <2> HIDE DEF d, k
  <2>4. k * c \in Nat /\ d * c \in Nat /\ (d + k) * c = d * c + k * c
    BY <1>3, <2>2, <2>3
  <2>5. 201 * c = d * c + k * c
    BY <2>3, <2>4
  <2>6. 2 * 100 * c + c = 201 * c
    BY <1>3
  <2>7. d * c <= 2 * 100 * c + c
    BY <1>3, <2>4, <2>5, <2>6
  <2> QED
    BY <1>3, <2>4, <2>7 DEF d
<1> HIDE DEF both, c
<1> QED
  BY <1>2, <1>5, <1>6, <1>7 DEF Alike, c

\* A graph begun anew has the identical groups of its sets.
LEMMA GroupedBuild ==
  ASSUME GraphInv, Grouped, NEW view, NEW budget, Build(view, budget)
  PROVE  Grouped' /\ graph'.step = "compare"
<1> DEFINE sets == Sets(view)
           same == IF view = "layers" THEN Identical(sets) ELSE {}
           items == UNION {sets[n] : n \in DOMAIN sets}
<1>1. /\ graph' = [graph EXCEPT !.step = "compare", !.view = view, !.budget = budget,
                                !.sets = sets, !.identical = same, !.todo = items]
      /\ inventory' = inventory
  BY DEF Build, inventoryVars, scanning
<1>2. view = "layers" => DOMAIN sets = Imgs
  BY DEF Sets
<1>3. ASSUME NEW g \in same
      PROVE  /\ view = "layers" /\ g \in SUBSET DOMAIN sets /\ Cardinality(g) > 1
             /\ \A m, n \in g : sets[m] = sets[n]
  BY <1>3 DEF Identical
<1> HIDE DEF sets, same, items
<1>4. /\ graph'.step = "compare" /\ graph'.view = view /\ graph'.sets = sets
      /\ graph'.identical = same
  BY <1>1 DEF GraphInv, GraphTypes, GraphFields
<1>5. Imgs' = Imgs
  BY <1>1 DEF Imgs
<1> QED
  BY <1>2, <1>3, <1>4, <1>5 DEF Grouped

\* What is grouped stays while items are compared and afterwards.
LEMMA GroupedStays ==
  ASSUME ScanInv, ContentInv, GraphInv, Grouped, [Next]_vars,
         graph'.view = graph.view, graph'.sets = graph.sets,
         graph'.identical = graph.identical,
         graph'.step = "idle" <=> graph.step = "idle"
  PROVE  Grouped' /\ (graph.step # "idle" => Imgs' = Imgs)
<1>1. CASE graph.step = "idle"
  BY <1>1 DEF Grouped
<1>2. CASE graph.step # "idle"
  <2>1. scan.step = "imported"
    BY <1>2 DEF GraphInv, Compared, ContentInv
  <2>2. Imgs' = Imgs
    BY <2>1, ImagesStay DEF Imgs
  <2> QED
    BY <1>2, <2>2 DEF Grouped
<1> QED
  BY <1>1, <1>2

\* A report of a layer graph clusters images as their close pairs connect
\* them, and puts identical images together.
LEMMA ReportClusters ==
  ASSUME ScanInv, ContentInv, GraphInv, Grouped, [Next]_vars, Report
  PROVE  Grouped' /\ ClustersAreConnected'
<1> DEFINE clusters == IF graph.view = "layers" THEN Clusters(Pairs) ELSE {}
           pairs == Capped(Pairs)
<1>1. /\ AllCompared /\ graph.step = "compare"
      /\ graph' = [graph EXCEPT !.step = "done", !.pairs = pairs, !.clusters = clusters]
  BY DEF Report, AllCompared
<1> HIDE DEF pairs, clusters
<1>2. /\ graph'.step = "done" /\ graph'.view = graph.view /\ graph'.sets = graph.sets
      /\ graph'.identical = graph.identical /\ graph'.clusters = clusters
      /\ graph'.counted = graph.counted /\ graph'.excluded = graph.excluded
  BY <1>1 DEF GraphInv, GraphTypes, GraphFields
<1>3. Grouped' /\ Imgs' = Imgs
  BY <1>1, <1>2, GroupedStays
<1>4. /\ \A p : Alike(p)' <=> Alike(p)
      /\ \A m : Reaches(m)' = Reaches(m)
  <2>1. \A p : Alike(p)' <=> Alike(p)
    BY <1>2 DEF Alike
  <2>2. \A S : Closed(S)' <=> Closed(S)
    BY <1>3, <2>1 DEF Closed
  <2> QED
    BY <1>3, <2>1, <2>2 DEF Reaches
<1> SUFFICES ASSUME graph.view = "layers" PROVE ClustersAreConnected'
  BY <1>2, <1>3 DEF ClustersAreConnected
<1>5. DOMAIN graph.sets = Imgs /\ clusters = Clusters(Pairs)
  BY <1>1 DEF Grouped, clusters
<1>6. /\ \A m, n \in Imgs : m # n =>
            ((\E c \in clusters : {m, n} \subseteq c) <=> n \in Reaches(m))
      /\ \A g \in SUBSET Imgs : Cardinality(g) > 1 =>
            ((\A m, n \in g : m # n => Alike({m, n})) => \E c \in clusters : g \subseteq c)
  BY <1>1, <1>5, ClustersAre
<1>7. ASSUME NEW g \in graph.identical, NEW k \in g, ~(graph.sets[k] \subseteq graph.excluded)
      PROVE  \E c \in clusters : g \subseteq c
  <2>1. /\ g \in SUBSET Imgs /\ Cardinality(g) > 1
        /\ \A m, n \in g : graph.sets[m] = graph.sets[n]
    BY <1>5 DEF Grouped
  <2>2. ASSUME NEW m \in g, NEW n \in g, m # n PROVE Alike({m, n})
    <3>1. graph.sets[m] = graph.sets[n] /\ graph.sets[m] = graph.sets[k]
      BY <2>1
    <3>2. m \in DOMAIN graph.sets /\ n \in DOMAIN graph.sets
      BY <1>5, <2>1
    <3> QED
      BY <1>1, <1>7, <3>1, <3>2, SameAreAlike
  <2> QED
    BY <1>6, <2>1, <2>2
<1> QED
  BY <1>2, <1>3, <1>4, <1>6, <1>7 DEF ClustersAreConnected

\* The trees into which union-find joins the close pairs, also those the cap cuts
\* off, are the sets that close pairs connect.
THEOREM ClustersConnect == Spec => []ClustersAreConnected
<1> DEFINE Inv == Grouped /\ ClustersAreConnected
<1>1. Init => Inv
  BY DEF Init, Grouped, ClustersAreConnected
<1>2. ScanInv /\ ContentInv /\ GraphInv /\ Inv /\ [Next]_vars => Inv'
  <2> SUFFICES ASSUME ScanInv, ContentInv, GraphInv, Inv, [Next]_vars PROVE Inv'
    OBVIOUS
  <2>1. CASE Report
    BY <2>1, ReportClusters
  <2>2. ASSUME NEW view, NEW budget, Build(view, budget) PROVE Inv'
    BY <2>2, GroupedBuild DEF ClustersAreConnected
  <2>3. CASE CompareItem
    <3>1. /\ graph'.step = "compare" /\ graph.step = "compare" /\ graph'.view = graph.view
          /\ graph'.sets = graph.sets /\ graph'.identical = graph.identical
      BY <2>3 DEF CompareItem, GraphInv, GraphTypes, GraphFields
    <3> QED
      BY <3>1, GroupedStays DEF ClustersAreConnected
  <2>4. CASE graph' = graph
    <3>1. Grouped' /\ (graph.step # "idle" => Imgs' = Imgs)
      BY <2>4, GroupedStays
    <3>2. CASE graph.step = "done"
      <4>1. \A p : Alike(p)' <=> Alike(p)
        BY <2>4 DEF Alike
      <4>2. \A S : Closed(S)' <=> Closed(S)
        BY <3>1, <3>2, <4>1 DEF Closed
      <4>3. \A m : Reaches(m)' = Reaches(m)
        BY <3>1, <3>2, <4>2 DEF Reaches
      <4> QED
        BY <2>4, <3>1, <3>2, <4>3 DEF ClustersAreConnected
    <3>3. CASE graph.step # "done"
      BY <2>4, <3>1, <3>3 DEF ClustersAreConnected
    <3> QED
      BY <3>2, <3>3
  <2>5. \/ \E view \in {"layers", "packages"}, budget \in Budgets : Build(view, budget)
        \/ CompareItem \/ Report \/ graph' = graph
    BY DEF Next, vars, contentVars, Observe, Queue, FetchNothing, FoldIn, Take, Fetch,
           FetchFails, Answers
  <2> QED
    BY <2>1, <2>2, <2>3, <2>4, <2>5
<1>3. Inv => ClustersAreConnected
  OBVIOUS
<1> HIDE DEF Inv
<1> QED
  BY <1>1, <1>2, <1>3, ScanInvHolds, ContentHolds, GraphHolds, PTL DEF Spec
===============================================================================
