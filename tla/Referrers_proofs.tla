---------------------------- MODULE Referrers_proofs ---------------------------
(***************************************************************************)
(* Proofs about Referrers, for any number of commands, whatever is         *)
(* attached, deleted, moved or fails meanwhile, and with or without the    *)
(* Referrers API.                                                          *)
(***************************************************************************)
EXTENDS Referrers, TLAPS

AsReferrer == {a \in Artifact : IsReferrer(a)}

Progress == [at : {"idle", "head", "put", "read", "write"}, todo : SUBSET AsReferrer,
             held : SUBSET AsReferrer, owes : SUBSET AsReferrer]
\* A command that writes has a manifest to write, and what it read of an index
\* is about that manifest's image.
Sound(progress) ==
    /\ progress.at # "idle" => progress.todo # {}
    /\ progress.at = "write" =>
          \A a \in progress.held : a.of = (CHOOSE w \in progress.todo : TRUE).of

StoreInv ==
    /\ api \in BOOLEAN /\ tag \in Images /\ stored \subseteq Artifact
    /\ index \in [Images -> SUBSET AsReferrer]
    /\ \A i \in Images : \A a \in index[i] : a.of = i
    /\ client \in [Clients -> Progress]
    /\ \A c \in Clients : Sound(client[c])
    /\ export \in [at : {"idle", "head", "copy"}, todo : SUBSET AsReferrer,
                   done : SUBSET AsReferrer, subject : SUBSET Images]
    /\ dir \in [layout : SUBSET AsReferrer, listed : SUBSET AsReferrer,
                subject : SUBSET Images]
    /\ bounds \in [writes : Nat, reads : Nat, moves : Nat, collects : Nat,
                   tools : Nat, faults : Nat]

\* The store's invariant holds at the start.
LEMMA StoreInit == Init => StoreInv
<1> SUFFICES ASSUME Init
             PROVE  StoreInv
  OBVIOUS
<1>1. PICK before \in Before : LET first == [of : {Released}, is : before] IN
          index = [i \in Images |-> IF i = tag THEN first ELSE NoTag]
  BY DEF Init
<1> DEFINE first == [of : {Released}, is : before]
<1>2. tag = Released /\ tag \in Images /\ api \in BOOLEAN
  BY OursAreClasses DEF Init
<1>8. stored \subseteq Artifact
  BY OursAreClasses, AttachedAsReferrers DEF Init, Artifact
<1>3. \A a \in first : a \in AsReferrer /\ a.of = Released
  BY OursAreClasses, AttachedAsReferrers DEF AsReferrer, Artifact, IsReferrer
<1>4. /\ index \in [Images -> SUBSET AsReferrer]
      /\ \A i \in Images : \A a \in index[i] : a.of = i
  BY <1>1, <1>2, <1>3 DEF NoTag
<1>5. client \in [Clients -> Progress] /\ \A c \in Clients : Sound(client[c])
  BY DEF Init, Idle, Progress, Sound
<1>6. /\ export \in [at : {"idle", "head", "copy"}, todo : SUBSET AsReferrer,
                     done : SUBSET AsReferrer, subject : SUBSET Images]
      /\ dir \in [layout : SUBSET AsReferrer, listed : SUBSET AsReferrer,
                  subject : SUBSET Images]
  BY DEF Init, NoExport, NoDir
<1>7. bounds \in [writes : Nat, reads : Nat, moves : Nat, collects : Nat,
                  tools : Nat, faults : Nat]
  BY DEF Init
<1> QED
  BY <1>2, <1>4, <1>5, <1>6, <1>7, <1>8 DEF StoreInv

\* Going on with the rest of what is to be written.
LEMMA WrittenStep ==
    ASSUME StoreInv, NEW c \in Clients, client[c].at # "idle", Written(c)
    PROVE  /\ client' \in [Clients -> Progress]
           /\ \A d \in Clients : Sound(client'[d])
           /\ Writing(c) \in AsReferrer
<1>1. client[c] \in Progress /\ client[c].todo # {}
  BY DEF StoreInv, Sound
<1>2. Writing(c) \in client[c].todo /\ client[c].todo \subseteq AsReferrer
  BY <1>1 DEF Writing, Progress
<1> DEFINE rest == client[c].todo \ {Writing(c)}
           next == IF rest = {} THEN Idle
                   ELSE [client[c] EXCEPT !.at = "head", !.todo = rest, !.held = {}]
<1>3. client' = [client EXCEPT ![c] = next]
  BY DEF Written
<1>4. next \in Progress /\ Sound(next)
  <2>1. CASE rest = {}
    BY <2>1 DEF Idle, Progress, Sound
  <2>2. CASE rest # {}
    BY <1>1, <2>2 DEF Progress, Sound
  <2> QED
    BY <2>1, <2>2
<1> HIDE DEF next
<1> QED
  BY <1>2, <1>3, <1>4 DEF StoreInv

\* Referrers the registry or the tag lists.
LEMMA ReferrersAre ==
    ASSUME StoreInv, NEW i \in Images
    PROVE  \A a \in Referrers(i) : a \in AsReferrer /\ a.of = i
BY DEF Referrers, StoreInv, AsReferrer

\* Counting one more operation keeps the counters numbers, and those of moves
\* apart.
LEMMA BoundsStep ==
    ASSUME StoreInv,
           NEW what \in {"writes", "reads", "moves", "collects", "tools", "faults"},
           bounds' = [bounds EXCEPT ![what] = @ + 1]
    PROVE  /\ bounds' \in [writes : Nat, reads : Nat, moves : Nat, collects : Nat,
                           tools : Nat, faults : Nat]
           /\ what = "moves" => bounds'.moves # 0
           /\ what # "moves" => bounds'.moves = bounds.moves
BY DEF StoreInv

\* The parts of the store keep their types: one lemma for commands that write,
\* and one for everything else.
LEMMA WriteKeeps == ASSUME StoreInv, Write PROVE StoreInv'
<1> USE DEF StoreInv
<1>0. PICK c \in Clients : \/ Attach(c) \/ Import(c) \/ HeadManifest(c) \/ PutManifest(c)
                           \/ ReadIndex(c) \/ WriteIndex(c) \/ WriteFails(c)
  BY DEF Write
<1>a. client[c] \in Progress /\ Sound(client[c])
  OBVIOUS
<1>1. CASE Attach(c)
  <2>1. PICK content \in Ours : client' = [client EXCEPT ![c] =
             [at |-> "head", todo |-> {[of |-> tag, is |-> content]},
              held |-> {}, owes |-> {}]]
    BY <1>1 DEF Attach
  <2>2. [of |-> tag, is |-> content] \in AsReferrer
    BY OursAreClasses, AttachedAsReferrers DEF AsReferrer, Artifact, IsReferrer
  <2> DEFINE new == [at |-> "head", todo |-> {[of |-> tag, is |-> content]},
                     held |-> {}, owes |-> {}]
  <2>3. new \in Progress /\ Sound(new)
    BY <2>2 DEF Progress, Sound
  <2> HIDE DEF new
  <2>4. client' \in [Clients -> Progress] /\ \A d \in Clients : Sound(client'[d])
    BY <2>1, <2>3 DEF new
  <2> QED
    BY <1>1, <2>4, BoundsStep DEF Attach, Spend, registry, exporting, discovering
<1>2. CASE Import(c)
  <2> DEFINE new == [at |-> "head", todo |-> dir.layout, held |-> {}, owes |-> dir.listed]
  <2>1. client' = [client EXCEPT ![c] = new] /\ dir.layout # {}
    BY <1>2 DEF Import
  <2>2. new \in Progress /\ Sound(new)
    BY <2>1 DEF Progress, Sound
  <2> HIDE DEF new
  <2>3. client' \in [Clients -> Progress] /\ \A d \in Clients : Sound(client'[d])
    BY <2>1, <2>2
  <2> QED
    BY <1>2, <2>3, BoundsStep DEF Import, Spend, registry, exporting, discovering
<1>7. CASE HeadManifest(c)
  <2>1. client[c].at = "head" /\ client[c].todo # {}
    BY <1>7, <1>a DEF HeadManifest, Sound
  <2>2. client' \in [Clients -> Progress] /\ \A d \in Clients : Sound(client'[d])
    <3>1. CASE Writing(c) \in stored
      BY <1>7, <2>1, <3>1, WrittenStep DEF HeadManifest
    <3>2. CASE Writing(c) \notin stored
      <4> DEFINE new == [client[c] EXCEPT !.at = "put"]
      <4>1. new \in Progress /\ Sound(new)
        BY <1>a, <2>1 DEF Progress, Sound
      <4>2. client' = [client EXCEPT ![c] = new]
        BY <1>7, <3>2 DEF HeadManifest
      <4> HIDE DEF new
      <4> QED
        BY <4>1, <4>2
    <3> QED
      BY <3>1, <3>2
  <2> QED
    BY <1>7, <2>2 DEF HeadManifest, registry, exporting, discovering
<1>3. CASE PutManifest(c)
  <2>1. client[c].at = "put" /\ client[c].todo # {}
    BY <1>3, <1>a DEF PutManifest, Sound
  <2>2. Writing(c) \in AsReferrer
    BY <1>a, <2>1 DEF Writing, Progress
  <2>3. client' \in [Clients -> Progress] /\ \A d \in Clients : Sound(client'[d])
    <3>1. CASE api
      BY <1>3, <2>1, <3>1, WrittenStep DEF PutManifest
    <3>2. CASE ~api
      <4> DEFINE new == [client[c] EXCEPT !.at = "read"]
      <4>1. new \in Progress /\ Sound(new)
        BY <1>a, <2>1 DEF Progress, Sound
      <4>2. client' = [client EXCEPT ![c] = new]
        BY <1>3, <3>2 DEF PutManifest
      <4> HIDE DEF new
      <4> QED
        BY <4>1, <4>2
    <3> QED
      BY <3>1, <3>2
  <2>4. stored' \subseteq Artifact
    BY <1>3, <2>2 DEF PutManifest, AsReferrer
  <2> QED
    BY <1>3, <2>3, <2>4 DEF PutManifest, exporting, discovering
<1>4. CASE ReadIndex(c)
  <2>1. client[c].at = "read" /\ client[c].todo # {}
    BY <1>4, <1>a DEF ReadIndex, Sound
  <2>2. Writing(c) \in AsReferrer /\ Writing(c).of \in Images
    BY <1>a, <2>1 DEF Writing, Progress, AsReferrer, Artifact
  <2>3. client' \in [Clients -> Progress] /\ \A d \in Clients : Sound(client'[d])
    <3>1. CASE Writing(c) \in index[Writing(c).of]
      BY <1>4, <2>1, <3>1, WrittenStep DEF ReadIndex
    <3>2. CASE Writing(c) \notin index[Writing(c).of]
      <4> DEFINE new == [client[c] EXCEPT !.at = "write", !.held = index[Writing(c).of]]
      <4>1. new \in Progress
        BY <1>a, <2>2 DEF Progress
      <4>2. new.todo = client[c].todo /\ new.held = index[Writing(c).of]
        BY <1>a DEF Progress
      <4>3. Sound(new)
        <5>1. \A a \in index[Writing(c).of] : a.of = Writing(c).of
          BY <2>2
        <5> HIDE DEF new
        <5> QED
          BY <2>1, <4>2, <5>1 DEF Sound, Writing
      <4>4. client' = [client EXCEPT ![c] = new]
        BY <1>4, <3>2 DEF ReadIndex
      <4> HIDE DEF new
      <4> QED
        BY <4>1, <4>3, <4>4
    <3> QED
      BY <3>1, <3>2
  <2> QED
    BY <1>4, <2>3 DEF ReadIndex, registry, exporting, discovering
<1>5. CASE WriteIndex(c)
  <2>1. client[c].at = "write" /\ client[c].todo # {}
    BY <1>5, <1>a DEF WriteIndex, Sound
  <2>2. client' \in [Clients -> Progress] /\ \A d \in Clients : Sound(client'[d])
    BY <1>5, <2>1, WrittenStep DEF WriteIndex
  <2>3. Writing(c) \in AsReferrer /\ client[c].held \subseteq AsReferrer
    BY <1>a, <2>1 DEF Writing, Progress
  <2>4. \A a \in client[c].held : a.of = Writing(c).of
    BY <1>a, <2>1 DEF Sound, Writing
  <2>5. index' = [index EXCEPT ![Writing(c).of] = client[c].held \cup {Writing(c)}]
    BY <1>5 DEF WriteIndex
  <2>6. /\ index' \in [Images -> SUBSET AsReferrer]
        /\ \A i \in Images : \A a \in index'[i] : a.of = i
    BY <2>3, <2>4, <2>5
  <2> QED
    BY <1>5, <2>2, <2>6 DEF WriteIndex, exporting, discovering
<1>6. CASE WriteFails(c)
  <2>1. Idle \in Progress /\ Sound(Idle)
    BY DEF Idle, Progress, Sound
  <2>2. client' \in [Clients -> Progress] /\ \A d \in Clients : Sound(client'[d])
    BY <1>6, <2>1 DEF WriteFails
  <2> QED
    BY <1>6, <2>2, BoundsStep DEF WriteFails, Fault, Trouble, registry, exporting, discovering
<1> QED
  BY <1>0, <1>1, <1>2, <1>3, <1>4, <1>5, <1>6, <1>7

\* An export keeps the store's invariant.
LEMMA ExportKeeps == ASSUME StoreInv, Export PROVE StoreInv'
<1> USE DEF StoreInv
<1>1. CASE StartExport
  <2>1. \A a \in Referrers(tag) : a \in AsReferrer
    BY ReferrersAre
  <2>2. export' \in [at : {"idle", "head", "copy"}, todo : SUBSET AsReferrer,
                     done : SUBSET AsReferrer, subject : SUBSET Images]
    BY <1>1, <2>1 DEF StartExport
  <2> QED
    BY <1>1, <2>2, BoundsStep DEF StartExport, Spend, registry, discovering
<1>2. CASE HeadSubject
  BY <1>2 DEF HeadSubject, registry, discovering, NoDir
<1>3. CASE CopyAttachment
  <2>1. PICK a \in export.todo :
          IF a \notin stored
          THEN export' = NoExport /\ UNCHANGED dir
          ELSE /\ dir' = [dir EXCEPT !.layout = @ \cup {a}]
               /\ export' = IF ~IsOurs(a) THEN NoExport
                            ELSE [export EXCEPT !.todo = @ \ {a},
                                                !.done = @ \cup {a}]
    BY <1>3 DEF CopyAttachment
  <2>2. a \in AsReferrer
    OBVIOUS
  <2>3. export' \in [at : {"idle", "head", "copy"}, todo : SUBSET AsReferrer,
                     done : SUBSET AsReferrer, subject : SUBSET Images]
    <3> DEFINE on == [export EXCEPT !.todo = @ \ {a}, !.done = @ \cup {a}]
    <3>1. export' = NoExport \/ export' = on
      BY <2>1
    <3>2. on \in [at : {"idle", "head", "copy"}, todo : SUBSET AsReferrer,
                  done : SUBSET AsReferrer, subject : SUBSET Images]
      BY <2>2
    <3> HIDE DEF on
    <3> QED
      BY <3>1, <3>2 DEF NoExport
  <2>4. dir' \in [layout : SUBSET AsReferrer, listed : SUBSET AsReferrer,
                  subject : SUBSET Images]
    BY <2>1, <2>2
  <2> QED
    BY <1>3, <2>3, <2>4 DEF CopyAttachment, registry, discovering
<1>4. CASE WriteExportJSON
  BY <1>4 DEF WriteExportJSON, registry, discovering, NoExport
<1>5. CASE ExportFails
  BY <1>5, BoundsStep DEF ExportFails, Fault, Trouble, registry, discovering, NoExport
<1> QED
  BY <1>1, <1>2, <1>3, <1>4, <1>5 DEF Export

\* Every step keeps the store's invariant.
LEMMA StoreStep == StoreInv /\ [Next]_vars => StoreInv'
<1> SUFFICES ASSUME StoreInv, [Next]_vars
             PROVE  StoreInv'
  OBVIOUS
<1>1. CASE Write
  BY <1>1, WriteKeeps
<1>2. CASE Export
  BY <1>2, ExportKeeps
<1>3. CASE Discover
  <2>1. UNCHANGED <<registry, client, exporting>>
    BY <1>3 DEF Discover, HeadReferrersTag, GetReferrers, ReadEntry, HeadCosignTag,
           ReadCosignTag, DiscoveryFails
  <2>2. bounds' \in [writes : Nat, reads : Nat, moves : Nat, collects : Nat,
                     tools : Nat, faults : Nat]
    <3>1. bounds' = bounds \/ (\E what \in {"reads", "faults"} :
                                  bounds' = [bounds EXCEPT ![what] = @ + 1])
      BY <1>3 DEF Discover, HeadReferrersTag, GetReferrers, ReadEntry, HeadCosignTag,
             ReadCosignTag, DiscoveryFails, Spend, Fault, Trouble
    <3> QED
      BY <3>1, BoundsStep DEF StoreInv
  <2> QED
    BY <2>1, <2>2 DEF StoreInv, registry, exporting
<1>4. CASE Move
  BY <1>4, BoundsStep DEF Move, Trouble, StoreInv, exporting, discovering
<1>5. ASSUME NEW a \in Artifact, ToolAttaches(a)
      PROVE  StoreInv'
  <2>1. a.of \in Images
    BY DEF Artifact
  <2>2. /\ index' \in [Images -> SUBSET AsReferrer]
        /\ \A i \in Images : \A b \in index'[i] : b.of = i
    BY <1>5, <2>1 DEF ToolAttaches, StoreInv, AsReferrer
  <2> QED
    BY <1>5, <2>2, BoundsStep DEF ToolAttaches, Trouble, StoreInv, exporting, discovering
<1>6. ASSUME NEW a \in Artifact, Collect(a)
      PROVE  StoreInv'
  <2>1. client' = [c \in Clients |-> [client[c] EXCEPT !.owes = @ \ {a}]]
    BY <1>6 DEF Collect
  <2>2. ASSUME NEW c \in Clients
        PROVE  client'[c] \in Progress /\ Sound(client'[c])
    <3> DEFINE new == [client[c] EXCEPT !.owes = @ \ {a}]
    <3>1. client[c] \in Progress /\ Sound(client[c])
      BY DEF StoreInv
    <3>2. /\ new \in Progress /\ new.at = client[c].at
          /\ new.todo = client[c].todo /\ new.held = client[c].held
      BY <3>1 DEF Progress
    <3>3. client'[c] = new
      BY <2>1
    <3> HIDE DEF new
    <3>4. Sound(new)
      BY <3>1, <3>2 DEF Sound
    <3> QED
      BY <3>2, <3>3, <3>4
  <2>3. client' \in [Clients -> Progress]
    BY <2>1, <2>2
  <2> QED
    BY <1>6, <2>2, <2>3, BoundsStep DEF Collect, Trouble, StoreInv, exporting
<1>7. CASE UNCHANGED vars
  BY <1>7 DEF vars, StoreInv, registry, exporting
<1> QED
  BY <1>1, <1>2, <1>3, <1>4, <1>5, <1>6, <1>7 DEF Next

\* The store, the clients and the directory hold what their types allow, and
\* the invariant that goes with them, in every behaviour.
THEOREM StoreCorrect == Spec => []StoreInv
BY StoreInit, StoreStep, PTL DEF Spec
-----------------------------------------------------------------------------
(* What attach and import report.                                          *)

\* A referrer that was ever stored is listed by its image's index, or that was
\* written over, or a write of it got no further; the same holds of one that was
\* deleted since.  A command that has its manifest stored did store it.
Kept(a) == api \/ a \in index[a.of] \/ a.of \in raced \/ StillUnlisted(a)
EverStored == AsReferrer \cap (stored \cup collected)
ReportInv ==
    /\ \A a \in EverStored : Kept(a)
    /\ acked \subseteq EverStored
    /\ \A c \in Clients : Unlisted(c) => Writing(c) \in EverStored

\* A command whose place and manifests stay is as far with what it writes.
LEMMA SameWriting ==
    ASSUME NEW c \in Clients, client'[c].todo = client[c].todo
    PROVE  /\ Writing(c)' = Writing(c)
           /\ client'[c].at = client[c].at => (Unlisted(c)' <=> Unlisted(c))
BY DEF Writing, Unlisted

\* What is left unlisted stays so while at most one command moves, unless it is
\* what that one was writing or what was cut short and no longer is.
LEMMA StaysUnlisted ==
    ASSUME NEW c \in Clients, \A d \in Clients \ {c} : client'[d] = client[d],
           NEW a, StillUnlisted(a), ~(Unlisted(c) /\ Writing(c) = a),
           a \in cutShort => a \in cutShort'
    PROVE  StillUnlisted(a)'
<1>1. CASE a \in cutShort
  BY <1>1 DEF StillUnlisted
<1>2. CASE a \notin cutShort
  <2>1. PICK d \in Clients : Unlisted(d) /\ Writing(d) = a
    BY <1>2 DEF StillUnlisted
  <2>2. client'[d] = client[d]
    BY <2>1
  <2>3. Unlisted(d)' /\ Writing(d)' = a
    BY <2>1, <2>2, SameWriting
  <2> QED
    BY <2>3 DEF StillUnlisted
<1> QED
  BY <1>1, <1>2

\* A step of one command, or of none, keeps the reports: nothing is lost from an
\* index that is not written over, and what was left unlisted is so still or is
\* listed now.
LEMMA ReportKept ==
    ASSUME StoreInv, ReportInv, api' = api,
           stored \cup collected \subseteq stored' \cup collected',
           raced \subseteq raced',
           \A a \in AsReferrer : a \in index[a.of] => a \in index'[a.of] \/ a.of \in raced',
           \A a \in AsReferrer : StillUnlisted(a) =>
               StillUnlisted(a)' \/ api \/ a \in index'[a.of],
           \A a \in AsReferrer : a \in stored' \cup collected' =>
               a \in stored \cup collected \/ Kept(a)',
           acked' \subseteq acked \cup EverStored',
           \A c \in Clients : Unlisted(c)' => Writing(c)' \in EverStored'
    PROVE  ReportInv'
<1>1. EverStored \subseteq EverStored'
  BY DEF EverStored, AsReferrer
<1>2. ASSUME NEW a \in AsReferrer, Kept(a) PROVE Kept(a)'
  BY <1>2 DEF Kept
<1>3. ASSUME NEW a \in EverStored' PROVE Kept(a)'
  <2>1. a \in AsReferrer /\ a \in stored' \cup collected'
    BY <1>3 DEF EverStored, AsReferrer
  <2>2. a \in stored \cup collected => Kept(a)
    BY <2>1 DEF ReportInv, EverStored
  <2> QED
    BY <1>2, <2>1, <2>2
<1> QED
  BY <1>1, <1>3 DEF ReportInv

\* A step in which no command moves.
LEMMA OthersReport ==
    ASSUME StoreInv, ReportInv, UNCHANGED <<api, acked, raced, cutShort>>,
           \A c \in Clients : /\ client'[c].at = client[c].at
                             /\ client'[c].todo = client[c].todo,
           stored \cup collected \subseteq stored' \cup collected',
           \A a \in AsReferrer : a \in index[a.of] => a \in index'[a.of],
           \A a \in AsReferrer : a \in stored' \cup collected' =>
               a \in stored \cup collected \/ Kept(a)'
    PROVE  ReportInv'
<1>1. \A c \in Clients : Writing(c)' = Writing(c) /\ (Unlisted(c)' <=> Unlisted(c))
  BY SameWriting
<1>2. \A a : StillUnlisted(a) => StillUnlisted(a)'
  BY <1>1 DEF StillUnlisted
<1>3. EverStored \subseteq EverStored'
  BY DEF EverStored, AsReferrer
<1>4. \A c \in Clients : Unlisted(c)' => Writing(c)' \in EverStored'
  BY <1>1, <1>3 DEF ReportInv
<1> QED
  BY <1>2, <1>4, ReportKept

\* What Written leaves: one report more, and the command goes on elsewhere.
LEMMA WrittenLeaves ==
    ASSUME StoreInv, NEW c \in Clients, client[c].at # "idle", Written(c)
    PROVE  /\ acked' = acked \cup {Writing(c)} /\ Writing(c) \in AsReferrer
           /\ \A d \in Clients \ {c} : client'[d] = client[d]
           /\ ~Unlisted(c)'
<1>1. client[c] \in Progress /\ client \in [Clients -> Progress]
  BY DEF StoreInv
<1> DEFINE rest == client[c].todo \ {Writing(c)}
           next == IF rest = {} THEN Idle
                   ELSE [client[c] EXCEPT !.at = "head", !.todo = rest, !.held = {}]
<1>2. client' = [client EXCEPT ![c] = next] /\ acked' = acked \cup {Writing(c)}
  BY DEF Written
<1>3. next.at \in {"idle", "head"}
  BY <1>1 DEF Idle, Progress
<1> HIDE DEF next
<1>4. client'[c] = next /\ \A d \in Clients \ {c} : client'[d] = client[d]
  BY <1>1, <1>2
<1> QED
  BY <1>2, <1>3, <1>4, WrittenStep DEF Unlisted

\* A command's step after which the others are where they were keeps what they
\* have stored.
LEMMA OthersStored ==
    ASSUME ReportInv, NEW c \in Clients, \A d \in Clients \ {c} : client'[d] = client[d],
           stored \cup collected \subseteq stored' \cup collected',
           Unlisted(c)' => Writing(c)' \in EverStored'
    PROVE  \A d \in Clients : Unlisted(d)' => Writing(d)' \in EverStored'
<1> SUFFICES ASSUME NEW d \in Clients, d # c, Unlisted(d)'
             PROVE  Writing(d)' \in EverStored'
  OBVIOUS
<1>1. Unlisted(d) /\ Writing(d)' = Writing(d)
  BY SameWriting
<1> QED
  BY <1>1 DEF ReportInv, EverStored, AsReferrer

\* A write keeps the reports of what was written.
LEMMA WriteReports == ASSUME StoreInv, ReportInv, Write PROVE ReportInv'
<1>0. PICK c \in Clients : \/ Attach(c) \/ Import(c) \/ HeadManifest(c) \/ PutManifest(c)
                           \/ ReadIndex(c) \/ WriteIndex(c) \/ WriteFails(c)
  BY DEF Write
<1>a. /\ client \in [Clients -> Progress] /\ index \in [Images -> SUBSET AsReferrer]
      /\ client[c] \in Progress /\ (client[c].at # "idle" => client[c].todo # {})
  BY DEF StoreInv, Sound
<1>b. client[c].at # "idle" => Writing(c) \in AsReferrer /\ Writing(c).of \in Images
  BY <1>a DEF Writing, Progress, AsReferrer, Artifact
<1>1. CASE Attach(c) \/ Import(c)
  <2>1. \E p : p.at = "head" /\ client' = [client EXCEPT ![c] = p]
    <3>1. CASE Attach(c)
      <4>1. PICK content \in Ours : client' = [client EXCEPT ![c] =
               [at |-> "head", todo |-> {[of |-> tag, is |-> content]},
                held |-> {}, owes |-> {}]]
        BY <3>1 DEF Attach
      <4> QED
        BY <4>1
    <3>2. CASE Import(c)
      <4>1. client' = [client EXCEPT ![c] =
               [at |-> "head", todo |-> dir.layout, held |-> {}, owes |-> dir.listed]]
        BY <3>2 DEF Import
      <4> QED
        BY <4>1
    <3> QED
      BY <1>1, <3>1, <3>2
  <2>2. /\ \A d \in Clients \ {c} : client'[d] = client[d]
        /\ ~Unlisted(c)' /\ ~Unlisted(c)
        /\ UNCHANGED <<api, stored, collected, index, reports>>
    BY <1>1, <1>a, <2>1 DEF Attach, Import, Idle, Unlisted, registry
  <2>3. \A a : StillUnlisted(a) => StillUnlisted(a)'
    BY <2>2, StaysUnlisted DEF reports
  <2>4. \A d \in Clients : Unlisted(d)' => Writing(d)' \in EverStored'
    BY <2>2, OthersStored
  <2> QED
    BY <2>2, <2>3, <2>4, ReportKept DEF reports
<1>2. CASE HeadManifest(c)
  <2>1. /\ client[c].at = "head" /\ ~Unlisted(c)
        /\ UNCHANGED <<api, stored, collected, index, raced, cutShort>>
    BY <1>2 DEF HeadManifest, Unlisted, registry
  <2>2. /\ \A d \in Clients \ {c} : client'[d] = client[d]
        /\ ~Unlisted(c)'
        /\ acked' \subseteq acked \cup EverStored'
    <3>1. CASE Writing(c) \in stored
      <4>1. Written(c)
        BY <1>2, <3>1 DEF HeadManifest
      <4>2. Writing(c) \in EverStored'
        BY <1>b, <2>1, <3>1 DEF EverStored, AsReferrer
      <4> QED
        BY <2>1, <4>1, <4>2, WrittenLeaves
    <3>2. CASE Writing(c) \notin stored
      <4>1. client' = [client EXCEPT ![c].at = "put"] /\ acked' = acked
        BY <1>2, <3>2 DEF HeadManifest
      <4> QED
        BY <1>a, <4>1 DEF Unlisted, Progress
    <3> QED
      BY <3>1, <3>2
  <2>3. \A a : StillUnlisted(a) => StillUnlisted(a)'
    BY <2>1, <2>2, StaysUnlisted
  <2>4. \A d \in Clients : Unlisted(d)' => Writing(d)' \in EverStored'
    BY <2>1, <2>2, OthersStored
  <2> QED
    BY <2>1, <2>2, <2>3, <2>4, ReportKept
<1>3. CASE PutManifest(c)
  <2>1. /\ client[c].at = "put" /\ ~Unlisted(c)
        /\ stored' = stored \cup {Writing(c)} /\ collected' = collected \ {Writing(c)}
        /\ UNCHANGED <<api, index, raced, cutShort>>
    BY <1>3 DEF PutManifest, Unlisted
  <2>2. Writing(c) \in AsReferrer /\ Writing(c) \in EverStored'
    BY <1>b, <2>1 DEF EverStored, AsReferrer
  <2>3. /\ \A d \in Clients \ {c} : client'[d] = client[d]
        /\ acked' \subseteq acked \cup EverStored'
        /\ Unlisted(c)' => Writing(c)' = Writing(c)
        /\ api \/ Unlisted(c)'
    <3>1. CASE api
      <4>1. Written(c)
        BY <1>3, <3>1 DEF PutManifest
      <4> QED
        BY <2>1, <2>2, <3>1, <4>1, WrittenLeaves
    <3>2. CASE ~api
      <4>1. client' = [client EXCEPT ![c].at = "read"] /\ acked' = acked
        BY <1>3, <3>2 DEF PutManifest
      <4>2. client'[c].todo = client[c].todo /\ client'[c].at = "read"
        BY <1>a, <4>1 DEF Progress
      <4> QED
        BY <1>a, <4>1, <4>2, SameWriting DEF Unlisted
    <3> QED
      BY <3>1, <3>2
  <2>4. \A a : StillUnlisted(a) => StillUnlisted(a)'
    BY <2>1, <2>3, StaysUnlisted
  <2>5. stored \cup collected \subseteq stored' \cup collected'
    BY <2>1
  <2>6. \A d \in Clients : Unlisted(d)' => Writing(d)' \in EverStored'
    BY <2>2, <2>3, <2>5, OthersStored
  <2>7. ASSUME NEW a \in AsReferrer, a = Writing(c)
        PROVE  Kept(a)'
    BY <2>1, <2>3, <2>7 DEF Kept, StillUnlisted
  <2>8. \A a \in AsReferrer : a \in stored' \cup collected' =>
            a \in stored \cup collected \/ Kept(a)'
    BY <2>1, <2>7
  <2> QED
    BY <2>1, <2>3, <2>4, <2>5, <2>6, <2>8, ReportKept
<1>4. CASE ReadIndex(c)
  <2>1. /\ client[c].at = "read" /\ Unlisted(c)
        /\ UNCHANGED <<api, stored, collected, index, raced>>
    BY <1>4 DEF ReadIndex, Unlisted, registry
  <2>2. Writing(c) \in EverStored /\ EverStored' = EverStored
    BY <2>1 DEF ReportInv, EverStored, AsReferrer
  <2>3. CASE Writing(c) \in index[Writing(c).of]
    <3>1. Written(c) /\ cutShort' = cutShort \ {Writing(c)}
      BY <1>4, <2>3 DEF ReadIndex
    <3>2. /\ \A d \in Clients \ {c} : client'[d] = client[d]
          /\ ~Unlisted(c)'
          /\ acked' \subseteq acked \cup EverStored'
      BY <2>1, <2>2, <3>1, WrittenLeaves
    <3>3. \A a : StillUnlisted(a) => StillUnlisted(a)' \/ a = Writing(c)
      BY <3>1, <3>2, StaysUnlisted
    <3>4. \A d \in Clients : Unlisted(d)' => Writing(d)' \in EverStored'
      BY <2>1, <3>2, OthersStored
    <3> QED
      BY <2>1, <2>3, <3>2, <3>3, <3>4, ReportKept
  <2>4. CASE Writing(c) \notin index[Writing(c).of]
    <3>1. /\ client' = [client EXCEPT ![c].at = "write",
                                      ![c].held = index[Writing(c).of]]
          /\ UNCHANGED <<acked, cutShort>>
      BY <1>4, <2>4 DEF ReadIndex
    <3>2. client'[c].todo = client[c].todo /\ client'[c].at = "write"
      BY <1>a, <3>1 DEF Progress
    <3>3. /\ \A d \in Clients \ {c} : client'[d] = client[d]
          /\ Unlisted(c)' /\ Writing(c)' = Writing(c)
      BY <1>a, <3>1, <3>2, SameWriting DEF Unlisted
    <3>4. \A d \in Clients : Unlisted(d)' => Writing(d)' \in EverStored'
      BY <2>1, <2>2, <3>3, OthersStored
    <3>5. ASSUME NEW a, StillUnlisted(a) PROVE StillUnlisted(a)'
      <4>1. CASE Writing(c) = a
        BY <3>3, <4>1 DEF StillUnlisted
      <4>2. CASE Writing(c) # a
        BY <3>1, <3>3, <3>5, <4>2, StaysUnlisted
      <4> QED
        BY <4>1, <4>2
    <3> QED
      BY <2>1, <3>1, <3>4, <3>5, ReportKept
  <2> QED
    BY <2>3, <2>4
<1>5. CASE WriteIndex(c)
  <2> DEFINE i == Writing(c).of
  <2>1. /\ client[c].at = "write" /\ Unlisted(c) /\ Written(c)
        /\ UNCHANGED <<api, stored, collected>>
        /\ cutShort' = cutShort \ {Writing(c)}
        /\ index' = [index EXCEPT ![i] = client[c].held \cup {Writing(c)}]
        /\ raced' = IF index[i] \subseteq client[c].held THEN raced
                    ELSE raced \cup {i}
    BY <1>5 DEF WriteIndex, Unlisted
  <2>2. Writing(c) \in EverStored /\ EverStored' = EverStored
    BY <2>1 DEF ReportInv, EverStored, AsReferrer
  <2>3. Writing(c) \in index'[i]
    BY <1>a, <1>b, <2>1
  <2>4. ASSUME NEW a \in AsReferrer, a \in index[a.of]
        PROVE  a \in index'[a.of] \/ a.of \in raced'
    BY <1>a, <1>b, <2>1, <2>4
  <2>5. /\ \A d \in Clients \ {c} : client'[d] = client[d]
        /\ ~Unlisted(c)'
        /\ acked' \subseteq acked \cup EverStored'
    BY <2>1, <2>2, WrittenLeaves
  <2>6. \A a : StillUnlisted(a) => StillUnlisted(a)' \/ a = Writing(c)
    BY <2>1, <2>5, StaysUnlisted
  <2>7. \A d \in Clients : Unlisted(d)' => Writing(d)' \in EverStored'
    BY <2>1, <2>5, OthersStored
  <2> QED
    BY <2>1, <2>3, <2>4, <2>5, <2>6, <2>7, ReportKept
<1>6. CASE WriteFails(c)
  <2>1. /\ client' = [client EXCEPT ![c] = Idle]
        /\ cutShort' = IF Unlisted(c) THEN cutShort \cup {Writing(c)} ELSE cutShort
        /\ UNCHANGED <<api, stored, collected, index, acked, raced>>
    BY <1>6 DEF WriteFails, registry
  <2>2. /\ \A d \in Clients \ {c} : client'[d] = client[d]
        /\ ~Unlisted(c)'
    BY <1>a, <2>1 DEF Idle, Unlisted
  <2>3. ASSUME NEW a, StillUnlisted(a) PROVE StillUnlisted(a)'
    <3>1. CASE Unlisted(c) /\ Writing(c) = a
      BY <2>1, <3>1 DEF StillUnlisted
    <3>2. CASE ~(Unlisted(c) /\ Writing(c) = a)
      BY <2>1, <2>2, <2>3, <3>2, StaysUnlisted
    <3> QED
      BY <3>1, <3>2
  <2>4. \A d \in Clients : Unlisted(d)' => Writing(d)' \in EverStored'
    BY <2>1, <2>2, OthersStored
  <2> QED
    BY <2>1, <2>3, <2>4, ReportKept
<1> QED
  BY <1>0, <1>1, <1>2, <1>3, <1>4, <1>5, <1>6

\* Every step keeps the reports of what was written.
LEMMA ReportStep == StoreInv /\ ReportInv /\ [Next]_vars => ReportInv'
<1> SUFFICES ASSUME StoreInv, ReportInv, [Next]_vars
             PROVE  ReportInv'
  OBVIOUS
<1>1. CASE Write
  BY <1>1, WriteReports
<1>2. CASE UNCHANGED <<registry, client, reports>>
  BY <1>2, OthersReport DEF registry, reports
<1>3. CASE Export
  BY <1>2, <1>3 DEF Export, StartExport, HeadSubject, CopyAttachment,
         WriteExportJSON, ExportFails
<1>4. CASE Discover
  BY <1>2, <1>4 DEF Discover, HeadReferrersTag, GetReferrers, ReadEntry,
         HeadCosignTag, ReadCosignTag, DiscoveryFails
<1>5. CASE Move
  BY <1>5, OthersReport DEF Move, reports
<1>6. ASSUME NEW a \in Artifact, ToolAttaches(a)
      PROVE  ReportInv'
  <2>1. index \in [Images -> SUBSET AsReferrer] /\ \A b \in Artifact : b.of \in Images
    BY DEF StoreInv, Artifact
  <2>2. /\ stored' = stored \cup {a} /\ collected' = collected \ {a}
        /\ index' = IF api \/ ~IsReferrer(a) THEN index
                    ELSE [index EXCEPT ![a.of] = @ \cup {a}]
        /\ UNCHANGED <<api, client, reports>>
    BY <1>6 DEF ToolAttaches
  <2>3. \A b \in AsReferrer : b \in index[b.of] => b \in index'[b.of]
    BY <2>1, <2>2 DEF AsReferrer
  <2>4. a \in AsReferrer => api' \/ a \in index'[a.of]
    BY <2>1, <2>2 DEF AsReferrer
  <2>5. \A b \in AsReferrer : b \in stored' \cup collected' =>
            b \in stored \cup collected \/ Kept(b)'
    BY <2>2, <2>4 DEF Kept
  <2>6. stored \cup collected \subseteq stored' \cup collected'
    BY <2>2
  <2> QED
    BY <2>2, <2>3, <2>5, <2>6, OthersReport DEF reports
<1>7. ASSUME NEW a \in Artifact, Collect(a)
      PROVE  ReportInv'
  <2>1. client' = [c \in Clients |-> [client[c] EXCEPT !.owes = @ \ {a}]]
    BY <1>7 DEF Collect
  <2>2. \A c \in Clients : client'[c].at = client[c].at /\ client'[c].todo = client[c].todo
    BY <2>1 DEF StoreInv, Progress
  <2> QED
    BY <1>7, <2>2, OthersReport DEF Collect, reports
<1>8. CASE UNCHANGED vars
  BY <1>2, <1>8 DEF vars
<1> QED
  BY <1>1, <1>3, <1>4, <1>5, <1>6, <1>7, <1>8 DEF Next

\* However many commands attach and restore at once, and whatever fails or is
\* deleted meanwhile, what one reports is listed on its image, unless two
\* rewrote that image's index at once, or a write of the same manifest stored it
\* and went no further, so that the one that reports found it stored.
THEOREM ReportedStaysListed == Spec => []ReportedIsListed
<1>1. Init => ReportInv
  <2> SUFFICES ASSUME Init PROVE ReportInv
    OBVIOUS
  <2>1. PICK before \in Before : LET first == [of : {Released}, is : before] IN
          /\ stored = first
          /\ index = [i \in Images |-> IF i = tag THEN first ELSE NoTag]
    BY DEF Init
  <2>2. \A a \in stored : a \in index[a.of]
    BY <2>1, OursAreClasses DEF Init
  <2>3. collected = {} /\ acked = {} /\ \A c \in Clients : ~Unlisted(c)
    BY DEF Init, Idle, Unlisted
  <2> QED
    BY <2>2, <2>3 DEF ReportInv, EverStored, Kept
<1>2. ReportInv => ReportedIsListed
  BY DEF ReportInv, EverStored, Kept, ReportedIsListed, Referrers, AsReferrer
<1> QED
  BY <1>1, <1>2, StoreCorrect, ReportStep, PTL DEF Spec
-----------------------------------------------------------------------------
(* What an export says.                                                    *)

\* What export.json lists was copied before, and the tag, the subject and what
\* is listed are of one image as long as no release moved the tag.
ExportInv ==
    /\ export.at = "head" => export.done = {}
    /\ export.at = "copy" => export.done \subseteq dir.layout
    /\ dir.listed \subseteq dir.layout
    /\ bounds.moves = 0 =>
          /\ tag = Released
          /\ \A a \in export.todo \cup export.done \cup dir.listed : a.of = Released
          /\ export.at = "copy" => export.subject = {Released}
          /\ dir.listed # {} => dir.subject = {Released}

\* Into a directory that was fresh, every step keeps the export's invariant.
LEMMA ExportStep ==
    ASSUME FreshDir, StoreInv, ExportInv, [Next]_vars
    PROVE  ExportInv'
<1> USE DEF ExportInv
<1>1. CASE bounds' = bounds \/ (\E what \in {"writes", "reads", "collects", "tools", "faults"} :
                                   bounds' = [bounds EXCEPT ![what] = @ + 1])
  <2>1. bounds'.moves = bounds.moves
    BY <1>1, BoundsStep
  <2>2. CASE UNCHANGED <<tag, export, dir>>
    BY <2>1, <2>2
  <2>3. CASE StartExport
    <3>1. \A a \in Referrers(tag) : a.of = tag
      BY ReferrersAre DEF StoreInv
    <3> DEFINE listed == {a \in Referrers(tag) : OfOurType(a)}
    <3>2. /\ tag' = tag /\ dir' = dir
          /\ \/ export' = export
             \/ export' = [at |-> "head", todo |-> listed, done |-> {}, subject |-> {}]
      BY <2>3 DEF StartExport, registry
    <3> QED
      BY <2>1, <3>1, <3>2
  <2>4. CASE HeadSubject
    <3>1. /\ tag' = tag /\ dir' = NoDir /\ export.at = "head"
          /\ export' = [export EXCEPT !.at = "copy", !.subject = {tag}]
      BY <2>4 DEF HeadSubject, registry
    <3> QED
      BY <2>1, <3>1 DEF NoDir, StoreInv
  <2>5. CASE CopyAttachment
    <3>1. PICK a \in export.todo :
            IF a \notin stored
            THEN export' = NoExport /\ UNCHANGED dir
            ELSE /\ dir' = [dir EXCEPT !.layout = @ \cup {a}]
                 /\ export' = IF ~IsOurs(a) THEN NoExport
                              ELSE [export EXCEPT !.todo = @ \ {a},
                                                  !.done = @ \cup {a}]
      BY <2>5 DEF CopyAttachment
    <3>2. tag' = tag /\ export.at = "copy"
      BY <2>5 DEF CopyAttachment, registry
    <3>3. CASE export' = NoExport /\ (dir' = dir \/ dir' = [dir EXCEPT !.layout = @ \cup {a}])
      BY <2>1, <3>2, <3>3 DEF NoExport, StoreInv
    <3>4. CASE /\ dir' = [dir EXCEPT !.layout = @ \cup {a}]
               /\ export' = [export EXCEPT !.todo = @ \ {a}, !.done = @ \cup {a}]
      <4>1. /\ dir'.layout = dir.layout \cup {a} /\ dir'.listed = dir.listed
            /\ dir'.subject = dir.subject
            /\ export'.at = export.at /\ export'.subject = export.subject
            /\ export'.todo = export.todo \ {a} /\ export'.done = export.done \cup {a}
        BY <3>4 DEF StoreInv
      <4> QED
        BY <2>1, <3>2, <4>1
    <3> QED
      BY <3>1, <3>3, <3>4
  <2>6. CASE WriteExportJSON
    <3>1. /\ tag' = tag /\ export.at = "copy" /\ export' = NoExport
          /\ dir' = [dir EXCEPT !.listed = export.done, !.subject = export.subject]
      BY <2>6 DEF WriteExportJSON, registry
    <3>2. /\ dir'.layout = dir.layout /\ dir'.listed = export.done
          /\ dir'.subject = export.subject
      BY <3>1 DEF StoreInv
    <3> QED
      BY <2>1, <3>1, <3>2 DEF NoExport
  <2>7. CASE ExportFails
    <3>1. tag' = tag /\ dir' = dir /\ export' = NoExport
      BY <2>7 DEF ExportFails, registry
    <3> QED
      BY <2>1, <3>1 DEF NoExport
  <2>8. CASE Write \/ Discover \/ UNCHANGED vars
    BY <2>2, <2>8 DEF Write, Attach, Import, HeadManifest, PutManifest, ReadIndex, WriteIndex,
           WriteFails, Discover, HeadReferrersTag, GetReferrers, ReadEntry,
           HeadCosignTag, ReadCosignTag, DiscoveryFails, vars, registry, exporting
  <2>9. CASE \E a \in Artifact : ToolAttaches(a) \/ Collect(a)
    BY <2>2, <2>9 DEF ToolAttaches, Collect, exporting
  <2>10. CASE Move
    BY <1>1, <2>1, <2>10, BoundsStep DEF Move, Trouble
  <2> QED
    BY <2>3, <2>4, <2>5, <2>6, <2>7, <2>8, <2>9, <2>10 DEF Next, Export
<1>2. CASE Move
  <2>1. bounds'.moves # 0
    BY <1>2, BoundsStep DEF Move, Trouble
  <2> QED
    BY <1>2, <2>1 DEF Move, exporting
<1>3. CASE ~Move
  <2>1. bounds' = bounds \/ (\E what \in {"writes", "reads", "collects", "tools", "faults"} :
                                 bounds' = [bounds EXCEPT ![what] = @ + 1])
    BY <1>3 DEF Next, Write, Attach, Import, HeadManifest, PutManifest, ReadIndex, WriteIndex,
           WriteFails, Export, StartExport, HeadSubject, CopyAttachment,
           WriteExportJSON, ExportFails, Discover, HeadReferrersTag, GetReferrers,
           ReadEntry, HeadCosignTag, ReadCosignTag, DiscoveryFails, ToolAttaches,
           Collect, Spend, Trouble, Fault, vars
  <2> QED
    BY <1>1, <2>1
<1> QED
  BY <1>2, <1>3

\* In a directory that was empty, export.json never lists what oci/ lacks, and
\* while no release moves the tag it names the image all of it is about,
\* whatever is attached, deleted or fails during the export.
THEOREM ExportStaysTrue ==
    ASSUME FreshDir
    PROVE  Spec => []ExportIsTrue
<1>1. Init => ExportInv
  BY DEF Init, ExportInv, NoExport, NoDir
<1>2. ExportInv => ExportIsTrue
  BY DEF ExportInv, ExportIsTrue
<1>3. StoreInv /\ ExportInv /\ [Next]_vars => ExportInv'
  BY ExportStep
<1> QED
  BY <1>1, <1>2, <1>3, StoreCorrect, PTL DEF Spec
-----------------------------------------------------------------------------
(* What a finished export and a finished import leave.                     *)

\* An export under way has all that was offered, copied or still to copy.
OfferInv == export.at # "idle" => offered \subseteq export.todo \cup export.done

Whole == dir'.listed \notin {dir.listed, {}} => offered \subseteq dir'.listed

\* Every step keeps what is offered whole.
LEMMA OfferStep ==
    ASSUME StoreInv, OfferInv, [Next]_vars
    PROVE  OfferInv' /\ Whole
<1>1. CASE UNCHANGED <<export, dir, offered>>
  BY <1>1 DEF OfferInv, Whole
<1>2. CASE StartExport
  <2> DEFINE listed == {a \in Referrers(tag) : OfOurType(a)}
  <2>1. dir' = dir /\ \/ export' = export /\ offered' = offered
                      \/ /\ export' = [at |-> "head", todo |-> listed, done |-> {},
                                       subject |-> {}]
                         /\ offered' \subseteq listed
    BY <1>2 DEF StartExport
  <2> HIDE DEF listed
  <2> QED
    BY <2>1 DEF OfferInv, Whole
<1>3. CASE HeadSubject
  <2>1. /\ export' = [export EXCEPT !.at = "copy", !.subject = {tag}]
        /\ export.at = "head" /\ offered' = offered /\ dir'.listed \in {dir.listed, {}}
    BY <1>3 DEF HeadSubject, NoDir, StoreInv
  <2>2. export'.todo = export.todo /\ export'.done = export.done
    BY <2>1 DEF StoreInv
  <2> QED
    BY <2>1, <2>2 DEF OfferInv, Whole
<1>4. CASE CopyAttachment
  <2>1. PICK a \in export.todo :
          IF a \notin stored
          THEN export' = NoExport /\ UNCHANGED dir
          ELSE /\ dir' = [dir EXCEPT !.layout = @ \cup {a}]
               /\ export' = IF ~IsOurs(a) THEN NoExport
                            ELSE [export EXCEPT !.todo = @ \ {a},
                                                !.done = @ \cup {a}]
    BY <1>4 DEF CopyAttachment
  <2>2. export.at = "copy" /\ offered' = offered
    BY <1>4 DEF CopyAttachment
  <2>3. dir'.listed = dir.listed
    BY <2>1 DEF StoreInv
  <2>4. \/ export'.at = "idle"
        \/ export'.todo = export.todo \ {a} /\ export'.done = export.done \cup {a}
    <3> DEFINE on == [export EXCEPT !.todo = @ \ {a}, !.done = @ \cup {a}]
    <3>1. export' = NoExport \/ export' = on
      BY <2>1
    <3>2. on.todo = export.todo \ {a} /\ on.done = export.done \cup {a}
      BY DEF StoreInv
    <3> HIDE DEF on
    <3> QED
      BY <3>1, <3>2 DEF NoExport
  <2> QED
    BY <2>2, <2>3, <2>4 DEF OfferInv, Whole
<1>5. CASE WriteExportJSON
  <2>1. /\ export.at = "copy" /\ export.todo = {} /\ export' = NoExport
        /\ dir'.listed = export.done
    BY <1>5 DEF WriteExportJSON, StoreInv
  <2> QED
    BY <2>1 DEF OfferInv, Whole, NoExport
<1>6. CASE ExportFails
  BY <1>6 DEF ExportFails, NoExport, OfferInv, Whole
<1>7. CASE Write \/ Discover \/ Move \/ UNCHANGED vars
  BY <1>1, <1>7 DEF Write, Attach, Import, HeadManifest, PutManifest, ReadIndex, WriteIndex,
         WriteFails, Discover, HeadReferrersTag, GetReferrers, ReadEntry,
         HeadCosignTag, ReadCosignTag, DiscoveryFails, Move, vars, exporting
<1>8. CASE \E a \in Artifact : ToolAttaches(a) \/ Collect(a)
  BY <1>1, <1>8 DEF ToolAttaches, Collect, exporting
<1> QED
  BY <1>2, <1>3, <1>4, <1>5, <1>6, <1>7, <1>8 DEF Next, Export

\* Whatever is deleted, moved or attached while it runs, an export that ends
\* has all the evidence that was listed when it began.
THEOREM ExportsAreWhole == Spec => ExportIsWhole
<1>1. Init => OfferInv
  BY DEF Init, OfferInv, NoExport
<1>2. StoreInv /\ OfferInv /\ [Next]_vars => OfferInv' /\ [Whole]_vars
  BY OfferStep
<1>3. Spec => [][Whole]_vars
  BY <1>1, <1>2, StoreCorrect, PTL DEF Spec
<1>4. Whole <=> (dir'.listed \notin {dir.listed, {}} => offered \subseteq dir'.listed)
  BY DEF Whole
<1> QED
  BY <1>3, <1>4, PTL DEF ExportIsWhole

\* What a command has still to restore is not stored yet only while it is
\* still to be written; what is deleted meanwhile is no longer owed.
Owing(progress) ==
    progress.owes \subseteq stored \cup
        IF progress.at \in {"read", "write"}
        THEN progress.todo \ {CHOOSE w \in progress.todo : TRUE}
        ELSE progress.todo
RestoreInv == \A c \in Clients : Owing(client[c])

Restored(c) ==
    client[c] # Idle /\ client'[c] = Idle /\ bounds' = bounds =>
        client[c].owes \subseteq stored'

\* A command that wrote one manifest still owes only what it has left to
\* write.
LEMMA WrittenOwes ==
    ASSUME StoreInv, RestoreInv, NEW c \in Clients, client[c].at # "idle", Written(c),
           stored \subseteq stored',
           client[c].owes \subseteq stored' \cup (client[c].todo \ {Writing(c)})
    PROVE  RestoreInv' /\ \A d \in Clients : Restored(d)
<1> DEFINE rest == client[c].todo \ {Writing(c)}
           next == IF rest = {} THEN Idle
                   ELSE [client[c] EXCEPT !.at = "head", !.todo = rest, !.held = {}]
<1>1. client' = [client EXCEPT ![c] = next] /\ client[c] \in Progress
  BY DEF Written, StoreInv
<1>2. /\ rest = {} => next = Idle
      /\ rest # {} => /\ next.at = "head" /\ next.todo = rest
                      /\ next.owes = client[c].owes
  BY <1>1 DEF Progress
<1> HIDE DEF next
<1>3. \A d \in Clients : client'[d] = IF d = c THEN next ELSE client[d]
  BY <1>1 DEF StoreInv
<1>4. ASSUME NEW d \in Clients
      PROVE  Owing(client[d])'
  <2>1. CASE d = c /\ rest = {}
    BY <1>2, <1>3, <2>1 DEF Owing, Idle
  <2>2. CASE d = c /\ rest # {}
    BY <1>2, <1>3, <2>2 DEF Owing
  <2>3. CASE d # c
    BY <1>3, <2>3 DEF Owing, RestoreInv
  <2> QED
    BY <2>1, <2>2, <2>3
<1>5. ASSUME NEW d \in Clients
      PROVE  Restored(d)
  <2>1. CASE d = c /\ rest = {}
    BY <2>1 DEF Restored
  <2>2. CASE d = c /\ rest # {}
    BY <1>2, <1>3, <2>2 DEF Restored, Idle
  <2>3. CASE d # c
    BY <1>3, <2>3 DEF Restored
  <2> QED
    BY <2>1, <2>2, <2>3
<1> QED
  BY <1>4, <1>5 DEF RestoreInv

\* A command that goes on to another step of the same manifest.
LEMMA GoesOn ==
    ASSUME StoreInv, RestoreInv, NEW c \in Clients, NEW p,
           client' = [client EXCEPT ![c] = p], p.at # "idle",
           stored \subseteq stored',
           p.owes \subseteq stored' \cup
               IF p.at \in {"read", "write"}
               THEN p.todo \ {CHOOSE w \in p.todo : TRUE} ELSE p.todo
    PROVE  RestoreInv' /\ \A d \in Clients : Restored(d)
<1>1. \A d \in Clients : client'[d] = IF d = c THEN p ELSE client[d]
  BY DEF StoreInv
<1>2. ASSUME NEW d \in Clients
      PROVE  Owing(client[d])'
  BY <1>1 DEF Owing, RestoreInv
<1>3. ASSUME NEW d \in Clients
      PROVE  Restored(d)
  BY <1>1 DEF Restored, Idle
<1> QED
  BY <1>2, <1>3 DEF RestoreInv

\* Where the layout holds what is listed, every step keeps what a command
\* owes, and one that ends without a fault has stored it.
LEMMA RestoreStep ==
    ASSUME StoreInv, RestoreInv, dir.listed \subseteq dir.layout, [Next]_vars
    PROVE  RestoreInv' /\ \A d \in Clients : Restored(d)
<1>1. ASSUME client' = client, stored \subseteq stored'
      PROVE  RestoreInv' /\ \A d \in Clients : Restored(d)
  BY <1>1 DEF RestoreInv, Owing, Restored
<1>2. ASSUME NEW c \in Clients, Attach(c)
      PROVE  RestoreInv' /\ \A d \in Clients : Restored(d)
  <2>1. PICK content \in Ours : client' = [client EXCEPT ![c] =
             [at |-> "head", todo |-> {[of |-> tag, is |-> content]},
              held |-> {}, owes |-> {}]]
    BY <1>2 DEF Attach
  <2> QED
    <3> DEFINE p == [at |-> "head", todo |-> {[of |-> tag, is |-> content]},
                     held |-> {}, owes |-> {}]
    <3>1. client' = [client EXCEPT ![c] = p] /\ p.at = "head" /\ p.owes = {}
      BY <2>1
    <3>2. stored' = stored
      BY <1>2 DEF Attach, registry
    <3> HIDE DEF p
    <3> QED
      BY <3>1, <3>2, GoesOn
<1>3. ASSUME NEW c \in Clients, Import(c)
      PROVE  RestoreInv' /\ \A d \in Clients : Restored(d)
  <2>1. client' = [client EXCEPT ![c] =
             [at |-> "head", todo |-> dir.layout, held |-> {}, owes |-> dir.listed]]
    BY <1>3 DEF Import
  <2> QED
    <3> DEFINE p == [at |-> "head", todo |-> dir.layout, held |-> {},
                     owes |-> dir.listed]
    <3>1. /\ client' = [client EXCEPT ![c] = p] /\ p.at = "head"
          /\ p.owes = dir.listed /\ p.todo = dir.layout
      BY <2>1
    <3>2. stored' = stored
      BY <1>3 DEF Import, registry
    <3> HIDE DEF p
    <3> QED
      BY <3>1, <3>2, GoesOn
<1>4. ASSUME NEW c \in Clients, PutManifest(c)
      PROVE  RestoreInv' /\ \A d \in Clients : Restored(d)
  <2>1. /\ client[c].at = "put" /\ stored' = stored \cup {Writing(c)}
        /\ client[c] \in Progress
    BY <1>4 DEF PutManifest, StoreInv
  <2>2. client[c].owes \subseteq stored' \cup (client[c].todo \ {Writing(c)})
    BY <2>1 DEF RestoreInv, Owing
  <2>3. CASE api
    BY <1>4, <2>1, <2>2, <2>3, WrittenOwes DEF PutManifest
  <2>4. CASE ~api
    <3> DEFINE p == [client[c] EXCEPT !.at = "read"]
    <3>1. client' = [client EXCEPT ![c] = p]
      BY <1>4, <2>4 DEF PutManifest
    <3>2. p.at = "read" /\ p.todo = client[c].todo /\ p.owes = client[c].owes
      BY <2>1 DEF Progress
    <3> HIDE DEF p
    <3> QED
      BY <2>1, <2>2, <3>1, <3>2, GoesOn DEF Writing
  <2> QED
    BY <2>3, <2>4
<1>5. ASSUME NEW c \in Clients, ReadIndex(c)
      PROVE  RestoreInv' /\ \A d \in Clients : Restored(d)
  <2>1. client[c].at = "read" /\ stored' = stored /\ client[c] \in Progress
    BY <1>5 DEF ReadIndex, registry, StoreInv
  <2>2. client[c].owes \subseteq stored' \cup (client[c].todo \ {Writing(c)})
    BY <2>1 DEF RestoreInv, Owing, Writing
  <2>3. CASE Writing(c) \in index[Writing(c).of]
    BY <1>5, <2>1, <2>2, <2>3, WrittenOwes DEF ReadIndex
  <2>4. CASE Writing(c) \notin index[Writing(c).of]
    <3> DEFINE p == [client[c] EXCEPT !.at = "write", !.held = index[Writing(c).of]]
    <3>1. client' = [client EXCEPT ![c] = p]
      BY <1>5, <2>4 DEF ReadIndex
    <3>2. p.at = "write" /\ p.todo = client[c].todo /\ p.owes = client[c].owes
      BY <2>1 DEF Progress
    <3> HIDE DEF p
    <3> QED
      BY <2>1, <2>2, <3>1, <3>2, GoesOn DEF Writing
  <2> QED
    BY <2>3, <2>4
<1>6. ASSUME NEW c \in Clients, WriteIndex(c)
      PROVE  RestoreInv' /\ \A d \in Clients : Restored(d)
  <2>1. client[c].at = "write" /\ stored' = stored /\ Written(c)
    BY <1>6 DEF WriteIndex
  <2>2. client[c].owes \subseteq stored' \cup (client[c].todo \ {Writing(c)})
    BY <2>1 DEF RestoreInv, Owing, Writing
  <2> QED
    BY <2>1, <2>2, WrittenOwes
<1>7. ASSUME NEW c \in Clients, WriteFails(c)
      PROVE  RestoreInv' /\ \A d \in Clients : Restored(d)
  <2>1. \A d \in Clients : client'[d] = IF d = c THEN Idle ELSE client[d]
    BY <1>7 DEF WriteFails, StoreInv
  <2>2. stored' = stored
    BY <1>7 DEF WriteFails, registry
  <2>3. bounds' # bounds
    BY <1>7 DEF WriteFails, Fault, Trouble, StoreInv
  <2> QED
    BY <2>1, <2>2, <2>3 DEF RestoreInv, Restored, Owing, Idle
<1>8. ASSUME NEW a \in Artifact, Collect(a)
      PROVE  RestoreInv' /\ \A d \in Clients : Restored(d)
  <2>1. /\ client' = [c \in Clients |-> [client[c] EXCEPT !.owes = @ \ {a}]]
        /\ stored' = stored \ {a}
    BY <1>8 DEF Collect
  <2>2. ASSUME NEW d \in Clients
        PROVE  Owing(client[d])'
    <3>1. /\ client'[d].at = client[d].at /\ client'[d].todo = client[d].todo
          /\ client'[d].owes = client[d].owes \ {a}
      BY <2>1 DEF StoreInv, Progress
    <3> QED
      BY <2>1, <3>1 DEF RestoreInv, Owing
  <2>3. bounds' # bounds
    BY <1>8 DEF Collect, Trouble, StoreInv
  <2> QED
    BY <2>2, <2>3 DEF RestoreInv, Restored
<1>11. ASSUME NEW c \in Clients, HeadManifest(c)
      PROVE  RestoreInv' /\ \A d \in Clients : Restored(d)
  <2>1. client[c].at = "head" /\ stored' = stored /\ client[c] \in Progress
    BY <1>11 DEF HeadManifest, registry, StoreInv
  <2>2. client[c].owes \subseteq stored' \cup client[c].todo
    BY <2>1 DEF RestoreInv, Owing
  <2>3. CASE Writing(c) \in stored
    <3>1. Written(c)
      BY <1>11, <2>3 DEF HeadManifest
    <3> QED
      BY <2>1, <2>2, <2>3, <3>1, WrittenOwes
  <2>4. CASE Writing(c) \notin stored
    <3> DEFINE p == [client[c] EXCEPT !.at = "put"]
    <3>1. client' = [client EXCEPT ![c] = p]
      BY <1>11, <2>4 DEF HeadManifest
    <3>2. p.at = "put" /\ p.todo = client[c].todo /\ p.owes = client[c].owes
      BY <2>1 DEF Progress
    <3> HIDE DEF p
    <3> QED
      BY <2>1, <2>2, <3>1, <3>2, GoesOn
  <2> QED
    BY <2>3, <2>4
<1>9. CASE \E a \in Artifact : ToolAttaches(a)
  BY <1>1, <1>9 DEF ToolAttaches
<1>10. CASE Export \/ Discover \/ Move \/ UNCHANGED vars
  BY <1>1, <1>10 DEF Export, StartExport, HeadSubject, CopyAttachment,
         WriteExportJSON, ExportFails, Discover, HeadReferrersTag, GetReferrers,
         ReadEntry, HeadCosignTag, ReadCosignTag, DiscoveryFails, Move, vars,
         registry
<1> QED
  BY <1>2, <1>3, <1>4, <1>5, <1>6, <1>7, <1>8, <1>9, <1>10, <1>11 DEF Next, Write

\* An import from a directory that was empty before its export puts back all
\* that export.json lists, but for what is deleted again meanwhile, however
\* many others write.
THEOREM ImportsRestore ==
    ASSUME FreshDir
    PROVE  Spec => ImportRestores
<1> DEFINE AllRestored == \A c \in Clients : Restored(c)
<1>1. Init => RestoreInv
  BY DEF Init, RestoreInv, Owing, Idle
<1>2. StoreInv /\ ExportIsTrue /\ RestoreInv /\ [Next]_vars
          => RestoreInv' /\ [AllRestored]_vars
  BY RestoreStep DEF ExportIsTrue
<1>3. AllRestored <=> \A c \in Clients :
          client[c] # Idle /\ client'[c] = Idle /\ bounds' = bounds =>
              client[c].owes \subseteq stored'
  BY DEF Restored
<1> HIDE DEF AllRestored
<1>4. Spec => [][AllRestored]_vars
  BY <1>1, <1>2, StoreCorrect, ExportStaysTrue, PTL DEF Spec
<1> QED
  BY <1>3, <1>4, PTL DEF ImportRestores
-----------------------------------------------------------------------------
(* What a discovery finds.                                                 *)

Known(a) == \/ Form[a.is].kind = ""
            \/ [of |-> a, kind |-> Form[a.is].kind] \in discovery.found
\* A referrers tag from before the API hides what the tag does not list.
Hidden(a) == api /\ discovery.byTag /\ a \notin index[discovery.of]

\* What was attached all along is still there to be read, or was read by the
\* time its turn is over; with the API nobody writes the referrers tag.
FoundInv ==
    /\ discovery \in [at : {"idle", "tag", "api", "entry", "sig", "att", "atts",
                            "done", "unknown"},
                      of : Images, todo : SUBSET Artifact,
                      found : SUBSET {Found(a) : a \in Artifact}, byTag : BOOLEAN]
    /\ discovery.at = "tag" => discovery.byTag
    /\ api => \A c \in Clients : client[c].at \notin {"read", "write"}
    /\ standing \subseteq Attached(discovery.of)
    /\ \A a \in standing :
          /\ IsReferrer(a) =>
                /\ discovery.at = "entry" =>
                      Known(a) \/ Hidden(a) \/ a \in discovery.todo
                /\ discovery.at \in {"sig", "att", "atts", "done"} =>
                      Known(a) \/ Hidden(a)
          /\ Form[a.is].place = ".sig" /\ discovery.at \in {"att", "atts", "done"} =>
                Known(a)
          /\ Form[a.is].place = ".att" /\ discovery.at = "done" => Known(a)

\* What the image has, and that it is found as what it is.
LEMMA AttachedAre ==
    ASSUME StoreInv, NEW i \in Images, NEW a \in Attached(i)
    PROVE  a \in Artifact /\ a.of = i
BY ReferrersAre DEF Attached, CosignTag, StoreInv, AsReferrer

\* An artifact of a known form is found as the kind the form names.
LEMMA FoundIsKnown ==
    ASSUME NEW a \in Artifact, Form[a.is].kind # ""
    PROVE  Found(a) = [of |-> a, kind |-> Form[a.is].kind]
BY KindsAreStored DEF Found, Predicate, Artifact

\* A step that is not the discovery's hides nothing, loses nothing that is
\* still standing, and finds nothing.
LEMMA FoundKept ==
    ASSUME StoreInv, FoundInv, discovery' = discovery, api' = api,
           api => index' = index,
           api => \A c \in Clients : client'[c].at \notin {"read", "write"},
           standing' \subseteq standing, standing' \subseteq Attached(discovery.of)'
    PROVE  FoundInv'
<1>1. \A a : Known(a)' = Known(a)
  BY DEF Known
<1>2. \A a : Hidden(a) => Hidden(a)'
  BY DEF Hidden
<1>3. \A a : IsReferrer(a)' = IsReferrer(a)
  BY DEF IsReferrer
<1>4. ASSUME NEW a \in standing'
      PROVE  a \in standing
  BY <1>4
<1> QED
  BY <1>1, <1>2, <1>3, <1>4 DEF FoundInv

\* Steps of others than the client keep what it found.
LEMMA OthersKeepFound ==
    ASSUME StoreInv, FoundInv,
           \/ Write \/ Export \/ Move \/ UNCHANGED vars
           \/ \E a \in Artifact : ToolAttaches(a) \/ Collect(a)
    PROVE  FoundInv'
<1> USE DEF Attached, Referrers, CosignTag
<1>a. /\ index \in [Images -> SUBSET AsReferrer] /\ discovery.of \in Images
      /\ client \in [Clients -> Progress] /\ standing \subseteq Attached(discovery.of)
  BY DEF StoreInv, FoundInv
<1>1. CASE /\ UNCHANGED <<discovery, standing, api, index>> /\ stored \subseteq stored'
           /\ api => \A c \in Clients : client'[c].at \notin {"read", "write"}
  <2>1. standing \subseteq Attached(discovery.of)'
    BY <1>a, <1>1
  <2> QED
    BY <1>1, <2>1, FoundKept
<1>2. ASSUME NEW c \in Clients, \/ Attach(c) \/ Import(c) \/ HeadManifest(c) \/ PutManifest(c)
                                \/ ReadIndex(c) \/ WriteFails(c)
      PROVE  FoundInv'
  <2>1. /\ UNCHANGED <<discovery, standing, api, index>> /\ stored \subseteq stored'
    BY <1>2 DEF Attach, Import, HeadManifest, PutManifest, ReadIndex, WriteFails, registry, discovering
  <2>2. ASSUME api, NEW d \in Clients
        PROVE  client'[d].at \notin {"read", "write"}
    <3>1. client[d].at \notin {"read", "write"} /\ client[c].at \notin {"read", "write"}
      BY <2>2 DEF FoundInv
    <3>2. CASE d # c
      <4>1. client'[d] = client[d]
        BY <1>2, <1>a, <3>2 DEF Attach, Import, HeadManifest, PutManifest, ReadIndex, WriteFails, Written
      <4> QED
        BY <3>1, <4>1
    <3>3. CASE d = c /\ Attach(c)
      BY <1>a, <3>3 DEF Attach
    <3>4. CASE d = c /\ Import(c)
      BY <1>a, <3>4 DEF Import
    <3>5. CASE d = c /\ WriteFails(c)
      BY <1>a, <3>5 DEF WriteFails, Idle
    <3>6. CASE d = c /\ (HeadManifest(c) \/ PutManifest(c))
      <4>1. client[c].at # "idle"
        BY <3>6 DEF HeadManifest, PutManifest
      <4>2. Written(c) \/ client' = [client EXCEPT ![c].at = "put"]
        BY <2>2, <3>6 DEF HeadManifest, PutManifest
      <4>3. CASE Written(c)
        BY <3>6, <4>1, <4>3, WrittenLeaves DEF Unlisted
      <4>4. CASE client' = [client EXCEPT ![c].at = "put"]
        BY <1>a, <3>6, <4>4 DEF Progress
      <4> QED
        BY <4>2, <4>3, <4>4
    <3>7. ~ReadIndex(c)
      BY <3>1 DEF ReadIndex
    <3> QED
      BY <1>2, <3>2, <3>3, <3>4, <3>5, <3>6, <3>7
  <2> QED
    BY <1>1, <2>1, <2>2
<1>3. ASSUME NEW c \in Clients, WriteIndex(c)
      PROVE  FoundInv'
  <2>1. client[c].at = "write" /\ ~api
    BY <1>3 DEF WriteIndex, FoundInv
  <2>2. UNCHANGED <<discovery, api, stored>>
    BY <1>3 DEF WriteIndex
  <2> DEFINE i == Writing(c).of
  <2>3. /\ index' = [index EXCEPT ![i] = client[c].held \cup {Writing(c)}]
        /\ standing' = standing \cap ({a \in Artifact : a.of # i}
                            \cup {a \in Artifact : ~IsReferrer(a)} \cup index'[i])
    BY <1>3 DEF WriteIndex
  <2>4. ASSUME NEW a \in standing'
        PROVE  a \in Attached(discovery.of)'
    <3>1. a \in Attached(discovery.of) /\ a.of = discovery.of
      BY <1>a, <2>3, <2>4, AttachedAre
    <3>2. CASE a \in CosignTag(discovery.of, ".sig") \cup CosignTag(discovery.of, ".att")
      BY <2>2, <3>2
    <3>3. CASE a \in index[discovery.of]
      <4>1. IsReferrer(a)
        BY <1>a, <3>3 DEF AsReferrer
      <4>2. CASE a.of = i
        <5>1. a \in index'[i]
          BY <2>3, <2>4, <4>1, <4>2
        <5> QED
          BY <2>1, <2>2, <3>1, <4>2, <5>1
      <4>3. CASE a.of # i
        <5>1. index'[discovery.of] = index[discovery.of]
          BY <1>a, <2>3, <3>1, <4>3
        <5> QED
          BY <2>1, <2>2, <3>3, <5>1
      <4> QED
        BY <4>2, <4>3
    <3> QED
      BY <2>1, <3>1, <3>2, <3>3
  <2> HIDE DEF i
  <2> QED
    BY <2>1, <2>2, <2>3, <2>4, FoundKept
<1>4. CASE Export
  BY <1>1, <1>4 DEF FoundInv, Export, StartExport, HeadSubject, CopyAttachment,
         WriteExportJSON, ExportFails, registry, discovering
<1>5. CASE Move
  BY <1>1, <1>5 DEF FoundInv, Move, discovering
<1>6. ASSUME NEW a \in Artifact, ToolAttaches(a)
      PROVE  FoundInv'
  <2>1. /\ UNCHANGED <<discovery, standing, api, client>> /\ stored \subseteq stored'
        /\ api => index' = index
        /\ \A i \in Images : index[i] \subseteq index'[i]
    BY <1>6, <1>a DEF ToolAttaches, discovering
  <2>2. standing \subseteq Attached(discovery.of)'
    BY <1>a, <2>1
  <2> QED
    BY <2>1, <2>2, FoundKept DEF FoundInv
<1>7. ASSUME NEW a \in Artifact, Collect(a)
      PROVE  FoundInv'
  <2>1. /\ UNCHANGED <<discovery, api, index>> /\ standing' = standing \ {a}
        /\ stored' = stored \ {a}
        /\ client' = [c \in Clients |-> [client[c] EXCEPT !.owes = @ \ {a}]]
    BY <1>7 DEF Collect
  <2>2. \A c \in Clients : client'[c].at = client[c].at
    BY <1>a, <2>1 DEF Progress
  <2>3. standing' \subseteq Attached(discovery.of)'
    BY <1>a, <2>1
  <2>4. standing' \subseteq standing /\ discovery' = discovery /\ api' = api /\ index' = index
    BY <2>1
  <2>5. api => \A c \in Clients : client'[c].at \notin {"read", "write"}
    BY <2>2 DEF FoundInv
  <2> QED
    BY <2>3, <2>4, <2>5, FoundKept
<1>8. CASE UNCHANGED vars
  BY <1>1, <1>8 DEF FoundInv, vars, registry, discovering
<1> QED
  BY <1>2, <1>3, <1>4, <1>5, <1>6, <1>7, <1>8 DEF Write

\* Reading an entry finds what a standing attachment is, or ends it all.
LEMMA EntryFound ==
    ASSUME StoreInv, FoundInv, ReadEntry
    PROVE  FoundInv'
<1> DEFINE Ends(a) == MayHoldBundle(a) /\ (a \notin stored \/ Form[a.is].holds = "garbage")
           Finds(a) == /\ ~Ends(a)
                       /\ \/ MayHoldBundle(a) /\ a \in stored /\ Form[a.is].holds = "bundle"
                          \/ Form[a.is].listedAs = "sbom"
           rest(a) == [discovery EXCEPT !.todo = @ \ {a}]
           found(a) == [rest(a) EXCEPT !.found = @ \cup {Found(a)}]
<1>1. /\ discovery.at = "entry"
      /\ UNCHANGED <<api, index, stored, client, standing>>
  BY DEF ReadEntry, registry
<1>2. PICK a \in discovery.todo :
         discovery' = IF Ends(a) THEN Unknown
                      ELSE IF Finds(a) THEN found(a) ELSE rest(a)
  <2>1. PICK a \in discovery.todo : discovery' =
                CASE MayHoldBundle(a) /\ (a \notin stored
                          \/ Form[a.is].holds = "garbage") -> Unknown
                  [] MayHoldBundle(a) /\ a \in stored
                          /\ Form[a.is].holds = "bundle" -> found(a)
                  [] Form[a.is].listedAs = "sbom" -> found(a)
                  [] OTHER -> rest(a)
    BY DEF ReadEntry
  <2>2. ~(MayHoldBundle(a) /\ Form[a.is].listedAs = "sbom")
    BY DEF MayHoldBundle
  <2> HIDE DEF found, rest
  <2>3. CASE Ends(a)
    BY <2>1, <2>2, <2>3
  <2>4. CASE ~Ends(a) /\ Finds(a)
    BY <2>1, <2>2, <2>4
  <2>5. CASE ~Ends(a) /\ ~Finds(a)
    BY <2>1, <2>5
  <2> QED
    BY <2>1, <2>3, <2>4, <2>5
<1>3. a \in Artifact /\ standing \subseteq Attached(discovery.of) /\ discovery.of \in Images
  BY DEF FoundInv
<1>4. Attached(discovery.of)' = Attached(discovery.of)'
  OBVIOUS
<1>5. CASE Ends(a)
  <2>1. discovery' = [discovery EXCEPT !.at = "unknown"]
    BY <1>2, <1>5 DEF Unknown
  <2>2. discovery'.at = "unknown" /\ discovery'.of = discovery.of
    BY <2>1 DEF FoundInv
  <2>3. standing' \subseteq Attached(discovery.of)'
    BY <1>1, <1>3, <2>2 DEF Attached, Referrers, CosignTag, IsReferrer
  <2>4. discovery' \in [at : {"idle", "tag", "api", "entry", "sig", "att", "atts",
                            "done", "unknown"},
                      of : Images, todo : SUBSET Artifact,
                      found : SUBSET {Found(b) : b \in Artifact}, byTag : BOOLEAN]
    BY <2>1 DEF FoundInv
  <2> QED
    BY <1>1, <2>2, <2>3, <2>4 DEF FoundInv
<1>6. CASE ~Ends(a)
  <2>1. /\ discovery'.at = "entry" /\ discovery'.of = discovery.of
        /\ discovery'.todo = discovery.todo \ {a}
        /\ discovery'.byTag = discovery.byTag
        /\ discovery'.found = discovery.found \cup (IF Finds(a) THEN {Found(a)} ELSE {})
        /\ discovery' \in [at : {"idle", "tag", "api", "entry", "sig", "att", "atts",
                              "done", "unknown"},
                        of : Images, todo : SUBSET Artifact,
                        found : SUBSET {Found(b) : b \in Artifact}, byTag : BOOLEAN]
    <3>1. CASE Finds(a)
      <4>1. discovery' = found(a)
        BY <1>2, <1>6, <3>1
      <4> HIDE DEF Finds, Ends
      <4> QED
        BY <1>1, <1>3, <3>1, <4>1 DEF FoundInv
    <3>2. CASE ~Finds(a)
      <4>1. discovery' = rest(a)
        BY <1>2, <1>6, <3>2
      <4> HIDE DEF Finds, Ends
      <4> QED
        BY <1>1, <1>3, <3>2, <4>1 DEF FoundInv
    <3> QED
      BY <3>1, <3>2
  <2>2. standing' \subseteq Attached(discovery.of)'
    BY <1>1, <1>3, <2>1 DEF Attached, Referrers, CosignTag, IsReferrer
  <2>3. ASSUME NEW b \in standing, IsReferrer(b)
        PROVE  Known(b)' \/ Hidden(b)' \/ b \in discovery'.todo
    <3>1. Known(b) \/ Hidden(b) \/ b \in discovery.todo
      BY <1>1, <2>3 DEF FoundInv
    <3>2. Known(b) => Known(b)'
      BY <2>1 DEF Known
    <3>3. Hidden(b) => Hidden(b)'
      BY <1>1, <2>1 DEF Hidden
    <3>4. CASE b = a /\ Form[a.is].kind # ""
      <4>1. Finds(a)
        BY <1>3, <1>6, <2>3, <3>4, KindsAreStored DEF MayHoldBundle, Artifact, IsReferrer
      <4>2. Found(a) \in discovery'.found
        BY <2>1, <4>1
      <4> QED
        BY <1>3, <3>4, <4>2, FoundIsKnown DEF Known
    <3>5. CASE b = a /\ Form[a.is].kind = ""
      BY <3>5 DEF Known
    <3>6. CASE b # a
      BY <2>1, <3>1, <3>2, <3>3, <3>6
    <3> QED
      BY <3>4, <3>5, <3>6
  <2>4. standing' = standing /\ \A b : IsReferrer(b)' = IsReferrer(b)
    BY <1>1 DEF IsReferrer
  <2>5. api' => \A c \in Clients : client'[c].at \notin {"read", "write"}
    BY <1>1 DEF FoundInv
  <2> HIDE DEF Finds, Ends
  <2> QED
    BY <2>1, <2>2, <2>3, <2>4, <2>5 DEF FoundInv
<1> QED
  BY <1>5, <1>6

\* The other steps of a discovery.
LEMMA DiscoverKeeps ==
    ASSUME StoreInv, FoundInv, Discover
    PROVE  FoundInv'
<1>1. UNCHANGED <<api, index, stored, client>>
  BY DEF Discover, HeadReferrersTag, GetReferrers, ReadEntry, HeadCosignTag,
         ReadCosignTag, DiscoveryFails, registry
<1>2. /\ \A i : Attached(i)' = Attached(i)
      /\ api' => \A c \in Clients : client'[c].at \notin {"read", "write"}
  BY <1>1 DEF Attached, Referrers, CosignTag, IsReferrer, FoundInv
<1>3. ASSUME NEW i \in Images, HeadReferrersTag(i)
      PROVE  FoundInv'
  <2>1. /\ discovery' = [at |-> IF index[i] = NoTag THEN "api" ELSE "tag",
                         of |-> i, todo |-> {}, found |-> {},
                         byTag |-> index[i] # NoTag]
        /\ standing' = Attached(i)
    BY <1>3 DEF HeadReferrersTag
  <2>2. discovery'.at \in {"api", "tag"} /\ discovery'.of = i
    BY <2>1
  <2> QED
    BY <1>2, <2>1, <2>2 DEF FoundInv
<1>4. ASSUME standing' = standing, discovery'.of = discovery.of,
             discovery'.found = discovery.found, discovery'.byTag = discovery.byTag
      PROVE  /\ standing' \subseteq Attached(discovery.of)'
             /\ \A a \in standing' : /\ a \in standing /\ IsReferrer(a)' = IsReferrer(a)
                                     /\ Known(a)' = Known(a) /\ Hidden(a)' = Hidden(a)
  BY <1>1, <1>2, <1>4 DEF FoundInv, IsReferrer, Known, Hidden
<1> DEFINE Phases == {"idle", "tag", "api", "entry", "sig", "att", "atts", "done",
                      "unknown"}
           Discoveries == [at : Phases, of : Images, todo : SUBSET Artifact,
                           found : SUBSET {Found(a) : a \in Artifact}, byTag : BOOLEAN]
<1>5. discovery \in Discoveries
  BY DEF FoundInv
<1>6. CASE GetReferrers
  <2> DEFINE todo == IF discovery.at = "tag" THEN index[discovery.of]
                     ELSE Referrers(discovery.of)
  <2>1. /\ discovery.at \in {"tag", "api"} /\ standing' = standing
        /\ discovery' = [discovery EXCEPT !.at = "entry", !.todo = todo]
    BY <1>6 DEF GetReferrers, Looking
  <2>2. todo \subseteq Artifact
    BY <1>5, ReferrersAre DEF StoreInv, AsReferrer
  <2>3. ASSUME NEW a \in standing, IsReferrer(a)
        PROVE  Hidden(a) \/ a \in todo
    <3>1. a \in Referrers(discovery.of)
      BY <2>3 DEF FoundInv, Attached, CosignTag, IsReferrer
    <3>2. CASE discovery.at = "tag" /\ api
      BY <3>2 DEF FoundInv, Hidden
    <3>3. CASE discovery.at = "tag" /\ ~api
      BY <3>1, <3>3 DEF Referrers
    <3>4. CASE discovery.at = "api"
      BY <3>1, <3>4
    <3> QED
      BY <2>1, <3>2, <3>3, <3>4
  <2> HIDE DEF todo
  <2>4. /\ discovery' \in Discoveries /\ discovery'.at = "entry"
        /\ discovery'.of = discovery.of /\ discovery'.found = discovery.found
        /\ discovery'.byTag = discovery.byTag /\ discovery'.todo = todo
    BY <1>5, <2>1, <2>2
  <2> QED
    BY <1>2, <1>4, <2>1, <2>3, <2>4 DEF FoundInv
<1>7. CASE ReadEntry
  BY <1>7, EntryFound
<1>8. ASSUME standing' = standing,
             NEW at \in {"sig", "att", "atts", "done"}, NEW more \in SUBSET Artifact,
             discovery.at \in {"entry", "sig", "att", "atts"},
             discovery.at = "entry" => discovery.todo = {},
             discovery' \in Discoveries,
             discovery'.at = at, discovery'.of = discovery.of,
             discovery'.byTag = discovery.byTag,
             discovery'.found = discovery.found \cup {Found(a) : a \in more},
             \A a \in standing :
                /\ Form[a.is].place = ".sig" /\ at \in {"att", "atts", "done"} =>
                      Known(a) \/ a \in more
                /\ Form[a.is].place = ".att" /\ at = "done" => a \in more
      PROVE  FoundInv'
  <2>1. \A a \in standing : a \in Artifact
    BY <1>5, AttachedAre DEF FoundInv
  <2>2. \A a \in standing : Known(a) => Known(a)'
    BY <1>8 DEF Known
  <2>3. \A a \in standing : Hidden(a) => Hidden(a)'
    BY <1>1, <1>8 DEF Hidden
  <2>4. ASSUME NEW a \in standing, a \in more
        PROVE  Known(a)'
    <3>1. Found(a) \in discovery'.found
      BY <1>8, <2>4
    <3> QED
      BY <2>1, <3>1, FoundIsKnown DEF Known
  <2>5. \A a \in standing : IsReferrer(a) => Known(a) \/ Hidden(a)
    BY <1>8 DEF FoundInv
  <2>6. standing' \subseteq Attached(discovery.of)' /\ \A a : IsReferrer(a)' = IsReferrer(a)
    BY <1>2, <1>8 DEF FoundInv, IsReferrer
  <2> QED
    BY <1>2, <1>8, <2>2, <2>3, <2>4, <2>5, <2>6 DEF FoundInv
<1>9. ASSUME NEW a \in standing, Form[a.is].place \in {".sig", ".att"}
      PROVE  a \in CosignTag(discovery.of, Form[a.is].place)
  BY <1>5, <1>9, AttachedAre, ReferrersAre DEF FoundInv, Attached, CosignTag, AsReferrer, IsReferrer
<1>10. CASE HeadCosignTag
  <2> DEFINE at == IF CosignTag(discovery.of, Suffix[discovery.at]) # {}
                   THEN AfterHead[discovery.at] ELSE AfterRead[discovery.at]
  <2>1. /\ discovery.at \in {"entry", "att"} /\ discovery.todo = {}
        /\ standing' = standing
        /\ discovery' = [discovery EXCEPT !.at = at, !.todo = {}]
    BY <1>10 DEF HeadCosignTag, Looking
  <2>2. /\ discovery.at = "entry" => at \in {"sig", "att"}
        /\ discovery.at = "att" => at \in {"atts", "done"}
    BY <2>1 DEF AfterHead, AfterRead
  <2>3. ASSUME NEW a \in standing
        PROVE  /\ Form[a.is].place = ".sig" /\ at \in {"att", "atts", "done"} => Known(a)
               /\ ~(Form[a.is].place = ".att" /\ at = "done")
    <3>1. CASE Form[a.is].place = ".sig" /\ discovery.at = "entry"
      <4>1. CosignTag(discovery.of, Suffix[discovery.at]) # {}
        BY <1>9, <3>1 DEF Suffix
      <4> QED
        BY <3>1, <4>1 DEF AfterHead
    <3>2. CASE Form[a.is].place = ".sig" /\ discovery.at = "att"
      BY <3>2 DEF FoundInv
    <3>3. CASE Form[a.is].place = ".att" /\ discovery.at = "att"
      <4>1. CosignTag(discovery.of, Suffix[discovery.at]) # {}
        BY <1>9, <3>3 DEF Suffix
      <4> QED
        BY <3>3, <4>1 DEF AfterHead
    <3>4. CASE Form[a.is].place = ".att" /\ discovery.at = "entry"
      BY <2>2, <3>4
    <3> QED
      BY <2>1, <3>1, <3>2, <3>3, <3>4
  <2> HIDE DEF at
  <2>4. /\ discovery' \in Discoveries /\ discovery'.at = at
        /\ discovery'.of = discovery.of /\ discovery'.byTag = discovery.byTag
        /\ discovery'.found = discovery.found \cup {Found(a) : a \in {}}
    BY <1>5, <2>1, <2>2
  <2> QED
    BY <1>8, <2>1, <2>2, <2>3, <2>4
<1>11. CASE ReadCosignTag
  <2> DEFINE entries == CosignTag(discovery.of, Suffix[discovery.at])
  <2>1. discovery.at \in {"sig", "atts"} /\ standing' = standing
    BY <1>11 DEF ReadCosignTag
  <2>2. CASE entries = {}
    <3>1. discovery' = [discovery EXCEPT !.at = "unknown"]
      BY <1>11, <2>2 DEF ReadCosignTag, Unknown
    <3>2. /\ discovery' \in Discoveries /\ discovery'.at = "unknown"
          /\ discovery'.of = discovery.of
      BY <1>5, <3>1
    <3> QED
      BY <1>2, <2>1, <3>2 DEF FoundInv
  <2>3. CASE entries # {}
    <3>1. discovery' = [discovery EXCEPT !.at = AfterRead[discovery.at],
                                         !.found = @ \cup {Found(a) : a \in entries}]
      BY <1>11, <2>3 DEF ReadCosignTag
    <3>2. /\ discovery.at = "sig" => AfterRead[discovery.at] = "att"
          /\ discovery.at = "atts" => AfterRead[discovery.at] = "done"
      BY DEF AfterRead
    <3>3. entries \subseteq Artifact
      BY DEF CosignTag, StoreInv
    <3>4. ASSUME NEW a \in standing
          PROVE  /\ Form[a.is].place = ".sig" => Known(a) \/ a \in entries
                 /\ Form[a.is].place = ".att" /\ discovery.at = "atts" => a \in entries
      <4>1. CASE Form[a.is].place = ".sig" /\ discovery.at = "sig"
        BY <1>9, <4>1 DEF Suffix
      <4>2. CASE Form[a.is].place = ".sig" /\ discovery.at = "atts"
        BY <4>2 DEF FoundInv
      <4>3. CASE Form[a.is].place = ".att" /\ discovery.at = "atts"
        BY <1>9, <4>3 DEF Suffix
      <4> QED
        BY <2>1, <4>1, <4>2, <4>3
    <3> HIDE DEF entries
    <3>5. /\ discovery' \in Discoveries /\ discovery'.at = AfterRead[discovery.at]
          /\ discovery'.of = discovery.of /\ discovery'.byTag = discovery.byTag
          /\ discovery'.found = discovery.found \cup {Found(a) : a \in entries}
      BY <1>5, <2>1, <3>1, <3>2, <3>3
    <3> QED
      BY <1>8, <2>1, <3>2, <3>3, <3>4, <3>5
  <2> QED
    BY <2>2, <2>3
<1>12. CASE DiscoveryFails
  <2>1. discovery' = [discovery EXCEPT !.at = "unknown"] /\ standing' = standing
    BY <1>12 DEF DiscoveryFails, Unknown
  <2>2. /\ discovery' \in Discoveries /\ discovery'.at = "unknown"
        /\ discovery'.of = discovery.of
    BY <1>5, <2>1
  <2> QED
    BY <1>2, <2>1, <2>2 DEF FoundInv
<1> QED
  BY <1>3, <1>6, <1>7, <1>10, <1>11, <1>12 DEF Discover

\* Whatever fails, is deleted or is written meanwhile, and with or without the
\* Referrers API, what is attached throughout is found as what it is, or the
\* image's evidence is unknown.
THEOREM FoundOrElseUnknown == Spec => []FoundOrUnknown
<1>1. Init => FoundInv
  <2> SUFFICES ASSUME Init
               PROVE  FoundInv
    OBVIOUS
  <2>1. discovery = [at |-> "idle", of |-> Released, todo |-> {}, found |-> {},
                     byTag |-> FALSE]
    BY DEF Init, NoDiscovery
  <2>2. standing = {} /\ \A c \in Clients : client[c].at = "idle"
    BY DEF Init, Idle
  <2> QED
    BY <2>1, <2>2, OursAreClasses DEF FoundInv
<1>2. StoreInv /\ FoundInv /\ [Next]_vars => FoundInv'
  BY DiscoverKeeps, OthersKeepFound DEF Next
<1>3. StoreInv /\ FoundInv => FoundOrUnknown
  <2> SUFFICES ASSUME StoreInv, FoundInv, discovery.at = "done", NEW a \in standing,
                      Form[a.is].kind # ""
               PROVE  Known(a) \/ Hidden(a)
    BY DEF FoundOrUnknown, Known, Hidden
  <2>1. a \in Artifact
    BY AttachedAre DEF FoundInv
  <2>2. Form[a.is].place \in {"referrer", ".sig", ".att"}
    BY <2>1, KindsAreStored DEF Artifact
  <2> QED
    BY <2>2 DEF FoundInv, IsReferrer
<1> QED
  BY <1>1, <1>2, <1>3, StoreCorrect, PTL DEF Spec
===============================================================================
