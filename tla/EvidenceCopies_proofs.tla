------------------------ MODULE EvidenceCopies_proofs ------------------------
(***************************************************************************)
(* Proofs about EvidenceCopies, for every policy, every way copies can be  *)
(* attached and any number of failed cosign runs.                          *)
(***************************************************************************)
EXTENDS EvidenceCopies, TLAPS

-----------------------------------------------------------------------------
(* What a cosign run answers.                                              *)

\* A run given an identity finds the content of every copy it signed.
LEMMA CosignFinds ==
    ASSUME NEW ids, NEW i \in DOMAIN attached,
           ~attached[i].raw, attached[i].by \in ids
    PROVE  attached[i].content \in CosignVerifies(ids)
BY DEF CosignVerifies, ToSet

\* Whatever a run verifies is the content of a copy such an identity signed.
LEMMA CosignIsGenuine ==
    ASSUME NEW ids, NEW x \in CosignVerifies(ids)
    PROVE  \E d \in ToSet(attached) :
              ~d.raw /\ d.by \in ids /\ d.content = x
BY DEF CosignVerifies

-----------------------------------------------------------------------------
(* The types the arguments below rest on.                                  *)

\* A copy still pending is one whose turn is to come.
PendingHasTurn ==
    \A i \in DOMAIN attached : status[i] = "pending" =>
        \/ phase = "classify"
        \/ phase = "keys" /\ attached[i].cert \in claims \cup {NoCert}
        \/ phase \in {"ask", "exact"} /\ attached[i].cert \in claims

KeysFromTheFirst == phase = "classify" => nextKey = 1

TypeInv == TypeOK /\ PendingHasTurn /\ KeysFromTheFirst

\* The types hold in every behaviour.
LEMMA TypeInvariant == Spec => []TypeInv
<1>1. Init => TypeInv
  <2> SUFFICES ASSUME Init PROVE TypeInv
    OBVIOUS
  <2>1. attached \in Seq(CopyOptions)
    <3>1. PICK m \in 0..MaxCopies : attached \in [1..m -> CopyOptions]
      BY CopyBounds DEF Init, SeqOf
    <3> QED
      BY <3>1, CopyBounds
  <2>2. nextKey \in 1..(Len(signers) + 1)
    BY PolicyIsPolicy DEF Init
  <2>3. status \in [DOMAIN attached -> Statuses]
    BY DEF Init, Statuses
  <2>4. genuine \in SUBSET Contents /\ exact \in SUBSET Certs
    BY DEF Init
  <2>5. claims \in SUBSET Certs /\ untried \in SUBSET SUBSET Certs
    BY DEF Init
  <2>6. faults \in 0..MaxFaults
    BY CopyBounds DEF Init
  <2> QED
    BY <2>1, <2>2, <2>3, <2>4, <2>5, <2>6 DEF Init, TypeInv, TypeOK, PendingHasTurn, KeysFromTheFirst
<1>2. TypeInv /\ [Next]_vars => TypeInv'
  <2> SUFFICES ASSUME TypeInv, [Next]_vars PROVE TypeInv'
    OBVIOUS
  <2>0. signers \in Seq(Keys \cup Keyless)
    BY PolicyIsPolicy DEF TypeInv, TypeOK, KeysFromTheFirst
  <2>1. CASE Classify
    <3>1. claims' \subseteq Certs
      BY <2>1, CopiesAreCopies DEF Classify, TypeInv, TypeOK, ToSet, Copies
    <3>2. status' \in [DOMAIN attached' -> Statuses]
      BY <2>1 DEF Classify, inputs, Statuses
    <3>3. PendingHasTurn'
      BY <2>1, CopiesAreCopies DEF Classify, inputs, PendingHasTurn, TypeInv, TypeOK, ToSet, Copies
    <3>4. phase' = "done" => DOMAIN attached' = {}
      BY <2>1 DEF Classify, inputs
    <3> QED
      BY <2>1, <3>1, <3>2, <3>3, <3>4 DEF Classify, inputs, TypeInv, TypeOK, KeysFromTheFirst
  <2>2. CASE KeyVerifies
    <3>1. status' \in [DOMAIN attached' -> Statuses]
      BY <2>2 DEF KeyVerifies, Set, Passed, inputs, Statuses, TypeInv, TypeOK, KeysFromTheFirst
    <3>2. PendingHasTurn'
      BY <2>2 DEF KeyVerifies, KeyToTry, Set, Passed, inputs, TypeInv, TypeOK, PendingHasTurn, KeysFromTheFirst
    <3> QED
      BY <2>2, <3>1, <3>2 DEF KeyVerifies, KeyToTry, inputs, TypeInv, TypeOK, KeysFromTheFirst
  <2>3. CASE KeyDoesNotVerify
    <3>1. nextKey' \in 1..(Len(signers') + 1)
      BY <2>0, <2>3 DEF KeyDoesNotVerify, KeyToTry, inputs, TypeInv, TypeOK, KeysFromTheFirst
    <3>2. faults' \in 0..MaxFaults
      BY <2>3, CopyBounds DEF KeyDoesNotVerify, Fault, TypeInv, TypeOK, KeysFromTheFirst
    <3> QED
      BY <2>3, <3>1, <3>2 DEF KeyDoesNotVerify, inputs, TypeInv, TypeOK, PendingHasTurn, KeysFromTheFirst, KeyToTry
  <2>4. CASE KeysDone
    <3>1. status' \in [DOMAIN attached' -> Statuses]
      BY <2>4 DEF KeysDone, Set, inputs, Statuses, TypeInv, TypeOK, KeysFromTheFirst
    <3>2. untried' \in SUBSET SUBSET Certs
      <4>1. \A c : Accepting(c) \subseteq Keyless
        BY <2>0 DEF Accepting, Trusted, ToSet
      <4>2. \A s \in Keyless : FlagIdentities[s] \subseteq Certs
        BY PolicyIsPolicy
      <4>3. {FlagIdentities[s] : s \in UNION {Accepting(c) : c \in claims}}
                \in SUBSET SUBSET Certs
        BY <4>1, <4>2
      <4> QED
        BY <2>4, <4>3 DEF KeysDone, AfterKeys, TypeInv, TypeOK, KeysFromTheFirst
    <3>3. PendingHasTurn'
      BY <2>4 DEF KeysDone, AfterKeys, Set, Pending, inputs, TypeInv, TypeOK, PendingHasTurn, KeysFromTheFirst
    <3>4. phase' \in {"ask", "exact"}
      BY <2>4 DEF KeysDone, AfterKeys
    <3> QED
      BY <2>4, <3>1, <3>2, <3>3, <3>4 DEF KeysDone, inputs, TypeInv, TypeOK, KeysFromTheFirst
  <2>5. ASSUME NEW ids \in untried, Ask(ids) PROVE TypeInv'
    <3>1. CosignVerifies(ids) \subseteq Contents
      BY CopiesAreCopies DEF CosignVerifies, TypeInv, TypeOK, ToSet, Copies
    <3>2. faults' \in 0..MaxFaults
      BY <2>5, CopyBounds DEF Ask, Fault, TypeInv, TypeOK, KeysFromTheFirst
    <3>3. genuine' \in SUBSET Contents /\ signed' \in BOOLEAN
      BY <2>5, <3>1 DEF Ask, TypeInv, TypeOK, KeysFromTheFirst
    <3> QED
      BY <2>5, <3>2, <3>3 DEF Ask, inputs, TypeInv, TypeOK, PendingHasTurn, KeysFromTheFirst
  <2>6. CASE KeepGenuine
    <3>1. status' \in [DOMAIN attached' -> Statuses]
      BY <2>6 DEF KeepGenuine, Set, inputs, Statuses, TypeInv, TypeOK, KeysFromTheFirst
    <3>2. PendingHasTurn'
      BY <2>6 DEF KeepGenuine, Set, inputs, TypeInv, TypeOK, PendingHasTurn, KeysFromTheFirst
    <3> QED
      BY <2>6, <3>1, <3>2 DEF KeepGenuine, inputs, TypeInv, TypeOK, KeysFromTheFirst
  <2>7. ASSUME NEW cert \in claims, VerifyExactly(cert) PROVE TypeInv'
    <3>1. status' \in [DOMAIN attached' -> Statuses]
      BY <2>7 DEF VerifyExactly, Set, Passed, inputs, Statuses, TypeInv, TypeOK, KeysFromTheFirst
    <3>2. PendingHasTurn'
      BY <2>7 DEF VerifyExactly, Set, Passed, Pending, inputs, TypeInv, TypeOK, PendingHasTurn, KeysFromTheFirst
    <3>3. faults' \in 0..MaxFaults
      <4>1. UNCHANGED faults \/ Fault
        BY <2>7 DEF VerifyExactly
      <4> QED
        BY <4>1, CopyBounds DEF Fault, TypeInv, TypeOK, KeysFromTheFirst
    <3> QED
      BY <2>7, <3>1, <3>2, <3>3 DEF VerifyExactly, inputs, TypeInv, TypeOK, KeysFromTheFirst
  <2>8. CASE Conclude
    BY <2>8 DEF Conclude, Verified, inputs, TypeInv, TypeOK, PendingHasTurn, KeysFromTheFirst
  <2>9. CASE UNCHANGED vars
    BY <2>9 DEF vars, inputs, TypeInv, TypeOK, PendingHasTurn, KeysFromTheFirst
  <2> QED
    BY <2>1, <2>2, <2>3, <2>4, <2>5, <2>6, <2>7, <2>8, <2>9 DEF Next
<1> QED
  BY <1>1, <1>2, PTL DEF Spec

\* Every variable keeps its type, and no copy is left undecided when
\* verifyEvidence returns.
THEOREM TypeCorrect == Spec => []TypeOK
<1>1. TypeInv => TypeOK
  BY DEF TypeInv
<1> QED
  BY <1>1, TypeInvariant, PTL

-----------------------------------------------------------------------------
(* Soundness: what is verified was signed by someone trusted.              *)

\* A copy that passes the answer of a run for one trusted identity is
\* vouched for by that identity.
LEMMA PassedIsVouched ==
    ASSUME attached \in Seq(CopyOptions),
           NEW id \in Certs \cup Keys, NEW i \in DOMAIN attached,
           attached[i].cert = IF id \in Keys THEN NoCert ELSE id,
           id \in Keys => id \in Trusted,
           CosignVerifies({id}) # {},
           Passed(i, CosignVerifies({id})) = "verified"
    PROVE  \E copy \in ToSet(attached) :
              /\ Vouched(copy)
              /\ copy.cert = attached[i].cert
              /\ kind = "signature" \/ copy.content = attached[i].content
<1>1. PICK x \in CosignVerifies({id}) :
         kind = "signature" \/ x = attached[i].content
  BY DEF Passed
<1>2. PICK d \in ToSet(attached) : ~d.raw /\ d.by = id /\ d.content = x
  BY <1>1, CosignIsGenuine
<1>3. d \in CopyOptions
  BY DEF ToSet
<1>4. d.cert = attached[i].cert
  BY <1>2, <1>3, CopiesAreCopies, SignersAreApart
<1>5. id \in Vouchers
  <2>1. CASE id \in Keys
    BY <2>1 DEF Vouchers
  <2>2. CASE id \in Certs
    <3>1. attached[i].cert = id /\ ~Unchecked(id)
      BY <2>2, SignersAreApart DEF Passed
    <3> QED
      BY <2>2, <3>1 DEF Unchecked, Accepting, Vouchers
  <2> QED
    BY <2>1, <2>2
<1> QED
  BY <1>1, <1>2, <1>4, <1>5 DEF Vouched

\* A verified copy's content was signed by an identity the policy trusts,
\* whatever else is attached and whichever cosign runs fail.
THEOREM OnlyVouchedIsVerified == Spec => []VerifiedIsVouched
<1>1. Init => VerifiedIsVouched
  BY DEF Init, VerifiedIsVouched, Verified
<1>2. TypeInv /\ VerifiedIsVouched /\ [Next]_vars => VerifiedIsVouched'
  <2> SUFFICES ASSUME TypeInv, VerifiedIsVouched, [Next]_vars
               PROVE  VerifiedIsVouched'
    OBVIOUS
  <2> DEFINE VouchedLike(i) == \E copy \in ToSet(attached) :
                 /\ Vouched(copy)
                 /\ copy.cert = attached[i].cert
                 /\ kind = "signature" \/ copy.content = attached[i].content
  <2>0. /\ attached \in Seq(CopyOptions) /\ claims \subseteq Certs
        /\ signers \in Seq(Keys \cup Keyless)
    BY PolicyIsPolicy DEF TypeInv, TypeOK
  <2>1. attached' = attached /\ signers' = signers /\ kind' = kind
    BY DEF Next, vars, inputs, Classify, KeyVerifies, KeyDoesNotVerify,
           KeysDone, Ask, KeepGenuine, VerifyExactly, Conclude
  <2>2. SUFFICES ASSUME NEW i \in DOMAIN attached, status'[i] = "verified",
                        status[i] # "verified"
                 PROVE  VouchedLike(i)
    BY <2>1 DEF VerifiedIsVouched, Verified, Vouched, Vouchers, Trusted,
                CallerUnchecked
  <2>3. CASE KeyVerifies
    <3>1. /\ signers[nextKey] \in Keys /\ nextKey \in DOMAIN signers
          /\ CosignVerifies({signers[nextKey]}) # {}
          /\ i \in Pending(NoCert)
          /\ Passed(i, CosignVerifies({signers[nextKey]})) = "verified"
      BY <2>2, <2>3 DEF KeyVerifies, KeyToTry, Set
    <3>2. signers[nextKey] \in Trusted
      BY <3>1 DEF Trusted, ToSet
    <3>3. attached[i].cert = NoCert
      BY <3>1 DEF Pending
    <3> QED
      BY <2>0, <3>1, <3>2, <3>3, PassedIsVouched
  <2>4. ASSUME NEW cert \in claims, VerifyExactly(cert) PROVE VouchedLike(i)
    <3>1. /\ CosignVerifies({cert}) # {}
          /\ i \in Pending(cert)
          /\ Passed(i, CosignVerifies({cert})) = "verified"
      BY <2>2, <2>4 DEF VerifyExactly, Set
    <3>2. attached[i].cert = cert /\ cert \in Certs /\ cert \notin Keys
      BY <2>0, <3>1, SignersAreApart DEF Pending
    <3> QED
      BY <2>0, <3>1, <3>2, PassedIsVouched
  <2>5. CASE Classify
    BY <2>2, <2>5 DEF Classify
  <2>6. CASE KeysDone
    BY <2>2, <2>6 DEF KeysDone, Set
  <2>7. CASE KeepGenuine
    BY <2>2, <2>7 DEF KeepGenuine, Set
  <2>8. CASE UNCHANGED status
    BY <2>2, <2>8
  <2> QED
    BY <2>3, <2>4, <2>5, <2>6, <2>7, <2>8
       DEF Next, vars, KeyDoesNotVerify, Ask, Conclude
<1> QED
  BY <1>1, <1>2, TypeInvariant, PTL DEF Spec

-----------------------------------------------------------------------------
(* Completeness: with no failed run, what someone trusted signed is         *)
(* verified.                                                               *)

\* One of several trusted keys decides for all, so keys count when alone.
Counts(i) ==
    /\ Vouched(attached[i])
    /\ attached[i].by \in Keys => ~MoreThanOne(Trusted \cap Keys)

\* The key that signed copy i has not been tried yet.
KeyAhead(i) ==
    /\ attached[i].cert = NoCert
    /\ \E j \in nextKey..Len(signers) : signers[j] = attached[i].by

\* Every run that decides whether i's signer is dropped is still to come, or
\* has found i's content.
AnswerAhead(i) ==
    \A s \in Accepting(attached[i].cert) :
        \/ FlagIdentities[s] \in untried
        \/ signed /\ attached[i].content \in genuine

\* Where a copy someone trusted signed is, while no run has failed.
OnCourse(i) ==
    \/ status[i] = "verified"
    \/ /\ status[i] = "pending"
       /\ \/ phase = "classify"
          \/ phase = "keys" /\ attached[i].by \in Keys /\ KeyAhead(i)
          \/ /\ phase \in {"keys", "ask", "exact"}
             /\ attached[i].cert = attached[i].by
             /\ attached[i].cert \in claims
             /\ phase = "ask" => AnswerAhead(i)

AllOnCourse ==
    faults = 0 /\ Usable =>
        \A i \in DOMAIN attached : Counts(i) => OnCourse(i)

\* No step changes what is attached, who signed it or what it is.
LEMMA InputsKept ==
    ASSUME [Next]_vars
    PROVE  attached' = attached /\ signers' = signers /\ kind' = kind
BY DEF Next, vars, inputs, Classify, KeyVerifies, KeyDoesNotVerify,
       KeysDone, Ask, KeepGenuine, VerifyExactly, Conclude

\* Where no fault has happened after a step, none had before it.
LEMMA NoFaultYet ==
    ASSUME TypeInv, [Next]_vars, faults' = 0
    PROVE  faults = 0
<1>1. UNCHANGED faults \/ Fault
  BY DEF Next, vars, Classify, KeyVerifies, KeyDoesNotVerify, KeysDone, Ask,
         KeepGenuine, VerifyExactly, Conclude
<1> QED
  BY <1>1, CopyBounds DEF TypeInv, TypeOK, Fault

\* A copy that an identity really signed passes that identity's run.
LEMMA GenuinePasses ==
    ASSUME attached \in Seq(CopyOptions), NEW i \in DOMAIN attached,
           Vouched(attached[i])
    PROVE  Passed(i, CosignVerifies({attached[i].by})) = "verified"
<1>1. attached[i].content \in CosignVerifies({attached[i].by})
  BY CosignFinds DEF Vouched
<1>2. ~Unchecked(attached[i].cert)
  <2>1. CASE attached[i].by \in Keys
    BY <2>1, CopiesAreCopies, SignersAreApart DEF Unchecked
  <2>2. CASE attached[i].by \notin Keys
    BY <2>2, CopiesAreCopies DEF Unchecked, Vouched, Vouchers, Accepting
  <2> QED
    BY <2>1, <2>2
<1> QED
  BY <1>1, <1>2 DEF Passed

\* A step without a fault keeps each copy that counts on its way to being
\* verified.
LEMMA CourseKept ==
    ASSUME TypeInv, AllOnCourse, [Next]_vars,
           faults' = 0, Usable,
           NEW i \in DOMAIN attached, Counts(i)
    PROVE  OnCourse(i)'
<1>0. /\ attached \in Seq(CopyOptions) /\ claims \subseteq Certs
      /\ signers \in Seq(Keys \cup Keyless) /\ faults = 0 /\ faults \in Nat
      /\ nextKey \in 1..(Len(signers) + 1)
      /\ attached' = attached /\ signers' = signers
  BY InputsKept, NoFaultYet, PolicyIsPolicy DEF TypeInv, TypeOK
<1>1. OnCourse(i)
  BY <1>0 DEF AllOnCourse
<1>2. /\ ~attached[i].raw
      /\ attached[i].by \in Certs \cup Keys
      /\ attached[i].by \in Certs => attached[i].cert = attached[i].by
      /\ attached[i].by \in Keys => attached[i].cert = NoCert
  BY <1>0, CopiesAreCopies DEF Counts, Vouched, Vouchers
<1>3. CASE Classify
  <2>1. signers # <<>> /\ Trusted # {}
    <3>1. \E s \in Trusted : TRUE
      BY DEF Counts, Vouched, Vouchers
    <3> QED
      BY <3>1 DEF Trusted, ToSet
  <2>2. attached[i].cert \in Certs => Accepting(attached[i].cert) # {}
    BY <1>2, SignersAreApart DEF Counts, Vouched, Vouchers, Accepting
  <2>3. Undecided(attached[i])
    BY <1>2, <2>1, <2>2 DEF Undecided, Usable
  <2>4. attached # <<>>
    OBVIOUS
  <2>5. status'[i] = "pending" /\ phase' = "keys"
    BY <1>3, <2>3, <2>4 DEF Classify
  <2>6. CASE attached[i].by \in Certs
    <3>1. attached[i].cert \in claims'
      BY <1>2, <1>3, <2>3, <2>6, SignersAreApart DEF Classify, ToSet
    <3> QED
      BY <1>0, <1>2, <2>5, <2>6, <3>1 DEF OnCourse
  <2>7. CASE attached[i].by \in Keys
    <3>1. \E j \in DOMAIN signers : signers[j] = attached[i].by
      BY <2>7, SignersAreApart DEF Counts, Vouched, Vouchers, Trusted, ToSet
    <3>2. nextKey' = 1
      BY <1>3 DEF Classify, TypeInv, KeysFromTheFirst
    <3>3. KeyAhead(i)'
      BY <1>0, <1>2, <2>7, <3>1, <3>2 DEF KeyAhead
    <3> QED
      BY <1>0, <2>5, <2>7, <3>3 DEF OnCourse
  <2> QED
    BY <1>2, <2>6, <2>7
<1>4. CASE KeyVerifies
  <2>1. CASE status[i] = "verified"
    BY <1>0, <1>4, <2>1 DEF KeyVerifies, Pending, Set, OnCourse
  <2>2. CASE status[i] = "pending" /\ attached[i].by \in Keys /\ KeyAhead(i)
    <3>1. signers[nextKey] = attached[i].by
      <4>1. signers[nextKey] \in Trusted \cap Keys
        BY <1>4 DEF KeyVerifies, KeyToTry, Trusted, ToSet
      <4>2. attached[i].by \in Trusted \cap Keys
        BY <2>2, SignersAreApart DEF Counts, Vouched, Vouchers
      <4> QED
        BY <2>2, <4>1, <4>2 DEF Counts, MoreThanOne
    <3>2. i \in Pending(NoCert)
      BY <2>2 DEF KeyAhead, Pending
    <3>3. status'[i] = "verified"
      BY <1>0, <1>4, <3>1, <3>2, GenuinePasses DEF KeyVerifies, Set, Counts
    <3> QED
      BY <1>0, <3>3 DEF OnCourse
  <2>3. CASE status[i] = "pending" /\ attached[i].cert \in claims
             /\ attached[i].cert = attached[i].by
    <3>0. i \notin Pending(NoCert)
      BY <1>0, <2>3, SignersAreApart DEF Pending
    <3>1. status'[i] = "pending"
      BY <1>0, <1>4, <2>3, <3>0 DEF KeyVerifies, Set
    <3> QED
      BY <1>0, <1>4, <2>3, <3>1 DEF KeyVerifies, KeyToTry, OnCourse
  <2> QED
    BY <1>1, <1>4, <2>1, <2>2, <2>3 DEF OnCourse, KeyVerifies, KeyToTry
<1>5. CASE KeyDoesNotVerify
  <2>1. UNCHANGED <<status, phase, claims>> /\ phase = "keys"
    BY <1>5 DEF KeyDoesNotVerify, KeyToTry
  <2>2. CASE status[i] = "pending" /\ attached[i].by \in Keys /\ KeyAhead(i)
    <3>1. \/ signers[nextKey] \notin Keys
          \/ CosignVerifies({signers[nextKey]}) = {}
      <4>1. ~Fault
        BY <1>0 DEF Fault
      <4> QED
        BY <1>5, <4>1 DEF KeyDoesNotVerify
    <3>2. signers[nextKey] # attached[i].by
      BY <1>2, <2>2, <3>1, CosignFinds
    <3>3. KeyAhead(i)'
      BY <1>0, <1>5, <2>2, <3>2 DEF KeyAhead, KeyDoesNotVerify
    <3> QED
      BY <1>0, <2>1, <2>2, <3>3 DEF OnCourse
  <2> QED
    BY <1>0, <1>1, <2>1, <2>2 DEF OnCourse
<1>6. CASE KeysDone
  <2>1. CASE status[i] = "verified"
    BY <1>0, <1>6, <2>1 DEF KeysDone, Pending, Set, OnCourse
  <2>2. ~(status[i] = "pending" /\ attached[i].by \in Keys /\ KeyAhead(i))
    <3>1. KeyAhead(i) => nextKey \in DOMAIN signers
      BY <1>0 DEF KeyAhead
    <3>2. status[i] = "pending" /\ KeyAhead(i) => i \in Pending(NoCert)
      BY DEF KeyAhead, Pending
    <3> QED
      BY <1>6, <3>1, <3>2 DEF KeysDone
  <2>3. CASE status[i] = "pending" /\ attached[i].cert \in claims
             /\ attached[i].cert = attached[i].by
    <3>1. status'[i] = "pending"
      BY <1>0, <1>6, <2>3, SignersAreApart DEF KeysDone, Set, Pending
    <3>2. phase' = "ask" => AnswerAhead(i)'
      <4>1. Accepting(attached[i].cert)' = Accepting(attached[i].cert)
        BY <1>0 DEF Accepting, Trusted
      <4>2. phase' = "ask" => untried' = {FlagIdentities[s] :
                                 s \in UNION {Accepting(c) : c \in claims}}
        BY <1>6 DEF KeysDone, AfterKeys
      <4> QED
        BY <2>3, <4>1, <4>2 DEF AnswerAhead
    <3>3. phase' \in {"ask", "exact"} /\ claims' = claims
      BY <1>6 DEF KeysDone, AfterKeys
    <3> QED
      BY <1>0, <2>3, <3>1, <3>2, <3>3 DEF OnCourse
  <2> QED
    BY <1>1, <1>6, <2>1, <2>2, <2>3 DEF OnCourse, KeysDone
<1>7. ASSUME NEW ids \in untried, Ask(ids) PROVE OnCourse(i)'
  <2>1. /\ UNCHANGED <<status, phase, claims>> /\ phase = "ask"
        /\ untried' = untried \ {ids}
        /\ genuine' = genuine \cup CosignVerifies(ids)
        /\ signed' = (signed \/ CosignVerifies(ids) # {})
    BY <1>0, <1>7 DEF Ask, Fault
  <2>2. CASE status[i] = "pending" /\ attached[i].cert \in claims
             /\ attached[i].cert = attached[i].by /\ AnswerAhead(i)
    <3>1. SUFFICES ASSUME NEW s \in Accepting(attached[i].cert),
                          FlagIdentities[s] = ids
                   PROVE  /\ CosignVerifies(ids) # {}
                          /\ attached[i].content \in CosignVerifies(ids)
      BY <1>0, <2>1, <2>2 DEF OnCourse, AnswerAhead, Accepting, Trusted
    <3>2. s \in Keyless /\ attached[i].by \in Accepts[s]
      BY <1>0, <2>2 DEF Accepting, Trusted, ToSet
    <3>3. attached[i].by \in ids
      BY <3>1, <3>2, PolicyIsPolicy
    <3> QED
      BY <1>2, <3>3, CosignFinds
  <2> QED
    BY <1>0, <1>1, <2>1, <2>2 DEF OnCourse
<1>8. CASE KeepGenuine
  <2>1. CASE status[i] = "verified"
    BY <1>0, <1>8, <2>1 DEF KeepGenuine, Set, OnCourse
  <2>2. CASE status[i] = "pending" /\ attached[i].cert \in claims
             /\ attached[i].cert = attached[i].by /\ AnswerAhead(i)
    <3>1. Accepting(attached[i].cert) # {}
      BY <1>0, <1>2, <2>2, SignersAreApart DEF Counts, Vouched, Vouchers, Accepting
    <3>2. attached[i].content \in genuine
      BY <1>8, <2>2, <3>1 DEF KeepGenuine, AnswerAhead
    <3>3. attached[i].cert \in claims'
      BY <1>8, <2>2, <3>2 DEF KeepGenuine, Pending
    <3>4. status'[i] = "pending"
      BY <1>0, <1>8, <2>2, <3>3 DEF KeepGenuine, Set
    <3> QED
      BY <1>0, <1>8, <2>2, <3>3, <3>4 DEF KeepGenuine, OnCourse
  <2> QED
    BY <1>1, <1>8, <2>1, <2>2 DEF OnCourse, KeepGenuine
<1>9. ASSUME NEW cert \in claims, VerifyExactly(cert) PROVE OnCourse(i)'
  <2>1. CASE status[i] = "verified"
    <3>1. i \notin Pending(cert)
      BY <2>1 DEF Pending
    <3> QED
      BY <1>0, <1>9, <2>1, <3>1 DEF VerifyExactly, Set, OnCourse
  <2>2. CASE status[i] = "pending" /\ attached[i].cert \in claims
             /\ attached[i].cert = attached[i].by /\ attached[i].cert = cert
    <3>1. CosignVerifies({cert}) # {}
      BY <1>2, <2>2, CosignFinds
    <3>2. /\ i \in Pending(cert)
          /\ Passed(i, CosignVerifies({cert})) = "verified"
      BY <1>0, <2>2, GenuinePasses DEF Pending, Counts
    <3>3. ~Fault
      BY <1>0 DEF Fault
    <3>4. status'[i] = "verified"
      BY <1>9, <3>1, <3>2, <3>3 DEF VerifyExactly, Set
    <3> QED
      BY <1>0, <3>4 DEF OnCourse
  <2>3. CASE status[i] = "pending" /\ attached[i].cert \in claims
             /\ attached[i].cert = attached[i].by /\ attached[i].cert # cert
    <3>1. i \notin Pending(cert)
      BY <2>3 DEF Pending
    <3>2. status'[i] = "pending" /\ attached[i].cert \in claims' /\ phase' = "exact"
      BY <1>0, <1>9, <2>3, <3>1 DEF VerifyExactly, Set
    <3> QED
      BY <1>0, <2>3, <3>2 DEF OnCourse
  <2> QED
    BY <1>1, <1>9, <2>1, <2>2, <2>3 DEF OnCourse, VerifyExactly
<1>10. CASE Conclude
  BY <1>0, <1>1, <1>10 DEF Conclude, OnCourse
<1>11. CASE UNCHANGED vars
  BY <1>0, <1>1, <1>11 DEF vars, OnCourse, KeyAhead, AnswerAhead, Accepting, Trusted
<1> QED
  BY <1>3, <1>4, <1>5, <1>6, <1>7, <1>8, <1>9, <1>10, <1>11 DEF Next

\* Every copy that counts is on course in every behaviour.
LEMMA CourseInvariant == Spec => []AllOnCourse
<1>1. Init => AllOnCourse
  BY DEF Init, AllOnCourse, OnCourse
<1>2. TypeInv /\ AllOnCourse /\ [Next]_vars => AllOnCourse'
  <2> SUFFICES ASSUME TypeInv, AllOnCourse, [Next]_vars, faults' = 0, Usable',
                      NEW i \in DOMAIN attached', Counts(i)'
               PROVE  OnCourse(i)'
    BY DEF AllOnCourse
  <2>1. Usable /\ i \in DOMAIN attached /\ Counts(i)
    BY InputsKept DEF Usable, Counts, Trusted, Vouched, Vouchers
  <2> QED
    BY <2>1, CourseKept
<1> QED
  BY <1>1, <1>2, TypeInvariant, PTL DEF Spec

\* With no failed cosign run, every copy someone trusted signed is verified,
\* however many other copies are attached and whatever they claim.
THEOREM NothingCrowdsOut == Spec => []NoCrowdingOut
<1>1. AllOnCourse => NoCrowdingOut
  BY DEF AllOnCourse, NoCrowdingOut, OnCourse, Counts
<1> QED
  BY <1>1, CourseInvariant, PTL

-----------------------------------------------------------------------------
(* The item stands on the newest verified copy.                            *)

BestIsNewest ==
    phase = "done" =>
        \/ best = 0 /\ Verified = {}
        \/ best \in Verified /\ \A j \in Verified : ~Newer(j, best)

\* The best copy so far is the newest in every behaviour.
LEMMA BestInvariant == Spec => []BestIsNewest
<1>1. Init => BestIsNewest
  BY DEF Init, BestIsNewest
<1>2. TypeInv /\ BestIsNewest /\ [Next]_vars => BestIsNewest'
  <2> SUFFICES ASSUME TypeInv, BestIsNewest, [Next]_vars, phase' = "done"
               PROVE  BestIsNewest'
    BY DEF BestIsNewest
  <2>1. CASE Conclude
    BY <2>1 DEF Conclude, inputs, BestIsNewest, Verified, Newer
  <2>2. CASE Classify
    <3>1. phase = "classify" /\ attached = <<>> /\ best' = best
          /\ attached' = attached
      BY <2>2 DEF Classify, inputs
    <3>2. best = 0
      BY <3>1 DEF TypeInv, TypeOK
    <3> QED
      BY <3>1, <3>2 DEF BestIsNewest, Verified
  <2>3. CASE UNCHANGED vars
    BY <2>3 DEF vars, BestIsNewest, Verified, Newer
  <2> QED
    BY <2>1, <2>2, <2>3 DEF Next, KeyVerifies, KeyToTry, KeyDoesNotVerify,
       KeysDone, AfterKeys, Ask, KeepGenuine, VerifyExactly
<1> QED
  BY <1>1, <1>2, TypeInvariant, PTL DEF Spec

\* With no failed cosign run, the item never stands on a copy while someone
\* trusted signed a newer one.
THEOREM NewestVouchedWins == Spec => []NothingNewerVouched
<1>1. TypeInv /\ AllOnCourse /\ BestIsNewest => NothingNewerVouched
  <2> SUFFICES ASSUME TypeInv, AllOnCourse, BestIsNewest,
                      phase = "done", faults = 0, Usable,
                      ~MoreThanOne(Trusted \cap Keys),
                      NEW i \in DOMAIN attached, Vouched(attached[i])
               PROVE  /\ best # 0
                      /\ IF kind = "scan"
                         THEN ScanTime[attached[best].content]
                                  >= ScanTime[attached[i].content]
                         ELSE best <= i
    BY DEF NothingNewerVouched
  <2>1. i \in Verified
    BY DEF AllOnCourse, OnCourse, Counts, Verified
  <2>2. best \in Verified /\ ~Newer(i, best)
    BY <2>1 DEF BestIsNewest
  <2>3. best \in DOMAIN attached /\ best \in Nat \ {0} /\ i \in Nat \ {0}
    BY <2>2 DEF Verified, TypeInv, TypeOK
  <2>4. \A j \in DOMAIN attached : ScanTime[attached[j].content] \in Nat
    BY CopiesAreCopies, PolicyIsPolicy DEF TypeInv, TypeOK, Copies
  <2> QED
    BY <2>2, <2>3, <2>4 DEF Newer
<1> QED
  BY <1>1, TypeInvariant, CourseInvariant, BestInvariant, PTL

-----------------------------------------------------------------------------
(* What made-up certificates cost.                                         *)

\* Content some identity under the flags of a trusted signer signed.
FoundGenuine(x) ==
    \E d \in ToSet(attached) :
        /\ ~d.raw /\ d.content = x
        /\ \E s \in Trusted \ Keys : d.by \in FlagIdentities[s]

\* cert is named by a copy that holds such content.
Earned(cert) ==
    \E c \in ToSet(attached) :
        c.cert = cert /\ ~c.raw /\ FoundGenuine(c.content)

CostInv ==
    /\ \A ids \in untried : \E s \in Trusted \ Keys : ids = FlagIdentities[s]
    /\ \A x \in genuine : FoundGenuine(x)
    /\ phase \in {"classify", "keys", "ask"} => exact = {}
    /\ phase = "keys" => claims \in {{}, Claimed}
    /\ phase # "classify" =>
          \A i \in DOMAIN attached : status[i] = "pending" => ~attached[i].raw
    /\ kind # "signature" /\ phase \in {"exact", "done"}
       /\ MoreThanOne(Claimed) =>
          \A cert \in claims \cup exact : Earned(cert)

\* Every step keeps that an identity is verified exactly only for a copy that
\* was found genuine.
LEMMA CostKept ==
    ASSUME TypeInv, CostInv, [Next]_vars
    PROVE  CostInv'
<1>0. attached' = attached /\ signers' = signers /\ kind' = kind
  BY InputsKept
<1>1. \A x : FoundGenuine(x)' <=> FoundGenuine(x)
  BY <1>0 DEF FoundGenuine, Trusted
<1>2. /\ Claimed' = Claimed /\ Trusted' = Trusted
      /\ \A cert : Earned(cert)' <=> Earned(cert)
      /\ \A c : Accepting(c) \subseteq Trusted \ Keys
  BY <1>0 DEF Earned, Claimed, Accepting, Trusted, FoundGenuine
<1>3. CASE Classify
  <2>1. claims' \in {{}, Claimed}
    <3>1. Accepting(NoCert) = {}
      BY PolicyIsPolicy, SignersAreApart DEF Accepting, Trusted, ToSet, TypeInv, TypeOK
    <3>2. CASE signers # <<>> /\ Trusted \cap Refused = {}
      BY <1>3, <3>1, <3>2 DEF Classify, Undecided, Claimed
    <3>3. CASE ~(signers # <<>> /\ Trusted \cap Refused = {})
      BY <1>3, <3>3 DEF Classify, Undecided
    <3> QED
      BY <3>2, <3>3
  <2>2. \A i \in DOMAIN attached : status'[i] = "pending" => ~attached[i].raw
    BY <1>3 DEF Classify, Undecided
  <2>3. UNCHANGED <<untried, genuine, exact>> /\ exact = {}
        /\ phase' \in {"keys", "done"}
    BY <1>3 DEF Classify, CostInv
  <2>4. phase' = "done" => ~MoreThanOne(Claimed)
    BY <1>3 DEF Classify, Claimed, MoreThanOne, ToSet
  <2> QED
    BY <1>0, <1>1, <1>2, <2>1, <2>2, <2>3, <2>4 DEF CostInv
<1>4. CASE KeyVerifies
  <2>1. \A i \in DOMAIN attached : status'[i] = "pending" => status[i] = "pending"
    BY <1>4 DEF KeyVerifies, Set, Passed
  <2>2. UNCHANGED <<phase, untried, genuine, exact, claims>>
    BY <1>4 DEF KeyVerifies
  <2> QED
    BY <1>0, <1>1, <1>2, <2>1, <2>2 DEF CostInv
<1>5. CASE KeysDone
  <2>1. \A i \in DOMAIN attached : status'[i] = "pending" => status[i] = "pending"
    BY <1>5 DEF KeysDone, Set
  <2>2. UNCHANGED <<genuine, exact, claims>> /\ exact = {} /\ phase = "keys"
    BY <1>5 DEF KeysDone, CostInv
  <2>3. phase' \in {"ask", "exact"} /\ (phase' = "exact" => ~MoreThanOne(claims))
    BY <1>5 DEF KeysDone, AfterKeys
  <2>4. \A ids \in untried' : \E s \in Trusted \ Keys : ids = FlagIdentities[s]
    <3>1. \A ids \in {FlagIdentities[s] : s \in UNION {Accepting(c) : c \in claims}} :
             \E s \in Trusted \ Keys : ids = FlagIdentities[s]
      BY <1>2
    <3>2. CASE MoreThanOne(claims)
      BY <1>5, <3>1, <3>2 DEF KeysDone, AfterKeys
    <3>3. CASE ~MoreThanOne(claims)
      BY <1>5, <3>3 DEF KeysDone, AfterKeys, CostInv
    <3> QED
      BY <3>2, <3>3
  <2>5. phase' = "exact" /\ MoreThanOne(Claimed) => claims \cup exact = {}
    BY <2>2, <2>3 DEF CostInv
  <2> QED
    BY <1>0, <1>1, <1>2, <2>1, <2>2, <2>3, <2>4, <2>5 DEF CostInv
<1>6. ASSUME NEW ids \in untried, Ask(ids) PROVE CostInv'
  <2>1. \A x \in CosignVerifies(ids) : FoundGenuine(x)
    BY CosignIsGenuine DEF CostInv, FoundGenuine
  <2>2. UNCHANGED <<phase, status, exact, claims>> /\ phase = "ask"
        /\ untried' \subseteq untried
        /\ genuine' \subseteq genuine \cup CosignVerifies(ids)
    BY <1>6 DEF Ask
  <2> QED
    BY <1>0, <1>1, <1>2, <2>1, <2>2 DEF CostInv
<1>7. CASE KeepGenuine
  <2>1. kind # "signature" => \A cert \in claims' : Earned(cert)
    <3> SUFFICES ASSUME kind # "signature", NEW cert \in claims'
                 PROVE  Earned(cert)
      OBVIOUS
    <3>2. PICK i \in Pending(cert) : attached[i].content \in genuine
      BY <1>7 DEF KeepGenuine
    <3>3. /\ attached[i] \in ToSet(attached) /\ attached[i].cert = cert
          /\ ~attached[i].raw
      BY <1>7, <3>2 DEF KeepGenuine, Pending, CostInv, ToSet
    <3> QED
      BY <3>2, <3>3 DEF Earned, CostInv
  <2>2. \A i \in DOMAIN attached : status'[i] = "pending" => status[i] = "pending"
    BY <1>7 DEF KeepGenuine, Set
  <2>3. UNCHANGED <<untried, genuine, exact>> /\ exact = {} /\ phase = "ask"
        /\ phase' = "exact"
    BY <1>7 DEF KeepGenuine, CostInv
  <2> QED
    BY <1>0, <1>1, <1>2, <2>1, <2>2, <2>3 DEF CostInv
<1>8. ASSUME NEW cert \in claims, VerifyExactly(cert) PROVE CostInv'
  <2>1. \A i \in DOMAIN attached : status'[i] = "pending" => status[i] = "pending"
    BY <1>8 DEF VerifyExactly, Set, Passed
  <2>2. UNCHANGED <<phase, untried, genuine>> /\ phase = "exact"
        /\ claims' \cup exact' \subseteq claims \cup exact
    BY <1>8 DEF VerifyExactly
  <2> QED
    BY <1>0, <1>1, <1>2, <2>1, <2>2 DEF CostInv
<1>9. CASE Conclude
  BY <1>0, <1>1, <1>2, <1>9 DEF Conclude, CostInv
<1>10. CASE KeyDoesNotVerify
  BY <1>0, <1>1, <1>2, <1>10 DEF KeyDoesNotVerify, CostInv
<1>11. CASE UNCHANGED vars
  BY <1>0, <1>1, <1>2, <1>11 DEF vars, CostInv
<1> QED
  BY <1>3, <1>4, <1>5, <1>6, <1>7, <1>8, <1>9, <1>10, <1>11 DEF Next

\* For attestations, whose content is compared: when certificates name
\* several signers, an exact run is spent only on a signer whose copies hold
\* content some identity under the trusted signers' flags really signed,
\* even when cosign runs fail.
THEOREM MadeUpAttestationsCostNothing == Spec => []MadeUpCostsNothing
<1>1. Init => CostInv
  BY DEF Init, CostInv
<1>2. TypeInv /\ CostInv /\ [Next]_vars => CostInv'
  BY CostKept
<1>3. TypeInv /\ CostInv => MadeUpCostsNothing
  BY DEF TypeInv, TypeOK, CostInv, MadeUpCostsNothing, Earned, FoundGenuine
<1> QED
  BY <1>1, <1>2, <1>3, TypeInvariant, PTL DEF Spec
=============================================================================
