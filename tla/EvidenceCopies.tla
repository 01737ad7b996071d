---------------------------- MODULE EvidenceCopies ----------------------------
(***************************************************************************)
(* Judging the copies of one kind of evidence about one image              *)
(* (estateverify/verify.go, verifyEvidence).                               *)
(*                                                                         *)
(* Anyone who can push to a repository can attach copies.  verifyEvidence  *)
(* sorts them newest first, decides what it can without cosign, and runs   *)
(* cosign as seldom as it may: the trusted keys in order for copies with   *)
(* no certificate, then, when the certificates name several acceptable     *)
(* signers, one run per trusted signer to learn whose content is genuine,  *)
(* then one exact run per signer left.  A run answers for the whole image, *)
(* with the content of every copy the identities it was given signed, or   *)
(* with an error when there is none; it may also just fail.                *)
(*                                                                         *)
(* A certificate stands for what it names (identity, issuer, repository    *)
(* and ref).  Copies have one predicate type: the code treats each         *)
(* predicate type separately.                                              *)
(***************************************************************************)
EXTENDS Naturals, Sequences, SequencesExt

CONSTANTS
    Kinds,              \* kinds of evidence: "signature", "scan", or others
    Certs, NoCert,      \* what a certificate may name; no certificate
    Keys, Keyless,      \* trusted signers: keys, and patterns of certificates
    Nobody,             \* signed by no identity the model names
    Contents,           \* signed statements
    ScanTime,           \* when the scan a statement records ran
    FlagIdentities,     \* certificates cosign accepts under a signer's flags
    Accepts,            \* certificates a signer accepts (accepts)
    Constrained,        \* signers that say which calling repositories count
    FromElsewhere,      \* certificates of workflows called from elsewhere
    Refused,            \* signers signerFlags refuses
    CopyOptions,        \* the copies that can be attached
    MaxCopies,          \* bound on the copies attached
    SignerLists,        \* the lists of trusted signers a policy may have
    MaxFaults           \* bound on cosign runs that fail for no such reason

Copies == [raw : BOOLEAN, cert : Certs \cup {NoCert},
           by : Certs \cup Keys \cup {Nobody}, content : Contents]

ASSUME SignersAreApart ==
    /\ NoCert \notin Certs
    /\ Nobody \notin Certs \cup Keys
    /\ Keys \cap (Certs \cup Keyless) = {}
ASSUME CopiesAreCopies ==
    /\ CopyOptions \subseteq Copies
    \* A genuine signature matches its certificate, or is a key's and has none.
    /\ \A c \in CopyOptions :
          /\ c.by \in Certs => c.cert = c.by
          /\ c.by \in Keys => c.cert = NoCert
ASSUME PolicyIsPolicy ==
    /\ SignerLists \subseteq Seq(Keys \cup Keyless)
    /\ FlagIdentities \in [Keyless -> SUBSET Certs]
    /\ Accepts \in [Keyless -> SUBSET Certs]
    /\ \A s \in Keyless : Accepts[s] \subseteq FlagIdentities[s]
    /\ ScanTime \in [Contents -> Nat]
ASSUME CopyBounds == MaxCopies \in Nat /\ MaxFaults \in Nat

VARIABLES
    kind,               \* the kind of evidence
    attached,           \* the copies, newest first
    signers,            \* the policy's trusted signers
    phase,              \* "classify", "keys", "ask", "exact", "done"
    status,             \* the status of each copy; "pending": undecided
    nextKey,            \* the trusted signer verifyKeys tries next
    claims,             \* certificates still to decide
    untried,            \* identities cosign has still to be asked about
    genuine,            \* content cosign found some such identity signed
    signed,             \* whether any of those runs verified anything
    exact,              \* certificates that cost an exact run
    best,               \* the copy the item stands on; 0: none verified
    faults

vars == <<kind, attached, signers, phase, status, nextKey, claims, untried,
          genuine, signed, exact, best, faults>>
inputs == <<kind, attached, signers>>

Trusted == ToSet(signers)

\* accepting: the trusted signers that accept a certificate.
Accepting(cert) == {s \in Trusted \ Keys : cert \in Accepts[s]}

\* callerUnchecked: s doesn't say who may call a workflow, and cert's was.
CallerUnchecked(s, cert) == s \notin Constrained /\ cert \in FromElsewhere

\* pass takes the preferred signer: one that checks the caller if there is.
Unchecked(cert) ==
    /\ cert \in Certs
    /\ \A s \in Accepting(cert) : CallerUnchecked(s, cert)

\* The content cosign verifies when it may be signed by any of ids.
CosignVerifies(ids) ==
    {c.content : c \in {d \in ToSet(attached) : ~d.raw /\ d.by \in ids}}

Pending(cert) ==
    {i \in DOMAIN attached : status[i] = "pending" /\ attached[i].cert = cert}

AcceptsForgedContent(i, contents) ==                            \* mutant
    IF Unchecked(attached[i].cert) THEN "present" ELSE "verified"

\* pass: what a copy is once cosign verified contents under its signer.
Passed(i, contents) ==
    IF Unchecked(attached[i].cert) THEN "present"
    ELSE IF kind # "signature" /\ attached[i].content \notin contents
    THEN "failed" ELSE "verified"

NewestAttachedFirst(i, j) == i < j                              \* mutant

\* The order verified copies are put in.
Newer(i, j) ==
    LET ti == ScanTime[attached[i].content]
        tj == ScanTime[attached[j].content]
    IN  \/ kind = "scan" /\ ti > tj
        \/ (kind = "scan" => ti = tj) /\ i < j

Set(copies, judge(_)) ==
    status' = [i \in DOMAIN attached |->
                  IF i \in copies THEN judge(i) ELSE status[i]]

Fault == faults < MaxFaults /\ faults' = faults + 1

MoreThanOne(S) == \E a, b \in S : a # b

\* With several acceptable signers, cosign is first asked which signed.
AfterKeys ==
    IF MoreThanOne(claims)
    THEN /\ phase' = "ask"
         /\ untried' = {FlagIdentities[s] :
                           s \in UNION {Accepting(c) : c \in claims}}
    ELSE phase' = "exact" /\ UNCHANGED untried

(* Mutants of the actions below.                                           *)

SameKeyAgain ==                      \* a key that fails is tried for ever
    /\ phase = "keys" /\ Pending(NoCert) # {} /\ nextKey \in DOMAIN signers
    /\ CosignVerifies({signers[nextKey]}) = {}
    /\ UNCHANGED vars

FirstClaimOnly ==                    \* an answer settles every other claim
    /\ phase = "ask" /\ untried = {}
    /\ claims' = {c \in claims : c = attached[1].cert}
    /\ phase' = "exact"
    /\ Set({i \in DOMAIN attached : attached[i].cert \in claims \ claims'},
           LAMBDA i : "failed")
    /\ UNCHANGED <<inputs, nextKey, untried, genuine, signed, exact, best,
                   faults>>

KeepAllClaims ==                     \* nothing is dropped before exact runs
    /\ phase = "ask" /\ untried = {}
    /\ phase' = "exact"
    /\ UNCHANGED <<inputs, status, nextKey, claims, untried, genuine, signed,
                   exact, best, faults>>

-----------------------------------------------------------------------------
Init ==
    /\ kind \in Kinds
    /\ attached \in SeqOf(CopyOptions, MaxCopies)
    /\ signers \in SignerLists
    /\ phase = "classify"
    /\ status = [i \in DOMAIN attached |-> "pending"]
    /\ nextKey = 1
    /\ claims = {} /\ untried = {} /\ genuine = {} /\ exact = {}
    /\ signed = FALSE
    /\ best = 0
    /\ faults = 0

\* What needs no cosign run, and what each other copy's certificate names.
Undecided(copy) ==
    /\ ~copy.raw /\ signers # <<>> /\ Trusted \cap Refused = {}
    /\ copy.cert = NoCert \/ Accepting(copy.cert) # {}

Classify ==
    /\ phase = "classify"
    /\ status' = [i \in DOMAIN attached |->
          IF Undecided(attached[i]) THEN "pending"
          ELSE IF attached[i].raw \/ signers = <<>> THEN "present"
          ELSE "failed"]
    /\ claims' = {c.cert : c \in {d \in ToSet(attached) :
                                     Undecided(d) /\ d.cert # NoCert}}
    /\ phase' = IF attached = <<>> THEN "done" ELSE "keys"
    /\ UNCHANGED <<inputs, nextKey, untried, genuine, signed, exact, best,
                   faults>>

\* verifyKeys tries the trusted keys in turn; signers of certificates are
\* skipped.  The first key that verifies anything decides every copy.
KeyToTry ==
    phase = "keys" /\ Pending(NoCert) # {} /\ nextKey \in DOMAIN signers

KeyVerifies ==
    /\ KeyToTry /\ signers[nextKey] \in Keys
    /\ LET contents == CosignVerifies({signers[nextKey]})
       IN  contents # {} /\ Set(Pending(NoCert), LAMBDA i : Passed(i, contents))
    /\ UNCHANGED <<inputs, phase, nextKey, claims, untried, genuine, signed,
                   exact, best, faults>>

KeyDoesNotVerify ==
    /\ KeyToTry
    /\ \/ signers[nextKey] \notin Keys /\ UNCHANGED faults
       \/ CosignVerifies({signers[nextKey]}) = {} /\ UNCHANGED faults
       \/ signers[nextKey] \in Keys /\ Fault
    /\ nextKey' = nextKey + 1
    /\ UNCHANGED <<inputs, phase, status, claims, untried, genuine, signed,
                   exact, best>>

KeysDone ==
    /\ phase = "keys"
    /\ Pending(NoCert) = {} \/ nextKey \notin DOMAIN signers
    /\ Set(Pending(NoCert), LAMBDA i : "failed")
    /\ AfterKeys
    /\ UNCHANGED <<inputs, nextKey, claims, genuine, signed, exact, best,
                   faults>>

\* Which statements did any identity a trusted signer accepts sign?  Signers
\* that give cosign the same flags are asked about once.
Ask(ids) ==
    /\ phase = "ask" /\ ids \in untried
    /\ untried' = untried \ {ids}
    /\ \/ /\ genuine' = genuine \cup CosignVerifies(ids)
          /\ signed' = (signed \/ CosignVerifies(ids) # {})
          /\ UNCHANGED faults
       \/ Fault /\ UNCHANGED <<genuine, signed>>
    /\ UNCHANGED <<inputs, phase, status, nextKey, claims, exact, best>>

\* Signers none of whose copies holds such a statement cost no exact run.
KeepGenuine ==
    /\ phase = "ask" /\ untried = {}
    /\ claims' = {c \in claims :
          \/ signed /\ kind = "signature"
          \/ \E i \in Pending(c) : attached[i].content \in genuine}
    /\ Set({i \in DOMAIN attached : attached[i].cert \in claims \ claims'
                                    /\ status[i] = "pending"},
           LAMBDA i : "failed")
    /\ phase' = "exact"
    /\ UNCHANGED <<inputs, nextKey, untried, genuine, signed, exact, best,
                   faults>>

\* exactFlags: cosign must find exactly the signer a certificate names.
VerifyExactly(cert) ==
    /\ phase = "exact" /\ cert \in claims
    /\ LET contents == CosignVerifies({cert})
       IN  \/ /\ contents # {}
              /\ Set(Pending(cert), LAMBDA i : Passed(i, contents))
              /\ UNCHANGED faults
           \/ /\ (contents = {} /\ UNCHANGED faults) \/ Fault
              /\ Set(Pending(cert), LAMBDA i : "failed")
    /\ claims' = claims \ {cert}
    /\ exact' = exact \cup {cert}
    /\ UNCHANGED <<inputs, phase, nextKey, untried, genuine, signed, best>>

Verified == {i \in DOMAIN attached : status[i] = "verified"}

Conclude ==
    /\ phase = "exact" /\ claims = {}
    /\ \/ Verified = {} /\ best' = 0
       \/ \E i \in Verified : best' = i /\ \A j \in Verified : ~Newer(j, i)
    /\ phase' = "done"
    /\ UNCHANGED <<inputs, status, nextKey, claims, untried, genuine, signed,
                   exact, faults>>

Next ==
    \/ Classify
    \/ KeyVerifies \/ KeyDoesNotVerify \/ KeysDone
    \/ \E ids \in untried : Ask(ids)
    \/ KeepGenuine
    \/ \E cert \in claims : VerifyExactly(cert)
    \/ Conclude

\* verifyEvidence runs to its end on one goroutine.
Spec == Init /\ [][Next]_vars /\ WF_vars(Next)

-----------------------------------------------------------------------------
(* Properties.                                                             *)

Statuses == {"pending", "present", "failed", "verified"}

\* Every variable holds a value of its type.
TypeOK ==
    /\ kind \in Kinds
    /\ attached \in Seq(CopyOptions)
    /\ signers \in SignerLists
    /\ phase \in {"classify", "keys", "ask", "exact", "done"}
    /\ status \in [DOMAIN attached -> Statuses]
    /\ phase = "done" => \A i \in DOMAIN attached : status[i] # "pending"
    /\ nextKey \in 1..(Len(signers) + 1)
    /\ claims \in SUBSET Certs
    /\ untried \in SUBSET SUBSET Certs
    /\ genuine \in SUBSET Contents
    /\ signed \in BOOLEAN
    /\ exact \in SUBSET Certs
    /\ best \in {0} \cup DOMAIN attached
    /\ faults \in 0..MaxFaults

\* The identities the policy lets vouch for an image.
Vouchers ==
    (Trusted \cap Keys) \cup
    {c \in Certs : \E s \in Trusted \ Keys :
                      c \in Accepts[s] /\ ~CallerUnchecked(s, c)}

\* A copy judged by itself: someone the policy trusts really signed it.
Vouched(copy) == ~copy.raw /\ copy.by \in Vouchers

\* A verified copy's content was really signed by an identity the policy
\* trusts, and the certificate it names is that identity's, whatever else is
\* attached and whichever runs fail ("Only content cosign verified is read").
\* A signature has no content to read: one of its signer's verifies.
VerifiedIsVouched ==
    \A i \in Verified : \E copy \in ToSet(attached) :
        /\ Vouched(copy)
        /\ copy.cert = attached[i].cert
        /\ kind = "signature" \/ copy.content = attached[i].content

Usable == Trusted \cap Refused = {}

\* When no cosign run failed, every copy someone trusted signed is verified,
\* however many other copies there are and whatever they claim ("never
\* stands in for, or crowds out, a verified one").  Copies signed with keys
\* are left out when several keys are trusted: the first key that verifies
\* anything decides them all.
NoCrowdingOut ==
    phase = "done" /\ faults = 0 /\ Usable =>
        \A i \in DOMAIN attached :
            /\ Vouched(attached[i])
            /\ attached[i].by \in Keys => ~MoreThanOne(Trusted \cap Keys)
            => status[i] = "verified"

\* The item never stands on a copy while a newer one, by the scan time for
\* scans, was signed by someone trusted.
NothingNewerVouched ==
    phase = "done" /\ faults = 0 /\ Usable /\ ~MoreThanOne(Trusted \cap Keys) =>
        \A i \in DOMAIN attached :
            Vouched(attached[i]) =>
                /\ best # 0
                /\ IF kind = "scan"
                   THEN ScanTime[attached[best].content]
                            >= ScanTime[attached[i].content]
                   ELSE best <= i

Claimed == {c.cert : c \in {d \in ToSet(attached) :
                               ~d.raw /\ Accepting(d.cert) # {}}}

\* When certificates name several signers, a run is spent only on one whose
\* copies hold content some identity under the trusted signers' flags signed
\* ("copies anyone can attach with made-up certificates cost no more than
\* reading them").  Signatures are left out: once one is genuine, every signer
\* the copies name costs a run.
MadeUpCostsNothing ==
    kind # "signature" /\ MoreThanOne(Claimed) =>
        \A cert \in exact : \E c, d \in ToSet(attached) :
            /\ c.cert = cert /\ ~c.raw /\ ~d.raw
            /\ c.content = d.content
            /\ \E s \in Trusted \ Keys : d.by \in FlagIdentities[s]

\* The item is decided, even when cosign runs fail.
Decided == <>(phase = "done")
=============================================================================
