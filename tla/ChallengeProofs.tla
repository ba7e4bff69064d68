--------------------------- MODULE ChallengeProofs ---------------------------
(***************************************************************************)
(* Proofs that the challenge protocol binds what it issues: for every      *)
(* number of identities, keys and authorities, every clock bound and both  *)
(* settings of the proof and attestation flags.                            *)
(***************************************************************************)
EXTENDS Challenge, FiniteSetTheorems, TLAPS

(* The assumptions on the constants, split so that each proof sees only   *)
(* the arithmetic and typing facts, not the distinctness of the sentinels. *)
LEMMA ConstantFacts ==
    /\ Owner \in [Key -> Ident]
    /\ ChallengeKey \notin Key
    /\ Configured \subseteq Authority /\ X509Ca \subseteq Configured
    /\ SshKeys \in [Configured -> SUBSET {"User", "Host"}]
    /\ DefaultAuthority \in Configured
    /\ CertExpiry \in [Ident -> Nat]
    /\ RenewalPeriod \in Nat /\ ValidityLength \in Nat
    /\ MaxTime \in Nat /\ MaxChallenges \in Nat
    /\ U64 \in Nat /\ U64 > MaxTime + 5
    /\ Invalid \notin Key /\ None \notin Key
BY ChallengeAssumption

LEMMA NoTagNotTag == NoTag \notin Nat \X Key \X Ident
BY ChallengeAssumption

USE ConstantFacts

\* Every minted challenge carries a time that has already come.
ChalPast == \A tg \in chal : tg[1] <= now

\* The inductive invariant behind ChallengeBinding and AttestedKeyBound.
IInv ==
    /\ TypeOK
    /\ IsFiniteSet(chal)
    /\ ChalPast
    /\ ChallengeBinding
    /\ AttestedKeyBound
    /\ ReissueExtends

-----------------------------------------------------------------------------
(* u64 subtraction: a difference in the open interval (-U64, U64) is       *)
(* itself when non-negative and wraps to d + U64 when negative.            *)
LEMMA ModSmall ==
    ASSUME NEW d \in Int, 0 <= d, d < U64
    PROVE  d % U64 = d
BY Z3

LEMMA ModNegative ==
    ASSUME NEW d \in Int, d < 0, -U64 < d
    PROVE  d % U64 = d + U64
BY Z3

(* The window check of validate_request admits only request times at or   *)
(* before the current time and at most ChallengeWindow seconds old.       *)
LEMMA WindowFresh ==
    ASSUME NEW n \in Time, NEW rt \in Time,
           ~(ElapsedU64(n, rt) > ChallengeWindow)
    PROVE  rt <= n /\ n - rt <= ChallengeWindow
<1>1. CASE rt <= n
  <2>1. ElapsedU64(n, rt) = n - rt
    BY <1>1, ModSmall DEF ElapsedU64, Time
  <2>. QED BY <1>1, <2>1 DEF ChallengeWindow, Time
<1>2. CASE rt > n
  <2>1. ElapsedU64(n, rt) = n - rt + U64
    BY <1>2, ModNegative DEF ElapsedU64, Time
  <2>2. n - rt + U64 > ChallengeWindow
    BY <1>2 DEF Time, ChallengeWindow
  <2>. QED BY <2>1, <2>2
<1>. QED BY <1>1, <1>2 DEF Time

(* What a submission that passes validate_request establishes: its tag was *)
(* minted for its key and the requester, within the window, and with the   *)
(* proof flag set the requester holds the key.                            *)
LEMMA ValidFacts ==
    ASSUME TypeOK, NEW i \in Ident, NEW s \in Submission(i), Valid(i, s)
    PROVE  /\ s.pk \in Key /\ s.rt \in Time
           /\ s.cert.tag \in chal
           /\ s.cert.tag = <<s.rt, s.pk, i>>
           /\ s.rt <= now /\ now - s.rt <= ChallengeWindow
           /\ requireProof => Owner[s.pk] = i
<1>1. s \in [rt : {tg[1] : tg \in chal} \cup {now}, pk : Key, cert : Presentable(i)]
  BY DEF Valid, Submission
<1>2. s.rt \in Time /\ s.pk \in Key
  BY <1>1 DEF TypeOK, Tag
<1>3. s.cert.tag = <<s.rt, s.pk, i>>
  BY DEF Valid
<1>4. s.cert.tag \in chal \cup {NoTag}
  BY <1>1 DEF Presentable, MintedCert
<1>5. s.cert.tag # NoTag
  BY <1>2, <1>3, NoTagNotTag DEF Time
<1>6. s.rt <= now /\ now - s.rt <= ChallengeWindow
  BY <1>2, WindowFresh DEF Valid, TypeOK
<1>7. requireProof => Owner[s.pk] = i
  <2>. SUFFICES ASSUME requireProof PROVE Owner[s.pk] = i
    OBVIOUS
  <2>1. s.cert.key = s.cert.sig /\ s.cert.key = s.pk
    BY DEF Valid
  <2>2. s.cert \in [key : Key, sig : {k \in Key : Owner[k] = i}, tag : chal \cup {NoTag}]
    <3>. SUFFICES ASSUME s.cert \in {MintedCert(tg) : tg \in chal} PROVE FALSE
      BY <1>1 DEF Presentable
    <3>1. PICK tg \in chal : s.cert = MintedCert(tg)
      OBVIOUS
    <3>2. tg[2] \in Key
      BY DEF TypeOK, Tag
    <3>3. s.cert.key = tg[2] /\ s.cert.sig = ChallengeKey
      BY <3>1 DEF MintedCert
    <3>. QED BY <2>1, <3>2, <3>3
  <2>. QED BY <2>1, <2>2
<1>. QED BY <1>2, <1>3, <1>4, <1>5, <1>6, <1>7
-----------------------------------------------------------------------------
(* A step that issues nothing keeps both properties: they speak only of   *)
(* the artefact of the last step.                                         *)
LEMMA NothingIssued ==
    ASSUME out' = None
    PROVE  ChallengeBinding' /\ AttestedKeyBound' /\ ReissueExtends'
BY DEF ChallengeBinding, AttestedKeyBound, ReissueExtends

LEMMA InitIInv == Init => IInv
<1>. SUFFICES ASSUME Init PROVE IInv
  OBVIOUS
<1>1. TypeOK
  <2>1. Cardinality(chal) = 0 /\ chal \subseteq Tag
    BY FS_EmptySet DEF Init
  <2>2. now \in Time /\ out \in Artefact \cup {None}
    BY DEF Init, Time
  <2>. QED BY <2>1, <2>2 DEF Init, TypeOK
<1>2. IsFiniteSet(chal) /\ ChalPast
  BY FS_EmptySet DEF Init, ChalPast
<1>3. ChallengeBinding /\ AttestedKeyBound /\ ReissueExtends
  BY DEF Init, ChallengeBinding, AttestedKeyBound, ReissueExtends
<1>. QED BY <1>1, <1>2, <1>3 DEF IInv

LEMMA TickStep ==
    ASSUME IInv, Tick
    PROVE  IInv'
<1>1. TypeOK'
  BY DEF IInv, Tick, TypeOK, Time
<1>2. IsFiniteSet(chal)' /\ ChalPast'
  BY DEF IInv, Tick, ChalPast, TypeOK, Tag, Time
<1>. QED BY <1>1, <1>2, NothingIssued DEF IInv, Tick

LEMMA MintStep ==
    ASSUME IInv, NEW i \in Ident, MintChallenge(i)
    PROVE  IInv'
<1>1. PICK k \in Key : chal' = chal \cup {<<now, k, i>>}
  BY DEF MintChallenge
<1>2. IsFiniteSet(chal') /\ Cardinality(chal') <= Cardinality(chal) + 1
  <2>1. IsFiniteSet(chal) /\ Cardinality(chal) \in Nat
    BY FS_CardinalityType DEF IInv
  <2>2. /\ IsFiniteSet(chal \cup {<<now, k, i>>})
        /\ Cardinality(chal \cup {<<now, k, i>>}) =
              IF <<now, k, i>> \in chal THEN Cardinality(chal) ELSE Cardinality(chal) + 1
    BY <2>1, FS_AddElement
  <2>. QED BY <1>1, <2>1, <2>2
<1>3. Cardinality(chal) < MaxChallenges /\ Cardinality(chal) \in Nat
  <2>1. IsFiniteSet(chal)
    BY DEF IInv
  <2>2. Cardinality(chal) \in Nat
    BY <2>1, FS_CardinalityType
  <2>. QED BY <2>2 DEF MintChallenge
<1>4. chal' \subseteq Tag
  BY <1>1 DEF IInv, TypeOK, Tag
<1>5. TypeOK'
  <2>1. Cardinality(chal') <= MaxChallenges
    BY <1>2, <1>3, FS_CardinalityType
  <2>2. UNCHANGED <<now, requireProof, requireAttestation>> /\ out' = None
    BY DEF MintChallenge
  <2>. QED BY <1>4, <2>1, <2>2 DEF IInv, TypeOK
<1>6. ChalPast'
  BY <1>1 DEF IInv, ChalPast, MintChallenge, TypeOK, Time
<1>. QED BY <1>2, <1>5, <1>6, NothingIssued DEF IInv, MintChallenge

(* An SSH certificate issued by certificate keeps the invariant: it is     *)
(* well typed, and validate_request gave it its binding.                  *)
LEMMA SshIssue ==
    ASSUME IInv, NEW i \in Ident, NEW s \in Submission(i), Valid(i, s),
           NEW w \in Windows, NEW ct \in {1, 2}, NEW kid \in KeyIds,
           Connected(i),
           RequestedAuthority(kid) \in Configured,
           UNCHANGED <<now, chal, requireProof, requireAttestation>>,
           out' = [kind |-> "ssh", to |-> i, key |-> s.pk,
                   tag |-> s.cert.tag, va |-> w[1], vb |-> w[2],
                   certType |-> TypeOf(ct),
                   authority |-> RequestedAuthority(kid),
                   newExpiry |-> RefreshSettings(i)]
    PROVE  IInv'
<1>1. TypeOK
  BY DEF IInv
<1>2. /\ s.pk \in Key /\ s.rt \in Time
      /\ s.cert.tag \in chal
      /\ s.cert.tag = <<s.rt, s.pk, i>>
      /\ s.rt <= now /\ now - s.rt <= ChallengeWindow
      /\ requireProof => Owner[s.pk] = i
  BY <1>1, ValidFacts
<1>3. w[1] \in Nat /\ w[2] \in Nat
  BY DEF Windows
<1>4. TypeOf(ct) \in {"User", "Host"}
  BY DEF TypeOf
<1>5. RefreshSettings(i) \in Nat \cup {None}
  <2>1. now + ValidityLength \in Nat
    BY <1>1 DEF TypeOK, Time
  <2>. QED BY <2>1 DEF RefreshSettings
<1>6. s.cert.tag \in Tag
  BY <1>1, <1>2 DEF TypeOK
<1>7. TypeOK'
  <2>1. out' \in Artefact
    BY <1>2, <1>3, <1>4, <1>5, <1>6 DEF Artefact
  <2>. QED BY <1>1, <2>1 DEF TypeOK
<1>8. ChallengeBinding'
  <2>1. out'.kind = "ssh" /\ out'.to = i /\ out'.key = s.pk
        /\ out'.tag = <<s.rt, s.pk, i>>
    BY <1>2
  <2>2. out'.tag \in chal'
    BY <1>2
  <2>3. out'.tag[1] <= now' /\ now' - out'.tag[1] <= ChallengeWindow
    BY <1>2, <2>1
  <2>4. requireProof' => Owner[out'.key] = out'.to
    BY <1>2, <2>1
  <2>. QED BY <2>1, <2>2, <2>3, <2>4 DEF ChallengeBinding
<1>9. AttestedKeyBound'
  BY DEF AttestedKeyBound
<1>10. IsFiniteSet(chal') /\ ChalPast'
  BY DEF IInv, ChalPast
<1>11. ReissueExtends'
  <2>. SUFFICES ASSUME RenewalPeriod <= ValidityLength, RefreshSettings(i) # None
                PROVE  RefreshSettings(i) > CertExpiry[i]
    BY DEF ReissueExtends
  <2>1. now \in Nat /\ CertExpiry[i] \in Nat
    BY <1>1 DEF TypeOK, Time
  <2>2. (now > CertExpiry[i] \/ CertExpiry[i] - now < RenewalPeriod)
        /\ RefreshSettings(i) = now + ValidityLength
    BY DEF RefreshSettings
  <2>. QED BY <2>1, <2>2
<1>. QED BY <1>7, <1>8, <1>9, <1>10, <1>11 DEF IInv

LEMMA CertificateStep ==
    ASSUME IInv, NEW i \in Ident, Certificate(i)
    PROVE  IInv'
<1>1. UNCHANGED <<now, chal, requireProof, requireAttestation>>
  BY DEF Certificate
<1>2. CASE out' = None
  BY <1>1, <1>2, NothingIssued DEF IInv, TypeOK, ChalPast
<1>3. CASE out' # None
  BY <1>1, <1>3, SshIssue DEF Certificate
<1>. QED BY <1>2, <1>3
(* A registration keeps the invariant: validate_request gave it its       *)
(* binding, and the attestation checks its attestation.                   *)
LEMMA RegIssue ==
    ASSUME IInv, NEW i \in Ident, NEW s \in Submission(i),
           NEW att \in Key \cup {Invalid},
           Registration(i, s, att),
           UNCHANGED <<now, chal, requireProof, requireAttestation>>
    PROVE  IInv'
<1>1. TypeOK
  BY DEF IInv
<1>2. /\ s.pk \in Key /\ s.rt \in Time
      /\ s.cert.tag \in chal
      /\ s.cert.tag = <<s.rt, s.pk, i>>
      /\ s.rt <= now /\ now - s.rt <= ChallengeWindow
      /\ requireProof => Owner[s.pk] = i
  BY <1>1, ValidFacts DEF Registration
<1>3. out' = [kind |-> "reg", to |-> i, key |-> s.pk, tag |-> s.cert.tag,
              attested |-> IF att = Invalid THEN None ELSE att]
  BY DEF Registration
<1>4. out'.attested \in Key \cup {None}
  BY <1>3
<1>5. TypeOK'
  <2>1. s.cert.tag \in Tag
    BY <1>1, <1>2 DEF TypeOK
  <2>2. out' \in Artefact
    BY <1>2, <1>3, <1>4, <2>1 DEF Artefact
  <2>. QED BY <1>1, <2>2 DEF TypeOK
<1>6. ChallengeBinding'
  BY <1>2, <1>3 DEF ChallengeBinding
<1>7. AttestedKeyBound'
  <2>1. att # Invalid => att = s.pk
    BY DEF Registration
  <2>2. att = Invalid => ~requireAttestation
    BY DEF Registration
  <2>. QED BY <1>3, <2>1, <2>2 DEF AttestedKeyBound
<1>8. ReissueExtends'
  BY <1>3 DEF ReissueExtends
<1>9. IsFiniteSet(chal') /\ ChalPast'
  BY DEF IInv, ChalPast
<1>. QED BY <1>5, <1>6, <1>7, <1>8, <1>9 DEF IInv

LEMMA RegisterStep ==
    ASSUME IInv, NEW i \in Ident, RegisterKey(i) \/ RegisterU2fKey(i)
    PROVE  IInv'
<1>1. UNCHANGED <<now, chal, requireProof, requireAttestation>>
  BY DEF RegisterKey, RegisterU2fKey
<1>2. CASE out' = None
  BY <1>1, <1>2, NothingIssued DEF IInv, TypeOK, ChalPast
<1>3. CASE out' # None
  <2>1. \E s \in Submission(i), att \in Key \cup {Invalid} : Registration(i, s, att)
    BY <1>3 DEF RegisterKey, RegisterU2fKey
  <2>. QED BY <1>1, <2>1, RegIssue
<1>. QED BY <1>2, <1>3

(* An attested X.509 certificate keeps the invariant: the key check and  *)
(* the overwritten CA flag give AttestedKeyBound.                         *)
LEMMA X509Step ==
    ASSUME IInv, NEW i \in Ident, IssueX509(i)
    PROVE  IInv'
<1>1. UNCHANGED <<now, chal, requireProof, requireAttestation>>
  BY DEF IssueX509
<1>2. CASE out' = None
  BY <1>1, <1>2, NothingIssued DEF IInv, TypeOK, ChalPast
<1>3. CASE out' # None
  <2>1. PICK leaf \in Key : \E authority \in X509Ca, csr \in [key : Key, isCa : BOOLEAN] :
             /\ csr.key = leaf
             /\ out' = [kind |-> "x509", to |-> i, key |-> csr.key,
                        leaf |-> leaf, isCa |-> FALSE, authority |-> authority]
    BY <1>3 DEF IssueX509
  <2>2. PICK authority \in X509Ca :
           out' = [kind |-> "x509", to |-> i, key |-> leaf,
                   leaf |-> leaf, isCa |-> FALSE, authority |-> authority]
    BY <2>1
  <2>3. TypeOK'
    BY <1>1, <2>2 DEF IInv, TypeOK, Artefact
  <2>4. ChallengeBinding' /\ AttestedKeyBound' /\ ReissueExtends'
    BY <2>2 DEF ChallengeBinding, AttestedKeyBound, ReissueExtends
  <2>. QED BY <1>1, <2>3, <2>4 DEF IInv, ChalPast
<1>. QED BY <1>2, <1>3

LEMMA NextIInv == IInv /\ [Next]_vars => IInv'
<1>. SUFFICES ASSUME IInv, [Next]_vars PROVE IInv'
  OBVIOUS
<1>1. CASE Tick
  BY <1>1, TickStep
<1>2. ASSUME NEW i \in Ident, MintChallenge(i) PROVE IInv'
  BY <1>2, MintStep
<1>3. ASSUME NEW i \in Ident, Certificate(i) PROVE IInv'
  BY <1>3, CertificateStep
<1>4. ASSUME NEW i \in Ident, RegisterKey(i) \/ RegisterU2fKey(i) PROVE IInv'
  BY <1>4, RegisterStep
<1>5. ASSUME NEW i \in Ident, IssueX509(i) PROVE IInv'
  BY <1>5, X509Step
<1>6. CASE UNCHANGED vars
  BY <1>6 DEF vars, IInv, TypeOK, ChalPast, ChallengeBinding, AttestedKeyBound,
     ReissueExtends
<1>. QED BY <1>1, <1>2, <1>3, <1>4, <1>5, <1>6 DEF Next

(* The honest answer to a minted challenge that is at most five seconds   *)
(* old passes validate_request.                                           *)
LEMMA HonestValid ==
    ASSUME IInv, NEW tg \in chal, now - tg[1] <= ChallengeWindow,
           requireProof => Owner[tg[2]] = tg[3]
    PROVE  Valid(tg[3], HonestAnswer(tg))
<1>1. tg \in Time \X Key \X Ident /\ tg[1] <= now /\ now \in Time
  BY DEF IInv, TypeOK, Tag, ChalPast
<1>2. HonestAnswer(tg) # Malformed
  <2>1. HonestAnswer(tg) \in
          [rt : Nat, pk : Key, cert : [key : Key, sig : Key \cup {ChallengeKey},
                                       tag : (Nat \X Key \X Ident) \cup {NoTag}]]
    BY <1>1 DEF HonestAnswer, MintedCert, Time
  <2>. QED BY <2>1, ChallengeAssumption
<1>3. ~(ElapsedU64(now, tg[1]) > ChallengeWindow)
  <2>1. ElapsedU64(now, tg[1]) = now - tg[1]
    BY <1>1, ModSmall DEF ElapsedU64, Time
  <2>. QED BY <1>1, <2>1 DEF Time, ChallengeWindow
<1>4. HonestAnswer(tg).cert.tag = <<HonestAnswer(tg).rt, HonestAnswer(tg).pk, tg[3]>>
  BY <1>1 DEF HonestAnswer, MintedCert
<1>5. IF requireProof
      THEN /\ HonestAnswer(tg).cert.key = HonestAnswer(tg).cert.sig
           /\ HonestAnswer(tg).cert.key = HonestAnswer(tg).pk
      ELSE HonestAnswer(tg).cert.sig = ChallengeKey
  BY DEF HonestAnswer, MintedCert
<1>6. HonestAnswer(tg).rt = tg[1]
  BY DEF HonestAnswer
<1>. QED BY <1>2, <1>3, <1>4, <1>5, <1>6 DEF Valid

-----------------------------------------------------------------------------
(* Every reachable state is well typed: the challenge set stays within its *)
(* bound and every issued artefact is a well-formed response.              *)
THEOREM ChallengeTypeCorrect == Spec => []TypeOK
<1>1. Init => IInv
  BY InitIInv
<1>2. IInv /\ [Next]_vars => IInv'
  BY NextIInv
<1>3. IInv => TypeOK
  BY DEF IInv
<1>. QED BY <1>1, <1>2, <1>3, PTL DEF Spec

(* validate_request binds every SSH certificate and key registration to a  *)
(* fresh challenge minted for that key and the requester, and with         *)
(* require_rustica_proof to the key's holder.                              *)
THEOREM BindingHolds == Spec => []ChallengeBinding
<1>1. IInv => ChallengeBinding
  BY DEF IInv
<1>. QED BY <1>1, InitIInv, NextIInv, PTL DEF Spec

(* register_key, register_u2f_key and attested_x509_certificate issue only *)
(* for the attested key, and never an X.509 CA certificate.               *)
THEOREM AttestationHolds == Spec => []AttestedKeyBound
<1>1. IInv => AttestedKeyBound
  BY DEF IInv
<1>. QED BY <1>1, InitIInv, NextIInv, PTL DEF Spec

(* A renewed mTLS certificate outlives the one it replaces whenever the    *)
(* renewal period does not exceed validity_length.                         *)
THEOREM RenewalExtends == Spec => []ReissueExtends
<1>1. IInv => ReissueExtends
  BY DEF IInv
<1>. QED BY <1>1, InitIInv, NextIInv, PTL DEF Spec

(* validate_request accepts every honest answer to a challenge of the      *)
(* requester that is at most five seconds old.                             *)
THEOREM HonestAccepted == Spec => []FreshChallengeAccepted
<1>1. IInv => FreshChallengeAccepted
  BY HonestValid DEF FreshChallengeAccepted
<1>. QED BY <1>1, InitIInv, NextIInv, PTL DEF Spec
=============================================================================
