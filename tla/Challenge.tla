------------------------------ MODULE Challenge ------------------------------
(***************************************************************************)
(* The challenge protocol of the Rustica server (src/rustica/src/server.rs) *)
(* and the handlers that rest on it: challenge mints an HMAC-tagged        *)
(* challenge certificate; validate_request checks a client's answer;       *)
(* certificate issues an SSH certificate (and possibly a new mTLS client   *)
(* certificate); register_key and register_u2f_key register a key;         *)
(* attested_x509_certificate issues an X.509 certificate for an attested   *)
(* key.                                                                    *)
(*                                                                         *)
(* The server keeps no per-challenge state: the HMAC key, the challenge    *)
(* key and the signing registry are fixed once configure returns, so each  *)
(* handler is one atomic step (its awaits touch no shared state).          *)
(*                                                                         *)
(* Data abstraction.  The HMAC tag over "time-pubkey-identities" is the     *)
(* triple <<time, key, identity>> itself: nobody can compute a tag the      *)
(* server did not mint.  Every challenge certificate the server mints is   *)
(* public (the attacker sees all of them).  A client can sign only with    *)
(* the keys it owns (Owner).  A client presents one mTLS certificate with  *)
(* one common name.                                                        *)
(***************************************************************************)
EXTENDS Integers, FiniteSets

CONSTANTS
    Ident,            \* mTLS identities (the CN of a client certificate)
    Key,              \* SSH public keys
    Owner,            \* Owner[k]: the identity holding the private key of k
    ChallengeKey,     \* the server's challenge signing key
    NoTag,            \* a key_id that is not a tag the server minted
    Malformed,        \* a challenge that does not parse or is too large
    Invalid,          \* an attestation chain that does not verify
    None,             \* no artefact was issued in the last step
    Authority,        \* authority names a request may carry
    Configured,       \* authorities of the signing registry
    SshKeys,          \* SshKeys[a]: the certificate types a has a key for
    X509Ca,           \* authorities with an attested X.509 CA
    DefaultAuthority, \* signing.default_authority
    CertExpiry,       \* CertExpiry[i]: not_after of i's mTLS certificate
    RenewalPeriod,    \* client_authority.expiration_renewal_period
    ValidityLength,   \* client_authority.validity_length
    U64,              \* 2^64, the modulus of u64 arithmetic
    MaxTime,          \* bound on the clock
    MaxChallenges     \* bound on the number of minted challenges

ASSUME ChallengeAssumption ==
    /\ Owner \in [Key -> Ident]
    /\ ChallengeKey \notin Key
    /\ Configured \subseteq Authority /\ X509Ca \subseteq Configured
    /\ SshKeys \in [Configured -> SUBSET {"User", "Host"}]
    /\ DefaultAuthority \in Configured
    /\ CertExpiry \in [Ident -> Nat]
    /\ RenewalPeriod \in Nat /\ ValidityLength \in Nat
    /\ MaxTime \in Nat /\ MaxChallenges \in Nat
    /\ U64 \in Nat /\ U64 > MaxTime + 5
    /\ {NoTag, Malformed, Invalid, None} \cap (Key \cup Authority) = {}
    /\ NoTag \notin Nat \X Key \X Ident
    /\ Malformed \notin [rt : Nat, pk : Key, cert : [key : Key, sig : Key \cup {ChallengeKey},
                                                   tag : (Nat \X Key \X Ident) \cup {NoTag}]]

Time == 0 .. MaxTime

\* A minted challenge: the HMAC tag over <<timestamp, pubkey, identities>>.
Tag == Time \X Key \X Ident

VARIABLES
    now,                \* SystemTime::now() in seconds
    chal,               \* the challenges minted so far
    requireProof,       \* require_rustica_proof
    requireAttestation, \* require_attestation_chain
    out                 \* the artefact issued by the last step, or None

vars == <<now, chal, requireProof, requireAttestation, out>>

\* The challenge certificate the server signs for tag tg.
MintedCert(tg) == [key |-> tg[2], sig |-> ChallengeKey, tag |-> tg]

\* The challenge certificates client i can present: a minted one as it is,
\* or any certificate i signs itself, with a minted tag or a made-up one.
Presentable(i) ==
    {MintedCert(tg) : tg \in chal}
    \cup [key : Key, sig : {k \in Key : Owner[k] = i}, tag : chal \cup {NoTag}]

\* The Challenge message of a request: challenge_time, pubkey, challenge.
Submission(i) ==
    [rt : {tg[1] : tg \in chal} \cup {now}, pk : Key, cert : Presentable(i)]
    \cup {Malformed}

Artefact ==
    [kind : {"ssh"}, to : Ident, key : Key, tag : Tag, va : Nat, vb : Nat,
     certType : {"User", "Host"}, authority : Authority,
     newExpiry : Nat \cup {None}]
    \cup [kind : {"reg"}, to : Ident, key : Key, tag : Tag,
          attested : Key \cup {None}]
    \cup [kind : {"x509"}, to : Ident, key : Key, leaf : Key, isCa : BOOLEAN,
          authority : Authority]

TypeOK ==
    /\ now \in Time
    /\ chal \subseteq Tag /\ Cardinality(chal) <= MaxChallenges
    /\ requireProof \in BOOLEAN /\ requireAttestation \in BOOLEAN
    /\ out \in Artefact \cup {None}

\* configure reads both flags from the configuration file.
Init ==
    /\ now = 0
    /\ chal = {}
    /\ requireProof \in BOOLEAN
    /\ requireAttestation \in BOOLEAN
    /\ out = None

-----------------------------------------------------------------------------
\* tonic completes the TLS handshake only with an unexpired client certificate.
Connected(i) == now <= CertExpiry[i]

\* challenge: the HMAC of the current time, the key and the identity.
MintChallenge(i) ==
    /\ Connected(i)
    /\ Cardinality(chal) < MaxChallenges
    /\ \E k \in Key : chal' = chal \cup {<<now, k, i>>}
    /\ out' = None
    /\ UNCHANGED <<now, requireProof, requireAttestation>>

\* The operational window of validate_request, in seconds.
ChallengeWindow == 5

\* time - request_time in u64: a request time in the future wraps around.
ElapsedU64(time, rt) == (time - rt) % U64

\* Mutant: the HMAC message leaves out the identities.
ValidIgnoresIdentity(i, s) ==
    /\ s # Malformed
    /\ ~(ElapsedU64(now, s.rt) > ChallengeWindow)
    /\ s.cert.tag # NoTag /\ <<s.cert.tag[1], s.cert.tag[2]>> = <<s.rt, s.pk>>
    /\ IF requireProof THEN s.cert.key = s.cert.sig /\ s.cert.key = s.pk
                       ELSE s.cert.sig = ChallengeKey

\* Mutant: the window check uses >= instead of >.
ValidWindowOffByOne(i, s) ==
    /\ s # Malformed
    /\ ~(ElapsedU64(now, s.rt) >= ChallengeWindow)
    /\ s.cert.tag = <<s.rt, s.pk, i>>
    /\ IF requireProof THEN s.cert.key = s.cert.sig /\ s.cert.key = s.pk
                       ELSE s.cert.sig = ChallengeKey

(* validate_request for client i passes every check: the challenge parses *)
(* and is small, the time is within the window, the HMAC matches the time, *)
(* the key and i, and the certificate is the server's own (no proof       *)
(* required) or re-signed by the challenged key itself (proof required).  *)
(* The order of the checks only decides the error code, which no property *)
(* observes.                                                              *)
Valid(i, s) ==
    /\ s # Malformed
    /\ ~(ElapsedU64(now, s.rt) > ChallengeWindow)
    /\ s.cert.tag = <<s.rt, s.pk, i>>
    /\ IF requireProof THEN s.cert.key = s.cert.sig /\ s.cert.key = s.pk
                       ELSE s.cert.sig = ChallengeKey

\* Mutant: the renewal test uses <= instead of <.
RefreshSettingsInclusive(i) ==
    IF now > CertExpiry[i] \/ CertExpiry[i] - now <= RenewalPeriod
    THEN now + ValidityLength ELSE None

\* The renewal hint: a new mTLS certificate's not_after, or None.
RefreshSettings(i) ==
    IF now > CertExpiry[i] \/ CertExpiry[i] - now < RenewalPeriod
    THEN now + ValidityLength ELSE None

\* Request windows around the current time (valid_after, valid_before).
Windows == LET near == {now - 1, now, now + 1} \cap Nat IN near \X near

\* The certificate type of a request's cert_type field (1 or 2).
TypeOf(ct) == IF ct = 1 THEN "User" ELSE "Host"

\* The key_id of a request: an authority name, or empty.
KeyIds == Authority \cup {""}

\* An empty key_id asks for the default authority.
RequestedAuthority(kid) == IF kid = "" THEN DefaultAuthority ELSE kid

(* certificate: validate the challenge, refuse an inverted or expired     *)
(* window and a cert_type other than 1 and 2, look up the requested       *)
(* authority's key, authorize, sign with authorization.authority, and     *)
(* re-parse.  The certificate embeds the requested authority's key as its  *)
(* signature key, and the registry refuses two authorities sharing a key,  *)
(* so a signature by any other authority fails sshcerts' check (at signing *)
(* or in the re-parse) and answers BadChallenge or BadCertOptions.  The    *)
(* first disjunct is every error answer: it issues nothing.               *)
Certificate(i) ==
    /\ Connected(i)
    /\ \/ out' = None
       \/ \E s \in Submission(i) :
          /\ Valid(i, s)
          /\ \E w \in Windows, ct \in {1, 2}, kid \in KeyIds :
             /\ ~(w[2] < w[1] \/ now > w[2])
             /\ RequestedAuthority(kid) \in Configured
             /\ TypeOf(ct) \in SshKeys[RequestedAuthority(kid)]
             /\ out' = [kind |-> "ssh", to |-> i, key |-> s.pk,
                        tag |-> s.cert.tag, va |-> w[1], vb |-> w[2],
                        certType |-> TypeOf(ct),
                        authority |-> RequestedAuthority(kid),
                        newExpiry |-> RefreshSettings(i)]
    /\ UNCHANGED <<now, chal, requireProof, requireAttestation>>

\* Mutant: an attested key that differs from the challenge's is accepted.
RegistrationIgnoresMismatch(i, s, att) ==
    /\ Valid(i, s)
    /\ att = Invalid => ~requireAttestation
    /\ out' = [kind |-> "reg", to |-> i, key |-> s.pk, tag |-> s.cert.tag,
               attested |-> IF att = Invalid THEN None ELSE att]

\* Mutant: a failed attestation is passed on as if it were one.
RegistrationKeepsInvalid(i, s, att) ==
    /\ Valid(i, s)
    /\ att # Invalid => att = s.pk
    /\ att = Invalid => ~requireAttestation
    /\ out' = [kind |-> "reg", to |-> i, key |-> s.pk, tag |-> s.cert.tag,
               attested |-> att]

(* A successful register_key or register_u2f_key, where att is the key of *)
(* the verified attestation, or Invalid: the attested key must be the     *)
(* challenge's; without a valid attestation the key is registered         *)
(* unattested unless require_attestation_chain; the authorizer accepts.   *)
Registration(i, s, att) ==
    /\ Valid(i, s)
    /\ att # Invalid => att = s.pk
    /\ att = Invalid => ~requireAttestation
    /\ out' = [kind |-> "reg", to |-> i, key |-> s.pk, tag |-> s.cert.tag,
               attested |-> IF att = Invalid THEN None ELSE att]

\* register_key: a PIV attestation chain; the first disjunct is every error.
RegisterKey(i) ==
    /\ Connected(i)
    /\ \/ out' = None
       \/ \E s \in Submission(i), att \in Key \cup {Invalid} :
             Registration(i, s, att)
    /\ UNCHANGED <<now, chal, requireProof, requireAttestation>>

\* register_u2f_key: a U2F attestation; the first disjunct is every error.
RegisterU2fKey(i) ==
    /\ Connected(i)
    /\ \/ out' = None
       \/ \E s \in Submission(i), att \in Key \cup {Invalid} :
             Registration(i, s, att)
    /\ UNCHANGED <<now, chal, requireProof, requireAttestation>>

(* attested_x509_certificate: verify the PIV chain (leaf is its key),     *)
(* authorize (the authorizer names the authority), parse the CSR,         *)
(* overwrite its fields (never a CA), sign with the authority's attested  *)
(* X.509 CA, and refuse a certificate whose key is not the attested one.  *)
(* Attestation certificates are public, so any key's chain may be shown.  *)
(* The first disjunct is every error answer.                              *)
IssueX509(i) ==
    /\ Connected(i)
    /\ \/ out' = None
       \/ \E leaf \in Key, authority \in X509Ca,
             csr \in [key : Key, isCa : BOOLEAN] :
             /\ csr.key = leaf
             /\ out' = [kind |-> "x509", to |-> i, key |-> csr.key,
                        leaf |-> leaf, isCa |-> FALSE, authority |-> authority]
    /\ UNCHANGED <<now, chal, requireProof, requireAttestation>>

\* A second passes.
Tick ==
    /\ now < MaxTime
    /\ now' = now + 1
    /\ out' = None
    /\ UNCHANGED <<chal, requireProof, requireAttestation>>

Next ==
    \/ Tick
    \/ \E i \in Ident :
          \/ MintChallenge(i)
          \/ Certificate(i)
          \/ RegisterKey(i)
          \/ RegisterU2fKey(i)
          \/ IssueX509(i)

Spec == Init /\ [][Next]_vars
-----------------------------------------------------------------------------
(* Challenge binding and proof of possession (spec properties 1 and 2).    *)
(* An SSH certificate or a key registration is issued only for a challenge *)
(* the server minted for exactly that key and the requester's own mTLS     *)
(* identity, no more than five seconds before; and when                    *)
(* require_rustica_proof is set, only to the holder of the key's private   *)
(* key.  It is broken by a validate_request that loses a check, whatever   *)
(* the attacker replays, re-signs or forges.                               *)
ChallengeBinding ==
    out # None /\ out.kind \in {"ssh", "reg"} =>
        /\ out.tag \in chal
        /\ out.tag[2] = out.key /\ out.tag[3] = out.to
        /\ out.tag[1] <= now /\ now - out.tag[1] <= ChallengeWindow
        /\ requireProof => Owner[out.key] = out.to

(* The converse (spec property 1, "if"): a client that answers its own     *)
(* challenge within the window, as the protocol asks (the unmodified        *)
(* certificate, or re-signed with the key when proof is required), passes  *)
(* validate_request.                                                       *)
HonestAnswer(tg) ==
    [rt |-> tg[1], pk |-> tg[2],
     cert |-> IF requireProof THEN [key |-> tg[2], sig |-> tg[2], tag |-> tg]
              ELSE MintedCert(tg)]

FreshChallengeAccepted ==
    \A tg \in chal :
        now - tg[1] <= ChallengeWindow /\ (requireProof => Owner[tg[2]] = tg[3])
            => Valid(tg[3], HonestAnswer(tg))

(* Attestation (spec property 7 and register_key): a registered key that   *)
(* carries an attestation is the attested key, and with                    *)
(* require_attestation_chain every registered key carries one; an X.509    *)
(* certificate is issued only for the key of the presented attestation, is *)
(* never a CA, and comes from an authority with an attested-X.509 CA.      *)
AttestedKeyBound ==
    /\ out # None /\ out.kind = "reg" =>
          /\ out.attested # None => out.attested = out.key
          /\ requireAttestation => out.attested # None
    /\ out # None /\ out.kind = "x509" =>
          out.key = out.leaf /\ ~out.isCa /\ out.authority \in X509Ca

(* mTLS renewal: when validity_length is at least the renewal period, a    *)
(* client certificate handed out with an SSH certificate expires later     *)
(* than the one the client presented, so a client that keeps requesting    *)
(* certificates keeps its access.                                          *)
ReissueExtends ==
    RenewalPeriod <= ValidityLength /\ out # None /\ out.kind = "ssh"
        /\ out.newExpiry # None
            => out.newExpiry > CertExpiry[out.to]

(* spec section 4.2 step 2: a request with valid_before <= valid_after is   *)
(* refused, so every issued certificate was asked for a non-empty window.  *)
RequestWindowNonEmpty ==
    out # None /\ out.kind = "ssh" => out.va < out.vb
=============================================================================
