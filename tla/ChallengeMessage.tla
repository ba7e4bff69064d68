--------------------------- MODULE ChallengeMessage ---------------------------
(***************************************************************************)
(* The string the challenge HMAC signs.  challenge (src/rustica/src/       *)
(* server.rs) signs format!("{}-{}-{}", timestamp, pubkey,                 *)
(* mtls_identities.join(",")) and validate_request recomputes the same    *)
(* string from the presented request time, the presented pubkey string    *)
(* and the identities of the presenting client's mTLS certificate; the   *)
(* tag verifies exactly when the two strings are equal (HMAC-SHA256 is     *)
(* taken to have no collisions).                                           *)
(*                                                                         *)
(* The property is about the encoding, so strings are sequences of        *)
(* characters over a small alphabet that contains both separators.        *)
(***************************************************************************)
EXTENDS Naturals, Sequences, FiniteSets, SequencesExt

CONSTANTS
    Digits,      \* decimal renderings of the u64 times (no separator in them)
    Pubkey,      \* pubkey strings a client may send
    CommonName,  \* CN values an mTLS certificate may carry
    MaxCNs,      \* bound on the CNs of one certificate
    MaxChallenges \* bound on the challenges handed out

(* extract_certificate_information: the CNs of the client's certificate, *)
(* in order; a certificate without a CN gives the empty list, which       *)
(* nothing rejects.                                                        *)
Identities == BoundedSeq(CommonName, MaxCNs)

\* mtls_identities.join(",")
JoinComma(ids) ==
    IF ids = << >> THEN << >>
    ELSE FoldLeft(LAMBDA acc, cn : acc \o <<",">> \o cn, Head(ids), Tail(ids))

\* format!("{}-{}-{}", time, pubkey, identities.join(","))
Message(t, p, ids) == t \o <<"-">> \o p \o <<"-">> \o JoinComma(ids)

VARIABLES
    minted,    \* the (time, pubkey, identities) of every challenge handed out
    accepted   \* the (time, pubkey, identities) of every request whose tag verified

vars == <<minted, accepted>>

Request == Digits \X Pubkey \X Identities

Init ==
    /\ minted = {}
    /\ accepted = {}

\* challenge: a client with identities ids asks for a challenge for pubkey p.
Challenge(t, p, ids) ==
    /\ Cardinality(minted) < MaxChallenges
    /\ minted' = minted \cup {<<t, p, ids>>}
    /\ UNCHANGED accepted

(* validate_request step 7: a client with identities ids presents a tag   *)
(* minted earlier (by itself or by anyone whose challenge it saw) with     *)
(* time t and pubkey string p; the tag verifies iff the strings agree.   *)
Present(t, p, ids) ==
    /\ \E m \in minted : Message(m[1], m[2], m[3]) = Message(t, p, ids)
    /\ accepted' = accepted \cup {<<t, p, ids>>}
    /\ UNCHANGED minted

Next ==
    \E r \in Request :
        \/ Challenge(r[1], r[2], r[3])
        \/ Present(r[1], r[2], r[3])

Spec == Init /\ [][Next]_vars

TypeOK ==
    /\ minted \subseteq Request
    /\ accepted \subseteq Request

-----------------------------------------------------------------------------
(* spec.md section 4.1: "the HMAC-in-key-id binds (time, pubkey, identity)  *)
(* into a single unforgeable token": a tag verifies only for the very      *)
(* time, pubkey string and identities it was minted for.                   *)
TagBindsRequest == accepted \subseteq minted
=============================================================================
