----------------------------- MODULE SignerLines -----------------------------
(***************************************************************************)
(* The text format of the allowed-signers list, end to end: the server     *)
(* renders each (identity, pubkey) pair the authorizer returns as          *)
(* "{identity} {pubkey}" and joins the lines with "\n" (allowed_signers,  *)
(* src/rustica/src/server.rs); the agent splits the file into lines,      *)
(* splits each line at its first space, parses the rest as a public key   *)
(* and returns the principal of the first line with the signature's key   *)
(* (parse_allowed_signer and ffi_verify_signed_data,                      *)
(* src/rustica-agent/src/ffi/signing.rs).                                  *)
(*                                                                         *)
(* Text is abstracted to words: a string is the sequence of its            *)
(* space-separated words, so "{} {}" is concatenation and splitn(2, ' ')   *)
(* is Head and Tail.  An identity is any short sequence of words; a public *)
(* key is known by its base64 blob.                                        *)
(***************************************************************************)
EXTENDS Naturals, Sequences

CONSTANTS
    KeyType,    \* key type names ("ssh-ed25519", ...)
    Blob,       \* base64 key blobs; a key is identified by its blob
    BlobType,   \* the key type each blob encodes
    Identity,   \* the identities the authorizer may return, as word sequences
    MaxEntries, \* bound on the length of the authorizer's list
    Null        \* None / the null pointer

\* Every word that can occur in the file.
AnyWord == (UNION {{w[i] : i \in 1 .. Len(w)} : w \in Identity}) \cup KeyType \cup Blob

ASSUME SignerLinesAssumption ==
    /\ BlobType \in [Blob -> KeyType]
    /\ Identity \subseteq Seq(AnyWord) \ {<< >>}
    /\ MaxEntries \in Nat
    /\ Null \notin Blob \cup Seq(AnyWord) \cup (Blob \X Seq(AnyWord))

\* response.allowed_signers: the authorizer's (identity, key) pairs.
Lists == UNION {[1 .. n -> Identity \X Blob] : n \in 0 .. MaxEntries}

\* The pubkey string the authorizer returns, in OpenSSH "type base64" form.
PubkeyString(b) == <<BlobType[b], b>>

(* format!("{} {}", identity, pubkey) for every entry, join("\n"), and on  *)
(* the agent lines(): the file as a sequence of lines.                     *)
Render(s) == [i \in 1 .. Len(s) |-> s[i][1] \o PubkeyString(s[i][2])]

(* sshcerts PublicKey::from_string: a key type name, then a blob of that    *)
(* type; a further word is the comment and is ignored.                     *)
FromString(w) ==
    IF Len(w) >= 2 /\ w[1] \in KeyType /\ w[2] \in Blob /\ BlobType[w[2]] = w[1]
    THEN w[2] ELSE Null

\* Mutant: the principal and the key string are swapped in the result.
ParseSwapped(line) ==
    IF Len(line) < 2 \/ FromString(Tail(line)) = Null THEN Null
    ELSE <<FromString(Tail(line)), Tail(line)>>

\* Mutant: the line is split at its last space (rsplitn) instead of the first.
ParseLastSpace(line) ==
    IF Len(line) < 2 \/ FromString(<<line[Len(line)]>>) = Null THEN Null
    ELSE <<FromString(<<line[Len(line)]>>), SubSeq(line, 1, Len(line) - 1)>>

(* parse_allowed_signer: splitn(2, ' ') must give two parts, and the second *)
(* must parse as a public key; the result is (key, first word).            *)
ParseAllowedSigner(line) ==
    IF Len(line) < 2 \/ FromString(Tail(line)) = Null THEN Null
    ELSE <<FromString(Tail(line)), <<Head(line)>>>>

\* The least element of a non-empty set of indices.
Least(J) == CHOOSE j \in J : \A j2 \in J : j <= j2

\* Mutant: the key filter is lost, so the first parsed line answers for any listed key.
VerifiedPrincipalUnfiltered(lines, k) ==
    LET P == [i \in 1 .. Len(lines) |-> ParseAllowedSigner(lines[i])]
        J == {i \in 1 .. Len(lines) : P[i] # Null /\ P[i][1] = k}
        N == {i \in 1 .. Len(lines) : P[i] # Null}
    IN  IF J = {} THEN Null ELSE P[Least(N)][2]

(* ffi_verify_signed_data for a valid signature by key k: the principal of *)
(* the first line that parses and carries k, or the null pointer.          *)
VerifiedPrincipal(lines, k) ==
    LET P == [i \in 1 .. Len(lines) |-> ParseAllowedSigner(lines[i])]
        J == {i \in 1 .. Len(lines) : P[i] # Null /\ P[i][1] = k}
    IN  IF J = {} THEN Null ELSE P[Least(J)][2]

VARIABLES
    signers,   \* the list the authorizer returned
    verified   \* the last verification: <<key, principal or Null>>, or Null

vars == <<signers, verified>>

TypeOK ==
    /\ signers \in Lists
    /\ verified \in (Blob \X ({<<w>> : w \in AnyWord} \cup {Null})) \cup {Null}

Init ==
    /\ signers \in Lists
    /\ verified = Null

\* The agent verifies a signature by key k against the rendered list.
Verify ==
    /\ \E k \in Blob : verified' = <<k, VerifiedPrincipal(Render(signers), k)>>
    /\ UNCHANGED signers

Spec == Init /\ [][Verify]_vars

-----------------------------------------------------------------------------
\* The identity the authorizer's list gives key k first, or Null.
Listed(s, k) ==
    LET J == {i \in 1 .. Len(s) : s[i][2] = k}
    IN  IF J = {} THEN Null ELSE s[Least(J)][1]

(* Rendering on the server and parsing on the agent round-trip: the agent  *)
(* returns exactly the identity the authorizer's list gives the            *)
(* signature's key first, and null for a key it does not list.           *)
VerifiesAsListed ==
    verified # Null => verified[2] = Listed(signers, verified[1])

(* ffi_verify_signed_data "returns the name of the allowed signer": a       *)
(* principal it returns for key k is an identity the list pairs with k.    *)
NoMisattribution ==
    (verified # Null /\ verified[2] # Null) =>
        \E i \in 1 .. Len(signers) : signers[i] = <<verified[2], verified[1]>>

(* What an authorizer must forbid: a principal ffi_verify_signed_data      *)
(* returns for key k is the first word of a listed identity that is either *)
(* paired with k, or has k's type name as its second word, so that          *)
(* parse_allowed_signer's first-space split reads the rest of its line as  *)
(* k's key string.  No other list makes the agent name a wrong signer.     *)
SpoofNeedsKeyTypeWord ==
    (verified # Null /\ verified[2] # Null) =>
        \E i \in 1 .. Len(signers) :
            /\ verified[2] = <<signers[i][1][1]>>
            /\ \/ signers[i] = <<verified[2], verified[1]>>
               \/ Len(signers[i][1]) >= 2 /\ signers[i][1][2] = BlobType[verified[1]]
=============================================================================
