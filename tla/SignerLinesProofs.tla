------------------------- MODULE SignerLinesProofs --------------------------
(* Proofs about the allowed-signers text format, for every set of key      *)
(* types, blobs and identities and every bound on the list: what the       *)
(* agent's first-space parse makes of each line the server renders, and   *)
(* what ffi_verify_signed_data therefore returns.                          *)
EXTENDS SignerLines, WellFoundedInduction, SequenceTheorems, TLAPS



\* Every identity the authorizer may return is a single word.
SingleWordIdentities == \A id \in Identity : Len(id) = 1

\* The line rendered for identity id and the key with blob b.
LineOf(id, b) == id \o PubkeyString(b)

-----------------------------------------------------------------------------
(* Every non-empty set of naturals has a least element.                    *)
LEMMA LeastExists ==
    ASSUME NEW T \in SUBSET Nat, T # {}
    PROVE  \E m \in T : \A j \in T : m <= j
<1>1. \E x \in T : \A y \in T : ~(<<y, x>> \in OpToRel(<, Nat))
    BY NatLessThanWellFounded, WFMin, Zenon
<1>2. \A x, y \in Nat : y < x => <<y, x>> \in OpToRel(<, Nat)
    BY Zenon DEF OpToRel
<1>3. PICK x \in T : \A y \in T : ~(<<y, x>> \in OpToRel(<, Nat))
    BY <1>1, Zenon
<1>4. \A y \in T : ~(y < x)
    BY <1>2, <1>3, Zenon
<1>. QED  BY <1>4

(* A positive length is one, or at least two.                              *)
LEMMA OneOrMore ==
    ASSUME NEW n \in Nat \ {0}
    PROVE  n = 1 \/ n >= 2
OBVIOUS

(* Least picks a member of a non-empty set of naturals.                     *)
LEMMA LeastIn ==
    ASSUME NEW T \in SUBSET Nat, T # {}
    PROVE  Least(T) \in T
BY LeastExists DEF Least

-----------------------------------------------------------------------------
(* Key type names and blobs are words of the file.                        *)
LEMMA KeyWords ==
    /\ KeyType \subseteq AnyWord
    /\ Blob \subseteq AnyWord
    /\ \A b \in Blob : BlobType[b] \in KeyType
<1>1. KeyType \subseteq AnyWord /\ Blob \subseteq AnyWord
    BY Zenon DEF AnyWord
<1>2. \A b \in Blob : BlobType[b] \in KeyType
    BY SignerLinesAssumption
<1>. QED  BY <1>1, <1>2

(* An authorizer list is a sequence of (identity, blob) pairs.             *)
LEMMA ListsAreSeqs ==
    ASSUME NEW s \in Lists
    PROVE  s \in Seq(Identity \X Blob)
<1>1. PICK n \in 0 .. MaxEntries : s \in [1 .. n -> Identity \X Blob]
    BY DEF Lists
<1>. QED  BY <1>1

(* The line the server renders for entry i: the identity's words, then     *)
(* the key type and the blob.                                              *)
LEMMA RenderedLine ==
    ASSUME NEW s \in Lists, NEW i \in 1 .. Len(s)
    PROVE  /\ s[i][1] \in Identity
           /\ s[i][1] \in Seq(AnyWord) \ {<< >>}
           /\ s[i][2] \in Blob
           /\ s[i] = <<s[i][1], s[i][2]>>
           /\ Len(Render(s)) = Len(s)
           /\ Render(s)[i] = LineOf(s[i][1], s[i][2])
<1>1. s \in Seq(Identity \X Blob)
    BY ListsAreSeqs
<1>2. s[i] \in Identity \X Blob
    BY <1>1, ElementOfSeq
<1>3. /\ s[i][1] \in Identity
      /\ s[i][1] \in Seq(AnyWord) \ {<< >>} /\ s[i][2] \in Blob
      /\ s[i] = <<s[i][1], s[i][2]>>
    BY <1>2, SignerLinesAssumption
<1>4. Len(Render(s)) = Len(s) /\ Render(s)[i] = LineOf(s[i][1], s[i][2])
    BY <1>1 DEF Render, LineOf, PubkeyString
<1>. QED  BY <1>3, <1>4

(* The words of a rendered line: the identity's, then the key type and   *)
(* the blob; splitn(2, ' ') leaves the identity's first word as the head. *)
LEMMA LineWords ==
    ASSUME NEW id \in Seq(AnyWord), id # << >>, NEW b \in Blob
    PROVE  /\ Len(LineOf(id, b)) = Len(id) + 2
           /\ Head(LineOf(id, b)) = id[1]
           /\ Len(Tail(LineOf(id, b))) = Len(id) + 1
           /\ Tail(LineOf(id, b))[1] = IF Len(id) = 1 THEN BlobType[b] ELSE id[2]
           /\ Tail(LineOf(id, b))[2] = IF Len(id) = 1 THEN b
                                      ELSE IF Len(id) = 2 THEN BlobType[b] ELSE id[3]
<1>. DEFINE key == PubkeyString(b)
            line == LineOf(id, b)
<1>0. BlobType[b] \in AnyWord /\ b \in AnyWord
    BY KeyWords
<1>1. key \in Seq(AnyWord) /\ Len(key) = 2 /\ key[1] = BlobType[b] /\ key[2] = b
    BY <1>0 DEF PubkeyString
<1>2. /\ line \in Seq(AnyWord)
      /\ Len(line) = Len(id) + 2
      /\ \A i \in 1 .. Len(id) + 2 :
            line[i] = IF i <= Len(id) THEN id[i] ELSE key[i - Len(id)]
    <2>1. line = id \o key
        BY DEF LineOf
    <2>2. /\ id \o key \in Seq(AnyWord)
          /\ Len(id \o key) = Len(id) + Len(key)
          /\ \A i \in 1 .. Len(id) + Len(key) :
                (id \o key)[i] = IF i <= Len(id) THEN id[i] ELSE key[i - Len(id)]
        BY <1>1, ConcatProperties, Zenon
    <2>. QED  BY <1>1, <2>1, <2>2
<1>3. Len(id) \in Nat \ {0}
    BY EmptySeq
<1>4. line # << >>
    BY <1>2, <1>3
<1>5. /\ Head(line) = line[1]
      /\ Len(Tail(line)) = Len(line) - 1
      /\ \A i \in 1 .. Len(Tail(line)) : Tail(line)[i] = line[i + 1]
    BY <1>2, <1>4, HeadTailProperties
<1>6. Head(line) = id[1] /\ Len(Tail(line)) = Len(id) + 1
    BY <1>2, <1>3, <1>5
<1>7. Tail(line)[1] = line[2] /\ Tail(line)[2] = line[3]
    BY <1>3, <1>5, <1>6
<1>8. line[2] = IF Len(id) = 1 THEN BlobType[b] ELSE id[2]
    <2>1. 2 \in 1 .. Len(id) + 2
        BY <1>3
    <2>2. line[2] = IF 2 <= Len(id) THEN id[2] ELSE key[2 - Len(id)]
        BY <1>2, <2>1
    <2>3. CASE Len(id) = 1
        BY <1>1, <2>2, <2>3
    <2>4. CASE Len(id) # 1
        <3>1. PICK n \in Nat \ {0} : n = Len(id)
            BY <1>3
        <3>2. 2 <= n
            BY <2>4, <3>1
        <3>. QED  BY <2>2, <3>1, <3>2, <2>4
    <2>. QED  BY <2>3, <2>4, Zenon
<1>9. line[3] = IF Len(id) = 1 THEN b ELSE IF Len(id) = 2 THEN BlobType[b] ELSE id[3]
    <2>1. 3 \in 1 .. Len(id) + 2
        BY <1>3
    <2>2. line[3] = IF 3 <= Len(id) THEN id[3] ELSE key[3 - Len(id)]
        BY <1>2, <2>1
    <2>3. CASE Len(id) = 1
        BY <1>1, <2>2, <2>3
    <2>4. CASE Len(id) = 2
        BY <1>1, <2>2, <2>4
    <2>5. CASE Len(id) > 2
        BY <1>3, <2>2, <2>5
    <2>6. PICK n \in Nat \ {0} : n = Len(id)
        BY <1>3
    <2>7. n = 1 \/ n = 2 \/ n > 2
        BY <2>6
    <2>. QED  BY <2>3, <2>4, <2>5, <2>6, <2>7, Zenon
<1>. QED  BY <1>2, <1>6, <1>7, <1>8, <1>9

(* A line whose identity is one word parses to (key, identity).            *)
LEMMA ParseSingleWord ==
    ASSUME NEW id \in Seq(AnyWord), Len(id) = 1, NEW b \in Blob
    PROVE  ParseAllowedSigner(LineOf(id, b)) = <<b, id>>
<1>. DEFINE line == LineOf(id, b)
<1>0. id # << >>
    OBVIOUS
<1>a. /\ Len(line) = Len(id) + 2
      /\ Head(line) = id[1]
      /\ Len(Tail(line)) = Len(id) + 1
      /\ Tail(line)[1] = IF Len(id) = 1 THEN BlobType[b] ELSE id[2]
      /\ Tail(line)[2] = IF Len(id) = 1 THEN b
                         ELSE IF Len(id) = 2 THEN BlobType[b] ELSE id[3]
    BY <1>0, LineWords, Zenon
<1>1. /\ Len(line) = 3 /\ Head(line) = id[1]
      /\ Len(Tail(line)) = 2 /\ Tail(line)[1] = BlobType[b] /\ Tail(line)[2] = b
    BY <1>a
<1>2. id = <<id[1]>>
    BY SeqEqual
<1>3. FromString(Tail(line)) = b
    <2>1. /\ Len(Tail(line)) >= 2
          /\ Tail(line)[1] \in KeyType /\ Tail(line)[2] \in Blob
          /\ BlobType[Tail(line)[2]] = Tail(line)[1]
        BY <1>1, KeyWords
    <2>. QED  BY <1>1, <2>1 DEF FromString
<1>4. b # Null
    BY SignerLinesAssumption
<1>. QED  BY <1>1, <1>2, <1>3, <1>4 DEF ParseAllowedSigner

(* Whatever the identity, a rendered line parses to Null or to some key  *)
(* and the identity's first word (not necessarily the entry's key).        *)
LEMMA ParseRendered ==
    ASSUME NEW s \in Lists, NEW i \in 1 .. Len(s)
    PROVE  \/ ParseAllowedSigner(Render(s)[i]) = Null
           \/ ParseAllowedSigner(Render(s)[i]) \in Blob \X {<<s[i][1][1]>>}
<1>1. /\ s[i][1] \in Seq(AnyWord) \ {<< >>}
      /\ s[i][2] \in Blob
      /\ Render(s)[i] = LineOf(s[i][1], s[i][2])
    BY RenderedLine
<1>. DEFINE line == Render(s)[i]
<1>2. Head(line) = s[i][1][1]
    BY <1>1, LineWords
<1>3. FromString(Tail(line)) \in Blob \cup {Null}
    BY DEF FromString
<1>. QED  BY <1>2, <1>3 DEF ParseAllowedSigner
-----------------------------------------------------------------------------
(* What ffi_verify_signed_data returns for key k, by the first line of the *)
(* rendered list that parses and carries k.                                 *)

\* The parsed lines and the indices VerifiedPrincipal chooses among.
Parsed(s) == [i \in 1 .. Len(Render(s)) |-> ParseAllowedSigner(Render(s)[i])]
Carrying(s, k) == {i \in 1 .. Len(Render(s)) : Parsed(s)[i] # Null /\ Parsed(s)[i][1] = k}

(* VerifiedPrincipal is Null when no line carries k, and otherwise the      *)
(* principal of the least such line.                                       *)
LEMMA VerifiedLeast ==
    ASSUME NEW s \in Lists, NEW k
    PROVE  \/ Carrying(s, k) = {} /\ VerifiedPrincipal(Render(s), k) = Null
           \/ /\ Carrying(s, k) # {}
              /\ Least(Carrying(s, k)) \in Carrying(s, k)
              /\ Least(Carrying(s, k)) \in 1 .. Len(s)
              /\ VerifiedPrincipal(Render(s), k) = Parsed(s)[Least(Carrying(s, k))][2]
<1>1. Len(Render(s)) = Len(s)
    BY RenderedLine, ListsAreSeqs, EmptySeq DEF Render
<1>2. VerifiedPrincipal(Render(s), k) =
        IF Carrying(s, k) = {} THEN Null ELSE Parsed(s)[Least(Carrying(s, k))][2]
    BY DEF VerifiedPrincipal, Parsed, Carrying
<1>3. CASE Carrying(s, k) # {}
    <2>1. Least(Carrying(s, k)) \in Carrying(s, k)
        <3>1. Carrying(s, k) \in SUBSET Nat
            BY DEF Carrying
        <3>. QED  BY <1>3, <3>1, LeastIn
    <2>. QED  BY <1>1, <1>2, <1>3, <2>1 DEF Carrying
<1>. QED  BY <1>2, <1>3

(* What verification returns is a principal made of the first word of some *)
(* identity, or Null.                                                      *)
LEMMA VerifiedType ==
    ASSUME NEW s \in Lists, NEW k
    PROVE  VerifiedPrincipal(Render(s), k) \in {<<w>> : w \in AnyWord} \cup {Null}
<1>1. CASE Carrying(s, k) = {}
    BY <1>1, VerifiedLeast
<1>2. CASE Carrying(s, k) # {}
    <2>. DEFINE m == Least(Carrying(s, k))
    <2>1. m \in 1 .. Len(s) /\ Parsed(s)[m] # Null
          /\ VerifiedPrincipal(Render(s), k) = Parsed(s)[m][2]
        BY <1>2, VerifiedLeast DEF Carrying
    <2>2. Parsed(s)[m] = ParseAllowedSigner(Render(s)[m])
        BY <2>1, RenderedLine DEF Parsed
    <2>3. Parsed(s)[m] \in Blob \X {<<s[m][1][1]>>}
        BY <2>1, <2>2, ParseRendered
    <2>4. s[m][1][1] \in AnyWord
        BY <2>1, RenderedLine, ElementOfSeq, EmptySeq
    <2>. QED  BY <2>1, <2>3, <2>4
<1>. QED  BY <1>1, <1>2

(* With single-word identities every rendered line parses back to its      *)
(* entry, so verification returns the identity the list gives k first.     *)
LEMMA VerifiedSingleWord ==
    ASSUME SingleWordIdentities, NEW s \in Lists, NEW k
    PROVE  VerifiedPrincipal(Render(s), k) = Listed(s, k)
<1>1. \A i \in 1 .. Len(s) : Parsed(s)[i] = <<s[i][2], s[i][1]>>
    <2>. SUFFICES ASSUME NEW i \in 1 .. Len(s)
                  PROVE  Parsed(s)[i] = <<s[i][2], s[i][1]>>
        OBVIOUS
    <2>1. /\ s[i][1] \in Identity /\ s[i][1] \in Seq(AnyWord) /\ s[i][2] \in Blob
          /\ Len(Render(s)) = Len(s) /\ Render(s)[i] = LineOf(s[i][1], s[i][2])
        BY RenderedLine
    <2>2. Len(s[i][1]) = 1
        BY <2>1 DEF SingleWordIdentities
    <2>3. ParseAllowedSigner(LineOf(s[i][1], s[i][2])) = <<s[i][2], s[i][1]>>
        BY <2>1, <2>2, ParseSingleWord
    <2>. QED  BY <2>1, <2>3 DEF Parsed
<1>2. \A i \in 1 .. Len(s) : <<s[i][2], s[i][1]>> # Null
    BY RenderedLine, SignerLinesAssumption
<1>3. Carrying(s, k) = {i \in 1 .. Len(s) : s[i][2] = k}
    BY <1>1, <1>2, RenderedLine, ListsAreSeqs, EmptySeq DEF Carrying, Render
<1>4. Listed(s, k) = IF Carrying(s, k) = {} THEN Null ELSE s[Least(Carrying(s, k))][1]
    BY <1>3 DEF Listed
<1>. QED  BY <1>1, <1>4, VerifiedLeast
(* A line of an identity with a space parses only when the identity's     *)
(* second word is the type name of the key the parse returns.              *)
LEMMA ParseSpacedType ==
    ASSUME NEW id \in Seq(AnyWord), Len(id) >= 2, NEW b \in Blob,
           ParseAllowedSigner(LineOf(id, b)) # Null
    PROVE  /\ ParseAllowedSigner(LineOf(id, b))[1] \in Blob
           /\ BlobType[ParseAllowedSigner(LineOf(id, b))[1]] = id[2]
<1>. DEFINE line == LineOf(id, b)
<1>0. id # << >>
    OBVIOUS
<1>a. /\ Len(Tail(line)) = Len(id) + 1
      /\ Tail(line)[1] = IF Len(id) = 1 THEN BlobType[b] ELSE id[2]
    BY <1>0, LineWords, Zenon
<1>1. Tail(line)[1] = id[2]
    BY <1>a
<1>2. FromString(Tail(line)) # Null /\ ParseAllowedSigner(line)[1] = FromString(Tail(line))
    BY DEF ParseAllowedSigner
<1>3. /\ FromString(Tail(line)) = Tail(line)[2] /\ Tail(line)[2] \in Blob
      /\ BlobType[Tail(line)[2]] = Tail(line)[1]
    BY <1>2 DEF FromString
<1>. QED  BY <1>1, <1>2, <1>3

(* Whatever the identities, a principal verification returns for k comes  *)
(* from a line whose identity is paired with k, or whose second word is    *)
(* k's type name.                                                          *)
LEMMA VerifiedShape ==
    ASSUME NEW s \in Lists, NEW k, VerifiedPrincipal(Render(s), k) # Null
    PROVE  \E i \in 1 .. Len(s) :
              /\ VerifiedPrincipal(Render(s), k) = <<s[i][1][1]>>
              /\ \/ s[i] = <<VerifiedPrincipal(Render(s), k), k>>
                 \/ Len(s[i][1]) >= 2 /\ s[i][1][2] = BlobType[k]
<1>. DEFINE m == Least(Carrying(s, k))
<1>1. /\ m \in 1 .. Len(s)
      /\ Parsed(s)[m] # Null /\ Parsed(s)[m][1] = k
      /\ VerifiedPrincipal(Render(s), k) = Parsed(s)[m][2]
    BY VerifiedLeast DEF Carrying
<1>2. /\ s[m][1] \in Identity /\ s[m][1] \in Seq(AnyWord) \ {<< >>} /\ s[m][2] \in Blob
      /\ s[m] = <<s[m][1], s[m][2]>>
      /\ Parsed(s)[m] = ParseAllowedSigner(LineOf(s[m][1], s[m][2]))
      /\ Parsed(s)[m] = ParseAllowedSigner(Render(s)[m])
    BY <1>1, RenderedLine DEF Parsed
<1>3. VerifiedPrincipal(Render(s), k) = <<s[m][1][1]>>
    BY <1>1, <1>2, ParseRendered
<1>4. PICK n \in Nat \ {0} : n = Len(s[m][1])
    BY <1>2, EmptySeq
<1>5. CASE n = 1
    <2>1. Parsed(s)[m] = <<s[m][2], s[m][1]>>
        BY <1>2, <1>4, <1>5, ParseSingleWord
    <2>2. s[m] = <<VerifiedPrincipal(Render(s), k), k>>
        BY <1>1, <1>2, <2>1
    <2>. QED  BY <1>1, <1>3, <2>2
<1>6. CASE n >= 2
    <2>1. BlobType[Parsed(s)[m][1]] = s[m][1][2]
        BY <1>1, <1>2, <1>4, <1>6, ParseSpacedType
    <2>2. Len(s[m][1]) >= 2 /\ s[m][1][2] = BlobType[k]
        BY <1>1, <1>4, <1>6, <2>1
    <2>. QED  BY <1>1, <1>3, <2>2
<1>7. n = 1 \/ n >= 2
    BY <1>4, OneOrMore
<1>. QED  BY <1>5, <1>6, <1>7, Zenon
-----------------------------------------------------------------------------
(* The inductive invariant: the recorded verification is what             *)
(* ffi_verify_signed_data returns for its key on the list the server      *)
(* rendered (the list never changes under verification).                   *)
VerifiedCurrent ==
    verified # Null => verified[2] = VerifiedPrincipal(Render(signers), verified[1])

IInv == TypeOK /\ VerifiedCurrent

LEMMA InitIInv == Init => IInv
<1>. SUFFICES ASSUME Init PROVE IInv
    OBVIOUS
<1>. QED  BY DEF Init, IInv, TypeOK, VerifiedCurrent

LEMMA NextIInv == IInv /\ [Verify]_vars => IInv'
<1>. SUFFICES ASSUME IInv, [Verify]_vars PROVE IInv'
    OBVIOUS
<1>1. CASE Verify
    <2>1. PICK k \in Blob : verified' = <<k, VerifiedPrincipal(Render(signers), k)>>
        BY <1>1 DEF Verify
    <2>2. signers' = signers /\ signers \in Lists
        BY <1>1 DEF Verify, IInv, TypeOK
    <2>3. VerifiedPrincipal(Render(signers), k) \in {<<w>> : w \in AnyWord} \cup {Null}
        BY <2>2, VerifiedType
    <2>4. TypeOK'
        BY <2>1, <2>2, <2>3 DEF TypeOK
    <2>5. VerifiedCurrent'
        BY <2>1, <2>2 DEF VerifiedCurrent
    <2>. QED  BY <2>4, <2>5 DEF IInv
<1>2. CASE UNCHANGED vars
    BY <1>2 DEF IInv, TypeOK, VerifiedCurrent, vars
<1>. QED  BY <1>1, <1>2

(* The type invariant: the list is an authorizer list, and a verification  *)
(* records a blob and a one-word principal or the null pointer.            *)
THEOREM SignerTypeCorrect == Spec => []TypeOK
<1>1. Spec => []IInv
    BY InitIInv, NextIInv, PTL DEF Spec
<1>. QED  BY <1>1, PTL DEF IInv

(* VerifiesAsListed for every instance whose identities are single words:  *)
(* server-side rendering and the agent's first-space parse and first match *)
(* round-trip, so ffi_verify_signed_data returns exactly the identity the  *)
(* authorizer's list gives the key first.                                  *)
THEOREM VerifiesAsListedHolds ==
    ASSUME SingleWordIdentities
    PROVE  Spec => []VerifiesAsListed
<1>1. IInv => VerifiesAsListed
    BY VerifiedSingleWord DEF IInv, TypeOK, VerifiedCurrent, VerifiesAsListed
<1>. QED  BY <1>1, InitIInv, NextIInv, PTL DEF Spec

(* SpoofNeedsKeyTypeWord for every instance, whatever identities the      *)
(* authorizer returns: ffi_verify_signed_data names a signer the list does *)
(* not pair with the key only when some listed identity has the key's type *)
(* name as its second word, as in the spaced_identity counterexample.      *)
THEOREM SpoofNeedsKeyTypeWordHolds == Spec => []SpoofNeedsKeyTypeWord
<1>1. IInv => SpoofNeedsKeyTypeWord
    <2>. SUFFICES ASSUME IInv, verified # Null, verified[2] # Null
                  PROVE  \E i \in 1 .. Len(signers) :
                            /\ verified[2] = <<signers[i][1][1]>>
                            /\ \/ signers[i] = <<verified[2], verified[1]>>
                               \/ Len(signers[i][1]) >= 2
                                  /\ signers[i][1][2] = BlobType[verified[1]]
        BY DEF SpoofNeedsKeyTypeWord
    <2>1. signers \in Lists
        BY DEF IInv, TypeOK
    <2>2. verified[2] = VerifiedPrincipal(Render(signers), verified[1])
        BY DEF IInv, VerifiedCurrent
    <2>. DEFINE vp == VerifiedPrincipal(Render(signers), verified[1])
    <2>3. vp # Null
        BY <2>2
    <2>4. \E i \in 1 .. Len(signers) :
              /\ vp = <<signers[i][1][1]>>
              /\ \/ signers[i] = <<vp, verified[1]>>
                 \/ Len(signers[i][1]) >= 2 /\ signers[i][1][2] = BlobType[verified[1]]
        BY <2>1, <2>3, VerifiedShape
    <2>5. verified[2] = vp
        BY <2>2
    <2>. HIDE DEF vp
    <2>6. PICK i \in 1 .. Len(signers) :
              /\ vp = <<signers[i][1][1]>>
              /\ \/ signers[i] = <<vp, verified[1]>>
                 \/ Len(signers[i][1]) >= 2 /\ signers[i][1][2] = BlobType[verified[1]]
        BY <2>4
    <2>. QED  BY <2>5, <2>6
<1>. QED  BY <1>1, InitIInv, NextIInv, PTL DEF Spec
=============================================================================
