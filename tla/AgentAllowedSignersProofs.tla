--------------------- MODULE AgentAllowedSignersProofs ----------------------
(* Proofs about the agent's allowed-signers file, for every number of      *)
(* servers, every set of lists they may answer with and every bound on    *)
(* the calls.                                                              *)
EXTENDS AgentAllowedSigners, WellFoundedInduction, TLAPS

USE AgentAssumption

Line == Principal \X Key

\* f is a prefix of l: what write_all has written of l so far.
Prefix(f, l) == Len(f) <= Len(l) /\ \A j \in 1 .. Len(f) : f[j] = l[j]

\* The lines that FirstMatch(l, k) chooses among.
Matches(l, k) == {j \in 1 .. Len(l) : l[j][2] = k}

-----------------------------------------------------------------------------
(* Every non-empty set of naturals has a least element.                    *)
LEMMA LeastExists ==
    ASSUME NEW T \in SUBSET Nat, T # {}
    PROVE  \E m \in T : \A j \in T : m <= j
<1>1. \E x \in T : \A y \in T : ~(<<y, x>> \in OpToRel(<, Nat))
    BY NatLessThanWellFounded, WFMin, Zenon
<1>2. \A x, y \in Nat : y < x => <<y, x>> \in OpToRel(<, Nat)
    BY Zenon DEF OpToRel
<1>3. PICK x \in T : \A y \in T : ~(<<y, x>> \in OpToRel(<, Nat))
    BY <1>1, Zenon
<1>4. \A y \in T : ~(y < x)
    BY <1>2, <1>3, Zenon
<1>. QED  BY <1>4

(* The CHOOSE of FirstMatch picks the least element, whichever it is.      *)
LEMMA LeastChosen ==
    ASSUME NEW T \in SUBSET Nat, NEW m \in T, \A j \in T : m <= j
    PROVE  (CHOOSE j \in T : \A j2 \in T : j <= j2) = m
<1>1. \A x \in T : (\A j2 \in T : x <= j2) => x = m
    OBVIOUS
<1>. QED  BY <1>1

(* FirstMatch is the principal of the least matching line, or Null when    *)
(* no line has the key.                                                    *)
LEMMA FirstMatchLeast ==
    ASSUME NEW l \in Seq(Line), NEW k
    PROVE  \/ Matches(l, k) = {} /\ FirstMatch(l, k) = Null
           \/ \E m \in Matches(l, k) :
                 /\ \A j \in Matches(l, k) : m <= j
                 /\ FirstMatch(l, k) = l[m][1]
<1>1. Matches(l, k) \in SUBSET Nat
    BY DEF Matches
<1>2. CASE Matches(l, k) = {}
    BY <1>2 DEF FirstMatch, Matches
<1>3. CASE Matches(l, k) # {}
    <2>1. PICK m \in Matches(l, k) : \A j \in Matches(l, k) : m <= j
        BY <1>1, <1>3, LeastExists
    <2>2. (CHOOSE j \in Matches(l, k) : \A j2 \in Matches(l, k) : j <= j2) = m
        BY <1>1, <2>1, LeastChosen
    <2>3. FirstMatch(l, k) = l[m][1]
        BY <1>3, <2>2 DEF FirstMatch, Matches
    <2>. QED  BY <2>1, <2>3
<1>. QED  BY <1>2, <1>3

(* What ffi_verify_signed_data returns is a principal or the null pointer. *)
LEMMA FirstMatchType ==
    ASSUME NEW l \in Seq(Line), NEW k
    PROVE  FirstMatch(l, k) \in Principal \cup {Null}
<1>1. \A m \in Matches(l, k) : l[m][1] \in Principal
    BY DEF Matches, Line
<1>. QED  BY <1>1, FirstMatchLeast

(* The first-match rule on a prefix of a list agrees with it on the whole  *)
(* list whenever the prefix already has a line with the key.               *)
LEMMA PrefixFirstMatch ==
    ASSUME NEW f \in Seq(Line), NEW l \in Seq(Line), NEW k,
           Prefix(f, l), FirstMatch(f, k) # Null
    PROVE  FirstMatch(l, k) = FirstMatch(f, k)
<1>1. PICK m \in Matches(f, k) : /\ \A j \in Matches(f, k) : m <= j
                                 /\ FirstMatch(f, k) = f[m][1]
    BY FirstMatchLeast
<1>2. m \in 1 .. Len(f) /\ f[m] = l[m]
    BY DEF Matches, Prefix
<1>3. m \in Matches(l, k)
    BY <1>1, <1>2 DEF Matches, Prefix
<1>4. \A j \in Matches(l, k) : m <= j
    <2>. SUFFICES ASSUME NEW j \in Matches(l, k), j < m  PROVE FALSE
        BY DEF Matches
    <2>1. j \in Matches(f, k)
        BY <1>2 DEF Matches, Prefix
    <2>. QED  BY <1>1, <2>1 DEF Matches
<1>5. Matches(l, k) # {}
    BY <1>3
<1>6. FirstMatch(l, k) = l[m][1]
    <2>1. PICK m2 \in Matches(l, k) : /\ \A j \in Matches(l, k) : m2 <= j
                                      /\ FirstMatch(l, k) = l[m2][1]
        BY <1>5, FirstMatchLeast
    <2>2. m2 = m
        BY <1>3, <1>4, <2>1 DEF Matches
    <2>. QED  BY <2>1, <2>2
<1>. QED  BY <1>1, <1>2, <1>6

-----------------------------------------------------------------------------
(* The inductive invariant.  The file is always a prefix of some list a    *)
(* server served (or of the initial file): empty while the loop asks the   *)
(* servers, a prefix of the answer while write_all runs, and that whole    *)
(* answer once Success is returned.                                        *)
FileFromServed == \E l \in served : Prefix(file, l)
LoopEmpty == rpc = "loop" => file = << >>
WritingPrefix == rpc = "writing" => Prefix(file, payload) /\ payload \in served

AInv ==
    /\ TypeOK
    /\ FileFromServed
    /\ LoopEmpty
    /\ WritingPrefix
    /\ SuccessMeansWritten
    /\ VerificationSound

LEMMA InitAInv == Init => AInv
<1>. SUFFICES ASSUME Init PROVE AInv
    OBVIOUS
<1>1. file \in Seq(Line)
    BY DEF Init, Line
<1>2. Prefix(file, file)
    BY <1>1 DEF Prefix
<1>. QED  BY <1>1, <1>2 DEF Init, AInv, TypeOK, FileFromServed, LoopEmpty,
                             WritingPrefix, SuccessMeansWritten,
                             VerificationSound, Line, Status

(* The empty file is a prefix of every list.                              *)
LEMMA EmptyPrefix ==
    ASSUME NEW l \in Seq(Line)
    PROVE  Prefix(<< >>, l)
BY DEF Prefix

\* The steps of the calls that leave the file and the served lists alone.
LEMMA ControlStep ==
    ASSUME AInv, EarlyFailure \/ LoopExhausted \/ WriteFails \/ Return
    PROVE  AInv'
<1>1. UNCHANGED <<file, payload, served, verified>> /\ rpc' \in {"idle", "done"}
    BY DEF EarlyFailure, LoopExhausted, WriteFails, Return
<1>2. status' # "Success" \/ rpc' = "idle"
    BY DEF EarlyFailure, LoopExhausted, WriteFails, Return
<1>3. TypeOK'
    BY DEF AInv, TypeOK, EarlyFailure, LoopExhausted, WriteFails, Return, Status
<1>. QED  BY <1>1, <1>2, <1>3 DEF AInv, FileFromServed, LoopEmpty, WritingPrefix,
                                   SuccessMeansWritten, VerificationSound

LEMMA CreateStep ==
    ASSUME AInv, Create
    PROVE  AInv'
<1>1. TypeOK'
    BY DEF AInv, TypeOK, Create
<1>2. PICK l \in served : Prefix(file, l)
    BY DEF AInv, FileFromServed
<1>3. FileFromServed'
    BY <1>2, EmptyPrefix DEF Create, FileFromServed, AInv, TypeOK, Line
<1>. QED  BY <1>1, <1>3 DEF AInv, Create, LoopEmpty, WritingPrefix,
                            SuccessMeansWritten, VerificationSound

LEMMA FetchStep ==
    ASSUME AInv, Fetch
    PROVE  AInv'
<1>1. CASE idx' = idx + 1 /\ UNCHANGED <<rpc, payload, served>>
    BY <1>1 DEF AInv, TypeOK, Fetch, FileFromServed, LoopEmpty, WritingPrefix,
                SuccessMeansWritten, VerificationSound
<1>2. CASE \E l \in Lists : payload' = l /\ served' = served \cup {l}
                              /\ rpc' = "writing" /\ UNCHANGED idx
    <2>1. PICK l \in Lists : payload' = l /\ served' = served \cup {l}
                             /\ rpc' = "writing" /\ UNCHANGED idx
        BY <1>2
    <2>2. l \in Seq(Line) /\ file = << >>
        BY <2>1 DEF AInv, LoopEmpty, Fetch, Line
    <2>3. Prefix(file, l)
        BY <2>2, EmptyPrefix
    <2>4. TypeOK'
        BY <2>1, <2>2 DEF AInv, TypeOK, Fetch, Line
    <2>. QED  BY <2>1, <2>3, <2>4 DEF AInv, Fetch, FileFromServed, LoopEmpty,
                                       WritingPrefix, SuccessMeansWritten,
                                       VerificationSound
<1>. QED  BY <1>1, <1>2 DEF Fetch

LEMMA WriteLineStep ==
    ASSUME AInv, WriteLine
    PROVE  AInv'
<1>1. Prefix(file, payload) /\ payload \in served /\ payload \in Seq(Line)
      /\ file \in Seq(Line)
    BY DEF AInv, WriteLine, WritingPrefix, TypeOK, Line
<1>2. Prefix(file', payload)
    BY <1>1 DEF WriteLine, Prefix
<1>3. TypeOK'
    BY <1>1 DEF AInv, TypeOK, WriteLine, Line
<1>. QED  BY <1>1, <1>2, <1>3 DEF AInv, WriteLine, FileFromServed, LoopEmpty,
                                   WritingPrefix, SuccessMeansWritten,
                                   VerificationSound

LEMMA WriteDoneStep ==
    ASSUME AInv, WriteDone
    PROVE  AInv'
<1>1. Prefix(file, payload) /\ payload \in served /\ payload \in Seq(Line)
      /\ file \in Seq(Line)
    BY DEF AInv, WriteDone, WritingPrefix, TypeOK, Line
<1>2. file = payload
    BY <1>1 DEF WriteDone, Prefix
<1>3. TypeOK'
    BY DEF AInv, TypeOK, WriteDone, Status
<1>. QED  BY <1>1, <1>2, <1>3 DEF AInv, WriteDone, FileFromServed, LoopEmpty,
                                   WritingPrefix, SuccessMeansWritten,
                                   VerificationSound

LEMMA VerifyStep ==
    ASSUME AInv, Verify
    PROVE  AInv'
<1>1. PICK k \in Key : verified' = <<k, FirstMatch(file, k)>>
    BY DEF Verify
<1>2. file \in Seq(Line) /\ served \subseteq Seq(Line)
    BY DEF AInv, TypeOK, Line
<1>3. TypeOK'
    BY <1>1, <1>2, FirstMatchType DEF AInv, TypeOK, Verify
<1>4. VerificationSound'
    <2>. SUFFICES ASSUME FirstMatch(file, k) # Null
                  PROVE  \E l \in served : FirstMatch(l, k) = FirstMatch(file, k)
        BY <1>1 DEF Verify, VerificationSound
    <2>1. PICK l \in served : Prefix(file, l)
        BY DEF AInv, FileFromServed
    <2>. QED  BY <1>2, <2>1, PrefixFirstMatch
<1>. QED  BY <1>3, <1>4 DEF AInv, Verify, FileFromServed, LoopEmpty,
                            WritingPrefix, SuccessMeansWritten

LEMMA NextAInv == AInv /\ [Next]_vars => AInv'
<1>. SUFFICES ASSUME AInv, [Next]_vars PROVE AInv'
    OBVIOUS
<1>1. CASE UNCHANGED vars
    BY <1>1 DEF vars, AInv, TypeOK, FileFromServed, LoopEmpty, WritingPrefix,
                SuccessMeansWritten, VerificationSound
<1>. QED  BY <1>1, ControlStep, CreateStep, FetchStep, WriteLineStep,
              WriteDoneStep, VerifyStep DEF Next

-----------------------------------------------------------------------------
(* The agent's variables always have their types.                          *)
THEOREM AgentTypeCorrect == Spec => []TypeOK
BY InitAInv, NextAInv, PTL DEF Spec, AInv

(* Whatever the servers answer, whenever write_all fails and however the   *)
(* verification interleaves with ffi_get_allowed_signers, a principal      *)
(* that ffi_verify_signed_data returns is the first one some served list   *)
(* gives the signature's key.                                              *)
THEOREM VerificationSoundHolds == Spec => []VerificationSound
BY InitAInv, NextAInv, PTL DEF Spec, AInv

(* A Success status from ffi_get_allowed_signers means the file holds      *)
(* exactly the list the answering server sent.                             *)
THEOREM SuccessMeansWrittenHolds == Spec => []SuccessMeansWritten
BY InitAInv, NextAInv, PTL DEF Spec, AInv

-----------------------------------------------------------------------------
(* The refinement of AgentFile.  The file, the served lists and the last    *)
(* verification are mapped as they are; a fetch that answers is Publish, a *)
(* truncation or one write is Store, a verification is Read, and every     *)
(* other step leaves the three alone.                                      *)
AbsVars == <<file, served, verified>>

LEMMA InitRefined == Init => Abstract!Init
BY DEF Init, Abstract!Init

LEMMA StepRefined == AInv /\ [Next]_vars => [Abstract!Next]_AbsVars
<1>. SUFFICES ASSUME AInv, [Next]_vars PROVE [Abstract!Next]_AbsVars
    OBVIOUS
<1>1. CASE EarlyFailure \/ LoopExhausted \/ WriteFails \/ Return \/ WriteDone
    BY <1>1 DEF EarlyFailure, LoopExhausted, WriteFails, Return, WriteDone, AbsVars
<1>2. CASE Create
    <2>1. PICK l \in served : Prefix(file, l)
        BY DEF AInv, FileFromServed
    <2>2. Abstract!StartsWith(l, file')
        BY <1>2 DEF Create, Abstract!StartsWith
    <2>. QED  BY <1>2, <2>2 DEF Create, Abstract!Next, Abstract!Store
<1>3. CASE Fetch
    <2>1. CASE idx' = idx + 1 /\ UNCHANGED <<rpc, payload, served>>
        BY <1>3, <2>1 DEF Fetch, AbsVars
    <2>2. CASE \E l \in Lists : payload' = l /\ served' = served \cup {l}
                                  /\ rpc' = "writing" /\ UNCHANGED idx
        BY <1>3, <2>2 DEF Fetch, Abstract!Next, Abstract!Publish
    <2>. QED  BY <1>3, <2>1, <2>2 DEF Fetch
<1>4. CASE WriteLine
    <2>1. Prefix(file, payload) /\ payload \in served /\ payload \in Seq(Line)
          /\ file \in Seq(Line)
        BY <1>4 DEF AInv, WriteLine, WritingPrefix, TypeOK, Line
    <2>2. Abstract!StartsWith(payload, file')
        BY <1>4, <2>1 DEF WriteLine, Prefix, Abstract!StartsWith
    <2>. QED  BY <1>4, <2>1, <2>2 DEF WriteLine, Abstract!Next, Abstract!Store
<1>5. CASE Verify
    BY <1>5 DEF Verify, Abstract!Next, Abstract!Read, FirstMatch, Abstract!FirstWith
<1>6. CASE UNCHANGED vars
    BY <1>6 DEF vars, AbsVars
<1>. QED  BY <1>1, <1>2, <1>3, <1>4, <1>5, <1>6 DEF Next

(* ffi_get_allowed_signers and ffi_verify_signed_data, interleaved in any   *)
(* order and with any failures, implement the abstract AgentFile           *)
(* specification (the property AgentFileRefined), for every instance.      *)
THEOREM AgentImplementsAgentFile == Spec => AgentFileRefined
<1>1. Spec => []AInv
    BY InitAInv, NextAInv, PTL DEF Spec
<1>. QED  BY <1>1, InitRefined, StepRefined, PTL
          DEF Spec, AgentFileRefined, Abstract!Spec, AbsVars
=============================================================================
