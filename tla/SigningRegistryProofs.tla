----------------------- MODULE SigningRegistryProofs ------------------------
(* Proofs about the startup of the signing registry, for every set of      *)
(* authority names and keys and every configuration.                       *)
EXTENDS SigningRegistry, TLAPS

USE RegistryAssumption

Kinds == {"Ok", "SigningMechanismError", "IdenticalUserAndHostKey",
          "DuplicatedKey", "DefaultAuthorityDoesNotHaveSSHKeys",
          "NoSuchSigningMechanismForClientCa"}

(* A configuration maps a set of authority names to backends.               *)
LEMMA ConfShape ==
    ASSUME conf \in Configs
    PROVE  /\ DOMAIN conf \subseteq Authority
           /\ \A a \in DOMAIN conf : conf[a] \in Backend
BY DEF Configs

(* The keys of a configured backend are fingerprints or NoKey.             *)
LEMMA BackendKeys ==
    ASSUME TypeOK, NEW a \in DOMAIN conf
    PROVE  /\ User(a) \in Key \cup {NoKey}
           /\ Host(a) \in Key \cup {NoKey}
           /\ conf[a].clientCa \in {"none", "ok", "pemfail"}
           /\ conf[a].loads \in BOOLEAN
BY ConfShape DEF TypeOK, Backend, User, Host

(* ValidRegistry depends on the configuration alone, which never changes.  *)
LEMMA ValidUnchanged ==
    ASSUME conf' = conf
    PROVE  ValidRegistry' = ValidRegistry
BY DEF ValidRegistry, IdenticalKeys, KeysOf, User, Host

-----------------------------------------------------------------------------
(* A step in which configure returns keeps the invariant, provided what it  *)
(* returns is Ok exactly when the configuration is valid.                  *)
LEMMA ReturnStep ==
    ASSUME RInv, pc # "done",
           NEW kind \in Kinds, NEW names \in Seq(Authority),
           Return(kind, names),
           (kind = "Ok") <=> ValidRegistry
    PROVE  RInv'
<1>1. /\ result' = [kind |-> kind, names |-> names]
      /\ pc' = "done"
      /\ UNCHANGED <<conf, remaining, seen, converted>>
    BY DEF Return
<1>2. result' \in Result /\ TypeOK'
    BY <1>1 DEF RInv, TypeOK, Result, Kinds
<1>3. StartupDecision'
    BY <1>1, ValidUnchanged DEF StartupDecision
<1>4. (Partition /\ ConvertedValid /\ SeenExact)'
    BY <1>1 DEF RInv, Partition, ConvertedValid, SeenExact, IdenticalKeys,
                KeysOf, User, Host
<1>. QED  BY <1>1, <1>2, <1>3, <1>4 DEF RInv, ClientCaInv, DoneInv

(* An authority still to be visited is configured and not yet converted.   *)
LEMMA RemainingFacts ==
    ASSUME RInv, NEW a \in remaining
    PROVE  /\ a \in DOMAIN conf
           /\ a \in Authority
           /\ a \notin converted
           /\ \A b \in converted : b \in DOMAIN conf /\ b \in Authority
BY ConfShape DEF RInv, TypeOK

(* The key a DuplicatedKey error reports is held by the reported, earlier  *)
(* converted authority, which is not the one being visited.                *)
LEMMA TakenKeyOwner ==
    ASSUME RInv, NEW a \in remaining, NEW k \in Key, k \in KeysOf(a),
           seen[k] # None
    PROVE  a # seen[k] /\ KeysOf(a) \cap KeysOf(seen[k]) # {}
<1>1. seen[k] \in converted /\ k \in KeysOf(seen[k])
    BY DEF RInv, SeenExact
<1>. QED  BY <1>1, RemainingFacts

(* So a configuration in which the visited backend meets a key public_keys *)
(* already holds is not valid.                                             *)
LEMMA TakenKeyInvalid ==
    ASSUME RInv, NEW a \in remaining, NEW k \in Key, k \in KeysOf(a),
           seen[k] # None
    PROVE  ~ValidRegistry
<1>1. a \in DOMAIN conf /\ seen[k] \in DOMAIN conf
    BY RemainingFacts DEF RInv, SeenExact
<1>. QED  BY <1>1, TakenKeyOwner DEF ValidRegistry

-----------------------------------------------------------------------------
(* The loop steps that return an error.                                    *)

LEMMA LoadFailsStep ==
    ASSUME RInv, NEW a \in Authority, LoadFails(a)
    PROVE  RInv'
<1>1. a \in remaining /\ ~conf[a].loads /\ pc = "loop"
    BY DEF LoadFails
<1>2. ~ValidRegistry
    BY <1>1, RemainingFacts DEF ValidRegistry
<1>3. Return("SigningMechanismError", <<a>>) /\ <<a>> \in Seq(Authority)
    BY <1>1, RemainingFacts DEF LoadFails
<1>. QED  BY <1>1, <1>2, <1>3, ReturnStep DEF Kinds

LEMMA IdenticalStep ==
    ASSUME RInv, NEW a \in Authority, Identical(a)
    PROVE  RInv'
<1>1. a \in remaining /\ IdenticalKeys(a) /\ pc = "loop"
    BY DEF Identical, Loaded
<1>2. ~ValidRegistry
    BY <1>1, RemainingFacts DEF ValidRegistry
<1>3. Return("IdenticalUserAndHostKey", <<a>>) /\ <<a>> \in Seq(Authority)
    BY <1>1, RemainingFacts DEF Identical
<1>. QED  BY <1>1, <1>2, <1>3, ReturnStep DEF Kinds

LEMMA DuplicateUserStep ==
    ASSUME RInv, NEW a \in Authority, DuplicateUser(a)
    PROVE  RInv'
<1>1. a \in remaining /\ pc = "loop" /\ UserTaken(a)
    BY DEF DuplicateUser, Loaded
<1>2. User(a) \in Key /\ User(a) \in KeysOf(a) /\ seen[User(a)] # None
    BY <1>1, RemainingFacts, BackendKeys DEF RInv, UserTaken, KeysOf
<1>3. ~ValidRegistry
    BY <1>1, <1>2, TakenKeyInvalid
<1>4. <<a, seen[User(a)]>> \in Seq(Authority)
    BY <1>1, <1>2, RemainingFacts DEF RInv, TypeOK
<1>. QED  BY <1>1, <1>3, <1>4, ReturnStep DEF DuplicateUser, Kinds

LEMMA DuplicateHostStep ==
    ASSUME RInv, NEW a \in Authority, DuplicateHost(a)
    PROVE  RInv'
<1>1. /\ a \in remaining /\ pc = "loop"
      /\ ~IdenticalKeys(a) /\ HostTaken(a)
    BY DEF DuplicateHost, Loaded
<1>2. /\ Host(a) \in Key /\ Host(a) \in KeysOf(a)
      /\ User(a) \in Key \cup {NoKey}
    BY <1>1, RemainingFacts, BackendKeys DEF RInv, HostTaken, KeysOf
<1>3. Host(a) # User(a)
    BY <1>1, <1>2 DEF IdenticalKeys
<1>4. SeenWithUser(a)[Host(a)] = seen[Host(a)]
    BY <1>2, <1>3 DEF SeenWithUser
<1>5. seen[Host(a)] # None
    BY <1>1, <1>4 DEF HostTaken
<1>6. ~ValidRegistry
    BY <1>1, <1>2, <1>5, TakenKeyInvalid
<1>7. <<a, SeenWithUser(a)[Host(a)]>> \in Seq(Authority)
    BY <1>1, <1>2, <1>4, <1>5, RemainingFacts DEF RInv, TypeOK
<1>. QED  BY <1>1, <1>6, <1>7, ReturnStep DEF DuplicateHost, Kinds

-----------------------------------------------------------------------------
(* Register: a backend whose keys public_keys does not hold yet joins the  *)
(* converted backends, and public_keys records exactly its keys.           *)
LEMMA RegisterStep ==
    ASSUME RInv, NEW a \in Authority, Register(a)
    PROVE  RInv'
<1>1. /\ a \in remaining /\ pc = "loop" /\ conf[a].loads
      /\ ~IdenticalKeys(a) /\ ~UserTaken(a) /\ ~HostTaken(a)
      /\ seen' = [k \in Key |-> IF k = Host(a) THEN a ELSE SeenWithUser(a)[k]]
      /\ converted' = converted \cup {a}
      /\ remaining' = remaining \ {a}
      /\ UNCHANGED <<conf, pc, result>>
    BY DEF Register, Loaded
<1>2. /\ a \in DOMAIN conf /\ a \notin converted
      /\ User(a) \in Key \cup {NoKey} /\ Host(a) \in Key \cup {NoKey}
    BY <1>1, RemainingFacts, BackendKeys DEF RInv
\* What public_keys now maps each fingerprint to.
<1>3. \A k \in Key : seen'[k] = IF k \in KeysOf(a) THEN a ELSE seen[k]
    BY <1>1, <1>2 DEF SeenWithUser, KeysOf
\* Neither key of a is held by a converted backend.
<1>4. \A k \in KeysOf(a) : k \in Key /\ seen[k] = None
    <2>1. User(a) # NoKey => seen[User(a)] = None
        BY <1>1 DEF UserTaken
    <2>2. Host(a) # NoKey => seen[Host(a)] = None
        <3>1. Host(a) # NoKey => Host(a) # User(a)
            BY <1>1 DEF IdenticalKeys
        <3>2. Host(a) # NoKey => SeenWithUser(a)[Host(a)] = seen[Host(a)]
            BY <1>2, <3>1 DEF SeenWithUser
        <3>. QED  BY <1>1, <3>2 DEF HostTaken
    <2>. QED  BY <1>2, <2>1, <2>2 DEF KeysOf
<1>5. \A b \in converted : KeysOf(a) \cap KeysOf(b) = {}
    BY <1>4 DEF RInv, SeenExact
<1>6. TypeOK'
    <2>1. seen' \in [Key -> Authority \cup {None}]
        BY <1>1, <1>3 DEF RInv, TypeOK
    <2>. QED  BY <1>1, <1>2, <2>1 DEF RInv, TypeOK
<1>7. Partition'
    BY <1>1 DEF RInv, Partition
<1>8. ConvertedValid'
    <2>1. \A b \in converted' : conf[b].loads /\ ~IdenticalKeys(b)
        BY <1>1 DEF RInv, ConvertedValid
    <2>2. \A b, c \in converted' : b # c => KeysOf(b) \cap KeysOf(c) = {}
        BY <1>1, <1>5 DEF RInv, ConvertedValid
    <2>. QED  BY <1>1, <2>1, <2>2 DEF ConvertedValid, IdenticalKeys, KeysOf,
                                      User, Host
<1>9. SeenExact'
    <2> SUFFICES ASSUME NEW k \in Key
                 PROVE  /\ seen'[k] # None => seen'[k] \in converted'
                                             /\ k \in KeysOf(seen'[k])
                        /\ seen'[k] = None => \A b \in converted' : k \notin KeysOf(b)
        BY <1>1 DEF SeenExact, KeysOf, User, Host
    <2>1. CASE k \in KeysOf(a)
        BY <1>1, <1>3, <1>5, <2>1
    <2>2. CASE k \notin KeysOf(a)
        BY <1>1, <1>3, <2>2 DEF RInv, SeenExact
    <2>. QED  BY <2>1, <2>2
<1>10. (ClientCaInv /\ DoneInv /\ StartupDecision)'
    BY <1>1 DEF RInv, ClientCaInv, DoneInv, StartupDecision
<1>. QED  BY <1>6, <1>7, <1>8, <1>9, <1>10 DEF RInv

-----------------------------------------------------------------------------
(* After the loop: the default-authority check and the client CA check.    *)

\* Once the loop is over, every configured backend is converted.
LEMMA LoopOver ==
    ASSUME RInv, remaining = {}
    PROVE  converted = DOMAIN conf
BY DEF RInv, Partition, TypeOK

LEMMA DefaultOkStep ==
    ASSUME RInv, DefaultOk
    PROVE  RInv'
<1>1. /\ pc = "loop" /\ remaining = {} /\ DefaultHasUserKey /\ pc' = "clientca"
      /\ UNCHANGED <<conf, remaining, seen, converted, result>>
    BY DEF DefaultOk
<1>2. ClientCaInv'
    BY <1>1 DEF ClientCaInv, DefaultHasUserKey, User
<1>. QED  BY <1>1, <1>2 DEF RInv, TypeOK, Partition, ConvertedValid, SeenExact,
                             DoneInv, StartupDecision, IdenticalKeys, KeysOf,
                             User, Host

LEMMA DefaultMissingStep ==
    ASSUME RInv, DefaultMissing
    PROVE  RInv'
<1>1. pc = "loop" /\ remaining = {} /\ ~DefaultHasUserKey
    BY DEF DefaultMissing
<1>2. ~ValidRegistry
    BY <1>1, LoopOver DEF DefaultHasUserKey, ValidRegistry
<1>3. Return("DefaultAuthorityDoesNotHaveSSHKeys", << >>) /\ << >> \in Seq(Authority)
    BY DEF DefaultMissing
<1>. QED  BY <1>1, <1>2, <1>3, ReturnStep DEF Kinds

LEMMA ClientCaStep ==
    ASSUME RInv, ClientCa
    PROVE  RInv'
<1>1. pc = "clientca" /\ converted = DOMAIN conf /\ DefaultHasUserKey
    BY LoopOver DEF ClientCa, RInv, ClientCaInv
<1>2. <<ClientAuthority>> \in Seq(Authority)
    OBVIOUS
<1>3. CASE ClientAuthority \notin converted
    <2>1. ~ValidRegistry
        BY <1>1, <1>3 DEF ValidRegistry
    <2>2. Return("SigningMechanismError", <<ClientAuthority>>)
        BY <1>3 DEF ClientCa
    <2>. QED  BY <1>1, <1>2, <2>1, <2>2, ReturnStep DEF Kinds
<1>4. CASE ClientAuthority \in converted /\ conf[ClientAuthority].clientCa = "none"
    <2>1. ~ValidRegistry
        BY <1>4 DEF ValidRegistry
    <2>2. Return("NoSuchSigningMechanismForClientCa", <<ClientAuthority>>)
        BY <1>4 DEF ClientCa
    <2>. QED  BY <1>1, <1>2, <2>1, <2>2, ReturnStep DEF Kinds
<1>5. CASE ClientAuthority \in converted /\ conf[ClientAuthority].clientCa = "pemfail"
    <2>1. ~ValidRegistry
        BY <1>5 DEF ValidRegistry
    <2>2. Return("SigningMechanismError", <<ClientAuthority>>)
        BY <1>5 DEF ClientCa
    <2>. QED  BY <1>1, <1>2, <2>1, <2>2, ReturnStep DEF Kinds
<1>6. CASE ClientAuthority \in converted /\ conf[ClientAuthority].clientCa = "ok"
    <2>1. ValidRegistry
        BY <1>1, <1>6 DEF RInv, ConvertedValid, DefaultHasUserKey, ValidRegistry
    <2>2. Return("Ok", << >>) /\ << >> \in Seq(Authority)
        BY <1>6 DEF ClientCa
    <2>. QED  BY <1>1, <2>1, <2>2, ReturnStep DEF Kinds
<1>. QED  BY <1>1, <1>3, <1>4, <1>5, <1>6, BackendKeys DEF RInv

-----------------------------------------------------------------------------
LEMMA InitRInv == Init => RInv
<1> SUFFICES ASSUME Init PROVE RInv
    OBVIOUS
<1>1. TypeOK
    BY ConfShape DEF Init, TypeOK
<1>. QED  BY <1>1 DEF Init, RInv, Partition, ConvertedValid, SeenExact,
                     ClientCaInv, DoneInv, StartupDecision

LEMMA NextRInv == RInv /\ [Next]_vars => RInv'
<1> SUFFICES ASSUME RInv, [Next]_vars PROVE RInv'
    OBVIOUS
<1>1. ASSUME NEW a \in Authority, LoadFails(a) PROVE RInv'
    BY <1>1, LoadFailsStep
<1>2. ASSUME NEW a \in Authority, Identical(a) PROVE RInv'
    BY <1>2, IdenticalStep
<1>3. ASSUME NEW a \in Authority, DuplicateUser(a) PROVE RInv'
    BY <1>3, DuplicateUserStep
<1>4. ASSUME NEW a \in Authority, DuplicateHost(a) PROVE RInv'
    BY <1>4, DuplicateHostStep
<1>5. ASSUME NEW a \in Authority, Register(a) PROVE RInv'
    BY <1>5, RegisterStep
<1>6. CASE DefaultOk
    BY <1>6, DefaultOkStep
<1>7. CASE DefaultMissing
    BY <1>7, DefaultMissingStep
<1>8. CASE ClientCa
    BY <1>8, ClientCaStep
<1>9. CASE UNCHANGED vars
    BY <1>9 DEF vars, RInv, TypeOK, Partition, ConvertedValid, SeenExact,
                ClientCaInv, DoneInv, StartupDecision, ValidRegistry,
                DefaultHasUserKey, IdenticalKeys, KeysOf, User, Host
<1>. QED  BY <1>1, <1>2, <1>3, <1>4, <1>5, <1>6, <1>7, <1>8, <1>9 DEF Next

(* THEOREM: for every configuration and every HashMap iteration order,     *)
(* configure starts the server exactly when no backend fails to load, no   *)
(* backend uses one key for user and host, no two backends share a key     *)
(* (spec property 3), the default authority has a user key and the client *)
(* authority a serialisable client CA (convert_to_signing_mechanism and    *)
(* configure).                                                             *)
THEOREM StartupCorrect == Spec => []StartupDecision
<1>1. Init => RInv
    BY InitRInv
<1>2. RInv /\ [Next]_vars => RInv'
    BY NextRInv
<1>3. RInv => StartupDecision
    BY DEF RInv
<1>. QED  BY <1>1, <1>2, <1>3, PTL DEF Spec

(* THEOREM: the signing registry of a started server is well typed.        *)
THEOREM RegistryTypeCorrect == Spec => []TypeOK
<1>1. RInv => TypeOK
    BY DEF RInv
<1>. QED  BY <1>1, InitRInv, NextRInv, PTL DEF Spec

-----------------------------------------------------------------------------
LEMMA CulpritsStep ==
    RInv /\ ErrorNamesCulprits /\ [Next]_vars => ErrorNamesCulprits'
<1> SUFFICES ASSUME RInv, ErrorNamesCulprits, [Next]_vars
             PROVE  ErrorNamesCulprits'
    OBVIOUS
<1>1. ASSUME NEW a \in Authority, DuplicateUser(a) PROVE ErrorNamesCulprits'
    <2>1. /\ a \in remaining /\ UserTaken(a)
          /\ result' = [kind |-> "DuplicatedKey", names |-> <<a, seen[User(a)]>>]
          /\ conf' = conf
        BY <1>1 DEF DuplicateUser, Loaded, Return
    <2>2. User(a) \in Key /\ User(a) \in KeysOf(a) /\ seen[User(a)] # None
        BY <2>1, RemainingFacts, BackendKeys DEF RInv, UserTaken, KeysOf
    <2>3. a # seen[User(a)] /\ KeysOf(a) \cap KeysOf(seen[User(a)]) # {}
        BY <2>1, <2>2, TakenKeyOwner
    <2>. QED  BY <2>1, <2>3 DEF ErrorNamesCulprits, KeysOf, User, Host
<1>2. ASSUME NEW a \in Authority, DuplicateHost(a) PROVE ErrorNamesCulprits'
    <2>1. /\ a \in remaining /\ ~IdenticalKeys(a) /\ HostTaken(a)
          /\ result' = [kind |-> "DuplicatedKey",
                         names |-> <<a, SeenWithUser(a)[Host(a)]>>]
          /\ conf' = conf
        BY <1>2 DEF DuplicateHost, Loaded, Return
    <2>2. /\ Host(a) \in Key /\ Host(a) \in KeysOf(a)
          /\ User(a) \in Key \cup {NoKey}
        BY <2>1, RemainingFacts, BackendKeys DEF RInv, HostTaken, KeysOf
    <2>3. SeenWithUser(a)[Host(a)] = seen[Host(a)]
        BY <2>1, <2>2 DEF SeenWithUser, IdenticalKeys
    <2>4. seen[Host(a)] # None
        BY <2>1, <2>3 DEF HostTaken
    <2>5. a # seen[Host(a)] /\ KeysOf(a) \cap KeysOf(seen[Host(a)]) # {}
        BY <2>1, <2>2, <2>4, TakenKeyOwner
    <2>. QED  BY <2>1, <2>3, <2>5 DEF ErrorNamesCulprits, KeysOf, User, Host
<1>3. ASSUME NEW a \in Authority, Identical(a) PROVE ErrorNamesCulprits'
    BY <1>3 DEF Identical, Return, ErrorNamesCulprits, IdenticalKeys, User, Host
<1>4. ASSUME NEW a \in Authority, LoadFails(a) PROVE ErrorNamesCulprits'
    BY <1>4 DEF LoadFails, Return, ErrorNamesCulprits
<1>5. ASSUME NEW a \in Authority, Register(a) PROVE ErrorNamesCulprits'
    BY <1>5 DEF Register, Loaded, ErrorNamesCulprits
<1>6. CASE DefaultOk
    BY <1>6 DEF DefaultOk, ErrorNamesCulprits
<1>7. CASE DefaultMissing
    BY <1>7 DEF DefaultMissing, Return, ErrorNamesCulprits
<1>8. CASE ClientCa
    BY <1>8 DEF ClientCa, Return, ErrorNamesCulprits
<1>9. CASE UNCHANGED vars
    BY <1>9 DEF vars, ErrorNamesCulprits, IdenticalKeys, KeysOf, User, Host
<1>. QED  BY <1>1, <1>2, <1>3, <1>4, <1>5, <1>6, <1>7, <1>8, <1>9 DEF Next

(* THEOREM: a startup error that reports a duplicated key names two        *)
(* different authorities that both use that key, and one that reports an   *)
(* identical user and host key names an authority whose two keys coincide  *)
(* (convert_to_signing_mechanism; spec scenario S8).                       *)
THEOREM CulpritsNamed == Spec => []ErrorNamesCulprits
<1>1. Init => ErrorNamesCulprits
    BY DEF Init, ErrorNamesCulprits
<1>2. RInv /\ ErrorNamesCulprits /\ [Next]_vars
        => (RInv /\ ErrorNamesCulprits)'
    BY NextRInv, CulpritsStep
<1>. QED  BY <1>1, <1>2, InitRInv, PTL DEF Spec
=============================================================================
