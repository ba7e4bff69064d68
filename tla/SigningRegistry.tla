-------------------------- MODULE SigningRegistry ---------------------------
(***************************************************************************)
(* Startup of the signing registry: SigningConfiguration::                 *)
(* convert_to_signing_mechanism (src/rustica/src/signing/mod.rs) walks the *)
(* configured authorities in HashMap order, builds each backend, and       *)
(* rejects a backend whose user and host keys coincide or a key that an    *)
(* earlier backend already uses; configure (src/rustica/src/config/mod.rs) *)
(* then requires the default authority to have a user key and the client   *)
(* authority to have a client CA certificate.                              *)
(*                                                                         *)
(* A backend is abstracted to what startup reads of it: whether into_signer *)
(* succeeds, the fingerprints of its SSH user and host keys (or NoKey), and *)
(* whether it has a client CA whose PEM serialisation succeeds.           *)
(***************************************************************************)
EXTENDS FiniteSets, Sequences

CONSTANTS
    Authority,         \* authority names
    Key,               \* SSH public-key fingerprints
    NoKey,             \* the backend has no key for that role
    None,              \* absent HashMap entry / no result yet
    DefaultAuthority,  \* signing.default_authority
    ClientAuthority    \* client_authority.authority

ASSUME RegistryAssumption ==
    /\ NoKey \notin Key
    /\ None \notin Authority
    /\ DefaultAuthority \in Authority
    /\ ClientAuthority \in Authority

\* A backend as startup sees it.
Backend == [loads : BOOLEAN, user : Key \cup {NoKey}, host : Key \cup {NoKey},
            clientCa : {"none", "ok", "pemfail"}]

\* authority_configurations: any finite map from names to backends.
Configs == UNION {[S -> Backend] : S \in SUBSET Authority}

Result == [kind : {"Ok", "SigningMechanismError", "IdenticalUserAndHostKey",
                   "DuplicatedKey", "DefaultAuthorityDoesNotHaveSSHKeys",
                   "NoSuchSigningMechanismForClientCa"},
           names : Seq(Authority)]

VARIABLES
    conf,       \* authority_configurations
    remaining,  \* authorities the loop has not reached yet
    seen,       \* public_keys: fingerprint -> authority that uses it
    converted,  \* domain of converted_authorities
    pc,         \* "loop", "clientca" or "done"
    result      \* what configure returns, or None

vars == <<conf, remaining, seen, converted, pc, result>>

User(a) == conf[a].user
Host(a) == conf[a].host
\* The fingerprints a backend exposes.
KeysOf(a) == {User(a), Host(a)} \ {NoKey}

TypeOK ==
    /\ conf \in Configs
    /\ remaining \subseteq DOMAIN conf
    /\ converted \subseteq DOMAIN conf
    /\ remaining \cap converted = {}
    /\ seen \in [Key -> Authority \cup {None}]
    /\ pc \in {"loop", "clientca", "done"}
    /\ result \in Result \cup {None}

Init ==
    /\ conf \in Configs
    /\ remaining = DOMAIN conf
    /\ seen = [k \in Key |-> None]
    /\ converted = {}
    /\ pc = "loop"
    /\ result = None

-----------------------------------------------------------------------------
\* configure returns: an error aborts the process, Ok starts the server.
Return(kind, names) ==
    /\ result' = [kind |-> kind, names |-> names]
    /\ pc' = "done"
    /\ UNCHANGED <<conf, remaining, seen, converted>>

\* Mutant: the identical user/host key check is missing.
IdenticalKeysNever(a) == FALSE

\* If both SSH keys are configured they must differ.
IdenticalKeys(a) == User(a) # NoKey /\ Host(a) # NoKey /\ User(a) = Host(a)

\* public_keys.get(&user_hash)
UserTaken(a) == User(a) # NoKey /\ seen[User(a)] # None

\* public_keys after public_keys.insert(user_hash, authority)
SeenWithUser(a) == [k \in Key |-> IF k = User(a) THEN a ELSE seen[k]]

\* public_keys.get(&host_hash), after the user key was inserted
HostTaken(a) == Host(a) # NoKey /\ SeenWithUser(a)[Host(a)] # None

\* The loop body reaches the key checks only for a backend that loaded.
Loaded(a) == pc = "loop" /\ a \in remaining /\ conf[a].loads

\* authority.1.into_signer().await? fails.
LoadFails(a) ==
    /\ pc = "loop" /\ a \in remaining
    /\ ~conf[a].loads
    /\ Return("SigningMechanismError", <<a>>)

Identical(a) ==
    /\ Loaded(a)
    /\ IdenticalKeys(a)
    /\ Return("IdenticalUserAndHostKey", <<a>>)

DuplicateUser(a) ==
    /\ Loaded(a)
    /\ ~IdenticalKeys(a)
    /\ UserTaken(a)
    /\ Return("DuplicatedKey", <<a, seen[User(a)]>>)

DuplicateHost(a) ==
    /\ Loaded(a)
    /\ ~IdenticalKeys(a)
    /\ ~UserTaken(a)
    /\ HostTaken(a)
    /\ Return("DuplicatedKey", <<a, SeenWithUser(a)[Host(a)]>>)

\* Mutant: the host key is never inserted into public_keys.
RegisterForgetsHost(a) ==
    /\ Loaded(a)
    /\ ~IdenticalKeys(a)
    /\ ~UserTaken(a)
    /\ ~HostTaken(a)
    /\ seen' = SeenWithUser(a)
    /\ converted' = converted \cup {a}
    /\ remaining' = remaining \ {a}
    /\ UNCHANGED <<conf, pc, result>>

\* Mutant: the authority is kept in the set the loop still has to visit.
RegisterKeepsRemaining(a) ==
    /\ Loaded(a)
    /\ ~IdenticalKeys(a)
    /\ ~UserTaken(a)
    /\ ~HostTaken(a)
    /\ seen' = [k \in Key |-> IF k = Host(a) THEN a ELSE SeenWithUser(a)[k]]
    /\ converted' = converted \cup {a}
    /\ UNCHANGED <<conf, pc, result, remaining>>

\* Both keys are new: remember them and keep the signer.
Register(a) ==
    /\ Loaded(a)
    /\ ~IdenticalKeys(a)
    /\ ~UserTaken(a)
    /\ ~HostTaken(a)
    /\ seen' = [k \in Key |-> IF k = Host(a) THEN a ELSE SeenWithUser(a)[k]]
    /\ converted' = converted \cup {a}
    /\ remaining' = remaining \ {a}
    /\ UNCHANGED <<conf, pc, result>>

\* signer.get_signer_public_key(&signer.default_authority, CertType::User)
DefaultHasUserKey ==
    DefaultAuthority \in converted /\ User(DefaultAuthority) # NoKey

DefaultOk ==
    /\ pc = "loop" /\ remaining = {}
    /\ DefaultHasUserKey
    /\ pc' = "clientca"
    /\ UNCHANGED <<conf, remaining, seen, converted, result>>

DefaultMissing ==
    /\ pc = "loop" /\ remaining = {}
    /\ ~DefaultHasUserKey
    /\ Return("DefaultAuthorityDoesNotHaveSSHKeys", << >>)

(* get_client_certificate_authority(client_authority.authority): an      *)
(* unknown name, a backend without a client CA, or a failing serialize_pem *)
(* each abort startup; otherwise the server is built.                      *)
ClientCa ==
    /\ pc = "clientca"
    /\ \/ /\ ClientAuthority \notin converted
          /\ Return("SigningMechanismError", <<ClientAuthority>>)
       \/ /\ ClientAuthority \in converted
          /\ conf[ClientAuthority].clientCa = "none"
          /\ Return("NoSuchSigningMechanismForClientCa", <<ClientAuthority>>)
       \/ /\ ClientAuthority \in converted
          /\ conf[ClientAuthority].clientCa = "pemfail"
          /\ Return("SigningMechanismError", <<ClientAuthority>>)
       \/ /\ ClientAuthority \in converted
          /\ conf[ClientAuthority].clientCa = "ok"
          /\ Return("Ok", << >>)

Next ==
    \/ \E a \in Authority :
          \/ LoadFails(a)
          \/ Identical(a)
          \/ DuplicateUser(a)
          \/ DuplicateHost(a)
          \/ Register(a)
    \/ DefaultOk
    \/ DefaultMissing
    \/ ClientCa

Spec == Init /\ [][Next]_vars

-----------------------------------------------------------------------------
(* Reference definition of a configuration that may start: every backend  *)
(* loads, no backend uses one key for both roles, no two backends share a  *)
(* key (spec property 3), and the default and client authorities exist    *)
(* with a user key and a serialisable client CA.                           *)
ValidRegistry ==
    /\ \A a \in DOMAIN conf : conf[a].loads /\ ~IdenticalKeys(a)
    /\ \A a, b \in DOMAIN conf : a # b => KeysOf(a) \cap KeysOf(b) = {}
    /\ DefaultAuthority \in DOMAIN conf /\ User(DefaultAuthority) # NoKey
    /\ ClientAuthority \in DOMAIN conf
    /\ conf[ClientAuthority].clientCa = "ok"

(* Startup succeeds exactly for the valid configurations, whatever order   *)
(* the HashMap yields the authorities in: the accumulating public_keys map *)
(* of convert_to_signing_mechanism decides the same as the global check.   *)
StartupDecision ==
    pc = "done" => (result.kind = "Ok" <=> ValidRegistry)

(* A DuplicatedKey error names two different authorities that share a key, *)
(* and IdenticalUserAndHostKey names an authority whose two keys coincide  *)
(* (spec scenario S8: the error identifies both authority names).          *)
ErrorNamesCulprits ==
    /\ (pc = "done" /\ result.kind = "DuplicatedKey") =>
          LET a1 == result.names[1]
              a2 == result.names[2]
          IN  a1 # a2 /\ KeysOf(a1) \cap KeysOf(a2) # {}
    /\ (pc = "done" /\ result.kind = "IdenticalUserAndHostKey") =>
          IdenticalKeys(result.names[1])
-----------------------------------------------------------------------------
(* The strengthening of StartupDecision that TLAPS proves inductive         *)
(* (SigningRegistryProofs).                                                 *)

\* Every authority is either still to be visited or already converted.
Partition == converted \cup remaining = DOMAIN conf

\* The converted backends loaded and are pairwise key-disjoint.
ConvertedValid ==
    /\ \A a \in converted : conf[a].loads /\ ~IdenticalKeys(a)
    /\ \A a, b \in converted : a # b => KeysOf(a) \cap KeysOf(b) = {}

\* public_keys maps exactly the keys of the converted backends to their owner.
SeenExact ==
    \A k \in Key :
        /\ seen[k] # None => seen[k] \in converted /\ k \in KeysOf(seen[k])
        /\ seen[k] = None => \A a \in converted : k \notin KeysOf(a)

\* The client CA check runs after the loop and the default-authority check.
ClientCaInv == pc = "clientca" => remaining = {} /\ DefaultHasUserKey

\* configure has returned exactly when a result is set.
DoneInv ==
    /\ pc = "done" => result \in Result
    /\ pc # "done" => result = None

RInv ==
    /\ TypeOK
    /\ Partition
    /\ ConvertedValid
    /\ SeenExact
    /\ ClientCaInv
    /\ DoneInv
    /\ StartupDecision
=============================================================================
