--------------------------- MODULE MCSignerLines ----------------------------
EXTENDS SignerLines

\* Two keys of different types.
MCBlobType == [b \in {"Bka", "Bkb"} |-> IF b = "Bka" THEN "ssh-ed25519" ELSE "ecdsa"]

\* Identities that are single words.
MCPlainIdentity == {<<"alice">>, <<"bob">>, <<"carol">>}

(* An identity with a space, and one whose words after the first are a key *)
(* string of alice's key.                                                  *)
MCSpacedIdentity == {<<"alice">>, <<"alice", "smith">>,
                     <<"mallory", "ssh-ed25519", "Bka">>}
=============================================================================
