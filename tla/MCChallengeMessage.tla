------------------------- MODULE MCChallengeMessage -------------------------
EXTENDS ChallengeMessage

\* Two request times.
MCDigits == {<<"1">>, <<"2">>}

\* Pubkey strings with and without a "-" (real ones: "ssh-ed25519 ...").
MCPubkey == {<<"k">>, <<"k", "-", "a">>, <<"a", "-", "k">>}

\* CNs without a separator: two names and their concatenation.
MCPlainCN == {<<"a">>, <<"b">>, <<"a", "b">>}

\* A CN that contains the "," that join(",") puts between CNs.
MCCommaCN == {<<"a">>, <<"b">>, <<"a", ",", "b">>}
=============================================================================
