------------------------------ MODULE AgentFile -------------------------------
(***************************************************************************)
(* What the agent's allowed-signers file promises its readers, whatever   *)
(* the order of fetches, writes and failures: servers publish lists, the   *)
(* file only ever holds a prefix of a published list (the empty file       *)
(* included), and a verification reads the whole file at once and returns  *)
(* the principal of its first line with the key.                           *)
(***************************************************************************)
EXTENDS Naturals, Sequences

CONSTANTS Principal, Key, Lists, Null

VARIABLES
    contents,   \* the lines of the file
    published,  \* every list a server has answered with
    answer      \* the last verification: <<key, principal or Null>>, or Null

\* l starts with the lines of f.
StartsWith(l, f) == Len(f) <= Len(l) /\ \A j \in 1 .. Len(f) : f[j] = l[j]

\* The principal of the first line of l with key k, or Null.
FirstWith(l, k) ==
    LET J == {j \in 1 .. Len(l) : l[j][2] = k}
    IN  IF J = {} THEN Null
        ELSE l[CHOOSE j \in J : \A j2 \in J : j <= j2][1]

Init ==
    /\ contents \in Lists
    /\ published = {contents}
    /\ answer = Null

\* A server answers with a list.
Publish ==
    /\ \E l \in Lists : published' = published \cup {l}
    /\ UNCHANGED <<contents, answer>>

\* The file is replaced by a prefix of a published list.
Store ==
    /\ \E l \in published : StartsWith(l, contents')
    /\ UNCHANGED <<published, answer>>

\* A verification of a signature by key k.
Read ==
    /\ \E k \in Key : answer' = <<k, FirstWith(contents, k)>>
    /\ UNCHANGED <<contents, published>>

Next == Publish \/ Store \/ Read

Spec == Init /\ [][Next]_<<contents, published, answer>>
=============================================================================
