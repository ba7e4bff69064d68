---------------------------- MODULE MCChallenge -----------------------------
(* A small instance of Challenge: alice and mallory each own one key;     *)
(* authority a1 is the default with both key types, a2 has a user key and *)
(* an attested-X.509 CA, and a3 is a name no backend has.                 *)
EXTENDS Challenge

MCOwner == [k \in Key |-> IF k = "ka" THEN "alice" ELSE "mallory"]
MCSshKeys == [a \in Configured |-> IF a = "a1" THEN {"User", "Host"} ELSE {"User"}]
MCCertExpiry == [i \in Ident |-> IF i = "alice" THEN 3 ELSE MaxTime]
=============================================================================
