------------------------- MODULE AgentAllowedSigners -------------------------
(***************************************************************************)
(* The agent's consumer of the allowed-signers list                        *)
(* (src/rustica-agent/src/ffi/allowed_signer.rs, rustica/allowed_signer.rs *)
(* and ffi/signing.rs): ffi_get_allowed_signers creates (truncates) the    *)
(* output file, asks the configured servers in order until one answers,   *)
(* and writes that answer; ffi_verify_signed_data, called from another     *)
(* thread or process, reads the file and returns the principal of the      *)
(* first line whose key is the signature's key.                            *)
(*                                                                         *)
(* A list is a sequence of <<principal, key>> lines.  write_all is a       *)
(* series of writes, modelled one line at a time, and may fail after any   *)
(* of them.                                                                *)
(***************************************************************************)
EXTENDS Naturals, Sequences

CONSTANTS
    NServers,    \* the number of configured servers (config.servers)
    Principal,   \* identities named in the list
    Key,         \* public keys
    Lists,       \* the lists a server may answer with
    Null,        \* the null pointer ffi_verify_signed_data returns on failure
    MaxCalls     \* bound on the number of ffi_get_allowed_signers calls

ASSUME AgentAssumption ==
    /\ NServers \in Nat
    /\ Lists \subseteq Seq(Principal \X Key)
    /\ Null \notin Principal
    /\ MaxCalls \in Nat

\* The status codes of GetAllowedSignersStatus.
Status == {"Success", "ConfigurationError", "ParameterError", "InternalError",
           "AllowedSignersFileError"}

VARIABLES
    file,      \* the lines of the allowed-signers file
    rpc,       \* where ffi_get_allowed_signers is: "idle", "loop", "writing", "done"
    idx,       \* the index of the server the loop asks next
    payload,   \* the list being written
    status,    \* the status the last call returned, or Null
    calls,     \* the number of calls made
    served,    \* history: every list a server answered with, and the initial file
    verified   \* the last verification: <<key, principal or Null>>, or Null

vars == <<file, rpc, idx, payload, status, calls, served, verified>>

TypeOK ==
    /\ file \in Seq(Principal \X Key)
    /\ rpc \in {"idle", "loop", "writing", "done"}
    /\ idx \in 1 .. NServers + 1
    /\ payload \in Seq(Principal \X Key)
    /\ status \in Status \cup {Null}
    /\ calls \in 0 .. MaxCalls
    /\ served \subseteq Seq(Principal \X Key)
    /\ verified \in (Key \X (Principal \cup {Null})) \cup {Null}

\* The file may already hold a list written by an earlier run.
Init ==
    /\ file \in Lists
    /\ rpc = "idle"
    /\ idx = 1
    /\ payload = << >>
    /\ status = Null
    /\ calls = 0
    /\ served = {file}
    /\ verified = Null

-----------------------------------------------------------------------------
\* The configuration, the output path or the tokio runtime is unusable, or
\* File::create fails: the call returns before touching the file.
EarlyFailure ==
    /\ rpc = "idle" /\ calls < MaxCalls
    /\ \E s \in Status \ {"Success"} : status' = s
    /\ calls' = calls + 1
    /\ rpc' = "done"
    /\ UNCHANGED <<file, idx, payload, served, verified>>

\* Mutant: the file is opened for appending instead of created.
CreateAppends ==
    /\ rpc = "idle" /\ calls < MaxCalls
    /\ rpc' = "loop"
    /\ idx' = 1
    /\ calls' = calls + 1
    /\ UNCHANGED <<file, payload, status, served, verified>>

\* File::create(out_path) succeeds and truncates the file.
Create ==
    /\ rpc = "idle" /\ calls < MaxCalls
    /\ file' = << >>
    /\ rpc' = "loop"
    /\ idx' = 1
    /\ calls' = calls + 1
    /\ UNCHANGED <<payload, status, served, verified>>

(* server.get_allowed_signers (get_allowed_signers_async): an error of   *)
(* the RPC, the zstd decoder or read_to_string continues with the next   *)
(* server; an answer (the decoded text) is written.                       *)
Fetch ==
    /\ rpc = "loop" /\ idx <= NServers
    /\ \/ /\ idx' = idx + 1
          /\ UNCHANGED <<rpc, payload, served>>
       \/ \E l \in Lists :
             /\ payload' = l
             /\ served' = served \cup {l}
             /\ rpc' = "writing"
             /\ UNCHANGED idx
    /\ UNCHANGED <<file, status, calls, verified>>

\* No server answered.
LoopExhausted ==
    /\ rpc = "loop" /\ idx > NServers
    /\ status' = "InternalError"
    /\ rpc' = "done"
    /\ UNCHANGED <<file, idx, payload, calls, served, verified>>

\* One write of write_all.
WriteLine ==
    /\ rpc = "writing" /\ Len(file) < Len(payload)
    /\ file' = Append(file, payload[Len(file) + 1])
    /\ UNCHANGED <<rpc, idx, payload, status, calls, served, verified>>

\* Mutant: a single write() that may write only part of the buffer.
WriteDoneShort ==
    /\ rpc = "writing"
    /\ status' = "Success"
    /\ rpc' = "done"
    /\ UNCHANGED <<file, idx, payload, calls, served, verified>>

\* write_all returned Ok: Success, whatever the payload was.
WriteDone ==
    /\ rpc = "writing" /\ Len(file) = Len(payload)
    /\ status' = "Success"
    /\ rpc' = "done"
    /\ UNCHANGED <<file, idx, payload, calls, served, verified>>

\* write_all returned an error part-way.
WriteFails ==
    /\ rpc = "writing"
    /\ status' = "AllowedSignersFileError"
    /\ rpc' = "done"
    /\ UNCHANGED <<file, idx, payload, calls, served, verified>>

\* The caller may call ffi_get_allowed_signers again.
Return ==
    /\ rpc = "done" /\ calls < MaxCalls
    /\ rpc' = "idle"
    /\ UNCHANGED <<file, idx, payload, status, calls, served, verified>>

\* Mutant: the key of the matching line is returned instead of its principal.
FirstMatchKey(l, k) ==
    LET J == {j \in 1 .. Len(l) : l[j][2] = k}
    IN  IF J = {} THEN Null
        ELSE l[CHOOSE j \in J : \A j2 \in J : j <= j2][2]

\* Mutant: the last matching line wins (e.g. the lines collected into a map).
FirstMatchLast(l, k) ==
    LET J == {j \in 1 .. Len(l) : l[j][2] = k}
    IN  IF J = {} THEN Null
        ELSE l[CHOOSE j \in J : \A j2 \in J : j >= j2][1]

\* The principal of the first line of l with key k, or Null.
FirstMatch(l, k) ==
    LET J == {j \in 1 .. Len(l) : l[j][2] = k}
    IN  IF J = {} THEN Null
        ELSE l[CHOOSE j \in J : \A j2 \in J : j <= j2][1]

(* ffi_verify_signed_data for a valid signature by key k: read the file,  *)
(* keep the lines that parse, take the first whose key is k, and return   *)
(* its principal.                                                          *)
Verify ==
    /\ \E k \in Key : verified' = <<k, FirstMatch(file, k)>>
    /\ UNCHANGED <<file, rpc, idx, payload, status, calls, served>>

Next ==
    \/ EarlyFailure \/ Create \/ Fetch \/ LoopExhausted
    \/ WriteLine \/ WriteDone \/ WriteFails \/ Return
    \/ Verify

Spec == Init /\ [][Next]_vars

-----------------------------------------------------------------------------
(* A principal returned by ffi_verify_signed_data is the one some server   *)
(* (or the earlier file) gave the signature's key, even when the file is   *)
(* read while ffi_get_allowed_signers is still writing it or after       *)
(* write_all failed part-way: the first-match rule on a prefix of a list  *)
(* agrees with it on the whole list.                                       *)
VerificationSound ==
    (verified # Null /\ verified[2] # Null) =>
        \E l \in served : FirstMatch(l, verified[1]) = verified[2]

(* When ffi_get_allowed_signers returns Success, the file holds exactly   *)
(* the list the answering server sent: write_all wrote every byte.         *)
SuccessMeansWritten ==
    (rpc = "done" /\ status = "Success") => file = payload /\ payload \in served

(* spec.md section 4.5: "Empty response is not treated as success for file *)
(* output."  ffi_get_allowed_signers returns Success after write_all of an *)
(* empty answer.                                                          *)
EmptyNotSuccess ==
    (rpc = "done" /\ status = "Success") => file # << >>
-----------------------------------------------------------------------------
(* The refinement: the file, the served lists and the last verification    *)
(* of this model are those of the abstract AgentFile specification.        *)
Abstract == INSTANCE AgentFile
    WITH contents <- file, published <- served, answer <- verified

(* ffi_get_allowed_signers and ffi_verify_signed_data together implement   *)
(* AgentFile: every truncation and every write_all step leaves a prefix of *)
(* a served list in the file, and every fetch publishes what it writes.    *)
AgentFileRefined == Abstract!Spec
=============================================================================
