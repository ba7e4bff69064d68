# TLA+ models of Rustica

This directory holds TLA+ models of the Rustica SSH certificate authority
(`src/rustica`), and of the parts of its agent that consume the server's
allowed-signers list (`src/rustica-agent`). It has three kinds of artefact:

- TLC configurations that model-check the models on small instances;
- TLAPS proofs of the central invariants, valid for every value of the constants;
- `PROJECT.json`, which records:
  - which model definition translates which source lines;
  - the runs and what each one checks;
  - the mutants that show each checked property can fail;
  - the findings and the hazards.

## The system

The server has five parts (the numbering follows `spec.md`):

| Part | Code | What it does | Model |
|------|------|--------------|-------|
| C1 signing registry | `signing/mod.rs`, `config/mod.rs` `configure` | named signing backends; at startup, rejects a backend whose user and host keys are equal, and a key shared by two backends; the default authority must have a user key | `SigningRegistry` (done) |
| C2 challenge engine | `server.rs` `challenge`, `validate_request`, `extract_certificate_information` | mints an HMAC-tagged challenge certificate; validates the re-signed answer: freshness, size, HMAC, proof of possession, mTLS renewal hint | `Challenge`; `ChallengeMessage` for the HMAC string (done) |
| C3 issuance pipeline | `server.rs` `certificate`, `attested_x509_certificate` | authorizes a request, then builds, signs and re-parses the certificate; mints a rolling mTLS client certificate | `Challenge` (done) |
| C5 key registration | `server.rs` `register_key`, `register_u2f_key` | validates a challenge, checks the attestation and registers the key with the authorizer | `Challenge` (done) |
| C4 allowed-signers cache | `server.rs` `allowed_signers`, `is_rate_limited`; startup state in `configure` | a per-identity LRU rate limiter behind a mutex, and a cache of the compressed list behind an RwLock with a double-checked refresh | `AllowedSigners` (done) |
| Agent allowed-signers consumer | `rustica-agent/src/ffi/allowed_signer.rs`, `rustica/allowed_signer.rs`, `ffi/signing.rs` | fetches the list from the first server that answers, writes it to a file, and verifies signatures against that file | `AgentAllowedSigners`, refining `AgentFile`; `SignerLines` for the text format (done) |
| Configuration parsing, logging sinks, CLI | `config/mod.rs` (parsing), `logging/stdout.rs`, `rustica-agent-cli` | I/O and formatting | not modelled |

**Shared state.** The only mutable state the server shares between concurrent
request handlers is the allowed-signers rate limiter and cache (C4). The HMAC
key, the challenge key and the signing registry are immutable once `configure`
returns. The challenge protocol is therefore stateless on the server: a
challenge lives only in the certificate handed to the client.

## AllowedSigners (C4)

`AllowedSigners.tla` models the handler `allowed_signers` as a process per
handler task (`Proc`). Correspondence with the code:

| Model | Code |
|-------|------|
| `now` | `SystemTime::now()` |
| `t[p]` | the request's `current_time`, read once at line 1115 |
| `lru` | the `LruCache<String, Duration>` as a sequence of `<<identity, deadline>>`, least recently used first |
| `cache` | `AllowedSignersCache`; its payload is named by the time it was fetched (`fetchedAt`; 0 is the empty startup cache) |
| `readers`, `writer` | the tasks holding a read guard or the write guard of the `RwLock` |
| `Start` | peer certificate, identity join and `current_time` |
| `RateLimit` | `is_rate_limited`: the limiter mutex is held for a single push with no await inside, so the whole call is one atomic step |
| `AcquireRead`, `CheckCache` | the read-guarded block, lines 1134–1144 |
| `AcquireWrite`, `Recheck` | `cache.write().await` and the double check |
| `Fetch` | the authorizer call, rendering and zstd compression (any failure answers `PERMISSION_DENIED` and leaves the cache alone), and the write-back |

`LruPush` is the `push` of the `lru` crate: it re-inserts an existing key at
the most recent end and returns the old entry, or, when the cache is full,
evicts the least recent entry and returns that. The history variables
`pushed`, `admitted` and `evicted` are used only by the properties.

Runs (`MCAllowedSigners` adds the symmetry set that the violation runs use):

| Run | Checks | Result |
|-----|--------|--------|
| `allowed_signers` (`AllowedSigners.cfg`: 2 tasks, 2 identities, capacity 1, cooldown 1, validity 1, clock to 3, no symmetry) | `TypeOK`; `BoundedStaleness` (a served list was fetched no earlier than request time − validity); `ExpiryMonotonic`; `DenialJustified` (a denial is based on the caller's own earlier push); `EveryRequestAnswered` | pass, 387,236 distinct states, about 2 min |
| `rate_limit_spacing` | `RateLimitSpacing` (spec property 5) | violation: see the findings |
| `refresh_spacing` | `RefreshSpacing` (spec property 4) | violation: see the findings |

**Why these bounds are enough.** A capacity of 1 with two identities makes
every new identity evict the other, which exercises all three branches of the
`push`. Two tasks let one task hold a stale `current_time` while the other
refreshes the cache. The run checks liveness as well, so it cannot use
symmetry, and a third task makes it too large. `TypeOK`, `BoundedStaleness`,
`ExpiryMonotonic` and `DenialJustified` are proved below for any number of tasks. A clock that reaches 3, with a
validity of 1, makes the cache expire and be refreshed more than once.

**Fairness.** Tokio runs every ready task, which gives weak fairness to the
steps that need no lock. Tokio's `RwLock` is fair (FIFO): a waiting task is
granted the guard once the guards ahead of it are released. This is modelled
as strong fairness on `AcquireRead` and `AcquireWrite`. `Fetch` is assumed to
return, because the authorizer call has no timeout in this code.

**Findings.**

1. *Rate limiting (spec property 5).* The limiter deadline is pushed with a
   `current_time` that was read before the mutex was taken. A request that
   read the clock earlier but locks later rewinds the identity's deadline, and
   a third request is then admitted within the cooldown.
2. *Refresh spacing (spec property 4).* The new expiry is `current_time + validity`,
   where `current_time` was read when the request arrived. A refresh that
   completes late (the authorizer was slow, or the task waited on the guards)
   stores an expiry that is almost or already past. Another refresh then
   follows within the validity window.

The model also shows that the write guard is held across the authorizer call,
although `spec.md` §9 asks that locks never be held across one. This is
recorded as a hazard rather than as a run.

**Proofs** (`AllowedSignersProofs.tla`, checked by `tlapm`):

- `TypeCorrect`: `Spec => []TypeOK`. This rests on the lemma `LruPushType`:
  a push keeps the sequence within `Capacity`.
- `Staleness`: `Spec => []BoundedStaleness`, through the inductive invariant
  `IInv`, which is `TypeOK` together with:
  - `ClockInv`: no task's `current_time` is in the future;
  - `CacheInv`: `expiry ≤ fetchedAt + Validity`, and `fetchedAt ≤ now`;
  - `LockInv`: the guards are held exactly by the tasks between acquisition
    and release, and never a read and the write guard at once;
  - `FetchInv`: a task about to fetch saw the cache expired for its own time,
    under the write guard it still holds.

  `BoundedStaleness` is not inductive on its own. A served response inherits
  its bound from the cache, which needs `CacheInv`. The cache must not change
  between a task's check and its answer, which needs `LockInv`. `IInv` was
  first checked with TLC as an invariant of `allowed_signers`.
- `ExpiryNeverDecreases`: `Spec => ExpiryMonotonic`. It follows from
  `FetchInv` and `ClockInv`: a fetch stores `t[p] + Validity`, which is
  greater than the old expiry, since `expiry < t[p]`.

- `DenialJustifiedHolds` (`LimiterProofs.tla`): `Spec => DenialJustified`,
  for every limiter size, cooldown and set of tasks. Its inductive invariant
  `DInv` is `TypeOK` together with:
  - `LruInv`: every limiter entry belongs to an identity that was pushed, and
    its deadline is at most that identity's latest pushed `current_time`
    plus the cooldown;
  - `LimitInv`: a task at the limiter has not answered yet.

  The denying step is `RateLimit` with the entry that `push` returned. The
  lemma `LruPushEntries` shows that a push returns one of the old entries
  (or none) and adds only the new one. So the returned entry was in the
  limiter, and by `LruInv` its deadline, which exceeds `t[p]`, is at most
  `pushed[id[p]] + Cooldown`. Every other step leaves a waiting task's
  `"none"` answer alone (`LimitInv`). `LruInv` is kept because `pushed`
  only grows. TLC checked `DInv` as an invariant first, on three tasks
  with capacity 1 and on two tasks, three identities and capacity 2. The
  three lemmas `EntriesAppend`, `EntriesTail` and `EntriesRemoveAt` give
  the entries of each branch of `push`.

Liveness (`EveryRequestAnswered`) is only model-checked, because TLAPS does
not handle `ENABLED` and fairness reasoning here.

## SigningRegistry (C1)

`SigningRegistry.tla` models startup: `convert_to_signing_mechanism` in
`signing/mod.rs`, followed by the two checks of `configure` in `config/mod.rs`.
A backend is abstracted to what startup reads of it:

- whether `into_signer` succeeds;
- the fingerprints of its user key and its host key (or `NoKey`);
- whether it has a client CA whose PEM serialisation succeeds.

`Init` picks any finite map from authority names to backends.

| Model | Code |
|-------|------|
| `remaining` | the authorities the `for` loop over the `HashMap` has not reached; the loop takes any of them, because `HashMap` order is unspecified |
| `seen` | `public_keys`: fingerprint to the authority that uses it |
| `converted` | the keys of `converted_authorities` |
| `LoadFails`, `Identical`, `DuplicateUser`, `DuplicateHost`, `Register` | one disjunct per way the loop body ends; the errors return at once |
| `DefaultOk`, `DefaultMissing` | the default authority must have a user key |
| `ClientCa` | `get_client_certificate_authority` and `serialize_pem` for the client authority |

**Run `signing_registry_startup`** (`SigningRegistry.cfg`). The instance has two
authorities, which are also the default and the client authority, and two
keys. `Init` enumerates every configuration: 3025 initial states and 11,360
distinct states. The run checks:

- `StartupDecision`: startup succeeds exactly when `ValidRegistry` holds.
  `ValidRegistry` is a global reference definition: every backend loads, no
  backend uses one key for both roles, no two backends share a key (spec
  property 3), and the default and client authorities are present and usable.
  The code builds `public_keys` incrementally, so the check is that the
  incremental walk reaches the same verdict as the global definition, in
  every iteration order.
- `ErrorNamesCulprits`: a `DuplicatedKey` error names two different
  authorities that really share a key (spec scenario S8).

Deadlock checking is off, because `configure` returns once and the process
then either serves or exits.

**Proofs** (`SigningRegistryProofs.tla`):

- `StartupCorrect`: `Spec => []StartupDecision`.
- `RegistryTypeCorrect`: `Spec => []TypeOK`.
- `CulpritsNamed`: `Spec => []ErrorNamesCulprits`.

All three hold for any sets of authorities and keys. They rest on the
inductive invariant `RInv`, which is `TypeOK` together with:

- `Partition`: every authority is either converted or still to be visited;
- `ConvertedValid`: the converted backends loaded and are pairwise key-disjoint;
- `SeenExact`: `public_keys` maps exactly the keys of the converted backends
  to their owners;
- `ClientCaInv` and `DoneInv`, on the order of the steps.

`SeenExact` is what makes the incremental check sound. A key that is absent
from `public_keys` belongs to no converted backend, so a collision with an
earlier backend is always seen. `Partition` gives the other direction: once
the loop ends, every backend has been converted, so `ConvertedValid` covers
the whole configuration.

## Challenge (C2, C3, C5)

`Challenge.tla` models the handlers that rest on the challenge protocol:

- `challenge` and `validate_request`;
- `certificate`, including the renewal of the mTLS client certificate;
- `register_key` and `register_u2f_key`;
- `attested_x509_certificate`.

These handlers read only state that is fixed once `configure` returns: the
HMAC key, the challenge key and the signing registry. Their awaits therefore
cannot observe another handler, and each handler is one atomic step.

| Model | Code |
|-------|------|
| `chal` | the challenges minted so far; a challenge is its HMAC tag, written as the triple `<<time, key, identity>>` it authenticates |
| `requireProof`, `requireAttestation` | `require_rustica_proof`, `require_attestation_chain`, chosen in `Init` |
| `out` | the artefact the last step issued (SSH certificate, registration or X.509 certificate), or `None` |
| `MintChallenge` | `challenge` |
| `Valid` | every check of `validate_request` |
| `ElapsedU64` | `time - request_time` in u64, which wraps for a request time in the future |
| `RefreshSettings` | the renewal hint of `validate_request` |
| `Certificate`, `RegisterKey`, `RegisterU2fKey`, `IssueX509` | the handlers; the first disjunct of each is every error answer, which issues nothing |

`Certificate` issues a certificate only from the requested authority. The
certificate is built with the requested authority's key as its signature key
(`server.rs` 545, 570) and signed by `authorization.authority` (580). sshcerts
checks the signature against the embedded key when signing and again in the
re-parse at 587. The registry refuses two authorities that share a key. So when
the authorizer names another authority, the request ends in `BadChallenge` or
`BadCertOptions`: an error answer with no certificate and no log entry.

**Attacker.** Every minted challenge certificate is public. A client can
present any of them unchanged. It can also present a certificate it signs
itself with a key it owns (`Owner`), carrying a minted tag or a made-up one
(`NoTag`). Attestation certificates are public too, so any key's attestation
may be presented. The authorizer is arbitrary: it may refuse, or grant with
any authority, but only a grant of the requested authority issues. Only the success paths enumerate their inputs, because every
failure has the same effect (an error answer and nothing issued).

**Run `challenge_protocol`** (`Challenge.cfg`, 88,122 distinct states, about
25 s). The run checks:

- `ChallengeBinding`: every SSH certificate and registration was issued
  against a challenge the server minted for that key and the requester's own
  identity, at most five seconds earlier. With the proof flag set, the
  requester also holds the key. This is spec properties 1 and 2.
- `FreshChallengeAccepted`: the converse. An honest answer at most five
  seconds old is accepted, including one exactly five seconds old.
- `AttestedKeyBound`: attested keys and attested X.509 certificates are for the
  attested key, and an X.509 certificate is never a CA (spec property 7).
- `ReissueExtends`: a renewed mTLS certificate outlives the one presented,
  when `expiration_renewal_period ≤ validity_length`.

The instance:

- alice and mallory, each owning one key;
- three authority names: the default `a1` with user and host keys, `a2` with a
  user key and an attested-X.509 CA, and `a3`, which no backend has;
- a clock to 7, which takes challenges past the five-second window;
- at most two challenges;
- alice's mTLS certificate expiring at 3, inside the renewal period of 2 at
  times 2 and 3;
- renewal period equal to the validity length (2). This is the boundary at
  which an off-by-one in the renewal test would hand out a certificate that
  does not outlive the old one.

**Findings.**

3. *Empty request window* (`request_window`). `certificate` refuses only
   `valid_before < valid_after`, so a request with equal bounds is signed.
   `spec.md` §4.2 step 2 rejects `valid_before ≤ valid_after`.

**Proofs** (`ChallengeProofs.tla`): `ChallengeTypeCorrect`, `BindingHolds`,
`AttestationHolds`, `RenewalExtends` and `HonestAccepted` prove the five
properties above for all constants. The inductive invariant `IInv` is
`TypeOK` together with:

- `IsFiniteSet(chal)`, which is needed for the cardinality bound;
- `ChalPast`: every minted challenge's time has already come;
- the properties themselves.

The properties speak only of the artefact of the last step, and `Tick` clears
that artefact, so they carry over. The arithmetic facts are the lemmas
`ModSmall`, `ModNegative` and `WindowFresh`: the u64 wrap of a future request
time always exceeds the window, because `U64 > MaxTime + 5`. `ValidFacts`
collects what a submission that passes `validate_request` establishes.

**Not modelled:**

- the verification of attestation chains (`verify_piv_certificate_chain` and
  `verify_u2f_certificate_chain` live outside `src/rustica/src`). An
  attestation is a key or `Invalid`;
- principals, extensions and critical options;
- in `Challenge`, mTLS certificates with several common names (`ChallengeMessage` models them, for the HMAC string).

**The HMAC encoding** (`ChallengeMessage.tla`, `MCChallengeMessage.tla`).
`Challenge` treats the tag as an injective function of the triple (time,
pubkey, identities). `ChallengeMessage` checks that assumption against the
string the code actually signs. The string is
`format!("{}-{}-{}", time, pubkey, identities.join(","))` (`server.rs` 227–232
and 447). Strings are modelled as sequences of characters, over an alphabet
that contains both separators. HMAC-SHA256 is taken to have no collisions, so
a tag verifies exactly when the two strings are equal.

| Model | Code |
|-------|------|
| `Identities` | the CN list `extract_certificate_information` returns (106–139), up to `MaxCNs` long; the empty list included, since nothing rejects it |
| `JoinComma`, `Message` | `join(",")` (231) and the `format!` (227–232) |
| `Challenge` | `challenge` (440–448): a client with identities `ids` asks for a challenge for pubkey `p` at time `t` |
| `Present` | `validate_request` step 7 (226–245): a client presents a minted tag with `t`, `p` and its own identities; it is accepted if the strings agree |

- `TagBindsRequest` (spec.md §4.1, "binds (time, pubkey, identity)"):
  every accepted triple was minted. The instance (`CommaIdentity.cfg`) has:
  - two times;
  - three pubkey strings, two of which contain `-` (as `ssh-ed25519` does);
  - the CNs "a", "b" and "a,b";
  - up to two CNs per certificate, the empty list included;
  - two challenges.

**Finding 4** (`comma_identity`, `CommaIdentity.cfg`). With the CN "a,b" in the
instance, TLC finds that a tag minted for the client with the single CN "a,b"
is accepted for a client whose certificate carries the two CNs "a" and "b".
`join(",")` is not injective (`server.rs:231`). A CN containing `-` shifts the
pubkey/identity boundary in the same way.

**Hazard without a property.** The comment on `extract_certificate_information`
says that zero identities "is an error". The function nevertheless returns
`Ok` with an empty list (139), so a client whose certificate has no CN is
served with the empty identity string. `spec.md` states no rule for this, so
no property is checked. `Identities` includes the empty list, so such clients
are part of the run above.

## AgentAllowedSigners (agent side of C4)

`AgentAllowedSigners.tla` models the agent's two FFI entry points that
touch the allowed-signers file. `ffi_get_allowed_signers` writes the file
and `ffi_verify_signed_data` reads it; the caller may run them in two
threads or two processes, so their steps interleave freely.

| Model | Code |
|-------|------|
| `file` | contents of the output file, as a sequence of `<<principal, key>>` lines |
| `EarlyFailure` | the returns before and at `File::create` (`ffi/allowed_signer.rs` 23–63): the file is untouched |
| `Create` | `File::create` succeeding, which truncates the file (58–64) |
| `Fetch` | one iteration of the server loop: `get_allowed_signers_async` fails (RPC, zstd or UTF-8 error), so `idx` moves on, or answers one of `Lists` |
| `LoopExhausted` | no server answered: `InternalError` (90) |
| `WriteLine`, `WriteDone`, `WriteFails` | `write_all` (81–86): one line per write; `Ok` is `Success` whatever was written; an error can come after any line |
| `Verify`, `FirstMatch` | `ffi_verify_signed_data` for a valid signature by key `k`: read the file, take the first parseable line with that key (`filter_map(...).filter(...).next()`), return its principal or null |
| `served` | history variable: the initial file and every list a server answered with |

`Return` lets the caller call again, up to `MaxCalls` calls. Lines are
abstracted here to parsed pairs. `SignerLines` (below) models the text format
of the lines.

**Properties.**

- `VerificationSound`: a principal returned by verification is the one some
  served list gives that key first. It holds even when the file is read
  mid-write or after a failed write, because first match on a prefix agrees
  with first match on the whole list. The mutant `FirstMatchLast`, which keeps
  the last matching line, breaks it: the instance's list names key `ka` for
  both alice and bob.
- `SuccessMeansWritten`: after `Success`, the file is exactly the answer. The
  mutant `WriteDoneShort` (a single `write`, which may be short) breaks it.

**Run** `agent_allowed_signers` (`AgentAllowedSigners.cfg`): 2 servers, 3
calls, 2 principals, 2 keys, and three lists: empty, one naming `ka` twice,
and one naming only `kb`. This gives 7,897 distinct states in about a second.
The bounds are enough for every path:

- a call that finds no server (`LoopExhausted`);
- a failure at the first server followed by an answer from the second;
- a write that fails after each line;
- a verification between any two writes;
- repeated calls, each truncating the previous list.

Verification is always enabled, so there is no deadlock. No fairness is
assumed. The agent's RPC client sets no timeout in `src/`, so nothing
guarantees that a call returns.

**Finding 5** (`agent_empty_success`, `EmptySuccess.cfg`). `spec.md` §4.5
says "Empty response is not treated as success for file output". The code
returns `Success` after writing an empty answer, at `ffi/allowed_signer.rs:82`,
and TLC finds the violation of `EmptyNotSuccess` in a few steps.

**Hazard without a safety property.** `File::create` truncates the old list
before any server is asked. If every server then fails, or the write fails,
the agent is left with an empty or partial file. Nothing in the spec promises
that the old file survives, so this is a hazard rather than a finding. The
refinement below states the weaker promise that does hold.

**Proofs** (`AgentAllowedSignersProofs.tla`): `AgentTypeCorrect`,
`VerificationSoundHolds` and `SuccessMeansWrittenHolds` hold for every number
of servers, every set of lists and every bound on calls. The inductive
invariant `AInv` adds three conjuncts to the properties:

- `FileFromServed`: the file is a prefix of a served list;
- `LoopEmpty`: the file is empty while the loop asks the servers;
- `WritingPrefix`: while `write_all` runs, the file is a prefix of the
  payload, and the payload was served.

The key lemma is `PrefixFirstMatch`. It rests on `LeastExists`, which applies
`WFMin` from `WellFoundedInduction` to the well-founded `<` on `Nat`, and on
`LeastChosen`, which says that the `CHOOSE` in `FirstMatch` picks that least
matching line.

**Refinement** (`AgentFile.tla`). `AgentFile` is the abstract specification
of what the file promises its readers:

- servers `Publish` lists;
- the file is replaced (`Store`) only by a prefix of a published list, the
  empty file included;
- a `Read` returns the principal of the first line that carries the key.

`AgentAllowedSigners` implements it under the mapping
`contents <- file`, `published <- served`, `answer <- verified`:

- `Create` and `WriteLine` are `Store` steps;
- a `Fetch` that answers is a `Publish` step, and a failing one is a stutter;
- `Verify` is `Read`;
- every other action is a stutter.

The run `agent_allowed_signers` checks `AgentFileRefined`. The mutant
`CreateAppends`, whose `File::create` does not truncate, breaks it. The
theorem `AgentImplementsAgentFile` proves the refinement for every instance,
with two lemmas:

- `InitRefined`: initial states map to initial states;
- `StepRefined`: under `AInv`, every step maps to an abstract step or a
  stutter. `Create` needs `FileFromServed`, and `WriteLine` needs
  `WritingPrefix`.

## SignerLines (the list's text format, server and agent)

`SignerLines.tla` composes the two ends of the allowed-signers text format:

- the server renders each `(identity, pubkey)` pair as `"{identity} {pubkey}"`
  and joins the lines with `\n` (`server.rs` 1169–1177);
- the agent splits each line at its first space (`parse_allowed_signer`,
  `ffi/signing.rs` 44–54) and returns the principal of the first parsed line
  with the signature's key (60–117, the `filter_map/filter/next` chain at
  82–96).

Text is abstracted to words, so `splitn(2, ' ')` is `Head` and `Tail`. An
identity is a short sequence of words, and a key is its base64 blob.
`FromString` stands for `sshcerts` `PublicKey::from_string`, which is outside
`src/`. It is assumed to accept a key type followed by a blob of that type,
and to ignore a further (comment) word.

- `VerifiesAsListed`: the agent returns exactly the identity that the
  authorizer's list gives the key first, and null for an unlisted key. Run
  `signer_lines` passes (777 states) with single-word identities, two keys of
  different types and lists of up to three entries. The mutants
  `ParseSwapped` and `ParseLastSpace` (`rsplitn`) break `TypeOK` and
  `VerifiesAsListed`.

**Finding 6** (`spaced_identity`, `SpacedIdentity.cfg`). Identities are
strings that the authorizer returns unchecked. Take the identity
`mallory ssh-ed25519 <blob of alice's key>`. It renders to a line whose first
word is `mallory` and whose rest parses as alice's key, the identity's own
key word being ignored as a comment. TLC finds that verification of alice's
signature returns `mallory`, violating `NoMisattribution`
(`ffi/signing.rs:45`). Any identity containing a space is, in the same way,
truncated to its first word or dropped.

- `SpoofNeedsKeyTypeWord` (run `spaced_identity_shape`, `SpacedShape.cfg`,
  777 states): on the same spaced identities, with lists of up to three
  entries, every returned principal is the first word of a listed identity.
  That identity is either paired with the key, or has the key's type name
  as its second word. This is the only way to misattribute. The mutant
  `VerifiedPrincipalUnfiltered` loses the key filter of the
  `filter_map/filter/next` chain and breaks the property.

**Proofs** (`SignerLinesProofs.tla`). The list is rendered from `signers`
and the agent verifies against it. `IInv` is `TypeOK` together with
`VerifiedCurrent`: the last verification agrees with what the current list
gives the key. TLC checked it on spaced identities first (129 states).

- `SignerTypeCorrect`: `Spec => []TypeOK`.
- `VerifiesAsListedHolds`: assume that every identity is one word
  (`SingleWordIdentities`). Then `Spec => []VerifiesAsListed`.
  `ParseSingleWord` shows that a rendered line parses back to its own key
  and identity. `VerifiedLeast` shows that the `filter_map/filter/next`
  chain takes the least line index carrying the key.
- `SpoofNeedsKeyTypeWordHolds`: `Spec => []SpoofNeedsKeyTypeWord`, with no
  assumption on the identities. The agent can name a signer that the list
  does not pair with the key only through a listed identity whose second
  word is that key's type name. That is the shape of finding 6's
  counterexample, whose second word is `ssh-ed25519`. The theorem says what
  the authorizer must refuse for the agent to be right: an identity with a
  space followed by a key-type name. `ParseRendered` shows that a parsed
  line names its entry's first word. `ParseSpacedType` shows that the line
  of a spaced identity parses only to a key whose type name is the
  identity's second word.

For the proofs, `AnyWord` has its `UNION` parenthesised. The assumption on
`Null` also excludes pairs, which matches `None` never being a `Some(...)`.

## What is only model-checked

- Liveness: `EveryRequestAnswered` needs fairness and `ENABLED`, which
  these proofs do not handle.
- `TagBindsRequest` and the challenge encoding are defined by folds over
  data. Induction over data is out of the provers' reach.
- `RateLimitSpacing` and `RefreshSpacing` are violated: TLC's
  counterexamples are the findings.

## Plan

1. Model the authorizer RPC's timeout and the agent's RPC client timeouts, to
   state liveness of `allowed_signers` and `ffi_get_allowed_signers`.
2. Model torn reads of the file: a read concurrent with a write that sees
   half a line.
