--------------------------- MODULE AllowedSigners ---------------------------
(***************************************************************************)
(* The AllowedSigners RPC of the Rustica server (src/rustica/src/server.rs *)
(* allowed_signers and is_rate_limited): concurrent handler tasks share a  *)
(* mutex-protected LRU rate limiter and a read-write-locked cache of the   *)
(* zstd-compressed allowed-signers list fetched from the authorizer.       *)
(*                                                                         *)
(* Abstractions: a request's joined mTLS identity is a model value of      *)
(* Identity; a compressed list is named by the clock time at which it was  *)
(* read from the authorizer (fetchedAt); Duration values are whole ticks.  *)
(* The limiter mutex is held only around one push with no await inside,  *)
(* so RateLimit is one atomic step; the read and write guards of the cache *)
(* are explicit, because a task holds them across scheduling points.       *)
(***************************************************************************)
EXTENDS Integers, Sequences, SequencesExt

CONSTANTS
    Proc,          \* concurrent handler tasks
    Identity,      \* joined mTLS identities of callers
    Capacity,      \* allowed_signers.lru_rate_limiter_size
    Cooldown,      \* allowed_signers.rate_limit_cooldown
    Validity,      \* allowed_signers.cache_validity_length
    MaxTime,       \* bound on the wall clock
    None           \* no value

ASSUME ConstantsAssumption ==
    /\ Capacity \in Nat \ {0}
    /\ Cooldown \in Nat
    /\ Validity \in Nat
    /\ MaxTime \in Nat \ {0}
    /\ None \notin Proc

VARIABLES
    now,        \* SystemTime::now() since UNIX_EPOCH
    lru,        \* allowed_signers_rate_limiter: <<identity, deadline>>, LRU first
    cache,      \* allowed_signers_cache
    readers,    \* tasks holding a read guard of allowed_signers_cache
    writer,     \* task holding the write guard, or None
    pc,         \* where each handler task is
    t,          \* current_time captured by each task
    id,         \* mtls_identities of each task's request
    resp,       \* the last response each task returned
    pushed,     \* history: the pushed current_time each identity pushed
    admitted,   \* history: every <<identity, current_time>> not rate limited
    evicted     \* history: identities the limiter has dropped for capacity

vars == <<now, lru, cache, readers, writer, pc, t, id, resp,
          pushed, admitted, evicted>>

Time == 0..MaxTime
\* No push of an identity yet.
NoPush == -1
Status == {"none", "signers", "exhausted", "denied"}
PC == {"idle", "limit", "read", "check", "write", "recheck", "fetch"}
NoResp == [status |-> "none", fetchedAt |-> 0]

TypeOK ==
    /\ now \in Time
    /\ lru \in Seq(Identity \X Nat)
    /\ Len(lru) <= Capacity
    /\ cache \in [expiry : Nat, fetchedAt : Time]
    /\ readers \subseteq Proc
    /\ writer \in Proc \cup {None}
    /\ pc \in [Proc -> PC]
    /\ t \in [Proc -> Time]
    /\ id \in [Proc -> Identity]
    /\ resp \in [Proc -> [status : Status, fetchedAt : Time]]
    /\ pushed \in [Identity -> Time \cup {NoPush}]
    /\ admitted \subseteq Identity \X Time
    /\ evicted \subseteq Identity

-----------------------------------------------------------------------------
\* Mutant: a limiter that never evicts for capacity.
LruPushUnbounded(s, k, v) ==
    IF \E i \in 1..Len(s) : s[i][1] = k
    THEN LET i == CHOOSE i \in 1..Len(s) : s[i][1] = k
         IN  [lru |-> Append(RemoveAt(s, i), <<k, v>>), removed |-> s[i]]
    ELSE [lru |-> Append(s, <<k, v>>), removed |-> None]

(* LruCache::push of the lru crate: re-inserting a key moves it to the     *)
(* most recent end and returns its old entry; inserting a new key into a   *)
(* full cache drops the least recent entry and returns it.                 *)
LruPush(s, k, v) ==
    IF \E i \in 1..Len(s) : s[i][1] = k
    THEN LET i == CHOOSE i \in 1..Len(s) : s[i][1] = k
         IN  [lru |-> Append(RemoveAt(s, i), <<k, v>>), removed |-> s[i]]
    ELSE IF Len(s) = Capacity
    THEN [lru |-> Append(Tail(s), <<k, v>>), removed |-> Head(s)]
    ELSE [lru |-> Append(s, <<k, v>>), removed |-> None]

\* Mutant: the verdict ignores whose entry the push returned.
RateLimitedAnyKey(removed, k, time) ==
    /\ removed # None
    /\ time < removed[2]

\* is_rate_limited's verdict on the entry the push returned.
RateLimited(removed, k, time) ==
    /\ removed # None
    /\ removed[1] = k
    /\ time < removed[2]

\* The cache is still valid for a request made at time tm.
Fresh(tm) == tm <= cache.expiry

Respond(p, r) ==
    /\ resp' = [resp EXCEPT ![p] = r]
    /\ pc' = [pc EXCEPT ![p] = "idle"]

Serve(p) == Respond(p, [status |-> "signers", fetchedAt |-> cache.fetchedAt])

Init ==
    /\ now = 1
    /\ lru = << >>
    \* compressed_allowed_signers: vec![], expiry_timestamp: Duration::ZERO
    /\ cache = [expiry |-> 0, fetchedAt |-> 0]
    /\ readers = {}
    /\ writer = None
    /\ pc = [p \in Proc |-> "idle"]
    /\ t = [p \in Proc |-> 0]
    /\ id \in [Proc -> Identity]
    /\ resp = [p \in Proc |-> NoResp]
    /\ pushed = [i \in Identity |-> NoPush]
    /\ admitted = {}
    /\ evicted = {}

-----------------------------------------------------------------------------
(* A request arrives: the identity is extracted from the peer certificate *)
(* and current_time is read once, before any lock is taken.               *)
Start(p) ==
    /\ pc[p] = "idle"
    /\ \E i \in Identity : id' = [id EXCEPT ![p] = i]
    /\ t' = [t EXCEPT ![p] = now]
    /\ pc' = [pc EXCEPT ![p] = "limit"]
    /\ resp' = [resp EXCEPT ![p] = NoResp]
    /\ UNCHANGED <<now, lru, cache, readers, writer,
                   pushed, admitted, evicted>>

(* is_rate_limited: lock the limiter, push (identity, current_time +      *)
(* cooldown) whatever the verdict, and answer RESOURCE_EXHAUSTED when the *)
(* identity's previous deadline has not passed.                           *)
RateLimit(p) ==
    LET push == LruPush(lru, id[p], t[p] + Cooldown)
        k    == id[p]
    IN
    /\ pc[p] = "limit"
    /\ lru' = push.lru
    /\ pushed' = [pushed EXCEPT ![k] = IF t[p] > @ THEN t[p] ELSE @]
    /\ evicted' = IF push.removed # None /\ push.removed[1] # k
                  THEN evicted \cup {push.removed[1]} ELSE evicted
    /\ IF RateLimited(push.removed, k, t[p])
       THEN /\ Respond(p, [NoResp EXCEPT !.status = "exhausted"])
            /\ UNCHANGED admitted
       ELSE /\ pc' = [pc EXCEPT ![p] = "read"]
            /\ admitted' = admitted \cup {<<k, t[p]>>}
            /\ UNCHANGED resp
    /\ UNCHANGED <<now, cache, readers, writer, t, id>>

\* cache.read().await: granted while no task holds the write guard.
AcquireRead(p) ==
    /\ pc[p] = "read"
    /\ writer = None
    /\ readers' = readers \cup {p}
    /\ pc' = [pc EXCEPT ![p] = "check"]
    /\ UNCHANGED <<now, lru, cache, writer, t, id, resp,
                   pushed, admitted, evicted>>

\* Mutant: on an expired cache the task retries the read path forever.
CheckCacheSpins(p) ==
    /\ pc[p] = "check"
    /\ readers' = readers \ {p}
    /\ IF Fresh(t[p])
       THEN Serve(p)
       ELSE /\ pc' = [pc EXCEPT ![p] = "read"]
            /\ UNCHANGED resp
    /\ UNCHANGED <<now, lru, cache, writer, t, id,
                   pushed, admitted, evicted>>

(* Under the read guard: serve the cached list if it is still valid, else *)
(* drop the guard at the end of the block and go for the write guard.     *)
CheckCache(p) ==
    /\ pc[p] = "check"
    /\ readers' = readers \ {p}
    /\ IF Fresh(t[p])
       THEN Serve(p)
       ELSE /\ pc' = [pc EXCEPT ![p] = "write"]
            /\ UNCHANGED resp
    /\ UNCHANGED <<now, lru, cache, writer, t, id,
                   pushed, admitted, evicted>>

\* cache.write().await: granted when no guard of either kind is held.
AcquireWrite(p) ==
    /\ pc[p] = "write"
    /\ writer = None
    /\ readers = {}
    /\ writer' = p
    /\ pc' = [pc EXCEPT ![p] = "recheck"]
    /\ UNCHANGED <<now, lru, cache, readers, t, id, resp,
                   pushed, admitted, evicted>>

\* Mutant: no re-check after the write guard is granted.
RecheckSkipped(p) ==
    /\ pc[p] = "recheck"
    /\ pc' = [pc EXCEPT ![p] = "fetch"]
    /\ UNCHANGED <<resp, writer>>
    /\ UNCHANGED <<now, lru, cache, readers, t, id,
                   pushed, admitted, evicted>>

(* Double-checked refresh: another task may have refreshed the cache     *)
(* while this one waited for the write guard.                            *)
Recheck(p) ==
    /\ pc[p] = "recheck"
    /\ IF Fresh(t[p])
       THEN /\ Serve(p)
            /\ writer' = None
       ELSE /\ pc' = [pc EXCEPT ![p] = "fetch"]
            /\ UNCHANGED <<resp, writer>>
    /\ UNCHANGED <<now, lru, cache, readers, t, id,
                   pushed, admitted, evicted>>

\* Mutant: the write-back sets the expiry one tick too late.
FetchExpiryOffByOne(p) ==
    /\ pc[p] = "fetch"
    /\ writer' = None
    /\ \/ /\ Respond(p, [NoResp EXCEPT !.status = "denied"])
          /\ UNCHANGED cache
       \/ /\ cache' = [expiry |-> t[p] + Validity + 1, fetchedAt |-> now]
          /\ Respond(p, [status |-> "signers", fetchedAt |-> now])
    /\ UNCHANGED <<now, lru, readers, t, id,
                   pushed, admitted, evicted>>

(* authorizer.get_allowed_signers().await, rendering and zstd compression *)
(* under the write guard.  A failure of the authorizer or of the encoder  *)
(* answers PERMISSION_DENIED and leaves the cache alone; success stores   *)
(* the list with expiry current_time + cache_validity_length.             *)
Fetch(p) ==
    /\ pc[p] = "fetch"
    /\ writer' = None
    /\ \/ /\ Respond(p, [NoResp EXCEPT !.status = "denied"])
          /\ UNCHANGED cache
       \/ /\ cache' = [expiry |-> t[p] + Validity, fetchedAt |-> now]
          /\ Respond(p, [status |-> "signers", fetchedAt |-> now])
    /\ UNCHANGED <<now, lru, readers, t, id,
                   pushed, admitted, evicted>>

\* The wall clock advances.
Tick ==
    /\ now < MaxTime
    /\ now' = now + 1
    /\ UNCHANGED <<lru, cache, readers, writer, pc, t, id, resp,
                   pushed, admitted, evicted>>

Handler(p) ==
    \/ Start(p)
    \/ RateLimit(p)
    \/ AcquireRead(p)
    \/ CheckCache(p)
    \/ AcquireWrite(p)
    \/ Recheck(p)
    \/ Fetch(p)

Next ==
    \/ \E p \in Proc : Handler(p)
    \/ Tick

(* Tokio schedules every ready task, and its RwLock queues waiters fairly, *)
(* so a task that keeps being able to take a guard eventually takes it.   *)
Fairness ==
    \A p \in Proc :
        /\ WF_vars(RateLimit(p) \/ CheckCache(p) \/ Recheck(p) \/ Fetch(p))
        /\ SF_vars(AcquireRead(p))
        /\ SF_vars(AcquireWrite(p))

Spec == Init /\ [][Next]_vars /\ Fairness

-----------------------------------------------------------------------------
(* Properties *)

(* Bounded staleness, the cache's promise: a list served to a request made *)
(* at time t was read from the authorizer no earlier than t minus          *)
(* cache_validity_length, even when the refreshing task captured its time  *)
(* long before it got the write guard (allowed_signers, write-back of      *)
(* expiry_timestamp).                                                      *)
BoundedStaleness ==
    \A p \in Proc :
        resp[p].status = "signers" => t[p] <= resp[p].fetchedAt + Validity

(* The cache's expiry never moves backwards: a task that captured an older *)
(* current_time and waited for the write guard must not overwrite a newer  *)
(* refresh (the re-check under the write guard in allowed_signers).        *)
ExpiryMonotonic == [][cache'.expiry >= cache.expiry]_vars

(* A caller is told RESOURCE_EXHAUSTED only if some earlier request of the *)
(* same identity was pushed to the limiter less than rate_limit_cooldown   *)
(* before this request's time (is_rate_limited).                           *)
DenialJustified ==
    [][\A p \in Proc :
         (pc[p] = "limit" /\ resp'[p].status = "exhausted")
            => pushed[id[p]] # NoPush /\ t[p] < pushed[id[p]] + Cooldown]_vars

(* Every request is answered: no task waits forever on the limiter or on  *)
(* a guard of the cache (allowed_signers drops its read guard before it   *)
(* asks for the write guard).                                             *)
EveryRequestAnswered == \A p \in Proc : pc[p] = "limit" ~> pc[p] = "idle"

(* Spec property 5: two admitted requests of one identity are at least    *)
(* rate_limit_cooldown apart unless the limiter evicted that identity.    *)
RateLimitSpacing ==
    \A a, b \in admitted :
        (a[1] = b[1] /\ a # b /\ a[1] \notin evicted)
            => (a[2] - b[2] >= Cooldown \/ b[2] - a[2] >= Cooldown)

(* Spec property 4: responses served within cache_validity_length of the  *)
(* previous refresh carry the same list, so a refresh (a fetch that        *)
(* replaces an earlier fetched list; fetchedAt 0 is the startup cache) is   *)
(* never followed by another within cache_validity_length of it            *)
(* (allowed_signers, expiry_timestamp = current_time + validity).          *)
RefreshSpacing ==
    [][cache'.fetchedAt # cache.fetchedAt /\ cache.fetchedAt > 0
         => cache'.fetchedAt > cache.fetchedAt + Validity]_vars

-----------------------------------------------------------------------------
(* The strengthening of BoundedStaleness and ExpiryMonotonic that TLAPS     *)
(* proves inductive (AllowedSignersProofs).                                 *)

\* current_time is read from the clock, so no task's time is in the future.
ClockInv == \A p \in Proc : t[p] <= now

\* The cached list was read no earlier than its writer's current_time.
CacheInv ==
    /\ cache.expiry <= cache.fetchedAt + Validity
    /\ cache.fetchedAt <= now

\* The guards of the cache are held exactly by the tasks between their
\* acquisition and release, and never a read and the write guard at once.
LockInv ==
    /\ \A p \in Proc : (writer = p) <=> (pc[p] \in {"recheck", "fetch"})
    /\ \A p \in Proc : (p \in readers) <=> (pc[p] = "check")
    /\ writer # None => readers = {}

\* A task about to call the authorizer has seen the cache expired under
\* the write guard it still holds.
FetchInv == \A p \in Proc : pc[p] = "fetch" => cache.expiry < t[p]

IInv ==
    /\ TypeOK
    /\ ClockInv
    /\ CacheInv
    /\ LockInv
    /\ FetchInv
    /\ BoundedStaleness
=============================================================================
