------------------------ MODULE AllowedSignersProofs ------------------------
(* Proofs about the AllowedSigners handler, for all values of the constants. *)
EXTENDS AllowedSigners, SequenceTheorems, TLAPS

USE ConstantsAssumption

(* LruCache::push keeps the limiter a sequence of entries no longer than  *)
(* its capacity, and returns either nothing or one of its entries.        *)
LEMMA LruPushType ==
    ASSUME NEW s \in Seq(Identity \X Nat), Len(s) <= Capacity,
           NEW k \in Identity, NEW v \in Nat
    PROVE  /\ LruPush(s, k, v).lru \in Seq(Identity \X Nat)
           /\ Len(LruPush(s, k, v).lru) <= Capacity
           /\ LruPush(s, k, v).removed \in (Identity \X Nat) \cup {None}
<1>1. CASE \E i \in 1..Len(s) : s[i][1] = k
    <2>1. PICK i \in 1..Len(s) : LruPush(s, k, v)
                 = [lru |-> Append(RemoveAt(s, i), <<k, v>>), removed |-> s[i]]
        BY <1>1 DEF LruPush
    <2>2. RemoveAt(s, i) \in Seq(Identity \X Nat) /\ Len(RemoveAt(s, i)) = Len(s) - 1
        <3>0. \A j \in 1..Len(s) : s[j] \in Identity \X Nat
            OBVIOUS
        <3>1. /\ SubSeq(s, 1, i-1) \in Seq(Identity \X Nat)
              /\ Len(SubSeq(s, 1, i-1)) = i-1
            BY <3>0, SubSeqProperties
        <3>2. /\ SubSeq(s, i+1, Len(s)) \in Seq(Identity \X Nat)
              /\ Len(SubSeq(s, i+1, Len(s))) = Len(s) - i
            <4>1. \A j \in i+1..Len(s) : s[j] \in Identity \X Nat
                BY <3>0
            <4>2. Len(s) \in Int /\ i+1 \in Int
                OBVIOUS
            <4>. QED  BY <4>1, <4>2, SubSeqProperties
        <3>3. RemoveAt(s, i) = SubSeq(s, 1, i-1) \o SubSeq(s, i+1, Len(s))
            BY DEF RemoveAt
        <3>4. /\ SubSeq(s, 1, i-1) \o SubSeq(s, i+1, Len(s)) \in Seq(Identity \X Nat)
              /\ Len(SubSeq(s, 1, i-1) \o SubSeq(s, i+1, Len(s)))
                   = Len(SubSeq(s, 1, i-1)) + Len(SubSeq(s, i+1, Len(s)))
            BY <3>1, <3>2, ConcatProperties
        <3>5. RemoveAt(s, i) \in Seq(Identity \X Nat)
            BY <3>3, <3>4
        <3>6. Len(RemoveAt(s, i)) = Len(s) - 1
            <4> DEFINE a == Len(SubSeq(s, 1, i-1))
                       b == Len(SubSeq(s, i+1, Len(s)))
            <4>1. a = i-1 /\ b = Len(s) - i /\ Len(RemoveAt(s, i)) = a + b
                BY <3>1, <3>2, <3>3, <3>4
            <4> HIDE DEF a, b
            <4>. QED  BY <4>1
        <3>. QED  BY <3>5, <3>6
    <2>. QED  BY <2>1, <2>2
<1>2. CASE ~(\E i \in 1..Len(s) : s[i][1] = k) /\ Len(s) = Capacity
    <2>1. LruPush(s, k, v) = [lru |-> Append(Tail(s), <<k, v>>), removed |-> Head(s)]
        BY <1>2 DEF LruPush
    <2>2. s # << >>
        BY <1>2
    <2>. QED  BY <2>1, <2>2
<1>3. CASE ~(\E i \in 1..Len(s) : s[i][1] = k) /\ Len(s) # Capacity
    <2>1. LruPush(s, k, v) = [lru |-> Append(s, <<k, v>>), removed |-> None]
        BY <1>3 DEF LruPush
    <2>. QED  BY <2>1, <1>3
<1>. QED  BY <1>1, <1>2, <1>3

-----------------------------------------------------------------------------
(* Type correctness: every step of a handler task keeps each variable in   *)
(* its type; the limiter stays within lru_rate_limiter_size entries.       *)
LEMMA InitTypeOK == Init => TypeOK
BY DEF Init, TypeOK, Time, NoResp, Status, PC, NoPush

LEMMA RateLimitTypeOK ==
    ASSUME TypeOK, NEW p \in Proc, RateLimit(p)
    PROVE  TypeOK'
<1> DEFINE push == LruPush(lru, id[p], t[p] + Cooldown)
<1>1. /\ push.lru \in Seq(Identity \X Nat)
      /\ Len(push.lru) <= Capacity
      /\ push.removed \in (Identity \X Nat) \cup {None}
    <2>1. t[p] + Cooldown \in Nat /\ id[p] \in Identity
        BY DEF TypeOK, Time
    <2>. QED  BY <2>1, LruPushType DEF TypeOK
<1>2. lru' = push.lru
    BY DEF RateLimit
<1>3. pushed' \in [Identity -> Time \cup {NoPush}]
    BY DEF RateLimit, TypeOK, Time
<1>4. evicted' \subseteq Identity
    BY <1>1 DEF RateLimit, TypeOK
<1>5. /\ pc' \in [Proc -> PC]
      /\ resp' \in [Proc -> [status : Status, fetchedAt : Time]]
      /\ admitted' \subseteq Identity \X Time
    <2>1. CASE RateLimited(push.removed, id[p], t[p])
        <3>1. [NoResp EXCEPT !.status = "exhausted"] \in [status : Status, fetchedAt : Time]
            BY DEF NoResp, Status, Time
        <3>2. /\ resp' = [resp EXCEPT ![p] = [NoResp EXCEPT !.status = "exhausted"]]
              /\ pc' = [pc EXCEPT ![p] = "idle"]
              /\ admitted' = admitted
            BY <2>1 DEF RateLimit, Respond
        <3>. QED  BY <3>1, <3>2 DEF TypeOK, PC
    <2>3. CASE ~RateLimited(push.removed, id[p], t[p])
        <3>1. /\ resp' = resp
              /\ pc' = [pc EXCEPT ![p] = "read"]
              /\ admitted' = admitted \cup {<<id[p], t[p]>>}
            BY <2>3 DEF RateLimit
        <3>. QED  BY <3>1 DEF TypeOK, PC
    <2>. QED  BY <2>1, <2>3
<1>6. UNCHANGED <<now, cache, readers, writer, t, id>>
    BY DEF RateLimit
<1>. QED  BY <1>1, <1>2, <1>3, <1>4, <1>5, <1>6 DEF TypeOK

LEMMA NextTypeOK == TypeOK /\ [Next]_vars => TypeOK'
<1> SUFFICES ASSUME TypeOK, [Next]_vars PROVE TypeOK'
    OBVIOUS
<1>1. ASSUME NEW p \in Proc, Start(p) PROVE TypeOK'
    BY <1>1 DEF Start, TypeOK, Time, NoResp, Status, PC
<1>2. ASSUME NEW p \in Proc, RateLimit(p) PROVE TypeOK'
    BY <1>2, RateLimitTypeOK
<1>3. ASSUME NEW p \in Proc, AcquireRead(p) PROVE TypeOK'
    BY <1>3 DEF AcquireRead, TypeOK, PC
<1>4. ASSUME NEW p \in Proc, CheckCache(p) PROVE TypeOK'
    <2>1. CASE Fresh(t[p])
        <3>1. /\ resp' = [resp EXCEPT ![p] = [status |-> "signers", fetchedAt |-> cache.fetchedAt]]
              /\ pc' = [pc EXCEPT ![p] = "idle"]
              /\ readers' = readers \ {p}
              /\ UNCHANGED <<now, lru, cache, writer, t, id, pushed, admitted, evicted>>
            BY <1>4, <2>1 DEF CheckCache, Serve, Respond
        <3>. QED  BY <3>1 DEF TypeOK, PC, Status
    <2>2. CASE ~Fresh(t[p])
        BY <1>4, <2>2 DEF CheckCache, TypeOK, PC
    <2>. QED  BY <2>1, <2>2
<1>5. ASSUME NEW p \in Proc, AcquireWrite(p) PROVE TypeOK'
    BY <1>5 DEF AcquireWrite, TypeOK, PC
<1>6. ASSUME NEW p \in Proc, Recheck(p) PROVE TypeOK'
    <2>1. CASE Fresh(t[p])
        BY <1>6, <2>1 DEF Recheck, Serve, Respond, TypeOK, PC, Status
    <2>2. CASE ~Fresh(t[p])
        BY <1>6, <2>2 DEF Recheck, TypeOK, PC
    <2>. QED  BY <2>1, <2>2
<1>7. ASSUME NEW p \in Proc, Fetch(p) PROVE TypeOK'
    <2>1. [NoResp EXCEPT !.status = "denied"] \in [status : Status, fetchedAt : Time]
        BY DEF NoResp, Status, Time
    <2>2. t[p] + Validity \in Nat /\ now \in Time
        BY DEF TypeOK, Time
    <2>3. CASE /\ Respond(p, [NoResp EXCEPT !.status = "denied"])
               /\ UNCHANGED cache
        BY <1>7, <2>1, <2>3 DEF Fetch, Respond, TypeOK, PC
    <2>4. CASE /\ cache' = [expiry |-> t[p] + Validity, fetchedAt |-> now]
               /\ Respond(p, [status |-> "signers", fetchedAt |-> now])
        BY <1>7, <2>2, <2>4 DEF Fetch, Respond, TypeOK, PC, Status
    <2>. QED  BY <1>7, <2>3, <2>4 DEF Fetch
<1>8. CASE Tick
    BY <1>8 DEF Tick, TypeOK, Time
<1>9. CASE UNCHANGED vars
    BY <1>9 DEF vars, TypeOK
<1>. QED  BY <1>1, <1>2, <1>3, <1>4, <1>5, <1>6, <1>7, <1>8, <1>9 DEF Next, Handler

THEOREM TypeCorrect == Spec => []TypeOK
BY InitTypeOK, NextTypeOK, PTL DEF Spec

-----------------------------------------------------------------------------
(* Bounded staleness.  IInv (AllowedSigners) strengthens BoundedStaleness   *)
(* with the facts a served list depends on: current_time is never in the  *)
(* future, the cache's expiry is at most cache_validity_length after the  *)
(* list was read, the guards are held exactly by the tasks in between, and *)
(* a task calling the authorizer has seen the cache expired.               *)

Rest == ClockInv /\ CacheInv /\ LockInv /\ FetchInv /\ BoundedStaleness

LEMMA InitIInv == Init => IInv
BY InitTypeOK, ConstantsAssumption
   DEF Init, IInv, ClockInv, CacheInv, LockInv, FetchInv, BoundedStaleness,
       NoResp

LEMMA StartRest ==
    ASSUME IInv, NEW p \in Proc, Start(p) PROVE Rest'
<1>1. /\ pc[p] = "idle"
      /\ t' = [t EXCEPT ![p] = now]
      /\ pc' = [pc EXCEPT ![p] = "limit"]
      /\ resp' = [resp EXCEPT ![p] = NoResp]
      /\ UNCHANGED <<now, cache, readers, writer>>
    BY DEF Start
<1>2. ClockInv' /\ CacheInv'
    BY <1>1 DEF IInv, TypeOK, ClockInv, CacheInv, Time
<1>3. LockInv' /\ FetchInv'
    BY <1>1 DEF IInv, TypeOK, LockInv, FetchInv
<1>4. BoundedStaleness'
    BY <1>1 DEF IInv, TypeOK, BoundedStaleness, NoResp
<1>. QED  BY <1>2, <1>3, <1>4 DEF Rest

LEMMA RateLimitRest ==
    ASSUME IInv, NEW p \in Proc, RateLimit(p) PROVE Rest'
<1>1. /\ pc[p] = "limit"
      /\ UNCHANGED <<now, cache, readers, writer, t, id>>
      /\ \/ resp' = [resp EXCEPT ![p] = [NoResp EXCEPT !.status = "exhausted"]]
            /\ pc' = [pc EXCEPT ![p] = "idle"]
         \/ resp' = resp /\ pc' = [pc EXCEPT ![p] = "read"]
    BY DEF RateLimit, Respond
<1>2. ClockInv' /\ CacheInv'
    BY <1>1 DEF IInv, TypeOK, ClockInv, CacheInv
<1>3. LockInv' /\ FetchInv'
    BY <1>1 DEF IInv, TypeOK, LockInv, FetchInv
<1>4. BoundedStaleness'
    BY <1>1 DEF IInv, TypeOK, BoundedStaleness, NoResp
<1>. QED  BY <1>2, <1>3, <1>4 DEF Rest

LEMMA AcquireReadRest ==
    ASSUME IInv, NEW p \in Proc, AcquireRead(p) PROVE Rest'
BY DEF IInv, TypeOK, AcquireRead, Rest, ClockInv, CacheInv, LockInv,
       FetchInv, BoundedStaleness

LEMMA CheckCacheRest ==
    ASSUME IInv, NEW p \in Proc, CheckCache(p) PROVE Rest'
<1>1. CASE Fresh(t[p])
    <2>1. /\ resp' = [resp EXCEPT ![p] = [status |-> "signers",
                                          fetchedAt |-> cache.fetchedAt]]
          /\ pc' = [pc EXCEPT ![p] = "idle"]
          /\ pc[p] = "check"
          /\ readers' = readers \ {p}
          /\ UNCHANGED <<now, lru, cache, writer, t, id>>
        BY <1>1 DEF CheckCache, Serve, Respond
    <2>2. t[p] <= cache.fetchedAt + Validity
        BY <1>1, ConstantsAssumption DEF Fresh, IInv, CacheInv, TypeOK, Time
    <2>. QED  BY <2>1, <2>2 DEF IInv, TypeOK, Rest, ClockInv, CacheInv,
                               LockInv, FetchInv, BoundedStaleness
<1>2. CASE ~Fresh(t[p])
    <2>1. /\ resp' = resp
          /\ pc' = [pc EXCEPT ![p] = "write"]
          /\ pc[p] = "check"
          /\ readers' = readers \ {p}
          /\ UNCHANGED <<now, lru, cache, writer, t, id>>
        BY <1>2 DEF CheckCache
    <2>. QED  BY <2>1 DEF IInv, TypeOK, Rest, ClockInv, CacheInv, LockInv,
                         FetchInv, BoundedStaleness
<1>. QED  BY <1>1, <1>2

LEMMA AcquireWriteRest ==
    ASSUME IInv, NEW p \in Proc, AcquireWrite(p) PROVE Rest'
BY DEF IInv, TypeOK, AcquireWrite, Rest, ClockInv, CacheInv, LockInv,
       FetchInv, BoundedStaleness

LEMMA RecheckRest ==
    ASSUME IInv, NEW p \in Proc, Recheck(p) PROVE Rest'
<1>1. CASE Fresh(t[p])
    <2>1. /\ resp' = [resp EXCEPT ![p] = [status |-> "signers",
                                          fetchedAt |-> cache.fetchedAt]]
          /\ pc' = [pc EXCEPT ![p] = "idle"]
          /\ pc[p] = "recheck"
          /\ writer' = None
          /\ UNCHANGED <<now, lru, cache, readers, t, id>>
        BY <1>1 DEF Recheck, Serve, Respond
    <2>2. t[p] <= cache.fetchedAt + Validity
        BY <1>1, ConstantsAssumption DEF Fresh, IInv, CacheInv, TypeOK, Time
    <2>. QED  BY <2>1, <2>2, ConstantsAssumption
              DEF IInv, TypeOK, Rest, ClockInv, CacheInv, LockInv,
                  FetchInv, BoundedStaleness
<1>2. CASE ~Fresh(t[p])
    <2>1. /\ resp' = resp
          /\ pc' = [pc EXCEPT ![p] = "fetch"]
          /\ pc[p] = "recheck"
          /\ UNCHANGED <<now, lru, cache, readers, writer, t, id>>
        BY <1>2 DEF Recheck
    <2>2. cache.expiry < t[p]
        BY <1>2 DEF Fresh, IInv, TypeOK, Time
    <2>. QED  BY <2>1, <2>2 DEF IInv, TypeOK, Rest, ClockInv, CacheInv,
                               LockInv, FetchInv, BoundedStaleness
<1>. QED  BY <1>1, <1>2

LEMMA FetchRest ==
    ASSUME IInv, NEW p \in Proc, Fetch(p) PROVE Rest'
<1>0. /\ pc[p] = "fetch"
      /\ writer' = None
      /\ pc' = [pc EXCEPT ![p] = "idle"]
      /\ UNCHANGED <<now, lru, readers, t, id>>
    BY DEF Fetch, Respond
<1>1. CASE /\ Respond(p, [NoResp EXCEPT !.status = "denied"])
           /\ UNCHANGED cache
    <2>1. resp' = [resp EXCEPT ![p] = [NoResp EXCEPT !.status = "denied"]]
        BY <1>1 DEF Respond
    <2>. QED  BY <1>0, <1>1, <2>1, ConstantsAssumption
              DEF IInv, TypeOK, Rest, ClockInv, CacheInv, LockInv,
                  FetchInv, BoundedStaleness, NoResp
<1>2. CASE /\ cache' = [expiry |-> t[p] + Validity, fetchedAt |-> now]
           /\ Respond(p, [status |-> "signers", fetchedAt |-> now])
    <2>1. resp' = [resp EXCEPT ![p] = [status |-> "signers", fetchedAt |-> now]]
        BY <1>2 DEF Respond
    <2>2. t[p] <= now
        BY DEF IInv, ClockInv
    <2>. QED  BY <1>0, <1>2, <2>1, <2>2, ConstantsAssumption
              DEF IInv, TypeOK, Rest, ClockInv, CacheInv, LockInv,
                  FetchInv, BoundedStaleness, Time
<1>. QED  BY <1>1, <1>2 DEF Fetch

LEMMA TickRest == ASSUME IInv, Tick PROVE Rest'
BY DEF IInv, TypeOK, Tick, Rest, ClockInv, CacheInv, LockInv, FetchInv,
       BoundedStaleness, Time

LEMMA NextIInv == IInv /\ [Next]_vars => IInv'
<1> SUFFICES ASSUME IInv, [Next]_vars PROVE IInv'
    OBVIOUS
<1>1. TypeOK'
    BY NextTypeOK DEF IInv
<1>2. Rest'
    <2>1. CASE UNCHANGED vars
        BY <2>1 DEF vars, IInv, Rest, ClockInv, CacheInv, LockInv, FetchInv,
                    BoundedStaleness
    <2>2. CASE Next
        BY <2>2, StartRest, RateLimitRest, AcquireReadRest, CheckCacheRest,
           AcquireWriteRest, RecheckRest, FetchRest, TickRest
        DEF Next, Handler
    <2>. QED  BY <2>1, <2>2
<1>. QED  BY <1>1, <1>2 DEF IInv, Rest

(* THEOREM: every list the AllowedSigners handler serves to a request made *)
(* at time t was read from the authorizer at t - cache_validity_length or  *)
(* later, for every number of tasks, identities and every configuration.  *)
THEOREM Staleness == Spec => []BoundedStaleness
<1>1. IInv => BoundedStaleness
    BY DEF IInv
<1>. QED  BY InitIInv, NextIInv, <1>1, PTL DEF Spec

(* THEOREM: the cache's expiry never decreases, because the write-back of  *)
(* allowed_signers happens only after the re-check under the write guard. *)
THEOREM ExpiryNeverDecreases == Spec => ExpiryMonotonic
<1>1. IInv /\ [Next]_vars => cache'.expiry >= cache.expiry \/ UNCHANGED vars
    <2> SUFFICES ASSUME IInv, [Next]_vars
                 PROVE  cache'.expiry >= cache.expiry \/ UNCHANGED vars
        OBVIOUS
    <2>0. cache.expiry \in Nat
        BY DEF IInv, TypeOK
    <2>1. ASSUME NEW p \in Proc, Fetch(p)
          PROVE  cache'.expiry >= cache.expiry
        <3>1. pc[p] = "fetch"
            BY <2>1 DEF Fetch
        <3>2. cache.expiry < t[p] /\ cache.expiry \in Nat /\ t[p] \in Nat
            BY <3>1 DEF IInv, FetchInv, TypeOK, Time
        <3>. QED  BY <2>1, <3>2, ConstantsAssumption DEF Fetch
    <2>2. CASE UNCHANGED vars
        BY <2>2
    <2>3. ASSUME NEW p \in Proc, Handler(p) /\ ~Fetch(p)
          PROVE  cache' = cache
        BY <2>3 DEF Handler, Start, RateLimit, AcquireRead, CheckCache,
                    AcquireWrite, Recheck
    <2>4. CASE Tick
        BY <2>0, <2>4 DEF Tick
    <2>. QED  BY <2>0, <2>1, <2>2, <2>3, <2>4 DEF Next
<1>. QED  BY InitIInv, NextIInv, <1>1, PTL DEF Spec, ExpiryMonotonic
=============================================================================
