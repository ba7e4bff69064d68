--------------------------- MODULE LimiterProofs ----------------------------
(* Proofs about the rate limiter of the AllowedSigners handler             *)
(* (is_rate_limited, src/rustica/src/server.rs), for all values of the     *)
(* constants: a RESOURCE_EXHAUSTED answer is always based on an earlier    *)
(* push of the caller's own identity.                                      *)
EXTENDS AllowedSignersProofs

\* The entries of a sequence.
Entries(s) == {s[i] : i \in 1 .. Len(s)}

(* Every entry of the limiter is the push of an identity that was pushed,  *)
(* with a deadline no later than its latest pushed current_time plus the   *)
(* cooldown.                                                               *)
LruInv ==
    \A e \in Entries(lru) :
        /\ pushed[e[1]] # NoPush
        /\ e[2] <= pushed[e[1]] + Cooldown

\* A task at the limiter has not answered its request yet.
LimitInv == \A p \in Proc : pc[p] = "limit" => resp[p].status = "none"

DInv == TypeOK /\ LruInv /\ LimitInv

-----------------------------------------------------------------------------
(* Appending adds exactly the new element to the entries.                  *)
LEMMA EntriesAppend ==
    ASSUME NEW S, NEW s \in Seq(S), NEW e \in S
    PROVE  Entries(Append(s, e)) \subseteq Entries(s) \cup {e}
<1>1. /\ Len(Append(s, e)) = Len(s) + 1
      /\ \A i \in 1 .. Len(s) : Append(s, e)[i] = s[i]
      /\ Append(s, e)[Len(s) + 1] = e
    BY AppendProperties
<1>. QED  BY <1>1 DEF Entries

(* Dropping the first element keeps only old entries.                      *)
LEMMA EntriesTail ==
    ASSUME NEW S, NEW s \in Seq(S), s # << >>
    PROVE  Entries(Tail(s)) \subseteq Entries(s)
<1>1. /\ Len(Tail(s)) = Len(s) - 1
      /\ \A i \in 1 .. Len(Tail(s)) : Tail(s)[i] = s[i + 1]
    BY HeadTailProperties
<1>. QED  BY <1>1 DEF Entries

(* Removing the element at index i keeps only old entries.                 *)
LEMMA EntriesRemoveAt ==
    ASSUME NEW S, NEW s \in Seq(S), NEW i \in 1 .. Len(s)
    PROVE  /\ RemoveAt(s, i) \in Seq(S)
           /\ Entries(RemoveAt(s, i)) \subseteq Entries(s)
<1>. DEFINE a == SubSeq(s, 1, i - 1)
            b == SubSeq(s, i + 1, Len(s))
<1>1. /\ a \in Seq(S) /\ Len(a) = i - 1
      /\ \A j \in 1 .. i - 1 : a[j] = s[j]
    BY SubSeqProperties
<1>2. /\ b \in Seq(S) /\ Len(b) = Len(s) - i
      /\ \A j \in 1 .. Len(s) - i : b[j] = s[i + j]
    <2>1. \A j \in i + 1 .. Len(s) : s[j] \in S
        OBVIOUS
    <2>. QED  BY <2>1, SubSeqProperties
<1>3. /\ a \o b \in Seq(S)
      /\ Len(a \o b) = Len(a) + Len(b)
      /\ \A j \in 1 .. Len(a) + Len(b) :
            (a \o b)[j] = IF j <= Len(a) THEN a[j] ELSE b[j - Len(a)]
    BY <1>1, <1>2, ConcatProperties
<1>4. RemoveAt(s, i) = a \o b
    BY DEF RemoveAt
<1>5. \A j \in 1 .. Len(a \o b) : (a \o b)[j] \in Entries(s)
    <2>. SUFFICES ASSUME NEW j \in 1 .. Len(a \o b) PROVE (a \o b)[j] \in Entries(s)
        OBVIOUS
    <2>. HIDE DEF a, b
    <2>0. PICK n \in Nat : n = Len(s)
        OBVIOUS
    <2>1. j \in 1 .. (i - 1) + (n - i)
        BY <1>1, <1>2, <1>3, <2>0
    <2>2. CASE j <= i - 1
        <3>1. (a \o b)[j] = s[j]
            BY <1>1, <1>3, <2>1, <2>2
        <3>. QED  BY <3>1, <2>0, <2>1 DEF Entries
    <2>3. CASE j > i - 1
        <3>. DEFINE m == j - (i - 1)
        <3>1. m \in 1 .. n - i /\ i + m \in 1 .. n
            BY <2>1, <2>3, <2>0
        <3>2. (a \o b)[j] = b[m]
            BY <1>1, <1>3, <2>1, <2>3
        <3>3. b[m] = s[i + m]
            BY <1>2, <2>0, <3>1
        <3>. QED  BY <3>1, <3>2, <3>3, <2>0 DEF Entries
    <2>. QED  BY <2>2, <2>3
<1>. QED  BY <1>3, <1>4, <1>5 DEF Entries

(* LruCache::push: the new limiter holds old entries and the pushed one,   *)
(* and the entry it returns is an old one.                                 *)
LEMMA LruPushEntries ==
    ASSUME NEW s \in Seq(Identity \X Nat), Len(s) <= Capacity,
           NEW k \in Identity, NEW v \in Nat
    PROVE  /\ Entries(LruPush(s, k, v).lru) \subseteq Entries(s) \cup {<<k, v>>}
           /\ LruPush(s, k, v).removed \in Entries(s) \cup {None}
<1>0. <<k, v>> \in Identity \X Nat
    OBVIOUS
<1>1. CASE \E i \in 1..Len(s) : s[i][1] = k
    <2>1. PICK i \in 1..Len(s) : LruPush(s, k, v)
                 = [lru |-> Append(RemoveAt(s, i), <<k, v>>), removed |-> s[i]]
        BY <1>1 DEF LruPush
    <2>2. RemoveAt(s, i) \in Seq(Identity \X Nat)
          /\ Entries(RemoveAt(s, i)) \subseteq Entries(s)
        BY EntriesRemoveAt
    <2>3. Entries(Append(RemoveAt(s, i), <<k, v>>)) \subseteq Entries(RemoveAt(s, i)) \cup {<<k, v>>}
        BY <1>0, <2>2, EntriesAppend
    <2>4. LruPush(s, k, v).lru = Append(RemoveAt(s, i), <<k, v>>)
          /\ LruPush(s, k, v).removed = s[i]
        BY <2>1
    <2>5. s[i] \in Entries(s)
        BY DEF Entries
    <2>. QED  BY <2>2, <2>3, <2>4, <2>5, Zenon
<1>2. CASE ~(\E i \in 1..Len(s) : s[i][1] = k) /\ Len(s) = Capacity
    <2>1. LruPush(s, k, v) = [lru |-> Append(Tail(s), <<k, v>>), removed |-> Head(s)]
        BY <1>2 DEF LruPush
    <2>2. s # << >>
        BY <1>2, ConstantsAssumption
    <2>6. Tail(s) \in Seq(Identity \X Nat) /\ Head(s) = s[1]
        BY <2>2, HeadTailProperties
    <2>3. Entries(Tail(s)) \subseteq Entries(s)
        BY <2>2, EntriesTail
    <2>4. Entries(Append(Tail(s), <<k, v>>)) \subseteq Entries(Tail(s)) \cup {<<k, v>>}
        BY <1>0, <2>6, EntriesAppend
    <2>5. Head(s) \in Entries(s)
        BY <2>2, <2>6 DEF Entries
    <2>7. LruPush(s, k, v).lru = Append(Tail(s), <<k, v>>)
          /\ LruPush(s, k, v).removed = Head(s)
        BY <2>1
    <2>. QED  BY <2>3, <2>4, <2>5, <2>7, Zenon
<1>3. CASE ~(\E i \in 1..Len(s) : s[i][1] = k) /\ Len(s) # Capacity
    <2>1. LruPush(s, k, v) = [lru |-> Append(s, <<k, v>>), removed |-> None]
        BY <1>3 DEF LruPush
    <2>2. LruPush(s, k, v).lru = Append(s, <<k, v>>)
          /\ LruPush(s, k, v).removed = None
        BY <2>1
    <2>3. Entries(Append(s, <<k, v>>)) \subseteq Entries(s) \cup {<<k, v>>}
        BY <1>0, EntriesAppend
    <2>. QED  BY <2>2, <2>3, Zenon
<1>. QED  BY <1>1, <1>2, <1>3

-----------------------------------------------------------------------------
(* The limiter invariant holds initially and is kept by every step.        *)
LEMMA InitDInv == Init => DInv
<1>. SUFFICES ASSUME Init PROVE DInv
    OBVIOUS
<1>1. TypeOK
    BY InitTypeOK
<1>2. Entries(lru) = {}
    BY DEF Init, Entries
<1>. QED  BY <1>1, <1>2 DEF DInv, LruInv, LimitInv, Init, NoResp

(* is_rate_limited pushes the caller with deadline current_time plus the   *)
(* cooldown and records its current_time; older entries keep their bound.  *)
LEMMA RateLimitLruInv ==
    ASSUME DInv, NEW p \in Proc, RateLimit(p)
    PROVE  LruInv'
<1>. DEFINE k == id[p]
            push == LruPush(lru, k, t[p] + Cooldown)
<1>1. k \in Identity /\ t[p] \in Time /\ t[p] + Cooldown \in Nat
    BY ConstantsAssumption DEF DInv, TypeOK, Time
<1>2. Entries(push.lru) \subseteq Entries(lru) \cup {<<k, t[p] + Cooldown>>}
    BY <1>1, LruPushEntries DEF DInv, TypeOK
<1>3. lru' = push.lru
    BY DEF RateLimit
<1>4. /\ pushed'[k] # NoPush
      /\ pushed'[k] >= t[p]
      /\ \A i \in Identity : pushed[i] # NoPush => pushed'[i] # NoPush /\ pushed'[i] >= pushed[i]
    BY <1>1 DEF RateLimit, DInv, TypeOK, Time, NoPush
<1>. SUFFICES ASSUME NEW e \in Entries(lru')
              PROVE  pushed'[e[1]] # NoPush /\ e[2] <= pushed'[e[1]] + Cooldown
    BY DEF LruInv
<1>5. CASE e = <<k, t[p] + Cooldown>>
    <2>1. e[1] = k /\ e[2] = t[p] + Cooldown
        BY <1>5
    <2>2. pushed'[k] \in Int
        BY <1>1 DEF RateLimit, DInv, TypeOK, Time, NoPush
    <2>. QED  BY <1>1, <1>4, <2>1, <2>2, ConstantsAssumption DEF Time
<1>6. CASE e \in Entries(lru)
    <2>1. e[1] \in Identity /\ e[2] \in Nat
        BY <1>6 DEF DInv, TypeOK, Entries
    <2>2. pushed[e[1]] # NoPush /\ e[2] <= pushed[e[1]] + Cooldown
        BY <1>6 DEF DInv, LruInv
    <2>3. pushed[e[1]] \in Int /\ pushed'[e[1]] \in Int /\ Cooldown \in Nat
        BY <2>1, ConstantsAssumption DEF RateLimit, DInv, TypeOK, Time, NoPush
    <2>. QED  BY <1>4, <2>1, <2>2, <2>3
<1>. QED  BY <1>2, <1>3, <1>5, <1>6

LEMMA NextDInv == DInv /\ [Next]_vars => DInv'
<1>. SUFFICES ASSUME DInv, [Next]_vars PROVE DInv'
    OBVIOUS
<1>0. TypeOK'
    BY NextTypeOK DEF DInv
<1>1. ASSUME NEW p \in Proc, Start(p) PROVE DInv'
    <2>1. LruInv'
        BY <1>1 DEF Start, DInv, LruInv, Entries
    <2>2. LimitInv'
        BY <1>1 DEF Start, DInv, LimitInv, TypeOK, NoResp
    <2>. QED  BY <1>0, <2>1, <2>2 DEF DInv
<1>2. ASSUME NEW p \in Proc, RateLimit(p) PROVE DInv'
    <2>1. LruInv'
        BY <1>2, RateLimitLruInv
    <2>2. LimitInv'
        <3>1. pc'[p] # "limit"
            BY <1>2 DEF RateLimit, Respond, DInv, TypeOK
        <3>2. \A q \in Proc \ {p} : pc'[q] = pc[q] /\ resp'[q] = resp[q]
            BY <1>2 DEF RateLimit, Respond, DInv, TypeOK
        <3>. QED  BY <3>1, <3>2 DEF DInv, LimitInv
    <2>. QED  BY <1>0, <2>1, <2>2 DEF DInv
<1>3. ASSUME NEW p \in Proc, \/ AcquireRead(p) \/ CheckCache(p) \/ AcquireWrite(p)
                             \/ Recheck(p) \/ Fetch(p)
      PROVE DInv'
    <2>1. UNCHANGED <<lru, pushed>>
        BY <1>3 DEF AcquireRead, CheckCache, AcquireWrite, Recheck, Fetch
    <2>2. pc[p] # "limit" /\ pc'[p] # "limit"
        BY <1>3 DEF AcquireRead, CheckCache, AcquireWrite, Recheck, Fetch,
                    Serve, Respond, DInv, TypeOK
    <2>3. \A q \in Proc \ {p} : pc'[q] = pc[q] /\ resp'[q] = resp[q]
        BY <1>3 DEF AcquireRead, CheckCache, AcquireWrite, Recheck, Fetch,
                    Serve, Respond, DInv, TypeOK
    <2>. QED  BY <1>0, <2>1, <2>2, <2>3 DEF DInv, LruInv, LimitInv, Entries
<1>4. CASE Tick
    BY <1>0, <1>4 DEF Tick, DInv, LruInv, LimitInv, Entries
<1>5. CASE UNCHANGED vars
    BY <1>5 DEF vars, DInv, LruInv, LimitInv, Entries, TypeOK
<1>. QED  BY <1>1, <1>2, <1>3, <1>4, <1>5 DEF Next, Handler

-----------------------------------------------------------------------------
\* The body of DenialJustified, as a formula of one step.
DenialJustifiedStep ==
    \A p \in Proc :
        (pc[p] = "limit" /\ resp'[p].status = "exhausted")
            => pushed[id[p]] # NoPush /\ t[p] < pushed[id[p]] + Cooldown

(* The denying step: the entry LruCache::push returned for the caller was *)
(* in the limiter, so its deadline bounds the caller's latest push.        *)
LEMMA RateLimitDenial ==
    ASSUME DInv, NEW p \in Proc, RateLimit(p),
           RateLimited(LruPush(lru, id[p], t[p] + Cooldown).removed, id[p], t[p])
    PROVE  pushed[id[p]] # NoPush /\ t[p] < pushed[id[p]] + Cooldown
<1>. DEFINE k == id[p]
            r == LruPush(lru, k, t[p] + Cooldown).removed
<1>1. k \in Identity /\ t[p] \in Time /\ t[p] + Cooldown \in Nat
    BY ConstantsAssumption DEF DInv, TypeOK, Time
<1>2. r \in Entries(lru) \cup {None}
    BY <1>1, LruPushEntries DEF DInv, TypeOK
<1>3. r # None /\ r[1] = k /\ t[p] < r[2]
    BY DEF RateLimited
<1>4. r \in Entries(lru)
    BY <1>2, <1>3
<1>5. pushed[k] # NoPush /\ r[2] <= pushed[k] + Cooldown
    BY <1>3, <1>4 DEF DInv, LruInv
<1>6. r[2] \in Nat /\ pushed[k] \in Int
    <2>1. r \in Identity \X Nat
        <3>1. PICK j \in 1 .. Len(lru) : r = lru[j]
            BY <1>4 DEF Entries
        <3>. QED  BY <3>1 DEF DInv, TypeOK
    <2>2. pushed[k] \in Time \cup {NoPush}
        BY <1>1 DEF DInv, TypeOK
    <2>. QED  BY <2>1, <2>2 DEF Time, NoPush
<1>. QED  BY <1>1, <1>3, <1>5, <1>6, ConstantsAssumption DEF Time

(* A step denies a task only from is_rate_limited of that task; any other *)
(* step leaves an unanswered task unanswered.                              *)
LEMMA DenialStep == DInv /\ [Next]_vars => DenialJustifiedStep
<1>. SUFFICES ASSUME DInv, [Next]_vars, NEW p \in Proc,
                     pc[p] = "limit", resp'[p].status = "exhausted"
              PROVE  pushed[id[p]] # NoPush /\ t[p] < pushed[id[p]] + Cooldown
    BY DEF DenialJustifiedStep
<1>0. resp[p].status = "none"
    BY DEF DInv, LimitInv
<1>1. CASE RateLimit(p)
    <2>1. RateLimited(LruPush(lru, id[p], t[p] + Cooldown).removed, id[p], t[p])
        <3>. SUFFICES ASSUME ~RateLimited(LruPush(lru, id[p], t[p] + Cooldown).removed, id[p], t[p])
                      PROVE  FALSE
            OBVIOUS
        <3>. QED  BY <1>0, <1>1 DEF RateLimit
    <2>. QED  BY <1>1, <2>1, RateLimitDenial
<1>2. ASSUME NEW q \in Proc, Start(q) PROVE FALSE
    BY <1>0, <1>2 DEF Start, DInv, TypeOK, NoResp
<1>3. ASSUME NEW q \in Proc, q # p, RateLimit(q) PROVE FALSE
    BY <1>0, <1>3 DEF RateLimit, Respond, DInv, TypeOK
<1>4. ASSUME NEW q \in Proc, \/ AcquireRead(q) \/ CheckCache(q) \/ AcquireWrite(q)
                             \/ Recheck(q) \/ Fetch(q)
      PROVE FALSE
    <2>1. q # p
        BY <1>4 DEF AcquireRead, CheckCache, AcquireWrite, Recheck, Fetch
    <2>. QED  BY <1>0, <1>4, <2>1 DEF AcquireRead, CheckCache, AcquireWrite, Recheck,
                                      Fetch, Serve, Respond, DInv, TypeOK
<1>5. CASE Tick \/ UNCHANGED vars
    BY <1>0, <1>5 DEF Tick, vars
<1>. QED  BY <1>1, <1>2, <1>3, <1>4, <1>5 DEF Next, Handler

(* is_rate_limited answers RESOURCE_EXHAUSTED only to a caller whose own   *)
(* identity was pushed less than rate_limit_cooldown before the request's  *)
(* current_time, for every limiter size, cooldown and set of tasks.        *)
THEOREM DenialJustifiedHolds == Spec => DenialJustified
<1>1. Init => DInv
    BY InitDInv
<1>2. DInv /\ [Next]_vars => DInv'
    BY NextDInv
<1>3. DInv /\ [Next]_vars => [DenialJustifiedStep]_vars
    BY DenialStep
<1>. QED  BY <1>1, <1>2, <1>3, PTL DEF Spec, DenialJustified, DenialJustifiedStep
=============================================================================
