------------------------- MODULE SigningKeysProofs -------------------------
(***************************************************************************)
(* What TLAPS proves of SigningKeys, for every number of threads, urls and *)
(* kids, however their cache keys are spelled, every lifespan and latency, *)
(* and a clock and histories of any length.                                *)
(*                                                                         *)
(* None of the properties is inductive alone.  NoReloadWhileGood rests on  *)
(* MissWhileLoading: what the second look-up has seen stays true until the *)
(* set is stored, because nobody else stores meanwhile.  AnswersAreRecent  *)
(* follows a key set from the response (LoadsAreRecent) into the cache     *)
(* (CacheIsRecent) and out of it, and SpelledAlike the url it came from.   *)
(***************************************************************************)
EXTENDS SigningKeys, SequenceTheorems, TLAPS

(* Of key sets published at the given times, the n-th, had at time t, was  *)
(* not withdrawn longer ago than d.                                        *)
Within(times, n, t, d) ==
    /\ n <= Len(times)
    /\ n < Len(times) => t <= times[n + 1] + d

MissWhileLoading == \A t \in Caller : pc[t] \in {"load", "store"} => ~Hit(KeyAsked(t))

LoadsAreRecent ==
    \A t \in Caller :
        /\ pc[t] \in {"load", "store"} => since[t] <= now /\ now <= since[t] + MaxLatency
        /\ pc[t] = "store" => Within(publishedAt[asked[t][1]], fetched[t], since[t], 0)

CacheIsRecent ==
    \A k \in Key : cache[k].keys # 0 =>
        /\ Lifespan > 0
        /\ cache[k].expires <= now + Lifespan
        /\ Within(publishedAt[cache[k].url], cache[k].keys, cache[k].expires,
                  Lifespan + MaxLatency)

AnswersWithin ==
    \A t \in Caller : pc[t] = "idle" /\ answer[t] # 0 =>
        /\ Lifespan > 0
        /\ answeredAt[t] <= now
        /\ Within(publishedAt[publisher[t]], answer[t], answeredAt[t] + 1, Lifespan + MaxLatency)

(* A cached set is of a url that spells the key it is cached under, and so *)
(* is the set a thread was given.                                          *)
SpelledAlike ==
    /\ \A k \in Key : cache[k].keys # 0 => Spells(cache[k].url, k)
    /\ \A t \in Caller : pc[t] = "idle" /\ answer[t] # 0 => Spells(publisher[t], KeyAsked(t))

IInv == /\ TypeOK /\ LockHeldByLoader /\ MissWhileLoading
        /\ LoadsAreRecent /\ CacheIsRecent /\ AnswersWithin /\ SpelledAlike
----------------------------------------------------------------------------
(* Nothing is cached, asked or loaded to begin with.                       *)
LEMMA InitInv == Init => IInv
<1> SUFFICES ASSUME Init PROVE IInv  OBVIOUS
<1> USE SigningKeysAssumption DEF Init
<1>1. TypeOK
  <2>1. /\ (CHOOSE r \in Request : TRUE) \in Request
        /\ (CHOOSE u \in Url : TRUE) \in Url
    <3>1. Request # {} /\ Url # {}  OBVIOUS
    <3> QED  BY <3>1, Zenon
  <2>2. <<0>> \in Seq(0..MaxTime)  OBVIOUS
  <2> QED  BY <2>1, <2>2 DEF TypeOK, PC
<1>2. LockHeldByLoader  BY DEF LockHeldByLoader
<1>3. MissWhileLoading /\ LoadsAreRecent  BY DEF MissWhileLoading, LoadsAreRecent
<1>4. CacheIsRecent  BY DEF CacheIsRecent
<1>5. AnswersWithin  BY DEF AnswersWithin
<1>6. SpelledAlike  BY DEF SpelledAlike
<1> QED  BY <1>1, <1>2, <1>3, <1>4, <1>5, <1>6 DEF IInv

(* The holder of the lock is unique.                                       *)
LEMMA OneLoader ==
  ASSUME LockHeldByLoader, NEW t \in Caller, NEW q \in Caller,
         pc[t] \in {"again", "load", "store"}, pc[q] \in {"again", "load", "store"}
  PROVE  t = q
  BY DEF LockHeldByLoader

(* Every step keeps the types.                                             *)
LEMMA TypeNext == TypeOK /\ [Next]_vars => TypeOK'
<1> SUFFICES ASSUME TypeOK, [Next]_vars PROVE TypeOK'  OBVIOUS
<1> USE SigningKeysAssumption DEF TypeOK, PC
<1>k. \A r \in Request : r[1] \in Url  OBVIOUS
<1>1. ASSUME NEW t \in Caller, NEW r \in Request, GetIssuerSigningKeys(t, r) PROVE TypeOK'
  <2>1. calls' \in 0..MaxCalls  BY <1>1 DEF GetIssuerSigningKeys
  <2>2. pc' \in [Caller -> PC] /\ asked' \in [Caller -> Request]
        BY <1>1 DEF GetIssuerSigningKeys, Goto
  <2>3. 0 \in Nat /\ 0 \in 0..MaxTime  OBVIOUS
  <2>4. answer' \in [Caller -> Nat] /\ answeredAt' \in [Caller -> 0..MaxTime]
        BY <1>1, <2>3, Zenon DEF GetIssuerSigningKeys
  <2>5. publisher' \in [Caller -> Url]  BY <1>k, <1>1, Zenon DEF GetIssuerSigningKeys
  <2>6. UNCHANGED <<now, publishedAt, cache, lock, since, fetched>>
        BY <1>1 DEF GetIssuerSigningKeys
  <2> QED  BY <2>1, <2>2, <2>4, <2>5, <2>6
<1>2. ASSUME NEW t \in Caller, Advance(t) PROVE TypeOK'
  <2>k. /\ KeyAsked(t) \in Key /\ asked[t][1] \in Url /\ publisher[t] \in Url
        /\ cache[KeyAsked(t)].keys \in Nat /\ cache[KeyAsked(t)].url \in Url
    <3>1. asked[t] \in Request /\ publisher[t] \in Url  OBVIOUS
    <3>2. KeyAsked(t) \in Key  BY <3>1 DEF Key, KeyAsked
    <3> QED  BY <1>k, <3>1, <3>2
  <2>r. ASSUME NEW keys \in Nat, NEW url \in Url, Return(t, keys, url),
               calls' = calls, now' = now, asked' = asked
        PROVE  /\ pc' \in [Caller -> PC] /\ since' \in [Caller -> 0..MaxTime]
               /\ fetched' \in [Caller -> Nat] /\ answer' \in [Caller -> Nat]
               /\ publisher' \in [Caller -> Url]
               /\ answeredAt' \in [Caller -> 0..MaxTime]
        BY <2>r, SMTT(30) DEF Return, ReturnCached, Throw, Goto
  <2>1. CASE FirstLookup(t)
    <3>1. CASE Hit(KeyAsked(t))  BY <2>1, <2>k, <2>r, <3>1 DEF FirstLookup, ReturnCached
    <3>2. CASE ~Hit(KeyAsked(t))  BY <2>1, <3>2 DEF FirstLookup, Goto
    <3> QED  BY <3>1, <3>2
  <2>2. CASE EnterLock(t)  BY <2>2 DEF EnterLock, Goto
  <2>3. CASE SecondLookup(t)
    <3>1. CASE Hit(KeyAsked(t))  BY <2>3, <2>k, <2>r, <3>1 DEF SecondLookup, ReturnCached
    <3>2. CASE ~Hit(KeyAsked(t))  BY <2>3, <3>2, ZenonT(30) DEF SecondLookup, Goto
    <3> QED  BY <3>1, <3>2
  <2>4. CASE Respond(t)
    <3>1. Current(asked[t][1]) \in Nat  BY <1>k DEF Current
    <3> QED  BY <2>4, <3>1 DEF Respond, Goto
  <2>5. CASE LoadFails(t)  BY <2>5, <2>k, <2>r DEF LoadFails, Throw
  <2>6. CASE StoreKeys(t)
    <3>1. CASE Lifespan > 0
      <4>1. [keys |-> fetched[t], url |-> asked[t][1], expires |-> now + Lifespan]
               \in [keys : Nat, url : Url, expires : Nat]
            BY <2>k
      <4>2. cache' \in [Key -> [keys : Nat, url : Url, expires : Nat]]
            BY <2>6, <2>k, <3>1, <4>1 DEF StoreKeys
      <4>3. fetched[t] \in Nat  OBVIOUS
      <4>4. /\ Return(t, fetched[t], asked[t][1]) /\ lock' = NoOne
            /\ UNCHANGED <<now, publishedAt, asked, calls>>
            BY <2>6, <3>1 DEF StoreKeys
      <4> QED  BY <2>k, <2>r, <4>2, <4>3, <4>4
    <3>2. CASE ~(Lifespan > 0)  BY <2>6, <2>k, <2>r, <3>2 DEF StoreKeys, Throw
    <3> QED  BY <3>1, <3>2
  <2> QED  BY <1>2, <2>1, <2>2, <2>3, <2>4, <2>5, <2>6 DEF Advance
<1>3. ASSUME NEW u \in Url, Rotate(u) PROVE TypeOK'
  <2>1. Append(publishedAt[u], now) \in Seq(0..MaxTime)  OBVIOUS
  <2> QED  BY <1>3, <2>1 DEF Rotate, threadVars
<1>4. CASE Tick  BY <1>4 DEF Tick, threadVars
<1>5. CASE UNCHANGED vars  BY <1>5 DEF vars, threadVars
<1> QED  BY <1>1, <1>2, <1>3, <1>4, <1>5 DEF Next

(* Every step that takes or leaves the lock enters or leaves the section.  *)
LEMMA LockNext == TypeOK /\ LockHeldByLoader /\ [Next]_vars => LockHeldByLoader'
<1> SUFFICES ASSUME TypeOK, LockHeldByLoader, [Next]_vars PROVE LockHeldByLoader'  OBVIOUS
<1> USE SigningKeysAssumption DEF LockHeldByLoader
<1>p. pc \in [Caller -> PC]  BY DEF TypeOK
<1>1. ASSUME NEW t \in Caller, NEW r \in Request, GetIssuerSigningKeys(t, r) PROVE LockHeldByLoader'
      BY <1>p, <1>1 DEF GetIssuerSigningKeys, Goto
<1>2. ASSUME NEW t \in Caller, Advance(t) PROVE LockHeldByLoader'
  <2>1. CASE FirstLookup(t)  BY <1>p, <2>1 DEF FirstLookup, Return, ReturnCached, Throw, Goto
  <2>2. CASE EnterLock(t)  BY <1>p, <2>2 DEF EnterLock, Goto
  <2>3. CASE SecondLookup(t)  BY <1>p, <2>3 DEF SecondLookup, Return, ReturnCached, Throw, Goto
  <2>4. CASE Respond(t)  BY <1>p, <2>4 DEF Respond, Goto
  <2>5. CASE LoadFails(t)  BY <1>p, <2>5 DEF LoadFails, Return, ReturnCached, Throw, Goto
  <2>6. CASE StoreKeys(t)  BY <1>p, <2>6 DEF StoreKeys, Return, ReturnCached, Throw, Goto
  <2> QED  BY <1>2, <2>1, <2>2, <2>3, <2>4, <2>5, <2>6 DEF Advance
<1>3. ASSUME NEW u \in Url, Rotate(u) PROVE LockHeldByLoader'  BY <1>3 DEF Rotate, threadVars
<1>4. CASE Tick  BY <1>4 DEF Tick, threadVars
<1>5. CASE UNCHANGED vars  BY <1>5 DEF vars, threadVars
<1> QED  BY <1>1, <1>2, <1>3, <1>4, <1>5 DEF Next

(* Only the loader of a key writes the cache, and it writes what is missing. *)
LEMMA OnlyStoreWrites ==
  ASSUME TypeOK, [Next]_vars, NEW k \in Key, cache'[k] # cache[k]
  PROVE  \E t \in Caller : StoreKeys(t) /\ k = KeyAsked(t)
<1>1. PICK t \in Caller : StoreKeys(t)
  BY DEF Next, Advance, GetIssuerSigningKeys, FirstLookup, EnterLock, SecondLookup,
         Respond, LoadFails, Rotate, Tick, vars
<1>2. cache \in [Key -> [keys : Nat, url : Url, expires : Nat]]  BY DEF TypeOK
<1>3. k = KeyAsked(t)  BY <1>1, <1>2 DEF StoreKeys
<1> QED  BY <1>1, <1>3

(* The clock does not go back.                                             *)
LEMMA TimePasses ==
  ASSUME TypeOK, [Next]_vars
  PROVE  now \in Nat /\ now' \in Nat /\ now <= now'
<1>1. now \in Nat  BY SigningKeysAssumption DEF TypeOK
<1>2. now' = now \/ now' = now + 1
  BY DEF Next, Advance, GetIssuerSigningKeys, FirstLookup, EnterLock, SecondLookup,
         Respond, LoadFails, StoreKeys, Rotate, Tick, vars
<1> QED  BY <1>1, <1>2

(* What a loader has missed stays missing: time only lets sets expire, and *)
(* nobody else stores.                                                     *)
LEMMA MissNext ==
  TypeOK /\ LockHeldByLoader /\ MissWhileLoading /\ [Next]_vars => MissWhileLoading'
<1> SUFFICES ASSUME TypeOK, LockHeldByLoader, MissWhileLoading, [Next]_vars,
                    NEW t \in Caller, pc'[t] \in {"load", "store"}
             PROVE  ~Hit(KeyAsked(t))'
    BY DEF MissWhileLoading
<1>p. pc \in [Caller -> PC] /\ asked \in [Caller -> Request]  BY DEF TypeOK
<1>1. asked'[t] = asked[t] /\ asked[t] \in Request
  BY <1>p DEF Next, Advance, GetIssuerSigningKeys, FirstLookup, EnterLock, SecondLookup,
         Respond, LoadFails, StoreKeys, Return, ReturnCached, Throw, Goto, Rotate, Tick,
         vars, threadVars
<1>2. pc[t] \in {"again", "load", "store"} /\ ~Hit(KeyAsked(t))
  BY <1>p DEF Next, Advance, GetIssuerSigningKeys, FirstLookup, EnterLock, SecondLookup,
         Respond, LoadFails, StoreKeys, Return, ReturnCached, Throw, Goto, Rotate, Tick,
         vars, threadVars,
         MissWhileLoading
<1>k. KeyAsked(t)' = KeyAsked(t) /\ KeyAsked(t) \in Key  BY <1>1 DEF Key, KeyAsked
<1>3. cache'[KeyAsked(t)] = cache[KeyAsked(t)]
  <2> SUFFICES ASSUME cache'[KeyAsked(t)] # cache[KeyAsked(t)] PROVE FALSE  OBVIOUS
  <2>1. PICK q \in Caller : StoreKeys(q)  BY <1>k, OnlyStoreWrites
  <2>2. q = t  BY <1>2, <2>1, OneLoader DEF StoreKeys
  <2>3. pc'[t] = "idle"  BY <1>p, <2>1, <2>2 DEF StoreKeys, Return, ReturnCached, Throw, Goto
  <2> QED  BY <2>3
<1>4. ~Hit(KeyAsked(t))' <=> ~(cache'[KeyAsked(t)'].keys # 0 /\ now' < cache'[KeyAsked(t)'].expires)
  BY DEF Hit
<1>5. now \in Nat /\ now' \in Nat /\ now <= now'  BY TimePasses
<1>6. cache[KeyAsked(t)].expires \in Int  BY <1>k DEF TypeOK
<1> QED  BY <1>k, <1>2, <1>3, <1>4, <1>5, <1>6 DEF Hit
----------------------------------------------------------------------------
(* Another set that is published withdraws none earlier than now.          *)
LEMMA AppendWithin ==
  ASSUME NEW times \in Seq(Nat), NEW at \in Nat, NEW n \in Nat, NEW t \in Nat, NEW d \in Nat,
         Within(times, n, t, d), t <= at + d
  PROVE  Within(Append(times, at), n, t, d)
  BY DEF Within

(* Who has a set u instead of t may have it for as much longer.            *)
LEMMA WithinLater ==
  ASSUME NEW times \in Seq(Nat), NEW n \in Nat, NEW t \in Nat, NEW d \in Nat,
         NEW u \in Nat, NEW e \in Nat, Within(times, n, t, d), u + d <= t + e
  PROVE  Within(times, n, u, e)
<1>1. n <= Len(times)  BY DEF Within
<1>2. ASSUME n < Len(times) PROVE u <= times[n + 1] + e
  <2>1. n + 1 \in 1..Len(times) /\ Len(times) \in Nat  BY <1>2
  <2>2. times[n + 1] \in Nat  BY <2>1
  <2>3. t <= times[n + 1] + d  BY <1>2 DEF Within
  <2> QED  BY <2>2, <2>3
<1> QED  BY <1>1, <1>2 DEF Within

(* The types in the form the arithmetic below needs.                       *)
LEMMA Times ==
  ASSUME TypeOK, NEW u \in Url
  PROVE  publishedAt[u] \in Seq(Nat)
<1>1. publishedAt[u] \in Seq(0..MaxTime)  BY DEF TypeOK
<1>2. 0..MaxTime \subseteq Nat  BY SigningKeysAssumption
<1> QED  BY <1>1, <1>2, SeqMonotonic

(* Likewise for the clock and what is read off it.                         *)
LEMMA Types ==
  ASSUME TypeOK
  PROVE  /\ now \in Nat
         /\ since \in [Caller -> Nat] /\ answeredAt \in [Caller -> Nat]
         /\ \A r \in Request : r[1] \in Url
         /\ \A t \in Caller : asked[t][1] \in Url /\ KeyAsked(t) \in Key
<1>1. 0..MaxTime \subseteq Nat  BY SigningKeysAssumption
<1>2. now \in Nat /\ \A r \in Request : r[1] \in Url  BY <1>1, SigningKeysAssumption DEF TypeOK
<1>4. \A t \in Caller : asked[t][1] \in Url /\ KeyAsked(t) \in Key
  BY <1>2 DEF TypeOK, Key, KeyAsked
<1>3. since \in [Caller -> Nat] /\ answeredAt \in [Caller -> Nat]  BY <1>1 DEF TypeOK
<1> QED  BY <1>2, <1>3, <1>4

(* What is loaded, cached and answered is recent.                          *)
Recent == LoadsAreRecent /\ CacheIsRecent /\ AnswersWithin

(* An authority that rotates its keys makes none of them too old.          *)
LEMMA RecentRotates ==
  ASSUME TypeOK, Recent, NEW u \in Url, Rotate(u)
  PROVE  Recent'
<1> USE SigningKeysAssumption
<1>1. ASSUME NEW v \in Url, NEW n \in Nat, NEW t \in Nat, NEW d \in Nat,
             Within(publishedAt[v], n, t, d), t <= now + d
      PROVE  Within(publishedAt'[v], n, t, d)
  <2>1. publishedAt[u] \in Seq(Nat) /\ now \in Nat /\ publishedAt \in [Url -> Seq(0..MaxTime)]
        BY Times, Types DEF TypeOK
  <2>2. CASE v = u
    <3>1. publishedAt'[v] = Append(publishedAt[u], now)  BY <2>1, <2>2, Rotate(u) DEF Rotate
    <3> QED  BY <1>1, <2>1, <2>2, <3>1, AppendWithin
  <2>3. CASE v # u  BY <1>1, <2>1, <2>3, Rotate(u) DEF Rotate
  <2> QED  BY <2>2, <2>3
<1>2. \A r \in Request : r[1] \in Url  OBVIOUS
<1>3. UNCHANGED <<now, cache, pc, asked, since, fetched, answer, publisher, answeredAt>>
  BY DEF Rotate, threadVars
<1>4. LoadsAreRecent'
  <2> SUFFICES ASSUME NEW t \in Caller, pc[t] = "store"
               PROVE  Within(publishedAt'[asked[t][1]], fetched[t], since[t], 0)
      BY <1>3 DEF Recent, LoadsAreRecent
  <2>1. /\ asked[t][1] \in Url /\ fetched[t] \in Nat /\ since[t] \in Nat
        /\ now \in Nat /\ since[t] <= now
        BY <1>2 DEF TypeOK, Recent, LoadsAreRecent
  <2>2. Within(publishedAt[asked[t][1]], fetched[t], since[t], 0)
        BY DEF Recent, LoadsAreRecent
  <2> QED  BY <1>1, <2>1, <2>2
<1>5. CacheIsRecent'
  <2> SUFFICES ASSUME NEW k \in Key, cache[k].keys # 0
               PROVE  Within(publishedAt'[cache[k].url], cache[k].keys, cache[k].expires,
                             Lifespan + MaxLatency)
      BY <1>3 DEF Recent, CacheIsRecent
  <2>1. /\ cache[k].url \in Url /\ cache[k].keys \in Nat /\ cache[k].expires \in Nat
        /\ now \in Nat /\ Lifespan + MaxLatency \in Nat
        /\ cache[k].expires <= now + (Lifespan + MaxLatency)
        BY <1>2 DEF TypeOK, Recent, CacheIsRecent
  <2>2. Within(publishedAt[cache[k].url], cache[k].keys, cache[k].expires,
               Lifespan + MaxLatency)
        BY DEF Recent, CacheIsRecent
  <2> QED  BY <1>1, <2>1, <2>2
<1>6. AnswersWithin'
  <2> SUFFICES ASSUME NEW t \in Caller, pc[t] = "idle", answer[t] # 0
               PROVE  Within(publishedAt'[publisher[t]], answer[t], answeredAt[t] + 1,
                             Lifespan + MaxLatency)
      BY <1>3 DEF Recent, AnswersWithin
  <2>1. /\ publisher[t] \in Url /\ answer[t] \in Nat /\ answeredAt[t] \in Nat /\ now \in Nat
        BY <1>2 DEF TypeOK
  <2>2. Lifespan > 0 /\ answeredAt[t] <= now  BY DEF Recent, AnswersWithin
  <2>3. /\ answeredAt[t] + 1 \in Nat /\ Lifespan + MaxLatency \in Nat
        /\ answeredAt[t] + 1 <= now + (Lifespan + MaxLatency)
        BY <2>1, <2>2
  <2>4. Within(publishedAt[publisher[t]], answer[t], answeredAt[t] + 1, Lifespan + MaxLatency)
        BY DEF Recent, AnswersWithin
  <2> QED  BY <1>1, <2>1, <2>3, <2>4
<1> QED  BY <1>4, <1>5, <1>6 DEF Recent

(* Nor does time, since a load that has begun is not waited for too long.  *)
LEMMA RecentTicks ==
  ASSUME TypeOK, Recent, Tick
  PROVE  Recent'
<1> USE SigningKeysAssumption DEF Tick, threadVars, Recent
<1>1. now' = now + 1 /\ now \in Nat  BY DEF TypeOK
<1>2. LoadsAreRecent'
  <2> SUFFICES ASSUME NEW t \in Caller, pc[t] \in {"load", "store"}
               PROVE  since[t] <= now + 1 /\ now + 1 <= since[t] + MaxLatency
      BY <1>1 DEF LoadsAreRecent
  <2>1. since[t] \in Nat /\ since[t] <= now /\ now < since[t] + MaxLatency
        BY DEF TypeOK, LoadsAreRecent
  <2> QED  BY <1>1, <2>1
<1>3. CacheIsRecent'
  <2> SUFFICES ASSUME NEW k \in Key, cache[k].keys # 0
               PROVE  cache[k].expires <= (now + 1) + Lifespan
      BY <1>1 DEF CacheIsRecent
  <2>1. cache[k].expires \in Nat  BY DEF TypeOK
  <2>2. cache[k].expires <= now + Lifespan  BY DEF CacheIsRecent
  <2> QED  BY <1>1, <2>1, <2>2
<1>4. AnswersWithin'
  <2> SUFFICES ASSUME NEW t \in Caller, pc[t] = "idle", answer[t] # 0
               PROVE  answeredAt[t] <= now + 1
      BY <1>1 DEF AnswersWithin
  <2> QED  BY <1>1 DEF TypeOK, AnswersWithin
<1> QED  BY <1>2, <1>3, <1>4

(* What the steps of a thread leave as it is for the others.               *)
LEMMA OthersKeep ==
  ASSUME TypeOK, NEW t \in Caller,
         Advance(t) \/ \E r \in Request : GetIssuerSigningKeys(t, r)
  PROVE  /\ UNCHANGED <<now, publishedAt>>
         /\ \A q \in Caller \ {t} :
               UNCHANGED <<pc[q], asked[q], since[q], fetched[q], answer[q], publisher[q],
                           answeredAt[q]>>
  BY DEF TypeOK, Advance, GetIssuerSigningKeys, FirstLookup, EnterLock, SecondLookup,
         Respond, LoadFails, StoreKeys, Return, ReturnCached, Throw, Goto

(* A step that leaves the cache alone keeps what is cached recent.         *)
LEMMA CacheKept ==
  ASSUME CacheIsRecent, UNCHANGED <<now, publishedAt, cache>>
  PROVE  CacheIsRecent'
  BY DEF CacheIsRecent

(* For the others nothing changes, so only the thread that steps is left   *)
(* to look at.                                                             *)
LEMMA LoadsKept ==
  ASSUME TypeOK, LoadsAreRecent, NEW t \in Caller,
         Advance(t) \/ \E r \in Request : GetIssuerSigningKeys(t, r),
         /\ pc'[t] \in {"load", "store"} => since'[t] <= now /\ now <= since'[t] + MaxLatency
         /\ pc'[t] = "store" => Within(publishedAt[asked'[t][1]], fetched'[t], since'[t], 0)
  PROVE  LoadsAreRecent'
<1> SUFFICES ASSUME NEW q \in Caller
             PROVE  /\ pc'[q] \in {"load", "store"} =>
                          since'[q] <= now' /\ now' <= since'[q] + MaxLatency
                    /\ pc'[q] = "store" =>
                          Within(publishedAt'[asked'[q][1]], fetched'[q], since'[q], 0)
    BY DEF LoadsAreRecent
<1>1. CASE q = t  BY <1>1, OthersKeep
<1>2. CASE q # t  BY <1>2, OthersKeep DEF LoadsAreRecent
<1> QED  BY <1>1, <1>2

(* The same for the answers.                                               *)
LEMMA AnswersKept ==
  ASSUME TypeOK, AnswersWithin, NEW t \in Caller,
         Advance(t) \/ \E r \in Request : GetIssuerSigningKeys(t, r),
         pc'[t] = "idle" /\ answer'[t] # 0 =>
            /\ Lifespan > 0
            /\ answeredAt'[t] <= now
            /\ Within(publishedAt[publisher'[t]], answer'[t], answeredAt'[t] + 1,
                      Lifespan + MaxLatency)
  PROVE  AnswersWithin'
<1> SUFFICES ASSUME NEW q \in Caller, pc'[q] = "idle", answer'[q] # 0
             PROVE  /\ Lifespan > 0
                    /\ answeredAt'[q] <= now'
                    /\ Within(publishedAt'[publisher'[q]], answer'[q], answeredAt'[q] + 1,
                              Lifespan + MaxLatency)
    BY DEF AnswersWithin
<1>1. CASE q = t  BY <1>1, OthersKeep
<1>2. CASE q # t  BY <1>2, OthersKeep DEF AnswersWithin
<1> QED  BY <1>1, <1>2

(* An answer out of the cache is as recent as the cache.                   *)
LEMMA CachedAnswer ==
  ASSUME TypeOK, Recent, NEW t \in Caller, Hit(KeyAsked(t))
  PROVE  /\ Lifespan > 0
         /\ Within(publishedAt[cache[KeyAsked(t)].url], cache[KeyAsked(t)].keys, now + 1,
                   Lifespan + MaxLatency)
<1> DEFINE k == KeyAsked(t)
<1>k. k \in Key  BY Types
<1>1. /\ k \in Key /\ cache[k].url \in Url /\ now \in Nat
      /\ cache[k].keys \in Nat /\ cache[k].expires \in Nat
      BY <1>k, Types DEF TypeOK
<1>2. now + 1 <= cache[k].expires /\ cache[k].keys # 0  BY <1>1 DEF Hit
<1>3. Lifespan > 0 /\ Within(publishedAt[cache[k].url], cache[k].keys, cache[k].expires,
                             Lifespan + MaxLatency)
      BY <1>1, <1>2 DEF Recent, CacheIsRecent
<1>4. publishedAt[cache[k].url] \in Seq(Nat)  BY <1>1, Times
<1>5. /\ Lifespan + MaxLatency \in Nat /\ now + 1 \in Nat
      /\ (now + 1) + (Lifespan + MaxLatency) <= cache[k].expires + (Lifespan + MaxLatency)
      BY <1>1, <1>2, SigningKeysAssumption
<1> HIDE DEF k
<1>6. Within(publishedAt[cache[k].url], cache[k].keys, now + 1, Lifespan + MaxLatency)
  BY <1>1, <1>3, <1>4, <1>5, WithinLater
<1> QED  BY <1>3, <1>6 DEF k

(* Every step of a thread hands on only what is recent.                    *)
LEMMA RecentAdvances ==
  ASSUME TypeOK, Recent, NEW t \in Caller,
         Advance(t) \/ \E r \in Request : GetIssuerSigningKeys(t, r)
  PROVE  Recent'
<1> USE DEF Recent
<1>p. /\ pc \in [Caller -> PC] /\ asked \in [Caller -> Request] /\ now \in Nat
      /\ since \in [Caller -> Nat] /\ fetched \in [Caller -> Nat]
      /\ answer \in [Caller -> Nat] /\ answeredAt \in [Caller -> Nat]
      /\ publisher \in [Caller -> Url]
      BY Types DEF TypeOK
<1>k. KeyAsked(t) \in Key /\ asked[t][1] \in Url  BY Types
<1>1. CASE \E r \in Request : GetIssuerSigningKeys(t, r)
  <2>1. pc'[t] = "lookup" /\ UNCHANGED <<now, publishedAt, cache>>
        BY <1>p, <1>1 DEF GetIssuerSigningKeys, Goto
  <2> QED  BY <1>1, <2>1, CacheKept, LoadsKept, AnswersKept
<1>2. CASE FirstLookup(t)
  <2>1. UNCHANGED <<now, publishedAt, cache, asked>>  BY <1>2 DEF FirstLookup
  <2>2. CASE Hit(KeyAsked(t))
    <3>1. /\ pc'[t] = "idle" /\ answer'[t] = cache[KeyAsked(t)].keys
          /\ publisher'[t] = cache[KeyAsked(t)].url /\ answeredAt'[t] = now
          BY <1>p, <1>2, <2>2 DEF FirstLookup, Return, ReturnCached, Throw, Goto
    <3> QED  BY <1>p, <1>2, <2>1, <2>2, <3>1, CachedAnswer, CacheKept, LoadsKept, AnswersKept
             DEF Advance
  <2>3. CASE ~Hit(KeyAsked(t))
    <3>1. pc'[t] = "enter"  BY <1>p, <1>2, <2>3 DEF FirstLookup, Goto
    <3> QED  BY <1>2, <2>1, <3>1, CacheKept, LoadsKept, AnswersKept DEF Advance
  <2> QED  BY <2>2, <2>3
<1>3. CASE EnterLock(t)
  <2>1. pc'[t] = "again" /\ UNCHANGED <<now, publishedAt, cache>>
        BY <1>p, <1>3 DEF EnterLock, Goto
  <2> QED  BY <1>3, <2>1, CacheKept, LoadsKept, AnswersKept DEF Advance
<1>4. CASE SecondLookup(t)
  <2>1. UNCHANGED <<now, publishedAt, cache, asked>>  BY <1>4 DEF SecondLookup
  <2>2. CASE Hit(KeyAsked(t))
    <3>1. /\ pc'[t] = "idle" /\ answer'[t] = cache[KeyAsked(t)].keys
          /\ publisher'[t] = cache[KeyAsked(t)].url /\ answeredAt'[t] = now
          BY <1>p, <1>4, <2>2 DEF SecondLookup, Return, ReturnCached, Throw, Goto
    <3> QED  BY <1>p, <1>4, <2>1, <2>2, <3>1, CachedAnswer, CacheKept, LoadsKept, AnswersKept
             DEF Advance
  <2>3. CASE ~Hit(KeyAsked(t))
    <3>1. pc'[t] = "load" /\ since'[t] = now
          BY <1>p, <1>4, <2>3 DEF SecondLookup, Goto
    <3>2. since'[t] <= now /\ now <= since'[t] + MaxLatency
          BY <1>p, <3>1, SigningKeysAssumption
    <3> QED  BY <1>4, <2>1, <3>1, <3>2, CacheKept, LoadsKept, AnswersKept DEF Advance
  <2> QED  BY <2>2, <2>3
<1>5. CASE Respond(t)
  <2>1. /\ pc'[t] = "store" /\ pc[t] = "load"
        /\ fetched'[t] = Len(publishedAt[asked[t][1]])
        /\ UNCHANGED <<now, publishedAt, cache, asked, since>>
        BY <1>p, <1>5 DEF Respond, Goto, Current
  <2>2. since'[t] <= now /\ now <= since'[t] + MaxLatency  BY <2>1 DEF LoadsAreRecent
  <2>3. publishedAt[asked[t][1]] \in Seq(0..MaxTime)  BY <1>k DEF TypeOK
  <2>4. Within(publishedAt[asked[t][1]], Len(publishedAt[asked[t][1]]), since[t], 0)
        BY <2>3 DEF Within
  <2> QED  BY <1>5, <2>1, <2>2, <2>4, CacheKept, LoadsKept, AnswersKept DEF Advance
<1>6. CASE LoadFails(t)
  <2>1. pc'[t] = "idle" /\ answer'[t] = 0 /\ UNCHANGED <<now, publishedAt, cache>>
        BY <1>p, <1>6 DEF LoadFails, Return, ReturnCached, Throw, Goto
  <2> QED  BY <1>6, <2>1, CacheKept, LoadsKept, AnswersKept DEF Advance
<1>7. CASE StoreKeys(t)
  <2>1. /\ pc'[t] = "idle" /\ answeredAt'[t] = now /\ pc[t] = "store"
        /\ UNCHANGED <<now, publishedAt, asked>>
        BY <1>p, <1>7 DEF StoreKeys, Return, ReturnCached, Throw, Goto
  <2>2. CASE Lifespan > 0
    <3> DEFINE new == [keys |-> fetched[t], url |-> asked[t][1], expires |-> now + Lifespan]
    <3>1. /\ answer'[t] = fetched[t] /\ publisher'[t] = asked[t][1]
          /\ cache' = [cache EXCEPT ![KeyAsked(t)] = new]
          BY <1>p, <1>7, <2>2 DEF StoreKeys, Return
    <3>2. /\ Within(publishedAt[asked[t][1]], fetched[t], since[t], 0)
          /\ since[t] <= now /\ now <= since[t] + MaxLatency
          BY <2>1 DEF LoadsAreRecent
    <3>3. publishedAt[asked[t][1]] \in Seq(Nat)  BY <1>k, Times
    <3>4. since[t] \in Nat /\ fetched[t] \in Nat  BY <1>p
    <3>5. /\ now + Lifespan \in Nat /\ now + 1 \in Nat /\ Lifespan + MaxLatency \in Nat
          /\ (now + Lifespan) + 0 <= since[t] + (Lifespan + MaxLatency)
          /\ (now + 1) + 0 <= since[t] + (Lifespan + MaxLatency)
          BY <1>p, <2>2, <3>2, <3>4, SigningKeysAssumption
    <3>6. /\ Within(publishedAt[asked[t][1]], fetched[t], now + Lifespan, Lifespan + MaxLatency)
          /\ Within(publishedAt[asked[t][1]], fetched[t], now + 1, Lifespan + MaxLatency)
          BY <3>2, <3>3, <3>4, <3>5, WithinLater
    <3>7. CacheIsRecent'
      <4> SUFFICES ASSUME NEW k \in Key, cache'[k].keys # 0
                   PROVE  /\ cache'[k].expires <= now + Lifespan
                          /\ Within(publishedAt[cache'[k].url], cache'[k].keys, cache'[k].expires,
                                    Lifespan + MaxLatency)
          BY <2>1, <2>2 DEF CacheIsRecent
      <4>1. CASE k = KeyAsked(t)
        <5>1. cache'[k] = new  BY <3>1, <4>1 DEF TypeOK
        <5>2. now + Lifespan <= now + Lifespan  BY <1>p, SigningKeysAssumption
        <5> QED  BY <3>6, <4>1, <5>1, <5>2
      <4>2. CASE k # KeyAsked(t)  BY <3>1, <4>2 DEF TypeOK, CacheIsRecent
      <4> QED  BY <4>1, <4>2
    <3>8. answeredAt'[t] <= now  BY <1>p, <2>1
    <3> QED  BY <1>7, <2>1, <2>2, <3>1, <3>6, <3>7, <3>8, LoadsKept, AnswersKept DEF Advance
  <2>3. CASE ~(Lifespan > 0)
    <3>1. answer'[t] = 0 /\ UNCHANGED cache  BY <1>p, <1>7, <2>3 DEF StoreKeys, Return, Throw
    <3> QED  BY <1>7, <2>1, <3>1, CacheKept, LoadsKept, AnswersKept DEF Advance
  <2> QED  BY <2>2, <2>3
<1> QED  BY <1>1, <1>2, <1>3, <1>4, <1>5, <1>6, <1>7 DEF Advance

(* So does every step.                                                     *)
LEMMA RecentNext == TypeOK /\ Recent /\ [Next]_vars => Recent'
<1> SUFFICES ASSUME TypeOK, Recent, [Next]_vars PROVE Recent'  OBVIOUS
<1>1. CASE UNCHANGED vars
      BY <1>1 DEF vars, threadVars, Recent, LoadsAreRecent, CacheIsRecent, AnswersWithin
<1> QED  BY <1>1, RecentAdvances, RecentRotates, RecentTicks DEF Next
(* A set is stored under the key of the pair it was loaded for, and given  *)
(* to those who ask for that key.                                          *)
LEMMA SpellingNext == TypeOK /\ SpelledAlike /\ [Next]_vars => SpelledAlike'
<1> SUFFICES ASSUME TypeOK, SpelledAlike, [Next]_vars PROVE SpelledAlike'  OBVIOUS
<1>1. CASE UNCHANGED <<cache, pc, asked, answer, publisher>>
  <2>1. \A t \in Caller : KeyAsked(t)' = KeyAsked(t)  BY <1>1 DEF KeyAsked
  <2> QED  BY <1>1, <2>1 DEF SpelledAlike, Spells
<1>2. ASSUME NEW t \in Caller, Advance(t) \/ \E r \in Request : GetIssuerSigningKeys(t, r)
      PROVE  SpelledAlike'
  <2>1. /\ \A q \in Caller \ {t} : UNCHANGED <<pc[q], asked[q], answer[q], publisher[q]>>
        /\ \A q \in Caller \ {t} : KeyAsked(q)' = KeyAsked(q)
    BY <1>2, OthersKeep DEF KeyAsked
  <2>2. /\ KeyAsked(t) \in Key /\ asked[t] \in Request
        /\ cache \in [Key -> [keys : Nat, url : Url, expires : Nat]]
        /\ pc \in [Caller -> PC] /\ answer \in [Caller -> Nat] /\ publisher \in [Caller -> Url]
    BY Types DEF TypeOK
  <2>3. Spells(asked[t][1], KeyAsked(t))  BY <2>2 DEF Spells, KeyAsked
  <2>4. ASSUME NEW k \in Key, cache'[k].keys # 0 PROVE Spells(cache'[k].url, k)
    <3>1. CASE cache'[k] = cache[k]  BY <2>4, <3>1 DEF SpelledAlike
    <3>2. CASE cache'[k] # cache[k]
      <4>1. PICK q \in Caller : StoreKeys(q) /\ k = KeyAsked(q)  BY <3>2, OnlyStoreWrites
      <4>2. cache'[k].url = asked[q][1]  BY <2>2, <3>2, <4>1 DEF StoreKeys
      <4>3. asked[q] \in Request  BY DEF TypeOK
      <4> QED  BY <4>1, <4>2, <4>3 DEF Spells, KeyAsked
    <3> QED  BY <3>1, <3>2
  <2>5. ASSUME pc'[t] = "idle", answer'[t] # 0 PROVE Spells(publisher'[t], KeyAsked(t)')
    <3>1. pc'[t] = "idle" => KeyAsked(t)' = KeyAsked(t)
      BY <1>2, <2>2 DEF Advance, GetIssuerSigningKeys, FirstLookup, EnterLock, SecondLookup,
         Respond, LoadFails, StoreKeys, Goto, KeyAsked
    <3>2. CASE StoreKeys(t)
      <4>1. publisher'[t] = asked[t][1]
        BY <2>2, <2>5, <3>2 DEF StoreKeys, Return, Throw
      <4> QED  BY <2>3, <2>5, <3>1, <4>1
    <3>3. CASE FirstLookup(t) \/ SecondLookup(t)
      <4>1. Hit(KeyAsked(t)) /\ ReturnCached(t)
        BY <2>2, <2>5, <3>3 DEF FirstLookup, SecondLookup, Goto
      <4>2. publisher'[t] = cache[KeyAsked(t)].url  BY <2>2, <4>1 DEF ReturnCached, Return
      <4>3. Spells(cache[KeyAsked(t)].url, KeyAsked(t))  BY <2>2, <4>1 DEF SpelledAlike, Hit
      <4> QED  BY <2>5, <3>1, <4>2, <4>3
    <3>4. CASE LoadFails(t)
      <4>1. answer'[t] = 0  BY <2>2, <3>4 DEF LoadFails, Throw, Return
      <4> QED  BY <2>5, <4>1
    <3>5. CASE EnterLock(t) \/ Respond(t) \/ \E r \in Request : GetIssuerSigningKeys(t, r)
      <4>1. pc'[t] # "idle"
        BY <2>2, <3>5 DEF EnterLock, Respond, GetIssuerSigningKeys, Goto
      <4> QED  BY <2>5, <4>1
    <3> QED  BY <1>2, <3>2, <3>3, <3>4, <3>5 DEF Advance
  <2>6. ASSUME NEW q \in Caller, pc'[q] = "idle", answer'[q] # 0
        PROVE  Spells(publisher'[q], KeyAsked(q)')
    <3>1. CASE q = t  BY <2>5, <2>6, <3>1
    <3>2. CASE q # t  BY <2>1, <2>6, <3>2 DEF SpelledAlike
    <3> QED  BY <3>1, <3>2
  <2> QED  BY <2>4, <2>6 DEF SpelledAlike, Spells
<1>3. UNCHANGED <<cache, pc, asked, answer, publisher>>
      \/ \E t \in Caller : Advance(t) \/ \E r \in Request : GetIssuerSigningKeys(t, r)
  BY DEF Next, Rotate, Tick, vars, threadVars
<1> QED  BY <1>1, <1>2, <1>3
----------------------------------------------------------------------------
(* The conjunction is an invariant.                                        *)
LEMMA Invariance == Spec => []IInv
<1>1. Init => IInv  BY InitInv
<1>2. IInv /\ [Next]_vars => IInv'
      BY TypeNext, LockNext, MissNext, RecentNext, SpellingNext DEF IInv, Recent
<1> QED  BY <1>1, <1>2, PTL DEF Spec, Safe

(* The variables keep their types.                                         *)
THEOREM TypeCorrect == Spec => []TypeOK
<1>1. IInv => TypeOK  BY DEF IInv
<1> QED  BY <1>1, Invariance, PTL

(* Between the acquisition of the lock and the end of the call, and only   *)
(* there, a thread holds the lock: no two loads are under way, and a       *)
(* failed one leaves the lock free (lines 26-39).                          *)
THEOREM LockIsReleased == Spec => []LockHeldByLoader
<1>1. IInv => LockHeldByLoader  BY DEF IInv
<1> QED  BY <1>1, Invariance, PTL

(* What Set replaces has expired (lines 28-37).                            *)
THEOREM GoodSetsStay == Spec => NoReloadWhileGood
<1>1. IInv /\ [Next]_vars => [\A k \in Key : cache'[k] # cache[k] => ~Hit(k)]_vars
  <2> SUFFICES ASSUME IInv, [Next]_vars, NEW k \in Key, cache'[k] # cache[k] PROVE ~Hit(k)
      OBVIOUS
  <2>1. PICK t \in Caller : StoreKeys(t) /\ k = KeyAsked(t)  BY OnlyStoreWrites DEF IInv
  <2> QED  BY <2>1 DEF IInv, MissWhileLoading, StoreKeys
<1> QED  BY <1>1, Invariance, PTL DEF Spec, Safe, NoReloadWhileGood

(* Every answer is a key set of an authority whose url spells the cache    *)
(* key asked for, withdrawn no longer ago than a lifespan and a load (lines*)
(* 20-38).                                                                 *)
THEOREM RecentAnswers == Spec => []AnswersAreRecent
<1>1. IInv => AnswersAreRecent
  <2> SUFFICES ASSUME IInv, NEW t \in Caller, pc[t] = "idle", answer[t] # 0,
                      answer[t] < Current(publisher[t])
               PROVE  answeredAt[t] <
                         publishedAt[publisher[t]][answer[t] + 1] + Lifespan + MaxLatency
      BY DEF AnswersAreRecent, IInv, SpelledAlike, AnswersWithin, Within, Current
  <2>1. answeredAt[t] + 1 <=
           publishedAt[publisher[t]][answer[t] + 1] + (Lifespan + MaxLatency)
        BY DEF IInv, AnswersWithin, Within, Current
  <2>2. publisher[t] \in Url /\ answer[t] \in Nat /\ answeredAt[t] \in Nat
        BY Types DEF IInv, TypeOK
  <2>3. publishedAt[publisher[t]] \in Seq(Nat)  BY <2>2, Times DEF IInv
  <2>4. publishedAt[publisher[t]][answer[t] + 1] \in Nat
        BY <2>2, <2>3 DEF Current
  <2> QED  BY <2>1, <2>2, <2>4, SigningKeysAssumption
<1> QED  BY <1>1, Invariance, PTL

(* Where two urls never spell the same cache key, an answer is a key set   *)
(* of the authority that was asked (line 20).                              *)
THEOREM OwnKeysAnswer ==
    ASSUME \A r, s \in Request : CacheKey[r] = CacheKey[s] => r[1] = s[1]
    PROVE  Spec => [](\A t \in Caller : pc[t] = "idle" /\ answer[t] # 0 =>
                                            publisher[t] = asked[t][1])
<1> DEFINE Own == \A t \in Caller : pc[t] = "idle" /\ answer[t] # 0 =>
                                        publisher[t] = asked[t][1]
<1>1. IInv => Own
  <2> SUFFICES ASSUME IInv, NEW t \in Caller, pc[t] = "idle", answer[t] # 0
               PROVE  publisher[t] = asked[t][1]
      OBVIOUS
  <2>1. PICK r \in Request : r[1] = publisher[t] /\ CacheKey[r] = CacheKey[asked[t]]
        BY DEF IInv, SpelledAlike, Spells, KeyAsked
  <2>2. asked[t] \in Request  BY DEF IInv, TypeOK
  <2> QED  BY <2>1, <2>2
<1> HIDE DEF Own
<1>2. Spec => []Own  BY <1>1, Invariance, PTL
<1> QED  BY <1>2 DEF Own
============================================================================
