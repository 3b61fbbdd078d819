---------------------------- MODULE SigningKeys ----------------------------
(***************************************************************************)
(* IssuerSigningKeyResolver: request threads ask for the signing keys of a *)
(* token; a set is loaded from the authority under a lock, checked again   *)
(* once the lock is held, and kept in the memory cache for a lifespan.     *)
(* The key of the cache is a text spelled from url and kid; other urls and *)
(* kids may spell the same.  The authorities rotate their keys.            *)
(*                                                                         *)
(* A definition whose name ends in Fault is the definition after it with a *)
(* plausible mistake; no specification uses it.                            *)
(***************************************************************************)
EXTENDS Integers, Sequences, FiniteSets

CONSTANTS Caller,     \* the request threads
          Url,        \* the JWKS urls
          Request,    \* what tokens need: pairs of such a url and a key id
          CacheKey,   \* the text $"{jwksUrl}_{kid}" of every such pair
          Lifespan,   \* OauthAuthority.CacheLifespan, in ticks
          MaxLatency, \* ticks from the request to the cached answer, at most
          NoOne,      \* the holder of a free lock
          MaxTime,    \* bound on the clock
          MaxSets,    \* bound on the key sets an authority publishes
          MaxCalls    \* bound on the calls

ASSUME SigningKeysAssumption ==
    /\ Lifespan \in Nat /\ MaxLatency \in Nat
    /\ MaxTime \in Nat /\ MaxSets \in Nat \ {0} /\ MaxCalls \in Nat
    /\ NoOne \notin Caller
    /\ Url # {} /\ Request # {} /\ \A r \in Request : r[1] \in Url
    /\ DOMAIN CacheKey = Request

Key == {CacheKey[r] : r \in Request}

VARIABLES now,         \* the clock
          publishedAt, \* when each authority published its n-th key set
          cache,       \* the cached set of a key, 0: none, the url it was
                       \* loaded from, and its expiry
          lock,        \* who holds @lock
          pc,          \* where a thread stands
          asked,       \* the url and kid a thread asks for
          since,       \* when it began to load
          fetched,     \* the set it has loaded
          answer,      \* the set its last call gave, 0: an exception
          publisher,   \* the url that set was loaded from
          answeredAt,  \* and when it was given
          calls        \* the calls made

threadVars == <<pc, asked, since, fetched, answer, publisher, answeredAt, calls>>
vars == <<now, publishedAt, cache, lock, threadVars>>

PC == {"idle",    \* not in GetIssuerSigningKeys
       "lookup",  \* at the first TryGetValue
       "enter",   \* at lock (this.@lock)
       "again",   \* at the second TryGetValue
       "load",    \* in LoadSigningKeys, no response yet
       "store"}   \* the response is there, at memoryCache.Set

Current(u) == Len(publishedAt[u])
Hit(k) == cache[k].keys # 0 /\ now < cache[k].expires
KeyAsked(t) == CacheKey[asked[t]]

Init == /\ now = 0
        /\ publishedAt = [u \in Url |-> <<0>>]
        /\ cache = [k \in Key |-> [keys |-> 0, url |-> CHOOSE u \in Url : TRUE, expires |-> 0]]
        /\ lock = NoOne
        /\ pc = [t \in Caller |-> "idle"]
        /\ asked = [t \in Caller |-> CHOOSE r \in Request : TRUE]
        /\ since = [t \in Caller |-> 0]
        /\ fetched = [t \in Caller |-> 0]
        /\ answer = [t \in Caller |-> 0]
        /\ publisher = [t \in Caller |-> CHOOSE u \in Url : TRUE]
        /\ answeredAt = [t \in Caller |-> 0]
        /\ calls = 0

Goto(t, place) == pc' = [pc EXCEPT ![t] = place]

(* The call of t ends with the given key set, or with an exception (0).    *)
Return(t, keys, url) ==
    /\ Goto(t, "idle")
    /\ since' = [since EXCEPT ![t] = 0]
    /\ fetched' = [fetched EXCEPT ![t] = 0]
    /\ answer' = [answer EXCEPT ![t] = keys]
    /\ publisher' = [publisher EXCEPT ![t] = url]
    /\ answeredAt' = [answeredAt EXCEPT ![t] = now]

ReturnCached(t) == Return(t, cache[KeyAsked(t)].keys, cache[KeyAsked(t)].url)

Throw(t) == Return(t, 0, publisher[t])

GetIssuerSigningKeys(t, r) ==
    /\ pc[t] = "idle" /\ calls < MaxCalls
    /\ asked' = [asked EXCEPT ![t] = r]
    /\ calls' = calls + 1
    /\ Goto(t, "lookup")
    /\ answer' = [answer EXCEPT ![t] = 0]
    /\ publisher' = [publisher EXCEPT ![t] = r[1]]
    /\ answeredAt' = [answeredAt EXCEPT ![t] = 0]
    /\ UNCHANGED <<now, publishedAt, cache, lock, since, fetched>>

FirstLookup(t) ==
    /\ pc[t] = "lookup"
    /\ IF Hit(KeyAsked(t))
       THEN ReturnCached(t)
       ELSE Goto(t, "enter") /\ UNCHANGED <<since, fetched, answer, publisher, answeredAt>>
    /\ UNCHANGED <<now, publishedAt, cache, lock, asked, calls>>

EnterLock(t) ==
    /\ pc[t] = "enter" /\ lock = NoOne
    /\ lock' = t
    /\ Goto(t, "again")
    /\ UNCHANGED <<now, publishedAt, cache, asked, since, fetched, answer,
                   publisher, answeredAt, calls>>

\* The cache is not looked up again under the lock.
SecondLookupFault(t) ==
    /\ pc[t] = "again"
    /\ Goto(t, "load")
    /\ since' = [since EXCEPT ![t] = now]
    /\ UNCHANGED <<now, publishedAt, cache, lock, asked, fetched, answer,
                   publisher, answeredAt, calls>>

SecondLookup(t) ==
    /\ pc[t] = "again"
    /\ IF Hit(KeyAsked(t))
       THEN /\ ReturnCached(t)
            /\ lock' = NoOne
       ELSE /\ Goto(t, "load")
            /\ since' = [since EXCEPT ![t] = now]
            /\ UNCHANGED <<lock, fetched, answer, publisher, answeredAt>>
    /\ UNCHANGED <<now, publishedAt, cache, asked, calls>>

\* The body of an error response is taken for a key set.
RespondFault(t) ==
    /\ pc[t] = "load"
    /\ \E keys \in {-1, Current(asked[t][1])} : fetched' = [fetched EXCEPT ![t] = keys]
    /\ Goto(t, "store")
    /\ UNCHANGED <<now, publishedAt, cache, lock, asked, since, answer,
                   publisher, answeredAt, calls>>

(* The authority answers with the keys it publishes at that moment; one    *)
(* set for the url, whether or not it contains the kid.                    *)
Respond(t) ==
    /\ pc[t] = "load"
    /\ fetched' = [fetched EXCEPT ![t] = Current(asked[t][1])]
    /\ Goto(t, "store")
    /\ UNCHANGED <<now, publishedAt, cache, lock, asked, since, answer,
                   publisher, answeredAt, calls>>

\* The lock is taken and released by hand, and an exception skips the release.
LoadFailsFault(t) ==
    /\ pc[t] = "load"
    /\ Throw(t)
    /\ UNCHANGED <<now, publishedAt, cache, lock, asked, calls>>

(* No response, an error status, a body that is no key set: the exception  *)
(* releases the lock and leaves the cache alone.                           *)
LoadFails(t) ==
    /\ pc[t] = "load"
    /\ Throw(t)
    /\ lock' = NoOne
    /\ UNCHANGED <<now, publishedAt, cache, asked, calls>>

\* The set is kept without an expiry.
StoreKeysFault(t) ==
    /\ pc[t] = "store"
    /\ cache' = [cache EXCEPT ![KeyAsked(t)] =
                     [keys |-> fetched[t], url |-> asked[t][1], expires |-> MaxTime + 1]]
    /\ Return(t, fetched[t], asked[t][1])
    /\ lock' = NoOne
    /\ UNCHANGED <<now, publishedAt, asked, calls>>

(* Set refuses a lifespan that is not positive.                            *)
StoreKeys(t) ==
    /\ pc[t] = "store"
    /\ IF Lifespan > 0
       THEN /\ cache' = [cache EXCEPT ![KeyAsked(t)] =
                            [keys |-> fetched[t], url |-> asked[t][1],
                             expires |-> now + Lifespan]]
            /\ Return(t, fetched[t], asked[t][1])
       ELSE Throw(t) /\ UNCHANGED cache
    /\ lock' = NoOne
    /\ UNCHANGED <<now, publishedAt, asked, calls>>

Rotate(u) == /\ Current(u) < MaxSets
             /\ publishedAt' = [publishedAt EXCEPT ![u] = Append(@, now)]
             /\ UNCHANGED <<now, cache, lock, threadVars>>

(* Time passes; a load that has begun is over, one way or another, within  *)
(* MaxLatency (the timeout of the HttpClient).                             *)
Tick == /\ now < MaxTime
        /\ \A t \in Caller : pc[t] \in {"load", "store"} => now < since[t] + MaxLatency
        /\ now' = now + 1
        /\ UNCHANGED <<publishedAt, cache, lock, threadVars>>

Advance(t) == \/ FirstLookup(t) \/ EnterLock(t) \/ SecondLookup(t)
              \/ Respond(t) \/ LoadFails(t) \/ StoreKeys(t)

Next == \/ \E t \in Caller : \/ \E r \in Request : GetIssuerSigningKeys(t, r)
                             \/ Advance(t)
        \/ \E u \in Url : Rotate(u)
        \/ Tick

Safe == Init /\ [][Next]_vars

(* Threads run; a lock that is free goes to one of those who wait for it.  *)
(* Which one is left open: .NET locks are not fair.                        *)
Spec == Safe /\ \A t \in Caller : WF_vars(Advance(t))
----------------------------------------------------------------------------
TypeOK == /\ now \in 0..MaxTime
          /\ publishedAt \in [Url -> Seq(0..MaxTime)]
          /\ cache \in [Key -> [keys : Nat, url : Url, expires : Nat]]
          /\ lock \in Caller \cup {NoOne}
          /\ pc \in [Caller -> PC]
          /\ asked \in [Caller -> Request]
          /\ since \in [Caller -> 0..MaxTime]
          /\ fetched \in [Caller -> Nat]
          /\ answer \in [Caller -> Nat]
          /\ publisher \in [Caller -> Url]
          /\ answeredAt \in [Caller -> 0..MaxTime]
          /\ calls \in 0..MaxCalls

(* A lock is held by exactly the thread that is between its acquisition    *)
(* and the end of the call, so a failed load never leaves it taken and no  *)
(* two loads are ever under way (lines 26-39).                             *)
LockHeldByLoader ==
    \A t \in Caller : lock = t <=> pc[t] \in {"again", "load", "store"}

(* A set that is still good is never loaded again: what Set replaces has   *)
(* expired (lines 28-37).                                                  *)
NoReloadWhileGood == [][\A k \in Key : cache'[k] # cache[k] => ~Hit(k)]_vars

(* One of the pairs that have this cache key is of this url.               *)
Spells(url, k) == \E r \in Request : r[1] = url /\ CacheKey[r] = k

(* The keys a token is checked against were published by the authority     *)
(* asked, or by one whose url spells the same cache key with another kid,  *)
(* and were not withdrawn longer ago than a lifespan and a load (lines     *)
(* 20-38).  Where two urls never spell the same, it is the authority asked.*)
AnswersAreRecent ==
    \A t \in Caller :
        LET url == publisher[t]
        IN  pc[t] = "idle" /\ answer[t] # 0 =>
                /\ Spells(url, KeyAsked(t))
                /\ answer[t] <= Current(url)
                /\ answer[t] < Current(url) =>
                      answeredAt[t] <
                          publishedAt[url][answer[t] + 1] + Lifespan + MaxLatency

(* Every call ends, though the load it waits for may fail.                 *)
CallEnds == \A t \in Caller : pc[t] # "idle" ~> pc[t] = "idle"
============================================================================
