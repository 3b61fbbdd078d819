------------------------- MODULE InfoEndpointProofs -------------------------
(***************************************************************************)
(* What TLAPS proves of InfoEndpoint, for any requests, files, authorities *)
(* and changes of the folder.                                              *)
(*                                                                         *)
(* An answer names the authority because nobody is served before the       *)
(* generator has written it (ServedAfterWrite) and a request that has left *)
(* oauth.json behind has read it there (AuthoritySeen).  The cache settles *)
(* because whoever is under way once it is filled was so before            *)
(* (EarlyKnown).                                                           *)
(***************************************************************************)
EXTENDS InfoEndpoint, TLAPS

(* A service that serves has written its authority; one that does not has  *)
(* no request, no answer and nothing in its cache.                         *)
ServedAfterWrite ==
    /\ service = "serving" => folder[Oauth] = authority
    /\ service # "serving" =>
          cache = None /\ \A r \in Request : pc[r] = "idle" /\ answer[r] = None

(* Every request that reads has oauth.json before it, or in what it has    *)
(* seen; and so has the cache.                                             *)
AuthoritySeen ==
    /\ \A r \in Request : pc[r] = "read" => Oauth \in listed[r] \/ seen[r][Oauth] = authority
    /\ cache # None => cache[Oauth] = authority

(* A file a request has looked at since it began is no older than that.    *)
LooksLater ==
    \A r \in Request, f \in File :
        /\ since[r][f] <= changes[f]
        /\ pc[r] = "read" => asOf[r][f] >= since[r][f]

(* Once the cache holds an answer, the requests under way are those that   *)
(* were before; a service without a cache never fills it.                  *)
EarlyKnown ==
    /\ cacheDisabled => cache = None
    /\ cache # None => \A r \in Request : pc[r] # "idle" => r \in early

(* The inductive invariant.                                                *)
IInv == /\ TypeOK /\ ServedAfterWrite /\ AuthoritySeen /\ LooksLater /\ EarlyKnown
        /\ AnswersNameAuthority /\ UncachedAnswersAreFresh
----------------------------------------------------------------------------
(* The service is down and has never written anything.                     *)
LEMMA InitInv == Init => IInv
<1> SUFFICES ASSUME Init PROVE IInv  OBVIOUS
<1> USE InfoAssumption DEF Init
<1>1. TypeOK  BY DEF TypeOK, Content, Place, Object
<1>2. ServedAfterWrite /\ AuthoritySeen  BY DEF ServedAfterWrite, AuthoritySeen
<1>3. LooksLater /\ EarlyKnown  BY DEF LooksLater, EarlyKnown
<1>4. AnswersNameAuthority /\ UncachedAnswersAreFresh
  BY DEF AnswersNameAuthority, UncachedAnswersAreFresh
<1> QED  BY <1>1, <1>2, <1>3, <1>4 DEF IInv

(* A service that starts serves nobody yet.                                *)
LEMMA StartInv == \A a \in Authority : IInv /\ Start(a) => IInv'
<1> SUFFICES ASSUME NEW a \in Authority, IInv, Start(a) PROVE IInv'
  OBVIOUS
<1> USE InfoAssumption DEF IInv, TypeOK, Start,
       settings, requestVars, Place, Content, Object
<1>1. TypeOK'  OBVIOUS
<1>2. ServedAfterWrite'  BY DEF ServedAfterWrite
<1>3. AuthoritySeen'  BY DEF AuthoritySeen, ServedAfterWrite
<1>4. LooksLater'  BY DEF LooksLater
<1>5. EarlyKnown'  BY DEF EarlyKnown, ServedAfterWrite
<1>6. AnswersNameAuthority'  BY DEF AnswersNameAuthority, ServedAfterWrite, AuthoritySeen
<1>7. UncachedAnswersAreFresh'  BY DEF UncachedAnswersAreFresh, LooksLater, EarlyKnown
<1> QED  BY <1>1, <1>2, <1>3, <1>4, <1>5, <1>6, <1>7

(* The generator looks for an older file.                                  *)
LEMMA GenerateInv == IInv /\ Generate => IInv'
<1> SUFFICES ASSUME IInv, Generate PROVE IInv'  OBVIOUS
<1> USE InfoAssumption DEF IInv, TypeOK, Generate,
       settings, requestVars, Place, Content, Object
<1>1. TypeOK'  OBVIOUS
<1>2. ServedAfterWrite'  BY DEF ServedAfterWrite
<1>3. AuthoritySeen'  BY DEF AuthoritySeen, ServedAfterWrite
<1>4. LooksLater'  BY DEF LooksLater
<1>5. EarlyKnown'  BY DEF EarlyKnown, ServedAfterWrite
<1>6. AnswersNameAuthority'  BY DEF AnswersNameAuthority, ServedAfterWrite, AuthoritySeen
<1>7. UncachedAnswersAreFresh'  BY DEF UncachedAnswersAreFresh, LooksLater, EarlyKnown
<1> QED  BY <1>1, <1>2, <1>3, <1>4, <1>5, <1>6, <1>7

(* The generator removes the older file.                                   *)
LEMMA DeleteInv == IInv /\ Delete => IInv'
<1> SUFFICES ASSUME IInv, Delete PROVE IInv'  OBVIOUS
<1> USE InfoAssumption DEF IInv, TypeOK, Delete, Change,
       settings, requestVars, Place, Content, Object
<1>1. TypeOK'  OBVIOUS
<1>2. ServedAfterWrite'  BY DEF ServedAfterWrite
<1>3. AuthoritySeen'  BY DEF AuthoritySeen, ServedAfterWrite
<1>4. LooksLater'  BY DEF LooksLater
<1>5. EarlyKnown'  BY DEF EarlyKnown, ServedAfterWrite
<1>6. AnswersNameAuthority'  BY DEF AnswersNameAuthority, ServedAfterWrite, AuthoritySeen
<1>7. UncachedAnswersAreFresh'  BY DEF UncachedAnswersAreFresh, LooksLater, EarlyKnown
<1> QED  BY <1>1, <1>2, <1>3, <1>4, <1>5, <1>6, <1>7

(* The generator creates its file.                                         *)
LEMMA WriteInv == IInv /\ Write => IInv'
<1> SUFFICES ASSUME IInv, Write PROVE IInv'  OBVIOUS
<1> USE InfoAssumption DEF IInv, TypeOK, Write, Change,
       settings, requestVars, Place, Content, Object
<1>1. TypeOK'  OBVIOUS
<1>2. ServedAfterWrite'  BY DEF ServedAfterWrite
<1>3. AuthoritySeen'  BY DEF AuthoritySeen, ServedAfterWrite
<1>4. LooksLater'  BY DEF LooksLater
<1>5. EarlyKnown'  BY DEF EarlyKnown, ServedAfterWrite
<1>6. AnswersNameAuthority'  BY DEF AnswersNameAuthority, ServedAfterWrite, AuthoritySeen
<1>7. UncachedAnswersAreFresh'  BY DEF UncachedAnswersAreFresh, LooksLater, EarlyKnown
<1> QED  BY <1>1, <1>2, <1>3, <1>4, <1>5, <1>6, <1>7

(* The service serves once the authority is written.                       *)
LEMMA WrittenInv == IInv /\ Written => IInv'
<1> SUFFICES ASSUME IInv, Written PROVE IInv'  OBVIOUS
<1> USE InfoAssumption DEF IInv, TypeOK, Written, Change,
       settings, requestVars, Place, Content, Object
<1>1. TypeOK'  OBVIOUS
<1>2. ServedAfterWrite'  BY DEF ServedAfterWrite
<1>3. AuthoritySeen'  BY DEF AuthoritySeen, ServedAfterWrite
<1>4. LooksLater'  BY DEF LooksLater
<1>5. EarlyKnown'  BY DEF EarlyKnown, ServedAfterWrite
<1>6. AnswersNameAuthority'  BY DEF AnswersNameAuthority, ServedAfterWrite, AuthoritySeen
<1>7. UncachedAnswersAreFresh'  BY DEF UncachedAnswersAreFresh, LooksLater, EarlyKnown
<1> QED  BY <1>1, <1>2, <1>3, <1>4, <1>5, <1>6, <1>7

(* A crash ends the requests and empties the cache.                        *)
LEMMA CrashInv == IInv /\ Crash => IInv'
<1> SUFFICES ASSUME IInv, Crash PROVE IInv'  OBVIOUS
<1> USE InfoAssumption DEF IInv, TypeOK, Crash,
       settings, requestVars, Place, Content, Object
<1>1. TypeOK'  OBVIOUS
<1>2. ServedAfterWrite'  BY DEF ServedAfterWrite
<1>3. AuthoritySeen'  BY DEF AuthoritySeen, ServedAfterWrite
<1>4. LooksLater'  BY DEF LooksLater
<1>5. EarlyKnown'  BY DEF EarlyKnown, ServedAfterWrite
<1>6. AnswersNameAuthority'  BY DEF AnswersNameAuthority, ServedAfterWrite, AuthoritySeen
<1>7. UncachedAnswersAreFresh'  BY DEF UncachedAnswersAreFresh, LooksLater, EarlyKnown
<1> QED  BY <1>1, <1>2, <1>3, <1>4, <1>5, <1>6, <1>7

(* Others leave oauth.json alone.                                          *)
LEMMA EditFolderInv == \A f \in File : IInv /\ EditFolder(f) => IInv'
<1> SUFFICES ASSUME NEW f \in File, IInv, EditFolder(f) PROVE IInv'
  OBVIOUS
<1> USE InfoAssumption DEF IInv, TypeOK, EditFolder, Change,
       settings, requestVars, Place, Content, Object
<1>1. TypeOK'  OBVIOUS
<1>2. ServedAfterWrite'  BY DEF ServedAfterWrite
<1>3. AuthoritySeen'  BY DEF AuthoritySeen, ServedAfterWrite
<1>4. LooksLater'  BY DEF LooksLater
<1>5. EarlyKnown'  BY DEF EarlyKnown, ServedAfterWrite
<1>6. AnswersNameAuthority'  BY DEF AnswersNameAuthority, ServedAfterWrite, AuthoritySeen
<1>7. UncachedAnswersAreFresh'  BY DEF UncachedAnswersAreFresh, LooksLater, EarlyKnown
<1> QED  BY <1>1, <1>2, <1>3, <1>4, <1>5, <1>6, <1>7

(* A request begins, or is answered from the cache.                        *)
LEMMA LookupInv == \A r \in Request : IInv /\ Lookup(r) => IInv'
<1> SUFFICES ASSUME NEW r \in Request, IInv, Lookup(r) PROVE IInv'
  OBVIOUS
<1> USE InfoAssumption DEF IInv, TypeOK, Lookup, Reply,
       settings, requestVars, Place, Content, Object
<1>1. TypeOK'
  <2>1. since' \in [Request -> [File -> Nat]]  OBVIOUS
  <2>2. CASE ~cacheDisabled /\ cache # None
    <3>1. cache \in Object  BY <2>2
    <3>2. answer' = [answer EXCEPT ![r] = cache] /\ pc' = [pc EXCEPT ![r] = "idle"]  BY <2>2
    <3>3. answer' \in [Request -> {None, Error} \cup Object]  BY <3>1, <3>2
    <3>4. pc' \in [Request -> {"idle", "list", "read"}]  BY <3>2
    <3> QED  BY <2>1, <3>3, <3>4
  <2>3. CASE ~(~cacheDisabled /\ cache # None)
    <3>1. pc' = [pc EXCEPT ![r] = "list"] /\ UNCHANGED answer  BY <2>3
    <3>2. pc' \in [Request -> {"idle", "list", "read"}]  BY <3>1
    <3> QED  BY <2>1, <3>1, <3>2
  <2> QED  BY <2>2, <2>3
<1>2. ServedAfterWrite'  BY DEF ServedAfterWrite
<1>3. AuthoritySeen'  BY DEF AuthoritySeen, ServedAfterWrite
<1>4. LooksLater'  BY DEF LooksLater
<1>5. EarlyKnown'  BY DEF EarlyKnown, ServedAfterWrite
<1>6. AnswersNameAuthority'  BY DEF AnswersNameAuthority, ServedAfterWrite, AuthoritySeen
<1>7. UncachedAnswersAreFresh'  BY DEF UncachedAnswersAreFresh, LooksLater, EarlyKnown
<1> QED  BY <1>1, <1>2, <1>3, <1>4, <1>5, <1>6, <1>7

(* The list has the file that was written.                                 *)
LEMMA ListFilesInv == \A r \in Request : IInv /\ ListFiles(r) => IInv'
<1> SUFFICES ASSUME NEW r \in Request, IInv, ListFiles(r) PROVE IInv'
  OBVIOUS
<1> USE InfoAssumption DEF IInv, TypeOK, ListFiles,
       settings, requestVars, Place, Content, Object
<1>1. TypeOK'  OBVIOUS
<1>2. ServedAfterWrite'  BY DEF ServedAfterWrite
<1>3. AuthoritySeen'  BY DEF AuthoritySeen, ServedAfterWrite
<1>4. LooksLater'  BY DEF LooksLater
<1>5. EarlyKnown'  BY DEF EarlyKnown, ServedAfterWrite
<1>6. AnswersNameAuthority'  BY DEF AnswersNameAuthority, ServedAfterWrite, AuthoritySeen
<1>7. UncachedAnswersAreFresh'  BY DEF UncachedAnswersAreFresh, LooksLater, EarlyKnown
<1> QED  BY <1>1, <1>2, <1>3, <1>4, <1>5, <1>6, <1>7

(* What is read of oauth.json is the authority.                            *)
LEMMA ReadFileInv == \A r \in Request, f \in File : IInv /\ ReadFile(r, f) => IInv'
<1> SUFFICES ASSUME NEW r \in Request, NEW f \in File, IInv, ReadFile(r, f) PROVE IInv'
  OBVIOUS
<1> USE InfoAssumption DEF IInv, TypeOK, ReadFile, Reply,
       settings, requestVars, Place, Content, Object
<1>0. /\ UNCHANGED <<folder, changes, service, settings, cache, since, early>>
      /\ pc[r] = "read" /\ f \in listed[r]
      /\ \/ /\ answer' = [answer EXCEPT ![r] = Error] /\ pc' = [pc EXCEPT ![r] = "idle"]
            /\ UNCHANGED <<listed, seen, asOf>>
         \/ /\ listed' = [listed EXCEPT ![r] = @ \ {f}]
            /\ seen' = [seen EXCEPT ![r] = [@ EXCEPT ![f] = folder[f]]]
            /\ asOf' = [asOf EXCEPT ![r] = [@ EXCEPT ![f] = changes[f]]]
            /\ folder[f] \in Content
            /\ UNCHANGED <<pc, answer>>
  OBVIOUS
<1> HIDE DEF ReadFile
<1>1. TypeOK'
  <2>1. answer' \in [Request -> {None, Error} \cup Object]  BY <1>0
  <2>2. pc' \in [Request -> {"idle", "list", "read"}]  BY <1>0
  <2>3. listed' \in [Request -> SUBSET File]
    <3>1. CASE UNCHANGED listed  BY <3>1
    <3>2. CASE listed' = [listed EXCEPT ![r] = @ \ {f}]  BY <3>2
    <3> QED  BY <1>0, <3>1, <3>2
  <2>4. seen' \in [Request -> Object]
    <3>1. CASE UNCHANGED seen  BY <3>1
    <3>2. CASE seen' = [seen EXCEPT ![r] = [@ EXCEPT ![f] = folder[f]]] /\ folder[f] \in Content
      <4>1. [seen[r] EXCEPT ![f] = folder[f]] \in Object  BY <3>2
      <4> QED  BY <3>2, <4>1
    <3> QED  BY <1>0, <3>1, <3>2
  <2>5. asOf' \in [Request -> [File -> Nat]]
    <3>1. [asOf[r] EXCEPT ![f] = changes[f]] \in [File -> Nat]  OBVIOUS
    <3> QED  BY <1>0, <3>1
  <2> QED  BY <1>0, <2>1, <2>2, <2>3, <2>4, <2>5
<1>2. ServedAfterWrite'  BY <1>0 DEF ServedAfterWrite
<1>3. AuthoritySeen'
  <2>1. folder[Oauth] = authority  BY <1>0 DEF ServedAfterWrite
  <2>2. CASE UNCHANGED <<listed, seen>>  BY <1>0, <2>2 DEF AuthoritySeen
  <2>3. CASE /\ listed' = [listed EXCEPT ![r] = @ \ {f}]
             /\ seen' = [seen EXCEPT ![r] = [@ EXCEPT ![f] = folder[f]]]
    <3>1. Oauth \in listed'[r] \/ seen'[r][Oauth] = authority
      <4>1. CASE f = Oauth  BY <2>1, <2>3, <4>1
      <4>2. CASE f # Oauth
        <5>1. seen'[r][Oauth] = seen[r][Oauth]  BY <2>3, <4>2
        <5> QED  BY <1>0, <2>3, <4>2, <5>1 DEF AuthoritySeen
      <4> QED  BY <4>1, <4>2
    <3>2. \A q \in Request : q # r => listed'[q] = listed[q] /\ seen'[q] = seen[q]  BY <2>3
    <3>3. \A q \in Request : pc'[q] = "read" => pc[q] = "read"  BY <1>0
    <3>4. UNCHANGED <<authority, cache>>  BY <1>0
    <3> QED  BY <3>1, <3>2, <3>3, <3>4 DEF AuthoritySeen
  <2> QED  BY <1>0, <2>2, <2>3
<1>4. LooksLater'
  <2>1. \A q \in Request, g \in File : asOf'[q][g] = asOf[q][g] \/ asOf'[q][g] = changes[g]
    <3>1. CASE UNCHANGED asOf  BY <3>1
    <3>2. CASE asOf' = [asOf EXCEPT ![r] = [@ EXCEPT ![f] = changes[f]]]  BY <3>2
    <3> QED  BY <1>0, <3>1, <3>2
  <2>2. \A q \in Request : pc'[q] = "read" => pc[q] = "read"  BY <1>0
  <2>3. UNCHANGED <<changes, since>>  BY <1>0
  <2> QED  BY <2>1, <2>2, <2>3 DEF LooksLater
<1>5. EarlyKnown'  BY <1>0 DEF EarlyKnown, ServedAfterWrite
<1>6. AnswersNameAuthority'  BY <1>0 DEF AnswersNameAuthority, ServedAfterWrite, AuthoritySeen
<1>7. UncachedAnswersAreFresh'  BY <1>0 DEF UncachedAnswersAreFresh, LooksLater, EarlyKnown
<1> QED  BY <1>1, <1>2, <1>3, <1>4, <1>5, <1>6, <1>7

(* An answer has seen all that was listed.                                 *)
LEMMA AnswerInv == \A r \in Request : IInv /\ Answer(r) => IInv'
<1> SUFFICES ASSUME NEW r \in Request, IInv, Answer(r) PROVE IInv'
  OBVIOUS
<1> USE InfoAssumption DEF IInv, TypeOK, Answer, Reply,
       settings, requestVars, Place, Content, Object
<1>1. TypeOK'  OBVIOUS
<1>2. ServedAfterWrite'  BY DEF ServedAfterWrite
<1>3. AuthoritySeen'  BY DEF AuthoritySeen, ServedAfterWrite
<1>4. LooksLater'  BY DEF LooksLater
<1>5. EarlyKnown'  BY DEF EarlyKnown, ServedAfterWrite
<1>6. AnswersNameAuthority'  BY DEF AnswersNameAuthority, ServedAfterWrite, AuthoritySeen
<1>7. UncachedAnswersAreFresh'  BY DEF UncachedAnswersAreFresh, LooksLater, EarlyKnown
<1> QED  BY <1>1, <1>2, <1>3, <1>4, <1>5, <1>6, <1>7

(* Every step keeps the inductive invariant.                               *)
LEMMA NextInv == IInv /\ [Next]_vars => IInv'
<1> SUFFICES ASSUME IInv, [Next]_vars PROVE IInv'  OBVIOUS
<1>1. CASE \E a \in Authority : Start(a)  BY <1>1, StartInv
<1>2. CASE ServiceStep \/ Crash
  BY <1>2, GenerateInv, DeleteInv, WriteInv, WrittenInv, CrashInv DEF ServiceStep
<1>3. CASE \E f \in File : EditFolder(f)  BY <1>3, EditFolderInv
<1>4. CASE \E r \in Request : Lookup(r) \/ RequestStep(r)
  BY <1>4, LookupInv, ListFilesInv, ReadFileInv, AnswerInv DEF RequestStep
<1>5. CASE UNCHANGED vars
  BY <1>5 DEF vars, settings, requestVars, IInv, TypeOK, ServedAfterWrite, AuthoritySeen,
              LooksLater, EarlyKnown, AnswersNameAuthority, UncachedAnswersAreFresh
<1> QED  BY <1>1, <1>2, <1>3, <1>4, <1>5 DEF Next

(* The inductive invariant holds of every reachable state.                 *)
LEMMA Invariant == Spec => []IInv
BY InitInv, NextInv, PTL DEF Spec

(* The variables keep their types.                                         *)
THEOREM TypeCorrect == Spec => []TypeOK
<1>1. IInv => TypeOK  BY DEF IInv
<1> QED  BY <1>1, Invariant, PTL

(* Every answer names the authority of the service that gave it, wherever  *)
(* earlier services crashed and whatever theirs was.                       *)
THEOREM AuthorityNamed == Spec => []AnswersNameAuthority
<1>1. IInv => AnswersNameAuthority  BY DEF IInv
<1> QED  BY <1>1, Invariant, PTL

(* Without a cache no file in an answer is older than the request.         *)
THEOREM FreshAnswers == Spec => []UncachedAnswersAreFresh
<1>1. IInv => UncachedAnswersAreFresh  BY DEF IInv
<1> QED  BY <1>1, Invariant, PTL

(* A filled cache is replaced only by requests that were under way when it *)
(* was first filled.                                                       *)
THEOREM SettledCache == Spec => CacheSettles
<1>1. IInv => \A r \in Request : cache # None /\ Answer(r) => r \in early
  BY DEF IInv, EarlyKnown, Answer
<1>2. IInv => \A r \in Request : cache # None /\ Answer(r) /\ cache' # cache => r \in early
  BY <1>1
<1> QED  BY <1>2, Invariant, PTL DEF CacheSettles
=============================================================================
