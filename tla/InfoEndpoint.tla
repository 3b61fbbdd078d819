---------------------------- MODULE InfoEndpoint ----------------------------
(***************************************************************************)
(* The /info endpoint of a service and the OauthInfoFileGenerator that     *)
(* runs before it, which meet in the folder of custom informations: the    *)
(* generator replaces oauth.json at every start, others change the rest of *)
(* the folder at any time, and concurrent requests read the folder file by *)
(* file unless the memory cache holds an answer.  The service may crash at *)
(* any point and start again with other settings.  The folder is           *)
(* configured and exists (lines 38 and 15 of the two files): without it    *)
(* the generator does nothing and every answer is the endpoint's own.      *)
(*                                                                         *)
(* A definition whose name ends in Fault is the definition after it with a *)
(* plausible mistake; no specification uses it.                            *)
(***************************************************************************)
EXTENDS Integers, FiniteSets

CONSTANTS Request,       \* the requests that may be under way at once
          File,          \* the names of *.json files, oauth.json among them
          Oauth,         \* oauth.json
          Authority,     \* MainAuthority.Url, by configuration
          CacheSettings, \* the values SmusdiOptions.InfoCacheDisabled may have
          None, Error,   \* no answer or cached object yet; a failed request
          MaxChanges     \* bound on the changes of a file by others; the service no
                         \* longer crashes once oauth.json has seen twice as many

ASSUME InfoAssumption == /\ Oauth \in File
                         /\ "absent" \notin Authority
                         /\ CacheSettings \subseteq BOOLEAN
                         /\ MaxChanges \in Nat

VARIABLES folder,   \* [File -> "absent" | "broken" | a content]
          changes,  \* how often each file has changed
          service,  \* where the service stands
          authority,\* the authority it is configured with
          cacheDisabled, \* and its SmusdiOptions.InfoCacheDisabled
          cache,    \* the cached answer, or None
          pc,       \* where a request stands
          listed,   \* the files it still has to read
          seen,     \* its jsonObject: the content of each file, or "absent"
          asOf,     \* changes[f] when it looked at f
          since,    \* changes when it looked up the cache
          answer,   \* what it was answered: None, Error or a jsonObject
          early     \* the requests under way since before the cache was filled

requestVars == <<pc, listed, seen, asOf, since, answer, early>>
settings == <<authority, cacheDisabled>>
vars == <<folder, changes, service, settings, cache, requestVars>>

Place == {"down", "generate", "delete", "write", "writing", "serving"}
Content == {"some"} \cup Authority

Init == /\ folder \in {g \in [File -> {"absent", "some", "broken"}] : g[Oauth] = "absent"}
        /\ changes = [f \in File |-> 0]
        /\ service = "down"
        /\ authority \in Authority
        /\ cacheDisabled \in CacheSettings
        /\ cache = None
        /\ pc = [r \in Request |-> "idle"]
        /\ listed = [r \in Request |-> {}]
        /\ seen = [r \in Request |-> [f \in File |-> "absent"]]
        /\ asOf = [r \in Request |-> changes]
        /\ since = [r \in Request |-> changes]
        /\ answer = [r \in Request |-> None]
        /\ early = {}

Change(f, content) == /\ folder' = [folder EXCEPT ![f] = content]
                      /\ changes' = [changes EXCEPT ![f] = @ + 1]
---------------------------------------------------------------------------
(* The service, up to its run.                                             *)
Start(a) == /\ service = "down"
            /\ authority' = a
            /\ service' = "generate"
            /\ UNCHANGED <<folder, changes, cacheDisabled, cache, requestVars>>

\* A file that is there is good.
GenerateFault == /\ service = "generate"
                 /\ service' = IF folder[Oauth] = "absent" THEN "write" ELSE "serving"
                 /\ UNCHANGED <<folder, changes, settings, cache, requestVars>>

(* OauthInfoFileGenerator.Execute                                          *)
Generate == /\ service = "generate"
            /\ service' = IF folder[Oauth] = "absent" THEN "write" ELSE "delete"
            /\ UNCHANGED <<folder, changes, settings, cache, requestVars>>

Delete == /\ service = "delete"
          /\ Change(Oauth, "absent")
          /\ service' = "write"
          /\ UNCHANGED <<settings, cache, requestVars>>

(* WriteAllText creates the file, then fills it.                           *)
Write == /\ service = "write"
         /\ Change(Oauth, "broken")
         /\ service' = "writing"
         /\ UNCHANGED <<settings, cache, requestVars>>

Written == /\ service = "writing"
           /\ Change(Oauth, authority)
           /\ service' = "serving"
           /\ UNCHANGED <<settings, cache, requestVars>>

(* A step of the generator may throw too: the exception ends the process.  *)
Crash == /\ service # "down" /\ changes[Oauth] < 2 * MaxChanges
         /\ service' = "down"
         /\ cache' = None
         /\ pc' = [r \in Request |-> "idle"]
         /\ answer' = [r \in Request |-> None]
         /\ early' = {}
         /\ UNCHANGED <<folder, changes, settings, listed, seen, asOf, since>>

EditFolder(f) == /\ f # Oauth /\ changes[f] < MaxChanges
                 /\ \E content \in {"absent", "broken", "some"} \ {folder[f]} :
                       Change(f, content)
                 /\ UNCHANGED <<service, settings, cache, requestVars>>
---------------------------------------------------------------------------
(* A request ends with an answer.                                          *)
Reply(r, a) == /\ pc' = [pc EXCEPT ![r] = "idle"]
               /\ answer' = [answer EXCEPT ![r] = a]

\* The cache is not asked.
LookupFault(r) ==
    /\ service = "serving" /\ pc[r] = "idle"
    /\ since' = [since EXCEPT ![r] = changes]
    /\ pc' = [pc EXCEPT ![r] = "list"]
    /\ UNCHANGED <<folder, changes, service, settings, cache, listed, seen, asOf, answer, early>>

Lookup(r) ==
    /\ service = "serving" /\ pc[r] = "idle"
    /\ since' = [since EXCEPT ![r] = changes]
    /\ IF ~cacheDisabled /\ cache # None
       THEN Reply(r, cache)
       ELSE pc' = [pc EXCEPT ![r] = "list"] /\ UNCHANGED answer
    /\ UNCHANGED <<folder, changes, service, settings, cache, listed, seen, asOf, early>>

\* The jsonObject of the last answer is completed, not built anew.
ListFilesFault(r) ==
    /\ pc[r] = "list"
    /\ IF answer[r] \in {None, Error}
       THEN /\ listed' = [listed EXCEPT ![r] = {f \in File : folder[f] # "absent"}]
            /\ seen' = [seen EXCEPT ![r] = [f \in File |-> "absent"]]
            /\ asOf' = [asOf EXCEPT ![r] = changes]
       ELSE UNCHANGED <<listed, seen, asOf>>
    /\ pc' = [pc EXCEPT ![r] = "read"]
    /\ UNCHANGED <<folder, changes, service, settings, cache, since, answer, early>>

(* Directory.GetFiles                                                      *)
ListFiles(r) ==
    /\ pc[r] = "list"
    /\ listed' = [listed EXCEPT ![r] = {f \in File : folder[f] # "absent"}]
    /\ seen' = [seen EXCEPT ![r] = [f \in File |-> "absent"]]
    /\ asOf' = [asOf EXCEPT ![r] = changes]
    /\ pc' = [pc EXCEPT ![r] = "read"]
    /\ UNCHANGED <<folder, changes, service, settings, cache, since, answer, early>>

\* A file that cannot be parsed is taken as it is.
ReadFileFault(r, f) ==
    /\ pc[r] = "read" /\ f \in listed[r]
    /\ listed' = [listed EXCEPT ![r] = @ \ {f}]
    /\ seen' = [seen EXCEPT ![r][f] = folder[f]]
    /\ asOf' = [asOf EXCEPT ![r][f] = changes[f]]
    /\ UNCHANGED <<folder, changes, service, settings, cache, pc, since, answer, early>>

(* A file that is gone or cannot be parsed makes the whole request fail;   *)
(* one with the name of a member already there does so too, and counts as  *)
(* broken.                                                                 *)
ReadFile(r, f) ==
    /\ pc[r] = "read" /\ f \in listed[r]
    /\ IF folder[f] \in {"absent", "broken"}
       THEN Reply(r, Error) /\ UNCHANGED <<listed, seen, asOf>>
       ELSE /\ listed' = [listed EXCEPT ![r] = @ \ {f}]
            /\ seen' = [seen EXCEPT ![r][f] = folder[f]]
            /\ asOf' = [asOf EXCEPT ![r][f] = changes[f]]
            /\ UNCHANGED <<pc, answer>>
    /\ UNCHANGED <<folder, changes, service, settings, cache, since, early>>

Answer(r) ==
    /\ pc[r] = "read" /\ listed[r] = {}
    /\ Reply(r, seen[r])
    /\ IF cacheDisabled
       THEN UNCHANGED <<cache, early>>
       ELSE /\ cache' = seen[r]
            /\ early' = IF cache = None THEN {q \in Request : pc[q] # "idle"} \ {r}
                        ELSE early \ {r}
    /\ UNCHANGED <<folder, changes, service, settings, listed, seen, asOf, since>>
---------------------------------------------------------------------------
ServiceStep == Generate \/ Delete \/ Write \/ Written
RequestStep(r) == ListFiles(r) \/ (\E f \in File : ReadFile(r, f)) \/ Answer(r)
Next == \/ \E a \in Authority : Start(a)
        \/ ServiceStep \/ Crash
        \/ \E f \in File : EditFolder(f)
        \/ \E r \in Request : Lookup(r) \/ RequestStep(r)

Spec == Init /\ [][Next]_vars
---------------------------------------------------------------------------
Object == [File -> Content \cup {"absent"}]
TypeOK == /\ folder \in [File -> Content \cup {"absent", "broken"}]
          /\ changes \in [File -> Nat]
          /\ service \in Place
          /\ authority \in Authority
          /\ cacheDisabled \in BOOLEAN
          /\ cache = None \/ cache \in Object
          /\ pc \in [Request -> {"idle", "list", "read"}]
          /\ listed \in [Request -> SUBSET File]
          /\ seen \in [Request -> Object]
          /\ asOf \in [Request -> [File -> Nat]]
          /\ since \in [Request -> [File -> Nat]]
          /\ answer \in [Request -> {None, Error} \cup Object]
          /\ early \subseteq Request

(* Wherever an earlier start has crashed, and whatever authority it had,   *)
(* every answer a running service gives names the authority it is          *)
(* configured with now (OauthInfoFileGenerator lines 25-32, before the     *)
(* service runs).                                                          *)
AnswersNameAuthority ==
    \A r \in Request : answer[r] \notin {None, Error} => answer[r][Oauth] = authority

(* With the cache disabled an answer is up to date: no file in it is older *)
(* than the request (WebApplicationExtensions lines 17, 38-44).            *)
UncachedAnswersAreFresh ==
    \A r \in Request :
        cacheDisabled /\ pc[r] = "idle" /\ answer[r] \notin {None, Error} =>
            \A f \in File : asOf[r][f] >= since[r][f]

(* The cache settles: what it holds is replaced only by requests that were *)
(* under way when it was first filled, and each of them does so once       *)
(* (lines 17-20 and 46-49; there is no lock).                              *)
CacheSettles ==
    [][\A r \in Request :
          cache # None /\ Answer(r) /\ cache' # cache => r \in early]_vars
============================================================================
