--------------------------- MODULE TestingService ---------------------------
(***************************************************************************)
(* SmusdiTestingService: a SmusdiService behind a TestServer, initialized, *)
(* started and disposed of by the steps and hooks of a test.               *)
(*                                                                         *)
(* Initialize belongs to the set-up and meets no other call; StartAsync    *)
(* and DisposeAsync, which protect themselves with Interlocked.Exchange,   *)
(* may come from any task at any moment; what stands between two awaits    *)
(* is one step.  The n-th call of Initialize makes SmusdiService n.  The   *)
(* web application (external) may fail to build, start, stop or be         *)
(* disposed of.                                                            *)
(*                                                                         *)
(* A definition whose name ends in Fault is the definition after it with a *)
(* plausible mistake; no specification uses it.                            *)
(***************************************************************************)
EXTENDS Integers, Sequences

CONSTANTS Task,       \* the tasks that start and dispose
          BeforeRun,  \* the registered IBeforeRun, in registration order
          MaxServices \* bound on the calls of Initialize

ASSUME TestingAssumption == /\ BeforeRun \in Seq({BeforeRun[i] : i \in DOMAIN BeforeRun})
                            /\ MaxServices \in Nat

VARIABLES made,      \* the calls of Initialize so far
          service,   \* this.SmusdiService, 0: null
          app,       \* the WebApplication of each SmusdiService
          server,    \* whose TestServer this.TestServer is, 0: null
          client,    \* whose server this.TestClient talks to, 0: null
          started,   \* this.started
          disposal,  \* "none", while this.disposed is 0; "begun"; how it ended
          executed,  \* the before-run implementations executed, by service
          pc,        \* where a task stands
          host,      \* the SmusdiService a task awaits, 0: none
          at,        \* the before-run implementations it has awaited
          raced,     \* StartAsync and DisposeAsync have overlapped
          abandoned  \* the services replaced, or made once it was disposed of

fields == <<made, service, app, server, client, started, disposal>>
vars == <<fields, executed, pc, host, at, raced, abandoned>>

Services == 1..MaxServices
App == {"null", "built", "started", "stopped", "disposed"}
Starting == {"beforeRun", \* in ExecuteBeforeRunImplementations
             "host",      \* at WebApplication.StartAsync
             "hosting",   \* in it
             "client"}    \* at TestServer.CreateClient
Disposing == {"stopping", \* in WebApplication.StopAsync
              "server",   \* at TestServer.Dispose
              "service"}  \* at SmusdiService.Dispose
PC == {"idle"} \cup Starting \cup Disposing

Init == /\ made = 0 /\ service = 0 /\ server = 0 /\ client = 0
        /\ app = [n \in Services |-> "null"]
        /\ started = FALSE /\ disposal = "none"
        /\ executed = [n \in Services |-> <<>>]
        /\ pc = [t \in Task |-> "idle"]
        /\ host = [t \in Task |-> 0]
        /\ at = [t \in Task |-> 0]
        /\ raced = FALSE /\ abandoned = {}

Goto(t, place) == pc' = [pc EXCEPT ![t] = place]
Let(n, state) == app' = [app EXCEPT ![n] = state]

(* this.SmusdiService != null && this.SmusdiService.WebApplication != null *)
HasApp == service # 0 /\ app[service] # "null"
----------------------------------------------------------------------------
(* The builder or Build throws (no application), ConfigureWebApplication   *)
(* throws (an application, the TestServer of before), or all goes well.    *)
Initialize ==
    /\ made < MaxServices /\ \A t \in Task : pc[t] = "idle"
    /\ made' = made + 1
    /\ service' = made + 1
    /\ \/ UNCHANGED <<app, server>>
       \/ Let(made + 1, "built") /\ server' \in {server, made + 1}
    /\ abandoned' = abandoned \cup (IF service # 0 THEN {service} ELSE {})
                              \cup (IF disposal # "none" THEN {made + 1} ELSE {})
    /\ UNCHANGED <<client, started, disposal, executed, pc, host, at, raced>>

\* Nothing keeps a second call out.
StartAsyncFault(t) ==
    /\ pc[t] = "idle"
    /\ started' = TRUE
    /\ Goto(t, IF HasApp THEN "beforeRun" ELSE "client")
    /\ host' = [host EXCEPT ![t] = IF HasApp THEN service ELSE 0]
    /\ raced' = (raced \/ \E q \in Task : pc[q] \in Disposing)
    /\ at' = [at EXCEPT ![t] = 0]
    /\ UNCHANGED <<made, service, app, server, client, disposal, executed, abandoned>>

(* A second call throws and changes nothing.                               *)
StartAsync(t) ==
    /\ pc[t] = "idle" /\ ~started
    /\ started' = TRUE
    /\ Goto(t, IF HasApp THEN "beforeRun" ELSE "client")
    /\ host' = [host EXCEPT ![t] = IF HasApp THEN service ELSE 0]
    /\ raced' = (raced \/ \E q \in Task : pc[q] \in Disposing)
    /\ at' = [at EXCEPT ![t] = 0]
    /\ UNCHANGED <<made, service, app, server, client, disposal, executed, abandoned>>

\* The call is over, but not what it awaits.
StartThrowsFault(t) == Goto(t, "idle") /\ UNCHANGED host

(* An exception ends StartAsync; `started` stays.                          *)
StartThrows(t) == Goto(t, "idle") /\ host' = [host EXCEPT ![t] = 0]

(* The next implementation is awaited, and may throw.                      *)
ExecuteBeforeRun(t) ==
    /\ pc[t] = "beforeRun" /\ at[t] < Len(BeforeRun)
    /\ \/ /\ executed' = [executed EXCEPT ![host[t]] = Append(@, BeforeRun[at[t] + 1])]
          /\ at' = [at EXCEPT ![t] = @ + 1]
          /\ UNCHANGED <<pc, host>>
       \/ StartThrows(t) /\ UNCHANGED <<executed, at>>
    /\ UNCHANGED <<fields, raced, abandoned>>

BeforeRunEnds(t) ==
    /\ pc[t] = "beforeRun" /\ at[t] = Len(BeforeRun)
    /\ Goto(t, "host")
    /\ host' = [host EXCEPT ![t] = 0]
    /\ UNCHANGED <<fields, executed, at, raced, abandoned>>

(* this.SmusdiService.WebApplication is read again behind the await: null  *)
(* if it has been disposed of meanwhile.                                   *)
StartHost(t) ==
    /\ pc[t] = "host"
    /\ IF HasApp
       THEN Goto(t, "hosting") /\ host' = [host EXCEPT ![t] = service]
       ELSE StartThrows(t)
    /\ UNCHANGED <<fields, executed, at, raced, abandoned>>

\* A failed start is swallowed.
HostStartsFault(t) ==
    /\ pc[t] = "hosting"
    /\ Let(host[t], "started") \/ UNCHANGED app
    /\ Goto(t, "client")
    /\ host' = [host EXCEPT ![t] = 0]
    /\ UNCHANGED <<made, service, server, client, started, disposal, executed, at, raced, abandoned>>

HostStarts(t) ==
    /\ pc[t] = "hosting"
    /\ \/ /\ app[host[t]] \in {"built", "stopped"}
          /\ Let(host[t], "started")
          /\ Goto(t, "client")
          /\ host' = [host EXCEPT ![t] = 0]
       \/ StartThrows(t) /\ UNCHANGED app
    /\ UNCHANGED <<made, service, server, client, started, disposal, executed, at, raced, abandoned>>

CreateClient(t) ==
    /\ pc[t] = "client"
    /\ client' = server
    /\ Goto(t, "idle")
    /\ UNCHANGED <<made, service, app, server, started, disposal, executed, host, at, raced, abandoned>>
----------------------------------------------------------------------------
\* The client is forgotten.
DisposeAsyncFault(t) ==
    /\ pc[t] = "idle" /\ disposal = "none"
    /\ disposal' = "begun"
    /\ Goto(t, IF HasApp THEN "stopping" ELSE "server")
    /\ host' = [host EXCEPT ![t] = IF HasApp THEN service ELSE 0]
    /\ raced' = (raced \/ \E q \in Task : pc[q] \in Starting)
    /\ UNCHANGED <<made, service, app, server, client, started, executed, at, abandoned>>

(* A second call returns and changes nothing.                              *)
DisposeAsync(t) ==
    /\ pc[t] = "idle" /\ disposal = "none"
    /\ disposal' = "begun"
    /\ client' = 0
    /\ Goto(t, IF HasApp THEN "stopping" ELSE "server")
    /\ host' = [host EXCEPT ![t] = IF HasApp THEN service ELSE 0]
    /\ raced' = (raced \/ \E q \in Task : pc[q] \in Starting)
    /\ UNCHANGED <<made, service, app, server, started, executed, at, abandoned>>

\* The stop waits for a start that may have failed or never come.
StopHostFault(t) ==
    /\ pc[t] = "stopping" /\ app[host[t]] = "started"
    /\ Let(host[t], "stopped") \/ UNCHANGED app
    /\ Goto(t, "server")
    /\ host' = [host EXCEPT ![t] = 0]
    /\ UNCHANGED <<made, service, server, client, started, disposal, executed, at, raced, abandoned>>

(* StopAsync returns, having stopped what had started, or throws, which is *)
(* swallowed.                                                              *)
StopHost(t) ==
    /\ pc[t] = "stopping"
    /\ Let(host[t], "stopped") \/ UNCHANGED app
    /\ Goto(t, "server")
    /\ host' = [host EXCEPT ![t] = 0]
    /\ UNCHANGED <<made, service, server, client, started, disposal, executed, at, raced, abandoned>>

DisposeServer(t) ==
    /\ pc[t] = "server"
    /\ server' = 0
    /\ Goto(t, "service")
    /\ UNCHANGED <<made, service, app, client, started, disposal, executed, host, at, raced, abandoned>>

(* SmusdiService.Dispose disposes of its WebApplication, which may throw.  *)
DisposeService(t) ==
    /\ pc[t] = "service"
    /\ \/ /\ disposal' = "returned"
          /\ service' = 0
          /\ IF HasApp THEN Let(service, "disposed") ELSE UNCHANGED app
       \/ /\ HasApp
          /\ disposal' = "threw"
          /\ UNCHANGED <<service, app>>
    /\ Goto(t, "idle")
    /\ UNCHANGED <<made, server, client, started, executed, host, at, raced, abandoned>>
----------------------------------------------------------------------------
Step(t) == \/ ExecuteBeforeRun(t) \/ BeforeRunEnds(t) \/ StartHost(t) \/ HostStarts(t)
           \/ CreateClient(t)
           \/ StopHost(t) \/ DisposeServer(t) \/ DisposeService(t)

Next == \/ Initialize
        \/ \E t \in Task : StartAsync(t) \/ DisposeAsync(t) \/ Step(t)

Safe == Init /\ [][Next]_vars

(* Before-run implementations end, and so do starting and stopping a host. *)
Spec == Safe /\ \A t \in Task : WF_vars(Step(t))
----------------------------------------------------------------------------
TypeOK == /\ made \in 0..MaxServices /\ service \in 0..made
          /\ app \in [Services -> App]
          /\ server \in 0..made /\ client \in 0..made
          /\ started \in BOOLEAN
          /\ disposal \in {"none", "begun", "returned", "threw"}
          /\ executed \in [Services -> Seq({BeforeRun[i] : i \in DOMAIN BeforeRun})]
          /\ pc \in [Task -> PC]
          /\ host \in [Task -> 0..made]
          /\ \A t \in Task : host[t] # 0 <=> pc[t] \in {"beforeRun", "hosting", "stopping"}
          /\ at \in [Task -> 0..Len(BeforeRun)]
          /\ raced \in BOOLEAN /\ abandoned \subseteq 1..made

(* A service serves only when every before-run implementation has been     *)
(* executed, once, in order, and to its end (lines 63-72; SmusdiService    *)
(* lines 225-241).                                                         *)
ServesAfterBeforeRun ==
    \A n \in Services : app[n] = "started" => executed[n] = BeforeRun

(* Between the calls of a test that has not disposed of its service, a     *)
(* client talks to an application that runs; only when a second Initialize *)
(* failed may it talk to the one replaced, which never started (lines      *)
(* 68-76).                                                                 *)
ClientIsServed ==
    client # 0 /\ disposal = "none" /\ (\A t \in Task : pc[t] = "idle") =>
        app[client] = "started" \/ client \in abandoned

(* When DisposeAsync has returned nothing is left of what had been made by *)
(* then: not the client, not the server, not the application, whether or   *)
(* not it was started and however the start ended, unless StartAsync ran   *)
(* at the same time.  Only a service that a second Initialize has replaced *)
(* is forgotten (lines 82-110).                                            *)
NothingIsLeft ==
    disposal = "returned" /\ ~raced =>
        \A n \in 1..made \ abandoned :
            app[n] \in {"null", "disposed"} /\ server # n /\ client # n

(* Every call ends.                                                        *)
CallsEnd == \A t \in Task : pc[t] # "idle" ~> pc[t] = "idle"
=============================================================================
