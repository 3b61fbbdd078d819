--------------------------- MODULE ServiceRequest ---------------------------
(***************************************************************************)
(* A service in its process: the builders get their configuration, one of  *)
(* them becomes an application whose reverse proxy settings are looked up  *)
(* in it, and a request passes the middleware of the application in order, *)
(* path base first, then authentication.                                   *)
(*                                                                         *)
(* The client calls the urls the OpenAPI document shows; the proxy in      *)
(* between (external) keeps the prefix, strips it, or stands in front of a *)
(* host that has moved it into the path base.  Calls come when every       *)
(* builder is done: a request reads neither environment nor configuration. *)
(***************************************************************************)
EXTENDS ConfigurationBuilding, PathBase

CONSTANTS Service,              \* the builder that becomes the application
          Options,              \* the oauth sections it may have
          Calls,                \* the paths of end points called, with the headers
          Absent, Empty, Garbled

INSTANCE SchemeSelection

ASSUME ServiceRequestAssumption ==
    /\ Service \in Builder
    /\ \A o \in Options : o.additional \in Seq(ToSet(o.additional))
    /\ \A call \in Calls :
          call[1] \in Seq(ToSet(call[1])) /\ (call[1] = <<>> \/ call[1][1] = "/")

VARIABLES oauth,    \* its oauth options, None: not there yet
          shown,    \* the servers url in its document, None: not there yet
          base,     \* the base path of its middleware, None: not there yet
          request,  \* the request on its way
          stage     \* what it has met; "none": there is no request

appVars == <<oauth, shown, base, request, stage>>
vars == <<configVars, appVars>>

NoRequest == [path |-> <<>>, pathBase |-> <<>>, rest |-> <<>>, proxy |-> "keeps", headers |-> None]

Init == /\ ConfigInit
        /\ oauth = None
        /\ shown = None /\ base = None
        /\ request = NoRequest /\ stage = "none"

(* A setting as the options binder reads it; null is like nothing.         *)
Setting(k) == Or(Answer(Service, k), <<>>)

(* Where this or the next step throws, no service is built.                *)
ConfigureOpenApi ==
    /\ at[Service] = "ready" /\ taken[Service] # 0 /\ shown = None
    /\ ~Refused(Setting("basePath")) /\ ~RefusedServer(Setting("server"))
    /\ shown' = GetOpenApiServerUrl(Setting("server"), GetBasePath(Setting("basePath")))
    /\ oauth' \in Options
    /\ UNCHANGED <<configVars, base, request, stage>>

ConfigureMiddleware ==
    /\ shown # None /\ base = None
    /\ ~Refused(Setting("basePath"))
    /\ base' = GetBasePath(Setting("basePath"))
    /\ UNCHANGED <<configVars, oauth, shown, request, stage>>

(* The part of a url behind its server.                                    *)
PathOf(url) == IF url # <<>> /\ Head(url) # "/" THEN Tail(url) ELSE url

(* A call of the end point at `rest` under the url shown.                  *)
Call(rest, headers) ==
    /\ base # None /\ stage = "none"
    /\ \A b \in Builder : at[b] \in {"ready", "failed"}
    /\ LET sent == PathOf(shown \o rest)
           prefix == TrimEnd(PathOf(shown), {"/"})
           inner == SubSeq(sent, Len(prefix) + 1, Len(sent))
       IN request' \in
            {[path |-> sent, pathBase |-> <<>>, rest |-> rest, proxy |-> "keeps", headers |-> headers],
             [path |-> inner, pathBase |-> <<>>, rest |-> rest, proxy |-> "strips", headers |-> headers],
             [path |-> inner, pathBase |-> prefix, rest |-> rest, proxy |-> "moves", headers |-> headers]}
    /\ stage' = "received"
    /\ UNCHANGED <<configVars, oauth, shown, base>>

Pass(from, to) == stage = from /\ stage' = to /\ UNCHANGED <<configVars, oauth, shown, base>>

StripPrefix == Pass("received", "stripped") /\ request' = UsePathBase(base, request)
EnsurePrefix == Pass("stripped", "authenticating") /\ request' = AddPathBase(base, request)
Served == Pass("authenticating", "none") /\ request' = NoRequest

Next == \/ ((\E b \in Builder : Build(b)) \/ Use(Service)) /\ UNCHANGED appVars
        \/ ConfigureOpenApi \/ ConfigureMiddleware
        \/ \E call \in Calls : Call(call[1], call[2])
        \/ StripPrefix \/ EnsurePrefix \/ Served

Spec == Init /\ [][Next]_vars
----------------------------------------------------------------------------
(* An end point called by the url the document shows is reached under its  *)
(* own path, with the prefix once in the path base, whatever the proxy     *)
(* does with the prefix.  A path that repeats the prefix is ambiguous      *)
(* where the prefix has been taken off, and a setting of slashes only is   *)
(* no prefix (ReverseProxySetup lines 45-99).                              *)
ClientUrlIsKept ==
    stage = "authenticating" /\ base # <<"/">> =>
        \/ request.path = request.rest /\ request.pathBase = base
        \/ request.proxy # "keeps" /\ base # <<>> /\ StartsWithSegments(request.rest, base)

(* The scheme of a finds a token that is issued by whom a trusts.          *)
Accepts(a, headers) ==
    IsToken(TokenOf(a, headers)) /\ TokenOf(a, headers).issuer = IssuerOf(a)

(* A request addresses the authorities whose header it has, be the header  *)
(* empty.  If it addresses none, it is authenticated exactly when the main *)
(* authority or one without a header of its own accepts its token; else    *)
(* the authorities addressed decide, and a token they would not accept is  *)
(* not made up for by a good one in the standard header (OAuthConfigurator *)
(* lines 42-91, OauthAuthority lines 59-79).  The issuer an authority      *)
(* trusts is its Issuer and, only if it has none, its Url: README.md line  *)
(* 286 of the repository says the authority used is the one whose Url is   *)
(* the token's issuer, which the code does not do for one with an Issuer.  *)
GoodTokenMeetsItsAuthority ==
    stage = "authenticating" =>
        LET h == request.headers
            selected == Select(oauth, h)
            all == ToSet(Authorities(oauth))
            addressed == {a \in all : HeaderIsPresent(a, h)}
            trusted == {a \in all : Accepts(a, h)}
        IN IF addressed = {}
           THEN Accepts(selected, h) <=> \E a \in trusted : a.header = None \/ a = oauth.main
           ELSE /\ Accepts(selected, h) => addressed \cap trusted # {}
                /\ addressed \subseteq trusted => Accepts(selected, h)
=============================================================================
