------------------------------ MODULE PathBase ------------------------------
(***************************************************************************)
(* The path prefix behind a reverse proxy: what ReverseProxySetup makes of *)
(* smusdi:reverseProxy, what its middleware does to a request, and the     *)
(* servers url of the OpenAPI document.                                    *)
(*                                                                         *)
(* A path, a setting or a url is a sequence of pieces: "/", " ", names.    *)
(* Letters are compared in one case, as the code does.                     *)
(*                                                                         *)
(* A definition whose name ends in Fault is the definition after it with a *)
(* plausible mistake; no specification uses it.                            *)
(***************************************************************************)
EXTENDS Integers, Sequences, FiniteSetsExt, SequencesExt

(* Pieces a base path must not hold: \ ? #                                 *)
Forbidden == {"\\", "?", "#"}

(* Pieces that make a url absolute, with a scheme the server may have.     *)
Origins == {"http://host", "https://host"}

Trim(s, pieces) ==
    LET kept == {i \in DOMAIN s : s[i] \notin pieces}
    IN IF kept = {} THEN <<>> ELSE SubSeq(s, Min(kept), Max(kept))

TrimEnd(s, pieces) ==
    LET kept == {i \in DOMAIN s : s[i] \notin pieces}
    IN IF kept = {} THEN <<>> ELSE SubSeq(s, 1, Max(kept))

IsBlank(s) == ToSet(s) \subseteq {" "}

(* <<>>: no base path.                                                     *)
GetBasePath(configured) ==
    IF IsBlank(configured) \/ Trim(configured, {" "}) = <<"/">> THEN <<>>
    ELSE <<"/">> \o Trim(Trim(configured, {" "}), {"/"})

(* GetBasePath throws.                                                     *)
Refused(configured) == ToSet(GetBasePath(configured)) \cap Forbidden # {}

ServerOf(server) == TrimEnd(Trim(server, {" "}), {"/"})

(* GetOpenApiServerUrl throws.                                             *)
RefusedServer(server) ==
    ~IsBlank(ServerOf(server)) /\ (ServerOf(server)[1] \notin Origins
                                   \/ ToSet(ServerOf(server)) \cap {"?", "#"} # {})

(* The url of the document's servers entry, which may be empty.            *)
GetOpenApiServerUrl(server, base) ==
    IF IsBlank(ServerOf(server)) THEN base ELSE ServerOf(server) \o base

(* PathString.Add (external): a slash at the end gives way.                *)
AddPath(s, t) ==
    IF s # <<>> /\ t # <<>> /\ Last(s) = "/" THEN Front(s) \o t ELSE s \o t

(* PathString.StartsWithSegments (external).                               *)
StartsWithSegments(path, base) ==
    /\ IsPrefix(base, path)
    /\ Len(path) = Len(base) \/ path[Len(base) + 1] = "/"

(* UsePathBaseMiddleware (external); UsePathBase installs none for "/".    *)
UsePathBase(base, request) ==
    LET prefix == TrimEnd(base, {"/"})
    IN IF prefix # <<>> /\ StartsWithSegments(request.path, prefix)
       THEN [request EXCEPT !.path = SubSeq(@, Len(prefix) + 1, Len(@)),
                            !.pathBase = AddPath(@, prefix)]
       ELSE request

\* The prefix is added to what the first middleware has found, too.
AddPathBaseFault(base, request) ==
    IF base = <<>> THEN request ELSE [request EXCEPT !.pathBase = AddPath(@, base)]

(* The second middleware: a proxy has stripped the prefix.                 *)
AddPathBase(base, request) ==
    IF base = <<>> \/ IsSuffix(base, request.pathBase) THEN request
    ELSE [request EXCEPT !.pathBase = AddPath(@, base)]
=============================================================================
