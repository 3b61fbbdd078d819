--------------------------- MODULE SchemeSelection ---------------------------
(***************************************************************************)
(* OAuthConfigurator: which authority's scheme authenticates a request,    *)
(* and which token that scheme reads.                                      *)
(*                                                                         *)
(* options has an authority `main` and a sequence `additional`; an         *)
(* authority has a name, url, issuer and header, and the last two may be   *)
(* None.  headers gives the value of each header: Absent, Empty, Garbled   *)
(* (no readable token) or a token with its issuer, and `bearer` for the    *)
(* word in front of it.                                                    *)
(*                                                                         *)
(* A definition whose name ends in Fault is the definition after it with a *)
(* plausible mistake; no specification uses it.                            *)
(***************************************************************************)
EXTENDS Integers, Sequences, SequencesExt

CONSTANTS None, Absent, Empty, Garbled

Or(value, default) == IF value = None THEN default ELSE value

Authorities(options) == <<options.main>> \o options.additional

IsToken(value) == value \notin {Absent, Empty, Garbled}

(* a.Issuer ?? a.Url, also what its tokens are checked against.            *)
IssuerOf(a) == Or(a.issuer, a.url)

HeaderIsPresent(a, headers) == a.header # None /\ headers[a.header] # Absent

(* a takes the token of the standard header, as its issuer.                *)
IssuedForStandard(a, headers) ==
    /\ a.header = None
    /\ IsToken(headers.authorization) /\ headers.authorization.issuer = IssuerOf(a)

\* The main authority's scheme whatever header a request has.
SelectFault(options, headers) ==
    LET issuers == SelectInSeq(Authorities(options), LAMBDA a : IssuedForStandard(a, headers))
    IN IF options.additional # <<>> /\ issuers # 0 THEN Authorities(options)[issuers]
       ELSE options.main

(* ForwardDefaultSelector: a header of its own before the issuer before    *)
(* the main authority.                                                     *)
Select(options, headers) ==
    LET all == Authorities(options)
        headed == SelectInSeq(all, LAMBDA a : HeaderIsPresent(a, headers))
        issuers == SelectInSeq(all, LAMBDA a : IssuedForStandard(a, headers))
    IN IF options.additional = <<>> THEN options.main
       ELSE IF headed # 0 THEN all[headed]
       ELSE IF issuers # 0 THEN all[issuers]
       ELSE options.main

(* OnMessageReceived, then the bearer handler (external), which wants the  *)
(* word Bearer in the standard header.  Absent: not authenticated.         *)
TokenOf(a, headers) ==
    IF a.header # None /\ headers[a.header] \notin {Absent, Empty} THEN headers[a.header]
    ELSE IF IsToken(headers.authorization) /\ headers.authorization.bearer
    THEN headers.authorization ELSE Absent
=============================================================================
