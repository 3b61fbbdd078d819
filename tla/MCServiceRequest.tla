-------------------------- MODULE MCServiceRequest --------------------------
(* An instance of ServiceRequest for TLC: two builders, prefixes written   *)
(* in five ways, tokens in and out of place.                               *)
EXTENDS ServiceRequest

MCKey == {"basePath", "server", "shared", "service", "arguments", "secret", "nested", "empty", "hollow", "unset"}
MCVar == {"reload", "host", "twice", "BASE", "VER", "NEST", "EMPTY", "HOLLOW", "UNSET", "basePath", "server"}
MCReference == [p \in {"%BASE%", "%VER%", "%NEST%", "%EMPTY%", "%HOLLOW%", "%UNSET%"} |->
                   CASE p = "%BASE%" -> "BASE" [] p = "%VER%" -> "VER"
                     [] p = "%NEST%" -> "NEST" [] p = "%EMPTY%" -> "EMPTY"
                     [] p = "%HOLLOW%" -> "HOLLOW" [] OTHER -> "UNSET"]
MCEnvFile == << <<"VER", <<"v1">> >>, <<"BASE", <<"/", "api", "/", "%VER%">> >> >>

Nothing == [k \in {} |-> None]
MCContent ==
    [working |-> [appsettings |-> [shared |-> <<"old">>, unset |-> <<"old">>],
                  appsettingsEnv |-> Nothing],
     home |-> [secrets |-> [secret |-> <<"secret">>]],
     sub |-> [appsettings |-> [basePath |-> <<" ", "%BASE%", "/">>, server |-> <<"https://host", "/">>,
                               shared |-> <<"x">>, service |-> <<"shared">>, nested |-> <<"%NEST%", "/">>,
                               empty |-> <<"%EMPTY%">>, hollow |-> <<"%HOLLOW%">>, unset |-> <<"%UNSET%">>],
              appsettingsEnv |-> [shared |-> <<"%VER%">>, arguments |-> <<"env">>],
              appsettingsService |-> [service |-> <<"own">>],
              appsettingsServiceEnv |-> [service |-> <<"ownEnv">>, arguments |-> <<"ownEnv">>],
              secrets |-> [secret |-> <<"folder">>]]]
MCArgs == [arguments |-> <<"given">>]
MCLater == [shared |-> <<"%VER%">>]

Environment(r, h, t, p, s) ==
    [v \in MCVar |-> CASE v = "reload" -> r [] v = "host" -> h [] v = "twice" -> t
                       [] v = "NEST" -> <<"%VER%">> [] v = "EMPTY" -> <<>>
                       [] v = "HOLLOW" -> <<"%EMPTY%">>
                       [] v = "basePath" -> p [] v = "server" -> s [] OTHER -> None]
MCInitialEnv ==
    {Environment(None, h, None, None, None) : h \in {None, <<"True">>}}
    \cup {Environment(r, None, t, None, None) : r \in {None, <<"False">>}, t \in {None, <<"True">>}}
    \cup {Environment(<<"False">>, <<"True">>, <<"True">>, None, None)}
    \cup {Environment(None, None, None, p, s) :
              p \in {<<"/">>, <<"api">>, <<"/", "?">>},
              s \in {<<"/">>, <<"http://host", "?">>}}
    \cup {Environment(None, None, None, <<"/", "/">>, <<" ">>)}

Main == [name |-> "main", url |-> "um", issuer |-> None, header |-> None]
Headed == [name |-> "headed", url |-> "uh", issuer |-> "ih", header |-> "own"]
Third == [name |-> "third", url |-> "ut", issuer |-> "it", header |-> None]
Other == [name |-> "other", url |-> "uo", issuer |-> None, header |-> "other"]
MCOptions == {[main |-> Main, additional |-> <<>>],
              [main |-> Main, additional |-> <<Headed, Third, Other>>],
              [main |-> Headed, additional |-> <<Third>>]}

Token(i, b) == [issuer |-> i, bearer |-> b]
Header(standard, first, second) == [authorization |-> standard, own |-> first, other |-> second]
MCCalls == {<<rest, Header(Token("um", TRUE), Absent, Absent)>> :
               rest \in {<<"/">>, <<"/", "x">>, <<"/", "api", "/", "v1", "/", "x">>, <<"/", "api", "x">>}}
           \cup {<< <<"/">>, Header(standard, Absent, Absent)>> :
                     standard \in {Absent, Token("ih", TRUE), Token("it", FALSE), Token("ut", TRUE)}}
           \cup {<< <<"/">>, Header(Token("um", TRUE), first, Absent)>> :
                     first \in {Empty, Garbled, Token("it", FALSE)}}
           \cup {<< <<"/">>, Header(Absent, Token("ih", FALSE), Absent)>>,
                 << <<"/">>, Header(Token("um", TRUE), Token("ih", FALSE), Token("uo", FALSE))>>,
                 << <<"/">>, Header(Token("um", TRUE), Garbled, Token("uo", FALSE))>>}
=============================================================================
