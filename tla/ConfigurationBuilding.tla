----------------------- MODULE ConfigurationBuilding -----------------------
(***************************************************************************)
(* How the builders of one process get their configuration: the file of    *)
(* environment variables, the variable set and restored around the         *)
(* creation of a builder, the stack of providers and the expander on top   *)
(* of it.  Builders share the environment and nothing else.                *)
(*                                                                         *)
(* A text is a sequence of pieces; a piece in DOMAIN Reference is %VAR%.   *)
(* What the files hold does not change, and the variables that select      *)
(* folder and service are those of the process.  The .NET configuration    *)
(* manager and the default builder are external.                           *)
(*                                                                         *)
(* A definition whose name ends in Fault is the definition after it with a *)
(* plausible mistake; no specification uses it.                            *)
(***************************************************************************)
EXTENDS Integers, Sequences, FiniteSets, SequencesExt

CONSTANTS Builder,   \* the builders created in the process
          Key, Var,  \* configuration keys and environment variables
          None,      \* no value
          Reference, \* the pieces that refer to a variable, and to which
          EnvFile,   \* the lines of the file of variables: <<variable, text>>;
                     \* none of them sets "reload" or "host"
          Content,   \* what the files of a folder hold, by source and key
          Folder,    \* GetConfigFilesFolder
          Named,     \* SMUSDI_SERVICE_NAME is set
          Args,      \* what the command line gives, by key
          Later,     \* what a provider added by the application gives
          InitialEnv \* the environments the process may start in

ASSUME ConfigurationAssumption ==
    /\ {"reload", "host", "twice"} \subseteq Var
    /\ EnvFile \in Seq((Var \ {"reload", "host"}) \X {EnvFile[i][2] : i \in DOMAIN EnvFile})
    /\ \A e \in InitialEnv : e = [v \in Var |-> e[v]]
    /\ \A p \in DOMAIN Reference : Reference[p] \in Var
    /\ Folder \in DOMAIN Content /\ Named \in BOOLEAN

VARIABLES env,       \* the environment: "reload" is SMUSDI_APPSETTINGS_RELOAD_ON_CHANGE,
                     \* "host" DOTNET_HOSTBUILDER__RELOADCONFIGONCHANGE,
                     \* "twice" SMUSDI_EXPAND_ENV_TWICE
          at,        \* where a builder stands
          line,      \* the lines of EnvFile it has read
          original,  \* the value of "host" it has saved
          stack,     \* its sources, the one that wins last
          moved,     \* its file sources have lost their own folder
          watched,   \* its file sources with ReloadOnChange
          loaded,    \* the environment its provider has loaded
          taken,     \* how many providers the expander took at its first look-up
          given,     \* the value of "host" the process started with
          overlapped \* two builders have been between saving and restoring "host"

own == <<line, original, stack, moved, watched, loaded, taken>>
configVars == <<env, at, own, given, overlapped>>

Place == {"envFile",  \* in ReadEnvFileIfExists
          "save",     \* watching is off, at GetEnvironmentVariable
          "set",      \* at SetEnvironmentVariable
          "create",   \* at createBuilder(), watching on
          "creating", \* at createBuilder() in the try
          "restore",  \* in finally
          "rethrow",  \* in finally, createBuilder has thrown
          "init",     \* at InitConfiguration
          "ready", "failed"}
Saving == {"set", "creating", "restore", "rethrow"}

AppSettings == {"appsettings", "appsettingsEnv", "appsettingsService", "appsettingsServiceEnv"}
Defaults == <<"appsettings", "appsettingsEnv", "secrets", "environment", "commandLine">>

True == <<"True">>
False == <<"False">>

ConfigInit ==
    /\ env \in InitialEnv /\ given = env["host"]
    /\ at = [b \in Builder |-> "envFile"]
    /\ line = [b \in Builder |-> 0]
    /\ original = [b \in Builder |-> None]
    /\ stack = [b \in Builder |-> <<>>]
    /\ moved = [b \in Builder |-> FALSE]
    /\ watched = [b \in Builder |-> {}]
    /\ loaded = [b \in Builder |-> env]
    /\ taken = [b \in Builder |-> 0]
    /\ overlapped = FALSE

Go(b, place) == at' = [at EXCEPT ![b] = place]

(* Environment.ExpandEnvironmentVariables: a variable that is not set      *)
(* stays as it stands in the text.                                         *)
Expand(text) ==
    FlattenSeq([i \in DOMAIN text |->
        IF text[i] \in DOMAIN Reference /\ env[Reference[text[i]]] # None
        THEN env[Reference[text[i]]] ELSE <<text[i]>>])
----------------------------------------------------------------------------
(* One line sets one variable, to a text that may use those set before.    *)
ReadEnvLine(b) ==
    /\ at[b] = "envFile" /\ line[b] < Len(EnvFile)
    /\ line' = [line EXCEPT ![b] = @ + 1]
    /\ env' = [env EXCEPT ![EnvFile[line[b] + 1][1]] = Expand(EnvFile[line[b] + 1][2])]
    /\ UNCHANGED <<at, original, stack, moved, watched, loaded, taken, given, overlapped>>

(* bool.TryParse: only a text that spells false turns watching off.        *)
Watching == env["reload"] # False

BeginBuilder(b) ==
    /\ at[b] = "envFile" /\ line[b] = Len(EnvFile)
    /\ Go(b, IF Watching THEN "create" ELSE "save")
    /\ UNCHANGED <<env, own, given, overlapped>>

SaveVariable(b) ==
    /\ at[b] = "save"
    /\ original' = [original EXCEPT ![b] = env["host"]]
    /\ Go(b, "set")
    /\ overlapped' = (overlapped \/ \E q \in Builder : at[q] \in Saving)
    /\ UNCHANGED <<env, line, stack, moved, watched, loaded, taken, given>>

SetVariable(b) ==
    /\ at[b] = "set"
    /\ env' = [env EXCEPT !["host"] = False]
    /\ Go(b, "creating")
    /\ UNCHANGED <<own, given, overlapped>>

\* An exception skips the restoring.
CreateBuilderFault(b) ==
    /\ at[b] \in {"create", "creating"}
    /\ \/ /\ stack' = [stack EXCEPT ![b] = Defaults]
          /\ watched' = [watched EXCEPT ![b] =
                IF env["host"] = False THEN {} ELSE {"appsettings", "appsettingsEnv", "secrets"}]
          /\ loaded' = [loaded EXCEPT ![b] = env]
          /\ Go(b, IF at[b] = "create" THEN "init" ELSE "restore")
       \/ Go(b, "failed") /\ UNCHANGED <<stack, watched, loaded>>
    /\ UNCHANGED <<env, line, original, moved, taken, given, overlapped>>

(* The default builder reads "host" for its file sources, loads the        *)
(* providers, and may throw.                                               *)
CreateBuilder(b) ==
    /\ at[b] \in {"create", "creating"}
    /\ \/ /\ stack' = [stack EXCEPT ![b] = Defaults]
          /\ watched' = [watched EXCEPT ![b] =
                IF env["host"] = False THEN {} ELSE {"appsettings", "appsettingsEnv", "secrets"}]
          /\ loaded' = [loaded EXCEPT ![b] = env]
          /\ Go(b, IF at[b] = "create" THEN "init" ELSE "restore")
       \/ /\ Go(b, IF at[b] = "create" THEN "failed" ELSE "rethrow")
          /\ UNCHANGED <<stack, watched, loaded>>
    /\ UNCHANGED <<env, line, original, moved, taken, given, overlapped>>

RestoreVariable(b) ==
    /\ at[b] \in {"restore", "rethrow"}
    /\ env' = [env EXCEPT !["host"] = original[b]]
    /\ original' = [original EXCEPT ![b] = None]
    /\ Go(b, IF at[b] = "restore" THEN "init" ELSE "failed")
    /\ UNCHANGED <<line, stack, moved, watched, loaded, taken, given, overlapped>>
----------------------------------------------------------------------------
ServiceFiles == IF Named THEN <<"appsettingsService", "appsettingsServiceEnv">> ELSE <<>>

(* The texts that the sources hold, and what they are made of.             *)
Texts ==
    LET files == {"appsettings", "appsettingsEnv", "secrets"} \cup ToSet(ServiceFiles)
        held(values) == {values[x] : x \in DOMAIN values}
    IN {True, False} \cup {EnvFile[i][2] : i \in DOMAIN EnvFile}
       \cup held(Args) \cup held(Later)
       \cup (UNION {held(Content[Folder][source]) : source \in files})
       \cup ((UNION {held(e) : e \in InitialEnv}) \ {None})
Piece == UNION {ToSet(text) : text \in Texts}

(* A source holds texts; only the environment has variables without one.   *)
ASSUME TextsAssumption == Texts \subseteq Seq(Piece) /\ None \notin Seq(Piece)

\* The sources that exist go on watching.
InitConfigurationFault(b) ==
    /\ at[b] = "init"
    /\ \/ /\ stack' = [stack EXCEPT ![b] =
                @ \o ServiceFiles \o (IF DOMAIN Args # {} THEN <<"commandLine">> ELSE <<>>)
                  \o <<"expander">>]
          /\ moved' = [moved EXCEPT ![b] = TRUE]
          /\ watched' = [watched EXCEPT ![b] = @ \cup (IF Watching THEN ToSet(ServiceFiles) ELSE {})]
          /\ loaded' = [loaded EXCEPT ![b] = env]
          /\ Go(b, "ready")
       \/ Go(b, "failed") /\ UNCHANGED <<stack, moved, watched, loaded>>
    /\ UNCHANGED <<env, line, original, taken, given, overlapped>>

(* The sources of the default builder lose their folder (the secrets, too),*)
(* SetBasePath builds and loads their providers again, and the others      *)
(* come on top.  A file that cannot be read throws.                        *)
InitConfiguration(b) ==
    /\ at[b] = "init"
    /\ \/ /\ stack' = [stack EXCEPT ![b] =
                @ \o ServiceFiles \o (IF DOMAIN Args # {} THEN <<"commandLine">> ELSE <<>>)
                  \o <<"expander">>]
          /\ moved' = [moved EXCEPT ![b] = TRUE]
          /\ watched' = [watched EXCEPT ![b] =
                IF Watching THEN @ \cup {"appsettings", "appsettingsEnv"} \cup ToSet(ServiceFiles)
                            ELSE @ \ AppSettings]
          /\ loaded' = [loaded EXCEPT ![b] = env]
          /\ Go(b, "ready")
       \/ Go(b, "failed") /\ UNCHANGED <<stack, moved, watched, loaded>>
    /\ UNCHANGED <<env, line, original, taken, given, overlapped>>

(* The application adds a provider of its own, above the expander.         *)
AddProvider(b) ==
    /\ at[b] = "ready" /\ "later" \notin ToSet(stack[b])
    /\ stack' = [stack EXCEPT ![b] = Append(@, "later")]
    /\ UNCHANGED <<env, at, line, original, moved, watched, loaded, taken, given, overlapped>>

(* The first look-up makes the expander take the providers there are, as   *)
(* a root that loads them once more.                                       *)
FirstLookup(b) ==
    /\ at[b] = "ready" /\ taken[b] = 0
    /\ taken' = [taken EXCEPT ![b] = Len(stack[b])]
    /\ loaded' = [loaded EXCEPT ![b] = env]
    /\ UNCHANGED <<env, at, line, original, stack, moved, watched, given, overlapped>>
----------------------------------------------------------------------------
(* What a source of b holds, by key.                                       *)
Store(b, source) ==
    CASE source = "environment" -> [k \in {k \in Key \cap Var : loaded[b][k] # None} |-> loaded[b][k]]
      [] source = "commandLine" -> Args
      [] source = "later"       -> Later
      [] OTHER -> Content[IF moved[b] THEN Folder
                          ELSE IF source = "secrets" THEN "home" ELSE "working"][source]

(* The places of the first n sources of b that have the key.               *)
Having(b, k, n) ==
    {i \in 1..n : stack[b][i] # "expander" /\ k \in DOMAIN Store(b, stack[b][i])}

Topmost(b, k, places) == IF places = {} THEN None ELSE Store(b, stack[b][Max(places)])[k]

\* Never expanded twice.
TryGetFault(b, k) ==
    LET raw == Topmost(b, k, Having(b, k, taken[b]))
    IN IF raw \in {None, <<>>} \/ Expand(raw) = <<>> THEN None ELSE Expand(raw)

(* The expander: None where it returns false, so that the providers below  *)
(* it answer.                                                              *)
TryGet(b, k) ==
    LET raw == Topmost(b, k, Having(b, k, taken[b]))
        once == Expand(raw)
        again == /\ once # raw /\ ToSet(once) \cap DOMAIN Reference # {}
                 /\ env["twice"] = True
        value == IF again THEN Expand(once) ELSE once
    IN IF raw \in {None, <<>>} \/ value = <<>> THEN None ELSE value

(* The topmost provider that has the key answers, the expander in its turn.*)
Answer(b, k) ==
    LET all == Having(b, k, Len(stack[b]))
        above == {i \in all : \E j \in 1..(i - 1) : stack[b][j] = "expander"}
        expanded == TryGet(b, k)
    IN IF above # {} THEN Topmost(b, k, above)
       ELSE IF expanded # None THEN expanded
       ELSE Topmost(b, k, all)
----------------------------------------------------------------------------
Build(b) == \/ ReadEnvLine(b) \/ BeginBuilder(b)
            \/ SaveVariable(b) \/ SetVariable(b) \/ CreateBuilder(b) \/ RestoreVariable(b)
            \/ InitConfiguration(b)

Use(b) == AddProvider(b) \/ FirstLookup(b)
----------------------------------------------------------------------------
(* While no builder is between saving and restoring it, the variable has   *)
(* the value the process started with, also when a creation has thrown,    *)
(* unless two creations have overlapped; nothing but "False" ever takes    *)
(* its place (lines 72-84).                                                *)
VariableIsRestored ==
    /\ env["host"] \in {given, False}
    /\ ~overlapped /\ (\A b \in Builder : at[b] \notin Saving) => env["host"] = given

(* Whatever the builders do to each other, all appsettings files are       *)
(* watched or none is, as SMUSDI_APPSETTINGS_RELOAD_ON_CHANGE says; for    *)
(* other files that holds of builders that did not overlap (lines 21-44,   *)
(* 61-84).                                                                 *)
WatchingFollowsSetting ==
    \A b \in Builder : at[b] = "ready" =>
        /\ watched[b] \cap AppSettings = IF Watching THEN ToSet(stack[b]) \cap AppSettings ELSE {}
        /\ ~overlapped => ("secrets" \in watched[b] <=> Watching /\ given # False)

(* The documented order, what the service's own files say above what the   *)
(* shared ones and the environment say; secrets are where the default      *)
(* builder puts them.                                                      *)
Precedence ==
    <<"appsettings", "appsettingsEnv", "secrets", "environment">> \o ServiceFiles \o <<"commandLine">>

(* What pieces refer to: the pieces in the values of their variables.      *)
Within(pieces) ==
    UNION {ToSet(env[Reference[p]]) :
               p \in {q \in pieces \cap DOMAIN Reference : env[Reference[q]] # None}}

(* A look-up answers with what the first source in that order holds, its   *)
(* references replaced once, or twice where SMUSDI_EXPAND_ENV_TWICE asks   *)
(* for it, so that only references out of the texts of variables are left, *)
(* and none deeper; a text that expands to nothing answers as it stands.   *)
(* A provider added after the expander answers for its keys before all     *)
(* others and as it stands, be it there at the first look-up or added      *)
(* later (lines 33-53; EnvironmentVariablesExpanderProvider lines 11-36).  *)
AnswersFollowPrecedence ==
    \A b \in Builder, k \in Key : taken[b] # 0 =>
        LET holders == {i \in DOMAIN Precedence : k \in DOMAIN Store(b, Precedence[i])}
            text == Store(b, Precedence[Max(holders)])[k]
            twice == env["twice"] = True
            value == IF twice THEN Expand(Expand(text)) ELSE Expand(text)
            answer == Answer(b, k)
            left == {p \in ToSet(answer) \cap DOMAIN Reference : env[Reference[p]] # None}
            nested == Within(ToSet(text))
        IN IF "later" \in ToSet(stack[b]) /\ k \in DOMAIN Later THEN answer = Later[k]
           ELSE IF holders = {} THEN answer = None
           ELSE IF value = <<>> THEN answer = text
           ELSE answer = value /\ left \subseteq IF twice THEN Within(nested) ELSE nested
=============================================================================
