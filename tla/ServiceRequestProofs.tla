------------------------ MODULE ServiceRequestProofs ------------------------
(***************************************************************************)
(* What TLAPS proves of ServiceRequest, for any number of builders, any    *)
(* sources, authorities, paths and calls, and any file of variables that   *)
(* leaves the two variables of reloading alone.                            *)
(*                                                                         *)
(* VariableIsRestored is not inductive: it says nothing of the value a     *)
(* builder has saved, nor that only one is between saving and restoring.   *)
(* SavedIsGiven says so of a process in which no two creations have        *)
(* overlapped.  WatchingFollowsSetting rests on it: the default builder    *)
(* reads what is in the variable then (CreatedWithSetting), and what       *)
(* InitConfiguration adds to its sources is known (StackIsKnown).          *)
(*                                                                         *)
(* GoodTokenMeetsItsAuthority is about a choice among the authorities:     *)
(* SelectFacts says what is at the first place with the right header, and  *)
(* that nothing before it has.  ClientUrlIsKept is about two middlewares   *)
(* and a proxy, any of which may find nothing to do: PathsKnown and the    *)
(* lemmas on texts say what is left of the path for each of them.          *)
(*                                                                         *)
(* AnswersFollowPrecedence is about expanding a text: what FlattenSeq      *)
(* returns is found by looking for the first place at which it returned    *)
(* something else (FlatteningExists, FlattenFacts, FlattenPieces), and the *)
(* places of the sources are compared with the documented order one by one *)
(* (PlacesFollowOrder).  FinishedKnown says when the expander took them.   *)
(***************************************************************************)
EXTENDS ServiceRequest, FiniteSetTheorems, SequenceTheorems, WellFoundedInduction, TLAPS

(* The environment keeps its variables, and every builder has its place.   *)
ConfigShape ==
    /\ env = [v \in Var |-> env[v]]
    /\ at \in [Builder -> Place]
    /\ original = [b \in Builder |-> original[b]]
    /\ line \in [Builder -> 0..Len(EnvFile)]

(* What is saved was in the variable, which was set to False at most.      *)
HostIsGivenOrFalse ==
    /\ env["host"] \in {given, False}
    /\ \A b \in Builder : at[b] \in Saving => original[b] \in {given, False}

(* Without overlapping, one builder holds the value of the process, and    *)
(* the variable has it unless that builder has set it.                     *)
SavedIsGiven ==
    ~overlapped =>
        /\ \A b, q \in Builder : at[b] \in Saving /\ at[q] \in Saving => b = q
        /\ \A b \in Builder : at[b] \in Saving => original[b] = given
        /\ \A b \in Builder : at[b] \in Saving \ {"set"} => env["host"] = False
        /\ (\A b \in Builder : at[b] \notin Saving \ {"set"}) => env["host"] = given

RestoringInv == ConfigShape /\ HostIsGivenOrFalse /\ SavedIsGiven
----------------------------------------------------------------------------
(* Every builder begins in front of the file of variables.                 *)
LEMMA InitRestoring == Init => RestoringInv
<1> SUFFICES ASSUME Init PROVE RestoringInv  OBVIOUS
<1> USE ConfigurationAssumption DEF Init, ConfigInit
<1>1. ConfigShape
  <2>1. Len(EnvFile) \in Nat  OBVIOUS
  <2> QED  BY <2>1 DEF ConfigShape, Place
<1>2. HostIsGivenOrFalse  BY DEF HostIsGivenOrFalse, Saving
<1>3. SavedIsGiven  BY DEF SavedIsGiven, Saving
<1> QED  BY <1>1, <1>2, <1>3 DEF RestoringInv

(* A step that leaves the variable, what is saved and who is saving as     *)
(* they are.                                                               *)
LEMMA KeepRestoring ==
    ASSUME RestoringInv, ConfigShape',
           env'["host"] = env["host"], given' = given, overlapped' = overlapped,
           original' = original,
           \A b \in Builder : at'[b] = at[b] \/ (at'[b] \notin Saving /\ at[b] \notin Saving)
                              \/ (at'[b] \in Saving \ {"set"} /\ at[b] \in Saving \ {"set"})
    PROVE  RestoringInv'
<1>1. HostIsGivenOrFalse'  BY DEF RestoringInv, HostIsGivenOrFalse
<1>2. SavedIsGiven'  BY DEF RestoringInv, SavedIsGiven
<1> QED  BY <1>1, <1>2 DEF RestoringInv

(* The file of variables does not touch "host".                            *)
LEMMA ReadEnvLineRestoring == \A b \in Builder : RestoringInv /\ ReadEnvLine(b) => RestoringInv'
<1> SUFFICES ASSUME NEW b \in Builder, RestoringInv, ReadEnvLine(b) PROVE RestoringInv'
  OBVIOUS
<1> DEFINE i == line[b] + 1
<1>1. i \in 1..Len(EnvFile) /\ Len(EnvFile) \in Nat
  BY ConfigurationAssumption DEF RestoringInv, ConfigShape, ReadEnvLine
<1>2. EnvFile[i][1] \in Var \ {"host"}  BY <1>1, ConfigurationAssumption
<1>3. env' = [env EXCEPT ![EnvFile[i][1]] = Expand(EnvFile[i][2])]  BY DEF ReadEnvLine
<1> HIDE DEF i
<1>4. env'["host"] = env["host"]
  BY <1>2, <1>3, ConfigurationAssumption DEF RestoringInv, ConfigShape
<1>5. env' = [v \in Var |-> env'[v]]  BY <1>3 DEF RestoringInv, ConfigShape
<1>6. line' \in [Builder -> 0..Len(EnvFile)]
  BY <1>1 DEF RestoringInv, ConfigShape, ReadEnvLine, i
<1>7. ConfigShape'  BY <1>5, <1>6 DEF RestoringInv, ConfigShape, ReadEnvLine
<1> QED  BY <1>4, <1>7, KeepRestoring DEF ReadEnvLine

(* The steps that change the place of a builder only.                      *)
LEMMA PlaceRestoring ==
    ASSUME NEW b \in Builder, RestoringInv,
           BeginBuilder(b) \/ CreateBuilder(b) \/ InitConfiguration(b)
    PROVE  RestoringInv'
<1>1. PICK place \in Place : /\ at' = [at EXCEPT ![b] = place]
                             /\ \/ at[b] \notin Saving /\ place \notin Saving
                                \/ at[b] \in Saving \ {"set"} /\ place \in Saving \ {"set"}
  BY DEF BeginBuilder, CreateBuilder, InitConfiguration, Go, Saving, Place
<1>2. UNCHANGED <<env, line, original, given, overlapped>>
  BY DEF BeginBuilder, CreateBuilder, InitConfiguration, own
<1>3. ConfigShape'  BY <1>1, <1>2 DEF RestoringInv, ConfigShape
<1> QED  BY <1>1, <1>2, <1>3, KeepRestoring DEF RestoringInv, ConfigShape

(* Who saves while nobody else does saves what the process was given.      *)
LEMMA SaveRestoring == \A b \in Builder : RestoringInv /\ SaveVariable(b) => RestoringInv'
<1> SUFFICES ASSUME NEW b \in Builder, RestoringInv, SaveVariable(b) PROVE RestoringInv'
  OBVIOUS
<1> USE DEF RestoringInv, SaveVariable, Go, Saving
<1>1. ConfigShape'  BY DEF ConfigShape, Place
<1>2. HostIsGivenOrFalse'  BY DEF ConfigShape, HostIsGivenOrFalse
<1>3. SavedIsGiven'  BY DEF ConfigShape, SavedIsGiven
<1> QED  BY <1>1, <1>2, <1>3

(* Only a builder that has saved the variable sets it.                     *)
LEMMA SetRestoring == \A b \in Builder : RestoringInv /\ SetVariable(b) => RestoringInv'
<1> SUFFICES ASSUME NEW b \in Builder, RestoringInv, SetVariable(b) PROVE RestoringInv'
  OBVIOUS
<1> USE ConfigurationAssumption DEF RestoringInv, SetVariable, Go, Saving, own
<1>1. ConfigShape'  BY DEF ConfigShape, Place
<1>2. HostIsGivenOrFalse'  BY DEF ConfigShape, HostIsGivenOrFalse
<1>3. SavedIsGiven'  BY DEF ConfigShape, SavedIsGiven
<1> QED  BY <1>1, <1>2, <1>3

(* Restoring gives back what was saved.                                    *)
LEMMA RestoreRestoring == \A b \in Builder : RestoringInv /\ RestoreVariable(b) => RestoringInv'
<1> SUFFICES ASSUME NEW b \in Builder, RestoringInv, RestoreVariable(b) PROVE RestoringInv'
  OBVIOUS
<1> USE ConfigurationAssumption DEF RestoringInv, RestoreVariable, Go, Saving
<1>1. ConfigShape'  BY DEF ConfigShape, Place
<1>2. HostIsGivenOrFalse'  BY DEF ConfigShape, HostIsGivenOrFalse
<1>3. SavedIsGiven'  BY DEF ConfigShape, SavedIsGiven
<1> QED  BY <1>1, <1>2, <1>3

(* What is done with a service leaves the builders alone.                  *)
LEMMA NextRestoring == RestoringInv /\ [Next]_vars => RestoringInv'
<1> SUFFICES ASSUME RestoringInv, [Next]_vars PROVE RestoringInv'  OBVIOUS
<1>1. ASSUME NEW b \in Builder, Build(b) PROVE RestoringInv'
  BY <1>1, ReadEnvLineRestoring, PlaceRestoring, SaveRestoring, SetRestoring, RestoreRestoring
     DEF Build
<1>2. ASSUME UNCHANGED <<env, at, line, original, given, overlapped>> PROVE RestoringInv'
  BY <1>2 DEF RestoringInv, ConfigShape, HostIsGivenOrFalse, SavedIsGiven
<1>3. ASSUME Use(Service) PROVE RestoringInv'
  BY <1>2, <1>3 DEF Use, AddProvider, FirstLookup
<1>4. ASSUME UNCHANGED configVars PROVE RestoringInv'
  BY <1>2, <1>4 DEF configVars, own
<1>5. UNCHANGED configVars \/ Use(Service) \/ \E b \in Builder : Build(b)
  BY DEF Next, vars, ConfigureOpenApi, ConfigureMiddleware, Call, StripPrefix, EnsurePrefix,
         Served, Pass
<1> QED  BY <1>1, <1>3, <1>4, <1>5

(* For any number of builders in a process, the variable that is changed   *)
(* around the creation of a builder has the value the process started with *)
(* again when no creation is under way, on every path, unless two have     *)
(* overlapped (ConfigurationBuilding lines 72-84).                         *)
THEOREM EnvironmentIsLeftAsFound == Spec => []VariableIsRestored
<1>1. RestoringInv => VariableIsRestored
  BY DEF RestoringInv, HostIsGivenOrFalse, SavedIsGiven, VariableIsRestored, Saving
<1> QED  BY <1>1, InitRestoring, NextRestoring, PTL DEF Spec
----------------------------------------------------------------------------
(* The setting is the same for all builders: either all of them or none    *)
(* change the variable.                                                    *)
OneWay == \A b \in Builder : IF Watching THEN at[b] \notin {"save"} \cup Saving
                                        ELSE at[b] # "create"

DefaultFiles == {"appsettings", "appsettingsEnv", "secrets"}

(* What the default builder has made of the variable.                      *)
CreatedWithSetting ==
    \A b \in Builder : at[b] \in {"restore", "init"} =>
        /\ stack[b] = Defaults
        /\ watched[b] \in {{}, DefaultFiles}
        /\ ~overlapped => (watched[b] = DefaultFiles <=> Watching /\ given # False)

Source == {"appsettings", "appsettingsEnv", "secrets", "environment", "commandLine",
           "appsettingsService", "appsettingsServiceEnv", "expander", "later"}

(* The sources of a finished builder, by what they are.                    *)
StackIsKnown ==
    \A b \in Builder : at[b] = "ready" =>
        /\ stack[b] \in Seq(Source)
        /\ ToSet(stack[b]) \cap AppSettings
             = {"appsettings", "appsettingsEnv"}
                  \cup (IF Named THEN {"appsettingsService", "appsettingsServiceEnv"} ELSE {})

(* Every builder has its own sources.                                      *)
Arrays == stack = [b \in Builder |-> stack[b]] /\ watched = [b \in Builder |-> watched[b]]

WatchingInv == RestoringInv /\ Arrays /\ OneWay /\ CreatedWithSetting /\ StackIsKnown
                            /\ WatchingFollowsSetting

(* The elements of two sequences.                                          *)
LEMMA ToSetConcat ==
    ASSUME NEW S, NEW s \in Seq(S), NEW t \in Seq(S)
    PROVE  s \o t \in Seq(S) /\ ToSet(s \o t) = ToSet(s) \cup ToSet(t)
<1>1. /\ s \o t \in Seq(S) /\ Len(s \o t) = Len(s) + Len(t)
      /\ \A i \in 1..Len(s) + Len(t) : (s \o t)[i] = IF i <= Len(s) THEN s[i] ELSE t[i - Len(s)]
      /\ Len(s) \in Nat /\ Len(t) \in Nat
  BY ConcatProperties, LenProperties
<1>2. DOMAIN s = 1..Len(s) /\ DOMAIN t = 1..Len(t) /\ DOMAIN (s \o t) = 1..Len(s) + Len(t)
  BY <1>1, LenProperties
<1>3. ASSUME NEW x \in ToSet(s \o t) PROVE x \in ToSet(s) \cup ToSet(t)
  <2>1. PICK i \in 1..Len(s) + Len(t) : x = (s \o t)[i]  BY <1>2, <1>3 DEF ToSet
  <2>2. CASE i <= Len(s)
    <3>1. i \in DOMAIN s /\ x = s[i]  BY <1>1, <1>2, <2>1, <2>2
    <3> QED  BY <3>1 DEF ToSet
  <2>3. CASE ~(i <= Len(s))
    <3>1. i - Len(s) \in DOMAIN t /\ x = t[i - Len(s)]  BY <1>1, <1>2, <2>1, <2>3
    <3> QED  BY <3>1 DEF ToSet
  <2> QED  BY <2>2, <2>3
<1>4. ASSUME NEW x \in ToSet(s) PROVE x \in ToSet(s \o t)
  <2>1. PICK i \in 1..Len(s) : x = s[i]  BY <1>2, <1>4 DEF ToSet
  <2>2. i \in DOMAIN (s \o t) /\ x = (s \o t)[i]  BY <1>1, <1>2, <2>1
  <2> QED  BY <2>2 DEF ToSet
<1>5. ASSUME NEW x \in ToSet(t) PROVE x \in ToSet(s \o t)
  <2>1. PICK i \in 1..Len(t) : x = t[i]  BY <1>2, <1>5 DEF ToSet
  <2>2. Len(s) + i \in DOMAIN (s \o t) /\ x = (s \o t)[Len(s) + i]  BY <1>1, <1>2, <2>1
  <2> QED  BY <2>2 DEF ToSet
<1> QED  BY <1>1, <1>3, <1>4, <1>5

(* The files of a service that has a name.                                 *)
LEMMA ServiceFilesKnown ==
    /\ ServiceFiles \in Seq(Source)
    /\ ToSet(ServiceFiles) = IF Named THEN {"appsettingsService", "appsettingsServiceEnv"} ELSE {}
<1> DEFINE s == <<"appsettingsService", "appsettingsServiceEnv">>
<1>1. s \in Seq(Source) /\ DOMAIN s = 1..2  BY DEF Source
<1>2. ToSet(s) = {s[1], s[2]}
  <2>1. 1..2 = {1, 2}  OBVIOUS
  <2> QED  BY <1>1, <2>1, Zenon DEF ToSet
<1>3. <<>> \in Seq(Source) /\ ToSet(<<>>) = {}  BY DEF ToSet
<1> QED  BY <1>1, <1>2, <1>3 DEF ServiceFiles

(* What ServiceFiles and the rest add to the sources of the default        *)
(* builder.                                                                *)
LEMMA AllSources ==
    ASSUME NEW args \in {<<"commandLine">>, <<>>}
    PROVE  LET all == Defaults \o ServiceFiles \o args \o <<"expander">>
           IN  /\ all \in Seq(Source)
               /\ ToSet(all) \cap AppSettings = {"appsettings", "appsettingsEnv"}
                     \cup (IF Named THEN {"appsettingsService", "appsettingsServiceEnv"} ELSE {})
<1>1. /\ Defaults \in Seq(Source)
      /\ ToSet(Defaults) =
            {"appsettings", "appsettingsEnv", "secrets", "environment", "commandLine"}
  <2>1. Defaults \in Seq(Source) /\ DOMAIN Defaults = 1..5  BY DEF Defaults, Source
  <2>2. ToSet(Defaults) = {Defaults[1], Defaults[2], Defaults[3], Defaults[4], Defaults[5]}
    <3>1. 1..5 = {1, 2, 3, 4, 5}  OBVIOUS
    <3> QED  BY <2>1, <3>1, Zenon DEF ToSet
  <2> QED  BY <2>1, <2>2 DEF Defaults
<1>2. /\ ServiceFiles \in Seq(Source)
      /\ ToSet(ServiceFiles) = IF Named THEN {"appsettingsService", "appsettingsServiceEnv"} ELSE {}
  BY ServiceFilesKnown
<1>3. args \in Seq(Source) /\ ToSet(args) \subseteq {"commandLine"}
  <2>1. <<"commandLine">> \in Seq(Source) /\ ToSet(<<"commandLine">>) = {"commandLine"}
    BY DEF Source, ToSet
  <2>2. <<>> \in Seq(Source) /\ ToSet(<<>>) = {}  BY DEF ToSet
  <2> QED  BY <2>1, <2>2
<1>4. <<"expander">> \in Seq(Source) /\ ToSet(<<"expander">>) = {"expander"}
  BY DEF Source, ToSet
<1>0. \A s, t \in Seq(Source) : s \o t \in Seq(Source) /\ ToSet(s \o t) = ToSet(s) \cup ToSet(t)
  BY ToSetConcat
<1>5. /\ Defaults \o ServiceFiles \in Seq(Source)
      /\ ToSet(Defaults \o ServiceFiles) = ToSet(Defaults) \cup ToSet(ServiceFiles)
  BY <1>0, <1>1, <1>2, Zenon
<1>6. /\ Defaults \o ServiceFiles \o args \in Seq(Source)
      /\ ToSet(Defaults \o ServiceFiles \o args) = ToSet(Defaults \o ServiceFiles) \cup ToSet(args)
  BY <1>0, <1>3, <1>5, Zenon
<1>7. /\ Defaults \o ServiceFiles \o args \o <<"expander">> \in Seq(Source)
      /\ ToSet(Defaults \o ServiceFiles \o args \o <<"expander">>)
           = ToSet(Defaults \o ServiceFiles \o args) \cup ToSet(<<"expander">>)
  BY <1>0, <1>4, <1>6, Zenon
<1> QED  BY <1>1, <1>2, <1>3, <1>4, <1>5, <1>6, <1>7 DEF AppSettings

(* No builder has been created.                                            *)
LEMMA InitWatching == Init => WatchingInv
<1> SUFFICES ASSUME Init PROVE WatchingInv  OBVIOUS
<1> USE DEF Init, ConfigInit
<1>1. Arrays /\ OneWay  BY DEF Arrays, OneWay, Saving
<1>2. CreatedWithSetting /\ StackIsKnown /\ WatchingFollowsSetting
  BY DEF CreatedWithSetting, StackIsKnown, WatchingFollowsSetting
<1> QED  BY <1>1, <1>2, InitRestoring DEF WatchingInv

(* No step touches the setting.                                            *)
LEMMA SettingStays == ASSUME NEW b \in Builder, RestoringInv, Build(b) PROVE Watching' = Watching
<1> USE ConfigurationAssumption DEF RestoringInv, ConfigShape
<1>1. ASSUME ReadEnvLine(b) PROVE env'["reload"] = env["reload"]
  <2> DEFINE i == line[b] + 1
  <2>1. i \in 1..Len(EnvFile) /\ Len(EnvFile) \in Nat  BY <1>1 DEF ReadEnvLine
  <2>2. EnvFile[i][1] \in Var \ {"reload"}  BY <2>1
  <2>3. env' = [env EXCEPT ![EnvFile[i][1]] = Expand(EnvFile[i][2])]  BY <1>1 DEF ReadEnvLine
  <2> HIDE DEF i
  <2> QED  BY <2>2, <2>3
<1>2. ASSUME SetVariable(b) \/ RestoreVariable(b) PROVE env'["reload"] = env["reload"]
  BY <1>2 DEF SetVariable, RestoreVariable
<1>3. ASSUME ~ReadEnvLine(b), ~(SetVariable(b) \/ RestoreVariable(b)) PROVE env' = env
  BY <1>3 DEF Build, BeginBuilder, SaveVariable, CreateBuilder, InitConfiguration
<1> QED  BY <1>1, <1>2, <1>3 DEF Watching

(* A step of one builder, which overlaps or not, concerns no other.        *)
LEMMA OthersKeepWatching ==
    ASSUME NEW b \in Builder, WatchingInv, RestoringInv', Watching' = Watching, given' = given,
           overlapped => overlapped', NEW place \in Place, NEW s, NEW w,
           at' = [at EXCEPT ![b] = place],
           stack' = [stack EXCEPT ![b] = s], watched' = [watched EXCEPT ![b] = w],
           IF Watching THEN place \notin {"save"} \cup Saving ELSE place # "create",
           place \in {"restore", "init"} =>
               /\ s = Defaults /\ w \in {{}, DefaultFiles}
               /\ ~overlapped => (w = DefaultFiles <=> Watching /\ given # False),
           place = "ready" =>
               /\ s \in Seq(Source)
               /\ ToSet(s) \cap AppSettings = {"appsettings", "appsettingsEnv"}
                     \cup (IF Named THEN {"appsettingsService", "appsettingsServiceEnv"} ELSE {})
               /\ w \cap AppSettings = IF Watching THEN ToSet(s) \cap AppSettings ELSE {}
               /\ ~overlapped => ("secrets" \in w <=> Watching /\ given # False)
    PROVE  WatchingInv'
<1> USE DEF WatchingInv, RestoringInv, ConfigShape
<1>1. Arrays'  BY DEF Arrays
<1>2. \A q \in Builder : /\ at'[q] = IF q = b THEN place ELSE at[q]
                         /\ stack'[q] = IF q = b THEN s ELSE stack[q]
                         /\ watched'[q] = IF q = b THEN w ELSE watched[q]
  BY DEF Arrays
<1>3. OneWay'  BY <1>2 DEF OneWay
<1>4. CreatedWithSetting'  BY <1>2 DEF CreatedWithSetting
<1>5. StackIsKnown'  BY <1>2, ZenonT(30) DEF StackIsKnown
<1>6. WatchingFollowsSetting'  BY <1>2 DEF WatchingFollowsSetting
<1> QED  BY <1>1, <1>3, <1>4, <1>5, <1>6

(* Each step of a builder gives it a stack and watched files that fit its  *)
(* place.                                                                  *)
LEMMA BuildWatching ==
    ASSUME NEW b \in Builder, WatchingInv, RestoringInv', Build(b) PROVE WatchingInv'
<1> USE DEF WatchingInv
<1> DEFINE New(place, s, w) == /\ at' = [at EXCEPT ![b] = place]
                               /\ stack' = [stack EXCEPT ![b] = s]
                               /\ watched' = [watched EXCEPT ![b] = w]
<1>1. Watching' = Watching /\ given' = given /\ (overlapped => overlapped')
  <2>1. CASE SaveVariable(b)
    BY <2>1, SettingStays DEF SaveVariable
  <2>2. CASE ReadEnvLine(b) \/ RestoreVariable(b)
    BY <2>2, SettingStays DEF ReadEnvLine, RestoreVariable
  <2>3. CASE BeginBuilder(b) \/ SetVariable(b)
    BY <2>3, SettingStays DEF BeginBuilder, SetVariable
  <2>4. CASE CreateBuilder(b)
    BY <2>4, SettingStays DEF CreateBuilder
  <2>5. CASE InitConfiguration(b)
    BY <2>5, SettingStays DEF InitConfiguration
  <2> QED  BY <2>1, <2>2, <2>3, <2>4, <2>5 DEF Build
<1>2. at[b] \in Place /\ at = [at EXCEPT ![b] = at[b]] /\ stack = [stack EXCEPT ![b] = stack[b]]
      /\ watched = [watched EXCEPT ![b] = watched[b]]
  BY DEF RestoringInv, ConfigShape, Arrays
<1>3. ASSUME ReadEnvLine(b) PROVE WatchingInv'
  <2>1. New("envFile", stack[b], watched[b])
    BY <1>2, <1>3 DEF ReadEnvLine
  <2> QED  BY <1>1, <2>1, OthersKeepWatching DEF Place, Saving
<1>4. ASSUME BeginBuilder(b) PROVE WatchingInv'
  <2>1. New(IF Watching THEN "create" ELSE "save", stack[b], watched[b])
    BY <1>2, <1>4 DEF BeginBuilder, Go, own
  <2> QED  BY <1>1, <2>1, OthersKeepWatching DEF Place, Saving
<1>5. ASSUME SaveVariable(b) PROVE WatchingInv'
  <2>1. New("set", stack[b], watched[b])  BY <1>2, <1>5 DEF SaveVariable, Go
  <2>2. ~Watching  BY <1>5 DEF SaveVariable, OneWay
  <2> QED  BY <1>1, <2>1, <2>2, OthersKeepWatching DEF Place
<1>6. ASSUME SetVariable(b) PROVE WatchingInv'
  <2>1. New("creating", stack[b], watched[b])  BY <1>2, <1>6 DEF SetVariable, Go, own
  <2>2. ~Watching  BY <1>6 DEF SetVariable, OneWay, Saving
  <2> QED  BY <1>1, <2>1, <2>2, OthersKeepWatching DEF Place
<1>7. ASSUME CreateBuilder(b) PROVE WatchingInv'
  <2>1. Watching <=> at[b] = "create"  BY <1>7 DEF CreateBuilder, OneWay, Saving
  <2>2. ~overlapped => (env["host"] = False <=> ~Watching \/ given = False)
    <3>1. CASE Watching
      <4>1. \A q \in Builder : at[q] \notin Saving  BY <3>1 DEF OneWay
      <4> QED  BY <3>1, <4>1 DEF RestoringInv, SavedIsGiven
    <3>2. CASE ~Watching
      <4>1. at[b] \in Saving \ {"set"}  BY <3>2, <2>1, <1>7 DEF CreateBuilder, Saving
      <4> QED  BY <3>2, <4>1 DEF RestoringInv, SavedIsGiven
    <3> QED  BY <3>1, <3>2
  <2>3. CASE New(IF at[b] = "create" THEN "init" ELSE "restore", Defaults,
                 IF env["host"] = False THEN {} ELSE DefaultFiles)
    <3>1. \A x \in {{}, DefaultFiles} : x = DefaultFiles <=> x # {}  BY DEF DefaultFiles
    <3>2. (IF at[b] = "create" THEN "init" ELSE "restore") \in {"init", "restore"}  OBVIOUS
    <3> QED  BY <1>1, <2>1, <2>2, <2>3, <3>1, <3>2, OthersKeepWatching DEF Place, Saving
  <2>4. CASE New(IF at[b] = "create" THEN "failed" ELSE "rethrow", stack[b], watched[b])
    BY <1>1, <2>1, <2>4, OthersKeepWatching DEF Place, Saving
  <2> QED  BY <1>2, <1>7, <2>3, <2>4 DEF CreateBuilder, Go, DefaultFiles
<1>8. ASSUME RestoreVariable(b) PROVE WatchingInv'
  <2>1. New(IF at[b] = "restore" THEN "init" ELSE "failed", stack[b], watched[b])
    BY <1>2, <1>8 DEF RestoreVariable, Go
  <2>2. at[b] = "restore" => /\ stack[b] = Defaults /\ watched[b] \in {{}, DefaultFiles}
                             /\ ~overlapped =>
                                  (watched[b] = DefaultFiles <=> Watching /\ given # False)
    BY DEF CreatedWithSetting
  <2> QED  BY <1>1, <2>1, <2>2, OthersKeepWatching DEF Place, Saving
<1>9. ASSUME InitConfiguration(b) PROVE WatchingInv'
  <2> DEFINE args == IF DOMAIN Args # {} THEN <<"commandLine">> ELSE <<>>
             all == Defaults \o ServiceFiles \o args \o <<"expander">>
             files == IF Watching
                      THEN watched[b] \cup
                          {"appsettings", "appsettingsEnv"} \cup ToSet(ServiceFiles)
                      ELSE watched[b] \ AppSettings
  <2>1. /\ stack[b] = Defaults /\ watched[b] \in {{}, DefaultFiles}
        /\ ~overlapped => (watched[b] = DefaultFiles <=> Watching /\ given # False)
    BY <1>9 DEF InitConfiguration, CreatedWithSetting
  <2>2. CASE New("ready", all, files)
    <3>1. /\ all \in Seq(Source)
          /\ ToSet(all) \cap AppSettings = {"appsettings", "appsettingsEnv"}
                \cup (IF Named THEN {"appsettingsService", "appsettingsServiceEnv"} ELSE {})
      BY AllSources
    <3>2. ToSet(ServiceFiles) =
                IF Named THEN {"appsettingsService", "appsettingsServiceEnv"} ELSE {}
      BY ServiceFilesKnown
    <3>3. /\ files \cap AppSettings = IF Watching THEN ToSet(all) \cap AppSettings ELSE {}
          /\ "secrets" \in files <=> watched[b] = DefaultFiles
      BY <2>1, <3>1, <3>2 DEF AppSettings, DefaultFiles
    <3> HIDE DEF all, files
    <3> QED  BY <1>1, <2>1, <2>2, <3>1, <3>3, OthersKeepWatching DEF Place, Saving
  <2>3. CASE New("failed", stack[b], watched[b])
    BY <1>1, <2>3, OthersKeepWatching DEF Place, Saving
  <2> QED  BY <1>2, <1>9, <2>1, <2>2, <2>3 DEF InitConfiguration, Go
<1> QED  BY <1>3, <1>4, <1>5, <1>6, <1>7, <1>8, <1>9 DEF Build

(* A source the application adds is no appsettings file.                   *)
LEMMA AddProviderWatching ==
    ASSUME NEW b \in Builder, WatchingInv, AddProvider(b), RestoringInv' PROVE WatchingInv'
<1> USE DEF WatchingInv
<1> DEFINE s == Append(stack[b], "later")
<1>1. /\ s \in Seq(Source)
      /\ ToSet(s) \cap AppSettings = ToSet(stack[b]) \cap AppSettings
  <2>1. stack[b] \in Seq(Source)  BY DEF AddProvider, StackIsKnown
  <2>2. <<"later">> \in Seq(Source) /\ ToSet(<<"later">>) = {"later"}  BY DEF Source, ToSet
  <2>3. s = stack[b] \o <<"later">>  BY <2>1, AppendIsConcat DEF Source
  <2> HIDE DEF s
  <2>4. s \in Seq(Source) /\ ToSet(s) = ToSet(stack[b]) \cup ToSet(<<"later">>)
    <3>1. \A t, u \in Seq(Source) : t \o u \in Seq(Source) /\ ToSet(t \o u) = ToSet(t) \cup ToSet(u)
      BY ToSetConcat
    <3> QED  BY <2>1, <2>2, <2>3, <3>1, Zenon
  <2> QED  BY <2>2, <2>4 DEF AppSettings
<1>2. /\ at' = [at EXCEPT ![b] = "ready"] /\ stack' = [stack EXCEPT ![b] = s]
      /\ watched' = [watched EXCEPT ![b] = watched[b]]
      /\ env' = env /\ given' = given /\ overlapped' = overlapped
  BY DEF AddProvider, Arrays, RestoringInv, ConfigShape
<1>3. Watching' = Watching  BY <1>2 DEF Watching
<1>4. /\ ToSet(stack[b]) \cap AppSettings = {"appsettings", "appsettingsEnv"}
            \cup (IF Named THEN {"appsettingsService", "appsettingsServiceEnv"} ELSE {})
      /\ watched[b] \cap AppSettings = IF Watching THEN ToSet(stack[b]) \cap AppSettings ELSE {}
      /\ ~overlapped => ("secrets" \in watched[b] <=> Watching /\ given # False)
  BY DEF AddProvider, StackIsKnown, WatchingFollowsSetting
<1> HIDE DEF s
<1> QED  BY <1>1, <1>2, <1>3, <1>4, OthersKeepWatching DEF Place, Saving

(* What is done with a service but adding a source concerns no file.       *)
LEMMA NextWatching == WatchingInv /\ [Next]_vars => WatchingInv'
<1> SUFFICES ASSUME WatchingInv, [Next]_vars PROVE WatchingInv'  OBVIOUS
<1>0. RestoringInv'  BY NextRestoring DEF WatchingInv
<1>1. ASSUME NEW b \in Builder, Build(b) PROVE WatchingInv'  BY <1>0, <1>1, BuildWatching
<1>2. ASSUME UNCHANGED <<env, at, stack, watched, given, overlapped>> PROVE WatchingInv'
  BY <1>0, <1>2
     DEF WatchingInv, Arrays, OneWay, Watching, CreatedWithSetting, StackIsKnown,
         WatchingFollowsSetting
<1>3. ASSUME Use(Service) PROVE WatchingInv'
  BY <1>0, <1>2, <1>3, AddProviderWatching, ServiceRequestAssumption DEF Use, FirstLookup
<1>4. ASSUME UNCHANGED configVars PROVE WatchingInv'
  BY <1>2, <1>4 DEF configVars, own
<1>5. UNCHANGED configVars \/ Use(Service) \/ \E b \in Builder : Build(b)
  BY DEF Next, vars, ConfigureOpenApi, ConfigureMiddleware, Call, StripPrefix, EnsurePrefix,
         Served, Pass
<1> QED  BY <1>1, <1>3, <1>4, <1>5

(* For any number of builders, sources and settings of the environment,    *)
(* all appsettings files of a service are watched, or none, as its setting *)
(* says, and the secrets unless builders have overlapped                   *)
(* (ConfigurationBuilding lines 21-44, 61-84).                             *)
THEOREM FilesAreWatchedAsSet == Spec => []WatchingFollowsSetting
<1>1. WatchingInv => WatchingFollowsSetting  BY DEF WatchingInv
<1> QED  BY <1>1, InitWatching, NextWatching, PTL DEF Spec
----------------------------------------------------------------------------
(* A set of positions has a least one: the well-founded order is that of   *)
(* the intervals up to them.                                               *)
LEMMA LeastElement ==
    ASSUME NEW n \in Nat, NEW S \in SUBSET (1..n), S # {}
    PROVE  \E x \in S : \A y \in S : x <= y
<1> DEFINE upTo == {1..x : x \in S}
<1>1. IsWellFoundedOn(StrictSubsetOrdering(1..n), FiniteSubsetsOf(1..n))
  BY FS_Interval, FS_StrictSubsetOrderingWellFounded
<1>2. upTo \subseteq FiniteSubsetsOf(1..n) /\ upTo # {}
  <2>1. \A x \in S : 1..x \in SUBSET (1..n) /\ IsFiniteSet(1..x)  BY FS_Interval
  <2> QED  BY <2>1 DEF FiniteSubsetsOf
<1> HIDE DEF upTo
<1>3. PICK least \in upTo : \A other \in upTo : <<other, least>> \notin StrictSubsetOrdering(1..n)
  BY <1>1, <1>2, WFMin
<1>4. PICK x \in S : least = 1..x  BY <1>3 DEF upTo
<1>5. ASSUME NEW y \in S PROVE x <= y
  <2>1. <<1..y, 1..x>> \notin StrictSubsetOrdering(1..n)  BY <1>3, <1>4 DEF upTo
  <2>2. y < x => /\ 1..y \subseteq 1..x /\ 1..y # 1..x
                 /\ 1..x \in SUBSET (1..n) /\ 1..y \in SUBSET (1..n)
    OBVIOUS
  <2> QED  BY <2>1, <2>2 DEF StrictSubsetOrdering
<1> QED  BY <1>5

(* Min and Max of a set of positions are what they say.                    *)
LEMMA MinMaxFacts ==
    ASSUME NEW n \in Nat, NEW S \in SUBSET (1..n), S # {}
    PROVE  /\ Min(S) \in S /\ \A y \in S : Min(S) <= y
           /\ Max(S) \in S /\ \A y \in S : y <= Max(S)
<1>1. Min(S) \in S /\ \A y \in S : Min(S) <= y
  <2>1. \E x \in S : \A y \in S : x <= y  BY LeastElement
  <2> QED  BY <2>1 DEF Min
<1>2. Max(S) \in S /\ \A y \in S : y <= Max(S)
  <2> DEFINE R == {n + 1 - x : x \in S}
  <2>1. R \in SUBSET (1..n) /\ R # {}
    <3>1. \A x \in S : x \in 1..n /\ n + 1 - x \in 1..n  OBVIOUS
    <3> QED  BY <3>1
  <2>2. PICK r \in R : \A q \in R : r <= q
    <3> HIDE DEF R
    <3> QED  BY <2>1, LeastElement
  <2>3. PICK x \in S : r = n + 1 - x  BY <2>2
  <2>4. \A y \in S : x >= y
    <3> TAKE y \in S
    <3>1. n + 1 - x <= n + 1 - y  BY <2>2, <2>3
    <3> QED  BY <3>1
  <2>5. \E z \in S : \A y \in S : z >= y  BY <2>4
  <2>6. Max(S) \in S /\ \A y \in S : Max(S) >= y  BY <2>5 DEF Max
  <2> QED  BY <2>6
<1> QED  BY <1>1, <1>2
----------------------------------------------------------------------------
(* The options are there from the moment on that the service shows its     *)
(* document.                                                               *)
OptionsKnown ==
    /\ shown # None => oauth \in Options
    /\ base # None => oauth \in Options
    /\ stage # "none" => oauth \in Options

(* A set of options once read stays one.                                   *)
LEMMA OptionsInv == Spec => []OptionsKnown
<1>1. Init => OptionsKnown  BY DEF Init, OptionsKnown
<1>2. OptionsKnown /\ [Next]_vars => OptionsKnown'
  <2> SUFFICES ASSUME OptionsKnown, [Next]_vars PROVE OptionsKnown'  OBVIOUS
  <2> USE DEF OptionsKnown
  <2>1. ASSUME UNCHANGED appVars PROVE OptionsKnown'  BY <2>1 DEF appVars
  <2>2. ASSUME ConfigureOpenApi PROVE OptionsKnown'  BY <2>2 DEF ConfigureOpenApi
  <2>3. ASSUME ConfigureMiddleware PROVE OptionsKnown'  BY <2>3 DEF ConfigureMiddleware
  <2>4. ASSUME NEW call \in Calls, Call(call[1], call[2]) PROVE OptionsKnown'
    BY <2>4 DEF Call
  <2>5. ASSUME StripPrefix \/ EnsurePrefix \/ Served PROVE OptionsKnown'
    BY <2>5 DEF StripPrefix, EnsurePrefix, Served, Pass
  <2> QED  BY <2>1, <2>2, <2>3, <2>4, <2>5 DEF Next, vars
<1> QED  BY <1>1, <1>2, PTL DEF Spec

(* The authorities of the options, one by one.                             *)
LEMMA AuthoritiesFacts ==
    ASSUME NEW o \in Options
    PROVE  /\ Len(Authorities(o)) \in Nat /\ Len(Authorities(o)) >= 1
           /\ ToSet(Authorities(o)) = {Authorities(o)[i] : i \in 1..Len(Authorities(o))}
           /\ Authorities(o)[1] = o.main
           /\ o.additional = <<>> => Len(Authorities(o)) = 1
<1> DEFINE A == ToSet(o.additional) \cup {o.main}
<1>1. o.additional \in Seq(A)
  <2>1. o.additional \in Seq(ToSet(o.additional))  BY ServiceRequestAssumption
  <2> QED  BY <2>1, SeqMonotonic
<1>2. <<o.main>> \in Seq(A) /\ Len(<<o.main>>) = 1 /\ <<o.main>>[1] = o.main  OBVIOUS
<1> HIDE DEF A
<1>3. /\ Authorities(o) \in Seq(A)
      /\ Len(Authorities(o)) = 1 + Len(o.additional) /\ Len(o.additional) \in Nat
      /\ Authorities(o)[1] = o.main
  BY <1>1, <1>2, ConcatProperties, LenProperties DEF Authorities
<1>4. DOMAIN Authorities(o) = 1..Len(Authorities(o))  BY <1>3
<1>5. o.additional = <<>> => Len(o.additional) = 0  OBVIOUS
<1> QED  BY <1>3, <1>4, <1>5 DEF ToSet

(* What Select chooses: an authority whose header is there, else one the   *)
(* standard header's token is issued for, else the main one.               *)
LEMMA SelectFacts ==
    ASSUME NEW o \in Options, NEW h
    PROVE  LET all == ToSet(Authorities(o))
               headed(a) == HeaderIsPresent(a, h)
               issued(a) == IssuedForStandard(a, h)
           IN  \/ o.additional = <<>> /\ Select(o, h) = o.main /\ all = {o.main}
               \/ Select(o, h) \in all /\ headed(Select(o, h))
               \/ /\ \A a \in all : ~headed(a)
                  /\ Select(o, h) \in all /\ issued(Select(o, h))
               \/ /\ \A a \in all : ~headed(a) /\ ~issued(a)
                  /\ Select(o, h) = o.main
<1> DEFINE all == Authorities(o)
           H == {i \in 1..Len(all) : HeaderIsPresent(all[i], h)}
           I == {i \in 1..Len(all) : IssuedForStandard(all[i], h)}
           headedAt == SelectInSeq(all, LAMBDA a : HeaderIsPresent(a, h))
           issuedAt == SelectInSeq(all, LAMBDA a : IssuedForStandard(a, h))
<1>1. headedAt = IF H # {} THEN Min(H) ELSE 0  BY DEF SelectInSeq
<1>2. issuedAt = IF I # {} THEN Min(I) ELSE 0  BY DEF SelectInSeq
<1>3. Select(o, h) = IF o.additional = <<>> THEN o.main
                     ELSE IF headedAt # 0 THEN all[headedAt]
                     ELSE IF issuedAt # 0 THEN all[issuedAt]
                     ELSE o.main
  BY DEF Select
<1>4. /\ Len(all) \in Nat /\ ToSet(all) = {all[i] : i \in 1..Len(all)}
      /\ all[1] = o.main /\ (o.additional = <<>> => Len(all) = 1)
  BY AuthoritiesFacts
<1>5. /\ H # {} => Min(H) \in H
      /\ I # {} => Min(I) \in I
  <2>1. H \in SUBSET (1..Len(all)) /\ I \in SUBSET (1..Len(all))  OBVIOUS
  <2> HIDE DEF H, I, all
  <2> QED  BY <1>4, <2>1, MinMaxFacts
<1> HIDE DEF all, headedAt, issuedAt
<1>6. CASE o.additional = <<>>
  <2>1. ToSet(all) = {o.main}
    <3>1. 1..Len(all) = {1}
      <4>1. 1..1 = {1} /\ Len(all) = 1  BY <1>4, <1>6
      <4> QED  BY <4>1
    <3> QED  BY <1>4, <3>1
  <2> QED  BY <1>3, <1>6, <2>1 DEF all
<1>7. CASE o.additional # <<>> /\ H # {}
  <2>1. headedAt \in H /\ headedAt # 0  BY <1>1, <1>5, <1>7
  <2>2. Select(o, h) = all[headedAt]  BY <1>3, <1>7, <2>1
  <2> QED  BY <1>4, <2>1, <2>2 DEF all
<1>8. CASE o.additional # <<>> /\ H = {} /\ I # {}
  <2>1. headedAt = 0 /\ issuedAt \in I /\ issuedAt # 0  BY <1>1, <1>2, <1>5, <1>8
  <2>2. Select(o, h) = all[issuedAt]  BY <1>3, <1>8, <2>1
  <2>3. \A a \in ToSet(all) : ~HeaderIsPresent(a, h)  BY <1>4, <1>8
  <2> QED  BY <1>4, <2>1, <2>2, <2>3 DEF all
<1>9. CASE H = {} /\ I = {}
  <2>1. Select(o, h) = o.main  BY <1>1, <1>2, <1>3, <1>9
  <2> QED  BY <1>4, <1>9, <2>1 DEF all
<1> QED  BY <1>6, <1>7, <1>8, <1>9

(* The standard header's token is taken by a scheme without a header that  *)
(* comes for it, or by the main one.                                       *)
LEMMA StandardToken ==
    ASSUME NEW a, NEW h, ~HeaderIsPresent(a, h)
    PROVE  /\ TokenOf(a, h) = IF IsToken(h.authorization) /\ h.authorization.bearer
                              THEN h.authorization ELSE Absent
           /\ Accepts(a, h) => /\ h.authorization.bearer
                               /\ IsToken(h.authorization)
                               /\ h.authorization.issuer = IssuerOf(a)
           /\ Accepts(a, h) /\ a.header = None => IssuedForStandard(a, h)
<1>1. TokenOf(a, h) = IF IsToken(h.authorization) /\ h.authorization.bearer
                      THEN h.authorization ELSE Absent
  BY DEF TokenOf, HeaderIsPresent
<1>2. ~IsToken(Absent)  BY DEF IsToken
<1> QED  BY <1>1, <1>2 DEF Accepts, IssuedForStandard

(* Whatever the authorities, their headers and the tokens in a request,    *)
(* the authorities it addresses by their headers, or else those of the     *)
(* standard header, decide whether it is authenticated (OAuthConfigurator  *)
(* lines 42-91, OauthAuthority lines 59-79).                               *)
THEOREM TokensMeetTheirAuthority == Spec => []GoodTokenMeetsItsAuthority
<1>1. OptionsKnown => GoodTokenMeetsItsAuthority
  <2> DEFINE h == request.headers
             selected == Select(oauth, h)
             all == ToSet(Authorities(oauth))
             addressed == {a \in all : HeaderIsPresent(a, h)}
             trusted == {a \in all : Accepts(a, h)}
  <2> SUFFICES ASSUME OptionsKnown, stage = "authenticating"
               PROVE  IF addressed = {}
                      THEN Accepts(selected, h) <=> \E a \in trusted : a.header = None \/ a = oauth.main
                      ELSE /\ Accepts(selected, h) => addressed \cap trusted # {}
                           /\ addressed \subseteq trusted => Accepts(selected, h)
    BY DEF GoodTokenMeetsItsAuthority
  <2>1. oauth \in Options  BY DEF OptionsKnown
  <2>2. \/ oauth.additional = <<>> /\ selected = oauth.main /\ all = {oauth.main}
        \/ selected \in all /\ HeaderIsPresent(selected, h)
        \/ /\ \A a \in all : ~HeaderIsPresent(a, h)
           /\ selected \in all /\ IssuedForStandard(selected, h)
        \/ /\ \A a \in all : ~HeaderIsPresent(a, h) /\ ~IssuedForStandard(a, h)
           /\ selected = oauth.main
    BY <2>1, SelectFacts
  <2>3. oauth.main \in all
    <3>1. 1 \in 1..Len(Authorities(oauth))  BY <2>1, AuthoritiesFacts
    <3>2. oauth.main = Authorities(oauth)[1]  BY <2>1, AuthoritiesFacts
    <3> QED  BY <2>1, <3>1, <3>2, AuthoritiesFacts
  <2> HIDE DEF all, h, selected
  <2>4. CASE addressed # {}
    <3>1. selected \in addressed  BY <2>2, <2>4
    <3> QED  BY <2>4, <3>1
  <2>5. CASE addressed = {}
    <3>1. \A a \in all : ~HeaderIsPresent(a, h)  BY <2>5
    <3>2. selected \in all /\ (selected = oauth.main \/ selected.header = None)
      BY <2>2, <2>3, <3>1 DEF IssuedForStandard
    <3>3. ASSUME NEW a \in all, Accepts(a, h), a.header = None \/ a = oauth.main
          PROVE  Accepts(selected, h)
      <4>1. /\ h.authorization.bearer /\ IsToken(h.authorization)
            /\ h.authorization.issuer = IssuerOf(a)
        BY <3>1, <3>3, StandardToken
      <4>2. CASE IssuedForStandard(selected, h)
        <5>1. TokenOf(selected, h) = h.authorization  BY <3>1, <3>2, <4>1, StandardToken
        <5> QED  BY <4>2, <5>1 DEF Accepts, IssuedForStandard
      <4>3. CASE ~IssuedForStandard(selected, h)
        <5>1. selected = oauth.main /\ (oauth.additional = <<>> \/ ~IssuedForStandard(a, h))
          BY <2>2, <3>1, <4>3
        <5>2. a.header = None => IssuedForStandard(a, h)  BY <3>1, <3>3, StandardToken
        <5>3. a = selected  BY <2>2, <3>1, <3>3, <4>3, <5>1, <5>2
        <5> QED  BY <3>3, <5>3
      <4> QED  BY <4>2, <4>3
    <3> QED  BY <2>5, <3>2, <3>3
  <2> QED  BY <2>4, <2>5
<1> QED  BY <1>1, OptionsInv, PTL
----------------------------------------------------------------------------
(* A sequence, of whatever pieces.                                         *)
IsText(s) == s \in Seq(ToSet(s))

(* A base path that is not just a slash.                                   *)
IsPrefixPath(p) ==
    \/ p = <<>>
    \/ IsText(p) /\ Len(p) > 1 /\ p[1] = "/" /\ p[Len(p)] # "/"

(* The document shows the base path of the middleware, behind a host or    *)
(* not, and the base path was made from a setting.                         *)
PrefixIsShown ==
    /\ \E setting : IsText(setting) /\ base = GetBasePath(setting)
    /\ shown = base \/ \E host \in Origins : shown = <<host>> \o base

(* What a sequence is made of.                                             *)
LEMMA TextFacts ==
    ASSUME NEW s, IsText(s)
    PROVE  /\ Len(s) \in Nat /\ DOMAIN s = 1..Len(s)
           /\ \A S : ToSet(s) \subseteq S => s \in Seq(S)
           /\ s = <<>> <=> Len(s) = 0
<1>1. s \in Seq(ToSet(s))  BY DEF IsText
<1>2. \A S : ToSet(s) \subseteq S => s \in Seq(S)  BY <1>1, SeqMonotonic
<1> QED  BY <1>1, <1>2, EmptySeq, LenProperties

(* A sequence over any set is one.                                         *)
LEMMA SeqIsText == ASSUME NEW S, NEW s \in Seq(S) PROVE IsText(s)
<1>1. \A i \in 1..Len(s) : s[i] \in ToSet(s)  BY DEF ToSet
<1>2. s \in [1..Len(s) -> ToSet(s)] /\ Len(s) \in Nat  BY <1>1
<1> QED  BY <1>2 DEF IsText

(* A piece of a sequence.                                                  *)
LEMMA CutFacts ==
    ASSUME NEW s, IsText(s), NEW m \in 1..Len(s), NEW n \in m..Len(s)
    PROVE  /\ IsText(SubSeq(s, m, n)) /\ Len(SubSeq(s, m, n)) = n - m + 1
           /\ \A i \in 1..n - m + 1 : SubSeq(s, m, n)[i] = s[m + i - 1]
<1>1. s \in Seq(ToSet(s)) /\ Len(s) \in Nat  BY TextFacts DEF IsText
<1>2. /\ SubSeq(s, m, n) \in Seq(ToSet(s)) /\ Len(SubSeq(s, m, n)) = n - m + 1
      /\ \A i \in 1..n - m + 1 : SubSeq(s, m, n)[i] = s[m + i - 1]
  BY <1>1, SubSeqProperties
<1> QED  BY <1>2, SeqIsText

(* Nothing trimmed off is left at either end.                              *)
LEMMA TrimFacts ==
    ASSUME NEW s, IsText(s), NEW X
    PROVE  \/ Trim(s, X) = <<>>
           \/ LET t == Trim(s, X)
              IN  IsText(t) /\ Len(t) > 0 /\ t[1] \notin X /\ t[Len(t)] \notin X
<1> DEFINE kept == {i \in DOMAIN s : s[i] \notin X}
<1>1. Len(s) \in Nat /\ DOMAIN s = 1..Len(s)  BY TextFacts
<1>2. CASE kept = {}  BY <1>2 DEF Trim
<1>3. CASE kept # {}
  <2>1. PICK m, n : m = Min(kept) /\ n = Max(kept)  OBVIOUS
  <2>2. Trim(s, X) = SubSeq(s, m, n)  BY <1>3, <2>1 DEF Trim
  <2>3. kept \in SUBSET (1..Len(s))  BY <1>1
  <2>4. m \in kept /\ n \in kept /\ m <= n
    <3> HIDE DEF kept
    <3> QED  BY <1>1, <1>3, <2>1, <2>3, MinMaxFacts
  <2>5. m \in 1..Len(s) /\ n \in m..Len(s) /\ s[m] \notin X /\ s[n] \notin X
    BY <1>1, <2>4
  <2> HIDE DEF kept
  <2>6. PICK t : t = SubSeq(s, m, n)  OBVIOUS
  <2>7. /\ IsText(t) /\ Len(t) = n - m + 1
        /\ \A i \in 1..n - m + 1 : t[i] = s[m + i - 1]
    BY <2>5, <2>6, CutFacts
  <2>8. t[1] = s[m] /\ t[n - m + 1] = s[n] /\ Len(t) > 0
    <3>1. 1 \in 1..n - m + 1 /\ n - m + 1 \in 1..n - m + 1  BY <1>1, <2>5
    <3>2. m + 1 - 1 = m /\ m + (n - m + 1) - 1 = n  BY <1>1, <2>5
    <3> QED  BY <2>5, <2>7, <3>1, <3>2
  <2> QED  BY <2>2, <2>5, <2>6, <2>7, <2>8
<1> QED  BY <1>2, <1>3

(* Two sequences, one behind the other.                                    *)
LEMMA JoinFacts ==
    ASSUME NEW s, NEW t, IsText(s), IsText(t)
    PROVE  /\ IsText(s \o t) /\ Len(s \o t) = Len(s) + Len(t)
           /\ \A i \in 1..Len(s) : (s \o t)[i] = s[i]
           /\ \A i \in 1..Len(t) : (s \o t)[Len(s) + i] = t[i]
           /\ <<>> \o t = t
<1>1. PICK S : S = ToSet(s) \cup ToSet(t)  OBVIOUS
<1>2. s \in Seq(S) /\ t \in Seq(S)  BY <1>1, TextFacts
<1>3. /\ s \o t \in Seq(S) /\ Len(s \o t) = Len(s) + Len(t)
      /\ \A i \in 1..Len(s) + Len(t) : (s \o t)[i] = IF i <= Len(s) THEN s[i] ELSE t[i - Len(s)]
      /\ Len(s) \in Nat /\ Len(t) \in Nat
  BY <1>2, ConcatProperties, LenProperties
<1>4. \A i \in 1..Len(t) : (s \o t)[Len(s) + i] = t[i]
  <2> TAKE i \in 1..Len(t)
  <2>1. Len(s) + i \in 1..Len(s) + Len(t) /\ ~(Len(s) + i <= Len(s)) /\ Len(s) + i - Len(s) = i
    BY <1>3
  <2> QED  BY <1>3, <2>1
<1>5. <<>> \o t = t  BY <1>2, ConcatEmptySeq
<1>6. IsText(s \o t)  BY <1>3, SeqIsText
<1>7. \A i \in 1..Len(s) : (s \o t)[i] = s[i]  BY <1>3
<1> QED  BY <1>3, <1>4, <1>5, <1>6, <1>7

(* What GetBasePath makes of any setting begins with a slash and does not  *)
(* end with one, or is that slash only, or nothing.                        *)
LEMMA BasePathForm ==
    ASSUME NEW setting, IsText(setting), GetBasePath(setting) # <<"/">>
    PROVE  IsPrefixPath(GetBasePath(setting))
<1>1. CASE GetBasePath(setting) = <<>>  BY <1>1 DEF IsPrefixPath
<1>2. CASE GetBasePath(setting) # <<>>
  <2>1. PICK inner : inner = Trim(setting, {" "})  OBVIOUS
  <2>2. PICK t : t = Trim(inner, {"/"})  OBVIOUS
  <2>3. GetBasePath(setting) = <<"/">> \o t  BY <1>2, <2>1, <2>2 DEF GetBasePath
  <2>4. IsText(<<>>) /\ IsText(<<"/">>) /\ Len(<<"/">>) = 1 /\ <<"/">>[1] = "/"
    <3>1. <<>> \in Seq({}) /\ <<"/">> \in Seq({"/"})  OBVIOUS
    <3> QED  BY <3>1, SeqIsText
  <2>5. IsText(inner)  BY <2>1, <2>4, TrimFacts
  <2>6. t = <<>> \/ (IsText(t) /\ Len(t) > 0 /\ t[Len(t)] # "/")
    BY <2>2, <2>5, TrimFacts
  <2>7. t # <<>>
    <3>1. <<"/">> \o <<>> = <<"/">>  BY <2>4, ConcatEmptySeq
    <3> QED  BY <2>3, <3>1
  <2>8. Len(t) \in Nat  BY <2>6, <2>7, TextFacts
  <2>9. PICK p : p = <<"/">> \o t  OBVIOUS
  <2>10. IsText(p) /\ Len(p) = 1 + Len(t) /\ p[1] = "/" /\ p[1 + Len(t)] = t[Len(t)]
    <3>1. 1 \in 1..Len(<<"/">>) /\ Len(t) \in 1..Len(t)  BY <2>4, <2>6, <2>7, <2>8
    <3> QED  BY <2>4, <2>6, <2>7, <2>9, <3>1, JoinFacts
  <2> QED  BY <2>3, <2>6, <2>7, <2>8, <2>9, <2>10 DEF IsPrefixPath
<1> QED  BY <1>1, <1>2
----------------------------------------------------------------------------
(* A path below an end point: nothing, or what begins with a slash.        *)
IsRest(s) == IsText(s) /\ (s = <<>> \/ s[1] = "/")

(* All five fields.                                                        *)
IsRequest(r) == r = [path |-> r.path, pathBase |-> r.pathBase, rest |-> r.rest,
                     proxy |-> r.proxy, headers |-> r.headers]

(* What a proxy makes of a call under the prefix p.                        *)
Sent(p, r) ==
    \/ r.proxy = "keeps" /\ r.path = p \o r.rest /\ r.pathBase = <<>>
    \/ r.proxy = "strips" /\ r.path = r.rest /\ r.pathBase = <<>>
    \/ r.proxy = "moves" /\ r.path = r.rest /\ r.pathBase = p

(* A path that repeats the prefix, which the proxy has taken off.          *)
Ambiguous(p, r) == r.proxy # "keeps" /\ p # <<>> /\ StartsWithSegments(r.rest, p)

(* A prefix has no slash at its end.                                       *)
LEMMA PrefixEnd == ASSUME NEW p, IsPrefixPath(p) PROVE TrimEnd(p, {"/"}) = p /\ IsText(p)
<1> DEFINE kept == {i \in DOMAIN p : p[i] \notin {"/"}}
<1>1. CASE p = <<>>
  <2>1. kept = {}  BY <1>1
  <2>2. p \in Seq({})  BY <1>1
  <2> QED  BY <1>1, <2>1, <2>2, SeqIsText DEF TrimEnd
<1>2. CASE IsText(p) /\ Len(p) > 1 /\ p[Len(p)] # "/"
  <2>1. Len(p) \in Nat /\ DOMAIN p = 1..Len(p) /\ p \in Seq(ToSet(p))
    BY <1>2, TextFacts DEF IsText
  <2>2. Len(p) \in kept /\ kept \in SUBSET (1..Len(p))  BY <1>2, <2>1
  <2>3. Max(kept) = Len(p)
    <3> HIDE DEF kept
    <3>1. PICK top : top = Max(kept)  OBVIOUS
    <3>2. top \in kept /\ Len(p) <= top  BY <2>1, <2>2, <3>1, MinMaxFacts
    <3>3. top \in 1..Len(p)  BY <2>2, <3>2
    <3> QED  BY <2>1, <3>1, <3>2, <3>3
  <2>4. SubSeq(p, 1, Len(p)) = p  BY <2>1, SubSeqFull
  <2> QED  BY <1>2, <2>2, <2>3, <2>4 DEF TrimEnd
<1> QED  BY <1>1, <1>2 DEF IsPrefixPath

(* A prefix in front of a path below it is found, and comes off again.     *)
LEMMA PrefixComesOff ==
    ASSUME NEW p, IsPrefixPath(p), NEW rest, IsRest(rest)
    PROVE  /\ StartsWithSegments(p \o rest, p)
           /\ SubSeq(p \o rest, Len(p) + 1, Len(p \o rest)) = rest
<1>1. IsText(p) /\ IsText(rest)  BY PrefixEnd DEF IsRest
<1>2. PICK S : S = ToSet(p) \cup ToSet(rest)  OBVIOUS
<1>3. p \in Seq(S) /\ rest \in Seq(S)  BY <1>1, <1>2, TextFacts
<1>4. PICK whole : whole = p \o rest  OBVIOUS
<1>5. /\ Len(p) \in Nat /\ Len(rest) \in Nat
      /\ IsText(whole) /\ Len(whole) = Len(p) + Len(rest)
      /\ \A i \in 1..Len(p) : whole[i] = p[i]
      /\ \A i \in 1..Len(rest) : whole[Len(p) + i] = rest[i]
  BY <1>1, <1>4, JoinFacts, TextFacts
<1>6. whole \in Seq(S)  BY <1>3, <1>4, ConcatProperties
<1>7. SubSeq(whole, 1, Len(p)) = p
  <2>1. SubSeq(whole, 1, Len(p)) = SubSeq(p, 1, Len(p))
    BY <1>3, <1>4, <1>5, SubSeqOfConcat1
  <2> QED  BY <1>3, <2>1, SubSeqFull
<1>8. SubSeq(whole, Len(p) + 1, Len(whole)) = rest
  <2>1. SubSeq(whole, Len(p) + 1, Len(whole)) = SubSeq(rest, 1, Len(rest))
    BY <1>3, <1>4, <1>5, SubSeqOfConcat2
  <2> QED  BY <1>3, <2>1, SubSeqFull
<1>9. IsPrefix(p, whole)
  <2>1. SubSeq(p, 1, Len(p)) = p  BY <1>3, SubSeqFull
  <2> QED  BY <1>5, <1>7, <2>1 DEF IsPrefix
<1>10. Len(whole) = Len(p) \/ whole[Len(p) + 1] = "/"
  <2>1. CASE rest = <<>>  BY <1>5, <2>1
  <2>2. CASE rest # <<>>
    <3>1. 1 \in 1..Len(rest) /\ rest[1] = "/"  BY <1>1, <2>2, TextFacts DEF IsRest
    <3> QED  BY <1>5, <3>1
  <2> QED  BY <2>1, <2>2
<1> QED  BY <1>4, <1>8, <1>9, <1>10 DEF StartsWithSegments

(* The first middleware takes the prefix off a path it has not been taken  *)
(* off, and only off such a one unless the path is ambiguous.              *)
LEMMA UsePathBaseFacts ==
    ASSUME NEW p, IsPrefixPath(p), NEW r, IsRequest(r), IsRest(r.rest), Sent(p, r)
    PROVE  LET q == UsePathBase(p, r)
           IN  /\ IsRequest(q) /\ q.rest = r.rest /\ q.proxy = r.proxy
               /\ Ambiguous(p, q) \/ (q.path = q.rest /\ q.pathBase \in {<<>>, p})
<1>1. TrimEnd(p, {"/"}) = p /\ IsText(p)  BY PrefixEnd
<1>2. CASE p # <<>> /\ StartsWithSegments(r.path, p)
  <2>1. PICK path, pathBase : /\ path = SubSeq(r.path, Len(p) + 1, Len(r.path))
                              /\ pathBase = AddPath(r.pathBase, p)
    OBVIOUS
  <2>2. PICK q : q = [path |-> path, pathBase |-> pathBase, rest |-> r.rest,
                      proxy |-> r.proxy, headers |-> r.headers]
    OBVIOUS
  <2>3. UsePathBase(p, r) = q
    <3>1. UsePathBase(p, r) = [r EXCEPT !.path = path, !.pathBase = pathBase]
      BY <1>1, <1>2, <2>1 DEF UsePathBase
    <3> QED  BY <2>2, <3>1 DEF IsRequest
  <2>4. IsRequest(q) /\ q.rest = r.rest /\ q.proxy = r.proxy
    BY <2>2 DEF IsRequest
  <2>5. CASE r.proxy = "keeps" /\ r.path = p \o r.rest /\ r.pathBase = <<>>
    <3>1. path = r.rest  BY <2>1, <2>5, PrefixComesOff
    <3>2. pathBase = p  BY <1>1, <2>1, <2>5, JoinFacts DEF AddPath
    <3> QED  BY <2>2, <2>3, <2>4, <3>1, <3>2
  <2>6. CASE r.proxy # "keeps" /\ r.path = r.rest
    BY <1>2, <2>2, <2>3, <2>4, <2>6 DEF Ambiguous
  <2> QED  BY <2>5, <2>6 DEF Sent
<1>3. CASE ~(p # <<>> /\ StartsWithSegments(r.path, p))
  <2>1. UsePathBase(p, r) = r  BY <1>1, <1>3 DEF UsePathBase
  <2>2. CASE r.proxy = "keeps" /\ r.path = p \o r.rest /\ r.pathBase = <<>>
    <3>1. p = <<>>  BY <1>3, <2>2, PrefixComesOff
    <3>2. r.path = r.rest  BY <1>1, <2>2, <3>1, JoinFacts DEF IsRest
    <3> QED  BY <2>1, <2>2, <3>2
  <2>3. CASE r.path = r.rest /\ r.pathBase \in {<<>>, p}  BY <2>1, <2>3
  <2> QED  BY <2>2, <2>3 DEF Sent
<1> QED  BY <1>2, <1>3

(* The second middleware adds the prefix where it is not there.            *)
LEMMA AddPathBaseFacts ==
    ASSUME NEW p, IsPrefixPath(p), NEW r, IsRequest(r), r.pathBase \in {<<>>, p}
    PROVE  LET q == AddPathBase(p, r)
           IN  /\ IsRequest(q) /\ q.rest = r.rest /\ q.proxy = r.proxy
               /\ q.path = r.path /\ q.pathBase = p
<1>1. IsText(p) /\ IsText(<<>>)
  <2>1. <<>> \in Seq({})  OBVIOUS
  <2> QED  BY <2>1, PrefixEnd, SeqIsText
<1>2. CASE p = <<>>  BY <1>2 DEF AddPathBase
<1>3. CASE p # <<>> /\ r.pathBase = p
  <2>1. IsPrefix(Reverse(p), Reverse(p))
    <3>1. Len(p) \in Nat  BY <1>1, TextFacts
    <3>2. Len(Reverse(p)) = Len(p)  BY <3>1 DEF Reverse
    <3> QED  BY <3>1, <3>2 DEF IsPrefix
  <2> QED  BY <1>3, <2>1 DEF AddPathBase, IsSuffix
<1>4. CASE p # <<>> /\ r.pathBase = <<>>
  <2>1. ~IsSuffix(p, <<>>)
    <3>1. Len(p) \in Nat /\ Len(p) # 0  BY <1>1, <1>4, TextFacts
    <3>2. Len(Reverse(p)) = Len(p) /\ Len(Reverse(<<>>)) = 0  BY <3>1 DEF Reverse
    <3> QED  BY <3>1, <3>2 DEF IsSuffix, IsPrefix
  <2>2. AddPath(<<>>, p) = p  BY <1>1, JoinFacts DEF AddPath
  <2>3. AddPathBase(p, r) = [r EXCEPT !.pathBase = p]  BY <1>4, <2>1, <2>2 DEF AddPathBase
  <2>4. AddPathBase(p, r) = [path |-> r.path, pathBase |-> p, rest |-> r.rest,
                             proxy |-> r.proxy, headers |-> r.headers]
    BY <2>3 DEF IsRequest
  <2> QED  BY <2>4 DEF IsRequest
<1> QED  BY <1>2, <1>3, <1>4

(* A call by the url shown is a path below the prefix, which the proxy     *)
(* keeps, strips or moves.                                                 *)
LEMMA CallIsSent ==
    ASSUME IsPrefixPath(base), shown = base \/ \E host \in Origins : shown = <<host>> \o base,
           NEW rest, IsRest(rest)
    PROVE  /\ TrimEnd(PathOf(shown), {"/"}) = base
           /\ PathOf(shown \o rest) = base \o rest
           /\ SubSeq(base \o rest, Len(base) + 1, Len(base \o rest)) = rest
<1>1. IsText(base) /\ IsText(rest) /\ TrimEnd(base, {"/"}) = base  BY PrefixEnd DEF IsRest
<1>2. \A s : IsText(s) => (s = <<>> \/ Head(s) = s[1])  OBVIOUS
<1>3. PICK whole : whole = base \o rest  OBVIOUS
<1>4. IsText(whole) /\ (whole = <<>> \/ Head(whole) = "/")
  <2>1. IsText(whole)  BY <1>1, <1>3, JoinFacts
  <2>2. CASE base = <<>>
    <3>1. whole = rest  BY <1>1, <1>3, <2>2, JoinFacts
    <3> QED  BY <1>2, <2>1, <3>1 DEF IsRest
  <2>3. CASE base # <<>>
    <3>1. Len(base) > 1 /\ base[1] = "/" /\ Len(base) \in Nat
      BY <1>1, <2>3, TextFacts DEF IsPrefixPath
    <3>2. 1 \in 1..Len(base)  BY <3>1
    <3>3. whole[1] = "/"  BY <1>1, <1>3, <3>1, <3>2, JoinFacts
    <3> QED  BY <1>2, <2>1, <3>3
  <2> QED  BY <2>2, <2>3
<1>5. CASE shown = base
  <2>1. base = <<>> \/ Head(base) = "/"  BY <1>1, <1>2 DEF IsPrefixPath
  <2>2. PathOf(shown) = base  BY <1>5, <2>1 DEF PathOf
  <2>3. PathOf(whole) = whole  BY <1>4 DEF PathOf
  <2> QED  BY <1>1, <1>3, <1>5, <2>2, <2>3, PrefixComesOff
<1>6. ASSUME NEW host \in Origins, shown = <<host>> \o base
      PROVE  /\ TrimEnd(PathOf(shown), {"/"}) = base
             /\ PathOf(shown \o rest) = base \o rest
             /\ SubSeq(base \o rest, Len(base) + 1, Len(base \o rest)) = rest
  <2>1. host # "/"  BY DEF Origins
  <2>2. PICK S : S = {host} \cup ToSet(base) \cup ToSet(rest) \cup ToSet(whole)  OBVIOUS
  <2>3. <<host>> \in Seq(S) /\ base \in Seq(S) /\ rest \in Seq(S) /\ whole \in Seq(S)
    BY <1>1, <1>4, <2>2, TextFacts
  <2>4. shown \o rest = <<host>> \o whole  BY <1>3, <1>6, <2>3, ConcatAssociative
  <2>5. \A s \in Seq(S) : /\ <<host>> \o s # <<>> /\ Head(<<host>> \o s) = host
                          /\ Tail(<<host>> \o s) = s
    BY <2>3, <2>2
  <2>6. PathOf(shown) = base  BY <1>6, <2>1, <2>3, <2>5 DEF PathOf
  <2>7. PathOf(shown \o rest) = whole  BY <2>1, <2>3, <2>4, <2>5 DEF PathOf
  <2> QED  BY <1>1, <1>3, <2>6, <2>7, PrefixComesOff
<1> QED  BY <1>5, <1>6
----------------------------------------------------------------------------
(* A request has come this far.                                            *)
ServiceShown == /\ base # None => shown # None
                /\ stage # "none" => base # None

(* What is left for each middleware to do.                                 *)
PathsKnown ==
    PrefixIsShown /\ base # <<"/">> /\ stage # "none" =>
        /\ IsRequest(request) /\ IsRest(request.rest)
        /\ stage = "received" => Sent(base, request)
        /\ stage = "stripped" =>
              \/ Ambiguous(base, request)
              \/ request.path = request.rest /\ request.pathBase \in {<<>>, base}
        /\ stage = "authenticating" =>
              \/ Ambiguous(base, request)
              \/ request.path = request.rest /\ request.pathBase = base

PathInv == ServiceShown /\ PathsKnown

(* A base path that is shown is a prefix.                                  *)
LEMMA ShownPrefix == ASSUME PrefixIsShown, base # <<"/">> PROVE IsPrefixPath(base)
BY BasePathForm DEF PrefixIsShown

(* The call of an end point.                                               *)
LEMMA CallPaths ==
    ASSUME PathInv, NEW call \in Calls, Call(call[1], call[2]) PROVE PathInv'
<1>1. PICK rest, headers : rest = call[1] /\ headers = call[2]  OBVIOUS
<1>2. /\ base # None /\ stage' = "received" /\ UNCHANGED <<oauth, shown, base>>
      /\ LET sent == PathOf(shown \o rest)
             prefix == TrimEnd(PathOf(shown), {"/"})
             inner == SubSeq(sent, Len(prefix) + 1, Len(sent))
         IN request' \in
              {[path |-> sent, pathBase |-> <<>>, rest |-> rest, proxy |-> "keeps",
                headers |-> headers],
               [path |-> inner, pathBase |-> <<>>, rest |-> rest, proxy |-> "strips",
                headers |-> headers],
               [path |-> inner, pathBase |-> prefix, rest |-> rest, proxy |-> "moves",
                headers |-> headers]}
  BY <1>1 DEF Call
<1>3. IsRest(rest)  BY <1>1, ServiceRequestAssumption DEF IsRest, IsText
<1>4. ServiceShown'  BY <1>2 DEF PathInv, ServiceShown
<1>5. ASSUME PrefixIsShown, base # <<"/">>
      PROVE  IsRequest(request') /\ request'.rest = rest /\ Sent(base, request')
  <2>1. IsPrefixPath(base)  BY <1>5, ShownPrefix
  <2>2. /\ TrimEnd(PathOf(shown), {"/"}) = base
        /\ PathOf(shown \o rest) = base \o rest
        /\ SubSeq(base \o rest, Len(base) + 1, Len(base \o rest)) = rest
    <3>1. shown = base \/ \E host \in Origins : shown = <<host>> \o base
      BY <1>5 DEF PrefixIsShown
    <3> QED  BY <1>3, <2>1, <3>1, CallIsSent
  <2>3. request' \in
            {[path |-> base \o rest, pathBase |-> <<>>, rest |-> rest, proxy |-> "keeps",
              headers |-> headers],
             [path |-> rest, pathBase |-> <<>>, rest |-> rest, proxy |-> "strips",
              headers |-> headers],
             [path |-> rest, pathBase |-> base, rest |-> rest, proxy |-> "moves",
              headers |-> headers]}
    BY <1>2, <2>2
  <2> QED  BY <2>3 DEF IsRequest, Sent
<1>6. PathsKnown'
  <2>1. PrefixIsShown' => PrefixIsShown  BY <1>2 DEF PrefixIsShown
  <2> QED  BY <1>2, <1>3, <1>5, <2>1 DEF PathsKnown
<1> QED  BY <1>4, <1>6 DEF PathInv

(* The two middlewares, in their order.                                    *)
LEMMA MiddlewarePaths == PathInv /\ (StripPrefix \/ EnsurePrefix \/ Served) => PathInv'
<1> SUFFICES ASSUME PathInv, StripPrefix \/ EnsurePrefix \/ Served PROVE PathInv'  OBVIOUS
<1>1. UNCHANGED <<shown, base>>  BY DEF StripPrefix, EnsurePrefix, Served, Pass
<1>2. PrefixIsShown' => PrefixIsShown  BY <1>1 DEF PrefixIsShown
<1>3. CASE Served
  BY <1>1, <1>3 DEF PathInv, ServiceShown, PathsKnown, Served, Pass
<1>4. CASE StripPrefix
  <2>1. /\ stage = "received" /\ stage' = "stripped" /\ request' = UsePathBase(base, request)
    BY <1>4 DEF StripPrefix, Pass
  <2>2. ASSUME PrefixIsShown, base # <<"/">>
        PROVE  /\ IsRequest(request') /\ request'.rest = request.rest
               /\ \/ Ambiguous(base, request')
                  \/ request'.path = request'.rest /\ request'.pathBase \in {<<>>, base}
    <3>1. IsPrefixPath(base)  BY <2>2, ShownPrefix
    <3>2. IsRequest(request) /\ IsRest(request.rest) /\ Sent(base, request)
      BY <2>1, <2>2 DEF PathInv, PathsKnown
    <3> QED  BY <2>1, <3>1, <3>2, UsePathBaseFacts
  <2> QED  BY <1>1, <1>2, <2>1, <2>2 DEF PathInv, ServiceShown, PathsKnown
<1>5. CASE EnsurePrefix
  <2>1. /\ stage = "stripped" /\ stage' = "authenticating"
        /\ request' = AddPathBase(base, request)
    BY <1>5 DEF EnsurePrefix, Pass
  <2>2. ASSUME PrefixIsShown, base # <<"/">>
        PROVE  /\ IsRequest(request') /\ request'.rest = request.rest
               /\ \/ Ambiguous(base, request')
                  \/ request'.path = request'.rest /\ request'.pathBase = base
    <3>1. IsPrefixPath(base)  BY <2>2, ShownPrefix
    <3>2. IsRequest(request)  BY <2>1, <2>2 DEF PathInv, PathsKnown
    <3>3. CASE request.path = request.rest /\ request.pathBase \in {<<>>, base}
      BY <2>1, <3>1, <3>2, <3>3, AddPathBaseFacts
    <3>4. CASE Ambiguous(base, request)
      <4>1. /\ IsRequest(request') /\ request'.rest = request.rest
            /\ request'.proxy = request.proxy
        BY <2>1, <3>2 DEF AddPathBase, IsRequest
      <4> QED  BY <3>4, <4>1 DEF Ambiguous
    <3> QED  BY <2>1, <2>2, <3>3, <3>4 DEF PathInv, PathsKnown
  <2> QED  BY <1>1, <1>2, <2>1, <2>2 DEF PathInv, ServiceShown, PathsKnown
<1> QED  BY <1>3, <1>4, <1>5

(* Whatever the base path, the call and the proxy: an end point called by  *)
(* the url that the document shows is reached under its own path, with the *)
(* prefix once in the path base, as long as document and middleware are    *)
(* configured with the same base path (ReverseProxySetup lines 45-99).     *)
THEOREM PrefixIsKept == Spec => [](PrefixIsShown => ClientUrlIsKept)
<1>1. Init => PathInv
  BY DEF Init, PathInv, ServiceShown, PathsKnown
<1>2. PathInv /\ [Next]_vars => PathInv'
  <2> SUFFICES ASSUME PathInv, [Next]_vars PROVE PathInv'  OBVIOUS
  <2>1. ASSUME UNCHANGED appVars PROVE PathInv'
    BY <2>1 DEF appVars, PathInv, ServiceShown, PathsKnown, PrefixIsShown
  <2>2. ASSUME ConfigureOpenApi \/ ConfigureMiddleware PROVE PathInv'
    BY <2>2 DEF ConfigureOpenApi, ConfigureMiddleware, PathInv, ServiceShown, PathsKnown
  <2> QED  BY <2>1, <2>2, CallPaths, MiddlewarePaths DEF Next, vars
<1>3. PathInv => (PrefixIsShown => ClientUrlIsKept)
  BY DEF PathInv, PathsKnown, ClientUrlIsKept, Ambiguous
<1> QED  BY <1>1, <1>2, <1>3, PTL DEF Spec
----------------------------------------------------------------------------
(* A recursive function on 1..Len(s), the sequences of s up to each place, *)
(* one behind the other.                                                   *)
IsFlattening(f, s) ==
    f = [i \in 1..Len(s) |-> IF i = 1 THEN s[i] ELSE f[i - 1] \o s[i]]

(* There is one: without it up to some place there would be a first such   *)
(* place.                                                                  *)
LEMMA FlatteningExists ==
    ASSUME NEW S, NEW s \in Seq(Seq(S)) PROVE \E f : IsFlattening(f, s)
<1> DEFINE n == Len(s)
           Part(m, f) == /\ f \in [1..m -> Seq(S)]
                         /\ \A i \in 1..m : f[i] = IF i = 1 THEN s[i] ELSE f[i - 1] \o s[i]
           missing == {m \in 1..n : ~\E f : Part(m, f)}
<1>1. n \in Nat /\ \A i \in 1..n : s[i] \in Seq(S)  OBVIOUS
<1>2. missing = {}
  <2> SUFFICES ASSUME missing # {} PROVE FALSE  OBVIOUS
  <2>1. PICK m \in missing : \A l \in missing : m <= l
    <3>1. missing \in SUBSET (1..n)  OBVIOUS
    <3> HIDE DEF missing, n
    <3> QED  BY <1>1, <3>1, LeastElement
  <2>2. m \in 1..n  OBVIOUS
  <2>3. CASE m = 1
    <3>1. Part(1, [i \in 1..1 |-> s[1]])  BY <1>1, <2>2, <2>3
    <3> QED  BY <2>3, <3>1
  <2>4. CASE m # 1
    <3>1. m - 1 \in 1..n /\ m - 1 \notin missing
      <4> HIDE DEF missing, n
      <4> QED  BY <1>1, <2>1, <2>2, <2>4
    <3>2. PICK f : Part(m - 1, f)  BY <3>1
    <3> DEFINE g == [i \in 1..m |-> IF i = m THEN f[m - 1] \o s[m] ELSE f[i]]
    <3>3. f[m - 1] \in Seq(S) /\ s[m] \in Seq(S)  BY <1>1, <2>2, <2>4, <3>2
    <3>4. f[m - 1] \o s[m] \in Seq(S)  BY <3>3, ConcatProperties
    <3>5. g \in [1..m -> Seq(S)]  BY <1>1, <2>2, <3>2, <3>4
    <3>6. \A i \in 1..m : g[i] = IF i = 1 THEN s[i] ELSE g[i - 1] \o s[i]
      <4> TAKE i \in 1..m
      <4>1. CASE i = m
        <5>1. m \in 1..m /\ m - 1 \in 1..m /\ m - 1 # m  BY <1>1, <2>2, <2>4
        <5>2. g[m] = f[m - 1] \o s[m] /\ g[m - 1] = f[m - 1]  BY <5>1
        <5> HIDE DEF g
        <5> QED  BY <2>4, <4>1, <5>2
      <4>2. CASE i # m
        <5>1. i \in 1..m - 1 /\ g[i] = f[i] /\ (i # 1 => g[i - 1] = f[i - 1])
          BY <1>1, <2>2, <4>2
        <5>2. f[i] = IF i = 1 THEN s[i] ELSE f[i - 1] \o s[i]  BY <3>2, <5>1
        <5> QED  BY <5>1, <5>2
      <4> QED  BY <4>1, <4>2
    <3>7. Part(m, g)  BY <3>5, <3>6
    <3> QED  BY <3>7
  <2> QED  BY <2>3, <2>4
<1>3. CASE n = 0
  <2>1. IsFlattening([i \in 1..0 |-> 0], s)  BY <1>3 DEF IsFlattening
  <2> QED  BY <2>1
<1>4. CASE n # 0
  <2>1. PICK f : Part(n, f)
    <3>1. n \in 1..n /\ n \notin missing
      <4> HIDE DEF missing, n
      <4> QED  BY <1>1, <1>2, <1>4
    <3> QED  BY <3>1
  <2>2. IsFlattening(f, s)  BY <2>1 DEF IsFlattening
  <2> QED  BY <2>2
<1> QED  BY <1>3, <1>4

(* FlattenSeq is the last value of one.                                    *)
LEMMA FlattenIsLast ==
    ASSUME NEW S, NEW s \in Seq(Seq(S)), s # <<>>
    PROVE  \E f : IsFlattening(f, s) /\ FlattenSeq(s) = f[Len(s)]
<1> DEFINE f == CHOOSE f : f = [i \in 1..Len(s) |-> IF i = 1 THEN s[i] ELSE f[i - 1] \o s[i]]
<1>1. IsFlattening(f, s)  BY FlatteningExists DEF IsFlattening
<1>2. Len(s) # 0  OBVIOUS
<1>3. FlattenSeq(s) = f[Len(s)]  BY <1>2 DEF FlattenSeq
<1> QED  BY <1>1, <1>3

(* What FlattenSeq returns has the elements of all sequences.              *)
LEMMA FlattenFacts ==
    ASSUME NEW S, NEW s \in Seq(Seq(S))
    PROVE  /\ FlattenSeq(s) \in Seq(S)
           /\ ToSet(FlattenSeq(s)) = UNION {ToSet(s[i]) : i \in 1..Len(s)}
<1>1. Len(s) \in Nat /\ \A i \in 1..Len(s) : s[i] \in Seq(S)  OBVIOUS
<1>2. CASE s = <<>>
  <2>1. FlattenSeq(s) = <<>> /\ ToSet(<<>>) = {} /\ 1..Len(s) = {}  BY <1>2 DEF FlattenSeq, ToSet
  <2> QED  BY <2>1
<1>3. CASE s # <<>>
  <2>1. PICK f : IsFlattening(f, s) /\ FlattenSeq(s) = f[Len(s)]  BY <1>3, FlattenIsLast
  <2>2. \A i \in 1..Len(s) : f[i] = IF i = 1 THEN s[i] ELSE f[i - 1] \o s[i]
    BY <2>1 DEF IsFlattening
  <2> DEFINE Fits(i) == f[i] \in Seq(S) /\ ToSet(f[i]) = UNION {ToSet(s[j]) : j \in 1..i}
             wrong == {i \in 1..Len(s) : ~Fits(i)}
  <2>3. wrong = {}
    <3> SUFFICES ASSUME wrong # {} PROVE FALSE  OBVIOUS
    <3>1. PICK m \in wrong : \A l \in wrong : m <= l
      <4>1. wrong \in SUBSET (1..Len(s))  OBVIOUS
      <4> HIDE DEF wrong
      <4> QED  BY <1>1, <4>1, LeastElement
    <3>2. m \in 1..Len(s) /\ ~Fits(m)  OBVIOUS
    <3>3. CASE m = 1
      <4>1. f[1] = s[1] /\ s[1] \in Seq(S)  BY <1>1, <2>2, <3>2, <3>3
      <4>2. 1..1 = {1}  OBVIOUS
      <4>3. Fits(1)  BY <4>1, <4>2
      <4> QED  BY <3>2, <3>3, <4>3
    <3>4. CASE m # 1
      <4>1. m - 1 \in 1..Len(s) /\ m - 1 \notin wrong
        <5> HIDE DEF wrong
        <5> QED  BY <1>1, <3>1, <3>2, <3>4
      <4>2. Fits(m - 1)  BY <4>1
      <4>3. f[m] = f[m - 1] \o s[m] /\ s[m] \in Seq(S)  BY <1>1, <2>2, <3>2, <3>4
      <4>4. f[m] \in Seq(S) /\ ToSet(f[m]) = ToSet(f[m - 1]) \cup ToSet(s[m])
        BY <4>2, <4>3, ToSetConcat
      <4>5. 1..m = (1..m - 1) \cup {m}  BY <1>1, <3>2
      <4>6. ToSet(f[m]) = UNION {ToSet(s[j]) : j \in 1..m}
        <5> HIDE DEF wrong
        <5> QED  BY <4>2, <4>4, <4>5
      <4> QED  BY <3>2, <4>4, <4>6
    <3> QED  BY <3>3, <3>4
  <2>4. Len(s) \in 1..Len(s)  BY <1>1, <1>3
  <2>5. Fits(Len(s))  BY <2>3, <2>4
  <2> QED  BY <2>1, <2>5
<1> QED  BY <1>2, <1>3

(* One piece after the other, a text again.                                *)
LEMMA FlattenPieces ==
    ASSUME NEW S, NEW t \in Seq(S)
    PROVE  FlattenSeq([i \in DOMAIN t |-> <<t[i]>>]) = t
<1>1. PICK s : s = [i \in DOMAIN t |-> <<t[i]>>]  OBVIOUS
<1>2. s \in Seq(Seq(S)) /\ Len(s) = Len(t) /\ Len(t) \in Nat /\ DOMAIN t = 1..Len(t)
      /\ \A i \in 1..Len(t) : s[i] = <<t[i]>> /\ t[i] \in S
  <2>1. Len(t) \in Nat /\ DOMAIN t = 1..Len(t) /\ \A i \in 1..Len(t) : t[i] \in S  OBVIOUS
  <2>2. \A i \in 1..Len(t) : <<t[i]>> \in Seq(S)  BY <2>1
  <2>3. s \in [1..Len(t) -> Seq(S)] /\ \A i \in 1..Len(t) : s[i] = <<t[i]>>  BY <1>1, <2>1, <2>2
  <2>4. s \in Seq(Seq(S)) /\ Len(s) = Len(t)  BY <2>1, <2>3
  <2> QED  BY <2>1, <2>3, <2>4
<1>3. CASE t = <<>>
  <2>1. s = <<>>  BY <1>2, <1>3
  <2>2. FlattenSeq(s) = <<>>  BY <2>1 DEF FlattenSeq
  <2> QED  BY <1>1, <1>3, <2>2
<1>4. CASE t # <<>>
  <2>0. Len(t) # 0 /\ s # <<>>  BY <1>2, <1>4
  <2>1. PICK f : IsFlattening(f, s) /\ FlattenSeq(s) = f[Len(s)]  BY <1>2, <2>0, FlattenIsLast
  <2>2. \A i \in 1..Len(t) : f[i] = IF i = 1 THEN s[i] ELSE f[i - 1] \o s[i]
    BY <1>2, <2>1 DEF IsFlattening
  <2> DEFINE Fits(i) == /\ f[i] \in Seq(S) /\ Len(f[i]) = i
                        /\ \A j \in 1..i : f[i][j] = t[j]
             wrong == {i \in 1..Len(t) : ~Fits(i)}
  <2>3. wrong = {}
    <3> SUFFICES ASSUME wrong # {} PROVE FALSE  OBVIOUS
    <3>1. PICK m \in wrong : \A l \in wrong : m <= l
      <4>1. wrong \in SUBSET (1..Len(t))  OBVIOUS
      <4> HIDE DEF wrong
      <4> QED  BY <1>2, <4>1, LeastElement
    <3>2. m \in 1..Len(t) /\ ~Fits(m)  OBVIOUS
    <3>3. CASE m = 1
      <4>1. f[1] = <<t[1]>> /\ t[1] \in S  BY <1>2, <2>2, <3>2, <3>3
      <4>2. Fits(1)  BY <4>1
      <4> QED  BY <3>2, <3>3, <4>2
    <3>4. CASE m # 1
      <4>1. m - 1 \in 1..Len(t) /\ m - 1 \notin wrong  BY <1>2, <3>1, <3>2, <3>4
      <4>2. Fits(m - 1)  BY <4>1
      <4>3. f[m] = f[m - 1] \o <<t[m]>> /\ t[m] \in S  BY <1>2, <2>2, <3>2, <3>4
      <4>4. PICK u : u = f[m - 1]  OBVIOUS
      <4>5. PICK x : x = t[m]  OBVIOUS
      <4>6. u \in Seq(S) /\ Len(u) = m - 1 /\ x \in S /\ f[m] = u \o <<x>> /\ m - 1 \in Nat
        BY <1>2, <3>2, <4>2, <4>3, <4>4, <4>5
      <4>7. /\ u \o <<x>> \in Seq(S) /\ Len(u \o <<x>>) = m
            /\ \A j \in 1..m : (u \o <<x>>)[j] = IF j = m THEN x ELSE u[j]
        BY <4>6, <1>2, <3>2
      <4>8. \A j \in 1..m : f[m][j] = t[j]
        <5> TAKE j \in 1..m
        <5>1. CASE j = m  BY <4>5, <4>6, <4>7, <5>1
        <5>2. CASE j # m
          <6>1. j \in 1..m - 1  BY <1>2, <3>2, <5>2
          <6> QED  BY <4>2, <4>4, <4>6, <4>7, <5>2, <6>1
        <5> QED  BY <5>1, <5>2
      <4>9. Fits(m)  BY <4>6, <4>7, <4>8
      <4> QED  BY <3>2, <4>9
    <3> QED  BY <3>3, <3>4
  <2>4. Len(t) \in 1..Len(t)  BY <1>2, <2>0
  <2>5. Fits(Len(t))  BY <2>3, <2>4
  <2>6. PICK u : u = FlattenSeq(s)  OBVIOUS
  <2>7. u \in Seq(S) /\ Len(u) = Len(t) /\ \A j \in 1..Len(t) : u[j] = t[j]
    BY <1>2, <2>1, <2>5, <2>6
  <2>8. u = t  BY <2>7, SeqEqual
  <2> QED  BY <1>1, <2>6, <2>8
<1> QED  BY <1>3, <1>4
----------------------------------------------------------------------------
(* Values of variables and what configuration files hold are texts.        *)
Value == Seq(Piece) \cup {None}

(* A piece that refers to a variable with a value.                         *)
IsSet(p) == p \in DOMAIN Reference /\ env[Reference[p]] # None

(* What Expand returns: the values of the variables referred to, and what  *)
(* else is in the text; a text without such references stays as it is.     *)
LEMMA ExpandFacts ==
    ASSUME env \in [Var -> Value], NEW text \in Seq(Piece)
    PROVE  /\ Expand(text) \in Seq(Piece)
           /\ ToSet(Expand(text)) =
                 {p \in ToSet(text) : ~IsSet(p)}
                 \cup UNION {ToSet(env[Reference[p]]) : p \in {q \in ToSet(text) : IsSet(q)}}
           /\ (\A p \in ToSet(text) : ~IsSet(p)) => Expand(text) = text
<1> DEFINE s == [i \in DOMAIN text |->
                    IF IsSet(text[i]) THEN env[Reference[text[i]]] ELSE <<text[i]>>]
<1>1. Len(text) \in Nat /\ DOMAIN text = 1..Len(text) /\ \A i \in 1..Len(text) : text[i] \in Piece
  OBVIOUS
<1>2. \A p : IsSet(p) => env[Reference[p]] \in Seq(Piece)
  <2>1. \A p \in DOMAIN Reference : Reference[p] \in Var  BY ConfigurationAssumption
  <2> QED  BY <2>1 DEF IsSet, Value
<1>3. Expand(text) = FlattenSeq(s)  BY DEF Expand, IsSet
<1>4. s \in Seq(Seq(Piece)) /\ Len(s) = Len(text)
  <2>1. \A i \in 1..Len(text) : <<text[i]>> \in Seq(Piece)  BY <1>1
  <2>2. \A i \in 1..Len(text) : s[i] \in Seq(Piece)  BY <1>1, <1>2, <2>1
  <2>3. s \in [1..Len(text) -> Seq(Piece)]  BY <1>1, <2>2
  <2> HIDE DEF s
  <2> QED  BY <1>1, <2>3
<1>5. FlattenSeq(s) \in Seq(Piece)
      /\ ToSet(FlattenSeq(s)) = UNION {ToSet(s[i]) : i \in 1..Len(text)}
  <2> HIDE DEF s
  <2> QED  BY <1>4, FlattenFacts
<1>6. \A i \in 1..Len(text) :
         ToSet(s[i]) = IF IsSet(text[i]) THEN ToSet(env[Reference[text[i]]]) ELSE {text[i]}
  <2>1. \A x : ToSet(<<x>>) = {x}  BY DEF ToSet
  <2> QED  BY <1>1, <2>1
<1>7. ToSet(text) = {text[i] : i \in 1..Len(text)}  BY <1>1 DEF ToSet
<1>8. ASSUME \A p \in ToSet(text) : ~IsSet(p) PROVE Expand(text) = text
  <2>1. s = [i \in DOMAIN text |-> <<text[i]>>]  BY <1>1, <1>7, <1>8
  <2> HIDE DEF s
  <2> QED  BY <1>3, <2>1, FlattenPieces
<1> HIDE DEF s
<1>9. ToSet(FlattenSeq(s)) =
                 {p \in ToSet(text) : ~IsSet(p)}
                 \cup UNION {ToSet(env[Reference[p]]) : p \in {q \in ToSet(text) : IsSet(q)}}
  <2>1. ASSUME NEW x \in ToSet(FlattenSeq(s))
        PROVE  \/ x \in ToSet(text) /\ ~IsSet(x)
               \/ \E p \in ToSet(text) : IsSet(p) /\ x \in ToSet(env[Reference[p]])
    <3>1. PICK i \in 1..Len(text) : x \in ToSet(s[i])  BY <1>5, <2>1
    <3> QED  BY <1>6, <1>7, <3>1, Zenon
  <2>2. ASSUME NEW p \in ToSet(text)
        PROVE  ToSet(IF IsSet(p) THEN env[Reference[p]] ELSE <<p>>) \subseteq ToSet(FlattenSeq(s))
    <3>1. PICK i \in 1..Len(text) : p = text[i]  BY <1>7, <2>2
    <3>2. s[i] = IF IsSet(p) THEN env[Reference[p]] ELSE <<p>>  BY <1>1, <3>1 DEF s
    <3> QED  BY <1>5, <3>1, <3>2
  <2>3. \A x : ToSet(<<x>>) = {x}  BY DEF ToSet
  <2>4. ASSUME NEW p \in ToSet(text), ~IsSet(p) PROVE p \in ToSet(FlattenSeq(s))
    BY <2>2, <2>3, <2>4
  <2>5. ASSUME NEW p \in ToSet(text), IsSet(p)
        PROVE  ToSet(env[Reference[p]]) \subseteq ToSet(FlattenSeq(s))
    BY <2>2, <2>5
  <2> QED  BY <2>1, <2>4, <2>5, Zenon
<1> QED  BY <1>3, <1>5, <1>8, <1>9

(* What the constants hold are texts.                                      *)
LEMMA HeldTexts ==
    /\ True \in Seq(Piece) /\ False \in Seq(Piece)
    /\ \A i \in DOMAIN EnvFile : EnvFile[i][2] \in Seq(Piece)
    /\ \A k \in DOMAIN Args : Args[k] \in Seq(Piece)
    /\ \A k \in DOMAIN Later : Later[k] \in Seq(Piece)
    /\ \A source \in {"appsettings", "appsettingsEnv", "secrets"} \cup ToSet(ServiceFiles) :
          \A k \in DOMAIN Content[Folder][source] : Content[Folder][source][k] \in Seq(Piece)
    /\ \A e \in InitialEnv : e \in [Var -> Value]
    /\ None \notin Seq(Piece)
<1>1. \A text \in Texts : text \in Seq(Piece)  BY TextsAssumption
<1>2. None \notin Seq(Piece)  BY TextsAssumption
<1> HIDE DEF Piece
<1>3. True \in Texts /\ False \in Texts  BY DEF Texts
<1>4. \A i \in DOMAIN EnvFile : EnvFile[i][2] \in Texts  BY DEF Texts
<1>5. /\ \A k \in DOMAIN Args : Args[k] \in Texts
      /\ \A k \in DOMAIN Later : Later[k] \in Texts
  BY DEF Texts
<1>6. ASSUME NEW source \in {"appsettings", "appsettingsEnv", "secrets"} \cup ToSet(ServiceFiles),
             NEW k \in DOMAIN Content[Folder][source]
      PROVE  Content[Folder][source][k] \in Texts
  <2> DEFINE files == {"appsettings", "appsettingsEnv", "secrets"} \cup ToSet(ServiceFiles)
             held(values) == {values[x] : x \in DOMAIN values}
  <2>1. held(Content[Folder][source]) \subseteq Texts
    <3>1. held(Content[Folder][source]) \in {held(Content[Folder][f]) : f \in files}  BY <1>6
    <3>2. UNION {held(Content[Folder][f]) : f \in files} \subseteq Texts  BY Zenon DEF Texts
    <3> HIDE DEF held, files
    <3> QED  BY <3>1, <3>2
  <2> QED  BY <1>6, <2>1
<1>7. ASSUME NEW e \in InitialEnv PROVE e \in [Var -> Value]
  <2>1. e = [v \in Var |-> e[v]]  BY ConfigurationAssumption
  <2>2. ASSUME NEW v \in Var PROVE e[v] \in Value
    <3>0. v \in DOMAIN e  BY <2>1
    <3> DEFINE held(values) == {values[x] : x \in DOMAIN values}
    <3>1. (held(e) \ {None}) \subseteq Texts
      <4>1. held(e) \in {held(d) : d \in InitialEnv}  BY <1>7
      <4>2. ((UNION {held(d) : d \in InitialEnv}) \ {None}) \subseteq Texts  BY Zenon DEF Texts
      <4> HIDE DEF held
      <4> QED  BY <4>1, <4>2
    <3>2. e[v] = None \/ e[v] \in Texts  BY <3>0, <3>1
    <3> QED  BY <1>1, <3>2 DEF Value
  <2> QED  BY <2>1, <2>2
<1> QED  BY <1>1, <1>2, <1>3, <1>4, <1>5, <1>6, <1>7

(* The sources of a finished builder, without those the application adds.  *)
Sources ==
    Defaults \o ServiceFiles \o (IF DOMAIN Args # {} THEN <<"commandLine">> ELSE <<>>)
        \o <<"expander">>

(* What the environment, what is saved of it and what is loaded of it hold *)
(* are texts, or no value.                                                 *)
ValuesKnown ==
    /\ env \in [Var -> Value] /\ original \in [Builder -> Value]
    /\ loaded \in [Builder -> [Var -> Value]]

(* A builder is finished once, and the expander takes all its sources,     *)
(* itself the last of them or the last but one.                            *)
FinishedKnown ==
    /\ moved = [b \in Builder |-> moved[b]] /\ taken \in [Builder -> Nat]
    /\ \A b \in Builder : at[b] = "ready" =>
          moved[b] = TRUE /\ stack[b] \in {Sources, Append(Sources, "later")}
    /\ \A b \in Builder : taken[b] # 0 =>
          at[b] = "ready" /\ Len(Sources) <= taken[b] /\ taken[b] <= Len(stack[b])

AnswersInv == WatchingInv /\ ValuesKnown /\ FinishedKnown

(* The expander is a source, and the last one.                             *)
LEMMA SourcesKnown ==
    /\ Sources \in Seq(Source) /\ Len(Sources) \in Nat /\ Len(Sources) > 0
    /\ Append(Sources, "later") \in Seq(Source)
    /\ Len(Append(Sources, "later")) = Len(Sources) + 1
<1> DEFINE args == IF DOMAIN Args # {} THEN <<"commandLine">> ELSE <<>>
<1>1. args \in {<<"commandLine">>, <<>>}  OBVIOUS
<1>2. Sources \in Seq(Source)
  <2> HIDE DEF args
  <2>1. Defaults \o ServiceFiles \o args \o <<"expander">> \in Seq(Source)  BY <1>1, AllSources
  <2> QED  BY <2>1 DEF args, Sources
<1>3. Len(Sources) > 0
  <2>1. Defaults \o ServiceFiles \in Seq(Source) /\ args \in Seq(Source)
    <3>1. Defaults \in Seq(Source) /\ ServiceFiles \in Seq(Source)
      BY ServiceFilesKnown DEF Defaults, Source
    <3>2. <<"commandLine">> \in Seq(Source) /\ <<>> \in Seq(Source)  BY DEF Source
    <3>3. \A s, t \in Seq(Source) : s \o t \in Seq(Source)  BY ToSetConcat
    <3> QED  BY <3>1, <3>2, <3>3, Zenon
  <2>2. PICK front : front = Defaults \o ServiceFiles \o args  OBVIOUS
  <2>3. IsText(front) /\ IsText(<<"expander">>) /\ Len(<<"expander">>) = 1
    <3>1. <<"expander">> \in Seq(Source)  BY DEF Source
    <3>2. \A s, t \in Seq(Source) : s \o t \in Seq(Source)  BY ToSetConcat
    <3>3. front \in Seq(Source)  BY <2>1, <2>2, <3>2, Zenon
    <3> QED  BY <3>1, <3>3, SeqIsText
  <2>4. Len(front \o <<"expander">>) = Len(front) + 1 /\ Len(front) \in Nat
    BY <2>3, JoinFacts, TextFacts
  <2> QED  BY <2>2, <2>4 DEF Sources
<1>4. "later" \in Source  BY DEF Source
<1> QED  BY <1>2, <1>3, <1>4

(* No builder has been created; the process starts with values.            *)
LEMMA InitAnswers == Init => AnswersInv
<1> SUFFICES ASSUME Init PROVE AnswersInv  OBVIOUS
<1>1. ValuesKnown
  <2>1. env \in [Var -> Value]  BY HeldTexts DEF Init, ConfigInit
  <2>2. None \in Value  BY DEF Value
  <2> QED  BY <2>1, <2>2 DEF Init, ConfigInit, ValuesKnown
<1>2. FinishedKnown  BY DEF Init, ConfigInit, FinishedKnown
<1> QED  BY <1>1, <1>2, InitWatching DEF AnswersInv

(* A line of the file of variables makes a value of a text.                *)
LEMMA BuildValues ==
    ASSUME NEW b \in Builder, AnswersInv, Build(b) PROVE ValuesKnown'
<1> USE DEF AnswersInv, ValuesKnown
<1>1. ASSUME ReadEnvLine(b) PROVE ValuesKnown'
  <2> DEFINE i == line[b] + 1
  <2>1. i \in DOMAIN EnvFile
    <3>1. Len(EnvFile) \in Nat /\ DOMAIN EnvFile = 1..Len(EnvFile) /\ line[b] \in 0..Len(EnvFile)
      BY ConfigurationAssumption DEF WatchingInv, RestoringInv, ConfigShape
    <3> QED  BY <1>1, <3>1 DEF ReadEnvLine
  <2>2. EnvFile[i][2] \in Seq(Piece)  BY <2>1, HeldTexts
  <2>3. Expand(EnvFile[i][2]) \in Value  BY <2>2, ExpandFacts DEF Value
  <2>4. env' = [env EXCEPT ![EnvFile[i][1]] = Expand(EnvFile[i][2])]  BY <1>1 DEF ReadEnvLine
  <2> HIDE DEF i
  <2>5. env' \in [Var -> Value]  BY <2>3, <2>4
  <2> QED  BY <1>1, <2>5 DEF ReadEnvLine
<1>2. ASSUME SaveVariable(b) PROVE ValuesKnown'
  <2>1. env["host"] \in Value  BY ConfigurationAssumption
  <2> QED  BY <1>2, <2>1 DEF SaveVariable
<1>3. ASSUME SetVariable(b) PROVE ValuesKnown'
  <2>1. False \in Value  BY HeldTexts DEF Value
  <2> QED  BY <1>3, <2>1 DEF SetVariable, own
<1>4. ASSUME CreateBuilder(b) PROVE ValuesKnown'  BY <1>4 DEF CreateBuilder
<1>5. ASSUME RestoreVariable(b) PROVE ValuesKnown'
  <2>1. None \in Value  BY DEF Value
  <2> QED  BY <1>5, <2>1 DEF RestoreVariable
<1>6. ASSUME InitConfiguration(b) PROVE ValuesKnown'  BY <1>6 DEF InitConfiguration
<1>7. ASSUME BeginBuilder(b) PROVE ValuesKnown'  BY <1>7 DEF BeginBuilder, own
<1> QED  BY <1>1, <1>2, <1>3, <1>4, <1>5, <1>6, <1>7 DEF Build

(* InitConfiguration finishes a builder, on the sources of the default one.*)
LEMMA BuildFinished ==
    ASSUME NEW b \in Builder, AnswersInv, Build(b) PROVE FinishedKnown'
<1> USE DEF AnswersInv, FinishedKnown
<1>0. at = [q \in Builder |-> at[q]] /\ stack = [q \in Builder |-> stack[q]]
  BY DEF WatchingInv, Arrays, RestoringInv, ConfigShape
<1>1. ASSUME at[b] # "ready", NEW place, place # "ready",
             at' = [at EXCEPT ![b] = place] \/ at' = at,
             NEW s, stack' = [stack EXCEPT ![b] = s] \/ stack' = stack,
             UNCHANGED <<moved, taken>>
      PROVE  FinishedKnown'
  BY <1>0, <1>1
<1>2. ASSUME InitConfiguration(b) PROVE FinishedKnown'
  <2>1. stack[b] = Defaults /\ at[b] = "init"
    BY <1>2 DEF InitConfiguration, WatchingInv, CreatedWithSetting
  <2>2. taken[b] = 0 /\ UNCHANGED taken  BY <1>2, <2>1 DEF InitConfiguration
  <2>3. CASE at' = [at EXCEPT ![b] = "ready"] /\ moved' = [moved EXCEPT ![b] = TRUE]
             /\ stack' = [stack EXCEPT ![b] = Sources]
    BY <1>0, <2>1, <2>2, <2>3
  <2>4. CASE at' = [at EXCEPT ![b] = "failed"] /\ UNCHANGED <<moved, stack>>
    BY <1>0, <1>1, <2>1, <2>2, <2>4
  <2> QED  BY <1>2, <2>1, <2>3, <2>4 DEF InitConfiguration, Go, Sources
<1>3. ASSUME ReadEnvLine(b) PROVE FinishedKnown'  BY <1>3 DEF ReadEnvLine
<1>4. ASSUME BeginBuilder(b) PROVE FinishedKnown'
  <2>1. at[b] # "ready" /\ at' = [at EXCEPT ![b] = IF Watching THEN "create" ELSE "save"]
        /\ UNCHANGED <<stack, moved, taken>>
    BY <1>4 DEF BeginBuilder, Go, own
  <2> QED  BY <1>1, <2>1
<1>5. ASSUME SaveVariable(b) \/ SetVariable(b) PROVE FinishedKnown'
  <2>1. at[b] # "ready" /\ at' = [at EXCEPT ![b] = IF at[b] = "save" THEN "set" ELSE "creating"]
        /\ UNCHANGED <<stack, moved, taken>>
    BY <1>5 DEF SaveVariable, SetVariable, Go, own
  <2> QED  BY <1>1, <2>1
<1>6. ASSUME CreateBuilder(b) PROVE FinishedKnown'
  <2>1. at[b] # "ready" /\ UNCHANGED <<moved, taken>>  BY <1>6 DEF CreateBuilder
  <2>2. CASE at' = [at EXCEPT ![b] = IF at[b] = "create" THEN "init" ELSE "restore"]
             /\ stack' = [stack EXCEPT ![b] = Defaults]
    BY <1>1, <2>1, <2>2
  <2>3. CASE at' = [at EXCEPT ![b] = IF at[b] = "create" THEN "failed" ELSE "rethrow"]
             /\ UNCHANGED stack
    BY <1>1, <2>1, <2>3
  <2> QED  BY <1>6, <2>2, <2>3 DEF CreateBuilder, Go
<1>7. ASSUME RestoreVariable(b) PROVE FinishedKnown'
  <2>1. at[b] # "ready" /\ at' = [at EXCEPT ![b] = IF at[b] = "restore" THEN "init" ELSE "failed"]
        /\ UNCHANGED <<stack, moved, taken>>
    BY <1>7 DEF RestoreVariable, Go
  <2> QED  BY <1>1, <2>1
<1> QED  BY <1>2, <1>3, <1>4, <1>5, <1>6, <1>7 DEF Build

(* The application adds one source, and looks up in all there are.         *)
LEMMA UseAnswers ==
    ASSUME NEW b \in Builder, AnswersInv, Use(b) PROVE ValuesKnown' /\ FinishedKnown'
<1> USE DEF AnswersInv, ValuesKnown, FinishedKnown
<1>0. stack = [q \in Builder |-> stack[q]] /\ at[b] = "ready"
  BY DEF WatchingInv, Arrays, Use, AddProvider, FirstLookup
<1>1. stack[b] \in {Sources, Append(Sources, "later")}  BY <1>0
<1>2. Len(Sources) \in Nat /\ Len(Sources) > 0 /\ Len(Append(Sources, "later")) = Len(Sources) + 1
  BY SourcesKnown
<1>3. ASSUME AddProvider(b) PROVE ValuesKnown' /\ FinishedKnown'
  <2>1. stack[b] = Sources
    <3>1. "later" \in ToSet(Append(Sources, "later"))
      <4>1. Sources \in Seq(Source) /\ Append(Sources, "later") = Sources \o <<"later">>
            /\ <<"later">> \in Seq(Source) /\ ToSet(<<"later">>) = {"later"}
        BY SourcesKnown, AppendIsConcat DEF Source, ToSet
      <4>2. ToSet(Sources \o <<"later">>) = ToSet(Sources) \cup {"later"}
        <5>1. \A s, t \in Seq(Source) : ToSet(s \o t) = ToSet(s) \cup ToSet(t)  BY ToSetConcat
        <5> QED  BY <4>1, <5>1, Zenon
      <4> QED  BY <4>1, <4>2
    <3> QED  BY <1>1, <1>3, <3>1 DEF AddProvider
  <2>2. stack' = [stack EXCEPT ![b] = Append(Sources, "later")]
        /\ UNCHANGED <<env, at, original, moved, loaded, taken>>
    BY <1>3, <2>1 DEF AddProvider
  <2> QED  BY <1>0, <1>2, <2>1, <2>2
<1>4. ASSUME FirstLookup(b) PROVE ValuesKnown' /\ FinishedKnown'
  <2>1. taken' = [taken EXCEPT ![b] = Len(stack[b])] /\ loaded' = [loaded EXCEPT ![b] = env]
        /\ UNCHANGED <<env, at, original, moved, stack>>
    BY <1>4 DEF FirstLookup
  <2>2. Len(stack[b]) \in Nat /\ Len(Sources) <= Len(stack[b])  BY <1>1, <1>2
  <2> QED  BY <1>0, <2>1, <2>2
<1> QED  BY <1>3, <1>4 DEF Use

(* What is done with a service concerns no builder.                        *)
LEMMA NextAnswers == AnswersInv /\ [Next]_vars => AnswersInv'
<1> SUFFICES ASSUME AnswersInv, [Next]_vars PROVE AnswersInv'  OBVIOUS
<1>0. WatchingInv'  BY NextWatching DEF AnswersInv
<1>1. ASSUME NEW b \in Builder, Build(b) PROVE AnswersInv'
  BY <1>0, <1>1, BuildValues, BuildFinished DEF AnswersInv
<1>2. ASSUME Use(Service) PROVE AnswersInv'
  BY <1>0, <1>2, UseAnswers, ServiceRequestAssumption DEF AnswersInv
<1>3. ASSUME UNCHANGED configVars PROVE AnswersInv'
  BY <1>0, <1>3 DEF AnswersInv, ValuesKnown, FinishedKnown, configVars, own
<1>4. UNCHANGED configVars \/ Use(Service) \/ \E b \in Builder : Build(b)
  BY DEF Next, vars, ConfigureOpenApi, ConfigureMiddleware, Call, StripPrefix, EnsurePrefix,
         Served, Pass
<1> QED  BY <1>1, <1>2, <1>3, <1>4
----------------------------------------------------------------------------
(* Where the sources of a finished builder stand: the files of the service *)
(* behind the default ones, then the command line, then the expander.      *)
LEMMA SourcePlaces ==
    LET m == Len(ServiceFiles)
        n == Len(Sources)
    IN  /\ m \in Nat /\ n \in Nat /\ n = IF DOMAIN Args # {} THEN m + 7 ELSE m + 6
        /\ \A i \in 1..5 : Sources[i] = Defaults[i]
        /\ \A i \in 1..m : Sources[5 + i] = ServiceFiles[i]
        /\ DOMAIN Args # {} => Sources[m + 6] = "commandLine"
        /\ Sources[n] = "expander"
<1> DEFINE m == Len(ServiceFiles)
<1>1. PICK args : args = IF DOMAIN Args # {} THEN <<"commandLine">> ELSE <<>>  OBVIOUS
<1>2. /\ IsText(Defaults) /\ IsText(ServiceFiles) /\ IsText(args) /\ IsText(<<"expander">>)
      /\ Len(Defaults) = 5 /\ m \in Nat
      /\ Len(args) = IF DOMAIN Args # {} THEN 1 ELSE 0
      /\ Len(<<"expander">>) = 1 /\ <<"expander">>[1] = "expander"
      /\ DOMAIN Args # {} => args[1] = "commandLine"
  <2>1. Defaults \in Seq(Source) /\ Len(Defaults) = 5  BY DEF Defaults, Source
  <2>2. ServiceFiles \in Seq(Source)  BY ServiceFilesKnown
  <2>3. <<"commandLine">> \in Seq(Source) /\ <<>> \in Seq(Source) /\ <<"expander">> \in Seq(Source)
    BY DEF Source
  <2>4. args \in Seq(Source)  BY <1>1, <2>3
  <2>5. /\ Len(args) = (IF DOMAIN Args # {} THEN 1 ELSE 0)
        /\ DOMAIN Args # {} => args[1] = "commandLine"
    BY <1>1
  <2>6. \A s \in Seq(Source) : IsText(s) /\ Len(s) \in Nat  BY SeqIsText
  <2>7. Len(<<"expander">>) = 1 /\ <<"expander">>[1] = "expander"  OBVIOUS
  <2> QED  BY <2>1, <2>2, <2>3, <2>4, <2>5, <2>6, <2>7, Zenon
<1> HIDE DEF m
<1>0. IsText(Defaults) /\ IsText(ServiceFiles) /\ IsText(args) /\ IsText(<<"expander">>)
  BY <1>2
<1>3. PICK s : s = Defaults \o ServiceFiles  OBVIOUS
<1>4. /\ IsText(s) /\ Len(s) = 5 + m
      /\ \A i \in 1..5 : s[i] = Defaults[i]
      /\ \A i \in 1..m : s[5 + i] = ServiceFiles[i]
  <2>1. \A i \in 1..Len(ServiceFiles) : s[Len(Defaults) + i] = ServiceFiles[i]
    BY <1>0, <1>3, JoinFacts
  <2>2. IsText(s) /\ Len(s) = Len(Defaults) + Len(ServiceFiles)
        /\ \A i \in 1..Len(Defaults) : s[i] = Defaults[i]
    BY <1>0, <1>3, JoinFacts
  <2> QED  BY <1>2, <2>1, <2>2 DEF m
<1>5. PICK t : t = s \o args  OBVIOUS
<1>6. /\ IsText(t) /\ Len(t) = Len(s) + Len(args)
      /\ \A i \in 1..Len(s) : t[i] = s[i]
      /\ \A i \in 1..Len(args) : t[Len(s) + i] = args[i]
  <2>1. IsText(s)  BY <1>4
  <2> QED  BY <1>0, <1>5, <2>1, JoinFacts
<1>7. PICK u : u = t \o <<"expander">>  OBVIOUS
<1>8. /\ Len(u) = Len(t) + 1
      /\ \A i \in 1..Len(t) : u[i] = t[i]
      /\ u[Len(t) + 1] = "expander"
  <2>1. 1 \in 1..Len(<<"expander">>)  BY <1>2
  <2> QED  BY <1>0, <1>2, <1>6, <1>7, <2>1, JoinFacts
<1>9. Sources = u  BY <1>1, <1>3, <1>5, <1>7 DEF Sources
<1>10. Len(u) = IF DOMAIN Args # {} THEN m + 7 ELSE m + 6
  BY <1>2, <1>4, <1>6, <1>8
<1>11. \A i \in 1..5 : u[i] = Defaults[i]
  <2> TAKE i \in 1..5
  <2>1. i \in 1..Len(s) /\ i \in 1..Len(t)  BY <1>2, <1>4, <1>6
  <2> QED  BY <1>4, <1>6, <1>8, <2>1
<1>12. \A i \in 1..m : u[5 + i] = ServiceFiles[i]
  <2> TAKE i \in 1..m
  <2>1. 5 + i \in 1..Len(s) /\ 5 + i \in 1..Len(t)  BY <1>2, <1>4, <1>6
  <2> QED  BY <1>4, <1>6, <1>8, <2>1
<1>13. DOMAIN Args # {} => u[m + 6] = "commandLine"
  <2>1. DOMAIN Args # {} => 1 \in 1..Len(args) /\ m + 6 = Len(s) + 1 /\ m + 6 \in 1..Len(t)
    BY <1>2, <1>4, <1>6
  <2> QED  BY <1>2, <1>6, <1>8, <2>1
<1>14. u[Len(u)] = "expander"  BY <1>8
<1>15. Len(u) \in Nat  BY <1>2, <1>10
<1> QED  BY <1>2, <1>9, <1>10, <1>11, <1>12, <1>13, <1>14, <1>15 DEF m

(* The documented order, place by place.                                   *)
LEMMA PrecedencePlaces ==
    LET m == Len(ServiceFiles)
    IN  /\ m \in Nat /\ DOMAIN Precedence = 1..m + 5
        /\ \A i \in 1..4 : Precedence[i] = Defaults[i]
        /\ \A i \in 1..m : Precedence[4 + i] = ServiceFiles[i]
        /\ Precedence[m + 5] = "commandLine"
<1> DEFINE m == Len(ServiceFiles)
           four == <<"appsettings", "appsettingsEnv", "secrets", "environment">>
<1>1. /\ IsText(four) /\ IsText(ServiceFiles) /\ IsText(<<"commandLine">>)
      /\ Len(four) = 4 /\ m \in Nat /\ Len(<<"commandLine">>) = 1
      /\ \A i \in 1..4 : four[i] = Defaults[i]
  <2>1. four \in Seq(Source) /\ Len(four) = 4 /\ <<"commandLine">> \in Seq(Source)  BY DEF Source
  <2>2. ServiceFiles \in Seq(Source)  BY ServiceFilesKnown
  <2>3. \A i \in 1..4 : four[i] = Defaults[i]
    <3>1. 1..4 = {1, 2, 3, 4}  OBVIOUS
    <3>2. four[1] = Defaults[1] /\ four[2] = Defaults[2] /\ four[3] = Defaults[3]
          /\ four[4] = Defaults[4]
      BY DEF Defaults
    <3> HIDE DEF four
    <3> QED  BY <3>1, <3>2
  <2> HIDE DEF four
  <2>4. \A s \in Seq(Source) : IsText(s) /\ Len(s) \in Nat  BY SeqIsText
  <2>5. Len(<<"commandLine">>) = 1  OBVIOUS
  <2> QED  BY <2>1, <2>2, <2>3, <2>4, <2>5, Zenon
<1> HIDE DEF m
<1>2. PICK f : f = four  OBVIOUS
<1>3. PICK s : s = f \o ServiceFiles  OBVIOUS
<1> HIDE DEF four
<1>4. /\ IsText(s) /\ Len(s) = 4 + m
      /\ \A i \in 1..4 : s[i] = Defaults[i]
      /\ \A i \in 1..m : s[4 + i] = ServiceFiles[i]
  <2>1. \A i \in 1..Len(ServiceFiles) : s[Len(f) + i] = ServiceFiles[i]
    BY <1>1, <1>2, <1>3, JoinFacts
  <2>2. IsText(s) /\ Len(s) = Len(f) + Len(ServiceFiles) /\ \A i \in 1..Len(f) : s[i] = f[i]
    BY <1>1, <1>2, <1>3, JoinFacts
  <2> QED  BY <1>1, <1>2, <2>1, <2>2 DEF m
<1>5. PICK t : t = s \o <<"commandLine">>  OBVIOUS
<1>6. /\ IsText(t) /\ Len(t) = Len(s) + 1
      /\ \A i \in 1..Len(s) : t[i] = s[i]
      /\ t[Len(s) + 1] = "commandLine"
  <2>1. 1 \in 1..Len(<<"commandLine">>) /\ <<"commandLine">>[1] = "commandLine"  BY <1>1
  <2> QED  BY <1>1, <1>4, <1>5, <2>1, JoinFacts
<1>7. Precedence = t  BY <1>2, <1>3, <1>5 DEF Precedence, four
<1>8. DOMAIN t = 1..m + 5
  <2>1. DOMAIN t = 1..Len(t)  BY <1>6, TextFacts
  <2> QED  BY <1>1, <1>4, <1>6, <2>1
<1>9. \A i \in 1..4 : t[i] = Defaults[i]
  <2> TAKE i \in 1..4
  <2>1. i \in 1..Len(s)  BY <1>1, <1>4
  <2> QED  BY <1>4, <1>6, <2>1
<1>10. \A i \in 1..m : t[4 + i] = ServiceFiles[i]
  <2> TAKE i \in 1..m
  <2>1. 4 + i \in 1..Len(s)  BY <1>1, <1>4
  <2> QED  BY <1>4, <1>6, <2>1
<1>11. t[m + 5] = "commandLine"
  <2>1. Len(s) + 1 = m + 5  BY <1>1, <1>4
  <2> QED  BY <1>6, <2>1
<1> QED  BY <1>1, <1>7, <1>8, <1>9, <1>10, <1>11 DEF m

(* The last place of the source that stands at place i of the order.       *)
LastPlace(i) ==
    LET m == Len(ServiceFiles)
    IN IF i <= 4 THEN i ELSE IF i <= m + 4 THEN i + 1 ELSE m + 6

(* The places of the sources follow the documented order; the command line *)
(* the default builder has is given again.                                 *)
LEMMA PlacesFollowOrder ==
    LET m == Len(ServiceFiles)
        n == Len(Sources)
    IN  /\ DOMAIN Precedence = 1..m + 5
        /\ \A i \in 1..n - 1 :
              \E j \in 1..m + 5 : Sources[i] = Precedence[j] /\ i <= LastPlace(j)
        /\ \A j \in 1..m + 5 : j <= m + 4 \/ DOMAIN Args # {} =>
              LastPlace(j) \in 1..n - 1 /\ Sources[LastPlace(j)] = Precedence[j]
        /\ \A j, l \in 1..m + 5 : j <= l => LastPlace(j) <= LastPlace(l)
        /\ \A i \in 1..n - 1 : Sources[i] # "expander"
<1> DEFINE m == Len(ServiceFiles)
           n == Len(Sources)
<1>1. m \in Nat /\ n \in Nat /\ n = IF DOMAIN Args # {} THEN m + 7 ELSE m + 6
  BY SourcePlaces
<1>2. /\ \A i \in 1..5 : Sources[i] = Defaults[i]
      /\ \A i \in 1..m : Sources[5 + i] = ServiceFiles[i]
  BY SourcePlaces
<1>3. DOMAIN Args # {} => Sources[m + 6] = "commandLine"  BY SourcePlaces
<1>4. DOMAIN Precedence = 1..m + 5  BY PrecedencePlaces
<1>5. /\ \A i \in 1..4 : Precedence[i] = Defaults[i]
      /\ \A i \in 1..m : Precedence[4 + i] = ServiceFiles[i]
  BY PrecedencePlaces
<1>6. Precedence[m + 5] = "commandLine"  BY PrecedencePlaces
<1>7. Defaults[5] = "commandLine"  BY DEF Defaults
<1> HIDE DEF m, n
<1>9. \A i : LastPlace(i) = IF i <= 4 THEN i ELSE IF i <= m + 4 THEN i + 1 ELSE m + 6
  BY DEF LastPlace, m
<1>10. ASSUME NEW i \in 1..n - 1
       PROVE  \E j \in 1..m + 5 : Sources[i] = Precedence[j] /\ i <= LastPlace(j)
  <2>1. CASE i \in 1..4
    <3>1. i \in 1..5 /\ i \in 1..m + 5 /\ LastPlace(i) = i  BY <1>1, <1>9, <2>1
    <3>2. Sources[i] = Precedence[i]  BY <1>2, <1>5, <2>1, <3>1
    <3> QED  BY <3>1, <3>2
  <2>2. CASE i = 5
    <3>1. 5 \in 1..5 /\ m + 5 \in 1..m + 5 /\ LastPlace(m + 5) = m + 6 /\ 5 <= m + 6
      BY <1>1, <1>9
    <3>2. Sources[5] = Precedence[m + 5]  BY <1>2, <1>6, <1>7, <3>1
    <3> QED  BY <2>2, <3>1, <3>2
  <2>3. CASE i > 5 /\ i <= 5 + m
    <3>1. i - 5 \in 1..m /\ i - 1 \in 1..m + 5 /\ 5 + (i - 5) = i /\ 4 + (i - 5) = i - 1
          /\ LastPlace(i - 1) = i
      BY <1>1, <1>9, <2>3
    <3>2. Sources[5 + (i - 5)] = Precedence[4 + (i - 5)]  BY <1>2, <1>5, <3>1
    <3>3. Sources[i] = Precedence[i - 1] /\ i <= LastPlace(i - 1)  BY <3>1, <3>2
    <3> QED  BY <3>1, <3>3
  <2>4. CASE i > 5 + m
    <3>1. i = m + 6 /\ DOMAIN Args # {}  BY <1>1, <2>4
    <3>2. m + 5 \in 1..m + 5 /\ LastPlace(m + 5) = m + 6  BY <1>1, <1>9
    <3>3. Sources[i] = Precedence[m + 5]  BY <1>3, <1>6, <3>1
    <3>4. i <= LastPlace(m + 5)  BY <1>1, <3>1, <3>2
    <3> QED  BY <3>2, <3>3, <3>4
  <2>5. i \in 1..4 \/ i = 5 \/ (i > 5 /\ i <= 5 + m) \/ i > 5 + m  BY <1>1
  <2> QED  BY <2>1, <2>2, <2>3, <2>4, <2>5
<1>11. ASSUME NEW j \in 1..m + 5, j <= m + 4 \/ DOMAIN Args # {}
       PROVE  LastPlace(j) \in 1..n - 1 /\ Sources[LastPlace(j)] = Precedence[j]
  <2>1. LastPlace(j) \in 1..n - 1  BY <1>1, <1>9, <1>11
  <2>2. CASE j \in 1..4
    <3>1. j \in 1..5 /\ LastPlace(j) = j  BY <1>9, <2>2
    <3> QED  BY <1>2, <1>5, <2>1, <2>2, <3>1
  <2>3. CASE j > 4 /\ j <= m + 4
    <3>1. j - 4 \in 1..m /\ 5 + (j - 4) = j + 1 /\ 4 + (j - 4) = j /\ LastPlace(j) = j + 1
      BY <1>1, <1>9, <2>3
    <3>2. Sources[5 + (j - 4)] = Precedence[4 + (j - 4)]  BY <1>2, <1>5, <3>1
    <3> QED  BY <2>1, <3>1, <3>2
  <2>4. CASE j > m + 4
    <3>1. j = m + 5 /\ LastPlace(j) = m + 6 /\ DOMAIN Args # {}  BY <1>1, <1>9, <1>11, <2>4
    <3> QED  BY <1>3, <1>6, <2>1, <3>1
  <2>5. j \in 1..4 \/ (j > 4 /\ j <= m + 4) \/ j > m + 4  BY <1>1
  <2> QED  BY <2>2, <2>3, <2>4, <2>5
<1>12. \A j, l \in 1..m + 5 : j <= l => LastPlace(j) <= LastPlace(l)  BY <1>1, <1>9
<1>13. ASSUME NEW j \in 1..m + 5 PROVE Precedence[j] # "expander"
  <2>1. CASE j \in 1..4
    <3>1. 1..4 = {1, 2, 3, 4}  OBVIOUS
    <3>2. Defaults[1] # "expander" /\ Defaults[2] # "expander" /\ Defaults[3] # "expander"
          /\ Defaults[4] # "expander"
      BY DEF Defaults
    <3>3. Defaults[j] # "expander"  BY <2>1, <3>1, <3>2
    <3> QED  BY <1>5, <2>1, <3>3
  <2>2. CASE j > 4 /\ j <= m + 4
    <3>1. j - 4 \in 1..m /\ 4 + (j - 4) = j  BY <1>1, <2>2
    <3>2. Precedence[j] = ServiceFiles[j - 4]  BY <1>5, <3>1
    <3>3. ServiceFiles[j - 4] \in ToSet(ServiceFiles)
      <4>1. DOMAIN ServiceFiles = 1..m  BY ServiceFilesKnown DEF m
      <4> QED  BY <3>1, <4>1 DEF ToSet
    <3>4. "expander" \notin ToSet(ServiceFiles)  BY ServiceFilesKnown
    <3> QED  BY <3>2, <3>3, <3>4
  <2>3. CASE j = m + 5  BY <1>6, <2>3
  <2>4. j \in 1..4 \/ (j > 4 /\ j <= m + 4) \/ j = m + 5  BY <1>1
  <2> QED  BY <2>1, <2>2, <2>3, <2>4
<1>14. \A i \in 1..n - 1 : Sources[i] # "expander"
  <2> TAKE i \in 1..n - 1
  <2>1. PICK j \in 1..m + 5 : Sources[i] = Precedence[j]  BY <1>10
  <2> QED  BY <1>13, <2>1
<1> QED  BY <1>4, <1>10, <1>11, <1>12, <1>14 DEF m, n

(* The sources of a finished builder, with one the application has added.  *)
LEMMA StackPlaces ==
    ASSUME AnswersInv, NEW b \in Builder, at[b] = "ready"
    PROVE  /\ Len(stack[b]) \in {Len(Sources), Len(Sources) + 1}
           /\ \A i \in 1..Len(Sources) : stack[b][i] = Sources[i]
           /\ Len(stack[b]) # Len(Sources) =>
                 stack[b][Len(Sources) + 1] = "later" /\ "later" \in ToSet(stack[b])
<1>1. stack[b] \in {Sources, Append(Sources, "later")}  BY DEF AnswersInv, FinishedKnown
<1>2. PICK s : s = Sources  OBVIOUS
<1>3. s \in Seq(Source) /\ Len(s) \in Nat /\ "later" \in Source  BY <1>2, SourcesKnown DEF Source
<1>4. PICK t : t = Append(s, "later")  OBVIOUS
<1>5. /\ t \in Seq(Source) /\ Len(t) = Len(s) + 1 /\ t[Len(s) + 1] = "later"
      /\ \A i \in 1..Len(s) : t[i] = s[i]
  BY <1>3, <1>4
<1>6. "later" \in ToSet(t)
  <2>1. Len(s) + 1 \in DOMAIN t  BY <1>3, <1>5
  <2> QED  BY <1>5, <2>1 DEF ToSet
<1>7. CASE stack[b] = s  BY <1>2, <1>3, <1>7
<1>8. CASE stack[b] = t  BY <1>2, <1>3, <1>5, <1>6, <1>8
<1> QED  BY <1>1, <1>2, <1>4, <1>7, <1>8

(* The places in the documented order whose source has the key.            *)
Holders(b, k) == {i \in DOMAIN Precedence : k \in DOMAIN Store(b, Precedence[i])}

(* The documented order names files, the environment and the command line. *)
LEMMA PrecedenceSources ==
    ASSUME NEW i \in 1..Len(ServiceFiles) + 5
    PROVE  Precedence[i] \in {"appsettings", "appsettingsEnv", "secrets"} \cup ToSet(ServiceFiles)
                              \cup {"environment", "commandLine"}
<1> DEFINE m == Len(ServiceFiles)
           files == {"appsettings", "appsettingsEnv", "secrets"} \cup ToSet(ServiceFiles)
<1>1. i \in 1..m + 5 /\ m \in Nat  BY PrecedencePlaces
<1>2. Precedence[i] \in files \cup {"environment", "commandLine"}
  <2>1. /\ \A j \in 1..4 : Precedence[j] = Defaults[j]
        /\ \A j \in 1..m : Precedence[4 + j] = ServiceFiles[j]
    BY PrecedencePlaces
  <2>2. Precedence[m + 5] = "commandLine"  BY PrecedencePlaces
  <2> HIDE DEF m
  <2>3. CASE i \in 1..4
    <3>1. 1..4 = {1, 2, 3, 4}  OBVIOUS
    <3>2. Defaults[1] = "appsettings" /\ Defaults[2] = "appsettingsEnv"
          /\ Defaults[3] = "secrets" /\ Defaults[4] = "environment"
      BY DEF Defaults
    <3>3. Defaults[i] \in files \cup {"environment", "commandLine"}  BY <2>3, <3>1, <3>2
    <3> QED  BY <2>1, <2>3, <3>3
  <2>4. CASE i > 4 /\ i <= m + 4
    <3>1. i - 4 \in 1..m /\ 4 + (i - 4) = i  BY <1>1, <2>4
    <3>2. Precedence[i] = ServiceFiles[i - 4]  BY <2>1, <3>1
    <3>3. DOMAIN ServiceFiles = 1..m  BY ServiceFilesKnown DEF m
    <3>4. ServiceFiles[i - 4] \in ToSet(ServiceFiles)  BY <3>1, <3>3 DEF ToSet
    <3> QED  BY <3>2, <3>4
  <2>5. CASE i = m + 5  BY <2>2, <2>5
  <2>6. i \in 1..4 \/ (i > 4 /\ i <= m + 4) \/ i = m + 5  BY <1>1
  <2> QED  BY <2>3, <2>4, <2>5, <2>6
<1> QED  BY <1>2

(* What a finished builder's sources hold is a text.                       *)
LEMMA HoldersHoldTexts ==
    ASSUME AnswersInv, NEW b \in Builder, at[b] = "ready", NEW k, NEW i \in Holders(b, k)
    PROVE  Store(b, Precedence[i])[k] \in Seq(Piece)
<1> DEFINE m == Len(ServiceFiles)
           files == {"appsettings", "appsettingsEnv", "secrets"} \cup ToSet(ServiceFiles)
<1>1. i \in 1..m + 5 /\ m \in Nat  BY PrecedencePlaces DEF Holders
<1>2. Precedence[i] \in files \cup {"environment", "commandLine"}
  BY <1>1, PrecedenceSources
<1>3. PICK source : source = Precedence[i]  OBVIOUS
<1>4. k \in DOMAIN Store(b, source)  BY <1>3 DEF Holders
<1>5. CASE source = "environment"
  <2>1. Store(b, source) = [v \in {v \in Key \cap Var : loaded[b][v] # None} |-> loaded[b][v]]
    BY <1>5 DEF Store
  <2>2. k \in Var /\ loaded[b][k] # None /\ Store(b, source)[k] = loaded[b][k]  BY <1>4, <2>1
  <2>3. loaded[b][k] \in Value  BY <2>2 DEF AnswersInv, ValuesKnown
  <2> QED  BY <1>3, <2>2, <2>3 DEF Value
<1>6. CASE source = "commandLine"
  <2>1. Store(b, source) = Args  BY <1>6 DEF Store
  <2> QED  BY <1>3, <1>4, <2>1, HeldTexts
<1>7. CASE source \in files
  <2>1. source \notin {"environment", "commandLine", "later"}
    BY <1>7, ServiceFilesKnown
  <2>2. moved[b]  BY DEF AnswersInv, FinishedKnown
  <2>3. Store(b, source) = Content[Folder][source]  BY <2>1, <2>2 DEF Store
  <2>4. \A x \in DOMAIN Content[Folder][source] : Content[Folder][source][x] \in Seq(Piece)
    BY <1>7, HeldTexts
  <2> QED  BY <1>3, <1>4, <2>3, <2>4
<1> QED  BY <1>2, <1>3, <1>5, <1>6, <1>7

(* The topmost of all sources, or of those the expander has taken, is the  *)
(* last in the documented order.                                           *)
LEMMA TopmostFollowsOrder ==
    ASSUME AnswersInv, NEW b \in Builder, at[b] = "ready", NEW k,
           NEW n \in Len(Sources)..Len(stack[b]),
           "later" \in ToSet(stack[b]) => k \notin DOMAIN Later
    PROVE  /\ \A i \in Having(b, k, n) : i < Len(Sources)
           /\ Topmost(b, k, Having(b, k, n)) =
                 IF Holders(b, k) = {} THEN None
                 ELSE Store(b, Precedence[Max(Holders(b, k))])[k]
<1> DEFINE m == Len(ServiceFiles)
           last == Len(Sources)
           H == Having(b, k, n)
           P == Holders(b, k)
<1>1. m \in Nat /\ last \in Nat /\ last > 0  BY SourcePlaces, SourcesKnown
<1>2. /\ Len(stack[b]) \in {last, last + 1}
      /\ \A i \in 1..last : stack[b][i] = Sources[i]
      /\ Len(stack[b]) # last => stack[b][last + 1] = "later" /\ "later" \in ToSet(stack[b])
  BY StackPlaces
<1>3. /\ DOMAIN Precedence = 1..m + 5
      /\ \A i \in 1..last - 1 :
            \E j \in 1..m + 5 : Sources[i] = Precedence[j] /\ i <= LastPlace(j)
      /\ \A j \in 1..m + 5 : j <= m + 4 \/ DOMAIN Args # {} =>
            LastPlace(j) \in 1..last - 1 /\ Sources[LastPlace(j)] = Precedence[j]
      /\ \A j, l \in 1..m + 5 : j <= l => LastPlace(j) <= LastPlace(l)
      /\ \A i \in 1..last - 1 : Sources[i] # "expander"
  BY PlacesFollowOrder
<1>4. /\ \A i : i \in H <=> i \in 1..n /\ stack[b][i] # "expander"
                            /\ k \in DOMAIN Store(b, stack[b][i])
      /\ \A j : j \in P <=> j \in 1..m + 5 /\ k \in DOMAIN Store(b, Precedence[j])
  BY <1>3 DEF Having, Holders
<1>5. Sources[last] = "expander"  BY SourcePlaces
<1>6. Precedence[m + 5] = "commandLine"  BY PrecedencePlaces
<1>7. \A s : /\ s = "later" => Store(b, s) = Later
             /\ s = "commandLine" => Store(b, s) = Args
  BY DEF Store
<1>20. Topmost(b, k, H) = IF H = {} THEN None ELSE Store(b, stack[b][Max(H)])[k]  BY DEF Topmost
<1> HIDE DEF m, last, H, P
<1>8. ASSUME NEW i \in H PROVE i \in 1..last - 1
  <2>1. i \in 1..n /\ n \in last..Len(stack[b])  BY <1>4 DEF last
  <2>2. i # last  BY <1>1, <1>2, <1>4, <1>5
  <2>3. i # last + 1
    <3> SUFFICES ASSUME i = last + 1 PROVE FALSE  OBVIOUS
    <3>1. Len(stack[b]) # last  BY <1>1, <1>2, <2>1
    <3>2. stack[b][i] = "later" /\ k \notin DOMAIN Later  BY <1>2, <3>1
    <3> QED  BY <1>4, <1>7, <3>2
  <2> QED  BY <1>1, <1>2, <2>1, <2>2, <2>3
<1>9. ASSUME NEW i \in H PROVE \E j \in P : i <= LastPlace(j)
  <2>1. i \in 1..last - 1  BY <1>8
  <2>2. PICK j \in 1..m + 5 : Sources[i] = Precedence[j] /\ i <= LastPlace(j)  BY <1>3, <2>1
  <2>3. i \in 1..last  BY <1>1, <2>1
  <2>4. stack[b][i] = Precedence[j]  BY <1>2, <2>2, <2>3
  <2>5. j \in P  BY <1>4, <2>4
  <2> QED  BY <2>2, <2>5
<1>10. ASSUME NEW j \in P PROVE LastPlace(j) \in H /\ stack[b][LastPlace(j)] = Precedence[j]
  <2>1. j \in 1..m + 5 /\ k \in DOMAIN Store(b, Precedence[j])  BY <1>4
  <2>2. j <= m + 4 \/ DOMAIN Args # {}
    <3>1. j = m + 5 => k \in DOMAIN Args  BY <1>6, <1>7, <2>1
    <3> QED  BY <1>1, <2>1, <3>1
  <2>3. LastPlace(j) \in 1..last - 1 /\ Sources[LastPlace(j)] = Precedence[j]  BY <1>3, <2>1, <2>2
  <2>4. LastPlace(j) \in 1..last /\ LastPlace(j) \in 1..n
    BY <1>1, <1>2, <2>3 DEF last
  <2>5. stack[b][LastPlace(j)] = Precedence[j]  BY <1>2, <2>3, <2>4
  <2>6. stack[b][LastPlace(j)] # "expander"  BY <1>3, <2>3, <2>5
  <2> QED  BY <1>4, <2>1, <2>4, <2>5, <2>6
<1>11. CASE P = {}
  <2>1. H = {}  BY <1>9, <1>11
  <2> QED  BY <1>11, <1>20, <2>1 DEF H, P
<1>12. \A i \in H : i < last  BY <1>1, <1>8
<1>13. CASE P # {}
  <2>1. Max(P) \in P /\ \A j \in P : j <= Max(P)
    <3>1. P \in SUBSET (1..m + 5) /\ m + 5 \in Nat  BY <1>1, <1>4
    <3> QED  BY <1>13, <3>1, MinMaxFacts
  <2>2. PICK h \in P : h = Max(P)  BY <2>1
  <2>3. LastPlace(h) \in H /\ stack[b][LastPlace(h)] = Precedence[h]  BY <1>10
  <2>4. \A i \in H : i <= LastPlace(h)
    <3> TAKE i \in H
    <3>1. PICK j \in P : i <= LastPlace(j)  BY <1>9
    <3>2. LastPlace(j) <= LastPlace(h)
      <4>1. j \in 1..m + 5 /\ h \in 1..m + 5 /\ j <= h  BY <1>4, <2>1, <2>2
      <4> QED  BY <1>3, <4>1
    <3>3. i \in Nat /\ LastPlace(j) \in Nat /\ LastPlace(h) \in Nat
      BY <1>1, <1>8, <1>10
    <3> QED  BY <3>1, <3>2, <3>3
  <2>5. Max(H) \in H /\ \A i \in H : i <= Max(H)
    <3>1. H \in SUBSET (1..last - 1) /\ last - 1 \in Nat  BY <1>1, <1>8
    <3> QED  BY <2>3, <3>1, MinMaxFacts
  <2>6. Max(H) = LastPlace(h)
    <3>1. Max(H) \in Nat /\ LastPlace(h) \in Nat  BY <1>1, <1>8, <2>3, <2>5
    <3> QED  BY <2>3, <2>4, <2>5, <3>1
  <2>7. H # {} /\ stack[b][Max(H)] = Precedence[Max(P)]  BY <2>2, <2>3, <2>6
  <2>8. Topmost(b, k, H) = Store(b, Precedence[Max(P)])[k]
    <3>1. PICK source, other : source = stack[b][Max(H)] /\ other = Precedence[Max(P)]  OBVIOUS
    <3>2. Topmost(b, k, H) = Store(b, source)[k]  BY <1>20, <2>7, <3>1
    <3>3. source = other  BY <2>7, <3>1
    <3> QED  BY <3>1, <3>2, <3>3
  <2> QED  BY <1>12, <1>13, <2>8 DEF H, P, last
<1> QED  BY <1>11, <1>13
----------------------------------------------------------------------------
(* What pieces expanded once, or twice, still refer to was in a value of a *)
(* variable referred to.                                                   *)
LEMMA LeftIsNested ==
    ASSUME env \in [Var -> Value], NEW text \in Seq(Piece), NEW p \in ToSet(Expand(text)), IsSet(p)
    PROVE  p \in Within(ToSet(text))
<1>1. \E q \in ToSet(text) : IsSet(q) /\ p \in ToSet(env[Reference[q]])  BY ExpandFacts
<1> QED  BY <1>1 DEF Within, IsSet

(* What the expander makes of a text: expanded, and expanded again where   *)
(* that is asked for and there is something to expand.                     *)
Again(text) == /\ Expand(text) # text /\ ToSet(Expand(text)) \cap DOMAIN Reference # {}
               /\ env["twice"] = True
Expanded(text) == IF Again(text) THEN Expand(Expand(text)) ELSE Expand(text)

(* The variables referred to, once more.                                   *)
LEMMA WithinFacts ==
    ASSUME NEW X, NEW q \in X, IsSet(q), NEW p \in ToSet(env[Reference[q]])
    PROVE  p \in Within(X)
BY DEF Within, IsSet

(* Looking first whether there is anything to expand again changes         *)
(* nothing: a text is expanded twice where that is asked for.              *)
LEMMA ExpandedValue ==
    ASSUME env \in [Var -> Value], NEW text \in Seq(Piece)
    PROVE  Expanded(text) = IF env["twice"] = True THEN Expand(Expand(text)) ELSE Expand(text)
<1>1. CASE Again(text)  BY <1>1 DEF Expanded, Again
<1>2. CASE env["twice"] # True  BY <1>2 DEF Expanded, Again
<1>3. CASE env["twice"] = True /\ Expand(text) = text  BY <1>3 DEF Expanded, Again
<1>4. CASE env["twice"] = True /\ ToSet(Expand(text)) \cap DOMAIN Reference = {}
  <2>1. PICK once : once = Expand(text)  OBVIOUS
  <2>2. once \in Seq(Piece)  BY <2>1, ExpandFacts
  <2>3. \A p \in ToSet(once) : ~IsSet(p)  BY <1>4, <2>1 DEF IsSet
  <2>4. Expand(once) = once  BY <2>2, <2>3, ExpandFacts
  <2> QED  BY <1>4, <2>1, <2>4 DEF Expanded, Again
<1> QED  BY <1>1, <1>2, <1>3, <1>4 DEF Again

(* What is left of references was nested, deeper than the expander goes.   *)
LEMMA ExpandedFacts ==
    ASSUME env \in [Var -> Value], NEW text \in Seq(Piece)
    PROVE  /\ Expanded(text) \in Seq(Piece)
           /\ ToSet(text) \cap DOMAIN Reference = {} => Expanded(text) = text
           /\ \A p \in ToSet(Expanded(text)) : IsSet(p) =>
                 p \in IF env["twice"] = True THEN Within(Within(ToSet(text)))
                                              ELSE Within(ToSet(text))
<1>1. PICK once : once = Expand(text)  OBVIOUS
<1>2. once \in Seq(Piece) /\ Expand(once) \in Seq(Piece)
  <2>1. once \in Seq(Piece)  BY <1>1, ExpandFacts
  <2> QED  BY <2>1, ExpandFacts
<1>3. ASSUME ToSet(text) \cap DOMAIN Reference = {} PROVE Expanded(text) = text
  <2>1. \A p \in ToSet(text) : ~IsSet(p)  BY <1>3 DEF IsSet
  <2>2. Expand(text) = text  BY <2>1, ExpandFacts
  <2> QED  BY <2>2 DEF Expanded, Again
<1>4. ASSUME NEW p \in ToSet(Expanded(text)), IsSet(p)
      PROVE  p \in IF env["twice"] = True THEN Within(Within(ToSet(text)))
                                          ELSE Within(ToSet(text))
  <2>1. \A q \in ToSet(once) : IsSet(q) => q \in Within(ToSet(text))  BY <1>1, LeftIsNested
  <2>2. CASE env["twice"] # True  BY <1>1, <1>4, <2>1, <2>2 DEF Expanded, Again
  <2>3. CASE env["twice"] = True
    <3>1. ToSet(once) \cap DOMAIN Reference # {} \/ Again(text)
      BY <1>1, <1>4 DEF Expanded, IsSet
    <3>2. PICK q \in ToSet(once) : IsSet(q) /\ p \in ToSet(env[Reference[q]])
      <4>1. CASE Again(text)
        <5>1. p \in ToSet(Expand(once))  BY <1>1, <1>4, <4>1 DEF Expanded
        <5> QED  BY <1>2, <1>4, <5>1, ExpandFacts
      <4>2. CASE ~Again(text)
        <5>1. once = text  BY <1>1, <2>3, <3>1, <4>2 DEF Again
        <5>2. p \in ToSet(Expand(text))  BY <1>4, <4>2 DEF Expanded
        <5> QED  BY <1>4, <5>1, <5>2, ExpandFacts
      <4> QED  BY <4>1, <4>2
    <3>3. q \in Within(ToSet(text))  BY <2>1, <3>2
    <3> QED  BY <2>3, <3>2, <3>3, WithinFacts
  <2> QED  BY <2>2, <2>3
<1> QED  BY <1>1, <1>2, <1>3, <1>4 DEF Expanded

(* A provider added after the expander is the last of the stack, and what  *)
(* it has is answered as it stands.                                        *)
LEMMA LaterAnswers ==
    ASSUME AnswersInv, NEW b \in Builder, at[b] = "ready", "later" \in ToSet(stack[b]),
           NEW k \in DOMAIN Later
    PROVE  Answer(b, k) = Later[k]
<1> DEFINE last == Len(Sources)
           all == Having(b, k, Len(stack[b]))
           above == {i \in all : \E j \in 1..(i - 1) : stack[b][j] = "expander"}
<1>1. last \in Nat /\ last > 0 /\ Sources[last] = "expander"  BY SourcePlaces, SourcesKnown
<1>2. /\ Len(stack[b]) \in {last, last + 1}
      /\ \A i \in 1..last : stack[b][i] = Sources[i]
      /\ Len(stack[b]) # last => stack[b][last + 1] = "later"
  BY StackPlaces
<1>3. DOMAIN stack[b] = 1..Len(stack[b])  BY DEF AnswersInv, WatchingInv, StackIsKnown
<1>4. \A i \in 1..last : Sources[i] # "later"
  <2> SUFFICES ASSUME NEW i \in 1..last PROVE Sources[i] # "later"  OBVIOUS
  <2>1. CASE i = last  BY <1>1, <2>1
  <2>2. CASE i \in 1..last - 1
    <3>1. PICK j \in 1..Len(ServiceFiles) + 5 : Sources[i] = Precedence[j]
      BY <2>2, PlacesFollowOrder
    <3>2. PICK source : source = Precedence[j]  OBVIOUS
    <3>3. source # "later"  BY <3>2, PrecedenceSources, ServiceFilesKnown
    <3> QED  BY <3>1, <3>2, <3>3
  <2> QED  BY <1>1, <2>1, <2>2
<1>5. Len(stack[b]) = last + 1 /\ stack[b][last + 1] = "later"
  <2>1. PICK i \in 1..Len(stack[b]) : stack[b][i] = "later"  BY <1>3 DEF ToSet
  <2>2. i \notin 1..last  BY <1>2, <1>4, <2>1
  <2>3. Len(stack[b]) # last  BY <2>1, <2>2
  <2> QED  BY <1>2, <2>3
<1> HIDE DEF last
<1>6. Store(b, "later") = Later  BY DEF Store
<1>7. last + 1 \in above
  <2>1. last + 1 \in 1..Len(stack[b])  BY <1>1, <1>5
  <2>2. "later" # "expander"  OBVIOUS
  <2>3. last + 1 \in all
    <3>1. PICK source : source = stack[b][last + 1]  OBVIOUS
    <3>2. source # "expander" /\ k \in DOMAIN Store(b, source)  BY <1>5, <1>6, <2>2, <3>1
    <3> QED  BY <2>1, <3>1, <3>2 DEF Having
  <2>4. last \in 1..(last + 1 - 1) /\ last \in 1..last  BY <1>1
  <2>5. stack[b][last] = "expander"  BY <1>1, <1>2, <2>4
  <2> QED  BY <2>3, <2>4, <2>5
<1>8. Max(above) = last + 1
  <2>1. above \in SUBSET (1..(last + 1)) /\ last + 1 \in Nat  BY <1>1, <1>5 DEF Having
  <2> HIDE DEF above
  <2>2. Max(above) \in above /\ \A i \in above : i <= Max(above)  BY <1>7, <2>1, MinMaxFacts
  <2>3. Max(above) \in 1..(last + 1) /\ last + 1 <= Max(above)  BY <1>7, <2>1, <2>2
  <2> QED  BY <1>1, <2>3
<1>9. Topmost(b, k, above) = Later[k]
  <2> HIDE DEF above
  <2>1. above # {}  BY <1>7
  <2>2. PICK source : source = stack[b][Max(above)]  OBVIOUS
  <2>3. source = "later"  BY <1>5, <1>8, <2>2
  <2>4. Topmost(b, k, above) = Store(b, source)[k]  BY <2>1, <2>2 DEF Topmost
  <2> QED  BY <1>6, <2>3, <2>4
<1> QED  BY <1>7, <1>9 DEF Answer

(* For any files, environment and command line, whatever builders do at    *)
(* the same time, a look-up answers with what the first source of the      *)
(* documented order that has the key holds, its references replaced as     *)
(* often as the setting asks for, and a provider added after the expander  *)
(* answers first for its keys, as it stands (ConfigurationBuilding lines   *)
(* 33-53; EnvironmentVariablesExpanderProvider lines 11-36).               *)
THEOREM LookupsFollowPrecedence == Spec => []AnswersFollowPrecedence
<1>1. AnswersInv => AnswersFollowPrecedence
  <2> SUFFICES ASSUME AnswersInv, NEW b \in Builder, NEW k \in Key, taken[b] # 0
               PROVE  LET holders == Holders(b, k)
                          text == Store(b, Precedence[Max(holders)])[k]
                          twice == env["twice"] = True
                          value == IF twice THEN Expand(Expand(text)) ELSE Expand(text)
                          answer == Answer(b, k)
                          left == {p \in ToSet(answer) \cap DOMAIN Reference :
                                       env[Reference[p]] # None}
                          nested == Within(ToSet(text))
                      IN IF "later" \in ToSet(stack[b]) /\ k \in DOMAIN Later
                         THEN answer = Later[k]
                         ELSE IF holders = {} THEN answer = None
                         ELSE IF value = <<>> THEN answer = text
                         ELSE answer = value
                              /\ left \subseteq IF twice THEN Within(nested) ELSE nested
    BY DEF AnswersFollowPrecedence, Holders
  <2> DEFINE holders == Holders(b, k)
             last == Len(Sources)
             isLater == "later" \in ToSet(stack[b]) /\ k \in DOMAIN Later
  <2>1. at[b] = "ready" /\ taken[b] \in last..Len(stack[b]) /\ Len(stack[b]) \in last..Len(stack[b])
    <3>1. at[b] = "ready" /\ taken[b] \in Nat /\ last <= taken[b] /\ taken[b] <= Len(stack[b])
      BY DEF AnswersInv, FinishedKnown
    <3>2. last \in Nat /\ Len(stack[b]) \in {last, last + 1}  BY <3>1, SourcesKnown, StackPlaces
    <3> HIDE DEF last
    <3> QED  BY <3>1, <3>2
  <2>2. PICK raw : raw = IF holders = {} THEN None ELSE Store(b, Precedence[Max(holders)])[k]
    OBVIOUS
  <2>9. CASE isLater
    <3>1. Answer(b, k) = Later[k]  BY <2>1, <2>9, LaterAnswers
    <3> QED  BY <2>9, <3>1
  <2>3. ASSUME ~isLater
        PROVE  \A n \in last..Len(stack[b]) : /\ \A i \in Having(b, k, n) : i < last
                                              /\ Topmost(b, k, Having(b, k, n)) = raw
    BY <2>1, <2>2, <2>3, TopmostFollowsOrder
  <2> HIDE DEF isLater
  <2>4. ASSUME ~isLater
        PROVE  TryGet(b, k) = IF raw \in {None, <<>>} \/ Expanded(raw) = <<>> THEN None ELSE Expanded(raw)
    <3>1. Topmost(b, k, Having(b, k, taken[b])) = raw  BY <2>1, <2>3, <2>4
    <3> QED  BY <3>1 DEF TryGet, Expanded, Again
  <2>5. ASSUME ~isLater
        PROVE  Answer(b, k) = IF TryGet(b, k) # None THEN TryGet(b, k) ELSE raw
    <3> DEFINE all == Having(b, k, Len(stack[b]))
               above == {i \in all : \E j \in 1..(i - 1) : stack[b][j] = "expander"}
    <3>1. ASSUME NEW i \in all, NEW j \in 1..(i - 1) PROVE stack[b][j] # "expander"
      <4>1. i < last /\ i \in Nat /\ last \in Nat
        <5>1. i < last  BY <2>1, <2>3, <2>5
        <5>2. i \in 1..Len(stack[b])  BY DEF Having
        <5>3. last \in Nat  BY SourcesKnown
        <5> QED  BY <5>1, <5>2, <5>3
      <4>2. j \in 1..last - 1 /\ j \in 1..last  BY <4>1
      <4>3. stack[b][j] = Sources[j]  BY <2>1, <4>2, StackPlaces
      <4>4. Sources[j] # "expander"  BY <4>2, PlacesFollowOrder
      <4> QED  BY <4>3, <4>4
    <3>2. above = {}  BY <3>1
    <3>3. Topmost(b, k, all) = raw  BY <2>1, <2>3, <2>5
    <3>4. Answer(b, k) = IF above # {} THEN Topmost(b, k, above)
                         ELSE IF TryGet(b, k) # None THEN TryGet(b, k)
                         ELSE Topmost(b, k, all)
      BY DEF Answer
    <3> QED  BY <3>2, <3>3, <3>4
  <2>6. CASE ~isLater /\ holders = {}
    <3>1. Answer(b, k) = None  BY <2>2, <2>4, <2>5, <2>6
    <3> QED  BY <2>6, <3>1 DEF isLater
  <2>7. CASE ~isLater /\ holders # {}
    <3>1. Max(holders) \in holders
      <4>1. holders \in SUBSET (1..Len(ServiceFiles) + 5) /\ Len(ServiceFiles) + 5 \in Nat
        BY PrecedencePlaces DEF Holders
      <4> HIDE DEF holders
      <4> QED  BY <2>7, <4>1, MinMaxFacts
    <3>2. raw \in Seq(Piece)
      <4> HIDE DEF holders
      <4>1. PICK i \in holders : i = Max(holders)  BY <3>1
      <4>2. Store(b, Precedence[i])[k] \in Seq(Piece)  BY <2>1, <4>1, HoldersHoldTexts DEF holders
      <4> QED  BY <2>2, <2>7, <4>1, <4>2
    <3>3. env \in [Var -> Value]  BY DEF AnswersInv, ValuesKnown
    <3>4. raw # None /\ Expanded(raw) # None
      BY <3>2, <3>3, ExpandedFacts, HeldTexts
    <3>5. Answer(b, k) = IF raw = <<>> \/ Expanded(raw) = <<>> THEN raw ELSE Expanded(raw)
      BY <2>4, <2>5, <2>7, <3>4
    <3>6. Expanded(raw) = IF env["twice"] = True THEN Expand(Expand(raw)) ELSE Expand(raw)
      BY <3>2, <3>3, ExpandedValue
    <3>7. raw = <<>> => Expanded(raw) = raw
      <4>1. raw = <<>> => ToSet(raw) = {}  BY DEF ToSet
      <4> QED  BY <3>2, <3>3, <4>1, ExpandedFacts
    <3>8. ASSUME Expanded(raw) # <<>>, NEW p \in ToSet(Answer(b, k)) \cap DOMAIN Reference,
                 env[Reference[p]] # None
          PROVE  p \in IF env["twice"] = True THEN Within(Within(ToSet(raw)))
                                              ELSE Within(ToSet(raw))
      <4>1. Answer(b, k) = Expanded(raw)  BY <3>5, <3>7, <3>8
      <4> QED  BY <3>2, <3>3, <3>8, <4>1, ExpandedFacts DEF IsSet
    <3>9. Answer(b, k) = IF Expanded(raw) = <<>> THEN raw ELSE Expanded(raw)  BY <3>5, <3>7
    <3>10. raw = Store(b, Precedence[Max(holders)])[k]  BY <2>2, <2>7
    <3> HIDE DEF holders
    <3> QED  BY <2>7, <3>6, <3>8, <3>9, <3>10 DEF holders, isLater
  <2> QED  BY <2>6, <2>7, <2>9
<1> QED  BY <1>1, InitAnswers, NextAnswers, PTL DEF Spec
----------------------------------------------------------------------------
(* Every look-up in a finished builder returns a text, or nothing.         *)
LEMMA AnswersAreTexts ==
    ASSUME AnswersInv, NEW b \in Builder, at[b] = "ready", taken[b] # 0, NEW k
    PROVE  Answer(b, k) \in Value
<1>1. stack[b] \in Seq(Source) /\ Len(stack[b]) \in Nat /\ DOMAIN stack[b] = 1..Len(stack[b])
      /\ taken[b] \in 1..Len(stack[b])
  <2>1. stack[b] \in Seq(Source)  BY DEF AnswersInv, WatchingInv, StackIsKnown
  <2>2. taken[b] \in Nat /\ taken[b] <= Len(stack[b])  BY DEF AnswersInv, FinishedKnown
  <2> QED  BY <2>1, <2>2
<1>2. ASSUME NEW i \in 1..Len(stack[b]), stack[b][i] # "expander",
             k \in DOMAIN Store(b, stack[b][i])
      PROVE  Store(b, stack[b][i])[k] \in Seq(Piece)
  <2>1. PICK source \in Source : source = stack[b][i]  BY <1>1
  <2>2. source \in ToSet(stack[b])  BY <1>1, <2>1 DEF ToSet
  <2>3. k \in DOMAIN Store(b, source)  BY <1>2, <2>1
  <2>4. CASE source = "environment"
    <3>1. Store(b, source) = [v \in {v \in Key \cap Var : loaded[b][v] # None} |-> loaded[b][v]]
      BY <2>4 DEF Store
    <3>2. k \in Var /\ loaded[b][k] # None /\ Store(b, source)[k] = loaded[b][k]  BY <2>3, <3>1
    <3>3. loaded[b][k] \in Value  BY <3>2 DEF AnswersInv, ValuesKnown
    <3> QED  BY <2>1, <3>2, <3>3 DEF Value
  <2>5. CASE source \in {"commandLine", "later"}
    <3>1. Store(b, source) \in {Args, Later} /\ (source = "later" <=> source # "commandLine")
      BY <2>5 DEF Store
    <3> QED  BY <2>1, <2>3, <3>1, HeldTexts
  <2>6. CASE source \notin {"environment", "commandLine", "later"}
    <3>1. source \in {"appsettings", "appsettingsEnv", "secrets"} \cup ToSet(ServiceFiles)
      <4>1. source \in AppSettings => source \in {"appsettings", "appsettingsEnv"}
               \cup (IF Named THEN {"appsettingsService", "appsettingsServiceEnv"} ELSE {})
        BY <2>2 DEF AnswersInv, WatchingInv, StackIsKnown
      <4> QED  BY <1>2, <2>1, <2>6, <4>1, ServiceFilesKnown DEF Source, AppSettings
    <3>2. moved[b]  BY DEF AnswersInv, FinishedKnown
    <3>3. Store(b, source) = Content[Folder][source]  BY <2>6, <3>2 DEF Store
    <3> QED  BY <2>1, <2>3, <3>1, <3>3, HeldTexts
  <2> QED  BY <2>4, <2>5, <2>6
<1>3. ASSUME NEW n \in 1..Len(stack[b]), NEW places \in SUBSET Having(b, k, n)
      PROVE  Topmost(b, k, places) \in Value
  <2>1. CASE places = {}  BY <2>1 DEF Topmost, Value
  <2>2. CASE places # {}
    <3>1. places \in SUBSET (1..Len(stack[b]))  BY <1>1 DEF Having
    <3>2. Max(places) \in places  BY <1>1, <2>2, <3>1, MinMaxFacts
    <3>3. PICK i \in places : i = Max(places)  BY <3>2
    <3>4. i \in 1..Len(stack[b]) /\ stack[b][i] # "expander" /\ k \in DOMAIN Store(b, stack[b][i])
      BY <3>1 DEF Having
    <3>5. Store(b, stack[b][i])[k] \in Seq(Piece)  BY <1>2, <3>4
    <3> QED  BY <2>2, <3>3, <3>5 DEF Topmost, Value
  <2> QED  BY <2>1, <2>2
<1>4. TryGet(b, k) \in Value
  <2>1. PICK raw : raw = Topmost(b, k, Having(b, k, taken[b]))  OBVIOUS
  <2>2. raw \in Value  BY <1>1, <1>3, <2>1
  <2>3. TryGet(b, k) = IF raw \in {None, <<>>} \/ Expanded(raw) = <<>> THEN None ELSE Expanded(raw)
    BY <2>1 DEF TryGet, Expanded, Again
  <2>4. env \in [Var -> Value]  BY DEF AnswersInv, ValuesKnown
  <2>5. raw # None => Expanded(raw) \in Seq(Piece)  BY <2>2, <2>4, ExpandedFacts DEF Value
  <2> QED  BY <2>3, <2>5 DEF Value
<1>5. Len(stack[b]) \in 1..Len(stack[b])  BY <1>1
<1> DEFINE all == Having(b, k, Len(stack[b]))
           above == {i \in all : \E j \in 1..(i - 1) : stack[b][j] = "expander"}
<1>6. Topmost(b, k, all) \in Value /\ Topmost(b, k, above) \in Value
  <2>1. all \in SUBSET all /\ above \in SUBSET all  OBVIOUS
  <2> QED  BY <1>3, <1>5, <2>1
<1>7. Answer(b, k) = IF above # {} THEN Topmost(b, k, above)
                     ELSE IF TryGet(b, k) # None THEN TryGet(b, k)
                     ELSE Topmost(b, k, all)
  BY DEF Answer
<1> HIDE DEF all, above
<1> QED  BY <1>4, <1>6, <1>7

(* A setting is a text when the document is made.                          *)
LEMMA SettingIsText ==
    ASSUME AnswersInv, taken[Service] # 0, NEW k PROVE IsText(Setting(k))
<1>1. at[Service] = "ready" /\ Service \in Builder
  BY ServiceRequestAssumption DEF AnswersInv, FinishedKnown
<1>2. Answer(Service, k) \in Value  BY <1>1, AnswersAreTexts
<1>3. Setting(k) \in Seq(Piece)  BY <1>2, EmptySeq DEF Setting, Or, Value
<1> QED  BY <1>3, SeqIsText

(* When the document is made, the server, if it is not refused, is not set *)
(* or a host without a path of its own.                                    *)
PlainServer ==
    /\ at[Service] = "ready" /\ taken[Service] # 0 /\ shown = None
    /\ ~RefusedServer(Setting("server"))
    => LET server == ServerOf(Setting("server"))
       IN IsBlank(server) \/ \E host : server = <<host>>

(* Nothing changes the base path between the document and the middleware.  *)
BasePathStays == shown # None /\ base = None => UNCHANGED Setting("basePath")

(* The url in the document was made from the base path p.                  *)
ShownFor(p) == \/ shown = GetBasePath(p)
               \/ \E host \in Origins : shown = <<host>> \o GetBasePath(p)

(* What the document shows is what the middleware has, or will get.        *)
ShownKnown ==
    /\ base # None => PrefixIsShown
    /\ shown # None /\ base = None =>
          IsText(Setting("basePath")) /\ ShownFor(Setting("basePath"))

(* A step that leaves the configuration alone leaves every setting.        *)
LEMMA SettingStill == UNCHANGED configVars => UNCHANGED Setting("basePath")
<1> SUFFICES ASSUME UNCHANGED configVars PROVE UNCHANGED Setting("basePath")
  OBVIOUS
<1>1. UNCHANGED <<env, stack, loaded, taken, moved>>  BY DEF configVars, own
<1>2. ASSUME NEW text PROVE Expand(text)' = Expand(text)
  BY <1>1 DEF Expand
<1>3. ASSUME NEW b, NEW source PROVE Store(b, source)' = Store(b, source)
  BY <1>1 DEF Store
<1>4. ASSUME NEW b, NEW k, NEW n PROVE Having(b, k, n)' = Having(b, k, n)
  BY <1>1, <1>3 DEF Having
<1>5. ASSUME NEW b, NEW k, NEW places PROVE Topmost(b, k, places)' = Topmost(b, k, places)
  BY <1>1, <1>3 DEF Topmost
<1>6. ASSUME NEW b, NEW k PROVE TryGet(b, k)' = TryGet(b, k)
  BY <1>1, <1>2, <1>4, <1>5 DEF TryGet
<1>7. ASSUME NEW b, NEW k PROVE Answer(b, k)' = Answer(b, k)
  BY <1>1, <1>4, <1>5, <1>6 DEF Answer
<1> QED  BY <1>7 DEF Setting

(* The document is made.                                                   *)
LEMMA DocumentShows ==
    AnswersInv /\ PlainServer /\ ConfigureOpenApi /\ ServiceShown /\ ShownKnown => ShownKnown'
<1> SUFFICES ASSUME AnswersInv, PlainServer, ConfigureOpenApi, ServiceShown, ShownKnown
             PROVE  ShownKnown'
  OBVIOUS
<1>1. PICK p, server : p = Setting("basePath") /\ server = ServerOf(Setting("server"))
  OBVIOUS
<1>2. /\ shown = None /\ base' = base /\ UNCHANGED configVars
      /\ ~RefusedServer(Setting("server"))
      /\ shown' = GetOpenApiServerUrl(Setting("server"), GetBasePath(p))
  BY <1>1 DEF ConfigureOpenApi
<1>3. IsText(p) /\ (IsBlank(server) \/ \E host : server = <<host>>)
  <2>1. IsText(p)  BY <1>1, SettingIsText DEF ConfigureOpenApi
  <2> QED  BY <1>1, <1>2, <2>1 DEF PlainServer, ConfigureOpenApi
<1>4. \/ shown' = GetBasePath(p)
      \/ \E host \in Origins : shown' = <<host>> \o GetBasePath(p)
  <2>1. CASE IsBlank(server)  BY <1>1, <1>2, <2>1 DEF GetOpenApiServerUrl
  <2>2. CASE ~IsBlank(server)
    <3>1. PICK host : server = <<host>>  BY <1>3, <2>2
    <3>2. server[1] \in Origins  BY <1>1, <1>2, <2>2 DEF RefusedServer
    <3>3. shown' = server \o GetBasePath(p)  BY <1>1, <1>2, <2>2 DEF GetOpenApiServerUrl
    <3> QED  BY <3>1, <3>2, <3>3
  <2> QED  BY <2>1, <2>2
<1>5. Setting("basePath")' = p  BY <1>1, <1>2, SettingStill
<1> QED
  <2>1. base' = None  BY <1>2 DEF ServiceShown
  <2> QED  BY <1>3, <1>4, <1>5, <2>1 DEF ShownKnown, ShownFor

(* The middleware gets what was shown; every other step leaves both.       *)
LEMMA ShownStays ==
    ASSUME AnswersInv, PlainServer, BasePathStays, ServiceShown, ShownKnown, [Next]_vars
    PROVE  ShownKnown'
<1>1. CASE ConfigureOpenApi  BY <1>1, DocumentShows
<1>2. CASE ConfigureMiddleware
  <2>1. /\ shown # None /\ base = None /\ shown' = shown
        /\ base' = GetBasePath(Setting("basePath"))
    BY <1>2 DEF ConfigureMiddleware
  <2>2. Setting("basePath")' = Setting("basePath")  BY <2>1 DEF BasePathStays
  <2>3. IsText(Setting("basePath")) /\ ShownFor(Setting("basePath"))
    BY <2>1 DEF ShownKnown
  <2>4. PrefixIsShown'
    <3>1. shown' = base' \/ \E host \in Origins : shown' = <<host>> \o base'
      BY <2>1, <2>3 DEF ShownFor
    <3> QED  BY <2>1, <2>3, <3>1 DEF PrefixIsShown
  <2> QED  BY <2>1, <2>2, <2>3, <2>4 DEF ShownKnown, ShownFor
<1>3. CASE UNCHANGED <<shown, base>>
  <2>1. PrefixIsShown => PrefixIsShown'  BY <1>3 DEF PrefixIsShown
  <2>2. \A p : ShownFor(p) => ShownFor(p)'  BY <1>3 DEF ShownFor
  <2>3. shown # None /\ base = None => Setting("basePath")' = Setting("basePath")
    BY DEF BasePathStays
  <2>4. ASSUME shown' # None, base' = None
        PROVE  IsText(Setting("basePath")') /\ ShownFor(Setting("basePath"))'
    <3>1. IsText(Setting("basePath")) /\ ShownFor(Setting("basePath"))
      BY <1>3, <2>4 DEF ShownKnown
    <3>2. Setting("basePath")' = Setting("basePath")  BY <1>3, <2>3, <2>4
    <3> QED  BY <1>3, <3>1, <3>2 DEF ShownFor
  <2> QED  BY <1>3, <2>1, <2>4 DEF ShownKnown
<1> QED
  BY <1>1, <1>2, <1>3
  DEF Next, vars, appVars, Call, StripPrefix, EnsurePrefix, Served, Pass

(* A service whose base path stays what it is while the service is         *)
(* configured, and whose server is a host, shows urls that reach its end   *)
(* points, whatever else the configuration holds and does and whatever the *)
(* proxy (ReverseProxySetup lines 45-99).                                  *)
THEOREM SteadyPrefixIsKept ==
    Spec /\ []PlainServer /\ [][BasePathStays]_vars => []ClientUrlIsKept
<1>1. Init => ServiceShown /\ ShownKnown  BY DEF Init, ServiceShown, ShownKnown
<1>2. ServiceShown /\ [Next]_vars => ServiceShown'
  BY DEF ServiceShown, Next, vars, appVars, ConfigureOpenApi, ConfigureMiddleware,
         Call, StripPrefix, EnsurePrefix, Served, Pass
<1>3. /\ AnswersInv /\ PlainServer /\ ServiceShown /\ ShownKnown /\ [Next]_vars
      /\ [BasePathStays]_vars
      => ShownKnown'
  <2>1. CASE UNCHANGED vars
    <3>1. UNCHANGED configVars /\ UNCHANGED <<shown, base>>  BY <2>1 DEF vars, appVars
    <3> QED  BY <3>1, SettingStill, ShownStays DEF BasePathStays
  <2> QED  BY <2>1, ShownStays
<1>4. /\ ServiceShown /\ ShownKnown /\ (PrefixIsShown => ClientUrlIsKept)
      => ClientUrlIsKept
  BY DEF ServiceShown, ShownKnown, ClientUrlIsKept
<1> QED
  BY <1>1, <1>2, <1>3, <1>4, InitAnswers, NextAnswers, PrefixIsKept, PTL DEF Spec
=============================================================================
