# smusdi-core: specifications and proofs

TLA+ modules for the parts of smusdi-core that have a logic of their own: what they keep between two
calls, what may interleave, fail or arrive late, and what their users rely on. TLC checks small
instances; TLAPS proves the theorems listed below for every value of the constants. `PROJECT.json` lists
the runs, the mutants that show each property can fail, the line of code behind each definition, the
hazards of the code and the disagreements found.

Run a configuration with `tlc -config X.cfg MCModule`, the proofs with `tlapm XProofs.tla`.

## 1. The system

smusdi-core is a set of .NET libraries that bootstrap a service: `SmusdiService.InitAndRunAsync` (web) or
`SmusdiWorker.InitAndRunAsync` (worker) build configuration, logging, dependency injection, security and
end points, then run the host. Around it are helpers a service uses at run time.

| Component | State it keeps | Operations | Meets | What makes it correct |
|---|---|---|---|---|
| `EnumerableExtensions.RunTasks` | a semaphore, an enumerator, the tasks in flight | one call; each task's continuation | thread pool | at most *max* tasks at once, all done when it returns, no token lost |
| Pipeline (`PipelineBuilder`, `Pipeline`, `PipelineContext`) | the builder's step list, decorators, handlers; a context's state and flags | `Pipe`, `Catch`, `Finally`, `AddStepDecorator`, `Clear`, `Build`, `Run`, `CancelPipeline` | step processors from the container, other threads that cancel | steps run in order, the end state tells what happened, finally always runs |
| `JsonArraySplitter` | byte buffer, reader state, final-block flag | constructor, `ReadNextItem` | a stream that reads short, `Utf8JsonReader` | each item once, in order, however tokens fall across refills |
| `IssuerSigningKeyResolver`, `SigningKeysLoader` | memory cache, a lock | `GetIssuerSigningKeys` from request threads | the authority over HTTP, its key rotation | one load at a time, keys of an authority that the cache key fits, not older than their lifespan, a failed load blocks nobody |
| Worker (`SmusdiWorker`, `WorkerTasksRunner`, `DeferredBackgroundService`) | the host's life cycle | run tasks by `Order`, stop the host; run work after the start | the .NET host, signals | order kept, host stops by itself and not early, deferred work waits for the start |
| Info end point, `OauthInfoFileGenerator` | memory cache, files in a folder | `GET /info`; rewrite `oauth.json` before the run | other writers of the folder, crashes | answers name the authority in force, up to date without the cache, settled with it |
| `PolymorphicConverter` | a copy of the JSON reader | `Read` | `System.Text.Json` | the object's own discriminator decides |
| `SmusdiService` | builder, application | build, configure, run, before-run implementations, dispose | everything above | before-run implementations end before the service listens |
| `SmusdiTestingService` | started and disposed flags, server, client | `Initialize`, `StartAsync`, `DisposeAsync` | test steps, the service | started once, everything disposed of once |
| Configuration (`ConfigurationBuilding`, `EnvironmentVariablesExpanderProvider`, `EnvFileHelper`) | a stack of providers, environment variables | build, look up and expand | the process environment, other builders | precedence; the environment left as found; files watched as set |
| Scheme selection (`OAuthConfigurator`) | none | choose an authentication scheme per request | authorities, headers | a token that an authority in question trusts is accepted, and no other |
| `ReverseProxySetup` | none | base path, server url of the OpenAPI document, forwarded headers | the proxy, the configuration | the url shown reaches its end point, the prefix once in the path base |
| Audit, migration (PostgreSQL) | rows | `AddRecord`, `Search`, migrate before the run | other writers | newest first, a total that fits the list |
| HTTP client helpers | none | retry policy | a server that fails | three retries with growing waits |

Interaction: the before-run implementations (the generator, the migrator) and the end points meet through
the file system and the database; request threads meet in the memory cache; builders meet in the
environment of their process, and requests read what a builder has made of it; the pipeline and the
worker call code of the user, which may throw, cancel or never end.

Hard to test here: interleavings of requests in the two caches; cancellation between a check and the step
after it; exceptions inside handlers; a stop that comes before the start; a crash while a file is rewritten;
tokens cut by the end of a buffer; a variable of the process changed for a moment. `hazards` in
`PROJECT.json` gives each with its line and the properties that watch it.

## 2. The modules

Names follow the source. Every module is one component; the abstract ones say what a component promises
and are implemented by refinement. A definition ending in `Fault` is the one after it with a plausible
mistake: the mutants substitute it, no specification uses it.

### RunTasks, BoundedParallelism, RunTasksProofs
`RunTasks` is one call. The loop is `pc`, from `WaitAsync` (`TakeToken`) over `MoveNext`
(`PullItem`, `KeepToken`, `EnumeratorThrows`) to `executable` (`StartTask`,
`ExecutableThrows`); tasks and their continuations are `Complete(i)` and `Continue(i)` and
interleave with it. A throw disposes the semaphore under the continuations still to come: their `Release`
is lost, and `LostOnlyAfterFailure` says that this happens in no other case. `BoundedParallelism` is the
abstract service: start the next item when fewer than *max* are active, return when nothing is.

### OrderBy, PipelineBuilder, PipelineRun, TryCatchFinally, PipelineRunProofs
`PipelineBuilder` has one step list, because `Build` hands the builder's own list to every pipeline, with
the version `List<T>` stamps changes with; `PipelineRun` adds the runs: the enumerator (`MoveNextThrows`
when the list has changed), the nested decorators (`depth`), the action, the check for cancellation, the
second reading of `IsCancelled` in `Settle`, catch and finally. Decorators may call what they wrap, skip
it, call it again, or replace its exception. `TryCatchFinally` is the statement a run promises to be.
`CurrentStep` and the payload are left out: nothing decides on them.

### JsonTokens, JsonArrayItems, JsonArraySplitter, JsonProofs
A token is a kind and a stretch of bytes; a buffer cell is the number of the byte it holds. So the sliding,
growing and refilling of the buffer (`GetMoreBytesFromStream`, `CacheStateForLaterUse`,
`InitializeBuffer`) is modelled byte by byte while the JSON text stays abstract. `Utf8JsonReader` is
external: `Reads`, `NeedsMore`, `AtEnd`, `Throws`, `Stalled` say what `Read` does with the cells it is given. A
number is read only when the byte behind it is there or nothing can follow (`Fits`), since it might go on; behind a
whole root value `Read` returns FALSE even on the final block (`ReadReturnsFalse`). `JsonArrayItems` gives the items
of a text one by one and then an end, and `JsonTokens` names the brackets, for the converter too. What the bytes of
a token spell is not modelled.

### SigningKeys, SigningKeysProofs
The two look-ups around the lock, the load with its latency, `Set` with a lifespan, an authority that
publishes a new set at any time (`Rotate`), a clock. A key set is its number in the authority's history. The
cache key is what the code spells from url and kid, given as the constant `CacheKey`, and a cache entry remembers
the url it came from: two urls may spell the same key, so that one authority's set answers for the other.
Which waiting thread gets a free lock is left open.

### WorkerHost, WorkerHostProofs
The runner (`Begin`, `CheckToken`, `Execute`, `TaskEnds`, `LoopEnds`, `StopApplication`), the deferred
services (`Register`, `OnHostStartedEnds`), and the .NET host as environment: it announces its start,
cancels the stopping tokens, waits for the runner or gives up, and takes an exception for a demand to
stop. The ordering of the tasks is `OrderBy`, shared with the pipeline.

### InfoEndpoint, InfoEndpointProofs
The start of a service runs `OauthInfoFileGenerator` (`Generate`, `Delete`, `Write`, `Written`), after
which requests look up the cache, list the folder, read each file and fill the cache (`Lookup`,
`ListFiles`, `ReadFile`, `Answer`). Others edit the folder; a crash leaves the folder as it is and the
next start may have another authority. The folder is configured and exists; without it there is nothing
to go wrong.

### TestingService, TestingServiceProofs
The fields of `SmusdiTestingService` and the life of the web application in each `SmusdiService` it has made.
`StartAsync` goes from `ExecuteBeforeRun` over `StartHost`, which reads the fields again behind the await, and
`HostStarts` to `CreateClient`; `DisposeAsync` from `StopHost` over `DisposeServer` to `DisposeService`. Both
may be called by two tasks at once, and whatever can throw does. `Initialize` is part of a test's set-up and
meets no other call, but may be called again. `raced` and `abandoned` remember what the properties except.

### ConfigurationBuilding, PathBase, SchemeSelection, ServiceRequest, ServiceRequestProofs
`ConfigurationBuilding` is `SmusdiService.CreateAndInitializeBuider` for several builders of one process:
`ReadEnvLine` sets a variable of the file of variables, `SaveVariable`, `SetVariable`, `CreateBuilder` and
`RestoreVariable` are the way around the creation of the default builder when reloading is off,
`InitConfiguration` changes its sources and puts the expander on top, `FirstLookup` is the moment the expander
takes the providers there are. `Answer` is a look-up through the whole stack. A text is a sequence of pieces,
some of which refer to a variable.

`PathBase` and `SchemeSelection` are functions: what the reverse proxy settings become, what each of the two
middlewares does to a path, the url of the document, and the authority and token of a request.
`ServiceRequest` composes the three: one builder becomes the application, its settings are looked up in the
configuration of that builder (`Setting`), and requests, sent to the url its document shows through a proxy
that keeps the prefix, strips it or has it moved by the host, pass `StripPrefix`, `EnsurePrefix` and the
authentication. `ConfigureOpenApi` and `ConfigureMiddleware` refuse what the code refuses.

### PolymorphicConverter (JsonTokens, JsonProofs)
The look-ahead of one call of `Read` over a sequence of tokens: `Landing` is where `Read` and `TrySkip`
take the copy, `Pass` goes on, `Choose` decides, `EndOfText` gives up. The tokens of a text may come in any
order in which every container is closed (`Ends`), which is as far as the reader looks here.

## 3. Runs

| Run | Instance | Shows |
|---|---|---|
| `RunTasks` | up to 4 items, the third of which never completes, max in -1..3 | tokens are conserved, a normal return means over, a hanging task costs its token only, refinement of `BoundedParallelism` (the call ends when its tasks do) |
| `Pipeline` | 1 pipeline, 1 context, 2 processors registered out of order, 1 piped step, 1 decorator, 2 changes of the list | order, completeness, late steps, what `Cancelled`, `Ko`, `Fatal` mean, reuse of a context; every run ends and is a try/catch/finally statement |
| `JsonArraySplitter` | whole texts, some with white space behind, buffer of 4 bytes, short reads or a byte order mark | the buffer holds the unread input, grows for one token only, refinement of `JsonArrayItems` |
| `JsonArrayBomShort` | a byte order mark and short reads | *violated*: one `Read` behind the mark |
| `JsonArrayCut` | streams that end right behind an item | *violated*: the item is given twice |
| `SigningKeys` | 2 threads, 2 urls and 3 pairs of url and kid, two of which spell one cache key, 3 calls in all, clock to 3, lifespan 2, latency 1 | no good set is replaced, keys are recent and of an authority that spells the key, every call ends |
| `WorkerHost` | 3 tasks, two of equal order, 2 deferred services | order, one late task at most, no early stop, the worker ends, deferred work runs, after the start |
| `InfoEndpoint` | 2 requests, 2 files, cached or not, 2 authorities, 2 changes of each file | the authority in force across crashes, fresh answers without the cache, a cache that settles |
| `TestingService` | 2 tasks, 2 before-run implementations, up to 2 calls of `Initialize` | serves only after the before-run implementations, a client is served, nothing is left after disposal, every call ends |
| `ServiceRequest` | 2 builders, 13 environments, one of the builders in service, 3 sets of authorities, 14 calls | the environment is left as found, files are watched as set, look-ups follow the precedence, the url shown reaches its end point, a token is accepted by the authority it should meet |
| `Polymorphic` | objects with up to three members in every order, inner objects of the same converter | the own discriminator decides |
| `PolymorphicMissing` | the same | *violated*: a missing discriminator is taken from the container |

**Bounds.** *RunTasks*: 4 items and 3 tokens give more items than tokens, as many, fewer and none, and limits
that are refused; the bound is the length of the enumerable only, and the proofs drop it. *Pipeline*:
`MaxChanges` counts changes of the list; two let a list change between `Build` and `Run` and again during the
run, and come back to an empty list. One decorator shows every nesting outcome, since decorators meet their
neighbour only. One context is enough: two runs share only the builder's list, and the builder changes it at any
step already. *JsonArraySplitter*: a buffer of 4 makes names of two bytes, scalars of up to nine and gaps of
white space fall across every cut, and grow twice; items per call are bounded by `MaxYields`, above what the
texts have. Numbers of one to four bytes end before, at and behind the end of the buffer; up to eight bytes of white
space behind a short text fill the buffer to its last cell or leave some free; arrays stand between the items, before
them, empty, nested or with an object in them. The mark is read with full reads only, since a short one breaks it
(`JsonArrayBomShort`). *SigningKeys*: the clock lets a set expire, be loaded again and a rotation fall before, within
and after a load; three calls let one fill the cache for another and a third find it expired; the urls `U` and
`U_x` spell the same key for the kids `x_k` and `k`. *WorkerHost* has no bound but its three tasks. *InfoEndpoint*: two
changes let a file break and heal, or vanish and return, under one request; crashes stop when `oauth.json` has
changed `2 * MaxChanges` times, more than one whole rewrite and a half one. *TestingService*: one task starts
while the other disposes, the flags let each do so once; a third could only be refused. *ServiceRequest*: two
builders interleave in every way, and a third could save only what two have left already; the environments have
reloading on and off, its variable set or not, references expanded twice or once (six of the eight mixtures, as the
number of expansions has nothing to do with the variable), into texts of variables nested once, empty, or empty
one level below; the user secrets hold a value in their own folder and another in the configuration folder; and
for the reverse proxy settings a prefix written with and without slashes, blank, or refused. A request is on its way
at a time, as it changes nothing another one reads. Tokens stand in the standard header, in that of an authority, in
both, in none, come from another issuer, are empty or cannot be read; an authority is main or additional, with a
header of its own or without, its issuer set or left to its url.
*PolymorphicConverter*: depth two, since `Deserialize` scopes the reader to the object around.

**Deadlock** is not checked where the code ends: a call that has returned, a stopped host, a clock at its
bound.

## 4. Fairness

| Module | Assumed | Because |
|---|---|---|
| `RunTasks` | weak, of the loop, of each continuation, and of the completion of each task outside `Hanging` | the thread pool runs what is ready; that a task completes is the caller's part, and the run has one that never does |
| `PipelineRun` | weak, of each run; strong, of the end of a decorator | steps and handlers end; a decorator that retries gives up at last. Nobody has to cancel, build or start |
| `JsonArraySplitter` | weak, of the next step | sequential code. `JsonArrayItems` asks for an answer for every text but a lone value in white space (`LoneValue`), on which the code may loop for ever |
| `SigningKeys` | weak, of each thread | threads run, and HTTP requests time out. .NET locks are not fair: `CallEnds` rests on calls being bounded, not on an order among the waiting |
| `WorkerHost` | weak, of the runner, the host and the registration of deferred services | tasks end and threads run; no stop from outside is assumed, nor the shutdown timeout, nor that deferred work ends |
| `TestingService` | weak, of each task that is in a call | before-run implementations, starts and stops of a host end |
| `InfoEndpoint`, `PolymorphicConverter`, `ServiceRequest` | none | only safety is claimed |

## 5. Proofs

`RunTasksProofs` proves, from `RunTasksAssumption` alone (the bound is a natural number, limits are
integers, hanging items are items), for every number of items and every limit:

* `TypeCorrect`, `TokensConserved`, `ReturnIsOver`: the safety invariants of the run;
* `ParallelismBounded` (at most *max* tasks are under way, also after a throw) and `LossNeedsFailure` (a
  `Release` is lost on a disposed semaphore only when the call has thrown), which follow from the same
  invariant and have no run of their own;
* `Refinement`: every behaviour implements the safety part of `BoundedParallelism`.

The inductive invariant is `IInv == TypeOK /\ LoopShape /\ TokenConservation /\ TokensOut`.
`TokenConservation` alone is not inductive: it does not say which item the loop is starting, so that
`StartTask` could make a second holder out of nothing, and it says nothing of a call that has thrown,
whose tasks still run. `LoopShape` ties each item's status to `pulled` and `pc`; `TokensOut` keeps the bound
on the holders after a throw. The cardinality steps rest on `HoldAdd`, `HoldRemove` and `HoldKeep`, which
say how one change of one item's status changes the set of holders.

`PipelineRunProofs` proves, from `BuilderAssumption` alone (the two bounds are natural numbers, the processors
form a sequence), for any processors, steps, pipelines and contexts and any changes of the builder:

* `Types`, `Order` (`ProcessedInOrder`), `Complete` (`DoneIsComplete`), `OneLateStep` (`AtMostOneLateStep`),
  `Cancellation` (`CancelledIsAskedFor`) and `BadEnds` (`BadEndShowsException`): all invariants of the run;
* `RefinesTryCatchFinally`: every behaviour implements the safety part of `TryCatchFinally`.

The order of the steps is an argument about versions. The list a run enumerates may change under it, and
nothing keeps a copy; but every change raises the version, so that as long as the version a run has captured
is still that of the list, the list is the one the run began with (`EnumeratorKnows`), and `MoveNext` looks
before it delivers. `RunKnows` says for each place of the run which state, which outcome and which reason to
leave the loop it has, `LateKnows` that a step which began too late was the last one, and `PipeIsBuilt` that
the handlers the refinement reads are those of a pipeline that was built, which never change. One property had
to be corrected on the way: `BadEndShowsException` had let the exception of a finally action explain a `Ko`,
which only a caught one can.

`JsonProofs` proves of the splitter, from `StreamAssumption` (the buffer has a length that a byte order mark
fits in; each text is a sequence of tokens laid out one behind the other, a number not directly followed by more
than a separator or a closing bracket; a stream ends behind the text or behind one of its brackets), for any texts,
any length of the buffer and of the mark:

* `BufferGrows` (`GrowsForOneToken`): the buffer doubles only for a token that does not fit, where a number wants
  room for the byte behind it, of any stream, good or bad, cut or short;
* `NothingLost`: `BufferHoldsInput` for every whole text;
* `SplitsGoodArrays`: of a good array every behaviour implements the safety part of `JsonArrayItems`: the items
  one by one, each whole, in order, then the end;
* `GoodItemsAreGiven`: of a good array `ReturnsEachItemOnce` and `SplitsWholeArrays` hold, the two properties
  that the runs find violated for other streams.

A text is whole (`WholeText`) when the stream has all of its bytes (white space may follow them), its brackets
balance, and it has no byte order mark if it reads short: the runs `JsonArrayCut` and `JsonArrayBomShort` show that
neither condition can be dropped. A good array (`GoodArray`) is moreover one whose brackets match (`Nested`) and
whose items are objects,
as `JsonArrayItems` asks of a text that it does not refuse. Texts of other kinds, among them those with an array
between the items (section 6), stay with TLC.

The proof has two halves. That of bytes is `Holds`: behind the cells a reader has consumed stand the bytes that
follow its position, without a gap, and they fill the buffer unless the stream is over. It is stated of the
reader of the current call and of the cached state, since a call that gives an item goes back to what was
cached; `StoreFacts` and `MoveFacts` say what the movements of cells leave where. White space outside the root value
is consumed to the end of the buffer, and may be mixed with cells of the past (`BlankHolds`): no byte of a token is
among it (`TokenIsNotBlank`). The other half is about tokens. `ReadsNext` and `NeverThrows` draw from `Holds` that
the reader takes one token after the other, and that a number has its separator behind it; and
`Splitting` says what has been given when it has come to a token: between two items, as many as have begun;
within one, the tokens from its first. That this first token and the closing bracket are the ones
`JsonArrayItems` chooses is `ItemFacts`.

Of the converter `JsonProofs` proves, from `PolymorphicAssumption` (the outcomes differ from each other and from
the sub types; in each text every bracket that opens has an end), for any texts, discriminator and sub types:

* `FirstOwnDiscriminator` (`OwnDiscriminatorDecides`).

Its invariant, `LookAhead`, says that until there is an answer the copy of the reader stands among the members
of the object, one bracket deep and in front of every discriminator of the object's own. That `TrySkip` cannot
carry it past one is an argument about depth, the brackets opened less those closed (`DepthFacts`): a
discriminator at depth one cannot lie between an inner bracket and its end, where the depth is larger
(`EndFacts`, `LandingFacts`).

`SigningKeysProofs` proves, from `SigningKeysAssumption` (bounds, lifespan and latency are natural numbers,
`NoOne` is no thread, there is a request, each for one of the urls and with a cache key), for any threads, urls, kids and
any way to spell cache keys:

* `TypeCorrect` and `LockIsReleased`: a thread holds the lock exactly between its acquisition and the end of
  its call, failed or not, so no two loads are ever under way;
* `GoodSetsStay`: `NoReloadWhileGood`;
* `RecentAnswers`: `AnswersAreRecent`, with the sum of lifespan and latency as the bound: of some authority whose url
  spells the cache key, which may not be the one that was asked;
* `OwnKeysAnswer`: it is the one that was asked where no two urls spell the same cache key.

Here the invariant adds to the lock `MissWhileLoading`, the second look-up's result, which holds until the
set is stored because its holder alone stores (`OneLoader`, `OnlyStoreWrites`) and because time only lets
sets expire; and the way of a key set from the response (`LoadsAreRecent`) into the cache (`CacheIsRecent`)
and out of it (`AnswersWithin`), each with the time it may have been withdrawn for (`Within`); on the whole way the
url it came from spells the key it is under (`SpelledAlike`). A rotation is
the step that could break them all, and `AppendWithin` says why it does not: the newest withdrawal is now.

`WorkerHostProofs` proves, from `WorkerAssumption` (tasks form a sequence, their orders are integers), for any
tasks, orders and deferred services:

* `TypeCorrect`, `TasksInOrder` (`InOrder`), `OneLateTask` (`AtMostOneLateTask`) and `NoEarlyStop`
  (`StopsOnlyWithReason`);
* `NoCallbackIsLeftBehind`: the safety half of `DeferredRunsAfterStart`, and that a callback waits only while
  the start is still to be announced, so that all it takes to run is that announcement.

`InOrder` speaks of a sorted sequence, and `OrderBy` sorts by counting: the rank of an element is one more than
the number of those before it. `RankOfSmaller` (by the cardinality of a proper subset), `OrderedPlaces` and
`OrderedIsSorted` show that these ranks give every place one element, in order, stably. The rest is
`ExecutedIsPrefix`, and `RunnerKnows`: what the runner has seen of the token at each of its places. It is the
part the properties lack, as they do not mention where the runner stands.

`InfoEndpointProofs` proves, from `InfoAssumption` (`oauth.json` is a file of the folder, "absent" is no
authority, the bound is a natural number), for any requests, files, authorities and changes of the folder:

* `TypeCorrect`, `AuthorityNamed` (`AnswersNameAuthority`), `FreshAnswers` (`UncachedAnswersAreFresh`) and the
  action property `SettledCache` (`CacheSettles`).

An answer is put together long after the folder was listed, and from files which others edit. It names the
authority because a service that serves has written it (`ServedAfterWrite`), whatever a crash before has left,
and a request that no longer has `oauth.json` before it has read it there (`AuthoritySeen`). It is fresh because
a request reads each file after it began (`LooksLater`). The cache settles because whoever is under way once it
is filled was so when it was filled (`EarlyKnown`): a later one finds the answer.

`ServiceRequestProofs` proves, from `ConfigurationAssumption`, `TextsAssumption` (what a source holds is a text,
a sequence of pieces, and `None` is not one) and `ServiceRequestAssumption` (the service is one of the builders,
additional authorities form a sequence, the path of a call is empty or begins with a slash), for any number of
builders, environments, settings and calls:

* `EnvironmentIsLeftAsFound` (`VariableIsRestored`) and `FilesAreWatchedAsSet` (`WatchingFollowsSetting`);
* `LookupsFollowPrecedence` (`AnswersFollowPrecedence`);
* `TokensMeetTheirAuthority` (`GoodTokenMeetsItsAuthority`);
* `PrefixIsKept`: `ClientUrlIsKept`, as long as the document shows the base path of the middleware;
* `SteadyPrefixIsKept`: `ClientUrlIsKept` without that condition, of services whose server is plain and whose
  base path stays the same between the two moments at which it is read.

For the first two, the assumption that matters is that the file of variables sets neither
`SMUSDI_APPSETTINGS_RELOAD_ON_CHANGE` nor `DOTNET_HOSTBUILDER__RELOADCONFIGONCHANGE`: with such a line two
builders see different settings, and what "the value of before" means is open. `RestoringInv` says what each
builder has saved and that without overlapping one builder at most is between saving and restoring.
`WatchingInv` adds that the setting is the same for all builders, and so is their way (`OneWay`), what the
default builder then watches (`CreatedWithSetting`), and which sources a finished builder has
(`StackIsKnown`, by `ToSetConcat`).

The look-ups need three things. What an expansion makes of a text is a matter of `FlattenSeq`, which is a
recursive function. Induction is not needed for it: if the function went wrong somewhere there would be a least
place where it does (`FlatteningExists`, by `LeastElement`), and the place before that contradicts it.
`FlattenFacts` and `FlattenPieces` say of which pieces a flattened sequence consists, `ExpandFacts` and
`ExpandedFacts` which references one and two expansions leave, and `ExpandedValue` that asking first whether there is
anything to expand again makes no difference. Where the sources stand is `FinishedKnown`: the stack of a finished
builder has them in one of four ways, with or without files of the service and a command line, and
`PlacesFollowOrder` compares each of them with the documented order; the command line stands twice in the stack, on
top and below the service's files. A source added after the expander stands above it, so that it answers first and as
it stands (`LaterAnswers`). `ValuesKnown` is what makes the rest applicable: all that a source or a variable holds is a
text, as no step takes a value from elsewhere.

The choice of an authority is a fact about `Select`, which takes the first authority whose header is there, else
the first that issued the token in the standard header, else the main one: `LeastElement` gives that first one,
`SelectFacts` says what is known of it and of those it was preferred to, and `StandardToken` what an authority
without a header in the request makes of the standard one.

The prefix is kept on a condition, `PrefixIsShown`: the base path of the middleware is what `GetBasePath` makes
of some setting, and the url in the document is that path, behind a host or not. `ConfigureOpenApi` and
`ConfigureMiddleware` read the setting at two moments and each for itself; a source that is added or a variable
that changes in between may show one prefix and serve another, and the theorem says nothing of such a service.
The last theorem puts this into terms of the configuration: `BasePathStays` (an action: the setting does not
change between the two) and `PlainServer` (the server is not set, refused, or a host: a server with a path of
its own is for a proxy that takes that path off). That the setting is a text at all is proved (`SettingIsText`,
by what is known of look-ups). With one builder, TLC finds that every environment of the run meets both.
`BasePathForm` says what every base path looks like, whatever the setting; `PathsKnown` follows a request
through the two middlewares, the cases where the proxy kept the prefix and where it stripped it, up to
`Ambiguous`: a rest that begins with the prefix itself.

`TestingServiceProofs` proves, from `TestingAssumption` (the before-run implementations form a sequence, the
bound on `Initialize` is a natural number), for any number of each and of tasks:

* `TypeCorrect`, `PreparedBeforeServing` (`ServesAfterBeforeRun`), `ClientHasService` (`ClientIsServed`) and
  `DisposalIsComplete` (`NothingIsLeft`).

None of them is inductive: they speak of moments at which nobody is in a call. `OneStart` and `OneDisposal` say
that the two flags let one task each in; `FieldsAgree` what stands in the fields then; `StartProgress` what the
task in `StartAsync` may rely on behind each await, among others that the service it reads again is the one
whose before-run implementations it has executed, or is gone; `ClientServed` and `Remains` are the properties
without the condition that everyone is at rest.

Left to TLC:

* liveness under fairness, which the prover does not reach: `HangingOnlyCostsTokens`, `CallEnds`, `WorkerEnds`,
  `DeferredRunsAfterStart`, `CallsEnd`, and the liveness halves of the refinements
  (`ImplementsBoundedParallelism`, `ImplementsTryCatchFinally`, `ImplementsJsonArrayItems`);
* the refinement of `JsonArrayItems` for texts that are no good arrays, those with an array between the items and
  lone values among them, and that a text as the run enumerates it is laid out as `LaidOut` asks,
  since a recursive function computes it (TLC evaluates `StreamAssumption`).

## 6. What was found

Three disagreements between the code and what its docs, messages or tests say, each a run that TLC refutes:

* one short read behind a byte order mark makes the splitter refuse a good array (`JsonArrayBomShort`);
* a stream cut right behind an item gives the item twice (`JsonArrayCut`);
* an inner object without a discriminator takes that of the object around it (`PolymorphicMissing`).

Consequences of the code that are in the models without a run of their own:

* A built pipeline shares the step list of its builder, though the summary of `IPipelineBuilder.Clear` speaks of
  a builder to be reused: `Clear` between `Build` and `Run` leaves the pipeline without steps. The properties of
  `Pipeline` are therefore stated about the steps the list has when a run begins.
* An array between the items ends the splitting at its own end if there is no object in it, as nothing counts the
  brackets there: of `[[], {..}]` the object is not given, and nothing is refused, where the message of the class
  ("Class must be used to split array of objects only.", `JsonArraySplitter.cs:70`) lets a reader expect a refusal.
  `JsonArrayItems` says so (`ArrayBehind`); a good array has no such array.
* A root that is a lone string, number or literal, in so much white space that the stream ends with the buffer: when
  the stream is found to be over, white space is all the buffer has, `Read` returns FALSE on the final block, the loop
  of line 135 ends without a token, and the constructor asks again for ever (line 119).
* The key of the key cache, `{jwksUrl}_{kid}`, does not tell two authorities apart when the url of one is that of the
  other with `_` and more behind it and a key id makes up for the difference: the keys of the one then answer for the
  other. `AnswersAreRecent` therefore promises keys of an authority that spells the key asked for, and
  `OwnKeysAnswer` those of the one asked only where no two urls do that.
* A request that missed the info cache fills it without looking again, so that it may replace what another
  request has cached meanwhile, which is why `CacheSettles` excepts the requests that were under way before the
  cache was filled (`early`).
* Two creations of builders that overlap may leave `DOTNET_HOSTBUILDER__RELOADCONFIGONCHANGE` at "False": the
  second saves what the first has set. `VariableIsRestored` excepts exactly that (`overlapped`).
* Where a process is started with that variable at "False" and the setting of smusdi is on, appsettings files
  are watched nevertheless, and other files are not.
* `InitConfiguration` takes the file provider from all JSON sources, the user secrets among them, which are
  looked up in the configuration folder from then on (`moved`).
* A text whose references expand to nothing makes the expander return false, and the provider below answers with
  the text as it stands, `%VAR%` and all: a setting that is to be emptied by an empty variable is not. A
  provider added above the expander is not expanded at all.
* A base path of slashes only, such as "//", becomes "/"; with no server and no base path the document gets a
  servers entry with an empty url.
* An authority whose header is present but empty is selected, and its handler then reads the standard header; one
  whose header has a bad token fails the request even if the standard header has a good one.
* The issuer an authority is known by is its `Issuer` and, only if it has none, its `Url`
  (`OAuthConfigurator.cs:78`, `OauthAuthority.cs:47`), and one with a header of its own is not known by an issuer at
  all. The README of the repository says that the authority used is the one which has the issuer of the token as its
  `Url` (`README.md:286`). `GoodTokenMeetsItsAuthority` states what the code does; the run has an authority with both
  and a token of each, the second of which is accepted by none.

## 7. Plan

Done, in this order: `RunTasks` and its proofs, the pipeline, the splitter, the signing keys and their
proofs, the worker, the info end point, the converter, the testing service, each with its runs; then the
configuration, the reverse proxy and the selection of an authority, composed in `ServiceRequest`; the proofs
about the worker, the testing service and the configuration; those about the pipeline, the info end point and
the splitter, each with its refinement, and about the path and the authority of a request; last those about the
look-ups of a configuration and the converter. Every invariant and every action property that TLC finds to hold
is now the subject of a theorem, two of them under a condition that section 5 names (`BufferHoldsInput`,
`ClientUrlIsKept`).

Open: proofs of what the splitter does with texts that are no good arrays, which only TLC has looked at.

## 8. Not modelled

The audit service: `AddRecord` is one insertion, `Search` two queries, of which the first counts and the
second lists, so records written between them make a total smaller than the list. Whether that can be seen
is decided by the isolation of a database which the repository does not choose, and nothing promises that
the two fit. If the save in `AddRecord` fails, the record stays with the scoped context, so that a second
call of the same scope saves both. The migration is one call of Entity Framework.

The HTTP policies hand three numbers to Polly, whose retries they are. Forwarded headers are one call of
ASP.NET Core. What becomes of the work of a deferred service when the host stops is open (`OnHostStarted` is
dropped, and `WorkerHost` lets it outlive the host): nothing in the code or its docs says what it may
expect. The lifespan of the keys is one value in `SigningKeys` and the same for all urls there, where each
authority may have its own.

The only JavaScript of the repository is a minified copy of a third-party editor among the static files of a
sample (`samples/Smusdi.Sample/static-files/ace.js`): it is data to the program, and no part of it. The
program is the C# under `src/src` and `src/testing`, to which all rows of the map point.

Compression, logging, health checks, assembly scanning, Swagger and Scalar are wiring of other libraries done
once at start-up; multipart, date, string and validation helpers are one-line functions; test step classes
and samples are sequential glue. `PROJECT.json` gives the reason for each under `components`.
