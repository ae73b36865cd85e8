# A TLA+ model of gr4-control-plane

gr4-control-plane is an HTTP server that keeps *sessions*: a session is a GNU
Radio 4 flowgraph that can be started, stopped, restarted and deleted, whose
streams can be fetched, and whose blocks can be reconfigured while it runs.
Requests are served by a pool of threads, so all of this happens concurrently,
against a runtime whose calls take long and may fail. The modules here model the
part of the program where that matters, check it with TLC on small instances,
and prove what matters most with TLAPS for every instance.

Paths are relative to the repository (`src/` is the C++ tree, `docs/` and
`README.md` its documents).

## The system

| component | state | operations | interacts with |
|---|---|---|---|
| `app::SessionService` | `phases_` (the internal phase of a session), one mutex | create, list, get, start, stop, restart, remove, active_stream_plan, fetch_http_stream, resolve_websocket_stream | calls the repository under its mutex, the runtime manager without it |
| `storage::InMemorySessionRepository` | the records, one mutex | create, list, get, update, remove | called by both services |
| `runtime::Gr4RuntimeManager` | `resources_`: session -> shared resource object (execution, bindings, lifecycle phase, a mutex each); a mutex for the map | prepare, start, stop, destroy, active_stream_plan, fetch_http_stream, resolve_websocket_stream, set/get_block_settings | the plugin loader, the scheduler, loopback sockets, the allocator |
| `runtime::StreamBindingAllocator` | `allocated_ports_`, a mutex | allocate_http, allocate_websocket, release | the system's ephemeral ports |
| `app::BlockSettingsService` | none | update, get | reads the repository *without* the session service, then calls the runtime |
| HTTP routes (`register_routes`) | none | one handler per route; GET /sessions and GET /sessions/{id} call the service more than once | the services |
| HTTP server (`HttpServer::Impl`) | `stopping_`, connection threads, websocket bridges, the internal server's thread | listen, listen_after_bind, stop, proxying, bridging | the routes; `resolve_websocket_stream` |
| stream planner (`domain/session_stream.cpp`) and graph normaliser (`normalize_graph_content`) | none | derive and validate a stream plan; inject endpoints into the graph | prepare |
| block and scheduler catalogs | a cache each, filled at the first call, which `main` makes | list, get; reflecting a block, writing and reading its descriptor as JSON | GNU Radio's plugin libraries; a child process per block and a pipe; the block routes |
| `main` | where the start is | load both catalogs, listen | all of the above |
| stub runtime manager | bindings, settings (no mutex) | as the runtime manager | the tests |
| CLI | none | one HTTP request per command | the server |

Which behaviours are hard, and what makes each component correct:

* **Session service.** A lifecycle operation takes the mutex twice and works in
  between without it, on a copy. Correct means: operations of one session never
  overlap; the copy is never stale; no path leaves a session in a transient
  phase; record, phase and error text agree; an admitted request never loses its
  session.
* **Runtime manager.** Objects are found under one mutex and locked under
  another; the object's mutex is held across slow calls; ports are reserved step
  by step and released on many paths. Correct means: mutexes are always given
  back; ports are exclusive and neither leak nor go too early; no execution ends
  up where no call can find it; bindings are complete.
* **All together.** The runtime must be what the public state says; requests
  that go round the gate (settings, reads) must not break that; every request
  must end.
* **HTTP server.** `stop()` races with accepting, with new bridges, with the
  listener's own clean-up and with another `stop()`. Correct means: every
  connection thread is joined by somebody and by one only; nothing is left when
  both have returned; both do return unless a client holds the server.
* **Planner, normaliser, injector.** Three passes read the same blocks and each
  works out for itself what a block is called. Correct means: a declared stream
  is bound or the graph refused; its endpoint reaches the block that declared it.
* **Settings.** A request sends a message to a block and waits for the answer,
  which may be late and is then published to whoever waits. Correct means: an
  answer is that of the request it is given to; the scheduler is there as long
  as an exchange uses it; a request ends although no block owes it anything.
* **Reflection.** A block is described by what it says of itself, and the
  description is converted three times. Correct means: nothing is lost or
  changed on the way; numbers do not wrap; counts of ports can be drawn and come
  from the right parameter.
* **Start.** Libraries may be broken, and reflecting a block may crash. Correct
  means: a server that serves has sound catalogs; one that cannot gives up.

## Modules

    SessionLifecycle      abstract: status and claim of a session
       ^ implemented by
    SessionService        the gate, over an open runtime     <- SessionServiceProofs
       ^ implemented by
    ControlPlane          routes + service + runtime         <- ControlPlaneProofs
       | uses
    Gr4RuntimeManager     objects, mutexes, ports            <- Gr4RuntimeManagerProofs
       .
    StreamPlan            what prepare does to a graph       <- StreamPlanProofs
    BlockSettings         what a settings call does          <- BlockSettingsProofs

    HttpServer            listen, stop, connections, bridges <- HttpServerProofs
    BlockCatalog          the start: libraries, children     <- BlockCatalogProofs
       .
    BlockReflection       what a child reports of a block    <- BlockReflectionProofs

A dot stands for "is the inside of one step of"; those modules are checked for
themselves, with the module above as the account of what surrounds them.

`MCSessionService`, `MCGr4RuntimeManager`, `MCControlPlane`, `MCHttpServer`,
`MCStreamPlan`, `MCBlockSettings`, `MCBlockCatalog` and `MCBlockReflection` hold
the sets TLC uses. Operators whose
comment begins with `Mutant:` are plausible bugs, kept to show that each property
would notice one; no specification uses them.

**SessionLifecycle** is what the control plane promises of a session: it has a
public status, at most one operation has the claim on it, and its status changes
only when the claimed operation completes.

**SessionService** models `app/session_service.cpp` with the repository. `repo`
and `lastError` are the stored record, `phases` is `phases_`, and `req[t]` holds
the locals of the request thread `t` executes: the copy read at the gate
(`seen`), the runtime calls still to make (`calls`), the fetches tried
(`tries`). Each section under the mutex is one action: `Start`, `Stop`,
`Restart`, `Remove` and `Read` are the gates, `Refuse`, `NotFound` and
`Answered` the early returns and exceptions, `CommitRunning`, `CommitStopped`,
`CommitRemoved` and `RecordFailure` the closing sections. In between,
`RuntimeReturns` and `RuntimeThrows` leave open what the runtime does, so what
holds here holds with any runtime manager. Session names, times and graph texts
are left out.

**Gr4RuntimeManager** models `runtime/gr4_runtime_manager.cpp` with
`stream_binding_allocator.cpp`. `resources` is the map, `heap` the shared
objects (a `shared_ptr` is dead when neither the map nor a call refers to it,
and its object may then be used again), `lock` their mutexes, `allocated` the
allocator's set, `rt[t]` the program counter and locals of thread `t`'s call.
Every call begins with `Find` (the map's mutex) and then enters a section under
the object's mutex; short sections are one action, long ones keep the mutex
across steps (`alloc`, `starting`, `stopping`, `settings`). `EraseEntry` is
destroy's last step, after the unlock. A graph is the set of streams it asks for
(`StreamsOf`); the scheduler, the loader and the sockets succeed or fail as the
constant `Faults` allows. `teardown_complete`, `teardown_error` and `generation`
are written and never read, and nothing ever sets `async_error`, so they are
left out.

**ControlPlane** plugs the two together: a runtime call of the service is made
and answered by the same thread through `CallRuntime`, `RuntimeSteps` and
`RuntimeAnswers`, and every step in between is an interleaving point. It adds
the handlers with steps of their own: `GetSession`, `ListSessions` and
`LookUpStreams` for the reading routes, `Settings`, `CallSettings` and
`SettingsAnswered` for `BlockSettingsService`, which checks the state in the
repository and goes past the gate.

**StreamPlan** is the inside of `prepare_locked`'s work on a graph, which
`Gr4RuntimeManager` takes as the constant `StreamsOf`: `Refuse` and `Plan` are
the contract check and the plan (`domain/session_stream.cpp`), each a loop of its
own (`Checked` and `Planned` are one turn of either), `Normalize`, `Inject`,
`InjectFails` and `Load` the passes over the parsed graph. `Declares` is what the
planner takes for a declared stream; the properties do not use it but ask what the
running block was loaded with (`AuthorsStream`). A block is a
property map (a function whose domain is the fields present), so that the
difference between a missing and an empty field, on which planner and normaliser
differ, is there. `PlannedName` and `InjectedName` are the two opinions on what a
block is called.

**BlockSettings** is the inside of the `settings` step of `Gr4RuntimeManager`
and what `BlockSettingsService` does around it, for one session. `call[t]` holds
the locals of a request, `port[t]` the response port it has connected to the
scheduler, `inbox[b]` the messages on their way to block `b`. `EnterExchange`
locks the object, looks the block up (by name, unique name or label, as
`resolve_runtime_block` does) and sends a message with a request identifier;
`Wait` takes a reply, drops those that are not its own, or times out, with the
mutex held. A block handles its messages in order, at any time or never
(`Handle`), and its answer goes to every port connected then, also when the
request it answers has given up. Integers of a body have a width: `Half` is 2^63
in the code, and `ToInt64` is what the conversion does with an unsigned number.
`fate[t]` is a history variable: what the block did with the request.

**HttpServer** models `HttpServer::Impl`: the listener's loop and clean-up,
`stop()`, the thread of each connection (`conn[c]`) and the bridges. `taken[p]`
is the local vector into which a joiner swaps `connection_threads_`. A
connection proxies one request or becomes a bridge; the routes behind it and the
internal server are external.

**BlockCatalog** models the start (`main.cpp`, the catalog services and
providers). Each library is opened and initialised, each block reflected in a
child that writes its report into a pipe and may end in any way at any point
(`ChildSends`, `ChildEnds`, `Collect`); then `cached_catalog` chooses what to
list. `EnsureRuntimeEnvironment` is the runtime's own loading of the libraries
at the first prepare. `main` fills both caches before it listens, so the
services' mutexes are never contended and a lookup changes nothing.

**BlockReflection** follows one block from the child to the response of
GET /blocks/{id}: `Instantiate` and `Reflect` make a descriptor of what the block
says of itself, `Write` puts it as JSON into the pipe, `Parse` reads it in the
parent and `Show` writes it again. Texts are members of small sets, told apart by
what the code asks of them (empty, contains "::" or one of `<>(),`, not UTF-8);
names of ports and parameters are words of a stem and an ending, so that the
search for the parameter that sizes a collection (`Candidates`,
`infer_collection_size_parameter`), with its singulars, plurals and aliases, is
there; a value is its kind and, if it is an integer, its number. In JSON a field
that has no value has no key. Children that fail are in `BlockCatalog`.

## Runs

| run | instance | what it shows |
|---|---|---|
| `session_gate` | 2 sessions, 2 threads asked for everything, a third for start and remove | the gate's invariants, that every admitted request is answered, and that the service implements `SessionLifecycle` |
| `runtime_ports` | 2 sessions, 3 streams, 3 ports, 3 objects, 2 threads, every call | mutex discipline, exclusivity, completeness and release of ports |
| `control_plane` | 1 session with 2 streams, a writer and an all-purpose thread, every fault that loses no port | runtime and public state agree, no orphan execution, no partial advertisement, no port left at rest; the composition implements `SessionService`, uses the runtime as `Gr4RuntimeManager` was checked for, and every request ends |
| `http_server_stop` | 2 connections, 2 callers of `stop()` | every connection thread is joined once, nothing is left behind, and stopping ends |
| `catalog_start` | 3 blocks, a plugin, a shared library and one the catalog does not look at | only sound reports are served, what is listed does not depend on the order of blocks, the start ends, and what can go wrong after it |
| `stream_plan` | 1 or 2 blocks, in all forms | contract, plan and normaliser agree on which streams there are, and endpoints reach their blocks |
| `settings_exchange` | 1 block, 2 threads, 2 request identifiers, integers from -2 to 3 | answers are those of their requests, the scheduler outlives the exchange, and every request ends |
| `block_shapes` | 7,242 blocks, ints from -6 to 5, at most 3 ports | what is shown is what was reflected, defaults do not wrap, ports can be drawn and are sized by the right parameter |
| `start_after_failed_stop`, `slow_stop_reads`, `join_race`, `invalid_transport` | one small instance each | four statements of the documents and tests that the code does not keep (below) |

Bounds, and why they are enough. The invariants of the gate are about pairs of
requests for one session; the third thread and the second session are there to
show that others do not matter. `MaxTries` is 2 where the code has 20: first,
repeated and last attempt all occur. An object is in use while the map or a call
refers to it, so there is always a free one when `Res` has
`|Id| + |Thread| - 1` members: the caller that needs one refers to none yet,
and its own session's entry is empty. With as many ports as streams an exhausted
allocator occurs as well, in `runtime_ports` when calls compete. Sessions meet
in the map, the allocator and the service's maps only, which `session_gate` and
`runtime_ports` have with two sessions; the runs of the composition have one.

Faults: `alloc` (an allocation fails) and `foreign_load` (the loader throws
something that is no `std::exception`) lose ports by themselves; both are
described below. `control_plane` has every other fault, among them `foreign_stop`,
which leaves a phase behind; `runtime_ports` has `alloc` as well, and `NoPortLeaks`
says there that nothing else loses a port. For the composition with these two
faults there are the theorems, which hold for any `Faults`.

Two connections are enough for one to be in the vector while another is taken,
and for a bridge to be registered before and one after `stop()` looks; the
second caller of `stop()` meets the first. `stream_plan` has every combination
of the fields that give a block its type, name and intent, alone, and next to a
block of a usual form: names are compared in pairs. The descriptors that children
report in `catalog_start` are any of twelve, whose types are none, shared, their
own identifier or another block's; three blocks are enough for a second entry to
replace the first and for a third to stand between them.

In `settings_exchange` two requests are enough for one to give up and the other
to meet its answer; an identifier is used again only when nothing in flight
carries it, so two serve any number of requests (the code counts up and never
repeats one). `Half` is 2, and the number posted is the one that does not fit. The
blocks of `block_shapes` are three families, each the product of what one part of
the reflection reads (identifiers and texts; one setting with its metadata;
collections of ports with the parameters that may size them) around a block that
is usual otherwise: the parts do not read each other. Ints from -6 to 5 and
settings from -8 to 9 have a number on either side of every comparison.

The type invariants of most modules are theorems and not among the invariants of
the runs; TLC checks that of `BlockSettings`, which has the integers' width in it.

Symmetry is used on threads, objects and ports for invariants and action
properties only, never with a liveness property. The deadlock check is off where
the system really ends: a stopped server, a start that gave up, one prepare, one
block.

**Fairness.** Clients owe nothing: asking is never fair, and a client of
`HttpServer` need neither send its request nor leave a bridge. A thread inside a
request keeps running (weak fairness of `Serve` and of the runtime's steps),
and library calls come back: each is bounded by a timeout in the code (1 s
connect, 2 s read, 1 s settings reply) or is assumed to (loading a graph,
scheduler start and stop). Locking an object's mutex is strongly fair: the
mutex is released and taken again by others, and `std::mutex` under a kernel
that schedules every thread does not starve one waiter for ever. `SlowStopSpec`
takes away the fairness of scheduler stop alone. The server's own threads and
the internal server's thread run on, and its start is taken to succeed; since
`stop()` waits for connection threads without a timeout, `StopEnds` is
conditional on clients that do not hold the server (`ClientHolds`), and `late`, a
history variable, tells the bridges that `stop()` closed from those it could not
see. In `BlockCatalog` main and the children run on: the parent has no deadline,
so a block whose constructor never returns does keep the server from starting.
In `BlockSettings` the clock runs (`TimeOut`) and threads are scheduled, locking
is strongly fair as above, and the blocks owe nothing. `BlockReflection` and
`StreamPlan` are sequential and have no liveness property.

## What the code does not keep

Four statements of documents or tests, each with a run that refutes it:

1. `start_after_failed_stop`: after a stop that failed, `prepare_locked`
   returns the old execution with its old bindings
   (`gr4_runtime_manager.cpp:983`). `docs/stream-runtime-redesign.md:347`:
   "second start after incomplete stop does not reuse previous stream bindings".
2. `slow_stop_reads`: a read that passed the gate waits for the mutex a stop
   holds during `scheduler->stop()`. `docs/stream-runtime-redesign.md:173`:
   "`GET /sessions` and `GET /sessions/{id}` must remain responsive while a stop
   is delayed."
3. `join_race`: `stop()` and the listener both check and join the internal
   server's thread with nothing that orders them (`http_server.cpp:855-857`), so
   one of the joins may throw. `test/http_api_test.cpp:712` and `719` use the
   server so: `listen_after_bind()` in a thread, then `stop()` from another.
4. `invalid_transport`: a block whose `block` field is there but empty, with its
   type in `id`, has no type for the planner (`session_stream.cpp:110-125`), which
   passes it over; the normaliser takes the empty field for none
   (`gr4_runtime_manager.cpp:400-404`), and the block is loaded. Its session starts
   whatever stream it authors. `README.md:157`: "a managed stream with an
   invalid/unsupported transport fails explicitly on start/restart instead of
   silently degrading to legacy fallback" (likewise `docs/design.md:150`).
   `NeverSilentlyLegacy` has this as its only exception (`BlockFieldEmpty`).

Other behaviours of the code that the models have or that showed up in
modelling, on which no run is made:

* Allocations precede the `try` block in `prepare_locked`
  (`gr4_runtime_manager.cpp:994-1013`), so a failing second allocation leaks the
  first port, where `docs/stream-runtime-redesign.md:167` says "allocated internal
  bindings are released". `NoPortLeaks` names this as the only loss, and
  `QuiescentHoldsNoPorts` fails with the fault `alloc`.
* GET /sessions/{id} reads the session and its streams in two critical sections,
  so its response may show streams next to a state that is not running, where
  `README.md:152` says "`streams[]` is emitted only for running sessions".
* An unsigned number of a settings body that does not fit in int64 is sent as a
  negative one: `is_number_integer()` (`block_settings_service.cpp:85`) is true
  for unsigned numbers too, so the check below it, "unsigned integer settings
  values must fit in int64", is never reached. `ToInt64` has the wrap.
* GET of a block's settings answers 500 as a whole when one setting is a tensor or
  a complex number, which `pmt_value_to_json` refuses (kind `opaque`).
* `resolve_runtime_block` takes a block whose `name` is the target before one
  whose `unique_name` is; `README.md:167` and `docs/design.md:82` speak of the
  unique name only.
* A category is derived from an identifier by splitting it at "::" inside
  template arguments too (`gr4_block_catalog_provider.cpp:1184`); the result would
  be refused as a category that a block states itself
  (`is_sane_explicit_category`).
* `render_port_count` is not clamped to the limit of ports when the parameter that
  sizes a collection has no int as default: it is then the number of ports the
  block has (`PortsCanBeDrawn` allows for it). Float defaults that are not finite
  become null.
* `test/gr4_block_catalog_provider_test.cpp:144-160` expects `immutable` and
  `advanced` of every parameter of the built-in blocks; the code gives the first
  to `name` and `unique_name` only. The test is skipped without plugins.
* Port `out1` of a connection becomes 1 and `in1` stays a text
  (`gr4_runtime_manager.cpp:469`).
* GET /sessions answers 404 as a whole when a listed session is deleted before
  its streams are looked up; a settings request that races with a stop answers
  500 where one after the stop answers 409; a fetch may be answered by another
  session that was given the port after the unlock.
* A stop that throws something else than a `std::exception` leaves the session's
  object in `Stopping`, and no stop, restart or delete of that session succeeds
  any more.
* Likewise a loader that throws something else than a `std::exception` leaves the
  ports of that start allocated (fault `foreign_load`).
* A `stop()` before the listener is in its loop has no effect: `stopping_` is
  true then, and the listener sets it to false.
* A graph that keeps the contract can fail to be injected. `Unambiguous` names
  the condition: a block with its type in `id`, an `instance_name` and no
  `parameters.name` is planned under the instance name and normalised under its
  type; of two declaring blocks with one name only the first gets an endpoint;
  and a block that declares nothing gets the endpoint of a block whose name it
  shares.
* Of two blocks of one type the one with the longer identifier is listed
  (`block_catalog_service.cpp:46`). `test/block_catalog_service_test.cpp:89-92`
  expects `blocks.sources.signal_source_f` in the list although
  `blocks.sources.signal_source_f_alias` has the same type. Code and test disagree
  on what the best block is, and `ListingIgnoresOrder` takes no side: it says what
  is true under either, that the list depends on the blocks and not on the order in
  which they are met.
* A shared library that cannot be opened is passed over by the catalog and an
  error for the runtime, once and for all: such a server starts, lists blocks and
  can start no session. `RuntimeFailsForPassedOver` says that there is no other
  reason. A block whose reflection fails once is missing until the server is
  started again.

## Proofs

**SessionServiceProofs** proves, for any sets of sessions and threads, any
`Serves` and any `MaxTries >= 1`: `TypeCorrect`, `AtMostOneClaim`,
`ClaimNeverStale`, `NoSessionStuck`, `PhasesAreSound`, `ErrorsAreExplained`,
`AdmittedRequestsKeepTheirSession` and `ServiceRefinesLifecycle`. The argument is one inductive invariant, `GateInv`:
the properties `OneClaimPerSession`, `ClaimStaysValid`, `NoAbandonedClaim` and
`RestingPhaseAgrees` are not inductive one by one. That no two requests hold the
same session follows from the phase the first one left, that the phase is still
there follows from no second request having been admitted, and that the gate may
be trusted for a resting session needs the agreement of phase and record.
Besides these four, `GateInv` says which calls a request in the runtime can
still have (so that "idle" and "holding" cannot be confused). The two action
results, `AdmittedRequestsKeepTheirSession` and the step simulation of
`SessionLifecycle`, are proved action by action from `GateInv`: a gate of a
claiming operation is a `Claim`, a closing section is a `Complete`, everything
else stutters.

**Gr4RuntimeManagerProofs** proves, for any sessions, threads, streams, ports,
faults and for callers that need not take turns: `TypeCorrect`,
`MutexDiscipline`, `PortsNeverShared`, `UsedPortsStayAllocated` and
`BindingsAlwaysComplete`. `CallShape` says what each program point knows about
the locals (which operation, an object found or none, ports in hand or none);
with it `MutexHeldInside` is inductive, and with both `PortsSound` (exclusive,
allocated) is: a new port is outside `allocated`, which contains every port in
use, and a body can release or hand over ports because its thread alone is inside
the object. `ObjectsSound` relates an object's execution to its bindings.

For callers that take turns (`Gated = TRUE`: one lifecycle call of a session at a
time, which `ControlPlaneProofs` shows of the session service) it proves three
more, about what becomes of the ports:

* `UnmappedAlwaysEmpty`: an object that left the map has no execution and no
  port. `TurnsSound` is the invariant: of a session, one lifecycle call works; the
  object it holds is the mapped one until it erases it, and what it erases it has
  emptied. Without turns this is false: a start can fill the object between the stop
  of a destroy and its erasure.
* `OnlyFailedAllocationLeaks`: `NoPortLeaks`. A step loses a port only by dropping
  a binding without releasing it; `NextLeaks` goes through the steps and leaves one,
  a failing allocation. The fault `foreign_load` is excluded, since it does lose
  ports (the code catches `std::exception` only; see the hazards).
* `NoPortEverLost`: with neither of the two faults that lose ports and with
  `EnoughPorts` (as many ports as streams of all sessions' graphs, finitely many),
  no port is ever lost. Exhaustion is the other way an allocation fails, and it
  does not happen: while nothing is lost, each allocated port belongs to one
  stream of one session, and the stream that misses a port is a further one, so
  all ports taken would be more ports than streams (`AllocationSucceeds`, by the
  pigeonhole principle).

**StreamPlanProofs** proves, for any graphs of any number of blocks and any set
of transports: `TypeCorrect`, `DeclaredStreamsAreBound`, `SoundGraphsInjected`,
`EndpointsInjected` and `DescriptorsNameBlocks`. `PlanInv` says what each pass
leaves to the next. `DeclaredStreamsAreBound` needs to know what the planner's two
loops compute for a graph of any length: the fold of each is a sequence of turns
(`TurnsExist`, `TurnsAre`), an induction on the turns (`Induction`) shows that a
contract that holds has left out no error (`ContractIsSound`) and that the loop
of the plan then has every declaring block (`PlanOfSound`); `LoadedBlock` and
`TypesAgree` relate what the normaliser wrote to what the planner read, which is
where the empty `block` field comes out as the only difference. The weight of the
other theorems is in the lemmas on names: a block that says what
it is called has, after normalisation, the planner's name among its parameters;
names that differ before therefore differ after, the injector's search finds
exactly the binding of the block it is at, and writing an endpoint disturbs no
name. The only assumption is that blocks have positions (`GraphsAssumption`), so
that there is a first binding.

**ControlPlaneProofs** proves, for any sessions, threads, objects, ports, streams,
handlers and faults: `TypeCorrect`, `ServiceImplemented`, `RuntimeUsedInTurn`,
`StateMatchesRuntime`, `NoOrphans`, `StreamsAllOrNone`, `PortsNeverShared`,
`OnlyFailedAllocationLeaks`, `GateHolds`, `RefinesLifecycle` and
`QuiescentPortsReturned`. `PartsInv` is the
invariants of the two parts and the links between them (`Linked`: which runtime
call belongs to which request); with it each step of the whole is a step of each
part or none, which gives the two simulations, and with them the theorems of
`SessionService` and `Gr4RuntimeManager` hold of the composition: what is proved
of the gate (`GateHolds`, `RefinesLifecycle`) and of the ports (`PortsNeverShared`,
`OnlyFailedAllocationLeaks`) is proved of the whole, with the gate in the place of
`Gated`. What relates
the parts is `Settled`: while a request works, what its runtime calls have
brought about so far stands (`BroughtAbout`), because only the thread that has
claimed a session works on its object; when it commits, that becomes `AtRest`,
of which `RuntimeMatchesState` is the reading. `QuiescentPortsReturned` puts
these together: nothing was lost (`NoPortEverLost`, whose hypotheses it has), and
when no call is under way and no session runs, `AtRest` says that no object has a
binding, so nobody owns an allocated port. The other assumptions are those of the
parts, restated (`ServicePart`, `RuntimePart`), since a module that instantiates
another must show them.

**HttpServerProofs** proves, for any number of connections and callers of
`stop()`: `TypeCorrect`, `EveryThreadHasOneJoiner` and `NothingIsLeftBehind`.
`Held` says that the vector and the joiners' local vectors are disjoint and
together hold every running thread; `Ending` that one `stop()` at most has an
effect, and what it may rely on; `NoNewThreads` that none is started once the
listener has taken its last ones. The only assumption is that the listener is
not among the callers.

**BlockCatalogProofs** proves, for any libraries, blocks and reports:
`TypeCorrect`, `OnlySoundReports`, `SoundStart`, `BlameIsFound` and
`ListedInAnyOrder`. `Progress` says what `main` has found sound when it is at which
point, `Origin` that a block comes from a library that was loaded, `Reported` that
what is kept of a child is what a clean child sent. `ListedInAnyOrder` is about what a
loop computes, and its proof is an induction on the loop's turns, stated on a set
of numbers (`Induction`) because the library's induction theorems cannot be used:
the fold over the blocks in any order is a sequence of turns (`TurnsExist`
constructs it, `TurnsAre` describes it), and each turn keeps `ListsBest`, the list
having the best block so far of each type exactly once (`ListedKeepsBest`). As
`is_better_browse_entry` is a total order (`BetterIsAnOrder`), the best block is one,
and two orders list the same blocks (`BestAreTheSame`); `BeforeIsAnOrder` makes the sort well defined (`SortedLists`: the
number of blocks before a block is its place). `Sorted` is defined by that place
and not by the library's sorting operator, which the provers cannot look into.

**BlockSettingsProofs** proves, for any threads, blocks, numbers posted, width of
integers and identifiers: `TypeCorrect`, `SchedulerOutlivesExchange` and
`AnswersBelongToRequests`. `AnswersAreTrue` is not inductive: `OwnMessages` says
that a message that carries a waiting request's identifier is that request's and
the only one, `OwnReplies` the same of replies, and both rest on an identifier
being new when it is sent (`Unused`) and on the mutex that the waiting thread
holds (`WaiterHolds`).

**BlockReflectionProofs** proves, for any blocks, any width of int and any limit
of ports: `TypeCorrect`, `PortsAreDrawable`, `DefaultsAreTrue`,
`BodyIsReflection` and `SizesAreOwn`. The stages are functions of one another, so
`Stages`, which says of each stage what it has from the one before, is inductive;
`TypeOK` says what types the body has in the end and needs the conversions
(`DefaultTyped`: what JSON cannot express is null by then; `PortReadable`).
`RoundTrip` shows that parsing undoes writing, `ShownBody` gives with it the body
as a function of the block, and the properties follow by looking into that
function. It assumes that an absent field is told from every value
(`NoneAssumption`) and that blocks have legal counts of ports
(`ReflectionAssumption`).

Only model-checked: liveness (`EveryRequestAnswered`, `EveryRequestEnds`,
`ReadsDoNotWait`, `StopEnds`, `StartupEnds`, `SettingsRequestsEnd`, and the
fairness half of `ImplementsLifecycle`), which the provers do not treat. Every
invariant and every action property of a passing run is a theorem, two of them
under hypotheses that the run satisfies as well: `NoPortLeaks` for callers that
take turns and without `foreign_load`, `QuiescentHoldsNoPorts` with a port for every
stream and without the faults that lose one.

Three assumptions of the models are about code outside the repository: libraries
come back (fairness, above), the exceptions of the libraries' init functions are
`std::exception`s (any other one would leave the `call_once` of
`ensure_runtime_environment` to be tried again), and texts that name C++ types or
enumerators are UTF-8 (`Dumpable`).

## Not modelled

* The connections of a graph (port names to indices) and YAML: each is a function
  of one text, with nothing concurrent, remembered or related in it. The same goes
  for percent decoding and for how texts, floats and tensors of settings are
  converted.
* The copying of headers between the two servers, and the internal `httplib`
  server itself, which is external.
* The CLI (one request per process), `SessionStreamService` (a pass-through
  nobody calls), logging, times, and the destructor of the runtime manager, which
  runs when no request can.
* The stub runtime manager and the static catalog provider, which only tests and
  builds without GNU Radio use.
* Other processes: they may take a port between its allocation and the sink's
  bind.
* Children that are reflected in parallel: the code forks one at a time.

## What could be added

1. `StubRuntimeManager` against the same use as `Gr4RuntimeManager`.
2. Two sessions in one composition: they meet in the allocator and the maps
   only, for which the theorems hold with any number of them, but TLC's runs of
   `ControlPlane` have one.
3. Exhaustion in `QuiescentPortsReturned`: with fewer ports than streams an
   allocation that fails half-way does lose ports, so the result would be a bound
   on how many.
