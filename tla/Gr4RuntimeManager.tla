------------------------- MODULE Gr4RuntimeManager --------------------------
(***************************************************************************)
(* runtime::Gr4RuntimeManager and its StreamBindingAllocator.              *)
(*                                                                         *)
(* The manager maps a session to a shared resource object: the execution   *)
(* (graph and scheduler), the loopback ports its streams are bound to and  *)
(* a lifecycle phase, behind a mutex of its own.  A call first finds (or   *)
(* creates) the object under the map's mutex, lets go of that, and then    *)
(* locks the object, so the object it locks may no longer be the one in    *)
(* the map.  The object's mutex is held for the whole of scheduler start   *)
(* and stop and for the whole of a block-settings round trip; a stream     *)
(* fetch copies the port, unlocks, and only then talks to it.              *)
(*                                                                         *)
(* Callers are threads that make any call at any time; with Gated they     *)
(* make lifecycle calls for one session one at a time, as SessionService   *)
(* does.  ControlPlane.tla has the calls the service really makes.         *)
(* The scheduler, the graph loader and the sockets are external: they      *)
(* succeed or fail as Faults allows.                                       *)
(***************************************************************************)
EXTENDS Naturals, FiniteSets

CONSTANTS
    Id, Thread,
    Res, NoRes,        \* resource objects; enough for every map entry and call
    NoThread,          \* "mutex free"
    Port, NoPort,      \* loopback ports
    Stream, NoStream,  \* stream ids
    HttpStream,        \* those with an HTTP transport; the others: websocket
    StreamsOf,         \* StreamsOf[i]: the streams session i's graph asks for
    Faults,            \* what may go wrong outside (a bound)
    Gated,             \* do callers serialise lifecycle calls per session?
    Calls,             \* the calls that are made (a bound)
    NoId

Fault == {"contract",  \* the stream contract of the graph is violated
          "alloc",     \* an ephemeral port cannot be had although some are free
          "load",      \* loading the graph or finding the scheduler throws
          "start",     \* scheduler->start() throws
          "stop",      \* scheduler->stop() throws a std::exception
          "foreign_load", "foreign_stop",     \* ... something else
          "settings"}  \* unknown block, error reply or no reply within 1 s

Preparing == {"prepare", "start"}
Halting   == {"stop", "destroy"}
Reading   == {"plan", "fetch", "route", "settings"}
RtOp      == Preparing \cup Halting \cup Reading

ASSUME RuntimeAssumption ==
    /\ NoRes \notin Res /\ NoThread \notin Thread /\ NoPort \notin Port
    /\ NoStream \notin Stream /\ NoId \notin Id
    /\ Res \cap Thread = {}
    /\ HttpStream \subseteq Stream
    /\ StreamsOf \in [Id -> SUBSET Stream]
    /\ Faults \subseteq Fault
    /\ Gated \in BOOLEAN
    /\ Calls \subseteq RtOp

VARIABLES
    resources,    \* resources_: the object of each session, or NoRes
    heap,         \* heap[r]: the SessionRuntimeResources object r
    lock,         \* lock[r]: the thread that holds r's mutex
    allocated,    \* StreamBindingAllocator::allocated_ports_
    rt            \* rt[t]: the runtime call thread t is executing

vars == <<resources, heap, lock, allocated, rt>>

Bindings   == [Stream -> Port \cup {NoPort}]
NoBindings == [s \in Stream |-> NoPort]
PortsOf(b) == {b[s] : s \in Stream} \ {NoPort}
Bound(b)   == {s \in Stream : b[s] # NoPort}

\* exec: no execution, one that is built, or one whose scheduler was started.
Resource == [id : Id \cup {NoId},
             phase : {"Idle", "Starting", "Running", "Stopping", "Failed"},
             exec : {"none", "built", "running"}, bindings : Bindings]

FreshResource(i) ==
    [id |-> i, phase |-> "Idle", exec |-> "none", bindings |-> NoBindings]

\* res: the object found.  got: the ports allocated so far by this prepare, or
\* the port copied by a fetch.  outcome, and the streams a plan found, are
\* there when pc is "done".
RtCall == [op : RtOp \cup {"none"}, id : Id \cup {NoId},
           arg : Stream \cup {NoStream},
           pc : {"idle", "find", "lock", "alloc", "starting",
                 "stopping", "erase", "get", "settings", "done"},
           res : Res \cup {NoRes}, got : Bindings,
           outcome : {"none", "ok", "throw", "unreachable"},
           streams : SUBSET Stream]

\* A call that holds neither an object nor ports.
Detached(op, i, s, pc, outcome, streams) ==
    [op |-> op, id |-> i, arg |-> s, pc |-> pc, res |-> NoRes,
     got |-> NoBindings, outcome |-> outcome, streams |-> streams]

NoCall == Detached("none", NoId, NoStream, "idle", "none", {})

TypeOK ==
    /\ resources \in [Id -> Res \cup {NoRes}]
    /\ heap \in [Res -> Resource]
    /\ lock \in [Res -> Thread \cup {NoThread}]
    /\ allocated \subseteq Port
    /\ rt \in [Thread -> RtCall]

Init ==
    /\ resources = [i \in Id |-> NoRes]
    /\ heap      = [r \in Res |-> FreshResource(NoId)]
    /\ lock      = [r \in Res |-> NoThread]
    /\ allocated = {}
    /\ rt        = [t \in Thread |-> NoCall]

-----------------------------------------------------------------------------
(* Call, return, and the steps of a call's program.                         *)

At(t, pc) == rt[t].pc = pc

Goto(t, pc) == rt' = [rt EXCEPT ![t].pc = pc]

FinishWith(t, outcome, streams) ==
    rt' = [rt EXCEPT ![t] = Detached("none", NoId, NoStream, "done",
                                     outcome, streams)]

Finish(t, outcome) == FinishWith(t, outcome, {})

Call(t, op, i, s) ==
    /\ At(t, "idle")
    /\ rt' = [rt EXCEPT ![t] = Detached(op, i, s, "find", "none", {})]
    /\ UNCHANGED <<resources, heap, lock, allocated>>

Return(t) ==
    /\ At(t, "done")
    /\ rt' = [rt EXCEPT ![t] = NoCall]
    /\ UNCHANGED <<resources, heap, lock, allocated>>

\* shared_ptr: an object lives while the map or a call refers to it.
Unreferenced(r) ==
    /\ \A i \in Id : resources[i] # r
    /\ \A t \in Thread : rt[t].res # r

\* get_or_create_resources and find_resources, under the map's mutex.
Find(t) ==
    LET i == rt[t].id
        Found(r) == rt' = [rt EXCEPT ![t].pc = "lock", ![t].res = r]
    IN  /\ At(t, "find")
        /\ \/ /\ resources[i] # NoRes
              /\ Found(resources[i])
              /\ UNCHANGED <<resources, heap>>
           \/ /\ resources[i] = NoRes /\ rt[t].op \in Preparing
              /\ \E r \in Res :
                    /\ Unreferenced(r)
                    /\ resources' = [resources EXCEPT ![i] = r]
                    /\ heap' = [heap EXCEPT ![r] = FreshResource(i)]
                    /\ Found(r)
           \/ /\ resources[i] = NoRes /\ rt[t].op \notin Preparing
              /\ Finish(t, IF rt[t].op \in Halting \cup {"plan"}
                             THEN "ok" ELSE "throw")
              /\ UNCHANGED <<resources, heap>>
        /\ UNCHANGED <<lock, allocated>>

\* A section under the object's mutex begins when the mutex is free ...
Enter(t, ops) ==
    /\ At(t, "lock")
    /\ rt[t].op \in ops
    /\ lock[rt[t].res] = NoThread

\* ... is kept across the steps of a slow body ...
Keep(t) == lock' = [lock EXCEPT ![rt[t].res] = t]

\* ... and ends with the body, normally or by an exception.
Unlock(t) == lock' = [lock EXCEPT ![rt[t].res] = NoThread]

Set(t, phase, exec, bindings) ==
    heap' = [heap EXCEPT ![rt[t].res] = [id |-> @.id, phase |-> phase,
                                         exec |-> exec, bindings |-> bindings]]

R(t) == heap[rt[t].res]

-----------------------------------------------------------------------------
(* prepare and start.                                                       *)

\* prepare_locked refuses while a teardown is under way.
PrepareRefused(t) ==
    /\ Enter(t, Preparing)
    /\ R(t).phase = "Stopping"
    /\ Finish(t, "throw")
    /\ UNCHANGED <<resources, heap, lock, allocated>>

\* An execution that is there is used again, with its bindings; start then
\* starts its scheduler unless it is running.
Reuse(t) ==
    /\ Enter(t, Preparing)
    /\ R(t).phase # "Stopping" /\ R(t).exec # "none"
    /\ IF rt[t].op = "start" /\ ~ (R(t).exec = "running" /\ R(t).phase = "Running")
         THEN /\ Set(t, "Starting", R(t).exec, R(t).bindings)
              /\ Keep(t)
              /\ Goto(t, "starting")
         ELSE /\ Finish(t, "ok")
              /\ UNCHANGED <<heap, lock>>
    /\ UNCHANGED <<resources, allocated>>

ContractViolated(t) ==
    /\ "contract" \in Faults
    /\ Enter(t, Preparing)
    /\ R(t).phase # "Stopping" /\ R(t).exec = "none"
    /\ Finish(t, "throw")
    /\ UNCHANGED <<resources, heap, lock, allocated>>

PrepareBegins(t) ==
    /\ Enter(t, Preparing)
    /\ R(t).phase # "Stopping" /\ R(t).exec = "none"
    /\ allocated' = allocated \ PortsOf(R(t).bindings)
    /\ Set(t, R(t).phase, "none", NoBindings)
    /\ Keep(t)
    /\ Goto(t, "alloc")
    /\ UNCHANGED resources

\* Mutant: the websocket streams are forgotten.
MissingHttp(t) == (StreamsOf[rt[t].id] \cap HttpStream) \ Bound(rt[t].got)

Missing(t) == StreamsOf[rt[t].id] \ Bound(rt[t].got)

\* Mutant: ports handed out before are not looked at.
AllocateAnyPort(t) ==
    /\ At(t, "alloc")
    /\ \E s \in Missing(t), p \in Port :
          /\ rt' = [rt EXCEPT ![t].got[s] = p]
          /\ allocated' = allocated \cup {p}
    /\ UNCHANGED <<resources, heap, lock>>

\* Mutant: port 0 of a failed getsockname is taken for a port.
AllocatePortZero(t) ==
    /\ At(t, "alloc")
    /\ \E s \in Missing(t), p \in (Port \ allocated) \cup {NoPort} :
          /\ rt' = [rt EXCEPT ![t].got[s] = p]
          /\ allocated' = allocated \cup {p}
    /\ UNCHANGED <<resources, heap, lock>>

\* StreamBindingAllocator: a port the system hands out and nobody here owns.
AllocatePort(t) ==
    /\ At(t, "alloc")
    /\ \E s \in Missing(t), p \in Port \ allocated :
          /\ rt' = [rt EXCEPT ![t].got[s] = p]
          /\ allocated' = allocated \cup {p}
    /\ UNCHANGED <<resources, heap, lock>>

\* 64 attempts hit allocated ports, or the socket calls fail.  The allocations
\* are outside the try block: what was allocated so far is not released.
AllocationFails(t) ==
    /\ At(t, "alloc")
    /\ Missing(t) # {}
    /\ "alloc" \in Faults \/ Port \subseteq allocated
    /\ Finish(t, "throw")
    /\ Unlock(t)
    /\ UNCHANGED <<resources, heap, allocated>>

LoadGraph(t) ==
    /\ At(t, "alloc")
    /\ Missing(t) = {}
    /\ IF rt[t].op = "start"
         THEN /\ Set(t, "Starting", "built", rt[t].got)
              /\ rt' = [rt EXCEPT ![t].pc = "starting", ![t].got = NoBindings]
              /\ UNCHANGED lock
         ELSE /\ Set(t, "Idle", "built", rt[t].got)
              /\ Finish(t, "ok")
              /\ Unlock(t)
    /\ UNCHANGED <<resources, allocated>>

\* Mutant: the catch block does not release the ports.
LoadFailureLeaks(t) ==
    /\ At(t, "alloc")
    /\ Missing(t) = {}
    /\ {"load", "foreign_load"} \cap Faults # {}
    /\ Finish(t, "throw")
    /\ Unlock(t)
    /\ UNCHANGED <<resources, heap, allocated>>

\* Only a std::exception is caught, and then the ports are released.
LoadFails(t) ==
    /\ At(t, "alloc")
    /\ Missing(t) = {}
    /\ \/ "load" \in Faults /\ allocated' = allocated \ PortsOf(rt[t].got)
       \/ "foreign_load" \in Faults /\ UNCHANGED allocated
    /\ Finish(t, "throw")
    /\ Unlock(t)
    /\ UNCHANGED <<resources, heap>>

SchedulerStarts(t) ==
    /\ At(t, "starting")
    /\ Set(t, "Running", "running", R(t).bindings)
    /\ Finish(t, "ok")
    /\ Unlock(t)
    /\ UNCHANGED <<resources, allocated>>

\* Mutant: the mutex is unlocked by hand, and not on this path.
StartFailureKeepsLock(t) ==
    /\ "start" \in Faults
    /\ At(t, "starting")
    /\ Finish(t, "throw")
    /\ UNCHANGED <<resources, heap, lock, allocated>>

\* Nothing catches this one: the phase stays "Starting".
SchedulerStartFails(t) ==
    /\ "start" \in Faults
    /\ At(t, "starting")
    /\ Finish(t, "throw")
    /\ Unlock(t)
    /\ UNCHANGED <<resources, heap, allocated>>

-----------------------------------------------------------------------------
(* stop and destroy: stop_locked, and for destroy the removal of the entry. *)

AfterTeardown(t) ==
    IF rt[t].op = "destroy" THEN Goto(t, "erase") ELSE Finish(t, "ok")

NothingRuns(t) ==
    /\ Enter(t, Halting)
    /\ R(t).exec = "none"
    /\ allocated' = allocated \ PortsOf(R(t).bindings)
    /\ Set(t, "Idle", "none", NoBindings)
    /\ AfterTeardown(t)
    /\ UNCHANGED <<resources, lock>>

StopRefused(t) ==
    /\ Enter(t, Halting)
    /\ R(t).exec # "none" /\ R(t).phase = "Stopping"
    /\ Finish(t, "throw")
    /\ UNCHANGED <<resources, heap, lock, allocated>>

StopBegins(t) ==
    /\ Enter(t, Halting)
    /\ R(t).exec # "none" /\ R(t).phase # "Stopping"
    /\ Set(t, "Stopping", R(t).exec, R(t).bindings)
    /\ Keep(t)
    /\ Goto(t, "stopping")
    /\ UNCHANGED <<resources, allocated>>

\* Mutant: the mutex is unlocked by hand, and not on this path.
TeardownKeepsLock(t) ==
    /\ At(t, "stopping")
    /\ allocated' = allocated \ PortsOf(R(t).bindings)
    /\ Set(t, "Idle", "none", NoBindings)
    /\ AfterTeardown(t)
    /\ UNCHANGED <<resources, lock>>

\* scheduler->stop() returned, or there was nothing running to stop.
TeardownCompletes(t) ==
    /\ At(t, "stopping")
    /\ allocated' = allocated \ PortsOf(R(t).bindings)
    /\ Set(t, "Idle", "none", NoBindings)
    /\ AfterTeardown(t)
    /\ Unlock(t)
    /\ UNCHANGED resources

\* Mutant: the ports are released although the execution stays.
StopFailureReleases(t) ==
    /\ At(t, "stopping")
    /\ R(t).exec = "running"
    /\ "stop" \in Faults
    /\ Set(t, "Failed", "running", R(t).bindings)
    /\ allocated' = allocated \ PortsOf(R(t).bindings)
    /\ Finish(t, "throw")
    /\ Unlock(t)
    /\ UNCHANGED resources

\* A std::exception leaves "Failed", anything else leaves "Stopping".
SchedulerStopFails(t) ==
    /\ At(t, "stopping")
    /\ R(t).exec = "running"
    /\ \/ "stop" \in Faults /\ Set(t, "Failed", "running", R(t).bindings)
       \/ "foreign_stop" \in Faults /\ UNCHANGED heap
    /\ Finish(t, "throw")
    /\ Unlock(t)
    /\ UNCHANGED <<resources, allocated>>

\* The object's mutex is free again by now; the entry goes only if it still
\* is this object.
EraseEntry(t) ==
    /\ At(t, "erase")
    /\ resources' = IF resources[rt[t].id] = rt[t].res
                      THEN [resources EXCEPT ![rt[t].id] = NoRes]
                      ELSE resources
    /\ Finish(t, "ok")
    /\ UNCHANGED <<heap, lock, allocated>>

-----------------------------------------------------------------------------
(* The reads.                                                               *)

Live(r) == heap[r].exec = "running" /\ heap[r].phase = "Running"

ActiveStreamPlan(t) ==
    /\ Enter(t, {"plan"})
    /\ FinishWith(t, "ok", IF Live(rt[t].res) THEN Bound(R(t).bindings) ELSE {})
    /\ UNCHANGED <<resources, heap, lock, allocated>>

ResolveWebsocketStream(t) ==
    /\ Enter(t, {"route"})
    /\ LET found == Live(rt[t].res)
                    /\ rt[t].arg \in Bound(R(t).bindings) \ HttpStream
       IN  Finish(t, IF found THEN "ok" ELSE "throw")
    /\ UNCHANGED <<resources, heap, lock, allocated>>

\* The port is copied, the mutex and the object are let go, ...
FetchHttpStream(t) ==
    LET s     == rt[t].arg
        found == Live(rt[t].res) /\ s \in Bound(R(t).bindings) \cap HttpStream
    IN  /\ Enter(t, {"fetch"})
        /\ IF found
             THEN rt' = [rt EXCEPT ![t].pc = "get", ![t].res = NoRes,
                                   ![t].got[s] = R(t).bindings[s]]
             ELSE Finish(t, "throw")
        /\ UNCHANGED <<resources, heap, lock, allocated>>

\* ... and whoever listens on that port now answers the request, of whatever
\* session it is.
FetchAnswered(t) ==
    /\ At(t, "get")
    /\ \E r \in Res, s \in Stream :
          /\ ~ Unreferenced(r)
          /\ heap[r].exec = "running"
          /\ heap[r].bindings[s] = rt[t].got[rt[t].arg]
    /\ Finish(t, "ok")
    /\ UNCHANGED <<resources, heap, lock, allocated>>

\* No connection within 1 s or no answer within 2 s.
FetchUnreachable(t) ==
    /\ At(t, "get")
    /\ Finish(t, "unreachable")
    /\ UNCHANGED <<resources, heap, lock, allocated>>

\* get_block_settings and set_block_settings wait for the block's reply with
\* the object's mutex held.
SettingsBegin(t) ==
    /\ Enter(t, {"settings"})
    /\ IF Live(rt[t].res)
         THEN Keep(t) /\ Goto(t, "settings")
         ELSE UNCHANGED lock /\ Finish(t, "throw")
    /\ UNCHANGED <<resources, heap, allocated>>

\* The block takes the settings; or there is no such block, it answers with an
\* error, or its reply does not come within the second that is waited for it.
SettingsReply == {"ok"} \cup IF "settings" \in Faults THEN {"throw"} ELSE {}

SettingsEnd(t) ==
    /\ At(t, "settings")
    /\ \E outcome \in SettingsReply : Finish(t, outcome)
    /\ Unlock(t)
    /\ UNCHANGED <<resources, heap, allocated>>

-----------------------------------------------------------------------------
\* The steps that wait for nobody but the object's mutex ...
Body(t) ==
    \/ PrepareRefused(t) \/ Reuse(t) \/ ContractViolated(t) \/ PrepareBegins(t)
    \/ NothingRuns(t) \/ StopRefused(t) \/ StopBegins(t)
    \/ ActiveStreamPlan(t) \/ ResolveWebsocketStream(t) \/ FetchHttpStream(t)
    \/ SettingsBegin(t)

\* ... and the others.
Advance(t) ==
    \/ Find(t) \/ EraseEntry(t)
    \/ AllocatePort(t) \/ AllocationFails(t) \/ LoadGraph(t) \/ LoadFails(t)
    \/ SchedulerStarts(t) \/ SchedulerStartFails(t)
    \/ FetchAnswered(t) \/ FetchUnreachable(t) \/ SettingsEnd(t)

Teardown(t) == TeardownCompletes(t) \/ SchedulerStopFails(t)

Step(t) == Body(t) \/ Advance(t) \/ Teardown(t)

Arguments(op) ==
    IF op \in {"fetch", "route"} THEN Stream ELSE {NoStream}

\* What SessionService!OneClaimPerSession promises.
Admitted(op, i) ==
    Gated /\ op \in Preparing \cup Halting =>
        \A u \in Thread : rt[u].id = i => rt[u].op \in Reading

Next ==
    \E t \in Thread :
        \/ Step(t) \/ Return(t)
        \/ \E op \in Calls, i \in Id : \E s \in Arguments(op) :
              Admitted(op, i) /\ Call(t, op, i, s)

\* ControlPlane.tla says which of these steps are fair.
Spec == Init /\ [][Next]_vars

-----------------------------------------------------------------------------
(* Properties.                                                              *)

\* The bindings of an object, or those a prepare is still making.
Held(o) == IF o \in Res THEN heap[o].bindings
           ELSE IF At(o, "alloc") THEN rt[o].got ELSE NoBindings

\* No loopback port is bound to two streams, of one session or of two, in
\* finished bindings or in bindings being made.
PortsExclusive ==
    \A o, q \in Res \cup Thread, s, u \in Stream :
        Held(o)[s] # NoPort /\ Held(o)[s] = Held(q)[u] => o = q /\ s = u

\* A port in use is in the allocator's set: nothing is released too early.
UsedPortsAllocated ==
    \A o \in Res \cup Thread : PortsOf(Held(o)) \subseteq allocated

\* Allocated ports that nobody uses and nobody will release.
Leaked == allocated \ UNION {PortsOf(Held(o)) : o \in Res \cup Thread}

\* Nothing is released too late either: only an allocation that fails half-way
\* ever loses a port (an exception that is no std::exception apart).
NoPortLeaks ==
    [][\/ Leaked' \subseteq Leaked
       \/ \E t \in Thread :
             At(t, "alloc") /\ Missing(t) # {} /\ rt'[t].pc = "done"]_vars

\* An execution comes with all the bindings its session's graph asks for, and
\* bindings only with an execution: streams[] is never partial.
BindingsComplete ==
    \A r \in Res :
        Bound(heap[r].bindings) =
            IF heap[r].exec = "none" THEN {} ELSE StreamsOf[heap[r].id]

Inside == {"alloc", "starting", "stopping", "settings"}

\* The object's mutex is held by a thread exactly while that thread is in the
\* middle of a body: no path out of one forgets the unlock, and nobody works
\* on an object without it.
MutexHeldInside ==
    \A t \in Thread, r \in Res :
        lock[r] = t <=> rt[t].res = r /\ rt[t].pc \in Inside

\* An object that left the map has no execution and holds no port: nothing
\* keeps running, or bound, where no later call can find it.
UnmappedIsEmpty ==
    \A r \in Res :
        (\A i \in Id : resources[i] # r)
            => heap[r].exec = "none" /\ Bound(heap[r].bindings) = {}

\* After a stop that failed, a new start does not run on the bindings of the
\* generation that was to be stopped.
NoReuseAfterFailedStop ==
    [][\A r \in Res :
          heap[r].phase = "Failed" /\ heap'[r].phase = "Starting"
              => heap'[r].bindings # heap[r].bindings \/ Bound(heap[r].bindings) = {}]_vars
=============================================================================
