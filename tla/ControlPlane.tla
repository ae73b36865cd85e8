---------------------------- MODULE ControlPlane ----------------------------
(***************************************************************************)
(* The control plane as a whole: the HTTP handlers, the session service    *)
(* with its repository, the block settings service and the runtime         *)
(* manager.  Threads of the HTTP server execute one request each.          *)
(*                                                                         *)
(* A runtime call of SessionService is a call of Gr4RuntimeManager here,   *)
(* made and answered by the same thread, and every step in between is an   *)
(* interleaving point.  On top there are the handlers that take more than  *)
(* one step of their own: GET /sessions and GET /sessions/{id} read the    *)
(* sessions first and look up the streams of each afterwards, and the      *)
(* settings routes check the state in the repository and then go to the    *)
(* runtime past the service's gate.                                        *)
(***************************************************************************)
EXTENDS Naturals, Sequences, FiniteSets

CONSTANTS Id, NoId, Thread, Serves, MaxTries,
          Res, NoRes, NoThread, Port, NoPort, Stream, NoStream, HttpStream,
          StreamsOf, Faults,
          Handles       \* Handles[t]: which multi-step handlers t is given

VARIABLES repo, lastError, phases, req,
          resources, heap, lock, allocated, rt,
          web           \* web[t]: the handler running in thread t

RuntimeCalls == {"prepare", "start", "stop", "destroy",
                 "plan", "fetch", "route", "settings"}

\* The parts, with what is proved of them.
Svc == INSTANCE SessionServiceProofs
Rt  == INSTANCE Gr4RuntimeManagerProofs WITH Gated <- TRUE, Calls <- RuntimeCalls

svcVars == <<repo, lastError, phases, req>>
rtVars  == <<resources, heap, lock, allocated, rt>>
vars    == <<repo, lastError, phases, req, resources, heap, lock, allocated, rt,
             web>>

Handler == {"one", "all", "settings"}

ASSUME HandlersAssumption == Handles \in [Thread -> SUBSET Handler]

\* What the parts assume of their constants.
ASSUME ServicePart ==
    /\ NoId \notin Id
    /\ Serves \in [Thread -> SUBSET Svc!Op]
    /\ MaxTries \in Nat \ {0}

ASSUME RuntimePart ==
    /\ NoRes \notin Res /\ NoThread \notin Thread /\ NoPort \notin Port
    /\ NoStream \notin Stream /\ NoId \notin Id
    /\ Res \cap Thread = {}
    /\ HttpStream \subseteq Stream
    /\ StreamsOf \in [Id -> SUBSET Stream]
    /\ Faults \subseteq Rt!Fault
    /\ TRUE \in BOOLEAN
    /\ RuntimeCalls \subseteq Rt!RtOp

\* seen: the states read at the beginning, of the sessions the response is
\* about.  todo: the sessions whose streams are still to be looked up.
\* arg: the stream a fetch or a websocket route asks for.
Web == [kind : Handler \cup {"none"}, seen : [Id -> Svc!State \cup {"absent"}],
        todo : SUBSET Id, id : Id \cup {NoId}, arg : Stream \cup {NoStream}]

Nothing == [i \in Id |-> "absent"]

Handling(kind, seen, todo, i, s) ==
    [kind |-> kind, seen |-> seen, todo |-> todo, id |-> i, arg |-> s]

NoHandler == Handling("none", Nothing, {}, NoId, NoStream)

TypeOK == Svc!TypeOK /\ Rt!TypeOK /\ web \in [Thread -> Web]

Init == Svc!Init /\ Rt!Init /\ web = [t \in Thread |-> NoHandler]

-----------------------------------------------------------------------------
(* Requests that are one call of SessionService.                            *)

Waiting(t) == web[t].kind = "none" /\ req[t].pc = "idle"

\* The response goes out: the sessions, or 404, 409 or 500.
End(t) == web' = [web EXCEPT ![t] = NoHandler]

\* The lifecycle routes and creation.
Request(t) ==
    /\ Waiting(t)
    /\ \/ Svc!CreateRefused(t)
       \/ \E i \in Id :
             \/ Svc!Create(t, i) \/ Svc!Start(t, i) \/ Svc!Stop(t, i)
             \/ Svc!Restart(t, i) \/ Svc!Remove(t, i)
             \/ Svc!Answered(t, "stop", i)
             \/ \E op \in Svc!ClaimingOp : \/ Svc!NotFound(t, op, i)
                                          \/ Svc!Refuse(t, op, i)
    /\ End(t)
    /\ UNCHANGED rtVars

\* GET .../streams/{stream}/http and .../ws.
StreamRequest(t) ==
    /\ Waiting(t)
    /\ \E op \in {"fetch", "route"}, i \in Id, s \in Stream :
          /\ Svc!Read(t, op, i) \/ Svc!NotFound(t, op, i) \/ Svc!Refuse(t, op, i)
          /\ web' = [web EXCEPT ![t] = Handling("none", Nothing, {}, NoId, s)]
    /\ UNCHANGED rtVars

-----------------------------------------------------------------------------
(* GET /sessions/{id} and GET /sessions.                                    *)

GetSession(t) ==
    /\ Waiting(t) /\ "one" \in Handles[t]
    /\ \E i \in Id :
          IF repo[i] = "absent"
            THEN End(t)
            ELSE LET seen == [Nothing EXCEPT ![i] = repo[i]]
                 IN  web' = [web EXCEPT ![t] =
                               Handling("one", seen, {i}, NoId, NoStream)]
    /\ UNCHANGED <<svcVars, rtVars>>

ListSessions(t) ==
    LET listed == {i \in Id : repo[i] # "absent"}
    IN  /\ Waiting(t) /\ "all" \in Handles[t]
        /\ IF listed = {}
             THEN End(t)
             ELSE web' = [web EXCEPT ![t] =
                            Handling("all", repo, listed, NoId, NoStream)]
        /\ UNCHANGED <<svcVars, rtVars>>

\* The streams of i have been looked up; the response goes out after the last.
LookedUp(t, i) ==
    IF web[t].todo = {i} THEN End(t)
    ELSE web' = [web EXCEPT ![t].todo = @ \ {i}]

\* active_stream_plan for the next session of the response (the code goes
\* through them by creation time, here in any order).
LookUpStreams(t) ==
    /\ web[t].kind \in {"one", "all"} /\ req[t].pc = "idle"
    /\ \E i \in web[t].todo :
          \/ Svc!Read(t, "plan", i) /\ UNCHANGED web
          \/ Svc!Answered(t, "plan", i) /\ LookedUp(t, i)
          \/ Svc!NotFound(t, "plan", i) /\ End(t)
    /\ UNCHANGED rtVars

-----------------------------------------------------------------------------
(* GET and POST .../settings: BlockSettingsService asks the repository only. *)

\* The session does not run, or the body is no map of settings; or the runtime
\* will be called.
Settings(t) ==
    /\ Waiting(t) /\ "settings" \in Handles[t]
    /\ \/ End(t)
       \/ \E i \in Id :
             /\ repo[i] = "running"
             /\ web' = [web EXCEPT ![t] =
                           Handling("settings", Nothing, {}, i, NoStream)]
    /\ UNCHANGED <<svcVars, rtVars>>

CallSettings(t) ==
    /\ web[t].kind = "settings"
    /\ Rt!Call(t, "settings", web[t].id, NoStream)
    /\ UNCHANGED <<svcVars, web>>

\* Mutant: a failed settings request marks the session as failed.
SettingsFailureRecorded(t) ==
    /\ web[t].kind = "settings"
    /\ Rt!Return(t)
    /\ End(t)
    /\ repo' = IF rt[t].outcome = "ok" THEN repo
               ELSE [repo EXCEPT ![web[t].id] = "error"]
    /\ UNCHANGED <<lastError, phases, req>>

SettingsAnswered(t) ==
    /\ web[t].kind = "settings"
    /\ Rt!Return(t)
    /\ End(t)
    /\ UNCHANGED svcVars

-----------------------------------------------------------------------------
(* The service calls the runtime and takes its answer.                      *)

CallRuntime(t) ==
    /\ Svc!InRuntime(t)
    /\ Rt!Call(t, Head(req[t].calls), req[t].id, web[t].arg)
    /\ UNCHANGED <<svcVars, web>>

RuntimeAnswers(t) ==
    /\ Svc!InRuntime(t)
    /\ Rt!Return(t)
    /\ \/ rt[t].outcome = "ok" /\ Svc!RuntimeReturns(t)
       \/ rt[t].outcome = "throw" /\ Svc!RuntimeThrows(t)
       \/ rt[t].outcome = "unreachable"
          /\ IF req[t].tries + 1 < MaxTries
               THEN Svc!FetchRetries(t) ELSE Svc!RuntimeThrows(t)
    /\ IF req[t].op = "plan"
         THEN IF rt[t].outcome = "ok" THEN LookedUp(t, req[t].id) ELSE End(t)
         ELSE UNCHANGED web

RuntimeSteps(t) == Rt!Step(t) /\ UNCHANGED <<svcVars, web>>

Commit(t) == Svc!Commit(t) /\ UNCHANGED <<rtVars, web>>

-----------------------------------------------------------------------------
Ask(t) ==
    \/ Request(t) \/ StreamRequest(t) \/ GetSession(t) \/ ListSessions(t)
    \/ Settings(t)

Serve(t) ==
    \/ LookUpStreams(t) \/ CallSettings(t) \/ SettingsAnswered(t)
    \/ CallRuntime(t) \/ RuntimeAnswers(t) \/ Commit(t)

Next == \E t \in Thread : Ask(t) \/ Serve(t) \/ RuntimeSteps(t)

\* A thread in a request keeps running and the libraries come back, except for
\* the scheduler's stop, which is fair only in Spec; a released mutex is not
\* withheld from one waiter for ever.
FairButTeardown ==
    \A t \in Thread :
        /\ WF_vars(Serve(t))
        /\ WF_vars(Rt!Advance(t) /\ UNCHANGED <<svcVars, web>>)
        /\ SF_vars(Rt!Body(t) /\ UNCHANGED <<svcVars, web>>)

FairTeardown ==
    \A t \in Thread : WF_vars(Rt!Teardown(t) /\ UNCHANGED <<svcVars, web>>)

Spec == Init /\ [][Next]_vars /\ FairButTeardown /\ FairTeardown

\* scheduler->stop() may take for ever.
SlowStopSpec == Init /\ [][Next]_vars /\ FairButTeardown

-----------------------------------------------------------------------------
(* Properties.                                                              *)

\* At rest the runtime is what the public state says.  "running": the
\* session's object is in the map, its scheduler runs and every stream of the
\* graph is bound.  "stopped": no execution and no ports.  Deleted: no object.
\* (In "error" the runtime may hold anything until a stop or a remove.)
RuntimeMatchesState ==
    \A i \in Id : phases[i] \notin Svc!Moving =>
        LET r == resources[i]
        IN  /\ repo[i] = "absent" => r = NoRes
            /\ repo[i] = "running" =>
                  /\ r # NoRes /\ heap[r].id = i /\ Rt!Live(r)
                  /\ Rt!Bound(heap[r].bindings) = StreamsOf[i]
            /\ repo[i] = "stopped" /\ r # NoRes =>
                  heap[r].exec = "none" /\ Rt!Bound(heap[r].bindings) = {}

\* Nothing runs, and no port is bound, outside the map: whatever the service
\* does, a live execution can still be found and stopped.
NoOrphanExecution == Rt!UnmappedIsEmpty

\* The streams a GET advertises are all of the session's or none.
AdvertisedComplete ==
    \A t \in Thread :
        req[t].op = "plan" /\ rt[t].pc = "done"
            => rt[t].streams \in {{}, StreamsOf[req[t].id]}

\* When nothing is going on and no session is running or in error, the
\* allocator has every port back.
QuiescentHoldsNoPorts ==
    (/\ \A i \in Id : repo[i] \in {"absent", "stopped"}
     /\ \A t \in Thread : req[t].pc = "idle" /\ rt[t].pc = "idle")
        => allocated = {}

\* The service of this system is the SessionService specified on its own: the
\* runtime's answers are among those it was proved correct for.
ImplementsService == Svc!Init /\ [][Svc!Next]_svcVars

\* The runtime is used the way Gr4RuntimeManager was checked: lifecycle calls
\* for one session one at a time.
UsesRuntimeInTurn == Rt!Init /\ [][Rt!Next]_rtVars

\* Every request ends, whatever it waits for on the way.
EveryRequestEnds ==
    \A t \in Thread : ~ Waiting(t) ~> Waiting(t)

-----------------------------------------------------------------------------
(* What the documents say and the code does not keep.                       *)

\* GET /sessions and GET /sessions/{id} do not wait for a slow stop.
ReadsDoNotWait ==
    \A t \in Thread : web[t].kind \in {"one", "all"} ~> web[t].kind = "none"
=============================================================================
