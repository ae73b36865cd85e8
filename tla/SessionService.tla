--------------------------- MODULE SessionService ---------------------------
(***************************************************************************)
(* app::SessionService over the in-memory repository: the lifecycle gate.  *)
(*                                                                         *)
(* A lifecycle request takes the service mutex twice, once to pass the     *)
(* gate and claim the session (phase Starting or Stopping) and once to     *)
(* commit what happened; in between it calls the runtime WITHOUT the       *)
(* mutex, using the copy of the session it read at the gate.  Everything   *)
(* the service guarantees rests on what other requests may do in that gap. *)
(* Each section under the mutex is one action.  What the runtime does is   *)
(* left open here: a call returns or throws.  ControlPlane.tla plugs in    *)
(* the runtime manager.                                                    *)
(***************************************************************************)
EXTENDS Naturals, Sequences

CONSTANTS
    Id,            \* session identifiers
    NoId,          \* "no session"
    Thread,        \* request threads of the HTTP server
    Serves,        \* Serves[t]: the operations thread t is asked for (a bound)
    MaxTries       \* kTransientFetchRetries (20 in the code)

ClaimingOp == {"start", "stop", "restart", "remove"}
RunningOp  == {"plan", "fetch", "route"}       \* reads that go to the runtime
PlainOp    == {"create", "get", "list"}        \* never leave the service
Op         == ClaimingOp \cup RunningOp \cup PlainOp

ASSUME ServiceAssumption ==
    /\ NoId \notin Id
    /\ Serves \in [Thread -> SUBSET Op]
    /\ MaxTries \in Nat \ {0}

VARIABLES
    repo,          \* repo[i]: Session.state of the stored record, or "absent"
    lastError,     \* lastError[i]: Session.last_error is set
    phases,        \* SessionService::phases_, "None" where there is no entry
    req            \* req[t]: the request thread t is executing

vars == <<repo, lastError, phases, req>>

State   == {"stopped", "running", "error"}
Phase   == {"Idle", "Starting", "Running", "Stopping", "Failed"}
Moving  == {"Starting", "Stopping"}            \* an operation is under way
Call    == {"prepare", "start", "stop", "destroy"} \cup RunningOp
Answer  == {"none", "ok", "validation_error", "not_found", "invalid_state",
            "runtime_error"}

\* op, id: what was asked.  pc: "idle", in the runtime ("calling") or about to
\* record a failure ("failing").  seen: the state in the copy of the session
\* read at the gate.  calls: the runtime calls still to make.  tries: fetches
\* that already failed.  answer: the outcome of the last finished request.
Request == [op : Op \cup {"none"}, id : Id \cup {NoId},
            pc : {"idle", "calling", "failing"},
            seen : State \cup {"absent"}, calls : Seq(Call),
            tries : 0 .. MaxTries - 1, answer : Answer]

Idle(answer) ==
    [op |-> "none", id |-> NoId, pc |-> "idle", seen |-> "absent",
     calls |-> <<>>, tries |-> 0, answer |-> answer]

TypeOK ==
    /\ repo \in [Id -> State \cup {"absent"}]
    /\ lastError \in [Id -> BOOLEAN]
    /\ phases \in [Id -> Phase \cup {"None"}]
    /\ req \in [Thread -> Request]

Init ==
    /\ repo      = [i \in Id |-> "absent"]
    /\ lastError = [i \in Id |-> FALSE]
    /\ phases    = [i \in Id |-> "None"]
    /\ req       = [t \in Thread |-> Idle("none")]

-----------------------------------------------------------------------------
(* The sections under the mutex that open a request.                        *)

Asked(t, op) == req[t].pc = "idle" /\ op \in Serves[t]

Reply(t, answer) == req' = [req EXCEPT ![t] = Idle(answer)]

CallRuntime(t, op, i, calls) ==
    req' = [req EXCEPT ![t] = [op |-> op, id |-> i, pc |-> "calling",
                               seen |-> repo[i], calls |-> calls,
                               tries |-> 0, answer |-> "none"]]

Exists(i) == repo[i] # "absent"

\* phase_for_locked: the recorded phase, else the one the state implies.
PhaseForLocked(i) ==
    IF phases[i] # "None" THEN phases[i]
    ELSE CASE repo[i] = "stopped" -> "Idle"
           [] repo[i] = "running" -> "Running"
           [] OTHER               -> "Failed"

IsRunning(i) == repo[i] = "running" /\ PhaseForLocked(i) = "Running"

\* Mutant: a session that is being stopped is let through.
BarredIfStarting(op, i) ==
    CASE op = "start" -> repo[i] = "running" \/ PhaseForLocked(i) = "Starting"
      [] op \in {"stop", "restart", "remove"} -> PhaseForLocked(i) = "Starting"
      [] op \in {"fetch", "route"} -> ~ IsRunning(i)
      [] OTHER -> FALSE

\* Mutant: start looks at the public state only.
BarredByState(op, i) ==
    CASE op = "start" -> repo[i] = "running"
      [] op \in {"stop", "restart", "remove"} -> PhaseForLocked(i) \in Moving
      [] op \in {"fetch", "route"} -> ~ IsRunning(i)
      [] OTHER -> FALSE

\* Mutant: DELETE is always let through.
BarredButRemove(op, i) ==
    CASE op = "start" -> \/ repo[i] = "running"
                         \/ PhaseForLocked(i) \in Moving \cup {"Running"}
      [] op \in {"stop", "restart"} -> PhaseForLocked(i) \in Moving
      [] op \in {"fetch", "route"} -> ~ IsRunning(i)
      [] OTHER -> FALSE

\* When the gate answers "invalid state" to an existing session.
Barred(op, i) ==
    CASE op = "start" -> \/ repo[i] = "running"
                         \/ PhaseForLocked(i) \in Moving \cup {"Running"}
      [] op \in {"stop", "restart", "remove"} -> PhaseForLocked(i) \in Moving
      [] op \in {"fetch", "route"} -> ~ IsRunning(i)
      [] OTHER -> FALSE

\* stop of a session at rest in "stopped" answers at once.
NothingToStop(i) == repo[i] = "stopped" /\ PhaseForLocked(i) = "Idle"

\* A fresh identifier is drawn until the repository does not know it.
Create(t, i) ==
    /\ Asked(t, "create")
    /\ ~ Exists(i)
    /\ repo' = [repo EXCEPT ![i] = "stopped"]
    /\ lastError' = [lastError EXCEPT ![i] = FALSE]
    /\ phases' = [phases EXCEPT ![i] = "Idle"]
    /\ Reply(t, "ok")

\* Empty grc_content.
CreateRefused(t) ==
    /\ Asked(t, "create")
    /\ Reply(t, "validation_error")
    /\ UNCHANGED <<repo, lastError, phases>>

Claim(t, op, i, phase, calls) ==
    /\ Asked(t, op)
    /\ Exists(i)
    /\ ~ Barred(op, i)
    /\ phases' = [phases EXCEPT ![i] = phase]
    /\ CallRuntime(t, op, i, calls)
    /\ UNCHANGED <<repo, lastError>>

\* restart and remove stop the runtime first, but only if the record they read
\* says "running".
StopIfRunning(i) == IF repo[i] = "running" THEN <<"stop">> ELSE <<>>

Start(t, i) == Claim(t, "start", i, "Starting", <<"prepare", "start">>)

Stop(t, i) ==
    /\ ~ NothingToStop(i)
    /\ Claim(t, "stop", i, "Stopping", <<"stop">>)

\* Mutant: restart claims the session the way stop does.
RestartAsStopping(t, i) ==
    Claim(t, "restart", i, "Stopping",
          StopIfRunning(i) \o <<"destroy", "prepare", "start">>)

Restart(t, i) ==
    Claim(t, "restart", i, "Starting",
          StopIfRunning(i) \o <<"destroy", "prepare", "start">>)

\* Mutant: the runtime resources are left behind.
RemoveOnlyStops(t, i) == Claim(t, "remove", i, "Stopping", StopIfRunning(i))

Remove(t, i) ==
    Claim(t, "remove", i, "Stopping", StopIfRunning(i) \o <<"destroy">>)

\* active_stream_plan, fetch_http_stream and resolve_websocket_stream: the
\* gate wants a running session, claims nothing, and then calls the runtime.
Read(t, op, i) ==
    /\ op \in RunningOp
    /\ Asked(t, op)
    /\ Exists(i)
    /\ IsRunning(i)
    /\ CallRuntime(t, op, i, <<op>>)
    /\ UNCHANGED <<repo, lastError, phases>>

\* Requests answered under the mutex without any effect on the session.
Answered(t, op, i) ==
    /\ Asked(t, op)
    /\ Exists(i)
    /\ \/ op = "get"
       \/ op = "stop" /\ NothingToStop(i)
       \/ op = "plan" /\ ~ IsRunning(i)
    /\ Reply(t, "ok")
    /\ UNCHANGED <<repo, lastError, phases>>

List(t) ==
    /\ Asked(t, "list")
    /\ Reply(t, "ok")
    /\ UNCHANGED <<repo, lastError, phases>>

NotFound(t, op, i) ==
    /\ op \notin {"create", "list"}
    /\ Asked(t, op)
    /\ ~ Exists(i)
    /\ Reply(t, "not_found")
    /\ UNCHANGED <<repo, lastError, phases>>

Refuse(t, op, i) ==
    /\ Asked(t, op)
    /\ Exists(i)
    /\ Barred(op, i)
    /\ Reply(t, "invalid_state")
    /\ UNCHANGED <<repo, lastError, phases>>

-----------------------------------------------------------------------------
(* Outside the mutex: the next runtime call returns or throws.              *)

InRuntime(t) == req[t].pc = "calling" /\ req[t].calls # <<>>

RuntimeReturns(t) ==
    /\ InRuntime(t)
    /\ IF req[t].op \in RunningOp
         THEN Reply(t, "ok")
         ELSE req' = [req EXCEPT ![t].calls = Tail(@)]
    /\ UNCHANGED <<repo, lastError, phases>>

RuntimeThrows(t) ==
    /\ InRuntime(t)
    /\ IF req[t].op \in RunningOp
         THEN Reply(t, "runtime_error")
         ELSE req' = [req EXCEPT ![t].pc = "failing", ![t].calls = <<>>]
    /\ UNCHANGED <<repo, lastError, phases>>

\* Mutant: no limit on the retries.
RetriesUnbounded(t) ==
    /\ InRuntime(t)
    /\ req[t].op = "fetch"
    /\ req' = [req EXCEPT ![t].tries = @ + 1]
    /\ UNCHANGED <<repo, lastError, phases>>

\* Mutant: after the last attempt the retries begin again.
RetriesWrapAround(t) ==
    /\ InRuntime(t)
    /\ req[t].op = "fetch"
    /\ req' = [req EXCEPT ![t].tries = (@ + 1) % MaxTries]
    /\ UNCHANGED <<repo, lastError, phases>>

\* fetch_http_stream sleeps and retries when the internal endpoint could not
\* be reached, unless this was its last attempt.
FetchRetries(t) ==
    /\ InRuntime(t)
    /\ req[t].op = "fetch"
    /\ req[t].tries + 1 < MaxTries
    /\ req' = [req EXCEPT ![t].tries = @ + 1]
    /\ UNCHANGED <<repo, lastError, phases>>

-----------------------------------------------------------------------------
(* The sections under the mutex that close a claiming request.  Each loads  *)
(* the record again and answers "not found" if it is gone.                  *)

Done(t) == req[t].pc = "calling" /\ req[t].calls = <<>>

\* Mutant: last_error is never cleared.
StoreKeepsError(t, state, phase, answer) ==
    LET i == req[t].id
    IN  IF Exists(i)
          THEN /\ repo' = [repo EXCEPT ![i] = state]
               /\ lastError' = [lastError EXCEPT ![i] = @ \/ state = "error"]
               /\ phases' = [phases EXCEPT ![i] = phase]
               /\ Reply(t, answer)
          ELSE /\ Reply(t, "not_found")
               /\ UNCHANGED <<repo, lastError, phases>>

Store(t, state, phase, answer) ==
    LET i == req[t].id
    IN  IF Exists(i)
          THEN /\ repo' = [repo EXCEPT ![i] = state]
               /\ lastError' = [lastError EXCEPT ![i] = (state = "error")]
               /\ phases' = [phases EXCEPT ![i] = phase]
               /\ Reply(t, answer)
          ELSE /\ Reply(t, "not_found")
               /\ UNCHANGED <<repo, lastError, phases>>

CommitRunning(t) ==
    /\ Done(t)
    /\ req[t].op \in {"start", "restart"}
    /\ Store(t, "running", "Running", "ok")

CommitStopped(t) ==
    /\ Done(t)
    /\ req[t].op = "stop"
    /\ Store(t, "stopped", "Idle", "ok")

\* Mutant: the phase entry is not erased.
RemovedKeepsPhase(t) ==
    /\ Done(t)
    /\ req[t].op = "remove"
    /\ Store(t, "absent", "Idle", "ok")

CommitRemoved(t) ==
    /\ Done(t)
    /\ req[t].op = "remove"
    /\ Store(t, "absent", "None", "ok")

\* Mutant: the error is stored, the phase is not.
FailureKeepsPhase(t) ==
    /\ req[t].pc = "failing"
    /\ Store(t, "error", phases[req[t].id], "runtime_error")

RecordFailure(t) ==
    /\ req[t].pc = "failing"
    /\ Store(t, "error", "Failed", "runtime_error")

-----------------------------------------------------------------------------
Ask(t, i) ==
    \/ Create(t, i) \/ Start(t, i) \/ Stop(t, i) \/ Restart(t, i)
    \/ Remove(t, i)
    \/ \E op \in Op : \/ Read(t, op, i) \/ Answered(t, op, i)
                      \/ NotFound(t, op, i) \/ Refuse(t, op, i)

Commit(t) ==
    \/ CommitRunning(t) \/ CommitStopped(t) \/ CommitRemoved(t)
    \/ RecordFailure(t)

Work(t) ==
    \/ RuntimeReturns(t) \/ RuntimeThrows(t) \/ FetchRetries(t) \/ Commit(t)

Next ==
    \E t \in Thread :
        \/ CreateRefused(t) \/ List(t) \/ Work(t)
        \/ \E i \in Id : Ask(t, i)

\* A thread inside a request keeps running, and every runtime call ends.  A
\* client owes the service nothing: asking is not fair.
Fairness == \A t \in Thread : WF_vars(Work(t))

Spec == Init /\ [][Next]_vars /\ Fairness

-----------------------------------------------------------------------------
(* Properties.                                                              *)

\* Thread t is between the gate and the commit of a claiming request for i.
Holds(t, i) ==
    req[t].pc # "idle" /\ req[t].op \in ClaimingOp /\ req[t].id = i

\* Two lifecycle operations are never inside the runtime for the same session,
\* although the mutex is free all that time.
OneClaimPerSession ==
    \A i \in Id : \A t, u \in Thread : Holds(t, i) /\ Holds(u, i) => t = u

ClaimPhase(op) == IF op \in {"start", "restart"} THEN "Starting" ELSE "Stopping"

\* While a request is in the runtime, the session it works for still exists,
\* shows the phase the gate gave it, and the copy read at the gate is still
\* what the repository says: the copy used after the unlock is never stale.
ClaimStaysValid ==
    \A t \in Thread, i \in Id :
        Holds(t, i) =>
            /\ Exists(i)
            /\ phases[i] = ClaimPhase(req[t].op)
            /\ req[t].seen = repo[i]

\* A session is never left "starting" or "stopping" with nobody working on it
\* (it would refuse every later request for ever).
NoAbandonedClaim ==
    \A i \in Id : phases[i] \in Moving => \E t \in Thread : Holds(t, i)

RestingPhase ==
    [absent |-> "None", stopped |-> "Idle", running |-> "Running",
     error |-> "Failed"]

\* At rest the internal phase says what the public state says, and there is a
\* phase entry exactly for the sessions that exist.
RestingPhaseAgrees ==
    \A i \in Id : phases[i] \notin Moving => phases[i] = RestingPhase[repo[i]]

\* last_error is set in "error" and cleared by whatever leaves it.
ErrorIsExplained == \A i \in Id : lastError[i] <=> repo[i] = "error"

\* An admitted lifecycle request is never told that its session does not
\* exist: no other request removes it in the gap between gate and commit.
AdmittedKeepsSession ==
    [][\A t \in Thread :
          req[t].pc # "idle" /\ req[t].op \in ClaimingOp
              => req'[t].answer # "not_found"]_vars

\* Every admitted request is answered.
EveryRequestAnswered ==
    \A t \in Thread : req[t].pc # "idle" ~> req[t].pc = "idle"

\* The service implements the abstract session lifecycle.
Claimed(i) == CASE phases[i] = "Starting" -> "starting"
                [] phases[i] = "Stopping" -> "stopping"
                [] OTHER                  -> "free"

Lifecycle == INSTANCE SessionLifecycle
                WITH status <- repo, claim <- [i \in Id |-> Claimed(i)]

ImplementsLifecycle == Lifecycle!Spec
=============================================================================
