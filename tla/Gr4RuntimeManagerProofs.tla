---------------------- MODULE Gr4RuntimeManagerProofs -----------------------
(***************************************************************************)
(* Proofs about Gr4RuntimeManager, for any sessions, threads, ports,       *)
(* streams and faults.                                                     *)
(*                                                                         *)
(* For callers that need not take turns: type correctness, the discipline  *)
(* of the objects' mutexes, that no port ever serves two streams or is     *)
(* released while it serves one, and that an execution has all its ports.  *)
(*                                                                         *)
(* For callers that do, as the session service makes them (Gated): that an *)
(* object outside the map is empty, that only an allocation that fails     *)
(* half-way loses a port, and that with a port for every stream none does. *)
(* The first needs what each lifecycle call has in hand (TurnsSound), the  *)
(* last counts: with nothing lost, every port in use belongs to a stream   *)
(* of its own, so a stream without one finds one free (AllocationSucceeds).*)
(***************************************************************************)
EXTENDS Gr4RuntimeManager, FiniteSetTheorems, TLAPS

Pc == {"idle", "find", "lock", "alloc", "starting", "stopping", "erase",
       "get", "settings", "done"}

\* What a call has in hand, by where it is.
CallShape ==
    \A t \in Thread :
        /\ rt[t].pc \notin {"idle", "done"} => rt[t].id \in Id
        /\ rt[t].pc \in {"lock", "erase"} \cup Inside => rt[t].res \in Res
        /\ rt[t].pc \notin {"alloc", "get"} => rt[t].got = NoBindings

-----------------------------------------------------------------------------
(* Type correctness.                                                        *)

LEMMA NoBindingsType == NoBindings \in Bindings
BY DEF NoBindings, Bindings

LEMMA DetachedType ==
    ASSUME NEW op \in RtOp \cup {"none"}, NEW i \in Id \cup {NoId},
           NEW s \in Stream \cup {NoStream}, NEW pc \in Pc,
           NEW outcome \in {"none", "ok", "throw", "unreachable"},
           NEW streams \in SUBSET Stream
    PROVE  Detached(op, i, s, pc, outcome, streams) \in RtCall
BY NoBindingsType DEF Detached, RtCall, Pc

LEMMA FinishType ==
    ASSUME TypeOK, NEW t, NEW outcome \in {"none", "ok", "throw", "unreachable"},
           NEW streams \in SUBSET Stream, FinishWith(t, outcome, streams)
    PROVE  rt' \in [Thread -> RtCall]
<1>1. Detached("none", NoId, NoStream, "done", outcome, streams) \in RtCall
    BY DetachedType DEF Pc
<1> QED
    BY <1>1 DEF FinishWith, TypeOK

\* Finish, as the bodies that return no streams use it.
LEMMA PlainFinishType ==
    ASSUME TypeOK, NEW t, NEW outcome \in {"none", "ok", "throw", "unreachable"},
           Finish(t, outcome)
    PROVE  rt' \in [Thread -> RtCall]
BY FinishType DEF Finish

LEMMA GotoType ==
    ASSUME TypeOK, NEW t \in Thread, NEW pc \in Pc, Goto(t, pc)
    PROVE  rt' \in [Thread -> RtCall]
<1>1. rt[t] \in RtCall
    BY DEF TypeOK
<1>2. [rt[t] EXCEPT !.pc = pc] \in RtCall
    BY <1>1 DEF RtCall, Pc
<1> QED
    BY <1>2 DEF Goto, TypeOK

LEMMA SetType ==
    ASSUME TypeOK, NEW t, rt[t].res \in Res,
           NEW phase \in {"Idle", "Starting", "Running", "Stopping", "Failed"},
           NEW exec \in {"none", "built", "running"}, NEW b \in Bindings,
           Set(t, phase, exec, b)
    PROVE  heap' \in [Res -> Resource]
<1>1. heap[rt[t].res].id \in Id \cup {NoId}
    BY DEF TypeOK, Resource
<1>2. [id |-> heap[rt[t].res].id, phase |-> phase, exec |-> exec,
       bindings |-> b] \in Resource
    BY <1>1 DEF Resource
<1> QED
    BY <1>2 DEF Set, TypeOK

LEMMA LockType ==
    ASSUME TypeOK, NEW t \in Thread, Keep(t) \/ Unlock(t) \/ UNCHANGED lock
    PROVE  lock' \in [Res -> Thread \cup {NoThread}]
BY DEF Keep, Unlock, TypeOK

\* The object a body works on is well formed.
LEMMA ObjectType ==
    ASSUME TypeOK, NEW t, rt[t].res \in Res
    PROVE  R(t) \in Resource
BY DEF TypeOK, R

LEMMA TypeInit == Init => TypeOK
<1> SUFFICES ASSUME Init PROVE TypeOK
    OBVIOUS
<1>1. NoCall \in RtCall
    BY DetachedType DEF NoCall, Pc
<1>2. FreshResource(NoId) \in Resource
    BY NoBindingsType DEF FreshResource, Resource
<1> QED
    BY <1>1, <1>2 DEF Init, TypeOK

LEMMA TypeBody ==
    ASSUME TypeOK, CallShape, NEW t \in Thread, Body(t)
    PROVE  TypeOK'
<1>1. rt[t].res \in Res /\ R(t) \in Resource
    BY ObjectType DEF Body, PrepareRefused, Reuse, ContractViolated, PrepareBegins,
       NothingRuns, StopRefused, StopBegins, ActiveStreamPlan,
       ResolveWebsocketStream, FetchHttpStream, SettingsBegin, Enter, At, CallShape
<1>2. /\ R(t).phase \in {"Idle", "Starting", "Running", "Stopping", "Failed"}
      /\ R(t).exec \in {"none", "built", "running"}
      /\ R(t).bindings \in Bindings
    BY <1>1 DEF Resource
<1>3. CASE PrepareRefused(t) \/ ContractViolated(t) \/ StopRefused(t)
    BY <1>3, PlainFinishType DEF PrepareRefused, ContractViolated, StopRefused, TypeOK
<1>4. CASE Reuse(t)
    <2>1. CASE Set(t, "Starting", R(t).exec, R(t).bindings) /\ Keep(t)
               /\ Goto(t, "starting")
        BY <1>1, <1>2, <1>4, <2>1, SetType, LockType, GotoType
           DEF Reuse, TypeOK, Pc
    <2>2. CASE Finish(t, "ok") /\ UNCHANGED <<heap, lock>>
        BY <1>4, <2>2, PlainFinishType DEF Reuse, TypeOK
    <2> QED
        BY <1>4, <2>1, <2>2 DEF Reuse
<1>5. CASE PrepareBegins(t)
    BY <1>1, <1>2, <1>5, NoBindingsType, SetType, LockType, GotoType
       DEF PrepareBegins, TypeOK, Pc
<1>6. CASE NothingRuns(t)
    <2>1. rt' \in [Thread -> RtCall]
        BY <1>6, PlainFinishType, GotoType DEF NothingRuns, AfterTeardown, Pc
    <2> QED
        BY <1>1, <1>6, <2>1, NoBindingsType, SetType DEF NothingRuns, TypeOK
<1>7. CASE StopBegins(t)
    BY <1>1, <1>2, <1>7, SetType, LockType, GotoType DEF StopBegins, TypeOK, Pc
<1>8. CASE ActiveStreamPlan(t)
    <2>1. Bound(R(t).bindings) \in SUBSET Stream
        BY DEF Bound
    <2> QED
        BY <1>8, <2>1, FinishType DEF ActiveStreamPlan, TypeOK
<1>9. CASE ResolveWebsocketStream(t)
    BY <1>9, PlainFinishType DEF ResolveWebsocketStream, TypeOK
<1>10. CASE FetchHttpStream(t)
    <2> DEFINE s == rt[t].arg
               p == R(t).bindings[s]
    <2>1. CASE /\ s \in Bound(R(t).bindings)
               /\ rt' = [rt EXCEPT ![t].pc = "get", ![t].res = NoRes, ![t].got[s] = p]
        <3>1. rt[t] \in RtCall
            BY DEF TypeOK
        <3>2. s \in Stream /\ p \in Port
            BY <1>2, <2>1 DEF Bound, Bindings
        <3>3. [rt[t].got EXCEPT ![s] = p] \in Bindings
            BY <3>1, <3>2 DEF RtCall, Bindings
        <3>4. [rt[t] EXCEPT !.pc = "get"] \in RtCall
            BY <3>1 DEF RtCall
        <3>5. [[rt[t] EXCEPT !.pc = "get"] EXCEPT !.res = NoRes] \in RtCall
            BY <3>4 DEF RtCall
        <3>6. [[[rt[t] EXCEPT !.pc = "get"] EXCEPT !.res = NoRes]
                 EXCEPT !.got = [rt[t].got EXCEPT ![s] = p]] \in RtCall
            BY <3>3, <3>5 DEF RtCall
        <3>7. rt' = [rt EXCEPT ![t] =
                        [[[rt[t] EXCEPT !.pc = "get"] EXCEPT !.res = NoRes]
                           EXCEPT !.got = [rt[t].got EXCEPT ![s] = p]]]
            BY <2>1, <3>1 DEF TypeOK, RtCall
        <3> QED
            BY <1>10, <3>6, <3>7 DEF FetchHttpStream, TypeOK
    <2>2. CASE Finish(t, "throw")
        BY <1>10, <2>2, PlainFinishType DEF FetchHttpStream, TypeOK
    <2> QED
        BY <1>10, <2>1, <2>2 DEF FetchHttpStream
<1>11. CASE SettingsBegin(t)
    BY <1>11, PlainFinishType, GotoType, LockType DEF SettingsBegin, TypeOK, Pc
<1> QED
    BY <1>3, <1>4, <1>5, <1>6, <1>7, <1>8, <1>9, <1>10, <1>11 DEF Body

LEMMA TypeFind ==
    ASSUME TypeOK, CallShape, NEW t \in Thread, Find(t)
    PROVE  TypeOK'
<1> DEFINE i == rt[t].id
<1>1. rt[t] \in RtCall /\ i \in Id
    BY DEF TypeOK, CallShape, Find, At
<1>2. ASSUME NEW r \in Res, rt' = [rt EXCEPT ![t].pc = "lock", ![t].res = r]
      PROVE  rt' \in [Thread -> RtCall]
    <2>1. [rt[t] EXCEPT !.pc = "lock"] \in RtCall
        BY <1>1 DEF RtCall
    <2>2. [[rt[t] EXCEPT !.pc = "lock"] EXCEPT !.res = r] \in RtCall
        BY <2>1 DEF RtCall
    <2> QED
        BY <1>2, <2>2 DEF TypeOK
<1>3. CASE /\ resources[i] # NoRes /\ UNCHANGED <<resources, heap>>
           /\ rt' = [rt EXCEPT ![t].pc = "lock", ![t].res = resources[i]]
    BY <1>1, <1>2, <1>3 DEF Find, TypeOK
<1>4. CASE \E r \in Res :
              /\ resources' = [resources EXCEPT ![i] = r]
              /\ heap' = [heap EXCEPT ![r] = FreshResource(i)]
              /\ rt' = [rt EXCEPT ![t].pc = "lock", ![t].res = r]
    <2>1. FreshResource(i) \in Resource
        BY <1>1, NoBindingsType DEF FreshResource, Resource
    <2>2. PICK r \in Res :
             /\ resources' = [resources EXCEPT ![i] = r]
             /\ heap' = [heap EXCEPT ![r] = FreshResource(i)]
             /\ rt' = [rt EXCEPT ![t].pc = "lock", ![t].res = r]
        BY <1>4
    <2>3. rt' \in [Thread -> RtCall]
        BY <1>2, <2>2
    <2>4. /\ resources' \in [Id -> Res \cup {NoRes}]
          /\ heap' \in [Res -> Resource]
        BY <2>1, <2>2 DEF TypeOK
    <2> QED
        BY <2>3, <2>4 DEF Find, TypeOK
<1>5. CASE /\ UNCHANGED <<resources, heap>>
           /\ Finish(t, IF rt[t].op \in Halting \cup {"plan"} THEN "ok" ELSE "throw")
    BY <1>5, PlainFinishType DEF Find, TypeOK
<1> QED
    BY <1>3, <1>4, <1>5 DEF Find

LEMMA TypeAllocate ==
    ASSUME TypeOK, CallShape, NEW t \in Thread, AllocatePort(t)
    PROVE  TypeOK'
<1>1. PICK s \in Missing(t), p \in Port \ allocated :
         /\ rt' = [rt EXCEPT ![t].got[s] = p]
         /\ allocated' = allocated \cup {p}
    BY DEF AllocatePort
<1>2. rt[t] \in RtCall /\ s \in Stream
    BY RuntimeAssumption DEF TypeOK, CallShape, AllocatePort, At, Missing
<1>3. [rt[t].got EXCEPT ![s] = p] \in Bindings
    BY <1>2 DEF RtCall, Bindings
<1>4. [rt[t] EXCEPT !.got = [rt[t].got EXCEPT ![s] = p]] \in RtCall
    BY <1>2, <1>3 DEF RtCall
<1>5. rt' = [rt EXCEPT ![t] = [rt[t] EXCEPT !.got = [rt[t].got EXCEPT ![s] = p]]]
    BY <1>1, <1>2 DEF TypeOK, RtCall
<1> QED
    BY <1>1, <1>4, <1>5 DEF AllocatePort, TypeOK

LEMMA TypeLoad ==
    ASSUME TypeOK, CallShape, NEW t \in Thread, LoadGraph(t)
    PROVE  TypeOK'
<1>1. rt[t] \in RtCall /\ rt[t].res \in Res /\ rt[t].got \in Bindings
    BY DEF TypeOK, CallShape, LoadGraph, At, Inside, RtCall
<1>2. CASE rt[t].op = "start"
    <2>1. [rt[t] EXCEPT !.pc = "starting"] \in RtCall
        BY <1>1 DEF RtCall
    <2>2. [[rt[t] EXCEPT !.pc = "starting"] EXCEPT !.got = NoBindings] \in RtCall
        BY <2>1, NoBindingsType DEF RtCall
    <2>3. rt' \in [Thread -> RtCall]
        BY <1>2, <2>2 DEF LoadGraph, TypeOK
    <2>4. heap' \in [Res -> Resource]
        BY <1>1, <1>2, SetType DEF LoadGraph
    <2> QED
        BY <1>2, <2>3, <2>4 DEF LoadGraph, TypeOK
<1>3. CASE rt[t].op # "start"
    <2>1. heap' \in [Res -> Resource]
        BY <1>1, <1>3, SetType DEF LoadGraph
    <2> QED
        BY <1>3, <2>1, PlainFinishType, LockType DEF LoadGraph, TypeOK
<1> QED
    BY <1>2, <1>3

LEMMA TypeAdvance ==
    ASSUME TypeOK, CallShape, NEW t \in Thread, Advance(t) \/ Teardown(t)
    PROVE  TypeOK'
<1>1. CASE AllocationFails(t) \/ LoadFails(t) \/ SchedulerStartFails(t)
    BY <1>1, PlainFinishType, LockType
       DEF AllocationFails, LoadFails, SchedulerStartFails, TypeOK
<1>2. CASE SchedulerStarts(t)
    <2>1. rt[t].res \in Res /\ R(t).bindings \in Bindings
        BY <1>2, ObjectType DEF SchedulerStarts, CallShape, At, Inside, Resource
    <2> QED
        BY <1>2, <2>1, PlainFinishType, LockType, SetType
           DEF SchedulerStarts, TypeOK
<1>3. CASE EraseEntry(t)
    BY <1>3, PlainFinishType DEF EraseEntry, TypeOK
<1>4. CASE FetchAnswered(t)
    BY <1>4, PlainFinishType DEF FetchAnswered, TypeOK
<1>5. CASE FetchUnreachable(t)
    BY <1>5, PlainFinishType DEF FetchUnreachable, TypeOK
<1>6. CASE SettingsEnd(t)
    <2>1. PICK outcome \in {"ok", "throw"} : Finish(t, outcome)
        BY <1>6 DEF SettingsEnd, SettingsReply
    <2> QED
        BY <1>6, <2>1, PlainFinishType, LockType DEF SettingsEnd, TypeOK
<1>7. CASE TeardownCompletes(t)
    <2>1. rt' \in [Thread -> RtCall]
        BY <1>7, PlainFinishType, GotoType
           DEF TeardownCompletes, AfterTeardown, Pc
    <2>2. rt[t].res \in Res
        BY <1>7 DEF TeardownCompletes, CallShape, At, Inside
    <2> QED
        BY <1>7, <2>1, <2>2, NoBindingsType, SetType, LockType
           DEF TeardownCompletes, TypeOK
<1>8. CASE SchedulerStopFails(t)
    <2>1. rt[t].res \in Res /\ R(t).bindings \in Bindings
        BY <1>8, ObjectType DEF SchedulerStopFails, CallShape, At, Inside, Resource
    <2>2. heap' \in [Res -> Resource]
        BY <1>8, <2>1, SetType DEF SchedulerStopFails, TypeOK
    <2> QED
        BY <1>8, <2>2, PlainFinishType, LockType DEF SchedulerStopFails, TypeOK
<1> QED
    BY <1>1, <1>2, <1>3, <1>4, <1>5, <1>6, <1>7, <1>8, TypeFind, TypeAllocate,
       TypeLoad DEF Advance, Teardown

LEMMA TypeStep ==
    ASSUME TypeOK, CallShape, [Next]_vars
    PROVE  TypeOK'
<1>1. CASE UNCHANGED vars
    BY <1>1 DEF vars, TypeOK
<1>2. ASSUME NEW t \in Thread, NEW op \in Calls, NEW i \in Id,
             NEW s \in Arguments(op), Call(t, op, i, s)
      PROVE  TypeOK'
    <2>1. op \in RtOp /\ s \in Stream \cup {NoStream}
        BY RuntimeAssumption DEF Arguments
    <2>2. Detached(op, i, s, "find", "none", {}) \in RtCall
        BY <2>1, DetachedType DEF Pc
    <2> QED
        BY <1>2, <2>2 DEF Call, TypeOK
<1>3. ASSUME NEW t \in Thread, Return(t) PROVE TypeOK'
    <2>1. NoCall \in RtCall
        BY DetachedType DEF NoCall, Pc
    <2> QED
        BY <1>3, <2>1 DEF Return, TypeOK
<1> QED
    BY <1>1, <1>2, <1>3, TypeBody, TypeAdvance DEF Next, Step

-----------------------------------------------------------------------------
(* Calls and mutexes: what a step of thread t does to rt and lock.          *)

\* The call of t is over, or has not found its object yet.
Out(t) ==
    rt'[t].pc \in {"idle", "find", "done"} /\ rt'[t].got = NoBindings

SameCall(t) ==
    /\ rt'[t].op = rt[t].op /\ rt'[t].id = rt[t].id
    /\ rt'[t].res = rt[t].res

OthersWait(t) == \A u \in Thread \ {t} : rt'[u] = rt[u]

LEMMA FinishEffect ==
    ASSUME TypeOK, NEW t \in Thread, NEW o, NEW streams,
           FinishWith(t, o, streams)
    PROVE  /\ rt'[t].pc = "done" /\ rt'[t].got = NoBindings
           /\ rt'[t].id = NoId /\ rt'[t].res = NoRes
           /\ rt'[t].outcome = o /\ rt'[t].streams = streams
           /\ OthersWait(t)
BY DEF FinishWith, Detached, TypeOK, OthersWait

LEMMA PlainFinishEffect ==
    ASSUME TypeOK, NEW t \in Thread, NEW o, Finish(t, o)
    PROVE  /\ rt'[t].pc = "done" /\ rt'[t].got = NoBindings
           /\ rt'[t].id = NoId /\ rt'[t].res = NoRes
           /\ rt'[t].outcome = o /\ rt'[t].streams = {}
           /\ OthersWait(t)
BY FinishEffect DEF Finish

LEMMA GotoEffect ==
    ASSUME TypeOK, NEW t \in Thread, NEW pc, Goto(t, pc)
    PROVE  /\ rt'[t].pc = pc /\ rt'[t].got = rt[t].got
           /\ SameCall(t) /\ OthersWait(t)
<1>1. rt[t] \in RtCall
    BY DEF TypeOK
<1> QED
    BY <1>1 DEF Goto, TypeOK, RtCall, SameCall, OthersWait

\* A body begins: it is over at once, or goes on with the mutex, or without.
BodyEffect(t) ==
    /\ rt[t].pc = "lock" /\ OthersWait(t)
    /\ \/ /\ rt'[t].pc = "done" /\ Out(t) /\ UNCHANGED lock
       \/ /\ rt'[t].pc \in Inside /\ rt'[t].got = rt[t].got /\ SameCall(t)
          /\ lock[rt[t].res] = NoThread /\ Keep(t)
       \/ /\ rt'[t].pc = "erase" /\ rt'[t].got = rt[t].got /\ SameCall(t)
          /\ UNCHANGED lock
       \/ /\ rt'[t].pc = "get" /\ rt'[t].id = rt[t].id /\ UNCHANGED lock

LEMMA BodyHasEffect ==
    ASSUME TypeOK, CallShape, NEW t \in Thread, Body(t)
    PROVE  BodyEffect(t)
<1>1. rt[t].pc = "lock" /\ rt[t] \in RtCall
    BY DEF Body, PrepareRefused, Reuse, ContractViolated, PrepareBegins,
       NothingRuns, StopRefused, StopBegins, ActiveStreamPlan,
       ResolveWebsocketStream, FetchHttpStream, SettingsBegin, Enter, At, TypeOK
<1>2. CASE PrepareRefused(t) \/ ContractViolated(t) \/ StopRefused(t)
    BY <1>1, <1>2, PlainFinishEffect
       DEF PrepareRefused, ContractViolated, StopRefused, BodyEffect, Out
<1>3. CASE Reuse(t)
    <2>1. CASE Goto(t, "starting") /\ Keep(t)
        BY <1>1, <1>3, <2>1, GotoEffect DEF Reuse, Enter, BodyEffect, Inside
    <2>2. CASE Finish(t, "ok") /\ UNCHANGED lock
        BY <1>1, <2>2, PlainFinishEffect DEF BodyEffect, Out
    <2> QED
        BY <1>3, <2>1, <2>2 DEF Reuse
<1>4. CASE PrepareBegins(t)
    BY <1>1, <1>4, GotoEffect DEF PrepareBegins, Enter, BodyEffect, Inside
<1>5. CASE NothingRuns(t)
    <2>1. CASE Goto(t, "erase")
        BY <1>1, <1>5, <2>1, GotoEffect DEF NothingRuns, BodyEffect
    <2>2. CASE Finish(t, "ok")
        BY <1>1, <1>5, <2>2, PlainFinishEffect DEF NothingRuns, BodyEffect, Out
    <2> QED
        BY <1>5, <2>1, <2>2 DEF NothingRuns, AfterTeardown
<1>6. CASE StopBegins(t)
    BY <1>1, <1>6, GotoEffect DEF StopBegins, Enter, BodyEffect, Inside
<1>7. CASE ActiveStreamPlan(t)
    BY <1>1, <1>7, FinishEffect DEF ActiveStreamPlan, BodyEffect, Out
<1>8. CASE ResolveWebsocketStream(t)
    BY <1>1, <1>8, PlainFinishEffect DEF ResolveWebsocketStream, BodyEffect, Out
<1>9. CASE FetchHttpStream(t)
    <2> DEFINE p == R(t).bindings[rt[t].arg]
    <2>1. CASE rt' = [rt EXCEPT ![t].pc = "get", ![t].res = NoRes,
                                ![t].got[rt[t].arg] = p]
        <3> HIDE DEF p
        <3> QED
            BY <1>1, <1>9, <2>1
               DEF FetchHttpStream, TypeOK, RtCall, BodyEffect, OthersWait
    <2>2. CASE Finish(t, "throw")
        BY <1>1, <1>9, <2>2, PlainFinishEffect DEF FetchHttpStream, BodyEffect, Out
    <2> QED
        BY <1>9, <2>1, <2>2 DEF FetchHttpStream
<1>10. CASE SettingsBegin(t)
    <2>1. CASE Keep(t) /\ Goto(t, "settings")
        BY <1>1, <1>10, <2>1, GotoEffect
           DEF SettingsBegin, Enter, BodyEffect, Inside
    <2>2. CASE UNCHANGED lock /\ Finish(t, "throw")
        BY <1>1, <2>2, PlainFinishEffect DEF BodyEffect, Out
    <2> QED
        BY <1>10, <2>1, <2>2 DEF SettingsBegin
<1> QED
    BY <1>2, <1>3, <1>4, <1>5, <1>6, <1>7, <1>8, <1>9, <1>10 DEF Body

\* Any other step of a call: it finds its object, moves on with the mutex, or
\* leaves, giving the mutex back if it has it.
OtherEffect(t) ==
    /\ OthersWait(t)
    /\ \/ /\ rt[t].pc \notin Inside \cup {"lock"} /\ Out(t) /\ UNCHANGED lock
       \/ /\ rt[t].pc \in Inside /\ Out(t) /\ Unlock(t)
       \/ /\ rt[t].pc \in Inside /\ rt[t].pc # "alloc" /\ rt'[t].pc = "erase"
          /\ SameCall(t) /\ rt'[t].got = rt[t].got /\ Unlock(t)
       \/ /\ rt[t].pc \in Inside /\ rt'[t].pc \in Inside /\ SameCall(t)
          /\ rt'[t].pc = "alloc" \/ rt'[t].got = NoBindings
          /\ UNCHANGED lock
       \/ /\ rt[t].pc = "find" /\ rt'[t].pc = "lock" /\ rt'[t].id = rt[t].id
          /\ rt'[t].op = rt[t].op
          /\ rt'[t].res \in Res /\ rt'[t].got = rt[t].got /\ UNCHANGED lock

LEMMA AdvanceHasEffect ==
    ASSUME TypeOK, CallShape, NEW t \in Thread, Advance(t) \/ Teardown(t)
    PROVE  OtherEffect(t)
<1>1. rt[t] \in RtCall
    BY DEF TypeOK
<1>2. CASE \/ AllocationFails(t) \/ LoadFails(t) \/ SchedulerStarts(t)
           \/ SchedulerStartFails(t) \/ SchedulerStopFails(t)
    <2>1. rt[t].pc \in Inside /\ Unlock(t)
        BY <1>2 DEF AllocationFails, LoadFails, SchedulerStarts,
           SchedulerStartFails, SchedulerStopFails, At, Inside
    <2>2. \E o : Finish(t, o)
        BY <1>2 DEF AllocationFails, LoadFails, SchedulerStarts,
           SchedulerStartFails, SchedulerStopFails
    <2> QED
        BY <2>1, <2>2, PlainFinishEffect DEF OtherEffect, Out
<1>3. CASE SettingsEnd(t)
    <2>1. rt[t].pc \in Inside /\ Unlock(t) /\ \E o : Finish(t, o)
        BY <1>3 DEF SettingsEnd, At, Inside
    <2> QED
        BY <2>1, PlainFinishEffect DEF OtherEffect, Out
<1>4. CASE EraseEntry(t) \/ FetchUnreachable(t) \/ FetchAnswered(t)
    <2>1. /\ rt[t].pc \notin Inside \cup {"lock"} /\ UNCHANGED lock
          /\ \E o, streams : FinishWith(t, o, streams)
        BY <1>4 DEF EraseEntry, FetchUnreachable, FetchAnswered, At, Inside, Finish
    <2> QED
        BY <2>1, FinishEffect DEF OtherEffect, Out
<1>5. CASE AllocatePort(t)
    <2>1. PICK s \in Missing(t), p \in Port : rt' = [rt EXCEPT ![t].got[s] = p]
        BY <1>5 DEF AllocatePort
    <2>2. /\ rt'[t].pc = rt[t].pc /\ SameCall(t) /\ OthersWait(t)
        BY <1>1, <2>1 DEF TypeOK, RtCall, SameCall, OthersWait
    <2> QED
        BY <1>5, <2>2 DEF AllocatePort, At, OtherEffect, Inside
<1>6. CASE LoadGraph(t)
    <2>1. CASE rt[t].op = "start"
        <3>1. /\ rt'[t].pc = "starting" /\ rt'[t].got = NoBindings
              /\ SameCall(t) /\ OthersWait(t)
            BY <1>1, <1>6, <2>1
               DEF LoadGraph, TypeOK, RtCall, SameCall, OthersWait
        <3> QED
            BY <1>6, <2>1, <3>1 DEF LoadGraph, At, OtherEffect, Inside
    <2>2. CASE rt[t].op # "start"
        BY <1>6, <2>2, PlainFinishEffect
           DEF LoadGraph, At, OtherEffect, Inside, Out
    <2> QED
        BY <2>1, <2>2
<1>7. CASE TeardownCompletes(t)
    <2>1. rt[t].pc = "stopping" /\ Unlock(t)
        BY <1>7 DEF TeardownCompletes, At
    <2>2. CASE Goto(t, "erase")
        BY <2>1, <2>2, GotoEffect DEF OtherEffect, Inside
    <2>3. CASE Finish(t, "ok")
        BY <2>1, <2>3, PlainFinishEffect DEF OtherEffect, Inside, Out
    <2> QED
        BY <1>7, <2>2, <2>3 DEF TeardownCompletes, AfterTeardown
<1>8. CASE Find(t)
    <2>1. rt[t].pc = "find" /\ rt[t].id \in Id /\ UNCHANGED lock
        BY <1>8 DEF Find, At, CallShape
    <2>2. ASSUME NEW r \in Res, rt' = [rt EXCEPT ![t].pc = "lock", ![t].res = r]
          PROVE  OtherEffect(t)
        BY <1>1, <2>1, <2>2 DEF TypeOK, RtCall, OtherEffect, OthersWait
    <2>3. CASE \E r \in Res : rt' = [rt EXCEPT ![t].pc = "lock", ![t].res = r]
        BY <2>2, <2>3
    <2>4. CASE \E o : Finish(t, o)
        BY <2>1, <2>4, PlainFinishEffect DEF OtherEffect, Out, Inside
    <2>5. resources[rt[t].id] \in Res \cup {NoRes}
        BY <2>1 DEF TypeOK
    <2> QED
        BY <1>8, <2>3, <2>4, <2>5 DEF Find
<1> QED
    BY <1>2, <1>3, <1>4, <1>5, <1>6, <1>7, <1>8 DEF Advance, Teardown

LEMMA BeginAndEndEffect ==
    ASSUME TypeOK, CallShape, NEW t \in Thread,
           \/ Return(t)
           \/ \E op \in Calls, i \in Id : \E s \in Arguments(op) : Call(t, op, i, s)
    PROVE  OtherEffect(t) /\ (rt'[t].pc = "find" => rt'[t].id \in Id)
BY DEF Return, Call, NoCall, Detached, At, TypeOK, OtherEffect, OthersWait, Out,
       Inside

\* Every step of the system is a step of some thread with one of the effects.
LEMMA StepHasEffect ==
    ASSUME TypeOK, CallShape, Next
    PROVE  \E t \in Thread :
              \/ BodyEffect(t)
              \/ OtherEffect(t) /\ (rt'[t].pc = "find" => rt'[t].id \in Id)
<1>1. PICK t \in Thread :
         \/ Step(t)
         \/ Return(t)
         \/ \E op \in Calls, i \in Id : \E s \in Arguments(op) : Call(t, op, i, s)
    BY DEF Next
<1>2. CASE Body(t)
    BY <1>2, BodyHasEffect
<1>3. CASE Advance(t) \/ Teardown(t)
    <2>1. rt'[t].pc # "find"
        <3>1. rt[t].pc \notin {"idle", "find"} \/ Find(t)
            BY <1>3 DEF Advance, Teardown, EraseEntry, AllocatePort,
               AllocationFails, LoadGraph, LoadFails, SchedulerStarts,
               SchedulerStartFails, FetchAnswered, FetchUnreachable,
               SettingsEnd, TeardownCompletes, SchedulerStopFails, At
        <3>2. CASE \E o, streams : FinishWith(t, o, streams)
            BY <3>2, FinishEffect
        <3>3. CASE Goto(t, "erase")
            BY <3>3, GotoEffect
        <3>4. CASE AllocatePort(t)
            BY <3>4 DEF AllocatePort, TypeOK, RtCall, At
        <3>5. CASE rt' = [rt EXCEPT ![t].pc = "starting", ![t].got = NoBindings]
            BY <3>5 DEF TypeOK, RtCall
        <3>6. CASE \E r : rt' = [rt EXCEPT ![t].pc = "lock", ![t].res = r]
            BY <3>6 DEF TypeOK, RtCall
        <3> QED
            BY <1>3, <3>2, <3>3, <3>4, <3>5, <3>6
               DEF Advance, Teardown, Find, EraseEntry, AllocationFails,
                   LoadGraph, LoadFails, SchedulerStarts, SchedulerStartFails,
                   FetchAnswered, FetchUnreachable, SettingsEnd, AfterTeardown,
                   TeardownCompletes, SchedulerStopFails, Finish
    <2> QED
        BY <1>3, <2>1, AdvanceHasEffect
<1> QED
    BY <1>1, <1>2, <1>3, BeginAndEndEffect DEF Step

LEMMA ShapeStep ==
    ASSUME TypeOK, CallShape, Next
    PROVE  CallShape'
<1>1. PICK t \in Thread :
         \/ BodyEffect(t)
         \/ OtherEffect(t) /\ (rt'[t].pc = "find" => rt'[t].id \in Id)
    BY StepHasEffect
<1> DEFINE Shape(u) ==
        /\ rt[u].pc \notin {"idle", "done"} => rt[u].id \in Id
        /\ rt[u].pc \in {"lock", "erase"} \cup Inside => rt[u].res \in Res
        /\ rt[u].pc \notin {"alloc", "get"} => rt[u].got = NoBindings
<1>2. \A u \in Thread : Shape(u)
    BY DEF CallShape
<1>3. Shape(t)'
    BY <1>1, <1>2 DEF BodyEffect, OtherEffect, Out, SameCall, Inside
<1>4. \A u \in Thread \ {t} : Shape(u)'
    BY <1>1, <1>2 DEF BodyEffect, OtherEffect, OthersWait
<1> QED
    BY <1>3, <1>4 DEF CallShape

LEMMA MutexStep ==
    ASSUME TypeOK, CallShape, MutexHeldInside, Next
    PROVE  MutexHeldInside'
<1>1. PICK t \in Thread : BodyEffect(t) \/ OtherEffect(t)
    BY StepHasEffect
<1>2. \A u \in Thread \ {t} : rt'[u] = rt[u]
    BY <1>1 DEF BodyEffect, OtherEffect, OthersWait
<1>3. \A u \in Thread, r \in Res : lock[r] = u <=> rt[u].res = r /\ rt[u].pc \in Inside
    BY DEF MutexHeldInside
<1>4. NoThread \notin Thread
    BY RuntimeAssumption
<1>5. CASE /\ UNCHANGED lock
           /\ \/ rt[t].pc \notin Inside /\ rt'[t].pc \notin Inside
              \/ rt[t].pc \in Inside /\ rt'[t].pc \in Inside /\ SameCall(t)
    BY <1>2, <1>3, <1>5 DEF MutexHeldInside, SameCall
<1>6. CASE /\ rt[t].pc \in Inside /\ rt'[t].pc \notin Inside /\ Unlock(t)
    <2>1. rt[t].res \in Res
        BY <1>6 DEF CallShape
    <2>2. lock[rt[t].res] = t
        BY <1>3, <1>6, <2>1
    <2>3. /\ lock'[rt[t].res] = NoThread
          /\ \A r \in Res \ {rt[t].res} : lock'[r] = lock[r]
        BY <1>6, <2>1 DEF Unlock, TypeOK
    <2> QED
        BY <1>2, <1>3, <1>4, <1>6, <2>1, <2>2, <2>3 DEF MutexHeldInside
<1>7. CASE /\ rt[t].pc = "lock" /\ rt'[t].pc \in Inside /\ SameCall(t)
           /\ lock[rt[t].res] = NoThread /\ Keep(t)
    <2>1. rt[t].res \in Res
        BY <1>7 DEF CallShape
    <2>2. /\ lock'[rt[t].res] = t
          /\ \A r \in Res \ {rt[t].res} : lock'[r] = lock[r]
        BY <1>7, <2>1 DEF Keep, TypeOK
    <2>3. rt[t].pc \notin Inside
        BY <1>7 DEF Inside
    <2> QED
        BY <1>2, <1>3, <1>4, <1>7, <2>1, <2>2, <2>3 DEF MutexHeldInside, SameCall
<1>8. \A pc \in {"idle", "find", "lock", "done", "erase", "get"} : pc \notin Inside
    BY DEF Inside
<1> QED
    BY <1>1, <1>5, <1>6, <1>7, <1>8 DEF BodyEffect, OtherEffect, Out

\* The discipline holds from the start.
LEMMA MutexInit == Init => CallShape /\ MutexHeldInside
<1> SUFFICES ASSUME Init PROVE CallShape /\ MutexHeldInside
    OBVIOUS
<1>1. \A t \in Thread : rt[t].pc = "idle" /\ rt[t].got = NoBindings
    BY DEF Init, NoCall, Detached
<1>2. \A t \in Thread, r \in Res : lock[r] # t
    BY RuntimeAssumption DEF Init
<1> QED
    BY <1>1, <1>2 DEF CallShape, MutexHeldInside, Inside

LEMMA CallStep ==
    TypeOK /\ CallShape /\ MutexHeldInside /\ [Next]_vars
        => (TypeOK /\ CallShape /\ MutexHeldInside)'
<1> SUFFICES ASSUME TypeOK, CallShape, MutexHeldInside, [Next]_vars
             PROVE  (TypeOK /\ CallShape /\ MutexHeldInside)'
    OBVIOUS
<1>1. CASE UNCHANGED vars
    BY <1>1, TypeStep DEF vars, CallShape, MutexHeldInside
<1>2. CASE Next
    BY <1>2, TypeStep, ShapeStep, MutexStep
<1> QED
    BY <1>1, <1>2

-----------------------------------------------------------------------------
(* Ports: who holds which, and what a step does to it.                      *)

Owner == Res \cup Thread

PortsSound == PortsExclusive /\ UsedPortsAllocated

Untouched(S) == \A o \in Owner \ S : Held(o)' = Held(o)

\* Nothing changes hands.
LEMMA NobodyMoves ==
    ASSUME PortsSound, Untouched({}), allocated' = allocated
    PROVE  PortsSound'
BY DEF PortsSound, PortsExclusive, UsedPortsAllocated, Untouched, Owner

\* One owner lets go of all it holds; at most those ports are released.
LEMMA OneReleases ==
    ASSUME PortsSound, NEW o \in Owner, Untouched({o}), Held(o)' = NoBindings,
           allocated \ PortsOf(Held(o)) \subseteq allocated'
    PROVE  PortsSound'
<1>1. \A q \in Owner : Held(q)' = Held(q) \/ (q = o /\ Held(q)' = NoBindings)
    BY DEF Untouched
<1>2. \A s \in Stream : NoBindings[s] = NoPort
    BY DEF NoBindings
<1>3. PortsExclusive'
    BY <1>1, <1>2 DEF PortsSound, PortsExclusive, Owner
<1>4. ASSUME NEW q \in Owner PROVE PortsOf(Held(q)') \subseteq allocated'
    <2>1. CASE q = o
        BY <1>2, <2>1 DEF PortsOf
    <2>2. CASE q # o
        <3>1. Held(q)' = Held(q)
            BY <2>2 DEF Untouched
        <3>2. PortsOf(Held(q)) \subseteq allocated
            BY DEF PortsSound, UsedPortsAllocated, Owner
        <3>3. PortsOf(Held(q)) \cap PortsOf(Held(o)) = {}
            BY <2>2 DEF PortsSound, PortsExclusive, Owner, PortsOf
        <3> QED
            BY <3>1, <3>2, <3>3
    <2> QED
        BY <2>1, <2>2
<1>5. UsedPortsAllocated'
    BY <1>4 DEF UsedPortsAllocated, Owner, PortsOf
<1> QED
    BY <1>3, <1>5 DEF PortsSound

\* One owner gets a port that was not allocated.
LEMMA OneGains ==
    ASSUME PortsSound, NEW o \in Owner, NEW s \in Stream, NEW p \in Port,
           Held(o) \in Bindings, p \notin allocated, Untouched({o}),
           Held(o)' = [Held(o) EXCEPT ![s] = p], allocated' = allocated \cup {p}
    PROVE  PortsSound'
<1>1. NoPort \notin Port
    BY RuntimeAssumption
<1>2. \A q \in Owner, u \in Stream : Held(q)[u] # p
    BY <1>1 DEF PortsSound, UsedPortsAllocated, PortsOf, Owner
<1>3. /\ (Held(o)')[s] = p
      /\ \A u \in Stream \ {s} : (Held(o)')[u] = Held(o)[u]
    BY DEF Bindings
<1>4. \A q \in Owner \ {o} : Held(q)' = Held(q)
    BY DEF Untouched
<1>5. \A q \in Owner, u \in Stream :
         (Held(q)')[u] = Held(q)[u] \/ (q = o /\ u = s /\ (Held(q)')[u] = p)
    BY <1>3, <1>4
<1>6. PortsExclusive'
    <2> SUFFICES ASSUME NEW q \in Owner, NEW w \in Owner,
                        NEW u \in Stream, NEW v \in Stream,
                        (Held(q)')[u] # NoPort, (Held(q)')[u] = (Held(w)')[v]
                 PROVE  q = w /\ u = v
        BY DEF PortsExclusive, Owner
    <2>1. CASE (Held(q)')[u] = p
        <3>1. (Held(w)')[v] = p
            BY <2>1
        <3>2. \A x \in Owner, y \in Stream : (Held(x)')[y] = p => x = o /\ y = s
            BY <1>2, <1>5
        <3> QED
            BY <2>1, <3>1, <3>2
    <2>2. CASE (Held(q)')[u] # p
        <3>1. (Held(q)')[u] = Held(q)[u]
            BY <1>5, <2>2
        <3>2. (Held(w)')[v] = Held(w)[v]
            BY <1>5, <2>2
        <3>3. Held(q)[u] # NoPort /\ Held(q)[u] = Held(w)[v]
            BY <3>1, <3>2
        <3>4. q \in Res \cup Thread /\ w \in Res \cup Thread
            BY DEF Owner
        <3>5. PortsExclusive
            BY DEF PortsSound
        <3> HIDE DEF Owner
        <3> QED
            BY <3>3, <3>4, <3>5 DEF PortsExclusive
    <2> QED
        BY <2>1, <2>2
<1>7. ASSUME NEW q \in Owner, NEW u \in Stream, (Held(q)')[u] # NoPort
      PROVE  (Held(q)')[u] \in allocated'
    <2>1. CASE (Held(q)')[u] = Held(q)[u]
        BY <1>7, <2>1 DEF PortsSound, UsedPortsAllocated, PortsOf, Owner
    <2>2. CASE (Held(q)')[u] = p
        BY <2>2
    <2> QED
        BY <1>5, <2>1, <2>2
<1>8. UsedPortsAllocated'
    BY <1>7 DEF UsedPortsAllocated, PortsOf, Owner
<1> QED
    BY <1>6, <1>8 DEF PortsSound

\* One owner hands what it holds to another, which drops what it held.
LEMMA OneHandsOver ==
    ASSUME PortsSound, NEW o \in Owner, NEW q \in Owner, o # q,
           Untouched({o, q}), Held(q)' = Held(o), Held(o)' = NoBindings,
           allocated' = allocated
    PROVE  PortsSound'
<1>1. \A s \in Stream : NoBindings[s] = NoPort
    BY DEF NoBindings
<1>2. \A w \in Owner \ {o, q} : Held(w)' = Held(w)
    BY DEF Untouched
<1>3. PortsExclusive'
    <2> SUFFICES ASSUME NEW v \in Owner, NEW w \in Owner,
                        NEW s \in Stream, NEW u \in Stream,
                        (Held(v)')[s] # NoPort, (Held(v)')[s] = (Held(w)')[u]
                 PROVE  v = w /\ s = u
        BY DEF PortsExclusive, Owner
    <2>1. v # o /\ w # o
        BY <1>1
    <2>2. \A x \in Owner \ {o} :
             Held(x)' = IF x = q THEN Held(o) ELSE Held(x)
        BY <1>2
    <2> QED
        BY <2>1, <2>2 DEF PortsSound, PortsExclusive, Owner
<1>4. UsedPortsAllocated'
    <2> SUFFICES ASSUME NEW w \in Owner, NEW s \in Stream, (Held(w)')[s] # NoPort
                 PROVE  (Held(w)')[s] \in allocated
        BY DEF UsedPortsAllocated, PortsOf, Owner
    <2>1. w # o
        BY <1>1
    <2> QED
        BY <1>2, <2>1 DEF PortsSound, UsedPortsAllocated, PortsOf, Owner
<1> QED
    BY <1>3, <1>4 DEF PortsSound

\* What an owner holds, before and after a step of thread t.
LEMMA HeldByObjects ==
    ASSUME NEW r \in Res
    PROVE  Held(r) = heap[r].bindings /\ Held(r)' = heap'[r].bindings
BY DEF Held

LEMMA HeldByThreads ==
    ASSUME NEW t \in Thread
    PROVE  /\ Held(t) = IF rt[t].pc = "alloc" THEN rt[t].got ELSE NoBindings
           /\ Held(t)' = IF rt'[t].pc = "alloc" THEN rt'[t].got ELSE NoBindings
BY RuntimeAssumption DEF Held, At, NoBindings

\* A step that leaves every object's bindings alone touches at most t.
LEMMA OnlyThread ==
    ASSUME NEW t \in Thread, OthersWait(t),
           \A r \in Res : heap'[r].bindings = heap[r].bindings
    PROVE  Untouched({t})
BY HeldByObjects, HeldByThreads DEF Untouched, Owner, OthersWait

\* Nothing is held by a thread that is not allocating.
LEMMA NothingMoves ==
    ASSUME PortsSound, NEW t \in Thread, OthersWait(t),
           \A r \in Res : heap'[r].bindings = heap[r].bindings,
           allocated' = allocated,
           rt[t].pc # "alloc", rt'[t].pc # "alloc"
    PROVE  PortsSound'
<1>1. Held(t)' = Held(t)
    BY HeldByThreads
<1> QED
    BY <1>1, OnlyThread, NobodyMoves DEF Untouched

\* A step that changes the bindings of one object only.
LEMMA OnlyObject ==
    ASSUME NEW t \in Thread, OthersWait(t), NEW q \in Res,
           \A r \in Res \ {q} : heap'[r].bindings = heap[r].bindings
    PROVE  Untouched({t, q})
BY HeldByObjects, HeldByThreads DEF Untouched, Owner, OthersWait

\* An object's bindings are released.
LEMMA ObjectReleases ==
    ASSUME PortsSound, NEW t \in Thread, OthersWait(t), NEW q \in Res,
           \A r \in Res \ {q} : heap'[r].bindings = heap[r].bindings,
           heap'[q].bindings = NoBindings,
           allocated \ PortsOf(heap[q].bindings) \subseteq allocated',
           rt[t].pc # "alloc", rt'[t].pc = "alloc" => rt'[t].got = NoBindings
    PROVE  PortsSound'
<1>1. Held(t)' = Held(t)
    BY HeldByThreads
<1>2. Untouched({q})
    BY <1>1, OnlyObject DEF Untouched
<1>3. Held(q) = heap[q].bindings /\ Held(q)' = NoBindings
    BY HeldByObjects
<1> QED
    BY <1>2, <1>3, OneReleases DEF Owner

LEMMA SetEffect ==
    ASSUME TypeOK, NEW t, rt[t].res \in Res, NEW phase, NEW exec, NEW b,
           Set(t, phase, exec, b)
    PROVE  /\ heap'[rt[t].res].bindings = b
           /\ \A r \in Res \ {rt[t].res} : heap'[r].bindings = heap[r].bindings
BY DEF Set, TypeOK

LEMMA PortsBody ==
    ASSUME TypeOK, CallShape, PortsSound, NEW t \in Thread, Body(t)
    PROVE  PortsSound'
<1>1. /\ BodyEffect(t) /\ OthersWait(t) /\ rt[t].pc = "lock"
      /\ rt[t].got = NoBindings /\ rt[t].res \in Res
    BY BodyHasEffect DEF BodyEffect, CallShape
<1>2. rt'[t].pc = "alloc" => rt'[t].got = NoBindings
    BY <1>1 DEF BodyEffect
<1>3. CASE /\ allocated' = allocated
           /\ \A r \in Res : heap'[r].bindings = heap[r].bindings
    <2>1. Held(t)' = Held(t)
        BY <1>1, <1>2, HeldByThreads
    <2> QED
        BY <1>1, <1>3, <2>1, OnlyThread, NobodyMoves DEF Untouched
<1>4. CASE PrepareBegins(t) \/ NothingRuns(t)
    <2>1. /\ allocated' = allocated \ PortsOf(heap[rt[t].res].bindings)
          /\ \E phase, exec : Set(t, phase, exec, NoBindings)
        BY <1>4 DEF PrepareBegins, NothingRuns, R
    <2> QED
        BY <1>1, <1>2, <2>1, SetEffect, ObjectReleases
<1>5. CASE Reuse(t) \/ StopBegins(t)
    <2>1. /\ allocated' = allocated
          /\ \/ UNCHANGED heap
             \/ \E phase, exec : Set(t, phase, exec, heap[rt[t].res].bindings)
        BY <1>5 DEF Reuse, StopBegins, R
    <2>2. \A r \in Res : heap'[r].bindings = heap[r].bindings
        BY <1>1, <2>1, SetEffect
    <2> QED
        BY <1>3, <2>1, <2>2
<1> QED
    BY <1>3, <1>4, <1>5
       DEF Body, PrepareRefused, ContractViolated, StopRefused, ActiveStreamPlan,
           ResolveWebsocketStream, FetchHttpStream, SettingsBegin

LEMMA PortsAllocate ==
    ASSUME TypeOK, CallShape, PortsSound, NEW t \in Thread, AllocatePort(t)
    PROVE  PortsSound'
<1>1. PICK s \in Missing(t), p \in Port \ allocated :
         /\ rt' = [rt EXCEPT ![t].got[s] = p]
         /\ allocated' = allocated \cup {p}
    BY DEF AllocatePort
<1>2. rt[t] \in RtCall /\ s \in Stream /\ rt[t].pc = "alloc"
    BY RuntimeAssumption DEF TypeOK, CallShape, AllocatePort, At, Missing
<1>3. /\ rt'[t].pc = "alloc" /\ rt'[t].got = [rt[t].got EXCEPT ![s] = p]
      /\ OthersWait(t)
    BY <1>1, <1>2 DEF TypeOK, RtCall, OthersWait
<1>4. Held(t) = rt[t].got /\ Held(t)' = [Held(t) EXCEPT ![s] = p]
    BY <1>2, <1>3, HeldByThreads
<1>5. Held(t) \in Bindings
    BY <1>2, <1>4 DEF RtCall
<1>6. Untouched({t})
    BY <1>3, OnlyThread DEF AllocatePort
<1> QED
    BY <1>1, <1>2, <1>4, <1>5, <1>6, OneGains DEF Owner

LEMMA PortsLoad ==
    ASSUME TypeOK, CallShape, PortsSound, NEW t \in Thread, LoadGraph(t)
    PROVE  PortsSound'
<1>1. rt[t] \in RtCall /\ rt[t].res \in Res /\ rt[t].pc = "alloc"
    BY DEF TypeOK, CallShape, LoadGraph, At, Inside
<1> PICK q \in Res : q = rt[t].res
    BY <1>1
<1>2. \E phase, exec : Set(t, phase, exec, rt[t].got)
    BY DEF LoadGraph
<1>3. /\ heap'[q].bindings = rt[t].got
      /\ \A r \in Res \ {q} : heap'[r].bindings = heap[r].bindings
    BY <1>1, <1>2, SetEffect
<1>4. rt'[t].pc # "alloc" /\ OthersWait(t)
    <2>1. CASE \E o : Finish(t, o)
        BY <2>1, PlainFinishEffect
    <2>2. CASE rt' = [rt EXCEPT ![t].pc = "starting", ![t].got = NoBindings]
        BY <1>1, <2>2 DEF TypeOK, RtCall, OthersWait
    <2> QED
        BY <2>1, <2>2 DEF LoadGraph
<1>5. Held(t) = rt[t].got /\ Held(t)' = NoBindings
    BY <1>1, <1>4, HeldByThreads
<1>6. Held(q)' = Held(t)
    BY <1>1, <1>3, <1>5, HeldByObjects
<1>7. Untouched({t, q})
    BY <1>1, <1>3, <1>4, OnlyObject
<1>8. t # q /\ t \in Owner /\ q \in Owner
    BY <1>1, RuntimeAssumption DEF Owner
<1>9. allocated' = allocated
    BY DEF LoadGraph
<1> QED
    BY <1>5, <1>6, <1>7, <1>8, <1>9, OneHandsOver

\* A failing prepare drops the ports it has allocated so far.
LEMMA PortsGiveUp ==
    ASSUME TypeOK, CallShape, PortsSound, NEW t \in Thread,
           AllocationFails(t) \/ LoadFails(t)
    PROVE  PortsSound'
<1>1. rt[t].pc = "alloc" /\ UNCHANGED heap
    BY DEF AllocationFails, LoadFails, At
<1>2. rt'[t].pc = "done" /\ OthersWait(t)
    BY PlainFinishEffect DEF AllocationFails, LoadFails
<1>3. allocated \ PortsOf(rt[t].got) \subseteq allocated'
    BY DEF AllocationFails, LoadFails
<1>4. Held(t) = rt[t].got /\ Held(t)' = NoBindings
    BY <1>1, <1>2, HeldByThreads
<1>5. Untouched({t})
    BY <1>1, <1>2, OnlyThread
<1> QED
    BY <1>3, <1>4, <1>5, OneReleases DEF Owner

LEMMA PortsFind ==
    ASSUME TypeOK, CallShape, PortsSound, NEW t \in Thread, Find(t)
    PROVE  PortsSound'
<1>1. OtherEffect(t) /\ rt[t].pc = "find" /\ allocated' = allocated
    BY AdvanceHasEffect DEF Advance, Find, At
<1>2. OthersWait(t) /\ rt[t].pc # "alloc" /\ rt'[t].pc # "alloc"
    BY <1>1 DEF OtherEffect, Out, Inside
<1>3. CASE UNCHANGED heap
    BY <1>1, <1>2, <1>3, NothingMoves
<1>4. CASE \E r \in Res : heap' = [heap EXCEPT ![r] = FreshResource(rt[t].id)]
    <2>1. PICK q \in Res : heap' = [heap EXCEPT ![q] = FreshResource(rt[t].id)]
        BY <1>4
    <2>2. /\ heap'[q].bindings = NoBindings
          /\ \A r \in Res \ {q} : heap'[r].bindings = heap[r].bindings
        BY <2>1 DEF TypeOK, FreshResource
    <2>3. allocated \ PortsOf(heap[q].bindings) \subseteq allocated'
        BY <1>1
    <2> QED
        BY <1>2, <2>2, <2>3, ObjectReleases
<1> QED
    BY <1>3, <1>4 DEF Find

LEMMA PortsAdvance ==
    ASSUME TypeOK, CallShape, PortsSound, NEW t \in Thread,
           Advance(t) \/ Teardown(t)
    PROVE  PortsSound'
<1>1. CASE \/ EraseEntry(t) \/ FetchAnswered(t) \/ FetchUnreachable(t)
           \/ SettingsEnd(t) \/ SchedulerStartFails(t)
    <2>1. /\ UNCHANGED <<heap, allocated>> /\ rt[t].pc # "alloc"
          /\ \E o : Finish(t, o)
        BY <1>1 DEF EraseEntry, FetchAnswered, FetchUnreachable, SettingsEnd,
           SchedulerStartFails, At
    <2> QED
        BY <2>1, PlainFinishEffect, NothingMoves
<1>2. CASE SchedulerStarts(t) \/ SchedulerStopFails(t)
    <2>1. /\ allocated' = allocated /\ rt[t].pc \in Inside /\ rt[t].pc # "alloc"
          /\ \E o : Finish(t, o)
          /\ \/ UNCHANGED heap
             \/ \E phase, exec : Set(t, phase, exec, heap[rt[t].res].bindings)
        BY <1>2 DEF SchedulerStarts, SchedulerStopFails, At, R, Inside
    <2>2. rt[t].res \in Res
        BY <2>1 DEF CallShape
    <2>3. \A r \in Res : heap'[r].bindings = heap[r].bindings
        BY <2>1, <2>2, SetEffect
    <2> QED
        BY <2>1, <2>3, PlainFinishEffect, NothingMoves
<1>3. CASE TeardownCompletes(t)
    <2>1. /\ allocated' = allocated \ PortsOf(heap[rt[t].res].bindings)
          /\ Set(t, "Idle", "none", NoBindings)
          /\ rt[t].pc = "stopping" /\ AfterTeardown(t)
        BY <1>3 DEF TeardownCompletes, R, At
    <2>2. rt[t].res \in Res
        BY <2>1 DEF CallShape, Inside
    <2>3. rt'[t].pc # "alloc" /\ OthersWait(t)
        BY <2>1, PlainFinishEffect, GotoEffect DEF AfterTeardown
    <2> QED
        BY <2>1, <2>2, <2>3, SetEffect, ObjectReleases
<1> QED
    BY <1>1, <1>2, <1>3, PortsFind, PortsAllocate, PortsLoad, PortsGiveUp
       DEF Advance, Teardown

LEMMA PortsStep ==
    TypeOK /\ CallShape /\ PortsSound /\ [Next]_vars => PortsSound'
<1> SUFFICES ASSUME TypeOK, CallShape, PortsSound, [Next]_vars
             PROVE  PortsSound'
    OBVIOUS
<1>1. CASE UNCHANGED vars
    BY <1>1 DEF vars, PortsSound, PortsExclusive, UsedPortsAllocated, Held, At,
       PortsOf
<1>2. ASSUME NEW t \in Thread,
             \/ Return(t)
             \/ \E op \in Calls, i \in Id : \E s \in Arguments(op) : Call(t, op, i, s)
      PROVE  PortsSound'
    <2>1. /\ UNCHANGED <<heap, allocated>> /\ OthersWait(t)
          /\ rt[t].pc # "alloc" /\ rt'[t].pc # "alloc"
        BY <1>2 DEF Return, Call, NoCall, Detached, At, TypeOK, OthersWait
    <2> QED
        BY <2>1, NothingMoves
<1> QED
    BY <1>1, <1>2, PortsBody, PortsAdvance DEF Next, Step

LEMMA PortsInit == Init => PortsSound
<1> SUFFICES ASSUME Init PROVE PortsSound
    OBVIOUS
<1>1. \A o \in Owner, s \in Stream : Held(o)[s] = NoPort
    BY HeldByObjects, HeldByThreads
       DEF Init, FreshResource, NoCall, Detached, NoBindings, Owner
<1> QED
    BY <1>1 DEF PortsSound, PortsExclusive, UsedPortsAllocated, PortsOf, Owner

-----------------------------------------------------------------------------
(* Objects: whose they are, and what a step of thread t does to them.       *)

\* A call works on an object of its own session, for an operation that goes
\* where the call is; a scheduler it starts or stops is there, and while it
\* allocates ports there is none.
CallSound(t) ==
    /\ rt[t].pc \in {"lock", "erase"} \cup Inside => heap[rt[t].res].id = rt[t].id
    /\ rt[t].pc = "alloc" => /\ rt[t].op \in Preparing
                             /\ Bound(rt[t].got) \subseteq StreamsOf[rt[t].id]
                             /\ heap[rt[t].res].exec = "none"
    /\ rt[t].pc = "starting" => rt[t].op = "start"
    /\ rt[t].pc = "stopping" => rt[t].op \in Halting
    /\ rt[t].pc \in {"starting", "stopping"} => heap[rt[t].res].exec # "none"
    /\ rt[t].pc = "erase" => rt[t].op = "destroy"
    /\ rt[t].pc = "get" => rt[t].op = "fetch"
    /\ rt[t].pc = "settings" => rt[t].op = "settings"
    /\ rt[t].pc \in {"idle", "done"} => rt[t].id = NoId /\ rt[t].res = NoRes

MapSound == \A i \in Id : resources[i] # NoRes => heap[resources[i]].id = i

ObjectsSound == (\A t \in Thread : CallSound(t)) /\ MapSound /\ BindingsComplete

\* The bindings that go with an execution of session i.
Complete(exec, b, i) == Bound(b) = IF exec = "none" THEN {} ELSE StreamsOf[i]

\* The map changes only when a preparing call finds no object, or when a
\* destroy erases the entry.
MapStep(t) ==
    \/ UNCHANGED resources
    \/ /\ rt[t].pc = "find" /\ rt[t].op \in Preparing /\ rt[t].id \in Id
       /\ resources[rt[t].id] = NoRes
       /\ resources' = [resources EXCEPT ![rt[t].id] = rt'[t].res]
       /\ rt'[t].pc = "lock" /\ rt'[t].id = rt[t].id
    \/ /\ rt[t].pc = "erase" /\ rt'[t].pc = "done"
       /\ resources[rt[t].id] = rt[t].res
       /\ resources' = [resources EXCEPT ![rt[t].id] = NoRes]

\* An object changes only when it is made, or under its mutex by a call that
\* prepares or halts.
HeapStep(t) ==
    \/ UNCHANGED heap
    \/ /\ rt[t].pc = "find" /\ rt'[t].pc = "lock" /\ rt'[t].res \in Res
       /\ Unreferenced(rt'[t].res)
       /\ heap' = [heap EXCEPT ![rt'[t].res] = FreshResource(rt[t].id)]
    \/ /\ rt[t].op \in Preparing \cup Halting
       /\ rt[t].res \in Res
       /\ \/ rt[t].pc = "lock" /\ lock[rt[t].res] = NoThread
          \/ rt[t].pc \in Inside
       /\ \E phase, exec, b : /\ Set(t, phase, exec, b)
                              /\ Complete(exec, b, rt[t].id)

\* A call keeps its session, and from the lock to the end its object, which at
\* the lock is the one in the map.
SameObject(t) ==
    /\ rt[t].pc = "find" /\ rt'[t].pc = "lock" =>
          /\ rt'[t].op = rt[t].op /\ rt'[t].id = rt[t].id
          /\ resources'[rt[t].id] = rt'[t].res
    /\ rt'[t].pc \in {"erase"} \cup Inside =>
          rt[t].pc \in {"lock"} \cup Inside /\ SameCall(t)
    /\ rt'[t].pc = "lock" => rt[t].pc = "find"

StepSound(t) == OthersWait(t) /\ MapStep(t) /\ HeapStep(t) /\ CallSound(t)'

LEMMA NothingBound == Bound(NoBindings) = {}
BY DEF Bound, NoBindings

\* The fields of the object t works on, after Set.
LEMMA SetFields ==
    ASSUME TypeOK, NEW t, rt[t].res \in Res, NEW phase, NEW exec, NEW b,
           Set(t, phase, exec, b)
    PROVE  /\ heap'[rt[t].res].id = heap[rt[t].res].id
           /\ heap'[rt[t].res].phase = phase
           /\ heap'[rt[t].res].exec = exec
           /\ heap'[rt[t].res].bindings = b
           /\ \A r \in Res \ {rt[t].res} : heap'[r] = heap[r]
BY DEF Set, TypeOK

\* A call that is over has nothing to answer for.
LEMMA OverIsSound ==
    ASSUME NEW t \in Thread, rt'[t].pc \in {"idle", "find", "done", "get"},
           rt'[t].pc = "get" => rt'[t].op = "fetch",
           rt'[t].pc \in {"idle", "done"} => rt'[t].id = NoId /\ rt'[t].res = NoRes
    PROVE  CallSound(t)'
BY DEF CallSound, Inside

\* A step that changes neither the map nor an object, and ends the call.
LEMMA QuietEnd ==
    ASSUME NEW t \in Thread, UNCHANGED <<resources, heap>>, OthersWait(t),
           rt'[t].pc \in {"idle", "find", "done", "get"},
           rt'[t].pc = "get" => rt'[t].op = "fetch",
           rt'[t].pc \in {"idle", "done"} => rt'[t].id = NoId /\ rt'[t].res = NoRes
    PROVE  StepSound(t)
BY OverIsSound DEF StepSound, MapStep, HeapStep

\* What the object of a call is like when the call is about to lock it.
LEMMA ObjectAtLock ==
    ASSUME TypeOK, CallShape, ObjectsSound, NEW t \in Thread,
           rt[t].pc \in {"lock"} \cup Inside
    PROVE  /\ rt[t].res \in Res /\ rt[t].id \in Id
           /\ R(t) = heap[rt[t].res] /\ R(t).id = rt[t].id
           /\ Complete(R(t).exec, R(t).bindings, rt[t].id)
<1>1. rt[t].res \in Res /\ rt[t].id \in Id
    BY DEF CallShape, Inside
<1>2. heap[rt[t].res].id = rt[t].id
    BY DEF ObjectsSound, CallSound
<1> QED
    BY <1>1, <1>2 DEF ObjectsSound, BindingsComplete, Complete, R

LEMMA SoundBody ==
    ASSUME TypeOK, CallShape, ObjectsSound, NEW t \in Thread, Body(t)
    PROVE  StepSound(t)
<1>1. BodyEffect(t) /\ OthersWait(t) /\ rt[t].pc = "lock"
    BY BodyHasEffect DEF BodyEffect
<1>2. /\ rt[t].res \in Res /\ rt[t].id \in Id
      /\ R(t) = heap[rt[t].res] /\ heap[rt[t].res].id = rt[t].id
      /\ Complete(R(t).exec, R(t).bindings, rt[t].id)
    BY <1>1, ObjectAtLock
<1>3. Complete("none", NoBindings, rt[t].id)
    BY NothingBound DEF Complete
<1>4. ASSUME NEW phase, NEW exec, NEW b, Set(t, phase, exec, b),
             Complete(exec, b, rt[t].id), UNCHANGED resources,
             rt[t].op \in Preparing \cup Halting, lock[rt[t].res] = NoThread,
             CallSound(t)'
      PROVE  StepSound(t)
    BY <1>1, <1>2, <1>4 DEF StepSound, MapStep, HeapStep
<1>5. CASE PrepareRefused(t) \/ ContractViolated(t) \/ StopRefused(t)
    BY <1>1, <1>5, QuietEnd, PlainFinishEffect
       DEF PrepareRefused, ContractViolated, StopRefused
<1>6. CASE Reuse(t)
    <2>1. CASE Finish(t, "ok") /\ UNCHANGED heap
        BY <1>1, <1>6, <2>1, QuietEnd, PlainFinishEffect DEF Reuse
    <2>2. CASE rt[t].op = "start" /\ Set(t, "Starting", R(t).exec, R(t).bindings)
               /\ Goto(t, "starting")
        <3>1. R(t).exec # "none" /\ lock[rt[t].res] = NoThread /\ UNCHANGED resources
            BY <1>6 DEF Reuse, Enter
        <3>2. SameCall(t) /\ rt'[t].pc = "starting"
            BY <2>2, GotoEffect
        <3>3. heap'[rt[t].res].id = rt[t].id /\ heap'[rt[t].res].exec # "none"
            BY <1>2, <2>2, <3>1, SetFields
        <3>4. CallSound(t)'
            BY <2>2, <3>2, <3>3 DEF CallSound, SameCall
        <3> QED
            BY <1>2, <1>4, <2>2, <3>1, <3>2, <3>4 DEF Preparing
    <2> QED
        BY <1>6, <2>1, <2>2 DEF Reuse
<1>7. CASE PrepareBegins(t)
    <2>1. /\ rt[t].op \in Preparing /\ lock[rt[t].res] = NoThread
          /\ Set(t, R(t).phase, "none", NoBindings) /\ Goto(t, "alloc")
          /\ UNCHANGED resources
        BY <1>7 DEF PrepareBegins, Enter
    <2>2. SameCall(t) /\ rt'[t].pc = "alloc" /\ rt'[t].got = NoBindings
        BY <1>1, <2>1, GotoEffect DEF CallShape
    <2>3. heap'[rt[t].res].id = rt[t].id /\ heap'[rt[t].res].exec = "none"
        BY <1>2, <2>1, SetFields
    <2>4. CallSound(t)'
        BY <2>1, <2>2, <2>3, NothingBound DEF CallSound, SameCall
    <2> QED
        BY <1>3, <1>4, <2>1, <2>2, <2>4
<1>8. CASE NothingRuns(t)
    <2>1. /\ rt[t].op \in Halting /\ lock[rt[t].res] = NoThread
          /\ Set(t, "Idle", "none", NoBindings) /\ AfterTeardown(t)
          /\ UNCHANGED resources
        BY <1>8 DEF NothingRuns, Enter
    <2>2. CASE rt[t].op = "destroy" /\ Goto(t, "erase")
        <3>1. SameCall(t) /\ rt'[t].pc = "erase"
            BY <2>2, GotoEffect
        <3>2. heap'[rt[t].res].id = rt[t].id
            BY <1>2, <2>1, SetFields
        <3>3. CallSound(t)'
            BY <2>2, <3>1, <3>2 DEF CallSound, SameCall, Inside
        <3> QED
            BY <1>3, <1>4, <2>1, <3>1, <3>3
    <2>3. CASE Finish(t, "ok")
        <3>1. rt'[t].pc = "done" /\ CallSound(t)'
            BY <2>3, PlainFinishEffect, OverIsSound
        <3> QED
            BY <1>3, <1>4, <2>1, <3>1
    <2> QED
        BY <2>1, <2>2, <2>3 DEF AfterTeardown
<1>9. CASE StopBegins(t)
    <2>1. /\ rt[t].op \in Halting /\ lock[rt[t].res] = NoThread
          /\ Set(t, "Stopping", R(t).exec, R(t).bindings) /\ Goto(t, "stopping")
          /\ UNCHANGED resources /\ R(t).exec # "none"
        BY <1>9 DEF StopBegins, Enter
    <2>2. SameCall(t) /\ rt'[t].pc = "stopping"
        BY <2>1, GotoEffect
    <2>3. heap'[rt[t].res].id = rt[t].id /\ heap'[rt[t].res].exec # "none"
        BY <1>2, <2>1, SetFields
    <2>4. CallSound(t)'
        BY <2>1, <2>2, <2>3 DEF CallSound, SameCall
    <2> QED
        BY <1>2, <1>4, <2>1, <2>2, <2>4
<1>10. CASE ActiveStreamPlan(t) \/ ResolveWebsocketStream(t) \/ FetchHttpStream(t)
    <2>1. UNCHANGED <<resources, heap>>
        BY <1>10 DEF ActiveStreamPlan, ResolveWebsocketStream, FetchHttpStream
    <2>2. /\ rt'[t].pc \in {"done", "get"}
          /\ rt'[t].pc = "get" => rt'[t].op = "fetch"
          /\ rt'[t].pc = "done" => rt'[t].id = NoId /\ rt'[t].res = NoRes
        <3>1. CASE \E o, streams : FinishWith(t, o, streams)
            BY <3>1, FinishEffect
        <3>2. CASE FetchHttpStream(t)
            BY <3>2, <3>1 DEF FetchHttpStream, Finish, Enter, TypeOK, RtCall
        <3> QED
            BY <1>10, <3>1, <3>2
               DEF ActiveStreamPlan, ResolveWebsocketStream, Finish
    <2> QED
        BY <1>1, <2>1, <2>2, QuietEnd
<1>11. CASE SettingsBegin(t)
    <2>1. CASE Goto(t, "settings")
        <3>1. SameCall(t) /\ rt'[t].pc = "settings" /\ UNCHANGED <<resources, heap>>
            BY <1>11, <2>1, GotoEffect DEF SettingsBegin
        <3>2. CallSound(t)'
            BY <1>2, <1>11, <3>1 DEF CallSound, SameCall, Inside, SettingsBegin, Enter
        <3> QED
            BY <1>1, <3>1, <3>2 DEF StepSound, MapStep, HeapStep
    <2>2. CASE Finish(t, "throw")
        BY <1>1, <1>11, <2>2, QuietEnd, PlainFinishEffect DEF SettingsBegin
    <2> QED
        BY <1>11, <2>1, <2>2 DEF SettingsBegin
<1> QED
    BY <1>5, <1>6, <1>7, <1>8, <1>9, <1>10, <1>11 DEF Body

LEMMA SoundFind ==
    ASSUME TypeOK, CallShape, ObjectsSound, NEW t \in Thread, Find(t)
    PROVE  StepSound(t)
<1> DEFINE i == rt[t].id
<1>1. rt[t].pc = "find" /\ i \in Id /\ rt[t] \in RtCall
    BY DEF Find, At, CallShape, TypeOK
<1>2. ASSUME NEW r \in Res, rt' = [rt EXCEPT ![t].pc = "lock", ![t].res = r]
      PROVE  /\ rt'[t].pc = "lock" /\ rt'[t].res = r
             /\ rt'[t].op = rt[t].op /\ rt'[t].id = i /\ OthersWait(t)
    BY <1>1, <1>2 DEF TypeOK, RtCall, OthersWait
<1>3. CASE /\ resources[i] # NoRes /\ UNCHANGED <<resources, heap>>
           /\ rt' = [rt EXCEPT ![t].pc = "lock", ![t].res = resources[i]]
    <2>1. resources[i] \in Res /\ heap[resources[i]].id = i
        BY <1>1, <1>3 DEF TypeOK, ObjectsSound, MapSound
    <2>2. CallSound(t)'
        BY <1>2, <1>3, <2>1 DEF CallSound, Inside
    <2> QED
        BY <1>2, <1>3, <2>1, <2>2 DEF StepSound, MapStep, HeapStep
<1>4. ASSUME NEW r \in Res, Unreferenced(r), rt[t].op \in Preparing,
             resources[i] = NoRes,
             resources' = [resources EXCEPT ![i] = r],
             heap' = [heap EXCEPT ![r] = FreshResource(i)],
             rt' = [rt EXCEPT ![t].pc = "lock", ![t].res = r]
      PROVE  StepSound(t)
    <2>1. heap'[r].id = i
        BY <1>4 DEF TypeOK, FreshResource
    <2>2. CallSound(t)'
        BY <1>2, <1>4, <2>1 DEF CallSound, Inside
    <2>3. MapStep(t) /\ HeapStep(t)
        BY <1>1, <1>2, <1>4 DEF MapStep, HeapStep
    <2> QED
        BY <1>2, <1>4, <2>2, <2>3 DEF StepSound
<1>5. CASE /\ UNCHANGED <<resources, heap>> /\ \E o : Finish(t, o)
    BY <1>5, PlainFinishEffect, QuietEnd
<1> QED
    BY <1>3, <1>4, <1>5 DEF Find

LEMMA SoundAllocate ==
    ASSUME TypeOK, CallShape, ObjectsSound, NEW t \in Thread, AllocatePort(t)
    PROVE  StepSound(t)
<1>1. PICK s \in Missing(t), p \in Port : rt' = [rt EXCEPT ![t].got[s] = p]
    BY DEF AllocatePort
<1>2. /\ rt[t].pc = "alloc" /\ rt[t] \in RtCall /\ rt[t].id \in Id
      /\ s \in StreamsOf[rt[t].id] /\ UNCHANGED <<resources, heap>>
    BY DEF AllocatePort, At, TypeOK, CallShape, Missing
<1>3. /\ rt'[t].pc = "alloc" /\ SameCall(t) /\ OthersWait(t)
      /\ rt'[t].got = [rt[t].got EXCEPT ![s] = p]
    BY <1>1, <1>2 DEF TypeOK, RtCall, SameCall, OthersWait
<1>4. Bound(rt'[t].got) \subseteq Bound(rt[t].got) \cup {s}
    BY <1>2, <1>3 DEF Bound, Bindings, RtCall
<1>5. CallSound(t)
    BY DEF ObjectsSound
<1>6. CallSound(t)'
    BY <1>2, <1>3, <1>4, <1>5 DEF CallSound, SameCall, Inside
<1> QED
    BY <1>2, <1>3, <1>6 DEF StepSound, MapStep, HeapStep

LEMMA SoundLoad ==
    ASSUME TypeOK, CallShape, ObjectsSound, NEW t \in Thread, LoadGraph(t)
    PROVE  StepSound(t)
<1>1. /\ rt[t].pc = "alloc" /\ rt[t] \in RtCall /\ Missing(t) = {}
      /\ UNCHANGED resources
    BY DEF LoadGraph, At, TypeOK
<1>2. rt[t].res \in Res /\ rt[t].id \in Id /\ heap[rt[t].res].id = rt[t].id
    BY <1>1, ObjectAtLock DEF Inside
<1>3. rt[t].op \in Preparing /\ Bound(rt[t].got) = StreamsOf[rt[t].id]
    BY <1>1 DEF ObjectsSound, CallSound, Missing
<1>4. Complete("built", rt[t].got, rt[t].id)
    BY <1>3 DEF Complete
<1>5. PICK phase : Set(t, phase, "built", rt[t].got)
    BY DEF LoadGraph
<1>6. heap'[rt[t].res].id = rt[t].id /\ heap'[rt[t].res].exec # "none"
    BY <1>2, <1>5, SetFields
<1>7. MapStep(t) /\ HeapStep(t)
    BY <1>1, <1>2, <1>3, <1>4, <1>5 DEF MapStep, HeapStep, Inside
<1>8. OthersWait(t) /\ CallSound(t)'
    <2>1. CASE rt[t].op = "start" /\ rt' = [rt EXCEPT ![t].pc = "starting",
                                                      ![t].got = NoBindings]
        <3>1. rt'[t].pc = "starting" /\ SameCall(t) /\ OthersWait(t)
            BY <1>1, <2>1 DEF TypeOK, RtCall, SameCall, OthersWait
        <3> QED
            BY <1>6, <2>1, <3>1 DEF CallSound, SameCall
    <2>2. CASE Finish(t, "ok")
        BY <2>2, PlainFinishEffect, OverIsSound
    <2> QED
        BY <2>1, <2>2 DEF LoadGraph
<1> QED
    BY <1>7, <1>8 DEF StepSound

LEMMA SoundAdvance ==
    ASSUME TypeOK, CallShape, ObjectsSound, NEW t \in Thread,
           Advance(t) \/ Teardown(t)
    PROVE  StepSound(t)
<1>1. CASE \/ AllocationFails(t) \/ LoadFails(t) \/ SchedulerStartFails(t)
           \/ FetchAnswered(t) \/ FetchUnreachable(t) \/ SettingsEnd(t)
    <2>1. UNCHANGED <<resources, heap>> /\ \E o : Finish(t, o)
        BY <1>1 DEF AllocationFails, LoadFails, SchedulerStartFails,
           FetchAnswered, FetchUnreachable, SettingsEnd
    <2> QED
        BY <2>1, PlainFinishEffect, QuietEnd
<1>2. CASE EraseEntry(t)
    <2>1. rt'[t].pc = "done" /\ OthersWait(t) /\ CallSound(t)'
        BY <1>2, PlainFinishEffect, OverIsSound DEF EraseEntry
    <2> QED
        BY <1>2, <2>1 DEF EraseEntry, At, StepSound, MapStep, HeapStep
<1>3. CASE SchedulerStarts(t) \/ SchedulerStopFails(t)
    <2>1. /\ rt[t].pc \in {"starting", "stopping"} /\ UNCHANGED resources
          /\ \E o : Finish(t, o)
        BY <1>3 DEF SchedulerStarts, SchedulerStopFails, At
    <2>2. /\ rt[t].res \in Res
          /\ Complete(R(t).exec, R(t).bindings, rt[t].id)
          /\ R(t) = heap[rt[t].res]
        BY <2>1, ObjectAtLock DEF Inside
    <2>3. R(t).exec # "none" /\ rt[t].op \in Preparing \cup Halting
        BY <2>1, <2>2 DEF ObjectsSound, CallSound, Preparing
    <2>4. Complete("running", R(t).bindings, rt[t].id)
        BY <2>2, <2>3 DEF Complete
    <2>5. UNCHANGED heap \/ \E phase : Set(t, phase, "running", R(t).bindings)
        BY <1>3 DEF SchedulerStarts, SchedulerStopFails
    <2>6. HeapStep(t)
        BY <2>1, <2>2, <2>3, <2>4, <2>5 DEF HeapStep, Inside
    <2> QED
        BY <2>1, <2>6, PlainFinishEffect, OverIsSound DEF StepSound, MapStep
<1>4. CASE TeardownCompletes(t)
    <2>1. /\ rt[t].pc = "stopping" /\ UNCHANGED resources
          /\ Set(t, "Idle", "none", NoBindings) /\ AfterTeardown(t)
        BY <1>4 DEF TeardownCompletes, At
    <2>2. rt[t].res \in Res /\ heap[rt[t].res].id = rt[t].id
        BY <2>1, ObjectAtLock DEF Inside
    <2>3. rt[t].op \in Halting
        BY <2>1 DEF ObjectsSound, CallSound
    <2>4. HeapStep(t)
        BY <2>1, <2>2, <2>3, NothingBound DEF HeapStep, Inside, Complete
    <2>5. heap'[rt[t].res].id = rt[t].id
        BY <2>1, <2>2, SetFields
    <2>6. OthersWait(t) /\ CallSound(t)'
        <3>1. CASE rt[t].op = "destroy" /\ Goto(t, "erase")
            <4>1. rt'[t].pc = "erase" /\ SameCall(t) /\ OthersWait(t)
                BY <3>1, GotoEffect
            <4> QED
                BY <2>5, <3>1, <4>1 DEF CallSound, SameCall, Inside
        <3>2. CASE Finish(t, "ok")
            BY <3>2, PlainFinishEffect, OverIsSound
        <3> QED
            BY <2>1, <3>1, <3>2 DEF AfterTeardown
    <2> QED
        BY <2>1, <2>4, <2>6 DEF StepSound, MapStep
<1> QED
    BY <1>1, <1>2, <1>3, <1>4, SoundFind, SoundAllocate, SoundLoad
       DEF Advance, Teardown

\* Objects other threads work on stay theirs.
LEMMA ObjectsKept ==
    ASSUME TypeOK, TypeOK', CallShape, MutexHeldInside, ObjectsSound,
           NEW t \in Thread, StepSound(t)
    PROVE  ObjectsSound'
<1>1. OthersWait(t) /\ MapStep(t) /\ HeapStep(t) /\ CallSound(t)'
    BY DEF StepSound
<1>2. ASSUME NEW r \in Res, ~ Unreferenced(r)
      PROVE  heap'[r].id = heap[r].id
    <2>1. heap'[r] = heap[r] \/ heap'[r].id = heap[r].id
        BY <1>1, <1>2, SetFields DEF HeapStep, TypeOK
    <2> QED
        BY <2>1
<1>3. ASSUME NEW u \in Thread \ {t} PROVE CallSound(u)'
    <2>1. CallSound(u) /\ rt'[u] = rt[u]
        BY <1>1 DEF ObjectsSound, OthersWait
    <2>2. CASE rt[u].pc \in {"lock", "erase"} \cup Inside
        <3>1. rt[u].res \in Res /\ ~ Unreferenced(rt[u].res)
            BY <2>2 DEF CallShape, Unreferenced
        <3>2. heap'[rt[u].res].id = heap[rt[u].res].id
            BY <1>2, <3>1
        <3>3. ASSUME rt[u].pc \in {"alloc", "starting", "stopping"}
              PROVE  heap'[rt[u].res] = heap[rt[u].res]
            <4>1. lock[rt[u].res] = u
                BY <3>1, <3>3 DEF MutexHeldInside, Inside
            <4>2. rt[t].res # rt[u].res \/ ~ (rt[t].pc \in Inside)
                BY <3>1, <4>1 DEF MutexHeldInside
            <4>3. lock[rt[u].res] # NoThread
                BY <4>1, RuntimeAssumption
            <4>4. CASE rt[t].res = rt[u].res
                <5>1. \/ UNCHANGED heap
                      \/ /\ rt'[t].res \in Res /\ Unreferenced(rt'[t].res)
                         /\ heap' = [heap EXCEPT
                                     ![rt'[t].res] = FreshResource(rt[t].id)]
                    BY <1>1, <4>2, <4>3, <4>4 DEF HeapStep
                <5> QED
                    BY <3>1, <5>1 DEF TypeOK, Unreferenced
            <4>5. CASE rt[t].res # rt[u].res
                BY <1>1, <3>1, <4>5, SetFields DEF HeapStep, TypeOK
            <4> QED
                BY <4>4, <4>5
        <3> QED
            BY <2>1, <3>2, <3>3 DEF CallSound
    <2>3. CASE rt[u].pc \notin {"lock", "erase"} \cup Inside
        BY <2>1, <2>3 DEF CallSound, Inside
    <2> QED
        BY <2>2, <2>3
<1>4. MapSound'
    <2> SUFFICES ASSUME NEW i \in Id, resources'[i] # NoRes
                 PROVE  heap'[resources'[i]].id = i
        BY DEF MapSound
    <2>1. CASE resources'[i] = resources[i]
        <3>1. resources[i] \in Res /\ ~ Unreferenced(resources[i])
            BY <2>1 DEF TypeOK, Unreferenced
        <3> QED
            BY <1>2, <2>1, <3>1 DEF ObjectsSound, MapSound
    <2>2. CASE /\ rt[t].pc = "find" /\ i = rt[t].id /\ resources'[i] = rt'[t].res
               /\ rt'[t].pc = "lock" /\ rt'[t].id = rt[t].id
        <3>1. heap'[rt'[t].res].id = rt'[t].id
            BY <1>1, <2>2 DEF CallSound
        <3> QED
            BY <2>2, <3>1
    <2> QED
        BY <1>1, <2>1, <2>2 DEF MapStep, TypeOK
<1>5. BindingsComplete'
    <2> SUFFICES ASSUME NEW r \in Res
                 PROVE  Complete(heap'[r].exec, heap'[r].bindings, heap'[r].id)
        BY DEF BindingsComplete, Complete
    <2>1. CASE heap'[r] = heap[r]
        BY <2>1 DEF ObjectsSound, BindingsComplete, Complete
    <2>2. CASE heap'[r] = FreshResource(rt[t].id)
        BY <2>2, NothingBound DEF FreshResource, Complete
    <2>3. ASSUME r = rt[t].res, rt[t].pc \in {"lock"} \cup Inside,
                 NEW phase, NEW exec, NEW b,
                 Set(t, phase, exec, b), Complete(exec, b, rt[t].id)
          PROVE  Complete(heap'[r].exec, heap'[r].bindings, heap'[r].id)
        BY <2>3, SetFields, ObjectAtLock
    <2> QED
        BY <1>1, <2>1, <2>2, <2>3, SetFields DEF HeapStep, TypeOK
<1> QED
    BY <1>1, <1>3, <1>4, <1>5 DEF ObjectsSound

LEMMA ObjectsInit == Init => ObjectsSound
<1> SUFFICES ASSUME Init PROVE ObjectsSound
    OBVIOUS
<1>1. \A t \in Thread : rt[t].pc = "idle" /\ rt[t].id = NoId /\ rt[t].res = NoRes
    BY DEF Init, NoCall, Detached
<1>2. \A r \in Res : heap[r].exec = "none" /\ heap[r].bindings = NoBindings
    BY DEF Init, FreshResource
<1>3. MapSound
    BY DEF Init, MapSound
<1> QED
    BY <1>1, <1>2, <1>3, NothingBound
       DEF ObjectsSound, CallSound, BindingsComplete, Inside

\* Every step of the system is a sound step of some thread.
LEMMA StepIsSound ==
    ASSUME TypeOK, CallShape, ObjectsSound, Next
    PROVE  \E t \in Thread : StepSound(t)
<1>1. ASSUME NEW t \in Thread,
             \/ Return(t)
             \/ \E op \in Calls, i \in Id : \E s \in Arguments(op) : Call(t, op, i, s)
      PROVE  StepSound(t)
    BY <1>1, QuietEnd
       DEF Return, Call, NoCall, Detached, At, TypeOK, OthersWait
<1> QED
    BY <1>1, SoundBody, SoundAdvance DEF Next, Step

LEMMA ObjectsStep ==
    TypeOK /\ CallShape /\ MutexHeldInside /\ ObjectsSound /\ [Next]_vars
        => ObjectsSound'
<1> SUFFICES ASSUME TypeOK, CallShape, MutexHeldInside, ObjectsSound, [Next]_vars
             PROVE  ObjectsSound'
    OBVIOUS
<1>1. CASE UNCHANGED vars
    BY <1>1 DEF vars, ObjectsSound, CallSound, MapSound, BindingsComplete
<1>2. CASE Next
    BY <1>2, TypeStep, StepIsSound, ObjectsKept
<1> QED
    BY <1>1, <1>2

-----------------------------------------------------------------------------
(* What a call has achieved when it is over.                                *)

LEMMA BodyKeepsObject ==
    ASSUME TypeOK, CallShape, NEW t \in Thread, Body(t)
    PROVE  SameObject(t)
BY BodyHasEffect DEF BodyEffect, SameObject, Inside, SameCall

LEMMA FindKeepsObject ==
    ASSUME TypeOK, CallShape, NEW t \in Thread, Find(t)
    PROVE  SameObject(t)
<1> DEFINE i == rt[t].id
<1>1. rt[t].pc = "find" /\ i \in Id /\ rt[t] \in RtCall
    BY DEF Find, At, CallShape, TypeOK
<1>2. ASSUME NEW r \in Res, rt' = [rt EXCEPT ![t].pc = "lock", ![t].res = r],
             resources'[i] = r
      PROVE  SameObject(t)
    BY <1>1, <1>2 DEF TypeOK, RtCall, SameObject, Inside
<1>3. CASE \E o : Finish(t, o)
    BY <1>3, PlainFinishEffect DEF SameObject, Inside
<1>4. resources[i] \in Res \cup {NoRes} /\ resources \in [Id -> Res \cup {NoRes}]
    BY <1>1 DEF TypeOK
<1> QED
    BY <1>1, <1>2, <1>3, <1>4 DEF Find

\* A step of a call ends it, or leaves it the same call.
LEMMA StepGoesOn ==
    ASSUME TypeOK, NEW t \in Thread, Step(t)
    PROVE  /\ rt[t].pc \notin {"idle", "done"}
           /\ \/ rt'[t].pc = "done"
              \/ /\ rt'[t].pc \notin {"idle", "find", "done"}
                 /\ rt'[t].op = rt[t].op /\ rt'[t].id = rt[t].id
<1>1. rt[t] \in RtCall
    BY DEF TypeOK
<1>2. rt[t].pc \notin {"idle", "done"}
    BY DEF Step, Body, Advance, Teardown, PrepareRefused, Reuse,
       ContractViolated, PrepareBegins, NothingRuns, StopRefused, StopBegins,
       ActiveStreamPlan, ResolveWebsocketStream, FetchHttpStream,
       SettingsBegin, Find, EraseEntry, AllocatePort, AllocationFails,
       LoadGraph, LoadFails, SchedulerStarts, SchedulerStartFails,
       FetchAnswered, FetchUnreachable, SettingsEnd, TeardownCompletes,
       SchedulerStopFails, Enter, At
<1>3. CASE \E o, streams : FinishWith(t, o, streams)
    BY <1>2, <1>3, FinishEffect
<1>4. CASE \E pc \in {"alloc", "starting", "stopping", "erase", "settings"} :
              Goto(t, pc)
    BY <1>2, <1>4, GotoEffect DEF SameCall
<1>5. CASE Find(t)
    <2>1. CASE \E r : rt' = [rt EXCEPT ![t].pc = "lock", ![t].res = r]
        BY <1>1, <1>2, <2>1 DEF TypeOK, RtCall
    <2> QED
        BY <1>3, <1>5, <2>1 DEF Find, Finish
<1>6. CASE AllocatePort(t)
    <2>1. PICK s \in Missing(t), p \in Port : rt' = [rt EXCEPT ![t].got[s] = p]
        BY <1>6 DEF AllocatePort
    <2> DEFINE g == [rt[t].got EXCEPT ![s] = p]
    <2>2. rt' = [rt EXCEPT ![t] = [rt[t] EXCEPT !.got = g]]
        BY <2>1
    <2> HIDE DEF g
    <2> QED
        BY <1>1, <1>2, <1>6, <2>2 DEF AllocatePort, At, TypeOK, RtCall
<1>7. CASE LoadGraph(t)
    <2>1. CASE rt[t].op = "start"
        BY <1>1, <1>2, <1>7, <2>1 DEF LoadGraph, TypeOK, RtCall
    <2> QED
        BY <1>3, <1>7, <2>1 DEF LoadGraph, Finish
<1>8. CASE FetchHttpStream(t)
    <2>1. CASE ~ Finish(t, "throw")
        <3>1. rt' = [rt EXCEPT ![t].pc = "get", ![t].res = NoRes,
                               ![t].got[rt[t].arg] = R(t).bindings[rt[t].arg]]
            BY <1>8, <2>1 DEF FetchHttpStream
        <3> QED
            BY <1>1, <1>2, <3>1 DEF TypeOK, RtCall
    <2> QED
        BY <1>3, <2>1 DEF Finish
<1> QED
    BY <1>3, <1>4, <1>5, <1>6, <1>7, <1>8 DEF Step, Body, Advance, Teardown,
       PrepareRefused, Reuse, ContractViolated, PrepareBegins, NothingRuns,
       StopRefused, StopBegins, ActiveStreamPlan, ResolveWebsocketStream,
       SettingsBegin, EraseEntry, AllocationFails, LoadFails, SchedulerStarts,
       SchedulerStartFails, FetchAnswered, FetchUnreachable, SettingsEnd,
       TeardownCompletes, SchedulerStopFails, AfterTeardown, Finish

LEMMA OtherKeepsObject ==
    ASSUME TypeOK, CallShape, NEW t \in Thread, OtherEffect(t),
           ~ (rt[t].pc = "find" /\ rt'[t].pc = "lock")
    PROVE  SameObject(t)
BY DEF OtherEffect, Out, SameObject, Inside, SameCall

LEMMA StepKeepsObject ==
    ASSUME TypeOK, CallShape, NEW t \in Thread, Step(t)
    PROVE  SameObject(t)
<1>1. CASE Body(t)
    BY <1>1, BodyKeepsObject
<1>2. CASE Find(t)
    BY <1>2, FindKeepsObject
<1>3. CASE (Advance(t) \/ Teardown(t)) /\ ~ Find(t)
    <2>1. rt[t].pc # "find"
        BY <1>3 DEF Advance, Teardown, EraseEntry, AllocatePort,
           AllocationFails, LoadGraph, LoadFails, SchedulerStarts,
           SchedulerStartFails, FetchAnswered, FetchUnreachable, SettingsEnd,
           TeardownCompletes, SchedulerStopFails, At
    <2> QED
        BY <1>3, <2>1, AdvanceHasEffect, OtherKeepsObject
<1> QED
    BY <1>1, <1>2, <1>3 DEF Step, Advance

\* "ok" to a start: the scheduler of the object runs.  "ok" to a stop: it had
\* no object, or nothing is left of the execution.  "ok" to a destroy: the
\* object is not in the map.  A plan returns all streams or none.
Achieved(t) ==
    /\ rt[t].op = "start" =>
          /\ rt[t].pc \in {"lock"} \cup Inside
          /\ heap'[rt[t].res].exec = "running"
          /\ heap'[rt[t].res].phase = "Running"
    /\ rt[t].op = "stop" =>
          \/ rt[t].pc = "find" /\ resources[rt[t].id] = NoRes
          \/ /\ rt[t].pc \in {"lock"} \cup Inside
             /\ heap'[rt[t].res].exec = "none"
    /\ rt[t].op = "destroy" =>
          \/ rt[t].pc = "find" /\ resources[rt[t].id] = NoRes
          \/ rt[t].pc = "erase" /\ resources'[rt[t].id] # rt[t].res

LEMMA OutcomeOfFind ==
    ASSUME TypeOK, CallShape, NEW t \in Thread, Find(t), rt'[t].pc = "done"
    PROVE  /\ rt'[t].outcome = "ok" => Achieved(t)
           /\ rt'[t].streams = {}
<1>1. rt[t].pc = "find" /\ rt[t] \in RtCall
    BY DEF Find, At, TypeOK
<1>2. ASSUME NEW r, rt' = [rt EXCEPT ![t].pc = "lock", ![t].res = r]
      PROVE  FALSE
    BY <1>1, <1>2 DEF TypeOK, RtCall
<1>3. /\ resources[rt[t].id] = NoRes /\ rt[t].op \notin Preparing
      /\ \E o : Finish(t, o)
    BY <1>2 DEF Find
<1> QED
    BY <1>1, <1>3, PlainFinishEffect DEF Achieved, Preparing

\* Steps of other kinds that can end a call with "ok".
LEMMA OutcomeOfStep ==
    ASSUME TypeOK, CallShape, ObjectsSound, NEW t \in Thread, Step(t),
           rt'[t].pc = "done"
    PROVE  /\ rt'[t].outcome = "ok" => Achieved(t)
           /\ rt'[t].streams \in {{}, StreamsOf[rt[t].id]}
<1>1. rt[t] \in RtCall
    BY DEF TypeOK
<1>2. CASE PrepareRefused(t) \/ ContractViolated(t) \/ StopRefused(t)
           \/ AllocationFails(t) \/ LoadFails(t) \/ SchedulerStartFails(t)
           \/ FetchUnreachable(t) \/ SchedulerStopFails(t)
    <2>1. \E o \in {"throw", "unreachable"} : Finish(t, o)
        BY <1>2 DEF PrepareRefused, ContractViolated, StopRefused,
           AllocationFails, LoadFails, SchedulerStartFails, FetchUnreachable,
           SchedulerStopFails
    <2> QED
        BY <2>1, PlainFinishEffect
<1>3. CASE Reuse(t)
    <2>1. rt[t].pc = "lock" /\ rt[t].res \in Res /\ R(t) = heap[rt[t].res]
        BY <1>3 DEF Reuse, Enter, At, CallShape, R
    <2>2. ~ Goto(t, "starting")
        BY GotoEffect
    <2>3. /\ Finish(t, "ok") /\ UNCHANGED heap /\ rt[t].op \in Preparing
          /\ rt[t].op = "start" => R(t).exec = "running" /\ R(t).phase = "Running"
        BY <1>3, <2>2 DEF Reuse, Enter
    <2> QED
        BY <2>1, <2>3, PlainFinishEffect DEF Achieved, Preparing
<1>4. CASE PrepareBegins(t) \/ StopBegins(t) \/ AllocatePort(t)
    <2>1. rt'[t].pc # "done"
        <3>1. CASE AllocatePort(t)
            BY <1>1, <3>1 DEF AllocatePort, At, TypeOK, RtCall
        <3> QED
            BY <1>4, <3>1, GotoEffect DEF PrepareBegins, StopBegins
    <2> QED
        BY <2>1
<1>5. CASE NothingRuns(t) \/ TeardownCompletes(t)
    <2>1. /\ rt[t].pc \in {"lock", "stopping"}
          /\ Set(t, "Idle", "none", NoBindings) /\ AfterTeardown(t)
          /\ rt[t].op \in Halting
        BY <1>5 DEF NothingRuns, TeardownCompletes, Enter, At, ObjectsSound,
           CallSound
    <2>2. rt[t].res \in Res
        BY <2>1 DEF CallShape, Inside
    <2>3. rt[t].op # "destroy" /\ Finish(t, "ok")
        BY <2>1, GotoEffect DEF AfterTeardown
    <2>4. heap'[rt[t].res].exec = "none"
        BY <2>1, <2>2, SetFields
    <2> QED
        BY <2>1, <2>3, <2>4, PlainFinishEffect DEF Achieved, Halting, Inside
<1>6. CASE ActiveStreamPlan(t)
    <2>1. rt[t].op = "plan" /\ rt[t].pc = "lock"
        BY <1>6 DEF ActiveStreamPlan, Enter, At
    <2>2. Complete(R(t).exec, R(t).bindings, rt[t].id)
        BY <2>1, ObjectAtLock
    <2>3. Bound(R(t).bindings) \in {{}, StreamsOf[rt[t].id]}
        BY <2>2 DEF Complete
    <2> QED
        BY <1>6, <2>1, <2>3, FinishEffect DEF ActiveStreamPlan, Achieved
<1>7. CASE ResolveWebsocketStream(t) \/ FetchHttpStream(t) \/ FetchAnswered(t)
           \/ SettingsBegin(t) \/ SettingsEnd(t)
    <2>1. \E o : Finish(t, o)
        <3>1. CASE FetchHttpStream(t)
            BY <1>1, <3>1 DEF FetchHttpStream, TypeOK, RtCall
        <3> QED
            BY <1>7, <3>1, GotoEffect DEF ResolveWebsocketStream,
               FetchAnswered, SettingsBegin, SettingsEnd
    <2>2. rt'[t].outcome = "ok" => rt[t].op \notin {"start", "stop", "destroy"}
        BY <1>7 DEF ResolveWebsocketStream, FetchHttpStream, FetchAnswered,
           SettingsBegin, SettingsEnd, Enter, At, ObjectsSound, CallSound
    <2> QED
        BY <2>1, <2>2, PlainFinishEffect DEF Achieved
<1>8. CASE LoadGraph(t)
    <2>1. rt[t].op # "start" => rt[t].op = "prepare"
        BY <1>8 DEF LoadGraph, At, ObjectsSound, CallSound, Preparing
    <2>2. CASE rt[t].op = "start"
        BY <1>1, <1>8, <2>2 DEF LoadGraph, TypeOK, RtCall
    <2>3. CASE rt[t].op # "start"
        BY <1>8, <2>1, <2>3, PlainFinishEffect DEF LoadGraph, Achieved
    <2> QED
        BY <2>2, <2>3
<1>9. CASE SchedulerStarts(t)
    <2>1. rt[t].pc = "starting" /\ rt[t].res \in Res /\ rt[t].op = "start"
        BY <1>9 DEF SchedulerStarts, At, CallShape, Inside, ObjectsSound, CallSound
    <2> QED
        BY <1>9, <2>1, SetFields, PlainFinishEffect
           DEF SchedulerStarts, Achieved, Inside
<1>10. CASE EraseEntry(t)
    <2>1. /\ rt[t].pc = "erase" /\ rt[t].op = "destroy" /\ rt[t].id \in Id
          /\ rt[t].res \in Res
        BY <1>10 DEF EraseEntry, At, CallShape, ObjectsSound, CallSound
    <2>2. resources'[rt[t].id] # rt[t].res
        BY <1>10, <2>1, RuntimeAssumption DEF EraseEntry, TypeOK
    <2> QED
        BY <1>10, <2>1, <2>2, PlainFinishEffect DEF EraseEntry, Achieved
<1> QED
    BY <1>2, <1>3, <1>4, <1>5, <1>6, <1>7, <1>8, <1>9, <1>10, OutcomeOfFind
       DEF Step, Body, Advance, Teardown

\* A destroy gets to the erasing with nothing left in the object.
LEMMA ErasedIsEmpty ==
    ASSUME TypeOK, CallShape, ObjectsSound, NEW t \in Thread, Step(t),
           rt'[t].pc = "erase"
    PROVE  heap'[rt[t].res].exec = "none"
<1>1. rt[t].pc \in {"lock"} \cup Inside /\ rt[t].res \in Res
    BY StepKeepsObject DEF SameObject, CallShape
<1>2. NothingRuns(t) \/ TeardownCompletes(t)
    <2>1. rt[t] \in RtCall
        BY DEF TypeOK
    <2>2. ~ \E o, streams : FinishWith(t, o, streams)
        BY FinishEffect
    <2>3. ~ \E pc \in Pc \ {"erase"} : Goto(t, pc)
        BY GotoEffect
    <2>4. ~ \E r : rt' = [rt EXCEPT ![t].pc = "lock", ![t].res = r]
        BY <2>1 DEF TypeOK, RtCall
    <2>5. ~ AllocatePort(t) /\ ~ FetchHttpStream(t)
        BY <2>1, <2>2
           DEF AllocatePort, FetchHttpStream, Finish, At, TypeOK, RtCall
    <2>6. ~ LoadGraph(t)
        BY <2>1, <2>2 DEF LoadGraph, Finish, TypeOK, RtCall
    <2>7. ~ Body(t) \/ NothingRuns(t)
        BY <2>2, <2>3, <2>5 DEF Body, PrepareRefused, Reuse, ContractViolated,
           PrepareBegins, StopRefused, StopBegins, ActiveStreamPlan,
           ResolveWebsocketStream, SettingsBegin, Finish, Pc
    <2>8. ~ Advance(t)
        BY <2>2, <2>4, <2>5, <2>6 DEF Advance, Find, EraseEntry,
           AllocationFails, LoadFails, SchedulerStarts, SchedulerStartFails,
           FetchAnswered, FetchUnreachable, SettingsEnd, Finish
    <2>9. ~ SchedulerStopFails(t)
        BY <2>2 DEF SchedulerStopFails, Finish
    <2> QED
        BY <2>7, <2>8, <2>9 DEF Step, Teardown
<1>3. Set(t, "Idle", "none", NoBindings)
    BY <1>2 DEF NothingRuns, TeardownCompletes
<1> QED
    BY <1>1, <1>3, SetFields

-----------------------------------------------------------------------------
(* Callers that take turns: the object a lifecycle call works on is the one *)
(* in the map, and what is not in the map is empty.                         *)

LifecycleCall == Preparing \cup Halting

\* Thread t is in a lifecycle call for session i.
Works(t, i) ==
    rt[t].pc \notin {"idle", "done"} /\ rt[t].op \in LifecycleCall /\ rt[t].id = i

\* What Admitted keeps up.
InTurn == \A t, u \in Thread, i \in Id : Works(t, i) /\ Works(u, i) => t = u

\* The object a lifecycle call works on is the one in the map, and a destroy
\* that is about to take it out of the map has emptied it.
HoldsObject(t) ==
    /\ rt[t].op \in LifecycleCall /\ rt[t].pc \in {"lock", "erase"} \cup Inside
          => resources[rt[t].id] = rt[t].res
    /\ rt[t].pc = "erase" => heap[rt[t].res].exec = "none"

TurnsSound == InTurn /\ (\A t \in Thread : HoldsObject(t)) /\ UnmappedIsEmpty

\* What a step does to the map and the objects.
LEMMA StepMoves ==
    ASSUME TypeOK, CallShape, ObjectsSound, NEW t \in Thread, Step(t)
    PROVE  /\ MapStep(t) /\ HeapStep(t) /\ SameObject(t) /\ OthersWait(t)
           /\ rt[t].id \in Id /\ rt[t].pc \notin {"idle", "done"}
           /\ resources \in [Id -> Res \cup {NoRes}] /\ heap \in [Res -> Resource]
<1>1. StepSound(t)
    BY SoundBody, SoundAdvance DEF Step
<1>2. SameObject(t)
    BY StepKeepsObject
<1>3. rt[t].pc \notin {"idle", "done"}
    BY StepGoesOn
<1>4. rt[t].id \in Id
    BY <1>3 DEF CallShape
<1> QED
    BY <1>1, <1>2, <1>3, <1>4 DEF StepSound, TypeOK

\* A step leaves alone the sessions it does not work for.
LEMMA Stable ==
    ASSUME TypeOK, CallShape, ObjectsSound, NEW t \in Thread, Step(t),
           NEW i \in Id, ~ Works(t, i)
    PROVE  /\ resources'[i] = resources[i]
           /\ resources[i] # NoRes => heap'[resources[i]] = heap[resources[i]]
<1> USE StepMoves
<1>1. resources'[i] = resources[i]
    <2>1. CASE rt[t].pc = "erase"
        <3>1. rt[t].op \in LifecycleCall
            BY <2>1 DEF ObjectsSound, CallSound, LifecycleCall, Halting
        <3> QED
            BY <2>1, <3>1 DEF Works, MapStep
    <2>2. CASE rt[t].pc # "erase"
        BY <2>2 DEF Works, LifecycleCall, MapStep
    <2> QED
        BY <2>1, <2>2
<1>2. ASSUME resources[i] # NoRes PROVE heap'[resources[i]] = heap[resources[i]]
    <2>1. resources[i] \in Res /\ heap[resources[i]].id = i
        BY <1>2 DEF ObjectsSound, MapSound
    <2>2. CASE rt[t].op \in LifecycleCall /\ rt[t].pc \in {"lock"} \cup Inside
        <3>1. heap[rt[t].res].id = rt[t].id /\ rt[t].id # i
            BY <2>2 DEF ObjectsSound, CallSound, Works
        <3>2. rt[t].res # resources[i] /\ rt[t].pc # "find"
            BY <2>1, <2>2, <3>1 DEF Inside
        <3> QED
            BY <2>1, <3>2 DEF HeapStep, Set
    <2>3. CASE ~ (rt[t].op \in LifecycleCall /\ rt[t].pc \in {"lock"} \cup Inside)
        BY <2>1, <2>3 DEF HeapStep, Unreferenced, LifecycleCall
    <2> QED
        BY <2>2, <2>3
<1> QED
    BY <1>1, <1>2

LEMMA HoldsObjectKept ==
    ASSUME TypeOK, CallShape, ObjectsSound, TurnsSound, NEW t \in Thread,
           Step(t), NEW u \in Thread
    PROVE  HoldsObject(u)'
<1> USE StepMoves
<1>1. CASE u # t
    <2> DEFINE i == rt[u].id
    <2>1. rt'[u] = rt[u] /\ HoldsObject(u)
        BY <1>1 DEF OthersWait, TurnsSound
    <2>2. CASE rt[u].op \in LifecycleCall /\ rt[u].pc \in {"lock", "erase"} \cup Inside
        <3>1. Works(u, i) /\ i \in Id /\ rt[u].res \in Res
            BY <2>2 DEF Works, Inside, CallShape
        <3>2. ~ Works(t, i)
            BY <1>1, <3>1 DEF TurnsSound, InTurn
        <3>3. resources[i] = rt[u].res
            BY <2>1, <2>2 DEF HoldsObject
        <3>4. resources'[i] = rt[u].res /\ heap'[rt[u].res] = heap[rt[u].res]
            BY <3>1, <3>2, <3>3, Stable, RuntimeAssumption
        <3> QED
            BY <2>1, <3>4 DEF HoldsObject
    <2>3. CASE ~ (rt[u].op \in LifecycleCall /\ rt[u].pc \in {"lock", "erase"} \cup Inside)
        <3>1. rt[u].pc # "erase"
            BY <2>3 DEF ObjectsSound, CallSound, LifecycleCall, Halting
        <3> QED
            BY <2>1, <2>3, <3>1 DEF HoldsObject
    <2> QED
        BY <2>2, <2>3
<1>2. CASE u = t
    <2>1. HoldsObject(t)
        BY DEF TurnsSound
    <2>2. rt'[t].pc = "erase" => heap'[rt'[t].res].exec = "none"
        BY ErasedIsEmpty DEF SameObject, SameCall
    <2>3. CASE rt'[t].pc = "lock"
        BY <1>2, <2>2, <2>3 DEF HoldsObject, SameObject
    <2>4. CASE rt'[t].pc \in {"erase"} \cup Inside
        <3>1. rt[t].pc \in {"lock"} \cup Inside /\ SameCall(t)
            BY <2>4 DEF SameObject
        <3>2. UNCHANGED resources
            BY <3>1 DEF MapStep, Inside
        <3> QED
            BY <1>2, <2>1, <2>2, <3>1, <3>2 DEF HoldsObject, SameCall
    <2>5. CASE rt'[t].pc \notin {"lock", "erase"} \cup Inside
        BY <1>2, <2>5 DEF HoldsObject
    <2> QED
        BY <2>3, <2>4, <2>5
<1> QED
    BY <1>1, <1>2

LEMMA UnmappedKept ==
    ASSUME TypeOK, CallShape, ObjectsSound, TurnsSound, NEW t \in Thread, Step(t)
    PROVE  UnmappedIsEmpty'
<1> USE StepMoves
<1> SUFFICES ASSUME NEW r \in Res, \A i \in Id : resources'[i] # r
             PROVE  heap'[r].exec = "none" /\ Bound(heap'[r].bindings) = {}
    BY DEF UnmappedIsEmpty, Bound
<1>0. r # NoRes
    BY RuntimeAssumption
<1>1. CASE \A i \in Id : resources[i] # r
    <2>1. heap[r].exec = "none" /\ Bound(heap[r].bindings) = {}
        BY <1>1 DEF TurnsSound, UnmappedIsEmpty
    <2>2. ~ (rt[t].pc = "find" /\ rt'[t].pc = "lock" /\ rt'[t].res = r)
        BY DEF SameObject
    <2>3. ~ (/\ rt[t].op \in LifecycleCall
             /\ rt[t].pc \in {"lock"} \cup Inside /\ rt[t].res = r)
        BY <1>1 DEF TurnsSound, HoldsObject
    <2>4. heap'[r] = heap[r]
        BY <2>2, <2>3 DEF HeapStep, Set, LifecycleCall
    <2> QED
        BY <2>1, <2>4
<1>2. ASSUME NEW i \in Id, resources[i] = r
      PROVE  heap'[r].exec = "none" /\ Bound(heap'[r].bindings) = {}
    <2>1. rt[t].pc = "erase" /\ rt[t].res = r
        BY <1>0, <1>2 DEF MapStep
    <2>2. UNCHANGED heap
        BY <2>1 DEF HeapStep, Inside
    <2>3. heap[r].exec = "none"
        BY <2>1 DEF TurnsSound, HoldsObject
    <2> QED
        BY <2>2, <2>3 DEF ObjectsSound, BindingsComplete
<1> QED
    BY <1>1, <1>2

\* A call that begins or returns.
LEMMA TurnsAtEnds ==
    ASSUME Gated = TRUE, TypeOK, TurnsSound, NEW t \in Thread,
           \/ Return(t)
           \/ \E op \in Calls, i \in Id : \E s \in Arguments(op) :
                 Admitted(op, i) /\ Call(t, op, i, s)
    PROVE  TurnsSound'
<1>1. /\ rt'[t].pc \in {"idle", "find"} /\ OthersWait(t)
      /\ UNCHANGED <<resources, heap>>
    BY DEF Return, Call, NoCall, Detached, TypeOK, OthersWait
<1>2. ASSUME NEW u \in Thread, u # t, NEW i \in Id, Works(t, i)', Works(u, i)
      PROVE  FALSE
    <2>1. PICK op \in Calls, j \in Id :
             Admitted(op, j) /\ \E s \in Arguments(op) : Call(t, op, j, s)
        BY <1>2 DEF Return, NoCall, Detached, TypeOK, Works
    <2>2. op \in LifecycleCall /\ j = i
        BY <1>2, <2>1 DEF Call, Detached, TypeOK, Works
    <2>3. rt[u].op \in Reading
        BY <1>2, <2>1, <2>2 DEF Admitted, LifecycleCall, Works
    <2> QED
        BY <1>2, <2>3 DEF Works, LifecycleCall, Preparing, Halting, Reading
<1>3. \A u \in Thread \ {t}, i \in Id : Works(u, i)' <=> Works(u, i)
    BY <1>1 DEF OthersWait, Works
<1>4. InTurn'
    BY <1>2, <1>3 DEF TurnsSound, InTurn
<1>5. \A u \in Thread : HoldsObject(u)'
    BY <1>1 DEF TurnsSound, HoldsObject, OthersWait, Inside
<1>6. UnmappedIsEmpty'
    BY <1>1 DEF TurnsSound, UnmappedIsEmpty
<1> QED
    BY <1>4, <1>5, <1>6 DEF TurnsSound

LEMMA TurnsStep ==
    ASSUME Gated = TRUE
    PROVE  TypeOK /\ CallShape /\ ObjectsSound /\ TurnsSound /\ [Next]_vars
              => TurnsSound'
<1> SUFFICES ASSUME TypeOK, CallShape, ObjectsSound, TurnsSound, [Next]_vars
             PROVE  TurnsSound'
    OBVIOUS
<1>1. CASE UNCHANGED vars
    BY <1>1 DEF vars, TurnsSound, InTurn, Works, HoldsObject, UnmappedIsEmpty
<1>2. ASSUME NEW t \in Thread, Step(t) PROVE TurnsSound'
    <2>1. \A u \in Thread, i \in Id : Works(u, i)' => Works(u, i)
        <3>1. OthersWait(t)
            BY <1>2, StepMoves
        <3>2. \A i \in Id : Works(t, i)' => Works(t, i)
            BY <1>2, StepGoesOn DEF Works
        <3> QED
            BY <3>1, <3>2 DEF OthersWait, Works
    <2>2. InTurn'
        BY <2>1 DEF TurnsSound, InTurn
    <2> QED
        BY <1>2, <2>2, HoldsObjectKept, UnmappedKept DEF TurnsSound
<1> QED
    BY <1>1, <1>2, TurnsAtEnds DEF Next

LEMMA TurnsInit == Init => TurnsSound
<1> SUFFICES ASSUME Init PROVE TurnsSound
    OBVIOUS
<1>1. \A t \in Thread : rt[t].pc = "idle"
    BY DEF Init, NoCall, Detached
<1>2. UnmappedIsEmpty
    BY NothingBound DEF Init, UnmappedIsEmpty, FreshResource
<1> QED
    BY <1>1, <1>2 DEF TurnsSound, InTurn, Works, HoldsObject, Inside

-----------------------------------------------------------------------------
(* Leaks: a port that leaves the hands of its owner leaves the allocator.   *)

\* New ports have an owner, and ports that lose theirs are released.
LEMMA NothingLeaks ==
    ASSUME \A p \in allocated' :
              p \in allocated \/ \E o \in Owner : p \in PortsOf(Held(o)'),
           \A o \in Owner : \A p \in PortsOf(Held(o)) \cap allocated' :
              \E q \in Owner : p \in PortsOf(Held(q)')
    PROVE  Leaked' \subseteq Leaked
BY DEF Leaked, Owner, PortsOf

\* A step of a thread that allocates nothing, and that releases what it takes
\* out of an object.
LEMMA NoObjectLeaks ==
    ASSUME NEW t \in Thread, rt[t].pc # "alloc", OthersWait(t),
           allocated' \subseteq allocated,
           \A r \in Res : PortsOf(heap[r].bindings) \cap allocated'
                             \subseteq PortsOf(heap'[r].bindings)
    PROVE  Leaked' \subseteq Leaked
<1>1. \A s \in Stream : NoBindings[s] = NoPort
    BY DEF NoBindings
<1>2. ASSUME NEW o \in Owner, NEW p \in PortsOf(Held(o)) \cap allocated'
      PROVE  p \in PortsOf(Held(o)')
    <2>1. CASE o \in Res
        BY <1>2, <2>1, HeldByObjects
    <2>2. CASE o = t
        BY <1>1, <1>2, <2>2, HeldByThreads DEF PortsOf
    <2>3. CASE o \in Thread \ {t}
        BY <1>2, <2>3, HeldByThreads DEF OthersWait
    <2> QED
        BY <2>1, <2>2, <2>3 DEF Owner
<1> QED
    BY <1>2, NothingLeaks

\* A step that leaves all bindings alone.
LEMMA NobodyLeaks ==
    ASSUME NEW t \in Thread, rt[t].pc # "alloc", OthersWait(t),
           allocated' = allocated,
           \A r \in Res : heap'[r].bindings = heap[r].bindings
    PROVE  Leaked' \subseteq Leaked
BY NoObjectLeaks

\* A step that empties the object of t and releases its ports.
LEMMA ReleasedNotLeaked ==
    ASSUME TypeOK, NEW t \in Thread, rt[t].pc # "alloc", OthersWait(t),
           rt[t].res \in Res, NEW phase, Set(t, phase, "none", NoBindings),
           allocated' = allocated \ PortsOf(R(t).bindings)
    PROVE  Leaked' \subseteq Leaked
<1>1. \A r \in Res \ {rt[t].res} : heap'[r].bindings = heap[r].bindings
    BY SetEffect
<1> QED
    BY <1>1, NoObjectLeaks DEF R

LEMMA LeaksBody ==
    ASSUME TypeOK, CallShape, NEW t \in Thread, Body(t)
    PROVE  Leaked' \subseteq Leaked
<1>1. OthersWait(t) /\ rt[t].pc = "lock" /\ rt[t].res \in Res
    BY BodyHasEffect DEF BodyEffect, CallShape
<1>2. CASE PrepareBegins(t) \/ NothingRuns(t)
    BY <1>1, <1>2, ReleasedNotLeaked DEF PrepareBegins, NothingRuns
<1>3. CASE ~ (PrepareBegins(t) \/ NothingRuns(t))
    <2>1. /\ allocated' = allocated
          /\ \/ UNCHANGED heap
             \/ \E phase, exec : Set(t, phase, exec, heap[rt[t].res].bindings)
        BY <1>3 DEF Body, PrepareRefused, Reuse, ContractViolated, StopRefused,
           StopBegins, ActiveStreamPlan, ResolveWebsocketStream,
           FetchHttpStream, SettingsBegin, R
    <2>2. \A r \in Res : heap'[r].bindings = heap[r].bindings
        BY <1>1, <2>1, SetEffect
    <2> QED
        BY <1>1, <2>1, <2>2, NobodyLeaks
<1> QED
    BY <1>2, <1>3

LEMMA LeaksAllocate ==
    ASSUME TypeOK, CallShape, NEW t \in Thread, AllocatePort(t)
    PROVE  Leaked' \subseteq Leaked
<1>1. PICK s \in Missing(t), p \in Port \ allocated :
         /\ rt' = [rt EXCEPT ![t].got[s] = p]
         /\ allocated' = allocated \cup {p}
    BY DEF AllocatePort
<1>2. /\ rt[t] \in RtCall /\ s \in Stream /\ rt[t].got[s] = NoPort
      /\ rt[t].pc = "alloc" /\ NoPort \notin Port
    BY RuntimeAssumption
       DEF TypeOK, CallShape, AllocatePort, At, Missing, Bound
<1>3. /\ rt'[t].pc = "alloc" /\ rt'[t].got = [rt[t].got EXCEPT ![s] = p]
      /\ OthersWait(t)
    BY <1>1, <1>2 DEF TypeOK, RtCall, OthersWait
<1>4. Held(t) = rt[t].got /\ Held(t)' = [rt[t].got EXCEPT ![s] = p]
    BY <1>2, <1>3, HeldByThreads
<1>5. rt[t].got \in Bindings
    BY <1>2 DEF RtCall
<1>6. PortsOf(Held(t)') = PortsOf(Held(t)) \cup {p}
    BY <1>2, <1>4, <1>5 DEF PortsOf, Bindings
<1>7. \A o \in Owner \ {t} : Held(o)' = Held(o)
    BY <1>3, OnlyThread DEF AllocatePort, Untouched
<1>8. t \in Owner
    BY DEF Owner
<1>9. \A o \in Owner : PortsOf(Held(o)) \subseteq PortsOf(Held(o)')
    BY <1>6, <1>7
<1> QED
    BY <1>1, <1>6, <1>8, <1>9, NothingLeaks

\* The object a graph is loaded into held nothing before.
LEMMA LeaksLoad ==
    ASSUME TypeOK, CallShape, ObjectsSound, NEW t \in Thread, LoadGraph(t)
    PROVE  Leaked' \subseteq Leaked
<1>0. rt[t].pc = "alloc" /\ rt[t].res \in Res
    BY DEF CallShape, LoadGraph, At, Inside
<1> PICK q \in Res : q = rt[t].res
    BY <1>0
<1>1. allocated' = allocated /\ \E phase, exec : Set(t, phase, exec, rt[t].got)
    BY DEF LoadGraph
<1>2. /\ heap'[q].bindings = rt[t].got
      /\ \A r \in Res \ {q} : heap'[r].bindings = heap[r].bindings
    BY <1>0, <1>1, SetEffect
<1>3. OthersWait(t)
    BY SoundAdvance DEF Advance, StepSound
<1>4. PortsOf(heap[q].bindings) = {}
    BY <1>0 DEF ObjectsSound, CallSound, BindingsComplete, Bound, PortsOf
<1>5. Held(t) = rt[t].got /\ Held(q)' = rt[t].got /\ Held(q) = heap[q].bindings
    BY <1>0, <1>2, HeldByObjects, HeldByThreads
<1>6. \A o \in Owner \ {t, q} : Held(o)' = Held(o)
    BY <1>2, <1>3, OnlyObject DEF Untouched
<1>7. q \in Owner
    BY DEF Owner
<1>8. ASSUME NEW o \in Owner, NEW p \in PortsOf(Held(o))
      PROVE  \E w \in Owner : p \in PortsOf(Held(w)')
    <2>1. CASE o = t
        BY <1>5, <1>7, <1>8, <2>1
    <2>2. CASE o = q
        BY <1>4, <1>5, <1>8, <2>2
    <2>3. CASE o \in Owner \ {t, q}
        BY <1>6, <1>8, <2>3
    <2> QED
        BY <2>1, <2>2, <2>3
<1> QED
    BY <1>1, <1>8, NothingLeaks

\* A failed load releases what was allocated.
LEMMA LeaksLoadFails ==
    ASSUME "foreign_load" \notin Faults, TypeOK, NEW t \in Thread, LoadFails(t)
    PROVE  Leaked' \subseteq Leaked
<1>1. /\ rt[t].pc = "alloc" /\ UNCHANGED heap /\ OthersWait(t)
      /\ allocated' = allocated \ PortsOf(rt[t].got)
    BY PlainFinishEffect DEF LoadFails, At
<1>2. \A o \in Owner \ {t} : Held(o)' = Held(o)
    BY <1>1, OnlyThread DEF Untouched
<1>3. Held(t) = rt[t].got
    BY <1>1, HeldByThreads
<1> QED
    BY <1>1, <1>2, <1>3, NothingLeaks

\* An object that is used again held nothing.
LEMMA LeaksFind ==
    ASSUME TypeOK, CallShape, UnmappedIsEmpty, NEW t \in Thread, Find(t)
    PROVE  Leaked' \subseteq Leaked
<1>1. rt[t].pc # "alloc" /\ OthersWait(t) /\ allocated' = allocated
    BY AdvanceHasEffect DEF Advance, OtherEffect, Find, At
<1>2. CASE UNCHANGED heap
    BY <1>1, <1>2, NobodyLeaks
<1>3. CASE \E r \in Res : /\ Unreferenced(r)
                          /\ heap' = [heap EXCEPT ![r] = FreshResource(rt[t].id)]
    <2>1. PICK q \in Res : /\ Unreferenced(q)
                           /\ heap' = [heap EXCEPT ![q] = FreshResource(rt[t].id)]
        BY <1>3
    <2>2. \A r \in Res \ {q} : heap'[r] = heap[r]
        BY <2>1 DEF TypeOK
    <2>3. PortsOf(heap[q].bindings) = {}
        BY <2>1 DEF Unreferenced, UnmappedIsEmpty, Bound, PortsOf
    <2> QED
        BY <1>1, <2>2, <2>3, NoObjectLeaks
<1> QED
    BY <1>2, <1>3 DEF Find

\* Only an allocation that fails half-way loses a port.
LEMMA LeakStep ==
    ASSUME "foreign_load" \notin Faults, TypeOK, CallShape, ObjectsSound,
           UnmappedIsEmpty, NEW t \in Thread, Step(t), ~ AllocationFails(t)
    PROVE  Leaked' \subseteq Leaked
<1>1. CASE \/ EraseEntry(t) \/ FetchAnswered(t) \/ FetchUnreachable(t)
           \/ SettingsEnd(t) \/ SchedulerStartFails(t)
    <2>1. /\ UNCHANGED <<heap, allocated>> /\ rt[t].pc # "alloc"
          /\ \E o : Finish(t, o)
        BY <1>1 DEF EraseEntry, FetchAnswered, FetchUnreachable, SettingsEnd,
           SchedulerStartFails, At
    <2> QED
        BY <2>1, PlainFinishEffect, NobodyLeaks
<1>2. CASE SchedulerStarts(t) \/ SchedulerStopFails(t)
    <2>1. /\ allocated' = allocated /\ rt[t].pc \in Inside /\ rt[t].pc # "alloc"
          /\ \E o : Finish(t, o)
          /\ \/ UNCHANGED heap
             \/ \E phase, exec : Set(t, phase, exec, heap[rt[t].res].bindings)
        BY <1>2 DEF SchedulerStarts, SchedulerStopFails, At, R, Inside
    <2>2. \A r \in Res : heap'[r].bindings = heap[r].bindings
        BY <2>1, SetEffect DEF CallShape
    <2> QED
        BY <2>1, <2>2, PlainFinishEffect, NobodyLeaks
<1>3. CASE TeardownCompletes(t)
    <2>1. rt[t].pc = "stopping" /\ rt[t].res \in Res /\ OthersWait(t)
        BY <1>3, AdvanceHasEffect
           DEF Teardown, OtherEffect, TeardownCompletes, At, CallShape, Inside
    <2> QED
        BY <1>3, <2>1, ReleasedNotLeaked DEF TeardownCompletes
<1> QED
    BY <1>1, <1>2, <1>3, LeaksBody, LeaksFind, LeaksAllocate, LeaksLoad,
       LeaksLoadFails DEF Step, Advance, Teardown

\* Calls and returns touch neither the allocator nor anybody's ports.
LEMMA LeaksAtEnds ==
    ASSUME TypeOK, NEW t \in Thread,
           \/ Return(t)
           \/ \E op \in Calls, i \in Id : \E s \in Arguments(op) : Call(t, op, i, s)
    PROVE  Leaked' \subseteq Leaked
<1>1. /\ UNCHANGED <<heap, allocated>> /\ OthersWait(t) /\ rt[t].pc # "alloc"
    BY DEF Return, Call, NoCall, Detached, At, TypeOK, OthersWait
<1> QED
    BY <1>1, NobodyLeaks

\* The step formula of NoPortLeaks.
LeaksOnlyByAllocation ==
    \/ Leaked' \subseteq Leaked
    \/ \E t \in Thread :
          At(t, "alloc") /\ Missing(t) # {} /\ rt'[t].pc = "done"

LEMMA NextLeaks ==
    ASSUME "foreign_load" \notin Faults
    PROVE  TypeOK /\ CallShape /\ ObjectsSound /\ UnmappedIsEmpty /\ [Next]_vars
              => [LeaksOnlyByAllocation]_vars
<1> SUFFICES ASSUME TypeOK, CallShape, ObjectsSound, UnmappedIsEmpty, Next
             PROVE  LeaksOnlyByAllocation
    OBVIOUS
<1>1. ASSUME NEW t \in Thread, AllocationFails(t) PROVE LeaksOnlyByAllocation
    BY <1>1, PlainFinishEffect DEF AllocationFails, LeaksOnlyByAllocation
<1> QED
    BY <1>1, LeakStep, LeaksAtEnds DEF Next, LeaksOnlyByAllocation

-----------------------------------------------------------------------------
(* With a port for every stream, nothing is ever lost.                      *)

\* The streams that can be bound at the same time, and a port for each.
Demand == {x \in Id \X Stream : x[2] \in StreamsOf[x[1]]}

EnoughPorts ==
    /\ IsFiniteSet(Port) /\ IsFiniteSet(Demand)
    /\ Cardinality(Demand) <= Cardinality(Port)

NothingLeaked == Leaked = {}

\* Object o, or thread o, has the bindings of session i in its hands.
Owns(o, i) ==
    \/ o \in Res /\ heap[o].id = i /\ Bound(heap[o].bindings) # {}
    \/ o \in Thread /\ At(o, "alloc") /\ rt[o].id = i

\* An object that is not empty is the one in the map.
LEMMA OwnerIsMapped ==
    ASSUME TypeOK, ObjectsSound, TurnsSound, NEW r \in Res,
           Bound(heap[r].bindings) # {}
    PROVE  heap[r].id \in Id /\ resources[heap[r].id] = r
<1>1. PICK i \in Id : resources[i] = r
    BY DEF TurnsSound, UnmappedIsEmpty
<1>2. heap[r].id = i
    BY <1>1, RuntimeAssumption DEF ObjectsSound, MapSound
<1> QED
    BY <1>1, <1>2

\* A thread that allocates does so for the object in the map, which is empty.
LEMMA AllocatorIsMapped ==
    ASSUME TypeOK, CallShape, ObjectsSound, TurnsSound, NEW t \in Thread,
           At(t, "alloc")
    PROVE  /\ rt[t].id \in Id /\ Works(t, rt[t].id)
           /\ resources[rt[t].id] \in Res
           /\ Bound(heap[resources[rt[t].id]].bindings) = {}
<1>1. rt[t].id \in Id /\ rt[t].res \in Res /\ rt[t].op \in LifecycleCall
    BY DEF At, CallShape, Inside, ObjectsSound, CallSound, LifecycleCall
<1>2. resources[rt[t].id] = rt[t].res
    BY <1>1 DEF At, TurnsSound, HoldsObject, Inside
<1>3. Bound(heap[rt[t].res].bindings) = {}
    BY <1>1 DEF At, ObjectsSound, CallSound, BindingsComplete
<1> QED
    BY <1>1, <1>2, <1>3 DEF At, Works

LEMMA OneOwner ==
    ASSUME TypeOK, CallShape, ObjectsSound, TurnsSound, NEW i \in Id,
           NEW o, NEW q, Owns(o, i), Owns(q, i)
    PROVE  o = q
<1>1. CASE o \in Res /\ q \in Res
    <2>1. Bound(heap[o].bindings) # {} /\ Bound(heap[q].bindings) # {}
        BY <1>1, RuntimeAssumption DEF Owns
    <2> QED
        BY <1>1, <2>1, OwnerIsMapped, RuntimeAssumption DEF Owns
<1>2. CASE o \in Thread /\ q \in Thread
    <2>1. Works(o, i) /\ Works(q, i)
        BY <1>2, AllocatorIsMapped, RuntimeAssumption DEF Owns
    <2> QED
        BY <1>2, <2>1 DEF TurnsSound, InTurn
<1>3. ASSUME NEW r \in Res, NEW t \in Thread, Owns(r, i), Owns(t, i)
      PROVE  FALSE
    <2>1. Bound(heap[r].bindings) # {} /\ heap[r].id = i
        BY <1>3, RuntimeAssumption DEF Owns
    <2>2. At(t, "alloc") /\ rt[t].id = i
        BY <1>3, RuntimeAssumption DEF Owns
    <2> QED
        BY <2>1, <2>2, OwnerIsMapped, AllocatorIsMapped
<1>4. (o \in Res \/ o \in Thread) /\ (q \in Res \/ q \in Thread)
    BY DEF Owns
<1> QED
    BY <1>1, <1>2, <1>3, <1>4

\* A port in use is the port of a stream some session asks for.
LEMMA PortHasSlot ==
    ASSUME TypeOK, CallShape, ObjectsSound, TurnsSound, NothingLeaked,
           NEW p \in allocated
    PROVE  \E x \in Demand, o \in Owner :
              Owns(o, x[1]) /\ Held(o)[x[2]] = p /\ p # NoPort
<1>1. PICK o \in Owner, s \in Stream : Held(o)[s] = p /\ p # NoPort
    BY DEF NothingLeaked, Leaked, PortsOf, Owner
<1>2. ASSUME NEW i \in Id, Owns(o, i), s \in StreamsOf[i]
      PROVE  \E x \in Demand : Owns(o, x[1]) /\ Held(o)[x[2]] = p
    <2> DEFINE x == <<i, s>>
    <2>1. x \in Demand /\ x[1] = i /\ x[2] = s
        BY <1>2 DEF Demand
    <2> HIDE DEF x
    <2> QED
        BY <1>1, <1>2, <2>1
<1>3. CASE o \in Res
    <2>1. s \in Bound(heap[o].bindings)
        BY <1>1, <1>3, HeldByObjects DEF Bound
    <2>2. \E i \in Id : Owns(o, i) /\ s \in StreamsOf[i]
        BY <1>3, <2>1, OwnerIsMapped DEF Owns, ObjectsSound, BindingsComplete
    <2> QED
        BY <1>1, <1>2, <2>2
<1>4. CASE o \in Thread
    <2>1. At(o, "alloc") /\ s \in Bound(rt[o].got) /\ o \notin Res
        BY <1>1, <1>4, HeldByThreads, RuntimeAssumption
           DEF Bound, NoBindings, At
    <2>2. \E i \in Id : Owns(o, i) /\ s \in StreamsOf[i]
        BY <1>4, <2>1, AllocatorIsMapped DEF Owns, ObjectsSound, CallSound, At
    <2> QED
        BY <1>1, <1>2, <2>2
<1> QED
    BY <1>3, <1>4 DEF Owner

\* As long as nothing has been lost there is a port for a stream that misses
\* one: the others cannot hold them all.
LEMMA AllocationSucceeds ==
    ASSUME TypeOK, CallShape, ObjectsSound, TurnsSound, NothingLeaked,
           EnoughPorts, "alloc" \notin Faults, NEW t \in Thread
    PROVE  ~ AllocationFails(t)
<1> SUFFICES ASSUME At(t, "alloc"), Missing(t) # {}, Port \subseteq allocated
             PROVE  FALSE
    BY DEF AllocationFails
<1>1. PICK s : s \in StreamsOf[rt[t].id] \ Bound(rt[t].got)
    BY DEF Missing
<1>2. rt[t].id \in Id /\ Owns(t, rt[t].id)
    BY AllocatorIsMapped DEF Owns
<1>3. s \in Stream /\ Held(t)[s] = NoPort
    BY <1>1, <1>2, HeldByThreads, RuntimeAssumption DEF At, Bound
<1> DEFINE free  == <<rt[t].id, s>>
           Slots == Demand \ {free}
           Fills(x, p) == \E o \in Owner : Owns(o, x[1]) /\ Held(o)[x[2]] = p
           slot == [p \in Port |-> CHOOSE x \in Slots : Fills(x, p)]
<1>4. free \in Demand
    BY <1>1, <1>2, <1>3 DEF Demand
<1>5. \A p \in Port : \E x \in Slots : Fills(x, p)
    <2> SUFFICES ASSUME NEW p \in Port PROVE \E x \in Slots : Fills(x, p)
        OBVIOUS
    <2>1. PICK x \in Demand, o \in Owner :
             Owns(o, x[1]) /\ Held(o)[x[2]] = p /\ p # NoPort
        BY PortHasSlot
    <2>2. x # free
        <3> SUFFICES ASSUME x = free PROVE FALSE
            OBVIOUS
        <3>1. o = t
            BY <1>2, <2>1, OneOwner
        <3> QED
            BY <1>3, <2>1, <3>1
    <2> QED
        BY <2>1, <2>2
<1>6. \A p \in Port : slot[p] \in Slots /\ Fills(slot[p], p)
    BY <1>5
<1>7. \A x \in Slots : \A p, q : Fills(x, p) /\ Fills(x, q) => p = q
    <2> SUFFICES ASSUME NEW x \in Slots, NEW p, NEW q, Fills(x, p), Fills(x, q)
                 PROVE  p = q
        OBVIOUS
    <2>1. x[1] \in Id
        BY DEF Demand
    <2> QED
        BY <2>1, OneOwner
<1>8. /\ IsFiniteSet(Slots)
      /\ Cardinality(Slots) < Cardinality(Port)
    <2>1. IsFiniteSet(Slots) /\ Cardinality(Slots) = Cardinality(Demand) - 1
        BY <1>4, FS_RemoveElement DEF EnoughPorts
    <2>2. Cardinality(Demand) \in Nat /\ Cardinality(Port) \in Nat
        BY FS_CardinalityType DEF EnoughPorts
    <2> QED
        BY <2>1, <2>2 DEF EnoughPorts
<1> HIDE DEF free, Slots, Fills
<1>9. slot \in [Port -> Slots]
    BY <1>6
<1> HIDE DEF slot
<1>10. \E p, q \in Port : p # q /\ slot[p] = slot[q]
    BY <1>8, <1>9, FS_PigeonHole DEF EnoughPorts
<1> QED
    BY <1>6, <1>7, <1>10

LEMMA NothingLeakedStep ==
    ASSUME Gated = TRUE, EnoughPorts, Faults \cap {"alloc", "foreign_load"} = {}
    PROVE  TypeOK /\ CallShape /\ ObjectsSound /\ TurnsSound /\ NothingLeaked
              /\ [Next]_vars => NothingLeaked'
<1> SUFFICES ASSUME TypeOK, CallShape, ObjectsSound, TurnsSound, NothingLeaked,
                    [Next]_vars
             PROVE  Leaked' \subseteq Leaked
    BY DEF NothingLeaked
<1>1. CASE UNCHANGED vars
    BY <1>1 DEF vars, Leaked, Held, At, PortsOf
<1>2. ASSUME NEW t \in Thread, Step(t) PROVE Leaked' \subseteq Leaked
    BY <1>2, AllocationSucceeds, LeakStep DEF TurnsSound
<1> QED
    BY <1>1, <1>2, LeaksAtEnds DEF Next

LEMMA NothingLeakedInit == Init => NothingLeaked
BY DEF Init, NothingLeaked, Leaked

-----------------------------------------------------------------------------
(* The theorems.                                                            *)

\* The manager's tables and objects are always well formed.
THEOREM TypeCorrect == Spec => []TypeOK
<1> QED
    BY TypeInit, MutexInit, CallStep, PTL DEF Spec

\* A thread holds an object's mutex exactly while it is in the middle of a body
\* on that object: no path, normal or by exception, forgets the unlock, and no
\* object is worked on without it.
THEOREM MutexDiscipline == Spec => []MutexHeldInside
<1> QED
    BY TypeInit, MutexInit, CallStep, PTL DEF Spec

\* No loopback port is bound to two streams or released while a stream is bound
\* to it, in any number of sessions with any number of calls under way: also
\* when allocation, loading, start or stop fail, and although the bindings of
\* one object are released without the mutex of another.
THEOREM PortsNeverShared == Spec => [](PortsExclusive /\ UsedPortsAllocated)
<1>1. Init => PortsSound
    BY PortsInit
<1>2. TypeOK /\ CallShape /\ PortsSound /\ [Next]_vars => PortsSound'
    BY PortsStep
<1>3. PortsSound <=> PortsExclusive /\ UsedPortsAllocated
    BY DEF PortsSound
<1> QED
    BY <1>1, <1>2, <1>3, TypeInit, MutexInit, CallStep, PTL DEF Spec

\* An execution comes with a port for every stream its session's graph asks
\* for, and no port is bound without one, also while calls that nobody
\* serialises prepare, start, stop and destroy the same session: streams[] is
\* never partial.
THEOREM BindingsAlwaysComplete == Spec => []BindingsComplete
<1>1. ObjectsSound => BindingsComplete
    BY DEF ObjectsSound
<1> QED
    BY <1>1, TypeInit, MutexInit, CallStep, ObjectsInit, ObjectsStep, PTL DEF Spec

\* No port is released while a stream is bound to it, or while a prepare still
\* counts on it: what the allocator may hand out again is free.
THEOREM UsedPortsStayAllocated == Spec => []UsedPortsAllocated
<1>1. PortsSound => UsedPortsAllocated
    BY DEF PortsSound
<1> QED
    BY <1>1, PortsInit, PortsStep, TypeInit, MutexInit, CallStep, PTL DEF Spec

\* When callers take turns, an object that left the map has no execution and
\* holds no port: a destroy erases only what it has emptied, and nobody fills
\* it again before it does.
THEOREM UnmappedAlwaysEmpty ==
    ASSUME Gated = TRUE
    PROVE  Spec => []UnmappedIsEmpty
<1>1. TurnsSound => UnmappedIsEmpty
    BY DEF TurnsSound
<1> QED
    BY <1>1, TypeInit, MutexInit, CallStep, ObjectsInit, ObjectsStep, TurnsInit,
       TurnsStep, PTL DEF Spec

\* When callers take turns, a port that is lost is lost by an allocation that
\* fails half-way, and by nothing else: not by a failed load, start or stop, nor
\* by an object that is dropped from the map while other calls still refer to
\* it.  (An exception of the loader that is no std::exception is left out: the
\* code does not catch it, and it does lose the ports.)
THEOREM OnlyFailedAllocationLeaks ==
    ASSUME Gated = TRUE, "foreign_load" \notin Faults
    PROVE  Spec => NoPortLeaks
<1>1. TurnsSound => UnmappedIsEmpty
    BY DEF TurnsSound
<1>2. TypeOK /\ CallShape /\ ObjectsSound /\ TurnsSound /\ [Next]_vars
         => [LeaksOnlyByAllocation]_vars
    BY <1>1, NextLeaks
<1>3. NoPortLeaks <=> [][LeaksOnlyByAllocation]_vars
    BY DEF NoPortLeaks, LeaksOnlyByAllocation
<1> QED
    BY <1>2, <1>3, TypeInit, MutexInit, CallStep, ObjectsInit, ObjectsStep,
       TurnsInit, TurnsStep, PTL DEF Spec

\* When callers take turns, no port is lost at all, for ever, as long as there
\* is one for every stream of every session's graph and neither a socket call
\* nor a foreign exception of the loader fails: what is allocated is bound, or
\* about to be.
THEOREM NoPortEverLost ==
    ASSUME Gated = TRUE, EnoughPorts, Faults \cap {"alloc", "foreign_load"} = {}
    PROVE  Spec => []NothingLeaked
BY TypeInit, MutexInit, CallStep, ObjectsInit, ObjectsStep, TurnsInit,
   TurnsStep, NothingLeakedInit, NothingLeakedStep, PTL DEF Spec
=============================================================================
