------------------------- MODULE ControlPlaneProofs -------------------------
(***************************************************************************)
(* Proofs about the composition, for any sets of sessions, threads,        *)
(* objects, ports and streams and any faults: the service in it is the     *)
(* SessionService, the runtime in it is called the way Gr4RuntimeManager   *)
(* demands, at rest the runtime is what the public state says, and when    *)
(* nothing runs every port is back.                                        *)
(*                                                                         *)
(* The parts' own invariants hold here because every step of the whole is  *)
(* a step of each part; so the parts' theorems hold of the whole.  That in *)
(* turn needs the links between them: which runtime call belongs to which  *)
(* request.                                                                *)
(***************************************************************************)
EXTENDS ControlPlane, TLAPS

\* The runtime call of a thread is the one its request, or its settings
\* handler, is waiting for; and it is asked with the stream of the request.
Linked(t) ==
    /\ rt[t].pc # "idle" => web[t].kind = "settings" \/ Svc!InRuntime(t)
    /\ web[t].kind = "settings" => req[t].pc = "idle" /\ web[t].id \in Id
    /\ web[t].kind = "settings" /\ rt[t].pc \notin {"idle", "done"}
          => rt[t].op = "settings"
    /\ web[t].kind # "settings" /\ rt[t].pc \notin {"idle", "done"}
          => rt[t].op = Head(req[t].calls) /\ rt[t].id = req[t].id
    /\ web[t].kind # "none" => web[t].arg = NoStream
    /\ req[t].pc = "calling" => web[t].arg \in Rt!Arguments(req[t].op)

AllLinked == \A t \in Thread : Linked(t)

\* What the parts keep for themselves, and the links.
PartsInv ==
    /\ web \in [Thread -> Web]
    /\ Svc!GateInv /\ Svc!CallsInOrder
    /\ Rt!TypeOK /\ Rt!CallShape /\ Rt!MutexHeldInside /\ Rt!ObjectsSound
    /\ Rt!TurnsSound
    /\ AllLinked

OthersLeft(t) == \A u \in Thread \ {t} : web'[u] = web[u]

-----------------------------------------------------------------------------
(* The steps of the whole are steps of the parts.                           *)

LEMMA PartsTypes ==
    PartsInv => Svc!TypeOK /\ Svc!RequestShape /\ Rt!TypeOK
BY DEF PartsInv, Svc!GateInv

\* The runtime call a request makes next.
LEMMA NextCall ==
    ASSUME PartsInv, NEW t \in Thread, Svc!InRuntime(t)
    PROVE  /\ req[t].id \in Id
           /\ \/ /\ req[t].op \in Svc!ClaimingOp /\ Svc!Holds(t, req[t].id)
                 /\ Head(req[t].calls) \in {"prepare", "start", "stop", "destroy"}
              \/ /\ req[t].op \in Svc!RunningOp
                 /\ req[t].calls = <<req[t].op>>
                 /\ Head(req[t].calls) = req[t].op
<1>1. /\ req[t].pc = "calling" /\ req[t].calls # <<>> /\ req[t].id \in Id
      /\ req[t].op \in Svc!ClaimingOp \cup Svc!RunningOp
      /\ req[t].calls \in Svc!Programs(req[t].op)
    BY PartsTypes DEF PartsInv, Svc!InRuntime, Svc!RequestShape, Svc!CallsInOrder
<1>2. CASE req[t].op \in Svc!ClaimingOp
    BY <1>1, <1>2, Svc!ProgramSteps, ServicePart DEF Svc!Holds
<1>3. CASE req[t].op \in Svc!RunningOp
    <2>1. req[t].calls = <<req[t].op>>
        BY <1>1, <1>3 DEF Svc!Programs, Svc!RunningOp
    <2> QED
        BY <1>1, <1>3, <2>1
<1> QED
    BY <1>1, <1>2, <1>3

\* A call of the service is one the runtime manager admits.
LEMMA CallAdmitted ==
    ASSUME PartsInv, NEW t \in Thread, CallRuntime(t)
    PROVE  /\ Head(req[t].calls) \in RuntimeCalls /\ req[t].id \in Id
           /\ web[t].arg \in Rt!Arguments(Head(req[t].calls))
           /\ Rt!Admitted(Head(req[t].calls), req[t].id)
<1> DEFINE op == Head(req[t].calls)
           i  == req[t].id
<1>1. /\ Svc!InRuntime(t) /\ rt[t].pc = "idle" /\ i \in Id
      /\ req[t].pc = "calling"
    BY NextCall DEF CallRuntime, Rt!Call, Rt!At, Svc!InRuntime
<1>2. op \in RuntimeCalls
    BY <1>1, NextCall DEF RuntimeCalls, Svc!RunningOp
<1>3. web[t].arg \in Rt!Arguments(op)
    <2>1. web[t].arg \in Rt!Arguments(req[t].op)
        BY <1>1 DEF PartsInv, AllLinked, Linked
    <2> QED
        BY <1>1, <2>1, NextCall DEF Rt!Arguments, Svc!ClaimingOp
<1>4. Rt!Admitted(op, i)
    <2> SUFFICES ASSUME op \in Rt!Preparing \cup Rt!Halting, NEW u \in Thread,
                        rt[u].id = i
                 PROVE  rt[u].op \in Rt!Reading
        BY DEF Rt!Admitted
    <2>1. Svc!Holds(t, i)
        BY <1>1, NextCall DEF Rt!Preparing, Rt!Halting, Svc!RunningOp
    <2>2. rt[u].pc \notin {"idle", "done"}
        BY <1>1, RuntimePart DEF PartsInv, Rt!ObjectsSound, Rt!CallSound
    <2>3. CASE web[u].kind = "settings"
        BY <2>2, <2>3 DEF PartsInv, AllLinked, Linked, Rt!Reading
    <2>4. CASE web[u].kind # "settings"
        <3>1. /\ Svc!InRuntime(u) /\ rt[u].op = Head(req[u].calls)
              /\ req[u].id = i
            BY <2>2, <2>4 DEF PartsInv, AllLinked, Linked
        <3>2. CASE Svc!Holds(u, i)
            <4>1. u = t
                BY <1>1, <2>1, <3>2
                   DEF PartsInv, Svc!GateInv, Svc!OneClaimPerSession
            <4> QED
                BY <1>1, <2>2, <4>1
        <3>3. CASE ~ Svc!Holds(u, i)
            BY <3>1, <3>3, NextCall DEF Rt!Reading, Svc!RunningOp
        <3> QED
            BY <3>2, <3>3
    <2> QED
        BY <2>3, <2>4
<1> QED
    BY <1>1, <1>2, <1>3, <1>4

\* Each action, as a step of the service and as a step of the runtime.
LEMMA StepOfParts ==
    ASSUME PartsInv, Next
    PROVE  Svc!Next \/ UNCHANGED svcVars
<1>1. PICK t \in Thread : Ask(t) \/ Serve(t) \/ RuntimeSteps(t)
    BY DEF Next
<1>2. CASE Request(t)
    <2>1. "stop" \in Svc!Op /\ Svc!ClaimingOp \subseteq Svc!Op
        BY DEF Svc!Op, Svc!ClaimingOp
    <2> QED
        BY <1>2, <2>1 DEF Request, Svc!Next, Svc!Ask
<1>3. CASE StreamRequest(t)
    <2>1. "fetch" \in Svc!Op /\ "route" \in Svc!Op
        BY DEF Svc!Op, Svc!RunningOp
    <2> QED
        BY <1>3, <2>1 DEF StreamRequest, Svc!Next, Svc!Ask
<1>4. CASE LookUpStreams(t)
    <2>1. "plan" \in Svc!Op /\ web[t] \in Web
        BY DEF Svc!Op, Svc!RunningOp, PartsInv
    <2>2. PICK i \in Id : \/ Svc!Read(t, "plan", i) \/ Svc!Answered(t, "plan", i)
                          \/ Svc!NotFound(t, "plan", i)
        BY <1>4, <2>1 DEF LookUpStreams, Web
    <2> QED
        BY <2>1, <2>2 DEF Svc!Next, Svc!Ask
<1>5. CASE RuntimeAnswers(t)
    BY <1>5 DEF RuntimeAnswers, Svc!Next, Svc!Work
<1>6. CASE Commit(t)
    BY <1>6 DEF Commit, Svc!Next, Svc!Work
<1>7. CASE \/ GetSession(t) \/ ListSessions(t) \/ Settings(t) \/ CallSettings(t)
           \/ SettingsAnswered(t) \/ CallRuntime(t) \/ RuntimeSteps(t)
    BY <1>7 DEF GetSession, ListSessions, Settings, CallSettings,
       SettingsAnswered, CallRuntime, RuntimeSteps
<1> QED
    BY <1>1, <1>2, <1>3, <1>4, <1>5, <1>6, <1>7 DEF Ask, Serve

LEMMA StepOfRuntime ==
    ASSUME PartsInv, Next
    PROVE  Rt!Next \/ UNCHANGED rtVars
<1>1. PICK t \in Thread : Ask(t) \/ Serve(t) \/ RuntimeSteps(t)
    BY DEF Next
<1>2. CASE CallRuntime(t)
    BY <1>2, CallAdmitted DEF CallRuntime, Rt!Next
<1>3. CASE CallSettings(t)
    <2>1. /\ "settings" \in RuntimeCalls /\ web[t].id \in Id
          /\ NoStream \in Rt!Arguments("settings")
          /\ Rt!Admitted("settings", web[t].id)
        BY <1>3 DEF CallSettings, RuntimeCalls, PartsInv, AllLinked, Linked,
           Rt!Arguments, Rt!Admitted, Rt!Preparing, Rt!Halting
    <2> QED
        BY <1>3, <2>1 DEF CallSettings, Rt!Next
<1>4. CASE RuntimeSteps(t) \/ SettingsAnswered(t) \/ RuntimeAnswers(t)
    BY <1>4 DEF RuntimeSteps, SettingsAnswered, RuntimeAnswers, Rt!Next
<1>5. CASE \/ Request(t) \/ StreamRequest(t) \/ GetSession(t)
           \/ ListSessions(t) \/ Settings(t) \/ LookUpStreams(t) \/ Commit(t)
    BY <1>5 DEF Request, StreamRequest, GetSession, ListSessions, Settings,
       LookUpStreams, Commit
<1> QED
    BY <1>1, <1>2, <1>3, <1>4, <1>5 DEF Ask, Serve

-----------------------------------------------------------------------------
(* The handlers.                                                            *)

\* What a step of thread t does to the handler of t: nothing; or it is put
\* aside; or one session of a listing is done; or it is a new one.
HandlerStep(t) ==
    \/ UNCHANGED web
    \/ End(t)
    \/ req'[t].pc = "idle" /\ \E i \in Id : LookedUp(t, i)
    \/ /\ Waiting(t)
       /\ \E kind \in Handler, seen \in [Id -> Svc!State \cup {"absent"}],
             todo \in SUBSET Id, i \in Id \cup {NoId} :
             /\ kind = "settings" => i \in Id
             /\ web' = [web EXCEPT ![t] = Handling(kind, seen, todo, i, NoStream)]
       /\ req'[t].pc = "idle"
    \/ /\ Waiting(t)
       /\ \E s \in Stream :
             web' = [web EXCEPT ![t] = Handling("none", Nothing, {}, NoId, s)]
       /\ req'[t].pc = "calling" => req'[t].op \in {"fetch", "route"}

LEMMA NothingType == Nothing \in [Id -> Svc!State \cup {"absent"}]
BY DEF Nothing

LEMMA HandlingType ==
    ASSUME NEW kind \in Handler \cup {"none"},
           NEW seen \in [Id -> Svc!State \cup {"absent"}], NEW todo \in SUBSET Id,
           NEW i \in Id \cup {NoId}, NEW s \in Stream \cup {NoStream}
    PROVE  Handling(kind, seen, todo, i, s) \in Web
BY DEF Handling, Web

LEMMA NoHandlerType == NoHandler \in Web
BY NothingType, HandlingType DEF NoHandler

LEMMA LookedUpEffect ==
    ASSUME PartsInv, NEW t \in Thread, NEW i \in Id, LookedUp(t, i)
    PROVE  /\ web' \in [Thread -> Web] /\ OthersLeft(t)
           /\ \/ web'[t] = NoHandler
              \/ web'[t].kind = web[t].kind /\ web'[t].arg = web[t].arg
                 /\ web'[t].id = web[t].id
<1>1. web \in [Thread -> Web] /\ web[t] \in Web
    BY DEF PartsInv
<1>2. CASE End(t)
    BY <1>1, <1>2, NoHandlerType DEF End, OthersLeft
<1>3. CASE ~ End(t)
    <2> DEFINE d == web[t].todo \ {i}
               w == [web[t] EXCEPT !.todo = d]
    <2>1. web' = [web EXCEPT ![t] = w]
        BY <1>3 DEF LookedUp
    <2>2. d \subseteq Id
        BY <1>1 DEF Web
    <2> HIDE DEF d
    <2>3. /\ w \in Web /\ w.kind = web[t].kind /\ w.arg = web[t].arg
          /\ w.id = web[t].id
        BY <1>1, <2>2 DEF Web
    <2> HIDE DEF w
    <2> QED
        BY <1>1, <2>1, <2>3 DEF OthersLeft
<1> QED
    BY <1>2, <1>3

LEMMA HandlerEffect ==
    ASSUME PartsInv, NEW t \in Thread, HandlerStep(t)
    PROVE  web' \in [Thread -> Web] /\ OthersLeft(t)
<1>1. web \in [Thread -> Web]
    BY DEF PartsInv
<1>2. ASSUME NEW w \in Web, web' = [web EXCEPT ![t] = w]
      PROVE  web' \in [Thread -> Web] /\ OthersLeft(t)
    BY <1>1, <1>2 DEF OthersLeft
<1>3. CASE UNCHANGED web
    BY <1>1, <1>3 DEF OthersLeft
<1>4. CASE End(t)
    BY <1>2, <1>4, NoHandlerType DEF End
<1>5. CASE \E i \in Id : LookedUp(t, i)
    BY <1>5, LookedUpEffect
<1>6. ASSUME NEW kind \in Handler, NEW todo \in SUBSET Id,
             NEW seen \in [Id -> Svc!State \cup {"absent"}],
             NEW i \in Id \cup {NoId},
             web' = [web EXCEPT ![t] = Handling(kind, seen, todo, i, NoStream)]
      PROVE  web' \in [Thread -> Web] /\ OthersLeft(t)
    BY <1>2, <1>6, HandlingType
<1>7. ASSUME NEW s \in Stream,
             web' = [web EXCEPT ![t] = Handling("none", Nothing, {}, NoId, s)]
      PROVE  web' \in [Thread -> Web] /\ OthersLeft(t)
    BY <1>2, <1>7, NothingType, HandlingType
<1> QED
    BY <1>3, <1>4, <1>5, <1>6, <1>7 DEF HandlerStep

-----------------------------------------------------------------------------
(* The links.                                                               *)

\* A thread without a request and without settings to ask for is in no call.
LEMMA AtRestNoCall ==
    ASSUME PartsInv, NEW t \in Thread, ~ Svc!InRuntime(t),
           web[t].kind # "settings"
    PROVE  rt[t].pc = "idle"
BY DEF PartsInv, AllLinked, Linked

\* The links are there again when t is in no call and its handler fits.
LEMMA LinkedAtRest ==
    ASSUME NEW t \in Thread, rt'[t].pc = "idle",
           web'[t].kind = "settings" => req'[t].pc = "idle" /\ web'[t].id \in Id,
           web'[t].kind # "none" => web'[t].arg = NoStream,
           req'[t].pc = "calling" => web'[t].arg \in Rt!Arguments(req'[t].op)
    PROVE  Linked(t)'
BY DEF Linked

\* What a step of t does to the rest, and to the links of t.
StepLinks(t) ==
    /\ HandlerStep(t) /\ Svc!OthersWait(t) /\ Rt!OthersWait(t) /\ Linked(t)'

LEMMA LinksRequest ==
    ASSUME PartsInv, NEW t \in Thread, Request(t)
    PROVE  StepLinks(t)
<1>1. Svc!TypeOK /\ Rt!TypeOK
    BY PartsTypes
<1>2. Waiting(t) /\ End(t) /\ UNCHANGED rt
    BY DEF Request, rtVars
<1>3. rt'[t].pc = "idle" /\ Rt!OthersWait(t)
    BY <1>2, AtRestNoCall DEF Waiting, Svc!InRuntime, Rt!OthersWait
<1>5. ASSUME NEW op \in Svc!ClaimingOp, NEW i \in Id, NEW calls,
             Svc!CallRuntime(t, op, i, calls)
      PROVE  Svc!OthersWait(t) /\ req'[t].op \in Svc!ClaimingOp
    BY <1>1, <1>5, Svc!CallEffect, ServicePart
<1>6. /\ Svc!OthersWait(t)
      /\ req'[t].pc = "calling" => req'[t].op \in Svc!ClaimingOp
    <2>1. CASE \E i \in Id : \/ Svc!Start(t, i) \/ Svc!Stop(t, i)
                             \/ Svc!Restart(t, i) \/ Svc!Remove(t, i)
        <3>1. \E calls : \E op \in Svc!ClaimingOp, i \in Id :
                 Svc!CallRuntime(t, op, i, calls)
            BY <2>1 DEF Svc!Start, Svc!Stop, Svc!Restart, Svc!Remove,
               Svc!Claim, Svc!ClaimingOp
        <3> QED
            BY <1>5, <3>1
    <2>2. CASE \/ Svc!CreateRefused(t)
               \/ \E i \in Id : \/ Svc!Create(t, i) \/ Svc!Answered(t, "stop", i)
                     \/ \E op \in Svc!ClaimingOp :
                           Svc!NotFound(t, op, i) \/ Svc!Refuse(t, op, i)
        <3>1. \E a : Svc!Reply(t, a)
            BY <2>2 DEF Svc!CreateRefused, Svc!Create, Svc!Answered,
               Svc!NotFound, Svc!Refuse
        <3> QED
            BY <1>1, <3>1, Svc!ReplyEffect, ServicePart
    <2> QED
        BY <2>1, <2>2 DEF Request
<1>7. web'[t] = NoHandler
    BY <1>2 DEF End, PartsInv
<1>8. Linked(t)'
    BY <1>3, <1>6, <1>7, LinkedAtRest
       DEF NoHandler, Handling, Rt!Arguments, Svc!ClaimingOp
<1> QED
    BY <1>2, <1>3, <1>6, <1>8 DEF StepLinks, HandlerStep

LEMMA LinksStreamRequest ==
    ASSUME PartsInv, NEW t \in Thread, StreamRequest(t)
    PROVE  StepLinks(t)
<1>1. Svc!TypeOK /\ Rt!TypeOK
    BY PartsTypes
<1>2. PICK op \in {"fetch", "route"}, i \in Id, s \in Stream :
         /\ Svc!Read(t, op, i) \/ Svc!NotFound(t, op, i) \/ Svc!Refuse(t, op, i)
         /\ web' = [web EXCEPT ![t] = Handling("none", Nothing, {}, NoId, s)]
    BY DEF StreamRequest
<1>3. Waiting(t) /\ UNCHANGED rt
    BY DEF StreamRequest, rtVars
<1>4. rt'[t].pc = "idle" /\ Rt!OthersWait(t)
    BY <1>3, AtRestNoCall DEF Waiting, Svc!InRuntime, Rt!OthersWait
<1>5. Svc!OthersWait(t) /\ (req'[t].pc = "calling" => req'[t].op = op)
    <2>1. CASE Svc!Read(t, op, i)
        BY <1>1, <2>1, Svc!CallEffect, ServicePart DEF Svc!Read
    <2>2. CASE Svc!NotFound(t, op, i) \/ Svc!Refuse(t, op, i)
        BY <1>1, <2>2, Svc!ReplyEffect, ServicePart DEF Svc!NotFound, Svc!Refuse
    <2> QED
        BY <1>2, <2>1, <2>2
<1>6. web'[t].kind = "none" /\ web'[t].arg = s
    BY <1>2 DEF PartsInv, Handling
<1>7. Linked(t)'
    BY <1>2, <1>4, <1>5, <1>6, LinkedAtRest DEF Rt!Arguments
<1> QED
    BY <1>2, <1>3, <1>4, <1>5, <1>7 DEF StepLinks, HandlerStep

LEMMA LinksReads ==
    ASSUME PartsInv, NEW t \in Thread,
           GetSession(t) \/ ListSessions(t) \/ Settings(t)
    PROVE  StepLinks(t)
<1>1. Waiting(t) /\ UNCHANGED <<req, rt>>
    BY DEF GetSession, ListSessions, Settings, svcVars, rtVars
<1>2. rt'[t].pc = "idle" /\ req'[t].pc = "idle"
    BY <1>1, AtRestNoCall DEF Waiting, Svc!InRuntime
<1>3. repo \in [Id -> Svc!State \cup {"absent"}]
    BY PartsTypes DEF Svc!TypeOK
<1>4. \/ End(t)
      \/ \E kind \in Handler, seen \in [Id -> Svc!State \cup {"absent"}],
            todo \in SUBSET Id, i \in Id \cup {NoId} :
            /\ kind = "settings" => i \in Id
            /\ web' = [web EXCEPT ![t] = Handling(kind, seen, todo, i, NoStream)]
    <2>1. CASE GetSession(t)
        <3>1. CASE ~ End(t)
            <4>1. PICK i \in Id :
                     web' = [web EXCEPT ![t] =
                               Handling("one", [Nothing EXCEPT ![i] = repo[i]],
                                        {i}, NoId, NoStream)]
                BY <2>1, <3>1 DEF GetSession
            <4>2. [Nothing EXCEPT ![i] = repo[i]] \in
                     [Id -> Svc!State \cup {"absent"}]
                BY <1>3, NothingType
            <4> DEFINE seen == [Nothing EXCEPT ![i] = repo[i]]
            <4>3. /\ seen \in [Id -> Svc!State \cup {"absent"}]
                  /\ web' = [web EXCEPT ![t] =
                                Handling("one", seen, {i}, NoId, NoStream)]
                BY <4>1, <4>2
            <4> HIDE DEF seen
            <4> QED
                BY <4>3 DEF Handler
        <3> QED
            BY <3>1
    <2>2. CASE ListSessions(t)
        BY <1>3, <2>2 DEF ListSessions, Handler
    <2>3. CASE Settings(t)
        BY <2>3, NothingType DEF Settings, Handler
    <2> QED
        BY <2>1, <2>2, <2>3
<1>5. HandlerStep(t)
    BY <1>1, <1>2, <1>4 DEF HandlerStep
<1>6. /\ web'[t].kind = "settings" => web'[t].id \in Id
      /\ web'[t].arg = NoStream
    BY <1>4 DEF End, NoHandler, Handling, PartsInv
<1>7. Linked(t)'
    BY <1>2, <1>6, LinkedAtRest
<1> QED
    BY <1>1, <1>5, <1>7 DEF StepLinks, Svc!OthersWait, Rt!OthersWait

LEMMA LinksLookUp ==
    ASSUME PartsInv, NEW t \in Thread, LookUpStreams(t)
    PROVE  StepLinks(t)
<1>1. Svc!TypeOK /\ Rt!TypeOK /\ web[t] \in Web
    BY PartsTypes DEF PartsInv
<1>2. /\ web[t].kind \in {"one", "all"} /\ req[t].pc = "idle" /\ UNCHANGED rt
      /\ web[t].arg = NoStream
    BY DEF LookUpStreams, rtVars, PartsInv, AllLinked, Linked
<1>3. rt'[t].pc = "idle" /\ Rt!OthersWait(t)
    BY <1>2, AtRestNoCall DEF Svc!InRuntime, Rt!OthersWait
<1>4. PICK i \in Id : \/ Svc!Read(t, "plan", i) /\ UNCHANGED web
                      \/ Svc!Answered(t, "plan", i) /\ LookedUp(t, i)
                      \/ Svc!NotFound(t, "plan", i) /\ End(t)
    BY <1>1 DEF LookUpStreams, Web
<1>5. CASE Svc!Read(t, "plan", i) /\ UNCHANGED web
    <2>1. Svc!OthersWait(t) /\ req'[t].op = "plan"
        BY <1>1, <1>5, Svc!CallEffect, ServicePart DEF Svc!Read
    <2>2. Linked(t)'
        BY <1>2, <1>3, <1>5, <2>1, LinkedAtRest DEF Rt!Arguments
    <2> QED
        BY <1>3, <1>5, <2>1, <2>2 DEF StepLinks, HandlerStep
<1>6. CASE ~ UNCHANGED web
    <2>1. /\ \/ Svc!Answered(t, "plan", i) /\ LookedUp(t, i)
             \/ Svc!NotFound(t, "plan", i) /\ End(t)
          /\ Svc!OthersWait(t) /\ req'[t].pc = "idle"
        BY <1>1, <1>4, <1>6, Svc!ReplyEffect, ServicePart
           DEF Svc!Answered, Svc!NotFound
    <2>2. /\ web'[t].kind \in {"none", "one", "all"} /\ web'[t].arg = NoStream
        BY <1>2, <2>1, LookedUpEffect
           DEF End, NoHandler, Handling, PartsInv
    <2>3. Linked(t)'
        BY <1>3, <2>1, <2>2, LinkedAtRest
    <2> QED
        BY <1>3, <2>1, <2>3 DEF StepLinks, HandlerStep
<1>7. CASE Svc!Answered(t, "plan", i) /\ LookedUp(t, i) /\ UNCHANGED web
    <2>1. Svc!OthersWait(t) /\ req'[t].pc = "idle"
        BY <1>1, <1>7, Svc!ReplyEffect, ServicePart DEF Svc!Answered
    <2>2. Linked(t)'
        BY <1>2, <1>3, <1>7, <2>1, LinkedAtRest
    <2> QED
        BY <1>3, <1>7, <2>1, <2>2 DEF StepLinks, HandlerStep
<1>8. CASE Svc!NotFound(t, "plan", i) /\ End(t) /\ UNCHANGED web
    <2>1. Svc!OthersWait(t) /\ req'[t].pc = "idle"
        BY <1>1, <1>8, Svc!ReplyEffect, ServicePart DEF Svc!NotFound
    <2>2. Linked(t)'
        BY <1>2, <1>3, <1>8, <2>1, LinkedAtRest
    <2> QED
        BY <1>3, <1>8, <2>1, <2>2 DEF StepLinks, HandlerStep
<1> QED
    BY <1>4, <1>5, <1>6, <1>7, <1>8

LEMMA LinksCalls ==
    ASSUME PartsInv, NEW t \in Thread, CallRuntime(t) \/ CallSettings(t)
    PROVE  /\ StepLinks(t) /\ UNCHANGED <<svcVars, web, resources, heap>>
           /\ rt[t].pc = "idle" /\ rt'[t].pc = "find"
<1> DEFINE op == IF CallRuntime(t) THEN Head(req[t].calls) ELSE "settings"
           i  == IF CallRuntime(t) THEN req[t].id ELSE web[t].id
           s  == IF CallRuntime(t) THEN web[t].arg ELSE NoStream
<1>1. Rt!Call(t, op, i, s) /\ UNCHANGED <<svcVars, web>>
    BY DEF CallRuntime, CallSettings
<1> HIDE DEF op, i, s
<1>2. /\ rt[t].pc = "idle"
      /\ rt'[t].pc = "find" /\ rt'[t].op = op /\ rt'[t].id = i
      /\ Rt!OthersWait(t) /\ UNCHANGED <<resources, heap>>
    BY <1>1, PartsTypes DEF Rt!Call, Rt!At, Rt!TypeOK, Rt!Detached, Rt!OthersWait
<1>3. UNCHANGED <<req, web>>
    BY <1>1 DEF svcVars
<1>4. CASE CallRuntime(t)
    <2>1. web[t].kind # "settings" /\ Svc!InRuntime(t)
        BY <1>4 DEF CallRuntime, Svc!InRuntime, PartsInv, AllLinked, Linked
    <2>2. Linked(t)'
        BY <1>2, <1>3, <1>4, <2>1
           DEF PartsInv, AllLinked, Linked, Svc!InRuntime, op, i
    <2> QED
        BY <1>1, <1>2, <1>3, <2>2 DEF StepLinks, HandlerStep, Svc!OthersWait
<1>5. CASE ~ CallRuntime(t)
    <2>1. web[t].kind = "settings"
        BY <1>5 DEF CallSettings
    <2>2. Linked(t)'
        BY <1>2, <1>3, <1>5, <2>1 DEF PartsInv, AllLinked, Linked, op
    <2> QED
        BY <1>1, <1>2, <1>3, <2>2 DEF StepLinks, HandlerStep, Svc!OthersWait
<1> QED
    BY <1>1, <1>2, <1>4, <1>5

LEMMA ReturnEffect ==
    ASSUME Rt!TypeOK, NEW t \in Thread, Rt!Return(t)
    PROVE  /\ rt[t].pc = "done" /\ rt'[t].pc = "idle" /\ Rt!OthersWait(t)
           /\ UNCHANGED <<resources, heap>>
BY DEF Rt!Return, Rt!At, Rt!NoCall, Rt!Detached, Rt!TypeOK, Rt!OthersWait

LEMMA LinksSettingsAnswered ==
    ASSUME PartsInv, NEW t \in Thread, SettingsAnswered(t)
    PROVE  StepLinks(t)
<1>1. /\ rt'[t].pc = "idle" /\ Rt!OthersWait(t) /\ UNCHANGED req
      /\ req[t].pc = "idle" /\ End(t)
    BY PartsTypes, ReturnEffect
       DEF SettingsAnswered, svcVars, PartsInv, AllLinked, Linked
<1>2. web'[t] = NoHandler
    BY <1>1 DEF End, PartsInv
<1>3. Linked(t)'
    BY <1>1, <1>2, LinkedAtRest DEF NoHandler, Handling
<1> QED
    BY <1>1, <1>3 DEF StepLinks, HandlerStep, Svc!OthersWait

LEMMA LinksRuntimeAnswers ==
    ASSUME PartsInv, NEW t \in Thread, RuntimeAnswers(t)
    PROVE  StepLinks(t)
<1>1. /\ Svc!TypeOK /\ Rt!TypeOK /\ Svc!InRuntime(t) /\ req[t].pc = "calling"
      /\ req[t].id \in Id
    BY PartsTypes, NextCall DEF RuntimeAnswers, Svc!InRuntime
<1>2. rt'[t].pc = "idle" /\ Rt!OthersWait(t)
    BY <1>1, ReturnEffect DEF RuntimeAnswers
<1>3. Svc!RuntimeReturns(t) \/ Svc!RuntimeThrows(t) \/ Svc!FetchRetries(t)
    BY DEF RuntimeAnswers
<1>4. /\ Svc!OthersWait(t)
      /\ req'[t].pc = "calling" =>
            req'[t].op = req[t].op /\ (req[t].op = "fetch" \/ req[t].op \notin Svc!RunningOp)
    BY <1>1, <1>3, Svc!AnswerEffect, ServicePart
<1>5. web[t].kind # "settings" /\ web[t].arg \in Rt!Arguments(req[t].op)
    BY <1>1 DEF PartsInv, AllLinked, Linked
<1>6. CASE req[t].op = "plan"
    <2>1. req'[t].pc \in {"idle", "failing"}
        BY <1>1, <1>3, <1>4, <1>6, Svc!AnswerEffect, ServicePart DEF Svc!RunningOp
    <2>2. req'[t].pc = "idle"
        BY <1>1, <1>3, <1>6, <2>1, Svc!AnswerEffect, ServicePart DEF Svc!RunningOp
    <2>3. End(t) \/ LookedUp(t, req[t].id)
        BY <1>6 DEF RuntimeAnswers
    <2>4. /\ web'[t].kind # "settings"
          /\ web'[t].kind # "none" => web'[t].arg = NoStream
        <3>1. CASE End(t)
            BY <3>1 DEF End, NoHandler, Handling, PartsInv
        <3>2. CASE LookedUp(t, req[t].id)
            BY <1>1, <1>5, <3>2, LookedUpEffect
               DEF PartsInv, AllLinked, Linked, NoHandler, Handling
        <3> QED
            BY <2>3, <3>1, <3>2
    <2>5. Linked(t)'
        BY <1>2, <2>2, <2>4, LinkedAtRest
    <2>6. HandlerStep(t)
        BY <1>1, <2>2, <2>3 DEF HandlerStep
    <2> QED
        BY <1>2, <1>4, <2>5, <2>6 DEF StepLinks
<1>7. CASE req[t].op # "plan"
    <2>1. UNCHANGED web
        BY <1>7 DEF RuntimeAnswers
    <2>2. Linked(t)'
        BY <1>2, <1>4, <1>5, <2>1, LinkedAtRest DEF PartsInv, AllLinked, Linked
    <2> QED
        BY <1>2, <1>4, <2>1, <2>2 DEF StepLinks, HandlerStep
<1> QED
    BY <1>6, <1>7

LEMMA LinksCommit ==
    ASSUME PartsInv, NEW t \in Thread, Commit(t)
    PROVE  /\ StepLinks(t) /\ rt[t].pc = "idle"
           /\ req[t].pc # "idle" /\ req[t].op \in Svc!ClaimingOp
           /\ req'[t].pc = "idle"
<1>1. /\ Svc!TypeOK /\ UNCHANGED <<web, rt>> /\ Svc!Commit(t)
    BY PartsTypes DEF Commit, rtVars
<1>2. /\ req[t].pc # "idle" /\ req[t].op \in Svc!ClaimingOp
      /\ \E a : Svc!Reply(t, a)
    BY <1>1, PartsTypes, Svc!CommitIsStore, ServicePart DEF Svc!Store
<1>3. ~ Svc!InRuntime(t)
    BY <1>1 DEF Svc!Commit, Svc!CommitRunning, Svc!CommitStopped,
       Svc!CommitRemoved, Svc!RecordFailure, Svc!Done, Svc!InRuntime
<1>4. rt[t].pc = "idle" /\ web[t].kind # "settings"
    BY <1>2, <1>3 DEF PartsInv, AllLinked, Linked
<1>5. Svc!OthersWait(t) /\ req'[t].pc = "idle"
    BY <1>1, <1>2, Svc!ReplyEffect, ServicePart
<1>6. Linked(t)'
    BY <1>1, <1>4, <1>5, LinkedAtRest DEF PartsInv, AllLinked, Linked
<1> QED
    BY <1>1, <1>2, <1>4, <1>5, <1>6 DEF StepLinks, HandlerStep, Rt!OthersWait

LEMMA LinksRuntimeSteps ==
    ASSUME PartsInv, NEW t \in Thread, RuntimeSteps(t)
    PROVE  /\ StepLinks(t) /\ UNCHANGED <<svcVars, web>>
           /\ rt[t].pc \notin {"idle", "done"}
<1>1. Rt!TypeOK /\ Rt!Step(t) /\ UNCHANGED <<svcVars, web>>
    BY PartsTypes DEF RuntimeSteps
<1>2. /\ rt[t].pc \notin {"idle", "done"}
      /\ \/ rt'[t].pc = "done"
         \/ /\ rt'[t].pc \notin {"idle", "find", "done"}
            /\ rt'[t].op = rt[t].op /\ rt'[t].id = rt[t].id
    BY <1>1, Rt!StepGoesOn, RuntimePart
<1>3. Rt!OthersWait(t)
    BY <1>1, Rt!SoundBody, Rt!SoundAdvance, RuntimePart
       DEF PartsInv, Rt!Step, Rt!StepSound
<1>4. UNCHANGED <<req, web>>
    BY <1>1 DEF svcVars
<1>5. Linked(t)'
    BY <1>2, <1>4 DEF PartsInv, AllLinked, Linked, Svc!InRuntime
<1> QED
    BY <1>1, <1>2, <1>3, <1>4, <1>5 DEF StepLinks, HandlerStep, Svc!OthersWait

LEMMA StepOfThread ==
    ASSUME PartsInv, NEW t \in Thread, Ask(t) \/ Serve(t) \/ RuntimeSteps(t)
    PROVE  StepLinks(t)
BY LinksRequest, LinksStreamRequest, LinksReads, LinksLookUp, LinksCalls,
   LinksSettingsAnswered, LinksRuntimeAnswers, LinksCommit, LinksRuntimeSteps
   DEF Ask, Serve

-----------------------------------------------------------------------------
(* The parts' invariants and the links, together.                           *)

LEMMA PartsInit == Init => PartsInv
<1> SUFFICES ASSUME Init PROVE PartsInv
    OBVIOUS
<1>1. Svc!GateInv /\ Svc!CallsInOrder
    BY Svc!GateInit, Svc!OrderInit, ServicePart DEF Init
<1>2. /\ Rt!TypeOK /\ Rt!CallShape /\ Rt!MutexHeldInside /\ Rt!ObjectsSound
      /\ Rt!TurnsSound
    BY Rt!TypeInit, Rt!MutexInit, Rt!ObjectsInit, Rt!TurnsInit, RuntimePart
       DEF Init
<1>3. web \in [Thread -> Web]
    BY NoHandlerType DEF Init
<1>4. ASSUME NEW t \in Thread PROVE Linked(t)
    <2>1. rt[t].pc = "idle" /\ req[t].pc = "idle" /\ web[t].kind = "none"
        BY DEF Init, Svc!Init, Svc!Idle, Rt!Init, Rt!NoCall, Rt!Detached,
           NoHandler, Handling
    <2> QED
        BY <2>1 DEF Linked
<1> QED
    BY <1>1, <1>2, <1>3, <1>4 DEF PartsInv, AllLinked

LEMMA PartsStep == PartsInv /\ [Next]_vars => PartsInv'
<1> SUFFICES ASSUME PartsInv, [Next]_vars PROVE PartsInv'
    OBVIOUS
<1>1. [Svc!Next]_svcVars
    BY StepOfParts DEF vars, svcVars
<1>2. [Rt!Next]_rtVars
    BY StepOfRuntime DEF vars, rtVars
<1>3. Svc!GateInv' /\ Svc!CallsInOrder'
    BY <1>1, Svc!GateStep, Svc!OrderStep, ServicePart
       DEF PartsInv, svcVars, Svc!vars
<1>4. /\ Rt!TypeOK' /\ Rt!CallShape' /\ Rt!MutexHeldInside' /\ Rt!ObjectsSound'
      /\ Rt!TurnsSound'
    BY <1>2, Rt!CallStep, Rt!ObjectsStep, Rt!TurnsStep, RuntimePart
       DEF PartsInv, rtVars, Rt!vars
<1>5. CASE UNCHANGED vars
    BY <1>3, <1>4, <1>5
       DEF vars, PartsInv, AllLinked, Linked, Svc!InRuntime
<1>6. CASE Next
    <2>1. PICK t \in Thread : StepLinks(t)
        BY <1>6, StepOfThread DEF Next
    <2>2. web' \in [Thread -> Web] /\ OthersLeft(t)
        BY <2>1, HandlerEffect DEF StepLinks
    <2>3. ASSUME NEW u \in Thread PROVE Linked(u)'
        <3>1. CASE u = t
            BY <2>1, <3>1 DEF StepLinks
        <3>2. CASE u # t
            <4>1. req'[u] = req[u] /\ rt'[u] = rt[u] /\ web'[u] = web[u]
                BY <2>1, <2>2, <3>2
                   DEF StepLinks, Svc!OthersWait, Rt!OthersWait, OthersLeft
            <4> QED
                BY <4>1 DEF PartsInv, AllLinked, Linked, Svc!InRuntime
        <3> QED
            BY <3>1, <3>2
    <2> QED
        BY <1>3, <1>4, <2>2, <2>3 DEF PartsInv, AllLinked
<1> QED
    BY <1>5, <1>6

LEMMA PartsAlways == Spec => []PartsInv
<1> QED
    BY PartsInit, PartsStep, PTL DEF Spec

\* Whatever the parts do to each other, no record of the service, of the
\* runtime or of a handler is ever malformed.
THEOREM TypeCorrect == Spec => []TypeOK
<1>1. PartsInv => TypeOK
    BY PartsTypes DEF PartsInv, TypeOK
<1> QED
    BY <1>1, PartsAlways, PTL

\* The session service of the whole is the one specified, checked and proved
\* on its own: plugging in the runtime manager takes nothing away from it.
THEOREM ServiceImplemented == Spec => ImplementsService
<1>1. Init => Svc!Init
    BY DEF Init
<1>2. PartsInv /\ [Next]_vars => [Svc!Next]_svcVars
    BY StepOfParts DEF vars, svcVars
<1> QED
    BY <1>1, <1>2, PartsAlways, PTL DEF Spec, ImplementsService

\* The gate of the service keeps the order the runtime manager counts on: it
\* never gets a lifecycle call for a session while another one is under way.
THEOREM RuntimeUsedInTurn == Spec => UsesRuntimeInTurn
<1>1. Init => Rt!Init
    BY DEF Init
<1>2. PartsInv /\ [Next]_vars => [Rt!Next]_rtVars
    BY StepOfRuntime DEF vars, rtVars
<1> QED
    BY <1>1, <1>2, PartsAlways, PTL DEF Spec, UsesRuntimeInTurn

-----------------------------------------------------------------------------
(* What the runtime has come to.                                            *)

\* What a lifecycle call promises of the session's object.
Post(op, i) ==
    LET r == resources[i]
    IN  /\ op = "start" => r # NoRes /\ Rt!Live(r)
        /\ op = "stop" /\ r # NoRes => heap[r].exec = "none"
        /\ op = "destroy" => r = NoRes

\* The last call of t's request has been answered "ok".
CallsMade(t) ==
    /\ req[t].pc = "calling" /\ req[t].op \in Svc!ClaimingOp
    /\ \/ req[t].calls = <<>>
       \/ /\ rt[t].pc = "done" /\ rt[t].outcome = "ok"
          /\ Head(req[t].calls) = Svc!LastOf(req[t].op)

\* It has brought about what the request is going to commit.
BroughtAbout(t) == CallsMade(t) => Post(Svc!LastOf(req[t].op), req[t].id)

\* At rest the last commit still holds.
AtRest ==
    \A i \in Id : phases[i] \notin Svc!Moving =>
        /\ repo[i] = "running" => Post("start", i)
        /\ repo[i] = "stopped" => Post("stop", i)
        /\ repo[i] = "absent"  => Post("destroy", i)

Settled ==
    /\ \A t \in Thread : BroughtAbout(t)
    /\ AtRest
    /\ AdvertisedComplete

\* Whoever works for a session has claimed it, and is alone with it.
LEMMA WorkerHolds ==
    ASSUME PartsInv, NEW t \in Thread, NEW i \in Id, Rt!Works(t, i)
    PROVE  /\ Svc!Holds(t, i) /\ Svc!InRuntime(t) /\ req[t].id = i
           /\ rt[t].op = Head(req[t].calls) /\ req[t].op \in Svc!ClaimingOp
<1>1. web[t].kind # "settings"
    BY DEF Rt!Works, Rt!LifecycleCall, Rt!Preparing, Rt!Halting, PartsInv, AllLinked,
       Linked
<1>2. Svc!InRuntime(t) /\ rt[t].op = Head(req[t].calls) /\ req[t].id = i
    BY <1>1 DEF Rt!Works, PartsInv, AllLinked, Linked
<1> QED
    BY <1>2, NextCall
       DEF Rt!Works, Rt!LifecycleCall, Rt!Preparing, Rt!Halting, Svc!RunningOp

LEMMA OneHolder ==
    ASSUME PartsInv, NEW t \in Thread, NEW u \in Thread, NEW i \in Id,
           Svc!Holds(t, i), Svc!Holds(u, i)
    PROVE  t = u
BY DEF PartsInv, Svc!GateInv, Svc!OneClaimPerSession

\* What a step of the runtime does to the map and the objects, and to the
\* sessions it does not work for.
LEMMA RuntimeMoves ==
    ASSUME PartsInv, NEW t \in Thread, Rt!Step(t)
    PROVE  /\ Rt!MapStep(t) /\ Rt!HeapStep(t) /\ Rt!SameObject(t)
           /\ Rt!OthersWait(t) /\ rt[t].id \in Id
           /\ rt[t].pc \notin {"idle", "done"}
           /\ resources \in [Id -> Res \cup {NoRes}] /\ heap \in [Res -> Rt!Resource]
BY Rt!StepMoves, RuntimePart DEF PartsInv

LEMMA Stable ==
    ASSUME PartsInv, NEW t \in Thread, Rt!Step(t), NEW i \in Id, ~ Rt!Works(t, i)
    PROVE  /\ resources'[i] = resources[i]
           /\ resources[i] # NoRes => heap'[resources[i]] = heap[resources[i]]
BY Rt!Stable, RuntimePart DEF PartsInv

\* So what was promised of such a session stays true.
LEMMA PostStays ==
    ASSUME NEW i, NEW op, resources'[i] = resources[i],
           resources[i] # NoRes => heap'[resources[i]] = heap[resources[i]],
           Post(op, i)
    PROVE  Post(op, i)'
BY DEF Post, Rt!Live

-----------------------------------------------------------------------------
(* A step of the runtime.                                                   *)

LEMMA BroughtAboutByRuntime ==
    ASSUME PartsInv, Settled, NEW t \in Thread, RuntimeSteps(t), NEW u \in Thread
    PROVE  BroughtAbout(u)'
<1>1. Rt!Step(t) /\ req' = req
    BY DEF RuntimeSteps, svcVars
<1> USE <1>1, RuntimeMoves
<1> DEFINE i  == req[u].id
           op == Svc!LastOf(req[u].op)
<1> SUFFICES ASSUME CallsMade(u)' PROVE Post(op, i)'
    BY <1>1 DEF BroughtAbout
<1>2. /\ req[u].pc = "calling" /\ req[u].op \in Svc!ClaimingOp
      /\ i \in Id /\ Svc!Holds(u, i)
    BY <1>1, PartsTypes DEF CallsMade, Svc!RequestShape, Svc!Holds
<1>3. CASE u # t
    <2>1. CallsMade(u)
        BY <1>1, <1>3 DEF CallsMade, Rt!OthersWait
    <2>2. ~ Rt!Works(t, i)
        BY <1>2, <1>3, WorkerHolds, OneHolder
    <2>3. Post(op, i)
        BY <2>1 DEF Settled, BroughtAbout
    <2> QED
        BY <1>1, <1>2, <2>2, <2>3, Stable, PostStays
<1>4. CASE u = t
    <2>1. web[t].kind # "settings" /\ Svc!InRuntime(t)
        BY <1>1, <1>2, <1>4 DEF PartsInv, AllLinked, Linked
    <2>2. /\ rt'[t].pc = "done" /\ rt'[t].outcome = "ok"
          /\ rt[t].op = op /\ rt[t].id = i
        BY <1>1, <1>4, <2>1
           DEF CallsMade, PartsInv, AllLinked, Linked, Svc!InRuntime
    <2>3. Rt!Achieved(t)
        BY <1>1, <2>2, Rt!OutcomeOfStep, RuntimePart DEF PartsInv
    <2>4. op \in {"start", "stop", "destroy"} /\ op \in Rt!LifecycleCall
        BY DEF Svc!LastOf, Rt!LifecycleCall, Rt!Preparing, Rt!Halting
    <2>5. CASE rt[t].pc = "find"
        <3>1. resources[i] = NoRes /\ op \in {"stop", "destroy"}
            BY <2>2, <2>3, <2>4, <2>5 DEF Rt!Achieved, Rt!Inside
        <3>2. UNCHANGED resources
            BY <2>2, <2>5, <3>1 DEF Rt!MapStep, Rt!Preparing
        <3> QED
            BY <3>1, <3>2 DEF Post
    <2>6. CASE rt[t].pc = "erase"
        <3>1. resources[i] = rt[t].res
            BY <2>2, <2>4, <2>6 DEF PartsInv, Rt!TurnsSound, Rt!HoldsObject
        <3>2. op = "destroy" /\ resources'[i] # rt[t].res
            BY <2>2, <2>3, <2>4, <2>6 DEF Rt!Achieved, Rt!Inside
        <3>3. resources'[i] = NoRes
            BY <1>2, <2>2, <2>6, <3>1, <3>2 DEF Rt!MapStep
        <3> QED
            BY <3>2, <3>3 DEF Post
    <2>7. CASE rt[t].pc \notin {"find", "erase"}
        <3>1. /\ op \in {"start", "stop"} /\ rt[t].pc \in {"lock"} \cup Rt!Inside
              /\ op = "start" => /\ heap'[rt[t].res].exec = "running"
                                 /\ heap'[rt[t].res].phase = "Running"
              /\ op = "stop" => heap'[rt[t].res].exec = "none"
            BY <2>2, <2>3, <2>4, <2>7 DEF Rt!Achieved
        <3>2. resources[i] = rt[t].res /\ rt[t].res \in Res
            BY <2>2, <2>4, <3>1
               DEF PartsInv, Rt!TurnsSound, Rt!HoldsObject, Rt!CallShape
        <3>3. UNCHANGED resources
            BY <2>7 DEF Rt!MapStep
        <3> QED
            BY <3>1, <3>2, <3>3, RuntimePart DEF Post, Rt!Live
    <2> QED
        BY <2>5, <2>6, <2>7
<1> QED
    BY <1>3, <1>4

LEMMA AtRestByRuntime ==
    ASSUME PartsInv, Settled, NEW t \in Thread, RuntimeSteps(t)
    PROVE  AtRest'
<1> SUFFICES ASSUME NEW i \in Id, phases[i] \notin Svc!Moving
             PROVE  /\ repo[i] = "running" => Post("start", i)'
                    /\ repo[i] = "stopped" => Post("stop", i)'
                    /\ repo[i] = "absent"  => Post("destroy", i)'
    BY DEF AtRest, RuntimeSteps, svcVars
<1>1. ~ Rt!Works(t, i)
    <2>1. Svc!Holds(t, i) => phases[i] \in Svc!Moving
        BY DEF PartsInv, Svc!GateInv, Svc!ClaimStaysValid, Svc!ClaimPhase,
           Svc!Moving
    <2> QED
        BY <2>1, WorkerHolds
<1>2. ASSUME NEW op, Post(op, i) PROVE Post(op, i)'
    BY <1>1, <1>2, Stable, PostStays DEF RuntimeSteps
<1> QED
    BY <1>2 DEF Settled, AtRest

LEMMA AdvertisedByRuntime ==
    ASSUME PartsInv, Settled, NEW t \in Thread, RuntimeSteps(t)
    PROVE  AdvertisedComplete'
<1> USE RuntimeMoves
<1>1. Rt!Step(t) /\ req' = req
    BY DEF RuntimeSteps, svcVars
<1> SUFFICES ASSUME NEW u \in Thread, req[u].op = "plan", rt'[u].pc = "done"
             PROVE  rt'[u].streams \in {{}, StreamsOf[req[u].id]}
    BY <1>1 DEF AdvertisedComplete
<1>2. CASE u # t
    BY <1>1, <1>2 DEF Rt!OthersWait, Settled, AdvertisedComplete
<1>3. CASE u = t
    <2>1. req[t].pc # "idle"
        BY <1>3 DEF PartsInv, Svc!CallsInOrder
    <2>2. rt[t].id = req[t].id
        BY <1>1, <2>1 DEF PartsInv, AllLinked, Linked
    <2> QED
        BY <1>1, <1>3, <2>2, Rt!OutcomeOfStep, RuntimePart DEF PartsInv
<1> QED
    BY <1>2, <1>3

LEMMA SettledByRuntime ==
    ASSUME PartsInv, Settled, NEW t \in Thread, RuntimeSteps(t)
    PROVE  Settled'
BY BroughtAboutByRuntime, AtRestByRuntime, AdvertisedByRuntime DEF Settled

-----------------------------------------------------------------------------
(* The other steps: the runtime is as it was.                               *)

LEMMA SettledQuietly ==
    ASSUME PartsInv, Settled, NEW t \in Thread, UNCHANGED <<resources, heap>>,
           Svc!OthersWait(t), Rt!OthersWait(t), rt'[t].pc \in {"idle", "find"},
           BroughtAbout(t)', AtRest'
    PROVE  Settled'
<1>1. \A op, i : Post(op, i)' <=> Post(op, i)
    BY DEF Post, Rt!Live
<1>2. ASSUME NEW u \in Thread PROVE BroughtAbout(u)'
    <2>1. CASE u = t
        BY <2>1
    <2>2. CASE u # t
        <3>1. req'[u] = req[u] /\ rt'[u] = rt[u]
            BY <2>2 DEF Svc!OthersWait, Rt!OthersWait
        <3>2. BroughtAbout(u)
            BY DEF Settled
        <3> QED
            BY <1>1, <3>1, <3>2 DEF BroughtAbout, CallsMade
    <2> QED
        BY <2>1, <2>2
<1>3. AdvertisedComplete'
    <2> SUFFICES ASSUME NEW u \in Thread, req'[u].op = "plan", rt'[u].pc = "done"
                 PROVE  rt'[u].streams \in {{}, StreamsOf[req'[u].id]}
        BY DEF AdvertisedComplete
    <2>1. u # t
        OBVIOUS
    <2> QED
        BY <2>1 DEF Svc!OthersWait, Rt!OthersWait, Settled, AdvertisedComplete
<1> QED
    BY <1>2, <1>3 DEF Settled

\* As long as no record and no phase changes, the sessions at rest stay.
LEMMA RestKept ==
    ASSUME Settled, UNCHANGED <<repo, phases, resources, heap>>
    PROVE  AtRest'
BY DEF Settled, AtRest, Post, Rt!Live

LEMMA SettledByReads ==
    ASSUME PartsInv, Settled, NEW t \in Thread,
           \/ StreamRequest(t) \/ GetSession(t) \/ ListSessions(t)
           \/ Settings(t) \/ LookUpStreams(t) \/ CallSettings(t)
           \/ SettingsAnswered(t) \/ CallRuntime(t)
    PROVE  Settled'
<1>1. StepLinks(t)
    BY StepOfThread DEF Ask, Serve
<1>2. /\ UNCHANGED <<resources, heap, repo, phases>>
      /\ rt'[t].pc \in {"idle", "find"}
    <2>1. CASE CallSettings(t) \/ CallRuntime(t)
        BY <2>1, LinksCalls DEF svcVars
    <2>2. CASE SettingsAnswered(t)
        BY <2>2, PartsTypes, ReturnEffect DEF SettingsAnswered, svcVars
    <2>3. CASE \/ StreamRequest(t) \/ GetSession(t) \/ ListSessions(t)
               \/ Settings(t) \/ LookUpStreams(t)
        <3>1. ~ Svc!InRuntime(t) /\ web[t].kind # "settings"
            BY <2>3 DEF StreamRequest, GetSession, ListSessions, Settings,
               LookUpStreams, Waiting, Svc!InRuntime
        <3>2. UNCHANGED <<repo, phases>> /\ UNCHANGED rtVars
            BY <2>3 DEF StreamRequest, GetSession, ListSessions, Settings,
               LookUpStreams, svcVars, Svc!Read, Svc!NotFound, Svc!Refuse,
               Svc!Answered
        <3> QED
            BY <3>1, <3>2, AtRestNoCall DEF rtVars
    <2> QED
        BY <2>1, <2>2, <2>3
<1>3. ~ CallsMade(t)'
    <2>1. CASE UNCHANGED req
        <3>1. CASE req[t].pc = "idle"
            BY <2>1, <3>1 DEF CallsMade
        <3>2. CASE req[t].pc # "idle"
            <4>1. CallRuntime(t)
                BY <3>2 DEF StreamRequest, GetSession, ListSessions, Settings,
                   LookUpStreams, CallSettings, SettingsAnswered, Waiting,
                   PartsInv, AllLinked, Linked
            <4> QED
                BY <1>2, <2>1, <4>1 DEF CallRuntime, CallsMade, Svc!InRuntime
        <3> QED
            BY <3>1, <3>2
    <2>2. CASE StreamRequest(t) \/ LookUpStreams(t)
        <3>1. PICK op, i : op \in Svc!RunningOp /\ (
                 \/ Svc!Read(t, op, i) \/ Svc!NotFound(t, op, i)
                 \/ Svc!Refuse(t, op, i) \/ Svc!Answered(t, op, i))
            BY <2>2 DEF StreamRequest, LookUpStreams, Svc!RunningOp
        <3>2. CASE Svc!Read(t, op, i)
            <4>1. req'[t].op = op
                BY <3>2, PartsTypes, Svc!CallEffect, ServicePart DEF Svc!Read
            <4> QED
                BY <3>1, <4>1 DEF CallsMade, Svc!ClaimingOp, Svc!RunningOp
        <3>3. CASE ~ Svc!Read(t, op, i)
            <4>1. \E a : Svc!Reply(t, a)
                BY <3>1, <3>3 DEF Svc!NotFound, Svc!Refuse, Svc!Answered
            <4> QED
                BY <4>1, PartsTypes, Svc!ReplyEffect, ServicePart DEF CallsMade
        <3> QED
            BY <3>2, <3>3
    <2> QED
        BY <2>1, <2>2 DEF GetSession, ListSessions, Settings, CallSettings,
           SettingsAnswered, CallRuntime, svcVars
<1> QED
    BY <1>1, <1>2, <1>3, RestKept, SettledQuietly DEF BroughtAbout, StepLinks

LEMMA SettledByRequest ==
    ASSUME PartsInv, Settled, NEW t \in Thread, Request(t)
    PROVE  Settled'
<1>1. StepLinks(t)
    BY LinksRequest
<1>2. UNCHANGED <<resources, heap, rt>>
    BY DEF Request, rtVars
<1>3. rt'[t].pc = "idle" /\ Svc!TypeOK
    BY <1>2, AtRestNoCall, PartsTypes DEF Request, Waiting, Svc!InRuntime
<1>4. CASE \E i \in Id : Svc!Create(t, i)
    <2>1. PICK i \in Id : Svc!Create(t, i)
        BY <1>4
    <2>2. req'[t].pc = "idle"
        BY <1>3, <2>1, Svc!ReplyEffect, ServicePart DEF Svc!Create
    <2>3. repo[i] = "absent" /\ phases[i] \notin Svc!Moving
        BY <2>1 DEF Svc!Create, Svc!Exists, PartsInv, Svc!GateInv,
           Svc!NoAbandonedClaim, Svc!ClaimStaysValid
    <2>4. Post("stop", i)'
        BY <1>2, <2>3 DEF Settled, AtRest, Post
    <2>5. /\ repo'[i] = "stopped"
          /\ \A j \in Id \ {i} : repo'[j] = repo[j] /\ phases'[j] = phases[j]
        BY <1>3, <2>1 DEF Svc!Create, Svc!TypeOK
    <2>6. AtRest'
        BY <1>2, <2>4, <2>5 DEF Settled, AtRest, Post, Rt!Live
    <2> QED
        BY <1>1, <1>2, <1>3, <2>2, <2>6, SettledQuietly
           DEF StepLinks, BroughtAbout, CallsMade
<1>5. ASSUME NEW i \in Id, NEW op \in Svc!ClaimingOp, NEW calls,
             Svc!Claim(t, op, i, Svc!ClaimPhase(op), calls), calls # <<>>
      PROVE  Settled'
    <2>1. req'[t].calls # <<>>
        BY <1>3, <1>5, Svc!CallEffect, ServicePart DEF Svc!Claim
    <2>2. /\ UNCHANGED repo /\ phases'[i] \in Svc!Moving
          /\ \A j \in Id \ {i} : phases'[j] = phases[j]
        BY <1>3, <1>5 DEF Svc!Claim, Svc!TypeOK, Svc!ClaimPhase, Svc!Moving
    <2>3. AtRest'
        BY <1>2, <2>2 DEF Settled, AtRest, Post, Rt!Live
    <2> QED
        BY <1>1, <1>2, <1>3, <2>1, <2>3, SettledQuietly
           DEF StepLinks, BroughtAbout, CallsMade
<1>6. CASE \E i \in Id : \/ Svc!Start(t, i) \/ Svc!Stop(t, i)
                         \/ Svc!Restart(t, i) \/ Svc!Remove(t, i)
    <2>1. <<"prepare", "start">> # <<>> /\ <<"stop">> # <<>>
        OBVIOUS
    <2>2. PICK i \in Id : \/ Svc!Start(t, i) \/ Svc!Stop(t, i)
                          \/ Svc!Restart(t, i) \/ Svc!Remove(t, i)
        BY <1>6
    <2>3. \E calls : \E op \in Svc!ClaimingOp :
             Svc!Claim(t, op, i, Svc!ClaimPhase(op), calls) /\ calls # <<>>
        BY <2>1, <2>2, Svc!ProgramsBegin, ServicePart
           DEF Svc!Start, Svc!Stop, Svc!Restart, Svc!Remove, Svc!ClaimPhase,
               Svc!ClaimingOp
    <2> QED
        BY <1>5, <2>3
<1>7. CASE \/ Svc!CreateRefused(t)
           \/ \E i \in Id : \/ Svc!Answered(t, "stop", i)
                            \/ \E op \in Svc!ClaimingOp :
                                  Svc!NotFound(t, op, i) \/ Svc!Refuse(t, op, i)
    <2>1. UNCHANGED <<repo, phases>> /\ \E a : Svc!Reply(t, a)
        BY <1>7 DEF Svc!CreateRefused, Svc!Answered, Svc!NotFound, Svc!Refuse
    <2>2. req'[t].pc = "idle"
        BY <1>3, <2>1, Svc!ReplyEffect, ServicePart
    <2> QED
        BY <1>1, <1>2, <1>3, <2>1, <2>2, RestKept, SettledQuietly
           DEF StepLinks, BroughtAbout, CallsMade
<1> QED
    BY <1>4, <1>6, <1>7 DEF Request

LEMMA SettledByAnswer ==
    ASSUME PartsInv, Settled, NEW t \in Thread, RuntimeAnswers(t)
    PROVE  Settled'
<1>1. StepLinks(t)
    BY LinksRuntimeAnswers
<1>2. /\ rt[t].pc = "done" /\ rt'[t].pc = "idle"
      /\ UNCHANGED <<resources, heap>> /\ Svc!TypeOK /\ Svc!InRuntime(t)
    BY PartsTypes, ReturnEffect DEF RuntimeAnswers
<1>3. UNCHANGED <<repo, phases>>
    BY DEF RuntimeAnswers, Svc!RuntimeReturns, Svc!RuntimeThrows,
       Svc!FetchRetries
<1>4. BroughtAbout(t)'
    <2> SUFFICES ASSUME CallsMade(t)'
                 PROVE  Post(Svc!LastOf(req[t].op), req[t].id)'
        BY DEF BroughtAbout
    <2>1. /\ req'[t].pc = "calling" /\ req'[t].op \in Svc!ClaimingOp
          /\ req'[t].calls = <<>>
        BY <1>2 DEF CallsMade
    <2>2. /\ rt[t].outcome = "ok"
          /\ req'[t].op = req[t].op /\ req'[t].id = req[t].id
          /\ Tail(req[t].calls) = <<>>
        <3>1. \/ Svc!RuntimeReturns(t) \/ Svc!RuntimeThrows(t)
              \/ Svc!FetchRetries(t)
            BY DEF RuntimeAnswers
        <3>2. /\ ~ Svc!RuntimeThrows(t)
              /\ req'[t].op = req[t].op /\ req'[t].id = req[t].id
              /\ Tail(req[t].calls) = <<>>
            BY <1>2, <2>1, <3>1, Svc!AnswerEffect, ServicePart
               DEF Svc!ClaimingOp, Svc!InRuntime
        <3>3. ~ Svc!FetchRetries(t)
            BY <2>1, <3>2 DEF Svc!FetchRetries, Svc!ClaimingOp
        <3> QED
            BY <3>2, <3>3 DEF RuntimeAnswers
    <2>3. Head(req[t].calls) = Svc!LastOf(req[t].op)
        BY <1>2, <2>1, <2>2, Svc!ProgramSteps, ServicePart
           DEF PartsInv, Svc!CallsInOrder, Svc!InRuntime
    <2>4. CallsMade(t)
        BY <1>2, <2>1, <2>2, <2>3 DEF CallsMade, Svc!InRuntime
    <2>5. Post(Svc!LastOf(req[t].op), req[t].id)
        BY <2>4 DEF Settled, BroughtAbout
    <2> QED
        BY <1>2, <2>2, <2>5 DEF Post, Rt!Live
<1> QED
    BY <1>1, <1>2, <1>3, <1>4, RestKept, SettledQuietly DEF StepLinks

LEMMA SettledByCommit ==
    ASSUME PartsInv, Settled, NEW t \in Thread, Commit(t)
    PROVE  Settled'
<1> DEFINE i == req[t].id
<1>1. /\ StepLinks(t) /\ rt[t].pc = "idle" /\ req[t].pc # "idle"
      /\ req[t].op \in Svc!ClaimingOp /\ req'[t].pc = "idle"
    BY LinksCommit
<1>2. UNCHANGED <<resources, heap, rt>> /\ Svc!Commit(t)
    BY DEF Commit, rtVars
<1>3. Svc!TypeOK /\ i \in Id
    BY <1>1, PartsTypes DEF Svc!RequestShape
<1>4. Svc!Done(t) => Post(Svc!LastOf(req[t].op), i)
    BY <1>1 DEF Svc!Done, Settled, BroughtAbout, CallsMade
<1>5. PICK s, p, a :
         /\ Svc!Store(t, s, p, a)
         /\ s = "running" => Post("start", i)
         /\ s = "stopped" => Post("stop", i)
         /\ s = "absent"  => Post("destroy", i)
    <2>1. CASE Svc!CommitRunning(t)
        <3>1. Post("start", i)
            BY <1>4, <2>1 DEF Svc!CommitRunning, Svc!LastOf
        <3> QED
            BY <2>1, <3>1 DEF Svc!CommitRunning
    <2>2. CASE Svc!CommitStopped(t)
        <3>1. Post("stop", i)
            BY <1>4, <2>2 DEF Svc!CommitStopped, Svc!LastOf
        <3> QED
            BY <2>2, <3>1 DEF Svc!CommitStopped
    <2>3. CASE Svc!CommitRemoved(t)
        <3>1. Post("destroy", i)
            BY <1>4, <2>3 DEF Svc!CommitRemoved, Svc!LastOf
        <3> QED
            BY <2>3, <3>1 DEF Svc!CommitRemoved
    <2>4. CASE Svc!RecordFailure(t)
        BY <2>4 DEF Svc!RecordFailure
    <2> QED
        BY <1>2, <2>1, <2>2, <2>3, <2>4 DEF Svc!Commit
<1>6. \/ UNCHANGED <<repo, phases>>
      \/ /\ repo'[i] = s
         /\ \A j \in Id \ {i} : repo'[j] = repo[j] /\ phases'[j] = phases[j]
    BY <1>3, <1>5 DEF Svc!Store, Svc!TypeOK
<1>7. AtRest'
    <2>1. \A op, j : Post(op, j)' <=> Post(op, j)
        BY <1>2 DEF Post, Rt!Live
    <2> QED
        BY <1>2, <1>5, <1>6, <2>1, RestKept DEF Settled, AtRest
<1> QED
    BY <1>1, <1>2, <1>7, SettledQuietly DEF StepLinks, BroughtAbout, CallsMade

LEMMA SettledInit == Init => Settled
<1> SUFFICES ASSUME Init PROVE Settled
    OBVIOUS
<1>1. \A t \in Thread : rt[t].pc = "idle" /\ req[t].pc = "idle"
    BY DEF Init, Svc!Init, Svc!Idle, Rt!Init, Rt!NoCall, Rt!Detached
<1>2. \A t \in Thread : BroughtAbout(t)
    BY <1>1 DEF BroughtAbout, CallsMade
<1>3. AtRest
    BY DEF Init, Svc!Init, Rt!Init, AtRest, Post
<1>4. AdvertisedComplete
    BY <1>1 DEF AdvertisedComplete
<1> QED
    BY <1>2, <1>3, <1>4 DEF Settled

LEMMA SettledStep == PartsInv /\ Settled /\ [Next]_vars => Settled'
<1> SUFFICES ASSUME PartsInv, Settled, [Next]_vars PROVE Settled'
    OBVIOUS
<1>1. CASE UNCHANGED vars
    BY <1>1 DEF vars, Settled, BroughtAbout, CallsMade, AtRest, Post, Rt!Live,
       AdvertisedComplete
<1>2. CASE Next
    BY <1>2, SettledByReads, SettledByRequest, SettledByAnswer,
       SettledByCommit, SettledByRuntime DEF Next, Ask, Serve
<1> QED
    BY <1>1, <1>2

LEMMA SettledAlways == Spec => []Settled
<1> QED
    BY SettledInit, SettledStep, PartsAlways, PTL DEF Spec

\* The heart of the system.  Whenever no lifecycle operation is under way for a
\* session, its public state and the runtime agree: "running" has a running
\* scheduler with every stream bound, "stopped" has nothing left, and a deleted
\* session has no object; whatever failed on the way, and whatever else is
\* going on for other sessions or in readers.
THEOREM StateMatchesRuntime == Spec => []RuntimeMatchesState
<1>1. PartsInv /\ Settled => RuntimeMatchesState
    BY DEF PartsInv, Settled, AtRest, Post, RuntimeMatchesState,
       Rt!ObjectsSound, Rt!MapSound, Rt!BindingsComplete, Rt!TypeOK, Rt!Live
<1> QED
    BY <1>1, PartsAlways, SettledAlways, PTL

\* No execution and no port binding is ever outside the map, where no later
\* stop or delete would find it.
THEOREM NoOrphans == Spec => []NoOrphanExecution
<1>1. PartsInv => NoOrphanExecution
    BY DEF PartsInv, Rt!TurnsSound, NoOrphanExecution
<1> QED
    BY <1>1, PartsAlways, PTL

\* A GET never advertises some of a session's streams: all of them or none.
THEOREM StreamsAllOrNone == Spec => []AdvertisedComplete
<1>1. Settled => AdvertisedComplete
    BY DEF Settled
<1> QED
    BY <1>1, SettledAlways, PTL
-----------------------------------------------------------------------------
(* What was proved of the parts on their own, for the whole.                *)

LEMMA RuntimeOnItsOwn == Spec => Rt!Spec
<1>1. UsesRuntimeInTurn <=> Rt!Spec
    BY DEF UsesRuntimeInTurn, Rt!Spec, rtVars, Rt!vars
<1> QED
    BY <1>1, RuntimeUsedInTurn

\* Whatever requests are under way, of whatever sessions, no port is bound to
\* two streams, and none is released while a stream is bound to it.
THEOREM PortsNeverShared ==
    Spec => [](Rt!PortsExclusive /\ Rt!UsedPortsAllocated)
BY RuntimeOnItsOwn, Rt!PortsNeverShared, RuntimePart

\* Requests, handlers and the service lose no port: only an allocation that
\* fails half-way does.
THEOREM OnlyFailedAllocationLeaks ==
    ASSUME "foreign_load" \notin Faults
    PROVE  Spec => Rt!NoPortLeaks
BY RuntimeOnItsOwn, Rt!OnlyFailedAllocationLeaks, RuntimePart

\* One lifecycle request at a time is between gate and commit for a session,
\* with a copy of the session that stays current, and no session stays
\* "starting" or "stopping" without one: with the real runtime manager
\* answering, and whatever it answers.
THEOREM GateHolds ==
    Spec => [](Svc!OneClaimPerSession /\ Svc!ClaimStaysValid
                  /\ Svc!NoAbandonedClaim /\ Svc!RestingPhaseAgrees)
<1>1. PartsInv => Svc!OneClaimPerSession /\ Svc!ClaimStaysValid
                     /\ Svc!NoAbandonedClaim /\ Svc!RestingPhaseAgrees
    BY DEF PartsInv, Svc!GateInv
<1> QED
    BY <1>1, PartsAlways, PTL

\* The whole, seen through the repository and the phase table, does only what
\* the abstract session lifecycle allows (the safety part: that claims are
\* completed in the end is left to TLC).
THEOREM RefinesLifecycle ==
    Spec => Svc!Lifecycle!Init /\ [][Svc!Lifecycle!Next]_(Svc!Lifecycle!vars)
<1>1. Init => Svc!Lifecycle!Init
    BY Svc!RefinesInit, ServicePart DEF Init
<1>2. PartsInv /\ [Next]_vars
         => [Svc!Lifecycle!Next]_(Svc!Lifecycle!vars)
    <2> SUFFICES ASSUME PartsInv, [Next]_vars
                 PROVE  [Svc!Lifecycle!Next]_(Svc!Lifecycle!vars)
        OBVIOUS
    <2>1. [Svc!Next]_svcVars
        BY StepOfParts DEF vars, svcVars
    <2>2. Svc!GateInv
        BY DEF PartsInv
    <2> QED
        BY <2>1, <2>2, Svc!RefinesStep, ServicePart DEF svcVars, Svc!vars
<1> QED
    BY <1>1, <1>2, PartsAlways, PTL DEF Spec

-----------------------------------------------------------------------------
(* Nothing is left behind.                                                  *)

\* At rest, with no session running or in error, nobody has a port in hand.
LEMMA NobodyHolds ==
    ASSUME PartsInv, RuntimeMatchesState,
           \A i \in Id : repo[i] \in {"absent", "stopped"},
           \A t \in Thread : req[t].pc = "idle" /\ rt[t].pc = "idle",
           NEW o \in Res \cup Thread
    PROVE  Rt!PortsOf(Rt!Held(o)) = {}
<1>1. CASE o \in Res
    <2>1. Rt!Bound(heap[o].bindings) = {}
        <3>1. CASE \A i \in Id : resources[i] # o
            BY <1>1, <3>1 DEF PartsInv, Rt!TurnsSound, Rt!UnmappedIsEmpty
        <3>2. ASSUME NEW i \in Id, resources[i] = o
              PROVE  Rt!Bound(heap[o].bindings) = {}
            <4>1. phases[i] \notin Svc!Moving
                BY DEF PartsInv, Svc!GateInv, Svc!NoAbandonedClaim, Svc!Holds
            <4>2. o # NoRes
                BY <1>1, RuntimePart
            <4> QED
                BY <3>2, <4>1, <4>2 DEF RuntimeMatchesState
        <3> QED
            BY <3>1, <3>2
    <2> QED
        BY <1>1, <2>1 DEF Rt!Held, Rt!PortsOf, Rt!Bound
<1>2. CASE o \in Thread
    <2>1. Rt!Held(o) = Rt!NoBindings
        BY <1>2, Rt!HeldByThreads, RuntimePart
    <2> QED
        BY <2>1 DEF Rt!NoBindings, Rt!PortsOf
<1> QED
    BY <1>1, <1>2

\* When nothing is going on and no session is running or in error, the
\* allocator has every port back, whatever was started, stopped, restarted and
\* removed before, concurrently or not, and whatever else failed: given a port
\* for every stream of every session, no failing socket call, and no foreign
\* exception of the loader.
THEOREM QuiescentPortsReturned ==
    ASSUME Rt!EnoughPorts, Faults \cap {"alloc", "foreign_load"} = {}
    PROVE  Spec => []QuiescentHoldsNoPorts
<1>1. Spec => []Rt!NothingLeaked
    BY RuntimeOnItsOwn, Rt!NoPortEverLost, RuntimePart
<1>2. PartsInv /\ RuntimeMatchesState /\ Rt!NothingLeaked => QuiescentHoldsNoPorts
    BY NobodyHolds DEF QuiescentHoldsNoPorts, Rt!NothingLeaked, Rt!Leaked
<1> QED
    BY <1>1, <1>2, PartsAlways, StateMatchesRuntime, PTL
=============================================================================
