------------------------ MODULE SessionServiceProofs ------------------------
(***************************************************************************)
(* Proofs about SessionService, for any sets of sessions and threads: type *)
(* correctness, the gate (at most one lifecycle operation per session, its *)
(* copy of the session never stale, no claim abandoned, phase and state in *)
(* agreement at rest) and that every step of the service is a step of      *)
(* SessionLifecycle.                                                       *)
(***************************************************************************)
EXTENDS SessionService, SequenceTheorems, TLAPS

\* What kind of request a thread is in, by the place it is at.
RequestShape ==
    \A t \in Thread :
        /\ req[t].pc # "idle" => /\ req[t].id \in Id
                                 /\ req[t].op \in ClaimingOp \cup RunningOp
                                 /\ req[t].answer = "none"
        /\ req[t].pc = "failing" => req[t].op \in ClaimingOp

\* The inductive invariant: the four parts of the gate hold each other up.
GateInv ==
    /\ TypeOK
    /\ RequestShape
    /\ OneClaimPerSession
    /\ ClaimStaysValid
    /\ NoAbandonedClaim
    /\ RestingPhaseAgrees

-----------------------------------------------------------------------------
(* Type correctness.                                                        *)

LEMMA IdleIsRequest ==
    ASSUME NEW a \in Answer
    PROVE  Idle(a) \in Request
<1>1. 0 \in 0 .. MaxTries - 1
    BY ServiceAssumption
<1>2. <<>> \in Seq(Call)
    OBVIOUS
<1> QED
    BY <1>1, <1>2 DEF Idle, Request

\* A request handed to the runtime with a list of calls is well formed.
LEMMA CallIsRequest ==
    ASSUME NEW op \in ClaimingOp \cup RunningOp, NEW i \in Id,
           NEW s \in State \cup {"absent"}, NEW calls \in Seq(Call)
    PROVE  [op |-> op, id |-> i, pc |-> "calling", seen |-> s,
            calls |-> calls, tries |-> 0, answer |-> "none"] \in Request
<1>1. 0 \in 0 .. MaxTries - 1
    BY ServiceAssumption
<1> QED
    BY <1>1 DEF Request, Op, Answer

\* The lists of runtime calls the four lifecycle operations make.
LEMMA CallsAreCalls ==
    ASSUME NEW i
    PROVE  /\ <<"prepare", "start">> \in Seq(Call)
           /\ <<"stop">> \in Seq(Call)
           /\ StopIfRunning(i) \o <<"destroy", "prepare", "start">> \in Seq(Call)
           /\ StopIfRunning(i) \o <<"destroy">> \in Seq(Call)
<1>1. /\ "prepare" \in Call /\ "start" \in Call
      /\ "stop" \in Call /\ "destroy" \in Call
    BY DEF Call
<1>2. StopIfRunning(i) \in Seq(Call)
    BY <1>1 DEF StopIfRunning
<1>3. /\ <<"destroy", "prepare", "start">> \in Seq(Call)
      /\ <<"destroy">> \in Seq(Call)
    BY <1>1
<1> QED
    BY <1>1, <1>2, <1>3

LEMMA TypeInit == Init => TypeOK
<1> SUFFICES ASSUME Init PROVE TypeOK
    OBVIOUS
<1>1. Idle("none") \in Request
    BY IdleIsRequest DEF Answer
<1> QED
    BY <1>1 DEF Init, TypeOK

\* A reply keeps the type of req.
LEMMA ReplyType ==
    ASSUME TypeOK, NEW t, NEW a \in Answer, Reply(t, a)
    PROVE  req' \in [Thread -> Request]
BY IdleIsRequest DEF TypeOK, Reply

LEMMA CallType ==
    ASSUME TypeOK, NEW t, NEW op \in ClaimingOp \cup RunningOp, NEW i \in Id,
           NEW calls \in Seq(Call), CallRuntime(t, op, i, calls)
    PROVE  req' \in [Thread -> Request]
<1>1. repo[i] \in State \cup {"absent"}
    BY DEF TypeOK
<1> QED
    BY <1>1, CallIsRequest DEF TypeOK, CallRuntime

LEMMA StoreType ==
    ASSUME TypeOK, NEW t, NEW s \in State \cup {"absent"},
           NEW p \in Phase \cup {"None"}, NEW a \in Answer, Store(t, s, p, a)
    PROVE  TypeOK'
<1>1. req' \in [Thread -> Request]
    BY ReplyType DEF Store, Answer
<1>2. /\ repo' \in [Id -> State \cup {"absent"}]
      /\ phases' \in [Id -> Phase \cup {"None"}]
    BY DEF Store, TypeOK
<1>3. lastError' \in [Id -> BOOLEAN]
    BY DEF Store, TypeOK
<1> QED
    BY <1>1, <1>2, <1>3 DEF TypeOK

LEMMA ClaimType ==
    ASSUME TypeOK, NEW t, NEW op \in ClaimingOp, NEW i \in Id,
           NEW p \in Phase, NEW calls \in Seq(Call), Claim(t, op, i, p, calls)
    PROVE  TypeOK'
<1>1. req' \in [Thread -> Request]
    BY CallType DEF Claim
<1>2. phases' \in [Id -> Phase \cup {"None"}]
    BY DEF Claim, TypeOK
<1> QED
    BY <1>1, <1>2 DEF Claim, TypeOK

\* One runtime call less to make, and possibly on the way to failing, or one
\* more fetch that failed.
LEMMA ProgressType ==
    ASSUME TypeOK, NEW t \in Thread,
           \/ RuntimeReturns(t) \/ RuntimeThrows(t) \/ FetchRetries(t)
    PROVE  TypeOK'
<1> DEFINE r == req[t]
<1>1. r \in Request
    BY DEF TypeOK
<1>2. CASE RuntimeReturns(t)
    <2>1. CASE r.op \in RunningOp
        BY <1>2, <2>1, ReplyType DEF RuntimeReturns, TypeOK, Answer
    <2>2. CASE r.op \notin RunningOp
        <3>1. Tail(r.calls) \in Seq(Call)
            BY <1>1, <1>2 DEF RuntimeReturns, InRuntime, Request
        <3>2. [r EXCEPT !.calls = Tail(@)] \in Request
            BY <1>1, <3>1 DEF Request
        <3> QED
            BY <1>2, <2>2, <3>2 DEF RuntimeReturns, TypeOK
    <2> QED
        BY <2>1, <2>2
<1>3. CASE RuntimeThrows(t)
    <2>1. CASE r.op \in RunningOp
        BY <1>3, <2>1, ReplyType DEF RuntimeThrows, TypeOK, Answer
    <2>2. CASE r.op \notin RunningOp
        <3>1. <<>> \in Seq(Call)
            OBVIOUS
        <3>2. [r EXCEPT !.pc = "failing"] \in Request
            BY <1>1 DEF Request
        <3>3. [[r EXCEPT !.pc = "failing"] EXCEPT !.calls = <<>>] \in Request
            BY <3>1, <3>2 DEF Request
        <3> QED
            BY <1>3, <2>2, <3>3 DEF RuntimeThrows, TypeOK
    <2> QED
        BY <2>1, <2>2
<1>4. CASE FetchRetries(t)
    <2>1. r.tries + 1 \in 0 .. MaxTries - 1
        BY <1>1, <1>4, ServiceAssumption DEF FetchRetries, Request
    <2>2. [r EXCEPT !.tries = @ + 1] \in Request
        BY <1>1, <2>1 DEF Request
    <2> QED
        BY <1>4, <2>2 DEF FetchRetries, TypeOK
<1> QED
    BY <1>2, <1>3, <1>4

\* Types are preserved by every step.
LEMMA TypeStep == TypeOK /\ [Next]_vars => TypeOK'
<1> SUFFICES ASSUME TypeOK, [Next]_vars PROVE TypeOK'
    OBVIOUS
<1>1. CASE UNCHANGED vars
    BY <1>1 DEF vars, TypeOK
<1>2. ASSUME NEW t \in Thread, NEW i \in Id, Create(t, i) PROVE TypeOK'
    <2>1. req' \in [Thread -> Request]
        BY <1>2, ReplyType DEF Create, Answer
    <2> QED
        BY <1>2, <2>1 DEF Create, TypeOK, State, Phase
<1>3. ASSUME NEW t \in Thread, NEW i \in Id,
             Start(t, i) \/ Stop(t, i) \/ Restart(t, i) \/ Remove(t, i)
      PROVE  TypeOK'
    <2>1. "Starting" \in Phase /\ "Stopping" \in Phase
        BY DEF Phase
    <2>2. CASE Start(t, i)
        BY <2>1, <2>2, CallsAreCalls, ClaimType DEF Start, ClaimingOp
    <2>3. CASE Stop(t, i)
        BY <2>1, <2>3, CallsAreCalls, ClaimType DEF Stop, ClaimingOp
    <2>4. CASE Restart(t, i)
        BY <2>1, <2>4, CallsAreCalls, ClaimType DEF Restart, ClaimingOp
    <2>5. CASE Remove(t, i)
        BY <2>1, <2>5, CallsAreCalls, ClaimType DEF Remove, ClaimingOp
    <2> QED
        BY <1>3, <2>2, <2>3, <2>4, <2>5
<1>4. ASSUME NEW t \in Thread, NEW i \in Id, NEW op \in Op, Read(t, op, i)
      PROVE  TypeOK'
    <2>1. <<op>> \in Seq(Call)
        BY <1>4 DEF Read, Call
    <2>2. req' \in [Thread -> Request]
        BY <1>4, <2>1, CallType DEF Read
    <2> QED
        BY <1>4, <2>2 DEF Read, TypeOK
<1>5. ASSUME NEW t \in Thread,
             \/ CreateRefused(t) \/ List(t)
             \/ \E i \in Id, op \in Op :
                   Answered(t, op, i) \/ NotFound(t, op, i) \/ Refuse(t, op, i)
      PROVE  TypeOK'
    <2>1. PICK a \in Answer : Reply(t, a)
        BY <1>5 DEF CreateRefused, List, Answered, NotFound, Refuse, Answer
    <2>2. UNCHANGED <<repo, lastError, phases>>
        BY <1>5 DEF CreateRefused, List, Answered, NotFound, Refuse
    <2> QED
        BY <2>1, <2>2, ReplyType DEF TypeOK
<1>6. ASSUME NEW t \in Thread, Commit(t) PROVE TypeOK'
    <2>1. PICK s \in State \cup {"absent"}, p \in Phase \cup {"None"},
               a \in Answer : Store(t, s, p, a)
        BY <1>6 DEF Commit, CommitRunning, CommitStopped, CommitRemoved,
                    RecordFailure, State, Phase, Answer
    <2> QED
        BY <2>1, StoreType
<1> QED
    BY <1>1, <1>2, <1>3, <1>4, <1>5, <1>6, ProgressType
       DEF Next, Ask, Work

\* Every variable of the service stays in its type: repository records, phase
\* entries and request records are never malformed.
THEOREM TypeCorrect == Spec => []TypeOK
<1> QED
    BY TypeInit, TypeStep, PTL DEF Spec

-----------------------------------------------------------------------------
(* The gate.                                                                *)

LEMMA GateInit == Init => GateInv
<1> SUFFICES ASSUME Init PROVE GateInv
    OBVIOUS
<1>1. \A t \in Thread : req[t].pc = "idle"
    BY DEF Init, Idle
<1>2. RequestShape /\ OneClaimPerSession /\ ClaimStaysValid
    BY <1>1 DEF RequestShape, OneClaimPerSession, ClaimStaysValid, Holds
<1>3. NoAbandonedClaim /\ RestingPhaseAgrees
    BY DEF Init, NoAbandonedClaim, RestingPhaseAgrees, Moving, RestingPhase
<1> QED
    BY <1>2, <1>3, TypeInit DEF GateInv

\* A step that touches neither the sessions nor who holds them.
LEMMA SameHolders ==
    ASSUME GateInv, TypeOK', RequestShape', UNCHANGED <<repo, phases>>,
           \A u \in Thread, i \in Id :
               /\ Holds(u, i)' <=> Holds(u, i)
               /\ Holds(u, i) => /\ req'[u].op = req[u].op
                                 /\ req'[u].seen = req[u].seen
    PROVE  GateInv'
<1>1. OneClaimPerSession'
    BY DEF GateInv, OneClaimPerSession
<1>2. ClaimStaysValid'
    BY DEF GateInv, ClaimStaysValid, Exists
<1>3. NoAbandonedClaim' /\ RestingPhaseAgrees'
    BY DEF GateInv, NoAbandonedClaim, RestingPhaseAgrees
<1> QED
    BY <1>1, <1>2, <1>3 DEF GateInv

\* Only request t changes, and it is not a claim before or after.
LEMMA GateQuiet ==
    ASSUME GateInv, TypeOK', NEW t \in Thread, NEW r,
           req' = [req EXCEPT ![t] = r],
           req[t].pc = "idle" \/ req[t].op \notin ClaimingOp,
           \/ r.pc = "idle"
           \/ /\ r.pc = "calling" /\ r.id \in Id /\ r.op \in RunningOp
              /\ r.answer = "none",
           UNCHANGED <<repo, phases>>
    PROVE  GateInv'
<1>1. req'[t] = r /\ \A u \in Thread \ {t} : req'[u] = req[u]
    BY DEF GateInv, TypeOK
<1>2. RequestShape'
    BY <1>1 DEF GateInv, RequestShape
<1>3. \A i \in Id : ~ Holds(t, i) /\ ~ Holds(t, i)'
    BY <1>1 DEF Holds, ClaimingOp, RunningOp
<1>4. \A u \in Thread \ {t}, i \in Id : Holds(u, i)' <=> Holds(u, i)
    BY <1>1 DEF Holds
<1> QED
    BY <1>1, <1>2, <1>3, <1>4, SameHolders

\* A claiming request moves on inside the runtime.
LEMMA GateInside ==
    ASSUME GateInv, TypeOK', NEW t \in Thread, req[t].pc = "calling",
           req'[t].pc \in {"calling", "failing"},
           req'[t].pc = "failing" => req[t].op \in ClaimingOp,
           req'[t].op = req[t].op, req'[t].id = req[t].id,
           req'[t].seen = req[t].seen, req'[t].answer = req[t].answer,
           \A u \in Thread \ {t} : req'[u] = req[u],
           UNCHANGED <<repo, phases>>
    PROVE  GateInv'
<1>1. RequestShape'
    BY DEF GateInv, RequestShape
<1>2. \A u \in Thread, i \in Id : Holds(u, i)' <=> Holds(u, i)
    BY DEF Holds
<1> QED
    BY <1>1, <1>2, SameHolders

\* A holder keeps everybody else out, so a session that passes the gate has
\* no holder.
LEMMA FreeSession ==
    ASSUME GateInv, NEW i \in Id, NEW op \in ClaimingOp, ~ Barred(op, i)
    PROVE  phases[i] \notin Moving /\ \A u \in Thread : ~ Holds(u, i)
<1>1. PhaseForLocked(i) \notin Moving
    BY DEF ClaimingOp, Barred, Moving
<1>2. phases[i] \notin Moving
    BY <1>1 DEF PhaseForLocked, Moving
<1>3. \A u \in Thread : Holds(u, i) => phases[i] \in Moving
    BY DEF GateInv, ClaimStaysValid, ClaimPhase, Moving
<1> QED
    BY <1>2, <1>3

LEMMA GateClaim ==
    ASSUME GateInv, TypeOK', NEW t \in Thread, NEW op \in ClaimingOp,
           NEW i \in Id, NEW calls, Claim(t, op, i, ClaimPhase(op), calls)
    PROVE  GateInv'
<1>1. /\ req[t].pc = "idle"
      /\ Exists(i)
      /\ phases[i] \notin Moving
      /\ \A u \in Thread : ~ Holds(u, i)
    BY FreeSession DEF Claim, Asked
<1>2. /\ req'[t].pc = "calling" /\ req'[t].op = op /\ req'[t].id = i
      /\ req'[t].seen = repo[i] /\ req'[t].answer = "none"
      /\ \A u \in Thread \ {t} : req'[u] = req[u]
    BY DEF Claim, CallRuntime, GateInv, TypeOK
<1>3. /\ phases'[i] = ClaimPhase(op)
      /\ \A j \in Id \ {i} : phases'[j] = phases[j]
      /\ repo' = repo
    BY DEF Claim, GateInv, TypeOK
<1>4. ClaimPhase(op) \in Moving
    BY DEF ClaimPhase, Moving
<1>5. /\ \A j \in Id : Holds(t, j)' <=> j = i
      /\ \A u \in Thread \ {t}, j \in Id : Holds(u, j)' <=> Holds(u, j)
      /\ \A j \in Id : ~ Holds(t, j)
    BY <1>1, <1>2 DEF Holds
<1>6. RequestShape'
    BY <1>2 DEF GateInv, RequestShape
<1>7. OneClaimPerSession'
    BY <1>1, <1>5 DEF GateInv, OneClaimPerSession
<1>8. ClaimStaysValid'
    <2> SUFFICES ASSUME NEW u \in Thread, NEW j \in Id, Holds(u, j)'
                 PROVE  /\ repo'[j] # "absent"
                        /\ phases'[j] = ClaimPhase(req'[u].op)
                        /\ req'[u].seen = repo'[j]
        BY DEF ClaimStaysValid, Exists
    <2>1. CASE u = t
        BY <1>1, <1>2, <1>3, <1>5, <2>1 DEF Exists
    <2>2. CASE u # t
        BY <1>1, <1>2, <1>3, <1>5, <2>2
           DEF GateInv, ClaimStaysValid, Exists
    <2> QED
        BY <2>1, <2>2
<1>9. NoAbandonedClaim'
    <2> SUFFICES ASSUME NEW j \in Id, phases'[j] \in Moving
                 PROVE  \E u \in Thread : Holds(u, j)'
        BY DEF NoAbandonedClaim
    <2>1. CASE j = i
        BY <1>5, <2>1
    <2>2. CASE j # i
        BY <1>3, <1>5, <2>2 DEF GateInv, NoAbandonedClaim
    <2> QED
        BY <2>1, <2>2
<1>10. RestingPhaseAgrees'
    BY <1>3, <1>4 DEF GateInv, RestingPhaseAgrees
<1> QED
    BY <1>6, <1>7, <1>8, <1>9, <1>10 DEF GateInv

LEMMA GateStore ==
    ASSUME GateInv, TypeOK', NEW t \in Thread, req[t].pc # "idle",
           req[t].op \in ClaimingOp, NEW s \in State \cup {"absent"}, NEW a,
           Store(t, s, RestingPhase[s], a)
    PROVE  GateInv' /\ req'[t] = Idle(a)
<1> DEFINE i == req[t].id
<1>1. i \in Id /\ Holds(t, i)
    BY DEF GateInv, RequestShape, Holds
<1>2. Exists(i)
    BY <1>1 DEF GateInv, ClaimStaysValid
<1>3. /\ req'[t] = Idle(a)
      /\ \A u \in Thread \ {t} : req'[u] = req[u]
    BY <1>2 DEF Store, Reply, GateInv, TypeOK
<1>4. /\ repo'[i] = s /\ phases'[i] = RestingPhase[s]
      /\ \A j \in Id \ {i} : repo'[j] = repo[j] /\ phases'[j] = phases[j]
    BY <1>1, <1>2 DEF Store, GateInv, TypeOK
<1>5. RestingPhase[s] \notin Moving
    BY DEF RestingPhase, Moving, State
<1>6. /\ \A j \in Id : ~ Holds(t, j)'
      /\ \A u \in Thread \ {t}, j \in Id : Holds(u, j)' <=> Holds(u, j)
    BY <1>3 DEF Holds, Idle
<1>7. \A u \in Thread \ {t} : ~ Holds(u, i)
    BY <1>1 DEF GateInv, OneClaimPerSession
<1>8. \A j \in Id \ {i} : ~ Holds(t, j)
    BY DEF Holds
<1>9. RequestShape'
    BY <1>3 DEF GateInv, RequestShape, Idle
<1>10. OneClaimPerSession'
    BY <1>6 DEF GateInv, OneClaimPerSession
<1>11. ClaimStaysValid'
    BY <1>3, <1>4, <1>6, <1>7 DEF GateInv, ClaimStaysValid, Exists
<1>12. NoAbandonedClaim'
    BY <1>4, <1>5, <1>6, <1>8 DEF GateInv, NoAbandonedClaim
<1>13. RestingPhaseAgrees'
    BY <1>1, <1>4 DEF GateInv, RestingPhaseAgrees
<1> QED
    BY <1>3, <1>9, <1>10, <1>11, <1>12, <1>13 DEF GateInv

LEMMA GateCreate ==
    ASSUME GateInv, TypeOK', NEW t \in Thread, NEW i \in Id, Create(t, i)
    PROVE  GateInv'
<1>1. /\ req[t].pc = "idle" /\ req'[t].pc = "idle"
      /\ \A u \in Thread \ {t} : req'[u] = req[u]
    BY DEF Create, Asked, Reply, Idle, GateInv, TypeOK
<1>2. \A u \in Thread, j \in Id : Holds(u, j)' <=> Holds(u, j)
    BY <1>1 DEF Holds
<1>3. \A u \in Thread : ~ Holds(u, i)
    BY DEF Create, GateInv, ClaimStaysValid
<1>4. /\ repo'[i] = "stopped" /\ phases'[i] = "Idle"
      /\ \A j \in Id \ {i} : repo'[j] = repo[j] /\ phases'[j] = phases[j]
    BY DEF Create, GateInv, TypeOK
<1>5. RequestShape' /\ OneClaimPerSession'
    BY <1>1, <1>2 DEF GateInv, RequestShape, OneClaimPerSession
<1>6. ClaimStaysValid'
    BY <1>1, <1>2, <1>3, <1>4 DEF GateInv, ClaimStaysValid, Exists, Holds
<1>7. NoAbandonedClaim' /\ RestingPhaseAgrees'
    BY <1>2, <1>4 DEF GateInv, NoAbandonedClaim, RestingPhaseAgrees,
                      RestingPhase, Moving
<1> QED
    BY <1>5, <1>6, <1>7 DEF GateInv

\* What the closing sections commit, and for which requests.
LEMMA CommitIsStore ==
    ASSUME NEW t, RequestShape, t \in Thread, Commit(t)
    PROVE  /\ req[t].pc # "idle"
           /\ req[t].op \in ClaimingOp
           /\ \E s \in State \cup {"absent"}, a \in {"ok", "runtime_error"} :
                 Store(t, s, RestingPhase[s], a)
BY DEF Commit, CommitRunning, CommitStopped, CommitRemoved, RecordFailure,
       Done, RequestShape, ClaimingOp, State, RestingPhase

LEMMA GateStep == GateInv /\ [Next]_vars => GateInv'
<1> SUFFICES ASSUME GateInv, [Next]_vars PROVE GateInv'
    OBVIOUS
<1>0. TypeOK /\ TypeOK'
    BY TypeStep DEF GateInv
<1>1. CASE UNCHANGED vars
    <2>1. RequestShape'
        BY <1>1 DEF GateInv, vars, RequestShape
    <2> QED
        BY <1>0, <1>1, <2>1, SameHolders DEF vars, Holds
<1>2. ASSUME NEW t \in Thread, NEW i \in Id, Create(t, i) PROVE GateInv'
    BY <1>0, <1>2, GateCreate
<1>3. ASSUME NEW t \in Thread, NEW i \in Id,
             Start(t, i) \/ Stop(t, i) \/ Restart(t, i) \/ Remove(t, i)
      PROVE  GateInv'
    <2>1. PICK op \in ClaimingOp :
             \E calls : Claim(t, op, i, ClaimPhase(op), calls)
        BY <1>3 DEF Start, Stop, Restart, Remove, ClaimPhase, ClaimingOp
    <2>2. PICK calls : Claim(t, op, i, ClaimPhase(op), calls)
        BY <2>1
    <2> QED
        BY <1>0, <2>2, GateClaim
<1>4. ASSUME NEW t \in Thread, NEW i \in Id, NEW op \in Op, Read(t, op, i)
      PROVE  GateInv'
    <2> DEFINE r == [op |-> op, id |-> i, pc |-> "calling", seen |-> repo[i],
                     calls |-> <<op>>, tries |-> 0, answer |-> "none"]
    <2>1. req' = [req EXCEPT ![t] = r]
        BY <1>4 DEF Read, CallRuntime
    <2>2. /\ req[t].pc = "idle"
          /\ r.pc = "calling" /\ r.id \in Id /\ r.op \in RunningOp
          /\ r.answer = "none"
          /\ UNCHANGED <<repo, phases>>
        BY <1>4 DEF Read, Asked
    <2> HIDE DEF r
    <2> QED
        BY <1>0, <2>1, <2>2, GateQuiet
<1>5. ASSUME NEW t \in Thread,
             \/ CreateRefused(t) \/ List(t)
             \/ \E i \in Id, op \in Op :
                   Answered(t, op, i) \/ NotFound(t, op, i) \/ Refuse(t, op, i)
      PROVE  GateInv'
    <2>1. PICK a : Reply(t, a)
        BY <1>5 DEF CreateRefused, List, Answered, NotFound, Refuse
    <2>2. req[t].pc = "idle" /\ UNCHANGED <<repo, phases>>
        BY <1>5 DEF CreateRefused, List, Answered, NotFound, Refuse, Asked
    <2>3. Idle(a).pc = "idle"
        BY DEF Idle
    <2> QED
        BY <1>0, <2>1, <2>2, <2>3, GateQuiet DEF Reply
<1>6. ASSUME NEW t \in Thread,
             RuntimeReturns(t) \/ RuntimeThrows(t) \/ FetchRetries(t)
      PROVE  GateInv'
    <2>1. CASE req[t].op \in RunningOp /\ ~ FetchRetries(t)
        <3>1. PICK a : Reply(t, a)
            BY <1>6, <2>1 DEF RuntimeReturns, RuntimeThrows
        <3>2. UNCHANGED <<repo, phases>>
            BY <1>6 DEF RuntimeReturns, RuntimeThrows, FetchRetries
        <3>3. Idle(a).pc = "idle" /\ req[t].op \notin ClaimingOp
            BY <2>1 DEF Idle, ClaimingOp, RunningOp
        <3> QED
            BY <1>0, <3>1, <3>2, <3>3, GateQuiet DEF Reply
    <2>2. CASE req[t].op \notin RunningOp \/ FetchRetries(t)
        <3>1. /\ req[t].pc = "calling"
              /\ UNCHANGED <<repo, phases>>
            BY <1>6 DEF RuntimeReturns, RuntimeThrows, FetchRetries, InRuntime
        <3>2. /\ req'[t].pc \in {"calling", "failing"}
              /\ req'[t].op = req[t].op /\ req'[t].id = req[t].id
              /\ req'[t].seen = req[t].seen
              /\ req'[t].answer = req[t].answer
              /\ req'[t].pc = "failing" => req[t].op \notin RunningOp
              /\ \A u \in Thread \ {t} : req'[u] = req[u]
            <4>1. CASE RuntimeReturns(t) /\ req[t].op \notin RunningOp
                <5>1. req' = [req EXCEPT ![t] =
                                [req[t] EXCEPT !.calls = Tail(req[t].calls)]]
                    BY <4>1 DEF RuntimeReturns
                <5> DEFINE c == Tail(req[t].calls)
                <5>2. req' = [req EXCEPT ![t] = [req[t] EXCEPT !.calls = c]]
                    BY <5>1
                <5> HIDE DEF c
                <5> QED
                    BY <3>1, <1>0, <5>2 DEF TypeOK, Request
            <4>2. CASE RuntimeThrows(t) /\ req[t].op \notin RunningOp
                BY <3>1, <1>0, <4>2 DEF RuntimeThrows, TypeOK, Request
            <4>3. CASE FetchRetries(t)
                <5> DEFINE n == req[t].tries + 1
                <5>1. req' = [req EXCEPT ![t] = [req[t] EXCEPT !.tries = n]]
                    BY <4>3 DEF FetchRetries
                <5> HIDE DEF n
                <5> QED
                    BY <3>1, <1>0, <5>1 DEF TypeOK, Request
            <4> QED
                BY <1>6, <2>2, <4>1, <4>2, <4>3
        <3>3. req[t].op \in ClaimingOp \cup RunningOp
            BY <3>1 DEF GateInv, RequestShape
        <3> QED
            BY <1>0, <3>1, <3>2, <3>3, GateInside
    <2> QED
        BY <2>1, <2>2
<1>7. ASSUME NEW t \in Thread, Commit(t) PROVE GateInv'
    BY <1>0, <1>7, CommitIsStore, GateStore DEF GateInv
<1> QED
    BY <1>1, <1>2, <1>3, <1>4, <1>5, <1>6, <1>7 DEF Next, Ask, Work

LEMMA GateAlways == Spec => []GateInv
<1> QED
    BY GateInit, GateStep, PTL DEF Spec

\* However many requests race for a session, at most one of them is between
\* its gate and its commit.
THEOREM AtMostOneClaim == Spec => []OneClaimPerSession
<1>1. GateInv => OneClaimPerSession
    BY DEF GateInv
<1> QED
    BY <1>1, GateAlways, PTL

\* The copy of the session a lifecycle request read at the gate and uses after
\* the unlock stays current until its commit.
THEOREM ClaimNeverStale == Spec => []ClaimStaysValid
<1>1. GateInv => ClaimStaysValid
    BY DEF GateInv
<1> QED
    BY <1>1, GateAlways, PTL

\* No session is left "starting" or "stopping" without a request that will
\* commit it: such a session would refuse every later request for ever.
THEOREM NoSessionStuck == Spec => []NoAbandonedClaim
<1>1. GateInv => NoAbandonedClaim
    BY DEF GateInv
<1> QED
    BY <1>1, GateAlways, PTL

\* At rest the phase table agrees with the repository, and a session has an
\* entry exactly as long as it exists.
THEOREM PhasesAreSound == Spec => []RestingPhaseAgrees
<1>1. GateInv => RestingPhaseAgrees
    BY DEF GateInv
<1> QED
    BY <1>1, GateAlways, PTL

\* An admitted lifecycle request is never answered "not found": nobody removes
\* its session between the gate and the commit.
THEOREM AdmittedRequestsKeepTheirSession == Spec => AdmittedKeepsSession
<1> DEFINE Keeps == \A t \in Thread :
                       req[t].pc # "idle" /\ req[t].op \in ClaimingOp
                           => req'[t].answer # "not_found"
<1>1. GateInv /\ [Next]_vars => [Keeps]_vars
    <2> SUFFICES ASSUME GateInv, Next, NEW t \in Thread,
                        req[t].pc # "idle", req[t].op \in ClaimingOp
                 PROVE  req'[t].answer # "not_found"
        OBVIOUS
    <2>1. req[t].answer = "none" /\ req \in [Thread -> Request]
        BY DEF GateInv, RequestShape, TypeOK
    <2>2. req[t].op \notin RunningOp
        BY DEF ClaimingOp, RunningOp
    <2>3. PICK u \in Thread : \/ CreateRefused(u) \/ List(u) \/ Work(u)
                              \/ \E i \in Id : Ask(u, i)
        BY DEF Next
    <2>4. CASE req[u].pc = "idle" /\ \E r : req' = [req EXCEPT ![u] = r]
        BY <2>1, <2>4
    <2>5. CASE Commit(u)
        <3>1. PICK a \in {"ok", "runtime_error"} :
                 \E s : Store(u, s, RestingPhase[s], a) /\ req'[u] = Idle(a)
            BY <2>5, CommitIsStore, GateStore, TypeStep DEF GateInv
        <3>2. \E r : req' = [req EXCEPT ![u] = r]
            BY <3>1 DEF Store, Reply
        <3> QED
            BY <2>1, <3>1, <3>2 DEF Idle
    <2>6. CASE RuntimeReturns(u) \/ RuntimeThrows(u) \/ FetchRetries(u)
        <3>1. CASE u # t
            <4>1. \E r : req' = [req EXCEPT ![u] = r]
                BY <2>6 DEF RuntimeReturns, RuntimeThrows, FetchRetries, Reply
            <4> QED
                BY <2>1, <3>1, <4>1
        <3>2. CASE u = t
            <4> DEFINE c == Tail(req[t].calls)
                       n == req[t].tries + 1
            <4>1. \/ req' = [req EXCEPT ![t] = [req[t] EXCEPT !.calls = c]]
                  \/ req' = [req EXCEPT ![t] = [req[t] EXCEPT !.tries = n]]
                  \/ req' = [req EXCEPT ![t] = [[req[t] EXCEPT !.pc = "failing"]
                                                 EXCEPT !.calls = <<>>]]
                BY <2>2, <2>6, <3>2
                   DEF RuntimeReturns, RuntimeThrows, FetchRetries
            <4> HIDE DEF c, n
            <4> QED
                BY <2>1, <4>1 DEF Request
        <3> QED
            BY <3>1, <3>2
    <2>7. \/ Commit(u) \/ RuntimeReturns(u) \/ RuntimeThrows(u) \/ FetchRetries(u)
          \/ req[u].pc = "idle" /\ \E r : req' = [req EXCEPT ![u] = r]
        BY <2>3 DEF Work, Ask, CreateRefused, List, Create, Start, Stop, Restart,
                    Remove, Claim, Read, Answered, NotFound, Refuse, Asked,
                    Reply, CallRuntime
    <2> QED
        BY <2>4, <2>5, <2>6, <2>7
<1> QED
    BY <1>1, GateAlways, PTL DEF Spec, AdmittedKeepsSession

-----------------------------------------------------------------------------
(* What a step of thread t does to the requests.                            *)

OthersWait(t) == \A u \in Thread \ {t} : req'[u] = req[u]

LEMMA ReplyEffect ==
    ASSUME TypeOK, NEW t \in Thread, NEW a, Reply(t, a)
    PROVE  req'[t].pc = "idle" /\ req'[t].op = "none" /\ OthersWait(t)
BY DEF Reply, Idle, TypeOK, OthersWait

LEMMA CallEffect ==
    ASSUME TypeOK, NEW t \in Thread, NEW op, NEW i, NEW calls,
           CallRuntime(t, op, i, calls)
    PROVE  /\ req'[t].pc = "calling" /\ req'[t].op = op /\ req'[t].id = i
           /\ req'[t].calls = calls /\ OthersWait(t)
BY DEF CallRuntime, TypeOK, OthersWait

\* A runtime call is over: so is the request, or it fails, or goes on.
LEMMA AnswerEffect ==
    ASSUME TypeOK, NEW t \in Thread,
           RuntimeReturns(t) \/ RuntimeThrows(t) \/ FetchRetries(t)
    PROVE  /\ InRuntime(t) /\ OthersWait(t) /\ UNCHANGED <<repo, phases>>
           /\ RuntimeThrows(t) => req'[t].pc # "calling"
           /\ \/ req'[t].pc = "idle"
              \/ req[t].op \notin RunningOp /\ req'[t].pc = "failing"
              \/ /\ req'[t].pc = "calling" /\ req'[t].op = req[t].op
                 /\ req'[t].id = req[t].id
                 /\ \/ /\ req[t].op \notin RunningOp /\ RuntimeReturns(t)
                       /\ req'[t].calls = Tail(req[t].calls)
                    \/ req[t].op = "fetch" /\ req'[t].calls = req[t].calls
<1>1. /\ InRuntime(t) /\ req[t] \in Request /\ req[t].pc = "calling"
      /\ UNCHANGED <<repo, phases>>
    BY DEF RuntimeReturns, RuntimeThrows, FetchRetries, InRuntime, TypeOK
<1>2. CASE \E a : Reply(t, a)
    BY <1>1, <1>2, ReplyEffect
<1>6. RuntimeThrows(t) => req'[t].pc # "calling"
    <2>1. CASE RuntimeThrows(t) /\ req[t].op \notin RunningOp
        <3> DEFINE r == [[req[t] EXCEPT !.pc = "failing"] EXCEPT !.calls = <<>>]
        <3>1. req' = [req EXCEPT ![t] = r] /\ r.pc = "failing"
            BY <1>1, <2>1 DEF RuntimeThrows, Request
        <3> HIDE DEF r
        <3> QED
            BY <3>1 DEF TypeOK
    <2> QED
        BY <2>1, ReplyEffect DEF RuntimeThrows
<1>3. CASE RuntimeReturns(t) /\ req[t].op \notin RunningOp
    <2> DEFINE c == Tail(req[t].calls)
    <2>1. req' = [req EXCEPT ![t] = [req[t] EXCEPT !.calls = c]]
        BY <1>3 DEF RuntimeReturns
    <2> HIDE DEF c
    <2>2. /\ req'[t].pc = "calling" /\ req'[t].op = req[t].op
          /\ req'[t].id = req[t].id /\ req'[t].calls = c /\ OthersWait(t)
        BY <1>1, <2>1 DEF TypeOK, Request, OthersWait
    <2> QED
        BY <1>1, <1>3, <1>6, <2>2 DEF c
<1>4. CASE RuntimeThrows(t) /\ req[t].op \notin RunningOp
    <2> DEFINE r == [[req[t] EXCEPT !.pc = "failing"] EXCEPT !.calls = <<>>]
    <2>1. req' = [req EXCEPT ![t] = r] /\ r.pc = "failing"
        BY <1>1, <1>4 DEF RuntimeThrows, Request
    <2> HIDE DEF r
    <2> QED
        BY <1>1, <1>4, <2>1 DEF TypeOK, OthersWait
<1>5. CASE FetchRetries(t)
    <2> DEFINE n == req[t].tries + 1
    <2>1. req' = [req EXCEPT ![t] = [req[t] EXCEPT !.tries = n]]
        BY <1>5 DEF FetchRetries
    <2> HIDE DEF n
    <2> QED
        BY <1>1, <1>5, <1>6, <2>1 DEF FetchRetries, TypeOK, Request, OthersWait
<1> QED
    BY <1>2, <1>3, <1>4, <1>5 DEF RuntimeReturns, RuntimeThrows

-----------------------------------------------------------------------------
(* The runtime calls of a request, in the order the code makes them.        *)

\* What may be left of the runtime calls of a lifecycle operation.
Programs(op) ==
    CASE op = "start"   -> {<<"prepare", "start">>, <<"start">>, <<>>}
      [] op = "restart" -> {<<"stop", "destroy", "prepare", "start">>,
                            <<"destroy", "prepare", "start">>,
                            <<"prepare", "start">>, <<"start">>, <<>>}
      [] op = "stop"    -> {<<"stop">>, <<>>}
      [] op = "remove"  -> {<<"stop", "destroy">>, <<"destroy">>, <<>>}
      [] OTHER          -> {<<op>>}

CallsInOrder ==
    \A t \in Thread :
        /\ req[t].pc = "calling" => req[t].calls \in Programs(req[t].op)
        /\ req[t].pc = "idle" => req[t].op = "none"

\* The call that brings about what the operation promises.
LastOf(op) == CASE op = "start"   -> "start"
                [] op = "restart" -> "start"
                [] op = "stop"    -> "stop"
                [] OTHER          -> "destroy"

LEMMA ProgramSteps ==
    ASSUME NEW op \in ClaimingOp, NEW calls \in Programs(op), calls # <<>>
    PROVE  /\ Tail(calls) \in Programs(op)
           /\ Head(calls) \in {"prepare", "start", "stop", "destroy"}
           /\ Tail(calls) = <<>> => Head(calls) = LastOf(op)
<1>1. /\ Head(<<"prepare", "start">>) = "prepare"
      /\ Tail(<<"prepare", "start">>) = <<"start">>
      /\ Head(<<"start">>) = "start" /\ Tail(<<"start">>) = <<>>
      /\ Head(<<"stop">>) = "stop" /\ Tail(<<"stop">>) = <<>>
      /\ Head(<<"destroy">>) = "destroy" /\ Tail(<<"destroy">>) = <<>>
    OBVIOUS
<1>2. /\ Head(<<"stop", "destroy">>) = "stop"
      /\ Tail(<<"stop", "destroy">>) = <<"destroy">>
    OBVIOUS
<1>3. /\ Head(<<"destroy", "prepare", "start">>) = "destroy"
      /\ Tail(<<"destroy", "prepare", "start">>) = <<"prepare", "start">>
    OBVIOUS
<1>4. /\ Head(<<"stop", "destroy", "prepare", "start">>) = "stop"
      /\ Tail(<<"stop", "destroy", "prepare", "start">>)
            = <<"destroy", "prepare", "start">>
    OBVIOUS
<1>5. <<"prepare", "start">> # <<>> /\ <<"start">> # <<>> /\ <<"stop">> # <<>>
      /\ <<"destroy">> # <<>> /\ <<"destroy", "prepare", "start">> # <<>>
    OBVIOUS
<1>6. CASE op = "start"
    BY <1>1, <1>5, <1>6 DEF Programs, LastOf
<1>7. CASE op = "restart"
    BY <1>1, <1>3, <1>4, <1>5, <1>7 DEF Programs, LastOf
<1>8. CASE op = "stop"
    BY <1>1, <1>8 DEF Programs, LastOf
<1>9. CASE op = "remove"
    BY <1>1, <1>2, <1>5, <1>9 DEF Programs, LastOf
<1> QED
    BY <1>6, <1>7, <1>8, <1>9 DEF ClaimingOp

LEMMA ProgramsBegin ==
    ASSUME NEW e
    PROVE  /\ <<"prepare", "start">> \in Programs("start")
           /\ <<"stop">> \in Programs("stop")
           /\ StopIfRunning(e) \o <<"destroy", "prepare", "start">>
                 \in Programs("restart")
           /\ StopIfRunning(e) \o <<"destroy">> \in Programs("remove")
           /\ StopIfRunning(e) \o <<"destroy", "prepare", "start">> # <<>>
           /\ StopIfRunning(e) \o <<"destroy">> # <<>>
<1> DEFINE dps == <<"destroy", "prepare", "start">>
           sdps == <<"stop", "destroy", "prepare", "start">>
<1>1. /\ <<"stop">> \in Seq(Call) /\ <<"destroy">> \in Seq(Call)
      /\ dps \in Seq(Call) /\ <<"stop", "destroy">> \in Seq(Call)
      /\ sdps \in Seq(Call)
    <2>1. /\ "prepare" \in Call /\ "start" \in Call
          /\ "stop" \in Call /\ "destroy" \in Call
        BY DEF Call
    <2> QED
        BY <2>1
<1>2. <<>> \o <<"destroy">> = <<"destroy">> /\ <<>> \o dps = dps
    BY <1>1, ConcatEmptySeq
<1>3. <<"stop">> \o <<"destroy">> = <<"stop", "destroy">>
    <2> DEFINE s == <<"stop">> \o <<"destroy">>
    <2>1. /\ s \in Seq(Call) /\ Len(s) = 1 + 1
          /\ \A i \in 1 .. 1 + 1 :
                s[i] = IF i <= 1 THEN <<"stop">>[i] ELSE <<"destroy">>[i - 1]
        BY <1>1, ConcatProperties
    <2> HIDE DEF s
    <2>2. Len(s) = 2 /\ s[1] = "stop" /\ s[2] = "destroy"
        BY <2>1
    <2>3. \A i \in 1 .. Len(s) : s[i] = <<"stop", "destroy">>[i]
        <3>1. \A i \in 1 .. Len(s) : i = 1 \/ i = 2
            BY <2>2
        <3> QED
            BY <2>2, <3>1
    <2> DEFINE r == <<"stop", "destroy">>
    <2>4. /\ r \in Seq(Call) /\ Len(s) = Len(r)
          /\ \A i \in 1 .. Len(s) : s[i] = r[i]
        BY <1>1, <2>2, <2>3
    <2> HIDE DEF r
    <2>5. s = r
        BY <2>1, <2>4, SeqEqual
    <2> QED
        BY <2>5 DEF s, r
<1>4. <<"stop">> \o dps = sdps
    <2> DEFINE s == <<"stop">> \o dps
    <2>1. /\ s \in Seq(Call) /\ Len(s) = 1 + 3
          /\ \A i \in 1 .. 1 + 3 :
                s[i] = IF i <= 1 THEN <<"stop">>[i] ELSE dps[i - 1]
        BY <1>1, ConcatProperties
    <2> HIDE DEF s
    <2>2. /\ Len(s) = 4 /\ s[1] = "stop" /\ s[2] = "destroy"
          /\ s[3] = "prepare" /\ s[4] = "start"
        BY <2>1
    <2>3. \A i \in 1 .. Len(s) : s[i] = sdps[i]
        <3>1. \A i \in 1 .. Len(s) : i = 1 \/ i = 2 \/ i = 3 \/ i = 4
            BY <2>2
        <3> QED
            BY <2>2, <3>1
    <2> DEFINE r == sdps
    <2>4. /\ r \in Seq(Call) /\ Len(s) = Len(r)
          /\ \A i \in 1 .. Len(s) : s[i] = r[i]
        BY <1>1, <2>2, <2>3
    <2> HIDE DEF r
    <2>5. s = r
        BY <2>1, <2>4, SeqEqual
    <2> QED
        BY <2>5 DEF s, r
<1>5. /\ <<"destroy">> # <<>> /\ dps # <<>> /\ <<"stop", "destroy">> # <<>>
      /\ sdps # <<>>
    OBVIOUS
<1>6. /\ StopIfRunning(e) \o dps \in {dps, sdps}
      /\ StopIfRunning(e) \o <<"destroy">> \in {<<"destroy">>, <<"stop", "destroy">>}
    BY <1>2, <1>3, <1>4 DEF StopIfRunning
<1> QED
    BY <1>5, <1>6 DEF Programs

LEMMA OrderInit == Init => CallsInOrder
BY DEF Init, Idle, CallsInOrder

\* Only request t changes, and it is in no runtime call or keeps the order.
LEMMA OrderKept ==
    ASSUME TypeOK, CallsInOrder, NEW t \in Thread, NEW r,
           req' = [req EXCEPT ![t] = r],
           r.pc = "calling" => r.calls \in Programs(r.op),
           r.pc = "idle" => r.op = "none"
    PROVE  CallsInOrder'
BY DEF TypeOK, CallsInOrder

LEMMA OrderStep == GateInv /\ CallsInOrder /\ [Next]_vars => CallsInOrder'
<1> SUFFICES ASSUME GateInv, CallsInOrder, [Next]_vars PROVE CallsInOrder'
    OBVIOUS
<1>0. TypeOK /\ RequestShape
    BY DEF GateInv
<1>1. CASE UNCHANGED vars
    BY <1>1 DEF vars, CallsInOrder
<1>2. ASSUME NEW t \in Thread, NEW a, Reply(t, a) PROVE CallsInOrder'
    BY <1>0, <1>2, OrderKept DEF Reply, Idle
<1>3. ASSUME NEW t \in Thread, NEW i \in Id, NEW op, NEW calls \in Programs(op),
             CallRuntime(t, op, i, calls)
      PROVE  CallsInOrder'
    <2> DEFINE r == [op |-> op, id |-> i, pc |-> "calling", seen |-> repo[i],
                     calls |-> calls, tries |-> 0, answer |-> "none"]
    <2>1. /\ req' = [req EXCEPT ![t] = r] /\ r.calls \in Programs(r.op)
          /\ r.pc = "calling"
        BY <1>3 DEF CallRuntime
    <2> HIDE DEF r
    <2> QED
        BY <1>0, <2>1, OrderKept
<1>4. ASSUME NEW t \in Thread, NEW i \in Id,
             Start(t, i) \/ Stop(t, i) \/ Restart(t, i) \/ Remove(t, i)
      PROVE  CallsInOrder'
    BY <1>3, <1>4, ProgramsBegin DEF Start, Stop, Restart, Remove, Claim
<1>5. ASSUME NEW t \in Thread, NEW i \in Id, NEW op, Read(t, op, i)
      PROVE  CallsInOrder'
    <2>1. <<op>> \in Programs(op)
        BY <1>5 DEF Read, RunningOp, Programs
    <2> QED
        BY <1>3, <1>5, <2>1 DEF Read
<1>6. ASSUME NEW t \in Thread,
             RuntimeReturns(t) \/ RuntimeThrows(t) \/ FetchRetries(t),
             ~ \E a : Reply(t, a)
      PROVE  CallsInOrder'
    <2>1. /\ req[t] \in Request /\ req[t].pc = "calling" /\ req[t].calls # <<>>
          /\ req[t].op \in ClaimingOp \cup RunningOp
          /\ req[t].calls \in Programs(req[t].op)
        BY <1>0, <1>6 DEF RuntimeReturns, RuntimeThrows, FetchRetries,
           InRuntime, TypeOK, RequestShape, CallsInOrder
    <2>2. CASE RuntimeReturns(t)
        <3> DEFINE c == Tail(req[t].calls)
                   r == [req[t] EXCEPT !.calls = c]
        <3>1. req' = [req EXCEPT ![t] = r] /\ req[t].op \in ClaimingOp
            BY <1>6, <2>1, <2>2 DEF RuntimeReturns
        <3>2. c \in Programs(req[t].op)
            BY <2>1, <3>1, ProgramSteps
        <3> HIDE DEF c
        <3>3. r.calls = c /\ r.op = req[t].op /\ r.pc = "calling"
            BY <2>1 DEF Request
        <3> HIDE DEF r
        <3> QED
            BY <1>0, <3>1, <3>2, <3>3, OrderKept
    <2>3. CASE RuntimeThrows(t)
        <3> DEFINE r == [[req[t] EXCEPT !.pc = "failing"] EXCEPT !.calls = <<>>]
        <3>1. req' = [req EXCEPT ![t] = r]
            BY <1>6, <2>3 DEF RuntimeThrows
        <3>2. r.pc = "failing"
            BY <2>1 DEF Request
        <3> HIDE DEF r
        <3> QED
            BY <1>0, <3>1, <3>2, OrderKept
    <2>4. CASE FetchRetries(t)
        <3> DEFINE n == req[t].tries + 1
                   r == [req[t] EXCEPT !.tries = n]
        <3>1. req' = [req EXCEPT ![t] = r]
            BY <2>4 DEF FetchRetries
        <3> HIDE DEF n
        <3>2. r.calls = req[t].calls /\ r.op = req[t].op /\ r.pc = "calling"
            BY <2>1 DEF Request
        <3> HIDE DEF r
        <3> QED
            BY <1>0, <2>1, <3>1, <3>2, OrderKept
    <2> QED
        BY <1>6, <2>2, <2>3, <2>4
<1>7. ASSUME NEW t \in Thread,
             \/ CreateRefused(t) \/ List(t) \/ Commit(t)
             \/ \E i \in Id : Create(t, i)
             \/ \E i \in Id, op \in Op :
                   Answered(t, op, i) \/ NotFound(t, op, i) \/ Refuse(t, op, i)
      PROVE  CallsInOrder'
    <2>1. CASE Commit(t)
        BY <1>0, <1>2, <2>1, CommitIsStore DEF Store
    <2> QED
        BY <1>2, <1>7, <2>1
           DEF CreateRefused, List, Create, Answered, NotFound, Refuse
<1> QED
    BY <1>1, <1>2, <1>4, <1>5, <1>6, <1>7 DEF Next, Ask, Work

-----------------------------------------------------------------------------
(* What a client is told of an error.                                       *)

LEMMA ErrorStep ==
    GateInv /\ ErrorIsExplained /\ [Next]_vars => ErrorIsExplained'
<1> SUFFICES ASSUME GateInv, ErrorIsExplained, [Next]_vars
             PROVE  ErrorIsExplained'
    OBVIOUS
<1>1. CASE UNCHANGED <<repo, lastError>>
    BY <1>1 DEF ErrorIsExplained
<1>2. ASSUME NEW t \in Thread, NEW i \in Id, Create(t, i)
      PROVE  ErrorIsExplained'
    BY <1>2 DEF Create, ErrorIsExplained, GateInv, TypeOK
<1>3. ASSUME NEW t \in Thread, Commit(t) PROVE ErrorIsExplained'
    <2>1. PICK s, a : Store(t, s, RestingPhase[s], a)
        BY <1>3, CommitIsStore DEF GateInv
    <2> QED
        BY <2>1 DEF Store, ErrorIsExplained, GateInv, TypeOK
<1> QED
    BY <1>1, <1>2, <1>3
       DEF Next, vars, Ask, Work, CreateRefused, List, Start, Stop, Restart,
           Remove, Claim, Read, Answered, NotFound, Refuse, RuntimeReturns,
           RuntimeThrows, FetchRetries

\* A session in "error" always says what went wrong, and a session that left
\* "error" no longer does.
THEOREM ErrorsAreExplained == Spec => []ErrorIsExplained
<1>1. Init => ErrorIsExplained
    BY DEF Init, ErrorIsExplained
<1> QED
    BY <1>1, ErrorStep, GateAlways, PTL DEF Spec

-----------------------------------------------------------------------------
(* Every step of the service is a step of the abstract lifecycle.           *)

claimed == [i \in Id |-> Claimed(i)]

LEMMA RefinesInit == Init => Lifecycle!Init
BY DEF Init, Lifecycle!Init, Claimed

LEMMA RefinesClaim ==
    ASSUME GateInv, NEW t \in Thread, NEW op \in ClaimingOp, NEW i \in Id,
           NEW calls, Claim(t, op, i, ClaimPhase(op), calls)
    PROVE  Lifecycle!Claim(i)
<1>1. phases[i] \notin Moving
    BY FreeSession DEF Claim
<1>2. /\ phases' = [phases EXCEPT ![i] = ClaimPhase(op)]
      /\ phases \in [Id -> Phase \cup {"None"}]
      /\ repo' = repo
    BY DEF Claim, GateInv, TypeOK
<1>3. claimed[i] = "free" /\ repo[i] # "absent"
    BY <1>1 DEF claimed, Claimed, Moving, Claim, Exists
<1>4. /\ claimed'[i] \in {"starting", "stopping"}
      /\ \A j \in Id \ {i} : claimed'[j] = claimed[j]
    BY <1>2 DEF claimed, Claimed, ClaimPhase
<1>5. claimed' = [claimed EXCEPT ![i] = claimed'[i]]
    BY <1>4 DEF claimed
<1> QED
    BY <1>2, <1>3, <1>4, <1>5 DEF Lifecycle!Claim, claimed

LEMMA RefinesComplete ==
    ASSUME GateInv, NEW t \in Thread, Commit(t)
    PROVE  Lifecycle!Complete(req[t].id)
<1> DEFINE i == req[t].id
<1>1. req[t].pc # "idle" /\ req[t].op \in ClaimingOp /\ i \in Id /\ Holds(t, i)
    BY CommitIsStore DEF GateInv, RequestShape, Holds
<1>2. Exists(i) /\ phases[i] = ClaimPhase(req[t].op)
    BY <1>1 DEF GateInv, ClaimStaysValid
<1>3. PICK s \in State \cup {"absent"} :
         /\ \E a : Store(t, s, RestingPhase[s], a)
         /\ req[t].op \in {"start", "restart"} => s \in {"running", "error"}
         /\ req[t].op \in {"stop", "remove"} => s \in {"stopped", "absent", "error"}
    BY DEF Commit, CommitRunning, CommitStopped, CommitRemoved, RecordFailure,
           State, RestingPhase
<1>4. /\ repo' = [repo EXCEPT ![i] = s]
      /\ phases' = [phases EXCEPT ![i] = RestingPhase[s]]
      /\ phases \in [Id -> Phase \cup {"None"}]
    BY <1>2, <1>3 DEF Store, GateInv, TypeOK
<1>5. RestingPhase[s] \notin Moving
    BY DEF RestingPhase, Moving, State
<1>6. claimed'[i] = "free" /\ \A j \in Id \ {i} : claimed'[j] = claimed[j]
    BY <1>1, <1>4, <1>5 DEF claimed, Claimed, Moving
<1>7. claimed' = [claimed EXCEPT ![i] = "free"]
    BY <1>6 DEF claimed
<1>8. \/ claimed[i] = "starting" /\ s \in {"running", "error"}
      \/ claimed[i] = "stopping" /\ s \in {"stopped", "absent", "error"}
    BY <1>1, <1>2, <1>3 DEF claimed, Claimed, ClaimPhase, ClaimingOp
<1> QED
    BY <1>4, <1>7, <1>8 DEF Lifecycle!Complete, claimed

LEMMA RefinesCreate ==
    ASSUME GateInv, NEW t \in Thread, NEW i \in Id, Create(t, i)
    PROVE  Lifecycle!Create(i)
<1>1. phases[i] \notin Moving
    BY DEF Create, Exists, GateInv, NoAbandonedClaim, ClaimStaysValid
<1>2. /\ phases' = [phases EXCEPT ![i] = "Idle"]
      /\ phases \in [Id -> Phase \cup {"None"}]
      /\ repo' = [repo EXCEPT ![i] = "stopped"] /\ repo[i] = "absent"
    BY DEF Create, Exists, GateInv, TypeOK
<1>3. \A j \in Id : claimed'[j] = claimed[j]
    BY <1>1, <1>2 DEF claimed, Claimed, Moving
<1>4. claimed' = claimed
    BY <1>3 DEF claimed
<1> QED
    BY <1>2, <1>4 DEF Lifecycle!Create, claimed

LEMMA RefinesStep ==
    GateInv /\ [Next]_vars => [Lifecycle!Next]_(Lifecycle!vars)
<1> SUFFICES ASSUME GateInv, [Next]_vars
             PROVE  Lifecycle!Next \/ UNCHANGED Lifecycle!vars
    OBVIOUS
<1>1. CASE UNCHANGED <<repo, phases>>
    BY <1>1 DEF Lifecycle!vars, Claimed
<1>2. ASSUME NEW t \in Thread, NEW i \in Id, Create(t, i)
      PROVE  Lifecycle!Next
    BY <1>2, RefinesCreate DEF Lifecycle!Next
<1>3. ASSUME NEW t \in Thread, NEW i \in Id,
             Start(t, i) \/ Stop(t, i) \/ Restart(t, i) \/ Remove(t, i)
      PROVE  Lifecycle!Next
    <2>1. PICK op \in ClaimingOp :
             \E calls : Claim(t, op, i, ClaimPhase(op), calls)
        BY <1>3 DEF Start, Stop, Restart, Remove, ClaimPhase, ClaimingOp
    <2> QED
        BY <2>1, RefinesClaim DEF Lifecycle!Next
<1>4. ASSUME NEW t \in Thread, Commit(t) PROVE Lifecycle!Next
    <2>1. req[t].id \in Id
        BY <1>4, CommitIsStore DEF GateInv, RequestShape
    <2> QED
        BY <1>4, <2>1, RefinesComplete DEF Lifecycle!Next
<1>5. \/ UNCHANGED <<repo, phases>>
      \/ \E t \in Thread : Commit(t)
      \/ \E t \in Thread, i \in Id :
            \/ Create(t, i) \/ Start(t, i) \/ Stop(t, i) \/ Restart(t, i)
            \/ Remove(t, i)
    BY DEF Next, vars, Work, Ask, CreateRefused, List, Read, Answered, NotFound,
           Refuse, RuntimeReturns, RuntimeThrows, FetchRetries
<1> QED
    BY <1>1, <1>2, <1>3, <1>4, <1>5

\* The service, seen through its repository and its phase table, does only
\* what the abstract lifecycle allows (the safety part of the refinement;
\* that claims are eventually completed is left to TLC).
THEOREM ServiceRefinesLifecycle ==
    Spec => Lifecycle!Init /\ [][Lifecycle!Next]_(Lifecycle!vars)
<1> QED
    BY RefinesInit, RefinesStep, GateAlways, PTL DEF Spec
=============================================================================
