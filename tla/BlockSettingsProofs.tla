------------------------ MODULE BlockSettingsProofs -------------------------
(***************************************************************************)
(* Proofs about BlockSettings, for any number of threads, blocks, request  *)
(* ids and integers: type correctness, that an exchange keeps the          *)
(* scheduler it uses, and that answers belong to their requests.           *)
(*                                                                         *)
(* Neither property is inductive.  The first needs that whoever waits      *)
(* holds the mutex; the second needs to follow a request through the       *)
(* queues: its message is in one inbox at most, as it was sent, and while  *)
(* it is there no reply carries its id; a reply that does carry its id     *)
(* says what the block did.                                                *)
(***************************************************************************)
EXTENDS BlockSettings, TLAPS

\* A thread that waits holds the mutex and has an id; no other thread has an
\* id or a connected response port.
WaiterHolds ==
    \A t \in Thread :
        /\ At(t, "wait") => /\ mutex = t /\ alive
                            /\ call[t].id \in RequestId /\ call[t].block \in Block
        /\ ~ At(t, "wait") => call[t].id = NoId /\ port[t] = <<>>
        /\ call[t].pc \in {"idle", "lock"} => call[t].block = 0

\* The message of the request that t waits for ...
MessageOf(t) ==
    \A b \in Block : \A k \in DOMAIN inbox[b] :
        At(t, "wait") /\ inbox[b][k].id = call[t].id =>
            /\ inbox[b][k].endpoint = call[t].endpoint
            /\ inbox[b][k].value = call[t].value
            /\ ~ Carries(port[t], call[t].id)
            /\ \A c \in Block : \A j \in DOMAIN inbox[c] :
                  inbox[c][j].id = call[t].id => c = b /\ j = k

\* ... and its reply.
ReplyOf(t) ==
    \A k \in DOMAIN port[t] :
        At(t, "wait") /\ port[t][k].id = call[t].id =>
            /\ fate[t].kind = port[t][k].kind /\ port[t][k].kind \in Kind
            /\ fate[t].value = IF call[t].endpoint = "get" THEN port[t][k].value
                               ELSE call[t].value

OwnMessages == \A t \in Thread : MessageOf(t)
OwnReplies  == \A t \in Thread : ReplyOf(t)

SettingsInv ==
    TypeOK /\ WaiterHolds /\ OwnMessages /\ OwnReplies /\ AnswersAreTrue

-----------------------------------------------------------------------------
(* Data.                                                                    *)

LEMMA ToInt64Type ==
    ASSUME NEW n \in Literal PROVE ToInt64(n) \in Int64
<1>1. Half \in Nat /\ Half > 0 /\ n \in Int
    BY SettingsAssumption DEF Literal
<1>2. (n + Half) % (2 * Half) \in 0 .. 2 * Half - 1
    BY <1>1
<1> QED
    BY <1>1, <1>2 DEF ToInt64, Int64

LEMMA ZeroIsInteger == 0 \in Int64 /\ 0 \in Literal
BY SettingsAssumption DEF Int64, Literal

LEMMA AppendElements ==
    ASSUME NEW S, NEW s \in Seq(S), NEW e \in S
    PROVE  /\ Append(s, e) \in Seq(S)
           /\ DOMAIN s = 1 .. Len(s) /\ DOMAIN Append(s, e) = 1 .. Len(s) + 1
           /\ \A k \in DOMAIN s : Append(s, e)[k] = s[k]
           /\ Append(s, e)[Len(s) + 1] = e
OBVIOUS

LEMMA TailElements ==
    ASSUME NEW S, NEW s \in Seq(S), s # <<>>
    PROVE  /\ Tail(s) \in Seq(S) /\ Head(s) = s[1] /\ 1 \in DOMAIN s
           /\ Head(s) \in S
           /\ \A k \in DOMAIN Tail(s) :
                 k \in Nat /\ k + 1 \in DOMAIN s /\ k + 1 # 1
                 /\ Tail(s)[k] = s[k + 1]
OBVIOUS

LEMMA EmptyIsSequence == \A S : <<>> \in Seq(S)
OBVIOUS

LEMMA RecordType ==
    ASSUME NEW pc \in {"idle", "lock", "wait", "done"},
           NEW x \in Target \cup {""}, NEW endpoint \in Endpoint,
           NEW n \in Literal, NEW value \in Int64, NEW b \in Block \cup {0},
           NEW id \in RequestId \cup {NoId}, NEW answer \in Answer
    PROVE  CallRecord(pc, x, endpoint, n, value, b, id, answer) \in Request
BY DEF CallRecord, Request

LEMMA NoCallType == NoCall \in Request
BY ZeroIsInteger, RecordType DEF NoCall, Answer, Endpoint

LEMMA FinishType ==
    ASSUME TypeOK, NEW t, NEW answer \in Answer, Finish(t, answer)
    PROVE  call' \in [Thread -> Request]
<1>1. CallRecord("done", "", "get", 0, 0, 0, NoId, answer) \in Request
    BY ZeroIsInteger, RecordType DEF Endpoint
<1> QED
    BY <1>1 DEF Finish, TypeOK

LEMMA ResolvedType ==
    ASSUME NEW x PROVE resolve_runtime_block(x) \subseteq Block
BY DEF resolve_runtime_block
-----------------------------------------------------------------------------
(* Type correctness.                                                        *)

LEMMA NoFateType == NoFate \in Fate
BY ZeroIsInteger DEF NoFate, Fate

LEMMA TypeInit == Init => TypeOK
<1> SUFFICES ASSUME Init PROVE TypeOK
    OBVIOUS
<1>1. inbox \in [Block -> Seq(Message)] /\ port \in [Thread -> Seq(Reply)]
    BY EmptyIsSequence DEF Init
<1>2. call \in [Thread -> Request] /\ fate \in [Thread -> Fate]
    BY NoCallType, NoFateType DEF Init
<1> QED
    BY <1>1, <1>2, ZeroIsInteger DEF Init, TypeOK

LEMMA LeaveType ==
    ASSUME TypeOK, NEW t, Leave(t)
    PROVE  /\ mutex' \in Thread \cup {NoThread}
           /\ port' \in [Thread -> Seq(Reply)]
BY EmptyIsSequence DEF TypeOK, Leave

LEMMA TypeAsk ==
    ASSUME TypeOK, NEW t \in Thread, Ask(t) \/ Return(t) \/ Fail(t)
    PROVE  TypeOK'
<1>1. CASE Reject(t) \/ Fail(t)
    <2>1. \E answer \in Answer : Finish(t, answer)
        BY <1>1 DEF Reject, Fail, Answer
    <2> QED
        BY <1>1, <2>1, FinishType DEF Reject, Fail, runtimeVars, TypeOK
<1>2. CASE Return(t)
    BY <1>2, NoCallType, NoFateType DEF Return, TypeOK
<1>3. ASSUME NEW x \in Target, NEW e \in Endpoint, NEW n \in Literal,
             Admit(t, x, e, n)
      PROVE  TypeOK'
    <2>1. ToInt64(n) \in Int64
        BY ToInt64Type
    <2>2. CallRecord("lock", x, e, n, ToInt64(n), 0, NoId, "none") \in Request
        BY <2>1, RecordType DEF Answer
    <2> QED
        BY <1>3, <2>2 DEF Admit, runtimeVars, TypeOK
<1>4. CASE \E x \in Target : Get(t, x) \/ Update(t, x)
    BY <1>3, <1>4, ZeroIsInteger, SettingsAssumption DEF Get, Update, Endpoint
<1> QED
    BY <1>1, <1>2, <1>4 DEF Ask

LEMMA TypeSend ==
    ASSUME TypeOK, NEW t \in Thread, Send(t)
    PROVE  TypeOK'
<1>1. PICK b \in Block, id \in RequestId :
         /\ inbox' = [inbox EXCEPT ![b] = Append(@, [id |-> id,
                        endpoint |-> call[t].endpoint,
                        value |-> call[t].value])]
         /\ call' = [call EXCEPT ![t] = CallRecord("wait", "", @.endpoint, 0,
                                                  @.value, b, id, "none")]
    BY ResolvedType DEF Send
<1>2. call[t] \in Request
    BY DEF TypeOK
<1>3. [id |-> id, endpoint |-> call[t].endpoint, value |-> call[t].value]
         \in Message
    BY <1>2 DEF Request, Message
<1>4. inbox' \in [Block -> Seq(Message)]
    BY <1>1, <1>3, AppendElements DEF TypeOK
<1>5. CallRecord("wait", "", call[t].endpoint, 0, call[t].value, b, id, "none")
         \in Request
    <2>1. call[t].endpoint \in Endpoint /\ call[t].value \in Int64
        BY <1>2 DEF Request
    <2> QED
        BY <2>1, ZeroIsInteger, RecordType DEF Answer
<1>6. call' \in [Thread -> Request]
    BY <1>1, <1>5 DEF TypeOK
<1> QED
    BY <1>4, <1>6 DEF Send, TypeOK

LEMMA TypeWait ==
    ASSUME TypeOK, NEW t \in Thread, Wait(t)
    PROVE  TypeOK'
<1>1. CASE TimeOut(t)
    BY <1>1, FinishType, LeaveType, NoFateType DEF TimeOut, TypeOK, Answer
<1>2. CASE DropReplies(t)
    BY <1>2, EmptyIsSequence DEF DropReplies, TypeOK
<1>3. CASE TakeReply(t)
    <2>1. call[t] \in Request /\ port[t] \in Seq(Reply)
        BY DEF TypeOK
    <2>2. PICK k \in DOMAIN port[t] :
             call' = [call EXCEPT ![t] =
                        CallRecord("done", "", @.endpoint, 0,
                                   IF @.endpoint = "get" THEN port[t][k].value
                                                         ELSE @.value,
                                   @.block, NoId, Outcome(port[t][k]))]
        BY <1>3 DEF TakeReply
    <2>3. port[t][k] \in Reply
        BY <2>1
    <2>4. Outcome(port[t][k]) \in Answer
        BY DEF Outcome, Answer
    <2> DEFINE v == IF call[t].endpoint = "get" THEN port[t][k].value
                    ELSE call[t].value
    <2>5. /\ call[t].endpoint \in Endpoint /\ call[t].block \in Block \cup {0}
          /\ v \in Int64
        BY <2>1, <2>3 DEF Request, Reply
    <2>6. CallRecord("done", "", call[t].endpoint, 0, v, call[t].block, NoId,
                     Outcome(port[t][k])) \in Request
        BY <2>4, <2>5, ZeroIsInteger, RecordType
    <2>7. call' \in [Thread -> Request]
        BY <2>2, <2>6 DEF TypeOK
    <2> QED
        BY <1>3, <2>7, LeaveType DEF TakeReply, TypeOK
<1> QED
    BY <1>1, <1>2, <1>3 DEF Wait

\* What the block answers, and where that goes.
Delivered(b, kind, value, data) ==
    LET m == Head(inbox[b])
    IN  /\ inbox' = [inbox EXCEPT ![b] = Tail(@)]
        /\ fate' = [t \in Thread |->
              IF call[t].id = m.id THEN [kind |-> kind, value |-> value]
                                   ELSE fate[t]]
        /\ port' = [t \in Thread |->
              IF At(t, "wait")
                THEN Append(port[t], [id |-> m.id, block |-> b,
                                      endpoint |-> m.endpoint,
                                      kind |-> kind, value |-> data])
                ELSE port[t]]

LEMMA HandleDelivers ==
    ASSUME TypeOK, NEW b \in Block, Handle(b)
    PROVE  /\ alive /\ inbox[b] # <<>>
           /\ UNCHANGED <<running, alive, mutex, call>>
           /\ \E kind \in Kind, value \in Int64, data \in Int64 :
                 /\ Delivered(b, kind, value, data)
                 /\ value = IF Head(inbox[b]).endpoint = "get" THEN data
                            ELSE Head(inbox[b]).value
<1> DEFINE m == Head(inbox[b])
<1>1. inbox[b] \in Seq(Message) /\ inbox[b] # <<>>
    BY DEF TypeOK, Handle
<1>2. m \in Message
    BY <1>1, TailElements
<1>3. m.value \in Int64 /\ effective[b] \in Int64 /\ 0 \in Int64
    BY <1>2, ZeroIsInteger DEF Message, TypeOK
<1>4. CASE m.endpoint = "get"
    <2>1. \E kind \in Kind : Delivered(b, kind, effective[b], effective[b])
        BY <1>4 DEF Handle, Delivered, Kind
    <2> QED
        BY <1>3, <1>4, <2>1 DEF Handle
<1>5. CASE m.endpoint # "get"
    <2>1. \E kind \in Kind : Delivered(b, kind, m.value, 0)
        BY <1>5 DEF Handle, Delivered, Kind
    <2> QED
        BY <1>3, <1>5, <2>1 DEF Handle
<1> QED
    BY <1>4, <1>5

LEMMA TypeHandle ==
    ASSUME TypeOK, NEW b \in Block, Handle(b)
    PROVE  TypeOK'
<1> DEFINE m == Head(inbox[b])
<1>1. PICK kind \in Kind, value \in Int64, data \in Int64 :
         Delivered(b, kind, value, data)
    BY HandleDelivers
<1>2. inbox[b] \in Seq(Message) /\ inbox[b] # <<>>
    BY HandleDelivers DEF TypeOK
<1>3. m \in Message /\ Tail(inbox[b]) \in Seq(Message)
    BY <1>2, TailElements
<1>4. inbox' \in [Block -> Seq(Message)]
    BY <1>1, <1>3 DEF Delivered, TypeOK
<1>5. [kind |-> kind, value |-> value] \in Fate
    BY DEF Fate
<1>6. fate' \in [Thread -> Fate]
    BY <1>1, <1>5 DEF Delivered, TypeOK
<1>7. [id |-> m.id, block |-> b, endpoint |-> m.endpoint, kind |-> kind,
       value |-> data] \in Reply
    BY <1>3 DEF Message, Reply
<1>8. port' \in [Thread -> Seq(Reply)]
    BY <1>1, <1>7, AppendElements DEF Delivered, TypeOK
<1>9. /\ effective' \in [Block -> Int64]
      /\ staged' \in [Block -> SUBSET Int64]
    <2>1. m.value \in Int64
        BY <1>3 DEF Message
    <2>2. /\ \/ UNCHANGED effective
             \/ effective' = [effective EXCEPT ![b] = m.value]
          /\ \/ UNCHANGED staged
             \/ staged' = [staged EXCEPT ![b] = {m.value}]
        BY DEF Handle
    <2>3. {m.value} \in SUBSET Int64
        BY <2>1
    <2> QED
        BY <2>1, <2>2, <2>3 DEF TypeOK
<1> QED
    BY <1>4, <1>6, <1>8, <1>9, HandleDelivers DEF TypeOK

LEMMA TypeApply ==
    ASSUME TypeOK, NEW b \in Block, ApplyStaged(b)
    PROVE  TypeOK'
<1>1. PICK v \in staged[b] : effective' = [effective EXCEPT ![b] = v]
    BY DEF ApplyStaged
<1>2. v \in Int64
    BY <1>1 DEF TypeOK
<1> QED
    BY <1>1, <1>2 DEF ApplyStaged, TypeOK

LEMMA TypeLifecycle ==
    ASSUME TypeOK, Lifecycle PROVE TypeOK'
<1>1. CASE StartRuntime \/ Store
    BY <1>1 DEF StartRuntime, Store, TypeOK
<1>2. CASE StopRuntime
    <2>1. inbox' \in [Block -> Seq(Message)]
        BY <1>2, EmptyIsSequence DEF StopRuntime
    <2> QED
        BY <1>2, <2>1, ZeroIsInteger DEF StopRuntime, TypeOK
<1> QED
    BY <1>1, <1>2 DEF Lifecycle

LEMMA TypeStep == TypeOK /\ [Next]_vars => TypeOK'
<1> SUFFICES ASSUME TypeOK, [Next]_vars PROVE TypeOK'
    OBVIOUS
<1>1. CASE UNCHANGED vars
    BY <1>1 DEF vars, TypeOK
<1> QED
    BY <1>1, TypeAsk, TypeSend, TypeWait, TypeHandle, TypeApply, TypeLifecycle
       DEF Next, EnterExchange
-----------------------------------------------------------------------------
(* What the steps do to calls and queues.                                   *)

OthersWait(t) == \A u \in Thread \ {t} : call'[u] = call[u] /\ fate'[u] = fate[u]

\* Thread t is outside an exchange, before and after the step.
Outside(t) ==
    /\ call[t].pc # "wait" /\ call'[t].pc # "wait"
    /\ call'[t].id = NoId /\ call'[t].block = 0
    /\ OthersWait(t)
    /\ UNCHANGED <<alive, mutex, inbox, port>>

LEMMA AskEffect ==
    ASSUME TypeOK, NEW t \in Thread, Ask(t) \/ Return(t) \/ Fail(t)
    PROVE  Outside(t)
<1>1. CASE Reject(t) \/ Fail(t)
    <2>1. call[t].pc \in {"idle", "lock"}
        BY <1>1 DEF Reject, Fail, Enter, At
    <2>2. PICK answer \in Answer : Finish(t, answer)
        BY <1>1 DEF Reject, Fail, Answer
    <2>3. /\ call'[t].pc = "done" /\ call'[t].id = NoId /\ call'[t].block = 0
          /\ \A u \in Thread \ {t} : call'[u] = call[u]
        BY <2>2 DEF CallRecord, Finish, TypeOK
    <2> QED
        BY <1>1, <2>1, <2>3 DEF Reject, Fail, runtimeVars, Outside, OthersWait
<1>2. CASE Return(t)
    BY <1>2 DEF CallRecord, Return, At, NoCall, TypeOK, Outside, OthersWait
<1>3. CASE \E x, e, n : Admit(t, x, e, n)
    <2>1. call[t].pc = "idle"
        BY <1>3 DEF Admit, At
    <2>2. \E x, e, n, v : call' = [call EXCEPT ![t] =
                              CallRecord("lock", x, e, n, v, 0, NoId, "none")]
        BY <1>3 DEF Admit
    <2> QED
        BY <1>3, <2>1, <2>2
           DEF CallRecord, Admit, runtimeVars, TypeOK, Outside, OthersWait
<1> QED
    BY <1>1, <1>2, <1>3 DEF Ask, Get, Update

LEMMA SendEffect ==
    ASSUME TypeOK, NEW t \in Thread, Send(t)
    PROVE  /\ call[t].pc = "lock" /\ mutex = NoThread /\ mutex' = t
           /\ alive /\ OthersWait(t) /\ UNCHANGED <<alive, port, fate>>
           /\ call'[t].pc = "wait" /\ call'[t].endpoint = call[t].endpoint
           /\ call'[t].value = call[t].value
           /\ \E b \in Block, id \in RequestId :
                 /\ Unused(id)
                 /\ call'[t].block = b /\ call'[t].id = id
                 /\ inbox' = [inbox EXCEPT ![b] = Append(@, [id |-> id,
                                endpoint |-> call[t].endpoint,
                                value |-> call[t].value])]
<1>1. PICK b \in Block, id \in RequestId :
         /\ Unused(id)
         /\ inbox' = [inbox EXCEPT ![b] = Append(@, [id |-> id,
                        endpoint |-> call[t].endpoint,
                        value |-> call[t].value])]
         /\ call' = [call EXCEPT ![t] = CallRecord("wait", "", @.endpoint, 0,
                                                  @.value, b, id, "none")]
    BY ResolvedType DEF Send
<1> QED
    BY <1>1 DEF CallRecord, Send, Enter, At, TypeOK, OthersWait

\* The exchange of t is over.
Over(t) ==
    /\ call[t].pc = "wait" /\ call'[t].pc = "done" /\ call'[t].id = NoId
    /\ port'[t] = <<>> /\ \A u \in Thread \ {t} : port'[u] = port[u]
    /\ mutex' = NoThread
    /\ OthersWait(t) /\ UNCHANGED <<alive, inbox>>

LEMMA TimeOutEffect ==
    ASSUME TypeOK, NEW t \in Thread, TimeOut(t)
    PROVE  Over(t) /\ call'[t].block = 0
BY DEF CallRecord, TimeOut, Finish, Leave, At, TypeOK, Over, OthersWait

LEMMA TakeReplyEffect ==
    ASSUME TypeOK, NEW t \in Thread, TakeReply(t)
    PROVE  /\ Over(t) /\ UNCHANGED fate
           /\ \E k \in DOMAIN port[t] :
                 /\ port[t][k].id = call[t].id
                 /\ call'[t].answer = Outcome(port[t][k])
                 /\ call'[t].value = IF call[t].endpoint = "get"
                                       THEN port[t][k].value ELSE call[t].value
<1>1. PICK k \in DOMAIN port[t] :
         /\ port[t][k].id = call[t].id
         /\ call' = [call EXCEPT ![t] =
                CallRecord("done", "", @.endpoint, 0,
                           IF @.endpoint = "get" THEN port[t][k].value
                                                 ELSE @.value,
                           @.block, NoId, Outcome(port[t][k]))]
    BY DEF TakeReply, Own
<1> QED
    BY <1>1 DEF CallRecord, TakeReply, Leave, At, TypeOK, Over, OthersWait

LEMMA HandleEffect ==
    ASSUME TypeOK, NEW b \in Block, Handle(b)
    PROVE  /\ alive /\ UNCHANGED <<alive, mutex, call>>
           /\ \A t \in Thread : ~ At(t, "wait") => port'[t] = port[t]
           /\ \A t \in Thread : call[t].id = NoId => fate'[t] = fate[t]
<1>1. PICK kind \in Kind, value \in Int64, data \in Int64 :
         Delivered(b, kind, value, data)
    BY HandleDelivers
<1>2. inbox[b] \in Seq(Message) /\ inbox[b] # <<>>
    BY HandleDelivers DEF TypeOK
<1>3. Head(inbox[b]).id # NoId
    <2>1. Head(inbox[b]) \in Message
        BY <1>2, TailElements
    <2> QED
        BY <2>1, SettingsAssumption DEF Message
<1> QED
    BY <1>1, <1>3, HandleDelivers DEF Delivered

\* The steps of the block's work and of the session's lifecycle.
Elsewhere == UNCHANGED <<call, port, fate>>

LEMMA ElsewhereEffect ==
    ASSUME TypeOK, Lifecycle \/ \E b \in Block : ApplyStaged(b)
    PROVE  /\ Elsewhere /\ UNCHANGED mutex
           /\ UNCHANGED alive \/ mutex = NoThread
           /\ UNCHANGED inbox \/ inbox' = [b \in Block |-> <<>>]
BY DEF Lifecycle, StartRuntime, StopRuntime, Store, ApplyStaged, Elsewhere

-----------------------------------------------------------------------------
(* Whoever waits holds the mutex.                                           *)

LEMMA NobodyCalls ==
    ASSUME Init, NEW t \in Thread
    PROVE  /\ call[t].pc = "idle" /\ call[t].id = NoId /\ call[t].block = 0
           /\ port[t] = <<>>
<1>1. call[t] = NoCall
    BY DEF Init
<1>2. NoCall.pc = "idle" /\ NoCall.id = NoId /\ NoCall.block = 0
    BY DEF NoCall, CallRecord
<1>3. port[t] = <<>>
    BY DEF Init
<1> QED
    BY <1>1, <1>2, <1>3

LEMMA HolderInit == Init => WaiterHolds
BY NobodyCalls DEF WaiterHolds, At

LEMMA HolderStep == TypeOK /\ WaiterHolds /\ [Next]_vars => WaiterHolds'
<1> SUFFICES ASSUME TypeOK, WaiterHolds, [Next]_vars PROVE WaiterHolds'
    OBVIOUS
<1>1. CASE UNCHANGED vars
    BY <1>1 DEF vars, WaiterHolds, At
<1>2. ASSUME NEW t \in Thread, Ask(t) \/ Return(t) \/ Fail(t)
      PROVE  WaiterHolds'
    <2>1. /\ ~ At(t, "wait") /\ call'[t].pc # "wait"
          /\ call'[t].id = NoId /\ call'[t].block = 0
          /\ \A u \in Thread \ {t} : call'[u] = call[u]
          /\ mutex' = mutex /\ port' = port /\ alive' = alive
        BY <1>2, AskEffect DEF Outside, OthersWait, At
    <2>2. \A u \in Thread : call'[u].pc = "wait" =>
             /\ u # t /\ mutex' = u /\ alive
             /\ call'[u].id \in RequestId /\ call'[u].block \in Block
        BY <2>1 DEF WaiterHolds, At
    <2>3. \A u \in Thread :
             /\ call'[u].pc # "wait" => call'[u].id = NoId /\ port'[u] = <<>>
             /\ call'[u].pc \in {"idle", "lock"} => call'[u].block = 0
        BY <2>1 DEF WaiterHolds, At
    <2> QED
        BY <2>1, <2>2, <2>3 DEF WaiterHolds, At
<1>3. ASSUME NEW t \in Thread, Send(t) PROVE WaiterHolds'
    <2>1. \A u \in Thread : ~ At(u, "wait")
        BY <1>3, SendEffect, SettingsAssumption DEF WaiterHolds
    <2>2. \A u \in Thread \ {t} : call'[u] = call[u] /\ ~ At(u, "wait")
        BY <1>3, <2>1, SendEffect DEF OthersWait
    <2>3. /\ call'[t].pc = "wait" /\ mutex' = t /\ alive /\ alive' = alive
          /\ port' = port
          /\ call'[t].id \in RequestId /\ call'[t].block \in Block
        BY <1>3, SendEffect
    <2>4. \A u \in Thread : call'[u].pc = "wait" => u = t
        BY <2>2 DEF At
    <2>5. \A u \in Thread :
             /\ call'[u].pc # "wait" => call'[u].id = NoId /\ port'[u] = <<>>
             /\ call'[u].pc \in {"idle", "lock"} => call'[u].block = 0
        BY <2>2, <2>3 DEF WaiterHolds, At
    <2> QED
        BY <2>3, <2>4, <2>5 DEF WaiterHolds, At
<1>4. ASSUME NEW t \in Thread, Over(t) PROVE WaiterHolds'
    <2>1. \A u \in Thread \ {t} : ~ At(u, "wait")
        BY <1>4 DEF Over, WaiterHolds, At
    <2> QED
        BY <1>4, <2>1 DEF Over, OthersWait, WaiterHolds, At
<1>5. ASSUME NEW t \in Thread, DropReplies(t) PROVE WaiterHolds'
    BY <1>5 DEF DropReplies, TypeOK, WaiterHolds, At
<1>6. ASSUME NEW b \in Block, Handle(b) PROVE WaiterHolds'
    BY <1>6, HandleEffect DEF WaiterHolds, At
<1>7. CASE Lifecycle \/ \E b \in Block : ApplyStaged(b)
    BY <1>7, ElsewhereEffect, SettingsAssumption DEF Elsewhere, WaiterHolds, At
<1> QED
    BY <1>1, <1>2, <1>3, <1>4, <1>5, <1>6, <1>7, TimeOutEffect, TakeReplyEffect
       DEF Next, EnterExchange, Wait

-----------------------------------------------------------------------------
(* A request and its message.                                               *)

LEMMA MessagesInit == Init => OwnMessages /\ OwnReplies
BY NobodyCalls DEF OwnMessages, OwnReplies, MessageOf, ReplyOf, At

\* Steps that send nothing, deliver nothing and let nobody wait anew.
LEMMA MessagesKept ==
    ASSUME OwnMessages, OwnReplies,
           UNCHANGED inbox \/ inbox' = [b \in Block |-> <<>>],
           \A t \in Thread : call'[t].pc = "wait" =>
              call'[t] = call[t] /\ fate'[t] = fate[t]
              /\ (port'[t] = port[t] \/ port'[t] = <<>>)
    PROVE  OwnMessages' /\ OwnReplies'
<1>1. OwnMessages'
    BY DEF OwnMessages, MessageOf, Carries, At
<1>2. OwnReplies'
    BY DEF OwnReplies, ReplyOf, At
<1> QED
    BY <1>1, <1>2

LEMMA MessagesSend ==
    ASSUME TypeOK, WaiterHolds, OwnMessages, OwnReplies, NEW t \in Thread, Send(t)
    PROVE  OwnMessages' /\ OwnReplies'
<1>1. \A u \in Thread : ~ At(u, "wait") /\ port[u] = <<>>
    BY SendEffect, SettingsAssumption DEF WaiterHolds
<1>2. PICK b \in Block, id \in RequestId :
         /\ Unused(id)
         /\ call'[t].block = b /\ call'[t].id = id
         /\ inbox' = [inbox EXCEPT ![b] = Append(@, [id |-> id,
                        endpoint |-> call[t].endpoint,
                        value |-> call[t].value])]
    BY SendEffect
<1> DEFINE m == [id |-> id, endpoint |-> call[t].endpoint,
                 value |-> call[t].value]
<1>3. m \in Message /\ inbox[b] \in Seq(Message)
    BY DEF TypeOK, Request, Message
<1>4. /\ inbox'[b] = Append(inbox[b], m)
      /\ \A c \in Block \ {b} : inbox'[c] = inbox[c]
    BY <1>2 DEF TypeOK
<1>5. \A c \in Block : \A k \in DOMAIN inbox[c] : inbox[c][k].id # id
    BY <1>2 DEF Unused, Carries
<1>6. /\ Len(inbox[b]) + 1 \in DOMAIN inbox'[b]
      /\ \A c \in Block : \A k \in DOMAIN inbox'[c] :
            inbox'[c][k].id = id => c = b /\ k = Len(inbox[b]) + 1
    BY <1>3, <1>4, <1>5, AppendElements
<1>7. inbox'[b][Len(inbox[b]) + 1] = m
    BY <1>3, <1>4, AppendElements
<1>8. /\ call'[t].endpoint = m.endpoint /\ call'[t].value = m.value
      /\ port' = port
      /\ \A u \in Thread : call'[u].pc = "wait" => u = t
    BY <1>1, SendEffect DEF OthersWait, At
<1>9. OwnMessages'
    BY <1>1, <1>2, <1>6, <1>7, <1>8 DEF OwnMessages, MessageOf, Carries, At
<1>10. OwnReplies'
    BY <1>1, <1>8 DEF OwnReplies, ReplyOf, At
<1> QED
    BY <1>9, <1>10

LEMMA MessagesHandle ==
    ASSUME TypeOK, WaiterHolds, OwnMessages, OwnReplies, NEW b \in Block,
           Handle(b)
    PROVE  OwnMessages' /\ OwnReplies'
<1> DEFINE m == Head(inbox[b])
<1>1. PICK kind \in Kind, value \in Int64, data \in Int64 :
         /\ Delivered(b, kind, value, data)
         /\ value = IF m.endpoint = "get" THEN data ELSE m.value
    BY HandleDelivers
<1>2. inbox[b] \in Seq(Message) /\ inbox[b] # <<>> /\ call' = call
    BY HandleDelivers DEF TypeOK
<1>3. m = inbox[b][1] /\ 1 \in DOMAIN inbox[b] /\ m \in Message
    BY <1>2, TailElements
<1>4. /\ inbox'[b] = Tail(inbox[b])
      /\ \A c \in Block \ {b} : inbox'[c] = inbox[c]
    BY <1>1 DEF Delivered, TypeOK
<1>5. \A k \in DOMAIN inbox'[b] :
         k + 1 \in DOMAIN inbox[b] /\ k + 1 # 1 /\ k \in Nat
         /\ inbox'[b][k] = inbox[b][k + 1]
    BY <1>2, <1>4, TailElements
<1> SUFFICES ASSUME NEW t \in Thread, At(t, "wait")
             PROVE  MessageOf(t)' /\ ReplyOf(t)'
    BY <1>2 DEF OwnMessages, OwnReplies, MessageOf, ReplyOf, At
<1> DEFINE id == call[t].id
           r  == [id |-> m.id, block |-> b, endpoint |-> m.endpoint,
                  kind |-> kind, value |-> data]
<1>6. MessageOf(t) /\ ReplyOf(t)
    BY DEF OwnMessages, OwnReplies
<1>7. r \in Reply /\ port[t] \in Seq(Reply) /\ port'[t] = Append(port[t], r)
    BY <1>1, <1>3 DEF TypeOK, Message, Reply, Delivered
<1>8. /\ DOMAIN port'[t] = 1 .. Len(port[t]) + 1
      /\ DOMAIN port[t] = 1 .. Len(port[t]) /\ Len(port[t]) \in Nat
      /\ \A k \in DOMAIN port[t] : port'[t][k] = port[t][k]
      /\ port'[t][Len(port[t]) + 1] = r
    BY <1>7, AppendElements
<1>9. CASE m.id = id
    <2>1. /\ m.endpoint = call[t].endpoint /\ m.value = call[t].value
          /\ ~ Carries(port[t], id)
          /\ \A c \in Block : \A j \in DOMAIN inbox[c] :
                inbox[c][j].id = id => c = b /\ j = 1
        BY <1>3, <1>6, <1>9 DEF MessageOf
    <2>2. \A c \in Block : \A j \in DOMAIN inbox'[c] : inbox'[c][j].id # id
        <3> SUFFICES ASSUME NEW c \in Block, NEW j \in DOMAIN inbox'[c],
                            inbox'[c][j].id = id
                     PROVE  FALSE
            OBVIOUS
        <3>1. CASE c = b
            BY <1>5, <2>1, <3>1
        <3>2. CASE c # b
            BY <1>4, <2>1, <3>2
        <3> QED
            BY <3>1, <3>2
    <2>3. MessageOf(t)'
        BY <1>2, <2>2 DEF MessageOf
    <2>4. fate'[t] = [kind |-> kind, value |-> value]
        BY <1>1, <1>9 DEF Delivered
    <2>5. \A k \in DOMAIN port'[t] :
             port'[t][k].id = id => k = Len(port[t]) + 1
        BY <1>8, <2>1 DEF Carries
    <2>6. ReplyOf(t)'
        BY <1>1, <1>2, <1>8, <2>1, <2>4, <2>5 DEF ReplyOf
    <2> QED
        BY <2>3, <2>6
<1>10. CASE m.id # id
    <2>1. fate'[t] = fate[t]
        BY <1>1, <1>10 DEF Delivered
    <2>2. \A k \in DOMAIN port'[t] :
             port'[t][k].id = id => k \in DOMAIN port[t] /\ port'[t][k] = port[t][k]
        BY <1>8, <1>10
    <2>3. ReplyOf(t)'
        BY <1>2, <1>6, <2>1, <2>2 DEF ReplyOf, At
    <2>4. Carries(port[t], id)' => Carries(port[t], id)
        BY <1>2, <2>2 DEF Carries
    <2>5. MessageOf(t)'
        <3> SUFFICES ASSUME NEW c \in Block, NEW k \in DOMAIN inbox'[c],
                            inbox'[c][k].id = id
                     PROVE  /\ inbox'[c][k].endpoint = call[t].endpoint
                            /\ inbox'[c][k].value = call[t].value
                            /\ ~ Carries(port[t], id)'
                            /\ \A d \in Block : \A j \in DOMAIN inbox'[d] :
                                  inbox'[d][j].id = id => d = c /\ j = k
            BY <1>2 DEF MessageOf
        <3> DEFINE was == IF c = b THEN k + 1 ELSE k
        <3>1. was \in DOMAIN inbox[c] /\ inbox'[c][k] = inbox[c][was]
            BY <1>4, <1>5
        <3>2. /\ inbox[c][was].endpoint = call[t].endpoint
              /\ inbox[c][was].value = call[t].value
              /\ ~ Carries(port[t], id)
              /\ \A d \in Block : \A j \in DOMAIN inbox[d] :
                    inbox[d][j].id = id => d = c /\ j = was
            BY <1>6, <3>1 DEF MessageOf
        <3>3. ASSUME NEW d \in Block, NEW j \in DOMAIN inbox'[d],
                     inbox'[d][j].id = id
              PROVE  d = c /\ j = k
            <4>1. CASE d = b
                BY <1>5, <3>2, <3>3, <4>1
            <4>2. CASE d # b
                BY <1>4, <3>2, <3>3, <4>2
            <4> QED
                BY <4>1, <4>2
        <3> QED
            BY <2>4, <3>1, <3>2, <3>3
    <2> QED
        BY <2>3, <2>5
<1> QED
    BY <1>9, <1>10

LEMMA MessagesStep ==
    ASSUME TypeOK, WaiterHolds, OwnMessages, OwnReplies, [Next]_vars
    PROVE  OwnMessages' /\ OwnReplies'
<1>1. CASE UNCHANGED vars
    BY <1>1, MessagesKept DEF vars
<1>2. ASSUME NEW t \in Thread, Ask(t) \/ Return(t) \/ Fail(t)
      PROVE  OwnMessages' /\ OwnReplies'
    BY <1>2, AskEffect, MessagesKept DEF Outside, OthersWait
<1>3. ASSUME NEW t \in Thread, Over(t) PROVE OwnMessages' /\ OwnReplies'
    BY <1>3, MessagesKept DEF Over, OthersWait
<1>4. ASSUME NEW t \in Thread, DropReplies(t)
      PROVE  OwnMessages' /\ OwnReplies'
    BY <1>4, MessagesKept DEF DropReplies, TypeOK
<1>5. CASE Lifecycle \/ \E b \in Block : ApplyStaged(b)
    BY <1>5, ElsewhereEffect, MessagesKept DEF Elsewhere
<1> QED
    BY <1>1, <1>2, <1>3, <1>4, <1>5, MessagesSend, MessagesHandle,
       TimeOutEffect, TakeReplyEffect DEF Next, EnterExchange, Wait

-----------------------------------------------------------------------------
(* Answers.                                                                 *)

LEMMA AnswersInit == Init => AnswersAreTrue
BY NobodyCalls DEF AnswersAreTrue, At

LEMMA AnswersStep ==
    ASSUME TypeOK, WaiterHolds, OwnReplies, AnswersAreTrue, [Next]_vars
    PROVE  AnswersAreTrue'
<1>1. CASE UNCHANGED vars
    BY <1>1 DEF vars, AnswersAreTrue, At
<1>2. ASSUME NEW t \in Thread, Ask(t) \/ Return(t) \/ Fail(t)
      PROVE  AnswersAreTrue'
    BY <1>2, AskEffect DEF Outside, OthersWait, AnswersAreTrue, At
<1>3. ASSUME NEW t \in Thread, Send(t) PROVE AnswersAreTrue'
    BY <1>3, SendEffect DEF OthersWait, AnswersAreTrue, At
<1>4. ASSUME NEW t \in Thread, TimeOut(t) PROVE AnswersAreTrue'
    BY <1>4, TimeOutEffect DEF Over, OthersWait, AnswersAreTrue, At
<1>5. ASSUME NEW t \in Thread, TakeReply(t) PROVE AnswersAreTrue'
    <2>1. Over(t) /\ UNCHANGED fate
        BY <1>5, TakeReplyEffect
    <2>2. PICK k \in DOMAIN port[t] :
             /\ port[t][k].id = call[t].id
             /\ call'[t].answer = Outcome(port[t][k])
             /\ call'[t].value = IF call[t].endpoint = "get"
                                   THEN port[t][k].value ELSE call[t].value
        BY <1>5, TakeReplyEffect
    <2>3. /\ fate[t].kind = port[t][k].kind /\ port[t][k].kind \in Kind
          /\ fate[t].value = call'[t].value
        BY <2>1, <2>2 DEF Over, OwnReplies, ReplyOf, At
    <2>4. /\ fate[t].kind # "none"
          /\ call'[t].answer = "ok" <=> fate[t].kind = "settings"
        BY <2>2, <2>3 DEF Outcome, Kind
    <2> QED
        BY <2>1, <2>3, <2>4 DEF Over, OthersWait, AnswersAreTrue, At
<1>6. ASSUME NEW t \in Thread, DropReplies(t) PROVE AnswersAreTrue'
    BY <1>6 DEF DropReplies, AnswersAreTrue, At
<1>7. ASSUME NEW b \in Block, Handle(b) PROVE AnswersAreTrue'
    <2>1. \A t \in Thread : At(t, "done") => call[t].id = NoId
        BY DEF WaiterHolds, At
    <2> QED
        BY <1>7, <2>1, HandleEffect DEF AnswersAreTrue, At
<1>8. CASE Lifecycle \/ \E b \in Block : ApplyStaged(b)
    BY <1>8, ElsewhereEffect DEF Elsewhere, AnswersAreTrue, At
<1> QED
    BY <1>1, <1>2, <1>3, <1>4, <1>5, <1>6, <1>7, <1>8
       DEF Next, EnterExchange, Wait

-----------------------------------------------------------------------------
(* The theorems.                                                            *)

LEMMA SettingsInvariant == Spec => []SettingsInv
<1>1. Init => SettingsInv
    BY TypeInit, HolderInit, MessagesInit, AnswersInit DEF SettingsInv
<1>2. SettingsInv /\ [Next]_vars => SettingsInv'
    BY TypeStep, HolderStep, MessagesStep, AnswersStep DEF SettingsInv
<1> QED
    BY <1>1, <1>2, PTL DEF Spec

\* Requests, queues and settings are always well formed; no integer outside
\* the range of the runtime's integers reaches a block.
THEOREM TypeCorrect == Spec => []TypeOK
<1>1. SettingsInv => TypeOK
    BY DEF SettingsInv
<1> QED
    BY <1>1, SettingsInvariant, PTL

\* A stop waits for the settings exchange that uses the scheduler, however many
\* requests there are and however long the block takes.
THEOREM SchedulerOutlivesExchange == Spec => []ExchangeKeepsExecution
<1>1. SettingsInv => ExchangeKeepsExecution
    BY DEF SettingsInv, WaiterHolds, ExchangeKeepsExecution
<1> QED
    BY <1>1, SettingsInvariant, PTL

\* No request is given the answer of another, whatever replies arrive late and
\* in whatever order blocks answer: fresh ids alone guarantee it, although
\* every reply goes to every response port.
THEOREM AnswersBelongToRequests == Spec => []AnswersAreTrue
<1>1. SettingsInv => AnswersAreTrue
    BY DEF SettingsInv
<1> QED
    BY <1>1, SettingsInvariant, PTL
=============================================================================
