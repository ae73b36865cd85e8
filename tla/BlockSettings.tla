--------------------------- MODULE BlockSettings ----------------------------
(***************************************************************************)
(* app::BlockSettingsService and the settings exchange of                  *)
(* runtime::Gr4RuntimeManager, for one session: what happens inside the    *)
(* one "settings" step of Gr4RuntimeManager.tla.                           *)
(*                                                                         *)
(* A request passes the repository check, converts its body, and locks the *)
(* session's runtime object.  Under that mutex it connects a request port  *)
(* and a response port of its own to the scheduler, sends one message with *)
(* a fresh request id to one block, and polls the response port for a      *)
(* second.  The scheduler's message output is published to every port that *)
(* is connected when a block answers, so the answer to a request that was  *)
(* given up reaches whoever waits by then.                                 *)
(*                                                                         *)
(* The scheduler and the blocks are external: a block takes the messages   *)
(* sent to it in their order, at any time or never, and accepts or rejects *)
(* each.  Starting, stopping and deleting the session is what the other    *)
(* modules specify; here it happens whenever the mutex allows it.          *)
(***************************************************************************)
EXTENDS Integers, Sequences, FiniteSets

CONSTANTS
    Thread, NoThread,  \* request threads; NoThread: "mutex free"
    Blocks,            \* the graph's blocks in its order: their three names
    Target,            \* the targets that are asked for (a bound)
    Posted,            \* the integers that are posted (a bound)
    Half,              \* half the range of the integers: 2^63 in the code
    RequestId, NoId    \* enough request ids for every message in flight

Block == DOMAIN Blocks

\* What the JSON parser reads as an integer: a signed or an unsigned one.
Literal == -Half .. 2 * Half - 1
Int64   == -Half .. Half - 1

ASSUME SettingsAssumption ==
    /\ NoThread \notin Thread /\ NoId \notin RequestId
    /\ Blocks \in Seq([name : STRING, uniqueName : STRING, label : STRING])
    /\ \A b, c \in Block : Blocks[b].uniqueName = Blocks[c].uniqueName => b = c
    /\ Half \in Nat \ {0}
    /\ Posted \subseteq Literal

VARIABLES
    running,    \* Session.state is "running" in the repository
    alive,      \* the session has an execution and its scheduler runs
    mutex,      \* the holder of SessionRuntimeResources::mutex
    inbox,      \* inbox[b]: the messages on their way to block b
    effective,  \* effective[b]: the setting block b works with
    staged,     \* staged[b]: the value that will replace it, if any
    port,       \* port[t]: the replies in the response port of thread t
    call,       \* call[t]: the settings request in thread t
    fate        \* fate[t]: what the block did with that request (history)

vars == <<running, alive, mutex, inbox, effective, staged, port, call, fate>>

Endpoint == {"get", "set", "stage"}
Message  == [id : RequestId, endpoint : Endpoint, value : Int64]
Kind     == {"settings",      \* what was asked for, or an acknowledgement
             "opaque",        \* settings, one of them a tensor or complex number
             "error"}         \* rejected
Reply    == [id : RequestId, block : Block, endpoint : Endpoint, kind : Kind,
             value : Int64]
Fate     == [kind : Kind \cup {"none"}, value : Int64]
Answer   == {"none", "ok", "validation_error", "not_found", "invalid_state",
             "runtime_error", "timeout"}
Request  == [pc : {"idle", "lock", "wait", "done"}, target : Target \cup {""},
             endpoint : Endpoint, json : Literal, value : Int64,
             block : Block \cup {0}, id : RequestId \cup {NoId},
             answer : Answer]

NoFate == [kind |-> "none", value |-> 0]

CallRecord(pc, x, endpoint, n, value, b, id, answer) ==
    [pc |-> pc, target |-> x, endpoint |-> endpoint, json |-> n,
     value |-> value, block |-> b, id |-> id, answer |-> answer]

NoCall == CallRecord("idle", "", "get", 0, 0, 0, NoId, "none")

TypeOK ==
    /\ running \in BOOLEAN
    /\ alive \in BOOLEAN
    /\ mutex \in Thread \cup {NoThread}
    /\ inbox \in [Block -> Seq(Message)]
    /\ effective \in [Block -> Int64]
    /\ staged \in [Block -> SUBSET Int64]
    /\ port \in [Thread -> Seq(Reply)]
    /\ call \in [Thread -> Request]
    /\ fate \in [Thread -> Fate]

Init ==
    /\ running = FALSE /\ alive = FALSE
    /\ mutex = NoThread
    /\ inbox = [b \in Block |-> <<>>]
    /\ effective = [b \in Block |-> 0]
    /\ staged = [b \in Block |-> {}]
    /\ port = [t \in Thread |-> <<>>]
    /\ call = [t \in Thread |-> NoCall]
    /\ fate = [t \in Thread |-> NoFate]

runtimeVars == <<alive, mutex, inbox, effective, staged, port, fate>>

-----------------------------------------------------------------------------
(* The request, up to the runtime.                                          *)

At(t, pc) == call[t].pc = pc

Finish(t, answer) ==
    call' = [call EXCEPT ![t] =
                CallRecord("done", "", "get", 0, 0, 0, NoId, answer)]

\* Mutant: the number is taken over as it is.
KeepLiteral(n) == n

\* json_to_pmt_value: is_number_integer is true of an unsigned number too, and
\* get<int64_t> of it wraps round; the check for unsigned numbers that do not
\* fit comes after that and is never reached.
ToInt64(n) == ((n + Half) % (2 * Half)) - Half

\* The body is no JSON or the mode is unknown (asked first), the session does
\* not exist or does not run, or the body holds no map or an array (last).
Reject(t) ==
    /\ At(t, "idle")
    /\ \E answer \in {"validation_error"}
           \cup IF running THEN {} ELSE {"not_found", "invalid_state"} :
          Finish(t, answer)
    /\ UNCHANGED <<running, runtimeVars>>

Carries(messages, id) == \E k \in DOMAIN messages : messages[k].id = id

Unused(id) ==
    /\ \A t \in Thread : call[t].id # id /\ ~ Carries(port[t], id)
    /\ \A b \in Block : ~ Carries(inbox[b], id)

\* Bound: requests are made while there are ids for them.
IdsLeft == Cardinality({id \in RequestId : Unused(id)})
              > Cardinality({t \in Thread : At(t, "lock")})

Admit(t, x, endpoint, n) ==
    /\ At(t, "idle") /\ IdsLeft
    /\ running
    /\ call' = [call EXCEPT ![t] = CallRecord("lock", x, endpoint, n,
                                             ToInt64(n), 0, NoId, "none")]
    /\ UNCHANGED <<running, runtimeVars>>

Get(t, x)     == Admit(t, x, "get", 0)
Update(t, x)  == \E endpoint \in {"set", "stage"}, n \in Posted :
                    Admit(t, x, endpoint, n)

Return(t) ==
    /\ At(t, "done")
    /\ call' = [call EXCEPT ![t] = NoCall]
    /\ fate' = [fate EXCEPT ![t] = NoFate]
    /\ UNCHANGED <<running, alive, mutex, inbox, effective, staged, port>>

-----------------------------------------------------------------------------
(* The exchange with the block, under the mutex of the session's object.    *)

\* The first block of that name, else of that unique name, else the first
\* whose "name" setting is the target; no block if there is none.
resolve_runtime_block(x) ==
    LET Called(f) == {b \in Block : Blocks[b][f] = x}
        First(B)  == {b \in B : \A c \in B : b <= c}
    IN  IF Called("name") # {} THEN First(Called("name"))
        ELSE IF Called("uniqueName") # {} THEN First(Called("uniqueName"))
        ELSE First(Called("label"))

Enter(t) == At(t, "lock") /\ mutex = NoThread

\* The session no longer runs, has no such block, or a port does not connect.
Fail(t) ==
    /\ Enter(t)
    /\ \/ Finish(t, "runtime_error")
       \/ alive /\ resolve_runtime_block(call[t].target) = {}
          /\ Finish(t, "not_found")
    /\ UNCHANGED <<running, runtimeVars>>

\* Mutant: the mutex is not kept while the reply is awaited.
SendAndUnlock(t) ==
    /\ Enter(t) /\ alive
    /\ \E b \in resolve_runtime_block(call[t].target), id \in RequestId :
          /\ Unused(id)
          /\ inbox' = [inbox EXCEPT ![b] = Append(@, [id |-> id,
                         endpoint |-> call[t].endpoint,
                         value |-> call[t].value])]
          /\ call' = [call EXCEPT ![t] = CallRecord("wait", "", @.endpoint, 0,
                                                   @.value, b, id, "none")]
    /\ UNCHANGED <<running, alive, mutex, effective, staged, port, fate>>

\* Ports are connected and the message is sent; the id is random, of 64 bits.
Send(t) ==
    /\ Enter(t) /\ alive
    /\ \E b \in resolve_runtime_block(call[t].target), id \in RequestId :
          /\ Unused(id)
          /\ inbox' = [inbox EXCEPT ![b] = Append(@, [id |-> id,
                         endpoint |-> call[t].endpoint,
                         value |-> call[t].value])]
          /\ call' = [call EXCEPT ![t] = CallRecord("wait", "", @.endpoint, 0,
                                                   @.value, b, id, "none")]
    /\ mutex' = t
    /\ UNCHANGED <<running, alive, effective, staged, port, fate>>

\* The response port is disconnected and the mutex released.
Leave(t) ==
    /\ mutex' = NoThread
    /\ port' = [port EXCEPT ![t] = <<>>]

\* Mutant: a reply of the right block and endpoint is taken for the answer.
OwnEndpoint(t, reply) ==
    reply.block = call[t].block /\ reply.endpoint = call[t].endpoint

Own(t, reply) ==
    /\ reply.id = call[t].id
    /\ reply.block = call[t].block
    /\ reply.endpoint = call[t].endpoint

\* parse_settings_reply, and property_map_to_json for a GET: settings one of
\* which has no JSON form are an error as a whole.
Outcome(reply) == IF reply.kind = "settings" THEN "ok" ELSE "runtime_error"

\* All replies that are there are looked through: the first of ours counts, ...
TakeReply(t) ==
    /\ At(t, "wait")
    /\ \E k \in DOMAIN port[t] :
          LET reply == port[t][k]
          IN  /\ Own(t, reply)
              /\ \A j \in 1 .. k - 1 : ~ Own(t, port[t][j])
              /\ call' = [call EXCEPT ![t] =
                    CallRecord("done", "", @.endpoint, 0,
                               IF @.endpoint = "get" THEN reply.value
                                                     ELSE @.value,
                               @.block, NoId, Outcome(reply))]
    /\ Leave(t)
    /\ UNCHANGED <<running, alive, inbox, effective, staged, fate>>

\* ... and the others are dropped.
DropReplies(t) ==
    /\ At(t, "wait")
    /\ port[t] # <<>>
    /\ \A k \in DOMAIN port[t] : ~ Own(t, port[t][k])
    /\ port' = [port EXCEPT ![t] = <<>>]
    /\ UNCHANGED <<running, alive, mutex, inbox, effective, staged, call, fate>>

\* Mutant: the wait has no deadline.
WaitsForEver(t) == FALSE /\ UNCHANGED vars

\* The second is over.
TimeOut(t) ==
    /\ At(t, "wait")
    /\ Finish(t, "timeout")
    /\ Leave(t)
    /\ fate' = [fate EXCEPT ![t] = NoFate]
    /\ UNCHANGED <<running, alive, inbox, effective, staged>>

-----------------------------------------------------------------------------
(* External: the scheduler and its blocks.                                  *)

\* Block b takes its next message; its reply goes to every response port that
\* is connected now.
Handle(b) ==
    LET m == Head(inbox[b])
        Answers(kind, value, data) ==
            /\ fate' = [t \in Thread |->
                  IF call[t].id = m.id THEN [kind |-> kind, value |-> value]
                                       ELSE fate[t]]
            /\ port' = [t \in Thread |->
                  IF At(t, "wait")
                    THEN Append(port[t], [id |-> m.id, block |-> b,
                                          endpoint |-> m.endpoint,
                                          kind |-> kind, value |-> data])
                    ELSE port[t]]
    IN  /\ alive /\ inbox[b] # <<>>
        /\ inbox' = [inbox EXCEPT ![b] = Tail(@)]
        /\ \/ /\ m.endpoint = "get"
              /\ \E kind \in {"settings", "opaque"} :
                    Answers(kind, effective[b], effective[b])
              /\ UNCHANGED <<effective, staged>>
           \/ /\ m.endpoint = "set" /\ Answers("settings", m.value, 0)
              /\ effective' = [effective EXCEPT ![b] = m.value]
              /\ UNCHANGED staged
           \/ /\ m.endpoint = "stage" /\ Answers("settings", m.value, 0)
              /\ staged' = [staged EXCEPT ![b] = {m.value}]
              /\ UNCHANGED effective
           \/ /\ m.endpoint # "get" /\ Answers("error", m.value, 0)
              /\ UNCHANGED <<effective, staged>>
        /\ UNCHANGED <<running, alive, mutex, call>>

\* The block's next work call takes over what is staged.
ApplyStaged(b) ==
    /\ alive
    /\ \E v \in staged[b] : effective' = [effective EXCEPT ![b] = v]
    /\ staged' = [staged EXCEPT ![b] = {}]
    /\ UNCHANGED <<running, alive, mutex, inbox, port, call, fate>>

-----------------------------------------------------------------------------
(* The lifecycle of the session, as far as the exchange sees it.            *)

\* The object's mutex is held while an execution is made or torn down.
StartRuntime ==
    /\ mutex = NoThread
    /\ ~ alive
    /\ alive' = TRUE
    /\ UNCHANGED <<running, mutex, inbox, effective, staged, port, call, fate>>

\* The scheduler goes with its blocks and the messages on their way to them.
StopRuntime ==
    /\ mutex = NoThread
    /\ alive
    /\ alive' = FALSE
    /\ inbox' = [b \in Block |-> <<>>]
    /\ effective' = [b \in Block |-> 0]
    /\ staged' = [b \in Block |-> {}]
    /\ UNCHANGED <<running, mutex, port, call, fate>>

\* The service records what it did, or that it failed, later; the settings
\* service reads that without any common lock.
Store ==
    /\ running' \in IF alive THEN BOOLEAN ELSE {FALSE}
    /\ UNCHANGED <<alive, mutex, inbox, effective, staged, port, call, fate>>

-----------------------------------------------------------------------------
Ask(t) == Reject(t) \/ \E x \in Target : Get(t, x) \/ Update(t, x)

EnterExchange(t) == Fail(t) \/ Send(t)

Wait(t) == TakeReply(t) \/ DropReplies(t) \/ TimeOut(t)

Lifecycle == StartRuntime \/ StopRuntime \/ Store

Next ==
    \/ \E t \in Thread : Ask(t) \/ EnterExchange(t) \/ Wait(t) \/ Return(t)
    \/ \E b \in Block : Handle(b) \/ ApplyStaged(b)
    \/ Lifecycle

\* The clock runs, a thread is scheduled, and the mutex is not withheld from
\* one thread for ever.  No block owes anybody an answer.
Fairness ==
    \A t \in Thread :
        /\ WF_vars(TimeOut(t)) /\ WF_vars(Return(t))
        /\ SF_vars(EnterExchange(t))

Spec == Init /\ [][Next]_vars /\ Fairness

-----------------------------------------------------------------------------
(* Properties.                                                              *)

\* The scheduler whose ports an exchange uses is there until the exchange is
\* over: nobody tears the session down between the running check and the last
\* poll, although the service admits a stop at any time.
ExchangeKeepsExecution == \A t \in Thread : At(t, "wait") => alive

\* An answer tells what the block did with this very request, never what it
\* did with an earlier one that was given up: "ok" to a GET is the value the
\* block had when it took the request, "ok" to a POST means that the block
\* accepted this patch, and the error of a block is about this patch.
AnswersAreTrue ==
    \A t \in Thread :
        At(t, "done") /\ call[t].block # 0 =>
            /\ fate[t].kind # "none"
            /\ fate[t].value = call[t].value
            /\ call[t].answer = "ok" <=> fate[t].kind = "settings"

\* Every settings request ends, also when its block never answers and when
\* other requests, starts and stops compete for the session.
SettingsRequestsEnd == \A t \in Thread : ~ At(t, "idle") ~> At(t, "idle")
=============================================================================
