----------------------------- MODULE HttpServer ------------------------------
(***************************************************************************)
(* api::HttpServer::Impl: how the server is started and stopped.           *)
(*                                                                         *)
(* One thread is in listen() or listen_after_bind(): it accepts            *)
(* connections and gives each a thread of its own, which proxies one       *)
(* request to the internal server or becomes a websocket bridge.  Other    *)
(* threads call stop() at any time.  The listener, when it leaves its      *)
(* loop, and stop() both take the connection threads out of                *)
(* connection_threads_ and join them, and both join the internal server's  *)
(* thread.                                                                 *)
(*                                                                         *)
(* External: the internal httplib server (it ends some time after it was   *)
(* told to), what the routes do (an attempt to attach a stream succeeds or *)
(* fails), and the clients, who owe the server nothing.                    *)
(***************************************************************************)
EXTENDS Naturals, FiniteSets

CONSTANTS
    Conn,        \* the connections that clients open (a bound)
    Caller,      \* the threads that call stop(), once each (a bound)
    Listener     \* the thread that listens

ASSUME ServerAssumption == Listener \notin Caller

VARIABLES
    stopping,    \* stopping_
    acceptor,    \* acceptor_: "none", "open" or "closed"
    internal,    \* internal_server: "off", "serving", "told" to stop, "ended"
    joinable,    \* internal_thread_.joinable()
    threads,     \* connection_threads_
    bridges,     \* active_bridges_
    closed,      \* bridges whose sockets are closed
    conn,        \* conn[c]: where the thread of connection c is
    pc,          \* pc[p]: where the listener or a caller of stop() is
    taken,       \* taken[p]: connection threads p has swapped out to join
    copy,        \* copy[p]: bridges that stop() in p still has to close
    late         \* bridges registered after stop() copied active_bridges_
                 \* (history: the code has no such variable)

vars == <<stopping, acceptor, internal, joinable, threads, bridges, closed,
          conn, pc, taken, copy, late>>

Joiner == Caller \cup {Listener}

ConnState == {"none", "accepted", "reading", "proxying", "attaching",
              "attached", "bridging", "erasing", "done"}

ListenState == {"off", "bound", "starting", "loop", "accept"}
StopState   == {"off", "internal", "acceptor", "copy", "closing", "ignored"}
JoinState   == {"swap", "join", "last", "inner", "returned", "threw"}

TypeOK ==
    /\ stopping \in BOOLEAN /\ joinable \in BOOLEAN
    /\ acceptor \in {"none", "open", "closed"}
    /\ internal \in {"off", "serving", "told", "ended"}
    /\ threads \subseteq Conn /\ bridges \subseteq Conn
    /\ closed \subseteq Conn /\ late \subseteq Conn
    /\ conn \in [Conn -> ConnState]
    /\ \A c \in bridges : conn[c] \in {"bridging", "erasing"}
    /\ pc \in [Joiner -> ListenState \cup StopState \cup JoinState]
    /\ taken \in [Joiner -> SUBSET Conn]
    /\ copy \in [Caller -> SUBSET Conn]

Init ==
    /\ stopping = TRUE /\ acceptor = "none"
    /\ internal = "off" /\ joinable = FALSE
    /\ threads = {} /\ bridges = {} /\ closed = {} /\ late = {}
    /\ conn = [c \in Conn |-> "none"]
    /\ pc = [p \in Joiner |-> "off"]
    /\ taken = [p \in Joiner |-> {}]
    /\ copy = [p \in Caller |-> {}]

Goto(p, next) == pc' = [pc EXCEPT ![p] = next]
Turn(c, next) == conn' = [conn EXCEPT ![c] = next]

innerVars  == <<internal, joinable>>
bridgeVars == <<bridges, closed, copy, late>>

-----------------------------------------------------------------------------
(* The listener.                                                            *)

\* bind_to_any_port, or the first half of listen.
Bind ==
    /\ pc[Listener] = "off"
    /\ \/ acceptor' = "open" /\ Goto(Listener, "bound")
       \/ UNCHANGED acceptor /\ Goto(Listener, "returned")
    /\ UNCHANGED <<stopping, innerVars, threads, bridgeVars, conn, taken>>

\* listen_after_bind starts the internal server and waits until it serves (it
\* would go on after 50 attempts in vain; here the server comes up).
StartInternalServer ==
    /\ pc[Listener] = "bound"
    /\ internal' = "serving" /\ joinable' = TRUE
    /\ Goto(Listener, "starting")
    /\ UNCHANGED <<stopping, acceptor, threads, bridgeVars, conn, taken>>

\* From here on stop() has an effect.
Listen ==
    /\ pc[Listener] = "starting"
    /\ stopping' = FALSE
    /\ Goto(Listener, "loop")
    /\ UNCHANGED <<acceptor, innerVars, threads, bridgeVars, conn, taken>>

Loop ==
    /\ pc[Listener] = "loop"
    /\ Goto(Listener, IF stopping THEN "swap" ELSE "accept")
    /\ UNCHANGED <<stopping, acceptor, innerVars, threads, bridgeVars, conn,
                   taken>>

\* The acceptor does not block: nobody is there, or it has been closed.
AcceptFails ==
    /\ pc[Listener] = "accept"
    /\ \A c \in Conn : conn[c] # "accepted"
    /\ Goto(Listener, IF acceptor = "open" THEN "loop" ELSE "swap")
    /\ UNCHANGED <<stopping, acceptor, innerVars, threads, bridgeVars, conn,
                   taken>>

Accept(c) ==
    /\ pc[Listener] = "accept" /\ acceptor = "open"
    /\ \A d \in Conn : conn[d] # "accepted"
    /\ conn[c] = "none"
    /\ Turn(c, "accepted")
    /\ UNCHANGED <<stopping, acceptor, innerVars, threads, bridgeVars, pc,
                   taken>>

\* Under connection_mutex_; stop() may have swapped the vector already.
StartThread(c) ==
    /\ pc[Listener] = "accept" /\ conn[c] = "accepted"
    /\ threads' = threads \cup {c}
    /\ Turn(c, "reading")
    /\ Goto(Listener, "loop")
    /\ UNCHANGED <<stopping, acceptor, innerVars, bridgeVars, taken>>

-----------------------------------------------------------------------------
(* stop().                                                                  *)

\* A stop() that is not the first, or comes before Listen, returns at once.
CallStop(p) ==
    /\ pc[p] = "off"
    /\ stopping' = TRUE
    /\ Goto(p, IF stopping THEN "ignored" ELSE "internal")
    /\ UNCHANGED <<acceptor, innerVars, threads, bridgeVars, conn, taken>>

TellInternalServer(p) ==
    /\ pc[p] = "internal"
    /\ internal' = IF internal = "serving" THEN "told" ELSE internal
    /\ Goto(p, "acceptor")
    /\ UNCHANGED <<stopping, acceptor, joinable, threads, bridgeVars, conn,
                   taken>>

CloseAcceptor(p) ==
    /\ pc[p] = "acceptor"
    /\ acceptor' = IF acceptor = "open" THEN "closed" ELSE acceptor
    /\ Goto(p, "copy")
    /\ UNCHANGED <<stopping, innerVars, threads, bridgeVars, conn, taken>>

\* Mutant: the copy is taken before the lock, of an empty set.
CopyNothing(p) ==
    /\ pc[p] = "copy"
    /\ Goto(p, "closing")
    /\ UNCHANGED <<stopping, acceptor, innerVars, threads, bridgeVars, conn,
                   taken>>

\* Under bridge_mutex_; the bridges are closed outside it.
CopyBridges(p) ==
    /\ pc[p] = "copy"
    /\ copy' = [copy EXCEPT ![p] = bridges]
    /\ Goto(p, "closing")
    /\ UNCHANGED <<stopping, acceptor, innerVars, threads, bridges, closed,
                   late, conn, taken>>

CloseBridge(p) ==
    /\ pc[p] = "closing"
    /\ \/ \E c \in copy[p] :
             /\ closed' = closed \cup {c}
             /\ copy' = [copy EXCEPT ![p] = @ \ {c}]
             /\ UNCHANGED pc
       \/ copy[p] = {} /\ Goto(p, "swap") /\ UNCHANGED <<closed, copy>>
    /\ UNCHANGED <<stopping, acceptor, innerVars, threads, bridges, late, conn,
                   taken>>

-----------------------------------------------------------------------------
(* join_connection_threads and stop_internal_server, in the listener and in *)
(* stop().                                                                  *)

\* Mutant: the vector is copied, not swapped.
CopyThreads(p) ==
    /\ pc[p] = "swap"
    /\ taken' = [taken EXCEPT ![p] = threads]
    /\ Goto(p, "join")
    /\ UNCHANGED <<stopping, acceptor, innerVars, threads, bridgeVars, conn>>

SwapThreads(p) ==
    /\ pc[p] = "swap"
    /\ taken' = [taken EXCEPT ![p] = threads]
    /\ threads' = {}
    /\ Goto(p, "join")
    /\ UNCHANGED <<stopping, acceptor, innerVars, bridgeVars, conn>>

\* Mutant: the threads are detached.
DetachThreads(p) ==
    /\ pc[p] = "join"
    /\ taken' = [taken EXCEPT ![p] = {}]
    /\ Goto(p, "last")
    /\ UNCHANGED <<stopping, acceptor, innerVars, threads, bridgeVars, conn>>

JoinThreads(p) ==
    /\ pc[p] = "join"
    /\ \A c \in taken[p] : conn[c] = "done"
    /\ taken' = [taken EXCEPT ![p] = {}]
    /\ Goto(p, "last")
    /\ UNCHANGED <<stopping, acceptor, innerVars, threads, bridgeVars, conn>>

StopInternalServer(p) ==
    /\ pc[p] = "last"
    /\ Goto(p, IF joinable THEN "inner" ELSE "returned")
    /\ UNCHANGED <<stopping, acceptor, innerVars, threads, bridgeVars, conn,
                   taken>>

JoinInternalThread(p) ==
    /\ pc[p] = "inner"
    /\ joinable /\ internal = "ended"
    /\ joinable' = FALSE
    /\ Goto(p, "returned")
    /\ UNCHANGED <<stopping, acceptor, internal, threads, bridgeVars, conn,
                   taken>>

\* Nothing orders the check and the join of one thread with those of the
\* other: a join that finds the thread joined, or being joined, throws.
JoinThrows(p) ==
    /\ pc[p] = "inner"
    /\ ~ joinable \/ \E q \in Joiner \ {p} : pc[q] = "inner"
    /\ Goto(p, "threw")
    /\ UNCHANGED <<stopping, acceptor, innerVars, threads, bridgeVars, conn,
                   taken>>

InternalServerEnds ==
    /\ internal = "told"
    /\ internal' = "ended"
    /\ UNCHANGED <<stopping, acceptor, joinable, threads, bridgeVars, conn, pc,
                   taken>>

-----------------------------------------------------------------------------
(* A connection's thread.                                                   *)

ConnStep(c, from, next) ==
    /\ conn[c] = from
    /\ Turn(c, next)
    /\ UNCHANGED <<stopping, acceptor, innerVars, threads, pc, taken>>

\* handle_connection waits without a limit for the client's request.
Read(c) ==
    /\ \E next \in {"proxying", "attaching", "done"} : ConnStep(c, "reading", next)
    /\ UNCHANGED bridgeVars

\* The internal server answers, or cannot be reached, or is too slow.
ProxyHttpRequest(c) == ConnStep(c, "proxying", "done") /\ UNCHANGED bridgeVars

\* handle_websocket_upgrade: the route, the connection to the sink and the two
\* handshakes; or an error response.
Attach(c) ==
    /\ \E next \in {"attached", "done"} : ConnStep(c, "attaching", next)
    /\ UNCHANGED bridgeVars

\* stop() has copied active_bridges_.
Copied == \E p \in Caller : pc[p] \in {"closing"} \cup JoinState

Register(c) ==
    /\ ConnStep(c, "attached", "bridging")
    /\ bridges' = bridges \cup {c}
    /\ late' = IF Copied THEN late \cup {c} ELSE late
    /\ UNCHANGED <<closed, copy>>

\* One side of the bridge goes away; the forwarding thread that notices closes
\* both sides.
PeerLeaves(c) ==
    /\ conn[c] = "bridging"
    /\ closed' = closed \cup {c}
    /\ UNCHANGED <<stopping, acceptor, innerVars, threads, bridges, copy, late,
                   conn, pc, taken>>

BridgeEnds(c) ==
    /\ c \in closed
    /\ ConnStep(c, "bridging", "erasing")
    /\ UNCHANGED bridgeVars

\* Mutant: a bridge that has ended stays registered.
EraseNothing(c) == ConnStep(c, "erasing", "done") /\ UNCHANGED bridgeVars

EraseBridge(c) ==
    /\ ConnStep(c, "erasing", "done")
    /\ bridges' = bridges \ {c}
    /\ UNCHANGED <<closed, copy, late>>

-----------------------------------------------------------------------------
Listening ==
    \/ StartInternalServer \/ Listen \/ Loop \/ AcceptFails
    \/ \E c \in Conn : StartThread(c)

Stopping(p) ==
    TellInternalServer(p) \/ CloseAcceptor(p) \/ CopyBridges(p) \/ CloseBridge(p)

Joining(p) ==
    \/ SwapThreads(p) \/ JoinThreads(p) \/ StopInternalServer(p)
    \/ JoinInternalThread(p) \/ JoinThrows(p)

Serving(c) ==
    ProxyHttpRequest(c) \/ Attach(c) \/ Register(c) \/ BridgeEnds(c) \/ EraseBridge(c)

Next ==
    \/ Bind \/ Listening \/ InternalServerEnds
    \/ \E p \in Caller : CallStop(p) \/ Stopping(p)
    \/ \E p \in Joiner : Joining(p)
    \/ \E c \in Conn : Accept(c) \/ Read(c) \/ PeerLeaves(c) \/ Serving(c)

\* Every thread of the server runs on; a client need not connect (Accept), send
\* its request (Read) or leave (PeerLeaves), and nobody has to call stop().
Fairness ==
    /\ WF_vars(Listening) /\ WF_vars(InternalServerEnds)
    /\ \A p \in Caller : WF_vars(Stopping(p))
    /\ \A p \in Joiner : WF_vars(Joining(p))
    /\ \A c \in Conn : WF_vars(Serving(c))

Spec == Init /\ [][Next]_vars /\ Fairness

-----------------------------------------------------------------------------
(* Properties.                                                              *)

Alive(c) == conn[c] \notin {"none", "accepted", "done"}

\* A running connection thread is in one place, and one only: in the vector or
\* in the hands of one joiner.  None is lost, none is joined twice.
OneJoiner ==
    \A c \in Conn : Alive(c) =>
        Cardinality({p \in Joiner : c \in taken[p]})
            + (IF c \in threads THEN 1 ELSE 0) = 1

\* When the listener and the stop() that had an effect have both returned,
\* nothing of the server is left: no connection thread, no bridge, no internal
\* server.  (Either one alone may return while the other is still joining.)
NothingLeftBehind ==
    pc[Listener] = "returned" /\ (\E p \in Caller : pc[p] = "returned")
        => /\ \A c \in Conn : ~ Alive(c) /\ conn[c] # "accepted"
           /\ bridges = {}
           /\ internal = "ended" /\ ~ joinable

\* A client keeps the server: it has sent no request yet, or it holds on to a
\* bridge that was registered too late for stop() to close it.
ClientHolds ==
    \E c \in Conn : \/ conn[c] = "reading"
                    \/ conn[c] = "bridging" /\ c \in late \ closed

Ended(p) == pc[p] \in {"returned", "threw"}

\* stop() and the listener end, however many bridges are open, unless a client
\* holds the server in one of those two ways.
StopEnds ==
    <>[] ~ ClientHolds =>
        \A p \in Caller :
            pc[p] = "internal" ~> Ended(p) /\ Ended(Listener)

-----------------------------------------------------------------------------
(* What the tests rely on and the code does not keep.                       *)

\* stop() while another thread listens (as every HTTP test does in TearDown)
\* is legal: no join of the internal thread throws.
NoJoinThrows == \A p \in Joiner : pc[p] # "threw"
=============================================================================
