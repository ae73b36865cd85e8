-------------------------- MODULE HttpServerProofs ---------------------------
(***************************************************************************)
(* Proofs about HttpServer, for any number of connections and of threads   *)
(* that call stop(): type correctness, that every connection thread has    *)
(* one joiner, and that nothing is left behind.                            *)
(*                                                                         *)
(* OneJoiner counts; what is inductive is that the vector and the lists    *)
(* that the joiners have taken are pairwise disjoint and empty when their  *)
(* holder is not joining.  NothingLeftBehind needs that one stop() at most *)
(* has an effect, that this one found a listener with an internal server,  *)
(* and that the vector stays empty once the listener has emptied it.       *)
(***************************************************************************)
EXTENDS HttpServer, FiniteSetTheorems, TLAPS

\* Where the connection threads are.
Held ==
    /\ \A c \in threads : conn[c] \notin {"none", "accepted"}
    /\ \A p \in Joiner :
          /\ taken[p] # {} => pc[p] = "join"
          /\ taken[p] \cap threads = {}
          /\ \A c \in taken[p] : conn[c] \notin {"none", "accepted"}
          /\ \A q \in Joiner \ {p} : taken[p] \cap taken[q] = {}
    /\ \A c \in Conn : Alive(c) => c \in threads \/ \E p \in Joiner : c \in taken[p]

\* p is in a stop() that has an effect.
Effective(p) == pc[p] \notin {"off", "ignored"}

\* The listener and the stop() that ends it.
Ending ==
    /\ pc[Listener] \in ListenState \cup JoinState
    /\ \A p \in Caller : pc[p] \in StopState \cup JoinState
    /\ \A p \in Caller : Effective(p) => stopping
    /\ \A p, q \in Caller : Effective(p) /\ Effective(q) => p = q
    /\ pc[Listener] \in {"off", "bound", "starting"} =>
          stopping /\ \A p \in Caller : ~ Effective(p)
    /\ pc[Listener] = "starting" => joinable
    /\ ~ stopping \/ (\E p \in Caller : Effective(p)) => joinable \/ internal = "ended"
    /\ \A p \in Caller : pc[p] = "returned" => ~ joinable

\* Before the listener is in its loop, and once it has taken the connection
\* threads, there are none in the vector; it starts one at a time.
NoNewThreads ==
    /\ pc[Listener] \notin {"loop", "accept", "swap"} => threads = {}
    /\ \A c \in Conn : conn[c] = "accepted" => pc[Listener] = "accept"
    /\ \A c, d \in Conn : conn[c] = "accepted" /\ conn[d] = "accepted" => c = d

ServerInv == TypeOK /\ Held /\ Ending /\ NoNewThreads

-----------------------------------------------------------------------------
LEMMA InitInv == Init => ServerInv
BY ServerAssumption
   DEF Init, ServerInv, TypeOK, Held, Ending, NoNewThreads, Effective, Alive,
       Joiner, ConnState, ListenState, StopState, JoinState

LEMMA TypeStep == TypeOK /\ [Next]_vars => TypeOK'
<1> SUFFICES ASSUME TypeOK, [Next]_vars PROVE TypeOK'
    OBVIOUS
<1> USE DEF TypeOK, Joiner, Goto, Turn, innerVars, bridgeVars
<1>1. CASE Bind
    BY <1>1 DEF Bind, ListenState, JoinState
<1>2. CASE Listening
    BY <1>2 DEF Listening, StartInternalServer, Listen, Loop, AcceptFails, StartThread,
                ListenState, JoinState, ConnState
<1>3. CASE InternalServerEnds
    BY <1>3 DEF InternalServerEnds
<1>4. ASSUME NEW p \in Caller, CallStop(p) \/ Stopping(p) PROVE TypeOK'
    BY <1>4 DEF CallStop, Stopping, TellInternalServer, CloseAcceptor, CopyBridges,
                CloseBridge, StopState, JoinState
<1>5. ASSUME NEW p \in Joiner, Joining(p) PROVE TypeOK'
    BY <1>5 DEF Joining, SwapThreads, JoinThreads, StopInternalServer,
                JoinInternalThread, JoinThrows, JoinState
<1>6. ASSUME NEW c \in Conn, Accept(c) \/ Read(c) \/ PeerLeaves(c) \/ Serving(c)
      PROVE  TypeOK'
    BY <1>6 DEF Accept, Read, PeerLeaves, Serving, ProxyHttpRequest, Attach, Register,
                BridgeEnds, EraseBridge, ConnStep, ConnState
<1>7. CASE UNCHANGED vars
    BY <1>7 DEF vars
<1> QED
    BY <1>1, <1>2, <1>3, <1>4, <1>5, <1>6, <1>7 DEF Next

\* The lists of threads change when a thread is started, taken or joined; a
\* thread leaves "none" before and "done" ends it.
LEMMA HeldStep == TypeOK /\ Held /\ NoNewThreads /\ [Next]_vars => Held'
<1> SUFFICES ASSUME TypeOK, Held, NoNewThreads, [Next]_vars PROVE Held'
    OBVIOUS
<1> USE DEF TypeOK, Joiner, Goto, Turn, innerVars, bridgeVars, Alive
<1>1. CASE UNCHANGED <<threads, taken, conn>> /\ \A p \in Joiner : pc[p] = "join" => pc'[p] = "join"
    BY <1>1 DEF Held
<1>2. CASE Bind \/ StartInternalServer \/ Listen \/ Loop \/ AcceptFails \/ InternalServerEnds
    BY <1>1, <1>2 DEF Bind, StartInternalServer, Listen, Loop, AcceptFails, InternalServerEnds
<1>3. ASSUME NEW c \in Conn, StartThread(c) PROVE Held'
    BY <1>3 DEF StartThread, Held
<1>4. ASSUME NEW p \in Caller, CallStop(p) \/ Stopping(p) PROVE Held'
    BY <1>1, <1>4 DEF CallStop, Stopping, TellInternalServer, CloseAcceptor, CopyBridges,
                CloseBridge
<1>5. ASSUME NEW p \in Joiner, SwapThreads(p) PROVE Held'
    BY <1>5 DEF SwapThreads, Held
<1>6. ASSUME NEW p \in Joiner, JoinThreads(p) PROVE Held'
    BY <1>6 DEF JoinThreads, Held
<1>7. ASSUME NEW p \in Joiner,
             StopInternalServer(p) \/ JoinInternalThread(p) \/ JoinThrows(p)
      PROVE  Held'
    BY <1>1, <1>7 DEF StopInternalServer, JoinInternalThread, JoinThrows
<1>8. ASSUME NEW c \in Conn, Accept(c) PROVE Held'
    BY <1>8 DEF Accept, Held
<1>9. ASSUME NEW c \in Conn, Read(c) \/ PeerLeaves(c) \/ Serving(c) PROVE Held'
  <2>1. /\ UNCHANGED <<threads, taken, pc>>
        /\ \A d \in Conn : /\ Alive(d)' => Alive(d)
                           /\ conn'[d] \in {"none", "accepted"} => conn'[d] = conn[d]
      BY <1>9 DEF Read, PeerLeaves, Serving, ProxyHttpRequest, Attach, Register,
                  BridgeEnds, EraseBridge, ConnStep
  <2> QED
      BY <2>1 DEF Held
<1>10. CASE UNCHANGED vars
    BY <1>1, <1>10 DEF vars
<1> QED
    BY <1>2, <1>3, <1>4, <1>5, <1>6, <1>7, <1>8, <1>9, <1>10 DEF Next, Listening, Joining

\* stop() has an effect after Listen and before the next stop() only.
LEMMA EndingStep == TypeOK /\ Ending /\ [Next]_vars => Ending'
<1> SUFFICES ASSUME TypeOK, Ending, [Next]_vars PROVE Ending'
    OBVIOUS
<1> USE ServerAssumption DEF Joiner, Goto, innerVars, bridgeVars, Effective,
        ListenState, StopState, JoinState
<1>1. CASE UNCHANGED <<stopping, internal, joinable, pc>>
    BY <1>1 DEF Ending
<1>2. CASE Bind \/ StartInternalServer \/ Listen
    BY <1>2 DEF Ending, Bind, StartInternalServer, Listen, TypeOK
<1>3. CASE Loop \/ AcceptFails
    BY <1>3 DEF Ending, Loop, AcceptFails, TypeOK
<1>4. ASSUME NEW c \in Conn, StartThread(c) PROVE Ending'
    BY <1>4 DEF Ending, StartThread, TypeOK
<1>5. CASE InternalServerEnds
    BY <1>5 DEF Ending, InternalServerEnds
<1>6. ASSUME NEW p \in Caller, CallStop(p) PROVE Ending'
    BY <1>6 DEF Ending, CallStop, TypeOK
<1>7. ASSUME NEW p \in Caller, Stopping(p) PROVE Ending'
  <2>1. /\ UNCHANGED <<stopping, joinable>> /\ (internal = "ended" => internal' = "ended")
        /\ Effective(p)
        /\ \/ UNCHANGED pc
           \/ /\ pc' = [pc EXCEPT ![p] = pc'[p]]
              /\ pc'[p] \in {"acceptor", "copy", "closing", "swap"}
      BY <1>7 DEF Stopping, TellInternalServer, CloseAcceptor, CopyBridges, CloseBridge, TypeOK
  <2> QED
      BY <2>1 DEF Ending, TypeOK
<1>8. ASSUME NEW p \in Joiner, SwapThreads(p) \/ JoinThreads(p) PROVE Ending'
  <2>1. /\ UNCHANGED <<stopping, joinable, internal>>
        /\ pc[p] \in {"swap", "join"}
        /\ pc' = [pc EXCEPT ![p] = pc'[p]] /\ pc'[p] \in {"join", "last"}
      BY <1>8 DEF SwapThreads, JoinThreads, TypeOK
  <2> QED
      BY <2>1 DEF Ending, TypeOK
<1>9. ASSUME NEW p \in Joiner,
             StopInternalServer(p) \/ JoinInternalThread(p) \/ JoinThrows(p)
      PROVE  Ending'
  <2>1. /\ UNCHANGED <<stopping, internal>>
        /\ (joinable => joinable') \/ internal = "ended"
        /\ joinable' => joinable
        /\ pc[p] \in {"last", "inner"}
        /\ pc' = [pc EXCEPT ![p] = pc'[p]] /\ pc'[p] \in {"inner", "returned", "threw"}
        /\ pc'[p] = "returned" => ~ joinable'
      BY <1>9 DEF StopInternalServer, JoinInternalThread, JoinThrows, TypeOK
  <2>2. CASE p = Listener
      BY <2>1, <2>2 DEF Ending, TypeOK
  <2>3. CASE p \in Caller
      BY <2>1, <2>3 DEF Ending, TypeOK
  <2> QED
      BY <2>2, <2>3
<1>10. ASSUME NEW c \in Conn, Accept(c) \/ Read(c) \/ PeerLeaves(c) \/ Serving(c)
       PROVE  Ending'
    BY <1>1, <1>10 DEF Accept, Read, PeerLeaves, Serving, ProxyHttpRequest, Attach,
                Register, BridgeEnds, EraseBridge, ConnStep
<1>11. CASE UNCHANGED vars
    BY <1>1, <1>11 DEF vars
<1> QED
    BY <1>2, <1>3, <1>4, <1>5, <1>6, <1>7, <1>8, <1>9, <1>10, <1>11
       DEF Next, Listening, Joining

LEMMA NoNewThreadsStep == TypeOK /\ Ending /\ NoNewThreads /\ [Next]_vars => NoNewThreads'
<1> SUFFICES ASSUME TypeOK, Ending, NoNewThreads, [Next]_vars PROVE NoNewThreads'
    OBVIOUS
<1> USE ServerAssumption DEF TypeOK, Joiner, Goto, Turn, innerVars, bridgeVars, NoNewThreads
<1>1. CASE Bind \/ StartInternalServer \/ Listen \/ Loop \/ AcceptFails \/ InternalServerEnds
    BY <1>1 DEF Bind, StartInternalServer, Listen, Loop, AcceptFails, InternalServerEnds
<1>2. ASSUME NEW c \in Conn, StartThread(c) PROVE NoNewThreads'
    BY <1>2 DEF StartThread
<1>3. ASSUME NEW p \in Caller, CallStop(p) \/ Stopping(p) PROVE NoNewThreads'
    BY <1>3 DEF CallStop, Stopping, TellInternalServer, CloseAcceptor, CopyBridges, CloseBridge
<1>4. ASSUME NEW p \in Joiner, Joining(p) PROVE NoNewThreads'
    BY <1>4 DEF Joining, SwapThreads, JoinThreads, StopInternalServer,
                JoinInternalThread, JoinThrows
<1>5. ASSUME NEW c \in Conn, Accept(c) \/ Read(c) \/ PeerLeaves(c) \/ Serving(c)
      PROVE  NoNewThreads'
    BY <1>5 DEF Accept, Read, PeerLeaves, Serving, ProxyHttpRequest, Attach, Register,
                BridgeEnds, EraseBridge, ConnStep
<1>6. CASE UNCHANGED vars
    BY <1>6 DEF vars
<1> QED
    BY <1>1, <1>2, <1>3, <1>4, <1>5, <1>6 DEF Next, Listening

LEMMA Invariance == Spec => []ServerInv
<1>1. ServerInv /\ [Next]_vars => ServerInv'
    BY TypeStep, HeldStep, EndingStep, NoNewThreadsStep DEF ServerInv
<1> QED
    BY InitInv, <1>1, PTL DEF Spec

-----------------------------------------------------------------------------
\* Every variable of the server has its type; a registered bridge belongs to a
\* connection thread that is still there to erase it.
THEOREM TypeCorrect == Spec => []TypeOK
<1>1. ServerInv => TypeOK
    BY DEF ServerInv
<1> QED
    BY Invariance, <1>1, PTL

LEMMA HeldByOne == TypeOK /\ Held => OneJoiner
<1> SUFFICES ASSUME TypeOK, Held, NEW c \in Conn, Alive(c)
             PROVE  Cardinality({p \in Joiner : c \in taken[p]})
                        + (IF c \in threads THEN 1 ELSE 0) = 1
    BY DEF OneJoiner
<1> DEFINE Takers == {p \in Joiner : c \in taken[p]}
<1>1. CASE c \in threads
  <2>1. Takers = {}
      BY <1>1 DEF Held
  <2> QED
      BY <1>1, <2>1, FS_EmptySet
<1>2. CASE c \notin threads
  <2>1. PICK p \in Joiner : c \in taken[p]
      BY <1>2 DEF Held
  <2>2. Takers = {p}
      BY <2>1 DEF Held
  <2> QED
      BY <1>2, <2>2, FS_Singleton
<1> QED
    BY <1>1, <1>2

\* A connection thread that runs is in the vector or in the hands of one
\* joiner, and one only, however the listener's swap and those of the callers
\* of stop() fall (join_connection_threads).
THEOREM EveryThreadHasOneJoiner == Spec => []OneJoiner
<1>1. ServerInv => OneJoiner
    BY HeldByOne DEF ServerInv
<1> QED
    BY Invariance, <1>1, PTL

\* When the listener and the stop() that had an effect have returned, no
\* connection thread, no bridge and no internal server is left (stop).
THEOREM NothingIsLeftBehind == Spec => []NothingLeftBehind
<1>1. ASSUME ServerInv PROVE NothingLeftBehind
  <2> SUFFICES ASSUME pc[Listener] = "returned",
                      NEW s \in Caller, pc[s] = "returned"
               PROVE  /\ \A c \in Conn : ~ Alive(c) /\ conn[c] # "accepted"
                      /\ bridges = {}
                      /\ internal = "ended" /\ ~ joinable
      BY DEF NothingLeftBehind
  <2>1. \A p \in Joiner : taken[p] = {}
      BY <1>1 DEF ServerInv, Held, Ending, Effective, Joiner
  <2>2. \A c \in Conn : ~ Alive(c) /\ conn[c] # "accepted"
      BY <1>1, <2>1 DEF ServerInv, Held, NoNewThreads
  <2>3. bridges = {}
      BY <1>1, <2>2 DEF ServerInv, TypeOK, Alive
  <2> QED
      BY <1>1, <2>2, <2>3 DEF ServerInv, Ending, Effective
<1> QED
    BY Invariance, <1>1, PTL
=============================================================================
