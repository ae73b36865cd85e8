--------------------------- MODULE MCControlPlane ---------------------------
(* Instances of ControlPlane for TLC.                                       *)
EXTENDS ControlPlane, TLC

CONSTANTS i1, t1, t2, r1, r2, p1, p2, http, ws

Streams == [i \in Id |-> {http, ws}]
OneStream == [i \in Id |-> {http}]

\* Written out: a definition that stands for a constant does not refer to the
\* instances the constant is passed to.
Lifecycle  == {"create", "start", "stop", "restart", "remove"}
Everything == Lifecycle \cup {"get", "list", "plan", "fetch", "route"}

\* t1 changes the session, t2 is asked for everything.
ServesPair  == [t \in Thread |-> IF t = t1 THEN Lifecycle ELSE Everything]
HandlesPair == [t \in Thread |-> IF t = t1 THEN {} ELSE Handler]

\* Whatever fails without losing a port.
NoFaults     == {}
NoPortFaults == {"contract", "load", "start", "stop", "settings", "foreign_stop"}
=============================================================================
