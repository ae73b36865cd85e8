-------------------------- MODULE MCSessionService --------------------------
(* Instances of SessionService for TLC.                                     *)
EXTENDS SessionService, TLC

CONSTANTS i1, i2, t1, t2, t3

\* t1 and t2 are asked for everything, t3 for the changes of a session.
ServesMixed == [t \in Thread |-> IF t = t3 THEN {"start", "remove"} ELSE Op]
=============================================================================
