------------------------ MODULE MCGr4RuntimeManager -------------------------
(* Instances of Gr4RuntimeManager for TLC.                                  *)
EXTENDS Gr4RuntimeManager, TLC

CONSTANTS i1, i2, t1, t2, t3, r1, r2, r3, r4, p1, p2, p3, http, ws

\* Session i1 exports both streams, any other only the HTTP one.
Streams == [i \in Id |-> IF i = i1 THEN {http, ws} ELSE {http}]

Symmetry ==
    Permutations(Thread) \cup Permutations(Res) \cup Permutations(Port)

MostFaults == Fault \ {"foreign_load"}
StopFault  == {"stop"}
AllCalls   == RtOp
=============================================================================
