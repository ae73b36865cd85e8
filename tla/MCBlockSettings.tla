--------------------------- MODULE MCBlockSettings --------------------------
(* Instances of BlockSettings for TLC.                                      *)
EXTENDS BlockSettings, TLC

CONSTANTS t1, t2, q1, q2

OneBlock == << [name |-> "gain", uniqueName |-> "multiply#1", label |-> "left"] >>
=============================================================================
