---------------------------- MODULE MCHttpServer -----------------------------
(* Instances of HttpServer for TLC.                                         *)
EXTENDS HttpServer, TLC

CONSTANTS c1, c2, s1, s2, main
=============================================================================
