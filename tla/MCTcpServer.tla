---------------------------- MODULE MCTcpServer ----------------------------
(***************************************************************************)
(* TcpServer for TLC.                                                      *)
(***************************************************************************)
EXTENDS TcpServer

CONSTANTS c1, c2, c3, c4, l1, l2

MCConnections == {c1, c2, c3, c4}
MCFewConnections == {c1, c2, c3}
MCLoops == {l1, l2}
=============================================================================
