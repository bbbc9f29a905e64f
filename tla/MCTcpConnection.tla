-------------------------- MODULE MCTcpConnection --------------------------
(***************************************************************************)
(* TcpConnection for TLC: clients with up to four requests, with and       *)
(* without files (an empty one among them), that keep, close or break the  *)
(* connection.                                                             *)
(***************************************************************************)
EXTENDS TcpConnection

R(k, s) == [kind |-> k, size |-> s]

MCScripts == { <<R("keep", NoFile), R("keep", 2), R("keep", NoFile), R("keep", NoFile)>>,
               <<R("keep", 2), R("keep", 1), R("close", 0)>>,
               <<R("keep", 0), R("bad", NoFile), R("keep", NoFile)>>,
               <<R("close", 2), R("keep", NoFile)>> }
=============================================================================
