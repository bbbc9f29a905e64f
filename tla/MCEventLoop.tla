---------------------------- MODULE MCEventLoop ----------------------------
(***************************************************************************)
(* EventLoop for TLC.  The socket pair holds two messages and one read     *)
(* takes a message and a half, so that both a full pipe and a partly read  *)
(* message occur.                                                          *)
(***************************************************************************)
EXTENDS EventLoop

CONSTANTS p1, p2, n1, n2, c1, c2

MCPosters == {p1, p2}
MCNodes == {n1, n2}
MCClosures == {c1, c2}
=============================================================================
