---------------------------- MODULE MCThreadPool ----------------------------
(***************************************************************************)
(* ThreadPool for TLC.  A worker is full at two connections instead of 64  *)
(* and low load lasts two passes instead of 30.  NoLoop and MainLoop are   *)
(* model values.                                                           *)
(***************************************************************************)
EXTENDS ThreadPool
=============================================================================
