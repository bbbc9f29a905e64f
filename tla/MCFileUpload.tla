---------------------------- MODULE MCFileUpload ----------------------------
(***************************************************************************)
(* FileUpload for TLC.                                                     *)
(***************************************************************************)
EXTENDS FileUpload, TLC

CONSTANTS h1, h2

MCHandlers == {h1, h2}

MCSymmetry == Permutations(MCHandlers)
=============================================================================
