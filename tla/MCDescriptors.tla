---------------------------- MODULE MCDescriptors ----------------------------
(***************************************************************************)
(* Descriptors for TLC.                                                    *)
(***************************************************************************)
EXTENDS Descriptors, TLC

CONSTANTS c1, c2, c3, l1, l2

MCConnections == {c1, c2, c3}
MCLoops == {l1, l2}

MCSymmetry == Permutations(MCConnections) \cup Permutations(MCLoops)
=============================================================================
