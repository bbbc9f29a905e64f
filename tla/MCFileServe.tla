----------------------------- MODULE MCFileServe -----------------------------
(***************************************************************************)
(* FileServe for TLC: numbers in base three and words of eight values.     *)
(* The texts are no number, small ones, 7, the largest word, and 8 and 9.  *)
(***************************************************************************)
EXTENDS FileServe

MCTexts == {<<>>, <<Other>>, <<1, Other>>, <<0>>, <<1>>, <<2>>, <<1, 0>>,
            <<0, 0, 2>>, <<2, 1>>, <<2, 2>>, <<1, 0, 0>>}
=============================================================================
