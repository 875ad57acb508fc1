----------------------------- MODULE MCQqToken -----------------------------
(***************************************************************************)
(* QqToken for TLC: two senders, a second of the model standing for thirty *)
(* of the code (a margin of 2, a shortest life of 4), and a platform that  *)
(* also answers with a life far below that.                                *)
(***************************************************************************)
EXTENDS QqToken, TLC

Symmetry == Permutations(Senders)
=============================================================================
