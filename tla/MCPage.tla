------------------------------- MODULE MCPage -------------------------------
(* Page for TLC: the channels are interchangeable. *)
EXTENDS Page

ChanSymmetry == Permutations(Chan)
=============================================================================
