----------------------------- MODULE MCTermInput -----------------------------
(***************************************************************************)
(* TermInput for TLC: the terminals and the keys are interchangeable.       *)
(***************************************************************************)
EXTENDS TermInput, TLC

Symmetry == Permutations(Terms) \cup Permutations(Keys)
=============================================================================
