----------------------------- MODULE MCMessage -----------------------------
(* Message for TLC: the handles of an application are interchangeable. *)
EXTENDS Message, TLC

HandleSymmetry == Permutations(Handles)
=============================================================================
