---------------------------- MODULE MCWebSession ----------------------------
(* A small instance of WebSession for TLC. *)
EXTENDS WebSession, TLC

Symmetry == Permutations(Tabs) \cup Permutations(Users)
=============================================================================
