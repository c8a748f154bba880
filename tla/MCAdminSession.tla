--------------------------- MODULE MCAdminSession ---------------------------
(* Small instances of AdminSession for TLC. *)
EXTENDS AdminSession, TLC

(* Requests are alike. *)
RequestSymmetry == Permutations(Requests)

=============================================================================
