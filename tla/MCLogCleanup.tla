---------------------------- MODULE MCLogCleanup ----------------------------
(* Small instances of LogCleanup for TLC. *)
EXTENDS LogCleanup

(* A year of four days.  One month back from the third day of the second month
   runs over the single day of the first. *)
MCMonthStarts == <<0, 1, 4>>

=============================================================================
