-------------------------- MODULE MCLoginThrottle --------------------------
(* Small instances of LoginThrottle for TLC. *)
EXTENDS LoginThrottle
=============================================================================
