----------------------------- MODULE MCListings -----------------------------
(* A small instance of Listings for TLC. *)
EXTENDS Listings

(* One role without any permission. *)
MCRoleCodes == [r \in Roles |-> IF r = "admin" THEN {"*"} ELSE {}]

=============================================================================
