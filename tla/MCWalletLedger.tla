-------------------------- MODULE MCWalletLedger ---------------------------
(* Small instances of WalletLedger for TLC. *)
EXTENDS WalletLedger, TLC

(* Amounts, which a cfg cannot write: an invalid one, a debit and a credit.
   With MaxInt64 = 1 a second credit of the same wallet overflows. *)
MCAmounts == {-1, 0, 1}

(* Requests are alike; used by the runs that check no liveness. *)
RequestSymmetry == Permutations(Requests)

=============================================================================
