------------------------------- MODULE Ledger -------------------------------
(***************************************************************************)
(* What the wallet tables promise, without transactions, locks, failures   *)
(* or answers: a posting changes a balance and adds its ledger entry in    *)
(* one step, at most once per request, never overdraws a wallet and never  *)
(* leaves the range of the column.                                         *)
(*                                                                         *)
(* WalletLedger, the model of the code, is shown to implement this module. *)
(***************************************************************************)
EXTENDS Integers

CONSTANTS
    Requests,        \* requests to adjust a wallet; each is sent once
    WalletIDs,       \* ids a request may name
    InitialWallets,  \* wallets that exist from the start
    Amounts,         \* amounts a request may ask for
    MaxInt64         \* the largest bigint

VARIABLES
    wallets,  \* rows of table wallets (their ids)
    balance,  \* column balance; 0 for an id that has no row
    entries   \* rows of table wallet_entries

ledgerVars == <<wallets, balance, entries>>

Init ==
    /\ wallets = InitialWallets
    /\ balance = [w \in WalletIDs |-> 0]
    /\ entries = {}

(* A new user's wallet. *)
Open(w) ==
    /\ w \notin wallets
    /\ wallets' = wallets \cup {w}
    /\ UNCHANGED <<balance, entries>>

Post(r, w, a) ==
    /\ w \in wallets
    /\ a # 0
    /\ balance[w] + a \in 0..MaxInt64
    /\ \A e \in entries : e.req # r
    /\ balance' = [balance EXCEPT ![w] = @ + a]
    /\ entries' = entries \cup {[req |-> r, wallet |-> w, amount |-> a]}
    /\ UNCHANGED wallets

Next ==
    \/ \E w \in WalletIDs : Open(w)
    \/ \E r \in Requests, w \in WalletIDs, a \in Amounts : Post(r, w, a)

Spec == Init /\ [][Next]_ledgerVars

=============================================================================
