---------------------------- MODULE WalletLedger ----------------------------
(***************************************************************************)
(* POST /wallets/:id/adjust (api/wallet.go) and the transaction behind it  *)
(* (AdjustWalletTx and execTx, db/sqlc), on a PostgreSQL that runs at READ *)
(* COMMITTED, the level BeginTx(ctx, nil) asks for.                        *)
(*                                                                         *)
(* Each statement of the transaction is a step.  The conditional UPDATE is *)
(* two: PostgreSQL first looks for the row in the statement's snapshot,    *)
(* where a row that fails the WHERE clause is skipped without waiting for  *)
(* anyone, and then waits for the row's lock and evaluates the clause      *)
(* again on the row it finds.  A request's deadline may pass at any time;  *)
(* from then on the goroutine that database/sql keeps for a transaction    *)
(* (awaitDone) rolls it back, in a race with the handler.                  *)
(*                                                                         *)
(* Not modelled: the note and the operator of an entry.                    *)
(***************************************************************************)
EXTENDS Integers, FiniteSets, FiniteSetsExt

CONSTANTS
    Requests,        \* POST /wallets/:id/adjust requests; each is sent once
    WalletIDs,       \* wallet ids the requests may name
    InitialWallets,  \* wallets that exist from the start, with balance 0
    Amounts,         \* amounts the requests may carry, 0 (invalid) included
    MaxInt64,        \* the largest bigint
    MaxOpenConns,    \* DB_MAX_OPEN_CONNS: size of the connection pool
    Deadlines,       \* whether a request's deadline may pass
    Faults           \* whether database calls may fail for other reasons

ASSUME RequestsAssumption == IsFiniteSet(Requests)
ASSUME WalletsAssumption  == InitialWallets \subseteq WalletIDs
ASSUME AmountsAssumption  == Amounts \subseteq Int
ASSUME RangeAssumption    == MaxInt64 \in Nat
ASSUME PoolAssumption     == MaxOpenConns \in Nat \ {0}
ASSUME SwitchAssumption   == Deadlines \in BOOLEAN /\ Faults \in BOOLEAN

VARIABLES
    wallets,  \* committed rows of table wallets (their ids)
    balance,  \* committed column balance; 0 for an id that has no row
    entries,  \* committed rows of table wallet_entries
    arg,      \* the wallet and the amount each request carries
    pc,       \* next call of each request, or its answer
    err,      \* the error the transaction's function returned
    pending,  \* the balance a transaction's uncommitted UPDATE wrote
    open,     \* requests whose transaction is open (and holds a connection)
    rowLock,  \* those of them that hold the lock of their wallet's row
    expired   \* requests whose deadline has passed

tables == <<wallets, balance, entries>>
vars == <<wallets, balance, entries, arg, pc, err, pending, open, rowLock,
          expired>>

Steps == {"bind", "begin", "update", "lock", "probe", "entry", "commit",
          "rollback"}

(* Answers by HTTP status; "30001" is 400 with ErrInsufficientBalance. *)
Answers == {"200", "400", "30001", "404", "500", "504"}

(* nil, sql.ErrNoRows, ErrInsufficientBalance, context.DeadlineExceeded and
   everything else. *)
Errors == {"nil", "noRows", "insufficient", "deadline", "other"}

Wallet(r) == arg[r].wallet
Amount(r) == arg[r].amount

Goto(r, label) == pc' = [pc EXCEPT ![r] = label]

(* The function given to execTx returned e. *)
Return(r, e) ==
    /\ err' = [err EXCEPT ![r] = e]
    /\ Goto(r, "rollback")

(* How adjustWallet and failInternal answer an error. *)
StatusOf == [nil |-> "200", noRows |-> "404", insufficient |-> "30001",
             deadline |-> "504", other |-> "500"]

(* The transaction of r is over; PostgreSQL drops its locks. *)
EndTx(r) ==
    /\ open' = open \ {r}
    /\ rowLock' = rowLock \ {r}

(* A statement of r can succeed. *)
Usable(r) == r \in open /\ r \notin expired

Init ==
    /\ wallets = InitialWallets
    /\ balance = [w \in WalletIDs |-> 0]
    /\ entries = {}
    /\ arg \in [Requests -> [wallet : WalletIDs, amount : Amounts]]
    /\ pc = [r \in Requests |-> "bind"]
    /\ err = [r \in Requests |-> "nil"]
    /\ pending = [r \in Requests |-> 0]
    /\ open = {}
    /\ rowLock = {}
    /\ expired = {}

-----------------------------------------------------------------------------
(* The handler up to the transaction.                                      *)

(* ShouldBindJSON: "required" also refuses the amount 0. *)
Bind(r) ==
    /\ pc[r] = "bind"
    /\ Goto(r, IF Amount(r) = 0 THEN "400" ELSE "begin")
    /\ UNCHANGED <<tables, arg, err, pending, open, rowLock, expired>>

(* BeginTx, once the pool has a connection. *)
BeginTx(r) ==
    /\ pc[r] = "begin"
    /\ r \notin expired
    /\ Cardinality(open) < MaxOpenConns
    /\ open' = open \cup {r}
    /\ Goto(r, "update")
    /\ UNCHANGED <<tables, arg, err, pending, rowLock, expired>>

(* BeginTx returns an error, which execTx hands on as it is. *)
BeginFails(r) ==
    /\ pc[r] = "begin"
    /\ \/ r \in expired /\ err' = [err EXCEPT ![r] = "deadline"]
       \/ Faults /\ err' = [err EXCEPT ![r] = "other"]
    /\ Goto(r, StatusOf[err'[r]])
    /\ UNCHANGED <<tables, arg, pending, open, rowLock, expired>>

-----------------------------------------------------------------------------
(* The statements of AdjustWalletTx.                                       *)

(* AdjustWalletBalance, first half: the WHERE clause on the snapshot. *)
UpdateScan(r) ==
    /\ pc[r] = "update"
    /\ Usable(r)
    /\ LET sum == balance[Wallet(r)] + Amount(r) IN
       \/ /\ Wallet(r) \notin wallets \/ sum < 0
          /\ Goto(r, "probe")
          /\ UNCHANGED err
       \/ /\ Wallet(r) \in wallets
          /\ sum > MaxInt64                 \* bigint out of range
          /\ Return(r, "other")
       \/ /\ Wallet(r) \in wallets
          /\ sum \in 0..MaxInt64
          /\ Goto(r, "lock")
          /\ UNCHANGED err
    /\ UNCHANGED <<tables, arg, pending, open, rowLock, expired>>

RowFree(r) == \A q \in rowLock : Wallet(q) # Wallet(r)

(* Fault variant: the row is updated without waiting for its lock. *)
UpdateRowUnlocked(r) ==
    /\ pc[r] = "lock"
    /\ Usable(r)
    /\ rowLock' = rowLock \cup {r}
    /\ pending' = [pending EXCEPT ![r] = balance[Wallet(r)] + Amount(r)]
    /\ Goto(r, IF pending'[r] \in 0..MaxInt64 THEN "entry" ELSE "probe")
    /\ UNCHANGED <<tables, arg, err, open, expired>>

(* Fault variant: the WHERE clause is not evaluated on the locked row. *)
UpdateRowUnchecked(r) ==
    /\ pc[r] = "lock"
    /\ Usable(r)
    /\ RowFree(r)
    /\ rowLock' = rowLock \cup {r}
    /\ pending' = [pending EXCEPT ![r] = balance[Wallet(r)] + Amount(r)]
    /\ Goto(r, "entry")
    /\ UNCHANGED <<tables, arg, err, open, expired>>

(* AdjustWalletBalance, second half: the row is locked, whatever comes of
   it, and the clause is evaluated on its committed version. *)
UpdateRow(r) ==
    /\ pc[r] = "lock"
    /\ Usable(r)
    /\ RowFree(r)
    /\ rowLock' = rowLock \cup {r}
    /\ LET sum == balance[Wallet(r)] + Amount(r) IN
       \/ /\ sum < 0
          /\ Goto(r, "probe")
          /\ UNCHANGED <<err, pending>>
       \/ /\ sum > MaxInt64
          /\ Return(r, "other")
          /\ UNCHANGED pending
       \/ /\ sum \in 0..MaxInt64
          /\ pending' = [pending EXCEPT ![r] = sum]
          /\ Goto(r, "entry")
          /\ UNCHANGED err
    /\ UNCHANGED <<tables, arg, open, expired>>

(* Fault variant: the probe takes a connection of its own from the pool. *)
ProbeThroughPool(r) ==
    /\ pc[r] = "probe"
    /\ Usable(r)
    /\ Cardinality(open) < MaxOpenConns
    /\ Return(r, IF Wallet(r) \in wallets THEN "insufficient" ELSE "noRows")
    /\ UNCHANGED <<tables, arg, pending, open, rowLock, expired>>

(* The UPDATE found no row: GetWallet, a statement with a snapshot of its
   own, tells an insufficient balance from a wallet that does not exist. *)
ProbeWallet(r) ==
    /\ pc[r] = "probe"
    /\ Usable(r)
    /\ Return(r, IF Wallet(r) \in wallets THEN "insufficient" ELSE "noRows")
    /\ UNCHANGED <<tables, arg, pending, open, rowLock, expired>>

(* GetWallet fails: the function still returns the UPDATE's ErrNoRows. *)
ProbeFails(r) ==
    /\ pc[r] = "probe"
    /\ Faults \/ r \in expired
    /\ Return(r, "noRows")
    /\ UNCHANGED <<tables, arg, pending, open, rowLock, expired>>

(* CreateWalletEntry; the row stays invisible to others until the commit. *)
CreateWalletEntry(r) ==
    /\ pc[r] = "entry"
    /\ Usable(r)
    /\ Goto(r, "commit")
    /\ UNCHANGED <<tables, arg, err, pending, open, rowLock, expired>>

(* The UPDATE or the INSERT fails.  After the deadline the error is the
   context's when database/sql noticed first, and the server's when the
   running statement was cancelled. *)
StatementFails(r) ==
    /\ pc[r] \in {"update", "lock", "entry"}
    /\ \/ r \in expired /\ Return(r, "deadline")
       \/ (Faults \/ r \in expired) /\ Return(r, "other")
    /\ UNCHANGED <<tables, arg, pending, open, rowLock, expired>>

-----------------------------------------------------------------------------
(* The end of execTx.                                                      *)

(* What a commit makes visible: the new balance and the entry. *)
Publish(r) ==
    /\ balance' = [balance EXCEPT ![Wallet(r)] = pending[r]]
    /\ entries' = entries \cup
         {[req |-> r, wallet |-> Wallet(r), amount |-> Amount(r)]}
    /\ UNCHANGED wallets

(* Fault variant: the commit does not include the ledger entry. *)
CommitBalanceOnly(r) ==
    /\ pc[r] = "commit"
    /\ Usable(r)
    /\ balance' = [balance EXCEPT ![Wallet(r)] = pending[r]]
    /\ EndTx(r)
    /\ Goto(r, "200")
    /\ UNCHANGED <<wallets, entries, arg, err, pending, expired>>

(* Fault variant: the lock is kept after the commit. *)
CommitKeepsLock(r) ==
    /\ pc[r] = "commit"
    /\ Usable(r)
    /\ Publish(r)
    /\ open' = open \ {r}
    /\ Goto(r, "200")
    /\ UNCHANGED <<arg, err, pending, rowLock, expired>>

Commit(r) ==
    /\ pc[r] = "commit"
    /\ Usable(r)
    /\ Publish(r)
    /\ EndTx(r)
    /\ Goto(r, "200")
    /\ UNCHANGED <<arg, err, pending, expired>>

(* COMMIT returns an error: the transaction was aborted, or it was committed
   and the answer was lost. *)
CommitFails(r) ==
    /\ Faults
    /\ pc[r] = "commit"
    /\ Usable(r)
    /\ UNCHANGED tables \/ Publish(r)
    /\ EndTx(r)
    /\ err' = [err EXCEPT ![r] = "other"]
    /\ Goto(r, "500")
    /\ UNCHANGED <<arg, pending, expired>>

(* Fault variant: COMMIT is sent although the deadline has passed. *)
CommitLate(r) ==
    /\ pc[r] = "commit"
    /\ r \in expired
    /\ Publish(r)
    /\ err' = [err EXCEPT ![r] = IF r \in open THEN "deadline" ELSE "other"]
    /\ Goto(r, StatusOf[err'[r]])
    /\ UNCHANGED <<arg, pending, open, rowLock, expired>>

(* tx.Commit after the deadline sends nothing and leaves the rollback to
   awaitDone: it returns the context's error, or ErrTxDone when awaitDone
   was first. *)
CommitTooLate(r) ==
    /\ pc[r] = "commit"
    /\ r \in expired
    /\ err' = [err EXCEPT ![r] = IF r \in open THEN "deadline" ELSE "other"]
    /\ Goto(r, StatusOf[err'[r]])
    /\ UNCHANGED <<tables, arg, pending, open, rowLock, expired>>

(* tx.Rollback succeeds: execTx returns the function's error as it is. *)
Rollback(r) ==
    /\ pc[r] = "rollback"
    /\ r \in open
    /\ EndTx(r)
    /\ Goto(r, StatusOf[err[r]])
    /\ UNCHANGED <<tables, arg, err, pending, expired>>

(* tx.Rollback fails: the connection broke or was marked bad when a running
   statement was cancelled (the server aborts the transaction), or awaitDone
   was first (ErrTxDone).  execTx formats both errors with %v, so nothing
   the handler tests for is left. *)
RollbackFails(r) ==
    /\ pc[r] = "rollback"
    /\ Faults \/ r \in expired
    /\ EndTx(r)
    /\ Goto(r, "500")
    /\ UNCHANGED <<tables, arg, err, pending, expired>>

-----------------------------------------------------------------------------
(* What happens around the handler.                                        *)

(* The deadline set by timeoutMiddleware passes while r is being served. *)
Deadline(r) ==
    /\ Deadlines
    /\ pc[r] \in Steps \ {"bind"}
    /\ r \notin expired
    /\ expired' = expired \cup {r}
    /\ UNCHANGED <<tables, arg, pc, err, pending, open, rowLock>>

(* Fault variant: the transaction was begun without the request's context. *)
AwaitDoneNever(r) ==
    /\ FALSE
    /\ UNCHANGED vars

(* database/sql rolls the transaction back once its context is done. *)
AwaitDone(r) ==
    /\ r \in expired \cap open
    /\ EndTx(r)
    /\ UNCHANGED <<tables, arg, pc, err, pending, expired>>

(* CreateUserTx commits: a wallet with balance 0 appears. *)
CreateWallet(w) ==
    /\ w \notin wallets
    /\ wallets' = wallets \cup {w}
    /\ UNCHANGED <<balance, entries, arg, pc, err, pending, open, rowLock,
                   expired>>

Serve(r) ==
    \/ Bind(r) \/ BeginTx(r) \/ BeginFails(r)
    \/ UpdateScan(r) \/ UpdateRow(r) \/ ProbeWallet(r) \/ ProbeFails(r)
    \/ CreateWalletEntry(r) \/ StatementFails(r)
    \/ Commit(r) \/ CommitFails(r) \/ CommitTooLate(r)
    \/ Rollback(r) \/ RollbackFails(r)

(* Every request may have been answered: nothing more has to happen. *)
Finished ==
    /\ \A r \in Requests : pc[r] \in Answers
    /\ open = {}
    /\ UNCHANGED vars

Next ==
    \/ \E r \in Requests : Serve(r) \/ Deadline(r) \/ AwaitDone(r)
    \/ \E w \in WalletIDs : CreateWallet(w)
    \/ Finished

(* The handler's goroutine runs and database calls return; so does the
   goroutine behind awaitDone.  Deadlines and new wallets are not owed. *)
Fairness == \A r \in Requests : WF_vars(Serve(r)) /\ WF_vars(AwaitDone(r))

Spec == Init /\ [][Next]_vars /\ Fairness

-----------------------------------------------------------------------------

(* Types; locks belong to open transactions, and these fit in the pool. *)
TypeOK ==
    /\ wallets \subseteq WalletIDs
    /\ balance \in [WalletIDs -> Int]
    /\ entries \subseteq
         [req : Requests, wallet : WalletIDs, amount : Amounts]
    /\ arg \in [Requests -> [wallet : WalletIDs, amount : Amounts]]
    /\ pc \in [Requests -> Steps \cup Answers]
    /\ err \in [Requests -> Errors]
    /\ pending \in [Requests -> Int]
    /\ open \subseteq Requests
    /\ rowLock \subseteq open
    /\ expired \subseteq Requests

(* No interleaving of conditional UPDATEs, failures and rollbacks overdraws
   a wallet or takes its balance out of the column's range. *)
NeverNegative == \A w \in WalletIDs : balance[w] \in 0..MaxInt64

(* The balance of every wallet is the sum of its ledger entries: money never
   moves without an entry, nor an entry without money, and no concurrent
   update of the same row is lost. *)
LedgerMatchesBalance ==
    \A w \in WalletIDs :
        balance[w] = MapThenSumSet(LAMBDA e : e.amount,
                                   {e \in entries : e.wallet = w})

Posted(r) == \E e \in entries : e.req = r

(* What a client may conclude from the answer of adjustWallet: 200 means the
   adjustment is in the ledger; an insufficient balance, a missing wallet,
   an invalid amount and even a timeout (504) mean it is not and never will
   be.  Only 500 leaves it open. *)
AnswerMatchesLedger ==
    \A r \in Requests :
        /\ pc[r] = "200" => Posted(r)
        /\ pc[r] \in {"400", "30001", "404", "504"} => ~Posted(r)

(* The transaction implements the ledger: seen through the committed rows,
   every step of every request is one complete posting or nothing. *)
LedgerInstance == INSTANCE Ledger
ImplementsLedger == LedgerInstance!Spec

(* Every request is answered without the help of its deadline, also when
   the pool has fewer connections than there are requests and all of them
   want the same row. *)
EveryRequestAnswered ==
    \A r \in Requests : pc[r] = "begin" ~> pc[r] \in Answers

(* No transaction outlives its request for good: its connection goes back to
   the pool and its row lock is dropped, also when Commit gave up because
   the deadline had passed. *)
TransactionsEnd == \A r \in Requests : r \in open ~> r \notin open

=============================================================================
