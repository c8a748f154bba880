------------------------- MODULE WalletLedgerProofs -------------------------
(***************************************************************************)
(* Proofs about WalletLedger for any number of requests, wallets and       *)
(* connections, any amounts and any range of the balance column, with      *)
(* deadlines and failures.                                                 *)
(***************************************************************************)
EXTENDS WalletLedger, FiniteSetTheorems, WellFoundedInduction, TLAPS

(* Types, and locks belong to open transactions, in every reachable state of
   the wallet transactions. *)
LEMMA TypeInit == Init => TypeOK
BY WalletsAssumption DEF Init, TypeOK, Steps, Answers, Errors

(* What a request carries, and the sum its UPDATE computes. *)
LEMMA ArgTypes ==
    ASSUME TypeOK, NEW r \in Requests
    PROVE  /\ Wallet(r) \in WalletIDs /\ Amount(r) \in Amounts
           /\ Amount(r) \in Int
           /\ balance[Wallet(r)] \in Int
           /\ balance[Wallet(r)] + Amount(r) \in Int
           /\ pending[r] \in Int
<1>1. arg[r] \in [wallet : WalletIDs, amount : Amounts]
  BY DEF TypeOK
<1>2. Wallet(r) \in WalletIDs /\ Amount(r) \in Amounts
  BY <1>1 DEF Wallet, Amount
<1>3. balance[Wallet(r)] \in Int /\ Amount(r) \in Int /\ pending[r] \in Int
  BY <1>2, AmountsAssumption DEF TypeOK
<1> QED
  BY <1>2, <1>3

(* Every step of every request keeps the types. *)
LEMMA TypeStep == TypeOK /\ [Next]_vars => TypeOK'
<1> SUFFICES ASSUME TypeOK, [Next]_vars PROVE TypeOK'
  OBVIOUS
<1> USE AmountsAssumption, RangeAssumption
<1>a. StatusOf \in [Errors -> Answers]
  BY DEF StatusOf, Errors, Answers
<1>1. ASSUME NEW r \in Requests, Serve(r) PROVE TypeOK'
  <2>0. /\ Wallet(r) \in WalletIDs /\ Amount(r) \in Amounts
        /\ balance[Wallet(r)] + Amount(r) \in Int
        /\ pending[r] \in Int
    BY ArgTypes
  <2>1. CASE Bind(r) \/ BeginTx(r)
    BY <2>1 DEF Bind, BeginTx, Goto, tables, TypeOK, Steps, Answers
  <2>2. CASE BeginFails(r)
    <3>1. PICK e \in {"deadline", "other"} :
            err' = [err EXCEPT ![r] = e] /\ Goto(r, StatusOf[e])
      BY <2>2 DEF BeginFails, TypeOK
    <3>2. e \in Errors /\ StatusOf[e] \in Answers
      BY <1>a DEF Errors
    <3> QED
      BY <2>2, <3>1, <3>2 DEF BeginFails, Goto, tables, TypeOK
  <2>3. CASE UpdateScan(r)
    BY <2>0, <2>3 DEF UpdateScan, Return, Goto, tables, TypeOK, Steps, Errors
  <2>4. CASE UpdateRow(r)
    BY <2>0, <2>4 DEF UpdateRow, Usable, Return, Goto, tables, TypeOK, Steps,
                      Errors
  <2>5. CASE ProbeWallet(r) \/ ProbeFails(r) \/ StatementFails(r)
    BY <2>5 DEF ProbeWallet, ProbeFails, StatementFails, Return, Goto, tables,
                TypeOK, Steps, Errors
  <2>6. CASE CreateWalletEntry(r)
    BY <2>6 DEF CreateWalletEntry, Goto, tables, TypeOK, Steps
  <2>7. CASE Commit(r) \/ CommitFails(r)
    <3>1. /\ wallets' = wallets
          /\ balance' \in [WalletIDs -> Int]
          /\ entries' \subseteq
               [req : Requests, wallet : WalletIDs, amount : Amounts]
      BY <2>0, <2>7 DEF Commit, CommitFails, Publish, tables, TypeOK
    <3> QED
      BY <2>7, <3>1 DEF Commit, CommitFails, EndTx, Goto, TypeOK, Answers,
                        Errors
  <2>8. CASE CommitTooLate(r)
    <3>1. PICK e \in {"deadline", "other"} :
            err' = [err EXCEPT ![r] = e] /\ Goto(r, StatusOf[e])
      BY <2>8 DEF CommitTooLate, TypeOK
    <3>2. e \in Errors /\ StatusOf[e] \in Answers
      BY <1>a DEF Errors
    <3> QED
      BY <2>8, <3>1, <3>2 DEF CommitTooLate, Goto, tables, TypeOK
  <2>9. CASE Rollback(r) \/ RollbackFails(r)
    <3>1. StatusOf[err[r]] \in Answers
      BY <1>a DEF TypeOK
    <3> QED
      BY <2>9, <3>1 DEF Rollback, RollbackFails, EndTx, Goto, tables, TypeOK,
                        Answers
  <2> QED
    BY <1>1, <2>1, <2>2, <2>3, <2>4, <2>5, <2>6, <2>7, <2>8, <2>9 DEF Serve
<1>2. ASSUME NEW r \in Requests, Deadline(r) \/ AwaitDone(r) PROVE TypeOK'
  BY <1>2 DEF Deadline, AwaitDone, EndTx, tables, TypeOK
<1>3. ASSUME NEW w \in WalletIDs, CreateWallet(w) PROVE TypeOK'
  BY <1>3 DEF CreateWallet, TypeOK
<1>4. CASE UNCHANGED vars
  BY <1>4 DEF vars, TypeOK
<1> QED
  BY <1>1, <1>2, <1>3, <1>4 DEF Next, Finished

(* The type invariant of the wallet transactions holds forever. *)
THEOREM TypeCorrect == Spec => []TypeOK
BY TypeInit, TypeStep, PTL DEF Spec

-----------------------------------------------------------------------------
(***************************************************************************)
(* The inductive invariant.  NeverNegative is not inductive: that a commit *)
(* writes a good balance depends on the UPDATE long before it, and on the  *)
(* row not having changed since.                                           *)
(***************************************************************************)

(* At most one transaction holds the lock of a row. *)
LockExclusive ==
    \A p, q \in rowLock : Wallet(p) = Wallet(q) => p = q

(* A request that got past Bind asks for something. *)
AmountChecked ==
    \A r \in Requests : pc[r] \notin {"bind", "400"} => Amount(r) # 0

(* A request that waits for the row found it. *)
RowFound == \A r \in Requests : pc[r] = "lock" => Wallet(r) \in wallets

(* After its UPDATE an open transaction holds the row, and has written the
   committed balance plus its amount. *)
Prepared ==
    \A r \in open : pc[r] \in {"entry", "commit"} =>
        /\ r \in rowLock
        /\ Wallet(r) \in wallets
        /\ pending[r] = balance[Wallet(r)] + Amount(r)
        /\ pending[r] \in 0..MaxInt64

(* Execution reaches Rollback with an error, and a request is in the ledger
   only when it was answered by a commit. *)
Recorded ==
    /\ \A r \in Requests : pc[r] = "rollback" => err[r] # "nil"
    /\ \A e \in entries : pc[e.req] \in {"200", "500"}
    /\ \A r \in Requests : pc[r] = "200" => Posted(r)

Inv ==
    /\ TypeOK
    /\ LockExclusive
    /\ AmountChecked
    /\ RowFound
    /\ Prepared
    /\ Recorded
    /\ NeverNegative

(* The invariant holds initially. *)
LEMMA InvInit == Init => Inv
<1> SUFFICES ASSUME Init PROVE Inv
  OBVIOUS
<1>1. TypeOK
  BY TypeInit
<1>2. LockExclusive /\ AmountChecked /\ RowFound /\ Prepared /\ Recorded
  BY DEF Init, LockExclusive, AmountChecked, RowFound, Prepared, Recorded
<1>3. NeverNegative
  BY RangeAssumption DEF Init, NeverNegative
<1> QED
  BY <1>1, <1>2, <1>3 DEF Inv

(* A step of request r that leaves the tables alone and neither takes a lock
   nor prepares a commit keeps the invariant. *)
LEMMA QuietStep ==
    ASSUME Inv, TypeOK', UNCHANGED <<tables, arg>>,
           NEW r \in Requests,
           pc[r] \in Steps,
           pc' = [pc EXCEPT ![r] = pc'[r]],
           pc'[r] \notin {"lock", "entry", "200"},
           pc[r] = "bind" /\ Amount(r) = 0 => pc'[r] = "400",
           pc'[r] = "commit" => pc[r] = "entry",
           pc'[r] = "rollback" => err'[r] # "nil",
           \A q \in Requests \ {r} : err'[q] = err[q],
           pending' = pending,
           open' \subseteq open \cup {r},
           r \in open' \ open => pc'[r] = "update",
           rowLock' = rowLock \cap open'
    PROVE  Inv'
<1> USE DEF Inv
<1>1. \A q \in Requests : Wallet(q)' = Wallet(q) /\ Amount(q)' = Amount(q)
  BY DEF Wallet, Amount
<1>2. \A q \in Requests \ {r} : pc'[q] = pc[q]
  BY DEF TypeOK
<1>3. LockExclusive'
  BY <1>1 DEF LockExclusive, TypeOK
<1>4. AmountChecked'
  BY <1>1, <1>2 DEF AmountChecked, Steps
<1>5. RowFound'
  BY <1>1, <1>2 DEF RowFound, tables
<1>6. Prepared'
  BY <1>1, <1>2 DEF Prepared, tables, TypeOK
<1>7. Recorded'
  <2>1. \A e \in entries : e.req \in Requests /\ e.req # r
    BY DEF Recorded, TypeOK, Steps
  <2>2. \A q \in Requests : Posted(q)' <=> Posted(q)
    BY DEF Posted, tables
  <2> QED
    BY <1>2, <2>1, <2>2 DEF Recorded, tables
<1>8. NeverNegative'
  BY DEF NeverNegative, tables
<1> QED
  BY <1>3, <1>4, <1>5, <1>6, <1>7, <1>8

(* A commit, reported or not, keeps the invariant: its transaction held the
   row, so no other prepared commit refers to the balance it replaces. *)
LEMMA PublishStep ==
    ASSUME Inv, TypeOK', UNCHANGED <<arg, pending>>,
           NEW r \in Requests,
           pc[r] = "commit", r \in open,
           Publish(r), EndTx(r),
           pc' = [pc EXCEPT ![r] = pc'[r]],
           pc'[r] \in {"200", "500"},
           \A q \in Requests \ {r} : err'[q] = err[q]
    PROVE  Inv'
<1> USE DEF Inv
<1>1. \A q \in Requests : Wallet(q)' = Wallet(q) /\ Amount(q)' = Amount(q)
  BY DEF Wallet, Amount
<1>2. \A q \in Requests \ {r} : pc'[q] = pc[q]
  BY DEF TypeOK
<1>3. \A q \in Requests : Wallet(q) \in WalletIDs
  BY ArgTypes
<1>4. /\ r \in rowLock
      /\ pending[r] \in 0..MaxInt64
  BY DEF Prepared
<1>5. \A w \in WalletIDs \ {Wallet(r)} : balance'[w] = balance[w]
  BY <1>3 DEF Publish, TypeOK
<1>6. balance'[Wallet(r)] = pending[r]
  BY <1>3 DEF Publish, TypeOK
<1>7. LockExclusive'
  BY <1>1 DEF LockExclusive, EndTx, TypeOK
<1>8. AmountChecked'
  BY <1>1, <1>2 DEF AmountChecked
<1>9. RowFound'
  BY <1>1, <1>2 DEF RowFound, Publish
<1>10. Prepared'
  <2> SUFFICES ASSUME NEW q \in open', pc'[q] \in {"entry", "commit"}
               PROVE  /\ q \in rowLock'
                      /\ Wallet(q)' \in wallets'
                      /\ pending'[q] = balance'[Wallet(q)'] + Amount(q)'
                      /\ pending'[q] \in 0..MaxInt64
    BY DEF Prepared
  <2>1. q \in open /\ q # r /\ q \in Requests
    BY DEF EndTx, TypeOK
  <2>2. /\ q \in rowLock
        /\ Wallet(q) \in wallets
        /\ pending[q] = balance[Wallet(q)] + Amount(q)
        /\ pending[q] \in 0..MaxInt64
    BY <1>2, <2>1 DEF Prepared
  <2>3. Wallet(q) # Wallet(r)
    BY <1>4, <2>1, <2>2 DEF LockExclusive
  <2>4. balance'[Wallet(q)] = balance[Wallet(q)]
    BY <1>3, <1>5, <2>1, <2>3
  <2> QED
    BY <1>1, <2>1, <2>2, <2>4 DEF EndTx, Publish
<1>11. Recorded'
  <2>1. \A e \in entries : e.req \in Requests /\ e.req # r
    BY DEF Recorded, TypeOK
  <2>2. \A q \in Requests : Posted(q) \/ q = r => Posted(q)'
    <3> DEFINE new == [req |-> r, wallet |-> Wallet(r), amount |-> Amount(r)]
    <3>1. new \in entries' /\ new.req = r
      BY DEF Publish
    <3>2. entries \subseteq entries'
      BY DEF Publish
    <3> QED
      BY <3>1, <3>2 DEF Posted
  <2>3. \A e \in entries' : e \in entries \/ e.req = r
    BY DEF Publish
  <2> QED
    BY <1>2, <2>1, <2>2, <2>3 DEF Recorded
<1>12. NeverNegative'
  BY <1>4, <1>5, <1>6 DEF NeverNegative
<1> QED
  BY <1>7, <1>8, <1>9, <1>10, <1>11, <1>12

(* Every step of the system keeps the invariant. *)
LEMMA InvStep == Inv /\ [Next]_vars => Inv'
<1> SUFFICES ASSUME Inv, [Next]_vars PROVE Inv'
  OBVIOUS
<1>t. TypeOK /\ TypeOK'
  BY TypeStep DEF Inv
<1>a. /\ StatusOf["noRows"] = "404" /\ StatusOf["insufficient"] = "30001"
      /\ StatusOf["deadline"] = "504" /\ StatusOf["other"] = "500"
  BY DEF StatusOf
<1>1. ASSUME NEW r \in Requests, Serve(r) PROVE Inv'
  <2> USE <1>t DEF Goto, Steps, Usable
  <2>1. CASE Bind(r) \/ BeginTx(r)
    BY <2>1, QuietStep DEF Bind, BeginTx, TypeOK
  <2>2. CASE BeginFails(r) \/ CommitTooLate(r)
    <3>1. PICK e \in {"deadline", "other"} :
            err' = [err EXCEPT ![r] = e] /\ pc' = [pc EXCEPT ![r] = StatusOf[e]]
      BY <2>2 DEF BeginFails, CommitTooLate, TypeOK
    <3>2. StatusOf[e] \in {"504", "500"}
      BY <1>a
    <3>3. /\ pc'[r] \in {"504", "500"}
          /\ pc' = [pc EXCEPT ![r] = pc'[r]]
          /\ \A q \in Requests \ {r} : err'[q] = err[q]
      BY <3>1, <3>2 DEF TypeOK
    <3>4. /\ pc[r] \in {"begin", "commit"}
          /\ UNCHANGED <<tables, arg, pending, open, rowLock>>
      BY <2>2 DEF BeginFails, CommitTooLate
    <3> QED
      BY <3>3, <3>4, QuietStep DEF TypeOK
  <2>3. CASE UpdateScan(r)
    <3>1. CASE pc'[r] = "lock"
      <4>1. /\ Wallet(r) \in wallets /\ pc' = [pc EXCEPT ![r] = "lock"]
            /\ UNCHANGED <<tables, arg, err, pending, open, rowLock>>
        BY <2>3, <3>1 DEF UpdateScan, Return, TypeOK
      <4>2. \A q \in Requests : Wallet(q)' = Wallet(q) /\ Amount(q)' = Amount(q)
        BY <4>1 DEF Wallet, Amount
      <4>3. LockExclusive' /\ AmountChecked' /\ RowFound' /\ Prepared'
        BY <2>3, <4>1, <4>2 DEF UpdateScan, Inv, LockExclusive, AmountChecked,
                                RowFound, Prepared, tables, TypeOK
      <4>4. \A q \in Requests : Posted(q)' <=> Posted(q)
        BY <4>1 DEF Posted, tables
      <4>5. \A e \in entries : e.req \in Requests /\ e.req # r
        BY <2>3 DEF UpdateScan, Inv, Recorded, TypeOK
      <4>6. Recorded'
        BY <4>1, <4>4, <4>5 DEF Inv, Recorded, tables, TypeOK
      <4>7. NeverNegative'
        BY <4>1 DEF Inv, NeverNegative, tables
      <4> QED
        BY <4>3, <4>6, <4>7 DEF Inv
    <3>2. CASE pc'[r] # "lock"
      BY <2>3, <3>2, QuietStep DEF UpdateScan, Return, TypeOK
    <3> QED
      BY <3>1, <3>2
  <2>4. CASE UpdateRow(r)
    <3>1. \A q \in Requests : Wallet(q)' = Wallet(q) /\ Amount(q)' = Amount(q)
      BY <2>4 DEF UpdateRow, Wallet, Amount
    <3>2. \A q \in Requests \ {r} :
            pc'[q] = pc[q] /\ err'[q] = err[q] /\ pending'[q] = pending[q]
      BY <2>4 DEF UpdateRow, Return, TypeOK
    <3>3. \/ pc'[r] = "probe"
          \/ pc'[r] = "rollback" /\ err'[r] = "other"
          \/ /\ pc'[r] = "entry"
             /\ pending'[r] = balance[Wallet(r)] + Amount(r)
             /\ pending'[r] \in 0..MaxInt64
      BY <2>4 DEF UpdateRow, Return, TypeOK
    <3>4. /\ pc[r] = "lock" /\ r \in open /\ rowLock' = rowLock \cup {r}
          /\ UNCHANGED <<tables, open>>
      BY <2>4 DEF UpdateRow
    <3>5. LockExclusive'
      BY <2>4, <3>1, <3>4 DEF UpdateRow, RowFree, Inv, LockExclusive, TypeOK
    <3>6. AmountChecked' /\ RowFound'
      BY <3>1, <3>2, <3>3, <3>4 DEF Inv, AmountChecked, RowFound, tables
    <3>7. Prepared'
      <4> SUFFICES ASSUME NEW q \in open', pc'[q] \in {"entry", "commit"}
                   PROVE  /\ q \in rowLock'
                          /\ Wallet(q)' \in wallets'
                          /\ pending'[q] = balance'[Wallet(q)'] + Amount(q)'
                          /\ pending'[q] \in 0..MaxInt64
        BY DEF Prepared
      <4>0. q \in Requests /\ q \in open
        BY <3>4 DEF TypeOK
      <4>1. CASE q = r
        BY <3>1, <3>3, <3>4, <4>0, <4>1 DEF Inv, RowFound, tables
      <4>2. CASE q # r
        BY <3>1, <3>2, <3>4, <4>0, <4>2 DEF Inv, Prepared, tables
      <4> QED
        BY <4>1, <4>2
    <3>8. Recorded'
      <4>1. \A e \in entries : e.req \in Requests /\ e.req # r
        BY <3>4 DEF Inv, Recorded, TypeOK
      <4>2. \A q \in Requests : Posted(q)' <=> Posted(q)
        BY <3>4 DEF Posted, tables
      <4> QED
        BY <3>2, <3>3, <3>4, <4>1, <4>2 DEF Inv, Recorded, tables
    <3>9. NeverNegative'
      BY <3>4 DEF Inv, NeverNegative, tables
    <3> QED
      BY <3>5, <3>6, <3>7, <3>8, <3>9 DEF Inv
  <2>5. CASE ProbeWallet(r) \/ ProbeFails(r) \/ StatementFails(r)
    <3>1. /\ \E e \in {"insufficient", "noRows", "deadline", "other"} :
                Return(r, e)
          /\ pc[r] \in {"probe", "update", "lock", "entry"}
          /\ UNCHANGED <<tables, arg, pending, open, rowLock, expired>>
      BY <2>5 DEF ProbeWallet, ProbeFails, StatementFails
    <3>2. /\ pc' = [pc EXCEPT ![r] = "rollback"] /\ pc'[r] = "rollback"
          /\ err'[r] # "nil" /\ \A q \in Requests \ {r} : err'[q] = err[q]
      BY <3>1 DEF Return, Goto, TypeOK
    <3>3. open' = open /\ rowLock' = rowLock \cap open' /\ pending' = pending
      BY <3>1 DEF TypeOK, Inv
    <3>4. pc' = [pc EXCEPT ![r] = pc'[r]] /\ pc[r] \in Steps
      BY <3>1, <3>2 DEF Steps
    <3>5. UNCHANGED <<tables, arg>> /\ pc[r] # "bind"
      BY <3>1
    <3> QED
      BY <3>2, <3>3, <3>4, <3>5, QuietStep
  <2>6. CASE CreateWalletEntry(r)
    <3>1. /\ pc' = [pc EXCEPT ![r] = "commit"] /\ pc[r] = "entry"
          /\ UNCHANGED <<tables, arg, err, pending, open, rowLock>>
      BY <2>6 DEF CreateWalletEntry, Goto
    <3>2. pc'[r] = "commit" /\ pc' = [pc EXCEPT ![r] = pc'[r]]
      BY <3>1 DEF TypeOK
    <3>3. pc[r] \in Steps /\ rowLock' = rowLock \cap open'
      BY <3>1 DEF Steps, TypeOK
    <3> QED
      BY <3>1, <3>2, <3>3, QuietStep
  <2>7. CASE Commit(r)
    BY <2>7, PublishStep DEF Commit, TypeOK
  <2>8. CASE CommitFails(r)
    <3>1. CASE Publish(r)
      BY <2>8, <3>1, PublishStep DEF CommitFails, TypeOK
    <3>2. CASE UNCHANGED tables
      BY <2>8, <3>2, QuietStep DEF CommitFails, EndTx, TypeOK
    <3> QED
      BY <2>8, <3>1, <3>2 DEF CommitFails
  <2>9. CASE Rollback(r) \/ RollbackFails(r)
    <3>1. err[r] \in {"noRows", "insufficient", "deadline", "other"}
      BY <2>9 DEF Rollback, RollbackFails, Inv, Recorded, TypeOK, Errors
    <3>2. pc'[r] \in {"404", "30001", "504", "500"}
      BY <1>a, <2>9, <3>1 DEF Rollback, RollbackFails, TypeOK
    <3> QED
      BY <2>9, <3>2, QuietStep DEF Rollback, RollbackFails, EndTx, TypeOK
  <2> QED
    BY <1>1, <2>1, <2>2, <2>3, <2>4, <2>5, <2>6, <2>7, <2>8, <2>9 DEF Serve
<1>2. ASSUME NEW r \in Requests, Deadline(r) \/ AwaitDone(r) PROVE Inv'
  <2>1. \A q \in Requests : Wallet(q)' = Wallet(q) /\ Amount(q)' = Amount(q)
    BY <1>2 DEF Deadline, AwaitDone, Wallet, Amount
  <2>2. /\ UNCHANGED <<tables, pc, err, pending>>
        /\ open' \subseteq open /\ rowLock' = rowLock \cap open'
    BY <1>2, <1>t DEF Deadline, AwaitDone, EndTx, TypeOK
  <2>3. \A q \in Requests : Posted(q)' <=> Posted(q)
    BY <2>2 DEF Posted, tables
  <2>4. LockExclusive' /\ AmountChecked' /\ RowFound' /\ Prepared'
    BY <1>t, <2>1, <2>2 DEF Inv, LockExclusive, AmountChecked, RowFound,
                            Prepared, tables, TypeOK
  <2>5. Recorded' /\ NeverNegative'
    BY <2>2, <2>3 DEF Inv, Recorded, NeverNegative, tables
  <2> QED
    BY <1>t, <2>4, <2>5 DEF Inv
<1>3. ASSUME NEW w \in WalletIDs, CreateWallet(w) PROVE Inv'
  <2>1. \A q \in Requests : /\ Wallet(q)' = Wallet(q)
                            /\ Amount(q)' = Amount(q)
                            /\ Posted(q)' <=> Posted(q)
    BY <1>3 DEF CreateWallet, Wallet, Amount, Posted
  <2> QED
    BY <1>3, <1>t, <2>1 DEF CreateWallet, Inv, LockExclusive, AmountChecked,
                    RowFound, Prepared, Recorded, NeverNegative, TypeOK
<1>4. CASE UNCHANGED vars
  <2>1. \A q \in Requests : /\ Wallet(q)' = Wallet(q)
                            /\ Amount(q)' = Amount(q)
                            /\ Posted(q)' <=> Posted(q)
    BY <1>4 DEF vars, Wallet, Amount, Posted
  <2> QED
    BY <1>4, <1>t, <2>1 DEF vars, Inv, LockExclusive, AmountChecked, RowFound,
                            Prepared, Recorded, NeverNegative, TypeOK
<1> QED
  BY <1>1, <1>2, <1>3, <1>4 DEF Next, Finished

(* The inductive invariant holds in every reachable state. *)
THEOREM InvHolds == Spec => []Inv
BY InvInit, InvStep, PTL DEF Spec

(* No concurrency, deadline or failure overdraws a wallet. *)
THEOREM NoOverdraft == Spec => []NeverNegative
<1>1. Inv => NeverNegative
  BY DEF Inv
<1> QED
  BY <1>1, InvHolds, PTL

(* The answer of adjustWallet tells whether the adjustment was posted. *)
THEOREM AnswersTrue == Spec => []AnswerMatchesLedger
<1>1. Inv => AnswerMatchesLedger
  <2> SUFFICES ASSUME Inv, NEW r \in Requests,
                      pc[r] \in {"400", "30001", "404", "504"}
               PROVE  ~Posted(r)
    BY DEF Inv, Recorded, AnswerMatchesLedger
  <2> QED
    BY DEF Inv, Recorded, Posted
<1> QED
  BY <1>1, InvHolds, PTL

-----------------------------------------------------------------------------

(* A commit is one posting of the abstract ledger. *)
LEMMA PublishPosts ==
    ASSUME Inv, NEW r \in Requests, pc[r] = "commit", r \in open, Publish(r)
    PROVE  LedgerInstance!Post(r, Wallet(r), Amount(r))
<1>1. /\ Wallet(r) \in WalletIDs
      /\ balance[Wallet(r)] \in Int
      /\ Amount(r) \in Int
  BY ArgTypes DEF Inv
<1>2. /\ Wallet(r) \in wallets
      /\ pending[r] = balance[Wallet(r)] + Amount(r)
      /\ pending[r] \in 0..MaxInt64
  BY DEF Inv, Prepared
<1>3. Amount(r) # 0
  BY DEF Inv, AmountChecked
<1>4. \A e \in entries : e.req # r
  BY DEF Inv, Recorded
<1>5. balance' = [balance EXCEPT ![Wallet(r)] = @ + Amount(r)]
  BY <1>1, <1>2 DEF Publish, Inv, TypeOK
<1> QED
  BY <1>2, <1>3, <1>4, <1>5 DEF Publish, LedgerInstance!Post

(* Every step of the code is a step of the ledger or leaves it alone. *)
LEMMA LedgerStep ==
    Inv /\ [Next]_vars => [LedgerInstance!Next]_(LedgerInstance!ledgerVars)
<1> SUFFICES ASSUME Inv, [Next]_vars
             PROVE  \/ LedgerInstance!Next
                    \/ UNCHANGED LedgerInstance!ledgerVars
  OBVIOUS
<1> USE DEF tables, LedgerInstance!ledgerVars
<1>1. ASSUME NEW r \in Requests, pc[r] = "commit", r \in open, Publish(r)
      PROVE  LedgerInstance!Next
  BY <1>1, PublishPosts, ArgTypes DEF Inv, LedgerInstance!Next
<1>2. ASSUME NEW r \in Requests, Serve(r)
      PROVE  LedgerInstance!Next \/ UNCHANGED LedgerInstance!ledgerVars
  <2>1. CASE Commit(r) \/ CommitFails(r)
    BY <1>1, <2>1 DEF Commit, CommitFails, Usable
  <2>2. CASE ~(Commit(r) \/ CommitFails(r))
    BY <1>2, <2>2 DEF Serve, Bind, BeginTx, BeginFails, UpdateScan, UpdateRow,
                      ProbeWallet, ProbeFails, CreateWalletEntry,
                      StatementFails, CommitTooLate, Rollback, RollbackFails
  <2> QED
    BY <2>1, <2>2
<1>3. ASSUME NEW r \in Requests, Deadline(r) \/ AwaitDone(r)
      PROVE  UNCHANGED LedgerInstance!ledgerVars
  BY <1>3 DEF Deadline, AwaitDone
<1>4. ASSUME NEW w \in WalletIDs, CreateWallet(w)
      PROVE  LedgerInstance!Next
  BY <1>4 DEF CreateWallet, LedgerInstance!Next, LedgerInstance!Open
<1>5. CASE UNCHANGED vars
  BY <1>5 DEF vars
<1> QED
  BY <1>2, <1>3, <1>4, <1>5 DEF Next, Finished

(* The adjust transaction implements the abstract ledger: whatever requests,
   deadlines and failures do, the committed rows change only by complete
   postings, at most one for a request. *)
THEOREM Refinement == Spec => ImplementsLedger
<1>1. Init => LedgerInstance!Init
  BY DEF Init, LedgerInstance!Init
<1> QED
  BY <1>1, InvHolds, LedgerStep, PTL
     DEF Spec, ImplementsLedger, LedgerInstance!Spec

-----------------------------------------------------------------------------
(***************************************************************************)
(* Sums over the ledger.  MapThenSumSet is a recursive function on the     *)
(* subsets of its argument that takes away a chosen element at a time.     *)
(* What it computes is proved through minimal counterexamples: inclusion   *)
(* among the subsets of a finite set is well-founded, so a set of subsets  *)
(* that is not empty has a minimal member.                                 *)
(***************************************************************************)

(* The element MapThenSumSet takes first. *)
First(s) == CHOOSE e \in s : TRUE

(* f computes the sum of every subset of U, the way MapThenSumSet does. *)
IsSum(f, U) ==
    f = [s \in SUBSET U |-> IF s = {} THEN 0
                            ELSE First(s).amount + f[s \ {First(s)}]]

(* The sum in LedgerMatchesBalance. *)
Sum(U) == MapThenSumSet(LAMBDA e : e.amount, U)

(* MapThenSumSet applies some function of that kind. *)
LEMMA Link == \A U : Sum(U) = (CHOOSE f : IsSum(f, U))[U]
BY DEF Sum, MapThenSumSet, MapThenFoldSet, IsSum, First

(* Any set of subsets of a finite set has a minimal member. *)
LEMMA SubsetMin ==
    ASSUME NEW U, IsFiniteSet(U), NEW T, T \subseteq SUBSET U, T # {}
    PROVE  \E x \in T : \A y \in T : y \subseteq x => y = x
<1>1. T \subseteq FiniteSubsetsOf(U)
  BY FS_Subset DEF FiniteSubsetsOf
<1>2. PICK x \in T : \A y \in T : <<y, x>> \notin StrictSubsetOrdering(U)
  <2>1. IsWellFoundedOn(StrictSubsetOrdering(U), FiniteSubsetsOf(U))
    BY FS_StrictSubsetOrderingWellFounded
  <2> QED
    BY <1>1, <2>1, WFMin
<1> QED
  BY <1>2 DEF StrictSubsetOrdering

(* Two functions that compute sums agree where both are defined. *)
LEMMA SumUnique ==
    ASSUME NEW U, IsFiniteSet(U), NEW V, V \subseteq U,
           NEW f, NEW g, IsSum(f, U), IsSum(g, V)
    PROVE  \A s \in SUBSET V : f[s] = g[s]
<1> DEFINE Bad == {s \in SUBSET V : f[s] # g[s]}
<1> SUFFICES ASSUME Bad # {} PROVE FALSE
  OBVIOUS
<1>1. IsFiniteSet(V)
  BY FS_Subset
<1>2. PICK s \in Bad : \A u \in Bad : u \subseteq s => u = s
  <2>1. Bad \subseteq SUBSET V
    OBVIOUS
  <2> HIDE DEF Bad
  <2> QED
    BY <1>1, <2>1, SubsetMin
<1>3. /\ f[s] = IF s = {} THEN 0 ELSE First(s).amount + f[s \ {First(s)}]
      /\ g[s] = IF s = {} THEN 0 ELSE First(s).amount + g[s \ {First(s)}]
  BY DEF IsSum
<1>4. s # {} /\ First(s) \in s
  BY <1>3 DEF First
<1>5. f[s \ {First(s)}] = g[s \ {First(s)}]
  BY <1>2, <1>4
<1> QED
  BY <1>3, <1>4, <1>5

(* For a finite set there is a function that computes its sums. *)
LEMMA SumExists ==
    ASSUME NEW U, IsFiniteSet(U)
    PROVE  \E f : IsSum(f, U)
<1> DEFINE Bad == {V \in SUBSET U : ~\E f : IsSum(f, V)}
<1> SUFFICES ASSUME Bad # {} PROVE FALSE
  BY DEF Bad
<1>1. PICK V \in Bad : \A W \in Bad : W \subseteq V => W = V
  <2>1. Bad \subseteq SUBSET U
    OBVIOUS
  <2> HIDE DEF Bad
  <2> QED
    BY <2>1, SubsetMin
<1> DEFINE Of(W) == CHOOSE f : IsSum(f, W)
           h == [s \in SUBSET V |->
                   IF s = {} THEN 0
                   ELSE First(s).amount + Of(s \ {First(s)})[s \ {First(s)}]]
<1>2. ASSUME NEW W \in SUBSET V, W # V PROVE IsSum(Of(W), W)
  <2>1. \E f : IsSum(f, W)
    BY <1>1, <1>2
  <2> QED
    BY <2>1
<1>3. ASSUME NEW t \in SUBSET V, t # V PROVE h[t] = Of(t)[t]
  <2>1. IsSum(Of(t), t)
    BY <1>2, <1>3
  <2>2. Of(t)[t] = IF t = {} THEN 0
                   ELSE First(t).amount + Of(t)[t \ {First(t)}]
    <3> HIDE DEF Of
    <3> QED
      BY <2>1 DEF IsSum
  <2>3. CASE t = {}
    <3> HIDE DEF Of
    <3> QED
      BY <2>2, <2>3
  <2>4. CASE t # {}
    <3>1. First(t) \in t
      BY <2>4 DEF First
    <3>2. IsSum(Of(t \ {First(t)}), t \ {First(t)})
      BY <1>2, <3>1
    <3>3. IsFiniteSet(t)
      BY FS_Subset
    <3> HIDE DEF Of
    <3>4. Of(t)[t \ {First(t)}] = Of(t \ {First(t)})[t \ {First(t)}]
      BY <2>1, <3>2, <3>3, SumUnique
    <3> QED
      BY <2>2, <2>4, <3>4
  <2> QED
    BY <2>3, <2>4
<1>4. ASSUME NEW s \in SUBSET V
      PROVE  h[s] = IF s = {} THEN 0
                    ELSE First(s).amount + h[s \ {First(s)}]
  <2>1. CASE s = {}
    BY <2>1
  <2>2. CASE s # {}
    <3>1. First(s) \in s
      BY <2>2 DEF First
    <3>2. h[s \ {First(s)}] = Of(s \ {First(s)})[s \ {First(s)}]
      BY <1>3, <3>1
    <3>3. h[s] = First(s).amount + Of(s \ {First(s)})[s \ {First(s)}]
      BY <2>2
    <3> HIDE DEF h, Of
    <3> QED
      BY <2>2, <3>2, <3>3
  <2> QED
    BY <2>1, <2>2
<1>5. IsSum(h, V)
  <2>1. h = [s \in SUBSET V |-> h[s]]
    OBVIOUS
  <2> HIDE DEF h
  <2> QED
    BY <1>4, <2>1 DEF IsSum
<1> HIDE DEF h
<1> QED
  BY <1>5

(* One function computes the sums of all subsets of a finite set. *)
LEMMA SumsOf ==
    ASSUME NEW U, IsFiniteSet(U)
    PROVE  \E f : IsSum(f, U) /\ \A V \in SUBSET U : f[V] = Sum(V)
<1>1. PICK f : IsSum(f, U)
  BY SumExists
<1>2. ASSUME NEW V \in SUBSET U PROVE f[V] = Sum(V)
  <2>1. PICK g : g = CHOOSE x : IsSum(x, V)
    OBVIOUS
  <2>2. IsSum(g, V)
    BY <2>1, SumExists, FS_Subset
  <2>3. Sum(V) = g[V]
    BY <2>1, Link
  <2> QED
    BY <1>1, <2>2, <2>3, SumUnique
<1> QED
  BY <1>1, <1>2

(* The sum of a finite set of entries is an integer, and it does not matter
   which entry is added last. *)
LEMMA SumStep ==
    ASSUME NEW U, IsFiniteSet(U), \A e \in U : e.amount \in Int
    PROVE  /\ Sum(U) \in Int
           /\ \A x \in U : Sum(U) = Sum(U \ {x}) + x.amount
<1>1. PICK f : IsSum(f, U) /\ \A V \in SUBSET U : f[V] = Sum(V)
  BY SumsOf
<1>2. ASSUME NEW s \in SUBSET U
      PROVE  f[s] = IF s = {} THEN 0 ELSE First(s).amount + f[s \ {First(s)}]
  BY <1>1 DEF IsSum
<1>3. ASSUME NEW s \in SUBSET U, s # {} PROVE First(s) \in s
  BY <1>3 DEF First
<1>4. \A s \in SUBSET U : f[s] \in Int
  <2> DEFINE Bad == {s \in SUBSET U : f[s] \notin Int}
  <2> SUFFICES ASSUME Bad # {} PROVE FALSE
    OBVIOUS
  <2>1. PICK s \in Bad : \A u \in Bad : u \subseteq s => u = s
    <3>1. Bad \subseteq SUBSET U
      OBVIOUS
    <3> HIDE DEF Bad
    <3> QED
      BY <3>1, SubsetMin
  <2>2. s # {}
    <3>1. s \in SUBSET U /\ f[s] \notin Int
      OBVIOUS
    <3> HIDE DEF Bad
    <3>2. s = {} => f[s] = 0
      BY <1>2, <3>1
    <3> QED
      BY <3>1, <3>2
  <2>3. f[s \ {First(s)}] \in Int /\ First(s).amount \in Int
    BY <1>3, <2>1, <2>2
  <2>4. f[s] = First(s).amount + f[s \ {First(s)}] /\ f[s] \notin Int
    BY <1>2, <2>2
  <2> QED
    BY <2>3, <2>4
<1>5. \A s \in SUBSET U : \A x \in s : f[s] = f[s \ {x}] + x.amount
  <2> DEFINE Bad == {s \in SUBSET U : \E x \in s : f[s] # f[s \ {x}] + x.amount}
  <2> SUFFICES ASSUME Bad # {} PROVE FALSE
    OBVIOUS
  <2>1. PICK s \in Bad : \A u \in Bad : u \subseteq s => u = s
    <3>1. Bad \subseteq SUBSET U
      OBVIOUS
    <3> HIDE DEF Bad
    <3> QED
      BY <3>1, SubsetMin
  <2>2. PICK x \in s : f[s] # f[s \ {x}] + x.amount
    OBVIOUS
  <2>3. PICK y \in s : y = First(s)
    BY <1>3
  <2>4. f[s] = y.amount + f[s \ {y}] /\ x.amount \in Int /\ y.amount \in Int
    BY <1>2, <2>3
  <2>5. x # y
    <3>1. f[s \ {y}] \in Int /\ f[s \ {x}] \in Int
      BY <1>4
    <3>2. SUFFICES ASSUME x = y PROVE f[s] = f[s \ {x}] + x.amount
      BY <2>2
    <3>3. f[s] = x.amount + f[s \ {x}]
      BY <2>4, <3>2
    <3> HIDE DEF Bad
    <3> QED
      BY <2>4, <3>1, <3>3
  <2>6. PICK t \in SUBSET U : t = (s \ {y}) \ {x} /\ t = (s \ {x}) \ {y}
    OBVIOUS
  <2>7. f[s \ {y}] = f[t] + x.amount
    BY <2>1, <2>5, <2>6
  <2>8. f[s \ {x}] = f[t] + y.amount
    BY <2>1, <2>5, <2>6
  <2> QED
    BY <1>4, <2>2, <2>4, <2>6, <2>7, <2>8
<1>6. ASSUME NEW x \in U PROVE Sum(U) = Sum(U \ {x}) + x.amount
  BY <1>1, <1>5
<1> QED
  BY <1>1, <1>4, <1>6

(* A new entry adds its amount to the sum. *)
LEMMA SumAdd ==
    ASSUME NEW U, IsFiniteSet(U), \A e \in U : e.amount \in Int,
           NEW x, x \notin U, x.amount \in Int
    PROVE  Sum(U \cup {x}) = Sum(U) + x.amount
<1>1. IsFiniteSet(U \cup {x})
  BY FS_AddElement
<1>2. (U \cup {x}) \ {x} = U
  OBVIOUS
<1> QED
  BY <1>1, <1>2, SumStep

(* The sum over no entries is 0. *)
LEMMA SumNone == Sum({}) = 0
<1>1. PICK f : IsSum(f, {}) /\ \A V \in SUBSET {} : f[V] = Sum(V)
  BY SumsOf, FS_EmptySet
<1>2. f[{}] = 0
  BY <1>1 DEF IsSum
<1> QED
  BY <1>1, <1>2

(* The invariant that says the balances are the sums of the entries. *)
Balanced == IsFiniteSet(entries) /\ LedgerMatchesBalance

(* The entries of one wallet. *)
Of(w) == {e \in entries : e.wallet = w}

(* Balanced in the words of the lemmas above. *)
Summed ==
    /\ IsFiniteSet(entries)
    /\ \A w \in WalletIDs : balance[w] = Sum(Of(w))

(* The two say the same of every state. *)
LEMMA BalancedSums == Balanced <=> Summed
BY DEF Balanced, LedgerMatchesBalance, Summed, Sum, Of

(* So they say the same of the state after a step. *)
LEMMA BalancedSumsNext == Balanced' <=> Summed'
BY BalancedSums, PTL

(* A posting adds its amount to the balance and to the sum of its wallet, and
   leaves the other wallets alone. *)
LEMMA PostBalanced ==
    ASSUME Inv, Balanced, NEW r \in Requests, NEW w \in WalletIDs,
           NEW a \in Amounts, LedgerInstance!Post(r, w, a)
    PROVE  Balanced'
<1> DEFINE new == [req |-> r, wallet |-> w, amount |-> a]
<1>1. /\ new \notin entries
      /\ entries' = entries \cup {new}
      /\ balance' = [balance EXCEPT ![w] = @ + a]
      /\ new.wallet = w /\ new.amount = a /\ a \in Int
  BY AmountsAssumption DEF LedgerInstance!Post
<1>2. /\ balance \in [WalletIDs -> Int]
      /\ \A e \in entries : e.amount \in Int
  BY AmountsAssumption DEF Inv, TypeOK
<1>3. /\ IsFiniteSet(entries)
      /\ \A v \in WalletIDs : balance[v] = Sum(Of(v))
  BY BalancedSums DEF Summed
<1> HIDE DEF new
<1>4. IsFiniteSet(entries')
  BY <1>1, <1>3, FS_AddElement
<1>5. ASSUME NEW v \in WalletIDs PROVE balance'[v] = Sum(Of(v)')
  <2>1. CASE v = w
    <3>1. Of(v)' = Of(w) \cup {new} /\ new \notin Of(w)
      BY <1>1, <2>1 DEF Of
    <3>2. IsFiniteSet(Of(w)) /\ \A e \in Of(w) : e.amount \in Int
      BY <1>2, <1>3, FS_Subset DEF Of
    <3>3. Sum(Of(w) \cup {new}) = Sum(Of(w)) + new.amount
      BY <1>1, <3>1, <3>2, SumAdd
    <3>4. balance'[v] = balance[w] + a
      BY <1>1, <1>2, <2>1
    <3> QED
      BY <1>1, <1>3, <3>1, <3>3, <3>4
  <2>2. CASE v # w
    <3>1. Of(v)' = Of(v) /\ balance'[v] = balance[v]
      BY <1>1, <1>2, <2>2 DEF Of
    <3> QED
      BY <1>3, <3>1
  <2> QED
    BY <2>1, <2>2
<1> QED
  BY <1>4, <1>5, BalancedSumsNext DEF Summed

(* Every step of the code keeps it, for every step is one of the ledger. *)
LEMMA BalancedStep == Inv /\ Balanced /\ [Next]_vars => Balanced'
<1> SUFFICES ASSUME Inv, Balanced, [Next]_vars PROVE Balanced'
  OBVIOUS
<1>1. \/ LedgerInstance!Next
      \/ UNCHANGED LedgerInstance!ledgerVars
  BY LedgerStep
<1>2. ASSUME UNCHANGED <<balance, entries>> PROVE Balanced'
  BY <1>2, BalancedSums, BalancedSumsNext DEF Summed, Of
<1>3. CASE LedgerInstance!Next
  BY <1>2, <1>3, PostBalanced DEF LedgerInstance!Next, LedgerInstance!Open
<1> QED
  BY <1>1, <1>2, <1>3 DEF LedgerInstance!ledgerVars

(* Before the first request every sum is 0. *)
LEMMA BalancedInit == Init => Balanced
<1> SUFFICES ASSUME Init PROVE Balanced
  OBVIOUS
<1>1. \A w \in WalletIDs : Of(w) = {} /\ balance[w] = 0
  BY DEF Init, Of
<1>2. IsFiniteSet(entries)
  BY FS_EmptySet DEF Init
<1> QED
  BY <1>1, <1>2, SumNone, BalancedSums DEF Summed

(* The balance of every wallet is the sum of its ledger entries, whatever
   requests overlap, fail or run out of time: no update is lost, and neither
   money nor an entry appears without the other. *)
THEOREM BalanceIsLedger == Spec => []LedgerMatchesBalance
<1>1. Spec => []Balanced
  BY InvHolds, BalancedInit, BalancedStep, PTL DEF Spec
<1>2. Balanced => LedgerMatchesBalance
  BY DEF Balanced
<1> QED
  BY <1>1, <1>2, PTL

=============================================================================
