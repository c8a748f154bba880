--------------------------- MODULE AccountsProofs ---------------------------
(***************************************************************************)
(* Theorems about Accounts, for any set of requests, names, roles and role *)
(* lists, with failures and deadlocks.                                     *)
(*                                                                         *)
(* The unique indexes are not inductive by themselves: a row becomes       *)
(* visible several steps after its index entries were checked.  The        *)
(* invariant therefore says what an uncommitted entry excludes (NameClaims,*)
(* EmailClaims, RowClaims), who has entries at which step (Phases) and     *)
(* what a transaction has done so far (Progress).                          *)
(*                                                                         *)
(* RolesWhole and Deadlocks are about replacements of roles: what goes     *)
(* wrong with them takes two that overlap.                                 *)
(***************************************************************************)
EXTENDS Accounts, TLAPS

RangeOf(s) == {s[i] : i \in DOMAIN s}

(* Kinds of requests, the steps at which they can be, and their entries. *)
Phases ==
    \A r \in Requests :
        /\ pc[r] = "lookup" => Kind(r) = "updateAdminUserRoles"
        /\ pc[r] = "delete" => Kind(r) = "delete"
        /\ pc[r] \in {"lock", "publish"} => Kind(r) = "restore"
        /\ pc[r] \in {"scan", "purge"} => Kind(r) = "updateAdminUserRoles"
        /\ pc[r] \in {"begin", "items", "rollback"} =>
             Kind(r) \in Creates \cup {"updateAdminUserRoles"}
        /\ pc[r] \in {"name", "email"} => Kind(r) \in Creates \cup {"restore"}
        /\ r \in names =>
             /\ pc[r] \in {"email", "items", "publish", "rollback"}
             /\ Kind(r) \in Creates \cup {"restore"}
        /\ r \in emails => pc[r] \in {"items", "publish", "rollback"} /\ r \in names
        /\ pc[r] \in {"email", "publish"} => r \in names
        /\ pc[r] = "publish" /\ Kind(Subject(r)) = "createUser" => r \in emails
        /\ pc[r] = "items" /\ Kind(r) \in Creates => r \in names
        /\ pc[r] = "items" /\ Kind(r) = "createUser" => r \in emails
        /\ Kind(r) = "updateAdminUserRoles" => Kind(Subject(r)) # "createUser"

(* Accounts, and which requests have put theirs into the tables. *)
Registered ==
    /\ live \cap deleted = {}
    /\ \A a \in live \cup deleted :
         Kind(a) \in Creates /\ pc[a] \in {"200", "5xx"}
    /\ \A r \in Requests :
         Kind(r) \in Creates /\ pc[r] = "200" => r \in live \cup deleted
    /\ \A r \in Requests :
         /\ pc[r] \in {"begin", "scan", "purge", "items", "rollback"}
         /\ Kind(r) = "updateAdminUserRoles"
         => Subject(r) \in live \cup deleted
    /\ \A r \in Requests : Restoring(r) =>
         /\ Subject(r) \in deleted
         /\ \A q \in Requests : Restoring(q) /\ Subject(q) = Subject(r) => q = r

(* An entry in the username index keeps everybody else from the name. *)
NameClaims ==
    \A r \in names :
        /\ \A a \in live : ~SameName(a, Subject(r))
        /\ \A q \in names : ~SameName(Subject(q), Subject(r))

EmailClaims ==
    \A r \in emails :
        /\ \A a \in live : ~SameEmail(a, Subject(r))
        /\ \A q \in emails : ~SameEmail(Subject(q), Subject(r))

(* A deleted row belongs to one transaction, an inserted one excludes other
   rows for the same item. *)
RowClaims ==
    \A r \in Requests :
        /\ removed[r] \subseteq bound
        /\ \A q \in Requests \ {r} : removed[q] \cap removed[r] = {}
        /\ \A item \in added[r] :
             /\ \A row \in bound \ removed[r] :
                  ~(row[1] = Subject(r) /\ row[2] = item)
             /\ \A q \in Requests \ {r} :
                  Subject(q) = Subject(r) => item \notin added[q]

(* What a transaction has deleted and inserted so far. *)
Progress ==
    \A r \in Requests :
        /\ \A row \in seen[r] \cup removed[r] :
             /\ row[1] = Subject(r)
             /\ Kind(r) = "updateAdminUserRoles"
             /\ pc[r] \in {"purge", "items", "rollback"}
        /\ added[r] # {} =>
             /\ pc[r] \in {"items", "rollback"}
             /\ Kind(r) \in Creates \cup {"updateAdminUserRoles"}
        /\ Kind(r) \in Creates /\ pc[r] \in Steps =>
             ItemsOf(r) = added[r] \cup RangeOf(todo[r])

Inv ==
    /\ TypeOK
    /\ Phases
    /\ Registered
    /\ NameClaims
    /\ EmailClaims
    /\ RowClaims
    /\ Progress
    /\ UniqueIndexesHold
    /\ AccountsComplete

-----------------------------------------------------------------------------
(* Proofs.  What the definitions about arg say does not change.            *)

(* No step changes what a request is. *)
LEMMA Frame ==
    ASSUME UNCHANGED arg
    PROVE  /\ \A a : Kind(a)' = Kind(a)
           /\ \A a : Subject(a)' = Subject(a)
           /\ \A a, b : SameName(a, b)' <=> SameName(a, b)
           /\ \A a, b : SameEmail(a, b)' <=> SameEmail(a, b)
           /\ \A a, b : Clash(a, b)' <=> Clash(a, b)
           /\ \A a : ItemsOf(a)' = ItemsOf(a)
BY DEF Kind, Subject, SameName, SameEmail, Clash, ItemsOf

(* What a request carries. *)
LEMMA ArgTypes ==
    ASSUME TypeOK, NEW r \in Requests
    PROVE  /\ Kind(r) \in Creates \cup {"updateAdminUserRoles", "delete", "restore"}
           /\ Subject(r) \in Requests
           /\ Kind(r) \in Creates => Subject(r) = r
           /\ arg[r].items \in Seq(Items)
           /\ Kind(r) = "createUser" => arg[r].items = <<"wallet">>
<1>1. arg[r] \in Args /\ arg[r] \in ArgType
  BY ArgsAssumption DEF TypeOK
<1>2. /\ arg[r].kind \in Creates \cup {"updateAdminUserRoles", "delete", "restore"}
      /\ arg[r].target \in Requests
      /\ arg[r].items \in Seq(Items)
  BY <1>1 DEF ArgType
<1> QED
  BY <1>1, <1>2, ArgsAssumption DEF Kind, Subject

(* Two accounts clash by username or, both front-end users, by email. *)
LEMMA Clashes ==
    ASSUME NEW a, NEW b
    PROVE  /\ SameName(a, b) <=> SameName(b, a)
           /\ SameEmail(a, b) <=> SameEmail(b, a)
           /\ SameEmail(a, b) => Kind(a) = "createUser" /\ Kind(b) = "createUser"
           /\ Clash(a, b) <=> SameName(a, b) \/ SameEmail(a, b)
           /\ ~Clash(a, a)
BY DEF SameName, SameEmail, Clash

(* Bind takes a request to the first call of its kind, before any claim. *)
LEMMA BindKeeps == ASSUME Inv, NEW r \in Requests, Bind(r) PROVE Inv'
<1>0. UNCHANGED arg
  BY DEF Bind
<1>a. /\ Kind(r) \in Creates \cup {"updateAdminUserRoles", "delete", "restore"}
      /\ Subject(r) \in Requests
      /\ Kind(r) \in Creates => Subject(r) = r
  BY ArgTypes DEF Inv
<1> USE Frame, <1>0, <1>a DEF Creates
<1>1. TypeOK'
  BY DEF Bind, Goto, FirstCall, tables, tx, Inv, Phases, TypeOK, Steps, Answers
<1>2. Phases'
  BY DEF Bind, Goto, FirstCall, tables, tx, Inv, Phases, TypeOK
<1>3. Registered'
  <2>1. PICK l \in {"begin", "lookup", "delete", "lock", "400", "5xx"} :
          /\ pc' = [pc EXCEPT ![r] = l]
          /\ l = "begin" => Kind(r) \in Creates
    BY DEF Bind, Goto, FirstCall
  <2> QED
    BY <2>1 DEF Bind, tables, tx, Inv, Registered, TypeOK, Restoring
<1>4. NameClaims'
  BY DEF Bind, Goto, FirstCall, tables, tx, Inv, NameClaims, Phases, TypeOK
<1>5. EmailClaims'
  BY DEF Bind, Goto, FirstCall, tables, tx, Inv, EmailClaims, Phases, TypeOK
<1>6. RowClaims'
  BY DEF Bind, Goto, FirstCall, tables, tx, Inv, Phases, RowClaims, TypeOK
<1>7. Progress'
  BY DEF Bind, Goto, FirstCall, tables, tx, Inv, Phases, Progress, TypeOK, Steps
<1>8. UniqueIndexesHold'
  BY DEF Bind, Goto, FirstCall, tables, tx, Inv, Phases, TypeOK, UniqueIndexesHold
<1>9. AccountsComplete'
  BY DEF Bind, Goto, FirstCall, tables, tx, Inv, AccountsComplete, Phases, TypeOK
<1> QED
  BY <1>1, <1>2, <1>3, <1>4, <1>5, <1>6, <1>7, <1>8, <1>9 DEF Inv

(* Lookup lets a replacement of roles go on only for an account in the tables. *)
LEMMA LookupKeeps == ASSUME Inv, NEW r \in Requests, Lookup(r) PROVE Inv'
<1>0. UNCHANGED arg
  BY DEF Lookup
<1>a. /\ Kind(r) \in Creates \cup {"updateAdminUserRoles", "delete", "restore"}
      /\ Subject(r) \in Requests
      /\ Kind(r) \in Creates => Subject(r) = r
  BY ArgTypes DEF Inv
<1> USE Frame, <1>0, <1>a DEF Creates
<1>1. TypeOK'
  BY DEF Lookup, Goto, tables, tx, Inv, Phases, TypeOK, Steps, Answers
<1>2. Phases'
  BY DEF Lookup, Goto, tables, tx, Inv, Phases, TypeOK
<1>3. Registered'
  BY DEF Lookup, Goto, tables, tx, Inv, Phases, Registered, TypeOK, Restoring
<1>4. NameClaims'
  BY DEF Lookup, Goto, tables, tx, Inv, NameClaims, Phases, TypeOK
<1>5. EmailClaims'
  BY DEF Lookup, Goto, tables, tx, Inv, EmailClaims, Phases, TypeOK
<1>6. RowClaims'
  BY DEF Lookup, Goto, tables, tx, Inv, Phases, RowClaims, TypeOK
<1>7. Progress'
  BY DEF Lookup, Goto, tables, tx, Inv, Phases, Progress, TypeOK, Steps
<1>8. UniqueIndexesHold'
  BY DEF Lookup, Goto, tables, tx, Inv, Phases, TypeOK, UniqueIndexesHold
<1>9. AccountsComplete'
  BY DEF Lookup, Goto, tables, tx, Inv, AccountsComplete, Phases, TypeOK
<1> QED
  BY <1>1, <1>2, <1>3, <1>4, <1>5, <1>6, <1>7, <1>8, <1>9 DEF Inv

(* SoftDelete moves an account out of both indexes, which frees its name and
   email and disturbs no claim; its rows stay. *)
LEMMA SoftDeleteKeeps == ASSUME Inv, NEW r \in Requests, SoftDelete(r) PROVE Inv'
<1>0. UNCHANGED arg
  BY DEF SoftDelete
<1>a. /\ Kind(r) \in Creates \cup {"updateAdminUserRoles", "delete", "restore"}
      /\ Subject(r) \in Requests
      /\ Kind(r) \in Creates => Subject(r) = r
  BY ArgTypes DEF Inv
<1> USE Frame, <1>0, <1>a DEF Creates
<1>1. TypeOK'
  BY DEF SoftDelete, Goto, Executed, tx, Inv, Phases, TypeOK, Steps, Answers
<1>2. Phases'
  BY DEF SoftDelete, Goto, Executed, tx, Inv, Phases, TypeOK
<1>3. Registered'
  <2>1. Kind(r) = "delete" => ~Restoring(r)'
    BY DEF Restoring
  <2>2. \A q \in Requests : Restoring(q)' => Restoring(q)
    BY DEF SoftDelete, Executed, Goto, Restoring, TypeOK, Inv
  <2>3. live' \cup deleted' = live \cup deleted /\ live' \cap deleted' = {}
    BY DEF SoftDelete, Inv, Registered
  <2>4. deleted \subseteq deleted'
    BY DEF SoftDelete
  <2>5. \A q \in Requests : Restoring(q)' =>
          /\ Subject(q)' \in deleted'
          /\ \A p \in Requests :
               Restoring(p)' /\ Subject(p)' = Subject(q)' => p = q
    BY <2>2, <2>4 DEF Inv, Registered
  <2>6. /\ \A a \in live \cup deleted : pc'[a] \in {"200", "5xx"}
        /\ \A q \in Requests : q # r => pc'[q] = pc[q]
        /\ Kind(r) = "delete"
    <3>1. Kind(r) = "delete" /\ r \notin live \cup deleted
      BY DEF SoftDelete, Inv, Phases, Registered
    <3> QED
      BY <3>1 DEF SoftDelete, Executed, Goto, Inv, Registered, TypeOK
  <2> QED
    BY <2>3, <2>5, <2>6 DEF Inv, Registered
<1>4. NameClaims'
  BY DEF SoftDelete, Goto, Executed, tx, Inv, NameClaims, Phases, TypeOK
<1>5. EmailClaims'
  BY DEF SoftDelete, Goto, Executed, tx, Inv, EmailClaims, Phases, TypeOK
<1>6. RowClaims'
  BY DEF SoftDelete, Goto, Executed, tx, Inv, Phases, RowClaims, TypeOK
<1>7. Progress'
  <2>1. Kind(r) = "delete"
    BY DEF SoftDelete, Inv, Phases
  <2>2. \A q \in Requests : q # r => pc'[q] = pc[q]
    BY DEF SoftDelete, Executed, Goto, Inv, TypeOK
  <2> QED
    BY <2>1, <2>2 DEF SoftDelete, tx, Inv, Progress
<1>8. UniqueIndexesHold'
  BY DEF SoftDelete, Goto, Executed, tx, Inv, Phases, TypeOK, UniqueIndexesHold
<1>9. AccountsComplete'
  BY DEF SoftDelete, Goto, Executed, tx, Inv, AccountsComplete, Phases, TypeOK
<1> QED
  BY <1>1, <1>2, <1>3, <1>4, <1>5, <1>6, <1>7, <1>8, <1>9 DEF Inv

(* RestoreLock admits one restoration of an account at a time. *)
LEMMA RestoreLockKeeps == ASSUME Inv, NEW r \in Requests, RestoreLock(r) PROVE Inv'
<1>0. UNCHANGED arg
  BY DEF RestoreLock
<1>a. /\ Kind(r) \in Creates \cup {"updateAdminUserRoles", "delete", "restore"}
      /\ Subject(r) \in Requests
      /\ Kind(r) \in Creates => Subject(r) = r
  BY ArgTypes DEF Inv
<1> USE Frame, <1>0, <1>a DEF Creates
<1>1. TypeOK'
  BY DEF RestoreLock, Goto, Blockers, tables, tx, Inv, Phases, TypeOK, Steps, Answers
<1>2. Phases'
  BY DEF RestoreLock, Goto, Blockers, tables, tx, Inv, Phases, TypeOK
<1>3. Registered'
  BY DEF RestoreLock, Goto, Blockers, tables, tx, Inv, Phases, Registered, TypeOK, Restoring
<1>4. NameClaims'
  BY DEF RestoreLock, Goto, Blockers, tables, tx, Inv, NameClaims, Phases, TypeOK
<1>5. EmailClaims'
  BY DEF RestoreLock, Goto, Blockers, tables, tx, Inv, EmailClaims, Phases, TypeOK
<1>6. RowClaims'
  BY DEF RestoreLock, Goto, Blockers, tables, tx, Inv, Phases, RowClaims, TypeOK
<1>7. Progress'
  BY DEF RestoreLock, Goto, Blockers, tables, tx, Inv, Phases, Progress, TypeOK, Steps
<1>8. UniqueIndexesHold'
  BY DEF RestoreLock, Goto, Blockers, tables, tx, Inv, Phases, TypeOK, UniqueIndexesHold
<1>9. AccountsComplete'
  BY DEF RestoreLock, Goto, Blockers, tables, tx, Inv, AccountsComplete, Phases, TypeOK
<1> QED
  BY <1>1, <1>2, <1>3, <1>4, <1>5, <1>6, <1>7, <1>8, <1>9 DEF Inv

(* RestorePublish turns the claims of a restoration into the live account they
   were made for. *)
LEMMA RestorePublishKeeps == ASSUME Inv, NEW r \in Requests, RestorePublish(r) PROVE Inv'
<1>0. UNCHANGED arg
  BY DEF RestorePublish
<1>a. /\ Kind(r) \in Creates \cup {"updateAdminUserRoles", "delete", "restore"}
      /\ Subject(r) \in Requests
      /\ Kind(r) \in Creates => Subject(r) = r
  BY ArgTypes DEF Inv
<1> USE Frame, <1>0, <1>a DEF Creates
<1>1. TypeOK'
  BY DEF RestorePublish, Goto, Executed, Inv, Phases, TypeOK, Steps, Answers
<1>2. Phases'
  BY DEF RestorePublish, Goto, Executed, Inv, Phases, TypeOK
<1>3. Registered'
  <2>1. Restoring(r) /\ Kind(r) = "restore" /\ Subject(r) \in deleted
    BY DEF RestorePublish, Restoring, Inv, Phases, Registered
  <2>2. \A q \in Requests : Restoring(q)' => Restoring(q) /\ q # r
    BY DEF RestorePublish, Executed, Goto, Restoring, TypeOK, Inv
  <2>3. live' \cup deleted' = live \cup deleted /\ live' \cap deleted' = {}
    BY <2>1 DEF RestorePublish, Inv, Registered
  <2>4. \A q \in Requests : Restoring(q)' =>
          /\ Subject(q)' \in deleted'
          /\ \A p \in Requests :
               Restoring(p)' /\ Subject(p)' = Subject(q)' => p = q
    BY <2>1, <2>2 DEF RestorePublish, Inv, Registered
  <2>6. /\ \A a \in live \cup deleted : pc'[a] \in {"200", "5xx"}
        /\ \A q \in Requests : q # r => pc'[q] = pc[q]
    BY DEF RestorePublish, Executed, Goto, Inv, Registered, TypeOK
  <2> QED
    BY <2>1, <2>3, <2>4, <2>6 DEF Inv, Registered
<1>4. NameClaims'
  BY DEF RestorePublish, Goto, Executed, Inv, NameClaims, Phases, TypeOK
<1>5. EmailClaims'
  <2>1. \A q \in emails : q # r => ~SameEmail(Subject(r), Subject(q))
    BY Clashes DEF RestorePublish, Inv, Phases, EmailClaims
  <2> QED
    BY <2>1 DEF RestorePublish, Inv, EmailClaims
<1>6. RowClaims'
  BY DEF RestorePublish, Goto, Executed, Inv, Phases, RowClaims, TypeOK
<1>7. Progress'
  <2>1. Kind(r) = "restore"
    BY DEF RestorePublish, Inv, Phases
  <2>2. \A q \in Requests : q # r => pc'[q] = pc[q]
    BY DEF RestorePublish, Executed, Goto, Inv, TypeOK
  <2> QED
    BY <2>1, <2>2 DEF RestorePublish, Inv, Progress
<1>8. UniqueIndexesHold'
  <2>1. \A a \in live : ~Clash(a, Subject(r)) /\ ~Clash(Subject(r), a)
    BY Clashes DEF RestorePublish, Inv, Phases, NameClaims, EmailClaims
  <2> QED
    BY <2>1, Clashes DEF RestorePublish, Inv, UniqueIndexesHold
<1>9. AccountsComplete'
  <2>1. Subject(r) \in deleted
    BY DEF RestorePublish, Restoring, Inv, Phases, Registered
  <2> QED
    BY <2>1 DEF RestorePublish, Inv, AccountsComplete
<1> QED
  BY <1>1, <1>2, <1>3, <1>4, <1>5, <1>6, <1>7, <1>8, <1>9 DEF Inv

(* BeginTx starts a transaction that holds nothing yet. *)
LEMMA BeginTxKeeps == ASSUME Inv, NEW r \in Requests, BeginTx(r) PROVE Inv'
<1>0. UNCHANGED arg
  BY DEF BeginTx
<1>a. /\ Kind(r) \in Creates \cup {"updateAdminUserRoles", "delete", "restore"}
      /\ Subject(r) \in Requests
      /\ Kind(r) \in Creates => Subject(r) = r
  BY ArgTypes DEF Inv
<1> USE Frame, <1>0, <1>a DEF Creates
<1>1. TypeOK'
  BY DEF BeginTx, Goto, tables, tx, Inv, Phases, TypeOK, Steps, Answers
<1>2. Phases'
  BY DEF BeginTx, Goto, tables, tx, Inv, Phases, TypeOK
<1>3. Registered'
  BY DEF BeginTx, Goto, tables, tx, Inv, Phases, Registered, TypeOK, Restoring
<1>4. NameClaims'
  BY DEF BeginTx, Goto, tables, tx, Inv, NameClaims, Phases, TypeOK
<1>5. EmailClaims'
  BY DEF BeginTx, Goto, tables, tx, Inv, EmailClaims, Phases, TypeOK
<1>6. RowClaims'
  BY DEF BeginTx, Goto, tables, tx, Inv, Phases, RowClaims, TypeOK
<1>7. Progress'
  BY DEF BeginTx, Goto, tables, tx, Inv, Phases, Progress, TypeOK, Steps
<1>8. UniqueIndexesHold'
  BY DEF BeginTx, Goto, tables, tx, Inv, Phases, TypeOK, UniqueIndexesHold
<1>9. AccountsComplete'
  BY DEF BeginTx, Goto, tables, tx, Inv, AccountsComplete, Phases, TypeOK
<1> QED
  BY <1>1, <1>2, <1>3, <1>4, <1>5, <1>6, <1>7, <1>8, <1>9 DEF Inv

(* DeleteScan collects rows of the account of the request and of no other. *)
LEMMA DeleteScanKeeps == ASSUME Inv, NEW r \in Requests, DeleteScan(r) PROVE Inv'
<1>0. UNCHANGED arg
  BY DEF DeleteScan
<1>a. /\ Kind(r) \in Creates \cup {"updateAdminUserRoles", "delete", "restore"}
      /\ Subject(r) \in Requests
      /\ Kind(r) \in Creates => Subject(r) = r
  BY ArgTypes DEF Inv
<1> USE Frame, <1>0, <1>a DEF Creates
<1>1. TypeOK'
  BY DEF DeleteScan, Goto, tables, Inv, Phases, TypeOK, Steps, Answers
<1>2. Phases'
  BY DEF DeleteScan, Goto, tables, Inv, Phases, TypeOK
<1>3. Registered'
  BY DEF DeleteScan, Goto, tables, Inv, Phases, Registered, TypeOK, Restoring
<1>4. NameClaims'
  BY DEF DeleteScan, Goto, tables, Inv, NameClaims, Phases, TypeOK
<1>5. EmailClaims'
  BY DEF DeleteScan, Goto, tables, Inv, EmailClaims, Phases, TypeOK
<1>6. RowClaims'
  BY DEF DeleteScan, Goto, tables, Inv, Phases, RowClaims, TypeOK
<1>7. Progress'
  BY DEF DeleteScan, Goto, tables, Inv, Phases, Progress, TypeOK, Steps
<1>8. UniqueIndexesHold'
  BY DEF DeleteScan, Goto, tables, Inv, Phases, TypeOK, UniqueIndexesHold
<1>9. AccountsComplete'
  BY DEF DeleteScan, Goto, tables, Inv, AccountsComplete, Phases, TypeOK
<1> QED
  BY <1>1, <1>2, <1>3, <1>4, <1>5, <1>6, <1>7, <1>8, <1>9 DEF Inv

(* DeleteRow takes a committed row that no other transaction has taken. *)
LEMMA DeleteRowKeeps == ASSUME Inv, NEW r \in Requests, DeleteRow(r) PROVE Inv'
<1>0. UNCHANGED arg
  BY DEF DeleteRow
<1>a. /\ Kind(r) \in Creates \cup {"updateAdminUserRoles", "delete", "restore"}
      /\ Subject(r) \in Requests
      /\ Kind(r) \in Creates => Subject(r) = r
  BY ArgTypes DEF Inv
<1> USE Frame, <1>0, <1>a DEF Creates
<1>1. TypeOK'
  BY DEF DeleteRow, tables, Inv, Phases, TypeOK, Steps, Answers
<1>2. Phases'
  BY DEF DeleteRow, tables, Inv, Phases, TypeOK
<1>3. Registered'
  BY DEF DeleteRow, tables, Inv, Phases, Registered, TypeOK, Restoring
<1>4. NameClaims'
  BY DEF DeleteRow, tables, Inv, NameClaims, Phases, TypeOK
<1>5. EmailClaims'
  BY DEF DeleteRow, tables, Inv, EmailClaims, Phases, TypeOK
<1>6. RowClaims'
  BY DEF DeleteRow, tables, Inv, Phases, RowClaims, TypeOK
<1>7. Progress'
  BY DEF DeleteRow, tables, Inv, Phases, Progress, TypeOK, Steps
<1>8. UniqueIndexesHold'
  BY DEF DeleteRow, tables, Inv, Phases, TypeOK, UniqueIndexesHold
<1>9. AccountsComplete'
  BY DEF DeleteRow, tables, Inv, AccountsComplete, Phases, TypeOK
<1> QED
  BY <1>1, <1>2, <1>3, <1>4, <1>5, <1>6, <1>7, <1>8, <1>9 DEF Inv

(* DeleteDone goes on to the insertions when all collected rows are taken. *)
LEMMA DeleteDoneKeeps == ASSUME Inv, NEW r \in Requests, DeleteDone(r) PROVE Inv'
<1>0. UNCHANGED arg
  BY DEF DeleteDone
<1>a. /\ Kind(r) \in Creates \cup {"updateAdminUserRoles", "delete", "restore"}
      /\ Subject(r) \in Requests
      /\ Kind(r) \in Creates => Subject(r) = r
  BY ArgTypes DEF Inv
<1> USE Frame, <1>0, <1>a DEF Creates
<1>1. TypeOK'
  BY DEF DeleteDone, Goto, tables, tx, Inv, Phases, TypeOK, Steps, Answers
<1>2. Phases'
  BY DEF DeleteDone, Goto, tables, tx, Inv, Phases, TypeOK
<1>3. Registered'
  BY DEF DeleteDone, Goto, tables, tx, Inv, Phases, Registered, TypeOK, Restoring
<1>4. NameClaims'
  BY DEF DeleteDone, Goto, tables, tx, Inv, NameClaims, Phases, TypeOK
<1>5. EmailClaims'
  BY DEF DeleteDone, Goto, tables, tx, Inv, EmailClaims, Phases, TypeOK
<1>6. RowClaims'
  BY DEF DeleteDone, Goto, tables, tx, Inv, Phases, RowClaims, TypeOK
<1>7. Progress'
  BY DEF DeleteDone, Goto, tables, tx, Inv, Phases, Progress, TypeOK, Steps
<1>8. UniqueIndexesHold'
  BY DEF DeleteDone, Goto, tables, tx, Inv, Phases, TypeOK, UniqueIndexesHold
<1>9. AccountsComplete'
  BY DEF DeleteDone, Goto, tables, tx, Inv, AccountsComplete, Phases, TypeOK
<1> QED
  BY <1>1, <1>2, <1>3, <1>4, <1>5, <1>6, <1>7, <1>8, <1>9 DEF Inv

-----------------------------------------------------------------------------
(* Statements that fail.                                                   *)

(* After an error a transaction waits for its rollback with all its entries,
   and a restoration is gone. *)
LEMMA FailKeeps ==
    ASSUME Inv, NEW r \in Requests, NEW e \in DOMAIN StatusOf,
           pc[r] \in {"lock", "name", "email", "scan", "purge", "items",
                      "publish"},
           Fail(r, e),
           UNCHANGED <<live, deleted, bound, arg, seen, removed, todo, added>>
    PROVE  Inv'
<1>0. UNCHANGED arg
  OBVIOUS
<1>a. /\ Kind(r) \in Creates \cup {"updateAdminUserRoles", "delete", "restore"}
      /\ Subject(r) \in Requests
      /\ Kind(r) \in Creates => Subject(r) = r
  BY ArgTypes DEF Inv
<1> USE Frame, <1>0, <1>a DEF Creates
<1>b. PICK l \in {"400", "409", "5xx", "rollback"} :
        /\ pc' = [pc EXCEPT ![r] = l]
        /\ IF l = "rollback"
           THEN Kind(r) # "restore" /\ UNCHANGED <<names, emails>>
           ELSE /\ Kind(r) = "restore"
                /\ names' = names \ {r} /\ emails' = emails \ {r}
  BY DEF Fail, Goto, StatusOf
<1>c. l = "rollback" => Kind(r) \in Creates \cup {"updateAdminUserRoles"}
  <2>1. pc[r] = "lock" => Kind(r) = "restore"
    BY DEF Inv, Phases
  <2>2. Kind(r) # "delete"
    <3>1. \/ Kind(r) = "restore" \/ Kind(r) = "updateAdminUserRoles"
          \/ Kind(r) \in Creates
      BY <2>1 DEF Inv, Phases
    <3> QED
      BY <3>1
  <2> QED
    BY <1>a, <1>b, <2>2
<1>1. TypeOK'
  BY <1>b DEF Fail, Inv, TypeOK, Steps, Answers
<1>2. Phases'
  BY <1>b, <1>c DEF Inv, Phases, TypeOK
<1>3. Registered'
  <2>1. \A q \in Requests : Restoring(q)' => Restoring(q) /\ q # r
    BY <1>b DEF Restoring, TypeOK, Inv
  <2>2. \A a \in live \cup deleted : pc'[a] \in {"200", "5xx"}
    BY <1>b DEF Inv, Registered, TypeOK
  <2>3. /\ pc[r] \in {"scan", "purge", "items"} => Kind(r) # "restore"
        /\ Kind(r) = "updateAdminUserRoles" => pc[r] \in {"scan", "purge", "items"}
        /\ \A q \in Requests : q # r => pc'[q] = pc[q]
        /\ pc'[r] = l
    BY <1>b DEF Inv, Phases, TypeOK
  <2> QED
    BY <1>b, <2>1, <2>2, <2>3 DEF Inv, Registered
<1>4. NameClaims'
  BY <1>b DEF Inv, NameClaims
<1>5. EmailClaims'
  BY <1>b DEF Inv, EmailClaims
<1>6. RowClaims'
  BY DEF Inv, RowClaims
<1>7. Progress'
  <2>1. /\ \A q \in Requests : q # r => pc'[q] = pc[q]
        /\ pc'[r] = l /\ pc[r] \in Steps
    BY <1>b DEF Inv, TypeOK, Steps
  <2> QED
    BY <1>b, <1>c, <2>1 DEF Inv, Progress
<1>8. UniqueIndexesHold'
  BY DEF Inv, UniqueIndexesHold
<1>9. AccountsComplete'
  BY DEF Inv, AccountsComplete
<1> QED
  BY <1>1, <1>2, <1>3, <1>4, <1>5, <1>6, <1>7, <1>8, <1>9 DEF Inv

(* A deadlock ends a statement that waits. *)
LEMMA DeadlockAbortKeeps ==
    ASSUME Inv, NEW r \in Requests, DeadlockAbort(r) PROVE Inv'
<1>1. pc[r] \in {"lock", "name", "email", "purge", "items"}
  BY DEF DeadlockAbort, Deadlocked, Blockers
<1>2. "other" \in DOMAIN StatusOf
  BY DEF StatusOf
<1> QED
  BY <1>1, <1>2, FailKeeps DEF DeadlockAbort, tables

(* Any call fails. *)
LEMMA CallFailsKeeps ==
    ASSUME Inv, NEW r \in Requests, CallFails(r) PROVE Inv'
<1>1. CASE pc[r] \in {"name", "email", "scan", "purge", "items", "publish"}
  <2>1. "other" \in DOMAIN StatusOf
    BY DEF StatusOf
  <2>2. Fail(r, "other")
    BY <1>1 DEF CallFails
  <2> QED
    BY <1>1, <2>1, <2>2, FailKeeps DEF CallFails, tables
<1>2. CASE pc[r] \in {"lookup", "begin", "delete", "lock"}
  <2>0. UNCHANGED <<live, deleted, bound, arg, err, names, emails, seen,
                    removed, todo, added>>
        /\ pc' = [pc EXCEPT ![r] = "5xx"]
    BY <1>2 DEF CallFails, Goto, tables
  <2>a. pc[r] \notin {"200", "5xx", "email", "items", "publish", "rollback",
                      "name", "purge"}
    BY <1>2
  <2> USE Frame, <2>0, <2>a DEF Creates
  <2>1. TypeOK'
    BY DEF Inv, TypeOK, Answers
  <2>2. Phases'
    BY DEF Inv, Phases, TypeOK
  <2>3. Registered'
    <3>1. \A q \in Requests : Restoring(q)' => Restoring(q)
      BY DEF Restoring, TypeOK, Inv
    <3> QED
      BY <3>1 DEF Inv, Registered, TypeOK
  <2>4. NameClaims'
    BY DEF Inv, NameClaims
  <2>5. EmailClaims'
    BY DEF Inv, EmailClaims
  <2>6. RowClaims'
    BY DEF Inv, RowClaims
  <2>7. Progress'
    BY DEF Inv, Progress, TypeOK, Steps
  <2>8. UniqueIndexesHold'
    BY DEF Inv, UniqueIndexesHold
  <2>9. AccountsComplete'
    BY DEF Inv, AccountsComplete
  <2> QED
    BY <2>1, <2>2, <2>3, <2>4, <2>5, <2>6, <2>7, <2>8, <2>9 DEF Inv
<1> QED
  BY <1>1, <1>2 DEF CallFails

-----------------------------------------------------------------------------
(* Index entries and rows.                                                 *)

(* The username entry: checked against live accounts and against the entries
   of transactions in progress. *)
LEMMA WriteNameKeeps ==
    ASSUME Inv, NEW r \in Requests, WriteName(r) PROVE Inv'
<1>1. CASE \E a \in live : SameName(a, Subject(r))
  <2>1. "unique" \in DOMAIN StatusOf
    BY DEF StatusOf
  <2> QED
    BY <1>1, <2>1, FailKeeps DEF WriteName, tables
<1>2. CASE \A a \in live : ~SameName(a, Subject(r))
  <2>0. UNCHANGED <<live, deleted, bound, arg, err, emails, seen, removed,
                    todo, added>>
        /\ names' = names \cup {r}
    BY <1>2 DEF WriteName, tables
  <2>a. /\ Kind(r) \in Creates \cup {"restore"}
        /\ Subject(r) \in Requests
        /\ Kind(r) \in Creates => Subject(r) = r
        /\ pc[r] = "name"
        /\ r \notin names /\ r \notin emails
    BY ArgTypes DEF WriteName, Inv, Phases
  <2>b. PICK l \in {"email", "items", "publish"} :
          /\ pc' = [pc EXCEPT ![r] = l]
          /\ l = "items" => Kind(r) = "createAdminUser"
          /\ l = "publish" => /\ Kind(r) = "restore"
                              /\ Kind(Subject(r)) # "createUser"
    BY <1>2, <2>a DEF WriteName, Goto, Creates
  <2>c. \A q \in names : ~SameName(Subject(q), Subject(r))
    BY <2>a DEF WriteName, Blockers, Inv, TypeOK
  <2> USE Frame, <2>0, <2>a, <2>b DEF Creates
  <2>1. TypeOK'
    BY DEF Inv, TypeOK, Steps
  <2>2. Phases'
    BY DEF Inv, Phases, TypeOK
  <2>3. Registered'
    <3>1. \A q \in Requests : Restoring(q)' => Restoring(q)
      BY DEF Restoring, TypeOK, Inv
    <3> QED
      BY <3>1 DEF Inv, Registered, TypeOK
  <2>4. NameClaims'
    BY <1>2, <2>c, Clashes DEF Inv, NameClaims
  <2>5. EmailClaims'
    BY DEF Inv, EmailClaims
  <2>6. RowClaims'
    BY DEF Inv, RowClaims
  <2>7. Progress'
    BY DEF Inv, Progress, TypeOK, Steps
  <2>8. UniqueIndexesHold'
    BY DEF Inv, UniqueIndexesHold
  <2>9. AccountsComplete'
    BY DEF Inv, AccountsComplete
  <2> QED
    BY <2>1, <2>2, <2>3, <2>4, <2>5, <2>6, <2>7, <2>8, <2>9 DEF Inv
<1> QED
  BY <1>1, <1>2

(* The email entry, by the same argument. *)
LEMMA WriteEmailKeeps ==
    ASSUME Inv, NEW r \in Requests, WriteEmail(r) PROVE Inv'
<1>1. CASE \E a \in live : SameEmail(a, Subject(r))
  <2>1. "unique" \in DOMAIN StatusOf
    BY DEF StatusOf
  <2> QED
    BY <1>1, <2>1, FailKeeps DEF WriteEmail, tables
<1>2. CASE \A a \in live : ~SameEmail(a, Subject(r))
  <2>0. UNCHANGED <<live, deleted, bound, arg, err, names, seen, removed,
                    todo, added>>
        /\ emails' = emails \cup {r}
    BY <1>2 DEF WriteEmail, tables
  <2>a. /\ Kind(r) \in Creates \cup {"restore"}
        /\ Subject(r) \in Requests
        /\ Kind(r) \in Creates => Subject(r) = r
        /\ pc[r] = "email"
        /\ r \in names /\ r \notin emails
    BY ArgTypes DEF WriteEmail, Inv, Phases
  <2>b. PICK l \in {"items", "publish"} :
          /\ pc' = [pc EXCEPT ![r] = l]
          /\ l = "publish" <=> Kind(r) = "restore"
    BY <1>2, <2>a DEF WriteEmail, Goto
  <2>c. \A q \in emails : ~SameEmail(Subject(q), Subject(r))
    BY <2>a DEF WriteEmail, Blockers, Inv, TypeOK
  <2> USE Frame, <2>0, <2>a, <2>b DEF Creates
  <2>1. TypeOK'
    BY DEF Inv, TypeOK, Steps
  <2>2. Phases'
    BY DEF Inv, Phases, TypeOK
  <2>3. Registered'
    <3>1. \A q \in Requests : Restoring(q)' => Restoring(q)
      BY DEF Restoring, TypeOK, Inv
    <3> QED
      BY <3>1 DEF Inv, Registered, TypeOK
  <2>4. NameClaims'
    BY DEF Inv, NameClaims
  <2>5. EmailClaims'
    BY <1>2, <2>c, Clashes DEF Inv, EmailClaims
  <2>6. RowClaims'
    BY DEF Inv, RowClaims
  <2>7. Progress'
    BY DEF Inv, Progress, TypeOK, Steps
  <2>8. UniqueIndexesHold'
    BY DEF Inv, UniqueIndexesHold
  <2>9. AccountsComplete'
    BY DEF Inv, AccountsComplete
  <2> QED
    BY <2>1, <2>2, <2>3, <2>4, <2>5, <2>6, <2>7, <2>8, <2>9 DEF Inv
<1> QED
  BY <1>1, <1>2

(* A sequence's first element and the others. *)
LEMMA HeadAndTail ==
    ASSUME NEW s \in Seq(Items), s # <<>>
    PROVE  /\ Head(s) \in Items
           /\ Tail(s) \in Seq(Items)
           /\ RangeOf(s) = {Head(s)} \cup RangeOf(Tail(s))
<1>1. Len(s) \in Nat /\ Len(s) >= 1 /\ DOMAIN s = 1..Len(s)
  OBVIOUS
<1>2. /\ Tail(s) \in Seq(Items) /\ Head(s) = s[1] /\ Head(s) \in Items
      /\ DOMAIN Tail(s) = 1..(Len(s) - 1)
      /\ \A i \in 1..(Len(s) - 1) : Tail(s)[i] = s[i + 1]
  BY <1>1
<1>3. ASSUME NEW x \in RangeOf(s) PROVE x \in {Head(s)} \cup RangeOf(Tail(s))
  <2>1. PICK i \in 1..Len(s) : x = s[i]
    BY <1>1 DEF RangeOf
  <2>2. CASE i = 1
    BY <1>2, <2>1, <2>2
  <2>3. CASE i # 1
    <3>1. i - 1 \in 1..(Len(s) - 1) /\ (i - 1) + 1 = i
      BY <1>1, <2>1, <2>3
    <3>2. x = Tail(s)[i - 1] /\ i - 1 \in DOMAIN Tail(s)
      BY <1>2, <2>1, <3>1
    <3> QED
      BY <3>2 DEF RangeOf
  <2> QED
    BY <2>2, <2>3
<1>4. ASSUME NEW x \in {Head(s)} \cup RangeOf(Tail(s)) PROVE x \in RangeOf(s)
  BY <1>1, <1>2 DEF RangeOf
<1> QED
  BY <1>2, <1>3, <1>4

(* A sequence is not the one that is left without its first element. *)
LEMMA LongerThanTail ==
    ASSUME NEW s \in Seq(Items), s # <<>>
    PROVE  Tail(s) # s
<1>1. Len(s) \in Nat /\ Len(s) >= 1 /\ DOMAIN s = 1..Len(s)
  OBVIOUS
<1>2. DOMAIN Tail(s) = 1..(Len(s) - 1)
  BY <1>1
<1>3. Len(s) \in DOMAIN s /\ Len(s) \notin DOMAIN Tail(s)
  BY <1>1, <1>2
<1> QED
  BY <1>3

(* A row for an item is inserted when no other row for it is committed,
   unless this transaction deleted it, or in progress. *)
LEMMA InsertItemKeeps ==
    ASSUME Inv, NEW r \in Requests, InsertItem(r) PROVE Inv'
<1> DEFINE item == Head(todo[r])
<1>1. CASE Fail(r, "unique") /\ UNCHANGED <<todo, added>>
  <2>1. "unique" \in DOMAIN StatusOf
    BY DEF StatusOf
  <2> QED
    BY <1>1, <2>1, FailKeeps DEF InsertItem, tables
<1>2. CASE Fail(r, "foreignKey") /\ UNCHANGED <<todo, added>>
  <2>1. "foreignKey" \in DOMAIN StatusOf
    BY DEF StatusOf
  <2> QED
    BY <1>2, <2>1, FailKeeps DEF InsertItem, tables
<1>3. CASE /\ ~Taken(r, item)
           /\ todo' = [todo EXCEPT ![r] = Tail(@)]
           /\ added' = [added EXCEPT ![r] = @ \cup {item}]
           /\ UNCHANGED <<pc, err, names, emails>>
  <2>0. /\ UNCHANGED <<live, deleted, bound, arg, pc, err, names, emails,
                       seen, removed>>
        /\ todo' = [todo EXCEPT ![r] = Tail(@)]
        /\ added' = [added EXCEPT ![r] = @ \cup {item}]
    BY <1>3 DEF InsertItem, tables
  <2>a. pc[r] = "items" /\ Kind(r) \in Creates \cup {"updateAdminUserRoles"}
    BY DEF InsertItem, Inv, Phases
  <2>b. /\ item \in Items /\ Tail(todo[r]) \in Seq(Items)
        /\ RangeOf(todo[r]) = {item} \cup RangeOf(Tail(todo[r]))
    BY HeadAndTail DEF InsertItem, Inv, TypeOK
  <2>c. /\ item \notin added[r]
        /\ \A row \in bound \ removed[r] : ~(row[1] = Subject(r) /\ row[2] = item)
    BY <1>3 DEF Taken
  <2>d. \A q \in Requests \ {r} :
          Subject(q) = Subject(r) => item \notin added[q]
    BY DEF InsertItem, Blockers, Touches
  <2> HIDE DEF item
  <2> USE Frame, <2>0, <2>a
  <2>1. TypeOK'
    BY <2>b DEF Inv, TypeOK
  <2>2. Phases'
    BY DEF Inv, Phases, TypeOK
  <2>3. Registered'
    BY DEF Inv, Registered, Restoring
  <2>4. NameClaims'
    BY DEF Inv, NameClaims
  <2>5. EmailClaims'
    BY DEF Inv, EmailClaims
  <2>6. RowClaims'
    BY <2>c, <2>d DEF Inv, RowClaims, TypeOK
  <2>7. Progress'
    BY <2>b DEF Inv, Progress, TypeOK
  <2>8. UniqueIndexesHold'
    BY DEF Inv, UniqueIndexesHold
  <2>9. AccountsComplete'
    BY DEF Inv, AccountsComplete
  <2> QED
    BY <2>1, <2>2, <2>3, <2>4, <2>5, <2>6, <2>7, <2>8, <2>9 DEF Inv
<1> QED
  BY <1>1, <1>2, <1>3 DEF InsertItem

-----------------------------------------------------------------------------
(* The end of a transaction.                                               *)

(* Without a commit everything the transaction held is dropped. *)
LEMMA DropKeeps ==
    ASSUME Inv, NEW r \in Requests, NEW l \in {"400", "409", "5xx"},
           pc[r] \in {"items", "rollback"},
           Goto(r, l), EndTx(r), UNCHANGED <<live, deleted, bound, arg, err>>
    PROVE  Inv'
<1>a. Kind(r) \in Creates \cup {"updateAdminUserRoles"}
  BY DEF Inv, Phases
<1>b. /\ pc' = [pc EXCEPT ![r] = l]
      /\ names' = names \ {r} /\ emails' = emails \ {r}
      /\ seen' = [seen EXCEPT ![r] = {}]
      /\ removed' = [removed EXCEPT ![r] = {}]
      /\ added' = [added EXCEPT ![r] = {}]
      /\ todo' = todo
  BY DEF Goto, EndTx
<1> USE Frame, <1>a, <1>b DEF Creates
<1>1. TypeOK'
  BY DEF Inv, TypeOK, Answers
<1>2. Phases'
  BY DEF Inv, Phases, TypeOK
<1>3. Registered'
  <2>1. \A q \in Requests : Restoring(q)' => Restoring(q)
    BY DEF Restoring, TypeOK, Inv
  <2> QED
    BY <2>1 DEF Inv, Registered, TypeOK
<1>4. NameClaims'
  BY DEF Inv, NameClaims
<1>5. EmailClaims'
  BY DEF Inv, EmailClaims
<1>6. RowClaims'
  BY DEF Inv, RowClaims, TypeOK
<1>7. Progress'
  BY DEF Inv, Progress, TypeOK, Steps
<1>8. UniqueIndexesHold'
  BY DEF Inv, UniqueIndexesHold
<1>9. AccountsComplete'
  BY DEF Inv, AccountsComplete
<1> QED
  BY <1>1, <1>2, <1>3, <1>4, <1>5, <1>6, <1>7, <1>8, <1>9 DEF Inv

(* A transaction that may commit: what it has inserted, and what its index
   entries exclude. *)
LEMMA ReadyToCommit ==
    ASSUME Inv, NEW r \in Requests, pc[r] = "items", todo[r] = <<>>
    PROVE  /\ Kind(r) \in Creates =>
                /\ Subject(r) = r
                /\ r \notin live \cup deleted
                /\ removed[r] = {}
                /\ added[r] = ItemsOf(r)
                /\ \A a \in live : ~Clash(a, r) /\ ~Clash(r, a)
                /\ \A row \in bound : row[1] # r
           /\ Kind(r) \notin Creates =>
                /\ Kind(r) = "updateAdminUserRoles"
                /\ Subject(r) \in live \cup deleted
                /\ Kind(Subject(r)) # "createUser"
           /\ Kind(r) = "createUser" => added[r] = {"wallet"}
<1>1. Kind(r) \in Creates => /\ Subject(r) = r
                             /\ r \notin live \cup deleted
                             /\ \A row \in bound : row[1] # r
  BY ArgTypes DEF Inv, Registered, AccountsComplete
<1>2. Kind(r) \in Creates => removed[r] = {}
  BY DEF Inv, Progress, Creates
<1>3. Kind(r) \in Creates => added[r] = ItemsOf(r)
  <2>1. RangeOf(<<>>) = {}
    BY DEF RangeOf
  <2> QED
    BY <2>1 DEF Inv, Progress, Steps
<1>4. Kind(r) \in Creates => \A a \in live : ~Clash(a, r) /\ ~Clash(r, a)
  BY <1>1, Clashes DEF Inv, Phases, NameClaims, EmailClaims, Creates
<1>5. Kind(r) \notin Creates => /\ Kind(r) = "updateAdminUserRoles"
                                /\ Subject(r) \in live \cup deleted
                                /\ Kind(Subject(r)) # "createUser"
  BY DEF Inv, Phases, Registered, Creates
<1>6. Kind(r) = "createUser" => added[r] = {"wallet"}
  <2>1. Kind(r) = "createUser" => arg[r].items = <<"wallet">>
    BY ArgTypes DEF Inv
  <2> QED
    BY <1>3, <2>1 DEF ItemsOf, Creates
<1> QED
  BY <1>1, <1>2, <1>3, <1>4, <1>5, <1>6

(* A commit makes an account and its rows, or a replacement of rows, visible
   at once; nobody else could get in the way of its index entries. *)
LEMMA PublishKeeps ==
    ASSUME Inv, NEW r \in Requests, NEW l \in {"200", "5xx"},
           pc[r] = "items", todo[r] = <<>>,
           Goto(r, l), Publish(r), EndTx(r), UNCHANGED <<arg, err>>
    PROVE  Inv'
<1> DEFINE new == {<<Subject(r), item, r>> : item \in added[r]}
<1>a. /\ Kind(r) \in Creates \cup {"updateAdminUserRoles"}
      /\ Subject(r) \in Requests
  BY ArgTypes DEF Inv, Phases
<1>b. /\ pc' = [pc EXCEPT ![r] = l]
      /\ names' = names \ {r} /\ emails' = emails \ {r}
      /\ seen' = [seen EXCEPT ![r] = {}]
      /\ removed' = [removed EXCEPT ![r] = {}]
      /\ added' = [added EXCEPT ![r] = {}]
      /\ todo' = todo
      /\ bound' = (bound \ removed[r]) \cup new
      /\ deleted' = deleted
      /\ live' = IF Kind(r) \in Creates THEN live \cup {r} ELSE live
  BY DEF Goto, EndTx, Publish
<1>c. \A row \in new :
        row[1] = Subject(r) /\ row[2] \in added[r] /\ row[3] = r
  OBVIOUS
<1>d. new \subseteq Requests \X Items \X Requests
  BY <1>a DEF Inv, TypeOK
<1>e. \A x, y \in new : x[2] = y[2] => x = y
  OBVIOUS
<1> HIDE DEF new
<1> USE Frame, <1>a, <1>b
<1>1. TypeOK'
  BY <1>d DEF Inv, TypeOK, Answers
<1>2. Phases'
  BY DEF Inv, Phases, TypeOK, Creates
<1>3. Registered'
  <2>1. \A q \in Requests : Restoring(q)' => Restoring(q)
    BY DEF Restoring, TypeOK, Inv, Creates
  <2>2. Kind(r) \in Creates => r \notin live \cup deleted
    BY ReadyToCommit
  <2>3. /\ live' \cap deleted' = {}
        /\ \A a \in live' \cup deleted' :
             Kind(a) \in Creates /\ pc'[a] \in {"200", "5xx"}
    BY <2>2 DEF Inv, Registered, TypeOK
  <2>4. /\ live \cup deleted \subseteq live' \cup deleted'
        /\ Kind(r) \in Creates => r \in live'
    OBVIOUS
  <2>5. \A q \in Requests :
          Kind(q) \in Creates /\ pc'[q] = "200" => q \in live' \cup deleted'
    BY <2>4 DEF Inv, Registered, TypeOK
  <2>6. \A q \in Requests :
          /\ pc'[q] \in {"begin", "scan", "purge", "items", "rollback"}
          /\ Kind(q) = "updateAdminUserRoles"
          => Subject(q) \in live' \cup deleted'
    BY <2>4 DEF Inv, Registered, TypeOK
  <2> QED
    BY <2>1, <2>3, <2>5, <2>6 DEF Inv, Registered
<1>4. NameClaims'
  BY ReadyToCommit, Clashes DEF Inv, NameClaims, Phases
<1>5. EmailClaims'
  <2>1. \A q \in emails : q # r /\ Kind(r) \in Creates =>
          ~SameEmail(r, Subject(q))
    BY ReadyToCommit, Clashes DEF Inv, EmailClaims, Phases
  <2> QED
    BY <2>1 DEF Inv, EmailClaims
<1>6. RowClaims'
  <2>1. ASSUME NEW q \in Requests, q # r
        PROVE  removed[q] \subseteq bound'
    BY <2>1 DEF Inv, RowClaims
  <2>2. ASSUME NEW q \in Requests, q # r, NEW item \in added[q],
               NEW row \in bound' \ removed[q]
        PROVE  ~(row[1] = Subject(q) /\ row[2] = item)
    BY <1>c, <2>2 DEF Inv, RowClaims
  <2> QED
    BY <2>1, <2>2 DEF Inv, RowClaims, TypeOK
<1>7. Progress'
  BY DEF Inv, Progress, TypeOK, Steps
<1>8. UniqueIndexesHold'
  <2>1. \A a, b \in live' : ~Clash(a, b)
    BY ReadyToCommit, Clashes DEF Inv, UniqueIndexesHold
  <2>2. ASSUME NEW x \in bound', NEW y \in bound', x[1] = y[1], x[2] = y[2]
        PROVE  x = y
    <3>1. ASSUME NEW u \in new, NEW v \in bound \ removed[r]
          PROVE  ~(u[1] = v[1] /\ u[2] = v[2])
      BY <1>c DEF Inv, RowClaims
    <3> QED
      BY <1>c, <1>e, <2>2, <3>1 DEF Inv, UniqueIndexesHold
  <2> QED
    BY <2>1, <2>2 DEF UniqueIndexesHold
<1>9. AccountsComplete'
  <2>1. \A row \in bound' : row[1] \in live' \cup deleted'
    BY <1>c, ReadyToCommit DEF Inv, AccountsComplete
  <2>2. ASSUME NEW a \in live' \cup deleted', Kind(a) = "createUser"
        PROVE  <<a, "wallet", a>> \in bound'
    <3>1. CASE a = r
      BY <2>2, <3>1, ReadyToCommit DEF new, Creates
    <3>2. CASE a # r
      <4>1. <<a, "wallet", a>> \in bound
        BY <2>2, <3>2 DEF Inv, AccountsComplete
      <4>2. <<a, "wallet", a>> \notin removed[r]
        BY <2>2, <3>2, ReadyToCommit DEF Inv, Progress
      <4> QED
        BY <4>1, <4>2
    <3> QED
      BY <3>1, <3>2
  <2> QED
    BY <2>1, <2>2 DEF AccountsComplete
<1> QED
  BY <1>1, <1>2, <1>3, <1>4, <1>5, <1>6, <1>7, <1>8, <1>9 DEF Inv

(* COMMIT, executed or not. *)
LEMMA CommitKeeps ==
    ASSUME Inv, NEW r \in Requests, Commit(r) PROVE Inv'
<1>1. CASE Publish(r) /\ Executed(r)
  <2>1. PICK l \in {"200", "5xx"} : Goto(r, l)
    BY <1>1 DEF Executed
  <2> QED
    BY <1>1, <2>1, PublishKeeps DEF Commit
<1>2. CASE UNCHANGED tables /\ Goto(r, "5xx")
  BY <1>2, DropKeeps DEF Commit, tables
<1> QED
  BY <1>1, <1>2 DEF Commit

(* ROLLBACK, and the connection that breaks. *)
LEMMA RollbackKeeps ==
    ASSUME Inv, NEW r \in Requests, Rollback(r) PROVE Inv'
<1>1. StatusOfTx(r) \in {"400", "409", "5xx"}
  <2>1. err[r] \in {"unique", "foreignKey", "other"}
    BY DEF Inv, TypeOK, StatusOf
  <2> QED
    BY <2>1 DEF StatusOfTx, StatusOf
<1>2. PICK l \in {"400", "409", "5xx"} : Goto(r, l)
  BY <1>1 DEF Rollback
<1> QED
  BY <1>2, DropKeeps DEF Rollback, tables

-----------------------------------------------------------------------------

(* The invariant holds at the start. *)
LEMMA InvInit == Init => Inv
<1> SUFFICES ASSUME Init PROVE Inv
  OBVIOUS
<1> USE RequestsAssumption DEF Init
<1>1. TypeOK
  <2>1. \A r \in Requests : arg[r].items \in Seq(Items)
    BY ArgsAssumption DEF ArgType
  <2> QED
    BY <2>1 DEF TypeOK, Steps, Answers, StatusOf
<1>a. \A row \in bound : row[1] \in live /\ row[3] = row[1]
  OBVIOUS
<1>2. Phases
  BY DEF Phases
<1>3. Registered
  BY <1>1, ArgTypes DEF Registered, Restoring
<1>4. NameClaims /\ EmailClaims
  BY DEF NameClaims, EmailClaims
<1>5. RowClaims
  BY DEF RowClaims
<1>6. Progress
  BY DEF Progress, ItemsOf, RangeOf
<1>7. UniqueIndexesHold
  <2>1. ASSUME NEW x \in bound, NEW y \in bound, x[1] = y[1], x[2] = y[2]
        PROVE  x = y
    BY <1>a, <2>1
  <2> QED
    BY <2>1 DEF UniqueIndexesHold
<1>8. AccountsComplete
  <2>1. ASSUME NEW a \in live, Kind(a) = "createUser"
        PROVE  <<a, "wallet", a>> \in bound
    <3>1. a \in Requests /\ arg[a].items = <<"wallet">>
      BY <1>1, <2>1, ArgTypes DEF TypeOK
    <3>2. "wallet" \in ItemsOf(a) /\ "wallet" \in Items
      BY <3>1 DEF ItemsOf, Items
    <3> QED
      BY <3>1, <3>2
  <2> QED
    BY <1>a, <2>1 DEF AccountsComplete
<1> QED
  BY <1>1, <1>2, <1>3, <1>4, <1>5, <1>6, <1>7, <1>8 DEF Inv

(* Every step of every handler keeps the invariant. *)
LEMMA InvStep == Inv /\ [Next]_vars => Inv'
<1> SUFFICES ASSUME Inv, [Next]_vars PROVE Inv'
  OBVIOUS
<1>1. ASSUME NEW r \in Requests, Handle(r) \/ CallFails(r) PROVE Inv'
  BY <1>1, BindKeeps, LookupKeeps, SoftDeleteKeeps, RestoreLockKeeps,
     RestorePublishKeeps, BeginTxKeeps, WriteNameKeeps, WriteEmailKeeps,
     DeleteScanKeeps, DeleteRowKeeps, DeleteDoneKeeps, InsertItemKeeps,
     DeadlockAbortKeeps, CallFailsKeeps, CommitKeeps, RollbackKeeps
     DEF Handle
<1>2. CASE UNCHANGED vars
  <2>1. UNCHANGED arg
    BY <1>2 DEF vars
  <2> USE <1>2, <2>1, Frame DEF vars, Inv
  <2>2. TypeOK' /\ Phases'
    BY DEF TypeOK, Phases
  <2>3. Registered' /\ NameClaims' /\ EmailClaims'
    BY DEF Registered, Restoring, NameClaims, EmailClaims
  <2>4. RowClaims' /\ Progress'
    BY DEF RowClaims, Progress
  <2>5. UniqueIndexesHold' /\ AccountsComplete'
    BY DEF UniqueIndexesHold, AccountsComplete
  <2> QED
    BY <2>2, <2>3, <2>4, <2>5
<1> QED
  BY <1>1, <1>2 DEF Next, Finished

(* The inductive invariant of the account handlers holds for ever. *)
THEOREM InvHolds == Spec => []Inv
BY InvInit, InvStep, PTL DEF Spec

(* The types of the account model, for any instance. *)
THEOREM TypeCorrect == Spec => []TypeOK
<1>1. Inv => TypeOK
  BY DEF Inv
<1> QED
  BY <1>1, InvHolds, PTL

(* Registrations, restorations and role updates that overlap never leave two
   live accounts with one username or email, nor one role twice. *)
THEOREM IndexesHold == Spec => []UniqueIndexesHold
<1>1. Inv => UniqueIndexesHold
  BY DEF Inv
<1> QED
  BY <1>1, InvHolds, PTL

(* No front-end user is ever without a wallet, no row without an account. *)
THEOREM Complete == Spec => []AccountsComplete
<1>1. Inv => AccountsComplete
  BY DEF Inv
<1> QED
  BY <1>1, InvHolds, PTL

(* The answers 200, 400 and 409 to a creation can be relied on. *)
THEOREM AnswersTrue == Spec => []AnswerMatchesTables
<1>1. Inv => AnswerMatchesTables
  BY DEF Inv, Registered, AnswerMatchesTables
<1> QED
  BY <1>1, InvHolds, PTL

-----------------------------------------------------------------------------
(* Replacing roles.  RolesReplacedAsWhole does not hold when replacements    *)
(* overlap; here it is shown to hold when they do not, so that the overlap   *)
(* is the only reason.                                                       *)

Updating(r) ==
    /\ Kind(r) = "updateAdminUserRoles"
    /\ pc[r] \in {"scan", "purge", "items", "rollback"}

(* No two transactions replace the roles of one account at a time. *)
InSequence ==
    \A q, r \in Requests :
        Updating(q) /\ Updating(r) /\ Subject(q) = Subject(r) => q = r

(* What a replacement has done to the account it is about: nothing of its
   list is lost, and no row escapes its DELETE. *)
Replacing(r) ==
    Kind(r) = "updateAdminUserRoles" =>
        /\ pc[r] \in Steps => ItemsOf(r) = added[r] \cup RangeOf(todo[r])
        /\ \A row \in bound : row[1] = Subject(r) =>
             /\ pc[r] = "purge" => row \in seen[r] \cup removed[r]
             /\ pc[r] = "items" => row \in removed[r]

Whole == RolesReplacedAsWhole /\ \A r \in Requests : Replacing(r)

(* A replacement is as far as before, with the rows there were before. *)
LEMMA ReplacingSame ==
    ASSUME NEW q, Replacing(q), UNCHANGED arg,
           \A row \in bound' : row[1] = Subject(q) /\ pc[q] \in {"purge", "items"}
                                => row \in bound,
           pc'[q] = pc[q], seen'[q] = seen[q], removed'[q] = removed[q],
           todo'[q] = todo[q], added'[q] = added[q]
    PROVE  Replacing(q)'
<1>1. Kind(q)' = Kind(q) /\ Subject(q)' = Subject(q) /\ ItemsOf(q)' = ItemsOf(q)
  BY Frame
<1> QED
  BY <1>1 DEF Replacing

(* Nothing that is visible changes, and no replacement gets further than the
   DELETE it has still to begin. *)
LEMMA WholeKept ==
    ASSUME Inv, Whole, UNCHANGED <<bound, arg>>,
           live' \cup deleted' = live \cup deleted,
           \A q \in Requests : Replacing(q)'
    PROVE  Whole'
<1>1. \A a : RolesOf(a)' = RolesOf(a)
  BY DEF RolesOf
<1>2. \A r \in Requests : Subject(r)' = Subject(r) /\ ItemsOf(r)' = ItemsOf(r)
  BY Frame
<1> QED
  BY <1>1, <1>2 DEF Whole, RolesReplacedAsWhole

(* Steps of requests that are at no DELETE and at no INSERT of a role after
   it, or that give up. *)
LEMMA QuietKeepsWhole ==
    ASSUME Inv, Whole, NEW r \in Requests, UNCHANGED <<bound, arg>>,
           live' \cup deleted' = live \cup deleted,
           \A q \in Requests \ {r} :
             /\ pc'[q] = pc[q] /\ seen'[q] = seen[q] /\ removed'[q] = removed[q]
             /\ todo'[q] = todo[q] /\ added'[q] = added[q],
           Kind(r) = "updateAdminUserRoles" =>
             /\ pc'[r] \notin {"purge", "items"}
             /\ pc'[r] \in Steps => /\ pc[r] \in Steps
                                    /\ todo'[r] = todo[r] /\ added'[r] = added[r]
    PROVE  Whole'
<1>1. ASSUME NEW q \in Requests \ {r} PROVE Replacing(q)'
  BY ReplacingSame DEF Whole
<1>2. Replacing(r)'
  <2>1. /\ Kind(r)' = Kind(r) /\ ItemsOf(r)' = ItemsOf(r)
        /\ Replacing(r)
    BY Frame DEF Whole
  <2> QED
    BY <2>1 DEF Replacing
<1> QED
  BY <1>1, <1>2, WholeKept

(* The steps of a replacement between its snapshot and its commit. *)
LEMMA ReplaceKeepsWhole ==
    ASSUME Inv, Whole, NEW r \in Requests,
           \/ DeleteScan(r) \/ DeleteRow(r) \/ DeleteDone(r)
           \/ /\ InsertItem(r)
              /\ pc' = pc /\ todo' = [todo EXCEPT ![r] = Tail(@)]
              /\ added' = [added EXCEPT ![r] = @ \cup {Head(todo[r])}]
    PROVE  Whole'
<1>1. /\ UNCHANGED <<bound, arg>> /\ live' \cup deleted' = live \cup deleted
      /\ \A q \in Requests \ {r} :
           /\ pc'[q] = pc[q] /\ seen'[q] = seen[q] /\ removed'[q] = removed[q]
           /\ todo'[q] = todo[q] /\ added'[q] = added[q]
  BY DEF DeleteScan, DeleteRow, DeleteDone, InsertItem, Goto, tables, tx, Inv,
         TypeOK
<1>2. ASSUME NEW q \in Requests \ {r} PROVE Replacing(q)'
  BY <1>1, ReplacingSame DEF Whole
<1>3. /\ Kind(r)' = Kind(r) /\ Subject(r)' = Subject(r)
      /\ ItemsOf(r)' = ItemsOf(r) /\ bound' = bound
      /\ Replacing(r)
  BY <1>1, Frame DEF Whole
<1>4. Replacing(r)'
  <2>1. CASE DeleteScan(r)
    <3>1. /\ pc[r] = "scan" /\ pc'[r] = "purge"
          /\ todo'[r] = todo[r] /\ added'[r] = added[r]
          /\ seen'[r] = {row \in bound : row[1] = Subject(r)}
      BY <2>1 DEF DeleteScan, Goto, Inv, TypeOK
    <3> QED
      BY <1>3, <3>1 DEF Replacing, Steps
  <2>2. CASE DeleteRow(r)
    <3>1. /\ pc[r] = "purge" /\ pc'[r] = "purge"
          /\ todo'[r] = todo[r] /\ added'[r] = added[r]
          /\ \E x : /\ seen'[r] = seen[r] \ {x}
                    /\ removed'[r] = removed[r] \cup ({x} \cap bound)
      BY <2>2 DEF DeleteRow, Inv, TypeOK
    <3> QED
      BY <1>3, <3>1 DEF Replacing
  <2>3. CASE DeleteDone(r)
    <3>1. /\ pc[r] = "purge" /\ pc'[r] = "items" /\ seen[r] = {}
          /\ todo'[r] = todo[r] /\ added'[r] = added[r]
          /\ removed'[r] = removed[r]
      BY <2>3 DEF DeleteDone, Goto, tx, Inv, TypeOK
    <3> QED
      BY <1>3, <3>1 DEF Replacing, Steps
  <2>4. CASE /\ InsertItem(r)
             /\ pc' = pc /\ todo' = [todo EXCEPT ![r] = Tail(@)]
             /\ added' = [added EXCEPT ![r] = @ \cup {Head(todo[r])}]
    <3>1. /\ pc[r] = "items" /\ pc'[r] = "items"
          /\ todo'[r] = Tail(todo[r])
          /\ added'[r] = added[r] \cup {Head(todo[r])}
          /\ removed'[r] = removed[r]
          /\ todo[r] \in Seq(Items) /\ todo[r] # <<>>
      BY <2>4 DEF InsertItem, Inv, TypeOK
    <3>2. RangeOf(todo[r]) = {Head(todo[r])} \cup RangeOf(Tail(todo[r]))
      BY <3>1, HeadAndTail
    <3> QED
      BY <1>3, <3>1, <3>2 DEF Replacing
  <2> QED
    BY <2>1, <2>2, <2>3, <2>4
<1> QED
  BY <1>1, <1>2, <1>4, WholeKept

(* A commit changes the rows of its account only, and leaves it those of its
   list. *)
LEMMA PublishKeepsWhole ==
    ASSUME Inv, Whole, InSequence, NEW r \in Requests, NEW l \in {"200", "5xx"},
           pc[r] = "items", todo[r] = <<>>,
           Goto(r, l), Publish(r), EndTx(r), UNCHANGED arg
    PROVE  Whole'
<1> DEFINE new == {<<Subject(r), item, r>> : item \in added[r]}
<1>1. /\ pc' = [pc EXCEPT ![r] = l] /\ todo' = todo
      /\ seen' = [seen EXCEPT ![r] = {}]
      /\ removed' = [removed EXCEPT ![r] = {}]
      /\ added' = [added EXCEPT ![r] = {}]
      /\ bound' = (bound \ removed[r]) \cup new
      /\ deleted' = deleted
      /\ live' = IF Kind(r) \in Creates THEN live \cup {r} ELSE live
  BY DEF Goto, EndTx, Publish
<1>2. /\ Subject(r) \in Requests
      /\ Kind(r) \in Creates => Subject(r) = r
      /\ Kind(r) \notin Creates => Subject(r) \in live \cup deleted
  BY ArgTypes, ReadyToCommit DEF Inv
<1>3. \A row \in removed[r] : row[1] = Subject(r)
  BY DEF Inv, Progress
<1>4. \A row \in bound : row[1] = Subject(r) => row \in removed[r]
  <2>1. CASE Kind(r) \in Creates
    BY <2>1, ReadyToCommit
  <2>2. CASE Kind(r) \notin Creates
    BY <2>2, ReadyToCommit DEF Whole, Replacing
  <2> QED
    BY <2>1, <2>2
<1>5. added[r] = ItemsOf(r)
  <2>1. CASE Kind(r) \in Creates
    BY <2>1, ReadyToCommit
  <2>2. CASE Kind(r) \notin Creates
    <3>1. RangeOf(todo[r]) = {}
      BY DEF RangeOf
    <3>2. ItemsOf(r) = added[r] \cup RangeOf(todo[r])
      BY <2>2, ReadyToCommit DEF Whole, Replacing, Steps
    <3> QED
      BY <3>1, <3>2
  <2> QED
    BY <2>1, <2>2
<1>6. \A row \in new : row[1] = Subject(r) /\ row[2] \in added[r]
  OBVIOUS
<1>7. ASSUME NEW item \in added[r] PROVE \E row \in new : row[2] = item
  <2>1. <<Subject(r), item, r>> \in new
    OBVIOUS
  <2> HIDE DEF new
  <2> QED
    BY <2>1
<1> HIDE DEF new
<1>8. /\ {row \in bound' : row[1] = Subject(r)} = new
      /\ \A a : a # Subject(r) =>
           \A row : row[1] = a => (row \in bound' <=> row \in bound)
  BY <1>1, <1>3, <1>4, <1>6
<1>9. RolesOf(Subject(r))' = ItemsOf(r)
  <2>1. {row[2] : row \in new} = added[r]
    BY <1>6, <1>7
  <2>2. Subject(r)' = Subject(r)
    BY Frame
  <2> QED
    BY <1>5, <1>8, <2>1, <2>2 DEF RolesOf
<1>10. RolesReplacedAsWhole'
  <2>1. \A q \in Requests : Subject(q)' = Subject(q) /\ ItemsOf(q)' = ItemsOf(q)
    BY Frame
  <2>2. ASSUME NEW a \in live' \cup deleted', a # Subject(r)
        PROVE  \E q \in Requests : Subject(q) = a /\ RolesOf(a)' = ItemsOf(q)
    <3>1. a \in live \cup deleted
      BY <1>1, <1>2, <2>2
    <3>2. RolesOf(a)' = RolesOf(a)
      BY <1>8, <2>2 DEF RolesOf
    <3> QED
      BY <3>1, <3>2 DEF Whole, RolesReplacedAsWhole
  <2> QED
    BY <1>9, <2>1, <2>2 DEF RolesReplacedAsWhole
<1>11. ASSUME NEW q \in Requests PROVE Replacing(q)'
  <2>1. CASE q = r
    <3>1. pc'[q] = l /\ l \notin Steps /\ l \notin {"purge", "items"}
      BY <1>1, <2>1 DEF Inv, TypeOK, Steps
    <3> QED
      BY <3>1 DEF Replacing
  <2>2. CASE q # r /\ Kind(q) = "updateAdminUserRoles" /\ pc[q] \in {"purge", "items"}
    <3>1. Subject(q) # Subject(r)
      <4>1. Subject(q) \in live \cup deleted
        BY <2>2 DEF Inv, Registered
      <4>2. CASE Kind(r) \in Creates
        BY <4>1, <4>2, ReadyToCommit
      <4>3. CASE Kind(r) \notin Creates
        BY <2>2, <4>3, ReadyToCommit DEF InSequence, Updating
      <4> QED
        BY <4>2, <4>3
    <3>2. /\ pc'[q] = pc[q] /\ seen'[q] = seen[q] /\ removed'[q] = removed[q]
          /\ todo'[q] = todo[q] /\ added'[q] = added[q]
      BY <1>1, <2>2 DEF Inv, TypeOK
    <3> QED
      BY <1>8, <3>1, <3>2, ReplacingSame DEF Whole
  <2>3. CASE q # r /\ ~(/\ Kind(q) = "updateAdminUserRoles"
                        /\ pc[q] \in {"purge", "items"})
    <3>1. /\ pc'[q] = pc[q] /\ todo'[q] = todo[q] /\ added'[q] = added[q]
      BY <1>1, <2>3 DEF Inv, TypeOK
    <3>2. /\ Kind(q)' = Kind(q) /\ ItemsOf(q)' = ItemsOf(q)
          /\ Replacing(q)
      BY Frame DEF Whole
    <3> QED
      BY <2>3, <3>1, <3>2 DEF Replacing
  <2> QED
    BY <2>1, <2>2, <2>3
<1> QED
  BY <1>10, <1>11 DEF Whole

(* Every step keeps the roles whole while replacements come one at a time. *)
LEMMA WholeStep ==
    ASSUME Inv, Whole, InSequence, [Next]_vars
    PROVE  Whole'
<1>1. ASSUME NEW r \in Requests,
             \/ Bind(r) \/ Lookup(r) \/ SoftDelete(r) \/ RestoreLock(r)
             \/ RestorePublish(r) \/ BeginTx(r) \/ WriteName(r) \/ WriteEmail(r)
             \/ DeadlockAbort(r) \/ CallFails(r) \/ Rollback(r)
             \/ InsertItem(r) /\ UNCHANGED <<todo, added>>
             \/ Commit(r) /\ UNCHANGED tables
      PROVE  Whole'
  <2>1. UNCHANGED <<bound, arg>> /\ live' \cup deleted' = live \cup deleted
    <3>1. CASE SoftDelete(r)
      BY <3>1 DEF SoftDelete
    <3>2. CASE RestorePublish(r)
      <4>1. Subject(r) \in deleted
        BY <3>2 DEF RestorePublish, Inv, Registered, Restoring, Phases
      <4> QED
        BY <3>2, <4>1 DEF RestorePublish
    <3>3. CASE UNCHANGED <<tables, arg>>
      BY <3>3 DEF tables
    <3> QED
      BY <1>1, <3>1, <3>2, <3>3 DEF Bind, Lookup, RestoreLock, BeginTx,
         WriteName, WriteEmail, DeadlockAbort, CallFails, Rollback, InsertItem,
         Commit
  <2>2. \A q \in Requests \ {r} :
          /\ pc'[q] = pc[q] /\ seen'[q] = seen[q] /\ removed'[q] = removed[q]
          /\ todo'[q] = todo[q] /\ added'[q] = added[q]
    BY <1>1 DEF Bind, Lookup, SoftDelete, RestoreLock, RestorePublish, BeginTx,
       WriteName, WriteEmail, DeadlockAbort, CallFails, Rollback, InsertItem,
       Commit, EndTx, Fail, Executed, Goto, tx, Inv, TypeOK
  <2>3. Kind(r) = "updateAdminUserRoles" =>
          /\ pc'[r] \notin {"purge", "items"}
          /\ pc'[r] \in Steps => /\ pc[r] \in Steps
                                 /\ todo'[r] = todo[r] /\ added'[r] = added[r]
    <3> SUFFICES ASSUME Kind(r) = "updateAdminUserRoles"
                 PROVE  /\ pc'[r] \notin {"purge", "items"}
                        /\ pc'[r] \in Steps =>
                             /\ pc[r] \in Steps
                             /\ todo'[r] = todo[r] /\ added'[r] = added[r]
      OBVIOUS
    <3>1. ~(\/ SoftDelete(r) \/ RestoreLock(r) \/ RestorePublish(r)
            \/ WriteName(r) \/ WriteEmail(r))
      BY DEF Inv, Phases, Creates, SoftDelete, RestoreLock, RestorePublish,
         WriteName, WriteEmail
    <3>2. CASE Bind(r) \/ Lookup(r) \/ BeginTx(r)
      BY <3>2 DEF Bind, Lookup, BeginTx, FirstCall, Goto, Creates, tx, Inv,
         TypeOK, Steps
    <3>3. CASE \/ DeadlockAbort(r) \/ CallFails(r)
               \/ InsertItem(r) /\ UNCHANGED <<todo, added>>
      <4>1. UNCHANGED <<todo, added>>
        BY <3>3 DEF DeadlockAbort, CallFails
      <4>2. pc[r] \in Steps
        BY <3>3 DEF DeadlockAbort, Deadlocked, Blockers, CallFails, InsertItem,
           Steps
      <4>3. pc'[r] \in {"5xx", "rollback"}
        <5>1. CASE CallFails(r)
          BY <5>1 DEF CallFails, Fail, Goto, Inv, TypeOK
        <5>2. CASE DeadlockAbort(r)
          BY <5>2 DEF DeadlockAbort, Fail, Goto, Inv, TypeOK
        <5>3. CASE InsertItem(r) /\ UNCHANGED <<todo, added>>
          <6>1. Fail(r, "unique") \/ Fail(r, "foreignKey")
            BY <5>3, HeadAndTail, LongerThanTail DEF InsertItem, Inv, TypeOK
          <6> QED
            BY <6>1 DEF Fail, Goto, Inv, TypeOK
        <5> QED
          BY <3>3, <5>1, <5>2, <5>3
      <4> QED
        BY <4>1, <4>2, <4>3
    <3>4. CASE Rollback(r) \/ Commit(r)
      <4>1. pc'[r] \in {"200", "400", "409", "5xx"}
        BY <3>4 DEF Rollback, Commit, Executed, StatusOfTx, StatusOf, Goto,
           Inv, TypeOK
      <4> QED
        BY <4>1 DEF Steps
    <3> QED
      BY <1>1, <3>1, <3>2, <3>3, <3>4, Zenon
  <2> QED
    BY <2>1, <2>2, <2>3, QuietKeepsWhole
<1>2. ASSUME NEW r \in Requests, InsertItem(r), ~UNCHANGED <<todo, added>>
      PROVE  Whole'
  <2>1. /\ pc' = pc /\ todo' = [todo EXCEPT ![r] = Tail(@)]
        /\ added' = [added EXCEPT ![r] = @ \cup {Head(todo[r])}]
    BY <1>2 DEF InsertItem
  <2> QED
    BY <1>2, <2>1, ReplaceKeepsWhole
<1>3. ASSUME NEW r \in Requests, DeleteScan(r) \/ DeleteRow(r) \/ DeleteDone(r)
      PROVE  Whole'
  BY <1>3, ReplaceKeepsWhole
<1>4. ASSUME NEW r \in Requests, Commit(r), Publish(r), Executed(r)
      PROVE  Whole'
  <2>1. PICK l \in {"200", "5xx"} : Goto(r, l)
    BY <1>4 DEF Executed
  <2> QED
    BY <1>4, <2>1, PublishKeepsWhole DEF Commit
<1>5. CASE UNCHANGED vars
  <2>1. \A q \in Requests : Replacing(q)'
    BY <1>5, ReplacingSame DEF vars, tx, tables, Whole
  <2> QED
    BY <1>5, <2>1, WholeKept DEF vars, tables
<1>6. ASSUME NEW r \in Requests, Handle(r) \/ CallFails(r) PROVE Whole'
  <2>1. Commit(r) => UNCHANGED tables \/ (Publish(r) /\ Executed(r))
    BY DEF Commit
  <2> QED
    BY <1>1, <1>2, <1>3, <1>4, <1>6, <2>1 DEF Handle
<1> QED
  BY <1>5, <1>6 DEF Next, Finished

(* Whoever replaces roles while nobody else does, on that account, replaces
   them as a whole, whatever fails and whatever else is going on: an account
   has the roles of one request, those it was created with or the last that
   were set. *)
THEOREM RolesWhole == Spec /\ []InSequence => []RolesReplacedAsWhole
<1>1. Init => Whole
  <2> SUFFICES ASSUME Init PROVE Whole
    OBVIOUS
  <2>1. RolesReplacedAsWhole
    <3>1. ASSUME NEW a \in live PROVE Subject(a) = a /\ RolesOf(a) = ItemsOf(a)
      <4>1. Subject(a) = a
        BY DEF Init, Subject
      <4>2. a \in Requests /\ ItemsOf(a) \subseteq Items
        BY InvInit, ArgTypes, RequestsAssumption DEF Init, Inv, ItemsOf
      <4>3. \A row \in bound : row[1] = a => row[2] \in ItemsOf(a)
        BY DEF Init
      <4>4. ASSUME NEW item \in ItemsOf(a)
            PROVE  \E row \in bound : row[1] = a /\ row[2] = item
        <5>1. <<a, item, a>> \in bound
          BY <4>2 DEF Init
        <5> QED
          BY <5>1
      <4> QED
        BY <4>1, <4>3, <4>4 DEF RolesOf
    <3> QED
      BY <3>1, RequestsAssumption DEF Init, RolesReplacedAsWhole
  <2>2. ASSUME NEW r \in Requests PROVE Replacing(r)
    BY DEF Init, Replacing, ItemsOf, RangeOf
  <2> QED
    BY <2>1, <2>2 DEF Whole
<1>2. Inv /\ Whole /\ InSequence /\ [Next]_vars => Whole'
  BY WholeStep
<1>3. Whole => RolesReplacedAsWhole
  BY DEF Whole
<1> QED
  BY <1>1, <1>2, <1>3, InvHolds, PTL DEF Spec

-----------------------------------------------------------------------------
(* Deadlocks.                                                              *)

(* Whatever is not a replacement of roles waits in the order of the calls:
   at lock for a restoration, at name for one that has written its name, at
   email for one that has written its email.  A creation never waits for its
   wallet or its roles: nobody else can have a row of an account that is not
   committed. *)
LEMMA WaitsForLater ==
    ASSUME Inv, NEW r \in Requests, Kind(r) # "updateAdminUserRoles",
           NEW q \in Blockers(r)
    PROVE  /\ q \in Requests /\ Kind(q) # "updateAdminUserRoles"
           /\ \/ pc[r] = "lock" /\ pc[q] \in {"name", "email", "publish"}
              \/ /\ pc[r] = "name"
                 /\ pc[q] \in {"email", "items", "publish", "rollback"}
              \/ pc[r] = "email" /\ pc[q] \in {"items", "publish", "rollback"}
<1>1. q \in Requests \ {r}
  BY DEF Blockers
<1>2. CASE pc[r] = "lock"
  BY <1>1, <1>2 DEF Blockers, Restoring
<1>3. CASE pc[r] = "name"
  BY <1>1, <1>3 DEF Blockers, Creates, Inv, Phases
<1>4. CASE pc[r] = "email"
  BY <1>1, <1>4 DEF Blockers, Creates, Inv, Phases
<1>5. pc[r] # "purge"
  BY DEF Inv, Phases
<1>6. CASE pc[r] = "items"
  <2>1. Subject(r) = r /\ r \notin live \cup deleted
    BY <1>6, ArgTypes DEF Inv, Phases, Registered
  <2>2. Touches(q, r)
    BY <1>6 DEF Blockers
  <2>3. Subject(q) = r /\ (added[q] # {} \/ removed[q] # {})
    BY <1>1, <2>1, <2>2 DEF Touches, Inv, Progress
  <2>4. /\ Kind(q) \in Creates \cup {"updateAdminUserRoles"}
        /\ pc[q] \in {"purge", "items", "rollback"}
    BY <1>1, <2>3 DEF Inv, Progress
  <2>5. Kind(q) \notin Creates
    BY <1>1, <2>3, ArgTypes DEF Inv
  <2>6. Subject(q) \in live \cup deleted
    BY <1>1, <2>4, <2>5 DEF Inv, Registered
  <2> QED
    BY <2>1, <2>3, <2>6
<1> QED
  BY <1>1, <1>2, <1>3, <1>4, <1>5, <1>6 DEF Blockers

(* However many registrations, restorations and deletions overlap, a request
   on a cycle of waiting transactions replaces the roles of an admin user. *)
THEOREM Deadlocks == Spec => []OnlyRoleUpdatesDeadlock
<1>1. ASSUME Inv PROVE OnlyRoleUpdatesDeadlock
  <2> SUFFICES ASSUME NEW r \in Requests, Deadlocked(r),
                      Kind(r) # "updateAdminUserRoles"
               PROVE  FALSE
    BY DEF OnlyRoleUpdatesDeadlock
  <2>1. PICK S \in SUBSET Requests : r \in S /\ Stuck(S)
    BY DEF Deadlocked
  <2>2. ASSUME NEW p \in S, Kind(p) # "updateAdminUserRoles"
        PROVE  \E q \in S :
                 /\ Kind(q) # "updateAdminUserRoles"
                 /\ \/ /\ pc[p] = "lock"
                       /\ pc[q] \in {"name", "email", "publish"}
                    \/ /\ pc[p] = "name"
                       /\ pc[q] \in {"email", "items", "publish", "rollback"}
                    \/ /\ pc[p] = "email"
                       /\ pc[q] \in {"items", "publish", "rollback"}
    <3>1. PICK q \in S : q \in Blockers(p)
      BY <2>1 DEF Stuck
    <3> QED
      BY <1>1, <2>2, <3>1, WaitsForLater
  <2>3. \A p \in S : Kind(p) # "updateAdminUserRoles" => pc[p] # "email"
    BY <2>2
  <2>4. \A p \in S : Kind(p) # "updateAdminUserRoles" => pc[p] # "name"
    BY <2>2, <2>3
  <2>5. \A p \in S : Kind(p) # "updateAdminUserRoles" => pc[p] # "lock"
    BY <2>2, <2>3, <2>4
  <2> QED
    BY <2>1, <2>2, <2>3, <2>4, <2>5
<1> QED
  BY <1>1, InvHolds, PTL

-----------------------------------------------------------------------------
(* Refinement.                                                             *)

(* The registry speaks of the same accounts, clashes and items. *)
LEMMA RegistryTerms ==
    /\ \A a : Registry!IsAccount(a) <=> Kind(a) \in Creates
    /\ \A a, b : Registry!Clash(a, b) <=> Clash(a, b)
    /\ \A a : Registry!ItemsOf(a) = ItemsOf(a)
BY DEF Registry!IsAccount, Registry!Clash, Registry!ItemsOf, Kind, Creates,
       Clash, SameName, SameEmail, ItemsOf

(* The initial tables are those of a registry. *)
LEMMA RefinementInit == Init => Registry!Init
<1> SUFFICES ASSUME Init PROVE Registry!Init
  OBVIOUS
<1> USE RequestsAssumption, RegistryTerms
<1>1. live \subseteq Requests /\ arg \in [Requests -> Args] /\ deleted = {}
  BY DEF Init
<1>2. \A a \in live : Kind(a) \in Creates /\ \A b \in live : ~Clash(a, b)
  BY DEF Init
<1>3. bound = {row \in Requests \X Items \X Requests :
                 /\ row[1] \in live
                 /\ row[2] \in ItemsOf(row[1])
                 /\ row[3] = row[1]}
  BY DEF Init
<1> QED
  BY <1>1, <1>2, <1>3 DEF Registry!Init

(* Every step is an operation of the registry or leaves the tables alone. *)
LEMMA RefinementStep ==
    Inv /\ Inv' /\ [Next]_vars => [Registry!Next]_(Registry!registryVars)
<1> SUFFICES ASSUME Inv, Inv', [Next]_vars
             PROVE  Registry!Next \/ UNCHANGED <<live, deleted, bound, arg>>
  BY DEF Registry!registryVars
<1> USE RegistryTerms
<1>1. ASSUME NEW r \in Requests, Handle(r) \/ CallFails(r)
      PROVE  Registry!Next \/ UNCHANGED <<live, deleted, bound, arg>>
  <2>1. CASE SoftDelete(r)
    <3>1. Subject(r) \in Requests
      BY ArgTypes DEF Inv
    <3>2. CASE Subject(r) \in live
      <4>1. Registry!Delete(Subject(r))
        BY <2>1, <3>2 DEF SoftDelete, Registry!Delete
      <4> QED
        BY <3>1, <4>1 DEF Registry!Next
    <3>3. CASE Subject(r) \notin live
      BY <2>1, <3>3 DEF SoftDelete
    <3> QED
      BY <3>2, <3>3
  <2>2. CASE RestorePublish(r)
    <3>1. Subject(r) \in Requests /\ Subject(r) \in deleted
      BY <2>2, ArgTypes DEF RestorePublish, Inv, Phases, Registered, Restoring
    <3>2. \A a \in live : ~Clash(Subject(r), a)
      BY <2>2, Clashes DEF RestorePublish, Inv, Phases, NameClaims, EmailClaims
    <3>3. Registry!Restore(Subject(r))
      BY <2>2, <3>1, <3>2 DEF RestorePublish, Registry!Restore
    <3> QED
      BY <3>1, <3>3 DEF Registry!Next
  <2>3. CASE Commit(r)
    <3>1. CASE UNCHANGED tables
      BY <2>3, <3>1 DEF Commit, tables
    <3>2. CASE Publish(r) /\ Kind(r) \in Creates
      <4>1. Registry!Register(r)
        BY <2>3, <3>2, ReadyToCommit DEF Commit, Publish, Registry!Register
      <4> QED
        BY <4>1 DEF Registry!Next
    <3>3. CASE Publish(r) /\ Kind(r) \notin Creates
      <4>1. Subject(r) \in Requests /\ Subject(r) \in live \cup deleted
        BY <2>3, <3>3, ReadyToCommit, ArgTypes DEF Commit, Inv
      <4>2. \A row \in removed[r] : row[1] = Subject(r)
        BY DEF Inv, Progress
      <4>3. {row \in bound' : row[1] # Subject(r)}
              = {row \in bound : row[1] # Subject(r)}
        BY <3>3, <4>2 DEF Publish
      <4>4. bound' \subseteq Requests \X Items \X Requests
        BY DEF Inv, TypeOK
      <4>5. Registry!OneRowPerItem(bound')
        BY DEF Inv, UniqueIndexesHold, Registry!OneRowPerItem
      <4>6. Registry!Rebind(Subject(r))
        BY <2>3, <3>3, <4>1, <4>3, <4>4, <4>5
           DEF Commit, Publish, Registry!Rebind
      <4> QED
        BY <4>1, <4>6 DEF Registry!Next
    <3> QED
      BY <2>3, <3>1, <3>2, <3>3 DEF Commit
  <2>4. CASE \/ Bind(r) \/ Lookup(r) \/ RestoreLock(r) \/ BeginTx(r)
             \/ WriteName(r) \/ WriteEmail(r) \/ DeleteScan(r) \/ DeleteRow(r)
             \/ DeleteDone(r) \/ InsertItem(r) \/ DeadlockAbort(r)
             \/ CallFails(r) \/ Rollback(r)
    BY <2>4 DEF Bind, Lookup, RestoreLock, BeginTx, WriteName, WriteEmail,
                DeleteScan, DeleteRow, DeleteDone, InsertItem, DeadlockAbort,
                CallFails, Rollback, tables
  <2> QED
    BY <1>1, <2>1, <2>2, <2>3, <2>4 DEF Handle
<1>2. CASE UNCHANGED vars
  BY <1>2 DEF vars
<1> QED
  BY <1>1, <1>2 DEF Next, Finished

(* The handlers, with their transactions, failures and deadlocks, implement
   the account registry. *)
THEOREM Refinement == Spec => ImplementsRegistry
<1>1. Init => Registry!Init
  BY RefinementInit
<1>2. Inv /\ Inv' /\ [Next]_vars => [Registry!Next]_(Registry!registryVars)
  BY RefinementStep
<1> QED
  BY <1>1, <1>2, InvHolds, PTL DEF Spec, ImplementsRegistry, Registry!Spec

=============================================================================
