------------------------------ MODULE Accounts ------------------------------
(***************************************************************************)
(* The handlers that change front-end users and admin users (api/user.go,  *)
(* api/admin_user.go) with their transactions (CreateUserTx,               *)
(* CreateAdminUserTx, UpdateAdminUserRolesTx and execTx, db/sqlc), on a    *)
(* PostgreSQL that runs at READ COMMITTED.                                 *)
(*                                                                         *)
(* Each statement is a step, and the INSERT of a user is two: PostgreSQL   *)
(* writes a row's entries into the unique indexes one after the other,     *)
(* username first, and waits whenever an entry in its way belongs to a     *)
(* transaction in progress.  DELETE FROM admin_user_roles sees the rows    *)
(* that were committed when it began and takes them one by one; rows that  *)
(* another transaction has deleted meanwhile are skipped, rows committed   *)
(* meanwhile are not seen.                                                 *)
(*                                                                         *)
(* An account is identified with the request that creates it, and a row of *)
(* wallets or admin_user_roles with the request that inserts it.           *)
(*                                                                         *)
(* Sessions and permissions are in AdminSession; deadlines, the pool and   *)
(* the answers to internal errors in detail are in WalletLedger.           *)
(***************************************************************************)
EXTENDS Naturals, FiniteSets, Sequences

CONSTANTS
    Requests,   \* requests; each is sent once
    Founders,   \* those whose account exists from the start
    Names,      \* usernames
    Emails,     \* emails
    Roles,      \* ids of the rows of table roles
    NoRole,     \* an id that is not in table roles
    Args,       \* what a request may be
    Faults      \* whether calls may fail

Items == Roles \cup {NoRole, "wallet"}

Creates == {"createUser", "createAdminUser"}

(* target is the account that the path names; items are what is inserted
   besides the account: the wallet, or the request's role_ids in order. *)
ArgType == [kind : Creates \cup {"updateAdminUserRoles", "delete", "restore"},
            name : Names, email : Emails, target : Requests,
            items : Seq(Items)]

ASSUME RequestsAssumption == IsFiniteSet(Requests) /\ Founders \subseteq Requests
ASSUME RolesAssumption    == NoRole \notin Roles /\ "wallet" \notin Roles \cup {NoRole}
ASSUME ArgsAssumption     ==
    /\ Args \subseteq ArgType
    /\ \A x \in Args : x.kind = "createUser" => x.items = <<"wallet">>
ASSUME FaultsAssumption   == Faults \in BOOLEAN

VARIABLES
    live,     \* committed accounts with deleted_at NULL
    deleted,  \* committed accounts with deleted_at set
    bound,    \* committed rows of wallets and admin_user_roles
    arg,      \* what each request is
    pc,       \* next call of each request, or its answer
    err,      \* the error the transaction's function returned
    names,    \* requests with an uncommitted entry in a username index
    emails,   \* the same for the email index
    seen,     \* rows the DELETE of a request has still to take
    removed,  \* rows it has taken
    todo,     \* items a request has still to insert
    added     \* items it has inserted, uncommitted

tables == <<live, deleted, bound>>
tx == <<names, emails, seen, removed, todo, added>>
vars == <<live, deleted, bound, arg, pc, err, names, emails, seen, removed,
          todo, added>>

Steps == {"bind", "lookup", "begin", "name", "email", "scan", "purge",
          "items", "rollback", "delete", "lock", "publish"}

(* Answers by HTTP status; "5xx" is any answer of failInternal. *)
Answers == {"200", "400", "404", "409", "5xx"}

StatusOf == [unique |-> "409", foreignKey |-> "400", other |-> "5xx"]

Kind(r) == arg[r].kind
Subject(r) == IF Kind(r) \in Creates THEN r ELSE arg[r].target

(* The partial unique indexes: a and b may not be live together. *)
SameName(a, b)  == a # b /\ Kind(a) = Kind(b) /\ arg[a].name = arg[b].name
SameEmail(a, b) ==
    /\ a # b
    /\ Kind(a) = "createUser" /\ Kind(b) = "createUser"
    /\ arg[a].email = arg[b].email
Clash(a, b) == SameName(a, b) \/ SameEmail(a, b)

ItemsOf(r) == {arg[r].items[i] : i \in DOMAIN arg[r].items}

Goto(r, label) == pc' = [pc EXCEPT ![r] = label]

Init ==
    /\ arg \in [Requests -> Args]
    /\ \A r \in Requests :
         Kind(r) = "updateAdminUserRoles" => Kind(Subject(r)) # "createUser"
    /\ \A f \in Founders :
         /\ Kind(f) \in Creates
         /\ NoRole \notin ItemsOf(f)
         /\ \A i, j \in DOMAIN arg[f].items :
              arg[f].items[i] = arg[f].items[j] => i = j
         /\ \A g \in Founders : ~Clash(f, g)
    /\ live = Founders
    /\ deleted = {}
    /\ bound = {row \in Requests \X Items \X Requests :
                  /\ row[1] \in live
                  /\ row[2] \in ItemsOf(row[1])
                  /\ row[3] = row[1]}
    /\ pc = [r \in Requests |-> IF r \in Founders THEN "200" ELSE "bind"]
    /\ err = [r \in Requests |-> "other"]
    /\ names = {} /\ emails = {}
    /\ seen = [r \in Requests |-> {}]
    /\ removed = [r \in Requests |-> {}]
    /\ todo = [r \in Requests |-> arg[r].items]
    /\ added = [r \in Requests |-> {}]

-----------------------------------------------------------------------------
(* Who waits for whom.                                                     *)

(* restoreUser updates a row: others that want to restore it wait. *)
Restoring(q) == Kind(q) = "restore" /\ pc[q] \in {"name", "email", "publish"}

(* A row of q in progress for the item that r is about to insert. *)
Touches(q, r) ==
    LET item == Head(todo[r]) IN
    \/ Subject(q) = Subject(r) /\ item \in added[q]
    \/ \E row \in removed[q] : row[1] = Subject(r) /\ row[2] = item

(* Fault variant: the wallet's INSERT waits for all registrations in
   progress, as if it took a lock on the table. *)
BlockersOfTable(r) ==
    {q \in Requests \ {r} :
       \/ pc[r] = "name" /\ q \in names /\ SameName(Subject(q), Subject(r))
       \/ pc[r] = "email" /\ q \in emails /\ SameEmail(Subject(q), Subject(r))
       \/ pc[r] = "items" /\ q \in names}

Blockers(r) ==
    {q \in Requests \ {r} :
       \/ pc[r] = "lock" /\ Restoring(q) /\ Subject(q) = Subject(r)
       \/ pc[r] = "name" /\ q \in names /\ SameName(Subject(q), Subject(r))
       \/ pc[r] = "email" /\ q \in emails /\ SameEmail(Subject(q), Subject(r))
       \/ pc[r] = "purge" /\ removed[q] \cap seen[r] # {}
       \/ pc[r] = "items" /\ todo[r] # <<>> /\ Touches(q, r)}

(* A set of requests each of which waits for another one of the set. *)
Stuck(S) == S # {} /\ \A q \in S : Blockers(q) \cap S # {}

(* r is on a cycle of waiting transactions. *)
Deadlocked(r) ==
    /\ Blockers(r) # {}
    /\ \E S \in SUBSET Requests :
        /\ r \in S
        /\ Stuck(S)
        /\ \A T \in SUBSET S : Stuck(T) => T = S

-----------------------------------------------------------------------------
(* Requests outside transactions.                                          *)

(* What the handler calls first. *)
FirstCall(r) == CASE Kind(r) \in Creates -> "begin"
                  [] Kind(r) = "updateAdminUserRoles" -> "lookup"
                  [] Kind(r) = "delete" -> "delete"
                  [] Kind(r) = "restore" -> "lock"

(* Binding may refuse the request; HashPassword refuses a password that is
   too long for bcrypt. *)
Bind(r) ==
    /\ pc[r] = "bind"
    /\ \/ Goto(r, FirstCall(r))
       \/ Goto(r, "400")
       \/ Kind(r) \in Creates /\ Goto(r, "5xx")
    /\ UNCHANGED <<tables, arg, err, tx>>

(* GetAdminUser in updateAdminUserRoles, before the transaction. *)
Lookup(r) ==
    /\ pc[r] = "lookup"
    /\ Goto(r, IF Subject(r) \in live THEN "begin" ELSE "404")
    /\ UNCHANGED <<tables, arg, err, tx>>

(* A statement of its own was executed; its answer may get lost. *)
Executed(r) == Goto(r, "200") \/ (Faults /\ Goto(r, "5xx"))

(* SoftDeleteUser, SoftDeleteAdminUser. *)
SoftDelete(r) ==
    /\ pc[r] = "delete"
    /\ \/ /\ Subject(r) \in live
          /\ live' = live \ {Subject(r)}
          /\ deleted' = deleted \cup {Subject(r)}
          /\ Executed(r)
       \/ /\ Subject(r) \notin live
          /\ Goto(r, "404")
          /\ UNCHANGED <<live, deleted>>
    /\ UNCHANGED <<bound, arg, err, tx>>

(* RestoreUser, RestoreAdminUser: the row is found and locked ... *)
RestoreLock(r) ==
    /\ pc[r] = "lock"
    /\ Blockers(r) = {}
    /\ Goto(r, IF Subject(r) \in deleted THEN "name" ELSE "404")
    /\ UNCHANGED <<tables, arg, err, tx>>

(* ... and visible as soon as its index entries are written (below). *)
RestorePublish(r) ==
    /\ pc[r] = "publish"
    /\ live' = live \cup {Subject(r)}
    /\ deleted' = deleted \ {Subject(r)}
    /\ names' = names \ {r}
    /\ emails' = emails \ {r}
    /\ Executed(r)
    /\ UNCHANGED <<bound, arg, err, seen, removed, todo, added>>

-----------------------------------------------------------------------------
(* Statements that a transaction or a restoration makes.                   *)

(* A statement returns an error.  A restoration is undone at once, the
   function given to execTx returns. *)
Fail(r, e) ==
    \/ /\ Kind(r) = "restore"
       /\ Goto(r, StatusOf[e])
       /\ names' = names \ {r}
       /\ emails' = emails \ {r}
       /\ UNCHANGED err
    \/ /\ Kind(r) # "restore"
       /\ Goto(r, "rollback")
       /\ err' = [err EXCEPT ![r] = e]
       /\ UNCHANGED <<names, emails>>

BeginTx(r) ==
    /\ pc[r] = "begin"
    /\ Goto(r, IF Kind(r) \in Creates THEN "name" ELSE "scan")
    /\ UNCHANGED <<tables, arg, err, tx>>

(* Fault variant: the handler looks the name up before it inserts, and there
   is no unique index. *)
WriteNameUnchecked(r) ==
    /\ pc[r] = "name"
    /\ \/ /\ \E a \in live : SameName(a, Subject(r))
          /\ Fail(r, "unique")
       \/ /\ \A a \in live : ~SameName(a, Subject(r))
          /\ names' = names \cup {r}
          /\ Goto(r, CASE Kind(Subject(r)) = "createUser" -> "email"
                       [] Kind(r) = "createAdminUser" -> "items"
                       [] OTHER -> "publish")
          /\ UNCHANGED <<err, emails>>
    /\ UNCHANGED <<tables, arg, seen, removed, todo, added>>

(* The entry in the index on username. *)
WriteName(r) ==
    /\ pc[r] = "name"
    /\ Blockers(r) = {}
    /\ \/ /\ \E a \in live : SameName(a, Subject(r))
          /\ Fail(r, "unique")
       \/ /\ \A a \in live : ~SameName(a, Subject(r))
          /\ names' = names \cup {r}
          /\ Goto(r, CASE Kind(Subject(r)) = "createUser" -> "email"
                       [] Kind(r) = "createAdminUser" -> "items"
                       [] OTHER -> "publish")
          /\ UNCHANGED <<err, emails>>
    /\ UNCHANGED <<tables, arg, seen, removed, todo, added>>

(* Fault variant: the index on email is not partial but missing. *)
WriteEmailUnchecked(r) ==
    /\ pc[r] = "email"
    /\ emails' = emails \cup {r}
    /\ Goto(r, IF Kind(r) = "restore" THEN "publish" ELSE "items")
    /\ UNCHANGED <<tables, arg, err, names, seen, removed, todo, added>>

(* The entry in the index on email, which only table users has. *)
WriteEmail(r) ==
    /\ pc[r] = "email"
    /\ Blockers(r) = {}
    /\ \/ /\ \E a \in live : SameEmail(a, Subject(r))
          /\ Fail(r, "unique")
       \/ /\ \A a \in live : ~SameEmail(a, Subject(r))
          /\ emails' = emails \cup {r}
          /\ Goto(r, IF Kind(r) = "restore" THEN "publish" ELSE "items")
          /\ UNCHANGED <<err, names>>
    /\ UNCHANGED <<tables, arg, seen, removed, todo, added>>

(* Fault variant: role ids are collected instead of rows. *)
DeleteScanRoles(r) ==
    /\ pc[r] = "scan"
    /\ seen' = [seen EXCEPT ![r] =
                  {row[2] : row \in {row \in bound : row[1] = Subject(r)}}]
    /\ Goto(r, "purge")
    /\ UNCHANGED <<tables, arg, err, names, emails, removed, todo, added>>

(* DeleteAdminUserRoles begins: its snapshot. *)
DeleteScan(r) ==
    /\ pc[r] = "scan"
    /\ seen' = [seen EXCEPT ![r] = {row \in bound : row[1] = Subject(r)}]
    /\ Goto(r, "purge")
    /\ UNCHANGED <<tables, arg, err, names, emails, removed, todo, added>>

(* It takes one of the rows, unless somebody else did. *)
DeleteRow(r) ==
    /\ pc[r] = "purge"
    /\ \E row \in seen[r] :
         /\ \A q \in Requests \ {r} : row \notin removed[q]
         /\ seen' = [seen EXCEPT ![r] = @ \ {row}]
         /\ removed' = [removed EXCEPT ![r] = @ \cup ({row} \cap bound)]
    /\ UNCHANGED <<tables, arg, pc, err, names, emails, todo, added>>

DeleteDone(r) ==
    /\ pc[r] = "purge"
    /\ seen[r] = {}
    /\ Goto(r, "items")
    /\ UNCHANGED <<tables, arg, err, tx>>

(* The row for item is in the way of r: committed and not removed by r
   itself, or inserted by r before. *)
Taken(r, item) ==
    \/ item \in added[r]
    \/ \E row \in bound \ removed[r] : row[1] = Subject(r) /\ row[2] = item

(* CreateWallet, CreateAdminUserRole: primary key, then foreign key. *)
InsertItem(r) ==
    /\ pc[r] = "items"
    /\ todo[r] # <<>>
    /\ Blockers(r) = {}
    /\ LET item == Head(todo[r]) IN
       \/ /\ Taken(r, item)
          /\ Fail(r, "unique")
          /\ UNCHANGED <<todo, added>>
       \/ /\ ~Taken(r, item)
          /\ item = NoRole
          /\ Fail(r, "foreignKey")
          /\ UNCHANGED <<todo, added>>
       \/ /\ ~Taken(r, item)
          /\ item # NoRole
          /\ todo' = [todo EXCEPT ![r] = Tail(@)]
          /\ added' = [added EXCEPT ![r] = @ \cup {item}]
          /\ UNCHANGED <<pc, err, names, emails>>
    /\ UNCHANGED <<tables, arg, seen, removed>>

(* PostgreSQL breaks a cycle of waiting transactions. *)
DeadlockAbort(r) ==
    /\ Deadlocked(r)
    /\ Fail(r, "other")
    /\ UNCHANGED <<tables, arg, seen, removed, todo, added>>

(* A call fails for reasons of its own, without effect. *)
CallFails(r) ==
    /\ Faults
    /\ \/ /\ pc[r] \in {"lookup", "begin", "delete", "lock"}
          /\ Goto(r, "5xx")
          /\ UNCHANGED <<err, names, emails>>
       \/ /\ pc[r] \in {"name", "email", "scan", "purge", "items", "publish"}
          /\ Fail(r, "other")
    /\ UNCHANGED <<tables, arg, seen, removed, todo, added>>

-----------------------------------------------------------------------------
(* The end of execTx.                                                      *)

(* Fault variant: the entry in the username index stays. *)
EndTxKeepsName(r) ==
    /\ emails' = emails \ {r}
    /\ seen' = [seen EXCEPT ![r] = {}]
    /\ removed' = [removed EXCEPT ![r] = {}]
    /\ added' = [added EXCEPT ![r] = {}]
    /\ UNCHANGED <<names, todo>>

(* The server forgets the transaction's entries and locks. *)
EndTx(r) ==
    /\ names' = names \ {r}
    /\ emails' = emails \ {r}
    /\ seen' = [seen EXCEPT ![r] = {}]
    /\ removed' = [removed EXCEPT ![r] = {}]
    /\ added' = [added EXCEPT ![r] = {}]
    /\ UNCHANGED todo

(* Fault variant: the wallet or the roles are inserted outside the
   transaction and get lost. *)
PublishAccountOnly(r) ==
    /\ live' = IF Kind(r) \in Creates THEN live \cup {r} ELSE live
    /\ bound' = bound \ removed[r]
    /\ UNCHANGED deleted

(* What a commit makes visible. *)
Publish(r) ==
    /\ live' = IF Kind(r) \in Creates THEN live \cup {r} ELSE live
    /\ bound' = (bound \ removed[r]) \cup
                  {<<Subject(r), item, r>> : item \in added[r]}
    /\ UNCHANGED deleted

(* COMMIT: an error means that it was not executed, or that its answer was
   lost. *)
Commit(r) ==
    /\ pc[r] = "items"
    /\ todo[r] = <<>>
    /\ \/ Publish(r) /\ Executed(r)
       \/ Faults /\ UNCHANGED tables /\ Goto(r, "5xx")
    /\ EndTx(r)
    /\ UNCHANGED <<arg, err>>

(* How the handlers answer the function's error: updateAdminUserRoles does
   not look for unique_violation. *)
StatusOfTx(r) ==
    IF Kind(r) = "updateAdminUserRoles" /\ err[r] = "unique"
    THEN "5xx" ELSE StatusOf[err[r]]

(* Fault variant: execTx commits although the function failed. *)
RollbackCommits(r) ==
    /\ pc[r] = "rollback"
    /\ Publish(r)
    /\ Goto(r, StatusOfTx(r))
    /\ EndTx(r)
    /\ UNCHANGED <<arg, err>>

(* When tx.Rollback fails, execTx formats the function's error with %v and
   the handlers no longer recognise it. *)
Rollback(r) ==
    /\ pc[r] = "rollback"
    /\ \/ Goto(r, StatusOfTx(r))
       \/ Faults /\ Goto(r, "5xx")
    /\ EndTx(r)
    /\ UNCHANGED <<tables, arg, err>>

-----------------------------------------------------------------------------

(* What the handler and PostgreSQL do unless a call fails. *)
Handle(r) ==
    \/ Bind(r) \/ Lookup(r) \/ SoftDelete(r)
    \/ RestoreLock(r) \/ RestorePublish(r)
    \/ BeginTx(r) \/ WriteName(r) \/ WriteEmail(r)
    \/ DeleteScan(r) \/ DeleteRow(r) \/ DeleteDone(r) \/ InsertItem(r)
    \/ DeadlockAbort(r)
    \/ Commit(r) \/ Rollback(r)

(* Every request has been answered: nothing more has to happen. *)
Finished ==
    /\ \A r \in Requests : pc[r] \in Answers
    /\ UNCHANGED vars

Next == (\E r \in Requests : Handle(r) \/ CallFails(r)) \/ Finished

(* The handler's goroutine runs, and PostgreSQL looks for deadlocks.  That a
   call fails is not owed, so nobody is freed by a failure. *)
Fairness == \A r \in Requests : WF_vars(Handle(r))

Spec == Init /\ [][Next]_vars /\ Fairness

-----------------------------------------------------------------------------

(* Types. *)
TypeOK ==
    /\ live \subseteq Requests /\ deleted \subseteq Requests
    /\ bound \subseteq Requests \X Items \X Requests
    /\ arg \in [Requests -> Args]
    /\ pc \in [Requests -> Steps \cup Answers]
    /\ err \in [Requests -> DOMAIN StatusOf]
    /\ names \subseteq Requests /\ emails \subseteq Requests
    /\ seen \in [Requests -> SUBSET (Requests \X Items \X Requests)]
    /\ removed \in [Requests -> SUBSET (Requests \X Items \X Requests)]
    /\ todo \in [Requests -> Seq(Items)]
    /\ added \in [Requests -> SUBSET Items]

(* No two live accounts share a username or an email, and no account has a
   role or a wallet twice, although registrations, restorations and role
   updates look at the indexes while others are half done with them. *)
UniqueIndexesHold ==
    /\ \A a, b \in live : ~Clash(a, b)
    /\ \A x, y \in bound : x[1] = y[1] /\ x[2] = y[2] => x = y

(* CreateUserTx and CreateAdminUserTx: no wallet or role without its
   account, no front-end user without a wallet, and deleting and restoring
   an account never separates it from what it has. *)
AccountsComplete ==
    /\ \A row \in bound : row[1] \in live \cup deleted
    /\ \A a \in live \cup deleted :
         Kind(a) = "createUser" => <<a, "wallet", a>> \in bound

(* What a client may conclude from the answer to a creation: 200 means that
   the account exists, 400 and 409 that it does not and never will. *)
AnswerMatchesTables ==
    \A r \in Requests :
        Kind(r) \in Creates =>
            /\ pc[r] = "200" => r \in live \cup deleted
            /\ pc[r] \in {"400", "409"} => r \notin live \cup deleted

(* The two index entries of a user are written one after the other while
   others do the same; still only replacements of roles can deadlock. *)
OnlyRoleUpdatesDeadlock ==
    \A r \in Requests : Deadlocked(r) => Kind(r) = "updateAdminUserRoles"

(* Nobody waits for ever for an index entry, a row or a lock. *)
EveryRequestAnswered == \A r \in Requests : <>(pc[r] \in Answers)

(* The handlers implement the registry: seen through the committed rows,
   every step is one complete operation or nothing. *)
Registry == INSTANCE AccountRegistry WITH Ids <- Requests
ImplementsRegistry == Registry!Spec

RolesOf(a) == {row[2] : row \in {row \in bound : row[1] = a}}

(* What updateAdminUserRoles and NOTES.md promise: the roles are replaced as
   a whole, so an account always has exactly the roles that one request
   asked for. *)
RolesReplacedAsWhole ==
    \A a \in live \cup deleted :
        \E r \in Requests : Subject(r) = a /\ RolesOf(a) = ItemsOf(r)

=============================================================================
