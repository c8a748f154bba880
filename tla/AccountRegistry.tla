-------------------------- MODULE AccountRegistry --------------------------
(***************************************************************************)
(* What the account tables promise, without transactions, index entries in *)
(* progress, failures or answers: an account appears in one step together  *)
(* with its wallet or its roles, and only while no live account has its    *)
(* name or its email; it is deleted and restored as a whole; what is bound *)
(* to it never holds the same item twice.                                  *)
(*                                                                         *)
(* Accounts, the model of the code, is shown to implement this module.     *)
(***************************************************************************)
CONSTANTS
    Ids,      \* ids of accounts, and of the rows bound to them
    Items,    \* what can be bound to an account: its wallet, roles
    Args      \* names, emails and first items that accounts may have

VARIABLES
    live,     \* accounts with deleted_at NULL
    deleted,  \* accounts with deleted_at set
    bound,    \* rows of wallets and admin_user_roles: account, item, row id
    arg       \* what is registered under each id; never changes

registryVars == <<live, deleted, bound, arg>>

IsAccount(a) == arg[a].kind \in {"createUser", "createAdminUser"}

(* Usernames are unique per table, emails only exist in table users. *)
Clash(a, b) ==
    /\ a # b
    /\ arg[a].kind = arg[b].kind
    /\ \/ arg[a].name = arg[b].name
       \/ arg[a].kind = "createUser" /\ arg[a].email = arg[b].email

ItemsOf(a) == {arg[a].items[i] : i \in DOMAIN arg[a].items}

OneRowPerItem(rows) ==
    \A x, y \in rows : x[1] = y[1] /\ x[2] = y[2] => x = y

Init ==
    /\ arg \in [Ids -> Args]
    /\ live \subseteq Ids
    /\ \A a \in live : IsAccount(a) /\ \A b \in live : ~Clash(a, b)
    /\ deleted = {}
    /\ bound = {row \in Ids \X Items \X Ids :
                  /\ row[1] \in live
                  /\ row[2] \in ItemsOf(row[1])
                  /\ row[3] = row[1]}

Register(a) ==
    /\ IsAccount(a)
    /\ a \notin live \cup deleted
    /\ \A b \in live : ~Clash(a, b)
    /\ live' = live \cup {a}
    /\ bound' = bound \cup {<<a, item, a>> : item \in ItemsOf(a)}
    /\ UNCHANGED <<deleted, arg>>

Delete(a) ==
    /\ a \in live
    /\ live' = live \ {a}
    /\ deleted' = deleted \cup {a}
    /\ UNCHANGED <<bound, arg>>

Restore(a) ==
    /\ a \in deleted
    /\ \A b \in live : ~Clash(a, b)
    /\ live' = live \cup {a}
    /\ deleted' = deleted \ {a}
    /\ UNCHANGED <<bound, arg>>

(* Rows of one account are exchanged for others. *)
Rebind(a) ==
    /\ a \in live \cup deleted
    /\ bound' \subseteq Ids \X Items \X Ids
    /\ {row \in bound' : row[1] # a} = {row \in bound : row[1] # a}
    /\ OneRowPerItem(bound')
    /\ UNCHANGED <<live, deleted, arg>>

Next == \E a \in Ids : Register(a) \/ Delete(a) \/ Restore(a) \/ Rebind(a)

Spec == Init /\ [][Next]_registryVars

=============================================================================
