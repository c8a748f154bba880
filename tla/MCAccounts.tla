----------------------------- MODULE MCAccounts -----------------------------
(* Small instances of Accounts for TLC. *)
EXTENDS Accounts, TLC

CONSTANTS r0, r1, r2, r3, n1, n2, e1, e2, viewer, admin

Request(kind, name, email, target, items) ==
    [kind |-> kind, name |-> name, email |-> email, target |-> target,
     items |-> items]

(* The fields a request does not have get a fixed value. *)
Some == CHOOSE r \in Requests : TRUE

User(name, email) == Request("createUser", name, email, Some, <<"wallet">>)
Admin(name, ids) == Request("createAdminUser", name, e1, Some, ids)
Update(t, ids) == Request("updateAdminUserRoles", n1, e1, t, ids)

(* The account that exists, and requests of each kind that can get in each
   other's way by name, by email and by role. *)
Founded == {User(n1, e1), Admin(n1, <<>>), Admin(n1, <<viewer>>)}
Sent ==
    <<User(n1, e1), User(n2, e1), User(n1, e2),
      Admin(n1, <<viewer, viewer>>), Admin(n1, <<NoRole>>),
      Update(r0, <<admin, viewer>>), Update(r0, <<viewer, admin>>),
      Request("delete", n1, e1, r0, <<>>), Request("restore", n1, e1, r0, <<>>)>>

Replacements == {Update(r0, <<admin>>), Update(r0, <<viewer>>)}

MCArgs == Founded \cup {Sent[i] : i \in DOMAIN Sent} \cup Replacements

Rank(r) == CHOOSE i \in DOMAIN Sent : Sent[i] = arg[r]

(* Requests are alike, so one order of what they are is enough.  (A symmetry
   set cannot be used where liveness is checked.)  Table users and table
   admin_users have nothing in common: each behaviour is about one. *)
Representative ==
    /\ arg[r0] \in Founded
    /\ \A r \in {r1, r2, r3} : \E i \in DOMAIN Sent : arg[r] = Sent[i]
    /\ Rank(r1) =< Rank(r2) /\ Rank(r2) =< Rank(r3)
    /\ \/ \A r \in Requests : Kind(r) \notin {"createAdminUser", "updateAdminUserRoles"}
       \/ \A r \in Requests : Kind(r) # "createUser"

MCInit == Init /\ Representative

MCSpec == MCInit /\ [][Next]_vars /\ Fairness

(* Only replacements of the roles of one admin user. *)
ReplacementsSpec ==
    /\ Init
    /\ arg[r0] = Admin(n1, <<viewer>>)
    /\ \A r \in Requests \ Founders : arg[r] \in Replacements
    /\ [][Next]_vars
    /\ Fairness

=============================================================================
