------------------------------ MODULE Listings ------------------------------
(***************************************************************************)
(* The handlers that only read: paged listings, lookups by id, roles and   *)
(* the dashboard (api/user.go, admin_user.go, wallet.go, audit.go, role.go *)
(* and dashboard.go, with the queries of db/sqlc).                         *)
(*                                                                         *)
(* A listing reads its page in one statement and the total in another, so  *)
(* the table may change in between, and from page to page.  A behaviour    *)
(* follows one reader of one listing and the writers of that table: the    *)
(* rows inserted, soft deleted, restored or, for operation_logs, purged    *)
(* oldest first.  A row is its id; wallets have the id of their user.      *)
(***************************************************************************)
EXTENDS Integers, Sequences, FiniteSets, FiniteSetsExt, SequencesExt

CONSTANTS
    MaxId,         \* rows that a table ever has
    PageNums,      \* page numbers that are asked for
    PageSizes,     \* page sizes that are asked for
    MinPageSize, MaxPageSize,   \* 5 and 50 in the code
    MaxInt32,      \* the largest int32; offsets are computed in this type
    Roles,         \* roles of admin users
    RoleCodes,     \* permission codes of each role
    MaxInt64,      \* the largest bigint
    Faults         \* whether queries may fail

ASSUME BoundsAssumption ==
    /\ MaxId \in Nat
    /\ PageNums \subseteq Int /\ PageSizes \subseteq Int
    /\ MinPageSize \in Nat \ {0} /\ MaxPageSize \in Nat
    /\ MaxInt32 \in Nat /\ MaxPageSize <= MaxInt32 + 1
    /\ MaxInt64 \in Nat \ {0}
    /\ Faults \in BOOLEAN

VARIABLES
    list,     \* which listing this behaviour is about
    present,  \* ids in its table
    used,     \* ids that were ever in it
    gone,     \* ids that are soft deleted
    roles,    \* admin_user_roles
    balance,  \* balances of the wallets
    today,    \* operation_logs since the start of the day
    req,      \* the reader's request
    walk,     \* pages the reader has read one after the other
    seen,     \* rows on these pages
    stay      \* rows that matched all the time since the first of them

tables == <<present, used, gone, roles, balance, today>>
reader == <<req, walk, seen, stay>>
vars == <<list, tables, reader>>

Ids == 1..MaxId
Lists == {"users", "admins", "wallets", "entries", "logs", "roles", "dashboard"}

-----------------------------------------------------------------------------
(* The queries. *)

ListUsers(includeDeleted)      == {x \in present : includeDeleted \/ x \notin gone}
ListAdminUsers(includeDeleted) == {x \in present : includeDeleted \/ x \notin gone}
ListWallets                    == {x \in present : x \notin gone}
ListWalletEntries              == present
ListOperationLogs              == present

CountUsers(includeDeleted) ==
    Cardinality({x \in present : includeDeleted \/ x \notin gone})
(* Fault variant: the count leaves the deleted out although the page does
   not. *)
CountLiveAdminUsers(includeDeleted) ==
    Cardinality({x \in present : x \notin gone})
CountAdminUsers(includeDeleted) ==
    Cardinality({x \in present : includeDeleted \/ x \notin gone})
CountWallets       == Cardinality({x \in present : x \notin gone})
CountWalletEntries == Cardinality(present)
(* Fault variant: the total of today's rows, as on the dashboard. *)
CountOfToday       == today
CountOperationLogs == Cardinality(present)

ListRoles == Roles

(* admin_user_roles joined with roles, and role_permissions with
   permissions. *)
ListAdminUserRoles  == {p \in Ids \X Roles : p[2] \in roles[p[1]]}
ListRolePermissions ==
    {p \in Roles \X UNION {RoleCodes[r] : r \in Roles} : p[2] \in RoleCodes[p[1]]}

(* The sum is computed as a numeric; one beyond bigint cannot be cast. *)
SumWalletBalances == MapThenSumSet(LAMBDA x : balance[x], present \ gone)

CountOperationLogsSince == today

(* rolesByUser and permsByRole: who has no row gets an empty list. *)
Grouped(keys, pairs) == [k \in keys |-> {p[2] : p \in {q \in pairs : q[1] = k}}]

(* ORDER BY id, or id DESC for the two journals. *)
Ascending(l) == l \notin {"entries", "logs"}

Precedes(l, x, y) == IF Ascending(l) THEN x < y ELSE x > y

Sorted(l, S) ==
    CHOOSE s \in SetToSeqs(S) :
        \A i, j \in DOMAIN s : i < j => Precedes(l, s[i], s[j])

(* LIMIT and OFFSET. *)
Slice(s, offset, limit) == SubSeq(s, offset + 1, Min({offset + limit, Len(s)}))

(* int32(n): the range of the type is twice as long as its positive half. *)
Int32Range == 2 * (MaxInt32 + 1)
Int32(n) == ((n + MaxInt32 + 1) % Int32Range) - (MaxInt32 + 1)

(* Fault variant: pages are counted from 0. *)
OffsetFromZero(num, size) == Int32(num * size)

(* (req.PageNum - 1) * req.PageSize *)
Offset(num, size) == Int32((num - 1) * size)

-----------------------------------------------------------------------------
(* The reader. *)

NoRequest == [pc |-> "idle", status |-> 0, num |-> 0, size |-> 0, inc |-> FALSE,
              id |-> 0, rows |-> <<>>, total |-> 0, roles |-> <<>>, stats |-> <<>>,
              perms |-> {}]

(* The binding of pageNum and pageSize. *)
ValidPage(num, size) == num >= 1 /\ size \in MinPageSize..MaxPageSize

Init ==
    /\ list \in Lists
    /\ present = {} /\ used = {} /\ gone = {}
    /\ roles = [x \in Ids |-> {}]
    /\ balance = [x \in Ids |-> 0]
    /\ today = 0
    /\ req = NoRequest
    /\ walk = 0 /\ seen = {} /\ stay = {}

(* A page in the walk: the first, or the one after the last. *)
Follows(num, size, inc) ==
    num = 1 \/ (num = walk + 1 /\ size = req.size /\ inc = req.inc)

(* The request ends with an error; the reader starts again. *)
Failed(code) ==
    /\ req' = [NoRequest EXCEPT !.status = code]
    /\ walk' = 0 /\ seen' = {} /\ stay' = {}
    /\ UNCHANGED <<list, tables>>

(* ShouldBindQuery fails: pageNum or pageSize out of range. *)
Refuse(num, size) ==
    /\ req.pc = "idle"
    /\ list \in {"users", "admins", "wallets", "entries", "logs"}
    /\ ~ValidPage(num, size)
    /\ Failed(400)

(* The first query of a listing.  PostgreSQL refuses a negative OFFSET:
   failInternal. *)
FetchPage(S, num, size, inc) ==
    /\ req.pc = "idle"
    /\ ValidPage(num, size)
    /\ IF Offset(num, size) < 0 THEN Failed(500)
       ELSE /\ req' = [NoRequest EXCEPT
                         !.pc = "count", !.num = num, !.size = size, !.inc = inc,
                         !.rows = Slice(Sorted(list, S), Offset(num, size), size)]
            /\ walk' = IF Follows(num, size, inc) THEN num - 1 ELSE 0
            /\ seen' = IF Follows(num, size, inc) /\ num > 1 THEN seen ELSE {}
            /\ stay' = CASE num = 1                 -> S
                         [] Follows(num, size, inc) -> stay
                         [] OTHER                   -> {}
            /\ UNCHANGED <<list, tables>>

listUsers(num, size, inc) ==
    list = "users" /\ FetchPage(ListUsers(inc), num, size, inc)
listAdminUsers(num, size, inc) ==
    list = "admins" /\ FetchPage(ListAdminUsers(inc), num, size, inc)
listWallets(num, size) ==
    list = "wallets" /\ FetchPage(ListWallets, num, size, FALSE)
listWalletEntries(num, size) ==
    list = "entries" /\ FetchPage(ListWalletEntries, num, size, FALSE)
listOperationLogs(num, size) ==
    list = "logs" /\ FetchPage(ListOperationLogs, num, size, FALSE)

Total == CASE list = "users"   -> CountUsers(req.inc)
           [] list = "admins"  -> CountAdminUsers(req.inc)
           [] list = "wallets" -> CountWallets
           [] list = "entries" -> CountWalletEntries
           [] list = "logs"    -> CountOperationLogs

(* ok with a PageResult; the reader notes what it has seen. *)
Deliver(answer) ==
    /\ req' = [answer EXCEPT !.pc = "idle", !.status = 200]
    /\ walk' = IF walk = req.num - 1 THEN req.num ELSE 0
    /\ seen' = IF walk = req.num - 1 THEN seen \cup Range(req.rows) ELSE {}
    /\ UNCHANGED <<list, tables, stay>>

(* The second query. *)
CountRows ==
    /\ req.pc = "count"
    /\ IF list = "admins"
       THEN /\ req' = [req EXCEPT !.total = Total, !.pc = "roles"]
            /\ UNCHANGED <<list, tables, walk, seen, stay>>
       ELSE Deliver([req EXCEPT !.total = Total])

(* listAdminUsers reads all role bindings and puts them together in memory. *)
FetchRoles ==
    /\ req.pc = "roles"
    /\ Deliver([req EXCEPT !.roles = Grouped(Range(req.rows), ListAdminUserRoles)])

(* An id below 1 fails ShouldBindUri; sql.ErrNoRows is a 404. *)
Found(id, S) == CASE id < 1   -> 400
                  [] id \in S -> 200
                  [] OTHER    -> 404

(* GetUser, which finds deleted users as well. *)
getUser(id) ==
    /\ req.pc = "idle" /\ list = "users"
    /\ req' = [req EXCEPT !.id = id,
                          !.status = Found(id, present)]
    /\ UNCHANGED <<list, tables, walk, seen, stay>>

(* GetWalletDetail, also of deleted users. *)
getWallet(id) ==
    /\ req.pc = "idle" /\ list = "wallets"
    /\ req' = [req EXCEPT !.id = id,
                          !.status = Found(id, present)]
    /\ UNCHANGED <<list, tables, walk, seen, stay>>

(* ListRoles and ListRolePermissions; nothing changes these tables. *)
listRoles ==
    /\ req.pc = "idle" /\ list = "roles"
    /\ req' = [NoRequest EXCEPT !.status = 200,
                                !.roles = Grouped(ListRoles, ListRolePermissions)]
    /\ UNCHANGED <<list, tables, walk, seen, stay>>

Stats == {"user:read", "wallet:read", "operation_log:read"}

(* dashboardStats: up to three queries, one for each permission; a statistic
   that is left out stays null. *)
dashboardStats(perms) ==
    /\ req.pc = "idle" /\ list = "dashboard"
    /\ req' = [NoRequest EXCEPT !.pc = "users", !.perms = perms]
    /\ UNCHANGED <<list, tables, walk, seen, stay>>

Stat(code, value, next) ==
    /\ IF code \in req.perms
       THEN req' = [next EXCEPT !.stats = Append(@, value)]
       ELSE req' = next
    /\ UNCHANGED <<list, tables, walk, seen, stay>>

StatUsers ==
    /\ req.pc = "users"
    /\ Stat("user:read", CountUsers(FALSE), [req EXCEPT !.pc = "sum"])
StatWallets ==
    /\ req.pc = "sum"
    /\ IF "wallet:read" \in req.perms /\ SumWalletBalances > MaxInt64
       THEN Failed(500)
       ELSE Stat("wallet:read", SumWalletBalances, [req EXCEPT !.pc = "logs"])
StatLogs ==
    /\ req.pc = "logs"
    /\ Stat("operation_log:read", CountOperationLogsSince,
            [req EXCEPT !.pc = "idle", !.status = 200])

(* failInternal after any of the queries, the first of a request included. *)
QueryFails == Faults /\ Failed(500)

-----------------------------------------------------------------------------
(* The writers, as far as listings see them. *)

(* What still matches the reader's condition. *)
StillThere(rows, deleted) ==
    {x \in stay : x \in rows /\ (req.inc \/ x \notin deleted)}

(* A registration, a posting or an operation-log entry.  Rows become visible
   when their transactions commit, which need not be in the order of ids. *)
Insert(x) ==
    /\ list # "roles"
    /\ x \notin used
    /\ used' = used \cup {x}
    /\ present' = present \cup {x}
    /\ today' = IF list = "dashboard" THEN today + 1 ELSE today
    /\ UNCHANGED <<list, gone, roles, balance, req, walk, seen, stay>>

SoftDelete(x) ==
    /\ list \in {"users", "admins", "wallets", "dashboard"}
    /\ x \in present \ gone
    /\ gone' = gone \cup {x}
    /\ stay' = StillThere(present, gone')
    /\ UNCHANGED <<list, present, used, roles, balance, today, req, walk, seen>>

Restore(x) ==
    /\ x \in gone
    /\ gone' = gone \ {x}
    /\ UNCHANGED <<list, present, used, roles, balance, today, reader>>

(* The cleanup of module LogCleanup. *)
Purge(x) ==
    /\ list = "logs"
    /\ x \in present
    /\ present' = {y \in present : y > x}
    /\ stay' = StillThere(present', gone)
    /\ UNCHANGED <<list, used, gone, roles, balance, today, req, walk, seen>>

ReplaceRoles(x, R) ==
    /\ list = "admins"
    /\ x \in present
    /\ roles' = [roles EXCEPT ![x] = R]
    /\ UNCHANGED <<list, present, used, gone, balance, today, reader>>

Adjust(x) ==
    /\ list = "dashboard"
    /\ x \in present
    /\ balance[x] < MaxInt64
    /\ balance' = [balance EXCEPT ![x] = @ + 1]
    /\ UNCHANGED <<list, present, used, gone, roles, today, reader>>

Midnight ==
    /\ list = "dashboard"
    /\ today' = 0
    /\ UNCHANGED <<list, present, used, gone, roles, balance, reader>>

Read ==
    \/ \E num \in PageNums, size \in PageSizes :
          \/ Refuse(num, size)
          \/ \E inc \in BOOLEAN : listUsers(num, size, inc) \/ listAdminUsers(num, size, inc)
          \/ listWallets(num, size) \/ listWalletEntries(num, size)
          \/ listOperationLogs(num, size)
    \/ CountRows \/ FetchRoles
    \/ \E id \in 0..MaxId : getUser(id) \/ getWallet(id)
    \/ listRoles
    \/ \E perms \in SUBSET Stats : dashboardStats(perms)
    \/ StatUsers \/ StatWallets \/ StatLogs
    \/ QueryFails

Write ==
    \/ Midnight
    \/ \E x \in Ids : Insert(x) \/ SoftDelete(x) \/ Restore(x) \/ Purge(x) \/ Adjust(x)
    \/ \E x \in Ids, R \in SUBSET Roles : ReplaceRoles(x, R)

Next == Read \/ Write

Spec == Init /\ [][Next]_vars

-----------------------------------------------------------------------------

TypeOK ==
    /\ list \in Lists
    /\ present \subseteq used /\ used \subseteq Ids
    /\ gone \subseteq present
    /\ roles \in [Ids -> SUBSET Roles]
    /\ req.status \in {0, 200, 400, 404, 500}
    /\ req.pc \in {"idle", "count", "roles", "users", "sum", "logs"}
    /\ Range(req.rows) \subseteq used
    /\ Len(req.rows) <= MaxPageSize
    /\ seen \subseteq used /\ stay \subseteq present

(* Rows that come before x in the order of the listing. *)
Before(x, S) == {y \in S : IF list \in {"entries", "logs"} THEN y > x ELSE y < x}

(* Offsets that the arithmetic of the code may get wrong without noticing. *)
Exact(r) == (r.num - 1) * r.size < Int32Range

(* A page holds exactly the rows whose rank belongs to it.  Where the offset
   does not fit into an int32 the request is refused, not answered with other
   rows, as long as it is below 2^32. *)
PageRight ==
    [][req.pc = "idle" /\ req'.pc = "count" /\ Exact(req') =>
         Range(req'.rows) =
             LET S == {x \in present : req'.inc \/ x \notin gone}
             IN {x \in S : Cardinality(Before(x, S)) \in
                     (req'.num - 1) * req'.size .. req'.num * req'.size - 1}]_vars

(* Listings whose rows keep their order and never move to an earlier page. *)
Steady == list \in {"entries", "logs"} \/ (list \in {"users", "admins"} /\ req.inc)

(* Whoever pages through such a listing to its end, that is until the pages
   read make up the total that came with the last, has seen every row that
   was there all the time, however many were added, and purged from the end
   of the journal, between the pages and between page and total. *)
NothingSkipped ==
    /\ Steady
    /\ req.pc = "idle" /\ walk > 0 /\ walk = req.num
    /\ walk * req.size >= req.total
    => stay \subseteq seen

(* The total is read after the page and never falls short of it, where rows
   are not removed. *)
TotalCoversPage ==
    /\ Steady /\ list # "logs"
    /\ req.status = 200 /\ req.rows # <<>>
    /\ Exact(req) /\ req.pc = "idle"
    => req.total >= Offset(req.num, req.size) + Len(req.rows)

(* Types, and totals that fit their pages. *)
PagesInv == TypeOK /\ TotalCoversPage

(* Every row of the page of admin users comes with the roles the user has
   when they are read, users without any role included. *)
RolesShownRight ==
    [][req.pc = "roles" /\ req'.status = 200 =>
         req'.roles = [x \in Range(req.rows) |-> roles[x]]]_vars

(* The dashboard answers with one number for each permission, and with the
   true sum of the balances or not at all. *)
DashboardRight ==
    [][list = "dashboard" =>
         /\ req.pc = "sum" /\ req'.pc = "logs" /\ "wallet:read" \in req.perms
              => req'.stats[Len(req'.stats)] = FoldSet(LAMBDA x, s : s + balance[x], 0, present \ gone)
         /\ req.pc = "logs" /\ req'.status = 200
              => Len(req'.stats) = Cardinality(req.perms)]_vars

(* What the queries of one request return is put together rightly, whatever
   changed between them: pages, the roles shown with admin users, and the
   dashboard. *)
AnswersRight == PageRight /\ RolesShownRight /\ DashboardRight

=============================================================================
