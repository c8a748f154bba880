---------------------------- MODULE AdminSession ----------------------------
(***************************************************************************)
(* Sessions of the admin users: login, the authentication every other      *)
(* request starts with, logout, password change, and the administration of *)
(* accounts that has to end sessions (api/auth.go, api/middleware.go,      *)
(* api/admin_user.go).                                                     *)
(*                                                                         *)
(* A session is two Redis keys, session:<token> with the user and the      *)
(* permissions at login, and admin_session:<user> with the token (the      *)
(* reverse index).  They are written, renewed and deleted by separate      *)
(* round trips, next to database calls that do not know of them, so        *)
(* requests interleave between any two calls.  Every call is one step.     *)
(*                                                                         *)
(* A token is a fresh UUID: here it is the login request that made it.     *)
(* The payload of session:<token> never changes, so it is read from the    *)
(* record of that request (fields user and write).  Of the permissions,    *)
(* only admin_user:write matters here.  The failed-login counter is module *)
(* LoginThrottle; accounts and the rows of their roles are in Accounts.    *)
(***************************************************************************)
EXTENDS Integers, FiniteSets

CONSTANTS
    Users,             \* admin users
    InitialOperators,  \* those whose roles give admin_user:write at first
    Requests,          \* requests; each is sent once
    Kinds,             \* the kinds of request that are sent
    None,              \* no user, no token
    TokenDuration,     \* TOKEN_DURATION, in clock ticks
    Isolated,          \* whether a request is served only after the last one
    ClockRuns,         \* whether time passes while a request is served
    Faults             \* whether Redis and database calls may fail

AllKinds == {"login", "me", "logout", "changePassword", "delete", "restore",
             "grantRoles", "revokeRoles"}

ASSUME OperatorsAssumption == InitialOperators \subseteq Users
ASSUME KindsAssumption     == Kinds \subseteq AllKinds
ASSUME NoneAssumption      == None \notin Users \cup Requests \cup AllKinds
ASSUME DurationAssumption  == TokenDuration \in Nat \ {0}
ASSUME SwitchAssumption    == {Isolated, ClockRuns, Faults} \subseteq BOOLEAN

VARIABLES
    deleted,    \* admin_users with deleted_at set
    operators,  \* admin users whose roles give admin_user:write
    password,   \* version of each user's password
    session,    \* ticks session:<token> has left; 0 when it does not exist
    index,      \* value of admin_session:<user>; None when it does not exist
    indexTTL,   \* ticks that key has left
    req         \* what each request is, knows and is about to do

db == <<deleted, operators, password>>
redis == <<session, index, indexTTL>>
vars == <<deleted, operators, password, session, index, indexTTL, req>>

(* The next call of a request. *)
LoginSteps  == {"fetch", "perms", "getIndex", "delOld", "setSession",
                "setIndex", "undo"}
AuthSteps   == {"auth", "renew", "renewIndex", "handle"}
HandlerSteps == {"logoutDel", "check", "store", "endDel", "softDelete",
                 "kickGet", "kickDel", "restoreRow", "exists", "replace"}
Steps == LoginSteps \cup AuthSteps \cup HandlerSteps

(* 500 also stands for failInternal's 504 to a request out of time. *)
Answers == {"200", "400", "401", "403", "404", "409", "500"}

Record ==
    [pc : {"new"} \cup Steps \cup Answers,
     kind : AllKinds \cup {None},
     user : Users \cup {None},       \* who logs in, or is authenticated
     token : Requests \cup {None},   \* the token header
     target : Users \cup {None},     \* the account in the path
     write : BOOLEAN,                \* holds admin_user:write (snapshot)
     pw : Nat,                       \* password version login checked
     old : Requests \cup {None}]     \* token read from the index

NewRequest ==
    [pc |-> "new", kind |-> None, user |-> None, token |-> None,
     target |-> None, write |-> FALSE, pw |-> 0, old |-> None]

Init ==
    /\ deleted = {}
    /\ operators = InitialOperators
    /\ password = [u \in Users |-> 0]
    /\ session = [r \in Requests |-> 0]
    /\ index = [u \in Users |-> None]
    /\ indexTTL = [u \in Users |-> 0]
    /\ req = [r \in Requests |-> NewRequest]

At(r, label) == req[r].pc = label

Goto(r, label) == req' = [req EXCEPT ![r].pc = label]

(* Where a request goes on when the call it is about to make fails. *)
OnError ==
    [fetch |-> "500", perms |-> "500", getIndex |-> "setSession",
     delOld |-> "setSession", setSession |-> "500", setIndex |-> "undo",
     undo |-> "500",
     auth |-> "500", renew |-> "renewIndex", renewIndex |-> "handle",
     logoutDel |-> "500", check |-> "500", store |-> "500",
     endDel |-> "200", softDelete |-> "500", kickGet |-> "200",
     kickDel |-> "200", restoreRow |-> "500", exists |-> "500",
     replace |-> "500"]

(* A write took effect.  Its answer may still be lost, and then the code
   takes it for a failure. *)
Written(r, label) ==
    \/ Goto(r, label)
    \/ Faults /\ Goto(r, OnError[req[r].pc])

(* A write to Redis took effect.  When its answer is lost, the client may
   send it again before the code sees an error (NewRedisCache leaves
   MaxRetries unset; here there may be any number of retries). *)
Executed(r, label) ==
    \/ Written(r, label)
    \/ Faults /\ UNCHANGED req

(* The call fails without taking effect. *)
CallFails(r) ==
    /\ Faults
    /\ req[r].pc \in DOMAIN OnError
    /\ Goto(r, OnError[req[r].pc])
    /\ UNCHANGED <<db, redis>>

-----------------------------------------------------------------------------
(* Requests arrive.                                                        *)

Served == {r \in Requests : req[r].pc \in Steps}

(* A request may start, and none has been started under its name. *)
MayStart(r) ==
    /\ At(r, "new")
    /\ Isolated => Served = {}

(* POST /login that is let through by the failed-login counter. *)
StartLogin(r, u) ==
    /\ MayStart(r)
    /\ "login" \in Kinds
    /\ req' = [req EXCEPT ![r] =
                 [@ EXCEPT !.pc = "fetch", !.kind = "login", !.user = u]]
    /\ UNCHANGED <<db, redis>>

(* Tokens some client was given. *)
Issued == {t \in Requests : req[t].kind = "login" /\ At(t, "200")}

(* A request to an authenticated route, with a token its client once got. *)
StartAuthenticated(r, k, t, u) ==
    /\ MayStart(r)
    /\ k \in Kinds \ {"login"}
    /\ t \in Issued
    /\ (u = None) <=> (k \in {"me", "logout", "changePassword"})
    /\ req' = [req EXCEPT ![r] =
                 [@ EXCEPT !.pc = "auth", !.kind = k, !.token = t,
                           !.target = u]]
    /\ UNCHANGED <<db, redis>>

-----------------------------------------------------------------------------
(* login                                                                   *)

(* Fault variant: deleted accounts are not filtered out. *)
FetchUserUnfiltered(r) ==
    /\ At(r, "fetch")
    /\ \/ req' = [req EXCEPT ![r] =
                    [@ EXCEPT !.pc = "perms", !.pw = password[req[r].user]]]
       \/ Goto(r, "401")
    /\ UNCHANGED <<db, redis>>

(* GetAdminUserByUsername, which does not see deleted accounts, and the
   check of the password against the hash it returned. *)
FetchUser(r) ==
    /\ At(r, "fetch")
    /\ \/ /\ req[r].user \notin deleted
          /\ req' = [req EXCEPT ![r] =
                       [@ EXCEPT !.pc = "perms", !.pw = password[req[r].user]]]
       \/ Goto(r, "401")
    /\ UNCHANGED <<db, redis>>

(* ListPermissionCodesByAdminUserID: the permissions of the session. *)
SnapshotPermissions(r) ==
    /\ At(r, "perms")
    /\ req' = [req EXCEPT ![r] =
                 [@ EXCEPT !.pc = "getIndex",
                           !.write = req[r].user \in operators]]
    /\ UNCHANGED <<db, redis>>

(* Is there a session already?  GET of the reverse index. *)
GetIndex(r) ==
    /\ At(r, "getIndex")
    /\ LET t == index[req[r].user] IN
       req' = [req EXCEPT ![r] =
                 [@ EXCEPT !.pc = IF t = None THEN "setSession" ELSE "delOld",
                           !.old = t]]
    /\ UNCHANGED <<db, redis>>

(* Fault variant: the previous session is left alone. *)
KeepOldSession(r) ==
    /\ At(r, "delOld")
    /\ Executed(r, "setSession")
    /\ UNCHANGED <<db, redis>>

(* DEL of the session the index named. *)
DelOldSession(r) ==
    /\ At(r, "delOld")
    /\ session' = [session EXCEPT ![req[r].old] = 0]
    /\ Executed(r, "setSession")
    /\ UNCHANGED <<db, index, indexTTL>>

SetSession(r) ==
    /\ At(r, "setSession")
    /\ session' = [session EXCEPT ![r] = TokenDuration]
    /\ Executed(r, "setIndex")
    /\ UNCHANGED <<db, index, indexTTL>>

SetIndex(r) ==
    /\ At(r, "setIndex")
    /\ index' = [index EXCEPT ![req[r].user] = r]
    /\ indexTTL' = [indexTTL EXCEPT ![req[r].user] = TokenDuration]
    /\ Executed(r, "200")
    /\ UNCHANGED <<db, session>>

(* The index could not be written: the session is deleted again. *)
UndoSession(r) ==
    /\ At(r, "undo")
    /\ session' = [session EXCEPT ![r] = 0]
    /\ Executed(r, "500")
    /\ UNCHANGED <<db, index, indexTTL>>

Login(r) ==
    \/ FetchUser(r) \/ SnapshotPermissions(r) \/ GetIndex(r)
    \/ DelOldSession(r) \/ SetSession(r) \/ SetIndex(r) \/ UndoSession(r)

-----------------------------------------------------------------------------
(* authMiddleware and permMiddleware                                       *)

(* GET session:<token>. *)
Authenticate(r) ==
    /\ At(r, "auth")
    /\ LET t == req[r].token IN
       \/ /\ session[t] > 0
          /\ req' = [req EXCEPT ![r] =
                       [@ EXCEPT !.pc = "renew", !.user = req[t].user,
                                 !.write = req[t].write]]
       \/ /\ session[t] = 0
          /\ Goto(r, "401")
    /\ UNCHANGED <<db, redis>>

(* Fault variant: the session is renewed by writing it again. *)
RewriteSession(r) ==
    /\ At(r, "renew")
    /\ session' = [session EXCEPT ![req[r].token] = TokenDuration]
    /\ Executed(r, "renewIndex")
    /\ UNCHANGED <<db, index, indexTTL>>

(* EXPIRE session:<token>: the sliding lifetime.  The key may be gone by
   now, and then it stays gone. *)
RenewSession(r) ==
    /\ At(r, "renew")
    /\ session' = [session EXCEPT ![req[r].token] =
                     IF @ > 0 THEN TokenDuration ELSE 0]
    /\ Executed(r, "renewIndex")
    /\ UNCHANGED <<db, index, indexTTL>>

(* Fault variant: only the session is renewed. *)
RenewNoIndex(r) ==
    /\ At(r, "renewIndex")
    /\ Goto(r, "handle")
    /\ UNCHANGED <<db, redis>>

(* Fault variant: the index is assumed to exist when the session does. *)
RenewIndexBlindly(r) ==
    /\ At(r, "renewIndex")
    /\ indexTTL' = [indexTTL EXCEPT ![req[r].user] = TokenDuration]
    /\ Executed(r, "handle")
    /\ UNCHANGED <<db, session, index>>

(* EXPIRE admin_session:<user>, whichever token it names. *)
RenewIndex(r) ==
    /\ At(r, "renewIndex")
    /\ indexTTL' = [indexTTL EXCEPT ![req[r].user] =
                      IF @ > 0 THEN TokenDuration ELSE 0]
    /\ Executed(r, "handle")
    /\ UNCHANGED <<db, session, index>>

(* The handler's first call, for a kind of request. *)
FirstCall ==
    [me |-> "200", logout |-> "logoutDel", changePassword |-> "check",
     delete |-> "softDelete", restore |-> "restoreRow",
     grantRoles |-> "exists", revokeRoles |-> "exists"]

(* Fault variant: operators may delete themselves. *)
HandleAnyTarget(r) ==
    /\ At(r, "handle")
    /\ Goto(r, IF req[r].target = None \/ req[r].write
               THEN FirstCall[req[r].kind] ELSE "403")
    /\ UNCHANGED <<db, redis>>

(* permMiddleware, and the checks that come before the handler's first
   call.  me has nothing left to do. *)
Handle(r) ==
    /\ At(r, "handle")
    /\ \/ /\ req[r].target # None /\ ~req[r].write
          /\ Goto(r, "403")
       \/ /\ req[r].target # None => req[r].write
          /\ IF req[r].kind = "delete" /\ req[r].target = req[r].user
             THEN Goto(r, "400")
             ELSE Goto(r, FirstCall[req[r].kind])
    /\ UNCHANGED <<db, redis>>

Authentication(r) ==
    Authenticate(r) \/ RenewSession(r) \/ RenewIndex(r) \/ Handle(r)

-----------------------------------------------------------------------------
(* The handlers.                                                           *)

(* DEL of two keys, which Redis does at once. *)
DelSessionAndIndex(t, u) ==
    /\ session' = [session EXCEPT ![t] = 0]
    /\ index' = [index EXCEPT ![u] = None]
    /\ indexTTL' = [indexTTL EXCEPT ![u] = 0]

Logout(r) ==
    /\ At(r, "logoutDel")
    /\ DelSessionAndIndex(req[r].token, req[r].user)
    /\ Executed(r, "200")
    /\ UNCHANGED db

(* changePassword: GetAdminUser (a deleted account is an internal error) and
   the check of the old password. *)
CheckOldPassword(r) ==
    /\ At(r, "check")
    /\ \/ /\ req[r].user \in deleted
          /\ Goto(r, "500")
       \/ /\ req[r].user \notin deleted
          /\ Goto(r, "store") \/ Goto(r, "400")
    /\ UNCHANGED <<db, redis>>

StorePassword(r) ==
    /\ At(r, "store")
    /\ password' = [password EXCEPT ![req[r].user] = @ + 1]
    /\ Written(r, "endDel")
    /\ UNCHANGED <<deleted, operators, redis>>

(* Fault variant: only the index is deleted after a password change. *)
EndIndexOnly(r) ==
    /\ At(r, "endDel")
    /\ index' = [index EXCEPT ![req[r].user] = None]
    /\ indexTTL' = [indexTTL EXCEPT ![req[r].user] = 0]
    /\ Executed(r, "200")
    /\ UNCHANGED <<db, session>>

(* The session that changed the password ends; failures are only logged. *)
EndOwnSession(r) ==
    /\ At(r, "endDel")
    /\ DelSessionAndIndex(req[r].token, req[r].user)
    /\ Executed(r, "200")
    /\ UNCHANGED db

(* SoftDeleteAdminUser: 0 rows for an account deleted before. *)
SoftDelete(r) ==
    /\ At(r, "softDelete")
    /\ \/ /\ req[r].target \in deleted
          /\ Goto(r, "404")
          /\ UNCHANGED deleted
       \/ /\ req[r].target \notin deleted
          /\ deleted' = deleted \cup {req[r].target}
          /\ Written(r, "kickGet")
    /\ UNCHANGED <<operators, password, redis>>

(* kickAdminSession: the target's token, if the index has one. *)
KickLookup(r) ==
    /\ At(r, "kickGet")
    /\ LET t == index[req[r].target] IN
       req' = [req EXCEPT ![r] =
                 [@ EXCEPT !.pc = IF t = None THEN "200" ELSE "kickDel",
                           !.old = t]]
    /\ UNCHANGED <<db, redis>>

(* Fault variant: the operator's own token is deleted. *)
KickOwnToken(r) ==
    /\ At(r, "kickDel")
    /\ DelSessionAndIndex(req[r].token, req[r].target)
    /\ Executed(r, "200")
    /\ UNCHANGED db

(* kickAdminSession: the token looked up and the target's index are deleted;
   failures are only logged. *)
KickDelete(r) ==
    /\ At(r, "kickDel")
    /\ DelSessionAndIndex(req[r].old, req[r].target)
    /\ Executed(r, "200")
    /\ UNCHANGED db

(* RestoreAdminUser: 0 rows for an account that is not deleted; 409 when an
   account outside Users has got the name meanwhile. *)
Restore(r) ==
    /\ At(r, "restoreRow")
    /\ \/ /\ req[r].target \notin deleted
          /\ Goto(r, "404")
          /\ UNCHANGED deleted
       \/ /\ req[r].target \in deleted
          /\ Goto(r, "409")
          /\ UNCHANGED deleted
       \/ /\ req[r].target \in deleted
          /\ deleted' = deleted \ {req[r].target}
          /\ Written(r, "200")
    /\ UNCHANGED <<operators, password, redis>>

(* updateAdminUserRoles: the account must not be deleted. *)
CheckTarget(r) ==
    /\ At(r, "exists")
    /\ Goto(r, IF req[r].target \in deleted THEN "404" ELSE "replace")
    /\ UNCHANGED <<db, redis>>

(* UpdateAdminUserRolesTx: all roles are replaced, by some that include
   admin_user:write or by some that do not.  When two replacements overlap,
   the one that commits last may not have seen the rows of the other (module
   Accounts), and the target keeps what those give it.  Sessions keep what
   they have. *)
ReplaceRoles(r) ==
    /\ At(r, "replace")
    /\ \/ /\ req[r].kind = "grantRoles"
          /\ operators' = operators \cup {req[r].target}
       \/ /\ req[r].kind = "revokeRoles"
          /\ operators' = operators \ {req[r].target}
       \/ /\ ~Isolated
          /\ req[r].kind = "revokeRoles"
          /\ \E q \in Requests : /\ req[q].kind = "grantRoles"
                                /\ req[q].target = req[r].target
                                /\ req[q].pc \in {"200", "500"}
          /\ UNCHANGED operators
    /\ Written(r, "200")
    /\ UNCHANGED <<deleted, password, redis>>

(* A role id that does not exist is a foreign_key_violation; one that is in
   the list twice is a unique_violation, which nobody looks for. *)
BadRoles(r) ==
    /\ At(r, "replace")
    /\ Goto(r, "400") \/ Goto(r, "500")
    /\ UNCHANGED <<db, redis>>

Handler(r) ==
    \/ Logout(r)
    \/ CheckOldPassword(r) \/ StorePassword(r) \/ EndOwnSession(r)
    \/ SoftDelete(r) \/ KickLookup(r) \/ KickDelete(r)
    \/ Restore(r)
    \/ CheckTarget(r) \/ ReplaceRoles(r) \/ BadRoles(r)

-----------------------------------------------------------------------------

(* Time passes in Redis; keys whose time has run out are gone. *)
Tick ==
    /\ ClockRuns \/ Served = {}
    /\ \/ \E t \in Requests : session[t] > 0
       \/ \E u \in Users : indexTTL[u] > 0
    /\ session' = [t \in Requests |->
                     IF session[t] > 0 THEN session[t] - 1 ELSE 0]
    /\ indexTTL' = [u \in Users |->
                      IF indexTTL[u] > 0 THEN indexTTL[u] - 1 ELSE 0]
    /\ index' = [u \in Users |->
                   IF indexTTL[u] > 1 THEN index[u] ELSE None]
    /\ UNCHANGED <<db, req>>

Start(r) ==
    \/ \E u \in Users : StartLogin(r, u)
    \/ \E k \in AllKinds, t \in Requests, u \in Users \cup {None} :
           StartAuthenticated(r, k, t, u)

Serve(r) == Login(r) \/ Authentication(r) \/ Handler(r) \/ CallFails(r)

Next == Tick \/ \E r \in Requests : Start(r) \/ Serve(r)

Spec == Init /\ [][Next]_vars

-----------------------------------------------------------------------------

(* Types; the reverse index exists exactly as long as it has time left. *)
TypeOK ==
    /\ deleted \subseteq Users
    /\ operators \subseteq Users
    /\ password \in [Users -> Nat]
    /\ session \in [Requests -> 0..TokenDuration]
    /\ index \in [Users -> Requests \cup {None}]
    /\ indexTTL \in [Users -> 0..TokenDuration]
    /\ req \in [Requests -> Record]
    /\ \A u \in Users : index[u] = None <=> indexTTL[u] = 0

Live == {t \in Requests : session[t] > 0}
Owner(t) == req[t].user

(* "One session per user": of the tokens a user was given by successful
   logins at most one works, because a login ends the previous session. *)
OneSessionPerUser ==
    \A t1, t2 \in Live \cap Issued : Owner(t1) = Owner(t2) => t1 = t2

(* Every session can be found through the reverse index, except while its
   login has yet to write the index or to undo the session.  The two keys are
   written, renewed and deleted together, so neither a request nor the clock
   separates them. *)
SessionIndexed ==
    \A t \in Live :
        req[t].pc \in {"setIndex", "undo"} \/ index[Owner(t)] = t

(* A deleted account has no session, except while the request that deletes
   it has yet to end it. *)
DeletedHasNoSession ==
    \A t \in Live : Owner(t) \in deleted =>
        \E r \in Requests : /\ req[r].pc \in {"kickGet", "kickDel"}
                            /\ req[r].target = Owner(t)

(* Nobody works in a session that was opened with a password changed since,
   except while the request that changed it has yet to end the session. *)
SessionsUseCurrentPassword ==
    \A t \in Live : req[t].pw # password[Owner(t)] =>
        \E r \in Requests : At(r, "endDel") /\ req[r].user = Owner(t)

(* What deleteAdminUser's refusal to delete oneself is said to guarantee:
   somebody is left who can restore accounts. *)
SomeOperatorRemains == operators \ deleted # {}

(* A session ends by the clock, by a call of a request that deletes its user,
   or by a call of some other request of its user. *)
EndsForItsUser(t) ==
    session[t] > 0 /\ session'[t] = 0 =>
        \/ Tick
        \/ \E r \in Requests :
             /\ Serve(r)
             /\ Owner(t) = IF req[r].kind = "delete" THEN req[r].target
                                                     ELSE req[r].user

(* However requests interleave and fail, a session ends only by its own
   user's requests, by the clock, or by a request that deletes that user:
   kickAdminSession and login delete tokens they read from the index
   earlier, and these are never somebody else's (nor the operator's own). *)
KickHitsOnlyTarget == [][\A t \in Requests : EndsForItsUser(t)]_vars

(* Only its login brings a session into being. *)
BegunByItsLogin(t) ==
    session[t] = 0 /\ session'[t] > 0 => At(t, "setSession")

(* A session that has ended does not come back: authMiddleware may renew it
   after a concurrent logout, kick or expiry, but never revives it. *)
EndedStaysEnded == [][\A t \in Requests : BegunByItsLogin(t)]_vars

=============================================================================
