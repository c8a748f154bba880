-------------------------- MODULE RequestPipeline --------------------------
(***************************************************************************)
(* The middlewares that wrap every handler (api/server.go, setupRouter)    *)
(* and the operation log they write.                                       *)
(*                                                                         *)
(* In the order of router.Use: request id, access log, deadline, CORS,     *)
(* recovery, operation log; then, on the routes that have them,            *)
(* authMiddleware and permMiddleware, and the handler.  The way in is the  *)
(* sequence of pc labels "cors", "auth", "perm", "handle"; the way out is  *)
(* "audit" and "finish", for a refused request as for a served one.  What  *)
(* the handlers do to the stores is in the other modules; here a handler   *)
(* takes effect or not, answers, fails or panics.  The answer reaches the  *)
(* client when the outermost middleware has returned (net/http sends what  *)
(* was written to its buffer then).                                        *)
(*                                                                         *)
(* Module Service adds the life of the process around it.                  *)
(***************************************************************************)
EXTENDS Integers

CONSTANTS
    Requests,      \* requests that reach the process
    Args,          \* what a request may be: route, origin, token, body
    Users,         \* admin users with a session
    Permissions,   \* the permission snapshot in each user's session
    NoToken,       \* no token header
    OldToken,      \* a token that Redis does not know
    NoUser,        \* no auth_user in the context
    APITimeout,    \* API_TIMEOUT, in ticks
    ReadyTimeout,  \* the shorter timeout of /readyz, in ticks
    Development,   \* whether ENVIRONMENT is "development"
    Faults         \* whether calls may fail and handlers panic

-----------------------------------------------------------------------------
(* The routes. *)

Open(method, path) ==
    [method |-> method, path |-> path, auth |-> FALSE, code |-> "none"]
LoggedIn(method, path) ==
    [method |-> method, path |-> path, auth |-> TRUE, code |-> "none"]
Guarded(method, path, code) ==
    [method |-> method, path |-> path, auth |-> TRUE, code |-> code]

Healthz == Open("GET", "/healthz")
Readyz  == Open("GET", "/readyz")
Swagger == Open("GET", "/swagger/*any")
Me      == LoggedIn("GET", "/me")
Stats   == LoggedIn("GET", "/dashboard/stats")

Routes ==
    (IF Development THEN {Swagger} ELSE {}) \cup
    {Healthz, Readyz, Open("POST", "/users"), Open("POST", "/login"),
     LoggedIn("POST", "/logout"), Me, LoggedIn("PUT", "/me/password"), Stats,
     Guarded("GET", "/wallets", "wallet:read"),
     Guarded("GET", "/wallets/:id", "wallet:read"),
     Guarded("GET", "/wallets/:id/entries", "wallet:read"),
     Guarded("POST", "/wallets/:id/adjust", "wallet:write"),
     Guarded("GET", "/users/:id", "user:read"),
     Guarded("GET", "/users", "user:read"),
     Guarded("DELETE", "/users/:id", "user:write"),
     Guarded("PUT", "/users/:id/restore", "user:write"),
     Guarded("GET", "/admin-users", "admin_user:read"),
     Guarded("POST", "/admin-users", "admin_user:write"),
     Guarded("PUT", "/admin-users/:id/roles", "admin_user:write"),
     Guarded("DELETE", "/admin-users/:id", "admin_user:write"),
     Guarded("PUT", "/admin-users/:id/restore", "admin_user:write"),
     Guarded("GET", "/roles", "admin_user:read"),
     Guarded("GET", "/operation-logs", "operation_log:read")}

isWriteMethod(method) == method \in {"POST", "PUT", "PATCH", "DELETE"}

Codes == {route.code : route \in Routes} \ {"none"}

(* permWildcard or the code itself in the snapshot. *)
HasPermission(user, code) ==
    "*" \in Permissions[user] \/ code \in Permissions[user]

(* A body: absent, without or with a password in its first level, or with
   one and longer than maxAuditBodySize. *)
Bodies == {"none", "plain", "password", "long"}

(* maskSensitiveFields after readAndRestoreBody: a body that was cut at
   maxAuditBodySize is no longer JSON and is kept as it is. *)
LoggedBody(body) == CASE body = "password" -> "masked"
                      [] body = "long"     -> "cut"
                      [] OTHER             -> body

ASSUME UsersAssumption ==
    /\ NoUser \notin Users
    /\ {NoToken, OldToken} \cap Users = {}
    /\ NoToken # OldToken
ASSUME PermissionsAssumption ==
    Permissions \in [Users -> SUBSET (Codes \cup {"*"})]
ASSUME ArgsAssumption ==
    \A a \in Args : /\ DOMAIN a = {"route", "origin", "token", "body"}
                    /\ DOMAIN a.route = {"method", "path", "auth", "code"}
                    /\ a.route.auth \in BOOLEAN
                    /\ a.origin \in {"none", "allowed", "refused"}
                    /\ a.token \in Users \cup {NoToken, OldToken}
                    /\ a.body \in Bodies
ASSUME TimeoutAssumption ==
    /\ APITimeout \in Nat \ {0}
    /\ ReadyTimeout \in 1..APITimeout
ASSUME SwitchAssumption == {Development, Faults} \subseteq BOOLEAN

-----------------------------------------------------------------------------

VARIABLES
    arg,     \* what each request is
    pc,      \* where it is
    status,  \* ctx.Writer.Status()
    user,    \* auth_user in its context
    left,    \* ticks to its deadline
    ctxErr,  \* why its context is done, "none" while it is not
    effect,  \* whether its handler changed anything
    logs,    \* its row of operation_logs, NoEntry without one
    spoiled  \* whether a panic or a failing INSERT may have cost the row

pipelineVars ==
    <<arg, pc, status, user, left, ctxErr, effect, logs, spoiled>>

Serving == {"cors", "auth", "perm", "handle", "panic", "audit", "finish"}
Labels == {"idle", "sent", "gone", "cut"} \cup Serving
Statuses == {200, 204, 400, 401, 403, 404, 500, 503, 504}

Entries == [user   : Users \cup {NoUser},
            status : Statuses \cup {0},
            body   : {"none", "plain", "masked", "cut"}]
NoEntry == [user |-> NoUser, status |-> 0, body |-> "none"]

Route(r) == arg[r].route
Write(r) == isWriteMethod(Route(r).method)
Live(r)  == ctxErr[r] = "none"

Goto(r, label) == pc' = [pc EXCEPT ![r] = label]

(* The middlewares that a request leaves by; only a write is audited. *)
WayOut(r) == IF Write(r) THEN "audit" ELSE "finish"

(* ok, fail, failAbort: the status is set and the request turns back.  (fail
   does not keep the rest of the chain from running; the handlers that use
   it are the end of the chain.) *)
Answer(r, code) ==
    /\ status' = [status EXCEPT ![r] = code]
    /\ Goto(r, WayOut(r))

PipelineInit ==
    /\ arg \in [Requests -> Args]
    /\ pc = [r \in Requests |-> "idle"]
    /\ status = [r \in Requests |-> 200]
    /\ user = [r \in Requests |-> NoUser]
    /\ left = [r \in Requests |-> 0]
    /\ ctxErr = [r \in Requests |-> "none"]
    /\ effect = [r \in Requests |-> FALSE]
    /\ logs = [r \in Requests |-> NoEntry]
    /\ spoiled = [r \in Requests |-> FALSE]

(* timeoutMiddleware: the timeout of /readyz is nested in the global one, and
   the shorter counts. *)
Limit(r) == IF Route(r) = Readyz THEN ReadyTimeout ELSE APITimeout

(* The request enters the middlewares: requestIDMiddleware, httpLogger and
   timeoutMiddleware on the way in. *)
Enter(r) ==
    /\ pc[r] = "idle"
    /\ left' = [left EXCEPT ![r] = Limit(r)]
    /\ Goto(r, "cors")
    /\ UNCHANGED <<arg, status, user, ctxErr, effect, logs, spoiled>>

(* Where a request goes after the middlewares that all routes have. *)
Entry(r) == IF Route(r).auth THEN "auth" ELSE "handle"

(* corsMiddleware: there is no origin, or it is allowed: recovery, then, for
   a write, reading the body for the operation log, then the route's own
   chain. *)
CorsPasses(r) ==
    /\ pc[r] = "cors"
    /\ \/ arg[r].origin = "none"
       \/ arg[r].origin = "allowed" /\ Route(r).method # "OPTIONS"
    /\ Goto(r, Entry(r))
    /\ UNCHANGED <<arg, status, user, left, ctxErr, effect, logs, spoiled>>

(* A preflight is answered, and an origin that is not allowed refused, before
   recovery and operation log are reached. *)
CorsAnswers(r) ==
    /\ pc[r] = "cors"
    /\ \/ arg[r].origin = "refused"
       \/ arg[r].origin = "allowed" /\ Route(r).method = "OPTIONS"
    /\ status' = [status EXCEPT ![r] =
                    IF arg[r].origin = "allowed" THEN 204 ELSE 403]
    /\ Goto(r, "finish")
    /\ UNCHANGED <<arg, user, left, ctxErr, effect, logs, spoiled>>

(* authMiddleware: no token, or one that Redis does not know. *)
Unauthorized(r) ==
    /\ pc[r] = "auth"
    /\ \/ arg[r].token = NoToken
       \/ arg[r].token = OldToken /\ Live(r)
    /\ Answer(r, 401)
    /\ UNCHANGED <<arg, user, left, ctxErr, effect, logs, spoiled>>

(* authMiddleware: reading the session fails, also because the context is
   done; unlike the handlers it answers 500 to that as well. *)
SessionUnreadable(r) ==
    /\ pc[r] = "auth"
    /\ arg[r].token # NoToken
    /\ Faults \/ ~Live(r)
    /\ Answer(r, 500)
    /\ UNCHANGED <<arg, user, left, ctxErr, effect, logs, spoiled>>

(* authMiddleware: the session is found.  (That its lifetime is renewed is in
   AdminSession; failing to is only logged.) *)
Authenticate(r) ==
    /\ pc[r] = "auth"
    /\ arg[r].token \in Users
    /\ Live(r)
    /\ user' = [user EXCEPT ![r] = arg[r].token]
    /\ Goto(r, IF Route(r).code = "none" THEN "handle" ELSE "perm")
    /\ UNCHANGED <<arg, status, left, ctxErr, effect, logs, spoiled>>

(* Fault variant: fail instead of failAbort: the answer is written and the
   chain goes on. *)
CheckPermissionNoAbort(r) ==
    /\ pc[r] = "perm"
    /\ Goto(r, "handle")
    /\ IF HasPermission(user[r], Route(r).code)
       THEN UNCHANGED status
       ELSE status' = [status EXCEPT ![r] = 403]
    /\ UNCHANGED <<arg, user, left, ctxErr, effect, logs, spoiled>>

(* permMiddleware, which looks at the session's snapshot only. *)
CheckPermission(r) ==
    /\ pc[r] = "perm"
    /\ IF HasPermission(user[r], Route(r).code)
       THEN Goto(r, "handle") /\ UNCHANGED status
       ELSE Answer(r, 403)
    /\ UNCHANGED <<arg, user, left, ctxErr, effect, logs, spoiled>>

-----------------------------------------------------------------------------
(* Handlers. *)

(* No route: gin runs the global middlewares around its own 404. *)
NotFound(r) ==
    /\ pc[r] = "handle"
    /\ Route(r) \notin Routes
    /\ Answer(r, 404)
    /\ UNCHANGED <<arg, user, left, ctxErr, effect, logs, spoiled>>

(* The handler makes no call to a store, which could fail or find the context
   done; dashboardStats makes one for each figure that the user may see. *)
CallsNothing(r) ==
    \/ Route(r) \in {Healthz, Swagger, Me}
    \/ /\ Route(r) = Stats
       /\ \A code \in {"user:read", "wallet:read", "operation_log:read"} :
              ~HasPermission(user[r], code)

(* ok: the handler made its calls, if any, in time; a write took effect. *)
HandlerOK(r) ==
    /\ pc[r] = "handle"
    /\ Route(r) \in Routes
    /\ Live(r) \/ CallsNothing(r)
    /\ effect' = [effect EXCEPT ![r] = Write(r)]
    /\ Answer(r, 200)
    /\ UNCHANGED <<arg, user, left, ctxErr, logs, spoiled>>

(* fail with a business error, 400 standing for all of them: nothing was
   changed.  The checks that come before the first call do not need a live
   context. *)
HandlerRefuses(r) ==
    /\ pc[r] = "handle"
    /\ Route(r) \in Routes \ {Healthz, Readyz, Me, Stats}
    /\ Answer(r, 400)
    /\ UNCHANGED <<arg, user, left, ctxErr, effect, logs, spoiled>>

(* failInternal looks at the error and not at the context: 504 when it is a
   DeadlineExceeded, 500 when it only goes back to one (sql.ErrTxDone after a
   rollback at the deadline, a statement that PostgreSQL was made to cancel).
   readyCheck has an answer of its own for every error. *)
StatusesOfError(r) == IF Route(r) = Readyz THEN {503} ELSE {500, 504}

(* A call of the handler fails, by itself or because the context is done.
   What it was to change may have been changed nevertheless. *)
HandlerFails(r) ==
    /\ pc[r] = "handle"
    /\ Route(r) \in Routes
    /\ ~CallsNothing(r)
    /\ Faults \/ ~Live(r)
    /\ \E done \in {FALSE, Write(r)} : effect' = [effect EXCEPT ![r] = done]
    /\ \E code \in StatusesOfError(r) : Answer(r, code)
    /\ UNCHANGED <<arg, user, left, ctxErr, logs, spoiled>>

(* The handler panics, before or after it changed something. *)
HandlerPanics(r) ==
    /\ Faults
    /\ pc[r] = "handle"
    /\ Route(r) \in Routes
    /\ \E done \in {FALSE, Write(r)} : effect' = [effect EXCEPT ![r] = done]
    /\ spoiled' = [spoiled EXCEPT ![r] = TRUE]
    /\ Goto(r, "panic")
    /\ UNCHANGED <<arg, status, user, left, ctxErr, logs>>

(* recoveryHandler.  The panic unwound past auditLogMiddleware, whose code
   after ctx.Next() is not deferred: there will be no entry. *)
Recover(r) ==
    /\ pc[r] = "panic"
    /\ status' = [status EXCEPT ![r] = 500]
    /\ Goto(r, "finish")
    /\ UNCHANGED <<arg, user, left, ctxErr, effect, logs, spoiled>>

-----------------------------------------------------------------------------
(* The way out. *)

(* Fault variant: user and status are read before ctx.Next(). *)
EntryBeforeNext(r) == [user   |-> NoUser,
                       status |-> 200,
                       body   |-> LoggedBody(arg[r].body)]

(* What auditLogMiddleware records of a request. *)
EntryOf(r) == [user   |-> user[r],
               status |-> status[r],
               body   |-> LoggedBody(arg[r].body)]

(* Fault variant: the INSERT runs under the request's own context. *)
WriteAuditInContext(r) ==
    /\ pc[r] = "audit"
    /\ logs' = IF Live(r) THEN [logs EXCEPT ![r] = EntryOf(r)] ELSE logs
    /\ Goto(r, "finish")
    /\ UNCHANGED <<arg, status, user, left, ctxErr, effect, spoiled>>

(* auditLogMiddleware after ctx.Next().  context.WithoutCancel: a context
   that is done does not keep the entry from being written. *)
WriteAudit(r) ==
    /\ pc[r] = "audit"
    /\ logs' = [logs EXCEPT ![r] = EntryOf(r)]
    /\ Goto(r, "finish")
    /\ UNCHANGED <<arg, status, user, left, ctxErr, effect, spoiled>>

(* CreateOperationLog returns an error, which is only logged; the row may
   have been written. *)
AuditFails(r) ==
    /\ Faults
    /\ pc[r] = "audit"
    /\ \E e \in {NoEntry, EntryOf(r)} : logs' = [logs EXCEPT ![r] = e]
    /\ spoiled' = [spoiled EXCEPT ![r] = TRUE]
    /\ Goto(r, "finish")
    /\ UNCHANGED <<arg, status, user, left, ctxErr, effect>>

(* The outer middlewares return, with the deferred cancel of the context, and
   net/http sends the answer, unless the client has left. *)
Finish(r) ==
    /\ pc[r] = "finish"
    /\ Goto(r, IF ctxErr[r] = "canceled" THEN "gone" ELSE "sent")
    /\ left' = [left EXCEPT ![r] = 0]
    /\ ctxErr' = [ctxErr EXCEPT ![r] = "none"]
    /\ UNCHANGED <<arg, status, user, effect, logs, spoiled>>

Proceed(r) ==
    \/ CorsPasses(r) \/ CorsAnswers(r)
    \/ Unauthorized(r) \/ SessionUnreadable(r) \/ Authenticate(r)
    \/ CheckPermission(r)
    \/ NotFound(r) \/ HandlerOK(r) \/ HandlerRefuses(r)
    \/ HandlerFails(r) \/ HandlerPanics(r) \/ Recover(r)
    \/ WriteAudit(r) \/ AuditFails(r) \/ Finish(r)

(* The client closes its connection: net/http cancels the context. *)
Disconnect(r) ==
    /\ pc[r] \in Serving
    /\ Live(r)
    /\ ctxErr' = [ctxErr EXCEPT ![r] = "canceled"]
    /\ UNCHANGED <<arg, pc, status, user, left, effect, logs, spoiled>>

(* Time passes for the requests in progress.  The first reason for which a
   context is done is the one it keeps. *)
RequestsAge ==
    /\ left' = [r \in Requests |->
                  IF pc[r] \in Serving /\ left[r] > 0 THEN left[r] - 1 ELSE left[r]]
    /\ ctxErr' = [r \in Requests |->
                    IF pc[r] \in Serving /\ left'[r] = 0 /\ Live(r)
                    THEN "deadline" ELSE ctxErr[r]]
    /\ UNCHANGED <<arg, pc, status, user, effect, logs, spoiled>>

(* The process ends: what was in progress is lost, with what it knew. *)
CutRequests ==
    /\ pc' = [r \in Requests |-> IF pc[r] \in Serving THEN "cut" ELSE pc[r]]
    /\ status' = [r \in Requests |-> IF pc[r] \in Serving THEN 200 ELSE status[r]]
    /\ user' = [r \in Requests |-> IF pc[r] \in Serving THEN NoUser ELSE user[r]]
    /\ left' = [r \in Requests |-> 0]
    /\ ctxErr' = [r \in Requests |-> "none"]
    /\ UNCHANGED <<arg, effect, logs, spoiled>>

-----------------------------------------------------------------------------

PipelineTypeOK ==
    /\ arg \in [Requests -> Args]
    /\ pc \in [Requests -> Labels]
    /\ status \in [Requests -> Statuses]
    /\ user \in [Requests -> Users \cup {NoUser}]
    /\ left \in [Requests -> 0..APITimeout]
    /\ ctxErr \in [Requests -> {"none", "deadline", "canceled"}]
    /\ effect \in [Requests -> BOOLEAN]
    /\ logs \in [Requests -> Entries]
    /\ spoiled \in [Requests -> BOOLEAN]

(* Whoever is authenticated by the token of the request and, where the route
   asks for it, holds its permission. *)
Authorized(r) ==
    /\ Route(r).auth => arg[r].token \in Users
    /\ Route(r).code # "none" => HasPermission(arg[r].token, Route(r).code)

(* Nothing is changed on behalf of a request that lacks the token or the
   permission its route asks for, and a request that is told 400, 401, 403 or
   404 has changed nothing. *)
RefusedMeansUntouched ==
    \A r \in Requests :
        /\ effect[r] => Authorized(r) /\ arg[r].origin # "refused"
        /\ status[r] \in {400, 401, 403, 404} => ~effect[r]

(* The operation log is there before the answer: whoever got an answer to a
   write that passed CORS finds the entry, with the status that was sent, the
   user whose session it was and no readable password in a body of ordinary
   size.  This holds through deadlines, clients that leave and the end of the
   process; what it does not cover is a handler that panicked and an INSERT
   that failed. *)
AnsweredIsLogged ==
    \A r \in Requests :
        /\ pc[r] \in {"sent", "gone"}
        /\ Write(r)
        /\ arg[r].origin # "refused"
        /\ ~spoiled[r]
        => /\ logs[r].status = status[r]
           /\ Route(r).auth /\ status[r] \notin {401, 404, 500}
                => logs[r].user = arg[r].token
           /\ logs[r].body # "password"

(* An entry never claims what did not happen: it names the user of the
   request's token, or nobody, and only a request that was let through to its
   handler is logged as done. *)
EntriesTrue ==
    \A r \in Requests : logs[r] # NoEntry =>
        /\ logs[r].user \in {arg[r].token, NoUser}
        /\ logs[r].status = 200 => effect[r] /\ Authorized(r)

=============================================================================
