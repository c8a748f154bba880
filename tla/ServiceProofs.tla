---------------------------- MODULE ServiceProofs ----------------------------
(***************************************************************************)
(* What Service guarantees for any set of requests, users and permissions  *)
(* and any timeouts: what the operation log says, who is refused, and what *)
(* a shutdown leaves behind.                                               *)
(*                                                                         *)
(* The properties speak of requests that are over, so the invariant says   *)
(* what is known of a request at each label of the pipeline: at Handler    *)
(* that it may do what it asks for, at Audit what its handler answered,    *)
(* at Closed that the entry agrees with the answer.  For the process it    *)
(* says which of its parts run in which phase (Parts).                     *)
(***************************************************************************)
EXTENDS Service, TLAPS

Terminal == {"finish", "sent", "gone"}

(* Nothing has been done for the request yet. *)
Fresh(r) ==
    /\ status[r] = 200
    /\ ~effect[r]
    /\ ~spoiled[r]
    /\ logs[r] = NoEntry

(* What was changed was changed for somebody who may. *)
Permitted(r) == effect[r] => Authorized(r) /\ arg[r].origin # "refused"

(* What auditLogMiddleware is going to record, or has recorded. *)
Faithful(r, by, code) ==
    /\ by \in {arg[r].token, NoUser}
    /\ Route(r).auth /\ code \notin {401, 404, 500} => by = arg[r].token
    /\ code = 200 => effect[r] /\ Authorized(r)

OnTheWayIn(r) ==
    /\ pc[r] \in {"idle", "cors", "auth", "perm", "handle"} => Fresh(r)
    /\ pc[r] \in {"auth", "perm", "handle"} => arg[r].origin # "refused"
    /\ pc[r] \in {"idle", "cors", "auth"} => user[r] = NoUser
    /\ pc[r] \in {"auth", "perm"} => Route(r).auth
    /\ pc[r] = "perm" => user[r] = arg[r].token /\ user[r] \in Users

Handler(r) ==
    pc[r] = "handle" =>
        /\ Route(r).auth => user[r] = arg[r].token /\ user[r] \in Users
        /\ ~Route(r).auth => user[r] = NoUser
        /\ Route(r) \in Routes => Authorized(r)

Panic(r) == pc[r] = "panic" => spoiled[r] /\ logs[r] = NoEntry

Audit(r) ==
    pc[r] = "audit" =>
        /\ Write(r)
        /\ arg[r].origin # "refused"
        /\ ~spoiled[r]
        /\ logs[r] = NoEntry
        /\ Faithful(r, user[r], status[r])

(* A request that has left the operation log behind. *)
Closed(r) ==
    (pc[r] \in Terminal /\ Write(r) /\ arg[r].origin # "refused" /\ ~spoiled[r])
        => /\ logs[r].status = status[r]
           /\ Faithful(r, logs[r].user, logs[r].status)

Recorded(r) ==
    logs[r] # NoEntry =>
        /\ logs[r].user \in {arg[r].token, NoUser}
        /\ logs[r].status = 200 => effect[r] /\ Authorized(r)

RequestInv(r) ==
    /\ left[r] <= Limit(r)
    /\ OnTheWayIn(r)
    /\ Handler(r)
    /\ Panic(r)
    /\ Audit(r)
    /\ Closed(r)
    /\ Recorded(r)
    /\ Permitted(r)
    /\ status[r] \in {400, 401, 403, 404} => ~effect[r]

(* Which parts of the process run in which phase. *)
Parts ==
    /\ phase \in {"startScheduler", "notify", "wait", "drain", "stopScheduler",
                  "stopWorker"} => worker = "up"
    /\ phase \in {"notify", "wait", "drain", "stopScheduler"} => cron = "up"
    /\ listening => phase \in {"notify", "wait"}
    /\ task = "cut" => phase = "ended" /\ exit # "clean"
    /\ task = "running" => worker = "up"
    /\ phase = "ended" => worker = "off"
    /\ phase \in Phases \ {"drain", "stopScheduler", "stopWorker", "ended"}
          => draining = ShutdownTimeout
    /\ \A r \in Requests :
          /\ pc[r] \in Serving => phase \in {"notify", "wait", "drain"}
          /\ pc[r] = "cut" => phase = "ended" /\ exit # "clean"

(* During the drain a request that has time left has been served as long as
   the drain lasts, up to the grace period. *)
Drain ==
    \A r \in Requests :
        phase = "drain" /\ pc[r] \in Serving =>
            left[r] = 0 \/ Served(r) >= ShutdownTimeout - draining - NewConnGrace

IInv ==
    /\ TypeOK
    /\ \A r \in Requests : RequestInv(r)
    /\ Parts
    /\ Drain

-----------------------------------------------------------------------------
(* Facts about a single request. *)

(* Every request has a route that asks for authentication or not, an origin, a
   token and a body, as the arguments of the program say. *)
LEMMA ArgOf ==
    ASSUME PipelineTypeOK, NEW r \in Requests
    PROVE  /\ Route(r).auth \in BOOLEAN
           /\ arg[r].origin \in {"none", "allowed", "refused"}
           /\ arg[r].token \in Users \cup {NoToken, OldToken}
           /\ LoggedBody(arg[r].body) \in {"none", "plain", "masked", "cut"}
<1>1. arg[r] \in Args
  BY DEF PipelineTypeOK
<1>2. arg[r].body \in Bodies
  BY <1>1, ArgsAssumption
<1>3. LoggedBody(arg[r].body) \in {"none", "plain", "masked", "cut"}
  BY <1>2 DEF LoggedBody, Bodies
<1> QED
  BY <1>1, <1>3, ArgsAssumption DEF Route

(* A flag that is set or kept for one request stays a flag for each of them. *)
LEMMA FlagType ==
    ASSUME NEW S, NEW f \in [S -> BOOLEAN], NEW x, NEW b \in BOOLEAN
    PROVE  [f EXCEPT ![x] = b] \in [S -> BOOLEAN]
OBVIOUS

(* A route that anybody may use asks for no permission. *)
LEMMA OpenRoutes ==
    ASSUME NEW route \in Routes, ~route.auth
    PROVE  route.code = "none"
BY DEF Routes, Open, LoggedIn, Guarded, Healthz, Readyz, Swagger, Me, Stats

(* The time a request is given is one of the two timeouts. *)
LEMMA LimitType == \A r \in Requests : Limit(r) \in 1..APITimeout
BY TimeoutAssumption DEF Limit

(* All that is known of a request is kept when nothing of it changes. *)
LEMMA RequestUnchanged ==
    ASSUME NEW r \in Requests, RequestInv(r),
           arg'[r] = arg[r], pc'[r] = pc[r], status'[r] = status[r],
           user'[r] = user[r], left'[r] = left[r], effect'[r] = effect[r],
           logs'[r] = logs[r], spoiled'[r] = spoiled[r]
    PROVE  RequestInv(r)'
BY DEF RequestInv, OnTheWayIn, Handler, Panic, Audit, Closed, Recorded,
       Permitted, Fresh, Faithful, Authorized, Route, Write, Limit

-----------------------------------------------------------------------------
(* A request goes one step through the middlewares. *)

PipelineStep(r) == Enter(r) \/ Proceed(r) \/ Disconnect(r)

(* No step of a request leads out of the types. *)
LEMMA StepTypes ==
    ASSUME PipelineTypeOK, NEW r \in Requests, PipelineStep(r)
    PROVE  PipelineTypeOK'
<1>0. \A b \in BOOLEAN : /\ [effect EXCEPT ![r] = b] \in [Requests -> BOOLEAN]
                         /\ [spoiled EXCEPT ![r] = b] \in [Requests -> BOOLEAN]
  BY FlagType DEF PipelineTypeOK
<1> USE DEF PipelineTypeOK, Goto, Answer, WayOut, Labels, Serving, Statuses
<1>1. CASE Enter(r)
  BY <1>1, LimitType DEF Enter
<1>2. CASE Disconnect(r)
  BY <1>2 DEF Disconnect
<1>3. CASE CorsPasses(r)
  BY <1>3 DEF CorsPasses, Entry
<1>4. CASE CorsAnswers(r)
  BY <1>4 DEF CorsAnswers
<1>5. CASE Unauthorized(r) \/ SessionUnreadable(r)
  BY <1>5 DEF Unauthorized, SessionUnreadable
<1>6. CASE Authenticate(r)
  BY <1>6 DEF Authenticate
<1>7. CASE CheckPermission(r)
  BY <1>7 DEF CheckPermission
<1>8. CASE NotFound(r) \/ HandlerRefuses(r) \/ Recover(r)
  BY <1>8 DEF NotFound, HandlerRefuses, Recover
<1>9. CASE HandlerOK(r) \/ HandlerFails(r) \/ HandlerPanics(r)
  <2>1. Write(r) \in BOOLEAN
    BY DEF Write, isWriteMethod
  <2>2. StatusesOfError(r) \subseteq Statuses
    BY DEF StatusesOfError
  <2>3. effect' \in [Requests -> BOOLEAN]
    <3> HIDE DEF PipelineTypeOK, Goto, Answer, WayOut, Labels, Serving, Statuses
    <3>1. CASE HandlerOK(r)
      BY <1>0, <2>1, <3>1, Zenon DEF HandlerOK
    <3>2. CASE HandlerFails(r) \/ HandlerPanics(r)
      <4>1. \E done \in {FALSE, Write(r)} : effect' = [effect EXCEPT ![r] = done]
        BY <3>2, Zenon DEF HandlerFails, HandlerPanics
      <4> QED
        BY <1>0, <2>1, <4>1, Zenon
    <3> QED
      BY <1>9, <3>1, <3>2, Zenon
  <2>4. spoiled' \in [Requests -> BOOLEAN]
    <3>1. spoiled \in [Requests -> BOOLEAN]
      OBVIOUS
    <3> HIDE DEF PipelineTypeOK, Goto, Answer, WayOut, Labels, Serving, Statuses
    <3>2. CASE HandlerOK(r) \/ HandlerFails(r)
      BY <3>1, <3>2 DEF HandlerOK, HandlerFails
    <3>3. CASE HandlerPanics(r)
      BY <1>0, <3>3, Zenon DEF HandlerPanics
    <3> QED
      BY <1>9, <3>2, <3>3, Zenon
  <2>5. pc' \in [Requests -> Labels] /\ status' \in [Requests -> Statuses]
    BY <1>9, <2>2 DEF HandlerOK, HandlerFails, HandlerPanics
  <2> QED
    BY <1>9, <2>3, <2>4, <2>5 DEF HandlerOK, HandlerFails, HandlerPanics
<1>10. CASE WriteAudit(r) \/ AuditFails(r)
  <2>1. EntryOf(r) \in Entries /\ NoEntry \in Entries
    BY ArgOf DEF EntryOf, Entries, NoEntry
  <2>2. logs' \in [Requests -> Entries]
    BY <1>10, <2>1 DEF WriteAudit, AuditFails
  <2>3. spoiled' \in [Requests -> BOOLEAN]
    <3>1. CASE WriteAudit(r)
      BY <3>1 DEF WriteAudit
    <3>2. CASE AuditFails(r)
      BY <3>2 DEF AuditFails
    <3> QED
      BY <1>10, <3>1, <3>2
  <2> QED
    BY <1>10, <2>2, <2>3 DEF WriteAudit, AuditFails
<1>11. CASE Finish(r)
  BY <1>11, TimeoutAssumption DEF Finish
<1> QED
  BY <1>1, <1>2, <1>3, <1>4, <1>5, <1>6, <1>7, <1>8, <1>9, <1>10, <1>11
     DEF PipelineStep, Proceed

(* A step of one request leaves the others as they are. *)
LEMMA StepOthers ==
    ASSUME PipelineTypeOK, NEW r \in Requests, PipelineStep(r),
           NEW q \in Requests \ {r}, RequestInv(q)
    PROVE  /\ RequestInv(q)'
           /\ pc'[q] = pc[q] /\ left'[q] = left[q] /\ Limit(q)' = Limit(q)
<1>1. /\ arg'[q] = arg[q] /\ pc'[q] = pc[q] /\ status'[q] = status[q]
      /\ user'[q] = user[q] /\ left'[q] = left[q] /\ effect'[q] = effect[q]
      /\ logs'[q] = logs[q] /\ spoiled'[q] = spoiled[q]
  <2> USE DEF PipelineTypeOK, Goto, Answer
  <2>1. CASE Enter(r) \/ Disconnect(r) \/ CorsPasses(r) \/ CorsAnswers(r)
    BY <2>1 DEF Enter, Disconnect, CorsPasses, CorsAnswers
  <2>2. CASE Unauthorized(r) \/ SessionUnreadable(r) \/ Authenticate(r)
    BY <2>2 DEF Unauthorized, SessionUnreadable, Authenticate
  <2>3. CASE CheckPermission(r) \/ NotFound(r) \/ HandlerRefuses(r)
             \/ Recover(r)
    BY <2>3 DEF CheckPermission, NotFound, HandlerRefuses, Recover
  <2>4. CASE HandlerOK(r) \/ HandlerFails(r) \/ HandlerPanics(r)
    BY <2>4 DEF HandlerOK, HandlerFails, HandlerPanics
  <2>5. CASE WriteAudit(r) \/ AuditFails(r) \/ Finish(r)
    BY <2>5 DEF WriteAudit, AuditFails, Finish
  <2> QED
    BY <2>1, <2>2, <2>3, <2>4, <2>5 DEF PipelineStep, Proceed
<1>2. Limit(q)' = Limit(q)
  BY <1>1 DEF Limit, Route, Readyz, Open
<1> QED
  BY <1>1, <1>2, RequestUnchanged

(* A step of a request from what is known of it to what is known of it at the
   next label. *)
LEMMA StepRequest ==
    ASSUME PipelineTypeOK, NEW r \in Requests, RequestInv(r), PipelineStep(r)
    PROVE  RequestInv(r)'
<1> USE DEF PipelineTypeOK, Goto, Answer, WayOut, Terminal
<1> USE DEF RequestInv, OnTheWayIn, Fresh, Handler, Panic, Audit, Closed,
            Recorded, Permitted
<1>1. arg' = arg
  BY DEF PipelineStep, Proceed, Enter, Disconnect, CorsPasses, CorsAnswers,
         Unauthorized, SessionUnreadable, Authenticate, CheckPermission,
         NotFound, HandlerOK, HandlerRefuses, HandlerFails, HandlerPanics,
         Recover, WriteAudit, AuditFails, Finish
<1>2. /\ Route(r)' = Route(r) /\ Write(r)' = Write(r) /\ Limit(r)' = Limit(r)
      /\ Authorized(r)' = Authorized(r)
      /\ \A by, code : Faithful(r, by, code) /\ effect'[r] = effect[r]
                          => Faithful(r, by, code)'
  BY <1>1 DEF Route, Write, Limit, Authorized, Faithful
<1>3. CASE Enter(r)
  BY <1>2, <1>3, LimitType DEF Enter
<1>4. CASE Disconnect(r)
  BY <1>4, RequestUnchanged DEF Disconnect
<1>5. CASE CorsPasses(r)
  BY <1>2, <1>5, ArgOf, OpenRoutes DEF CorsPasses, Entry, Authorized
<1>6. CASE CorsAnswers(r)
  BY <1>2, <1>6, ArgOf DEF CorsAnswers, Write, isWriteMethod
<1>7. CASE Unauthorized(r) \/ SessionUnreadable(r)
  BY <1>1, <1>2, <1>7 DEF Unauthorized, SessionUnreadable, Faithful
<1>8. CASE Authenticate(r)
  BY <1>1, <1>2, <1>8 DEF Authenticate, Authorized
<1>9. CASE CheckPermission(r)
  BY <1>1, <1>2, <1>9 DEF CheckPermission, Authorized, Faithful
<1>10. CASE NotFound(r)
  BY <1>1, <1>2, <1>10, ArgOf DEF NotFound, Faithful
<1>11. CASE HandlerOK(r)
  BY <1>1, <1>2, <1>11, ArgOf DEF HandlerOK, Faithful
<1>12. CASE HandlerRefuses(r)
  BY <1>1, <1>2, <1>12, ArgOf DEF HandlerRefuses, Faithful
<1>13. CASE HandlerFails(r)
  <2>1. StatusesOfError(r) \subseteq {500, 503, 504}
    BY DEF StatusesOfError
  <2> QED
    BY <1>1, <1>2, <1>13, <2>1, ArgOf DEF HandlerFails, Faithful
<1>14. CASE HandlerPanics(r)
  BY <1>1, <1>2, <1>14 DEF HandlerPanics
<1>15. CASE Recover(r)
  BY <1>1, <1>2, <1>15 DEF Recover
<1>16. CASE WriteAudit(r)
  BY <1>1, <1>2, <1>16 DEF WriteAudit, EntryOf, NoEntry, Faithful
<1>17. CASE AuditFails(r)
  BY <1>1, <1>2, <1>17 DEF AuditFails, EntryOf, NoEntry, Faithful
<1>18. CASE Finish(r)
  BY <1>1, <1>2, <1>18, LimitType DEF Finish
<1> HIDE DEF PipelineTypeOK, Goto, Answer, WayOut, Terminal, RequestInv,
             OnTheWayIn, Fresh, Handler, Panic, Audit, Closed, Recorded,
             Permitted
<1> QED
  BY <1>3, <1>4, <1>5, <1>6, <1>7, <1>8, <1>9, <1>10, <1>11, <1>12, <1>13,
     <1>14, <1>15, <1>16, <1>17, <1>18, Zenon DEF PipelineStep, Proceed

(* After a step a request is being served only if it was before, with the
   time it had, or has just come in, with all of its time. *)
LEMMA StepMoves ==
    ASSUME PipelineTypeOK, NEW r \in Requests, PipelineStep(r)
    PROVE  /\ Limit(r)' = Limit(r)
           /\ pc'[r] # "cut"
           /\ pc'[r] \in Serving =>
                \/ Enter(r) /\ left'[r] = Limit(r)
                \/ pc[r] \in Serving /\ left'[r] = left[r]
<1> USE DEF PipelineTypeOK, Goto, Answer, WayOut, Serving
<1>1. CASE Enter(r) \/ Disconnect(r) \/ CorsPasses(r) \/ CorsAnswers(r)
  BY <1>1 DEF Enter, Disconnect, CorsPasses, CorsAnswers, Entry, Limit, Route
<1>2. CASE Unauthorized(r) \/ SessionUnreadable(r) \/ Authenticate(r)
           \/ CheckPermission(r)
  BY <1>2 DEF Unauthorized, SessionUnreadable, Authenticate, CheckPermission,
              Limit, Route
<1>3. CASE NotFound(r) \/ HandlerOK(r) \/ HandlerRefuses(r) \/ HandlerFails(r)
           \/ HandlerPanics(r) \/ Recover(r)
  BY <1>3 DEF NotFound, HandlerOK, HandlerRefuses, HandlerFails,
              HandlerPanics, Recover, Limit, Route
<1>4. CASE WriteAudit(r) \/ AuditFails(r) \/ Finish(r)
  BY <1>4 DEF WriteAudit, AuditFails, Finish, Limit, Route
<1> QED
  BY <1>1, <1>2, <1>3, <1>4 DEF PipelineStep, Proceed

-----------------------------------------------------------------------------
(* The invariant of the process. *)

(* The invariant holds when the process starts. *)
LEMMA InvInit == Init => IInv
<1> SUFFICES ASSUME Init PROVE IInv
  OBVIOUS
<1> USE DEF Init, PipelineInit
<1>1. PipelineTypeOK
  <2>1. NoEntry \in Entries
    BY DEF Entries, NoEntry
  <2> QED
    BY <2>1, TimeoutAssumption DEF PipelineTypeOK, Labels, Statuses
<1>2. TypeOK
  <2>1. draining \in 0..ShutdownTimeout
    BY ShutdownAssumption
  <2>2. phase = "ended" <=> exit # "none"
    OBVIOUS
  <2> QED
    BY <1>1, <2>1, <2>2 DEF TypeOK, Phases
<1>3. ASSUME NEW r \in Requests PROVE RequestInv(r)
  BY <1>3, LimitType DEF RequestInv, OnTheWayIn, Fresh, Handler, Panic, Audit,
     Closed, Recorded, Permitted, Terminal
<1>4. Parts /\ Drain
  BY DEF Parts, Drain, Serving
<1> QED
  BY <1>2, <1>3, <1>4 DEF IInv

(* When only the process changes, the requests are as they were. *)
LEMMA RequestsStay ==
    ASSUME IInv, UNCHANGED pipelineVars
    PROVE  /\ PipelineTypeOK'
           /\ \A r \in Requests : RequestInv(r)'
           /\ pc' = pc /\ left' = left
           /\ \A r \in Requests : Limit(r)' = Limit(r)
<1>1. /\ arg' = arg /\ pc' = pc /\ status' = status /\ user' = user
      /\ left' = left /\ ctxErr' = ctxErr /\ effect' = effect /\ logs' = logs
      /\ spoiled' = spoiled
  BY DEF pipelineVars
<1>2. PipelineTypeOK'
  BY <1>1 DEF IInv, TypeOK, PipelineTypeOK
<1>3. \A r \in Requests : RequestInv(r)'
  BY <1>1, RequestUnchanged DEF IInv
<1> QED
  BY <1>1, <1>2, <1>3 DEF Limit, Route

(* What is in progress when the process ends stays true to what was known. *)
LEMMA CutStep ==
    ASSUME IInv, CutRequests
    PROVE  PipelineTypeOK' /\ \A r \in Requests : RequestInv(r)'
<1>1. PipelineTypeOK'
  BY TimeoutAssumption DEF IInv, TypeOK, PipelineTypeOK, CutRequests, Labels,
     Statuses
<1>2. ASSUME NEW r \in Requests PROVE RequestInv(r)'
  <2>1. RequestInv(r) /\ PipelineTypeOK
    BY DEF IInv, TypeOK
  <2>2. /\ arg'[r] = arg[r] /\ effect'[r] = effect[r] /\ logs'[r] = logs[r]
        /\ spoiled'[r] = spoiled[r] /\ left'[r] = 0
        /\ IF pc[r] \in Serving
           THEN pc'[r] = "cut" /\ status'[r] = 200 /\ user'[r] = NoUser
           ELSE pc'[r] = pc[r] /\ status'[r] = status[r] /\ user'[r] = user[r]
    BY DEF CutRequests
  <2>3. /\ Route(r)' = Route(r) /\ Write(r)' = Write(r)
        /\ Limit(r)' = Limit(r) /\ Authorized(r)' = Authorized(r)
        /\ \A by, code : Faithful(r, by, code)' = Faithful(r, by, code)
    BY <2>2 DEF Route, Write, Limit, Authorized, Faithful
  <2> QED
    BY <2>1, <2>2, <2>3, LimitType
       DEF RequestInv, OnTheWayIn, Fresh, Handler, Panic, Audit, Closed,
           Recorded, Permitted, Terminal, Serving
<1> QED
  BY <1>1, <1>2

(* A process that ends keeps the invariant. *)
LEMMA EndStep ==
    ASSUME IInv, NEW how \in {"fatal", "killed"}, End(how)
    PROVE  IInv'
<1>1. PipelineTypeOK' /\ \A r \in Requests : RequestInv(r)'
  BY CutStep DEF End
<1>2. \A r \in Requests :
         /\ pc'[r] \notin Serving
         /\ pc'[r] = "cut" => phase' = "ended" /\ exit' # "clean"
  BY DEF End, CutRequests, Serving
<1>3. TypeOK'
  <2>1. draining' \in 0..ShutdownTimeout
    BY ShutdownAssumption DEF End
  <2>2. phase' = "ended" <=> exit' # "none"
    BY DEF End
  <2>3. task' \in {"none", "running", "requeued", "cut"}
    BY DEF End, IInv, TypeOK
  <2> QED
    BY <1>1, <2>1, <2>2, <2>3 DEF TypeOK, End, Phases
<1>4. Parts'
  <2>1. /\ phase' = "ended" /\ exit' # "clean" /\ listening' = FALSE
        /\ worker' = "off" /\ task' # "running"
    BY DEF End
  <2> QED
    BY <1>2, <2>1 DEF Parts, Phases
<1>5. Drain'
  BY DEF Drain, End
<1> QED
  BY <1>1, <1>3, <1>4, <1>5 DEF IInv

(* A request that takes a step finds the parts of the process running, and
   has, if it came in during the drain, missed at most the grace period. *)
LEMMA RequestStep ==
    ASSUME IInv, NEW r \in Requests, Accept(r) \/ Serve(r) \/ ClientLeaves(r)
    PROVE  IInv'
<1>1. PipelineStep(r) /\ UNCHANGED processVars
  BY DEF Accept, Serve, ClientLeaves, PipelineStep
<1>2. PipelineTypeOK /\ \A q \in Requests : RequestInv(q)
  BY DEF IInv, TypeOK
<1>3. \A q \in Requests : RequestInv(q)'
  BY <1>1, <1>2, StepRequest, StepOthers
<1>4. TypeOK'
  BY <1>1, <1>2, StepTypes DEF IInv, TypeOK, processVars
<1>5. pc[r] \notin Serving /\ pc'[r] \in Serving => Accept(r)
  <2>1. SUFFICES ASSUME ~Accept(r), pc[r] \notin Serving,
                        pc'[r] \in Serving
                 PROVE  FALSE
    OBVIOUS
  <2>2. CASE Serve(r)
    BY <2>1, <2>2 DEF Serve, Proceed, Serving, CorsPasses, CorsAnswers,
       Unauthorized, SessionUnreadable, Authenticate, CheckPermission,
       NotFound, HandlerOK, HandlerRefuses, HandlerFails, HandlerPanics,
       Recover, WriteAudit, AuditFails, Finish
  <2>3. CASE ClientLeaves(r)
    BY <2>1, <2>3 DEF ClientLeaves, Disconnect
  <2> QED
    BY <2>1, <2>2, <2>3
<1>6. /\ phase' = phase /\ exit' = exit /\ listening' = listening
      /\ worker' = worker /\ cron' = cron /\ task' = task
      /\ draining' = draining
  BY <1>1 DEF processVars
<1>7. /\ Limit(r)' = Limit(r)
      /\ pc'[r] # "cut"
      /\ pc'[r] \in Serving =>
           \/ Enter(r) /\ left'[r] = Limit(r)
           \/ pc[r] \in Serving /\ left'[r] = left[r]
  BY <1>1, <1>2, StepMoves
<1>8. \A q \in Requests \ {r} :
         pc'[q] = pc[q] /\ left'[q] = left[q] /\ Limit(q)' = Limit(q)
  BY <1>1, <1>2, StepOthers
<1>9. Parts'
  <2>1. pc'[r] \in Serving => phase \in {"notify", "wait", "drain"}
    BY <1>5 DEF IInv, Parts, Accept
  <2> QED
    BY <2>1, <1>6, <1>7, <1>8 DEF IInv, Parts
<1>10. Drain'
  <2> SUFFICES ASSUME NEW q \in Requests, phase = "drain", pc'[q] \in Serving
               PROVE  \/ left'[q] = 0
                      \/ Served(q)' >= ShutdownTimeout - draining - NewConnGrace
    BY <1>6 DEF Drain
  <2>1. CASE q # r
    BY <2>1, <1>8 DEF IInv, Drain, Served
  <2>2. CASE q = r /\ pc[r] \in Serving /\ left'[r] = left[r]
    BY <2>2, <1>7 DEF IInv, Drain, Served
  <2>3. CASE q = r /\ Enter(r) /\ left'[r] = Limit(r)
    <3>1. draining > ShutdownTimeout - NewConnGrace
      <4>1. pc[r] \notin Serving
        BY <2>3 DEF Enter, Serving
      <4>2. ~listening
        BY DEF IInv, Parts
      <4> QED
        BY <4>1, <4>2, <2>3, <1>5 DEF Accept
    <3>2. Served(q)' = 0
      BY <2>3, <1>7, LimitType DEF Served
    <3> QED
      BY <3>1, <3>2, ShutdownAssumption DEF IInv, TypeOK
  <2> QED
    BY <2>1, <2>2, <2>3, <1>7
<1> QED
  BY <1>3, <1>4, <1>9, <1>10 DEF IInv

(* Time that passes for the drain passes for the requests. *)
LEMMA TickStep == ASSUME IInv, Tick PROVE IInv'
<1>1. /\ RequestsAge
      /\ phase' = phase /\ exit' = exit /\ listening' = listening
      /\ worker' = worker /\ cron' = cron /\ task' = task
      /\ draining' = IF phase = "drain" /\ draining > 0 THEN draining - 1
                                                        ELSE draining
  BY DEF Tick
<1>2. /\ arg' = arg /\ pc' = pc /\ status' = status /\ user' = user
      /\ effect' = effect /\ logs' = logs /\ spoiled' = spoiled
      /\ left' = [q \in Requests |-> IF pc[q] \in Serving /\ left[q] > 0
                                     THEN left[q] - 1 ELSE left[q]]
  BY <1>1 DEF RequestsAge
<1>3. PipelineTypeOK /\ left \in [Requests -> 0..APITimeout] /\ APITimeout \in Nat
  BY TimeoutAssumption DEF IInv, TypeOK, PipelineTypeOK
<1>4. left' \in [Requests -> 0..APITimeout]
  BY <1>2, <1>3
<1>5. ctxErr' \in [Requests -> {"none", "deadline", "canceled"}]
  BY <1>1, <1>3 DEF RequestsAge, PipelineTypeOK
<1>6. PipelineTypeOK'
  BY <1>2, <1>3, <1>4, <1>5 DEF PipelineTypeOK
<1>7. TypeOK'
  BY <1>1, <1>6, ShutdownAssumption DEF IInv, TypeOK
<1>8. ASSUME NEW q \in Requests
      PROVE  RequestInv(q)' /\ Limit(q)' = Limit(q) /\ left'[q] <= left[q]
  <2>1. RequestInv(q) /\ Limit(q) \in Nat
    BY LimitType, TimeoutAssumption DEF IInv
  <2>2. /\ Route(q)' = Route(q) /\ Write(q)' = Write(q)
        /\ Limit(q)' = Limit(q) /\ Authorized(q)' = Authorized(q)
        /\ \A by, code : Faithful(q, by, code)' = Faithful(q, by, code)
    BY <1>2 DEF Route, Write, Limit, Authorized, Faithful
  <2>3. left'[q] <= left[q] /\ left[q] \in Nat /\ left'[q] \in Nat
    BY <1>2, <1>3
  <2>4. left'[q] <= Limit(q)
    BY <2>1, <2>3 DEF RequestInv
  <2> QED
    BY <1>2, <2>1, <2>2, <2>3, <2>4
       DEF RequestInv, OnTheWayIn, Fresh, Handler, Panic, Audit, Closed,
           Recorded, Permitted
<1>9. Parts'
  BY <1>1, <1>2 DEF IInv, Parts
<1>10. Drain'
  <2> SUFFICES ASSUME NEW q \in Requests, phase = "drain", pc[q] \in Serving
               PROVE  \/ left'[q] = 0
                      \/ Served(q)' >= ShutdownTimeout - draining' - NewConnGrace
    BY <1>1, <1>2 DEF Drain
  <2>1. /\ left[q] = 0 \/ Served(q) >= ShutdownTimeout - draining - NewConnGrace
        /\ left[q] \in Nat /\ Limit(q) \in Nat /\ Limit(q)' = Limit(q)
        /\ draining \in Nat /\ ShutdownTimeout \in Nat /\ NewConnGrace \in Nat
    BY <1>3, <1>8, LimitType, TimeoutAssumption, ShutdownAssumption
       DEF IInv, Drain, TypeOK
  <2>2. left'[q] = IF left[q] > 0 THEN left[q] - 1 ELSE left[q]
    BY <1>2
  <2> QED
    BY <1>1, <2>1, <2>2 DEF Served
<1> QED
  BY <1>7, <1>8, <1>9, <1>10 DEF IInv

(* The worker could not be followed by the scheduler: the process ends without
   cutting anything. *)
FatalStart ==
    /\ phase = "startScheduler"
    /\ task' \in {"none", "requeued"}
    /\ phase' = "ended" /\ exit' = "fatal"
    /\ worker' = "off"
    /\ UNCHANGED <<pipelineVars, listening, cron, draining>>

(* The steps of the process by which no request moves: each starts or stops
   its part in the order that Parts states. *)
LEMMA ProcessStep ==
    ASSUME IInv, UNCHANGED <<pipelineVars, draining>>,
           \/ PingDB \/ PingRedis \/ StartWorker \/ StartScheduler
           \/ Listen \/ Notify \/ Signal \/ Drained \/ StopScheduler
           \/ StopWorker \/ TakeTask \/ FinishTask \/ FatalStart
    PROVE  IInv'
<1>1. /\ PipelineTypeOK'
      /\ \A q \in Requests : RequestInv(q)'
      /\ pc' = pc /\ left' = left /\ draining' = draining
      /\ \A q \in Requests : Limit(q)' = Limit(q)
  BY RequestsStay
<1>2. TypeOK /\ Parts /\ Drain
  BY DEF IInv
<1>3. Drain'
  <2> SUFFICES ASSUME NEW q \in Requests, phase' = "drain", pc[q] \in Serving
               PROVE  \/ left[q] = 0
                      \/ Served(q)' >= ShutdownTimeout - draining - NewConnGrace
    BY <1>1 DEF Drain
  <2>1. Served(q)' = Served(q)
    BY <1>1 DEF Served
  <2>2. CASE phase = "drain"
    BY <1>2, <2>1, <2>2 DEF Drain
  <2>3. CASE phase # "drain"
    <3>1. Signal
      BY <2>3 DEF PingDB, PingRedis, StartWorker, StartScheduler, Listen,
         Notify, Drained, StopScheduler, StopWorker, TakeTask, FinishTask,
         FatalStart
    <3>2. draining = ShutdownTimeout
      BY <1>2, <3>1 DEF Signal, Parts, Phases
    <3>3. left[q] <= Limit(q) /\ left[q] \in Nat /\ Limit(q) \in Nat
      BY LimitType, TimeoutAssumption
         DEF IInv, RequestInv, TypeOK, PipelineTypeOK
    <3> QED
      BY <2>1, <3>2, <3>3, ShutdownAssumption DEF Served
  <2> QED
    BY <2>2, <2>3
<1>4. TypeOK' /\ Parts'
  <2> USE <1>1, <1>2 DEF TypeOK, Parts, Phases
  <2>1. CASE PingDB
    BY <2>1 DEF PingDB
  <2>2. CASE PingRedis
    BY <2>2 DEF PingRedis
  <2>3. CASE StartWorker
    BY <2>3 DEF StartWorker
  <2>4. CASE StartScheduler
    BY <2>4 DEF StartScheduler
  <2>5. CASE Listen
    BY <2>5 DEF Listen
  <2>6. CASE Notify
    BY <2>6 DEF Notify
  <2>7. CASE Signal
    BY <2>7 DEF Signal
  <2>8. CASE Drained
    BY <2>8 DEF Drained
  <2>9. CASE StopScheduler
    BY <2>9 DEF StopScheduler
  <2>10. CASE StopWorker
    BY <2>10 DEF StopWorker
  <2>11. CASE TakeTask
    BY <2>11 DEF TakeTask
  <2>12. CASE FinishTask
    BY <2>12 DEF FinishTask
  <2>13. CASE FatalStart
    BY <2>13 DEF FatalStart
  <2> QED
    BY <2>1, <2>2, <2>3, <2>4, <2>5, <2>6, <2>7, <2>8, <2>9, <2>10, <2>11,
       <2>12, <2>13
<1> QED
  BY <1>1, <1>3, <1>4 DEF IInv

(* Every step keeps the invariant. *)
LEMMA InvStep == IInv /\ [Next]_vars => IInv'
<1> SUFFICES ASSUME IInv, [Next]_vars PROVE IInv'
  OBVIOUS
<1>1. CASE UNCHANGED vars
  <2>1. UNCHANGED pipelineVars
    BY <1>1 DEF vars
  <2>2. /\ phase' = phase /\ exit' = exit /\ listening' = listening
        /\ worker' = worker /\ cron' = cron /\ task' = task
        /\ draining' = draining
    BY <1>1 DEF vars, processVars
  <2>3. /\ PipelineTypeOK'
        /\ \A q \in Requests : RequestInv(q)'
        /\ pc' = pc /\ left' = left
        /\ \A q \in Requests : Limit(q)' = Limit(q)
    BY <2>1, RequestsStay
  <2>4. Parts' /\ TypeOK' /\ Drain'
    BY <2>2, <2>3 DEF IInv, Parts, TypeOK, Drain, Served
  <2> QED
    BY <2>3, <2>4 DEF IInv
<1>2. CASE PingDB \/ PingRedis \/ StartWorker \/ StartScheduler \/ Listen
           \/ Notify \/ Signal \/ Drained \/ StopScheduler \/ StopWorker
           \/ TakeTask \/ FinishTask
  <2>1. UNCHANGED <<pipelineVars, draining>>
    BY <1>2 DEF PingDB, PingRedis, StartWorker, StartScheduler, Listen, Notify,
       Signal, Drained, StopScheduler, StopWorker, TakeTask, FinishTask
  <2> QED
    BY <1>2, <2>1, ProcessStep
<1>3. CASE StartFails
  <2>1. CASE End("fatal")
    BY <2>1, EndStep
  <2>2. CASE FatalStart
    BY <2>2, ProcessStep DEF FatalStart
  <2> QED
    BY <1>3, <2>1, <2>2 DEF StartFails, FatalStart
<1>4. CASE ListenFails \/ Killed \/ DrainTimesOut
  BY <1>4, EndStep DEF ListenFails, Killed, DrainTimesOut
<1>5. CASE \E r \in Requests : Accept(r) \/ Serve(r) \/ ClientLeaves(r)
  BY <1>5, RequestStep
<1>6. CASE Tick
  BY <1>6, TickStep
<1> QED
  BY <1>1, <1>2, <1>3, <1>4, <1>5, <1>6 DEF Next, ShutDown

(* The invariant always holds. *)
LEMMA InvHolds == Spec => []IInv
BY InvInit, InvStep, PTL DEF Spec

-----------------------------------------------------------------------------
(* What follows for the service. *)

(* Variables stay in their types; the worker and the scheduler run as long as
   requests are served; and after a clean exit no request was cut off and no
   cleanup lost. *)
THEOREM Lifetime == Spec => []LifeInv
<1>1. IInv => LifeInv
  <2> SUFFICES ASSUME IInv PROVE LifeInv
    OBVIOUS
  <2>1. TypeOK /\ Parts /\ pc \in [Requests -> Labels]
    BY DEF IInv, TypeOK, PipelineTypeOK
  <2>2. ServedWithScheduler
    BY <2>1 DEF Parts, ServedWithScheduler
  <2>3. CleanEndLosesNothing
    BY <2>1 DEF Parts, TypeOK, CleanEndLosesNothing, Labels
  <2> QED
    BY <2>1, <2>2, <2>3 DEF LifeInv
<1> QED
  BY <1>1, InvHolds, PTL

(* Whoever is refused has changed nothing, and nothing is changed for anybody
   without the token and the permission, whatever fails and whenever the
   client leaves, the deadline passes or the process ends. *)
THEOREM Refused == Spec => []RefusedMeansUntouched
<1>1. IInv => RefusedMeansUntouched
  <2> SUFFICES ASSUME IInv, NEW r \in Requests
               PROVE  /\ effect[r] => /\ Authorized(r)
                                     /\ arg[r].origin # "refused"
                      /\ status[r] \in {400, 401, 403, 404} => ~effect[r]
    BY DEF RefusedMeansUntouched
  <2>1. RequestInv(r)
    BY DEF IInv
  <2> QED
    BY <2>1 DEF RequestInv, Permitted
<1> QED
  BY <1>1, InvHolds, PTL

(* An answered write has its true entry in the operation log. *)
THEOREM Answered == Spec => []AnsweredIsLogged
<1>1. IInv => AnsweredIsLogged
  <2> SUFFICES ASSUME IInv, NEW r \in Requests, pc[r] \in {"sent", "gone"},
                      Write(r), arg[r].origin # "refused", ~spoiled[r]
               PROVE  /\ logs[r].status = status[r]
                      /\ Route(r).auth /\ status[r] \notin {401, 404, 500}
                           => logs[r].user = arg[r].token
                      /\ logs[r].body # "password"
    BY DEF AnsweredIsLogged
  <2>1. /\ logs[r].status = status[r]
        /\ Faithful(r, logs[r].user, logs[r].status)
    BY DEF IInv, RequestInv, Closed, Terminal
  <2>2. logs[r] \in Entries
    BY DEF IInv, TypeOK, PipelineTypeOK
  <2> QED
    BY <2>1, <2>2 DEF Faithful, Entries
<1> QED
  BY <1>1, InvHolds, PTL

(* The operation log claims nothing that did not happen. *)
THEOREM TruthfulEntries == Spec => []EntriesTrue
<1>1. IInv => EntriesTrue
  <2>1. IInv => \A r \in Requests : Recorded(r)
    BY DEF IInv, RequestInv
  <2> QED
    BY <2>1 DEF Recorded, EntriesTrue
<1> QED
  BY <1>1, InvHolds, PTL

(* When a shutdown is forced, what it cuts off had its time: it was served for
   the whole of its limit, or for the whole drain but for the grace period. *)
THEOREM ForcedEnd == Spec => CutsOnlyTheLate
<1> DEFINE Late(r) ==
       phase = "drain" /\ exit' = "fatal" /\ pc[r] \in Serving =>
           left[r] = 0 \/ Served(r) >= ShutdownTimeout - NewConnGrace
<1>1. IInv /\ [Next]_vars => [\A r \in Requests : Late(r)]_vars
  <2> SUFFICES ASSUME IInv, Next, NEW r \in Requests, phase = "drain",
                      exit' = "fatal", pc[r] \in Serving
               PROVE  left[r] = 0 \/ Served(r) >= ShutdownTimeout - NewConnGrace
    BY DEF Late
  <2>1. exit # "fatal"
    BY DEF IInv, TypeOK
  <2>2. DrainTimesOut
    BY <2>1 DEF Next, ShutDown, PingDB, PingRedis, StartWorker, StartScheduler,
       StartFails, Listen, ListenFails, Notify, Signal, Killed, End, Drained,
       StopScheduler, StopWorker, TakeTask, FinishTask, Accept, Serve,
       ClientLeaves, Tick, processVars
  <2> QED
    BY <2>2, ShutdownAssumption DEF IInv, Drain, DrainTimesOut
<1> QED
  BY <1>1, InvHolds, PTL DEF Spec, CutsOnlyTheLate

=============================================================================
