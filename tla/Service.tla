------------------------------- MODULE Service -------------------------------
(***************************************************************************)
(* The life of the process around the requests it serves: main.go and the  *)
(* Start and Shutdown of the scheduler.                                    *)
(*                                                                         *)
(* The main goroutine checks the stores, starts the worker and the cron    *)
(* scheduler, lets another goroutine listen, waits for a signal, drains    *)
(* the HTTP server and stops the scheduler.  A cleanup task that the       *)
(* worker is running is represented by where it is; what it does is module *)
(* LogCleanup.                                                             *)
(***************************************************************************)
EXTENDS RequestPipeline

CONSTANTS
    ShutdownTimeout,  \* SHUTDOWN_TIMEOUT, in ticks
    NewConnGrace      \* how long Shutdown of net/http spares a connection
                      \* that has not sent its request yet, in ticks

ASSUME ShutdownAssumption ==
    /\ ShutdownTimeout \in Nat \ {0}
    /\ NewConnGrace \in 0..ShutdownTimeout

VARIABLES
    phase,      \* what the main goroutine does next
    exit,       \* how the process ended
    listening,  \* ListenAndServe accepts connections
    worker,     \* asynq.Server: "off", "up"
    cron,       \* asynq.Scheduler: "off", "up"
    task,       \* the cleanup in the worker's hands, or how it left them
    draining    \* ticks left to drain

processVars ==
    <<phase, exit, listening, worker, cron, task, draining>>
vars == <<pipelineVars, processVars>>

Phases ==
    {"pingDB", "pingRedis", "startWorker", "startScheduler", "notify", "wait",
     "drain", "stopScheduler", "stopWorker", "ended"}

Init ==
    /\ PipelineInit
    /\ phase = "pingDB"
    /\ exit = "none"
    /\ listening = FALSE
    /\ worker = "off"
    /\ cron = "off"
    /\ task = "none"
    /\ draining = ShutdownTimeout

-----------------------------------------------------------------------------

(* The process ends, with everything that is still running in it. *)
End(how) ==
    /\ phase' = "ended"
    /\ exit' = how
    /\ listening' = FALSE
    /\ worker' = "off"
    /\ cron' = "off"
    /\ task' = IF task = "running" THEN "cut" ELSE task
    /\ CutRequests
    /\ draining' = 0

PingDB ==
    /\ phase = "pingDB"
    /\ phase' = "pingRedis"
    /\ UNCHANGED <<pipelineVars, exit, listening, worker, cron, task,
                   draining>>

(* The router is built meanwhile. *)
PingRedis ==
    /\ phase = "pingRedis"
    /\ phase' = "startWorker"
    /\ UNCHANGED <<pipelineVars, exit, listening, worker, cron, task,
                   draining>>

(* Scheduler.Start: the tasks are registered, then the worker started. *)
StartWorker ==
    /\ phase = "startWorker"
    /\ worker' = "up"
    /\ phase' = "startScheduler"
    /\ UNCHANGED <<pipelineVars, exit, listening, cron, task, draining>>

StartScheduler ==
    /\ phase = "startScheduler"
    /\ cron' = "up"
    /\ phase' = "notify"
    /\ UNCHANGED <<pipelineVars, exit, listening, worker, task, draining>>

(* Whatever of this fails ends the process.  (That the worker is stopped
   before, when it is the scheduler that does not start, makes no difference
   but to a task it may have taken.) *)
StartFails ==
    /\ phase \in {"pingDB", "pingRedis", "startWorker", "startScheduler"}
    /\ IF phase = "startScheduler" /\ task = "running"
       THEN /\ task' \in {"none", "requeued"}
            /\ phase' = "ended" /\ exit' = "fatal"
            /\ worker' = "off"
            /\ UNCHANGED <<pipelineVars, listening, cron, draining>>
       ELSE End("fatal")

(* The goroutine that listens; it runs alongside listenSignal.  After
   Shutdown, ListenAndServe returns ErrServerClosed at once. *)
Listen ==
    /\ phase \in {"notify", "wait"}
    /\ ~listening
    /\ listening' = TRUE
    /\ UNCHANGED <<pipelineVars, phase, exit, worker, cron, task,
                   draining>>

(* ListenAndServe returns another error, at first or later: log.Fatal. *)
ListenFails ==
    /\ phase \in {"notify", "wait"}
    /\ End("fatal")

Notify ==
    /\ phase = "notify"
    /\ phase' = "wait"
    /\ UNCHANGED <<pipelineVars, exit, listening, worker, cron, task, draining>>

(* SIGINT or SIGTERM reaches listenSignal: Shutdown closes the listener. *)
Signal ==
    /\ phase = "wait"
    /\ phase' = "drain"
    /\ listening' = FALSE
    /\ UNCHANGED <<pipelineVars, exit, worker, cron, task, draining>>

(* A signal before signal.Notify, or one that cannot be caught, or a crash. *)
Killed ==
    /\ phase # "ended"
    /\ End("killed")

(* Shutdown found no request in progress. *)
Drained ==
    /\ phase = "drain"
    /\ \A r \in Requests : pc[r] \notin Serving
    /\ phase' = "stopScheduler"
    /\ UNCHANGED <<pipelineVars, exit, listening, worker, cron, task,
                   draining>>

(* Fault variant: Shutdown is called without a deadline. *)
DrainForever == FALSE /\ UNCHANGED vars

(* Fault variant: the context of the drain is done from the beginning. *)
DrainImpatient ==
    /\ phase = "drain"
    /\ End("fatal")

(* Shutdown gives up: log.Fatal, without Shutdown of the scheduler. *)
DrainTimesOut ==
    /\ phase = "drain"
    /\ draining = 0
    /\ End("fatal")

(* Scheduler.Shutdown: first no new tasks. *)
StopScheduler ==
    /\ phase = "stopScheduler"
    /\ cron' = "off"
    /\ phase' = "stopWorker"
    /\ UNCHANGED <<pipelineVars, exit, listening, worker, task, draining>>

(* Fault variant: the worker is not waited for. *)
StopWorkerAtOnce ==
    /\ phase = "stopWorker"
    /\ End("clean")

(* Then the worker, which waits for its task and, when that takes too long,
   puts it back into the queue; main returns. *)
StopWorker ==
    /\ phase = "stopWorker"
    /\ task' \in IF task = "running" THEN {"none", "requeued"} ELSE {task}
    /\ phase' = "ended"
    /\ exit' = "clean"
    /\ worker' = "off"
    /\ UNCHANGED <<pipelineVars, listening, cron, draining>>

(* The worker takes a task from the queue; it may be one that another
   instance put there. *)
TakeTask ==
    /\ worker = "up"
    /\ task # "running"
    /\ phase # "stopWorker"
    /\ task' = "running"
    /\ UNCHANGED <<pipelineVars, phase, exit, listening, worker, cron,
                   draining>>

FinishTask ==
    /\ task = "running"
    /\ task' = "none"
    /\ UNCHANGED <<pipelineVars, phase, exit, listening, worker, cron,
                   draining>>

(* A request is read from a connection: while the server listens, or within
   the grace period from one that was accepted before the signal. *)
Accept(r) ==
    /\ \/ listening
       \/ phase = "drain" /\ draining > ShutdownTimeout - NewConnGrace
    /\ Enter(r)
    /\ UNCHANGED processVars

Serve(r) == Proceed(r) /\ UNCHANGED processVars

ClientLeaves(r) == Disconnect(r) /\ UNCHANGED processVars

Tick ==
    /\ phase # "ended"
    /\ \/ \E r \in Requests : pc[r] \in Serving /\ left[r] > 0
       \/ phase = "drain" /\ draining > 0
    /\ RequestsAge
    /\ draining' = IF phase = "drain" /\ draining > 0 THEN draining - 1 ELSE draining
    /\ UNCHANGED <<phase, exit, listening, worker, cron, task>>

(* The steps of listenSignal after the signal. *)
ShutDown == Drained \/ DrainTimesOut \/ StopScheduler \/ StopWorker

Next ==
    \/ PingDB \/ PingRedis \/ StartWorker \/ StartScheduler \/ StartFails
    \/ Listen \/ ListenFails \/ Notify \/ Signal \/ Killed
    \/ ShutDown
    \/ TakeTask \/ FinishTask
    \/ \E r \in Requests : Accept(r) \/ Serve(r) \/ ClientLeaves(r)
    \/ Tick

(* Time passes, and the main goroutine goes on once it can.  Requests are
   given none: the INSERT of the operation log has no deadline, so a request
   may hang as long as the database does. *)
Fairness == WF_vars(Tick) /\ WF_vars(ShutDown)

Spec == Init /\ [][Next]_vars /\ Fairness

-----------------------------------------------------------------------------

TypeOK ==
    /\ PipelineTypeOK
    /\ phase \in Phases
    /\ exit \in {"none", "clean", "fatal", "killed"}
    /\ phase = "ended" <=> exit # "none"
    /\ listening \in BOOLEAN
    /\ worker \in {"off", "up"}
    /\ cron \in {"off", "up"}
    /\ task \in {"none", "running", "requeued", "cut"}
    /\ draining \in 0..ShutdownTimeout

(* "Not allowed to go on line with a part missing": as long as a request is
   in progress, worker and scheduler run; they are started before the first
   and stopped after the last, also when requests come in from connections
   that were open when the signal arrived. *)
ServedWithScheduler ==
    (listening \/ \E r \in Requests : pc[r] \in Serving)
        => worker = "up" /\ cron = "up"

(* A graceful end loses nothing: every request that came in was answered (or
   its client left) and the cleanup was finished or put back. *)
CleanEndLosesNothing ==
    exit = "clean" => /\ \A r \in Requests : pc[r] \in {"idle", "sent", "gone"}
                      /\ task \notin {"running", "cut"}

(* Types, the order of the parts, and what a graceful end owes. *)
LifeInv == TypeOK /\ ServedWithScheduler /\ CleanEndLosesNothing

(* For how long r has been served, up to its limit. *)
Served(r) == Limit(r) - left[r]

(* A forced end cuts only requests that had their time: the drain lasts at
   least as long as a request may take, except for one that came in after the
   signal, which is short of that by at most the grace period. *)
CutsOnlyTheLate ==
    [][\A r \in Requests :
         phase = "drain" /\ exit' = "fatal" /\ pc[r] \in Serving =>
             left[r] = 0 \/ Served(r) >= ShutdownTimeout - NewConnGrace]_vars

(* After the signal the process ends, whatever its requests wait for. *)
SignalEnds == phase = "drain" ~> phase = "ended"

=============================================================================
