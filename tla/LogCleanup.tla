----------------------------- MODULE LogCleanup -----------------------------
(***************************************************************************)
(* The daily cleanup of operation_logs (package scheduler).                *)
(*                                                                         *)
(* Every instance of the process has a cron scheduler that puts the task   *)
(* into a queue in Redis at midnight and a worker that takes tasks from    *)
(* it.  asynq.Unique keeps a lock so that one instance's enqueue makes the *)
(* others' duplicates.  A task that fails or whose worker dies is retried. *)
(*                                                                         *)
(* Time is counted in days.  A row of operation_logs is its age, and       *)
(* stands for the last moment of its day.  asynq is external: the queue,   *)
(* lock, lease and retries are modelled as this code relies on them.       *)
(***************************************************************************)
EXTENDS Integers, Sequences, FiniteSets

CONSTANTS
    Instances,        \* processes of the deployment
    Tasks,            \* tasks that Redis can hold at a time
    NoTask, NoInstance,
    MonthStarts,      \* days of the year that are over when each month begins
                      \* and, last, when the year ends
    RetentionMonths,  \* OPERATION_LOG_RETENTION_MONTHS
    MaxRetry,         \* retries of a task before it is archived
    MaxRows,          \* rows that are followed at a time
    MaxAge            \* an age at which every row is overdue

ASSUME InstancesAssumption ==
    IsFiniteSet(Instances) /\ NoInstance \notin Instances
ASSUME TasksAssumption == IsFiniteSet(Tasks) /\ NoTask \notin Tasks
ASSUME CalendarAssumption ==
    /\ MonthStarts \in Seq(Nat) /\ Len(MonthStarts) > 2
    /\ MonthStarts[1] = 0
    /\ \A m, n \in DOMAIN MonthStarts :
          m < n => MonthStarts[m] < MonthStarts[n]
    /\ RetentionMonths \in Nat

-----------------------------------------------------------------------------
(* The calendar. *)

YearMonths == Len(MonthStarts) - 1
YearDays == MonthStarts[Len(MonthStarts)]

Months == 1..YearMonths
Length(m) == MonthStarts[m + 1] - MonthStarts[m]

NextMonth(m) == IF m < YearMonths THEN m + 1 ELSE 1

(* The month k months before m, for less than a year. *)
Back(m, k) == IF k < m THEN m - k ELSE m - k + YearMonths

(* What RetentionMonths comes to: whole years, and the month that is
   RetentionMonths before m. *)
Years == RetentionMonths \div YearMonths
Earlier(m) == Back(m, RetentionMonths % YearMonths)

(* The days from the first of that month to the first of m. *)
DaysBack(m) ==
    Years * YearDays + MonthStarts[m] - MonthStarts[Earlier(m)]
        + IF Earlier(m) > m THEN YearDays ELSE 0

ASSUME BoundsAssumption ==
    /\ MaxRetry \in Nat /\ MaxRows \in Nat
    /\ MaxAge \in Nat /\ MaxAge > (Years + 1) * YearDays

-----------------------------------------------------------------------------

VARIABLES
    date,   \* today, as [month, day]
    rows,   \* ages of the rows of operation_logs
    up,     \* instances that run
    due,    \* instances whose cron has yet to fire today
    lock,   \* the task that holds the uniqueness lock
    tasks   \* state of each task

vars == <<date, rows, up, due, lock, tasks>>

(* Fault variant: the months of the setting are counted as days. *)
CutoffInDays == RetentionMonths

(* The age of time.Now().AddDate(0, -RetentionMonths, 0).  AddDate goes to
   the same day number of the earlier month and, when that month is shorter,
   as many days into the next one: in any case as many days back as the
   months in between have. *)
CutoffAge == DaysBack(date.month)

(* What "older than RetentionMonths months" says: the row's own date, that
   many months later, is before today.  A row of an earlier month is compared
   by day number; where that month has no such day, all of it is older. *)
KeepAge ==
    IF date.day <= Length(Earlier(date.month))
    THEN DaysBack(date.month)
    ELSE DaysBack(date.month) - Length(Earlier(date.month)) + date.day - 1

Tomorrow ==
    IF date.day < Length(date.month)
    THEN [date EXCEPT !.day = @ + 1]
    ELSE [month |-> NextMonth(date.month), day |-> 1]

(* A task: waiting in the queue, being run by an instance (with the cutoff
   that its handler computed), run and not yet marked as complete, or waiting
   for a retry; fresh if it was enqueued today. *)
NoTaskData == [state |-> "none", tries |-> 0, by |-> NoInstance, cut |-> 0,
               fresh |-> FALSE]

InState(s) == {t \in Tasks : tasks[t].state = s}

(* The attempts in progress, those of dead workers left out. *)
Running == {t \in InState("active") : tasks[t].by \in up}

Init ==
    /\ date = [month |-> 1, day |-> 1]
    /\ rows = {}
    /\ up = Instances
    /\ due = {}
    /\ lock = NoTask
    /\ tasks = [t \in Tasks |-> NoTaskData]

-----------------------------------------------------------------------------

(* CreateOperationLog. *)
WriteLog ==
    /\ Cardinality(rows) < MaxRows
    /\ rows' = rows \cup {0}
    /\ UNCHANGED <<date, up, due, lock, tasks>>

Older(age) == IF age < MaxAge THEN age + 1 ELSE MaxAge

(* A task after midnight. *)
Yesterdays(t) ==
    [tasks[t] EXCEPT !.cut = IF t \in Running THEN @ + 1 ELSE @,
                     !.fresh = FALSE]

(* Fault variant: a lock that outlives the day. *)
DayPassesLocked ==
    /\ due = {}
    /\ \A t \in Running : tasks[t].cut = CutoffAge
    /\ date' = Tomorrow
    /\ rows' = {Older(a) : a \in rows}
    /\ due' = up
    /\ tasks' = [t \in Tasks |-> Yesterdays(t)]
    /\ UNCHANGED <<up, lock>>

(* Midnight.  The crons fired and the lock expired within a minute of the last
   one, and asynq ends an attempt after 30 minutes: one that runs was begun on
   the day that is over. *)
DayPasses ==
    /\ due = {}
    /\ lock = NoTask
    /\ \A t \in Running : tasks[t].cut = CutoffAge
    /\ date' = Tomorrow
    /\ rows' = {Older(a) : a \in rows}
    /\ due' = up
    /\ tasks' = [t \in Tasks |-> Yesterdays(t)]
    /\ UNCHANGED <<up, lock>>

(* The cron of an instance enqueues the task: it gets the lock. *)
Enqueue(i) ==
    /\ i \in due
    /\ lock = NoTask
    /\ \E t \in InState("none") :
          /\ tasks' = [tasks EXCEPT ![t].state = "pending", ![t].fresh = TRUE]
          /\ lock' = t
    /\ due' = due \ {i}
    /\ UNCHANGED <<date, rows, up>>

(* ErrDuplicateTask, which is as intended, or another error: PostEnqueueFunc
   logs it and that is all for this day. *)
NotEnqueued(i) ==
    /\ i \in due
    /\ due' = due \ {i}
    /\ UNCHANGED <<date, rows, up, lock, tasks>>

(* The lock's minute is over.  It is longer than the clocks of the instances
   differ, so each has fired by then. *)
LockExpires ==
    /\ lock # NoTask
    /\ due = {}
    /\ lock' = NoTask
    /\ UNCHANGED <<date, rows, up, due, tasks>>

(* A worker takes the task; handleCleanupOperationLogs computes the cutoff. *)
Take(i, t) ==
    /\ i \in up
    /\ tasks[t].state = "pending"
    /\ tasks' = [tasks EXCEPT ![t].state = "active", ![t].by = i,
                              ![t].cut = CutoffAge]
    /\ UNCHANGED <<date, rows, up, due, lock>>

Kept(t) == {a \in rows : a <= tasks[t].cut}

(* DeleteOperationLogsBefore succeeds and the handler returns nil. *)
RunDelete(t) ==
    /\ t \in Running
    /\ rows' = Kept(t)
    /\ tasks' = [tasks EXCEPT ![t].state = "ack", ![t].cut = 0]
    /\ UNCHANGED <<date, up, due, lock>>

(* Fault variant: completion releases the lock whoever holds it. *)
AckUnlocks(t) ==
    /\ tasks[t].state = "ack"
    /\ tasks[t].by \in up
    /\ tasks' = [tasks EXCEPT ![t] = NoTaskData]
    /\ lock' = NoTask
    /\ UNCHANGED <<date, rows, up, due>>

(* asynq marks the task as complete and releases the lock if the task still
   holds it.  An instance whose clock is behind will then get the lock again,
   and the cleanup is run another time. *)
Ack(t) ==
    /\ tasks[t].state = "ack"
    /\ tasks[t].by \in up
    /\ tasks' = [tasks EXCEPT ![t] = NoTaskData]
    /\ lock' = IF lock = t THEN NoTask ELSE lock
    /\ UNCHANGED <<date, rows, up, due>>

(* An attempt is over without success: the task waits for a retry or, when it
   has had them all, is archived.  The lock is left to expire. *)
Failed(t) ==
    tasks' = [tasks EXCEPT ![t] =
                IF tasks[t].tries < MaxRetry
                THEN [tasks[t] EXCEPT !.state = "retry", !.tries = @ + 1,
                                      !.by = NoInstance, !.cut = 0]
                ELSE NoTaskData]

(* The DELETE returns an error, executed or not, and so does the handler. *)
DeleteFails(t) ==
    /\ t \in Running
    /\ rows' \in {rows, Kept(t)}
    /\ Failed(t)
    /\ UNCHANGED <<date, up, due, lock>>

RetryDue(t) ==
    /\ tasks[t].state = "retry"
    /\ tasks' = [tasks EXCEPT ![t].state = "pending"]
    /\ UNCHANGED <<date, rows, up, due, lock>>

(* The task of a worker that died is found by another one. *)
LeaseExpires(t) ==
    /\ tasks[t].state \in {"active", "ack"}
    /\ tasks[t].by = NoInstance
    /\ up # {}
    /\ Failed(t)
    /\ UNCHANGED <<date, rows, up, due, lock>>

(* What the tasks of an instance are after it is gone. *)
Orphaned(i) ==
    [t \in Tasks |-> IF tasks[t].by = i
                     THEN [tasks[t] EXCEPT !.by = NoInstance, !.cut = 0]
                     ELSE tasks[t]]
Requeued(i) ==
    [t \in Tasks |-> IF tasks[t].by = i /\ tasks[t].state = "active"
                     THEN [tasks[t] EXCEPT !.state = "pending",
                                           !.by = NoInstance, !.cut = 0]
                     ELSE tasks[t]]

(* A crash, or the forced end of module Service. *)
Crash(i) ==
    /\ i \in up
    /\ up' = up \ {i}
    /\ due' = due \ {i}
    /\ tasks' = Orphaned(i)
    /\ UNCHANGED <<date, rows, lock>>

(* Scheduler.Shutdown: the cron stops; the worker waits until its task is
   complete or, after a while, puts it back. *)
Shutdown(i) ==
    /\ i \in up
    /\ \A t \in InState("ack") : tasks[t].by # i
    /\ up' = up \ {i}
    /\ due' = due \ {i}
    /\ tasks' = Requeued(i)
    /\ UNCHANGED <<date, rows, lock>>

(* Scheduler.Start; a midnight that has passed is not made up for. *)
Start(i) ==
    /\ i \notin up
    /\ up' = up \cup {i}
    /\ UNCHANGED <<date, rows, due, lock, tasks>>

Next ==
    \/ WriteLog \/ DayPasses \/ LockExpires
    \/ \E i \in Instances :
          \/ Enqueue(i) \/ NotEnqueued(i)
          \/ Crash(i) \/ Shutdown(i) \/ Start(i)
          \/ \E t \in Tasks : Take(i, t)
    \/ \E t \in Tasks :
          RunDelete(t) \/ Ack(t) \/ DeleteFails(t) \/ RetryDue(t) \/ LeaseExpires(t)

(* Time passes; instances that end are started again; asynq does its part.
   Of the things that may fail, none fails for ever: again and again an
   instance is up at midnight, gets its task enqueued, has it taken, and the
   DELETE succeeds. *)
Fairness ==
    /\ WF_vars(LockExpires \/ \E i \in Instances : NotEnqueued(i))
    /\ WF_vars(\E i \in Instances : Start(i))
    /\ WF_vars(\E t \in Tasks : Ack(t) \/ RetryDue(t))
    /\ SF_vars(\E t \in Tasks : LeaseExpires(t))
    /\ SF_vars(DayPasses /\ up # {})
    /\ SF_vars(\E i \in Instances : Enqueue(i))
    /\ SF_vars(\E i \in Instances, t \in Tasks : Take(i, t))
    /\ SF_vars(\E t \in Tasks : RunDelete(t))

Spec == Init /\ [][Next]_vars /\ Fairness

-----------------------------------------------------------------------------

TypeOK ==
    /\ date.month \in Months /\ date.day \in 1..Length(date.month)
    /\ rows \subseteq 0..MaxAge
    /\ due \subseteq up /\ up \subseteq Instances
    /\ lock \in Tasks \cup {NoTask}
    /\ tasks \in [Tasks -> [state : {"none", "pending", "active", "ack", "retry"},
                            tries : 0..MaxRetry,
                            by : Instances \cup {NoInstance},
                            cut : 0..MaxAge,
                            fresh : BOOLEAN]]
    /\ \A t \in Tasks : tasks[t].by \in up \cup {NoInstance}

(* How many days of rows AddDate gives away at most in the month m: going back
   from its last day to a month that is n days shorter leads to the n-th day
   after that, and n - 1 days lie before it. *)
Overflow(m) ==
    LET n == Length(m) - Length(Earlier(m))
    IN  IF n > 0 THEN n - 1 ELSE 0

(* A DELETE removes no row that is within the retention, but for the days
   that AddDate runs over at the end of a month that is longer than the one
   it goes back to: this month or, when midnight passed between the cutoff
   and the DELETE, the last.  This holds for each retry as well. *)
DeletesOnlyOverdue ==
    [][date' = date =>
         \A a \in rows \ rows' :
             \E m \in {date.month, Back(date.month, 1)} :
                 a > KeepAge - Overflow(m)]_vars

(* The lock does its work on the day itself: of the tasks enqueued since
   midnight at most one is unfinished, whatever older tasks are still being
   retried and complete meanwhile. *)
OneUnfinishedPerDay ==
    Cardinality({t \in Tasks : tasks[t].fresh}) <= 1

(* Types, and the lock. *)
CleanupInv == TypeOK /\ OneUnfinishedPerDay

(* Rows whose time has come are removed in the end, through crashes, missed
   midnights, failing attempts and exhausted retries: the next day's cleanup
   takes up what is left. *)
OverdueGo == MaxAge \in rows ~> MaxAge \notin rows

=============================================================================
