-------------------------- MODULE LogCleanupProofs --------------------------
(***************************************************************************)
(* What LogCleanup guarantees for any calendar, any retention and any      *)
(* number of instances and tasks: that no row is deleted before its time,  *)
(* and that the lock lets one cleanup through on a day.                    *)
(*                                                                         *)
(* The cutoff of an attempt is computed once and used later, at most one   *)
(* midnight later; CutsKept says what it still guarantees then.  That no   *)
(* two tasks of the same day are unfinished needs FreshLocked: as long as  *)
(* an instance has yet to fire, the task enqueued today holds the lock.    *)
(***************************************************************************)
EXTENDS LogCleanup, FiniteSetTheorems, SequenceTheorems, TLAPS

(* An attempt in progress spares what is within the retention. *)
CutsKept ==
    \A t \in Running :
        \E m \in {date.month, Back(date.month, 1)} :
            tasks[t].cut >= KeepAge - Overflow(m)

FreshLocked == \A t \in Tasks : tasks[t].fresh => lock = t \/ due = {}

OneFresh == \A t, u \in Tasks : tasks[t].fresh /\ tasks[u].fresh => t = u

HeldInProgress ==
    \A t \in Tasks :
        tasks[t].by # NoInstance => tasks[t].state \in {"active", "ack"}

IInv ==
    /\ TypeOK
    /\ date \in [month : Months, day : Nat]
    /\ CutsKept
    /\ FreshLocked
    /\ OneFresh
    /\ HeldInProgress

-----------------------------------------------------------------------------
(* The calendar. *)

(* The retention is whole years, and less than a year of months. *)
LEMMA RetentionParts ==
    /\ YearMonths \in Nat \ {0} /\ YearDays \in Nat \ {0}
    /\ RetentionMonths % YearMonths \in 0..(YearMonths - 1)
    /\ Years * YearDays \in Nat
    /\ (Years + 1) * YearDays = Years * YearDays + YearDays
<1>1. Len(MonthStarts) \in Nat /\ DOMAIN MonthStarts = 1..Len(MonthStarts)
  BY CalendarAssumption, LenProperties
<1>2. YearMonths \in Nat \ {0}
  BY <1>1, CalendarAssumption DEF YearMonths
<1>3. YearDays \in Nat \ {0}
  BY <1>1, CalendarAssumption, ElementOfSeq DEF YearDays
<1>4. RetentionMonths % YearMonths \in 0..(YearMonths - 1)
  BY <1>2, CalendarAssumption
<1>5. Years \in Nat
  BY <1>2, CalendarAssumption DEF Years
<1> QED
  BY <1>2, <1>3, <1>4, <1>5

(* Months begin one after the other, the first with the year, and the last
   ends with it. *)
LEMMA MonthsInOrder ==
    /\ \A m \in 1..(YearMonths + 1) : MonthStarts[m] \in 0..YearDays
    /\ \A m, n \in 1..(YearMonths + 1) : m < n => MonthStarts[m] < MonthStarts[n]
    /\ MonthStarts[1] = 0 /\ MonthStarts[YearMonths + 1] = YearDays
<1>1. /\ Len(MonthStarts) \in Nat /\ DOMAIN MonthStarts = 1..Len(MonthStarts)
      /\ YearMonths + 1 = Len(MonthStarts)
  BY CalendarAssumption, LenProperties DEF YearMonths
<1>2. \A m \in 1..Len(MonthStarts) : MonthStarts[m] \in Nat
  BY CalendarAssumption, ElementOfSeq
<1>3. MonthStarts[YearMonths + 1] = YearDays
  BY <1>1 DEF YearDays
<1>4. \A m, n \in 1..(YearMonths + 1) : m < n => MonthStarts[m] < MonthStarts[n]
  BY <1>1, CalendarAssumption
<1>5. ASSUME NEW m \in 1..(YearMonths + 1) PROVE MonthStarts[m] \in 0..YearDays
  <2>1. CASE m = YearMonths + 1
    BY <1>1, <1>2, <1>3, <2>1
  <2>2. CASE m < YearMonths + 1
    BY <1>1, <1>2, <1>3, <1>4, <2>2
  <2> QED
    BY <1>1, <2>1, <2>2
<1> QED
  BY <1>3, <1>4, <1>5, CalendarAssumption

(* The month the cutoff lies in, and how far back it is. *)
LEMMA CalendarTypes ==
    ASSUME NEW m \in Months
    PROVE  /\ Earlier(m) \in Months /\ NextMonth(m) \in Months
           /\ Length(m) \in Nat \ {0} /\ Length(Earlier(m)) \in Nat \ {0}
           /\ Overflow(m) \in Nat
           /\ DaysBack(m) \in Nat /\ DaysBack(m) + 1 < MaxAge
<1>1. Earlier(m) \in Months /\ NextMonth(m) \in Months
  BY RetentionParts DEF Earlier, Back, NextMonth, Months
<1>2. \A n \in Months : Length(n) \in Nat \ {0}
  BY RetentionParts, MonthsInOrder DEF Length, Months
<1>3. Overflow(m) \in Nat
  BY <1>1, <1>2 DEF Overflow
<1>4. /\ MonthStarts[m] \in 0..(YearDays - 1)
      /\ MonthStarts[Earlier(m)] \in 0..(YearDays - 1)
  BY <1>1, RetentionParts, MonthsInOrder DEF Months
<1>5. /\ Earlier(m) < m => MonthStarts[Earlier(m)] < MonthStarts[m]
      /\ Earlier(m) > m => MonthStarts[m] < MonthStarts[Earlier(m)]
  BY <1>1, RetentionParts, MonthsInOrder DEF Months
<1>6. DaysBack(m) \in Nat /\ DaysBack(m) < Years * YearDays + YearDays
  <2> DEFINE y == Years * YearDays
  <2>1. y \in Nat
    BY RetentionParts
  <2> HIDE DEF y
  <2>2. DaysBack(m) = y + MonthStarts[m] - MonthStarts[Earlier(m)]
                        + IF Earlier(m) > m THEN YearDays ELSE 0
    BY DEF DaysBack, y
  <2>3. DaysBack(m) \in Nat /\ DaysBack(m) < y + YearDays
    BY <1>1, <1>4, <1>5, <2>1, <2>2, RetentionParts DEF Months
  <2> QED
    BY <2>3 DEF y
<1>7. DaysBack(m) + 1 < MaxAge
  BY <1>6, RetentionParts, BoundsAssumption
<1> QED
  BY <1>1, <1>2, <1>3, <1>6, <1>7

(* From one month to the next, the cutoff moves on by the days of the month
   that is over, less those of the month that falls out of the retention. *)
LEMMA DaysBackShift ==
    ASSUME NEW m \in Months
    PROVE  DaysBack(NextMonth(m)) = DaysBack(m) + Length(m) - Length(Earlier(m))
<1> DEFINE y == Years * YearDays
           k == RetentionMonths % YearMonths
           S == MonthStarts
<1>1. y \in Nat /\ k \in 0..(YearMonths - 1) /\ YearMonths \in Nat \ {0}
      /\ m \in 1..YearMonths /\ YearDays \in Nat
  BY RetentionParts DEF Months
<1>2. /\ \A n \in 1..(YearMonths + 1) : S[n] \in Nat
      /\ S[1] = 0 /\ S[YearMonths + 1] = YearDays
  BY MonthsInOrder, RetentionParts
<1>3. \A n \in Months : DaysBack(n) = y + S[n] - S[Earlier(n)]
                                        + IF Earlier(n) > n THEN YearDays ELSE 0
  BY DEF DaysBack
<1>4. \A n : Earlier(n) = IF k < n THEN n - k ELSE n - k + YearMonths
  BY DEF Earlier, Back
<1> HIDE DEF y, k, S
<1>5. CASE m < YearMonths
  <2>1. NextMonth(m) = m + 1 /\ m + 1 \in Months
    BY <1>1, <1>5 DEF NextMonth, Months
  <2>2. CASE k < m
    BY <1>1, <1>2, <1>3, <1>4, <2>1, <2>2 DEF Length, Months, S
  <2>3. CASE k = m
    <3>1. Earlier(m) = YearMonths /\ Earlier(m + 1) = 1
      BY <1>1, <1>4, <2>3
    <3> QED
      BY <1>1, <1>2, <1>3, <1>5, <2>1, <3>1 DEF Length, Months, S
  <2>4. CASE k > m
    <3>1. /\ Earlier(m) = m - k + YearMonths
          /\ Earlier(m + 1) = m - k + YearMonths + 1
      BY <1>1, <1>4, <2>4
    <3> QED
      BY <1>1, <1>2, <1>3, <2>1, <2>4, <3>1 DEF Length, Months, S
  <2> QED
    BY <1>1, <2>2, <2>3, <2>4
<1>6. CASE m = YearMonths
  <2>1. NextMonth(m) = 1 /\ 1 \in Months
    BY <1>1, <1>6 DEF NextMonth, Months
  <2>2. CASE k = 0
    BY <1>1, <1>2, <1>3, <1>4, <1>6, <2>1, <2>2 DEF Length, Months, S
  <2>3. CASE k > 0
    <3>1. Earlier(m) = YearMonths - k /\ Earlier(1) = YearMonths - k + 1
      BY <1>1, <1>4, <1>6, <2>3
    <3> QED
      BY <1>1, <1>2, <1>3, <1>6, <2>1, <2>3, <3>1 DEF Length, Months, S
  <2> QED
    BY <1>1, <2>2, <2>3
<1> QED
  BY <1>1, <1>5, <1>6

(* Today's cutoff, but for the days that AddDate runs over, is within the
   retention. *)
LEMMA CutoffSpares ==
    ASSUME IInv
    PROVE  /\ CutoffAge \in Nat /\ CutoffAge + 1 < MaxAge
           /\ CutoffAge >= KeepAge - Overflow(date.month)
<1> DEFINE m == date.month
<1>1. /\ m \in Months /\ date.day \in 1..Length(m)
      /\ CutoffAge = DaysBack(m)
  BY DEF IInv, TypeOK, CutoffAge
<1>2. /\ Length(m) \in Nat \ {0} /\ Length(Earlier(m)) \in Nat \ {0}
      /\ DaysBack(m) \in Nat /\ DaysBack(m) + 1 < MaxAge
  BY <1>1, CalendarTypes
<1>3. CutoffAge >= KeepAge - Overflow(m)
  BY <1>1, <1>2 DEF KeepAge, Overflow
<1> QED
  BY <1>1, <1>2, <1>3

(* A cutoff that is one midnight old is within the retention, but for the days
   that AddDate runs over at the end of this month or of the last. *)
LEMMA MidnightSpares ==
    ASSUME IInv, date' = Tomorrow
    PROVE  /\ date' \in [month : Months, day : Nat]
           /\ date'.day \in 1..Length(date'.month)
           /\ \E m \in {date'.month, Back(date'.month, 1)} :
                 CutoffAge + 1 >= KeepAge' - Overflow(m)
<1> DEFINE m == date.month
<1>1. /\ m \in Months /\ date.day \in 1..Length(m)
      /\ date \in [month : Months, day : Nat]
  BY DEF IInv, TypeOK
<1>2. /\ \A n \in Months : /\ Length(n) \in Nat \ {0}
                           /\ Length(Earlier(n)) \in Nat \ {0}
                           /\ DaysBack(n) \in Nat /\ Overflow(n) \in Nat
      /\ NextMonth(m) \in Months
  BY <1>1, CalendarTypes
<1>3. CASE date.day < Length(m)
  <2>1. date'.month = m /\ date'.day = date.day + 1
        /\ date' \in [month : Months, day : Nat]
    BY <1>1, <1>3 DEF Tomorrow
  <2>2. KeepAge' = IF date.day + 1 <= Length(Earlier(m)) THEN DaysBack(m)
                   ELSE DaysBack(m) - Length(Earlier(m)) + (date.day + 1) - 1
    BY <2>1 DEF KeepAge
  <2>3. CutoffAge + 1 >= KeepAge' - Overflow(m)
    BY <1>1, <1>2, <1>3, <2>2 DEF CutoffAge, Overflow
  <2> QED
    BY <1>1, <1>2, <1>3, <2>1, <2>3
<1>4. CASE date.day = Length(m)
  <2>1. /\ date'.month = NextMonth(m) /\ date'.day = 1
        /\ date' \in [month : Months, day : Nat]
    BY <1>1, <1>2, <1>4 DEF Tomorrow
  <2>2. KeepAge' = DaysBack(NextMonth(m))
    BY <1>2, <2>1, CalendarTypes DEF KeepAge
  <2>3. CutoffAge + 1 >= KeepAge' - Overflow(m)
    BY <1>1, <1>2, <2>2, DaysBackShift DEF CutoffAge, Overflow
  <2>4. Back(NextMonth(m), 1) = m
    BY <1>1, RetentionParts DEF Back, NextMonth, Months
  <2> QED
    BY <1>2, <2>1, <2>3, <2>4
<1> QED
  BY <1>1, <1>2, <1>3, <1>4

-----------------------------------------------------------------------------
(* The steps. *)

TaskData == [state : {"none", "pending", "active", "ack", "retry"},
             tries : 0..MaxRetry,
             by    : Instances \cup {NoInstance},
             cut   : 0..MaxAge,
             fresh : BOOLEAN]

(* What a task is after it has left the hands of an instance. *)
LEMMA ReleasedTask ==
    ASSUME NEW x \in TaskData
    PROVE  /\ [x EXCEPT !.by = NoInstance, !.cut = 0] \in TaskData
           /\ [x EXCEPT !.state = "pending", !.by = NoInstance,
                        !.cut = 0] \in TaskData
           /\ x.tries < MaxRetry =>
                [x EXCEPT !.state = "retry", !.tries = @ + 1,
                          !.by = NoInstance, !.cut = 0] \in TaskData
<1>1. MaxRetry \in Nat /\ 0 \in 0..MaxAge
  BY BoundsAssumption
<1>2. x.tries \in 0..MaxRetry
  BY DEF TaskData
<1>3. x.tries < MaxRetry => x.tries + 1 \in 0..MaxRetry
  BY <1>1, <1>2
<1> QED
  BY <1>1, <1>3 DEF TaskData

(* An attempt of x would spare what is within the retention. *)
Spares(x) == \E m \in {date.month, Back(date.month, 1)} :
                x.cut >= KeepAge - Overflow(m)

(* The invariant holds on the first day. *)
LEMMA InvInit == Init => IInv
<1> SUFFICES ASSUME Init PROVE IInv
  OBVIOUS
<1>1. date = [month |-> 1, day |-> 1] /\ 1 \in Months /\ 1 \in 1..Length(1)
  BY RetentionParts, CalendarTypes DEF Init, Months
<1>2. NoTaskData \in TaskData /\ NoTaskData.by = NoInstance
      /\ NoTaskData.state = "none" /\ NoTaskData.fresh = FALSE
  BY BoundsAssumption DEF NoTaskData, TaskData
<1>3. tasks = [t \in Tasks |-> NoTaskData]
  BY DEF Init
<1>4. TypeOK
  BY <1>1, <1>2, <1>3 DEF Init, TypeOK, TaskData
<1>5. CutsKept /\ FreshLocked /\ OneFresh /\ HeldInProgress
  BY <1>2, <1>3
     DEF CutsKept, FreshLocked, OneFresh, HeldInProgress, Running, InState
<1> QED
  BY <1>1, <1>4, <1>5 DEF IInv

(* A step of one task. *)
LEMMA TaskStep ==
    ASSUME IInv, NEW t \in Tasks, NEW x \in TaskData,
           tasks' = [tasks EXCEPT ![t] = x],
           date' = date, up' = up, due' = due,
           rows' \subseteq 0..MaxAge,
           x.by \in up \cup {NoInstance},
           x.by # NoInstance => x.state \in {"active", "ack"},
           x.state = "active" /\ x.by \in up => Spares(x),
           x.fresh => tasks[t].fresh,
           lock' = lock \/ (lock = t /\ lock' = NoTask /\ ~x.fresh)
    PROVE  IInv'
<1>1. /\ tasks' \in [Tasks -> TaskData]
      /\ tasks'[t] = x
      /\ \A u \in Tasks \ {t} : tasks'[u] = tasks[u]
  BY DEF IInv, TypeOK, TaskData
<1>2. TypeOK'
  BY <1>1 DEF IInv, TypeOK, TaskData
<1>3. CutsKept'
  BY <1>1 DEF IInv, CutsKept, Running, InState, Spares, KeepAge
<1>4. FreshLocked' /\ OneFresh' /\ HeldInProgress'
  BY <1>1 DEF IInv, FreshLocked, OneFresh, HeldInProgress
<1> QED
  BY <1>2, <1>3, <1>4 DEF IInv

(* The tasks are as they were. *)
LEMMA OtherStep ==
    ASSUME IInv, tasks' = tasks, date' = date,
           rows' \subseteq 0..MaxAge, due' \subseteq due, due' \subseteq up',
           up \subseteq up', up' \subseteq Instances,
           lock' = lock \/ (due = {} /\ lock' = NoTask)
    PROVE  IInv'
<1>1. TypeOK'
  BY DEF IInv, TypeOK
<1>2. Running' = Running
  BY InstancesAssumption DEF IInv, TypeOK, Running, InState
<1>3. CutsKept'
  BY <1>2 DEF IInv, CutsKept, KeepAge
<1>4. FreshLocked' /\ OneFresh' /\ HeldInProgress'
  BY DEF IInv, FreshLocked, OneFresh, HeldInProgress
<1> QED
  BY <1>1, <1>3, <1>4 DEF IInv

(* Midnight: no task is of the new day, and the attempts in progress keep a
   cutoff that is one midnight old. *)
LEMMA MidnightStep == ASSUME IInv, DayPasses PROVE IInv'
<1>1. /\ date' \in [month : Months, day : Nat]
      /\ date'.day \in 1..Length(date'.month)
      /\ \E m \in {date'.month, Back(date'.month, 1)} :
            CutoffAge + 1 >= KeepAge' - Overflow(m)
  BY MidnightSpares DEF DayPasses
<1>2. /\ \A t \in Tasks : tasks'[t] = Yesterdays(t)
      /\ DOMAIN tasks' = Tasks
      /\ tasks' = [t \in Tasks |-> Yesterdays(t)]
      /\ up' = up /\ due' = up /\ lock' = lock
      /\ rows' = {Older(a) : a \in rows}
      /\ \A t \in Running : tasks[t].cut = CutoffAge
  BY DEF DayPasses
<1>3. ASSUME NEW t \in Tasks
      PROVE  /\ Yesterdays(t) \in TaskData
             /\ Yesterdays(t).state = tasks[t].state
             /\ Yesterdays(t).by = tasks[t].by
             /\ Yesterdays(t).fresh = FALSE
             /\ t \in Running => Yesterdays(t).cut = CutoffAge + 1
  <2>1. PICK y \in TaskData : y = tasks[t]
    BY DEF IInv, TypeOK, TaskData
  <2>2. t \in Running => y.cut + 1 \in 0..MaxAge
    BY <1>2, <2>1, CutoffSpares, BoundsAssumption
  <2>3. PICK c \in 0..MaxAge :
          /\ c = IF t \in Running THEN y.cut + 1 ELSE y.cut
          /\ t \in Running => c = CutoffAge + 1
    BY <1>2, <2>1, <2>2 DEF TaskData
  <2>4. PICK x : x = [y EXCEPT !.cut = c, !.fresh = FALSE]
    OBVIOUS
  <2>5. x = [state |-> y.state, tries |-> y.tries, by |-> y.by, cut |-> c,
             fresh |-> FALSE]
    BY <2>4 DEF TaskData
  <2>6. Yesterdays(t) = x
    BY <2>1, <2>3, <2>4, Zenon DEF Yesterdays
  <2> QED
    BY <2>1, <2>3, <2>5, <2>6 DEF TaskData
<1>s. \A t \in Tasks : /\ tasks'[t].state = tasks[t].state
                      /\ tasks'[t].by = tasks[t].by
                      /\ ~tasks'[t].fresh
  <2>1. \A t \in Tasks : tasks'[t] = Yesterdays(t)
    BY <1>2
  <2> QED
    BY <1>3, <2>1
<1>4. rows' \subseteq 0..MaxAge
  BY <1>2, BoundsAssumption DEF IInv, TypeOK, Older
<1>5. tasks' \in [Tasks -> TaskData]
  <2>1. tasks' = [t \in Tasks |-> Yesterdays(t)]
    BY <1>2
  <2>2. \A t \in Tasks : Yesterdays(t) \in TaskData
    BY <1>3
  <2> QED
    BY <2>1, <2>2
<1>6. TypeOK'
  <2>1. date'.month \in Months /\ date'.day \in 1..Length(date'.month)
    BY <1>1
  <2>2. \A t \in Tasks : tasks'[t].by \in up' \cup {NoInstance}
    <3>1. \A t \in Tasks : tasks[t].by \in up \cup {NoInstance}
      BY DEF IInv, TypeOK
    <3>2. up' = up
      BY <1>2
    <3> QED
      BY <1>s, <3>1, <3>2
  <2>3. due' \subseteq up' /\ up' \subseteq Instances
        /\ lock' \in Tasks \cup {NoTask}
    BY <1>2 DEF IInv, TypeOK
  <2> QED
    BY <1>4, <1>5, <2>1, <2>2, <2>3 DEF TypeOK, TaskData
<1>7. Running' = Running
  <2>1. up' = up
    BY <1>2
  <2> QED
    BY <1>s, <2>1 DEF Running, InState
<1>8. CutsKept'
  <2>1. ASSUME NEW t \in Running
        PROVE  \E m \in {date'.month, Back(date'.month, 1)} :
                  tasks'[t].cut >= KeepAge' - Overflow(m)
    <3>1. tasks'[t].cut = CutoffAge + 1
      BY <1>2, <1>3, <2>1 DEF Running, InState
    <3> QED
      BY <1>1, <3>1
  <2> QED
    BY <1>7, <2>1 DEF CutsKept
<1>9. FreshLocked' /\ OneFresh' /\ HeldInProgress'
  <2>1. FreshLocked' /\ OneFresh'
    BY <1>s DEF FreshLocked, OneFresh
  <2>2. HeldInProgress'
    BY <1>s DEF IInv, HeldInProgress
  <2> QED
    BY <2>1, <2>2
<1> QED
  BY <1>1, <1>6, <1>8, <1>9 DEF IInv

(* The cron of an instance enqueues a task.  The lock was free and not every
   instance had fired, so no task of today is unfinished. *)
LEMMA EnqueueStep ==
    ASSUME IInv, NEW i \in Instances, Enqueue(i)
    PROVE  IInv'
<1>1. /\ i \in due /\ lock = NoTask /\ due' = due \ {i}
      /\ date' = date /\ rows' = rows /\ up' = up
  BY DEF Enqueue
<1>2. PICK t \in Tasks :
         /\ tasks[t].state = "none" /\ lock' = t
         /\ tasks' = [tasks EXCEPT ![t].state = "pending", ![t].fresh = TRUE]
  BY DEF Enqueue, InState
<1>3. \A u \in Tasks : ~tasks[u].fresh
  BY <1>1, TasksAssumption DEF IInv, FreshLocked
<1>4. tasks[t] \in TaskData /\ tasks[t].by = NoInstance
  BY <1>2 DEF IInv, TypeOK, TaskData, HeldInProgress
<1>5. /\ tasks' \in [Tasks -> TaskData]
      /\ tasks'[t].state = "pending" /\ tasks'[t].fresh = TRUE
      /\ tasks'[t].by = NoInstance
      /\ \A u \in Tasks \ {t} : tasks'[u] = tasks[u]
  BY <1>2, <1>4 DEF IInv, TypeOK, TaskData
<1>6. TypeOK'
  BY <1>1, <1>2, <1>5 DEF IInv, TypeOK, TaskData
<1>7. CutsKept'
  BY <1>1, <1>5 DEF IInv, CutsKept, Running, InState, KeepAge
<1>8. FreshLocked' /\ OneFresh' /\ HeldInProgress'
  BY <1>2, <1>3, <1>5 DEF IInv, FreshLocked, OneFresh, HeldInProgress
<1> QED
  BY <1>1, <1>6, <1>7, <1>8 DEF IInv

(* An instance ends: its tasks stay as they are but in nobody's hands, or go
   back into the queue. *)
LEMMA EndStep ==
    ASSUME IInv, NEW i \in Instances, Crash(i) \/ Shutdown(i)
    PROVE  IInv'
<1>1. /\ up' = up \ {i} /\ due' = due \ {i}
      /\ date' = date /\ rows' = rows /\ lock' = lock
  BY DEF Crash, Shutdown
<1>2. /\ tasks' \in [Tasks -> TaskData]
      /\ \A t \in Tasks :
            /\ tasks'[t].fresh = tasks[t].fresh
            /\ tasks[t].by # i => tasks'[t] = tasks[t]
            /\ tasks[t].by = i => tasks'[t].by = NoInstance
  <2>1. \A t \in Tasks : /\ tasks[t] \in TaskData
                         /\ tasks[t].by = i => tasks[t].state \in {"active", "ack"}
    BY InstancesAssumption DEF IInv, TypeOK, TaskData, HeldInProgress
  <2>2. CASE Crash(i)
    <3>1. tasks' = Orphaned(i)
      BY <2>2 DEF Crash
    <3>2. \A t \in Tasks :
             [tasks[t] EXCEPT !.by = NoInstance, !.cut = 0] \in TaskData
      BY <2>1, ReleasedTask
    <3>3. ASSUME NEW t \in Tasks
          PROVE  /\ tasks'[t] \in TaskData
                 /\ tasks'[t].fresh = tasks[t].fresh
                 /\ tasks[t].by # i => tasks'[t] = tasks[t]
                 /\ tasks[t].by = i => tasks'[t].by = NoInstance
      BY <2>1, <3>1, <3>2 DEF Orphaned, TaskData
    <3> QED
      BY <3>1, <3>3 DEF Orphaned
  <2>3. CASE Shutdown(i)
    <3>1. tasks' = Requeued(i) /\ \A t \in InState("ack") : tasks[t].by # i
      BY <2>3 DEF Shutdown
    <3>2. \A t \in Tasks :
             [tasks[t] EXCEPT !.state = "pending", !.by = NoInstance,
                              !.cut = 0] \in TaskData
      BY <2>1, ReleasedTask
    <3>3. ASSUME NEW t \in Tasks
          PROVE  /\ tasks'[t] \in TaskData
                 /\ tasks'[t].fresh = tasks[t].fresh
                 /\ tasks[t].by # i => tasks'[t] = tasks[t]
                 /\ tasks[t].by = i => tasks'[t].by = NoInstance
      BY <2>1, <3>1, <3>2 DEF Requeued, InState, TaskData
    <3> QED
      BY <3>1, <3>3 DEF Requeued
  <2> QED
    BY <2>2, <2>3
<1>3. TypeOK'
  BY <1>1, <1>2 DEF IInv, TypeOK, TaskData
<1>4. CutsKept'
  <2> SUFFICES ASSUME NEW t \in Tasks, tasks'[t].state = "active",
                      tasks'[t].by \in up'
               PROVE  \E m \in {date.month, Back(date.month, 1)} :
                         tasks'[t].cut >= KeepAge - Overflow(m)
    BY <1>1 DEF CutsKept, Running, InState, KeepAge
  <2>1. tasks'[t] = tasks[t] /\ t \in Running
    BY <1>1, <1>2, InstancesAssumption DEF IInv, TypeOK, Running, InState
  <2> QED
    BY <2>1 DEF IInv, CutsKept
<1>5. FreshLocked' /\ OneFresh' /\ HeldInProgress'
  BY <1>1, <1>2 DEF IInv, FreshLocked, OneFresh, HeldInProgress
<1> QED
  BY <1>1, <1>3, <1>4, <1>5 DEF IInv

(* An attempt ends without success: the task waits or is gone. *)
LEMMA FailedTask ==
    ASSUME IInv, NEW t \in Tasks, Failed(t)
    PROVE  \E x \in TaskData :
              /\ tasks' = [tasks EXCEPT ![t] = x]
              /\ x.by = NoInstance
              /\ x.fresh => tasks[t].fresh
<1> DEFINE waiting == [tasks[t] EXCEPT !.state = "retry", !.tries = @ + 1,
                                       !.by = NoInstance, !.cut = 0]
<1>1. tasks[t] \in TaskData
  BY DEF IInv, TypeOK, TaskData
<1>2. /\ NoTaskData \in TaskData /\ NoTaskData.by = NoInstance
      /\ NoTaskData.fresh = FALSE
  BY BoundsAssumption DEF NoTaskData, TaskData
<1>3. CASE tasks[t].tries < MaxRetry
  <2>1. /\ waiting \in TaskData /\ waiting.by = NoInstance
        /\ waiting.fresh = tasks[t].fresh
    BY <1>1, <1>3, ReleasedTask DEF TaskData
  <2> QED
    BY <1>3, <2>1 DEF Failed
<1>4. CASE ~(tasks[t].tries < MaxRetry)
  BY <1>2, <1>4 DEF Failed
<1> QED
  BY <1>3, <1>4

(* A step of the asynq or of the handler with one task. *)
LEMMA WorkStep ==
    ASSUME IInv, NEW t \in Tasks,
           \/ \E i \in Instances : Take(i, t)
           \/ RunDelete(t) \/ Ack(t) \/ DeleteFails(t) \/ RetryDue(t)
           \/ LeaseExpires(t)
    PROVE  IInv'
<1>1. /\ tasks[t] \in TaskData /\ tasks[t].by \in up \cup {NoInstance}
      /\ tasks[t].by # NoInstance => tasks[t].state \in {"active", "ack"}
      /\ rows \subseteq 0..MaxAge /\ up \subseteq Instances
      /\ lock \in Tasks \cup {NoTask}
  BY DEF IInv, TypeOK, TaskData, HeldInProgress
<1>2. CutoffAge \in 0..MaxAge /\ 0 \in 0..MaxAge
      /\ CutoffAge >= KeepAge - Overflow(date.month)
  BY CutoffSpares, BoundsAssumption
<1>3. CASE \E i \in Instances : Take(i, t)
  <2>1. PICK i \in Instances : Take(i, t)
    BY <1>3
  <2> DEFINE x == [tasks[t] EXCEPT !.state = "active", !.by = i,
                                   !.cut = CutoffAge]
  <2>2. /\ x \in TaskData /\ x.state = "active" /\ x.by = i
        /\ x.cut = CutoffAge /\ x.fresh = tasks[t].fresh
    BY <1>1, <1>2 DEF TaskData
  <2>3. tasks' = [tasks EXCEPT ![t] = x] /\ i \in up
        /\ date' = date /\ rows' = rows /\ up' = up /\ due' = due
        /\ lock' = lock
    BY <2>1 DEF Take
  <2> HIDE DEF x
  <2>4. Spares(x)
    BY <1>2, <2>2 DEF Spares
  <2>5. /\ rows' \subseteq 0..MaxAge
        /\ x.by \in up \cup {NoInstance}
        /\ x.by # NoInstance => x.state \in {"active", "ack"}
        /\ x.state = "active" /\ x.by \in up => Spares(x)
        /\ x.fresh => tasks[t].fresh
        /\ lock' = lock \/ (lock = t /\ lock' = NoTask /\ ~x.fresh)
    BY <1>1, <2>2, <2>3, <2>4
  <2> QED
    BY <2>2, <2>3, <2>5, TaskStep
<1>4. CASE RunDelete(t)
  <2> DEFINE x == [tasks[t] EXCEPT !.state = "ack", !.cut = 0]
  <2>1. /\ x \in TaskData /\ x.state = "ack" /\ x.by = tasks[t].by
        /\ x.fresh = tasks[t].fresh
    BY <1>1, <1>2 DEF TaskData
  <2>2. tasks' = [tasks EXCEPT ![t] = x]
        /\ date' = date /\ up' = up /\ due' = due /\ lock' = lock
        /\ rows' \subseteq rows
    BY <1>4 DEF RunDelete, Kept
  <2> HIDE DEF x
  <2>3. /\ rows' \subseteq 0..MaxAge
        /\ x.by \in up \cup {NoInstance}
        /\ x.by # NoInstance => x.state \in {"active", "ack"}
        /\ x.state = "active" /\ x.by \in up => Spares(x)
        /\ x.fresh => tasks[t].fresh
        /\ lock' = lock \/ (lock = t /\ lock' = NoTask /\ ~x.fresh)
    BY <1>1, <2>1, <2>2
  <2> QED
    BY <2>1, <2>2, <2>3, TaskStep
<1>5. CASE Ack(t)
  <2>1. /\ NoTaskData \in TaskData /\ NoTaskData.by = NoInstance
        /\ NoTaskData.fresh = FALSE
    BY <1>2, BoundsAssumption DEF NoTaskData, TaskData
  <2>2. tasks' = [tasks EXCEPT ![t] = NoTaskData]
        /\ date' = date /\ up' = up /\ due' = due /\ rows' = rows
        /\ lock' = IF lock = t THEN NoTask ELSE lock
    BY <1>5 DEF Ack
  <2>3. NoTaskData.by \notin up
    BY <1>1, <2>1, InstancesAssumption
  <2>4. /\ rows' \subseteq 0..MaxAge
        /\ NoTaskData.by \in up \cup {NoInstance}
        /\ NoTaskData.by # NoInstance => NoTaskData.state \in {"active", "ack"}
        /\ NoTaskData.state = "active" /\ NoTaskData.by \in up => Spares(NoTaskData)
        /\ NoTaskData.fresh => tasks[t].fresh
        /\ lock' = lock \/ (lock = t /\ lock' = NoTask /\ ~NoTaskData.fresh)
    BY <1>1, <2>1, <2>2, <2>3
  <2> QED
    BY <2>1, <2>2, <2>4, TaskStep
<1>6. CASE Failed(t) /\ rows' \subseteq rows /\ UNCHANGED <<date, up, due, lock>>
  <2>1. PICK x \in TaskData : /\ tasks' = [tasks EXCEPT ![t] = x]
                              /\ x.by = NoInstance
                              /\ x.fresh => tasks[t].fresh
    BY <1>6, FailedTask
  <2>2. x.by \notin up
    BY <1>1, <2>1, InstancesAssumption
  <2>3. /\ rows' \subseteq 0..MaxAge
        /\ x.by \in up \cup {NoInstance}
        /\ x.by # NoInstance => x.state \in {"active", "ack"}
        /\ x.state = "active" /\ x.by \in up => Spares(x)
        /\ x.fresh => tasks[t].fresh
        /\ lock' = lock \/ (lock = t /\ lock' = NoTask /\ ~x.fresh)
    BY <1>1, <1>6, <2>1, <2>2
  <2> QED
    BY <1>6, <2>1, <2>3, TaskStep
<1>7. CASE DeleteFails(t) \/ LeaseExpires(t)
  <2>1. Failed(t) /\ rows' \subseteq rows /\ UNCHANGED <<date, up, due, lock>>
    BY <1>7 DEF DeleteFails, LeaseExpires, Kept
  <2> QED
    BY <1>6, <2>1
<1>8. CASE RetryDue(t)
  <2> DEFINE x == [tasks[t] EXCEPT !.state = "pending"]
  <2>1. /\ x \in TaskData /\ x.state = "pending" /\ x.by = tasks[t].by
        /\ x.fresh = tasks[t].fresh
    BY <1>1 DEF TaskData
  <2>2. tasks[t].by = NoInstance
    BY <1>1, <1>8 DEF RetryDue
  <2>3. tasks' = [tasks EXCEPT ![t] = x]
        /\ date' = date /\ up' = up /\ due' = due /\ lock' = lock
        /\ rows' = rows
    BY <1>8 DEF RetryDue
  <2> HIDE DEF x
  <2>4. /\ rows' \subseteq 0..MaxAge
        /\ x.by \in up \cup {NoInstance}
        /\ x.by # NoInstance => x.state \in {"active", "ack"}
        /\ x.state = "active" /\ x.by \in up => Spares(x)
        /\ x.fresh => tasks[t].fresh
        /\ lock' = lock \/ (lock = t /\ lock' = NoTask /\ ~x.fresh)
    BY <1>1, <2>1, <2>2, <2>3
  <2> QED
    BY <2>1, <2>3, <2>4, TaskStep
<1> QED
  BY <1>3, <1>4, <1>5, <1>7, <1>8

(* Every step keeps the invariant. *)
LEMMA InvStep == IInv /\ [Next]_vars => IInv'
<1> SUFFICES ASSUME IInv, [Next]_vars PROVE IInv'
  OBVIOUS
<1>1. rows \subseteq 0..MaxAge /\ 0 \in 0..MaxAge /\ due \subseteq up
      /\ up \subseteq Instances
  BY BoundsAssumption DEF IInv, TypeOK
<1>2. CASE WriteLog \/ LockExpires \/ UNCHANGED vars
  <2>1. /\ tasks' = tasks /\ date' = date /\ rows' \subseteq 0..MaxAge
        /\ due' \subseteq due /\ due' \subseteq up' /\ up \subseteq up'
        /\ up' \subseteq Instances
        /\ lock' = lock \/ (due = {} /\ lock' = NoTask)
    BY <1>1, <1>2 DEF WriteLog, LockExpires, vars
  <2> QED
    BY <2>1, OtherStep
<1>3. CASE \E i \in Instances : NotEnqueued(i) \/ Start(i)
  <2>1. /\ tasks' = tasks /\ date' = date /\ rows' \subseteq 0..MaxAge
        /\ due' \subseteq due /\ due' \subseteq up' /\ up \subseteq up'
        /\ up' \subseteq Instances
        /\ lock' = lock \/ (due = {} /\ lock' = NoTask)
    BY <1>1, <1>3 DEF NotEnqueued, Start
  <2> QED
    BY <2>1, OtherStep
<1>4. CASE DayPasses
  BY <1>4, MidnightStep
<1>5. CASE \E i \in Instances : Enqueue(i)
  BY <1>5, EnqueueStep
<1>6. CASE \E i \in Instances : Crash(i) \/ Shutdown(i)
  BY <1>6, EndStep
<1>7. CASE \E t \in Tasks :
              \/ \E i \in Instances : Take(i, t)
              \/ RunDelete(t) \/ Ack(t) \/ DeleteFails(t) \/ RetryDue(t)
              \/ LeaseExpires(t)
  BY <1>7, WorkStep
<1> QED
  BY <1>2, <1>3, <1>4, <1>5, <1>6, <1>7 DEF Next

(* The invariant always holds. *)
LEMMA InvHolds == Spec => []IInv
BY InvInit, InvStep, PTL DEF Spec

-----------------------------------------------------------------------------
(* What follows for the cleanup. *)

(* Variables stay in their types, and of the tasks enqueued on one day at most
   one is unfinished. *)
THEOREM OneCleanupPerDay == Spec => []CleanupInv
<1>1. IInv => CleanupInv
  <2> SUFFICES ASSUME IInv PROVE CleanupInv
    OBVIOUS
  <2> DEFINE todays == {t \in Tasks : tasks[t].fresh}
  <2>1. CASE todays = {}
    BY <2>1, FS_EmptySet DEF IInv, CleanupInv, OneUnfinishedPerDay
  <2>2. CASE todays # {}
    <3>1. PICK t \in Tasks : todays = {t}
      BY <2>2 DEF IInv, OneFresh
    <3>2. Cardinality(todays) = 1
      BY <3>1, FS_Singleton
    <3> QED
      BY <3>2 DEF IInv, CleanupInv, OneUnfinishedPerDay
  <2> QED
    BY <2>1, <2>2
<1> QED
  BY <1>1, InvHolds, PTL

(* No row is deleted that is within the retention, but for the days that
   AddDate runs over. *)
THEOREM OnlyOverdue == Spec => DeletesOnlyOverdue
<1> DEFINE Deletes ==
       date' = date =>
         \A a \in rows \ rows' :
             \E m \in {date.month, Back(date.month, 1)} :
                 a > KeepAge - Overflow(m)
<1>1. IInv /\ [Next]_vars => [Deletes]_vars
  <2> SUFFICES ASSUME IInv, Next, date' = date, NEW a \in rows, a \notin rows'
               PROVE  \E m \in {date.month, Back(date.month, 1)} :
                         a > KeepAge - Overflow(m)
    BY DEF Deletes
  <2>1. PICK t \in Running : rows' = Kept(t)
    <3>1. YearMonths > 1
      BY CalendarAssumption, LenProperties DEF YearMonths
    <3>2. Tomorrow # date
      <4>1. /\ date.month \in 1..YearMonths /\ date.day \in Nat
            /\ date \in [month : Months, day : Nat]
        BY DEF IInv, TypeOK, Months
      <4>2. NextMonth(date.month) # date.month
        BY <3>1, <4>1 DEF NextMonth
      <4> QED
        BY <4>1, <4>2 DEF Tomorrow
    <3> QED
      BY <3>2 DEF Next, DayPasses, WriteLog, LockExpires, Enqueue, NotEnqueued, Crash,
         Shutdown, Start, Take, RunDelete, Ack, DeleteFails, RetryDue,
         LeaseExpires
  <2>2. a > tasks[t].cut /\ a \in Nat /\ tasks[t].cut \in Nat
    BY <2>1, BoundsAssumption DEF Kept, IInv, TypeOK, Running, InState
  <2>3. PICK m \in {date.month, Back(date.month, 1)} :
           tasks[t].cut >= KeepAge - Overflow(m)
    BY <2>1 DEF IInv, CutsKept
  <2>4. KeepAge \in Int /\ Overflow(date.month) \in Int
    BY CalendarTypes DEF KeepAge, IInv, TypeOK
  <2>5. m \in Months
    BY RetentionParts DEF Back, Months, IInv, TypeOK
  <2> QED
    BY <2>2, <2>3, <2>4, <2>5, CalendarTypes
<1> QED
  BY <1>1, InvHolds, PTL DEF Spec, DeletesOnlyOverdue

=============================================================================
