--------------------------- MODULE LoginThrottle ---------------------------
(***************************************************************************)
(* The failed-login counter of api/auth.go, for ONE username.              *)
(*                                                                         *)
(* The counter is the Redis key login_fail:<username>, shared by every     *)
(* request that tries to log in under that name.  A request reads it,      *)
(* checks the credentials, and then either increments it or deletes it;    *)
(* each of these is a separate round trip, so requests interleave between  *)
(* them.  cache.Incr is itself two round trips (INCR, then EXPIRE when the *)
(* counter was just created).                                              *)
(*                                                                         *)
(* An attempt of a command fails before Redis executes it, or after: then  *)
(* only its answer is lost.  NewRedisCache leaves MaxRetries unset, so the *)
(* client sends a command again that got no answer, without knowing which  *)
(* of the two it was, and only then returns an error.  Assumed of Redis: a *)
(* command that is not executed by the time the client gives up on the     *)
(* attempt is not executed later.                                          *)
(*                                                                         *)
(* A slot is a request being served; a slot whose request was answered     *)
(* serves the next one.  What follows the credentials check of a           *)
(* successful login (the session) is module AdminSession.                  *)
(***************************************************************************)
EXTENDS Integers, FiniteSets

CONSTANTS
    Slots,             \* login requests that can be in progress together
    MaxLoginAttempts,  \* maxLoginAttempts
    LoginFailTTL,      \* loginFailTTL, in clock ticks
    MaxRetries,        \* how often the client resends a command (3 by default)
    Faults             \* whether calls to Redis or to the database may fail

ASSUME SlotsAssumption    == IsFiniteSet(Slots)
ASSUME AttemptsAssumption == MaxLoginAttempts \in Nat \ {0}
ASSUME TTLAssumption      == LoginFailTTL \in Nat \ {0}
ASSUME RetriesAssumption  == MaxRetries \in Nat
ASSUME FaultsAssumption   == Faults \in BOOLEAN

VARIABLES
    failCount,  \* value of the key; 0 when the key does not exist
    ttl,        \* ticks until the key expires; 0 when it has no expiry
    lost,       \* whether the call that was to give the key its expiry failed
    pc,         \* where each slot's request is, or how it was answered
    retries     \* how often the client may still resend its next command

vars == <<failCount, ttl, lost, pc, retries>>

(* lost is not in the code: it remembers that the key has no expiry because
   an EXPIRE failed or the answer of the INCR that created it was lost. *)

(* The next call of a request that is being served. *)
Steps == {"verify", "incr", "expire", "clear"}

(* "idle" before the first request, then the answer of the last one;
   "session" is a login that went on to create its session. *)
Answers == {"idle", "429", "401", "500", "session"}

Goto(s, label) ==
    /\ pc' = [pc EXCEPT ![s] = label]
    /\ retries' = [retries EXCEPT ![s] = MaxRetries]

(* The client sends the command again. *)
Resend(s) ==
    /\ retries[s] > 0
    /\ retries' = [retries EXCEPT ![s] = @ - 1]
    /\ UNCHANGED pc

Init ==
    /\ failCount = 0
    /\ ttl = 0
    /\ lost = "no"
    /\ pc = [s \in Slots |-> "idle"]
    /\ retries = [s \in Slots |-> MaxRetries]

-----------------------------------------------------------------------------

(* Fault variant: the limit is compared with > instead of >=. *)
AdmitAtLimit(s) ==
    /\ pc[s] \in Answers
    /\ failCount <= MaxLoginAttempts
    /\ Goto(s, "verify")
    /\ UNCHANGED <<failCount, ttl, lost>>

(* getLoginFailCount found fewer failures than the limit (a missing key
   counts as none): the request goes on to check the credentials. *)
Admit(s) ==
    /\ pc[s] \in Answers
    /\ failCount < MaxLoginAttempts
    /\ Goto(s, "verify")
    /\ UNCHANGED <<failCount, ttl, lost>>

(* Fault variant: every refused attempt restarts the lock. *)
RefuseAndExtend(s) ==
    /\ pc[s] \in Answers
    /\ failCount >= MaxLoginAttempts
    /\ Goto(s, "429")
    /\ ttl' = LoginFailTTL
    /\ lost' = "no"
    /\ UNCHANGED failCount

(* The limit is reached: ErrTooManyLoginFails, without looking at the
   credentials and without counting the attempt. *)
TooManyLoginFails(s) ==
    /\ pc[s] \in Answers
    /\ failCount >= MaxLoginAttempts
    /\ Goto(s, "429")
    /\ UNCHANGED <<failCount, ttl, lost>>

(* Reading the counter fails: failInternal. *)
CountUnreadable(s) ==
    /\ Faults
    /\ pc[s] \in Answers
    /\ Goto(s, "500")
    /\ UNCHANGED <<failCount, ttl, lost>>

(* The account does not exist (or is deleted), or the password is wrong. *)
WrongCredentials(s) ==
    /\ pc[s] = "verify"
    /\ Goto(s, "incr")
    /\ UNCHANGED <<failCount, ttl, lost>>

RightCredentials(s) ==
    /\ pc[s] = "verify"
    /\ Goto(s, "clear")
    /\ UNCHANGED <<failCount, ttl, lost>>

(* GetAdminUserByUsername fails: 500, and the attempt is not counted. *)
UserUnreadable(s) ==
    /\ Faults
    /\ pc[s] = "verify"
    /\ Goto(s, "500")
    /\ UNCHANGED <<failCount, ttl, lost>>

(* Fault variant: the counter is compared with 0, its value before INCR. *)
IncrNeverFirst(s) ==
    /\ pc[s] = "incr"
    /\ failCount' = failCount + 1
    /\ Goto(s, IF failCount' = 0 THEN "expire" ELSE "401")
    /\ UNCHANGED <<ttl, lost>>

(* INCR of cache.Incr: atomic in Redis, keeps the expiry the key has.  Only
   the call that created the key goes on to give it one. *)
Incr(s) ==
    /\ pc[s] = "incr"
    /\ failCount' = failCount + 1
    /\ Goto(s, IF failCount' = 1 THEN "expire" ELSE "401")
    /\ UNCHANGED <<ttl, lost>>

(* An attempt of INCR fails: it was not executed, or it was and the answer
   was lost, and the next attempt counts the same login once more.  A counter
   that was created this way is found to exist by the next attempt, and gets
   no expiry.  When the client gives up, recordLoginFail only logs it. *)
IncrFails(s) ==
    /\ Faults
    /\ pc[s] = "incr"
    /\ failCount' \in {failCount, failCount + 1}
    /\ lost' = IF failCount = 0 /\ failCount' = 1 THEN "yes" ELSE lost
    /\ Resend(s) \/ Goto(s, "401")
    /\ UNCHANGED ttl

(* Fault variant: EXPIRE is assumed to act on a key that is gone. *)
ExpireMissingKey(s) ==
    /\ pc[s] = "expire"
    /\ ttl' = LoginFailTTL
    /\ Goto(s, "401")
    /\ UNCHANGED <<failCount, lost>>

(* EXPIRE of cache.Incr; it does nothing to a key that no longer exists. *)
Expire(s) ==
    /\ pc[s] = "expire"
    /\ ttl' = IF failCount > 0 THEN LoginFailTTL ELSE 0
    /\ lost' = "no"
    /\ Goto(s, "401")
    /\ UNCHANGED failCount

(* An attempt of EXPIRE fails, executed or not.  The counter is left without
   an expiry when the client gives up on an EXPIRE that never was. *)
ExpireFails(s) ==
    /\ Faults
    /\ pc[s] = "expire"
    /\ ttl' \in {ttl, IF failCount > 0 THEN LoginFailTTL ELSE 0}
    /\ \/ /\ Resend(s)
          /\ lost' = IF ttl' > 0 THEN "no" ELSE lost
       \/ /\ Goto(s, "401")
          /\ lost' = IF failCount > 0 /\ ttl' = 0 THEN "yes" ELSE "no"
    /\ UNCHANGED failCount

DelFailCount ==
    /\ failCount' = 0
    /\ ttl' = 0
    /\ lost' = "no"

(* DEL after the credentials were right. *)
ClearFailCount(s) ==
    /\ pc[s] = "clear"
    /\ DelFailCount
    /\ Goto(s, "session")

(* An attempt of DEL fails, executed or not.  When the client gives up a
   warning is logged and the login goes on. *)
ClearFails(s) ==
    /\ Faults
    /\ pc[s] = "clear"
    /\ DelFailCount \/ UNCHANGED <<failCount, ttl, lost>>
    /\ Resend(s) \/ Goto(s, "session")

(* Time passes in Redis: a key whose time has run out is gone. *)
Tick ==
    /\ ttl > 0
    /\ ttl' = ttl - 1
    /\ failCount' = IF ttl' = 0 THEN 0 ELSE failCount
    /\ UNCHANGED <<lost, pc, retries>>

Arrive(s) == Admit(s) \/ TooManyLoginFails(s) \/ CountUnreadable(s)

(* The rest of a request that was admitted. *)
Proceed(s) ==
    \/ WrongCredentials(s) \/ RightCredentials(s) \/ UserUnreadable(s)
    \/ Incr(s) \/ IncrFails(s)
    \/ Expire(s) \/ ExpireFails(s)
    \/ ClearFailCount(s) \/ ClearFails(s)

Next == Tick \/ \E s \in Slots : Arrive(s) \/ Proceed(s)

(* Time passes, and a request that was admitted is served to its end: every
   call it makes returns, at the latest when the request's deadline passes
   (timeoutMiddleware).  Nobody has to log in. *)
Fairness == WF_vars(Tick) /\ \A s \in Slots : WF_vars(Proceed(s))

Spec == Init /\ [][Next]_vars /\ Fairness

-----------------------------------------------------------------------------

(* The key holds a count, and only a key that exists has an expiry. *)
TypeOK ==
    /\ failCount \in Nat
    /\ ttl \in 0..LoginFailTTL
    /\ pc \in [Slots -> Steps \cup Answers]
    /\ retries \in [Slots -> 0..MaxRetries]
    /\ lost \in {"yes", "no"}
    /\ failCount = 0 => ttl = 0 /\ lost = "no"
    /\ lost = "yes" => ttl = 0

(* How often Redis may execute the INCR of one failed login. *)
Executions == IF Faults THEN 1 + MaxRetries ELSE 1

(* The limit is checked in one round trip and the counter is raised in
   another, so requests that passed the check together overshoot it, the more
   as the client resends an INCR whose answer was lost; but never by more than
   the requests in progress at a time allow: login counts at most
   MaxLoginAttempts - 1 failures plus what each of them can add. *)
OvershootBound ==
    failCount <= MaxLoginAttempts - 1 + Cardinality(Slots) * Executions

(* A counter that exists expires, except between the INCR that created it
   and the EXPIRE of the same cache.Incr call, and when the answer to that
   INCR was lost or that EXPIRE failed: no interleaving of other requests,
   DELs and expirations, and no other failure, leaves a counter behind that
   nobody will give an expiry (a lock that would never end). *)
UntimedOnlyWhileRecording ==
    failCount > 0 /\ ttl = 0 /\ lost = "no"
        => \E s \in Slots : pc[s] = "expire"

(* A locked account is unlocked again after a while, whatever is tried on it
   meanwhile, unless the call that was to give the counter its expiry
   failed. *)
LockEnds ==
    failCount >= MaxLoginAttempts
        ~> failCount < MaxLoginAttempts \/ lost = "yes"

(* "5 failures in a row lock the account for 15 minutes": it is unlocked
   again, whatever happens. *)
AlwaysUnlocked == failCount >= MaxLoginAttempts ~> failCount < MaxLoginAttempts

=============================================================================
