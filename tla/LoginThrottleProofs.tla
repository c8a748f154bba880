------------------------ MODULE LoginThrottleProofs ------------------------
(***************************************************************************)
(* What LoginThrottle guarantees for any number of concurrent requests,    *)
(* any limit, any lifetime of the counter and any number of retries.       *)
(***************************************************************************)
EXTENDS LoginThrottle, FiniteSetTheorems, TLAPS

(* The type invariant of the failed-login counter holds in every reachable
   state of login, Incr and the expiry of the key. *)
THEOREM TypeCorrect == Spec => []TypeOK
<1>1. Init => TypeOK
  BY TTLAssumption, RetriesAssumption DEF Init, TypeOK, Steps, Answers
<1>2. TypeOK /\ [Next]_vars => TypeOK'
  <2> SUFFICES ASSUME TypeOK, [Next]_vars PROVE TypeOK'
    OBVIOUS
  <2> USE TTLAssumption, RetriesAssumption DEF TypeOK, Steps, Answers
  <2>1. CASE Tick
    BY <2>1 DEF Tick
  <2>2. ASSUME NEW s \in Slots, Arrive(s) PROVE TypeOK'
    BY <2>2 DEF Arrive, Admit, TooManyLoginFails, CountUnreadable, Goto
  <2>3. ASSUME NEW s \in Slots, Proceed(s) PROVE TypeOK'
    <3>1. CASE WrongCredentials(s) \/ RightCredentials(s) \/ UserUnreadable(s)
      BY <3>1 DEF WrongCredentials, RightCredentials, UserUnreadable, Goto
    <3>2. CASE Incr(s) \/ IncrFails(s)
      BY <3>2 DEF Incr, IncrFails, Goto, Resend
    <3>3. CASE Expire(s) \/ ExpireFails(s)
      BY <3>3 DEF Expire, ExpireFails, Goto, Resend
    <3>4. CASE ClearFailCount(s) \/ ClearFails(s)
      BY <3>4 DEF ClearFailCount, ClearFails, DelFailCount, Goto, Resend
    <3> QED
      BY <2>3, <3>1, <3>2, <3>3, <3>4 DEF Proceed
  <2>4. CASE UNCHANGED vars
    BY <2>4 DEF vars
  <2> QED
    BY <2>1, <2>2, <2>3, <2>4 DEF Next
<1> QED
  BY <1>1, <1>2, PTL DEF Spec

-----------------------------------------------------------------------------

(* The executions of INCR that may still follow: one for each login that
   passed the limit, and one more for each time it may be resent. *)
Pending ==
    {p \in Slots \X (1..Executions) :
        \/ pc[p[1]] = "verify"
        \/ pc[p[1]] = "incr" /\ p[2] <= 1 + retries[p[1]]}

(* The counter together with what may still be added to it.  This is
   inductive where OvershootBound is not: a request is accounted for from the
   moment Admit lets it in, with all the times its INCR may be executed. *)
Budget ==
    failCount + Cardinality(Pending)
        <= MaxLoginAttempts - 1 + Cardinality(Slots) * Executions

(* A login may count at least once. *)
LEMMA ExecutionsType ==
    /\ Executions \in Nat \ {0}
    /\ Cardinality(Slots) \in Nat
    /\ Cardinality(Slots) * Executions \in Nat
<1>1. Executions \in Nat \ {0}
  BY RetriesAssumption DEF Executions
<1>2. Cardinality(Slots) \in Nat
  BY SlotsAssumption, FS_CardinalityType
<1> QED
  BY <1>1, <1>2

(* What may still follow are finitely many executions, at most the largest
   number for every slot. *)
LEMMA PendingBound ==
    ASSUME NEW P, P \subseteq Slots \X (1..Executions)
    PROVE  /\ IsFiniteSet(P)
           /\ Cardinality(P) \in Nat
           /\ Cardinality(P) <= Cardinality(Slots) * Executions
<1>1. IsFiniteSet(1..Executions) /\ Cardinality(1..Executions) = Executions
  BY ExecutionsType, FS_Interval
<1>2. /\ IsFiniteSet(Slots \X (1..Executions))
      /\ Cardinality(Slots \X (1..Executions)) = Cardinality(Slots) * Executions
  BY <1>1, SlotsAssumption, FS_Product
<1> QED
  BY <1>2, FS_Subset, FS_CardinalityType

(* Every step keeps the counter and the pending executions within Budget. *)
LEMMA BudgetStep ==
    TypeOK /\ TypeOK' /\ Budget /\ [Next]_vars => Budget'
<1> SUFFICES ASSUME TypeOK, TypeOK', Budget, [Next]_vars PROVE Budget'
  OBVIOUS
<1>1. /\ IsFiniteSet(Pending) /\ Cardinality(Pending) \in Nat
      /\ IsFiniteSet(Pending') /\ Cardinality(Pending') \in Nat
      /\ Cardinality(Pending') <= Cardinality(Slots) * Executions
      /\ Cardinality(Slots) * Executions \in Nat
      /\ MaxLoginAttempts \in Nat \ {0}
      /\ failCount \in Nat /\ failCount' \in Nat
  <2>1. /\ Pending \subseteq Slots \X (1..Executions)
        /\ Pending' \subseteq Slots \X (1..Executions)
    BY DEF Pending, Executions
  <2> QED
    BY <2>1, PendingBound, ExecutionsType, AttemptsAssumption DEF TypeOK
<1>b. Budget' <=> failCount' + Cardinality(Pending')
                    <= MaxLoginAttempts - 1 + Cardinality(Slots) * Executions
  BY DEF Budget, Executions
<1>2. ASSUME failCount' < MaxLoginAttempts PROVE Budget'
  BY <1>1, <1>2, <1>b
<1>3. ASSUME Pending' \subseteq Pending, failCount' <= failCount PROVE Budget'
  <2>1. Cardinality(Pending') <= Cardinality(Pending)
    BY <1>1, <1>3, FS_Subset
  <2> QED
    BY <1>1, <1>3, <1>b, <2>1 DEF Budget
<1>4. ASSUME NEW p \in Pending, Pending' \subseteq Pending \ {p},
             failCount' <= failCount + 1
      PROVE  Budget'
  <2>1. /\ IsFiniteSet(Pending \ {p})
        /\ Cardinality(Pending \ {p}) = Cardinality(Pending) - 1
    BY <1>1, FS_RemoveElement
  <2>2. Cardinality(Pending') <= Cardinality(Pending \ {p})
    BY <1>4, <2>1, FS_Subset
  <2> QED
    BY <1>1, <1>4, <1>b, <2>1, <2>2 DEF Budget
(* A request that counts no more. *)
<1>5. ASSUME NEW s \in Slots, NEW l, l \notin {"verify", "incr"}, Goto(s, l)
      PROVE  Pending' \subseteq Pending
  BY <1>5 DEF Goto, Pending, TypeOK, Executions
<1>6. ASSUME NEW s \in Slots, pc[s] # "incr", Resend(s)
      PROVE  Pending' \subseteq Pending
  BY <1>6 DEF Resend, Pending, TypeOK, Executions
<1>7. CASE Tick
  <2>1. Pending' = Pending
    BY <1>7 DEF Tick, Pending, Executions
  <2> QED
    BY <1>1, <1>3, <1>7, <2>1 DEF Tick
<1>8. ASSUME NEW s \in Slots, Arrive(s) PROVE Budget'
  <2>1. CASE Admit(s)
    BY <1>2, <2>1 DEF Admit
  <2>2. CASE TooManyLoginFails(s) \/ CountUnreadable(s)
    BY <1>1, <1>3, <1>5, <2>2 DEF TooManyLoginFails, CountUnreadable
  <2> QED
    BY <1>8, <2>1, <2>2 DEF Arrive
<1>9. ASSUME NEW s \in Slots, Proceed(s) PROVE Budget'
  <2>1. CASE WrongCredentials(s)
    <3>1. Pending' \subseteq Pending
      BY <2>1 DEF WrongCredentials, Goto, Pending, TypeOK, Executions
    <3> QED
      BY <1>1, <1>3, <2>1, <3>1 DEF WrongCredentials
  <2>2. CASE RightCredentials(s) \/ UserUnreadable(s)
    BY <1>1, <1>3, <1>5, <2>2 DEF RightCredentials, UserUnreadable
  <2>3. ASSUME pc[s] = "incr", NEW l, l \notin {"verify", "incr"}, Goto(s, l),
               failCount' <= failCount + 1
        PROVE  Budget'
    <3>1. <<s, 1>> \in Pending
      BY <2>3, ExecutionsType DEF Pending, TypeOK
    <3>2. Pending' \subseteq Pending \ {<<s, 1>>}
      BY <2>3 DEF Goto, Pending, TypeOK, Executions
    <3> QED
      BY <1>4, <2>3, <3>1, <3>2
  <2>4. CASE Incr(s)
    BY <1>1, <2>3, <2>4 DEF Incr
  <2>5. CASE IncrFails(s)
    <3>1. /\ Faults /\ pc[s] = "incr" /\ failCount' <= failCount + 1
          /\ Resend(s) \/ Goto(s, "401")
      BY <1>1, <2>5 DEF IncrFails
    <3>2. CASE Resend(s)
      <4>1. /\ retries \in [Slots -> 0..MaxRetries] /\ retries[s] > 0
            /\ retries' = [retries EXCEPT ![s] = retries[s] - 1] /\ pc' = pc
        BY <3>2 DEF Resend, TypeOK
      <4>2. 1 + retries[s] \in 1..Executions
        BY <3>1, <4>1, RetriesAssumption DEF Executions
      <4>3. <<s, 1 + retries[s]>> \in Pending
        BY <3>1, <4>1, <4>2 DEF Pending
      <4>4. Pending' \subseteq Pending \ {<<s, 1 + retries[s]>>}
        BY <3>1, <4>1 DEF Pending, Executions
      <4> QED
        BY <1>4, <3>1, <4>3, <4>4
    <3> QED
      BY <2>3, <3>1, <3>2
  <2>6. CASE Expire(s) \/ ExpireFails(s)
    <3>1. /\ pc[s] = "expire" /\ failCount' = failCount
          /\ Resend(s) \/ Goto(s, "401")
      BY <2>6 DEF Expire, ExpireFails
    <3> QED
      BY <1>1, <1>3, <1>5, <1>6, <3>1
  <2>7. CASE ClearFailCount(s) \/ ClearFails(s)
    <3>1. /\ pc[s] = "clear" /\ failCount' <= failCount
          /\ Resend(s) \/ Goto(s, "session")
      BY <1>1, <2>7 DEF ClearFailCount, ClearFails, DelFailCount
    <3> QED
      BY <1>3, <1>5, <1>6, <3>1
  <2> QED
    BY <1>9, <2>1, <2>2, <2>4, <2>5, <2>6, <2>7 DEF Proceed
<1>10. CASE UNCHANGED vars
  <2>1. Pending' = Pending
    BY <1>10 DEF vars, Pending, Executions
  <2> QED
    BY <1>1, <1>3, <1>10, <2>1 DEF vars
<1> QED
  BY <1>7, <1>8, <1>9, <1>10 DEF Next

(* Even when Redis calls fail and are resent, concurrent failed logins push
   the counter past the limit that getLoginFailCount enforces by no more than
   what the logins in progress at one time can add. *)
THEOREM Overshoot == Spec => []OvershootBound
<1>1. Init => Budget
  <2> SUFFICES ASSUME Init PROVE Budget
    OBVIOUS
  <2>1. Pending = {}
    BY DEF Init, Pending
  <2>2. Cardinality(Pending) = 0
    BY <2>1, FS_EmptySet
  <2> QED
    BY <2>2, ExecutionsType, AttemptsAssumption DEF Init, Budget
<1>2. TypeOK /\ Budget => OvershootBound
  <2> SUFFICES ASSUME TypeOK, Budget PROVE OvershootBound
    OBVIOUS
  <2>1. Cardinality(Pending) \in Nat
    BY PendingBound DEF Pending
  <2> QED
    BY <2>1, ExecutionsType, AttemptsAssumption
       DEF Budget, OvershootBound, TypeOK
<1> QED
  BY <1>1, <1>2, TypeCorrect, BudgetStep, PTL DEF Spec

-----------------------------------------------------------------------------

(* A counter without an expiry always has the request that created it about
   to set one, whatever other requests do between the INCR and the EXPIRE of
   cache.Incr and whichever of their calls fail, unless the answer of the INCR
   was lost or the EXPIRE itself failed. *)
THEOREM UntimedCounter == Spec => []UntimedOnlyWhileRecording
<1>1. Init => UntimedOnlyWhileRecording
  BY DEF Init, UntimedOnlyWhileRecording
<1>2. TypeOK /\ UntimedOnlyWhileRecording /\ [Next]_vars
        => UntimedOnlyWhileRecording'
  <2> SUFFICES ASSUME TypeOK, UntimedOnlyWhileRecording, [Next]_vars,
                      failCount' > 0, ttl' = 0, lost' = "no"
               PROVE  \E t \in Slots : pc'[t] = "expire"
    BY DEF UntimedOnlyWhileRecording
  <2>1. CASE Tick
    BY <2>1, TTLAssumption DEF Tick, TypeOK
  <2>2. ASSUME NEW s \in Slots, pc[s] # "expire", failCount > 0, ttl = 0, lost = "no",
               NEW l, Resend(s) \/ Goto(s, l)
        PROVE  \E t \in Slots : pc'[t] = "expire"
    <3>1. PICK t \in Slots : pc[t] = "expire"
      BY <2>2 DEF UntimedOnlyWhileRecording
    <3> QED
      BY <2>2, <3>1 DEF Goto, Resend, TypeOK
  <2>3. ASSUME NEW s \in Slots, Arrive(s)
        PROVE  \E t \in Slots : pc'[t] = "expire"
    BY <2>2, <2>3 DEF Arrive, Admit, TooManyLoginFails, CountUnreadable,
                      Answers
  <2>4. ASSUME NEW s \in Slots, Proceed(s)
        PROVE  \E t \in Slots : pc'[t] = "expire"
    <3>1. CASE WrongCredentials(s) \/ RightCredentials(s) \/ UserUnreadable(s)
      BY <2>2, <3>1 DEF WrongCredentials, RightCredentials, UserUnreadable
    <3>2. CASE Incr(s)
      <4>1. CASE failCount = 0
        BY <3>2, <4>1 DEF Incr, Goto, TypeOK
      <4>2. CASE failCount # 0
        BY <2>2, <3>2, <4>2 DEF Incr, TypeOK
      <4> QED
        BY <4>1, <4>2
    <3>3. CASE IncrFails(s)
      <4>1. failCount > 0 /\ ttl = 0 /\ lost = "no"
        BY <3>3 DEF IncrFails, TypeOK
      <4> QED
        BY <2>2, <3>3, <4>1 DEF IncrFails
    <3>4. CASE Expire(s)
      BY <3>4, TTLAssumption DEF Expire
    <3>5. CASE ExpireFails(s)
      <4>1. CASE Resend(s)
        BY <3>5, <4>1 DEF ExpireFails, Resend
      <4>2. CASE ~Resend(s)
        BY <3>5, <4>2 DEF ExpireFails, TypeOK
      <4> QED
        BY <4>1, <4>2
    <3>6. CASE ClearFailCount(s)
      BY <3>6 DEF ClearFailCount, DelFailCount
    <3>7. CASE ClearFails(s)
      <4>1. UNCHANGED <<failCount, ttl, lost>>
        BY <3>7 DEF ClearFails, DelFailCount
      <4> QED
        BY <2>2, <3>7, <4>1 DEF ClearFails
    <3> QED
      BY <2>4, <3>1, <3>2, <3>3, <3>4, <3>5, <3>6, <3>7 DEF Proceed
  <2>5. CASE UNCHANGED vars
    BY <2>5 DEF vars, UntimedOnlyWhileRecording
  <2> QED
    BY <2>1, <2>3, <2>4, <2>5 DEF Next
<1> QED
  BY <1>1, <1>2, TypeCorrect, PTL DEF Spec

=============================================================================
