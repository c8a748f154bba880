------------------------- MODULE AdminSessionProofs -------------------------
(***************************************************************************)
(* Proofs about AdminSession for any number of users and requests: first   *)
(* with concurrency, failures and a clock that ticks at any time, then for *)
(* one request at a time.                                                  *)
(***************************************************************************)
EXTENDS AdminSession, TLAPS

(***************************************************************************)
(* The inductive invariant.  That a session is ended only on behalf of its *)
(* user or by the deletion of the user depends on what a request read in   *)
(* earlier calls and kept: the token of the header, the token found in the *)
(* index.  These were issued to the right user, and stay so.               *)
(***************************************************************************)

(* t is a token issued to u. *)
LoginOf(t, u) == t \in Requests /\ req[t].kind = "login" /\ req[t].user = u

(* Steps behind the authentication, and those of them about a target or about
   the user himself. *)
KnownSteps == {"renew", "renewIndex", "handle"} \cup HandlerSteps
DeleteSteps == {"softDelete", "kickGet", "kickDel"}
TargetSteps == DeleteSteps \cup {"restoreRow", "exists", "replace"}
SelfSteps == {"logoutDel", "check", "store", "endDel"}

Targeted == {"delete", "restore", "grantRoles", "revokeRoles"}

(* What request r knows at each of its steps. *)
Knows(r) ==
    /\ req[r].pc = "new" => req[r].kind = None
    /\ req[r].kind = "login" => req[r].user \in Users
    /\ req[r].pc \in LoginSteps => req[r].kind = "login"
    /\ req[r].pc = "delOld" => LoginOf(req[r].old, req[r].user)
    /\ req[r].pc \in AuthSteps \cup HandlerSteps =>
         /\ req[r].kind \in AllKinds \ {"login"}
         /\ req[r].kind \in Targeted => req[r].target \in Users
         /\ \E u \in Users : LoginOf(req[r].token, u)
    /\ req[r].pc \in KnownSteps =>
         /\ req[r].user \in Users
         /\ LoginOf(req[r].token, req[r].user)
    /\ req[r].pc \in DeleteSteps => req[r].kind = "delete"
    /\ req[r].pc \in TargetSteps => req[r].kind \in Targeted
    /\ req[r].pc \in SelfSteps => req[r].kind # "delete"
    /\ req[r].pc = "kickDel" => LoginOf(req[r].old, req[r].target)

RequestsKnow == \A r \in Requests : Knows(r)

(* The reverse index of a user names a token of that user. *)
IndexOwned == \A u \in Users : index[u] # None => LoginOf(index[u], u)

Inv == TypeOK /\ RequestsKnow /\ IndexOwned

-----------------------------------------------------------------------------

(* One request changes; unless it was a login and stops being one, tokens
   keep their users and the other requests know what they knew. *)
LEMMA OneChanges ==
    ASSUME Inv, NEW r \in Requests, NEW x \in Record,
           req' = [req EXCEPT ![r] = x],
           req[r].kind = "login" => x.kind = "login" /\ x.user = req[r].user
    PROVE  /\ req' \in [Requests -> Record]
           /\ req'[r] = x
           /\ \A q \in Requests \ {r} : req'[q] = req[q]
           /\ \A t, u : LoginOf(t, u) => LoginOf(t, u)'
           /\ \A q \in Requests \ {r} : Knows(q)'
<1>1. /\ req' \in [Requests -> Record]
      /\ req'[r] = x
      /\ \A q \in Requests \ {r} : req'[q] = req[q]
  BY DEF Inv, TypeOK
<1>2. \A t, u : LoginOf(t, u) => LoginOf(t, u)'
  BY <1>1 DEF LoginOf
<1>3. ASSUME NEW q \in Requests \ {r} PROVE Knows(q)'
  <2>1. Knows(q) /\ req'[q] = req[q]
    BY <1>1 DEF Inv, RequestsKnow
  <2> QED
    BY <1>2, <2>1 DEF Knows
<1> QED
  BY <1>1, <1>2, <1>3

(* The labels a request can go on to without learning anything. *)
MayGo(r, label) ==
    \/ label \in Answers
    \/ req[r].pc \in LoginSteps /\ label \in LoginSteps \ {"delOld"}
    \/ /\ req[r].pc \in KnownSteps
       /\ label \in KnownSteps \ TargetSteps
       /\ label \in SelfSteps => req[r].kind # "delete"
    \/ /\ req[r].pc \in KnownSteps
       /\ label \in DeleteSteps \ {"kickDel"}
       /\ req[r].kind = "delete"
    \/ /\ req[r].pc \in KnownSteps
       /\ label \in TargetSteps \ DeleteSteps
       /\ req[r].kind \in Targeted

(* A request that goes on without learning anything keeps what it knows. *)
LEMMA GotoStep ==
    ASSUME Inv, NEW r \in Requests, NEW label,
           Goto(r, label), MayGo(r, label)
    PROVE  /\ req' \in [Requests -> Record]
           /\ req'[r].pc = label
           /\ \A t, u : LoginOf(t, u) => LoginOf(t, u)'
           /\ RequestsKnow'
<1> USE DEF Steps, LoginSteps, AuthSteps, HandlerSteps, Answers, KnownSteps,
            DeleteSteps, TargetSteps, SelfSteps
<1> DEFINE x == [req[r] EXCEPT !.pc = label]
<1>1. req[r] \in Record /\ Knows(r)
  BY DEF Inv, TypeOK, RequestsKnow
<1>2. label \in Steps \cup Answers
  BY DEF MayGo
<1>3. x \in Record
  BY <1>1, <1>2 DEF Record
<1>4. /\ x.pc = label /\ x.kind = req[r].kind /\ x.user = req[r].user
      /\ x.token = req[r].token /\ x.target = req[r].target
      /\ x.old = req[r].old
  BY <1>1 DEF Record
<1>5. req' = [req EXCEPT ![r] = x]
  BY DEF Goto
<1> HIDE DEF x
<1>6. /\ req' \in [Requests -> Record]
      /\ req'[r] = x
      /\ \A t, u : LoginOf(t, u) => LoginOf(t, u)'
      /\ \A q \in Requests \ {r} : Knows(q)'
  BY <1>3, <1>4, <1>5, OneChanges
<1>7. Knows(r)'
  <2>1. /\ req'[r].pc = label /\ req'[r].kind = req[r].kind
        /\ req'[r].user = req[r].user /\ req'[r].token = req[r].token
        /\ req'[r].target = req[r].target /\ req'[r].old = req[r].old
    BY <1>4, <1>6
  <2>2. /\ req[r].kind = "login" => req[r].user \in Users
        /\ req[r].pc \in LoginSteps => req[r].kind = "login"
        /\ req[r].pc \in KnownSteps =>
             /\ req[r].kind \in AllKinds \ {"login"}
             /\ req[r].kind \in Targeted => req[r].target \in Users
             /\ req[r].user \in Users
             /\ LoginOf(req[r].token, req[r].user)'
    BY <1>1, <1>6, <2>1 DEF Knows, LoginOf
  <2>3. CASE label \in Answers
    BY <2>1, <2>2, <2>3 DEF Knows
  <2>4. CASE req[r].pc \in LoginSteps /\ label \in LoginSteps \ {"delOld"}
    BY <2>1, <2>2, <2>4 DEF Knows
  <2>5. CASE /\ req[r].pc \in KnownSteps /\ label \in KnownSteps \ {"kickDel"}
             /\ label \in DeleteSteps => req[r].kind = "delete"
             /\ label \in TargetSteps => req[r].kind \in Targeted
             /\ label \in SelfSteps => req[r].kind # "delete"
    BY <2>1, <2>2, <2>5 DEF Knows
  <2> QED
    BY <2>3, <2>4, <2>5 DEF MayGo, Targeted
<1> QED
  BY <1>4, <1>6, <1>7 DEF RequestsKnow

(* Wherever a failed call leads, nothing new has to be known. *)
LEMMA OnErrorMayGo ==
    ASSUME NEW r \in Requests, req[r].pc \in DOMAIN OnError
    PROVE  MayGo(r, OnError[req[r].pc])
BY DEF OnError, MayGo, Steps, LoginSteps, AuthSteps, HandlerSteps, Answers,
       KnownSteps, DeleteSteps, TargetSteps, SelfSteps

(* The requests' part of the invariant, and what the rest needs of it. *)
Advanced ==
    /\ req' \in [Requests -> Record]
    /\ RequestsKnow'
    /\ \A t, u : LoginOf(t, u) => LoginOf(t, u)'

(* A write, whether or not its answer arrives, advances its request. *)
LEMMA WrittenStep ==
    ASSUME Inv, NEW r \in Requests, NEW label, MayGo(r, label),
           req[r].pc \in DOMAIN OnError, Written(r, label)
    PROVE  Advanced
BY GotoStep, OnErrorMayGo DEF Written, Advanced

(* So does a write to Redis; one that is sent again leaves it where it is. *)
LEMMA ExecutedStep ==
    ASSUME Inv, NEW r \in Requests, NEW label, MayGo(r, label),
           req[r].pc \in DOMAIN OnError, Executed(r, label)
    PROVE  Advanced
<1>1. CASE Written(r, label)
  BY <1>1, WrittenStep
<1>2. CASE UNCHANGED req
  BY <1>2 DEF Inv, TypeOK, RequestsKnow, Knows, LoginOf, Advanced
<1> QED
  BY <1>1, <1>2 DEF Executed

(* The steps at which a request learns something. *)
LEMMA LearningStep ==
    ASSUME Inv, NEW r \in Requests,
           \/ Start(r) \/ FetchUser(r) \/ SnapshotPermissions(r)
           \/ GetIndex(r) \/ Authenticate(r) \/ KickLookup(r)
    PROVE  Advanced
<1> USE DEF Advanced, Steps, LoginSteps, AuthSteps, HandlerSteps, Answers,
            KnownSteps, DeleteSteps, TargetSteps, SelfSteps
<1>1. req[r] \in Record /\ Knows(r)
  BY DEF Inv, TypeOK, RequestsKnow
<1>2. ASSUME NEW x \in Record, req' = [req EXCEPT ![r] = x],
             req[r].kind = "login" =>
                 x.kind = "login" /\ x.user = req[r].user,
             Knows(r)'
      PROVE  Advanced
  BY <1>2, OneChanges DEF RequestsKnow
<1>3. ASSUME NEW x \in Record, req' = [req EXCEPT ![r] = x],
             req[r].kind = "login" =>
                 x.kind = "login" /\ x.user = req[r].user
      PROVE  req'[r] = x /\ \A t, u : LoginOf(t, u) => LoginOf(t, u)'
  BY <1>3, OneChanges
<1>4. CASE Start(r)
  <2>1. ASSUME NEW u \in Users, StartLogin(r, u) PROVE Advanced
    <3> DEFINE x == [req[r] EXCEPT !.pc = "fetch", !.kind = "login",
                                   !.user = u]
    <3>1. /\ x \in Record /\ x.pc = "fetch" /\ x.kind = "login" /\ x.user = u
          /\ req' = [req EXCEPT ![r] = x]
      BY <1>1, <2>1 DEF StartLogin, Record, AllKinds
    <3>2. req[r].kind # "login"
      BY <1>1, <2>1, NoneAssumption DEF StartLogin, MayStart, At, Knows, AllKinds
    <3> HIDE DEF x
    <3>3. Knows(r)'
      BY <1>3, <3>1, <3>2 DEF Knows
    <3> QED
      BY <1>2, <3>1, <3>2, <3>3
  <2>2. ASSUME NEW k \in AllKinds, NEW t \in Requests,
               NEW u \in Users \cup {None}, StartAuthenticated(r, k, t, u)
        PROVE  Advanced
    <3> DEFINE x == [req[r] EXCEPT !.pc = "auth", !.kind = k, !.token = t,
                                   !.target = u]
    <3>1. /\ x \in Record /\ x.pc = "auth" /\ x.kind = k /\ x.token = t
          /\ x.target = u
          /\ req' = [req EXCEPT ![r] = x]
      BY <1>1, <2>2 DEF StartAuthenticated, Record
    <3>2. req[r].kind # "login"
      BY <1>1, <2>2, NoneAssumption
         DEF StartAuthenticated, MayStart, At, Knows, AllKinds
    <3>3. /\ k # "login"
          /\ k \in Targeted => u \in Users
          /\ LoginOf(t, req[t].user) /\ req[t].user \in Users
      BY <2>2 DEF StartAuthenticated, Issued, Targeted, LoginOf, Inv,
                  RequestsKnow, Knows
    <3> HIDE DEF x
    <3>4. Knows(r)'
      <4>1. t # r /\ req'[t] = req[t] /\ req'[r] = x
        BY <1>3, <3>1, <3>2, <3>3 DEF LoginOf, Inv, TypeOK
      <4>2. req'[t].kind = "login" /\ req'[t].user \in Users
        BY <3>3, <4>1 DEF LoginOf
      <4> QED
        BY <3>1, <3>3, <4>1, <4>2 DEF Knows, LoginOf
    <3> QED
      BY <1>2, <3>1, <3>2, <3>4
  <2> QED
    BY <1>4, <2>1, <2>2 DEF Start
<1>5. CASE FetchUser(r)
  <2>1. CASE Goto(r, "401")
    BY <2>1, GotoStep DEF MayGo
  <2>2. CASE ~Goto(r, "401")
    <3> DEFINE x == [req[r] EXCEPT !.pc = "perms",
                                   !.pw = password[req[r].user]]
    <3>1. req[r].pc = "fetch" /\ req' = [req EXCEPT ![r] = x]
      BY <1>5, <2>2 DEF FetchUser, At
    <3>2. req[r].kind = "login" /\ req[r].user \in Users
      BY <1>1, <3>1 DEF Knows
    <3>3. password[req[r].user] \in Nat
      BY <3>2 DEF Inv, TypeOK
    <3>4. /\ x \in Record /\ x.pc = "perms" /\ x.kind = req[r].kind
          /\ x.user = req[r].user
      BY <1>1, <3>3 DEF Record
    <3> HIDE DEF x
    <3>5. Knows(r)'
      BY <1>3, <3>1, <3>2, <3>4 DEF Knows
    <3> QED
      BY <1>2, <3>1, <3>4, <3>5
  <2> QED
    BY <2>1, <2>2
<1>6. CASE SnapshotPermissions(r)
  <2> DEFINE b == req[r].user \in operators
  <2>b. b \in BOOLEAN
    OBVIOUS
  <2>x. PICK x : x = [req[r] EXCEPT !.pc = "getIndex", !.write = b]
    OBVIOUS
  <2>1. req[r].pc = "perms" /\ req' = [req EXCEPT ![r] = x]
    BY <1>6, <2>x DEF SnapshotPermissions, At
  <2> HIDE DEF b
  <2>2. req[r].kind = "login" /\ req[r].user \in Users
    BY <1>1, <2>1 DEF Knows
  <2>3. /\ x \in Record /\ x.pc = "getIndex" /\ x.kind = req[r].kind
        /\ x.user = req[r].user
    <3>1. "getIndex" \in Steps \cup Answers
      BY DEF Steps, LoginSteps
    <3>2. req[r] \in Record
      BY <1>1
    <3> HIDE DEF Steps, Answers
    <3> QED
      BY <2>b, <2>x, <3>1, <3>2 DEF Record
  <2>4. Knows(r)'
    BY <1>3, <2>1, <2>2, <2>3 DEF Knows
  <2> QED
    BY <1>2, <2>1, <2>3, <2>4
<1>7. CASE GetIndex(r)
  <2>1. req[r].pc = "getIndex" /\ req[r].kind = "login" /\ req[r].user \in Users
    BY <1>1, <1>7 DEF GetIndex, At, Knows
  <2>2. PICK t \in Requests \cup {None}, l \in {"setSession", "delOld"} :
          /\ req' = [req EXCEPT ![r] = [req[r] EXCEPT !.pc = l, !.old = t]]
          /\ l = "delOld" => LoginOf(t, req[r].user)
    BY <1>7, <2>1 DEF GetIndex, Inv, TypeOK, IndexOwned
  <2>3. PICK x : x = [req[r] EXCEPT !.pc = l, !.old = t]
    OBVIOUS
  <2>a. /\ x \in Record
        /\ x.pc = l /\ x.kind = req[r].kind /\ x.user = req[r].user
        /\ x.token = req[r].token /\ x.target = req[r].target /\ x.old = t
    <3>1. l \in Steps \cup Answers
      BY <2>2
    <3>2. req[r] \in Record
      BY <1>1
    <3> HIDE DEF Steps, Answers
    <3> QED
      BY <2>2, <2>3, <3>1, <3>2 DEF Record
  <2>4. Knows(r)'
    <3>1. req'[r] = x /\ \A s \in Requests \ {r} : req'[s] = req[s]
      BY <1>3, <2>2, <2>3, <2>a DEF Inv, TypeOK
    <3>2. l = "delOld" => /\ t \in Requests
                          /\ req'[t].kind = "login"
                          /\ req'[t].user = req[r].user
      BY <2>1, <2>2, <2>3, <2>a, <3>1 DEF LoginOf
    <3> QED
      BY <2>1, <2>3, <2>a, <3>1, <3>2 DEF Knows, LoginOf
  <2> QED
    BY <1>2, <2>2, <2>3, <2>a, <2>4
<1>8. CASE Authenticate(r)
  <2>1. CASE Goto(r, "401")
    BY <2>1, GotoStep DEF MayGo
  <2>2. CASE ~Goto(r, "401")
    <3> DEFINE t == req[r].token
    <3> DEFINE x == [req[r] EXCEPT !.pc = "renew", !.user = req[t].user,
                                   !.write = req[t].write]
    <3>1. req[r].pc = "auth" /\ req' = [req EXCEPT ![r] = x]
      BY <1>8, <2>2 DEF Authenticate, At
    <3>2. /\ req[r].kind \in AllKinds \ {"login"}
          /\ req[r].kind \in Targeted => req[r].target \in Users
          /\ req[t].user \in Users /\ LoginOf(t, req[t].user)
      BY <1>1, <3>1 DEF Knows, LoginOf
    <3>3. req[t] \in Record
      BY <3>2 DEF LoginOf, Inv, TypeOK
    <3>4. /\ x \in Record /\ x.pc = "renew" /\ x.kind = req[r].kind
          /\ x.user = req[t].user /\ x.token = t /\ x.target = req[r].target
      BY <1>1, <3>3 DEF Record
    <3> HIDE DEF x
    <3>5. Knows(r)'
      <4>1. req'[r] = x /\ LoginOf(t, req[t].user)
        BY <1>3, <3>1, <3>2, <3>4
      <4>2. t # r /\ req'[t] = req[t]
        BY <3>1, <3>2, <3>4 DEF LoginOf, Inv, TypeOK
      <4> QED
        BY <3>2, <3>4, <4>1, <4>2 DEF Knows, LoginOf
    <3> QED
      BY <1>2, <3>1, <3>2, <3>4, <3>5
  <2> QED
    BY <2>1, <2>2
<1>9. CASE KickLookup(r)
  <2>1. /\ req[r].pc = "kickGet" /\ req[r].kind = "delete"
        /\ req[r].target \in Users /\ req[r].user \in Users
        /\ LoginOf(req[r].token, req[r].user)
    BY <1>1, <1>9 DEF KickLookup, At, Knows, Targeted
  <2>2. PICK t \in Requests \cup {None}, l \in {"200", "kickDel"} :
          /\ req' = [req EXCEPT ![r] = [req[r] EXCEPT !.pc = l, !.old = t]]
          /\ l = "kickDel" => LoginOf(t, req[r].target)
    BY <1>9, <2>1 DEF KickLookup, Inv, TypeOK, IndexOwned
  <2>3. PICK x : x = [req[r] EXCEPT !.pc = l, !.old = t]
    OBVIOUS
  <2>a. /\ x \in Record
        /\ x.pc = l /\ x.kind = req[r].kind /\ x.user = req[r].user
        /\ x.token = req[r].token /\ x.target = req[r].target /\ x.old = t
    <3>1. l \in Steps \cup Answers
      BY <2>2
    <3>2. req[r] \in Record
      BY <1>1
    <3> HIDE DEF Steps, Answers
    <3> QED
      BY <2>2, <2>3, <3>1, <3>2 DEF Record
  <2>4. Knows(r)'
    <3>1. req'[r] = x /\ \A s \in Requests \ {r} : req'[s] = req[s]
      BY <1>3, <2>1, <2>2, <2>3, <2>a DEF Inv, TypeOK
    <3>2. /\ req[r].token \in Requests
          /\ req'[req[r].token].kind = "login"
          /\ req'[req[r].token].user = req[r].user
      BY <2>1, <3>1 DEF LoginOf
    <3>3. l = "kickDel" => /\ t \in Requests
                           /\ req'[t].kind = "login"
                           /\ req'[t].user = req[r].target
      BY <2>1, <2>2, <3>1 DEF LoginOf
    <3> QED
      BY <2>1, <2>3, <2>a, <3>1, <3>2, <3>3 DEF Knows, LoginOf, AllKinds, Targeted
  <2> QED
    BY <1>2, <2>1, <2>2, <2>3, <2>a, <2>4
<1> QED
  BY <1>4, <1>5, <1>6, <1>7, <1>8, <1>9

-----------------------------------------------------------------------------

(* The rest of the invariant, when the database and the session keys keep
   their types and every index entry is either left or removed. *)
LEMMA DataStep ==
    ASSUME Inv, Advanced,
           deleted' \subseteq Users, operators' \subseteq Users,
           password' \in [Users -> Nat],
           session' \in [Requests -> 0..TokenDuration],
           index' \in [Users -> Requests \cup {None}],
           indexTTL' \in [Users -> 0..TokenDuration],
           \A u \in Users : index'[u] = None <=> indexTTL'[u] = 0,
           \A u \in Users : index'[u] \in {index[u], None}
    PROVE  Inv'
<1>1. TypeOK' /\ RequestsKnow'
  BY DEF Advanced, TypeOK
<1>2. IndexOwned'
  BY DEF Advanced, Inv, IndexOwned, LoginOf
<1> QED
  BY <1>1, <1>2 DEF Inv

(* Steps that touch neither key. *)
LEMMA QuietStep ==
    ASSUME Inv, Advanced, UNCHANGED redis,
           deleted' \subseteq Users, operators' \subseteq Users,
           password' \in [Users -> Nat]
    PROVE  Inv'
BY DataStep DEF redis, Inv, TypeOK

(* DEL of a session and an index. *)
LEMMA DelStep ==
    ASSUME Inv, Advanced, UNCHANGED db,
           NEW t \in Requests, NEW u \in Users, DelSessionAndIndex(t, u)
    PROVE  Inv'
<1> USE DEF Inv, TypeOK, DelSessionAndIndex
<1>1. session' \in [Requests -> 0..TokenDuration]
  BY DurationAssumption
<1>2. /\ index' \in [Users -> Requests \cup {None}]
      /\ \A v \in Users : index'[v] = IF v = u THEN None ELSE index[v]
  OBVIOUS
<1>3. /\ indexTTL' \in [Users -> 0..TokenDuration]
      /\ \A v \in Users : indexTTL'[v] = IF v = u THEN 0 ELSE indexTTL[v]
  BY DurationAssumption
<1>4. /\ \A v \in Users : index'[v] = None <=> indexTTL'[v] = 0
      /\ \A v \in Users : index'[v] \in {index[v], None}
  BY <1>2, <1>3
<1>5. /\ deleted' \subseteq Users /\ operators' \subseteq Users
      /\ password' \in [Users -> Nat]
  BY DEF db
<1> QED
  BY <1>1, <1>2, <1>3, <1>4, <1>5, DataStep

(* DEL, EXPIRE and SET of one session key. *)
LEMMA SessionStep ==
    ASSUME Inv, Advanced, UNCHANGED <<db, index, indexTTL>>,
           session' \in [Requests -> 0..TokenDuration]
    PROVE  Inv'
BY DataStep DEF Inv, TypeOK, db

(* A call that fails changes no data. *)
LEMMA CallFailsStep ==
    ASSUME Inv, NEW r \in Requests, CallFails(r)
    PROVE  Inv'
<1>1. Advanced
  BY GotoStep, OnErrorMayGo DEF CallFails, Advanced
<1> QED
  BY <1>1, QuietStep DEF CallFails, db, Inv, TypeOK

(* Every call of a login keeps the invariant. *)
LEMMA LoginStep ==
    ASSUME Inv, NEW r \in Requests, Login(r)
    PROVE  Inv'
<1> USE DEF At
<1>1. req[r] \in Record /\ Knows(r)
  BY DEF Inv, TypeOK, RequestsKnow
<1>2. ASSUME req[r].pc \in LoginSteps, NEW l \in LoginSteps \cup Answers,
             l # "delOld"
      PROVE  MayGo(r, l)
  BY <1>2 DEF MayGo
<1>3. CASE FetchUser(r) \/ SnapshotPermissions(r) \/ GetIndex(r)
  <2>1. Advanced
    BY <1>3, LearningStep
  <2> QED
    BY <1>3, <2>1, QuietStep
       DEF FetchUser, SnapshotPermissions, GetIndex, db, Inv, TypeOK
<1>4. CASE DelOldSession(r)
  <2>1. req[r].pc \in LoginSteps /\ req[r].pc \in DOMAIN OnError
    BY <1>4 DEF DelOldSession, LoginSteps, OnError
  <2>2. Advanced
    BY <1>2, <1>4, <2>1, ExecutedStep DEF DelOldSession, LoginSteps
  <2>3. session' \in [Requests -> 0..TokenDuration]
    <3>1. req[r].old \in Requests
      BY <1>1, <1>4 DEF DelOldSession, Knows, LoginOf
    <3> QED
      BY <1>4, <3>1, DurationAssumption DEF DelOldSession, Inv, TypeOK
  <2> QED
    BY <1>4, <2>2, <2>3, SessionStep DEF DelOldSession
<1>5. CASE SetSession(r)
  <2>1. req[r].pc \in LoginSteps /\ req[r].pc \in DOMAIN OnError
    BY <1>5 DEF SetSession, LoginSteps, OnError
  <2>2. Advanced
    BY <1>2, <1>5, <2>1, ExecutedStep DEF SetSession, LoginSteps
  <2>3. session' \in [Requests -> 0..TokenDuration]
    BY <1>5, DurationAssumption DEF SetSession, Inv, TypeOK
  <2> QED
    BY <1>5, <2>2, <2>3, SessionStep DEF SetSession
<1>6. CASE SetIndex(r)
  <2>1. req[r].pc \in LoginSteps /\ req[r].pc \in DOMAIN OnError
    BY <1>6 DEF SetIndex, LoginSteps, OnError
  <2>2. Advanced
    BY <1>2, <1>6, <2>1, ExecutedStep DEF SetIndex, Answers
  <2>3. LoginOf(r, req[r].user) /\ req[r].user \in Users
    BY <1>1, <2>1 DEF Knows, LoginOf
  <2>4. PICK u \in Users : u = req[r].user /\ LoginOf(r, u)
    BY <2>3
  <2>5. LoginOf(r, u)'
    BY <2>2, <2>4 DEF Advanced
  <2>6. /\ index' \in [Users -> Requests \cup {None}]
        /\ \A v \in Users : index'[v] = IF v = u THEN r ELSE index[v]
    BY <1>6, <2>4 DEF SetIndex, Inv, TypeOK
  <2>7. /\ indexTTL' \in [Users -> 0..TokenDuration]
        /\ \A v \in Users :
             indexTTL'[v] = IF v = u THEN TokenDuration ELSE indexTTL[v]
    BY <1>6, <2>4, DurationAssumption DEF SetIndex, Inv, TypeOK
  <2>8. \A v \in Users : index'[v] = None <=> indexTTL'[v] = 0
    BY <2>6, <2>7, DurationAssumption, NoneAssumption DEF Inv, TypeOK
  <2>9. TypeOK'
    BY <1>6, <2>2, <2>6, <2>7, <2>8
       DEF SetIndex, db, Advanced, Inv, TypeOK
  <2>10. IndexOwned'
    <3>1. ASSUME NEW v \in Users, index'[v] # None
          PROVE  LoginOf(index[v], v)'
      <4>1. CASE v = u
        BY <2>5, <2>6, <4>1 DEF LoginOf
      <4>2. CASE v # u
        BY <2>2, <2>6, <3>1, <4>2 DEF Inv, IndexOwned, Advanced, LoginOf
      <4> QED
        BY <4>1, <4>2
    <3> QED
      BY <3>1 DEF IndexOwned
  <2> QED
    BY <2>2, <2>9, <2>10 DEF Advanced, Inv
<1>7. CASE UndoSession(r)
  <2>1. Advanced
    BY <1>7, ExecutedStep DEF UndoSession, MayGo, Answers, OnError
  <2>2. session' \in [Requests -> 0..TokenDuration]
    BY <1>7, DurationAssumption DEF UndoSession, Inv, TypeOK
  <2> QED
    BY <1>7, <2>1, <2>2, SessionStep DEF UndoSession
<1> QED
  BY <1>3, <1>4, <1>5, <1>6, <1>7 DEF Login

(* Every call of authMiddleware keeps it. *)
LEMMA AuthenticationStep ==
    ASSUME Inv, NEW r \in Requests, Authentication(r)
    PROVE  Inv'
<1> USE DEF At
<1>1. req[r] \in Record /\ Knows(r)
  BY DEF Inv, TypeOK, RequestsKnow
<1>2. CASE Authenticate(r)
  <2>1. Advanced
    BY <1>2, LearningStep
  <2> QED
    BY <1>2, <2>1, QuietStep DEF Authenticate, db, Inv, TypeOK
<1>3. CASE RenewSession(r)
  <2>1. /\ MayGo(r, "renewIndex") /\ Executed(r, "renewIndex")
        /\ req[r].pc \in DOMAIN OnError
    BY <1>3 DEF RenewSession, MayGo, KnownSteps, HandlerSteps, TargetSteps,
                DeleteSteps, SelfSteps, OnError
  <2>2. Advanced
    BY <2>1, ExecutedStep
  <2>3. session' \in [Requests -> 0..TokenDuration]
    <3>1. req[r].token \in Requests
      BY <1>1, <1>3 DEF RenewSession, Knows, LoginOf, KnownSteps
    <3> QED
      BY <1>3, <3>1, DurationAssumption DEF RenewSession, Inv, TypeOK
  <2> QED
    BY <1>3, <2>2, <2>3, SessionStep DEF RenewSession
<1>4. CASE RenewIndex(r)
  <2>1. /\ MayGo(r, "handle") /\ Executed(r, "handle")
        /\ req[r].pc \in DOMAIN OnError
    BY <1>4 DEF RenewIndex, MayGo, KnownSteps, HandlerSteps, TargetSteps,
                DeleteSteps, SelfSteps, OnError
  <2>2. Advanced
    BY <2>1, ExecutedStep
  <2>3. req[r].user \in Users
    BY <1>1, <1>4 DEF RenewIndex, Knows, KnownSteps
  <2>4. /\ indexTTL' \in [Users -> 0..TokenDuration]
        /\ \A v \in Users : indexTTL'[v] = 0 <=> indexTTL[v] = 0
    BY <1>4, <2>3, DurationAssumption DEF RenewIndex, Inv, TypeOK
  <2> QED
    BY <1>4, <2>2, <2>4, DataStep DEF RenewIndex, db, Inv, TypeOK
<1>5. CASE Handle(r)
  <2>1. /\ req[r].pc \in KnownSteps
        /\ req[r].kind \in AllKinds \ {"login"}
    BY <1>1, <1>5 DEF Handle, Knows, KnownSteps, AuthSteps
  <2>2. MayGo(r, FirstCall[req[r].kind])
    BY <2>1 DEF MayGo, FirstCall, AllKinds, Answers, KnownSteps, HandlerSteps,
                DeleteSteps, TargetSteps, SelfSteps, Targeted
  <2>3. MayGo(r, "403") /\ MayGo(r, "400")
    BY DEF MayGo, Answers
  <2>4. \/ Goto(r, "403") \/ Goto(r, "400")
        \/ Goto(r, FirstCall[req[r].kind])
    BY <1>5 DEF Handle
  <2>5. Advanced
    BY <2>2, <2>3, <2>4, GotoStep DEF Advanced
  <2> QED
    BY <1>5, <2>5, QuietStep DEF Handle, db, Inv, TypeOK
<1> QED
  BY <1>2, <1>3, <1>4, <1>5 DEF Authentication

(* Every call of a handler behind authMiddleware keeps it. *)
LEMMA HandlerStep ==
    ASSUME Inv, NEW r \in Requests, Handler(r)
    PROVE  Inv'
<1> USE DEF At
<1>1. req[r] \in Record /\ Knows(r)
  BY DEF Inv, TypeOK, RequestsKnow
<1>2. req[r].pc \in HandlerSteps
  BY DEF Handler, Logout, CheckOldPassword, StorePassword, EndOwnSession,
         SoftDelete, KickLookup, KickDelete, Restore, CheckTarget,
         ReplaceRoles, BadRoles, HandlerSteps
<1>3. /\ req[r].pc \in KnownSteps /\ req[r].pc \in DOMAIN OnError
      /\ req[r].user \in Users /\ req[r].token \in Requests
      /\ req[r].pc \in TargetSteps =>
           req[r].kind \in Targeted /\ req[r].target \in Users
  BY <1>1, <1>2 DEF Knows, LoginOf, KnownSteps, HandlerSteps, OnError
<1>4. /\ \A l \in Answers : MayGo(r, l)
      /\ req[r].pc \in SelfSteps => MayGo(r, "store") /\ MayGo(r, "endDel")
  BY <1>1, <1>3 DEF MayGo, Knows, KnownSteps, HandlerSteps, TargetSteps,
                    DeleteSteps, SelfSteps
<1>5. ASSUME NEW l, MayGo(r, l),
             Goto(r, l) \/ Written(r, l) \/ Executed(r, l)
      PROVE  Advanced
  BY <1>3, <1>5, GotoStep, WrittenStep, ExecutedStep DEF Advanced
<1>6. CASE Logout(r) \/ EndOwnSession(r)
  <2>1. Advanced
    BY <1>4, <1>5, <1>6 DEF Logout, EndOwnSession, Answers
  <2> QED
    BY <1>3, <1>6, <2>1, DelStep DEF Logout, EndOwnSession
<1>7. CASE CheckOldPassword(r) \/ BadRoles(r)
  <2>1. Advanced
    BY <1>4, <1>5, <1>7 DEF CheckOldPassword, BadRoles, Answers, SelfSteps
  <2> QED
    BY <1>7, <2>1, QuietStep DEF CheckOldPassword, BadRoles, db, Inv, TypeOK
<1>8. CASE StorePassword(r)
  <2>1. Advanced
    BY <1>4, <1>5, <1>8 DEF StorePassword, SelfSteps
  <2>2. password' \in [Users -> Nat]
    BY <1>3, <1>8 DEF StorePassword, Inv, TypeOK
  <2> QED
    BY <1>8, <2>1, <2>2, QuietStep DEF StorePassword, Inv, TypeOK
<1>9. CASE SoftDelete(r)
  <2>1. req[r].kind = "delete" /\ req[r].target \in Users
    BY <1>1, <1>3, <1>9 DEF SoftDelete, Knows, DeleteSteps, TargetSteps
  <2>2. MayGo(r, "kickGet") /\ MayGo(r, "404")
    BY <1>3, <2>1 DEF MayGo, DeleteSteps, Answers
  <2>3. Goto(r, "404") \/ Written(r, "kickGet")
    BY <1>9 DEF SoftDelete
  <2>4. Advanced
    BY <1>5, <2>2, <2>3
  <2>5. deleted' \subseteq Users
    BY <1>9, <2>1 DEF SoftDelete, Inv, TypeOK
  <2> QED
    BY <1>9, <2>4, <2>5, QuietStep DEF SoftDelete, Inv, TypeOK
<1>10. CASE KickLookup(r)
  <2>1. Advanced
    BY <1>10, LearningStep
  <2> QED
    BY <1>10, <2>1, QuietStep DEF KickLookup, db, Inv, TypeOK
<1>11. CASE KickDelete(r)
  <2>1. Advanced
    BY <1>4, <1>5, <1>11 DEF KickDelete, Answers
  <2>2. req[r].old \in Requests /\ req[r].target \in Users
    BY <1>1, <1>3, <1>11
       DEF KickDelete, Knows, LoginOf, DeleteSteps, TargetSteps
  <2> QED
    BY <1>11, <2>1, <2>2, DelStep DEF KickDelete
<1>12. CASE Restore(r)
  <2>1. Advanced
    BY <1>4, <1>5, <1>12 DEF Restore, Answers
  <2>2. deleted' \subseteq Users
    BY <1>12 DEF Restore, Inv, TypeOK
  <2> QED
    BY <1>12, <2>1, <2>2, QuietStep DEF Restore, Inv, TypeOK
<1>13. CASE CheckTarget(r)
  <2>1. MayGo(r, "replace") /\ MayGo(r, "404")
    BY <1>3, <1>13 DEF CheckTarget, MayGo, TargetSteps, DeleteSteps, Answers
  <2>2. Goto(r, "replace") \/ Goto(r, "404")
    BY <1>13 DEF CheckTarget
  <2>3. Advanced
    BY <1>5, <2>1, <2>2
  <2> QED
    BY <1>13, <2>3, QuietStep DEF CheckTarget, db, Inv, TypeOK
<1>14. CASE ReplaceRoles(r)
  <2>1. Advanced
    BY <1>4, <1>5, <1>14 DEF ReplaceRoles, Answers
  <2>2. req[r].target \in Users
    BY <1>3, <1>14 DEF ReplaceRoles, TargetSteps
  <2>3. operators' \subseteq Users
    BY <1>14, <2>2 DEF ReplaceRoles, Inv, TypeOK
  <2> QED
    BY <1>14, <2>1, <2>3, QuietStep DEF ReplaceRoles, Inv, TypeOK
<1> QED
  BY <1>6, <1>7, <1>8, <1>9, <1>10, <1>11, <1>12, <1>13, <1>14 DEF Handler

(* The clock keeps it: the sessions and index entries that run out are gone. *)
LEMMA TickStep ==
    ASSUME Inv, Tick
    PROVE  Inv'
<1> USE DEF Tick, Inv, TypeOK
<1>1. Advanced
  <2>1. req' = req
    OBVIOUS
  <2> QED
    BY <2>1 DEF Advanced, RequestsKnow, Knows, LoginOf
<1>2. /\ session' \in [Requests -> 0..TokenDuration]
      /\ indexTTL' \in [Users -> 0..TokenDuration]
  BY DurationAssumption
<1>3. /\ index' \in [Users -> Requests \cup {None}]
      /\ \A u \in Users : index'[u] \in {index[u], None}
  OBVIOUS
<1>4. ASSUME NEW u \in Users
      PROVE  index'[u] = None <=> indexTTL'[u] = 0
  <2>1. indexTTL[u] \in 0..TokenDuration /\ (index[u] = None <=> indexTTL[u] = 0)
    OBVIOUS
  <2>2. /\ indexTTL'[u] = IF indexTTL[u] > 0 THEN indexTTL[u] - 1 ELSE 0
        /\ index'[u] = IF indexTTL[u] > 1 THEN index[u] ELSE None
    OBVIOUS
  <2> QED
    BY <2>1, <2>2, DurationAssumption
<1> QED
  BY <1>1, <1>2, <1>3, <1>4, DataStep DEF db

(* It holds before the first request. *)
LEMMA InvInit == Init => Inv
<1> SUFFICES ASSUME Init PROVE Inv
  OBVIOUS
<1>1. NewRequest \in Record
  BY DEF NewRequest, Record
<1>2. TypeOK
  BY <1>1, OperatorsAssumption, DurationAssumption DEF Init, TypeOK
<1>3. \A r \in Requests : req[r].pc = "new" /\ req[r].kind = None
  BY DEF Init, NewRequest
<1>4. RequestsKnow
  BY <1>3, NoneAssumption DEF RequestsKnow, Knows, AllKinds, LoginSteps,
     AuthSteps, HandlerSteps, KnownSteps, DeleteSteps, TargetSteps, SelfSteps
<1>5. IndexOwned
  BY DEF Init, IndexOwned
<1> QED
  BY <1>2, <1>4, <1>5 DEF Inv

(* Every step of the system keeps it. *)
LEMMA InvStep == Inv /\ [Next]_vars => Inv'
<1> SUFFICES ASSUME Inv, [Next]_vars PROVE Inv'
  OBVIOUS
<1>1. CASE Tick
  BY <1>1, TickStep
<1>2. ASSUME NEW r \in Requests, Start(r) PROVE Inv'
  <2>1. Advanced
    BY <1>2, LearningStep
  <2>2. UNCHANGED <<db, redis>>
    BY <1>2 DEF Start, StartLogin, StartAuthenticated
  <2> QED
    BY <2>1, <2>2, QuietStep DEF db, Inv, TypeOK
<1>3. ASSUME NEW r \in Requests, Serve(r) PROVE Inv'
  BY <1>3, LoginStep, AuthenticationStep, HandlerStep, CallFailsStep DEF Serve
<1>4. CASE UNCHANGED vars
  BY <1>4 DEF vars, Inv, TypeOK, RequestsKnow, Knows, IndexOwned, LoginOf
<1> QED
  BY <1>1, <1>2, <1>3, <1>4 DEF Next

(* Every behaviour, with any number of requests in flight, faults and a
   running clock, keeps the types, what requests know, and the ownership of
   the reverse index. *)
THEOREM InvHolds == Spec => []Inv
BY InvInit, InvStep, PTL DEF Spec

(* The types of the stored data and of the requests; in particular EXPIRE
   and DEL of the reverse index never leave it without a lifetime. *)
THEOREM TypeCorrect == Spec => []TypeOK
<1>1. Inv => TypeOK
  BY DEF Inv
<1> QED
  BY <1>1, InvHolds, PTL

-----------------------------------------------------------------------------

(* A call of one request can end one session, which is either its user's or
   that of the user it deletes. *)
Ends(r, t) ==
    /\ Serve(r)
    /\ session' = [session EXCEPT ![t] = 0]
    /\ LoginOf(t, IF req[r].kind = "delete" THEN req[r].target
                                            ELSE req[r].user)

(* The steps that can end a session.  This is where the inductive invariant
   is needed: the token was read several calls before. *)
LEMMA EndingStep ==
    ASSUME Inv, NEW r \in Requests,
           \/ DelOldSession(r) \/ UndoSession(r) \/ Logout(r)
           \/ EndOwnSession(r) \/ KickDelete(r)
    PROVE  \E t \in Requests : Ends(r, t)
<1> USE DEF At
<1>1. req[r] \in Record /\ Knows(r)
  BY DEF Inv, TypeOK, RequestsKnow
<1>2. Serve(r)
  BY DEF Serve, Login, Handler
<1>3. CASE DelOldSession(r)
  <2>1. req[r].kind = "login" /\ LoginOf(req[r].old, req[r].user)
    BY <1>1, <1>3 DEF DelOldSession, Knows, LoginSteps
  <2> QED
    BY <1>2, <1>3, <2>1 DEF DelOldSession, Ends, LoginOf
<1>4. CASE UndoSession(r)
  <2>1. req[r].kind = "login" /\ LoginOf(r, req[r].user)
    BY <1>1, <1>4 DEF UndoSession, Knows, LoginSteps, LoginOf
  <2> QED
    BY <1>2, <1>4, <2>1 DEF UndoSession, Ends
<1>5. CASE Logout(r) \/ EndOwnSession(r)
  <2>1. req[r].kind # "delete" /\ LoginOf(req[r].token, req[r].user)
    BY <1>1, <1>5
       DEF Logout, EndOwnSession, Knows, KnownSteps, HandlerSteps, SelfSteps
  <2> QED
    BY <1>2, <1>5, <2>1
       DEF Logout, EndOwnSession, DelSessionAndIndex, Ends, LoginOf
<1>6. CASE KickDelete(r)
  <2>1. req[r].kind = "delete" /\ LoginOf(req[r].old, req[r].target)
    BY <1>1, <1>6 DEF KickDelete, Knows, DeleteSteps
  <2> QED
    BY <1>2, <1>6, <2>1 DEF KickDelete, DelSessionAndIndex, Ends, LoginOf
<1> QED
  BY <1>3, <1>4, <1>5, <1>6

(* What every step does to the sessions. *)
LEMMA SessionsStep ==
    ASSUME Inv, [Next]_vars, NEW t \in Requests
    PROVE  EndsForItsUser(t) /\ BegunByItsLogin(t)
<1> USE DEF EndsForItsUser, BegunByItsLogin
<1>0. session \in [Requests -> 0..TokenDuration]
  BY DEF Inv, TypeOK
<1>1. ASSUME session' = session
      PROVE  EndsForItsUser(t) /\ BegunByItsLogin(t)
  BY <1>0, <1>1
<1>2. CASE Tick
  <2>1. session'[t] = IF session[t] > 0 THEN session[t] - 1 ELSE 0
    BY <1>2 DEF Tick
  <2> QED
    BY <1>0, <1>2, <2>1, DurationAssumption
<1>3. ASSUME NEW r \in Requests, NEW s \in Requests, Ends(r, s)
      PROVE  EndsForItsUser(t) /\ BegunByItsLogin(t)
  <2>1. session'[t] = IF t = s THEN 0 ELSE session[t]
    BY <1>0, <1>3 DEF Ends
  <2> QED
    BY <1>0, <1>3, <2>1, DurationAssumption DEF Ends, LoginOf, Owner
<1>4. ASSUME NEW r \in Requests, SetSession(r)
      PROVE  EndsForItsUser(t) /\ BegunByItsLogin(t)
  <2>1. /\ req[r].pc = "setSession"
        /\ session'[t] = IF t = r THEN TokenDuration ELSE session[t]
    BY <1>0, <1>4 DEF SetSession, At
  <2> QED
    BY <1>0, <2>1, DurationAssumption DEF At
<1>5. ASSUME NEW r \in Requests, RenewSession(r)
      PROVE  EndsForItsUser(t) /\ BegunByItsLogin(t)
  <2>1. session'[t] = IF t = req[r].token /\ session[t] > 0
                      THEN TokenDuration ELSE session[t]
    BY <1>0, <1>5, DurationAssumption DEF RenewSession
  <2> QED
    BY <1>0, <2>1, DurationAssumption
<1>6. ASSUME NEW r \in Requests, Start(r)
      PROVE  EndsForItsUser(t) /\ BegunByItsLogin(t)
  BY <1>1, <1>6 DEF Start, StartLogin, StartAuthenticated, redis
<1>7. ASSUME NEW r \in Requests, Serve(r)
      PROVE  EndsForItsUser(t) /\ BegunByItsLogin(t)
  <2>1. CASE \/ DelOldSession(r) \/ UndoSession(r) \/ Logout(r)
             \/ EndOwnSession(r) \/ KickDelete(r)
    BY <1>3, <2>1, EndingStep
  <2>2. CASE \/ FetchUser(r) \/ SnapshotPermissions(r) \/ GetIndex(r)
             \/ SetIndex(r) \/ Authenticate(r) \/ RenewIndex(r) \/ Handle(r)
             \/ CheckOldPassword(r) \/ StorePassword(r) \/ SoftDelete(r)
             \/ KickLookup(r) \/ Restore(r) \/ CheckTarget(r)
             \/ ReplaceRoles(r) \/ BadRoles(r) \/ CallFails(r)
    BY <1>1, <2>2
       DEF FetchUser, SnapshotPermissions, GetIndex, SetIndex, Authenticate,
           RenewIndex, Handle, CheckOldPassword, StorePassword, SoftDelete,
           KickLookup, Restore, CheckTarget, ReplaceRoles, BadRoles,
           CallFails, redis
  <2> QED
    BY <1>4, <1>5, <1>7, <2>1, <2>2
       DEF Serve, Login, Authentication, Handler
<1>8. CASE UNCHANGED vars
  BY <1>1, <1>8 DEF vars
<1> QED
  BY <1>2, <1>6, <1>7, <1>8 DEF Next

(* However requests interleave and whichever calls fail, nobody but the
   owner, the clock and the deletion of the owner ends a session. *)
THEOREM KickOnlyTarget == Spec => KickHitsOnlyTarget
<1>1. Inv /\ [Next]_vars => [\A t \in Requests : EndsForItsUser(t)]_vars
  BY SessionsStep
<1> QED
  BY <1>1, InvHolds, PTL DEF Spec, KickHitsOnlyTarget

(* A session ended by logout, kick, password change or expiry is never
   revived by a renewal that was already under way. *)
THEOREM EndedForGood == Spec => EndedStaysEnded
<1>1. Inv /\ [Next]_vars => [\A t \in Requests : BegunByItsLogin(t)]_vars
  BY SessionsStep
<1> QED
  BY <1>1, InvHolds, PTL DEF Spec, EndedStaysEnded

-----------------------------------------------------------------------------
(***************************************************************************)
(* One request served after the other, no failing call, and a clock that   *)
(* ticks between requests only: the rules of NOTES.md about sessions, for  *)
(* any number of users and requests and any sequence of them.              *)
(***************************************************************************)

Sequential == Isolated /\ ~ClockRuns /\ ~Faults

(* No two requests are under way. *)
Alone == \A r, q \in Served : r = q

(* The steps of a login once it has found the account. *)
AdmittedSteps == {"perms", "getIndex", "delOld", "setSession", "setIndex"}

(* What is true of the stored data at each step of request r: what it read
   before is still so. *)
Current(r) ==
    /\ req[r].pc # "undo"
    /\ req[r].pc \in AdmittedSteps =>
         req[r].user \notin deleted /\ req[r].pw = password[req[r].user]
    /\ req[r].pc = "delOld" => req[r].old = index[req[r].user]
    /\ req[r].pc \in {"setSession", "setIndex"} =>
         \A t \in Live \ {r} : Owner(t) # req[r].user
    /\ req[r].pc = "setIndex" => session[r] = TokenDuration
    /\ req[r].pc \in KnownSteps => session[req[r].token] > 0
    /\ req[r].pc = "renewIndex" => session[req[r].token] = TokenDuration
    /\ req[r].pc = "softDelete" => req[r].write /\ req[r].target # req[r].user
    /\ req[r].pc = "kickDel" => req[r].old = index[req[r].target]

(* The two keys of a session agree, down to the time they have left, unless
   a request has just set or renewed the first of them. *)
Paired(t) ==
    /\ req[t].pc # "setIndex" => index[Owner(t)] = t
    /\ \/ req[t].pc = "setIndex"
       \/ \E r \in Requests : At(r, "renewIndex") /\ req[r].token = t
       \/ indexTTL[Owner(t)] = session[t]

(* Its user is not deleted, and has not changed the password, unless the
   request that did so is about to end the session. *)
Entitled(t) ==
    /\ Owner(t) \in deleted =>
         \E r \in Requests : /\ req[r].pc \in {"kickGet", "kickDel"}
                             /\ req[r].target = Owner(t)
    /\ req[t].pw # password[Owner(t)] =>
         \E r \in Requests : At(r, "endDel") /\ req[r].user = Owner(t)

Sound(t) ==
    /\ req[t].kind = "login" /\ req[t].pc \in {"setIndex", "200"}
    /\ Paired(t)
    /\ Entitled(t)

InTurn ==
    /\ Alone
    /\ \A r \in Requests : Current(r)
    /\ \A t \in Live : Sound(t)

(* Roles are only granted: whoever held admin_user:write still does. *)
Granted ==
    /\ \A r \in Requests : req[r].kind \in Kinds \cup {None}
    /\ \A r \in Requests : req[r].write => req[r].user \in operators
    /\ \A r \in Requests : At(r, "new") => ~req[r].write
    /\ SomeOperatorRemains

-----------------------------------------------------------------------------

(* Nobody but r is under way, and nobody but r moves. *)
Others(r) ==
    \A q \in Requests \ {r} : req[q].pc \notin Steps /\ req'[q] = req[q]

(* What the invariant says of a live session while only r is under way. *)
LEMMA SeenFrom ==
    ASSUME Inv, InTurn, NEW r \in Requests, Others(r),
           NEW t \in Requests, session[t] > 0
    PROVE  /\ req[t].kind = "login" /\ Owner(t) \in Users
           /\ IF t = r THEN req[r].pc \in {"setIndex", "200"}
                       ELSE req[t].pc = "200"
           /\ req[t].pc # "setIndex" => index[Owner(t)] = t
           /\ \/ req[t].pc = "setIndex" \/ indexTTL[Owner(t)] = session[t]
              \/ req[r].pc = "renewIndex" /\ req[r].token = t
           /\ Owner(t) \in deleted =>
                /\ req[r].pc \in {"kickGet", "kickDel"}
                /\ req[r].target = Owner(t)
           /\ req[t].pw # password[Owner(t)] =>
                req[r].pc = "endDel" /\ req[r].user = Owner(t)
<1> USE DEF Others, Steps, LoginSteps, AuthSteps, HandlerSteps
<1>1. Sound(t)
  BY DEF InTurn, Live
<1>2. req[t].kind = "login" /\ Owner(t) \in Users
  BY <1>1 DEF Sound, Owner, Inv, RequestsKnow, Knows
<1>3. req[t].pc # "setIndex" => index[Owner(t)] = t
  BY <1>1 DEF Sound, Paired
<1>4. IF t = r THEN req[r].pc \in {"setIndex", "200"}
               ELSE req[t].pc = "200"
  BY <1>1 DEF Sound
<1>5. \/ req[t].pc = "setIndex" \/ indexTTL[Owner(t)] = session[t]
      \/ req[r].pc = "renewIndex" /\ req[r].token = t
  BY <1>1 DEF Sound, Paired, At
<1>6. Owner(t) \in deleted =>
        req[r].pc \in {"kickGet", "kickDel"} /\ req[r].target = Owner(t)
  BY <1>1 DEF Sound, Entitled
<1>7. req[t].pw # password[Owner(t)] =>
        req[r].pc = "endDel" /\ req[r].user = Owner(t)
  BY <1>1 DEF Sound, Entitled, At
<1> QED
  BY <1>2, <1>3, <1>4, <1>5, <1>6, <1>7

(* A session of a request that does not move is sound again when its keys
   agree and its user is entitled to it; r accounts for the exceptions. *)
LEMMA SoundAgain ==
    ASSUME NEW r \in Requests, Others(r), NEW t \in Requests \ {r},
           req[t].kind = "login", req[t].pc = "200",
           index'[Owner(t)] = t,
           \/ indexTTL'[Owner(t)] = session'[t]
           \/ req'[r].pc = "renewIndex" /\ req'[r].token = t,
           Owner(t) \in deleted' =>
             /\ req'[r].pc \in {"kickGet", "kickDel"}
             /\ req'[r].target = Owner(t),
           req[t].pw # password'[Owner(t)] =>
             req'[r].pc = "endDel" /\ req'[r].user = Owner(t)
    PROVE  Sound(t)'
<1>1. req'[t] = req[t] /\ Owner(t)' = Owner(t)
  BY DEF Others, Owner
<1>2. Paired(t)'
  BY <1>1 DEF Paired, At
<1>3. Entitled(t)'
  BY <1>1 DEF Entitled, At
<1> QED
  BY <1>1, <1>2, <1>3 DEF Sound

(* The invariant holds again when it holds for the request that moved and
   for every session. *)
LEMMA Together ==
    ASSUME NEW r \in Requests, Others(r), Current(r)',
           \A t \in Requests : session'[t] > 0 => Sound(t)'
    PROVE  InTurn'
<1> USE DEF Others
<1>1. Alone'
  BY DEF Alone, Served
<1>2. ASSUME NEW q \in Requests \ {r} PROVE Current(q)'
  BY DEF Current, Steps, LoginSteps, AuthSteps, HandlerSteps, AdmittedSteps,
         KnownSteps
<1> QED
  BY <1>1, <1>2 DEF InTurn, Live

(* The fields of a request that goes on without learning anything. *)
LEMMA GotoFields ==
    ASSUME Inv, NEW r \in Requests, NEW l, Goto(r, l)
    PROVE  /\ req'[r].pc = l /\ req'[r].kind = req[r].kind
           /\ req'[r].user = req[r].user /\ req'[r].token = req[r].token
           /\ req'[r].target = req[r].target /\ req'[r].write = req[r].write
           /\ req'[r].pw = req[r].pw /\ req'[r].old = req[r].old
           /\ \A q \in Requests \ {r} : req'[q] = req[q]
BY DEF Goto, Inv, TypeOK, Record

(* A step that changes no data leaves every session sound, if no exception
   was made for the request that takes it. *)
LEMMA NothingStored ==
    ASSUME Inv, InTurn, NEW r \in Requests, Others(r),
           UNCHANGED <<db, redis>>,
           req[r].pc \in {"new"} \cup Steps,
           req[r].pc \notin {"setIndex", "renewIndex", "kickGet", "kickDel",
                            "endDel"}
    PROVE  \A t \in Requests : session'[t] > 0 => Sound(t)'
<1> SUFFICES ASSUME NEW t \in Requests, session[t] > 0 PROVE Sound(t)'
  BY DEF redis
<1>1. t # r
  BY SeenFrom DEF Steps, LoginSteps, AuthSteps, HandlerSteps
<1>2. /\ req[t].kind = "login" /\ req[t].pc = "200"
      /\ index'[Owner(t)] = t /\ indexTTL'[Owner(t)] = session'[t]
      /\ Owner(t) \notin deleted' /\ req[t].pw = password'[Owner(t)]
  BY <1>1, SeenFrom DEF db, redis
<1> QED
  BY <1>1, <1>2, SoundAgain

-----------------------------------------------------------------------------

(* Every call of a login keeps the invariant.  That the token deleted is the
   one session the user has, and that none is left when the new one is set,
   is what "one session per user" rests on. *)
LEMMA LoginInTurn ==
    ASSUME Sequential, Inv, InTurn, NEW r \in Requests, Others(r), Login(r)
    PROVE  InTurn'
<1> USE DEF At
<1>1. req[r] \in Record /\ Knows(r) /\ Current(r)
  BY DEF Inv, InTurn, TypeOK, RequestsKnow
<1>2. req[r].pc \in LoginSteps /\ req[r].pc # "undo"
  BY <1>1 DEF Login, FetchUser, SnapshotPermissions, GetIndex, DelOldSession,
              SetSession, SetIndex, UndoSession, LoginSteps, Current
<1>3. req[r].kind = "login" /\ req[r].user \in Users
  BY <1>1, <1>2 DEF Knows
<1>4. ASSUME NEW l, Written(r, l) \/ Executed(r, l) PROVE Goto(r, l)
  BY <1>4 DEF Executed, Written, Sequential
<1>5. ASSUME UNCHANGED <<db, redis>>, Current(r)', req[r].pc # "setIndex"
      PROVE  InTurn'
  BY <1>2, <1>5, NothingStored, Together DEF Steps, LoginSteps
<1>6. CASE FetchUser(r)
  <2>1. CASE Goto(r, "401")
    <3>1. req'[r].pc = "401"
      BY <2>1, GotoFields
    <3>2. Current(r)'
      BY <3>1 DEF Current, AdmittedSteps, KnownSteps, HandlerSteps
    <3> QED
      BY <1>5, <1>6, <3>2 DEF FetchUser
  <2>2. CASE ~Goto(r, "401")
    <3>1. /\ req'[r] = [req[r] EXCEPT !.pc = "perms",
                                      !.pw = password[req[r].user]]
          /\ req[r].user \notin deleted
      BY <1>6, <2>2 DEF FetchUser, Inv, TypeOK
    <3>2. /\ req'[r].pc = "perms" /\ req'[r].user = req[r].user
          /\ req'[r].pw = password[req[r].user]
      BY <1>1, <3>1 DEF Record
    <3>3. Current(r)'
      BY <1>6, <3>1, <3>2
         DEF FetchUser, db, Current, AdmittedSteps, KnownSteps, HandlerSteps
    <3> QED
      BY <1>5, <1>6, <3>3 DEF FetchUser
  <2> QED
    BY <2>1, <2>2
<1>7. CASE SnapshotPermissions(r)
  <2> DEFINE b == req[r].user \in operators
  <2>1. req'[r] = [req[r] EXCEPT !.pc = "getIndex", !.write = b]
    BY <1>7 DEF SnapshotPermissions, Inv, TypeOK
  <2> HIDE DEF b
  <2>2. /\ req'[r].pc = "getIndex" /\ req'[r].user = req[r].user
        /\ req'[r].pw = req[r].pw
    BY <1>1, <2>1 DEF Record
  <2>3. Current(r)'
    BY <1>1, <1>7, <2>2 DEF SnapshotPermissions, db, Current, AdmittedSteps,
                            KnownSteps, HandlerSteps
  <2> QED
    BY <1>5, <1>7, <2>3 DEF SnapshotPermissions
<1>8. CASE GetIndex(r)
  <2> DEFINE t == index[req[r].user]
             l == IF t = None THEN "setSession" ELSE "delOld"
  <2>1. req'[r] = [req[r] EXCEPT !.pc = l, !.old = t]
    BY <1>8 DEF GetIndex, Inv, TypeOK
  <2>2. /\ req'[r].pc = l /\ req'[r].user = req[r].user
        /\ req'[r].pw = req[r].pw /\ req'[r].old = t
    BY <1>1, <2>1 DEF Record
  <2>3. t = None => \A s \in Live \ {r} : Owner(s) # req[r].user
    BY SeenFrom, NoneAssumption DEF Live
  <2>4. UNCHANGED <<db, redis>> /\ req[r].pc = "getIndex"
    BY <1>8 DEF GetIndex
  <2>5. Live' = Live /\ \A s \in Live \ {r} : Owner(s)' = Owner(s)
    BY <2>4 DEF Live, Owner, Others, redis
  <2>6. req'[r].user \notin deleted' /\ req'[r].pw = password'[req'[r].user]
    BY <1>1, <2>2, <2>4 DEF Current, AdmittedSteps, db
  <2>7. Current(r)'
    <3>1. CASE t = None
      BY <2>2, <2>3, <2>5, <2>6, <3>1 DEF Current, KnownSteps, HandlerSteps
    <3>2. CASE t # None
      BY <2>2, <2>4, <2>6, <3>2 DEF Current, KnownSteps, HandlerSteps, redis
    <3> QED
      BY <3>1, <3>2
  <2> QED
    BY <1>5, <2>4, <2>7
<1>9. CASE DelOldSession(r)
  <2>1. /\ req[r].pc = "delOld" /\ req[r].old = index[req[r].user]
        /\ session' = [session EXCEPT ![req[r].old] = 0]
        /\ Goto(r, "setSession") /\ UNCHANGED <<db, index, indexTTL>>
    BY <1>1, <1>4, <1>9 DEF DelOldSession, Current
  <2>2. /\ req'[r].pc = "setSession" /\ req'[r].user = req[r].user
        /\ req'[r].pw = req[r].pw
    BY <2>1, GotoFields
  <2>3. ASSUME NEW t \in Requests, session'[t] > 0
        PROVE  /\ t # r /\ t # req[r].old /\ session[t] > 0
               /\ session'[t] = session[t]
    <3>1. t # req[r].old /\ session'[t] = session[t]
      BY <2>1, <2>3 DEF Inv, TypeOK
    <3>2. session[t] > 0
      BY <2>3, <3>1
    <3>3. t # r
      BY <2>1, <3>2, SeenFrom
    <3> QED
      BY <3>1, <3>2, <3>3
  <2>4. ASSUME NEW t \in Requests, session'[t] > 0 PROVE Sound(t)'
    <3>1. /\ req[t].kind = "login" /\ req[t].pc = "200"
          /\ index'[Owner(t)] = t /\ indexTTL'[Owner(t)] = session'[t]
          /\ Owner(t) \notin deleted' /\ req[t].pw = password'[Owner(t)]
      BY <2>1, <2>3, <2>4, SeenFrom DEF db
    <3> QED
      BY <2>3, <2>4, <3>1, SoundAgain
  <2>5. \A t \in (Live \ {r})' : Owner(t)' # req'[r].user
    <3>1. ASSUME NEW t \in Requests, session'[t] > 0
          PROVE  Owner(t)' # req'[r].user
      <4>1. index[Owner(t)] = t /\ Owner(t)' = Owner(t)
        BY <2>1, <2>3, <3>1, SeenFrom DEF Others, Owner
      <4> QED
        BY <2>1, <2>2, <2>3, <3>1, <4>1
    <3> QED
      BY <3>1 DEF Live
  <2>6. Current(r)'
    BY <1>1, <2>1, <2>2, <2>5 DEF Current, AdmittedSteps, KnownSteps,
                                  HandlerSteps, db
  <2> QED
    BY <2>4, <2>6, Together
<1>10. CASE SetSession(r)
  <2>1. /\ req[r].pc = "setSession"
        /\ session' = [session EXCEPT ![r] = TokenDuration]
        /\ Goto(r, "setIndex") /\ UNCHANGED <<db, index, indexTTL>>
    BY <1>4, <1>10 DEF SetSession
  <2>2. /\ req'[r].pc = "setIndex" /\ req'[r].user = req[r].user
        /\ req'[r].pw = req[r].pw /\ req'[r].kind = "login"
    BY <1>3, <2>1, GotoFields
  <2>3. session'[r] = TokenDuration
    BY <2>1 DEF Inv, TypeOK
  <2>4. ASSUME NEW t \in Requests \ {r}, session'[t] > 0
        PROVE  session'[t] = session[t] /\ session[t] > 0
    BY <2>1, <2>4 DEF Inv, TypeOK
  <2>5. ASSUME NEW t \in Requests \ {r}, session'[t] > 0 PROVE Sound(t)'
    <3>1. /\ req[t].kind = "login" /\ req[t].pc = "200"
          /\ index'[Owner(t)] = t /\ indexTTL'[Owner(t)] = session'[t]
          /\ Owner(t) \notin deleted' /\ req[t].pw = password'[Owner(t)]
      BY <2>1, <2>4, <2>5, SeenFrom DEF db
    <3> QED
      BY <2>5, <3>1, SoundAgain
  <2>6. Sound(r)'
    <3>1. req'[r].user \notin deleted' /\ req'[r].pw = password'[req'[r].user]
      BY <1>1, <2>1, <2>2 DEF Current, AdmittedSteps, db
    <3> QED
      BY <2>2, <3>1 DEF Sound, Paired, Entitled, Owner
  <2>7. \A t \in (Live \ {r})' : Owner(t)' # req'[r].user
    BY <1>1, <2>1, <2>2, <2>4 DEF Current, Live, Others, Owner
  <2>8. Current(r)'
    BY <1>1, <2>1, <2>2, <2>3, <2>7
       DEF Current, AdmittedSteps, KnownSteps, HandlerSteps, db
  <2> QED
    BY <2>5, <2>6, <2>8, Together
<1>11. CASE SetIndex(r)
  <2>1. /\ req[r].pc = "setIndex" /\ session[r] = TokenDuration
        /\ index' = [index EXCEPT ![req[r].user] = r]
        /\ indexTTL' = [indexTTL EXCEPT ![req[r].user] = TokenDuration]
        /\ Goto(r, "200") /\ UNCHANGED <<db, session>>
    BY <1>1, <1>4, <1>11 DEF SetIndex, Current
  <2>2. /\ req'[r].pc = "200" /\ req'[r].user = req[r].user
        /\ req'[r].pw = req[r].pw /\ req'[r].kind = "login"
    BY <1>3, <2>1, GotoFields
  <2>3. \A u \in Users :
          /\ index'[u] = IF u = req[r].user THEN r ELSE index[u]
          /\ indexTTL'[u] = IF u = req[r].user THEN TokenDuration
                                               ELSE indexTTL[u]
    BY <2>1 DEF Inv, TypeOK
  <2>4. ASSUME NEW t \in Requests \ {r}, session'[t] > 0 PROVE Sound(t)'
    <3>1. /\ req[t].kind = "login" /\ req[t].pc = "200" /\ Owner(t) \in Users
          /\ index[Owner(t)] = t /\ indexTTL[Owner(t)] = session'[t]
          /\ Owner(t) \notin deleted' /\ req[t].pw = password'[Owner(t)]
      BY <2>1, <2>4, SeenFrom DEF db
    <3>2. Owner(t) # req[r].user
      BY <1>1, <2>1, <2>4 DEF Current, Live
    <3> QED
      BY <2>3, <2>4, <3>1, <3>2, SoundAgain
  <2>5. Sound(r)'
    <3>1. req'[r].user \notin deleted' /\ req'[r].pw = password'[req'[r].user]
      BY <1>1, <2>1, <2>2 DEF Current, AdmittedSteps, db
    <3>2. index'[req'[r].user] = r /\ indexTTL'[req'[r].user] = session'[r]
      BY <1>3, <2>1, <2>2, <2>3
    <3> QED
      BY <2>2, <3>1, <3>2 DEF Sound, Paired, Entitled, Owner
  <2>6. Current(r)'
    BY <2>2 DEF Current, AdmittedSteps, KnownSteps, HandlerSteps
  <2> QED
    BY <2>4, <2>5, <2>6, Together
<1> QED
  BY <1>2, <1>6, <1>7, <1>8, <1>9, <1>10, <1>11
     DEF Login, UndoSession

-----------------------------------------------------------------------------

(* The session a request was authenticated by is the one its user's index
   names, up to the last call of the handler, and the only one of the user. *)
LEMMA OwnSession ==
    ASSUME Inv, InTurn, NEW r \in Requests, Others(r),
           req[r].pc \in KnownSteps
    PROVE  /\ req[r].token \in Requests \ {r} /\ req[r].user \in Users
           /\ Owner(req[r].token) = req[r].user
           /\ session[req[r].token] > 0
           /\ index[req[r].user] = req[r].token
           /\ \A t \in Live : Owner(t) = req[r].user => t = req[r].token
<1> USE DEF KnownSteps, HandlerSteps
<1>1. Knows(r) /\ Current(r)
  BY DEF Inv, InTurn, RequestsKnow
<1>2. /\ req[r].token \in Requests /\ req[r].user \in Users
      /\ Owner(req[r].token) = req[r].user
      /\ req[req[r].token].kind = "login" /\ req[r].kind # "login"
  BY <1>1 DEF Knows, LoginOf, Owner, AuthSteps
<1>3. session[req[r].token] > 0
  BY <1>1 DEF Current
<1>4. index[req[r].user] = req[r].token
  BY <1>2, <1>3, SeenFrom
<1>5. ASSUME NEW t \in Live, Owner(t) = req[r].user
      PROVE  t = req[r].token
  BY <1>4, <1>5, SeenFrom DEF Live
<1> QED
  BY <1>2, <1>3, <1>4, <1>5

(* Authentication and the two renewals keep the invariant. *)
LEMMA AuthenticationInTurn ==
    ASSUME Sequential, Inv, InTurn, NEW r \in Requests, Others(r),
           Authentication(r)
    PROVE  InTurn'
<1> USE DEF At
<1>1. req[r] \in Record /\ Knows(r) /\ Current(r)
  BY DEF Inv, InTurn, TypeOK, RequestsKnow
<1>2. ASSUME UNCHANGED <<db, redis>>, Current(r)',
             req[r].pc \in {"auth", "handle"}
      PROVE  InTurn'
  BY <1>2, NothingStored, Together DEF Steps, AuthSteps
<1>3. CASE Authenticate(r)
  <2>1. CASE Goto(r, "401")
    <3>1. req'[r].pc = "401"
      BY <2>1, GotoFields
    <3>2. Current(r)'
      BY <3>1 DEF Current, AdmittedSteps, KnownSteps, HandlerSteps
    <3> QED
      BY <1>2, <1>3, <3>2 DEF Authenticate
  <2>2. CASE ~Goto(r, "401")
    <3> DEFINE t == req[r].token
    <3>1. /\ req'[r] = [req[r] EXCEPT !.pc = "renew", !.user = req[t].user,
                                      !.write = req[t].write]
          /\ session[t] > 0 /\ UNCHANGED <<db, redis>>
      BY <1>3, <2>2 DEF Authenticate, Inv, TypeOK
    <3>2. req'[r].pc = "renew" /\ req'[r].token = t
      BY <1>1, <3>1 DEF Record
    <3>3. Current(r)'
      BY <3>1, <3>2 DEF redis, Current, AdmittedSteps
    <3> QED
      BY <1>2, <1>3, <3>1, <3>3 DEF Authenticate
  <2> QED
    BY <2>1, <2>2
<1>d. ASSUME NEW l, Executed(r, l) PROVE Goto(r, l)
  BY <1>d DEF Executed, Written, Sequential
<1>4. CASE RenewSession(r)
  <2> DEFINE s == req[r].token
  <2>1. /\ req[r].pc = "renew" /\ s \in Requests \ {r} /\ session[s] > 0
        /\ Goto(r, "renewIndex") /\ UNCHANGED <<db, index, indexTTL>>
    BY <1>4, <1>d, OwnSession DEF RenewSession, KnownSteps
  <2>2. \A t \in Requests :
          session'[t] = IF t = s THEN TokenDuration ELSE session[t]
    BY <1>4, <2>1 DEF RenewSession, Inv, TypeOK
  <2>3. req'[r].pc = "renewIndex" /\ req'[r].token = s
    BY <2>1, GotoFields
  <2>4. ASSUME NEW t \in Requests, session'[t] > 0 PROVE Sound(t)'
    <3>1. session[t] > 0
      BY <2>1, <2>2, <2>4
    <3>2. t # r
      BY <2>1, <3>1, SeenFrom
    <3>3. /\ req[t].kind = "login" /\ req[t].pc = "200"
          /\ index'[Owner(t)] = t /\ indexTTL'[Owner(t)] = session[t]
          /\ Owner(t) \notin deleted' /\ req[t].pw = password'[Owner(t)]
      BY <2>1, <3>1, <3>2, SeenFrom DEF db
    <3>4. \/ indexTTL'[Owner(t)] = session'[t]
          \/ req'[r].pc = "renewIndex" /\ req'[r].token = t
      BY <2>2, <2>3, <3>3
    <3> QED
      BY <3>2, <3>3, <3>4, SoundAgain
  <2>5. Current(r)'
    BY <2>1, <2>2, <2>3, DurationAssumption DEF Current, AdmittedSteps
  <2> QED
    BY <2>4, <2>5, Together
<1>5. CASE RenewIndex(r)
  <2> DEFINE s == req[r].token
  <2>1. /\ req[r].pc = "renewIndex" /\ s \in Requests \ {r}
        /\ Owner(s) = req[r].user /\ req[r].user \in Users
        /\ index[req[r].user] = s
        /\ \A t \in Live : Owner(t) = req[r].user => t = s
        /\ Goto(r, "handle") /\ UNCHANGED <<db, session, index>>
    BY <1>5, <1>d, OwnSession DEF RenewIndex, KnownSteps
  <2>2. session[s] = TokenDuration
    BY <1>1, <2>1 DEF Current
  <2>3. /\ indexTTL'[Owner(s)] = TokenDuration
        /\ \A u \in Users \ {Owner(s)} : indexTTL'[u] = indexTTL[u]
    <3>1. indexTTL[Owner(s)] # 0
      BY <2>1, NoneAssumption DEF Inv, TypeOK
    <3> QED
      BY <1>5, <2>1, <3>1, DurationAssumption DEF RenewIndex, Inv, TypeOK
  <2>4. req'[r].pc = "handle" /\ req'[r].token = s
    BY <2>1, GotoFields
  <2>5. ASSUME NEW t \in Requests, session'[t] > 0 PROVE Sound(t)'
    <3>1. session[t] > 0 /\ session'[t] = session[t]
      BY <2>1, <2>5
    <3>2. t # r
      BY <2>1, <3>1, SeenFrom
    <3>3. /\ req[t].kind = "login" /\ req[t].pc = "200" /\ Owner(t) \in Users
          /\ index'[Owner(t)] = t
          /\ t # s => indexTTL[Owner(t)] = session[t]
          /\ Owner(t) \notin deleted' /\ req[t].pw = password'[Owner(t)]
      BY <2>1, <3>1, <3>2, SeenFrom DEF db
    <3>4. indexTTL'[Owner(t)] = session'[t]
      <4>1. CASE t = s
        BY <2>2, <2>3, <3>1, <4>1
      <4>2. CASE t # s
        BY <2>1, <2>3, <3>1, <3>3, <4>2 DEF Live
      <4> QED
        BY <4>1, <4>2
    <3> QED
      BY <3>2, <3>3, <3>4, SoundAgain
  <2>6. Current(r)'
    BY <2>1, <2>2, <2>4, DurationAssumption DEF Current, AdmittedSteps
  <2> QED
    BY <2>5, <2>6, Together
<1>6. CASE Handle(r)
  <2>1. /\ req[r].pc = "handle" /\ UNCHANGED <<db, redis>>
        /\ session[req[r].token] > 0 /\ req[r].kind \in AllKinds \ {"login"}
        /\ req[r].kind = "delete" => req[r].target # None
    BY <1>1, <1>6, OwnSession, NoneAssumption
       DEF Handle, KnownSteps, Knows, AuthSteps, Targeted
  <2>2. CASE Goto(r, "403") \/ Goto(r, "400")
    <3>1. req'[r].pc \in {"403", "400"}
      BY <2>2, GotoFields
    <3>2. Current(r)'
      BY <3>1 DEF Current, AdmittedSteps, KnownSteps, HandlerSteps
    <3> QED
      BY <1>2, <2>1, <3>2
  <2>3. CASE ~Goto(r, "403") /\ ~Goto(r, "400")
    <3>1. /\ Goto(r, FirstCall[req[r].kind])
          /\ req[r].target # None => req[r].write
          /\ req[r].kind = "delete" => req[r].target # req[r].user
      BY <1>6, <2>3 DEF Handle
    <3>2. /\ req'[r].pc = FirstCall[req[r].kind]
          /\ req'[r].token = req[r].token /\ req'[r].user = req[r].user
          /\ req'[r].target = req[r].target /\ req'[r].write = req[r].write
      BY <3>1, GotoFields
    <3>3. /\ req'[r].pc \in {"200", "logoutDel", "check", "softDelete",
                             "restoreRow", "exists"}
          /\ req'[r].pc = "softDelete" => req[r].kind = "delete"
      BY <2>1, <3>2 DEF FirstCall, AllKinds
    <3>4. Current(r)'
      BY <2>1, <3>1, <3>2, <3>3 DEF Current, AdmittedSteps, redis
    <3> QED
      BY <1>2, <2>1, <3>4
  <2> QED
    BY <2>2, <2>3
<1> QED
  BY <1>3, <1>4, <1>5, <1>6 DEF Authentication

-----------------------------------------------------------------------------

(* DEL of the one session a user has, found by the index, and of the index:
   no other session is touched, and the user has none left. *)
LEMMA OneSessionEnds ==
    ASSUME Inv, InTurn, NEW r \in Requests, Others(r),
           req[r].pc \in HandlerSteps, UNCHANGED db,
           NEW u \in Users, DelSessionAndIndex(index[u], u),
           index[u] \in Requests,
           req[r].pc \in {"kickGet", "kickDel"} => u = req[r].target,
           req[r].pc = "endDel" => u = req[r].user
    PROVE  \A t \in Requests : session'[t] > 0 => Sound(t)'
<1> USE DEF HandlerSteps
<1> SUFFICES ASSUME NEW t \in Requests, session'[t] > 0 PROVE Sound(t)'
  OBVIOUS
<1>1. t # index[u] /\ session'[t] = session[t] /\ session[t] > 0
  BY DEF DelSessionAndIndex, Inv, TypeOK
<1>2. /\ t # r /\ req[t].kind = "login" /\ req[t].pc = "200"
      /\ Owner(t) \in Users /\ index[Owner(t)] = t
      /\ indexTTL[Owner(t)] = session[t]
  BY <1>1, SeenFrom
<1>3. Owner(t) # u
  BY <1>1, <1>2
<1>4. index'[Owner(t)] = t /\ indexTTL'[Owner(t)] = session'[t]
  BY <1>1, <1>2, <1>3 DEF DelSessionAndIndex, Inv, TypeOK
<1>5. Owner(t) \notin deleted' /\ req[t].pw = password'[Owner(t)]
  BY <1>1, <1>3, SeenFrom DEF db
<1> QED
  BY <1>2, <1>4, <1>5, SoundAgain

(* Every call of a handler keeps the invariant: what ends an account or a
   password ends the session that was opened with it. *)
LEMMA HandlerInTurn ==
    ASSUME Sequential, Inv, InTurn, NEW r \in Requests, Others(r), Handler(r)
    PROVE  InTurn'
<1> USE DEF At
<1>1. req[r] \in Record /\ Knows(r) /\ Current(r)
  BY DEF Inv, InTurn, TypeOK, RequestsKnow
<1>2. req[r].pc \in HandlerSteps /\ req[r].pc \in KnownSteps
  BY DEF Handler, Logout, CheckOldPassword, StorePassword, EndOwnSession,
         SoftDelete, KickLookup, KickDelete, Restore, CheckTarget,
         ReplaceRoles, BadRoles, HandlerSteps, KnownSteps
<1>3. /\ req[r].token \in Requests \ {r} /\ req[r].user \in Users
      /\ session[req[r].token] > 0
      /\ index[req[r].user] = req[r].token
      /\ req[r].pc \in TargetSteps => req[r].target \in Users
  BY <1>1, <1>2, OwnSession DEF Knows, HandlerSteps
<1>4. ASSUME NEW l, Written(r, l) \/ Executed(r, l) PROVE Goto(r, l)
  BY <1>4 DEF Executed, Written, Sequential
<1>5. ASSUME NEW l \in Answers, Goto(r, l) PROVE Current(r)'
  <2>1. req'[r].pc = l
    BY <1>5, GotoFields
  <2> QED
    BY <2>1 DEF Current, Answers, AdmittedSteps, KnownSteps, HandlerSteps
<1>6. ASSUME UNCHANGED <<db, redis>>, Current(r)',
             req[r].pc \notin {"kickGet", "kickDel", "endDel"}
      PROVE  InTurn'
  BY <1>2, <1>6, NothingStored, Together DEF Steps, HandlerSteps
<1>7. ASSUME NEW t \in Requests, session[t] > 0 PROVE t # r
  BY <1>2, <1>7, SeenFrom DEF HandlerSteps
<1>8. CASE Logout(r) \/ EndOwnSession(r)
  <2>1. /\ req[r].pc \in {"logoutDel", "endDel"} /\ Goto(r, "200")
        /\ DelSessionAndIndex(index[req[r].user], req[r].user)
        /\ UNCHANGED db
    BY <1>3, <1>4, <1>8 DEF Logout, EndOwnSession
  <2>2. \A t \in Requests : session'[t] > 0 => Sound(t)'
    BY <1>2, <1>3, <2>1, OneSessionEnds
  <2>3. Current(r)'
    BY <1>5, <2>1 DEF Answers
  <2> QED
    BY <2>2, <2>3, Together
<1>9. CASE CheckOldPassword(r)
  <2>1. /\ UNCHANGED <<db, redis>> /\ req[r].pc = "check"
        /\ Goto(r, "500") \/ Goto(r, "400") \/ Goto(r, "store")
    BY <1>9 DEF CheckOldPassword
  <2>2. CASE Goto(r, "500") \/ Goto(r, "400")
    BY <1>5, <1>6, <2>1, <2>2 DEF Answers
  <2>3. CASE Goto(r, "store")
    <3>1. req'[r].pc = "store" /\ req'[r].token = req[r].token
      BY <2>3, GotoFields
    <3>2. Current(r)'
      BY <1>3, <2>1, <3>1 DEF Current, AdmittedSteps, redis
    <3> QED
      BY <1>6, <2>1, <3>2
  <2> QED
    BY <2>1, <2>2, <2>3
<1>10. CASE StorePassword(r)
  <2>1. /\ req[r].pc = "store" /\ Goto(r, "endDel")
        /\ password' = [password EXCEPT ![req[r].user] = @ + 1]
        /\ UNCHANGED <<deleted, redis>>
    BY <1>4, <1>10 DEF StorePassword
  <2>2. /\ req'[r].pc = "endDel" /\ req'[r].token = req[r].token
        /\ req'[r].user = req[r].user
    BY <2>1, GotoFields
  <2>3. ASSUME NEW t \in Requests, session'[t] > 0 PROVE Sound(t)'
    <3>1. session[t] > 0 /\ session'[t] = session[t]
      BY <2>1, <2>3 DEF redis
    <3>2. /\ t # r /\ req[t].kind = "login" /\ req[t].pc = "200"
          /\ Owner(t) \in Users
          /\ index'[Owner(t)] = t /\ indexTTL'[Owner(t)] = session'[t]
          /\ Owner(t) \notin deleted' /\ req[t].pw = password[Owner(t)]
      BY <1>7, <2>1, <3>1, SeenFrom DEF redis
    <3>3. req[t].pw # password'[Owner(t)] => Owner(t) = req[r].user
      BY <2>1, <3>2 DEF Inv, TypeOK
    <3> QED
      BY <2>2, <3>2, <3>3, SoundAgain
  <2>4. Current(r)'
    BY <1>3, <2>1, <2>2 DEF Current, AdmittedSteps, redis
  <2> QED
    BY <2>3, <2>4, Together
<1>11. CASE SoftDelete(r)
  <2>1. CASE req[r].target \in deleted
    <3>1. Goto(r, "404") /\ UNCHANGED <<db, redis>> /\ req[r].pc = "softDelete"
      BY <1>11, <2>1 DEF SoftDelete, db
    <3> QED
      BY <1>5, <1>6, <3>1 DEF Answers
  <2>2. CASE req[r].target \notin deleted
    <3>1. /\ req[r].pc = "softDelete" /\ Goto(r, "kickGet")
          /\ deleted' = deleted \cup {req[r].target}
          /\ UNCHANGED <<password, redis>>
      BY <1>4, <1>11, <2>2 DEF SoftDelete
    <3>2. /\ req'[r].pc = "kickGet" /\ req'[r].token = req[r].token
          /\ req'[r].target = req[r].target
      BY <3>1, GotoFields
    <3>3. ASSUME NEW t \in Requests, session'[t] > 0 PROVE Sound(t)'
      <4>1. session[t] > 0 /\ session'[t] = session[t]
        BY <3>1, <3>3 DEF redis
      <4>2. /\ t # r /\ req[t].kind = "login" /\ req[t].pc = "200"
            /\ index'[Owner(t)] = t /\ indexTTL'[Owner(t)] = session'[t]
            /\ Owner(t) \notin deleted /\ req[t].pw = password'[Owner(t)]
        BY <1>7, <3>1, <4>1, SeenFrom DEF redis
      <4> QED
        BY <3>1, <3>2, <4>2, SoundAgain
    <3>4. Current(r)'
      BY <1>3, <3>1, <3>2 DEF Current, AdmittedSteps, redis
    <3> QED
      BY <3>3, <3>4, Together
  <2> QED
    BY <2>1, <2>2
<1>12. CASE KickLookup(r)
  <2> DEFINE s == index[req[r].target]
             l == IF s = None THEN "200" ELSE "kickDel"
  <2>1. /\ req[r].pc = "kickGet" /\ UNCHANGED <<db, redis>>
        /\ req'[r] = [req[r] EXCEPT !.pc = l, !.old = s]
    BY <1>12 DEF KickLookup, Inv, TypeOK
  <2>2. /\ req'[r].pc = l /\ req'[r].token = req[r].token
        /\ req'[r].target = req[r].target /\ req'[r].old = s
    BY <1>1, <2>1 DEF Record
  <2>3. ASSUME NEW t \in Requests, session'[t] > 0 PROVE Sound(t)'
    <3>1. /\ t # r /\ req[t].kind = "login" /\ req[t].pc = "200"
          /\ index[Owner(t)] = t
          /\ index'[Owner(t)] = t /\ indexTTL'[Owner(t)] = session'[t]
          /\ Owner(t) \in deleted' => Owner(t) = req[r].target
          /\ req[t].pw = password'[Owner(t)]
      BY <1>7, <2>1, <2>3, SeenFrom DEF db, redis
    <3>2. Owner(t) \in deleted' => req'[r].pc = "kickDel"
      BY <2>2, <3>1, NoneAssumption
    <3> QED
      BY <2>2, <3>1, <3>2, SoundAgain
  <2>4. Current(r)'
    <3>1. CASE s = None
      BY <2>2, <3>1 DEF Current, AdmittedSteps, KnownSteps, HandlerSteps
    <3>2. CASE s # None
      BY <1>3, <2>1, <2>2, <3>2 DEF Current, AdmittedSteps, redis
    <3> QED
      BY <3>1, <3>2
  <2> QED
    BY <2>3, <2>4, Together
<1>13. CASE KickDelete(r)
  <2>1. /\ req[r].pc = "kickDel" /\ Goto(r, "200") /\ UNCHANGED db
        /\ req[r].target \in Users /\ index[req[r].target] \in Requests
        /\ DelSessionAndIndex(index[req[r].target], req[r].target)
    BY <1>1, <1>3, <1>4, <1>13
       DEF KickDelete, Current, Knows, LoginOf, TargetSteps, DeleteSteps
  <2>2. \A t \in Requests : session'[t] > 0 => Sound(t)'
    BY <1>2, <2>1, OneSessionEnds
  <2>3. Current(r)'
    BY <1>5, <2>1 DEF Answers
  <2> QED
    BY <2>2, <2>3, Together
<1>14. CASE Restore(r)
  <2>1. /\ req[r].pc = "restoreRow" /\ deleted' \subseteq deleted
        /\ UNCHANGED <<password, redis>>
        /\ Goto(r, "404") \/ Goto(r, "409") \/ Goto(r, "200")
    BY <1>4, <1>14 DEF Restore
  <2>2. ASSUME NEW t \in Requests, session'[t] > 0 PROVE Sound(t)'
    <3>1. /\ t # r /\ req[t].kind = "login" /\ req[t].pc = "200"
          /\ index'[Owner(t)] = t /\ indexTTL'[Owner(t)] = session'[t]
          /\ Owner(t) \notin deleted' /\ req[t].pw = password'[Owner(t)]
      BY <1>7, <2>1, <2>2, SeenFrom DEF redis
    <3> QED
      BY <3>1, SoundAgain
  <2>3. Current(r)'
    BY <1>5, <2>1 DEF Answers
  <2> QED
    BY <2>2, <2>3, Together
<1>15. CASE CheckTarget(r)
  <2>1. /\ UNCHANGED <<db, redis>> /\ req[r].pc = "exists"
        /\ Goto(r, "404") \/ Goto(r, "replace")
    BY <1>15 DEF CheckTarget
  <2>2. CASE Goto(r, "404")
    BY <1>5, <1>6, <2>1, <2>2 DEF Answers
  <2>3. CASE Goto(r, "replace")
    <3>1. req'[r].pc = "replace" /\ req'[r].token = req[r].token
      BY <2>3, GotoFields
    <3>2. Current(r)'
      BY <1>3, <2>1, <3>1 DEF Current, AdmittedSteps, redis
    <3> QED
      BY <1>6, <2>1, <3>2
  <2> QED
    BY <2>1, <2>2, <2>3
<1>16. CASE ReplaceRoles(r) \/ BadRoles(r)
  <2>1. /\ req[r].pc = "replace" /\ UNCHANGED <<deleted, password, redis>>
        /\ Goto(r, "200") \/ Goto(r, "400") \/ Goto(r, "500")
    BY <1>4, <1>16 DEF ReplaceRoles, BadRoles, db
  <2>2. ASSUME NEW t \in Requests, session'[t] > 0 PROVE Sound(t)'
    <3>1. /\ t # r /\ req[t].kind = "login" /\ req[t].pc = "200"
          /\ index'[Owner(t)] = t /\ indexTTL'[Owner(t)] = session'[t]
          /\ Owner(t) \notin deleted' /\ req[t].pw = password'[Owner(t)]
      BY <1>7, <2>1, <2>2, SeenFrom DEF redis
    <3> QED
      BY <3>1, SoundAgain
  <2>3. Current(r)'
    BY <1>5, <2>1 DEF Answers
  <2> QED
    BY <2>2, <2>3, Together
<1> QED
  BY <1>8, <1>9, <1>10, <1>11, <1>12, <1>13, <1>14, <1>15, <1>16 DEF Handler

-----------------------------------------------------------------------------

(* A new request finds nobody under way. *)
LEMMA StartInTurn ==
    ASSUME Sequential, Inv, InTurn, NEW r \in Requests, Start(r)
    PROVE  InTurn'
<1> USE DEF At
<1>1. /\ Served = {} /\ req[r].pc = "new" /\ UNCHANGED <<db, redis>>
      /\ req[r] \in Record
  BY DEF Start, StartLogin, StartAuthenticated, MayStart, Sequential, Inv,
         TypeOK
<1>2. PICK l \in {"fetch", "auth"} :
        req'[r].pc = l /\ \A q \in Requests \ {r} : req'[q] = req[q]
  <2>1. ASSUME NEW u \in Users, StartLogin(r, u)
        PROVE  /\ req'[r].pc = "fetch"
               /\ \A q \in Requests \ {r} : req'[q] = req[q]
    BY <1>1, <2>1 DEF StartLogin, Inv, TypeOK, Record
  <2>2. ASSUME NEW k \in AllKinds, NEW t \in Requests,
               NEW u \in Users \cup {None}, StartAuthenticated(r, k, t, u)
        PROVE  /\ req'[r].pc = "auth"
               /\ \A q \in Requests \ {r} : req'[q] = req[q]
    BY <1>1, <2>2 DEF StartAuthenticated, Inv, TypeOK, Record
  <2> QED
    BY <2>1, <2>2 DEF Start
<1>3. Others(r)
  BY <1>1, <1>2 DEF Others, Served
<1>4. Current(r)'
  BY <1>2 DEF Current, AdmittedSteps, KnownSteps, HandlerSteps
<1> QED
  BY <1>1, <1>3, <1>4, NothingStored, Together

(* Between requests the two keys of a session expire in the same tick. *)
LEMMA TickInTurn ==
    ASSUME Sequential, Inv, InTurn, Tick
    PROVE  InTurn'
<1>1. req' = req /\ Served = {} /\ UNCHANGED db
  BY DEF Tick, Sequential
<1>2. ASSUME NEW r \in Requests PROVE req[r].pc \notin Steps
  BY <1>1 DEF Served
<1>3. Alone'
  BY <1>1 DEF Alone, Served
<1>4. ASSUME NEW r \in Requests PROVE Current(r)'
  BY <1>1, <1>2 DEF Current, AdmittedSteps, KnownSteps, HandlerSteps, Steps,
                    LoginSteps, AuthSteps
<1>5. ASSUME NEW t \in Requests, session'[t] > 0 PROVE Sound(t)'
  <2>1. session[t] \in Nat /\ session[t] > 1 /\ session'[t] = session[t] - 1
    BY <1>5, DurationAssumption DEF Tick, Inv, TypeOK
  <2>2. Sound(t)
    BY <2>1 DEF InTurn, Live
  <2>3. req[t].kind = "login" /\ req[t].pc = "200"
    BY <1>2, <2>2 DEF Sound, Steps, LoginSteps
  <2>4. /\ Owner(t) \in Users /\ index[Owner(t)] = t
        /\ indexTTL[Owner(t)] = session[t]
    BY <1>2, <2>2, <2>3
       DEF Sound, Paired, At, Owner, Inv, RequestsKnow, Knows, Steps, AuthSteps
  <2>5. index'[Owner(t)] = t /\ indexTTL'[Owner(t)] = session'[t]
    BY <2>1, <2>4 DEF Tick
  <2>6. Entitled(t)'
    BY <1>1, <2>2 DEF Sound, Entitled, Owner, At, db
  <2> QED
    BY <1>1, <2>3, <2>5, <2>6 DEF Sound, Paired, Owner
<1> QED
  BY <1>3, <1>4, <1>5 DEF InTurn, Live

(* A call belongs to the one request that is under way. *)
LEMMA OneMoves ==
    ASSUME Inv, InTurn, NEW r \in Requests, Serve(r)
    PROVE  Others(r)
<1> USE DEF At, Goto, Written, Executed
<1>1. req[r].pc \in Steps
  BY DEF Serve, Login, FetchUser, SnapshotPermissions, GetIndex,
         DelOldSession, SetSession, SetIndex, UndoSession, Authentication,
         Authenticate, RenewSession, RenewIndex, Handle, Handler, Logout,
         CheckOldPassword, StorePassword, EndOwnSession, SoftDelete,
         KickLookup, KickDelete, Restore, CheckTarget, ReplaceRoles, BadRoles,
         CallFails, OnError, Steps, LoginSteps, AuthSteps, HandlerSteps
<1>2. \A q \in Requests \ {r} : req[q].pc \notin Steps
  BY <1>1 DEF InTurn, Alone, Served
<1>3. req' = req \/ \E x : req' = [req EXCEPT ![r] = x]
  BY DEF Serve, Login, FetchUser, SnapshotPermissions, GetIndex,
         DelOldSession, SetSession, SetIndex, UndoSession, Authentication,
         Authenticate, RenewSession, RenewIndex, Handle, Handler, Logout,
         CheckOldPassword, StorePassword, EndOwnSession, SoftDelete,
         KickLookup, KickDelete, Restore, CheckTarget, ReplaceRoles, BadRoles,
         CallFails
<1> QED
  BY <1>2, <1>3 DEF Others, Inv, TypeOK

(* It holds before the first request, when there is no session. *)
LEMMA InTurnInit == Init => InTurn
<1> SUFFICES ASSUME Init PROVE InTurn
  OBVIOUS
<1>1. \A r \in Requests : req[r].pc = "new" /\ session[r] = 0
  BY DEF Init, NewRequest
<1> QED
  BY <1>1 DEF InTurn, Alone, Served, Current, Live, Steps, LoginSteps,
              AuthSteps, HandlerSteps, AdmittedSteps, KnownSteps

(* Every step of the one request under way keeps it, and so does the clock. *)
LEMMA InTurnStep ==
    ASSUME Sequential, Inv, InTurn, [Next]_vars
    PROVE  InTurn'
<1>1. ASSUME NEW r \in Requests, Serve(r) PROVE InTurn'
  <2>1. Others(r)
    BY <1>1, OneMoves
  <2>2. ~CallFails(r)
    BY DEF CallFails, Sequential
  <2> QED
    BY <1>1, <2>1, <2>2, LoginInTurn, AuthenticationInTurn, HandlerInTurn
       DEF Serve
<1>2. CASE UNCHANGED vars
  BY <1>2 DEF vars, InTurn, Alone, Served, Current, Live, Sound, Paired,
              Entitled, Owner, At
<1> QED
  BY <1>1, <1>2, StartInTurn, TickInTurn DEF Next

(* When requests are served one after the other without failures, the
   requests read nothing stale and every session is sound. *)
THEOREM InTurnHolds ==
    ASSUME Sequential
    PROVE  Spec => []InTurn
<1>1. Inv /\ InTurn /\ [Next]_vars => InTurn'
  BY InTurnStep
<1> QED
  BY <1>1, InTurnInit, InvHolds, PTL DEF Spec

-----------------------------------------------------------------------------

(* Every session is found through the reverse index, but for the one whose
   login is about to write the index. *)
THEOREM EverySessionIndexed ==
    ASSUME Sequential
    PROVE  Spec => []SessionIndexed
<1>1. InTurn => SessionIndexed
  BY DEF InTurn, Sound, Paired, SessionIndexed
<1> QED
  BY <1>1, InTurnHolds, PTL

(* Of the tokens given to a user at most one works. *)
THEOREM OneSession ==
    ASSUME Sequential
    PROVE  Spec => []OneSessionPerUser
<1>1. InTurn => OneSessionPerUser
  BY DEF InTurn, Sound, Paired, OneSessionPerUser, Issued, Live, At
<1> QED
  BY <1>1, InTurnHolds, PTL

(* A deletion leaves its user no session. *)
THEOREM NoSessionOfDeleted ==
    ASSUME Sequential
    PROVE  Spec => []DeletedHasNoSession
<1>1. InTurn => DeletedHasNoSession
  BY DEF InTurn, Sound, Entitled, DeletedHasNoSession
<1> QED
  BY <1>1, InTurnHolds, PTL

(* A password change leaves no session opened with an older password. *)
THEOREM CurrentPasswords ==
    ASSUME Sequential
    PROVE  Spec => []SessionsUseCurrentPassword
<1>1. InTurn => SessionsUseCurrentPassword
  BY DEF InTurn, Sound, Entitled, SessionsUseCurrentPassword
<1> QED
  BY <1>1, InTurnHolds, PTL

-----------------------------------------------------------------------------

(* Roles are granted but not taken away, and somebody may administer. *)
OnlyGrants == "revokeRoles" \notin Kinds /\ InitialOperators # {}

(* A request that goes on as it is, while roles only grow, adds no claim. *)
LEMMA ClaimsKept ==
    ASSUME Inv, Granted, operators \subseteq operators',
           \A q \in Requests : /\ req'[q].kind = req[q].kind
                               /\ req'[q].user = req[q].user
                               /\ req'[q].write = req[q].write
                               /\ req'[q].pc = "new" => req[q].pc = "new"
    PROVE  /\ \A q \in Requests : req'[q].kind \in Kinds \cup {None}
           /\ \A q \in Requests : req'[q].write => req'[q].user \in operators'
           /\ \A q \in Requests : At(q, "new")' => ~req'[q].write
BY DEF Granted, At

(* Who deletes has a session, so is not deleted, and may administer, so he is
   left when another account is deleted. *)
LEMMA GrantedStep ==
    ASSUME Sequential, OnlyGrants, Inv, InTurn, Granted, [Next]_vars
    PROVE  Granted'
<1> USE DEF At
<1>1. ASSUME operators \subseteq operators', deleted' \subseteq deleted
      PROVE  SomeOperatorRemains'
  BY <1>1 DEF Granted, SomeOperatorRemains
<1>2. CASE Tick
  <2>1. req' = req /\ UNCHANGED db
    BY <1>2 DEF Tick
  <2> QED
    BY <1>1, <2>1, ClaimsKept DEF Granted, db
<1>3. CASE UNCHANGED vars
  BY <1>1, <1>3, ClaimsKept DEF Granted, vars
<1>4. ASSUME NEW r \in Requests, NEW x \in Record,
             req' = [req EXCEPT ![r] = x], x.pc # "new",
             x.kind \in Kinds \cup {None}, x.write => x.user \in operators,
             UNCHANGED db
      PROVE  Granted'
  <2>1. req'[r] = x /\ \A q \in Requests \ {r} : req'[q] = req[q]
    BY <1>4 DEF Inv, TypeOK
  <2>2. operators' = operators /\ deleted' = deleted
    BY <1>4 DEF db
  <2> QED
    BY <1>1, <1>4, <2>1, <2>2 DEF Granted
<1>5. ASSUME NEW r \in Requests, Start(r) PROVE Granted'
  <2>1. req[r] \in Record /\ ~req[r].write /\ UNCHANGED db
    BY <1>5 DEF Start, StartLogin, StartAuthenticated, MayStart, Granted, Inv,
                TypeOK
  <2>2. ASSUME NEW u \in Users, StartLogin(r, u) PROVE Granted'
    <3> DEFINE x == [req[r] EXCEPT !.pc = "fetch", !.kind = "login",
                                   !.user = u]
    <3>1. /\ x \in Record /\ x.pc = "fetch" /\ x.kind = "login"
          /\ x.write = req[r].write
      BY <2>1 DEF Record, Steps, LoginSteps, AllKinds
    <3>2. req' = [req EXCEPT ![r] = x] /\ "login" \in Kinds
      BY <2>2 DEF StartLogin
    <3> HIDE DEF x
    <3> QED
      BY <1>4, <2>1, <3>1, <3>2
  <2>3. ASSUME NEW k \in AllKinds, NEW t \in Requests,
               NEW u \in Users \cup {None}, StartAuthenticated(r, k, t, u)
        PROVE  Granted'
    <3> DEFINE x == [req[r] EXCEPT !.pc = "auth", !.kind = k, !.token = t,
                                   !.target = u]
    <3>1. /\ x \in Record /\ x.pc = "auth" /\ x.kind = k
          /\ x.write = req[r].write
      BY <2>1 DEF Record, Steps, AuthSteps
    <3>2. req' = [req EXCEPT ![r] = x] /\ k \in Kinds
      BY <2>3 DEF StartAuthenticated
    <3> HIDE DEF x
    <3> QED
      BY <1>4, <2>1, <3>1, <3>2
  <2> QED
    BY <1>5, <2>2, <2>3 DEF Start
<1>6. ASSUME NEW r \in Requests, Serve(r) PROVE Granted'
  <2>1. /\ req[r] \in Record /\ Knows(r) /\ Current(r) /\ Others(r)
        /\ req[r].kind \in Kinds \cup {None}
        /\ req[r].write => req[r].user \in operators
    BY <1>6, OneMoves DEF Inv, InTurn, TypeOK, RequestsKnow, Granted
  <2>2. ASSUME NEW l, l # "new", Goto(r, l), operators \subseteq operators'
        PROVE  /\ \A q \in Requests : req'[q].kind \in Kinds \cup {None}
               /\ \A q \in Requests : req'[q].write =>
                                         req'[q].user \in operators'
               /\ \A q \in Requests : At(q, "new")' => ~req'[q].write
    BY <2>2, GotoFields, ClaimsKept
  <2>3. ASSUME NEW l, l # "new", Goto(r, l), operators \subseteq operators',
               deleted' \subseteq deleted
        PROVE  Granted'
    BY <1>1, <2>2, <2>3 DEF Granted
  <2>4. ASSUME NEW l, Written(r, l) \/ Executed(r, l) PROVE Goto(r, l)
    BY <2>4 DEF Executed, Written, Sequential
  <2>5. CASE FetchUser(r) /\ ~Goto(r, "401")
    <3>1. req[r].user \in Users
      BY <2>1, <2>5 DEF FetchUser, Knows, LoginSteps
    <3> DEFINE x == [req[r] EXCEPT !.pc = "perms",
                                   !.pw = password[req[r].user]]
    <3>2. /\ x \in Record /\ x.pc = "perms" /\ x.kind = req[r].kind
          /\ x.write = req[r].write /\ x.user = req[r].user
      BY <2>1, <3>1 DEF Record, Steps, LoginSteps, Inv, TypeOK
    <3>3. req' = [req EXCEPT ![r] = x] /\ UNCHANGED db
      BY <2>5 DEF FetchUser
    <3> HIDE DEF x
    <3> QED
      BY <1>4, <2>1, <3>2, <3>3
  <2>6. CASE SnapshotPermissions(r)
    <3> DEFINE b == req[r].user \in operators
    <3> DEFINE x == [req[r] EXCEPT !.pc = "getIndex", !.write = b]
    <3>1. b \in BOOLEAN
      OBVIOUS
    <3>2. b => req[r].user \in operators
      OBVIOUS
    <3>3. req' = [req EXCEPT ![r] = x] /\ UNCHANGED db
      BY <2>6 DEF SnapshotPermissions
    <3> HIDE DEF b
    <3>4. /\ x \in Record /\ x.pc = "getIndex" /\ x.kind = req[r].kind
          /\ x.user = req[r].user
      BY <2>1, <3>1 DEF Record, Steps, LoginSteps
    <3>5. x.write = b
      BY <2>1 DEF Record
    <3> HIDE DEF x
    <3> QED
      BY <1>4, <2>1, <3>2, <3>3, <3>4, <3>5
  <2>7. CASE GetIndex(r) \/ KickLookup(r)
    <3>1. PICK t \in Requests \cup {None},
               l \in {"setSession", "delOld", "200", "kickDel"} :
            req' = [req EXCEPT ![r] = [req[r] EXCEPT !.pc = l, !.old = t]]
      <4>1. CASE GetIndex(r)
        <5>1. req[r].user \in Users
          BY <2>1, <4>1 DEF GetIndex, Knows, LoginSteps
        <5> QED
          BY <4>1, <5>1 DEF GetIndex, Inv, TypeOK
      <4>2. CASE KickLookup(r)
        <5>1. req[r].target \in Users
          BY <2>1, <4>2
             DEF KickLookup, Knows, HandlerSteps, TargetSteps, DeleteSteps
        <5> QED
          BY <4>2, <5>1 DEF KickLookup, Inv, TypeOK
      <4> QED
        BY <2>7, <4>1, <4>2
    <3>x. PICK x : x = [req[r] EXCEPT !.pc = l, !.old = t]
      OBVIOUS
    <3>2. /\ x \in Record /\ x.pc # "new" /\ x.kind = req[r].kind
          /\ x.write = req[r].write /\ x.user = req[r].user
      <4>1. l \in Steps \cup Answers /\ l # "new"
        BY DEF Steps, LoginSteps, HandlerSteps, Answers
      <4> HIDE DEF Steps, Answers
      <4>2. req[r] \in Record
        BY <2>1
      <4> QED
        BY <3>x, <4>1, <4>2 DEF Record
    <3>3. req' = [req EXCEPT ![r] = x] /\ UNCHANGED db
      BY <2>7, <3>1, <3>x DEF GetIndex, KickLookup
    <3> QED
      BY <1>4, <2>1, <3>2, <3>3
  <2>8. CASE Authenticate(r) /\ ~Goto(r, "401")
    <3> DEFINE t == req[r].token
    <3>1. t \in Requests /\ req[t] \in Record
      BY <2>1, <2>8 DEF Authenticate, Knows, AuthSteps, LoginOf, Inv, TypeOK
    <3>2. req[t].write => req[t].user \in operators
      BY <3>1 DEF Granted
    <3> DEFINE x == [req[r] EXCEPT !.pc = "renew", !.user = req[t].user,
                                   !.write = req[t].write]
    <3>3. /\ x \in Record /\ x.pc = "renew" /\ x.kind = req[r].kind
          /\ x.write = req[t].write /\ x.user = req[t].user
      BY <2>1, <3>1 DEF Record, Steps, AuthSteps
    <3>4. req' = [req EXCEPT ![r] = x] /\ UNCHANGED db
      BY <2>8 DEF Authenticate
    <3> HIDE DEF x
    <3> QED
      BY <1>4, <2>1, <3>2, <3>3, <3>4
  <2>9. CASE \/ (FetchUser(r) \/ Authenticate(r)) /\ Goto(r, "401")
             \/ DelOldSession(r) \/ SetSession(r) \/ SetIndex(r)
             \/ UndoSession(r) \/ RenewSession(r) \/ RenewIndex(r)
             \/ Logout(r) \/ CheckOldPassword(r) \/ StorePassword(r)
             \/ EndOwnSession(r) \/ KickDelete(r) \/ Restore(r)
             \/ CheckTarget(r) \/ BadRoles(r)
    <3>1. operators' = operators /\ deleted' \subseteq deleted
      BY <2>9 DEF FetchUser, Authenticate, DelOldSession, SetSession, SetIndex,
                  UndoSession, RenewSession, RenewIndex, Logout,
                  CheckOldPassword, StorePassword, EndOwnSession, KickDelete,
                  Restore, CheckTarget, BadRoles, db
    <3>2. \E l : l # "new" /\ Goto(r, l)
      BY <2>4, <2>9
         DEF DelOldSession, SetSession, SetIndex, UndoSession, RenewSession,
             RenewIndex, Logout, CheckOldPassword, StorePassword,
             EndOwnSession, KickDelete, Restore, CheckTarget, BadRoles
    <3> QED
      BY <2>3, <3>1, <3>2
  <2>10. CASE Handle(r)
    <3>1. req[r].kind \in AllKinds \ {"login"}
      BY <2>1, <2>10 DEF Handle, Knows, AuthSteps
    <3>2. \E l : l # "new" /\ Goto(r, l)
      <4>1. FirstCall[req[r].kind] # "new"
        BY <3>1 DEF FirstCall, AllKinds
      <4> QED
        BY <2>10, <4>1 DEF Handle
    <3> QED
      BY <2>3, <2>10, <3>2 DEF Handle, db
  <2>11. CASE SoftDelete(r)
    <3>1. /\ req[r].pc = "softDelete" /\ req[r].write
          /\ req[r].target # req[r].user
      BY <2>1, <2>11 DEF SoftDelete, Current
    <3>2. req[r].user \notin deleted
      <4>1. /\ req[r].token \in Requests /\ session[req[r].token] > 0
            /\ Owner(req[r].token) = req[r].user
        BY <2>1, <3>1, OwnSession DEF KnownSteps, HandlerSteps
      <4> QED
        BY <2>1, <3>1, <4>1, SeenFrom
    <3>3. /\ deleted' \subseteq deleted \cup {req[r].target}
          /\ operators' = operators
          /\ \E l : l # "new" /\ Goto(r, l)
      BY <2>4, <2>11 DEF SoftDelete
    <3>4. req[r].user \in operators' \ deleted'
      BY <2>1, <3>1, <3>2, <3>3
    <3> QED
      BY <2>2, <3>3, <3>4 DEF Granted, SomeOperatorRemains
  <2>12. CASE ReplaceRoles(r)
    <3>1. req[r].kind # "revokeRoles"
      BY <2>1, NoneAssumption DEF OnlyGrants, AllKinds
    <3>2. operators \subseteq operators' /\ deleted' = deleted
      BY <2>12, <3>1 DEF ReplaceRoles
    <3>3. Goto(r, "200")
      BY <2>4, <2>12 DEF ReplaceRoles
    <3> QED
      BY <2>3, <3>2, <3>3
  <2>13. ~CallFails(r)
    BY DEF CallFails, Sequential
  <2> QED
    BY <1>6, <2>5, <2>6, <2>7, <2>8, <2>9, <2>10, <2>11, <2>12, <2>13
       DEF Serve, Login, Authentication, Handler
<1> QED
  BY <1>2, <1>3, <1>5, <1>6 DEF Next

(* Before the first request somebody may administer. *)
LEMMA GrantedInit ==
    ASSUME OnlyGrants
    PROVE  Init => Granted
BY DEF Init, NewRequest, Granted, SomeOperatorRemains, OnlyGrants, At

(* As long as roles are only granted, deletions leave an operator: the one
   who deletes is himself not deleted.  The rule against deleting oneself is
   enough when requests do not overlap. *)
THEOREM OperatorRemains ==
    ASSUME Sequential, OnlyGrants
    PROVE  Spec => []SomeOperatorRemains
<1>1. Inv /\ InTurn /\ Granted /\ [Next]_vars => Granted'
  BY GrantedStep
<1>2. Granted => SomeOperatorRemains
  BY DEF Granted
<1> QED
  BY <1>1, <1>2, GrantedInit, InTurnHolds, InvHolds, PTL DEF Spec

=============================================================================
