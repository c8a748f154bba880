-------------------------- MODULE WebSessionProofs --------------------------
(***************************************************************************)
(* What WebSession guarantees for any number of tabs, users, logins and    *)
(* requests in progress: that nobody is left behind in the shell, and that *)
(* a tab that has heard of everything shows the owner of the stored token. *)
(*                                                                         *)
(* The reason is one sentence about each tab of the shell (Informed): it   *)
(* has asked /me for the token that is stored, or stored it itself, or the *)
(* last event on its way to it carries that token.                         *)
(***************************************************************************)
EXTENDS WebSession, SequenceTheorems, TLAPS

(* Values that localStorage can have. *)
Stored == 0..Len(owner)

(* A request that a tab may be waiting for. *)
CallRecord == [kind : Kinds, token : Stored, accepted : BOOLEAN,
               user : Users \cup {NoUser}, live : BOOLEAN]
Known == {c \in CallRecord : /\ c.accepted => c.token # NoToken
                             /\ c.kind = "login" => c.user \in Users}

(* Requests of which none asks for the user of a shell that is there. *)
Detached == {c \in Known : c.kind = "me" => ~c.live}

Waiting == \A t \in Tabs : view[t] = "login" => calls[t] \in Seq(Detached)

(* What is shown is the owner of the token it was asked with. *)
Shows == \A t \in Tabs : shown[t] # NoToken => user[t] = owner[shown[t]]

(* A tab of the shell knows the stored token or will hear of it. *)
Informed ==
    \A t \in Tabs : view[t] = "shell" =>
        \/ token # NoToken /\ current[t] = token
        \/ events[t] # <<>> /\ Last(events[t]) = token

LocalTypes ==
    /\ view \in [Tabs -> {"login", "shell"}]
    /\ user \in [Tabs -> Users \cup {NoUser}]
    /\ calls \in [Tabs -> Seq(Known)]
    /\ current \in [Tabs -> Stored]
    /\ shown \in [Tabs -> Stored]

Types ==
    /\ token \in Stored
    /\ owner \in Seq(Users) /\ Len(owner) <= MaxTokens
    /\ valid \subseteq 1..Len(owner)
    /\ events \in [Tabs -> Seq(Stored)]
    /\ LocalTypes
    /\ \A t \in Tabs : view[t] = "login" => user[t] = NoUser

IInv == Types /\ Waiting /\ Shows /\ Informed

-----------------------------------------------------------------------------
(* Sequences of requests and of events. *)

(* What is left after one element is removed are elements as before. *)
LEMMA RemoveAtSeq ==
    ASSUME NEW S, NEW s \in Seq(S), NEW i \in DOMAIN s
    PROVE  RemoveAt(s, i) \in Seq(S)
<1>1. Len(s) \in Nat /\ i \in 1..Len(s)
  BY LenProperties
<1>2. \A j \in 1..Len(s) : s[j] \in S
  BY ElementOfSeq
<1>3. SubSeq(s, 1, i - 1) \in Seq(S)
  BY <1>1, <1>2, SubSeqProperties
<1>4. SubSeq(s, i + 1, Len(s)) \in Seq(S)
  BY <1>1, <1>2, SubSeqProperties
<1> QED
  BY <1>3, <1>4, ConcatProperties DEF RemoveAt

(* None of the requests of a shell that is gone is waited for by a shell. *)
LEMMA OrphanedSeq ==
    ASSUME NEW cs \in Seq(Known)
    PROVE  Orphaned(cs) \in Seq(Detached)
<1>1. Len(cs) \in Nat /\ DOMAIN cs = 1..Len(cs)
  BY LenProperties
<1>2. \A i \in 1..Len(cs) : [cs[i] EXCEPT !.live = FALSE] \in Detached
  <2> TAKE i \in 1..Len(cs)
  <2> DEFINE c == cs[i]
  <2>1. c \in Known
    BY ElementOfSeq
  <2> HIDE DEF c
  <2>2. /\ [c EXCEPT !.live = FALSE] \in CallRecord
        /\ [c EXCEPT !.live = FALSE].live = FALSE
        /\ [c EXCEPT !.live = FALSE].token = c.token
        /\ [c EXCEPT !.live = FALSE].accepted = c.accepted
        /\ [c EXCEPT !.live = FALSE].kind = c.kind
        /\ [c EXCEPT !.live = FALSE].user = c.user
    BY <2>1 DEF Known, CallRecord
  <2>3. [c EXCEPT !.live = FALSE] \in Detached
    BY <2>1, <2>2 DEF Known, Detached
  <2> QED
    BY <2>3 DEF c
<1>3. Orphaned(cs) \in [1..Len(cs) -> Detached]
  BY <1>1, <1>2 DEF Orphaned
<1> QED
  BY <1>1, <1>3, SeqDef

(* An event that is added is the last. *)
LEMMA LastOfAppend ==
    ASSUME NEW S, NEW s \in Seq(S), NEW e \in S
    PROVE  /\ Append(s, e) \in Seq(S)
           /\ Append(s, e) # <<>>
           /\ Last(Append(s, e)) = e
BY AppendProperties DEF Last

(* When the first event is not like the last, the last is still to come after
   it. *)
LEMMA LastOfTail ==
    ASSUME NEW S, NEW s \in Seq(S), s # <<>>, Head(s) # Last(s)
    PROVE  Tail(s) # <<>> /\ Last(Tail(s)) = Last(s)
<1>1. Len(s) \in Nat /\ Len(s) # 0
  BY LenProperties, EmptySeq
<1>2. Head(s) = s[1]
  BY <1>1
<1>3. Len(s) > 1
  BY <1>1, <1>2 DEF Last
<1>4. /\ Tail(s) \in Seq(S) /\ Len(Tail(s)) = Len(s) - 1
      /\ \A i \in 1..Len(Tail(s)) : Tail(s)[i] = s[i + 1]
  BY HeadTailProperties
<1>5. Tail(s) # <<>>
  <2>1. Len(Tail(s)) # 0
    BY <1>1, <1>3, <1>4
  <2>2. Len(<<>>) = 0
    BY EmptySeq
  <2> QED
    BY <2>1, <2>2, Zenon
<1>6. Tail(s)[Len(s) - 1] = s[Len(s) - 1 + 1]
  BY <1>1, <1>3, <1>4
<1>7. Last(Tail(s)) = Last(s)
  <2>1. Len(Tail(s)) = Len(s) - 1 /\ Len(s) - 1 + 1 = Len(s)
    BY <1>1, <1>4
  <2> QED
    BY <1>6, <2>1, Zenon DEF Last
<1> QED
  BY <1>5, <1>7

(* A new request is one that the tab may wait for. *)
LEMMA CallKnown ==
    ASSUME Types, NEW kind \in Kinds, NEW k \in Stored,
           NEW u \in Users \cup {NoUser}, kind = "login" => u \in Users
    PROVE  /\ Call(kind, k, u) \in Known
           /\ kind # "me" => Call(kind, k, u) \in Detached
<1>1. (k \in valid) \in BOOLEAN /\ (k \in valid => k # NoToken)
  BY DEF Types, NoToken
<1>2. Call(kind, k, u) \in CallRecord
  BY <1>1 DEF Call, CallRecord
<1> QED
  BY <1>1, <1>2 DEF Call, Known, Detached

-----------------------------------------------------------------------------
(* What a step does to the tab that takes it, and to the others. *)

Same(o) ==
    /\ view'[o] = view[o] /\ user'[o] = user[o] /\ calls'[o] = calls[o]
    /\ current'[o] = current[o] /\ shown'[o] = shown[o]

OthersSame(t) == \A o \in Tabs \ {t} : Same(o)

(* A new shell: it shows nothing and has asked for the user of k. *)
LEMMA MountTab ==
    ASSUME Types, owner' = owner, NEW t \in Tabs, NEW cs \in Seq(Known),
           NEW k \in Stored, Mount(t, cs, k)
    PROVE  /\ LocalTypes' /\ OthersSame(t)
           /\ view'[t] = "shell" /\ current'[t] = k /\ shown'[t] = NoToken
<1>1. Call("me", k, NoUser) \in Known
  BY CallKnown DEF Kinds
<1>2. Append(Orphaned(cs), Call("me", k, NoUser)) \in Seq(Known)
  <2>1. Orphaned(cs) \in Seq(Known)
    BY OrphanedSeq, SeqMonotonic DEF Detached
  <2> QED
    BY <1>1, <2>1, AppendProperties
<1>3. NoToken \in Stored
  BY LenProperties DEF Types, Stored, NoToken
<1>4. Stored' = Stored /\ Known' = Known
  BY DEF Stored, Known, CallRecord
<1>5. LocalTypes'
  BY <1>2, <1>3, <1>4 DEF Types, LocalTypes, Mount, SyncUser
<1> QED
  BY <1>5 DEF Types, LocalTypes, Mount, SyncUser, OthersSame, Same

(* A tab that goes to the login page shows nobody and waits for nothing that
   could tell it whom to show. *)
LEMMA LeaveTab ==
    ASSUME Types, owner' = owner, NEW t \in Tabs, NEW cs \in Seq(Known),
           PushLogin(t, cs)
    PROVE  /\ LocalTypes' /\ OthersSame(t)
           /\ view'[t] = "login" /\ user'[t] = NoUser /\ shown'[t] = NoToken
           /\ calls'[t] \in Seq(Detached)
<1>1. Orphaned(cs) \in Seq(Detached)
  BY OrphanedSeq
<1>2. Orphaned(cs) \in Seq(Known)
  BY <1>1, SeqMonotonic DEF Detached
<1>3. NoToken \in Stored
  BY LenProperties DEF Types, Stored, NoToken
<1>4. Stored' = Stored /\ Known' = Known
  BY DEF Stored, Known, CallRecord
<1>5. LocalTypes'
  BY <1>2, <1>3, <1>4 DEF Types, LocalTypes, PushLogin
<1> QED
  BY <1>1, <1>5 DEF Types, LocalTypes, PushLogin, OthersSame, Same

(* The other tabs hear of what a tab stores. *)
LEMMA StoreTab ==
    ASSUME Types, owner' = owner, NEW t \in Tabs, NEW value \in Stored,
           Store(t, value)
    PROVE  /\ token' = value
           /\ events' \in [Tabs -> Seq(Stored)]
           /\ \A o \in Tabs \ {t} :
                 \/ token' = token /\ events'[o] = events[o]
                 \/ events'[o] # <<>> /\ Last(events'[o]) = token'
<1>1. \A o \in Tabs : /\ Append(events[o], value) \in Seq(Stored)
                      /\ Append(events[o], value) # <<>>
                      /\ Last(Append(events[o], value)) = value
  BY LastOfAppend DEF Types
<1> QED
  BY <1>1 DEF Types, Store

(* A step of one tab keeps the invariant when the tab itself complies and the
   others hear of what it stores. *)
LEMMA TabStep ==
    ASSUME IInv, owner' = owner, NEW t \in Tabs,
           token' \in Stored, valid' \subseteq 1..Len(owner),
           events' \in [Tabs -> Seq(Stored)],
           LocalTypes', OthersSame(t),
           \A o \in Tabs \ {t} :
              \/ token' = token /\ events'[o] = events[o]
              \/ events'[o] # <<>> /\ Last(events'[o]) = token',
           view'[t] = "login" =>
              user'[t] = NoUser /\ calls'[t] \in Seq(Detached),
           shown'[t] # NoToken => user'[t] = owner[shown'[t]],
           view'[t] = "shell" =>
              \/ token' # NoToken /\ current'[t] = token'
              \/ events'[t] # <<>> /\ Last(events'[t]) = token'
    PROVE  IInv'
<1>1. Stored' = Stored /\ Known' = Known /\ Detached' = Detached
  BY DEF Stored, Known, CallRecord, Detached
<1>2. Types'
  BY <1>1 DEF IInv, Types, OthersSame, Same
<1>3. Waiting'
  BY <1>1 DEF IInv, Waiting, OthersSame, Same
<1>4. Shows'
  BY DEF IInv, Shows, OthersSame, Same
<1>5. Informed'
  BY DEF IInv, Informed, OthersSame, Same
<1> QED
  BY <1>2, <1>3, <1>4, <1>5 DEF IInv

-----------------------------------------------------------------------------
(* The invariant. *)

(* The invariant holds before anybody logs in. *)
LEMMA InvInit == Init => IInv
<1> SUFFICES ASSUME Init PROVE IInv
  OBVIOUS
<1>1. owner \in Seq(Users) /\ Len(owner) = 0
  BY EmptySeq DEF Init
<1>2. NoToken \in Stored
  BY <1>1 DEF Stored, NoToken
<1>3. <<>> \in Seq(Stored) /\ <<>> \in Seq(Known) /\ <<>> \in Seq(Detached)
  BY EmptySeq
<1>4. Types
  BY <1>1, <1>2, <1>3, BoundsAssumption DEF Init, Types, LocalTypes
<1> QED
  BY <1>3, <1>4 DEF Init, IInv, Waiting, Shows, Informed

(* What the storage holds and what a tab waits for, as the types say. *)
LEMMA TabTypes ==
    ASSUME Types, NEW t \in Tabs
    PROVE  /\ NoToken \in Stored /\ Len(owner) \in Nat
           /\ calls[t] \in Seq(Known)
           /\ \A i \in DOMAIN calls[t] :
                 calls[t][i] \in Known /\ Rest(t, i) \in Seq(Known)
<1>1. NoToken \in Stored /\ Len(owner) \in Nat
  BY LenProperties DEF Types, Stored, NoToken
<1>2. calls[t] \in Seq(Known)
  BY DEF Types, LocalTypes
<1> QED
  BY <1>1, <1>2, LenProperties, ElementOfSeq, RemoveAtSeq DEF Rest

(* A tab that goes to a page of the shell or to the login page, or is loaded
   anew. *)
LEMMA OpenStep ==
    ASSUME IInv, NEW t \in Tabs, Visit(t) \/ Leave(t) \/ Reload(t)
    PROVE  IInv'
<1>1. /\ Types /\ NoToken \in Stored /\ token \in Stored
      /\ calls[t] \in Seq(Known) /\ <<>> \in Seq(Known) /\ <<>> \in Seq(Stored)
      /\ owner' = owner /\ token' = token /\ valid' = valid
  BY TabTypes, EmptySeq DEF IInv, Types, Visit, Leave, Reload
<1>2. /\ events' \in [Tabs -> Seq(Stored)]
      /\ \A o \in Tabs \ {t} : events'[o] = events[o]
  BY <1>1 DEF Types, Visit, Leave, Reload
<1>3. CASE \E cs \in Seq(Known) : token # NoToken /\ Mount(t, cs, token)
  BY <1>1, <1>2, <1>3, MountTab, TabStep DEF Types
<1>4. CASE \E cs \in Seq(Known) : PushLogin(t, cs)
  BY <1>1, <1>2, <1>4, LeaveTab, TabStep DEF Types
<1> QED
  BY <1>1, <1>3, <1>4 DEF Visit, Leave, Reload

(* A form is sent: the tab waits for one answer more. *)
LEMMA SubmitStep ==
    ASSUME IInv, NEW t \in Tabs,
           \/ \E u \in Users : SubmitLogin(t, u)
           \/ \E kind \in {"logout", "password"} : SubmitInShell(t, kind)
    PROVE  IInv'
<1>1. /\ Types /\ NoToken \in Stored /\ token \in Stored
      /\ calls[t] \in Seq(Known)
  BY TabTypes DEF IInv, Types
<1>2. PICK c \in Detached : calls' = [calls EXCEPT ![t] = Append(calls[t], c)]
  <2>1. CASE \E u \in Users : SubmitLogin(t, u)
    BY <1>1, <2>1, CallKnown DEF SubmitLogin, Kinds
  <2>2. CASE \E kind \in {"logout", "password"} : SubmitInShell(t, kind)
    BY <1>1, <2>2, CallKnown DEF SubmitInShell, Kinds
  <2> QED
    BY <2>1, <2>2
<1>3. /\ owner' = owner /\ token' = token /\ valid' = valid /\ events' = events
      /\ view' = view /\ user' = user /\ current' = current /\ shown' = shown
  BY DEF SubmitLogin, SubmitInShell
<1>4. /\ Append(calls[t], c) \in Seq(Known)
      /\ view[t] = "login" => Append(calls[t], c) \in Seq(Detached)
  BY <1>1, AppendProperties DEF Detached, IInv, Waiting
<1>5. Stored' = Stored /\ Known' = Known
  BY <1>3 DEF Stored, Known, CallRecord
<1>6. LocalTypes' /\ OthersSame(t)
  BY <1>1, <1>2, <1>3, <1>4, <1>5 DEF Types, LocalTypes, OthersSame, Same
<1>7. calls'[t] = Append(calls[t], c)
  BY <1>1, <1>2 DEF Types, LocalTypes
<1> QED
  BY <1>1, <1>3, <1>4, <1>6, <1>7, TabStep
     DEF IInv, Types, Shows, Informed

(* The back end issues a token: what was known stays known. *)
LEMMA ServeStep ==
    ASSUME IInv, NEW t \in Tabs, NEW i \in DOMAIN calls[t], ServeLogin(t, i)
    PROVE  IInv'
<1> DEFINE c == calls[t][i]
           d == [c EXCEPT !.token = Len(owner')]
<1>1. /\ Types /\ c \in Known /\ calls[t] \in Seq(Known) /\ Len(owner) \in Nat
      /\ i \in 1..Len(calls[t])
  BY TabTypes, LenProperties DEF IInv
<1>2. /\ c.kind = "login" /\ Len(owner) < MaxTokens
      /\ owner' = Append(owner, c.user)
      /\ valid' = {k \in valid : owner[k] # c.user} \cup {Len(owner')}
      /\ calls' = [calls EXCEPT ![t] = [calls[t] EXCEPT ![i] = d]]
      /\ token' = token /\ view' = view /\ user' = user /\ events' = events
      /\ current' = current /\ shown' = shown
  BY DEF ServeLogin
<1>3. /\ owner' \in Seq(Users) /\ Len(owner') = Len(owner) + 1
      /\ \A k \in 1..Len(owner) : owner'[k] = owner[k]
  <2>1. c.user \in Users /\ owner \in Seq(Users)
    BY <1>1, <1>2 DEF Known, Types
  <2> QED
    BY <1>2, <2>1, AppendProperties
<1>4. Stored \subseteq Stored' /\ Len(owner') \in Stored' \ {NoToken}
  BY <1>1, <1>3 DEF Stored, NoToken
<1>5. Known \subseteq Known' /\ Detached \subseteq Detached'
  BY <1>4 DEF Known, CallRecord, Detached
<1>6. d \in Detached' /\ d \in Known'
  <2>1. c \in CallRecord /\ c.user \in Users
    BY <1>1, <1>2 DEF Known
  <2>2. /\ d \in CallRecord' /\ d.token = Len(owner') /\ d.kind = c.kind
        /\ d.user = c.user
    BY <2>1, <1>4 DEF CallRecord
  <2> QED
    BY <1>2, <1>4, <2>1, <2>2 DEF Known, Detached
<1> HIDE DEF c, d
<1>7. \A o \in Tabs : /\ calls'[o] \in Seq(Known')
                      /\ view[o] = "login" => calls'[o] \in Seq(Detached')
                      /\ events[o] \in Seq(Stored')
  <2> TAKE o \in Tabs
  <2>1. calls[o] \in Seq(Known') /\ events[o] \in Seq(Stored')
    BY <1>1, <1>4, <1>5, SeqMonotonic DEF Types, LocalTypes
  <2>2. view[o] = "login" => calls[o] \in Seq(Detached')
    BY <1>5, SeqMonotonic DEF IInv, Waiting
  <2>3. calls'[o] = IF o = t THEN [calls[t] EXCEPT ![i] = d] ELSE calls[o]
    BY <1>1, <1>2 DEF Types, LocalTypes
  <2> QED
    BY <1>1, <1>6, <2>1, <2>2, <2>3, ExceptSeq
<1>8. LocalTypes'
  <2>1. calls' \in [Tabs -> Seq(Known')]
    BY <1>1, <1>2, <1>7 DEF Types, LocalTypes
  <2>2. current \in [Tabs -> Stored'] /\ shown \in [Tabs -> Stored']
    BY <1>1, <1>4 DEF Types, LocalTypes
  <2> QED
    BY <1>1, <1>2, <2>1, <2>2 DEF Types, LocalTypes
<1>9. Types'
  <2>1. events \in [Tabs -> Seq(Stored')]
    BY <1>1, <1>7 DEF Types
  <2>2. valid' \subseteq 1..Len(owner')
    BY <1>1, <1>2, <1>3 DEF Types
  <2>3. Len(owner') <= MaxTokens
    BY <1>1, <1>2, <1>3, BoundsAssumption
  <2> QED
    BY <1>1, <1>2, <1>3, <1>4, <1>8, <2>1, <2>2, <2>3 DEF Types
<1>10. Shows'
  <2> SUFFICES ASSUME NEW o \in Tabs, shown[o] # NoToken
               PROVE  user[o] = owner'[shown[o]]
    BY <1>2 DEF Shows, NoToken
  <2>1. shown[o] \in 1..Len(owner)
    BY <1>1 DEF Types, LocalTypes, Stored, NoToken
  <2> QED
    BY <1>3, <2>1 DEF IInv, Shows
<1> QED
  BY <1>2, <1>7, <1>9, <1>10 DEF IInv, Waiting, Informed, NoToken

(* An answer arrives, or an error. *)
LEMMA DeliverStep ==
    ASSUME IInv, NEW t \in Tabs, NEW i \in DOMAIN calls[t], Deliver(t, i)
    PROVE  IInv'
<1> DEFINE c == calls[t][i]
<1>1. /\ Types /\ c \in Known /\ calls[t] \in Seq(Known)
      /\ Rest(t, i) \in Seq(Known)
      /\ NoToken \in Stored /\ token \in Stored /\ c.token \in Stored
  BY TabTypes DEF IInv, Types, Known, CallRecord
<1>2. view[t] = "login" => c \in Detached /\ Rest(t, i) \in Seq(Detached)
  BY RemoveAtSeq, ElementOfSeq, LenProperties DEF IInv, Waiting, Rest
<1>3. owner' = owner
  BY DEF Deliver, LoginDone, MeDone, SessionLeft, FormError
<1>4. Stored' = Stored /\ Known' = Known
  BY <1>3 DEF Stored, Known, CallRecord
<1>5. CASE LoginDone(t, i)
  <2>1. /\ c.token # NoToken /\ Store(t, c.token) /\ valid' = valid
    BY <1>5 DEF LoginDone
  <2>2. CASE view[t] = "login"
    <3>1. Mount(t, Rest(t, i), c.token)
      BY <1>5, <2>2 DEF LoginDone
    <3>2. /\ LocalTypes' /\ OthersSame(t)
          /\ view'[t] = "shell" /\ current'[t] = c.token
          /\ shown'[t] = NoToken
      BY <1>1, <1>3, <3>1, MountTab
    <3>3. /\ token' = c.token
          /\ events' \in [Tabs -> Seq(Stored)]
          /\ \A o \in Tabs \ {t} :
                \/ token' = token /\ events'[o] = events[o]
                \/ events'[o] # <<>> /\ Last(events'[o]) = token'
      BY <1>1, <1>3, <2>1, StoreTab
    <3> QED
      BY <1>1, <1>3, <2>1, <3>2, <3>3, TabStep DEF Types
  <2>3. CASE view[t] # "login"
    <3>1. /\ calls' = [calls EXCEPT ![t] = Rest(t, i)]
          /\ current' = [current EXCEPT ![t] = c.token]
          /\ view' = view /\ user' = user /\ shown' = shown
      BY <1>5, <2>3 DEF LoginDone
    <3>2. /\ LocalTypes' /\ OthersSame(t)
          /\ current'[t] = c.token
      BY <1>1, <1>4, <3>1 DEF Types, LocalTypes, OthersSame, Same
    <3> QED
      BY <1>1, <1>3, <2>1, <2>3, <3>1, <3>2, StoreTab, TabStep
         DEF Types, IInv, Shows
  <2> QED
    BY <2>2, <2>3
<1>6. CASE MeDone(t, i)
  <2>1. /\ c.kind = "me" /\ c.accepted /\ c.token # NoToken
        /\ user' = IF c.live THEN [user EXCEPT ![t] = owner[c.token]] ELSE user
        /\ shown' = IF c.live THEN [shown EXCEPT ![t] = c.token] ELSE shown
        /\ calls' = [calls EXCEPT ![t] = Rest(t, i)]
        /\ token' = token /\ valid' = valid /\ view' = view
        /\ events' = events /\ current' = current
    BY <1>1, <1>6 DEF MeDone, Known
  <2>2. c.live => view[t] # "login"
    BY <1>2, <2>1 DEF Detached
  <2>3. owner[c.token] \in Users
    BY <1>1, <2>1, ElementOfSeq DEF Types, Stored, NoToken
  <2>4. LocalTypes' /\ OthersSame(t)
    BY <1>1, <1>4, <2>1, <2>3 DEF Types, LocalTypes, OthersSame, Same
  <2>5. shown'[t] # NoToken => user'[t] = owner[shown'[t]]
    BY <1>1, <2>1 DEF Types, LocalTypes, IInv, Shows
  <2>6. view[t] = "login" => user'[t] = NoUser /\ calls'[t] \in Seq(Detached)
    BY <1>1, <1>2, <2>1, <2>2 DEF Types, LocalTypes
  <2> QED
    BY <1>1, <1>3, <2>1, <2>4, <2>5, <2>6, TabStep DEF Types, IInv, Informed
<1>7. CASE SessionLeft(t, i)
  <2>1. /\ Store(t, NoToken) /\ PushLogin(t, Rest(t, i))
        /\ valid' \subseteq valid
    BY <1>7 DEF SessionLeft
  <2> QED
    BY <1>1, <1>3, <2>1, StoreTab, LeaveTab, TabStep DEF Types
<1>8. CASE FormError(t, i)
  <2>1. /\ calls' = [calls EXCEPT ![t] = Rest(t, i)]
        /\ token' = token /\ valid' = valid /\ view' = view /\ user' = user
        /\ events' = events /\ current' = current /\ shown' = shown
    BY <1>8 DEF FormError
  <2>2. LocalTypes' /\ OthersSame(t)
    BY <1>1, <1>4, <2>1 DEF Types, LocalTypes, OthersSame, Same
  <2>3. view[t] = "login" => calls'[t] \in Seq(Detached)
    BY <1>1, <1>2, <2>1 DEF Types, LocalTypes
  <2> QED
    BY <1>1, <1>3, <2>1, <2>2, <2>3, TabStep DEF Types, IInv, Shows, Informed
<1> QED
  BY <1>5, <1>6, <1>7, <1>8 DEF Deliver

(* A storage event arrives.  In the shell, the removal of the token leads to
   the login page and a new token to a question for its user; either way the
   last event is still to come, or the tab is informed. *)
LEMMA EventStep ==
    ASSUME IInv, NEW t \in Tabs, OnStorageChange(t)
    PROVE  IInv'
<1>1. /\ Types /\ NoToken \in Stored /\ token \in Stored
      /\ calls[t] \in Seq(Known)
      /\ events[t] \in Seq(Stored) /\ events[t] # <<>>
      /\ owner' = owner /\ token' = token /\ valid' = valid
      /\ events' = [events EXCEPT ![t] = Tail(events[t])]
  BY TabTypes DEF IInv, Types, OnStorageChange
<1>2. /\ events' \in [Tabs -> Seq(Stored)]
      /\ events'[t] = Tail(events[t])
      /\ \A o \in Tabs \ {t} : events'[o] = events[o]
  BY <1>1, HeadTailProperties DEF Types
<1>3. Stored' = Stored /\ Known' = Known
  BY <1>1 DEF Stored, Known, CallRecord
<1>4. CASE view[t] = "login"
  <2>1. /\ view' = view /\ user' = user /\ shown' = shown /\ calls' = calls
        /\ current' = current
    BY <1>4 DEF OnStorageChange, SyncUser, PushLogin
  <2>2. LocalTypes' /\ OthersSame(t)
    BY <1>1, <1>3, <2>1 DEF Types, LocalTypes, OthersSame, Same
  <2> QED
    BY <1>1, <1>2, <1>4, <2>1, <2>2, TabStep DEF Types, IInv, Shows, Waiting
<1>5. CASE view[t] = "shell" /\ Head(events[t]) = NoToken
  <2>1. PushLogin(t, calls[t])
    BY <1>5 DEF OnStorageChange
  <2> QED
    BY <1>1, <1>2, <2>1, LeaveTab, TabStep DEF Types
<1>6. CASE view[t] = "shell" /\ Head(events[t]) # NoToken
  <2>1. /\ SyncUser(t, calls[t], token)
        /\ view' = view /\ user' = user /\ shown' = shown
    BY <1>6 DEF OnStorageChange
  <2>2. Append(calls[t], Call("me", token, NoUser)) \in Seq(Known)
    BY <1>1, CallKnown, AppendProperties DEF Kinds
  <2>3. LocalTypes' /\ OthersSame(t) /\ current'[t] = token
    BY <1>1, <1>3, <2>1, <2>2
       DEF Types, LocalTypes, OthersSame, Same, SyncUser
  <2>4. \/ token # NoToken /\ current'[t] = token
        \/ Tail(events[t]) # <<>> /\ Last(Tail(events[t])) = token
    <3>1. CASE token # NoToken
      BY <2>3, <3>1
    <3>2. CASE token = NoToken
      <4>1. Last(events[t]) = token /\ Head(events[t]) # Last(events[t])
        BY <1>6, <3>2 DEF IInv, Informed
      <4> QED
        BY <1>1, <4>1, LastOfTail
    <3> QED
      BY <3>1, <3>2
  <2> QED
    BY <1>1, <1>2, <1>6, <2>1, <2>3, <2>4, TabStep DEF Types, IInv, Shows
<1> QED
  BY <1>1, <1>4, <1>5, <1>6 DEF Types, LocalTypes

(* Every step keeps the invariant. *)
LEMMA InvStep == IInv /\ [Next]_vars => IInv'
<1> SUFFICES ASSUME IInv, [Next]_vars PROVE IInv'
  OBVIOUS
<1>1. CASE /\ owner' = owner /\ valid' \subseteq valid
           /\ UNCHANGED <<token, view, user, events, calls, current, shown>>
  BY <1>1 DEF IInv, Types, LocalTypes, Waiting, Shows, Informed, Known,
              Detached, CallRecord, Stored
<1>2. CASE \E t \in Tabs : Visit(t) \/ Leave(t) \/ Reload(t)
  BY <1>2, OpenStep
<1>3. CASE \E t \in Tabs :
              \/ \E u \in Users : SubmitLogin(t, u)
              \/ \E kind \in {"logout", "password"} : SubmitInShell(t, kind)
  BY <1>3, SubmitStep
<1>4. CASE \E t \in Tabs : \E i \in DOMAIN calls[t] :
              ServeLogin(t, i) \/ Deliver(t, i)
  BY <1>4, ServeStep, DeliverStep
<1>5. CASE \E t \in Tabs : OnStorageChange(t)
  BY <1>5, EventStep
<1>6. CASE \E k \in Tokens : SessionEnds(k)
  BY <1>1, <1>6 DEF SessionEnds
<1>7. CASE UNCHANGED vars
  BY <1>1, <1>7 DEF vars
<1> QED
  BY <1>2, <1>3, <1>4, <1>5, <1>6, <1>7 DEF Next

(* The invariant always holds. *)
LEMMA InvHolds == Spec => []IInv
BY InvInit, InvStep, PTL DEF Spec

-----------------------------------------------------------------------------
(* What follows for the tabs. *)

(* Variables stay in their types, and a tab of the shell that has not noticed
   that no token is stored has the removal as its last event. *)
THEOREM NobodyLeftBehind == Spec => []TabsInv
<1>1. IInv => TabsInv
  <2> SUFFICES ASSUME IInv PROVE TabsInv
    OBVIOUS
  <2>1. Types
    BY DEF IInv
  <2>2. LeftEverywhere
    BY DEF IInv, Informed, LeftEverywhere
  <2>3. ASSUME NEW t \in Tabs, NEW i \in DOMAIN calls[t]
        PROVE  /\ calls[t][i].kind \in Kinds
               /\ calls[t][i].token \in 0..Len(owner)
               /\ calls[t][i].user \in Users \cup {NoUser}
               /\ calls[t][i].accepted => calls[t][i].token # NoToken
    BY <2>1, <2>3, TabTypes DEF Known, CallRecord, Stored
  <2>4. ASSUME NEW t \in Tabs, NEW i \in DOMAIN events[t]
        PROVE  events[t][i] \in 0..Len(owner)
    BY <2>1, <2>4, ElementOfSeq, LenProperties DEF Types, Stored
  <2> QED
    BY <2>1, <2>2, <2>3, <2>4 DEF Types, LocalTypes, TypeOK, TabsInv, Stored
<1> QED
  BY <1>1, InvHolds, PTL

(* A tab of the shell that has heard of everything, and whose last answer was
   to its last question, shows the owner of the stored token. *)
THEOREM OwnerShown == Spec => []ShowsOwner
<1>1. IInv => ShowsOwner
  BY DEF IInv, Informed, Shows, ShowsOwner, Settled
<1> QED
  BY <1>1, InvHolds, PTL

=============================================================================
