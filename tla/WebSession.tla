----------------------------- MODULE WebSession -----------------------------
(***************************************************************************)
(* The session as the web client sees it (web/src: auth/session.js,        *)
(* api/client.js, router/index.js, AppShell, LoginView and                 *)
(* ChangePasswordView).                                                    *)
(*                                                                         *)
(* The token is in localStorage, which all tabs share; the user a tab      *)
(* shows is its own copy of an answer to /me.  When another tab changes    *)
(* the token the browser sends a storage event, in order; answers arrive   *)
(* in any order, also after the component that asked is gone.  The back    *)
(* end is reduced to which tokens it accepts; requests that touch neither  *)
(* token nor user are left out.                                            *)
(***************************************************************************)
EXTENDS Integers, Sequences, SequencesExt

CONSTANTS
    Tabs,
    Users,
    NoUser,
    MaxTokens,  \* logins that succeed
    MaxCalls    \* calls of a tab in progress at most, once a form is sent
                \* (not counting logins before a further one)

ASSUME UsersAssumption == NoUser \notin Users
ASSUME BoundsAssumption == MaxTokens \in Nat /\ MaxCalls \in Nat \ {0}

VARIABLES
    token,   \* auth.token in localStorage, NoToken when it is not there
    owner,   \* whose each issued token is
    valid,   \* tokens the back end accepts
    view,    \* "login" or "shell" (any page within AppShell)
    user,    \* the user AppShell shows
    events,  \* storage events on their way to each tab
    calls,   \* requests of each tab, in the order they were sent
    current, \* the token that a tab asked /me for, or stored, last
    shown    \* the token with which it got the answer that it shows

vars == <<token, owner, valid, view, user, events, calls, current, shown>>

(* current and shown are not in the code; the properties compare them. *)

NoToken == 0
Tokens == 1..MaxTokens
Kinds == {"me", "login", "logout", "password"}

(* A request carries the token that is stored when it is sent.  accepted: the
   back end accepts that token then.  A token once refused stays refused, so
   this settles whether the request can succeed.  live: the component that
   asked is still mounted.  user: who logs in. *)
Call(kind, k, u) ==
    [kind |-> kind, token |-> k, accepted |-> k \in valid, user |-> u,
     live |-> TRUE]

Init ==
    /\ token = NoToken
    /\ owner = <<>>
    /\ valid = {}
    /\ view = [t \in Tabs |-> "login"]
    /\ user = [t \in Tabs |-> NoUser]
    /\ events = [t \in Tabs |-> <<>>]
    /\ calls = [t \in Tabs |-> <<>>]
    /\ current = [t \in Tabs |-> NoToken]
    /\ shown = [t \in Tabs |-> NoToken]

-----------------------------------------------------------------------------

(* localStorage.setItem or removeItem by tab t: the others get an event when
   the value changes. *)
Store(t, value) ==
    /\ token' = value
    /\ events' = [o \in Tabs |-> IF o # t /\ value # token
                                 THEN Append(events[o], value) ELSE events[o]]

(* Calls whose component is gone. *)
Orphaned(cs) == [i \in DOMAIN cs |-> [cs[i] EXCEPT !.live = FALSE]]

(* router.push('/login'): AppShell, if it is there, is unmounted. *)
PushLogin(t, cs) ==
    /\ view' = [view EXCEPT ![t] = "login"]
    /\ calls' = [calls EXCEPT ![t] = Orphaned(cs)]
    /\ user' = [user EXCEPT ![t] = NoUser]
    /\ shown' = [shown EXCEPT ![t] = NoToken]
    /\ current' = [current EXCEPT ![t] = NoToken]

(* syncUser asks for the user of the token k; cs are the other calls. *)
SyncUser(t, cs, k) ==
    /\ calls' = [calls EXCEPT ![t] = Append(cs, Call("me", k, NoUser))]
    /\ current' = [current EXCEPT ![t] = k]

(* A new AppShell is mounted: no user yet, and syncUser.  LoginView, or the
   AppShell before it, is gone. *)
Mount(t, cs, k) ==
    /\ view' = [view EXCEPT ![t] = "shell"]
    /\ user' = [user EXCEPT ![t] = NoUser]
    /\ shown' = [shown EXCEPT ![t] = NoToken]
    /\ SyncUser(t, Orphaned(cs), k)

(* The user goes to a page of the shell through the history; beforeEach lets
   nobody in without a token. *)
Visit(t) ==
    /\ view[t] = "login"
    /\ token # NoToken
    /\ Len(calls[t]) <= MaxCalls
    /\ Mount(t, calls[t], token)
    /\ UNCHANGED <<token, owner, valid, events>>

(* The user goes to /login through the history, which beforeEach allows, or
   on to another page of the shell when the token is gone.  Nothing stored
   changes. *)
Leave(t) ==
    /\ view[t] = "shell"
    /\ PushLogin(t, calls[t])
    /\ UNCHANGED <<token, owner, valid, events>>

(* The page is loaded anew; what the old one waited for is forgotten. *)
Reload(t) ==
    /\ events' = [events EXCEPT ![t] = <<>>]
    /\ IF view[t] = "login" \/ token = NoToken
       THEN PushLogin(t, <<>>)
       ELSE Mount(t, <<>>, token)
    /\ UNCHANGED <<token, owner, valid>>

(* onSubmit of LoginView.  The button is disabled while the form waits; a
   LoginView that is mounted anew has a form of its own.  (The bound is on the
   other calls.) *)
SubmitLogin(t, u) ==
    /\ view[t] = "login"
    /\ \A i \in DOMAIN calls[t] :
           ~(calls[t][i].kind = "login" /\ calls[t][i].live)
    /\ Len(SelectSeq(calls[t], LAMBDA c : c.kind # "login")) < MaxCalls
    /\ calls' = [calls EXCEPT ![t] = Append(@, Call("login", NoToken, u))]
    /\ UNCHANGED <<token, owner, valid, view, user, events, current, shown>>

(* onLogout, or onSubmit of ChangePasswordView. *)
SubmitInShell(t, kind) ==
    /\ view[t] = "shell"
    /\ Len(calls[t]) < MaxCalls
    /\ calls' = [calls EXCEPT ![t] = Append(@, Call(kind, token, NoUser))]
    /\ UNCHANGED <<token, owner, valid, view, user, events, current, shown>>

-----------------------------------------------------------------------------
(* The back end. *)

(* login: a new token, the user's earlier one is no longer accepted. *)
ServeLogin(t, i) ==
    LET c == calls[t][i] IN
    /\ c.kind = "login" /\ c.token = NoToken
    /\ Len(owner) < MaxTokens
    /\ owner' = Append(owner, c.user)
    /\ valid' = {k \in valid : owner[k] # c.user} \cup {Len(owner')}
    /\ calls' = [calls EXCEPT ![t][i].token = Len(owner')]
    /\ UNCHANGED <<token, view, user, events, current, shown>>

(* A session ends: it expires, its account is deleted, /logout or
   /me/password is served. *)
SessionEnds(k) ==
    /\ k \in valid
    /\ valid' = valid \ {k}
    /\ UNCHANGED <<token, owner, view, user, events, calls, current, shown>>

-----------------------------------------------------------------------------
(* Answers and events reach the tab.  Any request may end in an error: the
   token is not accepted, the password is wrong, the connection breaks. *)

Rest(t, i) == RemoveAt(calls[t], i)

(* setSession and router.push('/dashboard'): a new AppShell, unless the tab
   has one already. *)
LoginDone(t, i) ==
    LET c == calls[t][i] IN
    /\ c.kind = "login" /\ c.token # NoToken
    /\ Store(t, c.token)
    /\ IF view[t] = "login"
       THEN Mount(t, Rest(t, i), c.token)
       ELSE /\ calls' = [calls EXCEPT ![t] = Rest(t, i)]
            /\ current' = [current EXCEPT ![t] = c.token]
            /\ UNCHANGED <<view, user, shown>>
    /\ UNCHANGED <<owner, valid>>

(* user.value = await request('/me') *)
MeDone(t, i) ==
    LET c == calls[t][i] IN
    /\ c.kind = "me" /\ c.accepted
    /\ user' = IF c.live THEN [user EXCEPT ![t] = owner[c.token]] ELSE user
    /\ shown' = IF c.live THEN [shown EXCEPT ![t] = c.token] ELSE shown
    /\ calls' = [calls EXCEPT ![t] = Rest(t, i)]
    /\ UNCHANGED <<token, owner, valid, view, events, current>>

(* clearSession and router.push('/login'): /me failed, whichever token it was
   asked for and whatever the tab shows by now; or /logout came back, either
   way; or the password was changed, which ended the session. *)
SessionLeft(t, i) ==
    LET c == calls[t][i] IN
    /\ \/ c.kind \in {"me", "logout"} /\ UNCHANGED valid
       \/ c.kind = "password" /\ c.accepted /\ valid' = valid \ {c.token}
    /\ Store(t, NoToken)
    /\ PushLogin(t, Rest(t, i))
    /\ UNCHANGED owner

(* The form shows the error. *)
FormError(t, i) ==
    /\ calls[t][i].kind \in {"login", "password"}
    /\ calls' = [calls EXCEPT ![t] = Rest(t, i)]
    /\ UNCHANGED <<token, owner, valid, view, user, events, current, shown>>

Deliver(t, i) ==
    LoginDone(t, i) \/ MeDone(t, i) \/ SessionLeft(t, i) \/ FormError(t, i)

(* Fault variant: only the removal of the token is looked at. *)
OnStorageRemoval(t) ==
    /\ events[t] # <<>>
    /\ events' = [events EXCEPT ![t] = Tail(@)]
    /\ IF view[t] = "shell" /\ Head(events[t]) = NoToken
       THEN PushLogin(t, calls[t])
       ELSE UNCHANGED <<view, user, shown, calls, current>>
    /\ UNCHANGED <<token, owner, valid>>

(* Fault variant: the removal of the token is not looked at. *)
OnStorageNewToken(t) ==
    /\ events[t] # <<>>
    /\ events' = [events EXCEPT ![t] = Tail(@)]
    /\ IF view[t] = "shell" /\ Head(events[t]) # NoToken
       THEN SyncUser(t, calls[t], token)
       ELSE UNCHANGED <<calls, current>>
    /\ UNCHANGED <<token, owner, valid, view, user, shown>>

(* onStorageChange, which only AppShell listens with.  It looks at the value
   the event came with; syncUser then sends the token that is there by now. *)
OnStorageChange(t) ==
    /\ events[t] # <<>>
    /\ events' = [events EXCEPT ![t] = Tail(@)]
    /\ \/ /\ view[t] = "login"
          /\ UNCHANGED <<view, user, shown, calls, current>>
       \/ /\ view[t] = "shell" /\ Head(events[t]) = NoToken
          /\ PushLogin(t, calls[t])
       \/ /\ view[t] = "shell" /\ Head(events[t]) # NoToken
          /\ SyncUser(t, calls[t], token)
          /\ UNCHANGED <<view, user, shown>>
    /\ UNCHANGED <<token, owner, valid>>

Next ==
    \/ \E t \in Tabs :
          \/ Visit(t) \/ Leave(t) \/ Reload(t)
          \/ \E u \in Users : SubmitLogin(t, u)
          \/ \E kind \in {"logout", "password"} : SubmitInShell(t, kind)
          \/ \E i \in DOMAIN calls[t] : ServeLogin(t, i) \/ Deliver(t, i)
          \/ OnStorageChange(t)
    \/ \E k \in Tokens : SessionEnds(k)

Spec == Init /\ [][Next]_vars

-----------------------------------------------------------------------------

TypeOK ==
    /\ token \in 0..Len(owner)
    /\ owner \in Seq(Users) /\ Len(owner) <= MaxTokens
    /\ valid \subseteq 1..Len(owner)
    /\ view \in [Tabs -> {"login", "shell"}]
    /\ \A t \in Tabs :
          /\ user[t] \in Users \cup {NoUser}
          /\ view[t] = "login" => user[t] = NoUser
          /\ current[t] \in 0..Len(owner) /\ shown[t] \in 0..Len(owner)
          /\ \A i \in DOMAIN events[t] : events[t][i] \in 0..Len(owner)
          /\ \A i \in DOMAIN calls[t] :
                /\ calls[t][i].kind \in Kinds
                /\ calls[t][i].token \in 0..Len(owner)
                /\ calls[t][i].user \in Users \cup {NoUser}
                /\ calls[t][i].accepted => calls[t][i].token # NoToken

(* The tab has heard of everything. *)
Settled(t) == events[t] = <<>> /\ calls[t] = <<>>

(* No change of the token by another tab is missed: once all events and
   answers have arrived, a tab of the shell shows the user whose token is
   stored, the one with which its next request is made, provided that the
   answer to its last /me is the last that arrived. *)
ShowsOwner ==
    \A t \in Tabs :
        Settled(t) /\ view[t] = "shell" /\ shown[t] = current[t]
            => token # NoToken /\ user[t] = owner[token]

(* Nobody is left behind in the shell: when no token is stored, a tab that
   still shows a page of the shell has its removal as the last event on its
   way, whoever logged in or out in between. *)
LeftEverywhere ==
    token = NoToken =>
        \A t \in Tabs : view[t] = "shell" =>
            events[t] # <<>> /\ Last(events[t]) = NoToken

(* Types, and nobody left behind. *)
TabsInv == TypeOK /\ LeftEverywhere

=============================================================================
