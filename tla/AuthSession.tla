----------------------------- MODULE AuthSession -----------------------------
(***************************************************************************)
(* Who is signed in: Firebase Auth, AuthService                            *)
(* (lib/services/auth_service.dart), AuthProvider                          *)
(* (lib/providers/auth_provider.dart) and the screens that call them.      *)
(*                                                                         *)
(* Several activities run _getUserData at once: the provider's listener,   *)
(* one event of authStateChanges at a time; the login and registration     *)
(* screens, each with an AuthService of its own; and the profile calls of  *)
(* the provider.  An action is what one of them does between two awaits.   *)
(* The provider's own sign-in methods have no caller and are left out.     *)
(***************************************************************************)
EXTENDS Naturals, Sequences

CONSTANTS
  Users,    \* uids
  Logins,   \* sign-ins and registrations on the login and register screens
  Calls,    \* calls of the provider: profile, logout, deleteAccount
  Listener, \* the subscription of AuthProvider
  None      \* null

Procs == Logins \cup Calls \cup {Listener}

(* A document as far as it matters: the account its data come from, and
   whether its displayName is the one the user chose. *)
Document == [of : Users, chosen : BOOLEAN]

ASSUME ConstantsAssumption ==
  /\ None \notin Users \cup Procs \cup Document
  /\ Logins \cap Calls = {}
  /\ Listener \notin Logins \cup Calls

VARIABLES
  accounts,  \* per uid: "none" yet, "open" or, once deleted, "closed"
  named,     \* accounts whose displayName in Firebase Auth the user chose
  fbUser,    \* _auth.currentUser, a uid or None
  docs,      \* documents of `users`; None where there is none
  events,    \* events of authStateChanges not yet taken up by asyncMap
  status,    \* AuthProvider._authState.status
  user,      \* uid of AuthProvider._authState.user, or None
  screen,    \* route on top: "home", the "register" screen, or an "account" page
  form,      \* the call the visible sign-in form was submitted by, or None
  pc,        \* the await each activity is suspended at
  uid,       \* the uid it works for
  whose      \* refreshedUser: the account _syncEmailVerificationState read

sessionVars  == <<accounts, named, fbUser, events>>
providerVars == <<status, user, form>>
procVars     == <<pc, uid, whose>>
vars == <<sessionVars, docs, providerVars, screen, procVars>>

AsChosen(u) == [of |-> u, chosen |-> TRUE]

(* displayName of Firebase Auth is the Google name or, for want of one, the
   first part of the address, until updateProfile sets it. *)
FromAccount(u) == [of |-> u, chosen |-> u \in named]

Fetching == {"reload", "check", "write", "read", "make"}
Entering == {"asking", "joining", "set", "lookup", "create"}
Editing  == {"rename", "retitle", "update"}
Leaving  == {"sweep", "erase", "leave"}
Ended    == {"done", "signedIn", "registered", "left"}

TypeOK ==
  /\ accounts \in [Users -> {"none", "open", "closed"}]
  /\ named \in SUBSET Users
  /\ fbUser \in Users \cup {None}
  /\ docs \in [Users -> Document \cup {None}]
  /\ events \in Seq(Users \cup {None})
  /\ status \in {"initial", "authenticated", "unauthenticated", "error"}
  /\ user \in Users \cup {None}
  /\ screen \in {"home", "register", "account"}
  /\ form \in Logins \cup {None}
  /\ pc \in [Procs -> {"idle"} \cup Fetching \cup Entering \cup Editing \cup Leaving \cup Ended]
  /\ uid \in [Procs -> Users \cup {None}]
  /\ whose \in [Procs -> Users \cup {None}]

(* The app starts with the session Firebase has kept, and authStateChanges
   reports it at once. *)
Init ==
  /\ accounts \in [Users -> {"none", "open"}]
  /\ named = {}
  /\ fbUser \in {u \in Users : accounts[u] = "open"} \cup {None}
  /\ docs = [u \in Users |-> IF accounts[u] = "open" THEN AsChosen(u) ELSE None]
  /\ events = <<fbUser>>
  /\ status = "initial"
  /\ user = None
  /\ screen = "home"
  /\ form = None
  /\ pc = [p \in Procs |-> "idle"]
  /\ uid = [p \in Procs |-> None]
  /\ whose = [p \in Procs |-> None]

-----------------------------------------------------------------------------
(* Helpers: moving one activity, and the session. *)

Goto(p, s) == pc' = [pc EXCEPT ![p] = s]
For(p, u)  == uid' = [uid EXCEPT ![p] = u]

(* _getUserData(u) is called: it synchronises only for the current user. *)
Fetch(p, u, current) ==
  /\ Goto(p, IF current = u THEN "reload" ELSE "read")
  /\ For(p, u)

(* Firebase reports a change of user, not a second sign-in of the same. *)
Switch(u) ==
  /\ fbUser' = u
  /\ events' = IF u = fbUser THEN events ELSE Append(events, u)

-----------------------------------------------------------------------------
(* _getUserData and _syncEmailVerificationState. *)

(* reload() has returned: refreshedUser is whoever is signed in by now. *)
Reload(p) ==
  /\ pc[p] = "reload"
  /\ whose' = [whose EXCEPT ![p] = fbUser]
  /\ Goto(p, IF fbUser = None THEN "read" ELSE "check")
  /\ UNCHANGED <<sessionVars, docs, providerVars, screen, uid>>

(* Whether the document exists; isEmailVerified is not modelled. *)
Check(p) ==
  /\ pc[p] = "check"
  /\ Goto(p, IF docs[uid[p]] = None THEN "write" ELSE "read")
  /\ UNCHANGED <<sessionVars, docs, providerVars, screen, uid, whose>>

(* The document that was missing is set, whatever has been set meanwhile. *)
Write(p) ==
  /\ pc[p] = "write"
  /\ docs' = [docs EXCEPT ![uid[p]] = FromAccount(whose[p])]
  /\ Goto(p, "read")
  /\ UNCHANGED <<sessionVars, providerVars, screen, uid, whose>>

(* The listener reports the sign-in, and home becomes the map screen, which
   disposes of the login screen ... *)
ListenerDelivers ==
  /\ status' = "authenticated"
  /\ user' = uid[Listener]
  /\ form' = IF screen = "home" THEN None ELSE form
  /\ Goto(Listener, "idle")

(* ... a profile call copies the user into the state as it is now, and a login
   only returns it to its screen. *)
Deliver(p) ==
  \/ p = Listener /\ ListenerDelivers
  \/ p \in Calls /\ user' = uid[p] /\ Goto(p, "done") /\ UNCHANGED <<status, form>>
  \/ p \in Logins /\ Goto(p, "signedIn") /\ UNCHANGED providerVars

(* Mutant: nothing catches the exception of the listener's fetch. *)
ThrowUncaught(p) == Goto(p, "done") /\ UNCHANGED providerVars

(* Mutant: what Firebase Auth knows of the user is shown instead. *)
ThrowGuessed(p) ==
  IF p = Listener
  THEN status' = "authenticated" /\ user' = uid[p] /\ Goto(p, "idle") /\ UNCHANGED form
  ELSE Goto(p, "done") /\ UNCHANGED providerVars

(* And with an exception. *)
Throw(p) ==
  IF p = Listener
  THEN status' = "error" /\ user' = None /\ Goto(p, "idle") /\ UNCHANGED form
  ELSE Goto(p, "done") /\ UNCHANGED providerVars

(* The document is read; without one it is made for the current user only. *)
Read(p) ==
  /\ pc[p] = "read"
  /\ \/ docs[uid[p]] # None /\ Deliver(p)
     \/ docs[uid[p]] = None /\ fbUser = uid[p] /\ Goto(p, "make") /\ UNCHANGED providerVars
     \/ docs[uid[p]] = None /\ fbUser # uid[p] /\ Throw(p)
  /\ UNCHANGED <<sessionVars, docs, screen, uid, whose>>

Make(p) ==
  /\ pc[p] = "make"
  /\ docs' = [docs EXCEPT ![uid[p]] = FromAccount(uid[p])]
  /\ Deliver(p)
  /\ UNCHANGED <<sessionVars, screen, uid, whose>>

(* Any of these awaits may throw. *)
FetchFails(p) ==
  /\ pc[p] \in Fetching
  /\ Throw(p)
  /\ UNCHANGED <<sessionVars, docs, screen, uid, whose>>

-----------------------------------------------------------------------------
(* Mutant: an event is taken up before the last one is done. *)
TakeEventAtOnce ==
  /\ events # <<>>
  /\ events' = Tail(events)
  /\ IF Head(events) = None
     THEN status' = "unauthenticated" /\ user' = None /\ UNCHANGED <<pc, uid>>
     ELSE Fetch(Listener, Head(events), fbUser) /\ UNCHANGED <<status, user>>
  /\ UNCHANGED <<accounts, named, fbUser, docs, form, screen, whose>>

(* The listener: asyncMap takes up an event when the last one is done. *)
TakeEvent ==
  /\ pc[Listener] = "idle"
  /\ events # <<>>
  /\ events' = Tail(events)
  /\ IF Head(events) = None
     THEN status' = "unauthenticated" /\ user' = None /\ UNCHANGED <<pc, uid>>
     ELSE Fetch(Listener, Head(events), fbUser) /\ UNCHANGED <<status, user>>
  /\ UNCHANGED <<accounts, named, fbUser, docs, form, screen, whose>>

-----------------------------------------------------------------------------
(* The login and register screens. *)

(* The form on the screen shows a spinner and is disabled. *)
Waiting == form # None /\ pc[form] \notin Ended

(* The login screen is home until the provider is authenticated; the register
   screen is pushed on it and leaves with the back arrow only. *)
OpenRegister ==
  /\ screen = "home"
  /\ status # "authenticated"
  /\ ~Waiting
  /\ screen' = "register"
  /\ form' = None
  /\ UNCHANGED <<sessionVars, docs, status, user, procVars>>

Back ==
  /\ screen # "home"
  /\ screen' = "home"
  /\ form' = None
  /\ UNCHANGED <<sessionVars, docs, status, user, procVars>>

Press(c) ==
  /\ screen = "register" \/ (screen = "home" /\ status # "authenticated")
  /\ ~Waiting
  /\ pc[c] = "idle"
  /\ Goto(c, IF screen = "register" THEN "joining" ELSE "asking")
  /\ form' = c
  /\ UNCHANGED <<sessionVars, docs, status, user, screen, uid, whose>>

(* signInWithEmailAndPassword. *)
SignIn(c, u) ==
  /\ pc[c] = "asking"
  /\ accounts[u] = "open"
  /\ Switch(u)
  /\ Fetch(c, u, u)
  /\ UNCHANGED <<accounts, named, docs, providerVars, screen, whose>>

(* registerWithEmailAndPassword: the account, ... *)
Register(c, u) ==
  /\ pc[c] = "joining"
  /\ accounts[u] = "none"
  /\ accounts' = [accounts EXCEPT ![u] = "open"]
  /\ Switch(u)
  /\ Goto(c, "set")
  /\ For(c, u)
  /\ UNCHANGED <<named, docs, providerVars, screen, whose>>

(* ... and its document, with the name typed in. *)
RegisterSet(c) ==
  /\ pc[c] = "set"
  /\ docs' = [docs EXCEPT ![uid[c]] = AsChosen(uid[c])]
  /\ Goto(c, "registered")
  /\ UNCHANGED <<sessionVars, providerVars, screen, uid, whose>>

(* signInWithGoogle: the account, ... *)
GoogleSignIn(c, u) ==
  /\ pc[c] = "asking"
  /\ accounts[u] # "closed"
  /\ accounts' = [accounts EXCEPT ![u] = "open"]
  /\ Switch(u)
  /\ Goto(c, "lookup")
  /\ For(c, u)
  /\ UNCHANGED <<named, docs, providerVars, screen, whose>>

(* ... whether it has a document, ... *)
GoogleLookup(c) ==
  /\ pc[c] = "lookup"
  /\ Goto(c, IF docs[uid[c]] = None THEN "create" ELSE "signedIn")
  /\ UNCHANGED <<sessionVars, docs, providerVars, screen, uid, whose>>

(* ... and if it had none, a new one. *)
GoogleCreate(c) ==
  /\ pc[c] = "create"
  /\ docs' = [docs EXCEPT ![uid[c]] = FromAccount(uid[c])]
  /\ Goto(c, "signedIn")
  /\ UNCHANGED <<sessionVars, providerVars, screen, uid, whose>>

(* Wrong password, no network: the screen shows the message. *)
LoginFails(c) ==
  /\ pc[c] \in Entering
  /\ Goto(c, "done")
  /\ UNCHANGED <<sessionVars, docs, providerVars, screen, uid, whose>>

-----------------------------------------------------------------------------
(* Calls of the provider, from the map screen's drawer or a page opened there. *)

OpenAccount ==
  /\ screen = "home"
  /\ status = "authenticated"
  /\ screen' = "account"
  /\ UNCHANGED <<sessionVars, docs, providerVars, procVars>>

(* A call begins on an account page: for the current user, or not at all. *)
Begins(c) ==
  /\ screen = "account"
  /\ pc[c] = "idle"
  /\ fbUser # None
  /\ UNCHANGED <<sessionVars, docs, providerVars, screen, whose>>

(* refreshUserData. *)
Refresh(c) ==
  /\ Begins(c)
  /\ Fetch(c, fbUser, fbUser)

(* updateProfile, with a new name or with a photo or a number only. *)
UpdateProfile(c) ==
  /\ Begins(c)
  /\ \E s \in {"rename", "update"} : Goto(c, s)
  /\ For(c, fbUser)

(* updateDisplayName, of the user who is still signed in. *)
Rename(c) ==
  /\ pc[c] = "rename"
  /\ fbUser = uid[c]
  /\ named' = named \cup {uid[c]}
  /\ Goto(c, "retitle")
  /\ UNCHANGED <<accounts, fbUser, events, docs, providerVars, screen, uid, whose>>

(* update() needs the document; then the data of the current user, whoever
   that is by now, are fetched. *)
Update(c) ==
  /\ pc[c] \in {"retitle", "update"}
  /\ docs[uid[c]] # None
  /\ docs' = [docs EXCEPT ![uid[c]].chosen = @ \/ pc[c] = "retitle"]
  /\ IF fbUser = None
     THEN Goto(c, "done") /\ UNCHANGED uid
     ELSE Fetch(c, fbUser, fbUser)
  /\ UNCHANGED <<sessionVars, providerVars, screen, whose>>

EditFails(c) ==
  /\ pc[c] \in Editing
  /\ Goto(c, "done")
  /\ UNCHANGED <<sessionVars, docs, providerVars, screen, uid, whose>>

(* deleteAccount, as far as it concerns the session: ... *)
DeleteAccount(c) ==
  /\ Begins(c)
  /\ Goto(c, "sweep")
  /\ For(c, fbUser)

(* ... the user's document, whose deletion may fail unnoticed, ... *)
Sweep(c) ==
  /\ pc[c] = "sweep"
  /\ \E d \in {None, docs[uid[c]]} : docs' = [docs EXCEPT ![uid[c]] = d]
  /\ Goto(c, "erase")
  /\ UNCHANGED <<sessionVars, providerVars, screen, uid, whose>>

(* ... the account, ... *)
Erase(c) ==
  /\ pc[c] = "erase"
  /\ fbUser = uid[c]
  /\ accounts' = [accounts EXCEPT ![uid[c]] = "closed"]
  /\ Switch(None)
  /\ Goto(c, "leave")
  /\ UNCHANGED <<named, docs, providerVars, screen, uid, whose>>

(* ... unless Firebase asks for a fresh login. *)
EraseFails(c) ==
  /\ pc[c] = "erase"
  /\ Goto(c, "left")
  /\ UNCHANGED <<sessionVars, docs, providerVars, screen, uid, whose>>

(* Logout in the drawer. *)
Logout(c) ==
  /\ screen = "home"
  /\ status = "authenticated"
  /\ pc[c] = "idle"
  /\ Goto(c, "leave")
  /\ UNCHANGED <<sessionVars, docs, providerVars, screen, uid, whose>>

(* After Google's sign-out, _auth.signOut() signs out whoever is signed in. *)
Leave(c) ==
  /\ pc[c] = "leave"
  /\ Switch(None)
  /\ Goto(c, "left")
  /\ UNCHANGED <<accounts, named, docs, providerVars, screen, uid, whose>>

(* signOut fails with Google's sign-out; deleteAccount carries on. *)
LeaveFails(c) ==
  /\ pc[c] = "leave"
  /\ Goto(c, "left")
  /\ UNCHANGED <<sessionVars, docs, providerVars, screen, uid, whose>>

-----------------------------------------------------------------------------
FetchStep(p) ==
  \/ Reload(p)
  \/ Check(p)
  \/ Write(p)
  \/ Read(p)
  \/ Make(p)
  \/ FetchFails(p)

LoginStep(c) ==
  \/ Press(c)
  \/ \E u \in Users : SignIn(c, u) \/ Register(c, u) \/ GoogleSignIn(c, u)
  \/ RegisterSet(c)
  \/ GoogleLookup(c)
  \/ GoogleCreate(c)
  \/ LoginFails(c)

ProviderStep(c) ==
  \/ Refresh(c)
  \/ UpdateProfile(c)
  \/ Rename(c)
  \/ Update(c)
  \/ EditFails(c)
  \/ DeleteAccount(c)
  \/ Sweep(c)
  \/ Erase(c)
  \/ EraseFails(c)
  \/ Logout(c)
  \/ Leave(c)
  \/ LeaveFails(c)

Next ==
  \/ \E p \in Procs : FetchStep(p)
  \/ TakeEvent
  \/ OpenRegister
  \/ OpenAccount
  \/ Back
  \/ \E c \in Logins : LoginStep(c)
  \/ \E c \in Calls : ProviderStep(c)

Spec == Init /\ [][Next]_vars

(* Firebase answers the listener, with a result or an exception. *)
FairSpec == Spec /\ WF_vars(TakeEvent) /\ WF_vars(FetchStep(Listener))

-----------------------------------------------------------------------------
(* Properties. *)

(* Every reported change of the session has been handled. *)
Settled == events = <<>> /\ pc[Listener] = "idle"

(* Once the listener has caught up, the screen the provider selects is that
   of the session, however long each event took: signed in means that there
   is a current user, signed out that there is none. *)
StatusFollowsSession ==
  Settled => /\ status = "authenticated" => fbUser # None
             /\ status = "unauthenticated" => fbUser = None

(* deleteAccount was asked for u, and may have removed its document. *)
Doomed(u) == \E c \in Calls : uid[c] = u /\ pc[c] \in {"erase", "leave", "left"}

(* The user the app shows as signed in has a document in `users`, which every
   screen reads and update() needs, unless a deletion of the account took it. *)
ShownUserHasDocument ==
  status = "authenticated" => user # None /\ (docs[user] # None \/ Doomed(user))

(* A user who has signed out for good is shown the login screen for good: no
   slow answer for an earlier sign-in brings the map back. *)
SignOutIsShown == <>[](fbUser = None) => <>[](status # "authenticated")
=============================================================================
