--------------------------- MODULE AuthProofs ---------------------------
(***************************************************************************)
(* Proofs about AuthSession: its type invariant, that the provider's       *)
(* status follows the session and that the user it shows has a document,   *)
(* for any users and calls.                                                *)
(***************************************************************************)
EXTENDS AuthSession, TLAPS

(* What is known of an activity at each await. *)
Working ==
  \A p \in Procs :
    /\ pc[p] \in Fetching \cup Editing \cup {"set", "lookup", "create", "sweep", "erase"}
         => uid[p] \in Users
    /\ pc[p] \in {"check", "write"} => whose[p] \in Users
    /\ pc[p] \in Entering \cup {"signedIn", "registered"} => p \in Logins
    /\ pc[p] \in Editing \cup Leaving \cup {"left"} => p \in Calls
    /\ p = Listener => pc[p] \in {"idle"} \cup Fetching

(* The last event that is not done with, whether it waits in the queue or the
   listener is fetching for it, is the session itself. *)
Tracked ==
  /\ events # <<>> => events[Len(events)] = fbUser
  /\ events = <<>> /\ pc[Listener] # "idle" => fbUser = uid[Listener]

(* The user shown is a user, and no document of his is missing by accident. *)
Kept ==
  status = "authenticated" => user \in Users /\ (docs[user] # None \/ Doomed(user))

Inv1 == TypeOK /\ Working

(* Every step keeps the types and what is known at each await. *)
LEMMA Inductive1 == Spec => []Inv1
<1> USE DEF Inv1, TypeOK, Working, Procs, Document, Fetching, Entering, Editing, Leaving,
            Ended, Goto, sessionVars, providerVars, procVars
<1>1. Init => Inv1
  BY ConstantsAssumption DEF Init, AsChosen
<1>2. ASSUME Inv1, [Next]_vars
      PROVE  Inv1'
  <2>1. ASSUME NEW p \in Procs, Reload(p) PROVE Inv1'
    BY ConstantsAssumption, <1>2, <2>1 DEF Reload
  <2>2. ASSUME NEW p \in Procs, Check(p) PROVE Inv1'
    BY ConstantsAssumption, <1>2, <2>2 DEF Check
  <2>3. ASSUME NEW p \in Procs, Write(p) PROVE Inv1'
    BY ConstantsAssumption, <1>2, <2>3 DEF Write, FromAccount
  <2>4. ASSUME NEW p \in Procs, Read(p) PROVE Inv1'
    <3>1. CASE docs[uid[p]] # None /\ p = Listener
      BY ConstantsAssumption, <1>2, <2>4, <3>1 DEF Read, Deliver, ListenerDelivers
    <3>2. CASE docs[uid[p]] # None /\ p \in Calls
      BY ConstantsAssumption, <1>2, <2>4, <3>2 DEF Read, Deliver
    <3>3. CASE docs[uid[p]] # None /\ p \in Logins
      BY ConstantsAssumption, <1>2, <2>4, <3>3 DEF Read, Deliver
    <3>4. CASE docs[uid[p]] = None /\ fbUser = uid[p]
      BY ConstantsAssumption, <1>2, <2>4, <3>4 DEF Read
    <3>5. CASE docs[uid[p]] = None /\ fbUser # uid[p]
      BY ConstantsAssumption, <1>2, <2>4, <3>5 DEF Read, Throw
    <3> QED BY <3>1, <3>2, <3>3, <3>4, <3>5
  <2>5. ASSUME NEW p \in Procs, Make(p) PROVE Inv1'
    <3>1. FromAccount(uid[p]) \in Document
      BY <1>2, <2>5 DEF Make, FromAccount
    <3>2. CASE p = Listener
      BY ConstantsAssumption, <1>2, <2>5, <3>1, <3>2 DEF Make, Deliver, ListenerDelivers
    <3>3. CASE p \in Calls
      BY ConstantsAssumption, <1>2, <2>5, <3>1, <3>3 DEF Make, Deliver
    <3>4. CASE p \in Logins
      BY ConstantsAssumption, <1>2, <2>5, <3>1, <3>4 DEF Make, Deliver
    <3> QED BY <3>2, <3>3, <3>4
  <2>6. ASSUME NEW p \in Procs, FetchFails(p) PROVE Inv1'
    BY ConstantsAssumption, <1>2, <2>6 DEF FetchFails, Throw
  <2>7. ASSUME TakeEvent PROVE Inv1'
    BY ConstantsAssumption, <1>2, <2>7 DEF TakeEvent, Fetch, For
  <2>8. ASSUME OpenRegister PROVE Inv1'
    BY ConstantsAssumption, <1>2, <2>8 DEF OpenRegister
  <2>9. ASSUME OpenAccount PROVE Inv1'
    BY ConstantsAssumption, <1>2, <2>9 DEF OpenAccount
  <2>10. ASSUME Back PROVE Inv1'
    BY ConstantsAssumption, <1>2, <2>10 DEF Back
  <2>11. ASSUME NEW c \in Logins, Press(c) PROVE Inv1'
    BY ConstantsAssumption, <1>2, <2>11 DEF Press
  <2>12. ASSUME NEW c \in Logins, RegisterSet(c) PROVE Inv1'
    BY ConstantsAssumption, <1>2, <2>12 DEF RegisterSet, AsChosen
  <2>13. ASSUME NEW c \in Logins, GoogleLookup(c) PROVE Inv1'
    BY ConstantsAssumption, <1>2, <2>13 DEF GoogleLookup
  <2>14. ASSUME NEW c \in Logins, GoogleCreate(c) PROVE Inv1'
    BY ConstantsAssumption, <1>2, <2>14 DEF GoogleCreate, FromAccount
  <2>15. ASSUME NEW c \in Logins, LoginFails(c) PROVE Inv1'
    BY ConstantsAssumption, <1>2, <2>15 DEF LoginFails
  <2>16. ASSUME NEW c \in Logins, NEW u \in Users, SignIn(c, u) PROVE Inv1'
    BY ConstantsAssumption, <1>2, <2>16 DEF SignIn, Switch, Fetch, For
  <2>17. ASSUME NEW c \in Logins, NEW u \in Users, Register(c, u) PROVE Inv1'
    BY ConstantsAssumption, <1>2, <2>17 DEF Register, Switch, For
  <2>18. ASSUME NEW c \in Logins, NEW u \in Users, GoogleSignIn(c, u) PROVE Inv1'
    BY ConstantsAssumption, <1>2, <2>18 DEF GoogleSignIn, Switch, For
  <2>19. ASSUME NEW c \in Calls, Refresh(c) PROVE Inv1'
    BY ConstantsAssumption, <1>2, <2>19 DEF Refresh, Begins, Fetch, For
  <2>20. ASSUME NEW c \in Calls, UpdateProfile(c) PROVE Inv1'
    BY ConstantsAssumption, <1>2, <2>20 DEF UpdateProfile, Begins, For
  <2>21. ASSUME NEW c \in Calls, Rename(c) PROVE Inv1'
    BY ConstantsAssumption, <1>2, <2>21 DEF Rename
  <2>22. ASSUME NEW c \in Calls, Update(c) PROVE Inv1'
    <3>1. docs[uid[c]] \in Document
      BY <1>2, <2>22 DEF Update
    <3>2. docs' \in [Users -> Document \cup {None}]
      BY <1>2, <2>22, <3>1 DEF Update
    <3> QED BY ConstantsAssumption, <1>2, <2>22, <3>2 DEF Update, Fetch, For
  <2>23. ASSUME NEW c \in Calls, EditFails(c) PROVE Inv1'
    BY ConstantsAssumption, <1>2, <2>23 DEF EditFails
  <2>24. ASSUME NEW c \in Calls, DeleteAccount(c) PROVE Inv1'
    BY ConstantsAssumption, <1>2, <2>24 DEF DeleteAccount, Begins, For
  <2>25. ASSUME NEW c \in Calls, Sweep(c) PROVE Inv1'
    BY ConstantsAssumption, <1>2, <2>25 DEF Sweep
  <2>26. ASSUME NEW c \in Calls, Erase(c) PROVE Inv1'
    BY ConstantsAssumption, <1>2, <2>26 DEF Erase, Switch
  <2>27. ASSUME NEW c \in Calls, EraseFails(c) PROVE Inv1'
    BY ConstantsAssumption, <1>2, <2>27 DEF EraseFails
  <2>28. ASSUME NEW c \in Calls, Logout(c) PROVE Inv1'
    BY ConstantsAssumption, <1>2, <2>28 DEF Logout
  <2>29. ASSUME NEW c \in Calls, Leave(c) PROVE Inv1'
    BY ConstantsAssumption, <1>2, <2>29 DEF Leave, Switch
  <2>30. ASSUME NEW c \in Calls, LeaveFails(c) PROVE Inv1'
    BY ConstantsAssumption, <1>2, <2>30 DEF LeaveFails
  <2>31. CASE UNCHANGED vars
    BY ConstantsAssumption, <1>2, <2>31 DEF vars, sessionVars, providerVars, procVars
  <2> QED
    BY <1>2, <2>1, <2>2, <2>3, <2>4, <2>5, <2>6, <2>7, <2>8, <2>9, <2>10,
         <2>11, <2>12, <2>13, <2>14, <2>15, <2>16, <2>17, <2>18, <2>19,
         <2>20, <2>21, <2>22, <2>23, <2>24, <2>25, <2>26, <2>27, <2>28,
         <2>29, <2>30, <2>31
    DEF Next, FetchStep, LoginStep, ProviderStep
<1> QED BY <1>1, <1>2, PTL DEF Spec

(* The session's last change is the last event, if any is left. *)
LEMMA SwitchTracks ==
  ASSUME events \in Seq(Users \cup {None}), fbUser \in Users \cup {None},
         NEW u \in Users \cup {None}, Switch(u),
         events # <<>> => events[Len(events)] = fbUser
  PROVE  /\ events' # <<>> => events'[Len(events')] = fbUser'
         /\ events' = <<>> => events = <<>> /\ fbUser' = fbUser
<1>1. CASE u = fbUser
  BY <1>1 DEF Switch
<1>2. CASE u # fbUser
  <2>1. events' = Append(events, u) /\ fbUser' = u
    BY <1>2 DEF Switch
  <2> QED BY <2>1
<1> QED BY <1>1, <1>2

(* Every reachable state of the session is well typed. *)
THEOREM TypeCorrect == Spec => []TypeOK
<1>1. Inv1 => TypeOK
  BY DEF Inv1
<1> QED BY <1>1, Inductive1, PTL

(* Every step keeps the session in view of the listener. *)
LEMMA Inductive2 == Spec => [](Inv1 /\ Tracked /\ StatusFollowsSession)
<1> USE DEF Tracked, StatusFollowsSession, Settled, Procs, Fetching, Entering, Editing, Leaving,
            Ended, Goto, sessionVars, providerVars, procVars
<1>1. Init => Tracked /\ StatusFollowsSession
  BY DEF Init
<1>2. ASSUME Inv1, Tracked, StatusFollowsSession, [Next]_vars
      PROVE  (Tracked /\ StatusFollowsSession)'
  <2> DEFINE Goal == (Tracked /\ StatusFollowsSession)'
  <2>0. /\ Listener \in Procs /\ None \notin Users /\ Logins \cap Calls = {}
        /\ Listener \notin Logins \cup Calls
        /\ events \in Seq(Users \cup {None}) /\ pc \in [Procs -> {"idle"} \cup Fetching \cup Entering \cup Editing \cup Leaving \cup Ended]
        /\ uid \in [Procs -> Users \cup {None}]
        /\ fbUser \in Users \cup {None}
        /\ pc[Listener] \in {"idle"} \cup Fetching
        /\ pc[Listener] # "idle" => uid[Listener] \in Users
    BY ConstantsAssumption, <1>2 DEF Inv1, TypeOK, Working
  <2>1. ASSUME NEW p \in Procs, Reload(p) PROVE Goal
    BY <1>2, <2>0, <2>1 DEF Reload
  <2>2. ASSUME NEW p \in Procs, Check(p) PROVE Goal
    BY <1>2, <2>0, <2>2 DEF Check
  <2>3. ASSUME NEW p \in Procs, Write(p) PROVE Goal
    BY <1>2, <2>0, <2>3 DEF Write, FromAccount
  <2>4. ASSUME NEW p \in Procs, Read(p) PROVE Goal
    BY <1>2, <2>0, <2>4 DEF Read, Deliver, ListenerDelivers, Throw
  <2>5. ASSUME NEW p \in Procs, Make(p) PROVE Goal
    BY <1>2, <2>0, <2>5 DEF Make, FromAccount, Deliver, ListenerDelivers
  <2>6. ASSUME NEW p \in Procs, FetchFails(p) PROVE Goal
    BY <1>2, <2>0, <2>6 DEF FetchFails, Throw
  <2>7. ASSUME TakeEvent PROVE Goal
    <3>1. Len(events) > 1 => Tail(events)[Len(Tail(events))] = events[Len(events)]
      BY <2>0, <2>7 DEF TakeEvent
    <3>2. Tail(events) = <<>> => Head(events) = fbUser
      <4>1. Tail(events) = <<>> => Len(events) = 1
        <5>1. Len(Tail(events)) = Len(events) - 1 /\ Len(events) \in Nat
          BY <2>0, <2>7 DEF TakeEvent
        <5>2. Tail(events) = <<>> => Len(Tail(events)) = 0
          BY Len(<<>>) = 0
        <5> QED BY <5>1, <5>2
      <4>2. Head(events) = events[1]
        BY <2>0, <2>7 DEF TakeEvent
      <4> QED BY <1>2, <2>0, <2>7, <4>1, <4>2 DEF TakeEvent
    <3>3. Tail(events) # <<>> => Len(events) > 1
      BY <2>0, <2>7 DEF TakeEvent
    <3>4. (events # <<>> => events[Len(events)] = fbUser)'
      BY <1>2, <2>0, <2>7, <3>1, <3>3 DEF TakeEvent
    <3>5. CASE Head(events) = None
      BY <1>2, <2>0, <2>7, <3>2, <3>4, <3>5 DEF TakeEvent
    <3>6. CASE Head(events) # None
      <4>1. pc'[Listener] # "idle" /\ uid'[Listener] = Head(events)
        BY <2>0, <2>7, <3>6 DEF TakeEvent, Fetch, For
      <4> QED BY <1>2, <2>0, <2>7, <3>2, <3>4, <3>6, <4>1 DEF TakeEvent
    <3> QED BY <3>5, <3>6
  <2>8. ASSUME OpenRegister PROVE Goal
    BY <1>2, <2>0, <2>8 DEF OpenRegister
  <2>9. ASSUME OpenAccount PROVE Goal
    BY <1>2, <2>0, <2>9 DEF OpenAccount
  <2>10. ASSUME Back PROVE Goal
    BY <1>2, <2>0, <2>10 DEF Back
  <2>11. ASSUME NEW c \in Logins, Press(c) PROVE Goal
    BY <1>2, <2>0, <2>11 DEF Press
  <2>12. ASSUME NEW c \in Logins, RegisterSet(c) PROVE Goal
    BY <1>2, <2>0, <2>12 DEF RegisterSet, AsChosen
  <2>13. ASSUME NEW c \in Logins, GoogleLookup(c) PROVE Goal
    BY <1>2, <2>0, <2>13 DEF GoogleLookup
  <2>14. ASSUME NEW c \in Logins, GoogleCreate(c) PROVE Goal
    BY <1>2, <2>0, <2>14 DEF GoogleCreate, FromAccount
  <2>15. ASSUME NEW c \in Logins, LoginFails(c) PROVE Goal
    BY <1>2, <2>0, <2>15 DEF LoginFails
  <2>16. ASSUME NEW c \in Logins, NEW u \in Users, SignIn(c, u) PROVE Goal
    <3>1. pc'[Listener] = pc[Listener] /\ status' = status /\ uid'[Listener] = uid[Listener]
      BY <2>0, <2>16 DEF SignIn, Fetch, For
    <3> QED BY <1>2, <2>0, <2>16, <3>1, SwitchTracks DEF SignIn
  <2>17. ASSUME NEW c \in Logins, NEW u \in Users, Register(c, u) PROVE Goal
    <3>1. pc'[Listener] = pc[Listener] /\ status' = status /\ uid'[Listener] = uid[Listener]
      BY <2>0, <2>17 DEF Register, For
    <3> QED BY <1>2, <2>0, <2>17, <3>1, SwitchTracks DEF Register
  <2>18. ASSUME NEW c \in Logins, NEW u \in Users, GoogleSignIn(c, u) PROVE Goal
    <3>1. pc'[Listener] = pc[Listener] /\ status' = status /\ uid'[Listener] = uid[Listener]
      BY <2>0, <2>18 DEF GoogleSignIn, For
    <3> QED BY <1>2, <2>0, <2>18, <3>1, SwitchTracks DEF GoogleSignIn
  <2>19. ASSUME NEW c \in Calls, Refresh(c) PROVE Goal
    BY <1>2, <2>0, <2>19 DEF Refresh, Begins, Fetch, For
  <2>20. ASSUME NEW c \in Calls, UpdateProfile(c) PROVE Goal
    BY <1>2, <2>0, <2>20 DEF UpdateProfile, Begins, For
  <2>21. ASSUME NEW c \in Calls, Rename(c) PROVE Goal
    BY <1>2, <2>0, <2>21 DEF Rename
  <2>22. ASSUME NEW c \in Calls, Update(c) PROVE Goal
    BY <1>2, <2>0, <2>22 DEF Update, Fetch, For
  <2>23. ASSUME NEW c \in Calls, EditFails(c) PROVE Goal
    BY <1>2, <2>0, <2>23 DEF EditFails
  <2>24. ASSUME NEW c \in Calls, DeleteAccount(c) PROVE Goal
    BY <1>2, <2>0, <2>24 DEF DeleteAccount, Begins, For
  <2>25. ASSUME NEW c \in Calls, Sweep(c) PROVE Goal
    BY <1>2, <2>0, <2>25 DEF Sweep
  <2>26. ASSUME NEW c \in Calls, Erase(c) PROVE Goal
    <3>1. pc'[Listener] = pc[Listener] /\ status' = status /\ uid'[Listener] = uid[Listener]
      BY <2>0, <2>26 DEF Erase
    <3> QED BY <1>2, <2>0, <2>26, <3>1, SwitchTracks DEF Erase
  <2>27. ASSUME NEW c \in Calls, EraseFails(c) PROVE Goal
    BY <1>2, <2>0, <2>27 DEF EraseFails
  <2>28. ASSUME NEW c \in Calls, Logout(c) PROVE Goal
    BY <1>2, <2>0, <2>28 DEF Logout
  <2>29. ASSUME NEW c \in Calls, Leave(c) PROVE Goal
    <3>1. pc'[Listener] = pc[Listener] /\ status' = status /\ uid'[Listener] = uid[Listener]
      BY <2>0, <2>29 DEF Leave
    <3> QED BY <1>2, <2>0, <2>29, <3>1, SwitchTracks DEF Leave
  <2>30. ASSUME NEW c \in Calls, LeaveFails(c) PROVE Goal
    BY <1>2, <2>0, <2>30 DEF LeaveFails
  <2>31. CASE UNCHANGED vars
    BY <1>2, <2>0, <2>31 DEF vars, sessionVars, providerVars, procVars
  <2> QED
    BY <1>2, <2>1, <2>2, <2>3, <2>4, <2>5, <2>6, <2>7, <2>8, <2>9, <2>10,
         <2>11, <2>12, <2>13, <2>14, <2>15, <2>16, <2>17, <2>18, <2>19,
         <2>20, <2>21, <2>22, <2>23, <2>24, <2>25, <2>26, <2>27, <2>28,
         <2>29, <2>30, <2>31
    DEF Next, FetchStep, LoginStep, ProviderStep
<1> QED BY <1>1, <1>2, Inductive1, PTL DEF Spec

(* Once the listener has caught up, the status is that of the session. *)
THEOREM StatusFollows == Spec => []StatusFollowsSession
<1> QED BY Inductive2, PTL

(* Every step leaves the user shown with a document or a deletion of it. *)
LEMMA Inductive3 == Spec => [](Inv1 /\ Kept)
<1> USE DEF Kept, Doomed, Procs, Fetching, Entering, Editing, Leaving, Ended, Goto,
            sessionVars, providerVars, procVars
<1>1. Init => Kept
  BY DEF Init
<1>2. ASSUME Inv1, Kept, [Next]_vars
      PROVE  Kept'
  <2>0. /\ None \notin Users \cup Document /\ Logins \cap Calls = {} /\ Calls \subseteq Procs
        /\ Listener \notin Logins \cup Calls
        /\ docs \in [Users -> Document \cup {None}]
        /\ pc \in [Procs -> {"idle"} \cup Fetching \cup Entering \cup Editing \cup Leaving \cup Ended]
        /\ uid \in [Procs -> Users \cup {None}]
        /\ \A u \in Users : AsChosen(u) \in Document /\ FromAccount(u) \in Document
        /\ \A p \in Procs :
             /\ pc[p] \in Fetching \cup Editing \cup {"set", "lookup", "create", "sweep", "erase"}
                  => uid[p] \in Users
             /\ pc[p] \in {"check", "write"} => whose[p] \in Users
             /\ pc[p] \in Editing \cup Leaving \cup {"left"} => p \in Calls
             /\ p = Listener => pc[p] \in {"idle"} \cup Fetching
    BY ConstantsAssumption, <1>2 DEF Inv1, TypeOK, Working, Document, AsChosen, FromAccount
  <2>1. ASSUME NEW p \in Procs, Reload(p) PROVE Kept'
    BY <1>2, <2>0, <2>1 DEF Reload
  <2>2. ASSUME NEW p \in Procs, Check(p) PROVE Kept'
    BY <1>2, <2>0, <2>2 DEF Check
  <2>3. ASSUME NEW p \in Procs, Write(p) PROVE Kept'
    BY <1>2, <2>0, <2>3 DEF Write
  <2>4. ASSUME NEW p \in Procs, Read(p) PROVE Kept'
    BY <1>2, <2>0, <2>4 DEF Read, Deliver, ListenerDelivers, Throw
  <2>5. ASSUME NEW p \in Procs, Make(p) PROVE Kept'
    BY <1>2, <2>0, <2>5 DEF Make, Deliver, ListenerDelivers
  <2>6. ASSUME NEW p \in Procs, FetchFails(p) PROVE Kept'
    BY <1>2, <2>0, <2>6 DEF FetchFails, Throw
  <2>7. ASSUME TakeEvent PROVE Kept'
    BY <1>2, <2>0, <2>7 DEF TakeEvent, Fetch, For
  <2>8. ASSUME OpenRegister PROVE Kept'
    BY <1>2, <2>0, <2>8 DEF OpenRegister
  <2>9. ASSUME OpenAccount PROVE Kept'
    BY <1>2, <2>0, <2>9 DEF OpenAccount
  <2>10. ASSUME Back PROVE Kept'
    BY <1>2, <2>0, <2>10 DEF Back
  <2>11. ASSUME NEW c \in Logins, Press(c) PROVE Kept'
    BY <1>2, <2>0, <2>11 DEF Press
  <2>12. ASSUME NEW c \in Logins, RegisterSet(c) PROVE Kept'
    BY <1>2, <2>0, <2>12 DEF RegisterSet
  <2>13. ASSUME NEW c \in Logins, GoogleLookup(c) PROVE Kept'
    BY <1>2, <2>0, <2>13 DEF GoogleLookup
  <2>14. ASSUME NEW c \in Logins, GoogleCreate(c) PROVE Kept'
    BY <1>2, <2>0, <2>14 DEF GoogleCreate
  <2>15. ASSUME NEW c \in Logins, LoginFails(c) PROVE Kept'
    BY <1>2, <2>0, <2>15 DEF LoginFails
  <2>16. ASSUME NEW c \in Logins, NEW u \in Users, SignIn(c, u) PROVE Kept'
    BY <1>2, <2>0, <2>16 DEF SignIn, Switch, Fetch, For
  <2>17. ASSUME NEW c \in Logins, NEW u \in Users, Register(c, u) PROVE Kept'
    BY <1>2, <2>0, <2>17 DEF Register, Switch, For
  <2>18. ASSUME NEW c \in Logins, NEW u \in Users, GoogleSignIn(c, u) PROVE Kept'
    BY <1>2, <2>0, <2>18 DEF GoogleSignIn, Switch, For
  <2>19. ASSUME NEW c \in Calls, Refresh(c) PROVE Kept'
    BY <1>2, <2>0, <2>19 DEF Refresh, Begins, Fetch, For
  <2>20. ASSUME NEW c \in Calls, UpdateProfile(c) PROVE Kept'
    BY <1>2, <2>0, <2>20 DEF UpdateProfile, Begins, For
  <2>21. ASSUME NEW c \in Calls, Rename(c) PROVE Kept'
    BY <1>2, <2>0, <2>21 DEF Rename
  <2>22. ASSUME NEW c \in Calls, Update(c) PROVE Kept'
    <3>1. docs[uid[c]] \in Document /\ uid[c] \in Users
      BY <2>0, <2>22 DEF Update
    <3>2. docs'[uid[c]] \in Document /\ \A u \in Users \ {uid[c]} : docs'[u] = docs[u]
      BY <2>0, <2>22, <3>1 DEF Update, Document
    <3>3. status' = status /\ user' = user
      BY <2>22 DEF Update
    <3>4. \A p \in Procs : pc[p] \in {"erase", "leave", "left"} => pc'[p] = pc[p] /\ uid'[p] = uid[p]
      BY <2>0, <2>22 DEF Update, Fetch, For
    <3> QED BY <1>2, <2>0, <3>2, <3>3, <3>4
  <2>23. ASSUME NEW c \in Calls, EditFails(c) PROVE Kept'
    BY <1>2, <2>0, <2>23 DEF EditFails
  <2>24. ASSUME NEW c \in Calls, DeleteAccount(c) PROVE Kept'
    BY <1>2, <2>0, <2>24 DEF DeleteAccount, Begins, For
  <2>25. ASSUME NEW c \in Calls, Sweep(c) PROVE Kept'
    BY <1>2, <2>0, <2>25 DEF Sweep
  <2>26. ASSUME NEW c \in Calls, Erase(c) PROVE Kept'
    BY <1>2, <2>0, <2>26 DEF Erase, Switch
  <2>27. ASSUME NEW c \in Calls, EraseFails(c) PROVE Kept'
    BY <1>2, <2>0, <2>27 DEF EraseFails
  <2>28. ASSUME NEW c \in Calls, Logout(c) PROVE Kept'
    BY <1>2, <2>0, <2>28 DEF Logout
  <2>29. ASSUME NEW c \in Calls, Leave(c) PROVE Kept'
    BY <1>2, <2>0, <2>29 DEF Leave, Switch
  <2>30. ASSUME NEW c \in Calls, LeaveFails(c) PROVE Kept'
    BY <1>2, <2>0, <2>30 DEF LeaveFails
  <2>31. CASE UNCHANGED vars
    BY <1>2, <2>0, <2>31 DEF vars, sessionVars, providerVars, procVars
  <2> QED
    BY <1>2, <2>1, <2>2, <2>3, <2>4, <2>5, <2>6, <2>7, <2>8, <2>9, <2>10,
         <2>11, <2>12, <2>13, <2>14, <2>15, <2>16, <2>17, <2>18, <2>19,
         <2>20, <2>21, <2>22, <2>23, <2>24, <2>25, <2>26, <2>27, <2>28,
         <2>29, <2>30, <2>31
    DEF Next, FetchStep, LoginStep, ProviderStep
<1> QED BY <1>1, <1>2, Inductive1, PTL DEF Spec

(* The user shown as signed in has a document, unless a deletion took it. *)
THEOREM ShownHasDocument == Spec => []ShownUserHasDocument
<1>1. Inv1 /\ Kept => ShownUserHasDocument
  BY ConstantsAssumption DEF Kept, ShownUserHasDocument
<1> QED BY <1>1, Inductive3, PTL

=============================================================================
