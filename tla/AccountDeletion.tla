--------------------------- MODULE AccountDeletion ---------------------------
(***************************************************************************)
(* deleteAccount of AuthService (lib/services/auth_service.dart) and the   *)
(* data of the user it removes: documents of several collections, swept    *)
(* together by Future.wait, and profile photos, removed one by one before. *)
(* The screens go on writing meanwhile.  An action is what one activity    *)
(* does between two awaits; what the deletion does to the session is in    *)
(* AuthSession.                                                            *)
(***************************************************************************)
EXTENDS Naturals, FiniteSets

CONSTANTS
  Collections,  \* of Firestore, with documents that carry the user's id
  Photos,       \* the kind of an uploaded profile photo
  Items,        \* documents of each collection, and photos, there may be
  Calls         \* calls of deleteAccount, from the settings screen

ASSUME ConstantsAssumption ==
  /\ Photos \notin Collections
  /\ Collections # {}

Kinds == Collections \cup {Photos}

VARIABLES
  account,  \* whether the Firebase Auth account is there
  data,     \* per kind and item: "none" yet, "sending", "stored" or "gone"
  pc,       \* where each call of deleteAccount is suspended, or how it ended
  sweep,    \* per call and collection: awaiting "query" or "commit", or the end
  found,    \* per call and kind: what its query found and is still to delete
  old       \* per call and kind: what was stored when the user confirmed

vars == <<account, data, pc, sweep, found, old>>

Stored(k) == {i \in Items : data[k][i] = "stored"}

Ended == {"deleted", "refused"}

TypeOK ==
  /\ account \in BOOLEAN
  /\ data \in [Kinds -> [Items -> {"none", "sending", "stored", "gone"}]]
  /\ pc \in [Calls -> {"idle", "photos", "dropping", "sweeping", "erasing"} \cup Ended]
  /\ sweep \in [Calls -> [Collections -> {"query", "commit", "swept", "failed"}]]
  /\ found \in [Calls -> [Kinds -> SUBSET Items]]
  /\ old \in [Calls -> [Kinds -> SUBSET Items]]

(* Any of the data may have been stored in earlier sessions. *)
Init ==
  /\ account = TRUE
  /\ data \in [Kinds -> [Items -> {"none", "stored"}]]
  /\ pc = [c \in Calls |-> "idle"]
  /\ sweep = [c \in Calls |-> [k \in Collections |-> "query"]]
  /\ found = [c \in Calls |-> [k \in Kinds |-> {}]]
  /\ old = [c \in Calls |-> [k \in Kinds |-> {}]]

Goto(c, s) == pc' = [pc EXCEPT ![c] = s]

(* found' and data' when call c has found items, or has removed some. *)
Find(c, k, items)   == found' = [found EXCEPT ![c][k] = items]
Remove(k, items)    == data' = [data EXCEPT ![k] =
                         [i \in Items |-> IF i \in items THEN "gone" ELSE @[i]]]

-----------------------------------------------------------------------------
(* The other screens: saving a route, reporting an incident, sending an alert,
   uploading a photo.  The write is started for the current user and lands, or
   is refused, at any later time. *)

Save(k, i) ==
  /\ account
  /\ data[k][i] = "none"
  /\ data' = [data EXCEPT ![k][i] = "sending"]
  /\ UNCHANGED <<account, pc, sweep, found, old>>

SaveEnds(k, i) ==
  /\ data[k][i] = "sending"
  /\ \E outcome \in {"stored", "gone"} : data' = [data EXCEPT ![k][i] = outcome]
  /\ UNCHANGED <<account, pc, sweep, found, old>>

-----------------------------------------------------------------------------
(* One call of deleteAccount. *)

(* Delete in the dialog, which closes at once: it can be opened again. *)
Confirm(c) ==
  /\ pc[c] = "idle"
  /\ account
  /\ Goto(c, "photos")
  /\ old' = [old EXCEPT ![c] = [k \in Kinds |-> Stored(k)]]
  /\ UNCHANGED <<account, data, sweep, found>>

(* The user's photos are listed; when the listing fails there is still the
   current one, if the profile has one. *)
ListPhotos(c) ==
  /\ pc[c] = "photos"
  /\ \E photos \in {Stored(Photos), {}} \cup {{i} : i \in Stored(Photos)} :
       Find(c, Photos, photos)
  /\ Goto(c, "dropping")
  /\ UNCHANGED <<account, data, sweep, old>>

(* A photo is deleted, or the error is logged and the next one follows. *)
DropPhoto(c, i) ==
  /\ pc[c] = "dropping"
  /\ i \in found[c][Photos]
  /\ Find(c, Photos, found[c][Photos] \ {i})
  /\ Remove(Photos, {i}) \/ UNCHANGED data
  /\ UNCHANGED <<account, pc, sweep, old>>

(* _deleteAllUserFirestoreData starts all sweeps before it waits. *)
StartSweeps(c) ==
  /\ pc[c] = "dropping"
  /\ found[c][Photos] = {}
  /\ Goto(c, "sweeping")
  /\ UNCHANGED <<account, data, sweep, found, old>>

(* Each sweep queries its collection ... *)
Query(c, k) ==
  /\ pc[c] = "sweeping"
  /\ sweep[c][k] = "query"
  /\ Find(c, k, Stored(k))
  /\ sweep' = [sweep EXCEPT ![c][k] = "commit"]
  /\ UNCHANGED <<account, data, pc, old>>

(* ... and deletes what it found, as one batch ... *)
Commit(c, k) ==
  /\ pc[c] = "sweeping"
  /\ sweep[c][k] = "commit"
  /\ Remove(k, found[c][k])
  /\ Find(c, k, {})
  /\ sweep' = [sweep EXCEPT ![c][k] = "swept"]
  /\ UNCHANGED <<account, pc, old>>

(* Mutant: the exception leaves deleteAccount. *)
SweepFailsAll(c, k) ==
  /\ pc[c] = "sweeping"
  /\ sweep[c][k] \in {"query", "commit"}
  /\ sweep' = [sweep EXCEPT ![c][k] = "failed"]
  /\ Goto(c, "refused")
  /\ UNCHANGED <<account, data, found, old>>

(* ... or throws, which is logged when the other sweeps have ended. *)
SweepFails(c, k) ==
  /\ pc[c] = "sweeping"
  /\ sweep[c][k] \in {"query", "commit"}
  /\ Find(c, k, {})
  /\ sweep' = [sweep EXCEPT ![c][k] = "failed"]
  /\ UNCHANGED <<account, data, pc, old>>

(* Mutant: Future.any instead of Future.wait. *)
OneSweepEnded(c) == \E k \in Collections : sweep[c][k] \in {"swept", "failed"}

(* Future.wait waits for every sweep, those that throw included. *)
SweepsEnded(c) == \A k \in Collections : sweep[c][k] \in {"swept", "failed"}

EndSweeps(c) ==
  /\ pc[c] = "sweeping"
  /\ SweepsEnded(c)
  /\ Goto(c, "erasing")
  /\ UNCHANGED <<account, data, sweep, found, old>>

(* user.delete(), after which the screen says that the account is deleted ... *)
Erase(c) ==
  /\ pc[c] = "erasing"
  /\ account
  /\ account' = FALSE
  /\ Goto(c, "deleted")
  /\ UNCHANGED <<data, sweep, found, old>>

(* ... or Firebase wants a fresh login, or the account is gone already. *)
EraseRefused(c) ==
  /\ pc[c] = "erasing"
  /\ Goto(c, "refused")
  /\ UNCHANGED <<account, data, sweep, found, old>>

-----------------------------------------------------------------------------
(* What a call does once it is confirmed. *)
CallProgress(c) ==
  \/ ListPhotos(c)
  \/ \E i \in Items : DropPhoto(c, i)
  \/ StartSweeps(c)
  \/ \E k \in Collections : Query(c, k) \/ Commit(c, k) \/ SweepFails(c, k)
  \/ EndSweeps(c)
  \/ Erase(c)
  \/ EraseRefused(c)

Next ==
  \/ \E k \in Kinds, i \in Items : Save(k, i) \/ SaveEnds(k, i)
  \/ \E c \in Calls : Confirm(c) \/ CallProgress(c)

Spec == Init /\ [][Next]_vars

(* Storage, Firestore and Firebase Auth answer, with a result or an error. *)
FairSpec == Spec /\ \A c \in Calls : WF_vars(CallProgress(c))

-----------------------------------------------------------------------------
(* Properties. *)

(* When a deletion has finished with the collections, no document that was
   stored when the user confirmed it is left in a collection whose sweep did
   not fail, whatever the other sweeps, the screens that go on writing and a
   second deletion did meanwhile. *)
OldDocumentsAreSwept ==
  \A c \in Calls : pc[c] \in {"erasing", "deleted"} =>
    \A k \in Collections :
      sweep[c][k] # "failed" => old[c][k] \cap Stored(k) = {}

(* auth_service.dart:298, "these are best-effort and shouldn't block account
   deletion": a confirmed deletion gets as far as asking Firebase to delete the
   account, whichever photos and sweeps fail. *)
CleanupNeverBlocks ==
  \A c \in Calls : (pc[c] = "photos") ~> (pc[c] = "erasing")

=============================================================================
