--------------------------- MODULE DeletionProofs ---------------------------
(***************************************************************************)
(* Proofs about AccountDeletion, for any collections, documents and calls. *)
(***************************************************************************)
EXTENDS AccountDeletion, TLAPS

(* The sweeps of a call are untouched until it starts them, and have ended
   when it goes on. *)
InStep ==
  \A c \in Calls :
    /\ pc[c] \in {"idle", "photos", "dropping"} =>
         \A k \in Collections : sweep[c][k] = "query"
    /\ pc[c] \in {"erasing", "deleted"} => SweepsEnded(c)

(* What was stored at the confirmation can only be removed since. *)
OldIsOld ==
  \A c \in Calls, k \in Kinds : \A i \in old[c][k] : data[k][i] \in {"stored", "gone"}

(* A query made after the confirmation finds what is left of the old documents,
   and nothing brings one back between the query and the batch. *)
QueryCovers ==
  \A c \in Calls, k \in Collections :
    sweep[c][k] = "commit" => old[c][k] \cap Stored(k) \subseteq found[c][k]

SweptIsClean ==
  \A c \in Calls, k \in Collections :
    sweep[c][k] = "swept" => old[c][k] \cap Stored(k) = {}

IInv == TypeOK /\ InStep /\ OldIsOld /\ QueryCovers /\ SweptIsClean

(* An item that is not being written stays out of the store once it is out. *)
Fading(k, i) == data[k][i] \in {"stored", "gone"} => data'[k][i] \in {data[k][i], "gone"}

LEMMA ItemsFade ==
  ASSUME TypeOK, [Next]_vars
  PROVE  \A k \in Kinds, i \in Items : Fading(k, i)
<1> USE DEF TypeOK, Fading
<1>1. ASSUME NEW k \in Kinds, NEW i \in Items, Save(k, i) \/ SaveEnds(k, i)
      PROVE  \A l \in Kinds, j \in Items : Fading(l, j)
  <2>1. PICK v : data' = [data EXCEPT ![k][i] = v]
    BY <1>1 DEF Save, SaveEnds
  <2>2. data[k][i] \in {"none", "sending"}
    BY <1>1 DEF Save, SaveEnds
  <2> QED BY <2>1, <2>2
<1>2. ASSUME NEW k \in Kinds, NEW items, Remove(k, items)
      PROVE  \A l \in Kinds, j \in Items : Fading(l, j)
  BY <1>2 DEF Remove
<1>3. ASSUME UNCHANGED data
      PROVE  \A l \in Kinds, j \in Items : Fading(l, j)
  BY <1>3
<1>4. ASSUME NEW c \in Calls, Confirm(c) \/ CallProgress(c)
      PROVE  \A l \in Kinds, j \in Items : Fading(l, j)
  <2>1. CASE \E i \in Items : DropPhoto(c, i)
    BY <2>1, <1>2, <1>3 DEF DropPhoto, Kinds
  <2>2. CASE \E k \in Collections : Commit(c, k)
    BY <2>2, <1>2 DEF Commit, Kinds
  <2>3. CASE \/ Confirm(c) \/ ListPhotos(c) \/ StartSweeps(c) \/ EndSweeps(c)
             \/ Erase(c) \/ EraseRefused(c)
             \/ \E k \in Collections : Query(c, k) \/ SweepFails(c, k)
    BY <2>3, <1>3 DEF Confirm, ListPhotos, StartSweeps, EndSweeps, Erase,
         EraseRefused, Query, SweepFails
  <2> QED BY <1>4, <2>1, <2>2, <2>3 DEF CallProgress
<1> QED BY <1>1, <1>3, <1>4 DEF Next, vars

LEMMA TypeStep ==
  ASSUME TypeOK, [Next]_vars
  PROVE  TypeOK'
<1> USE ConstantsAssumption DEF TypeOK, Goto, Find
<1>1. \A k \in Kinds : Stored(k) \subseteq Items
  BY DEF Stored
<1>2. ASSUME NEW k \in Kinds, NEW i \in Items, Save(k, i) \/ SaveEnds(k, i)
      PROVE  TypeOK'
  <2>1. PICK v \in {"sending", "stored", "gone"} : data' = [data EXCEPT ![k][i] = v]
    BY <1>2 DEF Save, SaveEnds
  <2> QED BY <1>2, <2>1 DEF Save, SaveEnds
<1>3. ASSUME NEW c \in Calls, Confirm(c) PROVE TypeOK'
  BY <1>1, <1>3 DEF Confirm
<1>4. ASSUME NEW c \in Calls, ListPhotos(c) PROVE TypeOK'
  <2>1. Photos \in Kinds
    BY DEF Kinds
  <2>2. PICK photos \in {Stored(Photos), {}} \cup {{i} : i \in Stored(Photos)} :
          found' = [found EXCEPT ![c][Photos] = photos]
    BY <1>4 DEF ListPhotos
  <2>3. photos \in SUBSET Items
    BY <1>1, <2>1, <2>2
  <2> QED BY <1>4, <2>1, <2>2, <2>3 DEF ListPhotos
<1>5. ASSUME NEW c \in Calls, NEW i \in Items, DropPhoto(c, i) PROVE TypeOK'
  <2>1. data' \in [Kinds -> [Items -> {"none", "sending", "stored", "gone"}]]
    <3>1. CASE Remove(Photos, {i})
      BY <3>1 DEF Remove
    <3>2. CASE UNCHANGED data
      BY <3>2
    <3> QED BY <1>5, <3>1, <3>2 DEF DropPhoto
  <2> QED BY <1>5, <2>1 DEF DropPhoto, Kinds
<1>6. ASSUME NEW c \in Calls, NEW k \in Collections, Query(c, k) PROVE TypeOK'
  BY <1>1, <1>6 DEF Query, Kinds
<1>7. ASSUME NEW c \in Calls, NEW k \in Collections, Commit(c, k) PROVE TypeOK'
  <2>1. data' \in [Kinds -> [Items -> {"none", "sending", "stored", "gone"}]]
    BY <1>7 DEF Commit, Remove
  <2> QED BY <1>7, <2>1 DEF Commit
<1>8. ASSUME NEW c \in Calls, NEW k \in Collections, SweepFails(c, k) PROVE TypeOK'
  BY <1>8 DEF SweepFails
<1>9. ASSUME NEW c \in Calls,
             StartSweeps(c) \/ EndSweeps(c) \/ Erase(c) \/ EraseRefused(c)
      PROVE  TypeOK'
  BY <1>9 DEF StartSweeps, EndSweeps, Erase, EraseRefused, Ended
<1>10. CASE UNCHANGED vars
  BY <1>10 DEF vars
<1> QED BY <1>2, <1>3, <1>4, <1>5, <1>6, <1>7, <1>8, <1>9, <1>10 DEF Next, CallProgress

(* The control of a call. *)
LEMMA ControlStep ==
  ASSUME TypeOK, InStep, [Next]_vars
  PROVE  InStep'
<1> USE ConstantsAssumption DEF TypeOK, InStep, Goto, SweepsEnded
<1>1. ASSUME NEW k \in Kinds, NEW i \in Items, Save(k, i) \/ SaveEnds(k, i)
      PROVE  InStep'
  BY <1>1 DEF Save, SaveEnds
<1>2. ASSUME NEW c \in Calls,
             \/ Confirm(c) \/ ListPhotos(c) \/ StartSweeps(c) \/ EndSweeps(c)
             \/ Erase(c) \/ EraseRefused(c) \/ \E i \in Items : DropPhoto(c, i)
      PROVE  InStep'
  <2>1. UNCHANGED sweep
    BY <1>2 DEF Confirm, ListPhotos, StartSweeps, EndSweeps, Erase, EraseRefused, DropPhoto
  <2>2. CASE Confirm(c) \/ ListPhotos(c)
    BY <2>1, <2>2 DEF Confirm, ListPhotos
  <2>3. CASE StartSweeps(c) \/ EndSweeps(c)
    BY <2>1, <2>3 DEF StartSweeps, EndSweeps
  <2>4. CASE Erase(c) \/ EraseRefused(c)
    BY <2>1, <2>4 DEF Erase, EraseRefused
  <2>5. CASE \E i \in Items : DropPhoto(c, i)
    BY <2>1, <2>5 DEF DropPhoto
  <2> QED BY <1>2, <2>2, <2>3, <2>4, <2>5
<1>3. ASSUME NEW c \in Calls, NEW k \in Collections,
             Query(c, k) \/ Commit(c, k) \/ SweepFails(c, k)
      PROVE  InStep'
  <2>1. pc[c] = "sweeping" /\ pc' = pc
    BY <1>3 DEF Query, Commit, SweepFails
  <2>2. \A d \in Calls : d # c => sweep'[d] = sweep[d]
    BY <1>3 DEF Query, Commit, SweepFails
  <2> SUFFICES ASSUME NEW d \in Calls
               PROVE  /\ pc'[d] \in {"idle", "photos", "dropping"} =>
                           \A l \in Collections : sweep'[d][l] = "query"
                      /\ pc'[d] \in {"erasing", "deleted"} =>
                           \A l \in Collections : sweep'[d][l] \in {"swept", "failed"}
    OBVIOUS
  <2>3. CASE d = c
    BY <2>1, <2>3
  <2>4. CASE d # c
    BY <2>1, <2>2, <2>4
  <2> QED BY <2>3, <2>4
<1>4. CASE UNCHANGED vars
  BY <1>4 DEF vars
<1> QED BY <1>1, <1>2, <1>3, <1>4 DEF Next, CallProgress

(* A step that confirms nothing keeps the old documents old. *)
LEMMA OldStep ==
  ASSUME TypeOK, OldIsOld, [Next]_vars
  PROVE  OldIsOld'
<1> USE DEF TypeOK, OldIsOld
<1>1. \A k \in Kinds, i \in Items : Fading(k, i)
  BY ItemsFade
<1>2. ASSUME NEW c \in Calls, Confirm(c) PROVE OldIsOld'
  BY <1>2 DEF Confirm, Stored
<1>3. ASSUME UNCHANGED old PROVE OldIsOld'
  BY <1>1, <1>3 DEF Fading
<1>4. (\A c \in Calls : ~Confirm(c)) => UNCHANGED old
  BY DEF Next, CallProgress, vars, Save, SaveEnds, ListPhotos, DropPhoto, StartSweeps,
         Query, Commit, SweepFails, EndSweeps, Erase, EraseRefused
<1> QED BY <1>2, <1>3, <1>4

(* What a query covered stays covered, and a batch removes all of it. *)
LEMMA SweepStep ==
  ASSUME IInv, [Next]_vars
  PROVE  QueryCovers' /\ SweptIsClean'
<1> USE DEF IInv, TypeOK
<1> DEFINE Left(c, k) == old[c][k] \cap Stored(k)
           Good(c, k) == /\ sweep[c][k] = "commit" => Left(c, k) \subseteq found[c][k]
                         /\ sweep[c][k] = "swept" => Left(c, k) = {}
<1>1. \A c \in Calls, k \in Collections : Good(c, k)
  BY DEF QueryCovers, SweptIsClean
<1>2. SUFFICES ASSUME NEW c \in Calls, NEW k \in Collections
               PROVE  Good(c, k)'
  BY DEF QueryCovers, SweptIsClean
<1> HIDE DEF Good
<1>3. k \in Kinds /\ k # Photos
  BY ConstantsAssumption DEF Kinds
<1>4. ASSUME UNCHANGED old PROVE Left(c, k)' \subseteq Left(c, k)
  <2>1. \A i \in Items : Fading(k, i)
    BY <1>3, ItemsFade
  <2>2. \A i \in old[c][k] : i \in Items /\ data[k][i] \in {"stored", "gone"}
    BY <1>3 DEF OldIsOld
  <2> QED BY <1>4, <2>1, <2>2 DEF Stored, Fading
<1>5. ASSUME UNCHANGED old, sweep'[c][k] = sweep[c][k], found'[c][k] = found[c][k]
      PROVE  Good(c, k)'
  BY <1>1, <1>4, <1>5 DEF Good
<1>6. ASSUME NEW d \in Calls, Confirm(d) PROVE Good(c, k)'
  <2>1. CASE d = c
    BY <1>6, <2>1 DEF Confirm, InStep, Good
  <2>2. CASE d # c
    BY <1>1, <1>6, <2>2 DEF Confirm, Good, Stored
  <2> QED BY <2>1, <2>2
<1>7. ASSUME NEW d \in Calls, NEW l \in Collections,
             Query(d, l) \/ Commit(d, l) \/ SweepFails(d, l), d # c \/ l # k
      PROVE  Good(c, k)'
  <2>1. l \in Kinds
    BY DEF Kinds
  <2>2. PICK items : found' = [found EXCEPT ![d][l] = items]
    BY <1>7 DEF Query, Commit, SweepFails, Find
  <2>3. found'[c][k] = found[c][k]
    BY <1>3, <1>7, <2>1, <2>2
  <2>4. PICK s : sweep' = [sweep EXCEPT ![d][l] = s]
    BY <1>7 DEF Query, Commit, SweepFails
  <2>5. sweep'[c][k] = sweep[c][k]
    BY <1>7, <2>4
  <2>6. UNCHANGED old
    BY <1>7 DEF Query, Commit, SweepFails
  <2> QED BY <1>5, <2>3, <2>5, <2>6
<1>8. ASSUME Query(c, k) PROVE Good(c, k)'
  <2>1. found'[c][k] = Stored(k) /\ sweep'[c][k] = "commit" /\ UNCHANGED <<data, old>>
    BY <1>3, <1>8 DEF Query, Find
  <2> QED BY <2>1 DEF Good, Stored
<1>9. ASSUME Commit(c, k) PROVE Good(c, k)'
  <2>1. sweep[c][k] = "commit" /\ sweep'[c][k] = "swept" /\ UNCHANGED old
    BY <1>9 DEF Commit
  <2>2. \A i \in found[c][k] : i \notin Stored(k)'
    BY <1>3, <1>9 DEF Commit, Remove, Stored
  <2>3. Left(c, k)' \subseteq found[c][k]
    BY <1>1, <1>4, <2>1 DEF Good
  <2> QED BY <2>1, <2>2, <2>3 DEF Good
<1>10. ASSUME SweepFails(c, k) PROVE Good(c, k)'
  <2>1. sweep'[c][k] = "failed"
    BY <1>10 DEF SweepFails
  <2> QED BY <2>1 DEF Good
<1>11. ASSUME NEW d \in Calls, ListPhotos(d) \/ \E i \in Items : DropPhoto(d, i)
       PROVE  Good(c, k)'
  <2>1. UNCHANGED <<old, sweep>>
    BY <1>11 DEF ListPhotos, DropPhoto
  <2>2. found'[c][k] = found[c][k]
    <3>1. PICK items : found' = [found EXCEPT ![d][Photos] = items]
      BY <1>11 DEF ListPhotos, DropPhoto, Find
    <3> QED BY <1>3, <3>1
  <2> QED BY <1>5, <2>1, <2>2
<1>12. ASSUME UNCHANGED <<old, sweep, found>> PROVE Good(c, k)'
  BY <1>5, <1>12
<1>13. CASE \E d \in Calls : CallProgress(d)
  <2>1. PICK d \in Calls : CallProgress(d)
    BY <1>13
  <2>2. CASE StartSweeps(d) \/ EndSweeps(d) \/ Erase(d) \/ EraseRefused(d)
    BY <1>12, <2>2 DEF StartSweeps, EndSweeps, Erase, EraseRefused
  <2> QED BY <1>7, <1>8, <1>9, <1>10, <1>11, <2>1, <2>2 DEF CallProgress
<1>14. CASE \E l \in Kinds, i \in Items : Save(l, i) \/ SaveEnds(l, i)
  BY <1>12, <1>14 DEF Save, SaveEnds
<1>15. CASE UNCHANGED vars
  BY <1>12, <1>15 DEF vars
<1> QED BY <1>6, <1>13, <1>14, <1>15 DEF Next

LEMMA Inductive == Spec => []IInv
<1>1. Init => IInv
  BY DEF Init, IInv, TypeOK, InStep, OldIsOld, QueryCovers, SweptIsClean, SweepsEnded, Stored
<1>2. IInv /\ [Next]_vars => IInv'
  BY TypeStep, ControlStep, OldStep, SweepStep DEF IInv
<1> QED BY <1>1, <1>2, PTL DEF Spec

(* Every reachable state of the deletions is well typed. *)
THEOREM TypeCorrect == Spec => []TypeOK
<1>1. IInv => TypeOK
  BY DEF IInv
<1> QED BY <1>1, Inductive, PTL

(* When a deletion has finished with the collections, a document that was
   stored at its confirmation is only left where the sweep failed. *)
THEOREM OldSwept == Spec => []OldDocumentsAreSwept
<1>1. IInv => OldDocumentsAreSwept
  BY DEF IInv, InStep, SweptIsClean, SweepsEnded, OldDocumentsAreSwept
<1> QED BY <1>1, Inductive, PTL
=============================================================================
