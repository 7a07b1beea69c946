---------------------------- MODULE MergerProofs ----------------------------
(***************************************************************************)
(* Proofs about ThreadMerger: for any engines on the same threads, any     *)
(* pipeline and any lease longer than the lag, queues and leases differ    *)
(* only under the shared mutex, raster tasks keep to their thread but for  *)
(* that moment, the checks fail only after a teardown or for another       *)
(* shell's lease, and a platform call that waits for its own thread has    *)
(* had the merger enabled under it.                                        *)
(***************************************************************************)
EXTENDS ThreadMerger, SequenceTheorems, TLAPS

-----------------------------------------------------------------------------
(* The inductive invariant. *)

(* The part of a draw in which it can still count against a lease. *)
Counting == Drawing \ {"lapse", "finish"}

(* Only the raster thread takes a lease, and only the platform thread finds *)
(* the threads merged: each keeps to its branch of the draw and the teardown. *)
OwnBranch ==
  /\ pc["platform"] # "lease"
  /\ pc["raster"] \in {"idle"} \cup (RasterSteps \ {"extend", "unmerge", "last"})

(* The mutex of a shell's merger and the shared one have one holder each. *)
Exclusion ==
  /\ pc["platform"] \in HoldOwn /\ pc["raster"] \in HoldOwn =>
       shell["platform"] # shell["raster"]
  /\ pc["platform"] \in HoldShared => pc["raster"] \notin HoldShared

(* The two records of the merge agree but for who writes them, and who has  *)
(* lost the queue is at the end of the draw it lost it in.                  *)
QueueHeld ==
  /\ IsMerged => owned
  /\ owned => IsMerged \/ pc["raster"] = "lease" \/ pc["platform"] \in {"lapse", "last"}
  /\ pc["raster"] = "lease" \/ pc["platform"] \in {"lapse", "last"} => ~IsMerged
  /\ pc["platform"] = "count" => IsMerged
  /\ pc["platform"] \in RasterSteps \ {"finish"} => owned
  /\ pc["raster"] \in RasterSteps /\ owned =>
       pc["raster"] \in {"lease", "decrement", "count", "finish"}
  /\ pc["raster"] = "lease" => owned
  /\ pc["raster"] = "lapse" => shell["raster"] \notin callers

(* Tasks begun beside another are counted. *)
AheadCounts ==
  /\ ahead <= Lag
  /\ pc["platform"] \in Drawing /\ pc["raster"] \in RasterSteps => ahead >= 1

(* A raster thread about to count against the lease it took finds it, if it *)
(* is there at all, as long as the draws begun meanwhile have left it.      *)
LeaseLasts ==
  /\ pc["raster"] = "count" \/ (pc["raster"] = "decrement" /\ owned)
  /\ shell["raster"] \in callers
  => lease[shell["raster"]] + ahead
       >= Term + (IF pc["platform"] \in Counting THEN 1 ELSE 0)

(* The platform thread waits for the one teardown there is. *)
OneTeardown ==
  /\ \A i \in 1..Len(tasks) :
       tasks[i][1] = "teardown" =>
         /\ pc["platform"] = "wait" /\ pc["raster"] # "teardown"
         /\ \A j \in 1..Len(tasks) : tasks[j][1] = "teardown" => j = i
  /\ pc["raster"] = "teardown" => pc["platform"] = "wait"

(* Unless the merger was enabled under it, a leaving call keeps the threads *)
(* from being merged.                                                       *)
CallFreezes ==
  pc["platform"] \in Leaving /\ ~thawed =>
    /\ ~enabled /\ pc["raster"] # "merging"
    /\ pc["platform"] \in {"post", "wait"} => ~owned

IInv ==
  /\ TypeOK
  /\ OwnBranch /\ Exclusion /\ QueueHeld /\ AheadCounts /\ LeaseLasts
  /\ OneTeardown /\ CallFreezes

-----------------------------------------------------------------------------
(* What the loop takes up is a task of some shell. *)
LEMMA NextTask ==
  ASSUME TypeOK, tasks # <<>>
  PROVE  /\ Head(tasks)[1] \in {"draw", "redraw", "setup", "teardown"} /\ Head(tasks)[2] \in Shells
         /\ Tail(tasks) \in Seq(Tasks)
<1>1. tasks \in Seq(Tasks)
  BY DEF TypeOK
<1>2. Head(tasks) \in Tasks /\ Tail(tasks) \in Seq(Tasks)
  BY <1>1, HeadTailProperties
<1> QED BY <1>2 DEF Tasks

LEMMA TypeStep ==
  ASSUME TypeOK, [Next]_vars
  PROVE  TypeOK'
<1> USE TermAssumption DEF TypeOK, At, Go, Threads, RasterSteps, Drawing, Leaving, vars,
        mergerVars, history, threadVars, shellVars
<1>0. ASSUME NEW h \in Threads PROVE shell[h] \in Shells /\ Drawn(h) \in {"finish", "decrement"}
  BY <1>0 DEF Drawn
<1>1. ASSUME NEW h \in Threads, Take(h) PROVE TypeOK'
  <2>1. tasks # <<>>
    BY <1>1 DEF Take
  <2>2. /\ Head(tasks)[1] \in {"draw", "redraw", "setup", "teardown"} /\ Head(tasks)[2] \in Shells
        /\ Tail(tasks) \in Seq(Tasks)
    BY <2>1, NextTask
  <2> QED BY <1>1, <2>2 DEF Take
<1>2. ASSUME NEW h \in Threads, DrawNothing(h) PROVE TypeOK'
  BY <1>2 DEF DrawNothing
<1>3. ASSUME NEW h \in Threads, DrawTree(h) PROVE TypeOK'
  <2>1. shell[h] \in Shells
    BY <1>3
  <2>2. pipeline[shell[h]] \in Seq(BOOLEAN) /\ pipeline[shell[h]] # <<>>
    BY <1>3, <2>1 DEF DrawTree
  <2>3. Tail(pipeline[shell[h]]) \in Seq(BOOLEAN)
    BY <2>2, HeadTailProperties
  <2>4. pipeline' = [pipeline EXCEPT ![shell[h]] = Tail(pipeline[shell[h]])]
    BY <1>3 DEF DrawTree
  <2>5. pipeline' \in [Shells -> Seq(BOOLEAN)]
    BY <2>1, <2>3, <2>4
  <2>6. more' \in [Threads -> BOOLEAN]
    <3>1. (Len(pipeline[shell[h]]) > 1) \in BOOLEAN
      OBVIOUS
    <3>2. more' = [more EXCEPT ![h] = Len(pipeline[shell[h]]) > 1]
      BY <1>3 DEF DrawTree
    <3> QED BY <1>3, <3>1, <3>2
  <2>7. PICK step \in {"finish", "decrement", "preroll"} : pc' = [pc EXCEPT ![h] = step]
    BY <1>3 DEF DrawTree
  <2>8. hadViews' \subseteq Shells /\ last' \in [Shells -> {"none", "plain", "views"}]
    BY <1>3 DEF DrawTree
  <2>9. /\ yielded' \subseteq Shells
        /\ UNCHANGED <<mergerVars, tasks, shell, retry, redraw, merger, surface, view,
                       inputs, ahead, thawed>>
    BY <1>3 DEF DrawTree
  <2> QED BY <2>5, <2>6, <2>7, <2>8, <2>9
<1>4. ASSUME NEW h \in Threads, DrawLast(h) PROVE TypeOK'
  <2>1. PICK step \in {"idle", "finish", "preroll"} : pc' = [pc EXCEPT ![h] = step]
    BY <1>4 DEF DrawLast
  <2>2. /\ hadViews' \subseteq Shells /\ last' \in [Shells -> {"none", "plain", "views"}]
    BY <1>4 DEF DrawLast
  <2>3. redraw' \in [Threads -> BOOLEAN]
    BY <1>4 DEF DrawLast
  <2> QED BY <1>4, <2>1, <2>2, <2>3 DEF DrawLast
<1>5. ASSUME NEW h \in Threads, Preroll(h) PROVE TypeOK'
  BY <1>5 DEF Preroll
<1>6. ASSUME NEW h \in Threads, MergeWithLease(h) PROVE TypeOK'
  BY <1>6, <1>0 DEF MergeWithLease
<1>7. ASSUME NEW h \in Threads, SharedMerge(h) PROVE TypeOK'
  <2>1. owned' \in BOOLEAN
    BY <1>7 DEF SharedMerge
  <2> QED BY <1>7, <2>1, <1>0 DEF SharedMerge
<1>8. ASSUME NEW h \in Threads, TakeLease(h) PROVE TypeOK'
  <2>1. lease' \in [Shells -> Nat] /\ callers' \subseteq Shells
    BY <1>8, <1>0 DEF TakeLease
  <2> QED BY <1>8, <2>1, <1>0 DEF TakeLease
<1>9. ASSUME NEW h \in Threads, ExtendLease(h) PROVE TypeOK'
  <2>1. lease' \in [Shells -> Nat] /\ callers' \subseteq Shells
    BY <1>9, <1>0 DEF ExtendLease
  <2>2. last' \in [Shells -> {"none", "plain", "views"}] /\ hadViews' \subseteq Shells
    BY <1>9, <1>0 DEF ExtendLease
  <2> QED BY <1>9, <2>1, <2>2, <1>0 DEF ExtendLease
<1>10. ASSUME NEW h \in Threads, DecrementLease(h) PROVE TypeOK'
  BY <1>10 DEF DecrementLease
<1>11. ASSUME NEW h \in Threads, SharedDecrement(h) PROVE TypeOK'
  <2>1. lease' = IF shell[h] \in callers /\ ~Lapsed(shell[h])
                 THEN [lease EXCEPT ![shell[h]] = lease[shell[h]] - 1] ELSE lease
    BY <1>11 DEF SharedDecrement
  <2>2. shell[h] \in callers /\ ~Lapsed(shell[h]) => lease[shell[h]] - 1 \in Nat
    BY <1>11 DEF Lapsed
  <2>3. lease' \in [Shells -> Nat]
    BY <1>11, <2>1, <2>2
  <2> QED BY <1>11, <2>3 DEF SharedDecrement
<1>12. ASSUME NEW h \in Threads, UnmergeLapsed(h) PROVE TypeOK'
  BY <1>12 DEF UnmergeLapsed, Unmerge
<1>13. ASSUME NEW h \in Threads, FinishDraw(h) PROVE TypeOK'
  <2>1. <<"draw", shell[h]>> \in Tasks
    BY <1>13 DEF Tasks
  <2>2. tasks' \in Seq(Tasks)
    BY <1>13, <2>1 DEF FinishDraw
  <2>3. pipeline' \in [Shells -> Seq(BOOLEAN)]
    <3>1. <<TRUE>> \in Seq(BOOLEAN)
      OBVIOUS
    <3> QED BY <1>13, <3>1 DEF FinishDraw
  <2> QED BY <1>13, <2>2, <2>3 DEF FinishDraw
<1>14. ASSUME NEW h \in Threads, Setup(h) PROVE TypeOK'
  BY <1>14 DEF Setup
<1>15. ASSUME NEW h \in Threads, Teardown(h) PROVE TypeOK'
  BY <1>15 DEF Teardown, TornDown
<1>16. ASSUME NEW h \in Threads, UnmergeIfLast(h) PROVE TypeOK'
  <2>1. lease' \in [Shells -> Nat] /\ callers' \subseteq Shells
    BY <1>16, <1>0 DEF UnmergeIfLast
  <2>2. pc' \in [Threads -> RasterSteps \cup Leaving \cup {"idle", "created"}]
    BY <1>16 DEF UnmergeIfLast, TornDown
  <2> QED BY <1>16, <2>1, <2>2 DEF UnmergeIfLast
<1>17. ASSUME NEW h \in Threads, UnmergeLast(h) PROVE TypeOK'
  BY <1>17 DEF UnmergeLast, Unmerge, TornDown
<1>18. CASE RunOrPostSetup
  <2>1. <<"setup", shell["platform"]>> \in Tasks
    BY DEF Tasks
  <2> QED BY <1>18, <2>1 DEF RunOrPostSetup
<1>19. CASE RunTeardown
  BY <1>19 DEF RunTeardown
<1>20. CASE PostTeardown
  <2>1. <<"teardown", shell["platform"]>> \in Tasks
    BY DEF Tasks
  <2> QED BY <1>20, <2>1 DEF PostTeardown
<1>21. ASSUME NEW s \in Shells, PlatformViewCreated(s) PROVE TypeOK'
  BY <1>21 DEF PlatformViewCreated, Call, StaysEnabled
<1>22. ASSUME NEW s \in Shells, PlatformViewDestroyed(s) PROVE TypeOK'
  BY <1>22 DEF PlatformViewDestroyed, Call, StaysEnabled
<1>23. ASSUME NEW s \in Shells, Build(s) PROVE TypeOK'
  <2>1. <<"draw", s>> \in Tasks
    BY DEF Tasks
  <2>2. pipeline' \in [Shells -> Seq(BOOLEAN)]
    <3>1. PICK views \in BOOLEAN : pipeline' = [pipeline EXCEPT ![s] = Append(pipeline[s], views)]
      BY <1>23 DEF Build
    <3>2. Append(pipeline[s], views) \in Seq(BOOLEAN)
      OBVIOUS
    <3> QED BY <3>1, <3>2
  <2>3. tasks' \in Seq(Tasks)
    BY <1>23, <2>1 DEF Build
  <2> QED BY <1>23, <2>2, <2>3 DEF Build
<1>24. ASSUME NEW s \in Shells, Redraw(s) PROVE TypeOK'
  <2>1. <<"redraw", s>> \in Tasks
    BY DEF Tasks
  <2> QED BY <1>24, <2>1 DEF Redraw
<1>25. CASE UNCHANGED vars
  BY <1>25
<1> QED
  BY <1>1, <1>2, <1>3, <1>4, <1>5, <1>6, <1>7, <1>8, <1>9, <1>10, <1>11, <1>12, <1>13,
     <1>14, <1>15, <1>16, <1>17, <1>18, <1>19, <1>20, <1>21, <1>22, <1>23, <1>24, <1>25
  DEF Next, RunRaster, FinishCall, PlatformCall

-----------------------------------------------------------------------------
(* Queues and leases change together but for the holder of the shared mutex:  *)
(* this is where the lag matters, when one thread extends a lease while the    *)
(* other is about to count against it.                                         *)
Agreement == OwnBranch /\ Exclusion /\ QueueHeld /\ AheadCounts /\ LeaseLasts

LEMMA AgreementStep ==
  ASSUME TypeOK, Agreement, [Next]_vars
  PROVE  Agreement'
<1> USE TermAssumption, LagAssumption
    DEF Agreement, OwnBranch, Exclusion, QueueHeld, AheadCounts, LeaseLasts, Counting, TypeOK,
        At, Go, Threads, RasterSteps, Drawing, Leaving, HoldOwn, HoldShared, vars, mergerVars,
        history, threadVars, shellVars
<1>0. ASSUME NEW h \in Threads PROVE Drawn(h) \in {"finish", "decrement"}
  BY DEF Drawn
<1>1. ASSUME NEW h \in Threads, Take(h) PROVE Agreement'
  <2>1. Head(tasks)[1] \in {"draw", "redraw", "setup", "teardown"}
    BY <1>1, NextTask DEF Take
  <2>2. IsMerged' <=> IsMerged
    BY <1>1 DEF Take, IsMerged
  <2>3. /\ pc' = [pc EXCEPT ![h] = Head(tasks)[1]] /\ pc[h] = "idle"
        /\ owned' = owned /\ (owned <=> h = "platform") /\ callers' = callers
        /\ \A g \in Threads \ {h} : shell'[g] = shell[g]
    BY <1>1 DEF Take
  <2>4. OwnBranch' /\ Exclusion' /\ QueueHeld'
    BY <2>1, <2>2, <2>3
  <2>5. AheadCounts'
    BY <1>1, <2>1, <2>3 DEF Take
  <2>6. LeaseLasts'
    <3>1. lease' = lease /\ pc'[h] = Head(tasks)[1]
      BY <1>1, <2>3 DEF Take
    <3>2. SUFFICES ASSUME pc'["raster"] = "count" \/ (pc'["raster"] = "decrement" /\ owned),
                          shell'["raster"] \in callers
                   PROVE  lease[shell'["raster"]] + ahead'
                            >= Term + (IF pc'["platform"] \in Counting THEN 1 ELSE 0)
      BY <2>3, <3>1
    <3>3. h = "platform" /\ pc["raster"] = pc'["raster"] /\ shell'["raster"] = shell["raster"]
      BY <2>1, <2>3, <3>2
    <3>4. ahead' = ahead + 1 /\ pc["platform"] = "idle"
      BY <1>1, <3>2, <3>3 DEF Take
    <3>5. lease[shell["raster"]] \in Nat
      OBVIOUS
    <3> QED BY <2>3, <3>2, <3>3, <3>4, <3>5
  <2> QED BY <2>4, <2>5, <2>6
<1>2. ASSUME NEW h \in Threads, DrawNothing(h) PROVE Agreement'
  <2>1. IsMerged' <=> IsMerged
    BY <1>2 DEF DrawNothing, IsMerged
  <2> QED BY <1>2, <2>1 DEF DrawNothing
<1>3. ASSUME NEW h \in Threads, DrawTree(h) PROVE Agreement'
  <2>1. IsMerged' <=> IsMerged
    BY <1>3 DEF DrawTree, IsMerged
  <2>2. PICK step \in {"finish", "preroll", "decrement"} : pc' = [pc EXCEPT ![h] = step]
    BY <1>3 DEF DrawTree
  <2>3. pc[h] = "draw" /\ UNCHANGED <<owned, aborted, callers, lease, ahead, shell>>
    BY <1>3 DEF DrawTree
  <2> QED BY <2>1, <2>2, <2>3
<1>4. ASSUME NEW h \in Threads, DrawLast(h) PROVE Agreement'
  <2>1. IsMerged' <=> IsMerged
    BY <1>4 DEF DrawLast, IsMerged
  <2>2. PICK step \in {"idle", "finish", "preroll"} : pc' = [pc EXCEPT ![h] = step]
    BY <1>4 DEF DrawLast
  <2>3. pc[h] = "redraw" /\ UNCHANGED <<owned, aborted, callers, lease, ahead, shell>>
    BY <1>4 DEF DrawLast
  <2> QED BY <2>1, <2>2, <2>3
<1>5. ASSUME NEW h \in Threads, Preroll(h) PROVE Agreement'
  <2>1. IsMerged' <=> IsMerged
    BY <1>5 DEF Preroll, IsMerged
  <2> QED BY <1>5, <2>1 DEF Preroll
<1>6. ASSUME NEW h \in Threads, MergeWithLease(h) PROVE Agreement'
  <2>1. IsMerged' <=> IsMerged
    BY <1>6 DEF MergeWithLease, IsMerged
  <2>2. PICK step \in {"merging", "finish", "decrement"} : pc' = [pc EXCEPT ![h] = step]
    BY <1>6, <1>0 DEF MergeWithLease
  <2>3. /\ pc[h] = "merge" /\ UNCHANGED <<owned, aborted, callers, lease, ahead, shell>>
        /\ MutexFree(shell[h])
    BY <1>6 DEF MergeWithLease
  <2> QED BY <2>1, <2>2, <2>3 DEF MutexFree
<1>7. ASSUME NEW h \in Threads, SharedMerge(h) PROVE Agreement'
  <2>1. /\ pc[h] = "merging" /\ UNCHANGED <<aborted, callers, lease, ahead, shell>>
        /\ pc["platform"] \notin HoldShared /\ pc["raster"] \notin HoldShared
    BY <1>7 DEF SharedMerge, SharedFree
  <2>2. IsMerged' <=> IsMerged
    BY <2>1 DEF IsMerged
  <2>3. CASE IsMerged
    <3>1. owned' = owned
      BY <1>7, <2>3 DEF SharedMerge
    <3>2. PICK step \in {"finish", "decrement"} : pc' = [pc EXCEPT ![h] = step]
      BY <1>7, <1>0, <2>3 DEF SharedMerge
    <3> QED BY <2>1, <2>2, <3>1, <3>2
  <2>4. CASE ~IsMerged
    <3>1. owned' /\ pc' = [pc EXCEPT ![h] = "lease"]
      BY <1>7, <2>4 DEF SharedMerge
    <3>2. ~owned /\ h = "raster"
      BY <2>1, <2>4
    <3> QED BY <2>1, <2>2, <2>4, <3>1, <3>2
  <2> QED BY <2>3, <2>4
<1>8. ASSUME NEW h \in Threads, TakeLease(h) PROVE Agreement'
  <2>1. /\ pc[h] = "lease" /\ UNCHANGED <<owned, aborted, ahead, shell>>
        /\ callers' = callers \cup {shell[h]} /\ lease' = [lease EXCEPT ![shell[h]] = Term]
    BY <1>8 DEF TakeLease
  <2>2. PICK step \in {"finish", "decrement"} : pc' = [pc EXCEPT ![h] = step]
    BY <1>8, <1>0 DEF TakeLease
  <2>3. h = "raster" /\ owned /\ pc["platform"] \notin HoldShared
    BY <2>1
  <2>4. lease'[shell[h]] = Term /\ IsMerged'
    BY <2>1 DEF IsMerged
  <2>5. OwnBranch' /\ Exclusion' /\ QueueHeld' /\ AheadCounts'
    BY <2>1, <2>2, <2>3, <2>4
  <2>6. LeaseLasts'
    BY <2>1, <2>2, <2>3, <2>4
  <2> QED BY <2>5, <2>6
<1>9. ASSUME NEW h \in Threads, ExtendLease(h) PROVE Agreement'
  <2>1. /\ pc[h] = "extend" /\ UNCHANGED <<owned, aborted, ahead, shell>>
        /\ MutexFree(shell[h]) /\ (enabled => SharedFree)
    BY <1>9 DEF ExtendLease
  <2>2. PICK step \in {"finish", "decrement"} : pc' = [pc EXCEPT ![h] = step]
    BY <1>9, <1>0 DEF ExtendLease
  <2>3. h = "platform" /\ owned
    BY <2>1
  <2>4. CASE ~enabled
    <3>1. callers' = callers /\ lease' = lease
      BY <1>9, <2>4 DEF ExtendLease
    <3>2. IsMerged' <=> IsMerged
      BY <3>1 DEF IsMerged
    <3> QED BY <2>1, <2>2, <2>3, <3>1, <3>2
  <2>5. CASE enabled
    <3>1. callers' = callers \cup {shell[h]} /\ lease' = [lease EXCEPT ![shell[h]] = Term]
      BY <1>9, <2>5 DEF ExtendLease
    <3>2. lease'[shell[h]] = Term /\ IsMerged'
      BY <3>1 DEF IsMerged
    <3>3. pc["raster"] \notin HoldShared
      BY <2>1, <2>5 DEF SharedFree
    <3>4. OwnBranch' /\ Exclusion' /\ QueueHeld' /\ AheadCounts'
      BY <2>1, <2>2, <2>3, <3>1, <3>2, <3>3
    <3>5. LeaseLasts'
      <4>1. CASE shell["raster"] = shell[h]
        BY <2>1, <2>2, <2>3, <3>1, <3>2, <4>1
      <4>2. CASE shell["raster"] # shell[h]
        BY <2>1, <2>2, <2>3, <3>1, <4>2
      <4> QED BY <4>1, <4>2
    <3> QED BY <3>4, <3>5
  <2> QED BY <2>4, <2>5
<1>10. ASSUME NEW h \in Threads, DecrementLease(h) PROVE Agreement'
  <2>1. IsMerged' <=> IsMerged
    BY <1>10 DEF DecrementLease, IsMerged
  <2>2. /\ pc[h] = "decrement" /\ UNCHANGED <<owned, aborted, callers, lease, ahead, shell>>
        /\ MutexFree(shell[h])
    BY <1>10 DEF DecrementLease
  <2>3. CASE Counts
    <3>1. pc' = [pc EXCEPT ![h] = "count"] /\ IsMerged
      BY <1>10, <2>3 DEF DecrementLease, Counts
    <3> QED BY <2>1, <2>2, <3>1 DEF MutexFree
  <2>4. CASE ~Counts
    <3>1. pc' = [pc EXCEPT ![h] = "finish"]
      BY <1>10, <2>4 DEF DecrementLease
    <3> QED BY <2>1, <2>2, <3>1
  <2> QED BY <2>3, <2>4
<1>11. ASSUME NEW h \in Threads, SharedDecrement(h) PROVE Agreement'
  <2> DEFINE s == shell[h]
  <2>1. /\ pc[h] = "count" /\ UNCHANGED <<owned, callers, ahead, shell>>
        /\ pc["platform"] \notin HoldShared /\ pc["raster"] \notin HoldShared
    BY <1>11 DEF SharedDecrement, SharedFree
  <2>2. lease' = IF s \in callers /\ ~Lapsed(s) THEN [lease EXCEPT ![s] = lease[s] - 1] ELSE lease
    BY <1>11 DEF SharedDecrement
  <2>3. /\ pc' = [pc EXCEPT ![h] = IF \A t \in callers : lease'[t] = 0 THEN "lapse" ELSE "finish"]
        /\ lease' \in [Shells -> Nat]
    BY <1>11, TypeStep DEF SharedDecrement
  <2>4. \A t \in callers : lease'[t] <= lease[t] /\ (t # s => lease'[t] = lease[t])
    BY <2>2 DEF Lapsed
  <2>5. IsMerged' => IsMerged
    BY <2>1, <2>3, <2>4 DEF IsMerged
  <2>6. s \in callers => lease'[s] + 1 >= lease[s]
    BY <2>2, <2>3 DEF Lapsed
  <2>7. CASE h = "platform"
    <3>0. PICK step \in {"lapse", "finish"} : pc' = [pc EXCEPT ![h] = step]
      BY <2>3
    <3>1. owned /\ IsMerged
      BY <2>1, <2>7
    <3>2. LeaseLasts'
      <4>1. SUFFICES ASSUME pc["raster"] = "count" \/ (pc["raster"] = "decrement" /\ owned),
                            shell["raster"] \in callers
                     PROVE  lease'[shell["raster"]] + ahead >= Term
        BY <2>1, <2>3, <2>7, <3>0
      <4>2. lease[shell["raster"]] + ahead >= Term + 1
        BY <2>1, <2>7, <4>1
      <4>3. lease'[shell["raster"]] + 1 >= lease[shell["raster"]]
        BY <2>3, <2>4, <2>6, <4>1
      <4>4. lease[shell["raster"]] \in Nat /\ lease'[shell["raster"]] \in Nat /\ ahead \in Nat
        BY <2>3
      <4> QED BY <4>2, <4>3, <4>4
    <3>3. CASE \A t \in callers : lease'[t] = 0
      <4>1. pc' = [pc EXCEPT ![h] = "lapse"]
        BY <2>3, <3>3
      <4>2. ~IsMerged'
        <5>1. \A t \in callers' : ~(lease'[t] > 0)
          BY <2>1, <3>3
        <5> QED BY <5>1 DEF IsMerged
      <4> QED BY <2>1, <2>7, <3>1, <3>2, <4>1, <4>2
    <3>4. CASE ~(\A t \in callers : lease'[t] = 0)
      <4>1. pc' = [pc EXCEPT ![h] = "finish"]
        BY <2>3, <3>4
      <4>2. IsMerged'
        <5>1. PICK t \in callers : lease'[t] # 0
          BY <3>4
        <5>2. lease'[t] > 0 /\ t \in callers'
          BY <2>1, <2>3, <5>1
        <5> QED BY <5>2 DEF IsMerged
      <4> QED BY <2>1, <2>7, <3>1, <3>2, <4>1, <4>2
    <3> QED BY <3>3, <3>4
  <2>8. CASE h = "raster"
    <3>1. CASE s \in callers
      <4>1. lease[s] + ahead >= Term /\ lease[s] \in Nat
        BY <2>1, <2>8, <3>1
      <4>2. lease'[s] > 0
        BY <2>3, <2>6, <3>1, <4>1
      <4>3. pc' = [pc EXCEPT ![h] = "finish"]
        <5>1. lease'[s] # 0
          BY <4>2
        <5>2. ~(\A t \in callers : lease'[t] = 0)
          BY <3>1, <5>1
        <5> QED BY <2>3, <5>2
      <4>4. IsMerged'
        BY <2>1, <3>1, <4>2 DEF IsMerged
      <4> QED BY <2>1, <2>5, <2>8, <4>3, <4>4
    <3>2. CASE s \notin callers
      <4>1. lease' = lease /\ (IsMerged' <=> IsMerged)
        BY <2>1, <2>2, <3>2 DEF IsMerged
      <4>2. CASE IsMerged
        <5>1. ~(\A t \in callers : lease'[t] = 0)
          BY <4>1, <4>2 DEF IsMerged
        <5>2. pc' = [pc EXCEPT ![h] = "finish"]
          BY <2>3, <5>1
        <5> QED BY <2>1, <2>8, <4>1, <4>2, <5>2
      <4>3. CASE ~IsMerged
        <5>1. \A t \in callers : lease'[t] = 0
          <6> SUFFICES ASSUME NEW t \in callers PROVE lease[t] = 0
            BY <4>1
          <6>1. lease[t] \in Nat /\ ~(lease[t] > 0)
            BY <4>3 DEF IsMerged
          <6> QED BY <6>1
        <5>2. pc' = [pc EXCEPT ![h] = "lapse"]
          BY <2>3, <5>1
        <5>3. ~owned
          BY <2>1, <2>8, <4>3
        <5> QED BY <2>1, <2>8, <3>2, <4>1, <4>3, <5>2, <5>3
      <4> QED BY <4>2, <4>3
    <3> QED BY <3>1, <3>2
  <2> QED BY <2>7, <2>8
<1>12. ASSUME NEW h \in Threads, UnmergeLapsed(h) PROVE Agreement'
  <2>1. /\ pc[h] = "lapse" /\ pc' = [pc EXCEPT ![h] = "finish"] /\ ~owned'
        /\ UNCHANGED <<callers, lease, ahead, shell>>
    BY <1>12 DEF UnmergeLapsed, Unmerge
  <2>2. IsMerged' <=> IsMerged
    BY <2>1 DEF IsMerged
  <2>3. ~IsMerged
    BY <2>1
  <2>4. pc["raster"] = "count" => shell["raster"] \notin callers
    <3> SUFFICES ASSUME pc["raster"] = "count", shell["raster"] \in callers PROVE FALSE
      OBVIOUS
    <3>1. lease[shell["raster"]] > 0
      OBVIOUS
    <3> QED BY <2>3, <3>1 DEF IsMerged
  <2> QED BY <2>1, <2>2, <2>3, <2>4
<1>13. ASSUME NEW h \in Threads, FinishDraw(h) PROVE Agreement'
  <2>1. IsMerged' <=> IsMerged
    BY <1>13 DEF FinishDraw, IsMerged
  <2> QED BY <1>13, <2>1 DEF FinishDraw
<1>14. ASSUME NEW h \in Threads, Setup(h) PROVE Agreement'
  <2>1. IsMerged' <=> IsMerged
    BY <1>14 DEF Setup, IsMerged
  <2> QED BY <1>14, <2>1 DEF Setup
<1>15. ASSUME NEW h \in Threads, Teardown(h) PROVE Agreement'
  <2>1. IsMerged' <=> IsMerged
    BY <1>15 DEF Teardown, IsMerged, TornDown
  <2> QED BY <1>15, <2>1 DEF Teardown, TornDown, MustUnmerge
<1>16. ASSUME NEW h \in Threads, UnmergeIfLast(h) PROVE Agreement'
  <2> DEFINE s == shell[h]
  <2>1. /\ pc[h] = "unmerge" /\ UNCHANGED <<owned, aborted, ahead, shell>>
        /\ MutexFree(s) /\ (enabled => SharedFree)
    BY <1>16 DEF UnmergeIfLast
  <2>2. h = "platform" /\ owned
    BY <2>1
  <2>3. CASE ~enabled
    <3>1. callers' = callers /\ lease' = lease
      BY <1>16, <2>3 DEF UnmergeIfLast
    <3>2. pc' = [pc EXCEPT ![h] = "idle"]
      BY <1>16, <2>2, <2>3 DEF UnmergeIfLast, LastOne, TornDown
    <3>3. IsMerged' <=> IsMerged
      BY <3>1 DEF IsMerged
    <3> QED BY <2>1, <2>2, <3>1, <3>2, <3>3
  <2>4. CASE enabled
    <3>1. callers' = callers \ {s} /\ lease' = [lease EXCEPT ![s] = 0]
      BY <1>16, <2>4 DEF UnmergeIfLast
    <3>2. IsMerged' <=> \E t \in callers \ {s} : lease[t] > 0
      BY <2>1, <3>1 DEF IsMerged
    <3>3. pc["raster"] \notin HoldShared
      BY <2>1, <2>4 DEF SharedFree
    <3>4. CASE LastOne(s)
      <4>1. pc' = [pc EXCEPT ![h] = "last"] /\ ~IsMerged'
        BY <1>16, <2>1, <3>2, <3>4 DEF UnmergeIfLast, LastOne
      <4> QED BY <2>1, <2>2, <3>1, <3>3, <4>1 DEF MutexFree
    <3>5. CASE ~LastOne(s)
      <4>1. pc' = [pc EXCEPT ![h] = "idle"]
        BY <1>16, <2>2, <3>5 DEF UnmergeIfLast, TornDown
      <4>2. IsMerged'
        BY <2>4, <3>2, <3>5 DEF LastOne
      <4> QED BY <2>1, <2>2, <3>1, <3>3, <4>1, <4>2 DEF MutexFree
    <3> QED BY <3>4, <3>5
  <2> QED BY <2>3, <2>4
<1>17. ASSUME NEW h \in Threads, UnmergeLast(h) PROVE Agreement'
  <2>1. /\ pc[h] = "last" /\ ~owned' /\ UNCHANGED <<callers, lease, ahead, shell>>
    BY <1>17 DEF UnmergeLast, Unmerge
  <2>2. h = "platform" /\ pc' = [pc EXCEPT ![h] = "idle"]
    BY <1>17, <2>1 DEF UnmergeLast, TornDown
  <2>3. (IsMerged' <=> IsMerged) /\ ~IsMerged
    BY <2>1, <2>2 DEF IsMerged
  <2>4. pc["raster"] = "count" => shell["raster"] \notin callers
    <3> SUFFICES ASSUME pc["raster"] = "count", shell["raster"] \in callers PROVE FALSE
      OBVIOUS
    <3>1. lease[shell["raster"]] > 0
      OBVIOUS
    <3> QED BY <2>3, <3>1 DEF IsMerged
  <2> QED BY <2>1, <2>2, <2>3, <2>4
<1>18. CASE RunOrPostSetup
  <2>1. IsMerged' <=> IsMerged
    BY <1>18 DEF RunOrPostSetup, IsMerged
  <2> QED BY <1>18, <2>1 DEF RunOrPostSetup
<1>19. CASE RunTeardown
  <2>1. IsMerged' <=> IsMerged
    BY <1>19 DEF RunTeardown, IsMerged
  <2> QED BY <1>19, <2>1 DEF RunTeardown
<1>20. CASE PostTeardown
  <2>1. IsMerged' <=> IsMerged
    BY <1>20 DEF PostTeardown, IsMerged
  <2> QED BY <1>20, <2>1 DEF PostTeardown
<1>21. ASSUME NEW s \in Shells, PlatformViewCreated(s) PROVE Agreement'
  <2>1. IsMerged' <=> IsMerged
    BY <1>21 DEF PlatformViewCreated, IsMerged, Call
  <2> QED BY <1>21, <2>1 DEF PlatformViewCreated, Call
<1>22. ASSUME NEW s \in Shells, PlatformViewDestroyed(s) PROVE Agreement'
  <2>1. IsMerged' <=> IsMerged
    BY <1>22 DEF PlatformViewDestroyed, IsMerged, Call
  <2> QED BY <1>22, <2>1 DEF PlatformViewDestroyed, Call
<1>23. ASSUME NEW s \in Shells, Build(s) PROVE Agreement'
  <2>1. IsMerged' <=> IsMerged
    BY <1>23 DEF Build, IsMerged
  <2> QED BY <1>23, <2>1 DEF Build
<1>24. ASSUME NEW s \in Shells, Redraw(s) PROVE Agreement'
  <2>1. IsMerged' <=> IsMerged
    BY <1>24 DEF Redraw, IsMerged
  <2> QED BY <1>24, <2>1 DEF Redraw
<1>25. CASE UNCHANGED vars
  <2>1. IsMerged' <=> IsMerged
    BY <1>25 DEF IsMerged
  <2> QED BY <1>25, <2>1
<1> QED
  BY <1>1, <1>2, <1>3, <1>4, <1>5, <1>6, <1>7, <1>8, <1>9, <1>10, <1>11, <1>12, <1>13,
     <1>14, <1>15, <1>16, <1>17, <1>18, <1>19, <1>20, <1>21, <1>22, <1>23, <1>24, <1>25
  DEF Next, RunRaster, FinishCall, PlatformCall

-----------------------------------------------------------------------------
(* The platform thread waits for one teardown, and nothing merges meanwhile *)
(* but by what thawed records.                                              *)
Waiting == OneTeardown /\ CallFreezes

(* Tasks of other kinds may be posted. *)
LEMMA Posted ==
  ASSUME tasks \in Seq(Tasks), NEW q, NEW kind \in {"draw", "redraw", "setup"}, NEW s,
         q = tasks \/ q = Append(tasks, <<kind, s>>)
  PROVE  \A i \in 1..Len(q) : q[i][1] = "teardown" => i \in 1..Len(tasks) /\ q[i] = tasks[i]
<1>1. CASE q = tasks
  BY <1>1
<1>2. CASE q = Append(tasks, <<kind, s>>)
  <2>1. Len(q) = Len(tasks) + 1 /\ Len(tasks) \in Nat
    BY <1>2
  <2>2. \A i \in 1..Len(q) : q[i] = IF i \in 1..Len(tasks) THEN tasks[i] ELSE <<kind, s>>
    BY <1>2, <2>1
  <2>3. <<kind, s>>[1] # "teardown"
    OBVIOUS
  <2> QED BY <2>1, <2>2, <2>3
<1> QED BY <1>1, <1>2

(* A task that is left when the first is taken was there before, one later. *)
LEMMA LeftWhenTaken ==
  ASSUME NEW q \in Seq(Tasks), q # <<>>, NEW i \in 1..Len(Tail(q))
  PROVE  /\ i + 1 \in 1..Len(q) /\ 1 \in 1..Len(q)
         /\ Tail(q)[i] = q[i + 1]
<1>1. /\ Len(q) \in Nat /\ Len(q) > 0 /\ Len(Tail(q)) = Len(q) - 1
      /\ Tail(q)[i] = q[i + 1]
  BY HeadTailProperties
<1> QED BY <1>1

LEMMA WaitingStep ==
  ASSUME TypeOK, Agreement, Waiting, [Next]_vars
  PROVE  Waiting'
<1> USE DEF Waiting, OneTeardown, CallFreezes, Agreement, OwnBranch, QueueHeld, TypeOK, At, Go,
        Threads, RasterSteps, Drawing, Leaving, vars, mergerVars, history, threadVars, shellVars
<1>0. ASSUME NEW h \in Threads PROVE Drawn(h) \in {"finish", "decrement"}
  BY DEF Drawn
<1>1. ASSUME NEW h \in Threads, Take(h) PROVE Waiting'
  <2>1. tasks # <<>> /\ tasks' = Tail(tasks)
    BY <1>1 DEF Take
  <2>2. /\ Len(tasks) \in Nat /\ Len(tasks) > 0 /\ Len(tasks') = Len(tasks) - 1
        /\ \A i \in 1..Len(tasks') : tasks'[i] = tasks[i + 1]
    BY <2>1, HeadTailProperties
  <2>3. Head(tasks) = tasks[1]
    BY <2>1
  <2>4. pc' = [pc EXCEPT ![h] = tasks[1][1]] /\ pc[h] = "idle" /\ (owned <=> h = "platform")
    BY <1>1, <2>3 DEF Take
  <2>5. tasks[1][1] \in {"draw", "redraw", "setup", "teardown"}
    BY <2>1, <2>3, NextTask
  <2>6. OneTeardown'
    <3>1. ASSUME NEW i \in 1..Len(tasks'), tasks'[i][1] = "teardown"
          PROVE  /\ pc'["platform"] = "wait" /\ pc'["raster"] # "teardown"
                 /\ \A j \in 1..Len(tasks') : tasks'[j][1] = "teardown" => j = i
      <4>1. i + 1 \in 1..Len(tasks) /\ tasks[i + 1][1] = "teardown" /\ 1 \in 1..Len(tasks)
        <5>1. tasks \in Seq(Tasks) /\ tasks'[i] = Tail(tasks)[i] /\ i \in 1..Len(Tail(tasks))
          BY <2>1
        <5>2. i + 1 \in 1..Len(tasks) /\ 1 \in 1..Len(tasks) /\ tasks'[i] = tasks[i + 1]
          BY <2>1, <5>1, LeftWhenTaken
        <5> QED BY <3>1, <5>2
      <4>2. pc["platform"] = "wait" /\ pc["raster"] # "teardown" /\ tasks[1][1] # "teardown"
        BY <4>1
      <4>3. \A j \in 1..Len(tasks') : tasks'[j][1] = "teardown" => j = i
        <5> SUFFICES ASSUME NEW j \in 1..Len(tasks'), tasks'[j][1] = "teardown"
                     PROVE  j = i
          OBVIOUS
        <5>1. j + 1 \in 1..Len(tasks) /\ tasks[j + 1][1] = "teardown"
          <6>1. tasks \in Seq(Tasks) /\ tasks'[j] = Tail(tasks)[j] /\ j \in 1..Len(Tail(tasks))
            BY <2>1
          <6>2. j + 1 \in 1..Len(tasks) /\ tasks'[j] = tasks[j + 1]
            BY <2>1, <6>1, LeftWhenTaken
          <6> QED BY <6>2
        <5> QED BY <4>1, <5>1
      <4> QED BY <2>4, <4>2, <4>3
    <3>2. pc'["raster"] = "teardown" => pc'["platform"] = "wait"
      <4>1. 1 \in 1..Len(tasks)
        BY <2>2
      <4> QED BY <2>4, <4>1
    <3> QED BY <3>1, <3>2
  <2>7. CallFreezes'
    BY <1>1, <2>4, <2>5 DEF Take
  <2> QED BY <2>6, <2>7
<1>2. ASSUME NEW h \in Threads, DrawNothing(h) PROVE Waiting'
  BY <1>2 DEF DrawNothing
<1>3. ASSUME NEW h \in Threads, DrawTree(h) PROVE Waiting'
  BY <1>3 DEF DrawTree
<1>4. ASSUME NEW h \in Threads, DrawLast(h) PROVE Waiting'
  BY <1>4 DEF DrawLast
<1>5. ASSUME NEW h \in Threads, Preroll(h) PROVE Waiting'
  BY <1>5 DEF Preroll
<1>6. ASSUME NEW h \in Threads, MergeWithLease(h) PROVE Waiting'
  BY <1>6, <1>0 DEF MergeWithLease
<1>7. ASSUME NEW h \in Threads, SharedMerge(h) PROVE Waiting'
  <2>1. PICK step \in {"lease", "finish", "decrement"} : pc' = [pc EXCEPT ![h] = step]
    BY <1>7, <1>0 DEF SharedMerge
  <2>2. pc[h] = "merging" /\ UNCHANGED <<enabled, tasks, thawed>>
    BY <1>7 DEF SharedMerge
  <2> QED BY <2>1, <2>2
<1>8. ASSUME NEW h \in Threads, TakeLease(h) PROVE Waiting'
  BY <1>8, <1>0 DEF TakeLease
<1>9. ASSUME NEW h \in Threads, ExtendLease(h) PROVE Waiting'
  BY <1>9, <1>0 DEF ExtendLease
<1>10. ASSUME NEW h \in Threads, DecrementLease(h) PROVE Waiting'
  BY <1>10 DEF DecrementLease
<1>11. ASSUME NEW h \in Threads, SharedDecrement(h) PROVE Waiting'
  BY <1>11 DEF SharedDecrement
<1>12. ASSUME NEW h \in Threads, UnmergeLapsed(h) PROVE Waiting'
  BY <1>12 DEF UnmergeLapsed, Unmerge
<1>13. ASSUME NEW h \in Threads, FinishDraw(h) PROVE Waiting'
  <2>1. \A i \in 1..Len(tasks') :
          tasks'[i][1] = "teardown" => i \in 1..Len(tasks) /\ tasks'[i] = tasks[i]
    <3>1. tasks' = tasks \/ tasks' = Append(tasks, <<"draw", shell[h]>>)
      BY <1>13 DEF FinishDraw
    <3> QED BY <3>1, Posted
  <2>2. pc' = [pc EXCEPT ![h] = "idle"] /\ pc[h] = "finish" /\ UNCHANGED <<owned, enabled, thawed>>
    BY <1>13 DEF FinishDraw
  <2>3. OneTeardown'
    <3>1. (pc["platform"] = "wait" => pc'["platform"] = "wait")
          /\ (pc'["raster"] = "teardown" => pc["raster"] = "teardown")
      BY <2>2
    <3> QED BY <2>1, <3>1
  <2>4. CallFreezes'
    BY <2>2
  <2> QED BY <2>3, <2>4
<1>14. ASSUME NEW h \in Threads, Setup(h) PROVE Waiting'
  BY <1>14 DEF Setup
<1>15. ASSUME NEW h \in Threads, Teardown(h) PROVE Waiting'
  BY <1>15 DEF Teardown, TornDown, MustUnmerge
<1>16. ASSUME NEW h \in Threads, UnmergeIfLast(h) PROVE Waiting'
  BY <1>16 DEF UnmergeIfLast, TornDown
<1>17. ASSUME NEW h \in Threads, UnmergeLast(h) PROVE Waiting'
  BY <1>17 DEF UnmergeLast, Unmerge, TornDown
<1>18. CASE RunOrPostSetup
  <2>1. \A i \in 1..Len(tasks') :
          tasks'[i][1] = "teardown" => i \in 1..Len(tasks) /\ tasks'[i] = tasks[i]
    <3>1. tasks' = tasks \/ tasks' = Append(tasks, <<"setup", shell["platform"]>>)
      BY <1>18 DEF RunOrPostSetup
    <3> QED BY <3>1, Posted
  <2>2. OneTeardown'
    BY <1>18, <2>1 DEF RunOrPostSetup
  <2>3. CallFreezes'
    BY <1>18 DEF RunOrPostSetup
  <2> QED BY <2>2, <2>3
<1>19. CASE RunTeardown
  BY <1>19 DEF RunTeardown
<1>20. CASE PostTeardown
  BY <1>20 DEF PostTeardown
<1>21. ASSUME NEW s \in Shells, PlatformViewCreated(s) PROVE Waiting'
  BY <1>21 DEF PlatformViewCreated, Call, StaysEnabled
<1>22. ASSUME NEW s \in Shells, PlatformViewDestroyed(s) PROVE Waiting'
  BY <1>22 DEF PlatformViewDestroyed, Call, StaysEnabled, Merging
<1>23. ASSUME NEW s \in Shells, Build(s) PROVE Waiting'
  <2>1. \A i \in 1..Len(tasks') :
          tasks'[i][1] = "teardown" => i \in 1..Len(tasks) /\ tasks'[i] = tasks[i]
    <3>1. tasks' = tasks \/ tasks' = Append(tasks, <<"draw", s>>)
      BY <1>23 DEF Build
    <3> QED BY <3>1, Posted
  <2>2. UNCHANGED <<pc, owned, enabled, thawed>>
    BY <1>23 DEF Build
  <2> QED BY <2>1, <2>2
<1>24. ASSUME NEW s \in Shells, Redraw(s) PROVE Waiting'
  <2>1. \A i \in 1..Len(tasks') :
          tasks'[i][1] = "teardown" => i \in 1..Len(tasks) /\ tasks'[i] = tasks[i]
    <3>1. tasks' = Append(tasks, <<"redraw", s>>)
      BY <1>24 DEF Redraw
    <3> QED BY <3>1, Posted
  <2>2. UNCHANGED <<pc, owned, enabled, thawed>>
    BY <1>24 DEF Redraw
  <2> QED BY <2>1, <2>2
<1>25. CASE UNCHANGED vars
  BY <1>25
<1> QED
  BY <1>1, <1>2, <1>3, <1>4, <1>5, <1>6, <1>7, <1>8, <1>9, <1>10, <1>11, <1>12, <1>13,
     <1>14, <1>15, <1>16, <1>17, <1>18, <1>19, <1>20, <1>21, <1>22, <1>23, <1>24, <1>25
  DEF Next, RunRaster, FinishCall, PlatformCall

-----------------------------------------------------------------------------
(* A check that fails is the last thing there is to see. *)
Aborts == AbortNeedsOther /\ UnmergeNeedsTeardown

(* Only who counts a draw and who unmerges can fail one. *)
LEMMA AbortStep ==
  ASSUME TypeOK, Agreement, Aborts, [Next]_vars
  PROVE  Aborts'
<1> DEFINE Quiet == aborted = "none" /\ aborted' = "none"
<1>0. Quiet => Aborts'
  BY DEF Aborts, AbortNeedsOther, UnmergeNeedsTeardown
<1>1. ASSUME NEW h \in Threads, Take(h) PROVE Quiet
  BY <1>1 DEF Take, At, mergerVars
<1>2. ASSUME NEW h \in Threads, DrawNothing(h) PROVE Quiet
  BY <1>2 DEF DrawNothing, At, mergerVars
<1>3. ASSUME NEW h \in Threads, DrawTree(h) PROVE Quiet
  BY <1>3 DEF DrawTree, At, mergerVars
<1>4. ASSUME NEW h \in Threads, DrawLast(h) PROVE Quiet
  BY <1>4 DEF DrawLast, At, mergerVars
<1>5. ASSUME NEW h \in Threads, Preroll(h) PROVE Quiet
  BY <1>5 DEF Preroll, At, mergerVars
<1>6. ASSUME NEW h \in Threads, MergeWithLease(h) PROVE Quiet
  BY <1>6 DEF MergeWithLease, At, mergerVars
<1>7. ASSUME NEW h \in Threads, SharedMerge(h) PROVE Quiet
  BY <1>7 DEF SharedMerge, At, mergerVars
<1>8. ASSUME NEW h \in Threads, TakeLease(h) PROVE Quiet
  BY <1>8 DEF TakeLease, At, mergerVars
<1>9. ASSUME NEW h \in Threads, ExtendLease(h) PROVE Quiet
  BY <1>9 DEF ExtendLease, At, mergerVars
<1>10. ASSUME NEW h \in Threads, DecrementLease(h) PROVE Quiet
  BY <1>10 DEF DecrementLease, At, mergerVars
<1>11. ASSUME NEW h \in Threads, FinishDraw(h) PROVE Quiet
  BY <1>11 DEF FinishDraw, At, mergerVars
<1>12. ASSUME NEW h \in Threads, Setup(h) PROVE Quiet
  BY <1>12 DEF Setup, At, mergerVars
<1>13. ASSUME NEW h \in Threads, Teardown(h) PROVE Quiet
  BY <1>13 DEF Teardown, At, mergerVars
<1>14. ASSUME NEW h \in Threads, UnmergeIfLast(h) PROVE Quiet
  BY <1>14 DEF UnmergeIfLast, At, mergerVars
<1>15. ASSUME NEW h \in Threads, SharedDecrement(h) PROVE Aborts'
  <2>1. /\ pc[h] = "count" /\ aborted = "none" /\ callers' = callers
        /\ aborted' = IF Lapsed(shell[h]) THEN "lease" ELSE aborted
    BY <1>15 DEF SharedDecrement, At
  <2>2. CASE ~Lapsed(shell[h])
    BY <2>1, <2>2, <1>0
  <2>3. CASE Lapsed(shell[h])
    <3>1. h = "platform"
      <4>1. SUFFICES ASSUME h = "raster" PROVE FALSE
        BY DEF Threads
      <4>2. shell["raster"] \in callers /\ lease[shell["raster"]] = 0
        BY <2>3, <4>1 DEF Lapsed
      <4>3. 0 + ahead >= Term + (IF pc["platform"] \in Counting THEN 1 ELSE 0)
        BY <2>1, <4>1, <4>2 DEF Agreement, LeaseLasts
      <4>4. ahead <= Lag /\ ahead \in Nat
        BY DEF Agreement, AheadCounts, TypeOK
      <4> QED BY <4>3, <4>4, TermAssumption, LagAssumption
    <3>2. \E t \in callers : lease[t] > 0
      BY <2>1, <3>1 DEF Agreement, QueueHeld, IsMerged
    <3>3. aborted' = "lease" /\ lease' = lease
      BY <1>15, <2>1, <2>3 DEF SharedDecrement
    <3> QED BY <2>1, <2>3, <3>2, <3>3 DEF Lapsed, Aborts, AbortNeedsOther, UnmergeNeedsTeardown
  <2> QED BY <2>2, <2>3
<1>16. ASSUME NEW h \in Threads, UnmergeLapsed(h) PROVE Aborts'
  <2>1. /\ pc[h] = "lapse" /\ aborted = "none" /\ pc' = [pc EXCEPT ![h] = "finish"]
        /\ UNCHANGED <<callers, shell>> /\ aborted' = IF owned THEN aborted ELSE "unmerge"
    BY <1>16 DEF UnmergeLapsed, Unmerge, At, Go
  <2>2. CASE owned
    BY <2>1, <2>2, <1>0
  <2>3. CASE ~owned
    <3>1. h = "raster"
      BY <2>1, <2>3 DEF Threads, Agreement, QueueHeld, RasterSteps, Drawing
    <3>2. shell["raster"] \notin callers
      BY <2>1, <3>1 DEF Agreement, QueueHeld
    <3>3. pc'["raster"] = "finish" /\ shell' = shell /\ callers' = callers
      BY <2>1, <3>1 DEF TypeOK
    <3> QED BY <2>1, <2>3, <3>2, <3>3 DEF Aborts, AbortNeedsOther, UnmergeNeedsTeardown, Threads
  <2> QED BY <2>2, <2>3
<1>17. ASSUME NEW h \in Threads, UnmergeLast(h) PROVE Quiet
  <2>1. h = "platform" /\ owned
    BY <1>17 DEF UnmergeLast, At, Threads, Agreement, OwnBranch, QueueHeld, RasterSteps
  <2> QED BY <1>17, <2>1 DEF UnmergeLast, Unmerge, At
<1>18. ASSUME RunOrPostSetup PROVE Quiet
  BY <1>18 DEF RunOrPostSetup, At, mergerVars
<1>19. ASSUME RunTeardown PROVE Quiet
  BY <1>19 DEF RunTeardown, At, mergerVars
<1>20. ASSUME PostTeardown PROVE Quiet
  BY <1>20 DEF PostTeardown, At, mergerVars
<1>21. ASSUME NEW s \in Shells, PlatformViewCreated(s) PROVE Quiet
  BY <1>21 DEF PlatformViewCreated, Call, At, mergerVars
<1>22. ASSUME NEW s \in Shells, PlatformViewDestroyed(s) PROVE Quiet
  BY <1>22 DEF PlatformViewDestroyed, Call, At, mergerVars
<1>23. ASSUME NEW s \in Shells, Build(s) PROVE Quiet
  BY <1>23 DEF Build, At, mergerVars
<1>24. ASSUME NEW s \in Shells, Redraw(s) PROVE Quiet
  BY <1>24 DEF Redraw, At, mergerVars
<1>25. CASE UNCHANGED vars
  BY <1>25 DEF vars, mergerVars, threadVars, Aborts, AbortNeedsOther, UnmergeNeedsTeardown
<1>26. ASSUME Next PROVE Quiet \/ Aborts'
  <2> HIDE DEF Quiet
  <2> QED
    BY <1>26, <1>1, <1>2, <1>3, <1>4, <1>5, <1>6, <1>7, <1>8, <1>9, <1>10, <1>11, <1>12,
       <1>13, <1>14, <1>15, <1>16, <1>17, <1>18, <1>19, <1>20, <1>21, <1>22, <1>23,
       <1>24
    DEF Next, RunRaster, FinishCall, PlatformCall
<1> QED BY <1>0, <1>25, <1>26

-----------------------------------------------------------------------------
LEMMA Inductive == Spec => []IInv
<1>1. Init => IInv
  <2> SUFFICES ASSUME Init PROVE IInv
    OBVIOUS
  <2> USE DEF Init
  <2>1. TypeOK
    <3>1. tasks \in Seq(Tasks) /\ pipeline \in [Shells -> Seq(BOOLEAN)]
      <4>1. <<>> \in Seq(Tasks) /\ <<>> \in Seq(BOOLEAN)
        OBVIOUS
      <4> QED BY <4>1
    <3>2. shell \in [Threads -> Shells]
      BY ShellsAssumption
    <3>3. lease \in [Shells -> Nat] /\ pc \in [Threads -> {"idle"}]
      OBVIOUS
    <3> QED BY <3>1, <3>2, <3>3 DEF TypeOK
  <2>2. OwnBranch /\ Exclusion /\ AheadCounts /\ LeaseLasts /\ CallFreezes
    BY LagAssumption DEF OwnBranch, Exclusion, AheadCounts, LeaseLasts, CallFreezes, Threads,
       Drawing, RasterSteps, Leaving, HoldOwn, HoldShared
  <2>3. QueueHeld
    BY DEF QueueHeld, IsMerged, Threads, RasterSteps, Drawing
  <2>4. OneTeardown
    BY DEF OneTeardown, Threads
  <2> QED BY <2>1, <2>2, <2>3, <2>4 DEF IInv
<1>2. IInv /\ [Next]_vars => IInv'
  BY TypeStep, AgreementStep, WaitingStep DEF IInv, Agreement, Waiting
<1> QED BY <1>1, <1>2, PTL DEF Spec

(* Every reachable state is well typed; in particular no lease is negative. *)
THEOREM TypeCorrect == Spec => []TypeOK
<1>1. IInv => TypeOK
  BY DEF IInv
<1> QED BY <1>1, Inductive, PTL

(* Queues and leases agree but while a thread is between the two records, with *)
(* the shared mutex held that who reads the leases does not take.              *)
THEOREM QueuesFollowLeases == Spec => []MergedByLease
<1>1. ASSUME IInv PROVE MergedByLease
  <2>1. pc["raster"] = "lease" \/ pc["platform"] \in {"lapse", "last"} => ~SharedFree
    BY DEF SharedFree, HoldShared, Threads
  <2> QED BY <1>1, <2>1 DEF IInv, QueueHeld, MergedByLease
<1> QED BY <1>1, Inductive, PTL

(* The two checks that can fail: a lease that ran out under its owner with     *)
(* another one left, and an unmerge for a draw whose lease a teardown erased.  *)
LEMMA AbortsHold == Spec => []Aborts
<1>1. Init => Aborts
  BY DEF Init, Aborts, AbortNeedsOther, UnmergeNeedsTeardown
<1>2. ASSUME IInv, Aborts, [Next]_vars PROVE Aborts'
  BY <1>2, AbortStep DEF IInv, Agreement
<1> QED BY <1>1, <1>2, Inductive, PTL DEF Spec

(* The FML_CHECK on Unmerge fails only under a draw whose own lease was taken  *)
(* away by the teardown of its surface before the draw was counted.            *)
THEOREM UnmergeFailsAfterTeardown == Spec => []UnmergeNeedsTeardown
<1>1. Aborts => UnmergeNeedsTeardown
  BY DEF Aborts
<1> QED BY <1>1, AbortsHold, PTL

(* A lease runs out under its owner only when another shell has one left: an  *)
(* engine by itself never fails that FML_CHECK.                               *)
THEOREM AbortByOther == Spec => []AbortNeedsOther
<1>1. Aborts => AbortNeedsOther
  BY DEF Aborts
<1> QED BY <1>1, AbortsHold, PTL

(* A draw yields for being on the wrong thread only between the merge of the  *)
(* queues for another shell and the lease that tells of it.                   *)
THEOREM DrawsOnRightThread == Spec => []OnRightThread
<1>1. ASSUME IInv PROVE OnRightThread
  <2> SUFFICES ASSUME NEW h \in Threads, pc[h] = "draw", MutexFree(shell[h]),
                      ~RightThread(h, shell[h])
               PROVE  \E g \in Threads : pc[g] = "lease" /\ shell[g] # shell[h]
    BY DEF OnRightThread
  <2>1. owned <=> h = "platform"
    BY <1>1 DEF IInv, QueueHeld, Threads, RasterSteps, Drawing
  <2>2. ~(IsMerged <=> owned)
    BY <2>1 DEF RightThread, Threads
  <2>3. owned /\ ~IsMerged /\ h = "platform"
    BY <1>1, <2>1, <2>2 DEF IInv, QueueHeld
  <2>4. pc["raster"] = "lease"
    BY <1>1, <2>3 DEF IInv, QueueHeld
  <2>5. shell["raster"] # shell[h]
    BY <2>4 DEF MutexFree, HoldOwn, HoldShared, Threads
  <2> QED BY <2>4, <2>5 DEF Threads
<1> QED BY <1>1, Inductive, PTL

(* Raster tasks overlap only at the end of the draw that gave the queue away, *)
(* from the merge of the queues on.                                           *)
THEOREM OverlapIsShort == Spec => []OverlapOnlyAtTheEnd
<1>1. IInv => OverlapOnlyAtTheEnd
  BY DEF IInv, QueueHeld, OverlapOnlyAtTheEnd, Threads
<1> QED BY <1>1, Inductive, PTL

(* A platform call waits for its own thread only if the merger was enabled    *)
(* while it went on, or was never disabled for who merged.                    *)
THEOREM StuckByThaw == Spec => []StuckOnlyIfThawed
<1>1. IInv => StuckOnlyIfThawed
  BY DEF IInv, CallFreezes, StuckOnlyIfThawed, Leaving
<1> QED BY <1>1, Inductive, PTL
=============================================================================
