# SafeRoute in TLA+

Specifications, model-checking configurations and proofs for this repository:
the SafeRoute app (the Dart code under `lib/`, a Flutter client of Firebase and
of Google's map services) and the parts of the Flutter engine vendored under
`flutter/` that the app's correctness rests on: how frames are scheduled, how
task queues and message loops run, how the raster and platform threads are
merged for platform views (the app's map is one), and how pointer events reach
the framework.

The two halves fit together. The app's code runs **one event at a time and in
the order of its posting**; everywhere in the app's models an action is what one
activity does *between two awaits*, and an interleaving is an order in which
suspended activities resume. That assumption is not free: it is what the
engine's task queues provide (`TaskQueues`: one task of a queue at a time,
frames before Dart tasks, no lost wake-up). Likewise, that each `setState` of
the map screen comes to be seen is what the frame pipeline provides (`Frames`),
that the map can be drawn between other widgets is `ThreadMerger`, and that a
tap is one well-formed sequence of pointer events is `PointerEvents`.

Firebase, Google's services and the operating system are environment: they
answer, refuse, or take arbitrarily long.

## 1. Inventory

### The app (`lib/`)

| Component | State it keeps | Operations | Model |
|---|---|---|---|
| SOS alerts (`sos_service`, `sos_dialog`) | static timer and active id; documents of `sos_alerts`; a dialog's location, spinner and contacts; the stack of dialogs | trigger, notify contacts, update the location, cancel, resolve, delete all | `Sos`, `SosPromise` |
| Authentication (`auth_service`, `auth_provider`, login and register screens) | Firebase session, `users` documents, the provider's status and user, route on top | listener, sign-in, registration, Google, profile edit, refresh, sign-out, deletion | `AuthSession` |
| Account deletion (`auth_service`, the four `deleteAll...`) | all data of a user, the account | photos, six sweeps at once, delete the account | `AccountDeletion` |
| Map screen (`main.dart`) | all of the next two, in one `State` | build, dispose and remount | `MapScreen` |
| — Route search | two endpoints, routes found, selected route, assessment, line drawn, spinner | choose and clear endpoints, search, assess, draw, save | `RouteSearch` |
| — Heatmap (`safety_heatmap`) | last snapshot, the overlay's set of circles, which the screen may share, the switch | snapshot, toggle, rebuild, remount | `Heatmap` |
| Transit planner, risk assessment, ML prediction | none, caches | match, fetch, decode, score, sort | answers taken as any |
| Settings, profile, theme | preferences, contacts, a flag | load, save, add, remove | profile calls only |
| Incidents, saved routes, trip history, monthly report, barangay data | one collection each; a static cache | create, read, update, delete, streams | sweeps, snapshots and saving |

`AuthProvider` listens to `authStateChanges` and selects the screen (login or
map). The map screen opens the other screens and dialogs on one navigator stack,
calls the transit planner and the risk service for a search, subscribes to
nearby incidents for the heatmap and opens the SOS dialog. All services are
static or singletons and reach Firestore directly; several screens create an
`AuthService` of their own. `deleteAccount` calls the `deleteAll...` of four
services.

### The engine (`flutter/engine/src/flutter/`)

| Component | State it keeps | Operations | Model |
|---|---|---|---|
| Frame scheduling (`shell/common`: animator, vsync_waiter, pipeline, rasterizer) | the frame semaphore, callbacks for the next vsync, the pipeline with its two semaphores, the last tree, the surface | request, await, vsync, render and commit, draw, resubmit, redraw, set up and tear down the surface | `Frames` |
| Task queues and loops (`fml`: message_loop_task_queues, message_loop_impl, task_source, Android's loop) | queues with their owners, delayed tasks, pauses of Dart tasks, one timer per loop | post, wake, run, merge, unmerge, pause, resume | `TaskQueues` |
| Thread merging (`fml`: raster_thread_merger, shared_thread_merger; the Android view embedder, rasterizer, shell) | leases by engine, the enabled flag, ownership of the raster queue | merge, extend, decrement, unmerge; platform views that come and go | `ThreadMerger` |
| Pointer events (`lib/ui/window/pointer_data_packet_converter`) | one state per device, the identifier counter | eleven kinds of event and signal, views added and removed | `PointerEvents`, `PointerProtocol` |
| Graphics, text, embedders, bindings, framework, tools | — | — | not modelled |

The UI thread asks for a vsync and puts layer trees into the pipeline; the
raster thread takes them out. Both run tasks from the queues; the platform
thread runs the platform views and may take over the raster queue, because
Android draws platform views on its own thread only. Pointer events come from the
platform thread and are converted on the UI thread.

### What is hard

In the app nothing is locked: a second press, a second dialog, a second search
or a change of user may come during any await. State is read again after an
await (`mounted`, `currentUser`, `_selectedRoute`) or not read again when it
should be. Singletons (the one timer, the one spinner, the overlay's set) serve
several activities. Writes are acknowledged late or refused, later steps fail
after earlier ones took effect, and the process may be killed.

In the engine there is a lock or a semaphore at every turn, and the difficulty
is what happens *between* two of them: an item pushed and its signal, a question
whether threads are merged and the merge, a flag disabled and a task already
under way that enables it, a wake-up computed for a queue that has just been
given away.

### What makes each component correct

* SOS: a cancelled alert is never tracked again; SOS Active only after every
  contact was tried; what was reached is on record; the buttons do not stay
  disabled.
* Session: the screen follows Firebase's session however late the fetches are;
  who is shown as signed in has a document.
* Deletion: everything that can be deleted is; a failed cleanup blocks nothing.
* Map screen: the newest search is the endpoints'; the spinner ends; a route in
  the panel is drawn and assessed; never incidents the server has withdrawn.
* Frames: no slot or signal is lost; one request at a time; the screen never
  goes back to an older tree; what is asked for comes.
* Task queues: both records of an ownership agree; no lost wake-up; one task of
  a queue at a time; every task runs.
* Thread merging: queues and leases agree but while one is being written; no draw
  on the wrong thread otherwise; every tree is drawn or dropped.
* Pointer events: the converter's own checks hold; the framework is given a
  well-formed sequence for each device.

The principal hazards of the code, each at its line and with the properties that
cover it, are listed in `PROJECT.json`; further ones that no property covers are
in section 6.

## 2. Modules

### `Sos`, `SosPromise`, `SosProofs`

A call of `triggerSOS` and the document it may create share one identifier in
`Alerts`. `pc` holds the await a call is suspended at, in the order of the code:
`prelocating` (the dialog's own position), `locating`, `adding`, `notifying`
(with `idx`, the next contact), `recorded`, then `done`; or `failed`, `refused`
(before the service is called) and `lost` (the app was killed). `timer` and
`activeAlertId` are the static fields; `status` and `recorded` are the
documents. `top`, `closing` and `page` model the navigator: `Navigator.pop`
takes whatever is on top, and a popped dialog stays mounted until its transition
ends, which is what the code's `mounted` checks see. `sent` belongs to a dialog,
as its contact objects do, while `launched` is what a call really opened.
`deleteAllUserSosAlerts` is its query and its batch, `AppKilled` clears what is
in memory. Positions, message texts and the time between ticks are left out.

`SosPromise` is what the rest of the system may rely on: an alert is raised once
by a call that has not raised one, is tracked only while it is not cancelled,
and is never reopened. `Sos` implements it under the mapping `tracked <- timer`,
`pending <-` the calls that have not created their document (`PromiseKept`).

### `AuthSession`, `AuthProofs`

`Procs` are the activities that run `_getUserData`: the provider's listener, the
sign-ins of the two screens and the provider's calls. `pc` is the await each is
suspended at, `uid` whom it works for and `whose` what
`_syncEmailVerificationState` took from `currentUser` after `reload()`. `events`
is the stream of `authStateChanges`; `asyncMap` takes up one event when the last
is done (`TakeEvent`). A document is the account its data come from and whether
its name is the one typed in: no property reads these two, they let a trace show
the overwriting of section 5. `screen` and `form` hold what the user can press.
External, modelled from how the code uses it: Firebase reports changes of user
and not a second sign-in of the same one (`Switch`).

### `AccountDeletion`, `DeletionProofs`

`data` gives each item of each collection, and each photo, its state; the
screens' writes are `sending` before they land. A call of `deleteAccount` lists
and drops photos, starts all sweeps, waits until each has been `swept` or has
`failed` (`Future.wait`), and asks Firebase to delete the account. `old`
remembers what was stored at the confirmation. The dialog closes at once, so a
second deletion may run beside the first. The two documents deleted by
get-and-delete behave as collections of one document. What the deletion does to
the session is in `AuthSession` (`DeleteAccount`, `Sweep`, `Erase`, `Leave`).

### `RouteSearch`, `Heatmap`, their composition `MapScreen`, `MapScreenProofs`

`RouteSearch`: a search is numbered; `of` holds the endpoints it was started
for, and a route is known by the pair it joins. Choosing the second endpoint
starts a search at once, as do later changes. An answer (`Answer`,
`AnswerEmpty`) selects the first route and starts its assessment, `Assessed`
stores it, draws and ends the spinner. No search looks whether the endpoints are
still its own: `Answer` has no such guard because the code has none.
`_selectRoute` is left out: its panel needs several routes and none selected,
which no state of the code satisfies.

`Heatmap`: `reported` is what the server holds, `received` the last snapshot,
`overlay` the set of the overlay and `drawn` what the map shows. `shared` says
that the screen's circles *are* the overlay's set (Dart assigns a reference), so
that clearing or refilling the one changes the other.

`MapScreen` joins the two as the code does, in one `State`: every step of a
search that calls `setState` builds the map again and hands it the circles of
now (`SearchStep /\ H!Rebuild`), and `Remount` ends both, while searches that
wait come to nothing when their answer finds the screen disposed.

### `Frames`, `FramesProofs`

The UI thread's tasks are `uiTasks`, the raster thread's `rasterTasks`; `upc`
and `rpc` are the steps of a frame's commit and of `Rasterizer::Draw`, split at
every semaphore and mutex, which are the points where the two threads can be told
apart: `ProducerCommit` pushes the item under the lock and signals after it,
`Consume` waits first and pops after it. `queue`, `empty` and `available` are
the pipeline, `sem`, `regenerate` and `continuation` the animator, `callback`,
`secondary` and `armed` the vsync waiter, `view`, `surface`, `last` and `shown`
what there is to draw to and what was drawn. A tree is its number. A draw may
find its surface not ready and resubmit its tree. `overtaken` is a history
variable: a Draw came between the push and the signal of an item nobody else is
told of.

### `TaskQueues`, `TaskQueuesProofs`

Everything `MessageLoopTaskQueues` does under its mutex is one action. A task
knows its queue, its order and time, whether it is a Dart task (the secondary
source) and whether it is a frame that resumes that source. `ownerOf` and
`subsumedBy` are the two records of an ownership. A loop is Android's: one timer
(`wake`), `OnEventFired` when it fires, then tasks one by one until none is due.
Tasks run while others post, merge and unmerge. `Mergeable` says which queue may
subsume which; that a queue has one possible owner is `OwnerAssumption`, which
is what the engine's two callers do.

### `ThreadMerger`, `MergerProofs`

Shells are engines spawned from one another, so that they share the threads and
the merger. `owned` is the record of `TaskQueues` of who runs the raster queue;
`lease` and `callers` are the shared merger's, and `enabled` its flag. `tasks` is
the raster queue, in order, and `pipeline` as much of `Frames` as decides which
draws are still to come.

Three mutexes are involved: a shell's own, the shared merger's and the queues'.
Who reads the leases (`IsOnRasterizingThread`, `IsMerged`) holds the own mutex
only, so what a writer does under the shared one is seen half done by other
shells. A step therefore ends wherever something changes that another thread can
read: a merge is `MergeWithLease` (the question, under the own mutex),
`SharedMerge` (the queues) and `TakeLease` (the lease); a draw that counts is
`DecrementLease`, `SharedDecrement` and `UnmergeLapsed`; a teardown that unmerges
is `UnmergeIfLast` and `UnmergeLast`. `HoldOwn` and `HoldShared` are the steps
before which a thread holds a mutex, `MutexFree` and `SharedFree` the guards.
`RunTeardown` and `PostTeardown` are the question and the answer of
`RunNowOrPostTask`.

`Redraw` posts a `DrawLastLayerTrees` (`DrawLast`): it asks nobody whether the
thread is right, may merge or extend a lease as any tree with platform views, and
counts against no lease (`Drawn`). A draw that yields is not posted again, as in
the code; `yielded` remembers the shells whose latest draw did. A shell is
spawned from one that has a merger (`Spawned`, section 6). `Lag` bounds how many
tasks one thread begins while the other ends its own. `thawed` is a history
variable, see section 5.

### `PointerEvents`, `PointerProtocol`, `PointerProofs`

`states` and `pointer` are the converter's. `sent` and `cur` are what an
embedder that keeps to `embedder.h` holds of its devices, and guard the events it
sends: also those for a device never added, and those for a view that has gone.
Each event becomes the sequence of events the framework is given (`converted`);
`Deliver` hands them over one by one, unless their view does not exist, and
`told` and `hitTests` are the framework's side: what it knows of a device, and
the identifiers its gesture binding keeps a hit-test result for. `active` is what
a Navigator takes to be down. When it changes its route it cancels these contacts
(`CancelActivePointers`): the gesture binding handles a cancel of its own before
any other event and drops their targets, while the engine, which knows nothing of
it, goes on with the contact; `cancelled` remembers these until they end.
`LateRemove` is a remove for a view the device is no longer in.

`PointerProtocol` states what the framework may rely on, one action per event,
and `ImplementsProtocol` that the converter and its environment implement it
under the mapping of each field of `told`.

### Mutants

Operators commented "Mutant" are plausible bugs of the operator they stand
before (a lost guard, a step too early, an exception that escapes, an unchecked
count). They are used by no specification; each shows that a property can fail.

## 3. Runs

| Run | Bounds | Shows |
|---|---|---|
| `sos` | 2 dialogs, 2 calls, 1 contact, symmetric; no location callbacks | cancellation, spinner, write-back, SOS Active, and the refinement of `SosPromise`, in every interleaving |
| `sos_live` | 1 dialog, 2 calls, 1 callback each, no contact, `FairSpec` | the spinner ends, updates of a cancelled alert die out |
| `sos_failure` (violated) | 1 call | "Failed to send SOS" although the alert is stored and active |
| `auth` | 2 users, 1 sign-in or registration, 1 provider call, `FairSpec` | status follows the session, the shown user has a document, a sign-out is shown for good |
| `deletion` | 2 collections and photos, 1 item each, 2 deletions, `FairSpec` | old documents are left only where a sweep failed; no failure blocks the deletion |
| `map_screen` | 2 searches, 2 places, 2 incidents, symmetric | endpoints are the newest search's; after the last search no spinner, and the selected route drawn and assessed; nothing outdated on the map; a build made for a search shows a snapshot whole or not at all |
| `frames` | depth 2, 2 trees, 1 secondary callback, 1 redraw waiting, `FairSpec` | slots and signals, requests, wake-ups, no older tree; requests and trees are served unless a Draw overtook a signal |
| `frames_lost` (violated) | the same | a Draw that overtakes a signal leaves the pipeline standing |
| `queues` | 3 loops (platform, raster, UI), 3 tasks, 1 tick, 2 frames | ownership, no lost wake-up, one at a time, frames first, every task runs |
| `merger` | 2 engines, depth 2, term 3, lag 1, 7 trees or surface calls, a redraw counted twice | queues and leases, the FML_CHECK on a lease run out, right thread but in the window of another's merge, short overlaps, deadlock only after a thaw, every tree served unless its draw yielded |
| `pointer` | 2 devices, 2 views, 2 positions, 3 contacts, symmetric | the converter's checks, the framework's assertion, targets found but for the two exceptions, the protocol |
| `pointer_scroll` (violated) | 1 device | a move before a scroll signal lacks its identifier |

The modules also state their type invariants (`TypeOK`) and three facts that the
proofs rest on or give: `SnapshotKeepsMapWhenOff`,
`AskedWhileWaiting` and `UnmergeNeedsTeardown`. They are proved for every value of
the constants (section 4; the types of `PointerEvents` among them) and not
run again.

**Why the bounds are enough.** Every hazard of the app needs two activities at
most of a kind: two presses, two dialogs (one closing, one open), two deletions,
a listener beside one call, an old and a new search. One contact is enough to
distinguish tried, reached and recorded; items, incidents, places and users are
interchangeable. In the engine, two trees in a pipeline of two are the least
that lets an item be pushed as "not the first" (with a pipeline of depth 1 no
signal can be overtaken, which is proved); two engines are the least that share
a merger, leases of three run out within five trees, and both FML_CHECKs of the
merger fail within seven inputs; three loops have both
pairs that are merged; two devices compete for one counter of identifiers, and
two positions distinguish an event that moves the pointer from one that does
not. The bounds are constants of the modules (`MaxCallbacks`, `MaxCancels`,
`MaxSearches`, `MaxRoutes`, `MaxTrees`, `MaxPosted`, `MaxTasks`, `MaxTime`,
`MaxFrames`, `MaxInputs`, `MaxPointers`, and `Lag`) and appear in guards only.
The properties that are proved (section 4) do not depend on them, except that
`MergerProofs` needs leases longer than the lag (`LagAssumption`); the engine's
are ten frames. Deadlock is not checked where all dialogs, calls, searches,
trees or tasks have been used up: there the model stops and the program does
not.

**Fairness.**
`Sos!FairSpec`: each call goes on, callbacks end and cancellations return, i.e.
the platform and the server answer every await; nothing is assumed of the user.
`AuthSession!FairSpec`: the listener takes up events and its fetch ends, with a
result or an exception. `AccountDeletion!FairSpec`: every await of a confirmed
deletion ends, one way or the other. `Frames!FairSpec`: the two threads run their
tasks and the platform answers a request for a vsync; nothing makes the framework
ask for a frame or build one. `TaskQueues`: threads run, tasks end, time passes;
nobody has to post, merge or unmerge. `ThreadMerger`: the two threads go on with
what they have begun and run what is posted. Each is weak fairness of one
activity as a whole, so no particular outcome is assumed.

## 4. Proofs

All proofs hold for every value of the constants that satisfies the named
assumptions of the modules (numbers are naturals, `None` is nothing else, leases
are longer than the lag, a queue has one possible owner; TLC evaluates them in
every run).

* `SosProofs`: `TypeCorrect`, `CancelForgets`, `WriteBackComplete`,
  `ActiveAfterContacts`, `SpinnerJustified`, the refinement `Implements`, and
  `FailedIsUntracked`: the alert of a call reported as failed, which may be on
  record, is never tracked and has no dialog that could cancel it. The
  invariants are not inductive alone. The strengthening says that only a call
  that is done is tracked or on the screen (`OnlyDone`), that a cancelled alert
  or one being cancelled has been forgotten and its call cannot come back to the
  timer (`Forgotten`), how far the loop has come in each state (`Progressed`),
  that what a call launched is marked in its dialog's contacts (`Marked`), and
  that a running call has a dialog (`CallsHaveDialog`).
* `AuthProofs`: `TypeCorrect`, `StatusFollows`, `ShownHasDocument`. `Working`
  says what is known of an activity at each await, `Tracked` that the last event
  in the queue, or the one the listener is fetching for, is the session of now,
  and `Kept` that the user shown has a document unless a deletion took it.
* `DeletionProofs`: `TypeCorrect`, `OldSwept`. `OldIsOld` says that what was
  stored at the confirmation can only go, `QueryCovers` that between a query and
  its batch the query's result covers what is left of it, `InStep` that a call
  past its sweeps has ended all of them.
* `MapScreenProofs`, about the composition: `TypeCorrect`, `NewestIsCurrent`,
  `SpinnerEnds`, `DrawnAndAssessed`, `ShownIsReceived`, and the action properties
  `SnapshotsAreQuiet` and `SearchShowsWhole`. Each part has an invariant of its
  own and `StepsOfParts` says that a step of the screen is a step of each part
  or a remount. For the search, `Numbered` orders the searches, `SpinnerHasSearch`
  says that the newest search still runs while the spinner turns, and
  `RouteHasSearch` that a selected route is drawn and assessed or a running
  search will do it. For the heatmap `AllOrNothing`: the overlay holds the last
  snapshot or nothing, since the shared set is only ever cleared or replaced as
  a whole.
* `FramesProofs`: `TypeCorrect`, `SlotsRight`, `SignalsRight`, `RequestsRight`,
  `WakeUpRight`, `ForwardOnly` and `DepthOneLosesNothing`. The invariants of the
  run are inductive together with `AskedWhileWaiting`, which says that the
  platform is asked for a vsync exactly while somebody waits for one, and `InOrder`, which orders the numbers of the
  trees along the pipeline.
* `TaskQueuesProofs`: `TypeCorrect`, `QueuesAgree`, `NoLostWakeUp`,
  `OverlapOnlyBySwitch`, `DartTasksWait`. `Displaced` says that a task running on
  another loop than its queue's has merged or unmerged that queue, `FramesAtHome`
  that the end of a frame wakes the right loop, `PauseCounted` that the Dart
  source is paused once for each frame outstanding.
* `MergerProofs`: `TypeCorrect`, every invariant of the run, and
  `UnmergeFailsAfterTeardown` (when the other FML_CHECK fails). `OwnBranch`
  says that only the raster thread takes a lease and only the platform thread
  finds the threads merged; `Exclusion` that a mutex has one holder; `QueueHeld`
  that queues and leases differ only before `TakeLease`, `UnmergeLapsed` and
  `UnmergeLast`, and that who lost the queue is at the end of the draw it
  lost it in; `LeaseLasts`, with `AheadCounts`, is the argument about the lag: a
  raster thread about to count against the lease it took finds all of it but what
  the tasks begun meanwhile have counted, unless a teardown has erased it, so it
  cannot end a lease under a draw that is about to extend one. `Aborts` joins the
  two checks that can fail and is inductive given the rest. `OneTeardown` and
  `CallFreezes` are for the deadlock: the platform thread waits for the one
  teardown there is, and with the merger disabled nothing merges meanwhile.
* `PointerProofs`: `TypeCorrect`, `ChecksAlwaysHold`, `HitTestsNew`,
  `TargetsFound`, `MovesOfContact` and the refinement `Implements` of
  `PointerProtocol`. The types and the converter's checks are inductive together
  (`IInv`), case by case of the converter. What the framework is given takes a
  second invariant, `Told`, with two parts. `Conveyed`: between two events of an
  embedder the framework knows of each device exactly what the converter keeps of
  it (`Settled`), and while a conversion is delivered the events that are left,
  never more than three, lead there, each `Legal` for what the framework knows
  when it comes (`Leads3`); one lemma per kind of event (`AddLeads`,
  `BeginLeads`, ...) shows this of what the converter makes of it. `Targets`: the
  framework keeps a target for every device in a gesture, and in a contact no
  Navigator has cancelled (`Targeted`); no two share an identifier, no gesture's
  is one a Navigator could cancel, and none is newer than the last one given out. `Legal`
  then gives the framework's assertions, and every delivered event is an action of
  the promise. `MovesOfContact` bounds the divergence of `pointer_scroll`: the
  move before a scroll signal is the only one without its contact's identifier.

**Only model-checked:** the liveness properties (`SpinnerStops`,
`CancelStopsUpdates`, `SignOutIsShown`, `CleanupNeverBlocks`, `RequestServed`,
`SecondaryServed`, `EveryTaskRuns`, `TreesServed`); of `frames`
`TakenUnlessOvertaken`; the violated statements; and that the mutants break what
they should. Liveness under fairness and ENABLED are out of the prover's reach.
Every invariant and action property of a run, and both refinements, are proved.

## 5. Divergences met while modelling

With a run of their own:

* `sos_service.dart:67` (`sos_failure`): a failure after the document was added
  is reported as a failure to send; the alert stays active and untracked.
* `animator.cc:149` (`frames_lost`): an item that is not the first is announced
  to nobody, on the ground that the rasterizer will get to it; a Draw that comes
  between its push and its signal does not, and the pipeline stands still.
* `pointer_data_packet_converter.cc:371` (`pointer_scroll`): the move
  synthesized before a scroll or scale signal of a device that is down has no
  identifier, and the framework drops it.

Reachable in the models, without a run:

* `sos_service.dart`: a second SEND SOS takes over the one timer, so that the
  alert shown first is no longer tracked; and no emergency number is called
  before Firestore has acknowledged the alert, which without a network it does
  not. `sos_service.dart:101` marks a contact as notified when the launch did
  not throw, also when no app could be opened; the dialog always uses its
  built-in contacts, never those added in the settings.
* `main.dart:364`: answers are taken in the order they come, so that an older
  search can leave its route, line or assessment for the endpoints of a newer
  one. `main.dart:516`: a route saved during a search joins the new endpoints
  with the time and fare of the old route. `main.dart:849`: the panel that
  offers several routes can never be shown.
* `main.dart:205`: once the heatmap was on, the screen shares the overlay's set,
  so a snapshot and any later build while it is off, for instance by a route
  search, draw the incidents again; and switching it off empties the overlay
  (`main.dart:682`) in spite of the comment at line 203.
* `auth_service.dart:595`: the listener, woken by a registration, can overwrite
  the document the registration has just set, and the name typed in is lost; and
  it can set one account's document from another's data, as it reads
  `currentUser` again after `reload()`. `auth_provider.dart`: a late answer to a
  refresh puts the earlier user back. `auth_service.dart:40`: after a failed
  fetch a successful sign-in of the same user leaves the login screen up.
  `register_screen.dart:60`: nothing pops the register screen after success.
* `auth_service.dart:318`: when Firebase asks for a fresh login, the data are
  gone already; and deletion reports success although sweeps or photos failed.
* `shared_thread_merger.cc:28`–`31`: the queues are merged, and the platform
  thread woken, before the lease is written. A draw of another shell taken in
  between yields, which the comment at `rasterizer.cc:250` explains by "let this
  frame be serviced on the right thread"; but nobody posts it again
  (`shell.cc:1404` ignores the result), and as its tree is still in the pipeline,
  the trees built after it are not the first and post nothing either.
  `OnRightThread` and `TreesServed` say that there is no other such draw. A shell
  alone is safe: the thread that merges holds its mutex.
* `shared_thread_merger.cc:40`: the FML_CHECK "Unable to un-merge" can fail. The
  raster thread, at the end of the draw that merged, has asked whether the threads
  are merged; two teardowns on the platform thread then erase both shells' leases
  and unmerge, and the draw, which finds all leases zero, unmerges again.
  `UnmergeNeedsTeardown` says that it takes such a teardown.
* `binding.dart:328`: the moves and the up of a contact that a Navigator has
  cancelled are dropped for want of a target, as they are meant to be; dart:ui
  and the engine are not told, so that the engine's cancel of it may follow too.
* `shared_thread_merger.cc:59`: a shell whose lease has run out while another
  shell keeps the threads merged fails the FML_CHECK with its next draw that does
  not extend it. `AbortNeedsOther` says that this takes a second engine.
* `shell.cc:1056`–`1064`: the comment explains that the merger is disabled so
  that the threads stay as they are while the platform thread waits. A set-up
  task queued earlier, which `OnPlatformViewCreated` posts without waiting for
  it, enables the merger again, and the platform thread may then wait for a task
  it would have to run itself. `StuckOnlyIfThawed` says that there is no other
  way.

## 6. Limits and what is not modelled

* `ThreadMerger` assumes that fewer tasks are begun beside the end of a draw
  than a lease is long; a raster thread suspended for longer than a lease is
  excluded. Every shell shares one merger: one spawned while its parent has no
  merger yet is given none (`shell.cc:709`), makes a `SharedThreadMerger` of its
  own on the same queues (`raster_thread_merger.cc:50`), and the leases of each
  then say nothing of the other's merges; `Spawned` leaves this case out. The scan of the
  leases of several shells (`IsMerged`) is one step. Trees that are discarded
  because the GPU is disabled or their size has changed are not modelled.
  `WaitUntilMerged` has no caller outside the tests, and a raster queue that
  is the platform queue from the start is not the app's configuration. The model
  follows Android's view embedder; that of iOS differs.
* `Frames` has one view. `TaskQueues` has Android's loop; task observers and the
  end of a loop are left out.
* `PointerEvents` has no deltas, buttons or values of a pan or zoom and no
  resampling, which is off unless an app asks for it. Of the Navigators it keeps
  one set of contacts, any part of which may be cancelled at a time. An
  embedder that moves a device to another view removes it and adds it again, as
  `embedder.h` asks.
* The transit planner, the risk assessment and the prediction are formulas in
  floating point over tables of places, without state; `RouteSearch` takes their
  answers as any. Settings, theme, monthly report and barangay data keep state
  that no modelled component reads.
* The PDF report, static screens, start-up, the platform runners, and of the
  vendored tree the graphics stack, text, the embedders, the framework and the
  tools: presentation, layout and formats rather than protocols between
  activities, or environment of what is modelled.

Further hazards met while reading, which no property covers:

* What is typed and suggested on the map screen: the suggestions are those of the
  request that answered last (`main.dart:735`); the position of a chosen one comes
  after an await, when the field may hold another text (`main.dart:746`).
* Formulas and formats: `transit_service.dart:121` takes the last stop near an
  endpoint and the builder the first; `transit_service.dart:443` reads a polyline
  without a bound; `ml_risk_prediction_service.dart:69` caches by a route number
  that other journeys share.
* Components that are not modelled: the settings are saved by two writes of the
  whole map (`settings_screen.dart:97`); a theme that is loaded late overwrites
  one set meanwhile (`theme_provider.dart:19`); a report is looked for and then
  added (`monthly_report_service.dart:186`).
* Engine: a surface is announced to the UI thread before the raster thread
  (`shell.cc:1028`); the flag of `WaitForFirstFrame` is cleared outside the lock
  (`shell.cc:1415`); a redraw moves the last tree out of its record
  (`rasterizer.cc:227`); a restart empties the converter under devices that are
  down (`engine.cc:212`); an event for a view that is gone leaves no trace in the
  converter (`pointer_data_packet_converter.cc:44`), and a synthesized state has
  no scale, rotation or buttons (line 400); a task that subsumes its own queue
  skips that queue's observers (`message_loop_task_queues.cc:174`).
