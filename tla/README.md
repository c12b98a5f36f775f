# HoopZ: TLA+ models, checks and proofs

HoopZ is an iOS app (Swift, MVVM) for finding people to play basketball with.
It has no server code of its own: its screens read and write two Firestore
collections, and everything that can go wrong between two players goes wrong
in listeners, completions and queued writes. This directory models that
part: the app's view models, on top of the Firestore SDK the repository
vendors (`src/HoopZ/Pods/FirebaseFirestore`). Paths below are relative to
`src/HoopZ/`; `VM/` stands for `HoopZ/ViewModels/`, `C/` for
`HoopZ/Controllers/`, `SDK/` for
`Pods/FirebaseFirestore/Firestore/core/src/`, `AUTH` for
`Pods/FirebaseAuth/FirebaseAuth/Sources/Auth/FIRAuth.m`.

- [The system](#the-system)
- [The modules](#the-modules)
- [What is abstracted](#what-is-abstracted)
- [The runs](#the-runs)
- [Where the code falls short](#where-the-code-falls-short)
- [Fairness](#fairness)
- [What is proved](#what-is-proved)
- [Not modelled, and the plan](#not-modelled-and-the-plan)
- [Running it](#running-it)

## The system

**Shared state.** `Users` has one document per account (profile fields,
`canPlay`, `pendingRequest`: an array of sender addresses). `Requests` has one
document per play request (`fromUser`, `toUser`). Components meet nowhere else:
each screen listens to and writes these documents, and one component's write is
another one's snapshot.

| Component | Code | State it keeps | Operations | What makes it correct |
|---|---|---|---|---|
| Play requests | `VM/RequestAndPendingViewModel.swift:18-65`, `C/RequestViewController.swift` | a listener per accepted request, never removed; the request and the patch in the SDK's queue | send; completion of `addDocument`; snapshot, patch the receiver's document | who shows up in `pendingRequest` did ask; concurrent senders keep each other; reported outcomes are true; the listeners fall silent |
| Availability switch | `VM/ProfileViewModel.swift:209-245`, `C/ProfileViewController.swift` | the switch, `ProfileViewModel.instance.mySwitch`, stored `canPlay`, a listener per tap | open, tap, snapshot, completion, the block it dispatches | the three copies of the position agree once things are quiet, and they become quiet |
| Pending requests | `VM/RequestAndPendingViewModel.swift:67-101`, `C/PendingRequestViewController.swift` | the list, the outer listener, one inner listener per outer snapshot, the table | open, outer snapshot, inner snapshot, reload | the list is the stored requests, the table is the list |
| Firestore SDK | `SDK/` | remote document cache, mutation queue, views, listeners, Watch and write streams | queue a write, send, acknowledge, refuse, resend, apply a Watch change, raise snapshots | listeners are told what the device knows |
| Players list | `VM/PostViewModel.swift`, `C/PlayersListViewController.swift` | `userArray`, the variables all documents of all snapshots share | snapshot, reload, select a row | a row shows, and a tap selects, one player's data |
| Map of players | `VM/PostViewModel.swift:189-267`, `C/MapViewController.swift` | `testLocations`, the captured `location` and `userEmail`, the pin of each map | open, snapshot, deferred block | a location carries its own player's address |
| Profile creation | `VM/CreateProfileViewModel.swift`, `C/CreateProfileViewController.swift` | the chain upload, URL, new document, and the form it captured | press, three answers | what the caller is told is true; one profile per account, under its own address |
| Profile update | `VM/ProfileViewModel.swift:148-206`, `C/UpdateProfileViewController.swift` | upload, URL, a listener that rewrites the profile at every snapshot | press, two answers, snapshot | the update promised is stored, and the listener falls silent |
| Profile display | `VM/ProfileViewModel.swift:54-141`, `C/ProfileViewController.swift` | labels, picture, placeholders | open, snapshot | the screen shows what is stored |
| Session | `VM/LoginViewModel.swift`, `SceneDelegate.swift`, `C/LoginViewController.swift`, `VM/ProfileViewModel.swift:29-40`, `AUTH` | Auth's current user, the calls under way, the SDK's user and one mutation queue per user | login, sign-up, start, sign-out, change of the SDK's user | the screen fits the user, the SDK writes for the user, nobody's write is lost |

**What is hard.** The code has no lock and no thread of its own; it is
concurrent through callbacks. Every completion and snapshot is a task of the
main queue that runs some time after what it reports; other taps, snapshots and
writes come in between. Listeners are never removed and capture variables of
the screen they came from. Listeners write the very document they listen to.
The SDK answers writes late, sends them again after a broken stream or a
restart, shows writes before the server has them, takes refused ones back, and
withholds some snapshots until the Watch stream catches up. The hazards, each
at its line with the properties aimed at it, are in `PROJECT.json`.

## The modules

| Module | What it is |
|---|---|
| `Firestore` | pure operators for one document one query listens to: the local value, the rule for what a view shows and when it waits for Watch, which snapshots are raised, the stages of a write |
| `RequestBoard` | abstract specification: a request is stored first, shown later, never taken back |
| `PlayRequests` | sending play requests: all players, their devices, the two collections |
| `Availability` | the switch, on one or more devices of one account |
| `PendingList` | the pending requests screen |
| `PlayersList` | the list of players and the map of players on one device |
| `Onboarding` | from the login screen to a stored profile: session, sign-out, profile creation |
| `ProfileUpdate` | editing the profile and showing it |
| `QueueFacts`, `FirestoreFacts` | lemmas the proofs share: a queue after an element joins or leaves it; what the operators of `Firestore` return |
| `PlayRequests_proofs`, `Availability_proofs`, `PendingList_proofs`, `PlayersList_proofs`, `Onboarding_proofs`, `ProfileUpdate_proofs` | theorems about the module each is named after |
| `MCPlayRequests`, `MCAvailability`, `MCPendingList`, `MCPlayersList`, `MCOnboarding` | the modules TLC runs; they add the symmetry of the model values |

`PlayRequests`, `Availability` and `ProfileUpdate` extend `Firestore` and keep its records as
their state. An operator marked *Faulty variant* is not part of any
specification: it is the definition below it with a plausible bug (a missing
reset, a write of the wrong variable, a dropped wait), kept to show that the
properties tell the difference: with the definition replaced by it the
property named in `PROJECT.json` ("mutants") is violated.

### PlayRequests

`requests` and `users` are the server's collections. Per device: `cache` (remote
document cache), `queue` (mutation queue), `view` (last snapshot of the query on
a receiver's document), `echoes` (how many of the app's listeners hang on it),
`main` (main queue), `sent` (what makes document ids), `reported` (what
`RequestViewController` was told).

| Action | Code |
|---|---|
| `SendPlayRequest` | `sendPlayRequest` up to `addDocument` (VM lines 18-30) |
| `AddCommitted`, `AddAcknowledged`, `AddRejected` | the server stores the document; `SyncEngine::HandleSuccessfulWrite`; `HandleRejectedWrite` |
| `RequestFailed`, `RequestAccepted` | the completion (lines 30-43): report, and on success add the listener |
| `EchoPatches` | the listener (lines 43-57): `updateData(["pendingRequest": arrayUnion([sender])])` |
| `PatchCommitted`, `PatchAcknowledged`, `PatchRejected` | the same for the patch, with the cached copy and the view |
| `Watch` | `SyncEngine::ApplyRemoteEvent` for one document |
| `OtherFieldChanges` | any other write of the receiver's document |
| `StreamBreaks`, `Restart` | `RemoteStore::OnWriteStreamClose`; the app killed and started |

### Availability

`user` is the account's document, `screens` the switches of the profile screens
opened in this process (the listeners keep them alive; the user sees the last),
`listeners` the screen each listener captured. `Tap` is
`playNotPlaySwitch` with `updateAvailableSwitch` up to `addSnapshotListener`;
`WriteCanPlay` the snapshot handler, which writes the switch's position *then*;
`WriteCompleted` the completion, which reads it again; `ShowSwitch` the block
dispatched from it. The remaining actions are the SDK's, as above. `Patient`
makes the user tap only when nothing is in flight; it separates what the code
gets right from what it does not.

### PendingList

`requests` are the documents addressed to the player, `inners` the inner
listeners with the outer snapshot each captured, `playerRequests` the list of
the screen's own view model, `rows` the table, which reads
`RequestAndPendingViewModel.instance`. `RequestsArrive` is the outer handler,
`SenderArrives` the inner one with the reload it ends in. `NobodyFound` is the
server's answer for the inner listener on the empty address that an empty outer
snapshot leads to. Nothing fills that `instance`, so `rows` stays empty.

### PlayersList

`View` is what the query on the whole collection shows: the SDK's `cached` copy and
the owner's own document while it is queued. `listeners` are the list and map
screens' listeners, each with the `fields` it captured (the variables declared
before `addSnapshotListener`) and, for a list, the `rows` its table shows.
`userArray` and `testLocations` belong to `PostViewModel.instance`; every screen
shares them.

| Action | Code |
|---|---|
| `OpenList`, `OpenMap` | the two `viewDidLoad`; a table first reads `userArray` as it is, a map draws `Pin` (`testmapdata`) |
| `PlayersArrive`, `LocationsArrive` | the listeners of `getTableView` and `getLocationData`: refill `userArray`, dispatch one block per document |
| `Reload`, `Locate` | those blocks |
| `SelectRow`, `SelectMissingRow` | `didSelectRowAt`; an index past the end of `userArray` ends the process |
| `OwnProfileQueued`, `OwnProfileStored`, `OwnProfileRefused` | `addDocument` of `sendToFirebase`, which runs after the list was opened |
| `ProfileCreated`, `ProfileChanges`, `Watch` | other devices' writes and their arrival |

`After` is the loop's body: a field the document lacks keeps what the variable
held. `Loop` is the loop over the documents in the query's order, as a recursive
function, which a proof can use; `Refilled` is what it leaves in `userArray`,
`AfterAll` what it leaves in the variables.

### Onboarding

`user` is `Auth.auth().currentUser` (kept in the keychain), `accounts` what
Auth's server has registered, `calls` the Auth calls without an answer. `screens`
are the screens presented so far, the last in front. `forms` has one record per
press of the create button: the screen its completion leads to, the account
it was filled in for (`author`, of the model only), the address in the document,
the answers the caller was told. `sdkUser` is the Firestore SDK's user, `queue`
its mutation queue, one per user. `hasty` is a history variable: a button was pressed
while something was under way.

| Action | Code |
|---|---|
| `PressSignIn`, `SignInAnswered` | `login`, `signup` (VM `LoginViewModel` 15-39); FIRAuth's answer (`AUTH` 1931-1988): the current user changes at once, notification and completion are dispatched |
| `SignInCompleted` | the completion: segue to the list or to the create screen, or an alert |
| `CredentialChange` | the notification reaches `SyncEngine::HandleCredentialChange`: another user's queue |
| `SignOut` | `signout` and the segue to a new login screen |
| `PressCreate`, `StorageAnswers` | `sendToFirebase` up to `putData`; Storage's answer to the upload or the URL |
| `Uploaded` | `putData`'s completion (lines 34-40): tell the caller, ask for the URL |
| `DocumentAdded` | `downloadURL`'s completion (lines 40-58): read the address, `addDocument` |
| `DocumentStored`, `DocumentAcknowledged`, `DocumentRefused` | the server, and the SDK's two answers |
| `Added` | `addDocument`'s completion (lines 58-66): tell the caller again |
| `DismissAlert`, `Restart` | the OK button; the app killed and started (`SceneDelegate`) |

### ProfileUpdate

`user` is the account's document: which update its `profile` is from, whether that has the URL
of its picture, and `edits` for all other fields. `upload` is the update begun in this
process, `listener` the profile that `updateFB`'s listener keeps writing, `shown`
the labels and the picture of the profile screen, `ours` (history) the updates begun here,
`rivals` the profiles that the listeners of other devices write.

| Action | Code |
|---|---|
| `OpenProfile`, `ShowProfile` | `ProfileViewController.viewDidLoad`, `userInfo`'s listener (VM 58-94) |
| `PressUpdate`, `Uploaded`, `Linked` | `updateFB` to `putData`, its completion, the URL's completion, which adds the listener (lines 148-186) |
| `WriteProfile` | the listener (lines 186-199): `updateData` whatever the snapshot says |
| `OtherDeviceUpdates`, `OtherDeviceWrites` | `updateFB` on another device (lines 148-190): its listener is added, never to be removed; that listener's writes (lines 186-199), any number, at any time |
| `OtherFieldChanges` | another device's write of another field |
| the rest | the SDK, as in `Availability` |

## What is abstracted

- *Addresses, names, times, labels* are model values or left out. A Users
  document is the fields the component reads or writes and a version number
  `edits` standing for the rest, so that "something else changed" is visible.
- *One main-queue task is one step.* The main queue is FIFO; the tasks run one
  after another. What the SDK's worker does with a call is part of the step that
  makes the call; what it tells the app is a new task.
- *The write stream* sends in order, several writes at a time, and hears the
  answers in order (the SDK's limit of ten outstanding writes is not reached
  within the bounds). Commit on the server and acknowledgement on the device are
  separate steps; Watch may bring the result before or after the acknowledgement,
  and the stage of a write records which.
- *Watch* brings the server's current copy of a document. Several changes may be
  seen as one, as Firestore does; documents never go back in time.
- *Failures.* A transient error is a delay, or `StreamBreaks`: every write
  without an answer is sent again. A permanent error (`Rejected`) drops the
  write; the server does not refuse a request document it has already stored.
  `Restart` keeps the persisted cache and queue and loses the main queue, the
  listeners, the completions and everything the app holds in memory.
- *arrayUnion* is a transform that the server applies to its own document, and
  the device to its cached one at the acknowledgement.
- *Caching.* Users documents are cached, because the players list listens to the
  whole collection before any of these screens can be reached. There is one
  Users document per account, and in `PlayRequests` one device per account. The
  app lets a player send a request to himself, and so does the model.
- *Players list.* A location is a rank, unique by the document id, in which the query
  orders. The address stands for every field that may be missing: an image URL is
  missing when `downloadURL` failed, an address when its player signed out before
  the document was written (the owner of the device stays signed in). A table reads
  all its rows when it is reloaded; UIKit reads the ones on the screen.
- *Screens.* Screens present each other full screen and never go back except by an alert's OK
  (the segues between login, create screen and list are full screen); UIKit presents
  on the screen in front only, and one thing at a time. Only screens of `Onboarding`'s own
  components appear: `Players` stands for the list and for what it leads to, the profile
  screen with its sign-out button included.
- *Session.* A call to Auth may fail at any time; a sign-up may be registered and answered by an
  error (FIRAuth fetches the account after creating it, and an answer may be lost), `MaxLost` times.
  The change of user, its notification and its completion are one step of Auth's queue. The stored
  keychain never fails. The listeners of the screens behind a login screen are not in `Onboarding`;
  in the other modules the user stays signed in.
- *Profile creation.* Storage answers at any time, with success or error. A kill ends a chain that has not yet added its document.
- *Profile update.* Storage's answer and the main-queue task it causes are one step. One update
  per process; the update screen's segue and dismissal are left out. Other devices are an
  environment that may do more than they can: each may write its profile whenever the stored one
  differs, while on a real device a snapshot, a queue, a kill or a user decides. `MaxBacklog` bounds
  this device's main queue at the moment of such a write, since every one of them may add a snapshot. `Linked` adds a listener
  on a query that is already active, so its first snapshot comes at once.
- *Order of a query.* Requests come in the order of their random ids; the
  model picks any free id, so that a later request may sort before an earlier.

## The runs

The bounds are `CONSTANTS` of the modules and appear in the actions' guards.
Deadlock checking is off in all of them: a system whose users do nothing more
has stopped, rightly.

| Run | Bounds | Shows |
|---|---|---|
| `requests_safety` | 2 players, 1 request each, 1 refusal, 2 faults; symmetric | `PendingHasRequest`, `SuccessIsStored`, `FailureIsFinal`; no device loses sight of a requester but its own refused sender (`NobodyVanishes`); that everything in flight is in order (`InFlightInOrder`), and that the server implements `RequestBoard` |
| `requests_echoes` | 1 player, 2 requests, 1 edit, 2 refusals, 2 faults | liveness: `EchoReachesReceiver`, `EchoesSettle` |
| `availability_patient` | 1 device, 2 taps, 1 screen, 1 edit, 1 refusal, 2 faults, patient user | the copies of the position agree (`CopiesAgree`) and what is stored follows the switch in front; nothing in flight is stale (`InFlightInOrder`); the device falls silent, a tapped position is stored |
| `availability_fast_taps` | as above, impatient, no failures | `SettledAgrees` is violated |
| `availability_two_screens` | 2 taps, 2 screens, patient | `StoredFollowsSwitch` is violated |
| `availability_oscillates` | 2 taps, 1 edit, impatient | `Settles` is violated |
| `pending_list` | 2 senders, 3 requests, 1 edit each, 1 restart | each request is listed at some time; only an inner listener that is not the last drops one; with no sender edits the list ends complete; each listener knows what those before it know (`InFlightInOrder`) |
| `players_list` | 2 players, 1 list, 1 map, 1 edit, 1 restart | quiet tables and quiet taps are right, only a refused profile leads to a crash, a location has its own player's address, every list catches up |
| `onboarding` | 2 accounts, 3 presses, 2 forms, 1 lost sign-up, 1 refusal, 1 kill; symmetric | what the create screen is told is true, every form has its answers; for a user who waits: one profile with his own address (`OneProfileEach`), the right screen, one thing under way at a time (`OneThingAtATime`) |
| `profile_update` | 2 updates, 1 edit, 1 refusal, 2 faults, 2 tasks waiting while others write | once quiet, the stored profile is this process's and the screen shows what is stored; of this device's updates no older one comes back for good; a promised update is stored again and again, and only another device's endless writing keeps the device busy (`PromisedIsStored`); the newest snapshot is shown and answered last, updates are queued in order (`InFlightInOrder`) |
| `players_tap` | 2 players, 1 list | `TapSelectsShown` is violated |
| `pending_stale` | 2 senders, 2 requests, 1 edit | `ListIsComplete` is violated |

*Why the bounds are enough.* Two players are what it takes for two senders to
patch one array from copies of different age and for a patch of one to be a
snapshot of the other; one request each puts both queues, both caches and the
crossing of acknowledgement and Watch into play, and two faults let a re-sent
write be interrupted a second time. Retrying is a matter of one device,
so the liveness run has one, with two listeners on one document (two requests)
that hear each other's patches, and two refusals, so that a retry is refused too.
One tap shows the loop snapshot–write–completion–switch, two what a second
one does to it. In `PendingList` three requests make three outer snapshots, so
an inner listener may be the first, the last and neither. In `PlayersList` the owner
and one more player are enough for a row to move and for a missing address to be
taken from the other; a list and a map are two listeners that fill one array. With
two lists, or two maps, the properties hold as well, on state spaces that take several minutes
(two maps: 1,221,805 states; a map shows a pin only from the second one on). In `Onboarding`
three presses are a sign-up, a sign-out and a login as another user while the chain of a form is under way,
and two forms are what a second press of the create button needs. In `ProfileUpdate` two updates
are an older and a newer one, from one device (with a kill between) or two; two faults let the
write of a first process be sent again and once more. A backlog of two lets another device write
between a snapshot, its answer and the next. With three updates, no edit and a
backlog of one the properties hold as well (720,096 distinct states).

*Two devices of one account* satisfy neither `Settles` nor
`StoredFollowsSwitch` once their switches differ: each answers the other's
snapshot with its own position. The queues of that loop grow, its state space
has no end, and so no run of two devices is kept. `Availability` is written for any set
of devices.

## Where the code falls short

Five properties are violated, each by what the source does; the entries
("findings" in `PROJECT.json`) quote the comment that states the intent.

1. *Fast taps* (`VM/ProfileViewModel.swift:226`). The completion reads the switch
   and dispatches a block with what it read; a tap in between is undone on the
   switch, and the tap's own write stays. Switch and `canPlay` disagree for good.
2. *A second profile screen* (line 216). The first screen's listener still holds
   the first screen's switch, and stores it in answer to a tap on the second.
3. *Oscillation* (line 224). After two fast taps and one other change of the
   document two positions circulate through queue, snapshot and switch for ever.
4. *A stale list* (`VM/RequestAndPendingViewModel.swift:88`). An old inner
   listener called late puts the snapshot it captured back.
5. *The wrong player* (`C/PlayersListViewController.swift:88`). The table shows what it read
   at its last reload; a tap reads `userArray`, which the snapshot's loop has
   already refilled. The request goes to the player who is in that row now.

More can be read off the models although no comment of the code speaks of it:

- *An empty table* (`C/PendingRequestViewController.swift:51`). The table reads another object
  than the one the screen fills: `rows` is never anything but empty.
- *A crash* (`SelectMissingRow`): a tap on the owner's row after his profile was refused.
- *A map without pins*. Each snapshot records its last document as often as it has documents
  (`Locate`), and a map draws, once, one annotation at the last location recorded before it was opened (`Pin`): the first map of a process has none.
- *A profile under another's address* (`VM/CreateProfileViewModel.swift:47`). Without its premise
  `~hasty`, `OneProfileEach` fails: the address is read when the URL has come, and a user who has signed out
  and in as another by then stores the first one's form as the second one's.
- *Two profiles*. The other half of `OneProfileEach` fails then too: the button stays enabled while the upload runs.
- *A list without a profile*. After a kill, a refused profile or a sign-up whose answer was lost, the user
  gets to the players list without a `Users` document, and no screen offers to create one.
- *Two updates fight*. Two devices that both ran `updateFB` answer each other's writes for as long as both apps
  run, and the older update comes back over the newer one each time. That is why `PromisedIsStored` promises silence only
  if the other device stops, and `NeverBackForGood` speaks of this device's own updates: without
  those premises both are violated in `profile_update`. A second `updateFB` in one process adds a second listener with the same effect.
- *An older update for a moment*. After a broken stream the server takes an update it already had once more, over a
  newer one; if both are this device's, `NeverBackForGood` says that the newer one is then on its way as well.

## Fairness

`FairSpec` assumes weak fairness of: the tasks of the main queue (the iOS main
run loop runs what is dispatched to it), the server's commit and the arrival of
its answer (the SDK retries every transient error with backoff, without limit),
and Watch (the stream is re-opened, and resumes from its last token). No fairness
is assumed of a user, of an edit by someone else, of a refusal, a broken stream or a kill; these are bounded, so the liveness properties say what
happens once they have ceased. The writes of other devices in `ProfileUpdate` are not bounded in number: they
may go on for ever, or cease at any time. `PendingList` assumes none of `NobodyFound` nor
of the senders' documents: what its liveness property promises does not need them.
`ProfileUpdate` also assumes that Storage answers (its requests have a time limit, after
which they fail). `Onboarding` assumes no fairness: `NothingForgotten` says of every state in
which nothing is under way what a liveness property would say of the future.

## What is proved

All of it is checked by TLAPS, for every value of the constants: any set of players, devices,
senders or accounts, any bounds. The assumptions are the named `ASSUME`s of the modules:
`BoundsAreNaturals`; `NoOneIsNoAccount`, `NotStartedIsNoUser` and `NoSenderIsNoSender` (a mark is not
one of the things it marks the absence of), as in `PlayersList` is `AbsentIsAbsent`; `PatientIsBoolean`;
`OwnerIsPlayer` (the device's owner has an account); and `PlayersAreFinite`, without which the documents of a query would
have no order to be looped over in. Two theorems have a hypothesis more,
given with them. No other set need be finite or inhabited.

A safety invariant here is seldom inductive, since it speaks of what users and screens see, and often
only of the states in which nothing is under way. What makes it true is a fact about everything
in flight: the tasks on the main queue, the queued writes, the copies they were computed from.
Those facts are part of the models, as named conjuncts of `InFlightInOrder` (`OneThingAtATime` in
`Onboarding`), and they are the heart of each inductive invariant. The runs check them too, except that of
`PlayersList`, which holds in `players_list` as well when it is added to its invariants.

### Play requests

| Theorem | States |
|---|---|
| `TypeCorrect` | `Spec => []TypeOK` |
| `PendingIsRequested` | `Spec => []PendingHasRequest` |
| `SuccessIsTrue` | `Spec => []SuccessIsStored` |
| `FailureStays` | `Spec => []FailureIsFinal` |
| `InOrder` | `Spec => []InFlightInOrder` |
| `NobodyIsLost` | `Spec => NobodyVanishes` |
| `BoardIsImplemented` | `Spec => ImplementsBoard`, the refinement of `RequestBoard` |

`PendingHasRequest` is not inductive: a queued patch whose request was never stored would break it at
the next commit. `IInv == TypeOK /\ Warranted /\ PendingHasRequest` is. `Warranted` follows a patch
back to where it came from: every queued patch and every snapshot waiting on the main queue is for a
document that some echo listens to or listened to, every echo was added by a successful completion,
every successful completion was queued by an acknowledgement, and an acknowledgement is only possible
for a request the server has stored. Since `requests` only grows, none of this is ever taken back; a
broken stream or a kill returns a write to "queued", which asks less. The
refinement is then a step property: a commit of an add is `Store`, a commit of a patch is `Show` (its
guard is what `Warranted` says of the patch), everything else stutters.

`FailureIsFinal` needs `NumbersUsedOnce`: a number whose failure is reported, or on its way to be, is
neither stored nor in the queue, no number is in the queue twice, and none is used before it is given
out. So the request behind a reported failure is nowhere it could still be stored from. It is a statement about each
device (`OneFate`), and so is its proof. `ViewIsCurrent` is inductive next to `TypeOK`: every step that changes a device's
cached copy or queue recomputes the view by `NextView`, which keeps an old view only
while an acknowledged patch waits for Watch.

`NobodyVanishes` compares what a listener is told with what it was told before, and what it is told
comes from a cached copy of some age, the device's own queue and the rule that withholds a view. Its invariant
is `TypeOK /\ Warranted /\ CopiesFit /\ ViewsFit`. `CopiesFit` relates copies of different age: a
cached copy is never ahead of the server's document; one that an acknowledged patch wrote has this device's sender; a
patch the server has answered is in the server's document, and one that Watch overtook in the cached copy too. So what
the device knows (`Known`) shrinks in one case only, `KnownStays`: the head of the queue
is refused, and then by the device's own sender. `ViewsFit` says that a view, withheld or not, never shows more than that.

### Availability switch

| Theorem | States |
|---|---|
| `TypeCorrect` | `Spec => []TypeOK` |
| `InOrder` | `Spec => []InFlightInOrder` |
| `AllCopiesAgree` | `ASSUME Patient PROVE Spec => []CopiesAgree` |
| `StoredIsShown` | `ASSUME Patient, MaxScreens = 1 PROVE Spec => StoredFollowsSwitch` |

`IInv == TypeOK /\ AllDevices`: a statement about each device, whose parts are the conjuncts of
`InFlightInOrder`, so that a step of one device is a matter of that device and of Watch. The chain from
a tap to silence is snapshot, write, completion, block, snapshot; `NothingStale` says no link of it holds a
position that its switch has left, and `LastLink` that the last link of every chain
belongs to the newest tapped switch. In a quiet state there is no link, so the copies agree. The two
hypotheses are what the code depends on: without `Patient`, `availability_fast_taps` shows a state in which the copies differ for
good; with two screens, `availability_two_screens` shows the older one storing its own position.
`AllCopiesAgree` and `InOrder` do not need the second: two screens of a patient user agree in the end.

### Pending requests

| Theorem | States |
|---|---|
| `TypeCorrect` | `Spec => []TypeOK` |
| `InOrder` | `Spec => []InFlightInOrder` |
| `ListComplete` | `Spec => []SettledListIsComplete` |
| `OldListenersForget` | `Spec => OnlyOldListenersForget` |

`IInv == TypeOK /\ SnapshotsInOrder /\ NewestIsLast`. The snapshots that the inner
listeners captured, then those still waiting on the main queue, then the cached result form one chain of
growing sets, and the list on the screen is one of those already captured; the last
listener added has the largest and is always the last to be called in a round, since one change of a sender's document calls its
listeners in the order they were added (`Ranked`). A call of a listener can only lose a request if a
later one exists, which is the action property.

### Players list and map

| Theorem | States |
|---|---|
| `TypeCorrect` | `Spec => []TypeOK` |
| `InOrder` | `Spec => []InFlightInOrder` |
| `QuietTables` | `Spec => []QuietTableIsCurrent` |
| `QuietTaps` | `Spec => QuietTapSelectsShown` |
| `OnlyRefusal` | `Spec => []OnlyRefusalCrashes` |
| `LocationsRight` | `Spec => []LocationNamesItsPlayer` |

`IInv == TypeOK /\ InFlightInOrder`. Underneath lies what a document keeps for ever: its player, its place
and its address (`ProfilesFit`, `SnapshotsFit`), so that every copy, however old, is of one
document, and every set of copies has one order. `OrderedIs` shows that the query's order, a rank per document, is a
sequence of them, as long as they are many, and `LoopIs` that the recursive function `Loop` exists and does what the code's loop does: its witness
is written down directly (an address is that of the last document so far that has one), so that no induction is needed.

For the tables, a listener either waits for the newest snapshot, with no older one behind it, or has been
given it, and then `userArray` has it and the list shows it or will be reloaded (`TablesCatchUp`). Two
listeners share one array: while one has it and another still waits, both are given the same documents, and
that is why the first one's table stays right. A snapshot without documents changes nothing, so when the owner's refused
profile was all there was, rows and `userArray` keep what they had, each perhaps from another time; `OnlyOwnerUncached` says that
it can only be the owner, so that `QuietTapSelectsShown` holds there too. For `OnlyRefusalCrashes`, sizes are in order
(`SnapshotsGrow`): rows, `userArray`, the snapshots in the order of the main queue, the view; a row of a table is then a row of
`userArray`, until a refused profile makes a snapshot shorter. `LocationNamesItsPlayer` follows from `FieldsFit`: a
block is dispatched after the whole loop, when the captured location and address are both those of the last document, or it has none.

### Profile creation and session

| Theorem | States |
|---|---|
| `TypeCorrect` | `Spec => []TypeOK` |
| `SdkFollows` | `Spec => []SdkFollowsSession` |
| `AnswersTrue` | `Spec => []AnswersAreTrue` |
| `NoneForgotten` | `Spec => []NothingForgotten` |
| `OneThing` | `Spec => []OneThingAtATime` |
| `OneProfileForEach` | `Spec => []OneProfileEach` |
| `ScreenMatches` | `Spec => []ScreenMatchesSession` |
| `SkippedOnlyIfInterrupted` | `Spec => []OnlyInterruptionSkipsProfile` |

`SdkFollowsSession` follows from `Followed`: the last change of user waiting on the main queue is to
Auth's current user, and if none waits the SDK has that user or has not started. A step of Auth appends
the change it made, the SDK takes changes off in order, and a start of the SDK takes the user from Auth
itself, so the changes still waiting then do no harm.

`AnswersAreTrue` and `NothingForgotten` follow from `Chain`: every possible form is in one of the phases
`Unborn`, `InStorage`, `GivenUp`, `InQueue`, `Decided`, and each phase fixes, together, the form's stage,
what its caller was told, how many answers for it wait on the main queue (none, or exactly one, and
which), how often it is in the queues of all users (never, or exactly once), and whether it is stored.
So an answer always finds its form where it left it, and a form that has not had its last answer is
always somewhere. The proof moves one form at a time: `FitsKept` says that a step leaves a form in its
phase if it leaves the form's answers, writes and record alone, `ChainMoved` that only the form a step
is about is left to be looked at, and one lemma per action shows which phase that form goes to.

The other four rest on `TypeOK /\ Chain /\ OneThingAtATime`, where the last says what the user's waiting
(`~hasty`) amounts to: at most one of a call to Auth, its answer, a change of screen and an upload is
under way, and it belongs to the screen in front (`OneSession`); a form that is not given up
belongs to its author's only create screen, and no account has two promised
profiles (`FormsFit`); accounts, screens and authors fit together (`AccountsFit`); and an account whose
way was not interrupted is on its way to a profile (`OnItsWay`). A hasty press ends the premise and with
it the obligation, which is why these properties say nothing of a user who does not wait.

### Profile update

| Theorem | States |
|---|---|
| `TypeCorrect` | `Spec => []TypeOK` |
| `InOrder` | `Spec => []InFlightInOrder` |
| `ProfileIsOurs` | `Spec => []QuietProfileIsOurs` |
| `ScreenIsCurrent` | `Spec => []QuietScreenIsCurrent` |
| `OlderOnlyForAWhile` | `Spec => NeverBackForGood` |

`IInv == TypeOK /\ ViewIsCurrent /\ LastWord /\ UpdatesInOrder`; all of it bears with other devices that write
at any step. `LastWord`: the newest snapshot is what
the screen will show last, and if the view shows anything but the listener's profile, a call of the
listener or a write of that profile is still to come. `UpdatesInOrder`: this device's writes are queued in the
order of their updates, none of which is another device's, and where the server has one of them while an older one is queued
(which a broken stream brings about), the newer one is queued as well and will be stored again. That is what `NeverBackForGood` says of a step; and in a quiet
state there is nothing to come, so profile, view and screen are the listener's.

### Only model-checked

Every liveness property (`EchoReachesReceiver`, `EchoesSettle`, `Settles`, `TapIsStored`,
`EveryRequestIsListed`, `ListsCatchUp`, `PromisedIsStored`): liveness under fairness needs ENABLED, which this prover
does not reason about. Each safety invariant and action property of the passing runs is stated by a theorem.

## Not modelled, and the plan

`getPlaceholderInfo` fills three placeholders the way `userInfo` fills its labels. The alert helper has no state,
the location helper is commented out, the SwiftUI view and `ViewController.swift`
are unused templates. Of the SDK, limbo resolution, target and existence-filter
handling, transactions, limits, garbage collection and the snapshots that a change of user raises
are left out. Of Firebase Auth and Storage there is what `Onboarding` needs of them. The other
vendored code (gRPC, BoringSSL, leveldb, abseil, UI libraries) carries nothing of the app's own logic.

What could follow:

1. `getPlaceholderInfo`, and `ProfileUpdate` across a change of user.
2. Composition: the row tapped in `PlayersList` is the receiver of `PlayRequests`, what
   `PlayRequests` stores is what `PendingList` reads, what `Onboarding` stores is what `PlayersList` lists.
3. Proofs about the compositions, once they are modelled: each part's `InFlightInOrder` is what the other would rely on.

## Running it

    tlc -workers 2 -config requests_safety.cfg MCPlayRequests
    tlapm PlayRequests_proofs.tla

and so on for each run and each module of theorems. `PROJECT.json` pairs each configuration with its module. On two workers
`requests_safety` visits 233,486 distinct states, `requests_echoes` 69,358,
`availability_patient` 70,814, `players_list` 126,613, `pending_list` 369,498, `profile_update` 233,762 and
`onboarding` 2,409,125; none takes more than a minute. `availability_oscillates` needs a little more to find its lasso. From nothing,
the proofs of a module take between one and five minutes.
