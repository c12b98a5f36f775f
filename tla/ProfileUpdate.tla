---------------------------- MODULE ProfileUpdate -----------------------------
(***************************************************************************)
(* Editing the profile (ProfileViewModel.updateFB) and showing it          *)
(* (userInfo), for one account on one device, while other devices write    *)
(* the same Users document.                                                *)
(*                                                                         *)
(* An update uploads the picture, reports success, asks for the picture's  *)
(* URL and then adds a listener on the account's document which is never   *)
(* removed.  Every snapshot that listener gets writes the names, the gym   *)
(* and the URL again, whatever the snapshot says; so it hears of its own   *)
(* writes, of requests and of the updates of other devices, and answers    *)
(* all of them.  userInfo's listener copies what it gets into the labels   *)
(* of the profile screen, and leaves the picture alone when the document   *)
(* has no URL.                                                             *)
(*                                                                         *)
(* Other devices of the account run the same code, and their listeners     *)
(* write what they write again and again too.  They are the environment:   *)
(* any of them may write its profile at any time and any number of times,  *)
(* which is at least what its snapshots, its queue and its kills allow.    *)
(*                                                                         *)
(* Updates are numbered as they are begun, on all devices together.  One   *)
(* process begins at most one: two listeners of one process would          *)
(* overwrite each other for ever, with queues that grow without bound.     *)
(***************************************************************************)
EXTENDS Firestore

CONSTANTS
  MaxUpdates,  \* bound on the updates, of this and of other devices
  MaxEdits,    \* bound on the changes to the other fields
  MaxRejects,  \* bound on the writes the server refuses
  MaxFaults,   \* bound on the kills of the app and breaks of its write stream
  MaxBacklog   \* bound on the main queue while other devices write

ASSUME BoundsAreNaturals ==
  {MaxUpdates, MaxEdits, MaxRejects, MaxFaults, MaxBacklog} \subseteq Nat

VARIABLES
  user,      \* server: the account's Users document
  cache,     \* its cached copy on the device
  queue,     \* the SDK's mutation queue
  view,      \* what the listeners were told last
  main,      \* the tasks waiting on the main queue
  open,      \* the profile screen was opened in this process
  shown,     \* what its labels and its picture show
  upload,    \* the update begun in this process, and how far it is
  listener,  \* the profile that updateFB's listener writes, if there is one
  ours,      \* history: the updates begun on this device
  rivals,    \* the profiles that listeners on other devices write
  updates, rejects, faults

device == <<queue, main, view, cache>>
screen == <<open, shown, upload, listener, ours>>
outside == <<rivals, updates, rejects, faults>>
vars == <<user, cache, queue, view, main, open, shown, upload, listener, ours,
          rivals, updates, rejects, faults>>

-------------------------------------------------------------------------------
(* Data *)

Update == 0..MaxUpdates

\* The fields an update writes: which update they are from, and whether the
\* URL of its picture is there.
Profile == [update : Update, url : BOOLEAN]

UserDoc == [profile : Profile, edits : 0..MaxEdits]

Mutation == [profile : Profile, stage : Stage]

NewWrite(p) == [profile |-> p, stage |-> "queued"]

\* A snapshot for userInfo's listener, or one for updateFB's.
Task == [kind : {"show"}, profile : Profile] \cup [kind : {"write"}]

Show(p) == [kind |-> "show", profile |-> p]
Write == [kind |-> "write"]

\* The labels, and the update whose picture is on the screen.
Shown == [names : Update, picture : Update]

NoUpload == [update |-> 0, stage |-> "none"]

-------------------------------------------------------------------------------
(* The SDK *)

LocalDoc(c, q) ==
  [c.doc EXCEPT !.profile = LatestOf(@, [i \in DOMAIN q |-> q[i].profile])]

\* userInfo's listener is older than updateFB's, and is called first.
Snapshots(p) == IF listener = <<>> THEN <<Show(p)>> ELSE <<Show(p), Write>>

\* The device's copy becomes c and its queue q; the snapshots, if any, go
\* behind the tasks of the main queue.
Refreshed(c, q, tasks) ==
  LET newView == NextView(view, LocalDoc(c, q), q # <<>>, c.committed)
  IN  /\ cache' = c
      /\ queue' = q
      /\ view' = IF open THEN newView ELSE view
      /\ main' = IF open /\ ShouldRaiseEvent(view, newView)
                 THEN tasks \o Snapshots(newView.doc.profile)
                 ELSE tasks

Idle == main = <<>> /\ queue = <<>> /\ cache = Cached(user, FALSE)

-------------------------------------------------------------------------------
FirstDoc == [profile |-> [update |-> 0, url |-> TRUE], edits |-> 0]

Closed == Viewed(FirstDoc, FALSE)

Init ==
  /\ user = FirstDoc
  /\ cache = Cached(FirstDoc, FALSE)
  /\ queue = <<>>
  /\ view = Closed
  /\ main = <<>>
  /\ open = FALSE
  /\ shown = [names |-> 0, picture |-> 0]
  /\ upload = NoUpload
  /\ listener = <<>>
  /\ ours = {}
  /\ rivals = {}
  /\ updates = 0
  /\ rejects = 0
  /\ faults = 0

\* The profile screen is opened, and userInfo listens.
OpenProfile ==
  /\ ~open
  /\ open' = TRUE
  /\ view' = Viewed(LocalDoc(cache, queue), queue # <<>>)
  /\ main' = Append(main, Show(LocalDoc(cache, queue).profile))
  /\ UNCHANGED <<user, cache, queue, shown, upload, listener, ours, outside>>

\* Faulty variant: the labels follow only a document with a URL.
ShowPicturedProfile ==
  /\ main # <<>>
  /\ LET t == Head(main)
     IN  /\ t.kind = "show"
         /\ shown' = IF t.profile.url
                     THEN [names |-> t.profile.update, picture |-> t.profile.update]
                     ELSE shown
  /\ main' = Tail(main)
  /\ UNCHANGED <<user, cache, queue, view, open, upload, listener, ours, outside>>

\* userInfo's listener gets a snapshot: labels, and the picture if it has a URL.
ShowProfile ==
  /\ main # <<>>
  /\ LET t == Head(main)
     IN  /\ t.kind = "show"
         /\ shown' = [names |-> t.profile.update,
                      picture |-> IF t.profile.url THEN t.profile.update
                                  ELSE shown.picture]
  /\ main' = Tail(main)
  /\ UNCHANGED <<user, cache, queue, view, open, upload, listener, ours, outside>>

\* The update button: the form is captured and the picture uploaded.
PressUpdate ==
  /\ open
  /\ upload = NoUpload
  /\ updates < MaxUpdates
  /\ updates' = updates + 1
  /\ upload' = [update |-> updates + 1, stage |-> "uploading"]
  /\ ours' = ours \cup {updates + 1}
  /\ UNCHANGED <<user, device, open, shown, listener, rivals, rejects, faults>>

\* The upload's completion: success dismisses the update screen, a failure
\* shows an alert, and the button can be pressed again.
Uploaded ==
  /\ upload.stage = "uploading"
  /\ \/ upload' = [upload EXCEPT !.stage = "linking"]
     \/ upload' = NoUpload
  /\ UNCHANGED <<user, device, open, shown, listener, ours, outside>>

\* Faulty variant: the answer can be taken a second time.
LinkedAgain ==
  /\ upload.stage = "linking"
  /\ \E url \in BOOLEAN : listener' = <<[update |-> upload.update, url |-> url]>>
  /\ main' = Append(main, Write)
  /\ UNCHANGED <<user, cache, queue, view, open, shown, upload, ours, outside>>

\* Faulty variant: the listener is not told of the view it finds.
LinkedSilently ==
  /\ upload.stage = "linking"
  /\ \E url \in BOOLEAN : listener' = <<[update |-> upload.update, url |-> url]>>
  /\ upload' = [upload EXCEPT !.stage = "listening"]
  /\ UNCHANGED <<user, device, open, shown, ours, outside>>

\* The URL has come, or failed to: the listener is added, and is told of the
\* current view at once.
Linked ==
  /\ upload.stage = "linking"
  /\ \E url \in BOOLEAN : listener' = <<[update |-> upload.update, url |-> url]>>
  /\ upload' = [upload EXCEPT !.stage = "listening"]
  /\ main' = Append(main, Write)
  /\ UNCHANGED <<user, cache, queue, view, open, shown, ours, outside>>

\* Faulty variant: the listener writes only what its snapshot lacks.
WriteProfileOnce ==
  /\ main # <<>>
  /\ Head(main).kind = "write"
  /\ IF view.doc.profile.update < listener[1].update
     THEN Refreshed(cache, Append(queue, NewWrite(listener[1])), Tail(main))
     ELSE main' = Tail(main) /\ UNCHANGED <<cache, queue, view>>
  /\ UNCHANGED <<user, screen, outside>>

\* A snapshot of the listener: it writes its update.
WriteProfile ==
  /\ main # <<>>
  /\ Head(main).kind = "write"
  /\ Refreshed(cache, Append(queue, NewWrite(listener[1])), Tail(main))
  /\ UNCHANGED <<user, screen, outside>>

\* Faulty variant: the newest write is sent first.
CommittedNewestFirst ==
  /\ \E i \in DOMAIN queue :
       /\ queue[i].stage = "queued"
       /\ \A j \in DOMAIN queue : queue[j].stage = "queued" => j \leq i
       /\ user' = [user EXCEPT !.profile = queue[i].profile]
       /\ queue' = [queue EXCEPT ![i].stage = "committed"]
  /\ UNCHANGED <<cache, view, main, screen, outside>>

WriteCommitted ==
  /\ \E i \in DOMAIN queue :
       /\ IsNextWrite(queue, i)
       /\ user' = [user EXCEPT !.profile = queue[i].profile]
       /\ queue' = [queue EXCEPT ![i].stage = "committed"]
  /\ UNCHANGED <<cache, view, main, screen, outside>>

\* The completion of updateData is empty.
WriteAcknowledged ==
  /\ queue # <<>>
  /\ Head(queue).stage # "queued"
  /\ Refreshed(Acknowledged(cache, Head(queue),
                            [cache.doc EXCEPT !.profile = Head(queue).profile]),
               Tail(queue), main)
  /\ UNCHANGED <<user, screen, outside>>

WriteRejected ==
  /\ rejects < MaxRejects
  /\ rejects' = rejects + 1
  /\ queue # <<>>
  /\ Head(queue).stage = "queued"
  /\ Refreshed(cache, Tail(queue), main)
  /\ UNCHANGED <<user, screen, rivals, updates, faults>>

\* The Watch stream brings the server's copy, with every write the server
\* committed so far.
WithWatched(q) ==
  [i \in 1..Len(q) |-> IF q[i].stage = "committed"
                       THEN [q[i] EXCEPT !.stage = "watched"]
                       ELSE q[i]]

Watch ==
  /\ WatchIsNews(cache, user)
  /\ Refreshed(Cached(user, FALSE), WithWatched(queue), main)
  /\ UNCHANGED <<user, screen, outside>>

\* Another device writes another field.
OtherFieldChanges ==
  /\ user.edits < MaxEdits
  /\ user' = [user EXCEPT !.edits = @ + 1]
  /\ UNCHANGED <<device, screen, outside>>

\* Another device has uploaded its picture, and its listener is added.
OtherDeviceUpdates ==
  /\ updates < MaxUpdates
  /\ updates' = updates + 1
  /\ \E url \in BOOLEAN : rivals' = rivals \cup {[update |-> updates + 1, url |-> url]}
  /\ UNCHANGED <<user, device, screen, rejects, faults>>

\* A write of another device's listener is committed: its first, or one that
\* answers a snapshot of any later change, this device's writes included.
OtherDeviceWrites ==
  /\ Len(main) <= MaxBacklog
  /\ \E p \in rivals : /\ user.profile # p
                       /\ user' = [user EXCEPT !.profile = p]
  /\ UNCHANGED <<device, screen, outside>>

StreamBreaks ==
  /\ faults < MaxFaults
  /\ faults' = faults + 1
  /\ \E i \in DOMAIN queue : queue[i].stage # "queued"
  /\ queue' = Resent(queue)
  /\ UNCHANGED <<user, cache, view, main, screen, rivals, updates, rejects>>

\* The app is killed and started again: the queue is kept, the upload and the
\* listener are not.
Restart ==
  /\ faults < MaxFaults
  /\ faults' = faults + 1
  /\ queue' = Resent(queue)
  /\ view' = Closed
  /\ main' = <<>>
  /\ open' = FALSE
  /\ shown' = [names |-> 0, picture |-> 0]
  /\ upload' = NoUpload
  /\ listener' = <<>>
  /\ UNCHANGED <<user, cache, ours, rivals, updates, rejects>>

Next ==
  \/ OpenProfile
  \/ ShowProfile
  \/ PressUpdate
  \/ Uploaded
  \/ Linked
  \/ WriteProfile
  \/ WriteCommitted
  \/ WriteAcknowledged
  \/ WriteRejected
  \/ Watch
  \/ OtherFieldChanges
  \/ OtherDeviceUpdates
  \/ OtherDeviceWrites
  \/ StreamBreaks
  \/ Restart

Spec == Init /\ [][Next]_vars

\* The main queue runs, Storage and Firestore answer, and Watch catches up.
\* Nothing makes the other devices write.
Fairness ==
  /\ WF_vars(ShowProfile)
  /\ WF_vars(Uploaded)
  /\ WF_vars(Linked)
  /\ WF_vars(WriteProfile)
  /\ WF_vars(WriteCommitted)
  /\ WF_vars(WriteAcknowledged)
  /\ WF_vars(Watch)

FairSpec == Spec /\ Fairness
-------------------------------------------------------------------------------
(* Properties *)

TypeOK ==
  /\ user \in UserDoc
  /\ cache \in [doc : UserDoc, committed : BOOLEAN]
  /\ queue \in Seq(Mutation)
  /\ view \in [doc : UserDoc, local : BOOLEAN]
  /\ main \in Seq(Task)
  /\ open \in BOOLEAN
  /\ shown \in Shown
  /\ upload \in [update : Update, stage : {"none", "uploading", "linking", "listening"}]
  /\ listener \in {<<>>} \cup {<<p>> : p \in Profile}
  /\ upload.stage = "listening" <=> listener # <<>>
  /\ ours \subseteq Update
  /\ rivals \subseteq Profile
  /\ updates \in Update
  /\ rejects \in 0..MaxRejects
  /\ faults \in 0..MaxFaults

\* What the listeners were told last is the document as the device knows it,
\* unless the view waits for Watch to confirm an acknowledged write.
ViewIsCurrent ==
  open =>
    \/ view.doc = LocalDoc(cache, queue)
    \/ view.local /\ cache.committed

\* While no snapshot waits for its listener, what the listeners were told
\* last is what updateFB's listener writes and what the screen shows: the
\* newest snapshot is never dropped and never overtaken.
Shows(labels, p) ==
  /\ labels.names = p.update
  /\ p.url => labels.picture = p.update

NewestIsShown(tasks, p, current) ==
  \/ \E k \in DOMAIN tasks :
       /\ tasks[k].kind = "show" /\ tasks[k].profile = p
       /\ \A l \in DOMAIN tasks : tasks[l].kind = "show" => l <= k
  \/ current /\ \A k \in DOMAIN tasks : tasks[k].kind # "show"

ListenerAnswers(writer, tasks, p) ==
  IF writer = <<>>
  THEN \A k \in DOMAIN tasks : tasks[k].kind # "write"
  ELSE p = writer[1] \/ \E k \in DOMAIN tasks : tasks[k].kind = "write"

LastWord ==
  /\ upload.stage # "none" => open
  /\ open => NewestIsShown(main, view.doc.profile, Shows(shown, view.doc.profile))
  /\ ListenerAnswers(listener, main, view.doc.profile)

\* The queue holds this device's updates, oldest first, and the listener's
\* is the newest of them; other devices write other updates.  An update of
\* this device that is stored is followed by newer ones only, or waits in the
\* queue to be written again.
QueuedInOrder(q, own) ==
  /\ \A i \in DOMAIN q : q[i].profile.update \in own
  /\ \A i, j \in DOMAIN q : i <= j => q[i].profile.update <= q[j].profile.update

NoneOlder(q, p) == \A i \in DOMAIN q : q[i].profile.update >= p.update

WillBeBack(q, p) ==
  \E k \in DOMAIN q :
    /\ q[k].profile = p
    /\ \/ q[k].stage = "queued"
       \/ \A i \in DOMAIN q : q[i].stage = "queued" => q[i].profile.update >= p.update

UpdatesInOrder ==
  /\ ours \subseteq 1..updates
  /\ user.profile.update <= updates
  /\ upload.stage # "none" => upload.update \in ours /\ \A u \in ours : u <= upload.update
  /\ listener # <<>> => listener[1].update = upload.update
  /\ \A p \in rivals : p.update \in (1..updates) \ ours
  /\ QueuedInOrder(queue, ours)
  /\ user.profile.update \in ours =>
       NoneOlder(queue, user.profile) \/ WillBeBack(queue, user.profile)

\* Everything in flight is in order: what was queued last is shown, answered
\* and stored last.
InFlightInOrder == ViewIsCurrent /\ LastWord /\ UpdatesInOrder

\* When nothing is in flight, the stored profile is the one the listener
\* writes: nothing that other devices write stays unanswered, later updates
\* included, and neither do refused writes and broken streams.
QuietProfileIsOurs == Idle /\ listener # <<>> => user.profile = listener[1]

\* When nothing is in flight, the labels of an open profile screen show the
\* stored names, and a picture that has a URL is the one on the screen.
QuietScreenIsCurrent ==
  Idle /\ open =>
    /\ shown.names = user.profile.update
    /\ user.profile.url => shown.picture = user.profile.update

\* An update of this device gives way to an older one of this device only
\* when a kill or a broken stream has both written again, and the newer one is
\* still to come; whatever other devices write in between.
NeverBackForGood ==
  [][/\ {user.profile.update, user'.profile.update} \subseteq ours
     /\ user'.profile.update < user.profile.update
     => \E i \in DOMAIN queue : /\ queue[i].stage = "queued"
                               /\ queue[i].profile = user.profile]_vars

\* The update that the update screen reported as a success in this process
\* is the stored one.
Kept == upload.stage \in {"linking", "listening"} => user.profile.update = upload.update

\* A reported success is stored again and again, whatever other devices
\* write; and the device falls silent with it for good, unless the listener
\* of another device writes for ever.
PromisedIsStored ==
  /\ []<>Kept
  /\ []<><<OtherDeviceWrites>>_vars \/ <>[](Idle /\ Kept)
===============================================================================
