----------------------------- MODULE PlayRequests -----------------------------
(***************************************************************************)
(* Sending a play request (RequestAndPendingViewModel.sendPlayRequest).    *)
(*                                                                         *)
(* Each player is signed in on one device.  A request is a new document    *)
(* of the collection Requests; once the server has answered, the sender's  *)
(* device adds a listener on the receiver's Users document, and every      *)
(* snapshot of that document patches it with                               *)
(*        pendingRequest := arrayUnion([sender]).                          *)
(* The listener is never removed, so it is called an echo here: it hears   *)
(* of its own patches, of the other senders' and of the receiver's edits.  *)
(*                                                                         *)
(* The device runs the app's callbacks one after another on the main       *)
(* queue; the SDK's worker answers them later, writes reach the server in  *)
(* the order they were queued, and the Watch stream brings the server's    *)
(* documents back at any time.  Killing the app loses the main queue, the  *)
(* echoes and the callbacks, never the SDK's persisted cache and queue;    *)
(* like a broken write stream, it has the unanswered writes sent again.    *)
(***************************************************************************)
EXTENDS Firestore, FiniteSets

CONSTANTS
  Player,      \* the accounts, each with its device and its Users document
  MaxSends,    \* bound on the requests one player sends
  MaxEdits,    \* bound on the other changes to one Users document
  MaxRejects,  \* bound on the writes the server refuses
  MaxFaults    \* bound on the kills of apps and breaks of write streams

ASSUME BoundsAreNaturals ==
  /\ MaxSends \in Nat
  /\ MaxEdits \in Nat
  /\ MaxRejects \in Nat
  /\ MaxFaults \in Nat

VARIABLES
  requests,    \* server: the documents of Requests
  users,       \* server: the Users document of every player
  cache,       \* device: its cached copy of every Users document
  queue,       \* device: the SDK's mutation queue
  view,        \* device: what the echoes on a Users document were told last
  echoes,      \* device: how many echoes it has on each Users document
  main,        \* device: the tasks waiting on the main queue
  sent,        \* device: requests sent so far (their document ids)
  reported,    \* device: the outcomes the request screen was told
  rejects, faults

server == <<requests, users>>
device == <<cache, queue, view, echoes, main, sent, reported>>
vars == <<requests, users, cache, queue, view, echoes, main, sent, reported,
          rejects, faults>>

-------------------------------------------------------------------------------
(* Data *)

\* A Users document: the requesters, and a version standing for the fields
\* that other screens and devices write.
UserDoc == [pendingRequest : SUBSET Player, edits : 0..MaxEdits]

\* A document of Requests; n makes the automatic document id.
Request == [from : Player, to : Player, n : 1..MaxSends]

\* A queued write: the new document of Requests, with or without the
\* completion that dies with the process, or the patch of a Users document.
AddDocument == [kind : {"add"}, to : Player, n : 1..MaxSends,
                callback : BOOLEAN, stage : Stage]
Patch == [kind : {"patch"}, to : Player, stage : Stage]
Mutation == AddDocument \cup Patch

NewAdd(r, n) ==
  [kind |-> "add", to |-> r, n |-> n, callback |-> TRUE, stage |-> "queued"]
NewPatch(r) == [kind |-> "patch", to |-> r, stage |-> "queued"]

\* A task of the main queue: the completion of addDocument, or a snapshot.
Completion == [kind : {"completion"}, to : Player, n : 1..MaxSends, ok : BOOLEAN]
Snapshot == [kind : {"snapshot"}, to : Player]
Task == Completion \cup Snapshot

Outcome == [n : 1..MaxSends, ok : BOOLEAN]

-------------------------------------------------------------------------------
(* The SDK on device d *)

NewDoc == [pendingRequest |-> {}, edits |-> 0]

\* The view of a query nobody listens to is not kept; this stands for it.
Closed == Viewed(NewDoc, FALSE)

IsPatchOf(m, r) == m.kind = "patch" /\ m.to = r

HasPatch(q, r) == \E i \in DOMAIN q : IsPatchOf(q[i], r)

\* The receiver's document as device d sees it with cached copy c, queue q.
LocalDoc(d, c, q, r) ==
  [c.doc EXCEPT !.pendingRequest = IF HasPatch(q, r) THEN @ \cup {d} ELSE @]

\* The echoes of device d on r hear of newView, in the order they were added.
Notified(d, r, newView) ==
  IF ShouldRaiseEvent(view[d][r], newView)
  THEN [i \in 1..echoes[d][r] |-> [kind |-> "snapshot", to |-> r]]
  ELSE <<>>

\* Device d's copies of r become c and its queue q, and the main queue, of
\* which tasks remain, gets the snapshots that follow.
Refreshed(d, r, c, q, tasks) ==
  LET newView == IF echoes[d][r] = 0
                 THEN view[d][r]
                 ELSE NextView(view[d][r], LocalDoc(d, c, q, r),
                               HasPatch(q, r), c.committed)
  IN  /\ cache' = [cache EXCEPT ![d][r] = c]
      /\ queue' = [queue EXCEPT ![d] = q]
      /\ view' = [view EXCEPT ![d][r] = newView]
      /\ main' = [main EXCEPT ![d] = tasks \o Notified(d, r, newView)]

-------------------------------------------------------------------------------
Init ==
  /\ requests = {}
  /\ users = [r \in Player |-> NewDoc]
  /\ cache = [d \in Player |-> [r \in Player |-> Cached(NewDoc, FALSE)]]
  /\ queue = [d \in Player |-> <<>>]
  /\ view = [d \in Player |-> [r \in Player |-> Closed]]
  /\ echoes = [d \in Player |-> [r \in Player |-> 0]]
  /\ main = [d \in Player |-> <<>>]
  /\ sent = [d \in Player |-> 0]
  /\ reported = [d \in Player |-> {}]
  /\ rejects = 0
  /\ faults = 0

\* Faulty variant: request ids start at 0.
SendFromZero(d, r) ==
  /\ sent[d] < MaxSends
  /\ sent' = [sent EXCEPT ![d] = @ + 1]
  /\ queue' = [queue EXCEPT ![d] = Append(@,
                 NewAdd(r, sent[d]))]
  /\ UNCHANGED <<server, cache, view, echoes, main, reported, rejects, faults>>

\* Faulty variant: the receiver's document is patched without waiting for the
\* server to accept the request.
SendOptimistically(d, r) ==
  /\ sent[d] < MaxSends
  /\ sent' = [sent EXCEPT ![d] = @ + 1]
  /\ queue' = [queue EXCEPT ![d] = @ \o
                 <<NewAdd(r, sent[d] + 1), NewPatch(r)>>]
  /\ UNCHANGED <<server, cache, view, echoes, main, reported, rejects, faults>>

(***************************************************************************)
(* The user presses Send Request on the request screen of r: the new       *)
(* document is queued.  Nothing shows until the server answers.            *)
(***************************************************************************)
SendPlayRequest(d, r) ==
  /\ sent[d] < MaxSends
  /\ sent' = [sent EXCEPT ![d] = @ + 1]
  /\ queue' = [queue EXCEPT ![d] = Append(@,
                 NewAdd(r, sent[d] + 1))]
  /\ UNCHANGED <<server, cache, view, echoes, main, reported, rejects, faults>>

\* Faulty variant: the completion does not look at the error.
CompletionIgnoringError(m, ok) ==
  IF m.callback
  THEN <<[kind |-> "completion", to |-> m.to, n |-> m.n, ok |-> TRUE]>>
  ELSE <<>>

\* The completion of addDocument goes to the main queue, if it still exists.
CompletionOf(m, ok) ==
  IF m.callback
  THEN <<[kind |-> "completion", to |-> m.to, n |-> m.n, ok |-> ok]>>
  ELSE <<>>

\* The server stores a new request.
AddCommitted(d) ==
  /\ \E i \in DOMAIN queue[d] :
       LET m == queue[d][i]
       IN  /\ IsNextWrite(queue[d], i)
           /\ m.kind = "add"
           /\ requests' = requests \cup {[from |-> d, to |-> m.to, n |-> m.n]}
           /\ queue' = [queue EXCEPT ![d][i].stage = "committed"]
  /\ UNCHANGED <<users, cache, view, echoes, main, sent, reported, rejects, faults>>

\* Device d hears that it did.
AddAcknowledged(d) ==
  /\ queue[d] # <<>>
  /\ LET m == Head(queue[d])
     IN  /\ m.kind = "add"
         /\ m.stage # "queued"
         /\ main' = [main EXCEPT ![d] = @ \o CompletionOf(m, TRUE)]
  /\ queue' = [queue EXCEPT ![d] = Tail(@)]
  /\ UNCHANGED <<server, cache, view, echoes, sent, reported, rejects, faults>>

\* Faulty variant: a refused request is reported and yet kept for a retry.
AddKeptForRetry(d) ==
  /\ rejects < MaxRejects
  /\ rejects' = rejects + 1
  /\ queue[d] # <<>>
  /\ LET m == Head(queue[d])
     IN  /\ m.kind = "add"
         /\ m.stage = "queued"
         /\ [from |-> d, to |-> m.to, n |-> m.n] \notin requests
         /\ main' = [main EXCEPT ![d] = @ \o CompletionOf(m, FALSE)]
  /\ UNCHANGED <<server, cache, queue, view, echoes, sent, reported, faults>>

\* The server refuses a new request for good.  What it stored it does not
\* refuse when it is sent again.
AddRejected(d) ==
  /\ rejects < MaxRejects
  /\ rejects' = rejects + 1
  /\ queue[d] # <<>>
  /\ LET m == Head(queue[d])
     IN  /\ m.kind = "add"
         /\ m.stage = "queued"
         /\ [from |-> d, to |-> m.to, n |-> m.n] \notin requests
         /\ main' = [main EXCEPT ![d] = @ \o CompletionOf(m, FALSE)]
  /\ queue' = [queue EXCEPT ![d] = Tail(@)]
  /\ UNCHANGED <<server, cache, view, echoes, sent, reported, faults>>

(***************************************************************************)
(* The completion runs on the main queue: the request screen is told, and  *)
(* on success an echo is added on the receiver's document.  The first echo *)
(* opens the view from the cache and the queue; every new echo is given    *)
(* the current view at once.                                               *)
(***************************************************************************)
RequestFailed(d) ==
  /\ main[d] # <<>>
  /\ LET t == Head(main[d])
     IN  /\ t.kind = "completion"
         /\ ~t.ok
         /\ reported' = [reported EXCEPT ![d] = @ \cup {[n |-> t.n, ok |-> FALSE]}]
  /\ main' = [main EXCEPT ![d] = Tail(@)]
  /\ UNCHANGED <<server, cache, queue, view, echoes, sent, rejects, faults>>

RequestAccepted(d) ==
  /\ main[d] # <<>>
  /\ LET t == Head(main[d])
         r == t.to
     IN  /\ t.kind = "completion"
         /\ t.ok
         /\ reported' = [reported EXCEPT ![d] = @ \cup {[n |-> t.n, ok |-> TRUE]}]
         /\ echoes' = [echoes EXCEPT ![d][r] = @ + 1]
         /\ view' = IF echoes[d][r] = 0
                    THEN [view EXCEPT ![d][r] =
                            Viewed(LocalDoc(d, cache[d][r], queue[d], r),
                                   HasPatch(queue[d], r))]
                    ELSE view
         /\ main' = [main EXCEPT ![d] =
                       Append(Tail(@), [kind |-> "snapshot", to |-> r])]
  /\ UNCHANGED <<server, cache, queue, sent, rejects, faults>>

\* A snapshot reaches an echo: it patches the document it was shown.
EchoPatches(d) ==
  /\ main[d] # <<>>
  /\ LET t == Head(main[d])
         r == t.to
     IN  /\ t.kind = "snapshot"
         /\ Refreshed(d, r, cache[d][r],
                      Append(queue[d], NewPatch(r)),
                      Tail(main[d]))
  /\ UNCHANGED <<server, echoes, sent, reported, rejects, faults>>

ArrayUnion(doc, s) == [doc EXCEPT !.pendingRequest = @ \cup {s}]

\* The server applies a patch to the document it stores.
PatchCommitted(d) ==
  /\ \E i \in DOMAIN queue[d] :
       LET m == queue[d][i]
       IN  /\ IsNextWrite(queue[d], i)
           /\ m.kind = "patch"
           /\ users' = [users EXCEPT ![m.to] = ArrayUnion(@, d)]
           /\ queue' = [queue EXCEPT ![d][i].stage = "committed"]
  /\ UNCHANGED <<requests, cache, view, echoes, main, sent, reported, rejects, faults>>

\* Faulty variant: the answered patch is dropped before Watch has brought it.
PatchForgotten(d) ==
  /\ queue[d] # <<>>
  /\ LET m == Head(queue[d])
     IN  /\ m.kind = "patch"
         /\ m.stage # "queued"
         /\ Refreshed(d, m.to, cache[d][m.to], Tail(queue[d]), main[d])
  /\ UNCHANGED <<server, echoes, sent, reported, rejects, faults>>

\* Device d hears that it did, and applies the patch to its cached copy.
PatchAcknowledged(d) ==
  /\ queue[d] # <<>>
  /\ LET m == Head(queue[d])
         copy == cache[d][m.to]
     IN  /\ m.kind = "patch"
         /\ m.stage # "queued"
         /\ Refreshed(d, m.to, Acknowledged(copy, m, ArrayUnion(copy.doc, d)),
                      Tail(queue[d]), main[d])
  /\ UNCHANGED <<server, echoes, sent, reported, rejects, faults>>

\* The server refuses a patch for good: it is dropped, and the view falls
\* back to the document without it.
PatchRejected(d) ==
  /\ rejects < MaxRejects
  /\ rejects' = rejects + 1
  /\ queue[d] # <<>>
  /\ LET m == Head(queue[d])
     IN  /\ m.kind = "patch"
         /\ m.stage = "queued"
         /\ Refreshed(d, m.to, cache[d][m.to], Tail(queue[d]), main[d])
  /\ UNCHANGED <<server, echoes, sent, reported, faults>>

\* The Watch stream brings the server's copy of r to device d, with every
\* patch of r the server committed so far.
WithWatched(q, r) ==
  [i \in 1..Len(q) |->
     IF IsPatchOf(q[i], r) /\ q[i].stage = "committed"
     THEN [q[i] EXCEPT !.stage = "watched"]
     ELSE q[i]]

Watch(d, r) ==
  /\ WatchIsNews(cache[d][r], users[r])
  /\ Refreshed(d, r, Cached(users[r], FALSE), WithWatched(queue[d], r), main[d])
  /\ UNCHANGED <<server, echoes, sent, reported, rejects, faults>>

\* Another screen or device changes another field of r's document.
OtherFieldChanges(r) ==
  /\ users[r].edits < MaxEdits
  /\ users' = [users EXCEPT ![r].edits = @ + 1]
  /\ UNCHANGED <<requests, device, rejects, faults>>

\* Device d's write stream breaks before the server's answers reach it.
StreamBreaks(d) ==
  /\ faults < MaxFaults
  /\ faults' = faults + 1
  /\ \E i \in DOMAIN queue[d] : queue[d][i].stage # "queued"
  /\ queue' = [queue EXCEPT ![d] = Resent(@)]
  /\ UNCHANGED <<server, cache, view, echoes, main, sent, reported, rejects>>

\* The app is killed and started again: what was in memory is gone, and the
\* writes restored from disk have no callbacks.
WithoutCallback(m) == IF m.kind = "add" THEN [m EXCEPT !.callback = FALSE] ELSE m

Restart(d) ==
  /\ faults < MaxFaults
  /\ faults' = faults + 1
  /\ main' = [main EXCEPT ![d] = <<>>]
  /\ echoes' = [echoes EXCEPT ![d] = [r \in Player |-> 0]]
  /\ view' = [view EXCEPT ![d] = [r \in Player |-> Closed]]
  /\ queue' = [queue EXCEPT ![d] = Resent([i \in 1..Len(@) |-> WithoutCallback(@[i])])]
  /\ UNCHANGED <<server, cache, sent, reported, rejects>>

Next ==
  \/ \E d, r \in Player : SendPlayRequest(d, r)
  \/ \E d \in Player : AddCommitted(d)
  \/ \E d \in Player : AddAcknowledged(d)
  \/ \E d \in Player : AddRejected(d)
  \/ \E d \in Player : RequestFailed(d)
  \/ \E d \in Player : RequestAccepted(d)
  \/ \E d \in Player : EchoPatches(d)
  \/ \E d \in Player : PatchCommitted(d)
  \/ \E d \in Player : PatchAcknowledged(d)
  \/ \E d \in Player : PatchRejected(d)
  \/ \E d, r \in Player : Watch(d, r)
  \/ \E r \in Player : OtherFieldChanges(r)
  \/ \E d \in Player : StreamBreaks(d)
  \/ \E d \in Player : Restart(d)

Spec == Init /\ [][Next]_vars

\* The main queue runs, the server answers, and Watch catches up.  Nothing
\* obliges a user to send, an owner to edit, a server to refuse or an app to
\* be killed.
Fairness ==
  \A d \in Player :
    /\ WF_vars(RequestFailed(d))
    /\ WF_vars(RequestAccepted(d))
    /\ WF_vars(EchoPatches(d))
    /\ WF_vars(AddCommitted(d))
    /\ WF_vars(AddAcknowledged(d))
    /\ WF_vars(PatchCommitted(d))
    /\ WF_vars(PatchAcknowledged(d))
    /\ \A r \in Player : WF_vars(Watch(d, r))

FairSpec == Spec /\ Fairness

-------------------------------------------------------------------------------
(* Properties *)

TypeOK ==
  /\ requests \subseteq Request
  /\ users \in [Player -> UserDoc]
  /\ cache \in [Player -> [Player -> [doc : UserDoc, committed : BOOLEAN]]]
  /\ queue \in [Player -> Seq(Mutation)]
  /\ view \in [Player -> [Player -> [doc : UserDoc, local : BOOLEAN]]]
  /\ echoes \in [Player -> [Player -> Nat]]
  /\ main \in [Player -> Seq(Task)]
  /\ sent \in [Player -> 0..MaxSends]
  /\ reported \in [Player -> SUBSET Outcome]
  /\ rejects \in 0..MaxRejects
  /\ faults \in 0..MaxFaults

Requested(s, r) == \E q \in requests : q.from = s /\ q.to = r

\* A player who shows up in r's pendingRequest did send r a request that the
\* server stored: the patch and the request are two writes, and the echoes,
\* the retries and the restored queue never put the second before the first.
PendingHasRequest ==
  \A r \in Player : \A s \in users[r].pendingRequest : Requested(s, r)

(***************************************************************************)
(* Why it holds: a patch is only ever queued by an echo, an echo is only   *)
(* added by the completion of an accepted request, and requests stay.      *)
(***************************************************************************)
WarrantedWrites(d) ==
  {m \in Mutation :
     IF m.kind = "patch"
     THEN Requested(d, m.to)
     ELSE m.stage # "queued" => [from |-> d, to |-> m.to, n |-> m.n] \in requests}

WarrantedTasks(d) ==
  {t \in Task :
     IF t.kind = "snapshot"
     THEN Requested(d, t.to)
     ELSE t.ok => [from |-> d, to |-> t.to, n |-> t.n] \in requests}

Warranted ==
  /\ \A d \in Player : queue[d] \in Seq(WarrantedWrites(d))
  /\ \A d \in Player : main[d] \in Seq(WarrantedTasks(d))
  /\ \A d, r \in Player : echoes[d][r] > 0 => Requested(d, r)

\* The request screen is told of success only for a request the server has.
SuccessIsStored ==
  \A d \in Player : \A o \in reported[d] :
    o.ok => \E q \in requests : q.from = d /\ q.n = o.n

\* It is told of failure only for a request the server never gets: not by a
\* write restored after a restart either.
FailureIsFinal ==
  \A d \in Player : \A o \in reported[d] :
    ~o.ok => /\ ~\E q \in requests : q.from = d /\ q.n = o.n
             /\ ~\E i \in DOMAIN queue[d] :
                   queue[d][i].kind = "add" /\ queue[d][i].n = o.n

(***************************************************************************)
(* Why it holds: a request's number is used once, whatever is resent or    *)
(* restored, so a request that failed has no other copy left to succeed.   *)
(***************************************************************************)
StoredFrom(d) == {q \in requests : q.from = d}

FailedNumbers(tasks, outcomes) ==
  {n \in 1..MaxSends :
     \/ \E i \in DOMAIN tasks :
          tasks[i].kind = "completion" /\ ~tasks[i].ok /\ tasks[i].n = n
     \/ [n |-> n, ok |-> FALSE] \in outcomes}

\* A device with queue q that sent k requests, of which the server stored
\* these and those failed.
OneFate(stored, q, failed, k) ==
  /\ \A n \in failed : n <= k /\ \A s \in stored : s.n # n
  /\ \A s \in stored : s.n <= k
  /\ \A i \in DOMAIN q :
       q[i].kind = "add" =>
         /\ q[i].n <= k
         /\ q[i].n \notin failed
         /\ \A s \in stored : s.n = q[i].n => s.to = q[i].to
  /\ \A i, j \in DOMAIN q :
       q[i].kind = "add" /\ q[j].kind = "add" /\ q[i].n = q[j].n => i = j

NumbersUsedOnce ==
  \A d \in Player :
    OneFate(StoredFrom(d), queue[d], FailedNumbers(main[d], reported[d]), sent[d])

\* What the echoes were told last is the document as the device knows it,
\* unless the view waits for Watch to confirm an acknowledged patch.
ViewIsCurrent ==
  \A d, r \in Player :
    echoes[d][r] > 0 =>
      \/ view[d][r].doc = LocalDoc(d, cache[d][r], queue[d], r)
      \/ view[d][r].local /\ cache[d][r].committed

\* Everything in flight is in order: it has its request behind it, no number
\* twice, and the echoes were told what the device knows.
InFlightInOrder == Warranted /\ NumbersUsedOnce /\ ViewIsCurrent

\* What a device's echoes are told never loses a requester, although it mixes
\* a cached copy of any age with the device's own writes, resent or answered
\* twice: only a refusal takes the device's own sender back.
NobodyVanishes ==
  [][\A d, r, s \in Player :
       /\ echoes[d][r] > 0
       /\ echoes'[d][r] > 0
       /\ s \in view[d][r].doc.pendingRequest \ view'[d][r].doc.pendingRequest
       => s = d /\ rejects' > rejects]_vars

\* Once an echo listens, the sender reaches the receiver's pendingRequest,
\* through refused patches too, unless the app is killed first.
EchoReachesReceiver ==
  \A d, r \in Player :
    echoes[d][r] > 0 ~> (d \in users[r].pendingRequest \/ echoes[d][r] = 0)

\* The echoes hear of their own patches and of each other's, and still every
\* device falls silent once users, owners and refusals stop.
EchoesSettle ==
  <>[](\A d \in Player : queue[d] = <<>> /\ main[d] = <<>>)
-------------------------------------------------------------------------------
(* The board the server's two collections make up *)

Board == INSTANCE RequestBoard
  WITH Id <- 1..MaxSends, pending <- [r \in Player |-> users[r].pendingRequest]

\* The server's collections behave as a board of requests that are stored
\* first and shown later: no device, crash, refusal or stale copy makes any
\* other step visible.
ImplementsBoard == Board!Spec
===============================================================================
