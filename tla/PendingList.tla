----------------------------- MODULE PendingList -----------------------------
(***************************************************************************)
(* The pending requests screen of one player                               *)
(* (RequestAndPendingViewModel.getPlayerRequest and                        *)
(* PendingRequestViewController).                                          *)
(*                                                                         *)
(* The screen listens to the documents of Requests addressed to the player *)
(* (the outer listener).  Each of its snapshots adds one more listener, on *)
(* the Users document of the snapshot's last sender (an inner listener),   *)
(* and it is the inner listener that fills the list, from the outer        *)
(* snapshot it was created in and not from what it is called with.  No     *)
(* listener is removed.  An old inner listener that is called again, since *)
(* its sender's document changed, thus puts an old list back.              *)
(*                                                                         *)
(* The table reads the list of RequestAndPendingViewModel.instance, while  *)
(* the screen fills that of an object of its own.                          *)
(***************************************************************************)
EXTENDS Naturals, Sequences, FiniteSets

CONSTANTS
  Sender,      \* the players who send requests to this one
  NoSender,    \* the empty string fromUser starts from
  MaxRequests, \* bound on the documents of Requests addressed to the player
  MaxEdits,    \* bound on the changes of one sender's Users document
  MaxRestarts  \* bound on the times the app is killed and started again

ASSUME NoSenderIsNoSender == NoSender \notin Sender
ASSUME BoundsAreNaturals == {MaxRequests, MaxEdits, MaxRestarts} \subseteq Nat

VARIABLES
  requests,       \* server: the documents of Requests addressed to the player
  edits,          \* server: the version of each sender's Users document
  cached,         \* device: the cached part of requests
  seen,           \* device: the cached version of each sender's document
  opened,         \* the screen is open
  raised,         \* the outer listener had its first snapshot
  fromUser,       \* the variable the outer listener captured
  inners,         \* the inner listeners, in the order they were added
  main,           \* the tasks waiting on the main queue
  playerRequests, \* the list of the screen's own view model
  rows,           \* what the table shows
  restarts

vars == <<requests, edits, cached, seen, opened, raised, fromUser, inners,
          main, playerRequests, rows, restarts>>

-------------------------------------------------------------------------------
(* Data *)

\* The documents of a query come in the order of their ids, which Firestore
\* draws at random: a later request may come before an earlier one.
Request == [id : 1..MaxRequests, from : Sender]

Inner == [user : Sender \cup {NoSender}, snapshot : SUBSET Request,
          raised : BOOLEAN]

Task == [kind : {"requests"}, snapshot : SUBSET Request]
          \cup [kind : {"sender"}, inner : Nat \ {0}]

\* RequestAndPendingViewModel.instance.playerRequests: only getPlayerRequest
\* assigns the list, and nothing calls it on this object.
SharedPlayerRequests == {}

\* The sender of the last document of a snapshot; the captured variable keeps
\* its value when there is none.
LastSender(snapshot, previous) ==
  IF snapshot = {}
  THEN previous
  ELSE LET last == CHOOSE r \in snapshot : \A q \in snapshot : q.id <= r.id
       IN  last.from

-------------------------------------------------------------------------------
Init ==
  /\ requests = {}
  /\ edits = [s \in Sender |-> 0]
  /\ cached = {}
  /\ seen = [s \in Sender |-> 0]
  /\ opened = FALSE
  /\ raised = FALSE
  /\ fromUser = NoSender
  /\ inners = <<>>
  /\ main = <<>>
  /\ playerRequests = {}
  /\ rows = {}
  /\ restarts = 0

\* Sender s's request reaches the server, under an id of its own.
RequestStored(s) ==
  /\ \E i \in 1..MaxRequests :
       /\ \A r \in requests : r.id # i
       /\ requests' = requests \cup {[id |-> i, from |-> s]}
  /\ UNCHANGED <<edits, cached, seen, opened, raised, fromUser, inners, main,
                 playerRequests, rows, restarts>>

\* Sender s's Users document changes: the switch, the profile, a requester.
SenderEdited(s) ==
  /\ edits[s] < MaxEdits
  /\ edits' = [edits EXCEPT ![s] = @ + 1]
  /\ UNCHANGED <<requests, cached, seen, opened, raised, fromUser, inners, main,
                 playerRequests, rows, restarts>>

\* The screen is opened and the outer listener added: it hears of cached
\* documents at once, and otherwise waits for the server.
OpenPending ==
  /\ ~opened
  /\ opened' = TRUE
  /\ raised' = (cached # {})
  /\ main' = IF cached # {}
             THEN Append(main, [kind |-> "requests", snapshot |-> cached])
             ELSE main
  /\ rows' = SharedPlayerRequests
  /\ UNCHANGED <<requests, edits, cached, seen, fromUser, inners,
                 playerRequests, restarts>>

\* Faulty variant: the query is fetched once instead of listened to.
FetchRequestsOnce ==
  /\ opened /\ ~raised
  /\ cached' = requests
  /\ raised' = TRUE
  /\ main' = Append(main, [kind |-> "requests", snapshot |-> requests])
  /\ UNCHANGED <<requests, edits, seen, opened, fromUser, inners,
                 playerRequests, rows, restarts>>

\* Watch brings the requests; the first snapshot may be empty.
WatchRequests ==
  /\ opened
  /\ cached # requests \/ ~raised
  /\ cached' = requests
  /\ raised' = TRUE
  /\ main' = Append(main, [kind |-> "requests", snapshot |-> requests])
  /\ UNCHANGED <<requests, edits, seen, opened, fromUser, inners,
                 playerRequests, rows, restarts>>

\* Watch brings sender s's document: every inner listener on it is called.
InnersOn(s) == {i \in DOMAIN inners : inners[i].user = s}

Calls(listeners) ==
  LET nth(k) == CHOOSE i \in listeners :
                  Cardinality({j \in listeners : j < i}) = k - 1
  IN  [k \in 1..Cardinality(listeners) |-> [kind |-> "sender", inner |-> nth(k)]]

WatchSender(s) ==
  /\ seen[s] # edits[s]
  /\ seen' = [seen EXCEPT ![s] = edits[s]]
  /\ main' = main \o Calls(InnersOn(s))
  /\ UNCHANGED <<requests, edits, cached, opened, raised, fromUser, inners,
                 playerRequests, rows, restarts>>

\* Faulty variant: one inner listener per sender, kept from the first time.
ListenOncePerSender ==
  /\ main # <<>>
  /\ Head(main).kind = "requests"
  /\ LET snapshot == Head(main).snapshot
         user == LastSender(snapshot, fromUser)
     IN  /\ fromUser' = user
         /\ IF InnersOn(user) # {}
            THEN inners' = inners /\ main' = Tail(main)
            ELSE /\ inners' = Append(inners, [user |-> user, snapshot |-> snapshot,
                                              raised |-> user # NoSender])
                 /\ main' = IF user # NoSender
                            THEN Append(Tail(main), [kind |-> "sender",
                                                     inner |-> Len(inners) + 1])
                            ELSE Tail(main)
  /\ UNCHANGED <<requests, edits, cached, seen, opened, raised,
                 playerRequests, rows, restarts>>

\* Faulty variant: the inner listener is numbered before it is added.
ListenBeforeAdding ==
  /\ main # <<>>
  /\ Head(main).kind = "requests"
  /\ LET snapshot == Head(main).snapshot
         user == LastSender(snapshot, fromUser)
     IN  /\ fromUser' = user
         /\ inners' = Append(inners, [user |-> user, snapshot |-> snapshot,
                                      raised |-> user # NoSender])
         /\ main' = IF user # NoSender
                    THEN Append(Tail(main), [kind |-> "sender",
                                             inner |-> Len(inners)])
                    ELSE Tail(main)
  /\ UNCHANGED <<requests, edits, cached, seen, opened, raised,
                 playerRequests, rows, restarts>>

(***************************************************************************)
(* The outer listener gets a snapshot: it adds an inner listener for the   *)
(* last sender.  The senders' documents are cached (the players list shows *)
(* them), so the inner listener is called at once; for the empty address   *)
(* there is no document, and it is called when the server says so.         *)
(***************************************************************************)
RequestsArrive ==
  /\ main # <<>>
  /\ Head(main).kind = "requests"
  /\ LET snapshot == Head(main).snapshot
         user == LastSender(snapshot, fromUser)
     IN  /\ fromUser' = user
         /\ inners' = Append(inners, [user |-> user, snapshot |-> snapshot,
                                      raised |-> user # NoSender])
         /\ main' = IF user # NoSender
                    THEN Append(Tail(main), [kind |-> "sender",
                                             inner |-> Len(inners) + 1])
                    ELSE Tail(main)
  /\ UNCHANGED <<requests, edits, cached, seen, opened, raised,
                 playerRequests, rows, restarts>>

\* The server confirms that nobody has the empty address.
NobodyFound(i) ==
  /\ ~inners[i].raised
  /\ inners' = [inners EXCEPT ![i].raised = TRUE]
  /\ main' = Append(main, [kind |-> "sender", inner |-> i])
  /\ UNCHANGED <<requests, edits, cached, seen, opened, raised, fromUser,
                 playerRequests, rows, restarts>>

\* Faulty variant: the list becomes the requests of that sender alone.
SenderArrivesAlone ==
  /\ main # <<>>
  /\ Head(main).kind = "sender"
  /\ LET i == inners[Head(main).inner]
     IN  playerRequests' = {r \in i.snapshot : r.from = i.user}
  /\ rows' = SharedPlayerRequests
  /\ main' = Tail(main)
  /\ UNCHANGED <<requests, edits, cached, seen, opened, raised, fromUser,
                 inners, restarts>>

\* An inner listener is called: the list becomes the outer snapshot it was
\* created in, and the table reloads from the shared view model.
SenderArrives ==
  /\ main # <<>>
  /\ Head(main).kind = "sender"
  /\ playerRequests' = inners[Head(main).inner].snapshot
  /\ rows' = SharedPlayerRequests
  /\ main' = Tail(main)
  /\ UNCHANGED <<requests, edits, cached, seen, opened, raised, fromUser,
                 inners, restarts>>

\* The app is killed and started again; the cache stays.
Restart ==
  /\ restarts < MaxRestarts
  /\ restarts' = restarts + 1
  /\ opened' = FALSE
  /\ raised' = FALSE
  /\ fromUser' = NoSender
  /\ inners' = <<>>
  /\ main' = <<>>
  /\ playerRequests' = {}
  /\ rows' = {}
  /\ UNCHANGED <<requests, edits, cached, seen>>

Next ==
  \/ \E s \in Sender : RequestStored(s)
  \/ \E s \in Sender : SenderEdited(s)
  \/ OpenPending
  \/ WatchRequests
  \/ \E s \in Sender : WatchSender(s)
  \/ RequestsArrive
  \/ \E i \in DOMAIN inners : NobodyFound(i)
  \/ SenderArrives
  \/ Restart

Spec == Init /\ [][Next]_vars

\* The main queue runs and Watch catches up.
Fairness ==
  /\ WF_vars(WatchRequests)
  /\ WF_vars(RequestsArrive)
  /\ WF_vars(SenderArrives)

FairSpec == Spec /\ Fairness

-------------------------------------------------------------------------------
(* Properties *)

TypeOK ==
  /\ requests \subseteq Request
  /\ edits \in [Sender -> 0..MaxEdits]
  /\ cached \subseteq Request
  /\ seen \in [Sender -> 0..MaxEdits]
  /\ opened \in BOOLEAN
  /\ raised \in BOOLEAN
  /\ fromUser \in Sender \cup {NoSender}
  /\ inners \in Seq(Inner)
  /\ main \in Seq(Task)
  /\ playerRequests \subseteq Request
  /\ rows \subseteq Request
  /\ restarts \in 0..MaxRestarts

\* Nothing is in flight on the open screen.
Settled ==
  /\ opened /\ raised
  /\ main = <<>>
  /\ cached = requests
  /\ \A i \in DOMAIN inners : inners[i].raised

\* The settled screen holds every request, provided no sender's document
\* changed and the first snapshot was not empty.
SettledListIsComplete ==
  /\ Settled
  /\ \A s \in Sender : edits[s] = 0
  /\ \A i \in DOMAIN inners : inners[i].user # NoSender
  => playerRequests = requests

\* The settled screen holds every request, whatever happened before.
ListIsComplete == Settled => playerRequests = requests

\* A request leaves the list only when a listener that was not the last one
\* added is called, or with the process.
OnlyOldListenersForget ==
  [][playerRequests \subseteq playerRequests'
       \/ ~opened'
       \/ Head(main).inner < Len(inners)]_vars

(***************************************************************************)
(* Why these hold: snapshots are taken, delivered and captured in order,   *)
(* so each listener knows all that the listeners before it know, and the   *)
(* list is always what some listener captured.                             *)
(***************************************************************************)
AsksRequests(t) == t.kind = "requests"

OrderedSnapshots(listeners, tasks, known) ==
  /\ \A i \in DOMAIN listeners : listeners[i].snapshot \subseteq known
  /\ \A i, j \in DOMAIN listeners :
       i <= j => listeners[i].snapshot \subseteq listeners[j].snapshot
  /\ \A k \in DOMAIN tasks :
       AsksRequests(tasks[k]) =>
         /\ tasks[k].snapshot \subseteq known
         /\ \A i \in DOMAIN listeners : listeners[i].snapshot \subseteq tasks[k].snapshot
  /\ \A k, l \in DOMAIN tasks :
       AsksRequests(tasks[k]) /\ AsksRequests(tasks[l]) /\ k <= l
         => tasks[k].snapshot \subseteq tasks[l].snapshot

CallsKnown(tasks, listeners) ==
  \A k \in DOMAIN tasks :
    ~AsksRequests(tasks[k]) => tasks[k].inner \in DOMAIN listeners

Listed(list, listeners) ==
  list = {} \/ \E i \in DOMAIN listeners : list = listeners[i].snapshot

SnapshotsInOrder ==
  /\ cached \subseteq requests
  /\ OrderedSnapshots(inners, main, cached)
  /\ CallsKnown(main, inners)
  /\ Listed(playerRequests, inners)

\* The newest snapshot is the last on the main queue, or the last captured;
\* without an edit and an empty snapshot, the last listener's call is the
\* last on the main queue, or was the last to fill the list.
NewestArrives(listeners, tasks, known) ==
  \/ \E k \in DOMAIN tasks :
       /\ AsksRequests(tasks[k]) /\ tasks[k].snapshot = known
       /\ \A l \in DOMAIN tasks : AsksRequests(tasks[l]) => l <= k
  \/ /\ \A k \in DOMAIN tasks : ~AsksRequests(tasks[k])
     /\ listeners # <<>> /\ listeners[Len(listeners)].snapshot = known

NewestFills(listeners, tasks, list) ==
  \/ listeners = <<>>
  \/ \E k \in DOMAIN tasks :
       /\ ~AsksRequests(tasks[k]) /\ tasks[k].inner = Len(listeners)
       /\ \A l \in DOMAIN tasks : ~AsksRequests(tasks[l]) => l <= k
  \/ /\ \A k \in DOMAIN tasks : AsksRequests(tasks[k])
     /\ list = listeners[Len(listeners)].snapshot

Undisturbed ==
  /\ \A s \in Sender : edits[s] = 0
  /\ \A i \in DOMAIN inners : inners[i].user # NoSender

NewestIsLast ==
  /\ raised => NewestArrives(inners, main, cached)
  /\ Undisturbed => NewestFills(inners, main, playerRequests)
  /\ \A i \in DOMAIN inners : ~inners[i].raised => inners[i].user = NoSender
  /\ \A s \in Sender : seen[s] <= edits[s]

\* Everything in flight is in order: snapshots reach the listeners one after
\* another, and the last listener knows the newest.
InFlightInOrder == SnapshotsInOrder /\ NewestIsLast

\* A stored request is listed sooner or later, if only for a moment, while
\* the screen stays open: the outer listener does not lose one for good.
CapturedBySome(r) == \E i \in DOMAIN inners : r \in inners[i].snapshot

EveryRequestIsListed ==
  \A r \in Request :
    (r \in requests /\ opened /\ ~CapturedBySome(r)) ~>
      (r \in playerRequests \/ ~opened)
===============================================================================
