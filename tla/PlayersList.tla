------------------------------ MODULE PlayersList ------------------------------
(***************************************************************************)
(* The list of players and the map of players on one device                *)
(* (PostViewModel.getTableView and getLocationData).                       *)
(*                                                                         *)
(* Every list screen and every map screen that is opened adds a listener   *)
(* on the whole collection Users, ordered by location; none is removed.    *)
(* Each listener owns variables for the fields of one document, declared   *)
(* outside its loop: a document without a field keeps what an earlier      *)
(* document, of this snapshot or of an earlier one, left there.  All       *)
(* listeners fill the one userArray, which every table reads.  Tables are  *)
(* reloaded, and the map's locations recorded, by blocks that run after    *)
(* the snapshot's loop; a tap on a row reads userArray at once.            *)
(*                                                                         *)
(* The device's owner may be creating his profile meanwhile: the screen    *)
(* that does so opens the list after the upload of the picture and adds    *)
(* the document later, so the list shows it before the server has it, and  *)
(* drops it again if the server refuses it.                                *)
(***************************************************************************)
EXTENDS Naturals, SequencesExt

CONSTANTS
  Player,      \* the accounts
  Owner,       \* the account signed in on this device
  Absent,      \* the value of a missing field, and of the variables at first
  MaxLists,    \* bound on the list screens opened in one process
  MaxMaps,     \* bound on the map screens opened in one process
  MaxEdits,    \* bound on the changes to stored documents
  MaxRestarts  \* bound on the times the app is killed and started again

ASSUME PlayersAreFinite == IsFiniteSet(Player)
ASSUME OwnerIsPlayer == Owner \in Player
ASSUME AbsentIsAbsent == Absent \notin Player
ASSUME BoundsAreNaturals == {MaxLists, MaxMaps, MaxEdits, MaxRestarts} \subseteq Nat

VARIABLES
  profiles,      \* server: the documents of Users
  cached,        \* device: the SDK's copy of them
  mine, stage,   \* device: the document the owner created, and how far it got
  listeners,     \* device: the screens' listeners, in the order they were added
  userArray,     \* device: PostViewModel.instance.userArray
  testLocations, \* device: PostViewModel.instance.testLocations,
  selectedUser,  \* device: the player handed to the request screen
  main,          \* device: the tasks waiting on the main queue
  crashed,       \* a tap read a row that userArray did not have: the app is gone
  edits, restarts

server == <<profiles, edits>>
own == <<mine, stage>>
vars == <<profiles, cached, mine, stage, listeners, userArray, testLocations,
          selectedUser, main, crashed, edits, restarts>>

-------------------------------------------------------------------------------
(* Data *)

\* A Users document.  Locations, made unique by the document id, are ranks,
\* in which the query orders.  The address is missing when its player signed
\* out before the document was written; it also stands for the image URL,
\* missing when downloadURL failed.
Place == 1..Cardinality(Player)

Doc == [player : Player, place : Place, email : Player \cup {Absent},
        canPlay : BOOLEAN]

\* A User of the array: whose name, whose address, and the availability.
User == [name : Player, email : Player \cup {Absent}, canPlay : BOOLEAN]

\* A TestLocation: whose address and whose coordinates.
TestLocation == [name : Player \cup {Absent}, location : Player]

\* The variables a listener captured.
Fields == [name : Player \cup {Absent}, email : Player \cup {Absent},
           canPlay : BOOLEAN, location : Player \cup {Absent}]

NoFields == [name |-> Absent, email |-> Absent, canPlay |-> FALSE,
             location |-> Absent]

\* A list shows rows, a map the pin it was opened with, if any.
Listener == [kind : {"list", "map"}, fields : Fields, rows : Seq(User),
             pin : Seq(TestLocation)]

Task == [kind : {"snapshot"}, to : Nat \ {0}, docs : SUBSET Doc]
          \cup [kind : {"reload", "locate"}, to : Nat \ {0}]

-------------------------------------------------------------------------------
(* The query on the collection *)

\* What the query shows: the SDK's copy with the document still queued.
View == cached \cup (IF stage = "queued" THEN mine ELSE {})

\* The documents in the query's order: n of them up to the place of the n-th.
Rank(d, docs) == Cardinality({e \in docs : e.place <= d.place})
Ordered(docs) ==
  [n \in 1..Cardinality(docs) |-> CHOOSE d \in docs : Rank(d, docs) = n]

Snapshots(docs) ==
  [k \in DOMAIN listeners |-> [kind |-> "snapshot", to |-> k, docs |-> docs]]

\* Every listener hears of a view that changed.
ViewBecomes(docs) ==
  main' = IF docs = View THEN main ELSE main \o Snapshots(docs)

\* A new listener hears of the view at once; an empty view, which it would
\* hear of once the server has confirmed it, does nothing to the handlers.
Added(listener) ==
  /\ listeners' = Append(listeners, listener)
  /\ main' = IF View = {}
             THEN main
             ELSE Append(main, [kind |-> "snapshot", to |-> Len(listeners) + 1,
                                docs |-> View])

-------------------------------------------------------------------------------
(* The loop over the documents of a snapshot *)

Present(field, before) == IF field = Absent THEN before ELSE field

\* Faulty variant: the name is taken from the address.
AfterUnnamed(fields, doc) ==
  [name |-> Present(doc.email, fields.name),
   email |-> Present(doc.email, fields.email),
   canPlay |-> doc.canPlay,
   location |-> doc.player]

\* Faulty variant: a location is kept once it is there.
AfterFirstLocation(fields, doc) ==
  [name |-> doc.player,
   email |-> Present(doc.email, fields.email),
   canPlay |-> doc.canPlay,
   location |-> Present(fields.location, doc.player)]

\* The variables after one document.
After(fields, doc) ==
  [name |-> doc.player,
   email |-> Present(doc.email, fields.email),
   canPlay |-> doc.canPlay,
   location |-> doc.player]

UserOf(fields) ==
  [name |-> fields.name, email |-> fields.email, canPlay |-> fields.canPlay]

\* The variables before the loop (0) and after each of its documents.
Loop(fields, docs) ==
  LET after[n \in 0..Len(docs)] ==
        IF n = 0 THEN fields ELSE After(after[n - 1], docs[n])
  IN  after

\* The variables after the whole loop.
AfterAll(fields, docs) == Loop(fields, docs)[Len(docs)]

\* Faulty variant: userArray is not emptied before the loop.
RefilledWithoutClearing(fields, docs) ==
  userArray \o [n \in 1..Len(docs) |-> UserOf(Loop(fields, docs)[n])]

\* userArray after it: one user per document.
Refilled(fields, docs) ==
  [n \in 1..Len(docs) |-> UserOf(Loop(fields, docs)[n])]

\* The blocks the loop dispatches, one per document.
Dispatched(kind, k, docs) == [n \in 1..Len(docs) |-> [kind |-> kind, to |-> k]]

-------------------------------------------------------------------------------
Init ==
  /\ profiles = {}
  /\ cached = {}
  /\ mine = {}
  /\ stage = "none"
  /\ listeners = <<>>
  /\ userArray = <<>>
  /\ testLocations = <<>>
  /\ selectedUser = Absent
  /\ main = <<>>
  /\ crashed = FALSE
  /\ edits = 0
  /\ restarts = 0

\* A player's new document, at a place nobody has.  The owner stays signed in.
NewDocs(p) ==
  {d \in Doc : /\ d.player = p
               /\ d.email \in (IF p = Owner THEN {p} ELSE {p, Absent})
               /\ ~d.canPlay
               /\ \A e \in profiles \cup mine : d.place # e.place}

\* Another player's profile reaches the server.
ProfileCreated(p) ==
  /\ p # Owner
  /\ \A d \in profiles : d.player # p
  /\ \E d \in NewDocs(p) : profiles' = profiles \cup {d}
  /\ UNCHANGED <<cached, own, listeners, userArray, testLocations,
                 selectedUser, main, crashed, edits, restarts>>

\* A stored document changes: its player's switch.
ProfileChanges(d) ==
  /\ edits < MaxEdits
  /\ edits' = edits + 1
  /\ profiles' = (profiles \ {d}) \cup {[d EXCEPT !.canPlay = ~@]}
  /\ UNCHANGED <<cached, own, listeners, userArray, testLocations,
                 selectedUser, main, crashed, restarts>>

\* The owner's own document is queued on this device.
OwnProfileQueued ==
  /\ ~crashed
  /\ stage = "none"
  /\ stage' = "queued"
  /\ \E d \in NewDocs(Owner) :
       /\ mine' = {d}
       /\ ViewBecomes(cached \cup {d})
  /\ UNCHANGED <<server, cached, listeners, userArray, testLocations,
                 selectedUser, crashed, restarts>>

\* Faulty variant: the acknowledged document is forgotten until Watch sends it.
OwnProfileForgotten ==
  /\ stage = "queued"
  /\ stage' = "stored"
  /\ profiles' = profiles \cup mine
  /\ ViewBecomes(cached)
  /\ UNCHANGED <<cached, mine, listeners, userArray, testLocations,
                 selectedUser, crashed, edits, restarts>>

\* The server stores it, and the device hears so: the view stays as it is.
OwnProfileStored ==
  /\ stage = "queued"
  /\ stage' = "stored"
  /\ profiles' = profiles \cup mine
  /\ cached' = cached \cup mine
  /\ UNCHANGED <<mine, listeners, userArray, testLocations,
                 selectedUser, main, crashed, edits, restarts>>

\* The server refuses it: the view drops it.
OwnProfileRefused ==
  /\ stage = "queued"
  /\ stage' = "refused"
  /\ ViewBecomes(cached)
  /\ UNCHANGED <<server, cached, mine, listeners, userArray, testLocations,
                 selectedUser, crashed, restarts>>

\* Faulty variant: the documents are fetched once instead of listened to.
WatchWithoutListeners ==
  /\ listeners # <<>>
  /\ cached # profiles
  /\ cached' = profiles
  /\ UNCHANGED <<server, own, listeners, userArray, testLocations,
                 selectedUser, main, crashed, restarts>>

\* The Watch stream brings the server's documents.
Watch ==
  /\ listeners # <<>>
  /\ cached # profiles
  /\ cached' = profiles
  /\ ViewBecomes(profiles \cup (IF stage = "queued" THEN mine ELSE {}))
  /\ UNCHANGED <<server, own, listeners, userArray, testLocations,
                 selectedUser, crashed, restarts>>

Kind(k) == listeners[k].kind
Count(kind) == Cardinality({k \in DOMAIN listeners : Kind(k) = kind})

\* A list screen is opened: its table reads userArray as it is, and it
\* listens to the players.
OpenList ==
  /\ ~crashed
  /\ Count("list") < MaxLists
  /\ Added([kind |-> "list", fields |-> NoFields, rows |-> userArray, pin |-> <<>>])
  /\ UNCHANGED <<server, cached, own, userArray, testLocations,
                 selectedUser, crashed, restarts>>

\* testmapdata: one annotation takes the locations recorded so far in turn, and
\* stays where the last one is.
Pin == IF testLocations = <<>> THEN <<>> ELSE <<Last(testLocations)>>

\* A map screen is opened from a list: it listens too, and draws its pin.
OpenMap ==
  /\ Count("list") > 0
  /\ Count("map") < MaxMaps
  /\ Added([kind |-> "map", fields |-> NoFields, rows |-> <<>>, pin |-> Pin])
  /\ UNCHANGED <<server, cached, own, userArray, testLocations,
                 selectedUser, crashed, restarts>>

\* A listener gets a snapshot: it refills userArray and dispatches a block
\* per document.  An empty snapshot is ignored.
SnapshotFilling(kind, block) ==
  /\ main # <<>>
  /\ LET t == Head(main)
         docs == Ordered(t.docs)
     IN  /\ t.kind = "snapshot"
         /\ Kind(t.to) = kind
         /\ IF docs = <<>>
            THEN /\ main' = Tail(main)
                 /\ UNCHANGED <<listeners, userArray>>
            ELSE /\ userArray' = Refilled(listeners[t.to].fields, docs)
                 /\ listeners' = [listeners EXCEPT ![t.to].fields = AfterAll(@, docs)]
                 /\ main' = Tail(main) \o Dispatched(block, t.to, docs)
  /\ UNCHANGED <<server, cached, own, testLocations, selectedUser,
                 crashed, restarts>>

PlayersArrive == SnapshotFilling("list", "reload")

LocationsArrive == SnapshotFilling("map", "locate")

\* Faulty variant: a table that has rows is not reloaded.
ReloadEmptyTable ==
  /\ main # <<>>
  /\ Head(main).kind = "reload"
  /\ listeners' = [listeners EXCEPT ![Head(main).to].rows =
                     IF @ = <<>> THEN userArray ELSE @]
  /\ main' = Tail(main)
  /\ UNCHANGED <<server, cached, own, userArray, testLocations,
                 selectedUser, crashed, restarts>>

\* A list's block runs: its table shows userArray.
Reload ==
  /\ main # <<>>
  /\ Head(main).kind = "reload"
  /\ listeners' = [listeners EXCEPT ![Head(main).to].rows = userArray]
  /\ main' = Tail(main)
  /\ UNCHANGED <<server, cached, own, userArray, testLocations,
                 selectedUser, crashed, restarts>>

\* A map's block runs: it records what the listener's variables hold now.
Locate ==
  /\ main # <<>>
  /\ Head(main).kind = "locate"
  /\ LET fields == listeners[Head(main).to].fields
     IN  testLocations' = Append(testLocations, [name |-> fields.email,
                                                 location |-> fields.location])
  /\ main' = Tail(main)
  /\ UNCHANGED <<server, cached, own, listeners, userArray,
                 selectedUser, crashed, restarts>>

\* The rows of the list in front, the last one opened.
FrontRows ==
  LET lists == {k \in DOMAIN listeners : Kind(k) = "list"}
  IN  IF lists = {} THEN <<>> ELSE listeners[Max(lists)].rows

\* The user taps row n: the player handed on is the one userArray has there.
SelectRow(n) ==
  /\ n \in DOMAIN FrontRows
  /\ n \in DOMAIN userArray
  /\ selectedUser' = userArray[n]
  /\ UNCHANGED <<server, cached, own, listeners, userArray, testLocations,
                 main, crashed, restarts>>

\* What the end of the process leaves of it.
ProcessEnds ==
  /\ listeners' = <<>>
  /\ userArray' = <<>>
  /\ testLocations' = <<>>
  /\ selectedUser' = Absent
  /\ main' = <<>>

\* If userArray has no such row, the app crashes.
SelectMissingRow(n) ==
  /\ n \in DOMAIN FrontRows
  /\ n \notin DOMAIN userArray
  /\ crashed' = TRUE
  /\ ProcessEnds
  /\ UNCHANGED <<server, cached, own, restarts>>

\* The app is killed, if it did not crash, and started again; cache and queue
\* stay.
Restart ==
  /\ restarts < MaxRestarts
  /\ restarts' = restarts + 1
  /\ crashed' = FALSE
  /\ ProcessEnds
  /\ UNCHANGED <<server, cached, own>>

Next ==
  \/ \E p \in Player : ProfileCreated(p)
  \/ \E d \in profiles : ProfileChanges(d)
  \/ OwnProfileQueued
  \/ OwnProfileStored
  \/ OwnProfileRefused
  \/ Watch
  \/ OpenList
  \/ OpenMap
  \/ PlayersArrive
  \/ LocationsArrive
  \/ Reload
  \/ Locate
  \/ \E n \in Place : SelectRow(n)
  \/ \E n \in Place : SelectMissingRow(n)
  \/ Restart

Spec == Init /\ [][Next]_vars

\* The main queue runs and Watch catches up.
Fairness ==
  /\ WF_vars(Watch)
  /\ WF_vars(PlayersArrive)
  /\ WF_vars(LocationsArrive)
  /\ WF_vars(Reload)
  /\ WF_vars(Locate)

FairSpec == Spec /\ Fairness

-------------------------------------------------------------------------------
(* Properties *)

TypeOK ==
  /\ profiles \subseteq Doc
  /\ cached \subseteq Doc
  /\ mine \subseteq Doc
  /\ stage \in {"none", "queued", "stored", "refused"}
  /\ listeners \in Seq(Listener)
  /\ userArray \in Seq(User)
  /\ testLocations \in Seq(TestLocation)
  /\ selectedUser \in User \cup {Absent}
  /\ main \in Seq(Task)
  /\ crashed \in BOOLEAN
  /\ edits \in 0..MaxEdits
  /\ restarts \in 0..MaxRestarts

\* A row tells what its document says, except for a field it does not have.
Tells(row, doc) ==
  /\ row.name = doc.player
  /\ row.canPlay = doc.canPlay
  /\ doc.email # Absent => row.email = doc.email

TellsAll(users, docs) ==
  /\ Len(users) = Len(docs)
  /\ \A n \in DOMAIN docs : Tells(users[n], docs[n])

\* Once the main queue is empty, userArray and every list's table show the
\* documents of the query, in their order, whichever of the listeners filled
\* the array last: unless the query has become empty, which they ignore.
QuietTableIsCurrent ==
  (main = <<>> /\ listeners # <<>> /\ View # {}) =>
    /\ TellsAll(userArray, Ordered(View))
    /\ \A k \in DOMAIN listeners :
         Kind(k) = "list" => TellsAll(listeners[k].rows, Ordered(View))

\* A tap while the main queue is empty selects the player whose row it is.
QuietTapSelectsShown ==
  [][\A n \in Place :
       (SelectRow(n) /\ main = <<>>) => selectedUser'.name = FrontRows[n].name]_vars

\* A tap selects the player whose row it is.
TapSelectsShown ==
  [][\A n \in Place : SelectRow(n) => selectedUser'.name = FrontRows[n].name]_vars

\* No tap crashes the app, as long as the owner's new profile was not refused.
OnlyRefusalCrashes == crashed => stage = "refused"

\* The players whose document has no address.
Nameless == {d.player : d \in {e \in profiles \cup mine : e.email = Absent}}

\* A recorded location carries the address of the player who is there, unless
\* that player has none: the blocks never mix two documents of a snapshot or
\* of two snapshots.
LocationNamesItsPlayer ==
  \A i \in DOMAIN testLocations :
    LET l == testLocations[i]
    IN  l.location \in Nameless \/ l.name = l.location

(***************************************************************************)
(* Why they hold.  A document keeps its player, its place and its address  *)
(* for ever, so that no copy of it, however old, is taken for another.     *)
(***************************************************************************)
SameDoc(d, e) == d.player = e.player /\ d.place = e.place /\ d.email = e.email

OneVersion(docs) == \A d, e \in docs : d.player = e.player => d = e

CopiesOf(docs, origin) == \A d \in docs : \E e \in origin : SameDoc(d, e)

IsSnapshot(t) == t.kind = "snapshot"

ProfilesFit ==
  /\ \A d, e \in profiles \cup mine :
       /\ d.player = e.player \/ d.place = e.place => SameDoc(d, e)
       /\ d.email \in {d.player, Absent}
  /\ \A d, e \in mine : d = e /\ d.player = Owner /\ d.email = Owner
  /\ stage = "none" => mine = {}
  /\ stage # "stored" => \A d \in profiles : d.player # Owner
  /\ OneVersion(profiles) /\ OneVersion(cached) /\ CopiesOf(cached, profiles)

SnapshotsFit ==
  \A k \in DOMAIN main :
    IsSnapshot(main[k]) => /\ OneVersion(main[k].docs)
                           /\ CopiesOf(main[k].docs, profiles \cup mine)

\* From position i of the main queue on, every snapshot is the newest one.
NewestFrom(tasks, i, docs) ==
  \A j \in DOMAIN tasks : j >= i /\ IsSnapshot(tasks[j]) => tasks[j].docs = docs

\* A list or a map still waits for the newest snapshot, and no older one comes
\* after it; or userArray has it, and the list shows it or will be reloaded.
TablesCatchUp ==
  View # {} =>
    \A k \in DOMAIN listeners :
      \/ \E i \in DOMAIN main :
           IsSnapshot(main[i]) /\ main[i].to = k /\ NewestFrom(main, i, View)
      \/ /\ NewestFrom(main, 1, View)
         /\ TellsAll(userArray, Ordered(View))
         /\ Kind(k) = "list" =>
              \/ TellsAll(listeners[k].rows, Ordered(View))
              \/ \E i \in DOMAIN main : main[i] = [kind |-> "reload", to |-> k]

\* Before the device has a document from the server, its screens show nothing
\* but the owner's.
OnlyOwnerUncached ==
  cached = {} =>
    /\ \A i \in DOMAIN main :
         IsSnapshot(main[i]) => \A d \in main[i].docs : d.player = Owner
    /\ \A n \in DOMAIN userArray : userArray[n].name = Owner
    /\ \A k \in DOMAIN listeners :
         \A n \in DOMAIN listeners[k].rows : listeners[k].rows[n].name = Owner

\* As long as the owner's profile is not refused, snapshots only get longer.
SnapshotsGrow ==
  stage # "refused" =>
    /\ ~crashed
    /\ \A k \in DOMAIN listeners : Len(listeners[k].rows) <= Len(userArray)
    /\ Len(userArray) <= Cardinality(View)
    /\ \A i \in DOMAIN main :
         IsSnapshot(main[i]) => Cardinality(main[i].docs) \in Len(userArray)..Cardinality(View)
    /\ \A i, j \in DOMAIN main :
         IsSnapshot(main[i]) /\ IsSnapshot(main[j]) /\ i <= j =>
           Cardinality(main[i].docs) <= Cardinality(main[j].docs)

\* What a listener's variables say of a location fits, and a block finds one.
FieldsFit ==
  /\ \A k \in DOMAIN listeners :
       LET f == listeners[k].fields
       IN  f.location = Absent \/ f.location \in Nameless \/ f.email = f.location
  /\ \A i \in DOMAIN main :
       /\ main[i].to \in DOMAIN listeners
       /\ main[i].kind = "locate" => listeners[main[i].to].fields.location # Absent

\* Everything in flight is in order: the newest snapshot comes last, to every
\* screen, and no copy mixes two documents.
InFlightInOrder ==
  /\ ProfilesFit /\ SnapshotsFit
  /\ TablesCatchUp /\ OnlyOwnerUncached /\ SnapshotsGrow /\ FieldsFit

\* Every open list ends up with a row for each stored player that tells what
\* the document says, once profiles and screens stop changing.
ListsCatchUp ==
  <>[](\A k \in DOMAIN listeners : Kind(k) = "list" =>
         \A d \in profiles :
           \E n \in DOMAIN listeners[k].rows : Tells(listeners[k].rows[n], d))
===============================================================================
