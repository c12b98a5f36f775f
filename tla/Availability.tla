----------------------------- MODULE Availability -----------------------------
(***************************************************************************)
(* The "can play" switch of the profile screen                             *)
(* (ProfileViewModel.updateAvailableSwitch), for one account signed in on  *)
(* one or more devices.                                                    *)
(*                                                                         *)
(* A tap flips the switch and adds a listener on the account's own Users   *)
(* document that is never removed.  Every snapshot the listener gets       *)
(* writes canPlay := the position of the switch at that moment, and every  *)
(* accepted write reads the position again and, one main-queue task later, *)
(* puts it into ProfileViewModel.instance.mySwitch and back into the       *)
(* switch.  Three copies of one Boolean (the server's, the switch's and    *)
(* mySwitch) thus chase each other through callbacks.                      *)
(*                                                                         *)
(* A profile screen stays in memory once opened, since the listeners hold  *)
(* its switch: screens are numbered in the order they are opened, and the  *)
(* user sees the last one.                                                 *)
(***************************************************************************)
EXTENDS Firestore, FiniteSets

CONSTANTS
  Device,      \* the devices the account is signed in on
  MaxTaps,     \* bound on the taps, on all devices together
  MaxScreens,  \* bound on the profile screens opened in one process
  MaxEdits,    \* bound on other changes to the document
  MaxRejects,  \* bound on the writes the server refuses
  MaxFaults,   \* bound on the kills of apps and breaks of write streams
  Patient      \* TRUE: the user taps only when nothing is in flight

ASSUME PatientIsBoolean == Patient \in BOOLEAN
ASSUME BoundsAreNaturals ==
  {MaxTaps, MaxScreens, MaxEdits, MaxRejects, MaxFaults} \subseteq Nat

VARIABLES
  user,       \* server: the account's Users document
  cache,      \* device: its cached copy
  queue,      \* device: the SDK's mutation queue
  view,       \* device: what the listeners were told last
  main,       \* device: the tasks waiting on the main queue
  screens,    \* device: isOn of the switch of every profile screen
  listeners,  \* device: the screen whose switch each listener captured
  mySwitch,   \* device: ProfileViewModel.instance.mySwitch
  taps, rejects, faults

counters == <<taps, rejects, faults>>
vars == <<user, cache, queue, view, main, screens, listeners, mySwitch,
          taps, rejects, faults>>

-------------------------------------------------------------------------------
(* Data *)

\* The Users document: canPlay, and a version standing for the other fields.
UserDoc == [canPlay : BOOLEAN, edits : 0..MaxEdits]

Screen == 1..MaxScreens

\* A queued write of canPlay; screen is the switch its completion captured,
\* 0 once the process that would run the completion is gone.
Mutation == [canPlay : BOOLEAN, screen : 0..MaxScreens, stage : Stage]

NewWrite(on, screen) == [canPlay |-> on, screen |-> screen, stage |-> "queued"]

\* A task of the main queue: a snapshot for the listener of a screen's
\* switch, the completion of a write, or the block that shows its outcome.
Task == [kind : {"snapshot", "completion"}, screen : Screen]
          \cup [kind : {"show"}, screen : Screen, on : BOOLEAN]

-------------------------------------------------------------------------------
(* The SDK on device d *)

\* The document with the queued patches.
LocalDoc(c, q) ==
  [c.doc EXCEPT !.canPlay = LatestOf(@, [i \in DOMAIN q |-> q[i].canPlay])]

Snapshots(d) ==
  [i \in DOMAIN listeners[d] |-> [kind |-> "snapshot", screen |-> listeners[d][i]]]

\* Device d's copy becomes c and its queue q; the listeners' snapshots, if
\* any, go behind the tasks of the main queue.
Refreshed(d, c, q, tasks) ==
  LET newView == NextView(view[d], LocalDoc(c, q), q # <<>>, c.committed)
  IN  /\ cache' = [cache EXCEPT ![d] = c]
      /\ queue' = [queue EXCEPT ![d] = q]
      /\ view' = [view EXCEPT ![d] = newView]
      /\ main' = [main EXCEPT ![d] =
                    IF ShouldRaiseEvent(view[d], newView)
                    THEN tasks \o Snapshots(d)
                    ELSE tasks]

\* Nothing of device d's switch is in flight.
Idle(d) ==
  /\ main[d] = <<>>
  /\ queue[d] = <<>>
  /\ cache[d] = Cached(user, FALSE)

-------------------------------------------------------------------------------
NewDoc(on) == [canPlay |-> on, edits |-> 0]

\* The view of a query nobody listens to is not kept; this stands for it.
Closed == Viewed(NewDoc(FALSE), FALSE)

\* An earlier session may have stored either position; a new process does
\* not read it.
Init ==
  /\ \E on \in BOOLEAN :
       /\ user = NewDoc(on)
       /\ cache = [d \in Device |-> Cached(NewDoc(on), FALSE)]
  /\ queue = [d \in Device |-> <<>>]
  /\ view = [d \in Device |-> Closed]
  /\ main = [d \in Device |-> <<>>]
  /\ screens = [d \in Device |-> <<>>]
  /\ listeners = [d \in Device |-> <<>>]
  /\ mySwitch = [d \in Device |-> FALSE]
  /\ taps = 0
  /\ rejects = 0
  /\ faults = 0

\* The profile screen is opened: its switch shows mySwitch, and userInfo
\* listens to the document, which opens the view if no screen had.
OpenProfile(d) ==
  /\ Len(screens[d]) < MaxScreens
  /\ screens' = [screens EXCEPT ![d] = Append(@, mySwitch[d])]
  /\ view' = IF screens[d] = <<>>
             THEN [view EXCEPT ![d] = Viewed(LocalDoc(cache[d], queue[d]),
                                             queue[d] # <<>>)]
             ELSE view
  /\ UNCHANGED <<user, cache, queue, main, listeners, mySwitch, counters>>

\* Faulty variant: a second tap on a screen relies on the first listener.
TapListeningOnce(d) ==
  LET front == Len(screens[d])
  IN  /\ front > 0
      /\ taps < MaxTaps
      /\ Patient => \A e \in Device : Idle(e)
      /\ taps' = taps + 1
      /\ screens' = [screens EXCEPT ![d][front] = ~@]
      /\ IF \E i \in DOMAIN listeners[d] : listeners[d][i] = front
         THEN UNCHANGED <<listeners, main>>
         ELSE /\ listeners' = [listeners EXCEPT ![d] = Append(@, front)]
              /\ main' = [main EXCEPT ![d] =
                            Append(@, [kind |-> "snapshot", screen |-> front])]
  /\ UNCHANGED <<user, cache, queue, view, mySwitch, rejects, faults>>

(***************************************************************************)
(* The user taps the switch of the screen in front: UIKit flips it and     *)
(* calls updateAvailableSwitch, which adds a listener.  The listener gets  *)
(* the current view at once.                                               *)
(***************************************************************************)
Tap(d) ==
  LET front == Len(screens[d])
  IN  /\ front > 0
      /\ taps < MaxTaps
      /\ Patient => \A e \in Device : Idle(e)
      /\ taps' = taps + 1
      /\ screens' = [screens EXCEPT ![d][front] = ~@]
      /\ listeners' = [listeners EXCEPT ![d] = Append(@, front)]
      /\ main' = [main EXCEPT ![d] =
                    Append(@, [kind |-> "snapshot", screen |-> front])]
  /\ UNCHANGED <<user, cache, queue, view, mySwitch, rejects, faults>>

\* Faulty variant: the remembered position is written.
WriteMySwitch(d) ==
  /\ main[d] # <<>>
  /\ LET t == Head(main[d])
     IN  /\ t.kind = "snapshot"
         /\ Refreshed(d, cache[d],
                      Append(queue[d], NewWrite(mySwitch[d], t.screen)),
                      Tail(main[d]))
  /\ UNCHANGED <<user, screens, listeners, mySwitch, taps, rejects, faults>>

\* A listener gets a snapshot: it writes the position its switch has now.
WriteCanPlay(d) ==
  /\ main[d] # <<>>
  /\ LET t == Head(main[d])
     IN  /\ t.kind = "snapshot"
         /\ Refreshed(d, cache[d],
                      Append(queue[d], NewWrite(screens[d][t.screen], t.screen)),
                      Tail(main[d]))
  /\ UNCHANGED <<user, screens, listeners, mySwitch, taps, rejects, faults>>

\* Faulty variant: a completion is called after the process has gone.
CompletionAlways(m) == <<[kind |-> "completion", screen |-> m.screen]>>

\* The completion of a write, if the process that made it still runs.
CompletionOf(m) ==
  IF m.screen = 0
  THEN <<>>
  ELSE <<[kind |-> "completion", screen |-> m.screen]>>

\* The server applies a write.
WriteCommitted(d) ==
  /\ \E i \in DOMAIN queue[d] :
       /\ IsNextWrite(queue[d], i)
       /\ user' = [user EXCEPT !.canPlay = queue[d][i].canPlay]
       /\ queue' = [queue EXCEPT ![d][i].stage = "committed"]
  /\ UNCHANGED <<cache, view, main, screens, listeners, mySwitch, counters>>

\* Device d hears that it did.  The completion is called before the snapshots
\* that the acknowledgement causes.
WriteAcknowledged(d) ==
  /\ queue[d] # <<>>
  /\ LET m == Head(queue[d])
     IN  /\ m.stage # "queued"
         /\ Refreshed(d, Acknowledged(cache[d], m,
                                      [cache[d].doc EXCEPT !.canPlay = m.canPlay]),
                      Tail(queue[d]), main[d] \o CompletionOf(m))
  /\ UNCHANGED <<user, screens, listeners, mySwitch, counters>>

\* The server refuses a write for good: the completion ignores the error,
\* and the view falls back to the document without the write.
WriteRejected(d) ==
  /\ rejects < MaxRejects
  /\ rejects' = rejects + 1
  /\ queue[d] # <<>>
  /\ Head(queue[d]).stage = "queued"
  /\ Refreshed(d, cache[d], Tail(queue[d]), main[d])
  /\ UNCHANGED <<user, screens, listeners, mySwitch, taps, faults>>

\* The completion of an accepted write reads the switch and dispatches the
\* block that will show what it read.
WriteCompleted(d) ==
  /\ main[d] # <<>>
  /\ LET t == Head(main[d])
     IN  /\ t.kind = "completion"
         /\ main' = [main EXCEPT ![d] =
              Append(Tail(@), [kind |-> "show", screen |-> t.screen,
                               on |-> screens[d][t.screen]])]
  /\ UNCHANGED <<user, cache, queue, view, screens, listeners, mySwitch, counters>>

\* Faulty variant: the switch is set and mySwitch is not.
ShowWithoutRemembering(d) ==
  /\ main[d] # <<>>
  /\ LET t == Head(main[d])
     IN  /\ t.kind = "show"
         /\ screens' = [screens EXCEPT ![d][t.screen] = t.on]
  /\ main' = [main EXCEPT ![d] = Tail(@)]
  /\ UNCHANGED <<user, cache, queue, view, listeners, mySwitch, counters>>

\* That block runs: mySwitch and the switch take the position it captured.
ShowSwitch(d) ==
  /\ main[d] # <<>>
  /\ LET t == Head(main[d])
     IN  /\ t.kind = "show"
         /\ mySwitch' = [mySwitch EXCEPT ![d] = t.on]
         /\ screens' = [screens EXCEPT ![d][t.screen] = t.on]
  /\ main' = [main EXCEPT ![d] = Tail(@)]
  /\ UNCHANGED <<user, cache, queue, view, listeners, counters>>

\* The Watch stream brings the server's copy to device d, with every write
\* the server committed so far.
WithWatched(q) ==
  [i \in 1..Len(q) |-> IF q[i].stage = "committed"
                       THEN [q[i] EXCEPT !.stage = "watched"]
                       ELSE q[i]]

Watch(d) ==
  /\ WatchIsNews(cache[d], user)
  /\ Refreshed(d, Cached(user, FALSE), WithWatched(queue[d]), main[d])
  /\ UNCHANGED <<user, screens, listeners, mySwitch, counters>>

\* Another field changes: a requester appears, the profile is edited.
OtherFieldChanges ==
  /\ user.edits < MaxEdits
  /\ user' = [user EXCEPT !.edits = @ + 1]
  /\ UNCHANGED <<cache, queue, view, main, screens, listeners, mySwitch, counters>>

\* Device d's write stream breaks before the server's answers reach it.
StreamBreaks(d) ==
  /\ faults < MaxFaults
  /\ faults' = faults + 1
  /\ \E i \in DOMAIN queue[d] : queue[d][i].stage # "queued"
  /\ queue' = [queue EXCEPT ![d] = Resent(@)]
  /\ UNCHANGED <<user, cache, view, main, screens, listeners, mySwitch, taps, rejects>>

\* Faulty variant: the writes keep the completions of the process that went.
RestartKeepingBlocks(d) ==
  /\ faults < MaxFaults
  /\ faults' = faults + 1
  /\ main' = [main EXCEPT ![d] = <<>>]
  /\ screens' = [screens EXCEPT ![d] = <<>>]
  /\ listeners' = [listeners EXCEPT ![d] = <<>>]
  /\ mySwitch' = [mySwitch EXCEPT ![d] = FALSE]
  /\ view' = [view EXCEPT ![d] = Closed]
  /\ queue' = [queue EXCEPT ![d] = Resent(@)]
  /\ UNCHANGED <<user, cache, taps, rejects>>

\* The app is killed and started again.
Restart(d) ==
  /\ faults < MaxFaults
  /\ faults' = faults + 1
  /\ main' = [main EXCEPT ![d] = <<>>]
  /\ screens' = [screens EXCEPT ![d] = <<>>]
  /\ listeners' = [listeners EXCEPT ![d] = <<>>]
  /\ mySwitch' = [mySwitch EXCEPT ![d] = FALSE]
  /\ view' = [view EXCEPT ![d] = Closed]
  /\ queue' = [queue EXCEPT ![d] = Resent([i \in 1..Len(@) |-> [@[i] EXCEPT !.screen = 0]])]
  /\ UNCHANGED <<user, cache, taps, rejects>>

Next ==
  \/ \E d \in Device : OpenProfile(d)
  \/ \E d \in Device : Tap(d)
  \/ \E d \in Device : WriteCanPlay(d)
  \/ \E d \in Device : WriteCommitted(d)
  \/ \E d \in Device : WriteAcknowledged(d)
  \/ \E d \in Device : WriteRejected(d)
  \/ \E d \in Device : WriteCompleted(d)
  \/ \E d \in Device : ShowSwitch(d)
  \/ \E d \in Device : Watch(d)
  \/ OtherFieldChanges
  \/ \E d \in Device : StreamBreaks(d)
  \/ \E d \in Device : Restart(d)

Spec == Init /\ [][Next]_vars

\* The main queue runs, the server answers and Watch catches up.
Fairness ==
  \A d \in Device :
    /\ WF_vars(WriteCanPlay(d))
    /\ WF_vars(WriteCommitted(d))
    /\ WF_vars(WriteAcknowledged(d))
    /\ WF_vars(WriteCompleted(d))
    /\ WF_vars(ShowSwitch(d))
    /\ WF_vars(Watch(d))

FairSpec == Spec /\ Fairness
-------------------------------------------------------------------------------
(* Properties *)

TypeOK ==
  /\ user \in UserDoc
  /\ cache \in [Device -> [doc : UserDoc, committed : BOOLEAN]]
  /\ queue \in [Device -> Seq(Mutation)]
  /\ view \in [Device -> [doc : UserDoc, local : BOOLEAN]]
  /\ main \in [Device -> Seq(Task)]
  /\ screens \in [Device -> Seq(BOOLEAN)]
  /\ listeners \in [Device -> Seq(Screen)]
  /\ mySwitch \in [Device -> BOOLEAN]
  /\ taps \in 0..MaxTaps
  /\ rejects \in 0..MaxRejects
  /\ faults \in 0..MaxFaults

\* The switch the user sees, and whether it was tapped since it was opened.
Front(d) == screens[d][Len(screens[d])]
Tapped(d) == \E i \in DOMAIN listeners[d] : listeners[d][i] = Len(screens[d])

\* When nothing is in flight, the stored availability is what the switch
\* that the user tapped shows.
SettledAgrees ==
  \A d \in Device : Idle(d) /\ Tapped(d) => user.canPlay = Front(d)

\* When nothing is in flight, the position that the next profile screen
\* will start from is the one the tapped switch shows, as long as no write
\* was refused: the completion of a refused write forgets to remember it.
SettledRemembers ==
  rejects = 0 =>
    \A d \in Device : Idle(d) /\ Tapped(d) => mySwitch[d] = Front(d)

\* When nothing is in flight, the three copies of the position agree: the
\* stored one, the switch in front and mySwitch.
CopiesAgree == SettledAgrees /\ SettledRemembers

\* What the listeners were told last is the document as the device knows it,
\* unless the view waits for Watch to confirm an acknowledged write.
ViewIsCurrent ==
  \A d \in Device :
    screens[d] # <<>> =>
      \/ view[d].doc = LocalDoc(cache[d], queue[d])
      \/ view[d].local /\ cache[d].committed

\* Listeners, tasks and writes are about switches of this process, and the
\* listener added last is about the newest switch that was tapped.
SwitchesExist ==
  \A d \in Device :
    /\ Len(screens[d]) <= MaxScreens
    /\ \A i \in DOMAIN listeners[d] : listeners[d][i] <= Len(screens[d])
    /\ \A i, j \in DOMAIN listeners[d] : i <= j => listeners[d][i] <= listeners[d][j]
    /\ \A k \in DOMAIN main[d] : main[d][k].screen <= Len(screens[d])
    /\ \A i \in DOMAIN queue[d] : queue[d][i].screen <= Len(screens[d])

\* For a user who waits: what a write will store and what a block will show is
\* what its switch still shows, and no write of an earlier process is left
\* when a switch has been tapped.
NothingStale ==
  Patient =>
    \A d \in Device :
      /\ \A k \in DOMAIN main[d] :
           main[d][k].kind = "show" => main[d][k].on = screens[d][main[d][k].screen]
      /\ \A i \in DOMAIN queue[d] :
           queue[d][i].screen # 0 => queue[d][i].canPlay = screens[d][queue[d][i].screen]
      /\ listeners[d] # <<>> => \A i \in DOMAIN queue[d] : queue[d][i].screen # 0

LastTask(tasks, kind, screen) ==
  \E k \in DOMAIN tasks :
    /\ tasks[k].kind = kind /\ tasks[k].screen = screen
    /\ \A l \in DOMAIN tasks : tasks[l].kind = kind => l <= k

NoTask(tasks, kind) == \A k \in DOMAIN tasks : tasks[k].kind # kind

\* The chain from a snapshot over the write and its completion to the block
\* that shows it: its last link, wherever that is now, is about screen, or it
\* has come to its end and remembered says whether its outcome is kept.
LastWrite(writes, screen) == writes # <<>> /\ writes[Len(writes)].screen = screen

LastShow(tasks, screen, remembered) ==
  \/ LastTask(tasks, "show", screen)
  \/ NoTask(tasks, "show") /\ remembered

LastLink(tasks, writes, screen, remembered) ==
  \/ LastWrite(writes, screen)
  \/ /\ writes = <<>>
     /\ \/ LastTask(tasks, "completion", screen)
        \/ NoTask(tasks, "completion") /\ LastShow(tasks, screen, remembered)

\* For a user who waits: the switch in front, once tapped, has the last word
\* on what is stored and, if no write is refused, on what is remembered.
FrontIsLast ==
  Patient =>
    \A d \in Device : Tapped(d) =>
      \/ LastTask(main[d], "snapshot", Len(screens[d]))
      \/ /\ NoTask(main[d], "snapshot")
         /\ view[d].doc.canPlay = Front(d)
         /\ rejects = 0 =>
              LastLink(main[d], queue[d], Len(screens[d]), mySwitch[d] = Front(d))

\* Everything in flight is in order: it is about switches that exist, none of
\* it is stale, and the newest switch has the last word.
InFlightInOrder == ViewIsCurrent /\ SwitchesExist /\ NothingStale /\ FrontIsLast

\* A change of the stored availability is to what a switch in front shows, or
\* by a write that outlived the process that made it.
ChangeIsShown ==
  user'.canPlay # user.canPlay =>
    \E d \in Device : \/ screens[d] = <<>>
                      \/ ~Tapped(d)
                      \/ user'.canPlay = Front(d)

\* The stored availability follows the switch in front: no step of an older
\* screen, or of a completion that comes late, changes it.
StoredFollowsSwitch == [][ChangeIsShown]_vars

\* Every device falls silent once the taps, the edits and the refusals stop.
Settles == <>[](\A d \in Device : Idle(d))

\* Unless the app is killed or the user taps again, a tapped position ends
\* up stored, through refused writes too.
TapIsStored ==
  \A d \in Device : \A on \in BOOLEAN :
    (Tapped(d) /\ Front(d) = on) ~>
      (user.canPlay = on \/ ~Tapped(d) \/ Front(d) # on)
===============================================================================
