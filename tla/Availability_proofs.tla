-------------------------- MODULE Availability_proofs --------------------------
(***************************************************************************)
(* Proofs about Availability, for every set of devices and every bound.    *)
(***************************************************************************)
EXTENDS Availability, FirestoreFacts

-------------------------------------------------------------------------------
(* The document as a device knows it *)

Copy == [doc : UserDoc, committed : BOOLEAN]

View == [doc : UserDoc, local : BOOLEAN]

Positions(q) == [i \in DOMAIN q |-> q[i].canPlay]

\* The positions of a queue of writes are a queue of positions.
LEMMA PositionsType ==
  ASSUME NEW q \in Seq(Mutation)
  PROVE  /\ Positions(q) \in Seq(BOOLEAN)
         /\ Len(Positions(q)) = Len(q)
         /\ \A i \in 1..Len(q) : Positions(q)[i] = q[i].canPlay
<1>1. /\ Len(q) \in Nat /\ DOMAIN q = 1..Len(q)
      /\ \A i \in 1..Len(q) : q[i] \in Mutation
  BY Queued
<1>2. Positions(q) \in [1..Len(q) -> BOOLEAN]
  BY <1>1 DEF Positions, Mutation
<1>3. Positions(q) \in Seq(BOOLEAN)
  BY <1>1, <1>2, SeqDef
<1>4. Len(Positions(q)) \in Nat /\ 1..Len(Positions(q)) = 1..Len(q)
  BY <1>2, <1>3, Queued
<1>. QED
  BY <1>1, <1>3, <1>4 DEF Positions

\* The local document has the position written last, or the cached one.
LEMMA LocalDocIs ==
  ASSUME NEW c \in Copy, NEW q \in Seq(Mutation)
  PROVE  /\ LocalDoc(c, q) \in UserDoc
         /\ q = <<>> => LocalDoc(c, q) = c.doc
         /\ q # <<>> => LocalDoc(c, q).canPlay = q[Len(q)].canPlay
<1> DEFINE p == Positions(q)
           last == LatestOf(c.doc.canPlay, p)
<1>1. /\ p \in Seq(BOOLEAN) /\ Len(p) = Len(q)
      /\ \A i \in 1..Len(q) : p[i] = q[i].canPlay
  BY PositionsType
<1>2. c.doc \in UserDoc /\ c.doc.canPlay \in BOOLEAN
  BY DEF Copy, UserDoc
<1>3. /\ Len(q) \in Nat
      /\ p = <<>> <=> q = <<>>
      /\ q # <<>> => Len(q) \in 1..Len(q)
  BY <1>1, Queued
<1>. HIDE DEF p
<1>4. /\ last \in BOOLEAN
      /\ q = <<>> => last = c.doc.canPlay
      /\ q # <<>> => last = q[Len(q)].canPlay
  BY <1>1, <1>2, <1>3, Latest
<1>5. LocalDoc(c, q) = [c.doc EXCEPT !.canPlay = last]
  BY DEF LocalDoc, p, Positions
<1>. HIDE DEF last
<1>. QED
  BY <1>2, <1>4, <1>5 DEF UserDoc

-------------------------------------------------------------------------------
(* Queues of writes that change their stages *)

\* The same writes, perhaps at other stages.
SameWrites(r, q) ==
  /\ r \in Seq(Mutation)
  /\ DOMAIN r = DOMAIN q /\ Len(r) = Len(q)
  /\ \A i \in DOMAIN q : r[i].canPlay = q[i].canPlay /\ r[i].screen = q[i].screen

\* A queue with the same writes gives the same local document.
LEMMA SameWritesSameDoc ==
  ASSUME NEW c, NEW q, NEW r, SameWrites(r, q)
  PROVE  LocalDoc(c, r) = LocalDoc(c, q)
<1>1. [i \in DOMAIN r |-> r[i].canPlay] = [i \in DOMAIN q |-> q[i].canPlay]
  BY DEF SameWrites
<1>. QED
  BY <1>1 DEF LocalDoc

\* A write that moves to another stage stays the write of a switch.
LEMMA StageMoves ==
  ASSUME NEW m \in Mutation, NEW stage \in Stage
  PROVE  /\ [m EXCEPT !.stage = stage] \in Mutation
         /\ [m EXCEPT !.stage = stage].canPlay = m.canPlay
         /\ [m EXCEPT !.stage = stage].screen = m.screen
BY DEF Mutation

\* A queue made write by write from a queue.
LEMMA WritesMap ==
  ASSUME NEW q \in Seq(Mutation), NEW r, DOMAIN r = 1..Len(q),
         r = [i \in 1..Len(q) |-> r[i]],
         \A i \in 1..Len(q) : /\ r[i] \in Mutation
                              /\ r[i].canPlay = q[i].canPlay
                              /\ r[i].screen = q[i].screen
  PROVE  SameWrites(r, q)
<1>1. Len(q) \in Nat /\ DOMAIN q = 1..Len(q)
  BY Queued
<1>2. r \in Seq(Mutation)
  <2>1. r \in [1..Len(q) -> Mutation]
    OBVIOUS
  <2>. QED
    BY <1>1, <2>1, SeqDef
<1>3. Len(r) \in Nat /\ 1..Len(r) = 1..Len(q)
  BY <1>2, Queued
<1>4. Len(r) = Len(q)
  BY <1>1, <1>3
<1>. QED
  BY <1>1, <1>2, <1>4 DEF SameWrites

LEMMA ResentWrites ==
  ASSUME NEW q \in Seq(Mutation)
  PROVE  SameWrites(Resent(q), q)
<1> DEFINE r == Resent(q)
<1>1. /\ DOMAIN r = 1..Len(q)
      /\ \A i \in 1..Len(q) : r[i] = [q[i] EXCEPT !.stage = "queued"]
  BY ResentFacts
<1>2. r = [i \in 1..Len(q) |-> r[i]]
  BY <1>1 DEF Resent
<1>. HIDE DEF r
<1>3. ASSUME NEW i \in 1..Len(q)
      PROVE  /\ r[i] \in Mutation
             /\ r[i].canPlay = q[i].canPlay /\ r[i].screen = q[i].screen
  <2>1. q[i] \in Mutation /\ "queued" \in Stage
    BY Queued DEF Stage
  <2>2. r[i] = [q[i] EXCEPT !.stage = "queued"]
    BY <1>1
  <2>. QED
    BY <2>1, <2>2, StageMoves
<1>4. SameWrites(r, q)
  BY <1>1, <1>2, <1>3, WritesMap
<1>. QED
  BY <1>4 DEF r

LEMMA WatchedWrites ==
  ASSUME NEW q \in Seq(Mutation)
  PROVE  SameWrites(WithWatched(q), q)
<1> DEFINE r == [i \in 1..Len(q) |-> IF q[i].stage = "committed"
                                     THEN [q[i] EXCEPT !.stage = "watched"]
                                     ELSE q[i]]
<1>1. ASSUME NEW i \in 1..Len(q)
      PROVE  /\ r[i] \in Mutation
             /\ r[i].canPlay = q[i].canPlay /\ r[i].screen = q[i].screen
  <2>1. q[i] \in Mutation /\ "watched" \in Stage
    BY Queued DEF Stage
  <2>2. CASE q[i].stage = "committed"
    <3>1. r[i] = [q[i] EXCEPT !.stage = "watched"]
      BY <2>2
    <3>. QED
      BY <2>1, <3>1, StageMoves
  <2>3. CASE q[i].stage # "committed"
    BY <2>1, <2>3
  <2>. QED
    BY <2>2, <2>3
<1>2. DOMAIN r = 1..Len(q) /\ r = [i \in 1..Len(q) |-> r[i]]
  OBVIOUS
<1>3. WithWatched(q) = r
  BY DEF WithWatched
<1>. HIDE DEF r
<1>. QED
  BY <1>1, <1>2, <1>3, WritesMap

LEMMA CommittedWrites ==
  ASSUME NEW q \in Seq(Mutation), NEW i \in DOMAIN q
  PROVE  SameWrites([q EXCEPT ![i].stage = "committed"], q)
<1> DEFINE m == [q[i] EXCEPT !.stage = "committed"]
           r == [q EXCEPT ![i] = m]
<1>1. /\ DOMAIN q = 1..Len(q) /\ i \in 1..Len(q)
      /\ \A j \in 1..Len(q) : q[j] \in Mutation
      /\ q = [j \in 1..Len(q) |-> q[j]]
  BY Queued
<1>2. "committed" \in Stage
  BY DEF Stage
<1>3. m \in Mutation /\ m.canPlay = q[i].canPlay /\ m.screen = q[i].screen
  BY <1>1, <1>2, StageMoves
<1>4. [q EXCEPT ![i].stage = "committed"] = r
  OBVIOUS
<1>. HIDE DEF m
<1>5. /\ DOMAIN r = 1..Len(q) /\ r = [j \in 1..Len(q) |-> r[j]]
      /\ r[i] = m /\ \A j \in 1..Len(q) : j # i => r[j] = q[j]
  BY <1>1
<1>. HIDE DEF r
<1>. QED
  BY <1>1, <1>3, <1>4, <1>5, WritesMap

-------------------------------------------------------------------------------
(* What is invariant about one device *)

\* A device: its copy of the document, the queue and the view, the main
\* queue, its switches, their listeners and the remembered position.
DeviceType(c, q, v, ts, s, ls, my) ==
  /\ c \in Copy /\ q \in Seq(Mutation) /\ v \in View
  /\ ts \in Seq(Task) /\ s \in Seq(BOOLEAN) /\ ls \in Seq(Screen) /\ my \in BOOLEAN

Exist(q, ts, s, ls) ==
  /\ Len(s) <= MaxScreens
  /\ \A i \in DOMAIN ls : ls[i] <= Len(s)
  /\ \A i, j \in DOMAIN ls : i <= j => ls[i] <= ls[j]
  /\ \A k \in DOMAIN ts : ts[k].screen <= Len(s)
  /\ \A i \in DOMAIN q : q[i].screen <= Len(s)

Current(c, q, v, s) ==
  s # <<>> => \/ v.doc = LocalDoc(c, q)
              \/ v.local /\ c.committed

Fresh(q, ts, s, ls) ==
  /\ \A k \in DOMAIN ts : ts[k].kind = "show" => ts[k].on = s[ts[k].screen]
  /\ \A i \in DOMAIN q : q[i].screen # 0 => q[i].canPlay = s[q[i].screen]
  /\ ls # <<>> => \A i \in DOMAIN q : q[i].screen # 0

IsTapped(s, ls) == \E i \in DOMAIN ls : ls[i] = Len(s)

FrontLast(q, v, ts, s, my, accepted) ==
  \/ LastTask(ts, "snapshot", Len(s))
  \/ /\ NoTask(ts, "snapshot")
     /\ v.doc.canPlay = s[Len(s)]
     /\ accepted => LastLink(ts, q, Len(s), my = s[Len(s)])

DeviceInv(c, q, v, ts, s, ls, my, accepted) ==
  /\ Exist(q, ts, s, ls)
  /\ Current(c, q, v, s)
  /\ Patient => Fresh(q, ts, s, ls)
  /\ Patient => (IsTapped(s, ls) => FrontLast(q, v, ts, s, my, accepted))

AllTyped ==
  \A d \in Device : DeviceType(cache[d], queue[d], view[d], main[d], screens[d],
                               listeners[d], mySwitch[d])

AllDevices ==
  \A d \in Device : DeviceInv(cache[d], queue[d], view[d], main[d], screens[d],
                              listeners[d], mySwitch[d], rejects = 0)

\* The invariants of the specification are those of every device.
LEMMA Devicewise ==
  AllDevices <=> SwitchesExist /\ ViewIsCurrent /\ NothingStale /\ FrontIsLast
<1>1. SwitchesExist <=>
        \A d \in Device : Exist(queue[d], main[d], screens[d], listeners[d])
  BY DEF SwitchesExist, Exist
<1>2. ViewIsCurrent <=>
        \A d \in Device : Current(cache[d], queue[d], view[d], screens[d])
  BY DEF ViewIsCurrent, Current
<1>3. NothingStale <=>
        \A d \in Device : Patient => Fresh(queue[d], main[d], screens[d], listeners[d])
  BY DEF NothingStale, Fresh
<1>4. FrontIsLast <=>
        \A d \in Device : Patient => (IsTapped(screens[d], listeners[d]) =>
          FrontLast(queue[d], view[d], main[d], screens[d], mySwitch[d], rejects = 0))
  BY DEF FrontIsLast, Tapped, Front, IsTapped, FrontLast
<1>. QED
  BY <1>1, <1>2, <1>3, <1>4 DEF AllDevices, DeviceInv

\* They are kept when one device keeps its own, the others do not change and
\* no refusal is taken back.
LEMMA OneDevice ==
  ASSUME AllDevices, NEW d \in Device,
         \A e \in Device \ {d} :
           /\ cache'[e] = cache[e] /\ queue'[e] = queue[e] /\ view'[e] = view[e]
           /\ main'[e] = main[e] /\ screens'[e] = screens[e]
           /\ listeners'[e] = listeners[e] /\ mySwitch'[e] = mySwitch[e],
         rejects' = 0 => rejects = 0,
         DeviceInv(cache'[d], queue'[d], view'[d], main'[d], screens'[d],
                   listeners'[d], mySwitch'[d], rejects' = 0)
  PROVE  AllDevices'
<1>1. ASSUME NEW c, NEW q, NEW v, NEW ts, NEW s, NEW ls, NEW my,
             DeviceInv(c, q, v, ts, s, ls, my, rejects = 0)
      PROVE  DeviceInv(c, q, v, ts, s, ls, my, rejects' = 0)
  BY <1>1 DEF DeviceInv, FrontLast
<1>2. ASSUME NEW e \in Device \ {d}
      PROVE  DeviceInv(cache'[e], queue'[e], view'[e], main'[e], screens'[e],
                       listeners'[e], mySwitch'[e], rejects' = 0)
  <2>1. DeviceInv(cache[e], queue[e], view[e], main[e], screens[e], listeners[e],
                  mySwitch[e], rejects = 0)
    BY DEF AllDevices
  <2>. QED
    BY <1>1, <2>1
<1>. QED
  BY <1>2 DEF AllDevices

-------------------------------------------------------------------------------
(* The last task of a kind *)

Kind == {"snapshot", "completion", "show"}

\* When the head of the queue is done, the last task of a kind stays the
\* last, or was the head.
LEMMA LastTail ==
  ASSUME NEW q \in Seq(Task), q # <<>>, NEW kind, NEW screen
  PROVE  /\ LastTask(q, kind, screen) =>
              \/ LastTask(Tail(q), kind, screen)
              \/ /\ NoTask(Tail(q), kind)
                 /\ Head(q).kind = kind /\ Head(q).screen = screen
         /\ NoTask(q, kind) => NoTask(Tail(q), kind) /\ Head(q).kind # kind
<1>1. /\ 1 \in DOMAIN q /\ Head(q) = q[1]
      /\ Len(q) \in Nat /\ DOMAIN q = 1..Len(q)
      /\ DOMAIN Tail(q) = 1..(Len(q) - 1)
      /\ \A i \in 1..(Len(q) - 1) : Tail(q)[i] = q[i + 1]
  BY Dequeued, Queued
<1>2. ASSUME NEW l \in DOMAIN Tail(q)
      PROVE  l \in Nat /\ l > 0 /\ l + 1 \in DOMAIN q /\ Tail(q)[l] = q[l + 1]
  BY <1>1
<1>3. NoTask(q, kind) => NoTask(Tail(q), kind) /\ Head(q).kind # kind
  BY <1>1, <1>2 DEF NoTask
<1>4. ASSUME LastTask(q, kind, screen)
      PROVE  \/ LastTask(Tail(q), kind, screen)
             \/ /\ NoTask(Tail(q), kind)
                /\ Head(q).kind = kind /\ Head(q).screen = screen
  <2>1. PICK k \in DOMAIN q :
          /\ q[k].kind = kind /\ q[k].screen = screen
          /\ \A l \in DOMAIN q : q[l].kind = kind => l <= k
    BY <1>4 DEF LastTask
  <2>2. ASSUME NEW l \in DOMAIN Tail(q), Tail(q)[l].kind = kind PROVE l + 1 <= k
    BY <1>2, <2>1, <2>2
  <2>3. CASE k = 1
    <3>1. ASSUME NEW l \in DOMAIN Tail(q) PROVE Tail(q)[l].kind # kind
      BY <1>2, <2>2, <2>3
    <3>. QED
      BY <1>1, <2>1, <2>3, <3>1 DEF NoTask
  <2>4. CASE k # 1
    <3>1. k - 1 \in DOMAIN Tail(q) /\ Tail(q)[k - 1] = q[k]
      BY <1>1, <2>4
    <3>2. ASSUME NEW l \in DOMAIN Tail(q), Tail(q)[l].kind = kind PROVE l <= k - 1
      <4>1. l + 1 <= k /\ l \in Nat /\ k \in Nat
        BY <1>1, <1>2, <2>2, <3>2
      <4>. QED
        BY <4>1
    <3>. QED
      BY <2>1, <3>1, <3>2 DEF LastTask
  <2>. QED
    BY <2>3, <2>4
<1>. QED
  BY <1>3, <1>4

\* A task that joins the queue is the last of its kind, and changes nothing
\* for the other kinds.
LEMMA LastAppend ==
  ASSUME NEW q \in Seq(Task), NEW t \in Task, NEW kind, NEW screen
  PROVE  /\ t.kind = kind => LastTask(Append(q, t), kind, t.screen)
         /\ t.kind # kind => /\ LastTask(q, kind, screen) => LastTask(Append(q, t), kind, screen)
                             /\ NoTask(q, kind) => NoTask(Append(q, t), kind)
<1> DEFINE r == Append(q, t)
           n == Len(q)
<1>1. /\ n \in Nat /\ DOMAIN q = 1..n /\ DOMAIN r = 1..(n + 1)
      /\ \A i \in 1..n : r[i] = q[i]
      /\ r[n + 1] = t
  BY Queued, Enqueued
<1>. HIDE DEF r, n
<1>2. t.kind = kind => LastTask(r, kind, t.screen)
  <2>1. n + 1 \in DOMAIN r /\ \A l \in DOMAIN r : l <= n + 1
    BY <1>1
  <2>. QED
    BY <1>1, <2>1 DEF LastTask
<1>3. ASSUME t.kind # kind, NEW l \in DOMAIN r, r[l].kind = kind
      PROVE  l \in DOMAIN q /\ r[l] = q[l]
  <2>1. l # n + 1
    BY <1>1, <1>3
  <2>. QED
    BY <1>1, <2>1
<1>4. ASSUME t.kind # kind, LastTask(q, kind, screen) PROVE LastTask(r, kind, screen)
  <2>1. PICK k \in DOMAIN q :
          /\ q[k].kind = kind /\ q[k].screen = screen
          /\ \A l \in DOMAIN q : q[l].kind = kind => l <= k
    BY <1>4 DEF LastTask
  <2>2. k \in DOMAIN r /\ r[k] = q[k]
    BY <1>1
  <2>3. \A l \in DOMAIN r : r[l].kind = kind => l <= k
    BY <1>3, <1>4, <2>1
  <2>. QED
    BY <2>1, <2>2, <2>3 DEF LastTask
<1>5. ASSUME t.kind # kind, NoTask(q, kind) PROVE NoTask(r, kind)
  BY <1>3, <1>5 DEF NoTask
<1>. QED
  BY <1>2, <1>4, <1>5 DEF r

\* The snapshots of one change, for the listeners ls.
Calls(ls) == [i \in DOMAIN ls |-> [kind |-> "snapshot", screen |-> ls[i]]]

LEMMA CallsType ==
  ASSUME NEW ls \in Seq(Screen)
  PROVE  /\ Calls(ls) \in Seq(Task)
         /\ Len(Calls(ls)) = Len(ls)
         /\ \A i \in 1..Len(ls) : /\ Calls(ls)[i].kind = "snapshot"
                                  /\ Calls(ls)[i].screen = ls[i]
<1>1. /\ Len(ls) \in Nat /\ DOMAIN ls = 1..Len(ls)
      /\ \A i \in 1..Len(ls) : ls[i] \in Screen
  BY Queued
<1>2. Calls(ls) \in [1..Len(ls) -> Task]
  BY <1>1 DEF Calls, Task
<1>3. Calls(ls) \in Seq(Task)
  BY <1>1, <1>2, SeqDef
<1>4. Len(Calls(ls)) \in Nat /\ 1..Len(Calls(ls)) = 1..Len(ls)
  BY <1>2, <1>3, Queued
<1>. QED
  BY <1>1, <1>3, <1>4 DEF Calls

\* The calls of a change come last, and the one of the listener added last is
\* the last of them.
LEMMA CallsLast ==
  ASSUME NEW q \in Seq(Task), NEW ls \in Seq(Screen)
  PROVE  /\ q \o Calls(ls) \in Seq(Task)
         /\ ls # <<>> => LastTask(q \o Calls(ls), "snapshot", ls[Len(ls)])
         /\ \A k \in DOMAIN (q \o Calls(ls)) :
              \/ k \in DOMAIN q /\ (q \o Calls(ls))[k] = q[k]
              \/ \E i \in DOMAIN ls : /\ (q \o Calls(ls))[k].kind = "snapshot"
                                      /\ (q \o Calls(ls))[k].screen = ls[i]
<1> DEFINE t == Calls(ls)
           r == q \o t
           n == Len(q)
           m == Len(ls)
<1>1. /\ t \in Seq(Task) /\ Len(t) = m
      /\ \A i \in 1..m : t[i].kind = "snapshot" /\ t[i].screen = ls[i]
  BY CallsType
<1>2. /\ n \in Nat /\ DOMAIN q = 1..n
      /\ m \in Nat /\ DOMAIN ls = 1..m
      /\ ls # <<>> => m \in 1..m
  BY Queued
<1>. HIDE DEF t
<1>3. /\ r \in Seq(Task)
      /\ DOMAIN r = 1..(n + Len(t))
      /\ \A i \in 1..n : r[i] = q[i]
      /\ \A i \in 1..Len(t) : r[n + i] = t[i]
  <2>1. t \in Seq(Task)
    BY <1>1
  <2>. QED
    BY <2>1, Joined
<1>. HIDE DEF r, n, m
<1>4. ASSUME NEW k \in DOMAIN r
      PROVE  \/ k \in DOMAIN q /\ r[k] = q[k]
             \/ \E i \in DOMAIN ls : r[k].kind = "snapshot" /\ r[k].screen = ls[i]
  <2>1. CASE k \in 1..n
    BY <1>2, <1>3, <2>1
  <2>2. CASE k \notin 1..n
    <3>1. k - n \in 1..m /\ n + (k - n) = k
      BY <1>1, <1>2, <1>3, <2>2
    <3>2. r[k] = t[k - n]
      BY <1>1, <1>3, <3>1
    <3>. QED
      BY <1>1, <1>2, <3>1, <3>2
  <2>. QED
    BY <2>1, <2>2
<1>5. ls # <<>> => LastTask(r, "snapshot", ls[m])
  <2> SUFFICES ASSUME ls # <<>> PROVE LastTask(r, "snapshot", ls[m])
    OBVIOUS
  <2>1. m \in 1..m
    BY <1>2
  <2>2. n + m \in DOMAIN r /\ \A l \in DOMAIN r : l <= n + m
    BY <1>1, <1>2, <1>3, <2>1
  <2>3. r[n + m] = t[m]
    BY <1>1, <1>3, <2>1
  <2>. QED
    BY <1>1, <2>1, <2>2, <2>3 DEF LastTask
<1>6. /\ r \in Seq(Task)
      /\ ls # <<>> => LastTask(r, "snapshot", ls[m])
      /\ \A k \in DOMAIN r :
           \/ k \in DOMAIN q /\ r[k] = q[k]
           \/ \E i \in DOMAIN ls : r[k].kind = "snapshot" /\ r[k].screen = ls[i]
  BY <1>3, <1>4, <1>5
<1>. QED
  BY <1>6 DEF r, t, m

-------------------------------------------------------------------------------
(* A change of one device's copy and queue *)

\* What Refreshed makes of a device's view and main queue.
NewView(c, q, v) == NextView(v, LocalDoc(c, q), q # <<>>, c.committed)

NewTasks(v, nv, ts, ls) == IF ShouldRaiseEvent(v, nv) THEN ts \o Calls(ls) ELSE ts

LEMMA RefreshedIs ==
  ASSUME NEW d, NEW c, NEW q, NEW ts, Refreshed(d, c, q, ts)
  PROVE  /\ cache' = [cache EXCEPT ![d] = c]
         /\ queue' = [queue EXCEPT ![d] = q]
         /\ view' = [view EXCEPT ![d] = NewView(c, q, view[d])]
         /\ main' = [main EXCEPT ![d] =
                       NewTasks(view[d], NewView(c, q, view[d]), ts, listeners[d])]
BY DEF Refreshed, NewView, NewTasks, Snapshots, Calls

\* The new view and tasks keep their types.
LEMMA RefreshedType ==
  ASSUME NEW c \in Copy, NEW q \in Seq(Mutation), NEW v \in View,
         NEW ts \in Seq(Task), NEW ls \in Seq(Screen)
  PROVE  /\ NewView(c, q, v) \in View
         /\ NewTasks(v, NewView(c, q, v), ts, ls) \in Seq(Task)
<1>1. NewView(c, q, v) \in View
  <2>1. /\ LocalDoc(c, q) \in UserDoc
        /\ (q # <<>>) \in BOOLEAN /\ c.committed \in BOOLEAN
    BY LocalDocIs DEF Copy
  <2>. QED
    BY <2>1, NextViewType DEF View, NewView
<1>2. ts \o Calls(ls) \in Seq(Task)
  BY CallsLast
<1>. QED
  BY <1>1, <1>2 DEF NewTasks

\* Listeners are about numbered switches.
LEMMA ListenerFacts ==
  ASSUME NEW s \in Seq(BOOLEAN), NEW ls \in Seq(Screen)
  PROVE  /\ Len(ls) \in Nat /\ DOMAIN ls = 1..Len(ls) /\ Len(s) \in Nat
         /\ \A i \in 1..Len(ls) : ls[i] \in Nat /\ ls[i] > 0
         /\ ls = <<>> <=> Len(ls) = 0
         /\ s = <<>> <=> Len(s) = 0
         /\ DOMAIN s = 1..Len(s)
         /\ \A n \in 1..Len(s) : s[n] \in BOOLEAN
<1>1. /\ Len(ls) \in Nat /\ DOMAIN ls = 1..Len(ls)
      /\ \A i \in 1..Len(ls) : ls[i] \in Screen
      /\ ls = <<>> <=> Len(ls) = 0
  BY Queued
<1>2. /\ Len(s) \in Nat /\ DOMAIN s = 1..Len(s) /\ (s = <<>> <=> Len(s) = 0)
      /\ \A n \in 1..Len(s) : s[n] \in BOOLEAN
  BY Queued
<1>3. \A n \in Screen : n \in Nat /\ n > 0
  BY BoundsAreNaturals DEF Screen
<1>. QED
  BY <1>1, <1>2, <1>3

\* The device keeps its invariant when the new queue and the tasks before the
\* new snapshots do, and the view has the document of the newest snapshot.
LEMMA RefreshedInv ==
  ASSUME NEW c \in Copy, NEW q \in Seq(Mutation), NEW v \in View,
         NEW ts \in Seq(Task), NEW s \in Seq(BOOLEAN), NEW ls \in Seq(Screen),
         NEW my, NEW accepted,
         Exist(q, ts, s, ls),
         Patient => Fresh(q, ts, s, ls),
         Patient /\ IsTapped(s, ls) /\ NewView(c, q, v).doc = v.doc =>
           FrontLast(q, v, ts, s, my, accepted)
  PROVE  DeviceInv(c, q, NewView(c, q, v), NewTasks(v, NewView(c, q, v), ts, ls),
                   s, ls, my, accepted)
<1> DEFINE nv == NewView(c, q, v)
           nt == NewTasks(v, nv, ts, ls)
           r  == ts \o Calls(ls)
<1>1. Current(c, q, nv, s)
  <2>1. nv.doc = LocalDoc(c, q) \/ (nv.local /\ c.committed)
    BY NextViewCurrent DEF NewView
  <2>. HIDE DEF nv
  <2>. QED
    BY <2>1 DEF Current
<1>2. nt = ts \/ nt = r
  BY DEF NewTasks
<1>3. /\ ls # <<>> => LastTask(r, "snapshot", ls[Len(ls)])
      /\ \A k \in DOMAIN r :
              \/ k \in DOMAIN ts /\ r[k] = ts[k]
              \/ \E i \in DOMAIN ls : r[k].kind = "snapshot" /\ r[k].screen = ls[i]
  BY CallsLast
<1>4. ShouldRaiseEvent(v, nv) => nt = r
  BY DEF NewTasks
<1>5. ~ShouldRaiseEvent(v, nv) => nt = ts
  BY DEF NewTasks
<1>. HIDE DEF nt, nv, r
<1>6. Exist(q, nt, s, ls)
  <2>1. \A k \in DOMAIN r : r[k].screen <= Len(s)
    BY <1>3 DEF Exist
  <2>2. Exist(q, r, s, ls)
    BY <2>1 DEF Exist
  <2>. QED
    BY <1>2, <2>2
<1>7. Patient => Fresh(q, nt, s, ls)
  <2>1. ASSUME Patient PROVE Fresh(q, r, s, ls)
    BY <1>3, <2>1 DEF Fresh
  <2>. QED
    BY <1>2, <2>1
<1>8. ASSUME Patient, IsTapped(s, ls) PROVE FrontLast(q, nv, nt, s, my, accepted)
  <2>1. CASE ShouldRaiseEvent(v, nv)
    <3>1. /\ Len(ls) \in Nat /\ DOMAIN ls = 1..Len(ls) /\ Len(s) \in Nat
          /\ \A i \in 1..Len(ls) : ls[i] \in Nat
          /\ ls = <<>> <=> Len(ls) = 0
      BY ListenerFacts
    <3>2. PICK i \in DOMAIN ls : ls[i] = Len(s)
      BY <1>8 DEF IsTapped
    <3>3. Len(ls) \in DOMAIN ls /\ i <= Len(ls) /\ ls # <<>>
      BY <3>1, <3>2
    <3>4. ls[i] <= ls[Len(ls)] /\ ls[Len(ls)] <= Len(s)
      BY <3>3 DEF Exist
    <3>5. ls[Len(ls)] = Len(s)
      BY <3>1, <3>2, <3>3, <3>4
    <3>. QED
      BY <1>3, <1>4, <2>1, <3>3, <3>5 DEF FrontLast
  <2>2. CASE ~ShouldRaiseEvent(v, nv)
    <3>1. nt = ts /\ nv.doc = v.doc
      BY <1>5, <2>2 DEF ShouldRaiseEvent
    <3>2. FrontLast(q, v, ts, s, my, accepted)
      BY <1>8, <3>1 DEF nv
    <3>. QED
      BY <3>1, <3>2 DEF FrontLast
  <2>. QED
    BY <2>1, <2>2
<1>9. DeviceInv(c, q, nv, nt, s, ls, my, accepted)
  BY <1>1, <1>6, <1>7, <1>8 DEF DeviceInv
<1>. QED
  BY <1>9 DEF nv, nt

-------------------------------------------------------------------------------
(* Tasks and writes *)

LEMMA TaskFacts ==
  ASSUME NEW t \in Task
  PROVE  /\ t.kind \in Kind
         /\ t.screen \in Screen /\ t.screen \in Nat /\ t.screen > 0
         /\ t.kind = "show" => t.on \in BOOLEAN
<1>1. t.kind \in Kind /\ t.screen \in Screen /\ (t.kind = "show" => t.on \in BOOLEAN)
  BY DEF Task, Kind
<1>2. \A n \in Screen : n \in Nat /\ n > 0
  BY BoundsAreNaturals DEF Screen
<1>. QED
  BY <1>1, <1>2

LEMMA NewTaskFacts ==
  ASSUME NEW n \in Screen, NEW on \in BOOLEAN
  PROVE  /\ [kind |-> "snapshot", screen |-> n] \in Task
         /\ [kind |-> "completion", screen |-> n] \in Task
         /\ [kind |-> "show", screen |-> n, on |-> on] \in Task
BY DEF Task

LEMMA WriteFacts ==
  ASSUME NEW m \in Mutation
  PROVE  /\ m.canPlay \in BOOLEAN /\ m.screen \in Nat /\ m.stage \in Stage
         /\ m.screen # 0 => m.screen \in Screen /\ m.screen > 0
<1>1. m.screen \in 0..MaxScreens /\ MaxScreens \in Nat
  BY BoundsAreNaturals DEF Mutation
<1>. QED
  BY <1>1 DEF Mutation, Screen

LEMMA NewWriteFacts ==
  ASSUME NEW n \in Screen, NEW on \in BOOLEAN
  PROVE  /\ NewWrite(on, n) \in Mutation
         /\ NewWrite(on, n).canPlay = on /\ NewWrite(on, n).screen = n
<1>1. n \in 0..MaxScreens
  BY BoundsAreNaturals DEF Screen
<1>. QED
  BY <1>1 DEF NewWrite, Mutation, Stage

\* A task joins the main queue.
LEMMA TaskJoins ==
  ASSUME NEW ts \in Seq(Task), NEW t \in Task
  PROVE  /\ Append(ts, t) \in Seq(Task)
         /\ \A k \in DOMAIN Append(ts, t) :
              \/ Append(ts, t)[k] = t
              \/ k \in DOMAIN ts /\ Append(ts, t)[k] = ts[k]
<1> DEFINE us == Append(ts, t)
<1>1. Len(ts) \in Nat /\ DOMAIN ts = 1..Len(ts)
  BY Queued
<1>2. /\ us \in Seq(Task) /\ DOMAIN us = 1..(Len(ts) + 1)
      /\ \A i \in 1..Len(ts) : us[i] = ts[i]
      /\ us[Len(ts) + 1] = t
  BY Enqueued
<1>. HIDE DEF us
<1>3. \A k \in DOMAIN us : us[k] = t \/ (k \in DOMAIN ts /\ us[k] = ts[k])
  BY <1>1, <1>2
<1>. QED
  BY <1>2, <1>3 DEF us

\* The switches that tasks and writes are about.
LEMMA SwitchFacts ==
  ASSUME NEW q \in Seq(Mutation), NEW ts \in Seq(Task), NEW s \in Seq(BOOLEAN),
         NEW ls \in Seq(Screen), Exist(q, ts, s, ls)
  PROVE  /\ \A k \in DOMAIN ts :
              /\ ts[k] \in Task /\ ts[k].screen \in Nat /\ ts[k].screen \in 1..Len(s)
         /\ \A i \in DOMAIN q :
              /\ q[i] \in Mutation /\ q[i].screen \in Nat
              /\ q[i].screen # 0 => q[i].screen \in 1..Len(s)
<1>1. Len(s) \in Nat
  BY ListenerFacts
<1>2. /\ \A k \in DOMAIN ts : ts[k] \in Task
      /\ \A i \in DOMAIN q : q[i] \in Mutation
  BY Queued
<1>3. ASSUME NEW k \in DOMAIN ts
      PROVE  ts[k].screen \in Nat /\ ts[k].screen \in 1..Len(s)
  <2>1. ts[k].screen \in Nat /\ ts[k].screen > 0
    BY <1>2, TaskFacts
  <2>2. ts[k].screen <= Len(s)
    BY DEF Exist
  <2>. QED
    BY <1>1, <2>1, <2>2
<1>4. ASSUME NEW i \in DOMAIN q
      PROVE  /\ q[i].screen \in Nat
             /\ q[i].screen # 0 => q[i].screen \in 1..Len(s)
  <2>1. q[i].screen \in Nat /\ (q[i].screen # 0 => q[i].screen > 0)
    BY <1>2, WriteFacts
  <2>2. q[i].screen <= Len(s)
    BY DEF Exist
  <2>. QED
    BY <1>1, <2>1, <2>2
<1>. QED
  BY <1>2, <1>3, <1>4

-------------------------------------------------------------------------------
(* The steps of one device *)

\* The view once a screen is opened.
OpenedView(c, q, v, s) ==
  IF s = <<>> THEN Viewed(LocalDoc(c, q), q # <<>>) ELSE v

\* A new profile screen has a switch that nobody tapped.
LEMMA Opens ==
  ASSUME NEW c \in Copy, NEW q \in Seq(Mutation), NEW v \in View,
         NEW ts \in Seq(Task), NEW s \in Seq(BOOLEAN), NEW ls \in Seq(Screen),
         NEW my \in BOOLEAN, NEW accepted,
         DeviceInv(c, q, v, ts, s, ls, my, accepted),
         Len(s) < MaxScreens
  PROVE  /\ DeviceType(c, q, OpenedView(c, q, v, s), ts, Append(s, my), ls, my)
         /\ DeviceInv(c, q, OpenedView(c, q, v, s), ts, Append(s, my), ls, my, accepted)
<1> DEFINE r == Append(s, my)
           w == OpenedView(c, q, v, s)
<1>1. Exist(q, ts, s, ls)
  BY DEF DeviceInv
<1>2. /\ Len(s) \in Nat /\ MaxScreens \in Nat
      /\ DOMAIN ls = 1..Len(ls) /\ \A i \in 1..Len(ls) : ls[i] \in Nat
  BY ListenerFacts, BoundsAreNaturals
<1>3. /\ r \in Seq(BOOLEAN) /\ Len(r) = Len(s) + 1
      /\ \A n \in 1..Len(s) : r[n] = s[n]
  BY Enqueued
<1>4. /\ \A k \in DOMAIN ts : ts[k].screen \in Nat /\ ts[k].screen \in 1..Len(s)
      /\ \A i \in DOMAIN q : /\ q[i].screen \in Nat
                             /\ q[i].screen # 0 => q[i].screen \in 1..Len(s)
  BY <1>1, SwitchFacts
<1>. HIDE DEF r
<1>5. w \in View
  <2>1. LocalDoc(c, q) \in UserDoc
    BY LocalDocIs
  <2>2. ASSUME NEW x \in UserDoc, NEW b \in BOOLEAN PROVE Viewed(x, b) \in View
    BY DEF Viewed, View
  <2>3. Viewed(LocalDoc(c, q), q # <<>>) \in View
    BY <2>1, <2>2
  <2>. QED
    BY <2>3 DEF OpenedView
<1>6. Exist(q, ts, r, ls)
  <2>1. Len(r) <= MaxScreens
    BY <1>2, <1>3
  <2>2. \A x \in Nat : x <= Len(s) => x <= Len(r)
    BY <1>2, <1>3
  <2>3. \A i \in DOMAIN ls : ls[i] <= Len(r)
    BY <1>1, <1>2, <2>2 DEF Exist
  <2>4. \A k \in DOMAIN ts : ts[k].screen <= Len(r)
    BY <1>1, <1>4, <2>2 DEF Exist
  <2>5. \A i \in DOMAIN q : q[i].screen <= Len(r)
    BY <1>1, <1>4, <2>2 DEF Exist
  <2>. QED
    BY <1>1, <2>1, <2>3, <2>4, <2>5 DEF Exist
<1>7. Current(c, q, w, r)
  <2>1. s = <<>> => w.doc = LocalDoc(c, q)
    BY DEF Viewed, OpenedView
  <2>2. s # <<>> => w = v
    BY DEF OpenedView
  <2>. HIDE DEF w
  <2>3. Current(c, q, v, s)
    BY DEF DeviceInv
  <2>. QED
    BY <2>1, <2>2, <2>3 DEF Current
<1>8. Patient => Fresh(q, ts, r, ls)
  <2>0. SUFFICES ASSUME Fresh(q, ts, s, ls) PROVE Fresh(q, ts, r, ls)
    BY DEF DeviceInv
  <2>1. \A k \in DOMAIN ts : r[ts[k].screen] = s[ts[k].screen]
    BY <1>3, <1>4
  <2>2. \A i \in DOMAIN q : q[i].screen # 0 => r[q[i].screen] = s[q[i].screen]
    BY <1>3, <1>4
  <2>. QED
    BY <2>0, <2>1, <2>2 DEF Fresh
<1>9. ~IsTapped(r, ls)
  <2>1. \A i \in DOMAIN ls : ls[i] \in Nat /\ ls[i] <= Len(s)
    BY <1>1, <1>2 DEF Exist
  <2>2. \A i \in DOMAIN ls : ls[i] # Len(r)
    BY <1>2, <1>3, <2>1
  <2>. QED
    BY <2>2 DEF IsTapped
<1>. HIDE DEF w
<1>10. DeviceInv(c, q, w, ts, r, ls, my, accepted)
  BY <1>6, <1>7, <1>8, <1>9 DEF DeviceInv
<1>. QED
  BY <1>3, <1>5, <1>10 DEF DeviceType, r, w

\* A user who waits taps when the device has nothing left to do.
Waits(ts, q) == Patient => ts = <<>> /\ q = <<>>

\* The tasks that a tap and a completion add.
CallOf(n) == [kind |-> "snapshot", screen |-> n]
BlockOf(n, on) == [kind |-> "show", screen |-> n, on |-> on]

\* The switches s with switch n flipped.
Flipped(s, n) == [s EXCEPT ![n] = ~@]

LEMMA FlippedType ==
  ASSUME NEW s \in Seq(BOOLEAN), NEW n \in 1..Len(s)
  PROVE  Flipped(s, n) \in Seq(BOOLEAN) /\ Len(Flipped(s, n)) = Len(s)
<1> DEFINE r == Flipped(s, n)
<1>1. Len(s) \in Nat /\ DOMAIN s = 1..Len(s) /\ \A i \in 1..Len(s) : s[i] \in BOOLEAN
  BY Queued
<1>2. r \in [1..Len(s) -> BOOLEAN]
  BY <1>1 DEF Flipped
<1>. HIDE DEF r
<1>3. r \in Seq(BOOLEAN) /\ DOMAIN r = 1..Len(s)
  BY <1>1, <1>2, SeqDef
<1>4. Len(r) \in Nat /\ DOMAIN r = 1..Len(r)
  BY <1>3, Queued
<1>5. Len(r) = Len(s)
  BY <1>1, <1>3, <1>4
<1>. QED
  BY <1>3, <1>5 DEF r

\* A tap flips the switch in front, for which a snapshot now waits.
LEMMA Taps ==
  ASSUME NEW c \in Copy, NEW q \in Seq(Mutation), NEW v \in View,
         NEW ts \in Seq(Task), NEW s \in Seq(BOOLEAN), NEW ls \in Seq(Screen),
         NEW my \in BOOLEAN, NEW accepted, NEW us, NEW r, NEW ks,
         DeviceInv(c, q, v, ts, s, ls, my, accepted),
         Len(s) > 0,
         us = Append(ts, CallOf(Len(s))),
         r = Flipped(s, Len(s)),
         ks = Append(ls, Len(s)),
         Waits(ts, q)
  PROVE  /\ DeviceType(c, q, v, us, r, ks, my)
         /\ DeviceInv(c, q, v, us, r, ks, my, accepted)
<1> DEFINE n == Len(s)
           t == CallOf(n)
<1>1. Exist(q, ts, s, ls)
  BY DEF DeviceInv
<1>2. /\ n \in Nat /\ DOMAIN s = 1..n
      /\ s # <<>> /\ \A i \in 1..n : s[i] \in BOOLEAN
      /\ Len(ls) \in Nat /\ DOMAIN ls = 1..Len(ls)
      /\ \A i \in 1..Len(ls) : ls[i] \in Nat
  BY ListenerFacts
<1>3. n \in Screen
  BY <1>1, <1>2, BoundsAreNaturals DEF Exist, Screen
<1>4. t \in Task /\ t.kind = "snapshot" /\ t.screen = n
  BY <1>3, NewTaskFacts DEF CallOf
<1>5. r \in Seq(BOOLEAN) /\ Len(r) = n /\ r # <<>>
  <2>1. n \in 1..Len(s)
    BY <1>2
  <2>2. r \in Seq(BOOLEAN) /\ Len(r) = n
    BY <2>1, FlippedType
  <2>. QED
    BY <1>2, <2>2, Queued
<1>6. /\ ks \in Seq(Screen) /\ Len(ks) = Len(ls) + 1
      /\ DOMAIN ks = 1..(Len(ls) + 1)
      /\ \A i \in 1..Len(ls) : ks[i] = ls[i]
      /\ ks[Len(ls) + 1] = n
  BY <1>3, Enqueued
<1>7. /\ us \in Seq(Task)
      /\ DOMAIN ts = 1..Len(ts) /\ Len(ts) \in Nat
      /\ DOMAIN us = 1..(Len(ts) + 1)
      /\ \A i \in 1..Len(ts) : us[i] = ts[i]
      /\ us[Len(ts) + 1] = t
  BY <1>4, Enqueued, Queued
<1>8. LastTask(us, "snapshot", n)
  BY <1>4, LastAppend
<1>. HIDE DEF n, t
<1>9. Exist(q, us, r, ks)
  <2>1. Len(r) <= MaxScreens /\ \A i \in DOMAIN q : q[i].screen <= Len(r)
    BY <1>1, <1>5 DEF Exist, n
  <2>2. \A i \in DOMAIN ks : ks[i] \in Nat /\ ks[i] <= n
    <3>1. \A i \in 1..Len(ls) : ks[i] \in Nat /\ ks[i] <= n
      BY <1>1, <1>2, <1>6 DEF Exist, n
    <3>. QED
      BY <1>2, <1>6, <3>1
  <2>3. ASSUME NEW i \in DOMAIN ks, NEW j \in DOMAIN ks, i <= j
        PROVE  ks[i] <= ks[j]
    <3>1. CASE j = Len(ls) + 1
      BY <1>6, <2>2, <3>1
    <3>2. CASE j # Len(ls) + 1
      <4>1. i \in 1..Len(ls) /\ j \in 1..Len(ls)
        BY <1>2, <1>6, <2>3, <3>2
      <4>. QED
        BY <1>1, <1>2, <1>6, <2>3, <4>1 DEF Exist
    <3>. QED
      BY <3>1, <3>2
  <2>4. \A k \in DOMAIN us : us[k].screen <= n
    <3>1. \A k \in 1..Len(ts) : us[k].screen <= n
      BY <1>1, <1>7 DEF Exist, n
    <3>2. us[Len(ts) + 1].screen <= n
      BY <1>2, <1>4, <1>7
    <3>. QED
      BY <1>7, <3>1, <3>2
  <2>. QED
    BY <1>5, <2>1, <2>2, <2>3, <2>4 DEF Exist
<1>10. Current(c, q, v, r)
  BY <1>2 DEF DeviceInv, Current
<1>11. Patient => Fresh(q, us, r, ks)
  <2> SUFFICES ASSUME ts = <<>>, q = <<>> PROVE Fresh(q, us, r, ks)
    BY DEF Waits
  <2>1. DOMAIN q = {} /\ Len(ts) = 0
    OBVIOUS
  <2>2. DOMAIN us = {1} /\ us[1] = t
    BY <1>7, <2>1
  <2>. QED
    BY <1>4, <2>1, <2>2 DEF Fresh
<1>12. Patient => FrontLast(q, v, us, r, my, accepted)
  BY <1>5, <1>8 DEF FrontLast
<1>13. DeviceInv(c, q, v, us, r, ks, my, accepted)
  BY <1>9, <1>10, <1>11, <1>12 DEF DeviceInv
<1>14. DeviceType(c, q, v, us, r, ks, my)
  BY <1>5, <1>6, <1>7 DEF DeviceType
<1>. QED
  BY <1>13, <1>14

\* The queue when the first task, a snapshot, has written what its switch shows.
AfterSnapshot(q, ts, s) ==
  Append(q, NewWrite(s[Head(ts).screen], Head(ts).screen))

\* A snapshot leaves the main queue, a write of what its switch shows joins
\* the queue.
LEMMA Writes ==
  ASSUME NEW c \in Copy, NEW q \in Seq(Mutation), NEW v \in View,
         NEW ts \in Seq(Task), NEW s \in Seq(BOOLEAN), NEW ls \in Seq(Screen),
         NEW my \in BOOLEAN, NEW accepted,
         DeviceInv(c, q, v, ts, s, ls, my, accepted),
         ts # <<>>, Head(ts).kind = "snapshot"
  PROVE  LET r == AfterSnapshot(q, ts, s)
         IN  /\ r \in Seq(Mutation) /\ Tail(ts) \in Seq(Task)
             /\ DeviceInv(c, r, NewView(c, r, v),
                          NewTasks(v, NewView(c, r, v), Tail(ts), ls),
                          s, ls, my, accepted)
<1> DEFINE t == Head(ts)
           m == NewWrite(s[t.screen], t.screen)
           us == Tail(ts)
           r == AfterSnapshot(q, ts, s)
           w == NewView(c, r, v)
<1>1. Exist(q, ts, s, ls)
  BY DEF DeviceInv
<1>2. /\ 1 \in DOMAIN ts /\ t = ts[1] /\ Len(ts) \in Nat
      /\ us \in Seq(Task) /\ DOMAIN us = 1..(Len(ts) - 1)
      /\ \A k \in 1..(Len(ts) - 1) : us[k] = ts[k + 1]
      /\ DOMAIN ts = 1..Len(ts)
  BY Dequeued, Queued
<1>3. /\ t \in Task /\ t.screen \in 1..Len(s) /\ t.screen \in Screen
      /\ t.screen # 0 /\ s[t.screen] \in BOOLEAN
  <2>1. t \in Task /\ t.screen \in 1..Len(s)
    BY <1>1, <1>2, SwitchFacts
  <2>. QED
    BY <2>1, TaskFacts, ListenerFacts
<1>4. m \in Mutation /\ m.canPlay = s[t.screen] /\ m.screen = t.screen
  BY <1>3, NewWriteFacts
<1>0. r = Append(q, m)
  BY DEF AfterSnapshot
<1>. HIDE DEF m, t, r
<1>5. /\ r \in Seq(Mutation) /\ r # <<>>
      /\ Len(q) \in Nat /\ DOMAIN q = 1..Len(q)
      /\ Len(r) = Len(q) + 1 /\ DOMAIN r = 1..(Len(q) + 1)
      /\ \A i \in 1..Len(q) : r[i] = q[i]
      /\ r[Len(q) + 1] = m
  BY <1>0, <1>4, Enqueued, Queued
<1>6. \A k \in DOMAIN us : k + 1 \in DOMAIN ts /\ us[k] = ts[k + 1]
  BY <1>2
<1>7. \A i \in DOMAIN r : r[i] = m \/ (i \in DOMAIN q /\ r[i] = q[i])
  BY <1>5
<1>. HIDE DEF us, w
<1>8. Exist(r, us, s, ls)
  <2>1. m.screen <= Len(s)
    BY <1>3, <1>4, ListenerFacts
  <2>2. \A i \in DOMAIN r : r[i].screen <= Len(s)
    BY <1>1, <1>7, <2>1 DEF Exist
  <2>3. \A k \in DOMAIN us : us[k].screen <= Len(s)
    BY <1>1, <1>6 DEF Exist
  <2>. QED
    BY <1>1, <2>2, <2>3 DEF Exist
<1>9. Patient => Fresh(r, us, s, ls)
  <2>0. SUFFICES ASSUME Fresh(q, ts, s, ls) PROVE Fresh(r, us, s, ls)
    BY DEF DeviceInv
  <2>1. \A k \in DOMAIN us : us[k].kind = "show" => us[k].on = s[us[k].screen]
    BY <2>0, <1>6 DEF Fresh
  <2>2. \A i \in DOMAIN r : r[i].screen # 0 => r[i].canPlay = s[r[i].screen]
    BY <2>0, <1>4, <1>7 DEF Fresh
  <2>3. ls # <<>> => \A i \in DOMAIN r : r[i].screen # 0
    BY <2>0, <1>3, <1>4, <1>7 DEF Fresh
  <2>. QED
    BY <2>1, <2>2, <2>3 DEF Fresh
<1>10. ASSUME Patient, IsTapped(s, ls), w.doc = v.doc
       PROVE  FrontLast(r, v, us, s, my, accepted)
  <2>1. FrontLast(q, v, ts, s, my, accepted)
    BY <1>10 DEF DeviceInv
  <2>2. ~NoTask(ts, "snapshot")
    BY <1>2 DEF NoTask, t
  <2>3. LastTask(ts, "snapshot", Len(s))
    BY <2>1, <2>2 DEF FrontLast
  <2>4. \/ LastTask(us, "snapshot", Len(s))
        \/ NoTask(us, "snapshot") /\ t.screen = Len(s)
    BY <2>3, LastTail DEF us, t
  <2>5. CASE LastTask(us, "snapshot", Len(s))
    BY <2>5 DEF FrontLast
  <2>6. CASE NoTask(us, "snapshot") /\ t.screen = Len(s)
    <3>1. w.doc = LocalDoc(c, r)
      <4>1. ~ShouldWaitForSyncedDocument(v, r # <<>>, c.committed)
        BY <1>5 DEF ShouldWaitForSyncedDocument
      <4>. QED
        BY <4>1, NextViewShown DEF w, NewView
    <3>2. LocalDoc(c, r).canPlay = r[Len(r)].canPlay
      BY <1>5, LocalDocIs
    <3>3. r[Len(r)] = m
      BY <1>5
    <3>4. v.doc.canPlay = s[Len(s)]
      BY <1>4, <1>10, <2>6, <3>1, <3>2, <3>3
    <3>5. LastWrite(r, Len(s))
      BY <1>4, <1>5, <2>6, <3>3 DEF LastWrite
    <3>. QED
      BY <2>6, <3>4, <3>5 DEF FrontLast, LastLink
  <2>. QED
    BY <2>4, <2>5, <2>6
<1>11. DeviceInv(c, r, w, NewTasks(v, w, us, ls), s, ls, my, accepted)
  <2>1. us \in Seq(Task)
    BY <1>2
  <2>. QED
    BY <1>5, <1>8, <1>9, <1>10, <2>1, RefreshedInv DEF w
<1>. QED
  BY <1>2, <1>5, <1>11 DEF w, us, r

\* Writes that move on at the server or are sent again stay the same writes.
LEMMA SameLink ==
  ASSUME NEW q, NEW r, SameWrites(r, q),
         NEW v, NEW ts, NEW s, NEW ls, NEW my, NEW accepted
  PROVE  /\ Exist(q, ts, s, ls) => Exist(r, ts, s, ls)
         /\ Fresh(q, ts, s, ls) => Fresh(r, ts, s, ls)
         /\ q \in Seq(Mutation) /\ FrontLast(q, v, ts, s, my, accepted) =>
              FrontLast(r, v, ts, s, my, accepted)
<1>1. Exist(q, ts, s, ls) => Exist(r, ts, s, ls)
  BY DEF Exist, SameWrites
<1>2. Fresh(q, ts, s, ls) => Fresh(r, ts, s, ls)
  BY DEF Fresh, SameWrites
<1>3. ASSUME q \in Seq(Mutation), FrontLast(q, v, ts, s, my, accepted)
      PROVE  FrontLast(r, v, ts, s, my, accepted)
  <2>1. /\ Len(q) \in Nat /\ DOMAIN q = 1..Len(q) /\ (q = <<>> <=> Len(q) = 0)
    BY <1>3, Queued
  <2>2. r \in Seq(Mutation) /\ Len(r) = Len(q)
    BY DEF SameWrites
  <2>3. r = <<>> <=> Len(r) = 0
    BY <2>2, Queued
  <2>4. q # <<>> => Len(q) \in DOMAIN q
    BY <2>1
  <2>5. (LastWrite(q, Len(s)) <=> LastWrite(r, Len(s))) /\ (r = <<>> <=> q = <<>>)
    BY <2>1, <2>2, <2>3, <2>4 DEF LastWrite, SameWrites
  <2>6. LastLink(ts, q, Len(s), my = s[Len(s)]) => LastLink(ts, r, Len(s), my = s[Len(s)])
    BY <2>5 DEF LastLink
  <2>. QED
    BY <1>3, <2>6 DEF FrontLast
<1>. QED
  BY <1>1, <1>2, <1>3

LEMMA Moves ==
  ASSUME NEW c \in Copy, NEW q \in Seq(Mutation), NEW v \in View,
         NEW ts \in Seq(Task), NEW s \in Seq(BOOLEAN), NEW ls \in Seq(Screen),
         NEW my \in BOOLEAN, NEW accepted, NEW r,
         DeviceInv(c, q, v, ts, s, ls, my, accepted),
         SameWrites(r, q)
  PROVE  DeviceInv(c, r, v, ts, s, ls, my, accepted)
<1>1. Current(c, r, v, s)
  BY SameWritesSameDoc DEF DeviceInv, Current
<1>. QED
  BY <1>1, SameLink DEF DeviceInv

\* Watch brings a new copy, and the writes stay the same writes.
LEMMA Watches ==
  ASSUME NEW c \in Copy, NEW q \in Seq(Mutation), NEW v \in View,
         NEW ts \in Seq(Task), NEW s \in Seq(BOOLEAN), NEW ls \in Seq(Screen),
         NEW my \in BOOLEAN, NEW accepted, NEW b \in Copy, NEW r,
         DeviceInv(c, q, v, ts, s, ls, my, accepted),
         SameWrites(r, q)
  PROVE  DeviceInv(b, r, NewView(b, r, v), NewTasks(v, NewView(b, r, v), ts, ls),
                   s, ls, my, accepted)
<1>1. r \in Seq(Mutation)
  BY DEF SameWrites
<1>2. Exist(r, ts, s, ls)
  BY SameLink DEF DeviceInv
<1>3. Patient => Fresh(r, ts, s, ls)
  BY SameLink DEF DeviceInv
<1>4. Patient /\ IsTapped(s, ls) => FrontLast(r, v, ts, s, my, accepted)
  BY SameLink DEF DeviceInv
<1>. QED
  BY <1>1, <1>2, <1>3, <1>4, RefreshedInv

\* The first write leaves the queue.
LEMMA WithoutHead ==
  ASSUME NEW q \in Seq(Mutation), q # <<>>,
         NEW ts, NEW s, NEW ls
  PROVE  /\ Tail(q) \in Seq(Mutation) /\ Head(q) \in Mutation
         /\ Exist(q, ts, s, ls) => Exist(Tail(q), ts, s, ls) /\ Head(q).screen <= Len(s)
         /\ Fresh(q, ts, s, ls) => Fresh(Tail(q), ts, s, ls)
         /\ \A n : LastWrite(q, n) =>
              \/ LastWrite(Tail(q), n)
              \/ Tail(q) = <<>> /\ Head(q).screen = n
<1> DEFINE r == Tail(q)
<1>1. /\ 1 \in DOMAIN q /\ Head(q) = q[1] /\ Head(q) \in Mutation
      /\ Len(q) \in Nat /\ Len(q) > 0 /\ r \in Seq(Mutation)
      /\ Len(r) = Len(q) - 1 /\ DOMAIN r = 1..(Len(q) - 1)
      /\ \A i \in 1..(Len(q) - 1) : r[i] = q[i + 1]
  BY Dequeued
<1>2. DOMAIN q = 1..Len(q)
  BY Queued
<1>. HIDE DEF r
<1>3. (r = <<>> <=> Len(r) = 0)
  BY <1>1, Queued
<1>4. \A i \in DOMAIN r : i + 1 \in DOMAIN q /\ r[i] = q[i + 1]
  BY <1>1, <1>2
<1>5. Exist(q, ts, s, ls) => Exist(r, ts, s, ls) /\ Head(q).screen <= Len(s)
  BY <1>1, <1>4 DEF Exist
<1>6. Fresh(q, ts, s, ls) => Fresh(r, ts, s, ls)
  BY <1>4 DEF Fresh
<1>7. ASSUME NEW n, LastWrite(q, n)
      PROVE  LastWrite(r, n) \/ (r = <<>> /\ Head(q).screen = n)
  <2>1. q[Len(q)].screen = n
    BY <1>7 DEF LastWrite
  <2>2. CASE Len(q) = 1
    BY <1>1, <1>3, <2>1, <2>2
  <2>3. CASE Len(q) # 1
    <3>1. Len(r) \in 1..(Len(q) - 1) /\ Len(r) + 1 = Len(q) /\ r # <<>>
      BY <1>1, <1>3, <2>3
    <3>2. r[Len(r)] = q[Len(q)]
      BY <1>1, <3>1
    <3>. QED
      BY <2>1, <3>1, <3>2 DEF LastWrite
  <2>. QED
    BY <2>2, <2>3
<1>. QED
  BY <1>1, <1>5, <1>6, <1>7 DEF r

\* The main queue when the first write is answered.
AfterAnswer(ts, q) == ts \o CompletionOf(Head(q))

\* An accepted write leaves the queue, its completion joins the main queue.
LEMMA Acknowledges ==
  ASSUME NEW c \in Copy, NEW q \in Seq(Mutation), NEW v \in View,
         NEW ts \in Seq(Task), NEW s \in Seq(BOOLEAN), NEW ls \in Seq(Screen),
         NEW my \in BOOLEAN, NEW accepted, NEW b \in Copy,
         DeviceInv(c, q, v, ts, s, ls, my, accepted),
         q # <<>>
  PROVE  /\ Tail(q) \in Seq(Mutation) /\ AfterAnswer(ts, q) \in Seq(Task)
         /\ DeviceInv(b, Tail(q), NewView(b, Tail(q), v),
                      NewTasks(v, NewView(b, Tail(q), v), AfterAnswer(ts, q), ls),
                      s, ls, my, accepted)
<1> DEFINE m == Head(q)
           r == Tail(q)
           us == AfterAnswer(ts, q)
           done == [kind |-> "completion", screen |-> m.screen]
<1>1. /\ r \in Seq(Mutation) /\ m \in Mutation
      /\ Exist(r, ts, s, ls) /\ m.screen <= Len(s)
      /\ Patient => Fresh(r, ts, s, ls)
      /\ LastWrite(q, Len(s)) =>
           \/ LastWrite(r, Len(s))
           \/ r = <<>> /\ m.screen = Len(s)
  BY WithoutHead DEF DeviceInv
<1>2. m.screen \in Nat /\ (m.screen # 0 => m.screen \in Screen)
  BY <1>1, WriteFacts
<1>. HIDE DEF m, r, us
<1>3. ASSUME m.screen = 0
      PROVE  /\ r \in Seq(Mutation) /\ us \in Seq(Task)
             /\ DeviceInv(b, r, NewView(b, r, v), NewTasks(v, NewView(b, r, v), us, ls),
                          s, ls, my, accepted)
  <2>1. us = ts
    <3>1. us = ts \o <<>>
      BY <1>3 DEF CompletionOf, m, us, AfterAnswer
    <3>. QED
      BY <3>1, ConcatEmptySeq
  <2>2. ASSUME Patient, IsTapped(s, ls) PROVE FrontLast(r, v, us, s, my, accepted)
    <3>1. FrontLast(q, v, ts, s, my, accepted)
      BY <2>2 DEF DeviceInv
    <3>2. Len(s) # 0
      <4>1. Len(s) \in Nat /\ \A i \in DOMAIN ls : ls[i] > 0 /\ ls[i] \in Nat
        BY ListenerFacts
      <4>. QED
        BY <2>2, <4>1 DEF IsTapped
    <3>3. LastLink(ts, q, Len(s), my = s[Len(s)]) => LastLink(ts, r, Len(s), my = s[Len(s)])
      BY <1>1, <1>3, <3>2 DEF LastLink
    <3>. QED
      BY <2>1, <3>1, <3>3 DEF FrontLast
  <2>. QED
    BY <1>1, <2>1, <2>2, RefreshedInv
<1>4. ASSUME m.screen # 0
      PROVE  /\ r \in Seq(Mutation) /\ us \in Seq(Task)
             /\ DeviceInv(b, r, NewView(b, r, v), NewTasks(v, NewView(b, r, v), us, ls),
                          s, ls, my, accepted)
  <2>1. done \in Task /\ done.kind = "completion" /\ done.screen = m.screen
    BY <1>2, <1>4, NewTaskFacts
  <2>2. us = Append(ts, done)
    <3>1. us = ts \o <<done>>
      BY <1>4 DEF CompletionOf, m, us, AfterAnswer
    <3>. QED
      BY <2>1, <3>1, AppendIsConcat
  <2>. HIDE DEF done
  <2>3. us \in Seq(Task)
    BY <2>1, <2>2, TaskJoins
  <2>4. \A k \in DOMAIN us : us[k] = done \/ (k \in DOMAIN ts /\ us[k] = ts[k])
    BY <2>1, <2>2, TaskJoins
  <2>5. Exist(r, us, s, ls)
    <3>1. \A k \in DOMAIN us : us[k].screen <= Len(s)
      BY <1>1, <2>1, <2>4 DEF Exist
    <3>. QED
      BY <1>1, <3>1 DEF Exist
  <2>6. Patient => Fresh(r, us, s, ls)
    <3> SUFFICES ASSUME Fresh(r, ts, s, ls) PROVE Fresh(r, us, s, ls)
      BY <1>1
    <3>1. \A k \in DOMAIN us : us[k].kind = "show" => us[k].on = s[us[k].screen]
      BY <2>1, <2>4 DEF Fresh
    <3>. QED
      BY <3>1 DEF Fresh
  <2>7. ASSUME Patient, IsTapped(s, ls) PROVE FrontLast(r, v, us, s, my, accepted)
    <3>1. FrontLast(q, v, ts, s, my, accepted)
      BY <2>7 DEF DeviceInv
    <3>2. CASE LastTask(ts, "snapshot", Len(s))
      <4>1. LastTask(us, "snapshot", Len(s))
        BY <2>1, <2>2, <3>2, LastAppend
      <4>. QED
        BY <4>1 DEF FrontLast
    <3>3. CASE /\ NoTask(ts, "snapshot")
               /\ v.doc.canPlay = s[Len(s)]
               /\ accepted => LastLink(ts, q, Len(s), my = s[Len(s)])
      <4>1. NoTask(us, "snapshot")
        BY <2>1, <2>2, <3>3, LastAppend
      <4>2. ASSUME accepted PROVE LastLink(us, r, Len(s), my = s[Len(s)])
        <5>1. LastWrite(q, Len(s))
          BY <3>3, <4>2 DEF LastLink
        <5>2. CASE LastWrite(r, Len(s))
          BY <5>2 DEF LastLink
        <5>3. CASE r = <<>> /\ m.screen = Len(s)
          <6>1. LastTask(us, "completion", Len(s))
            BY <2>1, <2>2, <5>3, LastAppend
          <6>. QED
            BY <5>3, <6>1 DEF LastLink
        <5>. QED
          BY <1>1, <5>1, <5>2, <5>3
      <4>. QED
        BY <3>3, <4>1, <4>2 DEF FrontLast
    <3>. QED
      BY <3>1, <3>2, <3>3 DEF FrontLast
  <2>8. DeviceInv(b, r, NewView(b, r, v), NewTasks(v, NewView(b, r, v), us, ls),
                  s, ls, my, accepted)
    BY <1>1, <2>3, <2>5, <2>6, <2>7, RefreshedInv
  <2>. QED
    BY <1>1, <2>3, <2>8
<1>5. /\ r \in Seq(Mutation) /\ us \in Seq(Task)
      /\ DeviceInv(b, r, NewView(b, r, v), NewTasks(v, NewView(b, r, v), us, ls),
                   s, ls, my, accepted)
  BY <1>3, <1>4
<1>. QED
  BY <1>5 DEF r, us

\* Not every write was accepted.
Refused(accepted) == accepted = FALSE

\* A refused write leaves the queue, and no completion is called.
LEMMA Rejects ==
  ASSUME NEW c \in Copy, NEW q \in Seq(Mutation), NEW v \in View,
         NEW ts \in Seq(Task), NEW s \in Seq(BOOLEAN), NEW ls \in Seq(Screen),
         NEW my \in BOOLEAN, NEW accepted,
         DeviceInv(c, q, v, ts, s, ls, my, accepted),
         q # <<>>, Refused(accepted)
  PROVE  /\ Tail(q) \in Seq(Mutation)
         /\ DeviceInv(c, Tail(q), NewView(c, Tail(q), v),
                      NewTasks(v, NewView(c, Tail(q), v), ts, ls), s, ls, my, accepted)
<1> DEFINE r == Tail(q)
<1>1. /\ r \in Seq(Mutation)
      /\ Exist(r, ts, s, ls)
      /\ Patient => Fresh(r, ts, s, ls)
  BY WithoutHead DEF DeviceInv
<1>2. Patient /\ IsTapped(s, ls) => FrontLast(r, v, ts, s, my, accepted)
  BY DEF DeviceInv, FrontLast, Refused
<1>. HIDE DEF r
<1>3. DeviceInv(c, r, NewView(c, r, v), NewTasks(v, NewView(c, r, v), ts, ls),
                s, ls, my, accepted)
  BY <1>1, <1>2, RefreshedInv
<1>. QED
  BY <1>1, <1>3 DEF r

\* The main queue when its first task, a completion, has run.
AfterCompletion(ts, s) ==
  Append(Tail(ts), BlockOf(Head(ts).screen, s[Head(ts).screen]))

\* The completion of a write hands what its switch shows to a block.
LEMMA Completes ==
  ASSUME NEW c \in Copy, NEW q \in Seq(Mutation), NEW v \in View,
         NEW ts \in Seq(Task), NEW s \in Seq(BOOLEAN), NEW ls \in Seq(Screen),
         NEW my \in BOOLEAN, NEW accepted,
         DeviceInv(c, q, v, ts, s, ls, my, accepted),
         ts # <<>>, Head(ts).kind = "completion"
  PROVE  /\ AfterCompletion(ts, s) \in Seq(Task)
         /\ DeviceInv(c, q, v, AfterCompletion(ts, s), s, ls, my, accepted)
<1> DEFINE tl == Tail(ts)
           n == Len(s)
           t == Head(ts)
           b == BlockOf(t.screen, s[t.screen])
<1>1. Exist(q, ts, s, ls)
  BY DEF DeviceInv
<1>2. /\ 1 \in DOMAIN ts /\ t = ts[1] /\ Len(ts) \in Nat
      /\ tl \in Seq(Task) /\ DOMAIN tl = 1..(Len(ts) - 1)
      /\ \A k \in 1..(Len(ts) - 1) : tl[k] = ts[k + 1]
      /\ DOMAIN ts = 1..Len(ts)
      /\ Len(tl) = Len(ts) - 1
  BY Dequeued, Queued
<1>3. t \in Task /\ t.screen \in 1..n /\ t.screen \in Screen /\ s[t.screen] \in BOOLEAN
  <2>1. t \in Task /\ t.screen \in 1..n
    BY <1>1, <1>2, SwitchFacts
  <2>. QED
    BY <2>1, TaskFacts, ListenerFacts
<1>4. /\ b \in Task /\ b.kind = "show" /\ b.screen = t.screen /\ b.on = s[t.screen]
      /\ b.screen <= n
  <2>1. b.kind = "show" /\ b.screen = t.screen /\ b.on = s[t.screen]
    BY DEF BlockOf
  <2>2. b \in Task
    BY <1>3, NewTaskFacts DEF BlockOf
  <2>3. n \in Nat
    BY ListenerFacts
  <2>4. b.screen <= n
    BY <1>3, <2>1, <2>3
  <2>. QED
    BY <2>1, <2>2, <2>4
<1> DEFINE us == AfterCompletion(ts, s)
<1>0. us = Append(tl, b)
  BY DEF AfterCompletion
<1>. HIDE DEF tl, n, t, b, us
<1>5. /\ us \in Seq(Task)
      /\ \A k \in DOMAIN us : us[k] = b \/ (k \in DOMAIN tl /\ us[k] = tl[k])
  <2>1. us = Append(tl, b) /\ tl \in Seq(Task) /\ b \in Task
    BY <1>0, <1>2, <1>4
  <2>. QED
    BY <2>1, TaskJoins
<1>6. \A k \in DOMAIN tl : k + 1 \in DOMAIN ts /\ tl[k] = ts[k + 1]
  BY <1>2
<1>7. Exist(q, us, s, ls)
  <2>1. \A k \in DOMAIN us : us[k].screen <= n
    BY <1>1, <1>4, <1>5, <1>6 DEF Exist, n
  <2>. QED
    BY <1>1, <2>1 DEF Exist, n
<1>8. Patient => Fresh(q, us, s, ls)
  <2>0. SUFFICES ASSUME Fresh(q, ts, s, ls) PROVE Fresh(q, us, s, ls)
    BY DEF DeviceInv
  <2>1. b.on = s[b.screen]
    BY <1>4
  <2>2. \A k \in DOMAIN tl : tl[k].kind = "show" => tl[k].on = s[tl[k].screen]
    BY <2>0, <1>6 DEF Fresh
  <2>3. \A k \in DOMAIN us : us[k].kind = "show" => us[k].on = s[us[k].screen]
    BY <1>5, <2>1, <2>2
  <2>. QED
    BY <2>0, <2>3 DEF Fresh
<1>9. ASSUME Patient, IsTapped(s, ls) PROVE FrontLast(q, v, us, s, my, accepted)
  <2>1. FrontLast(q, v, ts, s, my, accepted)
    BY <1>9 DEF DeviceInv
  <2>2. us = Append(tl, b) /\ tl \in Seq(Task) /\ b \in Task
    BY <1>0, <1>2, <1>4
  <2>3. CASE LastTask(ts, "snapshot", n)
    <3>1. LastTask(tl, "snapshot", n)
      BY <2>3, LastTail DEF tl, t, b
    <3>2. LastTask(us, "snapshot", n)
      BY <1>4, <2>2, <3>1, LastAppend
    <3>. QED
      BY <3>2 DEF FrontLast, n
  <2>4. CASE /\ NoTask(ts, "snapshot")
             /\ v.doc.canPlay = s[n]
             /\ accepted => LastLink(ts, q, n, my = s[n])
    <3>1. NoTask(tl, "snapshot")
      BY <2>4, LastTail DEF tl, t, b
    <3>2. NoTask(us, "snapshot")
      BY <1>4, <2>2, <3>1, LastAppend
    <3>3. ASSUME accepted PROVE LastLink(us, q, n, my = s[n])
      <4>1. LastLink(ts, q, n, my = s[n])
        BY <2>4, <3>3
      <4>2. CASE LastWrite(q, n)
        BY <4>2 DEF LastLink
      <4>3. CASE q = <<>> /\ LastTask(ts, "completion", n)
        <5>1. \/ LastTask(tl, "completion", n)
              \/ NoTask(tl, "completion") /\ t.screen = n
          BY <4>3, LastTail DEF tl, t, b
        <5>2. CASE LastTask(tl, "completion", n)
          <6>1. LastTask(us, "completion", n)
            BY <1>4, <2>2, <5>2, LastAppend
          <6>. QED
            BY <4>3, <6>1 DEF LastLink
        <5>3. CASE NoTask(tl, "completion") /\ t.screen = n
          <6>1. NoTask(us, "completion")
            BY <1>4, <2>2, <5>3, LastAppend
          <6>2. LastTask(us, "show", n)
            BY <1>4, <2>2, <5>3, LastAppend
          <6>. QED
            BY <4>3, <6>1, <6>2 DEF LastLink, LastShow
        <5>. QED
          BY <5>1, <5>2, <5>3
      <4>4. ~NoTask(ts, "completion")
        BY <1>2 DEF NoTask, t
      <4>. QED
        BY <4>1, <4>2, <4>3, <4>4 DEF LastLink
    <3>. QED
      BY <2>4, <3>2, <3>3 DEF FrontLast, n
  <2>. QED
    BY <2>1, <2>3, <2>4 DEF FrontLast, n
<1>10. DeviceInv(c, q, v, us, s, ls, my, accepted)
  BY <1>7, <1>8, <1>9 DEF DeviceInv
<1>. QED
  BY <1>5, <1>10 DEF us

\* The block shows what it was handed, and remembers it.
LEMMA Shows ==
  ASSUME NEW c \in Copy, NEW q \in Seq(Mutation), NEW v \in View,
         NEW ts \in Seq(Task), NEW s \in Seq(BOOLEAN), NEW ls \in Seq(Screen),
         NEW my \in BOOLEAN, NEW accepted, NEW r,
         DeviceInv(c, q, v, ts, s, ls, my, accepted),
         ts # <<>>, Head(ts).kind = "show",
         r = [s EXCEPT ![Head(ts).screen] = Head(ts).on]
  PROVE  /\ DeviceType(c, q, v, Tail(ts), r, ls, Head(ts).on)
         /\ DeviceInv(c, q, v, Tail(ts), r, ls, Head(ts).on, accepted)
<1> DEFINE tl == Tail(ts)
           n == Len(s)
           t == Head(ts)
<1>1. Exist(q, ts, s, ls)
  BY DEF DeviceInv
<1>2. /\ 1 \in DOMAIN ts /\ t = ts[1] /\ Len(ts) \in Nat
      /\ tl \in Seq(Task) /\ DOMAIN tl = 1..(Len(ts) - 1)
      /\ \A k \in 1..(Len(ts) - 1) : tl[k] = ts[k + 1]
      /\ DOMAIN ts = 1..Len(ts)
  BY Dequeued, Queued
<1>3. t.screen \in 1..n /\ t.on \in BOOLEAN
  <2>1. t \in Task /\ t.screen \in 1..n
    BY <1>1, <1>2, SwitchFacts
  <2>. QED
    BY <2>1, TaskFacts
<1>4. n \in Nat /\ DOMAIN s = 1..n /\ \A i \in 1..n : s[i] \in BOOLEAN
  BY ListenerFacts
<1>5. r \in Seq(BOOLEAN) /\ Len(r) = n /\ (s # <<>>)
  <2>1. r \in [1..n -> BOOLEAN] /\ s \in [1..n -> BOOLEAN]
    BY <1>3, <1>4
  <2>2. r \in Seq(BOOLEAN) /\ DOMAIN r = 1..n
    BY <1>4, <2>1, SeqDef
  <2>3. Len(r) \in Nat /\ DOMAIN r = 1..Len(r)
    BY <2>2, Queued
  <2>4. Len(r) = n
    BY <1>4, <2>2, <2>3
  <2>. QED
    BY <1>3, <1>4, <2>2, <2>4, ListenerFacts
<1>6. \A k \in DOMAIN tl : k + 1 \in DOMAIN ts /\ tl[k] = ts[k + 1]
  BY <1>2
<1>7. Patient => t.on = s[t.screen]
  BY <1>2 DEF DeviceInv, Fresh
<1>8. Patient => r = s
  <2>1. ASSUME t.on = s[t.screen] PROVE r = s
    <3>1. s = [i \in 1..n |-> s[i]]
      BY <1>4, ListenerFacts, SeqDef
    <3>. QED
      BY <1>3, <1>4, <2>1, <3>1
  <2>. QED
    BY <1>7, <2>1
<1>. HIDE DEF tl, n, t
<1>9. Exist(q, tl, r, ls)
  <2>1. \A k \in DOMAIN tl : tl[k].screen <= n
    BY <1>1, <1>6 DEF Exist, n
  <2>. QED
    BY <1>1, <1>5, <2>1 DEF Exist, n
<1>10. Current(c, q, v, r)
  BY <1>5 DEF DeviceInv, Current
<1>11. Patient => Fresh(q, tl, r, ls)
  <2>0. SUFFICES ASSUME Fresh(q, ts, s, ls), r = s PROVE Fresh(q, tl, r, ls)
    BY <1>8 DEF DeviceInv
  <2>1. \A k \in DOMAIN tl : tl[k].kind = "show" => tl[k].on = s[tl[k].screen]
    BY <2>0, <1>6 DEF Fresh
  <2>. QED
    BY <2>0, <2>1 DEF Fresh
<1>12. ASSUME Patient, IsTapped(r, ls) PROVE FrontLast(q, v, tl, r, t.on, accepted)
  <2>1. r = s /\ t.on = s[t.screen]
    BY <1>7, <1>8, <1>12
  <2>2. FrontLast(q, v, ts, s, my, accepted)
    BY <1>12, <2>1 DEF DeviceInv
  <2>3. CASE LastTask(ts, "snapshot", n)
    <3>1. LastTask(tl, "snapshot", n)
      BY <2>3, LastTail DEF tl, t
    <3>. QED
      BY <2>1, <3>1 DEF FrontLast, n
  <2>4. CASE /\ NoTask(ts, "snapshot")
             /\ v.doc.canPlay = s[n]
             /\ accepted => LastLink(ts, q, n, my = s[n])
    <3>1. NoTask(tl, "snapshot")
      BY <2>4, LastTail DEF tl, t
    <3>2. ASSUME accepted PROVE LastLink(tl, q, n, t.on = s[n])
      <4>1. LastLink(ts, q, n, my = s[n])
        BY <2>4, <3>2
      <4>2. CASE LastWrite(q, n)
        BY <4>2 DEF LastLink
      <4>3. CASE q = <<>> /\ LastTask(ts, "completion", n)
        <5>1. LastTask(tl, "completion", n)
          BY <4>3, LastTail DEF tl, t
        <5>. QED
          BY <4>3, <5>1 DEF LastLink
      <4>4. CASE q = <<>> /\ NoTask(ts, "completion") /\ LastShow(ts, n, my = s[n])
        <5>1. NoTask(tl, "completion")
          BY <4>4, LastTail DEF tl, t
        <5>2. ~NoTask(ts, "show")
          BY <1>2 DEF NoTask
        <5>3. LastTask(ts, "show", n)
          BY <4>4, <5>2 DEF LastShow
        <5>4. \/ LastTask(tl, "show", n)
              \/ NoTask(tl, "show") /\ t.screen = n
          BY <5>3, LastTail DEF tl, t
        <5>5. LastShow(tl, n, t.on = s[n])
          BY <2>1, <5>4 DEF LastShow
        <5>. QED
          BY <4>4, <5>1, <5>5 DEF LastLink
      <4>. QED
        BY <4>1, <4>2, <4>3, <4>4 DEF LastLink
    <3>. QED
      BY <2>1, <2>4, <3>1, <3>2 DEF FrontLast, n
  <2>. QED
    BY <2>2, <2>3, <2>4 DEF FrontLast, n
<1>13. DeviceInv(c, q, v, tl, r, ls, t.on, accepted)
  BY <1>9, <1>10, <1>11, <1>12 DEF DeviceInv
<1>14. DeviceType(c, q, v, tl, r, ls, t.on)
  <2>1. tl \in Seq(Task)
    BY <1>2
  <2>. QED
    BY <1>3, <1>5, <2>1 DEF DeviceType
<1>. QED
  BY <1>13, <1>14 DEF tl, t

\* A new process knows no switch, and its writes are about none.
Forgotten(q) == Resent([i \in 1..Len(q) |-> [q[i] EXCEPT !.screen = 0]])

LEMMA ForgottenWrites ==
  ASSUME NEW q \in Seq(Mutation)
  PROVE  /\ Forgotten(q) \in Seq(Mutation)
         /\ \A i \in DOMAIN Forgotten(q) : Forgotten(q)[i].screen = 0
<1> DEFINE r == [i \in 1..Len(q) |-> [q[i] EXCEPT !.screen = 0]]
<1>1. Len(q) \in Nat /\ \A i \in 1..Len(q) : q[i] \in Mutation
  BY Queued
<1>2. ASSUME NEW m \in Mutation
      PROVE  /\ [m EXCEPT !.screen = 0] \in Mutation
             /\ [m EXCEPT !.screen = 0].screen = 0
  <2>1. 0 \in 0..MaxScreens
    BY BoundsAreNaturals
  <2>. QED
    BY <2>1 DEF Mutation
<1>3. r \in [1..Len(q) -> Mutation] /\ \A i \in 1..Len(q) : r[i].screen = 0
  BY <1>1, <1>2
<1>. HIDE DEF r
<1>4. r \in Seq(Mutation)
  BY <1>1, <1>3, SeqDef
<1>5. Len(r) \in Nat /\ DOMAIN r = 1..Len(r) /\ DOMAIN r = 1..Len(q)
  BY <1>3, <1>4, Queued
<1>6. SameWrites(Resent(r), r)
  BY <1>4, ResentWrites
<1>7. Resent(r) \in Seq(Mutation) /\ \A i \in DOMAIN Resent(r) : Resent(r)[i].screen = 0
  BY <1>3, <1>5, <1>6 DEF SameWrites
<1>. QED
  BY <1>7 DEF Forgotten, r

LEMMA Restarts ==
  ASSUME NEW c \in Copy, NEW q \in Seq(Mutation), NEW accepted
  PROVE  /\ DeviceType(c, Forgotten(q), Closed, <<>>, <<>>, <<>>, FALSE)
         /\ DeviceInv(c, Forgotten(q), Closed, <<>>, <<>>, <<>>, FALSE, accepted)
<1> DEFINE r == Forgotten(q)
<1>1. r \in Seq(Mutation) /\ \A i \in DOMAIN r : r[i].screen = 0
  BY ForgottenWrites
<1>2. Closed \in View
  BY BoundsAreNaturals DEF Closed, NewDoc, Viewed, View, UserDoc
<1>. HIDE DEF r
<1>3. DeviceType(c, r, Closed, <<>>, <<>>, <<>>, FALSE)
  BY <1>1, <1>2, EmptySeq DEF DeviceType
<1>4. Exist(r, <<>>, <<>>, <<>>)
  <2>1. MaxScreens \in Nat /\ Len(<<>>) = 0
    BY BoundsAreNaturals
  <2>. QED
    BY <1>1, <2>1 DEF Exist
<1>5. Fresh(r, <<>>, <<>>, <<>>)
  BY <1>1 DEF Fresh
<1>6. ~IsTapped(<<>>, <<>>) /\ Current(c, r, Closed, <<>>)
  BY DEF IsTapped, Current
<1>7. DeviceInv(c, r, Closed, <<>>, <<>>, <<>>, FALSE, accepted)
  BY <1>4, <1>5, <1>6 DEF DeviceInv
<1>. QED
  BY <1>3, <1>7 DEF r

-------------------------------------------------------------------------------
(* The steps of the specification *)

IInv == TypeOK /\ AllDevices

\* What a device's variables are.
LEMMA Typed ==
  ASSUME TypeOK, NEW d \in Device
  PROVE  /\ cache[d] \in Copy /\ queue[d] \in Seq(Mutation) /\ view[d] \in View
         /\ main[d] \in Seq(Task) /\ screens[d] \in Seq(BOOLEAN)
         /\ listeners[d] \in Seq(Screen) /\ mySwitch[d] \in BOOLEAN
         /\ user \in UserDoc
BY DEF TypeOK, Copy, View

LEMMA Changed ==
  ASSUME NEW S, NEW f \in [Device -> S], NEW d \in Device, NEW x \in S, NEW g,
         g = [f EXCEPT ![d] = x]
  PROVE  g \in [Device -> S] /\ g[d] = x /\ \A e \in Device \ {d} : g[e] = f[e]
OBVIOUS

LEMMA Unaltered ==
  ASSUME NEW S, NEW f \in [Device -> S], NEW d \in Device
  PROVE  f = [f EXCEPT ![d] = f[d]]
OBVIOUS

\* Device d, and no other, gets these values.
Becomes(d, c, q, v, ts, s, ls, my) ==
  /\ cache' = [cache EXCEPT ![d] = c]
  /\ queue' = [queue EXCEPT ![d] = q]
  /\ view' = [view EXCEPT ![d] = v]
  /\ main' = [main EXCEPT ![d] = ts]
  /\ screens' = [screens EXCEPT ![d] = s]
  /\ listeners' = [listeners EXCEPT ![d] = ls]
  /\ mySwitch' = [mySwitch EXCEPT ![d] = my]

\* The server's document and the counters, and no refusal is taken back.
Others ==
  /\ user' \in UserDoc /\ taps' \in 0..MaxTaps
  /\ rejects' \in 0..MaxRejects /\ faults' \in 0..MaxFaults
  /\ rejects' = 0 => rejects = 0

\* A step that gives one device values that keep its invariant keeps the
\* invariant.
LEMMA DeviceStep ==
  ASSUME IInv, NEW d \in Device,
         NEW c, NEW q, NEW v, NEW ts, NEW s, NEW ls, NEW my,
         Becomes(d, c, q, v, ts, s, ls, my), Others,
         DeviceType(c, q, v, ts, s, ls, my),
         DeviceInv(c, q, v, ts, s, ls, my, rejects' = 0)
  PROVE  IInv'
<1>1. cache' \in [Device -> Copy] /\ cache'[d] = c
      /\ \A e \in Device \ {d} : cache'[e] = cache[e]
  BY Changed DEF IInv, TypeOK, Copy, DeviceType, Becomes
<1>2. queue' \in [Device -> Seq(Mutation)] /\ queue'[d] = q
      /\ \A e \in Device \ {d} : queue'[e] = queue[e]
  BY Changed DEF IInv, TypeOK, DeviceType, Becomes
<1>3. view' \in [Device -> View] /\ view'[d] = v
      /\ \A e \in Device \ {d} : view'[e] = view[e]
  BY Changed DEF IInv, TypeOK, View, DeviceType, Becomes
<1>4. main' \in [Device -> Seq(Task)] /\ main'[d] = ts
      /\ \A e \in Device \ {d} : main'[e] = main[e]
  BY Changed DEF IInv, TypeOK, DeviceType, Becomes
<1>5. screens' \in [Device -> Seq(BOOLEAN)] /\ screens'[d] = s
      /\ \A e \in Device \ {d} : screens'[e] = screens[e]
  BY Changed DEF IInv, TypeOK, DeviceType, Becomes
<1>6. listeners' \in [Device -> Seq(Screen)] /\ listeners'[d] = ls
      /\ \A e \in Device \ {d} : listeners'[e] = listeners[e]
  BY Changed DEF IInv, TypeOK, DeviceType, Becomes
<1>7. mySwitch' \in [Device -> BOOLEAN] /\ mySwitch'[d] = my
      /\ \A e \in Device \ {d} : mySwitch'[e] = mySwitch[e]
  BY Changed DEF IInv, TypeOK, DeviceType, Becomes
<1>8. TypeOK'
  BY <1>1, <1>2, <1>3, <1>4, <1>5, <1>6, <1>7 DEF TypeOK, Copy, View, Others
<1>9. AllDevices
  BY DEF IInv
<1>10. AllDevices'
  BY <1>1, <1>2, <1>3, <1>4, <1>5, <1>6, <1>7, <1>9, OneDevice DEF Others
<1>. QED
  BY <1>8, <1>10 DEF IInv

LEMMA RefreshedStep ==
  ASSUME IInv, NEW d \in Device, NEW c \in Copy, NEW q \in Seq(Mutation),
         NEW ts \in Seq(Task), Refreshed(d, c, q, ts),
         UNCHANGED <<user, screens, listeners, mySwitch, taps, faults>>,
         rejects' \in 0..MaxRejects, rejects' = 0 => rejects = 0,
         DeviceInv(c, q, NewView(c, q, view[d]),
                   NewTasks(view[d], NewView(c, q, view[d]), ts, listeners[d]),
                   screens[d], listeners[d], mySwitch[d], rejects' = 0)
  PROVE  IInv'
<1> DEFINE v == NewView(c, q, view[d])
           us == NewTasks(view[d], v, ts, listeners[d])
<1>1. /\ cache' = [cache EXCEPT ![d] = c] /\ queue' = [queue EXCEPT ![d] = q]
      /\ view' = [view EXCEPT ![d] = v] /\ main' = [main EXCEPT ![d] = us]
  BY RefreshedIs
<1>2. TypeOK
  BY DEF IInv
<1>3. /\ view[d] \in View /\ screens[d] \in Seq(BOOLEAN)
      /\ listeners[d] \in Seq(Screen) /\ mySwitch[d] \in BOOLEAN
  BY <1>2, Typed
<1>4. v \in View /\ us \in Seq(Task)
  BY <1>3, RefreshedType
<1>5. DeviceInv(c, q, v, us, screens[d], listeners[d], mySwitch[d], rejects' = 0)
  OBVIOUS
<1>. HIDE DEF v, us
<1>6. /\ screens' = [screens EXCEPT ![d] = screens[d]]
      /\ listeners' = [listeners EXCEPT ![d] = listeners[d]]
      /\ mySwitch' = [mySwitch EXCEPT ![d] = mySwitch[d]]
  BY <1>2, Unaltered DEF TypeOK
<1>7. /\ user' \in UserDoc /\ taps' \in 0..MaxTaps /\ faults' \in 0..MaxFaults
  BY <1>2 DEF TypeOK
<1>8. DeviceType(c, q, v, us, screens[d], listeners[d], mySwitch[d])
  BY <1>3, <1>4 DEF DeviceType
<1>. QED
  <2>1. Becomes(d, c, q, v, us, screens[d], listeners[d], mySwitch[d])
    BY <1>1, <1>6 DEF Becomes
  <2>2. Others
    BY <1>7 DEF Others
  <2>. QED
    BY <1>5, <1>8, <2>1, <2>2, DeviceStep

\* The invariant of one device, with its types.
LEMMA DeviceHas ==
  ASSUME IInv, NEW d \in Device
  PROVE  /\ TypeOK
         /\ DeviceInv(cache[d], queue[d], view[d], main[d], screens[d], listeners[d],
                      mySwitch[d], rejects = 0)
         /\ \A f \in {cache, queue, view, main, screens, listeners, mySwitch} :
              f = [f EXCEPT ![d] = f[d]]
         /\ taps \in 0..MaxTaps /\ rejects \in 0..MaxRejects /\ faults \in 0..MaxFaults
<1>1. TypeOK
  BY DEF IInv
<1>2. /\ cache = [cache EXCEPT ![d] = cache[d]]
      /\ queue = [queue EXCEPT ![d] = queue[d]]
      /\ view = [view EXCEPT ![d] = view[d]]
      /\ main = [main EXCEPT ![d] = main[d]]
      /\ screens = [screens EXCEPT ![d] = screens[d]]
      /\ listeners = [listeners EXCEPT ![d] = listeners[d]]
      /\ mySwitch = [mySwitch EXCEPT ![d] = mySwitch[d]]
  BY <1>1, Unaltered DEF TypeOK
<1>. QED
  BY <1>1, <1>2 DEF IInv, AllDevices, TypeOK

LEMMA OpenProfileStep ==
  ASSUME IInv, NEW d \in Device, OpenProfile(d)
  PROVE  IInv'
<1> DEFINE w == IF screens[d] = <<>>
                THEN Viewed(LocalDoc(cache[d], queue[d]), queue[d] # <<>>)
                ELSE view[d]
           s == Append(screens[d], mySwitch[d])
<1>1. /\ Len(screens[d]) < MaxScreens
      /\ screens' = [screens EXCEPT ![d] = s]
      /\ view' = IF screens[d] = <<>>
                 THEN [view EXCEPT ![d] = Viewed(LocalDoc(cache[d], queue[d]),
                                                 queue[d] # <<>>)]
                 ELSE view
      /\ UNCHANGED <<user, cache, queue, main, listeners, mySwitch, taps, rejects, faults>>
  BY DEF OpenProfile, counters
<1>2. view' = [view EXCEPT ![d] = w]
  <2>1. view = [view EXCEPT ![d] = view[d]]
    BY DeviceHas
  <2>. QED
    BY <1>1, <2>1
<1>3. /\ cache[d] \in Copy /\ queue[d] \in Seq(Mutation) /\ view[d] \in View
      /\ main[d] \in Seq(Task) /\ screens[d] \in Seq(BOOLEAN)
      /\ listeners[d] \in Seq(Screen) /\ mySwitch[d] \in BOOLEAN /\ user \in UserDoc
  BY DeviceHas, Typed
<1>4. DeviceInv(cache[d], queue[d], view[d], main[d], screens[d], listeners[d],
                mySwitch[d], rejects = 0)
  BY DeviceHas
<1>5. /\ w = OpenedView(cache[d], queue[d], view[d], screens[d])
      /\ Len(screens[d]) < MaxScreens
  BY <1>1 DEF OpenedView
<1>. HIDE DEF w
<1>8. ASSUME NEW accepted,
             DeviceInv(cache[d], queue[d], view[d], main[d], screens[d], listeners[d],
                       mySwitch[d], accepted)
      PROVE  /\ DeviceType(cache[d], queue[d], w, main[d], s, listeners[d], mySwitch[d])
             /\ DeviceInv(cache[d], queue[d], w, main[d], s, listeners[d], mySwitch[d],
                          accepted)
  BY <1>3, <1>5, <1>8, Opens
<1>. HIDE DEF s
<1>6. /\ cache' = [cache EXCEPT ![d] = cache[d]]
      /\ queue' = [queue EXCEPT ![d] = queue[d]]
      /\ main' = [main EXCEPT ![d] = main[d]]
      /\ listeners' = [listeners EXCEPT ![d] = listeners[d]]
      /\ mySwitch' = [mySwitch EXCEPT ![d] = mySwitch[d]]
  BY <1>1, DeviceHas
<1>7. /\ taps' \in 0..MaxTaps /\ rejects' \in 0..MaxRejects /\ faults' \in 0..MaxFaults
      /\ user' \in UserDoc /\ rejects' = rejects
  BY <1>1, <1>3, DeviceHas
<1>. QED
  <2>1. Becomes(d, cache[d], queue[d], w, main[d], s, listeners[d], mySwitch[d])
    BY <1>1, <1>2, <1>6 DEF Becomes
  <2>2. Others
    BY <1>7 DEF Others
  <2>3. DeviceInv(cache[d], queue[d], w, main[d], s, listeners[d], mySwitch[d],
                  rejects' = 0)
    BY <1>4, <1>7, <1>8
  <2>4. DeviceType(cache[d], queue[d], w, main[d], s, listeners[d], mySwitch[d])
    BY <1>4, <1>8
  <2>. QED
    BY <2>1, <2>2, <2>3, <2>4, DeviceStep

\* A counter below its bound may grow.
LEMMA Counted ==
  ASSUME NEW max \in Nat, NEW n \in 0..max, n < max
  PROVE  n + 1 \in 0..max /\ n + 1 # 0
OBVIOUS

LEMMA Bounds ==
  /\ MaxTaps \in Nat /\ MaxScreens \in Nat /\ MaxEdits \in Nat
  /\ MaxRejects \in Nat /\ MaxFaults \in Nat
BY BoundsAreNaturals

LEMMA TapStep ==
  ASSUME IInv, NEW d \in Device, Tap(d)
  PROVE  IInv'
<1> DEFINE n == Len(screens[d])
           us == Append(main[d], CallOf(n))
           s == Flipped(screens[d], n)
           ls == Append(listeners[d], n)
<1>1. /\ n > 0 /\ taps < MaxTaps /\ taps' = taps + 1
      /\ Patient => \A e \in Device : Idle(e)
      /\ screens' = [screens EXCEPT ![d] = s]
      /\ listeners' = [listeners EXCEPT ![d] = ls]
      /\ main' = [main EXCEPT ![d] = us]
      /\ UNCHANGED <<user, cache, queue, view, mySwitch, rejects, faults>>
  BY DEF Tap, Flipped, CallOf
<1>2. Waits(main[d], queue[d]) /\ Len(screens[d]) > 0
  BY <1>1 DEF Idle, Waits
<1>3. /\ cache[d] \in Copy /\ queue[d] \in Seq(Mutation) /\ view[d] \in View
      /\ main[d] \in Seq(Task) /\ screens[d] \in Seq(BOOLEAN)
      /\ listeners[d] \in Seq(Screen) /\ mySwitch[d] \in BOOLEAN /\ user \in UserDoc
  BY DeviceHas, Typed
<1>4. DeviceInv(cache[d], queue[d], view[d], main[d], screens[d], listeners[d],
                mySwitch[d], rejects = 0)
  BY DeviceHas
<1>0. us = Append(main[d], CallOf(n)) /\ s = Flipped(screens[d], n)
      /\ ls = Append(listeners[d], n)
  OBVIOUS
<1>. HIDE DEF us, s, ls
<1>5. ASSUME NEW accepted,
             DeviceInv(cache[d], queue[d], view[d], main[d], screens[d], listeners[d],
                       mySwitch[d], accepted)
      PROVE  /\ DeviceType(cache[d], queue[d], view[d], us, s, ls, mySwitch[d])
             /\ DeviceInv(cache[d], queue[d], view[d], us, s, ls, mySwitch[d], accepted)
  BY <1>0, <1>2, <1>3, <1>5, Taps
<1>6. /\ cache' = [cache EXCEPT ![d] = cache[d]]
      /\ queue' = [queue EXCEPT ![d] = queue[d]]
      /\ view' = [view EXCEPT ![d] = view[d]]
      /\ mySwitch' = [mySwitch EXCEPT ![d] = mySwitch[d]]
  BY <1>1, DeviceHas
<1>7. Becomes(d, cache[d], queue[d], view[d], us, s, ls, mySwitch[d])
  BY <1>1, <1>6 DEF Becomes
<1>8. taps' \in 0..MaxTaps
  BY <1>1, DeviceHas, Bounds, Counted
<1>9. Others
  BY <1>1, <1>3, <1>8, DeviceHas DEF Others
<1>10. DeviceInv(cache[d], queue[d], view[d], us, s, ls, mySwitch[d], rejects' = 0)
  BY <1>1, <1>4, <1>5
<1>. QED
  BY <1>4, <1>5, <1>7, <1>9, <1>10, DeviceStep

LEMMA WriteCanPlayStep ==
  ASSUME IInv, NEW d \in Device, WriteCanPlay(d)
  PROVE  IInv'
<1> DEFINE t == Head(main[d])
           r == AfterSnapshot(queue[d], main[d], screens[d])
<1>1. /\ main[d] # <<>> /\ t.kind = "snapshot"
      /\ Refreshed(d, cache[d], r, Tail(main[d]))
      /\ UNCHANGED <<user, screens, listeners, mySwitch, taps, rejects, faults>>
  BY DEF WriteCanPlay, AfterSnapshot
<1>2. /\ cache[d] \in Copy /\ queue[d] \in Seq(Mutation) /\ view[d] \in View
      /\ main[d] \in Seq(Task) /\ screens[d] \in Seq(BOOLEAN)
      /\ listeners[d] \in Seq(Screen) /\ mySwitch[d] \in BOOLEAN
  BY DeviceHas, Typed
<1>3. DeviceInv(cache[d], queue[d], view[d], main[d], screens[d], listeners[d],
                mySwitch[d], rejects = 0)
  BY DeviceHas
<1>7. main[d] # <<>> /\ Head(main[d]).kind = "snapshot"
  BY <1>1
<1>4. ASSUME NEW accepted,
             DeviceInv(cache[d], queue[d], view[d], main[d], screens[d], listeners[d],
                       mySwitch[d], accepted)
      PROVE  /\ r \in Seq(Mutation) /\ Tail(main[d]) \in Seq(Task)
             /\ DeviceInv(cache[d], r, NewView(cache[d], r, view[d]),
                          NewTasks(view[d], NewView(cache[d], r, view[d]),
                                   Tail(main[d]), listeners[d]),
                          screens[d], listeners[d], mySwitch[d], accepted)
  BY <1>2, <1>4, <1>7, Writes
<1>. HIDE DEF r, t
<1>5. /\ UNCHANGED <<user, screens, listeners, mySwitch, taps, faults>>
      /\ rejects' \in 0..MaxRejects /\ rejects' = rejects
  BY <1>1, DeviceHas
<1>6. DeviceInv(cache[d], r, NewView(cache[d], r, view[d]),
                NewTasks(view[d], NewView(cache[d], r, view[d]), Tail(main[d]),
                         listeners[d]),
                screens[d], listeners[d], mySwitch[d], rejects' = 0)
  BY <1>3, <1>4, <1>5
<1>. QED
  BY <1>1, <1>2, <1>3, <1>4, <1>5, <1>6, RefreshedStep

\* Only the queue of d, and perhaps the server's document, change.
LEMMA QueueStep ==
  ASSUME IInv, NEW d \in Device, NEW r, SameWrites(r, queue[d]),
         queue' = [queue EXCEPT ![d] = r],
         UNCHANGED <<cache, view, main, screens, listeners, mySwitch, rejects>>,
         Others
  PROVE  IInv'
<1>1. /\ cache[d] \in Copy /\ queue[d] \in Seq(Mutation) /\ view[d] \in View
      /\ main[d] \in Seq(Task) /\ screens[d] \in Seq(BOOLEAN)
      /\ listeners[d] \in Seq(Screen) /\ mySwitch[d] \in BOOLEAN
  BY DeviceHas, Typed
<1>2. DeviceInv(cache[d], queue[d], view[d], main[d], screens[d], listeners[d],
                mySwitch[d], rejects = 0)
  BY DeviceHas
<1>3. DeviceInv(cache[d], r, view[d], main[d], screens[d], listeners[d],
                mySwitch[d], rejects = 0)
  BY <1>1, <1>2, Moves
<1>4. DeviceType(cache[d], r, view[d], main[d], screens[d], listeners[d], mySwitch[d])
  BY <1>1 DEF DeviceType, SameWrites
<1>5. Becomes(d, cache[d], r, view[d], main[d], screens[d], listeners[d], mySwitch[d])
  <2>1. /\ cache' = [cache EXCEPT ![d] = cache[d]]
        /\ view' = [view EXCEPT ![d] = view[d]]
        /\ main' = [main EXCEPT ![d] = main[d]]
        /\ screens' = [screens EXCEPT ![d] = screens[d]]
        /\ listeners' = [listeners EXCEPT ![d] = listeners[d]]
        /\ mySwitch' = [mySwitch EXCEPT ![d] = mySwitch[d]]
    BY DeviceHas
  <2>. QED
    BY <2>1 DEF Becomes
<1>6. DeviceInv(cache[d], r, view[d], main[d], screens[d], listeners[d],
                mySwitch[d], rejects' = 0)
  BY <1>3
<1>. QED
  BY <1>4, <1>5, <1>6, DeviceStep

LEMMA WriteCommittedStep ==
  ASSUME IInv, NEW d \in Device, WriteCommitted(d)
  PROVE  IInv'
<1>1. PICK i \in DOMAIN queue[d] :
        /\ user' = [user EXCEPT !.canPlay = queue[d][i].canPlay]
        /\ queue' = [queue EXCEPT ![d][i].stage = "committed"]
  BY DEF WriteCommitted
<1>2. UNCHANGED <<cache, view, main, screens, listeners, mySwitch, taps, rejects, faults>>
  BY DEF WriteCommitted, counters
<1> DEFINE r == [queue[d] EXCEPT ![i].stage = "committed"]
<1>3. queue[d] \in Seq(Mutation) /\ user \in UserDoc
  BY DeviceHas, Typed
<1>4. SameWrites(r, queue[d])
  BY <1>3, CommittedWrites
<1>5. queue' = [queue EXCEPT ![d] = r]
  BY <1>1
<1>6. user' \in UserDoc
  <2>1. queue[d][i].canPlay \in BOOLEAN
    <3>1. queue[d][i] \in Mutation
      BY <1>3, Queued
    <3>. QED
      BY <3>1, WriteFacts
  <2>. QED
    BY <1>1, <1>3, <2>1 DEF UserDoc
<1>. HIDE DEF r
<1>7. Others
  BY <1>2, <1>6, DeviceHas DEF Others
<1>. QED
  BY <1>2, <1>4, <1>5, <1>7, QueueStep

LEMMA StreamBreaksStep ==
  ASSUME IInv, NEW d \in Device, StreamBreaks(d)
  PROVE  IInv'
<1>1. /\ faults < MaxFaults /\ faults' = faults + 1
      /\ queue' = [queue EXCEPT ![d] = Resent(queue[d])]
      /\ UNCHANGED <<user, cache, view, main, screens, listeners, mySwitch, taps, rejects>>
  BY DEF StreamBreaks
<1>2. queue[d] \in Seq(Mutation) /\ user \in UserDoc
  BY DeviceHas, Typed
<1>3. SameWrites(Resent(queue[d]), queue[d])
  BY <1>2, ResentWrites
<1>4. faults' \in 0..MaxFaults
  BY <1>1, DeviceHas, Bounds, Counted
<1>5. Others
  BY <1>1, <1>2, <1>4, DeviceHas DEF Others
<1>. QED
  BY <1>1, <1>3, <1>5, QueueStep

LEMMA WriteAcknowledgedStep ==
  ASSUME IInv, NEW d \in Device, WriteAcknowledged(d)
  PROVE  IInv'
<1> DEFINE m == Head(queue[d])
           c == Acknowledged(cache[d], m, [cache[d].doc EXCEPT !.canPlay = m.canPlay])
           r == Tail(queue[d])
           us == AfterAnswer(main[d], queue[d])
<1>1. /\ queue[d] # <<>>
      /\ Refreshed(d, c, r, us)
      /\ UNCHANGED <<user, screens, listeners, mySwitch, taps, rejects, faults>>
  BY DEF WriteAcknowledged, counters, AfterAnswer
<1>2. /\ cache[d] \in Copy /\ queue[d] \in Seq(Mutation) /\ view[d] \in View
      /\ main[d] \in Seq(Task) /\ screens[d] \in Seq(BOOLEAN)
      /\ listeners[d] \in Seq(Screen) /\ mySwitch[d] \in BOOLEAN
  BY DeviceHas, Typed
<1>3. DeviceInv(cache[d], queue[d], view[d], main[d], screens[d], listeners[d],
                mySwitch[d], rejects = 0)
  BY DeviceHas
<1>4. c \in Copy
  <2>1. m.canPlay \in BOOLEAN
    <3>1. m \in Mutation
      BY <1>1, <1>2, Dequeued
    <3>. QED
      BY <3>1, WriteFacts
  <2>2. cache[d].doc \in UserDoc
    BY <1>2 DEF Copy
  <2>3. [cache[d].doc EXCEPT !.canPlay = m.canPlay] \in UserDoc
    BY <2>1, <2>2 DEF UserDoc
  <2>4. ASSUME NEW x \in UserDoc PROVE Cached(x, TRUE) \in Copy
    BY DEF Cached, Copy
  <2>. QED
    BY <1>2, <2>3, <2>4 DEF Acknowledged
<1>5. queue[d] # <<>>
  BY <1>1
<1>. HIDE DEF c, m
<1>6. ASSUME NEW accepted,
             DeviceInv(cache[d], queue[d], view[d], main[d], screens[d], listeners[d],
                       mySwitch[d], accepted)
      PROVE  /\ r \in Seq(Mutation) /\ us \in Seq(Task)
             /\ DeviceInv(c, r, NewView(c, r, view[d]),
                          NewTasks(view[d], NewView(c, r, view[d]), us, listeners[d]),
                          screens[d], listeners[d], mySwitch[d], accepted)
  BY <1>2, <1>4, <1>5, <1>6, Acknowledges
<1>7. DeviceInv(c, r, NewView(c, r, view[d]),
                NewTasks(view[d], NewView(c, r, view[d]), us, listeners[d]),
                screens[d], listeners[d], mySwitch[d], rejects' = 0)
  BY <1>1, <1>3, <1>6
<1>8. r \in Seq(Mutation) /\ us \in Seq(Task)
  BY <1>3, <1>6
<1>9. /\ UNCHANGED <<user, screens, listeners, mySwitch, taps, faults>>
      /\ rejects' \in 0..MaxRejects /\ rejects' = rejects
  BY <1>1, DeviceHas
<1>. QED
  BY <1>1, <1>4, <1>7, <1>8, <1>9, RefreshedStep

LEMMA WriteRejectedStep ==
  ASSUME IInv, NEW d \in Device, WriteRejected(d)
  PROVE  IInv'
<1> DEFINE r == Tail(queue[d])
<1>1. /\ queue[d] # <<>> /\ rejects < MaxRejects /\ rejects' = rejects + 1
      /\ Refreshed(d, cache[d], r, main[d])
      /\ UNCHANGED <<user, screens, listeners, mySwitch, taps, faults>>
  BY DEF WriteRejected
<1>2. /\ cache[d] \in Copy /\ queue[d] \in Seq(Mutation) /\ view[d] \in View
      /\ main[d] \in Seq(Task) /\ screens[d] \in Seq(BOOLEAN)
      /\ listeners[d] \in Seq(Screen) /\ mySwitch[d] \in BOOLEAN
  BY DeviceHas, Typed
<1>3. DeviceInv(cache[d], queue[d], view[d], main[d], screens[d], listeners[d],
                mySwitch[d], rejects = 0)
  BY DeviceHas
<1>4. rejects' \in 0..MaxRejects /\ rejects' # 0 /\ (rejects' = 0) = FALSE
  BY <1>1, DeviceHas, Bounds, Counted
<1>5. queue[d] # <<>>
  BY <1>1
<1>6. ASSUME NEW accepted, Refused(accepted),
             DeviceInv(cache[d], queue[d], view[d], main[d], screens[d], listeners[d],
                       mySwitch[d], accepted)
      PROVE  /\ r \in Seq(Mutation)
             /\ DeviceInv(cache[d], r, NewView(cache[d], r, view[d]),
                          NewTasks(view[d], NewView(cache[d], r, view[d]), main[d],
                                   listeners[d]),
                          screens[d], listeners[d], mySwitch[d], accepted)
  BY <1>2, <1>5, <1>6, Rejects
<1>7. DeviceInv(cache[d], queue[d], view[d], main[d], screens[d], listeners[d],
                mySwitch[d], rejects' = 0)
  BY <1>3, <1>4 DEF DeviceInv, FrontLast
<1>. HIDE DEF r
<1>8. /\ r \in Seq(Mutation)
      /\ DeviceInv(cache[d], r, NewView(cache[d], r, view[d]),
                   NewTasks(view[d], NewView(cache[d], r, view[d]), main[d], listeners[d]),
                   screens[d], listeners[d], mySwitch[d], rejects' = 0)
  <2>1. Refused(rejects' = 0)
    BY <1>4 DEF Refused
  <2>. QED
    BY <1>6, <1>7, <2>1
<1>. QED
  BY <1>1, <1>2, <1>4, <1>8, RefreshedStep

LEMMA WatchStep ==
  ASSUME IInv, NEW d \in Device, Watch(d)
  PROVE  IInv'
<1> DEFINE c == Cached(user, FALSE)
           r == WithWatched(queue[d])
<1>1. /\ Refreshed(d, c, r, main[d])
      /\ UNCHANGED <<user, screens, listeners, mySwitch, taps, rejects, faults>>
  BY DEF Watch, counters
<1>2. /\ cache[d] \in Copy /\ queue[d] \in Seq(Mutation) /\ view[d] \in View
      /\ main[d] \in Seq(Task) /\ screens[d] \in Seq(BOOLEAN)
      /\ listeners[d] \in Seq(Screen) /\ mySwitch[d] \in BOOLEAN /\ user \in UserDoc
  BY DeviceHas, Typed
<1>3. DeviceInv(cache[d], queue[d], view[d], main[d], screens[d], listeners[d],
                mySwitch[d], rejects = 0)
  BY DeviceHas
<1>4. c \in Copy
  BY <1>2 DEF Cached, Copy
<1>5. SameWrites(r, queue[d])
  BY <1>2, WatchedWrites
<1>6. r \in Seq(Mutation)
  BY <1>5 DEF SameWrites
<1>. HIDE DEF c, r
<1>7. ASSUME NEW accepted,
             DeviceInv(cache[d], queue[d], view[d], main[d], screens[d], listeners[d],
                       mySwitch[d], accepted)
      PROVE  DeviceInv(c, r, NewView(c, r, view[d]),
                       NewTasks(view[d], NewView(c, r, view[d]), main[d], listeners[d]),
                       screens[d], listeners[d], mySwitch[d], accepted)
  BY <1>2, <1>4, <1>5, <1>7, Watches
<1>8. DeviceInv(c, r, NewView(c, r, view[d]),
                NewTasks(view[d], NewView(c, r, view[d]), main[d], listeners[d]),
                screens[d], listeners[d], mySwitch[d], rejects' = 0)
  BY <1>1, <1>3, <1>7
<1>9. /\ UNCHANGED <<user, screens, listeners, mySwitch, taps, faults>>
      /\ rejects' \in 0..MaxRejects /\ rejects' = rejects
  BY <1>1, DeviceHas
<1>. QED
  BY <1>1, <1>2, <1>4, <1>6, <1>8, <1>9, RefreshedStep

LEMMA WriteCompletedStep ==
  ASSUME IInv, NEW d \in Device, WriteCompleted(d)
  PROVE  IInv'
<1> DEFINE t == Head(main[d])
           us == AfterCompletion(main[d], screens[d])
<1>1. /\ main[d] # <<>> /\ t.kind = "completion"
      /\ main' = [main EXCEPT ![d] = us]
      /\ UNCHANGED <<user, cache, queue, view, screens, listeners, mySwitch,
                     taps, rejects, faults>>
  BY DEF WriteCompleted, AfterCompletion, BlockOf, counters
<1>2. /\ cache[d] \in Copy /\ queue[d] \in Seq(Mutation) /\ view[d] \in View
      /\ main[d] \in Seq(Task) /\ screens[d] \in Seq(BOOLEAN)
      /\ listeners[d] \in Seq(Screen) /\ mySwitch[d] \in BOOLEAN /\ user \in UserDoc
  BY DeviceHas, Typed
<1>3. DeviceInv(cache[d], queue[d], view[d], main[d], screens[d], listeners[d],
                mySwitch[d], rejects = 0)
  BY DeviceHas
<1>5. main[d] # <<>> /\ Head(main[d]).kind = "completion"
  BY <1>1
<1>6. ASSUME NEW accepted,
             DeviceInv(cache[d], queue[d], view[d], main[d], screens[d], listeners[d],
                       mySwitch[d], accepted)
      PROVE  /\ us \in Seq(Task)
             /\ DeviceInv(cache[d], queue[d], view[d], us, screens[d], listeners[d],
                          mySwitch[d], accepted)
  BY <1>2, <1>5, <1>6, Completes
<1>7. /\ us \in Seq(Task)
      /\ DeviceInv(cache[d], queue[d], view[d], us, screens[d], listeners[d],
                   mySwitch[d], rejects' = 0)
  BY <1>1, <1>3, <1>6
<1>8. Becomes(d, cache[d], queue[d], view[d], us, screens[d], listeners[d], mySwitch[d])
  <2>1. /\ cache' = [cache EXCEPT ![d] = cache[d]]
        /\ queue' = [queue EXCEPT ![d] = queue[d]]
        /\ view' = [view EXCEPT ![d] = view[d]]
        /\ screens' = [screens EXCEPT ![d] = screens[d]]
        /\ listeners' = [listeners EXCEPT ![d] = listeners[d]]
        /\ mySwitch' = [mySwitch EXCEPT ![d] = mySwitch[d]]
    BY <1>1, DeviceHas
  <2>. QED
    BY <1>1, <2>1 DEF Becomes
<1>9. Others
  BY <1>1, <1>2, DeviceHas DEF Others
<1>10. DeviceType(cache[d], queue[d], view[d], us, screens[d], listeners[d], mySwitch[d])
  BY <1>2, <1>7 DEF DeviceType
<1>. QED
  BY <1>7, <1>8, <1>9, <1>10, DeviceStep

LEMMA ShowSwitchStep ==
  ASSUME IInv, NEW d \in Device, ShowSwitch(d)
  PROVE  IInv'
<1> DEFINE t == Head(main[d])
           s == [screens[d] EXCEPT ![t.screen] = t.on]
<1>1. /\ main[d] # <<>> /\ t.kind = "show"
      /\ mySwitch' = [mySwitch EXCEPT ![d] = t.on]
      /\ screens' = [screens EXCEPT ![d] = s]
      /\ main' = [main EXCEPT ![d] = Tail(main[d])]
      /\ UNCHANGED <<user, cache, queue, view, listeners, taps, rejects, faults>>
  BY DEF ShowSwitch, counters
<1>2. /\ cache[d] \in Copy /\ queue[d] \in Seq(Mutation) /\ view[d] \in View
      /\ main[d] \in Seq(Task) /\ screens[d] \in Seq(BOOLEAN)
      /\ listeners[d] \in Seq(Screen) /\ mySwitch[d] \in BOOLEAN /\ user \in UserDoc
  BY DeviceHas, Typed
<1>3. DeviceInv(cache[d], queue[d], view[d], main[d], screens[d], listeners[d],
                mySwitch[d], rejects = 0)
  BY DeviceHas
<1>4. /\ s = [screens[d] EXCEPT ![Head(main[d]).screen] = Head(main[d]).on]
      /\ main[d] # <<>> /\ Head(main[d]).kind = "show" /\ t = Head(main[d])
  BY <1>1
<1>. HIDE DEF t, s
<1>5. ASSUME NEW accepted,
             DeviceInv(cache[d], queue[d], view[d], main[d], screens[d], listeners[d],
                       mySwitch[d], accepted)
      PROVE  /\ DeviceType(cache[d], queue[d], view[d], Tail(main[d]), s, listeners[d],
                           Head(main[d]).on)
             /\ DeviceInv(cache[d], queue[d], view[d], Tail(main[d]), s, listeners[d],
                          Head(main[d]).on, accepted)
  BY <1>2, <1>4, <1>5, Shows
<1>6. /\ DeviceType(cache[d], queue[d], view[d], Tail(main[d]), s, listeners[d], t.on)
      /\ DeviceInv(cache[d], queue[d], view[d], Tail(main[d]), s, listeners[d], t.on,
                   rejects' = 0)
  BY <1>1, <1>3, <1>4, <1>5
<1>7. Becomes(d, cache[d], queue[d], view[d], Tail(main[d]), s, listeners[d], t.on)
  <2>1. /\ cache' = [cache EXCEPT ![d] = cache[d]]
        /\ queue' = [queue EXCEPT ![d] = queue[d]]
        /\ view' = [view EXCEPT ![d] = view[d]]
        /\ listeners' = [listeners EXCEPT ![d] = listeners[d]]
    BY <1>1, DeviceHas
  <2>. QED
    BY <1>1, <2>1 DEF Becomes
<1>8. Others
  BY <1>1, <1>2, DeviceHas DEF Others
<1>. QED
  BY <1>6, <1>7, <1>8, DeviceStep

LEMMA RestartStep ==
  ASSUME IInv, NEW d \in Device, Restart(d)
  PROVE  IInv'
<1> DEFINE r == Forgotten(queue[d])
<1>1. /\ faults < MaxFaults /\ faults' = faults + 1
      /\ main' = [main EXCEPT ![d] = <<>>]
      /\ screens' = [screens EXCEPT ![d] = <<>>]
      /\ listeners' = [listeners EXCEPT ![d] = <<>>]
      /\ mySwitch' = [mySwitch EXCEPT ![d] = FALSE]
      /\ view' = [view EXCEPT ![d] = Closed]
      /\ queue' = [queue EXCEPT ![d] = r]
      /\ UNCHANGED <<user, cache, taps, rejects>>
  BY DEF Restart, Forgotten
<1>2. cache[d] \in Copy /\ queue[d] \in Seq(Mutation) /\ user \in UserDoc
  BY DeviceHas, Typed
<1>3. DeviceType(cache[d], r, Closed, <<>>, <<>>, <<>>, FALSE)
  BY <1>2, Restarts
<1>4. DeviceInv(cache[d], r, Closed, <<>>, <<>>, <<>>, FALSE, rejects' = 0)
  <2>1. ASSUME NEW accepted
        PROVE  DeviceInv(cache[d], r, Closed, <<>>, <<>>, <<>>, FALSE, accepted)
    BY <1>2, Restarts
  <2>. QED
    BY <2>1
<1>. HIDE DEF r
<1>5. Becomes(d, cache[d], r, Closed, <<>>, <<>>, <<>>, FALSE)
  <2>1. cache' = [cache EXCEPT ![d] = cache[d]]
    BY <1>1, DeviceHas
  <2>. QED
    BY <1>1, <2>1 DEF Becomes
<1>6. faults' \in 0..MaxFaults
  BY <1>1, DeviceHas, Bounds, Counted
<1>7. Others
  BY <1>1, <1>2, <1>6, DeviceHas DEF Others
<1>. QED
  BY <1>3, <1>4, <1>5, <1>7, DeviceStep

\* The server's document changes by itself.
LEMMA OtherFieldChangesStep ==
  ASSUME IInv, OtherFieldChanges
  PROVE  IInv'
<1>1. /\ user.edits < MaxEdits
      /\ user' = [user EXCEPT !.edits = user.edits + 1]
      /\ UNCHANGED <<cache, queue, view, main, screens, listeners, mySwitch,
                     taps, rejects, faults>>
  BY DEF OtherFieldChanges, counters
<1>2. user' \in UserDoc
  <2>1. user \in UserDoc
    BY DEF IInv, TypeOK
  <2>2. user.edits + 1 \in 0..MaxEdits
    BY <1>1, <2>1, Bounds, Counted DEF UserDoc
  <2>. QED
    BY <1>1, <2>1, <2>2 DEF UserDoc
<1>3. TypeOK'
  BY <1>1, <1>2 DEF IInv, TypeOK
<1>4. AllDevices'
  BY <1>1 DEF IInv, AllDevices
<1>. QED
  BY <1>3, <1>4 DEF IInv

-------------------------------------------------------------------------------
(* The invariant of the specification *)

\* A device on which nothing happened yet.
LEMMA Starts ==
  ASSUME NEW c \in Copy, NEW accepted
  PROVE  /\ DeviceType(c, <<>>, Closed, <<>>, <<>>, <<>>, FALSE)
         /\ DeviceInv(c, <<>>, Closed, <<>>, <<>>, <<>>, FALSE, accepted)
<1>1. Closed \in View
  BY BoundsAreNaturals DEF Closed, NewDoc, Viewed, View, UserDoc
<1>2. DeviceType(c, <<>>, Closed, <<>>, <<>>, <<>>, FALSE)
  BY <1>1, EmptySeq DEF DeviceType
<1>3. Exist(<<>>, <<>>, <<>>, <<>>)
  <2>1. MaxScreens \in Nat /\ Len(<<>>) = 0
    BY BoundsAreNaturals
  <2>. QED
    BY <2>1 DEF Exist
<1>4. /\ Fresh(<<>>, <<>>, <<>>, <<>>) /\ ~IsTapped(<<>>, <<>>)
      /\ Current(c, <<>>, Closed, <<>>)
  BY DEF Fresh, IsTapped, Current
<1>. QED
  BY <1>2, <1>3, <1>4 DEF DeviceInv

LEMMA InitIInv == Init => IInv
<1> SUFFICES ASSUME Init PROVE IInv
  OBVIOUS
<1>1. PICK on \in BOOLEAN :
        /\ user = NewDoc(on)
        /\ cache = [d \in Device |-> Cached(NewDoc(on), FALSE)]
  BY DEF Init
<1>2. NewDoc(on) \in UserDoc /\ Cached(NewDoc(on), FALSE) \in Copy
  BY BoundsAreNaturals DEF NewDoc, UserDoc, Cached, Copy
<1>3. /\ queue = [d \in Device |-> <<>>] /\ view = [d \in Device |-> Closed]
      /\ main = [d \in Device |-> <<>>] /\ screens = [d \in Device |-> <<>>]
      /\ listeners = [d \in Device |-> <<>>] /\ mySwitch = [d \in Device |-> FALSE]
      /\ taps = 0 /\ rejects = 0 /\ faults = 0
  BY DEF Init
<1>4. Closed \in View
  BY <1>2, Starts DEF DeviceType
<1>5. /\ cache \in [Device -> Copy] /\ queue \in [Device -> Seq(Mutation)]
      /\ view \in [Device -> View] /\ main \in [Device -> Seq(Task)]
      /\ screens \in [Device -> Seq(BOOLEAN)] /\ listeners \in [Device -> Seq(Screen)]
      /\ mySwitch \in [Device -> BOOLEAN]
  BY <1>1, <1>2, <1>3, <1>4, EmptySeq
<1>6. taps \in 0..MaxTaps /\ rejects \in 0..MaxRejects /\ faults \in 0..MaxFaults
  BY <1>3, Bounds
<1>7. TypeOK
  BY <1>1, <1>2, <1>5, <1>6 DEF TypeOK, Copy, View
<1>8. ASSUME NEW d \in Device
      PROVE  DeviceInv(cache[d], queue[d], view[d], main[d], screens[d], listeners[d],
                       mySwitch[d], rejects = 0)
  <2>1. ASSUME NEW c \in Copy, NEW accepted
        PROVE  DeviceInv(c, <<>>, Closed, <<>>, <<>>, <<>>, FALSE, accepted)
    BY Starts
  <2>2. /\ cache[d] \in Copy /\ queue[d] = <<>> /\ view[d] = Closed /\ main[d] = <<>>
        /\ screens[d] = <<>> /\ listeners[d] = <<>> /\ mySwitch[d] = FALSE
    BY <1>3, <1>5
  <2>. QED
    BY <2>1, <2>2
<1>9. AllDevices
  BY <1>8 DEF AllDevices
<1>. QED
  BY <1>7, <1>9 DEF IInv

LEMMA NextIInv == IInv /\ [Next]_vars => IInv'
<1> SUFFICES ASSUME IInv, [Next]_vars PROVE IInv'
  OBVIOUS
<1>1. ASSUME NEW d \in Device, OpenProfile(d) PROVE IInv'
  BY <1>1, OpenProfileStep
<1>2. ASSUME NEW d \in Device, Tap(d) PROVE IInv'
  BY <1>2, TapStep
<1>3. ASSUME NEW d \in Device, WriteCanPlay(d) PROVE IInv'
  BY <1>3, WriteCanPlayStep
<1>4. ASSUME NEW d \in Device, WriteCommitted(d) PROVE IInv'
  BY <1>4, WriteCommittedStep
<1>5. ASSUME NEW d \in Device, WriteAcknowledged(d) PROVE IInv'
  BY <1>5, WriteAcknowledgedStep
<1>6. ASSUME NEW d \in Device, WriteRejected(d) PROVE IInv'
  BY <1>6, WriteRejectedStep
<1>7. ASSUME NEW d \in Device, WriteCompleted(d) PROVE IInv'
  BY <1>7, WriteCompletedStep
<1>8. ASSUME NEW d \in Device, ShowSwitch(d) PROVE IInv'
  BY <1>8, ShowSwitchStep
<1>9. ASSUME NEW d \in Device, Watch(d) PROVE IInv'
  BY <1>9, WatchStep
<1>10. CASE OtherFieldChanges
  BY <1>10, OtherFieldChangesStep
<1>11. ASSUME NEW d \in Device, StreamBreaks(d) PROVE IInv'
  BY <1>11, StreamBreaksStep
<1>12. ASSUME NEW d \in Device, Restart(d) PROVE IInv'
  BY <1>12, RestartStep
<1>13. CASE UNCHANGED vars
  <2>1. UNCHANGED <<user, cache, queue, view, main, screens, listeners, mySwitch,
                    taps, rejects, faults>>
    BY <1>13 DEF vars
  <2>2. TypeOK'
    BY <2>1 DEF IInv, TypeOK
  <2>3. AllDevices'
    BY <2>1 DEF IInv, AllDevices
  <2>. QED
    BY <2>2, <2>3 DEF IInv
<1>. QED
  BY <1>1, <1>2, <1>3, <1>4, <1>5, <1>6, <1>7, <1>8, <1>9, <1>10, <1>11, <1>12, <1>13
  DEF Next

LEMMA Invariant == Spec => []IInv
BY InitIInv, NextIInv, PTL DEF Spec

-------------------------------------------------------------------------------
(* Theorems *)

\* Every variable keeps its type, whatever the devices and the bounds.
THEOREM TypeCorrect == Spec => []TypeOK
<1>1. IInv => TypeOK
  BY DEF IInv
<1>. QED
  BY <1>1, Invariant, PTL

\* Everything in flight is in order: what the listeners were told last is
\* current or waits for Watch; listeners, tasks and writes are about switches
\* of the running process, so that screens[d][screen], which the listener of
\* updateAvailableSwitch and the completion of its write read, is there; and
\* for a user who waits between taps no write and no block holds a position
\* that its switch has left, and the newest tapped switch has the last word.
THEOREM InOrder == Spec => []InFlightInOrder
<1>1. IInv => InFlightInOrder
  BY Devicewise DEF IInv, InFlightInOrder
<1>. QED
  BY <1>1, Invariant, PTL

\* A device at rest was told the server's document, and a tapped switch is
\* open on it.
LEMMA AtRest ==
  ASSUME IInv, Patient, NEW d \in Device, Idle(d), Tapped(d)
  PROVE  /\ user.canPlay = Front(d)
         /\ rejects = 0 => mySwitch[d] = Front(d)
<1>1. main[d] = <<>> /\ queue[d] = <<>> /\ cache[d] = Cached(user, FALSE)
  BY DEF Idle
<1>2. /\ cache[d] \in Copy /\ queue[d] \in Seq(Mutation)
      /\ screens[d] \in Seq(BOOLEAN) /\ listeners[d] \in Seq(Screen)
  BY DeviceHas, Typed
<1>3. ViewIsCurrent /\ FrontIsLast
  BY Devicewise DEF IInv
<1>4. screens[d] # <<>>
  <2>1. PICK i \in DOMAIN listeners[d] : listeners[d][i] = Len(screens[d])
    BY DEF Tapped
  <2>2. Len(screens[d]) # 0
    BY <1>2, <2>1, ListenerFacts
  <2>. QED
    BY <1>2, <2>2, ListenerFacts
<1>5. view[d].doc = user
  <2>1. cache[d].committed = FALSE /\ cache[d].doc = user
    BY <1>1 DEF Cached
  <2>2. LocalDoc(cache[d], queue[d]) = cache[d].doc
    BY <1>1, <1>2, LocalDocIs
  <2>. QED
    BY <1>3, <1>4, <2>1, <2>2 DEF ViewIsCurrent
<1>6. ASSUME NEW kind, NEW screen PROVE ~LastTask(main[d], kind, screen)
  BY <1>1 DEF LastTask
<1>7. /\ view[d].doc.canPlay = Front(d)
      /\ rejects = 0 =>
           LastLink(main[d], queue[d], Len(screens[d]), mySwitch[d] = Front(d))
  BY <1>3, <1>6 DEF FrontIsLast
<1>8. ASSUME LastLink(main[d], queue[d], Len(screens[d]), mySwitch[d] = Front(d))
      PROVE  mySwitch[d] = Front(d)
  BY <1>1, <1>6, <1>8 DEF LastLink, LastWrite, LastShow
<1>. QED
  BY <1>5, <1>7, <1>8

\* Once a user who waits sees nothing in flight any more, the availability
\* that others are shown is the one of the switch the user tapped, through
\* refused writes, broken streams, restarts and any number of screens and
\* devices; and the next profile screen starts from that position, unless a
\* write was refused.
THEOREM AllCopiesAgree ==
  ASSUME Patient
  PROVE  Spec => []CopiesAgree
<1>1. IInv => CopiesAgree
  BY AtRest DEF CopiesAgree, SettledAgrees, SettledRemembers
<1>. QED
  BY <1>1, Invariant, PTL

\* The step that stores a position for a device on which a switch was tapped.
LEMMA StoredStep ==
  ASSUME Patient, MaxScreens = 1
  PROVE  IInv /\ [Next]_vars => [ChangeIsShown]_vars
<1>1. SUFFICES ASSUME IInv, Next, user'.canPlay # user.canPlay
               PROVE  \E d \in Device : \/ screens[d] = <<>>
                                        \/ ~Tapped(d)
                                        \/ user'.canPlay = Front(d)
  BY DEF ChangeIsShown
<1>2. user \in UserDoc
  BY <1>1 DEF IInv, TypeOK
<1>3. PICK d \in Device : WriteCommitted(d)
  <2>1. user' # user
    BY <1>1
  <2>2. ~OtherFieldChanges
    <3>1. OtherFieldChanges => user'.canPlay = user.canPlay
      BY <1>2 DEF OtherFieldChanges, UserDoc
    <3>. QED
      BY <1>1, <3>1
  <2>. QED
    BY <1>1, <2>1, <2>2 DEF Next, OpenProfile, Tap, WriteCanPlay, WriteAcknowledged,
       WriteRejected, WriteCompleted, ShowSwitch, Watch, StreamBreaks, Restart
<1>4. PICK i \in DOMAIN queue[d] :
        user' = [user EXCEPT !.canPlay = queue[d][i].canPlay]
  BY <1>3 DEF WriteCommitted
<1>5. user'.canPlay = queue[d][i].canPlay
  BY <1>2, <1>4 DEF UserDoc
<1>6. ASSUME screens[d] # <<>>, Tapped(d) PROVE queue[d][i].canPlay = Front(d)
  <2>1. /\ queue[d] \in Seq(Mutation) /\ screens[d] \in Seq(BOOLEAN)
        /\ listeners[d] \in Seq(Screen) /\ main[d] \in Seq(Task)
    BY <1>1, DeviceHas, Typed
  <2>2. SwitchesExist /\ NothingStale
    BY <1>1, Devicewise DEF IInv
  <2>3. Len(screens[d]) = 1
    <3>1. Len(screens[d]) \in Nat /\ Len(screens[d]) # 0
      BY <1>6, <2>1, ListenerFacts
    <3>2. Len(screens[d]) <= MaxScreens
      BY <2>2 DEF SwitchesExist
    <3>3. ASSUME NEW n \in Nat, n # 0, n <= 1 PROVE n = 1
      BY <3>3
    <3>. QED
      BY <3>1, <3>2, <3>3
  <2>4. listeners[d] # <<>>
    BY <1>6, <2>1, ListenerFacts DEF Tapped
  <2>5. queue[d][i].screen # 0 /\ queue[d][i].canPlay = screens[d][queue[d][i].screen]
    BY <2>2, <2>4 DEF NothingStale
  <2>6. queue[d][i].screen = 1
    <3>1. queue[d][i].screen \in Nat
      <4>1. queue[d][i] \in Mutation
        BY <2>1, Queued
      <4>. QED
        BY <4>1, WriteFacts
    <3>2. queue[d][i].screen <= 1
      BY <2>2, <2>3 DEF SwitchesExist
    <3>. QED
      BY <2>5, <3>1, <3>2
  <2>. QED
    BY <2>3, <2>5, <2>6 DEF Front
<1>. QED
  BY <1>5, <1>6

\* On a profile screen that is opened only once, the server stores only what
\* the tapped switch shows; a second screen breaks this.
THEOREM StoredIsShown ==
  ASSUME Patient, MaxScreens = 1
  PROVE  Spec => StoredFollowsSwitch
<1>1. IInv /\ [Next]_vars => [ChangeIsShown]_vars
  BY StoredStep
<1>. QED
  BY <1>1, Invariant, PTL DEF Spec, StoredFollowsSwitch
===============================================================================
