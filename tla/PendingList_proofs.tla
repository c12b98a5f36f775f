-------------------------- MODULE PendingList_proofs --------------------------
(***************************************************************************)
(* Proofs about PendingList, for every set of senders and every bound.     *)
(***************************************************************************)
EXTENDS PendingList, QueueFacts, FiniteSetTheorems

-------------------------------------------------------------------------------
(* The calls of the listeners on one document *)

\* Each listener of a finite set has a rank, and every rank is taken.
LEMMA Ranked ==
  ASSUME NEW L \in SUBSET Nat, IsFiniteSet(L), NEW k \in 1..Cardinality(L)
  PROVE  \E i \in L : Cardinality({j \in L : j < i}) = k - 1
<1> DEFINE n == Cardinality(L)
           Below(i) == {j \in L : j < i}
           rank == [i \in L |-> Cardinality(Below(i))]
<1>0. n \in Nat
  BY FS_CardinalityType
<1>1. ASSUME NEW i \in L
      PROVE  IsFiniteSet(Below(i)) /\ Cardinality(Below(i)) \in 0..(n - 1)
  <2>1. IsFiniteSet(L \ {i}) /\ Cardinality(L \ {i}) = n - 1
    BY FS_RemoveElement
  <2>2. Below(i) \in SUBSET (L \ {i})
    BY <1>1
  <2>. HIDE DEF Below, n
  <2>3. IsFiniteSet(Below(i)) /\ Cardinality(Below(i)) <= n - 1
    BY <2>1, <2>2, FS_Subset
  <2>4. Cardinality(Below(i)) \in Nat
    BY <2>3, FS_CardinalityType
  <2>. QED
    BY <1>0, <2>3, <2>4
<1>2. ASSUME NEW i \in L, NEW j \in L, i < j
      PROVE  Cardinality(Below(i)) < Cardinality(Below(j))
  <2>1. IsFiniteSet(Below(j)) /\ Cardinality(Below(j)) \in Nat /\ i \in Below(j)
    <3>1. i \in Below(j)
      BY <1>2
    <3>2. IsFiniteSet(Below(j)) /\ Cardinality(Below(j)) \in 0..(n - 1)
      BY <1>1
    <3>. HIDE DEF Below, n
    <3>. QED
      BY <3>1, <3>2
  <2>2. Below(i) \in SUBSET (Below(j) \ {i})
    <3>1. ASSUME NEW m \in Below(i) PROVE m \in Below(j) \ {i}
      <4>1. m \in L /\ m < i /\ m \in Nat /\ i \in Nat /\ j \in Nat
        OBVIOUS
      <4>2. m < j /\ m # i
        BY <1>2, <4>1
      <4>. QED
        BY <4>1, <4>2
    <3>. QED
      BY <3>1
  <2>. HIDE DEF Below
  <2>3. /\ IsFiniteSet(Below(j) \ {i})
        /\ Cardinality(Below(j) \ {i}) = Cardinality(Below(j)) - 1
    BY <2>1, FS_RemoveElement
  <2>4. Cardinality(Below(i)) <= Cardinality(Below(j)) - 1
    BY <2>2, <2>3, FS_Subset
  <2>5. Cardinality(Below(i)) \in Nat
    BY <1>1
  <2>. QED
    BY <2>1, <2>4, <2>5
<1>3. rank \in Injection(L, 0..(n - 1))
  <2>1. rank \in [L -> 0..(n - 1)]
    BY <1>1
  <2>2. ASSUME NEW i \in L, NEW j \in L, rank[i] = rank[j] PROVE i = j
    <3>1. Cardinality(Below(i)) = Cardinality(Below(j))
      BY <2>2
    <3>2. i \in Nat /\ j \in Nat
      OBVIOUS
    <3>3. Cardinality(Below(i)) \in Nat /\ Cardinality(Below(j)) \in Nat
      BY <1>1
    <3>. HIDE DEF Below
    <3>. QED
      BY <1>2, <3>1, <3>2, <3>3
  <2>. HIDE DEF rank
  <2>. QED
    BY <2>1, <2>2 DEF Injection, IsInjective
<1>4. IsFiniteSet(0..(n - 1)) /\ Cardinality(0..(n - 1)) = n
  <2>. HIDE DEF n
  <2>1. 0 \in Int /\ n - 1 \in Int
    BY <1>0
  <2>2. /\ IsFiniteSet(0..(n - 1))
        /\ Cardinality(0..(n - 1)) = IF 0 > n - 1 THEN 0 ELSE (n - 1) - 0 + 1
    BY <2>1, FS_Interval
  <2>. QED
    BY <1>0, <2>2
<1>5. rank \in Surjection(L, 0..(n - 1))
  <2>. HIDE DEF rank
  <2>. QED
    BY <1>3, <1>4, FS_Injection
<1>6. k - 1 \in 0..(n - 1)
  BY <1>0
<1>7. \E i \in L : rank[i] = k - 1
  <2>. HIDE DEF rank, n
  <2>. QED
    BY <1>5, <1>6 DEF Surjection
<1>. QED
  BY <1>7

\* A call is a task for one of the listeners.
LEMMA CallsAreListeners ==
  ASSUME NEW L \in SUBSET Nat, IsFiniteSet(L), NEW k \in 1..Cardinality(L)
  PROVE  \E i \in L : Calls(L)[k] = [kind |-> "sender", inner |-> i]
<1> DEFINE nth(m) == CHOOSE i \in L : Cardinality({j \in L : j < i}) = m - 1
<1>1. nth(k) \in L
  BY Ranked
<1>2. Calls(L) = [m \in 1..Cardinality(L) |-> [kind |-> "sender", inner |-> nth(m)]]
  BY DEF Calls
<1>. HIDE DEF nth
<1>. QED
  BY <1>1, <1>2

LEMMA CallsType ==
  ASSUME NEW L \in SUBSET (Nat \ {0}), IsFiniteSet(L)
  PROVE  /\ Calls(L) \in Seq(Task)
         /\ Len(Calls(L)) = Cardinality(L)
<1>1. Cardinality(L) \in Nat
  BY FS_CardinalityType
<1>2. ASSUME NEW k \in 1..Cardinality(L) PROVE Calls(L)[k] \in Task
  <2>1. PICK i \in L : Calls(L)[k] = [kind |-> "sender", inner |-> i]
    BY CallsAreListeners
  <2>2. i \in Nat \ {0}
    OBVIOUS
  <2>. QED
    BY <2>1, <2>2 DEF Task
<1>3. /\ DOMAIN Calls(L) = 1..Cardinality(L)
      /\ Calls(L) = [k \in 1..Cardinality(L) |-> Calls(L)[k]]
  BY DEF Calls
<1>4. Calls(L) \in [1..Cardinality(L) -> Task]
  BY <1>2, <1>3
<1>5. Calls(L) \in Seq(Task)
  BY <1>1, <1>4, SeqDef
<1>. QED
  BY <1>1, <1>3, <1>5, LenProperties

\* The listeners on one document.
LEMMA InnersOnFinite ==
  ASSUME TypeOK, NEW s
  PROVE  InnersOn(s) \in SUBSET (Nat \ {0}) /\ IsFiniteSet(InnersOn(s))
<1>1. DOMAIN inners = 1..Len(inners) /\ Len(inners) \in Nat
  BY Queued DEF TypeOK
<1>2. InnersOn(s) \in SUBSET (1..Len(inners))
  BY <1>1 DEF InnersOn
<1>3. IsFiniteSet(1..Len(inners))
  BY <1>1, FS_Interval
<1>. QED
  BY <1>1, <1>2, <1>3, FS_Subset
\* Any documents of Requests have a last one.
LEMMA LastRequest ==
  ASSUME NEW snapshot \in SUBSET Request, snapshot # {}
  PROVE  \E r \in snapshot : \A q \in snapshot : q.id <= r.id
<1> DEFINE T == {n \in Nat : \E r \in snapshot : n = MaxRequests - r.id}
<1>0. /\ MaxRequests \in Nat
      /\ \A r \in snapshot : r.id \in Nat /\ r.id <= MaxRequests
  BY BoundsAreNaturals DEF Request
<1>1. T # {}
  <2>1. PICK r \in snapshot : TRUE
    OBVIOUS
  <2>2. MaxRequests - r.id \in Nat
    BY <1>0
  <2>. QED
    BY <2>2
<1>2. PICK n \in T : \A m \in T : ~(<<m, n>> \in OpToRel(<, Nat))
  <2>. HIDE DEF T
  <2>1. T \subseteq Nat
    BY DEF T
  <2>. QED
    BY <1>1, <2>1, NatLessThanWellFounded, WFMin
<1>3. \A m \in T : ~(m < n)
  BY <1>2 DEF OpToRel
<1>4. PICK r \in snapshot : n = MaxRequests - r.id
  OBVIOUS
<1>5. ASSUME NEW q \in snapshot PROVE q.id <= r.id
  <2>1. MaxRequests - q.id \in T
    BY <1>0
  <2>2. ~(MaxRequests - q.id < MaxRequests - r.id)
    BY <1>3, <1>4, <2>1
  <2>3. /\ q.id \in Nat /\ r.id \in Nat /\ MaxRequests \in Nat
        /\ q.id <= MaxRequests /\ r.id <= MaxRequests
    BY <1>0
  <2>. QED
    BY <2>2, <2>3
<1>. QED
  BY <1>5

\* So the last sender is a sender, or the captured variable's value.
LEMMA LastSenderType ==
  ASSUME NEW snapshot \in SUBSET Request, NEW previous \in Sender \cup {NoSender}
  PROVE  LastSender(snapshot, previous) \in Sender \cup {NoSender}
<1>1. CASE snapshot = {}
  BY <1>1 DEF LastSender
<1>2. CASE snapshot # {}
  <2> DEFINE last == CHOOSE r \in snapshot : \A q \in snapshot : q.id <= r.id
  <2>1. last \in snapshot
    BY <1>2, LastRequest
  <2>2. LastSender(snapshot, previous) = last.from
    BY <1>2 DEF LastSender
  <2>. HIDE DEF last
  <2>. QED
    BY <2>1, <2>2 DEF Request
<1>. QED
  BY <1>1, <1>2

-------------------------------------------------------------------------------
(* Type correctness *)

LEMMA InitType == Init => TypeOK
<1>1. <<>> \in Seq(Inner) /\ <<>> \in Seq(Task)
  BY EmptySeq
<1>2. 0 \in 0..MaxEdits /\ 0 \in 0..MaxRestarts
  BY BoundsAreNaturals
<1>. QED
  BY <1>1, <1>2 DEF Init, TypeOK

\* The first task of a kind holds what that kind holds.
LEMMA HeadTask ==
  ASSUME NEW t \in Task
  PROVE  /\ t.kind = "requests" => t.snapshot \in SUBSET Request
         /\ t.kind = "sender" => t.inner \in Nat \ {0}
         /\ t.kind = "sender" <=> ~AsksRequests(t)
BY DEF Task, AsksRequests

\* What the outer listener does with the snapshot at the head.
LEMMA ArrivalType ==
  ASSUME TypeOK, RequestsArrive
  PROVE  LET snapshot == Head(main).snapshot
             user == LastSender(snapshot, fromUser)
             new == [user |-> user, snapshot |-> snapshot, raised |-> user # NoSender]
             call == [kind |-> "sender", inner |-> Len(inners) + 1]
         IN  /\ snapshot \in SUBSET Request
             /\ user \in Sender \cup {NoSender}
             /\ new \in Inner /\ call \in Task
             /\ fromUser' = user
             /\ inners' = Append(inners, new)
             /\ main' = IF user # NoSender THEN Append(Tail(main), call) ELSE Tail(main)
<1> DEFINE snapshot == Head(main).snapshot
           user == LastSender(snapshot, fromUser)
           new == [user |-> user, snapshot |-> snapshot, raised |-> user # NoSender]
           call == [kind |-> "sender", inner |-> Len(inners) + 1]
<1>1. main # <<>> /\ Head(main).kind = "requests"
  BY DEF RequestsArrive
<1>2. snapshot \in SUBSET Request
  <2>1. Head(main) \in Task
    BY <1>1, Dequeued DEF TypeOK
  <2>. QED
    BY <1>1, <2>1, HeadTask
<1>3. user \in Sender \cup {NoSender}
  BY <1>2, LastSenderType DEF TypeOK
<1>4. new \in Inner
  <2>. HIDE DEF user, snapshot
  <2>. QED
    BY <1>2, <1>3 DEF Inner
<1>5. call \in Task
  <2>1. Len(inners) + 1 \in Nat \ {0}
    BY Queued DEF TypeOK
  <2>. QED
    BY <2>1 DEF Task
<1>6. /\ fromUser' = user
      /\ inners' = Append(inners, new)
      /\ main' = IF user # NoSender THEN Append(Tail(main), call) ELSE Tail(main)
  BY DEF RequestsArrive
<1>. QED
  BY <1>2, <1>3, <1>4, <1>5, <1>6

LEMMA NextType == TypeOK /\ SnapshotsInOrder /\ [Next]_vars => TypeOK'
<1> SUFFICES ASSUME TypeOK, SnapshotsInOrder, [Next]_vars PROVE TypeOK'
  OBVIOUS
<1>0. \A snapshot \in SUBSET Request : [kind |-> "requests", snapshot |-> snapshot] \in Task
  BY DEF Task
<1>1. ASSUME NEW s \in Sender, RequestStored(s) PROVE TypeOK'
  <2>1. requests' \subseteq Request
    BY <1>1 DEF RequestStored, TypeOK, Request
  <2>. QED
    BY <1>1, <2>1 DEF RequestStored, TypeOK
<1>2. ASSUME NEW s \in Sender, SenderEdited(s) PROVE TypeOK'
  <2>1. edits[s] + 1 \in 0..MaxEdits
    BY <1>2, BoundsAreNaturals DEF SenderEdited, TypeOK
  <2>2. edits' = [edits EXCEPT ![s] = edits[s] + 1]
    BY <1>2 DEF SenderEdited
  <2>3. edits' \in [Sender -> 0..MaxEdits]
    BY <2>1, <2>2 DEF TypeOK
  <2>. QED
    BY <1>2, <2>3 DEF SenderEdited, TypeOK
<1>3. ASSUME OpenPending PROVE TypeOK'
  <2>1. main' \in Seq(Task)
    BY <1>0, <1>3, Enqueued DEF OpenPending, TypeOK
  <2>. QED
    BY <1>3, <2>1 DEF OpenPending, TypeOK, SharedPlayerRequests
<1>4. ASSUME WatchRequests PROVE TypeOK'
  <2>1. main' \in Seq(Task)
    BY <1>0, <1>4, Enqueued DEF WatchRequests, TypeOK
  <2>. QED
    BY <1>4, <2>1 DEF WatchRequests, TypeOK
<1>5. ASSUME NEW s \in Sender, WatchSender(s) PROVE TypeOK'
  <2>1. Calls(InnersOn(s)) \in Seq(Task)
    BY CallsType, InnersOnFinite
  <2>2. main' \in Seq(Task)
    BY <1>5, <2>1, Joined DEF WatchSender, TypeOK
  <2>. QED
    BY <1>5, <2>2 DEF WatchSender, TypeOK
<1>6. ASSUME RequestsArrive PROVE TypeOK'
  <2>1. PICK user \in Sender \cup {NoSender}, new \in Inner, call \in Task :
          /\ fromUser' = user
          /\ inners' = Append(inners, new)
          /\ main' = IF user # NoSender THEN Append(Tail(main), call) ELSE Tail(main)
    BY <1>6, ArrivalType
  <2>2. inners' \in Seq(Inner)
    BY <2>1, Enqueued DEF TypeOK
  <2>3. main' \in Seq(Task)
    BY <1>6, <2>1, Dequeued, Rotated DEF RequestsArrive, TypeOK
  <2>. QED
    BY <1>6, <2>1, <2>2, <2>3 DEF RequestsArrive, TypeOK
<1>7. ASSUME NEW i \in DOMAIN inners, NobodyFound(i) PROVE TypeOK'
  <2>1. i \in 1..Len(inners) /\ inners[i] \in Inner /\ i \in Nat \ {0}
    BY Queued DEF TypeOK
  <2> DEFINE new == [inners[i] EXCEPT !.raised = TRUE]
  <2>2. new \in Inner
    BY <2>1 DEF Inner
  <2>3. inners' = [inners EXCEPT ![i] = new]
    BY <1>7 DEF NobodyFound
  <2>. HIDE DEF new
  <2>4. inners' \in Seq(Inner)
    BY <2>1, <2>2, <2>3, ExceptSeq DEF TypeOK
  <2>5. [kind |-> "sender", inner |-> i] \in Task
    BY <2>1 DEF Task
  <2>6. main' \in Seq(Task)
    BY <1>7, <2>5, Enqueued DEF NobodyFound, TypeOK
  <2>. QED
    BY <1>7, <2>4, <2>6 DEF NobodyFound, TypeOK
<1>8. ASSUME SenderArrives PROVE TypeOK'
  <2>0. main # <<>> /\ main \in Seq(Task) /\ Head(main).kind = "sender"
    BY <1>8 DEF SenderArrives, TypeOK
  <2>1. /\ Tail(main) \in Seq(Task) /\ 1 \in DOMAIN main
        /\ Head(main) = main[1] /\ ~AsksRequests(main[1])
    BY <2>0, Dequeued DEF AsksRequests
  <2>2. inners[Head(main).inner] \in Inner
    <3>1. Head(main).inner \in DOMAIN inners
      BY <2>1 DEF SnapshotsInOrder, CallsKnown
    <3>. QED
      BY <3>1, Queued DEF TypeOK
  <2>3. playerRequests' \subseteq Request
    BY <1>8, <2>2 DEF SenderArrives, Inner
  <2>. QED
    BY <1>8, <2>1, <2>3 DEF SenderArrives, TypeOK, SharedPlayerRequests
<1>9. ASSUME Restart PROVE TypeOK'
  <2>1. <<>> \in Seq(Inner) /\ <<>> \in Seq(Task)
    BY EmptySeq
  <2>2. restarts' \in 0..MaxRestarts
    BY <1>9, BoundsAreNaturals DEF Restart, TypeOK
  <2>. QED
    BY <1>9, <2>1, <2>2 DEF Restart, TypeOK
<1>10. CASE UNCHANGED vars
  BY <1>10 DEF vars, TypeOK
<1>. QED
  BY <1>1, <1>2, <1>3, <1>4, <1>5, <1>6, <1>7, <1>8, <1>9, <1>10 DEF Next

-------------------------------------------------------------------------------
(* How the main queue moves on *)

\* Queue p is queue q without its first tasks, as many as shift says, and
\* with tasks of new at the end.
Follows(p, q, shift, new) ==
  /\ \A k \in DOMAIN p :
       \/ k + shift \in DOMAIN q /\ p[k] = q[k + shift]
       \/ p[k] \in new /\ \A l \in DOMAIN q : l < k + shift
  /\ \A k \in DOMAIN q : k > shift => k - shift \in DOMAIN p /\ p[k - shift] = q[k]

LEMMA FollowsAppend ==
  ASSUME NEW q \in Seq(Task), NEW t \in Task
  PROVE  Follows(Append(q, t), q, 0, {t})
<1>1. /\ Len(q) \in Nat /\ DOMAIN q = 1..Len(q)
      /\ DOMAIN Append(q, t) = 1..(Len(q) + 1)
      /\ \A i \in 1..Len(q) : Append(q, t)[i] = q[i]
      /\ Append(q, t)[Len(q) + 1] = t
  BY Queued, Enqueued
<1>. QED
  BY <1>1 DEF Follows

LEMMA FollowsJoin ==
  ASSUME NEW q \in Seq(Task), NEW t \in Seq(Task), NEW new,
         \A i \in 1..Len(t) : t[i] \in new
  PROVE  Follows(q \o t, q, 0, new)
<1>1. /\ Len(q) \in Nat /\ DOMAIN q = 1..Len(q) /\ Len(t) \in Nat
      /\ DOMAIN (q \o t) = 1..(Len(q) + Len(t))
      /\ \A i \in 1..Len(q) : (q \o t)[i] = q[i]
      /\ \A i \in 1..Len(t) : (q \o t)[Len(q) + i] = t[i]
  BY Queued, Joined
<1>2. ASSUME NEW k \in DOMAIN (q \o t)
      PROVE  \/ k + 0 \in DOMAIN q /\ (q \o t)[k] = q[k + 0]
             \/ (q \o t)[k] \in new /\ \A l \in DOMAIN q : l < k + 0
  <2>1. CASE k <= Len(q)
    BY <1>1, <2>1
  <2>2. CASE k > Len(q)
    <3>1. k - Len(q) \in 1..Len(t) /\ Len(q) + (k - Len(q)) = k
      BY <1>1, <2>2
    <3>2. (q \o t)[k] = t[k - Len(q)]
      BY <1>1, <3>1
    <3>. QED
      BY <1>1, <2>2, <3>1, <3>2
  <2>. QED
    BY <1>1, <2>1, <2>2
<1>3. \A k \in DOMAIN q : k > 0 => k - 0 \in DOMAIN (q \o t) /\ (q \o t)[k - 0] = q[k]
  BY <1>1
<1>. QED
  BY <1>2, <1>3 DEF Follows

LEMMA FollowsTail ==
  ASSUME NEW q \in Seq(Task), q # <<>>
  PROVE  Follows(Tail(q), q, 1, {})
<1>1. /\ Len(q) \in Nat /\ Len(q) > 0 /\ DOMAIN q = 1..Len(q)
      /\ DOMAIN Tail(q) = 1..(Len(q) - 1)
      /\ \A i \in 1..(Len(q) - 1) : Tail(q)[i] = q[i + 1]
  BY Queued, Dequeued
<1>2. ASSUME NEW k \in DOMAIN q, k > 1
      PROVE  k - 1 \in DOMAIN Tail(q) /\ Tail(q)[k - 1] = q[k]
  <2>1. k - 1 \in 1..(Len(q) - 1) /\ (k - 1) + 1 = k
    BY <1>1, <1>2
  <2>. QED
    BY <1>1, <2>1
<1>. QED
  BY <1>1, <1>2 DEF Follows

LEMMA FollowsRotate ==
  ASSUME NEW q \in Seq(Task), q # <<>>, NEW t \in Task
  PROVE  Follows(Append(Tail(q), t), q, 1, {t})
<1> DEFINE p == Append(Tail(q), t)
<1>1. /\ Len(q) \in Nat /\ Len(q) > 0 /\ DOMAIN q = 1..Len(q)
      /\ DOMAIN p = 1..Len(q)
      /\ \A i \in 1..(Len(q) - 1) : p[i] = q[i + 1]
      /\ p[Len(q)] = t
  BY Queued, Dequeued, Rotated
<1>. HIDE DEF p
<1>2. ASSUME NEW k \in DOMAIN q, k > 1
      PROVE  k - 1 \in DOMAIN p /\ p[k - 1] = q[k]
  <2>1. k - 1 \in 1..(Len(q) - 1) /\ (k - 1) + 1 = k /\ k - 1 \in 1..Len(q)
    BY <1>1, <1>2
  <2>. QED
    BY <1>1, <2>1
<1>3. ASSUME NEW k \in DOMAIN p
      PROVE  \/ k + 1 \in DOMAIN q /\ p[k] = q[k + 1]
             \/ p[k] \in {t} /\ \A l \in DOMAIN q : l < k + 1
  <2>1. CASE k \in 1..(Len(q) - 1)
    BY <1>1, <2>1
  <2>2. CASE k = Len(q)
    BY <1>1, <2>2
  <2>. QED
    BY <1>1, <2>1, <2>2
<1>4. Follows(p, q, 1, {t})
  BY <1>2, <1>3 DEF Follows
<1>. QED
  BY <1>4 DEF p

-------------------------------------------------------------------------------
(* Snapshots stay in order *)

Call == {t \in Task : ~AsksRequests(t)}

\* Calls that join, and any tasks that leave, change no order.
LEMMA OrderedFollows ==
  ASSUME NEW listeners, NEW q \in Seq(Task), NEW known,
         OrderedSnapshots(listeners, q, known),
         NEW p \in Seq(Task), NEW shift \in Nat, NEW new, new \subseteq Call,
         Follows(p, q, shift, new)
  PROVE  OrderedSnapshots(listeners, p, known)
<1>1. ASSUME NEW k \in DOMAIN p, AsksRequests(p[k])
      PROVE  k + shift \in DOMAIN q /\ p[k] = q[k + shift] /\ AsksRequests(q[k + shift])
  BY <1>1 DEF Follows, Call
<1>2. ASSUME NEW k \in DOMAIN p, AsksRequests(p[k])
      PROVE  /\ p[k].snapshot \subseteq known
             /\ \A i \in DOMAIN listeners : listeners[i].snapshot \subseteq p[k].snapshot
  BY <1>1, <1>2 DEF OrderedSnapshots
<1>3. ASSUME NEW k \in DOMAIN p, NEW l \in DOMAIN p,
             AsksRequests(p[k]), AsksRequests(p[l]), k <= l
      PROVE  p[k].snapshot \subseteq p[l].snapshot
  <2>1. k \in Nat /\ l \in Nat /\ k + shift <= l + shift
    BY <1>3, Queued
  <2>2. /\ k + shift \in DOMAIN q /\ p[k] = q[k + shift] /\ AsksRequests(q[k + shift])
        /\ l + shift \in DOMAIN q /\ p[l] = q[l + shift] /\ AsksRequests(q[l + shift])
    BY <1>1, <1>3
  <2>3. q[k + shift].snapshot \subseteq q[l + shift].snapshot
    BY <2>1, <2>2 DEF OrderedSnapshots
  <2>. QED
    BY <2>2, <2>3
<1>. QED
  BY <1>2, <1>3 DEF OrderedSnapshots

\* A new snapshot knows all that was known.
LEMMA OrderedNew ==
  ASSUME NEW listeners, NEW q \in Seq(Task), NEW known,
         OrderedSnapshots(listeners, q, known),
         NEW now \in SUBSET Request, known \subseteq now
  PROVE  OrderedSnapshots(listeners,
                          Append(q, [kind |-> "requests", snapshot |-> now]), now)
<1> DEFINE t == [kind |-> "requests", snapshot |-> now]
           p == Append(q, t)
<1>1. t \in Task /\ t.snapshot = now
  BY DEF Task
<1>. HIDE DEF t
<1>2. /\ Len(q) \in Nat /\ DOMAIN q = 1..Len(q)
      /\ DOMAIN p = 1..(Len(q) + 1)
      /\ \A i \in 1..Len(q) : p[i] = q[i]
      /\ p[Len(q) + 1] = t
  BY <1>1, Queued, Enqueued
<1>. HIDE DEF p
<1>3. \A i \in DOMAIN listeners : listeners[i].snapshot \subseteq now
  BY DEF OrderedSnapshots
<1>4. ASSUME NEW k \in DOMAIN p, AsksRequests(p[k])
      PROVE  /\ p[k].snapshot \subseteq now
             /\ \A i \in DOMAIN listeners : listeners[i].snapshot \subseteq p[k].snapshot
  <2>1. CASE k \in 1..Len(q)
    BY <1>2, <1>4, <2>1 DEF OrderedSnapshots
  <2>2. CASE k = Len(q) + 1
    BY <1>1, <1>2, <1>3, <2>2
  <2>. QED
    BY <1>2, <2>1, <2>2
<1>5. ASSUME NEW k \in DOMAIN p, NEW l \in DOMAIN p,
             AsksRequests(p[k]), AsksRequests(p[l]), k <= l
      PROVE  p[k].snapshot \subseteq p[l].snapshot
  <2>1. CASE l = Len(q) + 1
    BY <1>1, <1>2, <1>4, <1>5, <2>1
  <2>2. CASE l \in 1..Len(q)
    <3>1. k \in 1..Len(q)
      BY <1>2, <1>5, <2>2
    <3>. QED
      BY <1>2, <1>5, <2>2, <3>1 DEF OrderedSnapshots
  <2>. QED
    BY <1>2, <2>1, <2>2
<1>6. OrderedSnapshots(listeners, p, now)
  BY <1>3, <1>4, <1>5 DEF OrderedSnapshots
<1>. QED
  BY <1>6 DEF p, t

\* The listener that captures the snapshot at the head knows all that the
\* earlier listeners know.
LEMMA OrderedCapture ==
  ASSUME NEW listeners \in Seq(Inner), NEW q \in Seq(Task), q # <<>>, NEW known,
         OrderedSnapshots(listeners, q, known), AsksRequests(q[1]),
         NEW new \in Inner, new.snapshot = q[1].snapshot
  PROVE  OrderedSnapshots(Append(listeners, new), q, known)
<1> DEFINE after == Append(listeners, new)
<1>1. /\ Len(listeners) \in Nat /\ DOMAIN listeners = 1..Len(listeners)
      /\ DOMAIN after = 1..(Len(listeners) + 1)
      /\ \A i \in 1..Len(listeners) : after[i] = listeners[i]
      /\ after[Len(listeners) + 1] = new
  BY Queued, Enqueued
<1>. HIDE DEF after
<1>2. 1 \in DOMAIN q /\ \A k \in DOMAIN q : k \in Nat /\ 1 <= k
  BY Queued, Dequeued
<1>3. ASSUME NEW k \in DOMAIN q, AsksRequests(q[k])
      PROVE  new.snapshot \subseteq q[k].snapshot /\ q[k].snapshot \subseteq known
  BY <1>2, <1>3 DEF OrderedSnapshots
<1>4. ASSUME NEW i \in DOMAIN after
      PROVE  /\ after[i].snapshot \subseteq known
             /\ after[i].snapshot \subseteq new.snapshot
             /\ \A k \in DOMAIN q :
                  AsksRequests(q[k]) => after[i].snapshot \subseteq q[k].snapshot
  <2>1. CASE i \in 1..Len(listeners)
    BY <1>1, <1>2, <2>1 DEF OrderedSnapshots
  <2>2. CASE i = Len(listeners) + 1
    BY <1>1, <1>2, <1>3, <2>2
  <2>. QED
    BY <1>1, <2>1, <2>2
<1>5. ASSUME NEW i \in DOMAIN after, NEW j \in DOMAIN after, i <= j
      PROVE  after[i].snapshot \subseteq after[j].snapshot
  <2>1. CASE j = Len(listeners) + 1
    BY <1>1, <1>4, <2>1
  <2>2. CASE j \in 1..Len(listeners)
    <3>1. i \in 1..Len(listeners)
      BY <1>1, <1>5, <2>2
    <3>. QED
      BY <1>1, <1>5, <2>2, <3>1 DEF OrderedSnapshots
  <2>. QED
    BY <1>1, <2>1, <2>2
<1>6. ASSUME NEW k \in DOMAIN q, NEW l \in DOMAIN q,
             AsksRequests(q[k]), AsksRequests(q[l]), k <= l
      PROVE  q[k].snapshot \subseteq q[l].snapshot
  BY <1>6 DEF OrderedSnapshots
<1>7. OrderedSnapshots(after, q, known)
  BY <1>3, <1>4, <1>5, <1>6 DEF OrderedSnapshots
<1>. QED
  BY <1>7 DEF after

\* A listener's captured snapshot does not change when it is called first.
LEMMA OrderedSame ==
  ASSUME NEW listeners, NEW q, NEW known, OrderedSnapshots(listeners, q, known),
         NEW after, DOMAIN after = DOMAIN listeners,
         \A i \in DOMAIN after : after[i].snapshot = listeners[i].snapshot
  PROVE  OrderedSnapshots(after, q, known)
BY DEF OrderedSnapshots

\* The calls on the main queue are for listeners that exist.
LEMMA CallsStayKnown ==
  ASSUME NEW q, NEW listeners, CallsKnown(q, listeners),
         NEW p, NEW shift, NEW new, Follows(p, q, shift, new),
         NEW after, DOMAIN listeners \subseteq DOMAIN after,
         \A t \in new : ~AsksRequests(t) => t.inner \in DOMAIN after
  PROVE  CallsKnown(p, after)
BY DEF CallsKnown, Follows

LEMMA ListedStays ==
  ASSUME NEW list, NEW listeners, Listed(list, listeners), NEW after,
         DOMAIN listeners \subseteq DOMAIN after,
         \A i \in DOMAIN listeners : after[i].snapshot = listeners[i].snapshot
  PROVE  Listed(list, after)
BY DEF Listed

\* The listener numbered i is called for the first time.
LEMMA NobodyFoundStep ==
  ASSUME TypeOK, NEW i \in DOMAIN inners, NobodyFound(i)
  PROVE  /\ DOMAIN inners' = DOMAIN inners /\ Len(inners') = Len(inners)
         /\ \A j \in DOMAIN inners : /\ inners'[j].snapshot = inners[j].snapshot
                                     /\ inners'[j].user = inners[j].user
         /\ \A j \in DOMAIN inners : inners'[j].raised \/ inners'[j] = inners[j]
         /\ [kind |-> "sender", inner |-> i] \in Call
         /\ main' = Append(main, [kind |-> "sender", inner |-> i])
<1> DEFINE new == [inners[i] EXCEPT !.raised = TRUE]
<1>1. inners' = [inners EXCEPT ![i] = new]
  BY DEF NobodyFound
<1>2. /\ inners[i] \in Inner /\ i \in 1..Len(inners) /\ Len(inners) \in Nat
      /\ DOMAIN inners = 1..Len(inners)
  BY Queued DEF TypeOK
<1>3. new.snapshot = inners[i].snapshot /\ new.user = inners[i].user /\ new.raised
  BY <1>2 DEF Inner
<1>4. new \in Inner
  BY <1>2 DEF Inner
<1>. HIDE DEF new
<1>5. Len(inners') = Len(inners) /\ DOMAIN inners' = DOMAIN inners
  BY <1>1, <1>2, <1>4, ExceptSeq DEF TypeOK
<1>6. \A j \in DOMAIN inners : inners'[j] = IF j = i THEN new ELSE inners[j]
  BY <1>1, <1>2
<1>7. [kind |-> "sender", inner |-> i] \in Call
  BY <1>2 DEF Call, Task, AsksRequests
<1>8. main' = Append(main, [kind |-> "sender", inner |-> i])
  BY DEF NobodyFound
<1>. QED
  BY <1>3, <1>5, <1>6, <1>7, <1>8

LEMMA NextOrder ==
  ASSUME TypeOK, SnapshotsInOrder, [Next]_vars
  PROVE  SnapshotsInOrder'
<1>0. /\ cached \subseteq requests
      /\ OrderedSnapshots(inners, main, cached)
      /\ CallsKnown(main, inners)
      /\ Listed(playerRequests, inners)
      /\ main \in Seq(Task) /\ inners \in Seq(Inner)
  BY DEF SnapshotsInOrder, TypeOK
<1>1. CASE /\ UNCHANGED <<inners, main, cached, playerRequests>>
           /\ requests \subseteq requests'
  BY <1>0, <1>1 DEF SnapshotsInOrder
<1>2. ASSUME NEW now \in SUBSET Request, cached \subseteq now, cached' = now,
             now \subseteq requests',
             main' = Append(main, [kind |-> "requests", snapshot |-> now]),
             UNCHANGED <<inners, playerRequests>>
      PROVE  SnapshotsInOrder'
  <2> DEFINE t == [kind |-> "requests", snapshot |-> now]
  <2>1. OrderedSnapshots(inners, main', now)
    BY <1>0, <1>2, OrderedNew
  <2>2. t \in Task /\ AsksRequests(t)
    BY DEF Task, AsksRequests
  <2>. HIDE DEF t
  <2>3. Follows(main', main, 0, {t})
    BY <1>0, <1>2, <2>2, FollowsAppend DEF t
  <2>4. CallsKnown(main', inners)
    BY <1>0, <2>2, <2>3, CallsStayKnown
  <2>. QED
    BY <1>0, <1>2, <2>1, <2>4 DEF SnapshotsInOrder
<1>3. ASSUME NEW s \in Sender, RequestStored(s) PROVE SnapshotsInOrder'
  BY <1>1, <1>3 DEF RequestStored
<1>4. ASSUME NEW s \in Sender, SenderEdited(s) PROVE SnapshotsInOrder'
  BY <1>1, <1>4 DEF SenderEdited
<1>5. ASSUME OpenPending PROVE SnapshotsInOrder'
  <2>1. CASE cached = {}
    BY <1>1, <1>5, <2>1 DEF OpenPending
  <2>2. CASE cached # {}
    BY <1>0, <1>2, <1>5, <2>2 DEF OpenPending, TypeOK
  <2>. QED
    BY <2>1, <2>2
<1>6. ASSUME WatchRequests PROVE SnapshotsInOrder'
  BY <1>0, <1>2, <1>6 DEF WatchRequests, TypeOK
<1>7. ASSUME NEW s \in Sender, WatchSender(s) PROVE SnapshotsInOrder'
  <2> DEFINE L == InnersOn(s)
             new == {t \in Call : t.inner \in DOMAIN inners}
  <2>1. L \in SUBSET (Nat \ {0}) /\ IsFiniteSet(L) /\ L \subseteq DOMAIN inners
    BY InnersOnFinite DEF InnersOn
  <2>. HIDE DEF L
  <2>2. ASSUME NEW k \in 1..Cardinality(L) PROVE Calls(L)[k] \in new
    <3>1. PICK i \in L : Calls(L)[k] = [kind |-> "sender", inner |-> i]
      BY <2>1, CallsAreListeners
    <3>2. i \in Nat \ {0} /\ i \in DOMAIN inners
      BY <2>1
    <3>. QED
      BY <3>1, <3>2 DEF Call, Task, AsksRequests
  <2>. HIDE DEF new
  <2>3. Calls(L) \in Seq(Task) /\ Len(Calls(L)) = Cardinality(L)
    BY <2>1, CallsType
  <2>4. main' = main \o Calls(L) /\ main' \in Seq(Task)
    BY <1>0, <1>7, <2>3, Joined DEF WatchSender, L
  <2>5. Follows(main', main, 0, new)
    BY <1>0, <2>2, <2>3, <2>4, FollowsJoin
  <2>6. OrderedSnapshots(inners, main', cached)
    BY <1>0, <2>4, <2>5, OrderedFollows DEF new
  <2>7. CallsKnown(main', inners)
    BY <1>0, <2>5, CallsStayKnown DEF new
  <2>8. UNCHANGED <<inners, cached, requests, playerRequests>>
    BY <1>7 DEF WatchSender
  <2>. QED
    BY <1>0, <2>6, <2>7, <2>8 DEF SnapshotsInOrder
<1>8. ASSUME RequestsArrive PROVE SnapshotsInOrder'
  <2>0. main # <<>> /\ Head(main).kind = "requests"
        /\ UNCHANGED <<cached, requests, playerRequests>>
    BY <1>8 DEF RequestsArrive
  <2>1. PICK new \in Inner, call \in Task :
          /\ new.snapshot = Head(main).snapshot
          /\ call = [kind |-> "sender", inner |-> Len(inners) + 1]
          /\ inners' = Append(inners, new)
          /\ main' = Append(Tail(main), call) \/ main' = Tail(main)
    BY <1>8, ArrivalType
  <2>2. main[1] = Head(main) /\ AsksRequests(main[1])
    BY <1>0, <2>0, Dequeued DEF AsksRequests
  <2>3. OrderedSnapshots(inners', main, cached)
    BY <1>0, <2>0, <2>1, <2>2, OrderedCapture
  <2>4. call \in Call /\ call.inner = Len(inners) + 1
    BY <2>1 DEF Call, AsksRequests
  <2>5. /\ Len(inners) \in Nat /\ DOMAIN inners = 1..Len(inners)
        /\ DOMAIN inners' = 1..(Len(inners) + 1)
        /\ \A i \in DOMAIN inners : inners'[i] = inners[i]
    BY <1>0, <2>1, Queued, Enqueued
  <2>6. main' \in Seq(Task) /\ Follows(main', main, 1, {call})
    <3>1. CASE main' = Append(Tail(main), call)
      BY <1>0, <2>0, <3>1, Rotated, FollowsRotate
    <3>2. CASE main' = Tail(main)
      <4>1. Follows(main', main, 1, {}) /\ main' \in Seq(Task)
        BY <1>0, <2>0, <3>2, Dequeued, FollowsTail
      <4>. QED
        BY <4>1 DEF Follows
    <3>. QED
      BY <2>1, <3>1, <3>2
  <2>7. OrderedSnapshots(inners', main', cached)
    BY <1>0, <2>3, <2>4, <2>6, OrderedFollows
  <2>8. CallsKnown(main', inners')
    BY <1>0, <2>4, <2>5, <2>6, CallsStayKnown
  <2>9. Listed(playerRequests, inners')
    BY <1>0, <2>5, ListedStays
  <2>. QED
    BY <1>0, <2>0, <2>7, <2>8, <2>9 DEF SnapshotsInOrder
<1>9. ASSUME NEW i \in DOMAIN inners, NobodyFound(i) PROVE SnapshotsInOrder'
  <2> DEFINE call == [kind |-> "sender", inner |-> i]
  <2>1. /\ DOMAIN inners' = DOMAIN inners
        /\ \A j \in DOMAIN inners : inners'[j].snapshot = inners[j].snapshot
        /\ call \in Call
        /\ main' = Append(main, call)
    BY <1>9, NobodyFoundStep
  <2>2. call.inner \in DOMAIN inners
    OBVIOUS
  <2>. HIDE DEF call
  <2>3. call \in Task
    BY <2>1 DEF Call
  <2>4. main' \in Seq(Task) /\ Follows(main', main, 0, {call})
    BY <1>0, <2>1, <2>3, Enqueued, FollowsAppend
  <2>5. OrderedSnapshots(inners', main', cached)
    BY <1>0, <2>1, <2>4, OrderedFollows, OrderedSame
  <2>6. CallsKnown(main', inners')
    BY <1>0, <2>1, <2>2, <2>4, CallsStayKnown
  <2>7. Listed(playerRequests, inners')
    BY <1>0, <2>1, ListedStays
  <2>8. UNCHANGED <<cached, requests, playerRequests>>
    BY <1>9 DEF NobodyFound
  <2>. QED
    BY <1>0, <2>5, <2>6, <2>7, <2>8 DEF SnapshotsInOrder
<1>10. ASSUME SenderArrives PROVE SnapshotsInOrder'
  <2>0. /\ main # <<>> /\ Head(main).kind = "sender" /\ main' = Tail(main)
        /\ playerRequests' = inners[Head(main).inner].snapshot
        /\ UNCHANGED <<inners, cached, requests>>
    BY <1>10 DEF SenderArrives
  <2>1. main' \in Seq(Task) /\ Follows(main', main, 1, {})
    BY <1>0, <2>0, Dequeued, FollowsTail
  <2>2. OrderedSnapshots(inners, main', cached)
    BY <1>0, <2>1, OrderedFollows
  <2>3. CallsKnown(main', inners)
    BY <1>0, <2>1, CallsStayKnown
  <2>4. Listed(playerRequests', inners)
    <3>1. Head(main).inner \in DOMAIN inners
      <4>1. 1 \in DOMAIN main /\ main[1] = Head(main) /\ ~AsksRequests(main[1])
        BY <1>0, <2>0, Dequeued DEF AsksRequests
      <4>. QED
        BY <1>0, <4>1 DEF CallsKnown
    <3>. QED
      BY <2>0, <3>1 DEF Listed
  <2>. QED
    BY <1>0, <2>0, <2>2, <2>3, <2>4 DEF SnapshotsInOrder
<1>11. ASSUME Restart PROVE SnapshotsInOrder'
  BY <1>0, <1>11 DEF Restart, SnapshotsInOrder, OrderedSnapshots, CallsKnown, Listed
<1>12. CASE UNCHANGED vars
  BY <1>1, <1>12 DEF vars
<1>. QED
  BY <1>3, <1>4, <1>5, <1>6, <1>7, <1>8, <1>9, <1>10, <1>11, <1>12 DEF Next

\* Types and order are one inductive invariant.
LEMMA OrderHolds == Spec => [](TypeOK /\ SnapshotsInOrder)
<1>1. Init => SnapshotsInOrder
  BY DEF Init, SnapshotsInOrder, OrderedSnapshots, CallsKnown, Listed
<1>2. TypeOK /\ SnapshotsInOrder /\ [Next]_vars => (TypeOK /\ SnapshotsInOrder)'
  BY NextType, NextOrder
<1>. QED
  BY <1>1, <1>2, InitType, PTL DEF Spec

-------------------------------------------------------------------------------
(* The newest snapshot and the newest listener come last *)

\* A new snapshot is the newest.
LEMMA ArrivesNew ==
  ASSUME NEW listeners, NEW q \in Seq(Task), NEW now \in SUBSET Request
  PROVE  NewestArrives(listeners,
                       Append(q, [kind |-> "requests", snapshot |-> now]), now)
<1> DEFINE t == [kind |-> "requests", snapshot |-> now]
           p == Append(q, t)
<1>1. t \in Task /\ AsksRequests(t) /\ t.snapshot = now
  BY DEF Task, AsksRequests
<1>. HIDE DEF t
<1>2. /\ Len(q) \in Nat
      /\ DOMAIN p = 1..(Len(q) + 1)
      /\ p[Len(q) + 1] = t
  BY <1>1, Queued, Enqueued
<1>. HIDE DEF p
<1>3. \A l \in DOMAIN p : l <= Len(q) + 1
  BY <1>2
<1>4. Len(q) + 1 \in DOMAIN p
  BY <1>2
<1>5. NewestArrives(listeners, p, now)
  BY <1>1, <1>2, <1>3, <1>4 DEF NewestArrives
<1>. QED
  BY <1>5 DEF p, t

\* It is still on its way when calls join the main queue, and when one leaves.
LEMMA ArrivesFollows ==
  ASSUME NEW listeners, NEW q \in Seq(Task), NEW p \in Seq(Task), NEW known,
         NewestArrives(listeners, q, known),
         NEW shift \in {0, 1}, NEW new, new \subseteq Call,
         Follows(p, q, shift, new),
         shift = 1 => q # <<>> /\ ~AsksRequests(q[1])
  PROVE  NewestArrives(listeners, p, known)
<1>0. /\ \A k \in DOMAIN q : k \in Nat /\ k > 0
      /\ \A k \in DOMAIN p : k \in Nat
  BY Queued
<1>1. ASSUME NEW l \in DOMAIN p, AsksRequests(p[l])
      PROVE  l + shift \in DOMAIN q /\ AsksRequests(q[l + shift])
  BY <1>1 DEF Follows, Call
<1>2. CASE \E k \in DOMAIN q :
             /\ AsksRequests(q[k]) /\ q[k].snapshot = known
             /\ \A l \in DOMAIN q : AsksRequests(q[l]) => l <= k
  <2>1. PICK k \in DOMAIN q :
             /\ AsksRequests(q[k]) /\ q[k].snapshot = known
             /\ \A l \in DOMAIN q : AsksRequests(q[l]) => l <= k
    BY <1>2
  <2>2. k > shift
    BY <1>0, <2>1
  <2>3. k - shift \in DOMAIN p /\ p[k - shift] = q[k]
    BY <2>2 DEF Follows
  <2>4. ASSUME NEW l \in DOMAIN p, AsksRequests(p[l]) PROVE l <= k - shift
    <3>1. l + shift <= k
      BY <1>1, <2>1, <2>4
    <3>. QED
      BY <1>0, <3>1
  <2>. QED
    BY <2>1, <2>3, <2>4 DEF NewestArrives
<1>3. CASE /\ \A k \in DOMAIN q : ~AsksRequests(q[k])
           /\ listeners # <<>> /\ listeners[Len(listeners)].snapshot = known
  BY <1>1, <1>3 DEF NewestArrives
<1>. QED
  BY <1>2, <1>3 DEF NewestArrives

\* So it does when tasks only join the queue, or its head calls a listener.
LEMMA ArrivesJoined ==
  ASSUME NEW listeners, NEW q \in Seq(Task), NEW p \in Seq(Task), NEW known,
         NewestArrives(listeners, q, known),
         NEW new, new \subseteq Call, Follows(p, q, 0, new)
  PROVE  NewestArrives(listeners, p, known)
BY ArrivesFollows, 0 \in {0, 1}, 0 # 1

LEMMA ArrivesCalled ==
  ASSUME NEW listeners, NEW q \in Seq(Task), NEW p \in Seq(Task), NEW known,
         NewestArrives(listeners, q, known),
         q # <<>>, ~AsksRequests(q[1]), Follows(p, q, 1, {})
  PROVE  NewestArrives(listeners, p, known)
<1>1. PICK calls : calls \subseteq Call /\ Follows(p, q, 1, calls)
  OBVIOUS
<1>. QED
  BY <1>1, ArrivesFollows, 1 \in {0, 1}

\* It arrives when the outer listener captures it.
LEMMA ArrivesCapture ==
  ASSUME NEW listeners \in Seq(Inner), NEW new \in Inner,
         NEW q \in Seq(Task), q # <<>>, AsksRequests(q[1]),
         NEW known, NewestArrives(listeners, q, known),
         new.snapshot = q[1].snapshot,
         NEW p \in Seq(Task), NEW calls, calls \subseteq Call, Follows(p, q, 1, calls)
  PROVE  NewestArrives(Append(listeners, new), p, known)
<1> DEFINE after == Append(listeners, new)
<1>0. /\ \A k \in DOMAIN q : k \in Nat /\ k > 0
      /\ \A k \in DOMAIN p : k \in Nat /\ k > 0
      /\ 1 \in DOMAIN q
  BY Queued, Dequeued
<1>1. after # <<>> /\ after[Len(after)] = new
  BY Queued, Enqueued
<1>. HIDE DEF after
<1>2. ASSUME NEW l \in DOMAIN p, AsksRequests(p[l])
      PROVE  l + 1 \in DOMAIN q /\ AsksRequests(q[l + 1])
  BY <1>2 DEF Follows, Call
<1>3. PICK k \in DOMAIN q :
        /\ AsksRequests(q[k]) /\ q[k].snapshot = known
        /\ \A l \in DOMAIN q : AsksRequests(q[l]) => l <= k
  BY <1>0 DEF NewestArrives
<1>4. CASE k = 1
  <2>1. ASSUME NEW l \in DOMAIN p, AsksRequests(p[l]) PROVE FALSE
    <3>1. l + 1 <= 1
      BY <1>2, <1>3, <1>4, <2>1
    <3>. QED
      BY <1>0, <3>1
  <2>2. after[Len(after)].snapshot = known
    BY <1>1, <1>3, <1>4
  <2>3. NewestArrives(after, p, known)
    BY <1>1, <2>1, <2>2 DEF NewestArrives
  <2>. QED
    BY <2>3 DEF after
<1>5. CASE k > 1
  <2>1. k - 1 \in DOMAIN p /\ p[k - 1] = q[k]
    BY <1>5 DEF Follows
  <2>2. ASSUME NEW l \in DOMAIN p, AsksRequests(p[l]) PROVE l <= k - 1
    <3>1. l + 1 <= k
      BY <1>2, <1>3, <2>2
    <3>. QED
      BY <1>0, <3>1
  <2>3. NewestArrives(after, p, known)
    BY <1>3, <2>1, <2>2 DEF NewestArrives
  <2>. QED
    BY <2>3 DEF after
<1>. QED
  BY <1>0, <1>4, <1>5

\* The newest listener still fills the list when snapshots join the main queue.
LEMMA FillsFollows ==
  ASSUME NEW listeners, NEW q \in Seq(Task), NEW p \in Seq(Task), NEW list,
         NewestFills(listeners, q, list),
         NEW new, \A t \in new : AsksRequests(t),
         Follows(p, q, 0, new)
  PROVE  NewestFills(listeners, p, list)
<1>0. /\ \A k \in DOMAIN q : k \in Nat /\ k > 0 /\ k - 0 = k
      /\ \A k \in DOMAIN p : k \in Nat /\ k + 0 = k
  BY Queued
<1>1. ASSUME NEW l \in DOMAIN p, ~AsksRequests(p[l])
      PROVE  l \in DOMAIN q /\ ~AsksRequests(q[l])
  BY <1>0, <1>1 DEF Follows
<1>2. \A k \in DOMAIN q : k \in DOMAIN p /\ p[k] = q[k]
  BY <1>0 DEF Follows
<1>. QED
  BY <1>1, <1>2 DEF NewestFills

\* And when the first call fills the list, whichever listener it is for.
LEMMA FillsTail ==
  ASSUME NEW listeners, NEW q \in Seq(Task), q # <<>>, NEW p \in Seq(Task), NEW list,
         NewestFills(listeners, q, list), Follows(p, q, 1, {}), ~AsksRequests(q[1])
  PROVE  NewestFills(listeners, p, listeners[q[1].inner].snapshot)
<1> DEFINE now == listeners[q[1].inner].snapshot
<1>0. /\ \A k \in DOMAIN q : k \in Nat /\ k > 0
      /\ \A k \in DOMAIN p : k \in Nat /\ k > 0
      /\ 1 \in DOMAIN q
  BY Queued, Dequeued
<1>1. ASSUME NEW l \in DOMAIN p, ~AsksRequests(p[l])
      PROVE  l + 1 \in DOMAIN q /\ ~AsksRequests(q[l + 1])
  BY <1>1 DEF Follows
<1>2. CASE listeners = <<>>
  BY <1>2 DEF NewestFills
<1>3. CASE listeners # <<>>
  <2>1. PICK k \in DOMAIN q :
          /\ ~AsksRequests(q[k]) /\ q[k].inner = Len(listeners)
          /\ \A l \in DOMAIN q : ~AsksRequests(q[l]) => l <= k
    BY <1>0, <1>3 DEF NewestFills
  <2>2. CASE k = 1
    <3>1. ASSUME NEW l \in DOMAIN p, ~AsksRequests(p[l]) PROVE FALSE
      <4>1. l + 1 <= 1
        BY <1>1, <2>1, <2>2, <3>1
      <4>. QED
        BY <1>0, <4>1
    <3>2. now = listeners[Len(listeners)].snapshot
      BY <2>1, <2>2
    <3>. HIDE DEF now
    <3>3. NewestFills(listeners, p, now)
      BY <3>1, <3>2 DEF NewestFills
    <3>. QED
      BY <3>3 DEF now
  <2>3. CASE k > 1
    <3>1. k - 1 \in DOMAIN p /\ p[k - 1] = q[k]
      BY <2>3 DEF Follows
    <3>2. ASSUME NEW l \in DOMAIN p, ~AsksRequests(p[l]) PROVE l <= k - 1
      <4>1. l + 1 <= k
        BY <1>1, <2>1, <3>2
      <4>. QED
        BY <1>0, <4>1
    <3>. QED
      BY <2>1, <3>1, <3>2 DEF NewestFills
  <2>. QED
    BY <1>0, <2>2, <2>3
<1>. QED
  BY <1>2, <1>3

\* The call of a new listener is the last on the main queue.
LEMMA FillsCapture ==
  ASSUME NEW listeners, NEW q \in Seq(Task), q # <<>>, NEW call \in Call,
         call.inner = Len(listeners), NEW list
  PROVE  NewestFills(listeners, Append(Tail(q), call), list)
<1> DEFINE p == Append(Tail(q), call)
<1>1. /\ Len(q) \in Nat /\ Len(q) > 0
      /\ DOMAIN p = 1..Len(q)
      /\ p[Len(q)] = call
  BY Dequeued, Rotated DEF Call
<1>. HIDE DEF p
<1>2. Len(q) \in DOMAIN p /\ \A l \in DOMAIN p : l <= Len(q)
  BY <1>1
<1>3. ~AsksRequests(call)
  BY DEF Call
<1>4. NewestFills(listeners, p, list)
  BY <1>1, <1>2, <1>3 DEF NewestFills
<1>. QED
  BY <1>4 DEF p

LEMMA NextNewest ==
  ASSUME TypeOK, SnapshotsInOrder, NewestIsLast, [Next]_vars
  PROVE  NewestIsLast'
<1>0. /\ main \in Seq(Task) /\ inners \in Seq(Inner)
      /\ raised => NewestArrives(inners, main, cached)
      /\ Undisturbed => NewestFills(inners, main, playerRequests)
      /\ \A i \in DOMAIN inners : ~inners[i].raised => inners[i].user = NoSender
      /\ \A s \in Sender : seen[s] <= edits[s]
      /\ \A s \in Sender : edits[s] \in Nat /\ seen[s] \in Nat
      /\ edits \in [Sender -> 0..MaxEdits] /\ seen \in [Sender -> 0..MaxEdits]
  BY DEF NewestIsLast, TypeOK
<1>1. CASE UNCHANGED <<inners, main, cached, playerRequests, raised, edits, seen>>
  BY <1>0, <1>1 DEF NewestIsLast, Undisturbed
<1>2. ASSUME NEW now \in SUBSET Request, cached' = now,
             main' = Append(main, [kind |-> "requests", snapshot |-> now]),
             UNCHANGED <<inners, playerRequests, edits, seen>>
      PROVE  NewestIsLast'
  <2> DEFINE t == [kind |-> "requests", snapshot |-> now]
  <2>1. NewestArrives(inners, main', now)
    BY <1>0, <1>2, ArrivesNew
  <2>2. t \in Task /\ AsksRequests(t)
    BY DEF Task, AsksRequests
  <2>. HIDE DEF t
  <2>3. main' \in Seq(Task) /\ Follows(main', main, 0, {t})
    BY <1>0, <1>2, <2>2, Enqueued, FollowsAppend DEF t
  <2>4. Undisturbed' => Undisturbed
    BY <1>2 DEF Undisturbed
  <2>5. Undisturbed' => NewestFills(inners, main', playerRequests)
    BY <1>0, <2>2, <2>3, <2>4, FillsFollows
  <2>. QED
    BY <1>0, <1>2, <2>1, <2>5 DEF NewestIsLast
<1>3. ASSUME NEW s \in Sender, RequestStored(s) PROVE NewestIsLast'
  BY <1>1, <1>3 DEF RequestStored
<1>4. ASSUME NEW s \in Sender, SenderEdited(s) PROVE NewestIsLast'
  <2>1. /\ edits' = [edits EXCEPT ![s] = edits[s] + 1]
        /\ UNCHANGED <<inners, main, cached, playerRequests, raised, seen>>
    BY <1>4 DEF SenderEdited
  <2>2. edits'[s] # 0 /\ \A x \in Sender : seen[x] <= edits'[x]
    BY <1>0, <2>1
  <2>3. ~Undisturbed'
    BY <2>2 DEF Undisturbed
  <2>. QED
    BY <1>0, <2>1, <2>2, <2>3 DEF NewestIsLast
<1>5. ASSUME OpenPending PROVE NewestIsLast'
  <2>1. CASE cached = {}
    <3>1. /\ ~raised'
          /\ UNCHANGED <<inners, main, cached, playerRequests, edits, seen>>
      BY <1>5, <2>1 DEF OpenPending
    <3>2. Undisturbed' => Undisturbed
      BY <3>1 DEF Undisturbed
    <3>. QED
      BY <1>0, <3>1, <3>2 DEF NewestIsLast
  <2>2. CASE cached # {}
    BY <1>2, <1>5, <2>2 DEF OpenPending, TypeOK
  <2>. QED
    BY <2>1, <2>2
<1>6. ASSUME WatchRequests PROVE NewestIsLast'
  BY <1>2, <1>6 DEF WatchRequests, TypeOK
<1>7. ASSUME NEW s \in Sender, WatchSender(s) PROVE NewestIsLast'
  <2> DEFINE L == InnersOn(s)
  <2>1. L \in SUBSET (Nat \ {0}) /\ IsFiniteSet(L)
    BY InnersOnFinite
  <2>2. /\ seen[s] # edits[s] /\ seen' = [seen EXCEPT ![s] = edits[s]]
        /\ main' = main \o Calls(L)
        /\ UNCHANGED <<inners, cached, playerRequests, raised, edits>>
    BY <1>7 DEF WatchSender
  <2>. HIDE DEF L
  <2>3. ASSUME NEW k \in 1..Cardinality(L) PROVE Calls(L)[k] \in Call
    <3>1. PICK i \in L : Calls(L)[k] = [kind |-> "sender", inner |-> i]
      BY <2>1, CallsAreListeners
    <3>2. i \in Nat \ {0}
      BY <2>1
    <3>. QED
      BY <3>1, <3>2 DEF Call, Task, AsksRequests
  <2>4. Calls(L) \in Seq(Task) /\ Len(Calls(L)) = Cardinality(L)
    BY <2>1, CallsType
  <2>5. main' \in Seq(Task) /\ Follows(main', main, 0, Call)
    BY <1>0, <2>2, <2>3, <2>4, Joined, FollowsJoin
  <2>6. raised => NewestArrives(inners, main', cached)
    <3>1. Call \subseteq Call
      OBVIOUS
    <3>. QED
      BY <1>0, <2>5, <3>1, ArrivesJoined
  <2>7. ~Undisturbed'
    <3>1. edits[s] # 0
      BY <1>0, <2>2
    <3>. QED
      BY <2>2, <3>1 DEF Undisturbed
  <2>8. \A x \in Sender : seen'[x] <= edits[x]
    BY <1>0, <2>2
  <2>. QED
    BY <1>0, <2>2, <2>6, <2>7, <2>8 DEF NewestIsLast
<1>8. ASSUME RequestsArrive PROVE NewestIsLast'
  <2>0. /\ main # <<>> /\ Head(main).kind = "requests"
        /\ UNCHANGED <<cached, playerRequests, raised, edits, seen>>
    BY <1>8 DEF RequestsArrive
  <2>1. PICK new \in Inner, call \in Task :
          /\ new.snapshot = Head(main).snapshot
          /\ new.raised = (new.user # NoSender)
          /\ call = [kind |-> "sender", inner |-> Len(inners) + 1]
          /\ inners' = Append(inners, new)
          /\ main' = IF new.user # NoSender THEN Append(Tail(main), call) ELSE Tail(main)
    BY <1>8, ArrivalType
  <2>2. main[1] = Head(main) /\ AsksRequests(main[1])
    BY <1>0, <2>0, Dequeued DEF AsksRequests
  <2>3. call \in Call /\ call.inner = Len(inners) + 1
    BY <2>1 DEF Call, AsksRequests
  <2>4. /\ Len(inners) \in Nat /\ DOMAIN inners = 1..Len(inners)
        /\ DOMAIN inners' = 1..(Len(inners) + 1) /\ Len(inners') = Len(inners) + 1
        /\ \A i \in DOMAIN inners : inners'[i] = inners[i]
        /\ inners'[Len(inners) + 1] = new
    BY <1>0, <2>1, Queued, Enqueued
  <2>5. main' \in Seq(Task) /\ Follows(main', main, 1, {call})
    <3>1. CASE main' = Append(Tail(main), call)
      BY <1>0, <2>0, <3>1, Rotated, FollowsRotate
    <3>2. CASE main' = Tail(main)
      <4>1. Follows(main', main, 1, {}) /\ main' \in Seq(Task)
        BY <1>0, <2>0, <3>2, Dequeued, FollowsTail
      <4>. QED
        BY <4>1 DEF Follows
    <3>. QED
      BY <2>1, <3>1, <3>2
  <2>6. raised => NewestArrives(inners', main', cached)
    BY <1>0, <2>0, <2>1, <2>2, <2>3, <2>5, ArrivesCapture
  <2>7. ASSUME Undisturbed' PROVE NewestFills(inners', main', playerRequests)
    <3>1. new.user # NoSender
      BY <2>4, <2>7 DEF Undisturbed
    <3>2. main' = Append(Tail(main), call) /\ call.inner = Len(inners')
      BY <2>1, <2>3, <2>4, <3>1
    <3>. QED
      BY <1>0, <2>0, <2>3, <3>2, FillsCapture
  <2>8. \A i \in DOMAIN inners' : ~inners'[i].raised => inners'[i].user = NoSender
    <3>1. ~new.raised => new.user = NoSender
      BY <2>1
    <3>. QED
      BY <1>0, <2>4, <3>1
  <2>. QED
    BY <1>0, <2>0, <2>6, <2>7, <2>8 DEF NewestIsLast
<1>9. ASSUME NEW i \in DOMAIN inners, NobodyFound(i) PROVE NewestIsLast'
  <2> DEFINE call == [kind |-> "sender", inner |-> i]
  <2>1. /\ DOMAIN inners' = DOMAIN inners /\ Len(inners') = Len(inners)
        /\ \A j \in DOMAIN inners : /\ inners'[j].snapshot = inners[j].snapshot
                                    /\ inners'[j].user = inners[j].user
        /\ \A j \in DOMAIN inners : inners'[j].raised \/ inners'[j] = inners[j]
        /\ call \in Call
        /\ main' = Append(main, call)
    BY <1>9, NobodyFoundStep
  <2>2. ~inners[i].raised /\ UNCHANGED <<cached, playerRequests, raised, edits, seen>>
    BY <1>9 DEF NobodyFound
  <2>. HIDE DEF call
  <2>3. call \in Task
    BY <2>1 DEF Call
  <2>4. main' \in Seq(Task) /\ Follows(main', main, 0, {call})
    BY <1>0, <2>1, <2>3, Enqueued, FollowsAppend
  <2>5. raised => NewestArrives(inners, main', cached)
    <3>1. {call} \subseteq Call
      BY <2>1
    <3>. QED
      BY <1>0, <2>4, <3>1, ArrivesJoined
  <2>6. raised => NewestArrives(inners', main', cached)
    <3>1. /\ Len(inners) \in Nat /\ DOMAIN inners = 1..Len(inners)
          /\ inners # <<>> => Len(inners) \in DOMAIN inners
      BY <1>0, Queued
    <3>2. inners' # <<>>
      BY <2>1, <3>1
    <3>. QED
      BY <2>1, <2>5, <3>1, <3>2 DEF NewestArrives
  <2>7. ~Undisturbed'
    BY <1>0, <2>1, <2>2 DEF Undisturbed
  <2>8. \A j \in DOMAIN inners' : ~inners'[j].raised => inners'[j].user = NoSender
    BY <1>0, <2>1
  <2>. QED
    BY <1>0, <2>2, <2>6, <2>7, <2>8 DEF NewestIsLast
<1>10. ASSUME SenderArrives PROVE NewestIsLast'
  <2>0. /\ main # <<>> /\ Head(main).kind = "sender" /\ main' = Tail(main)
        /\ playerRequests' = inners[Head(main).inner].snapshot
        /\ UNCHANGED <<inners, cached, raised, edits, seen>>
    BY <1>10 DEF SenderArrives
  <2>1. main' \in Seq(Task) /\ Follows(main', main, 1, {})
    BY <1>0, <2>0, Dequeued, FollowsTail
  <2>2. main[1] = Head(main) /\ ~AsksRequests(main[1])
    BY <1>0, <2>0, Dequeued DEF AsksRequests
  <2>3. raised => NewestArrives(inners, main', cached)
    BY <1>0, <2>0, <2>1, <2>2, ArrivesCalled
  <2>4. Undisturbed' => Undisturbed
    BY <2>0 DEF Undisturbed
  <2>5. Undisturbed' => NewestFills(inners, main', playerRequests')
    BY <1>0, <2>0, <2>1, <2>2, <2>4, FillsTail
  <2>. QED
    BY <1>0, <2>0, <2>3, <2>5 DEF NewestIsLast
<1>11. ASSUME Restart PROVE NewestIsLast'
  <2>1. ~raised' /\ inners' = <<>> /\ edits' = edits /\ seen' = seen
    BY <1>11 DEF Restart
  <2>. QED
    BY <1>0, <2>1 DEF NewestIsLast, NewestFills
<1>12. CASE UNCHANGED vars
  BY <1>1, <1>12 DEF vars
<1>. QED
  BY <1>3, <1>4, <1>5, <1>6, <1>7, <1>8, <1>9, <1>10, <1>11, <1>12 DEF Next

-------------------------------------------------------------------------------
(* Theorems *)

IInv == TypeOK /\ SnapshotsInOrder /\ NewestIsLast

LEMMA InvariantHolds == Spec => []IInv
<1>1. Init => NewestIsLast
  BY DEF Init, NewestIsLast, NewestFills
<1>2. TypeOK /\ SnapshotsInOrder /\ NewestIsLast /\ [Next]_vars => NewestIsLast'
  BY NextNewest
<1>. QED
  BY <1>1, <1>2, OrderHolds, PTL DEF Spec, IInv

\* Every variable keeps its type.
THEOREM TypeCorrect == Spec => []TypeOK
BY InvariantHolds, PTL DEF IInv

\* Everything in flight is in order: each inner listener knows all that the
\* listeners before it know, the screen's list is what one of them captured,
\* and the newest snapshot comes last.
THEOREM InOrder == Spec => []InFlightInOrder
BY InvariantHolds, PTL DEF IInv, InFlightInOrder

\* The settled screen holds every request, if no sender's document changed
\* and no snapshot came without a sender.
THEOREM ListComplete == Spec => []SettledListIsComplete
<1>1. IInv => SettledListIsComplete
  <2> SUFFICES ASSUME IInv, Settled, Undisturbed PROVE playerRequests = requests
    BY DEF SettledListIsComplete, Undisturbed
  <2>1. raised /\ main = <<>> /\ cached = requests
    BY DEF Settled
  <2>2. NewestArrives(inners, <<>>, cached) /\ NewestFills(inners, <<>>, playerRequests)
    BY <2>1 DEF IInv, NewestIsLast
  <2>3. inners # <<>> /\ inners[Len(inners)].snapshot = cached
    BY <2>2 DEF NewestArrives
  <2>4. playerRequests = inners[Len(inners)].snapshot
    BY <2>2, <2>3 DEF NewestFills
  <2>. QED
    BY <2>1, <2>3, <2>4
<1>. QED
  BY <1>1, InvariantHolds, PTL

\* The list loses a request only with the process, or to the call of a
\* listener that is not the last one added.
THEOREM OldListenersForget == Spec => OnlyOldListenersForget
<1>1. TypeOK /\ SnapshotsInOrder /\ [Next]_vars =>
        [playerRequests \subseteq playerRequests'
           \/ ~opened'
           \/ Head(main).inner < Len(inners)]_vars
  <2> SUFFICES ASSUME TypeOK, SnapshotsInOrder, [Next]_vars
               PROVE  \/ playerRequests \subseteq playerRequests'
                      \/ ~opened'
                      \/ Head(main).inner < Len(inners)
    OBVIOUS
  <2>1. ASSUME SenderArrives, ~(Head(main).inner < Len(inners))
        PROVE  playerRequests \subseteq playerRequests'
    <3>1. main # <<>> /\ Head(main).kind = "sender" /\ main \in Seq(Task)
      BY <2>1 DEF SenderArrives, TypeOK
    <3>2. 1 \in DOMAIN main /\ main[1] = Head(main) /\ ~AsksRequests(main[1])
      BY <3>1, Dequeued DEF AsksRequests
    <3>3. Head(main).inner \in DOMAIN inners
      BY <3>2 DEF SnapshotsInOrder, CallsKnown
    <3>4. Len(inners) \in Nat /\ DOMAIN inners = 1..Len(inners)
      BY Queued DEF TypeOK
    <3>5. \A i \in DOMAIN inners :
            inners[i].snapshot \subseteq inners[Head(main).inner].snapshot
      <4>1. \A i \in DOMAIN inners : i <= Head(main).inner
        BY <2>1, <3>3, <3>4
      <4>. QED
        BY <3>3, <4>1 DEF SnapshotsInOrder, OrderedSnapshots
    <3>6. playerRequests \subseteq inners[Head(main).inner].snapshot
      BY <3>5 DEF SnapshotsInOrder, Listed
    <3>. QED
      BY <2>1, <3>6 DEF SenderArrives
  <2>2. CASE Restart
    BY <2>2 DEF Restart
  <2>3. playerRequests' = playerRequests \/ SenderArrives \/ Restart
    BY DEF Next, vars, RequestStored, SenderEdited, OpenPending, WatchRequests,
           WatchSender, RequestsArrive, NobodyFound
  <2>. QED
    BY <2>1, <2>2, <2>3
<1>. QED
  BY <1>1, OrderHolds, PTL DEF Spec, OnlyOldListenersForget
===============================================================================
