-------------------------- MODULE PlayersList_proofs --------------------------
(***************************************************************************)
(* Proofs about PlayersList, for every finite set of players and every     *)
(* bound.                                                                  *)
(***************************************************************************)
EXTENDS PlayersList, QueueFacts, FiniteSetTheorems

-------------------------------------------------------------------------------
(* Numbers and finite sets *)

LEMMA Least ==
  ASSUME NEW S \in SUBSET Nat, S # {}
  PROVE  \E x \in S : \A y \in S : x <= y
<1>1. PICK x \in S : \A y \in S : <<y, x>> \notin OpToRel(<, Nat)
  BY WFMin, NatLessThanWellFounded
<1>2. \A y \in S : ~(y < x)
  BY <1>1 DEF OpToRel
<1>. QED
  BY <1>2

\* The last of some positions.
LEMMA MaxIs ==
  ASSUME NEW n \in Nat, NEW S \in SUBSET (1..n), S # {}
  PROVE  Max(S) \in S /\ \A y \in S : y <= Max(S)
<1> DEFINE T == {m \in Nat : \E k \in S : m + k = n}
<1>1. T # {}
  <2>1. PICK k \in S : k \in 1..n
    OBVIOUS
  <2>2. n - k \in Nat /\ (n - k) + k = n
    BY <2>1
  <2>. QED
    BY <2>2
<1>2. PICK x \in T : \A y \in T : x <= y
  BY <1>1, Least
<1>3. PICK k \in S : x + k = n
  OBVIOUS
<1>4. ASSUME NEW y \in S
      PROVE  k >= y
  <2>1. n - y \in T
    <3>1. y \in 1..n
      OBVIOUS
    <3>2. n - y \in Nat /\ (n - y) + y = n
      BY <3>1
    <3>. QED
      BY <3>2
  <2>2. x <= n - y /\ x \in Nat /\ k \in 1..n /\ y \in 1..n
    BY <1>2, <2>1
  <2>. QED
    BY <1>3, <2>2
<1>5. \E m \in S : \A y \in S : m >= y
  BY <1>4
<1>6. Max(S) \in S /\ \A y \in S : Max(S) >= y
  BY <1>5 DEF Max
<1>. QED
  BY <1>6

\* A set that has one version of each document.
LEMMA DocsFinite ==
  ASSUME NEW docs \in SUBSET Doc, OneVersion(docs)
  PROVE  IsFiniteSet(docs) /\ Cardinality(docs) \in Nat
<1> DEFINE f == [d \in docs |-> d.player]
<1>1. f \in Injection(docs, Player)
  BY DEF Injection, IsInjective, OneVersion, Doc
<1>. QED
  BY <1>1, FS_Injection, FS_CardinalityType, PlayersAreFinite

\* Nobody in one set is missing in the other: it is not larger.
LEMMA FewerPlayers ==
  ASSUME NEW docs \in SUBSET Doc, OneVersion(docs),
         NEW more \in SUBSET Doc, OneVersion(more),
         \A d \in docs : \E e \in more : d.player = e.player
  PROVE  Cardinality(docs) <= Cardinality(more)
<1> DEFINE f == [d \in docs |-> CHOOSE e \in more : d.player = e.player]
<1>1. f \in Injection(docs, more)
  BY DEF Injection, IsInjective, OneVersion
<1>2. IsFiniteSet(more)
  BY DocsFinite
<1>. HIDE DEF f
<1>. QED
  BY <1>1, <1>2, FS_Injection

-------------------------------------------------------------------------------
(* The order of a query *)

OnePlace(docs) == \A d, e \in docs : d.place = e.place => d = e

\* Every number up to the size is the rank of one document.
LEMMA RankIs ==
  ASSUME NEW docs \in SUBSET Doc, IsFiniteSet(docs), OnePlace(docs)
  PROVE  /\ Cardinality(docs) \in Nat
         /\ \A n \in 1..Cardinality(docs) : \E d \in docs : Rank(d, docs) = n
<1> DEFINE upto(d) == {e \in docs : e.place <= d.place}
           f == [d \in docs |-> Cardinality(upto(d))]
           N == Cardinality(docs)
<1>1. N \in Nat
  BY FS_CardinalityType
<1>2. \A d \in docs : d.place \in Nat
  <2>1. Cardinality(Player) \in Nat
    BY FS_CardinalityType, PlayersAreFinite
  <2>. QED
    BY <2>1 DEF Doc, Place
<1>3. ASSUME NEW d \in docs
      PROVE  /\ d \in upto(d) /\ IsFiniteSet(upto(d))
             /\ Cardinality(upto(d)) \in 1..N
  <2>1. d \in upto(d) /\ upto(d) \in SUBSET docs
    BY <1>2
  <2>2. /\ IsFiniteSet(upto(d)) /\ Cardinality(upto(d)) <= N
    BY <2>1, FS_Subset
  <2>3. Cardinality(upto(d)) \in Nat /\ Cardinality(upto(d)) # 0
    BY <2>1, <2>2, FS_CardinalityType, FS_EmptySet
  <2>. QED
    BY <1>1, <2>1, <2>2, <2>3
<1>4. ASSUME NEW d \in docs, NEW e \in docs, d.place < e.place
      PROVE  Cardinality(upto(d)) # Cardinality(upto(e))
  <2>1. upto(d) \in SUBSET upto(e)
    BY <1>2, <1>4
  <2>2. e \in upto(e) /\ e \notin upto(d)
    BY <1>2, <1>4
  <2>. QED
    BY <1>3, <2>1, <2>2, FS_Subset
<1>5. \A d, e \in docs : Cardinality(upto(d)) = Cardinality(upto(e)) => d = e
  <2>1. \A d, e \in docs : d.place = e.place \/ d.place < e.place \/ e.place < d.place
    BY <1>2
  <2>. QED
    BY <1>4, <2>1 DEF OnePlace
<1>6. f \in Injection(docs, 1..N)
  BY <1>3, <1>5 DEF Injection, IsInjective
<1>7. IsFiniteSet(1..N) /\ Cardinality(1..N) = N
  BY <1>1, FS_Interval
<1>8. f \in Surjection(docs, 1..N)
  BY <1>6, <1>7, FS_Injection
<1>9. \A n \in 1..N : \E d \in docs : f[d] = n
  BY <1>8 DEF Surjection
<1>. QED
  BY <1>1, <1>9 DEF Rank

LEMMA OrderedIs ==
  ASSUME NEW docs \in SUBSET Doc, OneVersion(docs), OnePlace(docs)
  PROVE  /\ Ordered(docs) \in Seq(Doc)
         /\ Len(Ordered(docs)) = Cardinality(docs)
         /\ \A n \in DOMAIN Ordered(docs) : Ordered(docs)[n] \in docs
         /\ Ordered(docs) = <<>> <=> docs = {}
<1> DEFINE N == Cardinality(docs)
           s == Ordered(docs)
<1>1. IsFiniteSet(docs) /\ N \in Nat
  BY DocsFinite
<1>2. \A n \in 1..N : (CHOOSE d \in docs : Rank(d, docs) = n) \in docs
  BY <1>1, RankIs
<1>3. s = [n \in 1..N |-> CHOOSE d \in docs : Rank(d, docs) = n]
  BY DEF Ordered
<1>. HIDE DEF s
<1>4. s \in [1..N -> docs] /\ s \in [1..N -> Doc]
  BY <1>2, <1>3
<1>5. s \in Seq(Doc) /\ Len(s) = N /\ DOMAIN s = 1..N
  <2>1. s \in Seq(Doc)
    BY <1>1, <1>4, SeqDef
  <2>. QED
    BY <1>1, <1>4, <2>1, LenProperties
<1>6. s = <<>> <=> docs = {}
  BY <1>1, <1>5, Queued, FS_EmptySet
<1>. QED
  BY <1>4, <1>5, <1>6 DEF s

-------------------------------------------------------------------------------
(* The loop over the documents *)

LEMMA AfterIs ==
  ASSUME NEW f \in Fields, NEW d \in Doc
  PROVE  After(f, d) \in Fields
BY DEF After, Fields, Doc, Present

\* The address after n documents is the last one present, if any is.
WithEmail(docs, n) == {i \in 1..n : docs[i].email # Absent}

LastOf(S) == CHOOSE i \in S : \A j \in S : j <= i

EmailAfter(f, docs, n) ==
  IF WithEmail(docs, n) = {} THEN f.email ELSE docs[LastOf(WithEmail(docs, n))].email

VariablesAfter(f, docs, n) ==
  IF n = 0 THEN f
  ELSE [name |-> docs[n].player, email |-> EmailAfter(f, docs, n),
        canPlay |-> docs[n].canPlay, location |-> docs[n].player]

LEMMA EmailAfterOne ==
  ASSUME NEW docs, NEW f, NEW n \in Nat \ {0}
  PROVE  EmailAfter(f, docs, n) = Present(docs[n].email, EmailAfter(f, docs, n - 1))
<1>1. CASE docs[n].email = Absent
  <2>1. WithEmail(docs, n) = WithEmail(docs, n - 1)
    <3>1. \A i : i \in 1..n <=> i \in 1..(n - 1) \/ i = n
      OBVIOUS
    <3>. QED
      BY <1>1, <3>1 DEF WithEmail
  <2>. QED
    BY <1>1, <2>1 DEF EmailAfter, Present
<1>2. CASE docs[n].email # Absent
  <2>1. n \in WithEmail(docs, n)
    BY <1>2 DEF WithEmail
  <2>2. \A i \in WithEmail(docs, n) : i <= n /\ i \in Nat
    BY DEF WithEmail
  <2>3. \A i \in WithEmail(docs, n) : n <= i => i = n
    BY <2>2
  <2>4. LastOf(WithEmail(docs, n)) = n
    BY <2>1, <2>2, <2>3 DEF LastOf
  <2>. QED
    BY <1>2, <2>1, <2>4 DEF EmailAfter, Present
<1>. QED
  BY <1>1, <1>2

\* The loop sets the variables as After says, document by document.
LEMMA LoopIs ==
  ASSUME NEW f \in Fields, NEW docs \in Seq(Doc)
  PROVE  LET after == Loop(f, docs)
         IN  /\ after[0] = f
             /\ \A n \in 1..Len(docs) : after[n] = After(after[n - 1], docs[n])
             /\ \A n \in 0..Len(docs) : after[n] \in Fields
<1> DEFINE N == Len(docs)
           Step(g) == [n \in 0..N |-> IF n = 0 THEN f ELSE After(g[n - 1], docs[n])]
           after == Loop(f, docs)
<1>1. N \in Nat /\ \A n \in 1..N : docs[n] \in Doc
  BY Queued
<1>2. after = CHOOSE g : g = Step(g)
  BY DEF Loop
<1>3. \E g : g = Step(g)
  <2> DEFINE g == [n \in 0..N |-> VariablesAfter(f, docs, n)]
  <2>1. ASSUME NEW n \in 1..N
        PROVE  VariablesAfter(f, docs, n) = After(VariablesAfter(f, docs, n - 1), docs[n])
    <3>1. n \in Nat \ {0} /\ n - 1 \in Nat
      BY <1>1
    <3>2. EmailAfter(f, docs, n) = Present(docs[n].email, EmailAfter(f, docs, n - 1))
      BY <3>1, EmailAfterOne
    <3>3. VariablesAfter(f, docs, n - 1).email = EmailAfter(f, docs, n - 1)
      <4>1. CASE n - 1 = 0
        <5>1. WithEmail(docs, n - 1) = {}
          BY <4>1 DEF WithEmail
        <5>. QED
          BY <4>1, <5>1 DEF VariablesAfter, EmailAfter
      <4>2. CASE n - 1 # 0
        BY <4>2 DEF VariablesAfter
      <4>. QED
        BY <4>1, <4>2
    <3>. QED
      BY <3>1, <3>2, <3>3 DEF After, VariablesAfter
  <2>2. \A n \in 0..N : VariablesAfter(f, docs, n) =
                          IF n = 0 THEN f ELSE After(g[n - 1], docs[n])
    <3>1. VariablesAfter(f, docs, 0) = f
      BY DEF VariablesAfter
    <3>2. \A n \in 0..N : n # 0 => n \in 1..N /\ n - 1 \in 0..N
      BY <1>1
    <3>. QED
      BY <2>1, <3>1, <3>2
  <2>3. g = Step(g)
    BY <2>2
  <2>. QED
    BY <2>3
<1>4. after = Step(after)
  <2>. HIDE DEF Step, after
  <2>. QED
    BY <1>2, <1>3
<1>. HIDE DEF after
<1>5. after[0] = f /\ \A n \in 1..N : after[n] = After(after[n - 1], docs[n])
  <2>1. 0 \in 0..N /\ \A n \in 1..N : n \in 0..N /\ n # 0
    BY <1>1
  <2>2. \A n \in 0..N : after[n] = IF n = 0 THEN f ELSE After(after[n - 1], docs[n])
    BY <1>4
  <2>. QED
    BY <2>1, <2>2
<1>6. \A n \in 0..N : after[n] \in Fields
  <2> DEFINE S == {n \in 0..N : after[n] \notin Fields}
  <2>1. SUFFICES ASSUME S # {}
                 PROVE  FALSE
    OBVIOUS
  <2>0. S \in SUBSET Nat
    BY <1>1
  <2>2. PICK x \in S : \A y \in S : x <= y
    <3>. HIDE DEF S
    <3>. QED
      BY <2>0, <2>1, Least
  <2>3. x \in 1..N /\ x - 1 \in 0..N
    BY <1>1, <1>5, <2>2
  <2>4. x - 1 \notin S
    BY <1>1, <2>2, <2>3
  <2>. QED
    BY <1>1, <1>5, <2>2, <2>3, <2>4, AfterIs
<1>. QED
  BY <1>5, <1>6 DEF after

\* A refilled array tells what the documents say.
LEMMA RefilledIs ==
  ASSUME NEW f \in Fields, NEW docs \in Seq(Doc)
  PROVE  /\ Refilled(f, docs) \in Seq(User)
         /\ Len(Refilled(f, docs)) = Len(docs)
         /\ \A n \in DOMAIN docs : Refilled(f, docs)[n].name = docs[n].player
         /\ TellsAll(Refilled(f, docs), docs)
         /\ AfterAll(f, docs) \in Fields
         /\ docs # <<>> =>
              LET last == docs[Len(docs)]
                  v == AfterAll(f, docs)
              IN  /\ Len(docs) \in DOMAIN docs
                  /\ v.location = last.player
                  /\ last.email # Absent => v.email = last.email
<1> DEFINE N == Len(docs)
           after == Loop(f, docs)
           r == Refilled(f, docs)
<1>1. N \in Nat /\ DOMAIN docs = 1..N /\ \A n \in 1..N : docs[n] \in Doc
  BY Queued
<1>2. /\ after[0] = f
      /\ \A n \in 1..N : after[n] = After(after[n - 1], docs[n])
      /\ \A n \in 0..N : after[n] \in Fields
  BY LoopIs
<1>3. r = [n \in 1..N |-> UserOf(after[n])] /\ AfterAll(f, docs) = after[N]
  BY DEF Refilled, AfterAll
<1>. HIDE DEF after, r
<1>4. \A n \in 1..N :
        /\ after[n].name = docs[n].player /\ after[n].canPlay = docs[n].canPlay
        /\ after[n].location = docs[n].player
        /\ docs[n].email # Absent => after[n].email = docs[n].email
  <2>1. ASSUME NEW n \in 1..N, NEW g, after[n] = After(g, docs[n])
        PROVE  /\ after[n].name = docs[n].player /\ after[n].canPlay = docs[n].canPlay
               /\ after[n].location = docs[n].player
               /\ docs[n].email # Absent => after[n].email = docs[n].email
    BY <2>1 DEF After, Present
  <2>. QED
    BY <1>2, <2>1
<1>5. \A n \in 1..N : UserOf(after[n]) \in User
  <2>1. ASSUME NEW n \in 1..N
        PROVE  UserOf(after[n]) \in User
    <3>1. after[n] \in Fields /\ after[n].name \in Player
      BY <1>1, <1>2, <1>4 DEF Doc
    <3>. QED
      BY <3>1 DEF UserOf, User, Fields
  <2>. QED
    BY <2>1
<1>6. r \in [1..N -> User]
  BY <1>3, <1>5
<1>7. r \in Seq(User) /\ Len(r) = N
  <2>1. r \in Seq(User)
    BY <1>1, <1>6, SeqDef
  <2>. QED
    BY <1>1, <1>6, <2>1, LenProperties
<1>8. \A n \in 1..N : Tells(r[n], docs[n])
  BY <1>3, <1>4 DEF Tells, UserOf
<1>9. docs # <<>> => N \in 1..N
  BY <1>1, EmptySeq, Queued
<1>10. after[N] \in Fields
  BY <1>1, <1>2
<1>11. /\ \A n \in DOMAIN docs : r[n].name = docs[n].player
       /\ TellsAll(r, docs)
  BY <1>1, <1>7, <1>8 DEF TellsAll, Tells
<1>. QED
  BY <1>1, <1>3, <1>4, <1>7, <1>9, <1>10, <1>11 DEF r

-------------------------------------------------------------------------------
(* The main queue *)

LEMMA SnapshotsAre ==
  ASSUME TypeOK, NEW docs \in SUBSET Doc
  PROVE  /\ Snapshots(docs) \in Seq(Task)
         /\ Len(Snapshots(docs)) = Len(listeners)
         /\ \A k \in 1..Len(listeners) :
              Snapshots(docs)[k] = [kind |-> "snapshot", to |-> k, docs |-> docs]
<1> DEFINE s == Snapshots(docs)
           N == Len(listeners)
<1>1. N \in Nat /\ DOMAIN listeners = 1..N
  BY Queued DEF TypeOK
<1>2. s = [k \in 1..N |-> [kind |-> "snapshot", to |-> k, docs |-> docs]]
  BY <1>1 DEF Snapshots
<1>. HIDE DEF s, N
<1>3. \A k \in 1..N : [kind |-> "snapshot", to |-> k, docs |-> docs] \in Task
  BY <1>1 DEF Task
<1>4. s \in [1..N -> Task]
  BY <1>2, <1>3
<1>5. s \in Seq(Task) /\ Len(s) = N
  <2>1. s \in Seq(Task)
    BY <1>1, <1>4, SeqDef
  <2>. QED
    BY <1>1, <1>4, <2>1, LenProperties
<1>. QED
  BY <1>2, <1>5 DEF s, N

LEMMA DispatchedIs ==
  ASSUME NEW docs \in Seq(Doc), NEW k \in Nat \ {0}, NEW kind \in {"reload", "locate"}
  PROVE  /\ Dispatched(kind, k, docs) \in Seq(Task)
         /\ Len(Dispatched(kind, k, docs)) = Len(docs)
         /\ \A n \in 1..Len(docs) : Dispatched(kind, k, docs)[n] = [kind |-> kind, to |-> k]
<1> DEFINE s == Dispatched(kind, k, docs)
           N == Len(docs)
<1>1. N \in Nat
  BY Queued
<1>2. s = [n \in 1..N |-> [kind |-> kind, to |-> k]]
  BY DEF Dispatched
<1>. HIDE DEF s, N
<1>3. [kind |-> kind, to |-> k] \in Task
  BY DEF Task
<1>4. s \in [1..N -> Task]
  BY <1>2, <1>3
<1>5. s \in Seq(Task) /\ Len(s) = N
  <2>1. s \in Seq(Task)
    BY <1>1, <1>4, SeqDef
  <2>. QED
    BY <1>1, <1>4, <2>1, LenProperties
<1>. QED
  BY <1>2, <1>5 DEF s, N

\* Tasks r are q without the first p, and those of s after them.
Moved(q, p, s, r) ==
  /\ p \in {0, 1} /\ p <= Len(q)
  /\ Len(r) = (Len(q) - p) + Len(s)
  /\ \A i \in 1..(Len(q) - p) : r[i] = q[i + p]
  /\ \A i \in 1..Len(s) : r[(Len(q) - p) + i] = s[i]

LEMMA NothingMoved ==
  ASSUME NEW q \in Seq(Task)
  PROVE  Moved(q, 0, <<>>, q)
<1>1. Len(q) \in Nat /\ Len(<<>>) = 0
  BY EmptySeq
<1>. QED
  BY <1>1 DEF Moved

LEMMA TasksJoin ==
  ASSUME NEW q \in Seq(Task), NEW s \in Seq(Task)
  PROVE  q \o s \in Seq(Task) /\ Moved(q, 0, s, q \o s)
<1>1. Len(q) \in Nat /\ Len(s) \in Nat
  OBVIOUS
<1>. QED
  BY <1>1, Joined DEF Moved

LEMMA TaskJoins ==
  ASSUME NEW q \in Seq(Task), NEW t \in Task
  PROVE  /\ Append(q, t) \in Seq(Task) /\ Moved(q, 0, <<t>>, Append(q, t))
         /\ <<t>> \in Seq(Task) /\ Len(<<t>>) = 1 /\ <<t>>[1] = t
<1>1. Len(q) \in Nat /\ <<t>> \in Seq(Task) /\ Len(<<t>>) = 1 /\ <<t>>[1] = t
  OBVIOUS
<1>2. /\ Append(q, t) \in Seq(Task)
      /\ Len(Append(q, t)) = Len(q) + 1
      /\ \A i \in 1..Len(q) : Append(q, t)[i] = q[i]
      /\ Append(q, t)[Len(q) + 1] = t
  BY Enqueued
<1>. QED
  BY <1>1, <1>2 DEF Moved

LEMMA TaskLeaves ==
  ASSUME NEW q \in Seq(Task), q # <<>>, NEW s \in Seq(Task)
  PROVE  /\ Tail(q) \in Seq(Task) /\ Moved(q, 1, <<>>, Tail(q))
         /\ Tail(q) \o s \in Seq(Task) /\ Moved(q, 1, s, Tail(q) \o s)
         /\ Head(q) = q[1] /\ Head(q) \in Task /\ 1 \in DOMAIN q
<1> DEFINE t == Tail(q)
<1>1. /\ Len(q) \in Nat /\ Len(q) > 0 /\ 1 \in DOMAIN q
      /\ Head(q) = q[1] /\ Head(q) \in Task
      /\ t \in Seq(Task)
      /\ Len(t) = Len(q) - 1
      /\ \A i \in 1..(Len(q) - 1) : t[i] = q[i + 1]
  BY Dequeued
<1>2. Len(s) \in Nat /\ Len(<<>>) = 0
  BY EmptySeq
<1>. HIDE DEF t
<1>3. /\ t \o s \in Seq(Task)
      /\ Len(t \o s) = Len(t) + Len(s)
      /\ \A i \in 1..Len(t) : (t \o s)[i] = t[i]
      /\ \A i \in 1..Len(s) : (t \o s)[Len(t) + i] = s[i]
  <2>1. t \in Seq(Task)
    BY <1>1
  <2>. QED
    BY <2>1, Joined
<1>4. Moved(q, 1, <<>>, t)
  BY <1>1, <1>2 DEF Moved
<1>5. Moved(q, 1, s, t \o s)
  BY <1>1, <1>2, <1>3 DEF Moved
<1>. QED
  BY <1>1, <1>3, <1>4, <1>5 DEF t

\* Each task was there before, or is one of the new ones.
LEMMA OldOrNew ==
  ASSUME NEW q \in Seq(Task), NEW s \in Seq(Task), NEW r \in Seq(Task), NEW p \in {0, 1},
         Moved(q, p, s, r)
  PROVE  /\ \A i \in DOMAIN r :
              \/ i <= Len(q) - p /\ i + p \in DOMAIN q /\ r[i] = q[i + p]
              \/ /\ i > Len(q) - p /\ i - (Len(q) - p) \in DOMAIN s
                 /\ r[i] = s[i - (Len(q) - p)]
         /\ \A i \in DOMAIN q : i > p => i - p \in DOMAIN r /\ r[i - p] = q[i]
         /\ \A i \in DOMAIN s : /\ (Len(q) - p) + i \in DOMAIN r
                                /\ r[(Len(q) - p) + i] = s[i]
         /\ Len(q) \in Nat /\ Len(s) \in Nat /\ Len(r) \in Nat /\ p <= Len(q)
         /\ DOMAIN q = 1..Len(q) /\ DOMAIN s = 1..Len(s) /\ DOMAIN r = 1..Len(r)
<1>1. /\ Len(q) \in Nat /\ Len(s) \in Nat /\ Len(r) \in Nat
      /\ DOMAIN q = 1..Len(q) /\ DOMAIN s = 1..Len(s) /\ DOMAIN r = 1..Len(r)
  BY Queued
<1>2. ASSUME NEW i \in DOMAIN r
      PROVE  \/ i <= Len(q) - p /\ i + p \in DOMAIN q /\ r[i] = q[i + p]
             \/ /\ i > Len(q) - p /\ i - (Len(q) - p) \in DOMAIN s
                /\ r[i] = s[i - (Len(q) - p)]
  <2> DEFINE j == i - (Len(q) - p)
  <2>1. CASE i <= Len(q) - p
    BY <1>1, <2>1 DEF Moved
  <2>2. CASE i > Len(q) - p
    <3>1. j \in 1..Len(s) /\ (Len(q) - p) + j = i
      BY <1>1, <2>2 DEF Moved
    <3>. HIDE DEF j
    <3>2. r[(Len(q) - p) + j] = s[j]
      BY <3>1 DEF Moved
    <3>. QED
      BY <1>1, <2>2, <3>1, <3>2 DEF j
  <2>. QED
    BY <1>1, <2>1, <2>2
<1>3. ASSUME NEW i \in DOMAIN q, i > p
      PROVE  i - p \in DOMAIN r /\ r[i - p] = q[i]
  <2>1. i - p \in 1..(Len(q) - p) /\ (i - p) + p = i /\ i - p \in DOMAIN r
    BY <1>1, <1>3 DEF Moved
  <2>. QED
    BY <2>1 DEF Moved
<1>4. ASSUME NEW i \in DOMAIN s
      PROVE  (Len(q) - p) + i \in DOMAIN r /\ r[(Len(q) - p) + i] = s[i]
  BY <1>1 DEF Moved
<1>5. p <= Len(q)
  BY DEF Moved
<1>. QED
  BY <1>1, <1>2, <1>3, <1>4, <1>5

LEMMA EachTask ==
  ASSUME NEW q \in Seq(Task), NEW s \in Seq(Task), NEW r \in Seq(Task), NEW p \in {0, 1},
         Moved(q, p, s, r)
  PROVE  \A i \in DOMAIN r : \/ \E j \in DOMAIN q : r[i] = q[j]
                             \/ \E n \in DOMAIN s : r[i] = s[n]
<1> TAKE i \in DOMAIN r
<1>1. \/ i + p \in DOMAIN q /\ r[i] = q[i + p]
      \/ i - (Len(q) - p) \in DOMAIN s /\ r[i] = s[i - (Len(q) - p)]
  BY OldOrNew
<1>. QED
  BY <1>1

-------------------------------------------------------------------------------
(* Documents and their copies *)

GoodDocs(docs) ==
  docs \subseteq Doc /\ OneVersion(docs) /\ CopiesOf(docs, profiles \cup mine)

GoodSnapshots ==
  \A k \in DOMAIN main : IsSnapshot(main[k]) => GoodDocs(main[k].docs)

LEMMA SnapshotsGood == TypeOK /\ SnapshotsFit => GoodSnapshots
<1> SUFFICES ASSUME TypeOK, SnapshotsFit, NEW k \in DOMAIN main, IsSnapshot(main[k])
             PROVE  GoodDocs(main[k].docs)
  BY DEF GoodSnapshots
<1>1. main[k] \in Task
  BY Queued DEF TypeOK
<1>2. main[k].docs \subseteq Doc
  BY <1>1 DEF Task, IsSnapshot
<1>. QED
  BY <1>2 DEF GoodDocs, SnapshotsFit

\* Neither the SDK's copy nor what the query shows mixes two documents.
GoodViews ==
  /\ GoodDocs(cached) /\ GoodDocs(View)
  /\ stage # "stored" => GoodDocs(cached \cup mine)
  /\ cached \subseteq View
  /\ cached = {} => \A d \in View : d.player = Owner

LEMMA CopiesOfMore ==
  ASSUME NEW docs, NEW origin, NEW more, CopiesOf(docs, origin),
         \A e \in origin : \E g \in more : SameDoc(e, g)
  PROVE  CopiesOf(docs, more)
BY DEF CopiesOf, SameDoc

LEMMA ViewsGood == TypeOK /\ ProfilesFit => GoodViews
<1> SUFFICES ASSUME TypeOK, ProfilesFit
             PROVE  GoodViews
  OBVIOUS
<1>1. GoodDocs(cached)
  <2>1. CopiesOf(cached, profiles \cup mine)
    BY DEF ProfilesFit, CopiesOf
  <2>. QED
    BY <2>1 DEF GoodDocs, TypeOK, ProfilesFit
<1>2. ASSUME stage # "stored"
      PROVE  OneVersion(cached \cup mine) /\ CopiesOf(cached \cup mine, profiles \cup mine)
  <2>1. \A d \in cached : d.player # Owner
    BY <1>2 DEF ProfilesFit, CopiesOf, SameDoc
  <2>2. CopiesOf(mine, profiles \cup mine)
    BY DEF CopiesOf, SameDoc
  <2>3. \A d, e \in mine : d = e /\ d.player = Owner
    BY DEF ProfilesFit
  <2>4. OneVersion(cached)
    BY DEF ProfilesFit
  <2>5. OneVersion(cached \cup mine)
    BY <2>1, <2>3, <2>4 DEF OneVersion
  <2>. QED
    BY <1>1, <2>2, <2>5 DEF CopiesOf, GoodDocs
<1>3. View = cached \/ (stage = "queued" /\ View = cached \cup mine)
  BY DEF View
<1>4. GoodDocs(View)
  BY <1>1, <1>2, <1>3 DEF GoodDocs, TypeOK
<1>5. cached = {} => \A d \in View : d.player = Owner
  BY <1>3 DEF ProfilesFit
<1>6. stage # "stored" => GoodDocs(cached \cup mine)
  BY <1>2 DEF GoodDocs, TypeOK
<1>7. cached \subseteq View
  BY <1>3
<1>. QED
  BY <1>1, <1>4, <1>5, <1>6, <1>7 DEF GoodViews

\* In what order such documents come.
LEMMA OrderedGood ==
  ASSUME TypeOK, ProfilesFit, NEW docs, GoodDocs(docs)
  PROVE  /\ IsFiniteSet(docs) /\ Cardinality(docs) \in Nat
         /\ Ordered(docs) \in Seq(Doc)
         /\ Len(Ordered(docs)) = Cardinality(docs)
         /\ \A n \in DOMAIN Ordered(docs) : Ordered(docs)[n] \in docs
         /\ Ordered(docs) = <<>> <=> docs = {}
<1>1. docs \in SUBSET Doc /\ OneVersion(docs) /\ CopiesOf(docs, profiles \cup mine)
  BY DEF GoodDocs
<1>2. OnePlace(docs)
  <2> SUFFICES ASSUME NEW d \in docs, NEW e \in docs, d.place = e.place
               PROVE  d = e
    BY DEF OnePlace
  <2>1. PICK d1 \in profiles \cup mine : SameDoc(d, d1)
    BY <1>1 DEF CopiesOf
  <2>2. PICK e1 \in profiles \cup mine : SameDoc(e, e1)
    BY <1>1 DEF CopiesOf
  <2>3. d1.place = e1.place
    BY <2>1, <2>2 DEF SameDoc
  <2>4. \A g, h \in profiles \cup mine : g.place = h.place => SameDoc(g, h)
    BY DEF ProfilesFit
  <2>5. SameDoc(d1, e1)
    BY <2>1, <2>2, <2>3, <2>4
  <2>6. d.player = e.player
    BY <2>1, <2>2, <2>5 DEF SameDoc
  <2>. QED
    BY <1>1, <2>6 DEF OneVersion
<1>. QED
  BY <1>1, <1>2, DocsFinite, OrderedIs

-------------------------------------------------------------------------------
(* What a step does *)

IInv == TypeOK /\ InFlightInOrder

\* The listeners keep what they are; only the one at k0 may change the rest.
OnlyChanges(k0) ==
  /\ DOMAIN listeners' = DOMAIN listeners /\ Len(listeners') = Len(listeners)
  /\ \A k \in DOMAIN listeners :
       /\ listeners'[k].kind = listeners[k].kind
       /\ k # k0 => listeners'[k] = listeners[k]

LEMMA ListenersType ==
  ASSUME TypeOK
  PROVE  /\ Len(listeners) \in Nat /\ DOMAIN listeners = 1..Len(listeners)
         /\ \A k \in DOMAIN listeners :
              /\ listeners[k] \in Listener /\ k \in Nat \ {0}
              /\ Kind(k) \in {"list", "map"} /\ listeners[k].fields \in Fields
              /\ listeners[k].rows \in Seq(User) /\ listeners[k].pin \in Seq(TestLocation)
<1>1. /\ Len(listeners) \in Nat /\ DOMAIN listeners = 1..Len(listeners)
      /\ \A k \in 1..Len(listeners) : listeners[k] \in Listener
  BY Queued DEF TypeOK
<1>. QED
  BY <1>1 DEF Listener, Kind

\* An assignment to one listener.
LEMMA ListenerChanges ==
  ASSUME TypeOK, NEW k0 \in DOMAIN listeners, NEW l \in Listener,
         l.kind = Kind(k0), listeners' = [listeners EXCEPT ![k0] = l]
  PROVE  listeners' \in Seq(Listener) /\ OnlyChanges(k0) /\ listeners'[k0] = l
<1>1. /\ Len(listeners) \in Nat /\ DOMAIN listeners = 1..Len(listeners)
      /\ \A k \in DOMAIN listeners : listeners[k] \in Listener
  BY ListenersType
<1>2. listeners' \in [1..Len(listeners) -> Listener]
  BY <1>1
<1>3. listeners' \in Seq(Listener)
  BY <1>1, <1>2, SeqDef
<1>4. Len(listeners') = Len(listeners)
  BY <1>1, <1>2, <1>3, LenProperties
<1>. QED
  BY <1>1, <1>2, <1>3, <1>4 DEF OnlyChanges, Kind

LEMMA NothingChanges ==
  ASSUME TypeOK, listeners' = listeners, NEW k0
  PROVE  OnlyChanges(k0)
BY DEF OnlyChanges

\* The first task is taken off, and s is put at the end.
Runs(s) ==
  /\ main # <<>> /\ 1 \in DOMAIN main /\ Head(main) = main[1] /\ main[1] \in Task
  /\ main[1].to \in DOMAIN listeners
  /\ s \in Seq(Task) /\ main' \in Seq(Task) /\ Moved(main, 1, s, main')

\* The snapshot's loop has filled userArray and the listener's variables.
Fills(t, block) ==
  LET docs == Ordered(t.docs)
      f == listeners'[t.to].fields
      last == docs[Len(docs)]
  IN  /\ t.docs # {}
      /\ userArray' \in Seq(User) /\ TellsAll(userArray', docs)
      /\ Len(userArray') = Cardinality(t.docs)
      /\ \A n \in DOMAIN userArray' : \E d \in t.docs : userArray'[n].name = d.player
      /\ f \in Fields /\ listeners'[t.to].rows = listeners[t.to].rows
      /\ last \in t.docs /\ f.location = last.player
      /\ last.email # Absent => f.email = last.email
      /\ \E s : /\ Runs(s) /\ s # <<>>
                /\ \A n \in DOMAIN s : s[n] = [kind |-> block, to |-> t.to]

LEMMA ArriveIs ==
  ASSUME IInv, NEW kind \in {"list", "map"}, NEW block \in {"reload", "locate"},
         SnapshotFilling(kind, block)
  PROVE  /\ IsSnapshot(main[1]) /\ GoodDocs(main[1].docs)
         /\ Kind(main[1].to) = kind
         /\ listeners' \in Seq(Listener) /\ OnlyChanges(main[1].to)
         /\ \/ /\ main[1].docs = {} /\ Runs(<<>>)
               /\ UNCHANGED <<listeners, userArray>>
            \/ Fills(main[1], block)
         /\ UNCHANGED <<server, cached, own, testLocations, selectedUser, crashed, restarts>>
<1> DEFINE t == Head(main)
           docs == Ordered(t.docs)
           N == Len(docs)
<1>1. /\ main # <<>> /\ t.kind = "snapshot" /\ Kind(t.to) = kind
      /\ IF docs = <<>>
         THEN /\ main' = Tail(main)
              /\ UNCHANGED <<listeners, userArray>>
         ELSE /\ userArray' = Refilled(listeners[t.to].fields, docs)
              /\ listeners' = [listeners EXCEPT ![t.to].fields = AfterAll(@, docs)]
              /\ main' = Tail(main) \o Dispatched(block, t.to, docs)
      /\ UNCHANGED <<server, cached, own, testLocations, selectedUser, crashed, restarts>>
  BY DEF SnapshotFilling
<1>2. main \in Seq(Task) /\ TypeOK
  BY DEF IInv, TypeOK
<1>3. /\ t = main[1] /\ t \in Task /\ 1 \in DOMAIN main
      /\ Tail(main) \in Seq(Task) /\ Moved(main, 1, <<>>, Tail(main))
      /\ \A s \in Seq(Task) : /\ Tail(main) \o s \in Seq(Task)
                              /\ Moved(main, 1, s, Tail(main) \o s)
      /\ <<>> \in Seq(Task)
  BY <1>1, <1>2, TaskLeaves, EmptySeq
<1>4. t.to \in DOMAIN listeners
  BY <1>3 DEF IInv, InFlightInOrder, FieldsFit
<1>5. IsSnapshot(t) /\ GoodDocs(t.docs)
  BY <1>1, <1>3, SnapshotsGood DEF IInv, InFlightInOrder, GoodSnapshots, IsSnapshot
<1>6. /\ Cardinality(t.docs) \in Nat
      /\ docs \in Seq(Doc) /\ N = Cardinality(t.docs)
      /\ \A n \in DOMAIN docs : docs[n] \in t.docs
      /\ docs = <<>> <=> t.docs = {}
  BY <1>5, OrderedGood DEF IInv, InFlightInOrder
<1>7. t.to \in Nat \ {0} /\ listeners[t.to] \in Listener /\ listeners[t.to].fields \in Fields
  BY <1>2, <1>4, ListenersType
<1>8. CASE docs = <<>>
  BY <1>1, <1>2, <1>3, <1>4, <1>5, <1>6, <1>8, NothingChanges DEF TypeOK, Runs
<1>9. CASE docs # <<>>
  <2> DEFINE f == listeners[t.to].fields
             g == AfterAll(f, docs)
             l == [listeners[t.to] EXCEPT !.fields = g]
             s == Dispatched(block, t.to, docs)
             last == docs[Len(docs)]
  <2>1. /\ userArray' = Refilled(f, docs)
        /\ listeners' = [listeners EXCEPT ![t.to] = l]
        /\ main' = Tail(main) \o s
    BY <1>1, <1>9
  <2>. HIDE DEF docs
  <2>2. /\ Refilled(f, docs) \in Seq(User)
        /\ Len(Refilled(f, docs)) = N
        /\ \A n \in DOMAIN docs : Refilled(f, docs)[n].name = docs[n].player
        /\ TellsAll(Refilled(f, docs), docs)
        /\ g \in Fields
        /\ Len(docs) \in DOMAIN docs
        /\ g.location = last.player
        /\ last.email # Absent => g.email = last.email
    BY <1>6, <1>7, <1>9, RefilledIs
  <2>3. l \in Listener /\ l.kind = Kind(t.to) /\ l.rows = listeners[t.to].rows /\ l.fields = g
    BY <1>7, <2>2 DEF Listener, Kind
  <2>4. docs \in Seq(Doc) /\ t.to \in Nat \ {0}
    BY <1>6, <1>7
  <2>. HIDE DEF t
  <2>5. /\ s \in Seq(Task) /\ Len(s) = N
        /\ \A n \in 1..N : s[n] = [kind |-> block, to |-> t.to]
    BY <2>4, DispatchedIs
  <2>. HIDE DEF g, l, s
  <2>6. listeners' \in Seq(Listener) /\ OnlyChanges(t.to) /\ listeners'[t.to] = l
    BY <1>2, <1>4, <2>1, <2>3, ListenerChanges
  <2>7. Runs(s)
    BY <1>1, <1>3, <1>4, <2>1, <2>5 DEF Runs, t
  <2>8. s # <<>> /\ \A n \in DOMAIN s : s[n] = [kind |-> block, to |-> t.to]
    BY <1>6, <1>9, <2>5, Queued
  <2>9. \A n \in DOMAIN userArray' : \E d \in t.docs : userArray'[n].name = d.player
    BY <1>6, <2>1, <2>2, Queued
  <2>10. Fills(t, block)
    BY <1>6, <1>9, <2>1, <2>2, <2>3, <2>6, <2>7, <2>8, <2>9 DEF Fills, docs
  <2>. QED
    BY <1>1, <1>3, <1>5, <2>6, <2>10
<1>. QED
  BY <1>8, <1>9

\* The listeners are told of docs, unless they know them.
Pushes(docs) ==
  \E s \in Seq(Task) :
    /\ main' \in Seq(Task) /\ Moved(main, 0, s, main')
    /\ \/ docs = View /\ s = <<>>
       \/ /\ Len(s) = Len(listeners)
          /\ \A k \in DOMAIN s : s[k] = [kind |-> "snapshot", to |-> k, docs |-> docs]

LEMMA PushIs ==
  ASSUME TypeOK, NEW docs \in SUBSET Doc, ViewBecomes(docs)
  PROVE  Pushes(docs)
<1>1. main \in Seq(Task) /\ <<>> \in Seq(Task)
  BY EmptySeq DEF TypeOK
<1>2. CASE docs = View
  <2>1. main' = main /\ Moved(main, 0, <<>>, main)
    BY <1>1, <1>2, NothingMoved DEF ViewBecomes
  <2>. QED
    BY <1>1, <1>2, <2>1 DEF Pushes
<1>3. CASE docs # View
  <2> DEFINE s == Snapshots(docs)
  <2>1. main' = main \o s
    BY <1>3 DEF ViewBecomes
  <2>2. /\ s \in Seq(Task) /\ Len(s) = Len(listeners)
        /\ \A k \in 1..Len(listeners) :
             s[k] = [kind |-> "snapshot", to |-> k, docs |-> docs]
    BY SnapshotsAre
  <2>. HIDE DEF s
  <2>3. DOMAIN s = 1..Len(listeners)
    BY <2>2, Queued
  <2>4. main' \in Seq(Task) /\ Moved(main, 0, s, main')
    BY <1>1, <2>1, <2>2, TasksJoin
  <2>. QED
    BY <2>2, <2>3, <2>4 DEF Pushes
<1>. QED
  BY <1>2, <1>3

\* A listener joins, and is told of the view unless that is empty.
Opens(l) ==
  /\ listeners' \in Seq(Listener) /\ Len(listeners') = Len(listeners) + 1
  /\ DOMAIN listeners' = DOMAIN listeners \cup {Len(listeners) + 1}
  /\ \A k \in DOMAIN listeners : listeners'[k] = listeners[k]
  /\ listeners'[Len(listeners) + 1] = l
  /\ \E s \in Seq(Task) :
       /\ main' \in Seq(Task) /\ Moved(main, 0, s, main')
       /\ \/ View = {} /\ s = <<>>
          \/ /\ Len(s) = 1
             /\ s[1] = [kind |-> "snapshot", to |-> Len(listeners) + 1, docs |-> View]

LEMMA OpenIs ==
  ASSUME TypeOK, View \in SUBSET Doc, NEW l \in Listener, Added(l)
  PROVE  Opens(l)
<1> DEFINE N == Len(listeners)
           t == [kind |-> "snapshot", to |-> N + 1, docs |-> View]
<1>1. main \in Seq(Task) /\ <<>> \in Seq(Task) /\ listeners \in Seq(Listener)
  BY EmptySeq DEF TypeOK
<1>2. N \in Nat /\ DOMAIN listeners = 1..N
  BY <1>1, Queued
<1>3. /\ listeners' = Append(listeners, l)
      /\ main' = IF View = {} THEN main ELSE Append(main, t)
  BY DEF Added
<1>4. t \in Task
  BY <1>2 DEF Task
<1>. HIDE DEF t, N
<1>5. /\ listeners' \in Seq(Listener) /\ Len(listeners') = N + 1
      /\ DOMAIN listeners' = 1..(N + 1)
      /\ \A k \in 1..N : listeners'[k] = listeners[k]
      /\ listeners'[N + 1] = l
  BY <1>1, <1>3, Enqueued DEF N
<1>6. 1..(N + 1) = (1..N) \cup {N + 1}
  BY <1>2
<1>7. \E s \in Seq(Task) :
        /\ main' \in Seq(Task) /\ Moved(main, 0, s, main')
        /\ \/ View = {} /\ s = <<>>
           \/ Len(s) = 1 /\ s[1] = t
  <2>1. CASE View = {}
    <3>1. main' = main /\ Moved(main, 0, <<>>, main)
      BY <1>1, <1>3, <2>1, NothingMoved
    <3>. QED
      BY <1>1, <2>1, <3>1
  <2>2. CASE View # {}
    <3>1. main' = Append(main, t)
      BY <1>3, <2>2
    <3>2. /\ Append(main, t) \in Seq(Task) /\ Moved(main, 0, <<t>>, Append(main, t))
          /\ <<t>> \in Seq(Task) /\ Len(<<t>>) = 1 /\ <<t>>[1] = t
      BY <1>1, <1>4, TaskJoins
    <3>. QED
      BY <3>1, <3>2
  <2>. QED
    BY <2>1, <2>2
<1>. QED
  BY <1>2, <1>5, <1>6, <1>7 DEF Opens, N, t

\* A block runs.
LEMMA BlockIs ==
  ASSUME TypeOK, FieldsFit, main # <<>>, main' = Tail(main)
  PROVE  Runs(<<>>)
<1>1. main \in Seq(Task) /\ <<>> \in Seq(Task)
  BY EmptySeq DEF TypeOK
<1>. QED
  BY <1>1, TaskLeaves DEF Runs, FieldsFit

LEMMA ReloadIs ==
  ASSUME IInv, Reload
  PROVE  /\ Runs(<<>>) /\ main[1].kind = "reload"
         /\ listeners' \in Seq(Listener) /\ OnlyChanges(main[1].to)
         /\ listeners'[main[1].to].rows = userArray
         /\ listeners'[main[1].to].fields = listeners[main[1].to].fields
         /\ UNCHANGED <<server, cached, own, userArray, testLocations,
                        selectedUser, crashed, restarts>>
<1> DEFINE k0 == main[1].to
           l == [listeners[k0] EXCEPT !.rows = userArray]
<1>1. Runs(<<>>)
  BY BlockIs DEF IInv, InFlightInOrder, Reload
<1>2. /\ Head(main) = main[1] /\ k0 \in DOMAIN listeners
      /\ TypeOK /\ userArray \in Seq(User)
  BY <1>1 DEF Runs, IInv, TypeOK
<1>3. listeners[k0] \in Listener
  BY <1>2, ListenersType
<1>4. listeners' = [listeners EXCEPT ![k0] = l]
  BY <1>2 DEF Reload
<1>5. l \in Listener /\ l.kind = Kind(k0) /\ l.rows = userArray /\ l.fields = listeners[k0].fields
  BY <1>2, <1>3 DEF Listener, Kind
<1>. HIDE DEF l, k0
<1>6. listeners' \in Seq(Listener) /\ OnlyChanges(k0) /\ listeners'[k0] = l
  BY <1>2, <1>4, <1>5, ListenerChanges
<1>. QED
  BY <1>1, <1>2, <1>5, <1>6 DEF Reload, k0

LEMMA LocateIs ==
  ASSUME IInv, Locate
  PROVE  /\ Runs(<<>>) /\ main[1].kind = "locate"
         /\ LET f == listeners[main[1].to].fields
                l == [name |-> f.email, location |-> f.location]
            IN  /\ l \in TestLocation
                /\ testLocations' = Append(testLocations, l)
                /\ f.location \in Nameless \/ f.email = f.location
         /\ UNCHANGED <<server, cached, own, listeners, userArray, selectedUser,
                        crashed, restarts>>
<1> DEFINE k0 == main[1].to
           f == listeners[k0].fields
<1>1. Runs(<<>>)
  BY BlockIs DEF IInv, InFlightInOrder, Locate
<1>2. /\ Head(main) = main[1] /\ k0 \in DOMAIN listeners /\ 1 \in DOMAIN main
      /\ TypeOK /\ FieldsFit
  BY <1>1 DEF Runs, IInv, InFlightInOrder
<1>3. f \in Fields
  BY <1>2, ListenersType
<1>4. main[1].kind = "locate"
  BY <1>2 DEF Locate
<1>5. f.location # Absent /\ (f.location \in Nameless \/ f.email = f.location)
  BY <1>2, <1>4 DEF FieldsFit
<1>6. [name |-> f.email, location |-> f.location] \in TestLocation
  BY <1>3, <1>5 DEF Fields, TestLocation
<1>. QED
  BY <1>1, <1>2, <1>4, <1>5, <1>6 DEF Locate

-------------------------------------------------------------------------------
(* Types *)

Sdk == <<profiles, cached, mine, stage, edits>>

Screens == <<listeners, userArray, testLocations, selectedUser>>

\* What the owner's steps and Watch do: the screens are told of the new view.
LEMMA QueuedIs ==
  ASSUME TypeOK, OwnProfileQueued
  PROVE  /\ \E d \in NewDocs(Owner) : mine' = {d}
         /\ mine' \in SUBSET Doc /\ View' \in SUBSET Doc /\ Pushes(View')
         /\ stage = "none" /\ stage' = "queued" /\ View' = cached \cup mine'
         /\ UNCHANGED <<server, cached, Screens, crashed, restarts>>
<1>1. PICK d \in NewDocs(Owner) : mine' = {d} /\ ViewBecomes(cached \cup {d})
  BY DEF OwnProfileQueued
<1>2. d \in Doc
  BY DEF NewDocs
<1>3. View' = cached \cup {d} /\ cached \cup {d} \in SUBSET Doc
  BY <1>1, <1>2 DEF OwnProfileQueued, View, TypeOK
<1>4. Pushes(cached \cup {d})
  BY <1>1, <1>3, PushIs
<1>. QED
  BY <1>1, <1>2, <1>3, <1>4 DEF OwnProfileQueued, Screens

LEMMA StoredIs ==
  ASSUME TypeOK, OwnProfileStored
  PROVE  /\ stage = "queued" /\ stage' = "stored"
         /\ profiles' = profiles \cup mine /\ cached' = cached \cup mine
         /\ View' = View
         /\ UNCHANGED <<mine, Screens, main, crashed, edits, restarts>>
BY DEF OwnProfileStored, View, Screens

LEMMA RefusedIs ==
  ASSUME TypeOK, OwnProfileRefused
  PROVE  /\ stage = "queued" /\ stage' = "refused"
         /\ View' = cached /\ View' \in SUBSET Doc /\ Pushes(View')
         /\ UNCHANGED <<server, cached, mine, Screens, crashed, restarts>>
<1>1. View' = cached /\ cached \in SUBSET Doc
  BY DEF OwnProfileRefused, View, TypeOK
<1>2. Pushes(cached)
  BY <1>1, PushIs DEF OwnProfileRefused
<1>. QED
  BY <1>1, <1>2 DEF OwnProfileRefused, Screens

LEMMA WatchIs ==
  ASSUME TypeOK, Watch
  PROVE  /\ cached' = profiles /\ cached # profiles
         /\ View' \in SUBSET Doc /\ Pushes(View')
         /\ UNCHANGED <<server, own, Screens, crashed, restarts>>
<1> DEFINE docs == profiles \cup (IF stage = "queued" THEN mine ELSE {})
<1>1. View' = docs /\ docs \in SUBSET Doc
  BY DEF Watch, View, TypeOK, own
<1>2. Pushes(docs)
  <2>. HIDE DEF docs
  <2>1. ViewBecomes(docs)
    BY DEF Watch, docs
  <2>. QED
    BY <1>1, <2>1, PushIs
<1>. QED
  BY <1>1, <1>2 DEF Watch, Screens

LEMMA ListOpens ==
  ASSUME TypeOK, OpenList
  PROVE  /\ Opens([kind |-> "list", fields |-> NoFields, rows |-> userArray, pin |-> <<>>])
         /\ UNCHANGED <<server, cached, own, userArray, testLocations, selectedUser,
                        crashed, restarts>>
<1> DEFINE l == [kind |-> "list", fields |-> NoFields, rows |-> userArray, pin |-> <<>>]
<1>1. l \in Listener
  <2>1. <<>> \in Seq(TestLocation)
    BY EmptySeq
  <2>. QED
    BY <2>1 DEF Listener, NoFields, Fields, TypeOK
<1>2. Added(l) /\ View \in SUBSET Doc
  BY DEF OpenList, View, TypeOK
<1>. HIDE DEF l
<1>3. Opens(l)
  BY <1>1, <1>2, OpenIs
<1>. QED
  BY <1>3 DEF OpenList, l

LEMMA MapOpens ==
  ASSUME TypeOK, OpenMap
  PROVE  /\ Opens([kind |-> "map", fields |-> NoFields, rows |-> <<>>, pin |-> Pin])
         /\ UNCHANGED <<server, cached, own, userArray, testLocations, selectedUser,
                        crashed, restarts>>
<1> DEFINE l == [kind |-> "map", fields |-> NoFields, rows |-> <<>>, pin |-> Pin]
<1>1. l \in Listener
  <2>1. <<>> \in Seq(TestLocation) /\ <<>> \in Seq(User)
    BY EmptySeq
  <2>2. Pin \in Seq(TestLocation)
    <3>1. CASE testLocations = <<>>
      BY <2>1, <3>1 DEF Pin
    <3>2. CASE testLocations # <<>>
      <4> DEFINE q == testLocations
      <4>1. q \in Seq(TestLocation) /\ Len(q) \in 1..Len(q)
        <5>1. q \in Seq(TestLocation)
          BY DEF TypeOK
        <5>. HIDE DEF q
        <5>2. q # <<>>
          BY <3>2 DEF q
        <5>. QED
          BY <5>1, <5>2, Queued
      <4>2. Last(q) \in TestLocation
        <5>. HIDE DEF q
        <5>. QED
          BY <4>1, Queued DEF Last
      <4>3. Pin = <<Last(q)>>
        BY <3>2 DEF Pin
      <4>. HIDE DEF q
      <4>. QED
        BY <4>2, <4>3
    <3>. QED
      BY <3>1, <3>2
  <2>3. NoFields \in Fields
    BY DEF NoFields, Fields
  <2>. QED
    BY <2>1, <2>2, <2>3 DEF Listener
<1>2. Added(l) /\ View \in SUBSET Doc
  BY DEF OpenMap, View, TypeOK
<1>. HIDE DEF l
<1>3. Opens(l)
  BY <1>1, <1>2, OpenIs
<1>. QED
  BY <1>3 DEF OpenMap, l

LEMMA TypeInit == Init => TypeOK
<1>1. <<>> \in Seq(Listener) /\ <<>> \in Seq(User) /\ <<>> \in Seq(TestLocation)
      /\ <<>> \in Seq(Task)
  BY EmptySeq
<1>2. 0 \in 0..MaxEdits /\ 0 \in 0..MaxRestarts
  BY BoundsAreNaturals
<1>. QED
  BY <1>1, <1>2 DEF Init, TypeOK

LEMMA ArriveType ==
  ASSUME IInv, NEW kind \in {"list", "map"}, NEW block \in {"reload", "locate"},
         SnapshotFilling(kind, block)
  PROVE  TypeOK'
<1>1. TypeOK
  BY DEF IInv
<1>2. /\ listeners' \in Seq(Listener)
      /\ \/ Runs(<<>>) /\ userArray' = userArray
         \/ Fills(main[1], block)
      /\ UNCHANGED <<server, cached, own, testLocations, selectedUser, crashed, restarts>>
  BY ArriveIs
<1>3. main' \in Seq(Task) /\ userArray' \in Seq(User)
  BY <1>1, <1>2 DEF Runs, Fills, TypeOK
<1>. QED
  BY <1>1, <1>2, <1>3 DEF TypeOK, server, own

LEMMA ProcessEndsType ==
  ASSUME ProcessEnds
  PROVE  /\ listeners' \in Seq(Listener) /\ userArray' \in Seq(User)
         /\ testLocations' \in Seq(TestLocation) /\ selectedUser' \in User \cup {Absent}
         /\ main' \in Seq(Task)
<1>1. <<>> \in Seq(Listener) /\ <<>> \in Seq(User) /\ <<>> \in Seq(TestLocation)
      /\ <<>> \in Seq(Task)
  BY EmptySeq
<1>. QED
  BY <1>1 DEF ProcessEnds

LEMMA TypeStep == IInv /\ [Next]_vars => TypeOK'
<1> SUFFICES ASSUME IInv, [Next]_vars
             PROVE  TypeOK'
  OBVIOUS
<1>1. TypeOK
  BY DEF IInv
<1>2. CASE UNCHANGED vars
  BY <1>1, <1>2 DEF TypeOK, vars
<1>3. ASSUME NEW p \in Player, ProfileCreated(p)
      PROVE  TypeOK'
  BY <1>1, <1>3 DEF TypeOK, ProfileCreated, NewDocs, own
<1>4. ASSUME NEW d \in profiles, ProfileChanges(d)
      PROVE  TypeOK'
  <2>1. d \in Doc
    BY <1>1 DEF TypeOK
  <2>2. [d EXCEPT !.canPlay = ~@] \in Doc
    BY <2>1 DEF Doc
  <2>3. profiles' \subseteq Doc
    BY <1>1, <1>4, <2>2 DEF TypeOK, ProfileChanges
  <2>4. edits' \in 0..MaxEdits
    BY <1>1, <1>4, BoundsAreNaturals DEF TypeOK, ProfileChanges
  <2>. QED
    BY <1>1, <1>4, <2>3, <2>4 DEF TypeOK, ProfileChanges, own
<1>5. CASE OwnProfileQueued
  BY <1>1, <1>5, QueuedIs DEF TypeOK, Pushes, server, Screens
<1>6. CASE OwnProfileStored
  BY <1>1, <1>6 DEF TypeOK, OwnProfileStored
<1>7. CASE OwnProfileRefused
  BY <1>1, <1>7, RefusedIs DEF TypeOK, Pushes, server, Screens
<1>8. CASE Watch
  BY <1>1, <1>8, WatchIs DEF TypeOK, Pushes, server, own, Screens
<1>9. CASE OpenList
  BY <1>1, <1>9, ListOpens DEF TypeOK, Opens, server, own
<1>10. CASE OpenMap
  BY <1>1, <1>10, MapOpens DEF TypeOK, Opens, server, own
<1>11. CASE PlayersArrive
  BY <1>11, ArriveType DEF PlayersArrive
<1>12. CASE LocationsArrive
  BY <1>12, ArriveType DEF LocationsArrive
<1>13. CASE Reload
  BY <1>1, <1>13, ReloadIs DEF TypeOK, Runs, server, own
<1>14. CASE Locate
  <2>1. testLocations' \in Seq(TestLocation)
    <3>1. PICK l \in TestLocation : testLocations' = Append(testLocations, l)
      BY <1>14, LocateIs
    <3>2. testLocations \in Seq(TestLocation)
      BY <1>1 DEF TypeOK
    <3>. QED
      BY <3>1, <3>2, Enqueued
  <2>. QED
    BY <1>1, <1>14, <2>1, LocateIs DEF TypeOK, Runs, server, own
<1>15. ASSUME NEW n \in Place, SelectRow(n)
       PROVE  TypeOK'
  <2>1. userArray[n] \in User
    BY <1>1, <1>15, Queued DEF TypeOK, SelectRow
  <2>. QED
    BY <1>1, <1>15, <2>1 DEF TypeOK, SelectRow, server, own
<1>16. ASSUME NEW n \in Place, SelectMissingRow(n)
       PROVE  TypeOK'
  BY <1>1, <1>16, ProcessEndsType DEF TypeOK, SelectMissingRow, server, own
<1>17. CASE Restart
  <2>1. restarts' \in 0..MaxRestarts /\ crashed' \in BOOLEAN
    <3>1. MaxRestarts \in Nat /\ restarts \in 0..MaxRestarts
      BY <1>1, BoundsAreNaturals DEF TypeOK
    <3>2. restarts < MaxRestarts /\ restarts' = restarts + 1 /\ crashed' = FALSE
      BY <1>17 DEF Restart
    <3>3. restarts' \in 0..MaxRestarts
      BY <3>1, <3>2
    <3>. QED
      BY <3>2, <3>3
  <2>. QED
    BY <1>1, <1>17, <2>1, ProcessEndsType DEF TypeOK, Restart, server, own
<1>. QED
  BY <1>2, <1>3, <1>4, <1>5, <1>6, <1>7, <1>8, <1>9, <1>10, <1>11, <1>12, <1>13,
     <1>14, <1>15, <1>16, <1>17 DEF Next

-------------------------------------------------------------------------------
(* Documents *)

\* What a step leaves of the documents: each has a version of its own still.
LEMMA ProfilesStep ==
  IInv /\ [Next]_vars =>
    ProfilesFit' /\ CopiesOf(profiles \cup mine, (profiles \cup mine)')
<1> SUFFICES ASSUME IInv, [Next]_vars
             PROVE  ProfilesFit' /\ CopiesOf(profiles \cup mine, (profiles \cup mine)')
  OBVIOUS
<1>1. TypeOK /\ ProfilesFit
  BY DEF IInv, InFlightInOrder
<1>2. /\ \A d, e \in profiles \cup mine :
           /\ d.player = e.player \/ d.place = e.place => SameDoc(d, e)
           /\ d.email \in {d.player, Absent}
      /\ \A d, e \in mine : d = e /\ d.player = Owner /\ d.email = Owner
      /\ stage = "none" => mine = {}
      /\ stage # "stored" => \A d \in profiles : d.player # Owner
      /\ OneVersion(profiles) /\ OneVersion(cached) /\ CopiesOf(cached, profiles)
  BY <1>1 DEF ProfilesFit
<1>3. \A docs, more : docs \subseteq more => CopiesOf(docs, more)
  BY DEF CopiesOf, SameDoc
<1>4. ASSUME UNCHANGED <<profiles, cached, mine, stage>>
      PROVE  ProfilesFit' /\ CopiesOf(profiles \cup mine, (profiles \cup mine)')
  BY <1>1, <1>3, <1>4 DEF ProfilesFit
<1>5. ASSUME NEW p \in Player, ProfileCreated(p)
      PROVE  ProfilesFit' /\ CopiesOf(profiles \cup mine, (profiles \cup mine)')
  <2>1. PICK d0 \in NewDocs(p) : profiles' = profiles \cup {d0}
    BY <1>5 DEF ProfileCreated
  <2>2. /\ d0.player = p /\ d0.email \in {p, Absent} /\ p # Owner
        /\ \A e \in profiles \cup mine : d0.place # e.place
        /\ \A e \in profiles : e.player # p
        /\ UNCHANGED <<cached, mine, stage>>
    BY <1>5, <2>1 DEF NewDocs, ProfileCreated, own
  <2>3. \A e \in profiles \cup mine : d0.player # e.player
    BY <1>2, <2>2
  <2>4. \A d, e \in profiles' \cup mine :
          /\ d.player = e.player \/ d.place = e.place => SameDoc(d, e)
          /\ d.email \in {d.player, Absent}
    BY <1>2, <2>1, <2>2, <2>3 DEF SameDoc
  <2>5. OneVersion(profiles') /\ CopiesOf(cached, profiles')
    BY <1>2, <2>1, <2>3 DEF OneVersion, CopiesOf
  <2>. QED
    BY <1>2, <1>3, <2>1, <2>2, <2>4, <2>5 DEF ProfilesFit
<1>6. ASSUME NEW d0 \in profiles, ProfileChanges(d0)
      PROVE  ProfilesFit' /\ CopiesOf(profiles \cup mine, (profiles \cup mine)')
  <2> DEFINE d1 == [d0 EXCEPT !.canPlay = ~@]
  <2>1. d0 \in Doc
    BY <1>1 DEF TypeOK
  <2>2. SameDoc(d1, d0) /\ SameDoc(d0, d1)
    BY <2>1 DEF Doc, SameDoc
  <2>3. /\ profiles' = (profiles \ {d0}) \cup {d1}
        /\ UNCHANGED <<cached, mine, stage>>
    BY <1>6 DEF ProfileChanges, own
  <2>. HIDE DEF d1
  <2>4. \A d \in profiles' \cup mine : \E e \in profiles \cup mine : SameDoc(d, e)
    BY <2>2, <2>3 DEF SameDoc
  <2>5. \A e \in profiles \cup mine : \E d \in profiles' \cup mine : SameDoc(e, d)
    BY <2>2, <2>3 DEF SameDoc
  <2>6. \A e \in profiles : \E d \in profiles' : SameDoc(e, d)
    BY <2>2, <2>3 DEF SameDoc
  <2>7. \A d, e \in profiles' \cup mine :
          /\ d.player = e.player \/ d.place = e.place => SameDoc(d, e)
          /\ d.email \in {d.player, Absent}
    BY <1>2, <2>4 DEF SameDoc
  <2>8. OneVersion(profiles') /\ CopiesOf(cached, profiles')
    BY <1>2, <2>2, <2>3, <2>6 DEF OneVersion, CopiesOf, SameDoc
  <2>9. stage # "stored" => \A d \in profiles' : d.player # Owner
    BY <1>2, <2>2, <2>3 DEF SameDoc
  <2>. QED
    BY <1>2, <2>3, <2>5, <2>7, <2>8, <2>9 DEF ProfilesFit, CopiesOf
<1>7. CASE OwnProfileQueued
  <2>1. PICK d0 \in NewDocs(Owner) : mine' = {d0}
    BY <1>1, <1>7, QueuedIs
  <2>2. /\ d0.player = Owner /\ d0.email = Owner
        /\ \A e \in profiles : d0.place # e.place
        /\ stage = "none" /\ stage' = "queued" /\ mine = {}
        /\ UNCHANGED <<profiles, cached>>
    BY <1>1, <1>2, <1>7, <2>1, QueuedIs DEF NewDocs, server
  <2>3. \A e \in profiles : d0.player # e.player
    BY <1>2, <2>2
  <2>4. \A d, e \in profiles \cup mine' :
          /\ d.player = e.player \/ d.place = e.place => SameDoc(d, e)
          /\ d.email \in {d.player, Absent}
    BY <1>2, <2>1, <2>2, <2>3 DEF SameDoc
  <2>. QED
    BY <1>2, <1>3, <2>1, <2>2, <2>4 DEF ProfilesFit
<1>8. CASE OwnProfileStored
  <2>1. /\ stage = "queued" /\ stage' = "stored" /\ mine' = mine
        /\ profiles' = profiles \cup mine /\ cached' = cached \cup mine
    BY <1>1, <1>8, StoredIs
  <2>2. OneVersion(profiles') /\ CopiesOf(cached', profiles')
    BY <1>2, <2>1 DEF OneVersion, CopiesOf, SameDoc
  <2>3. OneVersion(cached')
    BY <1>1, <2>1, ViewsGood DEF GoodViews, GoodDocs
  <2>. QED
    BY <1>2, <1>3, <2>1, <2>2, <2>3 DEF ProfilesFit
<1>9. CASE OwnProfileRefused
  <2>1. stage = "queued" /\ stage' = "refused" /\ UNCHANGED <<profiles, cached, mine>>
    BY <1>1, <1>9, RefusedIs DEF server
  <2>. QED
    BY <1>2, <1>3, <2>1 DEF ProfilesFit
<1>10. CASE Watch
  <2>1. cached' = profiles /\ UNCHANGED <<profiles, mine, stage>>
    BY <1>1, <1>10, WatchIs DEF server, own
  <2>. QED
    BY <1>2, <1>3, <2>1 DEF ProfilesFit
<1>11. \/ UNCHANGED <<profiles, cached, mine, stage>>
       \/ \E p \in Player : ProfileCreated(p)
       \/ \E d \in profiles : ProfileChanges(d)
       \/ OwnProfileQueued \/ OwnProfileStored \/ OwnProfileRefused \/ Watch
  BY DEF Next, vars, server, own, OpenList, OpenMap, PlayersArrive, LocationsArrive,
         SnapshotFilling, Reload, Locate, SelectRow, SelectMissingRow, Restart
<1>. QED
  BY <1>4, <1>5, <1>6, <1>7, <1>8, <1>9, <1>10, <1>11

-------------------------------------------------------------------------------
(* The steps, as the screens see them *)

Stays == View' = View /\ UNCHANGED <<listeners, userArray, main, crashed>>

Told == Pushes(View') /\ UNCHANGED <<listeners, userArray, crashed>>

Opened ==
  /\ View' = View /\ UNCHANGED <<userArray, crashed>>
  /\ \E l \in Listener : /\ Opens(l) /\ l.fields = NoFields
                         /\ l.rows = userArray \/ l.rows = <<>>

Arrived ==
  /\ View' = View /\ crashed' = crashed
  /\ IsSnapshot(main[1]) /\ GoodDocs(main[1].docs) /\ OnlyChanges(main[1].to)
  /\ \/ /\ main[1].docs = {} /\ Runs(<<>>)
        /\ UNCHANGED <<listeners, userArray>>
     \/ /\ Kind(main[1].to) = "list"
        /\ Fills(main[1], "reload")
     \/ /\ Kind(main[1].to) = "map"
        /\ Fills(main[1], "locate")

Reloaded ==
  /\ View' = View /\ UNCHANGED <<userArray, crashed>>
  /\ Runs(<<>>) /\ main[1].kind = "reload" /\ OnlyChanges(main[1].to)
  /\ listeners'[main[1].to].rows = userArray
  /\ listeners'[main[1].to].fields = listeners[main[1].to].fields

Located ==
  /\ View' = View /\ UNCHANGED <<listeners, userArray, crashed>>
  /\ Runs(<<>>) /\ main[1].kind = "locate"

Ended ==
  /\ View' = View /\ ProcessEnds
  /\ crashed' = FALSE \/ \E n \in Place : SelectMissingRow(n)

LEMMA StepIs ==
  ASSUME IInv, [Next]_vars
  PROVE  Stays \/ Told \/ Opened \/ Arrived \/ Reloaded \/ Located \/ Ended
<1>1. TypeOK
  BY DEF IInv
<1>2. ASSUME UNCHANGED <<cached, mine, stage>>
      PROVE  View' = View
  BY <1>2 DEF View
<1>3. CASE UNCHANGED vars
  BY <1>2, <1>3 DEF vars, Stays
<1>4. ASSUME NEW p \in Player, ProfileCreated(p)
      PROVE  Stays
  BY <1>2, <1>4 DEF ProfileCreated, own, Stays
<1>5. ASSUME NEW d \in profiles, ProfileChanges(d)
      PROVE  Stays
  BY <1>2, <1>5 DEF ProfileChanges, own, Stays
<1>6. CASE OwnProfileQueued
  BY <1>1, <1>6, QueuedIs DEF Told, Screens
<1>7. CASE OwnProfileStored
  BY <1>1, <1>7, StoredIs DEF Stays, Screens
<1>8. CASE OwnProfileRefused
  BY <1>1, <1>8, RefusedIs DEF Told, Screens
<1>9. CASE Watch
  BY <1>1, <1>9, WatchIs DEF Told, Screens
<1>10. CASE OpenList
  <2> DEFINE l == [kind |-> "list", fields |-> NoFields, rows |-> userArray, pin |-> <<>>]
  <2>1. Opens(l) /\ UNCHANGED <<cached, own, userArray, crashed>>
    BY <1>1, <1>10, ListOpens
  <2>2. l \in Listener
    <3>1. /\ listeners' \in Seq(Listener) /\ Len(listeners') = Len(listeners) + 1
          /\ listeners'[Len(listeners) + 1] = l
      BY <2>1 DEF Opens
    <3>2. Len(listeners) \in Nat
      BY <1>1, ListenersType
    <3>. HIDE DEF l
    <3>. QED
      BY <3>1, <3>2, Queued
  <2>3. l.fields = NoFields /\ l.rows = userArray
    OBVIOUS
  <2>. HIDE DEF l
  <2>. QED
    BY <1>2, <2>1, <2>2, <2>3 DEF Opened, own
<1>11. CASE OpenMap
  <2> DEFINE l == [kind |-> "map", fields |-> NoFields, rows |-> <<>>, pin |-> Pin]
  <2>1. Opens(l) /\ UNCHANGED <<cached, own, userArray, crashed>>
    BY <1>1, <1>11, MapOpens
  <2>2. l \in Listener
    <3>1. /\ listeners' \in Seq(Listener) /\ Len(listeners') = Len(listeners) + 1
          /\ listeners'[Len(listeners) + 1] = l
      BY <2>1 DEF Opens
    <3>2. Len(listeners) \in Nat
      BY <1>1, ListenersType
    <3>. HIDE DEF l
    <3>. QED
      BY <3>1, <3>2, Queued
  <2>3. l.fields = NoFields /\ l.rows = <<>>
    OBVIOUS
  <2>. HIDE DEF l
  <2>. QED
    BY <1>2, <2>1, <2>2, <2>3 DEF Opened, own
<1>12. CASE PlayersArrive
  BY <1>2, <1>12, ArriveIs DEF PlayersArrive, Arrived, own
<1>13. CASE LocationsArrive
  BY <1>2, <1>13, ArriveIs DEF LocationsArrive, Arrived, own
<1>14. CASE Reload
  BY <1>2, <1>14, ReloadIs DEF Reloaded, own
<1>15. CASE Locate
  BY <1>2, <1>15, LocateIs DEF Located, own
<1>16. ASSUME NEW n \in Place, SelectRow(n)
       PROVE  Stays
  BY <1>2, <1>16 DEF SelectRow, own, Stays
<1>17. ASSUME NEW n \in Place, SelectMissingRow(n)
       PROVE  Ended
  BY <1>2, <1>17 DEF SelectMissingRow, own, Ended
<1>18. CASE Restart
  BY <1>2, <1>18 DEF Restart, own, Ended
<1>. QED
  BY <1>3, <1>4, <1>5, <1>6, <1>7, <1>8, <1>9, <1>10, <1>11, <1>12, <1>13,
     <1>14, <1>15, <1>16, <1>17, <1>18 DEF Next

\* The SDK's copy is not emptied again, a refusal is final, and up to it
\* nobody who is in view leaves it.
LEMMA ViewGrows ==
  ASSUME IInv, [Next]_vars
  PROVE  /\ cached' = {} => cached = {}
         /\ stage' # "refused" =>
              /\ stage # "refused"
              /\ \A d \in View : \E e \in View' : d.player = e.player
<1>1. TypeOK /\ ProfilesFit
  BY DEF IInv, InFlightInOrder
<1>2. CopiesOf(cached, profiles)
  BY <1>1 DEF ProfilesFit
<1>3. ASSUME UNCHANGED <<cached, mine, stage>>
      PROVE  cached' = cached /\ stage' = stage /\ View' = View
  BY <1>3 DEF View
<1>4. CASE OwnProfileQueued
  <2>1. /\ cached' = cached /\ stage = "none" /\ View' = cached \cup mine'
    BY <1>1, <1>4, QueuedIs
  <2>. QED
    BY <2>1 DEF View
<1>5. CASE OwnProfileStored
  BY <1>1, <1>5, StoredIs
<1>6. CASE OwnProfileRefused
  BY <1>1, <1>6, RefusedIs
<1>7. CASE Watch
  <2>1. /\ cached' = profiles /\ cached # profiles /\ UNCHANGED <<mine, stage>>
    BY <1>1, <1>7, WatchIs DEF own
  <2>2. cached' # {}
    BY <1>2, <2>1 DEF CopiesOf
  <2>3. View' = profiles \cup (IF stage = "queued" THEN mine ELSE {})
    BY <2>1 DEF View
  <2>4. \A d \in View : \E e \in View' : d.player = e.player
    BY <1>2, <2>3 DEF View, CopiesOf, SameDoc
  <2>. QED
    BY <2>1, <2>2, <2>4
<1>8. \/ UNCHANGED <<cached, mine, stage>>
      \/ OwnProfileQueued \/ OwnProfileStored \/ OwnProfileRefused \/ Watch
  BY DEF Next, vars, own, ProfileCreated, ProfileChanges, OpenList, OpenMap,
         PlayersArrive, LocationsArrive, SnapshotFilling, Reload, Locate, SelectRow,
         SelectMissingRow, Restart
<1>. QED
  BY <1>3, <1>4, <1>5, <1>6, <1>7, <1>8

\* Every task is for a listener, and every snapshot is an old one or what the
\* query shows now.
LEMMA TasksStep ==
  ASSUME IInv, [Next]_vars
  PROVE  \A i \in DOMAIN main' :
           /\ main'[i].to \in DOMAIN listeners'
           /\ IsSnapshot(main'[i]) =>
                main'[i].docs = View' \/ \E j \in DOMAIN main : main'[i] = main[j]
<1> DEFINE Good(t) ==
             /\ t.to \in DOMAIN listeners'
             /\ IsSnapshot(t) => t.docs = View' \/ \E j \in DOMAIN main : t = main[j]
<1>0. SUFFICES \A i \in DOMAIN main' : Good(main'[i])
  OBVIOUS
<1>1. main \in Seq(Task) /\ \A i \in DOMAIN main : main[i].to \in DOMAIN listeners
  BY DEF IInv, InFlightInOrder, TypeOK, FieldsFit
<1>2. /\ Len(listeners) \in Nat /\ DOMAIN listeners = 1..Len(listeners)
  BY ListenersType DEF IInv
<1>3. ASSUME NEW s \in Seq(Task), NEW p \in {0, 1}, Moved(main, p, s, main'),
             main' \in Seq(Task), DOMAIN listeners \subseteq DOMAIN listeners',
             \A n \in DOMAIN s : Good(s[n])
      PROVE  \A i \in DOMAIN main' : Good(main'[i])
  <2>1. \A j \in DOMAIN main : Good(main[j])
    BY <1>1, <1>3
  <2>. HIDE DEF Good
  <2>2. \A i \in DOMAIN main' : \/ \E j \in DOMAIN main : main'[i] = main[j]
                                \/ \E n \in DOMAIN s : main'[i] = s[n]
    BY <1>1, <1>3, EachTask
  <2>. QED
    BY <1>3, <2>1, <2>2
<1>4. ASSUME Runs(<<>>), DOMAIN listeners \subseteq DOMAIN listeners'
      PROVE  \A i \in DOMAIN main' : Good(main'[i])
  <2>1. \A n \in DOMAIN <<>> : Good(<<>>[n])
    OBVIOUS
  <2>. HIDE DEF Good
  <2>. QED
    BY <1>3, <1>4, <2>1 DEF Runs
<1>5. CASE Stays
  BY <1>1, <1>5 DEF Stays
<1>6. CASE Told
  <2>1. PICK s \in Seq(Task) :
          /\ main' \in Seq(Task) /\ Moved(main, 0, s, main')
          /\ \/ View' = View /\ s = <<>>
             \/ /\ Len(s) = Len(listeners)
                /\ \A k \in DOMAIN s : s[k] = [kind |-> "snapshot", to |-> k, docs |-> View']
    BY <1>6 DEF Told, Pushes
  <2>2. listeners' = listeners
    BY <1>6 DEF Told
  <2>3. ASSUME NEW n \in DOMAIN s
        PROVE  Good(s[n])
    <3>1. CASE s = <<>>
      BY <2>3, <3>1
    <3>2. CASE /\ Len(s) = Len(listeners)
               /\ \A k \in DOMAIN s : s[k] = [kind |-> "snapshot", to |-> k, docs |-> View']
      <4>1. s[n].to = n /\ s[n].docs = View'
        BY <2>3, <3>2
      <4>2. DOMAIN s = DOMAIN listeners
        BY <1>2, <2>1, <3>2, Queued
      <4>. QED
        BY <2>2, <2>3, <4>1, <4>2
    <3>. QED
      BY <2>1, <3>1, <3>2
  <2>4. \A n \in DOMAIN s : Good(s[n])
    BY <2>3
  <2>5. DOMAIN listeners \subseteq DOMAIN listeners' /\ 0 \in {0, 1}
    BY <2>2
  <2>. HIDE DEF Good
  <2>6. s \in Seq(Task) /\ main' \in Seq(Task) /\ Moved(main, 0, s, main')
    BY <2>1
  <2>. QED
    BY <1>3, <2>4, <2>5, <2>6
<1>7. CASE Opened
  <2>1. PICK l \in Listener : Opens(l)
    BY <1>7 DEF Opened
  <2>2. DOMAIN listeners' = DOMAIN listeners \cup {Len(listeners) + 1}
    BY <2>1 DEF Opens
  <2>3. PICK s \in Seq(Task) :
          /\ main' \in Seq(Task) /\ Moved(main, 0, s, main')
          /\ \/ View = {} /\ s = <<>>
             \/ /\ Len(s) = 1
                /\ s[1] = [kind |-> "snapshot", to |-> Len(listeners) + 1, docs |-> View]
    BY <2>1 DEF Opens
  <2>4. View' = View
    BY <1>7 DEF Opened
  <2>5. ASSUME NEW n \in DOMAIN s
        PROVE  Good(s[n])
    <3>1. s # <<>> /\ DOMAIN s = 1..Len(s)
      BY <2>3, <2>5, Queued
    <3>2. n = 1 /\ s[n].to = Len(listeners) + 1 /\ s[n].docs = View
      BY <2>3, <2>5, <3>1
    <3>. QED
      BY <2>2, <2>4, <3>2
  <2>6. \A n \in DOMAIN s : Good(s[n])
    BY <2>5
  <2>7. DOMAIN listeners \subseteq DOMAIN listeners' /\ 0 \in {0, 1}
    BY <2>2
  <2>. HIDE DEF Good
  <2>8. s \in Seq(Task) /\ main' \in Seq(Task) /\ Moved(main, 0, s, main')
    BY <2>3
  <2>. QED
    BY <1>3, <2>6, <2>7, <2>8
<1>8. CASE Arrived
  <2>1. DOMAIN listeners' = DOMAIN listeners
    BY <1>8 DEF Arrived, OnlyChanges
  <2>2. CASE Runs(<<>>)
    BY <1>4, <2>1, <2>2
  <2>3. ASSUME NEW block \in {"reload", "locate"}, Fills(main[1], block)
        PROVE  \A i \in DOMAIN main' : Good(main'[i])
    <3>1. PICK s : /\ Runs(s)
                   /\ \A n \in DOMAIN s : s[n] = [kind |-> block, to |-> main[1].to]
      BY <2>3 DEF Fills
    <3>2. \A n \in DOMAIN s : s[n].to = main[1].to /\ ~IsSnapshot(s[n])
      BY <3>1 DEF IsSnapshot
    <3>3. \A n \in DOMAIN s : Good(s[n])
      BY <2>1, <3>1, <3>2 DEF Runs
    <3>. HIDE DEF Good
    <3>. QED
      BY <1>3, <2>1, <3>1, <3>3 DEF Runs
  <2>. QED
    BY <1>8, <2>2, <2>3 DEF Arrived
<1>9. CASE Reloaded \/ Located
  BY <1>4, <1>9 DEF Reloaded, Located, OnlyChanges
<1>10. CASE Ended
  <2>1. main' = <<>> /\ DOMAIN <<>> = {}
    BY <1>10 DEF Ended, ProcessEnds
  <2>. QED
    BY <2>1
<1>. QED
  BY <1>5, <1>6, <1>7, <1>8, <1>9, <1>10, StepIs

LEMMA ViewsStep ==
  IInv /\ [Next]_vars => GoodViews' /\ TypeOK' /\ ProfilesFit'
<1>1. IInv /\ [Next]_vars => TypeOK' /\ ProfilesFit'
  BY TypeStep, ProfilesStep
<1>2. (TypeOK /\ ProfilesFit => GoodViews)'
  BY ViewsGood, PTL
<1>. QED
  BY <1>1, <1>2

LEMMA SnapshotsStep ==
  IInv /\ [Next]_vars => SnapshotsFit'
<1> SUFFICES ASSUME IInv, [Next]_vars, NEW i \in DOMAIN main', IsSnapshot(main'[i])
             PROVE  OneVersion(main'[i].docs) /\ CopiesOf(main'[i].docs, (profiles \cup mine)')
  BY DEF SnapshotsFit
<1>1. CASE main'[i].docs = View'
  BY <1>1, ViewsStep DEF GoodViews, GoodDocs
<1>2. ASSUME NEW j \in DOMAIN main, main'[i] = main[j]
      PROVE  OneVersion(main'[i].docs) /\ CopiesOf(main'[i].docs, (profiles \cup mine)')
  <2>1. OneVersion(main[j].docs) /\ CopiesOf(main[j].docs, profiles \cup mine)
    BY <1>2 DEF IInv, InFlightInOrder, SnapshotsFit
  <2>2. \A e \in profiles \cup mine : \E g \in (profiles \cup mine)' : SameDoc(e, g)
    BY ProfilesStep DEF CopiesOf
  <2>3. CopiesOf(main[j].docs, (profiles \cup mine)')
    BY <2>1, <2>2, CopiesOfMore
  <2>. QED
    BY <1>2, <2>1, <2>3
<1>. QED
  BY <1>1, <1>2, TasksStep

-------------------------------------------------------------------------------
(* Tables *)

\* Listener k waits for docs in tasks q, the newest they hold.
Waits(q, docs, k) ==
  \E i \in DOMAIN q : IsSnapshot(q[i]) /\ q[i].to = k /\ NewestFrom(q, i, docs)

\* Nobody waits for older ones, arr has docs, and so has k's table or will.
Shown(q, arr, docs, k, list, rows) ==
  /\ NewestFrom(q, 1, docs)
  /\ TellsAll(arr, Ordered(docs))
  /\ list => \/ TellsAll(rows, Ordered(docs))
             \/ \E i \in DOMAIN q : q[i] = [kind |-> "reload", to |-> k]

LEMMA TablesAre ==
  TablesCatchUp <=>
    (View # {} =>
       \A k \in DOMAIN listeners :
         \/ Waits(main, View, k)
         \/ Shown(main, userArray, View, k, Kind(k) = "list", listeners[k].rows))
BY DEF TablesCatchUp, Waits, Shown

\* Adding snapshots of docs keeps them the newest.
LEMMA NewestAfterPush ==
  ASSUME NEW q \in Seq(Task), NEW s \in Seq(Task), NEW r \in Seq(Task), NEW docs,
         NEW i \in Nat, Moved(q, 0, s, r), NewestFrom(q, i, docs),
         \A n \in DOMAIN s : IsSnapshot(s[n]) => s[n].docs = docs
  PROVE  NewestFrom(r, i, docs)
<1> SUFFICES ASSUME NEW j \in DOMAIN r, j >= i, IsSnapshot(r[j])
             PROVE  r[j].docs = docs
  BY DEF NewestFrom
<1>1. \/ j + 0 \in DOMAIN q /\ r[j] = q[j + 0]
      \/ j - (Len(q) - 0) \in DOMAIN s /\ r[j] = s[j - (Len(q) - 0)]
  <2>1. 0 \in {0, 1}
    OBVIOUS
  <2>. QED
    BY <2>1, OldOrNew
<1>2. CASE j + 0 \in DOMAIN q /\ r[j] = q[j + 0]
  <2>1. j \in Nat /\ j + 0 = j
    BY Queued
  <2>. QED
    BY <1>2, <2>1 DEF NewestFrom
<1>3. CASE j - (Len(q) - 0) \in DOMAIN s /\ r[j] = s[j - (Len(q) - 0)]
  BY <1>3
<1>. QED
  BY <1>1, <1>2, <1>3

\* So does taking the first task off, and adding blocks.
LEMMA NewestAfterPop ==
  ASSUME NEW q \in Seq(Task), NEW s \in Seq(Task), NEW r \in Seq(Task), NEW docs,
         NEW i \in Nat, NEW m \in Nat, Moved(q, 1, s, r), NewestFrom(q, i, docs),
         m + 1 >= i, \A n \in DOMAIN s : ~IsSnapshot(s[n])
  PROVE  NewestFrom(r, m, docs)
<1> SUFFICES ASSUME NEW j \in DOMAIN r, j >= m, IsSnapshot(r[j])
             PROVE  r[j].docs = docs
  BY DEF NewestFrom
<1>1. \/ j + 1 \in DOMAIN q /\ r[j] = q[j + 1]
      \/ j - (Len(q) - 1) \in DOMAIN s /\ r[j] = s[j - (Len(q) - 1)]
  <2>1. 1 \in {0, 1}
    OBVIOUS
  <2>. QED
    BY <2>1, OldOrNew
<1>2. CASE j + 1 \in DOMAIN q /\ r[j] = q[j + 1]
  <2>1. j \in Nat /\ j + 1 >= i
    BY Queued
  <2>. QED
    BY <1>2, <2>1 DEF NewestFrom
<1>3. CASE j - (Len(q) - 1) \in DOMAIN s /\ r[j] = s[j - (Len(q) - 1)]
  BY <1>3
<1>. QED
  BY <1>1, <1>2, <1>3

\* What k waits for still waits when others join.
LEMMA WaitsAfterPush ==
  ASSUME NEW q \in Seq(Task), NEW s \in Seq(Task), NEW r \in Seq(Task), NEW docs, NEW k,
         Moved(q, 0, s, r), Waits(q, docs, k),
         \A n \in DOMAIN s : IsSnapshot(s[n]) => s[n].docs = docs
  PROVE  Waits(r, docs, k)
<1>1. PICK i \in DOMAIN q : IsSnapshot(q[i]) /\ q[i].to = k /\ NewestFrom(q, i, docs)
  BY DEF Waits
<1>2. i \in Nat /\ i > 0 /\ i - 0 = i /\ 0 \in {0, 1}
  BY Queued
<1>3. i - 0 \in DOMAIN r /\ r[i - 0] = q[i]
  BY <1>2, OldOrNew
<1>4. NewestFrom(r, i, docs)
  BY <1>1, <1>2, NewestAfterPush
<1>. QED
  BY <1>1, <1>2, <1>3, <1>4 DEF Waits

LEMMA WaitsAfterPop ==
  ASSUME NEW q \in Seq(Task), NEW s \in Seq(Task), NEW r \in Seq(Task), NEW docs, NEW k,
         Moved(q, 1, s, r), Waits(q, docs, k), \A n \in DOMAIN s : ~IsSnapshot(s[n])
  PROVE  \/ Waits(r, docs, k)
         \/ IsSnapshot(q[1]) /\ q[1].to = k /\ NewestFrom(q, 1, docs)
<1>1. PICK i \in DOMAIN q : IsSnapshot(q[i]) /\ q[i].to = k /\ NewestFrom(q, i, docs)
  BY DEF Waits
<1>2. i \in Nat /\ i >= 1 /\ 1 \in {0, 1}
  BY Queued
<1>3. CASE i = 1
  BY <1>1, <1>3
<1>4. CASE i > 1
  <2>1. i - 1 \in DOMAIN r /\ r[i - 1] = q[i]
    BY <1>2, <1>4, OldOrNew
  <2>2. i - 1 \in Nat /\ (i - 1) + 1 >= i
    BY <1>2, <1>4
  <2> DEFINE m == i - 1
  <2>. HIDE DEF m
  <2>3. m \in Nat /\ m + 1 >= i
    BY <2>2 DEF m
  <2>4. NewestFrom(r, m, docs)
    BY <1>1, <1>2, <2>3, NewestAfterPop
  <2>. QED
    BY <1>1, <2>1, <2>4 DEF Waits, m
<1>. QED
  BY <1>2, <1>3, <1>4

\* A block that k waits for stays, or runs.
LEMMA BlockAfter ==
  ASSUME NEW q \in Seq(Task), NEW s \in Seq(Task), NEW r \in Seq(Task), NEW p \in {0, 1},
         Moved(q, p, s, r), NEW i \in DOMAIN q
  PROVE  \/ \E j \in DOMAIN r : r[j] = q[i]
         \/ p = 1 /\ i = 1
<1>1. i \in Nat /\ i >= 1
  BY Queued
<1>2. CASE i > p
  BY <1>2, OldOrNew
<1>. QED
  BY <1>1, <1>2

Tables(k) ==
  \/ Waits(main, View, k)
  \/ Shown(main, userArray, View, k, Kind(k) = "list", listeners[k].rows)

LEMMA TablesHold ==
  ASSUME IInv, View # {}, NEW k \in DOMAIN listeners
  PROVE  Tables(k)
BY TablesAre DEF IInv, InFlightInOrder, Tables

LEMMA ToldTables ==
  ASSUME IInv, Told, View' # {}, NEW k \in DOMAIN listeners'
  PROVE  Tables(k)'
<1>1. PICK s \in Seq(Task) :
        /\ main' \in Seq(Task) /\ Moved(main, 0, s, main')
        /\ \/ View' = View /\ s = <<>>
           \/ /\ Len(s) = Len(listeners)
              /\ \A n \in DOMAIN s : s[n] = [kind |-> "snapshot", to |-> n, docs |-> View']
  BY DEF Told, Pushes
<1>2. main \in Seq(Task) /\ listeners' = listeners /\ userArray' = userArray
  BY DEF IInv, TypeOK, Told
<1>3. DOMAIN listeners = 1..Len(listeners) /\ Len(listeners) \in Nat
  BY ListenersType DEF IInv
<1>4. 0 \in {0, 1}
  OBVIOUS
<1>5. CASE View' = View /\ s = <<>>
  <2>1. Tables(k)
    BY <1>2, <1>5, TablesHold
  <2>2. \A n \in DOMAIN s : IsSnapshot(s[n]) => s[n].docs = View
    BY <1>5
  <2>3. ASSUME Waits(main, View, k)
        PROVE  Waits(main', View, k)
    BY <1>1, <1>2, <2>2, <2>3, WaitsAfterPush
  <2>4. ASSUME NewestFrom(main, 1, View)
        PROVE  NewestFrom(main', 1, View)
    BY <1>1, <1>2, <2>2, <2>4, NewestAfterPush
  <2>5. \A i \in DOMAIN main : \E j \in DOMAIN main' : main'[j] = main[i]
    BY <1>1, <1>2, <1>4, BlockAfter
  <2>. QED
    BY <1>2, <1>5, <2>1, <2>3, <2>4, <2>5 DEF Tables, Shown, Kind
<1>6. CASE /\ Len(s) = Len(listeners)
           /\ \A n \in DOMAIN s : s[n] = [kind |-> "snapshot", to |-> n, docs |-> View']
  <2> DEFINE i == (Len(main) - 0) + k
  <2>1. k \in DOMAIN s /\ k >= 1 /\ k \in Nat /\ Len(main) \in Nat
    BY <1>1, <1>2, <1>3, <1>6, Queued
  <2>2. i \in DOMAIN main' /\ main'[i] = s[k]
    BY <1>1, <1>2, <1>4, <2>1, OldOrNew
  <2>3. \A j \in DOMAIN main' : j >= i => \E n \in DOMAIN s : main'[j] = s[n]
    <3> TAKE j \in DOMAIN main'
    <3>1. \/ j <= Len(main) - 0
          \/ j - (Len(main) - 0) \in DOMAIN s /\ main'[j] = s[j - (Len(main) - 0)]
      BY <1>1, <1>2, <1>4, OldOrNew
    <3>2. j \in Nat
      BY <1>1, Queued
    <3>. QED
      BY <2>1, <3>1, <3>2
  <2>. HIDE DEF i
  <2>4. NewestFrom(main', i, View')
    BY <1>6, <2>3 DEF NewestFrom
  <2>5. IsSnapshot(main'[i]) /\ main'[i].to = k
    BY <1>6, <2>1, <2>2 DEF IsSnapshot
  <2>6. Waits(main', View', k)
    BY <2>2, <2>4, <2>5 DEF Waits
  <2>. QED
    BY <2>6 DEF Tables
<1>. QED
  BY <1>1, <1>5, <1>6

LEMMA OpenedTables ==
  ASSUME IInv, Opened, View' # {}, NEW k \in DOMAIN listeners'
  PROVE  Tables(k)'
<1>1. PICK l \in Listener : Opens(l)
  BY DEF Opened
<1>2. PICK s \in Seq(Task) :
        /\ main' \in Seq(Task) /\ Moved(main, 0, s, main')
        /\ \/ View = {} /\ s = <<>>
           \/ /\ Len(s) = 1
              /\ s[1] = [kind |-> "snapshot", to |-> Len(listeners) + 1, docs |-> View]
  BY <1>1 DEF Opens
<1>3. main \in Seq(Task) /\ View' = View /\ userArray' = userArray
  BY DEF IInv, TypeOK, Opened
<1>4. /\ DOMAIN listeners' = DOMAIN listeners \cup {Len(listeners) + 1}
      /\ \A j \in DOMAIN listeners : listeners'[j] = listeners[j]
  BY <1>1 DEF Opens
<1>5. /\ DOMAIN s = {1}
      /\ s[1] = [kind |-> "snapshot", to |-> Len(listeners) + 1, docs |-> View]
  <2>1. DOMAIN s = 1..Len(s) /\ Len(s) = 1
    BY <1>2, <1>3, Queued
  <2>. QED
    BY <1>2, <1>3, <2>1
<1>6. 0 \in {0, 1}
  OBVIOUS
<1>7. \A n \in DOMAIN s : IsSnapshot(s[n]) => s[n].docs = View
  BY <1>5
<1>8. CASE k \in DOMAIN listeners
  <2>1. Tables(k)
    BY <1>3, <1>8, TablesHold
  <2>2. ASSUME Waits(main, View, k)
        PROVE  Waits(main', View, k)
    BY <1>2, <1>3, <1>7, <2>2, WaitsAfterPush
  <2>3. ASSUME NewestFrom(main, 1, View)
        PROVE  NewestFrom(main', 1, View)
    BY <1>2, <1>3, <1>7, <2>3, NewestAfterPush
  <2>4. \A i \in DOMAIN main : \E j \in DOMAIN main' : main'[j] = main[i]
    BY <1>2, <1>3, <1>6, BlockAfter
  <2>. QED
    BY <1>3, <1>4, <1>8, <2>1, <2>2, <2>3, <2>4 DEF Tables, Shown, Kind
<1>9. CASE k = Len(listeners) + 1
  <2> DEFINE i == (Len(main) - 0) + 1
  <2>1. Len(main) \in Nat
    BY <1>3, Queued
  <2>2. i \in DOMAIN main' /\ main'[i] = s[1]
    BY <1>2, <1>3, <1>5, <1>6, OldOrNew
  <2>3. \A j \in DOMAIN main' : j >= i => \E n \in DOMAIN s : main'[j] = s[n]
    <3> TAKE j \in DOMAIN main'
    <3>1. \/ j <= Len(main) - 0
          \/ j - (Len(main) - 0) \in DOMAIN s /\ main'[j] = s[j - (Len(main) - 0)]
      BY <1>2, <1>3, <1>6, OldOrNew
    <3>2. j \in Nat
      BY <1>2, Queued
    <3>. QED
      BY <2>1, <3>1, <3>2
  <2>. HIDE DEF i
  <2>4. NewestFrom(main', i, View)
    BY <1>5, <2>3 DEF NewestFrom
  <2>5. IsSnapshot(main'[i]) /\ main'[i].to = k
    BY <1>5, <1>9, <2>2 DEF IsSnapshot
  <2>6. Waits(main', View', k)
    BY <1>3, <2>2, <2>4, <2>5 DEF Waits
  <2>. QED
    BY <2>6 DEF Tables
<1>. QED
  BY <1>4, <1>8, <1>9

\* When a task that is not a snapshot runs.
LEMMA BlockTables ==
  ASSUME IInv, Reloaded \/ Located, View' # {}, NEW k \in DOMAIN listeners'
  PROVE  Tables(k)'
<1> DEFINE t == main[1]
<1>1. /\ View' = View /\ userArray' = userArray /\ Runs(<<>>) /\ ~IsSnapshot(t)
      /\ DOMAIN listeners' = DOMAIN listeners
      /\ \A j \in DOMAIN listeners :
           /\ listeners'[j].kind = listeners[j].kind
           /\ \/ j # t.to /\ listeners'[j].rows = listeners[j].rows
              \/ listeners'[j].rows = userArray
              \/ t.kind # "reload" /\ listeners'[j].rows = listeners[j].rows
  <2>1. CASE Reloaded
    BY <2>1 DEF Reloaded, OnlyChanges, IsSnapshot
  <2>2. CASE Located
    BY <2>2 DEF Located, IsSnapshot
  <2>. QED
    BY <2>1, <2>2
<1>2. main \in Seq(Task) /\ main' \in Seq(Task) /\ Moved(main, 1, <<>>, main')
  BY <1>1 DEF IInv, TypeOK, Runs
<1>3. <<>> \in Seq(Task) /\ \A n \in DOMAIN <<>> : ~IsSnapshot(<<>>[n])
  BY EmptySeq
<1>4. Tables(k)
  BY <1>1, TablesHold
<1>5. ASSUME Waits(main, View, k)
      PROVE  Waits(main', View, k)
  BY <1>1, <1>2, <1>3, <1>5, WaitsAfterPop
<1>6. ASSUME Shown(main, userArray, View, k, Kind(k) = "list", listeners[k].rows)
      PROVE  Shown(main', userArray', View', k, Kind(k)' = "list", listeners'[k].rows)
  <2>1. NewestFrom(main', 1, View)
    <3>1. NewestFrom(main, 1, View)
      BY <1>6 DEF Shown
    <3>2. 1 \in Nat /\ 1 + 1 >= 1
      OBVIOUS
    <3>. QED
      BY <1>2, <1>3, <3>1, <3>2, NewestAfterPop
  <2>2. TellsAll(userArray, Ordered(View))
    BY <1>6 DEF Shown
  <2>3. ASSUME Kind(k) = "list", ~TellsAll(listeners'[k].rows, Ordered(View))
        PROVE  \E i \in DOMAIN main' : main'[i] = [kind |-> "reload", to |-> k]
    <3>1. /\ listeners'[k].rows = listeners[k].rows
          /\ k # t.to \/ t.kind # "reload"
      BY <1>1, <2>2, <2>3
    <3>2. PICK i \in DOMAIN main : main[i] = [kind |-> "reload", to |-> k]
      BY <1>6, <2>3, <3>1 DEF Shown
    <3>3. i # 1
      BY <3>1, <3>2
    <3>4. 1 \in {0, 1}
      OBVIOUS
    <3>5. \E j \in DOMAIN main' : main'[j] = main[i]
      BY <1>2, <1>3, <3>3, <3>4, BlockAfter
    <3>. QED
      BY <3>2, <3>5
  <2>4. Kind(k)' = Kind(k)
    BY <1>1 DEF Kind
  <2>. QED
    BY <1>1, <2>1, <2>2, <2>3, <2>4 DEF Shown
<1>. QED
  BY <1>1, <1>4, <1>5, <1>6 DEF Tables

LEMMA ArrivedTables ==
  ASSUME IInv, Arrived, View' # {}, NEW k \in DOMAIN listeners'
  PROVE  Tables(k)'
<1> DEFINE t == main[1]
<1>1. /\ View' = View /\ IsSnapshot(t) /\ OnlyChanges(t.to)
      /\ \/ /\ t.docs = {} /\ Runs(<<>>)
            /\ UNCHANGED <<listeners, userArray>>
         \/ Kind(t.to) = "list" /\ Fills(t, "reload")
         \/ Kind(t.to) = "map" /\ Fills(t, "locate")
  BY DEF Arrived
<1>2. /\ DOMAIN listeners' = DOMAIN listeners
      /\ Kind(k)' = Kind(k)
      /\ k # t.to => listeners'[k] = listeners[k]
  BY <1>1 DEF OnlyChanges, Kind
<1>3. Tables(k)
  BY <1>1, <1>2, TablesHold
<1>4. main \in Seq(Task) /\ 1 \in Nat /\ 1 \in {0, 1}
  BY DEF IInv, TypeOK
<1>5. ASSUME NEW s, Runs(s), \A n \in DOMAIN s : ~IsSnapshot(s[n])
      PROVE  /\ Waits(main, View, k) =>
                  Waits(main', View, k) \/ (t.to = k /\ NewestFrom(main, 1, View))
             /\ NewestFrom(main, 1, View) => NewestFrom(main', 1, View)
             /\ \A i \in DOMAIN main : ~IsSnapshot(main[i]) =>
                  \E j \in DOMAIN main' : main'[j] = main[i]
             /\ 1 \in DOMAIN main
  <2>1. /\ s \in Seq(Task) /\ main' \in Seq(Task) /\ Moved(main, 1, s, main')
        /\ 1 \in DOMAIN main
    BY <1>5 DEF Runs
  <2>2. ASSUME Waits(main, View, k)
        PROVE  Waits(main', View, k) \/ (t.to = k /\ NewestFrom(main, 1, View))
    BY <1>4, <1>5, <2>1, <2>2, WaitsAfterPop
  <2>3. ASSUME NewestFrom(main, 1, View)
        PROVE  NewestFrom(main', 1, View)
    <3>1. 1 + 1 >= 1
      OBVIOUS
    <3>. QED
      BY <1>4, <1>5, <2>1, <2>3, <3>1, NewestAfterPop
  <2>4. ASSUME NEW i \in DOMAIN main, ~IsSnapshot(main[i])
        PROVE  \E j \in DOMAIN main' : main'[j] = main[i]
    BY <1>1, <1>4, <2>1, <2>4, BlockAfter
  <2>. QED
    BY <2>1, <2>2, <2>3, <2>4
<1>6. NewestFrom(main, 1, View) /\ 1 \in DOMAIN main => t.docs = View
  BY <1>1 DEF NewestFrom
<1>7. CASE t.docs = {} /\ Runs(<<>>) /\ UNCHANGED <<listeners, userArray>>
  <2>1. \A n \in DOMAIN <<>> : ~IsSnapshot(<<>>[n])
    OBVIOUS
  <2>2. ~NewestFrom(main, 1, View)
    BY <1>1, <1>5, <1>6, <1>7, <2>1
  <2>3. Waits(main, View, k) => Waits(main', View, k)
    BY <1>5, <1>7, <2>1, <2>2
  <2>. QED
    BY <1>1, <1>3, <2>2, <2>3 DEF Tables, Shown
<1>8. ASSUME NEW block \in {"reload", "locate"}, Fills(t, block),
             Kind(t.to) = "list" => block = "reload"
      PROVE  Tables(k)'
  <2>1. PICK s : /\ Runs(s) /\ s # <<>>
                 /\ \A n \in DOMAIN s : s[n] = [kind |-> block, to |-> t.to]
    BY <1>8 DEF Fills
  <2>2. /\ TellsAll(userArray', Ordered(t.docs))
        /\ listeners'[t.to].rows = listeners[t.to].rows
    BY <1>8 DEF Fills
  <2>3. \A n \in DOMAIN s : ~IsSnapshot(s[n])
    BY <2>1 DEF IsSnapshot
  <2>4. /\ Waits(main, View, k) =>
             Waits(main', View, k) \/ (t.to = k /\ NewestFrom(main, 1, View))
        /\ NewestFrom(main, 1, View) => NewestFrom(main', 1, View)
        /\ \A i \in DOMAIN main : ~IsSnapshot(main[i]) =>
             \E j \in DOMAIN main' : main'[j] = main[i]
        /\ 1 \in DOMAIN main
    BY <1>5, <2>1, <2>3
  <2>5. CASE Waits(main', View, k)
    BY <1>1, <2>5 DEF Tables
  <2>6. ASSUME NewestFrom(main, 1, View)
        PROVE  /\ t.docs = View /\ NewestFrom(main', 1, View)
               /\ TellsAll(userArray', Ordered(View))
    BY <1>6, <2>2, <2>4, <2>6
  <2>7. CASE t.to = k /\ NewestFrom(main, 1, View)
    <3>1. ASSUME Kind(k) = "list"
          PROVE  \E j \in DOMAIN main' : main'[j] = [kind |-> "reload", to |-> k]
      <4>1. /\ s \in Seq(Task) /\ main' \in Seq(Task) /\ Moved(main, 1, s, main')
        BY <2>1 DEF Runs
      <4>2. 1 \in DOMAIN s
        BY <2>1, <4>1, Queued
      <4>3. (Len(main) - 1) + 1 \in DOMAIN main' /\ main'[(Len(main) - 1) + 1] = s[1]
        BY <1>4, <4>1, <4>2, OldOrNew
      <4>4. s[1] = [kind |-> "reload", to |-> k]
        BY <1>8, <2>1, <2>7, <3>1, <4>2
      <4>. QED
        BY <4>3, <4>4
    <3>. QED
      BY <1>1, <1>2, <2>6, <2>7, <3>1 DEF Tables, Shown
  <2>8. CASE Shown(main, userArray, View, k, Kind(k) = "list", listeners[k].rows)
    <3>1. NewestFrom(main, 1, View)
      BY <2>8 DEF Shown
    <3>2. listeners'[k].rows = listeners[k].rows
      BY <1>2, <2>2
    <3>3. ASSUME Kind(k) = "list", ~TellsAll(listeners[k].rows, Ordered(View))
          PROVE  \E j \in DOMAIN main' : main'[j] = [kind |-> "reload", to |-> k]
      <4>1. PICK i \in DOMAIN main : main[i] = [kind |-> "reload", to |-> k]
        BY <2>8, <3>3 DEF Shown
      <4>2. ~IsSnapshot(main[i])
        BY <4>1 DEF IsSnapshot
      <4>. QED
        BY <2>4, <4>1, <4>2
    <3>. QED
      BY <1>1, <1>2, <2>6, <3>1, <3>2, <3>3 DEF Tables, Shown
  <2>. QED
    BY <1>3, <2>4, <2>5, <2>7, <2>8 DEF Tables
<1>9. Kind(t.to) = "map" => ~(Kind(t.to) = "list")
  OBVIOUS
<1>. QED
  BY <1>1, <1>7, <1>8, <1>9

LEMMA TablesStep ==
  IInv /\ [Next]_vars => TablesCatchUp'
<1> SUFFICES ASSUME IInv, [Next]_vars, View' # {}, NEW k \in DOMAIN listeners'
             PROVE  Tables(k)'
  <2>1. (TablesCatchUp <=>
           (View # {} =>
              \A k \in DOMAIN listeners :
                \/ Waits(main, View, k)
                \/ Shown(main, userArray, View, k, Kind(k) = "list", listeners[k].rows)))'
    BY TablesAre, PTL
  <2>. QED
    BY <2>1 DEF Tables
<1>1. CASE Stays
  <2>1. Tables(k)
    BY <1>1, TablesHold DEF Stays
  <2>. QED
    BY <1>1, <2>1 DEF Stays, Tables, Kind
<1>2. CASE Ended
  <2>1. listeners' = <<>> /\ DOMAIN <<>> = {}
    BY <1>2 DEF Ended, ProcessEnds
  <2>. QED
    BY <2>1
<1>. QED
  BY <1>1, <1>2, StepIs, ToldTables, OpenedTables, ArrivedTables, BlockTables

-------------------------------------------------------------------------------
(* The array and the rows *)

\* The array stays, ends with the process, or tells the snapshot in front.
LEMMA ArrayStep ==
  ASSUME IInv, [Next]_vars
  PROVE  \/ userArray' = userArray
         \/ userArray' = <<>> /\ listeners' = <<>> /\ main' = <<>>
         \/ /\ 1 \in DOMAIN main /\ IsSnapshot(main[1]) /\ GoodDocs(main[1].docs)
            /\ Len(userArray') = Cardinality(main[1].docs)
            /\ \A n \in DOMAIN userArray' :
                 \E d \in main[1].docs : userArray'[n].name = d.player
<1>1. CASE Arrived
  <2>1. ASSUME NEW block, Fills(main[1], block)
        PROVE  /\ Len(userArray') = Cardinality(main[1].docs)
               /\ \A n \in DOMAIN userArray' :
                    \E d \in main[1].docs : userArray'[n].name = d.player
               /\ 1 \in DOMAIN main
    BY <2>1 DEF Fills, Runs
  <2>. QED
    BY <1>1, <2>1 DEF Arrived
<1>2. CASE Ended
  BY <1>2 DEF Ended, ProcessEnds
<1>3. CASE Stays \/ Told \/ Opened \/ Reloaded \/ Located
  BY <1>3 DEF Stays, Told, Opened, Reloaded, Located
<1>. QED
  BY <1>1, <1>2, <1>3, StepIs

\* Rows stay, or are the array's, or none.
LEMMA RowsStep ==
  ASSUME IInv, [Next]_vars, NEW k \in DOMAIN listeners'
  PROVE  \/ k \in DOMAIN listeners /\ listeners'[k].rows = listeners[k].rows
         \/ listeners'[k].rows = userArray /\ userArray' = userArray
         \/ listeners'[k].rows = <<>>
<1>1. CASE Stays \/ Told \/ Located
  BY <1>1 DEF Stays, Told, Located
<1>2. CASE Opened
  BY <1>2 DEF Opened, Opens
<1>3. CASE Arrived
  BY <1>3 DEF Arrived, OnlyChanges, Fills
<1>4. CASE Reloaded
  BY <1>4 DEF Reloaded, OnlyChanges
<1>5. CASE Ended
  <2>1. listeners' = <<>> /\ DOMAIN <<>> = {}
    BY <1>5 DEF Ended, ProcessEnds
  <2>. QED
    BY <2>1
<1>. QED
  BY <1>1, <1>2, <1>3, <1>4, <1>5, StepIs

LEMMA OwnerStep ==
  IInv /\ [Next]_vars => OnlyOwnerUncached'
<1> SUFFICES ASSUME IInv, [Next]_vars, cached' = {}
             PROVE  /\ \A i \in DOMAIN main' :
                         IsSnapshot(main'[i]) => \A d \in main'[i].docs : d.player = Owner
                    /\ \A n \in DOMAIN userArray' : userArray'[n].name = Owner
                    /\ \A k \in DOMAIN listeners' :
                         \A n \in DOMAIN listeners'[k].rows :
                           listeners'[k].rows[n].name = Owner
  BY DEF OnlyOwnerUncached
<1>1. /\ \A i \in DOMAIN main :
           IsSnapshot(main[i]) => \A d \in main[i].docs : d.player = Owner
      /\ \A n \in DOMAIN userArray : userArray[n].name = Owner
      /\ \A k \in DOMAIN listeners :
           \A n \in DOMAIN listeners[k].rows : listeners[k].rows[n].name = Owner
  BY ViewGrows DEF IInv, InFlightInOrder, OnlyOwnerUncached
<1>2. ASSUME NEW i \in DOMAIN main', IsSnapshot(main'[i])
      PROVE  \A d \in main'[i].docs : d.player = Owner
  <2>1. \A d \in View' : d.player = Owner
    BY ViewsStep DEF GoodViews
  <2>2. main'[i].docs = View' \/ \E j \in DOMAIN main : main'[i] = main[j]
    BY <1>2, TasksStep
  <2>. QED
    BY <1>1, <1>2, <2>1, <2>2
<1>3. \A n \in DOMAIN <<>> : FALSE
  OBVIOUS
<1>4. \A n \in DOMAIN userArray' : userArray'[n].name = Owner
  BY <1>1, <1>3, ArrayStep
<1>5. ASSUME NEW k \in DOMAIN listeners'
      PROVE  \A n \in DOMAIN listeners'[k].rows : listeners'[k].rows[n].name = Owner
  BY <1>1, <1>3, RowsStep
<1>. QED
  BY <1>2, <1>4, <1>5

-------------------------------------------------------------------------------
(* Sizes *)

Size(t) == Cardinality(t.docs)

\* The snapshots of q have lo to hi documents, and later ones no fewer.
Grows(q, lo, hi) ==
  /\ \A i \in DOMAIN q : IsSnapshot(q[i]) => Size(q[i]) \in lo..hi
  /\ \A i, j \in DOMAIN q :
       IsSnapshot(q[i]) /\ IsSnapshot(q[j]) /\ i <= j => Size(q[i]) <= Size(q[j])

LEMMA GrowsAfterPush ==
  ASSUME NEW q \in Seq(Task), NEW s \in Seq(Task), NEW r \in Seq(Task),
         NEW lo \in Nat, NEW hi \in Nat, NEW more \in Nat, Moved(q, 0, s, r),
         Grows(q, lo, hi), lo <= hi, hi <= more,
         \A n \in DOMAIN s : IsSnapshot(s[n]) /\ Size(s[n]) = more
  PROVE  Grows(r, lo, more)
<1>1. \A i \in DOMAIN r : \/ i <= Len(q) - 0 /\ i + 0 \in DOMAIN q /\ r[i] = q[i + 0]
                          \/ i > Len(q) - 0 /\ i - (Len(q) - 0) \in DOMAIN s
                             /\ r[i] = s[i - (Len(q) - 0)]
  <2>1. 0 \in {0, 1}
    OBVIOUS
  <2>. QED
    BY <2>1, OldOrNew
<1>2. Len(q) \in Nat /\ DOMAIN r = 1..Len(r) /\ Len(r) \in Nat
  BY Queued
<1>3. \A i \in DOMAIN r : \/ i <= Len(q) /\ i \in DOMAIN q /\ r[i] = q[i]
                          \/ i > Len(q) /\ IsSnapshot(r[i]) /\ Size(r[i]) = more
  BY <1>1, <1>2
<1>4. ASSUME NEW i \in DOMAIN r, IsSnapshot(r[i])
      PROVE  Size(r[i]) \in lo..more
  <2>1. CASE i \in DOMAIN q /\ r[i] = q[i]
    <3>1. Size(q[i]) \in lo..hi
      BY <1>4, <2>1 DEF Grows
    <3>. HIDE DEF Size
    <3>. QED
      BY <2>1, <3>1
  <2>2. CASE Size(r[i]) = more
    BY <2>2
  <2>. QED
    BY <1>3, <2>1, <2>2
<1>5. ASSUME NEW i \in DOMAIN r, NEW j \in DOMAIN r,
             IsSnapshot(r[i]), IsSnapshot(r[j]), i <= j
      PROVE  Size(r[i]) <= Size(r[j])
  <2>1. CASE i <= Len(q) /\ i \in DOMAIN q /\ r[i] = q[i]
               /\ j <= Len(q) /\ j \in DOMAIN q /\ r[j] = q[j]
    BY <1>5, <2>1 DEF Grows
  <2>2. CASE Size(r[j]) = more
    <3>1. Size(r[i]) \in lo..more
      BY <1>4, <1>5
    <3>. QED
      BY <2>2, <3>1
  <2>. QED
    BY <1>2, <1>3, <1>5, <2>1, <2>2
<1>. QED
  BY <1>4, <1>5 DEF Grows

LEMMA GrowsAfterPop ==
  ASSUME NEW q \in Seq(Task), NEW s \in Seq(Task), NEW r \in Seq(Task), q # <<>>,
         NEW lo \in Nat, NEW hi \in Nat, Moved(q, 1, s, r),
         Grows(q, lo, hi), lo <= hi, \A n \in DOMAIN s : ~IsSnapshot(s[n])
  PROVE  /\ Grows(r, lo, hi)
         /\ IsSnapshot(q[1]) => Size(q[1]) \in lo..hi /\ Grows(r, Size(q[1]), hi)
<1>1. \A i \in DOMAIN r : \/ i <= Len(q) - 1 /\ i + 1 \in DOMAIN q /\ r[i] = q[i + 1]
                          \/ i > Len(q) - 1 /\ i - (Len(q) - 1) \in DOMAIN s
                             /\ r[i] = s[i - (Len(q) - 1)]
  <2>1. 1 \in {0, 1}
    OBVIOUS
  <2>. QED
    BY <2>1, OldOrNew
<1>2. Len(q) \in Nat /\ DOMAIN r = 1..Len(r) /\ Len(r) \in Nat
  BY Queued
<1>3. \A i \in DOMAIN r : IsSnapshot(r[i]) => i + 1 \in DOMAIN q /\ r[i] = q[i + 1]
  BY <1>1
<1>4. 1 \in DOMAIN q
  BY Dequeued
<1>5. ASSUME NEW i \in DOMAIN r, IsSnapshot(r[i])
      PROVE  /\ Size(r[i]) \in lo..hi
             /\ IsSnapshot(q[1]) => Size(r[i]) \in Size(q[1])..hi
  <2>1. i + 1 \in DOMAIN q /\ r[i] = q[i + 1] /\ 1 <= i + 1
    BY <1>2, <1>3, <1>5
  <2>2. Size(q[i + 1]) \in lo..hi
    BY <1>5, <2>1 DEF Grows
  <2>3. IsSnapshot(q[1]) => Size(q[1]) \in lo..hi /\ Size(q[1]) <= Size(q[i + 1])
    BY <1>4, <1>5, <2>1 DEF Grows
  <2>. QED
    BY <2>1, <2>2, <2>3
<1>6. ASSUME NEW i \in DOMAIN r, NEW j \in DOMAIN r,
             IsSnapshot(r[i]), IsSnapshot(r[j]), i <= j
      PROVE  Size(r[i]) <= Size(r[j])
  <2>1. /\ i + 1 \in DOMAIN q /\ r[i] = q[i + 1]
        /\ j + 1 \in DOMAIN q /\ r[j] = q[j + 1]
        /\ i + 1 <= j + 1
    BY <1>2, <1>3, <1>6
  <2>. QED
    BY <1>6, <2>1 DEF Grows
<1>7. IsSnapshot(q[1]) => Size(q[1]) \in lo..hi
  BY <1>4 DEF Grows
<1>. QED
  BY <1>5, <1>6, <1>7 DEF Grows

\* The list in front is one of the lists.
LEMMA FrontIs ==
  ASSUME TypeOK
  PROVE  \/ FrontRows = <<>>
         \/ \E k \in DOMAIN listeners : Kind(k) = "list" /\ FrontRows = listeners[k].rows
<1> DEFINE lists == {k \in DOMAIN listeners : Kind(k) = "list"}
           N == Len(listeners)
<1>1. N \in Nat /\ DOMAIN listeners = 1..N
  BY ListenersType
<1>2. CASE lists = {}
  BY <1>2 DEF FrontRows
<1>3. CASE lists # {}
  <2>1. lists \in SUBSET (1..N)
    BY <1>1
  <2>2. FrontRows = listeners[Max(lists)].rows
    BY <1>3 DEF FrontRows
  <2> DEFINE m == Max(lists)
  <2>3. m \in lists
    <3>. HIDE DEF lists, N
    <3>. QED
      BY <1>1, <1>3, <2>1, MaxIs
  <2>. HIDE DEF m
  <2>4. m \in DOMAIN listeners /\ Kind(m) = "list"
    BY <2>3
  <2>. QED
    BY <2>2, <2>4 DEF m
<1>. QED
  BY <1>2, <1>3

LEMMA SizesAre ==
  SnapshotsGrow <=>
    (stage # "refused" =>
       /\ ~crashed
       /\ \A k \in DOMAIN listeners : Len(listeners[k].rows) <= Len(userArray)
       /\ Len(userArray) <= Cardinality(View)
       /\ Grows(main, Len(userArray), Cardinality(View)))
BY DEF SnapshotsGrow, Grows, Size

\* Sizes before and after a step that ends in no refusal.
LEMMA ViewSizes ==
  ASSUME IInv, [Next]_vars, stage' # "refused"
  PROVE  /\ Cardinality(View) \in Nat /\ Cardinality(View') \in Nat
         /\ Cardinality(View) <= Cardinality(View')
         /\ Len(userArray) \in Nat /\ Len(userArray') \in Nat
         /\ Len(userArray) <= Cardinality(View)
         /\ Grows(main, Len(userArray), Cardinality(View))
         /\ ~crashed
         /\ \A k \in DOMAIN listeners : Len(listeners[k].rows) <= Len(userArray)
<1>1. /\ View \subseteq Doc /\ OneVersion(View)
      /\ View' \subseteq Doc /\ OneVersion(View')
  <2>1. GoodViews
    BY ViewsGood DEF IInv, InFlightInOrder
  <2>. QED
    BY <2>1, ViewsStep DEF GoodViews, GoodDocs
<1>2. stage # "refused" /\ \A d \in View : \E e \in View' : d.player = e.player
  BY ViewGrows
<1> DEFINE v == View
           w == View'
<1>3. /\ v \in SUBSET Doc /\ OneVersion(v) /\ w \in SUBSET Doc /\ OneVersion(w)
      /\ \A d \in v : \E e \in w : d.player = e.player
  BY <1>1, <1>2
<1>. HIDE DEF v, w
<1>4. Cardinality(v) \in Nat /\ Cardinality(w) \in Nat
  BY <1>3, DocsFinite
<1>5. Cardinality(v) <= Cardinality(w)
  BY <1>3, FewerPlayers
<1>6. userArray \in Seq(User) /\ userArray' \in Seq(User)
  BY TypeStep DEF IInv, TypeOK
<1>7. Len(userArray) \in Nat /\ Len(userArray') \in Nat
  BY <1>6, Queued
<1>. QED
  BY <1>2, <1>4, <1>5, <1>7, SizesAre DEF IInv, InFlightInOrder, v, w

LEMMA ToldSizes ==
  ASSUME IInv, [Next]_vars, stage' # "refused", Told \/ Opened
  PROVE  Grows(main', Len(userArray), Cardinality(View'))
<1> DEFINE lo == Len(userArray)
           hi == Cardinality(View)
           more == Cardinality(View')
<1>1. lo \in Nat /\ hi \in Nat /\ more \in Nat /\ lo <= hi /\ hi <= more /\ Grows(main, lo, hi)
  BY ViewSizes
<1>2. \E s \in Seq(Task) :
        /\ main' \in Seq(Task) /\ Moved(main, 0, s, main')
        /\ \A n \in DOMAIN s : IsSnapshot(s[n]) /\ s[n].docs = View'
  <2>1. CASE Told
    <3>1. PICK s \in Seq(Task) :
            /\ main' \in Seq(Task) /\ Moved(main, 0, s, main')
            /\ \/ View' = View /\ s = <<>>
               \/ /\ Len(s) = Len(listeners)
                  /\ \A n \in DOMAIN s :
                       s[n] = [kind |-> "snapshot", to |-> n, docs |-> View']
      BY <2>1 DEF Told, Pushes
    <3>2. \A n \in DOMAIN s : IsSnapshot(s[n]) /\ s[n].docs = View'
      BY <3>1 DEF IsSnapshot
    <3>. QED
      BY <3>1, <3>2
  <2>2. CASE Opened
    <3>1. PICK l \in Listener : Opens(l)
      BY <2>2 DEF Opened
    <3>2. PICK s \in Seq(Task) :
            /\ main' \in Seq(Task) /\ Moved(main, 0, s, main')
            /\ \/ View = {} /\ s = <<>>
               \/ /\ Len(s) = 1
                  /\ s[1] = [kind |-> "snapshot", to |-> Len(listeners) + 1, docs |-> View]
      BY <3>1 DEF Opens
    <3>3. View' = View
      BY <2>2 DEF Opened
    <3>4. s = <<>> \/ DOMAIN s = {1}
      <4>1. Len(s) = 1 => DOMAIN s = 1..1
        BY <3>2, Queued
      <4>. QED
        BY <3>2, <4>1
    <3>5. \A n \in DOMAIN s : IsSnapshot(s[n]) /\ s[n].docs = View'
      BY <3>2, <3>3, <3>4 DEF IsSnapshot
    <3>. QED
      BY <3>2, <3>3, <3>5
  <2>. QED
    BY <2>1, <2>2
<1>3. PICK s \in Seq(Task) :
        /\ main' \in Seq(Task) /\ Moved(main, 0, s, main')
        /\ \A n \in DOMAIN s : IsSnapshot(s[n]) /\ Size(s[n]) = more
  BY <1>2 DEF Size
<1>4. main \in Seq(Task)
  BY DEF IInv, TypeOK
<1>. HIDE DEF lo, hi, more
<1>5. Grows(main', lo, more)
  BY <1>1, <1>3, <1>4, GrowsAfterPush
<1>. QED
  BY <1>5 DEF lo, more

LEMMA RunSizes ==
  ASSUME IInv, [Next]_vars, stage' # "refused", Arrived \/ Reloaded \/ Located
  PROVE  /\ Grows(main', Len(userArray'), Cardinality(View))
         /\ Len(userArray) <= Len(userArray') /\ Len(userArray') <= Cardinality(View)
<1> DEFINE lo == Len(userArray)
           hi == Cardinality(View)
<1>1. lo \in Nat /\ hi \in Nat /\ lo <= hi /\ Grows(main, lo, hi)
  BY ViewSizes
<1>2. main \in Seq(Task)
  BY DEF IInv, TypeOK
<1>. HIDE DEF lo, hi
<1>3. ASSUME NEW s, Runs(s), \A n \in DOMAIN s : ~IsSnapshot(s[n])
      PROVE  /\ Grows(main', lo, hi)
             /\ IsSnapshot(main[1]) => Size(main[1]) \in lo..hi /\ Grows(main', Size(main[1]), hi)
  <2>1. /\ s \in Seq(Task) /\ main' \in Seq(Task) /\ main # <<>>
        /\ Moved(main, 1, s, main')
    BY <1>3 DEF Runs
  <2>. QED
    BY <1>1, <1>2, <1>3, <2>1, GrowsAfterPop
<1>4. ASSUME Runs(<<>>), userArray' = userArray
      PROVE  Grows(main', Len(userArray'), hi) /\ lo <= Len(userArray') /\ Len(userArray') <= hi
  <2>1. \A n \in DOMAIN <<>> : ~IsSnapshot(<<>>[n])
    OBVIOUS
  <2>2. Grows(main', lo, hi)
    BY <1>3, <1>4, <2>1
  <2>3. Len(userArray') = lo
    BY <1>4 DEF lo
  <2>. QED
    BY <1>1, <2>2, <2>3
<1>5. ASSUME NEW block, Fills(main[1], block), block \in {"reload", "locate"},
             IsSnapshot(main[1])
      PROVE  Grows(main', Len(userArray'), hi) /\ lo <= Len(userArray') /\ Len(userArray') <= hi
  <2>1. PICK s : /\ Runs(s)
                 /\ \A n \in DOMAIN s : s[n] = [kind |-> block, to |-> main[1].to]
    BY <1>5 DEF Fills
  <2>2. \A n \in DOMAIN s : ~IsSnapshot(s[n])
    BY <1>5, <2>1 DEF IsSnapshot
  <2>3. Len(userArray') = Size(main[1])
    BY <1>5 DEF Fills, Size
  <2>4. Size(main[1]) \in lo..hi /\ Grows(main', Size(main[1]), hi)
    BY <1>3, <1>5, <2>1, <2>2
  <2>. QED
    BY <1>1, <2>3, <2>4
<1>6. CASE Arrived
  BY <1>4, <1>5, <1>6 DEF Arrived, lo, hi
<1>7. CASE Reloaded \/ Located
  BY <1>4, <1>7 DEF Reloaded, Located, lo, hi
<1>. QED
  BY <1>6, <1>7

LEMMA SizesStep ==
  IInv /\ [Next]_vars => SnapshotsGrow'
<1> SUFFICES ASSUME IInv, [Next]_vars, stage' # "refused"
             PROVE  /\ ~crashed'
                    /\ \A k \in DOMAIN listeners' : Len(listeners'[k].rows) <= Len(userArray')
                    /\ Len(userArray') <= Cardinality(View')
                    /\ Grows(main', Len(userArray'), Cardinality(View'))
  <2>1. (SnapshotsGrow <=>
           (stage # "refused" =>
              /\ ~crashed
              /\ \A k \in DOMAIN listeners : Len(listeners[k].rows) <= Len(userArray)
              /\ Len(userArray) <= Cardinality(View)
              /\ Grows(main, Len(userArray), Cardinality(View))))'
    BY SizesAre, PTL
  <2>. QED
    BY <2>1
<1>1. /\ Cardinality(View) \in Nat /\ Cardinality(View') \in Nat
      /\ Cardinality(View) <= Cardinality(View')
      /\ Len(userArray) \in Nat /\ Len(userArray') \in Nat
      /\ Len(userArray) <= Cardinality(View)
      /\ Grows(main, Len(userArray), Cardinality(View))
      /\ ~crashed
      /\ \A k \in DOMAIN listeners : Len(listeners[k].rows) <= Len(userArray)
  BY ViewSizes
<1>2. CASE Ended
  <2>1. listeners' = <<>> /\ userArray' = <<>> /\ main' = <<>>
    BY <1>2 DEF Ended, ProcessEnds
  <2>2. DOMAIN <<>> = {} /\ Len(<<>>) = 0
    BY EmptySeq
  <2>3. ASSUME NEW n \in Place, SelectMissingRow(n)
        PROVE  FALSE
    <3>1. n \in DOMAIN FrontRows /\ n \notin DOMAIN userArray
      BY <2>3 DEF SelectMissingRow
    <3>2. PICK k \in DOMAIN listeners : FrontRows = listeners[k].rows
      BY <2>2, <3>1, FrontIs DEF IInv
    <3>3. listeners[k].rows \in Seq(User) /\ userArray \in Seq(User)
      BY ListenersType DEF IInv, TypeOK
    <3> DEFINE rows == listeners[k].rows
    <3>4. rows \in Seq(User) /\ n \in DOMAIN rows /\ Len(rows) <= Len(userArray)
      BY <1>1, <3>1, <3>2, <3>3
    <3>. HIDE DEF rows
    <3>5. n \in 1..Len(rows) /\ Len(rows) \in Nat /\ ~(n \in 1..Len(userArray))
      BY <3>1, <3>3, <3>4, Queued
    <3>. QED
      BY <1>1, <3>4, <3>5
  <2>4. ~crashed'
    BY <1>2, <2>3 DEF Ended
  <2>5. Grows(main', Len(userArray'), Cardinality(View'))
    BY <2>1, <2>2 DEF Grows
  <2>. QED
    BY <1>1, <2>1, <2>2, <2>4, <2>5
<1>3. CASE ~Ended
  <2>1. /\ Len(userArray) <= Len(userArray') /\ Len(userArray') <= Cardinality(View')
        /\ Grows(main', Len(userArray'), Cardinality(View')) /\ crashed' = crashed
    <3>1. CASE Stays
      BY <1>1, <3>1 DEF Stays
    <3>2. CASE Told \/ Opened
      <4>1. userArray' = userArray /\ crashed' = crashed
        BY <3>2 DEF Told, Opened
      <4>2. Len(userArray) <= Cardinality(View')
        BY <1>1
      <4>. QED
        BY <1>1, <3>2, <4>1, <4>2, ToldSizes
    <3>3. CASE Arrived \/ Reloaded \/ Located
      <4>1. View' = View /\ crashed' = crashed
        BY <3>3 DEF Arrived, Reloaded, Located
      <4>. QED
        BY <3>3, <4>1, RunSizes
    <3>. QED
      BY <1>3, <3>1, <3>2, <3>3, StepIs
  <2>2. ASSUME NEW k \in DOMAIN listeners'
        PROVE  Len(listeners'[k].rows) <= Len(userArray')
    <3>1. CASE k \in DOMAIN listeners /\ listeners'[k].rows = listeners[k].rows
      <4>1. Len(listeners[k].rows) <= Len(userArray) /\ Len(listeners[k].rows) \in Nat
        BY <1>1, <3>1, ListenersType, Queued DEF IInv
      <4>. QED
        BY <1>1, <2>1, <3>1, <4>1
    <3>2. CASE listeners'[k].rows = userArray
      BY <2>1, <3>2
    <3>3. CASE listeners'[k].rows = <<>>
      BY <1>1, <3>3, EmptySeq
    <3>. QED
      BY <3>1, <3>2, <3>3, RowsStep
  <2>. QED
    BY <1>1, <2>1, <2>2
<1>. QED
  BY <1>2, <1>3

-------------------------------------------------------------------------------
(* The listeners' variables *)

\* What fields says of its location is true, or there is none.
Right(f) == f.location = Absent \/ f.location \in Nameless \/ f.email = f.location

LEMMA NamelessGrows ==
  IInv /\ [Next]_vars => Nameless \subseteq Nameless'
<1> SUFFICES ASSUME IInv, [Next]_vars, NEW p \in Nameless
             PROVE  p \in Nameless'
  OBVIOUS
<1>1. PICK d \in profiles \cup mine : d.email = Absent /\ p = d.player
  BY DEF Nameless
<1>2. PICK e \in (profiles \cup mine)' : SameDoc(d, e)
  BY ProfilesStep DEF CopiesOf
<1>. QED
  BY <1>1, <1>2 DEF Nameless, SameDoc

LEMMA FillsRight ==
  ASSUME IInv, GoodDocs(main[1].docs), NEW block, Fills(main[1], block)
  PROVE  /\ listeners'[main[1].to].fields.location # Absent
         /\ Right(listeners'[main[1].to].fields)
<1> DEFINE docs == Ordered(main[1].docs)
           f == listeners'[main[1].to].fields
           last == docs[Len(docs)]
<1>1. /\ last \in main[1].docs /\ f.location = last.player
      /\ last.email # Absent => f.email = last.email
  BY DEF Fills
<1>. HIDE DEF last, f
<1>2. last \in Doc /\ CopiesOf(main[1].docs, profiles \cup mine)
  BY <1>1 DEF GoodDocs
<1>3. PICK e \in profiles \cup mine : SameDoc(last, e)
  BY <1>1, <1>2 DEF CopiesOf
<1>4. e.email \in {e.player, Absent}
  BY <1>3 DEF IInv, InFlightInOrder, ProfilesFit
<1>5. f.location # Absent
  BY <1>1, <1>2, AbsentIsAbsent DEF Doc
<1>6. ASSUME e.email = Absent
      PROVE  Right(f)
  BY <1>1, <1>3, <1>6 DEF SameDoc, Nameless, Right
<1>7. ASSUME e.email # Absent
      PROVE  Right(f)
  BY <1>1, <1>3, <1>4, <1>7 DEF SameDoc, Right
<1>. QED
  BY <1>5, <1>6, <1>7 DEF f

\* A listener's variables stay, start, or tell of a document.
LEMMA FieldsStep ==
  ASSUME IInv, [Next]_vars, NEW k \in DOMAIN listeners'
  PROVE  \/ k \in DOMAIN listeners /\ listeners'[k].fields = listeners[k].fields
         \/ k \notin DOMAIN listeners /\ listeners'[k].fields = NoFields
         \/ listeners'[k].fields.location # Absent /\ Right(listeners'[k].fields)
<1>1. CASE Stays \/ Told \/ Located
  BY <1>1 DEF Stays, Told, Located
<1>2. CASE Opened
  <2>1. PICK l \in Listener : Opens(l) /\ l.fields = NoFields
    BY <1>2 DEF Opened
  <2>2. Len(listeners) + 1 \notin DOMAIN listeners
    BY ListenersType DEF IInv
  <2>. QED
    BY <2>1, <2>2 DEF Opens
<1>3. CASE Arrived
  <2>1. k \in DOMAIN listeners /\ (k # main[1].to => listeners'[k] = listeners[k])
    BY <1>3 DEF Arrived, OnlyChanges
  <2>2. ASSUME NEW block, Fills(main[1], block)
        PROVE  /\ listeners'[main[1].to].fields.location # Absent
               /\ Right(listeners'[main[1].to].fields)
    BY <1>3, <2>2, FillsRight DEF Arrived
  <2>. QED
    BY <1>3, <2>1, <2>2 DEF Arrived
<1>4. CASE Reloaded
  BY <1>4 DEF Reloaded, OnlyChanges
<1>5. CASE Ended
  <2>1. listeners' = <<>> /\ DOMAIN <<>> = {}
    BY <1>5 DEF Ended, ProcessEnds
  <2>. QED
    BY <2>1
<1>. QED
  BY <1>1, <1>2, <1>3, <1>4, <1>5, StepIs

\* The blocks of maps that wait: old ones, or those of the map just filled.
LEMMA LocateStep ==
  ASSUME IInv, [Next]_vars, NEW i \in DOMAIN main', main'[i].kind = "locate"
  PROVE  \/ \E j \in DOMAIN main : main'[i] = main[j]
         \/ listeners'[main'[i].to].fields.location # Absent
<1>1. main \in Seq(Task)
  BY DEF IInv, TypeOK
<1>2. ASSUME NEW s \in Seq(Task), NEW p \in {0, 1}, main' \in Seq(Task),
             Moved(main, p, s, main')
      PROVE  (\E j \in DOMAIN main : main'[i] = main[j]) \/ (\E n \in DOMAIN s : main'[i] = s[n])
  BY <1>1, <1>2, EachTask
<1>3. \A n \in DOMAIN <<>> : FALSE
  OBVIOUS
<1>4. CASE Stays
  BY <1>4 DEF Stays
<1>5. CASE Told
  <2>1. PICK s \in Seq(Task) :
          /\ main' \in Seq(Task) /\ Moved(main, 0, s, main')
          /\ \/ View' = View /\ s = <<>>
             \/ \A k \in DOMAIN s : s[k] = [kind |-> "snapshot", to |-> k, docs |-> View']
    BY <1>5 DEF Told, Pushes
  <2>2. \A n \in DOMAIN s : s[n].kind # "locate"
    BY <1>3, <2>1
  <2>3. 0 \in {0, 1}
    OBVIOUS
  <2>. QED
    BY <1>2, <2>1, <2>2, <2>3
<1>6. CASE Opened
  <2>1. PICK l \in Listener : Opens(l)
    BY <1>6 DEF Opened
  <2>2. PICK s \in Seq(Task) :
          /\ main' \in Seq(Task) /\ Moved(main, 0, s, main')
          /\ \/ View = {} /\ s = <<>>
             \/ /\ Len(s) = 1
                /\ s[1] = [kind |-> "snapshot", to |-> Len(listeners) + 1, docs |-> View]
    BY <2>1 DEF Opens
  <2>3. s = <<>> \/ DOMAIN s = {1}
    <3>1. Len(s) = 1 => DOMAIN s = 1..1
      BY <2>2, Queued
    <3>. QED
      BY <2>2, <3>1
  <2>4. \A n \in DOMAIN s : s[n].kind # "locate"
    BY <1>3, <2>2, <2>3
  <2>5. 0 \in {0, 1}
    OBVIOUS
  <2>. QED
    BY <1>2, <2>2, <2>4, <2>5
<1>7. ASSUME Runs(<<>>)
      PROVE  \E j \in DOMAIN main : main'[i] = main[j]
  <2>1. 1 \in {0, 1}
    OBVIOUS
  <2>. QED
    BY <1>2, <1>3, <1>7, <2>1 DEF Runs
<1>8. ASSUME NEW block, Fills(main[1], block), GoodDocs(main[1].docs)
      PROVE  \/ \E j \in DOMAIN main : main'[i] = main[j]
             \/ listeners'[main'[i].to].fields.location # Absent
  <2>1. PICK s : /\ Runs(s)
                 /\ \A n \in DOMAIN s : s[n] = [kind |-> block, to |-> main[1].to]
    BY <1>8 DEF Fills
  <2>2. \A n \in DOMAIN s : s[n].to = main[1].to
    BY <2>1
  <2>3. listeners'[main[1].to].fields.location # Absent
    BY <1>8, FillsRight
  <2>4. 1 \in {0, 1}
    OBVIOUS
  <2>5. (\E j \in DOMAIN main : main'[i] = main[j]) \/ (\E n \in DOMAIN s : main'[i] = s[n])
    BY <1>2, <2>1, <2>4 DEF Runs
  <2>. QED
    BY <2>2, <2>3, <2>5
<1>9. CASE Arrived
  BY <1>7, <1>8, <1>9 DEF Arrived
<1>10. CASE Reloaded \/ Located
  BY <1>7, <1>10 DEF Reloaded, Located
<1>11. CASE Ended
  BY <1>3, <1>11 DEF Ended, ProcessEnds
<1>. QED
  BY <1>4, <1>5, <1>6, <1>9, <1>10, <1>11, StepIs

LEMMA FitStep ==
  IInv /\ [Next]_vars => FieldsFit'
<1> SUFFICES ASSUME IInv, [Next]_vars
             PROVE  FieldsFit'
  OBVIOUS
<1>1. /\ \A k \in DOMAIN listeners : Right(listeners[k].fields)
      /\ \A i \in DOMAIN main :
           /\ main[i].to \in DOMAIN listeners
           /\ main[i].kind = "locate" => listeners[main[i].to].fields.location # Absent
  BY DEF IInv, InFlightInOrder, FieldsFit, Right
<1>2. ASSUME NEW k \in DOMAIN listeners'
      PROVE  LET f == listeners'[k].fields
             IN  f.location = Absent \/ f.location \in Nameless' \/ f.email = f.location
  <2>1. Right(listeners'[k].fields)
    BY <1>1, <1>2, FieldsStep DEF Right, NoFields
  <2>. QED
    BY <2>1, NamelessGrows DEF Right
<1>3. ASSUME NEW i \in DOMAIN main'
      PROVE  /\ main'[i].to \in DOMAIN listeners'
             /\ main'[i].kind = "locate" => listeners'[main'[i].to].fields.location # Absent
  <2>1. main'[i].to \in DOMAIN listeners'
    BY <1>3, TasksStep
  <2>2. ASSUME NEW j \in DOMAIN main, main'[i] = main[j], main'[i].kind = "locate"
        PROVE  listeners'[main'[i].to].fields.location # Absent
    <3>1. /\ main[j].to \in DOMAIN listeners
          /\ listeners[main[j].to].fields.location # Absent
      BY <1>1, <2>2
    <3>. QED
      BY <2>1, <2>2, <3>1, FieldsStep
  <2>. QED
    BY <1>3, <2>1, <2>2, LocateStep
<1>. QED
  BY <1>2, <1>3 DEF FieldsFit

-------------------------------------------------------------------------------
(* Theorems *)

LEMMA InitInvariant == Init => IInv
<1> SUFFICES ASSUME Init PROVE IInv
  OBVIOUS
<1>1. TypeOK
  BY TypeInit
<1>2. /\ profiles = {} /\ cached = {} /\ mine = {} /\ stage = "none" /\ View = {}
      /\ listeners = <<>> /\ userArray = <<>> /\ main = <<>> /\ crashed = FALSE
      /\ DOMAIN <<>> = {} /\ Len(<<>>) = 0 /\ Cardinality({}) = 0
  BY FS_EmptySet, EmptySeq DEF Init, View
<1>3. ProfilesFit /\ SnapshotsFit
  BY <1>2 DEF ProfilesFit, SnapshotsFit, OneVersion, CopiesOf
<1>4. TablesCatchUp /\ OnlyOwnerUncached /\ FieldsFit
  BY <1>2 DEF TablesCatchUp, OnlyOwnerUncached, FieldsFit
<1>5. SnapshotsGrow
  BY <1>2 DEF SnapshotsGrow
<1>. QED
  BY <1>1, <1>3, <1>4, <1>5 DEF IInv, InFlightInOrder

LEMMA InvariantHolds == Spec => []IInv
<1>1. IInv /\ [Next]_vars => IInv'
  BY ViewsStep, SnapshotsStep, TablesStep, OwnerStep, SizesStep, FitStep
  DEF IInv, InFlightInOrder
<1>. QED
  BY <1>1, InitInvariant, PTL DEF Spec

\* Every variable keeps its type.
THEOREM TypeCorrect == Spec => []TypeOK
<1>1. IInv => TypeOK
  BY DEF IInv
<1>. QED
  BY <1>1, InvariantHolds, PTL

\* Everything in flight is in order: documents keep who they are, the newest
\* snapshot comes last to every list and map, snapshots get no shorter as
\* long as the owner's profile is not refused, and what a listener's variables
\* say of a location is said of one document.
THEOREM InOrder == Spec => []InFlightInOrder
<1>1. IInv => InFlightInOrder
  BY DEF IInv
<1>. QED
  BY <1>1, InvariantHolds, PTL

\* Once the main queue is empty, userArray and all tables show the documents
\* of the query, for any number of lists and maps that share the one array.
THEOREM QuietTables == Spec => []QuietTableIsCurrent
<1>1. IInv => QuietTableIsCurrent
  <2> SUFFICES ASSUME IInv, main = <<>>, listeners # <<>>, View # {}
               PROVE  /\ TellsAll(userArray, Ordered(View))
                      /\ \A k \in DOMAIN listeners :
                           Kind(k) = "list" => TellsAll(listeners[k].rows, Ordered(View))
    BY DEF QuietTableIsCurrent
  <2>1. DOMAIN main = {}
    OBVIOUS
  <2>2. \A k \in DOMAIN listeners :
          /\ TellsAll(userArray, Ordered(View))
          /\ Kind(k) = "list" => TellsAll(listeners[k].rows, Ordered(View))
    BY <2>1, TablesHold DEF Tables, Waits, Shown
  <2>3. DOMAIN listeners # {}
    BY Queued DEF IInv, TypeOK
  <2>. QED
    BY <2>2, <2>3
<1>. QED
  BY <1>1, InvariantHolds, PTL

\* A tap on a row of the list in front, while the main queue is empty, hands
\* on the player whose row it is, although it reads another array.
THEOREM QuietTaps == Spec => QuietTapSelectsShown
<1>1. IInv /\ [Next]_vars =>
        [\A n \in Place :
           (SelectRow(n) /\ main = <<>>) => selectedUser'.name = FrontRows[n].name]_vars
  <2> SUFFICES ASSUME IInv, [Next]_vars, NEW n \in Place, SelectRow(n), main = <<>>
               PROVE  selectedUser'.name = FrontRows[n].name
    OBVIOUS
  <2>1. n \in DOMAIN FrontRows /\ n \in DOMAIN userArray /\ selectedUser' = userArray[n]
    BY DEF SelectRow
  <2>2. PICK k \in DOMAIN listeners : Kind(k) = "list" /\ FrontRows = listeners[k].rows
    <3>1. DOMAIN <<>> = {}
      OBVIOUS
    <3>. QED
      BY <2>1, <3>1, FrontIs DEF IInv
  <2>3. CASE View = {}
    <3>1. cached = {}
      BY <2>3 DEF View
    <3>. QED
      BY <2>1, <2>2, <3>1 DEF IInv, InFlightInOrder, OnlyOwnerUncached
  <2>4. CASE View # {}
    <3> DEFINE docs == Ordered(View)
    <3>1. TellsAll(userArray, docs) /\ TellsAll(listeners[k].rows, docs)
      <4>1. DOMAIN main = {}
        OBVIOUS
      <4>. QED
        BY <2>2, <2>4, <4>1, TablesHold DEF Tables, Waits, Shown
    <3>2. docs \in Seq(Doc) /\ userArray \in Seq(User)
      <4>1. GoodDocs(View)
        BY ViewsGood DEF IInv, InFlightInOrder, GoodViews
      <4>. QED
        BY <4>1, OrderedGood DEF IInv, InFlightInOrder, TypeOK
    <3>. HIDE DEF docs
    <3>3. n \in DOMAIN docs
      <4>1. DOMAIN docs = 1..Len(docs) /\ DOMAIN userArray = 1..Len(userArray)
        BY <3>2, Queued
      <4>. QED
        BY <2>1, <3>1, <4>1 DEF TellsAll
    <3>. QED
      BY <2>1, <2>2, <3>1, <3>3 DEF TellsAll, Tells
  <2>. QED
    BY <2>3, <2>4
<1>. QED
  BY <1>1, InvariantHolds, PTL DEF Spec, QuietTapSelectsShown

\* No tap crashes the app, unless the owner's new profile was refused.
THEOREM OnlyRefusal == Spec => []OnlyRefusalCrashes
<1>1. IInv => OnlyRefusalCrashes
  BY DEF IInv, InFlightInOrder, SnapshotsGrow, OnlyRefusalCrashes
<1>. QED
  BY <1>1, InvariantHolds, PTL

\* Every recorded location carries the address of the player who is there,
\* unless that player has none.
THEOREM LocationsRight == Spec => []LocationNamesItsPlayer
<1> DEFINE Good(l) == l.location \in Nameless \/ l.name = l.location
<1>1. Init => LocationNamesItsPlayer
  <2> SUFFICES ASSUME Init PROVE LocationNamesItsPlayer
    OBVIOUS
  <2>1. DOMAIN testLocations = {}
    BY DEF Init
  <2>. QED
    BY <2>1 DEF LocationNamesItsPlayer
<1>2. IInv /\ LocationNamesItsPlayer /\ [Next]_vars => LocationNamesItsPlayer'
  <2> SUFFICES ASSUME IInv, LocationNamesItsPlayer, [Next]_vars,
                      NEW i \in DOMAIN testLocations'
               PROVE  \/ testLocations'[i].location \in Nameless'
                      \/ testLocations'[i].name = testLocations'[i].location
    BY DEF LocationNamesItsPlayer
  <2>1. \A j \in DOMAIN testLocations : Good(testLocations[j])
    BY DEF LocationNamesItsPlayer
  <2>2. CASE testLocations' = testLocations
    BY <2>1, <2>2, NamelessGrows
  <2>3. CASE Locate
    <3>1. PICK l \in TestLocation : testLocations' = Append(testLocations, l) /\ Good(l)
      BY <2>3, LocateIs
    <3>2. testLocations \in Seq(TestLocation)
      BY DEF IInv, TypeOK
    <3>. HIDE DEF Good
    <3>3. Good(testLocations'[i])
      <4> DEFINE N == Len(testLocations)
      <4>1. /\ DOMAIN testLocations' = 1..(N + 1) /\ testLocations'[N + 1] = l
            /\ \A j \in 1..N : testLocations'[j] = testLocations[j]
            /\ N \in Nat /\ DOMAIN testLocations = 1..N
        BY <3>1, <3>2, Enqueued, Queued
      <4>. HIDE DEF N
      <4>2. i = N + 1 \/ i \in 1..N
        BY <4>1
      <4>. QED
        BY <2>1, <3>1, <4>1, <4>2
    <3>. QED
      BY <3>3, NamelessGrows DEF Good
  <2>4. CASE ProcessEnds
    <3>1. DOMAIN testLocations' = {}
      BY <2>4 DEF ProcessEnds
    <3>. QED
      BY <3>1
  <2>5. testLocations' = testLocations \/ Locate \/ ProcessEnds
    BY DEF Next, vars, ProfileCreated, ProfileChanges, OwnProfileQueued, OwnProfileStored,
           OwnProfileRefused, Watch, OpenList, OpenMap, PlayersArrive, LocationsArrive,
           SnapshotFilling, Reload, SelectRow, SelectMissingRow, Restart
  <2>. QED
    BY <2>2, <2>3, <2>4, <2>5
<1>. QED
  BY <1>1, <1>2, InvariantHolds, PTL DEF Spec
===============================================================================
