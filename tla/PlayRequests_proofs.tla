------------------------- MODULE PlayRequests_proofs -------------------------
(***************************************************************************)
(* Proofs about PlayRequests, for every set of players and every bound.    *)
(***************************************************************************)
EXTENDS PlayRequests, FirestoreFacts

-------------------------------------------------------------------------------
(* Queues whose elements lie in a set *)

\* Taking the head off a queue, or adding to it, stays in the set.
LEMMA QueueOps ==
  ASSUME NEW S, NEW q \in Seq(S)
  PROVE  /\ \A e \in S : Append(q, e) \in Seq(S)
         /\ q # <<>> => Head(q) \in S /\ Tail(q) \in Seq(S)
         /\ \A e \in S : <<e>> \in Seq(S)
         /\ <<>> \in Seq(S)
         /\ \A t \in Seq(S) : q \o t \in Seq(S)
<1>1. q # <<>> => Head(q) \in S /\ Tail(q) \in Seq(S)
  BY HeadTailProperties
<1>2. \A t \in Seq(S) : q \o t \in Seq(S)
  BY ConcatProperties
<1>. QED
  BY <1>1, <1>2

-------------------------------------------------------------------------------
(* The SDK's operators stay in the types *)

\* The local value of a Users document is a Users document.
LEMMA LocalDocType ==
  ASSUME NEW d \in Player, NEW r, NEW q,
         NEW c \in [doc : UserDoc, committed : BOOLEAN]
  PROVE  LocalDoc(d, c, q, r) \in UserDoc
BY DEF LocalDoc, UserDoc

\* The snapshots of one view change are a queue of snapshots of that document.
LEMMA NotifiedType ==
  ASSUME NEW d, NEW r, NEW v, NEW S,
         echoes[d][r] \in Nat,
         echoes[d][r] > 0 => [kind |-> "snapshot", to |-> r] \in S
  PROVE  Notified(d, r, v) \in Seq(S)
<1>1. CASE ShouldRaiseEvent(view[d][r], v)
  <2>1. \A i \in 1..echoes[d][r] : [kind |-> "snapshot", to |-> r] \in S
    OBVIOUS
  <2>2. [i \in 1..echoes[d][r] |-> [kind |-> "snapshot", to |-> r]] \in Seq(S)
    BY <2>1, SeqDef
  <2>. QED
    BY <1>1, <2>2 DEF Notified
<1>2. CASE ~ShouldRaiseEvent(view[d][r], v)
  BY <1>2 DEF Notified
<1>. QED
  BY <1>1, <1>2

\* Whatever the device's copy and queue become, Refreshed keeps the four
\* variables it assigns in their types.
LEMMA RefreshedType ==
  ASSUME TypeOK, NEW d \in Player, NEW r \in Player,
         NEW c \in [doc : UserDoc, committed : BOOLEAN],
         NEW q \in Seq(Mutation), NEW tasks \in Seq(Task),
         Refreshed(d, r, c, q, tasks)
  PROVE  /\ cache' \in [Player -> [Player -> [doc : UserDoc, committed : BOOLEAN]]]
         /\ queue' \in [Player -> Seq(Mutation)]
         /\ view' \in [Player -> [Player -> [doc : UserDoc, local : BOOLEAN]]]
         /\ main' \in [Player -> Seq(Task)]
<1> DEFINE nv == IF echoes[d][r] = 0
                 THEN view[d][r]
                 ELSE NextView(view[d][r], LocalDoc(d, c, q, r),
                               HasPatch(q, r), c.committed)
<1>1. nv \in [doc : UserDoc, local : BOOLEAN]
  <2>1. view[d][r] \in [doc : UserDoc, local : BOOLEAN]
    BY DEF TypeOK
  <2>2. HasPatch(q, r) \in BOOLEAN
    BY DEF HasPatch
  <2>. QED
    BY <2>1, <2>2, LocalDocType, NextViewType
<1>2. Notified(d, r, nv) \in Seq(Task)
  <2>1. [kind |-> "snapshot", to |-> r] \in Task
    BY DEF Task, Snapshot
  <2>2. echoes[d][r] \in Nat
    BY DEF TypeOK
  <2>. QED
    BY <2>1, <2>2, NotifiedType
<1>3. tasks \o Notified(d, r, nv) \in Seq(Task)
  BY <1>2, QueueOps
<1>4. /\ cache' = [cache EXCEPT ![d][r] = c]
      /\ queue' = [queue EXCEPT ![d] = q]
      /\ view' = [view EXCEPT ![d][r] = nv]
      /\ main' = [main EXCEPT ![d] = tasks \o Notified(d, r, nv)]
  BY DEF Refreshed
<1>. HIDE DEF nv
<1>. QED
  BY <1>1, <1>3, <1>4 DEF TypeOK

\* A write stays a write when it moves on in the write stream, is sent again
\* or loses its callback.
LEMMA MutationStages ==
  ASSUME NEW m \in Mutation
  PROVE  /\ [m EXCEPT !.stage = "queued"] \in Mutation
         /\ [m EXCEPT !.stage = "committed"] \in Mutation
         /\ m.kind = "patch" => [m EXCEPT !.stage = "watched"] \in Mutation
         /\ WithoutCallback(m) \in Mutation
BY DEF WithoutCallback, Mutation, AddDocument, Patch, Stage

\* So does one whose patches stay in S when Watch overtakes their answer.
LEMMA WithWatchedType ==
  ASSUME NEW S, NEW q \in Seq(S), NEW r,
         \A m \in S : IsPatchOf(m, r) /\ m.stage = "committed"
                        => [m EXCEPT !.stage = "watched"] \in S
  PROVE  WithWatched(q, r) \in Seq(S)
<1>1. Len(q) \in Nat /\ \A i \in 1..Len(q) : q[i] \in S
  OBVIOUS
<1>2. ASSUME NEW i \in 1..Len(q)
      PROVE  (IF IsPatchOf(q[i], r) /\ q[i].stage = "committed"
              THEN [q[i] EXCEPT !.stage = "watched"] ELSE q[i]) \in S
  BY <1>1 DEF IsPatchOf
<1>3. WithWatched(q, r) \in [1..Len(q) -> S]
  BY <1>2 DEF WithWatched
<1>. QED
  BY <1>1, <1>3, SeqDef

\* And one whose writes stay in S without their callbacks.
LEMMA WithoutCallbacksType ==
  ASSUME NEW S, NEW q \in Seq(S), \A m \in S : WithoutCallback(m) \in S
  PROVE  [i \in 1..Len(q) |-> WithoutCallback(q[i])] \in Seq(S)
<1>1. Len(q) \in Nat /\ \A i \in 1..Len(q) : q[i] \in S
  OBVIOUS
<1>2. [i \in 1..Len(q) |-> WithoutCallback(q[i])] \in [1..Len(q) -> S]
  BY <1>1
<1>. QED
  BY <1>1, <1>2, SeqDef

-------------------------------------------------------------------------------
(* Types *)

\* The initial state is typed.
LEMMA InitType == Init => TypeOK
<1> SUFFICES ASSUME Init PROVE TypeOK
  OBVIOUS
<1>1. NewDoc \in UserDoc
  BY BoundsAreNaturals DEF NewDoc, UserDoc
<1>2. <<>> \in Seq(Mutation) /\ <<>> \in Seq(Task)
  BY EmptySeq
<1>. QED
  BY <1>1, <1>2, BoundsAreNaturals DEF Init, TypeOK, Cached, Viewed, Closed

\* Every action keeps the types.
LEMMA NextType == TypeOK /\ [Next]_vars => TypeOK'
<1> SUFFICES ASSUME TypeOK, [Next]_vars PROVE TypeOK'
  OBVIOUS
<1> USE BoundsAreNaturals
<1>1. ASSUME NEW d \in Player, NEW r \in Player, SendPlayRequest(d, r)
      PROVE  TypeOK'
  <2>1. sent[d] + 1 \in 1..MaxSends
    BY <1>1 DEF SendPlayRequest, TypeOK
  <2>2. NewAdd(r, sent[d] + 1) \in Mutation
    BY <2>1 DEF Mutation, AddDocument, NewAdd, Stage
  <2>3. Append(queue[d], NewAdd(r, sent[d] + 1)) \in Seq(Mutation)
    BY <2>2, QueueOps DEF TypeOK
  <2>. QED
    BY <1>1, <2>1, <2>3 DEF SendPlayRequest, TypeOK, server
<1>2. ASSUME NEW d \in Player, NEW ok \in BOOLEAN, queue[d] # <<>>,
             Head(queue[d]).kind = "add"
      PROVE  /\ Tail(queue[d]) \in Seq(Mutation)
             /\ main[d] \o CompletionOf(Head(queue[d]), ok) \in Seq(Task)
  <2> DEFINE m == Head(queue[d])
  <2>1. m \in Mutation /\ Tail(queue[d]) \in Seq(Mutation)
    BY <1>2, QueueOps DEF TypeOK
  <2>2. m \in AddDocument
    BY <1>2, <2>1 DEF Mutation, Patch
  <2>3. [kind |-> "completion", to |-> m.to, n |-> m.n, ok |-> ok] \in Task
    BY <2>2 DEF Task, Completion, AddDocument
  <2>4. CompletionOf(m, ok) \in Seq(Task)
    BY <2>3, QueueOps DEF CompletionOf
  <2>. QED
    BY <2>1, <2>4, QueueOps DEF TypeOK
<1>3. ASSUME NEW d \in Player, AddCommitted(d) PROVE TypeOK'
  <2>1. PICK i \in DOMAIN queue[d] :
          /\ queue[d][i].kind = "add"
          /\ requests' = requests \cup
               {[from |-> d, to |-> queue[d][i].to, n |-> queue[d][i].n]}
          /\ queue' = [queue EXCEPT ![d][i].stage = "committed"]
    BY <1>3 DEF AddCommitted
  <2> DEFINE m == queue[d][i]
  <2>2. i \in 1..Len(queue[d]) /\ m \in Mutation /\ queue[d] \in Seq(Mutation)
    BY DEF TypeOK
  <2>3. [from |-> d, to |-> m.to, n |-> m.n] \in Request
    BY <2>1, <2>2 DEF Mutation, AddDocument, Patch, Request
  <2>4. [queue[d] EXCEPT ![i] = [m EXCEPT !.stage = "committed"]] \in Seq(Mutation)
    <3> DEFINE mc == [m EXCEPT !.stage = "committed"]
    <3>1. mc \in Mutation
      BY <2>2, MutationStages
    <3>. HIDE DEF mc
    <3>2. [queue[d] EXCEPT ![i] = mc] \in Seq(Mutation)
      BY <2>2, <3>1, ExceptSeq
    <3>. QED
      BY <3>2 DEF mc
  <2>5. queue' = [queue EXCEPT ![d] = [queue[d] EXCEPT ![i] = [m EXCEPT !.stage = "committed"]]]
    BY <2>1
  <2>6. requests' \subseteq Request
    BY <2>1, <2>3 DEF TypeOK
  <2>. HIDE DEF m
  <2>. QED
    BY <1>3, <2>4, <2>5, <2>6 DEF AddCommitted, TypeOK
<1>4. ASSUME NEW d \in Player, AddAcknowledged(d) PROVE TypeOK'
  <2>1. /\ Tail(queue[d]) \in Seq(Mutation)
        /\ main[d] \o CompletionOf(Head(queue[d]), TRUE) \in Seq(Task)
    BY <1>2, <1>4 DEF AddAcknowledged
  <2>. QED
    BY <1>4, <2>1 DEF AddAcknowledged, TypeOK, server
<1>5. ASSUME NEW d \in Player, AddRejected(d) PROVE TypeOK'
  <2>1. /\ Tail(queue[d]) \in Seq(Mutation)
        /\ main[d] \o CompletionOf(Head(queue[d]), FALSE) \in Seq(Task)
    BY <1>2, <1>5 DEF AddRejected
  <2>2. rejects' \in 0..MaxRejects
    BY <1>5 DEF AddRejected, TypeOK
  <2>. QED
    BY <1>5, <2>1, <2>2 DEF AddRejected, TypeOK, server
<1>6. ASSUME NEW d \in Player, RequestFailed(d) PROVE TypeOK'
  <2> DEFINE t == Head(main[d])
  <2>1. t \in Task /\ Tail(main[d]) \in Seq(Task) /\ t.kind = "completion"
    BY <1>6, QueueOps DEF RequestFailed, TypeOK
  <2>2. [n |-> t.n, ok |-> FALSE] \in Outcome
    BY <2>1 DEF Task, Completion, Snapshot, Outcome
  <2>. QED
    BY <1>6, <2>1, <2>2 DEF RequestFailed, TypeOK, server
<1>7. ASSUME NEW d \in Player, RequestAccepted(d) PROVE TypeOK'
  <2> DEFINE t == Head(main[d])
  <2>1. t \in Task /\ Tail(main[d]) \in Seq(Task) /\ t.kind = "completion"
    BY <1>7, QueueOps DEF RequestAccepted, TypeOK
  <2>2. t \in Completion
    BY <2>1 DEF Task, Snapshot
  <2>3. t.to \in Player /\ [n |-> t.n, ok |-> TRUE] \in Outcome
    BY <2>2 DEF Completion, Outcome
  <2>4. [kind |-> "snapshot", to |-> t.to] \in Task
    BY <2>3 DEF Task, Snapshot
  <2>5. Append(Tail(main[d]), [kind |-> "snapshot", to |-> t.to]) \in Seq(Task)
    BY <2>1, <2>4, QueueOps
  <2>6. LocalDoc(d, cache[d][t.to], queue[d], t.to) \in UserDoc
    BY <2>3, LocalDocType DEF TypeOK
  <2>7. Viewed(LocalDoc(d, cache[d][t.to], queue[d], t.to), HasPatch(queue[d], t.to))
          \in [doc : UserDoc, local : BOOLEAN]
    BY <2>6 DEF Viewed, HasPatch
  <2>8. view' \in [Player -> [Player -> [doc : UserDoc, local : BOOLEAN]]]
    BY <1>7, <2>3, <2>7 DEF RequestAccepted, TypeOK
  <2>9. echoes' \in [Player -> [Player -> Nat]]
    <3>1. echoes[d][t.to] + 1 \in Nat
      BY <2>3 DEF TypeOK
    <3>2. echoes' = [echoes EXCEPT ![d][t.to] = echoes[d][t.to] + 1]
      BY <1>7 DEF RequestAccepted
    <3>. HIDE DEF t
    <3>. QED
      BY <2>3, <3>1, <3>2 DEF TypeOK
  <2>10. main' \in [Player -> Seq(Task)]
    BY <1>7, <2>5 DEF RequestAccepted, TypeOK
  <2>11. reported' \in [Player -> SUBSET Outcome]
    BY <1>7, <2>3 DEF RequestAccepted, TypeOK
  <2>. QED
    BY <1>7, <2>8, <2>9, <2>10, <2>11 DEF RequestAccepted, TypeOK, server
<1>8. ASSUME NEW d \in Player, EchoPatches(d) PROVE TypeOK'
  <2> DEFINE t == Head(main[d])
             q == Append(queue[d], NewPatch(t.to))
  <2>1. t \in Task /\ Tail(main[d]) \in Seq(Task) /\ t.kind = "snapshot"
    BY <1>8, QueueOps DEF EchoPatches, TypeOK
  <2>2. t.to \in Player
    BY <2>1 DEF Task, Snapshot, Completion
  <2>3. q \in Seq(Mutation)
    <3>1. NewPatch(t.to) \in Mutation
      BY <2>2 DEF Mutation, Patch, NewPatch, Stage
    <3>. QED
      BY <3>1, QueueOps DEF TypeOK
  <2>4. cache[d][t.to] \in [doc : UserDoc, committed : BOOLEAN]
    BY <2>2 DEF TypeOK
  <2>5. Refreshed(d, t.to, cache[d][t.to], q, Tail(main[d]))
    BY <1>8 DEF EchoPatches
  <2>. HIDE DEF t, q
  <2>. QED
    BY <1>8, <2>1, <2>2, <2>3, <2>4, <2>5, RefreshedType
    DEF EchoPatches, TypeOK, server
<1>9. ASSUME NEW d \in Player, PatchCommitted(d) PROVE TypeOK'
  <2>1. PICK i \in DOMAIN queue[d] :
          /\ queue[d][i].kind = "patch"
          /\ users' = [users EXCEPT ![queue[d][i].to] =
                                       ArrayUnion(users[queue[d][i].to], d)]
          /\ queue' = [queue EXCEPT ![d][i].stage = "committed"]
    BY <1>9 DEF PatchCommitted
  <2> DEFINE m == queue[d][i]
  <2>2. i \in 1..Len(queue[d]) /\ m \in Mutation /\ queue[d] \in Seq(Mutation)
    BY DEF TypeOK
  <2>3. m.to \in Player
    BY <2>2 DEF Mutation, AddDocument, Patch
  <2>4. \A doc \in UserDoc : ArrayUnion(doc, d) \in UserDoc
    BY DEF ArrayUnion, UserDoc
  <2>5. users' \in [Player -> UserDoc]
    BY <2>1, <2>3, <2>4 DEF TypeOK
  <2>6. [queue[d] EXCEPT ![i] = [m EXCEPT !.stage = "committed"]] \in Seq(Mutation)
    <3> DEFINE mc == [m EXCEPT !.stage = "committed"]
    <3>1. mc \in Mutation
      BY <2>2, MutationStages
    <3>. HIDE DEF mc
    <3>2. [queue[d] EXCEPT ![i] = mc] \in Seq(Mutation)
      BY <2>2, <3>1, ExceptSeq
    <3>. QED
      BY <3>2 DEF mc
  <2>7. queue' = [queue EXCEPT ![d] = [queue[d] EXCEPT ![i] = [m EXCEPT !.stage = "committed"]]]
    BY <2>1
  <2>. HIDE DEF m
  <2>. QED
    BY <1>9, <2>5, <2>6, <2>7 DEF PatchCommitted, TypeOK
<1>10. ASSUME NEW d \in Player, PatchAcknowledged(d) PROVE TypeOK'
  <2> DEFINE m == Head(queue[d])
             c == Acknowledged(cache[d][m.to], m, ArrayUnion(cache[d][m.to].doc, d))
  <2>1. m \in Mutation /\ Tail(queue[d]) \in Seq(Mutation)
    BY <1>10, QueueOps DEF PatchAcknowledged, TypeOK
  <2>2. m.to \in Player
    BY <2>1 DEF Mutation, AddDocument, Patch
  <2>3. c \in [doc : UserDoc, committed : BOOLEAN]
    <3>1. \A doc \in UserDoc : ArrayUnion(doc, d) \in UserDoc
      BY DEF ArrayUnion, UserDoc
    <3>2. cache[d][m.to] \in [doc : UserDoc, committed : BOOLEAN]
      BY <2>2 DEF TypeOK
    <3>. QED
      BY <3>1, <3>2 DEF Acknowledged, Cached
  <2>4. Refreshed(d, m.to, c, Tail(queue[d]), main[d])
    BY <1>10 DEF PatchAcknowledged
  <2>5. main[d] \in Seq(Task)
    BY DEF TypeOK
  <2>. HIDE DEF m, c
  <2>. QED
    BY <1>10, <2>1, <2>2, <2>3, <2>4, <2>5, RefreshedType
    DEF PatchAcknowledged, TypeOK, server
<1>11. ASSUME NEW d \in Player, PatchRejected(d) PROVE TypeOK'
  <2> DEFINE r == Head(queue[d]).to
  <2>1. Head(queue[d]) \in Mutation /\ Tail(queue[d]) \in Seq(Mutation)
    BY <1>11, QueueOps DEF PatchRejected, TypeOK
  <2>2. r \in Player
    BY <2>1 DEF Mutation, AddDocument, Patch
  <2>3. cache[d][r] \in [doc : UserDoc, committed : BOOLEAN] /\ main[d] \in Seq(Task)
    BY <2>2 DEF TypeOK
  <2>4. Refreshed(d, r, cache[d][r], Tail(queue[d]), main[d])
    BY <1>11 DEF PatchRejected
  <2>5. rejects' \in 0..MaxRejects
    BY <1>11 DEF PatchRejected, TypeOK
  <2>. HIDE DEF r
  <2>. QED
    BY <1>11, <2>1, <2>2, <2>3, <2>4, <2>5, RefreshedType
    DEF PatchRejected, TypeOK, server
<1>12. ASSUME NEW d \in Player, NEW r \in Player, Watch(d, r) PROVE TypeOK'
  <2>1. Cached(users[r], FALSE) \in [doc : UserDoc, committed : BOOLEAN]
    BY DEF Cached, TypeOK
  <2>2. WithWatched(queue[d], r) \in Seq(Mutation) /\ main[d] \in Seq(Task)
    BY WithWatchedType, MutationStages DEF TypeOK, IsPatchOf
  <2>3. Refreshed(d, r, Cached(users[r], FALSE), WithWatched(queue[d], r), main[d])
    BY <1>12 DEF Watch
  <2>. QED
    BY <1>12, <2>1, <2>2, <2>3, RefreshedType DEF Watch, TypeOK, server
<1>13. ASSUME NEW r \in Player, OtherFieldChanges(r) PROVE TypeOK'
  <2> DEFINE e == users[r].edits + 1
  <2>1. users[r] \in UserDoc /\ users[r].edits \in 0..MaxEdits
    BY DEF TypeOK, UserDoc
  <2>2. e \in 0..MaxEdits
    BY <1>13, <2>1 DEF OtherFieldChanges
  <2>3. users' = [users EXCEPT ![r] = [users[r] EXCEPT !.edits = e]]
    BY <1>13 DEF OtherFieldChanges, TypeOK
  <2>. HIDE DEF e
  <2>4. [users[r] EXCEPT !.edits = e] \in UserDoc
    BY <2>1, <2>2 DEF UserDoc
  <2>. QED
    BY <1>13, <2>3, <2>4 DEF OtherFieldChanges, TypeOK, device
<1>14. ASSUME NEW d \in Player, StreamBreaks(d) PROVE TypeOK'
  <2>1. Resent(queue[d]) \in Seq(Mutation)
    BY ResentType, MutationStages DEF TypeOK
  <2>2. faults' \in 0..MaxFaults
    BY <1>14 DEF StreamBreaks, TypeOK
  <2>. QED
    BY <1>14, <2>1, <2>2 DEF StreamBreaks, TypeOK, server
<1>15. ASSUME NEW d \in Player, Restart(d) PROVE TypeOK'
  <2> DEFINE q == Resent([i \in 1..Len(queue[d]) |-> WithoutCallback(queue[d][i])])
  <2>4. q \in Seq(Mutation)
    <3>1. [i \in 1..Len(queue[d]) |-> WithoutCallback(queue[d][i])] \in Seq(Mutation)
      BY WithoutCallbacksType, MutationStages DEF TypeOK
    <3>. QED
      BY <3>1, ResentType, MutationStages
  <2>5. Closed \in [doc : UserDoc, local : BOOLEAN]
    BY DEF Closed, Viewed, NewDoc, UserDoc
  <2>6. <<>> \in Seq(Task)
    BY EmptySeq
  <2>7. queue' = [queue EXCEPT ![d] = q]
    BY <1>15 DEF Restart
  <2>8. faults' \in 0..MaxFaults
    BY <1>15 DEF Restart, TypeOK
  <2>. HIDE DEF q
  <2>. QED
    BY <1>15, <2>4, <2>5, <2>6, <2>7, <2>8 DEF Restart, TypeOK, server
<1>16. CASE UNCHANGED vars
  BY <1>16 DEF vars, TypeOK
<1>. QED
  BY <1>1, <1>3, <1>4, <1>5, <1>6, <1>7, <1>8, <1>9, <1>10, <1>11, <1>12, <1>13,
     <1>14, <1>15, <1>16
  DEF Next

-------------------------------------------------------------------------------
(* The warrant: no patch without a stored request *)

\* No step removes a document of Requests.
LEMMA RequestsGrow == [Next]_vars => requests \subseteq requests'
BY DEF Next, vars, server, device, SendPlayRequest, AddCommitted, AddAcknowledged,
       AddRejected, RequestFailed, RequestAccepted, EchoPatches, PatchCommitted,
       PatchAcknowledged, PatchRejected, Watch, OtherFieldChanges, StreamBreaks, Restart

\* So what was warranted stays warranted.
LEMMA WarrantKept ==
  ASSUME requests \subseteq requests'
  PROVE  /\ \A d, r : Requested(d, r) => Requested(d, r)'
         /\ \A d : WarrantedWrites(d) \subseteq WarrantedWrites(d)'
         /\ \A d : WarrantedTasks(d) \subseteq WarrantedTasks(d)'
<1>1. \A d, r : Requested(d, r) => Requested(d, r)'
  BY DEF Requested
<1>. QED
  BY <1>1 DEF WarrantedWrites, WarrantedTasks

\* A warranted write stays one when it is sent again, overtaken by Watch, or
\* loses its callback.
LEMMA WarrantedStages ==
  ASSUME NEW d, NEW m \in WarrantedWrites(d)
  PROVE  /\ [m EXCEPT !.stage = "queued"] \in WarrantedWrites(d)
         /\ m.kind = "patch" => [m EXCEPT !.stage = "watched"] \in WarrantedWrites(d)
         /\ WithoutCallback(m) \in WarrantedWrites(d)
<1>1. CASE m.kind = "patch"
  BY <1>1 DEF WarrantedWrites, WithoutCallback, Mutation, AddDocument, Patch, Stage
<1>2. CASE m.kind # "patch"
  BY <1>2 DEF WarrantedWrites, WithoutCallback, Mutation, AddDocument, Patch, Stage
<1>. QED
  BY <1>1, <1>2

\* Queues and echoes that were warranted in the old state still are in the
\* new one.
LEMMA WarrantedAgain ==
  ASSUME requests \subseteq requests',
         \A d \in Player : queue'[d] \in Seq(WarrantedWrites(d)),
         \A d \in Player : main'[d] \in Seq(WarrantedTasks(d)),
         \A d, r \in Player : echoes'[d][r] > 0 => Requested(d, r)
  PROVE  Warranted'
<1>1. ASSUME NEW d \in Player PROVE queue'[d] \in Seq(WarrantedWrites(d)')
  BY WarrantKept, SeqMonotonic
<1>2. ASSUME NEW d \in Player PROVE main'[d] \in Seq(WarrantedTasks(d)')
  BY WarrantKept, SeqMonotonic
<1>3. ASSUME NEW d \in Player, NEW r \in Player, echoes'[d][r] > 0
      PROVE  Requested(d, r)'
  BY <1>3, WarrantKept
<1>. QED
  BY <1>1, <1>2, <1>3 DEF Warranted

\* Refreshing a copy keeps the warrant: the snapshots it raises go to echoes,
\* which have one.
LEMMA RefreshedWarranted ==
  ASSUME TypeOK, Warranted, NEW d \in Player, NEW r \in Player, NEW c,
         NEW q \in Seq(WarrantedWrites(d)), NEW tasks \in Seq(WarrantedTasks(d)),
         Refreshed(d, r, c, q, tasks),
         requests' = requests, echoes' = echoes
  PROVE  Warranted'
<1> DEFINE nv == IF echoes[d][r] = 0
                 THEN view[d][r]
                 ELSE NextView(view[d][r], LocalDoc(d, c, q, r),
                               HasPatch(q, r), c.committed)
           ns == Notified(d, r, nv)
<1>1. ns \in Seq(WarrantedTasks(d))
  <2>1. echoes[d][r] \in Nat
    BY DEF TypeOK
  <2>2. echoes[d][r] > 0 => [kind |-> "snapshot", to |-> r] \in WarrantedTasks(d)
    BY DEF Warranted, WarrantedTasks, Task, Snapshot
  <2>. QED
    BY <2>1, <2>2, NotifiedType
<1>2. tasks \o ns \in Seq(WarrantedTasks(d))
  BY <1>1, QueueOps
<1>3. queue' = [queue EXCEPT ![d] = q] /\ main' = [main EXCEPT ![d] = tasks \o ns]
  BY DEF Refreshed
<1>. HIDE DEF ns, nv
<1>4. ASSUME NEW e \in Player
      PROVE  /\ queue'[e] \in Seq(WarrantedWrites(e))
             /\ main'[e] \in Seq(WarrantedTasks(e))
  BY <1>2, <1>3 DEF TypeOK, Warranted
<1>5. \A e, p \in Player : echoes'[e][p] > 0 => Requested(e, p)
  BY DEF Warranted
<1>. QED
  BY <1>4, <1>5, WarrantedAgain

\* Nothing is queued, listening or waiting at first.
LEMMA InitWarranted == Init => Warranted
<1> SUFFICES ASSUME Init PROVE Warranted
  OBVIOUS
<1>1. \A S : <<>> \in Seq(S)
  BY EmptySeq
<1>. QED
  BY <1>1 DEF Init, Warranted

\* Every action keeps the warrant: only EchoPatches queues a patch, only
\* RequestAccepted adds an echo, and both act on a warranted task.
LEMMA NextWarranted == TypeOK /\ Warranted /\ [Next]_vars => Warranted'
<1> SUFFICES ASSUME TypeOK, Warranted, [Next]_vars PROVE Warranted'
  OBVIOUS
<1>0. requests \subseteq requests'
  BY RequestsGrow
<1>1. ASSUME NEW d \in Player, NEW r \in Player, SendPlayRequest(d, r)
      PROVE  Warranted'
  <2> DEFINE m == NewAdd(r, sent[d] + 1)
  <2>1. sent[d] + 1 \in 1..MaxSends
    BY <1>1, BoundsAreNaturals DEF SendPlayRequest, TypeOK
  <2>2. m \in WarrantedWrites(d)
    BY <2>1 DEF WarrantedWrites, Mutation, AddDocument, NewAdd, Stage
  <2>3. Append(queue[d], m) \in Seq(WarrantedWrites(d))
    BY <2>2, QueueOps DEF Warranted
  <2>4. queue' = [queue EXCEPT ![d] = Append(queue[d], m)]
        /\ main' = main /\ echoes' = echoes
    BY <1>1 DEF SendPlayRequest
  <2>. HIDE DEF m
  <2>. QED
    BY <1>0, <2>3, <2>4, WarrantedAgain DEF TypeOK, Warranted
<1>2. ASSUME NEW d \in Player, NEW ok \in BOOLEAN, queue[d] # <<>>,
             Head(queue[d]).kind = "add",
             ok => Head(queue[d]).stage # "queued",
             queue' = [queue EXCEPT ![d] = Tail(queue[d])],
             main' = [main EXCEPT ![d] = main[d] \o CompletionOf(Head(queue[d]), ok)],
             echoes' = echoes
      PROVE  Warranted'
  <2> DEFINE m == Head(queue[d])
             t == [kind |-> "completion", to |-> m.to, n |-> m.n, ok |-> ok]
  <2>1. m \in WarrantedWrites(d) /\ Tail(queue[d]) \in Seq(WarrantedWrites(d))
    BY <1>2, QueueOps DEF Warranted
  <2>2. m \in AddDocument
    BY <1>2, <2>1 DEF WarrantedWrites, Mutation, Patch
  <2>3. ok => [from |-> d, to |-> m.to, n |-> m.n] \in requests
    BY <1>2, <2>1 DEF WarrantedWrites
  <2>4. t \in WarrantedTasks(d)
    <3>1. t \in Task
      BY <2>2 DEF Task, Completion, AddDocument
    <3>. QED
      BY <2>3, <3>1 DEF WarrantedTasks
  <2>5. CompletionOf(m, ok) = <<t>> \/ CompletionOf(m, ok) = <<>>
    BY DEF CompletionOf
  <2>. HIDE DEF m, t
  <2>6. CompletionOf(m, ok) \in Seq(WarrantedTasks(d))
    <3>1. <<t>> \in Seq(WarrantedTasks(d)) /\ <<>> \in Seq(WarrantedTasks(d))
      BY <2>4, QueueOps
    <3>. QED
      BY <2>5, <3>1
  <2>7. main[d] \o CompletionOf(m, ok) \in Seq(WarrantedTasks(d))
    BY <2>6, QueueOps DEF Warranted
  <2>8. \A e \in Player : main'[e] \in Seq(WarrantedTasks(e))
    BY <1>2, <2>7 DEF TypeOK, Warranted, m
  <2>9. \A e \in Player : queue'[e] \in Seq(WarrantedWrites(e))
    BY <1>2, <2>1 DEF TypeOK, Warranted
  <2>. QED
    BY <1>0, <1>2, <2>8, <2>9, WarrantedAgain DEF Warranted
<1>3. ASSUME NEW d \in Player, AddCommitted(d) PROVE Warranted'
  <2>1. PICK i \in DOMAIN queue[d] :
          /\ queue[d][i].kind = "add"
          /\ requests' = requests \cup
               {[from |-> d, to |-> queue[d][i].to, n |-> queue[d][i].n]}
          /\ queue' = [queue EXCEPT ![d][i].stage = "committed"]
    BY <1>3 DEF AddCommitted
  <2> DEFINE m == queue[d][i]
             mc == [m EXCEPT !.stage = "committed"]
  <2>2. i \in 1..Len(queue[d]) /\ m \in Mutation
    BY DEF TypeOK
  <2>3. queue[d] \in Seq(WarrantedWrites(d)')
    BY <1>0, WarrantKept, SeqMonotonic DEF Warranted
  <2>4. mc \in WarrantedWrites(d)'
    <3>1. mc \in Mutation
      BY <2>2, MutationStages
    <3>2. mc.kind = "add" /\ mc.to = m.to /\ mc.n = m.n
      BY <2>1, <2>2 DEF Mutation, AddDocument, Patch
    <3>3. [from |-> d, to |-> m.to, n |-> m.n] \in requests'
      BY <2>1
    <3>. HIDE DEF mc, m
    <3>4. [from |-> d, to |-> mc.to, n |-> mc.n] \in requests'
      BY <3>2, <3>3
    <3>. QED
      BY <3>1, <3>2, <3>4 DEF WarrantedWrites
  <2>5. queue' = [queue EXCEPT ![d] = [queue[d] EXCEPT ![i] = mc]]
    BY <2>1
  <2>. HIDE DEF mc, m
  <2>6. [queue[d] EXCEPT ![i] = mc] \in Seq(WarrantedWrites(d)')
    BY <2>2, <2>3, <2>4, ExceptSeq
  <2>7. main' = main /\ echoes' = echoes
    BY <1>3 DEF AddCommitted
  <2>8. ASSUME NEW e \in Player PROVE queue'[e] \in Seq(WarrantedWrites(e)')
    <3>1. queue[e] \in Seq(WarrantedWrites(e)')
      BY <1>0, WarrantKept, SeqMonotonic DEF Warranted
    <3>. QED
      BY <2>5, <2>6, <3>1 DEF TypeOK
  <2>9. ASSUME NEW e \in Player PROVE main'[e] \in Seq(WarrantedTasks(e)')
    BY <1>0, <2>7, WarrantKept, SeqMonotonic DEF Warranted
  <2>10. \A e, r \in Player : echoes'[e][r] > 0 => Requested(e, r)'
    BY <1>0, <2>7, WarrantKept DEF Warranted
  <2>. QED
    BY <2>8, <2>9, <2>10 DEF Warranted
<1>4. ASSUME NEW d \in Player, AddAcknowledged(d) PROVE Warranted'
  BY <1>2, <1>4 DEF AddAcknowledged
<1>5. ASSUME NEW d \in Player, AddRejected(d) PROVE Warranted'
  BY <1>2, <1>5 DEF AddRejected
<1>6. ASSUME NEW d \in Player, RequestFailed(d) PROVE Warranted'
  <2>1. Tail(main[d]) \in Seq(WarrantedTasks(d))
    BY <1>6, QueueOps DEF RequestFailed, Warranted
  <2>2. main' = [main EXCEPT ![d] = Tail(main[d])]
        /\ queue' = queue /\ echoes' = echoes
    BY <1>6 DEF RequestFailed
  <2>. QED
    BY <1>0, <2>1, <2>2, WarrantedAgain DEF TypeOK, Warranted
<1>7. ASSUME NEW d \in Player, RequestAccepted(d) PROVE Warranted'
  <2> DEFINE t == Head(main[d])
             s == [kind |-> "snapshot", to |-> t.to]
  <2>1. /\ t \in WarrantedTasks(d)
        /\ Tail(main[d]) \in Seq(WarrantedTasks(d))
        /\ t.kind = "completion" /\ t.ok
    BY <1>7, QueueOps DEF RequestAccepted, Warranted
  <2>2. t.to \in Player /\ Requested(d, t.to)
    BY <2>1 DEF WarrantedTasks, Task, Completion, Snapshot, Requested
  <2>3. s \in WarrantedTasks(d)
    BY <2>2 DEF WarrantedTasks, Task, Snapshot
  <2>4. /\ main' = [main EXCEPT ![d] = Append(Tail(main[d]), s)]
        /\ queue' = queue
        /\ echoes' = [echoes EXCEPT ![d][t.to] = echoes[d][t.to] + 1]
    BY <1>7 DEF RequestAccepted
  <2>. HIDE DEF t, s
  <2>5. Append(Tail(main[d]), s) \in Seq(WarrantedTasks(d))
    BY <2>1, <2>3, QueueOps
  <2>6. \A e \in Player : main'[e] \in Seq(WarrantedTasks(e))
    BY <2>4, <2>5 DEF TypeOK, Warranted
  <2>7. \A e, r \in Player : echoes'[e][r] > 0 => Requested(e, r)
    BY <2>2, <2>4 DEF TypeOK, Warranted
  <2>. QED
    BY <1>0, <2>4, <2>6, <2>7, WarrantedAgain DEF Warranted
<1>8. ASSUME NEW d \in Player, EchoPatches(d) PROVE Warranted'
  <2> DEFINE t == Head(main[d])
             q == Append(queue[d], NewPatch(t.to))
  <2>1. /\ t \in WarrantedTasks(d)
        /\ Tail(main[d]) \in Seq(WarrantedTasks(d))
        /\ t.kind = "snapshot"
    BY <1>8, QueueOps DEF EchoPatches, Warranted
  <2>2. t.to \in Player /\ Requested(d, t.to)
    BY <2>1 DEF WarrantedTasks, Task, Completion, Snapshot
  <2>3. NewPatch(t.to) \in WarrantedWrites(d)
    BY <2>2 DEF WarrantedWrites, Mutation, Patch, NewPatch, Stage
  <2>4. q \in Seq(WarrantedWrites(d))
    BY <2>3, QueueOps DEF Warranted
  <2>5. Refreshed(d, t.to, cache[d][t.to], q, Tail(main[d]))
        /\ requests' = requests /\ echoes' = echoes
    BY <1>8 DEF EchoPatches, server
  <2>. HIDE DEF t, q
  <2>. QED
    BY <2>1, <2>2, <2>4, <2>5, RefreshedWarranted
<1>9. ASSUME NEW d \in Player, PatchCommitted(d) PROVE Warranted'
  <2>1. PICK i \in DOMAIN queue[d] :
          /\ queue[d][i].kind = "patch"
          /\ queue' = [queue EXCEPT ![d][i].stage = "committed"]
    BY <1>9 DEF PatchCommitted
  <2> DEFINE m == queue[d][i]
             mc == [m EXCEPT !.stage = "committed"]
  <2>2. i \in 1..Len(queue[d]) /\ m \in WarrantedWrites(d)
        /\ queue[d] \in Seq(WarrantedWrites(d))
    BY DEF Warranted
  <2>3. mc \in WarrantedWrites(d)
    <3>1. m \in Mutation /\ Requested(d, m.to)
      BY <2>1, <2>2 DEF WarrantedWrites
    <3>2. mc \in Mutation
      BY <3>1, MutationStages
    <3>3. mc.kind = "patch" /\ mc.to = m.to
      BY <2>1, <3>1 DEF Mutation, AddDocument, Patch
    <3>. HIDE DEF m, mc
    <3>. QED
      BY <3>1, <3>2, <3>3 DEF WarrantedWrites
  <2>4. queue' = [queue EXCEPT ![d] = [queue[d] EXCEPT ![i] = mc]]
    BY <2>1
  <2>. HIDE DEF m, mc
  <2>5. [queue[d] EXCEPT ![i] = mc] \in Seq(WarrantedWrites(d))
    BY <2>2, <2>3, ExceptSeq
  <2>6. main' = main /\ echoes' = echoes
    BY <1>9 DEF PatchCommitted
  <2>7. \A e \in Player : queue'[e] \in Seq(WarrantedWrites(e))
    BY <2>4, <2>5 DEF TypeOK, Warranted
  <2>. QED
    BY <1>0, <2>6, <2>7, WarrantedAgain DEF Warranted
<1>10. ASSUME NEW d \in Player, PatchAcknowledged(d) PROVE Warranted'
  <2> DEFINE m == Head(queue[d])
             c == Acknowledged(cache[d][m.to], m, ArrayUnion(cache[d][m.to].doc, d))
  <2>1. m \in WarrantedWrites(d) /\ Tail(queue[d]) \in Seq(WarrantedWrites(d))
    BY <1>10, QueueOps DEF PatchAcknowledged, Warranted
  <2>2. m.to \in Player
    BY <2>1 DEF WarrantedWrites, Mutation, AddDocument, Patch
  <2>3. Refreshed(d, m.to, c, Tail(queue[d]), main[d])
        /\ requests' = requests /\ echoes' = echoes
    BY <1>10 DEF PatchAcknowledged, server
  <2>4. main[d] \in Seq(WarrantedTasks(d))
    BY DEF Warranted
  <2>. HIDE DEF m, c
  <2>. QED
    BY <2>1, <2>2, <2>3, <2>4, RefreshedWarranted
<1>11. ASSUME NEW d \in Player, PatchRejected(d) PROVE Warranted'
  <2> DEFINE r == Head(queue[d]).to
  <2>1. Head(queue[d]) \in WarrantedWrites(d) /\ Tail(queue[d]) \in Seq(WarrantedWrites(d))
    BY <1>11, QueueOps DEF PatchRejected, Warranted
  <2>2. r \in Player
    BY <2>1 DEF WarrantedWrites, Mutation, AddDocument, Patch
  <2>3. Refreshed(d, r, cache[d][r], Tail(queue[d]), main[d])
        /\ requests' = requests /\ echoes' = echoes
    BY <1>11 DEF PatchRejected, server
  <2>4. main[d] \in Seq(WarrantedTasks(d))
    BY DEF Warranted
  <2>. HIDE DEF r
  <2>. QED
    BY <2>1, <2>2, <2>3, <2>4, RefreshedWarranted
<1>12. ASSUME NEW d \in Player, NEW r \in Player, Watch(d, r) PROVE Warranted'
  <2>1. Refreshed(d, r, Cached(users[r], FALSE), WithWatched(queue[d], r), main[d])
        /\ requests' = requests /\ echoes' = echoes
    BY <1>12 DEF Watch, server
  <2>2. WithWatched(queue[d], r) \in Seq(WarrantedWrites(d))
    BY WarrantedStages, WithWatchedType DEF Warranted, IsPatchOf
  <2>3. main[d] \in Seq(WarrantedTasks(d))
    BY DEF Warranted
  <2>. QED
    BY <2>1, <2>2, <2>3, RefreshedWarranted
<1>13. ASSUME NEW r \in Player, OtherFieldChanges(r) PROVE Warranted'
  <2>1. queue' = queue /\ main' = main /\ echoes' = echoes
    BY <1>13 DEF OtherFieldChanges, device
  <2>. QED
    BY <1>0, <2>1, WarrantedAgain DEF Warranted
<1>14. ASSUME NEW d \in Player, StreamBreaks(d) PROVE Warranted'
  <2>1. Resent(queue[d]) \in Seq(WarrantedWrites(d))
    BY ResentType, WarrantedStages DEF Warranted
  <2>2. /\ queue' = [queue EXCEPT ![d] = Resent(queue[d])]
        /\ main' = main /\ echoes' = echoes
    BY <1>14 DEF StreamBreaks
  <2>3. \A e \in Player : queue'[e] \in Seq(WarrantedWrites(e))
    BY <2>1, <2>2 DEF TypeOK, Warranted
  <2>. QED
    BY <1>0, <2>2, <2>3, WarrantedAgain DEF Warranted
<1>15. ASSUME NEW d \in Player, Restart(d) PROVE Warranted'
  <2> DEFINE q == Resent([i \in 1..Len(queue[d]) |-> WithoutCallback(queue[d][i])])
  <2>4. q \in Seq(WarrantedWrites(d))
    <3>1. [i \in 1..Len(queue[d]) |-> WithoutCallback(queue[d][i])]
            \in Seq(WarrantedWrites(d))
      BY WithoutCallbacksType, WarrantedStages DEF Warranted
    <3>. QED
      BY <3>1, ResentType, WarrantedStages
  <2>5. <<>> \in Seq(WarrantedTasks(d))
    BY EmptySeq
  <2>6. /\ queue' = [queue EXCEPT ![d] = q]
        /\ main' = [main EXCEPT ![d] = <<>>]
        /\ echoes' = [echoes EXCEPT ![d] = [r \in Player |-> 0]]
    BY <1>15 DEF Restart
  <2>. HIDE DEF q
  <2>7. \A e, r \in Player : echoes'[e][r] > 0 => Requested(e, r)
    BY <2>6 DEF TypeOK, Warranted
  <2>8. \A e \in Player : main'[e] \in Seq(WarrantedTasks(e))
    BY <2>5, <2>6 DEF TypeOK, Warranted
  <2>9. \A e \in Player : queue'[e] \in Seq(WarrantedWrites(e))
    BY <2>4, <2>6 DEF TypeOK, Warranted
  <2>. QED
    BY <1>0, <2>7, <2>8, <2>9, WarrantedAgain
<1>16. CASE UNCHANGED vars
  <2>1. queue' = queue /\ main' = main /\ echoes' = echoes
    BY <1>16 DEF vars
  <2>. QED
    BY <1>0, <2>1, WarrantedAgain DEF Warranted
<1>. QED
  BY <1>1, <1>3, <1>4, <1>5, <1>6, <1>7, <1>8, <1>9, <1>10, <1>11, <1>12, <1>13,
     <1>14, <1>15, <1>16
  DEF Next

\* The inductive invariant: types, and a stored request behind every patch.
IInv == TypeOK /\ Warranted /\ PendingHasRequest

\* What one step does to the requesters shown on r's document: nothing, or one
\* committed patch by a player whose request is stored.
LEMMA PendingStep ==
  ASSUME TypeOK, Warranted, [Next]_vars
  PROVE  \/ \A r \in Player : users'[r].pendingRequest = users[r].pendingRequest
         \/ /\ requests' = requests
            /\ \E d, r \in Player :
                 /\ Requested(d, r)
                 /\ users' = [users EXCEPT ![r] = ArrayUnion(users[r], d)]
<1>1. ASSUME NEW d \in Player, PatchCommitted(d)
      PROVE  /\ requests' = requests
             /\ \E r \in Player :
                  /\ Requested(d, r)
                  /\ users' = [users EXCEPT ![r] = ArrayUnion(users[r], d)]
  <2>1. PICK i \in DOMAIN queue[d] :
          /\ queue[d][i].kind = "patch"
          /\ users' = [users EXCEPT ![queue[d][i].to] =
                                       ArrayUnion(users[queue[d][i].to], d)]
    BY <1>1 DEF PatchCommitted
  <2> DEFINE m == queue[d][i]
  <2>2. m \in WarrantedWrites(d)
    BY DEF Warranted
  <2>3. m.to \in Player /\ Requested(d, m.to)
    BY <2>1, <2>2 DEF WarrantedWrites, Mutation, AddDocument, Patch
  <2>4. /\ requests' = requests
        /\ users' = [users EXCEPT ![m.to] = ArrayUnion(users[m.to], d)]
    BY <1>1, <2>1 DEF PatchCommitted
  <2>. HIDE DEF m
  <2>. QED
    BY <2>3, <2>4
<1>2. ASSUME NEW p \in Player, OtherFieldChanges(p)
      PROVE  \A r \in Player : users'[r].pendingRequest = users[r].pendingRequest
  BY <1>2 DEF OtherFieldChanges, TypeOK, UserDoc
<1>3. CASE users' = users
  BY <1>3
<1>4. \/ users' = users
      \/ \E d \in Player : PatchCommitted(d)
      \/ \E p \in Player : OtherFieldChanges(p)
  BY DEF Next, vars, server, SendPlayRequest, AddCommitted, AddAcknowledged,
         AddRejected, RequestFailed, RequestAccepted, EchoPatches, PatchAcknowledged,
         PatchRejected, Watch, StreamBreaks, Restart
<1>. QED
  BY <1>1, <1>2, <1>3, <1>4

\* A requester appears on a document only by a warranted patch.
LEMMA NextPending == IInv /\ [Next]_vars => PendingHasRequest'
<1> SUFFICES ASSUME TypeOK, Warranted, PendingHasRequest, [Next]_vars,
                    NEW r \in Player, NEW s \in users'[r].pendingRequest
             PROVE  Requested(s, r)'
  BY DEF IInv, PendingHasRequest
<1>0. \A d, p : Requested(d, p) => Requested(d, p)'
  BY RequestsGrow, WarrantKept
<1>1. CASE s \in users[r].pendingRequest
  BY <1>0, <1>1 DEF PendingHasRequest
<1>2. CASE s \notin users[r].pendingRequest
  <2>1. PICK d \in Player, p \in Player :
          /\ Requested(d, p)
          /\ users' = [users EXCEPT ![p] = ArrayUnion(users[p], d)]
    BY <1>2, PendingStep
  <2>2. s = d /\ r = p
    BY <1>2, <2>1 DEF ArrayUnion, TypeOK, UserDoc
  <2>. QED
    BY <1>0, <2>1, <2>2
<1>. QED
  BY <1>1, <1>2

\* The inductive invariant holds in every reachable state.
LEMMA InvariantHolds == Spec => []IInv
<1>1. Init => IInv
  <2>1. Init => PendingHasRequest
    BY DEF Init, NewDoc, PendingHasRequest
  <2>. QED
    BY <2>1, InitType, InitWarranted DEF IInv
<1>2. IInv /\ [Next]_vars => IInv'
  BY NextType, NextWarranted, NextPending DEF IInv
<1>. QED
  BY <1>1, <1>2, PTL DEF Spec

-------------------------------------------------------------------------------
(* Theorems *)

\* Every variable keeps its type.
THEOREM TypeCorrect == Spec => []TypeOK
BY InvariantHolds, PTL DEF IInv

\* A requester shown on a Users document has a stored request: the second of
\* the two writes of sendPlayRequest is never visible without the first.
THEOREM PendingIsRequested == Spec => []PendingHasRequest
BY InvariantHolds, PTL DEF IInv

\* The screen is told of success only for a request the server stored.
THEOREM SuccessIsTrue == Spec => []SuccessIsStored
<1>1. Init => SuccessIsStored
  BY DEF Init, SuccessIsStored
<1>2. IInv /\ SuccessIsStored /\ [Next]_vars => SuccessIsStored'
  <2> SUFFICES ASSUME TypeOK, Warranted, SuccessIsStored, [Next]_vars,
                      NEW d \in Player, NEW o \in reported'[d], o.ok
               PROVE  (\E q \in requests : q.from = d /\ q.n = o.n)'
    BY DEF IInv, SuccessIsStored
  <2>0. requests \subseteq requests'
    BY RequestsGrow
  <2>1. CASE o \in reported[d]
    BY <2>0, <2>1 DEF SuccessIsStored
  <2>2. ASSUME NEW e \in Player, RequestAccepted(e), o \notin reported[d]
        PROVE  (\E q \in requests : q.from = d /\ q.n = o.n)'
    <3> DEFINE t == Head(main[e])
    <3>1. t \in WarrantedTasks(e) /\ t.kind = "completion" /\ t.ok
      BY <2>2, QueueOps DEF RequestAccepted, Warranted
    <3>2. [from |-> e, to |-> t.to, n |-> t.n] \in requests
      BY <3>1 DEF WarrantedTasks
    <3>3. reported' = [reported EXCEPT ![e] = reported[e] \cup {[n |-> t.n, ok |-> TRUE]}]
      BY <2>2 DEF RequestAccepted
    <3>. HIDE DEF t
    <3>4. d = e /\ o.n = t.n
      BY <2>2, <3>3 DEF TypeOK
    <3>. QED
      BY <2>0, <3>2, <3>4
  <2>3. ASSUME NEW e \in Player, RequestFailed(e), o \notin reported[d]
        PROVE  FALSE
    <3>1. \E n : reported' = [reported EXCEPT ![e] = reported[e] \cup {[n |-> n, ok |-> FALSE]}]
      BY <2>3 DEF RequestFailed
    <3>. QED
      BY <2>3, <3>1 DEF TypeOK
  <2>4. \/ reported' = reported
        \/ \E e \in Player : RequestAccepted(e)
        \/ \E e \in Player : RequestFailed(e)
    BY DEF Next, vars, device, SendPlayRequest, AddCommitted, AddAcknowledged,
           AddRejected, EchoPatches, PatchCommitted, PatchAcknowledged, PatchRejected,
           Watch, OtherFieldChanges, StreamBreaks, Restart
  <2>. QED
    BY <2>1, <2>2, <2>3, <2>4
<1>. QED
  BY <1>1, <1>2, InvariantHolds, PTL DEF Spec

\* No step takes a requester out of a stored pendingRequest.
LEMMA RequestersStay ==
  ASSUME TypeOK, Warranted, [Next]_vars, NEW r \in Player
  PROVE  users[r].pendingRequest \subseteq users'[r].pendingRequest
<1>1. CASE \A p \in Player : users'[p].pendingRequest = users[p].pendingRequest
  BY <1>1
<1>2. ASSUME NEW d \in Player, NEW p \in Player,
             users' = [users EXCEPT ![p] = ArrayUnion(users[p], d)]
      PROVE  users[r].pendingRequest \subseteq users'[r].pendingRequest
  BY <1>2 DEF ArrayUnion, TypeOK, UserDoc
<1>. QED
  BY <1>1, <1>2, PendingStep

\* What a step does to Requests: nothing, or one new document of one device.
LEMMA RequestsStep ==
  ASSUME TypeOK, [Next]_vars
  PROVE  \/ requests' = requests
         \/ /\ users' = users
            /\ \E d, r \in Player : \E n \in 1..MaxSends :
                 requests' = requests \cup {[from |-> d, to |-> r, n |-> n]}
<1>1. ASSUME NEW d \in Player, AddCommitted(d)
      PROVE  /\ users' = users
             /\ \E r \in Player : \E n \in 1..MaxSends :
                  requests' = requests \cup {[from |-> d, to |-> r, n |-> n]}
  <2>1. PICK i \in DOMAIN queue[d] :
          /\ queue[d][i].kind = "add"
          /\ requests' = requests \cup
               {[from |-> d, to |-> queue[d][i].to, n |-> queue[d][i].n]}
    BY <1>1 DEF AddCommitted
  <2> DEFINE m == queue[d][i]
  <2>2. m.to \in Player /\ m.n \in 1..MaxSends
    <3>1. m \in Mutation
      BY DEF TypeOK
    <3>. QED
      BY <2>1, <3>1 DEF Mutation, AddDocument, Patch
  <2>3. /\ users' = users
        /\ requests' = requests \cup {[from |-> d, to |-> m.to, n |-> m.n]}
    BY <1>1, <2>1 DEF AddCommitted
  <2>. HIDE DEF m
  <2>. QED
    BY <2>2, <2>3
<1>2. requests' = requests \/ \E d \in Player : AddCommitted(d)
  BY DEF Next, vars, server, device, SendPlayRequest, AddAcknowledged,
         AddRejected, RequestFailed, RequestAccepted, EchoPatches, PatchCommitted,
         PatchAcknowledged, PatchRejected, Watch, OtherFieldChanges, StreamBreaks,
         Restart
<1>. QED
  BY <1>1, <1>2

\* The server's two collections implement the board of requests: under the
\* mapping that forgets the devices, every step stores a request, shows a
\* stored one, or is invisible.
THEOREM BoardIsImplemented == Spec => ImplementsBoard
<1> DEFINE pend == [r \in Player |-> users[r].pendingRequest]
<1>1. Init => Board!Init
  BY DEF Init, Board!Init, NewDoc
<1>2. IInv /\ [Next]_vars => [Board!Next]_<<requests, pend>>
  <2> SUFFICES ASSUME TypeOK, Warranted, [Next]_vars
               PROVE  Board!Next \/ (requests' = requests /\ pend' = pend)
    BY DEF IInv
  <2>1. ASSUME NEW d \in Player, NEW r \in Player, NEW n \in 1..MaxSends,
               users' = users,
               requests' = requests \cup {[from |-> d, to |-> r, n |-> n]}
        PROVE  Board!Next
    BY <2>1 DEF Board!Next, Board!Store
  <2>2. ASSUME NEW d \in Player, NEW r \in Player,
               requests' = requests, Requested(d, r),
               users' = [users EXCEPT ![r] = ArrayUnion(users[r], d)]
        PROVE  Board!Next
    <3>1. pend' = [pend EXCEPT ![r] = pend[r] \cup {d}]
      <4>1. \A p \in Player :
              users'[p].pendingRequest =
                IF p = r THEN users[p].pendingRequest \cup {d}
                         ELSE users[p].pendingRequest
        BY <2>2 DEF ArrayUnion, TypeOK, UserDoc
      <4>. QED
        BY <4>1
    <3>2. Board!Show(d, r)
      BY <2>2, <3>1 DEF Board!Show, Requested
    <3>. QED
      BY <3>2 DEF Board!Next
  <2>3. CASE \A r \in Player : users'[r].pendingRequest = users[r].pendingRequest
    <3>1. pend' = pend
      BY <2>3
    <3>. QED
      BY <2>1, <3>1, RequestsStep
  <2>. QED
    BY <2>2, <2>3, PendingStep
<1>. QED
  BY <1>1, <1>2, InvariantHolds, PTL DEF Spec, ImplementsBoard, Board!Spec
-------------------------------------------------------------------------------
(* A request's number is used once *)

\* Every new document queued in p was queued in q, shift places further back.
AddsCameFrom(p, q, shift) ==
  \A i \in DOMAIN p :
    p[i].kind = "add" =>
      /\ i + shift \in DOMAIN q
      /\ q[i + shift].kind = "add"
      /\ q[i + shift].n = p[i].n
      /\ q[i + shift].to = p[i].to

\* With fewer documents queued and fewer failures, numbers are still used once.
LEMMA FewerAdds ==
  ASSUME NEW stored, NEW q, NEW failed, NEW k, OneFate(stored, q, failed, k),
         NEW p \in Seq(Mutation), NEW shift \in Nat, AddsCameFrom(p, q, shift),
         NEW f, f \subseteq failed
  PROVE  OneFate(stored, p, f, k)
<1>1. \A n \in f : n <= k /\ \A s \in stored : s.n # n
  BY DEF OneFate
<1>2. \A s \in stored : s.n <= k
  BY DEF OneFate
<1>3. ASSUME NEW i \in DOMAIN p, p[i].kind = "add"
      PROVE  /\ p[i].n <= k
             /\ p[i].n \notin f
             /\ \A s \in stored : s.n = p[i].n => s.to = p[i].to
  <2>1. /\ i + shift \in DOMAIN q
        /\ q[i + shift].kind = "add"
        /\ q[i + shift].n = p[i].n
        /\ q[i + shift].to = p[i].to
    BY <1>3 DEF AddsCameFrom
  <2>2. /\ q[i + shift].n <= k
        /\ q[i + shift].n \notin failed
        /\ \A s \in stored : s.n = q[i + shift].n => s.to = q[i + shift].to
    BY <2>1 DEF OneFate
  <2>. QED
    BY <2>1, <2>2
<1>4. ASSUME NEW i \in DOMAIN p, NEW j \in DOMAIN p,
             p[i].kind = "add", p[j].kind = "add", p[i].n = p[j].n
      PROVE  i = j
  <2>1. /\ i + shift \in DOMAIN q /\ j + shift \in DOMAIN q
        /\ q[i + shift].kind = "add" /\ q[j + shift].kind = "add"
        /\ q[i + shift].n = q[j + shift].n
    BY <1>4 DEF AddsCameFrom
  <2>2. i + shift = j + shift
    BY <2>1 DEF OneFate
  <2>3. i \in Nat /\ j \in Nat
    OBVIOUS
  <2>. QED
    BY <2>2, <2>3
<1>. QED
  BY <1>1, <1>2, <1>3, <1>4 DEF OneFate

\* Where the queued documents come from after a change of the queue that
\* queues no new document.
LEMMA AddsAfterPatch ==
  ASSUME NEW q \in Seq(Mutation), NEW r \in Player
  PROVE  AddsCameFrom(Append(q, NewPatch(r)), q, 0)
<1>1. NewPatch(r) \in Mutation /\ NewPatch(r).kind = "patch"
  BY DEF NewPatch, Mutation, Patch, Stage
<1>. QED
  BY <1>1, AppendProperties DEF AddsCameFrom

LEMMA AddsAfterTail ==
  ASSUME NEW q \in Seq(Mutation), q # <<>>
  PROVE  AddsCameFrom(Tail(q), q, 1)
<1>1. /\ Tail(q) \in Seq(Mutation)
      /\ Len(Tail(q)) = Len(q) - 1
      /\ \A i \in 1..Len(Tail(q)) : Tail(q)[i] = q[i + 1]
  BY HeadTailProperties
<1>2. Len(q) \in Nat /\ DOMAIN q = 1..Len(q) /\ DOMAIN Tail(q) = 1..Len(Tail(q))
  BY <1>1, LenProperties
<1>. QED
  BY <1>1, <1>2 DEF AddsCameFrom

\* Changing stages and callbacks keeps every document and number.
SameWrite(m, old) ==
  /\ m.kind = old.kind
  /\ m.to = old.to
  /\ old.kind = "add" => m.n = old.n

LEMMA StagesKeepAdds ==
  ASSUME NEW m \in Mutation, NEW s \in Stage
  PROVE  /\ SameWrite([m EXCEPT !.stage = s], m)
         /\ SameWrite(WithoutCallback(m), m)
<1>1. CASE m \in AddDocument
  BY <1>1 DEF AddDocument, WithoutCallback, SameWrite
<1>2. CASE m \in Patch
  BY <1>2 DEF Patch, WithoutCallback, SameWrite
<1>. QED
  BY <1>1, <1>2 DEF Mutation

\* A queue of the same writes queues no other document.
LEMMA SameAdds ==
  ASSUME NEW p, NEW q \in Seq(Mutation), DOMAIN p = 1..Len(q),
         \A i \in 1..Len(q) : SameWrite(p[i], q[i])
  PROVE  AddsCameFrom(p, q, 0)
<1>1. DOMAIN q = 1..Len(q) /\ \A i \in DOMAIN q : i + 0 = i
  BY LenProperties
<1>. QED
  BY <1>1 DEF AddsCameFrom, SameWrite

LEMMA AddsAfterStages ==
  ASSUME NEW q \in Seq(Mutation)
  PROVE  /\ AddsCameFrom(q, q, 0)
         /\ AddsCameFrom(Resent(q), q, 0)
         /\ \A r : AddsCameFrom(WithWatched(q, r), q, 0)
         /\ AddsCameFrom(Resent([i \in 1..Len(q) |-> WithoutCallback(q[i])]), q, 0)
         /\ \A i \in DOMAIN q :
              AddsCameFrom([q EXCEPT ![i] = [q[i] EXCEPT !.stage = "committed"]], q, 0)
<1>0. /\ DOMAIN q = 1..Len(q) /\ Len(q) \in Nat
      /\ \A i \in 1..Len(q) : q[i] \in Mutation /\ SameWrite(q[i], q[i])
  BY LenProperties DEF SameWrite
<1>1. AddsCameFrom(q, q, 0)
  BY <1>0, SameAdds
<1>2. AddsCameFrom(Resent(q), q, 0)
  <2>1. ASSUME NEW i \in 1..Len(q) PROVE SameWrite([q[i] EXCEPT !.stage = "queued"], q[i])
    BY <1>0, StagesKeepAdds DEF Stage
  <2>2. DOMAIN Resent(q) = 1..Len(q)
        /\ \A i \in 1..Len(q) : Resent(q)[i] = [q[i] EXCEPT !.stage = "queued"]
    BY DEF Resent
  <2>. QED
    BY <2>1, <2>2, SameAdds
<1>3. ASSUME NEW r PROVE AddsCameFrom(WithWatched(q, r), q, 0)
  <2>1. ASSUME NEW i \in 1..Len(q) PROVE SameWrite(WithWatched(q, r)[i], q[i])
    <3>1. SameWrite([q[i] EXCEPT !.stage = "watched"], q[i])
      BY <1>0, StagesKeepAdds DEF Stage
    <3>2. \/ WithWatched(q, r)[i] = q[i]
          \/ WithWatched(q, r)[i] = [q[i] EXCEPT !.stage = "watched"]
      BY <1>0 DEF WithWatched
    <3>. QED
      BY <1>0, <3>1, <3>2
  <2>2. DOMAIN WithWatched(q, r) = 1..Len(q)
    BY DEF WithWatched
  <2>. QED
    BY <2>1, <2>2, SameAdds
<1>4. AddsCameFrom(Resent([i \in 1..Len(q) |-> WithoutCallback(q[i])]), q, 0)
  <2> DEFINE p == [i \in 1..Len(q) |-> WithoutCallback(q[i])]
  <2>1. p \in Seq(Mutation) /\ Len(p) = Len(q)
    <3>1. \A m \in Mutation : WithoutCallback(m) \in Mutation
      BY MutationStages
    <3>2. p \in Seq(Mutation)
      BY <3>1, WithoutCallbacksType
    <3>3. DOMAIN p = 1..Len(q)
      OBVIOUS
    <3>. HIDE DEF p
    <3>. QED
      BY <1>0, <3>2, <3>3, LenProperties
  <2>2. ASSUME NEW i \in 1..Len(q) PROVE SameWrite(Resent(p)[i], q[i])
    <3>1. p[i] = WithoutCallback(q[i]) /\ p[i] \in Mutation
      BY <1>0, <2>1
    <3>2. Resent(p)[i] = [p[i] EXCEPT !.stage = "queued"]
      BY <2>1 DEF Resent
    <3>. HIDE DEF p
    <3>3. SameWrite([p[i] EXCEPT !.stage = "queued"], p[i])
      BY <3>1, StagesKeepAdds DEF Stage
    <3>4. SameWrite(p[i], q[i])
      BY <1>0, <3>1, StagesKeepAdds DEF Stage
    <3>. QED
      BY <3>2, <3>3, <3>4 DEF SameWrite
  <2>3. DOMAIN Resent(p) = 1..Len(q)
    BY <2>1 DEF Resent
  <2>. HIDE DEF p
  <2>4. AddsCameFrom(Resent(p), q, 0)
    BY <2>2, <2>3, SameAdds
  <2>. QED
    BY <2>4 DEF p
<1>5. ASSUME NEW i \in DOMAIN q
      PROVE  AddsCameFrom([q EXCEPT ![i] = [q[i] EXCEPT !.stage = "committed"]], q, 0)
  <2> DEFINE mc == [q[i] EXCEPT !.stage = "committed"]
  <2>1. SameWrite(mc, q[i])
    BY <1>0, StagesKeepAdds DEF Stage
  <2>. HIDE DEF mc
  <2>2. \A j \in 1..Len(q) : SameWrite([q EXCEPT ![i] = mc][j], q[j])
    BY <1>0, <2>1
  <2>3. AddsCameFrom([q EXCEPT ![i] = mc], q, 0)
    BY <1>0, <2>2, SameAdds
  <2>. QED
    BY <2>3 DEF mc
<1>. QED
  BY <1>1, <1>2, <1>3, <1>4, <1>5

\* The failures known to a device after tasks leave, or join, its main queue.
LEMMA FailuresConcat ==
  ASSUME NEW tasks \in Seq(Task), NEW new \in Seq(Task), NEW out,
         NEW n \in FailedNumbers(tasks \o new, out)
  PROVE  \/ n \in FailedNumbers(tasks, out)
         \/ \E j \in DOMAIN new :
              new[j].kind = "completion" /\ ~new[j].ok /\ new[j].n = n
<1>1. CASE [n |-> n, ok |-> FALSE] \in out
  BY <1>1 DEF FailedNumbers
<1>2. CASE \E i \in DOMAIN (tasks \o new) :
             /\ (tasks \o new)[i].kind = "completion"
             /\ ~(tasks \o new)[i].ok
             /\ (tasks \o new)[i].n = n
  <2>1. PICK i \in DOMAIN (tasks \o new) :
             /\ (tasks \o new)[i].kind = "completion"
             /\ ~(tasks \o new)[i].ok
             /\ (tasks \o new)[i].n = n
    BY <1>2
  <2>2. /\ Len(tasks) \in Nat /\ Len(new) \in Nat
        /\ DOMAIN tasks = 1..Len(tasks)
        /\ DOMAIN new = 1..Len(new)
        /\ DOMAIN (tasks \o new) = 1..(Len(tasks) + Len(new))
    BY ConcatProperties, LenProperties
  <2>3. CASE i <= Len(tasks)
    <3>1. i \in DOMAIN tasks /\ (tasks \o new)[i] = tasks[i]
      BY <2>2, <2>3, ConcatProperties
    <3>. QED
      BY <2>1, <3>1 DEF FailedNumbers
  <2>4. CASE i > Len(tasks)
    <3>1. /\ i - Len(tasks) \in DOMAIN new
          /\ (tasks \o new)[i] = new[i - Len(tasks)]
      BY <2>2, <2>4, ConcatProperties
    <3>. QED
      BY <2>1, <3>1
  <2>. QED
    BY <2>2, <2>3, <2>4
<1>. QED
  BY <1>1, <1>2 DEF FailedNumbers

LEMMA FailuresTail ==
  ASSUME NEW tasks \in Seq(Task), tasks # <<>>, NEW out
  PROVE  FailedNumbers(Tail(tasks), out) \subseteq FailedNumbers(tasks, out)
<1>1. /\ Tail(tasks) \in Seq(Task)
      /\ Len(Tail(tasks)) = Len(tasks) - 1
      /\ \A i \in 1..Len(Tail(tasks)) : Tail(tasks)[i] = tasks[i + 1]
  BY HeadTailProperties
<1>2. /\ Len(tasks) \in Nat
      /\ DOMAIN tasks = 1..Len(tasks)
      /\ DOMAIN Tail(tasks) = 1..Len(Tail(tasks))
  BY <1>1, LenProperties
<1>. QED
  BY <1>1, <1>2 DEF FailedNumbers

\* Snapshots are not failures.
LEMMA FailuresSnapshots ==
  ASSUME NEW tasks \in Seq(Task), NEW out, NEW new \in Seq(Snapshot)
  PROVE  FailedNumbers(tasks \o new, out) \subseteq FailedNumbers(tasks, out)
<1>1. new \in Seq(Task)
  <2>1. Snapshot \subseteq Task
    BY DEF Task
  <2>. QED
    BY <2>1, SeqMonotonic
<1>2. \A j \in DOMAIN new : new[j].kind = "snapshot"
  <2>1. \A j \in DOMAIN new : new[j] \in Snapshot
    BY ElementOfSeq, LenProperties
  <2>. QED
    BY <2>1 DEF Snapshot
<1>. QED
  BY <1>1, <1>2, FailuresConcat

\* A success is not a failure; a failure is its own number only.
LEMMA FailuresCompletion ==
  ASSUME NEW tasks \in Seq(Task), NEW out, NEW m \in AddDocument, NEW ok \in BOOLEAN,
         NEW n \in FailedNumbers(tasks \o CompletionOf(m, ok), out)
  PROVE  n \in FailedNumbers(tasks, out) \/ (~ok /\ n = m.n)
<1> DEFINE c == [kind |-> "completion", to |-> m.to, n |-> m.n, ok |-> ok]
<1>1. c \in Task
  BY DEF AddDocument, Task, Completion
<1>2. CompletionOf(m, ok) \in Seq(Task)
  BY <1>1, QueueOps, EmptySeq DEF CompletionOf
<1>3. \A j \in DOMAIN CompletionOf(m, ok) : CompletionOf(m, ok)[j] = c
  BY DEF CompletionOf
<1>. QED
  BY <1>2, <1>3, FailuresConcat

-------------------------------------------------------------------------------
(* Numbers are used once, step by step *)

\* What a step of device d has to show: its own numbers.
LEMMA OnesOwnNumbers ==
  ASSUME NumbersUsedOnce, NEW d \in Player,
         \A e \in Player \ {d} :
           /\ StoredFrom(e)' = StoredFrom(e)
           /\ queue'[e] = queue[e] /\ main'[e] = main[e]
           /\ reported'[e] = reported[e] /\ sent'[e] = sent[e],
         OneFate(StoredFrom(d)', queue'[d], FailedNumbers(main'[d], reported'[d]),
                 sent'[d])
  PROVE  NumbersUsedOnce'
<1>1. ASSUME NEW e \in Player, e # d
      PROVE  OneFate(StoredFrom(e)', queue'[e],
                     FailedNumbers(main'[e], reported'[e]), sent'[e])
  BY <1>1 DEF NumbersUsedOnce
<1>. QED
  BY <1>1 DEF NumbersUsedOnce

\* A step that neither sends, nor stores, nor fails a request.
LEMMA QuietStep ==
  ASSUME TypeOK, NumbersUsedOnce, NEW d \in Player,
         NEW q \in Seq(Mutation), NEW tasks, NEW out, NEW shift \in Nat,
         requests' = requests, sent' = sent,
         queue' = [queue EXCEPT ![d] = q],
         main' = [main EXCEPT ![d] = tasks],
         reported' = [reported EXCEPT ![d] = out],
         AddsCameFrom(q, queue[d], shift),
         FailedNumbers(tasks, out) \subseteq FailedNumbers(main[d], reported[d])
  PROVE  NumbersUsedOnce'
<1>1. OneFate(StoredFrom(d), queue[d], FailedNumbers(main[d], reported[d]), sent[d])
  BY DEF NumbersUsedOnce
<1>2. OneFate(StoredFrom(d), q, FailedNumbers(tasks, out), sent[d])
  BY <1>1, FewerAdds
<1>3. \A e \in Player : StoredFrom(e)' = StoredFrom(e)
  BY DEF StoredFrom
<1>4. /\ queue'[d] = q /\ main'[d] = tasks /\ reported'[d] = out
      /\ \A e \in Player \ {d} :
           queue'[e] = queue[e] /\ main'[e] = main[e] /\ reported'[e] = reported[e]
  BY DEF TypeOK
<1>. QED
  BY <1>2, <1>3, <1>4, OnesOwnNumbers

\* The tasks that a refreshed view adds are snapshots.
LEMMA NotifiedSnapshots ==
  ASSUME TypeOK, NEW d \in Player, NEW r \in Player, NEW v
  PROVE  Notified(d, r, v) \in Seq(Snapshot)
<1>1. echoes[d][r] \in Nat
  BY DEF TypeOK
<1>2. [kind |-> "snapshot", to |-> r] \in Snapshot
  BY DEF Snapshot
<1>. QED
  BY <1>1, <1>2, NotifiedType

\* So a refreshed view neither sends, nor stores, nor fails a request.
LEMMA RefreshedNumbers ==
  ASSUME TypeOK, NumbersUsedOnce, NEW d \in Player, NEW r \in Player, NEW c,
         NEW q \in Seq(Mutation), NEW tasks \in Seq(Task), NEW shift \in Nat,
         Refreshed(d, r, c, q, tasks),
         AddsCameFrom(q, queue[d], shift),
         FailedNumbers(tasks, reported[d]) \subseteq FailedNumbers(main[d], reported[d]),
         requests' = requests, sent' = sent, reported' = reported
  PROVE  NumbersUsedOnce'
<1>1. PICK v :
        /\ queue' = [queue EXCEPT ![d] = q]
        /\ main' = [main EXCEPT ![d] = tasks \o Notified(d, r, v)]
  BY DEF Refreshed
<1>2. FailedNumbers(tasks \o Notified(d, r, v), reported[d])
        \subseteq FailedNumbers(tasks, reported[d])
  BY NotifiedSnapshots, FailuresSnapshots
<1>3. reported' = [reported EXCEPT ![d] = reported[d]]
  BY DEF TypeOK
<1>. QED
  BY <1>1, <1>2, <1>3, QuietStep

\* A new request takes a number nobody used.
LEMMA SendNumbers ==
  ASSUME TypeOK, NumbersUsedOnce, NEW d \in Player, NEW r \in Player,
         SendPlayRequest(d, r)
  PROVE  NumbersUsedOnce'
<1> DEFINE k == sent[d]
           m == NewAdd(r, k + 1)
           q == queue[d]
           failed == FailedNumbers(main[d], reported[d])
           stored == StoredFrom(d)
<1>1. /\ OneFate(stored, q, failed, k)
      /\ k \in Nat /\ q \in Seq(Mutation) /\ k + 1 \in 1..MaxSends
  BY BoundsAreNaturals DEF NumbersUsedOnce, TypeOK, SendPlayRequest
<1>2. \A s \in stored : s.n \in Nat
  BY DEF StoredFrom, TypeOK, Request
<1>3. m.kind = "add" /\ m.n = k + 1 /\ m.to = r /\ m \in Mutation
  BY <1>1 DEF NewAdd, Mutation, AddDocument, Stage
<1>4. /\ queue' = [queue EXCEPT ![d] = Append(q, m)]
      /\ sent' = [sent EXCEPT ![d] = k + 1]
      /\ requests' = requests /\ main' = main /\ reported' = reported
  BY DEF SendPlayRequest, server
<1>5. \A i \in DOMAIN q : q[i].kind = "add" => q[i].n \in Nat
  BY <1>1, ElementOfSeq, LenProperties DEF Mutation, AddDocument, Patch
<1>6. failed \subseteq Nat
  BY DEF FailedNumbers
<1>7. stored' = stored /\ failed' = failed /\ queue'[d] = Append(q, m) /\ sent'[d] = k + 1
  BY <1>4 DEF StoredFrom, TypeOK
<1>8. \A e \in Player \ {d} :
        /\ StoredFrom(e)' = StoredFrom(e)
        /\ queue'[e] = queue[e] /\ main'[e] = main[e]
        /\ reported'[e] = reported[e] /\ sent'[e] = sent[e]
  BY <1>4 DEF StoredFrom, TypeOK
<1>9. OneFate(stored, Append(q, m), failed, k + 1)
  <2>. HIDE DEF k, m, q, failed, stored
  <2>1. /\ DOMAIN q = 1..Len(q) /\ Len(q) \in Nat
        /\ DOMAIN Append(q, m) = 1..(Len(q) + 1)
        /\ \A i \in 1..Len(q) : Append(q, m)[i] = q[i]
        /\ Append(q, m)[Len(q) + 1] = m
    BY <1>1, <1>3, AppendProperties, LenProperties
  <2>2. /\ \A n \in failed : n <= k + 1 /\ \A s \in stored : s.n # n
        /\ \A s \in stored : s.n <= k + 1
    BY <1>1, <1>2, <1>6 DEF OneFate
  <2>3. ASSUME NEW i \in 1..(Len(q) + 1), Append(q, m)[i].kind = "add"
        PROVE  /\ Append(q, m)[i].n <= k + 1
               /\ Append(q, m)[i].n \notin failed
               /\ \A s \in stored : s.n = Append(q, m)[i].n => s.to = Append(q, m)[i].to
    <3>1. CASE i \in 1..Len(q)
      BY <1>1, <1>5, <2>1, <2>3, <3>1 DEF OneFate
    <3>2. CASE i = Len(q) + 1
      <4>1. k + 1 \notin failed /\ \A s \in stored : s.n # k + 1
        BY <1>1, <1>2, <1>6 DEF OneFate
      <4>. QED
        BY <1>1, <1>3, <2>1, <3>2, <4>1
    <3>. QED
      BY <2>1, <3>1, <3>2
  <2>4. ASSUME NEW i \in 1..(Len(q) + 1), NEW j \in 1..(Len(q) + 1),
               Append(q, m)[i].kind = "add", Append(q, m)[j].kind = "add",
               Append(q, m)[i].n = Append(q, m)[j].n
        PROVE  i = j
    <3>1. \A l \in 1..Len(q) : q[l].kind = "add" => q[l].n # k + 1
      BY <1>1, <1>5, <2>1 DEF OneFate
    <3>2. CASE i \in 1..Len(q) /\ j \in 1..Len(q)
      BY <1>1, <2>1, <2>4, <3>2 DEF OneFate
    <3>3. CASE i \in 1..Len(q) /\ j = Len(q) + 1
      BY <1>3, <2>1, <2>4, <3>1, <3>3
    <3>4. CASE i = Len(q) + 1 /\ j \in 1..Len(q)
      BY <1>3, <2>1, <2>4, <3>1, <3>4
    <3>. QED
      BY <2>1, <3>2, <3>3, <3>4
  <2>. QED
    BY <2>1, <2>2, <2>3, <2>4 DEF OneFate
<1>10. OneFate(StoredFrom(d)', queue'[d], FailedNumbers(main'[d], reported'[d]), sent'[d])
  BY <1>7, <1>9
<1>. QED
  BY <1>8, <1>10, OnesOwnNumbers

\* Storing a queued request keeps its number apart from the others'.
LEMMA StoredOnce ==
  ASSUME NEW stored, NEW q, NEW failed, NEW k, OneFate(stored, q, failed, k),
         NEW i \in DOMAIN q, q[i].kind = "add",
         NEW new, new.n = q[i].n, new.to = q[i].to
  PROVE  OneFate(stored \cup {new}, q, failed, k)
<1>1. q[i].n <= k /\ q[i].n \notin failed
  BY DEF OneFate
<1>2. \A n \in failed : n <= k /\ \A s \in stored \cup {new} : s.n # n
  BY <1>1 DEF OneFate
<1>3. \A s \in stored \cup {new} : s.n <= k
  BY <1>1 DEF OneFate
<1>4. ASSUME NEW j \in DOMAIN q, q[j].kind = "add"
      PROVE  /\ q[j].n <= k /\ q[j].n \notin failed
             /\ \A s \in stored \cup {new} : s.n = q[j].n => s.to = q[j].to
  <2>1. q[j].n = q[i].n => j = i
    BY <1>4 DEF OneFate
  <2>2. /\ q[j].n <= k /\ q[j].n \notin failed
        /\ \A s \in stored : s.n = q[j].n => s.to = q[j].to
    BY <1>4 DEF OneFate
  <2>. QED
    BY <2>1, <2>2
<1>5. \A j, l \in DOMAIN q :
        q[j].kind = "add" /\ q[l].kind = "add" /\ q[j].n = q[l].n => j = l
  BY DEF OneFate
<1>. QED
  BY <1>2, <1>3, <1>4, <1>5 DEF OneFate

LEMMA CommitNumbers ==
  ASSUME TypeOK, NumbersUsedOnce, NEW d \in Player, AddCommitted(d)
  PROVE  NumbersUsedOnce'
<1>1. PICK i \in DOMAIN queue[d] :
        /\ queue[d][i].kind = "add"
        /\ requests' = requests \cup
             {[from |-> d, to |-> queue[d][i].to, n |-> queue[d][i].n]}
        /\ queue' = [queue EXCEPT ![d][i].stage = "committed"]
  BY DEF AddCommitted
<1> DEFINE q == queue[d]
           m == q[i]
           new == [from |-> d, to |-> m.to, n |-> m.n]
           p == [q EXCEPT ![i] = [m EXCEPT !.stage = "committed"]]
           failed == FailedNumbers(main[d], reported[d])
<1>2. q \in Seq(Mutation) /\ p \in Seq(Mutation)
  <2>1. q \in Seq(Mutation) /\ i \in 1..Len(q) /\ m \in Mutation
    BY DEF TypeOK
  <2>2. [m EXCEPT !.stage = "committed"] \in Mutation
    BY <2>1, MutationStages
  <2>. HIDE DEF m, q
  <2>. QED
    BY <2>1, <2>2, ExceptSeq
<1>3. OneFate(StoredFrom(d), q, failed, sent[d])
  BY DEF NumbersUsedOnce
<1>4. OneFate(StoredFrom(d) \cup {new}, q, failed, sent[d])
  BY <1>1, <1>3, StoredOnce
<1>5. AddsCameFrom(p, q, 0)
  BY <1>2, AddsAfterStages
<1>6. OneFate(StoredFrom(d) \cup {new}, p, failed, sent[d])
  BY <1>2, <1>4, <1>5, FewerAdds
<1>7. /\ queue' = [queue EXCEPT ![d] = p]
      /\ main' = main /\ reported' = reported /\ sent' = sent
  BY <1>1 DEF AddCommitted
<1>8. requests' = requests \cup {new}
  BY <1>1
<1>. HIDE DEF p, q, m
<1>9. /\ StoredFrom(d)' = StoredFrom(d) \cup {new}
      /\ \A e \in Player \ {d} : StoredFrom(e)' = StoredFrom(e)
  BY <1>8 DEF StoredFrom
<1>10. /\ queue'[d] = p
       /\ \A e \in Player \ {d} : queue'[e] = queue[e]
  BY <1>7 DEF TypeOK
<1>11. OneFate(StoredFrom(d)', queue'[d], FailedNumbers(main'[d], reported'[d]), sent'[d])
  BY <1>6, <1>7, <1>9, <1>10
<1>. QED
  BY <1>7, <1>9, <1>10, <1>11, OnesOwnNumbers

\* The server's answer to a request takes it off the queue; a refusal fails a
\* number that no stored or queued request has.
LEMMA AnswerNumbers ==
  ASSUME TypeOK, NumbersUsedOnce, NEW d \in Player, NEW ok \in BOOLEAN,
         queue[d] # <<>>, Head(queue[d]).kind = "add",
         ok \/ [from |-> d, to |-> Head(queue[d]).to, n |-> Head(queue[d]).n] \notin requests,
         main' = [main EXCEPT ![d] = main[d] \o CompletionOf(Head(queue[d]), ok)],
         queue' = [queue EXCEPT ![d] = Tail(queue[d])],
         requests' = requests, sent' = sent, reported' = reported
  PROVE  NumbersUsedOnce'
<1> DEFINE q == queue[d]
           m == Head(q)
           failed == FailedNumbers(main[d], reported[d])
           after == FailedNumbers(main[d] \o CompletionOf(m, ok), reported[d])
<1>1. /\ q \in Seq(Mutation) /\ Len(q) \in Nat /\ DOMAIN q = 1..Len(q)
      /\ 1 \in DOMAIN q /\ q[1] = m
      /\ m \in AddDocument
  <2>1. /\ q \in Seq(Mutation) /\ Len(q) \in Nat /\ DOMAIN q = 1..Len(q)
        /\ 1 \in DOMAIN q /\ q[1] = m
    BY EmptySeq, LenProperties DEF TypeOK
  <2>2. m \in Mutation
    BY <2>1, HeadTailProperties
  <2>. QED
    BY <2>1, <2>2 DEF Mutation, Patch
<1>2. OneFate(StoredFrom(d), q, failed, sent[d])
  BY DEF NumbersUsedOnce
<1>3. main[d] \in Seq(Task)
  BY DEF TypeOK
<1>4. AddsCameFrom(Tail(q), q, 1) /\ Tail(q) \in Seq(Mutation)
  BY <1>1, AddsAfterTail, HeadTailProperties
<1>5. OneFate(StoredFrom(d), Tail(q), failed, sent[d])
  BY <1>2, <1>4, FewerAdds
<1>6. \A n \in after : n \in failed \/ (~ok /\ n = m.n)
  BY <1>1, <1>3, FailuresCompletion
<1>7. ASSUME ~ok
      PROVE  /\ m.n <= sent[d]
             /\ \A s \in StoredFrom(d) : s.n # m.n
             /\ \A i \in DOMAIN Tail(q) : Tail(q)[i].kind = "add" => Tail(q)[i].n # m.n
  <2>1. m.n <= sent[d] /\ \A s \in StoredFrom(d) : s.n = m.n => s.to = m.to
    BY <1>1, <1>2 DEF OneFate
  <2>2. ASSUME NEW s \in StoredFrom(d), s.n = m.n PROVE FALSE
    <3>1. s \in Request /\ s \in requests /\ s.from = d /\ s.to = m.to
      BY <2>1, <2>2 DEF StoredFrom, TypeOK
    <3>2. s = [from |-> d, to |-> m.to, n |-> m.n]
      BY <2>2, <3>1 DEF Request
    <3>. QED
      BY <1>7, <3>1, <3>2
  <2>3. ASSUME NEW i \in DOMAIN Tail(q), Tail(q)[i].kind = "add", Tail(q)[i].n = m.n
        PROVE  FALSE
    <3>1. i + 1 \in DOMAIN q /\ q[i + 1].kind = "add" /\ q[i + 1].n = m.n
      BY <1>4, <2>3 DEF AddsCameFrom
    <3>2. i + 1 = 1
      BY <1>1, <1>2, <3>1 DEF OneFate
    <3>3. i \in Nat /\ i > 0
      BY <1>4, LenProperties
    <3>. QED
      BY <3>2, <3>3
  <2>. QED
    BY <2>1, <2>2, <2>3
<1>8. OneFate(StoredFrom(d), Tail(q), after, sent[d])
  <2>. HIDE DEF q, m, failed, after
  <2>1. \A n \in after : n <= sent[d] /\ \A s \in StoredFrom(d) : s.n # n
    BY <1>5, <1>6, <1>7 DEF OneFate
  <2>2. \A i \in DOMAIN Tail(q) : Tail(q)[i].kind = "add" => Tail(q)[i].n \notin after
    BY <1>5, <1>6, <1>7 DEF OneFate
  <2>. QED
    BY <1>5, <2>1, <2>2 DEF OneFate
<1>9. \A e \in Player : StoredFrom(e)' = StoredFrom(e)
  BY DEF StoredFrom
<1>10. /\ queue'[d] = Tail(q)
       /\ main'[d] = main[d] \o CompletionOf(m, ok)
       /\ \A e \in Player \ {d} : queue'[e] = queue[e] /\ main'[e] = main[e]
  BY DEF TypeOK
<1>. QED
  BY <1>8, <1>9, <1>10, OnesOwnNumbers

\* When the screen is told of a failure, the number was a failure before.
LEMMA OutcomeNumbers ==
  ASSUME TypeOK, NumbersUsedOnce, NEW d \in Player, NEW tasks \in Seq(Task),
         main[d] # <<>>, Head(main[d]).kind = "completion",
         FailedNumbers(tasks, reported[d]) \subseteq FailedNumbers(main[d], reported[d]),
         reported' = [reported EXCEPT ![d] =
           reported[d] \cup {[n |-> Head(main[d]).n, ok |-> Head(main[d]).ok]}],
         main' = [main EXCEPT ![d] = tasks],
         requests' = requests, sent' = sent, queue' = queue
  PROVE  NumbersUsedOnce'
<1> DEFINE t == Head(main[d])
           out == reported[d] \cup {[n |-> t.n, ok |-> t.ok]}
<1>1. t \in Completion /\ 1 \in DOMAIN main[d] /\ main[d][1] = t
  <2>1. main[d] \in Seq(Task) /\ t \in Task
    BY HeadTailProperties DEF TypeOK
  <2>2. 1 \in DOMAIN main[d] /\ main[d][1] = t
    BY <2>1, EmptySeq, LenProperties
  <2>. QED
    BY <2>1, <2>2 DEF Task, Snapshot
<1>2. ~t.ok => t.n \in FailedNumbers(main[d], reported[d])
  BY <1>1 DEF FailedNumbers, Completion
<1>3. FailedNumbers(tasks, out) \subseteq FailedNumbers(main[d], reported[d])
  <2>. HIDE DEF t
  <2>1. ASSUME NEW n \in FailedNumbers(tasks, out)
        PROVE  n \in FailedNumbers(tasks, reported[d]) \/ (~t.ok /\ n = t.n)
    BY DEF FailedNumbers
  <2>. QED
    BY <1>2, <2>1
<1>4. queue' = [queue EXCEPT ![d] = queue[d]] /\ queue[d] \in Seq(Mutation)
  BY DEF TypeOK
<1>5. AddsCameFrom(queue[d], queue[d], 0)
  BY <1>4, AddsAfterStages
<1>. QED
  BY <1>3, <1>4, <1>5, QuietStep

LEMMA NextNumbers == TypeOK /\ NumbersUsedOnce /\ [Next]_vars => NumbersUsedOnce'
<1> SUFFICES ASSUME TypeOK, NumbersUsedOnce, [Next]_vars PROVE NumbersUsedOnce'
  OBVIOUS
<1>0. ASSUME NEW d \in Player
      PROVE  /\ queue[d] \in Seq(Mutation) /\ main[d] \in Seq(Task)
             /\ queue = [queue EXCEPT ![d] = queue[d]]
             /\ main = [main EXCEPT ![d] = main[d]]
             /\ reported = [reported EXCEPT ![d] = reported[d]]
  BY DEF TypeOK
<1>1. ASSUME NEW d \in Player, NEW r \in Player, SendPlayRequest(d, r)
      PROVE  NumbersUsedOnce'
  BY <1>1, SendNumbers
<1>2. ASSUME NEW d \in Player, AddCommitted(d) PROVE NumbersUsedOnce'
  BY <1>2, CommitNumbers
<1>3. ASSUME NEW d \in Player, AddAcknowledged(d) PROVE NumbersUsedOnce'
  <2>1. /\ queue[d] # <<>> /\ Head(queue[d]).kind = "add"
        /\ main' = [main EXCEPT ![d] = main[d] \o CompletionOf(Head(queue[d]), TRUE)]
        /\ queue' = [queue EXCEPT ![d] = Tail(queue[d])]
        /\ requests' = requests /\ sent' = sent /\ reported' = reported
    BY <1>3 DEF AddAcknowledged, server
  <2>. QED
    BY <2>1, AnswerNumbers
<1>4. ASSUME NEW d \in Player, AddRejected(d) PROVE NumbersUsedOnce'
  <2>1. /\ queue[d] # <<>> /\ Head(queue[d]).kind = "add"
        /\ [from |-> d, to |-> Head(queue[d]).to, n |-> Head(queue[d]).n] \notin requests
        /\ main' = [main EXCEPT ![d] = main[d] \o CompletionOf(Head(queue[d]), FALSE)]
        /\ queue' = [queue EXCEPT ![d] = Tail(queue[d])]
        /\ requests' = requests /\ sent' = sent /\ reported' = reported
    BY <1>4 DEF AddRejected, server
  <2>. QED
    BY <2>1, AnswerNumbers
<1>5. ASSUME NEW d \in Player, main[d] # <<>>
      PROVE  /\ Tail(main[d]) \in Seq(Task) /\ Head(main[d]) \in Task
             /\ FailedNumbers(Tail(main[d]), reported[d])
                  \subseteq FailedNumbers(main[d], reported[d])
  BY <1>0, <1>5, FailuresTail, HeadTailProperties
<1>6. ASSUME NEW d \in Player, RequestFailed(d) PROVE NumbersUsedOnce'
  <2>1. /\ main[d] # <<>> /\ Head(main[d]).kind = "completion" /\ ~Head(main[d]).ok
        /\ reported' = [reported EXCEPT ![d] =
             reported[d] \cup {[n |-> Head(main[d]).n, ok |-> FALSE]}]
        /\ main' = [main EXCEPT ![d] = Tail(main[d])]
        /\ requests' = requests /\ sent' = sent /\ queue' = queue
    BY <1>6 DEF RequestFailed, server
  <2>2. Head(main[d]).ok = FALSE
    BY <1>5, <2>1 DEF Task, Completion, Snapshot
  <2>. QED
    BY <1>5, <2>1, <2>2, OutcomeNumbers
<1>7. ASSUME NEW d \in Player, RequestAccepted(d) PROVE NumbersUsedOnce'
  <2> DEFINE s == [kind |-> "snapshot", to |-> Head(main[d]).to]
             tasks == Append(Tail(main[d]), s)
  <2>1. /\ main[d] # <<>> /\ Head(main[d]).kind = "completion" /\ Head(main[d]).ok
        /\ reported' = [reported EXCEPT ![d] =
             reported[d] \cup {[n |-> Head(main[d]).n, ok |-> TRUE]}]
        /\ main' = [main EXCEPT ![d] = tasks]
        /\ requests' = requests /\ sent' = sent /\ queue' = queue
    BY <1>7 DEF RequestAccepted, server
  <2>2. Head(main[d]).ok = TRUE /\ s \in Snapshot
    BY <1>5, <2>1 DEF Task, Completion, Snapshot
  <2>3. /\ tasks \in Seq(Task) /\ tasks = Tail(main[d]) \o <<s>>
        /\ <<s>> \in Seq(Snapshot)
    BY <1>5, <2>1, <2>2, AppendProperties, AppendIsConcat DEF Task
  <2>4. FailedNumbers(tasks, reported[d]) \subseteq FailedNumbers(main[d], reported[d])
    <3>. HIDE DEF s
    <3>. QED
      BY <1>5, <2>1, <2>3, FailuresSnapshots
  <2>. HIDE DEF tasks
  <2>. QED
    BY <2>1, <2>2, <2>3, <2>4, OutcomeNumbers
<1>8. ASSUME NEW d \in Player, EchoPatches(d) PROVE NumbersUsedOnce'
  <2> DEFINE r == Head(main[d]).to
             q == Append(queue[d], NewPatch(r))
  <2>1. /\ main[d] # <<>> /\ Head(main[d]).kind = "snapshot"
        /\ Refreshed(d, r, cache[d][r], q, Tail(main[d]))
        /\ requests' = requests /\ sent' = sent /\ reported' = reported
    BY <1>8 DEF EchoPatches, server
  <2>2. r \in Player
    BY <1>5, <2>1 DEF Task, Completion, Snapshot
  <2>3. q \in Seq(Mutation)
    <3>1. NewPatch(r) \in Mutation
      BY <2>2 DEF NewPatch, Mutation, Patch, Stage
    <3>. QED
      BY <1>0, <3>1, AppendProperties
  <2>4. AddsCameFrom(q, queue[d], 0)
    BY <1>0, <2>2, AddsAfterPatch
  <2>. HIDE DEF q, r
  <2>. QED
    BY <1>5, <2>1, <2>2, <2>3, <2>4, RefreshedNumbers
<1>9. ASSUME NEW d \in Player, PatchCommitted(d) PROVE NumbersUsedOnce'
  <2>1. PICK i \in DOMAIN queue[d] : queue' = [queue EXCEPT ![d][i].stage = "committed"]
    BY <1>9 DEF PatchCommitted
  <2> DEFINE p == [queue[d] EXCEPT ![i] = [queue[d][i] EXCEPT !.stage = "committed"]]
  <2>2. p \in Seq(Mutation)
    <3> DEFINE mc == [queue[d][i] EXCEPT !.stage = "committed"]
    <3>1. i \in 1..Len(queue[d]) /\ queue[d][i] \in Mutation
      BY <1>0, ElementOfSeq, LenProperties
    <3>2. mc \in Mutation
      BY <3>1, MutationStages
    <3>. HIDE DEF mc
    <3>3. [queue[d] EXCEPT ![i] = mc] \in Seq(Mutation)
      BY <1>0, <3>1, <3>2, ExceptSeq
    <3>. QED
      BY <3>3 DEF mc
  <2>3. AddsCameFrom(p, queue[d], 0)
    BY <1>0, AddsAfterStages
  <2>4. queue' = [queue EXCEPT ![d] = p]
    BY <2>1
  <2>5. /\ main' = main /\ reported' = reported
        /\ requests' = requests /\ sent' = sent
    BY <1>9 DEF PatchCommitted
  <2>. HIDE DEF p
  <2>. QED
    BY <1>0, <2>2, <2>3, <2>4, <2>5, QuietStep
<1>10. ASSUME NEW d \in Player, queue[d] # <<>>
       PROVE  /\ Tail(queue[d]) \in Seq(Mutation)
              /\ Head(queue[d]).to \in Player
              /\ AddsCameFrom(Tail(queue[d]), queue[d], 1)
  <2>1. Tail(queue[d]) \in Seq(Mutation) /\ Head(queue[d]) \in Mutation
    BY <1>0, <1>10, HeadTailProperties
  <2>. QED
    BY <1>0, <1>10, <2>1, AddsAfterTail DEF Mutation, AddDocument, Patch
<1>11. ASSUME NEW d \in Player, PatchAcknowledged(d) PROVE NumbersUsedOnce'
  <2>1. PICK c : /\ queue[d] # <<>>
                 /\ Refreshed(d, Head(queue[d]).to, c, Tail(queue[d]), main[d])
    BY <1>11 DEF PatchAcknowledged
  <2>2. requests' = requests /\ sent' = sent /\ reported' = reported
    BY <1>11 DEF PatchAcknowledged, server
  <2>. QED
    BY <1>0, <1>10, <2>1, <2>2, RefreshedNumbers
<1>12. ASSUME NEW d \in Player, PatchRejected(d) PROVE NumbersUsedOnce'
  <2>1. PICK c : /\ queue[d] # <<>>
                 /\ Refreshed(d, Head(queue[d]).to, c, Tail(queue[d]), main[d])
    BY <1>12 DEF PatchRejected
  <2>2. requests' = requests /\ sent' = sent /\ reported' = reported
    BY <1>12 DEF PatchRejected, server
  <2>. QED
    BY <1>0, <1>10, <2>1, <2>2, RefreshedNumbers
<1>13. ASSUME NEW d \in Player, NEW r \in Player, Watch(d, r) PROVE NumbersUsedOnce'
  <2>1. PICK c : Refreshed(d, r, c, WithWatched(queue[d], r), main[d])
    BY <1>13 DEF Watch
  <2>2. requests' = requests /\ sent' = sent /\ reported' = reported
    BY <1>13 DEF Watch, server
  <2>3. WithWatched(queue[d], r) \in Seq(Mutation)
    BY <1>0, MutationStages, WithWatchedType DEF IsPatchOf
  <2>4. AddsCameFrom(WithWatched(queue[d], r), queue[d], 0)
    BY <1>0, AddsAfterStages
  <2>. QED
    BY <1>0, <2>1, <2>2, <2>3, <2>4, RefreshedNumbers
<1>14. ASSUME NEW d \in Player, StreamBreaks(d) PROVE NumbersUsedOnce'
  <2>1. Resent(queue[d]) \in Seq(Mutation)
    BY <1>0, MutationStages, ResentType
  <2>2. AddsCameFrom(Resent(queue[d]), queue[d], 0)
    BY <1>0, AddsAfterStages
  <2>3. /\ queue' = [queue EXCEPT ![d] = Resent(queue[d])]
        /\ main' = main /\ reported' = reported
        /\ requests' = requests /\ sent' = sent
    BY <1>14 DEF StreamBreaks, server
  <2>. QED
    BY <1>0, <2>1, <2>2, <2>3, QuietStep
<1>15. ASSUME NEW d \in Player, Restart(d) PROVE NumbersUsedOnce'
  <2> DEFINE p == [i \in 1..Len(queue[d]) |-> WithoutCallback(queue[d][i])]
  <2>1. Resent(p) \in Seq(Mutation)
    BY <1>0, MutationStages, WithoutCallbacksType, ResentType
  <2>2. AddsCameFrom(Resent(p), queue[d], 0)
    BY <1>0, AddsAfterStages
  <2>3. /\ queue' = [queue EXCEPT ![d] = Resent(p)]
        /\ main' = [main EXCEPT ![d] = <<>>]
        /\ reported' = reported /\ requests' = requests /\ sent' = sent
    BY <1>15 DEF Restart, server
  <2>4. FailedNumbers(<<>>, reported[d]) \subseteq FailedNumbers(main[d], reported[d])
    BY DEF FailedNumbers
  <2>. HIDE DEF p
  <2>. QED
    BY <1>0, <2>1, <2>2, <2>3, <2>4, QuietStep
<1>16. CASE requests' = requests /\ queue' = queue /\ main' = main
            /\ reported' = reported /\ sent' = sent
  BY <1>16 DEF NumbersUsedOnce, StoredFrom
<1>17. CASE (\E r \in Player : OtherFieldChanges(r)) \/ UNCHANGED vars
  BY <1>16, <1>17 DEF OtherFieldChanges, device, vars
<1>. QED
  BY <1>1, <1>2, <1>3, <1>4, <1>6, <1>7, <1>8, <1>9, <1>11, <1>12, <1>13, <1>14,
     <1>15, <1>17
  DEF Next

LEMMA NumbersInvariant == Spec => []NumbersUsedOnce
<1>1. Init => NumbersUsedOnce
  BY BoundsAreNaturals
  DEF Init, NumbersUsedOnce, OneFate, StoredFrom, FailedNumbers
<1>. QED
  BY <1>1, NextNumbers, InvariantHolds, PTL DEF Spec, IInv

\* A failure the screen was told of is final: the server does not have that
\* request, and no queued, resent or restored write can bring it there.
THEOREM FailureStays == Spec => []FailureIsFinal
<1>1. TypeOK /\ NumbersUsedOnce => FailureIsFinal
  <2> SUFFICES ASSUME TypeOK, NumbersUsedOnce, NEW d \in Player,
                      NEW o \in reported[d], ~o.ok
               PROVE  /\ ~\E q \in requests : q.from = d /\ q.n = o.n
                      /\ ~\E i \in DOMAIN queue[d] :
                            queue[d][i].kind = "add" /\ queue[d][i].n = o.n
    BY DEF FailureIsFinal
  <2>1. o \in Outcome /\ o = [n |-> o.n, ok |-> FALSE]
    BY DEF TypeOK, Outcome
  <2>2. o.n \in FailedNumbers(main[d], reported[d])
    BY <2>1 DEF FailedNumbers, Outcome
  <2>3. OneFate(StoredFrom(d), queue[d], FailedNumbers(main[d], reported[d]), sent[d])
    BY DEF NumbersUsedOnce
  <2>. QED
    BY <2>2, <2>3 DEF OneFate, StoredFrom
<1>. QED
  BY <1>1, TypeCorrect, NumbersInvariant, PTL

-------------------------------------------------------------------------------
(* What the echoes were told last *)

\* Changing one cell of a table leaves the others.
LEMMA OneCell ==
  ASSUME NEW S, NEW f \in [Player -> [Player -> S]], NEW d \in Player, NEW r \in Player,
         NEW x, NEW e \in Player, NEW p \in Player
  PROVE  [f EXCEPT ![d][r] = x][e][p] = IF e = d /\ p = r THEN x ELSE f[e][p]
<1>1. CASE e = d
  <2>1. [f EXCEPT ![d][r] = x][e] = [f[d] EXCEPT ![r] = x]
    BY <1>1
  <2>. QED
    BY <1>1, <2>1
<1>2. CASE e # d
  BY <1>2
<1>. QED
  BY <1>1, <1>2

\* When a change of the queue queues no patch of r and loses none.
LEMMA PatchesAfterAppend ==
  ASSUME NEW q \in Seq(Mutation), NEW m \in Mutation, NEW r, ~IsPatchOf(m, r)
  PROVE  HasPatch(Append(q, m), r) <=> HasPatch(q, r)
<1>1. /\ DOMAIN q = 1..Len(q) /\ Len(q) \in Nat
      /\ DOMAIN Append(q, m) = 1..(Len(q) + 1)
      /\ \A i \in 1..Len(q) : Append(q, m)[i] = q[i]
      /\ Append(q, m)[Len(q) + 1] = m
  BY AppendProperties, LenProperties
<1>2. ASSUME HasPatch(Append(q, m), r) PROVE HasPatch(q, r)
  <2>1. PICK i \in 1..(Len(q) + 1) : IsPatchOf(Append(q, m)[i], r)
    BY <1>1, <1>2 DEF HasPatch
  <2>2. i # Len(q) + 1
    BY <1>1, <2>1
  <2>3. i \in 1..Len(q)
    BY <1>1, <2>2
  <2>. QED
    BY <1>1, <2>1, <2>3 DEF HasPatch
<1>3. ASSUME HasPatch(q, r) PROVE HasPatch(Append(q, m), r)
  <2>1. PICK i \in 1..Len(q) : IsPatchOf(q[i], r)
    BY <1>1, <1>3 DEF HasPatch
  <2>2. i \in 1..(Len(q) + 1)
    BY <1>1
  <2>. QED
    BY <1>1, <2>1, <2>2 DEF HasPatch
<1>. QED
  BY <1>2, <1>3

LEMMA PatchesAfterTail ==
  ASSUME NEW q \in Seq(Mutation), q # <<>>, NEW r, ~IsPatchOf(Head(q), r)
  PROVE  HasPatch(Tail(q), r) <=> HasPatch(q, r)
<1>1. /\ DOMAIN q = 1..Len(q) /\ Len(q) \in Nat /\ Head(q) = q[1]
      /\ DOMAIN Tail(q) = 1..(Len(q) - 1)
      /\ \A i \in 1..(Len(q) - 1) : Tail(q)[i] = q[i + 1]
  BY HeadTailProperties, LenProperties
<1>2. ASSUME HasPatch(Tail(q), r) PROVE HasPatch(q, r)
  <2>1. PICK i \in 1..(Len(q) - 1) : IsPatchOf(Tail(q)[i], r)
    BY <1>1, <1>2 DEF HasPatch
  <2>2. i + 1 \in 1..Len(q) /\ IsPatchOf(q[i + 1], r)
    BY <1>1, <2>1
  <2>. QED
    BY <1>1, <2>2 DEF HasPatch
<1>3. ASSUME HasPatch(q, r) PROVE HasPatch(Tail(q), r)
  <2>1. PICK i \in 1..Len(q) : IsPatchOf(q[i], r)
    BY <1>1, <1>3 DEF HasPatch
  <2>2. i # 1
    BY <1>1, <2>1
  <2>3. i - 1 \in 1..(Len(q) - 1) /\ (i - 1) + 1 = i
    BY <1>1, <2>2
  <2>4. IsPatchOf(Tail(q)[i - 1], r)
    BY <1>1, <2>1, <2>3
  <2>. QED
    BY <1>1, <2>3, <2>4 DEF HasPatch
<1>. QED
  BY <1>2, <1>3

LEMMA PatchesAfterStages ==
  ASSUME NEW p, NEW q \in Seq(Mutation), DOMAIN p = 1..Len(q),
         \A i \in 1..Len(q) : SameWrite(p[i], q[i]), NEW r
  PROVE  HasPatch(p, r) <=> HasPatch(q, r)
<1>1. DOMAIN q = 1..Len(q)
  BY LenProperties
<1>. QED
  BY <1>1 DEF HasPatch, IsPatchOf, SameWrite

\* The views stay current when a step changes nothing a view is computed from.
LEMMA SameLocalDocs ==
  ASSUME TypeOK, ViewIsCurrent, NEW d \in Player, NEW q,
         queue' = [queue EXCEPT ![d] = q],
         \A r \in Player : HasPatch(q, r) <=> HasPatch(queue[d], r),
         cache' = cache, view' = view, echoes' = echoes
  PROVE  ViewIsCurrent'
<1> SUFFICES ASSUME NEW e \in Player, NEW r \in Player, echoes[e][r] > 0
             PROVE  \/ view[e][r].doc = LocalDoc(e, cache[e][r], queue'[e], r)
                    \/ view[e][r].local /\ cache[e][r].committed
  BY DEF ViewIsCurrent
<1>1. HasPatch(queue'[e], r) <=> HasPatch(queue[e], r)
  BY DEF TypeOK
<1>2. LocalDoc(e, cache[e][r], queue'[e], r) = LocalDoc(e, cache[e][r], queue[e], r)
  BY <1>1 DEF LocalDoc
<1>. QED
  BY <1>2 DEF ViewIsCurrent

\* A refreshed view is current, and the others stay so.
LEMMA RefreshedCurrent ==
  ASSUME TypeOK, ViewIsCurrent, NEW d \in Player, NEW r \in Player, NEW c, NEW q,
         NEW tasks, Refreshed(d, r, c, q, tasks), echoes' = echoes,
         \A p \in Player \ {r} : HasPatch(q, p) <=> HasPatch(queue[d], p)
  PROVE  ViewIsCurrent'
<1> SUFFICES ASSUME NEW e \in Player, NEW p \in Player, echoes[e][p] > 0
             PROVE  \/ view'[e][p].doc = LocalDoc(e, cache'[e][p], queue'[e], p)
                    \/ view'[e][p].local /\ cache'[e][p].committed
  BY DEF ViewIsCurrent
<1> DEFINE v == NextView(view[d][r], LocalDoc(d, c, q, r), HasPatch(q, r), c.committed)
<1>1. /\ cache' = [cache EXCEPT ![d][r] = c]
      /\ queue' = [queue EXCEPT ![d] = q]
      /\ echoes[d][r] # 0 => view' = [view EXCEPT ![d][r] = v]
      /\ \E w : view' = [view EXCEPT ![d][r] = w]
  BY DEF Refreshed
<1>2. v.doc = LocalDoc(d, c, q, r) \/ (v.local /\ c.committed)
  BY NextViewCurrent
<1>. HIDE DEF v
<1>3. CASE e = d /\ p = r
  <2>1. view'[d][r] = v /\ cache'[d][r] = c /\ queue'[d] = q
    BY <1>1, <1>3 DEF TypeOK
  <2>. QED
    BY <1>2, <1>3, <2>1
<1>4. CASE ~(e = d /\ p = r)
  <2>1. view'[e][p] = view[e][p]
    <3>1. PICK w : view' = [view EXCEPT ![d][r] = w]
      BY <1>1
    <3>. QED
      BY <1>4, <3>1, OneCell DEF TypeOK
  <2>2. cache'[e][p] = cache[e][p]
    BY <1>1, <1>4, OneCell DEF TypeOK
  <2>3. HasPatch(queue'[e], p) <=> HasPatch(queue[e], p)
    BY <1>1, <1>4 DEF TypeOK
  <2>4. LocalDoc(e, cache[e][p], queue'[e], p) = LocalDoc(e, cache[e][p], queue[e], p)
    BY <2>3 DEF LocalDoc
  <2>. QED
    BY <2>1, <2>2, <2>4 DEF ViewIsCurrent
<1>. QED
  BY <1>3, <1>4

\* A new echo opens its view on the current document.
LEMMA OpenedCurrent ==
  ASSUME TypeOK, ViewIsCurrent, NEW d \in Player, RequestAccepted(d)
  PROVE  ViewIsCurrent'
<1> DEFINE r == Head(main[d]).to
           v == Viewed(LocalDoc(d, cache[d][r], queue[d], r), HasPatch(queue[d], r))
<1>1. r \in Player
  <2>1. Head(main[d]) \in Task
    BY HeadTailProperties DEF RequestAccepted, TypeOK
  <2>. QED
    BY <2>1 DEF Task, Completion, Snapshot
<1>2. /\ echoes' = [echoes EXCEPT ![d][r] = echoes[d][r] + 1]
      /\ view' = IF echoes[d][r] = 0 THEN [view EXCEPT ![d][r] = v] ELSE view
      /\ cache' = cache /\ queue' = queue
  BY DEF RequestAccepted
<1>3. v.doc = LocalDoc(d, cache[d][r], queue[d], r)
  BY DEF Viewed
<1>. HIDE DEF r, v
<1> SUFFICES ASSUME NEW e \in Player, NEW p \in Player, echoes'[e][p] > 0
             PROVE  \/ view'[e][p].doc = LocalDoc(e, cache[e][p], queue[e], p)
                    \/ view'[e][p].local /\ cache[e][p].committed
  BY <1>2 DEF ViewIsCurrent
<1>4. CASE e = d /\ p = r /\ echoes[d][r] = 0
  <2>1. view'[d][r] = v
    BY <1>1, <1>2, <1>4 DEF TypeOK
  <2>. QED
    BY <1>3, <1>4, <2>1
<1>5. CASE ~(e = d /\ p = r /\ echoes[d][r] = 0)
  <2>1. view'[e][p] = view[e][p]
    BY <1>1, <1>2, <1>5, OneCell DEF TypeOK
  <2>2. echoes[e][p] > 0
    <3>1. CASE e = d /\ p = r
      BY <1>5, <3>1 DEF TypeOK
    <3>2. CASE ~(e = d /\ p = r)
      BY <1>1, <1>2, <3>2, OneCell DEF TypeOK
    <3>. QED
      BY <3>1, <3>2
  <2>. QED
    BY <2>1, <2>2 DEF ViewIsCurrent
<1>. QED
  BY <1>4, <1>5

LEMMA NextCurrent == TypeOK /\ ViewIsCurrent /\ [Next]_vars => ViewIsCurrent'
<1> SUFFICES ASSUME TypeOK, ViewIsCurrent, [Next]_vars PROVE ViewIsCurrent'
  OBVIOUS
<1>0. ASSUME NEW d \in Player
      PROVE  /\ queue[d] \in Seq(Mutation) /\ DOMAIN queue[d] = 1..Len(queue[d])
             /\ main[d] \in Seq(Task)
             /\ \A i \in 1..Len(queue[d]) : queue[d][i] \in Mutation
  BY LenProperties, ElementOfSeq DEF TypeOK
<1>1. ASSUME NEW d \in Player, NEW r \in Player, SendPlayRequest(d, r)
      PROVE  ViewIsCurrent'
  <2> DEFINE m == NewAdd(r, sent[d] + 1)
  <2>1. m \in Mutation /\ \A p : ~IsPatchOf(m, p)
    BY <1>1, BoundsAreNaturals
    DEF SendPlayRequest, TypeOK, NewAdd, Mutation, AddDocument, Stage, IsPatchOf
  <2>2. /\ queue' = [queue EXCEPT ![d] = Append(queue[d], m)]
        /\ cache' = cache /\ view' = view /\ echoes' = echoes
    BY <1>1 DEF SendPlayRequest
  <2>. HIDE DEF m
  <2>3. \A p \in Player : HasPatch(Append(queue[d], m), p) <=> HasPatch(queue[d], p)
    BY <1>0, <2>1, PatchesAfterAppend
  <2>. QED
    BY <2>2, <2>3, SameLocalDocs
<1>2. ASSUME NEW d \in Player, AddCommitted(d) \/ PatchCommitted(d)
      PROVE  ViewIsCurrent'
  <2>1. PICK i \in DOMAIN queue[d] : queue' = [queue EXCEPT ![d][i].stage = "committed"]
    BY <1>2 DEF AddCommitted, PatchCommitted
  <2> DEFINE mc == [queue[d][i] EXCEPT !.stage = "committed"]
             q == [queue[d] EXCEPT ![i] = mc]
  <2>2. SameWrite(mc, queue[d][i])
    BY <1>0, StagesKeepAdds DEF Stage
  <2>3. queue' = [queue EXCEPT ![d] = q]
    BY <2>1
  <2>. HIDE DEF mc
  <2>4. DOMAIN q = 1..Len(queue[d])
        /\ \A j \in 1..Len(queue[d]) : SameWrite(q[j], queue[d][j])
    BY <1>0, <2>2 DEF SameWrite
  <2>. HIDE DEF q
  <2>5. \A p \in Player : HasPatch(q, p) <=> HasPatch(queue[d], p)
    BY <1>0, <2>4, PatchesAfterStages
  <2>6. cache' = cache /\ view' = view /\ echoes' = echoes
    BY <1>2 DEF AddCommitted, PatchCommitted
  <2>. QED
    BY <2>3, <2>5, <2>6, SameLocalDocs
<1>3. ASSUME NEW d \in Player, AddAcknowledged(d) \/ AddRejected(d)
      PROVE  ViewIsCurrent'
  <2>1. /\ queue[d] # <<>> /\ Head(queue[d]).kind = "add"
        /\ queue' = [queue EXCEPT ![d] = Tail(queue[d])]
        /\ cache' = cache /\ view' = view /\ echoes' = echoes
    BY <1>3 DEF AddAcknowledged, AddRejected
  <2>2. \A p \in Player : HasPatch(Tail(queue[d]), p) <=> HasPatch(queue[d], p)
    BY <1>0, <2>1, PatchesAfterTail DEF IsPatchOf
  <2>. QED
    BY <2>1, <2>2, SameLocalDocs
<1>4. CASE queue' = queue /\ cache' = cache /\ view' = view /\ echoes' = echoes
  BY <1>4 DEF ViewIsCurrent
<1>5. ASSUME NEW d \in Player, RequestFailed(d) PROVE ViewIsCurrent'
  BY <1>4, <1>5 DEF RequestFailed
<1>6. ASSUME NEW d \in Player, RequestAccepted(d) PROVE ViewIsCurrent'
  BY <1>6, OpenedCurrent
<1>7. ASSUME NEW d \in Player, EchoPatches(d) PROVE ViewIsCurrent'
  <2> DEFINE r == Head(main[d]).to
             m == NewPatch(r)
  <2>1. /\ main[d] # <<>> /\ Head(main[d]).kind = "snapshot"
        /\ Refreshed(d, r, cache[d][r], Append(queue[d], m), Tail(main[d]))
        /\ echoes' = echoes
    BY <1>7 DEF EchoPatches
  <2>2. r \in Player
    <3>1. Head(main[d]) \in Task
      BY <1>0, <2>1, HeadTailProperties
    <3>. QED
      BY <3>1 DEF Task, Completion, Snapshot
  <2>. HIDE DEF r
  <2>3. m \in Mutation /\ \A p \in Player \ {r} : ~IsPatchOf(m, p)
    BY <2>2 DEF NewPatch, Mutation, Patch, Stage, IsPatchOf
  <2>. HIDE DEF m
  <2>4. \A p \in Player \ {r} : HasPatch(Append(queue[d], m), p) <=> HasPatch(queue[d], p)
    BY <1>0, <2>3, PatchesAfterAppend
  <2>. QED
    BY <2>1, <2>2, <2>4, RefreshedCurrent
<1>8. ASSUME NEW d \in Player, PatchAcknowledged(d) \/ PatchRejected(d)
      PROVE  ViewIsCurrent'
  <2> DEFINE r == Head(queue[d]).to
  <2>1. PICK c : /\ queue[d] # <<>>
                 /\ Refreshed(d, r, c, Tail(queue[d]), main[d])
                 /\ echoes' = echoes
    BY <1>8 DEF PatchAcknowledged, PatchRejected
  <2>2. r \in Player
    <3>1. Head(queue[d]) \in Mutation
      BY <1>0, <2>1, HeadTailProperties
    <3>. QED
      BY <3>1 DEF Mutation, AddDocument, Patch
  <2>3. \A p \in Player \ {r} : ~IsPatchOf(Head(queue[d]), p)
    BY DEF IsPatchOf
  <2>. HIDE DEF r
  <2>4. \A p \in Player \ {r} : HasPatch(Tail(queue[d]), p) <=> HasPatch(queue[d], p)
    BY <1>0, <2>1, <2>3, PatchesAfterTail
  <2>. QED
    BY <2>1, <2>2, <2>4, RefreshedCurrent
<1>9. ASSUME NEW d \in Player, NEW r \in Player, Watch(d, r) PROVE ViewIsCurrent'
  <2> DEFINE q == WithWatched(queue[d], r)
  <2>1. PICK c : Refreshed(d, r, c, q, main[d]) /\ echoes' = echoes
    BY <1>9 DEF Watch
  <2>2. ASSUME NEW i \in 1..Len(queue[d]) PROVE SameWrite(q[i], queue[d][i])
    <3>1. SameWrite([queue[d][i] EXCEPT !.stage = "watched"], queue[d][i])
      BY <1>0, StagesKeepAdds DEF Stage
    <3>2. \/ q[i] = queue[d][i]
          \/ q[i] = [queue[d][i] EXCEPT !.stage = "watched"]
      BY DEF WithWatched
    <3>. QED
      BY <3>1, <3>2 DEF SameWrite
  <2>3. DOMAIN q = 1..Len(queue[d])
    BY DEF WithWatched
  <2>. HIDE DEF q
  <2>4. \A p \in Player : HasPatch(q, p) <=> HasPatch(queue[d], p)
    BY <1>0, <2>2, <2>3, PatchesAfterStages
  <2>. QED
    BY <2>1, <2>4, RefreshedCurrent
<1>10. ASSUME NEW r \in Player, OtherFieldChanges(r) PROVE ViewIsCurrent'
  BY <1>4, <1>10 DEF OtherFieldChanges, device
<1>11. ASSUME NEW d \in Player, StreamBreaks(d) PROVE ViewIsCurrent'
  <2>1. /\ queue' = [queue EXCEPT ![d] = Resent(queue[d])]
        /\ cache' = cache /\ view' = view /\ echoes' = echoes
    BY <1>11 DEF StreamBreaks
  <2>2. ASSUME NEW i \in 1..Len(queue[d])
        PROVE  SameWrite(Resent(queue[d])[i], queue[d][i])
    <3>1. SameWrite([queue[d][i] EXCEPT !.stage = "queued"], queue[d][i])
      BY <1>0, StagesKeepAdds DEF Stage
    <3>. QED
      BY <3>1 DEF Resent
  <2>3. DOMAIN Resent(queue[d]) = 1..Len(queue[d])
    BY DEF Resent
  <2>4. \A p \in Player : HasPatch(Resent(queue[d]), p) <=> HasPatch(queue[d], p)
    BY <1>0, <2>2, <2>3, PatchesAfterStages
  <2>. QED
    BY <2>1, <2>4, SameLocalDocs
<1>12. ASSUME NEW d \in Player, Restart(d) PROVE ViewIsCurrent'
  <2> SUFFICES ASSUME NEW e \in Player, NEW r \in Player, echoes'[e][r] > 0
               PROVE  \/ view'[e][r].doc = LocalDoc(e, cache'[e][r], queue'[e], r)
                      \/ view'[e][r].local /\ cache'[e][r].committed
    BY DEF ViewIsCurrent
  <2>1. e # d
    BY <1>12 DEF Restart, TypeOK
  <2>2. /\ queue'[e] = queue[e] /\ cache' = cache
        /\ view'[e] = view[e] /\ echoes'[e] = echoes[e]
    BY <1>12, <2>1 DEF Restart, TypeOK
  <2>. QED
    BY <2>2 DEF ViewIsCurrent
<1>13. CASE UNCHANGED vars
  BY <1>4, <1>13 DEF vars
<1>. QED
  BY <1>1, <1>2, <1>3, <1>5, <1>6, <1>7, <1>8, <1>9, <1>10, <1>11, <1>12, <1>13
  DEF Next

LEMMA CurrentInvariant == Spec => []ViewIsCurrent
<1>1. Init => ViewIsCurrent
  BY DEF Init, ViewIsCurrent
<1>. QED
  BY <1>1, NextCurrent, TypeCorrect, PTL DEF Spec

\* Everything in flight is in order: every queued patch, echo and snapshot on
\* a device has a request of its owner behind it that the server stored; a
\* request's number is used once; and what an echo was told last is the
\* document as its device knows it, unless an acknowledged patch is not back
\* from Watch.
THEOREM InOrder == Spec => []InFlightInOrder
BY InvariantHolds, NumbersInvariant, CurrentInvariant, PTL DEF IInv, InFlightInOrder

-------------------------------------------------------------------------------
(* What the echoes are told loses nobody *)

\* The queued writes of d when the server stores u as r's requesters, and d
\* caches c: an answered patch is stored, and one that Watch overtook cached.
FittingWrites(d, r, u, c) ==
  {m \in Mutation :
     IsPatchOf(m, r) =>
       /\ m.stage # "queued" => d \in u
       /\ m.stage = "watched" => d \in c}

\* A copy is never ahead of the server, and an acknowledged one holds d.
CopyFits(d, r, u, copy, q) ==
  /\ copy.doc.pendingRequest \subseteq u
  /\ copy.committed => d \in copy.doc.pendingRequest
  /\ q \in Seq(FittingWrites(d, r, u, copy.doc.pendingRequest))

CopiesFit ==
  \A d, r \in Player : CopyFits(d, r, users[r].pendingRequest, cache[d][r], queue[d])

\* The requesters of r that device d knows of, and that a step leaves to it.
Known(d, r) == LocalDoc(d, cache[d][r], queue[d], r).pendingRequest

PatchOfRefused(d, r) == PatchRejected(d) /\ Head(queue[d]).to = r

KnownStays(d, r) ==
  \/ Known(d, r) \subseteq Known(d, r)'
  \/ PatchOfRefused(d, r) /\ Known(d, r) \subseteq Known(d, r)' \cup {d}

\* The queue is the same but for stages and callbacks.
LEMMA SameAfterStages ==
  ASSUME NEW q \in Seq(Mutation), NEW r
  PROVE  /\ HasPatch(Resent(q), r) <=> HasPatch(q, r)
         /\ \A p : HasPatch(WithWatched(q, p), r) <=> HasPatch(q, r)
         /\ HasPatch(Resent([i \in 1..Len(q) |-> WithoutCallback(q[i])]), r)
              <=> HasPatch(q, r)
         /\ \A i \in DOMAIN q :
              HasPatch([q EXCEPT ![i] = [q[i] EXCEPT !.stage = "committed"]], r)
                <=> HasPatch(q, r)
<1>1. /\ DOMAIN q = 1..Len(q) /\ Len(q) \in Nat
      /\ \A i \in 1..Len(q) : q[i] \in Mutation
  BY Queued
<1>2. ASSUME NEW m \in Mutation, NEW s \in Stage
      PROVE  SameWrite([m EXCEPT !.stage = s], m) /\ SameWrite(WithoutCallback(m), m)
  BY StagesKeepAdds
<1>3. ASSUME NEW p \in Seq(Mutation)
      PROVE  HasPatch(Resent(p), r) <=> HasPatch(p, r)
  <2>1. /\ DOMAIN Resent(p) = 1..Len(p)
        /\ \A i \in 1..Len(p) : Resent(p)[i] = [p[i] EXCEPT !.stage = "queued"]
    BY ResentFacts
  <2>2. \A i \in 1..Len(p) : p[i] \in Mutation
    BY Queued
  <2>3. \A i \in 1..Len(p) : SameWrite(Resent(p)[i], p[i])
    BY <1>2, <2>1, <2>2 DEF Stage
  <2>. QED
    BY <2>1, <2>3, PatchesAfterStages
<1>4. ASSUME NEW p PROVE HasPatch(WithWatched(q, p), r) <=> HasPatch(q, r)
  <2>1. /\ DOMAIN WithWatched(q, p) = 1..Len(q)
        /\ \A i \in 1..Len(q) :
             \/ WithWatched(q, p)[i] = q[i]
             \/ WithWatched(q, p)[i] = [q[i] EXCEPT !.stage = "watched"]
    BY DEF WithWatched
  <2>2. \A i \in 1..Len(q) : SameWrite([q[i] EXCEPT !.stage = "watched"], q[i])
    BY <1>1, <1>2 DEF Stage
  <2>3. \A i \in 1..Len(q) : SameWrite(q[i], q[i])
    BY DEF SameWrite
  <2>4. \A i \in 1..Len(q) : SameWrite(WithWatched(q, p)[i], q[i])
    BY <2>1, <2>2, <2>3
  <2>. QED
    BY <2>1, <2>4, PatchesAfterStages
<1>5. HasPatch(Resent([i \in 1..Len(q) |-> WithoutCallback(q[i])]), r) <=> HasPatch(q, r)
  <2> DEFINE p == [i \in 1..Len(q) |-> WithoutCallback(q[i])]
  <2>1. p \in Seq(Mutation)
    BY MutationStages, WithoutCallbacksType
  <2>2. DOMAIN p = 1..Len(q) /\ \A i \in 1..Len(q) : SameWrite(p[i], q[i])
    BY <1>1, <1>2 DEF Stage
  <2>. HIDE DEF p
  <2>3. HasPatch(p, r) <=> HasPatch(q, r)
    BY <2>2, PatchesAfterStages
  <2>4. HasPatch(Resent(p), r) <=> HasPatch(p, r)
    BY <1>3, <2>1
  <2>. QED
    BY <2>3, <2>4 DEF p
<1>6. ASSUME NEW i \in DOMAIN q
      PROVE  HasPatch([q EXCEPT ![i] = [q[i] EXCEPT !.stage = "committed"]], r)
               <=> HasPatch(q, r)
  <2> DEFINE m == [q[i] EXCEPT !.stage = "committed"]
             p == [q EXCEPT ![i] = m]
  <2>1. SameWrite(m, q[i])
    BY <1>1, <1>2 DEF Stage
  <2>. HIDE DEF m
  <2>2. DOMAIN p = 1..Len(q) /\ \A j \in 1..Len(q) : SameWrite(p[j], q[j])
    BY <1>1, <2>1 DEF SameWrite
  <2>. HIDE DEF p
  <2>3. HasPatch(p, r) <=> HasPatch(q, r)
    BY <2>2, PatchesAfterStages
  <2>. QED
    BY <2>3 DEF p, m
<1>. QED
  BY <1>3, <1>4, <1>5, <1>6

\* What fits goes on to fit: another requester, a new answer.
LEMMA FittingGrow ==
  ASSUME NEW d, NEW r, NEW u, NEW c, NEW v, NEW e, u \subseteq v, c \subseteq e
  PROVE  FittingWrites(d, r, u, c) \subseteq FittingWrites(d, r, v, e)
BY DEF FittingWrites

LEMMA FittingStages ==
  ASSUME NEW d, NEW r, NEW u, NEW c, NEW m \in FittingWrites(d, r, u, c)
  PROVE  /\ [m EXCEPT !.stage = "queued"] \in FittingWrites(d, r, u, c)
         /\ WithoutCallback(m) \in FittingWrites(d, r, u, c)
         /\ (IsPatchOf(m, r) => d \in u)
              => [m EXCEPT !.stage = "committed"] \in FittingWrites(d, r, u, c)
         /\ m.kind = "patch" /\ (IsPatchOf(m, r) => d \in u /\ d \in c)
              => [m EXCEPT !.stage = "watched"] \in FittingWrites(d, r, u, c)
<1>1. m \in Mutation
  BY DEF FittingWrites
<1>2. ASSUME NEW t \in Stage
      PROVE  /\ IsPatchOf([m EXCEPT !.stage = t], r) <=> IsPatchOf(m, r)
             /\ [m EXCEPT !.stage = t].stage = t
  BY <1>1 DEF Mutation, AddDocument, Patch, IsPatchOf
<1>3. WithoutCallback(m) \in FittingWrites(d, r, u, c)
  <2>1. WithoutCallback(m) \in Mutation
    BY <1>1, MutationStages
  <2>2. CASE m.kind = "add"
    BY <2>1, <2>2, <1>1, StagesKeepAdds DEF FittingWrites, IsPatchOf, SameWrite, Stage
  <2>3. CASE m.kind # "add"
    BY <2>3 DEF WithoutCallback
  <2>. QED
    BY <2>2, <2>3
<1>4. [m EXCEPT !.stage = "queued"] \in FittingWrites(d, r, u, c)
  BY <1>1, <1>2, MutationStages DEF FittingWrites, Stage
<1>5. ASSUME IsPatchOf(m, r) => d \in u
      PROVE  [m EXCEPT !.stage = "committed"] \in FittingWrites(d, r, u, c)
  BY <1>1, <1>2, <1>5, MutationStages DEF FittingWrites, Stage
<1>6. ASSUME m.kind = "patch", IsPatchOf(m, r) => d \in u /\ d \in c
      PROVE  [m EXCEPT !.stage = "watched"] \in FittingWrites(d, r, u, c)
  BY <1>1, <1>2, <1>6, MutationStages DEF FittingWrites, Stage
<1>. QED
  BY <1>3, <1>4, <1>5, <1>6

\* A step keeps the copies behind the server and the answered patches in them,
\* and leaves every device the requesters it knows of, up to a refusal.
LEMMA NextCopies ==
  ASSUME TypeOK, Warranted, CopiesFit, [Next]_vars, NEW e \in Player, NEW p \in Player
  PROVE  /\ CopyFits(e, p, users'[p].pendingRequest, cache'[e][p], queue'[e])
         /\ KnownStays(e, p)
<1> DEFINE Goal == /\ CopyFits(e, p, users'[p].pendingRequest, cache'[e][p], queue'[e])
                   /\ KnownStays(e, p)
           W == FittingWrites(e, p, users'[p].pendingRequest,
                              cache[e][p].doc.pendingRequest)
<1> SUFFICES Goal
  OBVIOUS
<1>0. /\ \A d \in Player : queue[d] \in Seq(Mutation)
      /\ \A d, r \in Player : cache[d][r] \in [doc : UserDoc, committed : BOOLEAN]
      /\ users[p].pendingRequest \subseteq users'[p].pendingRequest
      /\ CopyFits(e, p, users[p].pendingRequest, cache[e][p], queue[e])
  BY RequestersStay DEF TypeOK, CopiesFit
<1>91. ASSUME cache'[e][p] \in [doc : UserDoc, committed : BOOLEAN]
      PROVE  Known(e, p)' = IF HasPatch(queue'[e], p)
                            THEN cache'[e][p].doc.pendingRequest \cup {e}
                            ELSE cache'[e][p].doc.pendingRequest
  BY <1>91 DEF Known, LocalDoc, UserDoc
<1>92. Known(e, p) = IF HasPatch(queue[e], p)
                    THEN cache[e][p].doc.pendingRequest \cup {e}
                    ELSE cache[e][p].doc.pendingRequest
  BY <1>0 DEF Known, LocalDoc, UserDoc
<1>1. queue[e] \in Seq(W)
  BY <1>0, FittingGrow, SeqMonotonic DEF CopyFits
<1>2. ASSUME cache'[e][p] = cache[e][p], queue'[e] \in Seq(W),
             HasPatch(queue[e], p) => HasPatch(queue'[e], p)
      PROVE  Goal
  <2>1. CopyFits(e, p, users'[p].pendingRequest, cache'[e][p], queue'[e])
    BY <1>0, <1>2 DEF CopyFits
  <2>2. Known(e, p) \subseteq Known(e, p)'
    BY <1>0, <1>2, <1>91, <1>92
  <2>. QED
    BY <2>1, <2>2 DEF KnownStays
<1>3. ASSUME cache'[e] = cache[e], queue'[e] = queue[e] PROVE Goal
  BY <1>1, <1>2, <1>3
<1>. HIDE DEF Goal, W
<1>4. ASSUME NEW r \in Player, SendPlayRequest(e, r) PROVE Goal
  <2> DEFINE m == NewAdd(r, sent[e] + 1)
  <2>1. m \in Mutation /\ ~IsPatchOf(m, p)
    <3>1. sent[e] + 1 \in 1..MaxSends
      <4>1. sent[e] \in 0..MaxSends /\ sent[e] < MaxSends
        BY <1>4 DEF SendPlayRequest, TypeOK
      <4>. QED
        BY <4>1, BoundsAreNaturals
    <3>. QED
      BY <3>1 DEF NewAdd, Mutation, AddDocument, Stage, IsPatchOf
  <2>2. queue'[e] = Append(queue[e], m) /\ cache' = cache
    BY <1>4 DEF SendPlayRequest, TypeOK
  <2>. HIDE DEF m
  <2>3. m \in W
    BY <2>1 DEF W, FittingWrites
  <2>4. queue'[e] \in Seq(W)
    BY <1>1, <2>2, <2>3, QueueOps
  <2>. QED
    BY <1>0, <1>2, <2>1, <2>2, <2>4, PatchesAfterAppend
<1>5. ASSUME AddCommitted(e) \/ PatchCommitted(e) PROVE Goal
  <2>1. PICK i \in DOMAIN queue[e] :
          /\ queue' = [queue EXCEPT ![e][i].stage = "committed"]
          /\ \/ queue[e][i].kind = "add"
             \/ users' = [users EXCEPT ![queue[e][i].to] =
                                          ArrayUnion(users[queue[e][i].to], e)]
    BY <1>5 DEF AddCommitted, PatchCommitted
  <2> DEFINE m == queue[e][i]
             mc == [m EXCEPT !.stage = "committed"]
             q == [queue[e] EXCEPT ![i] = mc]
  <2>2. i \in 1..Len(queue[e]) /\ m \in W
    BY <1>0, <1>1, Queued
  <2>3. IsPatchOf(m, p) => e \in users'[p].pendingRequest
    <3> SUFFICES ASSUME IsPatchOf(m, p) PROVE e \in users'[p].pendingRequest
      OBVIOUS
    <3>1. m.to = p /\ m.kind # "add"
      BY DEF IsPatchOf
    <3>2. users' = [users EXCEPT ![p] = ArrayUnion(users[p], e)]
      BY <2>1, <3>1
    <3>. QED
      BY <3>2 DEF ArrayUnion, TypeOK, UserDoc
  <2>4. mc \in W
    BY <2>2, <2>3, FittingStages DEF W
  <2>5. queue'[e] = q
    BY <2>1 DEF TypeOK
  <2>6. HasPatch(q, p) <=> HasPatch(queue[e], p)
    BY <1>0, SameAfterStages
  <2>. HIDE DEF mc
  <2>7. q \in Seq(W)
    BY <1>1, <2>2, <2>4, ExceptSeq
  <2>8. cache' = cache
    BY <1>5 DEF AddCommitted, PatchCommitted
  <2>. HIDE DEF q
  <2>. QED
    BY <1>2, <2>5, <2>6, <2>7, <2>8
<1>6. ASSUME AddAcknowledged(e) \/ AddRejected(e) PROVE Goal
  <2>1. /\ queue[e] # <<>> /\ Head(queue[e]).kind = "add"
        /\ queue'[e] = Tail(queue[e]) /\ cache' = cache
    BY <1>6 DEF AddAcknowledged, AddRejected, TypeOK
  <2>2. HasPatch(Tail(queue[e]), p) <=> HasPatch(queue[e], p)
    BY <1>0, <2>1, PatchesAfterTail DEF IsPatchOf
  <2>3. Tail(queue[e]) \in Seq(W)
    BY <1>1, <2>1, QueueOps
  <2>. QED
    BY <1>2, <2>1, <2>2, <2>3
<1>7. ASSUME StreamBreaks(e) \/ Restart(e) PROVE Goal
  <2> DEFINE q == [i \in 1..Len(queue[e]) |-> WithoutCallback(queue[e][i])]
  <2>1. /\ cache' = cache
        /\ queue'[e] = Resent(queue[e]) \/ queue'[e] = Resent(q)
    BY <1>7 DEF StreamBreaks, Restart, TypeOK
  <2>2. /\ \A m \in W : [m EXCEPT !.stage = "queued"] \in W
        /\ \A m \in W : WithoutCallback(m) \in W
    BY FittingStages DEF W
  <2>3. q \in Seq(W)
    BY <1>1, <2>2, WithoutCallbacksType
  <2>4. HasPatch(Resent(queue[e]), p) /\ HasPatch(Resent(q), p) <=> HasPatch(queue[e], p)
    BY <1>0, SameAfterStages
  <2>. HIDE DEF q
  <2>5. Resent(queue[e]) \in Seq(W) /\ Resent(q) \in Seq(W)
    BY <1>1, <2>2, <2>3, ResentType
  <2>. QED
    BY <1>2, <2>1, <2>4, <2>5
<1>8. ASSUME EchoPatches(e) PROVE Goal
  <2> DEFINE r == Head(main[e]).to
             m == NewPatch(r)
  <2>1. /\ main[e] # <<>>
        /\ cache' = [cache EXCEPT ![e][r] = cache[e][r]]
        /\ queue' = [queue EXCEPT ![e] = Append(queue[e], m)]
    BY <1>8 DEF EchoPatches, Refreshed
  <2>2. r \in Player
    <3>1. Head(main[e]) \in Task
      BY <2>1, HeadTailProperties DEF TypeOK
    <3>. QED
      BY <3>1 DEF Task, Completion, Snapshot
  <2>. HIDE DEF r
  <2>3. m \in W
    BY <2>2 DEF NewPatch, Mutation, Patch, Stage, W, FittingWrites
  <2>. HIDE DEF m
  <2>4. cache'[e][p] = cache[e][p]
    BY <2>1, <2>2, OneCell DEF TypeOK
  <2>5. queue'[e] = Append(queue[e], m)
    BY <2>1 DEF TypeOK
  <2>6. Append(queue[e], m) \in Seq(W)
    BY <1>1, <2>3, QueueOps
  <2>7. HasPatch(queue[e], p) => HasPatch(Append(queue[e], m), p)
    BY <1>1, <2>3, Enqueued, Queued DEF HasPatch
  <2>. QED
    BY <1>2, <2>4, <2>5, <2>6, <2>7
<1>9. ASSUME NEW r \in Player \ {p}, NEW c,
             cache' = [cache EXCEPT ![e][r] = c], queue' = [queue EXCEPT ![e] = Tail(queue[e])],
             queue[e] # <<>>, Head(queue[e]).to = r
      PROVE  Goal
  <2>1. HasPatch(Tail(queue[e]), p) <=> HasPatch(queue[e], p)
    BY <1>0, <1>9, PatchesAfterTail DEF IsPatchOf
  <2>2. Tail(queue[e]) \in Seq(W)
    BY <1>1, <1>9, QueueOps
  <2>3. cache'[e][p] = cache[e][p]
    BY <1>9, OneCell DEF TypeOK
  <2>4. queue'[e] = Tail(queue[e])
    BY <1>9 DEF TypeOK
  <2>. QED
    BY <1>2, <2>1, <2>2, <2>3, <2>4
<1>10. ASSUME PatchAcknowledged(e) PROVE Goal
  <2> DEFINE m == Head(queue[e])
             c == Acknowledged(cache[e][m.to], m, ArrayUnion(cache[e][m.to].doc, e))
  <2>1. /\ queue[e] # <<>> /\ m.kind = "patch" /\ m.stage # "queued"
        /\ cache' = [cache EXCEPT ![e][m.to] = c]
        /\ queue' = [queue EXCEPT ![e] = Tail(queue[e])]
    BY <1>10 DEF PatchAcknowledged, Refreshed
  <2>2. m \in W /\ m \in Mutation /\ Tail(queue[e]) \in Seq(W)
    BY <1>0, <1>1, <2>1, QueueOps
  <2>3. m.to \in Player
    BY <2>2 DEF Mutation, AddDocument, Patch
  <2>4. CASE m.to # p
    <3>. HIDE DEF c
    <3>. QED
      BY <1>9, <2>1, <2>3, <2>4
  <2>5. CASE m.to = p
    <3>1. /\ e \in users'[p].pendingRequest
          /\ m.stage = "watched" => e \in cache[e][p].doc.pendingRequest
          /\ m.stage \in {"committed", "watched"}
      <4>. HIDE DEF m
      <4>1. m.stage \in Stage
        BY <2>2 DEF Mutation, AddDocument, Patch
      <4>2. IsPatchOf(m, p)
        BY <2>1, <2>5 DEF IsPatchOf
      <4>3. e \in users'[p].pendingRequest
        BY <2>1, <2>2, <4>2 DEF W, FittingWrites
      <4>4. m.stage = "watched" => e \in cache[e][p].doc.pendingRequest
        BY <2>2, <4>2 DEF W, FittingWrites
      <4>. QED
        BY <2>1, <4>1, <4>3, <4>4 DEF Stage
    <3>2. /\ c \in [doc : UserDoc, committed : BOOLEAN]
          /\ c.doc.pendingRequest = cache[e][p].doc.pendingRequest \cup {e}
      <4> DEFINE old == cache[e][p]
                 new == ArrayUnion(old.doc, e)
      <4>1. /\ old \in [doc : UserDoc, committed : BOOLEAN]
            /\ new \in UserDoc
            /\ new.pendingRequest = old.doc.pendingRequest \cup {e}
        BY <1>0 DEF ArrayUnion, UserDoc
      <4>2. c = IF m.stage = "committed" THEN Cached(new, TRUE) ELSE old
        BY <2>5 DEF Acknowledged
      <4>. HIDE DEF new, c, m
      <4>3. CASE m.stage = "committed"
        BY <4>1, <4>2, <4>3 DEF Cached
      <4>4. CASE m.stage # "committed"
        BY <3>1, <4>1, <4>2, <4>4
      <4>. QED
        BY <4>3, <4>4
    <3>. HIDE DEF c, m
    <3>3. cache'[e][p] = c /\ queue'[e] = Tail(queue[e])
      BY <2>1, <2>3, <2>5 DEF TypeOK
    <3>4. c.doc.pendingRequest \subseteq users'[p].pendingRequest
      BY <1>0, <3>1, <3>2 DEF CopyFits
    <3>5. Tail(queue[e]) \in Seq(FittingWrites(e, p, users'[p].pendingRequest,
                                              c.doc.pendingRequest))
      BY <2>2, <3>2, FittingGrow, SeqMonotonic DEF W
    <3>6. CopyFits(e, p, users'[p].pendingRequest, cache'[e][p], queue'[e])
      BY <3>2, <3>3, <3>4, <3>5 DEF CopyFits
    <3>7. Known(e, p) \subseteq Known(e, p)'
      BY <1>91, <1>92, <3>2, <3>3
    <3>. QED
      BY <3>6, <3>7 DEF Goal, KnownStays
  <2>. QED
    BY <2>4, <2>5
<1>11. ASSUME PatchRejected(e) PROVE Goal
  <2> DEFINE r == Head(queue[e]).to
  <2>1. /\ queue[e] # <<>> /\ rejects' = rejects + 1
        /\ cache' = [cache EXCEPT ![e][r] = cache[e][r]]
        /\ queue' = [queue EXCEPT ![e] = Tail(queue[e])]
    BY <1>11 DEF PatchRejected, Refreshed
  <2>2. r \in Player /\ Tail(queue[e]) \in Seq(W)
    <3>1. Head(queue[e]) \in Mutation /\ Tail(queue[e]) \in Seq(W)
      BY <1>0, <1>1, <2>1, QueueOps
    <3>. QED
      BY <3>1 DEF Mutation, AddDocument, Patch
  <2>3. CASE r # p
    BY <1>9, <2>1, <2>2, <2>3
  <2>4. CASE r = p
    <3>. HIDE DEF r
    <3>1. cache'[e][p] = cache[e][p] /\ queue'[e] = Tail(queue[e])
      BY <2>1, <2>2, OneCell DEF TypeOK
    <3>2. CopyFits(e, p, users'[p].pendingRequest, cache'[e][p], queue'[e])
      BY <1>0, <2>2, <3>1 DEF CopyFits, W
    <3>3. Known(e, p) \subseteq Known(e, p)' \cup {e}
      BY <1>0, <1>91, <1>92, <3>1
    <3>. QED
      BY <1>11, <2>4, <3>2, <3>3 DEF Goal, KnownStays, PatchOfRefused, r
  <2>. QED
    BY <2>3, <2>4
<1>12. ASSUME NEW r \in Player, Watch(e, r) PROVE Goal
  <2> DEFINE c == Cached(users[r], FALSE)
             q == WithWatched(queue[e], r)
  <2>1. cache' = [cache EXCEPT ![e][r] = c] /\ queue'[e] = q /\ users' = users
    BY <1>12 DEF Watch, Refreshed, server, TypeOK
  <2>2. HasPatch(q, p) <=> HasPatch(queue[e], p)
    BY <1>0, SameAfterStages
  <2>3. CASE r # p
    <3>1. ASSUME NEW m \in W, IsPatchOf(m, r) PROVE [m EXCEPT !.stage = "watched"] \in W
      BY <2>3, <3>1, FittingStages DEF IsPatchOf, W
    <3>2. q \in Seq(W)
      BY <1>1, <3>1, WithWatchedType
    <3>. HIDE DEF c, q
    <3>3. cache'[e][p] = cache[e][p]
      BY <2>1, <2>3, OneCell DEF TypeOK
    <3>. QED
      BY <1>2, <2>1, <2>2, <3>2, <3>3
  <2>4. CASE r = p
    <3> DEFINE u == users'[p].pendingRequest
               V == FittingWrites(e, p, u, u)
    <3>1. /\ c \in [doc : UserDoc, committed : BOOLEAN] /\ c.doc.pendingRequest = u
          /\ ~c.committed /\ cache[e][p].doc.pendingRequest \subseteq u
      BY <1>0, <2>1, <2>4 DEF Cached, TypeOK, CopyFits
    <3>2. queue[e] \in Seq(V)
      BY <1>1, <3>1, FittingGrow, SeqMonotonic DEF W
    <3>3. ASSUME NEW m \in V, IsPatchOf(m, r), m.stage = "committed"
          PROVE  [m EXCEPT !.stage = "watched"] \in V
      <4>1. m.kind = "patch" /\ IsPatchOf(m, p)
        BY <2>4, <3>3 DEF IsPatchOf
      <4>2. e \in u
        BY <3>3, <4>1 DEF FittingWrites
      <4>. QED
        BY <3>3, <4>1, <4>2, FittingStages
    <3>4. q \in Seq(V)
      BY <3>2, <3>3, WithWatchedType
    <3>. HIDE DEF c, q
    <3>5. cache'[e][p] = c
      BY <2>1, <2>4 DEF TypeOK
    <3>6. CopyFits(e, p, u, cache'[e][p], queue'[e])
      BY <2>1, <3>1, <3>4, <3>5 DEF CopyFits
    <3>7. Known(e, p) \subseteq Known(e, p)'
      BY <1>91, <1>92, <2>1, <2>2, <3>1, <3>5
    <3>. QED
      BY <3>6, <3>7 DEF Goal, KnownStays
  <2>. QED
    BY <2>3, <2>4
<1>13. ASSUME NEW d \in Player \ {e}, NEW r \in Player,
              \/ SendPlayRequest(d, r) \/ AddCommitted(d) \/ AddAcknowledged(d)
              \/ AddRejected(d) \/ PatchCommitted(d) \/ StreamBreaks(d) \/ Restart(d)
       PROVE  Goal
  BY <1>3, <1>13 DEF SendPlayRequest, AddCommitted, AddAcknowledged, AddRejected,
                     PatchCommitted, StreamBreaks, Restart, TypeOK
<1>14. ASSUME NEW d \in Player \ {e}, NEW r \in Player,
              \/ EchoPatches(d) \/ PatchAcknowledged(d) \/ PatchRejected(d) \/ Watch(d, r)
       PROVE  Goal
  <2>1. \E t, c, q, tasks : Refreshed(d, t, c, q, tasks)
    BY <1>14 DEF EchoPatches, PatchAcknowledged, PatchRejected, Watch
  <2>2. cache'[e] = cache[e] /\ queue'[e] = queue[e]
    BY <2>1 DEF Refreshed, TypeOK
  <2>. QED
    BY <1>3, <2>2
<1>15. ASSUME NEW d \in Player, RequestFailed(d) \/ RequestAccepted(d) \/ OtherFieldChanges(d)
       PROVE  Goal
  BY <1>3, <1>15 DEF RequestFailed, RequestAccepted, OtherFieldChanges, device
<1>16. CASE UNCHANGED vars
  BY <1>3, <1>16 DEF vars
<1>. QED
  BY <1>4, <1>5, <1>6, <1>7, <1>8, <1>10, <1>11, <1>12, <1>13, <1>14, <1>15, <1>16
  DEF Next

\* What the echoes were told last holds nobody the device does not know of.
ViewsFit ==
  \A d, r \in Player : echoes[d][r] > 0 => view[d][r].doc.pendingRequest \subseteq Known(d, r)

\* A refreshed view is the document or the one before, and then nobody is lost:
\* it waits for Watch only with the device's sender in the cached copy.
LEMMA RefreshedFits ==
  ASSUME TypeOK, NEW d \in Player, NEW r \in Player, NEW c, NEW q, NEW tasks,
         Refreshed(d, r, c, q, tasks), echoes[d][r] > 0,
         view[d][r].doc.pendingRequest \subseteq Known(d, r),
         Known(d, r) \subseteq Known(d, r)' \cup {d},
         cache'[d][r].committed => d \in Known(d, r)'
  PROVE  /\ view'[d][r].doc.pendingRequest \subseteq Known(d, r)'
         /\ \/ view'[d][r].doc = view[d][r].doc
            \/ view'[d][r].doc.pendingRequest = Known(d, r)'
<1> DEFINE doc == LocalDoc(d, c, q, r)
           v == NextView(view[d][r], doc, HasPatch(q, r), c.committed)
<1>1. view'[d][r] = v /\ cache'[d][r] = c /\ queue'[d] = q
  BY DEF Refreshed, TypeOK
<1>2. Known(d, r)' = doc.pendingRequest
  BY <1>1 DEF Known
<1>. HIDE DEF doc
<1>3. CASE ShouldWaitForSyncedDocument(view[d][r], HasPatch(q, r), c.committed)
  <2>1. v.doc = doc \/ v.doc = view[d][r].doc
    BY DEF NextView, Viewed
  <2>2. d \in Known(d, r)'
    BY <1>1, <1>3 DEF ShouldWaitForSyncedDocument
  <2>. HIDE DEF v
  <2>. QED
    BY <1>1, <1>2, <2>1, <2>2
<1>4. CASE ~ShouldWaitForSyncedDocument(view[d][r], HasPatch(q, r), c.committed)
  <2>1. v.doc = doc
    BY <1>4, NextViewShown
  <2>. HIDE DEF v
  <2>. QED
    BY <1>1, <1>2, <2>1
<1>. QED
  BY <1>3, <1>4

\* What a step does to a view that has echoes after it: nothing, a refresh, or
\* opening it.
LEMMA ViewStep ==
  ASSUME TypeOK, [Next]_vars, NEW e \in Player, NEW p \in Player, echoes'[e][p] > 0
  PROVE  \/ view'[e][p] = view[e][p] /\ echoes[e][p] > 0
         \/ echoes[e][p] > 0 /\ \E c, q, tasks : Refreshed(e, p, c, q, tasks)
         \/ echoes[e][p] = 0 /\ view'[e][p].doc.pendingRequest = Known(e, p)'
<1> DEFINE Goal == \/ view'[e][p] = view[e][p] /\ echoes[e][p] > 0
                   \/ echoes[e][p] > 0 /\ \E c, q, tasks : Refreshed(e, p, c, q, tasks)
                   \/ echoes[e][p] = 0 /\ view'[e][p].doc.pendingRequest = Known(e, p)'
<1> SUFFICES Goal
  OBVIOUS
<1>1. ASSUME view' = view, echoes' = echoes PROVE Goal
  BY <1>1
<1>2. ASSUME NEW d \in Player, NEW r \in Player, NEW c, NEW q, NEW tasks,
             Refreshed(d, r, c, q, tasks), echoes' = echoes
      PROVE  Goal
  <2>1. CASE d = e /\ r = p
    BY <1>2, <2>1
  <2>2. CASE ~(d = e /\ r = p)
    <3>1. PICK w : view' = [view EXCEPT ![d][r] = w]
      BY <1>2 DEF Refreshed
    <3>2. view'[e][p] = view[e][p]
      BY <2>2, <3>1, OneCell DEF TypeOK
    <3>. QED
      BY <1>2, <3>2
  <2>. QED
    BY <2>1, <2>2
<1>. HIDE DEF Goal
<1>3. ASSUME NEW d \in Player, NEW r \in Player,
             \/ SendPlayRequest(d, r) \/ AddCommitted(d) \/ AddAcknowledged(d)
             \/ AddRejected(d) \/ RequestFailed(d) \/ PatchCommitted(d)
             \/ StreamBreaks(d) \/ OtherFieldChanges(r) \/ UNCHANGED vars
      PROVE  Goal
  BY <1>1, <1>3 DEF SendPlayRequest, AddCommitted, AddAcknowledged, AddRejected,
         RequestFailed, PatchCommitted, StreamBreaks, OtherFieldChanges, device, vars
<1>4. ASSUME NEW d \in Player, EchoPatches(d) PROVE Goal
  <2>1. Head(main[d]).to \in Player
    <3>1. Head(main[d]) \in Task
      BY <1>4, HeadTailProperties DEF EchoPatches, TypeOK
    <3>. QED
      BY <3>1 DEF Task, Completion, Snapshot
  <2>. QED
    BY <1>2, <1>4, <2>1 DEF EchoPatches
<1>5. ASSUME NEW d \in Player, PatchAcknowledged(d) \/ PatchRejected(d) PROVE Goal
  <2>1. Head(queue[d]).to \in Player
    <3>1. Head(queue[d]) \in Mutation
      BY <1>5, HeadTailProperties DEF PatchAcknowledged, PatchRejected, TypeOK
    <3>. QED
      BY <3>1 DEF Mutation, AddDocument, Patch
  <2>2. PICK c : /\ Refreshed(d, Head(queue[d]).to, c, Tail(queue[d]), main[d])
                 /\ echoes' = echoes
    BY <1>5 DEF PatchAcknowledged, PatchRejected
  <2>. QED
    BY <1>2, <2>1, <2>2
<1>6. ASSUME NEW d \in Player, NEW r \in Player, Watch(d, r) PROVE Goal
  BY <1>2, <1>6 DEF Watch
<1>7. ASSUME NEW d \in Player, Restart(d) PROVE Goal
  <2>1. e # d
    BY <1>7 DEF Restart, TypeOK
  <2>2. view'[e] = view[e] /\ echoes'[e] = echoes[e]
    BY <1>7, <2>1 DEF Restart, TypeOK
  <2>. QED
    BY <2>2 DEF Goal
<1>8. ASSUME NEW d \in Player, RequestAccepted(d) PROVE Goal
  <2> DEFINE r == Head(main[d]).to
             v == Viewed(LocalDoc(d, cache[d][r], queue[d], r), HasPatch(queue[d], r))
  <2>1. r \in Player
    <3>1. Head(main[d]) \in Task
      BY <1>8, HeadTailProperties DEF RequestAccepted, TypeOK
    <3>. QED
      BY <3>1 DEF Task, Completion, Snapshot
  <2>2. /\ echoes' = [echoes EXCEPT ![d][r] = echoes[d][r] + 1]
        /\ view' = IF echoes[d][r] = 0 THEN [view EXCEPT ![d][r] = v] ELSE view
        /\ cache' = cache /\ queue' = queue
    BY <1>8 DEF RequestAccepted
  <2>3. v.doc = LocalDoc(d, cache[d][r], queue[d], r)
    BY DEF Viewed
  <2>. HIDE DEF r, v
  <2>4. CASE e = d /\ p = r /\ echoes[d][r] = 0
    <3>1. view'[e][p] = v
      BY <2>1, <2>2, <2>4 DEF TypeOK
    <3>2. Known(e, p)' = LocalDoc(e, cache[e][p], queue[e], p).pendingRequest
      BY <2>2 DEF Known
    <3>3. v.doc = LocalDoc(e, cache[e][p], queue[e], p)
      BY <2>3, <2>4
    <3>. QED
      BY <2>4, <3>1, <3>2, <3>3 DEF Goal
  <2>5. CASE ~(e = d /\ p = r /\ echoes[d][r] = 0)
    <3>1. view'[e][p] = view[e][p]
      BY <2>1, <2>2, <2>5, OneCell DEF TypeOK
    <3>2. echoes[e][p] > 0
      <4>1. CASE e = d /\ p = r
        BY <2>5, <4>1 DEF TypeOK
      <4>2. CASE ~(e = d /\ p = r)
        BY <2>1, <2>2, <4>2, OneCell DEF TypeOK
      <4>. QED
        BY <4>1, <4>2
    <3>. QED
      BY <3>1, <3>2 DEF Goal
  <2>. QED
    BY <2>4, <2>5
<1>. QED
  BY <1>3, <1>4, <1>5, <1>6, <1>7, <1>8 DEF Next

\* A step leaves what the echoes were told within what the device knows, and
\* tells them the whole of it if it tells them anything.
LEMMA NextViews ==
  ASSUME TypeOK, Warranted, CopiesFit, ViewsFit, [Next]_vars,
         NEW e \in Player, NEW p \in Player, echoes'[e][p] > 0
  PROVE  /\ view'[e][p].doc.pendingRequest \subseteq Known(e, p)'
         /\ \/ echoes[e][p] = 0
            \/ view'[e][p].doc = view[e][p].doc
            \/ view'[e][p].doc.pendingRequest = Known(e, p)'
<1>1. KnownStays(e, p)
  BY NextCopies
<1>2. cache'[e][p].committed => e \in Known(e, p)'
  <2>1. /\ CopyFits(e, p, users'[p].pendingRequest, cache'[e][p], queue'[e])
        /\ TypeOK'
    BY NextCopies, NextType
  <2>2. cache'[e][p] \in [doc : UserDoc, committed : BOOLEAN]
    BY <2>1 DEF TypeOK
  <2>. QED
    BY <2>1, <2>2 DEF CopyFits, Known, LocalDoc, UserDoc
<1>3. ASSUME NEW c, NEW q, NEW tasks, Refreshed(e, p, c, q, tasks), echoes[e][p] > 0
      PROVE  /\ view'[e][p].doc.pendingRequest \subseteq Known(e, p)'
             /\ \/ view'[e][p].doc = view[e][p].doc
                \/ view'[e][p].doc.pendingRequest = Known(e, p)'
  <2>1. Known(e, p) \subseteq Known(e, p)' \cup {e}
    BY <1>1 DEF KnownStays
  <2>2. view[e][p].doc.pendingRequest \subseteq Known(e, p)
    BY <1>3 DEF ViewsFit
  <2>. QED
    BY <1>2, <1>3, <2>1, <2>2, RefreshedFits
<1>4. CASE PatchOfRefused(e, p)
  <2>1. /\ Refreshed(e, p, cache[e][p], Tail(queue[e]), main[e])
        /\ echoes' = echoes
    BY <1>4 DEF PatchOfRefused, PatchRejected
  <2>. QED
    BY <1>3, <2>1
<1>5. CASE ~PatchOfRefused(e, p)
  <2>1. Known(e, p) \subseteq Known(e, p)'
    BY <1>1, <1>5 DEF KnownStays
  <2>2. CASE view'[e][p] = view[e][p] /\ echoes[e][p] > 0
    BY <2>1, <2>2 DEF ViewsFit
  <2>3. CASE echoes[e][p] > 0 /\ \E c, q, tasks : Refreshed(e, p, c, q, tasks)
    BY <1>3, <2>3
  <2>4. CASE echoes[e][p] = 0 /\ view'[e][p].doc.pendingRequest = Known(e, p)'
    BY <2>4
  <2>. QED
    BY <2>2, <2>3, <2>4, ViewStep
<1>. QED
  BY <1>4, <1>5

LEMMA FitInvariant == Spec => [](TypeOK /\ Warranted /\ CopiesFit /\ ViewsFit)
<1>1. Init => CopiesFit
  <2> SUFFICES ASSUME Init, NEW d \in Player, NEW r \in Player
               PROVE  CopyFits(d, r, users[r].pendingRequest, cache[d][r], queue[d])
    BY DEF CopiesFit
  <2>1. queue[d] = <<>> /\ users[r] = NewDoc /\ cache[d][r] = Cached(NewDoc, FALSE)
    BY DEF Init
  <2>. QED
    BY <2>1, EmptySeq DEF CopyFits, Cached, NewDoc
<1>2. Init => ViewsFit
  BY DEF Init, ViewsFit
<1>3. TypeOK /\ Warranted /\ CopiesFit /\ [Next]_vars => CopiesFit'
  BY NextCopies DEF CopiesFit
<1>4. TypeOK /\ Warranted /\ CopiesFit /\ ViewsFit /\ [Next]_vars => ViewsFit'
  <2> SUFFICES ASSUME TypeOK, Warranted, CopiesFit, ViewsFit, [Next]_vars,
                      NEW d \in Player, NEW r \in Player, echoes'[d][r] > 0
               PROVE  view'[d][r].doc.pendingRequest \subseteq Known(d, r)'
    BY DEF ViewsFit
  <2>. QED
    BY NextViews
<1>. QED
  BY <1>1, <1>2, <1>3, <1>4, InitType, InitWarranted, NextType, NextWarranted, PTL DEF Spec

\* What a device's echoes are told loses a requester only when the server
\* refuses a patch, and then it is the device's own sender.
THEOREM NobodyIsLost == Spec => NobodyVanishes
<1>1. TypeOK /\ Warranted /\ CopiesFit /\ ViewsFit /\ [Next]_vars =>
        [\A d, r, s \in Player :
           /\ echoes[d][r] > 0
           /\ echoes'[d][r] > 0
           /\ s \in view[d][r].doc.pendingRequest \ view'[d][r].doc.pendingRequest
           => s = d /\ rejects' > rejects]_vars
  <2> SUFFICES ASSUME TypeOK, Warranted, CopiesFit, ViewsFit, [Next]_vars,
                      NEW d \in Player, NEW r \in Player, NEW s \in Player,
                      echoes[d][r] > 0, echoes'[d][r] > 0,
                      s \in view[d][r].doc.pendingRequest \ view'[d][r].doc.pendingRequest
               PROVE  s = d /\ rejects' > rejects
    OBVIOUS
  <2>1. s \notin Known(d, r)'
    <3>1. echoes[d][r] # 0
      BY DEF TypeOK
    <3>. QED
      BY <3>1, NextViews
  <2>2. s \in Known(d, r)
    BY DEF ViewsFit
  <2>3. PatchOfRefused(d, r) /\ s = d
    BY <2>1, <2>2, NextCopies DEF KnownStays
  <2>4. rejects' > rejects
    BY <2>3, BoundsAreNaturals DEF PatchOfRefused, PatchRejected, TypeOK
  <2>. QED
    BY <2>3, <2>4
<1>. QED
  BY <1>1, FitInvariant, PTL DEF Spec, NobodyVanishes
===============================================================================
