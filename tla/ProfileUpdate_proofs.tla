------------------------- MODULE ProfileUpdate_proofs -------------------------
(***************************************************************************)
(* Proofs about ProfileUpdate, for every bound.                            *)
(***************************************************************************)
EXTENDS ProfileUpdate, FirestoreFacts

-------------------------------------------------------------------------------
(* The document as the device knows it *)

Copy == [doc : UserDoc, committed : BOOLEAN]

View == [doc : UserDoc, local : BOOLEAN]

Profiles(q) == [i \in DOMAIN q |-> q[i].profile]

\* The profiles of a queue of writes are a queue of profiles.
LEMMA ProfilesType ==
  ASSUME NEW q \in Seq(Mutation)
  PROVE  /\ Profiles(q) \in Seq(Profile)
         /\ Len(Profiles(q)) = Len(q)
         /\ \A i \in 1..Len(q) : Profiles(q)[i] = q[i].profile
<1>1. /\ Len(q) \in Nat /\ DOMAIN q = 1..Len(q)
      /\ \A i \in 1..Len(q) : q[i] \in Mutation
  BY Queued
<1>2. Profiles(q) \in [1..Len(q) -> Profile]
  BY <1>1 DEF Profiles, Mutation
<1>3. Profiles(q) \in Seq(Profile)
  BY <1>1, <1>2, SeqDef
<1>4. Len(Profiles(q)) \in Nat /\ 1..Len(Profiles(q)) = 1..Len(q)
  BY <1>2, <1>3, Queued
<1>. QED
  BY <1>1, <1>3, <1>4 DEF Profiles

\* The local document has the profile written last, or the cached one, and
\* the cached document's other field.
LEMMA LocalDocIs ==
  ASSUME NEW c \in Copy, NEW q \in Seq(Mutation)
  PROVE  /\ LocalDoc(c, q) \in UserDoc
         /\ q = <<>> => LocalDoc(c, q) = c.doc
         /\ q # <<>> => LocalDoc(c, q).profile = q[Len(q)].profile
<1> DEFINE p == Profiles(q)
           last == LatestOf(c.doc.profile, p)
<1>1. /\ p \in Seq(Profile) /\ Len(p) = Len(q)
      /\ \A i \in 1..Len(q) : p[i] = q[i].profile
  BY ProfilesType
<1>2. c.doc \in UserDoc /\ c.doc.profile \in Profile
  BY DEF Copy, UserDoc
<1>3. /\ Len(q) \in Nat
      /\ p = <<>> <=> q = <<>>
      /\ q # <<>> => Len(q) \in 1..Len(q)
  BY <1>1, Queued
<1>. HIDE DEF p
<1>4. /\ last \in Profile
      /\ q = <<>> => last = c.doc.profile
      /\ q # <<>> => last = q[Len(q)].profile
  BY <1>1, <1>2, <1>3, Latest
<1>5. LocalDoc(c, q) = [c.doc EXCEPT !.profile = last]
  BY DEF LocalDoc, p, Profiles
<1>. HIDE DEF last
<1>. QED
  BY <1>2, <1>4, <1>5 DEF UserDoc

\* It depends on the cached document and the queued profiles only.
LEMMA SameLocalDoc ==
  ASSUME NEW c, NEW q, NEW r,
         DOMAIN r = DOMAIN q, \A i \in DOMAIN q : r[i].profile = q[i].profile
  PROVE  LocalDoc(c, r) = LocalDoc(c, q)
<1>1. [i \in DOMAIN r |-> r[i].profile] = [i \in DOMAIN q |-> q[i].profile]
  OBVIOUS
<1>. QED
  BY <1>1 DEF LocalDoc

-------------------------------------------------------------------------------
(* Queues of writes that change their stages *)

\* The same writes, perhaps at other stages.
SameWrites(r, q) ==
  /\ r \in Seq(Mutation)
  /\ DOMAIN r = DOMAIN q /\ Len(r) = Len(q)
  /\ \A i \in DOMAIN q : r[i].profile = q[i].profile

\* A write that moves to another stage stays a write of the same profile.
LEMMA StageMoves ==
  ASSUME NEW m \in Mutation, NEW stage \in Stage
  PROVE  /\ [m EXCEPT !.stage = stage] \in Mutation
         /\ [m EXCEPT !.stage = stage].profile = m.profile
         /\ [m EXCEPT !.stage = stage].stage = stage
BY DEF Mutation

\* Nothing but the stages changes when a queue is sent again.
LEMMA ResentWrites ==
  ASSUME NEW q \in Seq(Mutation)
  PROVE  /\ SameWrites(Resent(q), q)
         /\ \A i \in DOMAIN q : Resent(q)[i].stage = "queued"
<1>1. /\ DOMAIN q = 1..Len(q) /\ Len(q) \in Nat
      /\ \A i \in 1..Len(q) : q[i] \in Mutation
  BY Queued
<1>2. /\ Len(Resent(q)) = Len(q) /\ DOMAIN Resent(q) = 1..Len(q)
      /\ \A i \in 1..Len(q) : Resent(q)[i] = [q[i] EXCEPT !.stage = "queued"]
  BY ResentFacts
<1>3. "queued" \in Stage
  BY DEF Stage
<1>4. \A m \in Mutation : [m EXCEPT !.stage = "queued"] \in Mutation
  BY <1>3, StageMoves
<1>5. Resent(q) \in Seq(Mutation)
  BY <1>4, ResentType
<1>6. ASSUME NEW i \in DOMAIN q
      PROVE  Resent(q)[i].profile = q[i].profile /\ Resent(q)[i].stage = "queued"
  <2>1. q[i] \in Mutation /\ Resent(q)[i] = [q[i] EXCEPT !.stage = "queued"]
    BY <1>1, <1>2
  <2>. QED
    BY <1>3, <2>1, StageMoves
<1>. QED
  BY <1>1, <1>2, <1>5, <1>6 DEF SameWrites

\* Nor when Watch brings the server's copy: no write joins those that the
\* server has yet to commit.
LEMMA WatchedWrites ==
  ASSUME NEW q \in Seq(Mutation)
  PROVE  /\ SameWrites(WithWatched(q), q)
         /\ \A i \in DOMAIN q : WithWatched(q)[i].stage = "queued" <=> q[i].stage = "queued"
<1> DEFINE F == [i \in 1..Len(q) |-> IF q[i].stage = "committed"
                                     THEN [q[i] EXCEPT !.stage = "watched"]
                                     ELSE q[i]]
<1>1. /\ DOMAIN q = 1..Len(q) /\ Len(q) \in Nat
      /\ \A i \in 1..Len(q) : q[i] \in Mutation
  BY Queued
<1>2. "watched" \in Stage
  BY DEF Stage
<1>3. ASSUME NEW i \in 1..Len(q)
      PROVE  /\ F[i] \in Mutation
             /\ F[i].profile = q[i].profile
             /\ F[i].stage = "queued" <=> q[i].stage = "queued"
  <2>1. CASE q[i].stage = "committed"
    <3>1. F[i] = [q[i] EXCEPT !.stage = "watched"]
      BY <2>1
    <3>. QED
      BY <1>1, <1>2, <2>1, <3>1, StageMoves
  <2>2. CASE q[i].stage # "committed"
    BY <1>1, <2>2
  <2>. QED
    BY <2>1, <2>2
<1>4. DOMAIN F = 1..Len(q)
  OBVIOUS
<1>5. F \in Seq(Mutation)
  <2>1. F \in [1..Len(q) -> Mutation]
    BY <1>3
  <2>. QED
    BY <1>1, <2>1, SeqDef
<1>6. WithWatched(q) = F
  BY DEF WithWatched
<1>. HIDE DEF F
<1>7. Len(F) = Len(q)
  <2>1. Len(F) \in Nat /\ 1..Len(F) = 1..Len(q)
    BY <1>4, <1>5, Queued
  <2>. QED
    BY <1>1, <2>1
<1>. QED
  BY <1>1, <1>3, <1>4, <1>5, <1>6, <1>7 DEF SameWrites

\* Nor when the server commits one.
LEMMA CommittedWrites ==
  ASSUME NEW q \in Seq(Mutation), NEW i \in DOMAIN q
  PROVE  LET r == [q EXCEPT ![i].stage = "committed"]
         IN  /\ SameWrites(r, q)
             /\ r[i].stage = "committed"
             /\ \A j \in DOMAIN q : j # i => r[j] = q[j]
<1> DEFINE m == [q[i] EXCEPT !.stage = "committed"]
           r == [q EXCEPT ![i] = m]
<1>1. /\ DOMAIN q = 1..Len(q) /\ Len(q) \in Nat /\ i \in 1..Len(q)
      /\ \A j \in 1..Len(q) : q[j] \in Mutation
  BY Queued
<1>2. "committed" \in Stage
  BY DEF Stage
<1>3. m \in Mutation /\ m.profile = q[i].profile /\ m.stage = "committed"
  BY <1>1, <1>2, StageMoves
<1>4. [q EXCEPT ![i].stage = "committed"] = r
  OBVIOUS
<1>. HIDE DEF m
<1>5. /\ r \in Seq(Mutation) /\ Len(r) = Len(q) /\ DOMAIN r = DOMAIN q
      /\ r[i] = m /\ \A j \in DOMAIN q : j # i => r[j] = q[j]
  <2>1. r \in Seq(Mutation) /\ Len(r) = Len(q)
    BY <1>1, <1>3, ExceptSeq
  <2>. QED
    BY <1>1, <2>1
<1>. HIDE DEF r
<1>. QED
  BY <1>3, <1>4, <1>5 DEF SameWrites

\* A queue with the same writes gives the same local document.
LEMMA SameWritesSameDoc ==
  ASSUME NEW c, NEW q, NEW r, SameWrites(r, q)
  PROVE  LocalDoc(c, r) = LocalDoc(c, q)
BY SameLocalDoc DEF SameWrites

-------------------------------------------------------------------------------
(* Types *)

\* What NextView returns for the device's documents.
LEMMA NewViewType ==
  ASSUME view \in View, NEW c \in Copy, NEW q \in Seq(Mutation)
  PROVE  NextView(view, LocalDoc(c, q), q # <<>>, c.committed) \in View
<1>1. /\ LocalDoc(c, q) \in UserDoc
      /\ (q # <<>>) \in BOOLEAN /\ c.committed \in BOOLEAN
  BY LocalDocIs DEF Copy
<1>. QED
  BY <1>1, NextViewType DEF View

\* The snapshots of one change, as a queue of tasks.
LEMMA SnapshotsType ==
  ASSUME NEW p \in Profile
  PROVE  /\ Snapshots(p) \in Seq(Task)
         /\ Len(Snapshots(p)) = IF listener = <<>> THEN 1 ELSE 2
         /\ Snapshots(p)[1] = Show(p)
         /\ listener # <<>> => Snapshots(p)[2] = Write
<1>1. Show(p) \in Task /\ Write \in Task
  BY DEF Task, Show, Write
<1>. HIDE DEF Task, Show, Write
<1>. QED
  BY <1>1 DEF Snapshots

\* Refreshed keeps the variables it assigns in their types.
LEMMA RefreshedType ==
  ASSUME TypeOK, NEW c \in Copy, NEW q \in Seq(Mutation), NEW tasks \in Seq(Task),
         Refreshed(c, q, tasks)
  PROVE  /\ cache' \in Copy
         /\ queue' \in Seq(Mutation)
         /\ view' \in View
         /\ main' \in Seq(Task)
<1> DEFINE nv == NextView(view, LocalDoc(c, q), q # <<>>, c.committed)
<1>1. view \in View /\ nv \in View
  BY NewViewType DEF TypeOK, View
<1>2. /\ cache' = c /\ queue' = q
      /\ view' = IF open THEN nv ELSE view
      /\ main' = IF open /\ ShouldRaiseEvent(view, nv)
                 THEN tasks \o Snapshots(nv.doc.profile) ELSE tasks
  BY DEF Refreshed
<1>. HIDE DEF nv
<1>3. tasks \o Snapshots(nv.doc.profile) \in Seq(Task)
  <2>1. nv.doc.profile \in Profile
    BY <1>1 DEF View, UserDoc
  <2>. QED
    BY <2>1, SnapshotsType, Joined
<1>. QED
  BY <1>1, <1>2, <1>3

LEMMA InitType == Init => TypeOK
<1> SUFFICES ASSUME Init PROVE TypeOK
  OBVIOUS
<1>1. 0 \in Update /\ 0 \in 0..MaxEdits /\ 0 \in 0..MaxRejects /\ 0 \in 0..MaxFaults
  BY BoundsAreNaturals DEF Update
<1>2. FirstDoc \in UserDoc
  BY <1>1 DEF FirstDoc, UserDoc, Profile
<1>3. /\ cache \in [doc : UserDoc, committed : BOOLEAN]
      /\ view \in [doc : UserDoc, local : BOOLEAN]
  BY <1>2 DEF Init, Cached, Viewed, Closed
<1>4. /\ shown \in Shown
      /\ upload \in [update : Update, stage : {"none", "uploading", "linking", "listening"}]
      /\ upload.stage # "listening" /\ listener = <<>>
  BY <1>1 DEF Init, Shown, NoUpload
<1>5. /\ queue \in Seq(Mutation) /\ main \in Seq(Task)
      /\ listener \in {<<>>} \cup {<<p>> : p \in Profile}
      /\ upload.stage = "listening" <=> listener # <<>>
  BY <1>4, EmptySeq DEF Init
<1>6. /\ user \in UserDoc /\ open \in BOOLEAN /\ ours \subseteq Update
      /\ rivals \subseteq Profile
      /\ updates \in Update /\ rejects \in 0..MaxRejects /\ faults \in 0..MaxFaults
  BY <1>1, <1>2 DEF Init
<1>. QED
  BY <1>3, <1>4, <1>5, <1>6 DEF TypeOK

\* A step keeps the types of the server's document, the device and the
\* screen; only the listener's calls need to know that there is a listener.
LEMMA NextTypeOK == TypeOK /\ LastWord /\ [Next]_vars => TypeOK'
<1> SUFFICES ASSUME TypeOK, LastWord, [Next]_vars PROVE TypeOK'
  OBVIOUS
<1>0. /\ MaxUpdates \in Nat /\ MaxEdits \in Nat /\ MaxRejects \in Nat /\ MaxFaults \in Nat
      /\ user \in UserDoc /\ user.profile \in Profile /\ user.edits \in 0..MaxEdits
      /\ cache \in Copy /\ cache.doc \in UserDoc
      /\ queue \in Seq(Mutation) /\ view \in View /\ main \in Seq(Task)
      /\ updates \in 0..MaxUpdates
  BY BoundsAreNaturals DEF TypeOK, Copy, View, UserDoc, Update
<1>1. ASSUME OpenProfile PROVE TypeOK'
  <2>1. LocalDoc(cache, queue) \in UserDoc
    BY <1>0, LocalDocIs
  <2>2. view' \in View /\ open' = TRUE
    BY <1>1, <2>1 DEF OpenProfile, Viewed, View
  <2>3. Show(LocalDoc(cache, queue).profile) \in Task
    BY <2>1 DEF UserDoc, Show, Task
  <2>4. main' \in Seq(Task)
    BY <1>0, <1>1, <2>3, Enqueued DEF OpenProfile
  <2>. QED
    BY <1>1, <2>2, <2>4 DEF OpenProfile, TypeOK, View, outside
<1>2. ASSUME ShowProfile PROVE TypeOK'
  <2>1. Head(main) \in Task /\ main' \in Seq(Task)
    BY <1>0, <1>2, Dequeued DEF ShowProfile
  <2>2. Head(main).profile \in Profile
    BY <1>2, <2>1 DEF ShowProfile, Task
  <2>3. shown' \in Shown
    BY <1>2, <2>2 DEF ShowProfile, Profile, Shown, TypeOK
  <2>. QED
    BY <1>2, <2>1, <2>3 DEF ShowProfile, TypeOK, outside
<1>3. ASSUME PressUpdate PROVE TypeOK'
  <2>1. updates + 1 \in Update
    BY <1>0, <1>3 DEF PressUpdate, Update
  <2>2. listener = <<>> /\ listener' = <<>>
    BY <1>3 DEF PressUpdate, TypeOK, NoUpload
  <2>3. /\ upload' \in [update : Update, stage : {"none", "uploading", "linking", "listening"}]
        /\ upload'.stage = "uploading"
    BY <1>3, <2>1 DEF PressUpdate
  <2>. QED
    BY <1>3, <2>1, <2>2, <2>3 DEF PressUpdate, TypeOK, device
<1>4. ASSUME Uploaded PROVE TypeOK'
  <2>1. upload.stage = "uploading" /\ listener = <<>> /\ listener' = <<>>
    BY <1>4 DEF Uploaded, TypeOK
  <2>2. 0 \in Update
    BY <1>0 DEF Update
  <2>3. /\ upload' \in [update : Update, stage : {"none", "uploading", "linking", "listening"}]
        /\ upload'.stage # "listening"
    BY <1>4, <2>2 DEF Uploaded, TypeOK, NoUpload
  <2>. QED
    BY <1>4, <2>1, <2>3 DEF Uploaded, TypeOK, device, outside
<1>5. ASSUME Linked PROVE TypeOK'
  <2>1. PICK url \in BOOLEAN : listener' = <<[update |-> upload.update, url |-> url]>>
    BY <1>5 DEF Linked
  <2>2. [update |-> upload.update, url |-> url] \in Profile
    BY DEF TypeOK, Profile
  <2>3. listener' \in {<<>>} \cup {<<p>> : p \in Profile} /\ listener' # <<>>
    BY <2>1, <2>2
  <2>4. /\ upload' \in [update : Update, stage : {"none", "uploading", "linking", "listening"}]
        /\ upload'.stage = "listening"
    BY <1>5 DEF Linked, TypeOK
  <2>5. main' \in Seq(Task)
    <3>1. Write \in Task
      BY DEF Write, Task
    <3>. QED
      BY <1>0, <1>5, <3>1, Enqueued DEF Linked
  <2>. QED
    BY <1>5, <2>3, <2>4, <2>5 DEF Linked, TypeOK, outside
<1>6. ASSUME WriteProfile PROVE TypeOK'
  <2>1. 1 \in DOMAIN main /\ Head(main) = main[1] /\ Tail(main) \in Seq(Task)
    BY <1>0, <1>6, Dequeued DEF WriteProfile
  <2>2. listener # <<>>
    BY <1>6, <2>1 DEF WriteProfile, LastWord, ListenerAnswers
  <2>3. listener[1] \in Profile
    BY <2>2 DEF TypeOK
  <2>4. NewWrite(listener[1]) \in Mutation
    BY <2>3 DEF NewWrite, Mutation, Stage
  <2>5. Append(queue, NewWrite(listener[1])) \in Seq(Mutation)
    BY <1>0, <2>4, Enqueued
  <2>6. Refreshed(cache, Append(queue, NewWrite(listener[1])), Tail(main))
    BY <1>6 DEF WriteProfile
  <2>7. cache' \in Copy /\ queue' \in Seq(Mutation) /\ view' \in View /\ main' \in Seq(Task)
    BY <1>0, <2>1, <2>5, <2>6, RefreshedType
  <2>. QED
    BY <1>6, <2>7 DEF WriteProfile, TypeOK, Copy, View, screen, outside
<1>7. ASSUME WriteCommitted PROVE TypeOK'
  <2>1. PICK i \in DOMAIN queue :
          /\ user' = [user EXCEPT !.profile = queue[i].profile]
          /\ queue' = [queue EXCEPT ![i].stage = "committed"]
    BY <1>7 DEF WriteCommitted
  <2>2. queue' \in Seq(Mutation)
    BY <1>0, <2>1, CommittedWrites DEF SameWrites
  <2>3. queue[i].profile \in Profile
    <3>1. queue[i] \in Mutation
      BY <1>0, <2>1, Queued
    <3>. QED
      BY <3>1 DEF Mutation
  <2>4. user' \in UserDoc
    BY <1>0, <2>1, <2>3 DEF UserDoc
  <2>. QED
    BY <1>7, <2>2, <2>4 DEF WriteCommitted, TypeOK, screen, outside
<1>8. ASSUME WriteAcknowledged PROVE TypeOK'
  <2>1. Head(queue) \in Mutation /\ Tail(queue) \in Seq(Mutation)
    BY <1>0, <1>8, Dequeued DEF WriteAcknowledged
  <2> DEFINE c == Acknowledged(cache, Head(queue),
                               [cache.doc EXCEPT !.profile = Head(queue).profile])
  <2>2. c \in Copy
    <3>1. [cache.doc EXCEPT !.profile = Head(queue).profile] \in UserDoc
      BY <1>0, <2>1 DEF UserDoc, Mutation
    <3>. QED
      BY <1>0, <3>1 DEF Acknowledged, Cached, Copy
  <2>3. Refreshed(c, Tail(queue), main)
    BY <1>8 DEF WriteAcknowledged
  <2>4. cache' \in Copy /\ queue' \in Seq(Mutation) /\ view' \in View /\ main' \in Seq(Task)
    BY <1>0, <2>1, <2>2, <2>3, RefreshedType
  <2>. QED
    BY <1>8, <2>4 DEF WriteAcknowledged, TypeOK, Copy, View, screen, outside
<1>9. ASSUME WriteRejected PROVE TypeOK'
  <2>1. Tail(queue) \in Seq(Mutation)
    BY <1>0, <1>9, Dequeued DEF WriteRejected
  <2>2. Refreshed(cache, Tail(queue), main)
    BY <1>9 DEF WriteRejected
  <2>3. cache' \in Copy /\ queue' \in Seq(Mutation) /\ view' \in View /\ main' \in Seq(Task)
    BY <1>0, <2>1, <2>2, RefreshedType
  <2>4. rejects' \in 0..MaxRejects
    BY <1>0, <1>9 DEF WriteRejected, TypeOK
  <2>. QED
    BY <1>9, <2>3, <2>4 DEF WriteRejected, TypeOK, Copy, View, screen
<1>10. ASSUME Watch PROVE TypeOK'
  <2>1. Cached(user, FALSE) \in Copy
    BY <1>0 DEF Cached, Copy
  <2>2. WithWatched(queue) \in Seq(Mutation)
    BY <1>0, WatchedWrites DEF SameWrites
  <2>3. Refreshed(Cached(user, FALSE), WithWatched(queue), main)
    BY <1>10 DEF Watch
  <2>4. cache' \in Copy /\ queue' \in Seq(Mutation) /\ view' \in View /\ main' \in Seq(Task)
    BY <1>0, <2>1, <2>2, <2>3, RefreshedType
  <2>. QED
    BY <1>10, <2>4 DEF Watch, TypeOK, Copy, View, screen, outside
<1>11. ASSUME OtherFieldChanges PROVE TypeOK'
  <2>1. user.edits + 1 \in 0..MaxEdits
    BY <1>0, <1>11 DEF OtherFieldChanges
  <2>2. user' \in UserDoc
    BY <1>0, <1>11, <2>1 DEF OtherFieldChanges, UserDoc
  <2>. QED
    BY <1>11, <2>2 DEF OtherFieldChanges, TypeOK, device, screen, outside
<1>12. ASSUME OtherDeviceUpdates PROVE TypeOK'
  <2>1. updates + 1 \in Update
    BY <1>0, <1>12 DEF OtherDeviceUpdates, Update
  <2>2. rivals' \subseteq Profile
    BY <1>12, <2>1 DEF OtherDeviceUpdates, TypeOK, Profile
  <2>. QED
    BY <1>12, <2>1, <2>2 DEF OtherDeviceUpdates, TypeOK, device, screen
<1>13. ASSUME StreamBreaks PROVE TypeOK'
  <2>1. queue' \in Seq(Mutation)
    BY <1>0, <1>13, ResentWrites DEF StreamBreaks, SameWrites
  <2>2. faults' \in 0..MaxFaults
    BY <1>0, <1>13 DEF StreamBreaks, TypeOK
  <2>. QED
    BY <1>13, <2>1, <2>2 DEF StreamBreaks, TypeOK, screen
<1>14. ASSUME Restart PROVE TypeOK'
  <2>1. queue' \in Seq(Mutation)
    BY <1>0, <1>14, ResentWrites DEF Restart, SameWrites
  <2>2. faults' \in 0..MaxFaults
    BY <1>0, <1>14 DEF Restart, TypeOK
  <2>3. 0 \in Update /\ 0 \in 0..MaxEdits
    BY <1>0 DEF Update
  <2>4. view' \in [doc : UserDoc, local : BOOLEAN]
    BY <1>14, <2>3 DEF Restart, Closed, Viewed, FirstDoc, UserDoc, Profile
  <2>5. /\ shown' \in Shown
        /\ upload' \in [update : Update, stage : {"none", "uploading", "linking", "listening"}]
        /\ upload'.stage # "listening" /\ listener' = <<>>
    BY <1>14, <2>3 DEF Restart, Shown, NoUpload
  <2>6. main' \in Seq(Task) /\ open' \in BOOLEAN
    BY <1>14, EmptySeq DEF Restart
  <2>7. listener' \in {<<>>} \cup {<<p>> : p \in Profile}
    BY <2>5
  <2>8. upload'.stage = "listening" <=> listener' # <<>>
    BY <2>5
  <2>9. /\ user' \in UserDoc /\ ours' \subseteq Update
        /\ rivals' \subseteq Profile
        /\ cache' \in [doc : UserDoc, committed : BOOLEAN]
        /\ updates' \in Update /\ rejects' \in 0..MaxRejects
    BY <1>14 DEF Restart, TypeOK
  <2>. QED
    BY <2>1, <2>2, <2>4, <2>5, <2>6, <2>7, <2>8, <2>9 DEF TypeOK
<1>15. ASSUME OtherDeviceWrites PROVE TypeOK'
  <2>1. user' \in UserDoc
    BY <1>0, <1>15 DEF OtherDeviceWrites, TypeOK, UserDoc
  <2>. QED
    BY <1>15, <2>1 DEF OtherDeviceWrites, TypeOK, device, screen, outside
<1>16. CASE UNCHANGED vars
  BY <1>16 DEF vars, TypeOK
<1>. QED
  BY <1>1, <1>2, <1>3, <1>4, <1>5, <1>6, <1>7, <1>8, <1>9, <1>10, <1>11, <1>12,
     <1>13, <1>14, <1>15, <1>16 DEF Next

-------------------------------------------------------------------------------
(* The view shows the device's document *)

\* Whatever the device's copy and queue become, the view follows.
LEMMA RefreshedCurrent ==
  ASSUME NEW c, NEW q, NEW tasks, Refreshed(c, q, tasks), open' = open
  PROVE  ViewIsCurrent'
<1> DEFINE doc == LocalDoc(c, q)
           nv == NextView(view, doc, q # <<>>, c.committed)
<1>1. cache' = c /\ queue' = q /\ view' = IF open THEN nv ELSE view
  BY DEF Refreshed
<1>2. nv.doc = doc \/ (nv.local /\ c.committed)
  BY NextViewCurrent
<1>3. LocalDoc(cache', queue') = doc
  <2>1. cache' = c /\ queue' = q
    BY DEF Refreshed
  <2>. QED
    BY <2>1
<1>. HIDE DEF nv, doc
<1>. QED
  BY <1>1, <1>2, <1>3 DEF ViewIsCurrent

\* So it does when writes only change their stages.
LEMMA StagesCurrent ==
  ASSUME ViewIsCurrent, cache' = cache, view' = view, open' = open,
         SameWrites(queue', queue)
  PROVE  ViewIsCurrent'
<1>1. LocalDoc(cache', queue') = LocalDoc(cache, queue)
  BY SameWritesSameDoc
<1>. QED
  BY <1>1 DEF ViewIsCurrent

LEMMA NextCurrent == TypeOK /\ ViewIsCurrent /\ [Next]_vars => ViewIsCurrent'
<1> SUFFICES ASSUME TypeOK, ViewIsCurrent, [Next]_vars PROVE ViewIsCurrent'
  OBVIOUS
<1>0. queue \in Seq(Mutation)
  BY DEF TypeOK
<1>1. ASSUME OpenProfile PROVE ViewIsCurrent'
  <2>1. view'.doc = LocalDoc(cache, queue) /\ cache' = cache /\ queue' = queue
    BY <1>1 DEF OpenProfile, Viewed
  <2>2. LocalDoc(cache', queue') = LocalDoc(cache, queue)
    BY <2>1
  <2>. QED
    BY <2>1, <2>2 DEF ViewIsCurrent
<1>2. CASE WriteProfile
  BY <1>2, RefreshedCurrent DEF WriteProfile, screen
<1>3. CASE WriteAcknowledged
  BY <1>3, RefreshedCurrent DEF WriteAcknowledged, screen
<1>4. CASE WriteRejected
  BY <1>4, RefreshedCurrent DEF WriteRejected, screen
<1>5. CASE Watch
  BY <1>5, RefreshedCurrent DEF Watch, screen
<1>6. ASSUME WriteCommitted PROVE ViewIsCurrent'
  <2>1. /\ \E i \in DOMAIN queue : queue' = [queue EXCEPT ![i].stage = "committed"]
        /\ UNCHANGED <<cache, view, open>>
    BY <1>6 DEF WriteCommitted, screen
  <2>2. SameWrites(queue', queue)
    BY <1>0, <2>1, CommittedWrites
  <2>. QED
    BY <2>1, <2>2, StagesCurrent
<1>7. ASSUME StreamBreaks PROVE ViewIsCurrent'
  <2>1. SameWrites(queue', queue)
    BY <1>0, <1>7, ResentWrites DEF StreamBreaks
  <2>. QED
    BY <1>7, <2>1, StagesCurrent DEF StreamBreaks, screen
<1>8. CASE Restart
  BY <1>8 DEF Restart, ViewIsCurrent
<1>9. ASSUME UNCHANGED <<cache, queue, view, open>> PROVE ViewIsCurrent'
  <2>1. LocalDoc(cache', queue') = LocalDoc(cache, queue)
    BY <1>9
  <2>. QED
    BY <1>9, <2>1 DEF ViewIsCurrent
<1>10. ASSUME \/ ShowProfile \/ PressUpdate \/ Uploaded \/ Linked
              \/ OtherFieldChanges \/ OtherDeviceUpdates \/ OtherDeviceWrites
              \/ UNCHANGED vars
       PROVE  UNCHANGED <<cache, queue, view, open>>
  BY <1>10 DEF ShowProfile, PressUpdate, Uploaded, Linked, OtherFieldChanges,
              OtherDeviceUpdates, OtherDeviceWrites, vars, device, screen
<1>. QED
  BY <1>1, <1>2, <1>3, <1>4, <1>5, <1>6, <1>7, <1>8, <1>9, <1>10 DEF Next

-------------------------------------------------------------------------------
(* The newest snapshot is shown and answered last *)

\* The snapshots that a change queues are the newest.
LEMMA SnapshotsNewest ==
  ASSUME NEW q \in Seq(Task), NEW p \in Profile, NEW current
  PROVE  /\ NewestIsShown(q \o Snapshots(p), p, current)
         /\ listener # <<>> => \E k \in DOMAIN (q \o Snapshots(p)) :
                                 (q \o Snapshots(p))[k].kind = "write"
         /\ listener = <<>> => ((\A k \in DOMAIN q : q[k].kind # "write") =>
              \A k \in DOMAIN (q \o Snapshots(p)) : (q \o Snapshots(p))[k].kind # "write")
<1> DEFINE t == Snapshots(p)
           r == q \o t
           n == Len(q)
<1>1. /\ t \in Seq(Task) /\ Len(t) = IF listener = <<>> THEN 1 ELSE 2
      /\ t[1] = Show(p)
      /\ listener # <<>> => t[2] = Write
  BY SnapshotsType
<1>2. n \in Nat /\ DOMAIN q = 1..n
  BY Queued
<1>. HIDE DEF t
<1>3. /\ DOMAIN r = 1..(n + Len(t))
      /\ \A i \in 1..n : r[i] = q[i]
      /\ \A i \in 1..Len(t) : r[n + i] = t[i]
  <2>1. t \in Seq(Task)
    BY <1>1
  <2>. QED
    BY <2>1, Joined
<1>. HIDE DEF r, n
<1>4. n + 1 \in DOMAIN r /\ r[n + 1] = Show(p)
  <2>1. 1 \in 1..Len(t) /\ n + 1 \in 1..(n + Len(t))
    BY <1>1, <1>2
  <2>2. r[n + 1] = t[1] /\ n + 1 \in DOMAIN r
    BY <1>3, <2>1
  <2>. QED
    BY <1>1, <2>2
<1>5. listener # <<>> => n + 2 \in DOMAIN r /\ r[n + 2] = Write
  <2> SUFFICES ASSUME listener # <<>> PROVE n + 2 \in DOMAIN r /\ r[n + 2] = Write
    OBVIOUS
  <2>1. 2 \in 1..Len(t) /\ n + 2 \in 1..(n + Len(t))
    BY <1>1, <1>2
  <2>2. r[n + 2] = t[2] /\ n + 2 \in DOMAIN r
    BY <1>3, <2>1
  <2>. QED
    BY <1>1, <2>2
<1>6. ASSUME NEW k \in DOMAIN r
      PROVE  k \in 1..n \/ k = n + 1 \/ (k = n + 2 /\ listener # <<>>)
  BY <1>1, <1>2, <1>3
<1>7. NewestIsShown(r, p, current)
  <2>1. r[n + 1].kind = "show" /\ r[n + 1].profile = p
    BY <1>4 DEF Show
  <2>2. ASSUME NEW k \in DOMAIN r, r[k].kind = "show" PROVE k <= n + 1
    <3>1. ~(k = n + 2 /\ listener # <<>>)
      BY <1>5, <2>2 DEF Write
    <3>. QED
      BY <1>2, <1>6, <3>1
  <2>. QED
    BY <1>4, <2>1, <2>2 DEF NewestIsShown
<1>8. listener # <<>> => \E k \in DOMAIN r : r[k].kind = "write"
  BY <1>5 DEF Write
<1>9. ASSUME listener = <<>>, \A k \in DOMAIN q : q[k].kind # "write", NEW k \in DOMAIN r
      PROVE  r[k].kind # "write"
  <2>1. CASE k \in 1..n
    BY <1>2, <1>3, <1>9, <2>1
  <2>2. CASE k = n + 1
    BY <1>4, <2>2 DEF Show
  <2>. QED
    BY <1>6, <1>9, <2>1, <2>2
<1>. QED
  BY <1>7, <1>8, <1>9 DEF r, t

\* It stays the newest when the head of the queue is done: done last of all,
\* it leaves the screen as it says.
LEMMA NewestAfterTail ==
  ASSUME NEW q \in Seq(Task), q # <<>>, NEW p, NEW current, NEW now,
         NewestIsShown(q, p, current),
         Head(q).kind = "show" /\ Head(q).profile = p => now,
         Head(q).kind # "show" /\ current => now
  PROVE  NewestIsShown(Tail(q), p, now)
<1>1. /\ 1 \in DOMAIN q /\ Head(q) = q[1]
      /\ Len(q) \in Nat /\ DOMAIN q = 1..Len(q)
      /\ DOMAIN Tail(q) = 1..(Len(q) - 1)
      /\ \A i \in 1..(Len(q) - 1) : Tail(q)[i] = q[i + 1]
  BY Dequeued, Queued
<1>2. ASSUME NEW l \in DOMAIN Tail(q)
      PROVE  l \in Nat /\ l > 0 /\ l + 1 \in DOMAIN q /\ Tail(q)[l] = q[l + 1]
  BY <1>1
<1>3. CASE \E k \in DOMAIN q :
             /\ q[k].kind = "show" /\ q[k].profile = p
             /\ \A l \in DOMAIN q : q[l].kind = "show" => l <= k
  <2>1. PICK k \in DOMAIN q :
             /\ q[k].kind = "show" /\ q[k].profile = p
             /\ \A l \in DOMAIN q : q[l].kind = "show" => l <= k
    BY <1>3
  <2>2. ASSUME NEW l \in DOMAIN Tail(q), Tail(q)[l].kind = "show" PROVE l + 1 <= k
    BY <1>2, <2>1, <2>2
  <2>3. CASE k = 1
    <3>1. now
      BY <1>1, <2>1, <2>3
    <3>2. ASSUME NEW l \in DOMAIN Tail(q) PROVE Tail(q)[l].kind # "show"
      BY <1>2, <2>2, <2>3
    <3>. QED
      BY <3>1, <3>2 DEF NewestIsShown
  <2>4. CASE k # 1
    <3>1. k - 1 \in DOMAIN Tail(q) /\ Tail(q)[k - 1] = q[k]
      BY <1>1, <2>4
    <3>2. ASSUME NEW l \in DOMAIN Tail(q), Tail(q)[l].kind = "show" PROVE l <= k - 1
      <4>1. l + 1 <= k /\ l \in Nat /\ k \in Nat
        BY <1>1, <1>2, <2>2, <3>2
      <4>. QED
        BY <4>1
    <3>. QED
      BY <2>1, <3>1, <3>2 DEF NewestIsShown
  <2>. QED
    BY <2>3, <2>4
<1>4. CASE current /\ \A k \in DOMAIN q : q[k].kind # "show"
  <2>1. now
    BY <1>1, <1>4
  <2>2. \A l \in DOMAIN Tail(q) : Tail(q)[l].kind # "show"
    BY <1>2, <1>4
  <2>. QED
    BY <2>1, <2>2 DEF NewestIsShown
<1>. QED
  BY <1>3, <1>4 DEF NewestIsShown

\* It stays the newest when the listener's first call joins the queue.
LEMMA NewestAfterWrite ==
  ASSUME NEW q \in Seq(Task), NEW p, NEW current, NewestIsShown(q, p, current)
  PROVE  /\ NewestIsShown(Append(q, Write), p, current)
         /\ \E k \in DOMAIN Append(q, Write) : Append(q, Write)[k].kind = "write"
<1> DEFINE r == Append(q, Write)
           n == Len(q)
<1>1. Write \in Task /\ Write.kind = "write"
  BY DEF Write, Task
<1>2. /\ n \in Nat /\ DOMAIN q = 1..n /\ DOMAIN r = 1..(n + 1)
      /\ \A i \in 1..n : r[i] = q[i]
      /\ r[n + 1] = Write
  BY <1>1, Queued, Enqueued
<1>. HIDE DEF r, n
<1>3. ASSUME NEW l \in DOMAIN r, r[l].kind = "show" PROVE l \in DOMAIN q /\ r[l] = q[l]
  <2>1. l # n + 1
    BY <1>1, <1>2, <1>3
  <2>. QED
    BY <1>2, <2>1
<1>4. NewestIsShown(r, p, current)
  <2>1. CASE \E k \in DOMAIN q :
               /\ q[k].kind = "show" /\ q[k].profile = p
               /\ \A l \in DOMAIN q : q[l].kind = "show" => l <= k
    <3>1. PICK k \in DOMAIN q :
               /\ q[k].kind = "show" /\ q[k].profile = p
               /\ \A l \in DOMAIN q : q[l].kind = "show" => l <= k
      BY <2>1
    <3>2. k \in DOMAIN r /\ r[k] = q[k]
      BY <1>2
    <3>3. \A l \in DOMAIN r : r[l].kind = "show" => l <= k
      BY <1>3, <3>1
    <3>. QED
      BY <3>1, <3>2, <3>3 DEF NewestIsShown
  <2>2. CASE current /\ \A k \in DOMAIN q : q[k].kind # "show"
    BY <1>3, <2>2 DEF NewestIsShown
  <2>. QED
    BY <2>1, <2>2 DEF NewestIsShown
<1>5. \E k \in DOMAIN r : r[k].kind = "write"
  <2>1. n + 1 \in DOMAIN r
    BY <1>2
  <2>. QED
    BY <1>1, <1>2, <2>1
<1>. QED
  BY <1>4, <1>5 DEF r

\* Refreshed queues the newest snapshot, or leaves the newest as it was.
LEMMA RefreshedLast ==
  ASSUME TypeOK, NEW c \in Copy, NEW q \in Seq(Mutation), NEW tasks \in Seq(Task),
         Refreshed(c, q, tasks), UNCHANGED screen,
         upload.stage # "none" => open,
         open => NewestIsShown(tasks, view.doc.profile, Shows(shown, view.doc.profile)),
         \/ ListenerAnswers(listener, tasks, view.doc.profile)
         \/ listener # <<>> /\ q # <<>> /\ LocalDoc(c, q).profile = listener[1]
  PROVE  LastWord'
<1> DEFINE nv == NextView(view, LocalDoc(c, q), q # <<>>, c.committed)
           p == nv.doc.profile
<1>0. /\ view' = IF open THEN nv ELSE view
      /\ main' = IF open /\ ShouldRaiseEvent(view, nv) THEN tasks \o Snapshots(p) ELSE tasks
      /\ UNCHANGED <<open, shown, upload, listener>>
  BY DEF Refreshed, screen
<1>1. view \in View /\ nv \in View
  BY NewViewType DEF TypeOK, View
<1>2. p \in Profile
  BY <1>1 DEF View, UserDoc
<1>3. upload'.stage # "none" => open'
  BY <1>0
<1>4. listener # <<>> => open
  BY DEF TypeOK
<1>5. listener # <<>> /\ q # <<>> /\ LocalDoc(c, q).profile = listener[1] =>
        p = listener[1]
  <2> SUFFICES ASSUME q # <<>>, LocalDoc(c, q).profile = listener[1]
               PROVE  p = listener[1]
    OBVIOUS
  <2>1. ~ShouldWaitForSyncedDocument(view, q # <<>>, c.committed)
    BY DEF ShouldWaitForSyncedDocument
  <2>2. nv.doc = LocalDoc(c, q)
    BY <2>1, NextViewShown
  <2>. QED
    BY <2>2
<1>. HIDE DEF nv
<1>6. CASE open /\ ShouldRaiseEvent(view, nv)
  <2>1. view' = nv /\ main' = tasks \o Snapshots(p)
    BY <1>0, <1>6
  <2>. HIDE DEF p
  <2>2. NewestIsShown(main', p, Shows(shown', p))
    BY <1>2, <2>1, SnapshotsNewest
  <2>3. ListenerAnswers(listener', main', p)
    <3>1. CASE listener = <<>>
      <4>1. \A k \in DOMAIN tasks : tasks[k].kind # "write"
        BY <3>1 DEF ListenerAnswers
      <4>. QED
        BY <1>0, <1>2, <2>1, <3>1, <4>1, SnapshotsNewest DEF ListenerAnswers
    <3>2. CASE listener # <<>>
      BY <1>0, <1>2, <2>1, <3>2, SnapshotsNewest DEF ListenerAnswers
    <3>. QED
      BY <3>1, <3>2
  <2>4. view'.doc.profile = p
    BY <2>1 DEF p
  <2>. QED
    BY <1>3, <2>2, <2>3, <2>4 DEF LastWord
<1>7. CASE ~(open /\ ShouldRaiseEvent(view, nv))
  <2>1. main' = tasks /\ view'.doc = view.doc
    BY <1>0, <1>7 DEF ShouldRaiseEvent
  <2>2. open => NewestIsShown(main', view'.doc.profile, Shows(shown', view'.doc.profile))
    <3>1. Shows(shown', view'.doc.profile) <=> Shows(shown, view.doc.profile)
      BY <1>0, <2>1 DEF Shows
    <3>2. CASE Shows(shown, view.doc.profile)
      BY <2>1, <3>1, <3>2 DEF NewestIsShown
    <3>3. CASE ~Shows(shown, view.doc.profile)
      BY <2>1, <3>1, <3>3 DEF NewestIsShown
    <3>. QED
      BY <3>2, <3>3
  <2>3. open => view.doc = nv.doc
    BY <1>7 DEF ShouldRaiseEvent
  <2>4. ListenerAnswers(listener, tasks, view.doc.profile)
    <3>1. CASE listener # <<>> /\ q # <<>> /\ LocalDoc(c, q).profile = listener[1]
      BY <1>4, <1>5, <2>3, <3>1 DEF ListenerAnswers
    <3>. QED
      BY <3>1
  <2>5. ListenerAnswers(listener', main', view'.doc.profile)
    BY <1>0, <2>1, <2>4 DEF ListenerAnswers
  <2>. QED
    BY <1>0, <1>3, <2>2, <2>5 DEF LastWord
<1>. QED
  BY <1>6, <1>7

\* So does a step that leaves the tasks and the screen alone.
LEMMA UndisturbedLast ==
  ASSUME LastWord, UNCHANGED <<main, open, shown, listener>>,
         view'.doc = view.doc, upload'.stage # "none" => open
  PROVE  LastWord'
<1>1. ListenerAnswers(listener', main', view'.doc.profile)
  BY DEF LastWord, ListenerAnswers
<1>2. ASSUME open PROVE NewestIsShown(main', view'.doc.profile, Shows(shown', view'.doc.profile))
  BY <1>2 DEF LastWord, NewestIsShown, Shows
<1>. QED
  BY <1>1, <1>2 DEF LastWord

LEMMA NextLast == TypeOK /\ LastWord /\ [Next]_vars => LastWord'
<1> SUFFICES ASSUME TypeOK, LastWord, [Next]_vars PROVE LastWord'
  OBVIOUS
<1>0. /\ cache \in Copy /\ queue \in Seq(Mutation) /\ main \in Seq(Task)
      /\ user \in UserDoc /\ cache.doc \in UserDoc
      /\ view.doc.profile \in Profile
      /\ upload.stage # "none" => open
      /\ open => NewestIsShown(main, view.doc.profile, Shows(shown, view.doc.profile))
      /\ ListenerAnswers(listener, main, view.doc.profile)
  BY DEF TypeOK, Copy, UserDoc, LastWord
<1>1. ASSUME OpenProfile PROVE LastWord'
  <2> DEFINE doc == LocalDoc(cache, queue)
  <2>1. /\ ~open /\ view'.doc = doc /\ main' = Append(main, Show(doc.profile))
        /\ UNCHANGED <<upload, listener>> /\ open'
    BY <1>1 DEF OpenProfile, Viewed
  <2>2. listener = <<>>
    BY <1>0, <2>1 DEF TypeOK
  <2>3. doc.profile \in Profile
    BY <1>0, LocalDocIs DEF UserDoc
  <2>. HIDE DEF doc
  <2>4. main' = main \o Snapshots(doc.profile)
    <3>1. Show(doc.profile) \in Task
      BY <2>3 DEF Show, Task
    <3>. QED
      BY <1>0, <2>1, <2>2, <3>1, AppendIsConcat DEF Snapshots
  <2>5. NewestIsShown(main', doc.profile, Shows(shown', doc.profile))
    BY <1>0, <2>3, <2>4, SnapshotsNewest
  <2>6. ListenerAnswers(listener', main', doc.profile)
    <3>1. \A k \in DOMAIN main : main[k].kind # "write"
      BY <1>0, <2>2 DEF ListenerAnswers
    <3>. QED
      BY <1>0, <2>1, <2>2, <2>3, <2>4, <3>1, SnapshotsNewest DEF ListenerAnswers
  <2>. QED
    BY <2>1, <2>5, <2>6 DEF LastWord
<1>2. ASSUME ShowProfile PROVE LastWord'
  <2> DEFINE p == view.doc.profile
  <2>1. /\ main # <<>> /\ Head(main).kind = "show" /\ main' = Tail(main)
        /\ shown' = [names |-> Head(main).profile.update,
                     picture |-> IF Head(main).profile.url THEN Head(main).profile.update
                                 ELSE shown.picture]
        /\ UNCHANGED <<open, upload, listener, view>>
    BY <1>2 DEF ShowProfile
  <2>2. Head(main).profile = p => Shows(shown', p)
    BY <2>1 DEF Shows
  <2>3. open => NewestIsShown(main', p, Shows(shown', p))
    <3>. HIDE DEF p
    <3>1. open => NewestIsShown(main, p, Shows(shown, p))
      BY <1>0 DEF p
    <3>. QED
      BY <1>0, <2>1, <2>2, <3>1, NewestAfterTail
  <2>4. ListenerAnswers(listener', main', p)
    <3>1. /\ DOMAIN Tail(main) = 1..(Len(main) - 1) /\ Len(main) \in Nat
          /\ DOMAIN main = 1..Len(main) /\ Head(main) = main[1]
          /\ \A i \in 1..(Len(main) - 1) : Tail(main)[i] = main[i + 1]
      BY <1>0, <2>1, Dequeued, Queued
    <3>2. ASSUME NEW k \in DOMAIN Tail(main)
          PROVE  k + 1 \in DOMAIN main /\ Tail(main)[k] = main[k + 1]
      BY <3>1
    <3>3. ASSUME NEW k \in DOMAIN main, main[k].kind = "write"
          PROVE  k - 1 \in DOMAIN Tail(main) /\ Tail(main)[k - 1] = main[k]
      <4>1. k # 1
        BY <2>1, <3>1, <3>3
      <4>. QED
        BY <3>1, <4>1
    <3>4. CASE listener = <<>>
      BY <1>0, <2>1, <3>2, <3>4 DEF ListenerAnswers
    <3>5. CASE listener # <<>>
      BY <1>0, <2>1, <3>3, <3>5 DEF ListenerAnswers
    <3>. QED
      BY <3>4, <3>5
  <2>. QED
    BY <1>0, <2>1, <2>3, <2>4 DEF LastWord
<1>3. CASE PressUpdate
  BY <1>3, UndisturbedLast DEF PressUpdate, device
<1>4. ASSUME Uploaded PROVE LastWord'
  <2>1. upload.stage = "uploading" /\ UNCHANGED <<main, open, shown, listener, view>>
    BY <1>4 DEF Uploaded, device
  <2>. QED
    BY <1>0, <2>1, UndisturbedLast
<1>5. ASSUME Linked PROVE LastWord'
  <2> DEFINE p == view.doc.profile
  <2>1. /\ upload.stage = "linking" /\ main' = Append(main, Write)
        /\ listener' # <<>> /\ UNCHANGED <<open, shown, view>>
    BY <1>5 DEF Linked
  <2>2. open
    BY <1>0, <2>1
  <2>3. /\ NewestIsShown(main', p, Shows(shown, p))
        /\ \E k \in DOMAIN main' : main'[k].kind = "write"
    BY <1>0, <2>1, <2>2, NewestAfterWrite
  <2>4. NewestIsShown(main', p, Shows(shown', p))
    BY <2>1, <2>3 DEF Shows, NewestIsShown
  <2>5. ListenerAnswers(listener', main', p)
    BY <2>1, <2>3 DEF ListenerAnswers
  <2>. QED
    BY <2>1, <2>2, <2>4, <2>5 DEF LastWord
<1>6. ASSUME WriteProfile PROVE LastWord'
  <2> DEFINE q == Append(queue, NewWrite(listener[1]))
  <2>1. /\ main # <<>> /\ Head(main).kind = "write"
        /\ Refreshed(cache, q, Tail(main)) /\ UNCHANGED screen
    BY <1>6 DEF WriteProfile
  <2>2. 1 \in DOMAIN main /\ Head(main) = main[1] /\ Tail(main) \in Seq(Task)
    BY <1>0, <2>1, Dequeued
  <2>3. listener # <<>>
    BY <1>0, <2>1, <2>2 DEF ListenerAnswers
  <2>4. NewWrite(listener[1]) \in Mutation
    <3>1. listener[1] \in Profile
      BY <2>3 DEF TypeOK
    <3>. QED
      BY <3>1 DEF NewWrite, Mutation, Stage
  <2>5. q \in Seq(Mutation) /\ q # <<>> /\ q[Len(q)] = NewWrite(listener[1])
    BY <1>0, <2>4, Enqueued
  <2>6. LocalDoc(cache, q).profile = listener[1]
    <3>1. NewWrite(listener[1]).profile = listener[1]
      BY DEF NewWrite
    <3>2. LocalDoc(cache, q).profile = q[Len(q)].profile
      BY <1>0, <2>5, LocalDocIs
    <3>. QED
      BY <2>5, <3>1, <3>2
  <2>. HIDE DEF q
  <2>7. open => NewestIsShown(Tail(main), view.doc.profile, Shows(shown, view.doc.profile))
    BY <1>0, <2>1, NewestAfterTail
  <2>. QED
    BY <1>0, <2>1, <2>2, <2>3, <2>5, <2>6, <2>7, RefreshedLast
<1>7. ASSUME WriteAcknowledged PROVE LastWord'
  <2> DEFINE c == Acknowledged(cache, Head(queue),
                               [cache.doc EXCEPT !.profile = Head(queue).profile])
  <2>1. Head(queue) \in Mutation /\ Tail(queue) \in Seq(Mutation)
    BY <1>0, <1>7, Dequeued DEF WriteAcknowledged
  <2>2. c \in Copy
    <3>1. [cache.doc EXCEPT !.profile = Head(queue).profile] \in UserDoc
      BY <1>0, <2>1 DEF UserDoc, Mutation
    <3>. QED
      BY <1>0, <3>1 DEF Acknowledged, Cached, Copy
  <2>3. Refreshed(c, Tail(queue), main) /\ UNCHANGED screen
    BY <1>7 DEF WriteAcknowledged
  <2>. HIDE DEF c
  <2>. QED
    BY <1>0, <2>1, <2>2, <2>3, RefreshedLast
<1>8. ASSUME WriteRejected PROVE LastWord'
  <2>1. Tail(queue) \in Seq(Mutation)
    BY <1>0, <1>8, Dequeued DEF WriteRejected
  <2>. QED
    BY <1>0, <1>8, <2>1, RefreshedLast DEF WriteRejected
<1>9. ASSUME Watch PROVE LastWord'
  <2>1. Cached(user, FALSE) \in Copy
    BY <1>0 DEF Cached, Copy
  <2>2. WithWatched(queue) \in Seq(Mutation)
    BY <1>0, WatchedWrites DEF SameWrites
  <2>. QED
    BY <1>0, <1>9, <2>1, <2>2, RefreshedLast DEF Watch
<1>10. CASE Restart
  <2>1. ~open' /\ upload'.stage = "none" /\ main' = <<>> /\ listener' = <<>>
    BY <1>10 DEF Restart, NoUpload
  <2>. QED
    BY <2>1 DEF LastWord, ListenerAnswers
<1>11. CASE \/ WriteCommitted \/ OtherFieldChanges \/ OtherDeviceUpdates
            \/ OtherDeviceWrites \/ StreamBreaks \/ UNCHANGED vars
  <2>1. UNCHANGED <<main, open, shown, listener, upload, view>>
    BY <1>11 DEF WriteCommitted, OtherFieldChanges, OtherDeviceUpdates, OtherDeviceWrites,
                 StreamBreaks, vars, device, screen
  <2>. QED
    BY <1>0, <2>1, UndisturbedLast
<1>. QED
  BY <1>1, <1>2, <1>3, <1>4, <1>5, <1>6, <1>7, <1>8, <1>9, <1>10, <1>11 DEF Next

-------------------------------------------------------------------------------
(* Updates are queued and come back in order *)

Number(m) == m.profile.update

\* What is known of every queue of writes.
LEMMA QueueOfWrites ==
  ASSUME NEW q \in Seq(Mutation)
  PROVE  /\ Len(q) \in Nat /\ DOMAIN q = 1..Len(q)
         /\ \A i \in DOMAIN q : /\ i \in Nat /\ i > 0
                                /\ q[i] \in Mutation
                                /\ q[i].profile \in Profile
                                /\ Number(q[i]) \in Nat
<1>1. \A m \in Mutation : m.profile \in Profile /\ Number(m) \in Nat
  BY BoundsAreNaturals DEF Mutation, Profile, Update, Number
<1>2. /\ Len(q) \in Nat /\ DOMAIN q = 1..Len(q)
      /\ \A i \in 1..Len(q) : q[i] \in Mutation
  BY Queued
<1>. QED
  BY <1>1, <1>2

\* The order survives a change of stages, the loss of the head and the
\* arrival of the newest update.
LEMMA OrderStages ==
  ASSUME NEW q, NEW r, SameWrites(r, q), NEW own, QueuedInOrder(q, own)
  PROVE  QueuedInOrder(r, own)
BY DEF SameWrites, QueuedInOrder

LEMMA OrderTail ==
  ASSUME NEW q \in Seq(Mutation), q # <<>>, NEW own, QueuedInOrder(q, own)
  PROVE  QueuedInOrder(Tail(q), own)
<1>1. /\ Len(q) \in Nat /\ DOMAIN q = 1..Len(q)
      /\ DOMAIN Tail(q) = 1..(Len(q) - 1)
      /\ \A i \in 1..(Len(q) - 1) : Tail(q)[i] = q[i + 1]
  BY Dequeued, Queued
<1>2. ASSUME NEW i \in DOMAIN Tail(q)
      PROVE  i + 1 \in DOMAIN q /\ Tail(q)[i] = q[i + 1] /\ i \in Nat
  BY <1>1
<1>3. ASSUME NEW i \in DOMAIN Tail(q), NEW j \in DOMAIN Tail(q), i <= j
      PROVE  Tail(q)[i].profile.update <= Tail(q)[j].profile.update
  <2>1. i + 1 <= j + 1
    BY <1>2, <1>3
  <2>. QED
    BY <1>2, <2>1 DEF QueuedInOrder
<1>. QED
  BY <1>2, <1>3 DEF QueuedInOrder

LEMMA OrderAppend ==
  ASSUME NEW q \in Seq(Mutation), NEW m \in Mutation, NEW own, QueuedInOrder(q, own),
         Number(m) \in own, \A u \in own : u <= Number(m)
  PROVE  QueuedInOrder(Append(q, m), own)
<1> DEFINE r == Append(q, m)
           n == Len(q)
<1>1. /\ n \in Nat /\ DOMAIN q = 1..n /\ DOMAIN r = 1..(n + 1)
      /\ \A i \in 1..n : r[i] = q[i]
      /\ r[n + 1] = m
  BY Queued, Enqueued
<1>. HIDE DEF r, n
<1>2. ASSUME NEW i \in DOMAIN r
      PROVE  (i \in DOMAIN q /\ r[i] = q[i]) \/ (i = n + 1 /\ r[i] = m)
  BY <1>1
<1>3. ASSUME NEW i \in DOMAIN r PROVE r[i].profile.update \in own
  BY <1>2 DEF QueuedInOrder, Number
<1>4. ASSUME NEW i \in DOMAIN r, NEW j \in DOMAIN r, i <= j
      PROVE  r[i].profile.update <= r[j].profile.update
  <2>1. CASE j = n + 1
    BY <1>1, <1>3, <2>1 DEF Number
  <2>2. CASE j # n + 1
    <3>1. j \in DOMAIN q /\ r[j] = q[j] /\ i # n + 1
      BY <1>1, <1>2, <1>4, <2>2
    <3>2. i \in DOMAIN q /\ r[i] = q[i]
      BY <1>2, <3>1
    <3>. QED
      BY <1>4, <3>1, <3>2 DEF QueuedInOrder
  <2>. QED
    BY <2>1, <2>2
<1>5. QueuedInOrder(r, own)
  BY <1>3, <1>4 DEF QueuedInOrder
<1>. QED
  BY <1>5 DEF r

\* A stored update is followed by newer ones only, or will be written again.
Stands(q, p) == NoneOlder(q, p) \/ WillBeBack(q, p)

\* It stands when the head of the queue is answered, accepted or refused.
LEMMA StandsTail ==
  ASSUME NEW q \in Seq(Mutation), q # <<>>, NEW own, QueuedInOrder(q, own),
         NEW p \in Profile, Stands(q, p)
  PROVE  Stands(Tail(q), p)
<1>1. /\ Len(q) \in Nat /\ DOMAIN q = 1..Len(q) /\ 1 \in DOMAIN q
      /\ DOMAIN Tail(q) = 1..(Len(q) - 1)
      /\ \A i \in 1..(Len(q) - 1) : Tail(q)[i] = q[i + 1]
  BY Dequeued, Queued
<1>2. ASSUME NEW i \in DOMAIN Tail(q)
      PROVE  i + 1 \in DOMAIN q /\ Tail(q)[i] = q[i + 1] /\ 1 <= i + 1
  BY <1>1
<1>3. CASE NoneOlder(q, p)
  BY <1>2, <1>3 DEF NoneOlder, Stands
<1>4. CASE WillBeBack(q, p)
  <2>1. PICK k \in DOMAIN q :
          /\ q[k].profile = p
          /\ \/ q[k].stage = "queued"
             \/ \A i \in DOMAIN q : q[i].stage = "queued" => q[i].profile.update >= p.update
    BY <1>4 DEF WillBeBack
  <2>2. CASE k = 1
    <3>1. ASSUME NEW i \in DOMAIN Tail(q) PROVE Tail(q)[i].profile.update >= p.update
      <4>1. q[1].profile.update <= q[i + 1].profile.update
        BY <1>1, <1>2 DEF QueuedInOrder
      <4>2. q[i + 1].profile.update \in Nat /\ p.update \in Nat
        <5>1. Number(q[i + 1]) \in Nat /\ Number(q[1]) \in Nat
          BY <1>1, <1>2, QueueOfWrites
        <5>. QED
          BY <2>1, <2>2, <5>1 DEF Number
      <4>. QED
        BY <1>2, <2>1, <2>2, <4>1, <4>2
    <3>. QED
      BY <3>1 DEF NoneOlder, Stands
  <2>3. CASE k # 1
    <3>1. k - 1 \in DOMAIN Tail(q) /\ Tail(q)[k - 1] = q[k]
      BY <1>1, <2>3
    <3>2. WillBeBack(Tail(q), p)
      <4>1. CASE q[k].stage = "queued"
        BY <2>1, <3>1, <4>1 DEF WillBeBack
      <4>2. CASE \A i \in DOMAIN q : q[i].stage = "queued" => q[i].profile.update >= p.update
        <5>1. \A i \in DOMAIN Tail(q) :
                Tail(q)[i].stage = "queued" => Tail(q)[i].profile.update >= p.update
          BY <1>2, <4>2
        <5>. QED
          BY <2>1, <3>1, <5>1 DEF WillBeBack
      <4>. QED
        BY <2>1, <4>1, <4>2
    <3>. QED
      BY <3>2 DEF Stands
  <2>. QED
    BY <2>2, <2>3
<1>. QED
  BY <1>3, <1>4 DEF Stands

\* It stands when a newer update is queued.
LEMMA StandsAppend ==
  ASSUME NEW q \in Seq(Mutation), NEW m \in Mutation, NEW p, Number(m) >= p.update,
         Stands(q, p)
  PROVE  Stands(Append(q, m), p)
<1> DEFINE r == Append(q, m)
           n == Len(q)
<1>1. /\ n \in Nat /\ DOMAIN q = 1..n /\ DOMAIN r = 1..(n + 1)
      /\ \A i \in 1..n : r[i] = q[i]
      /\ r[n + 1] = m
  BY Queued, Enqueued
<1>. HIDE DEF r, n
<1>2. ASSUME NEW i \in DOMAIN r
      PROVE  (i \in DOMAIN q /\ r[i] = q[i]) \/ r[i] = m
  BY <1>1
<1>3. m.profile.update >= p.update
  BY DEF Number
<1>4. ASSUME NoneOlder(q, p) PROVE Stands(r, p)
  BY <1>2, <1>3, <1>4 DEF NoneOlder, Stands
<1>5. ASSUME WillBeBack(q, p) PROVE Stands(r, p)
  <2>1. PICK k \in DOMAIN q :
          /\ q[k].profile = p
          /\ \/ q[k].stage = "queued"
             \/ \A i \in DOMAIN q : q[i].stage = "queued" => q[i].profile.update >= p.update
    BY <1>5 DEF WillBeBack
  <2>2. k \in DOMAIN r /\ r[k] = q[k]
    BY <1>1
  <2>3. CASE q[k].stage = "queued"
    BY <2>1, <2>2, <2>3 DEF WillBeBack, Stands
  <2>4. CASE \A i \in DOMAIN q : q[i].stage = "queued" => q[i].profile.update >= p.update
    <3>1. \A i \in DOMAIN r : r[i].stage = "queued" => r[i].profile.update >= p.update
      BY <1>2, <1>3, <2>4
    <3>. QED
      BY <2>1, <2>2, <3>1 DEF WillBeBack, Stands
  <2>. QED
    BY <2>1, <2>3, <2>4
<1>6. Stands(r, p)
  BY <1>4, <1>5 DEF Stands
<1>. QED
  BY <1>6 DEF r

\* It stands when writes are sent again, and when none joins those that the
\* server has yet to commit.
LEMMA StandsStages ==
  ASSUME NEW q, NEW r, SameWrites(r, q), NEW p, Stands(q, p),
         \/ \A i \in DOMAIN q : r[i].stage = "queued"
         \/ \A i \in DOMAIN q : r[i].stage = "queued" <=> q[i].stage = "queued"
  PROVE  Stands(r, p)
<1>1. DOMAIN r = DOMAIN q /\ \A i \in DOMAIN q : r[i].profile = q[i].profile
  BY DEF SameWrites
<1>2. CASE NoneOlder(q, p)
  BY <1>1, <1>2 DEF NoneOlder, Stands
<1>3. CASE WillBeBack(q, p)
  <2>1. CASE \A i \in DOMAIN q : r[i].stage = "queued"
    BY <1>1, <1>3, <2>1 DEF WillBeBack, Stands
  <2>2. CASE \A i \in DOMAIN q : r[i].stage = "queued" <=> q[i].stage = "queued"
    <3>1. WillBeBack(r, p)
      BY <1>1, <1>3, <2>2 DEF WillBeBack
    <3>. QED
      BY <3>1 DEF Stands
  <2>. QED
    BY <2>1, <2>2
<1>. QED
  BY <1>2, <1>3 DEF Stands

\* The update that the server commits next stands.
LEMMA CommittedStands ==
  ASSUME NEW q \in Seq(Mutation), NEW own, QueuedInOrder(q, own),
         NEW i \in DOMAIN q, IsNextWrite(q, i)
  PROVE  Stands([q EXCEPT ![i].stage = "committed"], q[i].profile)
<1> DEFINE r == [q EXCEPT ![i].stage = "committed"]
<1>1. /\ SameWrites(r, q) /\ r[i].stage = "committed"
      /\ \A j \in DOMAIN q : j # i => r[j] = q[j]
  BY CommittedWrites
<1>. HIDE DEF r
<1>2. /\ DOMAIN r = DOMAIN q
      /\ \A j \in DOMAIN q : r[j].profile = q[j].profile
      /\ DOMAIN q = 1..Len(q) /\ Len(q) \in Nat
      /\ \A j \in DOMAIN q : Number(q[j]) \in Nat
  BY <1>1, QueueOfWrites DEF SameWrites
<1>3. ASSUME NEW j \in DOMAIN r, r[j].stage = "queued"
      PROVE  r[j].profile.update >= q[i].profile.update
  <2>1. j # i /\ q[j].stage = "queued"
    BY <1>1, <1>2, <1>3
  <2>2. ~(j \in 1..(i - 1))
    BY <2>1 DEF IsNextWrite
  <2>3. i <= j
    BY <1>2, <2>2
  <2>4. q[i].profile.update <= q[j].profile.update
    BY <1>2, <2>3 DEF QueuedInOrder
  <2>5. q[i].profile.update \in Nat /\ q[j].profile.update \in Nat
    BY <1>2 DEF Number
  <2>. QED
    BY <1>2, <2>4, <2>5
<1>4. WillBeBack(r, q[i].profile)
  BY <1>2, <1>3 DEF WillBeBack
<1>. QED
  BY <1>4 DEF r, Stands

-------------------------------------------------------------------------------
(* The order of the updates is kept *)

LEMMA NextInOrder ==
  TypeOK /\ LastWord /\ UpdatesInOrder /\ [Next]_vars => UpdatesInOrder'
<1> SUFFICES ASSUME TypeOK, LastWord, UpdatesInOrder, [Next]_vars PROVE UpdatesInOrder'
  OBVIOUS
<1>0. /\ queue \in Seq(Mutation) /\ main \in Seq(Task)
      /\ updates \in Nat /\ user.profile \in Profile /\ user.profile.update \in Nat
      /\ listener # <<>> => listener[1] \in Profile /\ upload.stage # "none"
      /\ upload.update \in Nat
  BY BoundsAreNaturals DEF TypeOK, UserDoc, Profile, Update
<1>1. /\ ours \subseteq 1..updates
      /\ user.profile.update <= updates
      /\ upload.stage # "none" => upload.update \in ours /\ \A u \in ours : u <= upload.update
      /\ listener # <<>> => listener[1].update = upload.update
      /\ \A p \in rivals : p.update \in (1..updates) \ ours
      /\ QueuedInOrder(queue, ours)
      /\ user.profile.update \in ours => Stands(queue, user.profile)
  BY DEF UpdatesInOrder, Stands
<1>2. ASSUME UNCHANGED <<ours, rivals, updates, upload, listener>>, user'.profile = user.profile,
             QueuedInOrder(queue', ours),
             Stands(queue, user.profile) => Stands(queue', user.profile)
      PROVE  UpdatesInOrder'
  <2>1. user'.profile.update \in ours' => Stands(queue', user'.profile)
    BY <1>1, <1>2
  <2>. QED
    BY <1>1, <1>2, <2>1 DEF UpdatesInOrder, Stands
<1>3. ASSUME UNCHANGED <<user, ours, rivals, updates, upload, listener>>,
             SameWrites(queue', queue),
             \/ \A i \in DOMAIN queue : queue'[i].stage = "queued"
             \/ \A i \in DOMAIN queue : queue'[i].stage = "queued" <=> queue[i].stage = "queued"
      PROVE  UpdatesInOrder'
  <2>1. QueuedInOrder(queue', ours)
    BY <1>1, <1>3, OrderStages
  <2>2. Stands(queue, user.profile) => Stands(queue', user.profile)
    BY <1>3, StandsStages
  <2>. QED
    BY <1>2, <1>3, <2>1, <2>2
<1>4. ASSUME queue # <<>>, queue' = Tail(queue),
             UNCHANGED <<user, ours, rivals, updates, upload, listener>>
      PROVE  UpdatesInOrder'
  <2>1. QueuedInOrder(queue', ours)
    BY <1>0, <1>1, <1>4, OrderTail
  <2>2. Stands(queue, user.profile) => Stands(queue', user.profile)
    BY <1>0, <1>1, <1>4, StandsTail
  <2>. QED
    BY <1>2, <1>4, <2>1, <2>2
<1>5. ASSUME PressUpdate PROVE UpdatesInOrder'
  <2>1. /\ upload = NoUpload /\ updates' = updates + 1
        /\ upload' = [update |-> updates + 1, stage |-> "uploading"]
        /\ ours' = ours \cup {updates + 1}
        /\ UNCHANGED <<user, queue, rivals, listener>>
    BY <1>5 DEF PressUpdate, device
  <2>2. listener' = <<>>
    BY <1>0, <2>1 DEF NoUpload
  <2>3. ours' \subseteq 1..updates' /\ user'.profile.update <= updates'
    BY <1>0, <1>1, <2>1
  <2>4. upload'.update \in ours' /\ \A u \in ours' : u <= upload'.update
    BY <1>0, <1>1, <2>1
  <2>5. QueuedInOrder(queue', ours')
    BY <1>1, <2>1 DEF QueuedInOrder
  <2>6. user'.profile.update \in ours' => Stands(queue', user'.profile)
    BY <1>0, <1>1, <2>1
  <2>7. \A p \in rivals' : p.update \in (1..updates') \ ours'
    BY <1>0, <1>1, <2>1
  <2>. QED
    BY <2>2, <2>3, <2>4, <2>5, <2>6, <2>7 DEF UpdatesInOrder, Stands
<1>6. ASSUME Uploaded PROVE UpdatesInOrder'
  <2>1. upload.stage = "uploading" /\ upload.stage # "none"
    BY <1>6 DEF Uploaded
  <2>2. listener = <<>>
    BY <2>1 DEF TypeOK
  <2>3. upload.update \in ours /\ \A u \in ours : u <= upload.update
    BY <1>1, <2>1
  <2>4. upload'.stage # "none" => upload'.update \in ours' /\ \A u \in ours' : u <= upload'.update
    BY <1>6, <2>3 DEF Uploaded, TypeOK, NoUpload, outside, screen
  <2>. QED
    BY <1>1, <1>6, <2>2, <2>4 DEF UpdatesInOrder, Stands, Uploaded, device, outside
<1>7. ASSUME Linked PROVE UpdatesInOrder'
  <2>1. /\ upload.stage = "linking" /\ upload'.update = upload.update
        /\ UNCHANGED <<user, queue, ours, rivals, updates>>
    BY <1>7 DEF Linked, TypeOK, outside
  <2>2. listener'[1].update = upload'.update
    BY <1>7, <2>1 DEF Linked
  <2>3. upload.update \in ours /\ \A u \in ours : u <= upload.update
    BY <1>1, <2>1
  <2>. QED
    BY <1>1, <2>1, <2>2, <2>3 DEF UpdatesInOrder, Stands
<1>8. ASSUME WriteProfile PROVE UpdatesInOrder'
  <2> DEFINE m == NewWrite(listener[1])
  <2>1. /\ main # <<>> /\ Head(main).kind = "write"
        /\ queue' = Append(queue, m)
        /\ UNCHANGED <<user, ours, rivals, updates, upload, listener>>
    BY <1>8 DEF WriteProfile, Refreshed, screen, outside
  <2>2. listener # <<>>
    <3>1. 1 \in DOMAIN main /\ Head(main) = main[1]
      BY <1>0, <2>1, Dequeued
    <3>. QED
      BY <2>1, <3>1 DEF LastWord, ListenerAnswers
  <2>3. m \in Mutation /\ Number(m) = upload.update
    BY <1>0, <1>1, <2>2 DEF NewWrite, Mutation, Stage, Number
  <2>. HIDE DEF m
  <2>4. Number(m) \in ours /\ \A u \in ours : u <= Number(m)
    BY <1>0, <1>1, <2>2, <2>3
  <2>5. QueuedInOrder(queue', ours)
    BY <1>0, <1>1, <2>1, <2>3, <2>4, OrderAppend
  <2>6. user'.profile.update \in ours' => Stands(queue', user'.profile)
    <3> SUFFICES ASSUME user.profile.update \in ours PROVE Stands(queue', user.profile)
      BY <2>1
    <3>1. Number(m) >= user.profile.update
      BY <1>0, <1>1, <2>3, <2>4
    <3>. QED
      BY <1>0, <1>1, <2>1, <2>3, <3>1, StandsAppend
  <2>. QED
    BY <1>1, <2>1, <2>5, <2>6 DEF UpdatesInOrder, Stands
<1>9. ASSUME WriteCommitted PROVE UpdatesInOrder'
  <2>1. PICK i \in DOMAIN queue :
          /\ IsNextWrite(queue, i)
          /\ user' = [user EXCEPT !.profile = queue[i].profile]
          /\ queue' = [queue EXCEPT ![i].stage = "committed"]
    BY <1>9 DEF WriteCommitted
  <2>2. UNCHANGED <<ours, rivals, updates, upload, listener>>
    BY <1>9 DEF WriteCommitted, screen, outside
  <2>3. user'.profile = queue[i].profile
    BY <2>1 DEF TypeOK, UserDoc
  <2>4. QueuedInOrder(queue', ours)
    <3>1. SameWrites(queue', queue)
      BY <1>0, <2>1, CommittedWrites
    <3>. QED
      BY <1>1, <3>1, OrderStages
  <2>5. Stands(queue', user'.profile)
    BY <1>0, <1>1, <2>1, <2>3, CommittedStands
  <2>6. user'.profile.update <= updates
    <3>1. queue[i].profile.update \in ours
      BY <1>1 DEF QueuedInOrder
    <3>2. queue[i].profile.update \in 1..updates
      BY <1>1, <3>1
    <3>. QED
      BY <1>0, <2>3, <3>2
  <2>. QED
    BY <1>1, <2>2, <2>4, <2>5, <2>6 DEF UpdatesInOrder, Stands
<1>10. CASE WriteAcknowledged
  BY <1>4, <1>10 DEF WriteAcknowledged, Refreshed, screen, outside
<1>11. CASE WriteRejected
  BY <1>4, <1>11 DEF WriteRejected, Refreshed, screen
<1>12. ASSUME Watch PROVE UpdatesInOrder'
  <2>1. queue' = WithWatched(queue) /\ UNCHANGED <<user, ours, rivals, updates, upload, listener>>
    BY <1>12 DEF Watch, Refreshed, screen, outside
  <2>2. /\ SameWrites(queue', queue)
        /\ \A i \in DOMAIN queue : queue'[i].stage = "queued" <=> queue[i].stage = "queued"
    BY <1>0, <2>1, WatchedWrites
  <2>. QED
    BY <1>3, <2>1, <2>2
<1>13. ASSUME OtherFieldChanges PROVE UpdatesInOrder'
  <2>1. /\ user'.profile = user.profile
        /\ UNCHANGED <<queue, ours, rivals, updates, upload, listener>>
    BY <1>13 DEF OtherFieldChanges, device, screen, outside, TypeOK, UserDoc
  <2>. QED
    BY <1>1, <1>2, <2>1
<1>14. ASSUME OtherDeviceUpdates PROVE UpdatesInOrder'
  <2>1. /\ updates' = updates + 1 /\ UNCHANGED <<user, queue, ours, upload, listener>>
        /\ \A p \in rivals' : p \in rivals \/ p.update = updates + 1
    BY <1>14 DEF OtherDeviceUpdates, device, screen
  <2>2. ours' \subseteq 1..updates' /\ user'.profile.update <= updates'
    BY <1>0, <1>1, <2>1
  <2>3. \A p \in rivals' : p.update \in (1..updates') \ ours'
    BY <1>0, <1>1, <2>1
  <2>. QED
    BY <1>1, <2>1, <2>2, <2>3 DEF UpdatesInOrder, Stands
<1>15. ASSUME StreamBreaks PROVE UpdatesInOrder'
  <2>1. queue' = Resent(queue) /\ UNCHANGED <<user, ours, rivals, updates, upload, listener>>
    BY <1>15 DEF StreamBreaks, screen
  <2>2. /\ SameWrites(queue', queue)
        /\ \A i \in DOMAIN queue : queue'[i].stage = "queued"
    BY <1>0, <2>1, ResentWrites
  <2>. QED
    BY <1>3, <2>1, <2>2
<1>16. ASSUME Restart PROVE UpdatesInOrder'
  <2>1. /\ queue' = Resent(queue) /\ UNCHANGED <<user, ours, rivals, updates>>
        /\ upload'.stage = "none" /\ listener' = <<>>
    BY <1>16 DEF Restart, NoUpload
  <2>2. /\ SameWrites(queue', queue)
        /\ \A i \in DOMAIN queue : queue'[i].stage = "queued"
    BY <1>0, <2>1, ResentWrites
  <2>3. QueuedInOrder(queue', ours)
    BY <1>1, <2>2, OrderStages
  <2>4. user'.profile.update \in ours' => Stands(queue', user'.profile)
    BY <1>1, <2>1, <2>2, StandsStages
  <2>. QED
    BY <1>1, <2>1, <2>3, <2>4 DEF UpdatesInOrder, Stands
<1>17. ASSUME OpenProfile \/ ShowProfile \/ UNCHANGED vars PROVE UpdatesInOrder'
  <2>1. UNCHANGED <<user, queue, ours, rivals, updates, upload, listener>>
    BY <1>17 DEF OpenProfile, ShowProfile, vars, outside
  <2>. QED
    BY <1>1, <1>2, <2>1
<1>18. ASSUME OtherDeviceWrites PROVE UpdatesInOrder'
  <2>1. /\ user'.profile \in rivals
        /\ UNCHANGED <<queue, ours, rivals, updates, upload, listener>>
    BY <1>18 DEF OtherDeviceWrites, device, screen, outside, TypeOK, UserDoc
  <2>2. user'.profile.update <= updates' /\ user'.profile.update \notin ours'
    BY <1>0, <1>1, <2>1
  <2>. QED
    BY <1>1, <2>1, <2>2 DEF UpdatesInOrder, Stands
<1>. QED
  BY <1>5, <1>6, <1>7, <1>8, <1>9, <1>10, <1>11, <1>12, <1>13, <1>14, <1>15, <1>16,
     <1>17, <1>18 DEF Next

-------------------------------------------------------------------------------
(* Theorems *)

IInv == TypeOK /\ ViewIsCurrent /\ LastWord /\ UpdatesInOrder

LEMMA InitInvariant == Init => IInv
<1> SUFFICES ASSUME Init PROVE IInv
  OBVIOUS
<1>1. ViewIsCurrent
  BY DEF Init, ViewIsCurrent
<1>2. LastWord
  BY DEF Init, LastWord, ListenerAnswers, NoUpload
<1>3. UpdatesInOrder
  <2>1. user.profile.update = 0 /\ updates = 0 /\ ours = {} /\ rivals = {} /\ queue = <<>>
    BY DEF Init, FirstDoc
  <2>2. QueuedInOrder(queue, ours)
    BY <2>1 DEF QueuedInOrder
  <2>. QED
    BY <2>1, <2>2 DEF Init, UpdatesInOrder, NoUpload
<1>. QED
  BY <1>1, <1>2, <1>3, InitType DEF IInv

LEMMA InvariantHolds == Spec => []IInv
<1>1. IInv /\ [Next]_vars => IInv'
  BY NextTypeOK, NextCurrent, NextLast, NextInOrder DEF IInv
<1>. QED
  BY <1>1, InitInvariant, PTL DEF Spec

\* Every variable keeps its type; no call of the listener comes without one.
THEOREM TypeCorrect == Spec => []TypeOK
BY InvariantHolds, PTL DEF IInv

\* Everything in flight is in order: the view shows the device's document or
\* waits for Watch; the newest snapshot is shown, and answered, last; updates
\* are queued in their order, and none is stored over a newer one for good.
THEOREM InOrder == Spec => []InFlightInOrder
BY InvariantHolds, PTL DEF IInv, InFlightInOrder

\* When nothing is in flight, the stored profile is the one that this
\* process's listener writes.
THEOREM ProfileIsOurs == Spec => []QuietProfileIsOurs
<1>1. IInv => QuietProfileIsOurs
  <2> SUFFICES ASSUME IInv, Idle, listener # <<>> PROVE user.profile = listener[1]
    BY DEF QuietProfileIsOurs
  <2>1. open /\ view.doc.profile = listener[1]
    BY DEF IInv, TypeOK, LastWord, ListenerAnswers, Idle
  <2>2. ~cache.committed /\ cache.doc = user /\ cache \in Copy /\ queue = <<>>
    BY DEF Idle, Cached, IInv, TypeOK, Copy
  <2>3. LocalDoc(cache, queue) = user
    BY <2>2, LocalDocIs, EmptySeq
  <2>4. view.doc = user
    BY <2>1, <2>2, <2>3 DEF IInv, ViewIsCurrent
  <2>. QED
    BY <2>1, <2>4
<1>. QED
  BY <1>1, InvariantHolds, PTL

\* When nothing is in flight, the profile screen shows what is stored.
THEOREM ScreenIsCurrent == Spec => []QuietScreenIsCurrent
<1>1. IInv => QuietScreenIsCurrent
  <2> SUFFICES ASSUME IInv, Idle, open PROVE Shows(shown, user.profile)
    BY DEF QuietScreenIsCurrent, Shows
  <2>1. Shows(shown, view.doc.profile)
    BY DEF IInv, LastWord, NewestIsShown, Idle
  <2>2. ~cache.committed /\ cache.doc = user /\ cache \in Copy /\ queue = <<>>
    BY DEF Idle, Cached, IInv, TypeOK, Copy
  <2>3. LocalDoc(cache, queue) = user
    BY <2>2, LocalDocIs, EmptySeq
  <2>4. view.doc = user
    BY <2>2, <2>3 DEF IInv, ViewIsCurrent
  <2>. QED
    BY <2>1, <2>4
<1>. QED
  BY <1>1, InvariantHolds, PTL

\* An update of this device gives way to an older one of this device only when
\* it waits in the queue to be written again, however often the listeners of
\* other devices write theirs.
THEOREM OlderOnlyForAWhile == Spec => NeverBackForGood
<1> DEFINE Returns == \E i \in DOMAIN queue : /\ queue[i].stage = "queued"
                                             /\ queue[i].profile = user.profile
<1>1. IInv /\ [Next]_vars =>
        (/\ {user.profile.update, user'.profile.update} \subseteq ours
         /\ user'.profile.update < user.profile.update
         => Returns)
  <2> SUFFICES ASSUME IInv, [Next]_vars,
                      {user.profile.update, user'.profile.update} \subseteq ours,
                      user'.profile.update < user.profile.update
               PROVE  Returns
    OBVIOUS
  <2>0. /\ user.profile.update \in Nat /\ updates \in Nat /\ queue \in Seq(Mutation)
        /\ user.profile.update \in ours
    BY BoundsAreNaturals DEF IInv, TypeOK, UserDoc, Profile, Update
  <2>1. CASE WriteCommitted
    <3>1. PICK i \in DOMAIN queue :
            /\ IsNextWrite(queue, i)
            /\ user' = [user EXCEPT !.profile = queue[i].profile]
      BY <2>1 DEF WriteCommitted
    <3>2. user'.profile = queue[i].profile
      BY <3>1 DEF IInv, TypeOK, UserDoc
    <3>3. /\ queue[i].stage = "queued" /\ queue[i].profile.update \in Nat
          /\ ~(queue[i].profile.update >= user.profile.update)
      <4>1. Number(queue[i]) \in Nat
        BY <2>0, QueueOfWrites
      <4>. QED
        BY <2>0, <3>1, <3>2, <4>1 DEF IsNextWrite, Number
    <3>4. WillBeBack(queue, user.profile)
      BY <2>0, <3>3 DEF IInv, UpdatesInOrder, NoneOlder
    <3>. QED
      BY <3>3, <3>4 DEF WillBeBack
  <2>2. CASE OtherDeviceWrites
    <3>1. user'.profile \in rivals
      BY <2>2 DEF OtherDeviceWrites, IInv, TypeOK, UserDoc
    <3>. QED
      BY <3>1 DEF IInv, UpdatesInOrder
  <2>3. ASSUME ~WriteCommitted, ~OtherDeviceWrites PROVE user'.profile = user.profile
    <3>1. CASE OtherFieldChanges
      BY <3>1 DEF OtherFieldChanges, IInv, TypeOK, UserDoc
    <3>. QED
      BY <2>3, <3>1 DEF Next, OpenProfile, ShowProfile, PressUpdate, Uploaded, Linked,
         WriteProfile, WriteAcknowledged, WriteRejected, Watch, OtherDeviceUpdates,
         StreamBreaks, Restart, vars
  <2>4. CASE ~WriteCommitted /\ ~OtherDeviceWrites
    BY <2>0, <2>3, <2>4
  <2>. QED
    BY <2>1, <2>2, <2>4
<1>. QED
  BY <1>1, InvariantHolds, PTL DEF Spec, NeverBackForGood
===============================================================================
