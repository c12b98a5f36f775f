--------------------------- MODULE Onboarding_proofs ---------------------------
(***************************************************************************)
(* Proofs about Onboarding, for every set of accounts and every bound.     *)
(***************************************************************************)
EXTENDS Onboarding, SequenceTheorems, TLAPS

-------------------------------------------------------------------------------
(* Queues *)

\* Taking the head off a queue, or adding to it, stays in the set.
LEMMA QueueOps ==
  ASSUME NEW S, NEW q \in Seq(S)
  PROVE  /\ \A e \in S : Append(q, e) \in Seq(S)
         /\ q # <<>> => Head(q) \in S /\ Tail(q) \in Seq(S)
         /\ \A e \in S : <<e>> \in Seq(S)
         /\ \A d \in S, e \in S : <<d, e>> \in Seq(S)
         /\ <<>> \in Seq(S)
         /\ \A t \in Seq(S) : q \o t \in Seq(S)
<1>1. q # <<>> => Head(q) \in S /\ Tail(q) \in Seq(S)
  BY HeadTailProperties
<1>2. \A t \in Seq(S) : q \o t \in Seq(S)
  BY ConcatProperties
<1>. QED
  BY <1>1, <1>2

\* A sequence of one element is not empty.
LEMMA Singleton ==
  ASSUME NEW S, NEW e \in S
  PROVE  <<e>> \in Seq(S) \ {<<>>}
<1>1. Len(<<e>>) = 1 /\ Len(<<>>) = 0
  OBVIOUS
<1>2. <<e>> # <<>>
  BY <1>1
<1>. QED
  BY <1>2

-------------------------------------------------------------------------------
(* Types *)

\* The tasks the actions dispatch are tasks.
LEMMA TasksTyped ==
  /\ \A u \in User : Credential(u) \in Task
  /\ \A c \in Call, ok \in BOOLEAN : SignedIn(c, ok) \in Task
  /\ \A k \in {"upload", "link", "add"}, f \in Form, ok \in BOOLEAN :
       Answer(k, f, ok) \in Task
BY DEF Credential, SignedIn, Answer, Task

\* What a segue or an alert does to the screens keeps their types.
LEMMA ScreensTyped ==
  ASSUME TypeOK, NEW i, NEW s \in Screen, Segue(i, s) \/ Alert(i)
  PROVE  /\ screens' \in Seq(Screen) \ {<<>>}
         /\ sdkUser' \in SdkUser
         /\ alert' \in BOOLEAN
<1>1. CASE Segue(i, s)
  <2>1. Append(screens, s) \in Seq(Screen) \ {<<>>}
    BY AppendProperties DEF TypeOK
  <2>. QED
    BY <1>1, <2>1 DEF Segue, TypeOK, Started, SdkUser
<1>2. CASE Alert(i)
  BY <1>2 DEF Alert, TypeOK
<1>. QED
  BY <1>1, <1>2

\* So does the completion of a create button.
LEMMA CompletionTyped ==
  ASSUME TypeOK, NEW f, NEW ok \in BOOLEAN, Completion(f, ok)
  PROVE  /\ screens' \in Seq(Screen) \ {<<>>}
         /\ sdkUser' \in SdkUser
         /\ alert' \in BOOLEAN
<1>1. Players \in Screen
  BY DEF Players, Screen
<1>2. Segue(forms[f].screen, Players) \/ Alert(forms[f].screen)
  BY DEF Completion
<1>. QED
  BY <1>1, <1>2, ScreensTyped

\* A form stays one when a caller is told, its stage changes or its document
\* gets its address, or its process is gone.
LEMMA FormTyped ==
  ASSUME NEW r \in FormRecord, NEW st \in Stage, NEW ok \in BOOLEAN,
         NEW u \in User
  PROVE  /\ [r EXCEPT !.stage = st] \in FormRecord
         /\ [r EXCEPT !.told = Append(@, ok), !.stage = st] \in FormRecord
         /\ [r EXCEPT !.told = Append(@, ok)] \in FormRecord
         /\ [r EXCEPT !.email = u, !.linked = ok, !.stage = st] \in FormRecord
         /\ Orphaned(r) \in FormRecord
<1>1. Append(r.told, ok) \in Seq(BOOLEAN)
  BY AppendProperties DEF FormRecord
<1>2. "lost" \in Stage /\ 0 \in ScreenNo \cup {0}
  BY DEF Stage
<1>. QED
  BY <1>1, <1>2 DEF FormRecord, Orphaned

\* The main queue after its first task ran, and the task.
LEMMA MainTyped ==
  ASSUME TypeOK, main # <<>>
  PROVE  Head(main) \in Task /\ Tail(main) \in Seq(Task)
BY HeadTailProperties DEF TypeOK

\* The SDK's user, once started, has a queue; its first write is a form.
LEMMA QueueTyped ==
  ASSUME TypeOK
  PROVE  /\ Started \in User
         /\ Waiting => /\ sdkUser \in User
                       /\ FirstWrite \in Form
                       /\ Tail(queue[sdkUser]) \in Seq(Form)
                       /\ FirstWrite = queue[sdkUser][1]
                       /\ queue[sdkUser] \in Seq(Form) \ {<<>>}
<1>1. Started \in User
  BY DEF TypeOK, Started, SdkUser
<1>2. ASSUME Waiting
      PROVE  /\ sdkUser \in User
             /\ queue[sdkUser] \in Seq(Form) \ {<<>>}
  BY <1>2 DEF Waiting, TypeOK, SdkUser
<1>3. ASSUME Waiting
      PROVE  /\ FirstWrite \in Form
             /\ Tail(queue[sdkUser]) \in Seq(Form)
             /\ FirstWrite = queue[sdkUser][1]
  BY <1>2, <1>3, HeadTailProperties DEF FirstWrite
<1>. QED
  BY <1>1, <1>2, <1>3

\* The history variable stays Boolean.
LEMMA PressedTyped ==
  ASSUME TypeOK, Pressed
  PROVE  hasty' \in BOOLEAN
BY DEF TypeOK, Pressed

\* Appending a screen.
LEMMA ScreenAppended ==
  ASSUME TypeOK, NEW s \in Screen
  PROVE  Append(screens, s) \in Seq(Screen) \ {<<>>}
BY AppendProperties DEF TypeOK

\* What the forms become when one of them changes.
LEMMA FormChanged ==
  ASSUME TypeOK, NEW f, NEW r,
         DOMAIN forms' = DOMAIN forms,
         \A g \in DOMAIN forms : forms'[g] = IF g = f THEN r ELSE forms[g],
         forms' = [g \in DOMAIN forms' |-> forms'[g]],
         f \in DOMAIN forms => r \in FormRecord
  PROVE  forms' \in Seq(FormRecord) /\ Len(forms') = Len(forms)
<1>1. /\ Len(forms) \in Nat /\ DOMAIN forms = 1..Len(forms)
      /\ \A g \in DOMAIN forms : forms[g] \in FormRecord
  BY LenProperties, ElementOfSeq DEF TypeOK
<1>2. \A g \in DOMAIN forms : forms'[g] \in FormRecord
  BY <1>1
<1>3. forms' \in [1..Len(forms) -> FormRecord]
  BY <1>1, <1>2
<1>4. forms' \in Seq(FormRecord)
  BY <1>1, <1>3, SeqDef
<1>. QED
  BY <1>1, <1>3, <1>4, LenProperties

\* Every step keeps the types.
LEMMA TypeStep ==
  ASSUME TypeOK, [Next]_vars
  PROVE  TypeOK'
<1>. USE BoundsAreNaturals
<1>1. ASSUME NEW kind \in {"login", "signup"}, NEW a \in Account, PressSignIn(kind, a)
      PROVE  TypeOK'
  <2>1. Len(screens) \in ScreenNo
    BY EmptySeq DEF TypeOK, ScreenNo
  <2>2. presses + 1 \in 1..MaxPresses
    BY <1>1 DEF TypeOK, PressSignIn
  <2>3. [kind |-> kind, account |-> a, screen |-> Len(screens), n |-> presses + 1]
          \in Call
    BY <2>1, <2>2 DEF Call
  <2>4. calls' \subseteq Call /\ presses' \in 0..MaxPresses
    BY <1>1, <2>2, <2>3 DEF TypeOK, PressSignIn
  <2>5. hasty' \in BOOLEAN
    BY <1>1, PressedTyped DEF PressSignIn
  <2>. QED
    BY <1>1, <2>4, <2>5 DEF TypeOK, PressSignIn, ui, sdk
<1>2. ASSUME NEW c \in calls, SignInAnswered(c)
      PROVE  TypeOK'
  <2>1. c \in Call /\ c.account \in Account
    BY DEF TypeOK, Call
  <2>2. /\ Credential(c.account) \in Task
        /\ \A ok \in BOOLEAN : SignedIn(c, ok) \in Task
    BY <2>1, TasksTyped DEF User
  <2>3. /\ main \o <<Credential(c.account), SignedIn(c, TRUE)>> \in Seq(Task)
        /\ Append(main, SignedIn(c, FALSE)) \in Seq(Task)
    BY <2>2, QueueOps DEF TypeOK
  <2>4. accounts' \subseteq Account /\ user' \in User
    BY <1>2, <2>1 DEF SignInAnswered, TypeOK, User
  <2>5. main' \in Seq(Task)
    BY <1>2, <2>3 DEF SignInAnswered
  <2>6. lost' \in 0..MaxLost
    <3>1. lost' = lost \/ (lost < MaxLost /\ lost' = lost + 1)
      BY <1>2 DEF SignInAnswered
    <3>. QED
      BY <3>1 DEF TypeOK
  <2>. QED
    BY <1>2, <2>4, <2>5, <2>6 DEF SignInAnswered, TypeOK, ui, sdk
<1>3. ASSUME CredentialChange
      PROVE  TypeOK'
  <2>1. sdkUser' \in SdkUser /\ main' \in Seq(Task)
    BY <1>3, MainTyped DEF CredentialChange, Task, SdkUser
  <2>. QED
    BY <1>3, <2>1 DEF CredentialChange, TypeOK, session, ui, counters
<1>4. ASSUME SignInCompleted
      PROVE  TypeOK'
  <2>1. main # <<>> /\ Head(main) \in Task /\ Head(main).kind = "signedIn"
    BY <1>4, MainTyped DEF SignInCompleted
  <2>2. Head(main).call.account \in Account
    BY <2>1 DEF Task, Call
  <2>3. Players \in Screen /\ Create(Head(main).call.account) \in Screen
    BY <2>2 DEF Players, Create, Screen
  <2>4. \E s \in Screen : Segue(Head(main).call.screen, s) \/ Alert(Head(main).call.screen)
    BY <1>4, <2>3 DEF SignInCompleted
  <2>5. /\ screens' \in Seq(Screen) \ {<<>>}
        /\ sdkUser' \in SdkUser
        /\ alert' \in BOOLEAN
    BY <2>4, ScreensTyped
  <2>6. main' \in Seq(Task)
    BY <1>4, MainTyped DEF SignInCompleted
  <2>. QED
    BY <1>4, <2>5, <2>6 DEF SignInCompleted, TypeOK, session, counters
<1>5. ASSUME SignOut
      PROVE  TypeOK'
  <2>1. NoOne \in User /\ Credential(NoOne) \in Task /\ Login \in Screen
    BY TasksTyped DEF User, Login, Screen
  <2>2. main' \in Seq(Task)
    BY <1>5, <2>1, QueueOps DEF SignOut, TypeOK
  <2>3. screens' \in Seq(Screen) \ {<<>>}
    BY <1>5, <2>1, ScreenAppended DEF SignOut
  <2>4. presses' \in 0..MaxPresses
    BY <1>5 DEF SignOut, TypeOK
  <2>5. hasty' \in BOOLEAN
    BY <1>5, PressedTyped DEF SignOut
  <2>. QED
    BY <1>5, <2>1, <2>2, <2>3, <2>4, <2>5 DEF SignOut, TypeOK, sdk
<1>6. ASSUME DismissAlert
      PROVE  TypeOK'
  BY <1>6 DEF DismissAlert, TypeOK, session, sdk, counters
<1>7. ASSUME PressCreate
      PROVE  TypeOK'
  <2>1. Front \in Screen /\ Len(screens) \in ScreenNo
    BY EmptySeq, ElementOfSeq DEF TypeOK, ScreenNo, Front
  <2>2. Front.account \in Account
    BY <1>7, <2>1 DEF PressCreate, Screen
  <2>3. [screen |-> Len(screens), author |-> Front.account, email |-> NoOne,
         linked |-> FALSE, stage |-> "uploading", told |-> <<>>] \in FormRecord
    BY <2>1, <2>2 DEF FormRecord, User, Stage
  <2>4. forms' \in Seq(FormRecord) /\ Len(forms') \leq MaxForms
    BY <1>7, <2>3, AppendProperties DEF PressCreate, TypeOK
  <2>5. hasty' \in BOOLEAN
    BY <1>7, PressedTyped DEF PressCreate
  <2>. QED
    BY <1>7, <2>4, <2>5 DEF PressCreate, TypeOK, session, ui, sdk
<1>8. ASSUME NEW f \in DOMAIN forms, StorageAnswers(f)
      PROVE  TypeOK'
  <2>1. f \in Form
    BY DEF TypeOK, Form
  <2>2. main' \in Seq(Task)
    BY <1>8, <2>1, TasksTyped, QueueOps DEF StorageAnswers, TypeOK
  <2>3. forms[f] \in FormRecord
    BY ElementOfSeq DEF TypeOK
  <2>4. [forms[f] EXCEPT !.stage = "answered"] \in FormRecord
    BY <2>3 DEF FormRecord, Stage
  <2>5. forms' \in Seq(FormRecord) /\ Len(forms') = Len(forms)
    BY <1>8, <2>4, ExceptSeq DEF StorageAnswers, TypeOK
  <2>. QED
    BY <1>8, <2>2, <2>5 DEF StorageAnswers, TypeOK, session, ui, sdk, counters
<1>9. ASSUME Uploaded
      PROVE  TypeOK'
  <2>1. /\ main # <<>> /\ Head(main) \in Task /\ main' = Tail(main)
        /\ Head(main).kind = "upload"
    BY <1>9, MainTyped DEF Uploaded
  <2>2. Head(main).ok \in BOOLEAN /\ Head(main).form \in Form
    BY <2>1 DEF Task
  <2>3. /\ screens' \in Seq(Screen) \ {<<>>}
        /\ sdkUser' \in SdkUser
        /\ alert' \in BOOLEAN
    BY <1>9, <2>2, CompletionTyped DEF Uploaded
  <2> DEFINE f == Head(main).form
             ok == Head(main).ok
             r == [forms[f] EXCEPT !.told = Append(@, ok),
                                   !.stage = IF ok THEN "linking" ELSE "failed"]
  <2>4. f \in DOMAIN forms => r \in FormRecord
    <3>1. f \in DOMAIN forms => forms[f] \in FormRecord
      BY ElementOfSeq, LenProperties DEF TypeOK
    <3>2. (IF ok THEN "linking" ELSE "failed") \in Stage /\ NoOne \in User
      BY DEF Stage, User
    <3>. QED
      BY <2>2, <3>1, <3>2, FormTyped
  <2>5. /\ DOMAIN forms' = DOMAIN forms
        /\ forms' = [g \in DOMAIN forms' |-> forms'[g]]
        /\ \A g \in DOMAIN forms : forms'[g] = IF g = f THEN r ELSE forms[g]
    BY <1>9 DEF Uploaded
  <2>6. forms' \in Seq(FormRecord) /\ Len(forms') = Len(forms)
    <3>. HIDE DEF r
    <3>. QED
      BY <2>4, <2>5, FormChanged
  <2>. QED
    BY <1>9, <2>1, <2>3, <2>6, MainTyped DEF Uploaded, TypeOK, session, counters
<1>10. ASSUME DocumentAdded
       PROVE  TypeOK'
  <2>1. /\ main # <<>> /\ Head(main) \in Task /\ main' \in Seq(Task)
        /\ Head(main).kind = "link"
    BY <1>10, MainTyped DEF DocumentAdded
  <2>2. Head(main).ok \in BOOLEAN /\ Head(main).form \in Form /\ user \in User
    BY <2>1 DEF Task, TypeOK
  <2>3. sdkUser' \in SdkUser /\ queue' \in [User -> Seq(Form)]
    <3>1. Started \in User /\ Append(queue[Started], Head(main).form) \in Seq(Form)
      BY <2>2, QueueTyped, AppendProperties DEF TypeOK
    <3>. QED
      BY <1>10, <3>1 DEF DocumentAdded, TypeOK, SdkUser
  <2> DEFINE f == Head(main).form
             ok == Head(main).ok
             r == [forms[f] EXCEPT !.email = user, !.linked = ok, !.stage = "written"]
  <2>4. f \in DOMAIN forms => r \in FormRecord
    <3>1. f \in DOMAIN forms => forms[f] \in FormRecord
      BY ElementOfSeq, LenProperties DEF TypeOK
    <3>2. "written" \in Stage
      BY DEF Stage
    <3>. QED
      BY <2>2, <3>1, <3>2, FormTyped
  <2>5. /\ DOMAIN forms' = DOMAIN forms
        /\ forms' = [g \in DOMAIN forms' |-> forms'[g]]
        /\ \A g \in DOMAIN forms : forms'[g] = IF g = f THEN r ELSE forms[g]
    BY <1>10 DEF DocumentAdded
  <2>6. forms' \in Seq(FormRecord) /\ Len(forms') = Len(forms)
    <3>. HIDE DEF r
    <3>. QED
      BY <2>4, <2>5, FormChanged
  <2>. QED
    BY <1>10, <2>1, <2>3, <2>6 DEF DocumentAdded, TypeOK, session, ui, counters
<1>11. ASSUME DocumentStored
       PROVE  TypeOK'
  BY <1>11, QueueTyped DEF DocumentStored, TypeOK, session, ui, counters
<1>12. ASSUME DocumentAcknowledged
       PROVE  TypeOK'
  <2>1. Waiting /\ FirstWrite \in Form /\ Tail(queue[sdkUser]) \in Seq(Form)
    BY <1>12, QueueTyped DEF DocumentAcknowledged
  <2>2. queue' \in [User -> Seq(Form)]
    BY <1>12, <2>1 DEF DocumentAcknowledged, TypeOK
  <2>3. main' \in Seq(Task)
    BY <1>12, <2>1, TasksTyped, QueueOps DEF DocumentAcknowledged, TypeOK, CompletionOf
  <2>. QED
    BY <1>12, <2>2, <2>3 DEF DocumentAcknowledged, TypeOK, session, ui, counters
<1>13. ASSUME DocumentRefused
       PROVE  TypeOK'
  <2>1. Waiting /\ FirstWrite \in Form /\ Tail(queue[sdkUser]) \in Seq(Form)
    BY <1>13, QueueTyped DEF DocumentRefused
  <2>2. queue' \in [User -> Seq(Form)]
    BY <1>13, <2>1 DEF DocumentRefused, TypeOK
  <2>3. main' \in Seq(Task)
    BY <1>13, <2>1, TasksTyped, QueueOps DEF DocumentRefused, TypeOK, CompletionOf
  <2> DEFINE f == FirstWrite
             r == [forms[f] EXCEPT !.stage = "refused"]
  <2>4. f \in DOMAIN forms => r \in FormRecord
    <3>1. f \in DOMAIN forms => forms[f] \in FormRecord
      BY ElementOfSeq, LenProperties DEF TypeOK
    <3>2. "refused" \in Stage /\ NoOne \in User
      BY DEF Stage, User
    <3>. QED
      BY <3>1, <3>2, FormTyped
  <2>5. /\ DOMAIN forms' = DOMAIN forms
        /\ forms' = [g \in DOMAIN forms' |-> forms'[g]]
        /\ \A g \in DOMAIN forms : forms'[g] = IF g = f THEN r ELSE forms[g]
    BY <1>13 DEF DocumentRefused
  <2>6. forms' \in Seq(FormRecord) /\ Len(forms') = Len(forms)
    <3>. HIDE DEF r, f
    <3>. QED
      BY <2>4, <2>5, FormChanged
  <2>7. refusals' \in 0..MaxRefusals
    BY <1>13 DEF DocumentRefused, TypeOK
  <2>. QED
    BY <1>13, <2>2, <2>3, <2>6, <2>7 DEF DocumentRefused, TypeOK, session, ui
<1>14. ASSUME Added
       PROVE  TypeOK'
  <2>1. /\ main # <<>> /\ Head(main) \in Task /\ main' \in Seq(Task)
        /\ Head(main).kind = "add"
    BY <1>14, MainTyped DEF Added
  <2>2. Head(main).ok \in BOOLEAN /\ Head(main).form \in Form
    BY <2>1 DEF Task
  <2>3. /\ screens' \in Seq(Screen) \ {<<>>}
        /\ sdkUser' \in SdkUser
        /\ alert' \in BOOLEAN
    BY <1>14, <2>2, CompletionTyped DEF Added
  <2> DEFINE f == Head(main).form
             ok == Head(main).ok
             r == [forms[f] EXCEPT !.told = Append(@, ok)]
  <2>4. f \in DOMAIN forms => r \in FormRecord
    <3>1. f \in DOMAIN forms => forms[f] \in FormRecord
      BY ElementOfSeq, LenProperties DEF TypeOK
    <3>2. "written" \in Stage /\ NoOne \in User
      BY DEF Stage, User
    <3>. QED
      BY <2>2, <3>1, <3>2, FormTyped
  <2>5. /\ DOMAIN forms' = DOMAIN forms
        /\ forms' = [g \in DOMAIN forms' |-> forms'[g]]
        /\ \A g \in DOMAIN forms : forms'[g] = IF g = f THEN r ELSE forms[g]
    BY <1>14 DEF Added
  <2>6. forms' \in Seq(FormRecord) /\ Len(forms') = Len(forms)
    <3>. HIDE DEF r
    <3>. QED
      BY <2>4, <2>5, FormChanged
  <2>. QED
    BY <1>14, <2>1, <2>3, <2>6 DEF Added, TypeOK, session, counters
<1>15. ASSUME Restart
       PROVE  TypeOK'
  <2>1. accounts' \subseteq Account
    BY <1>15 DEF Restart, TypeOK, Call
  <2>2. /\ screens' \in Seq(Screen) \ {<<>>}
        /\ sdkUser' \in SdkUser /\ alert' \in BOOLEAN
        /\ main' \in Seq(Task) /\ calls' \subseteq Call
    <3>0. Launched(user)
      BY <1>15 DEF Restart
    <3>1. Login \in Screen /\ Players \in Screen
      BY DEF Login, Players, Screen
    <3>2. screens' \in Seq(Screen) \ {<<>>}
      <4>1. screens' = <<Login>> \/ screens' = <<Players>>
        BY <3>0 DEF Launched
      <4>. QED
        BY <3>1, <4>1, Singleton
    <3>3. sdkUser' \in SdkUser
      BY <3>0 DEF Launched, TypeOK, SdkUser
    <3>. QED
      BY <3>0, <3>2, <3>3, EmptySeq DEF Launched
  <2>3. /\ Len(forms) \in Nat /\ DOMAIN forms = 1..Len(forms)
        /\ \A g \in DOMAIN forms : forms[g] \in FormRecord
    BY LenProperties, ElementOfSeq DEF TypeOK
  <2>4. \A g \in DOMAIN forms : Orphaned(forms[g]) \in FormRecord
    <3>1. "lost" \in Stage /\ NoOne \in User
      BY DEF Stage, User
    <3>. QED
      BY <2>3, <3>1, FormTyped
  <2>5. forms' \in [1..Len(forms) -> FormRecord]
    BY <1>15, <2>3, <2>4 DEF Restart
  <2>6. forms' \in Seq(FormRecord) /\ Len(forms') = Len(forms)
    BY <2>3, <2>5, SeqDef, LenProperties
  <2>7. kills' \in 0..MaxKills
    BY <1>15 DEF Restart, TypeOK
  <2>. QED
    BY <1>15, <2>1, <2>2, <2>6, <2>7 DEF Restart, TypeOK
<1>16. CASE UNCHANGED vars
  BY <1>16 DEF vars, TypeOK
<1>. QED
  BY <1>1, <1>2, <1>3, <1>4, <1>5, <1>6, <1>7, <1>8, <1>9, <1>10, <1>11, <1>12,
     <1>13, <1>14, <1>15, <1>16 DEF Next

\* The types hold at first.
LEMMA TypeInit == Init => TypeOK
<1>1. NoOne \in User /\ Login \in Screen
  BY DEF User, Login, Screen
<1>2. <<Login>> \in Seq(Screen) \ {<<>>}
  BY <1>1, Singleton
<1>3. Init => /\ forms \in Seq(FormRecord) /\ Len(forms) \leq MaxForms
              /\ main \in Seq(Task) /\ queue \in [User -> Seq(Form)]
  BY EmptySeq, BoundsAreNaturals DEF Init
<1>4. Init => /\ presses \in 0..MaxPresses /\ lost \in 0..MaxLost
              /\ refusals \in 0..MaxRefusals /\ kills \in 0..MaxKills
  BY BoundsAreNaturals DEF Init
<1>. QED
  BY <1>1, <1>2, <1>3, <1>4 DEF Init, TypeOK, SdkUser

\* Every variable keeps its type.
THEOREM TypeCorrect == Spec => []TypeOK
<1>1. Init => TypeOK
  BY TypeInit
<1>2. TypeOK /\ [Next]_vars => TypeOK'
  BY TypeStep
<1>. QED
  BY <1>1, <1>2, PTL DEF Spec

-------------------------------------------------------------------------------
(* The SDK follows the session *)

\* The last change of user among the tasks m is to user u; if there is none,
\* the SDK's user s is u, or the SDK has not started.
FollowedBy(m, u, s) ==
  /\ \A i \in DOMAIN m :
       /\ m[i].kind = "credential"
       /\ \A j \in DOMAIN m : j > i => m[j].kind # "credential"
       => m[i].user = u
  /\ (\A i \in DOMAIN m : m[i].kind # "credential") => s \in {NotStarted, u}

Followed == FollowedBy(main, user, sdkUser)

\* Another task comes.
LEMMA FollowedPushed ==
  ASSUME NEW m \in Seq(Task), NEW t \in Task, NEW u, NEW s,
         FollowedBy(m, u, s), t.kind # "credential"
  PROVE  FollowedBy(Append(m, t), u, s)
<1> DEFINE n == Append(m, t)
<1>1. /\ Len(m) \in Nat /\ DOMAIN m = 1..Len(m) /\ DOMAIN n = 1..(Len(m) + 1)
      /\ \A i \in DOMAIN m : n[i] = m[i]
      /\ n[Len(m) + 1].kind # "credential"
  BY AppendProperties, LenProperties
<1>2. \A i \in DOMAIN m : i \in DOMAIN n
  BY <1>1
<1>3. \A i \in DOMAIN n : n[i].kind = "credential" => i \in DOMAIN m /\ n[i] = m[i]
  BY <1>1
<1>. HIDE DEF n
<1>4. ASSUME NEW i \in DOMAIN n, n[i].kind = "credential",
             \A j \in DOMAIN n : j > i => n[j].kind # "credential"
      PROVE  n[i].user = u
  <2>1. i \in DOMAIN m /\ n[i] = m[i]
    BY <1>3, <1>4
  <2>2. \A j \in DOMAIN m : j > i => m[j].kind # "credential"
    BY <1>1, <1>2, <1>4
  <2>. QED
    BY <1>4, <2>1, <2>2 DEF FollowedBy
<1>5. ASSUME \A i \in DOMAIN n : n[i].kind # "credential"
      PROVE  s \in {NotStarted, u}
  <2>1. \A i \in DOMAIN m : m[i].kind # "credential"
    BY <1>1, <1>2, <1>5
  <2>. QED
    BY <2>1 DEF FollowedBy
<1>6. FollowedBy(n, u, s)
  BY <1>4, <1>5 DEF FollowedBy
<1>. QED
  BY <1>6 DEF n

\* A change of user comes, the last one now.
LEMMA CredentialPushed ==
  ASSUME NEW m \in Seq(Task), NEW u \in User, NEW s
  PROVE  FollowedBy(Append(m, Credential(u)), u, s)
<1> DEFINE n == Append(m, Credential(u))
<1>1. /\ Len(m) \in Nat /\ DOMAIN n = 1..(Len(m) + 1)
      /\ n[Len(m) + 1] = Credential(u)
  BY AppendProperties, LenProperties, TasksTyped
<1>2. n[Len(m) + 1].kind = "credential" /\ n[Len(m) + 1].user = u
  BY <1>1 DEF Credential
<1>. HIDE DEF n
<1>3. \A i \in DOMAIN n : i = Len(m) + 1 \/ Len(m) + 1 > i
  BY <1>1
<1>4. FollowedBy(n, u, s)
  BY <1>1, <1>2, <1>3 DEF FollowedBy
<1>. QED
  BY <1>4 DEF n

\* The first task goes; a change of user reaches the SDK, if it has started.
LEMMA FollowedPopped ==
  ASSUME NEW m \in Seq(Task), m # <<>>, NEW u, NEW s, FollowedBy(m, u, s)
  PROVE  FollowedBy(Tail(m), u,
           IF Head(m).kind # "credential" THEN s
           ELSE IF s = NotStarted THEN NotStarted ELSE Head(m).user)
<1> DEFINE n == Tail(m)
           r == IF Head(m).kind # "credential" THEN s
                ELSE IF s = NotStarted THEN NotStarted ELSE Head(m).user
<1>1. /\ Len(m) \in Nat \ {0} /\ DOMAIN m = 1..Len(m)
      /\ Head(m) = m[1] /\ DOMAIN n = 1..(Len(m) - 1)
      /\ \A i \in DOMAIN n : n[i] = m[i + 1]
  BY HeadTailProperties, LenProperties, EmptySeq
<1>2. 1 \in DOMAIN m /\ DOMAIN n \subseteq Int /\ DOMAIN m \subseteq Int
  BY <1>1
<1>3. \A i \in DOMAIN n : i + 1 \in DOMAIN m
  BY <1>1
<1>. HIDE DEF n
<1>4. \A j \in DOMAIN m : j = 1 \/ (j - 1 \in DOMAIN n /\ n[j - 1] = m[j])
  BY <1>1
<1>5. ASSUME NEW i \in DOMAIN n, n[i].kind = "credential",
             \A j \in DOMAIN n : j > i => n[j].kind # "credential"
      PROVE  n[i].user = u
  <2>1. i + 1 \in DOMAIN m /\ m[i + 1] = n[i] /\ i \in Int /\ i > 0
    BY <1>1, <1>3
  <2>2. ASSUME NEW j \in DOMAIN m, j > i + 1
        PROVE  m[j].kind # "credential"
    <3>1. j \in Int /\ j # 1 /\ j - 1 > i
      BY <1>2, <2>1, <2>2
    <3>2. j - 1 \in DOMAIN n /\ n[j - 1] = m[j]
      BY <1>4, <3>1
    <3>. QED
      BY <1>5, <3>1, <3>2
  <2>3. m[i + 1].user = u
    BY <1>5, <2>1, <2>2 DEF FollowedBy
  <2>. QED
    BY <2>1, <2>3
<1>6. ASSUME \A i \in DOMAIN n : n[i].kind # "credential"
      PROVE  r \in {NotStarted, u}
  <2>1. \A j \in DOMAIN m : j > 1 => m[j].kind # "credential"
    BY <1>2, <1>4, <1>6
  <2>2. CASE Head(m).kind = "credential"
    <3>1. Head(m).user = u
      BY <1>1, <1>2, <2>1, <2>2 DEF FollowedBy
    <3>. QED
      BY <2>2, <3>1
  <2>3. CASE Head(m).kind # "credential"
    <3>1. \A j \in DOMAIN m : m[j].kind # "credential"
      BY <1>1, <1>4, <2>1, <2>3, <1>6
    <3>. QED
      BY <2>3, <3>1 DEF FollowedBy
  <2>. QED
    BY <2>2, <2>3
<1>. HIDE DEF r
<1>7. FollowedBy(n, u, r)
  BY <1>5, <1>6 DEF FollowedBy
<1>. QED
  BY <1>7 DEF n, r

\* The SDK starts with Auth's user.
LEMMA FollowedStarted ==
  ASSUME NEW m, FollowedBy(m, user, sdkUser), NEW s, s \in {sdkUser, Started}
  PROVE  FollowedBy(m, user, s)
BY DEF FollowedBy, Started

\* So do a screen's segue and alert leave it, whatever the tasks.
LEMMA FollowedScreens ==
  ASSUME NEW m, FollowedBy(m, user, sdkUser), NEW i, NEW scr,
         Segue(i, scr) \/ Alert(i)
  PROVE  FollowedBy(m, user, sdkUser')
<1>1. sdkUser' \in {sdkUser, Started}
  BY DEF Segue, Alert
<1>. QED
  BY <1>1, FollowedStarted

\* The first task goes and is no change of user; the SDK may start.
LEMMA FollowedTask ==
  ASSUME TypeOK, Followed, main # <<>>, Head(main).kind # "credential",
         main' = Tail(main), user' = user, sdkUser' \in {sdkUser, Started}
  PROVE  Followed'
<1>1. FollowedBy(Tail(main), user, sdkUser)
  BY FollowedPopped DEF Followed, TypeOK
<1>. QED
  BY <1>1, FollowedStarted DEF Followed

\* The completion of a document's write, if any, comes.
LEMMA FollowedCompletion ==
  ASSUME TypeOK, Followed, NEW f \in Form, NEW ok \in BOOLEAN,
         main' = main \o CompletionOf(f, ok), UNCHANGED <<user, sdkUser>>
  PROVE  Followed'
<1>. DEFINE t == Answer("add", f, ok)
<1>1. t \in Task /\ t.kind # "credential" /\ main \in Seq(Task)
  BY TasksTyped DEF Answer, TypeOK
<1>2. main' = main \/ main' = Append(main, t)
  <2>1. main \o <<>> = main /\ main \o <<t>> = Append(main, t)
    BY <1>1, ConcatEmptySeq, AppendIsConcat
  <2>. QED
    BY <2>1 DEF CompletionOf
<1>3. FollowedBy(Append(main, t), user, sdkUser)
  BY <1>1, FollowedPushed DEF Followed
<1>. QED
  BY <1>2, <1>3 DEF Followed

\* Every step keeps it, whichever way the user and the tasks change.
LEMMA FollowedStep ==
  ASSUME TypeOK, Followed, [Next]_vars
  PROVE  Followed'
<1>0. main \in Seq(Task)
  BY DEF TypeOK
<1>1. ASSUME NEW kind \in {"login", "signup"}, NEW a \in Account, PressSignIn(kind, a)
      PROVE  Followed'
  BY <1>1 DEF Followed, PressSignIn, sdk
<1>2. ASSUME NEW c \in calls, SignInAnswered(c)
      PROVE  Followed'
  <2>1. c \in Call /\ c.account \in User
    BY DEF TypeOK, Call, User
  <2>2. \A ok \in BOOLEAN : SignedIn(c, ok) \in Task /\ SignedIn(c, ok).kind # "credential"
    BY <2>1, TasksTyped DEF SignedIn
  <2>3. sdkUser' = sdkUser
    BY <1>2 DEF SignInAnswered, sdk
  <2>4. CASE user' = user /\ main' = Append(main, SignedIn(c, FALSE))
    BY <1>0, <2>2, <2>3, <2>4, FollowedPushed DEF Followed
  <2>5. CASE /\ user' = c.account
             /\ main' = main \o <<Credential(c.account), SignedIn(c, TRUE)>>
    <3>1. /\ Credential(c.account) \in Task
          /\ Append(main, Credential(c.account)) \in Seq(Task)
      BY <1>0, <2>1, TasksTyped, QueueOps
    <3>2. main' = Append(Append(main, Credential(c.account)), SignedIn(c, TRUE))
      <4> DEFINE d == Credential(c.account)
                 e == SignedIn(c, TRUE)
      <4>1. d \in Task /\ e \in Task /\ main' = main \o <<d, e>>
        BY <2>2, <2>5, <3>1
      <4>. HIDE DEF d, e
      <4>2. main \o <<d, e>> = Append(Append(main, d), e)
        BY <1>0, <4>1
      <4>. QED
        BY <4>1, <4>2 DEF d, e
    <3>3. FollowedBy(Append(main, Credential(c.account)), c.account, sdkUser)
      BY <1>0, <2>1, CredentialPushed
    <3>4. FollowedBy(main', c.account, sdkUser)
      BY <2>2, <3>1, <3>2, <3>3, FollowedPushed
    <3>. QED
      BY <2>3, <2>5, <3>4 DEF Followed
  <2>. QED
    BY <1>2, <2>4, <2>5 DEF SignInAnswered
<1>3. ASSUME CredentialChange
      PROVE  Followed'
  <2>1. /\ main # <<>> /\ Head(main).kind = "credential" /\ main' = Tail(main)
        /\ sdkUser' = IF sdkUser = NotStarted THEN NotStarted ELSE Head(main).user
        /\ user' = user
    BY <1>3 DEF CredentialChange, session
  <2>. QED
    BY <1>0, <2>1, FollowedPopped DEF Followed
<1>4. ASSUME SignInCompleted
      PROVE  Followed'
  BY <1>4, FollowedTask DEF SignInCompleted, Segue, Alert, session
<1>5. ASSUME SignOut
      PROVE  Followed'
  <2>1. user' = NoOne /\ sdkUser' = sdkUser /\ NoOne \in User
    BY <1>5 DEF SignOut, sdk, User
  <2>2. CASE user = NoOne
    BY <1>5, <2>1, <2>2 DEF SignOut, Followed
  <2>3. CASE user # NoOne
    BY <1>0, <1>5, <2>1, <2>3, CredentialPushed DEF SignOut, Followed
  <2>. QED
    BY <2>2, <2>3
<1>6. ASSUME DismissAlert \/ DocumentStored \/ UNCHANGED vars
      PROVE  Followed'
  BY <1>6 DEF DismissAlert, DocumentStored, vars, session, sdk, Followed
<1>7. ASSUME PressCreate
      PROVE  Followed'
  BY <1>7 DEF PressCreate, session, sdk, Followed
<1>8. ASSUME NEW f \in DOMAIN forms, StorageAnswers(f)
      PROVE  Followed'
  <2>1. PICK kind \in {"upload", "link"}, ok \in BOOLEAN :
          main' = Append(main, Answer(kind, f, ok))
    BY <1>8 DEF StorageAnswers
  <2>2. /\ Answer(kind, f, ok) \in Task
        /\ Answer(kind, f, ok).kind # "credential"
    <3>1. f \in Form
      BY BoundsAreNaturals, LenProperties DEF TypeOK, Form
    <3>2. Answer(kind, f, ok) \in Task
      BY <3>1, TasksTyped
    <3>. QED
      BY <3>2 DEF Answer
  <2>3. FollowedBy(Append(main, Answer(kind, f, ok)), user, sdkUser)
    BY <1>0, <2>2, FollowedPushed DEF Followed
  <2>. QED
    BY <1>8, <2>1, <2>3 DEF StorageAnswers, session, sdk, Followed
<1>9. ASSUME Uploaded \/ Added
      PROVE  Followed'
  BY <1>9, FollowedTask DEF Uploaded, Added, Completion, Segue, Alert, session
<1>10. ASSUME DocumentAdded
       PROVE  Followed'
  BY <1>10, FollowedTask DEF DocumentAdded, session
<1>11. ASSUME DocumentAcknowledged \/ DocumentRefused
       PROVE  Followed'
  BY <1>11, QueueTyped, FollowedCompletion
     DEF DocumentAcknowledged, DocumentRefused, session
<1>12. ASSUME Restart
       PROVE  Followed'
  <2>1. main' = <<>> /\ sdkUser' \in {NotStarted, user} /\ user' = user
    BY <1>12 DEF Restart, Launched
  <2>. QED
    BY <2>1 DEF Followed, FollowedBy
<1>. QED
  BY <1>1, <1>2, <1>3, <1>4, <1>5, <1>6, <1>7, <1>8, <1>9, <1>10, <1>11, <1>12
     DEF Next

\* Whenever no task waits, the SDK writes for the user Auth has signed in,
\* through every login, sign-up, sign-out, start of the SDK and kill.
THEOREM SdkFollows == Spec => []SdkFollowsSession
<1>1. Init => Followed
  BY DEF Init, Followed, FollowedBy
<1>2. Followed => SdkFollowsSession
  BY DEF Followed, FollowedBy, SdkFollowsSession
<1>. QED
  BY <1>1, <1>2, FollowedStep, TypeCorrect, PTL DEF Spec

-------------------------------------------------------------------------------
(* The chain of a form *)

\* Task t is an answer for form f.
About(t, f) == t.kind \in {"upload", "link", "add"} /\ t.form = f

\* The tasks m have no answer for form f; only the answer t.
NoAnswer(m, f) == \A i \in DOMAIN m : ~About(m[i], f)
OneAnswer(m, f, t) ==
  \E i \in DOMAIN m : /\ m[i] = t
                      /\ \A j \in DOMAIN m : About(m[j], f) => j = i

\* The queues q do not have form f; have it in one place.
Unqueued(q, f) == \A u \in User : \A i \in DOMAIN q[u] : q[u][i] # f
QueuedOnce(q, f) ==
  \E u \in User : \E i \in DOMAIN q[u] :
    /\ q[u][i] = f
    /\ \A v \in User : \A j \in DOMAIN q[v] : q[v][j] = f => v = u /\ j = i

\* The stages of form f, what its caller was told in each and where its answer
\* or its document is.
Unborn(f) ==
  f \notin DOMAIN forms /\ NoAnswer(main, f) /\ Unqueued(queue, f) /\ f \notin stored

InStorage(f) ==
  /\ f \in DOMAIN forms /\ Unqueued(queue, f) /\ f \notin stored
  /\ \/ /\ forms[f].stage = "uploading" /\ forms[f].told = <<>>
        /\ NoAnswer(main, f)
     \/ /\ forms[f].stage = "linking" /\ forms[f].told = <<TRUE>>
        /\ NoAnswer(main, f)
     \/ /\ forms[f].stage = "answered" /\ forms[f].told = <<>>
        /\ \E ok \in BOOLEAN : OneAnswer(main, f, Answer("upload", f, ok))
     \/ /\ forms[f].stage = "answered" /\ forms[f].told = <<TRUE>>
        /\ \E ok \in BOOLEAN : OneAnswer(main, f, Answer("link", f, ok))

GivenUp(f) ==
  /\ f \in DOMAIN forms /\ NoAnswer(main, f) /\ Unqueued(queue, f) /\ f \notin stored
  /\ \/ forms[f].stage = "failed" /\ forms[f].told = <<FALSE>>
     \/ /\ forms[f].stage = "lost" /\ forms[f].told \in {<<>>, <<TRUE>>}
        /\ forms[f].screen = 0

InQueue(f) ==
  /\ f \in DOMAIN forms /\ NoAnswer(main, f) /\ QueuedOnce(queue, f)
  /\ forms[f].stage = "written" /\ forms[f].told = <<TRUE>>

Decided(f, ok) ==
  /\ f \in DOMAIN forms /\ Unqueued(queue, f) /\ (f \in stored <=> ok)
  /\ forms[f].stage = IF ok THEN "written" ELSE "refused"
  /\ \/ forms[f].told = <<TRUE>> /\ OneAnswer(main, f, Answer("add", f, ok))
     \/ forms[f].told = <<TRUE>> /\ forms[f].screen = 0 /\ NoAnswer(main, f)
     \/ forms[f].told = <<TRUE, ok>> /\ NoAnswer(main, f)

Fits(f) ==
  Unborn(f) \/ InStorage(f) \/ GivenUp(f) \/ InQueue(f) \/ Decided(f, TRUE) \/ Decided(f, FALSE)

Chain == \A f \in Form : Fits(f)

\* What one more task, or one fewer, does to the answers for a form.
LEMMA AnswerPushed ==
  ASSUME NEW m \in Seq(Task), NEW t \in Task, NEW f
  PROVE  /\ ~About(t, f) /\ NoAnswer(m, f) => NoAnswer(Append(m, t), f)
         /\ \A s : ~About(t, f) /\ OneAnswer(m, f, s) => OneAnswer(Append(m, t), f, s)
         /\ About(t, f) /\ NoAnswer(m, f) => OneAnswer(Append(m, t), f, t)
<1> DEFINE n == Append(m, t)
<1>1. /\ Len(m) \in Nat /\ DOMAIN m = 1..Len(m) /\ DOMAIN n = 1..(Len(m) + 1)
      /\ \A i \in DOMAIN m : n[i] = m[i]
      /\ n[Len(m) + 1] = t
  BY AppendProperties, LenProperties
<1>2. Len(m) + 1 \in DOMAIN n /\ \A i \in DOMAIN m : i \in DOMAIN n
  BY <1>1
<1>3. \A i \in DOMAIN n : (i \in DOMAIN m /\ n[i] = m[i]) \/ (i = Len(m) + 1 /\ n[i] = t)
  BY <1>1
<1>. HIDE DEF n
<1>4. ~About(t, f) /\ NoAnswer(m, f) => NoAnswer(n, f)
  BY <1>3 DEF NoAnswer
<1>5. ASSUME NEW s, ~About(t, f), OneAnswer(m, f, s)
      PROVE  OneAnswer(n, f, s)
  <2>1. PICK i \in DOMAIN m : m[i] = s /\ \A j \in DOMAIN m : About(m[j], f) => j = i
    BY <1>5 DEF OneAnswer
  <2>2. i \in DOMAIN n /\ n[i] = s
    BY <1>1, <1>2, <2>1
  <2>3. \A j \in DOMAIN n : About(n[j], f) => j = i
    BY <1>3, <1>5, <2>1
  <2>. QED
    BY <2>2, <2>3 DEF OneAnswer
<1>6. About(t, f) /\ NoAnswer(m, f) => OneAnswer(n, f, t)
  BY <1>1, <1>2, <1>3 DEF NoAnswer, OneAnswer
<1>. QED
  BY <1>4, <1>5, <1>6 DEF n

LEMMA AnswerPopped ==
  ASSUME NEW m \in Seq(Task), m # <<>>, NEW f
  PROVE  /\ NoAnswer(m, f) => NoAnswer(Tail(m), f) /\ ~About(Head(m), f)
         /\ \A s : ~About(Head(m), f) /\ About(s, f) /\ OneAnswer(m, f, s)
                     => OneAnswer(Tail(m), f, s)
         /\ \A s : About(Head(m), f) /\ OneAnswer(m, f, s)
                     => Head(m) = s /\ NoAnswer(Tail(m), f)
<1> DEFINE n == Tail(m)
<1>1. /\ Len(m) \in Nat \ {0} /\ DOMAIN m = 1..Len(m)
      /\ Head(m) = m[1] /\ DOMAIN n = 1..(Len(m) - 1)
      /\ \A i \in DOMAIN n : n[i] = m[i + 1]
  BY HeadTailProperties, LenProperties, EmptySeq
<1>2. 1 \in DOMAIN m /\ \A i \in DOMAIN n : i + 1 \in DOMAIN m /\ i + 1 # 1
  BY <1>1
<1>. HIDE DEF n
<1>3. \A j \in DOMAIN m : j = 1 \/ (j - 1 \in DOMAIN n /\ n[j - 1] = m[j])
  BY <1>1
<1>4. NoAnswer(m, f) => NoAnswer(n, f) /\ ~About(Head(m), f)
  BY <1>1, <1>2 DEF NoAnswer
<1>5. ASSUME NEW s, ~About(Head(m), f), About(s, f), OneAnswer(m, f, s)
      PROVE  OneAnswer(n, f, s)
  <2>1. PICK i \in DOMAIN m : m[i] = s /\ \A j \in DOMAIN m : About(m[j], f) => j = i
    BY <1>5 DEF OneAnswer
  <2>2. i # 1
    BY <1>1, <1>5, <2>1
  <2>3. i - 1 \in DOMAIN n /\ n[i - 1] = s
    BY <1>3, <2>1, <2>2
  <2>4. ASSUME NEW j \in DOMAIN n, About(n[j], f)
        PROVE  j = i - 1
    <3>1. j + 1 = i
      BY <1>1, <1>2, <2>1, <2>4
    <3>. QED
      BY <1>1, <3>1
  <2>. QED
    BY <2>3, <2>4 DEF OneAnswer
<1>6. ASSUME NEW s, About(Head(m), f), OneAnswer(m, f, s)
      PROVE  Head(m) = s /\ NoAnswer(n, f)
  <2>1. PICK i \in DOMAIN m : m[i] = s /\ \A j \in DOMAIN m : About(m[j], f) => j = i
    BY <1>6 DEF OneAnswer
  <2>2. i = 1
    BY <1>1, <1>2, <1>6, <2>1
  <2>3. \A j \in DOMAIN n : ~About(n[j], f)
    BY <1>1, <1>2, <2>1, <2>2
  <2>. QED
    BY <1>1, <2>1, <2>2, <2>3 DEF NoAnswer
<1>. QED
  BY <1>4, <1>5, <1>6 DEF n

\* A write of form g joins user u's queue.
LEMMA WriteQueued ==
  ASSUME NEW q \in [User -> Seq(Form)], NEW u \in User, NEW g \in Form, NEW f
  PROVE  LET r == [q EXCEPT ![u] = Append(@, g)]
         IN  /\ g # f /\ Unqueued(q, f) => Unqueued(r, f)
             /\ g # f /\ QueuedOnce(q, f) => QueuedOnce(r, f)
             /\ g = f /\ Unqueued(q, f) => QueuedOnce(r, f)
<1> DEFINE r == [q EXCEPT ![u] = Append(@, g)]
<1>0. q[u] \in Seq(Form)
  OBVIOUS
<1>1. /\ Len(q[u]) \in Nat /\ DOMAIN q[u] = 1..Len(q[u])
      /\ DOMAIN r[u] = 1..(Len(q[u]) + 1)
      /\ \A i \in DOMAIN q[u] : r[u][i] = q[u][i]
      /\ r[u][Len(q[u]) + 1] = g
      /\ \A v \in User : v # u => r[v] = q[v]
  BY <1>0, AppendProperties, LenProperties
<1>. HIDE DEF r
<1>2. /\ \A v \in User : \A i \in DOMAIN q[v] : i \in DOMAIN r[v] /\ r[v][i] = q[v][i]
      /\ Len(q[u]) + 1 \in DOMAIN r[u]
  <2>1. Len(q[u]) + 1 \in DOMAIN r[u] /\ \A i \in DOMAIN q[u] : i \in DOMAIN r[u]
    BY <1>1
  <2>2. ASSUME NEW v \in User, NEW i \in DOMAIN q[v]
        PROVE  i \in DOMAIN r[v] /\ r[v][i] = q[v][i]
    <3>1. CASE v = u
      BY <1>1, <2>1, <2>2, <3>1
    <3>2. CASE v # u
      BY <1>1, <2>2, <3>2
    <3>. QED
      BY <3>1, <3>2
  <2>. QED
    BY <2>1, <2>2
<1>3. \A v \in User : \A i \in DOMAIN r[v] :
        \/ i \in DOMAIN q[v] /\ r[v][i] = q[v][i]
        \/ v = u /\ i = Len(q[u]) + 1 /\ r[v][i] = g
  <2>1. ASSUME NEW v \in User, NEW i \in DOMAIN r[v]
        PROVE  \/ i \in DOMAIN q[v] /\ r[v][i] = q[v][i]
               \/ v = u /\ i = Len(q[u]) + 1 /\ r[v][i] = g
    <3>1. CASE v = u
      BY <1>1, <2>1, <3>1
    <3>2. CASE v # u
      BY <1>1, <2>1, <3>2
    <3>. QED
      BY <3>1, <3>2
  <2>. QED
    BY <2>1
<1>4. g # f /\ Unqueued(q, f) => Unqueued(r, f)
  BY <1>3 DEF Unqueued
<1>5. ASSUME g # f, QueuedOnce(q, f)
      PROVE  QueuedOnce(r, f)
  <2>1. PICK v \in User : \E i \in DOMAIN q[v] :
          /\ q[v][i] = f
          /\ \A w \in User : \A j \in DOMAIN q[w] : q[w][j] = f => w = v /\ j = i
    BY <1>5 DEF QueuedOnce
  <2>2. PICK i \in DOMAIN q[v] :
          /\ q[v][i] = f
          /\ \A w \in User : \A j \in DOMAIN q[w] : q[w][j] = f => w = v /\ j = i
    BY <2>1
  <2>3. i \in DOMAIN r[v] /\ r[v][i] = f
    BY <1>2, <2>2
  <2>4. \A w \in User : \A j \in DOMAIN r[w] : r[w][j] = f => w = v /\ j = i
    BY <1>3, <1>5, <2>2
  <2>. QED
    BY <2>3, <2>4 DEF QueuedOnce
<1>6. ASSUME g = f, Unqueued(q, f)
      PROVE  QueuedOnce(r, f)
  <2>1. \A w \in User : \A j \in DOMAIN r[w] : r[w][j] = f => w = u /\ j = Len(q[u]) + 1
    BY <1>3, <1>6 DEF Unqueued
  <2>. QED
    BY <1>1, <1>2, <1>6, <2>1 DEF QueuedOnce
<1>. QED
  BY <1>4, <1>5, <1>6 DEF r

\* The first write of user u is answered.
LEMMA WriteDone ==
  ASSUME NEW q \in [User -> Seq(Form)], NEW u \in User, q[u] # <<>>, NEW f
  PROVE  LET r == [q EXCEPT ![u] = Tail(@)]
         IN  /\ Unqueued(q, f) => Unqueued(r, f) /\ Head(q[u]) # f
             /\ Head(q[u]) # f /\ QueuedOnce(q, f) => QueuedOnce(r, f)
             /\ Head(q[u]) = f /\ QueuedOnce(q, f) => Unqueued(r, f)
<1> DEFINE r == [q EXCEPT ![u] = Tail(@)]
<1>0. q[u] \in Seq(Form)
  OBVIOUS
<1>1. /\ Len(q[u]) \in Nat \ {0} /\ DOMAIN q[u] = 1..Len(q[u])
      /\ Head(q[u]) = q[u][1]
      /\ DOMAIN r[u] = 1..(Len(q[u]) - 1)
      /\ \A i \in DOMAIN r[u] : r[u][i] = q[u][i + 1]
      /\ \A v \in User : v # u => r[v] = q[v]
  BY <1>0, HeadTailProperties, LenProperties, EmptySeq
<1>. HIDE DEF r
<1>2. 1 \in DOMAIN q[u]
  BY <1>1
<1>3. \A i \in DOMAIN r[u] : i + 1 \in DOMAIN q[u] /\ i + 1 # 1
  BY <1>1
<1>4. \A i \in DOMAIN q[u] : i = 1 \/ (i - 1 \in DOMAIN r[u] /\ r[u][i - 1] = q[u][i])
  BY <1>1
<1>5. ASSUME Unqueued(q, f)
      PROVE  Unqueued(r, f) /\ Head(q[u]) # f
  <2>1. \A v \in User : \A i \in DOMAIN q[v] : q[v][i] # f
    BY <1>5 DEF Unqueued
  <2>2. Head(q[u]) # f
    BY <1>1, <1>2, <2>1
  <2>3. ASSUME NEW v \in User, NEW i \in DOMAIN r[v]
        PROVE  r[v][i] # f
    <3>1. CASE v = u
      <4>1. i + 1 \in DOMAIN q[u] /\ r[v][i] = q[u][i + 1]
        BY <1>1, <1>3, <2>3, <3>1
      <4>. QED
        BY <2>1, <4>1
    <3>2. CASE v # u
      BY <1>1, <2>1, <2>3, <3>2
    <3>. QED
      BY <3>1, <3>2
  <2>. QED
    BY <2>2, <2>3 DEF Unqueued
<1>6. ASSUME Head(q[u]) # f, QueuedOnce(q, f)
      PROVE  QueuedOnce(r, f)
  <2>1. PICK v \in User : \E i \in DOMAIN q[v] :
          /\ q[v][i] = f
          /\ \A w \in User : \A j \in DOMAIN q[w] : q[w][j] = f => w = v /\ j = i
    BY <1>6 DEF QueuedOnce
  <2>2. PICK i \in DOMAIN q[v] :
          /\ q[v][i] = f
          /\ \A w \in User : \A j \in DOMAIN q[w] : q[w][j] = f => w = v /\ j = i
    BY <2>1
  <2>3. CASE v # u
    <3>1. i \in DOMAIN r[v] /\ r[v][i] = f
      BY <1>1, <2>2, <2>3
    <3>2. ASSUME NEW w \in User, NEW j \in DOMAIN r[w], r[w][j] = f
          PROVE  w = v /\ j = i
      <4>1. ASSUME w = u
            PROVE  FALSE
        <5>1. j + 1 \in DOMAIN q[u] /\ q[u][j + 1] = f
          BY <1>1, <1>3, <3>2, <4>1
        <5>. QED
          BY <2>2, <2>3, <5>1
      <4>. QED
        BY <1>1, <2>2, <3>2, <4>1
    <3>. QED
      BY <3>1, <3>2 DEF QueuedOnce
  <2>4. CASE v = u
    <3>1. i # 1
      BY <1>1, <1>6, <2>2, <2>4
    <3>2. i - 1 \in DOMAIN r[v] /\ r[v][i - 1] = f
      BY <1>4, <2>2, <2>4, <3>1
    <3>3. ASSUME NEW w \in User, NEW j \in DOMAIN r[w], r[w][j] = f
          PROVE  w = v /\ j = i - 1
      <4>1. w = u
        BY <1>1, <2>2, <2>4, <3>3
      <4>2. j + 1 = i
        BY <1>1, <1>3, <2>2, <2>4, <3>3, <4>1
      <4>. QED
        BY <1>1, <2>4, <3>3, <4>1, <4>2
    <3>. QED
      BY <3>2, <3>3 DEF QueuedOnce
  <2>. QED
    BY <2>3, <2>4
<1>7. ASSUME Head(q[u]) = f, QueuedOnce(q, f)
      PROVE  Unqueued(r, f)
  <2>1. \A w \in User : \A j \in DOMAIN q[w] : q[w][j] = f => w = u /\ j = 1
    BY <1>1, <1>2, <1>7 DEF QueuedOnce
  <2>2. ASSUME NEW w \in User, NEW j \in DOMAIN r[w]
        PROVE  r[w][j] # f
    <3>1. CASE w = u
      BY <1>1, <1>3, <2>1, <2>2, <3>1
    <3>2. CASE w # u
      BY <1>1, <2>1, <2>2, <3>2
    <3>. QED
      BY <3>1, <3>2
  <2>. QED
    BY <2>2 DEF Unqueued
<1>. QED
  BY <1>5, <1>6, <1>7 DEF r

\* A step leaves the answers, the writes and the record of form f as they are.
AnswersKept(f) ==
  /\ NoAnswer(main, f) => NoAnswer(main', f)
  /\ \A t : About(t, f) /\ OneAnswer(main, f, t) => OneAnswer(main', f, t)

WritesKept(f) ==
  /\ Unqueued(queue, f) => Unqueued(queue', f)
  /\ QueuedOnce(queue, f) => QueuedOnce(queue', f)

RecordKept(f) ==
  /\ f \in DOMAIN forms' <=> f \in DOMAIN forms
  /\ f \in DOMAIN forms => forms'[f] = forms[f]

\* Such a step leaves the form where it is in its chain.
LEMMA FitsKept ==
  ASSUME NEW f, Fits(f), AnswersKept(f), WritesKept(f), RecordKept(f),
         f \in stored' <=> f \in stored
  PROVE  Fits(f)'
<1>1. \A k \in {"upload", "link", "add"}, ok \in BOOLEAN : About(Answer(k, f, ok), f)
  BY DEF About, Answer
<1>2. \A k \in {"upload", "link", "add"}, ok \in BOOLEAN :
        OneAnswer(main, f, Answer(k, f, ok)) => OneAnswer(main', f, Answer(k, f, ok))
  BY <1>1 DEF AnswersKept
<1>3. CASE Unborn(f)
  BY <1>3 DEF Fits, Unborn, AnswersKept, WritesKept, RecordKept
<1>4. CASE InStorage(f)
  BY <1>2, <1>4 DEF Fits, InStorage, AnswersKept, WritesKept, RecordKept
<1>5. CASE GivenUp(f)
  BY <1>5 DEF Fits, GivenUp, AnswersKept, WritesKept, RecordKept
<1>6. CASE InQueue(f)
  BY <1>6 DEF Fits, InQueue, AnswersKept, WritesKept, RecordKept
<1>7. ASSUME NEW ok \in BOOLEAN, Decided(f, ok)
      PROVE  Decided(f, ok)'
  BY <1>2, <1>7 DEF Decided, AnswersKept, WritesKept, RecordKept
<1>. QED
  BY <1>3, <1>4, <1>5, <1>6, <1>7 DEF Fits

\* What a step does to the main queue that leaves the answers for f alone.
LEMMA AnswersStay ==
  ASSUME TypeOK, NEW f,
         \/ main' = main
         \/ \E t \in Task : main' = Append(main, t) /\ ~About(t, f)
         \/ main # <<>> /\ main' = Tail(main) /\ ~About(Head(main), f)
  PROVE  AnswersKept(f)
<1>1. main \in Seq(Task)
  BY DEF TypeOK
<1>2. CASE main' = main
  BY <1>2 DEF AnswersKept
<1>3. CASE \E t \in Task : main' = Append(main, t) /\ ~About(t, f)
  <2>1. PICK t \in Task : main' = Append(main, t) /\ ~About(t, f)
    BY <1>3
  <2>. QED
    BY <1>1, <2>1, AnswerPushed DEF AnswersKept
<1>4. CASE main # <<>> /\ main' = Tail(main) /\ ~About(Head(main), f)
  BY <1>1, <1>4, AnswerPopped DEF AnswersKept
<1>. QED
  BY <1>2, <1>3, <1>4

\* A step that changes no form, queue or document, and no answer.
LEMMA ChainIdle ==
  ASSUME TypeOK, Chain, UNCHANGED <<forms, queue, stored>>,
         \/ main' = main
         \/ \E t \in Task : main' = Append(main, t) /\ t.kind \in {"credential", "signedIn"}
         \/ /\ main # <<>> /\ main' = Tail(main)
            /\ Head(main).kind \in {"credential", "signedIn"}
  PROVE  Chain'
<1>1. ASSUME NEW f \in Form
      PROVE  Fits(f)'
  <2>1. \A t : t.kind \in {"credential", "signedIn"} => ~About(t, f)
    BY DEF About
  <2>2. AnswersKept(f)
    BY <2>1, AnswersStay
  <2>3. WritesKept(f) /\ RecordKept(f)
    BY DEF WritesKept, RecordKept
  <2>. QED
    BY <2>2, <2>3, FitsKept DEF Chain
<1>. QED
  BY <1>1 DEF Chain

\* The completion of a write of form f comes, if its process still runs.
LEMMA CompletionPushed ==
  ASSUME TypeOK, NEW f \in Form, NEW ok \in BOOLEAN,
         main' = main \o CompletionOf(f, ok)
  PROVE  /\ forms[f].screen = 0 => main' = main
         /\ forms[f].screen # 0 => /\ main' = Append(main, Answer("add", f, ok))
                                   /\ Answer("add", f, ok) \in Task
         /\ \A g : g # f => AnswersKept(g)
<1>. DEFINE t == Answer("add", f, ok)
<1>1. t \in Task /\ main \in Seq(Task) /\ \A g : g # f => ~About(t, g)
  BY TasksTyped DEF Answer, TypeOK, About
<1>2. main \o <<>> = main /\ main \o <<t>> = Append(main, t)
  BY <1>1, ConcatEmptySeq, AppendIsConcat
<1>3. /\ forms[f].screen = 0 => main' = main
      /\ forms[f].screen # 0 => main' = Append(main, t)
  BY <1>2 DEF CompletionOf
<1>. QED
  BY <1>1, <1>3, AnswersStay

\* What a caller has been told after one more answer.
LEMMA Told ==
  /\ \A b \in BOOLEAN : /\ Append(<<>>, b) = <<b>>
                        /\ Append(<<TRUE>>, b) = <<TRUE, b>>
                        /\ Len(<<b>>) = 1 /\ Len(<<TRUE, b>>) = 2
  /\ Len(<<>>) = 0
  /\ <<TRUE>> # <<FALSE>> /\ <<TRUE, TRUE>> # <<TRUE, FALSE>>
<1>1. ASSUME NEW b \in BOOLEAN
      PROVE  /\ Append(<<TRUE>>, b) = <<TRUE, b>> /\ <<TRUE, b>>[2] = b
             /\ Len(<<TRUE, b>>) = 2
  <2> DEFINE s == Append(<<TRUE>>, b)
             t == <<TRUE, b>>
  <2>1. <<TRUE>> \in Seq(BOOLEAN) /\ Len(<<TRUE>>) = 1 /\ <<TRUE>>[1] = TRUE
    OBVIOUS
  <2>2. s \in Seq(BOOLEAN) /\ Len(s) = 2 /\ s[1] = TRUE /\ s[2] = b
    BY <2>1, AppendProperties
  <2>3. t \in Seq(BOOLEAN) /\ Len(t) = 2 /\ t[1] = TRUE /\ t[2] = b
    OBVIOUS
  <2>. HIDE DEF s, t
  <2>4. \A i \in 1..Len(s) : s[i] = t[i]
    BY <2>2, <2>3
  <2>5. s = t
    BY <2>2, <2>3, <2>4, SeqEqual
  <2>. QED
    BY <2>3, <2>5 DEF s, t
<1>2. \A b \in BOOLEAN : Append(<<>>, b) = <<b>>
  OBVIOUS
<1>3. \A b \in BOOLEAN : Len(<<b>>) = 1 /\ <<b>>[1] = b
  OBVIOUS
<1>4. <<TRUE>> # <<FALSE>>
  BY <1>3
<1>5. <<TRUE, TRUE>> # <<TRUE, FALSE>>
  BY <1>1
<1>6. Len(<<>>) = 0
  OBVIOUS
<1>. QED
  BY <1>1, <1>2, <1>3, <1>4, <1>5, <1>6

\* What the caller was told tells the ends of a chain apart.
LEMMA Distinct ==
  /\ {<<>>, <<TRUE>>} \cap {<<FALSE>>, <<TRUE, FALSE>>, <<TRUE, TRUE>>} = {}
  /\ <<TRUE, TRUE>> \notin {<<FALSE>>, <<TRUE, FALSE>>}
<1>1. /\ Len(<<>>) = 0 /\ Len(<<TRUE>>) = 1 /\ Len(<<FALSE>>) = 1
      /\ Len(<<TRUE, TRUE>>) = 2 /\ Len(<<TRUE, FALSE>>) = 2
  OBVIOUS
<1>2. <<TRUE>> # <<FALSE>> /\ <<TRUE, TRUE>> # <<TRUE, FALSE>>
  BY Told
<1>3. /\ <<>> # <<FALSE>> /\ <<>> # <<TRUE, FALSE>> /\ <<>> # <<TRUE, TRUE>>
      /\ <<TRUE>> # <<TRUE, FALSE>> /\ <<TRUE>> # <<TRUE, TRUE>>
      /\ <<TRUE, TRUE>> # <<FALSE>>
  <2>1. /\ Len(<<>>) # Len(<<FALSE>>) /\ Len(<<>>) # Len(<<TRUE, FALSE>>)
        /\ Len(<<>>) # Len(<<TRUE, TRUE>>) /\ Len(<<TRUE>>) # Len(<<TRUE, FALSE>>)
        /\ Len(<<TRUE>>) # Len(<<TRUE, TRUE>>) /\ Len(<<TRUE, TRUE>>) # Len(<<FALSE>>)
    BY <1>1
  <2>. QED
    BY <2>1, Zenon
<1>. QED
  BY <1>2, <1>3, Zenon

\* It is enough to follow the one form a step is about.
LEMMA ChainMoved ==
  ASSUME Chain, NEW g \in Form, Fits(g)',
         \A f \in Form : f # g => /\ AnswersKept(f) /\ WritesKept(f) /\ RecordKept(f)
                                  /\ f \in stored' <=> f \in stored
  PROVE  Chain'
<1>1. ASSUME NEW f \in Form
      PROVE  Fits(f)'
  <2>1. CASE f = g
    BY <2>1
  <2>2. CASE f # g
    BY <2>2, FitsKept DEF Chain
  <2>. QED
    BY <2>1, <2>2
<1>. QED
  BY <1>1 DEF Chain

\* An answer that leaves the main queue finds its form where it left it.
LEMMA AnswerTaken ==
  ASSUME TypeOK, Chain, main # <<>>, main' = Tail(main),
         Head(main).kind \in {"upload", "link", "add"},
         NEW g, g = Head(main).form, NEW ok, ok = Head(main).ok
  PROVE  /\ g \in Form /\ ok \in BOOLEAN
         /\ g \in DOMAIN forms /\ forms[g] \in FormRecord
         /\ NoAnswer(main', g) /\ Unqueued(queue, g)
         /\ Head(main).kind \in {"upload", "link"} =>
              g \notin stored /\ forms[g].stage = "answered"
         /\ Head(main).kind = "upload" => forms[g].told = <<>>
         /\ Head(main).kind \in {"link", "add"} => forms[g].told = <<TRUE>>
         /\ Head(main).kind = "add" =>
              /\ g \in stored <=> ok = TRUE
              /\ forms[g].stage = IF ok THEN "written" ELSE "refused"
         /\ \A f : f # g => AnswersKept(f)
<1>1. Head(main) \in Task /\ main \in Seq(Task)
  BY MainTyped DEF TypeOK
<1>2. g \in Form /\ ok \in BOOLEAN
  BY <1>1 DEF Task
<1>3. About(Head(main), g) /\ \A f : f # g => ~About(Head(main), f)
  BY DEF About
<1>4. ~NoAnswer(main, g)
  BY <1>1, <1>3, AnswerPopped
<1>5. \A t : OneAnswer(main, g, t) => Head(main) = t /\ NoAnswer(main', g)
  BY <1>1, <1>3, AnswerPopped
<1>6. \A f : f # g => AnswersKept(f)
  BY <1>3, AnswersStay
<1>7. Fits(g)
  BY <1>2 DEF Chain
<1>8. g \in DOMAIN forms => forms[g] \in FormRecord
  BY ElementOfSeq, LenProperties DEF TypeOK
<1>9. CASE InStorage(g)
  <2>1. PICK k \in {"upload", "link"}, b \in BOOLEAN :
          /\ OneAnswer(main, g, Answer(k, g, b)) /\ forms[g].stage = "answered"
          /\ forms[g].told = IF k = "upload" THEN <<>> ELSE <<TRUE>>
    BY <1>4, <1>9 DEF InStorage
  <2>2. Head(main).kind = k /\ NoAnswer(main', g)
    BY <1>5, <2>1 DEF Answer
  <2>. QED
    BY <1>2, <1>6, <1>8, <1>9, <2>1, <2>2 DEF InStorage
<1>10. ASSUME NEW b \in BOOLEAN, Decided(g, b)
       PROVE  /\ Head(main).kind = "add" /\ NoAnswer(main', g)
              /\ g \in DOMAIN forms /\ Unqueued(queue, g)
              /\ forms[g].told = <<TRUE>>
              /\ g \in stored <=> ok = TRUE
              /\ forms[g].stage = IF ok THEN "written" ELSE "refused"
  <2>1. OneAnswer(main, g, Answer("add", g, b)) /\ forms[g].told = <<TRUE>>
    BY <1>4, <1>10 DEF Decided
  <2>2. Head(main).kind = "add" /\ Head(main).ok = b /\ NoAnswer(main', g)
    BY <1>5, <2>1 DEF Answer
  <2>. QED
    BY <1>10, <2>1, <2>2 DEF Decided
<1>11. InStorage(g) \/ Decided(g, TRUE) \/ Decided(g, FALSE)
  BY <1>4, <1>7 DEF Fits, Unborn, GivenUp, InQueue
<1>12. CASE \E b \in BOOLEAN : Decided(g, b)
  BY <1>2, <1>6, <1>8, <1>10, <1>12
<1>. QED
  BY <1>9, <1>11, <1>12

\* The SDK's first write is a form that waits in its queue.
LEMMA WriteTaken ==
  ASSUME TypeOK, Chain, Waiting, NEW g, g = FirstWrite
  PROVE  /\ g \in Form /\ InQueue(g) /\ forms[g] \in FormRecord
         /\ sdkUser \in User /\ queue \in [User -> Seq(Form)]
         /\ queue[sdkUser] # <<>> /\ Head(queue[sdkUser]) = g
<1>1. /\ g \in Form /\ sdkUser \in User /\ queue \in [User -> Seq(Form)]
      /\ queue[sdkUser] # <<>> /\ Head(queue[sdkUser]) = g
  BY QueueTyped DEF TypeOK, Waiting, FirstWrite
<1>2. ~Unqueued(queue, g)
  BY <1>1, WriteDone
<1>3. InQueue(g)
  BY <1>1, <1>2 DEF Chain, Fits, Unborn, InStorage, GivenUp, Decided
<1>4. forms[g] \in FormRecord
  BY <1>3, ElementOfSeq, LenProperties DEF TypeOK, InQueue
<1>. QED
  BY <1>1, <1>3, <1>4

\* A new form.
LEMMA ChainPressCreate ==
  ASSUME TypeOK, Chain, PressCreate
  PROVE  Chain'
<1>0. PICK g : g = Len(forms) + 1
  OBVIOUS
<1> DEFINE r == [screen |-> Len(screens), author |-> Front.account, email |-> NoOne,
                 linked |-> FALSE, stage |-> "uploading", told |-> <<>>]
<1>1. Len(forms) \in Nat /\ DOMAIN forms = 1..Len(forms)
  BY LenProperties DEF TypeOK
<1>2. g \in Form /\ g \notin DOMAIN forms
  BY <1>0, <1>1, BoundsAreNaturals DEF Form, PressCreate
<1>3. UNCHANGED <<main, queue, stored>> /\ forms' = Append(forms, r)
  BY DEF PressCreate, sdk
<1>. HIDE DEF r
<1>4. /\ DOMAIN forms' = 1..g /\ forms'[g] = r
      /\ \A f \in DOMAIN forms : forms'[f] = forms[f]
  BY <1>0, <1>1, <1>3
<1>5. /\ g \in DOMAIN forms' /\ forms'[g] = r
      /\ \A f \in Form : f # g => RecordKept(f)
  BY <1>0, <1>1, <1>4 DEF RecordKept
<1>6. Unborn(g)
  BY <1>2 DEF Chain, Fits, InStorage, GivenUp, InQueue, Decided
<1>7. Fits(g)'
  <2>1. forms'[g].stage = "uploading" /\ forms'[g].told = <<>>
    BY <1>5 DEF r
  <2>. QED
    BY <1>3, <1>5, <1>6, <2>1 DEF Unborn, Fits, InStorage
<1>8. \A f : AnswersKept(f) /\ WritesKept(f)
  BY <1>3 DEF AnswersKept, WritesKept
<1>. QED
  BY <1>2, <1>3, <1>5, <1>7, <1>8, ChainMoved

\* Storage's answer goes to the main queue.
LEMMA ChainStorageAnswers ==
  ASSUME TypeOK, Chain, NEW g \in DOMAIN forms, StorageAnswers(g)
  PROVE  Chain'
<1>1. g \in Form /\ main \in Seq(Task)
  BY BoundsAreNaturals, LenProperties DEF TypeOK, Form
<1>2. PICK ok \in BOOLEAN, k \in {"upload", "link"} :
        /\ main' = Append(main, Answer(k, g, ok))
        /\ forms[g].stage = IF k = "upload" THEN "uploading" ELSE "linking"
  BY DEF StorageAnswers
<1>3. UNCHANGED <<queue, stored>> /\ forms' = [forms EXCEPT ![g].stage = "answered"]
  BY DEF StorageAnswers, sdk
<1>4. /\ InStorage(g) /\ NoAnswer(main, g)
      /\ forms[g].told = IF k = "upload" THEN <<>> ELSE <<TRUE>>
  BY <1>1, <1>2 DEF Chain, Fits, Unborn, InStorage, GivenUp, InQueue, Decided
<1>5. /\ Answer(k, g, ok) \in Task /\ About(Answer(k, g, ok), g)
      /\ \A f : f # g => ~About(Answer(k, g, ok), f)
  <2>1. Answer(k, g, ok) \in Task
    BY <1>1, TasksTyped
  <2>. QED
    BY <2>1 DEF About, Answer
<1>6. OneAnswer(main', g, Answer(k, g, ok))
  BY <1>1, <1>2, <1>4, <1>5, AnswerPushed
<1>7. \A f : f # g => AnswersKept(f)
  BY <1>2, <1>5, AnswersStay
<1>8. forms[g] \in FormRecord
  BY ElementOfSeq, LenProperties DEF TypeOK
<1>9. /\ g \in DOMAIN forms' /\ forms'[g].stage = "answered"
      /\ forms'[g].told = forms[g].told
      /\ \A f : f # g => RecordKept(f)
  BY <1>3, <1>8 DEF FormRecord, RecordKept
<1>10. Fits(g)'
  BY <1>2, <1>3, <1>4, <1>6, <1>9 DEF Fits, InStorage
<1>11. \A f : WritesKept(f)
  BY <1>3 DEF WritesKept
<1>. QED
  BY <1>1, <1>3, <1>7, <1>9, <1>10, <1>11, ChainMoved

\* The caller is told of the upload.
LEMMA ChainUploaded ==
  ASSUME TypeOK, Chain, Uploaded
  PROVE  Chain'
<1>0. PICK g, ok : g = Head(main).form /\ ok = Head(main).ok
  OBVIOUS
<1>1. /\ main # <<>> /\ main' = Tail(main) /\ Head(main).kind = "upload"
      /\ UNCHANGED <<queue, stored>>
      /\ forms' = [forms EXCEPT ![g].told = Append(@, ok),
                                ![g].stage = IF ok THEN "linking" ELSE "failed"]
  BY <1>0 DEF Uploaded
<1>2. /\ g \in Form /\ ok \in BOOLEAN
      /\ g \in DOMAIN forms /\ forms[g] \in FormRecord
      /\ NoAnswer(main', g) /\ Unqueued(queue, g) /\ g \notin stored
      /\ forms[g].told = <<>>
      /\ \A f : f # g => AnswersKept(f)
  BY <1>0, <1>1, AnswerTaken
<1>3. /\ g \in DOMAIN forms'
      /\ forms'[g].told = Append(forms[g].told, ok)
      /\ forms'[g].stage = IF ok THEN "linking" ELSE "failed"
      /\ \A f : f # g => RecordKept(f)
  BY <1>1, <1>2 DEF FormRecord, RecordKept
<1>4. forms'[g].told = <<ok>>
  BY <1>2, <1>3, Told
<1>5. Fits(g)'
  BY <1>1, <1>2, <1>3, <1>4 DEF Fits, InStorage, GivenUp
<1>6. \A f : WritesKept(f)
  BY <1>1 DEF WritesKept
<1>. QED
  BY <1>1, <1>2, <1>3, <1>5, <1>6, ChainMoved

\* The document is handed to the SDK.
LEMMA ChainDocumentAdded ==
  ASSUME TypeOK, Chain, DocumentAdded
  PROVE  Chain'
<1>0. PICK g, ok : g = Head(main).form /\ ok = Head(main).ok
  OBVIOUS
<1>1. /\ main # <<>> /\ main' = Tail(main) /\ Head(main).kind = "link"
      /\ stored' = stored
      /\ forms' = [forms EXCEPT ![g].email = user, ![g].linked = ok, ![g].stage = "written"]
      /\ queue' = [queue EXCEPT ![Started] = Append(@, g)]
  BY <1>0 DEF DocumentAdded
<1>2. /\ g \in Form /\ ok \in BOOLEAN
      /\ g \in DOMAIN forms /\ forms[g] \in FormRecord
      /\ NoAnswer(main', g) /\ Unqueued(queue, g) /\ g \notin stored
      /\ forms[g].told = <<TRUE>>
      /\ \A f : f # g => AnswersKept(f)
  BY <1>0, <1>1, AnswerTaken
<1>3. /\ g \in DOMAIN forms'
      /\ forms'[g].told = <<TRUE>> /\ forms'[g].stage = "written"
      /\ \A f : f # g => RecordKept(f)
  BY <1>1, <1>2 DEF FormRecord, RecordKept
<1>4. Started \in User /\ queue \in [User -> Seq(Form)]
  BY QueueTyped DEF TypeOK
<1>5. QueuedOnce(queue', g) /\ \A f : f # g => WritesKept(f)
  BY <1>1, <1>2, <1>4, WriteQueued DEF WritesKept
<1>6. Fits(g)'
  BY <1>2, <1>3, <1>5 DEF Fits, InQueue
<1>. QED
  BY <1>1, <1>2, <1>3, <1>5, <1>6, ChainMoved

\* The server has the document.
LEMMA ChainDocumentStored ==
  ASSUME TypeOK, Chain, DocumentStored
  PROVE  Chain'
<1>0. PICK g : g = FirstWrite
  OBVIOUS
<1>1. /\ Waiting /\ stored' = stored \cup {g} /\ UNCHANGED <<main, forms, queue>>
  BY <1>0 DEF DocumentStored
<1>2. g \in Form /\ InQueue(g)
  BY <1>0, <1>1, WriteTaken
<1>3. Fits(g)'
  BY <1>1, <1>2 DEF Fits, InQueue
<1>4. \A f : AnswersKept(f) /\ WritesKept(f) /\ RecordKept(f)
  BY <1>1 DEF AnswersKept, WritesKept, RecordKept
<1>. QED
  BY <1>1, <1>2, <1>3, <1>4, ChainMoved

\* The SDK hears of the server's decision about its first write.
LEMMA ChainDecided ==
  ASSUME TypeOK, Chain, NEW ok \in BOOLEAN, Waiting, NEW g, g = FirstWrite,
         stored' = stored, g \in stored <=> ok,
         queue' = [queue EXCEPT ![sdkUser] = Tail(@)],
         main' = main \o CompletionOf(g, ok),
         g \in DOMAIN forms => g \in DOMAIN forms',
         forms'[g].told = forms[g].told, forms'[g].screen = forms[g].screen,
         forms'[g].stage = IF ok THEN forms[g].stage ELSE "refused",
         \A f : f # g => RecordKept(f)
  PROVE  Chain'
<1>1. /\ g \in Form /\ InQueue(g)
      /\ sdkUser \in User /\ queue \in [User -> Seq(Form)]
      /\ queue[sdkUser] # <<>> /\ Head(queue[sdkUser]) = g
  BY WriteTaken
<1>2. Unqueued(queue', g) /\ \A f : f # g => WritesKept(f)
  BY <1>1, WriteDone DEF InQueue, WritesKept
<1>3. \A f : f # g => AnswersKept(f)
  BY <1>1, CompletionPushed
<1>4. forms[g].screen = 0 => NoAnswer(main', g)
  BY <1>1, CompletionPushed DEF InQueue
<1>5. forms[g].screen # 0 => OneAnswer(main', g, Answer("add", g, ok))
  <2>1. About(Answer("add", g, ok), g) /\ main \in Seq(Task)
    BY DEF About, Answer, TypeOK
  <2>. QED
    BY <1>1, <2>1, CompletionPushed, AnswerPushed DEF InQueue
<1>6. Decided(g, ok)'
  BY <1>1, <1>2, <1>4, <1>5 DEF Decided, InQueue
<1>7. Fits(g)'
  BY <1>6 DEF Fits
<1>. QED
  BY <1>1, <1>2, <1>3, <1>7, ChainMoved

\* The caller is told of the document.
LEMMA ChainAdded ==
  ASSUME TypeOK, Chain, Added
  PROVE  Chain'
<1>0. PICK g, ok : g = Head(main).form /\ ok = Head(main).ok
  OBVIOUS
<1>1. /\ main # <<>> /\ main' = Tail(main) /\ Head(main).kind = "add"
      /\ UNCHANGED <<queue, stored>>
      /\ forms' = [forms EXCEPT ![g].told = Append(@, ok)]
  BY <1>0 DEF Added
<1>2. /\ g \in Form /\ ok \in BOOLEAN
      /\ g \in DOMAIN forms /\ forms[g] \in FormRecord
      /\ NoAnswer(main', g) /\ Unqueued(queue, g)
      /\ forms[g].told = <<TRUE>>
      /\ g \in stored <=> ok = TRUE
      /\ forms[g].stage = IF ok THEN "written" ELSE "refused"
      /\ \A f : f # g => AnswersKept(f)
  <2>1. Head(main).kind \in {"upload", "link", "add"}
    BY <1>1
  <2>. QED
    BY <1>0, <1>1, <2>1, AnswerTaken
<1>3. /\ g \in DOMAIN forms'
      /\ forms'[g].told = Append(forms[g].told, ok)
      /\ forms'[g].stage = forms[g].stage
      /\ \A f : f # g => RecordKept(f)
  BY <1>1, <1>2 DEF FormRecord, RecordKept
<1>4. forms'[g].told = <<TRUE, ok>>
  BY <1>2, <1>3, Told
<1>5. Decided(g, ok)'
  BY <1>1, <1>2, <1>3, <1>4 DEF Decided
<1>6. Fits(g)'
  BY <1>2, <1>5 DEF Fits
<1>7. \A f : WritesKept(f)
  BY <1>1 DEF WritesKept
<1>. QED
  BY <1>1, <1>2, <1>3, <1>6, <1>7, ChainMoved

\* A kill takes the answers on the main queue with it, and the screens.
LEMMA ChainRestart ==
  ASSUME TypeOK, Chain, Restart
  PROVE  Chain'
<1>1. /\ main' = <<>> /\ UNCHANGED <<queue, stored>>
      /\ forms' = [f \in DOMAIN forms |-> Orphaned(forms[f])]
  BY DEF Restart, Launched
<1>2. \A f : NoAnswer(main', f)
  BY <1>1 DEF NoAnswer
<1>3. ASSUME NEW f \in Form
      PROVE  Fits(f)'
  <2>1. CASE f \notin DOMAIN forms
    <3>1. Unborn(f)
      BY <2>1 DEF Chain, Fits, InStorage, GivenUp, InQueue, Decided
    <3>. QED
      BY <1>1, <1>2, <2>1, <3>1 DEF Fits, Unborn
  <2>2. CASE f \in DOMAIN forms
    <3>1. forms[f] \in FormRecord
      BY <2>2, ElementOfSeq, LenProperties DEF TypeOK
    <3>2. /\ f \in DOMAIN forms' /\ forms'[f].screen = 0
          /\ forms'[f].told = forms[f].told
          /\ forms'[f].stage = IF forms[f].stage \in {"uploading", "linking", "answered"}
                               THEN "lost" ELSE forms[f].stage
      BY <1>1, <2>2, <3>1 DEF Orphaned, FormRecord
    <3>3. CASE InStorage(f)
      BY <1>1, <1>2, <3>2, <3>3 DEF InStorage, GivenUp, Fits
    <3>4. CASE GivenUp(f)
      BY <1>1, <1>2, <3>2, <3>4 DEF GivenUp, Fits
    <3>5. CASE InQueue(f)
      BY <1>1, <1>2, <3>2, <3>5 DEF InQueue, Fits
    <3>6. ASSUME NEW ok \in BOOLEAN, Decided(f, ok)
          PROVE  Decided(f, ok)'
      BY <1>1, <1>2, <3>2, <3>6 DEF Decided
    <3>7. CASE Decided(f, TRUE) \/ Decided(f, FALSE)
      BY <3>6, <3>7 DEF Fits
    <3>. QED
      BY <2>2, <3>3, <3>4, <3>5, <3>7 DEF Chain, Fits, Unborn
  <2>. QED
    BY <2>1, <2>2
<1>. QED
  BY <1>3 DEF Chain

\* Every step leaves every form in its chain.
LEMMA ChainStep ==
  ASSUME TypeOK, Chain, [Next]_vars
  PROVE  Chain'
<1>0. main \in Seq(Task)
  BY DEF TypeOK
<1>1. ASSUME NEW kind \in {"login", "signup"}, NEW a \in Account, PressSignIn(kind, a)
      PROVE  Chain'
  BY <1>1, ChainIdle DEF PressSignIn, sdk
<1>2. ASSUME NEW c \in calls, SignInAnswered(c)
      PROVE  Chain'
  <2>1. c \in Call /\ c.account \in User
    BY DEF TypeOK, Call, User
  <2>2. /\ SignedIn(c, TRUE) \in Task /\ SignedIn(c, FALSE) \in Task
        /\ Credential(c.account) \in Task
    BY <2>1, TasksTyped
  <2>3. /\ SignedIn(c, TRUE).kind = "signedIn" /\ SignedIn(c, FALSE).kind = "signedIn"
        /\ Credential(c.account).kind = "credential"
    BY DEF SignedIn, Credential
  <2>4. UNCHANGED <<forms, queue, stored>>
    BY <1>2 DEF SignInAnswered, sdk
  <2>5. CASE main' = Append(main, SignedIn(c, FALSE))
    BY <2>2, <2>3, <2>4, <2>5, ChainIdle
  <2>6. CASE main' = main \o <<Credential(c.account), SignedIn(c, TRUE)>>
    <3>0. PICK d, e : d = Credential(c.account) /\ e = SignedIn(c, TRUE)
      OBVIOUS
    <3>1. /\ d \in Task /\ e \in Task /\ main' = main \o <<d, e>>
          /\ \A f : ~About(d, f) /\ ~About(e, f)
      BY <2>2, <2>3, <2>6, <3>0 DEF About
    <3>2. main' = Append(Append(main, d), e) /\ Append(main, d) \in Seq(Task)
      BY <1>0, <3>1
    <3>3. ASSUME NEW f \in Form
          PROVE  Fits(f)'
      <4>1. AnswersKept(f)
        BY <1>0, <3>1, <3>2, AnswerPushed DEF AnswersKept
      <4>2. WritesKept(f) /\ RecordKept(f)
        BY <2>4 DEF WritesKept, RecordKept
      <4>. QED
        BY <2>4, <4>1, <4>2, FitsKept DEF Chain
    <3>. QED
      BY <3>3 DEF Chain
  <2>. QED
    BY <1>2, <2>5, <2>6 DEF SignInAnswered
<1>3. ASSUME CredentialChange
      PROVE  Chain'
  BY <1>3, ChainIdle DEF CredentialChange
<1>4. ASSUME SignInCompleted
      PROVE  Chain'
  BY <1>4, ChainIdle DEF SignInCompleted
<1>5. ASSUME SignOut
      PROVE  Chain'
  <2>1. /\ Credential(NoOne) \in Task
        /\ Credential(NoOne).kind = "credential"
    <3>1. Credential(NoOne) \in Task
      BY TasksTyped DEF User
    <3>. QED
      BY <3>1 DEF Credential
  <2>2. main' = main \/ main' = Append(main, Credential(NoOne))
    BY <1>5 DEF SignOut
  <2>3. UNCHANGED <<forms, queue, stored>>
    BY <1>5 DEF SignOut, sdk
  <2>. QED
    BY <2>1, <2>2, <2>3, ChainIdle
<1>6. ASSUME DismissAlert \/ UNCHANGED vars
      PROVE  Chain'
  BY <1>6, ChainIdle DEF DismissAlert, vars, sdk
<1>7. ASSUME DocumentAcknowledged
      PROVE  Chain'
  <2>1. \A f : RecordKept(f)
    BY <1>7 DEF DocumentAcknowledged, RecordKept
  <2>. QED
    BY <1>7, <2>1, ChainDecided DEF DocumentAcknowledged
<1>8. ASSUME DocumentRefused
      PROVE  Chain'
  <2>0. PICK g : g = FirstWrite
    OBVIOUS
  <2>1. InQueue(g) /\ forms[g] \in FormRecord
    BY <1>8, <2>0, WriteTaken DEF DocumentRefused
  <2>2. forms' = [forms EXCEPT ![g].stage = "refused"]
    BY <1>8, <2>0 DEF DocumentRefused
  <2>3. /\ g \in DOMAIN forms'
        /\ forms'[g].told = forms[g].told /\ forms'[g].screen = forms[g].screen
        /\ forms'[g].stage = "refused"
        /\ \A f : f # g => RecordKept(f)
    BY <2>1, <2>2 DEF InQueue, FormRecord, RecordKept
  <2>. QED
    BY <1>8, <2>0, <2>3, ChainDecided DEF DocumentRefused
<1>. QED
  BY <1>1, <1>2, <1>3, <1>4, <1>5, <1>6, <1>7, <1>8, ChainPressCreate,
     ChainStorageAnswers, ChainUploaded, ChainDocumentAdded, ChainDocumentStored,
     ChainAdded, ChainRestart
  DEF Next

\* Every form that was pressed is in its chain for ever.
LEMMA ChainHolds == Spec => [](TypeOK /\ Chain)
<1>1. Init => Chain
  BY EmptySeq DEF Init, Chain, Fits, Unborn, NoAnswer, Unqueued
<1>. QED
  BY <1>1, ChainStep, TypeCorrect, PTL DEF Spec

\* What the create screen is told is true: a second success means a stored
\* profile, and a profile whose failure was told is never stored, in spite of
\* kills, sign-outs and refusals in between.
THEOREM AnswersTrue == Spec => []AnswersAreTrue
<1>1. ASSUME TypeOK, Chain
      PROVE  AnswersAreTrue
  <2>1. SUFFICES ASSUME NEW f \in DOMAIN forms
                 PROVE  /\ forms[f].told = <<TRUE, TRUE>> => f \in stored
                        /\ forms[f].told \in {<<FALSE>>, <<TRUE, FALSE>>} => f \notin stored
    BY DEF AnswersAreTrue
  <2>2. f \in Form
    BY <1>1, BoundsAreNaturals, LenProperties DEF TypeOK, Form
  <2>3. /\ {<<>>, <<TRUE>>} \cap {<<FALSE>>, <<TRUE, FALSE>>, <<TRUE, TRUE>>} = {}
        /\ <<TRUE, TRUE>> \notin {<<FALSE>>, <<TRUE, FALSE>>}
    BY Distinct
  <2>4. CASE InStorage(f) \/ GivenUp(f)
    BY <2>3, <2>4 DEF InStorage, GivenUp
  <2>5. CASE InQueue(f)
    BY <2>3, <2>5 DEF InQueue
  <2>6. CASE Decided(f, TRUE)
    BY <2>3, <2>6 DEF Decided
  <2>7. CASE Decided(f, FALSE)
    BY <2>3, <2>7 DEF Decided
  <2>. QED
    BY <1>1, <2>2, <2>4, <2>5, <2>6, <2>7 DEF Chain, Fits, Unborn
<1>. QED
  BY <1>1, ChainHolds, PTL

\* No press of the create button is forgotten: when nothing is under way, it
\* failed, had its second answer, lost its process, or its document waits in
\* the queue of a user who has signed out.
THEOREM NoneForgotten == Spec => []NothingForgotten
<1>1. ASSUME TypeOK, Chain, ~Busy, ~Waiting, NEW f \in DOMAIN forms
      PROVE  \/ forms[f].told = <<FALSE>>
             \/ Len(forms[f].told) = 2
             \/ forms[f].screen = 0
             \/ \E u \in User \ {sdkUser} : \E i \in DOMAIN queue[u] : queue[u][i] = f
  <2>1. f \in Form
    BY <1>1, BoundsAreNaturals, LenProperties DEF TypeOK, Form
  <2>2. main = <<>> /\ forms[f].stage \notin {"uploading", "linking"}
    BY <1>1 DEF Busy
  <2>3. \A t : ~OneAnswer(main, f, t)
    BY <2>2 DEF OneAnswer
  <2>4. ~InStorage(f)
    BY <2>2, <2>3 DEF InStorage
  <2>5. CASE InQueue(f)
    <3>1. PICK u \in User : \E i \in DOMAIN queue[u] : queue[u][i] = f
      BY <2>5 DEF InQueue, QueuedOnce
    <3>2. queue[u] # <<>>
      BY <3>1
    <3>3. u # sdkUser
      BY <1>1, <3>2, NotStartedIsNoUser DEF Waiting
    <3>. QED
      BY <3>1, <3>3
  <2>6. ASSUME NEW ok \in BOOLEAN, Decided(f, ok)
        PROVE  Len(forms[f].told) = 2 \/ forms[f].screen = 0
    BY <2>3, <2>6, Told DEF Decided
  <2>. QED
    BY <1>1, <2>1, <2>4, <2>5, <2>6 DEF Chain, Fits, Unborn, GivenUp
<1>2. TypeOK /\ Chain => NothingForgotten
  BY <1>1 DEF NothingForgotten
<1>. QED
  BY <1>2, ChainHolds, PTL

-------------------------------------------------------------------------------
(* A user who waits has one thing under way *)

\* What one more task, or one fewer, does to the completions of sign-ins.
LEMMA SignInPushed ==
  ASSUME NEW m \in Seq(Task), NEW t \in Task
  PROVE  /\ t.kind # "signedIn" /\ NoSignIn(m) => NoSignIn(Append(m, t))
         /\ \A s : t.kind # "signedIn" /\ OnlySignIn(m, s) => OnlySignIn(Append(m, t), s)
         /\ t.kind = "signedIn" /\ NoSignIn(m) => OnlySignIn(Append(m, t), t)
<1> DEFINE n == Append(m, t)
<1>1. /\ Len(m) \in Nat /\ DOMAIN m = 1..Len(m) /\ DOMAIN n = 1..(Len(m) + 1)
      /\ \A i \in DOMAIN m : n[i] = m[i]
      /\ n[Len(m) + 1] = t
  BY AppendProperties, LenProperties
<1>2. Len(m) + 1 \in DOMAIN n /\ \A i \in DOMAIN m : i \in DOMAIN n
  BY <1>1
<1>3. \A i \in DOMAIN n : (i \in DOMAIN m /\ n[i] = m[i]) \/ (i = Len(m) + 1 /\ n[i] = t)
  BY <1>1
<1>. HIDE DEF n
<1>4. t.kind # "signedIn" /\ NoSignIn(m) => NoSignIn(n)
  BY <1>3 DEF NoSignIn
<1>5. ASSUME NEW s, t.kind # "signedIn", OnlySignIn(m, s)
      PROVE  OnlySignIn(n, s)
  <2>1. PICK i \in DOMAIN m :
          m[i] = s /\ \A j \in DOMAIN m : m[j].kind = "signedIn" => j = i
    BY <1>5 DEF OnlySignIn
  <2>2. i \in DOMAIN n /\ n[i] = s
    BY <1>1, <1>2, <2>1
  <2>3. \A j \in DOMAIN n : n[j].kind = "signedIn" => j = i
    BY <1>3, <1>5, <2>1
  <2>. QED
    BY <1>5, <2>2, <2>3 DEF OnlySignIn
<1>6. t.kind = "signedIn" /\ NoSignIn(m) => OnlySignIn(n, t)
  BY <1>1, <1>2, <1>3 DEF NoSignIn, OnlySignIn
<1>. QED
  BY <1>4, <1>5, <1>6 DEF n

LEMMA SignInPopped ==
  ASSUME NEW m \in Seq(Task), m # <<>>
  PROVE  /\ NoSignIn(m) => NoSignIn(Tail(m)) /\ Head(m).kind # "signedIn"
         /\ \A s : Head(m).kind # "signedIn" /\ OnlySignIn(m, s) => OnlySignIn(Tail(m), s)
         /\ \A s : Head(m).kind = "signedIn" /\ OnlySignIn(m, s)
                     => Head(m) = s /\ NoSignIn(Tail(m))
<1> DEFINE n == Tail(m)
<1>1. /\ Len(m) \in Nat \ {0} /\ DOMAIN m = 1..Len(m)
      /\ Head(m) = m[1] /\ DOMAIN n = 1..(Len(m) - 1)
      /\ \A i \in DOMAIN n : n[i] = m[i + 1]
  BY HeadTailProperties, LenProperties, EmptySeq
<1>2. 1 \in DOMAIN m /\ \A i \in DOMAIN n : i + 1 \in DOMAIN m /\ i + 1 # 1
  BY <1>1
<1>. HIDE DEF n
<1>3. \A j \in DOMAIN m : j = 1 \/ (j - 1 \in DOMAIN n /\ n[j - 1] = m[j])
  BY <1>1
<1>4. NoSignIn(m) => NoSignIn(n) /\ Head(m).kind # "signedIn"
  BY <1>1, <1>2 DEF NoSignIn
<1>5. ASSUME NEW s, Head(m).kind # "signedIn", OnlySignIn(m, s)
      PROVE  OnlySignIn(n, s)
  <2>1. PICK i \in DOMAIN m :
          m[i] = s /\ \A j \in DOMAIN m : m[j].kind = "signedIn" => j = i
    BY <1>5 DEF OnlySignIn
  <2>2. i # 1 /\ s.kind = "signedIn"
    BY <1>1, <1>5, <2>1 DEF OnlySignIn
  <2>3. i - 1 \in DOMAIN n /\ n[i - 1] = s
    BY <1>3, <2>1, <2>2
  <2>4. ASSUME NEW j \in DOMAIN n, n[j].kind = "signedIn"
        PROVE  j = i - 1
    <3>1. j + 1 = i
      BY <1>1, <1>2, <2>1, <2>4
    <3>. QED
      BY <1>1, <3>1
  <2>. QED
    BY <2>2, <2>3, <2>4 DEF OnlySignIn
<1>6. ASSUME NEW s, Head(m).kind = "signedIn", OnlySignIn(m, s)
      PROVE  Head(m) = s /\ NoSignIn(n)
  <2>1. PICK i \in DOMAIN m :
          m[i] = s /\ \A j \in DOMAIN m : m[j].kind = "signedIn" => j = i
    BY <1>6 DEF OnlySignIn
  <2>2. i = 1
    BY <1>1, <1>2, <1>6, <2>1
  <2>3. \A j \in DOMAIN n : n[j].kind # "signedIn"
    BY <1>1, <1>2, <2>1, <2>2
  <2>. QED
    BY <1>1, <2>1, <2>2, <2>3 DEF NoSignIn
<1>. QED
  BY <1>4, <1>5, <1>6 DEF n

\* Whose completion is the only one is who arrives.
LEMMA WhoArrives ==
  ASSUME NEW m, NEW a
  PROVE  /\ NoSignIn(m) => ~Arriving(m, a)
         /\ \A t : OnlySignIn(m, t) =>
              (Arriving(m, a) <=> /\ t.ok
                                  /\ t.call.kind = "signup" /\ t.call.account = a)
BY DEF NoSignIn, OnlySignIn, Arriving

\* What a step does to the main queue that leaves the sign-ins alone.
SignInsKept ==
  /\ NoSignIn(main) => NoSignIn(main')
  /\ \A t : OnlySignIn(main, t) => OnlySignIn(main', t)

LEMMA SignInsStay ==
  ASSUME TypeOK,
         \/ main' = main
         \/ \E t \in Task : main' = Append(main, t) /\ t.kind # "signedIn"
         \/ main # <<>> /\ main' = Tail(main) /\ Head(main).kind # "signedIn"
  PROVE  SignInsKept
<1>1. main \in Seq(Task)
  BY DEF TypeOK
<1>2. CASE main' = main
  BY <1>2 DEF SignInsKept
<1>3. CASE \E t \in Task : main' = Append(main, t) /\ t.kind # "signedIn"
  <2>1. PICK t \in Task : main' = Append(main, t) /\ t.kind # "signedIn"
    BY <1>3
  <2>. QED
    BY <1>1, <2>1, SignInPushed DEF SignInsKept
<1>4. CASE main # <<>> /\ main' = Tail(main) /\ Head(main).kind # "signedIn"
  BY <1>1, <1>4, SignInPopped DEF SignInsKept
<1>. QED
  BY <1>2, <1>3, <1>4

\* The screens are never empty; what one more screen does to the front one.
LEMMA FrontIs ==
  ASSUME TypeOK
  PROVE  /\ Len(screens) \in DOMAIN screens /\ Len(screens) \in Nat \ {0}
         /\ DOMAIN screens = 1..Len(screens)
         /\ Front = screens[Len(screens)] /\ Front \in Screen
BY EmptySeq, ElementOfSeq, LenProperties DEF TypeOK, Front

LEMMA ScreenPushed ==
  ASSUME NEW ss \in Seq(Screen), NEW s
  PROVE  /\ Append(ss, s)[Len(Append(ss, s))] = s
         /\ Len(Append(ss, s)) = Len(ss) + 1
         /\ DOMAIN Append(ss, s) = DOMAIN ss \cup {Len(ss) + 1}
         /\ Len(ss) + 1 \notin DOMAIN ss
         /\ \A i \in DOMAIN ss : Append(ss, s)[i] = ss[i]
         /\ Append(ss, s)[Len(ss) + 1] = s
OBVIOUS

\* The screens differ.
LEMMA ScreensDiffer ==
  /\ Login # Players
  /\ Login.kind # "create" /\ Players.kind # "create"
  /\ \A a : /\ Create(a).kind = "create" /\ Create(a).account = a
            /\ Create(a) # Login /\ Create(a) # Players
BY DEF Login, Players, Create

LEMMA CreateScreen ==
  ASSUME NEW s \in Screen, s.kind = "create"
  PROVE  s.account \in Account /\ s = Create(s.account)
BY DEF Screen, Create

\* A form at rest fits whatever the user, the alert and the next screen are.
LEMMA FormRests ==
  ASSUME NEW r, NEW ss, NEW u, NEW v, NEW al, NEW bl,
         FormFits(r, ss, u, al), r.stage \notin OfStorage
  PROVE  FormFits(r, ss, v, bl)
BY DEF FormFits

LEMMA FormUnder ==
  ASSUME NEW r, NEW ss \in Seq(Screen), NEW s, NEW u, NEW v, NEW al, NEW bl,
         FormFits(r, ss, u, al), r.stage \notin OfStorage, s # Create(r.author)
  PROVE  FormFits(r, Append(ss, s), v, bl)
<1> DEFINE tt == Append(ss, s)
<1>1. /\ Len(tt) = Len(ss) + 1 /\ DOMAIN tt = DOMAIN ss \cup {Len(ss) + 1}
      /\ Len(ss) + 1 \notin DOMAIN ss /\ tt[Len(ss) + 1] = s
      /\ \A i \in DOMAIN ss : tt[i] = ss[i]
  BY ScreenPushed
<1>. HIDE DEF tt
<1>2. /\ r.screen \in {0} \cup DOMAIN ss
      /\ \A i \in DOMAIN ss : ss[i] = Create(r.author) <=> i = r.screen
      /\ Promised(r) => r.screen < Len(ss)
      /\ r.stage \in {"written", "refused"} => r.email = r.author
  BY DEF FormFits
<1>3. Len(ss) \in Nat /\ r.screen \in Nat /\ r.screen # Len(ss) + 1
  <2>1. Len(ss) \in Nat /\ DOMAIN ss = 1..Len(ss)
    BY LenProperties
  <2>. QED
    BY <1>2, <2>1
<1>4. r.screen \in {0} \cup DOMAIN tt
  BY <1>1, <1>2
<1>5. \A i \in DOMAIN tt : tt[i] = Create(r.author) <=> i = r.screen
  BY <1>1, <1>2, <1>3
<1>6. Promised(r) => r.screen < Len(tt)
  BY <1>1, <1>2, <1>3
<1>. QED
  BY <1>2, <1>4, <1>5, <1>6 DEF FormFits, tt

\* Another screen on top.
LEMMA ScreensUnder ==
  ASSUME NEW ss \in Seq(Screen), NEW s, NEW known, ScreensFit(ss, known),
         s.kind = "create" => s.account \in known /\ \A i \in DOMAIN ss : ss[i] # s
  PROVE  ScreensFit(Append(ss, s), known)
<1> DEFINE tt == Append(ss, s)
<1>1. /\ DOMAIN tt = DOMAIN ss \cup {Len(ss) + 1}
      /\ tt[Len(ss) + 1] = s
      /\ \A i \in DOMAIN ss : tt[i] = ss[i]
  BY ScreenPushed
<1>. HIDE DEF tt
<1>2. ScreensFit(tt, known)
  BY <1>1 DEF ScreensFit
<1>. QED
  BY <1>2 DEF tt

InTurn ==
  /\ OneSession /\ FormsFit /\ AccountsFit
  /\ Uninterrupted => \A a \in accounts : OnItsWay(a)

LEMMA Returned ==
  ASSUME NEW t, Returning(t)'
  PROVE  OneSession'
BY DEF OneSession, Returning, OnlySignIn

LEMMA ArrivalsKept ==
  ASSUME OneSession, SignInsKept, NEW a
  PROVE  Arriving(main', a) <=> Arriving(main, a)
<1>1. CASE NoSignIn(main)
  BY <1>1, WhoArrives DEF SignInsKept
<1>2. CASE \E t : OnlySignIn(main, t)
  <2>1. PICK t : OnlySignIn(main, t)
    BY <1>2
  <2>2. OnlySignIn(main', t)
    BY <2>1 DEF SignInsKept
  <2>. QED
    BY <2>1, <2>2, WhoArrives
<1>. QED
  BY <1>1, <1>2 DEF OneSession, NotSigningIn, Calling, Returning

\* A form that a step leaves in its turn.
RecordQuiet(f) ==
  /\ forms'[f].screen = forms[f].screen /\ forms'[f].author = forms[f].author
  /\ Promised(forms'[f]) <=> Promised(forms[f])
  /\ forms'[f].stage \in OfStorage => forms[f].stage \in OfStorage
  /\ forms'[f].stage \in {"written", "refused"} => forms'[f].email = forms'[f].author
  /\ /\ Uninterrupted' /\ Promised(forms[f])
     /\ forms[f].stage \in {"linking", "answered", "written"}
     => forms'[f].stage \in {"linking", "answered", "written"}

LEMMA FormKept ==
  ASSUME NEW r, NEW s, NEW ss, NEW u, NEW al, NEW bl, FormFits(r, ss, u, al),
         bl => al, s.screen = r.screen, s.author = r.author,
         Promised(s) <=> Promised(r), s.stage \in OfStorage => r.stage \in OfStorage,
         s.stage \in {"written", "refused"} => s.email = s.author
  PROVE  FormFits(s, ss, u, bl)
BY DEF FormFits

\* A step that neither the session nor the screens notice.
LEMMA QuietStep ==
  ASSUME TypeOK, InTurn, UNCHANGED <<accounts, user, calls, screens>>,
         alert' => alert, SignInsKept, Uninterrupted' => Uninterrupted,
         DOMAIN forms' = DOMAIN forms, \A f \in DOMAIN forms : RecordQuiet(f)
  PROVE  InTurn'
<1>1. OneSession'
  <2>0. Front' = Front
    BY DEF Front
  <2>1. CASE NotSigningIn
    <3>1. NotSigningIn'
      BY <2>0, <2>1 DEF NotSigningIn, SignInsKept
    <3>. QED
      BY <3>1 DEF OneSession
  <2>2. ASSUME NEW c, AtLogin(c)
        PROVE  AtLogin(c)'
    BY <2>0, <2>2 DEF AtLogin, RecordQuiet
  <2>3. ASSUME NEW c \in calls, Calling(c)
        PROVE  OneSession'
    <3>1. Calling(c)'
      BY <2>2, <2>3 DEF Calling, SignInsKept
    <3>. QED
      BY <2>3, <3>1 DEF OneSession
  <2>4. ASSUME NEW t, Returning(t)
        PROVE  OneSession'
    <3>1. Returning(t)'
      BY <2>2, <2>4 DEF Returning, SignInsKept
    <3>. QED
      BY <3>1, Returned
  <2>. QED
    BY <2>1, <2>3, <2>4 DEF InTurn, OneSession
<1>2. FormsFit'
  <2>1. ASSUME NEW f \in DOMAIN forms
        PROVE  FormFits(forms'[f], screens, user, alert')
    <3>1. FormFits(forms[f], screens, user, alert) /\ RecordQuiet(f)
      BY <2>1 DEF InTurn, FormsFit
    <3>. QED
      BY <3>1, FormKept DEF RecordQuiet
  <2>2. ASSUME NEW f \in DOMAIN forms, NEW g \in DOMAIN forms,
               Rivals(forms'[f], forms'[g])
        PROVE  f = g
    <3>1. Rivals(forms[f], forms[g])
      BY <2>2 DEF Rivals, RecordQuiet
    <3>. QED
      BY <3>1 DEF InTurn, FormsFit
  <2>. QED
    BY <2>1, <2>2 DEF FormsFit
<1>3. \A a : Arriving(main', a) <=> Arriving(main, a)
  BY ArrivalsKept DEF InTurn
<1>4. \A f \in DOMAIN forms : forms'[f].author = forms[f].author
  BY DEF RecordQuiet
<1>5. AccountsFit'
  BY <1>3, <1>4 DEF AccountsFit, InTurn
<1>6. ASSUME Uninterrupted', NEW a \in accounts
      PROVE  OnItsWay(a)'
  <2>1. OnItsWay(a)
    BY <1>6 DEF InTurn
  <2>2. CASE Arriving(main, a)
    BY <1>3, <2>2 DEF OnItsWay
  <2>3. CASE Front = Create(a)
    BY <2>3 DEF OnItsWay, Front
  <2>4. ASSUME NEW f \in DOMAIN forms, forms[f].author = a, Promised(forms[f]),
               forms[f].stage \in {"linking", "answered", "written"}
        PROVE  OnItsWay(a)'
    <3>1. /\ forms'[f].author = a /\ Promised(forms'[f])
          /\ forms'[f].stage \in {"linking", "answered", "written"}
      BY <1>6, <2>4 DEF RecordQuiet
    <3>. QED
      BY <3>1 DEF OnItsWay
  <2>. QED
    BY <2>1, <2>2, <2>3, <2>4 DEF OnItsWay
<1>. QED
  BY <1>1, <1>2, <1>5, <1>6 DEF InTurn

\* When the user may press a button again, nothing waits for Storage.
LEMMA NothingInStorage ==
  ASSUME TypeOK, Chain, ~Busy, NEW f \in DOMAIN forms
  PROVE  forms[f].stage \notin OfStorage
<1>1. main = <<>> /\ forms[f].stage \notin {"uploading", "linking"}
  BY DEF Busy
<1>2. f \in Form
  BY BoundsAreNaturals, LenProperties DEF TypeOK, Form
<1>3. \A t : ~OneAnswer(main, f, t)
  BY <1>1 DEF OneAnswer
<1>4. ~InStorage(f)
  BY <1>1, <1>3 DEF InStorage
<1>. QED
  BY <1>1, <1>2, <1>4
     DEF Chain, Fits, Unborn, GivenUp, InQueue, Decided, OfStorage

\* And nobody signs in.
LEMMA NobodySigningIn ==
  ASSUME OneSession, ~Busy
  PROVE  NotSigningIn
BY DEF Busy, OneSession, Calling, Returning, OnlySignIn

\* The completion of a sign-in finds its screen in front.
LEMMA SignInFound ==
  ASSUME TypeOK, OneSession, main # <<>>, Head(main).kind = "signedIn"
  PROVE  Returning(Head(main)) /\ NoSignIn(Tail(main))
<1>1. main \in Seq(Task) /\ ~NoSignIn(main)
  BY SignInPopped DEF TypeOK
<1>2. PICK t : Returning(t)
  BY <1>1 DEF OneSession, NotSigningIn, Calling
<1>3. t = Head(main) /\ NoSignIn(Tail(main))
  BY <1>1, <1>2, SignInPopped DEF Returning
<1>. QED
  BY <1>2, <1>3

\* A step that changes no form.
LEMMA SameForms ==
  ASSUME TypeOK, InTurn, forms' = forms, Uninterrupted' => Uninterrupted
  PROVE  \A f \in DOMAIN forms : RecordQuiet(f)
BY DEF RecordQuiet, InTurn, FormsFit, FormFits

LEMMA TurnTaskDone ==
  ASSUME TypeOK, InTurn, CredentialChange \/ DismissAlert \/ DocumentStored
  PROVE  InTurn'
<1>1. /\ UNCHANGED <<accounts, user, calls, screens, forms, lost, refusals, kills>>
      /\ alert' => alert
  BY DEF CredentialChange, DismissAlert, DocumentStored, session, ui, sdk, counters
<1>2. SignInsKept
  <2>1. \/ main' = main
        \/ main # <<>> /\ main' = Tail(main) /\ Head(main).kind # "signedIn"
    BY DEF CredentialChange, DismissAlert, DocumentStored
  <2>. QED
    BY <2>1, SignInsStay
<1>3. Uninterrupted' => Uninterrupted
  BY <1>1 DEF Uninterrupted
<1>4. \A f \in DOMAIN forms : RecordQuiet(f)
  BY <1>1, <1>3, SameForms
<1>. QED
  BY <1>1, <1>2, <1>3, <1>4, QuietStep

LEMMA TurnStorageAnswers ==
  ASSUME TypeOK, InTurn, NEW g \in DOMAIN forms, StorageAnswers(g)
  PROVE  InTurn'
<1>1. g \in Form /\ forms[g] \in FormRecord
  BY BoundsAreNaturals, LenProperties, ElementOfSeq DEF TypeOK, Form
<1>2. PICK ok \in BOOLEAN, k \in {"upload", "link"} :
        /\ main' = Append(main, Answer(k, g, ok))
        /\ forms[g].stage \in {"uploading", "linking"}
  BY DEF StorageAnswers
<1>3. /\ UNCHANGED <<accounts, user, calls, screens, alert, lost, refusals, kills>>
      /\ forms' = [forms EXCEPT ![g].stage = "answered"]
  BY DEF StorageAnswers, session, ui, counters
<1>4. SignInsKept
  <2>1. Answer(k, g, ok) \in Task
    BY <1>1, TasksTyped
  <2>2. Answer(k, g, ok).kind # "signedIn"
    BY DEF Answer
  <2>. QED
    BY <1>2, <2>1, <2>2, SignInsStay
<1>5. Uninterrupted' => Uninterrupted
  BY <1>3 DEF Uninterrupted
<1>6. /\ DOMAIN forms' = DOMAIN forms
      /\ \A f \in DOMAIN forms : f # g => forms'[f] = forms[f]
      /\ forms'[g].screen = forms[g].screen /\ forms'[g].author = forms[g].author
      /\ forms'[g].told = forms[g].told /\ forms'[g].stage = "answered"
  BY <1>1, <1>3 DEF FormRecord
<1>7. RecordQuiet(g)
  BY <1>2, <1>6 DEF RecordQuiet, Promised, OfStorage
<1>8. ASSUME NEW f \in DOMAIN forms, f # g
      PROVE  RecordQuiet(f)
  BY <1>5, <1>6, <1>8 DEF RecordQuiet, InTurn, FormsFit, FormFits
<1>. QED
  BY <1>3, <1>4, <1>5, <1>6, <1>7, <1>8, QuietStep

\* What Promised says of what the caller was told.
LEMMA PromisedIs ==
  ASSUME NEW r
  PROVE  /\ r.told = <<>> => ~Promised(r)
         /\ \A ok \in BOOLEAN : r.told = <<ok>> => (Promised(r) <=> ok)
         /\ \A ok \in BOOLEAN : r.told = <<TRUE, ok>> => Promised(r)
<1>1. r.told = <<>> => ~Promised(r)
  BY DEF Promised
<1>2. ASSUME NEW ok \in BOOLEAN, r.told = <<ok>>
      PROVE  Promised(r) <=> ok
  <2>1. <<ok>> # <<>> /\ <<ok>>[1] = ok
    BY Told
  <2>. QED
    BY <1>2, <2>1 DEF Promised
<1>3. ASSUME NEW ok \in BOOLEAN, r.told = <<TRUE, ok>>
      PROVE  Promised(r)
  <2>1. <<TRUE, ok>> # <<>> /\ <<TRUE, ok>>[1] = TRUE
    BY Told
  <2>. QED
    BY <1>3, <2>1 DEF Promised
<1>. QED
  BY <1>1, <1>2, <1>3

LEMMA TurnDocumentAdded ==
  ASSUME TypeOK, Chain, InTurn, DocumentAdded
  PROVE  InTurn'
<1>0. PICK g, ok : g = Head(main).form /\ ok = Head(main).ok
  OBVIOUS
<1>1. /\ main # <<>> /\ main' = Tail(main) /\ Head(main).kind = "link"
      /\ UNCHANGED <<accounts, user, calls, screens, alert, lost, refusals, kills>>
      /\ forms' = [forms EXCEPT ![g].email = user, ![g].linked = ok, ![g].stage = "written"]
  BY <1>0 DEF DocumentAdded, session, ui, counters
<1>2. /\ g \in DOMAIN forms /\ forms[g] \in FormRecord
      /\ forms[g].told = <<TRUE>> /\ forms[g].stage = "answered"
  BY <1>0, <1>1, AnswerTaken
<1>3. SignInsKept
  BY <1>1, SignInsStay
<1>4. Uninterrupted' => Uninterrupted
  BY <1>1 DEF Uninterrupted
<1>5. /\ DOMAIN forms' = DOMAIN forms
      /\ \A f \in DOMAIN forms : f # g => forms'[f] = forms[f]
      /\ forms'[g].screen = forms[g].screen /\ forms'[g].author = forms[g].author
      /\ forms'[g].told = forms[g].told /\ forms'[g].stage = "written"
      /\ forms'[g].email = user
  BY <1>1, <1>2 DEF FormRecord
<1>6. forms[g].author = user
  BY <1>2 DEF InTurn, FormsFit, FormFits, OfStorage
<1>7. RecordQuiet(g)
  BY <1>5, <1>6 DEF RecordQuiet, Promised, OfStorage
<1>8. ASSUME NEW f \in DOMAIN forms, f # g
      PROVE  RecordQuiet(f)
  BY <1>4, <1>5, <1>8 DEF RecordQuiet, InTurn, FormsFit, FormFits
<1>. QED
  BY <1>1, <1>3, <1>4, <1>5, <1>7, <1>8, QuietStep

LEMMA TurnAcknowledged ==
  ASSUME TypeOK, InTurn, DocumentAcknowledged
  PROVE  InTurn'
<1>1. /\ Waiting /\ main' = main \o CompletionOf(FirstWrite, TRUE)
      /\ UNCHANGED <<accounts, user, calls, screens, alert, forms, lost, refusals, kills>>
  BY DEF DocumentAcknowledged, session, ui, counters
<1>2. SignInsKept
  <2>1. FirstWrite \in Form
    BY <1>1, QueueTyped
  <2>2. Answer("add", FirstWrite, TRUE).kind # "signedIn"
    BY DEF Answer
  <2>. QED
    BY <1>1, <2>1, <2>2, CompletionPushed, SignInsStay
<1>3. Uninterrupted' => Uninterrupted
  BY <1>1 DEF Uninterrupted
<1>4. \A f \in DOMAIN forms : RecordQuiet(f)
  BY <1>1, <1>3, SameForms
<1>. QED
  BY <1>1, <1>2, <1>3, <1>4, QuietStep

LEMMA TurnRefused ==
  ASSUME TypeOK, Chain, InTurn, DocumentRefused
  PROVE  InTurn'
<1>0. PICK g : g = FirstWrite
  OBVIOUS
<1>1. /\ Waiting /\ main' = main \o CompletionOf(g, FALSE)
      /\ forms' = [forms EXCEPT ![g].stage = "refused"]
      /\ refusals' = refusals + 1
      /\ UNCHANGED <<accounts, user, calls, screens, alert, lost, kills>>
  BY <1>0 DEF DocumentRefused, session, ui
<1>2. /\ g \in Form /\ g \in DOMAIN forms /\ forms[g] \in FormRecord
      /\ forms[g].stage = "written"
  BY <1>0, <1>1, WriteTaken DEF InQueue
<1>3. SignInsKept
  <2>1. Answer("add", g, FALSE).kind # "signedIn"
    BY DEF Answer
  <2>. QED
    BY <1>1, <1>2, <2>1, CompletionPushed, SignInsStay
<1>4. ~Uninterrupted'
  <2>1. refusals \in Nat
    BY BoundsAreNaturals DEF TypeOK
  <2>. QED
    BY <1>1, <2>1 DEF Uninterrupted
<1>5. /\ DOMAIN forms' = DOMAIN forms
      /\ \A f \in DOMAIN forms : f # g => forms'[f] = forms[f]
      /\ forms'[g].screen = forms[g].screen /\ forms'[g].author = forms[g].author
      /\ forms'[g].told = forms[g].told /\ forms'[g].stage = "refused"
      /\ forms'[g].email = forms[g].email
  BY <1>1, <1>2 DEF FormRecord
<1>6. forms[g].email = forms[g].author
  BY <1>2 DEF InTurn, FormsFit, FormFits
<1>7. RecordQuiet(g)
  BY <1>4, <1>5, <1>6 DEF RecordQuiet, Promised, OfStorage
<1>8. ASSUME NEW f \in DOMAIN forms, f # g
      PROVE  RecordQuiet(f)
  BY <1>4, <1>5, <1>8 DEF RecordQuiet, InTurn, FormsFit, FormFits
<1>. QED
  BY <1>1, <1>3, <1>4, <1>5, <1>7, <1>8, QuietStep

\* The screen of a form whose first answer was a success is not in front any
\* more: the second answer shows nothing.
LEMMA TurnAdded ==
  ASSUME TypeOK, Chain, InTurn, Added
  PROVE  InTurn'
<1>0. PICK g, ok : g = Head(main).form /\ ok = Head(main).ok
  OBVIOUS
<1>1. /\ main # <<>> /\ main' = Tail(main) /\ Head(main).kind = "add"
      /\ UNCHANGED <<accounts, user, calls, lost, refusals, kills>>
      /\ forms' = [forms EXCEPT ![g].told = Append(@, ok)]
      /\ Completion(g, ok)
  BY <1>0 DEF Added, session, counters
<1>2. /\ ok \in BOOLEAN /\ g \in DOMAIN forms /\ forms[g] \in FormRecord
      /\ forms[g].told = <<TRUE>>
      /\ forms[g].stage = IF ok THEN "written" ELSE "refused"
  <2>1. Head(main).kind \in {"upload", "link", "add"}
    BY <1>1
  <2>. QED
    BY <1>0, <1>1, <2>1, AnswerTaken
<1>3. Promised(forms[g])
  BY <1>2, PromisedIs
<1>4. FormFits(forms[g], screens, user, alert)
  BY <1>2 DEF InTurn, FormsFit
<1>5. forms[g].screen # Len(screens)
  <2>1. forms[g].screen < Len(screens)
    BY <1>3, <1>4 DEF FormFits
  <2>2. Len(screens) \in Nat
    BY FrontIs
  <2>. QED
    BY <2>1, <2>2
<1>6. screens' = screens /\ alert' = alert
  <2>1. alert \in BOOLEAN
    BY DEF TypeOK
  <2>. QED
    BY <1>1, <1>5, <2>1 DEF Completion, Segue, Alert, CanPresent
<1>7. SignInsKept
  BY <1>1, SignInsStay
<1>8. Uninterrupted' => Uninterrupted
  BY <1>1 DEF Uninterrupted
<1>9. /\ DOMAIN forms' = DOMAIN forms
      /\ \A f \in DOMAIN forms : f # g => forms'[f] = forms[f]
      /\ forms'[g].screen = forms[g].screen /\ forms'[g].author = forms[g].author
      /\ forms'[g].told = Append(forms[g].told, ok) /\ forms'[g].stage = forms[g].stage
      /\ forms'[g].email = forms[g].email
  BY <1>1, <1>2 DEF FormRecord
<1>10. Promised(forms'[g])
  <2>1. forms'[g].told = <<TRUE, ok>>
    BY <1>2, <1>9, Told
  <2>. QED
    BY <1>2, <2>1, PromisedIs
<1>11. RecordQuiet(g)
  BY <1>3, <1>4, <1>9, <1>10 DEF RecordQuiet, FormFits
<1>12. ASSUME NEW f \in DOMAIN forms, f # g
       PROVE  RecordQuiet(f)
  BY <1>8, <1>9, <1>12 DEF RecordQuiet, InTurn, FormsFit, FormFits
<1>. QED
  BY <1>1, <1>6, <1>7, <1>8, <1>9, <1>11, <1>12, QuietStep

\* A button was pressed, and not in haste.
LEMMA PressedInTurn ==
  ASSUME TypeOK, Chain, OneSession, Pressed, ~hasty'
  PROVE  /\ NotSigningIn /\ calls = {} /\ main = <<>>
         /\ \A f \in DOMAIN forms : forms[f].stage \notin OfStorage
         /\ \A a : ~Arriving(main, a)
<1>1. ~Busy
  BY DEF Pressed
<1>2. NotSigningIn /\ calls = {} /\ main = <<>>
  BY <1>1, NobodySigningIn DEF Busy
<1>. QED
  BY <1>1, <1>2, NothingInStorage, WhoArrives DEF NotSigningIn

LEMMA TurnPressSignIn ==
  ASSUME TypeOK, Chain, InTurn, ~hasty', NEW kind \in {"login", "signup"},
         NEW a \in Account, PressSignIn(kind, a)
  PROVE  InTurn'
<1>0. PICK c : c = [kind |-> kind, account |-> a, screen |-> Len(screens), n |-> presses + 1]
  OBVIOUS
<1>1. /\ Front = Login /\ ~alert /\ calls' = calls \cup {c} /\ Pressed
      /\ UNCHANGED <<accounts, user, screens, alert, forms, main, lost, refusals, kills>>
  BY <1>0 DEF PressSignIn, ui, sdk
<1>2. /\ NotSigningIn /\ calls = {}
      /\ \A f \in DOMAIN forms : forms[f].stage \notin OfStorage
  BY <1>1, PressedInTurn DEF InTurn
<1>3. c.screen = Len(screens)
  BY <1>0
<1>4. Calling(c)'
  BY <1>1, <1>2, <1>3 DEF Calling, AtLogin, NotSigningIn, Front
<1>5. OneSession'
  <2>1. c \in calls'
    BY <1>1
  <2>. QED
    BY <1>4, <2>1 DEF OneSession
<1>6. FormsFit' /\ AccountsFit'
  BY <1>1 DEF InTurn, FormsFit, AccountsFit
<1>7. \A b \in accounts : Uninterrupted' => OnItsWay(b)'
  BY <1>1 DEF InTurn, OnItsWay, Uninterrupted, Front
<1>. QED
  BY <1>1, <1>5, <1>6, <1>7 DEF InTurn

\* An account that is nowhere else on its way has a promised form.
LEMMA OnItsWayByForm ==
  ASSUME NEW a, OnItsWay(a), ~Arriving(main, a), Front # Create(a)
  PROVE  \E f \in DOMAIN forms :
           /\ forms[f].author = a /\ Promised(forms[f])
           /\ forms[f].stage \in {"linking", "answered", "written"}
BY DEF OnItsWay

\* The two tasks a successful sign-in dispatches.
LEMMA TwoPushed ==
  ASSUME NEW m \in Seq(Task), NEW d \in Task, NEW e \in Task,
         d.kind # "signedIn", e.kind = "signedIn", NoSignIn(m)
  PROVE  OnlySignIn(m \o <<d, e>>, e)
<1>1. m \o <<d, e>> = Append(Append(m, d), e) /\ Append(m, d) \in Seq(Task)
  OBVIOUS
<1>2. NoSignIn(Append(m, d))
  BY SignInPushed
<1>. QED
  BY <1>1, <1>2, SignInPushed

LEMMA TurnSignInAnswered ==
  ASSUME TypeOK, Chain, InTurn, NEW c \in calls, SignInAnswered(c)
  PROVE  InTurn'
<1>1. /\ calls' = calls \ {c}
      /\ UNCHANGED <<screens, alert, forms, refusals, kills>>
  BY DEF SignInAnswered, ui, sdk
<1>2. calls = {c} /\ Calling(c)
  BY DEF InTurn, OneSession, NotSigningIn, Calling, Returning
<1>3. /\ calls' = {} /\ NoSignIn(main) /\ AtLogin(c) /\ user = NoOne /\ Front = Login
      /\ \A f \in DOMAIN forms : forms[f].stage \notin OfStorage
  BY <1>1, <1>2 DEF Calling, AtLogin
<1>4. AtLogin(c)' /\ Front' = Front
  BY <1>1, <1>3 DEF AtLogin, Front
<1>5. c \in Call /\ c.account \in Account /\ c.kind \in {"login", "signup"}
  BY DEF TypeOK, Call
<1>6. main \in Seq(Task) /\ SignedIn(c, TRUE) \in Task /\ SignedIn(c, FALSE) \in Task
      /\ Credential(c.account) \in Task
  BY <1>5, TasksTyped DEF TypeOK, User
<1>7. /\ SignedIn(c, TRUE).kind = "signedIn" /\ SignedIn(c, FALSE).kind = "signedIn"
      /\ SignedIn(c, TRUE).ok = TRUE /\ SignedIn(c, FALSE).ok = FALSE
      /\ SignedIn(c, TRUE).call = c /\ SignedIn(c, FALSE).call = c
      /\ Credential(c.account).kind # "signedIn"
  BY DEF SignedIn, Credential
<1>8. FormsFit'
  <2>1. \A f \in DOMAIN forms : FormFits(forms[f], screens, user', alert)
    BY <1>3, FormRests DEF InTurn, FormsFit
  <2>. QED
    BY <1>1, <2>1 DEF InTurn, FormsFit
<1>9. \A b : ~Arriving(main, b) /\ Front # Create(b)
  BY <1>3, WhoArrives, ScreensDiffer
<1>10. ASSUME NEW b, OnItsWay(b) PROVE OnItsWay(b)'
  <2>1. \E f \in DOMAIN forms :
          /\ forms[f].author = b /\ Promised(forms[f])
          /\ forms[f].stage \in {"linking", "answered", "written"}
    BY <1>9, <1>10, OnItsWayByForm
  <2>. QED
    BY <1>1, <2>1 DEF OnItsWay
<1>11. ASSUME main' = Append(main, SignedIn(c, FALSE)), user' = user
       PROVE  OneSession' /\ \A b : ~Arriving(main', b)
  <2>1. OnlySignIn(main', SignedIn(c, FALSE))
    BY <1>3, <1>6, <1>7, <1>11, SignInPushed
  <2>2. Returning(SignedIn(c, FALSE))'
    BY <1>3, <1>4, <1>7, <1>11, <2>1 DEF Returning
  <2>. QED
    BY <1>7, <2>1, <2>2, Returned, WhoArrives
<1>12. ASSUME accounts \subseteq accounts'
       PROVE  /\ \A f \in DOMAIN forms : forms[f].author \in accounts'
              /\ ScreensFit(screens, accounts')
  BY <1>12 DEF InTurn, AccountsFit, ScreensFit
<1>13. CASE /\ c.kind = "login" <=> c.account \in accounts
            /\ accounts' = accounts \cup {c.account}
            /\ user' = c.account /\ lost' = lost
            /\ main' = main \o <<Credential(c.account), SignedIn(c, TRUE)>>
  <2>1. OnlySignIn(main', SignedIn(c, TRUE))
    BY <1>3, <1>6, <1>7, <1>13, TwoPushed
  <2>2. Returning(SignedIn(c, TRUE))'
    BY <1>3, <1>4, <1>7, <1>13, <2>1 DEF Returning
  <2>3. ASSUME NEW b
        PROVE  Arriving(main', b) <=> c.kind = "signup" /\ c.account = b
    <3> DEFINE t == SignedIn(c, TRUE)
    <3>1. Arriving(main', b) <=> t.ok /\ t.call.kind = "signup" /\ t.call.account = b
      BY <2>1, WhoArrives, Zenon
    <3>2. t.ok /\ t.call = c
      BY <1>7
    <3>. HIDE DEF t
    <3>. QED
      BY <3>1, <3>2
  <2>4. ASSUME c.kind = "signup"
        PROVE  /\ \A i \in DOMAIN screens : screens[i] # Create(c.account)
               /\ \A f \in DOMAIN forms : forms[f].author # c.account
    <3>1. c.account \notin accounts
      BY <1>13, <2>4
    <3>. QED
      BY <3>1, ScreensDiffer DEF InTurn, AccountsFit, ScreensFit
  <2>5. AccountsFit'
    BY <1>1, <1>12, <1>13, <2>3, <2>4 DEF AccountsFit
  <2>6. ASSUME Uninterrupted', NEW b \in accounts'
        PROVE  OnItsWay(b)'
    <3>1. CASE b \in accounts
      <4>1. Uninterrupted
        BY <1>1, <1>13, <2>6 DEF Uninterrupted
      <4>. QED
        BY <1>10, <3>1, <4>1 DEF InTurn
    <3>2. CASE b \notin accounts
      <4>1. b = c.account /\ c.kind = "signup"
        BY <1>5, <1>13, <2>6, <3>2
      <4>. QED
        BY <2>3, <4>1 DEF OnItsWay
    <3>. QED
      BY <3>1, <3>2
  <2>. QED
    BY <1>8, <2>2, <2>5, <2>6, Returned DEF InTurn
<1>14. CASE UNCHANGED <<accounts, user, lost>> /\ main' = Append(main, SignedIn(c, FALSE))
  <2>1. AccountsFit'
    BY <1>1, <1>11, <1>14 DEF InTurn, AccountsFit
  <2>2. Uninterrupted' => Uninterrupted
    BY <1>1, <1>14 DEF Uninterrupted
  <2>. QED
    BY <1>8, <1>10, <1>11, <1>14, <2>1, <2>2 DEF InTurn
<1>15. CASE /\ lost' = lost + 1 /\ accounts' = accounts \cup {c.account}
            /\ user' = user /\ main' = Append(main, SignedIn(c, FALSE))
  <2>1. AccountsFit'
    BY <1>1, <1>3, <1>11, <1>12, <1>15 DEF InTurn, AccountsFit
  <2>2. ~Uninterrupted'
    <3>1. lost \in Nat
      BY BoundsAreNaturals DEF TypeOK
    <3>. QED
      BY <1>15, <3>1 DEF Uninterrupted
  <2>. QED
    BY <1>8, <1>11, <1>15, <2>1, <2>2 DEF InTurn
<1>. QED
  BY <1>13, <1>14, <1>15 DEF SignInAnswered

\* Nothing of a form at rest changes when the screens under it do.
LEMMA FormsUnder ==
  ASSUME TypeOK, FormsFit, forms' = forms, NEW s, screens' = Append(screens, s),
         \A f \in DOMAIN forms : /\ forms[f].stage \notin OfStorage
                                 /\ s # Create(forms[f].author)
  PROVE  FormsFit'
<1>1. screens \in Seq(Screen)
  BY DEF TypeOK
<1>2. \A f \in DOMAIN forms : FormFits(forms[f], screens', user', alert')
  BY <1>1, FormUnder DEF FormsFit
<1>. QED
  BY <1>2 DEF FormsFit

LEMMA TurnSignInCompleted ==
  ASSUME TypeOK, Chain, InTurn, SignInCompleted
  PROVE  InTurn'
<1>0. PICK t : t = Head(main)
  OBVIOUS
<1>1. /\ main # <<>> /\ t.kind = "signedIn" /\ main' = Tail(main)
      /\ UNCHANGED <<accounts, user, calls, forms, lost, refusals, kills>>
  BY <1>0 DEF SignInCompleted, session, counters
<1>2. Returning(t) /\ NoSignIn(main')
  BY <1>0, <1>1, SignInFound DEF InTurn
<1>3. /\ calls' = {} /\ OnlySignIn(main, t) /\ AtLogin(t.call)
      /\ Front = Login /\ t.call.screen = Len(screens) /\ alert = FALSE
      /\ user = IF t.ok THEN t.call.account ELSE NoOne
      /\ \A f \in DOMAIN forms : forms[f].stage \notin OfStorage
  <2>1. alert \in BOOLEAN
    BY DEF TypeOK
  <2>. QED
    BY <1>1, <1>2, <2>1 DEF Returning, AtLogin
<1>4. t.ok \in BOOLEAN /\ t.call.account \in Account /\ t.call.kind \in {"login", "signup"}
  BY <1>0, <1>1, MainTyped DEF Task, Call
<1>5. \A a : ~Arriving(main', a)
  BY <1>2, WhoArrives
<1>6. Uninterrupted' => Uninterrupted
  BY <1>1 DEF Uninterrupted
<1>7. screens \in Seq(Screen)
  BY DEF TypeOK
<1>8. ASSUME NEW a, OnItsWay(a), ~Arriving(main, a)
      PROVE  OnItsWay(a)'
  <2>1. \E f \in DOMAIN forms :
          /\ forms[f].author = a /\ Promised(forms[f])
          /\ forms[f].stage \in {"linking", "answered", "written"}
    BY <1>3, <1>8, OnItsWayByForm, ScreensDiffer
  <2>. QED
    BY <1>1, <2>1 DEF OnItsWay
<1>9. CASE ~t.ok
  <2>1. screens' = screens
    BY <1>0, <1>9 DEF SignInCompleted, Alert
  <2>2. NotSigningIn'
    BY <1>1, <1>2, <1>3, <1>9, <2>1, ScreensDiffer DEF NotSigningIn, Front
  <2>3. FormsFit'
    <3>1. \A f \in DOMAIN forms : FormFits(forms[f], screens, user, alert')
      BY <1>3, FormRests DEF InTurn, FormsFit
    <3>. QED
      BY <1>1, <2>1, <3>1 DEF InTurn, FormsFit
  <2>4. AccountsFit'
    BY <1>1, <1>5, <2>1 DEF InTurn, AccountsFit
  <2>5. \A a : ~Arriving(main, a)
    <3>1. ASSUME NEW a PROVE Arriving(main, a) => t.ok
      BY <1>3, WhoArrives
    <3>. QED
      BY <1>9, <3>1
  <2>. QED
    BY <1>1, <1>6, <1>8, <2>2, <2>3, <2>4, <2>5 DEF InTurn, OneSession
<1>10. CASE t.ok
  <2>0. PICK s : s = IF t.call.kind = "login" THEN Players ELSE Create(t.call.account)
    OBVIOUS
  <2>1. screens' = Append(screens, s)
    BY <1>0, <1>3, <1>10, <2>0 DEF SignInCompleted, Segue, CanPresent
  <2>2. Front' = s
    BY <1>7, <2>1, ScreenPushed DEF Front
  <2>3. /\ s # Login /\ t.call.account # NoOne
        /\ s.kind = "create" => t.call.kind = "signup" /\ s = Create(t.call.account)
        /\ s.kind = "create" => s.account = t.call.account
    BY <1>4, <2>0, ScreensDiffer, NoOneIsNoAccount
  <2>4. NotSigningIn'
    BY <1>1, <1>2, <1>3, <1>10, <2>2, <2>3 DEF NotSigningIn
  <2>5. ASSUME s.kind = "create"
        PROVE  /\ Arriving(main, t.call.account) /\ t.call.account \in accounts
               /\ \A i \in DOMAIN screens : screens[i] # s
               /\ \A f \in DOMAIN forms : forms[f].author # t.call.account
    <3>1. Arriving(main, t.call.account)
      BY <1>3, <1>10, <2>3, <2>5, WhoArrives
    <3>. QED
      BY <1>4, <2>3, <2>5, <3>1 DEF InTurn, AccountsFit
  <2>6. \A f \in DOMAIN forms : s # Create(forms[f].author)
    BY <2>3, <2>5, ScreensDiffer
  <2>7. FormsFit'
    BY <1>1, <1>3, <2>1, <2>6, FormsUnder DEF InTurn
  <2>8. AccountsFit'
    <3>1. ScreensFit(screens', accounts)
      BY <1>7, <2>1, <2>3, <2>5, ScreensUnder DEF InTurn, AccountsFit
    <3>. QED
      BY <1>1, <1>5, <3>1 DEF InTurn, AccountsFit
  <2>9. ASSUME NEW a \in accounts, OnItsWay(a)
        PROVE  OnItsWay(a)'
    <3>1. CASE ~Arriving(main, a)
      BY <1>8, <2>9, <3>1
    <3>2. CASE Arriving(main, a)
      <4>1. t.call.kind = "signup" /\ t.call.account = a
        BY <1>3, <3>2, WhoArrives, Zenon
      <4>2. Front' = Create(a)
        BY <2>0, <2>2, <4>1
      <4>. QED
        BY <4>2 DEF OnItsWay
    <3>. QED
      BY <3>1, <3>2
  <2>. QED
    BY <1>1, <1>6, <2>4, <2>7, <2>8, <2>9 DEF InTurn, OneSession
<1>. QED
  BY <1>9, <1>10

LEMMA TurnSignOut ==
  ASSUME TypeOK, Chain, InTurn, ~hasty', SignOut
  PROVE  InTurn'
<1>1. /\ Front = Players /\ Pressed /\ user' = NoOne
      /\ screens' = Append(screens, Login)
      /\ main' = main \/ main' = Append(main, Credential(NoOne))
      /\ UNCHANGED <<accounts, calls, alert, forms, lost, refusals, kills>>
  BY DEF SignOut, sdk
<1>2. /\ NotSigningIn /\ calls = {} /\ NoSignIn(main)
      /\ \A f \in DOMAIN forms : forms[f].stage \notin OfStorage
      /\ \A a : ~Arriving(main, a)
  BY <1>1, PressedInTurn DEF InTurn, NotSigningIn
<1>3. NoSignIn(main')
  <2>1. Credential(NoOne) \in Task
    BY TasksTyped DEF User
  <2>2. Credential(NoOne).kind # "signedIn" /\ main \in Seq(Task)
    BY DEF Credential, TypeOK
  <2>. QED
    BY <1>1, <1>2, <2>1, <2>2, SignInPushed
<1>4. \A a : ~Arriving(main', a)
  BY <1>3, WhoArrives
<1>5. screens \in Seq(Screen)
  BY DEF TypeOK
<1>6. Front' = Login
  BY <1>1, <1>5, ScreenPushed DEF Front
<1>7. NotSigningIn'
  BY <1>1, <1>2, <1>3, <1>6, ScreensDiffer DEF NotSigningIn
<1>8. FormsFit'
  BY <1>1, <1>2, FormsUnder, ScreensDiffer DEF InTurn
<1>9. AccountsFit'
  <2>1. ScreensFit(screens', accounts)
    BY <1>1, <1>5, ScreensUnder, ScreensDiffer DEF InTurn, AccountsFit
  <2>. QED
    BY <1>1, <1>4, <2>1 DEF InTurn, AccountsFit
<1>10. ASSUME NEW a, OnItsWay(a)
       PROVE  OnItsWay(a)'
  <2>1. \E f \in DOMAIN forms :
          /\ forms[f].author = a /\ Promised(forms[f])
          /\ forms[f].stage \in {"linking", "answered", "written"}
    BY <1>1, <1>2, <1>10, OnItsWayByForm, ScreensDiffer
  <2>. QED
    BY <1>1, <2>1 DEF OnItsWay
<1>11. Uninterrupted' => Uninterrupted
  BY <1>1 DEF Uninterrupted
<1>. QED
  BY <1>1, <1>7, <1>8, <1>9, <1>10, <1>11 DEF InTurn, OneSession

\* The create screen in front is the only one of its account: the new form is
\* at home there.
LEMMA TurnPressCreate ==
  ASSUME TypeOK, Chain, InTurn, ~hasty', PressCreate
  PROVE  InTurn'
<1>0. PICK a, n, r : /\ a = Front.account /\ n = Len(forms) + 1
                     /\ r = [screen |-> Len(screens), author |-> a, email |-> NoOne,
                             linked |-> FALSE, stage |-> "uploading", told |-> <<>>]
  OBVIOUS
<1>1. /\ Front.kind = "create" /\ ~alert /\ Pressed
      /\ forms' = Append(forms, r)
      /\ UNCHANGED <<accounts, user, calls, screens, alert, main, lost, refusals, kills>>
  BY <1>0 DEF PressCreate, session, ui
<1>2. /\ NotSigningIn /\ user = a
      /\ \A f \in DOMAIN forms : forms[f].stage \notin OfStorage
      /\ \A b : ~Arriving(main, b)
  BY <1>0, <1>1, PressedInTurn DEF InTurn, NotSigningIn
<1>3. /\ Len(screens) \in DOMAIN screens /\ Front = screens[Len(screens)]
      /\ Front = Create(a) /\ a \in Account
  BY <1>0, <1>1, FrontIs, CreateScreen
<1>4. /\ a \in accounts
      /\ \A i \in DOMAIN screens : screens[i] = Create(a) <=> i = Len(screens)
  BY <1>0, <1>1, <1>3 DEF InTurn, AccountsFit, ScreensFit
<1>5. /\ r.screen = Len(screens) /\ r.author = a /\ r.stage = "uploading"
      /\ ~Promised(r)
  <2>1. r.told = <<>>
    BY <1>0
  <2>. QED
    BY <1>0, <2>1, PromisedIs
<1>6. /\ DOMAIN forms' = DOMAIN forms \cup {n} /\ n \notin DOMAIN forms
      /\ \A f \in DOMAIN forms : forms'[f] = forms[f]
      /\ forms'[n] = r
  <2>1. forms \in Seq(FormRecord) /\ Len(forms) \in Nat /\ DOMAIN forms = 1..Len(forms)
    BY LenProperties DEF TypeOK
  <2>. QED
    BY <1>0, <1>1, <2>1
<1>7. FormsFit'
  <2>1. FormFits(r, screens, user, alert)
    BY <1>1, <1>2, <1>3, <1>4, <1>5 DEF FormFits, OfStorage
  <2>2. \A f \in DOMAIN forms' : FormFits(forms'[f], screens, user, alert)
    BY <1>6, <2>1 DEF InTurn, FormsFit
  <2>3. ASSUME NEW f \in DOMAIN forms', NEW g \in DOMAIN forms',
               Rivals(forms'[f], forms'[g])
        PROVE  f = g
    <3>1. CASE f \in DOMAIN forms /\ g \in DOMAIN forms
      BY <1>6, <2>3, <3>1 DEF InTurn, FormsFit
    <3>2. CASE f = n \/ g = n
      BY <1>2, <1>5, <1>6, <2>3, <3>2 DEF Rivals
    <3>. QED
      BY <1>6, <3>1, <3>2
  <2>. QED
    BY <1>1, <2>2, <2>3 DEF FormsFit
<1>8. NotSigningIn'
  BY <1>1, <1>2 DEF NotSigningIn, Front
<1>9. AccountsFit'
  BY <1>1, <1>2, <1>4, <1>5, <1>6 DEF InTurn, AccountsFit
<1>10. ASSUME NEW b, OnItsWay(b)
       PROVE  OnItsWay(b)'
  BY <1>1, <1>6, <1>10 DEF OnItsWay, Front
<1>. QED
  BY <1>1, <1>7, <1>8, <1>9, <1>10 DEF InTurn, OneSession, Uninterrupted

\* After a successful upload the players list covers the create screen, so
\* that nobody can press its button a second time.
LEMMA TurnUploaded ==
  ASSUME TypeOK, Chain, InTurn, Uploaded
  PROVE  InTurn'
<1>0. PICK g, ok : g = Head(main).form /\ ok = Head(main).ok
  OBVIOUS
<1>1. /\ main # <<>> /\ main' = Tail(main) /\ Head(main).kind = "upload"
      /\ UNCHANGED <<accounts, user, calls, lost, refusals, kills>>
      /\ forms' = [forms EXCEPT ![g].told = Append(@, ok),
                                ![g].stage = IF ok THEN "linking" ELSE "failed"]
      /\ Completion(g, ok)
  BY <1>0 DEF Uploaded, session, counters
<1>2. PICK r, s : r = forms[g] /\ s = forms'[g]
  OBVIOUS
<1>3. /\ g \in DOMAIN forms /\ r \in FormRecord /\ ok \in BOOLEAN
      /\ r.stage = "answered" /\ r.told = <<>>
  BY <1>0, <1>1, <1>2, AnswerTaken
<1>4. r.stage \in OfStorage /\ ~Promised(r)
  BY <1>3, PromisedIs DEF OfStorage
<1>5. /\ NotSigningIn /\ \A a : ~Arriving(main, a)
  <2>1. NotSigningIn
    BY <1>2, <1>3, <1>4 DEF InTurn, OneSession, Calling, Returning, AtLogin
  <2>. QED
    BY <2>1, WhoArrives DEF NotSigningIn
<1>6. /\ FormFits(r, screens, user, alert)
      /\ r.author = user /\ r.screen = Len(screens) /\ alert = FALSE
      /\ Front = Create(user) /\ user \in Account
  <2>1. FormFits(r, screens, user, alert) /\ alert \in BOOLEAN
    BY <1>2, <1>3 DEF InTurn, FormsFit, TypeOK
  <2>2. /\ r.author = user /\ r.screen = Len(screens) /\ alert = FALSE
        /\ Front = Create(user)
    BY <1>4, <2>1, FrontIs DEF FormFits
  <2>3. r.author \in Account
    BY <1>3 DEF FormRecord
  <2>. QED
    BY <2>1, <2>2, <2>3
<1>7. /\ DOMAIN forms' = DOMAIN forms
      /\ \A f \in DOMAIN forms : f # g => forms'[f] = forms[f]
      /\ s.screen = r.screen /\ s.author = r.author
      /\ s.told = Append(r.told, ok) /\ s.stage = IF ok THEN "linking" ELSE "failed"
  BY <1>1, <1>2, <1>3 DEF FormRecord
<1>8. Promised(s) <=> ok
  <2>1. s.told = <<ok>>
    BY <1>3, <1>7, Told
  <2>. QED
    BY <1>3, <2>1, PromisedIs
<1>9. \A f \in DOMAIN forms : f # g => forms[f].stage \notin OfStorage
  BY <1>2, <1>3, <1>4 DEF InTurn, FormsFit, Rivals
<1>10. NoSignIn(main') /\ \A a : ~Arriving(main', a)
  <2>1. SignInsKept
    BY <1>1, SignInsStay
  <2>. QED
    BY <1>5, <2>1, WhoArrives DEF SignInsKept, NotSigningIn
<1>11. /\ screens' = IF ok THEN Append(screens, Players) ELSE screens
       /\ ok => alert' = alert
  BY <1>1, <1>2, <1>6 DEF Completion, Segue, Alert, CanPresent
<1>12. Front' = IF ok THEN Players ELSE Front
  BY <1>11, ScreenPushed DEF Front, TypeOK
<1>13. NotSigningIn'
  BY <1>1, <1>5, <1>6, <1>10, <1>12, ScreensDiffer, NoOneIsNoAccount DEF NotSigningIn
<1>14. ASSUME NEW f \in DOMAIN forms, f # g
       PROVE  /\ FormFits(forms'[f], screens', user, alert')
              /\ ~Rivals(s, forms'[f]) /\ ~Rivals(forms'[f], s)
  <2>1. FormFits(forms[f], screens, user, alert) /\ forms[f].stage \notin OfStorage
    BY <1>9, <1>14 DEF InTurn, FormsFit
  <2>2. FormFits(forms[f], screens', user, alert')
    BY <1>11, <2>1, FormRests, FormUnder, ScreensDiffer DEF TypeOK
  <2>3. ~(Promised(forms[f]) /\ forms[f].author = user)
    <3>1. Len(screens) \in DOMAIN screens /\ Len(screens) \in Nat
          /\ screens[Len(screens)] = Create(user)
      BY <1>6, FrontIs
    <3>. QED
      BY <2>1, <3>1 DEF FormFits
  <2>. QED
    BY <1>6, <1>7, <1>14, <2>1, <2>2, <2>3 DEF Rivals
<1>15. FormFits(s, screens', user, alert')
  <2>1. CASE ok
    <3>1. /\ Len(screens') = Len(screens) + 1
          /\ DOMAIN screens' = DOMAIN screens \cup {Len(screens) + 1}
          /\ Len(screens) + 1 \notin DOMAIN screens
          /\ \A i \in DOMAIN screens : screens'[i] = screens[i]
          /\ screens'[Len(screens) + 1] = Players
      BY <1>11, <2>1, ScreenPushed DEF TypeOK
    <3>2. Len(screens) \in DOMAIN screens /\ Len(screens) \in Nat
      BY FrontIs
    <3>3. /\ s.screen \in {0} \cup DOMAIN screens' /\ s.screen < Len(screens')
          /\ s.screen # Len(screens) + 1
      BY <1>6, <1>7, <3>1, <3>2
    <3>4. \A i \in DOMAIN screens' : screens'[i] = Create(s.author) <=> i = s.screen
      BY <1>6, <1>7, <3>1, <3>3, ScreensDiffer DEF FormFits
    <3>. QED
      BY <1>6, <1>7, <1>8, <2>1, <3>3, <3>4 DEF FormFits
  <2>2. CASE ~ok
    BY <1>6, <1>7, <1>8, <1>11, <2>2 DEF FormFits, OfStorage
  <2>. QED
    BY <2>1, <2>2
<1>16. FormsFit'
  <2>1. ASSUME NEW f \in DOMAIN forms, NEW h \in DOMAIN forms,
               Rivals(forms'[f], forms'[h])
        PROVE  f = h
    <3>1. CASE f # g /\ h # g
      BY <1>7, <2>1, <3>1 DEF InTurn, FormsFit
    <3>2. CASE f = g \/ h = g
      BY <1>2, <1>14, <2>1, <3>2
    <3>. QED
      BY <3>1, <3>2
  <2>2. \A f \in DOMAIN forms : FormFits(forms'[f], screens', user, alert')
    BY <1>2, <1>14, <1>15
  <2>. QED
    BY <1>1, <1>7, <2>1, <2>2 DEF FormsFit
<1>17. AccountsFit'
  <2>1. ScreensFit(screens', accounts)
    BY <1>11, ScreensUnder, ScreensDiffer DEF InTurn, AccountsFit, TypeOK
  <2>2. \A f \in DOMAIN forms : forms'[f].author = forms[f].author
    BY <1>2, <1>7
  <2>. QED
    BY <1>1, <1>7, <1>10, <2>1, <2>2 DEF InTurn, AccountsFit
<1>18. ASSUME NEW b, OnItsWay(b)
       PROVE  OnItsWay(b)'
  <2>1. CASE Front = Create(b)
    <3>1. b = user
      <4>1. Create(b).account = b /\ Create(user).account = user
        BY DEF Create
      <4>. QED
        BY <1>6, <2>1, <4>1
    <3>2. CASE ok
      BY <1>2, <1>3, <1>6, <1>7, <1>8, <3>1, <3>2 DEF OnItsWay
    <3>3. CASE ~ok
      BY <1>12, <2>1, <3>3 DEF OnItsWay
    <3>. QED
      BY <3>2, <3>3
  <2>2. CASE Front # Create(b)
    <3>1. PICK f \in DOMAIN forms :
            /\ forms[f].author = b /\ Promised(forms[f])
            /\ forms[f].stage \in {"linking", "answered", "written"}
      BY <1>5, <1>18, <2>2, OnItsWayByForm
    <3>2. f # g
      BY <1>2, <1>4, <3>1
    <3>. QED
      BY <1>7, <3>1, <3>2 DEF OnItsWay
  <2>. QED
    BY <2>1, <2>2
<1>. QED
  BY <1>1, <1>13, <1>16, <1>17, <1>18 DEF InTurn, OneSession, Uninterrupted

\* A new process has one screen, and no form leads anywhere.
LEMMA TurnRestart ==
  ASSUME TypeOK, InTurn, Restart
  PROVE  InTurn'
<1>0. PICK s : s = IF user = NoOne THEN Login ELSE Players
  OBVIOUS
<1>1. /\ screens' = <<s>> /\ main' = <<>> /\ calls' = {} /\ user' = user
      /\ kills' = kills + 1
      /\ forms' = [f \in DOMAIN forms |-> Orphaned(forms[f])]
  BY <1>0 DEF Restart, Launched
<1>2. accounts \subseteq accounts'
  BY DEF Restart
<1>3. s.kind # "create" /\ (s = Login <=> user = NoOne) /\ \A a : s # Create(a)
  BY <1>0, ScreensDiffer
<1>4. Len(screens') = 1 /\ DOMAIN screens' = {1} /\ screens'[1] = s
  BY <1>1
<1>5. NoSignIn(main') /\ \A a : ~Arriving(main', a)
  BY <1>1, WhoArrives DEF NoSignIn
<1>6. NotSigningIn'
  BY <1>1, <1>3, <1>4, <1>5 DEF NotSigningIn, Front
<1>7. ASSUME NEW f \in DOMAIN forms
      PROVE  /\ forms'[f].screen = 0 /\ forms'[f].author = forms[f].author
             /\ forms'[f].told = forms[f].told /\ forms'[f].email = forms[f].email
             /\ forms'[f].stage \notin OfStorage
             /\ forms'[f].stage \in {"written", "refused"} => forms'[f].stage = forms[f].stage
  <2>1. forms[f] \in FormRecord
    BY ElementOfSeq, LenProperties DEF TypeOK
  <2>. QED
    BY <1>1, <2>1 DEF Orphaned, FormRecord, OfStorage
<1>8. DOMAIN forms' = DOMAIN forms
  BY <1>1
<1>9. FormsFit'
  <2>1. ASSUME NEW f \in DOMAIN forms
        PROVE  FormFits(forms'[f], screens', user', alert')
    <3>1. forms[f].stage \in {"written", "refused"} => forms[f].email = forms[f].author
      BY DEF InTurn, FormsFit, FormFits
    <3>. QED
      BY <1>3, <1>4, <1>7, <3>1 DEF FormFits
  <2>2. ASSUME NEW f \in DOMAIN forms, NEW g \in DOMAIN forms,
               Rivals(forms'[f], forms'[g])
        PROVE  f = g
    <3>1. Rivals(forms[f], forms[g])
      BY <1>7, <2>2 DEF Rivals, Promised
    <3>. QED
      BY <3>1 DEF InTurn, FormsFit
  <2>. QED
    BY <1>8, <2>1, <2>2 DEF FormsFit
<1>10. AccountsFit'
  <2>1. ScreensFit(screens', accounts')
    BY <1>3, <1>4 DEF ScreensFit
  <2>. QED
    BY <1>1, <1>2, <1>5, <1>7, <1>8, <2>1 DEF InTurn, AccountsFit
<1>11. ~Uninterrupted'
  <2>1. kills \in Nat
    BY BoundsAreNaturals DEF TypeOK
  <2>. QED
    BY <1>1, <2>1 DEF Uninterrupted
<1>. QED
  BY <1>6, <1>9, <1>10, <1>11 DEF InTurn, OneSession

\* Every step of a user who waits leaves one thing under way.
LEMMA TurnStep ==
  ASSUME TypeOK, Chain, OneThingAtATime, [Next]_vars
  PROVE  OneThingAtATime'
<1>1. hasty \in BOOLEAN
  BY DEF TypeOK
<1>2. SUFFICES ASSUME ~hasty'
               PROVE  InTurn'
  BY DEF OneThingAtATime, InTurn
<1>3. ~hasty
  BY <1>1, <1>2
     DEF Next, vars, counters, Pressed, PressSignIn, SignInAnswered, CredentialChange,
         SignInCompleted, SignOut, DismissAlert, PressCreate, StorageAnswers, Uploaded,
         DocumentAdded, DocumentStored, DocumentAcknowledged, DocumentRefused, Added,
         Restart
<1>4. InTurn
  BY <1>3 DEF OneThingAtATime, InTurn
<1>5. CASE UNCHANGED vars
  <2>1. /\ UNCHANGED <<accounts, user, calls, screens, alert, forms, main, lost,
                       refusals, kills>>
    BY <1>5 DEF vars
  <2>2. SignInsKept
    BY <2>1, SignInsStay
  <2>3. Uninterrupted' => Uninterrupted
    BY <2>1 DEF Uninterrupted
  <2>4. \A f \in DOMAIN forms : RecordQuiet(f)
    BY <1>4, <2>1, <2>3, SameForms
  <2>. QED
    BY <1>4, <2>1, <2>2, <2>3, <2>4, QuietStep
<1>6. CASE Next
  BY <1>2, <1>4, <1>6, TurnPressSignIn, TurnSignInAnswered, TurnTaskDone,
     TurnSignInCompleted, TurnSignOut, TurnPressCreate, TurnStorageAnswers,
     TurnUploaded, TurnDocumentAdded, TurnAcknowledged, TurnRefused, TurnAdded,
     TurnRestart
  DEF Next
<1>. QED
  BY <1>5, <1>6

LEMMA TurnInit == Init => OneThingAtATime
<1>1. SUFFICES ASSUME Init
               PROVE  InTurn
  BY DEF OneThingAtATime, InTurn
<1>2. /\ accounts = {} /\ user = NoOne /\ calls = {} /\ screens = <<Login>>
      /\ forms = <<>> /\ main = <<>>
  BY <1>1 DEF Init
<1>3. DOMAIN screens = {1} /\ screens[1] = Login /\ Front = Login
  BY <1>2 DEF Front
<1>4. NoSignIn(main) /\ \A a : ~Arriving(main, a)
  BY <1>2, WhoArrives DEF NoSignIn
<1>5. OneSession
  BY <1>2, <1>3, <1>4, ScreensDiffer DEF OneSession, NotSigningIn
<1>6. FormsFit
  BY <1>2 DEF FormsFit
<1>7. AccountsFit
  BY <1>2, <1>3, <1>4, ScreensDiffer DEF AccountsFit, ScreensFit
<1>. QED
  BY <1>2, <1>5, <1>6, <1>7 DEF InTurn

LEMMA TurnHolds == Spec => [](TypeOK /\ Chain /\ OneThingAtATime)
BY TurnInit, TurnStep, ChainHolds, PTL DEF Spec

\* A user who waits has one thing under way at a time: one sign-in from the
\* screen in front, or one upload from the only create screen of the account
\* that is signed in, and no account with two promised profiles.
THEOREM OneThing == Spec => []OneThingAtATime
BY TurnHolds, PTL

\* Every account of a user who waits has at most one profile, under its own
\* address, although the address is read two answers after the press and the
\* button stays enabled.
THEOREM OneProfileForEach == Spec => []OneProfileEach
<1>1. ASSUME TypeOK, Chain, OneThingAtATime, ~hasty, NEW f \in stored
      PROVE  /\ f \in DOMAIN forms /\ Promised(forms[f])
             /\ forms[f].email = forms[f].author
  <2>1. f \in Form
    BY <1>1 DEF TypeOK
  <2>2. InQueue(f) \/ Decided(f, TRUE)
    BY <1>1, <2>1 DEF Chain, Fits, Unborn, InStorage, GivenUp, Decided
  <2>3. /\ f \in DOMAIN forms /\ forms[f].stage = "written"
        /\ forms[f].told \in {<<TRUE>>, <<TRUE, TRUE>>}
    BY <2>2 DEF InQueue, Decided
  <2>4. Promised(forms[f])
    BY <2>3, PromisedIs
  <2>. QED
    BY <1>1, <2>3, <2>4 DEF OneThingAtATime, FormsFit, FormFits
<1>2. ASSUME TypeOK, Chain, OneThingAtATime
      PROVE  OneProfileEach
  <2>1. ASSUME ~hasty, NEW f \in stored, NEW g \in stored, forms[f].email = forms[g].email
        PROVE  f = g
    <3>1. Rivals(forms[f], forms[g]) /\ f \in DOMAIN forms /\ g \in DOMAIN forms
      BY <1>1, <1>2, <2>1 DEF Rivals
    <3>. QED
      BY <1>2, <2>1, <3>1 DEF OneThingAtATime, FormsFit
  <2>. QED
    BY <1>1, <1>2, <2>1 DEF OneProfileEach, ProfileIsAuthors, OneProfile
<1>. QED
  BY <1>2, TurnHolds, PTL

\* When nothing is under way, a user who waits sees the login screen exactly
\* when nobody is signed in, however logins failed and the app was killed.
THEOREM ScreenMatches == Spec => []ScreenMatchesSession
<1>1. OneThingAtATime => ScreenMatchesSession
  BY NobodySigningIn DEF OneThingAtATime, ScreenMatchesSession, NotSigningIn
<1>. QED
  BY <1>1, TurnHolds, PTL

\* Without a lost answer, a refusal or a kill, a user who waits and sees the
\* players list has a profile, stored or queued.
THEOREM SkippedOnlyIfInterrupted == Spec => []OnlyInterruptionSkipsProfile
<1>1. ASSUME TypeOK, Chain, OneThingAtATime, ~hasty, ~Busy, Uninterrupted,
             Front = Players
      PROVE  \E f \in DOMAIN forms : forms[f].author = user /\ forms[f].stage = "written"
  <2>1. NotSigningIn
    BY <1>1, NobodySigningIn DEF OneThingAtATime
  <2>2. user \in accounts
    BY <1>1, <2>1, ScreensDiffer DEF OneThingAtATime, NotSigningIn, AccountsFit
  <2>3. OnItsWay(user)
    BY <1>1, <2>2 DEF OneThingAtATime
  <2>4. ~Arriving(main, user) /\ Front # Create(user)
    BY <1>1, <2>1, WhoArrives, ScreensDiffer DEF NotSigningIn
  <2>5. PICK f \in DOMAIN forms :
          /\ forms[f].author = user
          /\ forms[f].stage \in {"linking", "answered", "written"}
    BY <2>3, <2>4, OnItsWayByForm
  <2>. QED
    BY <1>1, <2>5, NothingInStorage DEF OfStorage
<1>2. TypeOK /\ Chain /\ OneThingAtATime => OnlyInterruptionSkipsProfile
  BY <1>1 DEF OnlyInterruptionSkipsProfile, Uninterrupted
<1>. QED
  BY <1>2, TurnHolds, PTL
===============================================================================
