------------------------------ MODULE Onboarding ------------------------------
(***************************************************************************)
(* From the login screen to a stored profile, on one device: login and     *)
(* sign-up (LoginViewModel), the start of the app with a user signed in    *)
(* (SceneDelegate), the creation of the profile                            *)
(* (CreateProfileViewModel.sendToFirebase) and sign-out                    *)
(* (ProfileViewModel.signout), on top of Firebase Auth's current user and  *)
(* the Firestore SDK's mutation queue, of which every user has one.        *)
(*                                                                         *)
(* Creating a profile is a chain of callbacks: upload the picture, ask for *)
(* its URL, add the document.  The form is captured when the button is     *)
(* pressed, the address when the URL has come, and the caller is told of   *)
(* success after the first link of the chain and again after the last.     *)
(* The SDK hears of a change of user one main-queue task after Auth does.  *)
(*                                                                         *)
(* Screens present each other full screen and stay below: a segue or an    *)
(* alert of a screen that already presents something has no effect.        *)
(***************************************************************************)
EXTENDS Integers, FiniteSets, Sequences

CONSTANTS
  Account,      \* the accounts of this device's users, by e-mail address
  NoOne,        \* nobody is signed in
  MaxPresses,   \* bound on the presses of login, sign-up and sign-out
  MaxForms,     \* bound on the presses of the create button
  MaxLost,      \* bound on the sign-ups registered but answered by an error
  MaxRefusals,  \* bound on the profiles the server refuses
  MaxKills      \* bound on the kills of the app

ASSUME NoOneIsNoAccount == NoOne \notin Account
ASSUME BoundsAreNaturals ==
  {MaxPresses, MaxForms, MaxLost, MaxRefusals, MaxKills} \subseteq Nat

VARIABLES
  accounts,   \* Auth's server: the registered accounts
  user,       \* Auth.auth().currentUser, kept in the keychain
  calls,      \* Auth calls without an answer
  screens,    \* the screens presented so far, the last one in front
  alert,      \* the screen in front shows an alert
  forms,      \* the create buttons pressed so far
  sdkUser,    \* SyncEngine::current_user_
  queue,      \* user: the SDK's persisted mutation queue
  stored,     \* Firestore's server: the forms that became Users documents
  main,       \* the tasks waiting on the main queue
  presses, lost, refusals, kills,
  hasty       \* history: the user pressed a button while something was under way

session == <<accounts, user, calls>>
ui == <<screens, alert>>
sdk == <<sdkUser, queue, stored>>
counters == <<presses, lost, refusals, kills, hasty>>
vars == <<accounts, user, calls, screens, alert, forms, sdkUser, queue, stored,
          main, presses, lost, refusals, kills, hasty>>

-------------------------------------------------------------------------------
(* Data *)

User == Account \cup {NoOne}

\* The SDK starts with its first use, when it asks Auth for the user.
NotStarted == "not started"
SdkUser == User \cup {NotStarted}

ASSUME NotStartedIsNoUser == NotStarted \notin User

Form == 1..MaxForms

\* A screen by its place among those presented in this process.
ScreenNo == Nat \ {0}

\* A create screen is for the account whose sign-up opened it.
Screen == [kind : {"login", "players"}, account : {NoOne}]
            \cup [kind : {"create"}, account : Account]
Login == [kind |-> "login", account |-> NoOne]
Players == [kind |-> "players", account |-> NoOne]
Create(a) == [kind |-> "create", account |-> a]

\* n tells apart the calls of one screen.
Call == [kind : {"login", "signup"}, account : Account, screen : ScreenNo,
         n : 1..MaxPresses]

(***************************************************************************)
(* One press of the create button.  screen is where its completion leads,  *)
(* 0 once that process is gone; author is the account the form was filled  *)
(* in for; email is what the document says.  stage is                      *)
(*   "uploading", "linking"  while Storage has not answered,               *)
(*   "answered"              while its answer waits on the main queue,     *)
(*   "failed", "lost"        if the picture was not uploaded, or a kill    *)
(*                           ended the chain,                              *)
(*   "written", "refused"    once the document was handed to the SDK, and  *)
(*                           if the server would not have it.              *)
(***************************************************************************)
Stage == {"uploading", "linking", "answered", "failed", "lost", "written", "refused"}

FormRecord == [screen : ScreenNo \cup {0}, author : Account, email : User,
               linked : BOOLEAN, stage : Stage, told : Seq(BOOLEAN)]

Task ==
  [kind : {"credential"}, user : User]
    \cup [kind : {"signedIn"}, call : Call, ok : BOOLEAN]
    \cup [kind : {"upload", "link", "add"}, form : Form, ok : BOOLEAN]

Credential(u) == [kind |-> "credential", user |-> u]
SignedIn(c, ok) == [kind |-> "signedIn", call |-> c, ok |-> ok]
Answer(kind, f, ok) == [kind |-> kind, form |-> f, ok |-> ok]

-------------------------------------------------------------------------------
(* Screens *)

Front == screens[Len(screens)]

\* Something the user could wait for: a call, an upload or a task.
Busy ==
  \/ calls # {}
  \/ main # <<>>
  \/ \E f \in DOMAIN forms : forms[f].stage \in {"uploading", "linking"}

Pressed == hasty' = (hasty \/ Busy)

\* UIKit presents something only on the screen in front, one at a time.
CanPresent(i) == i = Len(screens) /\ ~alert

\* The SDK's user after a step that uses it: Auth's current one if it starts.
Started == IF sdkUser = NotStarted THEN user ELSE sdkUser

\* The players list starts the SDK as soon as it is loaded.
Segue(i, screen) ==
  /\ screens' = IF CanPresent(i) THEN Append(screens, screen) ELSE screens
  /\ sdkUser' = IF CanPresent(i) /\ screen = Players THEN Started ELSE sdkUser
  /\ UNCHANGED alert

Alert(i) ==
  /\ alert' = (alert \/ i = Len(screens))
  /\ UNCHANGED <<screens, sdkUser>>

\* The completion of a create button, called with ok.
Completion(f, ok) ==
  IF ok THEN Segue(forms[f].screen, Players) ELSE Alert(forms[f].screen)

-------------------------------------------------------------------------------
(* The app starts *)

\* Faulty variant: every start shows the players list.
LaunchedOnPlayers(u) ==
  /\ screens' = <<Players>>
  /\ sdkUser' = u
  /\ alert' = FALSE
  /\ main' = <<>>
  /\ calls' = {}

\* SceneDelegate: the players list for a user in the keychain.
Launched(u) ==
  /\ screens' = <<IF u = NoOne THEN Login ELSE Players>>
  /\ sdkUser' = IF u = NoOne THEN NotStarted ELSE u
  /\ alert' = FALSE
  /\ main' = <<>>
  /\ calls' = {}

Init ==
  /\ accounts = {}
  /\ user = NoOne
  /\ calls = {}
  /\ screens = <<Login>>
  /\ alert = FALSE
  /\ forms = <<>>
  /\ sdkUser = NotStarted
  /\ queue = [u \in User |-> <<>>]
  /\ stored = {}
  /\ main = <<>>
  /\ presses = 0
  /\ lost = 0
  /\ refusals = 0
  /\ kills = 0
  /\ hasty = FALSE

-------------------------------------------------------------------------------
(* Login, sign-up, sign-out *)

\* A press with both fields filled in; an empty e-mail makes both methods
\* return without a call and without a completion.
PressSignIn(kind, a) ==
  /\ Front = Login
  /\ ~alert
  /\ presses < MaxPresses
  /\ presses' = presses + 1
  /\ calls' = calls \cup {[kind |-> kind, account |-> a, screen |-> Len(screens),
                           n |-> presses + 1]}
  /\ Pressed
  /\ UNCHANGED <<accounts, user, ui, forms, sdk, main, lost, refusals, kills>>

\* Faulty variant: creating a user leaves the current user alone.
AnsweredForLoginOnly(c) ==
  /\ c \in calls
  /\ calls' = calls \ {c}
  /\ \/ /\ c.kind = "login" <=> c.account \in accounts
        /\ accounts' = accounts \cup {c.account}
        /\ user' = IF c.kind = "login" THEN c.account ELSE user
        /\ main' = main \o <<Credential(user'), SignedIn(c, TRUE)>>
        /\ UNCHANGED lost
     \/ /\ main' = Append(main, SignedIn(c, FALSE))
        /\ UNCHANGED <<accounts, user, lost>>
  /\ UNCHANGED <<ui, forms, sdk, presses, refusals, kills, hasty>>

(***************************************************************************)
(* Auth's server answers a call.  FIRAuth changes the current user on its  *)
(* own queue, and only then dispatches the notification that the SDK waits *)
(* for and the completion.  Any call may fail; a sign-up may do so after   *)
(* the server has registered the account.                                  *)
(***************************************************************************)
SignInAnswered(c) ==
  /\ c \in calls
  /\ calls' = calls \ {c}
  /\ \/ /\ c.kind = "login" <=> c.account \in accounts
        /\ accounts' = accounts \cup {c.account}
        /\ user' = c.account
        /\ main' = main \o <<Credential(c.account), SignedIn(c, TRUE)>>
        /\ UNCHANGED lost
     \/ /\ main' = Append(main, SignedIn(c, FALSE))
        /\ UNCHANGED <<accounts, user, lost>>
     \/ /\ c.kind = "signup"
        /\ c.account \notin accounts
        /\ lost < MaxLost
        /\ lost' = lost + 1
        /\ accounts' = accounts \cup {c.account}
        /\ main' = Append(main, SignedIn(c, FALSE))
        /\ UNCHANGED user
  /\ UNCHANGED <<ui, forms, sdk, presses, refusals, kills, hasty>>

\* Faulty variant: the old user's queue is thrown away.
ChangeDropsQueue ==
  /\ main # <<>>
  /\ LET t == Head(main)
     IN  /\ t.kind = "credential"
         /\ sdkUser' = IF sdkUser = NotStarted THEN NotStarted ELSE t.user
  /\ queue' = [queue EXCEPT ![Started] = <<>>]
  /\ main' = Tail(main)
  /\ UNCHANGED <<session, ui, forms, stored, counters>>

\* The SDK, once started, swaps in the queue of the new user; the unanswered
\* writes of the old one wait until that user comes back.
CredentialChange ==
  /\ main # <<>>
  /\ LET t == Head(main)
     IN  /\ t.kind = "credential"
         /\ sdkUser' = IF sdkUser = NotStarted THEN NotStarted ELSE t.user
  /\ main' = Tail(main)
  /\ UNCHANGED <<session, ui, forms, queue, stored, counters>>

\* The completion of login or sign-up: on to the next screen, or an alert.
SignInCompleted ==
  /\ main # <<>>
  /\ LET t == Head(main)
     IN  /\ t.kind = "signedIn"
         /\ IF t.ok
            THEN Segue(t.call.screen, IF t.call.kind = "login"
                                      THEN Players
                                      ELSE Create(t.call.account))
            ELSE Alert(t.call.screen)
  /\ main' = Tail(main)
  /\ UNCHANGED <<session, forms, queue, stored, counters>>

\* Faulty variant: the SDK is not told.
SignOutUnnoticed ==
  /\ Front = Players
  /\ ~alert
  /\ presses < MaxPresses
  /\ presses' = presses + 1
  /\ user' = NoOne
  /\ screens' = Append(screens, Login)
  /\ Pressed
  /\ UNCHANGED <<accounts, calls, alert, forms, sdk, main, lost, refusals, kills>>

\* Sign-out is synchronous, and the profile screen presents a new login
\* screen at once.  FIRAuth notifies only if somebody was signed in.
SignOut ==
  /\ Front = Players
  /\ ~alert
  /\ presses < MaxPresses
  /\ presses' = presses + 1
  /\ user' = NoOne
  /\ main' = IF user = NoOne THEN main ELSE Append(main, Credential(NoOne))
  /\ screens' = Append(screens, Login)
  /\ Pressed
  /\ UNCHANGED <<accounts, calls, alert, forms, sdk, lost, refusals, kills>>

DismissAlert ==
  /\ alert
  /\ alert' = FALSE
  /\ UNCHANGED <<session, screens, forms, sdk, main, counters>>

-------------------------------------------------------------------------------
(* Creating a profile *)

\* Faulty variant: the create button can be reached from any screen.
PressCreateAnywhere ==
  /\ ~alert
  /\ Len(forms) < MaxForms
  /\ forms' = Append(forms, [screen |-> Len(screens), author |-> Front.account,
                             email |-> NoOne, linked |-> FALSE,
                             stage |-> "uploading", told |-> <<>>])
  /\ Pressed
  /\ UNCHANGED <<session, ui, sdk, main, presses, lost, refusals, kills>>

PressCreate ==
  /\ Front.kind = "create"
  /\ ~alert
  /\ Len(forms) < MaxForms
  /\ forms' = Append(forms, [screen |-> Len(screens), author |-> Front.account,
                             email |-> NoOne, linked |-> FALSE,
                             stage |-> "uploading", told |-> <<>>])
  /\ Pressed
  /\ UNCHANGED <<session, ui, sdk, main, presses, lost, refusals, kills>>

\* Storage answers the upload, or the request for the URL.
StorageAnswers(f) ==
  /\ \E ok \in BOOLEAN, asked \in {[stage |-> "uploading", task |-> "upload"],
                                   [stage |-> "linking", task |-> "link"]} :
       /\ forms[f].stage = asked.stage
       /\ main' = Append(main, Answer(asked.task, f, ok))
  /\ forms' = [forms EXCEPT ![f].stage = "answered"]
  /\ UNCHANGED <<session, ui, sdk, counters>>

\* Faulty variant: after a failed upload the URL is asked for all the same.
UploadedAnyway ==
  /\ main # <<>>
  /\ LET t == Head(main)
     IN  /\ t.kind = "upload"
         /\ forms' = [forms EXCEPT ![t.form].told = Append(@, t.ok),
                                   ![t.form].stage = "linking"]
         /\ Completion(t.form, t.ok)
  /\ main' = Tail(main)
  /\ UNCHANGED <<session, queue, stored, counters>>

\* Faulty variant: a failed upload is not told of.
UploadedQuietly ==
  /\ main # <<>>
  /\ LET t == Head(main)
     IN  /\ t.kind = "upload"
         /\ forms' = [forms EXCEPT ![t.form].stage =
                        IF t.ok THEN "linking" ELSE "failed"]
         /\ Completion(t.form, TRUE)
  /\ main' = Tail(main)
  /\ UNCHANGED <<session, queue, stored, counters>>

\* The picture is there, or not; the caller is told, and the URL asked for.
Uploaded ==
  /\ main # <<>>
  /\ LET t == Head(main)
     IN  /\ t.kind = "upload"
         /\ forms' = [forms EXCEPT ![t.form].told = Append(@, t.ok),
                                   ![t.form].stage =
                                      IF t.ok THEN "linking" ELSE "failed"]
         /\ Completion(t.form, t.ok)
  /\ main' = Tail(main)
  /\ UNCHANGED <<session, queue, stored, counters>>

\* The URL has come, or failed to: the document takes the address of whoever
\* is signed in now, and goes to the queue of the SDK's user.
DocumentAdded ==
  /\ main # <<>>
  /\ LET t == Head(main)
     IN  /\ t.kind = "link"
         /\ forms' = [forms EXCEPT ![t.form].email = user,
                                   ![t.form].linked = t.ok,
                                   ![t.form].stage = "written"]
         /\ sdkUser' = Started
         /\ queue' = [queue EXCEPT ![Started] = Append(@, t.form)]
  /\ main' = Tail(main)
  /\ UNCHANGED <<session, ui, stored, counters>>

\* The first write of the SDK's user without an answer.
Waiting == sdkUser # NotStarted /\ queue[sdkUser] # <<>>
FirstWrite == Head(queue[sdkUser])

\* The completion of a form's document, if its process still runs.
CompletionOf(f, ok) ==
  IF forms[f].screen = 0 THEN <<>> ELSE <<Answer("add", f, ok)>>

DocumentStored ==
  /\ Waiting
  /\ FirstWrite \notin stored
  /\ stored' = stored \cup {FirstWrite}
  /\ UNCHANGED <<session, ui, forms, sdkUser, queue, main, counters>>

\* Faulty variant: the completion is called although no server has answered.
AcknowledgedEarly ==
  /\ Waiting
  /\ queue' = [queue EXCEPT ![sdkUser] = Tail(@)]
  /\ main' = main \o CompletionOf(FirstWrite, TRUE)
  /\ UNCHANGED <<session, ui, forms, sdkUser, stored, counters>>

DocumentAcknowledged ==
  /\ Waiting
  /\ FirstWrite \in stored
  /\ queue' = [queue EXCEPT ![sdkUser] = Tail(@)]
  /\ main' = main \o CompletionOf(FirstWrite, TRUE)
  /\ UNCHANGED <<session, ui, forms, sdkUser, stored, counters>>

DocumentRefused ==
  /\ Waiting
  /\ FirstWrite \notin stored
  /\ refusals < MaxRefusals
  /\ refusals' = refusals + 1
  /\ queue' = [queue EXCEPT ![sdkUser] = Tail(@)]
  /\ forms' = [forms EXCEPT ![FirstWrite].stage = "refused"]
  /\ main' = main \o CompletionOf(FirstWrite, FALSE)
  /\ UNCHANGED <<session, ui, sdkUser, stored, presses, lost, kills, hasty>>

\* The completion of addDocument: the caller is told for the second time.
Added ==
  /\ main # <<>>
  /\ LET t == Head(main)
     IN  /\ t.kind = "add"
         /\ forms' = [forms EXCEPT ![t.form].told = Append(@, t.ok)]
         /\ Completion(t.form, t.ok)
  /\ main' = Tail(main)
  /\ UNCHANGED <<session, queue, stored, counters>>

-------------------------------------------------------------------------------
\* A form whose process is gone.
Orphaned(f) ==
  [f EXCEPT !.screen = 0,
            !.stage = IF @ \in {"uploading", "linking", "answered"} THEN "lost" ELSE @]

\* The app is killed and started again.  The server may have registered the
\* accounts of sign-ups under way.
Restart ==
  /\ kills < MaxKills
  /\ kills' = kills + 1
  /\ \E done \in SUBSET {c.account : c \in {c \in calls : c.kind = "signup"}} :
       accounts' = accounts \cup done
  /\ forms' = [f \in DOMAIN forms |-> Orphaned(forms[f])]
  /\ Launched(user)
  /\ UNCHANGED <<user, queue, stored, presses, lost, refusals, hasty>>

Next ==
  \/ \E kind \in {"login", "signup"}, a \in Account : PressSignIn(kind, a)
  \/ \E c \in calls : SignInAnswered(c)
  \/ CredentialChange
  \/ SignInCompleted
  \/ SignOut
  \/ DismissAlert
  \/ PressCreate
  \/ \E f \in DOMAIN forms : StorageAnswers(f)
  \/ Uploaded
  \/ DocumentAdded
  \/ DocumentStored
  \/ DocumentAcknowledged
  \/ DocumentRefused
  \/ Added
  \/ Restart

Spec == Init /\ [][Next]_vars

-------------------------------------------------------------------------------
(* Properties *)

TypeOK ==
  /\ accounts \subseteq Account
  /\ user \in User
  /\ calls \subseteq Call
  /\ screens \in Seq(Screen) \ {<<>>}
  /\ alert \in BOOLEAN
  /\ forms \in Seq(FormRecord)
  /\ Len(forms) \leq MaxForms
  /\ sdkUser \in SdkUser
  /\ queue \in [User -> Seq(Form)]
  /\ stored \subseteq Form
  /\ main \in Seq(Task)
  /\ presses \in 0..MaxPresses
  /\ lost \in 0..MaxLost
  /\ refusals \in 0..MaxRefusals
  /\ kills \in 0..MaxKills
  /\ hasty \in BOOLEAN

\* What the create screen is told.  A second success is only reported for a
\* stored profile, and what was reported as failed is never stored, although
\* the completion is called twice and kills and sign-outs come in between.
AnswersAreTrue ==
  \A f \in DOMAIN forms :
    /\ forms[f].told = <<TRUE, TRUE>> => f \in stored
    /\ forms[f].told \in {<<FALSE>>, <<TRUE, FALSE>>} => f \notin stored

\* One profile per account, under its own address.  The address is read at the
\* end of the chain, and the button stays enabled: both hold for a user who
\* waits for what is under way, however often the upload fails and the button
\* is pressed again.
ProfileIsAuthors == \A f \in stored : forms[f].email = forms[f].author

OneProfile == \A f, g \in stored : forms[f].email = forms[g].email => f = g

OneProfileEach == ~hasty => ProfileIsAuthors /\ OneProfile

\* For a user who waits, the login screen is in front exactly when nobody is
\* signed in.
ScreenMatchesSession ==
  ~hasty /\ ~Busy => (Front = Login <=> user = NoOne)

\* When no task waits, the SDK writes for the user Auth has signed in.
SdkFollowsSession ==
  main = <<>> => sdkUser \in {NotStarted, user}

\* A user who waits comes to the players list with a profile, stored or
\* queued, unless an answer was lost, a profile refused or the app killed.
OnlyInterruptionSkipsProfile ==
  ~hasty /\ ~Busy /\ lost = 0 /\ refusals = 0 /\ kills = 0 /\ Front = Players =>
    \E f \in DOMAIN forms : forms[f].author = user /\ forms[f].stage = "written"

\* When nothing is under way, every press of the create button has ended with a
\* failed upload or a second answer, unless its process was killed or the
\* document waits in the queue of a user who has signed out.
NothingForgotten ==
  ~Busy /\ ~Waiting =>
    \A f \in DOMAIN forms :
      \/ forms[f].told = <<FALSE>>
      \/ Len(forms[f].told) = 2
      \/ forms[f].screen = 0
      \/ \E u \in User \ {sdkUser} : \E i \in DOMAIN queue[u] : queue[u][i] = f

(***************************************************************************)
(* Why the user who waits is safe: one thing is under way at a time, on    *)
(* the screen in front, and the session stays as it was when it began.     *)
(***************************************************************************)
NoSignIn(tasks) == \A k \in DOMAIN tasks : tasks[k].kind # "signedIn"

\* t is the completion of a login or sign-up, and the only one.
OnlySignIn(tasks, t) ==
  /\ t.kind = "signedIn"
  /\ \E k \in DOMAIN tasks :
       /\ tasks[k] = t
       /\ \A l \in DOMAIN tasks : tasks[l].kind = "signedIn" => l = k

OfStorage == {"uploading", "linking", "answered"}

\* The caller was told of success after the upload.
Promised(r) == r.told # <<>> /\ r.told[1]

\* Nobody comes through the login screen.
NotSigningIn ==
  /\ calls = {} /\ NoSignIn(main)
  /\ Front = Login <=> user = NoOne
  /\ Front.kind = "create" => user = Front.account

\* Someone does, from the screen in front: by the call c, or the task t.
AtLogin(c) ==
  /\ Front = Login /\ c.screen = Len(screens) /\ ~alert
  /\ \A f \in DOMAIN forms : forms[f].stage \notin OfStorage

Calling(c) == calls = {c} /\ NoSignIn(main) /\ AtLogin(c) /\ user = NoOne

Returning(t) ==
  /\ calls = {} /\ OnlySignIn(main, t) /\ AtLogin(t.call)
  /\ user = IF t.ok THEN t.call.account ELSE NoOne

OneSession ==
  \/ NotSigningIn
  \/ \E c \in calls : Calling(c)
  \/ \E k \in DOMAIN main : Returning(main[k])

\* Account a has just been created, and has no create screen yet.
Arriving(tasks, a) ==
  \E k \in DOMAIN tasks :
    /\ tasks[k].kind = "signedIn" /\ tasks[k].ok
    /\ tasks[k].call.kind = "signup" /\ tasks[k].call.account = a

\* A form r with screens ss, user u and an alert or not: only its own screen
\* is a create screen of its author; it is in front until the upload is done.
FormFits(r, ss, u, alerted) ==
  /\ r.screen \in {0} \cup DOMAIN ss
  /\ \A i \in DOMAIN ss : ss[i] = Create(r.author) <=> i = r.screen
  /\ Promised(r) => r.screen < Len(ss)
  /\ r.stage \in OfStorage => r.author = u
  /\ r.stage \in OfStorage /\ ~Promised(r) => r.screen = Len(ss) /\ ~alerted
  /\ r.stage \in {"written", "refused"} => r.email = r.author

\* Two forms that cannot both be: Storage has both, or one author two profiles.
Rivals(r, s) ==
  \/ r.stage \in OfStorage /\ s.stage \in OfStorage
  \/ Promised(r) /\ Promised(s) /\ r.author = s.author

FormsFit ==
  /\ \A f \in DOMAIN forms : FormFits(forms[f], screens, user, alert)
  /\ \A f, g \in DOMAIN forms : Rivals(forms[f], forms[g]) => f = g

\* No account has two create screens.
ScreensFit(ss, known) ==
  \A i \in DOMAIN ss :
    ss[i].kind = "create" => /\ ss[i].account \in known
                             /\ \A j \in DOMAIN ss : ss[i] = ss[j] => i = j

AccountsFit ==
  /\ user \in accounts \cup {NoOne}
  /\ \A f \in DOMAIN forms : forms[f].author \in accounts
  /\ ScreensFit(screens, accounts)
  /\ \A a \in Account :
       Arriving(main, a) => /\ a \in accounts
                            /\ \A i \in DOMAIN screens : screens[i] # Create(a)
                            /\ \A f \in DOMAIN forms : forms[f].author # a

\* Unless something interrupted it, an account is on its way to a profile.
OnItsWay(a) ==
  \/ Arriving(main, a)
  \/ Front = Create(a)
  \/ \E f \in DOMAIN forms :
       /\ forms[f].author = a /\ Promised(forms[f])
       /\ forms[f].stage \in {"linking", "answered", "written"}

Uninterrupted == lost = 0 /\ refusals = 0 /\ kills = 0

OneThingAtATime ==
  ~hasty =>
    /\ OneSession
    /\ FormsFit
    /\ AccountsFit
    /\ Uninterrupted => \A a \in accounts : OnItsWay(a)
===============================================================================
