---------------------------- MODULE FirestoreFacts ----------------------------
(***************************************************************************)
(* What the operators of Firestore return and preserve, for the proofs     *)
(* about the screens that listen to a document.                            *)
(***************************************************************************)
EXTENDS Firestore, QueueFacts

\* A view of documents of D stays one.
LEMMA NextViewType ==
  ASSUME NEW D, NEW v \in [doc : D, local : BOOLEAN], NEW doc \in D,
         NEW local \in BOOLEAN, NEW committed \in BOOLEAN
  PROVE  NextView(v, doc, local, committed) \in [doc : D, local : BOOLEAN]
BY DEF NextView, ShouldWaitForSyncedDocument, Viewed

\* A view computed from the current document shows it, unless it waits for an
\* acknowledged patch to come back.
LEMMA NextViewCurrent ==
  ASSUME NEW v, NEW doc, NEW local, NEW committed
  PROVE  \/ NextView(v, doc, local, committed).doc = doc
         \/ NextView(v, doc, local, committed).local /\ committed
BY DEF NextView, ShouldWaitForSyncedDocument, Viewed

\* It shows it if it does not wait.
LEMMA NextViewShown ==
  ASSUME NEW v, NEW doc, NEW local, NEW committed,
         ~ShouldWaitForSyncedDocument(v, local, committed)
  PROVE  NextView(v, doc, local, committed).doc = doc
BY DEF NextView, Viewed

\* The local value of a field is the value last queued, or else the base.
LEMMA Latest ==
  ASSUME NEW S, NEW base, NEW p \in Seq(S)
  PROVE  /\ p = <<>> => LatestOf(base, p) = base
         /\ p # <<>> => LatestOf(base, p) = p[Len(p)] /\ LatestOf(base, p) \in S
<1>1. ASSUME p # <<>> PROVE p[Len(p)] \in S
  BY <1>1, Queued
<1>. QED
  BY <1>1 DEF LatestOf

\* Sending a queue again changes the stages alone.
LEMMA ResentFacts ==
  ASSUME NEW S, NEW q \in Seq(S)
  PROVE  /\ Len(Resent(q)) = Len(q) /\ DOMAIN Resent(q) = 1..Len(q)
         /\ \A i \in 1..Len(q) : Resent(q)[i] = [q[i] EXCEPT !.stage = "queued"]
<1> DEFINE F == [i \in 1..Len(q) |-> [q[i] EXCEPT !.stage = "queued"]]
<1>1. Len(q) \in Nat
  BY Queued
<1>2. /\ DOMAIN F = 1..Len(q)
      /\ \A i \in 1..Len(q) : F[i] = [q[i] EXCEPT !.stage = "queued"]
  OBVIOUS
<1>3. F \in Seq({F[i] : i \in 1..Len(q)})
  <2>1. F \in [1..Len(q) -> {F[i] : i \in 1..Len(q)}]
    OBVIOUS
  <2>. QED
    BY <1>1, <2>1, SeqDef
<1>. HIDE DEF F
<1>4. Len(F) \in Nat /\ DOMAIN F = 1..Len(F)
  BY <1>3, Queued
<1>5. Len(F) = Len(q)
  BY <1>1, <1>2, <1>4
<1>. QED
  BY <1>2, <1>5 DEF F, Resent

\* A queue whose writes stay in S when they are sent again stays in Seq(S).
LEMMA ResentType ==
  ASSUME NEW S, NEW q \in Seq(S), \A m \in S : [m EXCEPT !.stage = "queued"] \in S
  PROVE  Resent(q) \in Seq(S)
<1>1. Len(q) \in Nat /\ \A i \in 1..Len(q) : q[i] \in S
  BY Queued
<1>2. [i \in 1..Len(q) |-> [q[i] EXCEPT !.stage = "queued"]] \in [1..Len(q) -> S]
  BY <1>1
<1>. QED
  BY <1>1, <1>2, SeqDef DEF Resent
===============================================================================
