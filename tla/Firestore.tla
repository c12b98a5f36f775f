------------------------------ MODULE Firestore ------------------------------
(***************************************************************************)
(* What one device's Firestore SDK does with one document that one query   *)
(* of the app listens to.  The screens' modules keep, for each such        *)
(* document,                                                               *)
(*                                                                         *)
(*   a cached record [doc, committed]: the remote document cache.          *)
(*       committed is DocumentState::kCommittedMutations: the document was *)
(*       patched by the acknowledgement of a write and the Watch stream    *)
(*       has not sent the server's copy yet;                               *)
(*   a queue of patches whose answer the device has not heard, each at a   *)
(*       stage of the write stream;                                        *)
(*   a view record [doc, local]: the document the query's listeners were   *)
(*       last told of, and whether it still had unanswered patches then.   *)
(*                                                                         *)
(* The operators are pure: the modules apply them to their own state.      *)
(***************************************************************************)
EXTENDS Naturals, Sequences

Cached(doc, committed) == [doc |-> doc, committed |-> committed]

Viewed(doc, local) == [doc |-> doc, local |-> local]

(***************************************************************************)
(* The local value of a field: the queued patches applied in order to the  *)
(* cached value: a plain field takes the last value set.                   *)
(***************************************************************************)
LatestOf(base, patches) ==
  IF patches = <<>> THEN base ELSE patches[Len(patches)]

(***************************************************************************)
(* View::ComputeDocumentChanges for a document that stays in the query.    *)
(* The view waits for Watch when an acknowledged write changed the value   *)
(* the listeners have already seen (ShouldWaitForSyncedDocument).          *)
(***************************************************************************)
\* Faulty variant: waits for a refused patch too, which Watch never confirms.
WaitsForAnyAnswer(view, local, committed) == view.local /\ ~local

ShouldWaitForSyncedDocument(view, local, committed) ==
  view.local /\ committed /\ ~local

NextView(view, doc, local, committed) ==
  IF view.doc # doc
  THEN IF ShouldWaitForSyncedDocument(view, local, committed)
       THEN view
       ELSE Viewed(doc, local)
  ELSE Viewed(doc, local \/ (view.local /\ committed))

(***************************************************************************)
(* A listener added without metadata changes hears of a new view exactly   *)
(* when the document's data changed.                                       *)
(***************************************************************************)
\* Faulty variant: the listener asked for metadata changes.
RaisesOnMetadata(view, newView) == view # newView

ShouldRaiseEvent(view, newView) == view.doc # newView.doc

(***************************************************************************)
(* The write stream.  Writes go to the server in the order they were       *)
(* queued, several at a time, and so do the answers come back.  A write is *)
(*   "queued"     until the server commits it,                             *)
(*   "committed"  while the acknowledgement is on its way,                 *)
(*   "watched"    while it is and Watch was faster: the cached document    *)
(*                is already as new as the acknowledgement.                *)
(* A new stream or process sends every write without an answer again.      *)
(***************************************************************************)
Stage == {"queued", "committed", "watched"}

IsNextWrite(q, i) ==
  /\ q[i].stage = "queued"
  /\ \A j \in 1..(i - 1) : q[j].stage # "queued"

Resent(q) == [i \in 1..Len(q) |-> [q[i] EXCEPT !.stage = "queued"]]

\* LocalStore::ApplyBatchResult patches the cached document unless that is
\* already as new as the acknowledgement.
Acknowledged(cached, m, patched) ==
  IF m.stage = "committed" THEN Cached(patched, TRUE) ELSE cached

(***************************************************************************)
(* LocalStore::ApplyRemoteEvent takes a document from Watch when it is     *)
(* newer than the cached one, or as new and the cached one was patched by  *)
(* an acknowledgement.                                                     *)
(***************************************************************************)
WatchIsNews(cached, serverDoc) == cached.committed \/ cached.doc # serverDoc
==============================================================================
