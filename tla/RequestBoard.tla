----------------------------- MODULE RequestBoard -----------------------------
(***************************************************************************)
(* What sending play requests promises, without devices, queues or caches: *)
(* a board of stored requests, and per player the set of requesters shown  *)
(* on their Users document.  A request is stored first and shown later, if *)
(* ever; nothing is taken back.                                            *)
(***************************************************************************)
CONSTANTS Player, Id

VARIABLES requests, pending

Init ==
  /\ requests = {}
  /\ pending = [r \in Player |-> {}]

Store(s, r, n) ==
  /\ requests' = requests \cup {[from |-> s, to |-> r, n |-> n]}
  /\ UNCHANGED pending

Show(s, r) ==
  /\ \E q \in requests : q.from = s /\ q.to = r
  /\ pending' = [pending EXCEPT ![r] = @ \cup {s}]
  /\ UNCHANGED requests

Next ==
  \E s, r \in Player :
    \/ \E n \in Id : Store(s, r, n)
    \/ Show(s, r)

Spec == Init /\ [][Next]_<<requests, pending>>
===============================================================================
