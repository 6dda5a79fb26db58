---------------------------- MODULE QueryMemory ----------------------------
(***************************************************************************)
(* What the ingest manifest promises a reader of one scope: the memory     *)
(* queries see is always the committed set of some earlier instant.  It is *)
(* replaced as a whole, never by something smaller, and a commit is never  *)
(* undone.  A commit may reach durable state before it becomes visible.    *)
(***************************************************************************)
CONSTANT Revisions
VARIABLES committed, visible

Init == committed = {} /\ visible = {}

Commit(S) ==
  /\ committed' = committed \cup S
  /\ UNCHANGED visible

Publish(S) ==
  /\ committed' = committed \cup S
  /\ visible' = committed'

Next == \E S \in SUBSET Revisions : Commit(S) \/ Publish(S)

Spec == Init /\ [][Next]_<<committed, visible>>
=============================================================================
