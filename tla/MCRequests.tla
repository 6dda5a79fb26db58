----------------------------- MODULE MCRequests -----------------------------
(***************************************************************************)
(* One caller posts a session of user u; the other asks anything, about u  *)
(* or about v, whose counts share a number with those of the other user.   *)
(* The graph holds a snapshot of two claims.  It may hold a claim or a turn *)
(* of another scope where one of the snapshot's should be.                 *)
(***************************************************************************)
EXTENDS Requests

MCKeys == {"u.session", "u.claim", "u", "v", "other", "root", "c1", "c2", "t1", "t2"}
MCIdOf == [k \in MCKeys |->
  CASE k \in {"v", "other"} -> 1 [] k = "u" -> 2 [] k = "u.session" -> 3 [] k = "u.claim" -> 5 [] k = "root" -> 6 [] k = "c1" -> 7 [] k = "c2" -> 8 [] k = "t1" -> 9
    [] k = "t2" -> 10]
MCCallers == {"post", "any"}
MCFibers == MCCallers \X {0, 1, 2}
MCKindsOf == [c \in MCCallers |-> IF c = "post" THEN {"ingest"} ELSE Kinds]
MCUsers == {"u", "v", "other"}
MCWritten == <<"u.session", "u.claim", "u">>
MCArmOf == << {"c1"}, {"c1", "c2"} >>
MCTurnOf == [k \in MCKeys |-> IF k = "c1" THEN "t1" ELSE IF k = "c2" THEN "t2" ELSE k]
Held(bad) == [i \in 1..6 |-> LET k == <<"t1", "t2", "c1", "c2", "root", "other">>[i] IN
                [key |-> k, by |-> "before", sound |-> k # bad]]
MCStored == {Held(bad) : bad \in {"none", "c2", "t1"}}
=============================================================================
