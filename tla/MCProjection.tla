---------------------------- MODULE MCProjection ----------------------------
(***************************************************************************)
(* Three revisions of three sessions; a delta adds to one key or to two.    *)
(***************************************************************************)
EXTENDS Projection

CONSTANTS r1, r2, r3, x1, k1, k2

MCSessionOf == [r \in Revisions |-> r]
MCCommitKey == [r \in Revisions |-> IF r = r1 THEN 3 ELSE IF r = r2 THEN 2 ELSE 1]
MCExtractionOf == [r \in Revisions |-> x1]
NoGenerations == [g \in {} |-> x1]

MCPayloads == { [stats |-> 1, counts |-> [k \in {k1} |-> 1]],
                [stats |-> 2, counts |-> [k \in {k1, k2} |-> 1]] }
=============================================================================
