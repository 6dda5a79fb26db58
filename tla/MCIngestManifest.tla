------------------------- MODULE MCIngestManifest -------------------------
(***************************************************************************)
(* The manifest of one scope with two sessions, two index generations, and  *)
(* three snapshots that compete for the pointer, one of which covers too    *)
(* little once both revisions are committed.                               *)
(***************************************************************************)
EXTENDS IngestManifest

CONSTANTS r1, r2, g1, g2, v1, d1, x1, a, b
MCSessionOf == [r \in Revisions |-> IF r = r2 THEN b ELSE a]
MCCommitKey == [r \in Revisions |-> IF r = r1 THEN 2 ELSE 1]
MCExtractionOf == [r \in Revisions |-> x1]
MCBuildsOn == [g \in Generations |-> x1]

Covering(g, commits) == [generation |-> g, view |-> v1, commits |-> commits]
Competing == {Covering(g1, {r1}), Covering(g1, {r1, r2}), Covering(g2, {r1, r2})}
=============================================================================
