---------------------------- MODULE MCSourceCommit ----------------------------
(***************************************************************************)
(* The pipeline of one scope with two processes and two sessions.          *)
(***************************************************************************)
EXTENDS SourceCommit, TLC

CONSTANTS r1, r2, g1, g2, x1, x2, a, b, w1, w2, m1, m2, d1, d2

MCSessionOf == [r \in Revisions |-> IF r = r1 THEN a ELSE b]
MCCommitKey == [r \in Revisions |-> IF r = r1 THEN 2 ELSE 1]

\* One extraction generation, or one per revision.
OneExtraction == [r \in Revisions |-> x1]
MixedExtraction == [r \in Revisions |-> IF r = r1 THEN x1 ELSE x2]
MCBuildsOn == [g \in Generations |-> IF g = g1 THEN x1 ELSE x2]

\* One lock file, or two names of one manifest with a lock file each.
OneName == {[w \in Workers |-> m1]}
OneOrTwoNames == OneName \cup {f \in [Workers -> {m1, m2}] : \A v, w \in Workers : v # w => f[v] # f[w]}
Coverages == {c \cup {} : c \in SUBSET Revisions}
Coverings == {SnapshotOf(g, c) : g \in Generations, c \in Coverages \ {{}}}

\* Processes on one lock file, and drafts, are interchangeable.
AlikeWorkers == Permutations(Workers)
Alike == AlikeWorkers \cup Permutations(Drafts)
MCDigests == UNION {[c -> Drafts \X Coverages] : c \in Coverages}
=============================================================================
