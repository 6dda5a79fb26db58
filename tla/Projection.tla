----------------------------- MODULE Projection -----------------------------
(***************************************************************************)
(* The rebuildable projection of one scope (IngestManifest/Projection.ts,   *)
(* Codec.ts): totals and counts that each commit adds to by a delta stored  *)
(* with the manifest version the commit has, or is expected to get.         *)
(*                                                                         *)
(* Each operation is one transaction, as in IngestManifest; revisions come  *)
(* from there.  The caller applies deltas in any order and may repeat one,  *)
(* which is answered from the stored row.  The eight totals are one number  *)
(* and the two count tables one table.                                     *)
(***************************************************************************)
EXTENDS IngestManifest

CONSTANTS
  CountKeys,        \* tokens and slots
  Payloads,         \* deltas: totals and counts
  MaxFaults         \* bound on what damages the tables

ASSUME PayloadsAreCounts ==
  /\ MaxFaults \in Nat
  /\ \A p \in Payloads :
       /\ p.stats \in Nat
       /\ DOMAIN p.counts \subseteq CountKeys /\ p.counts \in [DOMAIN p.counts -> Nat]

\* The rows of projection_deltas and user_projections.
DeltaRow == [version : Nat, stats : Nat, counts : UNION {[K -> Nat] : K \in SUBSET CountKeys}]
ProjectionRow ==
  [version : Nat, last : Revisions \cup {None}, reconciled : Revisions \cup {None}, stats : Nat,
   consistency : {"consistent", "stale"}]

ASSUME NoneIsNoRow == None \notin DeltaRow /\ None \notin ProjectionRow

VARIABLES
  deltas,           \* projection_deltas: None, or a payload with its expected version
  projection,       \* user_projections: None, or the row
  counts,           \* projection_token_counts and projection_slot_counts
  faults            \* the faults so far

projectionVars == <<deltas, projection, counts>>
projVars == <<imVars, projectionVars, faults>>

NoCounts == [k \in {} |-> 0]

emptyProjection ==
  [version |-> 0, last |-> None, reconciled |-> None, stats |-> 0, consistency |-> "unknown"]

ProjectionInit ==
  /\ Init
  /\ deltas = [r \in Revisions |-> None]
  /\ projection = None
  /\ counts = NoCounts
  /\ faults = 0

-----------------------------------------------------------------------------
Applied == {r \in Revisions : deltas[r] # None}

CurrentRow == IF projection = None THEN emptyProjection ELSE projection

CountAt(f, k) == IF k \in DOMAIN f THEN f[k] ELSE 0

\* The sum of the numbers of a function: each counts as many elements as it says.
Total(n) == Cardinality(UNION {{x} \X (1..n[x]) : x \in DOMAIN n})

addCounts(f, g) == [k \in DOMAIN f \cup DOMAIN g |-> CountAt(f, k) + CountAt(g, k)]

addStats(left, right) == left + right

\* Fault: a delta is always expected one version ahead.
OneAhead(r) == version[r] + 1

\* The version a delta goes under: its commit's, or the next after the one the
\* revision was begun at.
ExpectedVersion(r) == IF state[r] = "COMMITTED" THEN version[r] ELSE version[r] + 1

\* Fault: a delta is applied whatever the version of the projection.
AppliesAnywhere(r) == state[r] = "COMMITTED"

\* The stored projection is one version behind, and no other delta has the version.
MayApply(r) ==
  /\ state[r] \in {"CONSOLIDATED", "COMMITTED"}
  /\ CurrentRow.version = ExpectedVersion(r) - 1
  /\ \A q \in Applied : deltas[q].version # ExpectedVersion(r)

ApplyDelta(r, payload) ==
  /\ r \notin Applied
  /\ MayApply(r)
  /\ deltas' = [deltas EXCEPT ![r] = [version |-> ExpectedVersion(r), stats |-> payload.stats,
                                      counts |-> payload.counts]]
  /\ projection' = [version |-> ExpectedVersion(r), last |-> r, reconciled |-> r,
                    stats |-> addStats(CurrentRow.stats, payload.stats),
                    consistency |-> "consistent"]
  /\ counts' = addCounts(counts, payload.counts)
  /\ UNCHANGED <<imVars, faults>>

\* The stored deltas are not numbered without gap from one.
Gap == {deltas[r].version : r \in Applied} # 1..Cardinality(Applied)

\* The projection and the counts the stored deltas add up to.
Rebuilt ==
  LET n == Cardinality(Applied)
      latest == IF n = 0 THEN None ELSE CHOOSE r \in Applied : deltas[r].version = n
  IN  [version |-> n, last |-> latest, reconciled |-> latest,
       stats |-> Total([r \in Applied |-> deltas[r].stats]),
       consistency |-> "consistent"]

RebuiltCounts ==
  [k \in UNION {DOMAIN deltas[r].counts : r \in Applied} |->
     Total([r \in Applied |-> CountAt(deltas[r].counts, k)])]

\* Fault: a repair adds the rows that are missing and keeps what is there.
RepairedOver ==
  [k \in DOMAIN counts \cup DOMAIN RebuiltCounts |->
     IF k \in DOMAIN counts THEN counts[k] ELSE RebuiltCounts[k]]

RepairedCounts == RebuiltCounts

\* Fault: a gap is seen, and the row is left as it is.
Unmarked(row) == row

Staled(row) == [row EXCEPT !.consistency = "stale"]

\* A gap marks the row stale; anything else is rewritten from the deltas.
Reconcile ==
  /\ Applied # {} \/ projection # None
  /\ IF Gap
     THEN /\ projection' = IF projection = None THEN None ELSE Staled(projection)
          /\ UNCHANGED counts
     ELSE projection' = Rebuilt /\ counts' = RepairedCounts
  /\ UNCHANGED <<imVars, deltas, faults>>

\* Rows are damaged by hand: totals or counts are set to zero or lost, or a delta is lost.
Damage ==
  /\ faults < MaxFaults
  /\ faults' = faults + 1
  /\ \/ projection # None /\ projection' = [projection EXCEPT !.stats = 0]
        /\ UNCHANGED <<deltas, counts>>
     \/ projection' = None /\ UNCHANGED <<deltas, counts>>
     \/ \E K \in SUBSET DOMAIN counts :
          counts' = [k \in K |-> 0] /\ UNCHANGED <<deltas, projection>>
     \/ \E r \in Applied : deltas' = [deltas EXCEPT ![r] = None]
                           /\ UNCHANGED <<projection, counts>>
  /\ UNCHANGED imVars

ManifestStep == \E r \in Revisions : (Begin(r) \/ Advance(r)) /\ UNCHANGED <<projectionVars, faults>>

ApplyStep(r) == \E payload \in Payloads : ApplyDelta(r, payload)

ProjectionNext ==
  \/ ManifestStep
  \/ \E r \in Revisions : ApplyStep(r)
  \/ Reconcile
  \/ Damage

\* Callers repeat a delta until it is applied, and reconcile again and again.
ProjectionSpec ==
  /\ ProjectionInit /\ [][ProjectionNext]_projVars
  /\ WF_projVars(Reconcile)
  /\ \A r \in Revisions : WF_projVars(state[r] = "COMMITTED" /\ ApplyStep(r))

-----------------------------------------------------------------------------
\* The rows are what their decoders accept.
ProjectionTypeOK ==
  /\ \A r \in Applied : deltas[r].version \in 1..Cardinality(Revisions) /\ deltas[r].stats \in Nat
  /\ projection \in ProjectionRow \cup {None}
  /\ DOMAIN counts \subseteq CountKeys /\ counts \in [DOMAIN counts -> Nat]

\* The stored projection is the sum of the stored deltas.
AddsUp == CurrentRow.stats = Rebuilt.stats /\ CurrentRow.version = Rebuilt.version /\ counts = RebuiltCounts

\* A delta that was applied before its commit stands for a version another commit got.
Overtaken ==
  \E r \in Applied : IF state[r] = "COMMITTED" THEN deltas[r].version # version[r]
                     ELSE deltas[r].version <= manifestVersion

\* Undamaged, the projection is the sum of the deltas, each counted once however often it
\* is sent, and holds every commit up to its version unless one was overtaken.
ProjectionIsTheCommits ==
  faults = 0 =>
    /\ ~Gap /\ AddsUp
    /\ ~Overtaken => {r \in Committed : version[r] <= CurrentRow.version} \subseteq Applied

\* Whatever was damaged or applied meanwhile, reconciliation comes to a projection that is
\* the sum of the deltas and not called stale or, when a delta is missing between others,
\* to one that is called stale.  Where no row is stored it stores none to say so, and where
\* no delta is left either it leaves the counts.
ReconciliationRestores ==
  []<>\/ ~Gap /\ AddsUp /\ CurrentRow.consistency # "stale"
      \/ projection # None /\ Gap /\ projection.consistency = "stale"
      \/ projection = None /\ (Gap \/ Applied = {})

\* Every commit reaches the projection, unless a delta is lost for good or overtaken.
CommitsAreProjected ==
  \A r \in Revisions : (state[r] = "COMMITTED") ~> (r \in Applied \/ Gap \/ Overtaken)
=============================================================================
