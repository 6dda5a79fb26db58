--------------------------- MODULE IngestManifest ---------------------------
(***************************************************************************)
(* The SQLite ingest manifest of one (tenant, uid) scope: the write        *)
(* authority for source-revision state, per-user ordering, commit ids and  *)
(* the active snapshot pointer (packages/palimpsest/src/IngestManifest).   *)
(*                                                                         *)
(* Every operation of the code is one BEGIN IMMEDIATE .. COMMIT            *)
(* transaction, so every operation is one action.  An operation that       *)
(* throws is rolled back: it is an action that is not enabled.  A repeat   *)
(* that the code answers from the stored row (an idempotent replay) is a   *)
(* stuttering step and is left out.                                        *)
(*                                                                         *)
(* The callers are arbitrary: any operation may be called at any time.     *)
(* SourceCommit restricts them to what the ingest pipeline does.           *)
(***************************************************************************)
EXTENDS Integers, FiniteSets

CONSTANTS
  Revisions,        \* source revisions (a commit id is a hash of the identity)
  SessionOf,        \* the logical session of a revision
  CommitKey,        \* the sort position of a revision's commit id
  ExtractionOf,     \* the extraction generation a revision is bound to
  Generations,      \* index generations
  BuildsOn,         \* the extraction generation an index generation names
  Views,            \* entity canonical views
  Snapshots,        \* content-addressed snapshot descriptors
  Digests,          \* verification evidence (digest, roots and counts)
  None,             \* SQL NULL, or no row
  MaxBuilds         \* bound on build_attempt

IngestStates ==
  {"RECEIVED", "SOURCE_DURABLE", "INDEXED", "ENRICHED", "CONSOLIDATED", "COMMITTED"}

SnapshotStates == {"BUILDING", "VERIFIED", "ACTIVE", "SUPERSEDED", "FAILED"}

SnapshotShape == [generation : Generations, view : Views, commits : SUBSET Revisions]

ASSUME RevisionsFinite == IsFiniteSet(Revisions)
ASSUME CommitKeyInjective ==
  /\ CommitKey \in [Revisions -> Nat]
  /\ \A q, r \in Revisions : CommitKey[q] = CommitKey[r] => q = r
ASSUME SnapshotsAreDescriptors == Snapshots \subseteq SnapshotShape
ASSUME SessionsAndExtractions ==
  /\ DOMAIN SessionOf = Revisions /\ DOMAIN ExtractionOf = Revisions
  /\ DOMAIN BuildsOn = Generations
ASSUME NoneIsNull ==
  /\ None \notin Snapshots /\ None \notin Digests
  /\ None \notin Generations /\ None \notin Views
  /\ None \notin IngestStates /\ None \notin SnapshotStates
ASSUME MaxBuildsIsPos == MaxBuilds \in Nat \ {0}

VARIABLES
  state,            \* source_revisions.state, None before the row exists
  ordinal,          \* source_revisions.session_ordinal, 0 before the row exists
  version,          \* source_revisions.manifest_version
  blocked,          \* failure_code set with failure_retryable = 0
  committedAt,      \* committed_at_ms is not NULL
  nextOrdinal,      \* user_manifests.next_session_ordinal
  manifestVersion,  \* user_manifests.manifest_version
  generations,      \* index_generations rows
  views,            \* entity_canonical_views rows
  snapState,        \* user_index_snapshots.state, None before the row exists
  attempt,          \* user_index_snapshots.build_attempt
  evidence,         \* verification_digest with graph roots and counts
  pointer,          \* active_index_snapshots.snapshot_id
  pointerVersion,   \* active_index_snapshots.manifest_version
  activeGeneration, \* active_index_generations.generation_id
  activeView        \* active_entity_canonical_views.view_id

revisionVars == <<state, ordinal, version, blocked, committedAt>>
manifestVars == <<nextOrdinal, manifestVersion>>
catalogVars  == <<generations, views>>
snapshotVars == <<snapState, attempt, evidence>>
pointerVars  == <<pointer, pointerVersion>>
bindingVars  == <<activeGeneration, activeView>>
imVars == <<revisionVars, manifestVars, catalogVars, snapshotVars, pointerVars, bindingVars>>

\* The states that carry verification evidence (decodeRecord's expectsEvidence).
EvidenceStates == {"VERIFIED", "ACTIVE", "SUPERSEDED"}

Successor ==
  [s \in IngestStates \ {"COMMITTED"} |->
     CASE s = "RECEIVED"       -> "SOURCE_DURABLE"
       [] s = "SOURCE_DURABLE" -> "INDEXED"
       [] s = "INDEXED"        -> "ENRICHED"
       [] s = "ENRICHED"       -> "CONSOLIDATED"
       [] s = "CONSOLIDATED"   -> "COMMITTED"]

Known     == {r \in Revisions : state[r] # None}
Committed == {r \in Revisions : state[r] = "COMMITTED"}

\* What a query sees: the coverage of the snapshot the pointer names.
Coverage == IF pointer = None THEN {} ELSE pointer.commits

Init ==
  /\ state       = [r \in Revisions |-> None]
  /\ ordinal     = [r \in Revisions |-> 0]
  /\ version     = [r \in Revisions |-> 0]
  /\ blocked     = [r \in Revisions |-> FALSE]
  /\ committedAt = [r \in Revisions |-> FALSE]
  /\ nextOrdinal = 1
  /\ manifestVersion = 0
  /\ generations = {}
  /\ views = {}
  /\ snapState = [s \in Snapshots |-> None]
  /\ attempt   = [s \in Snapshots |-> 0]
  /\ evidence  = [s \in Snapshots |-> None]
  /\ pointer = None
  /\ pointerVersion = 0
  /\ activeGeneration = None
  /\ activeView = None

-----------------------------------------------------------------------------
(***************************************************************************)
(* Source revisions.                                                       *)
(***************************************************************************)

\* A logical session keeps the ordinal of its first revision.
OrdinalFor(r) ==
  LET siblings == {q \in Known : SessionOf[q] = SessionOf[r]}
  IN  IF siblings = {} THEN nextOrdinal
      ELSE ordinal[CHOOSE q \in siblings : TRUE]

Begin(r) ==
  /\ state[r] = None
  /\ state'   = [state EXCEPT ![r] = "RECEIVED"]
  /\ ordinal' = [ordinal EXCEPT ![r] = OrdinalFor(r)]
  /\ version' = [version EXCEPT ![r] = manifestVersion]
  /\ nextOrdinal' = IF OrdinalFor(r) = nextOrdinal THEN nextOrdinal + 1 ELSE nextOrdinal
  /\ UNCHANGED <<blocked, committedAt, manifestVersion, catalogVars,
                 snapshotVars, pointerVars, bindingVars>>

\* A blocked revision throws IngestRevisionBlocked; a COMMITTED one has no successor.
MayAdvance(r) == state[r] \in DOMAIN Successor /\ ~blocked[r]

Advance(r) ==
  LET to == Successor[state[r]] IN
  /\ MayAdvance(r)
  /\ state' = [state EXCEPT ![r] = to]
  /\ blocked' = [blocked EXCEPT ![r] = FALSE]
  /\ IF to = "COMMITTED"
     THEN /\ manifestVersion' = manifestVersion + 1
          /\ version' = [version EXCEPT ![r] = manifestVersion + 1]
          /\ committedAt' = [committedAt EXCEPT ![r] = TRUE]
     ELSE UNCHANGED <<manifestVersion, version, committedAt>>
  /\ UNCHANGED <<ordinal, nextOrdinal, catalogVars, snapshotVars, pointerVars, bindingVars>>

\* A failure cannot be recorded for a COMMITTED revision.
MayRecordFailure(r) == r \in Known \ Committed

\* The failure columns are overwritten: a retryable failure clears a terminal one.
RecordFailure(r, retryable) ==
  /\ MayRecordFailure(r)
  /\ blocked' = [blocked EXCEPT ![r] = ~retryable]
  /\ UNCHANGED <<state, ordinal, version, committedAt, manifestVars, catalogVars,
                 snapshotVars, pointerVars, bindingVars>>

-----------------------------------------------------------------------------
(***************************************************************************)
(* The catalog a snapshot refers to, and its legacy companion pointers.    *)
(***************************************************************************)

\* storeGeneration refuses a generation whose extraction generation no begin recorded.
StoreGeneration(g) ==
  /\ \E r \in Known : ExtractionOf[r] = BuildsOn[g]
  /\ generations' = generations \cup {g}
  /\ UNCHANGED <<revisionVars, manifestVars, views, snapshotVars, pointerVars, bindingVars>>

StoreView(w) ==
  /\ views' = views \cup {w}
  /\ UNCHANGED <<revisionVars, manifestVars, generations, snapshotVars, pointerVars, bindingVars>>

ActivateGeneration(g) ==
  /\ g \in generations
  /\ activeGeneration' = g
  /\ UNCHANGED <<revisionVars, manifestVars, catalogVars, snapshotVars, pointerVars, activeView>>

ActivateView(w) ==
  /\ w \in views
  /\ activeView' = w
  /\ UNCHANGED <<revisionVars, manifestVars, catalogVars, snapshotVars, pointerVars,
                 activeGeneration>>

-----------------------------------------------------------------------------
(***************************************************************************)
(* The snapshot lifecycle up to verification.                              *)
(***************************************************************************)

Reopens(s) == snapState[s] = "FAILED"

Register(s) ==
  /\ \/ /\ snapState[s] = None
        /\ s.generation \in generations
        /\ s.view \in views
        /\ s.commits \subseteq Known
     \/ Reopens(s)
  /\ attempt[s] < MaxBuilds
  /\ snapState' = [snapState EXCEPT ![s] = "BUILDING"]
  /\ attempt'   = [attempt EXCEPT ![s] = @ + 1]
  /\ evidence'  = [evidence EXCEPT ![s] = None]
  /\ UNCHANGED <<revisionVars, manifestVars, catalogVars, pointerVars, bindingVars>>

\* A VERIFIED snapshot answers the same evidence and refuses any other.
MayVerify(s) == snapState[s] = "BUILDING"

Verify(s, digest) ==
  /\ MayVerify(s)
  /\ snapState' = [snapState EXCEPT ![s] = "VERIFIED"]
  /\ evidence'  = [evidence EXCEPT ![s] = digest]
  /\ UNCHANGED <<revisionVars, manifestVars, catalogVars, attempt, pointerVars, bindingVars>>

MayFail(s) == snapState[s] = "BUILDING"

FailSnapshot(s) ==
  /\ MayFail(s)
  /\ snapState' = [snapState EXCEPT ![s] = "FAILED"]
  /\ UNCHANGED <<revisionVars, manifestVars, catalogVars, attempt, evidence, pointerVars,
                 bindingVars>>

-----------------------------------------------------------------------------
(***************************************************************************)
(* Activation: the compare-and-swap on (manifest version, active pointer). *)
(***************************************************************************)

\* Fault: only the generation row follows the snapshot.
BindGenerationOnly(s) ==
  /\ activeGeneration' = s.generation
  /\ UNCHANGED activeView

\* activateSnapshotBindings: the companion rows follow the snapshot.
BindTo(s) ==
  /\ activeGeneration' = s.generation
  /\ activeView' = s.view

\* Fault: the snapshot that was active is written with a state no decoder knows.
RetirePrevious(s) ==
  [x \in Snapshots |-> IF x = s THEN "ACTIVE"
                       ELSE IF x = pointer THEN "RETIRED"
                       ELSE snapState[x]]

\* The snapshot rows once s is active and the previous one SUPERSEDED.
Supersede(s) ==
  [x \in Snapshots |-> IF x = s THEN "ACTIVE"
                       ELSE IF x = pointer THEN "SUPERSEDED"
                       ELSE snapState[x]]

\* A snapshot the pointer already names is answered again and its bindings re-aligned.
Realign(s) ==
  /\ pointer = s
  /\ snapState[s] = "ACTIVE"
  /\ BindTo(s)
  /\ UNCHANGED <<revisionVars, manifestVars, catalogVars, snapshotVars, pointerVars>>

Expected(expectedVersion, expectedActive) ==
  /\ manifestVersion = expectedVersion
  /\ pointer = expectedActive

\* Fault: a snapshot that misses a committed revision may be activated.
CoversNothingElse(s, committed) == TRUE

CoversAll(s, committed) == committed \subseteq s.commits

Activate(s, expectedVersion, expectedActive) ==
  /\ pointer # s
  /\ snapState[s] \in {"VERIFIED", "SUPERSEDED"}
  /\ s.commits \subseteq Committed
  /\ CoversAll(s, Committed)
  /\ Expected(expectedVersion, expectedActive)
  /\ snapState' = Supersede(s)
  /\ pointer' = s
  /\ pointerVersion' = manifestVersion
  /\ BindTo(s)
  /\ UNCHANGED <<revisionVars, manifestVars, catalogVars, attempt, evidence>>

\* The order of a snapshot's revisions: session ordinal, then commit id.
Precedes(q, r) ==
  \/ ordinal[q] < ordinal[r]
  \/ ordinal[q] = ordinal[r] /\ CommitKey[q] < CommitKey[r]

\* Fault: the swap moves the pointer and commits nothing.
PendingSkipped(s) == {}

\* The listed revisions the transaction commits, in list order.
Pending(s) == s.commits \ Committed

Committable(r) == state[r] = "CONSOLIDATED" /\ ~blocked[r]

\* The position r takes when the revisions of P are committed one by one.
Place(P, r) == Cardinality({q \in P : q = r \/ Precedes(q, r)})

VersionAt(s, r) == manifestVersion + Place(Pending(s), r)

PostCommitVersion(s) == manifestVersion + Cardinality(Pending(s))

CommitAndActivate(s, expectedVersion, expectedActive) ==
  /\ pointer # s
  /\ snapState[s] = "VERIFIED"
  /\ \A r \in Pending(s) : Committable(r)
  /\ CoversAll(s, Committed \cup Pending(s))
  /\ Expected(expectedVersion, expectedActive)
  /\ state'   = [r \in Revisions |-> IF r \in Pending(s) THEN "COMMITTED" ELSE state[r]]
  /\ version' = [r \in Revisions |-> IF r \in Pending(s) THEN VersionAt(s, r) ELSE version[r]]
  /\ blocked' = [r \in Revisions |-> IF r \in Pending(s) THEN FALSE ELSE blocked[r]]
  /\ manifestVersion' = manifestVersion + Cardinality(Pending(s))
  /\ snapState' = Supersede(s)
  /\ pointer' = s
  /\ pointerVersion' = PostCommitVersion(s)
  /\ BindTo(s)
  /\ UNCHANGED <<ordinal, committedAt, nextOrdinal, catalogVars, attempt, evidence>>

\* Opening the manifest file again: the v13 migration backfills the watermark.
Reopen ==
  /\ committedAt' = [r \in Revisions |-> committedAt[r] \/ state[r] = "COMMITTED"]
  /\ UNCHANGED <<state, ordinal, version, blocked, manifestVars, catalogVars,
                 snapshotVars, pointerVars, bindingVars>>

-----------------------------------------------------------------------------
RevisionStep ==
  \E r \in Revisions :
    \/ Begin(r)
    \/ Advance(r)
    \/ \E retryable \in BOOLEAN : RecordFailure(r, retryable)

CatalogStep ==
  \/ \E g \in Generations : StoreGeneration(g) \/ ActivateGeneration(g)
  \/ \E w \in Views : StoreView(w) \/ ActivateView(w)

SnapshotStep ==
  \E s \in Snapshots :
    \/ Register(s)
    \/ \E digest \in Digests : Verify(s, digest)
    \/ FailSnapshot(s)
    \/ Realign(s)
    \/ \E v \in 0 .. Cardinality(Revisions), a \in Snapshots \cup {None} :
         Activate(s, v, a) \/ CommitAndActivate(s, v, a)

Next == RevisionStep \/ CatalogStep \/ SnapshotStep \/ Reopen

Spec == Init /\ [][Next]_imVars

-----------------------------------------------------------------------------
(***************************************************************************)
(* Properties.                                                             *)
(***************************************************************************)

\* Every column holds a value the decoders of Rows.ts and Snapshots.ts accept.
TypeOK ==
  /\ state \in [Revisions -> IngestStates \cup {None}]
  /\ ordinal \in [Revisions -> Nat]
  /\ version \in [Revisions -> Nat]
  /\ blocked \in [Revisions -> BOOLEAN]
  /\ committedAt \in [Revisions -> BOOLEAN]
  /\ nextOrdinal \in Nat \ {0}
  /\ manifestVersion \in Nat
  /\ generations \subseteq Generations
  /\ views \subseteq Views
  /\ snapState \in [Snapshots -> SnapshotStates \cup {None}]
  /\ attempt \in [Snapshots -> 0 .. MaxBuilds]
  /\ evidence \in [Snapshots -> Digests \cup {None}]
  /\ pointer \in Snapshots \cup {None}
  /\ pointerVersion \in Nat
  /\ activeGeneration \in Generations \cup {None}
  /\ activeView \in Views \cup {None}

\* The pointer names the one ACTIVE snapshot: readActive, activate and
\* commitAndActivate throw on a pointer to any other row, after which the scope
\* could never be queried or activated again.
PointerNamesTheActive ==
  \A s \in Snapshots : snapState[s] = "ACTIVE" <=> pointer = s

\* Evidence is present in exactly the states decodeRecord demands it in: any
\* other row makes every later read of that snapshot throw.
EvidenceMatchesState ==
  \A s \in Snapshots : evidence[s] # None <=> snapState[s] \in EvidenceStates

\* The manifest version counts the commits and numbers them: each COMMITTED
\* revision holds its own version, whichever operation committed it.
CommitsAreNumbered ==
  /\ manifestVersion = Cardinality(Committed)
  /\ \A r \in Committed : version[r] \in 1 .. manifestVersion
  /\ \A q, r \in Committed : version[q] = version[r] => q = r

\* What queries see is the committed set exactly as of the version recorded
\* with the pointer: nothing uncommitted, and nothing committed by then missing.
CoverageAtVersion ==
  pointer # None => Coverage = {r \in Committed : version[r] <= pointerVersion}

\* Two revisions share an ordinal exactly when they belong to one logical
\* session, however the begin calls of its revisions interleave with others.
OrdinalsNameSessions ==
  \A q, r \in Known : ordinal[q] = ordinal[r] <=> SessionOf[q] = SessionOf[r]

\* A terminal failure sits on a recorded, uncommitted revision: a late failure
\* report cannot make durable memory look blocked.
BlockedIsPending == \A r \in Revisions : blocked[r] => r \in Known \ Committed

\* A commit is never undone, and no activation takes a revision away from queries.
NothingForgotten == [][Committed \subseteq Committed' /\ Coverage \subseteq Coverage']_imVars

\* A revision with a recorded terminal failure stays where it is until the
\* failure is overwritten: neither advance nor another revision's terminal
\* transaction moves it.
TerminalFailureParks == [][\A r \in Revisions : blocked[r] => state'[r] = state[r]]_imVars

\* The evidence of a verified snapshot is written once and survives activation,
\* supersession, re-registration and re-activation.
VerifiedOnce ==
  [][\A s \in Snapshots : evidence[s] # None => evidence'[s] = evidence[s]]_imVars

\* A pointer move publishes everything committed at that instant, records the
\* version it was taken at, and carries the companion rows with it.
PublicationIsAtomic ==
  [][pointer' # pointer =>
       /\ Coverage' = Committed'
       /\ pointerVersion' = manifestVersion'
       /\ activeGeneration' = pointer'.generation
       /\ activeView' = pointer'.view]_imVars

\* The inductive invariant: the invariants above, and what they need.  Coverage
\* never runs ahead of the commits, and every allocated ordinal is below the next.
IndInv ==
  /\ TypeOK
  /\ PointerNamesTheActive
  /\ EvidenceMatchesState
  /\ CommitsAreNumbered
  /\ CoverageAtVersion
  /\ pointerVersion <= manifestVersion
  /\ OrdinalsNameSessions
  /\ \A r \in Known : ordinal[r] \in 1 .. nextOrdinal - 1
  /\ BlockedIsPending

Memory == INSTANCE QueryMemory WITH committed <- Committed, visible <- Coverage

\* The manifest implements the query memory: every operation commits some
\* revisions, publishes the whole committed set, or changes neither.
ImplementsQueryMemory == Memory!Spec
=============================================================================
