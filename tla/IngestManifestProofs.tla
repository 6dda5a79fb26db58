------------------------ MODULE IngestManifestProofs ------------------------
(***************************************************************************)
(* Machine-checked proofs about the ingest manifest, for any number of     *)
(* revisions, sessions, generations, views and snapshots.                  *)
(*                                                                         *)
(* Each invariant is inductive together with the ones proved before it, so *)
(* they are proved one after another.  The numbering of commits needs two  *)
(* facts about Place, the position a revision takes in its transaction.    *)
(***************************************************************************)
EXTENDS IngestManifest, FiniteSetTheorems, TLAPS

\* The record fields of a snapshot descriptor.
LEMMA SnapshotFields ==
  ASSUME NEW s \in Snapshots
  PROVE  s.generation \in Generations /\ s.view \in Views /\ s.commits \in SUBSET Revisions
BY SnapshotsAreDescriptors DEF SnapshotShape

-----------------------------------------------------------------------------
(***************************************************************************)
(* Type correctness.                                                       *)
(***************************************************************************)

LEMMA InitTypeOK == Init => TypeOK
BY MaxBuildsIsPos DEF Init, TypeOK

LEMMA OrdinalForType ==
  ASSUME TypeOK, NEW r \in Revisions
  PROVE  OrdinalFor(r) \in Nat
BY DEF TypeOK, OrdinalFor, Known

LEMMA SuccessorType ==
  ASSUME NEW s \in DOMAIN Successor
  PROVE  Successor[s] \in IngestStates
BY DEF Successor, IngestStates

LEMMA PendingCardinality ==
  ASSUME NEW s \in Snapshots
  PROVE  IsFiniteSet(Pending(s)) /\ Cardinality(Pending(s)) \in Nat
<1>1. Pending(s) \in SUBSET Revisions
  BY SnapshotFields DEF Pending
<1>. QED
  BY <1>1, RevisionsFinite, FS_Subset, FS_CardinalityType

\* A revision's place among the revisions committed with it is one of 1 .. their number.
LEMMA PlaceInRange ==
  ASSUME NEW P \in SUBSET Revisions, NEW r \in P
  PROVE  Place(P, r) \in 1 .. Cardinality(P)
<1>. DEFINE U == {q \in P : q = r \/ Precedes(q, r)}
<1>1. IsFiniteSet(P) /\ Cardinality(P) \in Nat
  BY RevisionsFinite, FS_Subset, FS_CardinalityType
<1>2. IsFiniteSet(U) /\ Cardinality(U) \in Nat /\ Cardinality(U) <= Cardinality(P)
  <2>1. U \in SUBSET P
    OBVIOUS
  <2>. QED
    BY <1>1, <2>1, FS_Subset, FS_CardinalityType
<1>3. Cardinality(U) # 0
  BY <1>2, FS_EmptySet
<1>. QED
  BY <1>1, <1>2, <1>3 DEF Place

\* The versions of one transaction follow the manifest version and end at its successor.
LEMMA VersionAtInRange ==
  ASSUME TypeOK, NEW s \in Snapshots, NEW r \in Pending(s)
  PROVE  VersionAt(s, r) \in manifestVersion + 1 .. manifestVersion + Cardinality(Pending(s))
<1>1. Pending(s) \in SUBSET Revisions
  BY SnapshotFields DEF Pending
<1>2. Place(Pending(s), r) \in 1 .. Cardinality(Pending(s))
  BY <1>1, PlaceInRange
<1>. QED
  BY <1>2, PendingCardinality DEF VersionAt, TypeOK

\* Two revisions of one transaction never take the same place.
LEMMA PlaceInjective ==
  ASSUME TypeOK, NEW P \in SUBSET Revisions, NEW q \in P, NEW r \in P,
         Place(P, q) = Place(P, r)
  PROVE  q = r
<1>. DEFINE U(x) == {y \in P : y = x \/ Precedes(y, x)}
<1>1. ASSUME NEW x \in P, NEW y \in P, Precedes(x, y)
      PROVE  Place(P, x) < Place(P, y)
  <2>1. U(x) \in SUBSET U(y)
    BY <1>1, CommitKeyInjective DEF Precedes, TypeOK
  <2>2. y \in U(y) /\ y \notin U(x)
    BY <1>1, CommitKeyInjective DEF Precedes, TypeOK
  <2>3. IsFiniteSet(U(y)) /\ IsFiniteSet(U(x))
    BY RevisionsFinite, FS_Subset
  <2>4. Cardinality(U(x)) <= Cardinality(U(y)) /\ Cardinality(U(x)) # Cardinality(U(y))
    BY <2>1, <2>2, <2>3, FS_Subset
  <2>. QED
    BY <2>3, <2>4, FS_CardinalityType DEF Place
<1>2. q # r => Precedes(q, r) \/ Precedes(r, q)
  BY CommitKeyInjective DEF Precedes, TypeOK
<1>3. Place(P, q) \in Nat
  BY PlaceInRange
<1>. QED
  BY <1>1, <1>2, <1>3

LEMMA StepTypeOK == TypeOK /\ [Next]_imVars => TypeOK'
<1>. SUFFICES ASSUME TypeOK, [Next]_imVars PROVE TypeOK'
  OBVIOUS
<1>. USE DEF TypeOK, revisionVars, manifestVars, catalogVars, snapshotVars, pointerVars,
             bindingVars
<1>1. ASSUME NEW r \in Revisions, Begin(r) PROVE TypeOK'
  BY <1>1, OrdinalForType DEF Begin, IngestStates
<1>2. ASSUME NEW r \in Revisions, Advance(r) PROVE TypeOK'
  <2>1. state' \in [Revisions -> IngestStates \cup {None}] /\ blocked' \in [Revisions -> BOOLEAN]
    BY <1>2, SuccessorType DEF Advance, MayAdvance
  <2>2. /\ manifestVersion' \in Nat
        /\ version' \in [Revisions -> Nat]
    BY <1>2 DEF Advance
  <2>3. committedAt' \in [Revisions -> BOOLEAN]
    BY <1>2 DEF Advance
  <2>. QED
    BY <1>2, <2>1, <2>2, <2>3 DEF Advance
<1>3. ASSUME NEW r \in Revisions, NEW retryable \in BOOLEAN, RecordFailure(r, retryable)
      PROVE TypeOK'
  BY <1>3 DEF RecordFailure
<1>4. ASSUME NEW g \in Generations, StoreGeneration(g) \/ ActivateGeneration(g) PROVE TypeOK'
  BY <1>4 DEF StoreGeneration, ActivateGeneration
<1>5. ASSUME NEW w \in Views, StoreView(w) \/ ActivateView(w) PROVE TypeOK'
  BY <1>5 DEF StoreView, ActivateView
<1>6. ASSUME NEW s \in Snapshots, Register(s) PROVE TypeOK'
  BY <1>6, MaxBuildsIsPos DEF Register, SnapshotStates
<1>7. ASSUME NEW s \in Snapshots, NEW digest \in Digests, Verify(s, digest) PROVE TypeOK'
  BY <1>7 DEF Verify, SnapshotStates
<1>8. ASSUME NEW s \in Snapshots, FailSnapshot(s) PROVE TypeOK'
  BY <1>8 DEF FailSnapshot, SnapshotStates
<1>9. ASSUME NEW s \in Snapshots, Realign(s) PROVE TypeOK'
  BY <1>9, SnapshotFields DEF Realign, BindTo
<1>10. ASSUME NEW s \in Snapshots, NEW v, NEW a, Activate(s, v, a) PROVE TypeOK'
  BY <1>10, SnapshotFields DEF Activate, Supersede, BindTo, SnapshotStates
<1>11. ASSUME NEW s \in Snapshots, NEW v, NEW a, CommitAndActivate(s, v, a) PROVE TypeOK'
  <2>1. \A r \in Pending(s) : VersionAt(s, r) \in Nat
    BY VersionAtInRange
  <2>2. manifestVersion' \in Nat /\ pointerVersion' \in Nat
    BY <1>11, PendingCardinality DEF CommitAndActivate, PostCommitVersion
  <2>3. /\ state' \in [Revisions -> IngestStates \cup {None}]
        /\ version' \in [Revisions -> Nat]
        /\ blocked' \in [Revisions -> BOOLEAN]
    BY <1>11, <2>1 DEF CommitAndActivate, IngestStates
  <2>4. snapState' \in [Snapshots -> SnapshotStates \cup {None}]
    BY <1>11 DEF CommitAndActivate, Supersede, SnapshotStates
  <2>5. /\ pointer' \in Snapshots \cup {None}
        /\ activeGeneration' \in Generations \cup {None}
        /\ activeView' \in Views \cup {None}
    BY <1>11, SnapshotFields DEF CommitAndActivate, BindTo
  <2>. QED
    BY <1>11, <2>2, <2>3, <2>4, <2>5 DEF CommitAndActivate
<1>12. CASE Reopen
  BY <1>12 DEF Reopen
<1>13. CASE UNCHANGED imVars
  BY <1>13 DEF imVars
<1>. QED
  BY <1>1, <1>2, <1>3, <1>4, <1>5, <1>6, <1>7, <1>8, <1>9, <1>10, <1>11, <1>12, <1>13
  DEF Next, RevisionStep, CatalogStep, SnapshotStep

\* The manifest only ever holds rows its decoders accept: TypeOK holds in every
\* reachable state, whatever the callers do.
THEOREM TypeCorrect == Spec => []TypeOK
BY InitTypeOK, StepTypeOK, PTL DEF Spec

-----------------------------------------------------------------------------
(***************************************************************************)
(* The pointer, the snapshot states and the evidence.                      *)
(***************************************************************************)

LEMMA StepSnapshots ==
  TypeOK /\ PointerNamesTheActive /\ EvidenceMatchesState /\ [Next]_imVars
    => PointerNamesTheActive' /\ EvidenceMatchesState'
<1>. SUFFICES ASSUME TypeOK, PointerNamesTheActive, EvidenceMatchesState, [Next]_imVars
              PROVE  PointerNamesTheActive' /\ EvidenceMatchesState'
  OBVIOUS
<1>. USE NoneIsNull DEF TypeOK, PointerNamesTheActive, EvidenceMatchesState, EvidenceStates
<1>1. CASE UNCHANGED <<snapshotVars, pointerVars>>
  BY <1>1 DEF snapshotVars, pointerVars
<1>2. ASSUME NEW s \in Snapshots, Register(s)
      PROVE  PointerNamesTheActive' /\ EvidenceMatchesState'
  BY <1>2 DEF Register, Reopens, pointerVars, SnapshotStates
<1>3. ASSUME NEW s \in Snapshots, NEW digest \in Digests, Verify(s, digest)
      PROVE  PointerNamesTheActive' /\ EvidenceMatchesState'
  <2>1. PointerNamesTheActive'
    BY <1>3 DEF Verify, MayVerify, pointerVars
  <2>2. EvidenceMatchesState'
    BY <1>3 DEF Verify
  <2>. QED
    BY <2>1, <2>2
<1>4. ASSUME NEW s \in Snapshots, FailSnapshot(s)
      PROVE  PointerNamesTheActive' /\ EvidenceMatchesState'
  BY <1>4 DEF FailSnapshot, MayFail, pointerVars
<1>5. ASSUME NEW s \in Snapshots, NEW v, NEW a, Activate(s, v, a) \/ CommitAndActivate(s, v, a)
      PROVE  PointerNamesTheActive' /\ EvidenceMatchesState'
  <2>1. /\ pointer' = s /\ pointer # s /\ snapState' = Supersede(s)
        /\ snapState[s] \in EvidenceStates /\ evidence' = evidence
    BY <1>5 DEF Activate, CommitAndActivate
  <2>2. PointerNamesTheActive'
    BY <2>1 DEF Supersede
  <2>3. EvidenceMatchesState'
    BY <2>1 DEF Supersede
  <2>. QED
    BY <2>2, <2>3
<1>. QED
  BY <1>1, <1>2, <1>3, <1>4, <1>5
  DEF Next, RevisionStep, CatalogStep, SnapshotStep, Begin, Advance, RecordFailure,
      StoreGeneration, ActivateGeneration, StoreView, ActivateView, Realign, Reopen, imVars

-----------------------------------------------------------------------------
(***************************************************************************)
(* Commits: their numbers, and what the pointer covers.                    *)
(***************************************************************************)

\* A step that commits nothing leaves the numbering alone.
LEMMA NumberingStutter ==
  ASSUME CommitsAreNumbered, Committed' = Committed, UNCHANGED manifestVersion,
         \A r \in Committed : version'[r] = version[r]
  PROVE  CommitsAreNumbered'
BY DEF CommitsAreNumbered

LEMMA AdvanceNumbering ==
  ASSUME TypeOK, CommitsAreNumbered, NEW r \in Revisions, Advance(r)
  PROVE  /\ CommitsAreNumbered'
         /\ Committed \subseteq Committed'
         /\ \A q \in Committed : version'[q] = version[q]
         /\ \A q \in Committed' \ Committed : version'[q] > manifestVersion
         /\ manifestVersion' >= manifestVersion
<1>1. r \notin Committed
  BY DEF Advance, MayAdvance, Successor, Committed
<1>2. IsFiniteSet(Committed)
  BY RevisionsFinite, FS_Subset DEF Committed
<1>3. CASE Successor[state[r]] = "COMMITTED"
  <2>1. Committed' = Committed \cup {r}
    BY <1>3 DEF Advance, Committed, TypeOK
  <2>2. Cardinality(Committed') = Cardinality(Committed) + 1
    BY <1>1, <1>2, <2>1, FS_AddElement
  <2>3. manifestVersion' = manifestVersion + 1 /\ version' = [version EXCEPT ![r] = manifestVersion + 1]
    BY <1>3 DEF Advance
  <2>4. \A q \in Committed : version'[q] = version[q]
    BY <1>1, <2>3 DEF TypeOK, Committed
  <2>5. version'[r] = manifestVersion + 1
    BY <2>3 DEF TypeOK
  <2>. QED
    BY <2>1, <2>2, <2>3, <2>4, <2>5 DEF CommitsAreNumbered, TypeOK
<1>4. CASE Successor[state[r]] # "COMMITTED"
  <2>1. Committed' = Committed /\ UNCHANGED <<manifestVersion, version>>
    BY <1>1, <1>4 DEF Advance, Committed, TypeOK
  <2>. QED
    BY <2>1, NumberingStutter DEF TypeOK
<1>. QED
  BY <1>3, <1>4

LEMMA TerminalCommitNumbering ==
  ASSUME TypeOK, CommitsAreNumbered,
         NEW s \in Snapshots, NEW v, NEW a, CommitAndActivate(s, v, a)
  PROVE  /\ CommitsAreNumbered'
         /\ Committed' = Committed \cup Pending(s)
         /\ Committed' = s.commits
         /\ \A q \in Committed : version'[q] = version[q]
         /\ pointer' = s
         /\ pointerVersion' = manifestVersion'
<1>. DEFINE P == Pending(s)
<1>1. P \in SUBSET Revisions /\ P \cap Committed = {} /\ Committed \in SUBSET Revisions
  BY SnapshotFields DEF Pending, Committed
<1>2. Committed' = Committed \cup P
  BY <1>1 DEF CommitAndActivate, Committed
<1>3. Committed \subseteq s.commits /\ Committed' = s.commits
  BY <1>2 DEF CommitAndActivate, CoversAll, Pending
<1>4. manifestVersion' = Cardinality(Committed')
  <2>1. IsFiniteSet(Committed) /\ IsFiniteSet(P)
    BY <1>1, RevisionsFinite, FS_Subset
  <2>2. Cardinality(Committed \cup P) = Cardinality(Committed) + Cardinality(P)
    <3>1. Cardinality(Committed \cup P)
            = Cardinality(Committed) + Cardinality(P) - Cardinality(Committed \cap P)
      BY <2>1, FS_Union
    <3>2. Cardinality(Committed \cap P) = 0
      BY <1>1, FS_EmptySet
    <3>. QED
      BY <2>1, <3>1, <3>2, FS_CardinalityType
  <2>. QED
    BY <1>2, <2>2 DEF CommitAndActivate, CommitsAreNumbered
<1>5. /\ \A q \in Committed : version'[q] = version[q]
      /\ \A q \in P : version'[q] = VersionAt(s, q)
  BY <1>1 DEF CommitAndActivate
<1>6. \A q \in P : VersionAt(s, q) \in manifestVersion + 1 .. manifestVersion + Cardinality(P)
  BY VersionAtInRange
<1>7. \A q, r \in P : VersionAt(s, q) = VersionAt(s, r) => q = r
  <2>. TAKE q, r \in P
  <2>1. Place(P, q) \in Nat /\ Place(P, r) \in Nat
    BY <1>1, PlaceInRange
  <2>. QED
    BY <1>1, <2>1, PlaceInjective DEF VersionAt, TypeOK
<1>8. manifestVersion' = manifestVersion + Cardinality(P) /\ Cardinality(P) \in Nat
  BY PendingCardinality DEF CommitAndActivate
<1>9. \A r \in Committed' : version'[r] \in 1 .. manifestVersion'
  BY <1>2, <1>5, <1>6, <1>8 DEF CommitsAreNumbered, TypeOK
<1>10. \A q, r \in Committed' : version'[q] = version'[r] => q = r
  BY <1>2, <1>5, <1>6, <1>7, <1>8 DEF CommitsAreNumbered, TypeOK
<1>11. pointer' = s /\ pointerVersion' = manifestVersion'
  BY DEF CommitAndActivate, PostCommitVersion
<1>. QED
  BY <1>2, <1>3, <1>4, <1>5, <1>9, <1>10, <1>11 DEF CommitsAreNumbered

\* Every other step leaves the commits, their numbers and the pointer alone.
LEMMA QuietSteps ==
  ASSUME TypeOK, [Next]_imVars
  PROVE  \/ \E r \in Revisions : Advance(r)
         \/ \E s \in Snapshots : \E v, a : Activate(s, v, a) \/ CommitAndActivate(s, v, a)
         \/ /\ Committed' = Committed
            /\ UNCHANGED <<manifestVersion, pointer, pointerVersion>>
            /\ \A q \in Committed : version'[q] = version[q]
<1>. DEFINE Quiet == /\ Committed' = Committed
                    /\ UNCHANGED <<manifestVersion, pointer, pointerVersion>>
                    /\ \A q \in Committed : version'[q] = version[q]
<1>1. ASSUME NEW r \in Revisions, Begin(r) PROVE Quiet
  <2>1. Committed' = Committed
    BY <1>1, NoneIsNull DEF Begin, Committed, TypeOK, IngestStates
  <2>2. \A q \in Committed : version'[q] = version[q]
    BY <1>1, NoneIsNull DEF Begin, Committed, TypeOK, IngestStates
  <2>. QED
    BY <1>1, <2>1, <2>2 DEF Begin, pointerVars
<1>2. ASSUME UNCHANGED <<state, version, manifestVersion, pointer, pointerVersion>> PROVE Quiet
  BY <1>2 DEF Committed
<1>. QED
  BY <1>1, <1>2
  DEF Next, RevisionStep, CatalogStep, SnapshotStep, RecordFailure, StoreGeneration,
      ActivateGeneration, StoreView, ActivateView, Register, Verify, FailSnapshot, Realign,
      Reopen, imVars, revisionVars, manifestVars, pointerVars

\* What the pointer covers, with the bound that keeps later commits out of it.
Covered == CoverageAtVersion /\ pointerVersion <= manifestVersion

LEMMA StepCommits ==
  TypeOK /\ CommitsAreNumbered /\ Covered /\ [Next]_imVars => CommitsAreNumbered' /\ Covered'
<1>. SUFFICES ASSUME TypeOK, CommitsAreNumbered, Covered, [Next]_imVars
              PROVE  CommitsAreNumbered' /\ Covered'
  OBVIOUS
<1>1. ASSUME NEW r \in Revisions, Advance(r) PROVE CommitsAreNumbered' /\ Covered'
  <2>1. UNCHANGED <<pointer, pointerVersion>>
    BY <1>1 DEF Advance, pointerVars
  <2>2. /\ CommitsAreNumbered'
        /\ Committed \subseteq Committed'
        /\ \A q \in Committed : version'[q] = version[q]
        /\ \A q \in Committed' \ Committed : version'[q] > manifestVersion
        /\ manifestVersion' >= manifestVersion
    BY <1>1, AdvanceNumbering
  <2>3. pointerVersion' <= manifestVersion'
    BY <2>1, <2>2, StepTypeOK DEF Covered, TypeOK
  <2>4. ASSUME pointer # None
        PROVE  {q \in Committed' : version'[q] <= pointerVersion}
                 = {q \in Committed : version[q] <= pointerVersion}
    <3>1. version' \in [Revisions -> Nat] /\ Committed' \subseteq Revisions
      BY StepTypeOK DEF TypeOK, Committed
    <3>. QED
      BY <2>2, <3>1 DEF Covered, TypeOK
  <2>. QED
    BY <2>1, <2>2, <2>3, <2>4 DEF Covered, CoverageAtVersion, Coverage
<1>2. ASSUME NEW s \in Snapshots, NEW v, NEW a, CommitAndActivate(s, v, a)
      PROVE  CommitsAreNumbered' /\ Covered'
  <2>1. CommitsAreNumbered' /\ Committed' = s.commits /\ pointer' = s
        /\ pointerVersion' = manifestVersion'
    BY <1>2, TerminalCommitNumbering
  <2>2. {q \in Committed' : version'[q] <= pointerVersion'} = Committed'
    BY <2>1, StepTypeOK DEF CommitsAreNumbered, TypeOK
  <2>. QED
    BY <2>1, <2>2, NoneIsNull, StepTypeOK DEF Covered, CoverageAtVersion, Coverage, TypeOK
<1>3. ASSUME NEW s \in Snapshots, NEW v, NEW a, Activate(s, v, a)
      PROVE  CommitsAreNumbered' /\ Covered'
  <2>1. /\ Committed' = Committed /\ UNCHANGED <<manifestVersion, version>>
        /\ pointer' = s /\ pointerVersion' = manifestVersion
        /\ s.commits = Committed
    BY <1>3 DEF Activate, CoversAll, Committed, revisionVars, manifestVars
  <2>2. CommitsAreNumbered'
    BY <2>1, NumberingStutter
  <2>3. {q \in Committed : version[q] <= manifestVersion} = Committed
    BY DEF CommitsAreNumbered, TypeOK
  <2>. QED
    BY <2>1, <2>2, <2>3, NoneIsNull DEF Covered, CoverageAtVersion, Coverage, TypeOK
<1>4. ASSUME Committed' = Committed, UNCHANGED <<manifestVersion, pointer, pointerVersion>>,
             \A q \in Committed : version'[q] = version[q]
      PROVE  CommitsAreNumbered' /\ Covered'
  BY <1>4, NumberingStutter DEF Covered, CoverageAtVersion, Coverage
<1>. QED
  BY <1>1, <1>2, <1>3, <1>4, QuietSteps

-----------------------------------------------------------------------------
(***************************************************************************)
(* Ordinals and failures.                                                  *)
(***************************************************************************)

OrdinalsAllocated == \A r \in Known : ordinal[r] \in 1 .. nextOrdinal - 1

LEMMA StepOrdinals ==
  TypeOK /\ OrdinalsNameSessions /\ OrdinalsAllocated /\ [Next]_imVars
    => OrdinalsNameSessions' /\ OrdinalsAllocated'
<1>. SUFFICES ASSUME TypeOK, OrdinalsNameSessions, OrdinalsAllocated, [Next]_imVars
              PROVE  OrdinalsNameSessions' /\ OrdinalsAllocated'
  OBVIOUS
<1>1. ASSUME NEW r \in Revisions, Begin(r) PROVE OrdinalsNameSessions' /\ OrdinalsAllocated'
  <2>. DEFINE siblings == {q \in Known : SessionOf[q] = SessionOf[r]}
              o == OrdinalFor(r)
  <2>1. /\ r \notin Known
        /\ Known' = Known \cup {r}
        /\ ordinal' = [ordinal EXCEPT ![r] = o]
        /\ nextOrdinal' = IF o = nextOrdinal THEN nextOrdinal + 1 ELSE nextOrdinal
    BY <1>1, NoneIsNull DEF Begin, Known, TypeOK, IngestStates
  <2>2. CASE siblings = {}
    <3>1. o = nextOrdinal
      BY <2>2 DEF OrdinalFor
    <3>. QED
      BY <2>1, <2>2, <3>1 DEF OrdinalsNameSessions, OrdinalsAllocated, TypeOK, Known
  <2>3. CASE siblings # {}
    <3>1. PICK q \in siblings : o = ordinal[q]
      BY <2>3 DEF OrdinalFor
    <3>2. o \in 1 .. nextOrdinal - 1 /\ nextOrdinal' = nextOrdinal
      BY <2>1, <3>1 DEF OrdinalsAllocated, TypeOK
    <3>3. \A x \in Known : ordinal[x] = o <=> SessionOf[x] = SessionOf[r]
      BY <3>1 DEF OrdinalsNameSessions
    <3>. QED
      BY <2>1, <3>2, <3>3 DEF OrdinalsNameSessions, OrdinalsAllocated, TypeOK, Known
  <2>. QED
    BY <2>2, <2>3
<1>2. ASSUME Known' = Known, UNCHANGED <<ordinal, nextOrdinal>>
      PROVE  OrdinalsNameSessions' /\ OrdinalsAllocated'
  BY <1>2 DEF OrdinalsNameSessions, OrdinalsAllocated
<1>3. ASSUME NEW r \in Revisions, Advance(r) PROVE Known' = Known
  <2>1. state[r] \in DOMAIN Successor /\ state' = [state EXCEPT ![r] = Successor[state[r]]]
    BY <1>3 DEF Advance, MayAdvance
  <2>2. Successor[state[r]] # None /\ state[r] # None
    BY <2>1, SuccessorType, NoneIsNull DEF Successor
  <2>. QED
    BY <2>1, <2>2 DEF Known, TypeOK
<1>4. ASSUME NEW s \in Snapshots, NEW v, NEW a, CommitAndActivate(s, v, a) PROVE Known' = Known
  BY <1>4, NoneIsNull DEF CommitAndActivate, Committable, Known, TypeOK, IngestStates
<1>5. ASSUME UNCHANGED state PROVE Known' = Known
  BY <1>5 DEF Known
<1>. QED
  BY <1>1, <1>2, <1>3, <1>4, <1>5
  DEF Next, RevisionStep, CatalogStep, SnapshotStep, Advance, RecordFailure, StoreGeneration,
      ActivateGeneration, StoreView, ActivateView, Register, Verify, FailSnapshot, Realign,
      Activate, CommitAndActivate, Reopen, imVars, revisionVars, manifestVars

LEMMA StepFailures ==
  TypeOK /\ BlockedIsPending /\ [Next]_imVars => BlockedIsPending'
<1>. SUFFICES ASSUME TypeOK, BlockedIsPending, [Next]_imVars, NEW q \in Revisions, blocked'[q]
              PROVE  q \in Known' \ Committed'
  BY DEF BlockedIsPending
<1>. USE DEF TypeOK, BlockedIsPending, Committed, Known
<1>1. ASSUME NEW r \in Revisions, Begin(r) PROVE q \in Known' \ Committed'
  BY <1>1, NoneIsNull DEF Begin, IngestStates
<1>2. ASSUME NEW r \in Revisions, Advance(r) PROVE q \in Known' \ Committed'
  BY <1>2 DEF Advance, MayAdvance
<1>3. ASSUME NEW r \in Revisions, NEW retryable \in BOOLEAN, RecordFailure(r, retryable)
      PROVE  q \in Known' \ Committed'
  BY <1>3 DEF RecordFailure, MayRecordFailure
<1>4. ASSUME NEW s \in Snapshots, NEW v, NEW a, CommitAndActivate(s, v, a)
      PROVE  q \in Known' \ Committed'
  BY <1>4 DEF CommitAndActivate
<1>5. ASSUME UNCHANGED <<state, blocked>> PROVE q \in Known' \ Committed'
  BY <1>5
<1>. QED
  BY <1>1, <1>2, <1>3, <1>4, <1>5
  DEF Next, RevisionStep, CatalogStep, SnapshotStep, StoreGeneration, ActivateGeneration,
      StoreView, ActivateView, Register, Verify, FailSnapshot, Realign, Activate, Reopen,
      imVars, revisionVars

-----------------------------------------------------------------------------
(***************************************************************************)
(* The inductive invariant and the theorems that follow from it.           *)
(***************************************************************************)

LEMMA InitIndInv == Init => IndInv
<1>. SUFFICES ASSUME Init PROVE IndInv
  OBVIOUS
<1>1. Committed = {} /\ Known = {}
  BY NoneIsNull DEF Init, Committed, Known, IngestStates
<1>2. CommitsAreNumbered
  BY <1>1, FS_EmptySet DEF Init, CommitsAreNumbered
<1>3. PointerNamesTheActive /\ EvidenceMatchesState
  <2>1. \A s \in Snapshots : snapState[s] = None /\ evidence[s] = None /\ pointer # s
    BY NoneIsNull DEF Init
  <2>2. None # "ACTIVE" /\ None \notin EvidenceStates
    BY NoneIsNull DEF EvidenceStates, SnapshotStates
  <2>. QED
    BY <2>1, <2>2 DEF PointerNamesTheActive, EvidenceMatchesState
<1>4. /\ OrdinalsNameSessions /\ BlockedIsPending
      /\ CoverageAtVersion /\ pointerVersion <= manifestVersion
      /\ \A r \in Known : ordinal[r] \in 1 .. nextOrdinal - 1
  BY <1>1 DEF Init, OrdinalsNameSessions, BlockedIsPending, CoverageAtVersion
<1>. QED
  BY <1>2, <1>3, <1>4, InitTypeOK DEF IndInv

LEMMA StepIndInv == IndInv /\ [Next]_imVars => IndInv'
BY StepTypeOK, StepSnapshots, StepCommits, StepOrdinals, StepFailures
DEF IndInv, Covered, OrdinalsAllocated

\* The inductive invariant holds in every reachable state.
THEOREM ManifestInvariant == Spec => []IndInv
BY InitIndInv, StepIndInv, PTL DEF Spec

\* The pointer always names the one ACTIVE snapshot, so readActive never meets
\* the state it throws on.
THEOREM ActivePointerIsSound == Spec => []PointerNamesTheActive
BY ManifestInvariant, PTL DEF IndInv

\* Evidence and snapshot state agree, so decodeRecord never throws on a row the
\* operations wrote.
THEOREM EvidenceIsSound == Spec => []EvidenceMatchesState
BY ManifestInvariant, PTL DEF IndInv

\* Commits are numbered one by one, whichever operation commits them.
THEOREM CommitNumbering == Spec => []CommitsAreNumbered
BY ManifestInvariant, PTL DEF IndInv

\* Queries see exactly what was committed when the pointer was written.
THEOREM CoverageIsExact == Spec => []CoverageAtVersion
BY ManifestInvariant, PTL DEF IndInv

\* Ordinals and logical sessions correspond one to one.
THEOREM OrdinalsAreSound == Spec => []OrdinalsNameSessions
BY ManifestInvariant, PTL DEF IndInv

\* Nothing committed is ever lost, and nothing visible ever disappears.
THEOREM NothingIsForgotten == Spec => NothingForgotten
<1>1. IndInv /\ [Next]_imVars => [Committed \subseteq Committed' /\ Coverage \subseteq Coverage']_imVars
  <2>. SUFFICES ASSUME IndInv, [Next]_imVars
                PROVE  Committed \subseteq Committed' /\ Coverage \subseteq Coverage'
    OBVIOUS
  <2>. USE DEF IndInv
  <2>0. Coverage \subseteq Committed
    BY DEF CoverageAtVersion, Coverage
  <2>1. ASSUME NEW r \in Revisions, Advance(r)
        PROVE  Committed \subseteq Committed' /\ Coverage \subseteq Coverage'
    BY <2>1, AdvanceNumbering DEF Advance, pointerVars, Coverage
  <2>2. ASSUME NEW s \in Snapshots, NEW v, NEW a, CommitAndActivate(s, v, a)
        PROVE  Committed \subseteq Committed' /\ Coverage \subseteq Coverage'
    BY <2>0, <2>2, TerminalCommitNumbering, NoneIsNull DEF Coverage
  <2>3. ASSUME NEW s \in Snapshots, NEW v, NEW a, Activate(s, v, a)
        PROVE  Committed \subseteq Committed' /\ Coverage \subseteq Coverage'
    <3>1. Committed' = Committed /\ pointer' = s /\ Committed \subseteq s.commits
      BY <2>3 DEF Activate, CoversAll, Committed, revisionVars
    <3>. QED
      BY <2>0, <3>1, NoneIsNull DEF Coverage
  <2>4. ASSUME Committed' = Committed, UNCHANGED pointer
        PROVE  Committed \subseteq Committed' /\ Coverage \subseteq Coverage'
    BY <2>4 DEF Coverage
  <2>. QED
    BY <2>1, <2>2, <2>3, <2>4, QuietSteps
<1>. QED
  BY <1>1, ManifestInvariant, PTL DEF Spec, NothingForgotten

\* A revision with a terminal failure does not move while the failure stands.
THEOREM TerminalFailureIsRespected == Spec => TerminalFailureParks
<1>1. IndInv /\ [Next]_imVars => [\A r \in Revisions : blocked[r] => state'[r] = state[r]]_imVars
  <2>. SUFFICES ASSUME IndInv, [Next]_imVars, NEW q \in Revisions, blocked[q]
                PROVE  state'[q] = state[q]
    OBVIOUS
  <2>0. state[q] # None /\ state \in [Revisions -> IngestStates \cup {None}]
    BY DEF IndInv, BlockedIsPending, Known, TypeOK
  <2>1. ASSUME NEW r \in Revisions, Begin(r) PROVE state'[q] = state[q]
    BY <2>0, <2>1 DEF Begin
  <2>2. ASSUME NEW r \in Revisions, Advance(r) PROVE state'[q] = state[q]
    BY <2>0, <2>2 DEF Advance, MayAdvance
  <2>3. ASSUME NEW s \in Snapshots, NEW v, NEW a, CommitAndActivate(s, v, a)
        PROVE  state'[q] = state[q]
    BY <2>3 DEF CommitAndActivate, Committable
  <2>4. ASSUME UNCHANGED state PROVE state'[q] = state[q]
    BY <2>4
  <2>. QED
    BY <2>1, <2>2, <2>3, <2>4
    DEF Next, RevisionStep, CatalogStep, SnapshotStep, RecordFailure, StoreGeneration,
        ActivateGeneration, StoreView, ActivateView, Register, Verify, FailSnapshot, Realign,
        Activate, Reopen, imVars, revisionVars
<1>. QED
  BY <1>1, ManifestInvariant, PTL DEF Spec, TerminalFailureParks

\* Verification evidence is immutable once written.
THEOREM EvidenceIsImmutable == Spec => VerifiedOnce
<1>1. IndInv /\ [Next]_imVars
        => [\A s \in Snapshots : evidence[s] # None => evidence'[s] = evidence[s]]_imVars
  <2>. SUFFICES ASSUME IndInv, [Next]_imVars, NEW x \in Snapshots, evidence[x] # None
                PROVE  evidence'[x] = evidence[x]
    OBVIOUS
  <2>0. snapState[x] \in EvidenceStates /\ evidence \in [Snapshots -> Digests \cup {None}]
    BY DEF IndInv, EvidenceMatchesState, TypeOK
  <2>1. ASSUME NEW s \in Snapshots, Register(s) PROVE evidence'[x] = evidence[x]
    BY <2>0, <2>1, NoneIsNull DEF Register, Reopens, EvidenceStates, SnapshotStates
  <2>2. ASSUME NEW s \in Snapshots, NEW digest \in Digests, Verify(s, digest)
        PROVE  evidence'[x] = evidence[x]
    BY <2>0, <2>2 DEF Verify, MayVerify, EvidenceStates
  <2>3. ASSUME UNCHANGED evidence PROVE evidence'[x] = evidence[x]
    BY <2>3
  <2>. QED
    BY <2>1, <2>2, <2>3
    DEF Next, RevisionStep, CatalogStep, SnapshotStep, Begin, Advance, RecordFailure,
        StoreGeneration, ActivateGeneration, StoreView, ActivateView, FailSnapshot, Realign,
        Activate, CommitAndActivate, Reopen, imVars, snapshotVars
<1>. QED
  BY <1>1, ManifestInvariant, PTL DEF Spec, VerifiedOnce

\* The pointer moves only by a compare-and-swap, which leaves it at a snapshot of all that
\* is committed then, with the version of that instant and the companion rows.
THEOREM PublicationHolds == Spec => PublicationIsAtomic
<1>1. IndInv /\ [Next]_imVars
        => [pointer' # pointer =>
              /\ Coverage' = Committed' /\ pointerVersion' = manifestVersion'
              /\ activeGeneration' = pointer'.generation /\ activeView' = pointer'.view]_imVars
  <2>. SUFFICES ASSUME IndInv, [Next]_imVars, pointer' # pointer
                PROVE  /\ Coverage' = Committed' /\ pointerVersion' = manifestVersion'
                       /\ activeGeneration' = pointer'.generation /\ activeView' = pointer'.view
    OBVIOUS
  <2>. DEFINE Published == /\ Coverage' = Committed' /\ pointerVersion' = manifestVersion'
                           /\ activeGeneration' = pointer'.generation /\ activeView' = pointer'.view
  <2>1. ASSUME NEW s \in Snapshots, NEW v, NEW a, Activate(s, v, a) PROVE Published
    <3>1. pointer' = s /\ Coverage' = s.commits
      BY <2>1, NoneIsNull DEF Activate, Coverage
    <3>2. Committed' = Committed /\ Committed = s.commits
      BY <2>1 DEF Activate, CoversAll, Committed, revisionVars
    <3>. QED
      BY <2>1, <3>1, <3>2 DEF Activate, BindTo, manifestVars
  <2>2. ASSUME NEW s \in Snapshots, NEW v, NEW a, CommitAndActivate(s, v, a) PROVE Published
    <3>1. pointer' = s /\ Coverage' = s.commits
      BY <2>2, NoneIsNull DEF CommitAndActivate, Coverage
    <3>2. s.commits \subseteq Revisions
      BY SnapshotsAreDescriptors DEF SnapshotShape
    <3>3. Committed' = Committed \cup Pending(s)
      BY <2>2, <3>2 DEF CommitAndActivate, Committed, Pending
    <3>4. Committed' = s.commits
      BY <2>2, <3>3 DEF CommitAndActivate, CoversAll, Pending
    <3>. QED
      BY <2>2, <3>1, <3>4 DEF CommitAndActivate, BindTo, PostCommitVersion
  <2>. QED
    BY <2>1, <2>2
    DEF Next, RevisionStep, CatalogStep, SnapshotStep, Begin, Advance, RecordFailure,
        StoreGeneration, ActivateGeneration, StoreView, ActivateView, Register, Verify,
        FailSnapshot, Realign, Reopen, imVars, pointerVars
<1>. QED
  BY <1>1, ManifestInvariant, PTL DEF Spec, PublicationIsAtomic

-----------------------------------------------------------------------------
(***************************************************************************)
(* Refinement of QueryMemory.                                              *)
(***************************************************************************)

LEMMA InitMemory == Init => Memory!Init
<1>. SUFFICES ASSUME Init PROVE Committed = {} /\ Coverage = {}
  BY DEF Memory!Init
<1>. QED
  BY NoneIsNull DEF Init, Committed, Coverage, IngestStates

LEMMA StepMemory ==
  IndInv /\ IndInv' /\ [Next]_imVars => [Memory!Next]_<<Committed, Coverage>>
<1>. SUFFICES ASSUME IndInv, [Next]_imVars, UNCHANGED <<Committed, Coverage>> => FALSE
              PROVE  \E S \in SUBSET Revisions : Memory!Commit(S) \/ Memory!Publish(S)
  BY DEF Memory!Next
<1>. USE DEF IndInv
<1>1. ASSUME NEW r \in Revisions, Advance(r)
      PROVE  Memory!Commit(Committed')
  <2>1. Committed \subseteq Committed'
    BY <1>1, AdvanceNumbering
  <2>2. UNCHANGED Coverage
    BY <1>1 DEF Advance, pointerVars, Coverage
  <2>. QED
    BY <2>1, <2>2 DEF Memory!Commit
<1>2. ASSUME NEW s \in Snapshots, NEW v, NEW a, CommitAndActivate(s, v, a)
      PROVE  Memory!Publish(Committed')
  BY <1>2, TerminalCommitNumbering, NoneIsNull DEF Memory!Publish, Coverage
<1>3. ASSUME NEW s \in Snapshots, NEW v, NEW a, Activate(s, v, a)
      PROVE  Memory!Publish(Committed')
  <2>1. Committed' = Committed /\ pointer' = s /\ s.commits = Committed
    BY <1>3 DEF Activate, CoversAll, Committed, revisionVars
  <2>. QED
    BY <2>1, NoneIsNull DEF Memory!Publish, Coverage
<1>4. ~(Committed' = Committed /\ UNCHANGED pointer)
  BY DEF Coverage
<1>5. Committed' \in SUBSET Revisions
  BY DEF Committed
<1>. QED
  BY <1>1, <1>2, <1>3, <1>4, <1>5, QuietSteps

\* Every behaviour of the manifest, with Committed and Coverage for the two
\* variables, is a behaviour of QueryMemory.
THEOREM ManifestImplementsQueryMemory == Spec => ImplementsQueryMemory
BY InitMemory, StepMemory, ManifestInvariant, PTL
DEF Spec, ImplementsQueryMemory, Memory!Spec
=============================================================================
