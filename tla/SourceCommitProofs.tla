------------------------- MODULE SourceCommitProofs -------------------------
(***************************************************************************)
(* Proofs about the ingest pipeline, for any number of processes,          *)
(* revisions and faults.  PipelineInv: every step is a step of the         *)
(* manifest, and what is verified is what is stored.  LockedInv: under one *)
(* lock file what a worker has read does not move, so that committed is    *)
(* visible and an answer is final.  ProjInv: the projection is the sum of  *)
(* the commits' deltas, whatever the callers' order.                       *)
(***************************************************************************)
EXTENDS SourceCommit, IngestManifestProofs, Projection

-----------------------------------------------------------------------------
(***************************************************************************)
(* What a worker's locals mean where it has come to.                       *)
(***************************************************************************)

Covering == {"view", "generation", "register", "build", "readback", "version", "swap", "confirm"}

\* The call runs for a revision that is known, or is a repair.
CallShape(w) ==
  LET c == call[w] IN
  /\ c.revision \in Known \cup {None}
  /\ c.revision # None => c.target \in Targets
  /\ pc[w] # "idle" => c.generation \in Generations
  /\ pc[w] \in {"declare", "enter", "loop"} => c.revision # None /\ c.stage = None
  /\ pc[w] = "acquire" => c.stage = "REPAIR" \/ (c.stage = None /\ c.revision # None)
  /\ pc[w] = "loop" => c.at \in IngestStates

\* The stage that runs is the next one, and the place belongs to it.
StageShape(w) ==
  LET c == call[w] IN
  /\ \/ c.stage \in {None, "REPAIR"}
     \/ c.revision # None /\ c.at \in DOMAIN Successor /\ c.stage = Successor[c.at]
  /\ pc[w] \in {"extract", "store", "index"} => c.stage = "INDEXED"
  /\ pc[w] \in {"decide", "resolve"} => c.stage = "ENRICHED"
  /\ pc[w] = "advance" => c.stage \in IngestStates
  /\ pc[w] \in {"list", "view", "generation", "register", "build", "readback"}
       => c.stage \in {"CONSOLIDATED", "COMMITTED", "REPAIR"}
  /\ pc[w] \in {"survey", "version", "swap", "confirm", "report"} => c.stage \in {"COMMITTED", "REPAIR"}

\* What has been stored before the worker came here.
ContentShape(w) ==
  LET c == call[w] IN
  /\ pc[w] = "store" => c.answer \in Drafts
  /\ pc[w] = "resolve" => c.answer \in SUBSET Revisions
  /\ pc[w] = "advance" /\ c.stage = "ENRICHED" => decided[c.revision] # None
  /\ pc[w] \in Covering => c.cover # {} /\ c.cover \subseteq Known /\ \A q \in c.cover : artifact[q] # None
  /\ pc[w] = "readback" => \A q \in c.cover : decided[q] # None

Locals(w) == CallShape(w) /\ StageShape(w) /\ ContentShape(w)

PipelineTyped ==
  /\ pc \in [Workers -> PCs]
  /\ call \in [Workers -> Calls]
  /\ artifact \in [Revisions -> Drafts \cup {None}]
  /\ decided \in [Revisions -> (SUBSET Revisions) \cup {None}]
  /\ graph \in [Snapshots -> SUBSET Revisions]

\* A revision is ENRICHED only once its chains have been weighed.
EnrichedAreDecided ==
  \A r \in Revisions : state[r] \in {"ENRICHED", "CONSOLIDATED", "COMMITTED"} => decided[r] # None

\* Evidence is of content that does not change any more.
EvidenceIsSettled ==
  \A s \in Snapshots : evidence[s] # None =>
    /\ \A r \in s.commits : artifact[r] # None /\ decided[r] # None
    /\ evidence[s] = Digest(s.commits)

\* A verified snapshot is whole in the graph.
VerifiedIsWhole ==
  \A s \in Snapshots : /\ graph[s] \subseteq s.commits
                       /\ snapState[s] \in EvidenceStates => graph[s] = s.commits

PipelineInv ==
  /\ IndInv
  /\ PipelineTyped
  /\ \A w \in Workers : Locals(w)
  /\ EnrichedAreDecided
  /\ EvidenceIsSettled
  /\ VerifiedIsWhole

\* What is written once stays, and what is known stays known.
Grows ==
  /\ Known \subseteq Known'
  /\ \A r \in Revisions : artifact[r] # None => artifact'[r] = artifact[r]
  /\ \A r \in Revisions : decided[r] # None => decided'[r] = decided[r]

\* Of the workers only w changes its place and locals.
OnlyMoves(w) ==
  /\ call' \in [Workers -> Calls]
  /\ pc' \in [Workers -> PCs]
  /\ \A u \in Workers : u # w => call'[u] = call[u] /\ pc'[u] = pc[u]

-----------------------------------------------------------------------------
(***************************************************************************)
(* The locals of the workers.                                              *)
(***************************************************************************)

LEMMA KnownGrows == TypeOK /\ [Next]_imVars => Known \subseteq Known'
<1>. SUFFICES ASSUME TypeOK, [Next]_imVars, NEW q \in Known PROVE q \in Known'
  OBVIOUS
<1>. USE DEF Known, TypeOK
<1>1. ASSUME NEW r \in Revisions, Begin(r) PROVE q \in Known'
  BY <1>1, NoneIsNull DEF Begin, IngestStates
<1>2. ASSUME NEW r \in Revisions, Advance(r) PROVE q \in Known'
  BY <1>2, NoneIsNull, SuccessorType DEF Advance, MayAdvance
<1>3. ASSUME NEW s \in Snapshots, NEW v, NEW a, CommitAndActivate(s, v, a) PROVE q \in Known'
  BY <1>3, NoneIsNull DEF CommitAndActivate, IngestStates
<1>4. CASE UNCHANGED state
  BY <1>4
<1>. QED
  BY <1>1, <1>2, <1>3, <1>4 DEF Next, RevisionStep, CatalogStep, SnapshotStep, imVars, revisionVars,
     RecordFailure, StoreGeneration, ActivateGeneration, StoreView, ActivateView, Register, Verify,
     FailSnapshot, Realign, Activate, Reopen

\* A step of another worker does not falsify what a worker relies on.
LEMMA OthersKeepLocals ==
  ASSUME PipelineTyped, NEW u \in Workers, Locals(u), Grows, call'[u] = call[u], pc'[u] = pc[u]
  PROVE  Locals(u)'
<1>1. call[u] \in Calls
  BY DEF PipelineTyped
<1>2. CallShape(u)'
  BY DEF Locals, CallShape, Grows
<1>3. StageShape(u)'
  BY DEF Locals, StageShape
<1>4. ContentShape(u)'
  <2>1. \A q \in Known : q \in Revisions
    BY DEF Known
  <2>2. call[u].stage = "ENRICHED" => call[u].revision \in Revisions
    BY <2>1, NoneIsNull DEF Locals, StageShape, CallShape, IngestStates
  <2>. QED
    BY <2>1, <2>2 DEF Locals, ContentShape, Grows, Covering
<1>. QED
  BY <1>2, <1>3, <1>4 DEF Locals

\* The ways a worker's place and locals change.
LEMMA GoMoves ==
  ASSUME PipelineTyped, NEW w \in Workers, NEW where \in PCs, Go(w, where), UNCHANGED call
  PROVE  OnlyMoves(w) /\ pc'[w] = where /\ call'[w] = call[w]
BY DEF PipelineTyped, Go, OnlyMoves

LEMMA EndMoves ==
  ASSUME PipelineTyped, NEW w \in Workers, End(w)
  PROVE  OnlyMoves(w) /\ Locals(w)'
<1>1. NoCall \in Calls
  BY FS_CardinalityType, RevisionsFinite DEF NoCall, Calls
<1>2. OnlyMoves(w) /\ pc'[w] = "idle" /\ call'[w] = NoCall
  BY <1>1 DEF PipelineTyped, End, Go, OnlyMoves, PCs
<1>. QED
  BY <1>2 DEF Locals, CallShape, StageShape, ContentShape, NoCall, Covering

\* A step that sets one of the locals, or none, and stores nothing.
LEMMA LoopLocals ==
  ASSUME PipelineInv, NEW w \in Workers,
         Acquire(w) \/ Enter(w) \/ RunStage(w) \/ Extract(w) \/ WriteIndex(w) \/ Decide(w)
  PROVE  OnlyMoves(w) /\ Locals(w)' /\ UNCHANGED <<imVars, contentVars>>
<1>. PipelineTyped /\ Locals(w) /\ TypeOK /\ call[w] \in Calls /\ pc[w] \in PCs
  BY DEF PipelineInv, PipelineTyped, IndInv
<1>. USE DEF imVars, revisionVars, contentVars, Locals, CallShape, StageShape, ContentShape, Known, Covering
<1>1. CASE Acquire(w)
  <2>1. UNCHANGED <<imVars, contentVars, call>> /\ pc[w] = "acquire"
    BY <1>1 DEF Acquire
  <2>2. /\ OnlyMoves(w) /\ call'[w] = call[w]
        /\ pc'[w] = IF call[w].stage = "REPAIR" THEN "survey" ELSE "enter"
    BY <1>1 DEF Acquire, GoMoves, Go, OnlyMoves, PipelineTyped, PCs
  <2>. QED
    BY <2>1, <2>2
<1>2. CASE Enter(w)
  <2>1. call[w].revision \in Known /\ state[call[w].revision] \in IngestStates
    BY <1>2 DEF Enter, TypeOK
  <2>2. OnlyMoves(w) /\ call'[w] = [call[w] EXCEPT !.at = state[call[w].revision]] /\ pc'[w] = "loop"
    BY <1>2, <2>1 DEF Enter, Recall, Go, OnlyMoves, PipelineTyped, PCs, Calls
  <2>3. UNCHANGED <<imVars, contentVars>> /\ pc[w] = "enter"
    BY <1>2 DEF Enter
  <2>. QED
    BY <2>1, <2>2, <2>3 DEF Calls
<1>3. CASE RunStage(w)
  <2>. DEFINE to == Successor[call[w].at]
  <2>1. call[w].at \in DOMAIN Successor /\ call[w].revision \in Known /\ pc[w] = "loop"
    <3>1. pc[w] = "loop" /\ ~AtTarget(w)
      BY <1>3 DEF RunStage
    <3>2. call[w].revision \in Known /\ call[w].at \in IngestStates /\ call[w].target \in {"INDEXED", "COMMITTED"}
      BY <3>1, TargetsAreStages
    <3>3. Position["COMMITTED"] = 5 /\ Position["INDEXED"] = 2
      BY DEF Position, IngestStates
    <3>4. call[w].at # "COMMITTED"
      BY <3>1, <3>2, <3>3 DEF AtTarget
    <3>. QED
      BY <3>1, <3>2, <3>4 DEF Successor
  <2>2. to \in {"SOURCE_DURABLE", "INDEXED", "ENRICHED", "CONSOLIDATED", "COMMITTED"}
    BY <2>1 DEF Successor, IngestStates
  <2>3. /\ call' = [call EXCEPT ![w] = [call[w] EXCEPT !.stage = to]]
        /\ pc' = [pc EXCEPT ![w] = CASE to = "SOURCE_DURABLE" -> "advance"
                                     [] to = "INDEXED"        -> "extract"
                                     [] to = "ENRICHED"       -> "decide"
                                     [] to = "CONSOLIDATED"   -> "list"
                                     [] to = "COMMITTED"      -> "survey"]
        /\ UNCHANGED <<imVars, contentVars>>
    BY <1>3 DEF RunStage, Recall, Go
  <2>4. OnlyMoves(w) /\ call'[w] = [call[w] EXCEPT !.stage = to]
    BY <2>2, <2>3 DEF OnlyMoves, PipelineTyped, PCs, Calls, IngestStates
  <2>5. /\ to = "SOURCE_DURABLE" => pc'[w] = "advance"
        /\ to = "INDEXED" => pc'[w] = "extract"
        /\ to = "ENRICHED" => pc'[w] = "decide"
        /\ to = "CONSOLIDATED" => pc'[w] = "list"
        /\ to = "COMMITTED" => pc'[w] = "survey"
    BY <2>3 DEF PipelineTyped
  <2>. HIDE DEF to
  <2>6. CallShape(w)' /\ ContentShape(w)'
    BY <2>1, <2>2, <2>3, <2>4, <2>5 DEF Calls
  <2>7. StageShape(w)'
    BY <2>1, <2>2, <2>3, <2>4, <2>5, NoneIsNull DEF Calls, IngestStates, to
  <2>. QED
    BY <2>3, <2>4, <2>6, <2>7
<1>4. CASE Extract(w)
  <2>1. call[w].revision \in Known /\ pc[w] = "extract" /\ UNCHANGED <<imVars, contentVars>>
    BY <1>4, NoneIsNull DEF Extract, IngestStates
  <2>2. CASE artifact[call[w].revision] = None
    <3>1. PICK d \in Drafts : Recall(w, "answer", d, "store")
      BY <1>4, <2>2 DEF Extract, AfterExtract
    <3>2. OnlyMoves(w) /\ call'[w] = [call[w] EXCEPT !.answer = d] /\ pc'[w] = "store"
      BY <3>1 DEF Recall, Go, OnlyMoves, PipelineTyped, PCs, Calls
    <3>. QED
      BY <2>1, <3>2 DEF Calls
  <2>3. CASE artifact[call[w].revision] # None
    <3>1. Recall(w, "answer", artifact[call[w].revision], "index")
      BY <1>4, <2>3 DEF Extract
    <3>2. artifact[call[w].revision] \in Drafts
      BY <2>1, <2>3 DEF PipelineTyped
    <3>3. OnlyMoves(w) /\ call'[w] = [call[w] EXCEPT !.answer = artifact[call[w].revision]] /\ pc'[w] = "index"
      BY <3>1, <3>2 DEF Recall, Go, OnlyMoves, PipelineTyped, PCs, Calls
    <3>. QED
      BY <2>1, <3>3 DEF Calls
  <2>. QED
    BY <2>2, <2>3
<1>5. CASE WriteIndex(w)
  <2>1. UNCHANGED <<imVars, contentVars>> /\ pc[w] = "index" /\ call[w].stage = "INDEXED"
    BY <1>5 DEF WriteIndex
  <2>2. OnlyMoves(w) /\ call'[w] = call[w] /\ pc'[w] = "advance"
    BY <1>5, GoMoves DEF WriteIndex, PCs
  <2>. QED
    BY <2>1, <2>2 DEF IngestStates
<1>6. CASE Decide(w)
  <2>1. call[w].revision \in Known /\ pc[w] = "decide" /\ UNCHANGED <<imVars, contentVars>>
    BY <1>6, NoneIsNull DEF Decide, IngestStates
  <2>2. CASE decided[call[w].revision] = None
    <3>1. Recall(w, "answer", Candidates(call[w].revision), "resolve")
      BY <1>6, <2>2 DEF Decide
    <3>2. Candidates(call[w].revision) \in SUBSET Revisions
      BY DEF Candidates
    <3>3. OnlyMoves(w) /\ call'[w] = [call[w] EXCEPT !.answer = Candidates(call[w].revision)] /\ pc'[w] = "resolve"
      BY <3>1, <3>2 DEF Recall, Go, OnlyMoves, PipelineTyped, PCs, Calls
    <3>. QED
      BY <2>1, <3>2, <3>3 DEF Calls
  <2>3. CASE decided[call[w].revision] # None
    <3>1. Recall(w, "answer", decided[call[w].revision], "advance")
      BY <1>6, <2>3 DEF Decide
    <3>2. decided[call[w].revision] \in SUBSET Revisions
      BY <2>1, <2>3 DEF PipelineTyped
    <3>3. OnlyMoves(w) /\ call'[w] = [call[w] EXCEPT !.answer = decided[call[w].revision]] /\ pc'[w] = "advance"
      BY <3>1, <3>2 DEF Recall, Go, OnlyMoves, PipelineTyped, PCs, Calls
    <3>. QED
      BY <2>1, <2>3, <3>3 DEF Calls, IngestStates
  <2>. QED
    BY <2>2, <2>3
<1>. QED
  BY <1>1, <1>2, <1>3, <1>4, <1>5, <1>6

LEMMA VersionBound == IndInv => manifestVersion \in 0 .. Cardinality(Revisions)
<1>. SUFFICES ASSUME IndInv PROVE manifestVersion \in 0 .. Cardinality(Revisions)
  OBVIOUS
<1>1. manifestVersion = Cardinality(Committed) /\ Committed \subseteq Revisions
  BY DEF IndInv, CommitsAreNumbered, Committed
<1>2. Cardinality(Committed) <= Cardinality(Revisions) /\ Cardinality(Committed) \in Nat /\ Cardinality(Revisions) \in Nat
  BY <1>1, RevisionsFinite, FS_Subset, FS_CardinalityType
<1>. QED
  BY <1>1, <1>2

LEMMA CoveredAreKnown ==
  ASSUME PipelineInv, NEW w \in Workers
  PROVE  CoveredRevisions(w) \subseteq Known
BY NoneIsNull DEF PipelineInv, Locals, CallShape, StageShape, CoveredRevisions, Committed, PendingCommit, Own,
                 Known, IngestStates

\* Inside commitScope and the consolidation stage.
LEMMA ScopeLocals ==
  ASSUME PipelineInv, NEW w \in Workers,
         \/ Survey(w) \/ ListRevisions(w) \/ Rebuild(w) \/ ReadVersion(w) \/ Confirm(w) \/ ReturnToLoop(w)
  PROVE  OnlyMoves(w) /\ Locals(w)' /\ UNCHANGED <<imVars, contentVars>>
<1>. PipelineTyped /\ Locals(w) /\ TypeOK /\ call[w] \in Calls /\ pc[w] \in PCs
  BY DEF PipelineInv, PipelineTyped, IndInv
<1>. USE DEF imVars, revisionVars, pointerVars, contentVars, Locals, CallShape, StageShape, ContentShape, Known, Covering
<1>1. CASE Survey(w)
  <2>1. pc[w] = "survey" /\ UNCHANGED <<imVars, contentVars>>
    BY <1>1 DEF Survey
  <2>2. PICK where \in {"list", "report"} : Recall(w, "active", pointer, where)
    BY <1>1 DEF Survey
  <2>3. OnlyMoves(w) /\ call'[w] = [call[w] EXCEPT !.active = pointer] /\ pc'[w] = where
    BY <2>2 DEF Recall, Go, OnlyMoves, PipelineTyped, PCs, Calls, TypeOK
  <2>. QED
    BY <2>1, <2>2, <2>3 DEF Calls
<1>2. CASE ListRevisions(w)
  <2>. DEFINE cover == CoveredRevisions(w)
  <2>1. /\ pc[w] = "list" /\ UNCHANGED <<imVars, contentVars>>
        /\ \A r \in cover : artifact[r] # None
    BY <1>2 DEF ListRevisions
  <2>2. cover \subseteq Known
    BY CoveredAreKnown
  <2>3. call[w].stage = "CONSOLIDATED" => cover # {}
    BY DEF CoveredRevisions, Own
  <2>4. CASE cover = {}
    <3>1. Recall(w, "cover", {}, "report")
      BY <1>2, <2>4 DEF ListRevisions
    <3>2. OnlyMoves(w) /\ call'[w] = [call[w] EXCEPT !.cover = {}] /\ pc'[w] = "report"
      BY <3>1 DEF Recall, Go, OnlyMoves, PipelineTyped, PCs, Calls
    <3>. QED
      BY <2>1, <2>3, <2>4, <3>2 DEF Calls
  <2>5. CASE cover # {}
    <3>1. Recall(w, "cover", cover, "view")
      BY <1>2, <2>5 DEF ListRevisions
    <3>. HIDE DEF cover
    <3>2. OnlyMoves(w) /\ call'[w] = [call[w] EXCEPT !.cover = cover] /\ pc'[w] = "view"
      BY <2>2, <3>1 DEF Recall, Go, OnlyMoves, PipelineTyped, PCs, Calls
    <3>. QED
      BY <2>1, <2>2, <2>5, <3>2 DEF Calls
  <2>. QED
    BY <2>4, <2>5
<1>3. CASE Rebuild(w)
  <2>1. pc[w] = "build" /\ UNCHANGED <<imVars, contentVars>>
    BY <1>3 DEF Rebuild
  <2>2. /\ OnlyMoves(w) /\ call'[w] = call[w]
        /\ pc'[w] = IF call[w].stage = "CONSOLIDATED" THEN "advance" ELSE "version"
    BY <1>3 DEF Rebuild, Go, AfterBuild, OnlyMoves, PipelineTyped, PCs
  <2>. QED
    BY <2>1, <2>2 DEF IngestStates
<1>4. CASE ReadVersion(w)
  <2>1. pc[w] = "version" /\ UNCHANGED <<imVars, contentVars>>
    BY <1>4 DEF ReadVersion
  <2>2. manifestVersion \in 0 .. Cardinality(Revisions)
    BY VersionBound DEF PipelineInv
  <2>3. OnlyMoves(w) /\ call'[w] = [call[w] EXCEPT !.version = manifestVersion] /\ pc'[w] = "swap"
    BY <1>4, <2>2 DEF ReadVersion, Recall, Go, OnlyMoves, PipelineTyped, PCs, Calls
  <2>. QED
    BY <2>1, <2>3 DEF Calls
<1>5. CASE Confirm(w)
  <2>1. pc[w] = "confirm" /\ UNCHANGED <<imVars, contentVars>>
    BY <1>5 DEF Confirm
  <2>2. OnlyMoves(w) /\ call'[w] = [call[w] EXCEPT !.active = pointer] /\ pc'[w] = "report"
    BY <1>5 DEF Confirm, Recall, Go, OnlyMoves, PipelineTyped, PCs, Calls, TypeOK
  <2>. QED
    BY <2>1, <2>2 DEF Calls
<1>6. CASE ReturnToLoop(w)
  <2>1. pc[w] = "report" /\ InStage(w) /\ UNCHANGED <<imVars, contentVars>>
    BY <1>6 DEF ReturnToLoop
  <2>2. OnlyMoves(w) /\ call'[w] = call[w] /\ pc'[w] = "advance"
    BY <1>6, GoMoves DEF ReturnToLoop, PCs
  <2>. QED
    BY <2>1, <2>2 DEF InStage, IngestStates
<1>. QED
  BY <1>1, <1>2, <1>3, <1>4, <1>5, <1>6

\* Calls that begin, end or fail.
LEMMA CallLocals ==
  ASSUME PipelineInv, NEW w \in Workers,
         \/ Contend(w) \/ Blocked(w) \/ LeaveLoop(w) \/ Report(w) \/ AdvanceRefused(w) \/ Crash(w)
         \/ \E g \in Generations : CallRepair(w, g)
  PROVE  OnlyMoves(w) /\ Locals(w)' /\ UNCHANGED <<imVars, contentVars>>
<1>. PipelineTyped /\ Locals(w) /\ TypeOK /\ call[w] \in Calls /\ pc[w] \in PCs
  BY DEF PipelineInv, PipelineTyped, IndInv
<1>1. CASE End(w) /\ UNCHANGED <<imVars, contentVars>>
  BY <1>1, EndMoves
<1>2. CASE LeaveLoop(w) /\ call[w].target # "INDEXED"
  <2>1. pc[w] = "loop" /\ Recall(w, "stage", "REPAIR", "acquire") /\ UNCHANGED <<imVars, contentVars>>
    BY <1>2 DEF LeaveLoop
  <2>2. OnlyMoves(w) /\ call'[w] = [call[w] EXCEPT !.stage = "REPAIR"] /\ pc'[w] = "acquire"
    BY <2>1 DEF Recall, Go, OnlyMoves, PipelineTyped, PCs, Calls
  <2>. QED
    BY <2>1, <2>2 DEF Calls, Locals, CallShape, StageShape, ContentShape, Covering, Known, imVars, revisionVars
<1>3. ASSUME NEW g \in Generations, CallRepair(w, g) PROVE OnlyMoves(w) /\ Locals(w)' /\ UNCHANGED <<imVars, contentVars>>
  <2>1. UNCHANGED <<imVars, contentVars>>
    BY <1>3 DEF CallRepair
  <2>2. [NoCall EXCEPT !.generation = g, !.stage = "REPAIR"] \in Calls
    <3>1. 0 \in 0 .. Cardinality(Revisions)
      BY RevisionsFinite, FS_CardinalityType
    <3>. QED
      BY <3>1 DEF NoCall, Calls
  <2>3. OnlyMoves(w) /\ call'[w] = [NoCall EXCEPT !.generation = g, !.stage = "REPAIR"] /\ pc'[w] = "acquire"
    BY <1>3, <2>2 DEF CallRepair, Go, OnlyMoves, PipelineTyped, PCs
  <2>. QED
    BY <2>1, <2>3 DEF NoCall, Locals, CallShape, StageShape, ContentShape, Covering
<1>. QED
  BY <1>1, <1>2, <1>3 DEF Contend, Blocked, LeaveLoop, Report, AdvanceRefused, Crash

-----------------------------------------------------------------------------
(***************************************************************************)
(* The steps that store something: each is a step of the manifest.         *)
(***************************************************************************)

\* What a step of w that stores in the manifest leaves to show elsewhere.
Settles(w) == OnlyMoves(w) /\ Locals(w)' /\ [Next]_imVars

\* The covering snapshot of a worker is one, and its digest is evidence.
LEMMA TargetIsSnapshot ==
  ASSUME PipelineInv, NEW w \in Workers, pc[w] \in Covering
  PROVE  /\ Target(w) \in Snapshots
         /\ Target(w).commits = call[w].cover
         /\ Target(w).view = call[w].cover
         /\ Target(w).generation = call[w].generation
<1>1. call[w].cover \in SUBSET Revisions /\ call[w].cover # {}
  BY DEF PipelineInv, PipelineTyped, Calls, Locals, ContentShape
<1>2. call[w].generation \in Generations
  BY DEF PipelineInv, Locals, CallShape, Covering
<1>. QED
  BY <1>1, <1>2, CoveringsAreSnapshots DEF Target, SnapshotOf

LEMMA DigestIsEvidence ==
  ASSUME PipelineTyped, NEW c \in SUBSET Revisions, \A r \in c : artifact[r] # None
  PROVE  Digest(c) \in Digests
<1>1. \A r \in c : artifact[r] \in Drafts
  BY DEF PipelineTyped
<1>2. \A r \in c : (IF decided[r] = None THEN {} ELSE decided[r] \cap c) \in SUBSET Revisions
  BY DEF PipelineTyped
<1>3. Digest(c) \in [c -> Drafts \X SUBSET Revisions]
  BY <1>1, <1>2 DEF Digest
<1>. QED
  BY <1>3, DigestsAreOfContent

LEMMA BeginningLocals ==
  ASSUME PipelineInv, NEW w \in Workers,
         \/ \E r \in Revisions, g \in Generations, t \in Targets : CallIngest(w, r, g, t)
         \/ Declare(w)
  PROVE  Settles(w) /\ UNCHANGED contentVars
<1>. PipelineTyped /\ Locals(w) /\ TypeOK /\ call[w] \in Calls /\ pc[w] \in PCs
  BY DEF PipelineInv, PipelineTyped, IndInv
<1>1. ASSUME NEW r \in Revisions, NEW g \in Generations, NEW t \in Targets, CallIngest(w, r, g, t)
      PROVE  Settles(w) /\ UNCHANGED contentVars
  <2>1. [Next]_imVars /\ UNCHANGED contentVars
    BY <1>1 DEF CallIngest, Next, RevisionStep
  <2>2. r \in Known'
    BY <1>1, NoneIsNull DEF CallIngest, Begin, Known, TypeOK, IngestStates, imVars, revisionVars
  <2>3. [NoCall EXCEPT !.revision = r, !.generation = g, !.target = t] \in Calls
    <3>1. 0 \in 0 .. Cardinality(Revisions)
      BY RevisionsFinite, FS_CardinalityType
    <3>. QED
      BY <3>1 DEF NoCall, Calls
  <2>4. /\ OnlyMoves(w) /\ pc'[w] = "declare"
        /\ call'[w] = [NoCall EXCEPT !.revision = r, !.generation = g, !.target = t]
    BY <1>1, <2>3 DEF CallIngest, Go, OnlyMoves, PipelineTyped, PCs
  <2>. QED
    BY <2>1, <2>2, <2>4, NoneIsNoRevision
       DEF Settles, NoCall, Locals, CallShape, StageShape, ContentShape, Covering
<1>2. CASE Declare(w)
  <2>1. pc[w] = "declare" /\ UNCHANGED <<contentVars, state>> /\ StoreGeneration(call[w].generation)
    BY <1>2 DEF Declare, StoreGeneration, revisionVars
  <2>2. OnlyMoves(w) /\ call'[w] = call[w] /\ pc'[w] = "acquire"
    BY <1>2, GoMoves DEF Declare, PCs
  <2>3. [Next]_imVars
    BY <2>1 DEF Next, CatalogStep, Locals, CallShape
  <2>. QED
    BY <2>1, <2>2, <2>3 DEF Settles, Locals, CallShape, StageShape, ContentShape, Covering, Known, contentVars
<1>. QED
  BY <1>1, <1>2

\* A draft, a decision or a graph is stored, and the manifest stays as it is.
LEMMA ContentLocals ==
  ASSUME PipelineInv, NEW w \in Workers, StoreArtifact(w) \/ StoreDecisions(w) \/ WriteGraph(w)
  PROVE  OnlyMoves(w) /\ Locals(w)' /\ UNCHANGED imVars
<1>. PipelineTyped /\ Locals(w) /\ TypeOK /\ call[w] \in Calls /\ pc[w] \in PCs
  BY DEF PipelineInv, PipelineTyped, IndInv
<1>. USE DEF imVars, revisionVars, Locals, CallShape, StageShape, ContentShape, Known, Covering
<1>1. CASE StoreArtifact(w)
  <2>1. UNCHANGED imVars /\ pc[w] = "store" /\ call[w].stage = "INDEXED"
    BY <1>1 DEF StoreArtifact
  <2>2. OnlyMoves(w) /\ call'[w] = call[w] /\ pc'[w] = "index"
    BY <1>1, GoMoves DEF StoreArtifact, PCs
  <2>. QED
    BY <2>1, <2>2
<1>2. CASE StoreDecisions(w)
  <2>1. UNCHANGED imVars /\ pc[w] = "resolve" /\ call[w].stage = "ENRICHED" /\ call[w].revision \in Revisions
    BY <1>2, NoneIsNull DEF StoreDecisions, IngestStates
  <2>2. OnlyMoves(w) /\ call'[w] = call[w] /\ pc'[w] = "advance"
    BY <1>2, GoMoves DEF StoreDecisions, PCs
  <2>3. decided'[call[w].revision] # None
    <3>1. call[w].answer \in SUBSET Revisions /\ decided' = [decided EXCEPT ![call[w].revision] = call[w].answer]
      BY <1>2, <2>1 DEF StoreDecisions
    <3>. QED
      BY <2>1, <3>1, NoneIsNull, ViewsAreCoverages DEF PipelineTyped
  <2>. QED
    BY <2>1, <2>2, <2>3 DEF IngestStates
<1>3. CASE WriteGraph(w)
  <2>1. pc[w] = "build" /\ UNCHANGED <<imVars, artifact, decided>> /\ Plannable(w)
    BY <1>3 DEF WriteGraph
  <2>2. OnlyMoves(w) /\ call'[w] = call[w] /\ pc'[w] = "readback"
    BY <1>3, GoMoves DEF WriteGraph, PCs
  <2>3. \A q \in call[w].cover : decided[q] # None
    <3>. SUFFICES ASSUME NEW q \in call[w].cover PROVE decided[q] # None
      OBVIOUS
    <3>1. state[q] \in IngestStates /\ q \in Revisions
      BY <2>1 DEF TypeOK
    <3>2. Position[state[q]] >= Position["ENRICHED"]
      BY <2>1 DEF Plannable
    <3>3. state[q] \in {"ENRICHED", "CONSOLIDATED", "COMMITTED"}
      BY <3>1, <3>2 DEF Position, IngestStates
    <3>. QED
      BY <3>1, <3>3 DEF PipelineInv, EnrichedAreDecided
  <2>. QED
    BY <2>1, <2>2, <2>3
<1>. QED
  BY <1>1, <1>2, <1>3

-----------------------------------------------------------------------------
(***************************************************************************)
(* What is verified is what is stored.                                     *)
(***************************************************************************)

Stored == EnrichedAreDecided /\ EvidenceIsSettled /\ VerifiedIsWhole

\* Drafts and decisions are written once.
Writes ==
  /\ artifact' \in [Revisions -> Drafts \cup {None}]
  /\ decided' \in [Revisions -> (SUBSET Revisions) \cup {None}]
  /\ graph' \in [Snapshots -> SUBSET Revisions]
  /\ \A r \in Revisions : artifact[r] # None => artifact'[r] = artifact[r]
  /\ \A r \in Revisions : decided[r] # None => decided'[r] = decided[r]

LEMMA KeepsDecided ==
  ASSUME EnrichedAreDecided, Writes,
         \A r \in Revisions : state'[r] \in {"ENRICHED", "CONSOLIDATED", "COMMITTED"} =>
           decided[r] # None \/ state[r] \in {"ENRICHED", "CONSOLIDATED", "COMMITTED"}
  PROVE  EnrichedAreDecided'
BY DEF EnrichedAreDecided, Writes

LEMMA KeepsSettled ==
  ASSUME PipelineTyped, EvidenceIsSettled, Writes,
         \A s \in Snapshots : evidence'[s] # None =>
           \/ evidence'[s] = evidence[s]
           \/ /\ \A r \in s.commits : artifact[r] # None /\ decided[r] # None
              /\ evidence'[s] = Digest(s.commits)
  PROVE  EvidenceIsSettled'
<1>. SUFFICES ASSUME NEW s \in Snapshots, evidence'[s] # None
              PROVE  /\ \A r \in s.commits : artifact'[r] # None /\ decided'[r] # None
                     /\ evidence'[s] = Digest(s.commits)'
  BY DEF EvidenceIsSettled
<1>1. s.commits \in SUBSET Revisions
  BY SnapshotFields
<1>2. /\ \A r \in s.commits : artifact[r] # None /\ decided[r] # None
      /\ evidence'[s] = Digest(s.commits)
  BY DEF EvidenceIsSettled
<1>3. \A r \in s.commits : artifact'[r] = artifact[r] /\ decided'[r] = decided[r]
  BY <1>1, <1>2 DEF Writes
<1>4. Digest(s.commits)' = Digest(s.commits)
  BY <1>3 DEF Digest
<1>. QED
  BY <1>2, <1>3, <1>4

LEMMA KeepsWhole ==
  ASSUME VerifiedIsWhole, UNCHANGED graph,
         \A s \in Snapshots : snapState'[s] \in EvidenceStates =>
           snapState[s] \in EvidenceStates \/ graph[s] = s.commits
  PROVE  VerifiedIsWhole'
BY DEF VerifiedIsWhole

\* A step that changes neither what is stored nor what the manifest knows of it.
LEMMA KeepsStored ==
  ASSUME PipelineInv, UNCHANGED <<contentVars, state, snapState, evidence>>
  PROVE  Stored' /\ Writes
<1>1. Writes
  BY DEF PipelineInv, PipelineTyped, Writes, contentVars
<1>2. EnrichedAreDecided'
  BY <1>1, KeepsDecided DEF PipelineInv
<1>3. EvidenceIsSettled'
  BY <1>1, KeepsSettled DEF PipelineInv
<1>4. VerifiedIsWhole'
  BY KeepsWhole DEF PipelineInv, contentVars
<1>. QED
  BY <1>1, <1>2, <1>3, <1>4 DEF Stored

\* Drafts, decisions and graph parts.
LEMMA ContentStored ==
  ASSUME PipelineInv, NEW w \in Workers, StoreArtifact(w) \/ StoreDecisions(w) \/ WriteGraph(w)
  PROVE  Stored' /\ Writes
<1>. PipelineTyped /\ Locals(w) /\ EnrichedAreDecided /\ EvidenceIsSettled /\ VerifiedIsWhole
  BY DEF PipelineInv
<1>0. UNCHANGED <<state, snapState, evidence>>
  BY DEF StoreArtifact, StoreDecisions, WriteGraph, imVars, revisionVars, snapshotVars
<1>1. Writes /\ VerifiedIsWhole'
  <2>1. CASE StoreArtifact(w)
    <3>1. /\ call[w].answer \in Drafts /\ Storable(call[w].revision, call[w].answer)
          /\ artifact' = [artifact EXCEPT ![call[w].revision] = call[w].answer]
          /\ UNCHANGED <<decided, graph>>
      BY <2>1 DEF StoreArtifact, Locals, ContentShape
    <3>2. Writes
      BY <3>1 DEF Storable, PipelineTyped, Writes
    <3>. QED
      BY <1>0, <3>1, <3>2, KeepsWhole
  <2>2. CASE StoreDecisions(w)
    <3>1. /\ call[w].answer \in SUBSET Revisions /\ decided[call[w].revision] \in {None, call[w].answer}
          /\ decided' = [decided EXCEPT ![call[w].revision] = call[w].answer]
          /\ UNCHANGED <<artifact, graph>>
      BY <2>2 DEF StoreDecisions, Locals, ContentShape
    <3>2. Writes
      BY <3>1 DEF PipelineTyped, Writes
    <3>. QED
      BY <1>0, <3>1, <3>2, KeepsWhole
  <2>3. CASE WriteGraph(w)
    <3>. DEFINE t == Target(w)
    <3>1. t \in Snapshots /\ snapState[t] = "BUILDING" /\ t.commits \in SUBSET Revisions /\ UNCHANGED <<artifact, decided>>
      BY <2>3, TargetIsSnapshot, SnapshotFields DEF WriteGraph, Covering
    <3>2. PICK kept \in SUBSET t.commits : graph' = [graph EXCEPT ![t] = graph[t] \cup kept]
      BY <2>3 DEF WriteGraph
    <3>. HIDE DEF t
    <3>3. Writes
      BY <3>1, <3>2 DEF PipelineTyped, Writes
    <3>4. \A s \in Snapshots : s # t => graph'[s] = graph[s]
      BY <3>1, <3>2 DEF PipelineTyped
    <3>5. graph'[t] = graph[t] \cup kept
      BY <3>1, <3>2 DEF PipelineTyped
    <3>6. snapState[t] \notin EvidenceStates
      BY <3>1 DEF EvidenceStates
    <3>. QED
      BY <1>0, <3>1, <3>3, <3>4, <3>5, <3>6 DEF VerifiedIsWhole
  <2>. QED
    BY <2>1, <2>2, <2>3
<1>. QED
  BY <1>0, <1>1, KeepsDecided, KeepsSettled DEF Stored

-----------------------------------------------------------------------------
(***************************************************************************)
(* The steps that run an operation of the manifest.                        *)
(***************************************************************************)

LEMMA StageStored ==
  ASSUME PipelineInv, NEW w \in Workers, AdvanceStage(w)
  PROVE  Settles(w) /\ Writes /\ Stored'
<1>. DEFINE r == call[w].revision
            next == [NoCall EXCEPT !.revision = r, !.generation = call[w].generation,
                                   !.target = call[w].target, !.at = call[w].stage]
<1>. PipelineTyped /\ Locals(w) /\ TypeOK /\ call[w] \in Calls /\ Stored
  BY DEF PipelineInv, PipelineTyped, IndInv, Stored
<1>1. /\ pc[w] = "advance" /\ UNCHANGED contentVars
      /\ call' = [call EXCEPT ![w] = next] /\ Go(w, "loop")
      /\ \/ state[r] = call[w].stage /\ UNCHANGED imVars
         \/ state[r] = call[w].at /\ Advance(r)
  BY DEF AdvanceStage
<1>2. /\ call[w].stage \in IngestStates /\ r \in Known /\ r # None
      /\ call[w].at \in DOMAIN Successor /\ call[w].stage = Successor[call[w].at]
      /\ call[w].stage = "ENRICHED" => decided[r] # None
  <2>1. call[w].stage \in IngestStates
    BY <1>1 DEF Locals, StageShape
  <2>2. call[w].stage \notin {None, "REPAIR"}
    BY <2>1, NoneIsNull DEF IngestStates
  <2>. QED
    BY <1>1, <2>1, <2>2 DEF Locals, CallShape, StageShape, ContentShape
<1>3. [Next]_imVars
  BY <1>1, <1>2 DEF Next, RevisionStep, Known
<1>4. next \in Calls
  <2>1. 0 \in 0 .. Cardinality(Revisions)
    BY RevisionsFinite, FS_CardinalityType
  <2>. QED
    BY <1>2, <2>1 DEF NoCall, Calls
<1>5. OnlyMoves(w) /\ call'[w] = next /\ pc'[w] = "loop"
  BY <1>1, <1>4 DEF Go, OnlyMoves, PipelineTyped, PCs
<1>6. r \in Known'
  BY <1>2, <1>3, KnownGrows
<1>7. Locals(w)'
  <2>1. /\ next.revision = r /\ next.generation = call[w].generation /\ next.target = call[w].target
        /\ next.at = call[w].stage /\ next.stage = None
    BY DEF NoCall
  <2>2. call[w].target \in Targets /\ call[w].generation \in Generations
    BY <1>1, <1>2 DEF Locals, CallShape
  <2>. HIDE DEF next
  <2>. QED
    BY <1>2, <1>5, <1>6, <2>1, <2>2 DEF Locals, CallShape, StageShape, ContentShape, Covering
<1>8. CASE UNCHANGED imVars
  BY <1>1, <1>3, <1>5, <1>7, <1>8, KeepsStored DEF Settles, imVars, revisionVars, snapshotVars
<1>9. CASE state[r] = call[w].at /\ Advance(r)
  <2>1. UNCHANGED <<snapState, evidence, artifact, decided, graph>>
    BY <1>1, <1>9 DEF Advance, snapshotVars, contentVars
  <2>2. Writes
    BY <2>1 DEF Writes, PipelineTyped
  <2>3. state' = [state EXCEPT ![r] = call[w].stage]
    BY <1>2, <1>9 DEF Advance
  <2>4. call[w].stage \in {"CONSOLIDATED", "COMMITTED"} => state[r] \in {"ENRICHED", "CONSOLIDATED"}
    BY <1>2, <1>9 DEF Successor, IngestStates
  <2>5. r \in Revisions
    BY <1>2 DEF Known
  <2>6. EnrichedAreDecided'
    BY <1>2, <2>2, <2>3, <2>4, <2>5, KeepsDecided DEF Stored, TypeOK
  <2>. QED
    BY <1>3, <1>5, <1>7, <2>1, <2>2, <2>6, KeepsSettled, KeepsWhole DEF Settles, Stored
<1>. QED
  BY <1>1, <1>8, <1>9

\* The catalog, the registration of a snapshot, its verification, and the swap.
LEMMA SnapshotStored ==
  ASSUME PipelineInv, NEW w \in Workers,
         \/ StoreCanonicalView(w) \/ StoreIndexGeneration(w) \/ RegisterSnapshot(w)
         \/ VerifyReadBack(w) \/ Swap(w) \/ SwapAgain(w)
  PROVE  Settles(w) /\ Writes /\ Stored'
<1>. DEFINE s == Target(w)
<1>. PipelineTyped /\ Locals(w) /\ TypeOK /\ call[w] \in Calls /\ Stored /\ IndInv
  BY DEF PipelineInv, PipelineTyped, IndInv, Stored
<1>0. pc[w] \in Covering /\ UNCHANGED <<call, contentVars>>
  BY DEF StoreCanonicalView, StoreIndexGeneration, RegisterSnapshot, VerifyReadBack, Swap, SwapAgain, Covering
<1>1. /\ s \in Snapshots /\ s.commits = call[w].cover /\ call[w].cover \in SUBSET Revisions
      /\ call[w].generation \in Generations
      /\ \A q \in call[w].cover : artifact[q] # None
  BY <1>0, TargetIsSnapshot, SnapshotFields DEF Locals, CallShape, ContentShape, Covering
<1>2. Writes
  BY <1>0 DEF Writes, PipelineTyped, contentVars
<1>3. OnlyMoves(w) /\ call'[w] = call[w] /\ (Known \subseteq Known' => Locals(w)')
  <2>1. PICK where \in {"generation", "register", "build", "version", "confirm", "advance"} :
          /\ Go(w, where)
          /\ where \in {"generation", "register"} => pc[w] \in {"view", "generation"}
          /\ where = "build" => pc[w] = "register"
          /\ where = "advance" => pc[w] = "readback" /\ call[w].stage = "CONSOLIDATED"
          /\ where = "version" => pc[w] = "readback" /\ call[w].stage # "CONSOLIDATED"
          /\ where = "confirm" => pc[w] = "swap"
    BY DEF StoreCanonicalView, StoreIndexGeneration, RegisterSnapshot, VerifyReadBack, Swap, SwapAgain, AfterBuild
  <2>2. OnlyMoves(w) /\ call'[w] = call[w] /\ pc'[w] = where
    BY <1>0, <2>1, GoMoves DEF PCs
  <2>3. ASSUME Known \subseteq Known' PROVE Locals(w)'
    <3>1. CallShape(w)'
      BY <1>0, <2>1, <2>2, <2>3 DEF Locals, CallShape, Covering
    <3>2. StageShape(w)'
      BY <1>0, <2>1, <2>2 DEF Locals, StageShape, Covering, IngestStates
    <3>3. ContentShape(w)'
      BY <1>0, <2>1, <2>2, <2>3 DEF Locals, ContentShape, Covering, contentVars
    <3>. QED
      BY <3>1, <3>2, <3>3 DEF Locals
  <2>. QED
    BY <2>2, <2>3
<1>. SUFFICES [Next]_imVars /\ Stored'
  BY <1>2, <1>3, KnownGrows DEF Settles
<1>. HIDE DEF s
<1>4. CASE StoreCanonicalView(w) \/ StoreIndexGeneration(w)
  <2>1. UNCHANGED <<state, snapState, evidence>>
    BY <1>4 DEF StoreCanonicalView, StoreIndexGeneration, StoreView, StoreGeneration, revisionVars, snapshotVars
  <2>2. [Next]_imVars
    BY <1>1, <1>4, ViewsAreCoverages DEF StoreCanonicalView, StoreIndexGeneration, Next, CatalogStep
  <2>. QED
    BY <1>0, <2>1, <2>2, KeepsStored
<1>5. CASE RegisterSnapshot(w)
  <2>1. CASE UNCHANGED imVars
    BY <1>0, <2>1, KeepsStored DEF imVars, revisionVars, snapshotVars
  <2>2. CASE Register(s)
    <3>1. [Next]_imVars
      BY <1>1, <2>2 DEF Next, SnapshotStep
    <3>2. /\ UNCHANGED <<state, graph>>
          /\ snapState' = [snapState EXCEPT ![s] = "BUILDING"]
          /\ evidence' = [evidence EXCEPT ![s] = None]
      BY <1>0, <2>2 DEF Register, revisionVars, contentVars
    <3>3. EnrichedAreDecided'
      BY <1>2, <3>2, KeepsDecided DEF Stored
    <3>4. EvidenceIsSettled'
      BY <1>1, <1>2, <3>2, KeepsSettled DEF Stored, TypeOK
    <3>5. VerifiedIsWhole'
      BY <1>1, <3>2, KeepsWhole DEF Stored, TypeOK, EvidenceStates
    <3>. QED
      BY <3>1, <3>3, <3>4, <3>5 DEF Stored
  <2>. QED
    BY <1>5, <2>1, <2>2 DEF RegisterSnapshot, s
<1>6. CASE VerifyReadBack(w)
  <2>1. CASE UNCHANGED imVars
    BY <1>0, <2>1, KeepsStored DEF imVars, revisionVars, snapshotVars
  <2>2. CASE Verify(s, Digest(s.commits))
    <3>1. graph[s] = s.commits /\ \A q \in s.commits : decided[q] # None
      BY <1>1, <1>6 DEF VerifyReadBack, ReadsBack, s, Locals, ContentShape
    <3>2. [Next]_imVars
      BY <1>1, <2>2, DigestIsEvidence DEF Next, SnapshotStep
    <3>3. /\ UNCHANGED <<state, graph>>
          /\ snapState' = [snapState EXCEPT ![s] = "VERIFIED"]
          /\ evidence' = [evidence EXCEPT ![s] = Digest(s.commits)]
      BY <1>0, <2>2 DEF Verify, revisionVars, contentVars
    <3>4. EnrichedAreDecided'
      BY <1>2, <3>3, KeepsDecided DEF Stored
    <3>5. EvidenceIsSettled'
      <4>. DEFINE dig == Digest(s.commits)
      <4>1. evidence' = [evidence EXCEPT ![s] = dig]
        BY <3>3
      <4>. HIDE DEF dig
      <4>2. \A x \in Snapshots : evidence'[x] = evidence[x] \/ (x = s /\ evidence'[x] = dig)
        BY <1>1, <4>1 DEF TypeOK
      <4>. QED
        BY <1>1, <1>2, <3>1, <4>2, KeepsSettled DEF Stored, dig
    <3>6. VerifiedIsWhole'
      BY <1>1, <3>1, <3>3, KeepsWhole DEF Stored, TypeOK
    <3>. QED
      BY <3>2, <3>4, <3>5, <3>6 DEF Stored
  <2>. QED
    BY <1>6, <2>1, <2>2 DEF VerifyReadBack, s
<1>7. CASE Swap(w)
  <2>1. CommitAndActivate(s, call[w].version, call[w].active)
    BY <1>7 DEF Swap, s
  <2>2. [Next]_imVars
    BY <1>1, <2>1 DEF Next, SnapshotStep, Calls
  <2>3. /\ snapState' = Supersede(s) /\ UNCHANGED <<evidence, graph>> /\ snapState[s] = "VERIFIED"
        /\ state' = [r \in Revisions |-> IF r \in Pending(s) THEN "COMMITTED" ELSE state[r]]
        /\ \A r \in Pending(s) : state[r] = "CONSOLIDATED"
    BY <1>0, <2>1 DEF CommitAndActivate, Committable, contentVars
  <2>4. EnrichedAreDecided'
    BY <1>2, <2>3, KeepsDecided DEF Stored
  <2>5. EvidenceIsSettled'
    BY <1>2, <2>3, KeepsSettled DEF Stored
  <2>6. VerifiedIsWhole'
    BY <2>3, KeepsWhole DEF Stored, Supersede, EvidenceStates, IndInv, PointerNamesTheActive
  <2>. QED
    BY <2>2, <2>4, <2>5, <2>6 DEF Stored
<1>8. CASE SwapAgain(w)
  <2>1. Realign(s)
    BY <1>8 DEF SwapAgain, s
  <2>2. [Next]_imVars /\ UNCHANGED <<state, snapState, evidence>>
    BY <1>1, <2>1 DEF Next, SnapshotStep, Realign, revisionVars, snapshotVars
  <2>. QED
    BY <1>0, <2>2, KeepsStored
<1>. QED
  BY <1>4, <1>5, <1>6, <1>7, <1>8

LEMMA FailureStored ==
  ASSUME PipelineInv, NEW w \in Workers, StageRefused(w) \/ StageRetryable(w) \/ Outage(w)
  PROVE  Settles(w) /\ Writes /\ Stored'
<1>1. PICK retryable \in BOOLEAN : Fail(w, retryable) /\ UNCHANGED contentVars
  BY DEF StageRefused, StageRetryable, Outage
<1>2. OnlyMoves(w) /\ Locals(w)'
  BY <1>1, EndMoves DEF Fail, PipelineInv
<1>3. CASE UNCHANGED imVars
  BY <1>1, <1>2, <1>3, KeepsStored DEF Settles, imVars, revisionVars, snapshotVars
<1>4. CASE RecordFailure(call[w].revision, retryable)
  <2>1. [Next]_imVars /\ UNCHANGED <<state, snapState, evidence>>
    BY <1>4 DEF RecordFailure, MayRecordFailure, Known, Next, RevisionStep, snapshotVars
  <2>. QED
    BY <1>1, <1>2, <2>1, KeepsStored DEF Settles
<1>. QED
  BY <1>1, <1>3, <1>4 DEF Fail

-----------------------------------------------------------------------------
(***************************************************************************)
(* The pipeline implements the manifest and keeps its evidence.            *)
(***************************************************************************)

LEMMA WorkerStored ==
  ASSUME PipelineInv, NEW w \in Workers, Client(w) \/ Step(w) \/ Outage(w) \/ Crash(w)
  PROVE  Settles(w) /\ Writes /\ Stored'
<1>1. CASE OnlyMoves(w) /\ Locals(w)' /\ UNCHANGED <<imVars, contentVars>>
  BY <1>1, KeepsStored DEF Settles, imVars, revisionVars, snapshotVars
<1>2. CASE \/ Acquire(w) \/ Enter(w) \/ RunStage(w) \/ Extract(w) \/ WriteIndex(w) \/ Decide(w)
  BY <1>1, <1>2, LoopLocals
<1>3. CASE \/ Survey(w) \/ ListRevisions(w) \/ Rebuild(w) \/ ReadVersion(w) \/ Confirm(w) \/ ReturnToLoop(w)
  BY <1>1, <1>3, ScopeLocals
<1>4. CASE \/ Contend(w) \/ Blocked(w) \/ LeaveLoop(w) \/ Report(w) \/ AdvanceRefused(w) \/ Crash(w)
           \/ \E g \in Generations : CallRepair(w, g)
  BY <1>1, <1>4, CallLocals
<1>5. CASE \/ \E r \in Revisions, g \in Generations, t \in Targets : CallIngest(w, r, g, t)
           \/ Declare(w)
  <2>1. Settles(w) /\ UNCHANGED contentVars
    BY <1>5, BeginningLocals
  <2>2. UNCHANGED <<snapState, evidence, graph>>
    BY <1>5, <2>1 DEF CallIngest, Declare, StoreGeneration, Begin, imVars, snapshotVars, contentVars
  <2>3. Writes
    BY <2>1 DEF PipelineInv, PipelineTyped, Writes, contentVars
  <2>4. \A r \in Revisions : state'[r] = state[r] \/ state'[r] = "RECEIVED"
    BY <1>5 DEF CallIngest, Declare, StoreGeneration, Begin, imVars, revisionVars, PipelineInv, IndInv, TypeOK
  <2>5. EnrichedAreDecided'
    BY <2>3, <2>4, KeepsDecided DEF PipelineInv
  <2>. QED
    BY <2>1, <2>2, <2>3, <2>5, KeepsSettled, KeepsWhole DEF PipelineInv, Stored
<1>6. CASE StoreArtifact(w) \/ StoreDecisions(w) \/ WriteGraph(w)
  BY <1>6, ContentLocals, ContentStored DEF Settles
<1>7. CASE AdvanceStage(w)
  BY <1>7, StageStored
<1>8. CASE \/ StoreCanonicalView(w) \/ StoreIndexGeneration(w) \/ RegisterSnapshot(w)
           \/ VerifyReadBack(w) \/ Swap(w) \/ SwapAgain(w)
  BY <1>8, SnapshotStored
<1>9. CASE StageRefused(w) \/ StageRetryable(w) \/ Outage(w)
  BY <1>9, FailureStored
<1>. QED
  BY <1>2, <1>3, <1>4, <1>5, <1>6, <1>7, <1>8, <1>9 DEF Client, Step

LEMMA InitPipelineInv == SourceCommitInit => PipelineInv
<1>. SUFFICES ASSUME SourceCommitInit PROVE PipelineInv
  OBVIOUS
<1>1. IndInv
  BY InitIndInv DEF SourceCommitInit
<1>2. NoCall \in Calls
  <2>1. 0 \in 0 .. Cardinality(Revisions)
    BY RevisionsFinite, FS_CardinalityType
  <2>. QED
    BY <2>1 DEF NoCall, Calls
<1>3. PipelineTyped
  BY <1>2 DEF SourceCommitInit, PipelineTyped, PCs
<1>4. \A w \in Workers : Locals(w)
  BY DEF SourceCommitInit, Locals, CallShape, StageShape, ContentShape, NoCall, Covering
<1>5. EnrichedAreDecided /\ EvidenceIsSettled
  BY NoneIsNull DEF SourceCommitInit, Init, EnrichedAreDecided, EvidenceIsSettled, IngestStates
<1>6. VerifiedIsWhole
  BY NoneIsNull DEF SourceCommitInit, Init, VerifiedIsWhole, EvidenceStates, SnapshotStates
<1>. QED
  BY <1>1, <1>3, <1>4, <1>5, <1>6 DEF PipelineInv

\* Every step of the pipeline is one of the manifest, and keeps the invariant.
LEMMA StepPipelineInv == PipelineInv /\ [SourceCommitNext]_scVars => [Next]_imVars /\ PipelineInv'
<1>. SUFFICES ASSUME PipelineInv, [SourceCommitNext]_scVars PROVE [Next]_imVars /\ PipelineInv'
  OBVIOUS
<1>1. CASE UNCHANGED scVars
  <2>1. UNCHANGED <<imVars, pc, call, contentVars>>
    BY <1>1 DEF scVars
  <2>2. IndInv'
    BY <2>1, StepIndInv DEF PipelineInv
  <2>3. Stored' /\ Writes
    BY <2>1, KeepsStored DEF imVars, revisionVars, snapshotVars
  <2>4. Grows
    BY <2>1, <2>3 DEF Grows, Writes, Known, imVars, revisionVars
  <2>5. \A u \in Workers : Locals(u)'
    BY <2>1, <2>4, OthersKeepLocals DEF PipelineInv
  <2>6. PipelineTyped'
    BY <2>1, <2>3 DEF PipelineInv, PipelineTyped, Writes
  <2>. QED
    BY <2>1, <2>2, <2>3, <2>5, <2>6 DEF PipelineInv, Stored
<1>2. CASE SourceCommitNext
  <2>1. PICK w \in Workers : Client(w) \/ Step(w) \/ Outage(w) \/ Crash(w)
    BY <1>2 DEF SourceCommitNext
  <2>2. OnlyMoves(w) /\ Locals(w)' /\ [Next]_imVars /\ Writes /\ Stored'
    BY <2>1, WorkerStored DEF Settles
  <2>3. IndInv'
    BY <2>2, StepIndInv DEF PipelineInv
  <2>4. Grows
    BY <2>2, KnownGrows DEF Grows, Writes, PipelineInv, IndInv
  <2>5. \A u \in Workers : Locals(u)'
    BY <2>2, <2>4, OthersKeepLocals DEF PipelineInv, OnlyMoves
  <2>6. PipelineTyped'
    BY <2>2 DEF OnlyMoves, PipelineTyped, Writes
  <2>. QED
    BY <2>2, <2>3, <2>5, <2>6 DEF PipelineInv, Stored
<1>. QED
  BY <1>1, <1>2

\* The invariant of the pipeline, without a word about the lock.
THEOREM PipelineInvariant == SourceCommitSpec => []PipelineInv
<1>1. PipelineInv /\ [SourceCommitNext]_scVars => PipelineInv'
  BY StepPipelineInv
<1>. QED
  BY <1>1, InitPipelineInv, PTL DEF SourceCommitSpec

\* The pipeline runs the manifest's operations and nothing else, so what is proved
\* of the manifest holds of it, whatever crashes and however many processes run.
THEOREM PipelineImplementsManifest == SourceCommitSpec => Spec
<1>1. SourceCommitInit => Init
  BY DEF SourceCommitInit
<1>2. PipelineInv /\ [SourceCommitNext]_scVars => [Next]_imVars
  BY StepPipelineInv
<1>. QED
  BY <1>1, <1>2, PipelineInvariant, PTL DEF SourceCommitSpec, Spec

\* A verified snapshot is what a build of it would verify today: the drafts and
\* decisions it was derived from never change again.
THEOREM EvidenceStaysTrue == SourceCommitSpec => []EvidenceMatchesContent
<1>1. PipelineInv => EvidenceMatchesContent
  BY DEF PipelineInv, EvidenceIsSettled, EvidenceMatchesContent
<1>. QED
  BY <1>1, PipelineInvariant, PTL

\* The snapshot queries are sent to is whole in HydraDB.
THEOREM ServedGraphIsWhole == SourceCommitSpec => []ServedGraphIsComplete
<1>1. PipelineInv => ServedGraphIsComplete
  BY NoneIsNull DEF PipelineInv, VerifiedIsWhole, ServedGraphIsComplete, IndInv, TypeOK, PointerNamesTheActive,
     EvidenceStates
<1>. QED
  BY <1>1, PipelineInvariant, PTL

-----------------------------------------------------------------------------
(***************************************************************************)
(* Under one lock file nothing a worker has read moves under it.           *)
(***************************************************************************)

InLock(w) == pc[w] \notin {"idle", "declare", "acquire"}

\* Whoever is past Acquire holds the lock file of its process.
LockInv ==
  /\ lockFile \in [Workers -> LockFiles]
  /\ lock \in [LockFiles -> Workers \cup {None}]
  /\ \A w \in Workers : InLock(w) => lock[lockFile[w]] = w

\* The loop knows the state of its revision, and runs no stage of a blocked one.
LoopReads(w) ==
  LET c == call[w] IN
  /\ pc[w] = "loop" => state[c.revision] = c.at /\ (~blocked[c.revision] \/ AtTarget(w))
  /\ InStage(w) => ~blocked[c.revision]
  /\ InStage(w) /\ c.stage # "COMMITTED" => state[c.revision] = c.at
  /\ c.stage = "COMMITTED" =>
       state[c.revision] = IF pc[w] \in {"confirm", "report", "advance"} THEN "COMMITTED" ELSE "CONSOLIDATED"

\* commitScopeInternal's coverage, pointer, version and snapshot are those of now.
ScopeReads(w) ==
  LET c == call[w] IN
  /\ pc[w] \in {"view", "generation", "register", "build", "readback", "version", "swap"}
       /\ c.stage # "CONSOLIDATED" => c.cover = Committed \cup PendingCommit
  /\ pc[w] \in {"list", "view", "generation", "register", "build", "readback", "version", "swap"}
       /\ c.stage # "CONSOLIDATED" => PendingCommit # {} /\ c.active = pointer
  /\ pc[w] = "report" => c.active = pointer
  /\ pc[w] \in {"version", "swap"} => snapState[Target(w)] = "VERIFIED"
  /\ pc[w] = "swap" => c.version = manifestVersion

\* A call that repairs after its own loop has committed its revision.
RepairsCommitted(w) ==
  call[w].stage = "REPAIR" /\ call[w].revision # None => state[call[w].revision] = "COMMITTED"

LockedLocal(w) == RepairsCommitted(w) /\ (InLock(w) => LoopReads(w) /\ ScopeReads(w))

\* What was once active is committed.
ServedAreCommitted ==
  \A s \in Snapshots : snapState[s] \in {"ACTIVE", "SUPERSEDED"} => s.commits \subseteq Committed

LockedInv ==
  /\ PipelineInv
  /\ LockInv
  /\ OneLockFile
  /\ CommittedIsVisible
  /\ ServedAreCommitted
  /\ \A w \in Workers : LockedLocal(w)

WorkerStep(w) == Client(w) \/ Step(w) \/ Outage(w) \/ Crash(w)

\* What a worker outside the lock does to the manifest, as far as others read it.
Undisturbed ==
  /\ \A r \in Known : state'[r] = state[r] /\ blocked'[r] = blocked[r]
  /\ \A r \in Revisions : state[r] = None => state'[r] \in {None, "RECEIVED"}
  /\ UNCHANGED <<manifestVersion, pointer, snapState>>

\* The steps that need no lock.
Unlocked(w) ==
  \/ \E r \in Revisions, g \in Generations, t \in Targets : CallIngest(w, r, g, t)
  \/ \E g \in Generations : CallRepair(w, g)
  \/ Declare(w) \/ Acquire(w) \/ Contend(w) \/ Crash(w)

LEMMA LockedSteps ==
  ASSUME NEW w \in Workers, WorkerStep(w), ~Unlocked(w)
  PROVE  InLock(w)
<1>1. CASE \/ Enter(w) \/ Blocked(w) \/ RunStage(w) \/ Extract(w) \/ StoreArtifact(w) \/ WriteIndex(w)
           \/ Decide(w) \/ StoreDecisions(w) \/ AdvanceStage(w) \/ Survey(w) \/ ListRevisions(w)
  BY <1>1 DEF InLock, Enter, Blocked, RunStage, Extract, StoreArtifact, WriteIndex, Decide, StoreDecisions,
     AdvanceStage, Survey, ListRevisions
<1>2. CASE \/ StoreCanonicalView(w) \/ StoreIndexGeneration(w) \/ RegisterSnapshot(w) \/ WriteGraph(w)
           \/ Rebuild(w) \/ VerifyReadBack(w) \/ ReadVersion(w) \/ Swap(w) \/ SwapAgain(w) \/ Confirm(w)
           \/ ReturnToLoop(w) \/ LeaveLoop(w) \/ Report(w) \/ AdvanceRefused(w)
  BY <1>2 DEF InLock, StoreCanonicalView, StoreIndexGeneration, RegisterSnapshot, WriteGraph, Rebuild,
     VerifyReadBack, ReadVersion, Swap, SwapAgain, Confirm, ReturnToLoop, LeaveLoop, Report, AdvanceRefused
<1>3. CASE StageRefused(w) \/ StageRetryable(w) \/ Outage(w)
  BY <1>3 DEF InLock, StageRefused, StageRetryable, Refused, LostRace, Outage
<1>. QED
  BY <1>1, <1>2, <1>3 DEF WorkerStep, Unlocked, Client, Step

LEMMA UnlockedDisturbNothing ==
  ASSUME TypeOK, NEW w \in Workers, Unlocked(w)
  PROVE  Undisturbed
<1>1. ASSUME NEW r \in Revisions, NEW g \in Generations, NEW t \in Targets, CallIngest(w, r, g, t)
      PROVE  Undisturbed
  <2>1. CASE Begin(r)
    BY <2>1 DEF Begin, Undisturbed, Known, TypeOK, snapshotVars, pointerVars
  <2>2. CASE UNCHANGED imVars
    BY <2>2 DEF Undisturbed, Known, imVars, revisionVars, manifestVars, snapshotVars, pointerVars
  <2>. QED
    BY <1>1, <2>1, <2>2 DEF CallIngest
<1>2. CASE Declare(w)
  BY <1>2 DEF Declare, StoreGeneration, Undisturbed, Known, revisionVars, manifestVars, snapshotVars, pointerVars
<1>3. CASE UNCHANGED imVars
  BY <1>3 DEF Undisturbed, Known, imVars, revisionVars, manifestVars, snapshotVars, pointerVars
<1>. QED
  BY <1>1, <1>2, <1>3 DEF Unlocked, CallRepair, Acquire, Contend, Crash

LEMMA UndisturbedSets ==
  ASSUME TypeOK, Undisturbed
  PROVE  Committed' = Committed /\ PendingCommit' = PendingCommit /\ Known \subseteq Known'
<1>1. \A r \in Revisions : state[r] # None <=> r \in Known
  BY DEF Known
<1>2. \A r \in Revisions : state'[r] = "COMMITTED" <=> state[r] = "COMMITTED"
  BY <1>1, NoneIsNull DEF Undisturbed, IngestStates
<1>3. \A r \in Revisions : r \in PendingCommit' <=> r \in PendingCommit
  BY <1>1, NoneIsNull DEF Undisturbed, IngestStates, PendingCommit, Known
<1>4. \A r \in Known : r \in Known'
  BY <1>1 DEF Undisturbed, Known
<1>5. PendingCommit \subseteq Revisions /\ PendingCommit' \subseteq Revisions
  BY DEF PendingCommit, Known
<1>. QED
  BY <1>2, <1>3, <1>4, <1>5 DEF Committed

\* The lock is taken free, and released with the place inside it.
LEMMA LockMoves ==
  ASSUME NEW w \in Workers, WorkerStep(w)
  PROVE  /\ UNCHANGED lockFile
         /\ \/ UNCHANGED lock /\ InLock(w)
            \/ UNCHANGED lock /\ \E where \in {"declare", "acquire"} : Go(w, where)
            \/ Acquire(w)
            \/ Unlock(w) /\ \E where \in {"idle", "acquire"} : Go(w, where)
<1>1. CASE Unlocked(w)
  BY <1>1 DEF Unlocked, CallIngest, CallRepair, Declare, Acquire, Contend, Crash, End, contentVars, fixedVars
<1>2. CASE ~Unlocked(w)
  <2>1. InLock(w)
    BY <1>2, LockedSteps
  <2>2. CASE \/ Enter(w) \/ RunStage(w) \/ Extract(w) \/ StoreArtifact(w) \/ WriteIndex(w)
             \/ Decide(w) \/ StoreDecisions(w) \/ AdvanceStage(w) \/ Survey(w) \/ ListRevisions(w)
    BY <2>1, <2>2 DEF Enter, RunStage, Extract, StoreArtifact, WriteIndex, Decide, StoreDecisions,
       AdvanceStage, Survey, ListRevisions, contentVars, fixedVars
  <2>3. CASE \/ StoreCanonicalView(w) \/ StoreIndexGeneration(w) \/ RegisterSnapshot(w) \/ WriteGraph(w)
             \/ Rebuild(w) \/ VerifyReadBack(w) \/ ReadVersion(w) \/ Swap(w) \/ SwapAgain(w) \/ Confirm(w)
             \/ ReturnToLoop(w)
    BY <2>1, <2>3 DEF StoreCanonicalView, StoreIndexGeneration, RegisterSnapshot, WriteGraph, Rebuild,
       VerifyReadBack, ReadVersion, Swap, SwapAgain, Confirm, ReturnToLoop, contentVars, fixedVars
  <2>4. CASE \/ Blocked(w) \/ LeaveLoop(w) \/ Report(w) \/ AdvanceRefused(w)
             \/ StageRefused(w) \/ StageRetryable(w) \/ Outage(w)
    BY <2>4 DEF Blocked, LeaveLoop, Report, AdvanceRefused, StageRefused, StageRetryable, Outage, Fail, End,
       Recall, contentVars, fixedVars
  <2>. QED
    BY <1>2, <2>2, <2>3, <2>4 DEF WorkerStep, Unlocked, Client, Step
<1>. QED
  BY <1>1, <1>2

LEMMA StepLockInv ==
  ASSUME PipelineTyped, LockInv, NEW w \in Workers, WorkerStep(w), OnlyMoves(w)
  PROVE  LockInv'
<1>. SUFFICES /\ lock' \in [LockFiles -> Workers \cup {None}]
              /\ \A u \in Workers : InLock(u)' => lock'[lockFile[u]] = u
  BY LockMoves DEF LockInv
<1>0. \A u \in Workers : lockFile[u] \in LockFiles
  BY DEF LockInv
<1>1. CASE UNCHANGED lock /\ InLock(w)
  BY <1>1 DEF LockInv, OnlyMoves, InLock
<1>2. CASE UNCHANGED lock /\ \E where \in {"declare", "acquire"} : Go(w, where)
  BY <1>2 DEF LockInv, OnlyMoves, InLock, Go, PipelineTyped
<1>3. CASE Acquire(w)
  <2>1. lock[lockFile[w]] = None /\ lock' = [lock EXCEPT ![lockFile[w]] = w]
    BY <1>3 DEF Acquire, LockFree
  <2>2. ASSUME NEW u \in Workers, InLock(u)' PROVE lock'[lockFile[u]] = u
    <3>1. CASE u = w
      BY <1>0, <2>1, <3>1 DEF LockInv
    <3>2. CASE u # w
      <4>1. lock[lockFile[u]] = u
        BY <2>2, <3>2 DEF LockInv, OnlyMoves, InLock
      <4>2. lockFile[u] # lockFile[w]
        BY <2>1, <4>1, NoneIsNoRevision
      <4>. QED
        BY <1>0, <2>1, <4>1, <4>2 DEF LockInv
    <3>. QED
      BY <3>1, <3>2
  <2>. QED
    BY <1>0, <2>1, <2>2 DEF LockInv
<1>4. CASE Unlock(w) /\ \E where \in {"idle", "acquire"} : Go(w, where)
  <2>1. lock' = [f \in LockFiles |-> IF lock[f] = w THEN None ELSE lock[f]] /\ ~InLock(w)'
    BY <1>4 DEF Unlock, Go, InLock, PipelineTyped
  <2>2. \A u \in Workers : InLock(u)' => u # w /\ lock[lockFile[u]] = u
    BY <2>1 DEF LockInv, OnlyMoves, InLock
  <2>. QED
    BY <1>0, <2>1, <2>2 DEF LockInv
<1>. QED
  BY <1>1, <1>2, <1>3, <1>4, LockMoves

\* A worker in the lock keeps what it has read while another one steps.
LEMMA OthersKeepReads ==
  ASSUME LockedInv, NEW w \in Workers, WorkerStep(w), OnlyMoves(w), [Next]_imVars,
         Committed \subseteq Committed', NEW u \in Workers, u # w
  PROVE  LockedLocal(u)'
<1>. PipelineTyped /\ TypeOK /\ Locals(u) /\ LockedLocal(u)
  BY DEF LockedInv, PipelineInv, IndInv
<1>1. call'[u] = call[u] /\ pc'[u] = pc[u]
  BY DEF OnlyMoves
<1>2. RepairsCommitted(u)'
  <2>1. call[u].revision # None => call[u].revision \in Revisions
    BY DEF Locals, CallShape, Known
  <2>. QED
    BY <1>1, <2>1 DEF LockedLocal, RepairsCommitted, Committed
<1>3. ASSUME InLock(u) PROVE LoopReads(u)' /\ ScopeReads(u)'
  <2>1. ~InLock(w)
    BY <1>3, NoneIsNoRevision DEF LockedInv, LockInv, OneLockFile
  <2>2. Undisturbed
    BY <2>1, LockedSteps, UnlockedDisturbNothing
  <2>3. /\ Committed' = Committed /\ PendingCommit' = PendingCommit
        /\ UNCHANGED <<pointer, manifestVersion, snapState>>
    BY <2>2, UndisturbedSets DEF Undisturbed
  <2>4. LoopReads(u)'
    <3>1. pc[u] = "loop" \/ call[u].stage \notin {None, "REPAIR"} => call[u].revision \in Known
      BY DEF Locals, CallShape, StageShape
    <3>2. call[u].stage = "COMMITTED" => call[u].stage \notin {None, "REPAIR"}
      BY NoneIsNull DEF IngestStates
    <3>. QED
      BY <1>1, <1>3, <2>2, <3>1, <3>2 DEF LockedLocal, LoopReads, InStage, AtTarget, Undisturbed
  <2>5. ScopeReads(u)'
    BY <1>1, <1>3, <2>3 DEF LockedLocal, ScopeReads, Target
  <2>. QED
    BY <2>4, <2>5
<1>. QED
  BY <1>1, <1>2, <1>3 DEF LockedLocal, InLock

\* The steps of a stage before its commit, and those that end a call.
LEMMA OwnLoopReads ==
  ASSUME LockedInv, NEW w \in Workers,
         \/ Acquire(w) \/ Enter(w) \/ RunStage(w) \/ Extract(w) \/ StoreArtifact(w) \/ WriteIndex(w)
         \/ Decide(w) \/ StoreDecisions(w)
  PROVE  LockedLocal(w)'
<1>. PipelineTyped /\ TypeOK /\ Locals(w) /\ call[w] \in Calls /\ LockedLocal(w)
  BY DEF LockedInv, PipelineInv, PipelineTyped, IndInv
<1>0. UNCHANGED <<state, blocked>>
  BY DEF Acquire, Enter, RunStage, Extract, StoreArtifact, WriteIndex, Decide, StoreDecisions, imVars, revisionVars
<1>. USE DEF LockedLocal, RepairsCommitted, InLock, LoopReads, ScopeReads, InStage
<1>1. CASE Acquire(w)
  <2>1. /\ pc[w] = "acquire" /\ UNCHANGED call
        /\ pc'[w] = IF call[w].stage = "REPAIR" THEN "survey" ELSE "enter"
    BY <1>1 DEF Acquire, Go, PipelineTyped
  <2>2. call[w].stage \in {None, "REPAIR"}
    BY <2>1 DEF Locals, CallShape
  <2>. QED
    BY <1>0, <2>1, <2>2, NoneIsNull DEF IngestStates
<1>2. CASE Enter(w)
  <2>1. /\ pc[w] = "enter" /\ MayRetry(call[w].revision, Position[state[call[w].revision]] >= Position[call[w].target])
        /\ call'[w] = [call[w] EXCEPT !.at = state[call[w].revision]] /\ pc'[w] = "loop"
    BY <1>2 DEF Enter, Recall, Go, PipelineTyped
  <2>2. call[w].stage = None
    BY <2>1 DEF Locals, CallShape
  <2>3. /\ call'[w].stage = None /\ call'[w].revision = call[w].revision /\ call'[w].target = call[w].target
        /\ call'[w].at = state[call[w].revision]
    BY <2>1, <2>2 DEF Calls
  <2>. QED
    BY <1>0, <2>1, <2>3, NoneIsNull DEF IngestStates, MayRetry, AtTarget
<1>3. CASE RunStage(w)
  <2>. DEFINE to == Successor[call[w].at]
  <2>1. /\ pc[w] = "loop" /\ ~AtTarget(w)
        /\ call' = [call EXCEPT ![w] = [call[w] EXCEPT !.stage = to]]
        /\ pc' = [pc EXCEPT ![w] = CASE to = "SOURCE_DURABLE" -> "advance"
                                     [] to = "INDEXED"        -> "extract"
                                     [] to = "ENRICHED"       -> "decide"
                                     [] to = "CONSOLIDATED"   -> "list"
                                     [] to = "COMMITTED"      -> "survey"]
    BY <1>3 DEF RunStage, Recall, Go
  <2>2. call[w].at \in DOMAIN Successor
    <3>1. call[w].at \in IngestStates /\ call[w].target \in {"INDEXED", "COMMITTED"}
      BY <2>1, TargetsAreStages DEF Locals, CallShape, Known
    <3>2. Position["COMMITTED"] = 5 /\ Position["INDEXED"] = 2
      BY DEF Position, IngestStates
    <3>3. call[w].at # "COMMITTED"
      BY <2>1, <3>1, <3>2 DEF AtTarget
    <3>. QED
      BY <3>1, <3>3 DEF Successor
  <2>3. /\ to \in {"SOURCE_DURABLE", "INDEXED", "ENRICHED", "CONSOLIDATED", "COMMITTED"}
        /\ to = "COMMITTED" => call[w].at = "CONSOLIDATED"
    BY <2>2 DEF Successor, IngestStates
  <2>. HIDE DEF to
  <2>4. /\ to = "SOURCE_DURABLE" => pc'[w] = "advance"
        /\ to = "INDEXED" => pc'[w] = "extract"
        /\ to = "ENRICHED" => pc'[w] = "decide"
        /\ to = "CONSOLIDATED" => pc'[w] = "list"
        /\ to = "COMMITTED" => pc'[w] = "survey"
    BY <2>1 DEF PipelineTyped
  <2>5. call'[w].stage = to /\ call'[w].at = call[w].at /\ call'[w].revision = call[w].revision
    BY <2>1 DEF PipelineTyped, Calls
  <2>6. state[call[w].revision] = call[w].at /\ ~blocked[call[w].revision]
    BY <2>1
  <2>. QED
    BY <1>0, <2>3, <2>4, <2>5, <2>6
<1>4. CASE Extract(w) \/ StoreArtifact(w) \/ WriteIndex(w) \/ Decide(w) \/ StoreDecisions(w)
  <2>1. pc[w] \in {"extract", "store", "index", "decide", "resolve"}
    BY <1>4 DEF Extract, StoreArtifact, WriteIndex, Decide, StoreDecisions
  <2>2. call[w].stage \in {"INDEXED", "ENRICHED"}
    BY <2>1 DEF Locals, StageShape
  <2>3. \/ UNCHANGED call
        \/ \E x : call' = [call EXCEPT ![w] = [call[w] EXCEPT !.answer = x]]
    BY <1>4 DEF Extract, StoreArtifact, WriteIndex, Decide, StoreDecisions, Recall
  <2>4. PICK where \in {"store", "index", "advance", "resolve"} : Go(w, where)
    BY <1>4 DEF Extract, StoreArtifact, WriteIndex, Decide, StoreDecisions, Recall, AfterExtract
  <2>5. call'[w].stage = call[w].stage /\ call'[w].at = call[w].at /\ call'[w].revision = call[w].revision
    BY <2>3 DEF PipelineTyped, Calls
  <2>6. pc'[w] = where
    BY <2>4 DEF Go, PipelineTyped
  <2>. QED
    BY <1>0, <2>1, <2>2, <2>4, <2>5, <2>6
<1>. QED
  BY <1>1, <1>2, <1>3, <1>4

LEMMA EndReads ==
  ASSUME PipelineTyped, NEW w \in Workers, End(w)
  PROVE  LockedLocal(w)'
<1>1. pc'[w] = "idle" /\ call'[w] = NoCall
  BY DEF End, Go, PipelineTyped
<1>. QED
  BY <1>1 DEF LockedLocal, RepairsCommitted, InLock, NoCall

LEMMA OwnEndReads ==
  ASSUME LockedInv, NEW w \in Workers,
         \/ Contend(w) \/ Blocked(w) \/ LeaveLoop(w) \/ Report(w) \/ AdvanceRefused(w) \/ Crash(w)
         \/ StageRefused(w) \/ StageRetryable(w) \/ Outage(w)
         \/ \E g \in Generations : CallRepair(w, g)
         \/ Declare(w)
         \/ \E r \in Revisions, g \in Generations, t \in Targets : CallIngest(w, r, g, t)
  PROVE  LockedLocal(w)'
<1>. PipelineTyped /\ TypeOK /\ Locals(w) /\ call[w] \in Calls /\ LockedLocal(w)
  BY DEF LockedInv, PipelineInv, PipelineTyped, IndInv
<1>1. CASE End(w)
  BY <1>1, EndReads
<1>2. CASE LeaveLoop(w) /\ Recall(w, "stage", "REPAIR", "acquire")
  <2>1. \/ pc[w] = "loop" /\ AtTarget(w) /\ UNCHANGED state /\ call[w].target # "INDEXED"
        \/ End(w)
    BY <1>2 DEF LeaveLoop, imVars, revisionVars
  <2>2. call'[w].revision = call[w].revision /\ pc'[w] = "acquire"
    BY <1>2 DEF Recall, Go, PipelineTyped, Calls
  <2>3. call'[w].revision # None => End(w) \/ state'[call[w].revision] = "COMMITTED"
    <3>1. CASE End(w)
      BY <3>1
    <3>2. CASE pc[w] = "loop" /\ AtTarget(w) /\ UNCHANGED state /\ call[w].target # "INDEXED"
      <4>1. call[w].target = "COMMITTED" /\ call[w].at \in IngestStates
        BY <3>2, TargetsAreStages DEF Locals, CallShape
      <4>2. call[w].at = "COMMITTED"
        BY <3>2, <4>1 DEF AtTarget, Position, IngestStates
      <4>. QED
        BY <3>2, <4>2 DEF LockedLocal, InLock, LoopReads
    <3>. QED
      BY <2>1, <3>1, <3>2
  <2>. QED
    BY <2>2, <2>3, EndReads DEF LockedLocal, RepairsCommitted, InLock
<1>3. ASSUME NEW g \in Generations, CallRepair(w, g) PROVE LockedLocal(w)'
  <2>1. call'[w] = [NoCall EXCEPT !.generation = g, !.stage = "REPAIR"] /\ pc'[w] = "acquire"
    BY <1>3 DEF CallRepair, Go, PipelineTyped
  <2>. QED
    BY <2>1 DEF NoCall, LockedLocal, RepairsCommitted, InLock
<1>4. ASSUME NEW r \in Revisions, NEW g \in Generations, NEW t \in Targets, CallIngest(w, r, g, t)
      PROVE  LockedLocal(w)'
  <2>1. call'[w] = [NoCall EXCEPT !.revision = r, !.generation = g, !.target = t] /\ pc'[w] = "declare"
    BY <1>4 DEF CallIngest, Go, PipelineTyped
  <2>2. call'[w].stage = None
    BY <2>1 DEF NoCall
  <2>. QED
    BY <2>1, <2>2, NoneIsNoRevision DEF LockedLocal, RepairsCommitted, InLock
<1>5. CASE Declare(w)
  <2>1. call'[w] = call[w] /\ pc'[w] = "acquire" /\ UNCHANGED state
    BY <1>5 DEF Declare, Go, PipelineTyped, StoreGeneration, revisionVars
  <2>. QED
    BY <2>1 DEF LockedLocal, RepairsCommitted, InLock
<1>. QED
  BY <1>1, <1>2, <1>3, <1>4, <1>5
     DEF Contend, Blocked, LeaveLoop, Report, AdvanceRefused, Crash, StageRefused, StageRetryable, Outage, Fail

LEMMA OwnAdvanceReads ==
  ASSUME LockedInv, NEW w \in Workers, AdvanceStage(w)
  PROVE  /\ LockedLocal(w)'
         /\ Committed' = Committed
         /\ UNCHANGED <<pointer, snapState>>
<1>. DEFINE r == call[w].revision
<1>. PipelineTyped /\ TypeOK /\ Locals(w) /\ call[w] \in Calls /\ LockedLocal(w)
  BY DEF LockedInv, PipelineInv, PipelineTyped, IndInv
<1>1. /\ pc[w] = "advance" /\ ~blocked[r]
      /\ \/ state[r] = call[w].stage /\ UNCHANGED imVars
         \/ state[r] = call[w].at /\ Advance(r)
      /\ call'[w] = [NoCall EXCEPT !.revision = r, !.generation = call[w].generation,
                                   !.target = call[w].target, !.at = call[w].stage]
      /\ pc'[w] = "loop"
  BY DEF AdvanceStage, Go, PipelineTyped
<1>2. call'[w].revision = r /\ call'[w].at = call[w].stage /\ call'[w].stage = None
  BY <1>1 DEF NoCall
<1>3. /\ call[w].stage \in IngestStates /\ r \in Revisions
      /\ call[w].at \in DOMAIN Successor /\ call[w].stage = Successor[call[w].at]
      /\ call[w].stage = "COMMITTED" => state[r] = "COMMITTED"
  <2>1. call[w].stage \in IngestStates
    BY <1>1 DEF Locals, StageShape
  <2>2. call[w].stage \notin {None, "REPAIR"}
    BY <2>1, NoneIsNull DEF IngestStates
  <2>. QED
    BY <1>1, <2>1, <2>2 DEF Locals, CallShape, StageShape, Known, LockedLocal, InLock, LoopReads
<1>4. state'[r] = call[w].stage /\ ~blocked'[r] /\ Committed' = Committed /\ UNCHANGED <<pointer, snapState>>
  <2>1. CASE UNCHANGED imVars /\ state[r] = call[w].stage
    BY <1>1, <2>1 DEF imVars, revisionVars, snapshotVars, pointerVars, Committed
  <2>2. CASE state[r] = call[w].at /\ Advance(r)
    <3>1. call[w].stage # "COMMITTED" /\ state[r] # "COMMITTED"
      BY <1>3, <2>2 DEF Successor
    <3>2. /\ state' = [state EXCEPT ![r] = call[w].stage]
          /\ blocked' = [blocked EXCEPT ![r] = FALSE]
          /\ UNCHANGED <<pointer, snapState>>
      BY <1>3, <2>2 DEF Advance, snapshotVars, pointerVars
    <3>. QED
      BY <1>3, <3>1, <3>2 DEF TypeOK, Committed
  <2>. QED
    BY <1>1, <2>1, <2>2
<1>. QED
  BY <1>1, <1>2, <1>4, NoneIsNull, NoneIsNoRevision DEF LockedLocal, RepairsCommitted, InLock, LoopReads, ScopeReads, InStage, IngestStates

\* From the survey to the listed coverage, and from the read-back to the answer.
LEMMA OwnScopeReads ==
  ASSUME LockedInv, NEW w \in Workers,
         \/ Survey(w) \/ ListRevisions(w) \/ Rebuild(w) \/ ReadVersion(w) \/ Confirm(w) \/ ReturnToLoop(w)
         \/ WriteGraph(w)
  PROVE  LockedLocal(w)'
<1>. PipelineTyped /\ TypeOK /\ Locals(w) /\ call[w] \in Calls /\ LockedLocal(w) /\ IndInv
  BY DEF LockedInv, PipelineInv, PipelineTyped, IndInv
<1>0. UNCHANGED <<state, blocked, pointer, snapState, manifestVersion>>
  BY DEF Survey, ListRevisions, Rebuild, ReadVersion, Confirm, ReturnToLoop, WriteGraph,
     imVars, revisionVars, pointerVars, snapshotVars, manifestVars
<1>00. Committed' = Committed /\ PendingCommit' = PendingCommit
  BY <1>0 DEF Committed, PendingCommit, Known
<1>. USE DEF LockedLocal, RepairsCommitted, InLock, LoopReads, ScopeReads, InStage
<1>1. CASE Survey(w)
  <2>1. pc[w] = "survey" /\ call[w].stage \in {"COMMITTED", "REPAIR"}
    BY <1>1 DEF Survey, Locals, StageShape
  <2>2. call[w].stage = "COMMITTED" => PendingCommit # {}
    <3>. SUFFICES ASSUME call[w].stage = "COMMITTED" PROVE call[w].revision \in PendingCommit
      OBVIOUS
    <3>1. call[w].revision \in Known
      BY <2>1, NoneIsNull DEF Locals, CallShape, StageShape, IngestStates
    <3>. QED
      BY <2>1, <3>1, NoneIsNull DEF PendingCommit, IngestStates
  <2>3. Committed \subseteq Coverage
    BY DEF LockedInv, CommittedIsVisible
  <2>4. PICK where \in {"list", "report"} :
          /\ Recall(w, "active", pointer, where)
          /\ where = "list" <=> PendingCommit # {}
    BY <1>1, <2>3 DEF Survey
  <2>5. call'[w] = [call[w] EXCEPT !.active = pointer] /\ pc'[w] = where
    BY <2>4 DEF Recall, Go, PipelineTyped
  <2>6. /\ call'[w].active = pointer /\ call'[w].stage = call[w].stage
        /\ call'[w].revision = call[w].revision /\ call'[w].at = call[w].at
    BY <2>5 DEF Calls
  <2>. HIDE DEF PendingCommit, Committed
  <2>. QED
    BY <1>0, <1>00, <2>1, <2>2, <2>4, <2>5, <2>6
<1>2. CASE ListRevisions(w)
  <2>. DEFINE cover == CoveredRevisions(w)
  <2>1. pc[w] = "list"
    BY <1>2 DEF ListRevisions
  <2>2. /\ cover # {}
        /\ call[w].stage # "CONSOLIDATED" => cover = Committed \cup PendingCommit
    BY <2>1 DEF CoveredRevisions, Own
  <2>3. call'[w] = [call[w] EXCEPT !.cover = cover] /\ pc'[w] = "view"
    BY <1>2, <2>2 DEF ListRevisions, Recall, Go, PipelineTyped
  <2>. HIDE DEF cover
  <2>4. /\ call'[w].cover = cover /\ call'[w].active = call[w].active /\ call'[w].stage = call[w].stage
        /\ call'[w].revision = call[w].revision /\ call'[w].at = call[w].at
    BY <2>3 DEF Calls
  <2>. QED
    BY <1>0, <1>00, <2>1, <2>2, <2>3, <2>4
<1>3. CASE WriteGraph(w)
  <2>1. pc[w] = "build" /\ pc'[w] = "readback" /\ UNCHANGED call
    BY <1>3 DEF WriteGraph, Go, PipelineTyped
  <2>. QED
    BY <1>0, <1>00, <2>1
<1>4. CASE Rebuild(w)
  <2>. DEFINE s == Target(w)
  <2>1. /\ pc[w] = "build" /\ UNCHANGED call /\ snapState[s] # "BUILDING" /\ evidence[s] = Digest(call[w].cover)
        /\ pc'[w] = IF call[w].stage = "CONSOLIDATED" THEN "advance" ELSE "version"
    BY <1>4 DEF Rebuild, Go, AfterBuild, PipelineTyped
  <2>2. s \in Snapshots /\ s.commits = call[w].cover /\ call[w].cover \in SUBSET Revisions
    BY <2>1, TargetIsSnapshot, SnapshotFields DEF LockedInv, Covering
  <2>3. call[w].stage # "CONSOLIDATED" => snapState[s] = "VERIFIED"
    <3>. SUFFICES ASSUME call[w].stage # "CONSOLIDATED" PROVE snapState[s] = "VERIFIED"
      OBVIOUS
    <3>1. Digest(call[w].cover) \in Digests
      BY <2>1, <2>2, DigestIsEvidence DEF Locals, ContentShape, Covering
    <3>2. snapState[s] \in EvidenceStates
      BY <2>1, <2>2, <3>1, NoneIsNull DEF IndInv, EvidenceMatchesState
    <3>3. ~(call[w].cover \subseteq Committed)
      BY <2>1 DEF PendingCommit, Committed
    <3>4. snapState[s] \notin {"ACTIVE", "SUPERSEDED"}
      BY <2>2, <3>3 DEF LockedInv, ServedAreCommitted
    <3>. QED
      BY <3>2, <3>4 DEF EvidenceStates
  <2>4. Target(w)' = s
    BY <2>1 DEF Target
  <2>. HIDE DEF s
  <2>. QED
    BY <1>0, <1>00, <2>1, <2>3, <2>4
<1>5. CASE ReadVersion(w)
  <2>1. pc[w] = "version" /\ call'[w] = [call[w] EXCEPT !.version = manifestVersion] /\ pc'[w] = "swap"
    BY <1>5 DEF ReadVersion, Recall, Go, PipelineTyped
  <2>2. /\ call'[w].version = manifestVersion /\ call'[w].active = call[w].active /\ call'[w].stage = call[w].stage
        /\ call'[w].revision = call[w].revision /\ call'[w].at = call[w].at /\ call'[w].cover = call[w].cover
        /\ call'[w].generation = call[w].generation
    BY <2>1 DEF Calls
  <2>3. Target(w)' = Target(w)
    BY <2>2 DEF Target
  <2>. QED
    BY <1>0, <1>00, <2>1, <2>2, <2>3
<1>6. CASE Confirm(w)
  <2>1. pc[w] = "confirm" /\ call'[w] = [call[w] EXCEPT !.active = pointer] /\ pc'[w] = "report"
    BY <1>6 DEF Confirm, Recall, Go, PipelineTyped
  <2>2. /\ call'[w].active = pointer /\ call'[w].stage = call[w].stage
        /\ call'[w].revision = call[w].revision /\ call'[w].at = call[w].at
    BY <2>1 DEF Calls
  <2>. QED
    BY <1>0, <1>00, <2>1, <2>2
<1>7. CASE ReturnToLoop(w)
  <2>1. pc[w] = "report" /\ pc'[w] = "advance" /\ UNCHANGED call
    BY <1>7 DEF ReturnToLoop, Go, PipelineTyped
  <2>. QED
    BY <1>0, <1>00, <2>1
<1>. QED
  BY <1>1, <1>2, <1>3, <1>4, <1>5, <1>6, <1>7

\* The catalog, the registration and the verification of a snapshot.
LEMMA OwnSnapshotReads ==
  ASSUME LockedInv, NEW w \in Workers,
         StoreCanonicalView(w) \/ StoreIndexGeneration(w) \/ RegisterSnapshot(w) \/ VerifyReadBack(w)
  PROVE  /\ LockedLocal(w)'
         /\ Committed' = Committed
         /\ UNCHANGED pointer
         /\ \A s \in Snapshots : snapState'[s] \in {"ACTIVE", "SUPERSEDED"} => snapState[s] = snapState'[s]
<1>. DEFINE s == Target(w)
<1>. PipelineTyped /\ TypeOK /\ Locals(w) /\ call[w] \in Calls /\ LockedLocal(w) /\ IndInv
  BY DEF LockedInv, PipelineInv, PipelineTyped, IndInv
<1>0. /\ UNCHANGED <<state, blocked, pointer, manifestVersion, call>>
      /\ pc[w] \in {"view", "generation", "register", "readback"}
  BY DEF StoreCanonicalView, StoreIndexGeneration, RegisterSnapshot, VerifyReadBack, StoreView, StoreGeneration,
     Register, Verify, imVars, revisionVars, pointerVars, manifestVars
<1>00. Committed' = Committed /\ PendingCommit' = PendingCommit /\ Target(w)' = s
  BY <1>0 DEF Committed, PendingCommit, Known, Target
<1>1. s \in Snapshots
  BY <1>0, TargetIsSnapshot DEF LockedInv, Covering
<1>. HIDE DEF s
<1>2. \/ UNCHANGED snapState
      \/ snapState' = [snapState EXCEPT ![s] = "BUILDING"]
      \/ snapState' = [snapState EXCEPT ![s] = "VERIFIED"]
  BY DEF StoreCanonicalView, StoreIndexGeneration, RegisterSnapshot, VerifyReadBack, StoreView, StoreGeneration,
     Register, Verify, s, imVars, snapshotVars
<1>3. \A x \in Snapshots : snapState'[x] \in {"ACTIVE", "SUPERSEDED"} => snapState[x] = snapState'[x]
  BY <1>1, <1>2 DEF TypeOK
<1>4. PICK where \in {"generation", "register", "build", "version", "advance"} :
        /\ Go(w, where)
        /\ where = "advance" => call[w].stage = "CONSOLIDATED"
        /\ where = "version" => snapState'[s] = "VERIFIED"
  <2>1. VerifyReadBack(w) => snapState'[s] = "VERIFIED"
    BY <1>1 DEF VerifyReadBack, Verify, s, imVars, snapshotVars, TypeOK
  <2>2. CASE VerifyReadBack(w)
    BY <2>1, <2>2 DEF VerifyReadBack, AfterBuild
  <2>3. CASE StoreCanonicalView(w) \/ StoreIndexGeneration(w) \/ RegisterSnapshot(w)
    BY <2>3 DEF StoreCanonicalView, StoreIndexGeneration, RegisterSnapshot
  <2>. QED
    BY <2>2, <2>3
<1>5. pc'[w] = where
  BY <1>4 DEF Go, PipelineTyped
<1>6. LockedLocal(w)'
  BY <1>0, <1>00, <1>4, <1>5 DEF LockedLocal, RepairsCommitted, InLock, LoopReads, ScopeReads, InStage
<1>. QED
  BY <1>0, <1>00, <1>3, <1>6

LEMMA OwnSwapReads ==
  ASSUME LockedInv, NEW w \in Workers, Swap(w) \/ SwapAgain(w)
  PROVE  /\ LockedLocal(w)'
         /\ CommittedIsVisible'
         /\ ServedAreCommitted'
         /\ Committed \subseteq Committed'
<1>. DEFINE s == Target(w)
            c == call[w]
<1>. PipelineTyped /\ TypeOK /\ Locals(w) /\ call[w] \in Calls /\ LockedLocal(w) /\ IndInv
  BY DEF LockedInv, PipelineInv, PipelineTyped, IndInv
<1>1. pc[w] = "swap" /\ UNCHANGED call
  BY DEF Swap, SwapAgain
<1>2. s \in Snapshots /\ s.commits = c.cover
  BY <1>1, TargetIsSnapshot DEF LockedInv, Covering
<1>3. c.stage \in {"COMMITTED", "REPAIR"} /\ snapState[s] = "VERIFIED"
  BY <1>1 DEF Locals, StageShape, LockedLocal, InLock, ScopeReads
<1>4. Swap(w)
  BY <1>3 DEF SwapAgain, Realign
<1>5. pc'[w] = "confirm" /\ CommitAndActivate(s, c.version, c.active)
  BY <1>4 DEF Swap, Go, PipelineTyped
<1>6. Committed' = s.commits /\ pointer' = s /\ Committed' = Committed \cup Pending(s)
  BY <1>2, <1>5, TerminalCommitNumbering DEF IndInv
<1>7. CommittedIsVisible'
  BY <1>2, <1>6, NoneIsNull DEF CommittedIsVisible, Coverage
<1>8. ServedAreCommitted'
  <2>. SUFFICES ASSUME NEW x \in Snapshots, snapState'[x] \in {"ACTIVE", "SUPERSEDED"}
                PROVE  x.commits \subseteq Committed'
    BY DEF ServedAreCommitted
  <2>1. snapState' = Supersede(s)
    BY <1>5 DEF CommitAndActivate
  <2>2. x = s \/ x = pointer \/ snapState[x] \in {"ACTIVE", "SUPERSEDED"}
    BY <2>1 DEF Supersede
  <2>3. x = pointer => snapState[x] = "ACTIVE"
    BY DEF IndInv, PointerNamesTheActive
  <2>. QED
    BY <1>6, <2>2, <2>3 DEF LockedInv, ServedAreCommitted
<1>9. LockedLocal(w)'
  <2>1. \A r \in Revisions : state[r] = "COMMITTED" => state'[r] = "COMMITTED"
    BY <1>6 DEF Committed
  <2>2. c.revision # None => c.revision \in Known /\ c.revision \in Revisions
    BY DEF Locals, CallShape, Known
  <2>3. c.stage = "COMMITTED" => c.revision # None /\ state'[c.revision] = "COMMITTED" /\ ~blocked'[c.revision]
    <3>. SUFFICES ASSUME c.stage = "COMMITTED"
                  PROVE  c.revision # None /\ state'[c.revision] = "COMMITTED" /\ ~blocked'[c.revision]
      OBVIOUS
    <3>1. c.revision # None
      BY NoneIsNull DEF Locals, StageShape, IngestStates
    <3>2. state[c.revision] = "CONSOLIDATED" /\ ~blocked[c.revision]
      BY <1>1, NoneIsNull DEF LockedLocal, InLock, LoopReads, InStage, IngestStates
    <3>3. c.revision \in PendingCommit
      BY <2>2, <3>1, <3>2 DEF PendingCommit
    <3>4. c.revision \in s.commits
      BY <1>1, <1>2, <3>3 DEF LockedLocal, InLock, ScopeReads
    <3>5. c.revision \in Committed'
      BY <1>6, <3>4
    <3>6. blocked' = [r \in Revisions |-> IF r \in Pending(s) THEN FALSE ELSE blocked[r]]
      BY <1>5 DEF CommitAndActivate
    <3>. QED
      BY <2>2, <3>1, <3>2, <3>5, <3>6 DEF Committed
  <2>4. RepairsCommitted(w)'
    BY <1>1, <2>1, <2>2 DEF LockedLocal, RepairsCommitted
  <2>5. LoopReads(w)'
    BY <1>1, <1>3, <1>5, <2>3 DEF LoopReads, InStage
  <2>6. ScopeReads(w)'
    BY <1>1, <1>5 DEF ScopeReads
  <2>. QED
    BY <2>4, <2>5, <2>6 DEF LockedLocal
<1>. QED
  BY <1>6, <1>7, <1>8, <1>9

\* Every step of the worker itself keeps what it has read, and what is committed
\* and what is visible move together.
LEMMA OwnStepReads ==
  ASSUME LockedInv, NEW w \in Workers, WorkerStep(w)
  PROVE  /\ LockedLocal(w)'
         /\ CommittedIsVisible'
         /\ ServedAreCommitted'
         /\ Committed \subseteq Committed'
<1>. PipelineTyped /\ TypeOK /\ LockedLocal(w)
  BY DEF LockedInv, PipelineInv, IndInv
<1>1. ASSUME Committed' = Committed, UNCHANGED pointer,
             \A s \in Snapshots : snapState'[s] \in {"ACTIVE", "SUPERSEDED"} => snapState[s] = snapState'[s]
      PROVE  CommittedIsVisible' /\ ServedAreCommitted' /\ Committed \subseteq Committed'
  BY <1>1 DEF LockedInv, CommittedIsVisible, Coverage, ServedAreCommitted
<1>2. ASSUME UNCHANGED <<state, pointer, snapState>>
      PROVE  CommittedIsVisible' /\ ServedAreCommitted' /\ Committed \subseteq Committed'
  BY <1>1, <1>2 DEF Committed
<1>3. CASE \/ Acquire(w) \/ Enter(w) \/ RunStage(w) \/ Extract(w) \/ StoreArtifact(w) \/ WriteIndex(w)
           \/ Decide(w) \/ StoreDecisions(w)
  <2>1. UNCHANGED <<state, pointer, snapState>>
    BY <1>3 DEF Acquire, Enter, RunStage, Extract, StoreArtifact, WriteIndex, Decide, StoreDecisions, imVars,
       revisionVars, pointerVars, snapshotVars
  <2>. QED
    BY <1>2, <1>3, <2>1, OwnLoopReads
<1>4. CASE Unlocked(w)
  <2>1. Committed' = Committed /\ UNCHANGED <<pointer, snapState>>
    BY <1>4, UnlockedDisturbNothing, UndisturbedSets DEF Undisturbed
  <2>. QED
    BY <1>1, <1>3, <1>4, <2>1, OwnEndReads DEF Unlocked
<1>5. CASE Blocked(w) \/ LeaveLoop(w) \/ Report(w) \/ AdvanceRefused(w) \/ StageRefused(w) \/ StageRetryable(w) \/ Outage(w)
  <2>1. UNCHANGED <<state, pointer, snapState>>
    BY <1>5 DEF Blocked, LeaveLoop, Report, AdvanceRefused, StageRefused, StageRetryable, Outage, Fail,
       RecordFailure, imVars, revisionVars, pointerVars, snapshotVars
  <2>. QED
    BY <1>2, <1>5, <2>1, OwnEndReads
<1>6. CASE AdvanceStage(w)
  BY <1>1, <1>6, OwnAdvanceReads
<1>7. CASE \/ Survey(w) \/ ListRevisions(w) \/ Rebuild(w) \/ ReadVersion(w) \/ Confirm(w) \/ ReturnToLoop(w)
           \/ WriteGraph(w)
  <2>1. UNCHANGED <<state, pointer, snapState>>
    BY <1>7 DEF Survey, ListRevisions, Rebuild, ReadVersion, Confirm, ReturnToLoop, WriteGraph, imVars,
       revisionVars, pointerVars, snapshotVars
  <2>. QED
    BY <1>2, <1>7, <2>1, OwnScopeReads
<1>8. CASE StoreCanonicalView(w) \/ StoreIndexGeneration(w) \/ RegisterSnapshot(w) \/ VerifyReadBack(w)
  BY <1>1, <1>8, OwnSnapshotReads
<1>9. CASE Swap(w) \/ SwapAgain(w)
  BY <1>9, OwnSwapReads
<1>. QED
  BY <1>3, <1>4, <1>5, <1>6, <1>7, <1>8, <1>9 DEF WorkerStep, Unlocked, Client, Step

LEMMA InitLockedInv == SourceCommitInit /\ OneLockFile => LockedInv
<1>. SUFFICES ASSUME SourceCommitInit, OneLockFile PROVE LockedInv
  OBVIOUS
<1>1. PipelineInv
  BY InitPipelineInv
<1>2. LockInv
  <2>1. \A w \in Workers : ~InLock(w)
    BY DEF SourceCommitInit, InLock
  <2>2. lockFile \in [Workers -> LockFiles]
    <3>1. lockFile \in [Workers -> {lockFile[w] : w \in Workers}] /\ lockFile \in LockNamings
      BY WorkersAndLocks DEF SourceCommitInit
    <3>2. \A w \in Workers : lockFile[w] \in LockFiles
      BY <3>1 DEF LockFiles
    <3>. QED
      BY <3>1, <3>2
  <2>. QED
    BY <2>1, <2>2 DEF SourceCommitInit, LockInv
<1>3. CommittedIsVisible
  BY NoneIsNull DEF SourceCommitInit, Init, CommittedIsVisible, Committed, Coverage, IngestStates
<1>4. ServedAreCommitted
  BY NoneIsNull DEF SourceCommitInit, Init, ServedAreCommitted, SnapshotStates
<1>5. \A w \in Workers : LockedLocal(w)
  BY DEF SourceCommitInit, LockedLocal, RepairsCommitted, InLock, NoCall
<1>. QED
  BY <1>1, <1>2, <1>3, <1>4, <1>5 DEF LockedInv

LEMMA StepLockedInv == LockedInv /\ [SourceCommitNext]_scVars => LockedInv'
<1>. SUFFICES ASSUME LockedInv, [SourceCommitNext]_scVars PROVE LockedInv'
  OBVIOUS
<1>1. PipelineInv' /\ [Next]_imVars
  BY StepPipelineInv DEF LockedInv
<1>2. CASE UNCHANGED scVars
  <2>1. UNCHANGED <<state, blocked, pointer, snapState, manifestVersion, pc, call, lock, lockFile>>
    BY <1>2 DEF scVars, contentVars, fixedVars, imVars, revisionVars, pointerVars, snapshotVars, manifestVars
  <2>2. LockInv' /\ OneLockFile'
    BY <2>1 DEF LockedInv, LockInv, InLock, OneLockFile
  <2>3. CommittedIsVisible' /\ ServedAreCommitted'
    BY <2>1 DEF LockedInv, CommittedIsVisible, Committed, Coverage, ServedAreCommitted
  <2>4. \A w \in Workers : LockedLocal(w)'
    BY <2>1 DEF LockedInv, LockedLocal, RepairsCommitted, InLock, LoopReads, ScopeReads, InStage, AtTarget, Target,
       Committed, PendingCommit, Known
  <2>. QED
    BY <1>1, <2>2, <2>3, <2>4 DEF LockedInv
<1>3. ASSUME NEW w \in Workers, WorkerStep(w) PROVE LockedInv'
  <2>1. OnlyMoves(w)
    BY <1>3, WorkerStored DEF LockedInv, WorkerStep, Settles
  <2>2. /\ LockedLocal(w)' /\ CommittedIsVisible' /\ ServedAreCommitted' /\ Committed \subseteq Committed'
    BY <1>3, OwnStepReads
  <2>3. \A u \in Workers : LockedLocal(u)'
    BY <1>1, <1>3, <2>1, <2>2, OthersKeepReads
  <2>4. LockInv'
    BY <1>3, <2>1, StepLockInv DEF LockedInv, PipelineInv
  <2>5. OneLockFile'
    BY <1>3, LockMoves DEF LockedInv, OneLockFile
  <2>. QED
    BY <1>1, <2>2, <2>3, <2>4, <2>5 DEF LockedInv
<1>. QED
  BY <1>2, <1>3 DEF SourceCommitNext, WorkerStep

\* The invariant of a pipeline whose processes share one lock file.
THEOREM LockedInvariant == SourceCommitSpec /\ OneLockFile => []LockedInv
BY InitLockedInv, StepLockedInv, PTL DEF SourceCommitSpec

\* Where the processes name the manifest alike, there is no window between
\* committing and publishing, for any number of processes, crashes and outages.
THEOREM CommittedStaysVisible == SourceCommitSpec /\ OneLockFile => []CommittedIsVisible
<1>1. LockedInv => CommittedIsVisible
  BY DEF LockedInv
<1>. QED
  BY <1>1, LockedInvariant, PTL

\* Under one lock file the compare-and-swap never meets what it guards against.
THEOREM SwapIsUncontended == SourceCommitSpec /\ OneLockFile => []SwapMeetsNoConflict
<1>1. LockedInv => SwapMeetsNoConflict
  <2>. SUFFICES ASSUME LockedInv, NEW w \in Workers, pc[w] = "swap"
                PROVE  /\ snapState[Target(w)] = "VERIFIED"
                       /\ Expected(call[w].version, call[w].active)
                       /\ ListedCommittable(Target(w)) /\ CoversScope(Target(w))
    BY DEF SwapMeetsNoConflict
  <2>1. Target(w).commits = call[w].cover
    BY TargetIsSnapshot DEF LockedInv, Covering
  <2>2. call[w].stage # "CONSOLIDATED"
    BY DEF LockedInv, PipelineInv, Locals, StageShape
  <2>3. /\ snapState[Target(w)] = "VERIFIED" /\ call[w].version = manifestVersion /\ call[w].active = pointer
        /\ call[w].cover = Committed \cup PendingCommit
    BY <2>2 DEF LockedInv, LockedLocal, InLock, ScopeReads
  <2>4. Pending(Target(w)) \subseteq PendingCommit /\ Committed \subseteq Target(w).commits
    BY <2>1, <2>3 DEF Pending
  <2>. QED
    BY <2>3, <2>4 DEF Expected, ListedCommittable, CoversScope, CoversAll, Committable, PendingCommit, Pending
<1>. QED
  BY <1>1, LockedInvariant, PTL

-----------------------------------------------------------------------------
(***************************************************************************)
(* Answers, and the types of what a client sees.                           *)
(***************************************************************************)

Outcomes == {None, "indexed", "visible", "hidden", "refused"}

Booked ==
  /\ malformed \subseteq MayBeMalformed
  /\ outcome \in [Revisions \X Targets -> Outcomes]
  /\ outages \in 0 .. MaxOutages
  /\ crashes \in 0 .. MaxCrashes
  /\ repairs \in 0 .. MaxRepairs

\* What an answer becomes, and the steps that give one.
LEMMA OutcomeMoves ==
  ASSUME PipelineInv, NEW w \in Workers, WorkerStep(w)
  PROVE  \/ UNCHANGED outcome
         \/ /\ call[w].revision \in Known /\ call[w].target \in Targets
            /\ \/ /\ Blocked(w) \/ (StageRefused(w) /\ InStage(w) /\ RecordFailure(call[w].revision, FALSE))
                  /\ outcome' = [outcome EXCEPT ![<<call[w].revision, call[w].target>>] = "refused"]
               \/ /\ LeaveLoop(w) /\ call[w].target = "INDEXED"
                  /\ outcome' = [outcome EXCEPT ![<<call[w].revision, "INDEXED">>] = "indexed"]
         \/ /\ Report(w) /\ call[w].revision \in Known
            /\ outcome' = [outcome EXCEPT ![<<call[w].revision, "COMMITTED">>] =
                             IF call[w].active # None /\ call[w].revision \in call[w].active.commits
                             THEN "visible" ELSE "hidden"]
<1>. Locals(w) /\ TypeOK
  BY DEF PipelineInv, IndInv
<1>1. CASE Unlocked(w)
  BY <1>1 DEF Unlocked, CallIngest, CallRepair, Declare, Acquire, Contend, Crash, clientVars
<1>2. CASE \/ Enter(w) \/ RunStage(w) \/ Extract(w) \/ StoreArtifact(w) \/ WriteIndex(w)
           \/ Decide(w) \/ StoreDecisions(w) \/ AdvanceStage(w) \/ Survey(w) \/ ListRevisions(w)
  BY <1>2 DEF Enter, RunStage, Extract, StoreArtifact, WriteIndex, Decide, StoreDecisions,
     AdvanceStage, Survey, ListRevisions, clientVars
<1>3. CASE \/ StoreCanonicalView(w) \/ StoreIndexGeneration(w) \/ RegisterSnapshot(w) \/ WriteGraph(w)
           \/ Rebuild(w) \/ VerifyReadBack(w) \/ ReadVersion(w) \/ Swap(w) \/ SwapAgain(w) \/ Confirm(w)
           \/ ReturnToLoop(w) \/ AdvanceRefused(w)
  BY <1>3 DEF StoreCanonicalView, StoreIndexGeneration, RegisterSnapshot, WriteGraph, Rebuild,
     VerifyReadBack, ReadVersion, Swap, SwapAgain, Confirm, ReturnToLoop, AdvanceRefused, clientVars
<1>4. CASE Blocked(w) \/ LeaveLoop(w)
  <2>1. call[w].revision \in Known /\ call[w].target \in Targets
    BY <1>4 DEF Blocked, LeaveLoop, Locals, CallShape
  <2>. QED
    BY <1>4, <2>1 DEF Blocked, LeaveLoop
<1>5. CASE Report(w)
  <2>1. call[w].revision \in Known \cup {None}
    BY DEF Locals, CallShape
  <2>. QED
    BY <1>5, <2>1 DEF Report
<1>6. CASE StageRefused(w)
  <2>1. InStage(w) => call[w].revision \in Known /\ call[w].target \in Targets
    BY DEF Locals, CallShape, StageShape, InStage
  <2>. QED
    BY <1>6, <2>1 DEF StageRefused, Fail
<1>7. CASE StageRetryable(w) \/ Outage(w)
  BY <1>7 DEF StageRetryable, Outage, Fail
<1>. QED
  BY <1>1, <1>2, <1>3, <1>4, <1>5, <1>6, <1>7 DEF WorkerStep, Unlocked, Client, Step

LEMMA CountersBounded ==
  ASSUME NEW w \in Workers, WorkerStep(w), Booked
  PROVE  /\ malformed' \subseteq MayBeMalformed
         /\ outages' \in 0 .. MaxOutages /\ crashes' \in 0 .. MaxCrashes /\ repairs' \in 0 .. MaxRepairs
<1>. DEFINE Counted == /\ UNCHANGED malformed
                       /\ UNCHANGED outages \/ (outages < MaxOutages /\ outages' = outages + 1)
                       /\ UNCHANGED crashes \/ (crashes < MaxCrashes /\ crashes' = crashes + 1)
                       /\ UNCHANGED repairs \/ (repairs < MaxRepairs /\ repairs' = repairs + 1)
<1>. SUFFICES Counted
  BY BoundsAreNat DEF Booked
<1>1. CASE Unlocked(w)
  BY <1>1 DEF Unlocked, CallIngest, CallRepair, Declare, Acquire, Contend, Crash, contentVars, fixedVars, clientVars,
     faultVars
<1>2. CASE \/ Enter(w) \/ RunStage(w) \/ Extract(w) \/ StoreArtifact(w) \/ WriteIndex(w)
           \/ Decide(w) \/ StoreDecisions(w) \/ AdvanceStage(w) \/ Survey(w) \/ ListRevisions(w)
  BY <1>2 DEF Enter, RunStage, Extract, StoreArtifact, WriteIndex, Decide, StoreDecisions,
     AdvanceStage, Survey, ListRevisions, contentVars, fixedVars, clientVars, faultVars
<1>3. CASE \/ StoreCanonicalView(w) \/ StoreIndexGeneration(w) \/ RegisterSnapshot(w) \/ WriteGraph(w)
           \/ Rebuild(w) \/ VerifyReadBack(w) \/ ReadVersion(w) \/ Swap(w) \/ SwapAgain(w) \/ Confirm(w)
           \/ ReturnToLoop(w) \/ AdvanceRefused(w)
  BY <1>3 DEF StoreCanonicalView, StoreIndexGeneration, RegisterSnapshot, WriteGraph, Rebuild,
     VerifyReadBack, ReadVersion, Swap, SwapAgain, Confirm, ReturnToLoop, AdvanceRefused, contentVars, fixedVars,
     clientVars, faultVars
<1>4. CASE Blocked(w) \/ LeaveLoop(w) \/ Report(w) \/ StageRefused(w) \/ StageRetryable(w) \/ Outage(w)
  BY <1>4 DEF Blocked, LeaveLoop, Report, StageRefused, StageRetryable, Outage, contentVars, fixedVars, faultVars
<1>. QED
  BY <1>1, <1>2, <1>3, <1>4 DEF WorkerStep, Unlocked, Client, Step

LEMMA StepBooked ==
  ASSUME PipelineInv, NEW w \in Workers, WorkerStep(w), Booked
  PROVE  Booked'
<1>1. outcome' \in [Revisions \X Targets -> Outcomes]
  BY OutcomeMoves DEF Booked, Outcomes
<1>. QED
  BY <1>1, CountersBounded DEF Booked

\* The pipeline's own state is well formed in every reachable state.
THEOREM PipelineTypeCorrect == SourceCommitSpec => []SourceCommitTypeOK
<1>. DEFINE TInv == PipelineInv /\ LockInv /\ Booked /\ lockFile \in LockNamings
<1>1. SourceCommitInit => TInv
  <2>. SUFFICES ASSUME SourceCommitInit PROVE TInv
    OBVIOUS
  <2>1. Booked
    BY BoundsAreNat DEF SourceCommitInit, Booked, Outcomes
  <2>2. lockFile \in [Workers -> {lockFile[w] : w \in Workers}] /\ lockFile \in LockNamings
    BY WorkersAndLocks DEF SourceCommitInit
  <2>3. \A w \in Workers : lockFile[w] \in LockFiles
    BY <2>2 DEF LockFiles
  <2>4. LockInv
    BY <2>2, <2>3 DEF SourceCommitInit, LockInv, InLock
  <2>. QED
    BY <2>1, <2>2, <2>4, InitPipelineInv
<1>2. TInv /\ [SourceCommitNext]_scVars => TInv'
  <2>. SUFFICES ASSUME TInv, [SourceCommitNext]_scVars PROVE TInv'
    OBVIOUS
  <2>1. PipelineInv'
    BY StepPipelineInv
  <2>2. CASE UNCHANGED scVars
    BY <2>1, <2>2 DEF scVars, contentVars, fixedVars, clientVars, faultVars, LockInv, InLock, Booked
  <2>3. ASSUME NEW w \in Workers, WorkerStep(w) PROVE TInv'
    <3>1. OnlyMoves(w) /\ PipelineTyped
      BY <2>3, WorkerStored DEF PipelineInv, WorkerStep, Settles
    <3>. QED
      BY <2>1, <2>3, <3>1, StepLockInv, StepBooked, LockMoves
  <2>. QED
    BY <2>2, <2>3 DEF SourceCommitNext, WorkerStep
<1>3. TInv => SourceCommitTypeOK
  BY DEF PipelineInv, PipelineTyped, LockInv, Booked, Outcomes, SourceCommitTypeOK
<1>. QED
  BY <1>1, <1>2, <1>3, PTL DEF SourceCommitSpec

Reached == {"INDEXED", "ENRICHED", "CONSOLIDATED", "COMMITTED"}

\* Why each answer is true, in terms of the manifest.
AnswersInv ==
  /\ Booked
  /\ \A r \in Revisions, t \in Targets :
       /\ outcome[<<r, t>>] = "visible" => r \in Committed
       /\ outcome[<<r, t>>] = "indexed" => state[r] \in Reached
       /\ outcome[<<r, t>>] # "hidden"
       /\ outcome[<<r, t>>] = "refused" => blocked[r]

LEMMA ReachedStays == TypeOK /\ [Next]_imVars => \A r \in Revisions : state[r] \in Reached => state'[r] \in Reached
<1>. SUFFICES ASSUME TypeOK, [Next]_imVars, NEW q \in Revisions, state[q] \in Reached PROVE state'[q] \in Reached
  OBVIOUS
<1>. USE DEF Reached, TypeOK
<1>1. ASSUME NEW r \in Revisions, Begin(r) PROVE state'[q] \in Reached
  BY <1>1, NoneIsNull DEF Begin, IngestStates
<1>2. ASSUME NEW r \in Revisions, Advance(r) PROVE state'[q] \in Reached
  BY <1>2 DEF Advance, MayAdvance, Successor, IngestStates
<1>3. ASSUME NEW s \in Snapshots, NEW v, NEW a, CommitAndActivate(s, v, a) PROVE state'[q] \in Reached
  BY <1>3 DEF CommitAndActivate
<1>4. CASE UNCHANGED state
  BY <1>4
<1>. QED
  BY <1>1, <1>2, <1>3, <1>4 DEF Next, RevisionStep, CatalogStep, SnapshotStep, imVars, revisionVars,
     RecordFailure, StoreGeneration, ActivateGeneration, StoreView, ActivateView, Register, Verify,
     FailSnapshot, Realign, Activate, Reopen

\* Under one lock file no step clears a terminal failure.
LEMMA BlockedStays ==
  ASSUME LockedInv, NEW w \in Workers, WorkerStep(w), NEW q \in Revisions, blocked[q]
  PROVE  blocked'[q]
<1>. TypeOK /\ LockedLocal(w) /\ Locals(w) /\ IndInv
  BY DEF LockedInv, PipelineInv, IndInv
<1>1. CASE Unlocked(w)
  BY <1>1, UnlockedDisturbNothing DEF IndInv, BlockedIsPending, Undisturbed
<1>2. CASE \/ Enter(w) \/ RunStage(w) \/ Extract(w) \/ StoreArtifact(w) \/ WriteIndex(w)
           \/ Decide(w) \/ StoreDecisions(w) \/ Survey(w) \/ ListRevisions(w)
  BY <1>2 DEF Enter, RunStage, Extract, StoreArtifact, WriteIndex, Decide, StoreDecisions, Survey, ListRevisions,
     imVars, revisionVars
<1>3. CASE \/ StoreCanonicalView(w) \/ StoreIndexGeneration(w) \/ RegisterSnapshot(w) \/ WriteGraph(w)
           \/ Rebuild(w) \/ VerifyReadBack(w) \/ ReadVersion(w) \/ SwapAgain(w) \/ Confirm(w)
           \/ ReturnToLoop(w) \/ AdvanceRefused(w) \/ Blocked(w) \/ LeaveLoop(w) \/ Report(w)
  BY <1>3 DEF StoreCanonicalView, StoreIndexGeneration, RegisterSnapshot, WriteGraph, Rebuild, VerifyReadBack,
     ReadVersion, SwapAgain, Confirm, ReturnToLoop, AdvanceRefused, Blocked, LeaveLoop, Report,
     StoreView, StoreGeneration, Register, Verify, Realign, imVars, revisionVars
<1>4. CASE AdvanceStage(w)
  BY <1>4 DEF AdvanceStage, Advance, TypeOK, imVars, revisionVars
<1>5. CASE Swap(w)
  BY <1>5 DEF Swap, CommitAndActivate, Committable
<1>6. CASE StageRefused(w) \/ StageRetryable(w) \/ Outage(w)
  <2>1. CASE UNCHANGED imVars
    BY <2>1 DEF imVars, revisionVars
  <2>2. ASSUME InStage(w), NEW retryable \in BOOLEAN, RecordFailure(call[w].revision, retryable)
        PROVE  blocked'[q]
    <3>1. InLock(w)
      BY <1>6, LockedSteps DEF WorkerStep, Unlocked, StageRefused, StageRetryable, Outage, Refused, LostRace, InLock
    <3>2. ~blocked[call[w].revision]
      BY <2>2, <3>1 DEF LockedLocal, LoopReads
    <3>. QED
      BY <2>2, <3>2 DEF RecordFailure, TypeOK
  <2>. QED
    BY <1>6, <2>1, <2>2 DEF StageRefused, StageRetryable, Outage, Fail
<1>. QED
  BY <1>1, <1>2, <1>3, <1>4, <1>5, <1>6 DEF WorkerStep, Unlocked, Client, Step

LEMMA StepAnswers ==
  ASSUME LockedInv, NEW w \in Workers, WorkerStep(w), [Next]_imVars, AnswersInv
  PROVE  AnswersInv'
<1>. PipelineInv /\ TypeOK /\ LockedLocal(w) /\ Locals(w) /\ Booked
  BY DEF LockedInv, PipelineInv, IndInv, AnswersInv
<1>. DEFINE c == call[w]
<1>1. Booked'
  BY StepBooked
<1>2. \A r \in Revisions : r \in Committed => r \in Committed'
  BY OwnStepReads
<1>3. \A r \in Revisions : state[r] \in Reached => state'[r] \in Reached
  BY ReachedStays
<1>4. \A r \in Revisions : blocked[r] => blocked'[r]
  BY BlockedStays
<1>. SUFFICES ASSUME NEW r \in Revisions, NEW t \in Targets
              PROVE  /\ outcome'[<<r, t>>] = "visible" => r \in Committed'
                     /\ outcome'[<<r, t>>] = "indexed" => state'[r] \in Reached
                     /\ outcome'[<<r, t>>] # "hidden"
                     /\ outcome'[<<r, t>>] = "refused" => blocked'[r]
  BY <1>1 DEF AnswersInv
<1>5. CASE outcome'[<<r, t>>] = outcome[<<r, t>>]
  BY <1>2, <1>3, <1>4, <1>5 DEF AnswersInv
<1>6. CASE outcome'[<<r, t>>] # outcome[<<r, t>>]
  <2>1. ASSUME NEW x, NEW y, NEW v, outcome' = [outcome EXCEPT ![<<x, y>>] = v]
        PROVE  r = x /\ t = y /\ outcome'[<<r, t>>] = v
    BY <1>6, <2>1 DEF Booked
  <2>2. CASE /\ Blocked(w) \/ (StageRefused(w) /\ InStage(w) /\ RecordFailure(c.revision, FALSE))
             /\ outcome' = [outcome EXCEPT ![<<c.revision, c.target>>] = "refused"]
    <3>1. r = c.revision /\ outcome'[<<r, t>>] = "refused"
      BY <2>1, <2>2
    <3>2. CASE Blocked(w)
      BY <1>4, <3>1, <3>2 DEF Blocked
    <3>3. CASE RecordFailure(c.revision, FALSE)
      BY <3>1, <3>3 DEF RecordFailure, TypeOK
    <3>. QED
      BY <2>2, <3>1, <3>2, <3>3
  <2>3. CASE LeaveLoop(w) /\ c.target = "INDEXED" /\ outcome' = [outcome EXCEPT ![<<c.revision, "INDEXED">>] = "indexed"]
    <3>1. r = c.revision /\ outcome'[<<r, t>>] = "indexed" /\ pc[w] = "loop" /\ AtTarget(w)
      BY <2>1, <2>3 DEF LeaveLoop
    <3>2. state[r] = c.at /\ c.at \in IngestStates
      BY <3>1 DEF LockedLocal, InLock, LoopReads, Locals, CallShape
    <3>3. c.at \in Reached
      BY <2>3, <3>1, <3>2 DEF AtTarget, Position, IngestStates, Reached
    <3>. QED
      BY <1>3, <3>1, <3>2, <3>3
  <2>4. CASE /\ Report(w) /\ c.revision \in Known
             /\ outcome' = [outcome EXCEPT ![<<c.revision, "COMMITTED">>] =
                              IF c.active # None /\ c.revision \in c.active.commits THEN "visible" ELSE "hidden"]
    <3>1. r = c.revision
      BY <2>1, <2>4
    <3>2. pc[w] = "report" /\ c.stage = "REPAIR" /\ r # None
      BY <2>4, <3>1, NoneIsNoRevision DEF Report
    <3>3. c.active = pointer /\ r \in Committed
      BY <3>1, <3>2 DEF LockedLocal, RepairsCommitted, InLock, ScopeReads, Committed
    <3>4. c.active # None /\ r \in c.active.commits
      BY <3>3 DEF LockedInv, CommittedIsVisible, Coverage
    <3>5. outcome'[<<r, t>>] = "visible"
      BY <2>1, <2>4, <3>1, <3>4
    <3>. QED
      BY <1>2, <3>3, <3>5
  <2>. QED
    BY <1>6, <2>2, <2>3, <2>4, OutcomeMoves
<1>. QED
  BY <1>5, <1>6

\* Under one lock file what a client was told stays true, whatever the other
\* processes do, crash or repeat.
THEOREM AnswersAreFinal == SourceCommitSpec /\ OneLockFile => []AnswersStayTrue
<1>1. SourceCommitInit => AnswersInv
  BY NoneIsNoRevision, BoundsAreNat DEF SourceCommitInit, AnswersInv, Booked, Outcomes
<1>2. LockedInv /\ AnswersInv /\ [SourceCommitNext]_scVars => AnswersInv'
  <2>. SUFFICES ASSUME LockedInv, AnswersInv, [SourceCommitNext]_scVars PROVE AnswersInv'
    OBVIOUS
  <2>1. CASE UNCHANGED scVars
    BY <2>1 DEF scVars, imVars, revisionVars, contentVars, fixedVars, clientVars, faultVars, AnswersInv, Booked, Committed
  <2>2. ASSUME NEW w \in Workers, WorkerStep(w) PROVE AnswersInv'
    BY <2>2, StepPipelineInv, StepAnswers DEF LockedInv
  <2>. QED
    BY <2>1, <2>2 DEF SourceCommitNext, WorkerStep
<1>3. LockedInv /\ AnswersInv => AnswersStayTrue
  <2>. SUFFICES ASSUME LockedInv, AnswersInv PROVE AnswersStayTrue
    OBVIOUS
  <2>1. \A r \in Revisions : state[r] \in Reached => Position[state[r]] >= Position["INDEXED"]
    BY DEF Reached, Position, IngestStates
  <2>. QED
    BY <2>1 DEF AnswersInv, AnswersStayTrue, LockedInv, CommittedIsVisible
<1>. QED
  BY <1>1, <1>2, <1>3, LockedInvariant, PTL DEF SourceCommitSpec

-----------------------------------------------------------------------------
(***************************************************************************)
(* The projection of the commits.                                          *)
(***************************************************************************)

Units(n) == UNION {{x} \X (1..n[x]) : x \in DOMAIN n}

LEMMA UnitsAre ==
  ASSUME NEW n, NEW u
  PROVE  u \in Units(n) <=> \E x \in DOMAIN n : u \in {x} \X (1..n[x])
BY DEF Units

LEMMA UnitsAreFinite ==
  ASSUME NEW S, IsFiniteSet(S), NEW n \in [S -> Nat]
  PROVE  IsFiniteSet(Units(n))
<1> DEFINE block == [x \in S |-> {x} \X (1..n[x])]
           blocks == {block[x] : x \in S}
<1>1. block \in Surjection(S, blocks)
  BY DEF Surjection
<1>2. IsFiniteSet(blocks)
  <2> HIDE DEF blocks, block
  <2> QED
    BY <1>1, FS_Surjection
<1>3. \A x \in S : IsFiniteSet(block[x])
  <2> TAKE x \in S
  <2>1. IsFiniteSet({x}) /\ IsFiniteSet(1..n[x])
    <3>1. n[x] \in Int /\ 1 \in Int
      OBVIOUS
    <3> QED
      BY <3>1, FS_Singleton, FS_Interval
  <2> QED
    BY <2>1, FS_Product
<1>4. Units(n) = UNION blocks
  BY DEF Units
<1> HIDE DEF block
<1> QED
  BY <1>2, <1>3, <1>4, FS_UNION

\* A number more adds itself to the sum.
LEMMA TotalGrows ==
  ASSUME NEW S, IsFiniteSet(S), NEW x, x \notin S, NEW n \in [S -> Nat], NEW m \in [S \cup {x} -> Nat],
         \A y \in S : m[y] = n[y]
  PROVE  Total(n) \in Nat /\ Total(m) = Total(n) + m[x]
<1>1. Total(n) = Cardinality(Units(n)) /\ Total(m) = Cardinality(Units(m))
  BY DEF Total, Units
<1>2. IsFiniteSet(Units(n)) /\ Cardinality(Units(n)) \in Nat
  BY UnitsAreFinite, FS_CardinalityType
<1> DEFINE more == {x} \X (1..m[x])
<1>3. IsFiniteSet(more) /\ Cardinality(more) = m[x]
  <2>1. m[x] \in Nat
    OBVIOUS
  <2>2. IsFiniteSet({x}) /\ Cardinality({x}) = 1
    BY FS_Singleton
  <2>3. IsFiniteSet(1..m[x]) /\ Cardinality(1..m[x]) = m[x]
    BY <2>1, FS_Interval
  <2>4. IsFiniteSet(more) /\ Cardinality(more) = Cardinality({x}) * Cardinality(1..m[x])
    BY <2>2, <2>3, FS_Product
  <2> QED
    BY <2>1, <2>2, <2>3, <2>4
<1>4. Units(m) = Units(n) \cup more
  <2>1. ASSUME NEW u PROVE u \in Units(m) <=> u \in Units(n) \/ u \in more
    BY UnitsAre
  <2> QED
    BY <2>1
<1>5. Units(n) \cap more = {}
  <2>1. ASSUME NEW u \in Units(n) PROVE u \notin more
    BY UnitsAre
  <2> QED
    BY <2>1
<1> HIDE DEF more
<1>6. Cardinality(Units(m)) = Cardinality(Units(n)) + Cardinality(more)
  <2>1. Cardinality(Units(n) \cup more) = Cardinality(Units(n)) + Cardinality(more) - Cardinality(Units(n) \cap more)
    BY <1>2, <1>3, FS_Union
  <2>2. Cardinality(Units(n) \cap more) = 0
    BY <1>5, FS_EmptySet
  <2>3. m[x] \in Nat
    OBVIOUS
  <2> QED
    BY <1>2, <1>3, <1>4, <2>1, <2>2, <2>3
<1> QED
  BY <1>1, <1>2, <1>3, <1>6

LEMMA TotalOfNone ==
  ASSUME NEW n, \A x \in DOMAIN n : n[x] = 0
  PROVE  Total(n) = 0
<1>1. \A x \in DOMAIN n : {x} \X (1..n[x]) = {}
  OBVIOUS
<1>2. Units(n) = {}
  BY <1>1 DEF Units
<1> QED
  BY <1>2, FS_EmptySet DEF Total, Units

\* The deltas are counts, numbered without gap, and while nothing was damaged the rows are
\* their sum.
ProjInv ==
  /\ IndInv
  /\ DOMAIN deltas = Revisions /\ faults \in Nat
  /\ \A r \in Applied : /\ deltas[r].version \in Nat /\ deltas[r].stats \in Nat
                        /\ deltas[r].counts \in [DOMAIN deltas[r].counts -> Nat]
                        /\ DOMAIN deltas[r].counts \subseteq CountKeys
  /\ faults = 0 => ~Gap /\ AddsUp

LEMMA AppliedAreFinite == IsFiniteSet(Applied) /\ Cardinality(Applied) \in Nat
BY RevisionsFinite, FS_Subset, FS_CardinalityType DEF Applied

LEMMA EmptyTotals ==
  ASSUME Applied = {}
  PROVE  Cardinality(Applied) = 0 /\ Rebuilt.stats = 0 /\ Rebuilt.version = 0 /\ RebuiltCounts = NoCounts
<1>1. Cardinality(Applied) = 0
  BY FS_EmptySet
<1>2. Total([r \in Applied |-> deltas[r].stats]) = 0
  BY TotalOfNone
<1>3. RebuiltCounts = NoCounts
  BY DEF RebuiltCounts, NoCounts
<1> QED
  BY <1>1, <1>2, <1>3 DEF Rebuilt

LEMMA ProjInit == ProjectionInit => ProjInv
<1> SUFFICES ASSUME ProjectionInit PROVE ProjInv
  OBVIOUS
<1>1. IndInv
  BY InitIndInv DEF ProjectionInit
<1>2. Applied = {} /\ DOMAIN deltas = Revisions /\ faults = 0
  BY DEF ProjectionInit, Applied
<1>3. ~Gap
  <2>1. {deltas[r].version : r \in Applied} = {} /\ 1..0 = {}
    BY <1>2
  <2> QED
    BY <1>2, <2>1, EmptyTotals DEF Gap
<1>4. CurrentRow.stats = 0 /\ CurrentRow.version = 0 /\ counts = NoCounts
  BY DEF ProjectionInit, CurrentRow, emptyProjection
<1> QED
  BY <1>1, <1>2, <1>3, <1>4, EmptyTotals DEF ProjInv, AddsUp

LEMMA TotalIsNat ==
  ASSUME NEW S, IsFiniteSet(S), NEW n \in [S -> Nat]
  PROVE  Total(n) \in Nat
<1>1. Cardinality(Units(n)) \in Nat
  BY UnitsAreFinite, FS_CardinalityType
<1> QED
  BY <1>1 DEF Total, Units

LEMMA CountsAre ==
  ASSUME counts = RebuiltCounts, NEW k
  PROVE  CountAt(counts, k) = Total([r \in Applied |-> CountAt(deltas[r].counts, k)])
<1>1. CASE k \in DOMAIN counts
  BY <1>1 DEF RebuiltCounts, CountAt
<1>2. CASE k \notin DOMAIN counts
  <2>1. \A r \in Applied : CountAt(deltas[r].counts, k) = 0
    BY <1>2 DEF RebuiltCounts, CountAt
  <2>2. Total([r \in Applied |-> CountAt(deltas[r].counts, k)]) = 0
    BY <2>1, TotalOfNone
  <2> QED
    BY <1>2, <2>2 DEF CountAt
<1> QED
  BY <1>1, <1>2

LEMMA ApplyKeeps ==
  ASSUME ProjInv, NEW r \in Revisions, NEW payload \in Payloads, ApplyDelta(r, payload)
  PROVE  ProjInv'
<1> DEFINE row == [version |-> ExpectedVersion(r), stats |-> payload.stats, counts |-> payload.counts]
           n == Cardinality(Applied)
<1>1. /\ payload.stats \in Nat /\ DOMAIN payload.counts \subseteq CountKeys
      /\ payload.counts \in [DOMAIN payload.counts -> Nat]
  BY PayloadsAreCounts
<1>2. ExpectedVersion(r) \in Nat
  BY DEF ProjInv, IndInv, TypeOK, ExpectedVersion
<1>3. row \in DeltaRow /\ row # None
  <2>1. payload.counts \in UNION {[K -> Nat] : K \in SUBSET CountKeys}
    BY <1>1
  <2>2. row \in DeltaRow
    BY <1>1, <1>2, <2>1 DEF DeltaRow
  <2> QED
    BY <2>2, NoneIsNoRow
<1>4. row.version = ExpectedVersion(r) /\ row.stats = payload.stats /\ row.counts = payload.counts
  OBVIOUS
<1>5. /\ r \notin Applied /\ MayApply(r) /\ deltas' = [deltas EXCEPT ![r] = row]
      /\ counts' = addCounts(counts, payload.counts) /\ faults' = faults /\ UNCHANGED imVars
  BY DEF ApplyDelta
<1> HIDE DEF row
<1>6. /\ DOMAIN deltas' = Revisions /\ deltas'[r] = row
      /\ \A q \in Revisions : q # r => deltas'[q] = deltas[q]
  BY <1>5 DEF ProjInv
<1>7. Applied' = Applied \cup {r} /\ Applied \subseteq Revisions
  BY <1>3, <1>6 DEF Applied
<1>8. IndInv'
  BY <1>5, StepIndInv DEF ProjInv
<1>9. IsFiniteSet(Applied) /\ n \in Nat /\ Cardinality(Applied') = n + 1
  BY <1>5, <1>7, AppliedAreFinite, FS_AddElement
<1>10. \A q \in Applied' :
         /\ deltas'[q].version \in Nat /\ deltas'[q].stats \in Nat
         /\ deltas'[q].counts \in [DOMAIN deltas'[q].counts -> Nat] /\ DOMAIN deltas'[q].counts \subseteq CountKeys
  BY <1>1, <1>2, <1>4, <1>6, <1>7 DEF ProjInv
<1>11. ASSUME faults = 0 PROVE (~Gap /\ AddsUp)'
  <2>1. ~Gap /\ AddsUp
    BY <1>11 DEF ProjInv
  <2>2. ExpectedVersion(r) = n + 1
    <3>1. CurrentRow.version = n
      BY <2>1 DEF AddsUp, Rebuilt
    <3>2. CurrentRow.version = ExpectedVersion(r) - 1
      BY <1>5 DEF MayApply
    <3> QED
      BY <1>2, <1>9, <3>1, <3>2
  <2>3. ~Gap'
    <3>1. {deltas'[q].version : q \in Applied'} = {deltas[q].version : q \in Applied} \cup {n + 1}
      <4>1. ASSUME NEW v
            PROVE  (\E q \in Applied' : v = deltas'[q].version) <=> (\E q \in Applied : v = deltas[q].version) \/ v = n + 1
        BY <1>4, <1>5, <1>6, <1>7, <2>2
      <4> QED
        BY <4>1
    <3>2. (1..n) \cup {n + 1} = 1..(n + 1)
      BY <1>9
    <3> QED
      BY <1>9, <2>1, <3>1, <3>2 DEF Gap
  <2>4. /\ projection'.version = ExpectedVersion(r) /\ projection'.stats = CurrentRow.stats + payload.stats
        /\ projection' # None
    <3> DEFINE made == [version |-> ExpectedVersion(r), last |-> r, reconciled |-> r,
                        stats |-> addStats(CurrentRow.stats, payload.stats), consistency |-> "consistent"]
    <3>1. projection' = made
      BY DEF ApplyDelta
    <3>2. CurrentRow.stats \in Nat
      <4>1. [q \in Applied |-> deltas[q].stats] \in [Applied -> Nat]
        BY DEF ProjInv
      <4>2. Total([q \in Applied |-> deltas[q].stats]) \in Nat
        BY <1>9, <4>1, TotalIsNat
      <4> QED
        BY <2>1, <4>2 DEF AddsUp, Rebuilt
    <3>3. made \in ProjectionRow
      BY <1>1, <1>2, <3>2 DEF ProjectionRow, addStats
    <3> QED
      BY <3>1, <3>3, NoneIsNoRow DEF addStats
  <2>5. CurrentRow'.version = n + 1 /\ CurrentRow'.stats = CurrentRow.stats + payload.stats
    BY <2>2, <2>4 DEF CurrentRow
  <2>6. CurrentRow'.stats = Rebuilt'.stats
    <3> DEFINE old == [q \in Applied |-> deltas[q].stats]
               new == [q \in Applied' |-> deltas'[q].stats]
    <3>1. old \in [Applied -> Nat] /\ new \in [Applied \cup {r} -> Nat] /\ \A q \in Applied : new[q] = old[q]
      BY <1>5, <1>6, <1>7, <1>10 DEF ProjInv
    <3>2. new[r] = payload.stats
      BY <1>4, <1>6, <1>7
    <3> HIDE DEF old, new
    <3>3. Total(new) = Total(old) + payload.stats
      <4>1. IsFiniteSet(Applied) /\ r \notin Applied
        BY <1>5, <1>9
      <4>2. Total(new) = Total(old) + new[r]
        BY ONLY <3>1, <4>1, TotalGrows
      <4> QED
        BY <3>2, <4>2
    <3>4. Rebuilt.stats = Total(old) /\ Rebuilt'.stats = Total(new)
      BY DEF Rebuilt, old, new
    <3> QED
      BY <2>1, <2>5, <3>3, <3>4 DEF AddsUp
  <2>7. CurrentRow'.version = Rebuilt'.version
    BY <1>9, <2>5 DEF Rebuilt
  <2>8. counts' = RebuiltCounts'
    <3> DEFINE old(k) == [q \in Applied |-> CountAt(deltas[q].counts, k)]
               new(k) == [q \in Applied' |-> CountAt(deltas'[q].counts, k)]
    <3>1. counts = RebuiltCounts
      BY <2>1 DEF AddsUp
    <3>2. ASSUME NEW k PROVE CountAt(counts, k) + CountAt(payload.counts, k) = Total(new(k))
      <4>0. \A q \in Applied : CountAt(deltas[q].counts, k) \in Nat
        BY DEF CountAt, ProjInv
      <4>1. old(k) \in [Applied -> Nat]
        BY <4>0
      <4>5. CountAt(payload.counts, k) \in Nat
        BY <1>1 DEF CountAt
      <4>6. \A q \in Applied : new(k)[q] = old(k)[q]
        BY <1>5, <1>6, <1>7
      <4>2. new(k)[r] = CountAt(payload.counts, k)
        BY <1>4, <1>6, <1>7
      <4>7. new(k) \in [Applied \cup {r} -> Nat]
        <5>1. \A q \in Applied \cup {r} : new(k)[q] \in Nat
          BY <4>0, <4>2, <4>5, <4>6
        <5> QED
          BY <1>7, <5>1
      <4> HIDE DEF old, new
      <4>3. Total(new(k)) = Total(old(k)) + CountAt(payload.counts, k)
        BY <1>5, <1>9, <4>1, <4>2, <4>6, <4>7, TotalGrows
      <4>4. CountAt(counts, k) = Total(old(k))
        BY <3>1, CountsAre DEF old
      <4> QED
        BY <4>3, <4>4
    <3>3. DOMAIN RebuiltCounts' = DOMAIN counts \cup DOMAIN payload.counts
      <4>1. DOMAIN counts = UNION {DOMAIN deltas[q].counts : q \in Applied}
        BY <3>1 DEF RebuiltCounts
      <4>2. DOMAIN RebuiltCounts' = UNION {DOMAIN deltas'[q].counts : q \in Applied'}
        BY DEF RebuiltCounts
      <4>3. ASSUME NEW k
            PROVE  (\E q \in Applied' : k \in DOMAIN deltas'[q].counts)
                     <=> (\E q \in Applied : k \in DOMAIN deltas[q].counts) \/ k \in DOMAIN payload.counts
        BY <1>4, <1>5, <1>6, <1>7
      <4> QED
        BY <4>1, <4>2, <4>3
    <3>4. RebuiltCounts' = [k \in DOMAIN RebuiltCounts' |-> Total(new(k))]
      BY DEF RebuiltCounts
    <3>5. counts' = [k \in DOMAIN counts \cup DOMAIN payload.counts |-> CountAt(counts, k) + CountAt(payload.counts, k)]
      BY <1>5 DEF addCounts
    <3> HIDE DEF old, new
    <3> QED
      BY <3>2, <3>3, <3>4, <3>5
  <2> QED
    BY <2>3, <2>6, <2>7, <2>8 DEF AddsUp
<1> QED
  BY <1>5, <1>6, <1>8, <1>10, <1>11 DEF ProjInv

LEMMA RebuiltIsARow ==
  ASSUME ProjInv, ~Gap
  PROVE  Rebuilt # None /\ Rebuilt \in ProjectionRow
<1> DEFINE n == Cardinality(Applied)
           latest == IF n = 0 THEN None ELSE CHOOSE r \in Applied : deltas[r].version = n
           total == Total([r \in Applied |-> deltas[r].stats])
<1>1. n \in Nat
  BY AppliedAreFinite
<1>2. total \in Nat
  <2>1. [r \in Applied |-> deltas[r].stats] \in [Applied -> Nat]
    BY DEF ProjInv
  <2> QED
    BY <2>1, AppliedAreFinite, TotalIsNat
<1>3. latest \in Revisions \cup {None}
  <2>1. CASE n = 0
    BY <2>1
  <2>2. CASE n # 0
    <3>1. n \in {deltas[r].version : r \in Applied}
      BY <1>1, <2>2 DEF Gap
    <3>2. \E r \in Applied : deltas[r].version = n
      BY <3>1
    <3>3. latest \in Applied
      BY <2>2, <3>2
    <3> QED
      BY <3>3 DEF Applied
  <2> QED
    BY <2>1, <2>2
<1>4. Rebuilt = [version |-> n, last |-> latest, reconciled |-> latest, stats |-> total,
                 consistency |-> "consistent"]
  BY DEF Rebuilt
<1> HIDE DEF n, latest, total
<1>5. Rebuilt \in ProjectionRow
  BY <1>1, <1>2, <1>3, <1>4 DEF ProjectionRow
<1> QED
  BY <1>5, NoneIsNoRow

LEMMA ReconcileKeeps == ProjInv /\ Reconcile => ProjInv'
<1> SUFFICES ASSUME ProjInv, Reconcile PROVE ProjInv'
  OBVIOUS
<1>1. UNCHANGED <<imVars, deltas, faults>>
  BY DEF Reconcile
<1>2. IndInv'
  BY <1>1, StepIndInv DEF ProjInv
<1>3. Applied' = Applied /\ Rebuilt' = Rebuilt /\ RebuiltCounts' = RebuiltCounts /\ Gap' = Gap
  BY <1>1 DEF Applied, Rebuilt, RebuiltCounts, Gap
<1>4. ASSUME faults = 0 PROVE (~Gap /\ AddsUp)'
  <2>1. ~Gap
    BY <1>4 DEF ProjInv
  <2>2. projection' = Rebuilt /\ counts' = RebuiltCounts
    BY <2>1 DEF Reconcile, RepairedCounts
  <2>3. Rebuilt # None
    BY <2>1, RebuiltIsARow
  <2>4. CurrentRow' = Rebuilt
    BY <2>2, <2>3 DEF CurrentRow
  <2> QED
    BY <1>3, <2>1, <2>2, <2>4 DEF AddsUp
<1> QED
  BY <1>1, <1>2, <1>3, <1>4 DEF ProjInv

LEMMA DamageKeeps == ProjInv /\ Damage => ProjInv'
<1> SUFFICES ASSUME ProjInv, Damage PROVE ProjInv'
  OBVIOUS
<1>1. faults' = faults + 1 /\ UNCHANGED imVars
  BY DEF Damage
<1>2. IndInv'
  BY <1>1, StepIndInv DEF ProjInv
<1>3. faults' \in Nat /\ faults' # 0
  BY <1>1 DEF ProjInv
<1>4. DOMAIN deltas' = Revisions /\ \A r \in Revisions : deltas'[r] \in {deltas[r], None}
  <2>1. CASE deltas' = deltas
    BY <2>1 DEF ProjInv
  <2>2. CASE \E r \in Applied : deltas' = [deltas EXCEPT ![r] = None]
    BY <2>2 DEF ProjInv
  <2> QED
    BY <2>1, <2>2 DEF Damage
<1>5. Applied' \subseteq Applied /\ \A r \in Applied' : deltas'[r] = deltas[r]
  BY <1>4 DEF Applied
<1>6. \A r \in Applied' : /\ deltas'[r].version \in Nat /\ deltas'[r].stats \in Nat
                          /\ deltas'[r].counts \in [DOMAIN deltas'[r].counts -> Nat]
                          /\ DOMAIN deltas'[r].counts \subseteq CountKeys
  BY <1>5 DEF ProjInv
<1> QED
  BY <1>2, <1>3, <1>4, <1>6 DEF ProjInv

LEMMA RowsStay ==
  ASSUME ProjInv, [Next]_imVars, UNCHANGED <<projectionVars, faults>>
  PROVE  ProjInv'
<1>1. IndInv'
  BY StepIndInv DEF ProjInv
<1>2. deltas' = deltas /\ projection' = projection /\ counts' = counts /\ faults' = faults
  BY DEF projectionVars
<1>3. /\ Applied' = Applied /\ CurrentRow' = CurrentRow /\ Rebuilt' = Rebuilt
      /\ RebuiltCounts' = RebuiltCounts /\ Gap' = Gap
  BY <1>2 DEF Applied, CurrentRow, Rebuilt, RebuiltCounts, Gap
<1> QED
  BY <1>1, <1>2, <1>3 DEF ProjInv, AddsUp

LEMMA ProjStep == ProjInv /\ [ProjectionNext]_projVars => ProjInv'
<1> SUFFICES ASSUME ProjInv, [ProjectionNext]_projVars PROVE ProjInv'
  OBVIOUS
<1>1. CASE ManifestStep
  <2>1. Next /\ UNCHANGED <<projectionVars, faults>>
    BY <1>1 DEF ManifestStep, Next, RevisionStep
  <2> QED
    BY <2>1, RowsStay
<1>2. CASE \E r \in Revisions : ApplyStep(r)
  BY <1>2, ApplyKeeps DEF ApplyStep
<1>3. CASE Reconcile
  BY <1>3, ReconcileKeeps
<1>4. CASE Damage
  BY <1>4, DamageKeeps
<1>5. CASE UNCHANGED projVars
  <2>1. UNCHANGED imVars /\ UNCHANGED <<projectionVars, faults>>
    BY <1>5 DEF projVars
  <2> QED
    BY <2>1, RowsStay
<1> QED
  BY <1>1, <1>2, <1>3, <1>4, <1>5 DEF ProjectionNext

\* A commit whose version the rows have reached is among the deltas: the deltas are numbered
\* without gap, and none stands for a version that is not its commit's.
LEMMA ProjInvGivesTheCommits == ProjInv => ProjectionIsTheCommits
<1> SUFFICES ASSUME ProjInv, faults = 0
             PROVE  /\ ~Gap /\ AddsUp
                    /\ ~Overtaken => {r \in Committed : version[r] <= CurrentRow.version} \subseteq Applied
  BY DEF ProjectionIsTheCommits
<1>1. ~Gap /\ AddsUp
  BY DEF ProjInv
<1>2. ASSUME ~Overtaken, NEW r \in Committed, version[r] <= CurrentRow.version
      PROVE  r \in Applied
  <2> DEFINE n == Cardinality(Applied)
  <2>1. version[r] \in 1..manifestVersion /\ manifestVersion \in Nat
    BY DEF ProjInv, IndInv, TypeOK, CommitsAreNumbered
  <2>2. CurrentRow.version = n /\ n \in Nat
    BY <1>1, AppliedAreFinite DEF AddsUp, Rebuilt
  <2>3. version[r] \in {deltas[q].version : q \in Applied}
    BY <1>1, <1>2, <2>1, <2>2 DEF Gap
  <2>4. PICK q \in Applied : deltas[q].version = version[r]
    BY <2>3
  <2>5. state[q] = "COMMITTED" /\ version[q] = version[r]
    <3>1. IF state[q] = "COMMITTED" THEN deltas[q].version = version[q]
          ELSE ~(deltas[q].version <= manifestVersion)
      BY <1>2 DEF Overtaken
    <3> QED
      BY <2>1, <2>4, <3>1
  <2>6. q \in Committed
    BY <2>5 DEF Committed, Applied
  <2>7. q = r
    BY <2>5, <2>6 DEF ProjInv, IndInv, CommitsAreNumbered
  <2> QED
    BY <2>7
<1> QED
  BY <1>1, <1>2

\* Undamaged, the projection is the sum of the deltas, each counted once in whatever order and
\* however often the callers send them, and of exactly the commits up to its version.
THEOREM ProjectionHolds == ProjectionSpec => []ProjectionIsTheCommits
<1>1. ProjInv /\ [ProjectionNext]_projVars => ProjInv'
  BY ProjStep
<1> QED
  BY ProjInit, <1>1, ProjInvGivesTheCommits, PTL DEF ProjectionSpec

=============================================================================
