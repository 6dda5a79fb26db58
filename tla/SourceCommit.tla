---------------------------- MODULE SourceCommit ----------------------------
(***************************************************************************)
(* The ingest pipeline of one scope: several processes drive source        *)
(* revisions through RECEIVED .. COMMITTED against one manifest, under the *)
(* per-user commit lock, with LLM extraction, the HydraDB snapshot graph   *)
(* and the activation compare-and-swap (TransactionalSourceIndex.ts,       *)
(* TransactionalIngest.ts, IngestCommitLock.ts, SnapshotGraph.ts).         *)
(*                                                                         *)
(* A worker is one call in one process.  Between two of its steps the      *)
(* process may die, and other workers may run: every durable write, every  *)
(* read that a later write depends on and every provider call is a step of *)
(* its own.  The manifest operations are those of IngestManifest.          *)
(*                                                                         *)
(* A client repeats an ingest call until it is answered, as every error    *)
(* but a recorded terminal failure asks it to.                             *)
(***************************************************************************)
EXTENDS IngestManifest

CONSTANTS
  Workers,          \* calls that may run at once, each in a process of its own
  LockNamings,      \* which lock file each worker's process may derive from its manifest path
  Drafts,           \* what the extraction model may answer
  MayBeMalformed,   \* revisions whose write plan may be one HydraDB rejects for good
  DuplicateCalls,   \* whether a session may be ingested by two calls at once
  Targets,          \* the stages a client asks for: INDEXED, COMMITTED
  MaxOutages,       \* bound on provider, graph and manifest outages
  MaxCrashes,       \* bound on process deaths
  MaxRepairs        \* bound on commitScope calls

ASSUME WorkersAndLocks == \A naming \in LockNamings : naming \in [Workers -> {naming[w] : w \in Workers}]
ASSUME NoneIsNoRevision ==
  /\ None \notin Revisions /\ None \notin Drafts /\ None \notin Workers
  /\ None \notin {"REPAIR", "indexed", "visible", "hidden", "refused"}
ASSUME MalformedAreRevisions == MayBeMalformed \subseteq Revisions
ASSUME TargetsAreStages == Targets \subseteq {"INDEXED", "COMMITTED"}
ASSUME ViewsAreCoverages == Views = SUBSET Revisions
ASSUME CoveringsAreSnapshots ==
  \A g \in Generations, c \in (SUBSET Revisions) \ {{}} :
    [generation |-> g, view |-> c, commits |-> c] \in Snapshots
ASSUME DigestsAreOfContent == \A c \in SUBSET Revisions : [c -> Drafts \X SUBSET Revisions] \subseteq Digests
ASSUME DuplicateCallsIsFlag == DuplicateCalls \in BOOLEAN
ASSUME BoundsAreNat == MaxOutages \in Nat /\ MaxCrashes \in Nat /\ MaxRepairs \in Nat

VARIABLES
  pc,       \* where each worker is
  call,     \* each worker's locals
  lockFile, \* the lock file of each worker's process
  lock,     \* the holder of each lock file
  artifact, \* extraction_artifacts: the write-once draft of a revision
  decided,  \* supersession_decisions: the revisions a chain of r was built from
  graph,    \* the parts of each snapshot graph HydraDB holds, one per revision
  malformed, \* the revisions whose write plan is rejected for good, fixed by their text
  outcome,  \* the last definite answer a client got
  outages, crashes, repairs

fixedVars   == <<malformed, lockFile>>
contentVars == <<artifact, decided, graph, fixedVars>>
clientVars  == <<outcome, repairs>>
faultVars   == <<outages, crashes>>
scVars == <<imVars, pc, call, lock, contentVars, clientVars, faultVars>>

Position ==
  [s \in IngestStates |->
     CASE s = "RECEIVED" -> 0 [] s = "SOURCE_DURABLE" -> 1 [] s = "INDEXED" -> 2
       [] s = "ENRICHED" -> 3 [] s = "CONSOLIDATED" -> 4 [] s = "COMMITTED" -> 5]

LockFiles == UNION {{naming[w] : w \in Workers} : naming \in LockNamings}

\* The processes name the manifest alike, and so exclude each other.
OneLockFile == \A v, w \in Workers : lockFile[v] = lockFile[w]

\* stage is the stage being run, or "REPAIR" inside commitScope.
NoCall ==
  [revision |-> None, generation |-> None, target |-> None, at |-> None, stage |-> None,
   answer |-> None, cover |-> {}, active |-> None, version |-> 0]

SourceCommitInit ==
  /\ Init
  /\ pc = [w \in Workers |-> "idle"]
  /\ call = [w \in Workers |-> NoCall]
  /\ lockFile \in LockNamings
  /\ lock = [f \in LockFiles |-> None]
  /\ artifact = [r \in Revisions |-> None]
  /\ decided = [r \in Revisions |-> None]
  /\ graph = [s \in Snapshots |-> {}]
  /\ malformed \in SUBSET MayBeMalformed
  /\ outcome = [answered \in Revisions \X Targets |-> None]
  \* Bound: beside that of two names there is no fault, and no call to INDEXED.
  /\ outages = IF OneLockFile THEN 0 ELSE MaxOutages
  /\ crashes = IF OneLockFile THEN 0 ELSE MaxCrashes
  /\ repairs = IF OneLockFile THEN 0 ELSE MaxRepairs

-----------------------------------------------------------------------------
(***************************************************************************)
(* Locals, the lock and the ways a call ends.                              *)
(***************************************************************************)

Go(w, where) == pc' = [pc EXCEPT ![w] = where]

\* w goes on at where with one of its locals set.
Recall(w, field, value, where) ==
  /\ call' = [call EXCEPT ![w] = [@ EXCEPT ![field] = value]]
  /\ Go(w, where)

\* Fault: the lock does not exclude a second holder.
LockIgnored(w) == TRUE

LockFree(w) == lock[lockFile[w]] = None

\* Fault: a lock outlives the effect it was taken for.
KeepLock(w) == UNCHANGED lock

\* The lock of a worker is released when its effect ends and when its process dies.
Unlock(w) == lock' = [f \in LockFiles |-> IF lock[f] = w THEN None ELSE lock[f]]

\* The call returns or throws.
End(w) ==
  /\ Go(w, "idle")
  /\ call' = [call EXCEPT ![w] = NoCall]
  /\ Unlock(w)

\* The stage loop runs: an error is recorded with the revision it runs for.
InStage(w) == call[w].stage \notin {None, "REPAIR"}

\* The covering snapshot of a coverage; its view is derived from the same artifacts.
SnapshotOf(g, cover) == [generation |-> g, view |-> cover, commits |-> cover]
Target(w) == SnapshotOf(call[w].generation, call[w].cover)

-----------------------------------------------------------------------------
(***************************************************************************)
(* Calls.                                                                  *)
(***************************************************************************)

\* begin, outside the lock; a revision that exists is resumed.
CallIngest(w, r, g, target) ==
  /\ pc[w] = "idle"
  /\ BuildsOn[g] = ExtractionOf[r]
  /\ outcome[<<r, target>>] = None
  /\ OneLockFile \/ target = "COMMITTED"
  /\ DuplicateCalls \/ \A v \in Workers : call[v].revision # r
  /\ IF state[r] = None THEN Begin(r) ELSE UNCHANGED imVars
  /\ call' = [call EXCEPT ![w] = [NoCall EXCEPT !.revision = r, !.generation = g,
                                                !.target = target]]
  /\ Go(w, "declare")
  /\ UNCHANGED <<lock, contentVars, clientVars, faultVars>>

\* storeIndexGeneration, still outside the lock.
Declare(w) ==
  /\ pc[w] = "declare"
  /\ StoreGeneration(call[w].generation)
  /\ Go(w, "acquire")
  /\ UNCHANGED <<call, lock, contentVars, clientVars, faultVars>>

\* commitScope called on its own.
CallRepair(w, g) ==
  /\ pc[w] = "idle"
  /\ repairs < MaxRepairs
  /\ repairs' = repairs + 1
  /\ call' = [call EXCEPT ![w] = [NoCall EXCEPT !.generation = g, !.stage = "REPAIR"]]
  /\ Go(w, "acquire")
  /\ UNCHANGED <<imVars, lock, contentVars, outcome, faultVars>>

\* withUserLock: a free lock is taken at once, a held one fails the call.
Acquire(w) ==
  /\ pc[w] = "acquire"
  /\ LockFree(w)
  /\ lock' = [lock EXCEPT ![lockFile[w]] = w]
  /\ Go(w, IF call[w].stage = "REPAIR" THEN "survey" ELSE "enter")
  /\ UNCHANGED <<imVars, call, contentVars, clientVars, faultVars>>

Contend(w) ==
  /\ pc[w] = "acquire"
  /\ ~LockFree(w)
  /\ End(w)
  /\ UNCHANGED <<imVars, contentVars, clientVars, faultVars>>

MayRetry(r, reached) == ~blocked[r] \/ reached

\* begin again under the lock: a terminal failure blocks the retry unless the
\* revision is already where the client wants it.
Enter(w) ==
  LET r == call[w].revision
      reached == Position[state[r]] >= Position[call[w].target]
  IN
  /\ pc[w] = "enter"
  /\ MayRetry(r, reached)
  /\ Recall(w, "at", state[r], "loop")
  /\ UNCHANGED <<imVars, lock, contentVars, clientVars, faultVars>>

Blocked(w) ==
  LET r == call[w].revision IN
  /\ pc[w] = "enter"
  /\ blocked[r]
  /\ Position[state[r]] < Position[call[w].target]
  /\ outcome' = [outcome EXCEPT ![<<r, call[w].target>>] = "refused"]
  /\ End(w)
  /\ UNCHANGED <<imVars, contentVars, repairs, faultVars>>

-----------------------------------------------------------------------------
(***************************************************************************)
(* The stage loop up to ENRICHED.                                          *)
(***************************************************************************)

\* Fault: the loop stops one stage before the target.
StopsShort(w) == Position[call[w].at] + 1 >= Position[call[w].target]

AtTarget(w) == Position[call[w].at] >= Position[call[w].target]

\* The next stage of the loop, for a worker that has not reached its target.
RunStage(w) ==
  LET to == Successor[call[w].at] IN
  /\ pc[w] = "loop"
  /\ ~AtTarget(w)
  /\ Recall(w, "stage", to,
            CASE to = "SOURCE_DURABLE" -> "advance"
              [] to = "INDEXED"        -> "extract"
              [] to = "ENRICHED"       -> "decide"
              [] to = "CONSOLIDATED"   -> "list"
              [] to = "COMMITTED"      -> "survey")
  /\ UNCHANGED <<imVars, lock, contentVars, clientVars, faultVars>>

\* A new draft is made durable before anything is derived from it.
AfterExtract == "store"

\* The model answers one of its drafts; a stored artifact is used instead.
Extract(w) ==
  LET r == call[w].revision IN
  /\ pc[w] = "extract"
  /\ IF artifact[r] = None
     THEN \E d \in Drafts : Recall(w, "answer", d, AfterExtract)
     ELSE Recall(w, "answer", artifact[r], "index")
  /\ UNCHANGED <<imVars, lock, contentVars, clientVars, faultVars>>

\* storeArtifact: write-once, and only between SOURCE_DURABLE and CONSOLIDATED.
Storable(r, d) ==
  \/ artifact[r] = d
  \/ artifact[r] = None /\ state[r] \notin {"RECEIVED", "COMMITTED"}

StoreArtifact(w) ==
  LET r == call[w].revision IN
  /\ pc[w] = "store"
  /\ Storable(r, call[w].answer)
  /\ artifact' = [artifact EXCEPT ![r] = call[w].answer]
  /\ Go(w, "index")
  /\ UNCHANGED <<imVars, call, lock, decided, graph, fixedVars, clientVars, faultVars>>

\* The index graph of the artifact: external, idempotent upserts.
WriteIndex(w) ==
  /\ pc[w] = "index"
  /\ call[w].revision \notin malformed
  /\ Go(w, "advance")
  /\ UNCHANGED <<imVars, call, lock, contentVars, clientVars, faultVars>>

\* The revisions whose claims enter r's supersession chains.
Candidates(r) ==
  {q \in Known : /\ ordinal[q] <= ordinal[r]
                 /\ ~blocked[q]
                 /\ state[q] \notin {"RECEIVED", "SOURCE_DURABLE"}}

Decide(w) ==
  LET r == call[w].revision IN
  /\ pc[w] = "decide"
  /\ IF decided[r] = None
     THEN /\ \A q \in Candidates(r) \cup {r} : artifact[q] # None
          /\ Recall(w, "answer", Candidates(r), "resolve")
     ELSE Recall(w, "answer", decided[r], "advance")
  /\ UNCHANGED <<imVars, lock, contentVars, clientVars, faultVars>>

\* storeSupersessionDecisions: write-once.
StoreDecisions(w) ==
  LET r == call[w].revision IN
  /\ pc[w] = "resolve"
  /\ decided[r] \in {None, call[w].answer}
  /\ decided' = [decided EXCEPT ![r] = call[w].answer]
  /\ Go(w, "advance")
  /\ UNCHANGED <<imVars, call, lock, artifact, graph, fixedVars, clientVars, faultVars>>

\* advance of the loop's revision to the stage that just ran.
AdvanceStage(w) ==
  LET r == call[w].revision IN
  /\ pc[w] = "advance"
  /\ ~blocked[r]
  /\ \/ state[r] = call[w].stage /\ UNCHANGED imVars
     \/ state[r] = call[w].at /\ Advance(r)
  /\ call' = [call EXCEPT ![w] = [NoCall EXCEPT
                !.revision = r, !.generation = call[w].generation,
                !.target = call[w].target, !.at = call[w].stage]]
  /\ Go(w, "loop")
  /\ UNCHANGED <<lock, contentVars, clientVars, faultVars>>

-----------------------------------------------------------------------------
(***************************************************************************)
(* consolidateScope and commitScopeInternal.                               *)
(***************************************************************************)

PendingCommit == {r \in Known : state[r] = "CONSOLIDATED" /\ ~blocked[r]}

\* commitScopeInternal reads the revisions and the pointer.
Survey(w) ==
  /\ pc[w] = "survey"
  /\ IF PendingCommit # {} \/ ~(Committed \subseteq Coverage)
     THEN Recall(w, "active", pointer, "list")
     ELSE Recall(w, "active", pointer, "report")
  /\ UNCHANGED <<imVars, lock, contentVars, clientVars, faultVars>>

\* The revision running its CONSOLIDATED stage is covered although still ENRICHED.
Own(w) == IF call[w].stage = "CONSOLIDATED" THEN {call[w].revision} ELSE {}

CoveredRevisions(w) == Committed \cup PendingCommit \cup Own(w)

ListRevisions(w) ==
  /\ pc[w] = "list"
  /\ \A r \in CoveredRevisions(w) : artifact[r] # None
  /\ IF CoveredRevisions(w) = {}
     THEN Recall(w, "cover", {}, "report")
     ELSE Recall(w, "cover", CoveredRevisions(w), "view")
  /\ UNCHANGED <<imVars, lock, contentVars, clientVars, faultVars>>

StoreCanonicalView(w) ==
  /\ pc[w] = "view"
  /\ StoreView(call[w].cover)
  /\ Go(w, "generation")
  /\ UNCHANGED <<call, lock, contentVars, clientVars, faultVars>>

StoreIndexGeneration(w) ==
  /\ pc[w] = "generation"
  /\ StoreGeneration(call[w].generation)
  /\ Go(w, "register")
  /\ UNCHANGED <<call, lock, contentVars, clientVars, faultVars>>

\* A registered snapshot is answered as it is.
RegisterSnapshot(w) ==
  /\ pc[w] = "register"
  /\ IF snapState[Target(w)] = None \/ Reopens(Target(w)) THEN Register(Target(w)) ELSE UNCHANGED imVars
  /\ Go(w, "build")
  /\ UNCHANGED <<call, lock, contentVars, clientVars, faultVars>>

\* The planner takes revisions of the generation's own extraction, ENRICHED or later.
Plannable(w) ==
  \A r \in call[w].cover :
    /\ ExtractionOf[r] = BuildsOn[call[w].generation]
    /\ Position[state[r]] >= Position["ENRICHED"]

\* Fault: the links of a plan depend on what is committed when it is made.
DigestOfMoment(cover) ==
  [r \in cover |-> <<artifact[r],
                     IF decided[r] = None THEN {} ELSE decided[r] \cap Committed>>]

\* The digest of a plan: every artifact, and the links both ends of which are covered.
Digest(cover) ==
  [r \in cover |-> <<artifact[r],
                     IF decided[r] = None THEN {} ELSE decided[r] \cap cover>>]

AfterBuild(w) == IF call[w].stage = "CONSOLIDATED" THEN "advance" ELSE "version"

\* A build is written part by part, and HydraDB may acknowledge a part it loses.
WriteGraph(w) ==
  LET s == Target(w) IN
  /\ pc[w] = "build"
  /\ Plannable(w)
  /\ snapState[s] = "BUILDING"
  /\ \/ /\ graph' = [graph EXCEPT ![s] = @ \cup s.commits]
        /\ UNCHANGED outages
     \/ /\ outages < MaxOutages
        /\ outages' = outages + 1
        /\ \E kept \in (SUBSET s.commits) \ {s.commits} :
             graph' = [graph EXCEPT ![s] = @ \cup kept]
  /\ Go(w, "readback")
  /\ UNCHANGED <<imVars, call, lock, artifact, decided, fixedVars, clientVars, crashes>>

\* A snapshot that is not BUILDING has to be re-derived with the same digest.
Rebuild(w) ==
  /\ pc[w] = "build"
  /\ Plannable(w)
  /\ snapState[Target(w)] # "BUILDING"
  /\ evidence[Target(w)] = Digest(call[w].cover)
  /\ Go(w, AfterBuild(w))
  /\ UNCHANGED <<imVars, call, lock, contentVars, clientVars, faultVars>>

\* Fault: the graph is not read back before the snapshot is verified.
AnyReadBack(s) == TRUE

ReadsBack(s) == graph[s] = s.commits

VerifyReadBack(w) ==
  LET s == Target(w) IN
  /\ pc[w] = "readback"
  /\ ReadsBack(s)
  /\ IF snapState[s] = "BUILDING" THEN Verify(s, Digest(s.commits))
     ELSE snapState[s] = "VERIFIED" /\ evidence[s] = Digest(s.commits) /\ UNCHANGED imVars
  /\ Go(w, AfterBuild(w))
  /\ UNCHANGED <<call, lock, contentVars, clientVars, faultVars>>

ReadVersion(w) ==
  /\ pc[w] = "version"
  /\ Recall(w, "version", manifestVersion, "swap")
  /\ UNCHANGED <<imVars, lock, contentVars, clientVars, faultVars>>

Swap(w) ==
  /\ pc[w] = "swap"
  /\ CommitAndActivate(Target(w), call[w].version, call[w].active)
  /\ Go(w, "confirm")
  /\ UNCHANGED <<call, lock, contentVars, clientVars, faultVars>>

\* The pointer is read back.
Confirm(w) ==
  /\ pc[w] = "confirm"
  /\ pointer = Target(w)
  /\ Recall(w, "active", pointer, "report")
  /\ UNCHANGED <<imVars, lock, contentVars, clientVars, faultVars>>

\* commitScopeInternal returns the active record.
ReturnToLoop(w) ==
  /\ pc[w] = "report"
  /\ InStage(w)
  /\ Go(w, "advance")
  /\ UNCHANGED <<imVars, call, lock, contentVars, clientVars, faultVars>>

-----------------------------------------------------------------------------
(***************************************************************************)
(* Answers.                                                                *)
(***************************************************************************)

\* The loop has reached the target and leaves the lock.  An INDEXED call is
\* answered; a COMMITTED one takes the lock again for the repair.
LeaveLoop(w) ==
  LET r == call[w].revision IN
  /\ pc[w] = "loop"
  /\ AtTarget(w)
  /\ IF call[w].target = "INDEXED"
     THEN /\ outcome' = [outcome EXCEPT ![<<r, "INDEXED">>] = "indexed"]
          /\ End(w)
     ELSE /\ Recall(w, "stage", "REPAIR", "acquire")
          /\ Unlock(w)
          /\ UNCHANGED outcome
  /\ UNCHANGED <<imVars, contentVars, repairs, faultVars>>

\* commitScope returns: an ingest call reports whether its revision is query visible.
Report(w) ==
  LET r == call[w].revision
      seen == IF call[w].active = None THEN {} ELSE call[w].active.commits
  IN
  /\ pc[w] = "report"
  /\ call[w].stage = "REPAIR"
  /\ outcome' = IF r = None THEN outcome
                ELSE [outcome EXCEPT ![<<r, "COMMITTED">>] = IF r \in seen THEN "visible" ELSE "hidden"]
  /\ End(w)
  /\ UNCHANGED <<imVars, contentVars, repairs, faultVars>>

-----------------------------------------------------------------------------
(***************************************************************************)
(* Failures.                                                               *)
(***************************************************************************)

\* The error of a stage is recorded, unless its revision has been committed, and
\* fails the call; a terminal one is a definite answer.
Fail(w, retryable) ==
  LET r == call[w].revision
      recorded == InStage(w) /\ MayRecordFailure(r)
  IN
  /\ IF recorded THEN RecordFailure(r, retryable) ELSE UNCHANGED imVars
  /\ outcome' = IF recorded /\ ~retryable
                THEN [outcome EXCEPT ![<<r, call[w].target>>] = "refused"] ELSE outcome
  /\ End(w)

\* What commitAndActivate finds in its transaction, checked in this order: the
\* snapshot's state, the version, what is listed, what is missing, the pointer.
Current(w) == manifestVersion = call[w].version
ListedCommittable(s) == \A r \in Pending(s) : Committable(r)
CoversScope(s) == CoversAll(s, Committed \cup Pending(s))

\* Errors the classifier calls terminal.
Refused(w) ==
  LET r == call[w].revision
      s == Target(w)
  IN
  \/ pc[w] = "store" /\ ~Storable(r, call[w].answer)
  \/ pc[w] = "index" /\ r \in malformed
  \/ /\ pc[w] = "decide"
     /\ decided[r] = None
     /\ \E q \in Candidates(r) \cup {r} : artifact[q] = None
  \/ pc[w] = "resolve" /\ decided[r] \notin {None, call[w].answer}
  \/ pc[w] = "list" /\ \E q \in CoveredRevisions(w) : artifact[q] = None
  \/ pc[w] = "build" /\ ~Plannable(w)
  \/ pc[w] = "build" /\ snapState[s] # "BUILDING" /\ evidence[s] # Digest(s.commits)
  \/ /\ pc[w] = "readback"
     /\ ReadsBack(s)
     /\ snapState[s] # "BUILDING"
     /\ snapState[s] # "VERIFIED" \/ evidence[s] # Digest(s.commits)
  \/ /\ pc[w] = "swap"
     /\ pointer # s
     /\ \/ snapState[s] # "VERIFIED"
        \/ Current(w) /\ ~(ListedCommittable(s) /\ CoversScope(s))
  \/ pc[w] = "confirm" /\ pointer # s

\* Errors the classifier calls retryable.
LostRace(w) ==
  LET s == Target(w) IN
  \/ pc[w] = "readback" /\ ~ReadsBack(s)
  \/ /\ pc[w] = "swap"
     /\ pointer # s
     /\ snapState[s] = "VERIFIED"
     /\ \/ ~Current(w)
        \/ ListedCommittable(s) /\ CoversScope(s) /\ pointer # call[w].active

StageRefused(w) ==
  /\ Refused(w)
  /\ Fail(w, FALSE)
  /\ UNCHANGED <<contentVars, repairs, faultVars>>

StageRetryable(w) ==
  /\ LostRace(w)
  /\ Fail(w, TRUE)
  /\ UNCHANGED <<contentVars, repairs, faultVars>>

\* advance throws: the revision moved or was blocked meanwhile.  The error
\* leaves the loop unrecorded.
AdvanceRefused(w) ==
  LET r == call[w].revision IN
  /\ pc[w] = "advance"
  /\ blocked[r] \/ state[r] \notin {call[w].at, call[w].stage}
  /\ End(w)
  /\ UNCHANGED <<imVars, contentVars, clientVars, faultVars>>

\* A snapshot the pointer already names only has its companions re-aligned.
SwapAgain(w) ==
  /\ pc[w] = "swap"
  /\ Realign(Target(w))
  /\ Go(w, "confirm")
  /\ UNCHANGED <<call, lock, contentVars, clientVars, faultVars>>

\* A provider, HydraDB or the manifest is unavailable while a stage or commitScope runs.
Outage(w) ==
  /\ pc[w] \notin {"idle", "declare", "acquire", "enter", "loop", "advance", "report"}
  /\ outages < MaxOutages
  /\ outages' = outages + 1
  /\ Fail(w, TRUE)
  /\ UNCHANGED <<contentVars, repairs, crashes>>

\* The process dies, or an error outside a stage aborts the call: the locals are
\* lost, the lock file's transaction is rolled back, nothing is recorded.
Crash(w) ==
  /\ pc[w] # "idle"
  /\ crashes < MaxCrashes
  /\ crashes' = crashes + 1
  /\ End(w)
  /\ UNCHANGED <<imVars, contentVars, clientVars, outages>>

-----------------------------------------------------------------------------
Client(w) ==
  \/ \E r \in Revisions, g \in Generations, t \in Targets : CallIngest(w, r, g, t)
  \/ \E g \in Generations : CallRepair(w, g)

Step(w) ==
  \/ Declare(w) \/ Acquire(w) \/ Contend(w) \/ Enter(w) \/ Blocked(w)
  \/ RunStage(w) \/ Extract(w) \/ StoreArtifact(w) \/ WriteIndex(w)
  \/ Decide(w) \/ StoreDecisions(w) \/ AdvanceStage(w)
  \/ Survey(w) \/ ListRevisions(w) \/ StoreCanonicalView(w) \/ StoreIndexGeneration(w)
  \/ RegisterSnapshot(w) \/ WriteGraph(w) \/ Rebuild(w) \/ VerifyReadBack(w)
  \/ ReadVersion(w) \/ Swap(w) \/ SwapAgain(w) \/ Confirm(w) \/ ReturnToLoop(w)
  \/ LeaveLoop(w) \/ Report(w)
  \/ StageRefused(w) \/ StageRetryable(w) \/ AdvanceRefused(w)

SourceCommitNext == \E w \in Workers : Client(w) \/ Step(w) \/ Outage(w) \/ Crash(w)

SourceCommitSpec == SourceCommitInit /\ [][SourceCommitNext]_scVars

\* A process that is not dead goes on, and the client of each revision repeats its
\* commit call until it is answered, whenever some process can take it.
Fairness ==
  /\ \A w \in Workers : WF_scVars(Step(w))
  /\ \A r \in Revisions :
       SF_scVars(\E w \in Workers, g \in Generations : CallIngest(w, r, g, "COMMITTED"))

FairSpec == SourceCommitSpec /\ Fairness

-----------------------------------------------------------------------------
(***************************************************************************)
(* Properties.                                                             *)
(***************************************************************************)

PCs == {"idle", "declare", "acquire", "enter", "loop", "extract", "store", "index", "decide",
        "resolve", "advance", "survey", "list", "view", "generation", "register", "build",
        "readback", "version", "swap", "confirm", "report"}

Calls ==
  [revision : Revisions \cup {None}, generation : Generations \cup {None},
   target : Targets \cup {None}, at : IngestStates \cup {None},
   stage : IngestStates \cup {None, "REPAIR"},
   answer : Drafts \cup (SUBSET Revisions) \cup {None}, cover : SUBSET Revisions,
   active : Snapshots \cup {None}, version : 0 .. Cardinality(Revisions)]

\* The pipeline's own state is well formed.
SourceCommitTypeOK ==
  /\ pc \in [Workers -> PCs]
  /\ call \in [Workers -> Calls]
  /\ lockFile \in LockNamings
  /\ lock \in [LockFiles -> Workers \cup {None}]
  /\ artifact \in [Revisions -> Drafts \cup {None}]
  /\ decided \in [Revisions -> (SUBSET Revisions) \cup {None}]
  /\ graph \in [Snapshots -> SUBSET Revisions]
  /\ malformed \subseteq MayBeMalformed
  /\ outcome \in [Revisions \X Targets -> {None, "indexed", "visible", "hidden", "refused"}]
  /\ outages \in 0 .. MaxOutages
  /\ crashes \in 0 .. MaxCrashes
  /\ repairs \in 0 .. MaxRepairs

\* The pipeline has no window between committing and publishing: whatever
\* crashes, queries see exactly the committed revisions.
CommittedIsVisible == Committed = Coverage

\* The snapshot queries are sent to is whole in HydraDB, although its build may
\* have been cut off, repeated by another process, or lost a write.
ServedGraphIsComplete == pointer # None => graph[pointer] = pointer.commits

\* A verified snapshot is what a build of it would verify today.  Otherwise every
\* later call that re-derives it ends in SnapshotVerificationConflict.
EvidenceMatchesContent ==
  \A s \in Snapshots : evidence[s] # None => evidence[s] = Digest(s.commits)

\* Under one lock file the compare-and-swap never meets what it guards against:
\* the coverage, the pointer and the version read over several steps still hold.
SwapMeetsNoConflict ==
  OneLockFile => \A w \in Workers :
    pc[w] = "swap" =>
      /\ snapState[Target(w)] = "VERIFIED"
      /\ Expected(call[w].version, call[w].active)
      /\ ListedCommittable(Target(w)) /\ CoversScope(Target(w))

\* What a client was told stays true: a revision reported query visible is never
\* taken from queries, one reported INDEXED does not fall behind, no commit call
\* returns without visibility, and, under one lock file, no other call clears a
\* failure reported as final or takes its revision further.
AnswersStayTrue ==
  \A r \in Revisions, t \in Targets :
    /\ outcome[<<r, t>>] = "visible" => r \in Coverage
    /\ outcome[<<r, t>>] = "indexed" => Position[state[r]] >= Position["INDEXED"]
    /\ outcome[<<r, t>>] # "hidden"
    /\ outcome[<<r, t>>] = "refused" /\ OneLockFile => blocked[r]

\* Every revision whose data is sound is committed and visible once begun, if
\* crashes and outages end; a malformed revision of the scope does not stop it.
BegunIsPublished ==
  \A r \in Revisions : r \in Known /\ r \notin malformed ~> r \in Coverage
=============================================================================
