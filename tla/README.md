# A specification of Palimpsest

Palimpsest (`packages/palimpsest`) turns chat sessions into a graph memory a user can put
questions to. This directory specifies and checks the parts of the code that decide what
that memory *is* and what an answer may be made of: the ingest manifest, the commit
pipeline with its lock, the claims on graph ids, the chunked writes of the HydraDB client,
and the answer loop over a snapshot. The program is TypeScript (Effect) over SQLite, which
holds the manifest, and HydraDB, which holds the graphs. Paths are relative to the root of
the repository, and `PROJECT.json` maps every definition to its lines.

## Inventory

| Part | State it keeps | Operations | Interacts with | What makes it correct |
|---|---|---|---|---|
| Ingest manifest (`packages/palimpsest/src/IngestManifest/`) | a row per source revision (state, ordinal, version, failure), index generations, canonical views, snapshots, the active pointer and two companion pointers, artifacts, decisions | begin, advance, recordFailure, store and activate a generation or view, register, verify, fail, activate, commitAndActivate, reopen | called by every part below; an operation is one SQLite transaction | the pointer names the one active snapshot; it covers exactly what was committed at its version; nothing visible is lost; a refused revision does not move |
| Source commit pipeline (`TransactionalIngest.ts`, `TransactionalSourceIndex.ts`, `SourceIndexing.ts`) | a call's locals | ingest to INDEXED, to COMMITTED, commitScope | stages under the lock, the model, HydraDB, the manifest | what is committed is visible and whole, after any crash; what is begun is published; clients are told what stays true |
| Commit lock (`IngestCommitLock.ts`) | a SQLite file per scope next to the manifest | withUserLock | taken by the pipeline | one holder per file, none after a death |
| Extraction, transcript and index writes (`Extract.ts`, `Chunk.ts`, `SourceTranscript.ts`, `IndexGraph.ts`) | an artifact per revision, the source and index planes of the graph | locate quotes, store a transcript, extract once, store an index, read turns back | stages of the pipeline, HydraDB, the model | a claim's span has the words quoted for it; the index is that of the stored artifact, whatever was cut short |
| Canonical views, supersession (`EntityCanonicalView.ts`, `SupersessionDecision.ts`, `IngestManifest/Enrichments.ts`) | decisions per chain and per revision, stored views | fold names into entities, collect chains, decide, store | stage ENRICHED and CONSOLIDATED, the model | two names are one entity exactly when match keys lead from one to the other; replacement has no circle |
| Snapshot graph (`SnapshotGraph.ts`) | a snapshot's graph in HydraDB | plan, claim ids, write, read back, verify | called while consolidating | what enrichment stores always makes a plan; the read-back accepts the plan and nothing else |
| Graph id claims (`GraphClaims.ts`, `GraphIdClaims.ts`) | claims and quarantine of 53-bit ids | claim, recover | before every graph write | two identities never merge into one record |
| User projection (`IngestManifest/Projection.ts`) | counts per scope, a delta per commit | apply, reconcile | revision rows | counts equal the committed deltas, each once |
| Query context, time scope, retrieval (`QueryContext.ts`, `TimeScope.ts`, `SnapshotArms.ts`, `Arms.ts`, `Plan.ts`, `Select.ts`, `Pack.ts`) | none | bind, cut to a perspective, walk, union, ground, select, pack | manifest, HydraDB | one snapshot per answer; an absence is one; nothing of another time than the one asked about |
| Answering (`Answer.ts`, `Retrieve.ts`, `Reader.ts`, `Sufficiency.ts`) | a request's locals | answer, refine once | retrieval, the model | every request ends; a second search that grounds nothing leaves the first answer |
| Older plane (`Ingest.ts`, `Transcript.ts`, `ClaimGraph.ts`, `Supersede.ts`, `User.ts`, `Canon.ts`) | a user's graph with counts and stats | ingestSession, ingestUser, removeUser | HydraDB, the model; no lock between callers | a history written in pieces ends as one written at once; stats are of a whole history |
| HydraDB client (`packages/hydra`) | a causal bookmark per fiber, an identity registry | chunked writes, deletes, paged reads, retries | HydraDB over HTTP | a reported write is stored whole; a result is whole and of one state, no older than the floor |
| HTTP server (`packages/server`) | none | ingest, source index, ask, stats, slot, warm, sessions | every part above | a client reads its writes; 404 is told only of what is not there |
| Model client (`packages/llm`) | a response cache of files | generateObject | the provider, other processes | what was answered and cached is what is answered |
| Evaluation (`packages/eval`) | split file, witness, population records, gate record, freeze manifest, results | splits, gate, population, eval, freeze, merge-batches, replay-compare | files, the answer loop, the cache | the test half is not read before the gate; a merged result is the population; the last arm is qualified by what was frozen |
| Dataset loader, demo, tooling | files | decode, present, build | | |

`PROJECT.json` lists the same parts with their status, and 40 hazards with the line where
each bites and the properties that guard it.

What is hard here: several processes commit sessions of one user at once; a commit is a
long sequence of durable steps (lock, model calls, graph writes, transactions) that may
stop after any of them and be resumed by another process; the compare-and-swap that
publishes a snapshot uses values read many steps before; HydraDB may lose a write it
acknowledged and drops relationships without endpoints silently; the model answers
differently each time; a question is answered in many reads while the pointer moves.

## Modules

```
QueryMemory         what the manifest promises a reader            (abstract)
   ^ implemented by
IngestManifest      the transactions of one scope's manifest       IngestManifestProofs
   ^ extended by                ^ extended by
SourceCommit                 Projection
processes, lock, stages,     counts per scope, deltas,
graph, crashes               reconciliation
             SourceCommitProofs

CanonicalView       names, entities, chains, decisions   (operators)
   ^ SnapshotPlan   vertices and relations of a snapshot (operators)
Extraction          quotes, spans, parts of a text       (operators)
   ^ SourceIndex    the stages SOURCE_DURABLE and INDEXED: planes, artifacts
      ^ Consolidation   ENRICHED and CONSOLIDATED: decisions, snapshot graph, read-back
                                                                   ConsolidationProofs

GraphIdClaims       writers that claim 53-bit ids                  GraphWritesProofs
HydraWrites         one commitWrites: statements, chunks, retries  GraphWritesProofs
HydraReads          fibers, bookmarks, pages, lagging replicas
   ^ Requests       the handlers of the server                     RequestsProofs

TimeScope           dates, time phrases, perspectives    (operators)
   ^ Retrieval      one retrieval pass                   (operators)
      ^ Ask         a question, two passes, the moving pointer       AskProofs
Calendar            the days of some years, the reference of TimeScope

UserGraph           the older plane's graph              (operators)
   ^ LiveIngest     posts, histories, clearing, crashes            LiveIngestProofs

LlmCalls            processes over one cache of answers
   ^ Evaluation     the tools of the evaluation and their files    EvaluationProofs
```

Each `MC` module gives its specification small values; the `.cfg` files beside it are the
runs. `SourceCommit` and `Consolidation` model the same pipeline from two sides: the first
has the order of steps of several processes and abstracts what is stored to which draft a
revision has; the second has the data and takes a stage in one step, except for each
stored answer of the decider, the groups of a graph write that may be cut short, and what
may happen between a write and its read-back.

**IngestManifest.** The variables are columns (`state`, `ordinal`, `version`, `blocked`
for a non-retryable failure, `committedAt`; `snapState`, `evidence`, `attempt`) and the
`user_manifests` and pointer rows. Every operation in the code is a
`BEGIN IMMEDIATE .. COMMIT`, so it is one action; one that throws is rolled back and so is
not enabled; a replay the code answers from the stored row is a stutter. Callers are
arbitrary here, which also covers the operations that no production code calls today
(`activateIndexSnapshot`, `failUserIndexSnapshot`). A commit id is a model value with a
sort key (`CommitKey`), because `listScopeRevisions` orders by session ordinal and then by
commit id, and versions are given out in that order. Coverage of a snapshot is the set of
revisions its descriptor lists. `Reopen` is the backfill of the watermark columns when the
file is opened.

**QueryMemory.** Two sets, committed and visible. A step commits some revisions, or
publishes the whole committed set. `IngestManifest` implements it with `committed` the
COMMITTED rows and `visible` the revisions of the active snapshot.

**SourceCommit.** A worker is one call in one process; `pc` is the point it has reached and
`call` its locals. Every durable write, every read a later write depends on, and every
provider call is a step of its own, and other workers run in between. Manifest steps are
the actions of `IngestManifest`. `lock` has a holder per lock file; `lockFile` says which one
each process opens, as another name of the manifest gives another file name
(`LockNamings`). `graph` is what HydraDB
holds of each snapshot, one part per revision; `WriteGraph` may be acknowledged with parts
missing. `artifact` is the write-once draft of a revision, `decided` the revisions its
supersession chains weighed. The classification of errors is `Refused` (terminal) and
`LostRace` (retryable), split as `classifyFailure` splits them and in the order in which
`commitAndActivate` makes its checks. Decisions are stored chain by chain in the code and at once here: a repeated
store of the same chains is idempotent and of others is refused in both. `outcome` is the
last definite answer a client had.

**GraphIdClaims.** Two kinds of writer, an ordinary write and a recovery. Observing what
the graph holds, claiming each observed identity, claiming the own one, upserting, reading
back and clearing the quarantine are separate steps. The graph may start with whatever an
older release left. Vertex and relationship ids never meet and are one here. The client's
in-process identity registry (`Ids.ts`) refuses some of the same collisions earlier; it is
left out, so the model allows more.

**HydraWrites.** A plan is sequences of row sizes, one per statement. A chunk is what
`chunkRows` closes by count or bytes. A request may be stored and acknowledged, refused as
too much (nothing stored), conflict (repeated up to the limit), or be lost after being
applied. A relationship row whose endpoints are not stored is dropped and acknowledged, as
MATCH does. Deletions use the same loop.

**Projection.** `deltas`, `projection` and `counts` are the three tables; revisions come
of `IngestManifest`'s begin and advance. A caller applies a delta of a CONSOLIDATED or
COMMITTED revision at any time; one before its commit goes under the version it expects.
Rows may be damaged once; the run's properties were also checked with two faults, which
takes longer than a run should. What `reconcile` leaves alone, the counts of a scope with
neither a row nor a delta, the property names.

**Extraction, SourceIndex.** A text is a sequence of characters, of which some are white
space and some markdown; a quote is looked for as it stands, then normalised, then without
markdown, and its place is counted back to the turn. `planes` holds the source and index
vertices and relations. `StoreTranscript` and `StoreIndex` are stages: each writes its plan
group by group, as `HydraWrites` has it for one plan, and of an interrupted revision any
number of groups may be all that is written. What was extracted is stored before the index
and is not extracted again.

**CanonicalView, SnapshotPlan, Consolidation.** Names have match keys, entities names;
groups are closed as the code closes them, by union of each key's members with its lowest.
A snapshot's plan is its vertices with the properties that depend on other claims, and its
relations. `Decide` stores the decider's answer for one chain; `Enrich` takes the answers of
the chains of that moment; `Consolidate` stores the view, plans and writes; `Damage` strikes
between the writing and `Verify`, and what is not verified is written over. The decider
answers any set of pairs of a small choice, circles included.

**TimeScope, Calendar.** A date is the number YYYYMMDD, as in the code. `TimeScope` has the
arithmetic of `TimeScope.ts` on it: what days a phrase such as "last Tuesday" or "in March"
stands for on the day it is said, what days a claim's date may mean, and the cut of the
three perspectives. `Calendar` writes down the days of some years one after the other,
with their weekdays; the properties compare the two. Recognising a phrase in a question is
left out.

**Retrieval, Ask.** `Retrieval` has the pure operators of one pass: what each arm reaches,
caps, union by arm priority, the perspective's scope, which candidates are grounded,
selection, presentation order, merging of excerpts of one turn, and the reader's budget.
`Ask` binds a snapshot, runs the arms in any order their dependences allow, lets each meet
its limit, plans, selects, reads and judges, and may search once more, while `Publish` moves
the pointer. The selector, reader and judge answer anything. Abstractions: claims are
numbers, and the ranking's last tie-breaks (idf mass, recency, key) are their order; the
probes of a question are one arm and so are its sub-questions; slot seeds of discovery come
of candidates, without the entity-name seeds and their cap; excerpts merge at the
granularity of a turn; the legacy (non-snapshot) lane is left out.

**UserGraph, LiveIngest.** The graph of one user in the older plane, written with MERGE.
`LiveIngest` has each write, and each read a later write depends on, of `ingestSession`,
`ingestUser` and `removeUser` as a step; callers interleave, fail where HydraDB or the
model does, and end together in a crash. Only one whole history is written at a time, as
the script does it.

**HydraReads, Requests.** A fiber has a causal floor; a call is the pages of one query,
sent again from the first page when the engine says so; the engine answers a page from a
state at least as new as the floor, and anything later the replica has. `Requests` is the
server's handlers over it: which reads a request makes on which fibers (children start from
their parent's floor and do not give theirs back), where it stops, which status its
failures become. What an ingest or an ask decides is the subject of `LiveIngest` and `Ask`.

**LlmCalls, Evaluation.** A key stands for a whole request. Each process looks the key up,
takes a permit, asks, and writes the entry in two steps; nothing keeps two callers of one
key apart. `Evaluation` has the command-line tools over the files they leave for each
other; `splits` reads at its start, writes its witness (`SplitsObserve`) and then the split
file (`SplitsEnd`), so that another tool may run in between or a kill may leave one without
the other; a killed batch may leave a torn file; a user of the dataset may be ingested late, or in part.
A behaviour begins with nothing evaluated, or with a gate that passed and a freeze drafted.

## Runs

| Run | Expected | What it shows |
|---|---|---|
| `manifest` | holds | Two revisions of two sessions, two generations and three snapshots compete for the pointer with any caller in any order, including a snapshot verified early and activated late, re-activation (ABA) and reopening of a FAILED one. The inductive invariant of the proofs, the action properties, and the refinement of `QueryMemory`. |
| `commit` | holds | Two processes, two sessions of different extraction generations (a plan that covers both is refused for good), one lock file; a process death, an outage or lost graph write, a commitScope repair, calls to INDEXED and to COMMITTED. Committed means visible and whole, and what clients were told stays true. It also begins with two names of the manifest, where the lock excludes nobody and the transactions alone must keep what is committed visible and whole. |
| `commit_live` | holds | A begun session with sound data is published under a death, an outage and contention, also when the other session's write plan is one HydraDB rejects for good. |
| `projection` | holds | Three revisions' deltas in any order, early or twice, over tables damaged once: the projection is the sum of the deltas and, unless one was overtaken, of the commits; reconciliation restores that sum, or calls the row stale when a delta is missing between others. |
| `consolidation` | holds | Three revisions, one with stages cut short at every group, one that may fail for good, with names that join entities across revisions and quotes that cross the parts of a turn. The index is that of the stored artifact, spans have the quoted words, views are the partition by names, replacement ends, every stored enrichment makes a plan and the read-back accepts that plan only. |
| `graph_ids` | holds | Two writers and recoveries over three rivals for one id and a fourth identity, from every graph an older release may have left. |
| `hydra_writes` | holds | Chunks closed by rows and by bytes are refused, repeated, lost or rejected at any point of a three-statement plan committed twice. |
| `requests` | holds | A post beside any other request, over replicas that lag, results of two pages and one page too many, retried and final failures, two keys with one number, and a graph that holds a claim or a turn of another scope. |
| `ask` | holds | One question over three snapshots with caps that bite in every arm, any selector, reader and judge, and a second pass; one claim fails each cut of the perspective. In its initial states, every checked time phrase on nine days around the ends of months, years, weeks and February. |
| `live_ingest` | holds | Two callers write a history, write it again, clear it, and post sessions beside it; two failures or a crash anywhere. |
| `live_ingest_df` | violated | Two posts, one after the other: the second sets its tokens' counts to zero before it reads them. |
| `eval` | holds | Two processes share the cache and the files: dev runs, gate, splits, freeze, replay, test arm in two batches, a kill, a late ingestion; from nothing evaluated and from a drafted freeze. |

The violated run is a disagreement between the code and a sentence of its documents, quoted
under `findings`. More disagreements were met and are described with their hazards, without
a run of their own:

- of two sessions enriched newest first neither is weighed against the other, although
  `SupersessionDecision.ts:27` has all claims known to fill a slot in its chain;
- chains are grouped over all INDEXED revisions and the view over the covered ones, so a
  link may join two slots of a snapshot, although `SupersessionDecision.ts:130` says both
  agree on the partition;
- the second collision of an id leaves no quarantine of its own (`GraphClaims.ts:35`);
- a second reading that abstains over excerpts its search did ground replaces the first
  pass's answer (`src/docs/design-rationale.md:461`); `HuntLosesNothing` admits it, and asks
  for the first answer itself when the second search grounds nothing;
- a gate record that failed opens the test half as one that passed does (`Gate.ts`);
- "february 29" said in a common year ends on 2 March (`TimeScope.ts:230`);
- two names of one manifest have two lock files that exclude nobody
  (`IngestCommitLock.ts:112`): a race then blocks an innocent revision for good, or clears
  a recorded refusal.

### Bounds

- Two or three revisions: every hazard listed for the manifest and the pipeline is between
  two sessions, or between a session and an earlier state of itself; names need a third
  revision to be joined late, and deltas a third to leave a gap. Two processes, as the lock
  and the swap are each between two.
- `MaxBuilds` 2 allows one reopening of a FAILED snapshot, so stale evidence would be seen.
- `MaxCrashes`, `MaxOutages`, `MaxRepairs`, `MaxFaults`, `MaxDamages`, `MaxFailures` bound
  faults, not retries: clients repeat calls without bound, except that `live_ingest` begins
  `MaxCalls` 3 calls and `eval` `MaxRuns` 3 runs of eval; where `eval` begins with a part of
  the cache lost, it has those runs but no run of splits and no kill.
- With two names of the manifest there is no other fault and no call to INDEXED
  (`SourceCommitInit`, `CallIngest`).
- `ChunkBytes` 4 gives turns of one, two and three parts. `Interrupted` names one of the
  three revisions; stages of different revisions touch different vertices.
- `Fragile` are the labels and relation types damage strikes: one that holds others, one
  counted, and two relations of which the read-back sees one from each side.
- `MaxRows` 5 halves twice before 1; one row is over the byte budget alone; `MaxCalls` 2 is
  one repetition by the caller; `MaxAttempts` 2 is one repetition by the client.
- `PageRows` 1 and `MaxPages` 1 (beyond the first): one row, two pages, and a page too many.
- `Caps` of `ask` are 1 to 5 over seven claims, so that each of them drops something. The
  years of the calendar, 2022 to 2026, have a leap year in their middle.
- `Replies` and `Mixes` of `live_ingest` are bounds: some answers of the model, circles
  included, and which kinds of call one behaviour mixes.

Symmetry is used where a run has no temporal property beyond safety and its values are
interchangeable (the two callers of `live_ingest`, processes on one lock file, rival
identities). Deadlock is not checked where the modelled work really ends: an answered
request, a plan committed `MaxCalls` times, every revision consolidated or failed for good,
sessions whose clients have their answers, no run of a tool left.

Type invariants are in every module with variables. Those of `IngestManifest`,
`GraphIdClaims` and `HydraWrites` are parts of their invariants and proved, and those of
`SourceCommit`, `Requests` and `Evaluation` are proved; the others
(`ProjectionTypeOK`, `LiveTypeOK`, ...) document the variables and were checked beside
the runs' properties, but are in no run: every run's properties say more than a type.

### Fairness

- `commit_live`: weak fairness of each worker's steps (a live process goes on, and locks
  are released by the operating system at a death), and strong fairness of the client of
  each revision repeating its commit call. The code asks for that: every error but a
  recorded terminal failure is retryable, and ADR-0001 makes retries the way a source
  reaches COMMITTED. Strong, because another call may come first again and again. Crashes
  and outages are bounded, that is, they end. The run has one caller per session
  (`DuplicateCalls = FALSE`): with several, a caller may find the lock taken for ever, as
  the lock does not queue.
- `hydra_writes`: weak fairness of the request under way: it is answered, if by an error.
- `projection`: weak fairness of reconciliation, and of applying the delta of each
  committed revision: callers repeat both. Damage is bounded.
- `ask`: weak fairness of the request's steps. Every read has a ceiling
  (`withSnapshotReadTimeout`) and model calls end.

That a client is *acknowledged* is not claimed: after its loop the call takes the lock
again (`TransactionalSourceIndex.ts:522`) and may lose it each time although its revision
is published.

## Proofs

TLAPS checks the theorems for every value of the constants that meets the named
assumptions of each module. They assume no bound on revisions, snapshots, writers,
identities, rows or attempts, except that what is counted or sorted is finite, and of the
length of a text only what `TextsAreShort` says.

**IngestManifestProofs.** `IndInv` is the conjunction of the checked invariants with two
facts they need: the pointer's version is never ahead of the manifest's, and ordinals in
use are below the next. `CommitsAreNumbered` is what carries the rest: `Place` orders the
revisions one transaction commits without ties because commit ids are distinct
(`PlaceInjective`), lies in `1..n` (`PlaceInRange`), and so versions are fresh and the
manifest version still counts the commits. `CoverageAtVersion` needs it, since a commit
by `advance` must get a version above the pointer's. `StepIndInv` is assembled from one
lemma per group of variables (types, snapshots, numbering, ordinals, failures). From it:
`ActivePointerIsSound`, `EvidenceIsSound`, `CommitNumbering`, `CoverageIsExact`,
`OrdinalsAreSound`, the action properties `NothingIsForgotten`,
`TerminalFailureIsRespected`, `EvidenceIsImmutable`, `PublicationHolds` (a step that moves
the pointer covers what is COMMITTED in the state it leaves), and the refinement
`ManifestImplementsQueryMemory` (`InitMemory`, `StepMemory`).

**SourceCommitProofs.** The proof is in two layers. `PipelineInv` holds for any lock files,
processes and faults. It says of each worker what its place entitles it to (`Locals`: the
stage that runs is the successor of the state it read, a coverage consists of known
revisions with drafts), that a revision is ENRICHED only once its chains are decided, that
evidence is the digest of drafts and decisions that are written, and that a verified
snapshot is whole in the graph. Drafts and decisions are write-once, so a digest that was
right stays right (`KeepsSettled`). Each action gets its own case in `WorkerStored`, and
`StepPipelineInv` also gives `PipelineImplementsManifest`: with it `IndInv` and every
theorem about the manifest hold of the pipeline. From it follow `EvidenceStaysTrue`,
`ServedGraphIsWhole` and, with the ranges of the counters, `PipelineTypeCorrect`.

`LockedInv` adds what one lock file gives. A worker past `Acquire` holds the file
(`StepLockInv`), so whoever steps beside it does nothing it reads
(`UnlockedDisturbNothing`, `OthersKeepReads`): begin and the declaration of a generation
are all a call does outside. Hence the loop's state, the surveyed pointer, the listed
coverage and the version are those of now when they are used (`LoopReads`, `ScopeReads`),
a rebuilt snapshot that was served before cannot have a revision left to commit
(`ServedAreCommitted`), and so commits happen in the terminal transaction only. The
theorems `CommittedStaysVisible`, `SwapIsUncontended` and `AnswersAreFinal` assume
`OneLockFile` in the initial state; without it nothing is proved, and the run `commit`
checks two processes.

The module's last section is about `Projection`, over the same manifest. `ProjInv` says that
the stored deltas are counts and, as long as nothing was damaged, that they are numbered
without gap and the rows are their sum. A sum is the number of elements of a disjoint union
(`Total`, `Units`), so that a delta more adds itself (`TotalGrows`). `ProjectionHolds`
follows with `CommitsAreNumbered`: a version the rows have reached belongs to a delta, and
the commit with that version is the delta's own unless one was overtaken. Damage only counts
a fault, so nothing is proved about it; the run `projection` checks the repair, and that a
row is called stale while a delta is missing between others.

**GraphWritesProofs**, of the claims and of the writes. `GraphIdInv` says of each writer what its place entitles it to:
one about to write owns the claim of its id, and one that has observed holds a set that
still has to be claimed. `ClaimOwnsRecord` is preserved because a writer claims what it
observed before its own identity, and because only the claim's owner writes
(`OwnerWrites`). `RecordsNeverMerge` and `QuarantineOutlastsRebuild` follow from it step
by step. Records are compared for every function `Reduced`, so nothing is assumed about
the hash.

Of a write, `AcknowledgedAreStored` strengthens the invariant: statements before the current
one are stored whole, and of the current one the rows before `pos`. A refused chunk moves
neither. As vertices come first in `Statements`, `EndpointsFirst` follows, and
with it that an acknowledged relationship row was stored and not dropped.

**AskProofs.** `AskInv` says that whatever is retrieved, read or replied is of the snapshot
it is labelled with and within the perspective, that a pass has bound a snapshot, and that
only a reading is judged. It rests on what the operators of `Retrieval` return
(`ScopedInPerspective`, `SelectionKeepsCandidates`, `PackIsEvidence`): slot mates are not cut
when they are read, so it is the scope of the planned union that keeps them out. From it
`OneSnapshotHolds` and `AsOfHolds` (`NothingFromLater`) for any snapshots, limits, budget,
perspective and question, and `HuntHolds`, which assumes that no tier refuses an answer
(`AbstainTiers = {}`), as `Sufficiency.ts` has it in this release. `HuntInv` adds that what is
selected, read and judged was grounded by the search of its own pass: a reply of a search that
grounded nothing can only come from `Plan`, which hands out the first answer.

`AbsenceHolds` has an invariant of its own. A cap keeps the claims that rank first, and a
rank is a count of a finite set, so a claim that is dropped leaves behind one that converges
at least as well (`AbsInv`). An empty set of grounded candidates then means that no claim of
an uncapped arm was grounded either. It needs finitely many claims and query terms and an
arm that may return something (`Caps.arm > 0`; `ARM_CAP` is 60, `Arms.ts:36`).

`PeriodsAreTheLatest` and `PerspectiveHolds` (`PerspectiveIsKept`) are about dates. The code
does arithmetic on what `Date.UTC` and the fields of a `Date` return, with division and
remainder; the reference is a calendar written down day by day, where a day is a date and
its rank is the number of dates before it. The lemmas bring the two together: the fields of a
`Date` are the date it was made of (`ThereAndBack`), so no day is skipped (`NextDay`,
`NoGap`) and the difference of two ranks is the difference of the code's day numbers
(`RankIs`). From there days, months and years are added and compared (`DaysAdded`,
`WeekdayIs`, `MonthsAdded`, `MonthIs`, `YearIs`), and each kind of phrase is one lemma
(`AgoDay`, `AgoWeek`, `AgoMonth`, `AgoYear`, `LastWeekday`, `InWeekend`, `NamedMonth`,
`NamedDay`, `DatedIs`). Periods that overlap share a day (`OverlapsShare`), and the
slack for what says no date is at most a week (`SlackIsNear`); `CutIsOfThePeriod` puts these
together. `PerspectiveIsKept` says something only when a period is asked about: without one
the code cuts only what comes later (`NothingFromLater`) and, by recorded time, what was
never accepted.

**RequestsProofs.** `IInv` says of every call what part of which committed state its rows
are, of every fiber that its floor bounds its calls from below, and of every request what
the reads behind it have established, by its place. The rows read are a prefix of `Found` of
one state: `Found` is stated by rank (the i-th match is the one with i - 1 matches before
it), and `RankRises` and its companions make that a sequence. From it `ReadsAreWhole`,
`AsksReadTheirWrites` (a child's floor is its parent's and a floor only grows),
`ReportsAreAboutTheUser` (a failed read leads to another status), `ServedSpansAreSound` (the
source of a claim is looked up by key and compared by scope) and `RequestsAreTyped`, for any
number of callers, page size, retries, and graph.

**EvaluationProofs.** `EvalInv` says what a file owes to the files before it: `GateInv` (a
test key is in a slice only after a gate record), `SeenInv` (who was seen complete stays so),
`FrozenInv` (a frozen run and its output have the population the manifest lists),
`MergeInv` (a merged result is that of its batches) and `PinInv` (a report of identical
answers is about the pinned dev rows, unless one was written since - `drifted` remembers
that). From it `TestIsClosed`, `MergesAreWhole` and the action properties
`LastArmIsQualified` and `SettledAnswersStay`, for any split, processes, batches and kills.
A gate record names its result by path only, so that the dev result may have been written
again after it; it is the manifest that pins rows, and the theorem is about those.

**ConsolidationProofs.** `PlaneInv` describes what the planes hold of a revision by the stage
it has reached: nothing but a part of its transcript, then all of it and a part of its
index, then both (`IndexHolds`). The plans of two revisions have no vertex in common but the
scope and no relation into one another's (`OthersKeep`), and merging a part twice is merging
it once. `BuildInv` carries the read-back: what a snapshot covers is settled, so each attempt
writes the same plan (`PlanKept`), and a graph under it, however damaged, has vertices of
that plan only. `ReadBackHolds` then compares, type by type, what the two walks of the
verification observe with what was planned; a relation from a stray vertex into the root is
what neither walk would see. `StrangerIsNoVertex` says that the stray vertex of the model
has none of the snapshot's labels.

`ReplacementsEnd` is proved from what a chain is. What the index takes has a turn and a span
within it, as numbers (`ExtractedAreClaims`, over the three ways `locateSpan` finds a
quote), so `Before` compares the claims of a chain by six numbers and is a total order of
them (`LexIsTotal`); what is sorted by rank in a total order is in order
(`ByRankIsOrdered`). A pair the decider answers therefore leads from a claim to one of a
later `Place` - session, turn, offset, digest, commit - whichever revision asked, and since
artifacts stay (`ArtifactsStay`) so do the places (`LinkInv`). Places of the claims there
are form a finite total order, so any set of claims has a last one, which no claim of the
set replaces (`ForwardEnds`). A digest has to tell claims apart: `claimDigest` is a number in
base 100, and `TextsAreShort` keeps texts below that, in the place of a hash without
collisions; it is also what makes the revisions finite.

`ViewsArePartitions` is about names. A view is built by joining the ends of one link after
another, a fold whose recursive function is shown to exist first (`JoiningExists`). Whatever
part of the links has been joined, the groups are a partition, hold the ends of each of those
links, and lie within every set of identities that no match key leaves (`Grouped`); once all
are joined no key leaves a group, so groups are the classes that keys connect, in whichever
order they were joined. `PlansAreMade` adds that what was extracted names entities there are
(`KnownInv`), so that every reference of a plan has its vertex, and that links lead forward
(`LinkInv`), so that none replaces a claim of a later session.

`EvidenceHolds` compares letters. `locateSpan` finds a quote as it stands, or in the text
without white space, or without markdown as well, and counts the place back; the proof
shows that a stretch found in what a filter keeps has, in the text, the letters of the quote
(`LooselyQuotes`), and that the parts a turn is cut into
(`ChunkBytesAssumption`: at least one character each) put end to end are the turn
(`TextInv`, `QuoteInv`). `ExtractedIsAccepted` says that none of this is vacuous: what the
extraction accepts, the index never refuses.

**LiveIngestProofs.** Callers share a graph without a lock, so `LiveInv` says who may be at
work beside whom (`OneHistory`; `Apart`: nothing is posted while the user is cleared, and no
session by two callers), that a stored claim has the ordinal its session was first given,
whoever writes it again (`Ordinals`), and that what a caller was told to replace still fits
the graph when it writes: both claims fill one slot, and the ordinals do not fall
(`Replaced`, `Fits`). Between the decision and the write others only add to the graph
(`Grows`), or clear it, and then the write fails. That a position of a slot's history holds
a claim of the slot is `EveryRankIsTaken`: in a finite total order each rank is some
member's. From it `ReplacementsHold`, for any callers, sessions, answers and failures, of
histories whose sessions differ (`HistoryAssumption`), as long as nothing was `"crossed"`.

`HistoryInv` is about the caller that writes a whole history. The graph it leads to is
written down as a function of the answers alone, `WholeGraph(answers)`, and the invariant
says that what is stored is a part of it (`Within`), that answers stay as given and counts,
replacements and a settled graph come of them (`Answered`), and what each step may rely on
(`Progress`: sessions before `at` are written and linked, then counts are exact, then the
edges are those of the answers). Its heart is that a run over a graph that already has some
of the names decides as the first run did (`ReconcilingAgain`): reconciliation joins names
that share a key, so a stored name, having a group's canon and its aliases as decided before,
joins nothing that was apart. Groups are the least sets that shared keys keep together
(`ComponentsAre`), whatever the order of the fold. A run that is
repeated therefore writes what is there, and once counts have been stored everything is
there and stays (`Complete`). `HistoriesLeaveOneGraph` and `StatsStandBesideAll` follow;
`MaxFailures` and `MaxCalls` play no part. TLC checked `HistoryInv` on the instance of
`live_ingest` before it was proved; that run keeps the two properties.

The assumptions say what values the program can be given: commit keys that differ
(`CommitKeyInjective`), sentinels that are no data (`NoneIsNull`, `NoneIsNoFile`,
`KeysOfGraph`), entities and names that are among those given (`EntitiesAreKnown`,
`EntitiesAreContentAddressed`, `NamesAssumption`), a split whose halves are disjoint and finite (`SplitIsAPartition`), pages of
rows (`CallersAsk`), finite sets where the code counts. For dates: the calendar is of
consecutive years without the last of a century (`YearsAreConsecutive`), begins with the
weekday of its first day (`CalendarBegins`), and goes far enough to hold the days a phrase
may stand for, and a year more (`QuestionsAreInTheCalendar`; a day of a month that some years
lack, the 29th of February, is not asked for without its year); claims have dates of it
(`ClaimsAreInTheCalendar`), although nothing in the code checks that what the model of the
extraction gives as an event's date is one. Where the code orders by a
comparison the proofs had to reason about, the model states the order by rank; where it only
lists (`eligible`), by a sequence of the set.

Only model-checked is liveness (`BegunIsPublished`, `Terminates`, `IsAnswered`,
`ReconciliationRestores`, `CommitsAreProjected`): it and anything with ENABLED are out of the
prover's reach.

## Not modelled

- Canonical JSON and hashing (`SourceIdentity.ts`, `ExtractionArtifact.ts`,
  `MemoryScope.ts`): an identity is a model value and equal content has an equal id.
- Tokenisation, stemming and the recognition of time phrases (`Tokenize.ts`,
  `Understand.ts`): words have their stems, names their keys, phrases their parts.
- Schema migrations other than the watermark backfill.
- `packages/eval/bin/backfill-user.ts`, a migration run by hand that gives a user of an older
  release its root, edges and stats: `StatsMeanComplete` is about the services only, and the
  evaluation knows nobody who becomes complete in this way.
- The legacy query lane (`LegacyG3Adapter.ts`) and the switches of ablations: they are kept
  for comparison and no production path takes them.
- Of the evaluation: tables, baselines, reader comparisons, load tests, rescoring and the
  statistics that qualify a result; of the model client: streaming and embeddings.
- The dataset loader, the demo and the tooling: decoding and presentation.

## Plan

1. Done: the modules above, the proofs of the manifest, the pipeline, the claims, the
   writes, the question's snapshot and absence, the requests, the evaluation's files, the
   index, quotes, views, plans, the read-back and the order of replacements, the replacements
   and the whole histories of the older plane, the projection, the calendar.
2. Prove more: the type invariants of `Projection` and `LiveIngest`; the calendar with the
   last years of centuries.
3. Extend: `Ask` over `HydraReads` instead of over the latest graph, the partial failure of
   a post and its repetition, the qualification arithmetic of the evaluation.

## Running

`tlc -workers 2 -config MCAsk.cfg MCAsk` checks a run, `tlapm IngestManifestProofs.tla` a
module's proofs. The longest run, `manifest`, takes about three minutes on two cores.
