----------------------------- MODULE Evaluation -----------------------------
(***************************************************************************)
(* The evaluation of retrieval v2 (packages/eval): tools that run as        *)
(* processes of their own over files of the repository, and the order they  *)
(* force on each other.  The dev half is answered and a gate read on it     *)
(* once; then the test half may be answered.  The last arm runs under a     *)
(* freeze manifest that pins the evidence: the dev half is replayed from    *)
(* the cache in batches and compared, the maintainer signs, and the test    *)
(* half is answered in batches.                                            *)
(*                                                                         *)
(* Answering a question is one provider call here, keyed by the question    *)
(* and standing for the chain of them; an answer stands for a row without   *)
(* its measurements.  A tool that only reads and writes files at its end is *)
(* one step.                                                               *)
(***************************************************************************)
EXTENDS LlmCalls, Sequences, SequencesExt, FiniteSetsExt

CONSTANTS
  None,
  Dev, Test,        \* the split: sequences of questions
  Slice,            \* the questions of a run with --slice
  Abstention,       \* the questions whose right answer is to refuse
  TypeOf,           \* the type of each question
  Does,             \* the tools each process may run
  DevRows,          \* rows of the dev half that pass the gate, and
  Kept,             \* the sets of those whose answers the cache may still have: it is not committed
  V1,               \* the rows of the retired system on the dev half
  Batches,          \* the batches of each frozen arm
  Visible0,         \* how much of each question's user the graph shows at first
  MinGain, MaxRegression, MaxFalsePct,    \* GATE_BOUNDS
  Concurrency,      \* the questions the runs of each process work on at once
  MaxRuns, EarlyRuns, MaxSplits, MaxCrashes    \* bounds on runs of eval, from a first state and
                    \* from one with nothing evaluated; on runs of splits; on kills (of these
                    \* two, none in a behaviour that begins with a part of the cache lost)

Idle == [tool |-> "idle"]
Halves == {"dev", "test"}
Frozen == {"dev-replay", "test-arm"}
Kinds == Frozen \cup {"dev", "test", "slice"}

Half(split) == IF split = "dev" THEN Dev ELSE Test
SplitOf == [k \in Kinds |-> CASE k \in {"dev", "dev-replay"} -> "dev" [] k = "slice" -> None [] OTHER -> "test"]

VARIABLES
  run,              \* what each process does
  visible,          \* how much of each question's user the graph shows
  splitFile,        \* data/splits/retrieval-v2.json
  witness,          \* retrieval-v2.reconcile.json
  records,          \* population-dev.json and population-test.json
  results,          \* the result files
  manifest,         \* retrieval-v2.freeze.json
  drifted,          \* whether a pinned file was written since
  report,           \* the replay report
  gateRecords,      \* how many gate records were ever written
  spent             \* runs of eval, runs of splits, kills

files == <<visible, splitFile, witness, records, results, manifest, drifted, report, gateRecords>>
evalVars == <<callVars, run, files, spent>>

ASSUME SplitIsAPartition ==
  /\ {Dev, Test, Slice} \subseteq Seq(Keys)
  /\ Keys = Range(Dev) \cup Range(Test) /\ Range(Dev) \cap Range(Test) = {}
  /\ \A arm \in Frozen : Batches[arm] \in Nat \ {0}
  /\ Does \in [Procs -> SUBSET (Kinds \cup {"splits"})]
  /\ Visible0 \in [Keys -> {"missing", "partial", "complete"}]
  /\ DevRows \in [Range(Dev) -> Answers] /\ Kept \subseteq SUBSET Range(Dev)

Outputs(arm) == {<<arm, i>> : i \in 0 .. Batches[arm]}
Whole == {<<"dev", 0>>, <<"test", 0>>}
Paths == Whole \cup UNION {Outputs(arm) : arm \in Frozen}

Begin(p, what) == run[p] = Idle /\ run' = [run EXCEPT ![p] = what]
End(p) == run' = [run EXCEPT ![p] = Idle]
Drift == drifted' = (manifest # None)
Spend(what) == spent' = [spent EXCEPT ![what] = @ + 1]

-----------------------------------------------------------------------------
\* The gate: what was right, refused, and lost by type.
Judged(q, a) == IF q \in Abstention THEN a = "refused" ELSE a = "right"
Correct(rows, qs) == {q \in qs \cap DOMAIN rows : Judged(q, rows[q])}
Answerable(rows) == DOMAIN rows \ Abstention
Refused(rows) == {q \in Answerable(rows) : rows[q] = "refused"}
OfType(t) == {q \in Keys : TypeOf[q] = t}

worstTypeRegression(v1, v2) ==
  Min({0} \cup {Cardinality(Correct(v2, OfType(t))) - Cardinality(Correct(v1, OfType(t))) : t \in Range(TypeOf)})

Gain(v1, v2) == Cardinality(Correct(v2, Answerable(v2))) - Cardinality(Correct(v1, Answerable(v1)))

\* quick: the latency and reader-token criteria, which the answers do not decide.
readGate(v1, v2, quick) ==
  /\ Gain(v1, v2) >= MinGain
  /\ worstTypeRegression(v1, v2) >= -MaxRegression
  /\ 100 * Cardinality(Refused(v2)) <= MaxFalsePct * Cardinality(Answerable(v2))
  /\ Cardinality(Correct(v2, Abstention)) >= Cardinality(Correct(v1, Abstention))
  /\ quick

overwriteRefusal(gate) == gate # None

\* gate --write
Gate(quick) ==
  /\ results[<<"dev", 0>>] # None
  /\ ~overwriteRefusal(splitFile.gate)
  /\ splitFile' = [splitFile EXCEPT !.gate = [passed |-> readGate(V1, results[<<"dev", 0>>].rows, quick)]]
  /\ Drift
  /\ gateRecords' = gateRecords + 1
  /\ UNCHANGED <<callVars, run, visible, witness, records, results, manifest, report, spent>>

-----------------------------------------------------------------------------
\* The split file and the population: who is completely in the graph.
observe == [q \in Keys |-> visible[q]]

exclusions(w) == {q \in Keys : w[q] # "complete"}

completionFromWitness(w, tripped) ==
  IF exclusions(w) = {} THEN "complete" ELSE IF tripped THEN "capacity-capped" ELSE "unknown"

\* The rest of a half, in one order: which one it is tells no two results apart.
eligible(s, excluded) == SetToSeq(Range(Half(s)) \ excluded)

\* What the tools write, in the fields the others read.
SplitFile ==
  [gate : {None} \cup [passed : BOOLEAN], excluded : SUBSET Keys,
   completion : {"complete", "capacity-capped", "unknown"}, tripped : BOOLEAN]

PopulationRecord ==
  [excluded : SUBSET Keys, completion : {"complete", "capacity-capped", "unknown"}, verified : BOOLEAN, clean : BOOLEAN]

\* A pin by digest stands for the rows of what it pins.
EvaluationFreeze ==
  [gate : [passed : {TRUE}], signed : BOOLEAN, eligible : [Halves -> Seq(Keys)],
   alreadyRead : UNION {[D -> Answers] : D \in SUBSET Keys}]

EnvelopeRecord ==
  [rows : UNION {[D -> Answers] : D \in SUBSET Keys}, population : SUBSET Keys, signed : BOOLEAN, live : BOOLEAN]

ASSUME NoneIsNoFile ==
  None \notin EvaluationFreeze /\ None # Torn /\ None # "identical" /\ Torn \notin EnvelopeRecord

EvalEnvelope(rows, pop, signed, live) == [rows |-> rows, population |-> pop, signed |-> signed, live |-> live]

buildPopulationRecord(w, tripped, clean) ==
  [excluded |-> IF w = None THEN {} ELSE exclusions(w),
   completion |-> IF w = None THEN "unknown" ELSE completionFromWitness(w, tripped),
   verified |-> w # None, clean |-> clean]

buildFreezeDraft(gate, w, dev) ==
  [gate |-> gate, signed |-> FALSE, alreadyRead |-> dev, eligible |-> [s \in Halves |-> eligible(s, exclusions(w))]]

\* The split file is committed before the first result, after a first
\* reconciliation.  A behaviour begins there, or once the gate has passed and
\* the freeze manifest is drafted.
Split0(gate) ==
  [gate |-> gate, excluded |-> exclusions(Visible0), tripped |-> exclusions(Visible0) # {},
   completion |-> completionFromWitness(Visible0, TRUE)]

Cached == {q \in Keys : cache[q] # Absent}

Unevaluated ==
  /\ CallsInit
  /\ splitFile = Split0(None) /\ records = [s \in Halves |-> None]
  /\ results = [f \in Paths |-> None]
  /\ manifest = None /\ gateRecords = 0

Drafted ==
  LET passed == [passed |-> TRUE] IN
  /\ calls = [p \in Procs |-> [k \in Keys |-> NoCall]]
  /\ \E kept \in Kept : cache = [k \in Keys |-> IF k \in kept THEN DevRows[k] ELSE Absent]
  /\ splitFile = Split0(passed) /\ records = [s \in Halves |-> buildPopulationRecord(Visible0, TRUE, s = "dev")]
  /\ results = [f \in Paths |-> IF f = <<"dev", 0>>
                  THEN EvalEnvelope(DevRows, Range(Dev), FALSE, TRUE) ELSE None]
  /\ manifest = buildFreezeDraft(passed, Visible0, DevRows)
  /\ gateRecords = 1

EvalInit ==
  /\ run = [p \in Procs |-> Idle]
  /\ visible = Visible0 /\ witness = Visible0
  /\ drifted = FALSE /\ report = None
  /\ \/ Unevaluated /\ spent = [runs |-> MaxRuns - EarlyRuns, splits |-> 0, kills |-> 0]
     \/ Drafted /\ Cached = Range(Dev) /\ spent = [runs |-> 0, splits |-> 0, kills |-> 0]
     \/ Drafted /\ Cached # Range(Dev) /\ spent = [runs |-> 0, splits |-> MaxSplits, kills |-> MaxCrashes]

SplitsBegin(p, check, tripped) ==
  /\ spent.splits < MaxSplits /\ Spend("splits")
  /\ Begin(p, [tool |-> "splits", check |-> check, existing |-> splitFile, read |-> IF check THEN None ELSE witness,
               tripped |-> tripped \/ splitFile.tripped])
  /\ UNCHANGED <<callVars, files>>

\* splits --check: who is in the graph is written down before the split file is.
SplitsObserve(p) ==
  /\ run[p].tool = "splits" /\ run[p].check
  /\ witness' = observe
  /\ run' = [run EXCEPT ![p] = [@ EXCEPT !.check = FALSE, !.read = observe]]
  /\ Drift
  /\ UNCHANGED <<callVars, visible, splitFile, records, results, manifest, report, gateRecords, spent>>

\* The whole file is written, with the gate as it was at the beginning.
SplitsEnd(p) ==
  LET w == run[p].read
      done == IF w = None THEN "unknown" ELSE completionFromWitness(w, run[p].tripped) IN
  /\ run[p].tool = "splits" /\ ~run[p].check
  /\ splitFile' = [gate |-> run[p].existing.gate,
                   excluded |-> IF w = None THEN {} ELSE exclusions(w),
                   completion |-> done, tripped |-> done # "complete" /\ run[p].tripped]
  /\ Drift
  /\ End(p)
  /\ UNCHANGED <<callVars, visible, witness, records, results, manifest, report, gateRecords, spent>>

RowsOf(path) == IF results[path] \in {None, Torn} THEN {} ELSE DOMAIN results[path].rows

ingestionHolds(w, completion, tripped) ==
  /\ w # None
  /\ completion # "unknown"
  /\ completion = "capacity-capped" <=> tripped
  /\ completion = "complete" <=> exclusions(w) = {}

populationGate(s, excluded, completion) ==
  LET evaluated == RowsOf(<<s, 0>>)
      selected == Range(eligible(s, excluded)) IN
  /\ evaluated \subseteq selected
  /\ completion # "unknown" => selected \subseteq evaluated

\* population --split s
Population(s) ==
  LET tripped == splitFile.tripped
      record(clean) == buildPopulationRecord(witness, tripped, clean)
      of == record(FALSE) IN
  /\ results[<<s, 0>>] # Torn
  /\ records' = [records EXCEPT ![s] =
       record(ingestionHolds(witness, of.completion, tripped) /\ populationGate(s, of.excluded, of.completion))]
  /\ Drift
  /\ UNCHANGED <<callVars, run, visible, splitFile, witness, results, manifest, report, gateRecords, spent>>

\* ingest-slice: a user of the dataset is ingested after all, or in part.
Ingest(q) ==
  /\ visible[q] # "complete"
  /\ \E how \in {"partial", "complete"} : visible' = [visible EXCEPT ![q] = how]
  /\ UNCHANGED <<callVars, run, splitFile, witness, records, results, manifest, drifted, report, gateRecords, spent>>

-----------------------------------------------------------------------------
\* freeze --draft: pins what is committed; the manifest is never written over.
Draft ==
  /\ manifest = None
  /\ splitFile.gate # None /\ splitFile.gate.passed
  /\ witness # None /\ results[<<"dev", 0>>] # None /\ \A s \in Halves : records[s] # None
  /\ manifest' = buildFreezeDraft(splitFile.gate, witness, results[<<"dev", 0>>].rows)
  /\ drifted' = FALSE
  /\ UNCHANGED <<callVars, run, visible, splitFile, witness, records, results, report, gateRecords, spent>>

\* Fault: what is pinned is not hashed again.
PinsUnread == TRUE

artifactFindings == ~drifted

populationFindings ==
  /\ \A s \in Halves : manifest.eligible[s] = eligible(s, exclusions(witness))
  /\ splitFile.excluded = exclusions(witness)
  /\ \A s \in Halves : /\ records[s].excluded = exclusions(witness)
                       /\ records[s].completion = "capacity-capped" /\ records[s].verified

gateFindings == splitFile.gate = manifest.gate

alreadyReadFindings == results[<<"dev", 0>>] # None /\ RowsOf(<<"dev", 0>>) = Range(Dev)

contractFindings == \A arm \in Frozen : Len(manifest.eligible[SplitOf[arm]]) % Batches[arm] = 0

\* Whether the manifest qualifies the arm: no finding of any kind.
freezeFindings(arm) ==
  /\ manifest # None
  /\ artifactFindings
  /\ populationFindings /\ gateFindings /\ alreadyReadFindings /\ contractFindings
  /\ arm = "test-arm" => results[<<"test", 0>>] = None /\ manifest.signed

\* External: the maintainer resolves the last blocker and signs, by hand.
SignOff ==
  /\ manifest # None /\ ~manifest.signed
  /\ report = "identical"
  /\ manifest' = [manifest EXCEPT !.signed = TRUE]
  /\ UNCHANGED <<callVars, run, visible, splitFile, witness, records, results, drifted, report, gateRecords, spent>>

-----------------------------------------------------------------------------
\* eval: the refusals before a run, the questions, the rows, the file.

\* Fault: the test half is open before the gate is read.
AlwaysOpen(split) == TRUE

testGateRefusal(split) == split = "test" => splitFile.gate # None

leakedTestIds(split) == split = None => splitFile.gate # None \/ Range(Slice) \cap Range(Test) = {}

batchOf(items, i, n) ==
  LET size == (Len(items) + n - 1) \div n IN
  SubSeq(items, (i - 1) * size + 1, Min({i * size, Len(items)}))

population(k) ==
  CASE k \in Frozen -> manifest.eligible[SplitOf[k]]
    [] k = "slice" -> Slice
    [] OTHER -> Half(SplitOf[k])

sliceOf(k, i) == Range(IF k \in Frozen THEN batchOf(population(k), i, Batches[k]) ELSE population(k))

notIngested(slice) == {q \in slice : visible[q] = "missing"}

EvalBegin(p, k, i, skipMissing) ==
  /\ spent.runs < MaxRuns /\ Spend("runs")
  /\ k \in Frozen => freezeFindings(k) /\ ~skipMissing
  /\ testGateRefusal(SplitOf[k])
  /\ leakedTestIds(SplitOf[k])
  /\ LET slice == sliceOf(k, i)
         gone == notIngested(slice) IN
     /\ gone # {} => skipMissing /\ SplitOf[k] # "test"
     /\ Begin(p, [tool |-> "eval", kind |-> k, index |-> i, slice |-> slice \ gone,
                  population |-> Range(population(k)),
                  signed |-> k \in Frozen /\ manifest.signed])
  /\ UNCHANGED <<callVars, files>>

CacheMode(p) == run[p].kind = "dev-replay"

Ask(p, q) ==
  /\ run[p].tool = "eval" /\ q \in run[p].slice
  /\ Cardinality(Busy(p)) < Concurrency[p]
  /\ LookUp(p, q, CacheMode(p))
  /\ UNCHANGED <<run, files, spent>>

Work(p, q) == CallStep(p, q) /\ UNCHANGED <<run, files, spent>>

\* The envelope; its trace holds every call, for a frozen run measures one system.
Envelope(p) ==
  EvalEnvelope([q \in run[p].slice |-> calls[p][q].answer], run[p].population, run[p].signed,
               \E q \in run[p].slice : calls[p][q].live)

MayWrite(path) == path[1] \in Frozen => results[path] = None

AllAnswered(p) == run[p].tool = "eval" /\ At(p, "done") = run[p].slice

EvalEnd(p) ==
  LET path == <<run[p].kind, run[p].index>> IN
  /\ AllAnswered(p)
  /\ results' = IF run[p].kind = "slice" \/ ~MayWrite(path) THEN results ELSE [results EXCEPT ![path] = Envelope(p)]
  /\ IF path = <<"dev", 0>> THEN Drift ELSE UNCHANGED drifted
  /\ Abandon(p)
  /\ End(p)
  /\ UNCHANGED <<visible, splitFile, witness, records, manifest, report, gateRecords, spent>>

\* One question's failure ends the run.
EvalDies(p) ==
  /\ run[p].tool = "eval" /\ At(p, "failed") # {}
  /\ Abandon(p)
  /\ End(p)
  /\ UNCHANGED <<files, spent>>

\* A killed run may leave a torn file where it was about to write a frozen result; a
\* reconciliation may have written its witness and not the split file.
Kill(p, torn) ==
  LET path == <<run[p].kind, run[p].index>> IN
  /\ spent.kills < MaxCrashes /\ Spend("kills")
  /\ run[p] # Idle
  /\ torn => run[p].tool = "eval" /\ AllAnswered(p) /\ run[p].kind \in Frozen /\ results[path] = None
  /\ results' = IF torn THEN [results EXCEPT ![path] = Torn] ELSE results
  /\ Abandon(p)
  /\ End(p)
  /\ UNCHANGED <<visible, splitFile, witness, records, manifest, drifted, report, gateRecords>>

-----------------------------------------------------------------------------
\* merge-batches: one whole measurement, or nothing.
Parts(arm) == {i \in 1 .. Batches[arm] : results[<<arm, i>>] # None}

NoneMissing(arm) == Parts(arm) = 1 .. Batches[arm]

\* Fault: the batches that are there are put together if they fit together.
Compatible(arm) ==
  LET part(i) == results[<<arm, i>>] IN
  /\ \A i \in Parts(arm) : part(i) # Torn
  /\ \A i, j \in Parts(arm) :
       /\ part(i).population = part(j).population /\ part(i).signed = part(j).signed
       /\ i # j => DOMAIN part(i).rows \cap DOMAIN part(j).rows = {}

mergeBatches(arm) ==
  /\ NoneMissing(arm) /\ Compatible(arm)
  /\ \A i \in Parts(arm) : results[<<arm, i>>].population \subseteq UNION {RowsOf(<<arm, j>>) : j \in Parts(arm)}

Merge(arm) ==
  LET part(i) == results[<<arm, i>>]
      of(q) == CHOOSE i \in Parts(arm) : q \in DOMAIN part(i).rows
      first == part(Min(Parts(arm))) IN
  /\ Parts(arm) # {} /\ mergeBatches(arm)
  /\ results[<<arm, 0>>] = None
  /\ results' = [results EXCEPT ![<<arm, 0>>] =
       [first EXCEPT !.rows = [q \in first.population \cap UNION {DOMAIN part(i).rows : i \in Parts(arm)} |-> part(of(q)).rows[q]],
                     !.live = \E i \in Parts(arm) : part(i).live]]
  /\ UNCHANGED <<callVars, run, visible, splitFile, witness, records, manifest, drifted, report, gateRecords, spent>>

\* replay-compare, with its proof that no call was live.
compareReplay(frozen, replay) == frozen.rows = replay.rows /\ ~replay.live

ReplayCompare ==
  LET frozen == results[<<"dev", 0>>]
      replay == results[<<"dev-replay", 0>>] IN
  /\ frozen # None /\ replay # None /\ report = None
  /\ report' = IF compareReplay(frozen, replay) THEN "identical" ELSE "different"
  /\ UNCHANGED <<callVars, run, visible, splitFile, witness, records, results, manifest, drifted, gateRecords, spent>>

-----------------------------------------------------------------------------
Indexes(k) == IF k \in Frozen THEN 1 .. Batches[k] ELSE {0}

Progress(p) == SplitsObserve(p) \/ SplitsEnd(p) \/ EvalEnd(p) \/ EvalDies(p) \/ \E q \in Keys : Ask(p, q) \/ Work(p, q)

Start(p) ==
  \/ \E k \in Does[p] \ {"splits"}, skip \in BOOLEAN : \E i \in Indexes(k) : EvalBegin(p, k, i, skip)
  \/ "splits" \in Does[p] /\ \E check, tripped \in BOOLEAN : SplitsBegin(p, check, tripped)

Tool ==
  \/ \E quick \in BOOLEAN : Gate(quick)
  \/ \E s \in Halves : Population(s)
  \/ Draft \/ SignOff \/ ReplayCompare
  \/ \E arm \in Frozen : Merge(arm)
  \/ \E q \in Keys : Ingest(q)

EvalNext ==
  \/ Tool
  \/ \E p \in Procs : Start(p) \/ Progress(p) \/ \E torn \in BOOLEAN : Kill(p, torn)

EvalSpec == EvalInit /\ [][EvalNext]_evalVars

-----------------------------------------------------------------------------
EvalTypeOK ==
  /\ calls \in [Procs -> [Keys -> Call]] /\ cache \in [Keys -> Answers \cup {Absent, Torn}]
  /\ splitFile \in SplitFile /\ records \in [Halves -> {None} \cup PopulationRecord]
  /\ manifest \in {None} \cup EvaluationFreeze /\ gateRecords \in Nat
  /\ results \in [Paths -> {None, Torn} \cup EnvelopeRecord]

\* No question of the test half is put to the provider by a run of eval before a gate
\* record, of a gate that passed or of one that failed, was written (Population.ts,
\* testGateRefusal and leakedTestIds).
TestReadAfterGate ==
  \A q \in Range(Test) : (cache[q] # Absent \/ \E p \in Procs : calls[p][q].at # "idle") => gateRecords > 0

\* A merged result of a frozen arm has one row for each question of the frozen
\* population, each from one of the batches, and asks about no user that is
\* not completely in the graph (Batches.ts, Freeze.ts).
MergedIsThePopulation ==
  \A arm \in Frozen : results[<<arm, 0>>] \notin {None, Torn} =>
    LET merged == results[<<arm, 0>>].rows IN
    /\ DOMAIN merged = Range(manifest.eligible[SplitOf[arm]])
    /\ \A q \in DOMAIN merged :
         /\ visible[q] = "complete"
         /\ Cardinality({i \in Parts(arm) : q \in RowsOf(<<arm, i>>) /\ results[<<arm, i>>].rows[q] = merged[q]}) = 1

\* When a run of the last arm begins, the dev result that lies in the
\* repository covers the dev half, is the one that was pinned and the one a replay
\* without any live call reproduced, a gate read on dev passed, and no result of the arm is there.
\* That the gate was read on these very rows is not claimed: its record names
\* the dev result by its path alone (Freeze.ts, freezeFindings).
TestArmIsQualified ==
  [][\A p \in Procs : (run[p] = Idle /\ run'[p] # Idle /\ run'[p].tool = "eval" /\ run'[p].kind = "test-arm") =>
       /\ RowsOf(<<"dev", 0>>) = Range(Dev) /\ results[<<"dev", 0>>].rows = manifest.alreadyRead
       /\ report = "identical" /\ results[<<"dev-replay", 0>>].rows = results[<<"dev", 0>>].rows
       /\ \A i \in Parts("dev-replay") : results[<<"dev-replay", i>>] # Torn /\ ~results[<<"dev-replay", i>>].live
       /\ splitFile.gate.passed
       /\ results[<<"test", 0>>] = None]_run

Settled(k) == cache[k] \in Answers /\ \A p \in Procs : calls[p][k].at \in {"idle", "done"}

\* Once an answer lies whole in the cache and no process is on its way to
\* write another, no call for it is live any more: all later runs get that
\* answer, also after kills (Llm.ts, Cache.ts).
AnswersSettle == [][\A k \in Keys : Settled(k) => Settled(k)' /\ cache'[k] = cache[k]]_callVars
=============================================================================
