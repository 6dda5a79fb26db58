--------------------------- MODULE EvaluationProofs ---------------------------
(***************************************************************************)
(* Proofs about Evaluation, for any split, number of processes, batches,    *)
(* runs and kills: the test half is closed until a gate was read, answers   *)
(* settle, the last arm runs on what was pinned and replayed, and a merged  *)
(* result is its population.                                               *)
(*                                                                         *)
(* The invariant says what a file owes to the files before it: a manifest   *)
(* to a gate that passed, a frozen result to the manifest, a merged result  *)
(* to its batches, a replay report to the two results it compared - the     *)
(* last as long as no pinned file was written since.                       *)
(***************************************************************************)
EXTENDS Evaluation, FiniteSetTheorems, SequenceTheorems, TLAPS

Rows == UNION {[D -> Answers] : D \in SUBSET Keys}
Witnesses == [Keys -> {"missing", "partial", "complete"}]
SplitsRun == [tool : {"splits"}, check : BOOLEAN, existing : SplitFile, read : {None} \cup Witnesses, tripped : BOOLEAN]
EvalRun == [tool : {"eval"}, kind : Kinds, index : Nat, slice : SUBSET Keys, population : SUBSET Keys, signed : BOOLEAN]

CallsInv ==
  /\ calls \in [Procs -> [Keys -> Call]] /\ cache \in [Keys -> Answers \cup {Absent, Torn}]
  /\ \A p \in Procs, k \in Keys : calls[p][k].at \in {"answered", "writing", "done"} => calls[p][k].answer \in Answers

FilesInv ==
  /\ run \in [Procs -> {Idle} \cup SplitsRun \cup EvalRun]
  /\ visible \in Witnesses /\ witness \in {None} \cup Witnesses
  /\ splitFile \in SplitFile /\ records \in [Halves -> {None} \cup PopulationRecord]
  /\ manifest \in {None} \cup EvaluationFreeze /\ gateRecords \in Nat
  /\ results \in [Paths -> {None, Torn} \cup EnvelopeRecord]
  /\ \A path \in Whole : results[path] # Torn

TypeInv == CallsInv /\ FilesInv

\* A file is no older than the gate it speaks of.
GateInv ==
  /\ splitFile.gate # None => gateRecords > 0
  /\ manifest # None => gateRecords > 0
  /\ \A p \in Procs : /\ run[p].tool = "splits" /\ run[p].existing.gate # None => gateRecords > 0
                      /\ run[p].tool = "eval" /\ run[p].slice \cap Range(Test) # {} => gateRecords > 0
  /\ TestReadAfterGate

\* Who is seen in the graph stays there.
Seen(w, now) == \A q \in Keys : w[q] = "complete" => now[q] = "complete"

SeenInv ==
  /\ witness # None => Seen(witness, visible)
  /\ \A p \in Procs : run[p].tool = "splits" /\ run[p].read # None => Seen(run[p].read, visible)
  /\ manifest # None => \A s \in Halves : \A q \in Range(manifest.eligible[s]) : visible[q] = "complete"

\* What runs under a manifest measures the population it names.
Population0(arm) == Range(manifest.eligible[SplitOf[arm]])

FrozenInv ==
  /\ \A p \in Procs : run[p].tool = "eval" =>
       /\ run[p].index \in Indexes(run[p].kind)
       /\ run[p].kind \in Frozen => manifest # None /\ run[p].population = Population0(run[p].kind)
  /\ \A arm \in Frozen : \A i \in 0..Batches[arm] : results[<<arm, i>>] # None =>
       /\ manifest # None
       /\ results[<<arm, i>>] # Torn => results[<<arm, i>>].population = Population0(arm)

\* A merged result is that of its batches.
Merged(arm) ==
  LET merged == results[<<arm, 0>>]
      part(i) == results[<<arm, i>>] IN
  /\ NoneMissing(arm) /\ Compatible(arm)
  /\ DOMAIN merged.rows = Population0(arm)
  /\ \A q \in DOMAIN merged.rows : \E i \in Parts(arm) : q \in DOMAIN part(i).rows /\ merged.rows[q] = part(i).rows[q]
  /\ ~merged.live => \A i \in Parts(arm) : ~part(i).live

MergeInv == \A arm \in Frozen : results[<<arm, 0>>] # None => Merged(arm)

\* What was pinned and compared is what is there, unless it was written since.
DevIsPinned == manifest # None /\ ~drifted => results[<<"dev", 0>>].rows = manifest.alreadyRead
SignedOnReport == manifest # None /\ manifest.signed => report = "identical"
ReportIsOfFrozen == report = "identical" => manifest # None
ReplayIsFrozen ==
  report = "identical" =>
    /\ results[<<"dev-replay", 0>>] # None
    /\ ~results[<<"dev-replay", 0>>].live
    /\ ~drifted => results[<<"dev-replay", 0>>].rows = results[<<"dev", 0>>].rows

PinInv == DevIsPinned /\ SignedOnReport /\ ReportIsOfFrozen /\ ReplayIsFrozen

EvalInv == TypeInv /\ GateInv /\ SeenInv /\ FrozenInv /\ MergeInv /\ PinInv

-----------------------------------------------------------------------------
(***************************************************************************)
(* The questions left of a half.                                           *)
(***************************************************************************)

\* A finite set can be listed, each member once.
LEMMA SetIsListed ==
  ASSUME NEW S, IsFiniteSet(S)
  PROVE  SetToSeq(S) \in Seq(S) /\ Range(SetToSeq(S)) = S
<1>1. Cardinality(S) \in Nat /\ \E f \in Bijection(1..Cardinality(S), S) : TRUE
  BY FS_CardinalityType DEF ExistsBijection
<1>2. PICK f \in Bijection(1..Cardinality(S), S) : TRUE
  BY <1>1
<1>3. f \in [1..Cardinality(S) -> S] /\ IsInjective(f)
  BY <1>2 DEF Bijection, Injection
<1> PICK list : list = SetToSeq(S)
  OBVIOUS
<1>4. list \in [1..Cardinality(S) -> S] /\ IsInjective(list)
  BY <1>3 DEF SetToSeq
<1>5. list \in Seq(S)
  BY <1>1, <1>4, SeqDef
<1>6. list \in Injection(1..Cardinality(S), S)
  BY <1>4 DEF Injection
<1>7. IsFiniteSet(1..Cardinality(S)) /\ Cardinality(1..Cardinality(S)) = Cardinality(S)
  BY <1>1, FS_Interval
<1>8. list \in Surjection(1..Cardinality(S), S)
  BY <1>6, <1>7, FS_Injection
<1>9. Range(list) = S
  BY <1>4, <1>8 DEF Surjection, Range
<1> QED
  BY <1>5, <1>9

LEMMA HalvesAreFinite ==
  ASSUME NEW s \in Halves
  PROVE  Half(s) \in Seq(Keys) /\ IsFiniteSet(Range(Half(s))) /\ Range(Half(s)) \in SUBSET Keys
<1> PICK h : h = Half(s)
  OBVIOUS
<1>1. h \in Seq(Keys)
  BY SplitIsAPartition DEF Half, Halves
<1>2. DOMAIN h = 1..Len(h) /\ Len(h) \in Nat
  BY <1>1, LenProperties
<1>3. IsFiniteSet(DOMAIN h)
  BY <1>2, FS_Interval, 1 \in Int, Len(h) \in Int
<1>4. h \in Surjection(DOMAIN h, Range(h))
  BY <1>1 DEF Surjection, Range
<1>5. IsFiniteSet(Range(h))
  BY <1>3, <1>4, FS_Surjection
<1>6. Range(h) \in SUBSET Keys
  BY <1>1, <1>2, ElementOfSeq DEF Range
<1> QED
  BY <1>1, <1>5, <1>6

LEMMA EligibleIsTheRest ==
  ASSUME NEW s \in Halves, NEW excluded
  PROVE  eligible(s, excluded) \in Seq(Keys) /\ Range(eligible(s, excluded)) = Range(Half(s)) \ excluded
<1> PICK S : S = Range(Half(s)) \ excluded
  OBVIOUS
<1>1. IsFiniteSet(S) /\ S \in SUBSET Keys
  BY HalvesAreFinite, FS_Subset
<1>2. SetToSeq(S) \in Seq(S) /\ Range(SetToSeq(S)) = S
  BY <1>1, SetIsListed
<1>3. SetToSeq(S) \in Seq(Keys)
  BY <1>1, <1>2, SeqMonotonic
<1> QED
  BY <1>2, <1>3 DEF eligible

-----------------------------------------------------------------------------
(***************************************************************************)
(* The calls.                                                              *)
(***************************************************************************)
\* One call moves, the others stay; a file is written only by a call on its way.
LEMMA MovesOne ==
  ASSUME CallsInv, NEW p \in Procs, NEW k \in Keys, NEW c \in Call, Moves(p, k, c)
  PROVE  /\ calls' \in [Procs -> [Keys -> Call]]
         /\ calls'[p][k] = c
         /\ \A q \in Procs, j \in Keys : q # p \/ j # k => calls'[q][j] = calls[q][j]
BY DEF CallsInv, Moves

LEMMA CallMoves ==
  ASSUME CallsInv, NEW p \in Procs, NEW k \in Keys,
         (\E only \in BOOLEAN : LookUp(p, k, only)) \/ CallStep(p, k)
  PROVE  /\ CallsInv'
         /\ \A q \in Procs, j \in Keys : q # p \/ j # k => calls'[q][j] = calls[q][j]
         /\ \A j \in Keys : j # k => cache'[j] = cache[j]
         /\ CallStep(p, k) => calls[p][k].at # "idle"
         /\ Settled(k) => Settled(k)' /\ cache'[k] = cache[k]
<1> DEFINE c == calls[p][k]
<1>1. c \in Call /\ (c.at \in {"answered", "writing", "done"} => c.answer \in Answers)
  BY DEF CallsInv
<1>2. ASSUME NEW d \in Call, Moves(p, k, d), d.at \in {"answered", "writing", "done"} => d.answer \in Answers,
             cache' \in [Keys -> Answers \cup {Absent, Torn}]
      PROVE  CallsInv' /\ \A q \in Procs, j \in Keys : q # p \/ j # k => calls'[q][j] = calls[q][j]
  BY <1>2, MovesOne DEF CallsInv
<1>3. ASSUME NEW place \in {"missed", "live", "writing", "done", "failed"}, Goes(p, k, place),
             place \in {"writing", "done"} => c.answer \in Answers,
             cache' \in [Keys -> Answers \cup {Absent, Torn}]
      PROVE  CallsInv' /\ \A q \in Procs, j \in Keys : q # p \/ j # k => calls'[q][j] = calls[q][j]
  <2> PICK d : d = [c EXCEPT !.at = place]
    OBVIOUS
  <2>1. d \in Call /\ d.at = place /\ d.answer = c.answer
    BY <1>1 DEF Call
  <2>2. Moves(p, k, d)
    BY <1>3 DEF Goes
  <2> QED
    BY <1>3, <2>1, <2>2, <1>2
<1>4. CASE \E only \in BOOLEAN : LookUp(p, k, only)
  <2>1. c.at = "idle" /\ cache' = cache /\ cache' \in [Keys -> Answers \cup {Absent, Torn}]
    BY <1>4 DEF LookUp, CallsInv
  <2>2. CASE /\ cache[k] \in Answers
             /\ Moves(p, k, [NoCall EXCEPT !.at = "done", !.answer = cache[k]])
    <3> PICK d : d = [NoCall EXCEPT !.at = "done", !.answer = cache[k]]
      OBVIOUS
    <3>1. d \in Call /\ d.at = "done" /\ d.answer \in Answers
      BY <2>2 DEF Call, NoCall
    <3>2. Moves(p, k, d)
      BY <2>2
    <3>3. CallsInv' /\ \A q \in Procs, j \in Keys : q # p \/ j # k => calls'[q][j] = calls[q][j]
      BY <2>1, <3>1, <3>2, <1>2
    <3>4. calls'[p][k] = d
      BY <3>1, <3>2, MovesOne
    <3>5. ASSUME Settled(k)
          PROVE  Settled(k)'
      <4>1. cache'[k] \in Answers
        BY <2>1, <2>2
      <4>2. \A q \in Procs : calls'[q][k].at \in {"idle", "done"}
        BY <3>1, <3>3, <3>4, <3>5 DEF Settled
      <4> QED
        BY <4>1, <4>2 DEF Settled
    <3> QED
      BY <2>1, <3>3, <3>5 DEF CallStep, withPermits, Answered, Failed, writeCache, Truncate, Fill
  <2>3. CASE /\ cache[k] \notin Answers
             /\ \E place \in {"missed", "failed"} : Goes(p, k, place)
    <3>1. ~Settled(k)
      BY <2>3 DEF Settled
    <3>2. CallsInv' /\ \A q \in Procs, j \in Keys : q # p \/ j # k => calls'[q][j] = calls[q][j]
      BY <2>1, <2>3, <1>3
    <3> QED
      BY <2>1, <3>1, <3>2 DEF CallStep, withPermits, Answered, Failed, writeCache, Truncate, Fill
  <2> QED
    BY <1>4, <2>2, <2>3 DEF LookUp, readCache
<1>5. CASE CallStep(p, k)
  <2>1. c.at \in {"missed", "live", "answered", "writing"}
    BY <1>5 DEF CallStep, withPermits, Answered, Failed, writeCache, Truncate, Fill
  <2>2. ~Settled(k)
    BY <2>1 DEF Settled
  <2>3. CASE (withPermits(p, k) \/ Failed(p, k)) /\ cache' = cache
    <3>1. cache' \in [Keys -> Answers \cup {Absent, Torn}]
      BY <2>3 DEF CallsInv
    <3> QED
      BY <2>1, <2>2, <2>3, <3>1, <1>3 DEF withPermits, Failed
  <2>4. CASE Answered(p, k)
    <3> PICK a \in AnswersTo[k] : Moves(p, k, [NoCall EXCEPT !.at = "answered", !.answer = a, !.live = TRUE])
      BY <2>4 DEF Answered
    <3> PICK d : d = [NoCall EXCEPT !.at = "answered", !.answer = a, !.live = TRUE]
      OBVIOUS
    <3>1. a \in Answers
      BY CallsAreBounded
    <3>2. d \in Call /\ d.answer \in Answers
      BY <3>1 DEF Call, NoCall
    <3>3. Moves(p, k, d) /\ cache' = cache /\ cache' \in [Keys -> Answers \cup {Absent, Torn}]
      BY <2>4 DEF Answered, CallsInv
    <3> QED
      BY <2>1, <2>2, <3>2, <3>3, <1>2
  <2>5. CASE Truncate(p, k)
    <3>1. c.answer \in Answers /\ Goes(p, k, "writing") /\ cache' = [cache EXCEPT ![k] = Torn]
      BY <1>1, <2>5 DEF Truncate
    <3>2. cache' \in [Keys -> Answers \cup {Absent, Torn}] /\ \A j \in Keys : j # k => cache'[j] = cache[j]
      BY <3>1 DEF CallsInv
    <3> QED
      BY <2>1, <2>2, <3>1, <3>2, <1>3
  <2>6. CASE Fill(p, k)
    <3>1. c.answer \in Answers /\ Goes(p, k, "done")
      BY <1>1, <2>6 DEF Fill
    <3>2. PICK e \in {c.answer, Torn} : cache' = [cache EXCEPT ![k] = e]
      BY <2>6 DEF Fill
    <3>3. cache' \in [Keys -> Answers \cup {Absent, Torn}] /\ \A j \in Keys : j # k => cache'[j] = cache[j]
      BY <3>1, <3>2 DEF CallsInv
    <3> QED
      BY <2>1, <2>2, <3>1, <3>3, <1>3
  <2> QED
    BY <1>5, <2>3, <2>4, <2>5, <2>6 DEF CallStep, writeCache, withPermits, Failed
<1> QED
  BY <1>4, <1>5

\* The calls of a process that ended are forgotten; the cache stays.
LEMMA AbandonMoves ==
  ASSUME CallsInv, NEW p \in Procs, Abandon(p)
  PROVE  /\ CallsInv' /\ cache' = cache
         /\ \A q \in Procs, j \in Keys : calls'[q][j] = calls[q][j] \/ calls'[q][j].at = "idle"
         /\ \A k \in Keys : Settled(k) => Settled(k)'
<1>1. NoCall \in Call /\ NoCall.at = "idle"
  BY DEF NoCall, Call
<1>2. calls' = [calls EXCEPT ![p] = [k \in Keys |-> NoCall]] /\ cache' = cache
  BY DEF Abandon
<1>3. calls' \in [Procs -> [Keys -> Call]]
  BY <1>1, <1>2 DEF CallsInv
<1>4. \A q \in Procs, j \in Keys : calls'[q][j] = calls[q][j] \/ calls'[q][j] = NoCall
  BY <1>2 DEF CallsInv
<1>5. CallsInv'
  BY <1>1, <1>2, <1>3, <1>4 DEF CallsInv
<1>6. ASSUME NEW k \in Keys, Settled(k)
      PROVE  Settled(k)'
  BY <1>1, <1>2, <1>4, <1>6 DEF Settled
<1> QED
  BY <1>1, <1>2, <1>4, <1>5, <1>6

-----------------------------------------------------------------------------
(***************************************************************************)
(* What a step that leaves files or runs alone keeps.                      *)
(***************************************************************************)
LEMMA RunIsTyped ==
  ASSUME TypeInv, NEW p \in Procs
  PROVE  /\ run[p].tool = "eval" => run[p] \in EvalRun
         /\ run[p].tool = "splits" => run[p] \in SplitsRun
         /\ Idle.tool = "idle"
<1>1. run[p] \in {Idle} \cup SplitsRun \cup EvalRun
  BY DEF TypeInv, FilesInv
<1> QED
  BY <1>1 DEF Idle, SplitsRun, EvalRun

RunsStay == \A p \in Procs : run'[p] = run[p] \/ run'[p] = Idle

LEMMA RunsKeep ==
  ASSUME EvalInv, UNCHANGED <<results, manifest>>, RunsStay
  PROVE  FrozenInv'
<1>1. FrozenInv /\ Idle.tool = "idle"
  BY DEF EvalInv, Idle
<1>2. ASSUME NEW p \in Procs, run'[p].tool = "eval"
      PROVE  run'[p] = run[p]
  BY <1>1, <1>2 DEF RunsStay
<1> QED
  BY <1>1, <1>2 DEF FrozenInv, Population0

\* The results of an arm stay, and the population it is measured on.
LEMMA MergedStays ==
  ASSUME NEW arm, Batches[arm] \in Nat, Merged(arm), \A i \in 0..Batches[arm] : results'[<<arm, i>>] = results[<<arm, i>>],
         manifest'.eligible = manifest.eligible
  PROVE  Merged(arm)'
<1>1. results'[<<arm, 0>>] = results[<<arm, 0>>] /\ \A i \in 1..Batches[arm] : results'[<<arm, i>>] = results[<<arm, i>>]
  OBVIOUS
<1>2. Parts(arm)' = Parts(arm) /\ Parts(arm) \in SUBSET (1..Batches[arm])
  BY <1>1 DEF Parts
<1>3. NoneMissing(arm)' = NoneMissing(arm)
  BY <1>2 DEF NoneMissing
<1>4. \A i \in Parts(arm) : results'[<<arm, i>>] = results[<<arm, i>>]
  BY <1>1, <1>2
<1>5. Compatible(arm) => Compatible(arm)'
  BY <1>2, <1>4 DEF Compatible
<1>6. Population0(arm)' = Population0(arm)
  BY DEF Population0
<1> QED
  BY <1>1, <1>2, <1>3, <1>4, <1>5, <1>6 DEF Merged

LEMMA ArmsAreBounded ==
  \A arm \in Frozen : Batches[arm] \in Nat \ {0} /\ 0 \in 0..Batches[arm] /\ \A i \in 0..Batches[arm] : <<arm, i>> \in Paths
<1> SUFFICES ASSUME NEW arm \in Frozen
             PROVE  Batches[arm] \in Nat \ {0} /\ 0 \in 0..Batches[arm] /\ \A i \in 0..Batches[arm] : <<arm, i>> \in Paths
  OBVIOUS
<1>1. Batches[arm] \in Nat \ {0}
  BY SplitIsAPartition
<1> QED
  BY <1>1 DEF Paths, Outputs

LEMMA FilesKeep ==
  ASSUME EvalInv, UNCHANGED <<results, manifest, report>>, drifted' = drifted \/ Drift
  PROVE  MergeInv' /\ PinInv'
<1>1. MergeInv /\ PinInv
  BY DEF EvalInv
<1>2. MergeInv'
  BY <1>1, MergedStays, ArmsAreBounded DEF MergeInv
<1>3. manifest # None /\ ~drifted' => ~drifted
  BY Zenon DEF Drift
<1>4. results' = results /\ manifest' = manifest /\ report' = report
  OBVIOUS
<1>5. DevIsPinned'
  BY <1>1, <1>3, <1>4 DEF PinInv, DevIsPinned
<1>6. SignedOnReport' /\ ReportIsOfFrozen'
  BY <1>1, <1>4 DEF PinInv, SignedOnReport, ReportIsOfFrozen
<1>7. ReplayIsFrozen'
  <2>1. report = "identical" => manifest # None
    BY <1>1 DEF PinInv, ReportIsOfFrozen
  <2> QED
    BY <1>1, <1>3, <1>4, <2>1 DEF PinInv, ReplayIsFrozen
<1> QED
  BY <1>2, <1>5, <1>6, <1>7 DEF PinInv

LEMMA SeenKeeps ==
  ASSUME EvalInv, UNCHANGED <<visible, witness, manifest>>, RunsStay
  PROVE  SeenInv'
<1>1. SeenInv /\ Idle.tool = "idle"
  BY DEF EvalInv, Idle
<1>2. ASSUME NEW p \in Procs, run'[p].tool = "splits"
      PROVE  run'[p] = run[p]
  BY <1>1, <1>2 DEF RunsStay
<1>3. witness' # None => Seen(witness', visible')
  BY <1>1 DEF SeenInv
<1>4. \A p \in Procs : run'[p].tool = "splits" /\ run'[p].read # None => Seen(run'[p].read, visible')
  BY <1>1, <1>2 DEF SeenInv
<1>5. manifest' # None => \A s \in Halves : \A q \in Range(manifest'.eligible[s]) : visible'[q] = "complete"
  BY <1>1 DEF SeenInv
<1> QED
  BY <1>3, <1>4, <1>5 DEF SeenInv

LEMMA GateKeeps ==
  ASSUME EvalInv, RunsStay, UNCHANGED callVars,
         gateRecords' \in Nat, gateRecords' >= gateRecords,
         splitFile'.gate # None => splitFile.gate # None \/ gateRecords' > 0,
         manifest' # None => manifest # None \/ gateRecords' > 0
  PROVE  GateInv'
<1>1. GateInv /\ gateRecords \in Nat /\ Idle.tool = "idle"
  BY DEF EvalInv, TypeInv, FilesInv, Idle
<1>2. gateRecords > 0 => gateRecords' > 0
  BY <1>1
<1>3. \A p \in Procs : run'[p].tool \in {"splits", "eval"} => run'[p] = run[p]
  BY <1>1 DEF RunsStay
<1>4. TestReadAfterGate'
  BY <1>1, <1>2 DEF GateInv, TestReadAfterGate, callVars
<1> QED
  BY <1>1, <1>2, <1>3, <1>4 DEF GateInv

LEMMA CallsKeep ==
  ASSUME EvalInv, UNCHANGED callVars
  PROVE  CallsInv'
BY DEF EvalInv, TypeInv, CallsInv, callVars

-----------------------------------------------------------------------------
(***************************************************************************)
(* The first states.                                                       *)
(***************************************************************************)
LEMMA FrozenPaths ==
  \A arm \in Frozen : \A i : <<arm, i>> # <<"dev", 0>> /\ <<arm, i>> # <<"test", 0>>
BY DEF Frozen

LEMMA ExclusionsAreTyped ==
  ASSUME NEW w, NEW tripped
  PROVE  /\ exclusions(w) \in SUBSET Keys
         /\ completionFromWitness(w, tripped) \in {"complete", "capacity-capped", "unknown"}
BY DEF exclusions, completionFromWitness

\* A draft pins the rest of each half, and the dev rows.
IsDraft(d, gate, w, dev) ==
  /\ d \in EvaluationFreeze /\ d.signed = FALSE /\ d.alreadyRead = dev /\ d.gate = gate
  /\ \A s \in Halves : \A q \in Range(d.eligible[s]) : q \in Keys /\ w[q] = "complete"

LEMMA DraftIsTyped ==
  \A gate \in [passed : {TRUE}], dev \in Rows : \A w : IsDraft(buildFreezeDraft(gate, w, dev), gate, w, dev)
<1> TAKE gate \in [passed : {TRUE}], dev \in Rows
<1> TAKE w
<1> PICK e : e = [s \in Halves |-> eligible(s, exclusions(w))]
  OBVIOUS
<1> PICK d : d = buildFreezeDraft(gate, w, dev)
  OBVIOUS
<1>1. e \in [Halves -> Seq(Keys)]
  BY EligibleIsTheRest
<1>2. d = [gate |-> gate, signed |-> FALSE, alreadyRead |-> dev, eligible |-> e]
  BY DEF buildFreezeDraft
<1>3. \A s \in Halves : \A q \in Range(e[s]) : q \in Keys /\ w[q] = "complete"
  BY EligibleIsTheRest, HalvesAreFinite DEF exclusions
<1>4. d \in EvaluationFreeze
  <2>1. EvaluationFreeze = [gate : [passed : {TRUE}], signed : BOOLEAN, eligible : [Halves -> Seq(Keys)], alreadyRead : Rows]
    BY DEF EvaluationFreeze, Rows
  <2> PICK S, E, R : S = [passed : {TRUE}] /\ E = [Halves -> Seq(Keys)] /\ R = Rows
    OBVIOUS
  <2>2. gate \in S /\ e \in E /\ dev \in R
    BY <1>1
  <2>3. [gate |-> gate, signed |-> FALSE, alreadyRead |-> dev, eligible |-> e]
          \in [gate : S, signed : BOOLEAN, eligible : E, alreadyRead : R]
    BY <2>2
  <2> QED
    BY <2>1, <2>3, <1>2
<1>5. d.eligible = e /\ d.signed = FALSE /\ d.alreadyRead = dev /\ d.gate = gate
  BY <1>2
<1>6. IsDraft(d, gate, w, dev)
  BY <1>3, <1>4, <1>5 DEF IsDraft
<1> QED
  BY <1>6

LEMMA InitHolds == EvalInit => EvalInv
<1> SUFFICES ASSUME EvalInit
             PROVE  EvalInv
  OBVIOUS
<1>1. run = [p \in Procs |-> Idle] /\ visible = Visible0 /\ witness = Visible0 /\ drifted = FALSE /\ report = None
      /\ Idle.tool = "idle" /\ Visible0 \in Witnesses
  BY SplitIsAPartition DEF EvalInit, Idle, Witnesses
<1>2. NoCall \in Call /\ NoCall.at = "idle"
  BY DEF NoCall, Call
<1>3. \A gate \in {None} \cup [passed : BOOLEAN] : Split0(gate) \in SplitFile
  BY ExclusionsAreTyped DEF Split0, SplitFile
<1>4. CASE Unevaluated
  <2>1. /\ cache \in [Keys -> {Absent}] /\ calls = [p \in Procs |-> [k \in Keys |-> NoCall]]
        /\ splitFile = Split0(None) /\ records = [s \in Halves |-> None]
        /\ results = [f \in Paths |-> None] /\ manifest = None /\ gateRecords = 0
    BY <1>4 DEF Unevaluated, CallsInit
  <2>2. CallsInv
    BY <1>2, <2>1 DEF CallsInv
  <2>3. FilesInv
    <3>1. \A path \in Whole : results[path] # Torn
      BY <2>1, NoneIsNoFile DEF Paths
    <3>2. results \in [Paths -> {None, Torn} \cup EnvelopeRecord] /\ records \in [Halves -> {None} \cup PopulationRecord]
      BY <2>1
    <3>3. run \in [Procs -> {Idle} \cup SplitsRun \cup EvalRun]
      BY <1>1
    <3> QED
      BY <1>1, <1>3, <2>1, <3>1, <3>2, <3>3 DEF FilesInv
  <2>4. GateInv
    <3>1. splitFile.gate = None
      BY <2>1 DEF Split0
    <3>2. TestReadAfterGate
      BY <1>2, <2>1, SplitIsAPartition DEF TestReadAfterGate
    <3> QED
      BY <1>1, <2>1, <3>1, <3>2 DEF GateInv
  <2>5. SeenInv
    BY <1>1, <2>1 DEF SeenInv, Seen
  <2>6. FrozenInv /\ MergeInv
    BY <1>1, <2>1, ArmsAreBounded DEF FrozenInv, MergeInv
  <2>7. PinInv
    BY <1>1, <2>1, NoneIsNoFile DEF PinInv, DevIsPinned, SignedOnReport, ReportIsOfFrozen, ReplayIsFrozen
  <2> QED
    BY <2>2, <2>3, <2>4, <2>5, <2>6, <2>7 DEF EvalInv, TypeInv
<1>5. CASE Drafted
  <2> PICK passed : passed = [passed |-> TRUE]
    OBVIOUS
  <2> PICK file : file = EvalEnvelope(DevRows, Range(Dev), FALSE, TRUE)
    OBVIOUS
  <2> PICK draft : draft = buildFreezeDraft(passed, Visible0, DevRows)
    OBVIOUS
  <2>1. /\ \E kept \in Kept : cache = [k \in Keys |-> IF k \in kept THEN DevRows[k] ELSE Absent]
        /\ calls = [p \in Procs |-> [k \in Keys |-> NoCall]]
        /\ splitFile = Split0(passed) /\ records = [s \in Halves |-> buildPopulationRecord(Visible0, TRUE, s = "dev")]
        /\ results = [f \in Paths |-> IF f = <<"dev", 0>> THEN file ELSE None]
        /\ manifest = draft /\ gateRecords = 1
    BY <1>5 DEF Drafted
  <2>2. Range(Dev) \in SUBSET Keys /\ DevRows \in [Range(Dev) -> Answers] /\ DevRows \in Rows /\ passed \in [passed : {TRUE}]
    BY SplitIsAPartition DEF Rows
  <2>3. file \in EnvelopeRecord /\ file.rows = DevRows
    BY <2>2 DEF EvalEnvelope, EnvelopeRecord, Rows
  <2>4. /\ draft \in EvaluationFreeze /\ draft.signed = FALSE /\ draft.alreadyRead = DevRows
        /\ \A s \in Halves : \A q \in Range(draft.eligible[s]) : Visible0[q] = "complete"
    <3>1. Visible0 \in Witnesses /\ DevRows \in Rows /\ passed \in [passed : {TRUE}]
      BY <1>1, <2>2
    <3>2. IsDraft(draft, passed, Visible0, DevRows)
      BY <3>1, DraftIsTyped
    <3> QED
      BY <3>2 DEF IsDraft
  <2>5. CallsInv
    <3>1. \A k \in Keys : cache[k] \in Answers \cup {Absent, Torn}
      BY <2>1, <2>2, SplitIsAPartition
    <3>2. cache \in [Keys -> Answers \cup {Absent, Torn}]
      BY <2>1, <3>1
    <3> QED
      BY <1>2, <2>1, <3>2 DEF CallsInv
  <2>6. FilesInv
    <3>1. \A path \in Whole : results[path] # Torn
      BY <2>1, <2>3, NoneIsNoFile DEF Paths
    <3>2. results \in [Paths -> {None, Torn} \cup EnvelopeRecord]
      BY <2>1, <2>3
    <3>3. run \in [Procs -> {Idle} \cup SplitsRun \cup EvalRun]
      BY <1>1
    <3>4. records \in [Halves -> {None} \cup PopulationRecord]
      <4>1. ASSUME NEW clean \in BOOLEAN
            PROVE  buildPopulationRecord(Visible0, TRUE, clean) \in PopulationRecord
        BY ExclusionsAreTyped DEF buildPopulationRecord, PopulationRecord
      <4> QED
        BY <2>1, <4>1
    <3>5. splitFile \in SplitFile
      BY <1>3, <2>1
    <3> QED
      BY <1>1, <2>1, <2>4, <3>1, <3>2, <3>3, <3>4, <3>5 DEF FilesInv
  <2>7. GateInv
    BY <1>1, <2>1 DEF GateInv, TestReadAfterGate
  <2>8. SeenInv
    BY <1>1, <2>1, <2>4 DEF SeenInv, Seen
  <2>9. FrozenInv /\ MergeInv
    <3>1. \A arm \in Frozen : \A i \in 0..Batches[arm] : results[<<arm, i>>] = None
      BY <2>1, ArmsAreBounded, FrozenPaths
    <3> QED
      BY <1>1, <3>1, ArmsAreBounded DEF FrozenInv, MergeInv
  <2>10. PinInv
    <3>1. results[<<"dev", 0>>].rows = manifest.alreadyRead
      BY <2>1, <2>3, <2>4 DEF Paths, Whole
    <3>2. report # "identical" /\ manifest.signed = FALSE
      BY <1>1, <2>1, <2>4, NoneIsNoFile
    <3> QED
      BY <3>1, <3>2 DEF PinInv, DevIsPinned, SignedOnReport, ReportIsOfFrozen, ReplayIsFrozen
  <2> QED
    BY <2>5, <2>6, <2>7, <2>8, <2>9, <2>10 DEF EvalInv, TypeInv
<1> QED
  BY <1>4, <1>5 DEF EvalInit

-----------------------------------------------------------------------------
(***************************************************************************)
(* The tools that take no time.                                            *)
(***************************************************************************)
LEMMA GateHolds ==
  ASSUME EvalInv, NEW quick \in BOOLEAN, Gate(quick)
  PROVE  EvalInv'
<1> PICK b \in BOOLEAN : b = readGate(V1, results[<<"dev", 0>>].rows, quick)
  BY DEF readGate
<1>1. /\ splitFile' = [splitFile EXCEPT !.gate = [passed |-> b]]
      /\ Drift /\ gateRecords' = gateRecords + 1
      /\ UNCHANGED <<callVars, run, visible, witness, records, results, manifest, report, spent>>
  BY DEF Gate
<1>2. FilesInv
  BY DEF EvalInv, TypeInv
<1>3. RunsStay
  BY <1>1 DEF RunsStay
<1>4. splitFile' \in SplitFile
  BY <1>1, <1>2 DEF FilesInv, SplitFile
<1>5. gateRecords' \in Nat /\ gateRecords' > 0 /\ gateRecords' >= gateRecords
  BY <1>1, <1>2 DEF FilesInv
<1>6. FilesInv'
  BY <1>1, <1>2, <1>4, <1>5 DEF FilesInv
<1>7. GateInv'
  BY <1>1, <1>3, <1>5, GateKeeps
<1> QED
  BY <1>1, <1>3, <1>6, <1>7, CallsKeep, SeenKeeps, RunsKeep, FilesKeep DEF EvalInv, TypeInv

LEMMA PopulationRecordIsTyped ==
  ASSUME NEW w, NEW tripped, NEW clean \in BOOLEAN
  PROVE  buildPopulationRecord(w, tripped, clean) \in PopulationRecord
<1> PICK r : r = buildPopulationRecord(w, tripped, clean)
  OBVIOUS
<1>1. r.excluded \in SUBSET Keys /\ r.completion \in {"complete", "capacity-capped", "unknown"} /\ r.verified \in BOOLEAN
  BY ExclusionsAreTyped DEF buildPopulationRecord
<1>2. r = [excluded |-> r.excluded, completion |-> r.completion, verified |-> r.verified, clean |-> clean]
  BY DEF buildPopulationRecord
<1> QED
  BY <1>1, <1>2 DEF PopulationRecord

LEMMA PopulationHolds ==
  ASSUME EvalInv, NEW s \in Halves, Population(s)
  PROVE  EvalInv'
<1>1. PICK clean \in BOOLEAN : records' = [records EXCEPT ![s] = buildPopulationRecord(witness, splitFile.tripped, clean)]
  BY DEF Population
<1>2. Drift /\ UNCHANGED <<callVars, run, visible, splitFile, witness, results, manifest, report, gateRecords, spent>>
  BY DEF Population
<1>3. FilesInv
  BY DEF EvalInv, TypeInv
<1>4. RunsStay
  BY <1>2 DEF RunsStay
<1>5. records' \in [Halves -> {None} \cup PopulationRecord]
  BY <1>1, <1>3, PopulationRecordIsTyped DEF FilesInv
<1>6. FilesInv'
  BY <1>2, <1>3, <1>5 DEF FilesInv
<1>7. GateInv'
  BY <1>2, <1>3, <1>4, GateKeeps DEF FilesInv
<1> QED
  BY <1>2, <1>4, <1>6, <1>7, CallsKeep, SeenKeeps, RunsKeep, FilesKeep DEF EvalInv, TypeInv

\* Users are only added.
LEMMA IngestHolds ==
  ASSUME EvalInv, NEW q \in Keys, Ingest(q)
  PROVE  EvalInv'
<1> PICK how \in {"partial", "complete"} : visible' = [visible EXCEPT ![q] = how]
  BY DEF Ingest
<1>1. /\ visible[q] # "complete" /\ visible' = [visible EXCEPT ![q] = how]
      /\ UNCHANGED <<callVars, run, splitFile, witness, records, results, manifest, drifted, report, gateRecords, spent>>
  BY DEF Ingest
<1>2. FilesInv /\ SeenInv
  BY DEF EvalInv, TypeInv
<1>3. RunsStay
  BY <1>1 DEF RunsStay
<1>4. visible' \in Witnesses /\ \A k : visible[k] = "complete" => visible'[k] = "complete"
  BY <1>1, <1>2 DEF FilesInv, Witnesses
<1>5. FilesInv'
  BY <1>1, <1>2, <1>4 DEF FilesInv
<1>6. GateInv'
  BY <1>1, <1>2, <1>3, GateKeeps DEF FilesInv
<1>7. SeenInv'
  BY <1>1, <1>2, <1>4 DEF SeenInv, Seen
<1> QED
  BY <1>1, <1>3, <1>5, <1>6, <1>7, CallsKeep, RunsKeep, FilesKeep DEF EvalInv, TypeInv

LEMMA DraftHolds ==
  ASSUME EvalInv, Draft
  PROVE  EvalInv'
<1> PICK w, dev, draft : w = witness /\ dev = results[<<"dev", 0>>].rows /\ draft = buildFreezeDraft(splitFile.gate, witness, dev)
  OBVIOUS
<1>1. /\ manifest = None /\ splitFile.gate # None /\ splitFile.gate.passed
      /\ w # None /\ results[<<"dev", 0>>] # None
      /\ manifest' = draft /\ drifted' = FALSE
      /\ UNCHANGED <<callVars, run, visible, splitFile, witness, records, results, report, gateRecords, spent>>
  BY DEF Draft
<1>2. FilesInv /\ SeenInv /\ GateInv /\ FrozenInv /\ MergeInv /\ PinInv
  BY DEF EvalInv, TypeInv
<1>3. IsDraft(draft, splitFile.gate, w, dev)
  <2>1. splitFile.gate \in [passed : {TRUE}]
    <3>1. splitFile.gate \in [passed : BOOLEAN]
      BY <1>1, <1>2 DEF FilesInv, SplitFile
    <3> QED
      BY <1>1, <3>1
  <2>2. results[<<"dev", 0>>] \in EnvelopeRecord
    BY <1>1, <1>2 DEF FilesInv, Whole, Paths
  <2>3. dev \in Rows
    BY <2>2 DEF EnvelopeRecord, Rows
  <2> QED
    BY <2>1, <2>3, DraftIsTyped
<1>4. draft \in EvaluationFreeze /\ draft.signed = FALSE /\ draft.alreadyRead = dev
      /\ \A s \in Halves : \A q \in Range(draft.eligible[s]) : q \in Keys /\ w[q] = "complete"
  BY <1>3 DEF IsDraft
<1>5. RunsStay
  BY <1>1 DEF RunsStay
<1>6. FilesInv'
  BY <1>1, <1>2, <1>4 DEF FilesInv
<1>7. GateInv'
  BY <1>1, <1>2, <1>5, GateKeeps DEF FilesInv, GateInv
<1>8. SeenInv'
  BY <1>1, <1>2, <1>4 DEF SeenInv, Seen
<1>9. FrozenInv'
  BY <1>1, <1>2 DEF FrozenInv
<1>10. MergeInv'
  BY <1>1, <1>2, ArmsAreBounded DEF FrozenInv, MergeInv
<1>11. PinInv'
  <2>1. report' # "identical"
    BY <1>1, <1>2 DEF PinInv, ReportIsOfFrozen
  <2>2. DevIsPinned'
    BY <1>1, <1>4 DEF DevIsPinned
  <2> QED
    BY <1>1, <1>4, <2>1, <2>2 DEF PinInv, SignedOnReport, ReportIsOfFrozen, ReplayIsFrozen
<1> QED
  BY <1>1, <1>6, <1>7, <1>8, <1>9, <1>10, <1>11, CallsKeep DEF EvalInv, TypeInv

LEMMA SignOffHolds ==
  ASSUME EvalInv, SignOff
  PROVE  EvalInv'
<1>1. /\ manifest # None /\ report = "identical"
      /\ manifest' = [manifest EXCEPT !.signed = TRUE]
      /\ UNCHANGED <<callVars, run, visible, splitFile, witness, records, results, drifted, report, gateRecords, spent>>
  BY DEF SignOff
<1>2. FilesInv /\ SeenInv /\ GateInv /\ FrozenInv /\ MergeInv /\ PinInv
  BY DEF EvalInv, TypeInv
<1>3. /\ manifest' \in EvaluationFreeze
      /\ manifest'.eligible = manifest.eligible /\ manifest'.alreadyRead = manifest.alreadyRead
  <2>1. manifest \in EvaluationFreeze
    BY <1>1, <1>2 DEF FilesInv
  <2> PICK m, Pass, Elig, R :
        m = manifest /\ Pass = [passed : {TRUE}] /\ Elig = [Halves -> Seq(Keys)] /\ R = UNION {[D -> Answers] : D \in SUBSET Keys}
    OBVIOUS
  <2>2. m \in [gate : Pass, signed : BOOLEAN, eligible : Elig, alreadyRead : R]
    BY <2>1 DEF EvaluationFreeze
  <2>3. [m EXCEPT !.signed = TRUE] \in [gate : Pass, signed : BOOLEAN, eligible : Elig, alreadyRead : R]
        /\ [m EXCEPT !.signed = TRUE].eligible = m.eligible /\ [m EXCEPT !.signed = TRUE].alreadyRead = m.alreadyRead
    BY <2>2
  <2> QED
    BY <1>1, <2>3 DEF EvaluationFreeze
<1>4. manifest' # None
  BY <1>3, NoneIsNoFile
<1>5. RunsStay
  BY <1>1 DEF RunsStay
<1>6. FilesInv'
  BY <1>1, <1>2, <1>3 DEF FilesInv
<1>7. GateInv'
  BY <1>1, <1>2, <1>5, GateKeeps DEF FilesInv
<1>8. SeenInv'
  BY <1>1, <1>2, <1>3 DEF SeenInv, Seen
<1>9. FrozenInv'
  <2>1. \A arm : Population0(arm)' = Population0(arm)
    BY <1>3 DEF Population0
  <2> QED
    BY <1>1, <1>2, <1>4, <2>1 DEF FrozenInv
<1>10. MergeInv'
  BY <1>1, <1>2, <1>3, ArmsAreBounded, MergedStays DEF MergeInv
<1>11. PinInv'
  BY <1>1, <1>2, <1>3, <1>4 DEF PinInv, DevIsPinned, SignedOnReport, ReportIsOfFrozen, ReplayIsFrozen
<1> QED
  BY <1>1, <1>6, <1>7, <1>8, <1>9, <1>10, <1>11, CallsKeep DEF EvalInv, TypeInv

LEMMA ReplayCompareHolds ==
  ASSUME EvalInv, ReplayCompare
  PROVE  EvalInv'
<1> PICK frozen, replay : frozen = results[<<"dev", 0>>] /\ replay = results[<<"dev-replay", 0>>]
  OBVIOUS
<1>1. /\ frozen # None /\ replay # None /\ report = None
      /\ report' = IF frozen.rows = replay.rows /\ ~replay.live THEN "identical" ELSE "different"
      /\ UNCHANGED <<callVars, run, visible, splitFile, witness, records, results, manifest, drifted, gateRecords, spent>>
  BY DEF ReplayCompare, compareReplay
<1>2. FilesInv /\ FrozenInv /\ MergeInv /\ PinInv
  BY DEF EvalInv, TypeInv
<1>3. RunsStay
  BY <1>1 DEF RunsStay
<1>4. FilesInv'
  BY <1>1, <1>2 DEF FilesInv
<1>5. GateInv'
  BY <1>1, <1>2, <1>3, GateKeeps DEF FilesInv
<1>6. MergeInv'
  BY <1>1, <1>2, ArmsAreBounded, MergedStays DEF MergeInv
<1>7. PinInv'
  <2>1. manifest # None
    BY <1>1, <1>2, ArmsAreBounded DEF FrozenInv, Frozen
  <2>2. ~(manifest.signed)
    BY <1>1, <1>2, <2>1, NoneIsNoFile DEF PinInv, SignedOnReport
  <2>3. report' = "identical" => frozen.rows = replay.rows /\ ~replay.live
    BY <1>1
  <2>4. DevIsPinned'
    BY <1>1, <1>2 DEF PinInv, DevIsPinned
  <2> QED
    BY <1>1, <2>1, <2>2, <2>3, <2>4 DEF PinInv, SignedOnReport, ReportIsOfFrozen, ReplayIsFrozen
<1> QED
  BY <1>1, <1>3, <1>4, <1>5, <1>6, <1>7, CallsKeep, SeenKeeps, RunsKeep DEF EvalInv, TypeInv

-----------------------------------------------------------------------------
(***************************************************************************)
(* The runs.                                                               *)
(***************************************************************************)
\* A batch is a part of the population.
LEMMA SmallerOfTwo ==
  ASSUME NEW a \in Int, NEW b \in Int
  PROVE  Min({a, b}) \in Int /\ Min({a, b}) <= a /\ Min({a, b}) <= b
<1>1. \E x \in {a, b} : \A y \in {a, b} : x <= y
  OBVIOUS
<1>2. Min({a, b}) \in {a, b} /\ \A y \in {a, b} : Min({a, b}) <= y
  BY <1>1 DEF Min
<1> QED
  BY <1>2

LEMMA PartOfSeq ==
  ASSUME NEW items \in Seq(Keys), NEW m \in Nat \ {0}, NEW e \in Int, e <= Len(items)
  PROVE  Range(SubSeq(items, m, e)) \in SUBSET Keys
<1>1. \A x \in 1..Len(items) : items[x] \in Keys
  BY ElementOfSeq
<1>2. Len(items) \in Nat
  BY LenProperties
<1>3. \A x \in m..e : items[x] \in Keys
  BY <1>1, <1>2
<1> PICK part : part = SubSeq(items, m, e)
  OBVIOUS
<1>4. part \in Seq(Keys)
  BY <1>3, SubSeqProperties
<1>5. \A x \in 1..Len(part) : part[x] \in Keys
  BY <1>4, ElementOfSeq
<1>6. DOMAIN part = 1..Len(part)
  BY <1>4, LenProperties
<1> QED
  BY <1>5, <1>6 DEF Range

LEMMA BatchIsAPart ==
  ASSUME NEW items \in Seq(Keys), NEW n \in Nat \ {0}, NEW i \in 1..n
  PROVE  Range(batchOf(items, i, n)) \in SUBSET Keys
<1> PICK size : size = (Len(items) + n - 1) \div n
  OBVIOUS
<1>1. Len(items) \in Nat /\ size \in Nat
  BY LenProperties
<1> PICK m, length, most : m = (i - 1) * size + 1 /\ length = Len(items) /\ most = i * size
  OBVIOUS
<1>2. m \in Nat \ {0}
  <2>1. \A x, y \in Nat : x * y \in Nat
    OBVIOUS
  <2>2. i - 1 \in Nat
    OBVIOUS
  <2> QED
    BY <1>1, <2>1, <2>2
<1>3. most \in Int /\ length \in Int
  BY <1>1
<1> PICK e : e = Min({most, length})
  OBVIOUS
<1>4. e \in Int /\ e <= length
  BY <1>3, SmallerOfTwo
<1>5. batchOf(items, i, n) = SubSeq(items, m, e)
  BY DEF batchOf
<1> QED
  BY <1>2, <1>4, <1>5, PartOfSeq

\* A run may begin when what it read is no older than what is asked of it.
LEMMA RunBegins ==
  ASSUME EvalInv, NEW p \in Procs, NEW r \in SplitsRun \cup EvalRun, Begin(p, r), UNCHANGED <<callVars, files>>,
         r.tool = "splits" => /\ r.existing.gate # None => gateRecords > 0
                              /\ r.read # None => Seen(r.read, visible),
         r.tool = "eval" => /\ r.slice \cap Range(Test) # {} => gateRecords > 0
                            /\ r.index \in Indexes(r.kind)
                            /\ r.kind \in Frozen => manifest # None /\ r.population = Population0(r.kind)
  PROVE  EvalInv'
<1>1. FilesInv /\ GateInv /\ SeenInv /\ FrozenInv
  BY DEF EvalInv, TypeInv
<1>2. run' = [run EXCEPT ![p] = r] /\ run'[p] = r /\ \A q \in Procs : q # p => run'[q] = run[q]
  BY <1>1 DEF Begin, FilesInv
<1>3. UNCHANGED <<callVars, visible, splitFile, witness, records, results, manifest, drifted, report, gateRecords>>
  BY DEF files
<1>4. FilesInv'
  BY <1>1, <1>2, <1>3 DEF FilesInv
<1>5. GateInv'
  <2>1. TestReadAfterGate'
    BY <1>1, <1>3 DEF GateInv, TestReadAfterGate, callVars
  <2> QED
    BY <1>1, <1>2, <1>3, <2>1 DEF GateInv
<1>6. SeenInv'
  BY <1>1, <1>2, <1>3 DEF SeenInv, Seen
<1>7. FrozenInv'
  BY <1>1, <1>2, <1>3 DEF FrozenInv, Population0
<1> QED
  BY <1>3, <1>4, <1>5, <1>6, <1>7, CallsKeep, FilesKeep DEF EvalInv, TypeInv

LEMMA SplitsBeginHolds ==
  ASSUME EvalInv, NEW p \in Procs, NEW check \in BOOLEAN, NEW tripped \in BOOLEAN, SplitsBegin(p, check, tripped)
  PROVE  EvalInv'
<1> PICK w, t : w = (IF check THEN None ELSE witness) /\ t = (tripped \/ splitFile.tripped)
  OBVIOUS
<1> PICK r : r = [tool |-> "splits", check |-> check, existing |-> splitFile, read |-> w, tripped |-> t]
  OBVIOUS
<1>1. Begin(p, r) /\ UNCHANGED <<callVars, files>>
  BY DEF SplitsBegin
<1>2. FilesInv /\ GateInv /\ SeenInv
  BY DEF EvalInv, TypeInv
<1>3. w \in {None} \cup Witnesses /\ splitFile \in SplitFile /\ t \in BOOLEAN
  BY <1>2 DEF FilesInv
<1>4. r \in SplitsRun
  BY <1>3 DEF SplitsRun
<1>5. r.tool = "splits" /\ r.existing = splitFile /\ r.read = w
  OBVIOUS
<1>6. splitFile.gate # None => gateRecords > 0
  BY <1>2 DEF GateInv
<1>7. w # None => Seen(w, visible)
  BY <1>2 DEF SeenInv
<1> QED
  BY <1>1, <1>4, <1>5, <1>6, <1>7, RunBegins

\* The witness a reconciliation writes is what the graph holds; its run goes on with it.
LEMMA SplitsObserveHolds ==
  ASSUME EvalInv, NEW p \in Procs, SplitsObserve(p)
  PROVE  EvalInv'
<1> PICK r : r = [run[p] EXCEPT !.check = FALSE, !.read = observe]
  OBVIOUS
<1>1. /\ run[p].tool = "splits" /\ witness' = observe /\ run' = [run EXCEPT ![p] = r] /\ Drift
      /\ UNCHANGED <<callVars, visible, splitFile, records, results, manifest, report, gateRecords, spent>>
  BY DEF SplitsObserve
<1>2. FilesInv /\ GateInv /\ SeenInv /\ FrozenInv
  BY DEF EvalInv, TypeInv
<1>3. observe = visible /\ visible \in Witnesses /\ Seen(visible, visible)
  BY <1>2 DEF observe, FilesInv, Witnesses, Seen
<1>4. run[p] \in SplitsRun
  BY <1>1, RunIsTyped DEF EvalInv
<1>5. r \in SplitsRun /\ r.tool = "splits" /\ r.read = visible /\ r.existing = run[p].existing
  BY <1>3, <1>4 DEF SplitsRun
<1>6. run'[p] = r /\ \A q \in Procs : q # p => run'[q] = run[q]
  BY <1>1, <1>2 DEF FilesInv
<1>7. FilesInv'
  <2>1. run' \in [Procs -> {Idle} \cup SplitsRun \cup EvalRun]
    BY <1>1, <1>2, <1>5 DEF FilesInv
  <2> QED
    BY <1>1, <1>2, <1>3, <2>1 DEF FilesInv
<1>8. GateInv'
  <2>1. ASSUME NEW q \in Procs
        PROVE  /\ run'[q].tool = "splits" /\ run'[q].existing.gate # None => gateRecords > 0
               /\ run'[q].tool = "eval" /\ run'[q].slice \cap Range(Test) # {} => gateRecords > 0
    BY <1>1, <1>2, <1>5, <1>6 DEF GateInv
  <2>2. TestReadAfterGate'
    BY <1>1, <1>2 DEF GateInv, TestReadAfterGate, callVars
  <2> QED
    BY <1>1, <1>2, <2>1, <2>2 DEF GateInv
<1>9. SeenInv'
  <2>1. ASSUME NEW q \in Procs, run'[q].tool = "splits", run'[q].read # None
        PROVE  Seen(run'[q].read, visible)
    <3>1. CASE q = p
      BY <1>3, <1>5, <1>6, <3>1
    <3>2. CASE q # p
      <4>1. run'[q] = run[q]
        BY <1>6, <3>2
      <4> QED
        BY <1>2, <2>1, <4>1 DEF SeenInv
    <3> QED
      BY <3>1, <3>2
  <2>2. witness' = visible /\ visible' = visible /\ manifest' = manifest
    BY <1>1, <1>3
  <2>3. \A q \in Procs : run'[q].tool = "splits" /\ run'[q].read # None => Seen(run'[q].read, visible')
    BY <2>1, <2>2
  <2> QED
    BY <1>2, <1>3, <2>2, <2>3 DEF SeenInv
<1>10. FrozenInv'
  <2>1. \A q \in Procs : run'[q].tool = "eval" => run'[q] = run[q]
    BY <1>5, <1>6
  <2> QED
    BY <1>1, <1>2, <2>1 DEF FrozenInv, Population0
<1> QED
  BY <1>1, <1>7, <1>8, <1>9, <1>10, CallsKeep, FilesKeep DEF EvalInv, TypeInv

LEMMA SplitsEndHolds ==
  ASSUME EvalInv, NEW p \in Procs, SplitsEnd(p)
  PROVE  EvalInv'
<1> PICK r : r = run[p]
  OBVIOUS
<1> PICK w : w = r.read
  OBVIOUS
<1> PICK done : done = IF w = None THEN "unknown" ELSE completionFromWitness(w, r.tripped)
  OBVIOUS
<1> PICK excluded : excluded = IF w = None THEN {} ELSE exclusions(w)
  OBVIOUS
<1> PICK t : t = (done # "complete" /\ r.tripped)
  OBVIOUS
<1>1. /\ r.tool = "splits"
      /\ splitFile' = [gate |-> r.existing.gate, excluded |-> excluded, completion |-> done, tripped |-> t]
      /\ Drift /\ End(p)
      /\ UNCHANGED <<callVars, visible, witness, records, results, manifest, report, gateRecords, spent>>
  BY DEF SplitsEnd
<1>2. FilesInv /\ GateInv
  BY DEF EvalInv, TypeInv
<1>3. r \in SplitsRun
  BY <1>1, RunIsTyped DEF EvalInv
<1>4. r.existing \in SplitFile /\ r.read \in {None} \cup Witnesses /\ r.tripped \in BOOLEAN
  BY <1>3 DEF SplitsRun
<1>5. r.existing.gate \in {None} \cup [passed : BOOLEAN]
  BY <1>4 DEF SplitFile
<1>6. excluded \in SUBSET Keys /\ done \in {"complete", "capacity-capped", "unknown"} /\ t \in BOOLEAN
  BY <1>4, ExclusionsAreTyped
<1>7. splitFile' \in SplitFile /\ splitFile'.gate = r.existing.gate
  BY <1>1, <1>5, <1>6 DEF SplitFile
<1>8. RunsStay /\ run' \in [Procs -> {Idle} \cup SplitsRun \cup EvalRun]
  BY <1>1, <1>2 DEF End, RunsStay, FilesInv
<1>9. FilesInv'
  BY <1>1, <1>2, <1>7, <1>8 DEF FilesInv
<1>10. GateInv'
  <2>1. r.existing.gate # None => gateRecords > 0
    BY <1>1, <1>2 DEF GateInv
  <2> QED
    BY <1>1, <1>2, <1>7, <1>8, <2>1, GateKeeps DEF FilesInv
<1> QED
  BY <1>1, <1>8, <1>9, <1>10, CallsKeep, SeenKeeps, RunsKeep, FilesKeep DEF EvalInv, TypeInv

LEMMA SplitsOfKinds ==
  /\ \A k \in Frozen : SplitOf[k] \in Halves /\ k # "slice"
  /\ SplitOf["dev"] = "dev" /\ SplitOf["test"] = "test" /\ SplitOf["slice"] = None
BY DEF SplitOf, Kinds, Frozen, Halves

LEMMA EvalBeginHolds ==
  ASSUME EvalInv, NEW p \in Procs, NEW k \in Kinds, NEW i \in Indexes(k), NEW skipMissing \in BOOLEAN,
         EvalBegin(p, k, i, skipMissing)
  PROVE  EvalInv'
<1> PICK all : all = population(k)
  OBVIOUS
<1> PICK slice, pop : slice = sliceOf(k, i) \ notIngested(sliceOf(k, i)) /\ pop = Range(all)
  OBVIOUS
<1> PICK signed : signed = (k \in Frozen /\ manifest.signed)
  OBVIOUS
<1> PICK r : r = [tool |-> "eval", kind |-> k, index |-> i, slice |-> slice, population |-> pop, signed |-> signed]
  OBVIOUS
<1>1. Begin(p, r) /\ UNCHANGED <<callVars, files>>
  BY DEF EvalBegin
<1>2. /\ k \in Frozen => manifest # None
      /\ SplitOf[k] = "test" => splitFile.gate # None
      /\ SplitOf[k] = None => splitFile.gate # None \/ Range(Slice) \cap Range(Test) = {}
  BY DEF EvalBegin, freezeFindings, testGateRefusal, leakedTestIds
<1>3. FilesInv /\ GateInv
  BY DEF EvalInv, TypeInv
<1>4. i \in Nat
  BY ArmsAreBounded DEF Indexes
<1>5. k \in Frozen => manifest \in EvaluationFreeze
  BY <1>2, <1>3 DEF FilesInv
<1>6. all \in Seq(Keys) /\ (k \in Frozen => all = manifest.eligible[SplitOf[k]])
  <2>1. CASE k \in Frozen
    <3>1. manifest.eligible \in [Halves -> Seq(Keys)]
      BY <1>5, <2>1 DEF EvaluationFreeze
    <3> QED
      BY <2>1, <3>1, SplitsOfKinds DEF population
  <2>2. CASE k \in {"dev", "test"}
    BY <2>2, SplitIsAPartition DEF population, Half, Frozen
  <2>3. CASE k = "slice"
    BY <2>3, SplitIsAPartition DEF population, Frozen
  <2> QED
    BY <2>1, <2>2, <2>3 DEF Kinds
<1>7. pop \in SUBSET Keys
  <2>1. \A x \in DOMAIN all : all[x] \in Keys
    BY <1>6, ElementOfSeq, LenProperties
  <2> QED
    BY <2>1 DEF Range
<1>8. slice \in SUBSET Keys
  <2>1. CASE k \in Frozen
    <3>1. i \in 1..Batches[k] /\ Batches[k] \in Nat \ {0}
      BY <2>1, ArmsAreBounded DEF Indexes
    <3>2. Range(batchOf(all, i, Batches[k])) \in SUBSET Keys
      BY <1>6, <3>1, BatchIsAPart
    <3> QED
      BY <2>1, <3>2 DEF sliceOf
  <2>2. CASE k \notin Frozen
    BY <1>7, <2>2 DEF sliceOf
  <2> QED
    BY <2>1, <2>2
<1>9. r \in EvalRun
  <2>1. signed \in BOOLEAN
    <3>1. k \in Frozen => manifest.signed \in BOOLEAN
      BY <1>5 DEF EvaluationFreeze
    <3> QED
      BY <3>1
  <2> QED
    BY <1>4, <1>7, <1>8, <2>1 DEF EvalRun
<1>10. slice \cap Range(Test) # {} => gateRecords > 0
  <2>1. k \in Frozen => gateRecords > 0
    BY <1>2, <1>3 DEF GateInv
  <2>2. k = "test" => gateRecords > 0
    BY <1>2, <1>3, SplitsOfKinds DEF GateInv
  <2>3. k = "dev" => slice \in SUBSET Range(Dev)
    BY SplitsOfKinds DEF sliceOf, population, Half, Frozen
  <2>4. k = "slice" => slice \in SUBSET Range(Slice)
    BY DEF sliceOf, population, Frozen
  <2>5. splitFile.gate # None => gateRecords > 0
    BY <1>3 DEF GateInv
  <2> QED
    BY <1>2, <2>1, <2>2, <2>3, <2>4, <2>5, SplitsOfKinds, SplitIsAPartition DEF Kinds
<1>11. k \in Frozen => manifest # None /\ r.population = Population0(k)
  BY <1>2, <1>6 DEF Population0
<1>12. r.tool = "eval" /\ r.slice = slice /\ r.index = i /\ r.kind = k
  OBVIOUS
<1> QED
  BY <1>1, <1>9, <1>10, <1>11, <1>12, RunBegins

\* A question is on its way only if a run asks it.
LEMMA CallHolds ==
  ASSUME EvalInv, NEW p \in Procs, NEW k \in Keys,
         (\E only \in BOOLEAN : LookUp(p, k, only)) \/ CallStep(p, k),
         k \in Range(Test) => gateRecords > 0,
         UNCHANGED <<run, files>>
  PROVE  EvalInv'
<1>1. CallsInv /\ FilesInv /\ GateInv
  BY DEF EvalInv, TypeInv
<1>2. UNCHANGED <<run, visible, splitFile, witness, records, results, manifest, drifted, report, gateRecords>>
  BY DEF files
<1>3. /\ CallsInv'
      /\ \A q \in Procs, j \in Keys : q # p \/ j # k => calls'[q][j] = calls[q][j]
      /\ \A j \in Keys : j # k => cache'[j] = cache[j]
  BY <1>1, CallMoves
<1>4. FilesInv'
  BY <1>1, <1>2 DEF FilesInv
<1>5. TestReadAfterGate'
  <2>1. TestReadAfterGate
    BY <1>1 DEF GateInv
  <2>2. Range(Test) \in SUBSET Keys
    BY SplitIsAPartition
  <2> QED
    BY <1>2, <1>3, <2>1, <2>2 DEF TestReadAfterGate
<1>6. GateInv'
  BY <1>1, <1>2, <1>5 DEF GateInv
<1>7. RunsStay
  BY <1>2 DEF RunsStay
<1> QED
  BY <1>2, <1>3, <1>4, <1>6, <1>7, SeenKeeps, RunsKeep, FilesKeep DEF EvalInv, TypeInv

LEMMA AskHolds ==
  ASSUME EvalInv, NEW p \in Procs, NEW q \in Keys, Ask(p, q)
  PROVE  EvalInv'
<1>1. /\ run[p].tool = "eval" /\ q \in run[p].slice
      /\ LookUp(p, q, CacheMode(p)) /\ UNCHANGED <<run, files>>
  BY DEF Ask
<1>2. CacheMode(p) \in BOOLEAN
  BY DEF CacheMode
<1>3. q \in Range(Test) => gateRecords > 0
  BY <1>1 DEF EvalInv, GateInv
<1> QED
  BY <1>1, <1>2, <1>3, CallHolds

LEMMA WorkHolds ==
  ASSUME EvalInv, NEW p \in Procs, NEW q \in Keys, Work(p, q)
  PROVE  EvalInv'
<1>1. CallStep(p, q) /\ UNCHANGED <<run, files>> /\ CallsInv
  BY DEF Work, EvalInv, TypeInv
<1>2. calls[p][q].at # "idle"
  BY <1>1, CallMoves
<1>3. q \in Range(Test) => gateRecords > 0
  BY <1>2 DEF EvalInv, GateInv, TestReadAfterGate
<1> QED
  BY <1>1, <1>3, CallHolds

-----------------------------------------------------------------------------
(***************************************************************************)
(* The results.                                                            *)
(***************************************************************************)
\* A run that ended answered each question of its slice.
LEMMA EnvelopeIsTyped ==
  ASSUME EvalInv, NEW p \in Procs, AllAnswered(p)
  PROVE  /\ Envelope(p) \in EnvelopeRecord
         /\ Envelope(p).population = run[p].population
         /\ run[p] \in EvalRun /\ run[p].index \in Indexes(run[p].kind)
         /\ run[p].kind \in Frozen => manifest # None /\ run[p].population = Population0(run[p].kind)
<1> PICK r : r = run[p]
  OBVIOUS
<1>1. r.tool = "eval" /\ At(p, "done") = r.slice
  BY DEF AllAnswered
<1>2. r \in EvalRun
  BY <1>1, RunIsTyped DEF EvalInv
<1>3. r.slice \in SUBSET Keys /\ r.population \in SUBSET Keys /\ r.signed \in BOOLEAN
  BY <1>2 DEF EvalRun
<1>4. \A q \in r.slice : calls[p][q].answer \in Answers
  BY <1>1, <1>3 DEF EvalInv, TypeInv, CallsInv, At
<1> PICK rows : rows = [q \in r.slice |-> calls[p][q].answer]
  OBVIOUS
<1> PICK live : live = \E q \in r.slice : calls[p][q].live
  OBVIOUS
<1>5. rows \in UNION {[D -> Answers] : D \in SUBSET Keys}
  BY <1>3, <1>4
<1>6. Envelope(p) = [rows |-> rows, population |-> r.population, signed |-> r.signed, live |-> live]
  BY DEF Envelope, EvalEnvelope
<1>7. live \in BOOLEAN
  OBVIOUS
<1>8. Envelope(p) \in EnvelopeRecord /\ Envelope(p).population = r.population
  BY <1>3, <1>5, <1>6, <1>7 DEF EnvelopeRecord
<1>9. r.index \in Indexes(r.kind) /\ (r.kind \in Frozen => manifest # None /\ r.population = Population0(r.kind))
  BY <1>1 DEF EvalInv, FrozenInv
<1> QED
  BY <1>2, <1>8, <1>9

\* The results of the frozen arms lie where no other result does.
LEMMA ResultsAreApart ==
  ASSUME NEW k \in Frozen, NEW i \in 0..Batches[k], NEW r,
         results \in [Paths -> {None, Torn} \cup EnvelopeRecord],
         results' = [results EXCEPT ![<<k, i>>] = r]
  PROVE  /\ results'[<<k, i>>] = r
         /\ \A path \in Whole : results'[path] = results[path]
         /\ \A arm \in Frozen : \A j \in 0..Batches[arm] : arm # k \/ j # i => results'[<<arm, j>>] = results[<<arm, j>>]
<1>1. <<k, i>> \in Paths
  BY ArmsAreBounded
<1>2. \A path \in Whole : path # <<k, i>> /\ path \in Paths
  BY FrozenPaths DEF Whole, Paths
<1>3. \A arm \in Frozen : \A j \in 0..Batches[arm] : <<arm, j>> \in Paths /\ (arm # k \/ j # i => <<arm, j>> # <<k, i>>)
  BY ArmsAreBounded
<1> QED
  BY <1>1, <1>2, <1>3

\* A batch of a frozen arm is written where there is none: the merged results stay.
LEMMA BatchWritten ==
  ASSUME EvalInv, NEW k \in Frozen, NEW i \in 1..Batches[k], results[<<k, i>>] = None, manifest # None,
         NEW r \in {Torn} \cup EnvelopeRecord, r # Torn => r.population = Population0(k),
         results' = [results EXCEPT ![<<k, i>>] = r], UNCHANGED <<manifest, drifted, report>>, RunsStay
  PROVE  /\ results' \in [Paths -> {None, Torn} \cup EnvelopeRecord] /\ \A path \in Whole : results'[path] # Torn
         /\ FrozenInv' /\ MergeInv' /\ PinInv'
<1>1. FilesInv /\ FrozenInv /\ MergeInv /\ PinInv
  BY DEF EvalInv, TypeInv
<1>2. results' \in [Paths -> {None, Torn} \cup EnvelopeRecord]
  BY <1>1 DEF FilesInv
<1>3. i \in 0..Batches[k] /\ Batches[k] \in Nat /\ i # 0
  BY ArmsAreBounded
<1>4. /\ results'[<<k, i>>] = r
      /\ \A path \in Whole : results'[path] = results[path]
      /\ \A arm \in Frozen : \A j \in 0..Batches[arm] : arm # k \/ j # i => results'[<<arm, j>>] = results[<<arm, j>>]
  BY <1>1, <1>3, ResultsAreApart DEF FilesInv
<1>5. \A path \in Whole : results'[path] # Torn
  BY <1>1, <1>4 DEF FilesInv
<1>6. \A arm : Population0(arm)' = Population0(arm)
  BY DEF Population0
<1>7. FrozenInv'
  <2>1. ASSUME NEW p \in Procs, run'[p].tool = "eval"
        PROVE  run'[p] = run[p]
    BY <2>1 DEF RunsStay, Idle
  <2>2. \A p \in Procs : run'[p].tool = "eval" =>
          /\ run'[p].index \in Indexes(run'[p].kind)
          /\ run'[p].kind \in Frozen => manifest' # None /\ run'[p].population = Population0(run'[p].kind)
    BY <1>1, <2>1 DEF FrozenInv
  <2>3. ASSUME NEW arm \in Frozen, NEW j \in 0..Batches[arm], results'[<<arm, j>>] # None
        PROVE  manifest' # None /\ (results'[<<arm, j>>] # Torn => results'[<<arm, j>>].population = Population0(arm))
    BY <1>1, <1>4, <2>3 DEF FrozenInv
  <2> QED
    BY <1>6, <2>2, <2>3 DEF FrozenInv
<1>8. MergeInv'
  <2>1. ASSUME NEW arm \in Frozen, results'[<<arm, 0>>] # None
        PROVE  Merged(arm)'
    <3>1. 0 \in 0..Batches[arm] /\ results'[<<arm, 0>>] = results[<<arm, 0>>]
      BY <1>3, <1>4, ArmsAreBounded
    <3>2. Merged(arm)
      BY <1>1, <2>1, <3>1 DEF MergeInv
    <3>3. arm # k
      BY <3>2 DEF Merged, NoneMissing, Parts
    <3>4. \A j \in 0..Batches[arm] : results'[<<arm, j>>] = results[<<arm, j>>]
      BY <1>4, <3>3
    <3> QED
      BY <3>2, <3>4, ArmsAreBounded, MergedStays
  <2> QED
    BY <2>1 DEF MergeInv
<1>9. PinInv'
  <2>1. results'[<<"dev", 0>>] = results[<<"dev", 0>>] /\ results'[<<"dev-replay", 0>>] = results[<<"dev-replay", 0>>]
    BY <1>3, <1>4, ArmsAreBounded DEF Whole, Frozen
  <2> QED
    BY <1>1, <2>1 DEF PinInv, DevIsPinned, SignedOnReport, ReportIsOfFrozen, ReplayIsFrozen
<1> QED
  BY <1>2, <1>5, <1>7, <1>8, <1>9

\* What a process leaves when its run is over.
LEMMA RunEnds ==
  ASSUME EvalInv, NEW p \in Procs, Abandon(p), End(p), UNCHANGED <<visible, splitFile, witness, records, manifest, gateRecords>>,
         results' \in [Paths -> {None, Torn} \cup EnvelopeRecord], \A path \in Whole : results'[path] # Torn
  PROVE  TypeInv' /\ GateInv' /\ SeenInv' /\ RunsStay
<1>1. CallsInv /\ FilesInv /\ GateInv
  BY DEF EvalInv, TypeInv
<1>2. RunsStay /\ run' \in [Procs -> {Idle} \cup SplitsRun \cup EvalRun]
  BY <1>1 DEF End, RunsStay, FilesInv
<1>3. CallsInv' /\ cache' = cache /\ \A q \in Procs, j \in Keys : calls'[q][j] = calls[q][j] \/ calls'[q][j].at = "idle"
  BY <1>1, AbandonMoves
<1>4. FilesInv'
  BY <1>1, <1>2 DEF FilesInv
<1>5. GateInv'
  <2>1. TestReadAfterGate'
    <3>1. TestReadAfterGate /\ Range(Test) \in SUBSET Keys
      BY <1>1, SplitIsAPartition DEF GateInv
    <3> QED
      BY <1>3, <3>1 DEF TestReadAfterGate
  <2>2. \A q \in Procs : run'[q].tool \in {"splits", "eval"} => run'[q] = run[q]
    BY <1>2 DEF RunsStay, Idle
  <2> QED
    BY <1>1, <2>1, <2>2 DEF GateInv
<1> QED
  BY <1>2, <1>3, <1>4, <1>5, SeenKeeps DEF TypeInv

LEMMA EvalDiesHolds ==
  ASSUME EvalInv, NEW p \in Procs, EvalDies(p)
  PROVE  EvalInv'
<1>1. Abandon(p) /\ End(p) /\ UNCHANGED files
  BY DEF EvalDies
<1>2. UNCHANGED <<visible, splitFile, witness, records, results, manifest, drifted, report, gateRecords>>
  BY <1>1 DEF files
<1>3. FilesInv
  BY DEF EvalInv, TypeInv
<1>4. TypeInv' /\ GateInv' /\ SeenInv' /\ RunsStay
  BY <1>1, <1>2, <1>3, RunEnds DEF FilesInv
<1> QED
  BY <1>2, <1>4, RunsKeep, FilesKeep DEF EvalInv

LEMMA EvalEndHolds ==
  ASSUME EvalInv, NEW p \in Procs, EvalEnd(p)
  PROVE  EvalInv'
<1> PICK k, i, e : k = run[p].kind /\ i = run[p].index /\ e = Envelope(p)
  OBVIOUS
<1>1. /\ AllAnswered(p) /\ Abandon(p) /\ End(p)
      /\ results' = IF k = "slice" \/ (k \in Frozen /\ results[<<k, i>>] # None) THEN results ELSE [results EXCEPT ![<<k, i>>] = e]
      /\ <<k, i>> = <<"dev", 0>> => Drift
      /\ <<k, i>> # <<"dev", 0>> => drifted' = drifted
      /\ UNCHANGED <<visible, splitFile, witness, records, manifest, report, gateRecords, spent>>
  BY DEF EvalEnd, MayWrite
<1>2. FilesInv /\ FrozenInv /\ MergeInv /\ PinInv
  BY DEF EvalInv, TypeInv
<1>3. /\ e \in EnvelopeRecord /\ k \in Kinds /\ i \in Indexes(k)
      /\ k \in Frozen => manifest # None /\ e.population = Population0(k)
  BY <1>1, EnvelopeIsTyped DEF EvalRun
<1>4. RunsStay
  BY <1>1, <1>2 DEF End, RunsStay, FilesInv
<1>5. CASE results' = results
  <2>1. TypeInv' /\ GateInv' /\ SeenInv'
    BY <1>1, <1>2, <1>5, RunEnds DEF FilesInv
  <2> QED
    BY <1>1, <1>4, <1>5, <2>1, RunsKeep, FilesKeep DEF EvalInv
<1>6. CASE k \in Frozen /\ results[<<k, i>>] = None
  <2>1. results' = [results EXCEPT ![<<k, i>>] = e]
    BY <1>1, <1>6, SplitsOfKinds
  <2>2. i \in 1..Batches[k]
    BY <1>3, <1>6 DEF Indexes
  <2>3. UNCHANGED <<manifest, drifted, report>>
    BY <1>1, <1>6, FrozenPaths
  <2>4. /\ results' \in [Paths -> {None, Torn} \cup EnvelopeRecord] /\ \A path \in Whole : results'[path] # Torn
        /\ FrozenInv' /\ MergeInv' /\ PinInv'
    BY <1>3, <1>4, <1>6, <2>1, <2>2, <2>3, BatchWritten
  <2> QED
    BY <1>1, <2>4, RunEnds DEF EvalInv
<1>7. CASE k \in {"dev", "test"}
  <2>1. i = 0 /\ <<k, i>> \in Whole /\ <<k, i>> \in Paths
    BY <1>3, <1>7 DEF Indexes, Frozen, Whole, Paths
  <2>2. results' = [results EXCEPT ![<<k, i>>] = e]
    BY <1>1, <1>7 DEF Frozen
  <2>3. results' \in [Paths -> {None, Torn} \cup EnvelopeRecord]
    BY <1>2, <1>3, <2>2 DEF FilesInv
  <2>4. \A path \in Paths : path # <<k, i>> => results'[path] = results[path]
    BY <1>2, <2>2 DEF FilesInv
  <2>5. \A path \in Whole : results'[path] # Torn
    <3>1. results'[<<k, i>>] = e /\ e # Torn
      BY <1>2, <1>3, <2>1, <2>2, NoneIsNoFile DEF FilesInv
    <3> QED
      BY <1>2, <2>4, <3>1 DEF FilesInv, Paths
  <2>6. \A arm \in Frozen : \A j \in 0..Batches[arm] : results'[<<arm, j>>] = results[<<arm, j>>]
    BY <1>7, <2>4, ArmsAreBounded, FrozenPaths, <2>1
  <2>7. FrozenInv'
    <3>1. \A q \in Procs : run'[q].tool = "eval" => run'[q] = run[q]
      BY <1>4 DEF RunsStay, Idle
    <3>2. \A arm : Population0(arm)' = Population0(arm)
      BY <1>1 DEF Population0
    <3> QED
      BY <1>1, <1>2, <2>6, <3>1, <3>2 DEF FrozenInv
  <2>8. MergeInv'
    <3>1. \A arm \in Frozen : 0 \in 0..Batches[arm] /\ Batches[arm] \in Nat
      BY ArmsAreBounded
    <3> QED
      BY <1>1, <1>2, <2>6, <3>1, MergedStays DEF MergeInv
  <2>9. PinInv'
    <3>1. results'[<<"dev-replay", 0>>] = results[<<"dev-replay", 0>>]
      BY <2>6, ArmsAreBounded DEF Frozen
    <3>2. CASE k = "dev"
      <4>1. drifted' = (manifest # None)
        BY <1>1, <2>1, <3>2 DEF Drift
      <4> QED
        BY <1>1, <1>2, <3>1, <4>1 DEF PinInv, DevIsPinned, SignedOnReport, ReportIsOfFrozen, ReplayIsFrozen
    <3>3. CASE k = "test"
      <4>1. drifted' = drifted /\ results'[<<"dev", 0>>] = results[<<"dev", 0>>]
        BY <1>1, <2>4, <3>3 DEF Whole, Paths
      <4> QED
        BY <1>1, <1>2, <3>1, <4>1 DEF PinInv, DevIsPinned, SignedOnReport, ReportIsOfFrozen, ReplayIsFrozen
    <3> QED
      BY <1>7, <3>2, <3>3
  <2> QED
    BY <1>1, <2>3, <2>5, <2>7, <2>8, <2>9, RunEnds DEF EvalInv
<1> QED
  BY <1>1, <1>3, <1>5, <1>6, <1>7 DEF Kinds

LEMMA KillHolds ==
  ASSUME EvalInv, NEW p \in Procs, NEW torn \in BOOLEAN, Kill(p, torn)
  PROVE  EvalInv'
<1> PICK k, i : k = run[p].kind /\ i = run[p].index
  OBVIOUS
<1>1. /\ Abandon(p) /\ End(p)
      /\ torn => AllAnswered(p) /\ k \in Frozen /\ results[<<k, i>>] = None
      /\ results' = IF torn THEN [results EXCEPT ![<<k, i>>] = Torn] ELSE results
      /\ UNCHANGED <<visible, splitFile, witness, records, manifest, drifted, report, gateRecords>>
  BY DEF Kill
<1>2. FilesInv
  BY DEF EvalInv, TypeInv
<1>3. RunsStay
  BY <1>1, <1>2 DEF End, RunsStay, FilesInv
<1>4. CASE ~torn
  <2>1. results' = results
    BY <1>1, <1>4
  <2>2. TypeInv' /\ GateInv' /\ SeenInv'
    BY <1>1, <1>2, <2>1, RunEnds DEF FilesInv
  <2> QED
    BY <1>1, <1>3, <2>1, <2>2, RunsKeep, FilesKeep DEF EvalInv
<1>5. CASE torn
  <2>1. i \in Indexes(k) /\ manifest # None
    BY <1>1, <1>5, EnvelopeIsTyped
  <2>2. i \in 1..Batches[k]
    BY <1>1, <1>5, <2>1 DEF Indexes
  <2>3. /\ results' \in [Paths -> {None, Torn} \cup EnvelopeRecord] /\ \A path \in Whole : results'[path] # Torn
        /\ FrozenInv' /\ MergeInv' /\ PinInv'
    BY <1>1, <1>3, <1>5, <2>1, <2>2, BatchWritten
  <2> QED
    BY <1>1, <2>3, RunEnds DEF EvalInv
<1> QED
  BY <1>4, <1>5

\* A merge takes each row from a batch.
IsMerge(arm, r) ==
  /\ manifest # None /\ r \in EnvelopeRecord
  /\ r.population = Population0(arm) /\ DOMAIN r.rows = Population0(arm)
  /\ \A q \in DOMAIN r.rows : \E i \in Parts(arm) :
       q \in DOMAIN results[<<arm, i>>].rows /\ r.rows[q] = results[<<arm, i>>].rows[q]
  /\ ~r.live => \A i \in Parts(arm) : ~results[<<arm, i>>].live

LEMMA MergeTakesRows ==
  ASSUME EvalInv, NEW arm \in Frozen, Merge(arm)
  PROVE  \E r : IsMerge(arm, r) /\ results' = [results EXCEPT ![<<arm, 0>>] = r]
<1> DEFINE part(i) == results[<<arm, i>>]
           of(q) == CHOOSE i \in Parts(arm) : q \in DOMAIN part(i).rows
<1> PICK first : first = part(Min(Parts(arm)))
  OBVIOUS
<1> PICK D : D = first.population \cap UNION {DOMAIN part(i).rows : i \in Parts(arm)}
  OBVIOUS
<1> PICK rows, live : rows = [q \in D |-> part(of(q)).rows[q]] /\ live = \E i \in Parts(arm) : part(i).live
  OBVIOUS
<1> PICK r : r = [first EXCEPT !.rows = rows, !.live = live]
  OBVIOUS
<1>1. /\ NoneMissing(arm) /\ Compatible(arm)
      /\ \A i \in Parts(arm) : part(i).population \subseteq UNION {RowsOf(<<arm, j>>) : j \in Parts(arm)}
      /\ results' = [results EXCEPT ![<<arm, 0>>] = r]
  BY DEF Merge, mergeBatches
<1>2. FilesInv /\ FrozenInv
  BY DEF EvalInv, TypeInv
<1>3. Batches[arm] \in Nat \ {0} /\ Parts(arm) = 1..Batches[arm]
  BY <1>1, ArmsAreBounded DEF NoneMissing
<1>4. \A i \in Parts(arm) : part(i) \in EnvelopeRecord /\ part(i) # None /\ part(i) # Torn /\ i \in 0..Batches[arm]
  <2> TAKE i \in Parts(arm)
  <2>1. part(i) # None /\ part(i) # Torn /\ i \in 0..Batches[arm]
    <3>1. part(i) # None
      BY Zenon DEF Parts
    <3>2. part(i) # Torn
      BY <1>1, Zenon DEF Compatible
    <3>3. i \in 0..Batches[arm]
      BY <1>3
    <3> QED
      BY <3>1, <3>2, <3>3, Zenon
  <2>2. <<arm, i>> \in Paths
    BY <2>1 DEF Paths, Outputs
  <2>3. results[<<arm, i>>] \in {None, Torn} \cup EnvelopeRecord
    BY <1>2, <2>2 DEF FilesInv
  <2> QED
    BY <2>1, <2>3
<1>5. Min(Parts(arm)) \in Parts(arm)
  <2>1. 1 \in Parts(arm) /\ \A y \in Parts(arm) : 1 <= y
    BY <1>3
  <2> QED
    BY <2>1 DEF Min
<1>6. first \in EnvelopeRecord
  BY <1>4, <1>5
<1>7. manifest # None /\ first.population = Population0(arm)
  BY <1>2, <1>4, <1>5 DEF FrozenInv
<1>8. D = first.population
  <2>1. \A j \in Parts(arm) : RowsOf(<<arm, j>>) = DOMAIN part(j).rows
    BY <1>4 DEF RowsOf
  <2>2. first.population \subseteq UNION {DOMAIN part(j).rows : j \in Parts(arm)}
    BY <1>1, <1>5, <2>1
  <2> QED
    BY <2>2
<1>9. \A q \in D : of(q) \in Parts(arm) /\ q \in DOMAIN part(of(q)).rows /\ rows[q] = part(of(q)).rows[q]
  <2> TAKE q \in D
  <2>1. \E i \in Parts(arm) : q \in DOMAIN part(i).rows
    OBVIOUS
  <2> QED
    BY <2>1
<1>10. \A q \in D : \E i \in Parts(arm) : q \in DOMAIN part(i).rows /\ rows[q] = part(i).rows[q]
  BY <1>9
<1>11. rows \in [D -> Answers]
  <2>1. \A q \in D : rows[q] \in Answers
    <3> TAKE q \in D
    <3>1. PICK i \in Parts(arm) : q \in DOMAIN part(i).rows /\ rows[q] = part(i).rows[q]
      BY <1>10
    <3> PICK f : f = part(i).rows
      OBVIOUS
    <3>2. f \in UNION {[d -> Answers] : d \in SUBSET Keys}
      BY <1>4 DEF EnvelopeRecord
    <3>3. q \in DOMAIN f /\ rows[q] = f[q]
      BY <3>1
    <3> HIDE DEF part, of
    <3> QED
      BY <3>2, <3>3
  <2>2. DOMAIN rows = D /\ rows = [q \in D |-> rows[q]]
    OBVIOUS
  <2> HIDE DEF part, of
  <2> QED
    BY <2>1, <2>2
<1>12. r \in EnvelopeRecord /\ r.rows = rows /\ r.live = live /\ r.population = first.population
  <2>1. r = [rows |-> rows, population |-> first.population, signed |-> first.signed, live |-> live]
    BY <1>6 DEF EnvelopeRecord
  <2>2. first.population \in SUBSET Keys /\ first.signed \in BOOLEAN
    BY <1>6 DEF EnvelopeRecord
  <2>3. rows \in UNION {[d -> Answers] : d \in SUBSET Keys}
    BY <1>8, <1>11, <2>2
  <2>4. live \in BOOLEAN
    OBVIOUS
  <2> QED
    BY <2>1, <2>2, <2>3, <2>4 DEF EnvelopeRecord
<1>13. ~live => \A i \in Parts(arm) : ~part(i).live
  OBVIOUS
<1>14. DOMAIN r.rows = D /\ D = Population0(arm)
  BY <1>7, <1>8, <1>11, <1>12
<1>15. IsMerge(arm, r)
  <2>1. \A q \in DOMAIN r.rows : \E i \in Parts(arm) :
          q \in DOMAIN results[<<arm, i>>].rows /\ r.rows[q] = results[<<arm, i>>].rows[q]
    <3>1. DOMAIN r.rows = D /\ r.rows = rows
      BY <1>12, <1>14
    <3>2. \A q \in D : \E i \in Parts(arm) : q \in DOMAIN results[<<arm, i>>].rows /\ rows[q] = results[<<arm, i>>].rows[q]
      BY <1>10
    <3> HIDE DEF part, of
    <3> TAKE q \in DOMAIN r.rows
    <3>3. q \in D /\ r.rows[q] = rows[q]
      BY <3>1
    <3>4. PICK i \in Parts(arm) : q \in DOMAIN results[<<arm, i>>].rows /\ rows[q] = results[<<arm, i>>].rows[q]
      BY <3>2, <3>3
    <3>5. r.rows[q] = results[<<arm, i>>].rows[q]
      BY <3>3, <3>4
    <3> QED
      BY <3>4, <3>5
  <2>2. ~r.live => \A i \in Parts(arm) : ~results[<<arm, i>>].live
    BY <1>12, <1>13
  <2> HIDE DEF part, of
  <2>3. r.population = Population0(arm) /\ DOMAIN r.rows = Population0(arm)
    BY <1>7, <1>12, <1>14
  <2> QED
    BY <1>7, <1>12, <2>1, <2>2, <2>3 DEF IsMerge
<1> QED
  BY <1>1, <1>15

\* The batches stay, so what was merged from them is what the new result holds.
LEMMA MergedNow ==
  ASSUME NEW arm \in Frozen, NEW r, IsMerge(arm, r), NoneMissing(arm), Compatible(arm),
         results'[<<arm, 0>>] = r, \A i \in 1..Batches[arm] : results'[<<arm, i>>] = results[<<arm, i>>],
         UNCHANGED manifest
  PROVE  Merged(arm)'
<1>1. Parts(arm)' = Parts(arm) /\ Parts(arm) \in SUBSET (1..Batches[arm])
  BY DEF Parts
<1>2. \A i \in Parts(arm) : results'[<<arm, i>>] = results[<<arm, i>>]
  BY <1>1
<1>3. NoneMissing(arm)'
  BY <1>1 DEF NoneMissing
<1>4. Compatible(arm)'
  BY <1>1, <1>2 DEF Compatible
<1>5. Population0(arm)' = Population0(arm)
  BY DEF Population0
<1> QED
  BY <1>1, <1>2, <1>3, <1>4, <1>5 DEF IsMerge, Merged

LEMMA MergeHolds ==
  ASSUME EvalInv, NEW arm \in Frozen, Merge(arm)
  PROVE  EvalInv'
<1> PICK r : IsMerge(arm, r) /\ results' = [results EXCEPT ![<<arm, 0>>] = r]
  BY MergeTakesRows
<1>1. /\ NoneMissing(arm) /\ Compatible(arm)
      /\ results[<<arm, 0>>] = None
      /\ UNCHANGED <<callVars, run, visible, splitFile, witness, records, manifest, drifted, report, gateRecords, spent>>
  BY DEF Merge, mergeBatches
<1>2. FilesInv /\ FrozenInv /\ MergeInv /\ PinInv
  BY DEF EvalInv, TypeInv
<1>3. r \in EnvelopeRecord /\ r.population = Population0(arm) /\ manifest # None
  BY DEF IsMerge
<1>4. Batches[arm] \in Nat \ {0} /\ 0 \in 0..Batches[arm] /\ \A j \in 1..Batches[arm] : j \in 0..Batches[arm] /\ j # 0
  BY ArmsAreBounded
<1>5. /\ results'[<<arm, 0>>] = r
      /\ \A path \in Whole : results'[path] = results[path]
      /\ \A a \in Frozen : \A j \in 0..Batches[a] : a # arm \/ j # 0 => results'[<<a, j>>] = results[<<a, j>>]
  <2>1. results \in [Paths -> {None, Torn} \cup EnvelopeRecord]
    BY <1>2 DEF FilesInv
  <2> QED
    BY <1>4, <2>1, ResultsAreApart
<1>6. FilesInv'
  <2>1. results' \in [Paths -> {None, Torn} \cup EnvelopeRecord]
    BY <1>2, <1>3 DEF FilesInv
  <2> QED
    BY <1>1, <1>2, <1>5, <2>1 DEF FilesInv
<1>7. RunsStay
  BY <1>1 DEF RunsStay
<1>8. GateInv'
  BY <1>1, <1>2, <1>7, GateKeeps DEF FilesInv
<1>9. FrozenInv'
  <2>1. \A a : Population0(a)' = Population0(a)
    BY <1>1 DEF Population0
  <2>2. ASSUME NEW a \in Frozen, NEW j \in 0..Batches[a], results'[<<a, j>>] # None
        PROVE  manifest' # None /\ (results'[<<a, j>>] # Torn => results'[<<a, j>>].population = Population0(a))
    <3>1. CASE a = arm /\ j = 0
      BY <1>1, <1>3, <1>5, <3>1
    <3>2. CASE a # arm \/ j # 0
      BY <1>1, <1>2, <1>5, <2>2, <3>2 DEF FrozenInv
    <3> QED
      BY <3>1, <3>2
  <2>3. \A p \in Procs : run'[p].tool = "eval" =>
          /\ run'[p].index \in Indexes(run'[p].kind)
          /\ run'[p].kind \in Frozen => manifest' # None /\ run'[p].population = Population0(run'[p].kind)
    BY <1>1, <1>2 DEF FrozenInv
  <2> QED
    BY <2>1, <2>2, <2>3 DEF FrozenInv
<1>10. MergeInv'
  <2>1. ASSUME NEW a \in Frozen, a # arm, results'[<<a, 0>>] # None
        PROVE  Merged(a)'
    <3>1. Batches[a] \in Nat /\ 0 \in 0..Batches[a] /\ \A j \in 0..Batches[a] : results'[<<a, j>>] = results[<<a, j>>]
      BY <1>5, <2>1, ArmsAreBounded
    <3>2. Merged(a)
      BY <1>2, <2>1, <3>1 DEF MergeInv
    <3> QED
      BY <1>1, <3>1, <3>2, MergedStays
  <2>2. Merged(arm)'
    <3>1. \A j \in 1..Batches[arm] : results'[<<arm, j>>] = results[<<arm, j>>]
      BY <1>4, <1>5
    <3> QED
      BY <1>1, <1>5, <3>1, MergedNow
  <2> QED
    BY <2>1, <2>2 DEF MergeInv
<1>11. PinInv'
  <2>1. results'[<<"dev", 0>>] = results[<<"dev", 0>>]
    BY <1>5 DEF Whole
  <2>2. report = "identical" => results'[<<"dev-replay", 0>>] = results[<<"dev-replay", 0>>]
    <3>1. report = "identical" => arm # "dev-replay"
      BY <1>1, <1>2 DEF PinInv, ReplayIsFrozen
    <3> QED
      BY <1>5, <3>1, ArmsAreBounded DEF Frozen
  <2> QED
    BY <1>1, <1>2, <2>1, <2>2 DEF PinInv, DevIsPinned, SignedOnReport, ReportIsOfFrozen, ReplayIsFrozen
<1> QED
  BY <1>1, <1>6, <1>7, <1>8, <1>9, <1>10, <1>11, CallsKeep, SeenKeeps DEF EvalInv, TypeInv

-----------------------------------------------------------------------------
LEMMA NextHolds ==
  ASSUME EvalInv, [EvalNext]_evalVars
  PROVE  EvalInv'
<1>1. CASE UNCHANGED evalVars
  <2>1. UNCHANGED <<callVars, run, files, spent>> /\ UNCHANGED <<visible, splitFile, witness, records, results, manifest, drifted, report, gateRecords>>
    BY <1>1 DEF evalVars, files
  <2>2. RunsStay
    BY <2>1 DEF RunsStay
  <2>3. FilesInv'
    BY <2>1 DEF EvalInv, TypeInv, FilesInv
  <2>4. GateInv'
    BY <2>1, <2>2, GateKeeps DEF EvalInv, TypeInv, FilesInv
  <2> QED
    BY <2>1, <2>2, <2>3, <2>4, CallsKeep, SeenKeeps, RunsKeep, FilesKeep DEF EvalInv, TypeInv
<1>2. CASE Tool
  BY <1>2, GateHolds, PopulationHolds, DraftHolds, SignOffHolds, ReplayCompareHolds, MergeHolds, IngestHolds DEF Tool
<1>3. ASSUME NEW p \in Procs, Start(p)
      PROVE  EvalInv'
  <2>1. ASSUME NEW k \in Does[p] \ {"splits"}, NEW skip \in BOOLEAN, NEW i \in Indexes(k), EvalBegin(p, k, i, skip)
        PROVE  EvalInv'
    <3>1. k \in Kinds
      BY SplitIsAPartition
    <3> QED
      BY <2>1, <3>1, EvalBeginHolds
  <2> QED
    BY <1>3, <2>1, SplitsBeginHolds DEF Start
<1>4. ASSUME NEW p \in Procs, Progress(p)
      PROVE  EvalInv'
  BY <1>4, SplitsObserveHolds, SplitsEndHolds, EvalEndHolds, EvalDiesHolds, AskHolds, WorkHolds DEF Progress
<1>5. ASSUME NEW p \in Procs, NEW torn \in BOOLEAN, Kill(p, torn)
      PROVE  EvalInv'
  BY <1>5, KillHolds
<1> QED
  BY <1>1, <1>2, <1>3, <1>4, <1>5 DEF EvalNext

\* Every reachable state is one of the invariant: what each file of the
\* repository owes to the files written before it, through every order of the
\* tools, every failure and every kill.
THEOREM EvaluationInvariant == EvalSpec => []EvalInv
<1>1. EvalInit => EvalInv
  BY InitHolds
<1>2. EvalInv /\ [EvalNext]_evalVars => EvalInv'
  BY NextHolds
<1> QED
  BY <1>1, <1>2, PTL DEF EvalSpec

\* The variables have their types.
THEOREM EvaluationIsTyped == EvalSpec => []EvalTypeOK
<1>1. EvalInv => EvalTypeOK
  BY DEF EvalInv, TypeInv, CallsInv, FilesInv, EvalTypeOK
<1> QED
  BY <1>1, EvaluationInvariant, PTL

\* The test half is closed until a gate record was written: a run reads the
\* record when it begins, and records are never taken back.
THEOREM TestIsClosed == EvalSpec => []TestReadAfterGate
<1>1. EvalInv => TestReadAfterGate
  BY DEF EvalInv, GateInv
<1> QED
  BY <1>1, EvaluationInvariant, PTL

\* A merged result has one row, of one batch, for each question of the
\* population the manifest pins, all of whose users are in the graph.
THEOREM MergesAreWhole == EvalSpec => []MergedIsThePopulation
<1>1. ASSUME EvalInv
      PROVE  MergedIsThePopulation
  <2> SUFFICES ASSUME NEW arm \in Frozen, results[<<arm, 0>>] \notin {None, Torn}
               PROVE  /\ DOMAIN results[<<arm, 0>>].rows = Range(manifest.eligible[SplitOf[arm]])
                      /\ \A q \in DOMAIN results[<<arm, 0>>].rows :
                           /\ visible[q] = "complete"
                           /\ Cardinality({i \in Parts(arm) : q \in RowsOf(<<arm, i>>)
                                             /\ results[<<arm, i>>].rows[q] = results[<<arm, 0>>].rows[q]}) = 1
    BY DEF MergedIsThePopulation
  <2> PICK merged : merged = results[<<arm, 0>>].rows
    OBVIOUS
  <2>1. Merged(arm)
    BY <1>1 DEF EvalInv, MergeInv
  <2>2. DOMAIN merged = Population0(arm) /\ Compatible(arm)
    BY <2>1 DEF Merged
  <2>3. manifest # None /\ SplitOf[arm] \in Halves
    BY <1>1, ArmsAreBounded, SplitsOfKinds DEF EvalInv, FrozenInv
  <2>4. \A i \in Parts(arm) : results[<<arm, i>>] # Torn /\ results[<<arm, i>>] # None
                              /\ RowsOf(<<arm, i>>) = DOMAIN results[<<arm, i>>].rows
    BY <2>2 DEF Compatible, Parts, RowsOf
  <2>5. ASSUME NEW q \in DOMAIN merged
        PROVE  Cardinality({i \in Parts(arm) : q \in RowsOf(<<arm, i>>) /\ results[<<arm, i>>].rows[q] = merged[q]}) = 1
    <3>1. PICK i \in Parts(arm) : q \in DOMAIN results[<<arm, i>>].rows /\ merged[q] = results[<<arm, i>>].rows[q]
      BY <2>1 DEF Merged
    <3>2. \A j \in Parts(arm) : q \in DOMAIN results[<<arm, j>>].rows => j = i
      BY <2>2, <3>1 DEF Compatible
    <3>3. {j \in Parts(arm) : q \in RowsOf(<<arm, j>>) /\ results[<<arm, j>>].rows[q] = merged[q]} = {i}
      BY <2>4, <3>1, <3>2
    <3> QED
      BY <3>3, FS_Singleton
  <2>6. \A q \in Population0(arm) : visible[q] = "complete"
    BY <1>1, <2>3 DEF EvalInv, SeenInv, Population0
  <2> QED
    BY <2>2, <2>5, <2>6 DEF Population0
<1> QED
  BY <1>1, EvaluationInvariant, PTL

\* A run of the last arm begins only on the dev rows that were pinned and that a
\* replay without a live call reproduced, after a gate that passed.
THEOREM LastArmIsQualified == EvalSpec => TestArmIsQualified
<1> DEFINE Qualified ==
      /\ RowsOf(<<"dev", 0>>) = Range(Dev) /\ results[<<"dev", 0>>].rows = manifest.alreadyRead
      /\ report = "identical" /\ results[<<"dev-replay", 0>>].rows = results[<<"dev", 0>>].rows
      /\ \A i \in Parts("dev-replay") : results[<<"dev-replay", i>>] # Torn /\ ~results[<<"dev-replay", i>>].live
      /\ splitFile.gate.passed
      /\ results[<<"test", 0>>] = None
<1>1. ASSUME EvalInv, freezeFindings("test-arm")
      PROVE  Qualified
  <2>1. /\ manifest # None /\ ~drifted /\ splitFile.gate = manifest.gate
        /\ RowsOf(<<"dev", 0>>) = Range(Dev)
        /\ results[<<"test", 0>>] = None /\ manifest.signed
    BY <1>1 DEF freezeFindings, artifactFindings, gateFindings, alreadyReadFindings
  <2>2. FilesInv /\ MergeInv /\ PinInv
    BY <1>1 DEF EvalInv, TypeInv
  <2>3. report = "identical" /\ results[<<"dev", 0>>].rows = manifest.alreadyRead
    BY <2>1, <2>2 DEF PinInv, SignedOnReport, DevIsPinned
  <2>4. /\ results[<<"dev-replay", 0>>] # None /\ ~results[<<"dev-replay", 0>>].live
        /\ results[<<"dev-replay", 0>>].rows = results[<<"dev", 0>>].rows
    BY <2>1, <2>2, <2>3 DEF PinInv, ReplayIsFrozen
  <2>5. Merged("dev-replay")
    BY <2>2, <2>4 DEF MergeInv, Frozen
  <2>6. \A i \in Parts("dev-replay") : results[<<"dev-replay", i>>] # Torn /\ ~results[<<"dev-replay", i>>].live
    BY <2>4, <2>5 DEF Merged, Compatible
  <2>7. splitFile.gate.passed
    <3>1. manifest.gate \in [passed : {TRUE}]
      BY <2>1, <2>2 DEF FilesInv, EvaluationFreeze
    <3> QED
      BY <2>1, <3>1
  <2> QED
    BY <2>1, <2>3, <2>4, <2>6, <2>7
<1>2. ASSUME EvalInv, [EvalNext]_evalVars, NEW p \in Procs,
             run[p] = Idle, run'[p] # Idle, run'[p].tool = "eval", run'[p].kind = "test-arm"
      PROVE  Qualified
  <2>1. run' # run
    BY <1>2
  <2>2. ~Tool /\ ~(UNCHANGED evalVars)
    BY <2>1 DEF Tool, Gate, Population, Draft, SignOff, ReplayCompare, Merge, Ingest, evalVars
  <2>3. PICK q \in Procs : Start(q) \/ Progress(q) \/ \E torn \in BOOLEAN : Kill(q, torn)
    BY <1>2, <2>2 DEF EvalNext
  <2>4. run \in [Procs -> {Idle} \cup SplitsRun \cup EvalRun]
    BY <1>2 DEF EvalInv, TypeInv, FilesInv
  <2>5. ~End(q)
    BY <1>2, <2>4 DEF End
  <2>6. ~Progress(q) /\ \A torn \in BOOLEAN : ~Kill(q, torn)
    <3>1. ~SplitsObserve(q)
      <4>1. CASE q = p
        BY <1>2, <4>1 DEF SplitsObserve, Idle
      <4>2. CASE q # p
        BY <1>2, <2>4, <4>2 DEF SplitsObserve
      <4> QED
        BY <4>1, <4>2
    <3> QED
      BY <2>1, <2>5, <3>1 DEF Progress, SplitsEnd, EvalEnd, EvalDies, Ask, Work, Kill
  <2>7. CASE \E check, tripped \in BOOLEAN : SplitsBegin(q, check, tripped)
    <3>1. PICK r : Begin(q, r) /\ r.tool = "splits"
      BY <2>7 DEF SplitsBegin
    <3> QED
      BY <1>2, <2>4, <3>1 DEF Begin
  <2>8. CASE \E k \in Does[q] \ {"splits"}, skip \in BOOLEAN : \E i \in Indexes(k) : EvalBegin(q, k, i, skip)
    <3>1. PICK k \in Does[q] \ {"splits"}, skip \in BOOLEAN : \E i \in Indexes(k) : EvalBegin(q, k, i, skip)
      BY <2>8
    <3>2. PICK i \in Indexes(k) : EvalBegin(q, k, i, skip)
      BY <3>1
    <3>3. PICK r : Begin(q, r) /\ r.kind = k
      BY <3>2 DEF EvalBegin
    <3>4. k = "test-arm"
      BY <1>2, <2>4, <3>3 DEF Begin
    <3>5. freezeFindings("test-arm")
      BY <3>2, <3>4 DEF EvalBegin, Frozen
    <3> QED
      BY <1>1, <1>2, <3>5
  <2> QED
    BY <2>3, <2>6, <2>7, <2>8 DEF Start
<1>3. EvalInv /\ [EvalNext]_evalVars =>
        [\A p \in Procs : (run[p] = Idle /\ run'[p] # Idle /\ run'[p].tool = "eval" /\ run'[p].kind = "test-arm") => Qualified]_run
  BY <1>2
<1> QED
  BY <1>3, EvaluationInvariant, PTL DEF EvalSpec, TestArmIsQualified

\* An answer that lies whole in the cache, with no call for it under way, stays:
\* every later run gets it.
THEOREM SettledAnswersStay == EvalSpec => AnswersSettle
<1> DEFINE Stays(k) == Settled(k) => Settled(k)' /\ cache'[k] = cache[k]
<1>1. ASSUME UNCHANGED callVars, NEW k \in Keys
      PROVE  Stays(k)
  BY <1>1 DEF callVars, Settled
<1>2. ASSUME EvalInv, NEW p \in Procs, NEW j \in Keys, NEW k \in Keys,
             (\E only \in BOOLEAN : LookUp(p, j, only)) \/ CallStep(p, j)
      PROVE  Stays(k)
  <2>1. CallsInv
    BY <1>2 DEF EvalInv, TypeInv
  <2>2. CASE k = j
    BY <1>2, <2>1, <2>2, CallMoves
  <2>3. CASE k # j
    <3>1. cache'[k] = cache[k] /\ \A q \in Procs : calls'[q][k] = calls[q][k]
      BY <1>2, <2>1, <2>3, CallMoves
    <3> QED
      BY <3>1 DEF Settled
  <2> QED
    BY <2>2, <2>3
<1>3. ASSUME EvalInv, NEW p \in Procs, NEW k \in Keys, Abandon(p)
      PROVE  Stays(k)
  BY <1>3, AbandonMoves DEF EvalInv, TypeInv
<1>4. ASSUME EvalInv, [EvalNext]_evalVars, NEW k \in Keys
      PROVE  Stays(k)
  <2>1. CASE UNCHANGED evalVars \/ Tool
    <3>1. UNCHANGED callVars
      BY <2>1 DEF evalVars, Tool, Gate, Population, Draft, SignOff, ReplayCompare, Merge, Ingest
    <3> QED
      BY <1>1, <3>1
  <2>2. ASSUME NEW p \in Procs, Start(p)
        PROVE  Stays(k)
    <3>1. UNCHANGED callVars
      BY <2>2 DEF Start, EvalBegin, SplitsBegin
    <3> QED
      BY <1>1, <3>1
  <2>3. ASSUME NEW p \in Procs, Progress(p)
        PROVE  Stays(k)
    <3>1. CASE SplitsObserve(p) \/ SplitsEnd(p)
      BY <1>1, <3>1 DEF SplitsObserve, SplitsEnd
    <3>2. CASE EvalEnd(p) \/ EvalDies(p)
      BY <1>3, <1>4, <3>2 DEF EvalEnd, EvalDies
    <3>3. ASSUME NEW j \in Keys, Ask(p, j) \/ Work(p, j)
          PROVE  Stays(k)
      <4>1. CacheMode(p) \in BOOLEAN
        BY DEF CacheMode
      <4>2. (\E only \in BOOLEAN : LookUp(p, j, only)) \/ CallStep(p, j)
        BY <3>3, <4>1 DEF Ask, Work
      <4> QED
        BY <1>2, <1>4, <4>2
    <3> QED
      BY <2>3, <3>1, <3>2, <3>3 DEF Progress
  <2>4. ASSUME NEW p \in Procs, NEW torn \in BOOLEAN, Kill(p, torn)
        PROVE  Stays(k)
    BY <1>3, <1>4, <2>4 DEF Kill
  <2> QED
    BY <1>4, <2>1, <2>2, <2>3, <2>4 DEF EvalNext
<1>5. EvalInv /\ [EvalNext]_evalVars => [\A k \in Keys : Stays(k)]_callVars
  BY <1>4
<1> QED
  BY <1>5, EvaluationInvariant, PTL DEF EvalSpec, AnswersSettle

=============================================================================
