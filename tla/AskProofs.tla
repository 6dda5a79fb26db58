------------------------------ MODULE AskProofs ------------------------------
(***************************************************************************)
(* Every claim a question is answered from is of the snapshot its pass      *)
(* bound, and within the temporal perspective the question is read in: the  *)
(* bounds of the operators of Retrieval, the inductive invariant, and what  *)
(* follows from it.  A search that concludes an absence missed nothing a    *)
(* search without limits would have found.  And dates: TimeScope counts the *)
(* days of the Calendar, a phrase stands for the period it should, and what *)
(* passes the cut is of the period the question asks about.                *)
(***************************************************************************)
EXTENDS Ask, TLAPS, FiniteSetTheorems, WellFoundedInduction

\* What is shown, or was, comes of the snapshot it is labelled with.
OneSnapshot(r) == r.evidence \cup r.spans \subseteq {r.snapshot} \X InPerspective

Passing == {"gather", "select", "read", "judge"}

\* The inductive invariant.  A pass has bound a snapshot; its hits are claims; what it
\* retrieved and read is of that snapshot; only a reading is judged, and only a judged
\* reading leads to a second pass.
AskInv ==
  /\ published \in {0} \cup Snapshots
  /\ bound \in {0} \cup Snapshots
  /\ at \in {"idle", "bind", "done"} \cup Passing
  /\ at \in Passing => bound # 0
  /\ \A a \in DOMAIN reach : DOMAIN reach[a] \subseteq Claims
  /\ DOMAIN candidates \subseteq InPerspective
  /\ shown \in Results /\ first \in Results /\ reply \in Results
  /\ OneSnapshot(shown) /\ OneSnapshot(first) /\ OneSnapshot(reply)
  /\ at \in {"read", "judge"} => shown.snapshot = bound
  /\ at = "judge" => shown.verdict = "ANSWER"
  /\ pass \in {1, 2}
  /\ IF pass = 1 THEN first = Nothing ELSE first.verdict = "ANSWER"

-----------------------------------------------------------------------------
(***************************************************************************)
(* What the operators of a pass return.                                    *)
(***************************************************************************)

\* A union holds claims its arms reached, and scoping leaves those of the perspective.
LEMMA ScopedInPerspective ==
  ASSUME NEW r, \A a \in DOMAIN r : DOMAIN r[a] \subseteq Claims
  PROVE  DOMAIN Scoped(Union(r)) \subseteq InPerspective
  BY DEF Scoped, Restrict, InCut

\* Whatever the selector chose, only candidates are kept.
LEMMA SelectionKeepsCandidates ==
  ASSUME NEW cands, NEW chosen \in SUBSET DOMAIN cands
  PROVE  /\ EnforceSelection(cands, chosen) \subseteq DOMAIN cands
         /\ Fallback(cands) \subseteq DOMAIN cands
<1>1. EnforceSelection(cands, chosen) \subseteq DOMAIN cands
  BY DEF EnforceSelection, Best
<1>2. Fallback(cands) \subseteq DOMAIN cands
  BY DEF Fallback, Best
<1> QED
  BY <1>1, <1>2

\* The pack holds excerpts of what was retrieved and nothing else.
LEMMA PackIsEvidence == Packed \subseteq Evidence
<1>1. \A old, spans, protected : ApplyBudget(old, spans, protected) \subseteq spans
  <2> TAKE old, spans, protected
  <2> QED
    BY DEF ApplyBudget, Best
<1>2. \A old : Dedupe(old, Evidence) \subseteq Evidence
  BY DEF Dedupe
<1> QED
  BY <1>1, <1>2 DEF Packed

\* What every arm reports is within the snapshot's claims.
LEMMA ArmsReachClaims ==
  ASSUME NEW held \in SUBSET Claims, NEW terms, NEW slots
  PROVE  /\ DOMAIN Walk(held, terms) \subseteq Claims
         /\ DOMAIN Named(held, slots) \subseteq Claims
         /\ \A hits : DOMAIN hits \subseteq Claims => DOMAIN Cut(hits) \subseteq Claims
         /\ DOMAIN NoHits = {}
         /\ \A reached : Mates(Named(held, slots), reached) \subseteq Claims
<1>1. DOMAIN Named(held, slots) \subseteq Claims
  BY DEF Named
<1>2. \A reached : Mates(Named(held, slots), reached) \subseteq DOMAIN Named(held, slots)
  BY DEF Mates, Best
<1> QED
  BY <1>1, <1>2 DEF Walk, Cut, Restrict, NoHits

-----------------------------------------------------------------------------
(***************************************************************************)
(* The invariant is inductive.                                             *)
(***************************************************************************)

LEMMA NothingIsAResult == Nothing \in Results /\ OneSnapshot(Nothing)
  BY DEF Nothing, Results, OneSnapshot

\* A snapshot that is bound holds claims.
LEMMA BoundHoldsClaims ==
  ASSUME AskInv, bound # 0 PROVE bound \in Snapshots /\ Held \in SUBSET Claims
  BY SnapshotsHoldClaims DEF AskInv, Held, Snapshots

LEMMA InitInv == AskInit => AskInv
<1>1. DOMAIN NoArms = {} /\ DOMAIN NoHits = {}
  BY DEF NoArms, NoHits
<1> QED
  BY <1>1, NothingIsAResult DEF AskInit, AskInv, Passing

\* An error ends the request with nothing.
LEMMA ThrowKeeps ==
  ASSUME AskInv, Throw,
         UNCHANGED <<published, pass, bound, reach, candidates, shown, first>>
  PROVE  AskInv'
<1>1. reply' \in Results /\ OneSnapshot(reply)'
  BY DEF Throw, Finish, Nothing, Results, OneSnapshot
<1> QED
  BY <1>1 DEF AskInv, Throw, Finish, OneSnapshot, Passing

LEMMA OutsideKeeps ==
  ASSUME AskInv, Publish \/ Call PROVE AskInv'
<1>1. CASE Publish
  BY <1>1, SnapshotsHoldClaims DEF AskInv, Publish, request, searched, Snapshots, OneSnapshot, Passing
<1>2. CASE Call
  BY <1>2 DEF AskInv, Call, searched, OneSnapshot, Passing
<1> QED
  BY <1>1, <1>2

LEMMA BindKeeps == ASSUME AskInv, Bind PROVE AskInv'
<1>1. DOMAIN reach' = {} /\ DOMAIN candidates' = {}
  BY DEF Bind, NoArms, NoHits
<1>2. CASE published = 0
  <2>1. reply' \in Results /\ OneSnapshot(reply)'
    BY <1>2 DEF Bind, Throw, Finish, Nothing, Results, OneSnapshot
  <2> QED
    BY <1>1, <1>2, <2>1 DEF AskInv, Bind, Throw, Finish, OneSnapshot, Passing
<1>3. CASE published # 0
  BY <1>1, <1>3 DEF AskInv, Bind, OneSnapshot, Passing
<1> QED
  BY <1>2, <1>3

\* An arm that reports claims changes nothing else.
LEMMA ReportKeeps ==
  ASSUME AskInv, NEW a, NEW hits, NEW limited \in BOOLEAN, Report(a, hits, limited),
         DOMAIN hits \subseteq Claims
  PROVE  AskInv'
<1>1. \A b \in DOMAIN reach' : DOMAIN reach'[b] \subseteq Claims
  BY DEF Report, AskInv
<1> QED
  BY <1>1 DEF AskInv, Report, OneSnapshot, Passing

LEMMA ArmsKeep ==
  ASSUME AskInv, (\E a \in Arms : LimitArm(a) \/ RunArm(a)) \/ RunSlotMates PROVE AskInv'
<1>1. CASE RunSlotMates
  <2>1. bound # 0
    BY <1>1 DEF RunSlotMates, MayRun, AskInv, Passing
  <2>2. DOMAIN Expansion \subseteq Claims
    BY <2>1, BoundHoldsClaims, ArmsReachClaims DEF Expansion
  <2>3. \A reached : Mates(Expansion, reached) \subseteq Claims
    BY <2>1, BoundHoldsClaims, ArmsReachClaims DEF Expansion
  <2> DEFINE reached == DOMAIN Union(reach)
             mates == Mates(Expansion, reached)
  <2>4. Report("slotMate", Restrict(Expansion, mates), DOMAIN Expansion \ reached # mates)
    BY <1>1 DEF RunSlotMates
  <2>5. DOMAIN Restrict(Expansion, mates) \subseteq Claims
    BY <2>3 DEF Restrict
  <2> QED
    BY <2>4, <2>5, ReportKeeps
<1>2. ASSUME NEW a \in Arms, LimitArm(a) PROVE AskInv'
  <2>1. DOMAIN NoHits \subseteq Claims
    BY DEF NoHits
  <2> QED
    BY <1>2, <2>1, ReportKeeps DEF LimitArm, IsReported
<1>3. ASSUME NEW a \in Arms, RunArm(a) PROVE AskInv'
  <2>1. bound # 0
    BY <1>3 DEF RunArm, MayRun, AskInv, Passing
  <2> DEFINE hits == CASE a = "probe" -> Named(Held, Question.probes)
                       [] a = "subQuestion" -> Walk(Held, Question.subTerms)
                       [] a = "convergence" -> Walk(Held, SearchTerms)
                       [] a = "discovery" -> Walk(Held, DiscoverySeeds(reach, SearchTerms))
  <2>2. a \in {"probe", "subQuestion", "convergence", "discovery"}
    BY <1>3 DEF RunArm, Arms, Priority
  <2>3. DOMAIN hits \subseteq Claims
    BY <2>1, <2>2, BoundHoldsClaims, ArmsReachClaims
  <2>4. DOMAIN Cut(hits) \subseteq Claims
    BY <2>1, <2>3, BoundHoldsClaims, ArmsReachClaims
  <2>5. Report(a, Cut(hits), FALSE)
    BY <1>3 DEF RunArm
  <2> HIDE DEF hits
  <2> QED
    BY <2>4, <2>5, ReportKeeps
<1> QED
  BY <1>1, <1>2, <1>3

\* What is planned are candidates within the perspective, and no evidence is shown yet.
LEMMA PlanKeeps == ASSUME AskInv, Plan PROVE AskInv'
<1>1. at = "gather" /\ bound \in Snapshots
  BY BoundHoldsClaims DEF Plan, AskInv, Passing
<1>2. DOMAIN candidates' \subseteq InPerspective
  BY ScopedInPerspective DEF Plan, AskInv
<1>3. Unread \in Results /\ OneSnapshot(Unread)
  BY <1>1 DEF Unread, EmptyVerdict, Nothing, Results, OneSnapshot
<1>4. CASE Grounded(reach) = {}
  <2>1. reply' \in Results /\ OneSnapshot(reply)'
    BY <1>3, <1>4 DEF Plan, AskInv, Finish, AfterEmptyHunt, OneSnapshot
  <2> QED
    BY <1>2, <1>4, <2>1 DEF Plan, AskInv, Finish, OneSnapshot, Passing
<1>5. CASE Grounded(reach) # {}
  BY <1>1, <1>2, <1>5 DEF Plan, AskInv, OneSnapshot, Passing
<1> QED
  BY <1>4, <1>5

\* Whatever the selector says, the evidence is of the snapshot of the pass.
LEMMA SelectKeeps == ASSUME AskInv, Select PROVE AskInv'
<1>1. at = "select" /\ bound \in Snapshots
  BY BoundHoldsClaims DEF Select, AskInv, Passing
<1>2. PICK kept \in SUBSET DOMAIN candidates : Keep(kept)
  BY SelectionKeepsCandidates DEF Select
<1>3. ApplySelection(candidates, kept) \subseteq InPerspective
  BY SelectionKeepsCandidates DEF ApplySelection, AskInv
<1> DEFINE evidence == {bound} \X ApplySelection(candidates, kept)
<1>4. evidence \subseteq {bound} \X InPerspective /\ evidence \subseteq Snapshots \X Claims
  BY <1>1, <1>3 DEF InPerspective
<1>5. shown' = [Nothing EXCEPT !.snapshot = bound, !.evidence = evidence]
  BY <1>2 DEF Keep
<1> HIDE DEF evidence
<1>6. shown' \in Results /\ OneSnapshot(shown)' /\ shown'.snapshot = bound
  BY <1>1, <1>4, <1>5 DEF Nothing, Results, OneSnapshot
<1> QED
  BY <1>1, <1>2, <1>6 DEF Keep, AskInv, OneSnapshot, Passing, searched

\* The excerpts are of what was retrieved, hydrated through the snapshot of the pass.
LEMMA ReadKeeps == ASSUME AskInv, NEW silent \in BOOLEAN, Read(silent) PROVE AskInv'
<1>1. at = "read" /\ bound \in Snapshots /\ shown.snapshot = bound
  BY BoundHoldsClaims DEF Read, AskInv, Passing
<1>2. Evidence \subseteq InPerspective
  BY DEF AskInv, OneSnapshot, Evidence
<1> DEFINE pack == Packed
           spans == {HydratesThrough} \X pack
<1>3. spans \subseteq {bound} \X InPerspective /\ spans \subseteq Snapshots \X Claims
  BY <1>1, <1>2, PackIsEvidence DEF HydratesThrough, InPerspective
<1>4. shown' = [shown EXCEPT !.spans = spans, !.notInMemory = silent, !.verdict = "ANSWER"]
  BY DEF Read
<1>5. /\ \/ at' = "judge" /\ reply' = reply
         \/ at' = "done" /\ reply' = shown'
      /\ UNCHANGED <<published, pass, bound, reach, candidates, first>>
  BY DEF Read, Finish, searched
<1> HIDE DEF pack, spans
<1>6. shown' \in Results /\ OneSnapshot(shown)' /\ shown'.snapshot = bound
        /\ shown'.verdict = "ANSWER"
  BY <1>1, <1>3, <1>4 DEF AskInv, Results, OneSnapshot
<1> QED
  BY <1>1, <1>5, <1>6 DEF AskInv, OneSnapshot, Passing

\* What the judge makes of a reading keeps its evidence.
LEMMA JudgeKeeps ==
  ASSUME AskInv,
         Contradict \/ (\E tier \in Tiers : Conclude(tier)) \/ (\E terms \in Missing : Refine(terms))
  PROVE  AskInv'
<1>1. CASE Contradict
  <2>1. reply' \in Results /\ OneSnapshot(reply)' /\ at' = "done"
    BY <1>1 DEF Contradict, Finish, AskInv, Results, OneSnapshot
  <2> QED
    BY <1>1, <2>1 DEF Contradict, AskInv, OneSnapshot, Passing, searched
<1>2. ASSUME NEW tier \in Tiers, Conclude(tier) PROVE AskInv'
  <2>1. reply' \in Results /\ OneSnapshot(reply)' /\ at' = "done"
    BY <1>2 DEF Conclude, Finish, AskInv, Results, OneSnapshot
  <2> QED
    BY <1>2, <2>1 DEF Conclude, AskInv, OneSnapshot, Passing, searched
<1>3. ASSUME NEW terms \in Missing, Refine(terms) PROVE AskInv'
  BY <1>3 DEF Refine, AskInv, OneSnapshot, Passing, searched
<1> QED
  BY <1>1, <1>2, <1>3

LEMMA FailuresKeep == ASSUME AskInv, FailGather \/ FailRead PROVE AskInv'
  BY ThrowKeeps DEF FailGather, FailRead, searched

LEMMA NextKeeps == ASSUME AskInv, [AskNext]_askVars PROVE AskInv'
<1>1. CASE UNCHANGED askVars
  BY <1>1 DEF AskInv, askVars, request, searched, OneSnapshot, Passing
<1>2. CASE AskNext
  BY <1>2, OutsideKeeps, BindKeeps, ArmsKeep, PlanKeeps, SelectKeeps, ReadKeeps, JudgeKeeps,
     FailuresKeep DEF AskNext, RequestStep
<1> QED
  BY <1>1, <1>2

-----------------------------------------------------------------------------
(***************************************************************************)
(* An empty search that met no limit: what the caps of the arms leave out   *)
(* never outranks what they keep, so nothing grounded means nothing there.  *)
(***************************************************************************)
\* A set of numbers has a least element.
LEMMA LeastOfSome ==
  ASSUME NEW S \in SUBSET Nat, S # {}
  PROVE  \E x \in S : \A y \in S : x <= y
<1> PICK upTo : upTo = [x \in S |-> {y \in S : y <= x}]
  OBVIOUS
<1> PICK segments : segments = {upTo[x] : x \in S}
  OBVIOUS
<1>1. \A x \in S : upTo[x] \in FiniteSubsetsOf(S)
  <2> TAKE x \in S
  <2>1. upTo[x] \in SUBSET S /\ upTo[x] \in SUBSET Nat /\ x \in Nat /\ \A y \in upTo[x] : y <= x
    OBVIOUS
  <2>2. IsFiniteSet(upTo[x])
    BY <2>1, FS_BoundedSetOfNaturals
  <2> QED
    BY <2>1, <2>2 DEF FiniteSubsetsOf
<1>2. segments \subseteq FiniteSubsetsOf(S) /\ segments # {}
  BY <1>1
<1>3. PICK s \in segments : \A r \in segments : ~(<<r, s>> \in StrictSubsetOrdering(S))
  BY <1>2, FS_StrictSubsetOrderingWellFounded, WFMin
<1>4. PICK x \in S : s = upTo[x]
  BY <1>3
<1>5. ASSUME NEW y \in S, y < x
      PROVE  FALSE
  <2>1. x \in Nat /\ y \in Nat
    OBVIOUS
  <2>3. \A z \in upTo[y] : z \in S /\ z \in Nat /\ z <= y
    OBVIOUS
  <2>4. upTo[y] \in SUBSET S /\ s \in SUBSET S /\ x \in s
    BY <1>4, <2>1
  <2>5. \A z \in upTo[y] : z \in s
    <3> TAKE z \in upTo[y]
    <3> QED
      BY <1>4, <1>5, <2>1, <2>3
  <2>6. x \notin upTo[y]
    BY <1>5, <2>1, <2>3
  <2>2. <<upTo[y], s>> \in StrictSubsetOrdering(S)
    BY <2>4, <2>5, <2>6 DEF StrictSubsetOrdering
  <2> QED
    BY <1>3, <2>2
<1>6. \A y \in S : x \in Nat /\ y \in Nat
  OBVIOUS
<1> QED
  BY <1>5, <1>6

\* A bounded one has a greatest.
LEMMA GreatestOfSome ==
  ASSUME NEW S \in SUBSET Nat, S # {}, NEW n \in Nat, \A x \in S : x <= n
  PROVE  \E x \in S : \A y \in S : x >= y
<1> PICK R : R = {n - x : x \in S}
  OBVIOUS
<1>1. R \in SUBSET Nat /\ R # {}
  <2>1. \A x \in S : n - x \in Nat
    <3> TAKE x \in S
    <3>1. x \in Nat /\ x <= n
      OBVIOUS
    <3> QED
      BY <3>1
  <2>2. R # {}
    OBVIOUS
  <2> QED
    BY <2>1, <2>2
<1>2. PICK r \in R : \A q \in R : r <= q
  BY <1>1, LeastOfSome
<1>3. PICK x \in S : r = n - x
  BY <1>2
<1>4. \A y \in S : n - y \in R
  OBVIOUS
<1> QED
  BY <1>2, <1>3, <1>4

\* A hit is reached by a number of terms.
LEMMA ConvergenceIsCounted ==
  ASSUME NEW hits, NEW c, hits[c] \in SUBSET Terms
  PROVE  Convergence(hits, c) \in Nat /\ Convergence(hits, c) <= Cardinality(Terms) /\ Cardinality(Terms) \in Nat
BY ClaimsAreRanked, FS_Subset, FS_CardinalityType DEF Convergence

\* Under its cap an arm keeps a hit that no other converges more than.
LEMMA ArmKeepsTheBest ==
  ASSUME NEW label, NEW hits, DOMAIN hits \in SUBSET Claims, \A c \in DOMAIN hits : hits[c] \in SUBSET Terms,
         NEW c \in Visible(hits)
  PROVE  \E b \in ArmShare(label, hits) : b \in DOMAIN hits /\ Convergence(hits, b) >= Convergence(hits, c)
<1> PICK visible : visible = Visible(hits)
  OBVIOUS
<1>1. visible \in SUBSET Claims /\ visible \in SUBSET DOMAIN hits /\ c \in visible /\ visible \in SUBSET Nat
  BY ClaimsAreRanked DEF Visible
<1>2. \A d \in visible : Convergence(hits, d) \in Nat /\ Convergence(hits, d) <= Cardinality(Terms)
  BY <1>1, ConvergenceIsCounted
<1>3. CASE label \notin Walking
  BY <1>1, <1>2, <1>3 DEF ArmShare
<1>4. CASE label \in Walking
  <2> PICK counts : counts = {Convergence(hits, d) : d \in visible}
    OBVIOUS
  <2>1. counts \in SUBSET Nat /\ counts # {} /\ \A x \in counts : x <= Cardinality(Terms)
    BY <1>1, <1>2
  <2>2. Cardinality(Terms) \in Nat
    BY ClaimsAreRanked, FS_CardinalityType
  <2>3. PICK most \in counts : \A y \in counts : most >= y
    BY <2>1, <2>2, GreatestOfSome
  <2> PICK top : top = {d \in visible : Convergence(hits, d) = most}
    OBVIOUS
  <2>4. top \in SUBSET Nat /\ top # {}
    BY <1>1, <2>3
  <2>5. PICK b \in top : \A d \in top : b <= d
    BY <2>4, LeastOfSome
  <2>6. b \in visible /\ b \in DOMAIN hits /\ Convergence(hits, b) = most /\ Convergence(hits, b) >= Convergence(hits, c)
    BY <1>1, <2>3, <2>5
  <2>7. {d \in visible : \/ Convergence(hits, d) > Convergence(hits, b)
                         \/ Convergence(hits, d) = Convergence(hits, b) /\ d < b} = {}
    <3> SUFFICES ASSUME NEW d \in visible, \/ Convergence(hits, d) > Convergence(hits, b)
                                           \/ Convergence(hits, d) = Convergence(hits, b) /\ d < b
                 PROVE  FALSE
      OBVIOUS
    <3>1. Convergence(hits, d) \in Nat /\ most \in Nat /\ most >= Convergence(hits, d)
      BY <1>2, <2>1, <2>3
    <3>2. Convergence(hits, d) = most => b <= d
      BY <2>5
    <3>3. b \in Nat /\ d \in Nat
      BY <1>1, <2>6
    <3> QED
      BY <2>6, <3>1, <3>2, <3>3
  <2>8. Cardinality({}) = 0 /\ Caps.arm > 0 /\ Caps.arm \in Nat
    BY FS_EmptySet, LimitsAreCounts
  <2>9. b \in ArmShare(label, hits)
    BY <1>4, <2>6, <2>7, <2>8 DEF ArmShare, Best
  <2> QED
    BY <2>6, <2>9
<1> QED
  BY <1>3, <1>4

\* Hits are claims, each with the terms that reached it.
HitsOK(hits) == DOMAIN hits \in SUBSET Claims /\ \A c \in DOMAIN hits : hits[c] \in SUBSET Terms

\* A claim in an arm's share is a candidate, of that arm's kind or a better one, and
\* converges at least as much as in that arm.
LEMMA MergedKeepsShares ==
  ASSUME NEW r, DOMAIN r \in SUBSET Arms, \A a \in DOMAIN r : HitsOK(r[a]),
         NEW a \in DOMAIN r, NEW c \in ArmShare(a, r[a])
  PROVE  /\ c \in DOMAIN Merged(r) /\ Merged(r)[c] \in [kind : Nat, convergence : Nat]
         /\ Merged(r)[c].kind <= Priority[a]
         /\ Merged(r)[c].convergence >= Convergence(r[a], c)
<1> PICK arms : arms = {b \in DOMAIN r : c \in ArmShare(b, r[b])}
  OBVIOUS
<1> PICK kinds : kinds = {Priority[b] : b \in arms}
  OBVIOUS
<1> PICK counts : counts = {Convergence(r[b], c) : b \in arms}
  OBVIOUS
<1>1. a \in arms /\ arms \in SUBSET DOMAIN r
  OBVIOUS
<1>2. \A b \in Arms : Priority[b] \in Nat
  BY DEF Arms, Priority
<1>3. \A b \in arms : c \in DOMAIN r[b]
  BY DEF ArmShare, Best, Visible
<1>4. \A b \in arms : Convergence(r[b], c) \in Nat /\ Convergence(r[b], c) <= Cardinality(Terms)
  BY <1>1, <1>3, ConvergenceIsCounted DEF HitsOK
<1>5. Cardinality(Terms) \in Nat
  BY ClaimsAreRanked, FS_CardinalityType
<1>6. kinds \in SUBSET Nat /\ kinds # {} /\ Priority[a] \in kinds
  BY <1>1, <1>2
<1>7. Min(kinds) <= Priority[a] /\ Min(kinds) \in Nat
  <2>1. \E x \in kinds : \A y \in kinds : x <= y
    BY <1>6, LeastOfSome
  <2> QED
    BY <1>6, <2>1 DEF Min
<1>8. counts \in SUBSET Nat /\ counts # {} /\ Convergence(r[a], c) \in counts
        /\ \A x \in counts : x <= Cardinality(Terms)
  BY <1>1, <1>4
<1>9. Max(counts) >= Convergence(r[a], c) /\ Max(counts) \in Nat
  <2>1. \E x \in counts : \A y \in counts : x >= y
    BY <1>5, <1>8, GreatestOfSome
  <2> QED
    BY <1>8, <2>1 DEF Max
<1>10. c \in DOMAIN Merged(r)
  BY DEF Merged, Range
<1>11. Merged(r)[c] = [kind |-> Min(kinds), convergence |-> Max(counts)]
  <2>1. arms = {b \in DOMAIN r : c \in [d \in DOMAIN r |-> ArmShare(d, r[d])][b]}
    OBVIOUS
  <2> QED
    BY <1>10, <2>1 DEF Merged
<1> QED
  BY <1>7, <1>9, <1>10, <1>11

\* What an arm that meets no limit reports of a snapshot.
Exact(a, s, terms) ==
  Cut(CASE a = "probe" -> Named(Holds[s], Question.probes)
        [] a = "subQuestion" -> Walk(Holds[s], Question.subTerms)
        [] a = "convergence" -> Walk(Holds[s], terms))

\* A snapshot in which nothing is named, reached or converged on enough.
TrueAbsence(s) ==
  LET held == {c \in Holds[s] : InCut(c)}
      ideal == [a \in Reaching |->
                  CASE a = "probe" -> Named(held, Question.probes)
                    [] a = "subQuestion" -> Walk(held, Question.subTerms)
                    [] a = "convergence" -> Walk(held, Question.terms)]
  IN  /\ DOMAIN ideal["probe"] = {} /\ DOMAIN ideal["subQuestion"] = {}
      /\ \A c \in DOMAIN ideal["convergence"] :
           Convergence(ideal["convergence"], c) < Threshold(ideal)

\* A reply that concludes an absence from an empty search is right about its snapshot.
RepliesTruly == reply.reason = "structural" => TrueAbsence(reply.snapshot)

\* Which is what the property says.
LEMMA AbsenceIsOfASnapshot == RepliesTruly => NoFalseAbsence
BY DEF RepliesTruly, NoFalseAbsence, TrueAbsence

\* Cutting what an arm reached is searching the claims of the perspective.
LEMMA CutIsHeld ==
  ASSUME NEW held, NEW terms, NEW slots
  PROVE  /\ Cut(Named(held, slots)) = Named({c \in held : InCut(c)}, slots)
         /\ Cut(Walk(held, terms)) = Walk({c \in held : InCut(c)}, terms)
<1>1. Cut(Named(held, slots)) = Named({c \in held : InCut(c)}, slots)
  BY DEF Cut, Restrict, Named
<1>2. Cut(Walk(held, terms)) = Walk({c \in held : InCut(c)}, terms)
  BY DEF Cut, Restrict, Walk
<1> QED
  BY <1>1, <1>2

\* A claim within the perspective was recorded by the as-of session.
LEMMA CutIsRecorded == \A c \in InPerspective : Session[c] <= AsOf
<1> TAKE c \in InPerspective
<1>1. inPerspective(Dated(c), Asked)
  BY DEF InPerspective
<1>2. Dated(c).sessionOrd = Session[c] /\ Asked.asOf = AsOf
  BY DEF Dated, Asked
<1> QED
  BY <1>1, <1>2, PerspectiveIsNamed DEF inPerspective, recordedInCut

\* The anchors needed are a number.
LEMMA ThresholdIsACount ==
  ASSUME NEW r, \A a \in DOMAIN r : HitsOK(r[a])
  PROVE  Threshold(r) \in Nat
<1>1. Resolved(r) \in SUBSET Terms
  BY DEF Resolved, HitsOK
<1>2. Cardinality(Resolved(r)) \in Nat
  BY <1>1, ClaimsAreRanked, FS_Subset, FS_CardinalityType
<1> QED
  BY <1>2 DEF Threshold

\* What the arms of one search came to when all of them finished, none met a limit, none
\* of their candidates was dropped, and none grounds an answer.
LEMMA NothingWasKept ==
  ASSUME NEW r, DOMAIN r = Arms, \A a \in DOMAIN r : HitsOK(r[a]),
         DOMAIN Union(r) = DOMAIN Merged(r), Grounded(r) = {},
         NEW a \in Reaching, NEW c \in DOMAIN r[a], \A b \in DOMAIN r[a] : InCut(b)
  PROVE  /\ a = "convergence"
         /\ Convergence(r[a], c) < Threshold(r)
<1>1. a \in DOMAIN r /\ Reaching \in SUBSET Arms
  BY DEF Arms, Priority, Reaching
<1>2. c \in Visible(r[a])
  BY CutIsRecorded DEF Visible, InCut
<1>3. PICK b \in ArmShare(a, r[a]) : b \in DOMAIN r[a] /\ Convergence(r[a], b) >= Convergence(r[a], c)
  BY <1>1, <1>2, ArmKeepsTheBest DEF HitsOK
<1>4. /\ b \in DOMAIN Merged(r) /\ Merged(r)[b].kind <= Priority[a]
      /\ Merged(r)[b].convergence >= Convergence(r[a], b)
  BY <1>1, <1>3, MergedKeepsShares
<1>5. Union(r)[b] = Merged(r)[b] /\ b \in DOMAIN Union(r)
  BY <1>4 DEF Union, Restrict
<1>6. b \in DOMAIN Scoped(Union(r)) /\ Scoped(Union(r))[b] = Merged(r)[b]
  BY <1>3, <1>5 DEF Scoped, Restrict
<1>7. ~ (Merged(r)[b].kind <= Priority.subQuestion) /\ ~ (Merged(r)[b].convergence >= Threshold(r))
  BY <1>6 DEF Grounded
<1>8. Threshold(r) \in Nat /\ Convergence(r[a], c) \in Nat /\ Convergence(r[a], b) \in Nat
  BY <1>1, <1>3, ThresholdIsACount, ConvergenceIsCounted DEF HitsOK
<1>9. Merged(r)[b] \in [kind : Nat, convergence : Nat]
  BY <1>1, <1>3, MergedKeepsShares
<1>10. Convergence(r[a], c) < Threshold(r)
  BY <1>3, <1>4, <1>7, <1>8, <1>9
<1>11. a = "convergence"
  <2>1. a # "convergence" => Priority[a] <= Priority.subQuestion
    BY DEF Reaching, Priority
  <2>2. a # "convergence" => Merged(r)[b].kind <= Priority.subQuestion
    <3>1. Priority[a] \in Nat /\ Priority.subQuestion \in Nat
      BY DEF Reaching, Priority
    <3> QED
      BY <1>4, <1>9, <2>1, <3>1
  <2> QED
    BY <1>7, <2>2
<1> QED
  BY <1>10, <1>11

\* An empty search that met no limit finds what an unlimited one would: nothing.
LEMMA EmptySearch ==
  ASSUME NEW r, NEW s, DOMAIN r = Arms, \A a \in DOMAIN r : HitsOK(r[a]),
         DOMAIN Union(r) = DOMAIN Merged(r), Grounded(r) = {},
         \A a \in Reaching : r[a] = Exact(a, s, Question.terms)
  PROVE  TrueAbsence(s)
<1> DEFINE held == {c \in Holds[s] : InCut(c)}
           ideal == [a \in Reaching |->
                  CASE a = "probe" -> Named(held, Question.probes)
                    [] a = "subQuestion" -> Walk(held, Question.subTerms)
                    [] a = "convergence" -> Walk(held, Question.terms)]
<1>1. \A a \in Reaching : ideal[a] = r[a]
  <2>1. ideal["probe"] = r["probe"]
    BY CutIsHeld DEF Exact, Reaching
  <2>2. ideal["subQuestion"] = r["subQuestion"]
    BY CutIsHeld DEF Exact, Reaching
  <2>3. ideal["convergence"] = r["convergence"]
    BY CutIsHeld DEF Exact, Reaching
  <2> QED
    BY <2>1, <2>2, <2>3 DEF Reaching
<1>a. DOMAIN ideal = Reaching
  OBVIOUS
<1> HIDE DEF held, ideal
<1>2. \A a \in Reaching : \A c \in DOMAIN r[a] : InCut(c)
  <2>1. \A hits : \A c \in DOMAIN Cut(hits) : InCut(c)
    BY DEF Cut, Restrict
  <2> QED
    BY <2>1 DEF Exact
<1>3. \A a \in Reaching : \A c \in DOMAIN r[a] : a = "convergence" /\ Convergence(r[a], c) < Threshold(r)
  BY <1>2, NothingWasKept
<1>4. DOMAIN ideal["probe"] = {} /\ DOMAIN ideal["subQuestion"] = {}
  BY <1>1, <1>3 DEF Reaching
<1>5. Threshold(ideal) = Threshold(r)
  <2>1. DOMAIN ideal \cap Reaching = Reaching /\ DOMAIN r \cap Reaching = Reaching
    BY <1>a DEF Reaching, Arms, Priority
  <2>2. Resolved(ideal) = Resolved(r)
    <3>1. \A a \in Reaching : UNION {ideal[a][c] : c \in DOMAIN ideal[a]} = UNION {r[a][c] : c \in DOMAIN r[a]}
      BY <1>1
    <3>2. {UNION {ideal[a][c] : c \in DOMAIN ideal[a]} : a \in Reaching}
            = {UNION {r[a][c] : c \in DOMAIN r[a]} : a \in Reaching}
      BY <3>1
    <3> QED
      BY <2>1, <3>2 DEF Resolved
  <2> QED
    BY <2>2 DEF Threshold
<1>6. \A c \in DOMAIN ideal["convergence"] : Convergence(ideal["convergence"], c) < Threshold(ideal)
  BY <1>1, <1>3, <1>5 DEF Reaching
<1> QED
  BY <1>4, <1>6 DEF TrueAbsence, held, ideal

-----------------------------------------------------------------------------
\* A pass of a first search looks for the question's own terms; no reading is an absence
\* from an empty search; an arm that met no limit reports all there is.
AbsInv ==
  /\ RepliesTruly
  /\ pass = 1 => extra = {}
  /\ at \in {"read", "judge"} => shown.reason # "structural"
  /\ first.reason # "structural"
  /\ DOMAIN reach \in SUBSET Arms /\ \A a \in DOMAIN reach : HitsOK(reach[a])
  /\ at = "gather" =>
       \A a \in (Reaching \cap DOMAIN reach) \ degraded : reach[a] = Exact(a, bound, SearchTerms)

\* It holds at first.
LEMMA AbsInit == AskInit => AbsInv
<1>1. DOMAIN NoArms = {} /\ Nothing.reason = "none"
  BY DEF NoArms, Nothing
<1> QED
  BY <1>1 DEF AskInit, AbsInv, RepliesTruly

\* What every arm reports are claims and the terms that reach them.
LEMMA ArmsReachHits ==
  ASSUME NEW held \in SUBSET Claims, NEW terms, NEW slots
  PROVE  /\ HitsOK(Walk(held, terms)) /\ HitsOK(Named(held, slots)) /\ HitsOK(NoHits)
         /\ \A hits : HitsOK(hits) => HitsOK(Cut(hits))
         /\ \A mates : mates \subseteq DOMAIN Named(held, slots) => HitsOK(Restrict(Named(held, slots), mates))
<1>1. HitsOK(Walk(held, terms))
  BY ClaimsAreRanked DEF HitsOK, Walk
<1>2. HitsOK(Named(held, slots))
  BY DEF HitsOK, Named
<1>3. \A mates : mates \subseteq DOMAIN Named(held, slots) => HitsOK(Restrict(Named(held, slots), mates))
  BY <1>2 DEF HitsOK, Restrict
<1>4. \A hits : HitsOK(hits) => HitsOK(Cut(hits))
  BY DEF HitsOK, Cut, Restrict
<1>5. HitsOK(NoHits)
  BY DEF HitsOK, NoHits
<1> QED
  BY <1>1, <1>2, <1>3, <1>4, <1>5

\* An arm reports, in full when it met no limit.
LEMMA ReportIsExact ==
  ASSUME AbsInv, at = "gather", NEW a \in Arms, NEW hits, NEW limited \in BOOLEAN, Report(a, hits, limited),
         a \notin DOMAIN reach, HitsOK(hits),
         a \in Reaching /\ ~limited => hits = Exact(a, bound, SearchTerms)
  PROVE  AbsInv'
<1>1. UNCHANGED <<at, pass, bound, extra, shown, first, reply, SearchTerms>> /\ DOMAIN reach' = DOMAIN reach \cup {a}
  BY DEF Report, SearchTerms
<1>2. reach'[a] = hits /\ \A b \in DOMAIN reach : reach'[b] = reach[b]
  BY DEF Report
<1>3. \A b \in DOMAIN reach' : HitsOK(reach'[b])
  BY <1>1, <1>2 DEF AbsInv
<1>4. degraded \subseteq degraded' /\ (limited => a \in degraded')
  BY DEF Report
<1>5. \A b \in (Reaching \cap DOMAIN reach') \ degraded' : reach'[b] = Exact(b, bound', SearchTerms')
  <2> TAKE b \in (Reaching \cap DOMAIN reach') \ degraded'
  <2>1. CASE b = a
    BY <1>1, <1>2, <1>4, <2>1
  <2>2. CASE b # a
    BY <1>1, <1>2, <1>4, <2>2 DEF AbsInv
  <2> QED
    BY <2>1, <2>2
<1>6. RepliesTruly'
  BY <1>1 DEF AbsInv, RepliesTruly
<1> QED
  BY <1>1, <1>3, <1>5, <1>6 DEF AbsInv

\* Every arm keeps it.
LEMMA AbsArms ==
  ASSUME AskInv, AbsInv, (\E a \in Arms : LimitArm(a) \/ RunArm(a)) \/ RunSlotMates
  PROVE  AbsInv'
<1>1. CASE RunSlotMates
  <2>1. at = "gather" /\ Held \in SUBSET Claims /\ "slotMate" \notin DOMAIN reach
    BY <1>1, BoundHoldsClaims DEF RunSlotMates, MayRun, AskInv, Passing
  <2> DEFINE reached == DOMAIN Union(reach)
             mates == Mates(Expansion, reached)
  <2>2. Report("slotMate", Restrict(Expansion, mates), DOMAIN Expansion \ reached # mates)
    BY <1>1 DEF RunSlotMates
  <2>3. mates \subseteq DOMAIN Expansion
    BY DEF Mates, Best
  <2> HIDE DEF mates, reached
  <2>4. HitsOK(Restrict(Expansion, mates))
    BY <2>1, <2>3, ArmsReachHits DEF Expansion
  <2>5. "slotMate" \in Arms /\ "slotMate" \notin Reaching
    BY DEF Arms, Priority, Reaching
  <2> QED
    BY <2>1, <2>2, <2>4, <2>5, ReportIsExact
<1>2. ASSUME NEW a \in Arms, LimitArm(a) PROVE AbsInv'
  <2>1. HitsOK(NoHits)
    BY DEF HitsOK, NoHits
  <2> QED
    BY <1>2, <2>1, ReportIsExact DEF LimitArm, IsReported, MayRun
<1>3. ASSUME NEW a \in Arms, RunArm(a) PROVE AbsInv'
  <2>1. at = "gather" /\ Held \in SUBSET Claims /\ a \notin DOMAIN reach
    BY <1>3, BoundHoldsClaims DEF RunArm, MayRun, AskInv, Passing
  <2> DEFINE hits == CASE a = "probe" -> Named(Held, Question.probes)
                       [] a = "subQuestion" -> Walk(Held, Question.subTerms)
                       [] a = "convergence" -> Walk(Held, SearchTerms)
                       [] a = "discovery" -> Walk(Held, DiscoverySeeds(reach, SearchTerms))
  <2>2. a \in {"probe", "subQuestion", "convergence", "discovery"}
    BY <1>3 DEF RunArm, Arms, Priority
  <2>3. HitsOK(hits)
    BY <2>1, <2>2, ArmsReachHits
  <2>4. HitsOK(Cut(hits))
    BY <2>1, <2>3, ArmsReachHits
  <2>5. Report(a, Cut(hits), FALSE)
    BY <1>3 DEF RunArm
  <2>6. a \in Reaching => Cut(hits) = Exact(a, bound, SearchTerms)
    BY DEF Reaching, Exact, Held
  <2> HIDE DEF hits
  <2> QED
    BY <2>1, <2>4, <2>5, <2>6, ReportIsExact
<1> QED
  BY <1>1, <1>2, <1>3

\* A first search that grounds nothing and met no limit is an absence.
LEMMA AbsPlan == ASSUME AskInv, AbsInv, Plan PROVE AbsInv'
<1>1. at = "gather" /\ DOMAIN reach = Arms /\ at' # "gather" /\ at' \notin {"read", "judge"}
  BY DEF Plan, Finished, Finish, AbsInv
<1>2. UNCHANGED <<pass, extra, bound, reach, degraded, shown, first>>
  BY DEF Plan
<1>3. RepliesTruly'
  <2>1. CASE Grounded(reach) # {}
    BY <2>1 DEF Plan, AbsInv, RepliesTruly
  <2>2. CASE Grounded(reach) = {} /\ pass # 1
    BY <2>2 DEF Plan, AfterEmptyHunt, Finish, AbsInv, RepliesTruly
  <2>3. CASE Grounded(reach) = {} /\ pass = 1
    <3>1. reply' = Unread
      BY <2>3 DEF Plan, AfterEmptyHunt, Finish
    <3>2. Unread.snapshot = bound /\ (Unread.reason = "structural" => Complete)
      BY DEF Unread, Nothing, EmptyVerdict
    <3>3. ASSUME Complete PROVE TrueAbsence(bound)
      <4>1. SearchTerms = Question.terms
        BY <2>3 DEF SearchTerms, AbsInv
      <4>2. \A a \in Reaching : reach[a] = Exact(a, bound, Question.terms)
        BY <1>1, <3>3, <4>1 DEF AbsInv, Complete, Reaching, Arms, Priority
      <4> QED
        BY <1>1, <2>3, <3>3, <4>2, EmptySearch DEF AbsInv, Complete
    <3> QED
      BY <3>1, <3>2, <3>3 DEF RepliesTruly
  <2> QED
    BY <2>1, <2>2, <2>3
<1> QED
  BY <1>1, <1>2, <1>3 DEF AbsInv

\* And every step.
LEMMA AbsNext == ASSUME AskInv, AbsInv, [AskNext]_askVars PROVE AbsInv'
<1>1. CASE UNCHANGED askVars
  BY <1>1 DEF AbsInv, RepliesTruly, askVars, request, searched, SearchTerms
<1>2. CASE Publish \/ Call
  BY <1>2 DEF Publish, Call, AbsInv, RepliesTruly, request, searched, SearchTerms
<1>3. CASE Bind
  <2>1. DOMAIN reach' = {}
    BY <1>3 DEF Bind, NoArms
  <2> QED
    BY <1>3, <2>1 DEF Bind, Throw, Finish, Nothing, AbsInv, RepliesTruly
<1>4. CASE FailGather \/ FailRead
  BY <1>4 DEF FailGather, FailRead, Throw, Finish, Nothing, AbsInv, RepliesTruly, searched
<1>5. CASE Select
  <2>1. PICK kept : Keep(kept)
    BY <1>5 DEF Select
  <2> QED
    BY <2>1 DEF Keep, Nothing, AbsInv, RepliesTruly, searched
<1>6. ASSUME NEW silent \in BOOLEAN, Read(silent) PROVE AbsInv'
  <2>1. shown'.reason = shown.reason /\ at = "read" /\ at' \in {"judge", "done"}
    BY <1>6 DEF Read, Finish, AskInv, Results
  <2>2. reply' = reply \/ reply' = shown'
    BY <1>6 DEF Read, Finish
  <2>3. UNCHANGED <<pass, extra, reach, first>>
    BY <1>6 DEF Read, searched
  <2> QED
    BY <2>1, <2>2, <2>3 DEF AbsInv, RepliesTruly
<1>7. CASE Contradict
  <2>1. reply'.reason = "CONTRADICTED_PREMISE" /\ at' = "done"
    BY <1>7 DEF Contradict, Finish, AskInv, Results
  <2> QED
    BY <1>7, <2>1 DEF Contradict, AbsInv, RepliesTruly, searched
<1>8. ASSUME NEW tier \in Tiers, Conclude(tier) PROVE AbsInv'
  <2>1. reply'.reason # "structural" /\ at' = "done"
    BY <1>8 DEF Conclude, Finish, AskInv, AbsInv, Results
  <2> QED
    BY <1>8, <2>1 DEF Conclude, AbsInv, RepliesTruly, searched
<1>9. ASSUME NEW terms \in Missing, Refine(terms) PROVE AbsInv'
  BY <1>9 DEF Refine, AbsInv, RepliesTruly, searched
<1> QED
  BY <1>1, <1>2, <1>3, <1>4, <1>5, <1>6, <1>7, <1>8, <1>9, AbsArms, AbsPlan DEF AskNext, RequestStep

-----------------------------------------------------------------------------
(***************************************************************************)
(* The theorems.                                                           *)
(***************************************************************************)

\* However passes, snapshots and failures interleave, the invariant holds.
THEOREM InvariantHolds == AskSpec => []AskInv
  BY InitInv, NextKeeps, PTL DEF AskSpec

\* The evidence, the excerpts and the receipt of a reply are of one snapshot, for any
\* snapshots, limits and question (Answer.ts returns the second pass's retrieval whole).
THEOREM OneSnapshotHolds == AskSpec => []AnswersFromOneSnapshot
<1>1. AskInv => AnswersFromOneSnapshot
  BY DEF AskInv, OneSnapshot, AnswersFromOneSnapshot, InPerspective
<1> QED
  BY <1>1, InvariantHolds, PTL

\* Nothing recorded after the as-of session, or accepted after the day of the question, is
\* a candidate or is shown, for any snapshots, limits, question and perspective (Plan.ts
\* scopes the union, slot mates included).
THEOREM AsOfHolds == AskSpec => []NothingFromLater
<1>1. AskInv => NothingFromLater
  <2> SUFFICES ASSUME AskInv, NEW c \in InPerspective
               PROVE  /\ Session[c] <= AsOf
                      /\ Perspective # "valid-time" /\ QuestionDate > 0
                           => Accepted[c] <= QuestionDate
    BY DEF AskInv, OneSnapshot, NothingFromLater, Evidence
  <2>1. inPerspective(Dated(c), Asked)
    BY DEF InPerspective
  <2>2. /\ Dated(c).sessionOrd = Session[c] /\ Dated(c).accepted = Accepted[c]
        /\ Asked.asOf = AsOf /\ Asked.questionDate = QuestionDate
        /\ Asked.perspective = Perspective
    BY DEF Dated, Asked
  <2> QED
    BY <2>1, <2>2, PerspectiveIsNamed DEF inPerspective, recordedInCut
<1> QED
  BY <1>1, InvariantHolds, PTL

\* What is selected, read and judged was grounded by the search of this pass.
HuntInv ==
  /\ HuntLosesNothing
  /\ at \in {"select", "read", "judge"} => Grounded(reach) # {}

\* While no tier refuses an answer, as in this release (Sufficiency.ts), a second search that
\* grounds nothing leaves the first answer as the reply, and one that grounds something is
\* answered from its own excerpts or contradicted by them, for any snapshots, limits and
\* question; a failed read is an error in either.
THEOREM HuntHolds == ASSUME AbstainTiers = {} PROVE AskSpec => []HuntLosesNothing
<1>1. AskInit => HuntInv
  BY DEF AskInit, HuntInv, HuntLosesNothing
<1>2. ASSUME AskInv, HuntInv, [AskNext]_askVars PROVE HuntInv'
  <2>1. CASE UNCHANGED askVars \/ Publish
    <3>1. UNCHANGED <<at, first, reply, reach>>
      BY <2>1 DEF Publish, askVars, request, searched
    <3> QED
      BY <1>2, <3>1 DEF HuntInv, HuntLosesNothing
  <2>2. CASE Bind \/ FailGather \/ FailRead
    BY <2>2 DEF Bind, FailGather, FailRead, Throw, Finish, Nothing, HuntInv, HuntLosesNothing
  <2>3. CASE Call \/ RunSlotMates \/ (\E a \in Arms : LimitArm(a) \/ RunArm(a))
    <3>1. at' \in {"bind", "gather"}
      BY <2>3 DEF Call, RunSlotMates, LimitArm, RunArm, Report, MayRun
    <3> QED
      BY <3>1 DEF HuntInv, HuntLosesNothing
  <2>4. CASE Select
    <3>1. at = "select" /\ at' = "read" /\ reach' = reach
      BY <2>4 DEF Select, Keep, searched
    <3> QED
      BY <1>2, <3>1 DEF HuntInv, HuntLosesNothing
  <2>5. CASE Plan
    <3>1. reach' = reach /\ first' = first
      BY <2>5 DEF Plan
    <3>2. CASE Grounded(reach) = {}
      <4>1. at' = "done" /\ (pass # 1 => reply' = first)
        BY <2>5, <3>2 DEF Plan, Finish, AfterEmptyHunt
      <4>2. pass = 1 => first = Nothing
        BY <1>2 DEF AskInv
      <4> QED
        BY <3>1, <3>2, <4>1, <4>2 DEF HuntInv, HuntLosesNothing
    <3>3. CASE Grounded(reach) # {}
      BY <2>5, <3>1, <3>3 DEF Plan, HuntInv, HuntLosesNothing
    <3> QED
      BY <3>2, <3>3
  <2>6. ASSUME NEW silent \in BOOLEAN, Read(silent) PROVE HuntInv'
    <3>1. shown'.verdict = "ANSWER"
      BY <1>2, <2>6 DEF Read, AskInv, Results
    <3>2. Grounded(reach) # {} /\ reach' = reach
      BY <1>2, <2>6 DEF Read, HuntInv, searched
    <3>3. at' = "judge" \/ (at' = "done" /\ reply' = shown')
      <4>1. CASE pass = 2 \/ (judges /\ Packed # {})
        BY <2>6, <4>1 DEF Read
      <4>2. CASE ~(pass = 2 \/ (judges /\ Packed # {}))
        BY <2>6, <4>2 DEF Read, Finish
      <4> QED
        BY <4>1, <4>2
    <3> QED
      BY <3>1, <3>2, <3>3 DEF HuntInv, HuntLosesNothing
  <2>7. ASSUME NEW tier \in Tiers, Conclude(tier) PROVE HuntInv'
    <3>1. Grounded(reach) # {} /\ reach' = reach
      BY <1>2, <2>7 DEF Conclude, HuntInv, searched
    <3>2. at' = "done" /\ reply' = shown /\ shown.verdict = "ANSWER"
      BY <1>2, <2>7 DEF Conclude, Finish, AskInv
    <3> QED
      BY <3>1, <3>2 DEF HuntInv, HuntLosesNothing
  <2>8. CASE Contradict
    <3>1. reply'.reason = "CONTRADICTED_PREMISE" /\ reply'.spans = shown.spans /\ at' = "done"
      BY <1>2, <2>8 DEF Contradict, Finish, AskInv, Results
    <3>2. Grounded(reach) # {} /\ reach' = reach
      BY <1>2, <2>8 DEF Contradict, HuntInv, searched
    <3>3. shown.spans # {}
      BY <2>8 DEF Contradict
    <3> QED
      BY <3>1, <3>2, <3>3 DEF HuntInv, HuntLosesNothing
  <2>9. ASSUME NEW terms \in Missing, Refine(terms) PROVE HuntInv'
    BY <2>9 DEF Refine, HuntInv, HuntLosesNothing
  <2> QED
    BY <1>2, <2>1, <2>2, <2>3, <2>4, <2>5, <2>6, <2>7, <2>8, <2>9 DEF AskNext, RequestStep
<1>3. HuntInv => HuntLosesNothing
  BY DEF HuntInv
<1> QED
  BY <1>1, <1>2, <1>3, InvariantHolds, PTL DEF AskSpec

\* An absence concluded from an empty search is one, for any snapshots, limits (the arms'
\* keep at least a claim) and question: a search without limits would find no claim a
\* probe names, a sub-question reaches, or enough terms converge on (Plan.ts, Arms.ts).
THEOREM AbsenceHolds == AskSpec => []NoFalseAbsence
<1>1. AbsInv => NoFalseAbsence
  BY AbsenceIsOfASnapshot DEF AbsInv
<1> QED
  BY <1>1, AbsInit, AbsNext, InvariantHolds, PTL DEF AskSpec

-----------------------------------------------------------------------------
(***************************************************************************)
(* The calendar: the arithmetic of TimeScope counts the days that Calendar  *)
(* writes down one by one.                                                 *)
(***************************************************************************)

\* The date of a day of a month.
Date(y, m, d) == 10000 * y + 100 * m + d
DayOfMonth(date) == date % 100

LEMMA PartsOfADate ==
  ASSUME NEW y \in Nat, NEW m \in 1..12, NEW d \in 1..31
  PROVE  /\ Date(y, m, d) \in Nat
         /\ Year(Date(y, m, d)) = y /\ Month(Date(y, m, d)) = m /\ DayOfMonth(Date(y, m, d)) = d
         /\ toDate(Date(y, m, d)) = DateUTC(y, m, d)
<1>1. Date(y, m, d) \in Nat /\ Date(y, m, d) \div 100 = 100 * y + m /\ Date(y, m, d) % 100 = d
  BY DEF Date
<1>2. Year(Date(y, m, d)) = y
  BY DEF Date, Year
<1>3. (100 * y + m) % 100 = m
  OBVIOUS
<1>4. Month(Date(y, m, d)) = m
  BY <1>1, <1>3 DEF Month
<1> QED
  BY <1>1, <1>2, <1>4 DEF toDate, DayOfMonth

LEMMA LengthsAre ==
  ASSUME NEW y \in Nat, NEW m \in 1..12
  PROVE  LengthOf(y, m) \in 28..31
BY DEF LengthOf

\* A day of the calendar has a year, a month and a day in it.
LEMMA DayIs ==
  ASSUME NEW e \in Days
  PROVE  /\ e \in Nat
         /\ \E y \in Years : \E m \in 1..12 : \E d \in 1..LengthOf(y, m) :
              /\ y \in Nat /\ d \in 1..31 /\ e = Date(y, m, d)
              /\ Year(e) = y /\ Month(e) = m /\ DayOfMonth(e) = d
<1>1. PICK y \in Years, m \in 1..12 : e \in {10000 * y + 100 * m + d : d \in 1..LengthOf(y, m)}
  BY DEF Days
<1>2. PICK d \in 1..LengthOf(y, m) : e = Date(y, m, d)
  BY <1>1 DEF Date
<1>3. y \in Nat
  BY YearsAreConsecutive
<1>4. LengthOf(y, m) \in 28..31
  BY <1>3, LengthsAre
<1>5. m \in 1..12 /\ d \in 1..31
  BY <1>4
<1>6. /\ Year(Date(y, m, d)) = y /\ Month(Date(y, m, d)) = m /\ DayOfMonth(Date(y, m, d)) = d
      /\ Date(y, m, d) \in Nat
  BY <1>3, <1>5, PartsOfADate
<1> QED
  BY <1>2, <1>3, <1>5, <1>6

LEMMA IsADay ==
  ASSUME NEW y \in Years, NEW m \in 1..12, NEW d \in 1..LengthOf(y, m)
  PROVE  Date(y, m, d) \in Days
<1>1. PICK S : S = {10000 * y + 100 * m + k : k \in 1..LengthOf(y, m)}
  OBVIOUS
<1>2. \E k \in 1..LengthOf(y, m) : Date(y, m, d) = 10000 * y + 100 * m + k
  BY DEF Date
<1>3. Date(y, m, d) \in S
  BY <1>1, <1>2
<1>4. S \in {{10000 * z + 100 * n + k : k \in 1..LengthOf(z, n)} : z \in Years, n \in 1..12}
  BY <1>1
<1> QED
  BY <1>3, <1>4 DEF Days

\* The years before year y, counted from March, as 400, 100, 4 years and single ones.
LEMMA CenturiesOf ==
  ASSUME NEW y \in Nat
  PROVE  \E q \in Nat, c \in 0..3, b \in 0..24, a \in 0..3 :
           /\ y = 400 * q + 100 * c + 4 * b + a
           /\ y \div 4 = 100 * q + 25 * c + b /\ y \div 100 = 4 * q + c /\ y \div 400 = q
<1> DEFINE q == y \div 400
           c == (y % 400) \div 100
           b == (y % 100) \div 4
           a == y % 4
<1>1. q \in Nat /\ c \in 0..3 /\ b \in 0..24 /\ a \in 0..3 /\ y = 400 * q + 100 * c + 4 * b + a
  OBVIOUS
<1> HIDE DEF q, c, b, a
<1> QED
  BY <1>1

\* The steps of toInt: the year within 400 of a number of days, the day of that year, and
\* the date they make.
YearIn(e) == (e - e \div 1460 + e \div 36524 - e \div 146096) \div 365
DayIn(e, y) == e - (365 * y + y \div 4 - y \div 100)
DaysIn(c, b, a, d) == 36524 * c + 1461 * b + 365 * a + d
DateIn(q, y, d) ==
  LET m == (5 * d + 2) \div 153
      year == 400 * q + y + m \div 10
  IN  10000 * year + 100 * (((m + 2) % 12) + 1) + d - (153 * m + 2) \div 5 + 1

LEMMA ToIntIs ==
  ASSUME NEW n \in Int, NEW e, e = n % 146097
  PROVE  toInt(n) = DateIn(n \div 146097, YearIn(e), DayIn(e, YearIn(e)))
BY SMT DEF toInt, YearIn, DayIn, DateIn

LEMMA YearOfDays ==
  ASSUME NEW c \in Int, NEW b \in Int, NEW a \in Int, NEW d \in Int,
         c \in 0..3, b \in 0..24, a \in 0..3, d \in 0..365, d = 365 => a = 3 /\ (b # 24 \/ c = 3)
  PROVE  YearIn(DaysIn(c, b, a, d)) = 100 * c + 4 * b + a
<1>1. PICK e \in Int : e = 36524 * c + 1461 * b + 365 * a + d
  OBVIOUS
<1>2. (e - e \div 1460 + e \div 36524 - e \div 146096) \div 365 = 100 * c + 4 * b + a
  BY <1>1, SMTT(60)
<1>3. DaysIn(c, b, a, d) = e
  BY <1>1 DEF DaysIn
<1> QED
  BY <1>2, <1>3, SMT DEF YearIn

\* The year and month of a month counted from March.
LEMMA FromMarch ==
  ASSUME NEW y \in Nat, y > 0, NEW m \in 1..12
  PROVE  \E p \in Nat, n \in 0..11 :
           /\ p = y + (m - 3) \div 12 /\ n = (m - 3) % 12
           /\ p = (IF m < 3 THEN y - 1 ELSE y) /\ n = (IF m < 3 THEN m + 9 ELSE m - 3)
           /\ p + n \div 10 = y /\ ((n + 2) % 12) + 1 = m
<1> DEFINE p == y + (m - 3) \div 12
           n == (m - 3) % 12
<1>1. p = (IF m < 3 THEN y - 1 ELSE y) /\ n = (IF m < 3 THEN m + 9 ELSE m - 3)
  OBVIOUS
<1> HIDE DEF p, n
<1>2. p \in Nat /\ n \in 0..11
  BY <1>1
<1>3. p + n \div 10 = y /\ ((n + 2) % 12) + 1 = m
  BY <1>1
<1> QED
  BY <1>1, <1>2, <1>3 DEF p, n

\* The algorithm of Date finds the year, month and day a number of days was made of.
LEMMA ThereAndBack ==
  ASSUME NEW y \in Nat, y > 0, y % 100 # 0, NEW m \in 1..12, NEW d \in 1..LengthOf(y, m)
  PROVE  DateUTC(y, m, d) \in Int /\ toInt(DateUTC(y, m, d)) = Date(y, m, d)
<1>0. d \in Nat /\ d >= 1
  BY LengthsAre
<1>1. PICK p \in Nat, n \in 0..11 :
        /\ p = y + (m - 3) \div 12 /\ n = (m - 3) % 12
        /\ p = (IF m < 3 THEN y - 1 ELSE y) /\ n = (IF m < 3 THEN m + 9 ELSE m - 3)
        /\ p + n \div 10 = y /\ ((n + 2) % 12) + 1 = m
  BY FromMarch
<1>2. PICK q \in Nat, c \in 0..3, b \in 0..24, a \in 0..3 :
        /\ p = 400 * q + 100 * c + 4 * b + a
        /\ p \div 4 = 100 * q + 25 * c + b /\ p \div 100 = 4 * q + c /\ p \div 400 = q
  BY CenturiesOf
<1>3. PICK f \in Int : f = (153 * n + 2) \div 5
  OBVIOUS
<1>4. PICK k \in Int : k = f + (d - 1)
  BY <1>0
<1>5. /\ k < (153 * (n + 1) + 2) \div 5 /\ k \in 0..365
      /\ k = 365 => m = 2 /\ y % 4 = 0
  <2>1. n = (IF m < 3 THEN m + 9 ELSE m - 3)
    BY <1>1
  <2>2. /\ (153 * n + 2) \div 5 + (d - 1) < (153 * (n + 1) + 2) \div 5
        /\ (153 * n + 2) \div 5 + (d - 1) \in 0..365
        /\ (153 * n + 2) \div 5 + (d - 1) = 365 => m = 2 /\ y % 4 = 0
    <3>1. \/ (m = 1 /\ n = 10) \/ (m = 2 /\ n = 11) \/ (m = 3 /\ n = 0) \/ (m = 4 /\ n = 1)
          \/ (m = 5 /\ n = 2) \/ (m = 6 /\ n = 3) \/ (m = 7 /\ n = 4) \/ (m = 8 /\ n = 5)
          \/ (m = 9 /\ n = 6) \/ (m = 10 /\ n = 7) \/ (m = 11 /\ n = 8) \/ (m = 12 /\ n = 9)
      BY <2>1
    <3> QED
      BY <3>1 DEF LengthOf
  <2>3. k = (153 * n + 2) \div 5 + (d - 1)
    BY <1>3, <1>4
  <2> QED
    BY <2>2, <2>3, Zenon
<1>6. k = 365 => a = 3 /\ (b # 24 \/ c = 3)
  <2>1. HAVE k = 365
  <2>2. m = 2 /\ y % 4 = 0
    BY <2>1, <1>5, Zenon
  <2>3. p = y - 1
    BY <1>1, <2>2
  <2>4. y = 400 * q + 100 * c + 4 * b + a + 1
    BY <1>2, <2>3
  <2>5. a = 3
    BY <2>2, <2>4, SMT
  <2>6. b # 24
    <3>1. b = 24 => y = 100 * (4 * q + c + 1)
      BY <2>4, <2>5, SMT
    <3>2. PICK z \in Nat : z = 4 * q + c + 1
      OBVIOUS
    <3>3. y # 100 * z
      OBVIOUS
    <3> QED
      BY <3>1, <3>2, <3>3, SMT
  <2> QED
    BY <2>5, <2>6, Zenon
<1>7. PICK e \in Int : e = DaysIn(c, b, a, k) /\ e = 36524 * c + 1461 * b + 365 * a + k
  BY DEF DaysIn
<1>8. PICK w \in Nat : w = 100 * c + 4 * b + a
  OBVIOUS
<1>9. YearIn(e) = w /\ 0 <= e /\ e <= 146096
  <2>1. k \in 0..365
    BY <1>5
  <2>2. YearIn(DaysIn(c, b, a, k)) = 100 * c + 4 * b + a
    BY <1>6, <2>1, YearOfDays, SMT
  <2>3. 0 <= e /\ e <= 146096
    BY <1>7, <2>1, SMT
  <2> QED
    BY <1>7, <1>8, <2>2, <2>3, SMT
<1>10. DateUTC(y, m, d) = 146097 * q + e
  <2>1. DateUTC(y, m, d) = 365 * p + p \div 4 - p \div 100 + p \div 400 + f + d - 1
    BY <1>1, <1>3 DEF DateUTC
  <2> QED
    BY <1>0, <1>2, <1>4, <1>7, <2>1
<1>11. PICK u \in Int : u = DateUTC(y, m, d) /\ u \div 146097 = q /\ u % 146097 = e
  BY <1>9, <1>10
<1>12. w \div 4 = 25 * c + b /\ w \div 100 = c
  BY <1>8
<1>13. DayIn(e, w) = k
  BY <1>7, <1>8, <1>12 DEF DayIn
<1>14. (5 * k + 2) \div 153 = n
  BY <1>0, <1>3, <1>4, <1>5
<1>15. toInt(u) = DateIn(q, w, k)
  BY <1>9, <1>11, <1>13, ToIntIs
<1>16. 400 * q + w + n \div 10 = y
  BY <1>1, <1>2, <1>8
<1>17. DateIn(q, w, k) = 10000 * (400 * q + w + n \div 10) + 100 * (((n + 2) % 12) + 1) + k - f + 1
  BY <1>3, <1>14 DEF DateIn
<1>18. toInt(u) = 10000 * y + 100 * m + k - f + 1
  BY <1>1, <1>15, <1>16, <1>17
<1> QED
  BY <1>0, <1>4, <1>11, <1>18 DEF Date

\* A day is found by its number.
LEMMA DayBack ==
  ASSUME NEW e \in Days
  PROVE  toDate(e) \in Int /\ toInt(toDate(e)) = e
<1>1. PICK y \in Years, m \in 1..12 : \E d \in 1..LengthOf(y, m) :
              /\ y \in Nat /\ d \in 1..31 /\ e = Date(y, m, d)
  BY DayIs
<1>2. PICK d \in 1..LengthOf(y, m) : y \in Nat /\ d \in 1..31 /\ e = Date(y, m, d)
  BY <1>1
<1>3. y > 0 /\ y % 100 # 0
  BY YearsAreConsecutive
<1>4. toDate(e) = DateUTC(y, m, d)
  BY <1>2, PartsOfADate
<1>5. DateUTC(y, m, d) \in Int /\ toInt(DateUTC(y, m, d)) = Date(y, m, d)
  BY <1>2, <1>3, ThereAndBack
<1> QED
  BY <1>2, <1>4, <1>5

\* The days of a year before a month.
Before(y, m) ==
  LET leap == IF y % 4 = 0 THEN 1 ELSE 0
  IN  CASE m = 1 -> 0 [] m = 2 -> 31 [] m = 3 -> 59 + leap [] m = 4 -> 90 + leap [] m = 5 -> 120 + leap
        [] m = 6 -> 151 + leap [] m = 7 -> 181 + leap [] m = 8 -> 212 + leap [] m = 9 -> 243 + leap
        [] m = 10 -> 273 + leap [] m = 11 -> 304 + leap [] m = 12 -> 334 + leap

NewYear(y) == DateUTC(y, 1, 1)

LEMMA AMonth ==
  ASSUME NEW m \in Int, m \in 1..12
  PROVE  \/ m = 1 \/ m = 2 \/ m = 3 \/ m = 4 \/ m = 5 \/ m = 6
         \/ m = 7 \/ m = 8 \/ m = 9 \/ m = 10 \/ m = 11 \/ m = 12
OBVIOUS

LEMMA MonthsFollow ==
  ASSUME NEW y \in Nat, NEW m \in Int, m \in 1..12, NEW n \in Int, n \in 1..12, m < n
  PROVE  /\ Before(y, m) \in Nat /\ Before(y, n) \in Nat
         /\ Before(y, m) + LengthOf(y, m) <= Before(y, n)
<1>1. /\ Before(y, 1) = 0 /\ Before(y, 2) = 31
      /\ y % 4 = 0 => /\ Before(y, 3) = 60 /\ Before(y, 4) = 91 /\ Before(y, 5) = 121 /\ Before(y, 6) = 152
                      /\ Before(y, 7) = 182 /\ Before(y, 8) = 213 /\ Before(y, 9) = 244
                      /\ Before(y, 10) = 274 /\ Before(y, 11) = 305 /\ Before(y, 12) = 335
      /\ y % 4 # 0 => /\ Before(y, 3) = 59 /\ Before(y, 4) = 90 /\ Before(y, 5) = 120 /\ Before(y, 6) = 151
                      /\ Before(y, 7) = 181 /\ Before(y, 8) = 212 /\ Before(y, 9) = 243
                      /\ Before(y, 10) = 273 /\ Before(y, 11) = 304 /\ Before(y, 12) = 334
  BY SMT DEF Before
<1>2. Before(y, m) \in Nat /\ Before(y, n) \in Nat
  BY <1>1, AMonth, SMT
<1>3. Before(y, m) + LengthOf(y, m) <= Before(y, n)
  BY <1>1, <1>2, AMonth, SMT DEF LengthOf
<1> QED
  BY <1>2, <1>3

\* The days of the years up to the one that ends in February of year p + 1.
UpTo(p) == 365 * p + p \div 4 - p \div 100 + p \div 400

LEMMA CountedFromMarch ==
  ASSUME NEW y \in Nat, y > 0, NEW m \in Int, m \in 1..12, NEW d \in Int
  PROVE  \/ m < 3 /\ DateUTC(y, m, d) = UpTo(y - 1) + (153 * (m + 9) + 2) \div 5 + d - 1
         \/ m >= 3 /\ DateUTC(y, m, d) = UpTo(y) + (153 * (m - 3) + 2) \div 5 + d - 1
<1>1. CASE m < 3
  <2>1. (m - 3) \div 12 = -1 /\ (m - 3) % 12 = m + 9
    BY <1>1, SMT
  <2> QED
    BY <1>1, <2>1, SMT DEF DateUTC, UpTo
<1>2. CASE m >= 3
  <2>1. (m - 3) \div 12 = 0 /\ (m - 3) % 12 = m - 3
    BY <1>2, SMT
  <2> QED
    BY <1>2, <2>1, SMT DEF DateUTC, UpTo
<1> QED
  BY <1>1, <1>2, SMT

\* A day's number is that of its year's first, and the days of the year before it.
LEMMA NumberOfDay ==
  ASSUME NEW y \in Nat, y > 0, y % 100 # 0, NEW m \in Int, m \in 1..12, NEW d \in Int
  PROVE  /\ DateUTC(y, m, d) = NewYear(y) + Before(y, m) + d - 1
         /\ NewYear(y) \in Int /\ NewYear(y) = UpTo(y - 1) + 306
<1>1. NewYear(y) = UpTo(y - 1) + (153 * (1 + 9) + 2) \div 5 + 1 - 1
  BY CountedFromMarch, SMT DEF NewYear
<1>2. UpTo(y - 1) \in Int /\ UpTo(y) \in Int
  BY SMT DEF UpTo
<1>3. NewYear(y) = UpTo(y - 1) + 306
  BY <1>1, <1>2, SMT
<1>4. UpTo(y) = UpTo(y - 1) + 365 + (IF y % 4 = 0 THEN 1 ELSE 0)
  BY SMT DEF UpTo
<1>5. \/ m < 3 /\ DateUTC(y, m, d) = UpTo(y - 1) + (153 * (m + 9) + 2) \div 5 + d - 1
      \/ m >= 3 /\ DateUTC(y, m, d) = UpTo(y) + (153 * (m - 3) + 2) \div 5 + d - 1
  BY CountedFromMarch
<1> QED
  BY <1>2, <1>3, <1>4, <1>5, AMonth, SMT DEF Before

LEMMA YearsGrow ==
  ASSUME NEW y \in Nat, y > 0, y % 100 # 0, NEW z \in Nat, z % 100 # 0, y < z
  PROVE  NewYear(y) + Before(y, 12) + 31 <= NewYear(z)
<1>1. \A p, r \in Nat : p <= r => UpTo(p) <= UpTo(r)
  <2> SUFFICES ASSUME NEW p \in Nat, NEW r \in Nat, p <= r PROVE UpTo(p) <= UpTo(r)
    OBVIOUS
  <2>1. p \div 4 - p \div 100 <= r \div 4 - r \div 100
    BY SMT
  <2>2. p \div 400 <= r \div 400
    BY SMT
  <2> QED
    BY <2>1, <2>2, SMT DEF UpTo
<1>2. z - 1 \in Nat /\ y - 1 \in Nat /\ y <= z - 1 /\ z > 0
  BY SMT
<1>3. NewYear(y) = UpTo(y - 1) + 306 /\ NewYear(z) = UpTo(z - 1) + 306
  <2>1. 1 \in 1..12
    BY SMT
  <2> QED
    BY <1>2, <2>1, NumberOfDay
<1>4. UpTo(y) = UpTo(y - 1) + 365 + (IF y % 4 = 0 THEN 1 ELSE 0)
  BY SMT DEF UpTo
<1>5. UpTo(y - 1) \in Int /\ UpTo(y) \in Int /\ UpTo(z - 1) \in Int
  BY <1>2, SMT DEF UpTo
<1>6. UpTo(y) <= UpTo(z - 1)
  BY <1>1, <1>2
<1>7. Before(y, 12) \in Int /\ Before(y, 12) + 31 = 365 + (IF y % 4 = 0 THEN 1 ELSE 0)
  BY SMT DEF Before
<1> QED
  BY <1>3, <1>4, <1>5, <1>6, <1>7, SMT

\* What is known of a day, by its parts.
DayParts(e, y, m, d) ==
  /\ y \in Years /\ y \in Nat /\ y > 0 /\ y % 100 # 0
  /\ m \in Int /\ m \in 1..12 /\ d \in Int /\ 1 <= d /\ d <= LengthOf(y, m) /\ LengthOf(y, m) \in Int
  /\ e = Date(y, m, d) /\ e \in Nat
  /\ Year(e) = y /\ Month(e) = m /\ DayOfMonth(e) = d
  /\ toDate(e) = NewYear(y) + Before(y, m) + d - 1
  /\ NewYear(y) \in Int /\ Before(y, m) \in Nat /\ Before(y, m) + LengthOf(y, m) <= Before(y, 12) + 31

LEMMA PartsOfDay ==
  ASSUME NEW e \in Days
  PROVE  \E y \in Years, m \in 1..12 : \E d \in 1..31 : DayParts(e, y, m, d)
<1>1. PICK y \in Years, m \in 1..12 : \E d \in 1..LengthOf(y, m) :
              /\ y \in Nat /\ d \in 1..31 /\ e = Date(y, m, d)
              /\ Year(e) = y /\ Month(e) = m /\ DayOfMonth(e) = d
  BY DayIs
<1>2. PICK d \in 1..LengthOf(y, m) :
              /\ y \in Nat /\ d \in 1..31 /\ e = Date(y, m, d)
              /\ Year(e) = y /\ Month(e) = m /\ DayOfMonth(e) = d
  BY <1>1
<1>3. y > 0 /\ y % 100 # 0
  BY YearsAreConsecutive
<1>4. m \in Int /\ m \in 1..12 /\ d \in Int /\ LengthOf(y, m) \in Int /\ 1 <= d /\ d <= LengthOf(y, m)
  BY <1>2, LengthsAre
<1>5. toDate(e) = DateUTC(y, m, d)
  BY <1>2, PartsOfADate
<1>6. DateUTC(y, m, d) = NewYear(y) + Before(y, m) + d - 1 /\ NewYear(y) \in Int
  BY <1>2, <1>3, <1>4, NumberOfDay
<1>7. Before(y, m) \in Nat /\ Before(y, m) + LengthOf(y, m) <= Before(y, 12) + 31
  <2>1. CASE m < 12
    <3>1. 12 \in Int /\ 12 \in 1..12 /\ Before(y, 12) \in Int
      BY SMT DEF Before
    <3>2. Before(y, m) \in Nat /\ Before(y, m) + LengthOf(y, m) <= Before(y, 12)
      BY <1>2, <1>4, <2>1, <3>1, MonthsFollow
    <3> QED
      BY <1>4, <3>1, <3>2, SMT
  <2>2. CASE m = 12
    <3>1. LengthOf(y, 12) = 31 /\ Before(y, 12) \in Nat
      BY <1>2, SMT DEF LengthOf, Before
    <3> QED
      BY <2>2, <3>1, SMT
  <2> QED
    BY <2>1, <2>2, SMT
<1>8. e \in Nat
  BY DayIs
<1>9. DayParts(e, y, m, d)
  BY <1>2, <1>3, <1>4, <1>5, <1>6, <1>7, <1>8 DEF DayParts
<1> QED
  BY <1>2, <1>9

\* Dates are in the order of their numbers.
LEMMA NumbersRise ==
  ASSUME NEW e \in Days, NEW f \in Days, e < f
  PROVE  toDate(e) < toDate(f)
<1>1. PICK y \in Years, m \in 1..12, d \in 1..31 : DayParts(e, y, m, d)
  BY PartsOfDay
<1>2. PICK z \in Years, n \in 1..12, k \in 1..31 : DayParts(f, z, n, k)
  BY PartsOfDay
<1>3. y < z \/ (y = z /\ (m < n \/ (m = n /\ d < k)))
  <2>1. /\ y \in Nat /\ m \in 1..12 /\ d \in 1..31 /\ e = Date(y, m, d)
        /\ z \in Nat /\ n \in 1..12 /\ k \in 1..31 /\ f = Date(z, n, k)
    BY <1>1, <1>2 DEF DayParts
  <2> QED
    BY <2>1, SMT DEF Date
<1>4. CASE y < z
  <2>1. NewYear(y) + Before(y, 12) + 31 <= NewYear(z)
    BY <1>1, <1>2, <1>4, YearsGrow DEF DayParts
  <2>2. Before(y, 12) \in Nat
    BY SMT DEF Before
  <2> QED
    BY <1>1, <1>2, <2>1, <2>2, SMT DEF DayParts
<1>5. CASE y = z /\ m < n
  <2>1. Before(y, m) + LengthOf(y, m) <= Before(y, n)
    BY <1>1, <1>2, <1>5, MonthsFollow DEF DayParts
  <2> QED
    BY <1>1, <1>2, <1>5, <2>1, SMT DEF DayParts
<1>6. CASE y = z /\ m = n /\ d < k
  BY <1>1, <1>2, <1>6, SMT DEF DayParts
<1> QED
  BY <1>3, <1>4, <1>5, <1>6

LEMMA DaysRise ==
  ASSUME NEW e \in Days, NEW f \in Days
  PROVE  /\ e < f <=> toDate(e) < toDate(f)
         /\ e = f <=> toDate(e) = toDate(f)
         /\ e \in Nat /\ f \in Nat /\ toDate(e) \in Int /\ toDate(f) \in Int
<1>1. e \in Nat /\ f \in Nat /\ toDate(e) \in Int /\ toDate(f) \in Int
  BY DayIs, DayBack
<1>2. e < f => toDate(e) < toDate(f)
  BY NumbersRise
<1>3. f < e => toDate(f) < toDate(e)
  BY NumbersRise
<1> QED
  BY <1>1, <1>2, <1>3

\* After each day but the last there is one with the next number.
LEMMA NextDay ==
  ASSUME NEW e \in Days, NEW f \in Days, e < f
  PROVE  \E g \in Days : toDate(g) = toDate(e) + 1
<1>1. PICK y \in Years, m \in 1..12, d \in 1..31 : DayParts(e, y, m, d)
  BY PartsOfDay
<1>2. \A z, n, k :
        z \in Years /\ n \in Int /\ n \in 1..12 /\ k \in Int /\ 1 <= k /\ k <= LengthOf(z, n) =>
        /\ Date(z, n, k) \in Days
        /\ toDate(Date(z, n, k)) = NewYear(z) + Before(z, n) + k - 1
        /\ NewYear(z) \in Int
  <2> SUFFICES ASSUME NEW z \in Years, NEW n \in Int, n \in 1..12,
                      NEW k \in Int, 1 <= k, k <= LengthOf(z, n)
               PROVE  /\ Date(z, n, k) \in Days
                      /\ toDate(Date(z, n, k)) = NewYear(z) + Before(z, n) + k - 1
                      /\ NewYear(z) \in Int
    OBVIOUS
  <2>1. z \in Nat /\ z > 0 /\ z % 100 # 0
    BY YearsAreConsecutive
  <2>2. LengthOf(z, n) \in 28..31
    BY <2>1, LengthsAre
  <2>3. k \in 1..LengthOf(z, n) /\ k \in 1..31
    BY <2>2
  <2>4. Date(z, n, k) \in Days
    BY <2>3, IsADay
  <2>5. toDate(Date(z, n, k)) = DateUTC(z, n, k)
    BY <2>1, <2>3, PartsOfADate
  <2> QED
    BY <2>1, <2>4, <2>5, NumberOfDay
<1>3. CASE d < LengthOf(y, m)
  <2>1. d + 1 \in Int /\ 1 <= d + 1 /\ d + 1 <= LengthOf(y, m)
    BY <1>1, <1>3, SMT DEF DayParts
  <2>2. Date(y, m, d + 1) \in Days /\ toDate(Date(y, m, d + 1)) = NewYear(y) + Before(y, m) + (d + 1) - 1
    BY <1>1, <1>2, <2>1 DEF DayParts
  <2>3. toDate(Date(y, m, d + 1)) = toDate(e) + 1
    BY <1>1, <2>2, SMT DEF DayParts
  <2> QED
    BY <2>2, <2>3
<1>4. CASE d = LengthOf(y, m) /\ m < 12
  <2>1. m + 1 \in Int /\ m + 1 \in 1..12 /\ 1 \in Int /\ 1 <= LengthOf(y, m + 1)
    <3>1. m + 1 \in 1..12 /\ y \in Nat
      BY <1>1, <1>4, SMT DEF DayParts
    <3>2. LengthOf(y, m + 1) \in 28..31
      BY <3>1, LengthsAre
    <3> QED
      BY <3>1, <3>2
  <2>2. Date(y, m + 1, 1) \in Days /\ toDate(Date(y, m + 1, 1)) = NewYear(y) + Before(y, m + 1) + 1 - 1
    BY <1>1, <1>2, <2>1 DEF DayParts
  <2>3. Before(y, m) + LengthOf(y, m) = Before(y, m + 1) /\ Before(y, m + 1) \in Int
    <3>1. m \in Int /\ m \in 1..12 /\ y \in Nat
      BY <1>1 DEF DayParts
    <3> HIDE <1>1
    <3> QED
      BY <1>4, <3>1, AMonth, SMT DEF LengthOf, Before
  <2>4. toDate(Date(y, m + 1, 1)) = toDate(e) + 1
    BY <1>1, <1>4, <2>2, <2>3, SMT DEF DayParts
  <2> QED
    BY <2>2, <2>4
<1>5. CASE d = LengthOf(y, m) /\ m = 12
  <2>1. y + 1 \in Years
    <3>1. PICK z \in Years, n \in 1..12, k \in 1..31 : DayParts(f, z, n, k)
      BY PartsOfDay
    <3>2. /\ y \in Nat /\ z \in Nat /\ e = Date(y, 12, 31) /\ f = Date(z, n, k) /\ y \in Years
      <4>1. y \in Nat /\ z \in Nat /\ e = Date(y, m, d) /\ f = Date(z, n, k) /\ y \in Years
        BY <1>1, <3>1 DEF DayParts
      <4>2. LengthOf(y, 12) = 31
        BY <4>1, SMT DEF LengthOf
      <4> QED
        BY <1>5, <4>1, <4>2
    <3>3. y < z
      BY <3>2, SMT DEF Date
    <3>4. y + 1 \in y..z
      BY <3>2, <3>3
    <3> QED
      BY <3>2, <3>4, YearsAreConsecutive
  <2>2. 1 \in Int /\ 1 \in 1..12 /\ y + 1 \in Nat /\ LengthOf(y + 1, 1) = 31
    BY <1>1, SMT DEF DayParts, LengthOf
  <2>3. /\ Date(y + 1, 1, 1) \in Days
        /\ toDate(Date(y + 1, 1, 1)) = NewYear(y + 1) + Before(y + 1, 1) + 1 - 1 /\ NewYear(y + 1) \in Int
    BY <1>2, <2>1, <2>2
  <2>4. Before(y + 1, 1) = 0
    BY DEF Before
  <2>5. NewYear(y + 1) = NewYear(y) + Before(y, 12) + 31 /\ Before(y, 12) \in Int
    <3>1. /\ y \in Nat /\ y > 0 /\ y % 100 # 0 /\ NewYear(y) \in Int
          /\ y + 1 \in Nat /\ y + 1 > 0 /\ (y + 1) % 100 # 0
      BY <1>1, <2>1, YearsAreConsecutive DEF DayParts
    <3>2. NewYear(y) = UpTo(y - 1) + 306 /\ NewYear(y + 1) = UpTo((y + 1) - 1) + 306
      BY <2>2, <3>1, NumberOfDay
    <3>3. (y + 1) - 1 = y
      BY <3>1
    <3>4. /\ UpTo(y) = UpTo(y - 1) + 365 + (IF y % 4 = 0 THEN 1 ELSE 0)
          /\ UpTo(y - 1) \in Int /\ UpTo(y) \in Int
      BY <3>1, SMT DEF UpTo
    <3>5. Before(y, 12) \in Int /\ Before(y, 12) = 334 + (IF y % 4 = 0 THEN 1 ELSE 0)
      BY <3>1, SMT DEF Before
    <3> QED
      BY <3>2, <3>3, <3>4, <3>5, SMT
  <2>6. d = 31
    BY <1>1, <1>5, SMT DEF DayParts, LengthOf
  <2>7. toDate(Date(y + 1, 1, 1)) = toDate(e) + 1
    BY <1>1, <1>5, <2>3, <2>4, <2>5, <2>6, SMT DEF DayParts
  <2> QED
    BY <2>3, <2>7
<1>6. d < LengthOf(y, m) \/ (d = LengthOf(y, m) /\ (m < 12 \/ m = 12))
  BY <1>1, SMT DEF DayParts
<1> QED
  BY <1>3, <1>4, <1>5, <1>6

\* Between two days every number is a day's.
LEMMA NoGap ==
  ASSUME NEW e \in Days, NEW f \in Days, NEW n \in Int, toDate(e) <= n, n <= toDate(f)
  PROVE  \E g \in Days : toDate(g) = n
<1> DEFINE S == {k \in Nat : toDate(e) + k <= n /\ ~(\E g \in Days : toDate(g) = toDate(e) + k)}
<1>1. toDate(e) \in Int /\ toDate(f) \in Int
  BY DayBack
<1>2. ASSUME S # {} PROVE FALSE
  <2>1. PICK k \in S : \A j \in S : k <= j
    <3>1. S \in SUBSET Nat
      OBVIOUS
    <3> HIDE DEF S
    <3> QED
      BY <1>2, <3>1, LeastOfSome
  <2>2. k # 0
    BY <1>1, <2>1
  <2>3. k - 1 \in Nat /\ k - 1 \notin S /\ toDate(e) + (k - 1) < n
    BY <1>1, <2>1, <2>2
  <2>4. PICK g \in Days : toDate(g) = toDate(e) + (k - 1)
    BY <1>1, <2>1, <2>3
  <2>5. g < f
    BY <1>1, <2>3, <2>4, DaysRise
  <2>6. PICK h \in Days : toDate(h) = toDate(g) + 1
    BY <2>5, NextDay
  <2> QED
    BY <1>1, <2>1, <2>4, <2>6
<1>3. n - toDate(e) \in Nat /\ toDate(e) + (n - toDate(e)) = n
  BY <1>1
<1>4. n - toDate(e) \notin S
  BY <1>2
<1> QED
  BY <1>1, <1>3, <1>4

\* A function that numbers a set from a to b, and so counts it.
Numbers(f, S, a, b) ==
  /\ a \in Int /\ b \in Int /\ a <= b + 1
  /\ \A x \in S : f[x] \in a..b
  /\ \A x, y \in S : f[x] = f[y] => x = y
  /\ \A n \in a..b : \E x \in S : f[x] = n

LEMMA CountedByNumber ==
  ASSUME NEW S, NEW a, NEW b, NEW f, Numbers(f, S, a, b)
  PROVE  IsFiniteSet(S) /\ Cardinality(S) = b - a + 1
<1>0. /\ a \in Int /\ b \in Int /\ a <= b + 1
      /\ \A x \in S : f[x] \in a..b
      /\ \A x, y \in S : f[x] = f[y] => x = y
      /\ \A n \in a..b : \E x \in S : f[x] = n
  BY DEF Numbers
<1> DEFINE g == [n \in a..b |-> CHOOSE x \in S : f[x] = n]
<1>1. \A n \in a..b : g[n] \in S /\ f[g[n]] = n
  BY <1>0
<1>2. g \in [a..b -> S]
  BY <1>1
<1>3. \A x \in S : g[f[x]] = x
  BY <1>0, <1>1
<1>4. \A n, m \in a..b : g[n] = g[m] => n = m
  BY <1>1
<1> HIDE DEF g
<1>5. g \in Bijection(a..b, S)
  BY <1>0, <1>1, <1>2, <1>3, <1>4 DEF Bijection, Injection, Surjection, IsInjective
<1>6. ExistsBijection(a..b, S)
  BY <1>5 DEF ExistsBijection
<1>7. IsFiniteSet(a..b) /\ Cardinality(a..b) = b - a + 1
  BY <1>0, FS_Interval
<1> QED
  BY <1>6, <1>7, FS_Bijection

\* A day's rank is the difference of its number from the first day's.
LEMMA RankIs ==
  ASSUME NEW e \in Days, NEW o \in Days, \A f \in Days : o <= f
  PROVE  Rank[e] = toDate(e) - toDate(o) /\ Rank[e] \in Nat
<1> DEFINE S == {x \in Days : x < e}
           f == [x \in Days |-> toDate(x)]
<1>1. toDate(e) \in Int /\ toDate(o) \in Int /\ toDate(o) <= toDate(e)
  BY DaysRise
<1>2. \A x \in S : f[x] \in toDate(o)..(toDate(e) - 1)
  <2> TAKE x \in S
  <2>1. x \in Days /\ x < e /\ o <= x
    OBVIOUS
  <2>2. toDate(x) \in Int /\ toDate(x) < toDate(e) /\ toDate(o) <= toDate(x)
    BY <2>1, DaysRise
  <2> QED
    BY <1>1, <2>1, <2>2
<1>3. \A x, y \in S : f[x] = f[y] => x = y
  BY DaysRise
<1>4. \A n \in toDate(o)..(toDate(e) - 1) : \E x \in S : f[x] = n
  <2> TAKE n \in toDate(o)..(toDate(e) - 1)
  <2>1. n \in Int /\ toDate(o) <= n /\ n < toDate(e) /\ n <= toDate(e)
    BY <1>1
  <2>2. PICK x \in Days : toDate(x) = n
    BY <2>1, NoGap
  <2>3. x < e
    BY <2>1, <2>2, DaysRise
  <2> QED
    BY <2>2, <2>3
<1>5. Rank[e] = Cardinality(S)
  BY DEF Rank
<1> HIDE DEF S, f
<1>6. PICK a \in Int, b \in Int : a = toDate(o) /\ b = toDate(e) - 1 /\ a <= b + 1
  BY <1>1
<1>7. Cardinality(S) = b - a + 1
  <2>1. Numbers(f, S, a, b)
    BY <1>2, <1>3, <1>4, <1>6 DEF Numbers
  <2> QED
    BY <2>1, CountedByNumber
<1> QED
  BY <1>1, <1>5, <1>6, <1>7

LEMMA FirstDayIs ==
  ASSUME Days # {}
  PROVE  \E o \in Days : \A f \in Days : o <= f
<1>1. Days \in SUBSET Nat
  BY DayIs
<1> QED
  BY <1>1, LeastOfSome

\* Ranks and numbers differ alike, and so do dates.
LEMMA RanksRise ==
  ASSUME NEW e \in Days, NEW f \in Days
  PROVE  /\ Rank[e] \in Nat /\ Rank[f] \in Nat /\ e \in Nat /\ f \in Nat
         /\ toDate(e) \in Int /\ toDate(f) \in Int
         /\ Rank[f] - Rank[e] = toDate(f) - toDate(e)
         /\ e < f <=> Rank[e] < Rank[f]
         /\ e = f <=> Rank[e] = Rank[f]
<1>1. PICK o \in Days : \A x \in Days : o <= x
  BY FirstDayIs
<1>2. /\ Rank[e] = toDate(e) - toDate(o) /\ Rank[e] \in Nat
      /\ Rank[f] = toDate(f) - toDate(o) /\ Rank[f] \in Nat
  BY <1>1, RankIs
<1>3. /\ e < f <=> toDate(e) < toDate(f)
      /\ e = f <=> toDate(e) = toDate(f)
      /\ e \in Nat /\ f \in Nat /\ toDate(e) \in Int /\ toDate(f) \in Int
  BY DaysRise
<1>4. toDate(o) \in Int
  BY DaysRise
<1> QED
  BY <1>2, <1>3, <1>4

\* Every rank up to some day's is a day's.
LEMMA RankTaken ==
  ASSUME NEW f \in Days, NEW r \in Int, 0 <= r, r <= Rank[f]
  PROVE  \E g \in Days : Rank[g] = r
<1>1. PICK o \in Days : \A x \in Days : o <= x
  BY FirstDayIs
<1>2. Rank[f] = toDate(f) - toDate(o) /\ toDate(f) \in Int /\ toDate(o) \in Int
  BY <1>1, RankIs, DaysRise
<1>3. toDate(o) + r \in Int /\ toDate(o) <= toDate(o) + r /\ toDate(o) + r <= toDate(f)
  BY <1>2
<1>4. PICK g \in Days : toDate(g) = toDate(o) + r
  BY <1>3, NoGap
<1>5. Rank[g] = toDate(g) - toDate(o)
  BY <1>1, RankIs
<1> QED
  BY <1>2, <1>4, <1>5

\* Days are added by their ranks, as far as the calendar goes.
LEMMA DaysAdded ==
  ASSUME NEW e \in Days, NEW f \in Days, NEW n \in Int, 0 <= Rank[e] + n, Rank[e] + n <= Rank[f]
  PROVE  addDays(e, n) \in Days /\ Rank[addDays(e, n)] = Rank[e] + n
<1>1. Rank[e] \in Nat /\ toDate(e) \in Int
  BY RanksRise
<1>2. PICK g \in Days : Rank[g] = Rank[e] + n
  BY <1>1, RankTaken
<1>3. Rank[g] - Rank[e] = toDate(g) - toDate(e) /\ toDate(g) \in Int
  BY RanksRise
<1>4. toDate(g) = toDate(e) + n
  BY <1>1, <1>2, <1>3
<1>5. addDays(e, n) = g
  BY <1>4, DayBack DEF addDays
<1> QED
  BY <1>2, <1>5

\* The weekdays are the calendar's.
LEMMA WeekdayIs ==
  ASSUME NEW e \in Days
  PROVE  getUTCDay(e) = WeekdayOf[e] /\ WeekdayOf[e] \in 0..6
<1>1. PICK o \in Days : \A x \in Days : o <= x
  BY FirstDayIs
<1>2. PICK y \in Years, m \in 1..12, d \in 1..31 : DayParts(o, y, m, d)
  BY PartsOfDay
<1>3. y \in Nat /\ y > 0 /\ o = Date(y, m, d)
  BY <1>2 DEF DayParts
<1>4. \A z \in Years : Date(z, 1, 1) \in Days /\ z \in Nat
  <2> TAKE z \in Years
  <2>1. z \in Nat
    BY YearsAreConsecutive
  <2>2. 1 \in 1..12 /\ 1 \in 1..LengthOf(z, 1)
    BY <2>1, SMT DEF LengthOf
  <2> QED
    BY <2>1, <2>2, IsADay
<1>5. o = Date(y, 1, 1)
  <2>1. o <= Date(y, 1, 1)
    BY <1>1, <1>4
  <2> QED
    BY <1>3, <2>1, SMT DEF Date
<1>6. y - 1 \notin Years
  <2>1. ASSUME y - 1 \in Years PROVE FALSE
    <3>1. o <= Date(y - 1, 1, 1) /\ y - 1 \in Nat
      BY <1>1, <1>4, <2>1
    <3> QED
      BY <1>3, <1>5, <3>1, SMT DEF Date
  <2> QED
    BY <2>1
<1>7. getUTCDay(o) = FirstWeekday
  <2>1. o = 10000 * y + 101
    BY <1>3, <1>5, SMT DEF Date
  <2> QED
    BY <1>6, <2>1, CalendarBegins
<1>8. Rank[e] = toDate(e) - toDate(o) /\ Rank[e] \in Nat /\ toDate(e) \in Int /\ toDate(o) \in Int
  BY <1>1, RankIs, DaysRise
<1>9. WeekdayOf[e] = (Rank[e] + FirstWeekday) % 7
  BY DEF WeekdayOf
<1>10. getUTCDay(e) = (toDate(e) + 3) % 7 /\ FirstWeekday = (toDate(o) + 3) % 7
  BY <1>7 DEF getUTCDay
<1> HIDE <1>1, <1>2, <1>3, <1>4, <1>5, <1>6, <1>7
<1> QED
  BY <1>8, <1>9, <1>10, SMT

-----------------------------------------------------------------------------
(***************************************************************************)
(* Periods: what days a phrase, or a date that is partly known, stands for. *)
(***************************************************************************)
\* An interval that starts and ends within the calendar and has a day.
Proper(I) == I.start \in Days /\ I.end \in Days /\ I.start < I.end

\* A stretch of n days.
LEMMA StretchIs ==
  ASSUME NEW s \in Days, NEW f \in Days, NEW n \in Nat, n > 0, Rank[s] + n <= Rank[f], NEW p
  PROVE  /\ Proper(Interval(s, addDays(s, n), p))
         /\ DaysOf(Interval(s, addDays(s, n), p)) = {d \in Days : d >= s /\ Rank[d] < Rank[s] + n}
<1>1. Rank[s] \in Nat /\ s \in Nat
  BY RanksRise
<1>2. PICK e : e = addDays(s, n)
  OBVIOUS
<1>3. e \in Days /\ Rank[e] = Rank[s] + n
  BY <1>1, <1>2, DaysAdded
<1>4. s < e
  BY <1>1, <1>3, RanksRise
<1>5. \A d \in Days : d \in Nat /\ (d < e <=> Rank[d] < Rank[s] + n)
  BY <1>3, RanksRise
<1>6. {d \in Days : s <= d /\ d < e} = {d \in Days : d >= s /\ Rank[d] < Rank[s] + n}
  BY <1>1, <1>5
<1> QED
  BY <1>2, <1>3, <1>4, <1>6 DEF Proper, DaysOf, Interval

\* A year ahead, and behind.
LEMMA YearAhead ==
  ASSUME NEW e \in Days, Year(e) \in Inner
  PROVE  \E f \in Days : Rank[e] + 365 <= Rank[f]
<1>1. PICK y \in Years, m \in 1..12, d \in 1..31 : DayParts(e, y, m, d)
  BY PartsOfDay
<1>2. y \in Nat /\ Year(e) = y
  BY <1>1 DEF DayParts
<1>3. y + 1 \in Years
  BY <1>2 DEF Inner
<1>4. 12 \in 1..12 /\ 31 \in 1..LengthOf(y + 1, 12)
  BY <1>2, SMT DEF LengthOf
<1>5. PICK f \in Days : f = Date(y + 1, 12, 31)
  BY <1>3, <1>4, IsADay
<1>6. PICK z \in Years, n \in 1..12, k \in 1..31 : DayParts(f, z, n, k)
  BY PartsOfDay
<1>7. z = y + 1 /\ n = 12 /\ k = 31
  <2>1. z \in Nat /\ n \in 1..12 /\ k \in 1..31 /\ Date(z, n, k) = Date(y + 1, 12, 31)
    BY <1>5, <1>6 DEF DayParts
  <2> QED
    BY <1>2, <2>1, SMT DEF Date
<1>8. NewYear(y) + Before(y, 12) + 31 <= NewYear(y + 1)
  <2>1. y > 0 /\ y % 100 # 0 /\ y + 1 \in Nat /\ (y + 1) % 100 # 0 /\ y < y + 1
    BY <1>1, <1>2, <1>3, YearsAreConsecutive
  <2> QED
    BY <1>2, <2>1, YearsGrow
<1>9. Before(y, 12) \in Nat /\ Before(y + 1, 12) \in Nat /\ Before(y + 1, 12) >= 334
  BY <1>2, SMT DEF Before
<1>10. toDate(f) = NewYear(y + 1) + Before(y + 1, 12) + 31 - 1 /\ NewYear(y + 1) \in Int
  BY <1>6, <1>7 DEF DayParts
<1>11. toDate(e) + 365 <= toDate(f)
  BY <1>1, <1>8, <1>9, <1>10, SMT DEF DayParts
<1>12. /\ Rank[f] - Rank[e] = toDate(f) - toDate(e)
       /\ Rank[e] \in Nat /\ Rank[f] \in Nat /\ toDate(e) \in Int /\ toDate(f) \in Int
  BY RanksRise
<1> QED
  BY <1>11, <1>12

LEMMA YearBehind ==
  ASSUME NEW e \in Days, Year(e) - 1 \in Years
  PROVE  Rank[e] >= 365
<1>1. PICK y \in Years, m \in 1..12, d \in 1..31 : DayParts(e, y, m, d)
  BY PartsOfDay
<1>2. y \in Nat /\ Year(e) = y
  BY <1>1 DEF DayParts
<1>3. y - 1 \in Years /\ y - 1 \in Nat /\ y - 1 > 0 /\ (y - 1) % 100 # 0 /\ y % 100 # 0
  BY <1>2, YearsAreConsecutive
<1>4. 1 \in 1..12 /\ 1 \in 1..LengthOf(y - 1, 1)
  BY <1>3, SMT DEF LengthOf
<1>5. PICK f \in Days : f = Date(y - 1, 1, 1)
  BY <1>3, <1>4, IsADay
<1>6. PICK z \in Years, n \in 1..12, k \in 1..31 : DayParts(f, z, n, k)
  BY PartsOfDay
<1>7. z = y - 1 /\ n = 1 /\ k = 1
  <2>1. z \in Nat /\ n \in 1..12 /\ k \in 1..31 /\ Date(z, n, k) = Date(y - 1, 1, 1)
    BY <1>5, <1>6 DEF DayParts
  <2> QED
    BY <1>2, <1>3, <2>1, SMT DEF Date
<1>8. NewYear(y - 1) + Before(y - 1, 12) + 31 <= NewYear(y)
  BY <1>2, <1>3, YearsGrow
<1>9. Before(y - 1, 12) \in Nat /\ Before(y - 1, 12) >= 334 /\ Before(y - 1, 1) = 0
  BY <1>3, SMT DEF Before
<1>10. toDate(f) = NewYear(y - 1) + Before(y - 1, 1) + 1 - 1 /\ NewYear(y - 1) \in Int
  BY <1>6, <1>7 DEF DayParts
<1>11. toDate(f) + 365 <= toDate(e)
  BY <1>1, <1>8, <1>9, <1>10, SMT DEF DayParts
<1>12. /\ Rank[e] - Rank[f] = toDate(e) - toDate(f)
       /\ Rank[e] \in Nat /\ Rank[f] \in Nat /\ toDate(e) \in Int /\ toDate(f) \in Int
  BY RanksRise
<1> QED
  BY <1>11, <1>12

\* The months, numbered.
MonthNo(e) == 12 * Year(e) + Month(e) - 1
First(t) == Date(t \div 12, (t % 12) + 1, 1)

LEMMA DayParts31 ==
  ASSUME NEW e, NEW y, NEW m, NEW d, DayParts(e, y, m, d)
  PROVE  y \in Nat /\ m \in 1..12 /\ d \in 1..31 /\ e = Date(y, m, d) /\ y \in Years /\ e \in Nat
<1>1. /\ y \in Nat /\ y \in Years /\ m \in 1..12 /\ d \in Int /\ 1 <= d /\ d <= LengthOf(y, m)
      /\ e = Date(y, m, d) /\ e \in Nat
  BY DEF DayParts
<1>2. LengthOf(y, m) \in 28..31
  BY <1>1, LengthsAre
<1> QED
  BY <1>1, <1>2

\* What a date's parts say of its month and of its place in it.
LEMMA MonthOfDay ==
  ASSUME NEW e \in Days
  PROVE  \E y \in Years, m \in 1..12, d \in 1..31 :
           /\ y \in Nat /\ e = Date(y, m, d) /\ Year(e) = y /\ Month(e) = m
           /\ MonthNo(e) = 12 * y + m - 1 /\ MonthNo(e) \in Nat
           /\ e \div 100 = 100 * y + m /\ DayOfMonth(e) = d
           /\ MonthDay(e) = 100 * m + d
<1>1. PICK y \in Years, m \in 1..12, d \in 1..31 : DayParts(e, y, m, d)
  BY PartsOfDay
<1>2. y \in Nat /\ m \in 1..12 /\ d \in 1..31 /\ e = Date(y, m, d) /\ y \in Years
  BY <1>1, DayParts31
<1>3. Year(e) = y /\ Month(e) = m /\ DayOfMonth(e) = d
  BY <1>1 DEF DayParts
<1>4. e \div 100 = 100 * y + m /\ e % 10000 = 100 * m + d
  <2>1. e = 10000 * y + 100 * m + d
    BY <1>2 DEF Date
  <2>2. e \div 100 = 100 * y + m
    BY <1>2, <2>1, SMT
  <2>3. e % 10000 = 100 * m + d
    BY <1>2, <2>1, SMT
  <2> QED
    BY <2>2, <2>3
<1>5. MonthDay(e) = 100 * m + d
  BY <1>4 DEF MonthDay
<1>6. MonthNo(e) = 12 * y + m - 1 /\ MonthNo(e) \in Nat
  BY <1>2, <1>3 DEF MonthNo
<1> QED
  BY <1>2, <1>3, <1>4, <1>5, <1>6

\* Two days of one month share what is left of their dates without the day.
LEMMA MonthsAreNumbered ==
  ASSUME NEW e \in Days, NEW f \in Days
  PROVE  /\ e \div 100 = f \div 100 <=> MonthNo(e) = MonthNo(f)
         /\ MonthNo(e) \in Nat /\ MonthNo(f) \in Nat
<1>1. PICK y \in Years, m \in 1..12, d \in 1..31 :
           /\ y \in Nat /\ MonthNo(e) = 12 * y + m - 1 /\ MonthNo(e) \in Nat
           /\ e \div 100 = 100 * y + m
  BY MonthOfDay
<1>2. PICK z \in Years, n \in 1..12, k \in 1..31 :
           /\ z \in Nat /\ MonthNo(f) = 12 * z + n - 1 /\ MonthNo(f) \in Nat
           /\ f \div 100 = 100 * z + n
  BY MonthOfDay
<1> QED
  BY <1>1, <1>2

LEMMA MonthSplit ==
  ASSUME NEW t \in Nat
  PROVE  \E y \in Nat, m \in 1..12 : y = t \div 12 /\ m = (t % 12) + 1 /\ t = 12 * y + m - 1
<1>1. t \div 12 \in Nat /\ (t % 12) + 1 \in 1..12 /\ t = 12 * (t \div 12) + ((t % 12) + 1) - 1
  OBVIOUS
<1> QED
  BY <1>1

\* The first of a month, and which days come before it.
LEMMA FirstIs ==
  ASSUME NEW t \in Nat, t \div 12 \in Years
  PROVE  /\ First(t) \in Days /\ MonthNo(First(t)) = t /\ DayOfMonth(First(t)) = 1
         /\ MonthDay(First(t)) = 100 * ((t % 12) + 1) + 1
         /\ \A e \in Days : First(t) <= e <=> t <= MonthNo(e)
<1>1. PICK y \in Nat, m \in 1..12 : y = t \div 12 /\ m = (t % 12) + 1 /\ t = 12 * y + m - 1
  BY MonthSplit
<1>2. First(t) = Date(y, m, 1)
  BY <1>1 DEF First
<1>3. 1 \in 1..31 /\ 1 \in 1..LengthOf(y, m)
  BY LengthsAre
<1>4. Date(y, m, 1) \in Days
  BY <1>1, <1>3, IsADay
<1>5. Year(Date(y, m, 1)) = y /\ Month(Date(y, m, 1)) = m /\ DayOfMonth(Date(y, m, 1)) = 1
  BY <1>3, PartsOfADate
<1>6. MonthNo(First(t)) = t
  BY <1>1, <1>2, <1>5 DEF MonthNo
<1>7. MonthDay(First(t)) = 100 * m + 1
  <2>1. First(t) = 10000 * y + 100 * m + 1
    BY <1>2 DEF Date
  <2> QED
    BY <2>1, SMT DEF MonthDay
<1>8. ASSUME NEW e \in Days PROVE First(t) <= e <=> t <= MonthNo(e)
  <2>1. PICK z \in Years, n \in 1..12, d \in 1..31 :
          z \in Nat /\ e = Date(z, n, d) /\ MonthNo(e) = 12 * z + n - 1
    BY MonthOfDay
  <2>2. Date(y, m, 1) <= Date(z, n, d) <=> 12 * y + m - 1 <= 12 * z + n - 1
    BY <2>1, SMT DEF Date
  <2> QED
    BY <1>1, <1>2, <2>1, <2>2
<1> QED
  BY <1>1, <1>2, <1>4, <1>5, <1>6, <1>7, <1>8

\* Months are added by their numbers.
LEMMA MonthsAdded ==
  ASSUME NEW e \in Days, NEW k \in Int, NEW t \in Nat, t = MonthNo(e) + k, t \div 12 \in Years
  PROVE  monthStart(e, k) = First(t)
<1>1. PICK y \in Years, m \in 1..12, d \in 1..31 :
        y \in Nat /\ Year(e) = y /\ Month(e) = m /\ MonthNo(e) = 12 * y + m - 1
  BY MonthOfDay
<1>2. PICK z \in Nat, n \in 1..12 : z = t \div 12 /\ n = (t % 12) + 1 /\ t = 12 * z + n - 1
  BY MonthSplit
<1>3. (m + k) - 3 = 12 * (z - y) + (n - 3)
  BY <1>1, <1>2
<1>4. y + ((m + k) - 3) \div 12 = z + (n - 3) \div 12 /\ ((m + k) - 3) % 12 = (n - 3) % 12
  BY <1>1, <1>2, <1>3
<1>5. DateUTC(y, m + k, 1) = DateUTC(z, n, 1)
  BY <1>4, Zenon DEF DateUTC
<1>6. z > 0 /\ z % 100 # 0
  <2>1. z \in Years
    BY <1>2
  <2> QED
    BY <2>1, YearsAreConsecutive
<1>7. 1 \in 1..LengthOf(z, n)
  BY LengthsAre
<1>8. toInt(DateUTC(z, n, 1)) = Date(z, n, 1)
  BY <1>6, <1>7, ThereAndBack
<1> QED
  BY <1>1, <1>2, <1>5, <1>8 DEF monthStart, First

\* A month: where it starts and what days it has.
LEMMA MonthIs ==
  ASSUME NEW e \in Days, NEW k \in Int, NEW t \in Nat, t = MonthNo(e) + k,
         t \div 12 \in Years, (t + 1) \div 12 \in Years
  PROVE  LET I == wholeMonth(e, k) IN
         /\ Proper(I) /\ I.start = First(t)
         /\ DaysOf(I) = {d \in Days : MonthNo(d) = t}
<1>1. MonthNo(e) \in Nat
  BY MonthsAreNumbered
<1>2. t + 1 \in Nat /\ k + 1 \in Int /\ t + 1 = MonthNo(e) + (k + 1)
  BY <1>1
<1>3. monthStart(e, k) = First(t) /\ monthStart(e, k + 1) = First(t + 1)
  BY <1>2, MonthsAdded
<1>4. /\ First(t) \in Days /\ First(t + 1) \in Days /\ MonthNo(First(t)) = t /\ MonthNo(First(t + 1)) = t + 1
      /\ \A d \in Days : (First(t) <= d <=> t <= MonthNo(d)) /\ (First(t + 1) <= d <=> t + 1 <= MonthNo(d))
  BY <1>2, FirstIs
<1>5. \A d \in Days : MonthNo(d) \in Nat /\ d \in Nat
  BY MonthsAreNumbered, DayIs
<1>6. PICK a, b : a = First(t) /\ b = First(t + 1)
  OBVIOUS
<1>7. a < b
  BY <1>4, <1>5, <1>6
<1>8. \A d \in Days : (a <= d /\ d < b) <=> MonthNo(d) = t
  BY <1>4, <1>5, <1>6
<1>9. wholeMonth(e, k) = [start |-> a, end |-> b, precision |-> "month"]
  BY <1>3, <1>6 DEF wholeMonth, Interval
<1> QED
  BY <1>4, <1>6, <1>7, <1>8, <1>9 DEF Proper, DaysOf

\* A year: where it starts and what days it has.
LEMMA YearIs ==
  ASSUME NEW y \in Inner
  PROVE  LET I == wholeYear(y) IN
         /\ Proper(I) /\ I.start = Date(y, 1, 1)
         /\ DaysOf(I) = {d \in Days : Year(d) = y}
<1>1. y \in Years /\ y + 1 \in Years /\ y \in Nat /\ y + 1 \in Nat
  BY YearsAreConsecutive DEF Inner
<1>2. 1 \in 1..12 /\ 1 \in 1..LengthOf(y, 1) /\ 1 \in 1..LengthOf(y + 1, 1)
  BY <1>1, LengthsAre
<1>3. PICK a, b : a = Date(y, 1, 1) /\ b = Date(y + 1, 1, 1)
  OBVIOUS
<1>4. a \in Days /\ b \in Days
  BY <1>1, <1>2, <1>3, IsADay
<1>5. a < b
  BY <1>1, <1>3, SMT DEF Date
<1>6. ASSUME NEW d \in Days PROVE (a <= d /\ d < b) <=> Year(d) = y
  <2>1. PICK z \in Years, n \in 1..12, k \in 1..31 : z \in Nat /\ d = Date(z, n, k) /\ Year(d) = z
    BY MonthOfDay
  <2>2. (Date(y, 1, 1) <= Date(z, n, k) /\ Date(z, n, k) < Date(y + 1, 1, 1)) <=> z = y
    BY <1>1, <2>1, SMT DEF Date
  <2> QED
    BY <1>3, <2>1, <2>2
<1>7. wholeYear(y) = [start |-> a, end |-> b, precision |-> "year"]
  BY <1>1, <1>3, SMT DEF wholeYear, Interval, Date
<1> QED
  BY <1>3, <1>4, <1>5, <1>6, <1>7 DEF Proper, DaysOf

\* A period of the phrase's kind has begun or, after "last", is over.
Had(phrase, today, start) ==
  IF phrase.says = "last" THEN \A d \in PeriodFrom(phrase, start) : d < today ELSE start <= today

Later(phrase, today, I) == {d \in StartsOf(phrase) : d > I.start /\ Had(phrase, today, d)}

\* The interval a phrase stands for is the one it should be, and lies in the calendar.
Latest(phrase, today, I) ==
  /\ Proper(I)
  /\ I.start \in StartsOf(phrase) /\ Had(phrase, today, I.start)
  /\ DaysOf(I) = PeriodFrom(phrase, I.start)
  /\ Cardinality(Later(phrase, today, I)) = IF phrase.says = "ago" THEN phrase.n ELSE 0

LEMMA CountedAgo ==
  ASSUME NEW phrase, NEW today, NEW I, NEW f, NEW a, NEW b,
         phrase.says = "ago", Proper(I),
         I.start \in StartsOf(phrase), I.start <= today, DaysOf(I) = PeriodFrom(phrase, I.start),
         Numbers(f, {d \in StartsOf(phrase) : d > I.start /\ d <= today}, a, b), phrase.n = b - a + 1
  PROVE  Latest(phrase, today, I)
<1>1. \A s : Had(phrase, today, s) <=> s <= today
  BY DEF Had
<1>2. PICK S : S = {d \in StartsOf(phrase) : d > I.start /\ d <= today}
  OBVIOUS
<1>3. Later(phrase, today, I) = S
  BY <1>1, <1>2, Zenon DEF Later
<1>4. Cardinality(S) = b - a + 1
  BY <1>2, CountedByNumber
<1> QED
  BY <1>1, <1>3, <1>4 DEF Latest

LEMMA NoneLater ==
  ASSUME NEW phrase, NEW today, NEW I,
         phrase.says # "ago", Proper(I),
         I.start \in StartsOf(phrase), Had(phrase, today, I.start), DaysOf(I) = PeriodFrom(phrase, I.start),
         \A d \in StartsOf(phrase) : d > I.start => ~Had(phrase, today, d)
  PROVE  Latest(phrase, today, I)
<1>1. Later(phrase, today, I) = {}
  BY DEF Later
<1> QED
  BY <1>1, FS_EmptySet DEF Latest

\* A day by itself.
LEMMA DayAlone ==
  ASSUME NEW s \in Days, NEW f \in Days, Rank[s] < Rank[f]
  PROVE  /\ Proper(singleDay(s)) /\ singleDay(s).start = s
         /\ DaysOf(singleDay(s)) = {d \in Days : d >= s /\ d = s}
<1>1. Rank[s] \in Nat /\ Rank[f] \in Nat
  BY RanksRise
<1>2. Rank[s] + 1 <= Rank[f]
  BY <1>1
<1>3. /\ Proper(Interval(s, addDays(s, 1), "day"))
      /\ DaysOf(Interval(s, addDays(s, 1), "day")) = {d \in Days : d >= s /\ Rank[d] < Rank[s] + 1}
  BY <1>2, StretchIs
<1>4. \A d \in Days : d >= s /\ Rank[d] < Rank[s] + 1 <=> d >= s /\ d = s
  <2> TAKE d \in Days
  <2>1. /\ Rank[d] \in Nat /\ d \in Nat /\ s \in Nat
        /\ (s < d <=> Rank[s] < Rank[d]) /\ (s = d <=> Rank[s] = Rank[d])
    BY RanksRise
  <2> QED
    BY <1>1, <2>1
<1> QED
  BY <1>3, <1>4 DEF singleDay, Interval

\* A number of days ago.
LEMMA AgoDay ==
  ASSUME NEW phrase, NEW today \in Days, Year(today) \in Inner,
         phrase.says = "ago", phrase.unit = "day", phrase.n \in Nat, phrase.n <= Rank[today]
  PROVE  Latest(phrase, today, resolveTimeInterval(phrase, today))
<1>1. PICK n \in Nat : n = phrase.n
  OBVIOUS
<1>2. PICK f \in Days : Rank[today] + 365 <= Rank[f]
  BY YearAhead
<1>3. PICK s : s = addDays(today, -n)
  OBVIOUS
<1>4. Rank[today] \in Nat /\ Rank[f] \in Nat /\ today \in Nat
  BY RanksRise
<1>5. s \in Days /\ Rank[s] = Rank[today] - n
  <2>1. -n \in Int /\ 0 <= Rank[today] + (-n) /\ Rank[today] + (-n) <= Rank[f]
    BY <1>1, <1>2, <1>4
  <2>2. addDays(today, -n) \in Days /\ Rank[addDays(today, -n)] = Rank[today] + (-n)
    BY <2>1, DaysAdded
  <2> QED
    BY <1>3, <1>4, <2>2
<1>6. Rank[s] < Rank[f]
  BY <1>2, <1>4, <1>5
<1>7. PICK I : I = singleDay(s)
  OBVIOUS
<1>8. Proper(I) /\ I.start = s /\ DaysOf(I) = {d \in Days : d >= s /\ d = s}
  BY <1>5, <1>6, <1>7, DayAlone
<1>9. resolveTimeInterval(phrase, today) = I
  BY <1>1, <1>3, <1>7 DEF resolveTimeInterval, Ago
<1>10. StartsOf(phrase) = Days /\ PeriodFrom(phrase, s) = {d \in Days : d >= s /\ d = s}
  BY DEF StartsOf, PeriodFrom, SamePeriod
<1>11. PICK g : g = [d \in Days |-> Rank[d]]
  OBVIOUS
<1>12. Numbers(g, {d \in Days : d > s /\ d <= today}, Rank[s] + 1, Rank[today])
  <2>1. \A d \in Days : /\ Rank[d] \in Nat /\ d \in Nat /\ (s < d <=> Rank[s] < Rank[d])
                        /\ (d <= today <=> Rank[d] <= Rank[today])
    BY <1>5, RanksRise
  <2>2. s \in Nat /\ Rank[s] \in Nat
    BY <1>5, <2>1
  <2>3. \A d, e \in Days : Rank[d] = Rank[e] => d = e
    BY RanksRise
  <2>4. \A r \in (Rank[s] + 1)..Rank[today] : \E d \in Days : Rank[d] = r
    BY <1>4, <2>2, RankTaken
  <2> QED
    BY <1>1, <1>4, <1>5, <1>11, <2>1, <2>2, <2>3, <2>4 DEF Numbers
<1>13. s <= today /\ n = Rank[today] - (Rank[s] + 1) + 1
  BY <1>4, <1>5, RanksRise
<1> QED
  BY <1>1, <1>5, <1>8, <1>9, <1>10, <1>12, <1>13, CountedAgo

LEMMA WeekdaysReturn ==
  ASSUME NEW d \in Days, NEW e \in Days
  PROVE  /\ WeekdayOf[d] = WeekdayOf[e] <=> \E k \in Int : Rank[d] = Rank[e] + 7 * k
         /\ \A j \in Int : Rank[d] = Rank[e] + j => WeekdayOf[d] = (WeekdayOf[e] + j) % 7
         /\ WeekdayOf[d] \in 0..6 /\ WeekdayOf[e] \in 0..6
<1>1. Rank[d] \in Nat /\ Rank[e] \in Nat
  BY RanksRise
<1>2. WeekdayOf[d] = (Rank[d] + FirstWeekday) % 7 /\ WeekdayOf[e] = (Rank[e] + FirstWeekday) % 7
  BY DEF WeekdayOf
<1>3. FirstWeekday \in 0..6
  BY YearsAreConsecutive
<1>4. PICK p \in Nat, q \in Nat, w \in 0..6 : p = Rank[d] /\ q = Rank[e] /\ w = FirstWeekday
  BY <1>1, <1>3
<1>5. (p + w) % 7 = (q + w) % 7 => \E k \in Int : p = q + 7 * k
  <2>1. ASSUME (p + w) % 7 = (q + w) % 7 PROVE p = q + 7 * ((p + w) \div 7 - (q + w) \div 7)
    BY <2>1
  <2>2. (p + w) \div 7 - (q + w) \div 7 \in Int
    OBVIOUS
  <2> QED
    BY <2>1, <2>2
<1>6. ASSUME NEW k \in Int, p = q + 7 * k PROVE (p + w) % 7 = (q + w) % 7
  BY <1>6
<1>7. ASSUME NEW j \in Int, p = q + j PROVE (p + w) % 7 = (((q + w) % 7) + j) % 7
  BY <1>7
<1>8. (p + w) % 7 \in 0..6 /\ (q + w) % 7 \in 0..6
  OBVIOUS
<1> QED
  BY <1>2, <1>4, <1>5, <1>6, <1>7, <1>8

\* A number of weeks ago.
LEMMA AgoWeek ==
  ASSUME NEW phrase, NEW today \in Days, Year(today) \in Inner,
         phrase.says = "ago", phrase.unit = "week", phrase.n \in Nat, 7 * phrase.n + 6 <= Rank[today]
  PROVE  Latest(phrase, today, resolveTimeInterval(phrase, today))
<1>1. PICK n \in Nat : n = phrase.n
  OBVIOUS
<1>2. PICK f \in Days : Rank[today] + 365 <= Rank[f]
  BY YearAhead
<1>3. PICK e : e = addDays(today, -7 * n)
  OBVIOUS
<1>4. Rank[today] \in Nat /\ Rank[f] \in Nat /\ today \in Nat
  BY RanksRise
<1>5. e \in Days /\ Rank[e] = Rank[today] - 7 * n
  <2>1. -7 * n \in Int /\ 0 <= Rank[today] + (-7 * n) /\ Rank[today] + (-7 * n) <= Rank[f]
    BY <1>1, <1>2, <1>4
  <2>2. addDays(today, -7 * n) \in Days /\ Rank[addDays(today, -7 * n)] = Rank[today] + (-7 * n)
    BY <2>1, DaysAdded
  <2> QED
    BY <1>1, <1>3, <1>4, <2>2
<1>6. PICK w \in 0..6 : w = WeekdayOf[e] /\ w = getUTCDay(e)
  BY <1>5, WeekdayIs
<1>7. PICK j \in -6..0 : j = IF w = 0 THEN -6 ELSE 1 - w
  OBVIOUS
<1>8. PICK s : s = addDays(e, j)
  OBVIOUS
<1>9. s \in Days /\ Rank[s] = Rank[e] + j
  <2>1. 0 <= Rank[e] + j /\ Rank[e] + j <= Rank[f] /\ j \in Int
    BY <1>1, <1>2, <1>4, <1>5
  <2> QED
    BY <1>5, <1>8, <2>1, DaysAdded
<1>10. WeekdayOf[s] = 1
  <2>0. j \in Int
    OBVIOUS
  <2>1. WeekdayOf[s] = (WeekdayOf[e] + j) % 7
    BY <1>5, <1>9, <2>0, WeekdaysReturn
  <2>2. (w + j) % 7 = 1
    BY <1>7
  <2> QED
    BY <1>6, <2>1, <2>2
<1>11. PICK I : I = Interval(s, addDays(s, 7), "week")
  OBVIOUS
<1>12. Proper(I) /\ I.start = s /\ DaysOf(I) = {d \in Days : d >= s /\ Rank[d] < Rank[s] + 7}
  <2>1. Rank[s] + 7 <= Rank[f]
    BY <1>1, <1>2, <1>4, <1>5, <1>9
  <2>2. I.start = s
    BY <1>11 DEF Interval
  <2> QED
    BY <1>9, <1>11, <2>1, <2>2, StretchIs
<1>13. resolveTimeInterval(phrase, today) = I
  <2>1. weekStart(e) = s
    BY <1>6, <1>7, <1>8 DEF weekStart
  <2>2. resolveTimeInterval(phrase, today) = wholeWeek(e)
    BY <1>1, <1>3 DEF resolveTimeInterval, Ago
  <2> QED
    BY <1>11, <2>1, <2>2 DEF wholeWeek
<1>14. /\ StartsOf(phrase) = {d \in Days : WeekdayOf[d] = 1}
       /\ PeriodFrom(phrase, s) = {d \in Days : d >= s /\ Rank[d] < Rank[s] + 7}
  BY DEF StartsOf, PeriodFrom, SamePeriod
<1>15. PICK g : g = [d \in Days |-> (Rank[d] - Rank[s]) \div 7]
  OBVIOUS
<1>16. PICK S : S = {d \in StartsOf(phrase) : d > s /\ d <= today}
  OBVIOUS
<1>17. Numbers(g, S, 1, n)
  <2>1. \A d \in Days : /\ Rank[d] \in Nat /\ d \in Nat /\ (s < d <=> Rank[s] < Rank[d])
                        /\ (d <= today <=> Rank[d] <= Rank[today])
    BY <1>9, RanksRise
  <2>2. s \in Nat /\ Rank[s] \in Nat /\ Rank[today] = Rank[s] + 7 * n - j
    BY <1>1, <1>4, <1>5, <1>9, <2>1
  <2>3. ASSUME NEW d \in S PROVE d \in Days /\ \E k \in 1..n : Rank[d] = Rank[s] + 7 * k /\ g[d] = k
    <3>1. d \in Days /\ WeekdayOf[d] = WeekdayOf[s] /\ s < d /\ d <= today
      BY <1>10, <1>14, <1>16, <2>1, <2>2
    <3>2. PICK k \in Int : Rank[d] = Rank[s] + 7 * k
      BY <1>9, <3>1, WeekdaysReturn
    <3>3. Rank[s] < Rank[d] /\ Rank[d] <= Rank[today]
      BY <2>1, <3>1
    <3>4. k \in 1..n
      BY <1>7, <2>2, <3>2, <3>3
    <3>5. g[d] = k
      BY <1>15, <2>2, <3>1, <3>2
    <3> QED
      BY <3>1, <3>2, <3>4, <3>5
  <2>4. \A d, e2 \in S : g[d] = g[e2] => d = e2
    <3>1. \A d, e2 \in Days : Rank[d] = Rank[e2] => d = e2
      BY RanksRise
    <3> QED
      BY <2>3, <3>1
  <2>5. ASSUME NEW k \in 1..n PROVE \E d \in S : g[d] = k
    <3>1. Rank[s] + 7 * k \in Int /\ 0 <= Rank[s] + 7 * k /\ Rank[s] + 7 * k <= Rank[today]
      BY <1>7, <2>2
    <3>2. PICK d \in Days : Rank[d] = Rank[s] + 7 * k
      BY <3>1, RankTaken
    <3>3. WeekdayOf[d] = WeekdayOf[s]
      BY <1>9, <3>2, WeekdaysReturn
    <3>4. s < d /\ d <= today
      BY <2>1, <2>2, <3>1, <3>2
    <3>5. d \in S
      BY <1>10, <1>14, <1>16, <2>1, <2>2, <3>3, <3>4
    <3>6. g[d] = k
      BY <1>15, <2>2, <3>2
    <3> QED
      BY <3>5, <3>6
  <2> QED
    BY <2>3, <2>4, <2>5 DEF Numbers
<1>18. s <= today /\ s \in StartsOf(phrase)
  <2>1. Rank[s] <= Rank[today]
    BY <1>1, <1>4, <1>5, <1>7, <1>9
  <2>2. s \in Nat /\ Rank[s] \in Nat /\ (today < s <=> Rank[today] < Rank[s])
    BY <1>9, RanksRise
  <2>3. s <= today
    BY <1>4, <2>1, <2>2
  <2> QED
    BY <1>9, <1>10, <1>14, <2>3
<1>19. n = n - 1 + 1
  OBVIOUS
<1>20. Numbers(g, {d \in StartsOf(phrase) : d > I.start /\ d <= today}, 1, n)
  BY <1>12, <1>16, <1>17
<1> QED
  BY <1>1, <1>12, <1>13, <1>14, <1>18, <1>19, <1>20, CountedAgo

\* The months of the calendar are consecutive.
LEMMA MonthInYears ==
  ASSUME NEW y \in Years, NEW z \in Years, NEW t \in Nat, 12 * y <= t, t <= 12 * z + 11
  PROVE  t \div 12 \in Years /\ t \div 12 \in Nat /\ y <= t \div 12 /\ t \div 12 <= z
<1>1. y \in Nat /\ z \in Nat
  BY YearsAreConsecutive
<1>2. t \div 12 \in y..z /\ t \div 12 \in Nat
  BY <1>1
<1>3. y..z \subseteq Years
  BY YearsAreConsecutive
<1> QED
  BY <1>1, <1>2, <1>3

\* The first of a month is the day a month of a phrase starts on.
LEMMA FirstsAre ==
  ASSUME NEW d \in Days, DayOfMonth(d) = 1
  PROVE  d = First(MonthNo(d)) /\ MonthNo(d) \in Nat
<1>1. PICK y \in Years, m \in 1..12, k \in 1..31 :
           /\ y \in Nat /\ d = Date(y, m, k) /\ MonthNo(d) = 12 * y + m - 1 /\ MonthNo(d) \in Nat
           /\ DayOfMonth(d) = k
  BY MonthOfDay
<1>2. MonthNo(d) \div 12 = y /\ (MonthNo(d) % 12) + 1 = m
  BY <1>1
<1> QED
  BY <1>1, <1>2 DEF First

\* A number of months ago.
LEMMA AgoMonth ==
  ASSUME NEW phrase, NEW today \in Days, Year(today) \in Inner,
         phrase.says = "ago", phrase.unit = "month", phrase.n \in Nat,
         NEW b \in Years, 12 * b + phrase.n <= 12 * Year(today) + Month(today) - 1
  PROVE  Latest(phrase, today, resolveTimeInterval(phrase, today))
<1>1. PICK n \in Nat : n = phrase.n
  OBVIOUS
<1>2. PICK u \in Nat, y \in Years : /\ u = MonthNo(today) /\ y \in Nat /\ Year(today) = y
                                    /\ 12 * y <= u /\ u <= 12 * y + 11 /\ b \in Nat
                                    /\ y + 1 \in Years
  <2>1. PICK y \in Years, m \in 1..12, d \in 1..31 :
           /\ y \in Nat /\ Year(today) = y /\ MonthNo(today) = 12 * y + m - 1 /\ MonthNo(today) \in Nat
    BY MonthOfDay
  <2>2. b \in Nat /\ y + 1 \in Years
    BY <2>1, YearsAreConsecutive DEF Inner
  <2> QED
    BY <2>1, <2>2
<1>3. PICK t \in Nat : t = u - n /\ 12 * b <= t /\ t <= u
  <2>1. 12 * b + n <= u
    BY <1>1, <1>2 DEF MonthNo
  <2>2. u - n \in Nat
    BY <1>2, <2>1
  <2> QED
    BY <1>2, <2>1, <2>2
<1>4. \A r \in Nat : t <= r /\ r <= u => r \div 12 \in Years
  BY <1>2, <1>3, MonthInYears
<1>5. (t + 1) \div 12 \in Years
  BY <1>2, <1>3, MonthInYears
<1>6. PICK s : s = First(t)
  OBVIOUS
<1>7. s \in Days /\ MonthNo(s) = t /\ DayOfMonth(s) = 1 /\ \A d \in Days : s <= d <=> t <= MonthNo(d)
  BY <1>3, <1>4, <1>6, FirstIs
<1>8. PICK I : I = wholeMonth(today, -n)
  OBVIOUS
<1>9. Proper(I) /\ I.start = s /\ DaysOf(I) = {d \in Days : MonthNo(d) = t}
  <2>1. -n \in Int /\ t = MonthNo(today) + (-n)
    BY <1>2, <1>3
  <2>2. t \div 12 \in Years
    BY <1>3, <1>4
  <2> QED
    BY <1>5, <1>6, <1>8, <2>1, <2>2, MonthIs
<1>10. resolveTimeInterval(phrase, today) = I
  BY <1>1, <1>8 DEF resolveTimeInterval, Ago
<1>11. \A d \in Days : MonthNo(d) \in Nat /\ d \in Nat
  BY MonthsAreNumbered, DayIs
<1>12. PeriodFrom(phrase, s) = {d \in Days : MonthNo(d) = t}
  <2>1. PeriodFrom(phrase, s) = {d \in Days : d >= s /\ d \div 100 = s \div 100}
    BY DEF PeriodFrom, SamePeriod
  <2>2. \A d \in Days : d \div 100 = s \div 100 <=> MonthNo(d) = t
    BY <1>7, MonthsAreNumbered
  <2>3. \A d \in Days : MonthNo(d) = t => d >= s
    BY <1>3, <1>7, <1>11
  <2> QED
    BY <2>1, <2>2, <2>3, Zenon
<1>13. StartsOf(phrase) = {d \in Days : DayOfMonth(d) = 1}
  BY DEF StartsOf, DayOfMonth
<1>14. PICK g : g = [d \in Days |-> MonthNo(d)]
  OBVIOUS
<1>15. PICK S : S = {d \in StartsOf(phrase) : d > s /\ d <= today}
  OBVIOUS
<1>16. Numbers(g, S, t + 1, u)
  <2>1. ASSUME NEW d \in Days, DayOfMonth(d) = 1
        PROVE  d \in S <=> MonthNo(d) \in (t + 1)..u
    <3>1. PICK r \in Nat : r = MonthNo(d) /\ d = First(r)
      BY <2>1, FirstsAre
    <3>2. r \div 12 \in Years
      <4>1. PICK z \in Years, m \in 1..12, k \in 1..31 : z \in Nat /\ MonthNo(d) = 12 * z + m - 1
        BY MonthOfDay
      <4>2. r \div 12 = z
        BY <3>1, <4>1
      <4> QED
        BY <4>2
    <3>3. d <= today <=> r <= u
      BY <1>2, <3>1, <3>2, FirstIs
    <3>4. d <= s <=> r <= t
      BY <1>7, <3>1, <3>2, FirstIs
    <3>5. d \in Nat /\ s \in Nat
      BY <1>7, <1>11
    <3> QED
      BY <1>2, <1>3, <1>13, <1>15, <2>1, <3>1, <3>3, <3>4, <3>5
  <2>2. \A d \in S : d \in Days /\ DayOfMonth(d) = 1 /\ g[d] = MonthNo(d)
    BY <1>13, <1>14, <1>15
  <2>3. \A d \in S : g[d] \in (t + 1)..u
    BY <2>1, <2>2
  <2>4. \A d, e \in S : g[d] = g[e] => d = e
    BY <2>2, FirstsAre
  <2>5. ASSUME NEW r \in (t + 1)..u PROVE \E d \in S : g[d] = r
    <3>1. r \in Nat /\ r \div 12 \in Years
      <4>1. r \in Nat /\ t <= r /\ r <= u
        BY <1>2, <1>3
      <4> QED
        BY <1>4, <4>1
    <3>2. First(r) \in Days /\ MonthNo(First(r)) = r /\ DayOfMonth(First(r)) = 1
      BY <3>1, FirstIs
    <3>3. First(r) \in S
      BY <2>1, <3>2
    <3> QED
      BY <2>2, <3>2, <3>3
  <2>6. t + 1 \in Int /\ u \in Int /\ t + 1 <= u + 1
    BY <1>2, <1>3
  <2> QED
    BY <2>3, <2>4, <2>5, <2>6 DEF Numbers
<1>17. s <= today /\ s \in StartsOf(phrase)
  BY <1>2, <1>3, <1>7, <1>13
<1>18. n = u - (t + 1) + 1
  BY <1>2, <1>3
<1>19. Numbers(g, {d \in StartsOf(phrase) : d > I.start /\ d <= today}, t + 1, u)
  BY <1>9, <1>15, <1>16
<1> QED
  BY <1>1, <1>9, <1>10, <1>12, <1>17, <1>18, <1>19, CountedAgo

LEMMA NewYearIs ==
  ASSUME NEW y \in Years
  PROVE  /\ Date(y, 1, 1) \in Days /\ Year(Date(y, 1, 1)) = y /\ MonthDay(Date(y, 1, 1)) = 101
         /\ \A e \in Days : Date(y, 1, 1) <= e <=> y <= Year(e)
<1>1. y \in Nat
  BY YearsAreConsecutive
<1>2. 1 \in 1..12 /\ 1 \in 1..LengthOf(y, 1)
  BY <1>1, LengthsAre
<1>3. PICK a : a = Date(y, 1, 1)
  OBVIOUS
<1>4. a \in Days
  BY <1>2, <1>3, IsADay
<1>5. a = 10000 * y + 101
  BY <1>1, <1>3, SMT DEF Date
<1>6. Year(a) = y /\ MonthDay(a) = 101
  BY <1>1, <1>5, SMT DEF Year, MonthDay
<1>7. ASSUME NEW e \in Days PROVE a <= e <=> y <= Year(e)
  <2>1. PICK z \in Years, n \in 1..12, k \in 1..31 : z \in Nat /\ e = Date(z, n, k) /\ Year(e) = z
    BY MonthOfDay
  <2>2. a <= Date(z, n, k) <=> y <= z
    BY <1>1, <1>5, <2>1, SMT DEF Date
  <2> QED
    BY <2>1, <2>2
<1> QED
  BY <1>3, <1>4, <1>6, <1>7

\* A day on the first of January is told by its year.
LEMMA NewYearsAre ==
  ASSUME NEW d \in Days, MonthDay(d) = 101
  PROVE  d = Date(Year(d), 1, 1) /\ Year(d) \in Years /\ Year(d) \in Nat
<1>1. PICK y \in Years, m \in 1..12, k \in 1..31 :
           /\ y \in Nat /\ d = Date(y, m, k) /\ Year(d) = y /\ MonthDay(d) = 100 * m + k
  BY MonthOfDay
<1>2. m = 1 /\ k = 1
  <2>1. 100 * m + k = 101
    BY <1>1
  <2> QED
    BY <2>1, SMT
<1> QED
  BY <1>1, <1>2

\* A number of years ago.
LEMMA AgoYear ==
  ASSUME NEW phrase, NEW today \in Days, Year(today) \in Inner,
         phrase.says = "ago", phrase.unit = "year", phrase.n \in Nat, Year(today) - phrase.n \in Years
  PROVE  Latest(phrase, today, resolveTimeInterval(phrase, today))
<1>1. PICK n \in Nat : n = phrase.n
  OBVIOUS
<1>2. PICK y \in Nat : y = Year(today) /\ y \in Years /\ y + 1 \in Years
  <2>1. \E y \in Years : y \in Nat /\ Year(today) = y
    BY MonthOfDay
  <2> QED
    BY <2>1 DEF Inner
<1>3. PICK t \in Nat : t = y - n /\ t \in Years
  BY <1>1, <1>2, YearsAreConsecutive
<1>4. \A r \in Nat : t <= r /\ r <= y + 1 => r \in Years
  <2>1. t..(y + 1) \subseteq Years
    BY <1>2, <1>3, YearsAreConsecutive
  <2> QED
    BY <2>1
<1>5. t \in Inner
  BY <1>3, <1>4 DEF Inner
<1>6. PICK s : s = Date(t, 1, 1)
  OBVIOUS
<1>7. s \in Days /\ Year(s) = t /\ MonthDay(s) = 101 /\ \A d \in Days : s <= d <=> t <= Year(d)
  BY <1>3, <1>6, NewYearIs
<1>8. PICK I : I = wholeYear(t)
  OBVIOUS
<1>9. Proper(I) /\ I.start = s /\ DaysOf(I) = {d \in Days : Year(d) = t}
  BY <1>5, <1>6, <1>8, YearIs
<1>10. resolveTimeInterval(phrase, today) = I
  BY <1>1, <1>2, <1>3, <1>8 DEF resolveTimeInterval, Ago
<1>11. \A d \in Days : d \in Nat /\ Year(d) \in Nat
  <2>1. \A d \in Days : \E z \in Years : z \in Nat /\ Year(d) = z
    BY MonthOfDay
  <2> QED
    BY <2>1, DayIs, Zenon
<1>12. PeriodFrom(phrase, s) = {d \in Days : Year(d) = t}
  <2>1. PeriodFrom(phrase, s) = {d \in Days : d >= s /\ Year(d) = Year(s)}
    BY SMT DEF PeriodFrom, SamePeriod, Year
  <2>2. \A d \in Days : Year(d) = t => d >= s
    BY <1>3, <1>7, <1>11, SMT
  <2> QED
    BY <1>7, <2>1, <2>2, SMT
<1>13. StartsOf(phrase) = {d \in Days : MonthDay(d) = 101}
  BY SMT DEF StartsOf, MonthDay
<1>14. PICK g : g = [d \in Days |-> Year(d)]
  OBVIOUS
<1>15. PICK S : S = {d \in StartsOf(phrase) : d > s /\ d <= today}
  OBVIOUS
<1>16. Numbers(g, S, t + 1, y)
  <2>1. ASSUME NEW d \in Days, MonthDay(d) = 101
        PROVE  d \in S <=> g[d] \in (t + 1)..y
    <3>1. PICK r \in Nat : r = Year(d) /\ d = Date(r, 1, 1) /\ r \in Years
      BY <2>1, NewYearsAre
    <3>2. (d <= today <=> r <= y) /\ (d <= s <=> r <= t)
      BY <1>2, <1>7, <3>1, NewYearIs
    <3>3. d \in Nat /\ s \in Nat /\ g[d] = r
      BY <1>7, <1>11, <1>14, <3>1
    <3>4. d \in S <=> d > s /\ d <= today
      BY <1>13, <1>15, <2>1
    <3> QED
      BY <1>2, <1>3, <3>2, <3>3, <3>4, SMT
  <2>2. \A d \in S : d \in Days /\ MonthDay(d) = 101 /\ g[d] = Year(d)
    BY <1>13, <1>14, <1>15
  <2>3. \A d \in S : g[d] \in (t + 1)..y
    BY <2>1, <2>2
  <2>4. \A d, e \in S : g[d] = g[e] => d = e
    <3> TAKE d, e \in S
    <3>1. d = Date(g[d], 1, 1) /\ e = Date(g[e], 1, 1)
      BY <2>2, NewYearsAre
    <3> QED
      BY <3>1, Zenon
  <2>5. ASSUME NEW r \in (t + 1)..y PROVE \E d \in S : g[d] = r
    <3>1. r \in Nat /\ r \in Years
      <4>1. r \in Nat /\ t <= r /\ r <= y + 1
        BY <1>2, <1>3
      <4> QED
        BY <1>4, <4>1
    <3>2. Date(r, 1, 1) \in Days /\ Year(Date(r, 1, 1)) = r /\ MonthDay(Date(r, 1, 1)) = 101
      BY <3>1, NewYearIs
    <3>3. g[Date(r, 1, 1)] = r
      BY <1>14, <3>2
    <3>4. Date(r, 1, 1) \in S
      BY <2>1, <3>2, <3>3
    <3> QED
      BY <3>3, <3>4
  <2>6. t + 1 \in Int /\ y \in Int /\ t + 1 <= y + 1
    BY <1>2, <1>3
  <2> QED
    BY <2>3, <2>4, <2>5, <2>6 DEF Numbers
<1>17. s <= today /\ s \in StartsOf(phrase)
  BY <1>2, <1>3, <1>7, <1>13, SMT
<1>18. n = y - (t + 1) + 1
  BY <1>2, <1>3
<1>19. Numbers(g, {d \in StartsOf(phrase) : d > I.start /\ d <= today}, t + 1, y)
  BY <1>9, <1>15, <1>16
<1> QED
  BY <1>1, <1>9, <1>10, <1>12, <1>17, <1>18, <1>19, CountedAgo

\* A stretch of days up to seven before today, in a calendar with a year on either side.
LEMMA DaysBack ==
  ASSUME NEW today \in Days, Year(today) \in Inner, Year(today) - 1 \in Years,
         NEW k \in Int, 0 <= k, k <= 7
  PROVE  \E s \in Days, f \in Days :
           /\ s = addDays(today, -k) /\ Rank[s] = Rank[today] - k
           /\ Rank[s] \in Nat /\ Rank[today] \in Nat /\ Rank[f] \in Nat /\ Rank[today] + 365 <= Rank[f]
           /\ WeekdayOf[s] = (WeekdayOf[today] - k) % 7
<1>1. PICK f \in Days : Rank[today] + 365 <= Rank[f]
  BY YearAhead
<1>2. Rank[today] >= 365
  BY YearBehind
<1>3. Rank[today] \in Nat /\ Rank[f] \in Nat
  BY RanksRise
<1>4. PICK j \in Int : j = -k
  OBVIOUS
<1>5. 0 <= Rank[today] + j /\ Rank[today] + j <= Rank[f]
  BY <1>1, <1>2, <1>3, <1>4
<1>6. PICK s : s = addDays(today, j)
  OBVIOUS
<1>7. s \in Days /\ Rank[s] = Rank[today] + j
  BY <1>5, <1>6, DaysAdded
<1>8. WeekdayOf[s] = (WeekdayOf[today] + j) % 7 /\ WeekdayOf[today] \in 0..6
  BY <1>7, WeekdaysReturn
<1>9. WeekdayOf[today] + j = WeekdayOf[today] - k /\ Rank[today] + j = Rank[today] - k
  BY <1>3, <1>4, <1>8
<1>10. Rank[s] \in Nat
  BY <1>7, RanksRise
<1> QED
  BY <1>1, <1>3, <1>4, <1>6, <1>7, <1>8, <1>9, <1>10

\* The last weekday of a name.
LEMMA LastWeekday ==
  ASSUME NEW phrase, NEW today \in Days, Year(today) \in Inner, Year(today) - 1 \in Years,
         phrase.says = "last", phrase.unit = "weekday", phrase.n \in 0..6
  PROVE  Latest(phrase, today, resolveTimeInterval(phrase, today))
<1>1. PICK n \in 0..6 : n = phrase.n
  OBVIOUS
<1>2. PICK w \in 0..6 : w = WeekdayOf[today] /\ w = getUTCDay(today)
  BY WeekdayIs
<1>3. PICK k \in 1..7 : k = ((w - n + 6) % 7) + 1
  OBVIOUS
<1>4. back(today, n) = k
  BY <1>2, <1>3 DEF back
<1>5. PICK s \in Days, f \in Days :
           /\ s = addDays(today, -k) /\ Rank[s] = Rank[today] - k
           /\ Rank[s] \in Nat /\ Rank[today] \in Nat /\ Rank[f] \in Nat /\ Rank[today] + 365 <= Rank[f]
           /\ WeekdayOf[s] = (WeekdayOf[today] - k) % 7
  <2>1. k \in Int /\ 0 <= k /\ k <= 7
    OBVIOUS
  <2> QED
    BY <2>1, DaysBack
<1>6. WeekdayOf[s] = n
  <2>1. (w - k) % 7 = n
    BY <1>3
  <2> QED
    BY <1>2, <1>5, <2>1
<1>7. PICK I : I = singleDay(s)
  OBVIOUS
<1>8. Rank[s] < Rank[f]
  BY <1>5
<1>9. Proper(I) /\ I.start = s /\ DaysOf(I) = {d \in Days : d >= s /\ d = s}
  BY <1>7, <1>8, DayAlone
<1>10. resolveTimeInterval(phrase, today) = I
  BY <1>1, <1>4, <1>5, <1>7 DEF resolveTimeInterval
<1>11. /\ StartsOf(phrase) = {d \in Days : WeekdayOf[d] = n}
       /\ \A d \in Days : PeriodFrom(phrase, d) = {e \in Days : e >= d /\ e = d}
  BY <1>1 DEF StartsOf, PeriodFrom, SamePeriod
<1>12. \A d \in Days : Had(phrase, today, d) <=> d < today
  <2> SUFFICES ASSUME NEW d \in Days PROVE Had(phrase, today, d) <=> d < today
    OBVIOUS
  <2>1. d \in Nat
    BY DayIs
  <2>2. d \in PeriodFrom(phrase, d) /\ \A e \in PeriodFrom(phrase, d) : e = d
    BY <1>11, <2>1
  <2> QED
    BY <2>2 DEF Had
<1>13. \A d \in Days : /\ Rank[d] \in Nat /\ d \in Nat /\ today \in Nat /\ s \in Nat
                       /\ (s < d <=> Rank[s] < Rank[d]) /\ (d < today <=> Rank[d] < Rank[today])
  BY RanksRise
<1>14. s < today
  BY <1>5, <1>13
<1>15. ASSUME NEW d \in StartsOf(phrase), d > s, Had(phrase, today, d) PROVE FALSE
  <2>1. d \in Days /\ WeekdayOf[d] = WeekdayOf[s] /\ s < d
    BY <1>6, <1>11, <1>13, <1>15
  <2>2. d < today
    BY <1>12, <1>15, <2>1
  <2>3. PICK j \in Int : Rank[d] = Rank[s] + 7 * j
    BY <2>1, WeekdaysReturn
  <2>4. Rank[s] < Rank[d] /\ Rank[d] < Rank[today]
    BY <1>13, <2>1, <2>2
  <2> QED
    BY <1>5, <2>3, <2>4
<1>16. s \in StartsOf(phrase) /\ Had(phrase, today, s)
  BY <1>6, <1>11, <1>12, <1>14
<1> QED
  BY <1>9, <1>10, <1>11, <1>15, <1>16, NoneLater

\* The latest weekend.
LEMMA InWeekend ==
  ASSUME NEW phrase, NEW today \in Days, Year(today) \in Inner, Year(today) - 1 \in Years,
         phrase.says = "in", phrase.unit = "weekend"
  PROVE  Latest(phrase, today, resolveTimeInterval(phrase, today))
<1>1. PICK w \in 0..6 : w = WeekdayOf[today] /\ w = getUTCDay(today)
  BY WeekdayIs
<1>2. PICK k \in 0..6 : k = (IF w = 6 THEN 0 ELSE w + 1)
  OBVIOUS
<1>3. PICK s \in Days, f \in Days :
           /\ s = addDays(today, -k) /\ Rank[s] = Rank[today] - k
           /\ Rank[s] \in Nat /\ Rank[today] \in Nat /\ Rank[f] \in Nat /\ Rank[today] + 365 <= Rank[f]
           /\ WeekdayOf[s] = (WeekdayOf[today] - k) % 7
  <2>1. k \in Int /\ 0 <= k /\ k <= 7
    OBVIOUS
  <2> QED
    BY <2>1, DaysBack
<1>4. WeekdayOf[s] = 6
  <2>1. (w - k) % 7 = 6
    BY <1>2
  <2> QED
    BY <1>1, <1>3, <2>1
<1>5. PICK I : I = Interval(s, addDays(s, 2), "day")
  OBVIOUS
<1>6. Proper(I) /\ I.start = s /\ DaysOf(I) = {d \in Days : d >= s /\ Rank[d] < Rank[s] + 2}
  <2>1. Rank[s] + 2 <= Rank[f]
    BY <1>3
  <2>2. I.start = s
    BY <1>5 DEF Interval
  <2> QED
    BY <1>5, <2>1, <2>2, StretchIs
<1>7. resolveTimeInterval(phrase, today) = I
  <2>1. resolveTimeInterval(phrase, today) = weekend(today)
    BY DEF resolveTimeInterval
  <2>2. (IF w = 6 THEN 0 ELSE -(w + 1)) = -k
    BY <1>2
  <2>3. addDays(today, IF w = 6 THEN 0 ELSE -(w + 1)) = s
    BY <1>3, <2>2, Zenon
  <2>4. weekend(today) = I
    BY <1>1, <1>5, <2>3, Zenon DEF weekend
  <2> QED
    BY <2>1, <2>4
<1>8. /\ StartsOf(phrase) = {d \in Days : WeekdayOf[d] = 6}
      /\ PeriodFrom(phrase, s) = {e \in Days : e >= s /\ Rank[e] < Rank[s] + 2}
  BY DEF StartsOf, PeriodFrom, SamePeriod
<1>9. \A d : Had(phrase, today, d) <=> d <= today
  BY DEF Had
<1>10. \A d \in Days : /\ Rank[d] \in Nat /\ d \in Nat /\ today \in Nat /\ s \in Nat
                       /\ (s < d <=> Rank[s] < Rank[d]) /\ (d <= today <=> Rank[d] <= Rank[today])
  BY RanksRise
<1>11. s <= today
  BY <1>3, <1>10
<1>12. ASSUME NEW d \in StartsOf(phrase), d > s, Had(phrase, today, d) PROVE FALSE
  <2>1. d \in Days /\ WeekdayOf[d] = WeekdayOf[s] /\ s < d
    BY <1>4, <1>8, <1>10, <1>12
  <2>2. d <= today
    BY <1>9, <1>12
  <2>3. PICK j \in Int : Rank[d] = Rank[s] + 7 * j
    BY <2>1, WeekdaysReturn
  <2>4. Rank[s] < Rank[d] /\ Rank[d] <= Rank[today]
    BY <1>10, <2>1, <2>2
  <2> QED
    BY <1>3, <2>3, <2>4
<1>13. s \in StartsOf(phrase) /\ Had(phrase, today, s)
  BY <1>4, <1>8, <1>9, <1>11
<1> QED
  BY <1>6, <1>7, <1>8, <1>12, <1>13, NoneLater

\* A month of a year in the calendar.
MonthIn(y, n) == wholeMonth(10000 * y + 100 * n + 1, 0)

LEMMA MonthOfYear ==
  ASSUME NEW y \in Inner, NEW n \in Int, n \in 1..12
  PROVE  /\ Proper(MonthIn(y, n)) /\ MonthIn(y, n).start = First(12 * y + n - 1)
         /\ DaysOf(MonthIn(y, n)) = {d \in Days : MonthNo(d) = 12 * y + n - 1}
<1>1. y \in Years /\ y + 1 \in Years /\ y \in Nat
  BY YearsAreConsecutive DEF Inner
<1>2. PICK t \in Nat : t = 12 * y + n - 1
  BY <1>1
<1>3. t \div 12 \in Years /\ (t + 1) \div 12 \in Years /\ t + 1 \in Nat /\ t \div 12 = y /\ (t % 12) + 1 = n
  <2>1. t \div 12 = y /\ (t % 12) + 1 = n /\ ((t + 1) \div 12 = y \/ (t + 1) \div 12 = y + 1)
    BY <1>1, <1>2
  <2> QED
    BY <1>1, <2>1
<1>4. PICK e : e = 10000 * y + 100 * n + 1
  OBVIOUS
<1>5. e = First(t)
  BY <1>3, <1>4 DEF First, Date
<1>6. e \in Days /\ MonthNo(e) = t
  BY <1>3, <1>5, FirstIs
<1>7. 0 \in Int /\ t = MonthNo(e) + 0
  BY <1>6
<1>8. PICK I : I = wholeMonth(e, 0)
  OBVIOUS
<1>9. Proper(I) /\ I.start = First(t) /\ DaysOf(I) = {d \in Days : MonthNo(d) = t}
  BY <1>3, <1>6, <1>7, <1>8, MonthIs
<1>10. MonthIn(y, n) = I
  BY <1>4, <1>8, SMT DEF MonthIn
<1> QED
  BY <1>2, <1>9, <1>10

\* The order of months is that of their days.
LEMMA MonthsInOrder ==
  ASSUME NEW d \in Days, NEW e \in Days, MonthNo(d) < MonthNo(e)
  PROVE  d < e
<1>1. PICK y \in Years, m \in 1..12, k \in 1..31 :
        y \in Nat /\ d = Date(y, m, k) /\ MonthNo(d) = 12 * y + m - 1
  BY MonthOfDay
<1>2. PICK z \in Years, n \in 1..12, j \in 1..31 :
        z \in Nat /\ e = Date(z, n, j) /\ MonthNo(e) = 12 * z + n - 1
  BY MonthOfDay
<1> QED
  BY <1>1, <1>2, SMT DEF Date

\* The latest month of a name, or the last one that is over.
LEMMA NamedMonth ==
  ASSUME NEW phrase, NEW today \in Days, Year(today) \in Inner, Year(today) - 1 \in Years,
         phrase.says \in {"last", "in"}, phrase.unit = "month", phrase.n \in 1..12
  PROVE  Latest(phrase, today, resolveTimeInterval(phrase, today))
<1>1. PICK n \in 1..12 : n = phrase.n
  OBVIOUS
<1>2. PICK u \in Nat, y \in Years, m \in 1..12 :
        u = MonthNo(today) /\ y \in Nat /\ Year(today) = y /\ Month(today) = m /\ u = 12 * y + m - 1
  BY MonthOfDay
<1>3. PICK passed \in BOOLEAN : passed <=> IF phrase.says = "last" THEN n < m ELSE n <= m
  OBVIOUS
<1>4. PICK z \in Int : z = IF passed THEN y ELSE y - 1
  BY <1>2
<1>5. z \in Inner /\ z \in Nat
  <2>1. y \in Inner /\ y - 1 \in Years /\ y - 1 \in Nat /\ y \in Years
    BY <1>2, YearsAreConsecutive
  <2>2. (y - 1) + 1 = y
    BY <1>2
  <2> QED
    BY <1>2, <1>4, <2>1, <2>2 DEF Inner
<1>6. PICK t \in Nat : t = 12 * z + n - 1
  BY <1>5
<1>7. t \div 12 \in Years
  <2>1. t \div 12 = z
    BY <1>5, <1>6
  <2> QED
    BY <1>5, <2>1 DEF Inner
<1>8. PICK s : s = First(t)
  OBVIOUS
<1>9. /\ s \in Days /\ MonthNo(s) = t /\ MonthDay(s) = 100 * n + 1
      /\ \A d \in Days : s <= d <=> t <= MonthNo(d)
  <2>1. (t % 12) + 1 = n
    BY <1>5, <1>6
  <2> QED
    BY <1>7, <1>8, <2>1, FirstIs
<1>10. PICK I : I = MonthIn(z, n)
  OBVIOUS
<1>11. Proper(I) /\ I.start = s /\ DaysOf(I) = {d \in Days : MonthNo(d) = t}
  BY <1>5, <1>6, <1>8, <1>10, MonthOfYear
<1>12. resolveTimeInterval(phrase, today) = I
  <2>1. resolveTimeInterval(phrase, today) = InMonth(n, today, passed)
    <3>1. CASE phrase.says = "last"
      <4>1. resolveTimeInterval(phrase, today) = InMonth(n, today, n < m)
        BY <1>1, <1>2, <3>1 DEF resolveTimeInterval
      <4>2. passed = (n < m)
        BY <1>3, <3>1
      <4> QED
        BY <4>1, <4>2, Zenon
    <3>2. CASE phrase.says = "in"
      <4>1. resolveTimeInterval(phrase, today) = InMonth(n, today, n <= m)
        BY <1>1, <1>2, <3>2 DEF resolveTimeInterval
      <4>2. passed = (n <= m)
        BY <1>3, <3>2
      <4> QED
        BY <4>1, <4>2, Zenon
    <3> QED
      BY <3>1, <3>2
  <2>2. y - (IF passed THEN 0 ELSE 1) = z
    BY <1>2, <1>4
  <2>3. InMonth(n, today, passed) = wholeMonth(10000 * (y - (IF passed THEN 0 ELSE 1)) + 100 * n + 1, 0)
    BY <1>2, SMT DEF InMonth
  <2> QED
    BY <1>10, <2>1, <2>2, <2>3, SMT DEF MonthIn
<1>13. StartsOf(phrase) = {d \in Days : MonthDay(d) = 100 * n + 1}
  <2>1. phrase.says # "ago"
    OBVIOUS
  <2> QED
    BY <1>1, <2>1, SMT DEF StartsOf, MonthDay
<1>14. \A d \in Days : PeriodFrom(phrase, d) = {e \in Days : e >= d /\ MonthNo(e) = MonthNo(d)}
  <2> TAKE d \in Days
  <2>1. \A e \in Days : e \div 100 = d \div 100 <=> MonthNo(e) = MonthNo(d)
    BY MonthsAreNumbered
  <2>2. PeriodFrom(phrase, d) = {e \in Days : e >= d /\ e \div 100 = d \div 100}
    BY DEF PeriodFrom, SamePeriod
  <2> QED
    BY <2>1, <2>2, Zenon
<1>15. ASSUME NEW d \in Days, MonthDay(d) = 100 * n + 1
       PROVE  /\ \E x \in Nat : MonthNo(d) = 12 * x + n - 1
              /\ Had(phrase, today, d) <=> IF phrase.says = "last" THEN MonthNo(d) < u ELSE MonthNo(d) <= u
              /\ d > s <=> MonthNo(d) > t
  <2>1. PICK x \in Years, j \in 1..12, k \in 1..31 :
          /\ x \in Nat /\ d = Date(x, j, k) /\ MonthNo(d) = 12 * x + j - 1 /\ MonthNo(d) \in Nat
          /\ MonthDay(d) = 100 * j + k /\ DayOfMonth(d) = k
    BY MonthOfDay
  <2>2. j = n /\ k = 1
    BY <1>15, <2>1
  <2>3. PICK r \in Nat : r = MonthNo(d)
    BY <2>1
  <2>4. d = First(r)
    BY <2>1, <2>2, <2>3, FirstsAre
  <2>5. r \div 12 \in Years
    <3>1. r \div 12 = x
      BY <2>1, <2>3
    <3> QED
      BY <3>1
  <2>6. \A e \in Days : d <= e <=> r <= MonthNo(e)
    BY <2>4, <2>5, FirstIs
  <2>7. d \in Nat /\ s \in Nat /\ today \in Nat
    BY <1>9, DayIs
  <2>8. d > s <=> r > t
    BY <1>9, <2>3, <2>6, <2>7
  <2>9. CASE phrase.says = "last"
    <3>1. ASSUME r < u PROVE Had(phrase, today, d)
      <4>1. ASSUME NEW e \in PeriodFrom(phrase, d) PROVE e < today
        <5>1. e \in Days /\ MonthNo(e) = r
          BY <1>14, <2>3
        <5>2. MonthNo(e) < MonthNo(today)
          BY <1>2, <3>1, <5>1
        <5> QED
          BY <5>1, <5>2, MonthsInOrder
      <4> QED
        BY <2>9, <4>1 DEF Had
    <3>2. ASSUME Had(phrase, today, d) PROVE r < u
      <4>1. \A e \in PeriodFrom(phrase, d) : e < today
        BY <2>9, <3>2 DEF Had
      <4>2. d \in PeriodFrom(phrase, d)
        BY <1>14, <2>7
      <4>3. d < today
        BY <4>1, <4>2
      <4>4. r <= u
        <5>1. d <= today
          BY <2>7, <4>3
        <5> QED
          BY <1>2, <2>6, <5>1
      <4>5. r # u
        <5>1. ASSUME r = u PROVE FALSE
          <6>1. today >= d /\ MonthNo(today) = MonthNo(d)
            BY <1>2, <2>3, <2>7, <4>3, <5>1
          <6>2. today \in PeriodFrom(phrase, d)
            BY <1>14, <6>1
          <6> QED
            BY <2>7, <4>1, <6>2
        <5> QED
          BY <5>1
      <4> QED
        BY <4>4, <4>5
    <3> QED
      BY <2>1, <2>2, <2>3, <2>8, <2>9, <3>1, <3>2
  <2>10. CASE phrase.says = "in"
    <3>1. Had(phrase, today, d) <=> d <= today
      BY <2>10 DEF Had
    <3>2. d <= today <=> r <= u
      BY <1>2, <2>6
    <3> QED
      BY <2>1, <2>2, <2>3, <2>8, <2>10, <3>1, <3>2
  <2> QED
    BY <2>9, <2>10
<1>16. s \in StartsOf(phrase) /\ Had(phrase, today, s)
  <2>1. Had(phrase, today, s) <=> IF phrase.says = "last" THEN t < u ELSE t <= u
    BY <1>9, <1>15
  <2>2. IF phrase.says = "last" THEN t < u ELSE t <= u
    <3>1. CASE passed
      BY <1>2, <1>3, <1>4, <1>6, <3>1
    <3>2. CASE ~passed
      BY <1>2, <1>3, <1>4, <1>6, <3>2
    <3> QED
      BY <3>1, <3>2
  <2> QED
    BY <1>9, <1>13, <2>1, <2>2
<1>17. ASSUME NEW d \in StartsOf(phrase), d > s, Had(phrase, today, d) PROVE FALSE
  <2>1. d \in Days /\ MonthDay(d) = 100 * n + 1
    BY <1>13, <1>17
  <2>2. PICK x \in Nat : MonthNo(d) = 12 * x + n - 1
    BY <1>15, <2>1
  <2>3. 12 * x + n - 1 > t
    BY <1>15, <1>17, <2>1, <2>2
  <2>4. IF phrase.says = "last" THEN 12 * x + n - 1 < u ELSE 12 * x + n - 1 <= u
    BY <1>15, <1>17, <2>1, <2>2
  <2>5. x > z
    BY <1>5, <1>6, <2>3
  <2>6. CASE passed
    BY <1>2, <1>4, <2>4, <2>5, <2>6
  <2>7. CASE ~passed
    BY <1>2, <1>3, <1>4, <2>4, <2>5, <2>7
  <2> QED
    BY <2>6, <2>7
<1>18. DaysOf(I) = PeriodFrom(phrase, s)
  <2>1. \A d \in Days : MonthNo(d) = t => d >= s
    <3>1. \A d \in Days : d \in Nat /\ s \in Nat
      BY <1>9, DayIs
    <3> QED
      BY <1>9, <3>1
  <2> QED
    BY <1>9, <1>11, <1>14, <2>1
<1> QED
  BY <1>11, <1>12, <1>16, <1>17, <1>18, NoneLater

\* The date of a month and day.
OnDay(y, monthDay) == 10000 * y + monthDay
FitsInAYear(monthDay) == monthDay < 10000

LEMMA OnDays ==
  ASSUME NEW y \in Nat, NEW n \in Nat, FitsInAYear(n)
  PROVE  OnDay(y, n) \in Nat /\ Year(OnDay(y, n)) = y /\ MonthDay(OnDay(y, n)) = n
<1>1. (10000 * y + n) \div 10000 = y /\ (10000 * y + n) % 10000 = n
  BY SMT DEF FitsInAYear
<1> QED
  BY <1>1, SMT DEF OnDay, Year, MonthDay

LEMMA OnLaterDays ==
  ASSUME NEW y \in Nat, NEW n \in Nat, FitsInAYear(n), NEW z \in Nat, NEW k \in Nat, y < z
  PROVE  OnDay(y, n) < OnDay(z, k)
BY SMT DEF OnDay, FitsInAYear

\* A day is the one of its year with its month and day.
LEMMA OnItsDay ==
  ASSUME NEW d \in Days
  PROVE  /\ d \in Nat /\ Year(d) \in Years /\ Year(d) \in Nat /\ Year(d) > 0
         /\ MonthDay(d) \in Nat /\ FitsInAYear(MonthDay(d)) /\ d = OnDay(Year(d), MonthDay(d))
<1>1. d \in Nat
  BY DayIs
<1>2. PICK y \in Nat, n \in Nat : y = d \div 10000 /\ n = d % 10000 /\ n < 10000 /\ d = 10000 * y + n
  BY <1>1, SMT
<1>3. Year(d) = y /\ MonthDay(d) = n
  BY <1>2, SMT DEF Year, MonthDay
<1>4. FitsInAYear(n) /\ d = OnDay(y, n)
  BY <1>2, SMT DEF FitsInAYear, OnDay
<1>5. Year(d) \in Years
  <2>1. \E z \in Years : Year(d) = z
    BY MonthOfDay
  <2> QED
    BY <2>1
<1> QED
  BY <1>1, <1>3, <1>4, <1>5, YearsAreConsecutive

LEMMA NamedDay ==
  ASSUME NEW phrase, NEW today \in Days, Year(today) \in Inner, Year(today) - 1 \in Years,
         phrase.says = "in", phrase.unit = "monthDay", phrase.n \in Nat, FitsInAYear(phrase.n),
         OnDay(Year(today) - 1, phrase.n) \in Days, OnDay(Year(today), phrase.n) \in Days
  PROVE  Latest(phrase, today, resolveTimeInterval(phrase, today))
<1>1. PICK n \in Nat : n = phrase.n /\ FitsInAYear(n)
  OBVIOUS
<1>2. PICK y \in Nat : y = Year(today) /\ y > 0 /\ y - 1 \in Nat
  <2>1. Year(today) \in Nat /\ Year(today) > 0
    BY OnItsDay
  <2> QED
    BY <2>1
<1>3. PICK here \in Days : here = OnDay(y, n)
  BY <1>1, <1>2
<1>4. PICK before \in Days : before = OnDay(y - 1, n)
  BY <1>1, <1>2
<1>5. PICK s \in Days : s = IF here <= today THEN here ELSE before
  OBVIOUS
<1>6. PICK z \in Nat : z = IF here <= today THEN y ELSE y - 1
  BY <1>2
<1>7. s = OnDay(z, n)
  BY <1>3, <1>4, <1>5, <1>6
<1>8. MonthDay(s) = n
  BY <1>1, <1>7, OnDays
<1>9. PICK k \in Nat : today = OnDay(y, k) /\ today \in Nat /\ FitsInAYear(k)
  BY <1>2, OnItsDay
<1>10. s <= today
  <2>1. CASE here <= today
    BY <1>5, <2>1
  <2>2. CASE ~(here <= today)
    <3>1. OnDay(y - 1, n) < OnDay(y, k)
      <4>1. y - 1 < y
        BY <1>2
      <4> QED
        BY <1>1, <1>2, <4>1, OnLaterDays
    <3>2. s \in Nat
      BY OnItsDay
    <3> QED
      BY <1>4, <1>5, <1>9, <2>2, <3>1, <3>2
  <2> QED
    BY <2>1, <2>2
<1>11. PICK f \in Days : Rank[today] + 365 <= Rank[f]
  BY YearAhead
<1>12. Rank[s] < Rank[f]
  <2>1. /\ Rank[s] \in Nat /\ Rank[today] \in Nat /\ Rank[f] \in Nat /\ s \in Nat
        /\ (today < s <=> Rank[today] < Rank[s])
    BY RanksRise
  <2>2. Rank[s] <= Rank[today]
    BY <1>9, <1>10, <2>1
  <2> QED
    BY <1>11, <2>1, <2>2
<1>13. PICK I : I = singleDay(s)
  OBVIOUS
<1>14. Proper(I) /\ I.start = s /\ DaysOf(I) = {d \in Days : d >= s /\ d = s}
  BY <1>12, <1>13, DayAlone
<1>15. resolveTimeInterval(phrase, today) = I
  <2>1. resolveTimeInterval(phrase, today) = OnMonthDay(n, today)
    BY <1>1 DEF resolveTimeInterval
  <2>2. OnMonthDay(n, today) = singleDay(s)
    <3>1. here - 10000 = before
      BY <1>2, <1>3, <1>4, SMT DEF OnDay
    <3>2. here = 10000 * Year(today) + n
      BY <1>2, <1>3, SMT DEF OnDay
    <3>3. OnMonthDay(n, today) = singleDay(IF here <= today THEN here ELSE here - 10000)
      BY <3>2, SMT DEF OnMonthDay
    <3> QED
      BY <1>5, <3>1, <3>3, SMT
  <2> QED
    BY <1>13, <2>1, <2>2
<1>16. /\ StartsOf(phrase) = {d \in Days : MonthDay(d) = n}
       /\ PeriodFrom(phrase, s) = {d \in Days : d >= s /\ d = s}
  <2>1. StartsOf(phrase) = {d \in Days : MonthDay(d) = n}
    BY <1>1, SMT DEF StartsOf, MonthDay
  <2>2. PeriodFrom(phrase, s) = {d \in Days : d >= s /\ d = s}
    BY DEF PeriodFrom, SamePeriod
  <2> QED
    BY <2>1, <2>2
<1>17. \A d : Had(phrase, today, d) <=> d <= today
  BY DEF Had
<1>18. ASSUME NEW d \in StartsOf(phrase), d > s, Had(phrase, today, d) PROVE FALSE
  <2>1. d \in Days /\ MonthDay(d) = n /\ d > s /\ d <= today
    BY <1>16, <1>17, <1>18
  <2>2. PICK x \in Nat : d = OnDay(x, n) /\ d \in Nat /\ s \in Nat
    BY <2>1, OnItsDay
  <2>3. x > z
    <3>1. x < z => OnDay(x, n) < OnDay(z, n)
      BY <1>1, OnLaterDays
    <3>2. x # z /\ ~(x < z)
      BY <1>7, <2>1, <2>2, <3>1
    <3> QED
      BY <3>2
  <2>4. x <= y
    <3>1. FitsInAYear(k)
      BY <1>9
    <3>2. y < x => OnDay(y, k) < OnDay(x, n)
      BY <3>1, OnLaterDays
    <3> QED
      BY <1>9, <2>1, <2>2, <3>2
  <2>5. ~(here <= today) /\ x = y
    BY <1>2, <1>6, <2>3, <2>4
  <2> QED
    BY <1>3, <2>1, <2>2, <2>5
<1>19. s \in StartsOf(phrase) /\ Had(phrase, today, s)
  BY <1>8, <1>10, <1>16, <1>17
<1>20. DaysOf(I) = PeriodFrom(phrase, s)
  BY <1>14, <1>16
<1>21. phrase.says # "ago"
  OBVIOUS
<1> QED
  BY <1>14, <1>15, <1>18, <1>19, <1>20, <1>21, NoneLater

\* What a date that is known to a day, a month or a year stands for.
LEMMA DatedIs ==
  ASSUME NEW date, NEW precision, <<date, precision>> \in KnownDates
  PROVE  Proper(dated(date, precision)) /\ DaysOf(dated(date, precision)) = DaysMeant(date, precision)
<1>1. CASE precision = "day" /\ date \in Days /\ Year(date) \in Inner
  <2>1. PICK f \in Days : Rank[date] + 365 <= Rank[f]
    BY <1>1, YearAhead
  <2>2. Rank[date] < Rank[f]
    <3>1. Rank[date] \in Nat /\ Rank[f] \in Nat
      BY <1>1, RanksRise
    <3> QED
      BY <2>1, <3>1
  <2>3. Proper(singleDay(date)) /\ DaysOf(singleDay(date)) = {d \in Days : d >= date /\ d = date}
    BY <1>1, <2>2, DayAlone
  <2>4. dated(date, precision) = singleDay(date)
    BY <1>1 DEF dated
  <2>5. DaysMeant(date, precision) = {d \in Days : d \div 1 = date \div 1}
    BY <1>1 DEF DaysMeant
  <2>6. \A d \in Days : d \in Nat /\ date \in Nat /\ d \div 1 = d /\ date \div 1 = date
    <3>1. \A d \in Days : d \in Nat
      BY DayIs
    <3>2. \A n \in Nat : n \div 1 = n
      OBVIOUS
    <3> QED
      BY <1>1, <3>1, <3>2
  <2>7. {d \in Days : d >= date /\ d = date} = {d \in Days : d \div 1 = date \div 1}
    BY <2>6
  <2> QED
    BY <2>3, <2>4, <2>5, <2>7
<1>2. ASSUME NEW y \in Inner, NEW m \in 1..12, precision = "month", date = 10000 * y + 100 * m
      PROVE  Proper(dated(date, precision)) /\ DaysOf(dated(date, precision)) = DaysMeant(date, precision)
  <2>1. y \in Nat
    BY YearsAreConsecutive DEF Inner
  <2>2. date \in Nat /\ date % 100 = 0 /\ date \div 100 = 100 * y + m
    BY <1>2, <2>1, SMT
  <2>3. dated(date, precision) = wholeMonth(date - (date % 100) + 1, 0)
    BY <1>2, SMT DEF dated
  <2>4. date - (date % 100) + 1 = 10000 * y + 100 * m + 1
    BY <1>2, <2>1, <2>2, SMT
  <2>5. PICK t \in Nat : t = 12 * y + m - 1
    BY <2>1
  <2>6. /\ Proper(dated(date, precision))
        /\ DaysOf(dated(date, precision)) = {d \in Days : MonthNo(d) = t}
    <3>1. PICK I : I = MonthIn(y, m)
      OBVIOUS
    <3>2. Proper(I) /\ DaysOf(I) = {d \in Days : MonthNo(d) = t}
      BY <2>5, <3>1, MonthOfYear
    <3>3. dated(date, precision) = I
      BY <2>3, <2>4, <3>1, SMT DEF MonthIn
    <3> QED
      BY <3>2, <3>3
  <2>7. DaysMeant(date, precision) = {d \in Days : d \div 100 = date \div 100}
    BY <1>2, SMT DEF DaysMeant
  <2>8. ASSUME NEW d \in Days PROVE d \div 100 = date \div 100 <=> MonthNo(d) = t
    <3>1. PICK z \in Years, n \in 1..12, k \in 1..31 :
            z \in Nat /\ MonthNo(d) = 12 * z + n - 1 /\ d \div 100 = 100 * z + n
      BY MonthOfDay
    <3>2. 100 * z + n = 100 * y + m <=> 12 * z + n - 1 = t
      BY <2>1, <2>5, <3>1
    <3> QED
      BY <2>2, <3>1, <3>2
  <2> QED
    BY <2>6, <2>7, <2>8
<1>3. ASSUME NEW y \in Inner, precision = "year", date = 10000 * y
      PROVE  Proper(dated(date, precision)) /\ DaysOf(dated(date, precision)) = DaysMeant(date, precision)
  <2>1. y \in Nat
    BY YearsAreConsecutive DEF Inner
  <2>2. Year(date) = y
    BY <1>3, <2>1, SMT DEF Year
  <2>3. dated(date, precision) = wholeYear(y)
    BY <1>3, <2>2, SMT DEF dated
  <2>4. DaysMeant(date, precision) = {d \in Days : Year(d) = Year(date)}
    BY <1>3, SMT DEF DaysMeant, Year
  <2> QED
    BY <2>2, <2>3, <2>4, YearIs
<1>4. \/ precision = "day" /\ date \in Days /\ Year(date) \in Inner
      \/ \E y \in Inner, m \in 1..12 : precision = "month" /\ date = 10000 * y + 100 * m
      \/ \E y \in Inner : precision = "year" /\ date = 10000 * y
  <2>1. \/ <<date, precision>> \in {<<d, "day">> : d \in {e \in Days : Year(e) \in Inner}}
        \/ <<date, precision>> \in {<<10000 * y + 100 * m, "month">> : y \in Inner, m \in 1..12}
        \/ <<date, precision>> \in {<<10000 * y, "year">> : y \in Inner}
    BY SMT DEF KnownDates
  <2> QED
    BY <2>1, SMT
<1> QED
  BY <1>1, <1>2, <1>3, <1>4, SMT

\* Whatever a phrase says, it stands for the period it should.
LEMMA AgoIsLatest ==
  ASSUME NEW phrase, NEW today, Reaches(phrase, today), phrase.says = "ago"
  PROVE  Latest(phrase, today, resolveTimeInterval(phrase, today))
<1>1. today \in Days /\ Year(today) \in Inner /\ phrase.n \in Nat /\ CountsBack(phrase, today)
  BY DEF Reaches
<1>2. CASE phrase.unit = "day" /\ phrase.n <= Rank[today]
  BY <1>1, <1>2, AgoDay
<1>3. CASE phrase.unit = "week" /\ 7 * phrase.n + 6 <= Rank[today]
  BY <1>1, <1>3, AgoWeek
<1>4. CASE /\ phrase.unit = "month"
           /\ \E y \in Years : 12 * y + phrase.n <= 12 * Year(today) + Month(today) - 1
  BY <1>1, <1>4, AgoMonth
<1>5. CASE phrase.unit = "year" /\ Year(today) - phrase.n \in Years
  BY <1>1, <1>5, AgoYear
<1> QED
  BY <1>1, <1>2, <1>3, <1>4, <1>5 DEF CountsBack

LEMMA PeriodIsLatest ==
  ASSUME NEW phrase, NEW today, Reaches(phrase, today), phrase.says # "date"
  PROVE  Latest(phrase, today, resolveTimeInterval(phrase, today))
<1>1. CASE phrase.says = "ago"
  BY <1>1, AgoIsLatest
<1>2. CASE phrase.says # "ago"
  <2>1. /\ today \in Days /\ Year(today) \in Inner /\ Year(today) - 1 \in Years
        /\ phrase.says \in {"last", "in"} /\ Recurs(phrase, today)
    BY <1>2 DEF Reaches
  <2>2. CASE phrase.says = "last" /\ phrase.unit = "weekday" /\ phrase.n \in 0..6
    BY <2>1, <2>2, LastWeekday
  <2>3. CASE phrase.unit = "month" /\ phrase.n \in 1..12
    BY <2>1, <2>3, NamedMonth
  <2>4. CASE /\ phrase.says = "in" /\ phrase.unit = "monthDay"
             /\ \A y \in {Year(today) - 1, Year(today)} :
                  \E d \in Days : Year(d) = y /\ MonthDay(d) = phrase.n
    <3>1. PICK d \in Days : Year(d) = Year(today) /\ MonthDay(d) = phrase.n
      BY <2>4, Zenon
    <3>2. PICK e \in Days : Year(e) = Year(today) - 1 /\ MonthDay(e) = phrase.n
      BY <2>4, Zenon
    <3>3. phrase.n \in Nat /\ FitsInAYear(phrase.n) /\ OnDay(Year(today), phrase.n) \in Days
      BY <3>1, OnItsDay, Zenon
    <3>4. OnDay(Year(today) - 1, phrase.n) \in Days
      BY <3>2, OnItsDay, Zenon
    <3> QED
      BY <2>1, <2>4, <3>3, <3>4, NamedDay, Zenon
  <2>5. CASE phrase.says = "in" /\ phrase.unit = "weekend"
    BY <2>1, <2>5, InWeekend
  <2> QED
    BY <2>1, <2>2, <2>3, <2>4, <2>5 DEF Recurs
<1> QED
  BY <1>1, <1>2

LEMMA PeriodIsProper ==
  ASSUME NEW phrase, NEW today, Reaches(phrase, today)
  PROVE  Proper(resolveTimeInterval(phrase, today))
<1>1. CASE phrase.says # "date"
  BY <1>1, PeriodIsLatest DEF Latest
<1>2. CASE phrase.says = "date"
  <2>1. <<phrase.n, phrase.unit>> \in KnownDates
    BY <1>2, SMT DEF Reaches
  <2>2. resolveTimeInterval(phrase, today) = dated(phrase.n, phrase.unit)
    BY <1>2 DEF resolveTimeInterval
  <2> QED
    BY <2>1, <2>2, DatedIs
<1> QED
  BY <1>1, <1>2

\* Whatever day a question is asked on, a time phrase in it stands for the latest period of
\* its kind that has begun or, after "last", is over, or for the one so many before it.
THEOREM PeriodsAreTheLatest == AskSpec => []PhraseNamesTheLatest
<1>1. PhraseNamesTheLatest
  <2> SUFFICES ASSUME NEW question \in Questions
               PROVE  LET phrase == question[1]
                          today == question[2]
                          had(start) == IF phrase.says = "last" THEN \A d \in PeriodFrom(phrase, start) : d < today
                                        ELSE start <= today
                          interval == resolveTimeInterval(phrase, today)
                          later == {d \in StartsOf(phrase) : d > interval.start /\ had(d)}
                      IN  /\ interval.start \in StartsOf(phrase) /\ had(interval.start)
                          /\ DaysOf(interval) = PeriodFrom(phrase, interval.start)
                          /\ Cardinality(later) = IF phrase.says = "ago" THEN phrase.n ELSE 0
    BY DEF PhraseNamesTheLatest
  <2>1. PICK phrase : phrase = question[1]
    OBVIOUS
  <2>2. PICK today : today = question[2]
    OBVIOUS
  <2>3. Reaches(phrase, today) /\ phrase.says # "date"
    BY <2>1, <2>2, QuestionsAreInTheCalendar
  <2>4. Latest(phrase, today, resolveTimeInterval(phrase, today))
    BY <2>3, PeriodIsLatest
  <2> QED
    BY <2>1, <2>2, <2>4, Zenon DEF Latest, Later, Had
<1> QED
  BY <1>1, PTL

-----------------------------------------------------------------------------
(***************************************************************************)
(* Perspectives: what passes the cut is of the period that is asked about.  *)
(***************************************************************************)
LEMMA OverlapsShare ==
  ASSUME NEW I, NEW J, Proper(I), Proper(J), overlaps(I, J)
  PROVE  DaysOf(I) \cap DaysOf(J) # {}
<1>1. PICK a \in Days, b \in Days : a = I.start /\ b = I.end /\ a < b
  BY DEF Proper
<1>2. PICK c \in Days, d \in Days : c = J.start /\ d = J.end /\ c < d
  BY DEF Proper
<1>3. a < d /\ c < b
  BY <1>1, <1>2 DEF overlaps
<1>4. a \in Nat /\ b \in Nat /\ c \in Nat /\ d \in Nat
  BY DayIs
<1>5. CASE a <= c
  <2>1. c \in DaysOf(I) /\ c \in DaysOf(J)
    BY <1>1, <1>2, <1>3, <1>4, <1>5 DEF DaysOf
  <2> QED
    BY <2>1
<1>6. CASE c <= a
  <2>1. a \in DaysOf(I) /\ a \in DaysOf(J)
    BY <1>1, <1>2, <1>3, <1>4, <1>6 DEF DaysOf
  <2> QED
    BY <2>1
<1> QED
  BY <1>4, <1>5, <1>6

\* A session within the slack of a period is at most seven days from a day of it.
LEMMA SlackIsNear ==
  ASSUME NEW I, Proper(I), NEW s \in Days,
         addDays(I.start, -7) <= s, s < addDays(I.end, 7)
  PROVE  \E d \in DaysOf(I) : Rank[s] <= Rank[d] + 7 /\ Rank[d] <= Rank[s] + 7
<1>1. PICK a \in Days, b \in Days : a = I.start /\ b = I.end /\ a < b
  BY DEF Proper
<1>2. /\ a \in Nat /\ b \in Nat /\ s \in Nat /\ Rank[a] \in Nat /\ Rank[b] \in Nat /\ Rank[s] \in Nat
      /\ Rank[a] < Rank[b]
      /\ (s < a <=> Rank[s] < Rank[a]) /\ (s < b <=> Rank[s] < Rank[b])
  BY <1>1, RanksRise
<1>3. DaysOf(I) = {d \in Days : a <= d /\ d < b}
  BY <1>1 DEF DaysOf
<1>4. CASE s < a
  <2>1. a \in DaysOf(I)
    BY <1>1, <1>2, <1>3
  <2>2. Rank[a] <= Rank[s] + 7
    <3>1. CASE Rank[a] < 7
      BY <1>2, <3>1
    <3>2. CASE Rank[a] >= 7
      <4>1. PICK j \in Int : j = -7
        OBVIOUS
      <4>2. 0 <= Rank[a] + j /\ Rank[a] + j <= Rank[a]
        BY <1>2, <3>2, <4>1
      <4>3. PICK e \in Days : e = addDays(a, j) /\ Rank[e] = Rank[a] + j
        BY <4>2, DaysAdded
      <4>4. e <= s
        BY <1>1, <4>1, <4>3
      <4>5. Rank[e] <= Rank[s]
        <5>1. e \in Nat /\ Rank[e] \in Nat /\ (s < e <=> Rank[s] < Rank[e])
          BY RanksRise
        <5> QED
          BY <1>2, <4>4, <5>1
      <4> QED
        BY <1>2, <4>1, <4>3, <4>5
    <3> QED
      BY <1>2, <3>1, <3>2
  <2>3. Rank[s] <= Rank[a] + 7
    BY <1>2, <1>4
  <2> QED
    BY <2>1, <2>2, <2>3
<1>5. CASE a <= s /\ s < b
  <2>1. s \in DaysOf(I)
    BY <1>3, <1>5
  <2>2. Rank[s] <= Rank[s] + 7
    BY <1>2
  <2> QED
    BY <2>1, <2>2
<1>6. CASE b <= s
  <2>1. Rank[b] - 1 \in Int /\ 0 <= Rank[b] - 1 /\ Rank[b] - 1 <= Rank[b]
    BY <1>2
  <2>2. PICK l \in Days : Rank[l] = Rank[b] - 1
    BY <2>1, RankTaken
  <2>3. l \in DaysOf(I)
    <3>1. l \in Nat /\ (l < a <=> Rank[l] < Rank[a]) /\ (l < b <=> Rank[l] < Rank[b])
      BY RanksRise
    <3> QED
      BY <1>2, <1>3, <2>2, <3>1
  <2>4. Rank[s] < Rank[b] + 7
    <3>1. ASSUME Rank[b] + 7 <= Rank[s] PROVE FALSE
      <4>1. 7 \in Int /\ 0 <= Rank[b] + 7
        BY <1>2
      <4>2. PICK e \in Days : e = addDays(b, 7) /\ Rank[e] = Rank[b] + 7
        BY <3>1, <4>1, DaysAdded
      <4>3. s < e
        BY <1>1, <4>2
      <4>4. Rank[s] < Rank[e]
        BY <4>3, RanksRise
      <4> QED
        BY <1>2, <3>1, <4>2, <4>4
    <3> QED
      BY <1>2, <3>1
  <2>5. Rank[s] <= Rank[l] + 7 /\ Rank[l] <= Rank[s] + 7
    BY <1>2, <1>6, <2>2, <2>4
  <2> QED
    BY <2>3, <2>5
<1> QED
  BY <1>2, <1>4, <1>5, <1>6

\* What passes the cut of a question that names a period.
LEMMA CutIsOfThePeriod ==
  ASSUME NEW c \in InPerspective, Asked.interval # NoInterval
  PROVE  /\ Perspective # "valid-time" => Accepted[c] \in AskedDays
         /\ Perspective # "recorded-time" =>
              IF When[c] = 0
              THEN \E d \in AskedDays : /\ Rank[SessionDate[c]] <= Rank[d] + 7
                                        /\ Rank[d] <= Rank[SessionDate[c]] + 7
              ELSE DaysMeant(When[c], Dated(c).tPrec) \cap AskedDays # {}
<1>1. c \in Claims /\ inPerspective(Dated(c), Asked)
  BY DEF InPerspective
<1>2. PICK I : I = Asked.interval
  OBVIOUS
<1>3. Proper(I) /\ AskedDays = DaysOf(I)
  <2>1. QuestionDate > 0 /\ I = resolveTimeInterval(Phrase, QuestionDate)
    BY <1>2 DEF Asked
  <2>2. Reaches(Phrase, QuestionDate)
    BY QuestionsAreInTheCalendar
  <2> QED
    BY <1>2, <2>1, <2>2, PeriodIsProper DEF AskedDays
<1>4. /\ Dated(c).tEvent = When[c] /\ Dated(c).accepted = Accepted[c]
      /\ Dated(c).sessionDate = SessionDate[c]
      /\ Asked.perspective = Perspective /\ Asked.interval = I
  BY <1>2 DEF Dated, Asked
<1>5. ASSUME Perspective # "valid-time" PROVE Accepted[c] \in AskedDays
  <2>1. recordedInCut(Dated(c), Asked)
    BY <1>1, <1>4, <1>5, PerspectiveIsNamed DEF inPerspective
  <2>2. Accepted[c] # 0 /\ Within(Accepted[c], I)
    BY <1>2, <1>4, <2>1 DEF recordedInCut
  <2>3. Accepted[c] \in Days
    BY <1>1, <2>2, ClaimsAreInTheCalendar
  <2> QED
    BY <1>3, <2>2, <2>3 DEF Within, DaysOf
<1>6. ASSUME Perspective # "recorded-time"
      PROVE  inScope(Dated(c), I)
  BY <1>1, <1>2, <1>4, <1>6, PerspectiveIsNamed DEF inPerspective, heldInCut
<1>7. ASSUME Perspective # "recorded-time", When[c] = 0
      PROVE  \E d \in AskedDays : /\ Rank[SessionDate[c]] <= Rank[d] + 7
                                  /\ Rank[d] <= Rank[SessionDate[c]] + 7
  <2>1. Within(SessionDate[c], [start |-> addDays(I.start, -7), end |-> addDays(I.end, 7)])
    BY <1>4, <1>6, <1>7 DEF inScope, UNDATED_SESSION_SLACK_DAYS
  <2>2. addDays(I.start, -7) <= SessionDate[c] /\ SessionDate[c] < addDays(I.end, 7)
    BY <2>1 DEF Within
  <2>3. SessionDate[c] \in Days
    BY <1>1, ClaimsAreInTheCalendar
  <2> QED
    BY <1>3, <2>2, <2>3, SlackIsNear
<1>8. ASSUME Perspective # "recorded-time", When[c] # 0
      PROVE  DaysMeant(When[c], Dated(c).tPrec) \cap AskedDays # {}
  <2>1. PICK J : J = dated(When[c], Dated(c).tPrec)
    OBVIOUS
  <2>2. overlaps(J, I)
    <3>1. overlaps(claimSpan(Dated(c)), I)
      BY <1>4, <1>6, <1>8 DEF inScope
    <3>2. claimSpan(Dated(c)) = J
      BY <1>4, <1>8, <2>1 DEF claimSpan
    <3> QED
      BY <3>1, <3>2
  <2>3. <<When[c], Dated(c).tPrec>> \in KnownDates
    BY <1>1, <1>8, ClaimsAreInTheCalendar
  <2>4. Proper(J) /\ DaysOf(J) = DaysMeant(When[c], Dated(c).tPrec)
    BY <2>1, <2>3, DatedIs
  <2> QED
    BY <1>3, <2>2, <2>4, OverlapsShare
<1> QED
  BY <1>5, <1>7, <1>8

\* Every candidate and every piece of evidence, a slot mate too, was recorded in the period
\* the question asks about and may be about a day of it, for any snapshots, limits, question,
\* calendar and perspective; what says no day was told within a week of it.
THEOREM PerspectiveHolds == AskSpec => []PerspectiveIsKept
<1>1. AskInv => PerspectiveIsKept
  <2> SUFFICES ASSUME AskInv, Asked.interval # NoInterval, NEW c \in DOMAIN candidates \cup Evidence
               PROVE  /\ Perspective # "valid-time" => Accepted[c] \in AskedDays
                      /\ Perspective # "recorded-time" =>
                           IF When[c] = 0
                           THEN \E d \in AskedDays : /\ Rank[SessionDate[c]] <= Rank[d] + 7
                                                     /\ Rank[d] <= Rank[SessionDate[c]] + 7
                           ELSE DaysMeant(When[c], Dated(c).tPrec) \cap AskedDays # {}
    BY Zenon DEF PerspectiveIsKept
  <2>1. c \in InPerspective
    BY DEF AskInv, OneSnapshot, Evidence
  <2> QED
    BY <2>1, CutIsOfThePeriod
<1> QED
  BY <1>1, InvariantHolds, PTL
=============================================================================
