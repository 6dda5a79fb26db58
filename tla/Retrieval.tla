------------------------------ MODULE Retrieval ------------------------------
(***************************************************************************)
(* What one pass over one snapshot computes, as operators (SnapshotArms.ts, *)
(* Arms.ts, Plan.ts, Scoring.ts, Select.ts, Pack.ts): what an arm reaches,  *)
(* the union of the arms, which candidates can carry a verdict, which the   *)
(* selection keeps, and which excerpts fit the reader's budget.             *)
(*                                                                         *)
(* Claims are numbers; where the code breaks a tie by idf mass, recency or  *)
(* key, the lower number comes first.  Hits map each claim an arm reached   *)
(* to the search terms that reached it; a claim named by its slot has none. *)
(* The probes of a question are one arm here, and so are its sub-questions. *)
(***************************************************************************)
EXTENDS TimeScope, Sequences, FiniteSets, FiniteSetsExt, Functions

CONSTANTS
  Claims, Terms, Slots,
  Tokens,           \* the index terms a walk reaches a claim from
  Slot,             \* the slot a claim fills
  Session,          \* the ordinal of a claim's session
  SessionDate,      \* the date of that session
  Accepted,         \* the date its source was accepted
  Event,            \* the date a claim is about, as much of it as is known
  Turn,             \* the excerpt a claim is quoted from
  Chars,            \* the length of an excerpt
  AsOf,             \* the question's as-of session
  QuestionDate,     \* the day it is asked on, 0 when it is not said
  Phrase,           \* its time phrase
  Perspective,      \* the time axis it is read on
  NoSlot,           \* a claim that fills none
  Caps,             \* limits: arm, union, seeds, topK, perSlot, mates, turns, top
  Budget            \* characters the reader is shown

ASSUME ClaimsAreRanked ==
  /\ Claims \subseteq Nat /\ IsFiniteSet(Claims) /\ IsFiniteSet(Terms)
  /\ Tokens \in [Claims -> SUBSET Terms] /\ Slot \in [Claims -> Slots \cup {NoSlot}]
  /\ Session \in [Claims -> Nat] /\ SessionDate \in [Claims -> Nat]
  /\ Accepted \in [Claims -> Nat] /\ Event \in [Claims -> Seq(Nat)]
  /\ Chars \in [Range(Turn) -> Nat] /\ DOMAIN Turn = Claims

ASSUME PerspectiveIsNamed == Perspective \in {"recorded-time", "valid-time", "bitemporal"}

ASSUME LimitsAreCounts ==
  /\ Caps \in [{"arm", "union", "seeds", "topK", "perSlot", "mates", "turns", "top"} -> Nat]
  /\ Caps.arm > 0
  /\ AsOf \in Nat /\ QuestionDate \in Nat /\ Budget \in Nat

Priority == [probe |-> 1, subQuestion |-> 2, convergence |-> 3, discovery |-> 4, slotMate |-> 5]
Arms == DOMAIN Priority
Reaching == {"probe", "subQuestion", "convergence"}
Walking == {"convergence", "subQuestion", "discovery"}

\* The first n of S in the order Before.
Best(n, S, Before(_, _)) == {c \in S : Cardinality({d \in S : Before(d, c)}) < n}

-----------------------------------------------------------------------------
\* What the arms read.
NoHits == [c \in {} |-> {}]

Walk(held, terms) == [c \in {d \in held : Tokens[d] \cap terms # {}} |-> Tokens[c] \cap terms]

Named(held, slots) == [c \in {d \in held : Slot[d] \in slots} |-> {}]

When == [c \in Claims |-> parseEventDate(Event[c]).tEvent]

Dated(c) ==
  [tEvent |-> When[c], tPrec |-> parseEventDate(Event[c]).tPrec, accepted |-> Accepted[c],
   sessionOrd |-> Session[c], sessionDate |-> SessionDate[c]]

\* An undated question has no interval.
Asked ==
  [perspective |-> Perspective, questionDate |-> QuestionDate, asOf |-> AsOf,
   interval |-> IF QuestionDate > 0 THEN resolveTimeInterval(Phrase, QuestionDate) ELSE NoInterval]

InPerspective == {c \in Claims : inPerspective(Dated(c), Asked)}

InCut(c) == c \in InPerspective

Cut(hits) == Restrict(hits, {c \in DOMAIN hits : InCut(c)})

\* Slot mates are grouped newest first and capped by slot and in all, before any cut.
Mates(named, reached) ==
  LET newer(c, d) == Session[c] > Session[d] \/ (Session[c] = Session[d] /\ c < d)
      eligible == DOMAIN named \ reached
      ofSlot(c) == {d \in eligible : Slot[d] = Slot[c]}
      grouped == {c \in eligible : c \in Best(Caps.perSlot, ofSlot(c), newer)}
  IN  Best(Caps.mates, grouped, newer)

-----------------------------------------------------------------------------
\* The union of arms: a function from the arms' labels to their hits.
Convergence(hits, c) == Cardinality(hits[c])

Visible(hits) == {c \in DOMAIN hits : Session[c] <= AsOf}

\* An arm's share of the union: the as-of cut comes before the cap of a walking arm.
ArmShare(label, hits) ==
  LET visible == Visible(hits)
      converges(c, d) == \/ Convergence(hits, c) > Convergence(hits, d)
                         \/ Convergence(hits, c) = Convergence(hits, d) /\ c < d
  IN  IF label \in Walking THEN Best(Caps.arm, visible, converges) ELSE visible

\* A candidate keeps the best of each arm: the first kind that reached it and the most terms.
Merged(reach) ==
  LET share == [a \in DOMAIN reach |-> ArmShare(a, reach[a])]
      arms(c) == {a \in DOMAIN reach : c \in share[a]}
  IN  [c \in UNION Range(share) |->
        [kind |-> Min({Priority[a] : a \in arms(c)}),
         convergence |-> Max({Convergence(reach[a], c) : a \in arms(c)})]]

Ordered(candidates, c, d) ==
  LET more == candidates[c].convergence
      less == candidates[d].convergence
  IN  more > less \/ (more = less /\ c < d)

Prefers(candidates, c, d) ==
  \/ candidates[c].kind < candidates[d].kind
  \/ candidates[c].kind = candidates[d].kind /\ Ordered(candidates, c, d)

\* The first n candidates in the union's order.
Top(n, candidates) ==
  LET before(c, d) == Prefers(candidates, c, d) IN Best(n, DOMAIN candidates, before)

Union(reach) == LET all == Merged(reach) IN Restrict(all, Top(Caps.union, all))

\* The terms that reached a claim, over the arms that start from the question.
Resolved(reach) ==
  UNION {UNION {reach[a][c] : c \in DOMAIN reach[a]} : a \in DOMAIN reach \cap Reaching}

\* Fault: the slot mates, which were fetched uncut, stay in.
Unscoped(candidates) == candidates

\* The candidates within the perspective; the rest has had its place under the caps.
Scoped(candidates) == Restrict(candidates, {c \in DOMAIN candidates : InCut(c)})

\* Two anchors, or all there were.
Threshold(reach) ==
  LET n == Cardinality(Resolved(reach)) IN IF n < 1 THEN 1 ELSE IF n < 2 THEN n ELSE 2

\* The candidates that can carry a verdict.
Grounded(reach) ==
  LET candidates == Scoped(Union(reach))
      threshold == Threshold(reach)
  IN  {c \in DOMAIN candidates : \/ candidates[c].kind <= Priority.subQuestion
                                 \/ candidates[c].convergence >= threshold}

\* Terms the question did not supply, from the claims found first.
DiscoverySeeds(reach, terms) == (UNION {Tokens[c] : c \in Top(Caps.seeds, Union(reach))}) \ terms

-----------------------------------------------------------------------------
IsProbe(candidates, c) == candidates[c].kind = Priority.probe

\* The selector chose rows.  Probe hits and the most converged are kept whatever it says;
\* another is kept when its turn already is, or is among the first to fit under the
\* limit of turns.
EnforceSelection(candidates, chosen) ==
  LET ordered(c, d) == Ordered(candidates, c, d)
      turns(S) == {Turn[c] : c \in S}
      converged == {c \in DOMAIN candidates : candidates[c].convergence > 0}
      sure == {c \in DOMAIN candidates : IsProbe(candidates, c)}
                \cup Best(Caps.top, converged, ordered)
      more == chosen \ sure
      opening == {c \in more : /\ Turn[c] \notin turns(sure)
                               /\ \A d \in more : Turn[d] = Turn[c] => ~ordered(d, c)}
      room == Caps.turns - Cardinality(turns(sure))
      opened == Best(room, opening, ordered)
  IN  sure \cup {c \in more : Turn[c] \in turns(sure \cup opened)}

\* The selector failed or kept nothing: the first rows in order.
Fallback(candidates) ==
  LET ordered(c, d) == Ordered(candidates, c, d)
  IN  Best(Caps.turns, DOMAIN candidates, ordered)

ApplySelection(candidates, kept) == IF kept = {} THEN Fallback(candidates) ELSE kept

-----------------------------------------------------------------------------
\* The order evidence is shown in: what is current first, then by the time of the event,
\* unknown times last.
Shown(superseded, c, d) ==
  LET current(e) == e \notin superseded
      unknown(e) == When[e] = 0
      known == ~unknown(c) /\ ~unknown(d)
      tied == (unknown(c) /\ unknown(d)) \/ When[c] = When[d]
  IN  IF current(c) # current(d) THEN current(c)
      ELSE IF ~tied THEN (IF known THEN When[c] < When[d] ELSE unknown(d))
      ELSE IF Session[c] # Session[d] THEN Session[c] < Session[d]
      ELSE c < d

\* Claims of one turn share an excerpt, which goes by the first of them.
Dedupe(superseded, evidence) ==
  {c \in evidence : \A d \in evidence : Turn[d] = Turn[c] => ~Shown(superseded, d, c)}

\* Unprotected excerpts are dropped from the tail until the rest fits.
ApplyBudget(superseded, spans, protected) ==
  LET sure == spans \cap protected
      shown(c, d) == Shown(superseded, c, d)
      keep(n) == sure \cup Best(n, spans \ sure, shown)
      size(S) == MapThenSumSet(LAMBDA c : Chars[Turn[c]], S)
      fits == {n \in 0..Cardinality(spans \ sure) : size(keep(n)) <= Budget}
  IN  IF fits = {} THEN sure ELSE keep(Max(fits))
=============================================================================
