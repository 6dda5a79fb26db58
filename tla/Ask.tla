--------------------------------- MODULE Ask ---------------------------------
(***************************************************************************)
(* One question put to the memory (Answer.ts, Retrieve.ts, SnapshotArms.ts, *)
(* Reader.ts, Sufficiency.ts): a pass binds the active snapshot, checks its *)
(* root, lets arms walk its graph, plans, selects and reads.  A reading     *)
(* judged partial leads to one more pass, which binds again.  Meanwhile the *)
(* ingest side publishes snapshots.                                        *)
(*                                                                         *)
(* A claim as a query sees it is the pair of a snapshot and a claim.  A     *)
(* read without a bookmark sees the latest committed graph, and a published *)
(* snapshot is whole in the graph (SourceCommit).  Understanding a question *)
(* is a cached model call and the same in both passes; the selector, the    *)
(* reader and the judge answer anything.                                   *)
(***************************************************************************)
EXTENDS Retrieval, Calendar

CONSTANTS
  Holds,            \* the claims of each published snapshot, in order
  Superseded,       \* the claims superseded in each
  Question,         \* what was understood: terms, subTerms, probes (slots)
  Missing,          \* the term sets the judge may ask a second pass for
  AbstainTiers,     \* judgements that refuse an answer: none in this release
  Questions         \* pairs of a time phrase and the day it is said on

Snapshots == DOMAIN Holds
Tiers == {"EXACT", "INFERRABLE", "PARTIAL"}

ASSUME SnapshotsHoldClaims ==
  /\ Holds \in Seq(SUBSET Claims)
  /\ Superseded \in [Snapshots -> SUBSET Claims]

ASSUME QuestionIsUnderstood ==
  /\ Question \in [terms : SUBSET Terms, subTerms : SUBSET Terms, probes : SUBSET Slots]
  /\ Missing \subseteq SUBSET Terms /\ AbstainTiers \subseteq Tiers

\* The years whose next one is in the calendar too, and the dates in them that are known
\* to a day, a month or a year.
Inner == {y \in Years : y + 1 \in Years}

KnownDates ==
  {<<d, "day">> : d \in {e \in Days : Year(e) \in Inner}}
    \cup {<<10000 * y + 100 * m, "month">> : y \in Inner, m \in 1..12}
    \cup {<<10000 * y, "year">> : y \in Inner}

MonthDay(date) == date % 10000

\* The calendar has the days a phrase may stand for.
CountsBack(phrase, today) ==
  \/ phrase.unit = "day" /\ phrase.n <= Rank[today]
  \/ phrase.unit = "week" /\ 7 * phrase.n + 6 <= Rank[today]
  \/ /\ phrase.unit = "month"
     /\ \E y \in Years : 12 * y + phrase.n <= 12 * Year(today) + Month(today) - 1
  \/ phrase.unit = "year" /\ Year(today) - phrase.n \in Years

Recurs(phrase, today) ==
  \/ phrase.says = "last" /\ phrase.unit = "weekday" /\ phrase.n \in 0..6
  \/ phrase.unit = "month" /\ phrase.n \in 1..12
  \/ /\ phrase.says = "in" /\ phrase.unit = "monthDay"
     /\ \A y \in {Year(today) - 1, Year(today)} :
          \E d \in Days : Year(d) = y /\ MonthDay(d) = phrase.n
  \/ phrase.says = "in" /\ phrase.unit = "weekend"

Reaches(phrase, today) ==
  /\ today \in Days /\ Year(today) \in Inner
  /\ \/ phrase.says = "ago" /\ phrase.n \in Nat /\ CountsBack(phrase, today)
     \/ phrase.says \in {"last", "in"} /\ Year(today) - 1 \in Years /\ Recurs(phrase, today)
     \/ phrase.says = "date" /\ <<phrase.n, phrase.unit>> \in KnownDates

ASSUME CalendarBegins ==
  \A y \in Years : y - 1 \notin Years => getUTCDay(10000 * y + 101) = FirstWeekday

ASSUME QuestionsAreInTheCalendar ==
  /\ \A question \in Questions : question[1].says # "date" /\ Reaches(question[1], question[2])
  /\ Asked.interval # NoInterval => Reaches(Phrase, QuestionDate)

\* What the model gives as an event is a date, as a rule: nothing checks that it is one.
ASSUME ClaimsAreInTheCalendar ==
  \A c \in Claims :
    /\ SessionDate[c] \in Days /\ Accepted[c] \in Days \cup {0}
    /\ When[c] # 0 => <<When[c], Dated(c).tPrec>> \in KnownDates

VARIABLES
  published,        \* the active snapshot, 0 before the first
  at,               \* where the request is
  pass,             \* 1 or 2
  judges,           \* profile and route let the sufficiency check run
  extra,            \* the terms the second pass adds
  bound,            \* the snapshot of this pass
  reach,            \* the hits of each arm finished in this pass
  degraded,         \* arms of this pass cut off by a limit, or capped slot mates
  candidates,       \* what this pass's arms came to, once planned
  shown,            \* what this pass retrieved and read
  first,            \* what the first pass would return, once judged
  reply             \* what the client gets

searched == <<reach, degraded, candidates>>
request == <<at, pass, judges, extra, bound, searched, shown, first, reply>>
askVars == <<published, request>>

Nothing == [snapshot |-> 0, evidence |-> {}, spans |-> {}, notInMemory |-> FALSE,
            verdict |-> "none", reason |-> "none"]

NoArms == [a \in {} |-> NoHits]

AskInit ==
  /\ published = 0
  /\ at = "idle" /\ pass = 1 /\ judges \in BOOLEAN /\ extra = {}
  /\ bound = 0 /\ reach = NoArms /\ degraded = {} /\ candidates = NoHits
  /\ shown = Nothing /\ first = Nothing /\ reply = Nothing

-----------------------------------------------------------------------------
\* Another session is committed: the pointer moves on.
Publish ==
  /\ published < Len(Holds)
  /\ published' = published + 1
  /\ UNCHANGED request

Call ==
  /\ at = "idle"
  /\ at' = "bind"
  /\ UNCHANGED <<published, pass, judges, extra, bound, searched, shown, first, reply>>

Finish(r) == reply' = r /\ at' = "done"

\* A typed error reaches the client, which is no verdict.
Throw == Finish([Nothing EXCEPT !.verdict = "error"])

\* resolveQueryContext, once per pass.
Bind ==
  /\ at = "bind"
  /\ IF published = 0
     THEN Throw /\ UNCHANGED bound
     ELSE at' = "gather" /\ bound' = published /\ UNCHANGED reply
  /\ reach' = NoArms /\ degraded' = {} /\ candidates' = NoHits
  /\ UNCHANGED <<published, pass, judges, extra, shown, first>>

SearchTerms == Question.terms \cup extra

Finished(S) == S \subseteq DOMAIN reach

\* Discovery and slot mates start from what the arms before them reached.
MayRun(a) ==
  /\ at = "gather" /\ a \notin DOMAIN reach
  /\ a \notin Reaching => Finished(Reaching)
  /\ a = "slotMate" => Finished({"discovery"})

Report(a, hits, limited) ==
  /\ reach' = [b \in DOMAIN reach \cup {a} |-> IF b = a THEN hits ELSE reach[b]]
  /\ degraded' = IF limited THEN degraded \cup {a} ELSE degraded
  /\ UNCHANGED <<published, at, pass, judges, extra, bound, candidates, shown, first, reply>>

Held == Holds[bound]

\* Every arm but the slot mates is cut to the question's perspective.
RunArm(a) ==
  /\ MayRun(a) /\ a # "slotMate"
  /\ Report(a, Cut(CASE a = "probe" -> Named(Held, Question.probes)
                     [] a = "subQuestion" -> Walk(Held, Question.subTerms)
                     [] a = "convergence" -> Walk(Held, SearchTerms)
                     [] a = "discovery" -> Walk(Held, DiscoverySeeds(reach, SearchTerms))),
            FALSE)

\* The claims that share a slot with the best candidates.
Expansion ==
  Named(Held, {Slot[c] : c \in Top(Caps.topK, Union(reach))} \ {NoSlot})

RunSlotMates ==
  /\ MayRun("slotMate")
  /\ LET found == Expansion
         reached == DOMAIN Union(reach)
         mates == Mates(found, reached)
     IN  Report("slotMate", Restrict(found, mates), DOMAIN found \ reached # mates)

\* Fault: an arm cut off by its ceiling is taken for one that found nothing.
AsEmpty == FALSE

IsReported == TRUE

\* Every arm but convergence may meet a limit and is then empty, and reported so.
LimitArm(a) == MayRun(a) /\ a # "convergence" /\ Report(a, NoHits, IsReported)

\* The root does not verify, convergence meets its limit, or a read fails.
FailGather ==
  /\ at = "gather"
  /\ Throw
  /\ UNCHANGED <<published, pass, judges, extra, bound, searched, shown, first>>

Complete == degraded = {} /\ DOMAIN Union(reach) = DOMAIN Merged(reach)

EmptyVerdict ==
  IF Complete THEN [verdict |-> "ABSENT", reason |-> "structural"]
  ELSE [verdict |-> "INCOMPLETE", reason |-> "INCOMPLETE_MEMORY"]

Unread == [Nothing EXCEPT !.snapshot = bound, !.verdict = EmptyVerdict.verdict,
                          !.reason = EmptyVerdict.reason]

\* Fault: a second pass that finds nothing is what the client gets.
KeepsSecond == Unread

\* The first answer stands when the second search grounds nothing.
AfterEmptyHunt == IF pass = 1 THEN Unread ELSE first

\* All arms are in: they are planned, and nothing more is done when nothing is grounded.
Plan ==
  /\ at = "gather" /\ Finished(Arms)
  /\ candidates' = Scoped(Union(reach))
  /\ IF Grounded(reach) = {}
     THEN Finish(AfterEmptyHunt)
     ELSE at' = "select" /\ UNCHANGED reply
  /\ UNCHANGED <<published, pass, judges, extra, bound, reach, degraded, shown, first>>

Evidence == {e[2] : e \in shown.evidence}

Keep(kept) ==
  /\ shown' = [Nothing EXCEPT !.snapshot = bound,
                              !.evidence = {bound} \X ApplySelection(candidates, kept)]
  /\ at' = "read"
  /\ UNCHANGED <<published, pass, judges, extra, bound, searched, first, reply>>

\* The selector chose any of the candidates, or failed.
Select ==
  /\ at = "select"
  /\ \/ \E chosen \in SUBSET DOMAIN candidates : Keep(EnforceSelection(candidates, chosen))
     \/ Keep(Fallback(candidates))

\* Fault: hydration follows the pointer.
ReadsThrough == published

HydratesThrough == bound

Packed ==
  LET old == Superseded[bound] IN
  ApplyBudget(old, Dedupe(old, Evidence), {c \in Evidence : IsProbe(candidates, c)})

\* The reader hydrates through the snapshot of the pass, packs, and answers or
\* says the memory does not hold it, which it says of an empty pack.
Read(silent) ==
  /\ at = "read"
  /\ LET pack == Packed IN
     /\ pack = {} => silent
     /\ shown' = [shown EXCEPT !.spans = {HydratesThrough} \X pack,
                               !.notInMemory = silent, !.verdict = "ANSWER"]
     /\ IF pass = 2 \/ (judges /\ pack # {})
        THEN at' = "judge" /\ UNCHANGED reply
        ELSE Finish(shown')
  /\ UNCHANGED <<published, pass, judges, extra, bound, searched, first>>

FailRead ==
  /\ at = "read"
  /\ Throw
  /\ UNCHANGED <<published, pass, judges, extra, bound, searched, shown, first>>

\* Fault: every partial reading is refined.
RefinesAgain == TRUE

MayRefine == pass = 1

\* The judge finds a premise that a current excerpt contradicts.
Contradict ==
  /\ at = "judge"
  /\ \E s \in shown.spans : s[2] \notin Superseded[bound]
  /\ Finish([shown EXCEPT !.verdict = "ABSENT", !.reason = "CONTRADICTED_PREMISE"])
  /\ UNCHANGED <<published, pass, judges, extra, bound, searched, shown, first>>

\* A partial reading and terms to look for: search once more.
Refine(terms) ==
  /\ at = "judge" /\ MayRefine /\ terms # {}
  /\ at' = "bind" /\ pass' = 2 /\ extra' = terms /\ first' = shown
  /\ UNCHANGED <<published, judges, bound, searched, shown, reply>>

\* The reading stands, unless a second one is of a tier that refuses an answer.
Conclude(tier) ==
  /\ at = "judge"
  /\ Finish(IF pass = 2 /\ tier \in AbstainTiers
            THEN [shown EXCEPT !.verdict = "ABSENT", !.reason = "INSUFFICIENT_EVIDENCE"]
            ELSE shown)
  /\ UNCHANGED <<published, pass, judges, extra, bound, searched, shown, first>>

RequestStep ==
  \/ Bind
  \/ FailGather
  \/ \E a \in Arms : LimitArm(a) \/ RunArm(a)
  \/ RunSlotMates
  \/ Plan
  \/ Select
  \/ FailRead
  \/ \E silent \in BOOLEAN : Read(silent)
  \/ \E tier \in Tiers : Conclude(tier)
  \/ Contradict
  \/ \E terms \in Missing : Refine(terms)

AskNext == Publish \/ Call \/ RequestStep

\* Every read has a ceiling and every model call ends: a request in progress goes on.
AskSpec == AskInit /\ [][AskNext]_askVars /\ WF_askVars(RequestStep)
-----------------------------------------------------------------------------
Results ==
  [snapshot : {0} \cup Snapshots, evidence : SUBSET (Snapshots \X Claims),
   spans : SUBSET (Snapshots \X Claims), notInMemory : BOOLEAN,
   verdict : {"none", "ANSWER", "ABSENT", "INCOMPLETE", "error"},
   reason : {"none", "structural", "INCOMPLETE_MEMORY", "CONTRADICTED_PREMISE",
             "INSUFFICIENT_EVIDENCE"}]

\* Places, hits and results are well formed.
AskTypeOK ==
  /\ published \in 0..Len(Holds) /\ bound \in 0..published
  /\ at \in {"idle", "bind", "gather", "select", "read", "judge", "done"}
  /\ pass \in {1, 2} /\ judges \in BOOLEAN /\ extra \subseteq Terms
  /\ DOMAIN reach \subseteq Arms /\ degraded \subseteq DOMAIN reach
  /\ \A a \in DOMAIN reach :
       /\ DOMAIN reach[a] \subseteq Holds[bound]
       /\ \A c \in DOMAIN reach[a] : reach[a][c] \subseteq Tokens[c]
  /\ candidates \in [DOMAIN candidates -> [kind : 1..5, convergence : Nat]]
  /\ shown \in Results /\ first \in Results /\ reply \in Results

\* However the pointer moves, the evidence, the excerpts and the receipt of a reply are
\* of one snapshot.
AnswersFromOneSnapshot ==
  LET one == {reply.snapshot} \X Claims IN
  reply.evidence \cup reply.spans \subseteq one

\* An absence concluded from an empty search is one, although arms are capped: searched
\* without limits, no claim of the snapshot is named by a probe, reached by a
\* sub-question, or converged on by enough terms.
NoFalseAbsence ==
  LET held == {c \in Holds[reply.snapshot] : InCut(c)}
      ideal == [a \in Reaching |->
                  CASE a = "probe" -> Named(held, Question.probes)
                    [] a = "subQuestion" -> Walk(held, Question.subTerms)
                    [] a = "convergence" -> Walk(held, Question.terms)]
  IN  reply.reason = "structural" =>
        /\ DOMAIN ideal["probe"] = {} /\ DOMAIN ideal["subQuestion"] = {}
        /\ \A c \in DOMAIN ideal["convergence"] :
             Convergence(ideal["convergence"], c) < Threshold(ideal)

\* Nothing recorded after the as-of session is a candidate or is shown, nor is what was
\* accepted after the day of the question when recorded time counts.
NothingFromLater ==
  \A c \in DOMAIN candidates \cup Evidence :
    /\ Session[c] <= AsOf
    /\ Perspective # "valid-time" /\ QuestionDate > 0 => Accepted[c] <= QuestionDate

\* The days of the period the question asks about.
AskedDays == DaysOf(Asked.interval)

\* If the question asks about a period, every candidate, a slot mate too, was recorded in
\* it and may be about a day of it; when nothing says the day, the session was that week.
PerspectiveIsKept ==
  LET near(c) == \E d \in AskedDays : /\ Rank[SessionDate[c]] <= Rank[d] + 7
                                      /\ Rank[d] <= Rank[SessionDate[c]] + 7
  IN  Asked.interval # NoInterval =>
        \A c \in DOMAIN candidates \cup Evidence :
          /\ Perspective # "valid-time" => Accepted[c] \in AskedDays
          /\ Perspective # "recorded-time" =>
               IF When[c] = 0 THEN near(c) ELSE DaysMeant(When[c], Dated(c).tPrec) \cap AskedDays # {}

\* The days on which a period of a phrase's kind starts.
StartsOf(phrase) ==
  CASE phrase.says = "ago" /\ phrase.unit = "day" -> Days
    [] phrase.says = "ago" /\ phrase.unit = "week" -> {d \in Days : WeekdayOf[d] = 1}
    [] phrase.says = "ago" /\ phrase.unit = "month" -> {d \in Days : d % 100 = 1}
    [] phrase.says = "ago" /\ phrase.unit = "year" -> {d \in Days : d % 10000 = 101}
    [] phrase.unit = "weekday" -> {d \in Days : WeekdayOf[d] = phrase.n}
    [] phrase.unit = "weekend" -> {d \in Days : WeekdayOf[d] = 6}
    [] phrase.says # "ago" /\ phrase.unit = "month" -> {d \in Days : d % 10000 = 100 * phrase.n + 1}
    [] phrase.unit = "monthDay" -> {d \in Days : d % 10000 = phrase.n}

SamePeriod(phrase, d, e) ==
  CASE phrase.unit = "week" -> Rank[e] < Rank[d] + 7
    [] phrase.unit = "weekend" -> Rank[e] < Rank[d] + 2
    [] phrase.unit = "month" -> e \div 100 = d \div 100
    [] phrase.unit = "year" -> e \div 10000 = d \div 10000
    [] OTHER -> e = d

PeriodFrom(phrase, start) == {d \in Days : d >= start /\ SamePeriod(phrase, start, d)}

\* On whichever day it is said, a phrase stands for a whole period of its kind: the latest
\* that has begun or, after "last", is over; or the one so many before it.  "Last weekend"
\* is of the first kind (says = "in"): it may be the one under way.
PhraseNamesTheLatest ==
  at = "idle" =>
    \A question \in Questions :
      LET phrase == question[1]
          today == question[2]
          had(start) == IF phrase.says = "last" THEN \A d \in PeriodFrom(phrase, start) : d < today
                        ELSE start <= today
          interval == resolveTimeInterval(phrase, today)
          later == {d \in StartsOf(phrase) : d > interval.start /\ had(d)}
      IN  /\ interval.start \in StartsOf(phrase) /\ had(interval.start)
          /\ DaysOf(interval) = PeriodFrom(phrase, interval.start)
          /\ Cardinality(later) = IF phrase.says = "ago" THEN phrase.n ELSE 0

\* A second search that grounds nothing leaves the first answer itself as the reply, unless
\* a read fails.  One that grounds something is answered from its own excerpts, also when
\* the reader does not find the memory in them, or contradicted by them.
HuntLosesNothing ==
  first # Nothing /\ at = "done" /\ reply.verdict # "error" =>
    IF Grounded(reach) = {} THEN reply = first
    ELSE \/ reply.verdict = "ANSWER"
         \/ reply.reason = "CONTRADICTED_PREMISE" /\ reply.spans # {}

\* Every request is answered: there is at most one refinement.
IsAnswered == (at = "bind") ~> (at = "done")
=============================================================================
