----------------------------- MODULE LiveIngest -----------------------------
(***************************************************************************)
(* Ingest into the older plane (Ingest.ts and the callers of it): a user's *)
(* graph is written step by step, with no lock between callers and no      *)
(* transaction over their steps.                                           *)
(*   ingestSession  adds one session to what is there;                     *)
(*   ingestUser     writes a whole history, and is run again when it fails;*)
(*   removeUser     clears the user before a history is written anew.      *)
(* A caller fails where HydraDB or the model does; a crash ends them all.  *)
(***************************************************************************)
EXTENDS UserGraph, TLC

CONSTANTS
  Callers,
  Posted,           \* sessions posted one at a time
  History,          \* the sequence of sessions ingestUser is given
  Replies,          \* bound: the model's answers, sets of pairs of positions
  Mixes,            \* bound: what may be begun beside histories in one behaviour
  MaxCalls, MaxFailures

ASSUME IngestAssumption ==
  /\ Posted \cup Range(History) \subseteq Sessions
  /\ Posted \cap Range(History) = {}
  /\ MaxCalls \in Nat /\ MaxFailures \in Nat

\* The keys of a user's sessions differ (LongMemEval.ts: "Unique within the question").
ASSUME HistoryAssumption ==
  /\ History \in Seq(Sessions) /\ IsInjective(History)
  /\ IsFiniteSet(Claims)

\* The entities of a claim are called by names there are.
ASSUME NamesAssumption ==
  /\ IsFiniteSet(DOMAIN NameStems)
  /\ \A c \in Claims : \A e \in EntitiesOf[c] : {e.canon} \cup e.aliases \subseteq DOMAIN NameStems

VARIABLES
  caller,           \* what each caller does, and what it has read
  ensured,          \* whether the process knows the User vertex to be there
  answers,          \* the model's answers, cached by slot history
  calls, failures,
  others,           \* what was begun beside whole histories: "post", "reset", and
                    \* "crossed", a session posted twice at once or while cleared
  settled,          \* the graph the first whole history left
  whole             \* the history begun last has ended

liveVars == <<graph, caller, ensured, answers, calls, failures, others, settled, whole>>

Idle == [kind |-> "none", step |-> "idle"]

LiveInit ==
  /\ graph = EmptyGraph
  /\ caller = [p \in Callers |-> Idle]
  /\ ensured = FALSE
  /\ answers = <<>>
  /\ calls = 0 /\ failures = 0
  /\ others = {} /\ settled = None /\ whole = FALSE

-----------------------------------------------------------------------------
readUserStats == IF graph.user = None THEN NoStats ELSE graph.user

\* What a caller writes: its sessions, with the ordinals they are given.
Given(p) == IF caller[p].kind = "post" THEN <<caller[p].session>> ELSE History
OrdinalOf(p, i) == IF caller[p].kind = "post" THEN caller[p].before.sessions + 1 ELSE i
GivenClaims(p) == UNION {ClaimsOf[s] : s \in Range(Given(p))}

AtStep(p, step) == caller[p].step = step

GoOn(p, step, known) == caller' = [caller EXCEPT ![p] = Over([step |-> step], Over(known, @))]

Begin(p, record) ==
  /\ caller[p] = Idle /\ calls < MaxCalls
  /\ calls' = calls + 1
  /\ caller' = [caller EXCEPT ![p] = record]
  /\ UNCHANGED <<graph, ensured, answers, failures, settled>>

\* ingestSession: a session that is stored is answered as present, and nothing is done.
Post(p, s) ==
  /\ s \notin DOMAIN graph.session
  /\ Begin(p, [kind |-> "post", step |-> "place", session |-> s, before |-> readUserStats])
  /\ others' = others \cup {"post"} \cup
       (IF \E q \in Callers :
             \/ caller[q].kind = "post" /\ caller[q].session = s
             \/ caller[q].step \in {"removeClaims", "removeTranscript"}
        THEN {"crossed"} ELSE {})
  /\ others' \in Mixes
  /\ UNCHANGED whole

\* ingestUser, one at a time, with --reset or without.
WriteHistory(p, reset) ==
  /\ History # <<>> /\ \A q \in Callers : caller[q].kind # "history"
  /\ Begin(p, [kind |-> "history", step |-> IF reset THEN "removeClaims" ELSE "place"])
  /\ others' = others \cup (IF reset THEN {"reset"} ELSE {}) \cup
       (IF reset /\ \E q \in Callers : caller[q].kind = "post" THEN {"crossed"} ELSE {})
  /\ others' \in Mixes
  /\ whole' = FALSE

\* removeUser: the User vertex stays, with the counts it has.
RemoveClaims(p) ==
  /\ AtStep(p, "removeClaims")
  /\ graph' = removeClaims(graph) /\ GoOn(p, "removeTranscript", <<>>)
  /\ UNCHANGED <<ensured, answers>>

RemoveTranscript(p) ==
  /\ AtStep(p, "removeTranscript")
  /\ graph' = removeTranscript(graph) /\ GoOn(p, "place", <<>>)
  /\ UNCHANGED <<ensured, answers>>

\* Transcript.ingest: the sessions and their turns, then the links of the user to them.
Place(p) ==
  /\ AtStep(p, "place")
  /\ graph' = [graph EXCEPT !.session =
       Over([s \in Range(Given(p)) |-> OrdinalOf(p, CHOOSE i \in DOMAIN Given(p) : Given(p)[i] = s)], @)]
  /\ GoOn(p, "link", <<>>)
  /\ UNCHANGED <<ensured, answers>>

\* Fault: the sessions are counted as they are linked.
CountedLink(p) ==
  /\ AtStep(p, "link")
  /\ graph' = [graph EXCEPT !.linked = @ \cup {<<"Session", s>> : s \in Range(Given(p))},
                            !.user = [readUserStats EXCEPT !.sessions = Len(Given(p))]]
  /\ ensured' = TRUE
  /\ GoOn(p, "name", <<>>)
  /\ UNCHANGED answers

\* The User vertex is written once per process, without counts.
Link(p) ==
  /\ AtStep(p, "link")
  /\ graph' = [graph EXCEPT !.linked = @ \cup {<<"Session", s>> : s \in Range(Given(p))},
                            !.user = IF ensured THEN @ ELSE readUserStats]
  /\ ensured' = TRUE
  /\ GoOn(p, "name", <<>>)
  /\ UNCHANGED answers

\* The claims are extracted, and their entities reconciled with those read now.
Name(p) ==
  /\ AtStep(p, "name")
  /\ LET known == readEntities(graph) IN
     GoOn(p, "write", [reconciled |-> reconcile(known, Incoming(GivenClaims(p))),
                       read |-> DOMAIN known, at |-> 1])
  /\ UNCHANGED <<graph, ensured, answers>>

Write(p) ==
  /\ AtStep(p, "write")
  /\ graph' = writeSession(graph, caller[p].reconciled, Given(p)[caller[p].at], OrdinalOf(p, caller[p].at))
  /\ GoOn(p, "linkNames", <<>>)
  /\ UNCHANGED <<ensured, answers>>

\* The last session written, a post reads the counts and a history has them.
LinkNames(p) ==
  /\ AtStep(p, "linkNames")
  /\ graph' = linkSession(graph, caller[p].reconciled, Given(p)[caller[p].at])
  /\ IF caller[p].at < Len(Given(p))
     THEN GoOn(p, "write", [at |-> caller[p].at + 1])
     ELSE GoOn(p, IF caller[p].kind = "post" THEN "readCounts" ELSE "count", <<>>)
  /\ UNCHANGED <<ensured, answers>>

ReadCounts(p) ==
  /\ AtStep(p, "readCounts")
  /\ LET r == caller[p].reconciled IN
     GoOn(p, "count", [df |-> readTokenDf(graph, DOMAIN TokenHits(r, GivenClaims(p))),
                       slots |-> readSlotClaimCounts(graph, DOMAIN SlotFills(r, GivenClaims(p)))])
  /\ UNCHANGED <<graph, ensured, answers>>

\* A history counts its claims, and a name's token that hits none as 0.
HistoryDf(r) ==
  Over(TokenHits(r, UNION {ClaimsOf[s] : s \in Range(History)}),
       [t \in UNION {entityTokens(r, n) : n \in DOMAIN r.entities} |-> 0])

\* A post adds its counts to those it read.
AddedTo(read, added) == [x \in DOMAIN added |-> added[x] + read[x]]

NewDf(p) ==
  IF caller[p].kind = "history" THEN HistoryDf(caller[p].reconciled)
  ELSE AddedTo(caller[p].df, TokenHits(caller[p].reconciled, GivenClaims(p)))
NewSlots(p) ==
  LET fills == SlotFills(caller[p].reconciled, GivenClaims(p)) IN
  IF caller[p].kind = "history" THEN fills ELSE AddedTo(caller[p].slots, fills)

Count(p) ==
  /\ AtStep(p, "count")
  /\ graph' = writeCounts(graph, NewDf(p), NewSlots(p))
  /\ GoOn(p, "decide", [contested |-> {k \in DOMAIN NewSlots(p) : NewSlots(p)[k] >= 2}])
  /\ UNCHANGED <<ensured, answers>>

\* The model's answer to a slot's history, and always the same.
Answer(history) == IF history \in DOMAIN answers THEN {answers[history]} ELSE Replies

\* run: the slots that do hold two claims are read and asked about.
Decide(p) ==
  /\ AtStep(p, "decide")
  /\ LET asked == {h \in {readSlotClaims(graph, k) : k \in caller[p].contested} : Len(h) >= 2} IN
     \E found \in {f \in [asked -> Replies] : \A h \in asked : f[h] \in Answer(h)} :
       /\ answers' = Over(found, answers)
       /\ GoOn(p, "replace", [edges |-> UNION {detected(graph, h, found[h]) : h \in asked}])
  /\ UNCHANGED <<graph, ensured>>

\* The replacements of the answers; claims cleared meanwhile make the commit fail.
Replace(p) ==
  /\ AtStep(p, "replace")
  /\ \A e \in caller[p].edges : {e[1], e[2]} \subseteq DOMAIN graph.claim
  /\ graph' = [graph EXCEPT !.replaced = Over([e \in caller[p].edges |-> AtSession(graph, e[1], e[2])], @)]
  /\ GoOn(p, "report", <<>>)
  /\ UNCHANGED <<ensured, answers>>

PostStats(p) ==
  LET b == caller[p].before
      r == caller[p].reconciled
      found == Cardinality(DOMAIN r.entities)
      new(f) == Cardinality({x \in DOMAIN f : f[x] = 0}) IN
  [ claims |-> b.claims + Cardinality(GivenClaims(p)),
    entities |-> IF found > b.entities THEN found ELSE b.entities,
    slots |-> b.slots + new(caller[p].slots),
    tokens |-> b.tokens + new(caller[p].df),
    sessions |-> b.sessions + 1,
    supersessions |-> b.supersessions + Cardinality(caller[p].edges),
    contested |-> b.contested + Cardinality({k \in caller[p].contested : caller[p].slots[k] < 2}) ]

HistoryStats(p) ==
  LET r == caller[p].reconciled IN
  [ claims |-> Cardinality(GivenClaims(p)), entities |-> Cardinality(DOMAIN r.entities),
    slots |-> Cardinality(DOMAIN SlotFills(r, GivenClaims(p))),
    tokens |-> Cardinality(DOMAIN HistoryDf(r)), sessions |-> Len(History),
    supersessions |-> Cardinality(caller[p].edges), contested |-> Cardinality(caller[p].contested) ]

\* writeUserStats, and the caller is answered.
Report(p) ==
  /\ AtStep(p, "report")
  /\ graph' = [graph EXCEPT !.user = IF caller[p].kind = "post" THEN PostStats(p) ELSE HistoryStats(p)]
  /\ ensured' = TRUE
  /\ caller' = [caller EXCEPT ![p] = Idle]
  /\ IF caller[p].kind = "history"
     THEN /\ whole' = TRUE
          /\ settled' = IF settled = None /\ "post" \notin others THEN graph' ELSE settled
     ELSE UNCHANGED <<whole, settled>>
  /\ UNCHANGED answers

Fail(p) ==
  /\ caller[p] # Idle /\ failures < MaxFailures
  /\ failures' = failures + 1
  /\ caller' = [caller EXCEPT ![p] = Idle]
  /\ UNCHANGED <<graph, ensured, answers, calls, others, settled, whole>>

Crash ==
  /\ failures < MaxFailures
  /\ failures' = failures + 1
  /\ caller' = [p \in Callers |-> Idle] /\ ensured' = FALSE
  /\ UNCHANGED <<graph, answers, calls, others, settled, whole>>

Step(p) ==
  \/ /\ \/ RemoveClaims(p) \/ RemoveTranscript(p) \/ Place(p) \/ Link(p) \/ Name(p) \/ Write(p)
        \/ LinkNames(p) \/ ReadCounts(p) \/ Count(p) \/ Decide(p) \/ Replace(p)
     /\ UNCHANGED <<calls, failures, others, settled, whole>>
  \/ Report(p) /\ UNCHANGED <<calls, failures, others>>

LiveNext ==
  \/ \E p \in Callers :
       \/ \E s \in Posted : Post(p, s)
       \/ \E reset \in BOOLEAN : WriteHistory(p, reset)
       \/ Step(p)
       \/ Fail(p)
  \/ Crash

LiveSpec == LiveInit /\ [][LiveNext]_liveVars

-----------------------------------------------------------------------------
(***************************************************************************)
(* Properties.                                                             *)
(***************************************************************************)

\* Every edge has its ends, every count its vertex, and the callers their places.
LiveTypeOK ==
  /\ \A m \in graph.mentions : m[1] \in DOMAIN graph.entity /\ m[2] \in DOMAIN graph.claim
  /\ \A f \in graph.fills : f[1] \in DOMAIN graph.claim /\ f[2] \in DOMAIN graph.slot
  /\ \A h \in graph.hits : h[1] \in DOMAIN graph.df /\ h[2] \in DOMAIN graph.claim
  /\ \A n \in graph.names : n[1] \in DOMAIN graph.df /\ n[2] \in DOMAIN graph.entity
  /\ \A e \in DOMAIN graph.replaced : {e[1], e[2]} \subseteq DOMAIN graph.claim
  /\ \A p \in Callers : caller[p].kind \in {"none", "post", "history"}
  /\ ensured \in BOOLEAN /\ whole \in BOOLEAN /\ calls \in 0..MaxCalls /\ failures \in 0..MaxFailures

\* What each token hits and each slot holds is what its count says.
CountsAreExact ==
  /\ \A t \in DOMAIN graph.df : graph.df[t] = Cardinality({h \in graph.hits : h[1] = t})
  /\ \A k \in DOMAIN graph.slot : graph.slot[k] = Cardinality({f \in graph.fills : f[2] = k})

(* Of whole histories alone, however often one failed, was run again or    *)
(* was cleared and written anew: each that ends leaves the graph the first *)
(* one left, with exact counts (ingestUser, bin/ingest.ts, the retries of  *)
(* ingest-slice.ts).                                                       *)
HistoriesEndAlike ==
  whole /\ "post" \notin others => graph = settled /\ CountsAreExact

(* Counts that name every session of the history mean it is all there: a   *)
(* run of ingest-slice --skip-existing passes such a user over, so no      *)
(* failure may leave them beside a part (no user was cleared or posted to).*)
StatsMeanComplete ==
  others = {} /\ readUserStats.sessions = Len(History) =>
    /\ DOMAIN graph.claim = UNION {ClaimsOf[s] : s \in Range(History)}
    /\ \A s \in Range(History) : <<"Session", s>> \in graph.linked
    /\ {n \in DOMAIN graph.entity : <<"Entity", n>> \notin graph.linked} = {}
    /\ \A h \in DOMAIN answers : detected(graph, h, answers[h]) \subseteq DOMAIN graph.replaced

(* A claim is replaced by one of its own slot that is not of an earlier    *)
(* session, at that one's session, whatever the model answers and whatever *)
(* other callers place at the same ordinal (detect, run).  Two posts of one *)
(* session at once, or one under a reset, would give its claims another.    *)
ReplacementsGoForward ==
  "crossed" \notin others => \A e \in DOMAIN graph.replaced :
    /\ \E k \in DOMAIN graph.slot : <<e[1], k>> \in graph.fills /\ <<e[2], k>> \in graph.fills
    /\ graph.claim[e[1]] <= graph.claim[e[2]] /\ graph.replaced[e] = graph.claim[e[2]]

(* docs/design-rationale.md: "A single-session ingest must add to counts   *)
(* the history already holds".  So a user ingested one session after       *)
(* another, with no failure, would have the df of every token.             *)
DfCountsTheHits ==
  (\A p \in Callers : caller[p] = Idle) =>
    \A t \in DOMAIN graph.df : graph.df[t] = Cardinality({h \in graph.hits : h[1] = t})
=============================================================================
