-------------------------- MODULE LiveIngestProofs --------------------------
(***************************************************************************)
(* Proofs about LiveIngest, for any callers, sessions, histories, answers  *)
(* of the model and failures. A claim is replaced by one of its own slot   *)
(* that is not of an earlier session, as long as no session was posted     *)
(* twice at once or under a reset. Whole histories all leave one graph,    *)
(* however they were written, and statistics stand beside all of it.       *)
(*                                                                         *)
(* The first invariant says who may be at work beside whom, that a claim   *)
(* keeps the ordinal it was first given for as long as it is stored, and   *)
(* that what a caller was told to replace still fits the graph when it     *)
(* writes. The second is about the caller of a history: names are decided  *)
(* alike whatever names are stored under the decisions made before, what   *)
(* the graph holds is always a part of the one graph the history and the   *)
(* answers determine, and each step has written what comes before it.      *)
(***************************************************************************)
EXTENDS LiveIngest, FiniteSetTheorems, WellFoundedInduction, TLAPS

-----------------------------------------------------------------------------
(***************************************************************************)
(* The history of a slot.                                                  *)
(***************************************************************************)

\* How many members of S are up to c in the order R.
Rank(S, R, c) == Cardinality({d \in S : <<d, c>> \in R})

TotalOrder(S, R) ==
  /\ \A a, b \in S : <<a, b>> \in R \/ <<b, a>> \in R
  /\ \A a, b \in S : <<a, b>> \in R /\ <<b, a>> \in R => a = b
  /\ \A a, b, c \in S : <<a, b>> \in R /\ <<b, c>> \in R => <<a, c>> \in R

\* In a finite total order R of S every rank is that of some member.
LEMMA EveryRankIsTaken ==
  ASSUME NEW S, IsFiniteSet(S), NEW R, TotalOrder(S, R)
  PROVE  /\ Cardinality(S) \in Nat
         /\ \A i \in 1..Cardinality(S) : \E c \in S : Rank(S, R, c) = i
<1> DEFINE Below(c) == {d \in S : <<d, c>> \in R}
           N == Cardinality(S)
           rank == [c \in S |-> Cardinality(Below(c))]
<1>1. N \in Nat
  BY FS_CardinalityType
<1>2. \A c \in S : IsFiniteSet(Below(c)) /\ Cardinality(Below(c)) \in 1..N
  <2> TAKE c \in S
  <2>1. Below(c) \in SUBSET S /\ c \in Below(c)
    BY DEF TotalOrder
  <2>2. IsFiniteSet(Below(c)) /\ Cardinality(Below(c)) \in Nat /\ Cardinality(Below(c)) <= N
    BY <2>1, FS_Subset, FS_CardinalityType
  <2>3. Cardinality(Below(c)) # 0
    BY <2>1, <2>2, FS_EmptySet
  <2> QED
    BY <1>1, <2>2, <2>3
<1>3. \A a, b \in S : Cardinality(Below(a)) = Cardinality(Below(b)) => a = b
  <2>1. ASSUME NEW a \in S, NEW b \in S, <<a, b>> \in R,
               Cardinality(Below(a)) = Cardinality(Below(b))
        PROVE  a = b
    <3>1. Below(a) \in SUBSET Below(b)
      BY <2>1 DEF TotalOrder
    <3>2. Below(a) = Below(b)
      BY <1>2, <2>1, <3>1, FS_Subset
    <3>3. b \in Below(a)
      <4>1. <<b, b>> \in R
        BY <2>1 DEF TotalOrder
      <4> QED
        BY <3>2, <4>1
    <3> QED
      BY <2>1, <3>3 DEF TotalOrder
  <2> QED
    BY <2>1 DEF TotalOrder
<1> HIDE DEF Below, N
<1>4. rank \in Injection(S, 1..N)
  BY <1>2, <1>3 DEF Injection, IsInjective
<1>5. IsFiniteSet(1..N) /\ Cardinality(1..N) = N
  BY <1>1, FS_Interval
<1>6. rank \in Surjection(S, 1..N)
  BY <1>1, <1>4, <1>5, FS_Injection DEF N
<1>7. \A i \in 1..N : \E c \in S : rank[c] = i
  BY <1>6 DEF Surjection
<1> QED
  BY <1>1, <1>7 DEF N, Below, Rank

\* What a graph must have for its slots to be read.
Ordered(g) ==
  /\ DOMAIN g.claim \subseteq Claims
  /\ \A c \in DOMAIN g.claim : g.claim[c] \in Nat
  /\ \A f \in g.fills : f = <<f[1], f[2]>> /\ f[1] \in DOMAIN g.claim /\ f[2] \in DOMAIN g.slot

\* A position of a slot's history holds a claim that fills the slot.
LEMMA HistoryIsOfTheSlot ==
  ASSUME NEW g, Ordered(g), NEW k, NEW i \in DOMAIN readSlotClaims(g, k)
  PROVE  <<readSlotClaims(g, k)[i], k>> \in g.fills
<1> DEFINE S == {f[1] : f \in {x \in g.fills : x[2] = k}}
           R == {w \in S \X S : Precedes(g, w[1], w[2])}
<1>1. S \subseteq DOMAIN g.claim /\ S \subseteq Claims
  BY DEF Ordered
<1>2. IsFiniteSet(S)
  BY <1>1, HistoryAssumption, FS_Subset
<1>3. \A c \in S : c \in Nat /\ EventTime[c] \in Nat /\ g.claim[c] \in Nat
  BY <1>1, ExtractionAssumption DEF Ordered
<1>4. \A c, d \in S : <<c, d>> \in R <=> Precedes(g, c, d)
  OBVIOUS
<1>8. \A c \in S : {d \in S : <<d, c>> \in R} = {d \in S : Precedes(g, d, c)}
  BY <1>4
<1> HIDE DEF R, S
<1>5. \A a, b \in S : <<a, b>> \in R \/ <<b, a>> \in R
  <2> SUFFICES ASSUME NEW a \in S, NEW b \in S PROVE Precedes(g, a, b) \/ Precedes(g, b, a)
    BY <1>4
  <2> QED
    BY <1>3 DEF Precedes
<1>6. \A a, b \in S : <<a, b>> \in R /\ <<b, a>> \in R => a = b
  <2> SUFFICES ASSUME NEW a \in S, NEW b \in S, Precedes(g, a, b), Precedes(g, b, a) PROVE a = b
    BY <1>4
  <2> QED
    BY <1>3 DEF Precedes
<1>7. \A a, b, c \in S : <<a, b>> \in R /\ <<b, c>> \in R => <<a, c>> \in R
  <2> SUFFICES ASSUME NEW a \in S, NEW b \in S, NEW c \in S, Precedes(g, a, b), Precedes(g, b, c)
               PROVE  Precedes(g, a, c)
    BY <1>4
  <2> QED
    BY <1>3 DEF Precedes
<1>9. /\ Cardinality(S) \in Nat
      /\ \A n \in 1..Cardinality(S) : \E c \in S : Rank(S, R, c) = n
  <2>1. TotalOrder(S, R)
    BY <1>5, <1>6, <1>7 DEF TotalOrder
  <2> QED
    BY <1>2, <2>1, EveryRankIsTaken
<1>10. i \in 1..Cardinality(S) /\ readSlotClaims(g, k)[i] = CHOOSE c \in S : Cardinality({d \in S : Precedes(g, d, c)}) = i
  BY DEF readSlotClaims, S
<1>11. \E c \in S : Cardinality({d \in S : Precedes(g, d, c)}) = i
  BY <1>8, <1>9, <1>10 DEF Rank
<1>12. readSlotClaims(g, k)[i] \in S
  BY <1>10, <1>11
<1> QED
  BY <1>12 DEF Ordered, S

\* A replacement that fits the graph: within a slot, and not back in time.
Fits(g, e) ==
  /\ e[1] \in DOMAIN g.claim /\ e[2] \in DOMAIN g.claim
  /\ \E k \in DOMAIN g.slot : <<e[1], k>> \in g.fills /\ <<e[2], k>> \in g.fills
  /\ g.claim[e[1]] <= g.claim[e[2]]

LEMMA DetectedFit ==
  ASSUME NEW g, Ordered(g), NEW k, NEW pairs, NEW e \in detected(g, readSlotClaims(g, k), pairs)
  PROVE  Fits(g, e)
<1> DEFINE h == readSlotClaims(g, k)
<1>1. PICK p \in pairs : /\ {p[1], p[2]} \subseteq DOMAIN h /\ Forward(g, h, p)
                         /\ e = <<h[p[1]], h[p[2]]>>
  BY DEF detected
<1>2. <<h[p[1]], k>> \in g.fills /\ <<h[p[2]], k>> \in g.fills
  BY <1>1, HistoryIsOfTheSlot
<1>3. e[1] \in DOMAIN g.claim /\ e[2] \in DOMAIN g.claim /\ k \in DOMAIN g.slot
  BY <1>1, <1>2 DEF Ordered
<1>4. g.claim[e[1]] <= g.claim[e[2]]
  BY <1>1, <1>3 DEF Forward, Ordered
<1> QED
  BY <1>1, <1>2, <1>3, <1>4 DEF Fits

\* A graph that has grown keeps the claims' ordinals and what they fill.
Grows(g, h) ==
  /\ DOMAIN g.claim \subseteq DOMAIN h.claim
  /\ \A c \in DOMAIN g.claim : h.claim[c] = g.claim[c]
  /\ g.fills \subseteq h.fills /\ DOMAIN g.slot \subseteq DOMAIN h.slot

LEMMA FitsKept ==
  ASSUME NEW g, NEW h, Grows(g, h), NEW e, Fits(g, e)
  PROVE  Fits(h, e)
BY DEF Grows, Fits

LEMMA OverIs ==
  ASSUME NEW f, NEW g
  PROVE  /\ DOMAIN Over(f, g) = DOMAIN f \cup DOMAIN g
         /\ \A x \in DOMAIN f : Over(f, g)[x] = f[x]
         /\ \A x \in DOMAIN g : x \notin DOMAIN f => Over(f, g)[x] = g[x]
BY DEF Over

-----------------------------------------------------------------------------
(***************************************************************************)
(* The invariant.                                                          *)
(***************************************************************************)
Removing == {"removeClaims", "removeTranscript"}
Fields ==
  {"session", "claim", "entity", "slot", "df", "mentions", "fills", "hits", "names", "replaced", "linked", "user"}

GraphInv ==
  /\ DOMAIN graph = Fields
  /\ Ordered(graph)
  /\ graph.user # None => graph.user.sessions \in Nat

\* What a caller knows of what it does.
CallerInv(p) ==
  /\ {"kind", "step"} \subseteq DOMAIN caller[p]
  /\ caller[p].kind \in {"none", "post", "history"}
  /\ caller[p].kind = "none" => caller[p] = Idle
  /\ caller[p].kind = "post" =>
       /\ {"session", "before"} \subseteq DOMAIN caller[p]
       /\ caller[p].session \in Posted /\ caller[p].before.sessions \in Nat
       /\ caller[p].step \notin Removing
  /\ caller[p].kind = "history" => History # <<>>
  /\ caller[p].step \in {"write", "linkNames"} => "at" \in DOMAIN caller[p] /\ caller[p].at \in DOMAIN Given(p)

CallersInv == DOMAIN caller = Callers /\ \A p \in Callers : CallerInv(p)

OneHistory == \A p, q \in Callers : caller[p].kind = "history" /\ caller[q].kind = "history" => p = q

\* Nothing is posted while the user is cleared, nor one session by two callers.
Apart ==
  /\ \A p, q \in Callers : caller[p].step \in Removing => caller[q].kind # "post"
  /\ \A p, q \in Callers :
       caller[p].kind = "post" /\ caller[q].kind = "post" /\ caller[p].session = caller[q].session => p = q
  /\ \A p \in Callers : caller[p].step = "removeTranscript" => DOMAIN graph.claim = {}

\* A claim that is stored has the ordinal its session was given, which is stored too.
Ordinals ==
  /\ \A s \in Posted : \A c \in ClaimsOf[s] : c \in DOMAIN graph.claim => s \in DOMAIN graph.session
  /\ \A p \in Callers :
       caller[p].kind = "post" /\ caller[p].step # "place" => caller[p].session \in DOMAIN graph.session
  /\ \A p \in Callers : caller[p].kind = "post" =>
       \A c \in ClaimsOf[caller[p].session] :
         c \in DOMAIN graph.claim => graph.claim[c] = caller[p].before.sessions + 1
  /\ \A i \in DOMAIN History : \A c \in ClaimsOf[History[i]] : c \in DOMAIN graph.claim => graph.claim[c] = i

\* What is replaced, and what a caller was told to replace, fits the graph.
Replaced ==
  /\ \A p \in Callers : caller[p].step = "replace" => \A e \in caller[p].edges : Fits(graph, e)
  /\ \A e \in DOMAIN graph.replaced : Fits(graph, e) /\ graph.replaced[e] = graph.claim[e[2]]

LiveInv ==
  /\ GraphInv /\ CallersInv /\ OneHistory
  /\ "crossed" \notin others => Apart /\ Ordinals /\ Replaced

LEMMA InvInit == LiveInit => LiveInv
<1> SUFFICES ASSUME LiveInit PROVE LiveInv
  OBVIOUS
<1>1. /\ DOMAIN graph = Fields /\ graph.user = None
      /\ DOMAIN graph.claim = {} /\ graph.fills = {} /\ DOMAIN graph.replaced = {}
  BY DEF LiveInit, EmptyGraph, Fields
<1>2. DOMAIN caller = Callers /\ \A p \in Callers : caller[p] = Idle
  BY DEF LiveInit
<1>3. DOMAIN Idle = {"kind", "step"} /\ Idle.kind = "none" /\ Idle.step = "idle"
  BY DEF Idle
<1>4. GraphInv
  BY <1>1 DEF GraphInv, Ordered
<1>5. CallersInv /\ OneHistory
  BY <1>2, <1>3 DEF CallersInv, CallerInv, OneHistory
<1>6. Apart /\ Ordinals /\ Replaced
  BY <1>1, <1>2, <1>3 DEF Apart, Ordinals, Replaced, Removing
<1> QED
  BY <1>4, <1>5, <1>6 DEF LiveInv

-----------------------------------------------------------------------------
(***************************************************************************)
(* How a caller goes on.                                                   *)
(***************************************************************************)

\* A caller moves to a step with its job unchanged, and no other does.
Moves(p, step) ==
  /\ DOMAIN caller' = Callers
  /\ \A q \in Callers : q # p => caller'[q] = caller[q]
  /\ {"kind", "step"} \subseteq DOMAIN caller'[p]
  /\ caller'[p].step = step /\ caller'[p].kind = caller[p].kind
  /\ caller[p].kind = "post" =>
       /\ {"session", "before"} \subseteq DOMAIN caller'[p]
       /\ caller'[p].session = caller[p].session /\ caller'[p].before = caller[p].before

LEMMA GoOnMoves ==
  ASSUME CallersInv, NEW p \in Callers, NEW step, NEW known, GoOn(p, step, known),
         DOMAIN known \cap {"kind", "step", "session", "before"} = {}
  PROVE  /\ Moves(p, step)
         /\ \A x \in DOMAIN known : x \in DOMAIN caller'[p] /\ caller'[p][x] = known[x]
         /\ "at" \in DOMAIN caller[p] /\ "at" \notin DOMAIN known =>
              "at" \in DOMAIN caller'[p] /\ caller'[p].at = caller[p].at
<1> DEFINE old == caller[p]
           more == Over(known, old)
           one == [step |-> step]
           new == Over(one, more)
<1>1. caller' = [caller EXCEPT ![p] = new]
  BY DEF GoOn
<1>2. DOMAIN caller = Callers /\ {"kind", "step"} \subseteq DOMAIN old
      /\ (old.kind = "post" => {"session", "before"} \subseteq DOMAIN old)
  BY DEF CallersInv, CallerInv
<1>3. DOMAIN caller' = Callers /\ caller'[p] = new /\ \A q \in Callers : q # p => caller'[q] = caller[q]
  BY <1>1, <1>2
<1> HIDE DEF new, more, old
<1>4. /\ DOMAIN more = DOMAIN known \cup DOMAIN old
      /\ \A x \in DOMAIN known : more[x] = known[x]
      /\ \A x \in DOMAIN old : x \notin DOMAIN known => more[x] = old[x]
  BY OverIs DEF more
<1>5. /\ DOMAIN new = {"step"} \cup DOMAIN more /\ new.step = step
      /\ \A x \in DOMAIN more : x # "step" => new[x] = more[x]
  <2>1. DOMAIN one = {"step"} /\ one["step"] = step
    OBVIOUS
  <2> HIDE DEF one, more
  <2>2. /\ DOMAIN new = DOMAIN one \cup DOMAIN more
        /\ \A x \in DOMAIN one : new[x] = one[x]
        /\ \A x \in DOMAIN more : x \notin DOMAIN one => new[x] = more[x]
    BY OverIs DEF new
  <2>3. new["step"] = one["step"]
    BY <2>1, <2>2
  <2> QED
    BY <2>1, <2>2, <2>3
<1>6. \A x \in {"kind", "session", "before"} : x \in DOMAIN old => x \in DOMAIN new /\ new[x] = old[x]
  BY <1>4, <1>5
<1>7. \A x \in DOMAIN known : x \in DOMAIN new /\ new[x] = known[x]
  BY <1>4, <1>5
<1>8. "at" \in DOMAIN old /\ "at" \notin DOMAIN known => "at" \in DOMAIN new /\ new.at = old.at
  BY <1>4, <1>5
<1>9. Moves(p, step)
  BY <1>2, <1>3, <1>4, <1>5, <1>6 DEF Moves, old
<1> QED
  BY <1>3, <1>7, <1>8, <1>9 DEF old

\* A post's session is its own; another caller's is not that.
LEMMA GivenKept ==
  ASSUME NEW p, NEW step, Moves(p, step), caller[p].kind \in {"none", "post", "history"}
  PROVE  Given(p)' = Given(p)
BY DEF Given, Moves

LEMMA CallersMove ==
  ASSUME CallersInv, OneHistory, NEW p \in Callers, NEW step, Moves(p, step), caller[p].kind # "none",
         caller[p].kind = "post" => step \notin Removing,
         step \in {"write", "linkNames"} => "at" \in DOMAIN caller'[p] /\ caller'[p].at \in DOMAIN Given(p)
  PROVE  CallersInv' /\ OneHistory'
<1>1. ASSUME NEW q \in Callers PROVE CallerInv(q)'
  <2>1. CallerInv(q) /\ CallerInv(p)
    BY DEF CallersInv
  <2>2. CASE q = p
    <3>1. Given(p)' = Given(p)
      BY <2>1, GivenKept DEF CallerInv
    <3> QED
      BY <2>1, <2>2, <3>1 DEF CallerInv, Moves
  <2>3. CASE q # p
    <3>1. caller'[q] = caller[q] /\ Given(q)' = Given(q)
      BY <2>3 DEF Moves, Given
    <3> QED
      BY <2>1, <3>1 DEF CallerInv
  <2> QED
    BY <2>2, <2>3
<1>2. \A q \in Callers : caller'[q].kind = caller[q].kind
  BY DEF Moves
<1> QED
  BY <1>1, <1>2 DEF CallersInv, OneHistory, Moves

\* No caller comes to clear the user, so those who do have cleared it as before.
LEMMA ApartMoves ==
  ASSUME CallersInv, OneHistory, Apart, NEW p \in Callers, NEW step, Moves(p, step), step \notin Removing,
         caller[p].kind # "none",
         DOMAIN graph'.claim = DOMAIN graph.claim \/ caller[p].step \notin Removing
  PROVE  Apart'
<1>1. \A q \in Callers : caller'[q].kind = caller[q].kind
                         /\ (q # p => caller'[q] = caller[q])
                         /\ (caller'[q].kind = "post" => caller'[q].session = caller[q].session)
  BY DEF Moves
<1>2. \A q \in Callers : caller'[q].step \in Removing => q # p /\ caller[q].step \in Removing
  BY DEF Moves
<1>3. ASSUME NEW q \in Callers, caller'[q].step = "removeTranscript"
      PROVE  DOMAIN graph'.claim = {}
  <2>1. q # p /\ caller[q].step = "removeTranscript" /\ caller[q].step \in Removing
    BY <1>1, <1>2, <1>3 DEF Removing
  <2>2. caller[q].kind = "history"
    <3>1. CallerInv(q) /\ Idle.step = "idle"
      BY DEF CallersInv, Idle
    <3> QED
      BY <2>1, <3>1 DEF CallerInv
  <2>3. caller[p].kind # "post" /\ caller[p].kind # "history"
    BY <2>1, <2>2 DEF Apart, OneHistory
  <2> QED
    BY <2>3 DEF CallersInv, CallerInv
<1> QED
  BY <1>1, <1>2, <1>3 DEF Apart

LEMMA ReplacedMoves ==
  ASSUME Replaced, NEW p \in Callers, NEW step, Moves(p, step), Grows(graph, graph'),
         graph'.replaced = graph.replaced,
         step = "replace" => \A e \in caller'[p].edges : Fits(graph', e)
  PROVE  Replaced'
<1>1. ASSUME NEW q \in Callers, caller'[q].step = "replace", NEW e \in caller'[q].edges
      PROVE  Fits(graph', e)
  <2>1. CASE q = p
    BY <1>1, <2>1 DEF Moves
  <2>2. CASE q # p
    BY <1>1, <2>2, FitsKept DEF Moves, Replaced
  <2> QED
    BY <2>1, <2>2
<1>2. ASSUME NEW e \in DOMAIN graph.replaced
      PROVE  Fits(graph', e) /\ graph.replaced[e] = graph'.claim[e[2]]
  <2>1. Fits(graph, e) /\ graph.replaced[e] = graph.claim[e[2]]
    BY DEF Replaced
  <2>2. graph'.claim[e[2]] = graph.claim[e[2]]
    BY <2>1 DEF Fits, Grows
  <2> QED
    BY <2>1, <2>2, FitsKept
<1> QED
  BY <1>1, <1>2 DEF Replaced

\* Sessions are only added to those stored, and claims are left alone.
LEMMA OrdinalsMove ==
  ASSUME CallersInv, Ordinals, NEW p \in Callers, NEW step, Moves(p, step),
         graph'.claim = graph.claim, DOMAIN graph.session \subseteq DOMAIN graph'.session,
         caller[p].kind = "post" => caller[p].session \in DOMAIN graph'.session
  PROVE  Ordinals'
<1>1. \A q \in Callers : caller'[q].kind = "post" =>
        /\ caller[q].kind = "post"
        /\ caller'[q].session = caller[q].session /\ caller'[q].before = caller[q].before
        /\ q # p => caller'[q].step = caller[q].step
  BY DEF Moves
<1>2. \A s \in Posted : \A c \in ClaimsOf[s] : c \in DOMAIN graph'.claim => s \in DOMAIN graph'.session
  BY DEF Ordinals
<1>3. \A q \in Callers :
        caller'[q].kind = "post" /\ caller'[q].step # "place" => caller'[q].session \in DOMAIN graph'.session
  BY <1>1 DEF Ordinals
<1>4. \A q \in Callers : caller'[q].kind = "post" =>
        \A c \in ClaimsOf[caller'[q].session] :
          c \in DOMAIN graph'.claim => graph'.claim[c] = caller'[q].before.sessions + 1
  BY <1>1 DEF Ordinals
<1>5. \A i \in DOMAIN History : \A c \in ClaimsOf[History[i]] : c \in DOMAIN graph'.claim => graph'.claim[c] = i
  BY DEF Ordinals
<1> QED
  BY <1>2, <1>3, <1>4, <1>5 DEF Ordinals

LEMMA Busy ==
  ASSUME CallersInv, NEW p \in Callers, caller[p].step # "idle"
  PROVE  caller[p].kind \in {"post", "history"}
BY DEF CallersInv, CallerInv, Idle

\* A step that adds to the graph and leaves claims and replacements alone.
Adds ==
  /\ GraphInv'
  /\ graph'.claim = graph.claim /\ graph'.replaced = graph.replaced
  /\ graph.fills \subseteq graph'.fills /\ DOMAIN graph.slot \subseteq DOMAIN graph'.slot
  /\ DOMAIN graph.session \subseteq DOMAIN graph'.session

LEMMA AddingKeeps ==
  ASSUME LiveInv, NEW p \in Callers, caller[p].step # "idle", NEW step, Moves(p, step), step \notin Removing,
         step \in {"write", "linkNames"} => "at" \in DOMAIN caller'[p] /\ caller'[p].at \in DOMAIN Given(p),
         Adds, others' = others,
         caller[p].step = "place" /\ caller[p].kind = "post" => caller[p].session \in DOMAIN graph'.session,
         step = "replace" => \A e \in caller'[p].edges : Fits(graph', e)
  PROVE  LiveInv'
<1>1. caller[p].kind \in {"post", "history"}
  BY Busy DEF LiveInv
<1>2. CallersInv' /\ OneHistory'
  BY <1>1, CallersMove DEF LiveInv
<1>3. Grows(graph, graph')
  BY DEF Adds, Grows
<1>4. ASSUME "crossed" \notin others'
      PROVE  Apart' /\ Ordinals' /\ Replaced'
  <2>1. Apart /\ Ordinals /\ Replaced
    BY <1>4 DEF LiveInv
  <2>2. Apart'
    BY <1>1, <2>1, ApartMoves DEF LiveInv, Adds
  <2>3. caller[p].kind = "post" => caller[p].session \in DOMAIN graph'.session
    BY <2>1 DEF Ordinals, Adds
  <2>4. Ordinals'
    BY <2>1, <2>3, OrdinalsMove DEF LiveInv, Adds
  <2>5. Replaced'
    BY <2>1, <1>3, ReplacedMoves DEF Adds
  <2> QED
    BY <2>2, <2>4, <2>5
<1> QED
  BY <1>2, <1>4 DEF LiveInv, Adds

-----------------------------------------------------------------------------
(***************************************************************************)
(* The steps.                                                              *)
(***************************************************************************)

LEMMA PlaceKeeps ==
  ASSUME LiveInv, NEW p \in Callers, Place(p), others' = others
  PROVE  LiveInv'
<1>1. caller[p].step = "place" /\ GoOn(p, "link", <<>>)
  BY DEF Place, AtStep
<1>2. Moves(p, "link")
  BY <1>1, GoOnMoves DEF LiveInv
<1> DEFINE new == [s \in Range(Given(p)) |-> OrdinalOf(p, CHOOSE i \in DOMAIN Given(p) : Given(p)[i] = s)]
<1>3. DOMAIN graph = Fields /\ graph' = [graph EXCEPT !.session = Over(new, graph.session)]
  BY DEF Place, LiveInv, GraphInv
<1>4. DOMAIN new = Range(Given(p))
  OBVIOUS
<1> HIDE DEF new
<1>5. /\ DOMAIN graph' = Fields /\ \A x \in Fields : x # "session" => graph'[x] = graph[x]
      /\ graph'.session = Over(new, graph.session)
  BY <1>3 DEF Fields
<1>6. DOMAIN graph'.session = Range(Given(p)) \cup DOMAIN graph.session
  <2>1. DOMAIN Over(new, graph.session) = DOMAIN new \cup DOMAIN graph.session
    BY OverIs
  <2> QED
    BY <1>4, <1>5, <2>1
<1>7. /\ graph'.claim = graph.claim /\ graph'.slot = graph.slot /\ graph'.fills = graph.fills
      /\ graph'.replaced = graph.replaced /\ graph'.user = graph.user
  BY <1>5 DEF Fields
<1>8. Adds
  BY <1>5, <1>6, <1>7 DEF Adds, GraphInv, Ordered, LiveInv
<1>9. caller[p].kind = "post" => caller[p].session \in DOMAIN graph'.session
  BY <1>6 DEF Given, Range
<1> QED
  BY <1>1, <1>2, <1>8, <1>9, AddingKeeps DEF Removing

LEMMA LinkKeeps ==
  ASSUME LiveInv, NEW p \in Callers, Link(p), others' = others
  PROVE  LiveInv'
<1>1. caller[p].step = "link" /\ GoOn(p, "name", <<>>)
  BY DEF Link, AtStep
<1>2. Moves(p, "name")
  BY <1>1, GoOnMoves DEF LiveInv
<1>3. PICK linked, user : /\ graph' = [graph EXCEPT !.linked = linked, !.user = user]
                          /\ user \in {graph.user, readUserStats}
  BY DEF Link
<1>4. DOMAIN graph = Fields
  BY DEF LiveInv, GraphInv
<1>5. /\ DOMAIN graph' = Fields /\ graph'.user = user
      /\ graph'.claim = graph.claim /\ graph'.slot = graph.slot /\ graph'.fills = graph.fills
      /\ graph'.replaced = graph.replaced /\ graph'.session = graph.session
  BY <1>3, <1>4 DEF Fields
<1>6. user # None => user.sessions \in Nat
  BY <1>3 DEF readUserStats, NoStats, LiveInv, GraphInv
<1>7. Adds
  BY <1>5, <1>6 DEF Adds, GraphInv, Ordered, LiveInv
<1> QED
  BY <1>1, <1>2, <1>7, AddingKeeps DEF Removing

LEMMA NameKeeps ==
  ASSUME LiveInv, NEW p \in Callers, Name(p), others' = others
  PROVE  LiveInv'
<1>1. PICK reconciled, read :
        caller[p].step = "name" /\ GoOn(p, "write", [reconciled |-> reconciled, read |-> read, at |-> 1])
  BY DEF Name, AtStep
<1> DEFINE known == [reconciled |-> reconciled, read |-> read, at |-> 1]
<1>2. DOMAIN known = {"reconciled", "read", "at"} /\ known["at"] = 1
  OBVIOUS
<1> HIDE DEF known
<1>3. Moves(p, "write") /\ "at" \in DOMAIN caller'[p] /\ caller'[p]["at"] = 1
  BY <1>1, <1>2, GoOnMoves DEF LiveInv, known
<1>4. 1 \in DOMAIN Given(p)
  <2>1. caller[p].kind \in {"post", "history"} /\ (caller[p].kind = "history" => History # <<>>)
    BY <1>1, Busy DEF LiveInv, CallersInv, CallerInv
  <2> QED
    BY <2>1, HistoryAssumption DEF Given
<1>5. Adds
  BY DEF Name, Adds, LiveInv, GraphInv, Ordered
<1> QED
  BY <1>1, <1>3, <1>4, <1>5, AddingKeeps DEF Removing

\* A session that is written adds its claims, and edges and slots of theirs.
LEMMA WriteAdds ==
  ASSUME GraphInv, NEW r, NEW s \in Sessions, NEW ord \in Nat, graph' = writeSession(graph, r, s, ord)
  PROVE  /\ GraphInv'
         /\ graph'.claim = Over([c \in ClaimsOf[s] |-> ord], graph.claim)
         /\ graph.fills \subseteq graph'.fills /\ DOMAIN graph.slot \subseteq DOMAIN graph'.slot
         /\ graph'.session = graph.session /\ graph'.replaced = graph.replaced
<1> DEFINE filled == {<<c, SlotKey(r, c)>> : c \in Slotted(ClaimsOf[s])}
           slots == {SlotKey(r, c) : c \in Slotted(ClaimsOf[s])}
           zero == [k \in slots |-> 0]
           given == [c \in ClaimsOf[s] |-> ord]
<1>1. PICK entity, df, mentions, hits, names :
        graph' = [graph EXCEPT !.entity = entity, !.claim = Over(given, @), !.slot = Over(@, zero),
                               !.df = df, !.mentions = mentions, !.fills = @ \cup filled,
                               !.hits = hits, !.names = names]
  BY DEF writeSession
<1> HIDE DEF zero, given, filled
<1>2. /\ DOMAIN graph' = Fields
      /\ graph'.claim = Over(given, graph.claim) /\ graph'.slot = Over(graph.slot, zero)
      /\ graph'.fills = graph.fills \cup filled
      /\ graph'.session = graph.session /\ graph'.replaced = graph.replaced /\ graph'.user = graph.user
  <2>1. DOMAIN graph = Fields
    BY DEF GraphInv
  <2> QED
    BY <1>1, <2>1 DEF Fields
<1>3. DOMAIN given = ClaimsOf[s] /\ \A c \in ClaimsOf[s] : given[c] = ord
  BY DEF given
<1>4. DOMAIN zero = slots
  BY DEF zero
<1>5. /\ DOMAIN graph'.claim = ClaimsOf[s] \cup DOMAIN graph.claim
      /\ \A c \in ClaimsOf[s] : graph'.claim[c] = ord
      /\ \A c \in DOMAIN graph.claim : c \notin ClaimsOf[s] => graph'.claim[c] = graph.claim[c]
  <2>1. /\ DOMAIN Over(given, graph.claim) = DOMAIN given \cup DOMAIN graph.claim
        /\ \A c \in DOMAIN given : Over(given, graph.claim)[c] = given[c]
        /\ \A c \in DOMAIN graph.claim : c \notin DOMAIN given => Over(given, graph.claim)[c] = graph.claim[c]
    BY OverIs
  <2> QED
    BY <1>2, <1>3, <2>1
<1>6. DOMAIN graph'.slot = DOMAIN graph.slot \cup slots
  <2>1. DOMAIN Over(graph.slot, zero) = DOMAIN graph.slot \cup DOMAIN zero
    BY OverIs
  <2> QED
    BY <1>2, <1>4, <2>1
<1>7. \A f \in filled : f = <<f[1], f[2]>> /\ f[1] \in ClaimsOf[s] /\ f[2] \in slots
  BY DEF filled, Slotted
<1>8. ClaimsOf[s] \subseteq Claims
  BY ExtractionAssumption
<1>9. Ordered(graph)
  BY DEF GraphInv
<1> HIDE DEF slots
<1>10. Ordered(graph')
  <2>1. DOMAIN graph'.claim \subseteq Claims
    BY <1>5, <1>8, <1>9 DEF Ordered
  <2>2. \A c \in DOMAIN graph'.claim : graph'.claim[c] \in Nat
    BY <1>5, <1>9 DEF Ordered
  <2>3. \A f \in graph'.fills : f = <<f[1], f[2]>> /\ f[1] \in DOMAIN graph'.claim /\ f[2] \in DOMAIN graph'.slot
    BY <1>2, <1>5, <1>6, <1>7, <1>9 DEF Ordered
  <2> QED
    BY <2>1, <2>2, <2>3 DEF Ordered
<1>11. GraphInv'
  BY <1>2, <1>10 DEF GraphInv
<1> QED
  BY <1>2, <1>6, <1>11 DEF given

\* What a caller writes of a session that is its own.
LEMMA GivenIs ==
  ASSUME CallersInv, NEW p \in Callers, caller[p].step \in {"write", "linkNames"}
  PROVE  /\ caller[p].at \in DOMAIN Given(p) /\ Given(p)[caller[p].at] \in Sessions
         /\ OrdinalOf(p, caller[p].at) \in Nat
         /\ caller[p].kind = "post" =>
              /\ Given(p)[caller[p].at] = caller[p].session
              /\ OrdinalOf(p, caller[p].at) = caller[p].before.sessions + 1
         /\ caller[p].kind = "history" =>
              /\ caller[p].at \in DOMAIN History /\ Given(p)[caller[p].at] = History[caller[p].at]
              /\ OrdinalOf(p, caller[p].at) = caller[p].at
<1>1. caller[p].at \in DOMAIN Given(p) /\ CallerInv(p)
  BY DEF CallersInv, CallerInv
<1>2. caller[p].kind \in {"post", "history"}
  BY Busy
<1>3. CASE caller[p].kind = "post"
  <2>1. Given(p) = <<caller[p].session>> /\ caller[p].at = 1
    BY <1>1, <1>3 DEF Given
  <2> QED
    BY <1>1, <1>3, <2>1, IngestAssumption DEF OrdinalOf, CallerInv
<1>4. CASE caller[p].kind = "history"
  <2>1. Given(p) = History
    BY <1>4 DEF Given
  <2>2. History \in Seq(Sessions)
    BY HistoryAssumption
  <2> QED
    BY <1>1, <1>4, <2>1, <2>2 DEF OrdinalOf
<1> QED
  BY <1>2, <1>3, <1>4

\* Claims are of one session, and a posted session is none of the history's.
LEMMA SessionsDiffer ==
  /\ \A s, t \in Sessions : \A c \in ClaimsOf[s] : c \in ClaimsOf[t] => s = t
  /\ \A s \in Posted : s \in Sessions /\ \A i \in DOMAIN History : History[i] # s
  /\ \A i \in DOMAIN History : History[i] \in Sessions
  /\ \A i, j \in DOMAIN History : History[i] = History[j] => i = j
<1>1. \A s, t \in Sessions : \A c \in ClaimsOf[s] : c \in ClaimsOf[t] => s = t
  BY ExtractionAssumption
<1>2. \A i \in DOMAIN History : History[i] \in Range(History)
  BY DEF Range
<1>3. \A i, j \in DOMAIN History : History[i] = History[j] => i = j
  BY HistoryAssumption DEF IsInjective
<1> QED
  BY <1>1, <1>2, <1>3, IngestAssumption

LEMMA WriteKeeps ==
  ASSUME LiveInv, NEW p \in Callers, Write(p), others' = others
  PROVE  LiveInv'
<1> DEFINE s == Given(p)[caller[p].at]
           ord == OrdinalOf(p, caller[p].at)
<1>1. /\ caller[p].step = "write" /\ GoOn(p, "linkNames", <<>>)
      /\ graph' = writeSession(graph, caller[p].reconciled, s, ord)
  BY DEF Write, AtStep
<1>2. CallersInv /\ OneHistory /\ GraphInv /\ Ordered(graph)
  BY DEF LiveInv, GraphInv
<1>3. /\ caller[p].kind \in {"post", "history"} /\ s \in Sessions /\ ord \in Nat
      /\ caller[p].kind = "post" => s = caller[p].session /\ ord = caller[p].before.sessions + 1
      /\ caller[p].kind = "history" => caller[p].at \in DOMAIN History /\ s = History[caller[p].at] /\ ord = caller[p].at
  BY <1>1, <1>2, GivenIs, Busy
<1>4. /\ Moves(p, "linkNames")
      /\ "at" \in DOMAIN caller'[p] /\ caller'[p].at = caller[p].at /\ caller[p].at \in DOMAIN Given(p)
  <2>1. "at" \in DOMAIN caller[p] /\ caller[p].at \in DOMAIN Given(p)
    BY <1>1, <1>2 DEF CallersInv, CallerInv
  <2> QED
    BY <1>1, <1>2, <2>1, GoOnMoves
<1> HIDE DEF s, ord
<1>5. /\ GraphInv'
      /\ graph'.claim = Over([c \in ClaimsOf[s] |-> ord], graph.claim)
      /\ graph.fills \subseteq graph'.fills /\ DOMAIN graph.slot \subseteq DOMAIN graph'.slot
      /\ graph'.session = graph.session /\ graph'.replaced = graph.replaced
  BY <1>1, <1>2, <1>3, WriteAdds
<1>6. /\ DOMAIN graph'.claim = ClaimsOf[s] \cup DOMAIN graph.claim
      /\ \A c \in ClaimsOf[s] : graph'.claim[c] = ord
      /\ \A c \in DOMAIN graph.claim : c \notin ClaimsOf[s] => graph'.claim[c] = graph.claim[c]
  <2> DEFINE given == [c \in ClaimsOf[s] |-> ord]
  <2>1. DOMAIN given = ClaimsOf[s] /\ (\A c \in ClaimsOf[s] : given[c] = ord) /\ graph'.claim = Over(given, graph.claim)
    BY <1>5
  <2> HIDE DEF given
  <2>2. /\ DOMAIN Over(given, graph.claim) = DOMAIN given \cup DOMAIN graph.claim
        /\ \A c \in DOMAIN given : Over(given, graph.claim)[c] = given[c]
        /\ \A c \in DOMAIN graph.claim : c \notin DOMAIN given => Over(given, graph.claim)[c] = graph.claim[c]
    BY OverIs
  <2> QED
    BY <2>1, <2>2
<1>7. CallersInv' /\ OneHistory'
  BY <1>2, <1>3, <1>4, CallersMove DEF Removing
<1>8. ASSUME "crossed" \notin others'
      PROVE  Apart' /\ Ordinals' /\ Replaced'
  <2>1. Apart /\ Ordinals /\ Replaced
    BY <1>8 DEF LiveInv
  <2>2. Apart'
    BY <1>1, <1>2, <1>3, <1>4, <2>1, ApartMoves DEF Removing
  <2>3. \A q \in Callers : caller'[q].kind = "post" =>
          /\ caller[q].kind = "post" /\ caller[q].session \in Posted
          /\ caller'[q].session = caller[q].session /\ caller'[q].before = caller[q].before
          /\ caller[q].session = s => q = p
          /\ caller'[q].step # "place" => caller[q].step # "place"
    <3>1. \A q \in Callers : caller'[q].kind = "post" =>
            /\ caller[q].kind = "post" /\ caller[q].session \in Posted
            /\ caller'[q].session = caller[q].session /\ caller'[q].before = caller[q].before
            /\ caller'[q].step # "place" => caller[q].step # "place"
      BY <1>1, <1>2, <1>4 DEF Moves, CallersInv, CallerInv
    <3>2. \A q \in Callers : caller[q].kind = "post" /\ caller[q].session = s => q = p
      <4>1. CASE caller[p].kind = "post"
        BY <1>3, <2>1, <4>1 DEF Apart
      <4>2. CASE caller[p].kind = "history"
        BY <1>2, <1>3, <4>2, SessionsDiffer DEF CallersInv, CallerInv
      <4> QED
        BY <1>3, <4>1, <4>2
    <3> QED
      BY <3>1, <3>2
  <2>4. s \in Posted => caller[p].kind = "post" /\ s \in DOMAIN graph.session
    BY <1>1, <1>3, <2>1, SessionsDiffer DEF Ordinals
  <2>5. \A i \in DOMAIN History : s = History[i] => ord = i
    <3>1. CASE caller[p].kind = "post"
      BY <1>2, <1>3, <3>1, SessionsDiffer DEF CallersInv, CallerInv
    <3>2. CASE caller[p].kind = "history"
      BY <1>3, <3>2, SessionsDiffer
    <3> QED
      BY <1>3, <3>1, <3>2
  <2>6. \A t \in Posted : \A c \in ClaimsOf[t] : c \in DOMAIN graph'.claim => t \in DOMAIN graph'.session
    <3> TAKE t \in Posted
    <3> TAKE c \in ClaimsOf[t]
    <3>1. CASE c \in ClaimsOf[s]
      BY <1>3, <1>5, <2>4, <3>1, SessionsDiffer
    <3>2. CASE c \notin ClaimsOf[s]
      BY <1>5, <1>6, <2>1, <3>2 DEF Ordinals
    <3> QED
      BY <3>1, <3>2
  <2>7. \A q \in Callers :
          caller'[q].kind = "post" /\ caller'[q].step # "place" => caller'[q].session \in DOMAIN graph'.session
    BY <1>5, <2>1, <2>3 DEF Ordinals
  <2>8. ASSUME NEW q \in Callers, caller'[q].kind = "post", NEW c \in ClaimsOf[caller'[q].session], c \in DOMAIN graph'.claim
        PROVE  graph'.claim[c] = caller'[q].before.sessions + 1
    <3>1. CASE c \in ClaimsOf[s]
      <4>1. q = p
        BY <1>3, <2>3, <2>8, <3>1, SessionsDiffer
      <4> QED
        BY <1>3, <1>6, <2>3, <2>8, <3>1, <4>1
    <3>2. CASE c \notin ClaimsOf[s]
      BY <1>6, <2>1, <2>3, <2>8, <3>2 DEF Ordinals
    <3> QED
      BY <3>1, <3>2
  <2>9. \A i \in DOMAIN History : \A c \in ClaimsOf[History[i]] : c \in DOMAIN graph'.claim => graph'.claim[c] = i
    <3> TAKE i \in DOMAIN History
    <3> TAKE c \in ClaimsOf[History[i]]
    <3>1. CASE c \in ClaimsOf[s]
      <4>1. s = History[i]
        BY <1>3, <3>1, SessionsDiffer
      <4> QED
        BY <1>6, <2>5, <3>1, <4>1
    <3>2. CASE c \notin ClaimsOf[s]
      BY <1>6, <2>1, <3>2 DEF Ordinals
    <3> QED
      BY <3>1, <3>2
  <2>10. Ordinals'
    BY <2>6, <2>7, <2>8, <2>9 DEF Ordinals
  <2>11. \A c \in ClaimsOf[s] : c \in DOMAIN graph.claim => graph.claim[c] = ord
    BY <1>3, <2>1 DEF Ordinals
  <2>12. Grows(graph, graph')
    BY <1>5, <1>6, <2>11 DEF Grows
  <2>13. Replaced'
    BY <1>4, <1>5, <2>1, <2>12, ReplacedMoves
  <2> QED
    BY <2>2, <2>10, <2>13
<1> QED
  BY <1>5, <1>7, <1>8 DEF LiveInv

LEMMA LinkNamesKeeps ==
  ASSUME LiveInv, NEW p \in Callers, LinkNames(p), others' = others
  PROVE  LiveInv'
<1> DEFINE more == caller[p].at < Len(Given(p))
           next == [at |-> caller[p].at + 1]
<1>1. caller[p].step = "linkNames"
  BY DEF LinkNames, AtStep
<1>2. /\ more => GoOn(p, "write", next)
      /\ ~more => \E step \in {"readCounts", "count"} : GoOn(p, step, <<>>)
  BY DEF LinkNames
<1>3. DOMAIN next = {"at"} /\ next["at"] = caller[p].at + 1
  OBVIOUS
<1>4. more => caller[p].at + 1 \in DOMAIN Given(p)
  <2>1. caller[p].at \in DOMAIN Given(p)
    BY <1>1, GivenIs DEF LiveInv
  <2>2. CASE caller[p].kind = "post"
    BY <2>1, <2>2 DEF Given
  <2>3. CASE caller[p].kind # "post"
    BY <2>1, <2>3, HistoryAssumption DEF Given
  <2> QED
    BY <2>2, <2>3
<1>5. Adds
  <2>1. PICK linked : graph' = [graph EXCEPT !.linked = linked]
    BY DEF LinkNames, linkSession
  <2>2. DOMAIN graph = Fields
    BY DEF LiveInv, GraphInv
  <2>3. /\ DOMAIN graph' = Fields /\ graph'.user = graph.user
        /\ graph'.claim = graph.claim /\ graph'.slot = graph.slot /\ graph'.fills = graph.fills
        /\ graph'.replaced = graph.replaced /\ graph'.session = graph.session
    BY <2>1, <2>2 DEF Fields
  <2> QED
    BY <2>3 DEF Adds, GraphInv, Ordered, LiveInv
<1>6. CASE more
  <2> HIDE DEF next
  <2>1. Moves(p, "write") /\ "at" \in DOMAIN caller'[p] /\ caller'[p]["at"] = caller[p].at + 1
    BY <1>2, <1>3, <1>6, GoOnMoves DEF LiveInv
  <2> QED
    BY <1>1, <1>4, <1>5, <1>6, <2>1, AddingKeeps DEF Removing
<1>7. CASE ~more
  <2>1. PICK step \in {"readCounts", "count"} : GoOn(p, step, <<>>)
    BY <1>2, <1>7
  <2>2. Moves(p, step)
    BY <2>1, GoOnMoves DEF LiveInv
  <2> QED
    BY <1>1, <1>5, <2>1, <2>2, AddingKeeps DEF Removing
<1> QED
  BY <1>6, <1>7

LEMMA ReadCountsKeeps ==
  ASSUME LiveInv, NEW p \in Callers, ReadCounts(p), others' = others
  PROVE  LiveInv'
<1>1. PICK df, slots : caller[p].step = "readCounts" /\ GoOn(p, "count", [df |-> df, slots |-> slots])
  BY DEF ReadCounts, AtStep
<1> DEFINE known == [df |-> df, slots |-> slots]
<1>2. DOMAIN known = {"df", "slots"}
  OBVIOUS
<1> HIDE DEF known
<1>3. Moves(p, "count")
  BY <1>1, <1>2, GoOnMoves DEF LiveInv, known
<1>4. Adds
  BY DEF ReadCounts, Adds, LiveInv, GraphInv, Ordered
<1> QED
  BY <1>1, <1>3, <1>4, AddingKeeps DEF Removing

LEMMA CountKeeps ==
  ASSUME LiveInv, NEW p \in Callers, Count(p), others' = others
  PROVE  LiveInv'
<1>1. PICK contested : caller[p].step = "count" /\ GoOn(p, "decide", [contested |-> contested])
  BY DEF Count, AtStep
<1> DEFINE known == [contested |-> contested]
<1>2. DOMAIN known = {"contested"}
  OBVIOUS
<1> HIDE DEF known
<1>3. Moves(p, "decide")
  BY <1>1, <1>2, GoOnMoves DEF LiveInv, known
<1>4. PICK df, slots : graph' = [graph EXCEPT !.df = df, !.slot = Over(slots, @)]
  BY DEF Count, writeCounts
<1>5. DOMAIN graph = Fields
  BY DEF LiveInv, GraphInv
<1>6. /\ DOMAIN graph' = Fields /\ graph'.user = graph.user
      /\ graph'.claim = graph.claim /\ graph'.slot = Over(slots, graph.slot) /\ graph'.fills = graph.fills
      /\ graph'.replaced = graph.replaced /\ graph'.session = graph.session
  BY <1>4, <1>5 DEF Fields
<1>7. DOMAIN graph.slot \subseteq DOMAIN graph'.slot
  <2>1. DOMAIN Over(slots, graph.slot) = DOMAIN slots \cup DOMAIN graph.slot
    BY OverIs
  <2> QED
    BY <1>6, <2>1
<1>8. Adds
  BY <1>6, <1>7 DEF Adds, GraphInv, Ordered, LiveInv
<1> QED
  BY <1>1, <1>3, <1>8, AddingKeeps DEF Removing

LEMMA DecideKeeps ==
  ASSUME LiveInv, NEW p \in Callers, Decide(p), others' = others
  PROVE  LiveInv'
<1> DEFINE asked == {h \in {readSlotClaims(graph, k) : k \in caller[p].contested} : Len(h) >= 2}
<1>1. PICK found : /\ caller[p].step = "decide"
                   /\ GoOn(p, "replace", [edges |-> UNION {detected(graph, h, found[h]) : h \in asked}])
  BY DEF Decide, AtStep
<1> DEFINE edges == UNION {detected(graph, h, found[h]) : h \in asked}
           known == [edges |-> edges]
<1>2. DOMAIN known = {"edges"} /\ known["edges"] = edges
  OBVIOUS
<1>3. GoOn(p, "replace", known)
  BY <1>1
<1>4. Adds
  BY DEF Decide, Adds, LiveInv, GraphInv, Ordered
<1>5. \A e \in edges : Fits(graph, e)
  <2> SUFFICES ASSUME NEW k \in caller[p].contested, NEW e \in detected(graph, readSlotClaims(graph, k), found[readSlotClaims(graph, k)])
               PROVE  Fits(graph, e)
    OBVIOUS
  <2> QED
    BY DetectedFit DEF LiveInv, GraphInv
<1> HIDE DEF known, edges
<1>6. Moves(p, "replace") /\ caller'[p]["edges"] = edges
  BY <1>2, <1>3, GoOnMoves DEF LiveInv
<1>7. graph' = graph
  BY DEF Decide
<1> QED
  BY <1>1, <1>4, <1>5, <1>6, <1>7, AddingKeeps DEF Removing

LEMMA ReplaceKeeps ==
  ASSUME LiveInv, NEW p \in Callers, Replace(p), others' = others
  PROVE  LiveInv'
<1> DEFINE edges == caller[p].edges
           new == [e \in edges |-> AtSession(graph, e[1], e[2])]
<1>1. /\ caller[p].step = "replace" /\ GoOn(p, "report", <<>>)
      /\ graph' = [graph EXCEPT !.replaced = Over(new, graph.replaced)]
  BY DEF Replace, AtStep, LiveInv, GraphInv, Fields
<1>2. Moves(p, "report")
  BY <1>1, GoOnMoves DEF LiveInv
<1>3. DOMAIN new = edges /\ \A e \in edges : new[e] = graph.claim[e[2]]
  BY DEF AtSession
<1> HIDE DEF new, edges
<1>4. /\ DOMAIN graph' = Fields /\ graph'.user = graph.user
      /\ graph'.claim = graph.claim /\ graph'.slot = graph.slot /\ graph'.fills = graph.fills
      /\ graph'.session = graph.session /\ graph'.replaced = Over(new, graph.replaced)
  <2>1. DOMAIN graph = Fields
    BY DEF LiveInv, GraphInv
  <2> QED
    BY <1>1, <2>1 DEF Fields
<1>5. /\ DOMAIN graph'.replaced = edges \cup DOMAIN graph.replaced
      /\ \A e \in edges : graph'.replaced[e] = graph.claim[e[2]]
      /\ \A e \in DOMAIN graph.replaced : e \notin edges => graph'.replaced[e] = graph.replaced[e]
  <2>1. /\ DOMAIN Over(new, graph.replaced) = DOMAIN new \cup DOMAIN graph.replaced
        /\ \A e \in DOMAIN new : Over(new, graph.replaced)[e] = new[e]
        /\ \A e \in DOMAIN graph.replaced : e \notin DOMAIN new => Over(new, graph.replaced)[e] = graph.replaced[e]
    BY OverIs
  <2> QED
    BY <1>3, <1>4, <2>1
<1>6. GraphInv' /\ Grows(graph, graph')
  BY <1>4 DEF GraphInv, Ordered, Grows, LiveInv
<1>7. caller[p].kind \in {"post", "history"}
  BY <1>1, Busy DEF LiveInv
<1>8. CallersInv' /\ OneHistory'
  BY <1>2, <1>7, CallersMove DEF Removing, LiveInv
<1>9. ASSUME "crossed" \notin others'
      PROVE  Apart' /\ Ordinals' /\ Replaced'
  <2>1. Apart /\ Ordinals /\ Replaced
    BY <1>9 DEF LiveInv
  <2>2. Apart'
    BY <1>2, <1>4, <1>7, <2>1, ApartMoves DEF Removing, LiveInv
  <2>3. Ordinals'
    BY <1>1, <1>2, <1>4, <2>1, OrdinalsMove DEF LiveInv, Ordinals
  <2>4. \A q \in Callers : caller'[q].step = "replace" => \A e \in caller'[q].edges : Fits(graph', e)
    BY <1>2, <1>6, <2>1, FitsKept DEF Moves, Replaced
  <2>5. ASSUME NEW e \in DOMAIN graph'.replaced
        PROVE  Fits(graph', e) /\ graph'.replaced[e] = graph'.claim[e[2]]
    <3>1. CASE e \in edges
      BY <1>1, <1>4, <1>5, <1>6, <2>1, <3>1, FitsKept DEF Replaced, edges
    <3>2. CASE e \notin edges
      BY <1>4, <1>5, <1>6, <2>1, <2>5, <3>2, FitsKept DEF Replaced
    <3> QED
      BY <3>1, <3>2
  <2> QED
    BY <2>2, <2>3, <2>4, <2>5 DEF Replaced
<1> QED
  BY <1>6, <1>8, <1>9 DEF LiveInv

\* Clearing the user is a history's work, and no one else's at the time.
LEMMA RemoverIsAlone ==
  ASSUME CallersInv, OneHistory, NEW p \in Callers, caller[p].step \in Removing
  PROVE  /\ caller[p].kind = "history"
         /\ Apart => \A q \in Callers : caller[q].kind # "post" /\ (q # p => caller[q].step = "idle")
<1>1. caller[p].kind = "history"
  BY Busy DEF CallersInv, CallerInv, Removing
<1>2. ASSUME Apart, NEW q \in Callers
      PROVE  caller[q].kind # "post" /\ (q # p => caller[q].step = "idle")
  <2>1. caller[q].kind # "post"
    BY <1>2 DEF Apart
  <2> QED
    BY <1>1, <2>1, Busy DEF OneHistory
<1> QED
  BY <1>1, <1>2

LEMMA RemoveClaimsKeeps ==
  ASSUME LiveInv, NEW p \in Callers, RemoveClaims(p), others' = others
  PROVE  LiveInv'
<1>1. caller[p].step \in Removing /\ GoOn(p, "removeTranscript", <<>>) /\ graph' = removeClaims(graph)
  BY DEF RemoveClaims, AtStep, Removing
<1>2. Moves(p, "removeTranscript")
  BY <1>1, GoOnMoves DEF LiveInv
<1>3. caller[p].kind = "history"
  BY <1>1, RemoverIsAlone DEF LiveInv
<1>4. /\ DOMAIN graph' = Fields /\ graph'.user = graph.user
      /\ DOMAIN graph'.claim = {} /\ graph'.fills = {} /\ DOMAIN graph'.replaced = {}
  BY <1>1 DEF removeClaims, EmptyGraph, Fields
<1>5. GraphInv'
  BY <1>4 DEF GraphInv, Ordered, LiveInv
<1>6. CallersInv' /\ OneHistory'
  BY <1>2, <1>3, CallersMove DEF LiveInv
<1>7. ASSUME "crossed" \notin others'
      PROVE  Apart' /\ Ordinals' /\ Replaced'
  <2>1. Apart
    BY <1>7 DEF LiveInv
  <2>2. \A q \in Callers : caller'[q].kind # "post" /\ caller'[q].step \in {"idle", "removeTranscript"}
    BY <1>1, <1>2, <2>1, RemoverIsAlone DEF Moves, LiveInv
  <2> QED
    BY <1>4, <2>2 DEF Apart, Ordinals, Replaced
<1> QED
  BY <1>5, <1>6, <1>7 DEF LiveInv

LEMMA RemoveTranscriptKeeps ==
  ASSUME LiveInv, NEW p \in Callers, RemoveTranscript(p), others' = others
  PROVE  LiveInv'
<1>1. /\ caller[p].step = "removeTranscript" /\ caller[p].step \in Removing
      /\ GoOn(p, "place", <<>>) /\ graph' = removeTranscript(graph)
  BY DEF RemoveTranscript, AtStep, Removing
<1>2. Moves(p, "place")
  BY <1>1, GoOnMoves DEF LiveInv
<1>3. caller[p].kind = "history"
  BY <1>1, RemoverIsAlone DEF LiveInv
<1>4. /\ DOMAIN graph' = Fields /\ graph'.user = graph.user
      /\ graph'.claim = graph.claim /\ graph'.slot = graph.slot /\ graph'.fills = graph.fills
      /\ graph'.replaced = graph.replaced
  <2>1. DOMAIN graph = Fields
    BY DEF LiveInv, GraphInv
  <2> QED
    BY <1>1, <2>1 DEF Fields, removeTranscript
<1>5. GraphInv' /\ Grows(graph, graph')
  BY <1>4 DEF GraphInv, Ordered, Grows, LiveInv
<1>6. CallersInv' /\ OneHistory'
  BY <1>2, <1>3, CallersMove DEF LiveInv
<1>7. ASSUME "crossed" \notin others'
      PROVE  Apart' /\ Ordinals' /\ Replaced'
  <2>1. Apart /\ Replaced
    BY <1>7 DEF LiveInv
  <2>2. \A q \in Callers : caller'[q].kind # "post"
    BY <1>1, <1>2, <2>1, RemoverIsAlone DEF Moves, LiveInv
  <2>3. DOMAIN graph'.claim = {}
    BY <1>1, <1>4, <2>1 DEF Apart
  <2>4. Apart' /\ Ordinals'
    BY <2>2, <2>3 DEF Apart, Ordinals
  <2>5. Replaced'
    BY <1>2, <1>4, <1>5, <2>1, ReplacedMoves
  <2> QED
    BY <2>4, <2>5
<1> QED
  BY <1>5, <1>6, <1>7 DEF LiveInv

\* Callers end, and the graph's claims stay.
LEMMA EndingKeeps ==
  ASSUME LiveInv, DOMAIN caller' = Callers, \A q \in Callers : caller'[q] \in {caller[q], Idle}, others' = others,
         GraphInv', graph'.claim = graph.claim, graph'.slot = graph.slot, graph'.fills = graph.fills,
         graph'.session = graph.session, graph'.replaced = graph.replaced
  PROVE  LiveInv'
<1>1. DOMAIN Idle = {"kind", "step"} /\ Idle.kind = "none" /\ Idle.step = "idle"
  BY DEF Idle
<1>2. ASSUME NEW q \in Callers PROVE CallerInv(q)'
  <2>1. CallerInv(q)
    BY DEF LiveInv, CallersInv
  <2>2. CASE caller'[q] = caller[q]
    <3>1. Given(q)' = Given(q)
      BY <2>2 DEF Given
    <3> QED
      BY <2>1, <2>2, <3>1 DEF CallerInv
  <2>3. CASE caller'[q] = Idle
    BY <1>1, <2>3 DEF CallerInv
  <2> QED
    BY <2>2, <2>3
<1>3. \A q \in Callers : caller'[q].kind # "none" => caller'[q] = caller[q]
  BY <1>1
<1>4. \A q \in Callers : caller'[q].step # "idle" => caller'[q] = caller[q]
  BY <1>1
<1>5. CallersInv' /\ OneHistory'
  BY <1>2, <1>3 DEF CallersInv, OneHistory, LiveInv
<1>6. ASSUME "crossed" \notin others'
      PROVE  Apart' /\ Ordinals' /\ Replaced'
  <2>1. Apart /\ Ordinals /\ Replaced
    BY <1>6 DEF LiveInv
  <2>2. Apart'
    BY <1>3, <1>4, <2>1 DEF Apart, Removing
  <2>3. Ordinals'
    BY <1>3, <2>1 DEF Ordinals
  <2>4. Grows(graph, graph')
    BY DEF Grows
  <2>5. Replaced'
    BY <1>4, <2>1, <2>4, FitsKept DEF Replaced
  <2> QED
    BY <2>2, <2>3, <2>5
<1> QED
  BY <1>5, <1>6 DEF LiveInv

LEMMA ReportKeeps ==
  ASSUME LiveInv, NEW p \in Callers, Report(p), others' = others
  PROVE  LiveInv'
<1>1. DOMAIN graph = Fields /\ DOMAIN caller = Callers /\ CallerInv(p)
  BY DEF LiveInv, GraphInv, CallersInv
<1>2. PICK user : /\ graph' = [graph EXCEPT !.user = user]
                  /\ user = IF caller[p].kind = "post" THEN PostStats(p) ELSE HistoryStats(p)
  BY DEF Report
<1>3. user.sessions \in Nat
  <2>1. caller[p].kind = "post" => PostStats(p).sessions = caller[p].before.sessions + 1
    BY DEF PostStats
  <2>2. HistoryStats(p).sessions = Len(History)
    BY DEF HistoryStats
  <2>3. Len(History) \in Nat
    BY HistoryAssumption
  <2> QED
    BY <1>1, <1>2, <2>1, <2>2, <2>3 DEF CallerInv
<1>4. /\ DOMAIN graph' = Fields /\ graph'.user = user
      /\ graph'.claim = graph.claim /\ graph'.slot = graph.slot /\ graph'.fills = graph.fills
      /\ graph'.session = graph.session /\ graph'.replaced = graph.replaced
  BY <1>1, <1>2 DEF Fields
<1>5. GraphInv'
  BY <1>3, <1>4 DEF GraphInv, Ordered, LiveInv
<1>6. DOMAIN caller' = Callers /\ \A q \in Callers : caller'[q] \in {caller[q], Idle}
  BY <1>1 DEF Report
<1> QED
  BY <1>4, <1>5, <1>6, EndingKeeps

LEMMA FailKeeps ==
  ASSUME LiveInv, NEW p \in Callers, Fail(p)
  PROVE  LiveInv'
<1>1. DOMAIN caller' = Callers /\ \A q \in Callers : caller'[q] \in {caller[q], Idle}
  BY DEF Fail, LiveInv, CallersInv
<1>2. graph' = graph /\ others' = others /\ GraphInv'
  BY DEF Fail, LiveInv, GraphInv
<1> QED
  BY <1>1, <1>2, EndingKeeps

LEMMA CrashKeeps ==
  ASSUME LiveInv, Crash
  PROVE  LiveInv'
<1>1. DOMAIN caller' = Callers /\ \A q \in Callers : caller'[q] \in {caller[q], Idle}
  BY DEF Crash
<1>2. graph' = graph /\ others' = others /\ GraphInv'
  BY DEF Crash, LiveInv, GraphInv
<1> QED
  BY <1>1, <1>2, EndingKeeps

\* A session that is posted is not stored, so none of its claims is.
LEMMA PostKeeps ==
  ASSUME LiveInv, NEW p \in Callers, NEW s \in Posted, Post(p, s)
  PROVE  LiveInv'
<1> DEFINE job == [kind |-> "post", step |-> "place", session |-> s, before |-> readUserStats]
<1>1. /\ s \notin DOMAIN graph.session /\ caller[p] = Idle
      /\ caller' = [caller EXCEPT ![p] = job] /\ graph' = graph /\ others \subseteq others'
      /\ (\E q \in Callers : (caller[q].kind = "post" /\ caller[q].session = s) \/ caller[q].step \in Removing)
           => "crossed" \in others'
  BY DEF Post, Begin, Removing
<1>2. /\ DOMAIN job = {"kind", "step", "session", "before"} /\ job.kind = "post" /\ job.step = "place"
      /\ job.session = s /\ job.before = readUserStats
  OBVIOUS
<1> HIDE DEF job
<1>3. DOMAIN caller' = Callers /\ caller'[p] = job /\ \A q \in Callers : q # p => caller'[q] = caller[q]
  BY <1>1 DEF LiveInv, CallersInv
<1>4. readUserStats.sessions \in Nat
  BY DEF readUserStats, NoStats, LiveInv, GraphInv
<1>5. ASSUME NEW q \in Callers PROVE CallerInv(q)'
  <2>1. CASE q = p
    BY <1>2, <1>3, <1>4, <2>1 DEF CallerInv, Removing
  <2>2. CASE q # p
    <3>1. caller'[q] = caller[q] /\ Given(q)' = Given(q) /\ CallerInv(q)
      BY <1>3, <2>2 DEF Given, LiveInv, CallersInv
    <3> QED
      BY <3>1 DEF CallerInv
  <2> QED
    BY <2>1, <2>2
<1>6. CallersInv' /\ OneHistory'
  <2>1. \A q \in Callers : caller'[q].kind = "history" => caller[q].kind = "history"
    BY <1>2, <1>3
  <2> QED
    BY <1>3, <1>5, <2>1 DEF CallersInv, OneHistory, LiveInv
<1>7. GraphInv'
  BY <1>1 DEF LiveInv, GraphInv
<1>8. ASSUME "crossed" \notin others'
      PROVE  Apart' /\ Ordinals' /\ Replaced'
  <2>1. Apart /\ Ordinals /\ Replaced
    BY <1>1, <1>8 DEF LiveInv
  <2>2. \A q \in Callers : /\ caller[q].step \notin Removing
                           /\ caller[q].kind = "post" => caller[q].session # s
    BY <1>1, <1>8
  <2>3. \A q \in Callers : caller'[q].step \notin Removing
    BY <1>2, <1>3, <2>2 DEF Removing
  <2>4. \A q, o \in Callers :
          caller'[q].kind = "post" /\ caller'[o].kind = "post" /\ caller'[q].session = caller'[o].session => q = o
    BY <1>2, <1>3, <2>1, <2>2 DEF Apart
  <2>5. Apart'
    BY <2>3, <2>4 DEF Apart, Removing
  <2>6. \A c \in ClaimsOf[s] : c \notin DOMAIN graph.claim
    BY <1>1, <2>1 DEF Ordinals
  <2>7. Ordinals'
    BY <1>1, <1>2, <1>3, <2>1, <2>6 DEF Ordinals
  <2>8. Replaced'
    BY <1>1, <1>2, <1>3, <2>1 DEF Replaced
  <2> QED
    BY <2>5, <2>7, <2>8
<1> QED
  BY <1>6, <1>7, <1>8 DEF LiveInv

LEMMA WriteHistoryKeeps ==
  ASSUME LiveInv, NEW p \in Callers, NEW reset \in BOOLEAN, WriteHistory(p, reset)
  PROVE  LiveInv'
<1> DEFINE job == [kind |-> "history", step |-> IF reset THEN "removeClaims" ELSE "place"]
<1>1. /\ History # <<>> /\ (\A q \in Callers : caller[q].kind # "history") /\ caller[p] = Idle
      /\ caller' = [caller EXCEPT ![p] = job] /\ graph' = graph /\ others \subseteq others'
      /\ reset /\ (\E q \in Callers : caller[q].kind = "post") => "crossed" \in others'
  BY DEF WriteHistory, Begin
<1>2. /\ DOMAIN job = {"kind", "step"} /\ job.kind = "history"
      /\ job.step = IF reset THEN "removeClaims" ELSE "place"
  OBVIOUS
<1> HIDE DEF job
<1>3. DOMAIN caller' = Callers /\ caller'[p] = job /\ \A q \in Callers : q # p => caller'[q] = caller[q]
  BY <1>1 DEF LiveInv, CallersInv
<1>4. ASSUME NEW q \in Callers PROVE CallerInv(q)'
  <2>1. CASE q = p
    BY <1>1, <1>2, <1>3, <2>1 DEF CallerInv
  <2>2. CASE q # p
    <3>1. caller'[q] = caller[q] /\ Given(q)' = Given(q) /\ CallerInv(q)
      BY <1>3, <2>2 DEF Given, LiveInv, CallersInv
    <3> QED
      BY <3>1 DEF CallerInv
  <2> QED
    BY <2>1, <2>2
<1>5. CallersInv' /\ OneHistory'
  <2>1. \A q \in Callers : caller'[q].kind = "history" => q = p
    BY <1>1, <1>3
  <2> QED
    BY <1>3, <1>4, <2>1 DEF CallersInv, OneHistory
<1>6. GraphInv'
  BY <1>1 DEF LiveInv, GraphInv
<1>7. ASSUME "crossed" \notin others'
      PROVE  Apart' /\ Ordinals' /\ Replaced'
  <2>1. Apart /\ Ordinals /\ Replaced
    BY <1>1, <1>7 DEF LiveInv
  <2>2. \A q \in Callers : caller'[q].kind = "post" => q # p /\ caller'[q] = caller[q] /\ caller[q].kind = "post"
    BY <1>2, <1>3
  <2>3. ASSUME NEW q \in Callers, NEW o \in Callers, caller'[q].step \in Removing
        PROVE  caller'[o].kind # "post"
    <3>1. CASE q = p
      BY <1>1, <1>2, <1>3, <1>7, <2>2, <2>3, <3>1 DEF Removing
    <3>2. CASE q # p
      BY <1>3, <2>1, <2>2, <2>3, <3>2 DEF Apart
    <3> QED
      BY <3>1, <3>2
  <2>4. \A q \in Callers : caller'[q].step = "removeTranscript" => DOMAIN graph'.claim = {}
    BY <1>1, <1>2, <1>3, <2>1 DEF Apart
  <2>5. Apart'
    BY <2>1, <2>2, <2>3, <2>4 DEF Apart
  <2>6. Ordinals'
    BY <1>1, <2>1, <2>2 DEF Ordinals
  <2>7. Replaced'
    BY <1>1, <1>2, <1>3, <2>1 DEF Replaced
  <2> QED
    BY <2>5, <2>6, <2>7
<1> QED
  BY <1>5, <1>6, <1>7 DEF LiveInv

LEMMA StutterKeeps ==
  ASSUME LiveInv, UNCHANGED liveVars
  PROVE  LiveInv'
<1>1. DOMAIN caller' = Callers /\ \A q \in Callers : caller'[q] \in {caller[q], Idle}
  BY DEF liveVars, LiveInv, CallersInv
<1>2. graph' = graph /\ others' = others /\ GraphInv'
  BY DEF liveVars, LiveInv, GraphInv
<1> QED
  BY <1>1, <1>2, EndingKeeps

\* The invariant of the older plane's callers holds, whoever crosses whom.
THEOREM LiveInvariant == LiveSpec => []LiveInv
<1>1. LiveInit => LiveInv
  BY InvInit
<1>2. LiveInv /\ [LiveNext]_liveVars => LiveInv'
  <2> SUFFICES ASSUME LiveInv, [LiveNext]_liveVars PROVE LiveInv'
    OBVIOUS
  <2>1. CASE UNCHANGED liveVars
    BY <2>1, StutterKeeps
  <2>2. CASE Crash
    BY <2>2, CrashKeeps
  <2>3. ASSUME NEW p \in Callers, NEW s \in Posted, Post(p, s) PROVE LiveInv'
    BY <2>3, PostKeeps
  <2>4. ASSUME NEW p \in Callers, NEW reset \in BOOLEAN, WriteHistory(p, reset) PROVE LiveInv'
    BY <2>4, WriteHistoryKeeps
  <2>5. ASSUME NEW p \in Callers, Fail(p) PROVE LiveInv'
    BY <2>5, FailKeeps
  <2>6. ASSUME NEW p \in Callers, Step(p) PROVE LiveInv'
    <3>1. others' = others
      BY <2>6 DEF Step
    <3> QED
      BY <2>6, <3>1, RemoveClaimsKeeps, RemoveTranscriptKeeps, PlaceKeeps, LinkKeeps, NameKeeps, WriteKeeps,
         LinkNamesKeeps, ReadCountsKeeps, CountKeeps, DecideKeeps, ReplaceKeeps, ReportKeeps DEF Step
  <2> QED
    BY <2>1, <2>2, <2>3, <2>4, <2>5, <2>6 DEF LiveNext
<1> QED
  BY <1>1, <1>2, PTL DEF LiveSpec

\* ReplacementsGoForward: a claim is replaced by one of its own slot that is not of an
\* earlier session, at that one's session, whatever the model answers and whoever else
\* writes, fails or clears in between (detect and run of Supersede.ts).
THEOREM ReplacementsHold == LiveSpec => []ReplacementsGoForward
<1>1. LiveInv => ReplacementsGoForward
  BY DEF LiveInv, Replaced, Fits, ReplacementsGoForward
<1> QED
  BY <1>1, LiveInvariant, PTL

-----------------------------------------------------------------------------
(***************************************************************************)
(* What whole histories leave: the graph that the sessions, the names and   *)
(* the model's answers determine, and how far each step has come to it.     *)
(***************************************************************************)
InHistory == Range(History)
AllClaims == UNION {ClaimsOf[s] : s \in InHistory}

\* The names of the history's entities, decided with nothing stored.
Nothing == <<>>
Reconciled == reconcile(Nothing, Incoming(AllClaims))

\* What is stored of a session, and what a graph stores: vertices by key, and edges.
Stored == {"claim", "entity", "slot", "df", "mentions", "fills", "hits", "names"}

OfSession(s) ==
  [ claim |-> ClaimsOf[s],
    entity |-> Mentioned(Reconciled, s),
    slot |-> {SlotKey(Reconciled, c) : c \in Slotted(ClaimsOf[s])},
    df |-> SessionTokens(Reconciled, s),
    mentions |-> UNION {{<<Reconciled.rename[e.canon], c>> : e \in EntitiesOf[c]} : c \in ClaimsOf[s]},
    fills |-> {<<c, SlotKey(Reconciled, c)>> : c \in Slotted(ClaimsOf[s])},
    hits |-> UNION {{<<t, c>> : t \in claimTokens(Reconciled, c)} : c \in ClaimsOf[s]},
    names |-> UNION {{<<t, n>> : t \in entityTokens(Reconciled, n)} : n \in Mentioned(Reconciled, s)} ]

Total(x) == UNION {OfSession(s)[x] : s \in InHistory}

In(g) ==
  [ claim |-> DOMAIN g.claim, entity |-> DOMAIN g.entity, slot |-> DOMAIN g.slot, df |-> DOMAIN g.df,
    mentions |-> g.mentions, fills |-> g.fills, hits |-> g.hits, names |-> g.names ]

SessionLinks == {<<"Session", s>> : s \in InHistory}
NameLinks(s) ==
  {<<"Entity", n>> : n \in Mentioned(Reconciled, s)}
    \cup {<<"Slot", SlotKey(Reconciled, c)>> : c \in Slotted(ClaimsOf[s])}
Links == SessionLinks \cup UNION {NameLinks(s) : s \in InHistory}

\* The values of the functions.
AtPlace == [s \in InHistory |-> CHOOSE i \in DOMAIN History : History[i] = s]
ClaimOrdinals == [c \in AllClaims |-> CHOOSE i \in DOMAIN History : c \in ClaimsOf[History[i]]]
Aliases == [n \in Total("entity") |-> Reconciled.entities[n]]
Fills == SlotFills(Reconciled, AllClaims)
Df == HistoryDf(Reconciled)

\* The slots asked about, their histories, and what the answers replace.
Contested == {k \in DOMAIN Fills : Fills[k] >= 2}

\* readSlotClaims and detected, of the claims and fills alone.
SlotHistory(claim, fills, k) == readSlotClaims([claim |-> claim, fills |-> fills], k)
Found(claim, h, pairs) == detected([claim |-> claim], h, pairs)

Asked == {h \in {SlotHistory(ClaimOrdinals, Total("fills"), k) : k \in Contested} : Len(h) >= 2}
Edges(a) == UNION {Found(ClaimOrdinals, h, a[h]) : h \in Asked \cap DOMAIN a}
Replacing(a) == [e \in Edges(a) |-> ClaimOrdinals[e[2]]]

Stats(a) ==
  [ claims |-> Cardinality(AllClaims), entities |-> Cardinality(DOMAIN Reconciled.entities),
    slots |-> Cardinality(DOMAIN Fills), tokens |-> Cardinality(DOMAIN Df), sessions |-> Len(History),
    supersessions |-> Cardinality(Edges(a)), contested |-> Cardinality(Contested) ]

WholeGraph(a) ==
  [ session |-> AtPlace, claim |-> ClaimOrdinals, entity |-> Aliases, slot |-> Fills, df |-> Df,
    mentions |-> Total("mentions"), fills |-> Total("fills"), hits |-> Total("hits"), names |-> Total("names"),
    replaced |-> Replacing(a), linked |-> Links, user |-> Stats(a) ]

-----------------------------------------------------------------------------
(***************************************************************************)
(* The invariant of whole histories.                                       *)
(***************************************************************************)

\* A part of a function.
PartOf(f, F) == DOMAIN f \subseteq DOMAIN F /\ f = [x \in DOMAIN f |-> F[x]]

\* The graph holds a part of what a whole history leaves.
Within ==
  /\ graph = [x \in Fields |-> graph[x]]
  /\ PartOf(graph.session, AtPlace) /\ PartOf(graph.claim, ClaimOrdinals) /\ PartOf(graph.entity, Aliases)
  /\ PartOf(graph.replaced, Replacing(answers))
  /\ \A x \in Stored : In(graph)[x] \subseteq Total(x)
  /\ graph.linked \subseteq Links

\* Counts, replacements and a graph that is settled come of answers that stay.
Answered ==
  /\ DOMAIN answers \subseteq Asked
  /\ Asked \subseteq DOMAIN answers \/ (DOMAIN graph.replaced = {} /\ settled = None /\ graph.user \in {None, NoStats})
  /\ graph.user \in {None, NoStats, Stats(answers)}
  /\ settled \in {None, WholeGraph(answers)}

Written(s) == \A x \in Stored : OfSession(s)[x] \subseteq In(graph)[x]
Named(s) == NameLinks(s) \subseteq graph.linked

Placed == {"link", "name", "write", "linkNames", "count", "decide", "replace", "report"}
Linked == Placed \ {"link"}
Knowing == Linked \ {"name"}
AllWritten == {"count", "decide", "replace", "report"}
Counted == {"decide", "replace", "report"}
Decided == {"replace", "report"}

\* How far the caller that writes a history has come.
Progress(p) ==
  /\ caller[p].step \in Placed \cup Removing \cup {"place"}
  /\ caller[p].step \in Removing => "reset" \in others
  /\ caller[p].step \in Placed => InHistory \subseteq DOMAIN graph.session
  /\ caller[p].step \in Linked => SessionLinks \subseteq graph.linked
  /\ caller[p].step \in Knowing => "reconciled" \in DOMAIN caller[p] /\ caller[p].reconciled = Reconciled
  /\ caller[p].step = "write" => \A i \in 1..(caller[p].at - 1) : Written(History[i]) /\ Named(History[i])
  /\ caller[p].step = "linkNames" => /\ \A i \in 1..caller[p].at : Written(History[i])
                                     /\ \A i \in 1..(caller[p].at - 1) : Named(History[i])
  /\ caller[p].step \in AllWritten => \A s \in InHistory : Written(s) /\ Named(s)
  /\ caller[p].step \in Counted =>
       /\ graph.df = Df /\ graph.slot = Fills
       /\ "contested" \in DOMAIN caller[p] /\ caller[p].contested = Contested
  /\ caller[p].step \in Decided =>
       Asked \subseteq DOMAIN answers /\ "edges" \in DOMAIN caller[p] /\ caller[p].edges = Edges(answers)
  /\ caller[p].step = "report" => Edges(answers) \subseteq DOMAIN graph.replaced

Complete ==
  /\ \A s \in InHistory : Written(s)
  /\ Links \subseteq graph.linked
  /\ Asked \subseteq DOMAIN answers /\ Edges(answers) \subseteq DOMAIN graph.replaced

HistoryInv ==
  "post" \notin others =>
    /\ \A p \in Callers : caller[p].kind # "post"
    /\ Within /\ Answered
    /\ \A p \in Callers : caller[p].kind = "history" => ~whole /\ Progress(p)
    /\ whole => graph = WholeGraph(answers) /\ settled = graph
    /\ others = {} => graph.user \in {None, NoStats} \/ Complete

-----------------------------------------------------------------------------
(***************************************************************************)
(* The components of names: whatever the order in which keys are taken,     *)
(* they are the least parts within which every key stays.                   *)
(***************************************************************************)

\* Which of a set's keys is taken first, and what taking it makes of the parts.
PickOf(t) == CHOOSE x \in t : TRUE

Touched(ms, key, parts) == {p \in parts : \E n \in p : key \in KeysOf(ms, n)}
Merged(ms, key, parts) == (parts \ Touched(ms, key, parts)) \cup {UNION Touched(ms, key, parts)}

Singles(ms) == {{n} : n \in DOMAIN ms}
KeysIn(ms) == UNION {KeysOf(ms, n) : n \in DOMAIN ms}

Joined(ms, g, t) == IF t = {} THEN Singles(ms) ELSE Merged(ms, PickOf(t), g[t \ {PickOf(t)}])

\* A set of numbers that is not empty has a least.
LEMMA LeastOf ==
  ASSUME NEW S \in SUBSET Nat, S # {}
  PROVE  \E x \in S : \A y \in S : x <= y
<1> DEFINE R == OpToRel(<, Nat)
<1>1. \A x, y \in Nat : <<y, x>> \in R <=> y < x
  BY DEF OpToRel
<1>2. IsWellFoundedOn(R, Nat)
  BY NatLessThanWellFounded
<1> HIDE DEF R
<1>3. PICK x \in S : \A y \in S : ~(<<y, x>> \in R)
  BY <1>2, WFMin
<1>4. \A y \in S : ~(y < x) /\ x \in Nat /\ y \in Nat
  BY <1>1, <1>3
<1> QED
  BY <1>4

\* A set of numbers that has zero, and after each the next, has them all.
LEMMA NumbersAreCovered ==
  ASSUME NEW P, 0 \in P, \A n \in Nat : n \in P => n + 1 \in P
  PROVE  Nat \subseteq P
<1> DEFINE S == {n \in Nat : n \notin P}
<1>1. SUFFICES ASSUME S # {} PROVE FALSE
  OBVIOUS
<1>2. PICK x \in S : \A y \in S : x <= y
  <2>1. S \in SUBSET Nat
    OBVIOUS
  <2> HIDE DEF S
  <2> QED
    BY <1>1, <2>1, LeastOf
<1>3. x # 0 /\ x - 1 \in Nat /\ (x - 1) + 1 = x
  BY <1>2
<1>4. x - 1 \in P
  BY <1>2, <1>3
<1> QED
  BY <1>2, <1>3, <1>4

\* A set without the one taken first is one smaller.
LEMMA WithoutPick ==
  ASSUME NEW t, IsFiniteSet(t), t # {}
  PROVE  /\ PickOf(t) \in t /\ IsFiniteSet(t \ {PickOf(t)}) /\ Cardinality(t) \in Nat
         /\ Cardinality(t \ {PickOf(t)}) \in Nat /\ Cardinality(t) = Cardinality(t \ {PickOf(t)}) + 1
<1>1. PickOf(t) \in t
  BY DEF PickOf
<1> HIDE DEF PickOf
<1>2. /\ IsFiniteSet(t \ {PickOf(t)}) /\ Cardinality(t) \in Nat
      /\ Cardinality(t \ {PickOf(t)}) = Cardinality(t) - 1
  BY <1>1, FS_RemoveElement, FS_CardinalityType
<1>3. Cardinality(t \ {PickOf(t)}) \in Nat
  BY <1>2, FS_CardinalityType
<1> QED
  BY <1>1, <1>2, <1>3

\* What holds of no keys, and of some when it holds of them without the first, holds of all.
LEMMA KeysAreCovered ==
  ASSUME NEW E, IsFiniteSet(E), NEW Q, {} \in Q,
         \A t \in SUBSET E : t # {} /\ t \ {PickOf(t)} \in Q => t \in Q
  PROVE  SUBSET E \subseteq Q
<1> DEFINE P == {n \in Nat : \A t \in SUBSET E : Cardinality(t) = n => t \in Q}
<1>1. \A t \in SUBSET E : IsFiniteSet(t) /\ Cardinality(t) \in Nat
  BY FS_Subset, FS_CardinalityType
<1>2. 0 \in P
  BY <1>1, FS_EmptySet
<1>3. ASSUME NEW n \in P PROVE n + 1 \in P
  <2> SUFFICES ASSUME NEW t \in SUBSET E, Cardinality(t) = n + 1 PROVE t \in Q
    OBVIOUS
  <2>1. t # {}
    BY FS_EmptySet
  <2>2. t \ {PickOf(t)} \in SUBSET E /\ Cardinality(t \ {PickOf(t)}) \in Nat
        /\ Cardinality(t) = Cardinality(t \ {PickOf(t)}) + 1
    BY <1>1, <2>1, WithoutPick
  <2>3. Cardinality(t \ {PickOf(t)}) = n
    BY <2>2
  <2> QED
    BY <2>1, <2>2, <2>3
<1>4. Nat \subseteq P
  <2> HIDE DEF P
  <2>1. \A n \in Nat : n \in P => n + 1 \in P
    BY <1>3
  <2> QED
    BY <1>2, <2>1, NumbersAreCovered
<1> QED
  BY <1>1, <1>4

\* There is a function that takes the keys of every set of them.
LEMMA JoiningExists ==
  ASSUME NEW ms, IsFiniteSet(KeysIn(ms))
  PROVE  \E g : DOMAIN g = SUBSET KeysIn(ms) /\ \A t \in SUBSET KeysIn(ms) : g[t] = Joined(ms, g, t)
<1> DEFINE E == KeysIn(ms)
           Upto(g, n) == DOMAIN g = SUBSET E /\ \A t \in SUBSET E : Cardinality(t) <= n => g[t] = Joined(ms, g, t)
           P == {n \in Nat : \E g : Upto(g, n)}
<1> HIDE DEF E
<1>1. \A t \in SUBSET E : IsFiniteSet(t) /\ Cardinality(t) \in Nat
  BY FS_Subset, FS_CardinalityType DEF E
<1>2. 0 \in P
  <2> DEFINE g == [t \in SUBSET E |-> Singles(ms)]
  <2>1. \A t \in SUBSET E : Cardinality(t) <= 0 => t = {}
    BY <1>1, FS_EmptySet
  <2>2. Upto(g, 0)
    BY <2>1 DEF Joined
  <2> HIDE DEF g
  <2> QED
    BY <2>2
<1>3. ASSUME NEW n \in P PROVE n + 1 \in P
  <2>1. PICK g : Upto(g, n)
    OBVIOUS
  <2> DEFINE h == [t \in SUBSET E |-> IF Cardinality(t) <= n THEN g[t] ELSE Joined(ms, g, t)]
  <2>2. ASSUME NEW t \in SUBSET E, Cardinality(t) <= n + 1 PROVE h[t] = Joined(ms, h, t)
    <3>1. CASE t = {}
      <4>1. Joined(ms, g, t) = Singles(ms) /\ Joined(ms, h, t) = Singles(ms)
        BY <3>1 DEF Joined
      <4>2. Cardinality(t) <= n
        BY <3>1, FS_EmptySet
      <4> HIDE DEF h
      <4>3. h[t] = g[t]
        BY <4>2 DEF h
      <4> QED
        BY <2>1, <4>1, <4>2, <4>3
    <3>2. CASE t # {}
      <4> DEFINE s == t \ {PickOf(t)}
      <4>1. s \in SUBSET E /\ Cardinality(s) \in Nat /\ Cardinality(t) = Cardinality(s) + 1
        BY <1>1, <3>2, WithoutPick
      <4> HIDE DEF s
      <4>2. Cardinality(s) <= n
        BY <2>2, <4>1
      <4>3. h[s] = g[s]
        BY <4>1, <4>2
      <4>4. Joined(ms, g, t) = Merged(ms, PickOf(t), g[s]) /\ Joined(ms, h, t) = Merged(ms, PickOf(t), h[s])
        BY <3>2 DEF Joined, s
      <4>5. h[t] = Joined(ms, g, t)
        BY <2>1
      <4> QED
        BY <4>3, <4>4, <4>5
    <3> QED
      BY <3>1, <3>2
  <2>3. DOMAIN h = SUBSET E
    OBVIOUS
  <2> HIDE DEF h
  <2> QED
    BY <2>2, <2>3
<1>4. Nat \subseteq P
  <2> HIDE DEF P
  <2>1. \A n \in Nat : n \in P => n + 1 \in P
    BY <1>3
  <2> QED
    BY <1>2, <2>1, NumbersAreCovered
<1>5. PICK g : Upto(g, Cardinality(E))
  <2>1. Cardinality(E) \in P
    BY <1>1, <1>4
  <2> QED
    BY <2>1
<1>6. \A t \in SUBSET E : Cardinality(t) <= Cardinality(E)
  BY <1>1, FS_Subset DEF E
<1> QED
  BY <1>5, <1>6 DEF E

\* The components are what is left when all keys are taken.
LEMMA ComponentsAreJoined ==
  ASSUME NEW ms, IsFiniteSet(KeysIn(ms))
  PROVE  \E f : /\ \A t \in SUBSET KeysIn(ms) : f[t] = Joined(ms, f, t)
                /\ components(ms) = f[KeysIn(ms)]
<1> DEFINE E == KeysIn(ms)
           base == Singles(ms)
           f == CHOOSE g : g = [s \in SUBSET E |-> IF s = {} THEN base
                                                   ELSE Merged(ms, CHOOSE x \in s : TRUE, g[s \ {CHOOSE x \in s : TRUE}])]
<1>1. components(ms) = f[E]
  BY DEF components, FoldSet, MapThenFoldSet, Merged, Touched, KeysIn, Singles
<1>2. \E g : g = [s \in SUBSET E |-> IF s = {} THEN base
                                     ELSE Merged(ms, CHOOSE x \in s : TRUE, g[s \ {CHOOSE x \in s : TRUE}])]
  <2>1. PICK g : DOMAIN g = SUBSET E /\ \A t \in SUBSET E : g[t] = Joined(ms, g, t)
    BY JoiningExists
  <2> DEFINE h == [t \in SUBSET E |-> g[t]]
  <2>2. \A t \in SUBSET E : h[t] = Joined(ms, h, t)
    <3> TAKE t \in SUBSET E
    <3>1. t \ {PickOf(t)} \in SUBSET E
      OBVIOUS
    <3>2. Joined(ms, h, t) = Joined(ms, g, t)
      BY <3>1 DEF Joined
    <3> QED
      BY <2>1, <3>2
  <2>3. h = [t \in SUBSET E |-> h[t]]
    OBVIOUS
  <2> HIDE DEF h
  <2>4. h = [s \in SUBSET E |-> IF s = {} THEN base
                                ELSE Merged(ms, CHOOSE x \in s : TRUE, h[s \ {CHOOSE x \in s : TRUE}])]
    BY <2>2, <2>3 DEF Joined, PickOf
  <2> QED
    BY <2>4
<1>3. f = [s \in SUBSET E |-> IF s = {} THEN base
                              ELSE Merged(ms, CHOOSE x \in s : TRUE, f[s \ {CHOOSE x \in s : TRUE}])]
  BY <1>2
<1> HIDE DEF f, E, base
<1>4. \A t \in SUBSET E : f[t] = Joined(ms, f, t)
  BY <1>3 DEF Joined, PickOf, base
<1> QED
  BY <1>1, <1>4 DEF E

\* Each key keeps the members of C in it apart from those out of it.
Closed(ms, C) == \A key \in KeysIn(ms) : \A m, n \in DOMAIN ms :
  key \in KeysOf(ms, m) /\ key \in KeysOf(ms, n) /\ m \in C => n \in C

\* Parts of the members that are apart, and have the keys of t within one of them each.
Parted(ms, parts) ==
  /\ \A p \in parts : p # {} /\ p \subseteq DOMAIN ms
  /\ \A n \in DOMAIN ms : \E p \in parts : n \in p
  /\ \A p, q \in parts : \A n \in p : n \in q => p = q

Together(ms, parts, t) == \A key \in t : \A m, n \in DOMAIN ms :
  key \in KeysOf(ms, m) /\ key \in KeysOf(ms, n) => \A p \in parts : m \in p => n \in p

\* No part is both in and out of a set that keys keep apart.
Least(ms, parts) == \A C : Closed(ms, C) => \A p \in parts : \A m, n \in p : m \in C => n \in C

LEMMA MergedArePartsToo ==
  ASSUME NEW ms, NEW key \in KeysIn(ms), NEW parts, Parted(ms, parts), NEW t, Together(ms, parts, t), Least(ms, parts)
  PROVE  /\ Parted(ms, Merged(ms, key, parts)) /\ Together(ms, Merged(ms, key, parts), t \cup {key})
         /\ Least(ms, Merged(ms, key, parts))
<1> DEFINE T == Touched(ms, key, parts)
           U == UNION T
           new == Merged(ms, key, parts)
<1>1. \A p : p \in T <=> p \in parts /\ \E n \in p : key \in KeysOf(ms, n)
  BY DEF Touched
<1>2. \A p : p \in new <=> (p \in parts /\ p \notin T) \/ p = U
  BY DEF Merged
<1>3. PICK a \in DOMAIN ms : key \in KeysOf(ms, a)
  BY DEF KeysIn
<1>4. \A m : m \in U <=> \E p \in T : m \in p
  OBVIOUS
<1> HIDE DEF T, U, new
<1>5. U # {} /\ U \subseteq DOMAIN ms
  <2>1. PICK p \in parts : a \in p
    BY DEF Parted
  <2>2. a \in U
    BY <1>1, <1>3, <1>4, <2>1
  <2>3. U \subseteq DOMAIN ms
    BY <1>1, <1>4 DEF Parted
  <2> QED
    BY <2>2, <2>3
<1>6. \A m \in U : \E p \in parts : m \in p /\ p \in T
  BY <1>1, <1>4
<1>7. \A p \in parts : p \notin T => \A m \in p : m \notin U
  BY <1>6 DEF Parted
<1>8. Parted(ms, new)
  <2>1. \A p \in new : p # {} /\ p \subseteq DOMAIN ms
    BY <1>2, <1>5 DEF Parted
  <2>2. \A n \in DOMAIN ms : \E p \in new : n \in p
    BY <1>2, <1>4 DEF Parted
  <2>3. \A p, q \in new : \A n \in p : n \in q => p = q
    BY <1>2, <1>7 DEF Parted
  <2> QED
    BY <2>1, <2>2, <2>3 DEF Parted
<1>9. Together(ms, new, t \cup {key})
  <2> SUFFICES ASSUME NEW k \in t \cup {key}, NEW m \in DOMAIN ms, NEW n \in DOMAIN ms,
                      k \in KeysOf(ms, m), k \in KeysOf(ms, n), NEW p \in new, m \in p
               PROVE  n \in p
    BY DEF Together
  <2>1. PICK q \in parts : m \in q
    BY DEF Parted
  <2>2. PICK r \in parts : n \in r
    BY DEF Parted
  <2>3. CASE k \in t
    <3>1. n \in q
      BY <2>1, <2>3 DEF Together
    <3>2. \A x \in parts : m \in x => n \in x
      BY <2>3 DEF Together
    <3> QED
      BY <1>2, <1>4, <1>1, <3>2
  <2>4. CASE k = key
    <3>1. q \in T /\ r \in T
      BY <1>1, <2>1, <2>2, <2>4
    <3>2. m \in U /\ n \in U /\ U \in new
      BY <1>2, <1>4, <2>1, <2>2, <3>1
    <3>3. p = U
      BY <1>8, <3>2 DEF Parted
    <3> QED
      BY <3>2, <3>3
  <2> QED
    BY <2>3, <2>4
<1>10. Least(ms, new)
  <2> SUFFICES ASSUME NEW C, Closed(ms, C), NEW p \in new, NEW m \in p, NEW n \in p, m \in C PROVE n \in C
    BY DEF Least
  <2>1. \A q \in parts : \A x, y \in q : x \in C => y \in C
    BY DEF Least
  <2>2. CASE p \in parts
    BY <2>1, <2>2
  <2>3. CASE p = U
    <3>1. PICK q \in parts : m \in q /\ q \in T
      BY <1>6, <2>3
    <3>2. PICK r \in parts : n \in r /\ r \in T
      BY <1>6, <2>3
    <3>3. PICK b \in q : key \in KeysOf(ms, b)
      BY <1>1, <3>1
    <3>4. PICK c \in r : key \in KeysOf(ms, c)
      BY <1>1, <3>2
    <3>5. b \in C
      BY <2>1, <3>1
    <3>6. b \in DOMAIN ms /\ c \in DOMAIN ms
      BY DEF Parted
    <3>7. c \in C
      BY <3>3, <3>4, <3>5, <3>6 DEF Closed
    <3> QED
      BY <2>1, <3>2, <3>7
  <2> QED
    BY <1>2, <2>2, <2>3
<1> QED
  BY <1>8, <1>9, <1>10 DEF new

LEMMA ComponentsAre ==
  ASSUME NEW ms, IsFiniteSet(KeysIn(ms))
  PROVE  /\ Parted(ms, components(ms)) /\ Together(ms, components(ms), KeysIn(ms))
         /\ Least(ms, components(ms))
<1> DEFINE E == KeysIn(ms)
<1>1. PICK f : /\ \A t \in SUBSET E : f[t] = Joined(ms, f, t)
               /\ components(ms) = f[E]
  BY ComponentsAreJoined
<1> DEFINE Q == {t \in SUBSET E : Parted(ms, f[t]) /\ Together(ms, f[t], t) /\ Least(ms, f[t])}
<1>2. {} \in Q
  <2>1. f[{}] = Singles(ms)
    BY <1>1 DEF Joined
  <2>2. \A p : p \in Singles(ms) <=> \E n \in DOMAIN ms : p = {n}
    BY DEF Singles
  <2>3. Parted(ms, Singles(ms))
    <3>1. \A n \in DOMAIN ms : {n} \in Singles(ms)
      BY <2>2
    <3>2. ASSUME NEW p \in Singles(ms), NEW q \in Singles(ms), NEW n \in p, n \in q PROVE p = q
      <4>1. PICK a \in DOMAIN ms : p = {a}
        BY <2>2
      <4>2. PICK b \in DOMAIN ms : q = {b}
        BY <2>2
      <4> QED
        BY <3>2, <4>1, <4>2
    <3>3. \A p \in Singles(ms) : p # {} /\ p \subseteq DOMAIN ms
      BY <2>2
    <3>4. \A n \in DOMAIN ms : \E p \in Singles(ms) : n \in p
      BY <3>1
    <3> QED
      BY <3>2, <3>3, <3>4 DEF Parted
  <2>4. Together(ms, Singles(ms), {})
    BY DEF Together
  <2>5. Least(ms, Singles(ms))
    BY <2>2 DEF Least
  <2> QED
    BY <2>1, <2>3, <2>4, <2>5
<1>3. ASSUME NEW t \in SUBSET E, t # {}, t \ {PickOf(t)} \in Q
      PROVE  t \in Q
  <2> DEFINE s == t \ {PickOf(t)}
  <2>1. PickOf(t) \in t
    BY <1>3 DEF PickOf
  <2>2. f[t] = Merged(ms, PickOf(t), f[s]) /\ s \cup {PickOf(t)} = t
    BY <1>1, <1>3, <2>1 DEF Joined
  <2>3. Parted(ms, f[s]) /\ Together(ms, f[s], s) /\ Least(ms, f[s]) /\ PickOf(t) \in KeysIn(ms)
    BY <1>3, <2>1
  <2> HIDE DEF s
  <2>4. Parted(ms, f[t]) /\ Together(ms, f[t], t) /\ Least(ms, f[t])
    BY <2>2, <2>3, MergedArePartsToo
  <2> QED
    BY <2>4
<1>4. E \in Q
  <2> HIDE DEF E, Q
  <2>1. IsFiniteSet(E) /\ \A t \in SUBSET E : t # {} /\ t \ {PickOf(t)} \in Q => t \in Q
    BY <1>3 DEF E
  <2>2. SUBSET E \subseteq Q
    BY <1>2, <2>1, KeysAreCovered
  <2> QED
    BY <2>2
<1> QED
  BY <1>1, <1>4

\* Parts of the same members, of which each is a union of the other's, are the same.
LEMMA PartsAreTheSame ==
  ASSUME NEW ms, NEW ns, DOMAIN ms = DOMAIN ns, NEW P, NEW Q, Parted(ms, P), Parted(ns, Q),
         \A p \in P : \A q \in Q : \A n \in p : n \in q => p \subseteq q /\ q \subseteq p
  PROVE  P = Q
<1>1. ASSUME NEW p \in P PROVE p \in Q
  <2>1. PICK n \in p : n \in DOMAIN ms
    BY DEF Parted
  <2>2. PICK q \in Q : n \in q
    BY <2>1 DEF Parted
  <2>3. p = q
    BY <2>1, <2>2
  <2> QED
    BY <2>3
<1>2. ASSUME NEW q \in Q PROVE q \in P
  <2>1. PICK n \in q : n \in DOMAIN ms
    BY DEF Parted
  <2>2. PICK p \in P : n \in p
    BY <2>1 DEF Parted
  <2>3. p = q
    BY <2>1, <2>2
  <2> QED
    BY <2>3
<1> QED
  BY <1>1, <1>2

-----------------------------------------------------------------------------
(***************************************************************************)
(* Entities that are stored under the canons decided are decided alike.     *)
(***************************************************************************)
PartWith(ms, n) == CHOOSE p \in components(ms) : n \in p
CanonIn(ms, n) == canonOf(ms, PartWith(ms, n))
NamesIn(ms, c) == (PartWith(ms, c) \cup UNION {ms[n].aliases : n \in PartWith(ms, c)}) \ {c}

CanonsIn(ms) == {CanonIn(ms, n) : n \in DOMAIN ms}
EntitiesIn(ms) == [c \in CanonsIn(ms) |-> NamesIn(ms, c)]
RenamedIn(ms) == [n \in DOMAIN ms |-> CanonIn(ms, n)]
AliasesIn(I, n) == UNION {e.aliases : e \in {i \in I : i.canon = n}}

LEMMA ReconcileIs ==
  ASSUME NEW E, NEW I, NEW ms, ms = members(E, I)
  PROVE  reconcile(E, I) = [entities |-> EntitiesIn(ms), rename |-> RenamedIn(ms)]
BY DEF reconcile, EntitiesIn, RenamedIn, CanonsIn, CanonIn, NamesIn, PartWith

LEMMA MinIs ==
  ASSUME NEW S \in SUBSET Nat, S # {}
  PROVE  Min(S) \in S /\ \A y \in S : Min(S) <= y
<1>1. \E x \in S : \A y \in S : x <= y
  BY LeastOf
<1> QED
  BY <1>1 DEF Min

LEMMA MembersAre ==
  ASSUME NEW E, NEW I
  PROVE  /\ DOMAIN members(E, I) = DOMAIN E \cup {e.canon : e \in I}
         /\ \A n \in DOMAIN E \cup {e.canon : e \in I} :
              /\ members(E, I)[n].aliases = (IF n \in DOMAIN E THEN E[n] ELSE {}) \cup AliasesIn(I, n)
              /\ members(E, I)[n].existing <=> n \in DOMAIN E
BY DEF members, AliasesIn

\* Entities called by names there are.
Callable(I) == \A e \in I : e.canon \in DOMAIN NameStems /\ e.aliases \subseteq DOMAIN NameStems

LEMMA NothingStored ==
  ASSUME NEW I, Callable(I), NEW ms, ms = members(Nothing, I)
  PROVE  /\ DOMAIN ms = {e.canon : e \in I} /\ DOMAIN ms \subseteq Nat
         /\ \A n \in DOMAIN ms : /\ ms[n].aliases = AliasesIn(I, n)
                                 /\ ~ms[n].existing
         /\ IsFiniteSet(KeysIn(ms))
         /\ \A n \in DOMAIN ms : /\ PartWith(ms, n) \in components(ms) /\ n \in PartWith(ms, n)
                                 /\ PartWith(ms, n) \subseteq DOMAIN ms
                                 /\ CanonIn(ms, n) = Min(PartWith(ms, n)) /\ CanonIn(ms, n) \in PartWith(ms, n)
         /\ \A n \in DOMAIN ms : \A m \in PartWith(ms, n) : PartWith(ms, m) = PartWith(ms, n)
<1>1. DOMAIN ms = {e.canon : e \in I}
      /\ \A n \in DOMAIN ms : /\ ms[n].aliases = AliasesIn(I, n)
                              /\ ~ms[n].existing
  <2>1. DOMAIN Nothing = {}
    BY DEF Nothing
  <2> DEFINE called == {e.canon : e \in I}
  <2> HIDE DEF called
  <2>2. /\ DOMAIN ms = DOMAIN Nothing \cup called
        /\ \A n \in DOMAIN Nothing \cup called :
             /\ ms[n].aliases = (IF n \in DOMAIN Nothing THEN Nothing[n] ELSE {}) \cup AliasesIn(I, n)
             /\ ms[n].existing <=> n \in DOMAIN Nothing
    BY MembersAre DEF called
  <2>3. DOMAIN ms = called
    BY <2>1, <2>2
  <2>4. ASSUME NEW n \in DOMAIN ms PROVE ms[n].aliases = AliasesIn(I, n) /\ ~ms[n].existing
    BY <2>1, <2>2, <2>3
  <2> QED
    BY <2>3, <2>4 DEF called
<1>2. DOMAIN ms \subseteq DOMAIN NameStems /\ DOMAIN ms \subseteq Nat
      /\ \A n \in DOMAIN ms : ms[n].aliases \subseteq DOMAIN NameStems
  BY <1>1, ExtractionAssumption DEF Callable, AliasesIn
<1>3. IsFiniteSet(KeysIn(ms))
  <2> DEFINE stems == {NameStems[x] : x \in DOMAIN NameStems}
  <2>1. IsFiniteSet(stems)
    <3> DEFINE f == [x \in DOMAIN NameStems |-> NameStems[x]]
    <3>1. f \in Surjection(DOMAIN NameStems, stems)
      BY DEF Surjection
    <3> HIDE DEF f, stems
    <3> QED
      BY <3>1, NamesAssumption, FS_Surjection
  <2>2. KeysIn(ms) \in SUBSET stems
    BY <1>2 DEF KeysIn, KeysOf
  <2> QED
    BY <2>1, <2>2, FS_Subset
<1>4. Parted(ms, components(ms))
  BY <1>3, ComponentsAre
<1>5. ASSUME NEW n \in DOMAIN ms
      PROVE  /\ PartWith(ms, n) \in components(ms) /\ n \in PartWith(ms, n)
             /\ PartWith(ms, n) \subseteq DOMAIN ms
             /\ CanonIn(ms, n) = Min(PartWith(ms, n)) /\ CanonIn(ms, n) \in PartWith(ms, n)
  <2>1. \E p \in components(ms) : n \in p
    BY <1>4 DEF Parted
  <2>2. PartWith(ms, n) \in components(ms) /\ n \in PartWith(ms, n)
    BY <2>1 DEF PartWith
  <2>3. PartWith(ms, n) \subseteq DOMAIN ms
    BY <1>4, <2>2 DEF Parted
  <2>4. {m \in PartWith(ms, n) : ms[m].existing} = {}
    BY <1>1, <2>3
  <2>5. CanonIn(ms, n) = Min(PartWith(ms, n))
    BY <2>4 DEF CanonIn, canonOf
  <2>6. Min(PartWith(ms, n)) \in PartWith(ms, n)
    BY <1>2, <2>2, <2>3, MinIs
  <2> QED
    BY <2>2, <2>3, <2>5, <2>6
<1>6. \A n \in DOMAIN ms : \A m \in PartWith(ms, n) : PartWith(ms, m) = PartWith(ms, n)
  BY <1>4, <1>5 DEF Parted
<1> QED
  BY <1>1, <1>2, <1>3, <1>5, <1>6

LEMMA ReconcilingAgain ==
  ASSUME NEW I, Callable(I), NEW E,
         DOMAIN E \subseteq DOMAIN reconcile(Nothing, I).entities,
         \A n \in DOMAIN E : E[n] = reconcile(Nothing, I).entities[n]
  PROVE  reconcile(E, I) = reconcile(Nothing, I)
<1> DEFINE ms == members(Nothing, I)
           ns == members(E, I)
           P == components(ms)
<1> HIDE DEF ms, ns, P
<1>0. ms = members(Nothing, I) /\ ns = members(E, I)
  BY DEF ms, ns
<1>1. /\ DOMAIN ms = {e.canon : e \in I} /\ DOMAIN ms \subseteq Nat
      /\ \A n \in DOMAIN ms : /\ ms[n].aliases = AliasesIn(I, n)
                              /\ ~ms[n].existing
      /\ IsFiniteSet(KeysIn(ms))
      /\ \A n \in DOMAIN ms : /\ PartWith(ms, n) \in P /\ n \in PartWith(ms, n)
                              /\ PartWith(ms, n) \subseteq DOMAIN ms
                              /\ CanonIn(ms, n) = Min(PartWith(ms, n)) /\ CanonIn(ms, n) \in PartWith(ms, n)
      /\ \A n \in DOMAIN ms : \A m \in PartWith(ms, n) : PartWith(ms, m) = PartWith(ms, n)
  BY NothingStored DEF ms, P
<1>2. Parted(ms, P) /\ Together(ms, P, KeysIn(ms)) /\ Least(ms, P)
  BY <1>1, ComponentsAre DEF P
<1> DEFINE canons == CanonsIn(ms)
<1>3. \A c \in canons : c \in DOMAIN ms /\ CanonIn(ms, c) = c
  BY <1>1 DEF CanonsIn
<1>4. DOMAIN E \subseteq canons /\ \A n \in DOMAIN E : E[n] = NamesIn(ms, n)
  <2>1. reconcile(Nothing, I).entities = EntitiesIn(ms)
    BY <1>0, ReconcileIs
  <2> QED
    BY <2>1 DEF EntitiesIn
<1> HIDE DEF canons
<1>5. DOMAIN ns = DOMAIN ms
      /\ \A n \in DOMAIN ms : /\ ns[n].aliases = (IF n \in DOMAIN E THEN E[n] ELSE {}) \cup ms[n].aliases
                              /\ ns[n].existing <=> n \in DOMAIN E
  <2>1. DOMAIN ns = DOMAIN E \cup {e.canon : e \in I}
        /\ \A n \in DOMAIN E \cup {e.canon : e \in I} :
             /\ ns[n].aliases = (IF n \in DOMAIN E THEN E[n] ELSE {})
                                  \cup AliasesIn(I, n)
             /\ ns[n].existing <=> n \in DOMAIN E
    BY MembersAre DEF ns
  <2>2. DOMAIN E \subseteq DOMAIN ms
    BY <1>3, <1>4
  <2> QED
    BY <1>1, <2>1, <2>2
<1>6. \A n \in DOMAIN ms : KeysOf(ms, n) \subseteq KeysOf(ns, n)
  BY <1>5 DEF KeysOf
<1>7. ASSUME NEW n \in DOMAIN ms, NEW key \in KeysOf(ns, n)
      PROVE  \E m \in PartWith(ms, n) : key \in KeysOf(ms, m)
  <2>1. PICK x \in {n} \cup ns[n].aliases : key = NameStems[x] /\ key # {}
    BY <1>7 DEF KeysOf
  <2>2. CASE x \in {n} \cup ms[n].aliases
    BY <1>1, <2>1, <2>2 DEF KeysOf
  <2>3. CASE n \in DOMAIN E /\ x \in E[n]
    <3>1. x \in PartWith(ms, n) \cup UNION {ms[m].aliases : m \in PartWith(ms, n)}
      BY <1>4, <2>3 DEF NamesIn
    <3>2. PICK m \in PartWith(ms, n) : x \in {m} \cup ms[m].aliases
      BY <3>1
    <3> QED
      BY <2>1, <3>2 DEF KeysOf
  <2> QED
    BY <1>5, <2>1, <2>2, <2>3
<1>8. IsFiniteSet(KeysIn(ns))
  <2>1. KeysIn(ns) \in SUBSET KeysIn(ms)
    BY <1>1, <1>5, <1>7 DEF KeysIn
  <2> QED
    BY <1>1, <2>1, FS_Subset
<1> DEFINE Q == components(ns)
<1>9. Parted(ns, Q) /\ Together(ns, Q, KeysIn(ns)) /\ Least(ns, Q)
  BY <1>8, ComponentsAre
<1> HIDE DEF Q
<1>10. ASSUME NEW p \in P, NEW q \in Q, NEW n \in p, n \in q
       PROVE  p \subseteq q /\ q \subseteq p
  <2>1. Closed(ms, q)
    <3> SUFFICES ASSUME NEW key \in KeysIn(ms), NEW a \in DOMAIN ms, NEW b \in DOMAIN ms,
                        key \in KeysOf(ms, a), key \in KeysOf(ms, b), a \in q
                 PROVE  b \in q
      BY DEF Closed
    <3>1. key \in KeysOf(ns, a) /\ key \in KeysOf(ns, b) /\ a \in DOMAIN ns /\ b \in DOMAIN ns
      BY <1>5, <1>6
    <3>2. key \in KeysIn(ns)
      BY <3>1 DEF KeysIn
    <3> QED
      BY <1>9, <3>1, <3>2 DEF Together
  <2>2. Closed(ns, p)
    <3> SUFFICES ASSUME NEW key \in KeysIn(ns), NEW a \in DOMAIN ms, NEW b \in DOMAIN ms,
                        key \in KeysOf(ns, a), key \in KeysOf(ns, b), a \in p
                 PROVE  b \in p
      BY <1>5 DEF Closed
    <3>1. PICK x \in PartWith(ms, a) : key \in KeysOf(ms, x)
      BY <1>7
    <3>2. PICK y \in PartWith(ms, b) : key \in KeysOf(ms, y)
      BY <1>7
    <3>3. PartWith(ms, a) = p
      BY <1>1, <1>2 DEF Parted
    <3>4. x \in DOMAIN ms /\ y \in DOMAIN ms /\ key \in KeysIn(ms)
      BY <1>1, <3>1, <3>2 DEF KeysIn
    <3>5. y \in p
      BY <1>2, <3>1, <3>2, <3>3, <3>4 DEF Together
    <3>6. PartWith(ms, b) = p
      BY <1>1, <1>2, <3>2, <3>5 DEF Parted
    <3> QED
      BY <1>1, <3>6
  <2>3. p \subseteq q
    BY <1>2, <1>10, <2>1 DEF Least
  <2>4. q \subseteq p
    BY <1>9, <1>10, <2>2 DEF Least
  <2> QED
    BY <2>3, <2>4
<1>11. Q = P
  BY <1>2, <1>5, <1>9, <1>10, PartsAreTheSame
<1>12. \A n : PartWith(ns, n) = PartWith(ms, n)
  BY <1>11 DEF PartWith, P, Q
<1>13. ASSUME NEW n \in DOMAIN ms PROVE CanonIn(ns, n) = CanonIn(ms, n)
  <2> DEFINE p == PartWith(ms, n)
             written == {m \in p : ns[m].existing}
             least == CanonIn(ms, n)
  <2>1. p \subseteq DOMAIN ms /\ least = Min(p) /\ least \in p /\ least \in Nat
    BY <1>1
  <2>2. CanonIn(ns, n) = Min(IF written = {} THEN p ELSE written)
    <3>1. CanonIn(ns, n) = canonOf(ns, p)
      BY <1>12 DEF CanonIn
    <3> HIDE DEF p
    <3> QED
      BY <3>1 DEF canonOf
  <2>3. \A m \in written : m = least
    <3> SUFFICES ASSUME NEW m \in p, m \in DOMAIN E PROVE m = least
      BY <1>5, <2>1
    <3>1. CanonIn(ms, m) = m
      BY <1>3, <1>4
    <3>2. CanonIn(ms, m) = CanonIn(ms, n)
      BY <1>1 DEF CanonIn
    <3> QED
      BY <3>1, <3>2
  <2> HIDE DEF written, p, least
  <2>4. CASE written = {}
    BY <2>1, <2>2, <2>4 DEF least
  <2>5. CASE written # {}
    <3>1. written = {least}
      BY <2>3, <2>5
    <3>2. Min({least}) = least
      BY <2>1, MinIs
    <3> QED
      BY <2>2, <2>5, <3>1, <3>2 DEF least
  <2> QED
    BY <2>4, <2>5
<1>14. ASSUME NEW c \in canons PROVE NamesIn(ns, c) = NamesIn(ms, c)
  <2> DEFINE p == PartWith(ms, c)
  <2>1. c \in DOMAIN ms /\ CanonIn(ms, c) = c /\ p \subseteq DOMAIN ms
    BY <1>1, <1>3
  <2>2. \A m \in p : m \in DOMAIN E => m = c
    <3> SUFFICES ASSUME NEW m \in p, m \in DOMAIN E PROVE m = c
      OBVIOUS
    <3>1. CanonIn(ms, m) = m
      BY <1>3, <1>4
    <3>2. CanonIn(ms, m) = CanonIn(ms, c)
      BY <1>1, <2>1 DEF CanonIn
    <3> QED
      BY <2>1, <3>1, <3>2
  <2>3. NamesIn(ms, c) = (p \cup UNION {ms[n].aliases : n \in p}) \ {c}
    BY DEF NamesIn
  <2>4. NamesIn(ns, c) = (p \cup UNION {ns[n].aliases : n \in p}) \ {c}
    BY <1>12 DEF NamesIn
  <2> HIDE DEF p
  <2>5. \A x : x \in NamesIn(ms, c) => x \in NamesIn(ns, c)
    BY <1>5, <2>1, <2>3, <2>4
  <2>6. ASSUME NEW x \in NamesIn(ns, c) PROVE x \in NamesIn(ms, c)
    <3>1. x # c /\ (x \in p \/ \E n \in p : x \in ns[n].aliases)
      BY <2>4
    <3>2. CASE \E n \in p : x \in ns[n].aliases
      <4>1. PICK n \in p : x \in ns[n].aliases
        BY <3>2
      <4>2. x \in ms[n].aliases \/ (n \in DOMAIN E /\ x \in E[n])
        BY <1>5, <2>1, <4>1
      <4>3. n \in DOMAIN E /\ x \in E[n] => x \in NamesIn(ms, c)
        BY <1>4, <2>2
      <4> QED
        BY <2>3, <3>1, <4>2, <4>3
    <3> QED
      BY <2>3, <3>1, <3>2
  <2> QED
    BY <2>5, <2>6
<1>15. CanonsIn(ns) = canons
  BY <1>5, <1>13 DEF canons, CanonsIn
<1>16. EntitiesIn(ns) = EntitiesIn(ms)
  BY <1>14, <1>15 DEF EntitiesIn, canons
<1>17. RenamedIn(ns) = RenamedIn(ms)
  BY <1>5, <1>13 DEF RenamedIn
<1> QED
  BY <1>0, <1>16, <1>17, ReconcileIs

\* What each name is written as, and that an entity is written of each.
LEMMA RenamedAre ==
  ASSUME NEW I, Callable(I)
  PROVE  /\ DOMAIN reconcile(Nothing, I).rename = {e.canon : e \in I}
         /\ DOMAIN reconcile(Nothing, I).entities = {reconcile(Nothing, I).rename[e.canon] : e \in I}
<1> DEFINE ms == members(Nothing, I)
<1> HIDE DEF ms
<1>1. DOMAIN ms = {e.canon : e \in I}
  BY NothingStored DEF ms
<1>2. reconcile(Nothing, I) = [entities |-> EntitiesIn(ms), rename |-> RenamedIn(ms)]
  <2>1. ms = members(Nothing, I)
    BY DEF ms
  <2> QED
    BY <2>1, ReconcileIs
<1> QED
  BY <1>1, <1>2 DEF EntitiesIn, RenamedIn, CanonsIn

-----------------------------------------------------------------------------
(***************************************************************************)
(* The graph a whole history leaves.                                       *)
(***************************************************************************)
LEMMA HistoryIs ==
  /\ InHistory \subseteq Sessions
  /\ \A s \in InHistory : \E i \in DOMAIN History : History[i] = s
  /\ \A i \in DOMAIN History : History[i] \in InHistory
  /\ DOMAIN History = 1..Len(History) /\ Len(History) \in Nat
  /\ AllClaims \subseteq Claims
  /\ \A c : c \in AllClaims <=> \E s \in InHistory : c \in ClaimsOf[s]
  /\ Callable(Incoming(AllClaims))
<1>1. InHistory \subseteq Sessions
  BY IngestAssumption DEF InHistory
<1>2. \A s \in InHistory : \E i \in DOMAIN History : History[i] = s
  BY DEF InHistory, Range
<1>3. \A i \in DOMAIN History : History[i] \in InHistory
  BY DEF InHistory, Range
<1>4. DOMAIN History = 1..Len(History) /\ Len(History) \in Nat
  BY HistoryAssumption
<1>5. \A c : c \in AllClaims <=> \E s \in InHistory : c \in ClaimsOf[s]
  BY DEF AllClaims
<1>6. AllClaims \subseteq Claims
  BY <1>1, <1>5, ExtractionAssumption
<1>7. Callable(Incoming(AllClaims))
  BY <1>6, NamesAssumption DEF Callable, Incoming
<1> QED
  BY <1>1, <1>2, <1>3, <1>4, <1>5, <1>6, <1>7

LEMMA OfSessionIs ==
  ASSUME NEW s
  PROVE  /\ OfSession(s)["claim"] = ClaimsOf[s]
         /\ OfSession(s)["entity"] = Mentioned(Reconciled, s)
         /\ OfSession(s)["slot"] = {SlotKey(Reconciled, c) : c \in Slotted(ClaimsOf[s])}
         /\ OfSession(s)["df"] = SessionTokens(Reconciled, s)
         /\ OfSession(s)["mentions"] = UNION {{<<Reconciled.rename[e.canon], c>> : e \in EntitiesOf[c]} : c \in ClaimsOf[s]}
         /\ OfSession(s)["fills"] = {<<c, SlotKey(Reconciled, c)>> : c \in Slotted(ClaimsOf[s])}
         /\ OfSession(s)["hits"] = UNION {{<<t, c>> : t \in claimTokens(Reconciled, c)} : c \in ClaimsOf[s]}
         /\ OfSession(s)["names"] = UNION {{<<t, n>> : t \in entityTokens(Reconciled, n)} : n \in Mentioned(Reconciled, s)}
BY DEF OfSession

LEMMA InTotal ==
  ASSUME NEW x
  PROVE  \A y : y \in Total(x) <=> \E s \in InHistory : y \in OfSession(s)[x]
BY DEF Total

\* A claim of the history, and what it fills and hits.
LEMMA TotalsAre ==
  /\ Total("claim") = AllClaims
  /\ \A f : f \in Total("fills") <=> \E c \in Slotted(AllClaims) : f = <<c, SlotKey(Reconciled, c)>>
  /\ \A h : h \in Total("hits") <=> \E c \in AllClaims : \E t \in claimTokens(Reconciled, c) : h = <<t, c>>
  /\ Total("slot") = {SlotKey(Reconciled, c) : c \in Slotted(AllClaims)}
  /\ Total("entity") = DOMAIN Reconciled.entities
  /\ \A t : t \in Total("df") <=>
       \/ \E c \in AllClaims : t \in claimTokens(Reconciled, c)
       \/ \E n \in Total("entity") : t \in entityTokens(Reconciled, n)
<1>1. \A c : c \in AllClaims <=> \E s \in InHistory : c \in ClaimsOf[s]
  BY HistoryIs
<1>2. Total("claim") = AllClaims
  <2>1. \A c : c \in Total("claim") <=> \E s \in InHistory : c \in ClaimsOf[s]
    BY InTotal, OfSessionIs
  <2> QED
    BY <1>1, <2>1
<1>3. \A f : f \in Total("fills") <=> \E c \in Slotted(AllClaims) : f = <<c, SlotKey(Reconciled, c)>>
  <2>1. \A f : f \in Total("fills") <=> \E s \in InHistory : f \in OfSession(s)["fills"]
    BY InTotal
  <2>2. \A s : \A f : f \in OfSession(s)["fills"] <=> \E c \in Slotted(ClaimsOf[s]) : f = <<c, SlotKey(Reconciled, c)>>
    BY OfSessionIs
  <2> QED
    BY <1>1, <2>1, <2>2 DEF Slotted
<1>4. \A h : h \in Total("hits") <=> \E c \in AllClaims : \E t \in claimTokens(Reconciled, c) : h = <<t, c>>
  <2>1. \A h : h \in Total("hits") <=> \E s \in InHistory : h \in OfSession(s)["hits"]
    BY InTotal
  <2>2. \A s : \A h : h \in OfSession(s)["hits"] <=> \E c \in ClaimsOf[s] : \E t \in claimTokens(Reconciled, c) : h = <<t, c>>
    BY OfSessionIs
  <2> QED
    BY <1>1, <2>1, <2>2
<1>5. Total("slot") = {SlotKey(Reconciled, c) : c \in Slotted(AllClaims)}
  <2>1. \A k : k \in Total("slot") <=> \E s \in InHistory : k \in OfSession(s)["slot"]
    BY InTotal
  <2>2. \A s : \A k : k \in OfSession(s)["slot"] <=> \E c \in Slotted(ClaimsOf[s]) : k = SlotKey(Reconciled, c)
    BY OfSessionIs
  <2>3. \A k : k \in Total("slot") <=> \E c \in Slotted(AllClaims) : k = SlotKey(Reconciled, c)
    BY <1>1, <2>1, <2>2 DEF Slotted
  <2> QED
    BY <2>3
<1>6. \A n : n \in Total("entity") <=> \E s \in InHistory : n \in Mentioned(Reconciled, s)
  BY InTotal, OfSessionIs
<1>7. Total("entity") = DOMAIN Reconciled.entities
  <2>1. DOMAIN Reconciled.entities = {Reconciled.rename[e.canon] : e \in Incoming(AllClaims)}
    BY HistoryIs, RenamedAre DEF Reconciled
  <2>2. \A s : \A n : n \in Mentioned(Reconciled, s) <=> \E c \in ClaimsOf[s] : \E e \in EntitiesOf[c] : n = Reconciled.rename[e.canon]
    BY DEF Mentioned, Incoming
  <2>3. \A n : n \in DOMAIN Reconciled.entities <=> \E c \in AllClaims : \E e \in EntitiesOf[c] : n = Reconciled.rename[e.canon]
    BY <2>1 DEF Incoming
  <2>4. \A n : n \in Total("entity") <=> n \in DOMAIN Reconciled.entities
    BY <1>1, <1>6, <2>2, <2>3
  <2> QED
    BY <2>4
<1>8. \A t : t \in Total("df") <=>
        \/ \E c \in AllClaims : t \in claimTokens(Reconciled, c)
        \/ \E n \in Total("entity") : t \in entityTokens(Reconciled, n)
  <2>1. \A t : t \in Total("df") <=> \E s \in InHistory : t \in OfSession(s)["df"]
    BY InTotal
  <2>2. \A s : \A t : t \in OfSession(s)["df"] <=>
          \/ \E c \in ClaimsOf[s] : t \in claimTokens(Reconciled, c)
          \/ \E n \in Mentioned(Reconciled, s) : t \in entityTokens(Reconciled, n)
    BY OfSessionIs DEF SessionTokens
  <2> QED
    BY <1>1, <1>6, <2>1, <2>2
<1> QED
  BY <1>2, <1>3, <1>4, <1>5, <1>7, <1>8

LEMMA WholeDomains ==
  /\ DOMAIN AtPlace = InHistory
  /\ DOMAIN ClaimOrdinals = Total("claim")
  /\ DOMAIN Aliases = Total("entity")
  /\ DOMAIN Fills = Total("slot")
  /\ DOMAIN Df = Total("df")
<1>1. DOMAIN AtPlace = InHistory
  BY DEF AtPlace
<1>2. DOMAIN ClaimOrdinals = Total("claim")
  BY TotalsAre DEF ClaimOrdinals
<1>3. DOMAIN Aliases = Total("entity")
  BY DEF Aliases
<1>4. DOMAIN Fills = Total("slot")
  BY TotalsAre DEF Fills, SlotFills
<1>5. DOMAIN Df = Total("df")
  <2> DEFINE hits == TokenHits(Reconciled, AllClaims)
             zeros == [t \in UNION {entityTokens(Reconciled, n) : n \in DOMAIN Reconciled.entities} |-> 0]
  <2>1. Df = Over(hits, zeros)
    BY DEF Df, HistoryDf, AllClaims, InHistory
  <2>2. \A t : t \in DOMAIN hits <=> \E c \in AllClaims : t \in claimTokens(Reconciled, c)
    BY DEF TokenHits
  <2>3. \A t : t \in DOMAIN zeros <=> \E n \in Total("entity") : t \in entityTokens(Reconciled, n)
    BY TotalsAre
  <2> HIDE DEF hits, zeros
  <2>4. DOMAIN Df = DOMAIN hits \cup DOMAIN zeros
    BY <2>1, OverIs
  <2> QED
    BY <2>2, <2>3, <2>4, TotalsAre
<1> QED
  BY <1>1, <1>2, <1>3, <1>4, <1>5

\* The places and ordinals of the history.
LEMMA PlacesAre ==
  ASSUME NEW i \in DOMAIN History
  PROVE  /\ History[i] \in InHistory /\ AtPlace[History[i]] = i
         /\ \A c \in ClaimsOf[History[i]] : c \in AllClaims /\ ClaimOrdinals[c] = i
<1>1. History[i] \in InHistory
  BY HistoryIs
<1>2. AtPlace[History[i]] = i
  <2> DEFINE k == CHOOSE j \in DOMAIN History : History[j] = History[i]
  <2>1. k \in DOMAIN History /\ History[k] = History[i]
    OBVIOUS
  <2>2. k = i
    BY <2>1, SessionsDiffer
  <2> QED
    BY <1>1, <2>2 DEF AtPlace
<1>3. ASSUME NEW c \in ClaimsOf[History[i]] PROVE c \in AllClaims /\ ClaimOrdinals[c] = i
  <2>1. c \in AllClaims
    BY <1>1, HistoryIs
  <2> DEFINE k == CHOOSE j \in DOMAIN History : c \in ClaimsOf[History[j]]
  <2>2. k \in DOMAIN History /\ c \in ClaimsOf[History[k]]
    OBVIOUS
  <2> HIDE DEF k
  <2>3. k = i
    BY <2>2, SessionsDiffer
  <2>4. ClaimOrdinals[c] = k
    BY <2>1 DEF ClaimOrdinals, k
  <2> QED
    BY <2>1, <2>3, <2>4
<1> QED
  BY <1>1, <1>2, <1>3

\* As many edges lead to x as there are claims they come of.
LEMMA EdgesAreCounted ==
  ASSUME NEW S, IsFiniteSet(S), NEW T, NEW f,
         \A c \in S : f[c] \in T, \A e \in T : \E c \in S : f[c] = e,
         \A c, d \in S : f[c] = f[d] => c = d
  PROVE  Cardinality(T) = Cardinality(S)
<1> DEFINE g == [c \in S |-> f[c]]
<1>1. \A c \in S : g[c] = f[c]
  OBVIOUS
<1>2. g \in [S -> T]
  OBVIOUS
<1> HIDE DEF g
<1>3. g \in Surjection(S, T) /\ g \in Injection(S, T)
  BY <1>1, <1>2 DEF Surjection, Injection, IsInjective
<1> QED
  BY <1>2, <1>3, FS_Surjection

\* A whole history's counts are what each token hits and each slot holds.
LEMMA WholeCounts ==
  /\ \A t \in DOMAIN Df : Df[t] = Cardinality({h \in Total("hits") : h[1] = t})
  /\ \A k \in DOMAIN Fills : Fills[k] = Cardinality({f \in Total("fills") : f[2] = k})
<1>0. IsFiniteSet(AllClaims)
  BY HistoryIs, HistoryAssumption, FS_Subset
<1>1. ASSUME NEW t \in DOMAIN Df PROVE Df[t] = Cardinality({h \in Total("hits") : h[1] = t})
  <2> DEFINE hits == TokenHits(Reconciled, AllClaims)
             zeros == [x \in UNION {entityTokens(Reconciled, n) : n \in DOMAIN Reconciled.entities} |-> 0]
             S == {c \in AllClaims : t \in claimTokens(Reconciled, c)}
             T == {h \in Total("hits") : h[1] = t}
  <2>1. Df = Over(hits, zeros)
    BY DEF Df, HistoryDf, AllClaims, InHistory
  <2>2. \A x : x \in DOMAIN hits <=> \E c \in AllClaims : x \in claimTokens(Reconciled, c)
    BY DEF TokenHits
  <2>3. t \in DOMAIN hits => hits[t] = Cardinality(S)
    BY DEF TokenHits
  <2>4. t \in DOMAIN zeros => zeros[t] = 0
    OBVIOUS
  <2> HIDE DEF hits, zeros
  <2>8. /\ DOMAIN Df = DOMAIN hits \cup DOMAIN zeros
        /\ \A x \in DOMAIN hits : Df[x] = hits[x]
        /\ \A x \in DOMAIN zeros : x \notin DOMAIN hits => Df[x] = zeros[x]
    <3>1. /\ DOMAIN Over(hits, zeros) = DOMAIN hits \cup DOMAIN zeros
          /\ \A x \in DOMAIN hits : Over(hits, zeros)[x] = hits[x]
          /\ \A x \in DOMAIN zeros : x \notin DOMAIN hits => Over(hits, zeros)[x] = zeros[x]
      BY OverIs
    <3> QED
      BY <2>1, <3>1
  <2>5. Df[t] = Cardinality(S)
    <3>1. CASE t \in DOMAIN hits
      BY <2>3, <2>8, <3>1
    <3>2. CASE t \notin DOMAIN hits
      <4>1. S = {}
        BY <2>2, <3>2
      <4>2. t \in DOMAIN zeros /\ Df[t] = zeros[t]
        BY <2>8, <3>2
      <4> QED
        BY <2>4, <4>1, <4>2, FS_EmptySet
    <3> QED
      BY <3>1, <3>2
  <2>6. IsFiniteSet(S)
    BY <1>0, FS_Subset
  <2>7. Cardinality(T) = Cardinality(S)
    <3> DEFINE f == [c \in S |-> <<t, c>>]
    <3>1. \A c \in S : f[c] = <<t, c>>
      OBVIOUS
    <3>2. \A c \in S : <<t, c>> \in T
      BY TotalsAre
    <3>3. \A e \in T : \E c \in S : e = <<t, c>>
      BY TotalsAre
    <3> HIDE DEF f, S, T
    <3>4. \A c, d \in S : f[c] = f[d] => c = d
      BY <3>1
    <3>5. (\A c \in S : f[c] \in T) /\ \A e \in T : \E c \in S : f[c] = e
      BY <3>1, <3>2, <3>3
    <3> QED
      BY <2>6, <3>4, <3>5, EdgesAreCounted
  <2> QED
    BY <2>5, <2>7
<1>2. ASSUME NEW k \in DOMAIN Fills PROVE Fills[k] = Cardinality({f \in Total("fills") : f[2] = k})
  <2> DEFINE S == {c \in Slotted(AllClaims) : SlotKey(Reconciled, c) = k}
             T == {f \in Total("fills") : f[2] = k}
  <2>1. Fills[k] = Cardinality(S)
    BY DEF Fills, SlotFills
  <2>2. IsFiniteSet(S)
    <3>1. S \in SUBSET AllClaims
      BY DEF Slotted
    <3> QED
      BY <1>0, <3>1, FS_Subset
  <2>3. Cardinality(T) = Cardinality(S)
    <3> DEFINE f == [c \in S |-> <<c, k>>]
    <3>1. \A c \in S : f[c] = <<c, k>>
      OBVIOUS
    <3>2. \A c \in S : <<c, k>> \in T
      BY TotalsAre
    <3>3. \A e \in T : \E c \in S : e = <<c, k>>
      BY TotalsAre
    <3> HIDE DEF f, S, T
    <3>4. \A c, d \in S : f[c] = f[d] => c = d
      BY <3>1
    <3>5. (\A c \in S : f[c] \in T) /\ \A e \in T : \E c \in S : f[c] = e
      BY <3>1, <3>2, <3>3
    <3> QED
      BY <2>2, <3>4, <3>5, EdgesAreCounted
  <2> QED
    BY <2>1, <2>3
<1> QED
  BY <1>1, <1>2

\* What is read of slots and found of answers is of the claims and fills alone.
LEMMA HistoriesAreOfTheGraph ==
  ASSUME NEW g
  PROVE  /\ \A k : readSlotClaims(g, k) = SlotHistory(g.claim, g.fills, k)
         /\ \A h, pairs : detected(g, h, pairs) = Found(g.claim, h, pairs)
BY DEF readSlotClaims, SlotHistory, Precedes, detected, Found, Forward

-----------------------------------------------------------------------------
(***************************************************************************)
(* Parts of functions, and how a caller goes on.                           *)
(***************************************************************************)
LEMMA EmptyIsPart ==
  ASSUME NEW F
  PROVE  PartOf(<<>>, F) /\ DOMAIN <<>> = {}
BY DEF PartOf

LEMMA OverParts ==
  ASSUME NEW f, NEW g, NEW F, PartOf(f, F), PartOf(g, F)
  PROVE  PartOf(Over(f, g), F) /\ DOMAIN Over(f, g) = DOMAIN f \cup DOMAIN g
<1>1. DOMAIN Over(f, g) = DOMAIN f \cup DOMAIN g
  BY OverIs
<1>2. \A x \in DOMAIN f : f[x] = F[x]
  BY DEF PartOf
<1>3. \A x \in DOMAIN g : g[x] = F[x]
  BY DEF PartOf
<1>4. Over(f, g) = [x \in DOMAIN f \cup DOMAIN g |-> F[x]]
  BY <1>2, <1>3 DEF Over
<1> QED
  BY <1>1, <1>4 DEF PartOf

LEMMA PartIsWhole ==
  ASSUME NEW f, NEW F, PartOf(f, F), DOMAIN F \subseteq DOMAIN f, PartOf(F, F)
  PROVE  f = F
<1>1. DOMAIN f = DOMAIN F
  BY DEF PartOf
<1> QED
  BY <1>1 DEF PartOf

LEMMA OverWhole ==
  ASSUME NEW f, NEW g, PartOf(f, f), DOMAIN g \subseteq DOMAIN f
  PROVE  Over(f, g) = f
<1>1. DOMAIN f \cup DOMAIN g = DOMAIN f
  OBVIOUS
<1>2. Over(f, g) = [x \in DOMAIN f |-> f[x]]
  BY <1>1 DEF Over
<1> QED
  BY <1>2 DEF PartOf

LEMMA WholesAreFunctions ==
  /\ PartOf(AtPlace, AtPlace) /\ PartOf(ClaimOrdinals, ClaimOrdinals) /\ PartOf(Aliases, Aliases)
  /\ PartOf(Fills, Fills) /\ PartOf(Df, Df) /\ \A a : PartOf(Replacing(a), Replacing(a)) /\ DOMAIN Replacing(a) = Edges(a)
<1>1. PartOf(AtPlace, AtPlace)
  BY DEF PartOf, AtPlace
<1>2. PartOf(ClaimOrdinals, ClaimOrdinals)
  BY DEF PartOf, ClaimOrdinals
<1>3. PartOf(Aliases, Aliases)
  BY DEF PartOf, Aliases
<1>4. PartOf(Fills, Fills)
  BY DEF PartOf, Fills, SlotFills
<1>5. PartOf(Df, Df)
  BY DEF PartOf, Df, HistoryDf, Over
<1>6. \A a : PartOf(Replacing(a), Replacing(a)) /\ DOMAIN Replacing(a) = Edges(a)
  BY DEF PartOf, Replacing
<1> QED
  BY <1>1, <1>2, <1>3, <1>4, <1>5, <1>6

\* What a caller knows it goes on knowing.
LEMMA GoOnKnows ==
  ASSUME CallersInv, NEW p \in Callers, NEW step, NEW known, GoOn(p, step, known), "step" \notin DOMAIN known
  PROVE  /\ \A x \in DOMAIN known : x \in DOMAIN caller'[p] /\ caller'[p][x] = known[x]
         /\ \A x \in DOMAIN caller[p] : x # "step" /\ x \notin DOMAIN known =>
              x \in DOMAIN caller'[p] /\ caller'[p][x] = caller[p][x]
<1> DEFINE old == caller[p]
           more == Over(known, old)
           one == [step |-> step]
           new == Over(one, more)
<1>1. caller' = [caller EXCEPT ![p] = new] /\ DOMAIN caller = Callers
  BY DEF GoOn, CallersInv
<1>2. caller'[p] = new
  BY <1>1
<1>3. DOMAIN one = {"step"}
  OBVIOUS
<1> HIDE DEF new, more, old, one
<1>4. /\ DOMAIN more = DOMAIN known \cup DOMAIN old
      /\ \A x \in DOMAIN known : more[x] = known[x]
      /\ \A x \in DOMAIN old : x \notin DOMAIN known => more[x] = old[x]
  BY OverIs DEF more
<1>5. /\ DOMAIN new = DOMAIN one \cup DOMAIN more
      /\ \A x \in DOMAIN more : x \notin DOMAIN one => new[x] = more[x]
  BY OverIs DEF new
<1> QED
  BY <1>2, <1>3, <1>4, <1>5 DEF old

\* The caller that writes a history is given it.
LEMMA HistorianIsGiven ==
  ASSUME NEW p, caller[p].kind = "history"
  PROVE  /\ Given(p) = History /\ GivenClaims(p) = AllClaims
         /\ \A i : OrdinalOf(p, i) = i
<1>1. Given(p) = History
  BY DEF Given
<1>2. GivenClaims(p) = AllClaims
  BY <1>1 DEF GivenClaims, AllClaims, InHistory
<1>3. \A i : OrdinalOf(p, i) = i
  BY DEF OrdinalOf
<1> QED
  BY <1>1, <1>2, <1>3

LEMMA HistoryInit == LiveInit => HistoryInv
<1> SUFFICES ASSUME LiveInit PROVE HistoryInv
  OBVIOUS
<1>1. graph = EmptyGraph /\ answers = <<>> /\ others = {} /\ settled = None /\ whole = FALSE
      /\ \A p \in Callers : caller[p] = Idle
  BY DEF LiveInit
<1>2. Idle.kind = "none"
  BY DEF Idle
<1>3. /\ graph.session = <<>> /\ graph.claim = <<>> /\ graph.entity = <<>> /\ graph.slot = <<>> /\ graph.df = <<>>
      /\ graph.mentions = {} /\ graph.fills = {} /\ graph.hits = {} /\ graph.names = {}
      /\ graph.replaced = <<>> /\ graph.linked = {} /\ graph.user = None
      /\ graph = [x \in Fields |-> graph[x]]
  BY <1>1 DEF EmptyGraph, Fields
<1>4. \A x \in Stored : In(graph)[x] = {}
  BY <1>3, EmptyIsPart DEF In, Stored
<1>5. Within
  BY <1>3, <1>4, EmptyIsPart DEF Within
<1>6. Answered
  BY <1>1, <1>3, EmptyIsPart DEF Answered
<1> QED
  BY <1>1, <1>2, <1>3, <1>5, <1>6 DEF HistoryInv

-----------------------------------------------------------------------------
(***************************************************************************)
(* The steps of whole histories.                                           *)
(***************************************************************************)

\* Nothing stored, linked or replaced is taken away.
Keeps ==
  /\ \A x \in Stored : In(graph)[x] \subseteq In(graph')[x]
  /\ graph.linked \subseteq graph'.linked
  /\ DOMAIN graph.replaced \subseteq DOMAIN graph'.replaced
  /\ DOMAIN graph.session \subseteq DOMAIN graph'.session

LEMMA WrittenStays ==
  ASSUME Keeps
  PROVE  \A s : (Written(s) => Written(s)') /\ (Named(s) => Named(s)')
BY DEF Keeps, Written, Named

LEMMA CompleteStays ==
  ASSUME Keeps, Asked \subseteq DOMAIN answers => Asked \subseteq DOMAIN answers' /\ Edges(answers') = Edges(answers),
         Complete
  PROVE  Complete'
<1>1. \A s \in InHistory : Written(s)'
  BY WrittenStays DEF Complete
<1>2. Links \subseteq graph'.linked
  BY DEF Complete, Keeps
<1>3. Asked \subseteq DOMAIN answers' /\ Edges(answers') \subseteq DOMAIN graph'.replaced
  BY DEF Complete, Keeps
<1> QED
  BY <1>1, <1>2, <1>3 DEF Complete

\* The caller that writes a history is alone, and takes a step of it.
Alone(p, step) ==
  /\ LiveInv /\ HistoryInv /\ "post" \notin others
  /\ p \in Callers /\ caller[p].kind = "history" /\ Moves(p, step)
  /\ others' = others /\ whole' = whole /\ settled' = settled

LEMMA AloneIs ==
  ASSUME NEW p, NEW step, Alone(p, step)
  PROVE  /\ CallersInv /\ DOMAIN graph = Fields /\ Within /\ Answered /\ ~whole /\ Progress(p)
         /\ Given(p) = History /\ GivenClaims(p) = AllClaims /\ \A i : OrdinalOf(p, i) = i
         /\ p \in Callers /\ caller'[p].step = step /\ caller'[p].kind = "history"
BY HistorianIsGiven DEF Alone, HistoryInv, LiveInv, GraphInv, Moves

LEMMA HistoryMoves ==
  ASSUME NEW p, NEW step, Alone(p, step), Within', Answered', Progress(p)',
         others = {} => graph'.user \in {None, NoStats} \/ Complete'
  PROVE  HistoryInv'
<1>1. ~whole /\ ~whole' /\ others' = others
  BY AloneIs DEF Alone
<1>2. \A q \in Callers : caller'[q].kind = caller[q].kind /\ caller[q].kind # "post"
  BY DEF Alone, Moves, HistoryInv
<1>3. \A q \in Callers : caller'[q].kind = "history" => q = p
  BY <1>2 DEF Alone, LiveInv, OneHistory
<1>4. \A q \in Callers : caller'[q].kind = "history" => ~whole' /\ Progress(q)'
  BY <1>1, <1>3
<1> QED
  BY <1>1, <1>2, <1>4 DEF HistoryInv

\* A step that leaves answers alone and only adds to the graph.
LEMMA AddingMoves ==
  ASSUME NEW p, NEW step, Alone(p, step), Within', Keeps, answers' = answers,
         graph'.replaced = graph.replaced, graph'.user = graph.user \/ (graph.user = None /\ graph'.user = NoStats),
         Progress(p)'
  PROVE  HistoryInv'
<1>1. Answered'
  BY AloneIs DEF Answered, Alone
<1>2. others = {} => graph'.user \in {None, NoStats} \/ Complete'
  <2>1. others = {} => graph.user \in {None, NoStats} \/ Complete
    BY DEF Alone, HistoryInv
  <2>2. Complete => Complete'
    BY CompleteStays
  <2> QED
    BY <2>1, <2>2
<1> QED
  BY <1>1, <1>2, HistoryMoves

\* A graph of which some fields are left alone.
But(S) == DOMAIN graph' = Fields /\ graph' = [x \in Fields |-> graph'[x]] /\ \A x \in Fields \ S : graph'[x] = graph[x]

LEMMA PlaceComes ==
  ASSUME NEW p, Alone(p, "link"), Place(p)
  PROVE  HistoryInv'
<1> DEFINE new == [s \in Range(Given(p)) |-> OrdinalOf(p, CHOOSE i \in DOMAIN Given(p) : Given(p)[i] = s)]
<1>1. /\ CallersInv /\ DOMAIN graph = Fields /\ Within /\ Progress(p)
      /\ Given(p) = History /\ \A i : OrdinalOf(p, i) = i
  BY AloneIs
<1>2. graph' = [graph EXCEPT !.session = Over(new, graph.session)] /\ answers' = answers
  BY DEF Place
<1>3. new = AtPlace
  BY <1>1 DEF AtPlace, InHistory
<1> HIDE DEF new
<1>4. But({"session"}) /\ graph'.session = Over(AtPlace, graph.session)
  BY <1>1, <1>2, <1>3 DEF But, Fields
<1>5. PartOf(graph'.session, AtPlace) /\ DOMAIN graph'.session = InHistory \cup DOMAIN graph.session
  <2>1. PartOf(AtPlace, AtPlace) /\ PartOf(graph.session, AtPlace) /\ DOMAIN AtPlace = InHistory
    BY <1>1, WholesAreFunctions, WholeDomains DEF Within
  <2>2. /\ PartOf(Over(AtPlace, graph.session), AtPlace)
        /\ DOMAIN Over(AtPlace, graph.session) = DOMAIN AtPlace \cup DOMAIN graph.session
    BY <2>1, OverParts
  <2> QED
    BY <1>4, <2>1, <2>2
<1>6. /\ In(graph') = In(graph) /\ graph'.linked = graph.linked /\ graph'.replaced = graph.replaced
      /\ graph'.claim = graph.claim /\ graph'.entity = graph.entity /\ graph'.user = graph.user
  BY <1>4 DEF But, Fields, In
<1>7. Within'
  BY <1>1, <1>2, <1>4, <1>5, <1>6 DEF Within, But
<1>8. Keeps
  BY <1>5, <1>6 DEF Keeps
<1>9. Progress(p)'
  <2>1. caller'[p].step = "link"
    BY AloneIs
  <2> QED
    BY <1>5, <2>1 DEF Progress, Placed, Linked, Knowing, AllWritten, Counted, Decided, Removing
<1> QED
  BY <1>2, <1>6, <1>7, <1>8, <1>9, AddingMoves

LEMMA LinkComes ==
  ASSUME NEW p, Alone(p, "name"), Link(p)
  PROVE  HistoryInv'
<1> DEFINE links == {<<"Session", s>> : s \in Range(Given(p))}
           user == IF ensured THEN graph.user ELSE readUserStats
<1>1. /\ CallersInv /\ DOMAIN graph = Fields /\ Within /\ Progress(p)
      /\ Given(p) = History
  BY AloneIs
<1>2. graph' = [graph EXCEPT !.linked = graph.linked \cup links, !.user = user] /\ answers' = answers
      /\ caller[p].step = "link"
  BY DEF Link, AtStep
<1>3. links = SessionLinks
  BY <1>1 DEF SessionLinks, InHistory
<1>4. user = graph.user \/ (user = NoStats /\ graph.user = None)
  BY DEF readUserStats
<1> HIDE DEF links, user
<1>5. But({"linked", "user"}) /\ graph'.linked = graph.linked \cup SessionLinks /\ graph'.user = user
  BY <1>1, <1>2, <1>3 DEF But, Fields
<1>6. /\ In(graph') = In(graph) /\ graph'.replaced = graph.replaced /\ graph'.session = graph.session
      /\ graph'.claim = graph.claim /\ graph'.entity = graph.entity
  BY <1>5 DEF But, Fields, In
<1>7. Within'
  BY <1>1, <1>2, <1>5, <1>6 DEF Within, But, Links
<1>8. Keeps
  BY <1>5, <1>6 DEF Keeps
<1>9. Progress(p)'
  <2>1. caller'[p].step = "name"
    BY AloneIs
  <2>2. InHistory \subseteq DOMAIN graph.session
    BY <1>1, <1>2 DEF Progress, Placed
  <2> QED
    BY <1>5, <1>6, <2>1, <2>2 DEF Progress, Placed, Linked, Knowing, AllWritten, Counted, Decided, Removing
<1> QED
  BY <1>2, <1>4, <1>5, <1>6, <1>7, <1>8, <1>9, AddingMoves

LEMMA NameComes ==
  ASSUME NEW p, Alone(p, "write"), Name(p)
  PROVE  HistoryInv'
<1> DEFINE stored == readEntities(graph)
           I == Incoming(GivenClaims(p))
           known == [reconciled |-> reconcile(stored, I), read |-> DOMAIN stored, at |-> 1]
<1>1. /\ CallersInv /\ Within /\ Progress(p) /\ p \in Callers
      /\ GivenClaims(p) = AllClaims /\ caller'[p].step = "write"
  BY AloneIs
<1>2. caller[p].step = "name" /\ graph' = graph /\ answers' = answers /\ GoOn(p, "write", known)
  BY DEF Name, AtStep
<1>3. reconcile(stored, I) = Reconciled
  <2>1. DOMAIN stored \subseteq DOMAIN graph.entity /\ \A n \in DOMAIN stored : stored[n] = graph.entity[n]
    BY DEF readEntities, Restrict
  <2>2. DOMAIN graph.entity \subseteq Total("entity") /\ \A n \in DOMAIN graph.entity : graph.entity[n] = Reconciled.entities[n]
    <3>1. DOMAIN graph.entity \subseteq DOMAIN Aliases /\ \A n \in DOMAIN graph.entity : graph.entity[n] = Aliases[n]
      BY <1>1 DEF Within, PartOf
    <3> QED
      BY <3>1, WholeDomains DEF Aliases
  <2>3. I = Incoming(AllClaims) /\ Callable(Incoming(AllClaims))
    BY <1>1, HistoryIs
  <2>4. DOMAIN stored \subseteq DOMAIN Reconciled.entities /\ \A n \in DOMAIN stored : stored[n] = Reconciled.entities[n]
    BY <2>1, <2>2, TotalsAre
  <2> HIDE DEF stored, I
  <2>5. reconcile(stored, Incoming(AllClaims)) = reconcile(Nothing, Incoming(AllClaims))
    BY <2>3, <2>4, ReconcilingAgain DEF Reconciled
  <2> QED
    BY <2>3, <2>5 DEF Reconciled
<1>4. DOMAIN known = {"reconciled", "read", "at"} /\ known["reconciled"] = Reconciled /\ known["at"] = 1
  BY <1>3
<1> HIDE DEF known
<1>5. "reconciled" \in DOMAIN caller'[p] /\ caller'[p].reconciled = Reconciled /\ caller'[p].at = 1
  BY <1>1, <1>2, <1>4, GoOnKnows
<1>6. Within' /\ Keeps
  BY <1>1, <1>2 DEF Within, Keeps
<1>7. Progress(p)'
  <2>1. InHistory \subseteq DOMAIN graph.session /\ SessionLinks \subseteq graph.linked
    BY <1>1, <1>2 DEF Progress, Placed, Linked
  <2>2. \A i \in 1..(caller'[p].at - 1) : FALSE
    BY <1>5
  <2> QED
    BY <1>1, <1>2, <1>5, <2>1, <2>2 DEF Progress, Placed, Linked, Knowing, AllWritten, Counted, Decided, Removing
<1> QED
  BY <1>2, <1>6, <1>7, AddingMoves

\* What writing a session stores of it.
LEMMA WriteStores ==
  ASSUME DOMAIN graph = Fields, NEW s, NEW ord, graph' = writeSession(graph, Reconciled, s, ord)
  PROVE  /\ \A x \in Stored : In(graph')[x] = In(graph)[x] \cup OfSession(s)[x]
         /\ graph'.claim = Over([c \in ClaimsOf[s] |-> ord], graph.claim)
         /\ graph'.entity = Over([n \in Mentioned(Reconciled, s) |-> Reconciled.entities[n]], graph.entity)
         /\ But({"entity", "claim", "slot", "df", "mentions", "fills", "hits", "names"})
<1> DEFINE r == Reconciled
           claims == ClaimsOf[s]
           named == [n \in Mentioned(r, s) |-> r.entities[n]]
           given == [c \in claims |-> ord]
           slots == [k \in {SlotKey(r, c) : c \in Slotted(claims)} |-> 0]
           tokens == [t \in SessionTokens(r, s) |-> 0]
           mentions == UNION {{<<r.rename[e.canon], c>> : e \in EntitiesOf[c]} : c \in claims}
           fills == {<<c, SlotKey(r, c)>> : c \in Slotted(claims)}
           hits == UNION {{<<t, c>> : t \in claimTokens(r, c)} : c \in claims}
           names == UNION {{<<t, n>> : t \in entityTokens(r, n)} : n \in Mentioned(r, s)}
<1>1. graph' = [graph EXCEPT !.entity = Over(named, @), !.claim = Over(given, @), !.slot = Over(@, slots),
                             !.df = Over(tokens, @), !.mentions = @ \cup mentions, !.fills = @ \cup fills,
                             !.hits = @ \cup hits, !.names = @ \cup names]
  BY DEF writeSession
<1>2. /\ DOMAIN named = OfSession(s)["entity"] /\ DOMAIN given = OfSession(s)["claim"]
      /\ DOMAIN slots = OfSession(s)["slot"] /\ DOMAIN tokens = OfSession(s)["df"]
      /\ mentions = OfSession(s)["mentions"] /\ fills = OfSession(s)["fills"]
      /\ hits = OfSession(s)["hits"] /\ names = OfSession(s)["names"]
  BY OfSessionIs
<1> HIDE DEF named, given, slots, tokens, mentions, fills, hits, names
<1>3. /\ graph'.entity = Over(named, graph.entity) /\ graph'.claim = Over(given, graph.claim)
      /\ graph'.slot = Over(graph.slot, slots) /\ graph'.df = Over(tokens, graph.df)
      /\ graph'.mentions = graph.mentions \cup mentions /\ graph'.fills = graph.fills \cup fills
      /\ graph'.hits = graph.hits \cup hits /\ graph'.names = graph.names \cup names
      /\ But({"entity", "claim", "slot", "df", "mentions", "fills", "hits", "names"})
  BY <1>1 DEF But, Fields
<1>4. /\ DOMAIN graph'.entity = DOMAIN graph.entity \cup OfSession(s)["entity"]
      /\ DOMAIN graph'.claim = DOMAIN graph.claim \cup OfSession(s)["claim"]
      /\ DOMAIN graph'.slot = DOMAIN graph.slot \cup OfSession(s)["slot"]
      /\ DOMAIN graph'.df = DOMAIN graph.df \cup OfSession(s)["df"]
  <2>1. /\ DOMAIN Over(named, graph.entity) = DOMAIN named \cup DOMAIN graph.entity
        /\ DOMAIN Over(given, graph.claim) = DOMAIN given \cup DOMAIN graph.claim
        /\ DOMAIN Over(graph.slot, slots) = DOMAIN graph.slot \cup DOMAIN slots
        /\ DOMAIN Over(tokens, graph.df) = DOMAIN tokens \cup DOMAIN graph.df
    BY OverIs
  <2> QED
    BY <1>2, <1>3, <2>1
<1>5. \A x \in Stored : In(graph')[x] = In(graph)[x] \cup OfSession(s)[x]
  BY <1>2, <1>3, <1>4 DEF In, Stored
<1> QED
  BY <1>3, <1>5 DEF named, given

LEMMA WriteComes ==
  ASSUME NEW p, Alone(p, "linkNames"), Write(p)
  PROVE  HistoryInv'
<1>0. PICK i : i = caller[p].at
  OBVIOUS
<1> DEFINE s == History[i]
           given == [c \in ClaimsOf[s] |-> i]
           named == [n \in Mentioned(Reconciled, s) |-> Reconciled.entities[n]]
<1>1. /\ CallersInv /\ DOMAIN graph = Fields /\ Within /\ Progress(p) /\ p \in Callers
      /\ Given(p) = History /\ (\A j : OrdinalOf(p, j) = j) /\ caller'[p].step = "linkNames"
  BY AloneIs
<1>2. /\ caller[p].step = "write" /\ answers' = answers /\ GoOn(p, "linkNames", <<>>)
      /\ graph' = writeSession(graph, caller[p].reconciled, Given(p)[caller[p].at], OrdinalOf(p, caller[p].at))
  BY DEF Write, AtStep
<1>3. /\ "reconciled" \in DOMAIN caller[p] /\ caller[p].reconciled = Reconciled
      /\ "at" \in DOMAIN caller[p] /\ i \in DOMAIN History
  BY <1>0, <1>1, <1>2 DEF Progress, Knowing, Linked, Placed, CallersInv, CallerInv
<1>4. graph' = writeSession(graph, Reconciled, s, i)
  BY <1>0, <1>1, <1>2, <1>3
<1>5. /\ s \in InHistory /\ \A c \in ClaimsOf[s] : c \in AllClaims /\ ClaimOrdinals[c] = i
  BY <1>3, PlacesAre
<1> HIDE DEF s
<1>6. /\ \A x \in Stored : In(graph')[x] = In(graph)[x] \cup OfSession(s)[x]
      /\ graph'.claim = Over(given, graph.claim)
      /\ graph'.entity = Over(named, graph.entity)
      /\ But({"entity", "claim", "slot", "df", "mentions", "fills", "hits", "names"})
  BY <1>1, <1>4, WriteStores
<1>7. /\ graph'.session = graph.session /\ graph'.replaced = graph.replaced /\ graph'.linked = graph.linked
      /\ graph'.user = graph.user /\ graph' = [x \in Fields |-> graph'[x]]
  BY <1>6 DEF But, Fields
<1>8. PartOf(graph'.claim, ClaimOrdinals)
  <2>1. DOMAIN ClaimOrdinals = AllClaims
    BY WholeDomains, TotalsAre
  <2>2. PartOf(given, ClaimOrdinals)
    <3>1. DOMAIN given = ClaimsOf[s] /\ \A c \in ClaimsOf[s] : given[c] = ClaimOrdinals[c]
      BY <1>5
    <3> QED
      BY <1>5, <2>1, <3>1 DEF PartOf
  <2> HIDE DEF given
  <2>3. PartOf(Over(given, graph.claim), ClaimOrdinals)
    BY <1>1, <2>2, OverParts DEF Within
  <2> QED
    BY <1>6, <2>3
<1>9. PartOf(graph'.entity, Aliases)
  <2>1. DOMAIN Aliases = Total("entity") /\ Mentioned(Reconciled, s) \subseteq Total("entity")
    <3>1. OfSession(s)["entity"] \subseteq Total("entity")
      BY <1>5, InTotal
    <3> QED
      BY <3>1, WholeDomains, OfSessionIs
  <2>2. PartOf(named, Aliases)
    BY <2>1 DEF PartOf, Aliases
  <2> HIDE DEF named
  <2>3. PartOf(Over(named, graph.entity), Aliases)
    BY <1>1, <2>2, OverParts DEF Within
  <2> QED
    BY <1>6, <2>3
<1>10. \A x \in Stored : In(graph')[x] \subseteq Total(x)
  <2>1. \A x \in Stored : OfSession(s)[x] \subseteq Total(x) /\ In(graph)[x] \subseteq Total(x)
    BY <1>1, <1>5, InTotal DEF Within
  <2> QED
    BY <1>6, <2>1
<1>11. Within'
  BY <1>1, <1>2, <1>7, <1>8, <1>9, <1>10 DEF Within
<1>12. Keeps
  BY <1>6, <1>7 DEF Keeps
<1>13. Written(s)'
  BY <1>6 DEF Written
<1>14. /\ "reconciled" \in DOMAIN caller'[p] /\ caller'[p].reconciled = Reconciled /\ caller'[p].at = i
  <2>1. DOMAIN <<>> = {}
    BY EmptyIsPart
  <2> QED
    BY <1>0, <1>1, <1>2, <1>3, <2>1, GoOnKnows
<1>15. Progress(p)'
  <2>1. InHistory \subseteq DOMAIN graph.session /\ SessionLinks \subseteq graph.linked
    BY <1>1, <1>2 DEF Progress, Placed, Linked
  <2>2. \A j \in 1..(i - 1) : Written(History[j]) /\ Named(History[j])
    BY <1>0, <1>1, <1>2 DEF Progress
  <2>3. \A j \in 1..(i - 1) : Written(History[j])' /\ Named(History[j])'
    BY <1>12, <2>2, WrittenStays
  <2>4. Written(History[i])'
    BY <1>13 DEF s
  <2>5. i \in Nat
    BY <1>3, HistoryIs
  <2>6. \A j \in 1..i : Written(History[j])'
    <3> TAKE j \in 1..i
    <3>1. j = i \/ j \in 1..(i - 1)
      BY <2>5
    <3> QED
      BY <2>3, <2>4, <3>1
  <2> QED
    BY <1>1, <1>7, <1>14, <2>1, <2>3, <2>6 DEF Progress, Placed, Linked, Knowing, AllWritten, Counted, Decided, Removing
<1> QED
  BY <1>2, <1>7, <1>11, <1>12, <1>15, AddingMoves

LEMMA LinkNamesComes ==
  ASSUME NEW p, NEW step \in {"write", "count"}, Alone(p, step), LinkNames(p),
         step = "write" <=> caller[p].at < Len(Given(p))
  PROVE  HistoryInv'
<1>0. PICK i : i = caller[p].at
  OBVIOUS
<1> DEFINE s == History[i]
<1>1. /\ CallersInv /\ DOMAIN graph = Fields /\ Within /\ Progress(p) /\ p \in Callers
      /\ Given(p) = History /\ caller'[p].step = step
  BY AloneIs
<1>2. /\ caller[p].step = "linkNames" /\ answers' = answers
      /\ graph' = linkSession(graph, caller[p].reconciled, Given(p)[caller[p].at])
      /\ step = "write" => GoOn(p, "write", [at |-> i + 1])
      /\ step = "count" => GoOn(p, "count", <<>>)
  BY <1>0 DEF LinkNames, AtStep, Alone
<1>3. /\ "reconciled" \in DOMAIN caller[p] /\ caller[p].reconciled = Reconciled
      /\ i \in DOMAIN History
  BY <1>0, <1>1, <1>2 DEF Progress, Knowing, Linked, Placed, CallersInv, CallerInv
<1>4. DOMAIN History = 1..Len(History) /\ Len(History) \in Nat /\ i \in Nat /\ s \in InHistory
  BY <1>3, HistoryIs
<1>5. graph' = [graph EXCEPT !.linked = @ \cup NameLinks(s)]
  <2>1. graph' = linkSession(graph, Reconciled, s)
    BY <1>0, <1>1, <1>2, <1>3
  <2> HIDE DEF s
  <2> QED
    BY <2>1 DEF linkSession, NameLinks
<1> HIDE DEF s
<1>6. But({"linked"}) /\ graph'.linked = graph.linked \cup NameLinks(s)
  BY <1>1, <1>5 DEF But, Fields
<1>7. /\ In(graph') = In(graph) /\ graph'.replaced = graph.replaced /\ graph'.session = graph.session
      /\ graph'.claim = graph.claim /\ graph'.entity = graph.entity /\ graph'.user = graph.user
  BY <1>6 DEF But, Fields, In
<1>8. NameLinks(s) \subseteq Links
  BY <1>4 DEF Links
<1>9. Within'
  BY <1>1, <1>2, <1>6, <1>7, <1>8 DEF Within, But
<1>10. Keeps
  BY <1>6, <1>7 DEF Keeps
<1>11. \A j \in 1..i : Written(History[j])' /\ Named(History[j])'
  <2>1. /\ \A j \in 1..i : Written(History[j])
        /\ \A j \in 1..(i - 1) : Named(History[j])
    BY <1>0, <1>1, <1>2 DEF Progress
  <2>2. /\ \A j \in 1..i : Written(History[j])'
        /\ \A j \in 1..(i - 1) : Named(History[j])'
    BY <1>10, <2>1, WrittenStays
  <2>3. Named(History[i])'
    BY <1>6 DEF Named, s
  <2> TAKE j \in 1..i
  <2>4. j = i \/ j \in 1..(i - 1)
    BY <1>4
  <2> QED
    BY <2>2, <2>3, <2>4
<1>12. InHistory \subseteq DOMAIN graph.session /\ SessionLinks \subseteq graph.linked
  BY <1>1, <1>2 DEF Progress, Placed, Linked
<1>13. CASE step = "write"
  <2> DEFINE known == [at |-> i + 1]
  <2>1. DOMAIN known = {"at"} /\ known["at"] = i + 1 /\ GoOn(p, "write", known)
    BY <1>2, <1>13
  <2> HIDE DEF known
  <2>2. "reconciled" \in DOMAIN caller'[p] /\ caller'[p].reconciled = Reconciled /\ caller'[p].at = i + 1
    BY <1>1, <1>3, <2>1, GoOnKnows
  <2>3. (i + 1) - 1 = i
    BY <1>4
  <2>4. Progress(p)'
    BY <1>1, <1>7, <1>6, <1>11, <1>12, <1>13, <2>2, <2>3
       DEF Progress, Placed, Linked, Knowing, AllWritten, Counted, Decided, Removing
  <2> QED
    BY <1>2, <1>7, <1>9, <1>10, <2>4, AddingMoves
<1>14. CASE step = "count"
  <2>1. i = Len(History)
    BY <1>0, <1>1, <1>3, <1>4, <1>14
  <2>2. \A t \in InHistory : Written(t)' /\ Named(t)'
    <3> TAKE t \in InHistory
    <3>1. PICK j \in DOMAIN History : History[j] = t
      BY HistoryIs
    <3> QED
      BY <1>4, <1>11, <2>1, <3>1
  <2>3. "reconciled" \in DOMAIN caller'[p] /\ caller'[p].reconciled = Reconciled
    <3>1. DOMAIN <<>> = {}
      BY EmptyIsPart
    <3> QED
      BY <1>1, <1>2, <1>3, <1>14, <3>1, GoOnKnows
  <2>4. Progress(p)'
    BY <1>1, <1>7, <1>6, <1>12, <1>14, <2>2, <2>3
       DEF Progress, Placed, Linked, Knowing, AllWritten, Counted, Decided, Removing
  <2> QED
    BY <1>2, <1>7, <1>9, <1>10, <2>4, AddingMoves
<1> QED
  BY <1>13, <1>14

LEMMA CountComes ==
  ASSUME NEW p, Alone(p, "decide"), Count(p)
  PROVE  HistoryInv'
<1> DEFINE known == [contested |-> {k \in DOMAIN NewSlots(p) : NewSlots(p)[k] >= 2}]
<1>1. /\ CallersInv /\ DOMAIN graph = Fields /\ Within /\ Progress(p) /\ p \in Callers
      /\ GivenClaims(p) = AllClaims /\ caller'[p].step = "decide" /\ caller[p].kind = "history"
  BY AloneIs DEF Alone
<1>2. /\ caller[p].step = "count" /\ answers' = answers /\ GoOn(p, "decide", known)
      /\ graph' = writeCounts(graph, NewDf(p), NewSlots(p))
  BY DEF Count, AtStep
<1>3. "reconciled" \in DOMAIN caller[p] /\ caller[p].reconciled = Reconciled
  BY <1>1, <1>2 DEF Progress, Knowing, Linked, Placed
<1>4. NewDf(p) = Df /\ NewSlots(p) = Fills
  BY <1>1, <1>3 DEF NewDf, NewSlots, Df, Fills
<1>5. DOMAIN known = {"contested"} /\ known["contested"] = Contested
  BY <1>4 DEF Contested
<1> HIDE DEF known
<1>6. /\ "contested" \in DOMAIN caller'[p] /\ caller'[p].contested = Contested
      /\ "reconciled" \in DOMAIN caller'[p] /\ caller'[p].reconciled = Reconciled
  BY <1>1, <1>2, <1>3, <1>5, GoOnKnows
<1>7. /\ But({"df", "slot"}) /\ graph'.df = Over(Df, graph.df) /\ graph'.slot = Over(Fills, graph.slot)
  <2>1. graph' = writeCounts(graph, Df, Fills)
    BY <1>2, <1>4
  <2> QED
    BY <1>1, <2>1 DEF writeCounts, But, Fields
<1>8. DOMAIN graph.df \subseteq DOMAIN Df /\ DOMAIN graph.slot \subseteq DOMAIN Fills
  <2>1. In(graph)["df"] \subseteq Total("df") /\ In(graph)["slot"] \subseteq Total("slot")
    BY <1>1 DEF Within, Stored
  <2> QED
    BY <2>1, WholeDomains DEF In
<1>9. graph'.df = Df /\ graph'.slot = Fills
  <2>1. Over(Df, graph.df) = Df /\ Over(Fills, graph.slot) = Fills
    BY <1>8, OverWhole, WholesAreFunctions
  <2> QED
    BY <1>7, <2>1
<1>10. /\ graph'.session = graph.session /\ graph'.replaced = graph.replaced /\ graph'.linked = graph.linked
       /\ graph'.claim = graph.claim /\ graph'.entity = graph.entity /\ graph'.user = graph.user
       /\ graph'.mentions = graph.mentions /\ graph'.fills = graph.fills
       /\ graph'.hits = graph.hits /\ graph'.names = graph.names
       /\ graph' = [x \in Fields |-> graph'[x]]
  BY <1>7 DEF But, Fields
<1>11. \A x \in Stored : In(graph)[x] \subseteq In(graph')[x] /\ In(graph')[x] \subseteq Total(x)
  <2>1. \A x \in Stored : In(graph)[x] \subseteq Total(x)
    BY <1>1 DEF Within
  <2>2. \A x \in Stored \ {"df", "slot"} : In(graph')[x] = In(graph)[x]
    BY <1>10 DEF In, Stored
  <2>3. In(graph')["df"] = Total("df") /\ In(graph')["slot"] = Total("slot")
    BY <1>9, WholeDomains DEF In
  <2> QED
    BY <2>1, <2>2, <2>3
<1>12. Within'
  BY <1>1, <1>2, <1>10, <1>11 DEF Within
<1>13. Keeps
  BY <1>10, <1>11 DEF Keeps
<1>14. Progress(p)'
  <2>1. InHistory \subseteq DOMAIN graph.session /\ SessionLinks \subseteq graph.linked
    BY <1>1, <1>2 DEF Progress, Placed, Linked
  <2>2. \A s \in InHistory : Written(s) /\ Named(s)
    BY <1>1, <1>2 DEF Progress, AllWritten
  <2>3. \A s \in InHistory : Written(s)' /\ Named(s)'
    BY <1>13, <2>2, WrittenStays
  <2> QED
    BY <1>1, <1>6, <1>9, <1>10, <2>1, <2>3 DEF Progress, Placed, Linked, Knowing, AllWritten, Counted, Decided, Removing
<1> QED
  BY <1>2, <1>10, <1>12, <1>13, <1>14, AddingMoves

\* A graph of which all is written has the history's claims and entities.
LEMMA AllIsThere ==
  ASSUME Within, \A s \in InHistory : Written(s)
  PROVE  /\ \A x \in Stored : In(graph)[x] = Total(x)
         /\ graph.claim = ClaimOrdinals /\ graph.entity = Aliases
         /\ graph.mentions = Total("mentions") /\ graph.fills = Total("fills")
         /\ graph.hits = Total("hits") /\ graph.names = Total("names")
<1>1. ASSUME NEW x \in Stored PROVE In(graph)[x] = Total(x)
  <2>1. Total(x) \subseteq In(graph)[x]
    BY InTotal DEF Written
  <2>2. In(graph)[x] \subseteq Total(x)
    BY DEF Within
  <2> QED
    BY <2>1, <2>2
<1>2. /\ DOMAIN graph.claim = Total("claim") /\ DOMAIN graph.entity = Total("entity")
      /\ graph.mentions = Total("mentions") /\ graph.fills = Total("fills")
      /\ graph.hits = Total("hits") /\ graph.names = Total("names")
  <2>1. \A x \in {"claim", "entity", "mentions", "fills", "hits", "names"} : In(graph)[x] = Total(x)
    BY <1>1 DEF Stored
  <2> QED
    BY <2>1 DEF In
<1>3. graph.claim = ClaimOrdinals /\ graph.entity = Aliases
  BY <1>2, PartIsWhole, WholesAreFunctions, WholeDomains DEF Within
<1> QED
  BY <1>1, <1>2, <1>3

\* The same edges make the same graph.
LEMMA EdgesMakeTheGraph ==
  ASSUME NEW a, NEW b, Edges(a) = Edges(b)
  PROVE  Replacing(a) = Replacing(b) /\ Stats(a) = Stats(b) /\ WholeGraph(a) = WholeGraph(b)
BY DEF Replacing, Stats, WholeGraph

LEMMA DecideComes ==
  ASSUME NEW p, Alone(p, "replace"), Decide(p)
  PROVE  HistoryInv'
<1>1. /\ CallersInv /\ DOMAIN graph = Fields /\ Within /\ Answered /\ Progress(p) /\ p \in Callers
      /\ caller'[p].step = "replace"
  BY AloneIs
<1>2. caller[p].step = "decide" /\ graph' = graph
  BY DEF Decide, AtStep
<1>3. /\ \A s \in InHistory : Written(s) /\ Named(s)
      /\ InHistory \subseteq DOMAIN graph.session /\ SessionLinks \subseteq graph.linked
      /\ graph.df = Df /\ graph.slot = Fills
      /\ "reconciled" \in DOMAIN caller[p] /\ caller[p].reconciled = Reconciled
      /\ "contested" \in DOMAIN caller[p] /\ caller[p].contested = Contested
  BY <1>1, <1>2 DEF Progress, Placed, Linked, Knowing, AllWritten, Counted
<1>4. graph.claim = ClaimOrdinals /\ graph.fills = Total("fills")
  BY <1>1, <1>3, AllIsThere
<1> DEFINE asked == {h \in {readSlotClaims(graph, k) : k \in caller[p].contested} : Len(h) >= 2}
<1>5. asked = Asked
  <2>1. \A k : readSlotClaims(graph, k) = SlotHistory(ClaimOrdinals, Total("fills"), k)
    BY <1>4, HistoriesAreOfTheGraph
  <2> QED
    BY <1>3, <2>1 DEF Asked
<1>6. PICK found \in [asked -> Replies] :
        /\ \A h \in asked : found[h] \in Answer(h)
        /\ answers' = Over(found, answers)
        /\ GoOn(p, "replace", [edges |-> UNION {detected(graph, h, found[h]) : h \in asked}])
  BY DEF Decide
<1> HIDE DEF asked
<1> DEFINE edges == UNION {detected(graph, h, found[h]) : h \in asked}
           known == [edges |-> edges]
<1>7. DOMAIN found = Asked /\ DOMAIN answers' = Asked /\ \A h \in Asked : answers'[h] = found[h]
  <2>1. /\ DOMAIN Over(found, answers) = DOMAIN found \cup DOMAIN answers
        /\ \A h \in DOMAIN found : Over(found, answers)[h] = found[h]
    BY OverIs
  <2>2. DOMAIN found = Asked /\ DOMAIN answers \subseteq Asked
    BY <1>1, <1>5 DEF Answered
  <2> QED
    BY <1>6, <2>1, <2>2
<1>8. edges = Edges(answers')
  <2>1. \A h \in Asked : detected(graph, h, found[h]) = Found(ClaimOrdinals, h, answers'[h])
    BY <1>4, <1>7, HistoriesAreOfTheGraph
  <2>2. Edges(answers') = UNION {Found(ClaimOrdinals, h, answers'[h]) : h \in Asked}
    BY <1>7 DEF Edges
  <2> QED
    BY <1>5, <2>1, <2>2
<1>9. Asked \subseteq DOMAIN answers => Edges(answers') = Edges(answers)
  <2> SUFFICES ASSUME Asked \subseteq DOMAIN answers PROVE Edges(answers') = Edges(answers)
    OBVIOUS
  <2>1. \A h \in Asked : answers'[h] = answers[h]
    BY <1>5, <1>6, <1>7 DEF Answer
  <2>2. \A h \in Asked : Found(ClaimOrdinals, h, answers'[h]) = Found(ClaimOrdinals, h, answers[h])
    BY <2>1
  <2>3. Asked \cap DOMAIN answers = Asked /\ Asked \cap DOMAIN answers' = Asked
    BY <1>7
  <2> QED
    BY <2>2, <2>3 DEF Edges
<1>10. DOMAIN known = {"edges"} /\ known["edges"] = edges
  OBVIOUS
<1> HIDE DEF known, edges
<1>11. /\ "edges" \in DOMAIN caller'[p] /\ caller'[p].edges = Edges(answers')
       /\ "contested" \in DOMAIN caller'[p] /\ caller'[p].contested = Contested
       /\ "reconciled" \in DOMAIN caller'[p] /\ caller'[p].reconciled = Reconciled
  <2>1. GoOn(p, "replace", known)
    BY <1>6 DEF known, edges
  <2> QED
    BY <1>1, <1>3, <1>8, <1>10, <2>1, GoOnKnows
<1>12. PartOf(graph.replaced, Replacing(answers'))
  <2>1. CASE Asked \subseteq DOMAIN answers
    <3>1. Replacing(answers') = Replacing(answers)
      BY <1>9, <2>1, EdgesMakeTheGraph
    <3> QED
      BY <1>1, <3>1 DEF Within
  <2>2. CASE DOMAIN graph.replaced = {}
    BY <1>1, <2>2 DEF Within, PartOf
  <2> QED
    BY <1>1, <2>1, <2>2 DEF Answered
<1>13. Within'
  BY <1>1, <1>2, <1>12 DEF Within
<1>14. Answered'
  <2>1. settled' = settled
    BY DEF Alone
  <2>2. graph.user \in {None, NoStats, Stats(answers')} /\ settled \in {None, WholeGraph(answers')}
    <3>1. CASE Asked \subseteq DOMAIN answers
      <4>1. Stats(answers') = Stats(answers) /\ WholeGraph(answers') = WholeGraph(answers)
        BY <1>9, <3>1, EdgesMakeTheGraph
      <4> QED
        BY <1>1, <4>1 DEF Answered
    <3>2. CASE ~(Asked \subseteq DOMAIN answers)
      BY <1>1, <3>2 DEF Answered
    <3> QED
      BY <3>1, <3>2
  <2> QED
    BY <1>2, <1>7, <2>1, <2>2 DEF Answered
<1>15. Keeps
  BY <1>2 DEF Keeps
<1>16. others = {} => graph'.user \in {None, NoStats} \/ Complete'
  <2>1. others = {} => graph.user \in {None, NoStats} \/ Complete
    BY DEF Alone, HistoryInv
  <2>2. Complete => Complete'
    BY <1>7, <1>9, <1>15, CompleteStays
  <2> QED
    BY <1>2, <2>1, <2>2
<1>17. Progress(p)'
  <2>1. \A s \in InHistory : Written(s)' /\ Named(s)'
    BY <1>3, <1>15, WrittenStays
  <2> QED
    BY <1>1, <1>2, <1>3, <1>7, <1>11, <2>1 DEF Progress, Placed, Linked, Knowing, AllWritten, Counted, Decided, Removing
<1> QED
  BY <1>13, <1>14, <1>16, <1>17, HistoryMoves

LEMMA ReplaceComes ==
  ASSUME NEW p, Alone(p, "report"), Replace(p)
  PROVE  HistoryInv'
<1> DEFINE new == [e \in caller[p].edges |-> AtSession(graph, e[1], e[2])]
<1>1. /\ CallersInv /\ DOMAIN graph = Fields /\ Within /\ Answered /\ Progress(p) /\ p \in Callers
      /\ caller'[p].step = "report"
  BY AloneIs
<1>2. /\ caller[p].step = "replace" /\ answers' = answers /\ GoOn(p, "report", <<>>)
      /\ graph' = [graph EXCEPT !.replaced = Over(new, graph.replaced)]
  BY DEF Replace, AtStep
<1>3. /\ \A s \in InHistory : Written(s) /\ Named(s)
      /\ InHistory \subseteq DOMAIN graph.session /\ SessionLinks \subseteq graph.linked
      /\ graph.df = Df /\ graph.slot = Fills
      /\ "reconciled" \in DOMAIN caller[p] /\ caller[p].reconciled = Reconciled
      /\ "contested" \in DOMAIN caller[p] /\ caller[p].contested = Contested
      /\ "edges" \in DOMAIN caller[p] /\ caller[p].edges = Edges(answers) /\ Asked \subseteq DOMAIN answers
  BY <1>1, <1>2 DEF Progress, Placed, Linked, Knowing, AllWritten, Counted, Decided
<1>4. graph.claim = ClaimOrdinals
  BY <1>1, <1>3, AllIsThere
<1>5. new = Replacing(answers)
  BY <1>3, <1>4 DEF Replacing, AtSession
<1> HIDE DEF new
<1>6. But({"replaced"}) /\ graph'.replaced = Over(Replacing(answers), graph.replaced)
  BY <1>1, <1>2, <1>5 DEF But, Fields
<1>7. /\ PartOf(graph'.replaced, Replacing(answers))
      /\ DOMAIN graph'.replaced = Edges(answers) \cup DOMAIN graph.replaced
  <2>1. /\ PartOf(Replacing(answers), Replacing(answers)) /\ PartOf(graph.replaced, Replacing(answers))
        /\ DOMAIN Replacing(answers) = Edges(answers)
    BY <1>1, WholesAreFunctions DEF Within
  <2>2. /\ PartOf(Over(Replacing(answers), graph.replaced), Replacing(answers))
        /\ DOMAIN Over(Replacing(answers), graph.replaced) = DOMAIN Replacing(answers) \cup DOMAIN graph.replaced
    BY <2>1, OverParts
  <2> QED
    BY <1>6, <2>1, <2>2
<1>8. /\ In(graph') = In(graph) /\ graph'.linked = graph.linked /\ graph'.session = graph.session
      /\ graph'.claim = graph.claim /\ graph'.entity = graph.entity /\ graph'.user = graph.user
      /\ graph'.df = graph.df /\ graph'.slot = graph.slot
      /\ graph' = [x \in Fields |-> graph'[x]]
  BY <1>6 DEF But, Fields, In
<1>9. Within'
  BY <1>1, <1>2, <1>7, <1>8 DEF Within
<1>10. Keeps
  BY <1>7, <1>8 DEF Keeps
<1>11. Answered'
  BY <1>1, <1>2, <1>3, <1>8 DEF Answered, Alone
<1>12. others = {} => graph'.user \in {None, NoStats} \/ Complete'
  <2>1. others = {} => graph.user \in {None, NoStats} \/ Complete
    BY DEF Alone, HistoryInv
  <2>2. Complete => Complete'
    BY <1>2, <1>10, CompleteStays
  <2> QED
    BY <1>8, <2>1, <2>2
<1>13. /\ "edges" \in DOMAIN caller'[p] /\ caller'[p].edges = Edges(answers)
       /\ "contested" \in DOMAIN caller'[p] /\ caller'[p].contested = Contested
       /\ "reconciled" \in DOMAIN caller'[p] /\ caller'[p].reconciled = Reconciled
  <2>1. DOMAIN <<>> = {}
    BY EmptyIsPart
  <2> QED
    BY <1>1, <1>2, <1>3, <2>1, GoOnKnows
<1>14. Progress(p)'
  <2>1. \A s \in InHistory : Written(s)' /\ Named(s)'
    BY <1>3, <1>10, WrittenStays
  <2> QED
    BY <1>1, <1>2, <1>3, <1>7, <1>8, <1>13, <2>1
       DEF Progress, Placed, Linked, Knowing, AllWritten, Counted, Decided, Removing
<1> QED
  BY <1>9, <1>11, <1>12, <1>14, HistoryMoves

\* The user is cleared of all but counts and sessions.
LEMMA RemoveClaimsComes ==
  ASSUME NEW p, Alone(p, "removeTranscript"), RemoveClaims(p)
  PROVE  HistoryInv'
<1>1. /\ DOMAIN graph = Fields /\ Within /\ Answered /\ Progress(p) /\ caller'[p].step = "removeTranscript"
  BY AloneIs
<1>2. caller[p].step = "removeClaims" /\ answers' = answers /\ graph' = removeClaims(graph)
  BY DEF RemoveClaims, AtStep
<1>3. "reset" \in others /\ "reset" \in others'
  BY <1>1, <1>2 DEF Progress, Removing, Alone
<1>4. /\ graph'.session = graph.session /\ graph'.claim = <<>> /\ graph'.entity = <<>> /\ graph'.slot = <<>>
      /\ graph'.df = <<>> /\ graph'.mentions = {} /\ graph'.fills = {} /\ graph'.hits = {} /\ graph'.names = {}
      /\ graph'.replaced = <<>> /\ graph'.linked \subseteq graph.linked /\ graph'.user = graph.user
      /\ graph' = [x \in Fields |-> graph'[x]]
  BY <1>2 DEF removeClaims, EmptyGraph, Fields
<1>5. Within'
  <2>1. \A x \in Stored : In(graph')[x] = {}
    BY <1>4, EmptyIsPart DEF In, Stored
  <2> QED
    BY <1>1, <1>4, <2>1, EmptyIsPart DEF Within
<1>6. Answered'
  BY <1>1, <1>2, <1>4, EmptyIsPart DEF Answered, Alone
<1>7. Progress(p)'
  BY <1>1, <1>3 DEF Progress, Placed, Linked, Knowing, AllWritten, Counted, Decided, Removing
<1> QED
  BY <1>3, <1>5, <1>6, <1>7, HistoryMoves

LEMMA RemoveTranscriptComes ==
  ASSUME NEW p, Alone(p, "place"), RemoveTranscript(p)
  PROVE  HistoryInv'
<1>1. /\ DOMAIN graph = Fields /\ Within /\ Answered /\ Progress(p) /\ caller'[p].step = "place"
  BY AloneIs
<1>2. caller[p].step = "removeTranscript" /\ answers' = answers /\ graph' = removeTranscript(graph)
  BY DEF RemoveTranscript, AtStep
<1>3. "reset" \in others
  BY <1>1, <1>2 DEF Progress, Removing
<1>4. But({"session", "linked"}) /\ graph'.session = <<>> /\ graph'.linked \subseteq graph.linked
  BY <1>1, <1>2 DEF removeTranscript, But, Fields
<1>5. /\ In(graph') = In(graph) /\ graph'.replaced = graph.replaced
      /\ graph'.claim = graph.claim /\ graph'.entity = graph.entity /\ graph'.user = graph.user
      /\ graph' = [x \in Fields |-> graph'[x]]
  BY <1>4 DEF But, Fields, In
<1>6. Within'
  BY <1>1, <1>2, <1>4, <1>5, EmptyIsPart DEF Within
<1>7. Answered'
  BY <1>1, <1>2, <1>5 DEF Answered, Alone
<1>8. Progress(p)'
  BY <1>1 DEF Progress, Placed, Linked, Knowing, AllWritten, Counted, Decided, Removing
<1> QED
  BY <1>3, <1>6, <1>7, <1>8, HistoryMoves

\* A history that ends has left the whole graph, as the first one did.
LEMMA ReportComes ==
  ASSUME LiveInv, HistoryInv, "post" \notin others, others' = others, NEW p \in Callers, caller[p].kind = "history", Report(p)
  PROVE  HistoryInv'
<1>1. /\ CallersInv /\ OneHistory /\ DOMAIN graph = Fields /\ Within /\ Answered /\ ~whole /\ Progress(p)
      /\ GivenClaims(p) = AllClaims
  BY HistorianIsGiven DEF HistoryInv, LiveInv, GraphInv
<1>2. /\ caller[p].step = "report" /\ answers' = answers /\ whole' = TRUE
      /\ graph' = [graph EXCEPT !.user = HistoryStats(p)]
      /\ settled' = IF settled = None THEN graph' ELSE settled
      /\ caller' = [caller EXCEPT ![p] = Idle]
  BY DEF Report, AtStep
<1>3. /\ \A s \in InHistory : Written(s) /\ Named(s)
      /\ InHistory \subseteq DOMAIN graph.session /\ SessionLinks \subseteq graph.linked
      /\ graph.df = Df /\ graph.slot = Fills
      /\ caller[p].reconciled = Reconciled /\ caller[p].contested = Contested
      /\ caller[p].edges = Edges(answers) /\ Asked \subseteq DOMAIN answers
      /\ Edges(answers) \subseteq DOMAIN graph.replaced
  BY <1>1, <1>2 DEF Progress, Placed, Linked, Knowing, AllWritten, Counted, Decided
<1>4. HistoryStats(p) = Stats(answers)
  BY <1>1, <1>3 DEF HistoryStats, Stats, Fills, Df
<1>5. But({"user"}) /\ graph'.user = Stats(answers)
  BY <1>1, <1>2, <1>4 DEF But, Fields
<1>6. /\ In(graph') = In(graph) /\ graph'.linked = graph.linked /\ graph'.session = graph.session
      /\ graph'.claim = graph.claim /\ graph'.entity = graph.entity /\ graph'.replaced = graph.replaced
      /\ graph'.df = graph.df /\ graph'.slot = graph.slot
      /\ graph'.mentions = graph.mentions /\ graph'.fills = graph.fills
      /\ graph'.hits = graph.hits /\ graph'.names = graph.names
      /\ graph' = [x \in Fields |-> graph'[x]]
  BY <1>5 DEF But, Fields, In
<1>7. Within'
  BY <1>1, <1>2, <1>6 DEF Within
<1>8. Links \subseteq graph.linked
  BY <1>3 DEF Links, Named
<1>9. graph' = WholeGraph(answers)
  <2>1. /\ graph.claim = ClaimOrdinals /\ graph.entity = Aliases
        /\ graph.mentions = Total("mentions") /\ graph.fills = Total("fills")
        /\ graph.hits = Total("hits") /\ graph.names = Total("names")
    BY <1>1, <1>3, AllIsThere
  <2>2. graph.session = AtPlace
    BY <1>1, <1>3, PartIsWhole, WholesAreFunctions, WholeDomains DEF Within
  <2>3. graph.replaced = Replacing(answers)
    BY <1>1, <1>3, PartIsWhole, WholesAreFunctions DEF Within
  <2>4. graph.linked = Links
    BY <1>1, <1>8 DEF Within
  <2> DEFINE G == WholeGraph(answers)
  <2>5. /\ G.session = AtPlace /\ G.claim = ClaimOrdinals /\ G.entity = Aliases /\ G.slot = Fills /\ G.df = Df
        /\ G.mentions = Total("mentions") /\ G.fills = Total("fills") /\ G.hits = Total("hits")
        /\ G.names = Total("names") /\ G.replaced = Replacing(answers) /\ G.linked = Links /\ G.user = Stats(answers)
        /\ G = [x \in Fields |-> G[x]]
    BY DEF WholeGraph, Fields
  <2> HIDE DEF G
  <2>6. \A x \in Fields : graph'[x] = G[x]
    BY <1>3, <1>5, <1>6, <2>1, <2>2, <2>3, <2>4, <2>5 DEF Fields
  <2>7. graph' = G
    BY <1>6, <2>5, <2>6
  <2> QED
    BY <2>7 DEF G
<1>10. settled' = graph' /\ settled' \in {None, WholeGraph(answers)}
  BY <1>1, <1>2, <1>9 DEF Answered
<1>11. Answered'
  BY <1>1, <1>2, <1>3, <1>5, <1>6, <1>10 DEF Answered
<1>12. Complete'
  <2>1. \A s \in InHistory : Written(s)'
    BY <1>3, <1>6 DEF Written
  <2> QED
    BY <1>2, <1>3, <1>6, <1>8, <2>1 DEF Complete
<1>13. \A q \in Callers : caller'[q].kind # "post" /\ caller'[q].kind # "history"
  <2>1. Idle.kind = "none" /\ DOMAIN caller = Callers
    BY <1>1 DEF Idle, CallersInv
  <2>2. \A q \in Callers : caller[q].kind # "post"
    BY DEF HistoryInv
  <2>3. \A q \in Callers : caller[q].kind = "history" => q = p
    BY <1>1 DEF OneHistory
  <2> QED
    BY <1>2, <2>1, <2>2, <2>3
<1> QED
  BY <1>2, <1>7, <1>9, <1>10, <1>11, <1>12, <1>13 DEF HistoryInv

\* Callers that stop leave the graph as it is, in the midst of a history or not.
LEMMA StoppingComes ==
  ASSUME LiveInv, HistoryInv,
         graph' = graph /\ answers' = answers /\ others' = others /\ settled' = settled /\ whole' = whole,
         \A q \in Callers : caller'[q] \in {caller[q], Idle}
  PROVE  HistoryInv'
<1> SUFFICES ASSUME "post" \notin others
             PROVE  /\ \A p \in Callers : caller'[p].kind # "post"
                    /\ Within' /\ Answered'
                    /\ \A p \in Callers : caller'[p].kind = "history" => ~whole' /\ Progress(p)'
                    /\ whole' => graph' = WholeGraph(answers') /\ settled' = graph'
                    /\ others' = {} => graph'.user \in {None, NoStats} \/ Complete'
  BY DEF HistoryInv
<1>1. Idle.kind = "none"
  BY DEF Idle
<1>2. Within' /\ Answered' /\ (Complete => Complete')
  BY DEF HistoryInv, Within, Answered, Complete, Written
<1>3. ASSUME NEW p \in Callers, caller'[p].kind = "history" PROVE ~whole' /\ Progress(p)'
  <2>1. caller'[p] = caller[p] /\ caller[p].kind = "history"
    BY <1>1, <1>3
  <2>2. ~whole /\ Progress(p)
    BY <2>1 DEF HistoryInv
  <2> QED
    BY <2>1, <2>2 DEF Progress, Written, Named
<1>4. \A p \in Callers : caller'[p].kind # "post"
  BY <1>1 DEF HistoryInv
<1>5. whole => graph = WholeGraph(answers) /\ settled = graph
  BY DEF HistoryInv
<1>6. others = {} => graph.user \in {None, NoStats} \/ Complete
  BY DEF HistoryInv
<1> QED
  BY <1>2, <1>3, <1>4, <1>5, <1>6

LEMMA WriteHistoryComes ==
  ASSUME LiveInv, HistoryInv, NEW p \in Callers, NEW reset \in BOOLEAN, WriteHistory(p, reset)
  PROVE  HistoryInv'
<1> DEFINE job == [kind |-> "history", step |-> IF reset THEN "removeClaims" ELSE "place"]
<1>1. /\ (\A q \in Callers : caller[q].kind # "history")
      /\ caller' = [caller EXCEPT ![p] = job] /\ graph' = graph /\ answers' = answers /\ settled' = settled
      /\ ~whole' /\ others \subseteq others' /\ (reset => "reset" \in others')
      /\ "post" \in others' => "post" \in others \/ "post" \in {"reset", "crossed"}
  BY DEF WriteHistory, Begin
<1>2. job.kind = "history" /\ job.step = IF reset THEN "removeClaims" ELSE "place"
  OBVIOUS
<1> HIDE DEF job
<1>3. DOMAIN caller = Callers /\ caller'[p] = job /\ \A q \in Callers : q # p => caller'[q] = caller[q]
  BY <1>1 DEF LiveInv, CallersInv
<1> SUFFICES ASSUME "post" \notin others'
             PROVE  /\ \A q \in Callers : caller'[q].kind # "post"
                    /\ Within' /\ Answered'
                    /\ \A q \in Callers : caller'[q].kind = "history" => ~whole' /\ Progress(q)'
                    /\ whole' => graph' = WholeGraph(answers') /\ settled' = graph'
                    /\ others' = {} => graph'.user \in {None, NoStats} \/ Complete'
  BY DEF HistoryInv
<1>4. /\ \A q \in Callers : caller[q].kind # "post"
      /\ Within /\ Answered /\ (others = {} => graph.user \in {None, NoStats} \/ Complete)
  BY <1>1 DEF HistoryInv
<1>5. Within' /\ Answered' /\ (Complete => Complete')
  BY <1>1, <1>4 DEF Within, Answered, Complete, Written
<1>6. Progress(p)'
  BY <1>1, <1>2, <1>3 DEF Progress, Placed, Linked, Knowing, AllWritten, Counted, Decided, Removing
<1>7. \A q \in Callers : caller'[q].kind = "history" => q = p
  BY <1>1, <1>3
<1>8. \A q \in Callers : caller'[q].kind # "post"
  BY <1>2, <1>3, <1>4
<1>9. others' = {} => others = {}
  BY <1>1
<1> QED
  BY <1>1, <1>4, <1>5, <1>6, <1>7, <1>8, <1>9

LEMMA PostComes ==
  ASSUME NEW p \in Callers, NEW s \in Posted, Post(p, s)
  PROVE  HistoryInv'
BY DEF Post, HistoryInv

LEMMA StepComes ==
  ASSUME LiveInv, HistoryInv, NEW p \in Callers, Step(p)
  PROVE  HistoryInv'
<1>0. others' = others
  BY DEF Step
<1> SUFFICES ASSUME "post" \notin others PROVE HistoryInv'
  BY <1>0 DEF HistoryInv
<1>1. CallersInv
  BY DEF LiveInv
<1>2. caller[p].step # "idle"
  BY DEF Step, RemoveClaims, RemoveTranscript, Place, Link, Name, Write, LinkNames, ReadCounts, Count, Decide,
         Replace, Report, AtStep
<1>3. caller[p].kind = "history" /\ Progress(p)
  BY <1>1, <1>2, Busy DEF HistoryInv
<1>4. CASE Report(p)
  BY <1>0, <1>3, <1>4, ReportComes
<1>5. CASE ~Report(p)
  <2>1. whole' = whole /\ settled' = settled
    BY <1>5 DEF Step
  <2>2. ASSUME NEW step, NEW known, GoOn(p, step, known), DOMAIN known \cap {"kind", "step", "session", "before"} = {}
        PROVE  Alone(p, step)
    <3>1. Moves(p, step)
      BY <1>1, <2>2, GoOnMoves
    <3> QED
      BY <1>0, <1>3, <2>1, <3>1 DEF Alone
  <2>3. \A step : GoOn(p, step, <<>>) => Alone(p, step)
    <3>1. DOMAIN <<>> \cap {"kind", "step", "session", "before"} = {}
      BY EmptyIsPart
    <3> QED
      BY <2>2, <3>1
  <2>4. CASE RemoveClaims(p)
    <3>1. GoOn(p, "removeTranscript", <<>>)
      BY <2>4 DEF RemoveClaims
    <3> QED
      BY <2>3, <2>4, <3>1, RemoveClaimsComes
  <2>5. CASE RemoveTranscript(p)
    <3>1. GoOn(p, "place", <<>>)
      BY <2>5 DEF RemoveTranscript
    <3> QED
      BY <2>3, <2>5, <3>1, RemoveTranscriptComes
  <2>6. CASE Place(p)
    <3>1. GoOn(p, "link", <<>>)
      BY <2>6 DEF Place
    <3> QED
      BY <2>3, <2>6, <3>1, PlaceComes
  <2>7. CASE Link(p)
    <3>1. GoOn(p, "name", <<>>)
      BY <2>7 DEF Link
    <3> QED
      BY <2>3, <2>7, <3>1, LinkComes
  <2>8. CASE Name(p)
    <3>1. PICK r, d : GoOn(p, "write", [reconciled |-> r, read |-> d, at |-> 1])
      BY <2>8 DEF Name
    <3>2. Alone(p, "write")
      BY <2>2, <3>1
    <3> QED
      BY <2>8, <3>2, NameComes
  <2>9. CASE Write(p)
    <3>1. GoOn(p, "linkNames", <<>>)
      BY <2>9 DEF Write
    <3> QED
      BY <2>3, <2>9, <3>1, WriteComes
  <2>10. CASE LinkNames(p)
    <3>1. CASE caller[p].at < Len(Given(p))
      <4>1. PICK i : GoOn(p, "write", [at |-> i])
        BY <2>10, <3>1 DEF LinkNames
      <4>2. Alone(p, "write")
        BY <2>2, <4>1
      <4> QED
        BY <2>10, <3>1, <4>2, LinkNamesComes
    <3>2. CASE ~(caller[p].at < Len(Given(p)))
      <4>1. GoOn(p, "count", <<>>)
        BY <1>3, <2>10, <3>2 DEF LinkNames
      <4>2. Alone(p, "count")
        BY <2>3, <4>1
      <4>3. \A step \in {"write", "count"} : Alone(p, step) /\ (step = "write" <=> caller[p].at < Len(Given(p))) => HistoryInv'
        BY <2>10, LinkNamesComes
      <4> QED
        BY <3>2, <4>2, <4>3
    <3> QED
      BY <3>1, <3>2
  <2>11. CASE ReadCounts(p)
    BY <1>3, <2>11 DEF ReadCounts, AtStep, Progress, Placed, Removing
  <2>12. CASE Count(p)
    <3>1. PICK k : GoOn(p, "decide", [contested |-> k])
      BY <2>12 DEF Count
    <3>2. Alone(p, "decide")
      BY <2>2, <3>1
    <3> QED
      BY <2>12, <3>2, CountComes
  <2>13. CASE Decide(p)
    <3>1. PICK e : GoOn(p, "replace", [edges |-> e])
      BY <2>13 DEF Decide
    <3>2. Alone(p, "replace")
      BY <2>2, <3>1
    <3> QED
      BY <2>13, <3>2, DecideComes
  <2>14. CASE Replace(p)
    <3>1. GoOn(p, "report", <<>>)
      BY <2>14 DEF Replace
    <3> QED
      BY <2>3, <2>14, <3>1, ReplaceComes
  <2> QED
    BY <1>5, <2>4, <2>5, <2>6, <2>7, <2>8, <2>9, <2>10, <2>11, <2>12, <2>13, <2>14 DEF Step
<1> QED
  BY <1>4, <1>5

\* Of whole histories alone, the graph is on its way to the one they determine.
THEOREM HistoryInvariant == LiveSpec => []HistoryInv
<1>1. LiveInit => HistoryInv
  BY HistoryInit
<1>2. LiveInv /\ HistoryInv /\ [LiveNext]_liveVars => HistoryInv'
  <2> SUFFICES ASSUME LiveInv, HistoryInv, [LiveNext]_liveVars PROVE HistoryInv'
    OBVIOUS
  <2>1. CASE UNCHANGED liveVars
    BY <2>1, StoppingComes DEF liveVars
  <2>2. CASE Crash
    BY <2>2, StoppingComes DEF Crash
  <2>3. ASSUME NEW p \in Callers, NEW s \in Posted, Post(p, s) PROVE HistoryInv'
    BY <2>3, PostComes
  <2>4. ASSUME NEW p \in Callers, NEW reset \in BOOLEAN, WriteHistory(p, reset) PROVE HistoryInv'
    BY <2>4, WriteHistoryComes
  <2>5. ASSUME NEW p \in Callers, Fail(p) PROVE HistoryInv'
    <3>1. \A q \in Callers : caller'[q] \in {caller[q], Idle}
      BY <2>5 DEF Fail, LiveInv, CallersInv
    <3> QED
      BY <2>5, <3>1, StoppingComes DEF Fail
  <2>6. ASSUME NEW p \in Callers, Step(p) PROVE HistoryInv'
    BY <2>6, StepComes
  <2> QED
    BY <2>1, <2>2, <2>3, <2>4, <2>5, <2>6 DEF LiveNext
<1> QED
  BY <1>1, <1>2, LiveInvariant, PTL DEF LiveSpec

\* HistoriesEndAlike: whole histories that end, after whatever failures, crashes, new runs
\* and clearings, all leave the same graph, with exact counts (ingestUser of Ingest.ts,
\* writeHistory and removeUser of bin/ingest.ts).
THEOREM HistoriesLeaveOneGraph == LiveSpec => []HistoriesEndAlike
<1>1. HistoryInv => HistoriesEndAlike
  <2> SUFFICES ASSUME HistoryInv, whole, "post" \notin others PROVE graph = settled /\ CountsAreExact
    BY DEF HistoriesEndAlike
  <2>1. graph = WholeGraph(answers) /\ settled = graph
    BY DEF HistoryInv
  <2>2. graph.df = Df /\ graph.slot = Fills /\ graph.hits = Total("hits") /\ graph.fills = Total("fills")
    BY <2>1 DEF WholeGraph
  <2>3. CountsAreExact
    BY <2>2, WholeCounts DEF CountsAreExact
  <2> QED
    BY <2>1, <2>3
<1> QED
  BY <1>1, HistoryInvariant, PTL

\* StatsMeanComplete: counts that name every session of the history stand beside all of its
\* claims, links and replacements, also while it is written again (writeUserStats at the end
\* of ingestUser, read by ingest-slice --skip-existing).
THEOREM StatsStandBesideAll == LiveSpec => []StatsMeanComplete
<1>1. HistoryInv => StatsMeanComplete
  <2> SUFFICES ASSUME HistoryInv, others = {}, readUserStats.sessions = Len(History)
               PROVE  /\ DOMAIN graph.claim = AllClaims
                      /\ \A s \in InHistory : <<"Session", s>> \in graph.linked
                      /\ \A n \in DOMAIN graph.entity : <<"Entity", n>> \in graph.linked
                      /\ \A h \in DOMAIN answers : detected(graph, h, answers[h]) \subseteq DOMAIN graph.replaced
    BY DEF StatsMeanComplete, AllClaims, InHistory
  <2>1. Within /\ Answered /\ (graph.user \in {None, NoStats} \/ Complete)
    BY DEF HistoryInv
  <2>2. \A x \in Stored : In(graph)[x] \subseteq Total(x)
    BY <2>1 DEF Within
  <2>3. CASE Complete
    <3>1. (\A s \in InHistory : Written(s)) /\ Links \subseteq graph.linked /\ Asked \subseteq DOMAIN answers
          /\ Edges(answers) \subseteq DOMAIN graph.replaced
      BY <2>3 DEF Complete
    <3>2. graph.claim = ClaimOrdinals /\ graph.entity = Aliases
      BY <2>1, <3>1, AllIsThere
    <3>3. DOMAIN graph.claim = AllClaims
      BY <3>2, WholeDomains, TotalsAre
    <3>4. \A s \in InHistory : <<"Session", s>> \in graph.linked
      BY <3>1 DEF Links, SessionLinks
    <3>5. ASSUME NEW n \in DOMAIN graph.entity PROVE <<"Entity", n>> \in graph.linked
      <4>1. n \in Total("entity")
        BY <3>2, WholeDomains
      <4>2. PICK s \in InHistory : n \in Mentioned(Reconciled, s)
        BY <4>1, InTotal, OfSessionIs
      <4>3. <<"Entity", n>> \in NameLinks(s)
        BY <4>2 DEF NameLinks
      <4> QED
        BY <3>1, <4>3 DEF Links
    <3>6. ASSUME NEW h \in DOMAIN answers PROVE detected(graph, h, answers[h]) \subseteq DOMAIN graph.replaced
      <4>1. h \in Asked \cap DOMAIN answers
        BY <2>1 DEF Answered
      <4>2. detected(graph, h, answers[h]) = Found(ClaimOrdinals, h, answers[h])
        BY <3>2, HistoriesAreOfTheGraph
      <4>3. Found(ClaimOrdinals, h, answers[h]) \subseteq Edges(answers)
        BY <4>1 DEF Edges
      <4> QED
        BY <3>1, <4>2, <4>3
    <3> QED
      BY <3>3, <3>4, <3>5, <3>6
  <2>4. CASE graph.user \in {None, NoStats}
    <3>1. Len(History) = 0
      BY <2>4 DEF readUserStats, NoStats
    <3>2. InHistory = {}
      BY <3>1, HistoryIs
    <3>3. \A x : Total(x) = {}
      BY <3>2 DEF Total
    <3>4. AllClaims = {} /\ DOMAIN graph.claim = {} /\ DOMAIN graph.entity = {}
      <4>1. In(graph)["claim"] = {} /\ In(graph)["entity"] = {}
        BY <2>2, <3>3 DEF Stored
      <4> QED
        BY <3>3, <4>1, TotalsAre DEF In
    <3>5. Asked = {}
      <4>1. Contested = {}
        BY <3>3, WholeDomains DEF Contested
      <4> QED
        BY <4>1 DEF Asked
    <3>6. DOMAIN answers = {}
      BY <2>1, <3>5 DEF Answered
    <3> QED
      BY <3>2, <3>4, <3>6
  <2> QED
    BY <2>1, <2>3, <2>4
<1> QED
  BY <1>1, HistoryInvariant, PTL
=============================================================================
