------------------------------ MODULE UserGraph ------------------------------
(***************************************************************************)
(* The graph of one user in the older plane (ClaimGraph.ts, Transcript.ts, *)
(* User.ts, Canon.ts, the reads and folds of Supersede.ts): what one        *)
(* commitWrites adds to it, and what is read back.                          *)
(*                                                                         *)
(* Writes MERGE: a vertex gets the properties written, one that is there    *)
(* keeps the others.  A commitWrites is one step here; HydraWrites has its  *)
(* parts.  Names, claims and ordinals are numbers, so that they compare as  *)
(* canons and keys do; a session's turns and their overflow chunks go with  *)
(* its vertex.                                                              *)
(***************************************************************************)
EXTENDS Naturals, Sequences, FiniteSets, FiniteSetsExt, Functions

CONSTANTS
  Sessions, Claims, None,
  ClaimsOf,         \* what extractSession finds in a session
  EntitiesOf,       \* of a claim: entities as extracted, [canon, aliases]
  SlotOf,           \* of a claim: None, or [canon, attr] of an entity's slot
  TextStems,        \* of a claim: the stems of its text and keywords
  NameStems,        \* of a name: its stems
  EventTime         \* of a claim

ASSUME ExtractionAssumption ==
  /\ ClaimsOf \in [Sessions -> SUBSET Claims]
  /\ \A s, t \in Sessions : s # t => ClaimsOf[s] \cap ClaimsOf[t] = {}
  /\ Claims \subseteq Nat /\ DOMAIN NameStems \subseteq Nat
  /\ EventTime \in [Claims -> Nat]

VARIABLE graph

NoStats == [claims |-> 0, entities |-> 0, slots |-> 0, tokens |-> 0, sessions |-> 0,
            supersessions |-> 0, contested |-> 0]

EmptyGraph ==
  [ session |-> <<>>,   \* the ordinal of each session stored
    claim |-> <<>>,     \* the ordinal of each claim stored
    entity |-> <<>>,    \* the aliases of each entity stored
    slot |-> <<>>,      \* n_claims of each slot stored
    df |-> <<>>,        \* of each token stored
    mentions |-> {}, fills |-> {}, hits |-> {}, names |-> {},
    replaced |-> <<>>,  \* at_session of each SUPERSEDED_BY
    linked |-> {},      \* what HAS_SESSION, HAS_ENTITY and HAS_SLOT lead to
    user |-> None ]     \* the User vertex: its counts

\* f written over g.
Over(f, g) == [x \in DOMAIN f \cup DOMAIN g |-> IF x \in DOMAIN f THEN f[x] ELSE g[x]]

-----------------------------------------------------------------------------
(***************************************************************************)
(* Canon.ts.                                                               *)
(***************************************************************************)

\* Entities of one canon are one member; existing ones are marked.
members(existing, incoming) ==
  LET canons == DOMAIN existing \cup {e.canon : e \in incoming} IN
  [n \in canons |->
     [aliases |-> (IF n \in DOMAIN existing THEN existing[n] ELSE {})
                    \cup UNION {e.aliases : e \in {i \in incoming : i.canon = n}},
      existing |-> n \in DOMAIN existing]]

KeysOf(ms, n) == {NameStems[x] : x \in {n} \cup ms[n].aliases} \ {{}}

\* Members that share a key, directly or through others, are one component.
components(ms) ==
  LET merge(key, parts) ==
        LET touched == {p \in parts : \E n \in p : key \in KeysOf(ms, n)}
        IN (parts \ touched) \cup {UNION touched}
  IN FoldSet(merge, {{n} : n \in DOMAIN ms}, UNION {KeysOf(ms, n) : n \in DOMAIN ms})

\* The least canon that is written, or else the least.
canonOf(ms, p) ==
  LET written == {n \in p : ms[n].existing} IN Min(IF written = {} THEN p ELSE written)

\* What is written of each canon, and what each extracted canon is written as.
reconcile(existing, incoming) ==
  LET ms == members(existing, incoming)
      parts == components(ms)
      canon(n) == canonOf(ms, CHOOSE p \in parts : n \in p)
  IN [ entities |->
         [c \in {canon(n) : n \in DOMAIN ms} |->
            LET p == CHOOSE q \in parts : c \in q
            IN (p \cup UNION {ms[n].aliases : n \in p}) \ {c}],
       rename |-> [n \in DOMAIN ms |-> canon(n)] ]

-----------------------------------------------------------------------------
(***************************************************************************)
(* ClaimGraph.ts: one session's claims under the canons decided.           *)
(***************************************************************************)
Incoming(claims) == UNION {EntitiesOf[c] : c \in claims}

SlotKey(r, c) == [canon |-> r.rename[SlotOf[c].canon], attr |-> SlotOf[c].attr]

Slotted(claims) == {c \in claims : SlotOf[c] # None}

\* Tokens of a claim: its own, and those of its entities' canons and aliases.
claimTokens(r, c) ==
  TextStems[c] \cup UNION {NameStems[r.rename[e.canon]] \cup UNION {NameStems[a] : a \in e.aliases}
                            : e \in EntitiesOf[c]}

entityTokens(r, n) == NameStems[n] \cup UNION {NameStems[a] : a \in r.entities[n]}

\* The canons a session's claims mention.
Mentioned(r, s) == {r.rename[e.canon] : e \in Incoming(ClaimsOf[s])}

\* The tokens writeSession writes.
SessionTokens(r, s) ==
  (UNION {claimTokens(r, c) : c \in ClaimsOf[s]}) \cup UNION {entityTokens(r, n) : n \in Mentioned(r, s)}

\* Every token written starts with a df of zero, one that has a df included.
writeSession(g, r, s, ord) ==
  LET claims == ClaimsOf[s]
      slots == {SlotKey(r, c) : c \in Slotted(claims)}
  IN [g EXCEPT
       !.entity = Over([n \in Mentioned(r, s) |-> r.entities[n]], @),
       !.claim = Over([c \in claims |-> ord], @),
       !.slot = Over(@, [k \in slots |-> 0]),
       !.df = Over([t \in SessionTokens(r, s) |-> 0], @),
       !.mentions = @ \cup UNION {{<<r.rename[e.canon], c>> : e \in EntitiesOf[c]} : c \in claims},
       !.fills = @ \cup {<<c, SlotKey(r, c)>> : c \in Slotted(claims)},
       !.hits = @ \cup UNION {{<<t, c>> : t \in claimTokens(r, c)} : c \in claims},
       !.names = @ \cup UNION {{<<t, n>> : t \in entityTokens(r, n)} : n \in Mentioned(r, s)}]

\* The entities and slots of a session are linked to the user.
linkSession(g, r, s) ==
  [g EXCEPT !.linked = @ \cup {<<"Entity", n>> : n \in Mentioned(r, s)}
                         \cup {<<"Slot", SlotKey(r, c)>> : c \in Slotted(ClaimsOf[s])}]

\* Counts of a session's claims: per token, and per slot.
TokenHits(r, S) ==
  [t \in UNION {claimTokens(r, c) : c \in S} |-> Cardinality({c \in S : t \in claimTokens(r, c)})]
SlotFills(r, S) ==
  [k \in {SlotKey(r, c) : c \in Slotted(S)} |-> Cardinality({c \in Slotted(S) : SlotKey(r, c) = k})]

\* Fault: counts are added to what is stored.
AddedCounts(g, df, slots) ==
  [g EXCEPT !.df = Over(df, @),
            !.slot = Over([k \in DOMAIN slots |-> slots[k] + (IF k \in DOMAIN @ THEN @[k] ELSE 0)], @)]

writeCounts(g, df, slots) == [g EXCEPT !.df = Over(df, @), !.slot = Over(slots, @)]

At(f, x) == IF x \in DOMAIN f THEN f[x] ELSE 0

\* A token that hits nothing, or a slot that nothing fills, has no path and counts as 0.
readTokenDf(g, stems) == [t \in stems |-> IF \E h \in g.hits : h[1] = t THEN At(g.df, t) ELSE 0]
readSlotClaimCounts(g, keys) == [k \in keys |-> IF \E f \in g.fills : f[2] = k THEN At(g.slot, k) ELSE 0]

\* The entities linked to the user.
readEntities(g) == Restrict(g.entity, {n \in DOMAIN g.entity : <<"Entity", n>> \in g.linked})

\* Everything of the user but the User vertex is deleted.
removeClaims(g) ==
  [EmptyGraph EXCEPT !.user = g.user, !.session = g.session, !.linked = {l \in g.linked : l[1] = "Session"}]
removeTranscript(g) == [g EXCEPT !.session = <<>>, !.linked = {l \in @ : l[1] # "Session"}]

-----------------------------------------------------------------------------
(***************************************************************************)
(* Supersede.ts.                                                           *)
(***************************************************************************)
Precedes(g, c, d) ==
  \/ g.claim[c] < g.claim[d]
  \/ g.claim[c] = g.claim[d] /\ (EventTime[c] < EventTime[d] \/ (EventTime[c] = EventTime[d] /\ c <= d))

\* The claims of a slot, oldest first.
readSlotClaims(g, k) ==
  LET claims == {f[1] : f \in {x \in g.fills : x[2] = k}}
  IN [i \in 1..Cardinality(claims) |->
        CHOOSE c \in claims : Cardinality({d \in claims : Precedes(g, d, c)}) = i]

\* Fault: a pair is taken as it comes.
AnyWay(g, history, pair) == TRUE
\* A pair of the model's that the code keeps.
Forward(g, history, pair) ==
  /\ history[pair[1]] # history[pair[2]]
  /\ g.claim[history[pair[2]]] >= g.claim[history[pair[1]]]

AtSession(g, older, newer) == g.claim[newer]

\* The model answers pairs of positions, which may be no positions of the history.
detected(g, history, pairs) ==
  { <<history[p[1]], history[p[2]]>> :
      p \in {q \in pairs : {q[1], q[2]} \subseteq DOMAIN history /\ Forward(g, history, q)} }
=============================================================================
