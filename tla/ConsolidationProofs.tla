------------------------- MODULE ConsolidationProofs -------------------------
(***************************************************************************)
(* What the planes hold of a revision that is INDEXED is its transcript and *)
(* its index, the read-back of a snapshot accepts what was planned and      *)
(* nothing else, and replacement does not run in a circle; what a claim     *)
(* quotes can be read back, the view that is stored is the partition by     *)
(* match keys, and what is stored makes a plan: the shape of the plans, of  *)
(* the chains, of the texts and of the groups, the inductive invariants,    *)
(* and what follows.                                                        *)
(***************************************************************************)
EXTENDS Consolidation, FiniteSetTheorems, SequenceTheorems, WellFoundedInduction, TLAPS

\* A vertex that is a revision's own.
Own(c, v) == v # ScopeV /\ v[2] = c

SourceLabels == {"MemoryScope", "SourceSession", "SourceTurn", "SourceTurnChunk"}
IndexLabels == {"IndexEntity", "IndexClaim", "IndexSlot", "IndexToken"}

-----------------------------------------------------------------------------
(***************************************************************************)
(* The plans of the two stages.                                            *)
(***************************************************************************)

\* The transcript's vertices are the scope and the revision's own; its relations lead
\* from one of them to one of its own.
SourceShape(c, plan) ==
  /\ \A v \in DOMAIN plan.vertices : v = ScopeV \/ (Own(c, v) /\ v[1] \in SourceLabels)
  /\ ScopeV \in DOMAIN plan.vertices
  /\ \A turn \in 0..(Len(Texts[c]) - 1) : TurnV(c, turn) \in DOMAIN plan.vertices
  /\ \A r \in plan.relations :
       /\ r[1] \in {"HAS_SOURCE_REVISION", "SOURCE_HAS_TURN", "SOURCE_HAS_CHUNK"}
       /\ Own(c, r[3]) /\ {r[2], r[3]} \subseteq DOMAIN plan.vertices

LEMMA TranscriptShape ==
  ASSUME NEW c PROVE SourceShape(c, planSourceTranscriptWrite(c))
<1> DEFINE chunks == [turn \in 0..(Len(Texts[c]) - 1) |-> chunkText(Texts[c][turn + 1])]
           turns == DOMAIN chunks
           more == UNION {{<<turn, k>> : k \in 1..(Len(chunks[turn]) - 1)} : turn \in turns}
           plan == planSourceTranscriptWrite(c)
           turnVs == {TurnV(c, turn) : turn \in turns}
           chunkVs == {ChunkV(c, at[1], at[2]) : at \in more}
<1>1. \A at \in more : at[1] \in turns
  <2> TAKE at \in more
  <2>1. PICK turn \in turns : at \in {<<turn, k>> : k \in 1..(Len(chunks[turn]) - 1)}
    OBVIOUS
  <2> HIDE DEF turns, chunks
  <2> QED
    BY <2>1
<1>2. DOMAIN plan.vertices = {ScopeV, SessionV(c)} \cup turnVs \cup chunkVs
  BY DEF planSourceTranscriptWrite, Over
<1>3. plan.relations =
         {<<"HAS_SOURCE_REVISION", ScopeV, SessionV(c)>>}
           \cup {<<"SOURCE_HAS_TURN", SessionV(c), TurnV(c, turn)>> : turn \in turns}
           \cup {<<"SOURCE_HAS_CHUNK", TurnV(c, at[1]), ChunkV(c, at[1], at[2])>> : at \in more}
  BY DEF planSourceTranscriptWrite
<1>4. turns = 0..(Len(Texts[c]) - 1)
  OBVIOUS
<1> HIDE DEF chunks, turns, more, plan
<1>5. \A turn \in turns : Own(c, TurnV(c, turn)) /\ TurnV(c, turn)[1] = "SourceTurn"
  BY DEF Own, ScopeV, TurnV
<1>6. \A at \in more : Own(c, ChunkV(c, at[1], at[2])) /\ ChunkV(c, at[1], at[2])[1] = "SourceTurnChunk"
  BY DEF Own, ScopeV, ChunkV
<1>7. Own(c, SessionV(c)) /\ SessionV(c)[1] = "SourceSession"
  BY DEF Own, ScopeV, SessionV
<1>8. \A v \in DOMAIN plan.vertices : v = ScopeV \/ (Own(c, v) /\ v[1] \in SourceLabels)
  BY <1>2, <1>5, <1>6, <1>7 DEF SourceLabels
<1>9. \A r \in plan.relations :
       /\ r[1] \in {"HAS_SOURCE_REVISION", "SOURCE_HAS_TURN", "SOURCE_HAS_CHUNK"}
       /\ Own(c, r[3]) /\ {r[2], r[3]} \subseteq DOMAIN plan.vertices
  <2> TAKE r \in plan.relations
  <2>1. CASE r = <<"HAS_SOURCE_REVISION", ScopeV, SessionV(c)>>
    BY <1>2, <1>7, <2>1
  <2>2. ASSUME NEW turn \in turns, r = <<"SOURCE_HAS_TURN", SessionV(c), TurnV(c, turn)>>
        PROVE  /\ r[1] = "SOURCE_HAS_TURN" /\ Own(c, r[3]) /\ {r[2], r[3]} \subseteq DOMAIN plan.vertices
    BY <1>2, <1>5, <2>2
  <2>3. ASSUME NEW at \in more, r = <<"SOURCE_HAS_CHUNK", TurnV(c, at[1]), ChunkV(c, at[1], at[2])>>
        PROVE  /\ r[1] = "SOURCE_HAS_CHUNK" /\ Own(c, r[3]) /\ {r[2], r[3]} \subseteq DOMAIN plan.vertices
    BY <1>1, <1>2, <1>6, <2>3
  <2> QED
    BY <1>3, <2>1, <2>2, <2>3
<1> QED
  BY <1>2, <1>4, <1>8, <1>9 DEF SourceShape, plan

\* The index's vertices are the revision's own; its relations lead to one of its own from
\* one of them, or from a claim to a turn there is.
IndexShape(c, plan) ==
  /\ \A v \in DOMAIN plan.vertices : Own(c, v) /\ v[1] \in IndexLabels
  /\ \A r \in plan.relations :
       /\ r[1] \in {"INDEX_EVIDENCE", "INDEX_MENTIONS", "INDEX_FILLS", "INDEX_HITS", "INDEX_NAMES"}
       /\ Own(c, r[3]) /\ r[2] \in DOMAIN plan.vertices
       /\ \/ r[3] \in DOMAIN plan.vertices
          \/ \E turn \in 0..(Len(Texts[c]) - 1) : r[3] = TurnV(c, turn)

LEMMA IndexPlanShape ==
  ASSUME NEW c, NEW claims, ~IndexRejects(c, claims)
  PROVE  IndexShape(c, planIndexGraphWrite(c, claims))
<1> DEFINE ids == collectEntityIdentities({claims})
           data == UNION {IndexClaimRelations(c, claims, claims[k]) : k \in DOMAIN claims}
           names == UNION {{<<"INDEX_NAMES", IndexTokenV(c, stem), IndexEntityV(c, i)>>
                                    : stem \in nameStems(i)} : i \in ids}
           relations == IndexRelations(c, claims)
           linked == UNION {{r[2], r[3]} : r \in relations}
           plan == planIndexGraphWrite(c, claims)
           entityVs == {IndexEntityV(c, i) : i \in ids}
           claimVs == {IndexClaimV(c, claims[k].digest) : k \in DOMAIN claims}
           otherVs == {w \in linked : w[1] \in {"IndexSlot", "IndexToken"}}
           vertices == Over([v \in entityVs |-> Entities[v[3]]],
                            Over([v \in claimVs |-> Plain], [v \in otherVs |-> Plain]))
<1>a. plan = [vertices |-> vertices, relations |-> relations]
  BY DEF planIndexGraphWrite
<1>b. DOMAIN vertices = entityVs \cup claimVs \cup otherVs
  <2> HIDE DEF entityVs, claimVs, otherVs
  <2> QED
    BY DEF Over
<1>1. DOMAIN plan.vertices = entityVs \cup claimVs \cup otherVs
  <2> HIDE DEF vertices, plan, entityVs, claimVs, otherVs
  <2> QED
    BY <1>a, <1>b
<1>2. plan.relations = relations /\ relations = data \cup names
  <2>1. plan.relations = relations
    <3> HIDE DEF vertices, relations, plan
    <3> QED
      BY <1>a
  <2>2. relations = data \cup names
    BY DEF IndexRelations
  <2> QED
    BY <2>1, <2>2
<1>3. \A k \in DOMAIN claims : Range(claims[k].entities) \subseteq ids
  <2> TAKE k \in DOMAIN claims
  <2>1. \A x \in Range(claims[k].entities) : x \in UNION {Range(claims[j].entities) : j \in DOMAIN claims}
    OBVIOUS
  <2> QED
    BY <2>1 DEF collectEntityIdentities
<1>4. \A k \in DOMAIN claims : claims[k].turn \in 0..(Len(Texts[c]) - 1)
  BY DEF IndexRejects
<1> HIDE DEF ids, plan
<1>5. ASSUME NEW k \in DOMAIN claims, NEW r \in IndexClaimRelations(c, claims, claims[k])
      PROVE  \/ /\ r[1] = "INDEX_EVIDENCE" /\ r[2] = IndexClaimV(c, claims[k].digest)
                /\ r[3] = TurnV(c, claims[k].turn)
             \/ \E i \in Range(claims[k].entities) :
                  /\ r[1] = "INDEX_MENTIONS" /\ r[2] = IndexEntityV(c, i) 
                  /\ r[3] = IndexClaimV(c, claims[k].digest)
             \/ \E i, attr : /\ r[1] = "INDEX_FILLS" /\ r[2] = IndexClaimV(c, claims[k].digest) 
                             /\ r[3] = IndexSlotV(c, i, attr)
             \/ \E stem : /\ r[1] = "INDEX_HITS" /\ r[2] = IndexTokenV(c, stem) 
                          /\ r[3] = IndexClaimV(c, claims[k].digest)
  BY <1>5 DEF IndexClaimRelations
<1>6. \A i : Own(c, IndexEntityV(c, i)) /\ IndexEntityV(c, i)[1] = "IndexEntity"
  BY DEF Own, ScopeV, IndexEntityV
<1>7. \A d : Own(c, IndexClaimV(c, d)) /\ IndexClaimV(c, d)[1] = "IndexClaim"
  BY DEF Own, ScopeV, IndexClaimV
<1>8. \A i, attr : Own(c, IndexSlotV(c, i, attr)) /\ IndexSlotV(c, i, attr)[1] = "IndexSlot"
  BY DEF Own, ScopeV, IndexSlotV
<1>9. \A stem : Own(c, IndexTokenV(c, stem)) /\ IndexTokenV(c, stem)[1] = "IndexToken"
  BY DEF Own, ScopeV, IndexTokenV
<1>10. \A turn : Own(c, TurnV(c, turn)) /\ TurnV(c, turn)[1] = "SourceTurn"
  BY DEF Own, ScopeV, TurnV
<1>11. ASSUME NEW r \in relations
       PROVE  /\ r[1] \in {"INDEX_EVIDENCE", "INDEX_MENTIONS", "INDEX_FILLS", "INDEX_HITS", "INDEX_NAMES"}
              /\ Own(c, r[2]) /\ Own(c, r[3])
              /\ r[2] \in entityVs \cup claimVs \cup otherVs
              /\ \/ r[3] \in entityVs \cup claimVs \cup otherVs
                 \/ \E turn \in 0..(Len(Texts[c]) - 1) : r[3] = TurnV(c, turn)
  <2>1. r[2] \in linked /\ r[3] \in linked
    OBVIOUS
  <2>0. r \in data \cup names
    BY <1>2
  <2>2. ASSUME NEW k \in DOMAIN claims, r \in IndexClaimRelations(c, claims, claims[k]) PROVE <1>11!2
    <3>1. IndexClaimV(c, claims[k].digest) \in claimVs
      OBVIOUS
    <3>2. \A i \in Range(claims[k].entities) : IndexEntityV(c, i) \in entityVs
      BY <1>3
    <3> HIDE DEF linked, entityVs, claimVs
    <3> QED
      BY <1>4, <1>5, <1>6, <1>7, <1>8, <1>9, <1>10, <2>1, <2>2, <3>1, <3>2
  <2>3. ASSUME NEW i \in ids, NEW stem \in nameStems(i),
               r = <<"INDEX_NAMES", IndexTokenV(c, stem), IndexEntityV(c, i)>>
        PROVE  <1>11!2
    <3>1. IndexEntityV(c, i) \in entityVs
      OBVIOUS
    <3> HIDE DEF linked, entityVs, claimVs
    <3> QED
      BY <1>6, <1>9, <2>1, <2>3, <3>1
  <2> QED
    BY <2>0, <2>2, <2>3
<1>12. \A v \in DOMAIN plan.vertices : Own(c, v) /\ v[1] \in IndexLabels
  <2>1. \A v \in entityVs \cup claimVs : Own(c, v) /\ v[1] \in IndexLabels
    BY <1>6, <1>7 DEF IndexLabels
  <2>2. \A v \in linked : Own(c, v)
    BY <1>11
  <2>3. \A v \in otherVs : Own(c, v) /\ v[1] \in IndexLabels
    BY <2>2 DEF IndexLabels
  <2> QED
    BY <1>1, <2>1, <2>3
<1> QED
  BY <1>1, <1>2, <1>11, <1>12 DEF IndexShape, plan

-----------------------------------------------------------------------------
(***************************************************************************)
(* The planes.                                                             *)
(***************************************************************************)

\* What merging some groups of a plan can make of the planes.
Merges(m, plan) ==
  /\ DOMAIN planes.vertices \subseteq DOMAIN m.vertices
  /\ \A v \in DOMAIN m.vertices :
       \/ v \in DOMAIN plan.vertices /\ m.vertices[v] = plan.vertices[v]
       \/ v \in DOMAIN planes.vertices /\ m.vertices[v] = planes.vertices[v]
  /\ planes.relations \subseteq m.relations /\ m.relations \subseteq planes.relations \cup plan.relations

\* All groups of it: everything is there whose ends are.
MergesAll(m, plan) ==
  /\ DOMAIN plan.vertices \subseteq DOMAIN m.vertices
  /\ \A r \in plan.relations : {r[2], r[3]} \subseteq DOMAIN m.vertices => r \in m.relations

LEMMA WritesMerge ==
  ASSUME NEW plan, NEW order, NEW n
  PROVE  Merges(commitWrites(plan, order, n), plan)
<1> DEFINE sent == {order[k] : k \in 1..n}
           old == planes.vertices
           new == Restrict(plan.vertices, {v \in DOMAIN plan.vertices : v[1] \in sent})
           merged == Over(new, old)
           m == commitWrites(plan, order, n)
<1>1. m = [vertices |-> merged, relations |->
             planes.relations \cup {r \in plan.relations : r[1] \in sent /\ {r[2], r[3]} \subseteq DOMAIN merged}]
  BY DEF commitWrites
<1> HIDE DEF m, sent
<1>2. /\ DOMAIN merged = DOMAIN new \cup DOMAIN old
      /\ \A v \in DOMAIN merged : merged[v] = IF v \in DOMAIN new THEN new[v] ELSE old[v]
  BY DEF Over
<1>3. DOMAIN new \subseteq DOMAIN plan.vertices /\ \A v \in DOMAIN new : new[v] = plan.vertices[v]
  BY DEF Restrict
<1> HIDE DEF new, merged
<1> QED
  BY <1>1, <1>2, <1>3 DEF Merges, m

LEMMA WritesAll ==
  ASSUME NEW plan, NEW order,
         \A v \in DOMAIN plan.vertices : \E k \in 1..Len(order) : v[1] = order[k],
         \A r \in plan.relations : \E k \in 1..Len(order) : r[1] = order[k]
  PROVE  MergesAll(commitWrites(plan, order, Len(order)), plan)
<1> DEFINE sent == {order[k] : k \in 1..Len(order)}
           old == planes.vertices
           new == Restrict(plan.vertices, {v \in DOMAIN plan.vertices : v[1] \in sent})
           merged == Over(new, old)
           m == commitWrites(plan, order, Len(order))
<1>1. m = [vertices |-> merged, relations |->
             planes.relations \cup {r \in plan.relations : r[1] \in sent /\ {r[2], r[3]} \subseteq DOMAIN merged}]
  BY DEF commitWrites
<1>2. DOMAIN new = DOMAIN plan.vertices /\ \A r \in plan.relations : r[1] \in sent
  BY DEF Restrict
<1> HIDE DEF m, sent, new
<1>3. DOMAIN merged = DOMAIN new \cup DOMAIN old
  BY DEF Over
<1> HIDE DEF merged
<1> QED
  BY <1>1, <1>2, <1>3 DEF MergesAll, m

\* The groups are sent in an order that names every label and type.
LEMMA OrdersNameAll ==
  /\ \A label \in SourceLabels \cup {"HAS_SOURCE_REVISION", "SOURCE_HAS_TURN", "SOURCE_HAS_CHUNK"} :
       \E k \in 1..Len(SourceOrder) : label = SourceOrder[k]
  /\ \A label \in IndexLabels \cup {"INDEX_EVIDENCE", "INDEX_MENTIONS", "INDEX_FILLS", "INDEX_HITS", "INDEX_NAMES"} :
       \E k \in 1..Len(IndexOrder) : label = IndexOrder[k]
<1>1. Len(SourceOrder) = 7 /\ Len(IndexOrder) = 9
  BY DEF SourceOrder, IndexOrder
<1>2. /\ SourceOrder[1] = "MemoryScope" /\ SourceOrder[2] = "SourceSession" /\ SourceOrder[3] = "SourceTurn"
      /\ SourceOrder[4] = "SourceTurnChunk" /\ SourceOrder[5] = "HAS_SOURCE_REVISION"
      /\ SourceOrder[6] = "SOURCE_HAS_TURN" /\ SourceOrder[7] = "SOURCE_HAS_CHUNK"
  BY DEF SourceOrder
<1>3. /\ IndexOrder[1] = "IndexEntity" /\ IndexOrder[2] = "IndexClaim" /\ IndexOrder[3] = "IndexSlot"
      /\ IndexOrder[4] = "IndexToken" /\ IndexOrder[5] = "INDEX_EVIDENCE" /\ IndexOrder[6] = "INDEX_MENTIONS"
      /\ IndexOrder[7] = "INDEX_FILLS" /\ IndexOrder[8] = "INDEX_HITS" /\ IndexOrder[9] = "INDEX_NAMES"
  BY DEF IndexOrder
<1>4. 1 \in 1..7 /\ 2 \in 1..7 /\ 3 \in 1..7 /\ 4 \in 1..7 /\ 5 \in 1..7 /\ 6 \in 1..7 /\ 7 \in 1..7
  OBVIOUS
<1>5. /\ 1 \in 1..9 /\ 2 \in 1..9 /\ 3 \in 1..9 /\ 4 \in 1..9 /\ 5 \in 1..9 /\ 6 \in 1..9
      /\ 7 \in 1..9 /\ 8 \in 1..9 /\ 9 \in 1..9
  OBVIOUS
<1>6. \A label \in SourceLabels \cup {"HAS_SOURCE_REVISION", "SOURCE_HAS_TURN", "SOURCE_HAS_CHUNK"} :
       \E k \in 1..Len(SourceOrder) : label = SourceOrder[k]
  BY <1>1, <1>2, <1>4 DEF SourceLabels
<1>7. \A label \in IndexLabels \cup {"INDEX_EVIDENCE", "INDEX_MENTIONS", "INDEX_FILLS", "INDEX_HITS", "INDEX_NAMES"} :
       \E k \in 1..Len(IndexOrder) : label = IndexOrder[k]
  BY <1>1, <1>3, <1>5 DEF IndexLabels
<1> QED
  BY <1>6, <1>7

Source(c) == planSourceTranscriptWrite(c)
IndexOf(c) == planIndexGraphWrite(c, artifact[c])

\* Of a revision the planes hold nothing but its plans; from the stages it has passed,
\* all of them.  Its claims are extracted once, before the first of its index is written.
PlaneInv(c) ==
  LET V == {v \in DOMAIN planes.vertices : Own(c, v)}
      R == {r \in planes.relations : Own(c, r[3])}
  IN  /\ state[c] = "RECEIVED" => Unextracted(c)
      /\ Unextracted(c) => V \subseteq DOMAIN Source(c).vertices /\ R \subseteq Source(c).relations
      /\ ~Unextracted(c) =>
           /\ ~IndexRejects(c, artifact[c])
           /\ V \subseteq DOMAIN Source(c).vertices \cup DOMAIN IndexOf(c).vertices
           /\ \A v \in V \cap DOMAIN IndexOf(c).vertices : planes.vertices[v] = IndexOf(c).vertices[v]
           /\ R \subseteq Source(c).relations \cup IndexOf(c).relations
      /\ state[c] # "RECEIVED" =>
           /\ DOMAIN Source(c).vertices \subseteq DOMAIN planes.vertices
           /\ Source(c).relations \subseteq planes.relations
      /\ ReachedIndex(c) =>
           /\ ~Unextracted(c)
           /\ DOMAIN IndexOf(c).vertices \subseteq DOMAIN planes.vertices
           /\ IndexOf(c).relations \subseteq planes.relations

Stages == {"RECEIVED", "SOURCE_DURABLE", "INDEXED", "ENRICHED", "CONSOLIDATED"}

SourceInv ==
  /\ state \in [Commits -> Stages] /\ DOMAIN artifact = Commits
  /\ \A c \in Commits : PlaneInv(c)

\* Merging another revision's plan adds nothing of this one's.
LEMMA OthersKeep ==
  ASSUME NEW c \in Commits, NEW d, c # d, PlaneInv(c), NEW plan, Merges(planes', plan),
         \A v \in DOMAIN plan.vertices : v = ScopeV \/ Own(d, v),
         \A r \in plan.relations : Own(d, r[3]),
         state'[c] = state[c], artifact'[c] = artifact[c]
  PROVE  PlaneInv(c)'
<1>1. \A v \in DOMAIN planes'.vertices : Own(c, v) => v \in DOMAIN planes.vertices /\ planes'.vertices[v] = planes.vertices[v]
  BY DEF Merges, Own
<1>2. \A r \in planes'.relations : Own(c, r[3]) => r \in planes.relations
  BY DEF Merges, Own
<1>3. /\ Unextracted(c)' = Unextracted(c) /\ ReachedIndex(c)' = ReachedIndex(c)
      /\ Source(c)' = Source(c) /\ IndexOf(c)' = IndexOf(c)
      /\ IndexRejects(c, artifact[c])' = IndexRejects(c, artifact[c])
  BY DEF Unextracted, ReachedIndex, Source, IndexOf, planSourceTranscriptWrite, planIndexGraphWrite, IndexRejects
<1>4. /\ DOMAIN planes.vertices \subseteq DOMAIN planes'.vertices /\ planes.relations \subseteq planes'.relations
  BY DEF Merges
<1> QED
  BY <1>1, <1>2, <1>3, <1>4 DEF PlaneInv

-----------------------------------------------------------------------------
(***************************************************************************)
(* The steps.                                                              *)
(***************************************************************************)

LEMMA TranscriptKeeps ==
  ASSUME SourceInv, NEW d \in Commits, StoreTranscript(d) PROVE SourceInv'
<1>1. PICK n \in Progress(d, SourceOrder) :
        /\ planes' = commitWrites(Source(d), SourceOrder, n)
        /\ Reaches(d, "SOURCE_DURABLE", n = Len(SourceOrder))
  BY DEF StoreTranscript, Source
<1>2. SourceShape(d, Source(d)) /\ Merges(planes', Source(d))
  BY <1>1, TranscriptShape, WritesMerge DEF Source
<1>3. /\ state[d] = "RECEIVED" /\ artifact' = artifact /\ state' \in [Commits -> Stages]
      /\ \A c \in Commits : c # d => state'[c] = state[c]
      /\ state'[d] = "RECEIVED" \/ (state'[d] = "SOURCE_DURABLE" /\ n = Len(SourceOrder))
  BY <1>1 DEF StoreTranscript, Reaches, SourceInv, Stages
<1>4. ASSUME NEW c \in Commits, c # d PROVE PlaneInv(c)'
  <2>1. /\ \A v \in DOMAIN Source(d).vertices : v = ScopeV \/ Own(d, v)
        /\ \A r \in Source(d).relations : Own(d, r[3])
    BY <1>2 DEF SourceShape
  <2>2. PlaneInv(c) /\ artifact'[c] = artifact[c] /\ state'[c] = state[c]
    BY <1>3, <1>4 DEF SourceInv
  <2> QED
    BY <1>2, <1>4, <2>1, <2>2, OthersKeep
<1>5. PlaneInv(d)'
  <2>1. Unextracted(d) /\ PlaneInv(d)
    BY <1>3 DEF SourceInv, PlaneInv
  <2>2. Unextracted(d)' /\ ~ReachedIndex(d)' /\ Source(d)' = Source(d)
    BY <1>3, <2>1 DEF Unextracted, ReachedIndex, Source, planSourceTranscriptWrite
  <2>3. /\ {v \in DOMAIN planes'.vertices : Own(d, v)} \subseteq DOMAIN Source(d).vertices
        /\ {r \in planes'.relations : Own(d, r[3])} \subseteq Source(d).relations
    BY <1>2, <2>1 DEF PlaneInv, Merges
  <2>4. ASSUME state'[d] # "RECEIVED"
        PROVE  DOMAIN Source(d).vertices \subseteq DOMAIN planes'.vertices /\ Source(d).relations \subseteq planes'.relations
    <3>1. MergesAll(commitWrites(Source(d), SourceOrder, Len(SourceOrder)), Source(d))
      <4>1. \A v \in DOMAIN Source(d).vertices : v[1] \in SourceLabels
        BY <1>2 DEF SourceShape, SourceLabels, ScopeV
      <4>2. \A r \in Source(d).relations : r[1] \in {"HAS_SOURCE_REVISION", "SOURCE_HAS_TURN", "SOURCE_HAS_CHUNK"}
        BY <1>2 DEF SourceShape
      <4>3. /\ \A v \in DOMAIN Source(d).vertices : \E k \in 1..Len(SourceOrder) : v[1] = SourceOrder[k]
            /\ \A r \in Source(d).relations : \E k \in 1..Len(SourceOrder) : r[1] = SourceOrder[k]
        BY <4>1, <4>2, OrdersNameAll
      <4> QED
        BY <4>3, WritesAll
    <3>2. MergesAll(planes', Source(d))
      BY <1>1, <1>3, <2>4, <3>1
    <3> QED
      BY <1>2, <3>2 DEF MergesAll, SourceShape
  <2> QED
    BY <2>2, <2>3, <2>4 DEF PlaneInv
<1> QED
  BY <1>3, <1>4, <1>5 DEF SourceInv

\* The claim made of what the model says of a session.
ClaimOf(turns, said) ==
  LET span == locateSpan(turns[said.turn + 1], said.quote)
  IN  [digest |-> claimDigest(said.text, said.turn, span.cs, span.ce),
       text |-> said.text, turn |-> said.turn, cs |-> span.cs, ce |-> span.ce,
       entities |-> said.entities, slot |-> said.slot, stems |-> said.stems]

LEMMA ExtractedAre ==
  ASSUME NEW turns, NEW raw
  PROVE  LET located == InOrder({j \in DOMAIN raw : DropReason(turns, raw[j]) = ""})
         IN  extractSession(turns, raw) = [k \in DOMAIN located |-> ClaimOf(turns, raw[located[k]])]
BY DEF extractSession, ClaimOf

\* What is extracted is not the absence of an artifact.
LEMMA ExtractedIsSome == \A turns, raw : extractSession(turns, raw) # NoArtifact
<1> SUFFICES ASSUME NEW turns, NEW raw, extractSession(turns, raw) = NoArtifact PROVE FALSE
  OBVIOUS
<1> DEFINE located == InOrder({j \in DOMAIN raw : DropReason(turns, raw[j]) = ""})
           Claim(k) == ClaimOf(turns, raw[located[k]])
<1>1. extractSession(turns, raw) = [k \in DOMAIN located |-> Claim(k)]
  BY ExtractedAre
<1>2. "text" \in DOMAIN Claim(1)
  BY DEF ClaimOf
<1> HIDE DEF located, Claim
<1>3. 1 \in DOMAIN NoArtifact /\ NoArtifact[1] = [digest |-> 0]
  BY DEF NoArtifact
<1>4. Claim(1) = [digest |-> 0]
  BY <1>1, <1>3
<1>5. "text" \notin DOMAIN [digest |-> 0]
  OBVIOUS
<1> QED
  BY <1>2, <1>4, <1>5

LEMMA IndexKeeps ==
  ASSUME SourceInv, NEW d \in Commits, StoreIndex(d) PROVE SourceInv'
<1> DEFINE plan == planIndexGraphWrite(d, artifact'[d])
<1>1. PICK n \in Progress(d, IndexOrder) :
        planes' = commitWrites(plan, IndexOrder, n) /\ Reaches(d, "INDEXED", n = Len(IndexOrder))
  BY DEF StoreIndex
<1>2. /\ state[d] = "SOURCE_DURABLE" /\ state' \in [Commits -> Stages]
      /\ \A c \in Commits : c # d => state'[c] = state[c]
      /\ state'[d] = "SOURCE_DURABLE" \/ (state'[d] = "INDEXED" /\ n = Len(IndexOrder))
  BY <1>1 DEF StoreIndex, Reaches, SourceInv, Stages
<1>3. /\ DOMAIN artifact' = Commits /\ \A c \in Commits : c # d => artifact'[c] = artifact[c]
      /\ ~Unextracted(d) => artifact' = artifact
      /\ artifact'[d] # NoArtifact
  BY ExtractedIsSome DEF StoreIndex, SourceInv, Unextracted
<1>4. ~IndexRejects(d, artifact'[d])
  BY DEF StoreIndex
<1>5. IndexShape(d, plan)
  BY <1>4, IndexPlanShape
<1>6. Merges(planes', plan)
  BY <1>1, WritesMerge
<1> HIDE DEF plan
<1>7. ASSUME NEW c \in Commits, c # d PROVE PlaneInv(c)'
  <2>1. /\ \A v \in DOMAIN plan.vertices : v = ScopeV \/ Own(d, v)
        /\ \A r \in plan.relations : Own(d, r[3])
    BY <1>5 DEF IndexShape
  <2>2. PlaneInv(c) /\ artifact'[c] = artifact[c] /\ state'[c] = state[c]
    BY <1>2, <1>3, <1>7 DEF SourceInv
  <2> QED
    BY <1>6, <1>7, <2>1, <2>2, OthersKeep
<1>8. PlaneInv(d)'
  <2>1. SourceShape(d, Source(d))
    BY TranscriptShape DEF Source
  <2>2. PlaneInv(d)
    BY DEF SourceInv
  <2>3. /\ ~Unextracted(d)' /\ Source(d)' = Source(d) /\ IndexOf(d)' = plan
        /\ IndexRejects(d, artifact[d])' = IndexRejects(d, artifact'[d])
    BY <1>3 DEF Unextracted, Source, IndexOf, planSourceTranscriptWrite, planIndexGraphWrite, plan, IndexRejects
  <2>4. ~Unextracted(d) => IndexOf(d) = plan
    BY <1>3 DEF IndexOf, plan
  <2>5. \A v \in DOMAIN Source(d).vertices : Own(d, v) => v \notin DOMAIN plan.vertices
    BY <1>5, <2>1 DEF SourceShape, IndexShape, Own, SourceLabels, IndexLabels
  <2>6. ASSUME NEW v \in DOMAIN planes.vertices, Own(d, v)
        PROVE  /\ v \in DOMAIN Source(d).vertices \cup DOMAIN plan.vertices
               /\ v \in DOMAIN plan.vertices => planes.vertices[v] = plan.vertices[v]
    BY <2>2, <2>4, <2>5, <2>6 DEF PlaneInv
  <2>7. ASSUME NEW r \in planes.relations, Own(d, r[3]) PROVE r \in Source(d).relations \cup plan.relations
    BY <2>2, <2>4, <2>7 DEF PlaneInv
  <2>8. /\ {v \in DOMAIN planes'.vertices : Own(d, v)} \subseteq DOMAIN Source(d).vertices \cup DOMAIN plan.vertices
        /\ \A v \in {w \in DOMAIN planes'.vertices : Own(d, w)} \cap DOMAIN plan.vertices :
             planes'.vertices[v] = plan.vertices[v]
        /\ {r \in planes'.relations : Own(d, r[3])} \subseteq Source(d).relations \cup plan.relations
    BY <1>6, <2>6, <2>7 DEF Merges
  <2>9. DOMAIN Source(d).vertices \subseteq DOMAIN planes'.vertices /\ Source(d).relations \subseteq planes'.relations
    BY <1>2, <1>6, <2>2 DEF PlaneInv, Merges
  <2>10. ASSUME state'[d] = "INDEXED"
         PROVE  DOMAIN plan.vertices \subseteq DOMAIN planes'.vertices /\ plan.relations \subseteq planes'.relations
    <3>1. MergesAll(commitWrites(plan, IndexOrder, Len(IndexOrder)), plan)
      <4>1. /\ \A v \in DOMAIN plan.vertices : \E k \in 1..Len(IndexOrder) : v[1] = IndexOrder[k]
            /\ \A r \in plan.relations : \E k \in 1..Len(IndexOrder) : r[1] = IndexOrder[k]
        BY <1>5, OrdersNameAll DEF IndexShape
      <4> QED
        BY <4>1, WritesAll
    <3>2. MergesAll(planes', plan)
      BY <1>1, <1>2, <2>10, <3>1
    <3>3. \A r \in plan.relations : r[2] \in DOMAIN planes'.vertices /\ r[3] \in DOMAIN planes'.vertices
      BY <1>5, <2>1, <2>9, <3>2 DEF IndexShape, SourceShape, MergesAll
    <3> QED
      BY <3>2, <3>3 DEF MergesAll
  <2>11. ReachedIndex(d)' => state'[d] = "INDEXED"
    BY <1>2 DEF ReachedIndex
  <2> QED
    BY <1>2, <1>4, <2>3, <2>8, <2>9, <2>10, <2>11 DEF PlaneInv
<1> QED
  BY <1>2, <1>3, <1>7, <1>8 DEF SourceInv

\* The later stages leave the planes alone.
LEMMA LaterKeeps ==
  ASSUME SourceInv, planes' = planes, artifact' = artifact, state' \in [Commits -> Stages],
         \A c \in Commits : \/ state'[c] = state[c]
                            \/ ReachedIndex(c) /\ state'[c] \in {"ENRICHED", "CONSOLIDATED"}
  PROVE  SourceInv'
<1> SUFFICES ASSUME NEW c \in Commits PROVE PlaneInv(c)'
  BY DEF SourceInv
<1>1. PlaneInv(c)
  BY DEF SourceInv
<1>2. /\ Unextracted(c)' = Unextracted(c) /\ Source(c)' = Source(c) /\ IndexOf(c)' = IndexOf(c)
      /\ IndexRejects(c, artifact[c])' = IndexRejects(c, artifact[c])
  BY DEF Unextracted, Source, IndexOf, planSourceTranscriptWrite, planIndexGraphWrite, IndexRejects
<1>3. ReachedIndex(c)' = ReachedIndex(c) /\ (state'[c] = "RECEIVED" <=> state[c] = "RECEIVED")
  BY DEF ReachedIndex
<1> QED
  BY <1>1, <1>2, <1>3 DEF PlaneInv

-----------------------------------------------------------------------------
\* The revision whose snapshot is read back is the one being consolidated.
SnapshotInv == snapshot.state = "WRITTEN" => snapshot.of \in Commits /\ state[snapshot.of] = "ENRICHED"

ConsolidationInv == SourceInv /\ SnapshotInv

LEMMA InvInit == ConsolidationInit => ConsolidationInv
<1> SUFFICES ASSUME ConsolidationInit PROVE ConsolidationInv
  OBVIOUS
<1>1. /\ state \in [Commits -> Stages] /\ DOMAIN artifact = Commits
      /\ \A c \in Commits : state[c] = "RECEIVED" /\ artifact[c] = NoArtifact
      /\ DOMAIN planes.vertices = {} /\ planes.relations = {}
  BY DEF ConsolidationInit, SourceInit, EmptyGraph, Stages
<1>2. \A c \in Commits : PlaneInv(c)
  BY <1>1 DEF PlaneInv, Unextracted, ReachedIndex
<1>3. SnapshotInv
  BY DEF ConsolidationInit, SnapshotInv, None
<1> QED
  BY <1>1, <1>2, <1>3 DEF ConsolidationInv, SourceInv

LEMMA InvNext == ConsolidationInv /\ [ConsolidationNext]_vars => ConsolidationInv'
<1> SUFFICES ASSUME ConsolidationInv, [ConsolidationNext]_vars PROVE ConsolidationInv'
  OBVIOUS
<1> USE DEF ConsolidationInv
<1>1. CASE UNCHANGED vars
  <2>1. SourceInv'
    BY <1>1, LaterKeeps DEF vars, sourceVars, SourceInv
  <2> QED
    BY <1>1, <2>1 DEF vars, sourceVars, SnapshotInv
<1>2. ASSUME NEW c \in Commits, Index(c) PROVE ConsolidationInv'
  <2>1. SourceInv'
    BY <1>2, TranscriptKeeps, IndexKeeps DEF Index
  <2>2. snapshot' = snapshot /\ snapshot.state # "WRITTEN"
    BY <1>2 DEF Index, Unlocked
  <2> QED
    BY <2>1, <2>2 DEF SnapshotInv
<1>3. ASSUME NEW c \in Commits, Park(c) \/ Decide(c) PROVE ConsolidationInv'
  <2>1. UNCHANGED <<state, artifact, planes, snapshot>>
    BY <1>3 DEF Park, Decide, sourceVars
  <2>2. SourceInv'
    BY <2>1, LaterKeeps DEF SourceInv
  <2> QED
    BY <2>1, <2>2 DEF SnapshotInv
<1>4. ASSUME NEW c \in Commits, Enrich(c) PROVE ConsolidationInv'
  <2>1. /\ state[c] = "INDEXED" /\ state' = [state EXCEPT ![c] = "ENRICHED"]
        /\ UNCHANGED <<artifact, planes, snapshot>> /\ snapshot.state # "WRITTEN"
    BY <1>4 DEF Enrich, Unlocked
  <2>2. SourceInv'
    BY <2>1, LaterKeeps DEF SourceInv, Stages, ReachedIndex
  <2> QED
    BY <2>1, <2>2 DEF SnapshotInv
<1>5. ASSUME NEW c \in Commits, Consolidate(c) PROVE ConsolidationInv'
  <2>1. /\ state[c] = "ENRICHED" /\ UNCHANGED <<state, artifact, planes>> /\ snapshot'.of = c
    BY <1>5 DEF Consolidate, sourceVars
  <2>2. SourceInv'
    BY <2>1, LaterKeeps DEF SourceInv
  <2> QED
    BY <2>1, <2>2 DEF SnapshotInv
<1>6. CASE Damage
  <2>1. UNCHANGED <<state, artifact, planes, snapshot>>
    BY <1>6 DEF Damage, sourceVars
  <2>2. SourceInv'
    BY <2>1, LaterKeeps DEF SourceInv
  <2> QED
    BY <2>1, <2>2 DEF SnapshotInv
<1>7. CASE Verify
  <2>1. /\ snapshot.state = "WRITTEN" /\ UNCHANGED <<artifact, planes>>
        /\ state' = [state EXCEPT ![snapshot.of] = "CONSOLIDATED"]
        /\ snapshot' = [snapshot EXCEPT !.state = "VERIFIED"]
    BY <1>7 DEF Verify
  <2>2. SourceInv'
    BY <2>1, LaterKeeps DEF SourceInv, SnapshotInv, Stages, ReachedIndex
  <2>3. snapshot'.state # "WRITTEN"
    BY <2>1
  <2> QED
    BY <2>2, <2>3 DEF SnapshotInv
<1>8. CASE Abandon
  <2>1. UNCHANGED <<state, artifact, planes>> /\ snapshot' = [snapshot EXCEPT !.state = "BUILDING"]
    BY <1>8 DEF Abandon, sourceVars
  <2>2. SourceInv'
    BY <2>1, LaterKeeps DEF SourceInv
  <2>3. snapshot'.state # "WRITTEN"
    BY <2>1
  <2> QED
    BY <2>2, <2>3 DEF SnapshotInv
<1> QED
  BY <1>1, <1>2, <1>3, <1>4, <1>5, <1>6, <1>7, <1>8 DEF ConsolidationNext

\* Of a revision that is INDEXED the planes hold its transcript and the index of its
\* claims and nothing else, for any texts, claims and interruptions: what a stage cut short
\* has left, the next run of it completes (TransactionalSourceIndex.ts, IndexGraph.ts).
THEOREM IndexHolds == ConsolidationSpec => []IndexIsThePlan
<1>1. ConsolidationInv => IndexIsThePlan
  <2> SUFFICES ASSUME ConsolidationInv, NEW c \in Commits, ReachedIndex(c)
               PROVE  /\ {v \in DOMAIN planes.vertices : v # ScopeV /\ v[2] = c}
                           = {v \in DOMAIN Source(c).vertices : v # ScopeV /\ v[2] = c} \cup DOMAIN IndexOf(c).vertices
                      /\ \A v \in DOMAIN IndexOf(c).vertices : planes.vertices[v] = IndexOf(c).vertices[v]
                      /\ {r \in planes.relations : r[3] # ScopeV /\ r[3][2] = c}
                           = Source(c).relations \cup IndexOf(c).relations
    BY DEF IndexIsThePlan, Source, IndexOf
  <2>1. PlaneInv(c) /\ state[c] # "RECEIVED"
    BY DEF ConsolidationInv, SourceInv, ReachedIndex
  <2>2. SourceShape(c, Source(c))
    BY TranscriptShape DEF Source
  <2>3. IndexShape(c, IndexOf(c))
    BY <2>1, IndexPlanShape DEF PlaneInv, IndexOf
  <2>4. {v \in DOMAIN planes.vertices : v # ScopeV /\ v[2] = c}
           = {v \in DOMAIN Source(c).vertices : v # ScopeV /\ v[2] = c} \cup DOMAIN IndexOf(c).vertices
    BY <2>1, <2>3 DEF PlaneInv, IndexShape, Own
  <2>5. \A v \in DOMAIN IndexOf(c).vertices : planes.vertices[v] = IndexOf(c).vertices[v]
    BY <2>1, <2>3 DEF PlaneInv, IndexShape
  <2>6. {r \in planes.relations : r[3] # ScopeV /\ r[3][2] = c} = Source(c).relations \cup IndexOf(c).relations
    BY <2>1, <2>2, <2>3 DEF PlaneInv, SourceShape, IndexShape, Own
  <2> QED
    BY <2>4, <2>5, <2>6
<1> QED
  BY <1>1, InvInit, InvNext, PTL DEF ConsolidationSpec

-----------------------------------------------------------------------------
(***************************************************************************)
(* The plan of a snapshot, and what a read-back of it accepts.             *)
(***************************************************************************)

\* What a plan is: vertices, of which the stranger is none, relations between them, and
\* one from the root to each of the others.
PlanShape(plan) ==
  /\ plan.vertices = [v \in DOMAIN plan.vertices |-> plan.vertices[v]]
  /\ plan.relations = [r \in DOMAIN plan.relations |-> plan.relations[r]]
  /\ Root \in DOMAIN plan.vertices /\ Stranger \notin DOMAIN plan.vertices
  /\ \A r \in DOMAIN plan.relations : r[2] \in DOMAIN plan.vertices /\ r[3] \in DOMAIN plan.vertices
  /\ {r[3] : r \in {q \in DOMAIN plan.relations : q[2] = Root /\ q[1] \in Range(MemberRelation)}}
       = DOMAIN plan.vertices \ {Root}

\* What a graph is, damaged or not: a relation has its ends, or one of them and the stranger.
GraphShape(g) ==
  /\ g = [vertices |-> g.vertices, relations |-> g.relations]
  /\ g.vertices = [v \in DOMAIN g.vertices |-> g.vertices[v]]
  /\ g.relations = [r \in DOMAIN g.relations |-> g.relations[r]]
  /\ \A r \in DOMAIN g.relations :
       /\ r[2] \in DOMAIN g.vertices \cup {Stranger} /\ r[3] \in DOMAIN g.vertices \cup {Stranger}
       /\ r[2] # Stranger \/ r[3] # Stranger

LEMMA ReadBackFollows ==
  ASSUME PlanShape(Plan), GraphShape(graph), DOMAIN graph.vertices \subseteq DOMAIN Plan.vertices
  PROVE  verifyReadBack <=> HoldsThePlan
<1> DEFINE planned == DOMAIN Plan.vertices
           members(rels) == {r[3] : r \in {q \in rels : q[2] = Root /\ q[1] \in Range(MemberRelation)}}
           seen == {r \in DOMAIN graph.relations : r[2] \in planned \/ r[3] \in planned \ {Root}}
           inner == {r \in DOMAIN graph.relations : ~(r[2] = Stranger /\ r[3] = Root)}
<1>1. observedMembers = members(DOMAIN graph.relations) /\ members(DOMAIN Plan.relations) = planned \ {Root}
  BY DEF observedMembers, PlanShape
<1>2. observedRelations(planned) = seen
  BY DEF observedRelations
<1>3. Root \in planned /\ Stranger \notin planned
  BY DEF PlanShape
<1>4. ASSUME DOMAIN graph.vertices = planned PROVE seen = inner
  BY <1>3, <1>4 DEF GraphShape
<1>5. ASSUME verifyReadBack PROVE HoldsThePlan
  <2>1. /\ Root \in DOMAIN graph.vertices /\ graph.vertices[Root] = Plan.vertices[Root]
        /\ observedMembers = planned \ {Root}
        /\ \A v \in observedMembers : PropertiesOf(v) = Plan.vertices[v]
        /\ seen = DOMAIN Plan.relations
        /\ \A r \in seen : graph.relations[r] = Plan.relations[r]
    BY <1>2, <1>5 DEF verifyReadBack
  <2>2. planned \subseteq DOMAIN graph.vertices
    <3> SUFFICES ASSUME NEW v \in planned \ {Root} PROVE v \in DOMAIN graph.vertices
      BY <2>1
    <3>1. PICK r \in DOMAIN graph.relations : v = r[3]
      BY <1>1, <2>1
    <3> QED
      BY <1>3, <3>1 DEF GraphShape
  <2>3. DOMAIN graph.vertices = planned
    BY <2>2
  <2>4. \A v \in planned : graph.vertices[v] = Plan.vertices[v]
    BY <2>1, <2>2 DEF PropertiesOf
  <2>5. graph.vertices = Plan.vertices
    BY <2>3, <2>4 DEF GraphShape, PlanShape
  <2>6. inner = DOMAIN Plan.relations
    BY <1>4, <2>1, <2>3
  <2> QED
    BY <2>1, <2>5, <2>6 DEF HoldsThePlan
<1>6. ASSUME HoldsThePlan PROVE verifyReadBack
  <2>1. /\ graph.vertices = Plan.vertices /\ inner = DOMAIN Plan.relations
        /\ \A r \in DOMAIN Plan.relations : graph.relations[r] = Plan.relations[r]
    BY <1>6 DEF HoldsThePlan
  <2>2. seen = DOMAIN Plan.relations
    BY <1>4, <2>1
  <2>3. observedMembers = members(inner)
    BY <1>1, <1>3
  <2>4. observedMembers = planned \ {Root}
    BY <1>1, <2>1, <2>3
  <2>5. \A v \in observedMembers : PropertiesOf(v) = Plan.vertices[v]
    BY <2>1, <2>4 DEF PropertiesOf
  <2> QED
    BY <1>2, <1>3, <2>1, <2>2, <2>4, <2>5 DEF verifyReadBack
<1> QED
  BY <1>5, <1>6

\* The relations of the claims and the names of what is covered.
DataShape(covers, ids, claims, view, data) ==
  \A r \in data :
    \/ r[1] = "SNAPSHOT_DERIVED_FROM" /\ r[2] \in claims /\ \E c \in covers : r[3] = RevisionV(c)
    \/ r[1] = "SNAPSHOT_EVIDENCE" /\ r[2] \in claims /\ r[3][1] = "SnapshotEvidence"
    \/ r[1] = "SNAPSHOT_MENTIONS" /\ r[3] \in claims /\ \E i \in ids : r[2] = EntityV(view[i])
    \/ r[1] = "SNAPSHOT_FILLS" /\ r[2] \in claims /\ r[3][1] = "SnapshotSlot"
    \/ r[1] = "SNAPSHOT_HITS" /\ r[3] \in claims /\ r[2][1] = "SnapshotToken"
    \/ r[1] = "SNAPSHOT_NAMES" /\ r[2][1] = "SnapshotToken" /\ \E i \in ids : r[3] = EntityV(view[i])

LEMMA DataHasShape ==
  ASSUME NEW covers, NEW a, NEW view
  PROVE  DataShape(covers, PlannedIds(covers, a), ClaimVertices(covers, a), view, DataRelations(covers, a, view))
<1> DEFINE ids == PlannedIds(covers, a)
           claims == ClaimVertices(covers, a)
<1>1. ASSUME NEW at \in ClaimsAt(covers, a)
      PROVE  /\ at[1] \in covers /\ ClaimV(at[1], a[at[1]][at[2]].digest) \in claims
             /\ Range(a[at[1]][at[2]].entities) \subseteq ids
  <2>1. PICK c \in covers : at \in {<<c, k>> : k \in DOMAIN a[c]}
    BY <1>1 DEF ClaimsAt
  <2>2. PICK k \in DOMAIN a[c] : at = <<c, k>>
    BY <2>1
  <2>3. ClaimV(at[1], a[at[1]][at[2]].digest) \in claims
    BY <1>1 DEF ClaimVertices
  <2>4. Range(a[c][k].entities) \subseteq ids
    <3>1. Range(a[c][k].entities) \subseteq UNION {Range(a[c][j].entities) : j \in DOMAIN a[c]}
      OBVIOUS
    <3>2. a[c] \in {a[d] : d \in covers}
      OBVIOUS
    <3> QED
      BY <3>1, <3>2 DEF PlannedIds, collectEntityIdentities
  <2> QED
    BY <2>2, <2>3, <2>4
<1>2. ASSUME NEW at \in ClaimsAt(covers, a), NEW r \in ClaimRelations(a, view, at)
      PROVE  LET v == ClaimV(at[1], a[at[1]][at[2]].digest)
             IN  \/ r[1] = "SNAPSHOT_DERIVED_FROM" /\ r[2] = v /\ r[3] = RevisionV(at[1])
                 \/ r[1] = "SNAPSHOT_EVIDENCE" /\ r[2] = v /\ \E turn : r[3] = EvidenceV(at[1], turn)
                 \/ r[1] = "SNAPSHOT_MENTIONS" /\ r[3] = v
                      /\ \E i \in Range(a[at[1]][at[2]].entities) : r[2] = EntityV(view[i])
                 \/ r[1] = "SNAPSHOT_FILLS" /\ r[2] = v /\ \E i, attr : r[3] = SlotV(i, attr)
                 \/ r[1] = "SNAPSHOT_HITS" /\ r[3] = v /\ \E stem : r[2] = TokenV(stem)
  BY <1>2 DEF ClaimRelations
<1>3. /\ \A c, turn : EvidenceV(c, turn)[1] = "SnapshotEvidence"
      /\ \A i, attr : SlotV(i, attr)[1] = "SnapshotSlot"
      /\ \A stem : TokenV(stem)[1] = "SnapshotToken"
  BY DEF EvidenceV, SlotV, TokenV
<1>4. ASSUME NEW i \in ids, NEW stem \in nameStems(i), NEW r, r = <<"SNAPSHOT_NAMES", TokenV(stem), EntityV(view[i])>>
      PROVE  r[1] = "SNAPSHOT_NAMES" /\ r[2][1] = "SnapshotToken" /\ \E j \in ids : r[3] = EntityV(view[j])
  BY <1>3, <1>4
<1> SUFFICES ASSUME NEW r \in DataRelations(covers, a, view) PROVE DataShape(covers, ids, claims, view, {r})
  BY DEF DataShape
<1>5. CASE \E at \in ClaimsAt(covers, a) : r \in ClaimRelations(a, view, at)
  <2>1. PICK at \in ClaimsAt(covers, a) : r \in ClaimRelations(a, view, at)
    BY <1>5
  <2> HIDE DEF ids, claims
  <2> QED
    BY <1>1, <1>2, <1>3, <2>1 DEF DataShape
<1>6. CASE r \in NameRelations(ids, view)
  <2>1. PICK i \in ids : r \in {<<"SNAPSHOT_NAMES", TokenV(stem), EntityV(view[i])>> : stem \in nameStems(i)}
    BY <1>6 DEF NameRelations
  <2> HIDE DEF ids, claims
  <2> QED
    BY <1>4, <2>1 DEF DataShape
<1> QED
  BY <1>5, <1>6 DEF DataRelations

SnapshotLabels == {"SnapshotRoot"} \cup DOMAIN MemberRelation

LEMMA GraphHasShape ==
  ASSUME NEW covers, NEW ids, NEW claims, NEW data, NEW causal, NEW ordinal, NEW view,
         DataShape(covers, ids, claims, view, data),
         \A v \in claims : v[1] = "SnapshotClaim",
         \A r \in causal : r[1] = "SNAPSHOT_SUPERSEDED_BY" /\ r[2] \in claims /\ r[3] \in claims
  PROVE  /\ PlanShape(GraphOf(covers, ids, claims, data, causal, ordinal, view))
         /\ GraphShape(GraphOf(covers, ids, claims, data, causal, ordinal, view))
         /\ \A r \in DOMAIN GraphOf(covers, ids, claims, data, causal, ordinal, view).relations :
              r[1] = "SNAPSHOT_SUPERSEDED_BY" => r \in causal
<1> DEFINE evidence == {r[3] : r \in {q \in data : q[1] = "SNAPSHOT_EVIDENCE"}}
           revisions == {RevisionV(c) : c \in covers}
           entities == {EntityV(view[i]) : i \in ids}
           slots == {r[3] : r \in {q \in data : q[1] = "SNAPSHOT_FILLS"}}
           tokens == {r[2] : r \in {q \in data : q[1] \in {"SNAPSHOT_HITS", "SNAPSHOT_NAMES"}}}
           claimVs == [v \in claims |-> [ord |-> ordinal[v[2]]]]
           evidenceVs == [v \in evidence |-> Plain]
           revisionVs == [v \in revisions |->
                            [nClaims |-> Cardinality(Into(data, "SNAPSHOT_DERIVED_FROM", v))]]
           entityVs == EntityVertices(ids, view)
           slotVs == SlotVertices(data)
           tokenVs == TokenVertices(data)
           members == Over(claimVs, Over(evidenceVs, Over(revisionVs, Over(entityVs, Over(slotVs, tokenVs)))))
           has == {<<MemberRelation[v[1]], Root, v>> : v \in DOMAIN members}
           root == [nRevisions |-> Cardinality(covers), nEntities |-> Cardinality(DOMAIN entityVs),
                    nClaims |-> Cardinality(DOMAIN claimVs), nEvidence |-> Cardinality(DOMAIN evidenceVs),
                    nSlots |-> Cardinality(DOMAIN slotVs), nTokens |-> Cardinality(DOMAIN tokenVs)]
           vertices == Over([v \in {Root} |-> root], members)
           relations == [r \in data \cup causal \cup has |->
                           IF r[1] = "SNAPSHOT_SUPERSEDED_BY" THEN [atSession |-> ordinal[r[3][2]]] ELSE Plain]
           plan == GraphOf(covers, ids, claims, data, causal, ordinal, view)
<1>1. plan = [vertices |-> vertices, relations |-> relations]
  BY DEF GraphOf
<1>2. /\ DOMAIN claimVs = claims /\ DOMAIN evidenceVs = evidence /\ DOMAIN revisionVs = revisions
      /\ DOMAIN entityVs = entities /\ DOMAIN slotVs = slots /\ DOMAIN tokenVs = tokens
  BY DEF EntityVertices, SlotVertices, TokenVertices
<1>3. \A f, g : DOMAIN Over(f, g) = DOMAIN f \cup DOMAIN g
  BY DEF Over
<1>4. DOMAIN [v \in {Root} |-> root] = {Root}
  OBVIOUS
<1> HIDE DEF claimVs, evidenceVs, revisionVs, entityVs, slotVs, tokenVs
<1>5. DOMAIN members = claims \cup evidence \cup revisions \cup entities \cup slots \cup tokens
  <2> HIDE DEF evidence, revisions, entities, slots, tokens
  <2> DEFINE first == Over(slotVs, tokenVs)
             second == Over(entityVs, first)
             third == Over(revisionVs, second)
             fourth == Over(evidenceVs, third)
             all == Over(claimVs, fourth)
  <2>1. /\ DOMAIN first = DOMAIN slotVs \cup DOMAIN tokenVs /\ DOMAIN second = DOMAIN entityVs \cup DOMAIN first
        /\ DOMAIN third = DOMAIN revisionVs \cup DOMAIN second /\ DOMAIN fourth = DOMAIN evidenceVs \cup DOMAIN third
        /\ DOMAIN all = DOMAIN claimVs \cup DOMAIN fourth
    <3> HIDE DEF first, second, third, fourth
    <3>1. DOMAIN all = DOMAIN claimVs \cup DOMAIN fourth
      BY <1>3
    <3>2. DOMAIN fourth = DOMAIN evidenceVs \cup DOMAIN third
      BY <1>3 DEF fourth
    <3>3. DOMAIN third = DOMAIN revisionVs \cup DOMAIN second
      BY <1>3 DEF third
    <3>4. DOMAIN second = DOMAIN entityVs \cup DOMAIN first
      BY <1>3 DEF second
    <3>5. DOMAIN first = DOMAIN slotVs \cup DOMAIN tokenVs
      BY <1>3 DEF first
    <3> QED
      BY <3>1, <3>2, <3>3, <3>4, <3>5
  <2>2. members = all
    OBVIOUS
  <2> HIDE DEF members, first, second, third, fourth, all
  <2> QED
    BY <1>2, <2>1, <2>2
<1> HIDE DEF members, root
<1>6. DOMAIN vertices = {Root} \cup DOMAIN members /\ vertices = [v \in DOMAIN vertices |-> vertices[v]]
  BY <1>4 DEF Over
<1>7. DOMAIN relations = data \cup causal \cup has /\ relations = [r \in DOMAIN relations |-> relations[r]]
  OBVIOUS
<1>8. \A v \in DOMAIN members : v[1] \in DOMAIN MemberRelation
  <2>1. DOMAIN MemberRelation = {"SnapshotRevision", "SnapshotEntity", "SnapshotSlot", "SnapshotToken",
                                 "SnapshotClaim", "SnapshotEvidence"}
    BY DEF MemberRelation
  <2>2. /\ \A v \in evidence : v[1] = "SnapshotEvidence"
        /\ \A v \in slots : v[1] = "SnapshotSlot"
        /\ \A v \in tokens : v[1] = "SnapshotToken"
    BY DEF DataShape
  <2>3. /\ \A v \in revisions : v[1] = "SnapshotRevision"
        /\ \A v \in entities : v[1] = "SnapshotEntity"
    BY DEF RevisionV, EntityV
  <2> HIDE DEF evidence, slots, tokens, revisions, entities
  <2> QED
    BY <1>5, <2>1, <2>2, <2>3
<1>9. Root \notin DOMAIN members /\ Stranger \notin {Root} \cup DOMAIN members
  <2>1. DOMAIN MemberRelation = {"SnapshotRevision", "SnapshotEntity", "SnapshotSlot", "SnapshotToken",
                                 "SnapshotClaim", "SnapshotEvidence"}
    BY DEF MemberRelation
  <2>2. Root[1] = "SnapshotRoot"
    BY DEF Root
  <2> QED
    BY <1>8, <2>1, <2>2, StrangerIsNoVertex
<1>10. \A r \in data : r[2] \in DOMAIN members /\ r[3] \in DOMAIN members
  <2> TAKE r \in data
  <2>1. /\ r[1] = "SNAPSHOT_EVIDENCE" => r[3] \in evidence
        /\ r[1] = "SNAPSHOT_FILLS" => r[3] \in slots
        /\ r[1] \in {"SNAPSHOT_HITS", "SNAPSHOT_NAMES"} => r[2] \in tokens
    OBVIOUS
  <2>2. /\ \A c \in covers : RevisionV(c) \in revisions
        /\ \A i \in ids : EntityV(view[i]) \in entities
    OBVIOUS
  <2> HIDE DEF evidence, slots, tokens, revisions, entities
  <2> QED
    BY <1>5, <2>1, <2>2 DEF DataShape
<1>11. \A r \in causal : r[2] \in DOMAIN members /\ r[3] \in DOMAIN members
  BY <1>5
<1>12. \A v \in DOMAIN members : <<MemberRelation[v[1]], Root, v>> \in has
  OBVIOUS
<1>13. \A r \in has : r[2] = Root /\ r[3] \in DOMAIN members /\ r[1] \in Range(MemberRelation)
  BY <1>8 DEF Range
<1> HIDE DEF vertices, relations, has, evidence, slots, tokens, revisions, entities
<1>14. \A r \in DOMAIN relations : r[2] \in DOMAIN vertices /\ r[3] \in DOMAIN vertices
  BY <1>6, <1>7, <1>10, <1>11, <1>13
<1>15. {r[3] : r \in {q \in DOMAIN relations : q[2] = Root /\ q[1] \in Range(MemberRelation)}} = DOMAIN vertices \ {Root}
  <2>1. ASSUME NEW r \in DOMAIN relations, r[2] = Root PROVE r[3] \in DOMAIN vertices \ {Root}
    BY <1>6, <1>7, <1>9, <1>10, <1>11, <1>13, <2>1
  <2>2. ASSUME NEW v \in DOMAIN vertices \ {Root}
        PROVE  \E r \in DOMAIN relations : r[2] = Root /\ r[1] \in Range(MemberRelation) /\ r[3] = v
    <3>1. <<MemberRelation[v[1]], Root, v>> \in has
      BY <1>6, <1>12, <2>2
    <3> QED
      BY <1>7, <1>13, <3>1
  <2> QED
    BY <2>1, <2>2
<1>16. plan.vertices = vertices /\ plan.relations = relations
  BY <1>1
<1> HIDE DEF plan
<1>17. PlanShape(plan)
  BY <1>6, <1>7, <1>9, <1>14, <1>15, <1>16 DEF PlanShape
<1>18. GraphShape(plan)
  BY <1>1, <1>6, <1>7, <1>9, <1>14, <1>16 DEF GraphShape
<1>19. \A r \in DOMAIN plan.relations : r[1] = "SNAPSHOT_SUPERSEDED_BY" => r \in causal
  <2>1. \A r \in data : r[1] # "SNAPSHOT_SUPERSEDED_BY"
    BY DEF DataShape
  <2>2. "SNAPSHOT_SUPERSEDED_BY" \notin Range(MemberRelation)
    BY DEF Range, MemberRelation
  <2> QED
    BY <1>7, <1>13, <1>16, <2>1, <2>2
<1> QED
  BY <1>17, <1>18, <1>19 DEF plan

-----------------------------------------------------------------------------
(***************************************************************************)
(* The snapshot being built.                                               *)
(***************************************************************************)

\* The plan of what is covered, as its revisions stand now.
PlanOf(covers) ==
  planSnapshotGraph(covers, artifact, Ordinal, createEntityCanonicalView(PlannedIds(covers, artifact)),
                    CausalLinks(covers))

\* The artifacts and the decisions of what a snapshot covers are settled, so an attempt
\* after another writes the same plan; what it finds in the graph is a part of that plan's
\* vertices, however damaged.
BuildInv ==
  /\ DOMAIN decisions = Commits
  /\ GraphShape(graph)
  /\ snapshot.state \in {"WRITTEN", "BUILDING"} =>
       /\ snapshot.covers \subseteq Commits
       /\ \A c \in snapshot.covers : state[c] \in {"ENRICHED", "CONSOLIDATED"}
       /\ snapshot.plan = PlanOf(snapshot.covers)
       /\ PlanShape(snapshot.plan)
       /\ DOMAIN graph.vertices \subseteq DOMAIN snapshot.plan.vertices

\* A plan is computed from what it covers only.
LEMMA PlanKept ==
  ASSUME NEW covers, \A c \in covers : artifact'[c] = artifact[c] /\ decisions'[c] = decisions[c]
  PROVE  PlanOf(covers)' = PlanOf(covers)
<1>1. ClaimsAt(covers, artifact') = ClaimsAt(covers, artifact)
  BY DEF ClaimsAt
<1>2. PlannedIds(covers, artifact') = PlannedIds(covers, artifact)
  <2>1. {artifact'[c] : c \in covers} = {artifact[c] : c \in covers}
    OBVIOUS
  <2> QED
    BY <2>1 DEF PlannedIds
<1>3. \A at \in ClaimsAt(covers, artifact) : artifact'[at[1]] = artifact[at[1]]
  <2> TAKE at \in ClaimsAt(covers, artifact)
  <2>1. PICK c \in covers : at \in {<<c, k>> : k \in DOMAIN artifact[c]}
    BY DEF ClaimsAt
  <2>2. at[1] = c
    BY <2>1
  <2> QED
    BY <2>2
<1>4. ClaimVertices(covers, artifact') = ClaimVertices(covers, artifact)
  BY <1>1, <1>3 DEF ClaimVertices
<1>5. \A view : DataRelations(covers, artifact', view) = DataRelations(covers, artifact, view)
  <2> TAKE view
  <2>1. \A at \in ClaimsAt(covers, artifact) : ClaimRelations(artifact', view, at) = ClaimRelations(artifact, view, at)
    BY <1>3 DEF ClaimRelations, slotEntityOf
  <2>2. {ClaimRelations(artifact', view, at) : at \in ClaimsAt(covers, artifact)}
          = {ClaimRelations(artifact, view, at) : at \in ClaimsAt(covers, artifact)}
    BY <2>1
  <2> QED
    BY <1>1, <1>2, <2>2 DEF DataRelations
<1>6. CausalLinks(covers)' = CausalLinks(covers)
  <2>1. \A d \in covers : {l \in decisions'[d] : {l.older[1], l.newer[1]} \subseteq covers}
                            = {l \in decisions[d] : {l.older[1], l.newer[1]} \subseteq covers}
    OBVIOUS
  <2> QED
    BY <2>1 DEF CausalLinks
<1> QED
  BY <1>2, <1>4, <1>5, <1>6 DEF PlanOf, planSnapshotGraph

\* A plan that is not refused is one.
LEMMA PlanIsOne ==
  ASSUME NEW covers, NEW view, NEW links, Rejection(covers, state, artifact, Ordinal, view, links) = ""
  PROVE  /\ PlanShape(planSnapshotGraph(covers, artifact, Ordinal, view, links))
         /\ GraphShape(planSnapshotGraph(covers, artifact, Ordinal, view, links))
         /\ \A r \in DOMAIN planSnapshotGraph(covers, artifact, Ordinal, view, links).relations :
              r[1] = "SNAPSHOT_SUPERSEDED_BY" => r \in CausalRelations(links)
<1> DEFINE ids == PlannedIds(covers, artifact)
           claims == ClaimVertices(covers, artifact)
           known == {<<at[1], artifact[at[1]][at[2]].digest>> : at \in ClaimsAt(covers, artifact)}
<1>1. \A l \in links : l.older \in known /\ l.newer \in known
  BY DEF Rejection
<1>2. \A k \in known : ClaimV(k[1], k[2]) \in claims
  <2> TAKE k \in known
  <2>1. PICK at \in ClaimsAt(covers, artifact) : k = <<at[1], artifact[at[1]][at[2]].digest>>
    OBVIOUS
  <2>2. ClaimV(at[1], artifact[at[1]][at[2]].digest) \in claims
    BY DEF ClaimVertices
  <2> QED
    BY <2>1, <2>2
<1>3. \A v \in claims : v[1] = "SnapshotClaim"
  <2> TAKE v \in claims
  <2>1. PICK at \in ClaimsAt(covers, artifact) : v = ClaimV(at[1], artifact[at[1]][at[2]].digest)
    BY DEF ClaimVertices
  <2> QED
    BY <2>1 DEF ClaimV
<1> HIDE DEF claims, known
<1>4. \A r \in CausalRelations(links) : r[1] = "SNAPSHOT_SUPERSEDED_BY" /\ r[2] \in claims /\ r[3] \in claims
  <2> TAKE r \in CausalRelations(links)
  <2>1. PICK l \in links : r = <<"SNAPSHOT_SUPERSEDED_BY", ClaimV(l.older[1], l.older[2]), ClaimV(l.newer[1], l.newer[2])>>
    BY DEF CausalRelations
  <2> QED
    BY <1>1, <1>2, <2>1
<1>5. DataShape(covers, ids, claims, view, DataRelations(covers, artifact, view))
  BY DataHasShape DEF claims
<1> QED
  BY <1>3, <1>4, <1>5, GraphHasShape DEF planSnapshotGraph, claims

\* A refusal is no state of a build that goes on.
LEMMA RefusalEndsIt ==
  \A covers, view, links :
    Rejection(covers, state, artifact, Ordinal, view, links) \notin {"WRITTEN", "BUILDING"}
BY DEF Rejection

LEMMA OthersBuild ==
  ASSUME BuildInv, UNCHANGED <<snapshot, graph>>, DOMAIN decisions' = Commits,
         \A c \in Commits : state[c] \in {"ENRICHED", "CONSOLIDATED"} =>
           state'[c] \in {"ENRICHED", "CONSOLIDATED"} /\ artifact'[c] = artifact[c] /\ decisions'[c] = decisions[c]
  PROVE  BuildInv'
<1>1. GraphShape(graph)'
  BY DEF BuildInv, GraphShape
<1>2. ASSUME snapshot.state \in {"WRITTEN", "BUILDING"}
      PROVE  /\ snapshot.covers \subseteq Commits
             /\ \A c \in snapshot.covers : state'[c] \in {"ENRICHED", "CONSOLIDATED"}
             /\ snapshot.plan = PlanOf(snapshot.covers)'
             /\ PlanShape(snapshot.plan)
             /\ DOMAIN graph.vertices \subseteq DOMAIN snapshot.plan.vertices
  <2>1. /\ snapshot.covers \subseteq Commits
        /\ \A c \in snapshot.covers : state[c] \in {"ENRICHED", "CONSOLIDATED"}
        /\ snapshot.plan = PlanOf(snapshot.covers) /\ PlanShape(snapshot.plan)
        /\ DOMAIN graph.vertices \subseteq DOMAIN snapshot.plan.vertices
    BY <1>2 DEF BuildInv
  <2>2. PICK covers : covers = snapshot.covers
    OBVIOUS
  <2>3. PlanOf(covers)' = PlanOf(covers)
    BY <2>1, <2>2, PlanKept
  <2> QED
    BY <2>1, <2>2, <2>3
<1>3. PlanShape(snapshot.plan)' = PlanShape(snapshot.plan)
  BY DEF PlanShape
<1> QED
  BY <1>1, <1>2, <1>3 DEF BuildInv

LEMMA ConsolidateBuilds ==
  ASSUME BuildInv, NEW c \in Commits, Consolidate(c) PROVE BuildInv'
<1> DEFINE covers == coveredRevisions(c)
           view == createEntityCanonicalView(PlannedIds(covers, artifact))
           links == CausalLinks(covers)
           rejected == Rejection(covers, state, artifact, Ordinal, view, links)
           made == planSnapshotGraph(covers, artifact, Ordinal, view, links)
           again == snapshot.state = "BUILDING" /\ snapshot.covers = covers
<1>1. PICK plan : plan = IF rejected = "" THEN made ELSE NoGraph
  OBVIOUS
<1>2. /\ state[c] = "ENRICHED" /\ UNCHANGED <<state, artifact, decisions>>
      /\ snapshot'.covers = covers /\ snapshot'.plan = plan
      /\ snapshot'.state = IF rejected = "" THEN "WRITTEN" ELSE rejected
      /\ graph' = IF again THEN [vertices |-> Over(plan.vertices, graph.vertices),
                                 relations |-> Over(plan.relations, graph.relations)]
                  ELSE plan
  <2>1. /\ state[c] = "ENRICHED" /\ UNCHANGED <<sourceVars, parked, chainRows, decisions>>
        /\ snapshot' = [of |-> c, covers |-> covers, view |-> view, edges |-> sameAs(view), plan |-> plan,
                        state |-> IF rejected = "" THEN "WRITTEN" ELSE rejected]
        /\ graph' = IF again THEN [vertices |-> Over(plan.vertices, graph.vertices),
                                  relations |-> Over(plan.relations, graph.relations)]
                    ELSE plan
    BY <1>1 DEF Consolidate
  <2> HIDE DEF covers, view, links, rejected, made, again
  <2> QED
    BY <2>1 DEF sourceVars
<1>3. covers \subseteq Commits /\ \A d \in covers : state[d] \in {"ENRICHED", "CONSOLIDATED"}
  BY <1>2 DEF coveredRevisions
<1>4. made = PlanOf(covers)
  BY DEF PlanOf
<1>5. rejected = "" => PlanShape(made) /\ GraphShape(made)
  BY PlanIsOne
<1>6. rejected \notin {"WRITTEN", "BUILDING"}
  BY RefusalEndsIt
<1>7. PlanOf(covers)' = made
  <2>1. PICK these : these = covers
    OBVIOUS
  <2>2. PlanOf(these)' = PlanOf(these)
    BY <1>2, PlanKept
  <2>3. covers' = covers
    BY <1>2 DEF coveredRevisions, Consolidate
  <2> QED
    BY <1>4, <2>1, <2>2, <2>3
<1> HIDE DEF covers, view, links, rejected, made
<1>8. GraphShape(plan)
  <2>1. GraphShape(NoGraph)
    BY DEF GraphShape, NoGraph
  <2> QED
    BY <1>1, <1>5, <2>1
<1>9. again /\ rejected = "" => DOMAIN graph.vertices \subseteq DOMAIN plan.vertices
  BY <1>1, <1>4 DEF BuildInv
<1>10. GraphShape(graph') /\ (rejected = "" => DOMAIN graph'.vertices \subseteq DOMAIN plan.vertices)
  <2>1. CASE ~again
    BY <1>2, <1>8, <2>1
  <2>2. CASE again
    <3> DEFINE vs == Over(plan.vertices, graph.vertices)
               rs == Over(plan.relations, graph.relations)
    <3>1. /\ DOMAIN vs = DOMAIN plan.vertices \cup DOMAIN graph.vertices
          /\ DOMAIN rs = DOMAIN plan.relations \cup DOMAIN graph.relations
          /\ vs = [v \in DOMAIN vs |-> vs[v]] /\ rs = [r \in DOMAIN rs |-> rs[r]]
      BY DEF Over
    <3> HIDE DEF vs, rs
    <3>2. graph' = [vertices |-> vs, relations |-> rs]
      BY <1>2, <2>2 DEF vs, rs
    <3>3. graph'.vertices = vs /\ graph'.relations = rs
      BY <3>2
    <3>4. \A r \in DOMAIN rs : /\ r[2] \in DOMAIN vs \cup {Stranger} /\ r[3] \in DOMAIN vs \cup {Stranger}
                               /\ r[2] # Stranger \/ r[3] # Stranger
      BY <1>8, <3>1 DEF BuildInv, GraphShape
    <3>5. GraphShape(graph')
      BY <3>1, <3>2, <3>3, <3>4 DEF GraphShape
    <3> QED
      BY <1>9, <2>2, <3>1, <3>3, <3>5
  <2> QED
    BY <2>1, <2>2
<1>11. DOMAIN decisions' = Commits /\ GraphShape(graph)'
  BY <1>2, <1>10 DEF BuildInv, GraphShape
<1>12. ASSUME rejected = ""
       PROVE  /\ snapshot'.covers \subseteq Commits
              /\ \A d \in snapshot'.covers : state'[d] \in {"ENRICHED", "CONSOLIDATED"}
              /\ snapshot'.plan = PlanOf(snapshot.covers)'
              /\ PlanShape(snapshot'.plan)
              /\ DOMAIN graph'.vertices \subseteq DOMAIN snapshot'.plan.vertices
  <2>1. covers' = covers
    BY <1>2 DEF covers, coveredRevisions, Consolidate
  <2>2. PlanOf(snapshot.covers)' = PlanOf(covers)'
    BY <1>2, <2>1
  <2> QED
    BY <1>1, <1>2, <1>3, <1>5, <1>7, <1>10, <1>12, <2>2
<1>13. snapshot'.state \in {"WRITTEN", "BUILDING"} => rejected = ""
  BY <1>2, <1>6
<1> QED
  BY <1>11, <1>12, <1>13 DEF BuildInv, PlanShape

\* What faults strike is there.
LEMMA StruckIsThere == \A elements : SomeOf(elements) \subseteq elements
BY DEF SomeOf

LEMMA DamageBuilds ==
  ASSUME BuildInv, Damage PROVE BuildInv'
<1>1. /\ UNCHANGED <<state, artifact, decisions, snapshot>> /\ snapshot.state = "WRITTEN"
  BY DEF Damage, sourceVars
<1>2. /\ Stranger \notin DOMAIN graph.vertices /\ GraphShape(graph)
      /\ DOMAIN graph.vertices \subseteq DOMAIN snapshot.plan.vertices
  BY <1>1 DEF BuildInv, PlanShape
<1>3. GraphShape(graph') /\ DOMAIN graph'.vertices \subseteq DOMAIN graph.vertices
  <2>2. ASSUME NEW rs, graph' = [graph EXCEPT !.relations = rs], rs = [r \in DOMAIN rs |-> rs[r]],
               \A r \in DOMAIN rs : /\ r[2] \in DOMAIN graph.vertices \cup {Stranger}
                                    /\ r[3] \in DOMAIN graph.vertices \cup {Stranger}
                                    /\ r[2] # Stranger \/ r[3] # Stranger
        PROVE  <1>3!1
    <3>1. graph = [vertices |-> graph.vertices, relations |-> graph.relations]
      BY <1>2 DEF GraphShape
    <3>2. graph' = [vertices |-> graph.vertices, relations |-> rs]
      BY <2>2, <3>1
    <3>3. graph'.vertices = graph.vertices /\ graph'.relations = rs
      BY <3>2
    <3> QED
      BY <1>2, <2>2, <3>2, <3>3 DEF GraphShape
  <2>3. ASSUME NEW r \in SomeOf(DOMAIN graph.relations),
               graph' = [graph EXCEPT !.relations = [q \in DOMAIN @ \ {r} |-> @[q]]]
        PROVE  <1>3!1
    <3> DEFINE rs == [q \in DOMAIN graph.relations \ {r} |-> graph.relations[q]]
    <3>1. DOMAIN rs = DOMAIN graph.relations \ {r} /\ rs = [q \in DOMAIN rs |-> rs[q]]
      OBVIOUS
    <3>2. graph' = [graph EXCEPT !.relations = rs]
      BY <2>3
    <3> HIDE DEF rs
    <3> QED
      BY <1>2, <2>2, <3>1, <3>2 DEF GraphShape
  <2>4. ASSUME NEW v \in SomeOf(DOMAIN graph.vertices), NEW out \in BOOLEAN,
               graph' = [graph EXCEPT !.relations =
                           Over([r \in {IF out THEN <<"SNAPSHOT_HITS", v, Stranger>>
                                        ELSE <<"SNAPSHOT_HITS", Stranger, v>>} |-> Plain], @)]
        PROVE  <1>3!1
    <3> DEFINE one == IF out THEN <<"SNAPSHOT_HITS", v, Stranger>> ELSE <<"SNAPSHOT_HITS", Stranger, v>>
               rs == Over([r \in {one} |-> Plain], graph.relations)
    <3>1. DOMAIN rs = {one} \cup DOMAIN graph.relations /\ rs = [q \in DOMAIN rs |-> rs[q]]
      BY DEF Over
    <3>2. graph' = [graph EXCEPT !.relations = rs]
      BY <2>4
    <3>3. /\ one[2] \in DOMAIN graph.vertices \cup {Stranger} /\ one[3] \in DOMAIN graph.vertices \cup {Stranger}
          /\ one[2] # Stranger \/ one[3] # Stranger
      BY <1>2, StruckIsThere
    <3> HIDE DEF one, rs
    <3> QED
      BY <1>2, <2>2, <3>1, <3>2, <3>3 DEF GraphShape
  <2>5. ASSUME NEW v \in SomeOf(DOMAIN graph.vertices), graph' = [graph EXCEPT !.vertices[v] = Plain]
        PROVE  <1>3!1
    <3> DEFINE vs == [graph.vertices EXCEPT ![v] = Plain]
    <3>1. DOMAIN vs = DOMAIN graph.vertices /\ vs = [w \in DOMAIN vs |-> vs[w]]
      OBVIOUS
    <3>2. graph = [vertices |-> graph.vertices, relations |-> graph.relations]
      BY <1>2 DEF GraphShape
    <3>3. graph' = [vertices |-> vs, relations |-> graph.relations]
      BY <2>5, <3>2
    <3> HIDE DEF vs
    <3>4. graph'.vertices = vs /\ graph'.relations = graph.relations
      BY <3>3
    <3> QED
      BY <1>2, <3>1, <3>3, <3>4 DEF GraphShape
  <2>6. CASE \E v \in SomeOf(DOMAIN graph.vertices) :
               graph' = [vertices |-> [w \in DOMAIN graph.vertices \ {v} |-> graph.vertices[w]],
                         relations |-> [r \in {q \in DOMAIN graph.relations : v \notin {q[2], q[3]}}
                                          |-> graph.relations[r]]]
    <3>0. PICK v \in SomeOf(DOMAIN graph.vertices) :
            graph' = [vertices |-> [w \in DOMAIN graph.vertices \ {v} |-> graph.vertices[w]],
                      relations |-> [r \in {q \in DOMAIN graph.relations : v \notin {q[2], q[3]}}
                                       |-> graph.relations[r]]]
      BY <2>6
    <3> DEFINE vs == [w \in DOMAIN graph.vertices \ {v} |-> graph.vertices[w]]
               rs == [r \in {q \in DOMAIN graph.relations : v \notin {q[2], q[3]}} |-> graph.relations[r]]
    <3>1. /\ DOMAIN vs = DOMAIN graph.vertices \ {v}
          /\ DOMAIN rs = {q \in DOMAIN graph.relations : v \notin {q[2], q[3]}}
          /\ vs = [w \in DOMAIN vs |-> vs[w]] /\ rs = [r \in DOMAIN rs |-> rs[r]]
      OBVIOUS
    <3> HIDE DEF vs, rs
    <3>2. graph' = [vertices |-> vs, relations |-> rs]
      BY <3>0 DEF vs, rs
    <3>3. graph'.vertices = vs /\ graph'.relations = rs
      BY <3>2
    <3>4. \A r \in DOMAIN rs : /\ r[2] \in DOMAIN vs \cup {Stranger} /\ r[3] \in DOMAIN vs \cup {Stranger}
                               /\ r[2] # Stranger \/ r[3] # Stranger
      BY <1>2, <3>1 DEF GraphShape
    <3> QED
      BY <3>1, <3>2, <3>3, <3>4 DEF GraphShape
  <2>7. CASE \E r \in SomeOf(DOMAIN graph.relations) :
               graph' = [graph EXCEPT !.relations = [q \in DOMAIN @ \ {r} |-> @[q]]]
    BY <2>3, <2>7
  <2>8. CASE \E v \in SomeOf(DOMAIN graph.vertices), out \in BOOLEAN :
               graph' = [graph EXCEPT !.relations =
                           Over([r \in {IF out THEN <<"SNAPSHOT_HITS", v, Stranger>>
                                        ELSE <<"SNAPSHOT_HITS", Stranger, v>>} |-> Plain], @)]
    BY <2>4, <2>8
  <2>9. CASE \E v \in SomeOf(DOMAIN graph.vertices) : graph' = [graph EXCEPT !.vertices[v] = Plain]
    BY <2>5, <2>9
  <2> QED
    BY <2>6, <2>7, <2>8, <2>9, Zenon DEF Damage
<1>4. GraphShape(graph)'
  BY <1>3 DEF GraphShape
<1>5. ASSUME NEW covers, covers = snapshot.covers PROVE PlanOf(covers)' = PlanOf(covers)
  BY <1>1, PlanKept
<1>6. /\ snapshot.covers \subseteq Commits /\ \A c \in snapshot.covers : state[c] \in {"ENRICHED", "CONSOLIDATED"}
      /\ snapshot.plan = PlanOf(snapshot.covers) /\ PlanShape(snapshot.plan)
  BY <1>1 DEF BuildInv
<1>7. snapshot'.plan = PlanOf(snapshot.covers)'
  BY <1>1, <1>5, <1>6
<1> QED
  BY <1>1, <1>2, <1>3, <1>4, <1>6, <1>7 DEF BuildInv, PlanShape

LEMMA BuildInit == ConsolidationInit => BuildInv
BY DEF ConsolidationInit, BuildInv, GraphShape, NoGraph, None

LEMMA BuildNext == ConsolidationInv /\ BuildInv /\ [ConsolidationNext]_vars => BuildInv'
<1> SUFFICES ASSUME ConsolidationInv, BuildInv, [ConsolidationNext]_vars PROVE BuildInv'
  OBVIOUS
<1>1. CASE UNCHANGED vars
  BY <1>1, OthersBuild DEF vars, sourceVars, BuildInv
<1>2. ASSUME NEW c \in Commits, Index(c) PROVE BuildInv'
  <2>1. UNCHANGED <<decisions, snapshot, graph>>
    BY <1>2 DEF Index
  <2>2. /\ state[c] \in {"RECEIVED", "SOURCE_DURABLE"}
        /\ \A d \in Commits : d # c => state'[d] = state[d] /\ artifact'[d] = artifact[d]
    BY <1>2 DEF Index, StoreTranscript, StoreIndex, Reaches, ConsolidationInv, SourceInv
  <2> QED
    BY <2>1, <2>2, OthersBuild DEF BuildInv
<1>3. ASSUME NEW c \in Commits, Park(c) \/ Decide(c) PROVE BuildInv'
  BY <1>3, OthersBuild DEF Park, Decide, sourceVars, BuildInv
<1>4. ASSUME NEW c \in Commits, Enrich(c) PROVE BuildInv'
  <2>1. /\ state[c] = "INDEXED" /\ state' = [state EXCEPT ![c] = "ENRICHED"]
        /\ UNCHANGED <<artifact, snapshot, graph>>
    BY <1>4 DEF Enrich
  <2>2. DOMAIN decisions' = Commits /\ \A d \in Commits : d # c => decisions'[d] = decisions[d]
    BY <1>4 DEF Enrich, BuildInv
  <2>3. state \in [Commits -> Stages]
    BY DEF ConsolidationInv, SourceInv
  <2>4. \A d \in Commits : state[d] \in {"ENRICHED", "CONSOLIDATED"} => d # c /\ state'[d] = state[d]
    BY <2>1, <2>3
  <2> QED
    BY <2>1, <2>2, <2>4, OthersBuild
<1>5. ASSUME NEW c \in Commits, Consolidate(c) PROVE BuildInv'
  BY <1>5, ConsolidateBuilds
<1>6. CASE Damage
  BY <1>6, DamageBuilds
<1>7. CASE Verify
  <2>1. snapshot' = [snapshot EXCEPT !.state = "VERIFIED"] /\ UNCHANGED <<decisions, graph>>
    BY <1>7 DEF Verify
  <2>2. snapshot'.state \notin {"WRITTEN", "BUILDING"}
    BY <2>1
  <2> QED
    BY <2>1, <2>2 DEF BuildInv, GraphShape
<1>8. CASE Abandon
  <2>1. /\ snapshot' = [snapshot EXCEPT !.state = "BUILDING"] /\ snapshot.state = "WRITTEN"
        /\ UNCHANGED <<state, artifact, decisions, graph>>
    BY <1>8 DEF Abandon, sourceVars
  <2>2. snapshot'.covers = snapshot.covers /\ snapshot'.plan = snapshot.plan
    BY <2>1
  <2>3. PICK covers : covers = snapshot.covers
    OBVIOUS
  <2>4. PlanOf(covers)' = PlanOf(covers)
    BY <2>1, PlanKept
  <2>5. PlanOf(snapshot.covers)' = PlanOf(snapshot.covers)
    BY <2>2, <2>3, <2>4
  <2>6. GraphShape(graph)' /\ PlanShape(snapshot.plan)'
    BY <2>1, <2>2 DEF BuildInv, GraphShape, PlanShape
  <2> QED
    BY <2>1, <2>2, <2>5, <2>6 DEF BuildInv
<1> QED
  BY <1>1, <1>2, <1>3, <1>4, <1>5, <1>6, <1>7, <1>8 DEF ConsolidationNext

\* The read-back accepts exactly the graph that holds the plan, for any claims, damage and
\* number of attempts: the walks from the root and from the members find every loss, change
\* and addition that can touch what is read (SnapshotGraph.ts).
THEOREM ReadBackHolds == ConsolidationSpec => []ReadBackIsExact
<1>1. BuildInv => ReadBackIsExact
  <2> SUFFICES ASSUME BuildInv, snapshot.state = "WRITTEN" PROVE verifyReadBack <=> HoldsThePlan
    BY DEF ReadBackIsExact
  <2>1. PlanShape(Plan) /\ GraphShape(graph) /\ DOMAIN graph.vertices \subseteq DOMAIN Plan.vertices
    BY DEF BuildInv, Plan
  <2> QED
    BY <2>1, ReadBackFollows
<1> QED
  BY <1>1, InvInit, InvNext, BuildInit, BuildNext, PTL DEF ConsolidationSpec

-----------------------------------------------------------------------------
(***************************************************************************)
(* Orders: what is sorted by rank is in order.                             *)
(***************************************************************************)

\* How many members of S are up to c in the order R.
Rank(S, R, c) == Cardinality({d \in S : <<d, c>> \in R})

TotalOrder(S, R) ==
  /\ \A a, b \in S : <<a, b>> \in R \/ <<b, a>> \in R
  /\ \A a, b \in S : <<a, b>> \in R /\ <<b, a>> \in R => a = b
  /\ \A a, b, c \in S : <<a, b>> \in R /\ <<b, c>> \in R => <<a, c>> \in R

\* In a finite total order R of S every rank is that of some member.
LEMMA EveryRankIsTaken ==
  ASSUME NEW S, IsFiniteSet(S), NEW R, TotalOrder(S, R)
  PROVE  /\ Cardinality(S) \in Nat
         /\ \A i \in 1..Cardinality(S) : \E c \in S : Rank(S, R, c) = i
<1> DEFINE Below(c) == {d \in S : <<d, c>> \in R}
           N == Cardinality(S)
           rank == [c \in S |-> Cardinality(Below(c))]
<1>1. N \in Nat
  BY FS_CardinalityType
<1>2. \A c \in S : IsFiniteSet(Below(c)) /\ Cardinality(Below(c)) \in 1..N
  <2> TAKE c \in S
  <2>1. Below(c) \in SUBSET S /\ c \in Below(c)
    BY DEF TotalOrder
  <2>2. IsFiniteSet(Below(c)) /\ Cardinality(Below(c)) \in Nat /\ Cardinality(Below(c)) <= N
    BY <2>1, FS_Subset, FS_CardinalityType
  <2>3. Cardinality(Below(c)) # 0
    BY <2>1, <2>2, FS_EmptySet
  <2> QED
    BY <1>1, <2>2, <2>3
<1>3. \A a, b \in S : Cardinality(Below(a)) = Cardinality(Below(b)) => a = b
  <2>1. ASSUME NEW a \in S, NEW b \in S, <<a, b>> \in R,
               Cardinality(Below(a)) = Cardinality(Below(b))
        PROVE  a = b
    <3>1. Below(a) \in SUBSET Below(b)
      BY <2>1 DEF TotalOrder
    <3>2. Below(a) = Below(b)
      BY <1>2, <2>1, <3>1, FS_Subset
    <3>3. b \in Below(a)
      <4>1. <<b, b>> \in R
        BY <2>1 DEF TotalOrder
      <4> QED
        BY <3>2, <4>1
    <3> QED
      BY <2>1, <3>3 DEF TotalOrder
  <2> QED
    BY <2>1 DEF TotalOrder
<1> HIDE DEF Below, N
<1>4. rank \in Injection(S, 1..N)
  BY <1>2, <1>3 DEF Injection, IsInjective
<1>5. IsFiniteSet(1..N) /\ Cardinality(1..N) = N
  BY <1>1, FS_Interval
<1>6. rank \in Surjection(S, 1..N)
  BY <1>1, <1>4, <1>5, FS_Injection DEF N
<1>7. \A i \in 1..N : \E c \in S : rank[c] = i
  BY <1>6 DEF Surjection
<1> QED
  BY <1>1, <1>7 DEF N, Below, Rank

\* A sequence of all of S, in the order R.
Ordered(S, R, seq) ==
  /\ Cardinality(S) \in Nat /\ DOMAIN seq = 1..Cardinality(S)
  /\ \A k \in DOMAIN seq : seq[k] \in S
  /\ \A i, j \in DOMAIN seq : i < j => <<seq[i], seq[j]>> \in R /\ seq[i] # seq[j]

LEMMA ByRankIsOrdered ==
  ASSUME NEW S, IsFiniteSet(S), NEW R, TotalOrder(S, R), NEW seq,
         DOMAIN seq = 1..Cardinality(S),
         \A k \in DOMAIN seq :
           (\E c \in S : Rank(S, R, c) = k) => seq[k] \in S /\ Rank(S, R, seq[k]) = k
  PROVE  Ordered(S, R, seq)
<1>1. /\ Cardinality(S) \in Nat
      /\ \A i \in 1..Cardinality(S) : \E c \in S : Rank(S, R, c) = i
  BY EveryRankIsTaken
<1>2. DOMAIN seq = 1..Cardinality(S)
  OBVIOUS
<1>3. \A k \in DOMAIN seq : seq[k] \in S /\ Rank(S, R, seq[k]) = k
  BY <1>1, <1>2
<1>4. ASSUME NEW i \in DOMAIN seq, NEW j \in DOMAIN seq, i < j
      PROVE  <<seq[i], seq[j]>> \in R /\ seq[i] # seq[j]
  <2>1. seq[i] # seq[j]
    BY <1>1, <1>2, <1>3, <1>4
  <2>2. CASE <<seq[j], seq[i]>> \in R
    <3> DEFINE Below(c) == {d \in S : <<d, c>> \in R}
    <3>1. Below(seq[j]) \subseteq Below(seq[i])
      BY <1>3, <2>2 DEF TotalOrder
    <3>2. IsFiniteSet(Below(seq[i]))
      BY FS_Subset
    <3>3. Cardinality(Below(seq[j])) <= Cardinality(Below(seq[i]))
      BY <3>1, <3>2, FS_Subset
    <3>4. j <= i
      BY <1>3, <3>3 DEF Rank
    <3> QED
      BY <1>1, <1>2, <1>4, <3>4
  <2> QED
    BY <1>3, <2>1, <2>2 DEF TotalOrder
<1> QED
  BY <1>1, <1>2, <1>3, <1>4 DEF Ordered

UpTo(S) == {w \in S \X S : w[1] <= w[2]}

LEMMA UpToIsTotal == \A S \in SUBSET Int : TotalOrder(S, UpTo(S))
BY DEF TotalOrder, UpTo

\* The positions InOrder gives are positions, in order.
LEMMA InOrderIs ==
  ASSUME NEW S \in SUBSET Nat, IsFiniteSet(S)
  PROVE  Ordered(S, UpTo(S), InOrder(S))
<1>1. \A c \in S : {d \in S : <<d, c>> \in UpTo(S)} = {d \in S : d <= c}
  BY DEF UpTo
<1>2. ASSUME NEW k \in DOMAIN InOrder(S), \E c \in S : Rank(S, UpTo(S), c) = k
      PROVE  InOrder(S)[k] \in S /\ Rank(S, UpTo(S), InOrder(S)[k]) = k
  <2>1. InOrder(S)[k] = CHOOSE c \in S : Cardinality({d \in S : d <= c}) = k
    BY DEF InOrder
  <2>2. \E c \in S : Cardinality({d \in S : d <= c}) = k
    BY <1>1, <1>2 DEF Rank
  <2> QED
    BY <1>1, <2>1, <2>2 DEF Rank
<1>4. DOMAIN InOrder(S) = 1..Cardinality(S)
  BY DEF InOrder
<1>3. TotalOrder(S, UpTo(S))
  BY UpToIsTotal
<1> QED
  BY <1>2, <1>3, <1>4, ByRankIsOrdered

LEMMA LeastIsOne ==
  ASSUME NEW S \in SUBSET Nat, S # {}
  PROVE  Min(S) \in S
<1> DEFINE R == OpToRel(<, Nat)
<1>2. \A x, y \in Nat : <<y, x>> \in R <=> y < x
  BY DEF OpToRel
<1>4. IsWellFoundedOn(R, Nat)
  BY NatLessThanWellFounded
<1> HIDE DEF R
<1>1. \E x \in S : \A y \in S : ~(<<y, x>> \in R)
  BY <1>4, WFMin
<1>3. \E x \in S : \A y \in S : x <= y
  <2>1. PICK x \in S : \A y \in S : ~(<<y, x>> \in R)
    BY <1>1
  <2>2. \A y \in S : ~(y < x) /\ x \in Nat /\ y \in Nat
    BY <1>2, <2>1
  <2> QED
    BY <2>2
<1> QED
  BY <1>3 DEF Min

-----------------------------------------------------------------------------
(***************************************************************************)
(* Claims: what is extracted and can be indexed has the turn, the span and *)
(* the digest of one claim.                                                *)
(***************************************************************************)

LEMMA SequenceIs ==
  ASSUME NEW s, IsSequence(s)
  PROVE  /\ Len(s) \in Nat /\ DOMAIN s = 1..Len(s) /\ IsFiniteSet(DOMAIN s)
         /\ \A k \in DOMAIN s : k \in Nat \ {0}
<1>1. Len(s) \in Nat /\ DOMAIN s = 1..Len(s)
  BY DEF IsSequence
<1>2. IsFiniteSet(1..Len(s))
  BY <1>1, FS_Interval
<1> HIDE DEF IsSequence
<1> QED
  BY <1>1, <1>2

LEMMA LengthIs ==
  ASSUME NEW n \in Nat, NEW f, f = [k \in 1..n |-> f[k]]
  PROVE  Len(f) = n
<1>1. f \in [1..n -> {f[k] : k \in 1..n}]
  OBVIOUS
<1>2. f \in Seq({f[k] : k \in 1..n})
  BY <1>1
<1> QED
  BY <1>2

\* A normalised text keeps positions of the text.
LEMMA OriginsArePositions ==
  ASSUME NEW text, IsSequence(text), NEW strip
  PROVE  \E n \in Nat : /\ DOMAIN Origins(text, strip) = 1..n
                        /\ \A k \in 1..n : Origins(text, strip)[k] \in DOMAIN text
                        /\ Len(Normalised(text, Origins(text, strip))) = n
<1>1. PICK S \in SUBSET DOMAIN text : Origins(text, strip) = InOrder(S)
  BY DEF Origins
<1>2. S \in SUBSET Nat /\ IsFiniteSet(S)
  BY SequenceIs, FS_Subset
<1>3. Ordered(S, UpTo(S), InOrder(S))
  BY <1>2, InOrderIs
<1>4. DOMAIN Normalised(text, InOrder(S)) = DOMAIN InOrder(S)
  BY DEF Normalised
<1>5. Normalised(text, InOrder(S)) = [k \in DOMAIN InOrder(S) |-> Normalised(text, InOrder(S))[k]]
  BY DEF Normalised
<1>6. Len(Normalised(text, InOrder(S))) = Cardinality(S)
  BY <1>3, <1>5, LengthIs DEF Ordered
<1> QED
  BY <1>1, <1>3, <1>6 DEF Ordered

LEMMA LooseSpansAreNumbers ==
  ASSUME NEW turn, IsSequence(turn), NEW quote, IsSequence(quote), NEW strip,
         Loosely(turn, quote, strip) # Nowhere
  PROVE  Loosely(turn, quote, strip).cs \in Nat /\ Loosely(turn, quote, strip).ce \in Nat
<1> DEFINE origins == Origins(turn, strip)
           needle == Normalised(quote, Origins(quote, strip))
           found == indexesOf(Normalised(turn, origins), needle)
<1>1. PICK n \in Nat : /\ DOMAIN origins = 1..n /\ \A k \in 1..n : origins[k] \in DOMAIN turn
                       /\ Len(Normalised(turn, origins)) = n
  BY OriginsArePositions
<1>2. PICK m \in Nat : /\ DOMAIN Origins(quote, strip) = 1..m /\ Len(needle) = m
  BY OriginsArePositions
<1>3. /\ needle # <<>> /\ found # {}
      /\ Loosely(turn, quote, strip).cs = origins[Min(found) + 1] - 1
      /\ Loosely(turn, quote, strip).ce = origins[Min(found) + Len(needle)]
  BY DEF Loosely, FromOrigins
<1>4. m # 0
  <2> SUFFICES ASSUME m = 0 PROVE FALSE
    OBVIOUS
  <2>1. needle = [k \in 1..0 |-> needle[k]]
    BY <1>2 DEF Normalised
  <2>2. needle = <<>>
    BY <2>1
  <2> QED
    BY <1>3, <2>2
<1>5. found \in SUBSET Nat /\ \A at \in found : at + Len(needle) <= n
  BY <1>1 DEF indexesOf
<1>6. PICK at \in found : at = Min(found)
  BY <1>3, <1>5, LeastIsOne
<1> HIDE DEF origins, needle, found
<1>7. at + 1 \in 1..n /\ at + Len(needle) \in 1..n
  <2>1. at \in Nat /\ at + m <= n
    BY <1>2, <1>5
  <2> QED
    BY <1>2, <1>4, <2>1
<1>8. origins[at + 1] \in Nat \ {0} /\ origins[at + Len(needle)] \in Nat \ {0}
  BY <1>1, <1>7, SequenceIs
<1> QED
  BY <1>3, <1>6, <1>8

LEMMA SpansAreNumbers ==
  ASSUME NEW turn, IsSequence(turn), NEW quote, IsSequence(quote), locateSpan(turn, quote) # Nowhere
  PROVE  locateSpan(turn, quote).cs \in Nat /\ locateSpan(turn, quote).ce \in Nat
<1> DEFINE exact == indexesOf(turn, quote)
<1>1. CASE exact # {} /\ ~Blank(quote)
  <2>1. locateSpan(turn, quote) = [cs |-> Min(exact), ce |-> Min(exact) + Len(quote), located |-> "exact"]
    BY <1>1 DEF locateSpan
  <2>2. exact \in SUBSET Nat
    BY SequenceIs DEF indexesOf
  <2>3. PICK at \in exact : at = Min(exact)
    BY <1>1, <2>2, LeastIsOne
  <2>4. at \in Nat /\ Len(quote) \in Nat
    BY <2>2, SequenceIs
  <2> HIDE DEF exact
  <2> QED
    BY <2>1, <2>3, <2>4
<1>2. CASE exact = {} \/ Blank(quote)
  <2>1. \E strip \in BOOLEAN : locateSpan(turn, quote) = Loosely(turn, quote, strip)
    BY <1>2 DEF locateSpan
  <2> QED
    BY <2>1, LooseSpansAreNumbers
<1> QED
  BY <1>1, <1>2

\* A claim whose digest is that of its text and span.
WellFormed(claim) ==
  /\ claim.text \in Nat /\ claim.turn \in 0..99 /\ claim.cs \in 0..99 /\ claim.ce \in 0..99
  /\ claim.digest = claimDigest(claim.text, claim.turn, claim.cs, claim.ce)

AreClaims(claims) ==
  /\ DOMAIN claims \in SUBSET Nat /\ IsFiniteSet(DOMAIN claims)
  /\ \A k \in DOMAIN claims : WellFormed(claims[k])

LEMMA InHundred ==
  /\ \A n \in Nat : n < 100 => \A u \in 0..(n - 1) : u + 1 \in 1..n /\ u \in 0..99
  /\ \A n, cs, ce \in Nat : n < 100 /\ ~(ce <= cs) /\ ~(ce > n) => cs \in 0..99 /\ ce \in 0..99
OBVIOUS

\* One digest, one claim.
LEMMA DigestTells ==
  ASSUME NEW a, NEW b, WellFormed(a), WellFormed(b), a.digest = b.digest
  PROVE  a.turn = b.turn /\ a.cs = b.cs /\ a.digest \in Nat
<1>1. PICK t \in Nat, v \in Nat : t = a.text /\ v = b.text
  BY DEF WellFormed
<1>2. PICK u \in 0..99, s \in 0..99, e \in 0..99 : u = a.turn /\ s = a.cs /\ e = a.ce
  BY DEF WellFormed
<1>3. PICK w \in 0..99, q \in 0..99, f \in 0..99 : w = b.turn /\ q = b.cs /\ f = b.ce
  BY DEF WellFormed
<1>4. a.digest = claimDigest(t, u, s, e) /\ claimDigest(t, u, s, e) = claimDigest(v, w, q, f)
  BY <1>1, <1>2, <1>3 DEF WellFormed
<1>5. PICK x \in Nat, y \in Nat : x = 100 * t + u /\ y = 100 * v + w
  BY ONLY TRUE
<1>6. PICK m \in Nat, n \in Nat : m = 100 * x + s /\ n = 100 * y + q
  BY ONLY TRUE
<1>7. 100 * m + e = 100 * n + f
  BY ONLY <1>4, <1>5, <1>6 DEF claimDigest
<1>8. m = n
  BY ONLY <1>7
<1>9. 100 * x + s = 100 * y + q
  BY ONLY <1>6, <1>8
<1>10. x = y
  BY ONLY <1>9
<1>11. s = q
  BY ONLY <1>9, <1>10
<1>12. 100 * t + u = 100 * v + w
  BY ONLY <1>5, <1>10
<1>13. t = v
  BY ONLY <1>12
<1>14. u = w
  BY ONLY <1>12, <1>13
<1>15. claimDigest(t, u, s, e) \in Nat
  BY ONLY TRUE DEF claimDigest
<1> QED
  BY <1>2, <1>3, <1>4, <1>11, <1>14, <1>15

LEMMA ClaimIsWellFormed ==
  ASSUME NEW turns, IsSequence(turns), Len(turns) < 100,
         \A k \in DOMAIN turns : IsSequence(turns[k]) /\ Len(turns[k]) < 100,
         NEW said, said.text \in Nat, IsSequence(said.quote), DropReason(turns, said) = "",
         LET claim == ClaimOf(turns, said)
         IN  ~(claim.ce <= claim.cs) /\ ~(claim.ce > Len(turns[claim.turn + 1]))
  PROVE  WellFormed(ClaimOf(turns, said))
<1> DEFINE claim == ClaimOf(turns, said)
           span == locateSpan(turns[said.turn + 1], said.quote)
<1>1. /\ claim.text = said.text /\ claim.turn = said.turn /\ claim.cs = span.cs /\ claim.ce = span.ce
      /\ claim.digest = claimDigest(said.text, said.turn, span.cs, span.ce)
  BY DEF ClaimOf
<1>2. said.turn \in 0..(Len(turns) - 1) /\ span # Nowhere
  BY DEF DropReason
<1> HIDE DEF claim, span
<1>3. said.turn + 1 \in DOMAIN turns /\ said.turn \in 0..99
  <2>1. Len(turns) \in Nat /\ DOMAIN turns = 1..Len(turns)
    BY SequenceIs
  <2>2. PICK n \in Nat : n = Len(turns)
    BY <2>1
  <2>3. PICK u \in 0..(n - 1) : u = said.turn
    BY <1>2, <2>2
  <2>4. n < 100
    BY <2>2
  <2>5. u + 1 \in 1..n /\ u \in 0..99
    BY <2>4, InHundred
  <2> QED
    BY <2>1, <2>2, <2>3, <2>5
<1>4. IsSequence(turns[said.turn + 1]) /\ Len(turns[said.turn + 1]) < 100 /\ Len(turns[said.turn + 1]) \in Nat
  BY <1>3, SequenceIs
<1>5. span.cs \in Nat /\ span.ce \in Nat
  BY <1>2, <1>4, SpansAreNumbers DEF span
<1>6. ~(claim.ce <= claim.cs) /\ ~(claim.ce > Len(turns[claim.turn + 1]))
  BY DEF claim
<1>7. span.cs \in 0..99 /\ span.ce \in 0..99
  <2>1. PICK n \in Nat, cs \in Nat, ce \in Nat :
          n = Len(turns[said.turn + 1]) /\ cs = span.cs /\ ce = span.ce
    BY <1>4, <1>5
  <2>2. ~(ce <= cs) /\ ~(ce > n) /\ n < 100
    BY <1>1, <1>4, <1>6, <2>1
  <2>3. cs \in 0..99 /\ ce \in 0..99
    BY <2>2, InHundred
  <2> QED
    BY <2>1, <2>3
<1> QED
  BY <1>1, <1>3, <1>7 DEF WellFormed, claim

LEMMA ExtractedAreClaims ==
  ASSUME NEW c \in Commits, NEW raw \in RawExtractions[c], ~IndexRejects(c, extractSession(Texts[c], raw))
  PROVE  AreClaims(extractSession(Texts[c], raw))
<1> DEFINE kept == {j \in DOMAIN raw : DropReason(Texts[c], raw[j]) = ""}
           claims == extractSession(Texts[c], raw)
<1>1. /\ IsSequence(raw) /\ IsSequence(Texts[c]) /\ Len(Texts[c]) < 100
      /\ \A k \in DOMAIN raw : raw[k].text \in Nat /\ IsSequence(raw[k].quote)
      /\ \A k \in DOMAIN Texts[c] : IsSequence(Texts[c][k]) /\ Len(Texts[c][k]) < 100
  BY TextsAreShort
<1>2. kept \in SUBSET Nat /\ IsFiniteSet(kept)
  BY <1>1, SequenceIs, FS_Subset
<1>3. Ordered(kept, UpTo(kept), InOrder(kept))
  BY <1>2, InOrderIs
<1>4. claims = [k \in DOMAIN InOrder(kept) |-> ClaimOf(Texts[c], raw[InOrder(kept)[k]])]
  BY ExtractedAre
<1>5. \A k \in DOMAIN claims : ~(claims[k].ce <= claims[k].cs) /\ ~(claims[k].ce > Len(Texts[c][claims[k].turn + 1]))
  BY DEF IndexRejects
<1>6. \A j \in kept : j \in DOMAIN raw /\ DropReason(Texts[c], raw[j]) = ""
  OBVIOUS
<1> HIDE DEF claims, kept
<1>7. DOMAIN claims \in SUBSET Nat /\ IsFiniteSet(DOMAIN claims)
  <2>1. PICK n \in Nat : DOMAIN InOrder(kept) = 1..n
    BY <1>3 DEF Ordered
  <2>2. IsFiniteSet(1..n)
    BY FS_Interval
  <2> QED
    BY <1>4, <2>1, <2>2
<1>8. ASSUME NEW k \in DOMAIN claims PROVE WellFormed(claims[k])
  <2>1. PICK j \in kept : claims[k] = ClaimOf(Texts[c], raw[j])
    BY <1>3, <1>4 DEF Ordered
  <2> QED
    BY <1>1, <1>5, <1>6, <2>1, ClaimIsWellFormed
<1> QED
  BY <1>7, <1>8 DEF AreClaims, claims

ClaimInv == \A c \in Commits : ~Unextracted(c) => AreClaims(artifact[c])

\* What was extracted stays.
LEMMA ArtifactsStay ==
  ASSUME ConsolidationInv, [ConsolidationNext]_vars
  PROVE  \A c \in Commits : \/ ~Unextracted(c) /\ artifact'[c] = artifact[c]
                            \/ Unextracted(c) /\ Unextracted(c)'
                            \/ \E raw \in RawExtractions[c] :
                                 /\ Unextracted(c) /\ artifact'[c] = extractSession(Texts[c], raw)
                                 /\ ~IndexRejects(c, artifact'[c])
<1>1. CASE artifact' = artifact
  BY <1>1 DEF Unextracted
<1>2. ASSUME NEW d \in Commits, StoreIndex(d), NEW c \in Commits
      PROVE  \/ ~Unextracted(c) /\ artifact'[c] = artifact[c]
             \/ Unextracted(c) /\ Unextracted(c)'
             \/ \E raw \in RawExtractions[c] :
                  /\ Unextracted(c) /\ artifact'[c] = extractSession(Texts[c], raw)
                  /\ ~IndexRejects(c, artifact'[c])
  BY <1>2 DEF StoreIndex, Unextracted, ConsolidationInv, SourceInv
<1>3. artifact' = artifact \/ \E d \in Commits : StoreIndex(d)
  BY DEF ConsolidationNext, vars, sourceVars, Index, StoreTranscript, Park, Decide, Enrich, Consolidate,
         Damage, Verify, Abandon
<1> QED
  BY <1>1, <1>2, <1>3

LEMMA ClaimNext ==
  ASSUME ConsolidationInv, ClaimInv, [ConsolidationNext]_vars
  PROVE  ClaimInv'
<1> SUFFICES ASSUME NEW c \in Commits, ~Unextracted(c)' PROVE AreClaims(artifact'[c])
  BY DEF ClaimInv
<1>1. \/ ~Unextracted(c) /\ artifact'[c] = artifact[c]
      \/ \E raw \in RawExtractions[c] : /\ artifact'[c] = extractSession(Texts[c], raw)
                                        /\ ~IndexRejects(c, artifact'[c])
  BY ArtifactsStay
<1> QED
  BY <1>1, ExtractedAreClaims DEF ClaimInv

-----------------------------------------------------------------------------
(***************************************************************************)
(* The order in which the claims of a chain are listed.                    *)
(***************************************************************************)

\* What fills a slot: a claim of one of the sources listed.
FillingAt(listed, at, k) ==
  LET groups == groupsOf(collectEntityIdentities({artifact[c] : c \in Range(listed)}))
      c == listed[at]
      claim == artifact[c][k]
      entity == slotEntity(artifact[c], claim.slot.canon)
  IN  [key |-> <<rootOf(groups, entity), claim.slot.attr>>, label |-> Entities[entity].canon,
       commit |-> c, digest |-> claim.digest, ord |-> Ordinal[c],
       turn |-> claim.turn, cs |-> claim.cs, at |-> <<at, k>>]

LEMMA FillingsAre ==
  ASSUME NEW listed
  PROVE  Fillings(listed, artifact, Ordinal)
           = UNION {{FillingAt(listed, at, k) : k \in SlotsOf(artifact[listed[at]])} : at \in DOMAIN listed}
BY DEF Fillings, FillingAt

LEMMA FillingHas ==
  ASSUME NEW listed, NEW at, NEW k
  PROVE  LET f == FillingAt(listed, at, k)  claim == artifact[listed[at]][k]
         IN  /\ f.commit = listed[at] /\ f.ord = Ordinal[listed[at]] /\ f.at = <<at, k>>
             /\ f.turn = claim.turn /\ f.cs = claim.cs /\ f.digest = claim.digest
BY DEF FillingAt

\* What Before compares, if it is numbers.
Lex(l, r) ==
  \/ l.ord < r.ord
  \/ l.ord = r.ord /\
       \/ l.turn < r.turn
       \/ l.turn = r.turn /\
            \/ l.cs < r.cs
            \/ l.cs = r.cs /\
                 \/ l.digest < r.digest
                 \/ l.digest = r.digest /\
                      \/ l.at[1] < r.at[1]
                      \/ l.at[1] = r.at[1] /\ l.at[2] <= r.at[2]

Numbered(f) ==
  /\ f.ord \in Nat /\ f.turn \in Nat /\ f.cs \in Nat /\ f.digest \in Nat
  /\ f.at[1] \in Nat /\ f.at[2] \in Nat

LEMMA FirstDifference ==
  ASSUME NEW a, NEW b, NEW i \in 1..6, a[i] # b[i], \A j \in 1..6 : j < i => a[j] = b[j],
         NEW differ, differ = {k \in 1..6 : a[k] # b[k]}
  PROVE  (differ = {} \/ \E k \in differ : a[k] < b[k] /\ \A j \in differ : k <= j) <=> a[i] < b[i]
<1>1. i \in differ /\ \A j \in differ : i <= j
  OBVIOUS
<1>2. \A k \in differ : (\A j \in differ : k <= j) => k = i
  BY <1>1
<1> QED
  BY <1>1, <1>2

LEMMA BeforeIsLex ==
  ASSUME NEW l, NEW r, Numbered(l), Numbered(r)
  PROVE  Before(l, r) <=> Lex(l, r)
<1> DEFINE a == <<l.ord, l.turn, l.cs, l.digest, l.at[1], l.at[2]>>
           b == <<r.ord, r.turn, r.cs, r.digest, r.at[1], r.at[2]>>
           differ == {k \in 1..6 : a[k] # b[k]}
<1>1. Before(l, r) <=> (differ = {} \/ \E k \in differ : a[k] < b[k] /\ \A j \in differ : k <= j)
  BY DEF Before
<1>2. /\ a[1] = l.ord /\ a[2] = l.turn /\ a[3] = l.cs /\ a[4] = l.digest /\ a[5] = l.at[1] /\ a[6] = l.at[2]
      /\ b[1] = r.ord /\ b[2] = r.turn /\ b[3] = r.cs /\ b[4] = r.digest /\ b[5] = r.at[1] /\ b[6] = r.at[2]
  OBVIOUS
<1> HIDE DEF a, b
<1>3. ASSUME NEW i \in 1..6, a[i] # b[i], \A j \in 1..6 : j < i => a[j] = b[j]
      PROVE  Before(l, r) <=> a[i] < b[i]
  BY <1>1, <1>3, FirstDifference
<1>4. CASE a[1] # b[1]
  <2>1. Before(l, r) <=> a[1] < b[1]
    BY <1>3, <1>4
  <2> QED
    BY <1>2, <1>4, <2>1 DEF Lex, Numbered
<1>5. CASE a[1] = b[1] /\ a[2] # b[2]
  <2>1. Before(l, r) <=> a[2] < b[2]
    BY <1>3, <1>5
  <2> QED
    BY <1>2, <1>5, <2>1 DEF Lex, Numbered
<1>6. CASE a[1] = b[1] /\ a[2] = b[2] /\ a[3] # b[3]
  <2>1. Before(l, r) <=> a[3] < b[3]
    BY <1>3, <1>6
  <2> QED
    BY <1>2, <1>6, <2>1 DEF Lex, Numbered
<1>7. CASE a[1] = b[1] /\ a[2] = b[2] /\ a[3] = b[3] /\ a[4] # b[4]
  <2>1. Before(l, r) <=> a[4] < b[4]
    BY <1>3, <1>7
  <2> QED
    BY <1>2, <1>7, <2>1 DEF Lex, Numbered
<1>8. CASE a[1] = b[1] /\ a[2] = b[2] /\ a[3] = b[3] /\ a[4] = b[4] /\ a[5] # b[5]
  <2>1. Before(l, r) <=> a[5] < b[5]
    BY <1>3, <1>8
  <2> QED
    BY <1>2, <1>8, <2>1 DEF Lex, Numbered
<1>9. CASE a[1] = b[1] /\ a[2] = b[2] /\ a[3] = b[3] /\ a[4] = b[4] /\ a[5] = b[5]
  <2>1. CASE a[6] # b[6]
    <3>1. Before(l, r) <=> a[6] < b[6]
      BY <1>3, <1>9, <2>1
    <3> QED
      BY <1>2, <1>9, <2>1, <3>1 DEF Lex, Numbered
  <2>2. CASE a[6] = b[6]
    <3>1. \A k \in 1..6 : a[k] = b[k]
      BY <1>9, <2>2
    <3>2. Before(l, r)
      BY <1>1, <3>1
    <3> QED
      BY <1>2, <1>9, <2>2, <3>2 DEF Lex, Numbered
  <2> QED
    BY <2>1, <2>2
<1> QED
  BY <1>4, <1>5, <1>6, <1>7, <1>8, <1>9

LEMMA LexIsTotal ==
  ASSUME NEW S, \A f \in S : Numbered(f), \A f, g \in S : f.at[1] = g.at[1] /\ f.at[2] = g.at[2] => f = g
  PROVE  TotalOrder(S, {w \in S \X S : Before(w[1], w[2])})
<1> DEFINE R == {w \in S \X S : Before(w[1], w[2])}
<1>1. \A f, g \in S : <<f, g>> \in R <=> Lex(f, g)
  <2> TAKE f, g \in S
  <2>1. <<f, g>> \in R <=> Before(f, g)
    OBVIOUS
  <2> QED
    BY <2>1, BeforeIsLex
<1> HIDE DEF R
<1>2. \A f, g \in S : Lex(f, g) \/ Lex(g, f)
  BY DEF Lex, Numbered
<1>3. \A f, g \in S : Lex(f, g) /\ Lex(g, f) => f = g
  <2> SUFFICES ASSUME NEW f \in S, NEW g \in S, Lex(f, g), Lex(g, f) PROVE f = g
    OBVIOUS
  <2>1. f.at[1] = g.at[1] /\ f.at[2] = g.at[2]
    BY DEF Lex, Numbered
  <2> QED
    BY <2>1
<1>4. \A f, g, h \in S : Lex(f, g) /\ Lex(g, h) => Lex(f, h)
  <2> SUFFICES ASSUME NEW f \in S, NEW g \in S, NEW h \in S, Lex(f, g), Lex(g, h) PROVE Lex(f, h)
    OBVIOUS
  <2>1. Numbered(f) /\ Numbered(g) /\ Numbered(h)
    OBVIOUS
  <2> QED
    BY <2>1 DEF Lex, Numbered
<1>5. TotalOrder(S, R)
  BY <1>1, <1>2, <1>3, <1>4 DEF TotalOrder
<1> QED
  BY <1>5 DEF R

-----------------------------------------------------------------------------
(***************************************************************************)
(* The chains: the claims of a chain come in the order of their places.    *)
(***************************************************************************)

ListedOrder(D) ==
  {w \in D \X D : Ordinal[w[1]] < Ordinal[w[2]] \/ (Ordinal[w[1]] = Ordinal[w[2]] /\ w[1] <= w[2])}

LEMMA ListedIs ==
  ASSUME NEW D \in SUBSET Commits
  PROVE  Ordered(D, ListedOrder(D), Listed(D))
<1> DEFINE R == ListedOrder(D)
<1>1. \A c \in D : c \in Nat /\ Ordinal[c] \in Nat
  BY SourceIndexAssumption, ConsolidationAssumption
<1>2. \A a, b \in D : <<a, b>> \in R <=> Ordinal[a] < Ordinal[b] \/ (Ordinal[a] = Ordinal[b] /\ a <= b)
  BY DEF ListedOrder
<1> HIDE DEF R
<1>3. TotalOrder(D, R)
  BY <1>1, <1>2 DEF TotalOrder
<1>4. IsFiniteSet(D)
  BY TextsAreShort, FS_Subset
<1>5. \A c \in D : {d \in D : <<d, c>> \in R}
                     = {d \in D : Ordinal[d] < Ordinal[c] \/ (Ordinal[d] = Ordinal[c] /\ d <= c)}
  BY <1>2
<1>6. DOMAIN Listed(D) = 1..Cardinality(D)
  BY DEF Listed, Sorted
<1>7. ASSUME NEW k \in DOMAIN Listed(D), \E c \in D : Rank(D, R, c) = k
      PROVE  Listed(D)[k] \in D /\ Rank(D, R, Listed(D)[k]) = k
  <2>1. Listed(D)[k] = CHOOSE c \in D :
          Cardinality({d \in D : Ordinal[d] < Ordinal[c] \/ (Ordinal[d] = Ordinal[c] /\ d <= c)}) = k
    BY DEF Listed, Sorted
  <2>2. \E c \in D : Cardinality({d \in D : Ordinal[d] < Ordinal[c] \/ (Ordinal[d] = Ordinal[c] /\ d <= c)}) = k
    BY <1>5, <1>7 DEF Rank
  <2> QED
    BY <1>5, <2>1, <2>2 DEF Rank
<1>8. Ordered(D, R, Listed(D))
  BY <1>3, <1>4, <1>6, <1>7, ByRankIsOrdered
<1> QED
  BY <1>8 DEF R

LEMMA BeforeSorts ==
  ASSUME NEW S, IsFiniteSet(S), NEW R, R = {w \in S \X S : Before(w[1], w[2])}, TotalOrder(S, R)
  PROVE  Ordered(S, R, Sorted(S, Before))
<1>1. \A c \in S : {d \in S : <<d, c>> \in R} = {d \in S : Before(d, c)}
  OBVIOUS
<1>2. DOMAIN Sorted(S, Before) = 1..Cardinality(S)
  BY DEF Sorted
<1>3. ASSUME NEW k \in DOMAIN Sorted(S, Before), \E c \in S : Rank(S, R, c) = k
      PROVE  Sorted(S, Before)[k] \in S /\ Rank(S, R, Sorted(S, Before)[k]) = k
  <2>1. Sorted(S, Before)[k] = CHOOSE c \in S : Cardinality({d \in S : Before(d, c)}) = k
    BY DEF Sorted
  <2>2. \E c \in S : Cardinality({d \in S : Before(d, c)}) = k
    BY <1>1, <1>3 DEF Rank
  <2> QED
    BY <1>1, <2>1, <2>2 DEF Rank
<1> QED
  BY <1>2, <1>3, ByRankIsOrdered

LEMMA ImageIsFinite ==
  ASSUME NEW f, IsFiniteSet(DOMAIN f)
  PROVE  IsFiniteSet({f[x] : x \in DOMAIN f})
<1> DEFINE T == {f[x] : x \in DOMAIN f}
           g == [x \in DOMAIN f |-> f[x]]
<1>1. g \in Surjection(DOMAIN f, T)
  BY DEF Surjection
<1> HIDE DEF g, T
<1>2. IsFiniteSet(T)
  BY <1>1, FS_Surjection
<1> QED
  BY <1>2 DEF T

\* Sources in order, of each the claims extracted.
AreSources(D, listed) ==
  /\ D \in SUBSET Commits /\ Ordered(D, ListedOrder(D), listed)
  /\ \A c \in D : AreClaims(artifact[c])

LEMMA FillingsAreFinite ==
  ASSUME NEW D, NEW listed, AreSources(D, listed)
  PROVE  IsFiniteSet(Fillings(listed, artifact, Ordinal))
<1> DEFINE ofSource == [at \in DOMAIN listed |-> {FillingAt(listed, at, k) : k \in SlotsOf(artifact[listed[at]])}]
<1>1. Fillings(listed, artifact, Ordinal) = UNION {ofSource[at] : at \in DOMAIN ofSource}
  BY FillingsAre
<1>2. IsFiniteSet(DOMAIN ofSource)
  <2>1. PICK n \in Nat : DOMAIN listed = 1..n
    BY DEF AreSources, Ordered
  <2>2. IsFiniteSet(1..n)
    BY FS_Interval
  <2> QED
    BY <2>1, <2>2
<1>3. ASSUME NEW at \in DOMAIN ofSource PROVE IsFiniteSet(ofSource[at])
  <2> DEFINE filling == [k \in SlotsOf(artifact[listed[at]]) |-> FillingAt(listed, at, k)]
  <2>1. IsFiniteSet(DOMAIN filling)
    <3>1. IsFiniteSet(DOMAIN artifact[listed[at]])
      BY DEF AreSources, Ordered, AreClaims
    <3> QED
      BY <3>1, FS_Subset DEF SlotsOf
  <2>2. ofSource[at] = {filling[k] : k \in DOMAIN filling}
    OBVIOUS
  <2> HIDE DEF filling
  <2> QED
    BY <2>1, <2>2, ImageIsFinite
<1> HIDE DEF ofSource
<1>4. IsFiniteSet({ofSource[at] : at \in DOMAIN ofSource})
  BY <1>2, ImageIsFinite
<1> QED
  BY <1>1, <1>3, <1>4, FS_UNION

\* Where a claim of a source stands.
Place(c, claim) ==
  [ord |-> Ordinal[c], turn |-> claim.turn, cs |-> claim.cs, digest |-> claim.digest,
   at |-> <<c, claim.digest>>]

LEMMA PlaceIs ==
  ASSUME NEW c \in Commits, NEW claim, WellFormed(claim)
  PROVE  LET p == Place(c, claim)
         IN  /\ p.ord = Ordinal[c] /\ p.turn = claim.turn /\ p.cs = claim.cs /\ p.digest = claim.digest
             /\ p.at[1] = c /\ p.at[2] = claim.digest /\ Numbered(p)
<1> DEFINE p == Place(c, claim)
<1>1. /\ p.ord = Ordinal[c] /\ p.turn = claim.turn /\ p.cs = claim.cs /\ p.digest = claim.digest
      /\ p.at[1] = c /\ p.at[2] = claim.digest
  BY DEF Place
<1>2. c \in Nat /\ Ordinal[c] \in Nat
  BY SourceIndexAssumption, ConsolidationAssumption
<1>3. claim.digest \in Nat /\ claim.turn \in Nat /\ claim.cs \in Nat
  BY DigestTells DEF WellFormed
<1> HIDE DEF p
<1>4. Numbered(p)
  BY <1>1, <1>2, <1>3 DEF Numbered
<1> QED
  BY <1>1, <1>4 DEF p

\* x names a claim of what was extracted.
IsOf(x, claim) ==
  /\ x[1] \in Commits /\ ~Unextracted(x[1])
  /\ \E k \in DOMAIN artifact[x[1]] : artifact[x[1]][k] = claim
  /\ claim.digest = x[2]

\* A link leads from a claim to one of a later place.
Forward(l) ==
  \E older, newer :
    /\ IsOf(l.older, older) /\ IsOf(l.newer, newer)
    /\ Lex(Place(l.older[1], older), Place(l.newer[1], newer))
    /\ l.older = <<l.older[1], l.older[2]>> /\ l.newer = <<l.newer[1], l.newer[2]>> /\ l.older # l.newer

LEMMA FillingsAreNumbered ==
  ASSUME NEW D, NEW listed, AreSources(D, listed), NEW f \in Fillings(listed, artifact, Ordinal)
  PROVE  /\ Numbered(f) /\ f.at[1] \in DOMAIN listed /\ f.at[2] \in DOMAIN artifact[listed[f.at[1]]]
         /\ f = FillingAt(listed, f.at[1], f.at[2])
<1>1. PICK at, k : at \in DOMAIN listed /\ k \in SlotsOf(artifact[listed[at]]) /\ f = FillingAt(listed, at, k)
  BY FillingsAre
<1>2. listed[at] \in D /\ k \in DOMAIN artifact[listed[at]]
  BY <1>1 DEF AreSources, Ordered, SlotsOf
<1>3. WellFormed(artifact[listed[at]][k]) /\ k \in Nat /\ listed[at] \in Commits
  BY <1>2 DEF AreSources, AreClaims
<1>4. at \in Nat
  BY <1>1 DEF AreSources, Ordered
<1>5. /\ f.commit = listed[at] /\ f.ord = Ordinal[listed[at]] /\ f.at = <<at, k>>
      /\ f.turn = artifact[listed[at]][k].turn /\ f.cs = artifact[listed[at]][k].cs
      /\ f.digest = artifact[listed[at]][k].digest
  BY <1>1, FillingHas
<1>6. f.at[1] = at /\ f.at[2] = k
  BY <1>5
<1>7. Ordinal[listed[at]] \in Nat
  BY <1>3, ConsolidationAssumption
<1>8. /\ artifact[listed[at]][k].digest \in Nat /\ artifact[listed[at]][k].turn \in Nat
      /\ artifact[listed[at]][k].cs \in Nat
  BY <1>3, DigestTells DEF WellFormed
<1>9. Numbered(f)
  BY <1>3, <1>4, <1>5, <1>6, <1>7, <1>8 DEF Numbered
<1> QED
  BY <1>1, <1>2, <1>6, <1>9

\* Of two fillings the one that comes first is of a claim of an earlier place.
LEMMA FillingsGoForward ==
  ASSUME NEW D, NEW listed, AreSources(D, listed), \A c \in D : ~Unextracted(c),
         NEW f \in Fillings(listed, artifact, Ordinal), NEW g \in Fillings(listed, artifact, Ordinal),
         Before(f, g), <<f.commit, f.digest>> # <<g.commit, g.digest>>
  PROVE  Forward([older |-> <<f.commit, f.digest>>, newer |-> <<g.commit, g.digest>>])
<1>1. PICK at, k :
        /\ at \in DOMAIN listed /\ k \in DOMAIN artifact[listed[at]]
        /\ f.at[1] = at /\ f.at[2] = k /\ f = FillingAt(listed, at, k)
  BY FillingsAreNumbered
<1>2. PICK to, j :
        /\ to \in DOMAIN listed /\ j \in DOMAIN artifact[listed[to]]
        /\ g.at[1] = to /\ g.at[2] = j /\ g = FillingAt(listed, to, j)
  BY FillingsAreNumbered
<1>3. PICK c \in D, d \in D : c = listed[at] /\ d = listed[to]
  BY <1>1, <1>2 DEF AreSources, Ordered
<1>4. PICK a, b : a = artifact[c][k] /\ b = artifact[d][j]
  OBVIOUS
<1>5. WellFormed(a) /\ WellFormed(b) /\ c \in Commits /\ d \in Commits
  BY <1>1, <1>2, <1>3, <1>4 DEF AreSources, AreClaims
<1>6. /\ f.commit = c /\ f.ord = Ordinal[c] /\ f.turn = a.turn /\ f.cs = a.cs /\ f.digest = a.digest
      /\ g.commit = d /\ g.ord = Ordinal[d] /\ g.turn = b.turn /\ g.cs = b.cs /\ g.digest = b.digest
  BY <1>1, <1>2, <1>3, <1>4, FillingHas
<1>7. Numbered(f) /\ Numbered(g)
  BY FillingsAreNumbered
<1>8. Lex(f, g)
  BY <1>7, BeforeIsLex
<1> DEFINE p == Place(c, a)
           q == Place(d, b)
<1>9. /\ p.ord = Ordinal[c] /\ p.turn = a.turn /\ p.cs = a.cs /\ p.digest = a.digest
      /\ p.at[1] = c /\ p.at[2] = a.digest /\ Numbered(p)
      /\ q.ord = Ordinal[d] /\ q.turn = b.turn /\ q.cs = b.cs /\ q.digest = b.digest
      /\ q.at[1] = d /\ q.at[2] = b.digest /\ Numbered(q)
  BY <1>5, PlaceIs
<1>10. Lex(p, q)
  <2> HIDE DEF p, q
  <2>1. CASE f.ord = g.ord /\ f.turn = g.turn /\ f.cs = g.cs /\ f.digest = g.digest
    <3>1. at \in Nat /\ to \in Nat /\ ~(to < at)
      BY <1>1, <1>2, <1>7, <1>8, <2>1 DEF Lex, Numbered
    <3>2. CASE at = to
      BY <1>3, <1>6, <2>1, <3>2
    <3>3. CASE at < to
      <4>1. <<c, d>> \in ListedOrder(D)
        BY <1>1, <1>2, <1>3, <3>3 DEF AreSources, Ordered
      <4>2. Ordinal[c] < Ordinal[d] \/ (Ordinal[c] = Ordinal[d] /\ c <= d)
        BY <4>1 DEF ListedOrder
      <4>5. Ordinal[c] = Ordinal[d] /\ Ordinal[c] \in Nat
        BY <1>6, <1>7, <2>1 DEF Numbered
      <4>4. c <= d
        BY <4>2, <4>5
      <4>3. c < d
        BY <1>6, <1>9, <2>1, <4>4 DEF Numbered
      <4> QED
        BY <1>6, <1>9, <2>1, <4>3 DEF Lex
    <3> QED
      BY <3>1, <3>2, <3>3
  <2>2. CASE ~(f.ord = g.ord /\ f.turn = g.turn /\ f.cs = g.cs /\ f.digest = g.digest)
    <3>1. /\ p.ord = f.ord /\ p.turn = f.turn /\ p.cs = f.cs /\ p.digest = f.digest
          /\ q.ord = g.ord /\ q.turn = g.turn /\ q.cs = g.cs /\ q.digest = g.digest
      BY <1>6, <1>9
    <3> QED
      BY <1>8, <2>2, <3>1 DEF Lex
  <2> QED
    BY <2>1, <2>2
<1> DEFINE l == [older |-> <<f.commit, f.digest>>, newer |-> <<g.commit, g.digest>>]
<1>11. l.older = <<c, a.digest>> /\ l.newer = <<d, b.digest>> /\ l.older # l.newer
  BY <1>6
<1>12. IsOf(<<c, a.digest>>, a) /\ IsOf(<<d, b.digest>>, b)
  BY <1>1, <1>2, <1>3, <1>4, <1>5 DEF IsOf
<1>13. /\ l.older[1] = c /\ l.newer[1] = d
       /\ l.older = <<l.older[1], l.older[2]>> /\ l.newer = <<l.newer[1], l.newer[2]>>
  BY <1>11
<1> HIDE DEF l, p, q
<1>14. Forward(l)
  BY <1>10, <1>11, <1>12, <1>13 DEF Forward, p, q
<1> QED
  BY <1>14 DEF l

\* The claims of a chain are its fillings, oldest first.
LEMMA ChainIs ==
  ASSUME NEW D, NEW listed, AreSources(D, listed), NEW F, F = Fillings(listed, artifact, Ordinal), NEW key
  PROVE  \E sorted, n :
           /\ n \in Nat /\ DOMAIN sorted = 1..n /\ Len(ChainAt(F, key).claims) = n
           /\ \A k \in 1..n : /\ sorted[k] \in F
                              /\ ChainAt(F, key).claims[k].commit = sorted[k].commit
                              /\ ChainAt(F, key).claims[k].digest = sorted[k].digest
           /\ \A i, j \in 1..n : i < j => Before(sorted[i], sorted[j])
<1> DEFINE S == {f \in F : f.key = key}
           R == {w \in S \X S : Before(w[1], w[2])}
           sorted == Sorted(S, Before)
           claims == [k \in DOMAIN sorted |-> [commit |-> sorted[k].commit, digest |-> sorted[k].digest,
                                               ord |-> sorted[k].ord]]
<1>1. ChainAt(F, key).claims = claims
  BY DEF ChainAt
<1>2. IsFiniteSet(S)
  BY FillingsAreFinite, FS_Subset
<1>3. \A f \in S : Numbered(f) /\ f = FillingAt(listed, f.at[1], f.at[2])
  BY FillingsAreNumbered
<1>4. \A f, g \in S : f.at[1] = g.at[1] /\ f.at[2] = g.at[2] => f = g
  BY <1>3
<1> HIDE DEF S
<1>5. TotalOrder(S, R)
  BY <1>3, <1>4, LexIsTotal
<1>6. \A w \in R : Before(w[1], w[2])
  OBVIOUS
<1>7. Ordered(S, R, sorted)
  BY <1>2, <1>5, BeforeSorts
<1> HIDE DEF R, sorted
<1>8. PICK n \in Nat : DOMAIN sorted = 1..n
  BY <1>7 DEF Ordered
<1>9. Len(claims) = n
  <2>1. claims = [k \in 1..n |-> claims[k]]
    BY <1>8
  <2> HIDE DEF claims
  <2> QED
    BY <2>1, LengthIs
<1>10. \A k \in 1..n : sorted[k] \in F
  BY <1>7, <1>8 DEF Ordered, S
<1>11. ASSUME NEW i \in 1..n, NEW j \in 1..n, i < j PROVE Before(sorted[i], sorted[j])
  <2>1. <<sorted[i], sorted[j]>> \in R
    BY <1>7, <1>8, <1>11 DEF Ordered
  <2> QED
    BY <1>6, <2>1
<1> QED
  BY <1>1, <1>8, <1>9, <1>10, <1>11

LEMMA SourcesAre ==
  ASSUME ConsolidationInv, ClaimInv, NEW c
  PROVE  \E D : AreSources(D, ChainSources(c)) /\ \A d \in D : ~Unextracted(d)
<1> DEFINE D == {d \in Commits : Ordinal[d] <= Ordinal[c] /\ d \notin parked /\ ReachedIndex(d)}
<1>1. ChainSources(c) = Listed(D)
  BY DEF ChainSources
<1>2. D \in SUBSET Commits
  OBVIOUS
<1>3. \A d \in D : ~Unextracted(d) /\ AreClaims(artifact[d])
  BY DEF ConsolidationInv, SourceInv, PlaneInv, ClaimInv
<1> HIDE DEF D
<1> QED
  BY <1>1, <1>2, <1>3, ListedIs DEF AreSources

\* Whatever the decider answers, what it decides replaces a claim by a later one.
LEMMA ChainGoesForward ==
  ASSUME ConsolidationInv, ClaimInv, NEW c, NEW chain \in ChainsOf(c), NEW reply \in Replies,
         NEW l \in pairsToDecisionLinks(chain, decideSlotSupersession(chain, reply)), l.older # l.newer
  PROVE  Forward(l)
<1>1. PICK D : AreSources(D, ChainSources(c)) /\ \A d \in D : ~Unextracted(d)
  BY SourcesAre
<1>2. PICK listed : listed = ChainSources(c)
  OBVIOUS
<1>3. PICK F : F = Fillings(listed, artifact, Ordinal)
  OBVIOUS
<1>4. PICK key : chain = ChainAt(F, key)
  BY <1>2, <1>3 DEF ChainsOf, collectSupersessionChains
<1>5. PICK sorted, n :
        /\ n \in Nat /\ DOMAIN sorted = 1..n /\ Len(chain.claims) = n
        /\ \A k \in 1..n : /\ sorted[k] \in F
                           /\ chain.claims[k].commit = sorted[k].commit
                           /\ chain.claims[k].digest = sorted[k].digest
        /\ \A i, j \in 1..n : i < j => Before(sorted[i], sorted[j])
  BY <1>1, <1>2, <1>3, <1>4, ChainIs
<1>6. PICK p \in decideSlotSupersession(chain, reply) :
        l = [older |-> <<chain.claims[p[1]].commit, chain.claims[p[1]].digest>>,
             newer |-> <<chain.claims[p[2]].commit, chain.claims[p[2]].digest>>]
  BY DEF pairsToDecisionLinks
<1>7. p \in Nat \X Nat /\ p[1] >= 1 /\ p[2] <= n /\ p[1] < p[2]
  BY <1>5, ConsolidationAssumption DEF decideSlotSupersession
<1>8. PICK i \in 1..n, j \in 1..n : i = p[1] /\ j = p[2] /\ i < j
  BY <1>5, <1>7
<1>9. PICK f \in F, g \in F : f = sorted[i] /\ g = sorted[j]
  BY <1>5
<1>10. l = [older |-> <<f.commit, f.digest>>, newer |-> <<g.commit, g.digest>>]
  BY <1>5, <1>6, <1>8, <1>9
<1>11. Before(f, g) /\ <<f.commit, f.digest>> # <<g.commit, g.digest>>
  BY <1>5, <1>8, <1>9, <1>10
<1> QED
  BY <1>1, <1>2, <1>3, <1>10, <1>11, FillingsGoForward

-----------------------------------------------------------------------------
(***************************************************************************)
(* The links: what is decided, and what is kept of a chain's answer.       *)
(***************************************************************************)

LinkInv ==
  /\ \A row \in chainRows : \A l \in row.links : Forward(l)
  /\ \A c \in Commits : \A l \in decisions[c] : Forward(l)

LEMMA ForwardStays ==
  ASSUME ConsolidationInv, [ConsolidationNext]_vars, NEW l, Forward(l)
  PROVE  Forward(l)'
<1>1. ASSUME NEW x, NEW claim, IsOf(x, claim) PROVE IsOf(x, claim)'
  <2>1. x[1] \in Commits /\ ~Unextracted(x[1])
    BY <1>1 DEF IsOf
  <2>2. artifact'[x[1]] = artifact[x[1]]
    BY <2>1, ArtifactsStay
  <2> QED
    BY <1>1, <2>1, <2>2 DEF IsOf, Unextracted
<1>2. PICK older, newer :
        /\ IsOf(l.older, older) /\ IsOf(l.newer, newer)
        /\ Lex(Place(l.older[1], older), Place(l.newer[1], newer))
        /\ l.older = <<l.older[1], l.older[2]>> /\ l.newer = <<l.newer[1], l.newer[2]>> /\ l.older # l.newer
  BY DEF Forward
<1>3. IsOf(l.older, older)' /\ IsOf(l.newer, newer)'
  BY <1>1, <1>2
<1> QED
  BY <1>2, <1>3 DEF Forward

LEMMA LinkNext ==
  ASSUME ConsolidationInv, ClaimInv, BuildInv, LinkInv, [ConsolidationNext]_vars
  PROVE  LinkInv'
<1>1. ASSUME \A row \in chainRows' : \A l \in row.links : Forward(l),
             \A c \in Commits : \A l \in decisions'[c] : Forward(l)
      PROVE  LinkInv'
  BY <1>1, ForwardStays DEF LinkInv
<1>2. CASE UNCHANGED <<chainRows, decisions>>
  BY <1>1, <1>2 DEF LinkInv
<1>3. ASSUME NEW c \in Commits, Decide(c) PROVE LinkInv'
  <2>1. PICK chain \in ChainsOf(c), reply \in Replies :
          /\ normalizedLinks(pairsToDecisionLinks(chain, decideSlotSupersession(chain, reply)))
          /\ chainRows' = chainRows \cup
               {[commit |-> c, chain |-> chain,
                 links |-> pairsToDecisionLinks(chain, decideSlotSupersession(chain, reply))]}
          /\ decisions' = decisions
    BY <1>3 DEF Decide
  <2>2. \A l \in pairsToDecisionLinks(chain, decideSlotSupersession(chain, reply)) : Forward(l)
    BY <2>1, ChainGoesForward DEF normalizedLinks
  <2>3. \A row \in chainRows' : row \in chainRows \/
          row.links = pairsToDecisionLinks(chain, decideSlotSupersession(chain, reply))
    BY <2>1
  <2> QED
    BY <1>1, <2>1, <2>2, <2>3 DEF LinkInv
<1>4. ASSUME NEW c \in Commits, Enrich(c) PROVE LinkInv'
  <2> DEFINE made == UNION {row.links : row \in {r \in chainRows : r.commit = c /\ r.chain \in ChainsOf(c)}}
  <2>1. /\ decisions' = [decisions EXCEPT ![c] = made]
        /\ chainRows' = {row \in chainRows : row.commit # c}
    BY <1>4 DEF Enrich
  <2>2. \A l \in made : Forward(l)
    BY DEF LinkInv
  <2> HIDE DEF made
  <2>3. \A d \in Commits : decisions'[d] = IF d = c THEN made ELSE decisions[d]
    BY <2>1 DEF BuildInv
  <2> QED
    BY <1>1, <2>1, <2>2, <2>3 DEF LinkInv
<1>5. \/ UNCHANGED <<chainRows, decisions>> \/ \E c \in Commits : Decide(c) \/ Enrich(c)
  BY DEF ConsolidationNext, vars, sourceVars, Index, Park, Consolidate, Damage, Verify, Abandon
<1> QED
  BY <1>2, <1>3, <1>4, <1>5

-----------------------------------------------------------------------------
(***************************************************************************)
(* What only leads to later places does not come round.                    *)
(***************************************************************************)

\* The claims there are.
ClaimsThere ==
  UNION {{ClaimV(c, artifact[c][k].digest) : k \in DOMAIN artifact[c]} : c \in {d \in Commits : ~Unextracted(d)}}

LEMMA ClaimsAreFinite ==
  ASSUME ClaimInv PROVE IsFiniteSet(ClaimsThere)
<1> DEFINE D == {d \in Commits : ~Unextracted(d)}
           ofSource == [c \in D |-> {ClaimV(c, artifact[c][k].digest) : k \in DOMAIN artifact[c]}]
<1>1. ClaimsThere = UNION {ofSource[c] : c \in DOMAIN ofSource}
  BY DEF ClaimsThere
<1>2. IsFiniteSet(D)
  BY TextsAreShort, FS_Subset
<1>3. ASSUME NEW c \in D PROVE IsFiniteSet(ofSource[c])
  <2> DEFINE claim == [k \in DOMAIN artifact[c] |-> ClaimV(c, artifact[c][k].digest)]
  <2>1. IsFiniteSet(DOMAIN artifact[c])
    BY DEF ClaimInv, AreClaims
  <2>2. ofSource[c] = {claim[k] : k \in DOMAIN claim} /\ IsFiniteSet(DOMAIN claim)
    BY <2>1
  <2> HIDE DEF claim
  <2> QED
    BY <2>2, ImageIsFinite
<1>4. DOMAIN ofSource = D
  OBVIOUS
<1> HIDE DEF ofSource, D
<1>5. IsFiniteSet({ofSource[c] : c \in DOMAIN ofSource})
  BY <1>2, <1>4, ImageIsFinite
<1> QED
  BY <1>1, <1>3, <1>4, <1>5, FS_UNION

LEMMA TheLastOne ==
  ASSUME NEW S, IsFiniteSet(S), S # {}, NEW R, TotalOrder(S, R)
  PROVE  \E c \in S : \A d \in S : <<d, c>> \in R
<1>1. /\ Cardinality(S) \in Nat
      /\ \A i \in 1..Cardinality(S) : \E c \in S : Rank(S, R, c) = i
  BY EveryRankIsTaken
<1>2. Cardinality(S) # 0
  BY FS_EmptySet
<1>3. PICK c \in S : Rank(S, R, c) = Cardinality(S)
  BY <1>1, <1>2
<1>4. {d \in S : <<d, c>> \in R} \in SUBSET S /\ Cardinality({d \in S : <<d, c>> \in R}) = Cardinality(S)
  BY <1>3 DEF Rank
<1>5. {d \in S : <<d, c>> \in R} = S
  BY <1>4, FS_Subset
<1> QED
  BY <1>5

LEMMA ForwardEnds ==
  ASSUME ClaimInv, NEW links, \A l \in links : Forward(l), NEW s, s # {},
         \A v \in s : \E l \in links : v = ClaimV(l.older[1], l.older[2])
  PROVE  \E v \in s : \A l \in links : 
           ~(v = ClaimV(l.older[1], l.older[2]) /\ ClaimV(l.newer[1], l.newer[2]) \in s)
<1> DEFINE id(v) == <<v[2], v[3]>>
           m == [v \in s |-> CHOOSE claim : IsOf(id(v), claim)]
           p == [v \in s |-> Place(v[2], m[v])]
           S == {p[v] : v \in s}
           R == {w \in S \X S : Before(w[1], w[2])}
<1>1. \A c, digest : ClaimV(c, digest)[2] = c /\ ClaimV(c, digest)[3] = digest /\ ClaimV(c, digest) = <<"SnapshotClaim", c, digest>>
  BY DEF ClaimV
<1>2. ASSUME NEW v \in s
      PROVE  v = ClaimV(v[2], v[3]) /\ \E claim : IsOf(id(v), claim)
  <2>1. PICK l \in links : v = ClaimV(l.older[1], l.older[2])
    OBVIOUS
  <2>2. PICK claim : IsOf(l.older, claim)
    BY DEF Forward
  <2>3. v[2] = l.older[1] /\ v[3] = l.older[2]
    BY <1>1, <2>1
  <2>4. IsOf(id(v), claim)
    BY <2>2, <2>3 DEF IsOf
  <2> QED
    BY <2>1, <2>3, <2>4
<1>3. \A v \in s : IsOf(id(v), m[v])
  BY <1>2
<1>4. ASSUME NEW x, NEW claim, IsOf(x, claim) PROVE WellFormed(claim) /\ claim.digest = x[2] /\ x[1] \in Commits
  BY <1>4 DEF IsOf, ClaimInv, AreClaims
<1> HIDE DEF m
<1>5. ASSUME NEW v \in s
      PROVE  /\ v[2] \in Commits /\ WellFormed(m[v]) /\ m[v].digest = v[3]
             /\ Numbered(p[v]) /\ p[v].at[1] = v[2] /\ p[v].at[2] = v[3]
  <2>1. IsOf(id(v), m[v])
    BY <1>3
  <2>2. WellFormed(m[v]) /\ m[v].digest = v[3] /\ v[2] \in Commits
    BY <1>4, <2>1
  <2> QED
    BY <2>2, PlaceIs
<1>6. \A v, w \in s : v[2] = w[2] /\ v[3] = w[3] => v = w
  BY <1>2
<1>7. IsFiniteSet(s)
  <2>1. ASSUME NEW v \in s PROVE v \in ClaimsThere
    <3>1. IsOf(id(v), m[v])
      BY <1>3
    <3>2. PICK k \in DOMAIN artifact[v[2]] : artifact[v[2]][k].digest = v[3]
      BY <3>1 DEF IsOf
    <3>3. v[2] \in {d \in Commits : ~Unextracted(d)}
      BY <3>1 DEF IsOf
    <3>4. v \in {ClaimV(v[2], artifact[v[2]][j].digest) : j \in DOMAIN artifact[v[2]]}
      BY <1>2, <3>2
    <3> QED
      BY <3>3, <3>4 DEF ClaimsThere
  <2>2. s \in SUBSET ClaimsThere
    BY <2>1
  <2> QED
    BY <2>2, ClaimsAreFinite, FS_Subset
<1> HIDE DEF p
<1>8. DOMAIN p = s
  BY DEF p
<1>9. IsFiniteSet(S) /\ S # {}
  BY <1>7, <1>8, ImageIsFinite
<1>10. TotalOrder(S, R)
  <2>1. \A f \in S : Numbered(f)
    BY <1>5
  <2>2. \A f, g \in S : f.at[1] = g.at[1] /\ f.at[2] = g.at[2] => f = g
    <3> TAKE f, g \in S
    <3>1. PICK v \in s, w \in s : f = p[v] /\ g = p[w]
      OBVIOUS
    <3> QED
      BY <1>5, <1>6, <3>1
  <2> HIDE DEF S
  <2> QED
    BY <2>1, <2>2, LexIsTotal
<1>11. \A w \in R : Before(w[1], w[2])
  OBVIOUS
<1>12. PICK v \in s : \A w \in s : Before(p[w], p[v])
  <2> HIDE DEF R
  <2>1. PICK f \in S : \A g \in S : <<g, f>> \in R
    BY <1>9, <1>10, TheLastOne
  <2>2. PICK v \in s : f = p[v]
    OBVIOUS
  <2>3. ASSUME NEW w \in s PROVE Before(p[w], p[v])
    <3>1. <<p[w], p[v]>> \in R
      BY <2>1, <2>2
    <3> QED
      BY <1>11, <3>1
  <2> QED
    BY <2>3
<1>13. ASSUME NEW l \in links, v = ClaimV(l.older[1], l.older[2]), NEW w \in s, w = ClaimV(l.newer[1], l.newer[2])
       PROVE  FALSE
  <2>1. v[2] = l.older[1] /\ v[3] = l.older[2] /\ w[2] = l.newer[1] /\ w[3] = l.newer[2]
    BY <1>1, <1>13
  <2>2. PICK older, newer :
          /\ IsOf(l.older, older) /\ IsOf(l.newer, newer)
          /\ Lex(Place(l.older[1], older), Place(l.newer[1], newer))
          /\ <<l.older[1], l.older[2]>> # <<l.newer[1], l.newer[2]>>
    BY DEF Forward
  <2>3. WellFormed(older) /\ older.digest = v[3] /\ WellFormed(newer) /\ newer.digest = w[3]
    BY <1>4, <2>1, <2>2
  <2>4. /\ older.turn = m[v].turn /\ older.cs = m[v].cs /\ older.digest = m[v].digest
        /\ newer.turn = m[w].turn /\ newer.cs = m[w].cs /\ newer.digest = m[w].digest
    BY <1>5, <2>3, DigestTells
  <2>5. Place(v[2], older) = p[v] /\ Place(w[2], newer) = p[w]
    BY <2>4 DEF Place, p
  <2>6. Lex(p[v], p[w])
    BY <2>1, <2>2, <2>5
  <2>7. Lex(p[w], p[v])
    BY <1>5, <1>12, BeforeIsLex
  <2>8. Numbered(p[v]) /\ Numbered(p[w])
    BY <1>5
  <2>9. p[v].at[1] = p[w].at[1] /\ p[v].at[2] = p[w].at[2]
    BY <2>6, <2>7, <2>8 DEF Lex, Numbered
  <2>10. v[2] = w[2] /\ v[3] = w[3]
    BY <1>5, <2>9
  <2> QED
    BY <2>1, <2>2, <2>10
<1> QED
  BY <1>13

LEMMA PlanEnds ==
  ASSUME ConsolidationInv, ClaimInv, BuildInv, LinkInv, NEW c \in Commits, Consolidate(c),
         snapshot'.state = "WRITTEN"
  PROVE  LET causal == Causal(snapshot'.plan)
         IN \A s \in (SUBSET {e[1] : e \in causal}) \ {{}} : \E v \in s : \A w \in s : <<v, w>> \notin causal
<1> DEFINE covers == coveredRevisions(c)
           view == createEntityCanonicalView(PlannedIds(covers, artifact))
           links == CausalLinks(covers)
           rejected == Rejection(covers, state, artifact, Ordinal, view, links)
           made == planSnapshotGraph(covers, artifact, Ordinal, view, links)
           causal == Causal(snapshot'.plan)
<1>1. snapshot' = [of |-> c, covers |-> covers, view |-> view, edges |-> sameAs(view),
                   plan |-> IF rejected = "" THEN made ELSE NoGraph,
                   state |-> IF rejected = "" THEN "WRITTEN" ELSE rejected]
  BY DEF Consolidate
<1>2. rejected # "WRITTEN"
  BY RefusalEndsIt
<1>3. \A l \in links : Forward(l)
  <2>1. covers \subseteq Commits
    BY DEF coveredRevisions
  <2> HIDE DEF covers
  <2> QED
    BY <2>1 DEF CausalLinks, LinkInv
<1>4. rejected = "" => \A r \in DOMAIN made.relations : r[1] = "SNAPSHOT_SUPERSEDED_BY" => r \in CausalRelations(links)
  BY PlanIsOne
<1> HIDE DEF covers, view, links, rejected, made
<1>5. snapshot'.plan = made /\ rejected = ""
  BY <1>1, <1>2
<1>6. ASSUME NEW e \in causal
      PROVE  \E l \in links : e = <<ClaimV(l.older[1], l.older[2]), ClaimV(l.newer[1], l.newer[2])>>
  <2>1. PICK r \in DOMAIN made.relations : r[1] = "SNAPSHOT_SUPERSEDED_BY" /\ e = <<r[2], r[3]>>
    BY <1>5 DEF Causal
  <2>2. r \in CausalRelations(links)
    BY <1>4, <1>5, <2>1
  <2>3. PICK l \in links : r = <<"SNAPSHOT_SUPERSEDED_BY", ClaimV(l.older[1], l.older[2]), ClaimV(l.newer[1], l.newer[2])>>
    BY <2>2 DEF CausalRelations
  <2> QED
    BY <2>1, <2>3
<1> HIDE DEF causal
<1>7. ASSUME NEW s \in (SUBSET {e[1] : e \in causal}) \ {{}}
      PROVE  \E v \in s : \A w \in s : <<v, w>> \notin causal
  <2>1. ASSUME NEW v \in s PROVE \E l \in links : v = ClaimV(l.older[1], l.older[2])
    <3>1. PICK e \in causal : v = e[1]
      OBVIOUS
    <3>2. PICK l \in links : e = <<ClaimV(l.older[1], l.older[2]), ClaimV(l.newer[1], l.newer[2])>>
      BY <1>6
    <3> QED
      BY <3>1, <3>2
  <2>2. PICK v \in s : \A l \in links :
          ~(v = ClaimV(l.older[1], l.older[2]) /\ ClaimV(l.newer[1], l.newer[2]) \in s)
    BY <1>3, <2>1, ForwardEnds
  <2>3. ASSUME NEW w \in s, <<v, w>> \in causal PROVE FALSE
    <3>1. PICK l \in links : <<v, w>> = <<ClaimV(l.older[1], l.older[2]), ClaimV(l.newer[1], l.newer[2])>>
      BY <1>6, <2>3
    <3>2. v = ClaimV(l.older[1], l.older[2]) /\ w = ClaimV(l.newer[1], l.newer[2])
      BY <3>1
    <3> QED
      BY <2>2, <3>2
  <2> QED
    BY <2>3
<1> QED
  BY <1>7 DEF causal

LEMMA LinkInit == ConsolidationInit => ClaimInv /\ LinkInv
BY DEF ConsolidationInit, SourceInit, ClaimInv, LinkInv, Unextracted

\* Replacement never runs in a circle in any snapshot that is written, whatever the model
\* extracted and the decider answered, in whichever order the revisions were enriched: each
\* decided pair leads to a claim of a later session, turn, offset, digest or commit
\* (SupersessionDecision.ts orders a chain, Enrichments.ts keeps its links).
THEOREM ReplacementsEnd == ConsolidationSpec => ReplacementEnds
<1> DEFINE Inv == ConsolidationInv /\ ClaimInv /\ BuildInv /\ LinkInv
           Ends == snapshot'.state = "WRITTEN" =>
                     LET causal == Causal(snapshot'.plan)
                     IN \A s \in (SUBSET {e[1] : e \in causal}) \ {{}} : \E v \in s : \A w \in s : <<v, w>> \notin causal
<1>1. ConsolidationInit => Inv
  BY InvInit, BuildInit, LinkInit
<1>2. Inv /\ [ConsolidationNext]_vars => Inv'
  BY InvNext, ClaimNext, BuildNext, LinkNext
<1>3. Inv /\ [ConsolidationNext]_vars => [Ends]_snapshot
  <2> SUFFICES ASSUME Inv, [ConsolidationNext]_vars, snapshot' # snapshot, snapshot'.state = "WRITTEN" PROVE Ends
    OBVIOUS
  <2>1. \/ \E c \in Commits : Consolidate(c)
        \/ snapshot' = [snapshot EXCEPT !.state = "VERIFIED"] \/ snapshot' = [snapshot EXCEPT !.state = "BUILDING"]
    BY DEF ConsolidationNext, vars, Index, Park, Decide, Enrich, Damage, Verify, Abandon
  <2>2. CASE snapshot' = [snapshot EXCEPT !.state = "VERIFIED"] \/ snapshot' = [snapshot EXCEPT !.state = "BUILDING"]
    <3>1. ASSUME snapshot' = [snapshot EXCEPT !.state = "VERIFIED"] PROVE snapshot'.state # "WRITTEN"
      BY <3>1
    <3>2. ASSUME snapshot' = [snapshot EXCEPT !.state = "BUILDING"] PROVE snapshot'.state # "WRITTEN"
      BY <3>2
    <3> QED
      BY <2>2, <3>1, <3>2
  <2>3. CASE \E c \in Commits : Consolidate(c)
    <3>1. PICK c \in Commits : Consolidate(c)
      BY <2>3
    <3> QED
      BY <3>1, PlanEnds
  <2> QED
    BY <2>1, <2>2, <2>3
<1> HIDE DEF Inv, Ends
<1>4. ConsolidationSpec => []Inv
  BY <1>1, <1>2, PTL DEF ConsolidationSpec
<1>5. ConsolidationSpec => [][Ends]_snapshot
  BY <1>3, <1>4, PTL DEF ConsolidationSpec
<1> QED
  BY <1>5, PTL DEF ReplacementEnds, Ends

-----------------------------------------------------------------------------
(***************************************************************************)
(* Letters: a span found in a normalised text has the letters of the quote. *)
(***************************************************************************)

\* A set of numbers has a least.
LEMMA LeastOf ==
  ASSUME NEW S \in SUBSET Nat, S # {}
  PROVE  \E x \in S : \A y \in S : x <= y
<1> DEFINE R == OpToRel(<, Nat)
<1>1. \A x, y \in Nat : <<y, x>> \in R <=> y < x
  BY DEF OpToRel
<1>2. IsWellFoundedOn(R, Nat)
  BY NatLessThanWellFounded
<1> HIDE DEF R
<1>3. PICK x \in S : \A y \in S : ~(<<y, x>> \in R)
  BY <1>2, WFMin
<1>4. \A y \in S : ~(y < x) /\ x \in Nat /\ y \in Nat
  BY <1>1, <1>3
<1> QED
  BY <1>4

\* Members of one rank are one.
LEMMA RankTells ==
  ASSUME NEW S, IsFiniteSet(S), NEW R, TotalOrder(S, R), NEW a \in S, NEW b \in S, Rank(S, R, a) = Rank(S, R, b)
  PROVE  a = b
<1>1. ASSUME NEW x \in S, NEW y \in S, <<x, y>> \in R, Rank(S, R, x) = Rank(S, R, y) PROVE x = y
  <2> DEFINE Below(c) == {d \in S : <<d, c>> \in R}
  <2>1. Below(x) \in SUBSET Below(y)
    BY <1>1 DEF TotalOrder
  <2>2. IsFiniteSet(Below(y))
    BY FS_Subset
  <2>3. Cardinality(Below(x)) = Cardinality(Below(y))
    BY <1>1 DEF Rank
  <2>4. Below(x) = Below(y)
    BY <2>1, <2>2, <2>3, FS_Subset
  <2>5. <<y, x>> \in R
    BY <2>4 DEF TotalOrder
  <2> QED
    BY <1>1, <2>5 DEF TotalOrder
<1> QED
  BY <1>1 DEF TotalOrder

\* An ordered sequence has at each position the member of that rank.
LEMMA OrderedByRank ==
  ASSUME NEW S, IsFiniteSet(S), NEW R, TotalOrder(S, R), NEW seq, Ordered(S, R, seq), NEW k \in DOMAIN seq
  PROVE  Rank(S, R, seq[k]) = k
<1> DEFINE N == Cardinality(S)
           at == [i \in 1..N |-> seq[i]]
           Below(c) == {d \in S : <<d, c>> \in R}
           upTo == [i \in 1..k |-> seq[i]]
<1>1. N \in Nat /\ DOMAIN seq = 1..N /\ k \in 1..N
  BY DEF Ordered
<1>2. \A i \in 1..N : seq[i] \in S
  BY <1>1 DEF Ordered
<1>3. \A i, j \in 1..N : i < j => <<seq[i], seq[j]>> \in R /\ seq[i] # seq[j]
  BY <1>1 DEF Ordered
<1> HIDE DEF N
<1>4. \A i, j \in 1..N : seq[i] = seq[j] => i = j
  <2>1. \A i, j \in 1..N : i = j \/ i < j \/ j < i
    BY <1>1
  <2> QED
    BY <1>3, <2>1
<1>5. at \in Injection(1..N, S)
  BY <1>2, <1>4 DEF Injection, IsInjective
<1>6. IsFiniteSet(1..N) /\ Cardinality(1..N) = N
  BY <1>1, FS_Interval
<1>7. at \in Surjection(1..N, S)
  BY <1>1, <1>5, <1>6, FS_Injection DEF N
<1>8. upTo \in Bijection(1..k, Below(seq[k]))
  <2>1. ASSUME NEW i \in 1..k PROVE upTo[i] \in Below(seq[k])
    <3>1. i \in 1..N /\ (i = k \/ i < k)
      BY <1>1
    <3>2. seq[i] \in S /\ <<seq[i], seq[k]>> \in R
      BY <1>1, <1>2, <1>3, <3>1 DEF TotalOrder
    <3> QED
      BY <3>2
  <2>2. \A i, j \in 1..k : upTo[i] = upTo[j] => i = j
    BY <1>1, <1>4
  <2>3. ASSUME NEW d \in Below(seq[k]) PROVE \E i \in 1..k : upTo[i] = d
    <3>1. PICK i \in 1..N : seq[i] = d
      BY <1>7 DEF Surjection
    <3>2. ~(k < i)
      BY <1>1, <1>2, <1>3, <3>1 DEF TotalOrder
    <3>3. i \in 1..k
      BY <1>1, <3>2
    <3> QED
      BY <3>1, <3>3
  <2> HIDE DEF Below
  <2> QED
    BY <2>1, <2>2, <2>3 DEF Bijection, Injection, IsInjective, Surjection
<1>9. IsFiniteSet(1..k) /\ Cardinality(1..k) = k
  BY <1>1, FS_Interval
<1>10. Cardinality(Below(seq[k])) = k
  <2> HIDE DEF Below, upTo
  <2>1. ExistsBijection(1..k, Below(seq[k]))
    BY <1>8 DEF ExistsBijection
  <2> QED
    BY <1>9, <2>1, FS_Bijection
<1> QED
  BY <1>10 DEF Rank

\* One set has one ordered sequence.
LEMMA OrderedIsOne ==
  ASSUME NEW S, IsFiniteSet(S), NEW R, TotalOrder(S, R), NEW a, Ordered(S, R, a), NEW b, Ordered(S, R, b)
  PROVE  DOMAIN a = DOMAIN b /\ \A k \in DOMAIN a : a[k] = b[k]
<1>1. DOMAIN a = DOMAIN b /\ \A k \in DOMAIN a : a[k] \in S /\ b[k] \in S
  BY DEF Ordered
<1>2. ASSUME NEW k \in DOMAIN a PROVE a[k] = b[k]
  <2>1. Rank(S, R, a[k]) = k /\ Rank(S, R, b[k]) = k
    BY <1>1, OrderedByRank
  <2> QED
    BY <1>1, <2>1, RankTells
<1> QED
  BY <1>1, <1>2

LEMMA UpToIs ==
  ASSUME NEW S \in SUBSET Nat, NEW a \in S, NEW b \in S
  PROVE  <<a, b>> \in UpTo(S) <=> a <= b
BY DEF UpTo

LettersAt(text) == {i \in DOMAIN text : text[i] \notin Whitespace \cup Noise}

\* Texts whose letters correspond in order have the same letters.
LEMMA LettersAgree ==
  ASSUME NEW s, IsFiniteSet(DOMAIN s), DOMAIN s \subseteq Nat,
         NEW t, IsFiniteSet(DOMAIN t), DOMAIN t \subseteq Nat,
         NEW f \in [LettersAt(s) -> LettersAt(t)],
         \A i, j \in LettersAt(s) : i < j => f[i] < f[j],
         \A m \in LettersAt(t) : \E i \in LettersAt(s) : f[i] = m,
         \A i \in LettersAt(s) : t[f[i]] = s[i]
  PROVE  Letters(s) = Letters(t)
<1> DEFINE S == LettersAt(s)
           T == LettersAt(t)
           a == InOrder(S)
           b == InOrder(T)
           g == [k \in DOMAIN a |-> f[a[k]]]
<1>1. S \in SUBSET Nat /\ IsFiniteSet(S) /\ T \in SUBSET Nat /\ IsFiniteSet(T)
  BY FS_Subset DEF LettersAt
<1>2. Ordered(S, UpTo(S), a) /\ Ordered(T, UpTo(T), b)
  BY <1>1, InOrderIs
<1>3. Letters(s) = [k \in DOMAIN a |-> s[a[k]]] /\ Letters(t) = [k \in DOMAIN b |-> t[b[k]]]
  BY DEF Letters, LettersAt
<1>4. /\ f \in [S -> T] /\ \A i, j \in S : i < j => f[i] < f[j]
      /\ \A m \in T : \E i \in S : f[i] = m
      /\ \A i \in S : t[f[i]] = s[i]
  OBVIOUS
<1> HIDE DEF S, T, a, b
<1>5. f \in Bijection(S, T)
  <2>1. \A i, j \in S : f[i] = f[j] => i = j
    <3> TAKE i, j \in S
    <3>1. i \in Nat /\ j \in Nat /\ f[i] \in Nat /\ f[j] \in Nat
      BY <1>1, <1>4
    <3>2. i = j \/ i < j \/ j < i
      BY <3>1
    <3> QED
      BY <1>4, <3>1, <3>2
  <2> QED
    BY <1>4, <2>1 DEF Bijection, Injection, IsInjective, Surjection
<1>6. Cardinality(S) = Cardinality(T)
  BY <1>1, <1>5, FS_Bijection DEF ExistsBijection
<1>7. Ordered(T, UpTo(T), g)
  <2>1. Cardinality(T) \in Nat /\ DOMAIN g = 1..Cardinality(T) /\ DOMAIN a = DOMAIN g
    BY <1>2, <1>6 DEF Ordered
  <2>2. \A k \in DOMAIN g : a[k] \in S /\ g[k] = f[a[k]] /\ g[k] \in T
    BY <1>2, <1>4, <2>1 DEF Ordered
  <2>3. ASSUME NEW i \in DOMAIN g, NEW j \in DOMAIN g, i < j
        PROVE  <<g[i], g[j]>> \in UpTo(T) /\ g[i] # g[j]
    <3>1. <<a[i], a[j]>> \in UpTo(S) /\ a[i] # a[j]
      BY <1>2, <2>1, <2>3 DEF Ordered
    <3>2. a[i] < a[j]
      <4>1. a[i] \in S /\ a[j] \in S
        BY <2>1, <2>2
      <4>2. a[i] <= a[j] /\ a[i] \in Nat /\ a[j] \in Nat
        BY <1>1, <3>1, <4>1, UpToIs
      <4> QED
        BY <3>1, <4>2
    <3>3. g[i] < g[j] /\ g[i] \in T /\ g[j] \in T
      BY <1>4, <2>2, <3>2
    <3> QED
      <4>1. g[i] \in Nat /\ g[j] \in Nat /\ g[i] <= g[j] /\ g[i] # g[j]
        <5>1. PICK x \in Nat, y \in Nat : x = g[i] /\ y = g[j] /\ x < y
          BY <1>1, <3>3
        <5> QED
          BY <5>1
      <4> QED
        BY <1>1, <3>3, <4>1, UpToIs
  <2> HIDE DEF g
  <2> QED
    BY <2>1, <2>2, <2>3 DEF Ordered
<1>8. DOMAIN g = DOMAIN b /\ \A k \in DOMAIN g : g[k] = b[k]
  <2>1. TotalOrder(T, UpTo(T))
    BY <1>1, UpToIsTotal
  <2> HIDE DEF g
  <2> QED
    BY <1>1, <1>2, <1>7, <2>1, OrderedIsOne
<1>9. ASSUME NEW k \in DOMAIN a PROVE k \in DOMAIN b /\ s[a[k]] = t[b[k]]
  <2>1. a[k] \in S
    BY <1>2 DEF Ordered
  <2> QED
    BY <1>4, <1>8, <2>1
<1>10. DOMAIN a = DOMAIN b
  BY <1>8
<1> HIDE DEF g
<1> QED
  BY <1>3, <1>9, <1>10

\* A sequence of all of a set of numbers, rising.
Rises(seq, n, S) ==
  /\ DOMAIN seq = 1..n
  /\ \A k \in 1..n : seq[k] \in S
  /\ \A i, j \in 1..n : i < j => seq[i] < seq[j]
  /\ \A x \in S : \E k \in 1..n : seq[k] = x

LEMMA InOrderRises ==
  ASSUME NEW S \in SUBSET Nat, IsFiniteSet(S)
  PROVE  \E n \in Nat : n = Cardinality(S) /\ Rises(InOrder(S), n, S)
<1> DEFINE seq == InOrder(S)
           R == UpTo(S)
           Below(c) == {d \in S : <<d, c>> \in R}
<1>1. Ordered(S, R, seq) /\ TotalOrder(S, R)
  BY InOrderIs, UpToIsTotal
<1>2. PICK n \in Nat : n = Cardinality(S)
  BY <1>1 DEF Ordered
<1>3. DOMAIN seq = 1..n /\ \A k \in 1..n : seq[k] \in S
  BY <1>1, <1>2 DEF Ordered
<1>4. ASSUME NEW i \in 1..n, NEW j \in 1..n, i < j PROVE seq[i] < seq[j]
  <2>1. <<seq[i], seq[j]>> \in R /\ seq[i] # seq[j]
    BY <1>1, <1>3, <1>4 DEF Ordered
  <2>2. PICK x \in S, y \in S : x = seq[i] /\ y = seq[j]
    BY <1>3
  <2>3. x <= y /\ x # y /\ x \in Nat /\ y \in Nat
    BY <2>1, <2>2, UpToIs
  <2> QED
    BY <2>2, <2>3
<1>5. ASSUME NEW x \in S PROVE \E k \in 1..n : seq[k] = x
  <2>1. Below(x) \in SUBSET S /\ x \in Below(x)
    BY <1>1 DEF TotalOrder
  <2>2. IsFiniteSet(Below(x)) /\ Cardinality(Below(x)) \in Nat /\ Cardinality(Below(x)) <= Cardinality(S)
    BY <2>1, FS_Subset, FS_CardinalityType
  <2>3. Cardinality(Below(x)) # 0
    BY <2>1, <2>2, FS_EmptySet
  <2>4. PICK k \in 1..n : k = Cardinality(Below(x))
    <3>1. PICK m \in Nat : m = Cardinality(Below(x))
      BY <2>2
    <3>2. m <= n /\ m # 0
      BY <1>2, <2>2, <2>3, <3>1
    <3>3. m \in 1..n
      BY <3>2
    <3> QED
      BY <3>1, <3>3
  <2>5. Rank(S, R, x) = k
    BY <2>4 DEF Rank
  <2>6. Rank(S, R, seq[k]) = k
    BY <1>1, <1>3, OrderedByRank
  <2>7. seq[k] = x
    BY <1>1, <1>3, <2>5, <2>6, RankTells
  <2> QED
    BY <2>7
<1> QED
  BY <1>2, <1>3, <1>4, <1>5 DEF Rises

\* A normalised text keeps every letter of the text, in order, as it is.
KeepsLetters(text, origins, n, t) ==
  /\ n \in Nat
  /\ DOMAIN origins = 1..n /\ Len(t) = n /\ DOMAIN t = 1..n /\ IsSequence(t)
  /\ \A k \in 1..n : origins[k] \in DOMAIN text
  /\ \A i, j \in 1..n : i < j => origins[i] < origins[j]
  /\ \A x \in LettersAt(text) : \E k \in 1..n : origins[k] = x
  /\ \A k \in 1..n : (k \in LettersAt(t) <=> origins[k] \in LettersAt(text))
  /\ \A k \in LettersAt(t) : t[k] = text[origins[k]]

LEMMA NormalisedKeeps ==
  ASSUME NEW text, IsSequence(text), NEW strip
  PROVE  \E n \in Nat : KeepsLetters(text, Origins(text, strip), n, Normalised(text, Origins(text, strip)))
<1> DEFINE skipped == {i \in DOMAIN text : strip /\ text[i] \in Noise}
           before(i) == {j \in DOMAIN text \ skipped : j < i}
           kept(i) == \/ text[i] \notin Whitespace
                      \/ before(i) # {} /\ text[Max(before(i))] \notin Whitespace
           S == {i \in DOMAIN text \ skipped : kept(i)}
           o == InOrder(S)
           space == CHOOSE s \in Whitespace : TRUE
           t == [k \in DOMAIN o |-> IF text[o[k]] \in Whitespace THEN space ELSE text[o[k]]]
<1>1. Origins(text, strip) = o /\ Normalised(text, o) = t
  BY DEF Origins, Normalised
<1>2. S \in SUBSET DOMAIN text /\ LettersAt(text) \subseteq S
  BY DEF LettersAt
<1> HIDE DEF S
<1>3. S \in SUBSET Nat /\ IsFiniteSet(S)
  BY <1>2, SequenceIs, FS_Subset
<1>4. PICK n \in Nat : Rises(o, n, S)
  BY <1>3, InOrderRises
<1>5. /\ DOMAIN o = 1..n /\ \A k \in 1..n : o[k] \in S
      /\ \A i, j \in 1..n : i < j => o[i] < o[j]
      /\ \A x \in S : \E k \in 1..n : o[k] = x
  BY <1>4 DEF Rises
<1> HIDE DEF o
<1>6. DOMAIN t = 1..n /\ t = [k \in 1..n |-> t[k]]
  BY <1>5
<1>7. Len(t) = n
  BY <1>6, LengthIs
<1>8. \A k \in 1..n : (k \in LettersAt(t) <=> o[k] \in LettersAt(text)) /\ (k \in LettersAt(t) => t[k] = text[o[k]])
  <2> TAKE k \in 1..n
  <2>1. t[k] = IF text[o[k]] \in Whitespace THEN space ELSE text[o[k]]
    BY <1>5
  <2>2. text[o[k]] \in Whitespace => space \in Whitespace
    OBVIOUS
  <2>3. o[k] \in DOMAIN text
    BY <1>2, <1>5
  <2> HIDE DEF t, space
  <2> QED
    BY <1>6, <2>1, <2>2, <2>3 DEF LettersAt
<1>9. IsSequence(t)
  <2> HIDE DEF t
  <2>1. t \in [1..n -> Range(t)]
    BY <1>6 DEF Range
  <2> QED
    BY <2>1 DEF IsSequence
<1>10. LettersAt(t) \subseteq 1..n
  BY <1>6 DEF LettersAt
<1>11. Origins(text, strip) = o /\ Normalised(text, o) = t
  BY <1>1
<1> HIDE DEF t
<1>12. KeepsLetters(text, o, n, t)
  BY <1>2, <1>5, <1>6, <1>7, <1>8, <1>9, <1>10 DEF KeepsLetters
<1> QED
  BY <1>11, <1>12

\* So it has the same letters.
LEMMA SameLetters ==
  ASSUME NEW text, IsSequence(text), NEW o, NEW n, NEW t, KeepsLetters(text, o, n, t)
  PROVE  Letters(t) = Letters(text)
<1> DEFINE f == [k \in LettersAt(t) |-> o[k]]
<1>1. /\ IsFiniteSet(DOMAIN text) /\ DOMAIN text \subseteq Nat
      /\ IsFiniteSet(DOMAIN t) /\ DOMAIN t \subseteq Nat /\ DOMAIN t = 1..n
  BY SequenceIs DEF KeepsLetters
<1>2. LettersAt(t) \subseteq 1..n
  BY <1>1 DEF LettersAt
<1>3. f \in [LettersAt(t) -> LettersAt(text)]
  BY <1>2 DEF KeepsLetters
<1>4. \A i, j \in LettersAt(t) : i < j => f[i] < f[j]
  BY <1>2 DEF KeepsLetters
<1>5. \A m \in LettersAt(text) : \E i \in LettersAt(t) : f[i] = m
  BY <1>2 DEF KeepsLetters
<1>6. \A i \in LettersAt(t) : text[f[i]] = t[i]
  BY <1>2 DEF KeepsLetters
<1> HIDE DEF f
<1> QED
  BY <1>1, <1>3, <1>4, <1>5, <1>6, LettersAgree

\* What stands between two places of a text.
LEMMA SliceIs ==
  ASSUME NEW s, IsSequence(s), NEW a \in Nat \ {0}, NEW b \in Nat, a <= b, b <= Len(s)
  PROVE  /\ DOMAIN SubSeq(s, a, b) = 1..(b - a + 1)
         /\ \A i \in 1..(b - a + 1) : SubSeq(s, a, b)[i] = s[a + i - 1]
         /\ IsSequence(SubSeq(s, a, b)) /\ Len(SubSeq(s, a, b)) = b - a + 1
         /\ IsFiniteSet(DOMAIN SubSeq(s, a, b)) /\ DOMAIN SubSeq(s, a, b) \subseteq Nat
<1> DEFINE S == Range(s)
           t == SubSeq(s, a, b)
<1>1. Len(s) \in Nat /\ DOMAIN s = 1..Len(s)
  BY SequenceIs
<1>2. \A i \in a..b : s[i] \in S
  BY <1>1 DEF Range
<1>3. a \in Int /\ b \in Int
  OBVIOUS
<1> HIDE DEF S
<1>4. t \in Seq(S) /\ Len(t) = b - a + 1 /\ \A i \in 1..(b - a + 1) : t[i] = s[a + i - 1]
  BY <1>2, <1>3, SubSeqProperties
<1> HIDE DEF t
<1>5. DOMAIN t = 1..(b - a + 1)
  BY <1>4
<1>6. IsSequence(t)
  <2>1. t \in [1..Len(t) -> Range(t)] /\ Len(t) \in Nat
    BY <1>4, <1>5 DEF Range
  <2> QED
    BY <2>1 DEF IsSequence
<1>7. IsFiniteSet(DOMAIN t) /\ DOMAIN t \subseteq Nat
  BY <1>6, SequenceIs
<1> QED
  BY <1>4, <1>5, <1>6, <1>7 DEF t

\* What stands between two kept places has the letters of what was kept between them.
LEMMA SliceLetters ==
  ASSUME NEW text, IsSequence(text), NEW o, NEW n, NEW t, KeepsLetters(text, o, n, t),
         NEW a \in 1..n, NEW b \in a..n
  PROVE  /\ o[a] \in DOMAIN text /\ o[b] \in DOMAIN text /\ o[a] <= o[b]
         /\ Letters(SubSeq(t, a, b)) = Letters(SubSeq(text, o[a], o[b]))
<1> DEFINE part == SubSeq(t, a, b)
           whole == SubSeq(text, o[a], o[b])
           f == [k \in LettersAt(part) |-> o[a + k - 1] - o[a] + 1]
<1>1. /\ n \in Nat /\ Len(t) = n /\ DOMAIN t = 1..n /\ IsSequence(t) /\ a \in Nat \ {0} /\ b \in Nat /\ a <= b /\ b <= n
      /\ Len(text) \in Nat /\ DOMAIN text = 1..Len(text)
  BY SequenceIs DEF KeepsLetters
<1>2. /\ \A k \in 1..n : o[k] \in DOMAIN text
      /\ \A i, j \in 1..n : i < j => o[i] < o[j]
      /\ \A x \in LettersAt(text) : \E k \in 1..n : o[k] = x
      /\ \A k \in 1..n : (k \in LettersAt(t) <=> o[k] \in LettersAt(text)) /\ (k \in LettersAt(t) => t[k] = text[o[k]])
  BY DEF KeepsLetters
<1>3. PICK A \in DOMAIN text, B \in DOMAIN text : A = o[a] /\ B = o[b]
  BY <1>1, <1>2
<1>4. A \in Nat \ {0} /\ B \in Nat /\ A <= B /\ B <= Len(text)
  <2>1. a = b \/ a < b
    BY <1>1
  <2>2. A = B \/ A < B
    BY <1>1, <1>2, <1>3, <2>1
  <2> QED
    BY <1>1, <2>2
<1>5. /\ DOMAIN part = 1..(b - a + 1) /\ \A i \in 1..(b - a + 1) : part[i] = t[a + i - 1]
      /\ IsFiniteSet(DOMAIN part) /\ DOMAIN part \subseteq Nat
  BY <1>1, SliceIs
<1>6. /\ DOMAIN whole = 1..(B - A + 1) /\ \A i \in 1..(B - A + 1) : whole[i] = text[A + i - 1]
      /\ IsFiniteSet(DOMAIN whole) /\ DOMAIN whole \subseteq Nat
  <2>1. whole = SubSeq(text, A, B)
    BY <1>3
  <2> HIDE DEF whole
  <2> QED
    BY <1>4, <2>1, SliceIs
<1> HIDE DEF part, whole
<1>7. ASSUME NEW k \in 1..(b - a + 1)
      PROVE  /\ a + k - 1 \in 1..n /\ o[a + k - 1] \in A..B
             /\ o[a + k - 1] - A + 1 \in 1..(B - A + 1) /\ A + (o[a + k - 1] - A + 1) - 1 = o[a + k - 1]
             /\ part[k] = t[a + k - 1] /\ whole[o[a + k - 1] - A + 1] = text[o[a + k - 1]]
  <2>1. PICK m \in 1..n : m = a + k - 1 /\ a <= m /\ m <= b
    BY <1>1
  <2>2. PICK x \in DOMAIN text : x = o[m]
    BY <1>2
  <2>3. x \in Nat /\ A <= x /\ x <= B
    <3>1. (a = m \/ a < m) /\ (m = b \/ m < b)
      BY <1>1, <2>1
    <3>2. a < m => A < x
      BY <1>1, <1>2, <1>3, <2>2
    <3>3. m < b => x < B
      BY <1>1, <1>2, <1>3, <2>2
    <3>4. (a = m => A = x) /\ (m = b => x = B)
      BY <1>3, <2>2
    <3> QED
      BY <1>1, <1>4, <3>1, <3>2, <3>3, <3>4
  <2>4. x - A + 1 \in 1..(B - A + 1) /\ A + (x - A + 1) - 1 = x /\ x \in A..B
    BY <1>4, <2>3
  <2>5. whole[x - A + 1] = text[x]
    BY <1>6, <2>4
  <2> QED
    BY <1>5, <2>1, <2>2, <2>4, <2>5
<1>8. ASSUME NEW k \in 1..(b - a + 1)
      PROVE  /\ k \in LettersAt(part) <=> a + k - 1 \in LettersAt(t)
             /\ o[a + k - 1] - A + 1 \in LettersAt(whole) <=> o[a + k - 1] \in LettersAt(text)
  <2>1. /\ a + k - 1 \in DOMAIN t /\ o[a + k - 1] \in DOMAIN text /\ k \in DOMAIN part
        /\ o[a + k - 1] - A + 1 \in DOMAIN whole
    BY <1>1, <1>2, <1>5, <1>6, <1>7
  <2> QED
    BY <1>7, <2>1 DEF LettersAt
<1>9. LettersAt(part) \subseteq 1..(b - a + 1)
  BY <1>5 DEF LettersAt
<1>10. ASSUME NEW k \in LettersAt(part) PROVE f[k] \in LettersAt(whole) /\ whole[f[k]] = part[k]
  <2>1. f[k] = o[a + k - 1] - A + 1
    BY <1>3
  <2>2. a + k - 1 \in 1..n /\ a + k - 1 \in LettersAt(t) /\ o[a + k - 1] \in LettersAt(text)
    BY <1>2, <1>7, <1>8, <1>9
  <2> HIDE DEF f
  <2> QED
    BY <1>2, <1>7, <1>8, <1>9, <2>1, <2>2
<1>11. f \in [LettersAt(part) -> LettersAt(whole)]
  BY <1>10
<1>12. \A i, j \in LettersAt(part) : i < j => f[i] < f[j]
  <2> SUFFICES ASSUME NEW i \in LettersAt(part), NEW j \in LettersAt(part), i < j PROVE f[i] < f[j]
    OBVIOUS
  <2>1. PICK p \in 1..n : p = a + i - 1
    BY <1>7, <1>9
  <2>2. PICK q \in 1..n : q = a + j - 1
    BY <1>7, <1>9
  <2>3. p < q
    BY <1>1, <1>5, <1>9, <2>1, <2>2
  <2>4. PICK x \in DOMAIN text : x = o[p]
    BY <1>2
  <2>5. PICK y \in DOMAIN text : y = o[q]
    BY <1>2
  <2>6. x < y /\ x \in Nat /\ y \in Nat
    BY <1>1, <1>2, <2>3, <2>4, <2>5
  <2>7. f[i] = x - A + 1 /\ f[j] = y - A + 1
    BY <1>3, <2>1, <2>2, <2>4, <2>5
  <2> QED
    BY <1>4, <2>6, <2>7
<1>13. \A m \in LettersAt(whole) : \E i \in LettersAt(part) : f[i] = m
  <2> SUFFICES ASSUME NEW m \in LettersAt(whole) PROVE \E i \in LettersAt(part) : f[i] = m
    OBVIOUS
  <2>1. m \in 1..(B - A + 1) /\ m \in Nat /\ whole[m] = text[A + m - 1]
    BY <1>4, <1>6 DEF LettersAt
  <2>2. PICK x \in DOMAIN text : x = A + m - 1 /\ A <= x /\ x <= B
    BY <1>1, <1>4, <2>1
  <2>3. x \in LettersAt(text)
    BY <2>1, <2>2 DEF LettersAt
  <2>4. PICK p \in 1..n : o[p] = x
    BY <1>2, <2>3
  <2>5. a <= p /\ p <= b
    <3>1. p \in Nat /\ x \in Nat
      BY <1>1
    <3>2. p < a => x < A
      BY <1>1, <1>2, <1>3, <2>4
    <3>3. b < p => B < x
      BY <1>1, <1>2, <1>3, <2>4
    <3> QED
      BY <1>1, <1>4, <2>2, <3>1, <3>2, <3>3
  <2>6. PICK k \in 1..(b - a + 1) : k = p - a + 1
    BY <1>1, <2>5
  <2>7. a + k - 1 = p
    BY <1>1, <2>6
  <2>8. k \in LettersAt(part)
    BY <1>2, <1>8, <2>3, <2>4, <2>7
  <2>9. f[k] = x - A + 1
    BY <1>3, <2>4, <2>7, <2>8
  <2>10. x - A + 1 = m
    BY <1>1, <1>4, <2>1, <2>2
  <2> QED
    BY <2>8, <2>9, <2>10
<1>14. Letters(part) = Letters(whole)
  <2>1. \A i \in LettersAt(part) : whole[f[i]] = part[i]
    BY <1>10
  <2> HIDE DEF f
  <2> QED
    BY <1>5, <1>6, <1>11, <1>12, <1>13, <2>1, LettersAgree
<1> QED
  BY <1>1, <1>3, <1>4, <1>14 DEF part, whole

\* A span of a turn that has the letters of the quote.
Quotes(turn, quote, cs, ce) ==
  /\ cs \in Nat /\ ce \in Nat /\ cs < ce /\ ce <= Len(turn)
  /\ Letters(SubSeq(turn, cs + 1, ce)) = Letters(quote)

LEMMA LooselyQuotes ==
  ASSUME NEW turn, IsSequence(turn), NEW quote, IsSequence(quote), NEW strip,
         Loosely(turn, quote, strip) # Nowhere
  PROVE  Quotes(turn, quote, Loosely(turn, quote, strip).cs, Loosely(turn, quote, strip).ce)
<1> DEFINE o == Origins(turn, strip)
           t == Normalised(turn, o)
           needle == Normalised(quote, Origins(quote, strip))
           found == indexesOf(t, needle)
           cs == Loosely(turn, quote, strip).cs
           ce == Loosely(turn, quote, strip).ce
<1>1. PICK n \in Nat : KeepsLetters(turn, o, n, t)
  BY NormalisedKeeps
<1>2. PICK m \in Nat : KeepsLetters(quote, Origins(quote, strip), m, needle)
  BY NormalisedKeeps
<1>3. /\ needle # <<>> /\ found # {}
      /\ cs = o[Min(found) + 1] - 1 /\ ce = o[Min(found) + Len(needle)]
  BY DEF Loosely, FromOrigins
<1>4. Len(needle) = m /\ IsSequence(needle) /\ Len(t) = n
  BY <1>1, <1>2 DEF KeepsLetters
<1>5. m # 0
  <2> HIDE DEF needle
  <2> QED
    BY <1>3, <1>4 DEF IsSequence
<1>6. Letters(needle) = Letters(quote)
  BY <1>2, SameLetters
<1>7. found \in SUBSET Nat
      /\ \A at \in found : at + m <= n /\ SubSeq(t, at + 1, at + m) = needle
  BY <1>4 DEF indexesOf
<1>8. PICK at \in found : at = Min(found)
  BY <1>3, <1>7, LeastIsOne
<1> HIDE DEF o, t, needle, found, cs, ce
<1>9. PICK a \in 1..n : a = at + 1
  <2>1. at \in Nat /\ at + m <= n
    BY <1>7
  <2> QED
    BY <1>5, <2>1
<1>10. PICK b \in a..n : b = at + m
  <2>1. at \in Nat /\ at + m <= n
    BY <1>7
  <2> QED
    BY <1>5, <1>9, <2>1
<1>11. /\ o[a] \in DOMAIN turn /\ o[b] \in DOMAIN turn /\ o[a] <= o[b]
       /\ Letters(SubSeq(t, a, b)) = Letters(SubSeq(turn, o[a], o[b]))
  BY <1>1, SliceLetters
<1>12. PICK A \in DOMAIN turn, B \in DOMAIN turn : A = o[a] /\ B = o[b]
  BY <1>11
<1>13. A \in Nat \ {0} /\ B \in Nat /\ A <= B /\ B <= Len(turn)
  BY <1>11, <1>12, SequenceIs
<1>14. cs = A - 1 /\ ce = B
  BY <1>3, <1>4, <1>8, <1>9, <1>10, <1>12
<1>15. SubSeq(t, a, b) = needle
  BY <1>7, <1>9, <1>10
<1>16. (A - 1) + 1 = A /\ A - 1 \in Nat /\ A - 1 < B
  BY <1>13
<1>17. cs + 1 = A
  BY <1>14, <1>16
<1>18. Letters(SubSeq(turn, cs + 1, ce)) = Letters(quote)
  BY <1>6, <1>11, <1>12, <1>14, <1>15, <1>17
<1> QED
  BY <1>13, <1>14, <1>16, <1>18 DEF Quotes, cs, ce

\* What is located is in the turn and has the letters of the quote.
LEMMA LocatedQuotes ==
  ASSUME NEW turn, IsSequence(turn), NEW quote, IsSequence(quote), locateSpan(turn, quote) # Nowhere
  PROVE  Quotes(turn, quote, locateSpan(turn, quote).cs, locateSpan(turn, quote).ce)
<1> DEFINE exact == indexesOf(turn, quote)
<1>1. CASE exact # {} /\ ~Blank(quote)
  <2>1. locateSpan(turn, quote) = [cs |-> Min(exact), ce |-> Min(exact) + Len(quote), located |-> "exact"]
    BY <1>1 DEF locateSpan
  <2>2. exact \in SUBSET Nat /\ Len(turn) \in Nat /\ Len(quote) \in Nat
    BY SequenceIs DEF indexesOf
  <2>3. PICK at \in exact : at = Min(exact)
    BY <1>1, <2>2, LeastIsOne
  <2>4. at \in Nat /\ at + Len(quote) <= Len(turn) /\ SubSeq(turn, at + 1, at + Len(quote)) = quote
    BY <2>2, <2>3 DEF indexesOf
  <2>5. Len(quote) # 0
    <3>1. SUFFICES ASSUME DOMAIN quote = {} PROVE FALSE
      BY SequenceIs
    <3>2. Range(quote) = {}
      BY <3>1 DEF Range
    <3> QED
      BY <1>1, <3>2 DEF Blank
  <2> HIDE DEF exact
  <2>6. locateSpan(turn, quote).cs = at /\ locateSpan(turn, quote).ce = at + Len(quote)
    BY <2>1, <2>3
  <2>7. PICK ce \in Nat : ce = at + Len(quote) /\ at < ce
    BY <2>2, <2>4, <2>5
  <2>8. Quotes(turn, quote, at, ce)
    <3>1. ce <= Len(turn) /\ SubSeq(turn, at + 1, ce) = quote
      BY <2>4, <2>7
    <3> QED
      BY <2>4, <2>7, <3>1 DEF Quotes
  <2> QED
    BY <2>6, <2>7, <2>8
<1>2. CASE exact = {} \/ Blank(quote)
  <2>1. \E strip \in BOOLEAN : locateSpan(turn, quote) = Loosely(turn, quote, strip)
    BY <1>2 DEF locateSpan
  <2> QED
    BY <2>1, LooselyQuotes
<1> QED
  BY <1>1, <1>2

\* What the model says that is kept makes a claim of its turn with the letters of its quote.
LEMMA ClaimQuotes ==
  ASSUME NEW turns, IsSequence(turns), \A k \in DOMAIN turns : IsSequence(turns[k]),
         NEW said, IsSequence(said.quote), DropReason(turns, said) = ""
  PROVE  LET claim == ClaimOf(turns, said)
         IN  /\ claim.turn = said.turn /\ claim.text = said.text
             /\ claim.turn \in 0..(Len(turns) - 1) /\ claim.turn + 1 \in DOMAIN turns
             /\ Quotes(turns[claim.turn + 1], said.quote, claim.cs, claim.ce)
<1> DEFINE claim == ClaimOf(turns, said)
           span == locateSpan(turns[said.turn + 1], said.quote)
<1>1. claim.text = said.text /\ claim.turn = said.turn /\ claim.cs = span.cs /\ claim.ce = span.ce
  BY DEF ClaimOf
<1>2. said.turn \in 0..(Len(turns) - 1) /\ span # Nowhere
  BY DEF DropReason
<1>3. said.turn + 1 \in DOMAIN turns
  <2>1. PICK n \in Nat : n = Len(turns) /\ DOMAIN turns = 1..n
    BY SequenceIs
  <2>2. PICK u \in 0..(n - 1) : u = said.turn
    BY <1>2, <2>1
  <2>3. u + 1 \in 1..n
    BY ONLY n \in Nat, u \in 0..(n - 1)
  <2> QED
    BY <2>1, <2>2, <2>3
<1>4. Quotes(turns[said.turn + 1], said.quote, span.cs, span.ce)
  BY <1>2, <1>3, LocatedQuotes
<1> HIDE DEF claim, span
<1> QED
  BY <1>1, <1>2, <1>3, <1>4 DEF claim

\* Each claim extracted is one the model said, with a span that quotes it.
SaidIn(turns, raw, claim) ==
  \E j \in DOMAIN raw :
    /\ claim.turn = raw[j].turn /\ claim.text = raw[j].text
    /\ claim.turn \in 0..(Len(turns) - 1) /\ claim.turn + 1 \in DOMAIN turns
    /\ Quotes(turns[claim.turn + 1], raw[j].quote, claim.cs, claim.ce)

LEMMA ExtractedQuote ==
  ASSUME NEW c \in Commits, NEW raw \in RawExtractions[c]
  PROVE  \A k \in DOMAIN extractSession(Texts[c], raw) : SaidIn(Texts[c], raw, extractSession(Texts[c], raw)[k])
<1> DEFINE kept == {j \in DOMAIN raw : DropReason(Texts[c], raw[j]) = ""}
           claims == extractSession(Texts[c], raw)
<1>1. /\ IsSequence(raw) /\ IsSequence(Texts[c])
      /\ \A k \in DOMAIN raw : IsSequence(raw[k].quote)
      /\ \A k \in DOMAIN Texts[c] : IsSequence(Texts[c][k])
  BY TextsAreShort
<1>2. kept \in SUBSET Nat /\ IsFiniteSet(kept)
  BY <1>1, SequenceIs, FS_Subset
<1>3. Ordered(kept, UpTo(kept), InOrder(kept))
  BY <1>2, InOrderIs
<1>4. claims = [k \in DOMAIN InOrder(kept) |-> ClaimOf(Texts[c], raw[InOrder(kept)[k]])]
  BY ExtractedAre
<1>5. \A j \in kept : j \in DOMAIN raw /\ DropReason(Texts[c], raw[j]) = ""
  OBVIOUS
<1> HIDE DEF claims, kept
<1>6. ASSUME NEW k \in DOMAIN claims PROVE SaidIn(Texts[c], raw, claims[k])
  <2>1. PICK j \in kept : claims[k] = ClaimOf(Texts[c], raw[j])
    BY <1>3, <1>4 DEF Ordered
  <2>2. j \in DOMAIN raw /\ IsSequence(raw[j].quote) /\ DropReason(Texts[c], raw[j]) = ""
    BY <1>1, <1>5
  <2>3. /\ claims[k].turn = raw[j].turn /\ claims[k].text = raw[j].text
        /\ claims[k].turn \in 0..(Len(Texts[c]) - 1) /\ claims[k].turn + 1 \in DOMAIN Texts[c]
        /\ Quotes(Texts[c][claims[k].turn + 1], raw[j].quote, claims[k].cs, claims[k].ce)
    <3>1. PICK said : said = raw[j]
      OBVIOUS
    <3>2. LET claim == ClaimOf(Texts[c], said)
          IN  /\ claim.turn = said.turn /\ claim.text = said.text
              /\ claim.turn \in 0..(Len(Texts[c]) - 1) /\ claim.turn + 1 \in DOMAIN Texts[c]
              /\ Quotes(Texts[c][claim.turn + 1], said.quote, claim.cs, claim.ce)
      BY <1>1, <2>2, <3>1, ClaimQuotes
    <3> QED
      BY <2>1, <3>1, <3>2
  <2> QED
    BY <2>2, <2>3 DEF SaidIn
<1> QED
  BY <1>6 DEF claims

-----------------------------------------------------------------------------
(***************************************************************************)
(* A turn read back: the parts in which it is stored make the text again.  *)
(***************************************************************************)

\* A set of numbers that has the first of a range, and after each the next, has the range.
LEMMA RangeIsCovered ==
  ASSUME NEW m \in Nat, NEW P, 1 \in P, \A i \in 1..m : i \in P /\ i # m => i + 1 \in P
  PROVE  1..m \subseteq P
<1> DEFINE S == {i \in 1..m : i \notin P}
<1>1. SUFFICES ASSUME S # {} PROVE FALSE
  OBVIOUS
<1>2. PICK x \in S : \A y \in S : x <= y
  <2>1. S \in SUBSET Nat
    OBVIOUS
  <2> HIDE DEF S
  <2> QED
    BY <1>1, <2>1, LeastOf
<1>3. x # 1 /\ x - 1 \in 1..m /\ x - 1 # m /\ (x - 1) + 1 = x
  OBVIOUS
<1>4. x - 1 \in P
  BY <1>2, <1>3
<1> QED
  BY <1>3, <1>4

\* A flattened sequence is the last of its joins.
LEMMA FlattenedIs ==
  ASSUME NEW seqs, NEW m \in Nat, m # 0, Len(seqs) = m,
         NEW F,
         \A i \in 1..m : F[i] = IF i = 1 THEN seqs[i] ELSE F[i - 1] \o seqs[i]
  PROVE  FlattenSeq(seqs) = F[m]
<1> DEFINE G == CHOOSE f : f = [i \in 1..Len(seqs) |-> IF i = 1 THEN seqs[i] ELSE f[i - 1] \o seqs[i]]
<1>1. FlattenSeq(seqs) = G[m]
  BY DEF FlattenSeq
<1>2. G = [i \in 1..Len(seqs) |-> IF i = 1 THEN seqs[i] ELSE G[i - 1] \o seqs[i]]
  <2> DEFINE H == [i \in 1..m |-> F[i]]
  <2>1. \A i \in 1..m : i # 1 => i - 1 \in 1..m
    OBVIOUS
  <2>2. \A i \in 1..m : H[i] = IF i = 1 THEN seqs[i] ELSE H[i - 1] \o seqs[i]
    BY <2>1
  <2>3. H = [i \in 1..Len(seqs) |-> H[i]]
    OBVIOUS
  <2> HIDE DEF H
  <2>4. H = [i \in 1..Len(seqs) |-> IF i = 1 THEN seqs[i] ELSE H[i - 1] \o seqs[i]]
    BY <2>2, <2>3
  <2> QED
    BY <2>4
<1> HIDE DEF G
<1>3. \A i \in 1..m : G[i] = IF i = 1 THEN seqs[i] ELSE G[i - 1] \o seqs[i]
  BY <1>2
<1>4. \A i \in 1..m : F[i] = IF i = 1 THEN seqs[i] ELSE F[i - 1] \o seqs[i]
  OBVIOUS
<1>5. 1..m \subseteq {i \in 1..m : G[i] = F[i]}
  <2>1. 1 \in {i \in 1..m : G[i] = F[i]}
    <3>1. 1 \in 1..m
      OBVIOUS
    <3>2. G[1] = seqs[1] /\ F[1] = seqs[1]
      BY <1>3, <3>1
    <3> QED
      BY <3>1, <3>2
  <2>2. ASSUME NEW i \in 1..m, G[i] = F[i], i # m PROVE i + 1 \in {j \in 1..m : G[j] = F[j]}
    <3>1. PICK j \in 1..m : j = i + 1 /\ j # 1 /\ j - 1 = i
      BY <2>2
    <3>2. G[j] = G[i] \o seqs[j] /\ F[j] = F[i] \o seqs[j]
      BY <1>3, <1>4, <3>1
    <3> QED
      BY <2>2, <3>1, <3>2
  <2> QED
    BY <2>1, <2>2, RangeIsCovered
<1> QED
  BY <1>1, <1>5

\* In how many parts a text comes, and where each ends.
Parts(text) == IF Len(text) <= ChunkBytes THEN 1 ELSE (Len(text) + ChunkBytes - 1) \div ChunkBytes
PartEnd(text, k) == IF k = Parts(text) THEN Len(text) ELSE k * ChunkBytes

LEMMA PartsAre ==
  ASSUME NEW text, IsSequence(text)
  PROVE  /\ Parts(text) \in Nat /\ Parts(text) # 0
         /\ \A k \in 1..Parts(text) : /\ PartEnd(text, k) \in Nat /\ PartEnd(text, k) <= Len(text)
                                      /\ k > 1 => PartEnd(text, k - 1) <= PartEnd(text, k)
                                      /\ k > 1 => PartEnd(text, k - 1) = (k - 1) * ChunkBytes
         /\ PartEnd(text, Parts(text)) = Len(text)
<1> DEFINE b == ChunkBytes
<1>1. PICK l \in Nat : l = Len(text)
  BY SequenceIs
<1>2. b \in Nat \ {0}
  BY ChunkBytesAssumption
<1>3. CASE l <= b
  <2>1. Parts(text) = 1 /\ PartEnd(text, 1) = l
    BY <1>1, <1>3 DEF Parts, PartEnd
  <2> QED
    BY <1>1, <2>1
<1>4. CASE ~(l <= b)
  <2>1. PICK n \in Nat : n = (l + b - 1) \div b /\ n * b <= l + b - 1 /\ l + b - 1 < (n + 1) * b
    BY <1>2, <1>4
  <2>2. n # 0 /\ Parts(text) = n
    BY <1>1, <1>2, <1>4, <2>1 DEF Parts
  <2>3. ASSUME NEW k \in 1..n, k # n PROVE k * b \in Nat /\ k * b <= l /\ (k + 1) * b = k * b + b
    <3>1. k \in Nat /\ k + 1 <= n
      BY <2>1, <2>3
    <3>2. (k + 1) * b <= n * b /\ (k + 1) * b = k * b + b /\ k * b \in Nat
      BY <1>2, <2>1, <3>1
    <3>3. n * b \in Nat
      BY <1>2
    <3> QED
      BY <1>2, <2>1, <3>2, <3>3
  <2>4. ASSUME NEW k \in 1..n
        PROVE  /\ PartEnd(text, k) \in Nat /\ PartEnd(text, k) <= l
               /\ k > 1 => PartEnd(text, k - 1) <= PartEnd(text, k)
               /\ k > 1 => PartEnd(text, k - 1) = (k - 1) * b
    <3>1. PartEnd(text, k) = IF k = n THEN l ELSE k * b
      BY <1>1, <2>2 DEF PartEnd
    <3>2. PartEnd(text, k) \in Nat /\ PartEnd(text, k) <= l
      BY <1>1, <2>3, <3>1
    <3>3. ASSUME k > 1
          PROVE  PartEnd(text, k - 1) <= PartEnd(text, k) /\ PartEnd(text, k - 1) = (k - 1) * b
      <4>1. PICK j \in 1..n : j = k - 1 /\ j # n /\ k = j + 1
        BY <3>3
      <4>2. PartEnd(text, j) = j * b
        BY <2>2, <4>1 DEF PartEnd
      <4>3. j * b \in Nat /\ j * b <= l /\ k * b = j * b + b
        BY <2>3, <4>1
      <4> QED
        BY <1>2, <3>1, <4>1, <4>2, <4>3
    <3> QED
      BY <3>2, <3>3
  <2>5. PartEnd(text, n) = l
    BY <1>1, <2>2 DEF PartEnd
  <2> QED
    BY <1>1, <2>2, <2>4, <2>5
<1> QED
  BY <1>3, <1>4

LEMMA ChunksAre ==
  ASSUME NEW text, IsSequence(text)
  PROVE  /\ DOMAIN chunkText(text) = 1..Parts(text) /\ Len(chunkText(text)) = Parts(text)
         /\ \A k \in 1..Parts(text) :
              chunkText(text)[k] = SubSeq(text, (k - 1) * ChunkBytes + 1, PartEnd(text, k))
<1> DEFINE n == Parts(text)
           chunks == chunkText(text)
<1>1. chunks = [k \in 1..n |-> SubSeq(text, (k - 1) * ChunkBytes + 1, PartEnd(text, k))]
  BY DEF chunkText, Parts, PartEnd
<1>2. n \in Nat
  BY PartsAre
<1> HIDE DEF n, chunks
<1>3. chunks = [k \in 1..n |-> chunks[k]]
  BY <1>1
<1>4. Len(chunks) = n
  BY <1>2, <1>3, LengthIs
<1> QED
  BY <1>1, <1>4 DEF n, chunks

\* The first part and the others joined are the text.
LEMMA PartsMakeTheText ==
  ASSUME NEW text, IsSequence(text), Parts(text) > 1,
         NEW rest, rest = [k \in 1..(Parts(text) - 1) |-> chunkText(text)[k + 1]]
  PROVE  chunkText(text)[1] \o FlattenSeq(rest) = text
<1> DEFINE S == Range(text)
           from == ChunkBytes + 1
           End(k) == PartEnd(text, k)
           F == [i \in 1..(Parts(text) - 1) |-> SubSeq(text, from, End(i + 1))]
<1>1. PICK n \in Nat : n = Parts(text) /\ n > 1
  BY PartsAre
<1>2. PICK l \in Nat : l = Len(text) /\ text \in Seq(S)
  BY SequenceIs DEF IsSequence
<1>3. ChunkBytes \in Nat \ {0}
  BY ChunkBytesAssumption
<1>4. /\ \A k \in 1..n : End(k) \in Nat /\ End(k) <= l /\ (k > 1 => End(k - 1) <= End(k) /\ End(k - 1) = (k - 1) * ChunkBytes)
      /\ End(n) = l
  BY <1>1, <1>2, PartsAre
<1>5. /\ \A k \in 1..n : chunkText(text)[k] = SubSeq(text, (k - 1) * ChunkBytes + 1, End(k))
  BY <1>1, ChunksAre
<1>6. PICK m \in Nat : m = n - 1 /\ m # 0
  BY <1>1
<1> HIDE DEF S, End
<1>7. F = [i \in 1..m |-> SubSeq(text, from, End(i + 1))] /\ rest = [k \in 1..m |-> chunkText(text)[k + 1]]
  BY <1>1, <1>6
<1>8. Len(rest) = m
  <2>1. rest = [k \in 1..m |-> rest[k]]
    BY <1>7
  <2> QED
    BY <2>1, LengthIs
<1>9. End(1) = ChunkBytes /\ ChunkBytes <= l
  <2>1. 2 \in 1..n /\ 1 \in 1..n /\ 2 > 1 /\ 2 - 1 = 1
    BY <1>1
  <2>2. End(1) = 1 * ChunkBytes /\ End(1) <= l
    BY <1>4, <2>1
  <2> QED
    BY <1>3, <2>2
<1> HIDE DEF F, from
<1>10. ASSUME NEW i \in 1..m
       PROVE  F[i] = IF i = 1 THEN rest[i] ELSE F[i - 1] \o rest[i]
  <2>1. PICK j \in 1..n : j = i + 1 /\ j > 1 /\ j - 1 = i /\ i \in 1..n
    BY <1>6
  <2>2. End(i) \in Nat /\ End(j) \in Nat /\ End(i) <= End(j) /\ End(j) <= l /\ End(i) = i * ChunkBytes
    BY <1>4, <2>1
  <2>3. rest[i] = SubSeq(text, End(i) + 1, End(j))
    BY <1>5, <1>7, <2>1, <2>2
  <2>4. F[i] = SubSeq(text, from, End(j))
    BY <1>7, <2>1
  <2>5. CASE i = 1
    BY <1>9, <2>3, <2>4, <2>5 DEF from
  <2>6. CASE i # 1
    <3>1. PICK h \in 1..m : h = i - 1 /\ h + 1 = i
      BY <2>6
    <3>2. F[h] = SubSeq(text, from, End(i))
      BY <1>7, <3>1
    <3>3. ChunkBytes <= End(i)
      <4>1. i * ChunkBytes = (i - 1) * ChunkBytes + ChunkBytes /\ (i - 1) * ChunkBytes \in Nat
        BY <1>3
      <4> QED
        BY <1>3, <2>2, <4>1
    <3>4. from \in 1..(l + 1) /\ End(i) \in (from - 1)..l /\ End(j) \in End(i)..l
      BY <1>3, <1>9, <2>2, <3>3 DEF from
    <3>5. SubSeq(text, from, End(i)) \o SubSeq(text, End(i) + 1, End(j)) = SubSeq(text, from, End(j))
      BY <1>2, <3>4, ConcatAdjacentSubSeq
    <3> QED
      BY <2>3, <2>4, <2>6, <3>1, <3>2, <3>5
  <2> QED
    BY <2>5, <2>6
<1>12. FlattenSeq(rest) = F[m]
  <2>1. PICK G : G = F
    OBVIOUS
  <2>2. \A i \in 1..m : G[i] = IF i = 1 THEN rest[i] ELSE G[i - 1] \o rest[i]
    BY <1>7, <1>10, <2>1
  <2>3. FlattenSeq(rest) = G[m]
    <3>1. m \in Nat /\ m # 0
      BY <1>6
    <3> QED
      BY ONLY <3>1, <1>8, <2>2, FlattenedIs
  <2> QED
    BY <2>1, <2>3
<1>13. F[m] = SubSeq(text, from, l)
  <2>1. m \in 1..m /\ m + 1 = n
    BY <1>6
  <2> QED
    BY <1>4, <1>7, <2>1
<1>14. chunkText(text)[1] = SubSeq(text, 1, ChunkBytes)
  <2>1. 1 \in 1..n /\ (1 - 1) * ChunkBytes + 1 = 1
    BY <1>1, <1>3
  <2> QED
    BY <1>5, <1>9, <2>1
<1>15. SubSeq(text, 1, ChunkBytes) \o SubSeq(text, ChunkBytes + 1, l) = SubSeq(text, 1, l)
  <2>1. 1 \in 1..(l + 1) /\ ChunkBytes \in (1 - 1)..l /\ l \in ChunkBytes..l
    BY <1>3, <1>9
  <2> QED
    BY <1>2, <2>1, ConcatAdjacentSubSeq
<1>16. SubSeq(text, 1, l) = text
  BY <1>2, SubSeqFull
<1> QED
  BY <1>12, <1>13, <1>14, <1>15, <1>16 DEF from

\* The numbers of a range, in order, are their own places.
LEMMA InOrderOfRange ==
  ASSUME NEW m \in Nat
  PROVE  DOMAIN InOrder(1..m) = 1..m /\ \A k \in 1..m : InOrder(1..m)[k] = k
<1> DEFINE S == 1..m
           R == UpTo(S)
           id == [k \in 1..m |-> k]
<1>1. S \in SUBSET Nat /\ IsFiniteSet(S) /\ Cardinality(S) = m
  BY FS_Interval
<1>2. Ordered(S, R, InOrder(S)) /\ TotalOrder(S, R)
  BY <1>1, InOrderIs, UpToIsTotal
<1>3. Ordered(S, R, id)
  <2>1. ASSUME NEW i \in 1..m, NEW j \in 1..m, i < j PROVE <<i, j>> \in R
    BY <2>1 DEF UpTo
  <2>2. \A i, j \in 1..m : i < j => i # j
    OBVIOUS
  <2>3. DOMAIN id = 1..m /\ \A k \in 1..m : id[k] = k /\ id[k] \in S
    OBVIOUS
  <2> HIDE DEF id, R
  <2> QED
    BY <1>1, <2>1, <2>2, <2>3 DEF Ordered
<1>4. DOMAIN InOrder(S) = DOMAIN id /\ \A k \in DOMAIN id : InOrder(S)[k] = id[k]
  <2> HIDE DEF id, R, S
  <2> QED
    BY <1>1, <1>2, <1>3, OrderedIsOne
<1> HIDE DEF S
<1>5. DOMAIN InOrder(S) = 1..m /\ \A k \in 1..m : InOrder(S)[k] = k
  BY <1>4
<1> QED
  BY <1>5 DEF S

\* What a transcript's plan holds of a turn.
LEMMA TranscriptTexts ==
  ASSUME NEW c \in Commits, NEW turn \in 0..(Len(Texts[c]) - 1)
  PROVE  LET vertices == Source(c).vertices
             chunks == chunkText(Texts[c][turn + 1])
         IN  /\ TurnV(c, turn) \in DOMAIN vertices
             /\ vertices[TurnV(c, turn)] = [text |-> chunks[1], chunks |-> Len(chunks)]
             /\ \A k \in 1..(Len(chunks) - 1) :
                  /\ ChunkV(c, turn, k) \in DOMAIN vertices
                  /\ vertices[ChunkV(c, turn, k)] = [text |-> chunks[k + 1]]
<1> DEFINE chunks == [u \in 0..(Len(Texts[c]) - 1) |-> chunkText(Texts[c][u + 1])]
           turns == DOMAIN chunks
           more == UNION {{<<u, k>> : k \in 1..(Len(chunks[u]) - 1)} : u \in turns}
           scopeF == [v \in {ScopeV} |-> Plain]
           sessionF == [v \in {SessionV(c)} |-> [nTurns |-> Len(Texts[c])]]
           turnF == [v \in {TurnV(c, u) : u \in turns} |->
                       [text |-> chunks[v[3]][1], chunks |-> Len(chunks[v[3]])]]
           chunkF == [v \in {ChunkV(c, at[1], at[2]) : at \in more} |-> [text |-> chunks[v[3]][v[4] + 1]]]
           vertices == Over(scopeF, Over(sessionF, Over(turnF, chunkF)))
<1>1. Source(c).vertices = vertices
  BY DEF Source, planSourceTranscriptWrite
<1>2. turn \in turns /\ chunks[turn] = chunkText(Texts[c][turn + 1])
  OBVIOUS
<1>3. /\ TurnV(c, turn) \notin {ScopeV} /\ TurnV(c, turn) \notin {SessionV(c)}
      /\ TurnV(c, turn)[3] = turn
  BY DEF TurnV, ScopeV, SessionV
<1>4. \A k : /\ ChunkV(c, turn, k) \notin {ScopeV} /\ ChunkV(c, turn, k) \notin {SessionV(c)}
             /\ \A u : ChunkV(c, turn, k) # TurnV(c, u)
             /\ ChunkV(c, turn, k)[3] = turn /\ ChunkV(c, turn, k)[4] = k
  BY DEF TurnV, ScopeV, SessionV, ChunkV
<1> HIDE DEF turns, chunks
<1>5. TurnV(c, turn) \in DOMAIN turnF /\ turnF[TurnV(c, turn)] = [text |-> chunks[turn][1], chunks |-> Len(chunks[turn])]
  BY <1>2, <1>3
<1>6. ASSUME NEW k \in 1..(Len(chunks[turn]) - 1)
      PROVE  /\ ChunkV(c, turn, k) \in DOMAIN chunkF /\ ChunkV(c, turn, k) \notin DOMAIN turnF
             /\ chunkF[ChunkV(c, turn, k)] = [text |-> chunks[turn][k + 1]]
  <2>1. <<turn, k>> \in more
    BY <1>2
  <2>2. ChunkV(c, turn, k) \in {ChunkV(c, at[1], at[2]) : at \in more}
    <3> HIDE DEF more
    <3> QED
      BY <2>1
  <2> HIDE DEF more
  <2> QED
    BY <1>4, <2>2
<1>7. DOMAIN scopeF = {ScopeV} /\ DOMAIN sessionF = {SessionV(c)}
  OBVIOUS
<1> HIDE DEF scopeF, sessionF, turnF, chunkF, more
<1>8. \A v : v \notin {ScopeV} /\ v \notin {SessionV(c)} =>
         /\ v \in DOMAIN vertices <=> v \in DOMAIN turnF \cup DOMAIN chunkF
         /\ v \in DOMAIN turnF => vertices[v] = turnF[v]
         /\ v \notin DOMAIN turnF /\ v \in DOMAIN chunkF => vertices[v] = chunkF[v]
  BY <1>7 DEF Over
<1> HIDE DEF vertices
<1>9. TurnV(c, turn) \in DOMAIN vertices /\ vertices[TurnV(c, turn)] = [text |-> chunks[turn][1], chunks |-> Len(chunks[turn])]
  BY <1>3, <1>5, <1>8
<1>10. \A k \in 1..(Len(chunks[turn]) - 1) :
         /\ ChunkV(c, turn, k) \in DOMAIN vertices
         /\ vertices[ChunkV(c, turn, k)] = [text |-> chunks[turn][k + 1]]
  BY <1>4, <1>6, <1>8
<1> QED
  BY <1>1, <1>2, <1>9, <1>10

\* What the planes hold of a transcript is as its plan has it.
TextInv ==
  \A c \in Commits : \A v \in DOMAIN planes.vertices :
    v \in DOMAIN Source(c).vertices /\ Own(c, v) => planes.vertices[v] = Source(c).vertices[v]

LEMMA TextNext ==
  ASSUME ConsolidationInv, TextInv, [ConsolidationNext]_vars
  PROVE  TextInv'
<1>0. \A c : Source(c)' = Source(c)
  BY DEF Source, planSourceTranscriptWrite
<1>1. CASE planes' = planes
  BY <1>0, <1>1 DEF TextInv
<1>2. ASSUME NEW d \in Commits, StoreTranscript(d) PROVE TextInv'
  <2>1. PICK n : planes' = commitWrites(Source(d), SourceOrder, n)
    BY <1>2 DEF StoreTranscript, Source
  <2>2. Merges(planes', Source(d)) /\ SourceShape(d, Source(d))
    BY <2>1, WritesMerge, TranscriptShape DEF Source
  <2>3. ASSUME NEW c \in Commits, NEW v \in DOMAIN planes'.vertices, v \in DOMAIN Source(c).vertices, Own(c, v)
        PROVE  planes'.vertices[v] = Source(c).vertices[v]
    <3>1. v \in DOMAIN Source(d).vertices => c = d
      BY <2>2, <2>3 DEF SourceShape, Own
    <3> QED
      BY <2>2, <2>3, <3>1 DEF Merges, TextInv
  <2> QED
    BY <1>0, <2>3 DEF TextInv
<1>3. ASSUME NEW d \in Commits, StoreIndex(d) PROVE TextInv'
  <2> DEFINE plan == planIndexGraphWrite(d, artifact'[d])
  <2>1. PICK n : planes' = commitWrites(plan, IndexOrder, n)
    BY <1>3 DEF StoreIndex
  <2>2. ~IndexRejects(d, artifact'[d])
    BY <1>3 DEF StoreIndex
  <2>3. Merges(planes', plan) /\ IndexShape(d, plan)
    BY <2>1, <2>2, WritesMerge, IndexPlanShape
  <2> HIDE DEF plan
  <2>4. ASSUME NEW c \in Commits, NEW v \in DOMAIN planes'.vertices, v \in DOMAIN Source(c).vertices, Own(c, v)
        PROVE  planes'.vertices[v] = Source(c).vertices[v]
    <3>1. SourceShape(c, Source(c))
      BY TranscriptShape DEF Source
    <3>2. v[1] \in SourceLabels
      BY <2>4, <3>1 DEF SourceShape, Own
    <3>3. v \notin DOMAIN plan.vertices
      BY <2>3, <3>2 DEF IndexShape, SourceLabels, IndexLabels
    <3> QED
      BY <2>3, <2>4, <3>3 DEF Merges, TextInv
  <2> QED
    BY <1>0, <2>4 DEF TextInv
<1>4. planes' = planes \/ \E d \in Commits : StoreTranscript(d) \/ StoreIndex(d)
  BY DEF ConsolidationNext, vars, sourceVars, Index, Park, Decide, Enrich, Consolidate, Damage, Verify, Abandon
<1> QED
  BY <1>1, <1>2, <1>3, <1>4

\* A turn that is stored reads back, up to the end of a span, as the text it was.
LEMMA ReadsBack ==
  ASSUME ConsolidationInv, TextInv, NEW c \in Commits, state[c] # "RECEIVED",
         NEW turn \in 0..(Len(Texts[c]) - 1), turn + 1 \in DOMAIN Texts[c],
         NEW cs \in Nat, NEW ce \in Nat, cs < ce, ce <= Len(Texts[c][turn + 1])
  PROVE  SubSeq(ReadTurn(c, turn, ce), cs + 1, ce) = SubSeq(Texts[c][turn + 1], cs + 1, ce)
<1> DEFINE text == Texts[c][turn + 1]
           chunks == chunkText(text)
           stored == planes.vertices[TurnV(c, turn)]
           there == {k \in 1..(stored.chunks - 1) : ChunkV(c, turn, k) \in DOMAIN planes.vertices}
           parts == InOrder(there)
           rest == [k \in DOMAIN parts |-> planes.vertices[ChunkV(c, turn, parts[k])].text]
<1>1. IsSequence(text)
  BY TextsAreShort
<1>2. PICK l \in Nat : l = Len(text) /\ text \in Seq(Range(text))
  BY <1>1, SequenceIs DEF IsSequence
<1>3. PICK n \in Nat : n # 0 /\ n = Parts(text) /\ Len(chunks) = n
  BY <1>1, PartsAre, ChunksAre
<1>4. DOMAIN Source(c).vertices \subseteq DOMAIN planes.vertices
  BY DEF ConsolidationInv, SourceInv, PlaneInv
<1>5. stored = [text |-> chunks[1], chunks |-> n]
  <2>1. Own(c, TurnV(c, turn))
    BY DEF Own, ScopeV, TurnV
  <2> QED
    BY <1>3, <1>4, <2>1, TranscriptTexts DEF TextInv
<1>6. \A k \in 1..(n - 1) : /\ ChunkV(c, turn, k) \in DOMAIN planes.vertices
                            /\ planes.vertices[ChunkV(c, turn, k)].text = chunks[k + 1]
  <2>1. \A k : Own(c, ChunkV(c, turn, k))
    BY DEF Own, ScopeV, ChunkV
  <2>2. \A k \in 1..(n - 1) : /\ ChunkV(c, turn, k) \in DOMAIN Source(c).vertices
                              /\ Source(c).vertices[ChunkV(c, turn, k)] = [text |-> chunks[k + 1]]
    BY <1>3, TranscriptTexts
  <2> TAKE k \in 1..(n - 1)
  <2>3. PICK v : v = ChunkV(c, turn, k)
    OBVIOUS
  <2>4. v \in DOMAIN Source(c).vertices /\ Source(c).vertices[v] = [text |-> chunks[k + 1]] /\ Own(c, v)
    BY <2>1, <2>2, <2>3
  <2>5. v \in DOMAIN planes.vertices /\ planes.vertices[v] = [text |-> chunks[k + 1]]
    BY <1>4, <2>4 DEF TextInv
  <2> QED
    BY <2>3, <2>5
<1>7. ReadTurn(c, turn, ce) = IF ce <= Len(stored.text) \/ stored.chunks <= 1 THEN stored.text
                              ELSE stored.text \o FlattenSeq(rest)
  BY DEF ReadTurn
<1> HIDE DEF chunks, stored
<1>8. CASE n = 1
  <2>1. chunks[1] = SubSeq(text, 1, l)
    <3>1. 1 \in 1..1 /\ (1 - 1) * ChunkBytes + 1 = 1 /\ PartEnd(text, 1) = l
      <4>1. 1 \in 1..1 /\ (1 - 1) * ChunkBytes + 1 = 1
        BY ChunkBytesAssumption
      <4> QED
        BY <1>1, <1>2, <1>3, <1>8, <4>1, PartsAre
    <3>2. chunks[1] = SubSeq(text, (1 - 1) * ChunkBytes + 1, PartEnd(text, 1))
      BY <1>1, <1>3, <1>8, <3>1, ChunksAre DEF chunks
    <3> QED
      BY <3>1, <3>2
  <2>2. chunks[1] = text
    BY <1>2, <2>1, SubSeqFull
  <2>3. ReadTurn(c, turn, ce) = text
    BY <1>5, <1>7, <1>8, <2>2
  <2> QED
    BY <2>3
<1>9. CASE n # 1 /\ ce <= Len(chunks[1])
  <2>1. chunks[1] = SubSeq(text, 1, ChunkBytes) /\ ChunkBytes \in Nat \ {0} /\ ChunkBytes <= l
    <3>1. 1 \in 1..n /\ 2 \in 1..n /\ 2 > 1 /\ 2 - 1 = 1
      BY <1>3, <1>9
    <3>2. ChunkBytes \in Nat \ {0} /\ (1 - 1) * ChunkBytes + 1 = 1 /\ 1 * ChunkBytes = ChunkBytes
      BY ChunkBytesAssumption
    <3>3. PartEnd(text, 1) = 1 * ChunkBytes /\ PartEnd(text, 1) <= l
      BY <1>1, <1>2, <1>3, <3>1, PartsAre
    <3>4. chunks[1] = SubSeq(text, (1 - 1) * ChunkBytes + 1, PartEnd(text, 1))
      BY <1>1, <1>3, <3>1, ChunksAre DEF chunks
    <3> QED
      BY <3>2, <3>3, <3>4
  <2>2. Len(chunks[1]) = ChunkBytes
    <3>1. Len(SubSeq(text, 1, ChunkBytes)) = ChunkBytes - 1 + 1
      BY <1>1, <1>2, <2>1, SliceIs
    <3> QED
      BY <2>1, <3>1
  <2>3. ReadTurn(c, turn, ce) = chunks[1]
    BY <1>5, <1>7, <1>9
  <2>4. /\ 1 \in 1..l /\ ChunkBytes \in 1..l
        /\ cs + 1 \in 1..(ChunkBytes - 1 + 1) /\ ce \in 1..(ChunkBytes - 1 + 1)
        /\ 1 + (cs + 1) - 1 = cs + 1 /\ 1 + ce - 1 = ce
    BY <1>2, <1>9, <2>1, <2>2
  <2>5. SubSeq(SubSeq(text, 1, ChunkBytes), cs + 1, ce) = SubSeq(text, 1 + (cs + 1) - 1, 1 + ce - 1)
    BY <1>2, <2>4, SubSeqOfSubSeq
  <2> QED
    BY <2>1, <2>3, <2>4, <2>5
<1>10. CASE n # 1 /\ ~(ce <= Len(chunks[1]))
  <2>1. PICK m \in Nat : m = n - 1
    BY <1>3
  <2>2. there = 1..m
    BY <1>5, <1>6, <2>1
  <2>3. DOMAIN parts = 1..m /\ \A k \in 1..m : parts[k] = k
    BY <2>2, InOrderOfRange
  <2> HIDE DEF there, parts
  <2>4. rest = [k \in 1..(Parts(text) - 1) |-> chunkText(text)[k + 1]]
    BY <1>3, <1>6, <2>1, <2>3 DEF chunks
  <2>5. Parts(text) > 1
    BY <1>3, <1>10
  <2> HIDE DEF rest
  <2>6. chunks[1] \o FlattenSeq(rest) = text
    BY <1>1, <2>4, <2>5, PartsMakeTheText DEF chunks
  <2>7. ReadTurn(c, turn, ce) = text
    <3>1. stored.text = chunks[1] /\ stored.chunks = n
      BY <1>5
    <3>2. ~(n <= 1)
      BY <1>3, <1>10
    <3>3. ~(ce <= Len(stored.text) \/ stored.chunks <= 1)
      BY <1>10, <3>1, <3>2
    <3>4. ReadTurn(c, turn, ce) = stored.text \o FlattenSeq(rest)
      BY <1>7, <3>3
    <3> QED
      BY <2>6, <3>1, <3>4
  <2> QED
    BY <2>7
<1> QED
  BY <1>8, <1>9, <1>10

\* The claims of a revision are what was extracted from something the model may say of it.
QuoteInv ==
  \A c \in Commits : ~Unextracted(c) =>
    \E raw \in RawExtractions[c] : \A k \in DOMAIN artifact[c] : SaidIn(Texts[c], raw, artifact[c][k])

LEMMA QuoteNext ==
  ASSUME ConsolidationInv, QuoteInv, [ConsolidationNext]_vars
  PROVE  QuoteInv'
<1> SUFFICES ASSUME NEW c \in Commits, ~Unextracted(c)'
             PROVE  \E raw \in RawExtractions[c] :
                      \A k \in DOMAIN artifact'[c] : SaidIn(Texts[c], raw, artifact'[c][k])
  BY DEF QuoteInv
<1>1. CASE ~Unextracted(c) /\ artifact'[c] = artifact[c]
  BY <1>1 DEF QuoteInv
<1>2. CASE \E raw \in RawExtractions[c] : artifact'[c] = extractSession(Texts[c], raw)
  BY <1>2, ExtractedQuote
<1> QED
  BY <1>1, <1>2, ArtifactsStay

\* What is extracted of any reply can be indexed: the index plan's checks of a claim's turn and
\* span never refuse what extractSession made (Extract.ts, IndexGraph.ts).
THEOREM ExtractedIsAccepted ==
  \A c \in Commits : \A raw \in RawExtractions[c] : ~IndexRejects(c, extractSession(Texts[c], raw))
<1> SUFFICES ASSUME NEW c \in Commits, NEW raw \in RawExtractions[c],
                    NEW k \in DOMAIN extractSession(Texts[c], raw)
             PROVE  LET claim == extractSession(Texts[c], raw)[k]
                    IN  ~(\/ claim.turn \notin 0..(Len(Texts[c]) - 1)
                          \/ claim.cs < 0 \/ claim.ce <= claim.cs \/ claim.ce > Len(Texts[c][claim.turn + 1]))
  BY DEF IndexRejects
<1>1. PICK claim : claim = extractSession(Texts[c], raw)[k]
  OBVIOUS
<1>2. SaidIn(Texts[c], raw, claim)
  BY <1>1, ExtractedQuote
<1>3. PICK cs \in Nat, ce \in Nat : cs = claim.cs /\ ce = claim.ce /\ cs < ce
  BY <1>2 DEF SaidIn, Quotes
<1>4. claim.turn \in 0..(Len(Texts[c]) - 1) /\ claim.turn + 1 \in DOMAIN Texts[c] /\ ce <= Len(Texts[c][claim.turn + 1])
  BY <1>2, <1>3 DEF SaidIn, Quotes
<1>5. PICK l \in Nat : l = Len(Texts[c][claim.turn + 1])
  BY <1>4, TextsAreShort, SequenceIs
<1>6. ~(cs < 0) /\ ~(ce <= cs) /\ ~(ce > l)
  BY <1>3, <1>4, <1>5
<1> QED
  BY <1>1, <1>3, <1>4, <1>5, <1>6

\* What is read back of the stored transcript at a claim's span has the letters of the
\* words the model quoted for that claim: for any texts, replies, white space, markdown and
\* size of a vertex, and however often the stages were cut short (Extract.ts, SourceTranscript.ts).
THEOREM EvidenceHolds == ConsolidationSpec => []EvidenceCanBeQuoted
<1>1. ConsolidationInit => TextInv /\ QuoteInv
  BY DEF ConsolidationInit, SourceInit, EmptyGraph, TextInv, QuoteInv, Unextracted
<1>2. ConsolidationInv /\ TextInv /\ QuoteInv => EvidenceCanBeQuoted
  <2> SUFFICES ASSUME ConsolidationInv, TextInv, QuoteInv, NEW c \in Commits, ~Unextracted(c)
               PROVE  /\ ~IndexRejects(c, artifact[c])
                      /\ \A k \in DOMAIN artifact[c] :
                           LET claim == artifact[c][k]
                               quoted == SubSeq(ReadTurn(c, claim.turn, claim.ce), claim.cs + 1, claim.ce)
                           IN  \E raw \in RawExtractions[c] : \E j \in DOMAIN raw :
                                 /\ raw[j].text = claim.text /\ raw[j].turn = claim.turn
                                 /\ Letters(raw[j].quote) = Letters(quoted)
    BY DEF EvidenceCanBeQuoted
  <2>1. ~IndexRejects(c, artifact[c]) /\ state[c] # "RECEIVED"
    BY DEF ConsolidationInv, SourceInv, PlaneInv
  <2>2. PICK raw \in RawExtractions[c] : \A k \in DOMAIN artifact[c] : SaidIn(Texts[c], raw, artifact[c][k])
    BY DEF QuoteInv
  <2>3. ASSUME NEW k \in DOMAIN artifact[c]
        PROVE  \E j \in DOMAIN raw :
                 /\ raw[j].text = artifact[c][k].text /\ raw[j].turn = artifact[c][k].turn
                 /\ Letters(raw[j].quote)
                      = Letters(SubSeq(ReadTurn(c, artifact[c][k].turn, artifact[c][k].ce), artifact[c][k].cs + 1, artifact[c][k].ce))
    <3>1. PICK turn, cs, ce : turn = artifact[c][k].turn /\ cs = artifact[c][k].cs /\ ce = artifact[c][k].ce
      OBVIOUS
    <3>2. PICK j \in DOMAIN raw : /\ turn = raw[j].turn /\ artifact[c][k].text = raw[j].text
                                  /\ turn \in 0..(Len(Texts[c]) - 1) /\ turn + 1 \in DOMAIN Texts[c]
                                  /\ Quotes(Texts[c][turn + 1], raw[j].quote, cs, ce)
      BY <2>2, <3>1 DEF SaidIn
    <3>3. /\ cs \in Nat /\ ce \in Nat /\ cs < ce /\ ce <= Len(Texts[c][turn + 1])
          /\ Letters(SubSeq(Texts[c][turn + 1], cs + 1, ce)) = Letters(raw[j].quote)
      BY <3>2 DEF Quotes
    <3>4. SubSeq(ReadTurn(c, turn, ce), cs + 1, ce) = SubSeq(Texts[c][turn + 1], cs + 1, ce)
      BY <2>1, <3>2, <3>3, ReadsBack
    <3> QED
      BY <3>1, <3>2, <3>3, <3>4
  <2> QED
    BY <2>1, <2>3
<1>3. ConsolidationInv /\ TextInv /\ QuoteInv /\ [ConsolidationNext]_vars => (TextInv /\ QuoteInv)'
  BY TextNext, QuoteNext
<1> QED
  BY <1>1, <1>2, <1>3, InvInit, InvNext, PTL DEF ConsolidationSpec

-----------------------------------------------------------------------------
(***************************************************************************)
(* The groups of identities: joining the ends of every link, in whatever    *)
(* order, makes the classes of those that match keys connect.               *)
(***************************************************************************)

\* Which of a set's links is taken first.
PickOf(t) == CHOOSE x \in t : TRUE

Joined(g, t, base) == IF t = {} THEN base ELSE union(g[t \ {PickOf(t)}], PickOf(t))

\* A set without the one taken first is one smaller.
LEMMA WithoutPick ==
  ASSUME NEW t, IsFiniteSet(t), t # {}
  PROVE  /\ PickOf(t) \in t /\ IsFiniteSet(t \ {PickOf(t)}) /\ Cardinality(t) \in Nat
         /\ Cardinality(t \ {PickOf(t)}) \in Nat /\ Cardinality(t) = Cardinality(t \ {PickOf(t)}) + 1
<1>1. PickOf(t) \in t
  BY DEF PickOf
<1> HIDE DEF PickOf
<1>2. /\ IsFiniteSet(t \ {PickOf(t)}) /\ Cardinality(t) \in Nat
      /\ Cardinality(t \ {PickOf(t)}) = Cardinality(t) - 1
  BY <1>1, FS_RemoveElement, FS_CardinalityType
<1>3. Cardinality(t \ {PickOf(t)}) \in Nat
  BY <1>2, FS_CardinalityType
<1> QED
  BY <1>1, <1>2, <1>3

\* A set of numbers that has zero, and after each the next, has them all.
LEMMA NumbersAreCovered ==
  ASSUME NEW P, 0 \in P, \A n \in Nat : n \in P => n + 1 \in P
  PROVE  Nat \subseteq P
<1> DEFINE S == {n \in Nat : n \notin P}
<1>1. SUFFICES ASSUME S # {} PROVE FALSE
  OBVIOUS
<1>2. PICK x \in S : \A y \in S : x <= y
  <2>1. S \in SUBSET Nat
    OBVIOUS
  <2> HIDE DEF S
  <2> QED
    BY <1>1, <2>1, LeastOf
<1>3. x # 0 /\ x - 1 \in Nat /\ (x - 1) + 1 = x
  BY <1>2
<1>4. x - 1 \in P
  BY <1>2, <1>3
<1> QED
  BY <1>2, <1>3, <1>4

\* What holds of no links, and of some when it holds of them without the first, holds of all.
LEMMA LinksAreCovered ==
  ASSUME NEW E, IsFiniteSet(E), NEW Q, {} \in Q,
         \A t \in SUBSET E : t # {} /\ t \ {PickOf(t)} \in Q => t \in Q
  PROVE  SUBSET E \subseteq Q
<1> DEFINE P == {n \in Nat : \A t \in SUBSET E : Cardinality(t) = n => t \in Q}
<1>1. \A t \in SUBSET E : IsFiniteSet(t) /\ Cardinality(t) \in Nat
  BY FS_Subset, FS_CardinalityType
<1>2. 0 \in P
  BY <1>1, FS_EmptySet
<1>3. ASSUME NEW n \in P PROVE n + 1 \in P
  <2> SUFFICES ASSUME NEW t \in SUBSET E, Cardinality(t) = n + 1 PROVE t \in Q
    OBVIOUS
  <2>1. t # {}
    BY FS_EmptySet
  <2>2. t \ {PickOf(t)} \in SUBSET E /\ Cardinality(t \ {PickOf(t)}) \in Nat
        /\ Cardinality(t) = Cardinality(t \ {PickOf(t)}) + 1
    BY <1>1, <2>1, WithoutPick
  <2>3. Cardinality(t \ {PickOf(t)}) = n
    BY <2>2
  <2> QED
    BY <2>1, <2>2, <2>3
<1>4. Nat \subseteq P
  <2> HIDE DEF P
  <2>1. \A n \in Nat : n \in P => n + 1 \in P
    BY <1>3
  <2> QED
    BY <1>2, <2>1, NumbersAreCovered
<1> QED
  BY <1>1, <1>4

\* There is a function that joins the links of every set of them.
LEMMA JoiningExists ==
  ASSUME NEW E, IsFiniteSet(E), NEW base
  PROVE  \E g : DOMAIN g = SUBSET E /\ \A t \in SUBSET E : g[t] = Joined(g, t, base)
<1> DEFINE Upto(g, n) == DOMAIN g = SUBSET E /\ \A t \in SUBSET E : Cardinality(t) <= n => g[t] = Joined(g, t, base)
           P == {n \in Nat : \E g : Upto(g, n)}
<1>1. \A t \in SUBSET E : IsFiniteSet(t) /\ Cardinality(t) \in Nat
  BY FS_Subset, FS_CardinalityType
<1>2. 0 \in P
  <2> DEFINE g == [t \in SUBSET E |-> base]
  <2>1. \A t \in SUBSET E : Cardinality(t) <= 0 => t = {}
    BY <1>1, FS_EmptySet
  <2>2. Upto(g, 0)
    BY <2>1 DEF Joined
  <2> HIDE DEF g
  <2> QED
    BY <2>2
<1>3. ASSUME NEW n \in P PROVE n + 1 \in P
  <2>1. PICK g : Upto(g, n)
    OBVIOUS
  <2> DEFINE h == [t \in SUBSET E |-> IF Cardinality(t) <= n THEN g[t] ELSE Joined(g, t, base)]
  <2>2. ASSUME NEW t \in SUBSET E, Cardinality(t) <= n + 1 PROVE h[t] = Joined(h, t, base)
    <3>1. CASE t = {}
      <4>1. Joined(g, t, base) = base /\ Joined(h, t, base) = base
        BY <3>1 DEF Joined
      <4>2. Cardinality(t) <= n
        BY <3>1, FS_EmptySet
      <4> HIDE DEF h
      <4>3. h[t] = g[t]
        BY <4>2 DEF h
      <4> QED
        BY <2>1, <4>1, <4>2, <4>3
    <3>2. CASE t # {}
      <4> DEFINE s == t \ {PickOf(t)}
      <4>1. s \in SUBSET E /\ Cardinality(s) \in Nat /\ Cardinality(t) = Cardinality(s) + 1
        BY <1>1, <3>2, WithoutPick
      <4> HIDE DEF s
      <4>2. Cardinality(s) <= n
        BY <2>2, <4>1
      <4>3. h[s] = g[s]
        BY <4>1, <4>2
      <4>4. Joined(g, t, base) = union(g[s], PickOf(t)) /\ Joined(h, t, base) = union(h[s], PickOf(t))
        BY <3>2 DEF Joined, s
      <4>5. h[t] = Joined(g, t, base)
        BY <2>1
      <4> QED
        BY <4>3, <4>4, <4>5
    <3> QED
      BY <3>1, <3>2
  <2>3. DOMAIN h = SUBSET E
    OBVIOUS
  <2> HIDE DEF h
  <2> QED
    BY <2>2, <2>3
<1>4. Nat \subseteq P
  <2> HIDE DEF P
  <2>1. \A n \in Nat : n \in P => n + 1 \in P
    BY <1>3
  <2> QED
    BY <1>2, <2>1, NumbersAreCovered
<1>5. PICK g : Upto(g, Cardinality(E))
  <2>1. Cardinality(E) \in P
    BY <1>1, <1>4
  <2> QED
    BY <2>1
<1>6. \A t \in SUBSET E : Cardinality(t) <= Cardinality(E)
  BY FS_Subset
<1> QED
  BY <1>5, <1>6

\* The groups are the join of all links.
LEMMA GroupsAreJoined ==
  ASSUME NEW ids, IsFiniteSet(matchKeyEquivalences(ids))
  PROVE  \E f : /\ \A t \in SUBSET matchKeyEquivalences(ids) : f[t] = Joined(f, t, {{i} : i \in ids})
                /\ groupsOf(ids) = f[matchKeyEquivalences(ids)]
<1> DEFINE E == matchKeyEquivalences(ids)
           base == {{i} : i \in ids}
           f == CHOOSE g : g = [s \in SUBSET E |-> IF s = {} THEN base
                                                   ELSE union(g[s \ {CHOOSE x \in s : TRUE}], CHOOSE x \in s : TRUE)]
<1>1. groupsOf(ids) = f[E]
  BY DEF groupsOf, FoldSet, MapThenFoldSet
<1>2. \E g : g = [s \in SUBSET E |-> IF s = {} THEN base
                                     ELSE union(g[s \ {CHOOSE x \in s : TRUE}], CHOOSE x \in s : TRUE)]
  <2>1. PICK g : DOMAIN g = SUBSET E /\ \A t \in SUBSET E : g[t] = Joined(g, t, base)
    BY JoiningExists
  <2> DEFINE h == [t \in SUBSET E |-> g[t]]
  <2>2. \A t \in SUBSET E : h[t] = Joined(h, t, base)
    <3> TAKE t \in SUBSET E
    <3>1. t \ {PickOf(t)} \in SUBSET E
      OBVIOUS
    <3>2. Joined(h, t, base) = Joined(g, t, base)
      BY <3>1 DEF Joined
    <3> QED
      BY <2>1, <3>2
  <2>3. h = [t \in SUBSET E |-> h[t]]
    OBVIOUS
  <2> HIDE DEF h
  <2>4. h = [s \in SUBSET E |-> IF s = {} THEN base
                                ELSE union(h[s \ {CHOOSE x \in s : TRUE}], CHOOSE x \in s : TRUE)]
    BY <2>2, <2>3 DEF Joined, PickOf
  <2> QED
    BY <2>4
<1>3. f = [s \in SUBSET E |-> IF s = {} THEN base
                              ELSE union(f[s \ {CHOOSE x \in s : TRUE}], CHOOSE x \in s : TRUE)]
  BY <1>2
<1> HIDE DEF f, E, base
<1>4. \A t \in SUBSET E : f[t] = Joined(f, t, base)
  BY <1>3 DEF Joined, PickOf
<1> QED
  BY <1>1, <1>4 DEF E, base

\* Each identity is in one group, and a group has only identities.
Partition(groups, ids) ==
  /\ groups \subseteq SUBSET ids
  /\ \A i \in ids : \E g \in groups : i \in g
  /\ \A g, h \in groups : \A i \in ids : i \in g /\ i \in h => g = h

LEMMA GroupIs ==
  ASSUME NEW groups, NEW ids, Partition(groups, ids), NEW i \in ids
  PROVE  /\ GroupOf(groups, i) \in groups /\ i \in GroupOf(groups, i)
         /\ \A g \in groups : i \in g => g = GroupOf(groups, i)
BY DEF Partition, GroupOf

LEMMA UnionIs ==
  ASSUME NEW groups, NEW ids, Partition(groups, ids), NEW e, e[1] \in ids, e[2] \in ids
  PROVE  /\ Partition(union(groups, e), ids)
         /\ \E h \in union(groups, e) : e[1] \in h /\ e[2] \in h
         /\ \A g \in groups : \E h \in union(groups, e) : g \subseteq h
         /\ \A h \in union(groups, e) :
              h \in groups \/ \E g, k \in groups : e[1] \in g /\ e[2] \in k /\ h = g \cup k
<1> DEFINE left == GroupOf(groups, e[1])
           right == GroupOf(groups, e[2])
<1>1. left \in groups /\ right \in groups /\ e[1] \in left /\ e[2] \in right
  BY GroupIs
<1>2. union(groups, e) = (groups \ {left, right}) \cup {left \cup right}
  BY DEF union
<1> HIDE DEF left, right
<1>3. Partition(union(groups, e), ids)
  <2>1. union(groups, e) \subseteq SUBSET ids
    BY <1>1, <1>2 DEF Partition
  <2>2. ASSUME NEW i \in ids PROVE \E g \in union(groups, e) : i \in g
    <3>1. PICK g \in groups : i \in g
      BY DEF Partition
    <3>2. CASE g \in {left, right}
      BY <1>2, <3>1, <3>2
    <3>3. CASE g \notin {left, right}
      BY <1>2, <3>1, <3>3
    <3> QED
      BY <3>2, <3>3
  <2>3. ASSUME NEW g \in union(groups, e), NEW h \in union(groups, e), NEW i \in ids, i \in g, i \in h
        PROVE  g = h
    <3>1. \A k \in groups : i \in k /\ i \in left \cup right => k = left \/ k = right
      BY <1>1 DEF Partition
    <3>2. (g \in groups /\ g # left /\ g # right) \/ g = left \cup right
      BY <1>2
    <3>3. (h \in groups /\ h # left /\ h # right) \/ h = left \cup right
      BY <1>2
    <3>4. g \in groups /\ h \in groups => g = h
      BY <2>3 DEF Partition
    <3> QED
      BY <2>3, <3>1, <3>2, <3>3, <3>4
  <2> QED
    BY <2>1, <2>2, <2>3 DEF Partition
<1>4. \E h \in union(groups, e) : e[1] \in h /\ e[2] \in h
  BY <1>1, <1>2
<1>5. \A g \in groups : \E h \in union(groups, e) : g \subseteq h
  <2> TAKE g \in groups
  <2>1. CASE g \in {left, right}
    BY <1>2, <2>1
  <2>2. CASE g \notin {left, right}
    BY <1>2, <2>2
  <2> QED
    BY <2>1, <2>2
<1>6. \A h \in union(groups, e) :
        h \in groups \/ \E g, k \in groups : e[1] \in g /\ e[2] \in k /\ h = g \cup k
  BY <1>1, <1>2
<1> QED
  BY <1>3, <1>4, <1>5, <1>6

\* A set of identities that no match key leaves.
Closed(s, ids) == s \subseteq ids /\ \A a \in s, b \in ids \ s : matchKeys(a) \cap matchKeys(b) = {}

LEMMA LinksAre ==
  ASSUME NEW ids \in SUBSET Nat, NEW e \in matchKeyEquivalences(ids)
  PROVE  e[1] \in ids /\ e[2] \in ids /\ \A s : Closed(s, ids) => (e[1] \in s <=> e[2] \in s)
<1>1. e[1] \in ids /\ e[2] \in ids /\ matchKeys(e[1]) \cap matchKeys(e[2]) # {}
  BY DEF matchKeyEquivalences
<1>2. matchKeys(e[2]) \cap matchKeys(e[1]) # {}
  BY <1>1
<1> QED
  BY <1>1, <1>2 DEF Closed

\* Groups that hold the ends of some links together and of no set that keys do not leave a part.
Grouped(groups, ids, t) ==
  /\ Partition(groups, ids)
  /\ \A e \in t : \E g \in groups : e[1] \in g /\ e[2] \in g
  /\ \A s : Closed(s, ids) => \A g \in groups : g \subseteq s \/ g \cap s = {}

LEMMA SinglesAreGrouped ==
  ASSUME NEW ids PROVE Grouped({{i} : i \in ids}, ids, {})
<1> DEFINE base == {{i} : i \in ids}
<1>1. Partition(base, ids)
  <2>1. base \subseteq SUBSET ids
    OBVIOUS
  <2>2. \A i \in ids : \E g \in base : i \in g
    OBVIOUS
  <2>3. \A g, h \in base : \A i \in ids : i \in g /\ i \in h => g = h
    OBVIOUS
  <2> QED
    BY <2>1, <2>2, <2>3 DEF Partition
<1>2. \A s : \A g \in base : g \subseteq s \/ g \cap s = {}
  OBVIOUS
<1> QED
  BY <1>1, <1>2 DEF Grouped

LEMMA UnionIsGrouped ==
  ASSUME NEW ids \in SUBSET Nat, NEW groups, NEW t, Grouped(groups, ids, t), NEW e \in matchKeyEquivalences(ids)
  PROVE  Grouped(union(groups, e), ids, t \cup {e})
<1> DEFINE new == union(groups, e)
<1>1. e[1] \in ids /\ e[2] \in ids /\ \A s : Closed(s, ids) => (e[1] \in s <=> e[2] \in s)
  BY LinksAre
<1>2. /\ Partition(new, ids)
      /\ \E h \in new : e[1] \in h /\ e[2] \in h
      /\ \A g \in groups : \E h \in new : g \subseteq h
      /\ \A h \in new :
           h \in groups \/ \E g, k \in groups : e[1] \in g /\ e[2] \in k /\ h = g \cup k
  BY <1>1, UnionIs DEF Grouped
<1> HIDE DEF new
<1>3. ASSUME NEW d \in t \cup {e} PROVE \E h \in new : d[1] \in h /\ d[2] \in h
  <2>1. CASE d = e
    BY <1>2, <2>1
  <2>2. CASE d \in t
    <3>1. PICK g \in groups : d[1] \in g /\ d[2] \in g
      BY <2>2 DEF Grouped
    <3> QED
      BY <1>2, <3>1
  <2> QED
    BY <2>1, <2>2
<1>4. ASSUME NEW s, Closed(s, ids), NEW h \in new PROVE h \subseteq s \/ h \cap s = {}
  <2>1. CASE h \in groups
    BY <1>4, <2>1 DEF Grouped
  <2>2. ASSUME NEW g \in groups, NEW k \in groups, e[1] \in g, e[2] \in k, h = g \cup k
        PROVE  h \subseteq s \/ h \cap s = {}
    <3>1. (g \subseteq s \/ g \cap s = {}) /\ (k \subseteq s \/ k \cap s = {})
      BY <1>4 DEF Grouped
    <3>2. e[1] \in s <=> e[2] \in s
      BY <1>1, <1>4
    <3> QED
      BY <2>2, <3>1, <3>2
  <2> QED
    BY <1>2, <2>1, <2>2
<1> QED
  BY <1>2, <1>3, <1>4 DEF Grouped, new

LEMMA LinksAreFinite ==
  ASSUME NEW ids, IsFiniteSet(ids)
  PROVE  IsFiniteSet(matchKeyEquivalences(ids))
<1>1. IsFiniteSet(ids \X ids)
  BY FS_Product
<1>2. matchKeyEquivalences(ids) \subseteq ids \X ids
  BY DEF matchKeyEquivalences
<1> QED
  BY <1>1, <1>2, FS_Subset

LEMMA GroupsAreGrouped ==
  ASSUME NEW ids \in SUBSET Nat, IsFiniteSet(ids)
  PROVE  Grouped(groupsOf(ids), ids, matchKeyEquivalences(ids))
<1> DEFINE E == matchKeyEquivalences(ids)
           base == {{i} : i \in ids}
<1>1. IsFiniteSet(E)
  BY LinksAreFinite
<1>2. PICK f : /\ \A t \in SUBSET E : f[t] = Joined(f, t, base)
               /\ groupsOf(ids) = f[E]
  BY <1>1, GroupsAreJoined
<1> DEFINE Q == {t \in SUBSET E : Grouped(f[t], ids, t)}
<1>3. {} \in Q
  <2>1. f[{}] = base
    BY <1>2 DEF Joined
  <2> QED
    BY <2>1, SinglesAreGrouped
<1> HIDE DEF base
<1>4. ASSUME NEW t \in SUBSET E, t # {}, t \ {PickOf(t)} \in Q PROVE t \in Q
  <2>1. PickOf(t) \in t /\ t = (t \ {PickOf(t)}) \cup {PickOf(t)}
    BY <1>4 DEF PickOf
  <2>2. Grouped(f[t \ {PickOf(t)}], ids, t \ {PickOf(t)})
    BY <1>4
  <2>3. PickOf(t) \in E
    BY <2>1
  <2>4. f[t] = union(f[t \ {PickOf(t)}], PickOf(t))
    BY <1>2, <1>4 DEF Joined
  <2>5. Grouped(f[t], ids, (t \ {PickOf(t)}) \cup {PickOf(t)})
    BY <2>2, <2>3, <2>4, UnionIsGrouped
  <2>6. Grouped(f[t], ids, t)
    BY <2>1, <2>5
  <2> QED
    BY <2>6
<1>5. SUBSET E \subseteq Q
  <2>1. \A t \in SUBSET E : t # {} /\ t \ {PickOf(t)} \in Q => t \in Q
    BY <1>4
  <2> HIDE DEF Q, E
  <2> QED
    BY <1>1, <1>3, <2>1, LinksAreCovered
<1>6. E \in Q
  BY <1>5
<1> QED
  BY <1>2, <1>6

\* No match key leaves a group.
LEMMA GroupsAreClosed ==
  ASSUME NEW ids \in SUBSET Nat, IsFiniteSet(ids), NEW g \in groupsOf(ids)
  PROVE  Closed(g, ids)
<1> DEFINE E == matchKeyEquivalences(ids)
<1>1. Grouped(groupsOf(ids), ids, E)
  BY GroupsAreGrouped
<1>2. g \subseteq ids
  BY <1>1 DEF Grouped, Partition
<1>3. ASSUME NEW a \in g, NEW b \in ids \ g, NEW key \in matchKeys(a) \cap matchKeys(b) PROVE FALSE
  <2> DEFINE S == {j \in ids : key \in matchKeys(j)}
  <2>1. S \in SUBSET Nat /\ a \in S /\ b \in S
    BY <1>2, <1>3
  <2>2. PICK m \in S : \A j \in S : m <= j
    <3> HIDE DEF S
    <3> QED
      BY <2>1, LeastOf
  <2>3. \A j \in S : m = j \/ <<m, j>> \in E
    <3> TAKE j \in S
    <3>1. m <= j /\ m \in Nat /\ j \in Nat /\ m \in ids /\ j \in ids
      BY <2>1, <2>2
    <3>2. key \in matchKeys(m) \cap matchKeys(j) /\ \A i \in ids : key \in matchKeys(i) => m <= i
      BY <2>2
    <3>3. m = j \/ m < j
      BY <3>1
    <3> QED
      BY <3>1, <3>2, <3>3 DEF matchKeyEquivalences
  <2>4. \A j \in S : \E h \in groupsOf(ids) : m \in h /\ j \in h
    <3> TAKE j \in S
    <3>1. CASE m = j
      BY <1>1, <3>1 DEF Grouped, Partition
    <3>2. CASE <<m, j>> \in E
      <4>1. PICK h \in groupsOf(ids) : <<m, j>>[1] \in h /\ <<m, j>>[2] \in h
        BY <1>1, <3>2 DEF Grouped
      <4> QED
        BY <4>1
    <3> QED
      BY <2>3, <3>1, <3>2
  <2>5. PICK h \in groupsOf(ids) : m \in h /\ a \in h
    BY <2>1, <2>4
  <2>6. PICK k \in groupsOf(ids) : m \in k /\ b \in k
    BY <2>1, <2>4
  <2>7. m \in ids /\ a \in ids
    BY <1>2, <2>2
  <2>8. h = k /\ h = g
    BY <1>1, <2>5, <2>6, <2>7 DEF Grouped, Partition
  <2> QED
    BY <1>3, <2>6, <2>8
<1> QED
  BY <1>2, <1>3 DEF Closed

\* A group is all that match keys lead to from any of its members.
LEMMA GroupsAreKin ==
  ASSUME NEW ids \in SUBSET Nat, IsFiniteSet(ids), NEW i \in ids
  PROVE  GroupOf(groupsOf(ids), i) = Kin(ids)[i]
<1> DEFINE g == GroupOf(groupsOf(ids), i)
           closed == {s \in SUBSET ids : \A a \in s, b \in ids \ s : matchKeys(a) \cap matchKeys(b) = {}}
<1>1. Grouped(groupsOf(ids), ids, matchKeyEquivalences(ids))
  BY GroupsAreGrouped
<1>2. g \in groupsOf(ids) /\ i \in g
  BY <1>1, GroupIs DEF Grouped
<1>3. Closed(g, ids)
  BY <1>2, GroupsAreClosed
<1>4. \A s : s \in closed <=> Closed(s, ids)
  BY DEF Closed
<1>5. Kin(ids)[i] = {j \in ids : \A s \in closed : i \in s => j \in s}
  BY DEF Kin
<1> HIDE DEF g, closed
<1>6. Kin(ids)[i] \subseteq g
  BY <1>2, <1>3, <1>4, <1>5
<1>7. g \subseteq Kin(ids)[i]
  <2>1. g \subseteq ids
    BY <1>3 DEF Closed
  <2>2. \A s \in closed : i \in s => g \subseteq s
    BY <1>1, <1>2, <1>4 DEF Grouped
  <2> QED
    BY <1>5, <2>1, <2>2
<1> QED
  BY <1>6, <1>7 DEF g

-----------------------------------------------------------------------------
(***************************************************************************)
(* The canonical view.                                                     *)
(***************************************************************************)

\* Of identities one has the least canon, the lowest of those of that canon.
LEMMA CanonicalIs ==
  ASSUME NEW g \in SUBSET Identities, g # {}
  PROVE  canonicalOf(g) \in g /\ \A j \in g : Entities[canonicalOf(g)].canon <= Entities[j].canon
<1>1. \A i \in g : Entities[i].canon \in Nat /\ i \in Nat
  BY EntitiesAreContentAddressed DEF Identities
<1> DEFINE C == {Entities[i].canon : i \in g}
<1>2. C \in SUBSET Nat /\ C # {}
  BY <1>1
<1>3. PICK x \in C : \A y \in C : x <= y
  <2> HIDE DEF C
  <2> QED
    BY <1>2, LeastOf
<1> DEFINE S == {i \in g : Entities[i].canon = x}
<1>4. S \in SUBSET Nat /\ S # {}
  BY <1>1
<1>5. PICK i \in S : \A j \in S : i <= j
  <2> HIDE DEF S
  <2> QED
    BY <1>4, LeastOf
<1>6. i \in g /\ Entities[i].canon = x
  OBVIOUS
<1>7. ASSUME NEW j \in g PROVE compareIdentity(i, j)
  <2>1. x <= Entities[j].canon /\ x \in Nat /\ Entities[j].canon \in Nat
    BY <1>1, <1>2, <1>3
  <2>2. Entities[j].canon = x => i <= j
    BY <1>5
  <2>3. x < Entities[j].canon \/ Entities[j].canon = x
    BY <2>1
  <2> QED
    BY <1>6, <2>2, <2>3 DEF compareIdentity
<1>8. canonicalOf(g) \in g /\ \A j \in g : compareIdentity(canonicalOf(g), j)
  BY <1>6, <1>7 DEF canonicalOf
<1>9. ASSUME NEW j \in g PROVE Entities[canonicalOf(g)].canon <= Entities[j].canon
  <2>1. PICK k \in g : k = canonicalOf(g) /\ compareIdentity(k, j)
    BY <1>8
  <2> QED
    BY <1>1, <2>1 DEF compareIdentity
<1> QED
  BY <1>8, <1>9

\* The view of some identities resolves them as kin, to the least.
LEMMA ViewIs ==
  ASSUME NEW ids \in SUBSET Identities
  PROVE  LET view == createEntityCanonicalView(ids)  kin == Kin(ids)
         IN  /\ DOMAIN view = ids
             /\ \A i \in ids :
                  /\ {j \in ids : view[j] = view[i]} = kin[i]
                  /\ view[i] \in kin[i] /\ view[i] \in ids
                  /\ \A j \in kin[i] : Entities[view[i]].canon <= Entities[j].canon
<1> DEFINE view == createEntityCanonicalView(ids)
           kin == Kin(ids)
           groups == groupsOf(ids)
<1>1. ids \in SUBSET Nat /\ IsFiniteSet(ids)
  <2>1. IsFiniteSet(Identities) /\ Identities \in SUBSET Nat
    BY EntitiesAreContentAddressed, FS_Interval DEF Identities
  <2> QED
    BY <2>1, FS_Subset
<1>2. DOMAIN view = ids /\ \A i \in ids : view[i] = canonicalOf(GroupOf(groups, i))
  BY DEF createEntityCanonicalView
<1>3. \A i \in ids : GroupOf(groups, i) = kin[i]
  BY <1>1, GroupsAreKin
<1>4. Partition(groups, ids)
  BY <1>1, GroupsAreGrouped DEF Grouped
<1> HIDE DEF view, kin, groups
<1>5. \A i \in ids : kin[i] \in groups /\ i \in kin[i] /\ kin[i] \subseteq ids
  BY <1>3, <1>4, GroupIs DEF Partition
<1>6. \A i \in ids : /\ view[i] \in kin[i] /\ view[i] \in ids
                     /\ \A j \in kin[i] : Entities[view[i]].canon <= Entities[j].canon
  <2> TAKE i \in ids
  <2>1. kin[i] \in SUBSET Identities /\ kin[i] # {} /\ view[i] = canonicalOf(kin[i]) /\ kin[i] \subseteq ids
    BY <1>2, <1>3, <1>5
  <2> QED
    BY <2>1, CanonicalIs
<1>7. ASSUME NEW i \in ids PROVE {j \in ids : view[j] = view[i]} = kin[i]
  <2>1. ASSUME NEW j \in kin[i] PROVE j \in ids /\ view[j] = view[i]
    <3>1. j \in ids /\ j \in kin[j] /\ kin[i] \in groups /\ kin[j] \in groups
      BY <1>5
    <3>2. kin[j] = kin[i]
      BY <1>4, <3>1 DEF Partition
    <3> QED
      BY <1>2, <1>3, <3>1, <3>2
  <2>2. ASSUME NEW j \in ids, view[j] = view[i] PROVE j \in kin[i]
    <3>1. view[j] \in kin[j] /\ view[j] \in kin[i] /\ view[j] \in ids
      BY <1>6, <2>2
    <3>2. kin[j] = kin[i]
      BY <1>4, <1>5, <3>1 DEF Partition
    <3> QED
      BY <1>5, <3>2
  <2> QED
    BY <2>1, <2>2
<1> QED
  BY <1>2, <1>6, <1>7 DEF view, kin

\* Sequences of members of a set make one of them.
LEMMA FlattenedAre ==
  ASSUME NEW seqs, NEW m \in Nat, m # 0, Len(seqs) = m, NEW S, \A i \in 1..m : seqs[i] \in Seq(S)
  PROVE  FlattenSeq(seqs) \in Seq(S)
<1> DEFINE Joins(F, n) == \A i \in 1..n : F[i] = IF i = 1 THEN seqs[i] ELSE F[i - 1] \o seqs[i]
           P == {n \in Nat : \E F : Joins(F, n)}
<1>1. 0 \in P
  OBVIOUS
<1>2. ASSUME NEW n \in P PROVE n + 1 \in P
  <2>1. PICK F : Joins(F, n)
    OBVIOUS
  <2> DEFINE H == [i \in 1..(n + 1) |-> IF i <= n THEN F[i] ELSE IF i = 1 THEN seqs[i] ELSE F[i - 1] \o seqs[i]]
  <2>2. ASSUME NEW i \in 1..(n + 1) PROVE H[i] = IF i = 1 THEN seqs[i] ELSE H[i - 1] \o seqs[i]
    <3>1. i # 1 => i - 1 \in 1..n /\ i - 1 \in 1..(n + 1) /\ i - 1 <= n
      OBVIOUS
    <3>2. i # 1 => H[i - 1] = F[i - 1]
      BY <3>1
    <3>3. i <= n => i \in 1..n
      OBVIOUS
    <3>4. F[i] = (IF i = 1 THEN seqs[i] ELSE F[i - 1] \o seqs[i]) \/ ~(i <= n)
      BY <2>1, <3>3
    <3>5. H[i] = IF i = 1 THEN seqs[i] ELSE F[i - 1] \o seqs[i]
      BY <3>4
    <3> HIDE DEF H
    <3> QED
      BY <3>2, <3>5
  <2>3. Joins(H, n + 1)
    BY <2>2
  <2> HIDE DEF H, Joins
  <2> QED
    BY <2>3
<1>3. m \in P
  <2> HIDE DEF P
  <2>1. \A n \in Nat : n \in P => n + 1 \in P
    BY <1>2
  <2> QED
    BY <1>1, <2>1, NumbersAreCovered
<1>4. PICK F : \A i \in 1..m : F[i] = IF i = 1 THEN seqs[i] ELSE F[i - 1] \o seqs[i]
  BY <1>3
<1>5. FlattenSeq(seqs) = F[m]
  <2>1. m \in Nat /\ m # 0 /\ Len(seqs) = m
    OBVIOUS
  <2> QED
    BY ONLY <1>4, <2>1, FlattenedIs
<1> DEFINE T == {i \in 1..m : F[i] \in Seq(S)}
<1>6. 1 \in T
  <2>1. 1 \in 1..m
    OBVIOUS
  <2>2. F[1] = seqs[1]
    BY <1>4, <2>1
  <2> QED
    BY <2>1, <2>2
<1>7. ASSUME NEW i \in 1..m, i \in T, i # m PROVE i + 1 \in T
  <2>1. PICK j \in 1..m : j = i + 1 /\ j # 1 /\ j - 1 = i
    BY <1>7
  <2>2. F[j] = F[i] \o seqs[j]
    BY <1>4, <2>1
  <2>3. F[i] \in Seq(S) /\ seqs[j] \in Seq(S)
    BY <1>7
  <2>4. F[j] \in Seq(S)
    BY <2>2, <2>3, ConcatProperties
  <2> QED
    BY <2>1, <2>4
<1>8. 1..m \subseteq T
  <2> HIDE DEF T
  <2> QED
    BY <1>6, <1>7, RangeIsCovered
<1>9. F[m] \in Seq(S)
  BY <1>8
<1> QED
  BY <1>5, <1>9

\* The claims of a revision name what there is.
Known(claims) ==
  /\ \E n \in Nat : DOMAIN claims = 1..n
  /\ \A k \in DOMAIN claims :
       /\ claims[k].entities \in Seq(Identities)
       /\ claims[k].slot # NoSlot => \E i \in Identities : Entities[i] = [canon |-> claims[k].slot.canon, aliases |-> {}]

LEMMA SlotEntityIs ==
  ASSUME NEW claims, Known(claims), NEW k \in SlotsOf(claims)
  PROVE  slotEntity(claims, claims[k].slot.canon) \in Identities
<1> DEFINE seqs == [j \in DOMAIN claims |-> claims[j].entities]
           canon == claims[k].slot.canon
           all == Extracted(claims)
           I == {i \in 1..Len(all) : Entities[all[i]].canon = canon}
           first == IF I # {} THEN Min(I) ELSE 0
<1>1. slotEntity(claims, canon) = IF first = 0 THEN Bare(canon) ELSE all[first]
  BY DEF slotEntity, SelectInSeq
<1>2. Bare(canon) \in Identities
  BY DEF Bare, Known, SlotsOf
<1>3. PICK n \in Nat : DOMAIN claims = 1..n
  BY DEF Known
<1>4. Len(seqs) = n /\ n # 0
  <2>1. seqs = [j \in 1..n |-> seqs[j]]
    BY <1>3
  <2>2. k \in 1..n
    BY <1>3 DEF SlotsOf
  <2> QED
    BY <2>1, <2>2, LengthIs
<1>5. all = FlattenSeq(seqs)
  BY DEF Extracted
<1>6. \A j \in 1..n : seqs[j] \in Seq(Identities)
  BY <1>3 DEF Known
<1> HIDE DEF all, seqs
<1>7. all \in Seq(Identities)
  BY <1>4, <1>5, <1>6, FlattenedAre
<1>8. I # {} => first \in 1..Len(all)
  <2>1. I \in SUBSET Nat
    BY <1>7
  <2>2. I # {} => Min(I) \in I
    <3> HIDE DEF I
    <3> QED
      BY <2>1, LeastIsOne
  <2> QED
    BY <2>2
<1>9. first # 0 => all[first] \in Identities
  <2>1. first # 0 => I # {}
    OBVIOUS
  <2> HIDE DEF first, I
  <2> QED
    BY <1>7, <1>8, <2>1
<1> HIDE DEF first
<1> QED
  BY <1>1, <1>2, <1>9

LEMMA IdentitiesAreThere ==
  ASSUME NEW covers, NEW a, \A c \in covers : Known(a[c])
  PROVE  PlannedIds(covers, a) \in SUBSET Identities
<1> SUFFICES ASSUME NEW i \in PlannedIds(covers, a) PROVE i \in Identities
  OBVIOUS
<1>1. PICK c \in covers :
        i \in (UNION {Range(a[c][k].entities) : k \in DOMAIN a[c]})
               \cup {slotEntity(a[c], a[c][k].slot.canon) : k \in SlotsOf(a[c])}
  BY DEF PlannedIds, collectEntityIdentities
<1>2. Known(a[c])
  OBVIOUS
<1>3. CASE i \in UNION {Range(a[c][k].entities) : k \in DOMAIN a[c]}
  <2>1. PICK k \in DOMAIN a[c] : i \in Range(a[c][k].entities)
    BY <1>3
  <2>2. a[c][k].entities \in Seq(Identities)
    BY <1>2, <2>1 DEF Known
  <2> QED
    BY <2>1, <2>2 DEF Range
<1>4. CASE i \in {slotEntity(a[c], a[c][k].slot.canon) : k \in SlotsOf(a[c])}
  BY <1>2, <1>4, SlotEntityIs
<1> QED
  BY <1>1, <1>3, <1>4

LEMMA ExtractedAreKnown ==
  ASSUME NEW c \in Commits, NEW raw \in RawExtractions[c]
  PROVE  Known(extractSession(Texts[c], raw))
<1> DEFINE kept == {j \in DOMAIN raw : DropReason(Texts[c], raw[j]) = ""}
           claims == extractSession(Texts[c], raw)
<1>1. IsSequence(raw)
  BY TextsAreShort
<1>2. kept \in SUBSET Nat /\ IsFiniteSet(kept)
  BY <1>1, SequenceIs, FS_Subset
<1>3. Ordered(kept, UpTo(kept), InOrder(kept))
  BY <1>2, InOrderIs
<1>4. claims = [k \in DOMAIN InOrder(kept) |-> ClaimOf(Texts[c], raw[InOrder(kept)[k]])]
  BY ExtractedAre
<1>5. \A j \in kept : j \in DOMAIN raw
  OBVIOUS
<1> HIDE DEF claims, kept
<1>6. ASSUME NEW k \in DOMAIN claims
      PROVE  /\ claims[k].entities \in Seq(Identities)
             /\ claims[k].slot # NoSlot =>
                  \E i \in Identities : Entities[i] = [canon |-> claims[k].slot.canon, aliases |-> {}]
  <2>1. PICK j \in DOMAIN raw : claims[k] = ClaimOf(Texts[c], raw[j])
    BY <1>3, <1>4, <1>5 DEF Ordered
  <2>2. claims[k].entities = raw[j].entities /\ claims[k].slot = raw[j].slot
    BY <2>1 DEF ClaimOf
  <2>3. IsSequence(raw[j].entities) /\ Range(raw[j].entities) \subseteq Identities
    BY EntitiesAreKnown
  <2>4. raw[j].entities \in Seq(Identities)
    BY <2>3, SeqMonotonic DEF IsSequence
  <2>5. raw[j].slot # NoSlot => \E i \in Identities : Entities[i] = [canon |-> raw[j].slot.canon, aliases |-> {}]
    BY EntitiesAreKnown
  <2> QED
    BY <2>2, <2>4, <2>5
<1>7. \E n \in Nat : DOMAIN claims = 1..n
  BY <1>3, <1>4 DEF Ordered
<1> QED
  BY <1>6, <1>7 DEF Known, claims

\* Whatever has been extracted names what there is.
KnownInv == \A c \in Commits : ~Unextracted(c) => Known(artifact[c])

LEMMA KnownInit == ConsolidationInit => KnownInv
BY DEF ConsolidationInit, SourceInit, KnownInv, Unextracted

LEMMA KnownNext ==
  ASSUME ConsolidationInv, KnownInv, [ConsolidationNext]_vars
  PROVE  KnownInv'
<1> SUFFICES ASSUME NEW c \in Commits, ~Unextracted(c)' PROVE Known(artifact'[c])
  BY DEF KnownInv, Known
<1>1. CASE ~Unextracted(c) /\ artifact'[c] = artifact[c]
  BY <1>1 DEF KnownInv
<1>2. CASE \E raw \in RawExtractions[c] : artifact'[c] = extractSession(Texts[c], raw)
  BY <1>2, ExtractedAreKnown
<1> QED
  BY <1>1, <1>2, ArtifactsStay

\* What a snapshot covers has been extracted, and names what there is.
LEMMA CoveredAreThere ==
  ASSUME ConsolidationInv, KnownInv, NEW c \in Commits, state[c] = "ENRICHED"
  PROVE  /\ coveredRevisions(c) \subseteq Commits
         /\ \A d \in coveredRevisions(c) : state[d] \in {"ENRICHED", "CONSOLIDATED"} /\ ~Unextracted(d)
         /\ PlannedIds(coveredRevisions(c), artifact) \in SUBSET Identities
<1>1. coveredRevisions(c) \subseteq Commits /\ \A d \in coveredRevisions(c) : state[d] \in {"ENRICHED", "CONSOLIDATED"}
  BY DEF coveredRevisions
<1>2. \A d \in coveredRevisions(c) : ~Unextracted(d) /\ Known(artifact[d])
  BY <1>1 DEF ConsolidationInv, SourceInv, PlaneInv, ReachedIndex, KnownInv
<1> QED
  BY <1>1, <1>2, IdentitiesAreThere

\* The view that is stored with a snapshot resolves two identities alike exactly when a row of
\* shared match keys joins them, to the least named of them, whichever entities the model
\* extracted and in whichever order they were united (EntityCanonicalView.ts, CanonicalView.ts).
THEOREM ViewsArePartitions == ConsolidationSpec => ViewIsThePartition
<1> DEFINE Inv == ConsolidationInv /\ KnownInv
           Partitions == snapshot'.state = "WRITTEN" =>
             LET view == snapshot'.view  kin == Kin(DOMAIN view)
             IN \A i \in DOMAIN view :
                  /\ {j \in DOMAIN view : view[j] = view[i]} = kin[i]
                  /\ view[i] \in kin[i]
                  /\ \A j \in kin[i] : Entities[view[i]].canon <= Entities[j].canon
                  /\ view[i] = i \/ <<i, view[i]>> \in snapshot'.edges
<1>1. ConsolidationInit => Inv
  BY InvInit, KnownInit
<1>2. Inv /\ [ConsolidationNext]_vars => Inv'
  BY InvNext, KnownNext
<1>3. Inv /\ [ConsolidationNext]_vars => [Partitions]_snapshot
  <2> SUFFICES ASSUME Inv, [ConsolidationNext]_vars, snapshot' # snapshot, snapshot'.state = "WRITTEN" PROVE Partitions
    OBVIOUS
  <2>1. \/ \E c \in Commits : Consolidate(c)
        \/ snapshot' = [snapshot EXCEPT !.state = "VERIFIED"] \/ snapshot' = [snapshot EXCEPT !.state = "BUILDING"]
    BY DEF ConsolidationNext, vars, Index, Park, Decide, Enrich, Damage, Verify, Abandon
  <2>2. CASE snapshot' = [snapshot EXCEPT !.state = "VERIFIED"]
    <3>1. snapshot'.state # "WRITTEN"
      BY <2>2
    <3> QED
      BY <3>1
  <2>3. CASE snapshot' = [snapshot EXCEPT !.state = "BUILDING"]
    <3>1. snapshot'.state # "WRITTEN"
      BY <2>3
    <3> QED
      BY <3>1
  <2>4. ASSUME NEW c \in Commits, Consolidate(c) PROVE Partitions
    <3>1. PICK ids : ids = PlannedIds(coveredRevisions(c), artifact)
      OBVIOUS
    <3>2. PICK view : view = createEntityCanonicalView(ids)
      OBVIOUS
    <3>3. snapshot'.view = view /\ snapshot'.edges = sameAs(view) /\ state[c] = "ENRICHED"
      BY <2>4, <3>1, <3>2 DEF Consolidate
    <3>4. ids \in SUBSET Identities
      BY <3>1, <3>3, CoveredAreThere
    <3>5. PICK kin : kin = Kin(ids)
      OBVIOUS
    <3>6. /\ DOMAIN view = ids
          /\ \A i \in ids : /\ {j \in ids : view[j] = view[i]} = kin[i]
                            /\ view[i] \in kin[i]
                            /\ \A j \in kin[i] : Entities[view[i]].canon <= Entities[j].canon
      BY <3>2, <3>4, <3>5, ViewIs
    <3>7. \A i \in ids : view[i] = i \/ <<i, view[i]>> \in sameAs(view)
      BY <3>6 DEF sameAs
    <3> QED
      BY <3>3, <3>5, <3>6, <3>7
  <2> QED
    BY <2>1, <2>2, <2>3, <2>4
<1> HIDE DEF Inv, Partitions
<1>4. ConsolidationSpec => []Inv
  BY <1>1, <1>2, PTL DEF ConsolidationSpec
<1>5. ConsolidationSpec => [][Partitions]_snapshot
  BY <1>3, <1>4, PTL DEF ConsolidationSpec
<1> QED
  BY <1>5, PTL DEF ViewIsThePartition, Partitions

-----------------------------------------------------------------------------
(***************************************************************************)
(* Nothing that is stored is refused at planning.                          *)
(***************************************************************************)

\* A claim of what is covered is one the plan knows.
LEMMA IsKnown ==
  ASSUME NEW covers, NEW x, NEW claim, IsOf(x, claim), x[1] \in covers, x = <<x[1], x[2]>>
  PROVE  x \in {<<at[1], artifact[at[1]][at[2]].digest>> : at \in ClaimsAt(covers, artifact)}
<1>1. PICK k \in DOMAIN artifact[x[1]] : artifact[x[1]][k] = claim /\ claim.digest = x[2]
  BY DEF IsOf
<1>2. <<x[1], k>> \in ClaimsAt(covers, artifact)
  <2>1. PICK c \in covers : c = x[1]
    OBVIOUS
  <2>2. <<c, k>> \in {<<c, j>> : j \in DOMAIN artifact[c]}
    BY <1>1, <2>1
  <2> QED
    BY <2>1, <2>2 DEF ClaimsAt
<1>3. PICK at : at = <<x[1], k>>
  OBVIOUS
<1>4. at[1] = x[1] /\ at[2] = k
  BY <1>3
<1>5. x = <<at[1], artifact[at[1]][at[2]].digest>>
  BY <1>1, <1>4
<1> QED
  BY <1>2, <1>3, <1>5

\* A link that leads forward does not lead to an earlier session.
LEMMA ForwardIsNotBack ==
  ASSUME ClaimInv, NEW l, Forward(l)
  PROVE  l.older # l.newer /\ ~(Ordinal[l.newer[1]] < Ordinal[l.older[1]])
<1>1. PICK older, newer :
        /\ IsOf(l.older, older) /\ IsOf(l.newer, newer)
        /\ Lex(Place(l.older[1], older), Place(l.newer[1], newer))
        /\ l.older # l.newer
  BY DEF Forward
<1>2. PICK c \in Commits, d \in Commits : c = l.older[1] /\ d = l.newer[1]
  BY <1>1 DEF IsOf
<1>3. WellFormed(older) /\ WellFormed(newer)
  BY <1>1 DEF IsOf, ClaimInv, AreClaims
<1>4. PICK p, q : p = Place(c, older) /\ q = Place(d, newer)
  OBVIOUS
<1>5. p.ord = Ordinal[c] /\ q.ord = Ordinal[d] /\ Numbered(p) /\ Numbered(q) /\ Lex(p, q)
  BY <1>1, <1>2, <1>3, <1>4, PlaceIs
<1>6. ~(q.ord < p.ord)
  BY <1>5 DEF Lex, Numbered
<1> QED
  BY <1>1, <1>2, <1>5, <1>6

\* What is covered, its view and its links make a plan, or are of another generation.
LEMMA PlanIsMade ==
  ASSUME ConsolidationInv, ClaimInv, BuildInv, LinkInv, KnownInv, NEW c \in Commits, state[c] = "ENRICHED",
         NEW covers, covers = coveredRevisions(c),
         NEW ids, ids = PlannedIds(covers, artifact),
         NEW view, view = createEntityCanonicalView(ids)
  PROVE  LET rejected == Rejection(covers, state, artifact, Ordinal, view, CausalLinks(covers))
         IN  rejected = "" \/ (rejected = "extractionGenerationMismatch" /\ \E d \in covers : GenerationOf[d] # Pinned)
<1>1. /\ covers \subseteq Commits /\ ids \in SUBSET Identities
      /\ \A d \in covers : state[d] \in {"ENRICHED", "CONSOLIDATED"} /\ ~Unextracted(d)
  BY CoveredAreThere
<1>2. ~(\E d \in covers : state[d] \notin {"ENRICHED", "CONSOLIDATED", "COMMITTED"})
  BY <1>1
<1>3. ~(\E at \in ClaimsAt(covers, artifact) : artifact[at[1]][at[2]].turn \notin 0..(Len(Texts[at[1]]) - 1))
  <2> SUFFICES ASSUME NEW at \in ClaimsAt(covers, artifact)
               PROVE  artifact[at[1]][at[2]].turn \in 0..(Len(Texts[at[1]]) - 1)
    OBVIOUS
  <2>1. PICK d \in covers : at \in {<<d, k>> : k \in DOMAIN artifact[d]}
    BY DEF ClaimsAt
  <2>2. PICK k \in DOMAIN artifact[d] : at = <<d, k>>
    BY <2>1
  <2>3. ~IndexRejects(d, artifact[d])
    BY <1>1 DEF ConsolidationInv, SourceInv, PlaneInv
  <2>4. artifact[d][k].turn \in 0..(Len(Texts[d]) - 1)
    BY <2>3 DEF IndexRejects
  <2> QED
    BY <2>2, <2>4
<1>4. ids \subseteq DOMAIN view /\ ~(\E i \in ids : view[i] \notin ids)
  BY <1>1, ViewIs
<1>5. \A l \in CausalLinks(covers) : Forward(l) /\ l.older[1] \in covers /\ l.newer[1] \in covers
  BY <1>1 DEF CausalLinks, LinkInv
<1> DEFINE known == {<<at[1], artifact[at[1]][at[2]].digest>> : at \in ClaimsAt(covers, artifact)}
<1>6. \A l \in CausalLinks(covers) : l.older \in known /\ l.newer \in known
  <2> TAKE l \in CausalLinks(covers)
  <2>1. PICK older, newer :
          /\ IsOf(l.older, older) /\ IsOf(l.newer, newer)
          /\ l.older = <<l.older[1], l.older[2]>> /\ l.newer = <<l.newer[1], l.newer[2]>>
    BY <1>5 DEF Forward
  <2> QED
    BY <1>5, <2>1, IsKnown
<1>7. ~(\E l \in CausalLinks(covers) : ~({l.older, l.newer} \subseteq known))
  <2> HIDE DEF known
  <2> QED
    BY <1>6
<1>8. ~(\E l \in CausalLinks(covers) : l.older = l.newer \/ Ordinal[l.newer[1]] < Ordinal[l.older[1]])
  BY <1>5, ForwardIsNotBack
<1> QED
  BY <1>2, <1>3, <1>4, <1>7, <1>8 DEF Rejection

\* What enrichment and consolidation store always makes a plan: a snapshot is refused only for
\* revisions of another extraction generation, whatever the model extracted, the decider
\* answered and failed for good (Enrichments.ts, CanonicalView.ts, SnapshotGraph.ts).
THEOREM PlansAreMade == ConsolidationSpec => []ConsolidationPlans
<1> DEFINE Inv == ConsolidationInv /\ ClaimInv /\ BuildInv /\ LinkInv /\ KnownInv
<1>1. ConsolidationInit => Inv /\ ConsolidationPlans
  <2>1. ConsolidationInit => ConsolidationPlans
    BY DEF ConsolidationInit, ConsolidationPlans
  <2> QED
    BY <2>1, InvInit, BuildInit, LinkInit, KnownInit
<1>2. Inv /\ [ConsolidationNext]_vars => Inv'
  BY InvNext, ClaimNext, BuildNext, LinkNext, KnownNext
<1>3. Inv /\ ConsolidationPlans /\ [ConsolidationNext]_vars => ConsolidationPlans'
  <2> SUFFICES ASSUME Inv, ConsolidationPlans, [ConsolidationNext]_vars PROVE ConsolidationPlans'
    OBVIOUS
  <2>1. \/ \E c \in Commits : Consolidate(c)
        \/ snapshot' = snapshot
        \/ snapshot' = [snapshot EXCEPT !.state = "VERIFIED"]
        \/ snapshot' = [snapshot EXCEPT !.state = "BUILDING"]
    BY DEF ConsolidationNext, vars, Index, Park, Decide, Enrich, Damage, Verify, Abandon
  <2>2. CASE snapshot' = snapshot
    BY <2>2 DEF ConsolidationPlans
  <2>3. CASE snapshot' = [snapshot EXCEPT !.state = "VERIFIED"]
    <3>1. snapshot'.state = "VERIFIED"
      BY <2>3
    <3> QED
      BY <3>1 DEF ConsolidationPlans
  <2>4. CASE snapshot' = [snapshot EXCEPT !.state = "BUILDING"]
    <3>1. snapshot'.state = "BUILDING"
      BY <2>4
    <3> QED
      BY <3>1 DEF ConsolidationPlans
  <2>5. ASSUME NEW c \in Commits, Consolidate(c) PROVE ConsolidationPlans'
    <3>1. PICK covers : covers = coveredRevisions(c)
      OBVIOUS
    <3>2. PICK ids : ids = PlannedIds(covers, artifact)
      OBVIOUS
    <3>3. PICK view : view = createEntityCanonicalView(ids)
      OBVIOUS
    <3>4. PICK rejected : rejected = Rejection(covers, state, artifact, Ordinal, view, CausalLinks(covers))
      OBVIOUS
    <3>5. /\ state[c] = "ENRICHED" /\ snapshot'.covers = covers
          /\ snapshot'.state = IF rejected = "" THEN "WRITTEN" ELSE rejected
      BY <2>5, <3>1, <3>2, <3>3, <3>4 DEF Consolidate
    <3>6. rejected = "" \/ (rejected = "extractionGenerationMismatch" /\ \E d \in covers : GenerationOf[d] # Pinned)
      BY <3>1, <3>2, <3>3, <3>4, <3>5, PlanIsMade
    <3> QED
      BY <3>5, <3>6 DEF ConsolidationPlans
  <2> QED
    BY <2>1, <2>2, <2>3, <2>4, <2>5
<1> HIDE DEF Inv
<1> QED
  BY <1>1, <1>2, <1>3, PTL DEF ConsolidationSpec
=============================================================================
