----------------------------- MODULE SourceIndex -----------------------------
(***************************************************************************)
(* The stages SOURCE_DURABLE and INDEXED of one scope's revisions           *)
(* (TransactionalSourceIndex.ts indexStages, SourceTranscript.ts,           *)
(* IndexGraph.ts, Reader.ts): the transcript is stored, its claims are      *)
(* extracted once and for all, and an index of them is stored beside it.    *)
(*                                                                         *)
(* What is stored is a graph: vertices <<label, revision, ...>> with the     *)
(* properties that matter here, and relations <<type, from, to>>.  Keys      *)
(* hold the session and the digest of its content, which a revision stands  *)
(* for.  A stage writes one group of vertices or relations after the other  *)
(* (HydraWrites has the statements) and may be cut short; a relation whose  *)
(* ends are not there is lost without an error.                             *)
(***************************************************************************)
EXTENDS SnapshotPlan, Extraction

CONSTANTS
  Commits,       \* the scope's source revisions; numbers, in the order of their ids
  RawExtractions, \* for each revision, what the model may say of its session
  Interrupted    \* the revisions whose stages may be cut short

ASSUME SourceIndexAssumption ==
  /\ Commits \subseteq Nat /\ Interrupted \subseteq Commits
  /\ DOMAIN Texts = Commits /\ DOMAIN RawExtractions = Commits

IsSequence(s) == s \in Seq(Range(s))

\* What claimDigest relies on to be one of each claim, as a hash is.
ASSUME TextsAreShort ==
  /\ IsFiniteSet(Commits)
  /\ \A c \in Commits :
       /\ IsSequence(Texts[c]) /\ Len(Texts[c]) < 100
       /\ \A k \in DOMAIN Texts[c] : IsSequence(Texts[c][k]) /\ Len(Texts[c][k]) < 100
       /\ \A raw \in RawExtractions[c] :
            /\ IsSequence(raw)
            /\ \A k \in DOMAIN raw : raw[k].text \in Nat /\ IsSequence(raw[k].quote)

\* What a claim names is among the entities, and what its slot names stands there bare.
ASSUME EntitiesAreKnown ==
  \A c \in Commits : \A raw \in RawExtractions[c] : \A k \in DOMAIN raw :
    /\ IsSequence(raw[k].entities) /\ Range(raw[k].entities) \subseteq Identities
    /\ raw[k].slot # NoSlot => \E i \in Identities : Entities[i] = [canon |-> raw[k].slot.canon, aliases |-> {}]

VARIABLES
  state,         \* the stage each revision has reached
  artifact,      \* the claims extracted from each revision, or NoArtifact
  planes         \* the source and index planes: vertices and relations

sourceVars == <<state, artifact, planes>>

NoArtifact == << [digest |-> 0] >>

EmptyGraph == [vertices |-> <<>>, relations |-> {}]

SourceInit ==
  /\ state = [c \in Commits |-> "RECEIVED"]
  /\ artifact = [c \in Commits |-> NoArtifact]
  /\ planes = EmptyGraph

-----------------------------------------------------------------------------
ScopeV == <<"MemoryScope">>
SessionV(c) == <<"SourceSession", c>>
TurnV(c, turn) == <<"SourceTurn", c, turn>>
ChunkV(c, turn, k) == <<"SourceTurnChunk", c, turn, k>>

\* A turn holds its first part, and in how many it comes; the others hang off it.
planSourceTranscriptWrite(c) ==
  LET chunks == [turn \in 0..(Len(Texts[c]) - 1) |-> chunkText(Texts[c][turn + 1])]
      turns == DOMAIN chunks
      more == UNION {{<<turn, k>> : k \in 1..(Len(chunks[turn]) - 1)} : turn \in turns}
  IN  [vertices |->
         Over([v \in {ScopeV} |-> Plain],
         Over([v \in {SessionV(c)} |-> [nTurns |-> Len(Texts[c])]],
         Over([v \in {TurnV(c, turn) : turn \in turns} |->
                 [text |-> chunks[v[3]][1], chunks |-> Len(chunks[v[3]])]],
              [v \in {ChunkV(c, at[1], at[2]) : at \in more} |-> [text |-> chunks[v[3]][v[4] + 1]]]))),
       relations |->
         {<<"HAS_SOURCE_REVISION", ScopeV, SessionV(c)>>}
           \cup {<<"SOURCE_HAS_TURN", SessionV(c), TurnV(c, turn)>> : turn \in turns}
           \cup {<<"SOURCE_HAS_CHUNK", TurnV(c, at[1]), ChunkV(c, at[1], at[2])>> : at \in more}]

SourceOrder ==
  <<"MemoryScope", "SourceSession", "SourceTurn", "SourceTurnChunk",
    "HAS_SOURCE_REVISION", "SOURCE_HAS_TURN", "SOURCE_HAS_CHUNK">>

-----------------------------------------------------------------------------
IndexEntityV(c, i) == <<"IndexEntity", c, i>>
IndexClaimV(c, digest) == <<"IndexClaim", c, digest>>
IndexSlotV(c, i, attr) == <<"IndexSlot", c, i, attr>>
IndexTokenV(c, stem) == <<"IndexToken", c, stem>>

IndexClaimRelations(c, claims, claim) ==
  LET v == IndexClaimV(c, claim.digest)
  IN  {<<"INDEX_EVIDENCE", v, TurnV(c, claim.turn)>>}
        \cup {<<"INDEX_MENTIONS", IndexEntityV(c, i), v>> : i \in Range(claim.entities)}
        \cup (IF claim.slot = NoSlot THEN {}
              ELSE {<<"INDEX_FILLS", v, IndexSlotV(c, slotEntity(claims, claim.slot.canon), claim.slot.attr)>>})
        \cup {<<"INDEX_HITS", IndexTokenV(c, stem), v>> : stem \in claimTokens(claim)}

\* The plan does not accept a claim of no turn, or with a span outside its turn.
IndexRejects(c, claims) ==
  \E k \in DOMAIN claims :
    LET claim == claims[k]
    IN  \/ claim.turn \notin 0..(Len(Texts[c]) - 1)
        \/ claim.cs < 0 \/ claim.ce <= claim.cs \/ claim.ce > Len(Texts[c][claim.turn + 1])

IndexRelations(c, claims) ==
  (UNION {IndexClaimRelations(c, claims, claims[k]) : k \in DOMAIN claims})
    \cup UNION {{<<"INDEX_NAMES", IndexTokenV(c, stem), IndexEntityV(c, i)>> : stem \in nameStems(i)}
                   : i \in collectEntityIdentities({claims})}

planIndexGraphWrite(c, claims) ==
  LET relations == IndexRelations(c, claims)
      linked == UNION {{r[2], r[3]} : r \in relations}
  IN  [vertices |->
         Over([v \in {IndexEntityV(c, i) : i \in collectEntityIdentities({claims})} |-> Entities[v[3]]],
         Over([v \in {IndexClaimV(c, claims[k].digest) : k \in DOMAIN claims} |-> Plain],
              [v \in {w \in linked : w[1] \in {"IndexSlot", "IndexToken"}} |-> Plain])),
       relations |-> relations]

\* A type of relation has its group where the plan first needs it, which varies.
IndexOrder ==
  <<"IndexEntity", "IndexClaim", "IndexSlot", "IndexToken",
    "INDEX_EVIDENCE", "INDEX_MENTIONS", "INDEX_FILLS", "INDEX_HITS", "INDEX_NAMES">>

-----------------------------------------------------------------------------
\* The first n groups of a plan are merged into the planes.
commitWrites(plan, order, n) ==
  LET sent == {order[k] : k \in 1..n}
      merged == Over(Restrict(plan.vertices, {v \in DOMAIN plan.vertices : v[1] \in sent}), planes.vertices)
  IN  [vertices |-> merged,
       relations |-> planes.relations
                       \cup {r \in plan.relations : r[1] \in sent /\ {r[2], r[3]} \subseteq DOMAIN merged}]

\* How many groups a run of a stage gets to write.
Progress(c, order) == IF c \in Interrupted THEN 0..Len(order) ELSE {Len(order)}

Reaches(c, stage, all) == state' = IF all THEN [state EXCEPT ![c] = stage] ELSE state

StoreTranscript(c) ==
  /\ state[c] = "RECEIVED"
  /\ \E n \in Progress(c, SourceOrder) :
       /\ planes' = commitWrites(planSourceTranscriptWrite(c), SourceOrder, n)
       /\ Reaches(c, "SOURCE_DURABLE", n = Len(SourceOrder))
  /\ UNCHANGED artifact

\* Fault: a stage that runs again extracts again.
ExtractsAgain(c) == TRUE

Unextracted(c) == artifact[c] = NoArtifact

\* What is extracted is stored before the index is, and a later run starts from it.
StoreIndex(c) ==
  /\ state[c] = "SOURCE_DURABLE"
  /\ IF Unextracted(c)
     THEN \E raw \in RawExtractions[c] : artifact' = [artifact EXCEPT ![c] = extractSession(Texts[c], raw)]
     ELSE UNCHANGED artifact
  /\ ~IndexRejects(c, artifact'[c])
  /\ \E n \in Progress(c, IndexOrder) :
       /\ planes' = commitWrites(planIndexGraphWrite(c, artifact'[c]), IndexOrder, n)
       /\ Reaches(c, "INDEXED", n = Len(IndexOrder))

-----------------------------------------------------------------------------
\* A turn read back: the first part, or all of them when the span goes on after it.
ReadTurn(c, turn, ce) ==
  LET stored == planes.vertices[TurnV(c, turn)]
      parts == InOrder({k \in 1..(stored.chunks - 1) : ChunkV(c, turn, k) \in DOMAIN planes.vertices})
  IN  IF ce <= Len(stored.text) \/ stored.chunks <= 1 THEN stored.text
      ELSE stored.text \o FlattenSeq([k \in DOMAIN parts |-> planes.vertices[ChunkV(c, turn, parts[k])].text])

Letters(text) ==
  LET kept == InOrder({i \in DOMAIN text : text[i] \notin Whitespace \cup Noise})
  IN  [k \in DOMAIN kept |-> text[kept[k]]]

ReachedIndex(c) == state[c] \notin {"RECEIVED", "SOURCE_DURABLE"}

\* Of a revision that is INDEXED the planes hold its transcript and the index of the claims
\* stored for it, and nothing else, however often its stages were cut short.
IndexIsThePlan ==
  \A c \in {d \in Commits : ReachedIndex(d)} :
    LET source == planSourceTranscriptWrite(c)
        index == planIndexGraphWrite(c, artifact[c])
        own(v) == v # ScopeV /\ v[2] = c
    IN  /\ {v \in DOMAIN planes.vertices : own(v)} = {v \in DOMAIN source.vertices : own(v)} \cup DOMAIN index.vertices
        /\ \A v \in DOMAIN index.vertices : planes.vertices[v] = index.vertices[v]
        /\ {r \in planes.relations : own(r[3])} = source.relations \cup index.relations

\* What is extracted can be indexed, and what is read back at a claim's span has the letters
\* of the words the model quoted for it.
EvidenceCanBeQuoted ==
  \A c \in {d \in Commits : ~Unextracted(d)} :
    /\ ~IndexRejects(c, artifact[c])
    /\ \A k \in DOMAIN artifact[c] :
         LET claim == artifact[c][k]
             quoted == SubSeq(ReadTurn(c, claim.turn, claim.ce), claim.cs + 1, claim.ce)
         IN  \E raw \in RawExtractions[c] : \E j \in DOMAIN raw :
               /\ raw[j].text = claim.text /\ raw[j].turn = claim.turn
               /\ Letters(raw[j].quote) = Letters(quoted)
=============================================================================
