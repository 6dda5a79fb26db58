---------------------------- MODULE SnapshotPlan ----------------------------
(***************************************************************************)
(* The plan of a snapshot's graph (SnapshotGraph.ts): vertices and           *)
(* relations computed from the covered revisions, the canonical view and the *)
(* decided links.  A vertex is its identity, <<label, ...>>, mapped to the   *)
(* properties that depend on other claims; a relation is <<type, source,     *)
(* destination>> mapped to its own.  Keys are scoped by the snapshot, of     *)
(* which a plan has one.                                                    *)
(***************************************************************************)
EXTENDS CanonicalView

CONSTANTS
  GenerationOf,  \* the extraction generation of each revision
  Texts,         \* the texts of the turns of each revision's session
  Pinned         \* the extraction generation the index generation pins

Root == <<"SnapshotRoot">>
RevisionV(c) == <<"SnapshotRevision", c>>
EntityV(i) == <<"SnapshotEntity", i>>
ClaimV(c, digest) == <<"SnapshotClaim", c, digest>>
EvidenceV(c, turn) == <<"SnapshotEvidence", c, turn>>
SlotV(i, attr) == <<"SnapshotSlot", i, attr>>
TokenV(stem) == <<"SnapshotToken", stem>>

Plain == [of |-> 0]

\* f written over g.
Over(f, g) == [x \in DOMAIN f \cup DOMAIN g |-> IF x \in DOMAIN f THEN f[x] ELSE g[x]]

\* The claims of the covered revisions, with where they stand.
ClaimsAt(covers, artifact) == UNION { {<<c, k>> : k \in DOMAIN artifact[c]} : c \in covers }

slotEntityOf(artifact, at) == slotEntity(artifact[at[1]], artifact[at[1]][at[2]].slot.canon)

nameStems(i) == matchKeys(i)

claimTokens(claim) == claim.stems \cup UNION {nameStems(i) : i \in Range(claim.entities)}

PlannedIds(covers, artifact) == collectEntityIdentities({artifact[c] : c \in covers})

\* Why a plan is refused; "" when it is not.
Rejection(covers, state, artifact, ordinal, view, links) ==
  LET ids == PlannedIds(covers, artifact)
      known == {<<at[1], artifact[at[1]][at[2]].digest>> : at \in ClaimsAt(covers, artifact)}
  IN CASE \E c \in covers : state[c] \notin {"ENRICHED", "CONSOLIDATED", "COMMITTED"} -> "revisionNotReady"
       [] \E c \in covers : GenerationOf[c] # Pinned -> "extractionGenerationMismatch"
       [] \E at \in ClaimsAt(covers, artifact) : artifact[at[1]][at[2]].turn \notin 0..(Len(Texts[at[1]]) - 1) -> "unknownTurn"
       [] ~(ids \subseteq DOMAIN view) -> "entityNotInCanonicalView"
       [] \E i \in ids : view[i] \notin ids -> "canonicalIdentityMissing"
       [] \E l \in links : ~({l.older, l.newer} \subseteq known) -> "unknownCausalEndpoint"
       [] \E l \in links : l.older = l.newer \/ ordinal[l.newer[1]] < ordinal[l.older[1]] -> "invalidCausalLink"
       [] OTHER -> ""

EntityVertices(ids, view) ==
  LET members(c) == {i \in ids : view[i] = c}
  IN [ v \in {EntityV(view[i]) : i \in ids} |->
         [canon |-> Entities[v[2]].canon,
          names |-> UNION {Names(i) : i \in members(v[2])},
          nMembers |-> Cardinality(members(v[2]))] ]

\* The relations of one claim.
ClaimRelations(artifact, view, at) ==
  LET c == at[1]  claim == artifact[c][at[2]]  v == ClaimV(c, claim.digest)
  IN {<<"SNAPSHOT_DERIVED_FROM", v, RevisionV(c)>>,
      <<"SNAPSHOT_EVIDENCE", v, EvidenceV(c, claim.turn)>>}
     \cup {<<"SNAPSHOT_MENTIONS", EntityV(view[i]), v>> : i \in Range(claim.entities)}
     \cup (IF claim.slot = NoSlot THEN {}
           ELSE {<<"SNAPSHOT_FILLS", v, SlotV(view[slotEntityOf(artifact, at)], claim.slot.attr)>>})
     \cup {<<"SNAPSHOT_HITS", TokenV(stem), v>> : stem \in claimTokens(claim)}

NameRelations(ids, view) ==
  UNION { {<<"SNAPSHOT_NAMES", TokenV(stem), EntityV(view[i])>> : stem \in nameStems(i)} : i \in ids }

MemberRelation ==
  [SnapshotRevision |-> "SNAPSHOT_HAS_REVISION", SnapshotEntity |-> "SNAPSHOT_HAS_ENTITY",
   SnapshotSlot |-> "SNAPSHOT_HAS_SLOT", SnapshotToken |-> "SNAPSHOT_HAS_TOKEN",
   SnapshotClaim |-> "SNAPSHOT_HAS_CLAIM", SnapshotEvidence |-> "SNAPSHOT_HAS_EVIDENCE"]

Into(rels, type, v) == {r \in rels : r[1] = type /\ r[3] = v}
From(rels, type, v) == {r \in rels : r[1] = type /\ r[2] = v}

\* Slots count the claims that fill them, tokens the claims they hit.
SlotVertices(rels) ==
  [v \in {r[3] : r \in {q \in rels : q[1] = "SNAPSHOT_FILLS"}} |->
     [nClaims |-> Cardinality(Into(rels, "SNAPSHOT_FILLS", v))]]

TokenVertices(rels) ==
  [v \in {r[2] : r \in {q \in rels : q[1] \in {"SNAPSHOT_HITS", "SNAPSHOT_NAMES"}}} |->
     [df |-> Cardinality(From(rels, "SNAPSHOT_HITS", v))]]

CausalRelations(links) ==
  { <<"SNAPSHOT_SUPERSEDED_BY", ClaimV(l.older[1], l.older[2]), ClaimV(l.newer[1], l.newer[2])>> : l \in links }

\* The claims of what is covered.
ClaimVertices(covers, artifact) == {ClaimV(at[1], artifact[at[1]][at[2]].digest) : at \in ClaimsAt(covers, artifact)}

\* The relations its claims and its identities' names make.
DataRelations(covers, artifact, view) ==
  (UNION {ClaimRelations(artifact, view, at) : at \in ClaimsAt(covers, artifact)})
    \cup NameRelations(PlannedIds(covers, artifact), view)

\* The vertices of those claims, identities and relations, and all relations.
GraphOf(covers, ids, claims, data, causal, ordinal, view) ==
  LET claimVs == [v \in claims |-> [ord |-> ordinal[v[2]]]]
      evidenceVs == [v \in {r[3] : r \in {q \in data : q[1] = "SNAPSHOT_EVIDENCE"}} |-> Plain]
      revisionVs == [v \in {RevisionV(c) : c \in covers} |->
                       [nClaims |-> Cardinality(Into(data, "SNAPSHOT_DERIVED_FROM", v))]]
      entityVs == EntityVertices(ids, view)
      slotVs == SlotVertices(data)
      tokenVs == TokenVertices(data)
      members == Over(claimVs, Over(evidenceVs, Over(revisionVs, Over(entityVs, Over(slotVs, tokenVs)))))
      has == {<<MemberRelation[v[1]], Root, v>> : v \in DOMAIN members}
      root == [nRevisions |-> Cardinality(covers), nEntities |-> Cardinality(DOMAIN entityVs),
               nClaims |-> Cardinality(DOMAIN claimVs), nEvidence |-> Cardinality(DOMAIN evidenceVs),
               nSlots |-> Cardinality(DOMAIN slotVs), nTokens |-> Cardinality(DOMAIN tokenVs)]
  IN [vertices |-> Over([v \in {Root} |-> root], members),
      relations |-> [r \in data \cup causal \cup has |->
                       IF r[1] = "SNAPSHOT_SUPERSEDED_BY" THEN [atSession |-> ordinal[r[3][2]]] ELSE Plain]]

\* The plan of what is covered: its vertices and its relations.
planSnapshotGraph(covers, artifact, ordinal, view, links) ==
  GraphOf(covers, PlannedIds(covers, artifact), ClaimVertices(covers, artifact),
          DataRelations(covers, artifact, view), CausalRelations(links), ordinal, view)
=============================================================================
