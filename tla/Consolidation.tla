---------------------------- MODULE Consolidation ----------------------------
(***************************************************************************)
(* One scope's claims from extraction (SourceIndex) to a verified snapshot   *)
(* graph: what the stages ENRICHED and CONSOLIDATED compute and store        *)
(* (TransactionalSourceIndex.ts, IngestManifest/Enrichments.ts and           *)
(* CanonicalView.ts, SnapshotGraph.ts).                                     *)
(*                                                                         *)
(* SourceCommit has the stages' order, the lock, the crashes and the         *)
(* terminal commit; here a stage's data is what matters, so a stage is one   *)
(* action except that each answer of the decider is stored on its own, and   *)
(* that the graph may be damaged between its writing and its read-back.      *)
(***************************************************************************)
EXTENDS SourceIndex

CONSTANTS
  Ordinal,       \* the place of each revision's session
  Replies,       \* the sets of pairs the decider may answer with
  Stranger,      \* a vertex that no snapshot has
  MayFail,       \* the revisions that may fail for good
  Fragile,       \* the labels and relation types that faults strike
  MaxDamages     \* bound on the faults of the graph

ASSUME ConsolidationAssumption ==
  /\ Ordinal \in [Commits -> Nat] /\ MaxDamages \in Nat
  /\ MayFail \subseteq Commits /\ {} \in Replies
  /\ \A reply \in Replies : reply \subseteq Nat \X Nat

ASSUME StrangerIsNoVertex == Stranger[1] \notin {"SnapshotRoot"} \cup DOMAIN MemberRelation

VARIABLES
  parked,        \* revisions failed for good
  chainRows,     \* supersession_chain_decisions
  decisions,     \* supersession_decisions: a set of links, once ENRICHED
  snapshot,      \* the snapshot being built with the stored view it pins, or None
  graph,         \* its namespace in the graph: vertices and relations
  damages        \* the faults so far

vars == <<sourceVars, parked, chainRows, decisions, snapshot, graph, damages>>

None == [state |-> "none"]

NoGraph == [vertices |-> <<>>, relations |-> <<>>]

ConsolidationInit ==
  /\ SourceInit
  /\ parked = {}
  /\ chainRows = {}
  /\ decisions = [c \in Commits |-> {}]
  /\ snapshot = None
  /\ graph = NoGraph
  /\ damages = 0

-----------------------------------------------------------------------------
\* The scope's lock: nothing else runs between the writing and the read-back.
Unlocked == snapshot.state # "WRITTEN"

\* Revisions are listed by their session's place, then by their commit id.
Listed(cs) ==
  Sorted(cs, LAMBDA a, b : Ordinal[a] < Ordinal[b] \/ (Ordinal[a] = Ordinal[b] /\ a <= b))

\* The stages before enrichment.
Index(c) ==
  /\ Unlocked /\ c \notin parked
  /\ StoreTranscript(c) \/ StoreIndex(c)
  /\ UNCHANGED <<parked, chainRows, decisions, snapshot, graph, damages>>

\* A failure classified as data: the revision goes no further.
Park(c) ==
  /\ Unlocked /\ c \in MayFail \ parked /\ ReachedIndex(c)
  /\ parked' = parked \cup {c}
  /\ UNCHANGED <<sourceVars, chainRows, decisions, snapshot, graph, damages>>

\* The revisions enrichment looks at: extracted, of this session or an earlier
\* one, not failed for good.
ChainSources(c) ==
  Listed({d \in Commits : /\ Ordinal[d] <= Ordinal[c]
                          /\ d \notin parked
                          /\ ReachedIndex(d)})

ChainsOf(c) == collectSupersessionChains(ChainSources(c), artifact, Ordinal, c)

RowOf(c, chain) == {row \in chainRows : row.commit = c /\ row.chain = chain}

\* Links between two claims; a pair of one claim extracted twice is refused.
normalizedLinks(links) == \A l \in links : l.older # l.newer

\* The decider answers for one chain and the answer is stored, or the attempt
\* fails with nothing stored.
Decide(c) ==
  /\ Unlocked /\ state[c] = "INDEXED" /\ c \notin parked
  /\ \E chain \in ChainsOf(c), reply \in Replies :
       LET links == pairsToDecisionLinks(chain, decideSlotSupersession(chain, reply))
       IN /\ RowOf(c, chain) = {}
          /\ normalizedLinks(links)
          /\ chainRows' = chainRows \cup {[commit |-> c, chain |-> chain, links |-> links]}
  /\ UNCHANGED <<sourceVars, parked, decisions, snapshot, graph, damages>>

\* The links of this run's chains become the revision's decisions; its rows are
\* not read again.
Enrich(c) ==
  /\ Unlocked /\ state[c] = "INDEXED" /\ c \notin parked
  /\ LET chains == ChainsOf(c)
     IN /\ \A chain \in chains : RowOf(c, chain) # {}
        /\ decisions' = [decisions EXCEPT ![c] =
                           UNION {row.links : row \in {r \in chainRows : r.commit = c /\ r.chain \in chains}}]
  /\ state' = [state EXCEPT ![c] = "ENRICHED"]
  /\ chainRows' = {row \in chainRows : row.commit # c}
  /\ UNCHANGED <<parked, artifact, planes, snapshot, graph, damages>>

-----------------------------------------------------------------------------
coveredRevisions(c) == {d \in Commits : state[d] = "CONSOLIDATED" /\ d \notin parked} \cup {c}

\* Fault: the links of every revision are taken.
AllLinks(covers) == UNION Range(decisions)

\* The covered revisions' links between claims that are covered too.
CausalLinks(covers) ==
  UNION { {l \in decisions[d] : {l.older[1], l.newer[1]} \subseteq covers} : d \in covers }

Plan == snapshot.plan

\* The view of what is covered is stored with its edges, under a content
\* address; the snapshot is registered, planned, and written, over what an attempt before left of it.
Consolidate(c) ==
  /\ Unlocked /\ state[c] = "ENRICHED" /\ c \notin parked
  /\ LET covers == coveredRevisions(c)
         view == createEntityCanonicalView(PlannedIds(covers, artifact))
         links == CausalLinks(covers)
         rejected == Rejection(covers, state, artifact, Ordinal, view, links)
         plan == IF rejected = "" THEN planSnapshotGraph(covers, artifact, Ordinal, view, links) ELSE NoGraph
         again == snapshot.state = "BUILDING" /\ snapshot.covers = covers
     IN /\ snapshot' = [of |-> c, covers |-> covers, view |-> view, edges |-> sameAs(view), plan |-> plan,
                        state |-> IF rejected = "" THEN "WRITTEN" ELSE rejected]
        /\ graph' = IF again THEN [vertices |-> Over(plan.vertices, graph.vertices),
                                  relations |-> Over(plan.relations, graph.relations)]
                    ELSE plan
        /\ damages' = IF again THEN damages ELSE 0
  /\ UNCHANGED <<sourceVars, parked, chainRows, decisions>>

\* One vertex of each label, or one relation of each type, that faults strike.
SomeOf(elements) ==
  LET struck == {e \in elements : e[1] \in Fragile} IN {CHOOSE e \in struck : e[1] = f[1] : f \in struck}

\* What is stored is not what was written: a vertex is missing with its
\* relations, a relation is missing, a relation is one too many, or a property
\* differs.
Damage ==
  /\ snapshot.state = "WRITTEN" /\ damages < MaxDamages
  /\ damages' = damages + 1
  /\ \/ \E v \in SomeOf(DOMAIN graph.vertices) :
          graph' = [vertices |-> [w \in DOMAIN graph.vertices \ {v} |-> graph.vertices[w]],
                    relations |-> [r \in {q \in DOMAIN graph.relations : v \notin {q[2], q[3]}}
                                     |-> graph.relations[r]]]
     \/ \E r \in SomeOf(DOMAIN graph.relations) :
          graph' = [graph EXCEPT !.relations = [q \in DOMAIN @ \ {r} |-> @[q]]]
     \/ \E v \in SomeOf(DOMAIN graph.vertices), out \in BOOLEAN :
          graph' = [graph EXCEPT !.relations =
                      Over([r \in {IF out THEN <<"SNAPSHOT_HITS", v, Stranger>> ELSE <<"SNAPSHOT_HITS", Stranger, v>>}
                              |-> Plain], @)]
     \/ \E v \in SomeOf(DOMAIN graph.vertices) : graph' = [graph EXCEPT !.vertices[v] = Plain]
  /\ UNCHANGED <<sourceVars, parked, chainRows, decisions, snapshot>>

-----------------------------------------------------------------------------
\* What the member relations lead to from the root.
observedMembers ==
  {r[3] : r \in {q \in DOMAIN graph.relations : q[2] = Root /\ q[1] \in Range(MemberRelation)}}

\* Fault: members are walked only in the direction their relations are written.
OutgoingOnly(planned) == {r \in DOMAIN graph.relations : r[2] \in planned}

\* What the walks from the root outwards, and from every planned member both
\* ways, come upon.
observedRelations(planned) ==
  {r \in DOMAIN graph.relations : r[2] \in planned \/ r[3] \in planned \ {Root}}

PropertiesOf(v) == IF v \in DOMAIN graph.vertices THEN graph.vertices[v] ELSE Plain

\* The read-back finds what was planned, all of it and nothing else.
verifyReadBack ==
  LET planned == DOMAIN Plan.vertices
      relations == observedRelations(planned)
  IN /\ Root \in DOMAIN graph.vertices
     /\ graph.vertices[Root] = Plan.vertices[Root]
     /\ observedMembers = planned \ {Root}
     /\ \A v \in observedMembers : PropertiesOf(v) = Plan.vertices[v]
     /\ relations = DOMAIN Plan.relations
     /\ \A r \in relations : graph.relations[r] = Plan.relations[r]

\* Verified: the revision is CONSOLIDATED.
Verify ==
  /\ snapshot.state = "WRITTEN" /\ verifyReadBack
  /\ snapshot' = [snapshot EXCEPT !.state = "VERIFIED"]
  /\ state' = [state EXCEPT ![snapshot.of] = "CONSOLIDATED"]
  /\ UNCHANGED <<parked, artifact, planes, chainRows, decisions, graph, damages>>

\* Not verified, or interrupted: the snapshot is still BUILDING.
Abandon ==
  /\ snapshot.state = "WRITTEN"
  /\ snapshot' = [snapshot EXCEPT !.state = "BUILDING"]
  /\ UNCHANGED <<sourceVars, parked, chainRows, decisions, graph, damages>>

ConsolidationNext ==
  \/ \E c \in Commits :
       \/ Index(c)
       \/ Park(c)
       \/ Decide(c)
       \/ Enrich(c)
       \/ Consolidate(c)
  \/ Damage
  \/ Verify
  \/ Abandon

ConsolidationSpec == ConsolidationInit /\ [][ConsolidationNext]_vars

-----------------------------------------------------------------------------
\* Types of the variables.
ConsolidationTypeOK ==
  /\ state \in [Commits -> {"RECEIVED", "SOURCE_DURABLE", "INDEXED", "ENRICHED", "CONSOLIDATED"}]
  /\ parked \subseteq Commits
  /\ \A c \in Commits : ReachedIndex(c) => ~Unextracted(c)
  /\ \A row \in chainRows : row.commit \in Commits
  /\ \A c \in Commits : decisions[c] # {} => state[c] \in {"ENRICHED", "CONSOLIDATED"}
  /\ \A l \in (UNION Range(decisions)) \cup UNION {row.links : row \in chainRows} :
       l.older # l.newer /\ {l.older[1], l.newer[1]} \subseteq Commits
  /\ damages \in 0..MaxDamages

\* Two names are of one entity when a row of match keys leads from one to the
\* other: every set of identities that holds the one and, with an identity,
\* all that share a key with it, holds the other.
Kin(ids) ==
  LET closed == {s \in SUBSET ids :
                   \A a \in s, b \in ids \ s : matchKeys(a) \cap matchKeys(b) = {}}
  IN [i \in ids |-> {j \in ids : \A s \in closed : i \in s => j \in s}]

\* A view that is stored resolves two identities alike exactly when they are of
\* one entity, to the one of them whose canon is least; its edges say the same.
ViewIsThePartition ==
  [][snapshot'.state = "WRITTEN" =>
       LET view == snapshot'.view  kin == Kin(DOMAIN view)
       IN \A i \in DOMAIN view :
            /\ {j \in DOMAIN view : view[j] = view[i]} = kin[i]
            /\ view[i] \in kin[i]
            /\ \A j \in kin[i] : Entities[view[i]].canon <= Entities[j].canon
            /\ view[i] = i \/ <<i, view[i]>> \in snapshot'.edges]_snapshot

\* A snapshot of revisions of one extraction generation is never refused at
\* planning: what enrichment and consolidation store always makes a plan.
ConsolidationPlans ==
  snapshot # None =>
    snapshot.state \in {"WRITTEN", "BUILDING", "VERIFIED"}
      \cup (IF \A c \in snapshot.covers : GenerationOf[c] = Pinned THEN {} ELSE {"extractionGenerationMismatch"})

Causal(plan) == {<<r[2], r[3]>> : r \in {q \in DOMAIN plan.relations : q[1] = "SNAPSHOT_SUPERSEDED_BY"}}

\* Replacement never runs in a circle, whichever revisions decided its links
\* and in whichever order they came: no set of claims is each replaced by
\* another of the set.
ReplacementEnds ==
  [][snapshot'.state = "WRITTEN" =>
       LET causal == Causal(snapshot'.plan)
       IN \A s \in (SUBSET {e[1] : e \in causal}) \ {{}} : \E v \in s : \A w \in s : <<v, w>> \notin causal]_snapshot

\* The graph holds the plan and nothing else that touches it; a relation that
\* only leads into the root from outside is not looked for.
HoldsThePlan ==
  /\ Root \in DOMAIN graph.vertices
  /\ graph.vertices = Plan.vertices
  /\ {r \in DOMAIN graph.relations : ~(r[2] = Stranger /\ r[3] = Root)} = DOMAIN Plan.relations
  /\ \A r \in DOMAIN Plan.relations : graph.relations[r] = Plan.relations[r]

\* The read-back accepts exactly the graph that holds the plan, whatever was
\* lost, added or changed between the writing and the reading.
ReadBackIsExact ==
  snapshot.state = "WRITTEN" => (verifyReadBack <=> HoldsThePlan)
=============================================================================
