---------------------------- MODULE CanonicalView ----------------------------
(***************************************************************************)
(* Entity identities and the view that resolves them (Canon.ts,            *)
(* SupersessionDecision.ts, EntityCanonicalView.ts), and the chains of      *)
(* claims that contest one slot.                                           *)
(*                                                                         *)
(* An entity as extracted is a canon and aliases.  Its identity is a        *)
(* content address, here its position in Entities, so the order of          *)
(* identities says nothing of their names.  Names are numbers, compared as  *)
(* localeCompare compares canons.                                          *)
(*                                                                         *)
(* A claim is a record: its digest (text and span), its turn and offset,    *)
(* the sequence of its entities, its slot or NoSlot, its own stems.         *)
(***************************************************************************)
EXTENDS Naturals, Sequences, FiniteSets, SequencesExt

CONSTANTS
  Entities,      \* the sequence of entities that can be extracted
  KeyOf,         \* the match key of each name, or NoKey when it has no stem
  NoKey,
  NoSlot

Identities == 1..Len(Entities)

\* Every slot's canon has an entity with no alias, which stands for it when the
\* source names no entity so.
ASSUME EntitiesAreContentAddressed ==
  /\ Len(Entities) \in Nat /\ IsInjective(Entities) /\ DOMAIN KeyOf \subseteq Nat
  /\ \A i \in Identities : Entities[i].canon \in DOMAIN KeyOf /\ Entities[i].aliases \subseteq DOMAIN KeyOf

Names(i) == {Entities[i].canon} \cup Entities[i].aliases

matchKeys(i) == {KeyOf[n] : n \in Names(i)} \ {NoKey}

\* The identities a source's claims name, in order.
Extracted(claims) == FlattenSeq([k \in DOMAIN claims |-> claims[k].entities])

Bare(canon) == CHOOSE i \in Identities : Entities[i] = [canon |-> canon, aliases |-> {}]

\* A slot's entity: the first of the same source with its canon.
slotEntity(claims, canon) ==
  LET k == SelectInSeq(Extracted(claims), LAMBDA i : Entities[i].canon = canon)
  IN IF k = 0 THEN Bare(canon) ELSE Extracted(claims)[k]

SlotsOf(claims) == {k \in DOMAIN claims : claims[k].slot # NoSlot}

collectEntityIdentities(sources) ==
  UNION { (UNION {Range(claims[k].entities) : k \in DOMAIN claims})
            \cup {slotEntity(claims, claims[k].slot.canon) : k \in SlotsOf(claims)}
        : claims \in sources }

-----------------------------------------------------------------------------
\* Each match key links its identities to the lowest of them.
matchKeyEquivalences(ids) ==
  { e \in ids \X ids :
      /\ e[1] < e[2]
      /\ \E key \in matchKeys(e[1]) \cap matchKeys(e[2]) :
           \A j \in ids : key \in matchKeys(j) => e[1] <= j }

GroupOf(groups, i) == CHOOSE g \in groups : i \in g

union(groups, e) ==
  LET left == GroupOf(groups, e[1])
      right == GroupOf(groups, e[2])
  IN (groups \ {left, right}) \cup {left \cup right}

groupsOf(ids) ==
  FoldSet(LAMBDA e, groups : union(groups, e), {{i} : i \in ids}, matchKeyEquivalences(ids))

\* A union's root is the lower of two roots, a group's the lowest identity.
rootOf(groups, i) == CHOOSE r \in GroupOf(groups, i) : \A j \in GroupOf(groups, i) : r <= j

compareIdentity(i, j) ==
  \/ Entities[i].canon < Entities[j].canon
  \/ Entities[i].canon = Entities[j].canon /\ i <= j

\* Fault: the least identity of a component, whatever its canon, stands for it.
LeastIdentity(g) == CHOOSE i \in g : \A j \in g : i <= j

canonicalOf(g) == CHOOSE i \in g : \A j \in g : compareIdentity(i, j)

\* What every identity of the sources resolves to.
createEntityCanonicalView(ids) ==
  LET groups == groupsOf(ids) IN [i \in ids |-> canonicalOf(GroupOf(groups, i))]

sameAs(view) == {<<i, view[i]>> : i \in {j \in DOMAIN view : view[j] # j}}

-----------------------------------------------------------------------------
\* Oldest first: session, turn, offset, digest, then as the sources list them.
Before(l, r) ==
  LET a == <<l.ord, l.turn, l.cs, l.digest, l.at[1], l.at[2]>>
      b == <<r.ord, r.turn, r.cs, r.digest, r.at[1], r.at[2]>>
      differ == {k \in 1..6 : a[k] # b[k]}
  IN differ = {} \/ \E k \in differ : a[k] < b[k] /\ \A j \in differ : k <= j

\* The elements in the order given, which is total.
Sorted(elements, before(_, _)) ==
  [k \in 1..Cardinality(elements) |->
     CHOOSE e \in elements : Cardinality({f \in elements : before(f, e)}) = k]

\* What fills a slot in the sources listed: artifact gives a revision's claims,
\* ordinal its session's place.
Fillings(listed, artifact, ordinal) ==
  LET groups == groupsOf(collectEntityIdentities({artifact[c] : c \in Range(listed)}))
      Filling(at, k) ==
        LET c == listed[at]  claim == artifact[c][k]
            entity == slotEntity(artifact[c], claim.slot.canon)
        IN [key |-> <<rootOf(groups, entity), claim.slot.attr>>, label |-> Entities[entity].canon,
            commit |-> c, digest |-> claim.digest, ord |-> ordinal[c],
            turn |-> claim.turn, cs |-> claim.cs, at |-> <<at, k>>]
  IN UNION { {Filling(at, k) : k \in SlotsOf(artifact[listed[at]])} : at \in DOMAIN listed }

\* The chain of one slot: its claims oldest first, under the canon of the one
\* listed first.
ChainAt(fillings, key) ==
  LET claims == {f \in fillings : f.key = key}
      first == CHOOSE f \in claims : \A g \in claims :
                 f.at[1] < g.at[1] \/ (f.at[1] = g.at[1] /\ f.at[2] <= g.at[2])
      sorted == Sorted(claims, Before)
  IN [label |-> first.label, attr |-> key[2],
      claims |-> [k \in DOMAIN sorted |-> [commit |-> sorted[k].commit, digest |-> sorted[k].digest,
                                           ord |-> sorted[k].ord]]]

\* The contested chains that hold a claim of the target.
collectSupersessionChains(listed, artifact, ordinal, target) ==
  LET fillings == Fillings(listed, artifact, ordinal)
  IN { chain \in {ChainAt(fillings, f.key) : f \in fillings} :
         /\ Len(chain.claims) >= 2
         /\ \E k \in DOMAIN chain.claims : chain.claims[k].commit = target }

\* Fault: a pair is kept whichever of its claims is the older.
EitherWay(chain, reply) == {p \in reply : {p[1], p[2]} \subseteq DOMAIN chain.claims}

\* The reply's pairs that name two claims of the chain, the newer the later one.
decideSlotSupersession(chain, reply) ==
  {p \in reply : p[1] >= 1 /\ p[2] <= Len(chain.claims) /\ p[1] < p[2]}

pairsToDecisionLinks(chain, pairs) ==
  { [older |-> <<chain.claims[p[1]].commit, chain.claims[p[1]].digest>>,
     newer |-> <<chain.claims[p[2]].commit, chain.claims[p[2]].digest>>] : p \in pairs }
=============================================================================
