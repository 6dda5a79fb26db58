---------------------------- MODULE GraphIdClaims ----------------------------
(***************************************************************************)
(* The claims on reduced graph ids (GraphIdClaims.ts and                   *)
(* IngestManifest/GraphClaims.ts).  A graph record is addressed by 53 bits *)
(* of a hash of its canonical identity, and HydraDB merges two identities  *)
(* that reduce to one id into one record.  So a writer first claims the id *)
(* for its identity in the manifest; a second identity is quarantined, and *)
(* leaves quarantine when it has been rebuilt under another identity.      *)
(*                                                                         *)
(* The two kinds of ids, vertices and relationships, never meet: the model *)
(* has one.  The identities of a write plan are claimed one by one and     *)
(* share nothing: a call has one.                                          *)
(***************************************************************************)
CONSTANTS
  Identities,       \* canonical identities
  Reduced,          \* the reduced id of an identity
  Writers,          \* calls that may run at once
  None

ASSUME ReducedIsTotal == DOMAIN Reduced = Identities
ASSUME NoneIsNoIdentity == None \notin Identities

Ids == {Reduced[k] : k \in Identities}

VARIABLES
  claimed,          \* graph_id_claims: the identity an id belongs to
  quarantine,       \* graph_id_quarantine: the collision recorded for an id
  graph,            \* the identities merged into the record of an id
  detected,         \* identities whose writer got GraphIdCollision, not rebuilt since
  pc, job           \* each writer's place and locals

graphIdVars == <<claimed, quarantine, graph, detected, pc, job>>

NoJob == [key |-> None, observed |-> {}, recovers |-> None]

\* A graph of an older release has identities no one claimed.
GraphIdInit ==
  /\ claimed = [i \in Ids |-> None]
  /\ quarantine = [i \in Ids |-> None]
  /\ \E old \in SUBSET Identities : graph = [i \in Ids |-> {k \in old : Reduced[k] = i}]
  /\ detected = {}
  /\ pc = [w \in Writers |-> "idle"]
  /\ job = [w \in Writers |-> NoJob]

Id(w) == Reduced[job[w].key]

MoveTo(w, where) == pc' = [pc EXCEPT ![w] = where]

Finish(w) == MoveTo(w, "idle") /\ job' = [job EXCEPT ![w] = NoJob]

-----------------------------------------------------------------------------
\* A write plan wants to upsert k.
CallWrite(w, k) ==
  /\ pc[w] = "idle"
  /\ job' = [job EXCEPT ![w] = [NoJob EXCEPT !.key = k]]
  /\ MoveTo(w, "observe")
  /\ UNCHANGED <<claimed, quarantine, graph, detected>>

\* recoverGraphIdCollision: k is rebuilt as new, which has to reduce to another id.
CallRecover(w, k, new) ==
  /\ pc[w] = "idle"
  /\ Reduced[new] # Reduced[k]
  /\ job' = [job EXCEPT ![w] = [NoJob EXCEPT !.key = new, !.recovers = k]]
  /\ MoveTo(w, "observe")
  /\ UNCHANGED <<claimed, quarantine, graph, detected>>

\* Fault: what an older graph holds is not looked at.
ObservesNothing(i) == {}

Observed(i) == graph[i]

Observe(w) ==
  /\ pc[w] = "observe"
  /\ job' = [job EXCEPT ![w].observed = Observed(Id(w))]
  /\ MoveTo(w, "adopt")
  /\ UNCHANGED <<claimed, quarantine, graph, detected>>

-----------------------------------------------------------------------------
(***************************************************************************)
(* claimGraphId, one transaction.                                          *)
(***************************************************************************)

Claimable(k) == claimed[Reduced[k]] \in {None, k}

Grant(k) ==
  /\ Claimable(k)
  /\ claimed' = [claimed EXCEPT ![Reduced[k]] = k]
  /\ UNCHANGED <<quarantine, detected>>

Collision(k) == [existing |-> claimed[Reduced[k]], rejected |-> k]

\* The first collision of an id is recorded, a later one is not.
Reject(k) ==
  /\ ~Claimable(k)
  /\ quarantine' = [quarantine EXCEPT ![Reduced[k]] = IF @ = None THEN Collision(k) ELSE @]
  /\ detected' = detected \cup {k}
  /\ UNCHANGED claimed

\* The observed identities are claimed before the writer's own.
Adopt(w) ==
  /\ pc[w] = "adopt"
  /\ \E k \in job[w].observed :
       \/ /\ Grant(k)
          /\ job' = [job EXCEPT ![w].observed = @ \ {k}]
          /\ UNCHANGED pc
       \/ Reject(k) /\ Finish(w)
  /\ UNCHANGED graph

ClaimOwn(w) ==
  /\ pc[w] = "adopt"
  /\ job[w].observed = {}
  /\ \/ Grant(job[w].key) /\ MoveTo(w, "write") /\ UNCHANGED job
     \/ Reject(job[w].key) /\ Finish(w)
  /\ UNCHANGED graph

-----------------------------------------------------------------------------
\* The upsert.
Upsert(w) ==
  /\ pc[w] = "write"
  /\ job[w].recovers = None
  /\ graph' = [graph EXCEPT ![Id(w)] = @ \cup {job[w].key}]
  /\ Finish(w)
  /\ UNCHANGED <<claimed, quarantine, detected>>

\* The caller's rebuild, which may not have written what was asked for.
Rebuild(w) ==
  /\ pc[w] = "write"
  /\ job[w].recovers # None
  /\ \/ graph' = [graph EXCEPT ![Id(w)] = @ \cup {job[w].key}]
     \/ UNCHANGED graph
  /\ MoveTo(w, "readback")
  /\ UNCHANGED <<claimed, quarantine, detected, job>>

\* Fault: the rebuilt record is not read back.
TrustsRebuild(w) == TRUE

RebuiltAlone(w) == graph[Id(w)] = {job[w].key}

ReadBack(w) ==
  /\ pc[w] = "readback"
  /\ IF RebuiltAlone(w) THEN MoveTo(w, "complete") /\ UNCHANGED job ELSE Finish(w)
  /\ UNCHANGED <<claimed, quarantine, graph, detected>>

\* completeGraphIdRekey needs the recorded rejection and the replacement's claim.
Resolves(w) ==
  LET record == quarantine[Reduced[job[w].recovers]] IN
  /\ record # None
  /\ record.rejected = job[w].recovers
  /\ claimed[Id(w)] = job[w].key

Complete(w) ==
  LET k == job[w].recovers IN
  /\ pc[w] = "complete"
  /\ IF Resolves(w)
     THEN /\ quarantine' = [quarantine EXCEPT ![Reduced[k]] = None]
          /\ detected' = detected \ {k}
     ELSE UNCHANGED <<quarantine, detected>>
  /\ Finish(w)
  /\ UNCHANGED <<claimed, graph>>

\* The process dies or a read or write fails: what was claimed stays claimed.
Abandon(w) ==
  /\ pc[w] # "idle"
  /\ Finish(w)
  /\ UNCHANGED <<claimed, quarantine, graph, detected>>

WriterStep(w) ==
  \/ \E k \in Identities : CallWrite(w, k)
  \/ \E k, new \in Identities : CallRecover(w, k, new)
  \/ Observe(w) \/ Adopt(w) \/ ClaimOwn(w)
  \/ Upsert(w) \/ Rebuild(w) \/ ReadBack(w) \/ Complete(w)
  \/ Abandon(w)

GraphIdNext == \E w \in Writers : WriterStep(w)

GraphIdSpec == GraphIdInit /\ [][GraphIdNext]_graphIdVars

-----------------------------------------------------------------------------
\* The rows and locals are well formed, and an id is claimed by, quarantined for
\* and stores only identities that reduce to it.
GraphIdTypeOK ==
  /\ claimed \in [Ids -> Identities \cup {None}]
  /\ \A i \in Ids : claimed[i] # None => Reduced[claimed[i]] = i
  /\ quarantine \in [Ids -> [existing : Identities, rejected : Identities] \cup {None}]
  /\ graph \in [Ids -> SUBSET Identities]
  /\ \A i \in Ids : \A k \in graph[i] : Reduced[k] = i
  /\ detected \subseteq Identities
  /\ pc \in [Writers -> {"idle", "observe", "adopt", "write", "readback", "complete"}]
  /\ job \in [Writers -> [key : Identities \cup {None}, observed : SUBSET Identities,
                          recovers : Identities \cup {None}]]

\* No write merges an identity into a record that stands for another: neither one
\* of two writers that looked before either had written, nor one that meets what
\* an older release left.
NothingMerged == [][\A i \in Ids : graph[i] # {} => graph'[i] = graph[i]]_graphIdVars

\* A claim and the record it is for never disagree, although claims are made
\* before the write and records of older releases have none.
ClaimOwnsRecord ==
  \A i \in Ids : claimed[i] # None /\ graph[i] # {} => claimed[i] \in graph[i]

\* A quarantine record names the identity that owns the id now and a rival of it.
QuarantineNamesRivals ==
  \A i \in Ids :
    quarantine[i] # None =>
      /\ quarantine[i].existing = claimed[i]
      /\ quarantine[i].rejected # claimed[i]
      /\ Reduced[quarantine[i].rejected] = i

\* A quarantine is cleared only by a recovery of the identity it records, whose
\* replacement is claimed and stands alone in the graph when it is cleared.
ClearedAfterRebuild ==
  [][\A i \in Ids :
       quarantine[i] # None /\ quarantine'[i] # quarantine[i] =>
         /\ quarantine'[i] = None
         /\ \E w \in Writers :
              /\ job[w].recovers = quarantine[i].rejected
              /\ claimed[Id(w)] = job[w].key
              /\ graph[Id(w)] = {job[w].key}]_graphIdVars

\* What a writer relies on: it owns the id when it is about to write, and when it
\* has adopted all it observed the id is free only if nothing is stored.
WriterInv(w) ==
  /\ pc[w] # "idle" => job[w].key \in Identities
  /\ pc[w] \in {"readback", "complete"} => job[w].recovers \in Identities
  /\ pc[w] \in {"write", "readback", "complete"} => claimed[Id(w)] = job[w].key
  /\ pc[w] = "complete" => graph[Id(w)] = {job[w].key}
  /\ pc[w] = "adopt" =>
       /\ \A k \in job[w].observed : Reduced[k] = Id(w)
       /\ claimed[Id(w)] # None \/ graph[Id(w)] = job[w].observed

\* The inductive invariant: writers rely only on what other writers keep true.
GraphIdInv ==
  /\ GraphIdTypeOK
  /\ ClaimOwnsRecord
  /\ QuarantineNamesRivals
  /\ \A w \in Writers : WriterInv(w)
=============================================================================
