------------------------- MODULE GraphWritesProofs -------------------------
(***************************************************************************)
(* Proofs about what goes into the graph: the claims on the ids of records  *)
(* before they are written (GraphIdClaims), and the chunks a plan is        *)
(* written in (HydraWrites).                                               *)
(*   For every set of identities, every reduction of them and any number of *)
(* writers, no write merges two identities into one record.                 *)
(*   For every plan, every chunk size and budget, and every way the engine  *)
(* answers, a reported success stored the whole plan, and relationships are *)
(* never sent before their endpoints.                                      *)
(***************************************************************************)
EXTENDS GraphIdClaims, HydraWrites, SequenceTheorems, TLAPS

-----------------------------------------------------------------------------
(***************************************************************************)
(* GraphIdClaims.                                                          *)
(***************************************************************************)


\* A fresh manifest beside a graph of any older release satisfies the invariant.
LEMMA InitEstablishes == GraphIdInit => GraphIdInv
<1> SUFFICES ASSUME GraphIdInit PROVE GraphIdInv
  OBVIOUS
<1> USE DEF GraphIdInit
<1>1. PICK old \in SUBSET Identities : graph = [i \in Ids |-> {k \in old : Reduced[k] = i}]
  OBVIOUS
<1>2. GraphIdTypeOK
  <2>1. graph \in [Ids -> SUBSET Identities]
    BY <1>1
  <2>2. \A i \in Ids : \A k \in graph[i] : Reduced[k] = i
    BY <1>1
  <2> QED
    BY <2>1, <2>2 DEF GraphIdTypeOK, NoJob
<1>3. ClaimOwnsRecord
  BY DEF ClaimOwnsRecord
<1>4. QuarantineNamesRivals
  BY DEF QuarantineNamesRivals
<1>5. \A w \in Writers : WriterInv(w)
  BY DEF WriterInv
<1> QED
  BY <1>2, <1>3, <1>4, <1>5 DEF GraphIdInv

-----------------------------------------------------------------------------
(***************************************************************************)
(* What one writer may do without disturbing the others.                   *)
(***************************************************************************)

\* Claims are only added, an unclaimed id is not written, and what a record
\* stands for does not change.
Harmless ==
  /\ \A i \in Ids : claimed[i] # None => claimed'[i] = claimed[i]
  /\ \A i \in Ids : claimed[i] = None => graph'[i] = graph[i]
  /\ \A i \in Ids : graph[i] # {} => graph'[i] = graph[i]

\* The id of an identity is one of Ids.
LEMMA IdIsAnId == \A k \in Identities : Reduced[k] \in Ids
BY DEF Ids

\* A harmless step of one writer keeps what the others rely on.
LEMMA OthersUndisturbed ==
  ASSUME GraphIdInv, Harmless, NEW v \in Writers,
         pc'[v] = pc[v], job'[v] = job[v]
  PROVE  WriterInv(v)'
<1>1. WriterInv(v) /\ Id(v)' = Id(v)
  BY DEF GraphIdInv, Id
<1>2. CASE pc[v] = "idle"
  BY <1>2 DEF WriterInv
<1>3. CASE pc[v] # "idle"
  <2>1. job[v].key \in Identities /\ job[v].key # None /\ Id(v) \in Ids
    BY <1>1, <1>3, IdIsAnId, NoneIsNoIdentity DEF WriterInv, Id
  <2>2. ASSUME pc[v] = "complete" PROVE graph'[Id(v)] = {job[v].key}
    BY <1>1, <2>1, <2>2 DEF WriterInv, Harmless
  <2>3. ASSUME pc[v] = "adopt" PROVE claimed'[Id(v)] # None \/ graph'[Id(v)] = job[v].observed
    BY <1>1, <2>1, <2>3 DEF WriterInv, Harmless
  <2>4. ASSUME pc[v] \in {"write", "readback", "complete"} PROVE claimed'[Id(v)] = job[v].key
    BY <1>1, <2>1, <2>4 DEF WriterInv, Harmless
  <2> QED
    BY <1>1, <1>3, <2>2, <2>3, <2>4 DEF WriterInv
<1> QED
  BY <1>2, <1>3

\* A step that changes neither claims nor the graph is harmless.
LEMMA SilentIsHarmless ==
  ASSUME UNCHANGED <<claimed, graph>> PROVE Harmless
BY DEF Harmless

\* The invariant after a harmless step of w, from what w itself has to show.
LEMMA StepKeeps ==
  ASSUME GraphIdInv, Harmless, NEW w \in Writers,
         NEW where \in {"idle", "observe", "adopt", "write", "readback", "complete"},
         pc' = [pc EXCEPT ![w] = where],
         NEW j \in [key : Identities \cup {None}, observed : SUBSET Identities,
                    recovers : Identities \cup {None}],
         job' = [job EXCEPT ![w] = j],
         GraphIdTypeOK', ClaimOwnsRecord', QuarantineNamesRivals', WriterInv(w)'
  PROVE  GraphIdInv'
<1>1. ASSUME NEW v \in Writers, v # w PROVE WriterInv(v)'
  <2>1. pc'[v] = pc[v] /\ job'[v] = job[v]
    BY <1>1 DEF GraphIdInv, GraphIdTypeOK
  <2> QED
    BY <2>1, OthersUndisturbed
<1> QED
  BY <1>1 DEF GraphIdInv

\* A step of w that changes no row and not the graph.
LEMMA OnlyThisWriter ==
  ASSUME GraphIdInv, NEW w \in Writers,
         UNCHANGED <<claimed, quarantine, graph, detected>>,
         NEW where \in {"idle", "observe", "adopt", "write", "readback", "complete"},
         pc' = [pc EXCEPT ![w] = where],
         NEW j \in [key : Identities \cup {None}, observed : SUBSET Identities,
                    recovers : Identities \cup {None}],
         job' = [job EXCEPT ![w] = j],
         WriterInv(w)'
  PROVE  GraphIdInv'
<1>1. GraphIdTypeOK'
  BY DEF GraphIdInv, GraphIdTypeOK
<1>2. ClaimOwnsRecord' /\ QuarantineNamesRivals'
  BY DEF GraphIdInv, ClaimOwnsRecord, QuarantineNamesRivals
<1> QED
  BY <1>1, <1>2, SilentIsHarmless, StepKeeps

-----------------------------------------------------------------------------
(***************************************************************************)
(* The claim transaction.                                                  *)
(***************************************************************************)

\* A granted claim is harmless, and sound if the record it is for is empty or
\* holds the identity.
LEMMA GrantIsSound ==
  ASSUME GraphIdInv, NEW k \in Identities, Grant(k), UNCHANGED graph,
         claimed[Reduced[k]] = None =>
           graph[Reduced[k]] = {} \/ k \in graph[Reduced[k]]
  PROVE  /\ Harmless
         /\ claimed' \in [Ids -> Identities \cup {None}]
         /\ \A i \in Ids : claimed'[i] # None => Reduced[claimed'[i]] = i
         /\ claimed'[Reduced[k]] = k
         /\ ClaimOwnsRecord'
         /\ QuarantineNamesRivals'
<1>1. Reduced[k] \in Ids /\ k # None
  BY IdIsAnId, NoneIsNoIdentity
<1>2. claimed \in [Ids -> Identities \cup {None}] /\ graph' = graph /\ quarantine' = quarantine
  BY DEF GraphIdInv, GraphIdTypeOK, Grant
<1>3. claimed[Reduced[k]] \in {None, k} /\ claimed' = [claimed EXCEPT ![Reduced[k]] = k]
  BY DEF Grant, Claimable
<1>4. claimed' \in [Ids -> Identities \cup {None}] /\ claimed'[Reduced[k]] = k
  BY <1>1, <1>2, <1>3
<1>5. \A i \in Ids : i # Reduced[k] => claimed'[i] = claimed[i]
  BY <1>2, <1>3
<1>6. Harmless
  BY <1>1, <1>2, <1>3, <1>4, <1>5 DEF Harmless
<1>7. \A i \in Ids : claimed'[i] # None => Reduced[claimed'[i]] = i
  BY <1>4, <1>5 DEF GraphIdInv, GraphIdTypeOK
<1>8. ClaimOwnsRecord'
  BY <1>2, <1>3, <1>4, <1>5 DEF GraphIdInv, ClaimOwnsRecord
<1>9. QuarantineNamesRivals'
  <2> SUFFICES ASSUME NEW i \in Ids, quarantine[i] # None
               PROVE  /\ quarantine[i].existing = claimed'[i]
                      /\ quarantine[i].rejected # claimed'[i]
                      /\ Reduced[quarantine[i].rejected] = i
    BY <1>2 DEF QuarantineNamesRivals
  <2>1. /\ quarantine[i].existing = claimed[i]
        /\ quarantine[i].rejected # claimed[i]
        /\ Reduced[quarantine[i].rejected] = i
    BY DEF GraphIdInv, QuarantineNamesRivals
  <2>2. quarantine[i].existing \in Identities
    BY DEF GraphIdInv, GraphIdTypeOK
  <2>3. claimed[i] # None
    BY <2>1, <2>2, NoneIsNoIdentity
  <2> QED
    BY <2>1, <2>3, <1>6 DEF Harmless
<1> QED
  BY <1>4, <1>6, <1>7, <1>8, <1>9

\* A collision is harmless and is recorded as what it is.
LEMMA RejectIsSound ==
  ASSUME GraphIdInv, NEW k \in Identities, Reject(k), UNCHANGED graph
  PROVE  /\ Harmless
         /\ quarantine' \in [Ids -> [existing : Identities, rejected : Identities] \cup {None}]
         /\ detected' \subseteq Identities
         /\ QuarantineNamesRivals'
         /\ \A i \in Ids : quarantine[i] # None => quarantine'[i] = quarantine[i]
<1>1. Reduced[k] \in Ids
  BY IdIsAnId
<1>2. claimed[Reduced[k]] \in Identities /\ claimed[Reduced[k]] # k
  BY <1>1 DEF GraphIdInv, GraphIdTypeOK, Reject, Claimable
<1> DEFINE col == [existing |-> claimed[Reduced[k]], rejected |-> k]
<1>3. col \in [existing : Identities, rejected : Identities]
  BY <1>2
<1>4. quarantine' = [quarantine EXCEPT ![Reduced[k]] = IF @ = None THEN col ELSE @]
  BY DEF Reject, Collision
<1>5. quarantine \in [Ids -> [existing : Identities, rejected : Identities] \cup {None}]
  BY DEF GraphIdInv, GraphIdTypeOK
<1>6. \A i \in Ids : quarantine'[i] = quarantine[i] \/ (i = Reduced[k] /\ quarantine[i] = None /\ quarantine'[i] = col)
  BY <1>4, <1>5
<1>7. quarantine' \in [Ids -> [existing : Identities, rejected : Identities] \cup {None}]
  BY <1>3, <1>4, <1>5
<1>8. QuarantineNamesRivals'
  <2>1. claimed' = claimed
    BY DEF Reject
  <2>2. col.existing = claimed[Reduced[k]] /\ col.rejected = k
    OBVIOUS
  <2> HIDE DEF col
  <2> SUFFICES ASSUME NEW i \in Ids, quarantine'[i] # None
               PROVE  /\ quarantine'[i].existing = claimed[i]
                      /\ quarantine'[i].rejected # claimed[i]
                      /\ Reduced[quarantine'[i].rejected] = i
    BY <2>1 DEF QuarantineNamesRivals
  <2>3. CASE quarantine'[i] = quarantine[i]
    BY <2>3 DEF GraphIdInv, QuarantineNamesRivals
  <2>4. CASE i = Reduced[k] /\ quarantine'[i] = col
    BY <2>2, <2>4, <1>2
  <2> QED
    BY <2>3, <2>4, <1>6
<1>9. Harmless
  BY SilentIsHarmless DEF Reject
<1>10. detected' \subseteq Identities
  BY DEF GraphIdInv, GraphIdTypeOK, Reject
<1> QED
  BY <1>6, <1>7, <1>8, <1>9, <1>10
-----------------------------------------------------------------------------
(***************************************************************************)
(* Every step preserves the invariant.                                     *)
(***************************************************************************)

JobType == [key : Identities \cup {None}, observed : SUBSET Identities,
            recovers : Identities \cup {None}]

LEMMA NoJobIsAJob == NoJob \in JobType
BY DEF NoJob, JobType

\* A writer that finishes owes nothing.
LEMMA IdleOwesNothing ==
  ASSUME GraphIdTypeOK, NEW w \in Writers, Finish(w) PROVE WriterInv(w)'
BY DEF GraphIdTypeOK, Finish, MoveTo, WriterInv

\* Calling, looking, reading back and giving up change only the writer.
LEMMA LocalSteps ==
  ASSUME GraphIdInv, NEW w \in Writers,
         \/ \E k \in Identities : CallWrite(w, k)
         \/ \E k, new \in Identities : CallRecover(w, k, new)
         \/ Observe(w) \/ ReadBack(w) \/ Abandon(w)
  PROVE  GraphIdInv'
<1> USE DEF JobType
<1>0. GraphIdTypeOK /\ WriterInv(w) /\ pc \in [Writers -> {"idle", "observe", "adopt", "write", "readback", "complete"}]
      /\ job \in [Writers -> JobType] /\ job[w] \in JobType
  BY DEF GraphIdInv, GraphIdTypeOK
<1>1. ASSUME NEW k \in Identities, CallWrite(w, k) PROVE GraphIdInv'
  <2> DEFINE j == [NoJob EXCEPT !.key = k]
  <2>1. j \in JobType /\ j.key = k
    BY DEF NoJob
  <2>2. job' = [job EXCEPT ![w] = j] /\ pc' = [pc EXCEPT ![w] = "observe"]
    BY <1>1 DEF CallWrite, MoveTo
  <2> HIDE DEF j
  <2>3. WriterInv(w)'
    BY <1>0, <2>1, <2>2 DEF WriterInv
  <2> QED
    BY <1>1, <2>1, <2>2, <2>3, OnlyThisWriter DEF CallWrite
<1>2. ASSUME NEW k \in Identities, NEW new \in Identities, CallRecover(w, k, new) PROVE GraphIdInv'
  <2> DEFINE j == [NoJob EXCEPT !.key = new, !.recovers = k]
  <2>1. j \in JobType /\ j.key = new
    BY DEF NoJob
  <2>2. job' = [job EXCEPT ![w] = j] /\ pc' = [pc EXCEPT ![w] = "observe"]
    BY <1>2 DEF CallRecover, MoveTo
  <2> HIDE DEF j
  <2>3. WriterInv(w)'
    BY <1>0, <2>1, <2>2 DEF WriterInv
  <2> QED
    BY <1>2, <2>1, <2>2, <2>3, OnlyThisWriter DEF CallRecover
<1>3. ASSUME Observe(w) PROVE GraphIdInv'
  <2>1. job[w].key \in Identities /\ Id(w) \in Ids
    BY <1>0, <1>3, IdIsAnId DEF Observe, WriterInv, Id
  <2>2. graph[Id(w)] \subseteq Identities /\ \A k \in graph[Id(w)] : Reduced[k] = Id(w)
    BY <1>0, <2>1 DEF GraphIdTypeOK
  <2> DEFINE j == [job[w] EXCEPT !.observed = graph[Id(w)]]
  <2>3. j \in JobType /\ j.key = job[w].key /\ j.observed = graph[Id(w)]
    BY <1>0, <2>2
  <2>4. job' = [job EXCEPT ![w] = j] /\ pc' = [pc EXCEPT ![w] = "adopt"]
    BY <1>3 DEF Observe, MoveTo, Observed
  <2> HIDE DEF j
  <2>5. Id(w)' = Id(w)
    BY <1>0, <2>3, <2>4 DEF Id
  <2>6. WriterInv(w)'
    BY <1>0, <1>3, <2>1, <2>2, <2>3, <2>4, <2>5 DEF WriterInv, Observe
  <2> QED
    BY <1>3, <2>3, <2>4, <2>6, OnlyThisWriter DEF Observe
<1>4. ASSUME ReadBack(w), RebuiltAlone(w) PROVE GraphIdInv'
  <2>1. job' = [job EXCEPT ![w] = job[w]] /\ pc' = [pc EXCEPT ![w] = "complete"] /\ job' = job
    BY <1>0, <1>4 DEF ReadBack, MoveTo
  <2>2. Id(w)' = Id(w)
    BY <2>1 DEF Id
  <2>3. WriterInv(w)'
    BY <1>0, <1>4, <2>1, <2>2 DEF WriterInv, ReadBack, RebuiltAlone
  <2> QED
    BY <1>0, <1>4, <2>1, <2>3, OnlyThisWriter DEF ReadBack
<1>5. ASSUME Finish(w), UNCHANGED <<claimed, quarantine, graph, detected>> PROVE GraphIdInv'
  BY <1>0, <1>5, NoJobIsAJob, IdleOwesNothing, OnlyThisWriter DEF Finish, MoveTo
<1> QED
  BY <1>1, <1>2, <1>3, <1>4, <1>5 DEF ReadBack, Abandon

\* Claiming what was observed.
LEMMA AdoptKeeps ==
  ASSUME GraphIdInv, NEW w \in Writers, Adopt(w) PROVE GraphIdInv'
<1> USE DEF JobType
<1>0. GraphIdTypeOK /\ WriterInv(w) /\ job[w] \in JobType /\ job \in [Writers -> JobType]
  BY DEF GraphIdInv, GraphIdTypeOK
<1>1. PICK k \in job[w].observed :
        \/ /\ Grant(k)
           /\ job' = [job EXCEPT ![w].observed = @ \ {k}]
           /\ UNCHANGED pc
        \/ Reject(k) /\ Finish(w)
  BY DEF Adopt
<1>2. /\ pc[w] = "adopt" /\ graph' = graph
      /\ k \in Identities /\ Reduced[k] = Id(w)
      /\ claimed[Id(w)] # None \/ graph[Id(w)] = job[w].observed
      /\ job[w].key \in Identities
  BY <1>0, <1>1 DEF Adopt, WriterInv
<1>3. CASE Grant(k) /\ job' = [job EXCEPT ![w].observed = @ \ {k}] /\ UNCHANGED pc
  <2>1. /\ Harmless /\ ClaimOwnsRecord' /\ QuarantineNamesRivals'
        /\ claimed' \in [Ids -> Identities \cup {None}]
        /\ \A i \in Ids : claimed'[i] # None => Reduced[claimed'[i]] = i
        /\ claimed'[Reduced[k]] = k
    BY <1>1, <1>2, <1>3, GrantIsSound
  <2> DEFINE j == [job[w] EXCEPT !.observed = @ \ {k}]
  <2>2. j \in JobType /\ j.key = job[w].key /\ j.observed \subseteq job[w].observed
    BY <1>0
  <2>3. job' = [job EXCEPT ![w] = j] /\ pc' = [pc EXCEPT ![w] = "adopt"]
    BY <1>0, <1>2, <1>3 DEF GraphIdTypeOK
  <2> HIDE DEF j
  <2>4. GraphIdTypeOK'
    BY <1>0, <1>2, <1>3, <2>1, <2>2, <2>3 DEF GraphIdTypeOK, Grant
  <2>5. Id(w)' = Id(w) /\ job'[w] = j /\ pc'[w] = "adopt"
    BY <1>0, <2>2, <2>3 DEF Id, GraphIdTypeOK
  <2>6. claimed'[Id(w)] # None
    BY <1>2, <2>1, NoneIsNoIdentity
  <2>7. WriterInv(w)'
    BY <1>0, <1>2, <2>2, <2>5, <2>6 DEF WriterInv
  <2> QED
    BY <2>1, <2>2, <2>3, <2>4, <2>7, StepKeeps
<1>4. CASE Reject(k) /\ Finish(w)
  <2>1. /\ Harmless /\ QuarantineNamesRivals' /\ detected' \subseteq Identities
        /\ quarantine' \in [Ids -> [existing : Identities, rejected : Identities] \cup {None}]
    BY <1>1, <1>2, <1>4, RejectIsSound
  <2>2. ClaimOwnsRecord'
    BY <1>2, <1>4 DEF GraphIdInv, ClaimOwnsRecord, Reject
  <2>3. GraphIdTypeOK'
    BY <1>0, <1>2, <1>4, <2>1, NoJobIsAJob DEF GraphIdTypeOK, Reject, Finish, MoveTo
  <2> QED
    BY <1>0, <1>4, <2>1, <2>2, <2>3, NoJobIsAJob, IdleOwesNothing, StepKeeps DEF Finish, MoveTo
<1> QED
  BY <1>1, <1>3, <1>4

\* Claiming the writer's own identity.
LEMMA ClaimOwnKeeps ==
  ASSUME GraphIdInv, NEW w \in Writers, ClaimOwn(w) PROVE GraphIdInv'
<1> USE DEF JobType
<1>0. GraphIdTypeOK /\ WriterInv(w) /\ job[w] \in JobType /\ job \in [Writers -> JobType]
  BY DEF GraphIdInv, GraphIdTypeOK
<1> DEFINE k == job[w].key
<1>1. /\ pc[w] = "adopt" /\ graph' = graph /\ k \in Identities /\ Id(w) = Reduced[k]
      /\ claimed[Id(w)] # None \/ graph[Id(w)] = {}
  BY <1>0 DEF ClaimOwn, WriterInv, Id
<1>2. CASE Grant(k) /\ MoveTo(w, "write") /\ UNCHANGED job
  <2>1. /\ Harmless /\ ClaimOwnsRecord' /\ QuarantineNamesRivals'
        /\ claimed' \in [Ids -> Identities \cup {None}]
        /\ \A i \in Ids : claimed'[i] # None => Reduced[claimed'[i]] = i
        /\ claimed'[Reduced[k]] = k
    BY <1>1, <1>2, GrantIsSound
  <2>2. job' = [job EXCEPT ![w] = job[w]] /\ pc' = [pc EXCEPT ![w] = "write"] /\ pc'[w] = "write"
    BY <1>0, <1>2 DEF MoveTo, GraphIdTypeOK
  <2>3. GraphIdTypeOK'
    BY <1>0, <1>1, <1>2, <2>1, <2>2 DEF GraphIdTypeOK, Grant
  <2>4. WriterInv(w)'
    BY <1>0, <1>1, <1>2, <2>1, <2>2 DEF WriterInv, Id
  <2> QED
    BY <1>0, <2>1, <2>2, <2>3, <2>4, StepKeeps
<1>3. CASE Reject(k) /\ Finish(w)
  <2>1. /\ Harmless /\ QuarantineNamesRivals' /\ detected' \subseteq Identities
        /\ quarantine' \in [Ids -> [existing : Identities, rejected : Identities] \cup {None}]
    BY <1>1, <1>3, RejectIsSound
  <2>2. ClaimOwnsRecord'
    BY <1>1, <1>3 DEF GraphIdInv, ClaimOwnsRecord, Reject
  <2>3. GraphIdTypeOK'
    BY <1>0, <1>1, <1>3, <2>1, NoJobIsAJob DEF GraphIdTypeOK, Reject, Finish, MoveTo
  <2> QED
    BY <1>0, <1>3, <2>1, <2>2, <2>3, NoJobIsAJob, IdleOwesNothing, StepKeeps DEF Finish, MoveTo
<1> QED
  BY <1>2, <1>3 DEF ClaimOwn

\* A write of the id's owner changes no record that stands for something.
LEMMA OwnerWrites ==
  ASSUME GraphIdInv, NEW w \in Writers, pc[w] = "write",
         UNCHANGED <<claimed, quarantine, detected>>,
         graph' = graph \/ graph' = [graph EXCEPT ![Id(w)] = @ \cup {job[w].key}]
  PROVE  /\ Harmless
         /\ graph' \in [Ids -> SUBSET Identities]
         /\ \A i \in Ids : \A k \in graph'[i] : Reduced[k] = i
         /\ ClaimOwnsRecord'
         /\ QuarantineNamesRivals'
<1>1. /\ job[w].key \in Identities /\ Id(w) = Reduced[job[w].key] /\ Id(w) \in Ids
      /\ claimed[Id(w)] = job[w].key /\ job[w].key # None
  BY IdIsAnId, NoneIsNoIdentity DEF GraphIdInv, WriterInv, Id
<1>2. graph \in [Ids -> SUBSET Identities] /\ \A i \in Ids : \A k \in graph[i] : Reduced[k] = i
  BY DEF GraphIdInv, GraphIdTypeOK
<1>3. graph' \in [Ids -> SUBSET Identities]
  BY <1>1, <1>2
<1>4. \A i \in Ids : graph'[i] = graph[i] \/ (i = Id(w) /\ graph'[i] = graph[i] \cup {job[w].key})
  BY <1>1, <1>2
<1>5. graph[Id(w)] # {} => graph[Id(w)] \cup {job[w].key} = graph[Id(w)]
  BY <1>1 DEF GraphIdInv, ClaimOwnsRecord
<1>6. Harmless
  BY <1>1, <1>4, <1>5 DEF Harmless
<1>7. ClaimOwnsRecord'
  BY <1>1, <1>4 DEF GraphIdInv, ClaimOwnsRecord
<1>8. QuarantineNamesRivals'
  BY DEF GraphIdInv, QuarantineNamesRivals
<1>9. \A i \in Ids : \A k \in graph'[i] : Reduced[k] = i
  BY <1>1, <1>2, <1>4
<1> QED
  BY <1>3, <1>6, <1>7, <1>8, <1>9

\* The upsert and the rebuild.
LEMMA WritesKeep ==
  ASSUME GraphIdInv, NEW w \in Writers, Upsert(w) \/ Rebuild(w) PROVE GraphIdInv'
<1> USE DEF JobType
<1>0. GraphIdTypeOK /\ WriterInv(w) /\ job[w] \in JobType /\ job \in [Writers -> JobType]
  BY DEF GraphIdInv, GraphIdTypeOK
<1>1. /\ pc[w] = "write" /\ UNCHANGED <<claimed, quarantine, detected>>
      /\ graph' = graph \/ graph' = [graph EXCEPT ![Id(w)] = @ \cup {job[w].key}]
  BY DEF Upsert, Rebuild
<1>2. /\ Harmless /\ ClaimOwnsRecord' /\ QuarantineNamesRivals'
      /\ graph' \in [Ids -> SUBSET Identities]
      /\ \A i \in Ids : \A k \in graph'[i] : Reduced[k] = i
  BY <1>1, OwnerWrites
<1>3. CASE Upsert(w)
  <2>1. Finish(w)
    BY <1>3 DEF Upsert
  <2>2. GraphIdTypeOK'
    BY <1>0, <1>1, <1>2, <2>1, NoJobIsAJob DEF GraphIdTypeOK, Finish, MoveTo
  <2> QED
    BY <1>0, <1>2, <2>1, <2>2, NoJobIsAJob, IdleOwesNothing, StepKeeps DEF Finish, MoveTo
<1>4. CASE Rebuild(w)
  <2>1. /\ job' = [job EXCEPT ![w] = job[w]] /\ job' = job
        /\ pc' = [pc EXCEPT ![w] = "readback"] /\ pc'[w] = "readback"
    BY <1>0, <1>4 DEF Rebuild, MoveTo, GraphIdTypeOK
  <2>2. GraphIdTypeOK'
    BY <1>0, <1>1, <1>2, <2>1 DEF GraphIdTypeOK
  <2>3. job[w].recovers \in Identities
    BY <1>0, <1>4 DEF Rebuild
  <2>4. WriterInv(w)'
    BY <1>0, <1>1, <2>1, <2>3 DEF WriterInv, Id
  <2> QED
    BY <1>0, <1>2, <2>1, <2>2, <2>4, StepKeeps
<1> QED
  BY <1>3, <1>4

\* Clearing the quarantine.
LEMMA CompleteKeeps ==
  ASSUME GraphIdInv, NEW w \in Writers, Complete(w) PROVE GraphIdInv'
<1> USE DEF JobType
<1>0. GraphIdTypeOK /\ WriterInv(w) /\ job[w] \in JobType /\ job \in [Writers -> JobType]
  BY DEF GraphIdInv, GraphIdTypeOK
<1>1. Finish(w) /\ UNCHANGED <<claimed, graph>> /\ Harmless
  BY SilentIsHarmless DEF Complete
<1>2. \/ quarantine' = quarantine /\ detected' = detected
      \/ /\ quarantine' = [quarantine EXCEPT ![Reduced[job[w].recovers]] = None]
         /\ detected' = detected \ {job[w].recovers}
  BY DEF Complete
<1>3. /\ quarantine' \in [Ids -> [existing : Identities, rejected : Identities] \cup {None}]
      /\ \A i \in Ids : quarantine'[i] \in {None, quarantine[i]}
      /\ detected' \subseteq Identities
  BY <1>0, <1>2 DEF GraphIdTypeOK
<1>4. GraphIdTypeOK'
  BY <1>0, <1>1, <1>3, NoJobIsAJob DEF GraphIdTypeOK, Finish, MoveTo
<1>5. QuarantineNamesRivals'
  BY <1>1, <1>3 DEF GraphIdInv, QuarantineNamesRivals
<1>6. ClaimOwnsRecord'
  BY <1>1 DEF GraphIdInv, ClaimOwnsRecord
<1> QED
  BY <1>0, <1>1, <1>4, <1>5, <1>6, NoJobIsAJob, IdleOwesNothing, StepKeeps DEF Finish, MoveTo

\* Nothing happens.
LEMMA StutterKeeps == GraphIdInv /\ UNCHANGED graphIdVars => GraphIdInv'
<1> SUFFICES ASSUME GraphIdInv, UNCHANGED graphIdVars PROVE GraphIdInv'
  OBVIOUS
<1>1. \A w \in Writers : WriterInv(w)'
  BY DEF GraphIdInv, WriterInv, Id, graphIdVars
<1>2. GraphIdTypeOK' /\ ClaimOwnsRecord' /\ QuarantineNamesRivals'
  BY DEF GraphIdInv, GraphIdTypeOK, ClaimOwnsRecord, QuarantineNamesRivals, graphIdVars
<1> QED
  BY <1>1, <1>2 DEF GraphIdInv

-----------------------------------------------------------------------------
\* Claims, quarantine, records and writers agree at every moment, whatever
\* writers run, die and interleave.
THEOREM ClaimsAreSound == GraphIdSpec => []GraphIdInv
<1>1. GraphIdInv /\ [GraphIdNext]_graphIdVars => GraphIdInv'
  <2> SUFFICES ASSUME GraphIdInv, GraphIdNext PROVE GraphIdInv'
    BY StutterKeeps
  <2>1. PICK w \in Writers : WriterStep(w)
    BY DEF GraphIdNext
  <2> QED
    BY <2>1, LocalSteps, AdoptKeeps, ClaimOwnKeeps, WritesKeep, CompleteKeeps DEF WriterStep
<1> QED
  BY <1>1, InitEstablishes, PTL DEF GraphIdSpec

\* The rows and the writers' locals are well formed.
THEOREM GraphIdTypeCorrect == GraphIdSpec => []GraphIdTypeOK
<1>1. GraphIdInv => GraphIdTypeOK
  BY DEF GraphIdInv
<1> QED
  BY <1>1, ClaimsAreSound, PTL

\* A claim never disagrees with the record it is for.
THEOREM ClaimsOwnTheirRecords == GraphIdSpec => []ClaimOwnsRecord
<1>1. GraphIdInv => ClaimOwnsRecord
  BY DEF GraphIdInv
<1> QED
  BY <1>1, ClaimsAreSound, PTL

\* A quarantine record always names the owner and a rival.
THEOREM QuarantineIsTruthful == GraphIdSpec => []QuarantineNamesRivals
<1>1. GraphIdInv => QuarantineNamesRivals
  BY DEF GraphIdInv
<1> QED
  BY <1>1, ClaimsAreSound, PTL

\* No write merges an identity into a record that stands for another.
THEOREM RecordsNeverMerge == GraphIdSpec => NothingMerged
<1>1. ASSUME GraphIdInv, GraphIdNext PROVE \A i \in Ids : graph[i] # {} => graph'[i] = graph[i]
  <2>1. PICK w \in Writers : WriterStep(w)
    BY <1>1 DEF GraphIdNext
  <2>2. CASE Upsert(w) \/ Rebuild(w)
    <3>1. /\ pc[w] = "write" /\ UNCHANGED <<claimed, quarantine, detected>>
          /\ graph' = graph \/ graph' = [graph EXCEPT ![Id(w)] = @ \cup {job[w].key}]
      BY <2>2 DEF Upsert, Rebuild
    <3> QED
      BY <1>1, <3>1, OwnerWrites DEF Harmless
  <2>3. CASE ~(Upsert(w) \/ Rebuild(w))
    BY <2>1, <2>3 DEF WriterStep, CallWrite, CallRecover, Observe, Adopt, ClaimOwn, ReadBack, Complete, Abandon
  <2> QED
    BY <2>2, <2>3
<1>2. UNCHANGED graphIdVars => \A i \in Ids : graph[i] # {} => graph'[i] = graph[i]
  BY DEF graphIdVars
<1>3. GraphIdInv /\ [GraphIdNext]_graphIdVars
        => [\A i \in Ids : graph[i] # {} => graph'[i] = graph[i]]_graphIdVars
  BY <1>1, <1>2
<1> QED
  BY <1>3, ClaimsAreSound, PTL DEF GraphIdSpec, NothingMerged
\* A quarantine is cleared only by the recovery of the identity it records, once
\* the replacement stands alone under its own id.
THEOREM QuarantineOutlastsRebuild == GraphIdSpec => ClearedAfterRebuild
<1> DEFINE Cleared(i) ==
      quarantine[i] # None /\ quarantine'[i] # quarantine[i] =>
        /\ quarantine'[i] = None
        /\ \E w \in Writers :
             /\ job[w].recovers = quarantine[i].rejected
             /\ claimed[Id(w)] = job[w].key
             /\ graph[Id(w)] = {job[w].key}
<1>1. ASSUME GraphIdInv, GraphIdNext, NEW i \in Ids PROVE Cleared(i)
  <2>1. PICK w \in Writers : WriterStep(w)
    BY <1>1 DEF GraphIdNext
  <2>2. WriterInv(w) /\ GraphIdTypeOK
    BY <1>1 DEF GraphIdInv
  <2>3. CASE Complete(w)
    <3>1. CASE Resolves(w) /\ quarantine[i] # None /\ quarantine'[i] # quarantine[i]
      <4>1. quarantine' = [quarantine EXCEPT ![Reduced[job[w].recovers]] = None]
        BY <2>3, <3>1 DEF Complete
      <4>2. i = Reduced[job[w].recovers] /\ quarantine'[i] = None
        BY <2>2, <3>1, <4>1 DEF GraphIdTypeOK
      <4>3. job[w].recovers = quarantine[i].rejected /\ claimed[Id(w)] = job[w].key
        BY <3>1, <4>2 DEF Resolves
      <4>4. graph[Id(w)] = {job[w].key}
        BY <2>2, <2>3 DEF WriterInv, Complete
      <4> QED
        BY <4>2, <4>3, <4>4
    <3>2. CASE ~Resolves(w)
      BY <2>3, <3>2 DEF Complete
    <3> QED
      BY <3>1, <3>2
  <2>4. CASE \E k \in Identities : Reject(k) /\ UNCHANGED graph
    BY <1>1, <2>4, RejectIsSound
  <2>5. CASE UNCHANGED quarantine
    BY <2>5
  <2>6. job[w].observed \subseteq Identities
    BY <2>2 DEF GraphIdTypeOK
  <2>7. ClaimOwn(w) => job[w].key \in Identities
    BY <2>2 DEF WriterInv, ClaimOwn
  <2> QED
    BY <2>1, <2>3, <2>4, <2>5, <2>6, <2>7
    DEF WriterStep, CallWrite, CallRecover, Observe, Adopt, ClaimOwn, Grant, Upsert, Rebuild, ReadBack, Abandon
<1>2. UNCHANGED graphIdVars => \A i \in Ids : Cleared(i)
  BY DEF graphIdVars
<1>3. GraphIdInv /\ [GraphIdNext]_graphIdVars => [\A i \in Ids : Cleared(i)]_graphIdVars
  BY <1>1, <1>2
<1> QED
  BY <1>3, ClaimsAreSound, PTL DEF GraphIdSpec, ClearedAfterRebuild

-----------------------------------------------------------------------------
(***************************************************************************)
(* HydraWrites.                                                            *)
(***************************************************************************)


\* The plan is a sequence of statements, vertices first.
LEMMA PlanShape ==
  /\ Len(Statements) \in Nat
  /\ DOMAIN Statements = 1..Len(Statements)
  /\ \A s \in DOMAIN Statements : Length(s) \in Nat \ {0}
  /\ \A s, t \in DOMAIN Statements : Statements[s].edge /\ ~Statements[t].edge => t < s
<1> DEFINE V == Groups(VertexGroups, FALSE)
           E == Groups(EdgeGroups, TRUE)
<1>1. V \in Seq([edge : BOOLEAN, sizes : Seq(Nat)]) /\ Len(V) = Len(VertexGroups)
      /\ \A g \in 1..Len(V) : ~V[g].edge
  BY PlanAssumption DEF Groups
<1>2. E \in Seq([edge : BOOLEAN, sizes : Seq(Nat)]) /\ Len(E) = Len(EdgeGroups)
      /\ \A g \in 1..Len(E) : E[g].edge
  BY PlanAssumption DEF Groups
<1> HIDE DEF V, E
<1>3. Statements = V \o E
  BY DEF V, E, Statements
<1>4. /\ Len(Statements) = Len(V) + Len(E)
      /\ Statements \in Seq([edge : BOOLEAN, sizes : Seq(Nat)])
      /\ \A s \in 1..(Len(V) + Len(E)) :
           Statements[s] = IF s <= Len(V) THEN V[s] ELSE E[s - Len(V)]
  <2> DEFINE Records == [edge : BOOLEAN, sizes : Seq(Nat)]
  <2>1. V \in Seq(Records) /\ E \in Seq(Records)
    BY <1>1, <1>2
  <2> HIDE DEF Records
  <2>2. /\ V \o E \in Seq(Records) /\ Len(V \o E) = Len(V) + Len(E)
        /\ \A s \in 1..(Len(V) + Len(E)) : (V \o E)[s] = IF s <= Len(V) THEN V[s] ELSE E[s - Len(V)]
    BY <2>1, ConcatProperties
  <2> QED
    BY <1>3, <2>2 DEF Records
<1>5. \A s \in DOMAIN Statements : Length(s) \in Nat \ {0}
  BY <1>4, PlanAssumption DEF Length
<1>6. \A s \in 1..Len(Statements) : Statements[s].edge <=> s > Len(V)
  <2> TAKE s \in 1..Len(Statements)
  <2>0. Len(V) \in Nat /\ Len(E) \in Nat
    BY <1>1, <1>2
  <2>1. CASE s <= Len(V)
    <3>1. s \in 1..Len(V) /\ Statements[s] = V[s]
      BY <1>4, <2>0, <2>1
    <3> QED
      BY <1>1, <2>0, <2>1, <3>1
  <2>2. CASE s > Len(V)
    <3>1. s - Len(V) \in 1..Len(E) /\ Statements[s] = E[s - Len(V)]
      BY <1>4, <2>0, <2>2
    <3> QED
      BY <1>2, <2>0, <2>2, <3>1
  <2> QED
    BY <2>0, <2>1, <2>2
<1> QED
  BY <1>1, <1>4, <1>5, <1>6

\* Sizes only shrink to one.
LEMMA HalvedIsASize ==
  ASSUME size \in 1..MaxRows, ~Indivisible PROVE Halved \in 1..MaxRows
BY BoundAssumption DEF Halved, Indivisible

\* When a relationship statement is sent, what was acknowledged has every vertex.
LEMMA EndpointsAreStored ==
  ASSUME WritesInv, Sending, Statements[stmt].edge PROVE PlanVertices \subseteq stored
<1>1. \A t \in DOMAIN Statements : ~Statements[t].edge => Rows(t) \subseteq stored
  BY PlanShape DEF WritesInv, AcknowledgedAreStored, Sending
<1> QED
  BY <1>1 DEF PlanVertices

\* A chunk that is applied adds its rows, all of the plan.
LEMMA ApplyStores ==
  ASSUME WritesInv, Sending, NEW b \in Nat, IsChunk(stmt, pos, b), Apply(b)
  PROVE  stored' = stored \cup ({stmt} \X ((pos + 1)..b))
<1>1. Statements[stmt].edge => PlanVertices \subseteq stored
  BY EndpointsAreStored
<1> QED
  BY <1>1 DEF Apply

\* Applied or not, the graph keeps what it has and holds rows of the plan only.
LEMMA GraphGrows ==
  ASSUME WritesInv, Sending, NEW b \in Nat, IsChunk(stmt, pos, b), Apply(b) \/ UNCHANGED stored
  PROVE  stored \subseteq stored' /\ stored' \subseteq PlanRows
<1>1. {stmt} \X ((pos + 1)..b) \subseteq Rows(stmt)
  BY PlanShape DEF IsChunk, Rows, WritesInv, WritesTypeOK, Sending
<1>2. Rows(stmt) \subseteq PlanRows
  BY DEF PlanRows, Sending
<1> QED
  BY <1>1, <1>2, ApplyStores DEF WritesInv, WritesTypeOK

-----------------------------------------------------------------------------
\* Nothing is sent before the first call.
LEMMA WritesInitInv == WritesInit => WritesInv
BY PlanShape, BoundAssumption DEF WritesInit, WritesInv, WritesTypeOK, AcknowledgedAreStored

\* A new call acknowledges nothing yet.
LEMMA CommitKeeps ==
  ASSUME WritesInv, Commit, UNCHANGED rejected PROVE WritesInv'
<1>1. WritesTypeOK'
  BY PlanShape, BoundAssumption DEF WritesInv, WritesTypeOK, Commit
<1>2. AcknowledgedAreStored'
  <2>1. \A s \in DOMAIN Statements : ~(s < 1)
    BY PlanShape
  <2>2. 1..0 = {}
    OBVIOUS
  <2> QED
    BY <2>1, <2>2, PlanShape DEF Commit, AcknowledgedAreStored
<1> QED
  BY <1>1, <1>2 DEF WritesInv, Commit

\* A call that fails keeps the graph and owes nothing.
LEMMA FailKeeps ==
  ASSUME WritesInv, Fail, stored \subseteq stored', stored' \subseteq PlanRows,
         UNCHANGED rejected
  PROVE  WritesInv'
BY DEF WritesInv, WritesTypeOK, AcknowledgedAreStored, Fail

\* An acknowledged chunk is stored, and with the last one the statement.
LEMMA SucceedKeeps ==
  ASSUME WritesInv, UNCHANGED rejected, NEW b \in Nat, Succeed(b) PROVE WritesInv'
<1>1. Sending /\ IsChunk(stmt, pos, b) /\ Apply(b) /\ UNCHANGED <<call, calls>>
  BY DEF Succeed
<1>2. /\ stored' = stored \cup ({stmt} \X ((pos + 1)..b))
      /\ stored \subseteq stored' /\ stored' \subseteq PlanRows
  BY <1>1, ApplyStores, GraphGrows
<1>3. /\ stmt \in 1..Len(Statements) /\ pos \in Nat /\ b \in (pos + 1)..Length(stmt)
      /\ Length(stmt) \in Nat /\ {stmt} \X (1..pos) \subseteq stored
      /\ \A s \in DOMAIN Statements : s < stmt => Rows(s) \subseteq stored
  BY <1>1, PlanShape DEF Sending, IsChunk, WritesInv, WritesTypeOK, AcknowledgedAreStored
<1>4. 1..b = (1..pos) \cup ((pos + 1)..b)
  BY <1>3
<1>5. {stmt} \X (1..b) \subseteq stored'
  BY <1>2, <1>3, <1>4
<1>6. b - pos \in Nat /\ written \in Nat
  BY <1>3 DEF WritesInv, WritesTypeOK
<1>7. CASE b = Length(stmt)
  <2>1. stmt' = stmt + 1 /\ pos' = 0 /\ size' = MaxRows /\ attempt' = 1 /\ written' = written + (b - pos)
    BY <1>7 DEF Succeed, Acknowledged
  <2>2. WritesTypeOK'
    BY <1>1, <1>2, <1>3, <1>6, <2>1, BoundAssumption DEF WritesInv, WritesTypeOK
  <2>3. \A s \in DOMAIN Statements : s < stmt + 1 => Rows(s) \subseteq stored'
    <3> TAKE s \in DOMAIN Statements
    <3>1. CASE s < stmt
      BY <1>2, <1>3, <3>1
    <3>2. CASE s = stmt
      BY <1>5, <1>7, <3>2 DEF Rows
    <3> QED
      BY <1>3, <3>1, <3>2, PlanShape
  <2>4. AcknowledgedAreStored'
    <3>1. 1..0 = {}
      OBVIOUS
    <3>2. stmt + 1 \in DOMAIN Statements => 0 < Length(stmt + 1)
      BY PlanShape
    <3> QED
      BY <2>1, <2>3, <3>1, <3>2 DEF AcknowledgedAreStored
  <2> QED
    BY <1>1, <2>2, <2>4 DEF WritesInv, Sending
<1>8. CASE b # Length(stmt)
  <2>1. pos' = b /\ stmt' = stmt /\ size' = size /\ attempt' = 1 /\ written' = written + (b - pos)
    BY <1>8 DEF Succeed, Acknowledged
  <2>2. WritesTypeOK'
    BY <1>1, <1>2, <1>3, <1>6, <2>1, BoundAssumption DEF WritesInv, WritesTypeOK
  <2>3. AcknowledgedAreStored'
    BY <1>2, <1>3, <1>5, <1>8, <2>1 DEF AcknowledgedAreStored
  <2> QED
    BY <1>1, <2>2, <2>3 DEF WritesInv, Sending
<1> QED
  BY <1>7, <1>8

\* A refused chunk is cut again from where it began.
LEMMA RefuseKeeps ==
  ASSUME WritesInv, UNCHANGED rejected, NEW b \in Nat, Refuse(b) PROVE WritesInv'
<1>1. Sending /\ IsChunk(stmt, pos, b) /\ (Apply(b) \/ UNCHANGED stored)
  BY DEF Refuse
<1>2. stored \subseteq stored' /\ stored' \subseteq PlanRows
  BY <1>1, GraphGrows
<1>3. CASE Indivisible
  <2>1. Fail
    BY <1>3 DEF Refuse
  <2>2. b - pos \in Nat
    BY <1>1, PlanShape DEF IsChunk, Sending, WritesInv, WritesTypeOK
  <2> QED
    BY <1>2, <2>1, <2>2, FailKeeps
<1>4. CASE ~Indivisible
  <2>1. size' = Halved /\ pos' = pos /\ attempt' = 1 /\ UNCHANGED <<call, stmt, written, calls>>
    BY <1>4 DEF Refuse, FromRefused
  <2>2. Halved \in 1..MaxRows
    BY <1>4, HalvedIsASize DEF WritesInv, WritesTypeOK
  <2>3. WritesTypeOK'
    BY <1>2, <2>1, <2>2, BoundAssumption DEF WritesInv, WritesTypeOK
  <2>4. AcknowledgedAreStored'
    BY <1>2, <2>1 DEF WritesInv, AcknowledgedAreStored
  <2> QED
    BY <2>1, <2>3, <2>4 DEF WritesInv
<1> QED
  BY <1>3, <1>4

\* A repeated request changes nothing but the count of attempts.
LEMMA ConflictKeeps ==
  ASSUME WritesInv, UNCHANGED rejected, NEW b \in Nat, Conflict(b) PROVE WritesInv'
<1>1. stored \subseteq stored' /\ stored' \subseteq PlanRows
  BY GraphGrows DEF Conflict
<1>2. CASE MayRepeat
  <2>1. attempt' = attempt + 1 /\ UNCHANGED <<call, stmt, pos, size, written, calls>>
    BY <1>2 DEF Conflict
  <2>2. WritesTypeOK'
    BY <1>1, <1>2, <2>1, BoundAssumption DEF WritesInv, WritesTypeOK, MayRepeat
  <2>3. AcknowledgedAreStored'
    BY <1>1, <2>1 DEF WritesInv, AcknowledgedAreStored
  <2> QED
    BY <2>1, <2>2, <2>3 DEF WritesInv
<1>3. CASE ~MayRepeat
  BY <1>1, <1>3, FailKeeps DEF Conflict, WritesInv, WritesTypeOK
<1> QED
  BY <1>2, <1>3

\* What was acknowledged is stored, at every moment of every call.
THEOREM WritesInvariant == WritesSpec => []WritesInv
<1>1. WritesInv /\ [WritesNext]_writeVars => WritesInv'
  <2> SUFFICES ASSUME WritesInv, [WritesNext]_writeVars PROVE WritesInv'
    OBVIOUS
  <2>1. CASE Commit /\ UNCHANGED rejected
    BY <2>1, CommitKeeps
  <2>2. ASSUME NEW b \in Nat, Succeed(b) \/ Refuse(b) \/ Conflict(b), UNCHANGED rejected PROVE WritesInv'
    BY <2>2, SucceedKeeps, RefuseKeeps, ConflictKeeps
  <2>3. ASSUME NEW b \in Nat, Lose(b), UNCHANGED rejected PROVE WritesInv'
    BY <2>3, GraphGrows, FailKeeps DEF Lose, WritesInv, WritesTypeOK
  <2>4. CASE RejectRows /\ UNCHANGED rejected
    BY <2>4, FailKeeps DEF RejectRows, WritesInv, WritesTypeOK
  <2>5. CASE Return /\ UNCHANGED rejected
    BY <2>5 DEF Return, WritesInv, WritesTypeOK, AcknowledgedAreStored
  <2>6. CASE UNCHANGED writeVars
    BY <2>6 DEF writeVars, WritesInv, WritesTypeOK, AcknowledgedAreStored
  <2>7. \A b \in 1..(IF Sending THEN Length(stmt) ELSE 0) : b \in Nat
    BY PlanShape DEF Sending
  <2> QED
    BY <2>1, <2>2, <2>3, <2>4, <2>5, <2>6, <2>7 DEF WritesNext, WriteStep
<1> QED
  BY <1>1, WritesInitInv, PTL DEF WritesSpec

\* The state is well formed.
THEOREM WritesTypeCorrect == WritesSpec => []WritesTypeOK
<1>1. WritesInv => WritesTypeOK
  BY DEF WritesInv
<1> QED
  BY <1>1, WritesInvariant, PTL

\* A reported success stored every row of the plan.
THEOREM ReportedWritesAreStored == WritesSpec => []SuccessStoresAll
<1>1. WritesInv => SuccessStoresAll
  BY PlanShape DEF WritesInv, WritesTypeOK, AcknowledgedAreStored, SuccessStoresAll, PlanRows
<1> QED
  BY <1>1, WritesInvariant, PTL

\* Relationships are sent only when every endpoint is stored.
THEOREM EndpointsComeFirst == WritesSpec => []EndpointsFirst
<1>1. WritesInv => EndpointsFirst
  BY EndpointsAreStored DEF EndpointsFirst
<1> QED
  BY <1>1, WritesInvariant, PTL
=============================================================================
