----------------------------- MODULE HydraWrites -----------------------------
(***************************************************************************)
(* One commitWrites of the HydraDB client (Memory.ts, Client.ts,           *)
(* Chunking.ts, the retries of Transport.ts): a write plan becomes         *)
(* statements, a statement is sent in chunks, and a chunk the engine       *)
(* refuses as too much is halved and tried again.                          *)
(*                                                                         *)
(* The rows of a plan share a label, or a relationship type, and a         *)
(* property signature per statement.  A relationship statement MATCHes the *)
(* endpoints of each row and MERGEs only what it matched, so a row whose   *)
(* endpoints are missing is dropped without an error.  The endpoints that  *)
(* count here are the vertices of the same plan: one stored before it (the *)
(* SourceTurn of an INDEX_EVIDENCE) is there already.  A row is its size   *)
(* in bytes.                                                               *)
(***************************************************************************)
EXTENDS Naturals, Sequences, FiniteSets, FiniteSetsExt

CONSTANTS
  VertexGroups,     \* the row sizes of each label and signature, in plan order
  EdgeGroups,       \* the same for relationships
  Unsendable,       \* statements that may have an oversize property or none at all
  MaxRows,          \* rows per chunk at first
  Budget,           \* bytes per chunk
  MaxAttempts,      \* of one request, all but the last answered by a retryable error
  MaxCalls          \* bound: how often the caller commits the plan

Groups(sizes, edge) == [g \in 1..Len(sizes) |-> [edge |-> edge, sizes |-> sizes[g]]]

Statements == Groups(VertexGroups, FALSE) \o Groups(EdgeGroups, TRUE)

Length(s) == Len(Statements[s].sizes)

ASSUME PlanAssumption ==
  /\ VertexGroups \in Seq(Seq(Nat)) /\ EdgeGroups \in Seq(Seq(Nat))
  /\ \A s \in DOMAIN Statements : Length(s) > 0
ASSUME BoundAssumption ==
  MaxRows \in Nat \ {0} /\ Budget \in Nat /\ MaxAttempts \in Nat \ {0} /\ MaxCalls \in Nat

Rows(s) == {s} \X (1..Length(s))
PlanRows == UNION {Rows(s) : s \in DOMAIN Statements}
PlanVertices == UNION {Rows(s) : s \in {t \in DOMAIN Statements : ~Statements[t].edge}}

VARIABLES
  stored,           \* rows in the graph
  call,             \* "idle", "sending", "done" or "failed"
  rejected,         \* the statements of this plan that do: the client rejects them
  stmt, pos,        \* the statement being sent, and its rows acknowledged so far
  size,             \* writeChunked's size
  attempt,          \* of the request under way
  written,          \* what the call will report
  calls

writeVars == <<stored, call, rejected, stmt, pos, size, attempt, written, calls>>

WritesInit ==
  /\ stored = {}
  /\ call = "idle"
  /\ rejected \in SUBSET Unsendable
  /\ stmt = 1 /\ pos = 0 /\ size = MaxRows /\ attempt = 1
  /\ written = 0
  /\ calls = 0

-----------------------------------------------------------------------------
(***************************************************************************)
(* Chunks.                                                                 *)
(***************************************************************************)

Bytes(s, a, b) == MapThenSumSet(LAMBDA i : Statements[s].sizes[i], (a + 1)..b)

\* Rows a+1 to b of s may be one chunk: a row too large alone is one.
Fits(s, a, b) == b = a + 1 \/ (b - a <= size /\ Bytes(s, a, b) <= Budget)

\* The chunk that starts after a: chunkRows fills it until the next row does not
\* fit.  What it makes of the rows after a depends on nothing before a.
IsChunk(s, a, b) ==
  /\ b \in (a + 1)..Length(s)
  /\ Fits(s, a, b)
  /\ b < Length(s) => ~Fits(s, a, b + 1)

Halved == IF size \div 2 = 0 THEN 1 ELSE size \div 2

\* Fault: no chunk is as small as can be.
Empty == size < 1

Indivisible == size = 1

-----------------------------------------------------------------------------
Sending == call = "sending" /\ stmt \in DOMAIN Statements

\* The engine applies the chunk: what it can match is merged.
Apply(b) ==
  LET rows == {stmt} \X ((pos + 1)..b) IN
  stored' = IF Statements[stmt].edge /\ ~(PlanVertices \subseteq stored)
            THEN stored ELSE stored \cup rows

Acknowledged(b) == b - pos

Commit ==
  /\ call \in {"idle", "failed"}
  /\ calls < MaxCalls
  /\ calls' = calls + 1
  /\ call' = "sending"
  /\ stmt' = 1 /\ pos' = 0 /\ size' = MaxRows /\ attempt' = 1
  /\ written' = 0
  /\ UNCHANGED stored

\* The next statement starts with the full size again.
Succeed(b) ==
  /\ Sending /\ stmt \notin rejected
  /\ IsChunk(stmt, pos, b)
  /\ Apply(b)
  /\ written' = written + Acknowledged(b)
  /\ attempt' = 1
  /\ IF b = Length(stmt)
     THEN stmt' = stmt + 1 /\ pos' = 0 /\ size' = MaxRows
     ELSE pos' = b /\ UNCHANGED <<stmt, size>>
  /\ UNCHANGED <<call, calls>>

Fail == call' = "failed" /\ UNCHANGED <<stmt, pos, size, attempt, written, calls>>

\* Fault: the refused rows are not in what is chunked again.
AfterRefused(b) == b

FromRefused(b) == pos

\* The engine finds the chunk too much; a runtime limit may hit after the merge.
Refuse(b) ==
  /\ Sending /\ stmt \notin rejected
  /\ IsChunk(stmt, pos, b)
  /\ Apply(b) \/ UNCHANGED stored
  /\ IF Indivisible
     THEN Fail
     ELSE /\ size' = Halved
          /\ pos' = FromRefused(b)
          /\ attempt' = 1
          /\ UNCHANGED <<call, stmt, written, calls>>

MayRepeat == attempt < MaxAttempts

\* A conflict or a missing writer, of which it is not known what was merged: the
\* request is repeated until its attempts are used up.
Conflict(b) ==
  /\ Sending /\ stmt \notin rejected
  /\ IsChunk(stmt, pos, b)
  /\ IF MayRepeat
     THEN /\ attempt' = attempt + 1
          /\ UNCHANGED <<call, stmt, pos, size, written, calls>>
     ELSE Fail
  /\ Apply(b) \/ UNCHANGED stored

\* The connection breaks, before or after the merge, and is not tried again.
Lose(b) ==
  /\ Sending /\ stmt \notin rejected
  /\ IsChunk(stmt, pos, b)
  /\ Apply(b) \/ UNCHANGED stored
  /\ Fail

\* The client rejects the statement, after the ones before it were sent.
RejectRows ==
  /\ Sending /\ stmt \in rejected
  /\ Fail /\ UNCHANGED stored

Return ==
  /\ call = "sending" /\ stmt \notin DOMAIN Statements
  /\ call' = "done"
  /\ UNCHANGED <<stored, stmt, pos, size, attempt, written, calls>>

WriteStep ==
  \/ \E b \in 1..(IF Sending THEN Length(stmt) ELSE 0) :
       Succeed(b) \/ Refuse(b) \/ Conflict(b) \/ Lose(b)
  \/ RejectRows \/ Return

WritesNext == (Commit \/ WriteStep) /\ UNCHANGED rejected

WritesSpec == WritesInit /\ [][WritesNext]_writeVars

\* Every request is answered, if only by an error.
FairWrites == WritesSpec /\ WF_writeVars(WriteStep /\ UNCHANGED rejected)

-----------------------------------------------------------------------------
\* Rows, counters and positions are those of the plan.
WritesTypeOK ==
  /\ stored \subseteq PlanRows
  /\ call \in {"idle", "sending", "done", "failed"}
  /\ rejected \subseteq Unsendable
  /\ stmt \in 1..(Len(Statements) + 1)
  /\ pos \in Nat
  /\ size \in 1..MaxRows
  /\ attempt \in 1..MaxAttempts
  /\ written \in Nat
  /\ calls \in 0..MaxCalls

\* commitWrites reports success only when every row of the plan is in the graph,
\* however often chunks were refused, repeated and cut again.
SuccessStoresAll == call = "done" => PlanRows \subseteq stored

\* No relationship row is sent before both its endpoints are stored: the engine
\* would drop it and acknowledge it.
EndpointsFirst ==
  Sending /\ Statements[stmt].edge => PlanVertices \subseteq stored

\* Every call ends: neither halving nor repeating goes on for ever.
Terminates == (call = "sending") ~> (call \in {"done", "failed"})

\* What was acknowledged is stored: the statements before the current one, and the
\* rows of it before the next chunk.
AcknowledgedAreStored ==
  call \in {"sending", "done"} =>
    /\ \A s \in DOMAIN Statements : s < stmt => Rows(s) \subseteq stored
    /\ stmt \in DOMAIN Statements =>
         pos < Length(stmt) /\ {stmt} \X (1..pos) \subseteq stored

\* The inductive invariant.
WritesInv ==
  /\ WritesTypeOK
  /\ AcknowledgedAreStored
  /\ call = "done" => stmt \notin DOMAIN Statements
=============================================================================
