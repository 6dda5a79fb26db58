----------------------------- MODULE HydraReads -----------------------------
(***************************************************************************)
(* The reading side of the HydraDB client (hydra/src/Transport.ts,          *)
(* Paging.ts, Decode.ts, Identity.ts, Client.ts, Memory.ts).  The engine is *)
(* external: it commits records one after the other, and answers a query    *)
(* page by page from the state after some number of commits, which is at    *)
(* least the one a bookmark names; without a bookmark a replica may lag.    *)
(*                                                                         *)
(* A fiber carries its causal floor.  One call is the pages of one query,   *)
(* all of it sent again when the engine reports a retryable error.  A       *)
(* record is the key it was written under, the scope its contents belong    *)
(* to, and the caller that wrote it.                                        *)
(***************************************************************************)
EXTENDS Naturals, Sequences, FiniteSets

CONSTANTS
  Fibers,           \* effects that run beside each other
  Keys,
  IdOf,             \* vertexId: two keys may share a number
  PageRows,         \* the engine's rows per page (1024)
  MaxPages,         \* MAX_RESULT_PAGES
  MaxTries,         \* RETRYABLE_SCHEDULE: one attempt and six more
  Settled           \* records every replica held before the first call

ASSUME ReadsAreBounded ==
  /\ IdOf \in [Keys -> Nat]
  /\ {PageRows, MaxPages, MaxTries} \subseteq Nat \ {0} /\ Settled \in Nat

VARIABLES
  log,              \* engine: the records in the order they were committed
  floor,            \* CurrentHydraBookmark of each fiber, 0 for none
  call              \* the call each fiber waits for

readVars == <<log, floor, call>>

Failures == {"engine", "unavailable", "limit", "integrity"}

NoQuery == [ids |-> {}, key |-> "none"]
NoCall == [state |-> "idle", query |-> NoQuery, since |-> 0, at |-> 0, mark |-> 0,
           rows |-> <<>>, page |-> 0, open |-> FALSE, tries |-> 0]

\* A lookup asks by number for the one record of a key, a walk for those of many.
LookUp(k) == [ids |-> {IdOf[k]}, key |-> k]
Walk(ks) == [ids |-> {IdOf[k] : k \in ks}, key |-> "none"]

\* What a query finds in the graph after e commits, in the order it was committed.
Matches(q, e) == {i \in 1..e : IdOf[log[i].key] \in q.ids}

Nth(S, n) == CHOOSE i \in S : Cardinality({j \in S : j <= i}) = n

Found(q, e) == LET S == Matches(q, e) IN [n \in 1..Cardinality(S) |-> log[Nth(S, n)]]

Page(q, e, n) == SubSeq(Found(q, e), (n - 1) * PageRows + 1,
                        IF n * PageRows < Len(Found(q, e)) THEN n * PageRows ELSE Len(Found(q, e)))

-----------------------------------------------------------------------------
\* verifyVertexRow, verifyPath: a record under the number of another key.
Misfiled(q, rows) == q.key # "none" /\ \E i \in DOMAIN rows : rows[i].key # q.key

\* The whole read is done; only now does the fiber's floor move.
Settle(f, c) ==
  /\ call' = [call EXCEPT ![f] =
                IF Misfiled(c.query, c.rows) THEN [NoCall EXCEPT !.state = "integrity"]
                ELSE [NoCall EXCEPT !.state = "done", !.query = c.query, !.since = c.since,
                                    !.at = c.at, !.rows = c.rows]]
  /\ floor' = IF c.mark = 0 THEN floor ELSE [floor EXCEPT ![f] = c.mark]

\* After the last row the engine may still hand out a cursor.
MayStayOpen(q, e, n) == {n * PageRows < Len(Found(q, e)), Page(q, e, n) # <<>>}

Take(f, c) ==
  IF c.open THEN call' = [call EXCEPT ![f] = c] /\ UNCHANGED floor ELSE Settle(f, c)

\* The states a replica may answer a fiber from.
Visible(f) == {e \in Settled..Len(log) : e >= floor[f]}

\* The first page of an attempt: it alone names the bookmark and the epoch.
FirstPage(f) ==
  /\ call[f].state = "sent"
  /\ \E e \in Visible(f) :
       \E open \in MayStayOpen(call[f].query, e, 1), mark \in {e, 0} :
         Take(f, [call[f] EXCEPT !.state = "paging", !.at = e, !.mark = mark, !.page = 1,
                                 !.rows = Page(call[f].query, e, 1), !.open = open])
  /\ UNCHANGED log

Fail(f, why) == call' = [call EXCEPT ![f] = [NoCall EXCEPT !.state = why]] /\ UNCHANGED floor

\* Fault: a result at the cap is returned as far as it was read.
Truncates(f) == Settle(f, call[f])

OverPages(f) == Fail(f, "limit")

\* followCursor: an empty page ends it, and so many pages are refused.
NextPage(f) ==
  /\ call[f].state = "paging"
  /\ LET c == call[f]
         rows == Page(c.query, c.at, c.page + 1)
     IN  IF c.page > MaxPages THEN OverPages(f)
         ELSE IF rows = <<>> THEN Settle(f, c)
         ELSE \E open \in MayStayOpen(c.query, c.at, c.page + 1) :
                Take(f, [c EXCEPT !.page = @ + 1, !.rows = @ \o rows, !.open = open])
  /\ UNCHANGED log

Again(c) == [NoCall EXCEPT !.state = "sent", !.query = c.query, !.since = c.since,
                           !.tries = c.tries + 1]

Repeat(f) ==
  IF call[f].tries + 1 < MaxTries
  THEN call' = [call EXCEPT ![f] = Again(call[f])] /\ UNCHANGED floor
  ELSE Fail(f, "engine")

\* A reviewed engine code is retried; a lost or malformed body and a limit are not.
EngineError(f) ==
  /\ call[f].state \in {"sent", "paging"}
  /\ \/ Repeat(f)
     \/ \E why \in {"unavailable", "limit"} : Fail(f, why)
  /\ UNCHANGED log

ReadStep(f) == FirstPage(f) \/ NextPage(f) \/ EngineError(f)

-----------------------------------------------------------------------------
(***************************************************************************)
(* Properties.                                                             *)
(***************************************************************************)

\* A read that succeeds returns all that one committed state held for it, and
\* that state is no older than the floor the call was made under: no page lost
\* at a cap, repeated by a retry, or taken from another state (Transport.ts,
\* Paging.ts).
WholeResult ==
  \A f \in Fibers : LET c == call[f] IN
    c.state = "done" => c.rows = Found(c.query, c.at) /\ c.at \in c.since..Len(log)
=============================================================================
