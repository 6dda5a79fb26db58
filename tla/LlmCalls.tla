------------------------------ MODULE LlmCalls ------------------------------
(***************************************************************************)
(* The provider client and its cache (llm/src/Llm.ts, Cache.ts).  Each      *)
(* process has a gate of permits and asks for any number of keys at once;   *)
(* the cache is a directory of files that all processes share.              *)
(*                                                                         *)
(* A key stands for a whole request: model, prompt and schema.  A file is   *)
(* written in two steps, truncated and filled; nothing keeps two callers of *)
(* one key apart.  A file that is torn, or does not decode, is a miss.      *)
(***************************************************************************)
EXTENDS Naturals, FiniteSets

CONSTANTS
  Procs,            \* the processes
  Keys,             \* the requests
  Answers,          \* what the provider may answer, and
  AnswersTo,        \* to each key
  Absent, Torn,     \* no file; a file that is not a whole entry
  Permits           \* PALIMPSEST_LLM_CONCURRENCY

ASSUME CallsAreBounded ==
  /\ AnswersTo \in [Keys -> SUBSET Answers]
  /\ Permits \in Nat \ {0}
  /\ Absent \notin Answers /\ Torn \notin Answers /\ Absent # Torn

VARIABLES
  cache,            \* the file of each key
  calls             \* each process's call for each key

callVars == <<cache, calls>>

NoCall == [at |-> "idle", answer |-> Absent, live |-> FALSE]

Call == [at : {"idle", "missed", "live", "answered", "writing", "done", "failed"},
         answer : Answers \cup {Absent}, live : BOOLEAN]

CallsInit == cache \in [Keys -> {Absent}] /\ calls = [p \in Procs |-> [k \in Keys |-> NoCall]]

At(p, place) == {k \in Keys : calls[p][k].at = place}
Busy(p) == Keys \ (At(p, "idle") \cup At(p, "done"))
Moves(p, k, to) == calls' = [calls EXCEPT ![p][k] = to]
Goes(p, k, place) == Moves(p, k, [calls[p][k] EXCEPT !.at = place])

\* Fault: entries are written but never read.
Unread(k) == {}

\* What the file holds, if its entry is whole and decodes.
readCache(k) == IF cache[k] \in Answers THEN {cache[k]} ELSE {}

-----------------------------------------------------------------------------
MayAsk(cacheOnly) == ~cacheOnly

LookUp(p, k, cacheOnly) ==
  /\ calls[p][k].at = "idle"
  /\ IF readCache(k) # {}
       THEN Moves(p, k, [NoCall EXCEPT !.at = "done", !.answer = cache[k]])
       ELSE Goes(p, k, IF MayAsk(cacheOnly) THEN "missed" ELSE "failed")
  /\ UNCHANGED cache

\* The permit is held through the retries, until the answer or the last failure.
withPermits(p, k) ==
  /\ calls[p][k].at = "missed"
  /\ Cardinality(At(p, "live")) < Permits
  /\ Goes(p, k, "live")
  /\ UNCHANGED cache

Answered(p, k) ==
  /\ calls[p][k].at = "live"
  /\ \E a \in AnswersTo[k] : Moves(p, k, [NoCall EXCEPT !.at = "answered", !.answer = a, !.live = TRUE])
  /\ UNCHANGED cache

\* A transient failure is tried again with the permit held, which changes
\* nothing here; the last of them, a refusal, an answer that does not decode, no
\* content or no API key ends the call.
Failed(p, k) ==
  /\ calls[p][k].at = "live"
  /\ Goes(p, k, "failed")
  /\ UNCHANGED cache

Truncate(p, k) ==
  /\ calls[p][k].at = "answered"
  /\ cache' = [cache EXCEPT ![k] = Torn]
  /\ Goes(p, k, "writing")

\* Over a file another writer has filled meanwhile, the two entries may mix.
Fill(p, k) ==
  LET answer == calls[p][k].answer IN
  /\ calls[p][k].at = "writing"
  /\ cache' \in {[cache EXCEPT ![k] = e] : e \in {answer} \cup (IF cache[k] \in Answers \ {answer} THEN {Torn} ELSE {})}
  /\ Goes(p, k, "done")

writeCache(p, k) == Truncate(p, k) \/ Fill(p, k)

CallStep(p, k) ==
  \/ withPermits(p, k)
  \/ Answered(p, k)
  \/ Failed(p, k)
  \/ writeCache(p, k)

\* The process is gone; what it was writing stays as it is.
Abandon(p) == calls' = [calls EXCEPT ![p] = [k \in Keys |-> NoCall]] /\ UNCHANGED cache
=============================================================================
