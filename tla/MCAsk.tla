-------------------------------- MODULE MCAsk --------------------------------
(***************************************************************************)
(* Three snapshots.  The first holds two claims (1, 2) each reached by one  *)
(* term of the question, which grounds nothing.  The second adds an older   *)
(* claim (6) that the sub-question reaches and that shares a slot with 1.   *)
(* The third adds a claim the probe names (3), one only the terms           *)
(* discovered in the others reach (4), and two that share the slot of 1:    *)
(* one recorded after the as-of session (5), and one recorded in time about *)
(* a year the question does not ask for (7).  3 and 4 are of one turn.      *)
(*                                                                         *)
(* The question asks on 10 March 2024 for what was and was recorded that    *)
(* year; the session of 6 is of the week before it, its date unknown.       *)
(* The judge may miss d1, which makes 1 converge, or m, which does not.     *)
(***************************************************************************)
EXTENDS Ask

MCClaims == 1..7
MCTerms == {"q1", "q2", "d1", "d2", "m"}
MCSlots == {"weight", "city"}
MCTokens == << {"q1", "d1"}, {"q2", "d2"}, {}, {"d1", "d2"}, {}, {"m"}, {} >>
MCSlot == <<"city", "none", "weight", "none", "city", "city", "city">>
MCSession == <<1, 2, 2, 2, 4, 1, 2>>
MCSessionDate == <<20231227, 20240131, 20240131, 20240131, 20240309, 20231227, 20240131>>
MCAccepted == <<20240102, 20240201, 20240201, 20240201, 20240310, 20240102, 20240201>>
MCEvent == << <<2024, 2>>, <<2024>>, <<2024, 2, 29>>, <<2024, 2>>, <<2024>>, <<>>, <<2023>> >>
MCPhrase == [says |-> "ago", unit |-> "year", n |-> 0]
MCTurn == <<1, 2, 3, 3, 5, 6, 7>>
MCChars == [t \in {1, 2, 3, 5, 6, 7} |-> IF t = 3 THEN 3 ELSE 2]
MCCaps == [arm |-> 2, union |-> 5, seeds |-> 3, topK |-> 3, perSlot |-> 2, mates |-> 2,
           turns |-> 2, top |-> 1]
MCHolds == << {1, 2}, {1, 2, 6}, 1..7 >>
MCSuperseded == << {}, {6}, {1} >>
MCQuestion == [terms |-> {"q1", "q2"}, subTerms |-> {"m"}, probes |-> {"weight"}]
MCMissing == {{"d1"}, {"m"}}

\* Around the end of a year, of February and of a week.
MCYears == 2022..2026
Today == {20231231, 20240101, 20240228, 20240229, 20240301, 20240302, 20240303, 20240304, 20250301}
Say(says, unit, ns) == {[says |-> says, unit |-> unit, n |-> n] : n \in ns}
MCPhrases ==
  UNION {Say("ago", unit, {0, 1, 2}) : unit \in {"day", "week", "month"}}
    \cup Say("ago", "month", {14}) \cup Say("ago", "year", {0, 1})
    \cup Say("last", "weekday", 0..6) \cup Say("last", "month", {1, 2, 3, 12})
    \cup Say("in", "month", {1, 2, 3, 12}) \cup Say("in", "monthDay", {101, 228, 301, 302, 1231})
    \cup Say("in", "weekend", {0})
MCQuestions == MCPhrases \X Today
=============================================================================
