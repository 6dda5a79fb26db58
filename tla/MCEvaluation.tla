---------------------------- MODULE MCEvaluation ----------------------------
(***************************************************************************)
(* Two dev questions, the right answer to the second of which is to refuse; *)
(* three test questions, the last of a user who is missing and may be       *)
(* ingested late.  The retired system refused everything.                  *)
(***************************************************************************)
EXTENDS Evaluation

MCDev == <<"d1", "d2">>
MCTest == <<"t1", "t2", "t3">>
MCSlice == <<"d1", "t1">>
MCTypeOf == [q \in Keys |-> IF q \in {"d2", "t2"} THEN "update" ELSE "fact"]
MCV1 == [q \in {"d1", "d2"} |-> "refused"]
MCBatches == [arm \in {"dev-replay", "test-arm"} |-> IF arm = "test-arm" THEN 2 ELSE 1]
MCAnswersTo == [q \in Keys |-> IF q = "d1" THEN Answers ELSE {IF q = "d2" THEN "refused" ELSE "right"}]
MCDoes == [p \in Procs |-> IF p = "main" THEN Kinds \cup {"splits"} ELSE {"dev"}]
MCConcurrency == [p \in Procs |-> IF p = "main" THEN 1 ELSE 2]
MCDevRows == [q \in {"d1", "d2"} |-> IF q = "d1" THEN "right" ELSE "refused"]
MCKept == {{"d1", "d2"}, {"d2"}}
MCVisible == [q \in Keys |-> IF q = "t3" THEN "missing" ELSE "complete"]
=============================================================================
