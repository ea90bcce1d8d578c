--------------------------- MODULE MCBatchWorkers ---------------------------
(* The instance of BatchWorkers that TLC checks. *)
EXTENDS BatchWorkers

CONSTANTS a, b, c, d

MCIndividual == {a, b, c, d}

(* Rerun lists as the round-robin builds them: everyone once, then again.  *)
(* With two workers a list of one individual cannot fill a wave.           *)
MCRerunLists == {<<a, b, a, b>>, <<a, b, c, a>>, <<a, a>>}

(* evaluate lists: one job per individual; the layout of d is unusable.    *)
MCEvaluateLists == {<<a, d, b>>, <<d, a, b, c>>, <<d>>, <<>>}

(* A wave's capacity is set by the workers, by the attempts left, or by    *)
(* the number of different individuals; 9 is more than any list can use.   *)
MCBudgets == {0, 1, 2, 3, 5, 9}
=============================================================================
