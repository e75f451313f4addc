---- MODULE MCJudge ----
(* Instances of ProblemGenerator for TLC.  With one public and one hidden test, a limit *)
(* of 2 and a cap of 6 the cap leaves too little time for a submission to a function,   *)
(* whose harness starts a third child, and enough for the others.                       *)
EXTENDS ProblemGenerator
====
