---- MODULE MCMonitor ----
(* Instances of Monitor for TLC: overlapping requests, thresholds scaled    *)
(* down to a clock that ticks once.                                          *)
EXTENDS Monitor

MCLarge == {[region |-> "LOOP", large |-> TRUE]}
MCSmall == {[region |-> "LOOP", large |-> FALSE]}
MCInput == {[type |-> "HINT_REQUEST", correct |-> FALSE],
            [type |-> "ACTIVITY_RESPONSE", correct |-> TRUE]}

Answer(status, passed, total) == [status |-> status, passed |-> passed, total |-> total]
MCVerdict == {Answer("WRONG_ANSWER", 0, 2), Answer("WRONG_ANSWER", 1, 2),
              Answer("ACCEPTED", 2, 2), Answer("SYNTAX_ERROR", 0, 0),
              Answer("INTERNAL_ERROR", 0, 0)}
====
