---- MODULE MCTraceStore ----
(* Instances of TraceStore for TLC: three requests on one session, two      *)
(* snapshot events with different texts, one event of another type and one  *)
(* snapshot without code.  One batch repeats an id, two share an id.          *)
EXTENDS TraceStore, TLC

CONSTANTS sA, sB, sBad, act, cT, cA, cB

MCClientEvent == {sA, sB, sBad, act}
MCSnapshot == {sA, sB, sBad}
MCCode == {cT, cA, cB}
MCCodeOf == sA :> cA @@ sB :> cB @@ sBad :> NoCode
MCBatch == {<<sA, sB>>, <<act, act, sB>>, <<act, sBad>>}
MCRunBody == {SendCode(cB), Pick(2), UseLatest}
====
