------------------------------ MODULE EventLog ------------------------------
(***************************************************************************)
(* What the trace of a session promises its readers (the monitor, the      *)
(* timeline, the polling client): a log of events that only grows, by      *)
(* whole batches at its end, starts with SESSION_START and holds each      *)
(* client event at most once.  Rows the server writes come one at a time.  *)
(***************************************************************************)
EXTENDS Integers, Sequences

CONSTANTS Id, NoId, ServerEvent, ClientKind

VARIABLES log, closed

Entry == [type : ServerEvent \cup ClientKind, id : Id \cup {NoId}]

LoggedIds(entries) == {entries[i].id : i \in DOMAIN entries} \ {NoId}

Init ==
    /\ log = <<[type |-> "SESSION_START", id |-> NoId]>>
    /\ closed = FALSE

\* The first Len(log) entries of the next log are those of this one
Extends ==
    /\ Len(log') > Len(log)
    /\ \A i \in 1..Len(log) : log'[i] = log[i]

Added == (Len(log) + 1)..Len(log')

\* A batch of client events, none of them logged before, all different
AppendBatch ==
    /\ Extends
    /\ \A i \in Added :
          /\ log'[i] \in [type : ClientKind, id : Id]
          /\ log'[i].id \notin LoggedIds(log)
          /\ \A j \in Added : log'[i].id = log'[j].id => i = j
    /\ UNCHANGED closed

\* One event of the server; SESSION_END goes with the session being finished
AppendServerEvent ==
    /\ Extends
    /\ Len(log') = Len(log) + 1
    /\ log'[Len(log')] \in [type : ServerEvent \ {"SESSION_START"}, id : {NoId}]
    /\ closed' = (closed \/ log'[Len(log')].type = "SESSION_END")

Next == AppendBatch \/ AppendServerEvent

Spec == Init /\ [][Next]_<<log, closed>>
=============================================================================
