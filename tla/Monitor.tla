------------------------------ MODULE Monitor ------------------------------
(***************************************************************************)
(* The process monitor of ONE session at work: heartbeats and runs, in     *)
(* overlapping requests, evaluate the stored trace, record AGENT_TRIGGER   *)
(* rows and let the tutor intervene (monitor.evaluate_and_record, called   *)
(* by trace/router.heartbeat and judge/router._execute).                   *)
(*                                                                         *)
(* An evaluation reads the event rows and then the snapshots outside any   *)
(* transaction, with the time at which the request began; what it decides  *)
(* is written later.  Writers of the trace are serialised by the store     *)
(* (TraceStore), so one step appends one row or one batch.                 *)
(***************************************************************************)
EXTENDS ProcessFeatures

CONSTANTS
    Slot,        \* threads that work for this session at the same time
    Runner,      \* those that serve runs, of which the browser starts one at a
                 \* time; the others serve heartbeats, which come by the clock
    MaxNow,      \* bound on the clock
    MaxEvents,   \* students and runs add no rows to a history, or a log of other rows
                 \* than triggers, of that length
    Edit,        \* [region, large]: what changes of the code look like
    LateEdit,    \* those a run may bring along that no event announced
    Input,       \* [type, correct]: the other events of a student
    Verdict      \* [status, passed, total]: what the judge may answer

Region == {e.region : e \in Edit \cup LateEdit} \cup {"OTHER"}
StudentType == ActivityType \ {"TEST_RESULT"}

ASSUME BoundAssumption == {MaxNow, MaxEvents} \subseteq Nat
ASSUME EditAssumption == Edit \cup LateEdit \subseteq [region : STRING, large : BOOLEAN]
ASSUME InputAssumption == Input \subseteq [type : StudentType, correct : BOOLEAN]
ASSUME VerdictAssumption ==
    Verdict \subseteq [status : ScoredStatus \cup SystemStatus \cup ErrorStatus,
                       passed : Nat, total : Nat]

VARIABLES
    log,      \* the event rows in seq order, SESSION_START first
    snaps,    \* the snapshots, the template first
    now,      \* the clock of the server, in seconds
    pc,       \* [Slot -> where the request is]
    start,    \* [Slot -> `now' of the request]
    version,  \* [Slot -> the version that is being judged]
    upto,     \* [Slot -> how many rows the evaluation read]
    decision  \* [Slot -> what it decided]

trace == <<log, snaps>>
vars == <<log, snaps, now, pc, start, version, upto, decision>>

Quiet == [rule |-> "R9", status |-> "PROGRESSING", trigger |-> NoTrigger, remaining |-> 0]

\* create_session at time 0
Init ==
    /\ log = <<[type |-> "SESSION_START", at |-> 0]>>
    /\ snaps = <<[region |-> "OTHER", large |-> FALSE, at |-> 0]>>
    /\ now = 0
    /\ pc = [s \in Slot |-> "idle"]
    /\ start = [s \in Slot |-> 0]
    /\ version = [s \in Slot |-> 1]
    /\ upto = [s \in Slot |-> 0]
    /\ decision = [s \in Slot |-> Quiet]

Goto(s, label) == pc' = [pc EXCEPT ![s] = label]

\* The request is over, and what it had in local variables is gone
Ends(s) ==
    /\ Goto(s, "idle")
    /\ start' = [start EXCEPT ![s] = 0]
    /\ version' = [version EXCEPT ![s] = 1]
    /\ upto' = [upto EXCEPT ![s] = 0]
    /\ decision' = [decision EXCEPT ![s] = Quiet]

Snapshot(edit) == [region |-> edit.region, large |-> edit.large, at |-> now]

\* The bound on what comes in from outside
Room ==
    /\ Cardinality({i \in DOMAIN log : log[i].type # "AGENT_TRIGGER"}) < MaxEvents
    /\ Len(snaps) < MaxEvents

-----------------------------------------------------------------------------
(* The student: POST /events                                               *)

\* A change of the code: the snapshot and its event
ChangeCode(edit) ==
    /\ Room
    /\ snaps' = Append(snaps, Snapshot(edit))
    /\ log' = Append(log, [type |-> "CODE_SNAPSHOT", at |-> now])
    /\ UNCHANGED <<now, pc, start, version, upto, decision>>

\* Any other event, a CODE_SNAPSHOT of unchanged code among them
SendEvent(input) ==
    /\ Room
    /\ log' = Append(log, [type |-> input.type, at |-> now, correct |-> input.correct])
    /\ UNCHANGED <<snaps, now, pc, start, version, upto, decision>>

-----------------------------------------------------------------------------
(* POST /run, /submit and POST /heartbeat                                  *)

\* _execute takes the time, stores the code it was sent if it is new
StartRun(s) ==
    /\ s \in Runner
    /\ pc[s] = "idle"
    /\ Room
    /\ snaps' \in {snaps} \cup {Append(snaps, Snapshot(edit)) : edit \in LateEdit}
    /\ start' = [start EXCEPT ![s] = now]
    /\ version' = [version EXCEPT ![s] = Len(snaps')]
    /\ Goto(s, "judge")
    /\ UNCHANGED <<log, now, upto, decision>>

\* The judge has answered: record_judge_result, at the time the run began
RecordResult(s, verdict) ==
    /\ pc[s] = "judge"
    /\ log' = Append(log, [type |-> "TEST_RESULT", at |-> start[s], version |-> version[s],
                           status |-> verdict.status, passed |-> verdict.passed,
                           total |-> verdict.total])
    /\ Goto(s, "evaluate")
    /\ UNCHANGED <<snaps, now, start, version, upto, decision>>

\* evaluate after a run: all_events
ReadEvents(s) ==
    /\ pc[s] = "evaluate"
    /\ upto' = [upto EXCEPT ![s] = Len(log)]
    /\ Goto(s, "decide")
    /\ UNCHANGED <<trace, now, start, version, decision>>

\* heartbeat takes the time and evaluates at once
Heartbeat(s) ==
    /\ s \notin Runner
    /\ pc[s] = "idle"
    /\ start' = [start EXCEPT ![s] = now]
    /\ upto' = [upto EXCEPT ![s] = Len(log)]
    /\ Goto(s, "decide")
    /\ UNCHANGED <<trace, now, version, decision>>

\* What the evaluation decides: the rows it read, the snapshots as they are now
Judgement(s) == Decision(SubSeq(log, 1, upto[s]), snaps, start[s], 0)

\* evaluate: all_snapshots, then decide
Decide(s) ==
    /\ pc[s] = "decide"
    /\ LET judgement == Judgement(s)
       IN  /\ judgement.trigger # NoTrigger
           /\ decision' = [decision EXCEPT ![s] = judgement]
    /\ Goto(s, "record")
    /\ UNCHANGED <<trace, now, start, version, upto>>
DecideNothing(s) ==
    /\ pc[s] = "decide"
    /\ Judgement(s).trigger = NoTrigger
    /\ Ends(s)
    /\ UNCHANGED <<trace, now>>

\* evaluate_and_record: the row keeps the features of the rows it is based on.
\* Then the run or a background task asks the agent, whose intervention is a row
\* the rules do not read (TraceStore has it).
RecordTrigger(s) ==
    /\ pc[s] = "record"
    /\ log' = Append(log, [type |-> "AGENT_TRIGGER", at |-> start[s],
                           trigger |-> decision[s].trigger, rule |-> decision[s].rule,
                           basis |-> upto[s]])
    /\ Ends(s)
    /\ UNCHANGED <<snaps, now>>

\* The judge is not there, the write lock does not come, the process dies
Fail(s) ==
    /\ pc[s] # "idle"
    /\ Ends(s)
    /\ UNCHANGED <<trace, now>>

Tick ==
    /\ now < MaxNow
    /\ now' = now + 1
    /\ UNCHANGED <<trace, pc, start, version, upto, decision>>

Handle(s) ==
    \/ \E verdict \in Verdict : RecordResult(s, verdict)
    \/ ReadEvents(s) \/ Decide(s) \/ DecideNothing(s) \/ RecordTrigger(s)

Next ==
    \/ \E edit \in Edit : ChangeCode(edit)
    \/ \E input \in Input : SendEvent(input)
    \/ \E s \in Slot : StartRun(s) \/ Heartbeat(s) \/ Handle(s) \/ Fail(s)
    \/ Tick

Spec == Init /\ [][Next]_vars

\* The evaluation of s will find a reason to intervene
WillTrigger(s) == pc[s] = "decide" /\ Judgement(s).trigger # NoTrigger

\* Heartbeats keep coming, each comes to its end, and not every attempt of one to
\* decide and to record fails: the third conjunct is SF_vars(Decide(s)), its guard
\* and what it does written out.  Of the runs nothing is assumed.
FairSpec ==
    /\ Spec
    /\ \A s \in Slot \ Runner : []<>(pc[s] = "idle")
    /\ \A s \in Slot \ Runner : []<>WillTrigger(s) => []<><<pc[s] = "decide" /\ pc'[s] = "record">>_vars
    /\ \A s \in Slot \ Runner : SF_vars(RecordTrigger(s))
    /\ WF_vars(\E s \in Slot : Heartbeat(s))

-----------------------------------------------------------------------------
Label == {"idle", "judge", "evaluate", "decide", "record"}

\* Requests are where they can be and decide what they can decide; the seconds
\* a student is told to wait never exceed the cooldown, whichever request wrote
\* the last trigger with whichever time (seconds_between).
TypeOK ==
    /\ \A i \in DOMAIN log : log[i].at \in 0..now
    /\ \A v \in DOMAIN snaps : snaps[v].region \in Region
    /\ now \in 0..MaxNow
    /\ pc \in [Slot -> Label]
    /\ start \in [Slot -> 0..now]
    /\ \A s \in Slot : version[s] \in DOMAIN snaps
    /\ \A s \in Slot : upto[s] \in 0..Len(log)
    /\ \A s \in Slot : Remaining(SubSeq(log, 1, upto[s]), start[s]) \in 0..CooldownSeconds

Triggers == {j \in DOMAIN log : log[j].type = "AGENT_TRIGGER"}
Asked(j) == log[j].trigger = "HELP_REQUESTED"

\* The rows the evaluation behind trigger j had read
Basis(j) == 1..log[j].basis
NoneOf(rows, types) == \A i \in rows : log[i].type \notin types

\* Unless the student asked, a trigger comes a full cooldown after the last one
\* its evaluation knew of, or after the result of a run (_cooldown).
CooldownHolds ==
    \A j \in Triggers, i \in Triggers :
        /\ ~Asked(j)
        /\ i \in Basis(j)
        /\ NoneOf({k \in Basis(j) : k > i}, {"TEST_RESULT", "AGENT_TRIGGER"})
        => log[j].at - log[i].at >= CooldownSeconds

\* The rules that look at edits or at idleness do not nudge a student again who
\* did nothing since the last nudge (edits_ and activity_since_last_trigger).
QuietWithoutNews ==
    \A j \in Triggers, i \in Triggers :
        /\ log[j].rule \in {"R0", "R7b", "R7c", "R7d"}
        /\ i \in Basis(j)
        => ~NoneOf({k \in Basis(j) : k > i}, ActivityType)

\* A result that counts, and the one before it, whatever errors lie between
IsScored(i) == log[i].type = "TEST_RESULT" /\ log[i].status \in ScoredStatus
LastScored(i, rows) == i \in rows /\ IsScored(i) /\ \A k \in rows : k > i => ~IsScored(k)

\* A student whose last score is better than the one before is interrupted only
\* on request or when a large change explains the jump (the progress guard).
ImprovingIsLeftAlone ==
    \A j \in Triggers : \A k \in Basis(j) : \A i \in 1..(k - 1) :
        /\ LastScored(k, Basis(j))
        /\ LastScored(i, 1..(k - 1))
        /\ log[k].passed > log[i].passed
        => log[j].trigger \in {"HELP_REQUESTED", "UNDERSTANDING_UNCERTAIN"}

\* The results from row i to row k that say something about the student
ObservedIn(i, k) == {m \in i..k : log[m].type = "TEST_RESULT" /\ log[m].status \notin SystemStatus}

\* REPEATED_FAILURE rests on enough results of the student's code: equal scores
\* with no other score between, or errors with no score between; a judge that
\* breaks down counts for nothing (SYSTEM_STATUSES).
FailuresAreReal ==
    \A j \in Triggers : log[j].trigger = "REPEATED_FAILURE" =>
        \E i \in Basis(j) :
            LET rows == ObservedIn(i, log[j].basis)
                scored == {m \in rows : IsScored(m)}
            IN  \/ /\ Cardinality(scored) >= SameResultThreshold
                   /\ \A m, n \in scored : Signature(log[m]) = Signature(log[n])
                \/ Cardinality(rows) >= ConsecutiveErrorThreshold /\ scored = {}

\* Every trigger is earned by the rows its evaluation had read: by something the student
\* did, not by a score that improves nor by breakdowns of the judge, in whatever order edits,
\* errors, outages and scores came.
TriggersAreEarned == QuietWithoutNews /\ ImprovingIsLeftAlone /\ FailuresAreReal

HelpPending == LastSeq(log, {"HINT_REQUEST"}) > LastSeq(log, {"AGENT_TRIGGER"})

\* Whoever asks for help sets off a trigger, cooldown or not (R0).
HintsAreHeard == HelpPending ~> ~HelpPending

\* The student did something and then nothing, and nothing speaks against a
\* nudge: the judge works, the problem is not solved, scores do not improve
Stalled ==
    LET f == Features(log, snaps, now, 0)
        scored == {i \in DOMAIN log : IsScored(i)}
    IN  /\ f.activitySinceTrigger >= 1
        /\ f.sinceActivity >= IdleNoActivitySeconds
        /\ f.last.status \notin SystemStatus
        /\ \A i \in scored : log[i].status # "ACCEPTED"
        /\ \A i, k \in scored : i < k => log[k].passed <= log[i].passed
        /\ Remaining(log, now) = 0
        /\ \A s \in Slot : pc[s] # "judge"

\* An idle student is nudged, however often the problem was tried (R7d).
IdleStudentIsNudged == Stalled ~> ~Stalled

=============================================================================
