-------------------------- MODULE ProcessFeatures --------------------------
(***************************************************************************)
(* What the process monitor concludes from the trace of a session, as a    *)
(* function of the event rows, the snapshots and the clock                 *)
(* (backend/app/trace/features.py and the pure half of monitor.py).        *)
(*                                                                         *)
(* A log is a sequence of event rows in seq order: seq is the index, the   *)
(* store keeps it gapless.  A history of snapshots is a sequence too: its  *)
(* index is the version, 1 is the template.                                *)
(***************************************************************************)
EXTENDS Integers, Sequences, FiniteSets, FiniteSetsExt

\* MonitorConfig.  A large change passes large_change_ratio, _min_lines and
\* _window_seconds; the snapshot says whether it does.
CONSTANTS
    NoProgressSeconds, SameResultThreshold, SameRegionThreshold,
    ConsecutiveErrorThreshold, CooldownSeconds, EditChurnThreshold,
    IdleEditSeconds, PasteSettleSeconds, IdleNoActivitySeconds

ASSUME ConfigAssumption ==
    /\ {NoProgressSeconds, CooldownSeconds, IdleEditSeconds, PasteSettleSeconds,
        IdleNoActivitySeconds} \subseteq Nat
    /\ {SameResultThreshold, SameRegionThreshold, ConsecutiveErrorThreshold,
        EditChurnThreshold} \subseteq Nat \ {0}

ScoredStatus == {"ACCEPTED", "WRONG_ANSWER"}
SystemStatus == {"INTERNAL_ERROR"}
ErrorStatus == {"SYNTAX_ERROR", "RUNTIME_ERROR", "TIME_LIMIT"}

\* ACTIVITY_EVENT_TYPES: what the student did, and the results of it
ActivityType ==
    {"CODE_SNAPSHOT", "RUN", "SUBMIT", "UNDO", "RESET", "HINT_REQUEST",
     "ACTIVITY_OPENED", "ACTIVITY_RESPONSE", "TEST_RESULT"}

\* Mutant of Elapsed: no clamp
ElapsedUnclamped(from, to) == to - from

\* seconds_between
Elapsed(from, to) == Max({0, to - from})

-----------------------------------------------------------------------------
\* The rows of results, by their seqs; those of scores, the breakdowns left out
Results(log) == {i \in DOMAIN log : log[i].type = "TEST_RESULT"}
Scored(log) == {i \in Results(log) : log[i].status \in ScoredStatus}
Observed(log) == {i \in Results(log) : log[i].status \notin SystemStatus}

\* The seq of the last row of one of the types, 0 if there is none
LastSeq(log, types) == Max({0} \cup {i \in DOMAIN log : log[i].type \in types})

CountAfter(log, types, seq) ==
    Cardinality({i \in DOMAIN log : i > seq /\ log[i].type \in types})

\* _trailing_run: the positions at the end whose key is that of the last one
TrailingRun(keys) ==
    {i \in DOMAIN keys : \A j \in DOMAIN keys : j >= i => keys[j] = keys[Max(DOMAIN keys)]}

Signature(r) == <<r.status, r.passed, r.total>>

\* The score before that of row i
Before(scored, i) == Max({k \in scored : k < i})

\* The result that set the personal record, the first of those with that score
BestResult(log, scored) ==
    log[Min({i \in scored : \A j \in scored : log[j].passed <= log[i].passed})]

\* The time of the last correct answer to an activity, as a set of at most one
SuccessTimes(log) ==
    LET correct == {i \in DOMAIN log : log[i].type = "ACTIVITY_RESPONSE" /\ log[i].correct}
    IN  IF correct = {} THEN {} ELSE {log[Max(correct)].at}

\* The times that may be the anchor of progress
ProgressTimes(log, scored) ==
    SuccessTimes(log) \cup (IF scored = {} THEN {} ELSE {BestResult(log, scored).at})

\* _progress_version
ProgressVersion(log, scored) ==
    IF scored = {} THEN 1
    ELSE IF SuccessTimes(log) = {Max(ProgressTimes(log, scored))}
      THEN log[Max(scored)].version
    ELSE BestResult(log, scored).version

NoResult == [type |-> "TEST_RESULT", at |-> 0, version |-> 0, status |-> "NONE",
             passed |-> 0, total |-> 0]

\* The latest row of a set of results
LastOf(log, results) == IF results = {} THEN NoResult ELSE log[Max(results)]

\* extract_features, the features the rules read
Features(log, snaps, now, started) ==
    LET last == LastOf(log, Results(log))
        scored == Scored(log)
        observed == Observed(log)
        times == ProgressTimes(log, scored)
        better == {i \in scored : /\ \E k \in scored : k < i
                                  /\ log[i].passed > log[Before(scored, i)].passed}
        sameResult == TrailingRun([i \in scored |-> Signature(log[i])])
        errors == TrailingRun([i \in observed |-> log[i].status \in ErrorStatus])
        trigger == LastSeq(log, {"AGENT_TRIGGER"})
        EditsAfter(version) == {v \in 2..Len(snaps) : v > version}
        anchor == ProgressVersion(log, scored)
        streak == IF scored = {} THEN anchor ELSE log[Min(sameResult)].version
        tagged == {v \in EditsAfter(anchor) : snaps[v].region # "OTHER"}
        activity == {log[i].at : i \in {j \in DOMAIN log : log[j].type \in ActivityType}}
    IN  [attempts |-> Cardinality(Results(log)),
         last |-> last,
         sameResult |-> Cardinality(sameResult),
         delta |-> IF Cardinality(scored) < 2 THEN 0
                   ELSE log[Max(scored)].passed - log[Before(scored, Max(scored))].passed,
         improved |-> \E i \in better : Cardinality({k \in scored : k > i}) <= 1,
         errors |-> IF LastOf(log, observed).status \in ErrorStatus THEN Cardinality(errors) ELSE 0,
         sinceProgress |-> Elapsed(IF times = {} THEN started ELSE Max(times), now),
         sameRegion |-> Cardinality(TrailingRun([v \in tagged |-> snaps[v].region])),
         editsInStreak |-> Cardinality(EditsAfter(streak)),
         large |-> LET from == IF Cardinality(scored) < 2 THEN 1
                               ELSE log[Before(scored, Max(scored))].version
                   IN  \E v \in EditsAfter(from) : snaps[v].large,
         unverified |-> \E v \in EditsAfter(Max({2, last.version})) : snaps[v].large,
         editsSinceResult |-> Cardinality(EditsAfter(last.version)),
         sinceEdit |-> Elapsed(snaps[Len(snaps)].at, now),
         sinceActivity |-> Elapsed(Max(activity \cup {snaps[Len(snaps)].at}), now),
         editsSinceTrigger |-> CountAfter(log, {"CODE_SNAPSHOT"}, trigger),
         activitySinceTrigger |-> CountAfter(log, ActivityType, trigger),
         hint |-> LastSeq(log, {"HINT_REQUEST"}),
         trigger |-> trigger]

-----------------------------------------------------------------------------
NoTrigger == "NONE"

Says(when, status, trigger) == [when |-> when, status |-> status, trigger |-> trigger]

Accepted(f) == f.last.status = "ACCEPTED"

\* The rules of _classify
Rules(f) ==
    [R1s |-> Says(f.last.status \in SystemStatus, "PROGRESSING", NoTrigger),
     R2  |-> Says(Accepted(f) /\ f.large, "UNDERSTANDING_UNCERTAIN", "UNDERSTANDING_UNCERTAIN"),
     R3  |-> Says(f.delta > 0 \/ f.improved, "PROGRESSING", NoTrigger),
     R4  |-> Says(Accepted(f), "PROGRESSING", NoTrigger),
     R5  |-> Says(f.sameResult >= SameResultThreshold /\ f.sameRegion >= SameRegionThreshold,
                  "STUCK", "REPEATED_FAILURE"),
     R5b |-> Says(f.sameResult >= SameResultThreshold /\ f.editsInStreak = 0,
                  "STUCK", "REPEATED_FAILURE"),
     R6  |-> Says(f.errors >= ConsecutiveErrorThreshold, "STUCK", "REPEATED_FAILURE"),
     R7  |-> Says(f.sinceProgress >= NoProgressSeconds /\ f.attempts >= 2,
                  "POSSIBLE_STUCK", "NO_PROGRESS"),
     R7b |-> Says(/\ f.unverified
                  /\ f.sinceEdit >= PasteSettleSeconds
                  /\ f.editsSinceTrigger >= 1,
                  "UNDERSTANDING_UNCERTAIN", "UNDERSTANDING_UNCERTAIN"),
     R7c |-> Says(/\ f.sameRegion >= EditChurnThreshold
                  /\ f.sinceEdit >= IdleEditSeconds
                  /\ f.editsSinceResult >= 1
                  /\ f.editsSinceTrigger >= 1,
                  "POSSIBLE_STUCK", "NO_PROGRESS"),
     R7d |-> Says(/\ IdleNoActivitySeconds > 0
                  /\ f.sinceActivity >= IdleNoActivitySeconds
                  /\ f.activitySinceTrigger >= 1,
                  "POSSIBLE_STUCK", "NO_PROGRESS"),
     R8  |-> Says(f.attempts >= 2, "PRODUCTIVE_STRUGGLE", NoTrigger),
     R9  |-> Says(TRUE, "PROGRESSING", NoTrigger)]

\* Mutants of Chain: the progress guard below the failures; the rule for the
\* idle student behind those for whoever is at work
ChainGuardLate ==
    <<"R1s", "R2", "R4", "R5", "R5b", "R6", "R7", "R3", "R7b", "R7c", "R7d", "R8", "R9">>
ChainIdleLate ==
    <<"R1s", "R2", "R3", "R4", "R5", "R5b", "R6", "R7", "R7b", "R7c", "R8", "R9", "R7d">>

\* The order in which _classify asks them: the first that applies decides
Chain == <<"R1s", "R2", "R3", "R4", "R5", "R5b", "R6", "R7", "R7b", "R7c", "R7d", "R8", "R9">>

Classify(f) ==
    LET rules == Rules(f)
    IN  Chain[Min({i \in DOMAIN Chain : rules[Chain[i]].when})]

\* Mutant of Remaining: the cooldown counts from the first intervention
RemainingSinceFirst(log, now) ==
    LET triggers == {i \in DOMAIN log : log[i].type = "AGENT_TRIGGER"}
    IN  IF triggers = {} THEN 0
        ELSE Max({0, CooldownSeconds - Elapsed(log[Min(triggers)].at, now)})

\* _cooldown: the seconds left of it, 0 when it is over; a result after the
\* trigger ends it
Remaining(log, now) ==
    LET trigger == LastSeq(log, {"AGENT_TRIGGER"})
    IN  IF trigger = 0 \/ LastSeq(log, {"TEST_RESULT"}) > trigger THEN 0
        ELSE Max({0, CooldownSeconds - Elapsed(log[trigger].at, now)})

\* Mutant of HintPending: only a hint before the first trigger counts
HintOnce(f) == f.hint > 0 /\ f.trigger = 0

\* hint_pending: a HINT_REQUEST after the last AGENT_TRIGGER
HintPending(f) == f.hint > f.trigger

\* decide
Decision(log, snaps, now, started) ==
    LET f == Features(log, snaps, now, started)
        name == IF HintPending(f) THEN "R0" ELSE Classify(f)
        remaining == Remaining(log, now)
    IN  IF name = "R0"
          THEN [rule |-> name, status |-> "HELP_REQUESTED", trigger |-> "HELP_REQUESTED",
                remaining |-> remaining]
        ELSE [rule |-> name, status |-> Rules(f)[name].status,
              trigger |-> IF remaining > 0 THEN NoTrigger ELSE Rules(f)[name].trigger,
              remaining |-> remaining]
=============================================================================
