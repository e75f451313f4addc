------------------------------- MODULE Courses -------------------------------
(***************************************************************************)
(* ONE course: enrolment, assignments, the progress its students make by   *)
(* being judged, by the server or on their own page, and the statistics    *)
(* that the educator reads (backend/app/educator, the second half of       *)
(* judge/router._execute, sync_local_result and put_checkpoint of          *)
(* users/router).                                                          *)
(*                                                                         *)
(* Rows of other courses do not interact with these.  A transaction is one *)
(* step from its first write, which takes the write lock, to its commit;   *)
(* what a handler reads before that it reads at any earlier time.  Every   *)
(* GET of the educator recalculates, so it writes, and never commits.      *)
(***************************************************************************)
EXTENDS Integers, FiniteSets, FiniteSetsExt

CONSTANTS
    Students,
    Problems,       \* the repository of problems
    Requests,       \* the requests that are judged or ask for a page, each used once
    None,
    Earlier,        \* numbers of attempts that a problem may start with
    MaxAssignments  \* bound: assignments of the course

ASSUME NoneAssumption == None \notin Students \cup Problems
ASSUME FiniteAssumption == IsFiniteSet(Students) /\ IsFiniteSet(Problems)
ASSUME EarlierAssumption == Earlier \subseteq Nat /\ 0 \in Earlier

VARIABLES
    backend,     \* judge_backend; "none" stands for app_env "dev" as well
    listed,      \* CourseProblem rows: the problems the course was created with
    assignments, \* the problem sets of the assignments
    enrolled,    \* Enrollment.status
    progress,    \* the course's progress rows
    private,     \* SOLVED rows outside of courses, pairs of student and problem
    paid,        \* the awards in the ledger
    accepted,    \* stored TEST_RESULT events of accepted submissions
    reported,    \* history: accepted submissions that pages reported as their own result
    idle,        \* students whose last attempt in the course is INACTIVE_HOURS old
    troubled,    \* students with two AGENT_TRIGGER events or more
    stats,       \* StudentCourseStats rows
    req,         \* the handlers
    view         \* history of the GETs: what was committed when they were asked, and the answer

course == <<backend, listed, assignments, enrolled>>
learning == <<progress, private, paid, accepted, reported, idle, troubled>>
vars == <<course, learning, stats, req, view>>

-----------------------------------------------------------------------------
\* assigned_problem_ids
Assigned ==
    IF listed # {} THEN listed
    ELSE IF assignments # {} THEN UNION assignments
    ELSE Problems

Solved(rows) == {p \in Problems : rows[p].solved}
Started(rows) == {p \in Problems : rows[p].exists}
Tried(rows) == {p \in Problems : rows[p].attempts > 0}
Attempts(rows) == MapThenSumSet(LAMBDA p : rows[p].attempts, Problems)

\* round: halves go to the even neighbour.
Round(n, d) ==
    LET q == n \div d
        r == n % d
    IN IF 2 * r < d \/ (2 * r = d /\ q % 2 = 0) THEN q ELSE q + 1

Points(condition, n) == IF condition THEN n ELSE 0
Most(a, b) == IF a < b THEN b ELSE a
Least(a, b) == IF a < b THEN a ELSE b

ProgressRate(solved, n) == IF n = 0 THEN 0 ELSE Round(100 * solved, n)

\* MUTANT: solved problems count as problems a student is stuck at.
StuckAtAny(rows) == \E p \in Problems : rows[p].attempts >= 4

Stuck(rows) == \E p \in Problems : ~rows[p].solved /\ rows[p].attempts >= 4

RiskScore(rate, solved, rows, inactive, triggered) ==
    LET attempts == Attempts(rows)
        work == IF Started(rows) = {} THEN 55
                ELSE Round(Most(0, 60 - rate), 2)
                     + Points(attempts >= 5 /\ 5 * solved < attempts, 20)
                     + Points(Stuck(rows), 15)
    IN Least(100, work + Points(inactive, 25) + Points(triggered, 10))

LearningStatus(score, rows, inactive) ==
    CASE inactive /\ Started(rows) # {} -> "INACTIVE"
      [] ~(inactive /\ Started(rows) # {}) /\ score >= 70 -> "NEEDS_HELP"
      [] ~(inactive /\ Started(rows) # {}) /\ score \in 40 .. 69 -> "WATCH"
      [] OTHER -> "ON_TRACK"

\* recalculate_stats, from what it has read.  Who never tried is not active either.
Summary(assigned, rows, gone, triggered) ==
    LET solved == Cardinality(Solved(rows) \cap assigned)
        inactive == gone \/ Tried(rows) = {}
        score == RiskScore(ProgressRate(solved, Cardinality(assigned)),
                           solved, rows, inactive, triggered)
    IN [assigned |-> Cardinality(assigned), solved |-> solved, attempts |-> Attempts(rows),
        score |-> score, status |-> LearningStatus(score, rows, inactive)]

Recalculated(s, assigned) == Summary(assigned, progress[s], s \in idle, s \in troubled)

\* The UPDATE names the columns whose value is not the one that was loaded.
Written(loaded, computed, row) ==
    [f \in DOMAIN row |-> IF computed[f] # loaded[f] THEN computed[f] ELSE row[f]]

-----------------------------------------------------------------------------
Free == [kind |-> "none", at |-> "free", student |-> None, problem |-> None,
         counts |-> FALSE, among |-> {}, assigned |-> {}, summary |-> None, loaded |-> None]

\* kind solve: an accepted submission; try: every other attempt, a run that passes included.
Untried == [exists |-> FALSE, attempts |-> 0, solved |-> FALSE]

NoView == [base |-> None, inForce |-> {}, shown |-> None, completion |-> 0]

Goto(r, at) == req' = [req EXCEPT ![r].at = at]

\* A course under way.
Init ==
    /\ backend \in {"docker", "none"}
    /\ listed \in SUBSET Problems
    /\ assignments = {}
    /\ enrolled \in [Students -> {"none", "ACTIVE"}]
    /\ progress \in [Students -> [Problems ->
          [exists : {TRUE}, attempts : Earlier \ {0}, solved : BOOLEAN] \cup {Untried}]]
    /\ \A s \in Students :
          /\ Started(progress[s]) \subseteq Assigned
          /\ Started(progress[s]) # {} => enrolled[s] = "ACTIVE"
    /\ private \in SUBSET (Students \X Problems)
    /\ \A s \in Students : \A p \in Solved(progress[s]) : <<s, p>> \in private
    /\ paid = private
    /\ accepted = private
    /\ reported = {}
    /\ idle = {}
    /\ troubled = {}
    /\ stats = [s \in Students |->
          IF enrolled[s] = "ACTIVE" THEN Recalculated(s, Assigned) ELSE None]
    /\ req = [r \in Requests |-> Free]
    /\ view = [r \in Requests |-> NoView]

-----------------------------------------------------------------------------
\* The educator, and students who join.
\* join_course, add_student: a row of any status refuses another one.
Enroll(s) ==
    /\ enrolled[s] = "none"
    /\ enrolled' = [enrolled EXCEPT ![s] = "ACTIVE"]
    /\ stats' = [stats EXCEPT ![s] = Recalculated(s, Assigned)]
    /\ UNCHANGED <<backend, listed, assignments, learning, req, view>>

Drop(s) ==
    /\ enrolled[s] = "ACTIVE"
    /\ enrolled' = [enrolled EXCEPT ![s] = "DROPPED"]
    /\ UNCHANGED <<backend, listed, assignments, learning, stats, req, view>>

CreateAssignment(problems) ==
    /\ problems # {} /\ Cardinality(assignments) < MaxAssignments
    /\ assignments' = assignments \cup {problems}
    /\ UNCHANGED <<backend, listed, enrolled, learning, stats, req>>
    /\ view' = [r \in Requests |->
          IF view[r] = NoView THEN NoView
          ELSE [view[r] EXCEPT !.inForce = @ \cup {Assigned'}]]

\* What happens elsewhere: 72 hours pass, the monitor records a second trigger.
StayAway(s) ==
    /\ Tried(progress[s]) # {} /\ s \notin idle
    /\ idle' = idle \cup {s}
    /\ UNCHANGED <<course, progress, private, paid, accepted, reported, troubled, stats, req,
                   view>>

Trigger(s) ==
    /\ s \notin troubled
    /\ troubled' = troubled \cup {s}
    /\ UNCHANGED <<course, progress, private, paid, accepted, reported, idle, stats, req, view>>

-----------------------------------------------------------------------------
\* _execute, from the commit of the result.
Attempt(r, s, p, kind) ==
    /\ req[r].at = "free"
    /\ req' = [req EXCEPT ![r] = [Free EXCEPT !.kind = kind, !.at = "judged",
                                              !.student = s, !.problem = p]]

Judged(r, s, p, kind) ==
    /\ backend = "docker"
    /\ Attempt(r, s, p, kind)
    /\ accepted' = IF kind = "solve" THEN accepted \cup {<<s, p>>} ELSE accepted
    /\ UNCHANGED <<course, progress, private, paid, reported, idle, troubled, stats, view>>

\* MUTANT: local results are taken in production as well.
LocalResultAnywhere(r, s, p, kind) ==
    /\ <<s, p>> \notin private
    /\ Attempt(r, s, p, kind)
    /\ reported' = IF kind = "solve" THEN reported \cup {<<s, p>>} ELSE reported
    /\ UNCHANGED <<course, progress, private, paid, accepted, idle, troubled, stats, view>>

\* sync_local_result: the page's word for it, for a problem not solved yet; from here on
\* as _execute.
LocalResult(r, s, p, kind) ==
    /\ backend = "none"
    /\ <<s, p>> \notin private
    /\ Attempt(r, s, p, kind)
    /\ reported' = IF kind = "solve" THEN reported \cup {<<s, p>>} ELSE reported
    /\ UNCHANGED <<course, progress, private, paid, accepted, idle, troubled, stats, view>>

\* course_ids_assigned
ReadCourses(r) ==
    /\ req[r].at = "judged"
    /\ req' = [req EXCEPT ![r].at = "counting",
                          ![r].counts = /\ enrolled[req[r].student] = "ACTIVE"
                                        /\ req[r].problem \in Assigned]
    /\ UNCHANGED <<course, learning, stats, view>>

\* A second award is refused, and everything the transaction had done so far with it.
Refused(r) ==
    /\ req[r].at = "counting"
    /\ req[r].kind = "solve" /\ <<req[r].student, req[r].problem>> \in paid
    /\ Goto(r, "rolledback")
    /\ UNCHANGED <<course, learning, stats, view>>

Counted(row, solves) ==
    [exists |-> TRUE, attempts |-> row.attempts + 1, solved |-> row.solved \/ solves]

\* record_judge_result and recalculate_for_student, in one transaction.
Record(r) ==
    LET s == req[r].student
        p == req[r].problem
        solves == req[r].kind = "solve"
        mine == IF solves THEN {<<s, p>>} ELSE {}
    IN
    /\ req[r].at = "counting"
    /\ ~(solves /\ <<s, p>> \in paid)
    /\ private' = private \cup mine
    /\ paid' = paid \cup mine
    /\ IF req[r].counts
       THEN /\ progress' = [progress EXCEPT ![s][p] = Counted(@, solves)]
            /\ idle' = idle \ {s}
       ELSE UNCHANGED <<progress, idle>>
    /\ stats' = IF enrolled[s] = "ACTIVE"
                THEN [stats EXCEPT ![s] = Summary(Assigned, progress'[s], s \in idle',
                                                  s \in troubled)]
                ELSE stats
    /\ Goto(r, "answered")
    /\ UNCHANGED <<course, accepted, reported, troubled, view>>

\* recalculate_for_student without the write lock, after a rollback.
Recalculate(r) ==
    /\ req[r].at = "rolledback"
    /\ req' = [req EXCEPT
          ![r].at = IF enrolled[req[r].student] = "ACTIVE" THEN "reading" ELSE "answered",
          ![r].among = {req[r].student}, ![r].assigned = Assigned]
    /\ UNCHANGED <<course, learning, stats, view>>

WriteStats(r) ==
    LET s == req[r].student IN
    /\ req[r].at = "ready" /\ req[r].kind = "solve"
    /\ stats' = [stats EXCEPT ![s] = Written(req[r].loaded, req[r].summary, @)]
    /\ req' = [req EXCEPT ![r] = [Free EXCEPT !.kind = req[r].kind, !.at = "answered",
                                              !.student = s, !.problem = req[r].problem]]
    /\ UNCHANGED <<course, learning, view>>

\* put_checkpoint, in one transaction: what is being written has a row before any attempt.
Checkpoint(r, s, p) ==
    /\ req[r].at = "free"
    /\ enrolled[s] = "ACTIVE"
    /\ progress' = IF p \in Assigned THEN [progress EXCEPT ![s][p].exists = TRUE] ELSE progress
    /\ stats' = [stats EXCEPT ![s] = Summary(Assigned, progress'[s], s \in idle,
                                             s \in troubled)]
    /\ Goto(r, "over")
    /\ UNCHANGED <<course, private, paid, accepted, reported, idle, troubled, view>>

-----------------------------------------------------------------------------
\* The pages of the educator.  The first student is read before the write lock is taken
\* (and then the request may still fail), the rest afterwards.
Ask(r, kind, students) ==
    /\ req[r].at = "free"
    /\ req' = [req EXCEPT ![r] = [Free EXCEPT !.kind = kind, !.at = "asked",
                                              !.among = students]]
    /\ view' = [view EXCEPT ![r] = [NoView EXCEPT !.base = progress, !.inForce = {Assigned}]]
    /\ UNCHANGED <<course, learning, stats>>

Dashboard(r) == Ask(r, "dashboard", {s \in Students : enrolled[s] = "ACTIVE"})

Detail(r, s) == enrolled[s] # "none" /\ Ask(r, "detail", {s})

ReadAssigned(r) ==
    /\ req[r].at = "asked" /\ req[r].among # {}
    /\ req' = [req EXCEPT ![r].at = "reading", ![r].assigned = Assigned]
    /\ UNCHANGED <<course, learning, stats, view>>

\* MUTANT: _stats_map, the statistics as they were stored.
ReadProgressCached(r) ==
    /\ req[r].at = "reading"
    /\ \E s \in req[r].among :
          req' = [req EXCEPT ![r].at = "ready", ![r].student = s,
                             ![r].summary = stats[s], ![r].loaded = stats[s]]
    /\ UNCHANGED <<course, learning, stats, view>>

\* recalculate_stats up to its flush, for a page and for WriteStats.
ReadProgress(r) ==
    /\ req[r].at = "reading"
    /\ \E s \in req[r].among :
          req' = [req EXCEPT ![r].at = "ready", ![r].student = s,
                             ![r].summary = Recalculated(s, req[r].assigned),
                             ![r].loaded = stats[s]]
    /\ UNCHANGED <<course, learning, stats, view>>

CompletionRate(shown, among) ==
    LET cells == Cardinality(among) * Cardinality(Assigned)
    IN IF cells = 0 THEN 0
       ELSE Round(100 * MapThenSumSet(LAMBDA s : shown[s].solved, among), cells)

Show(r) ==
    LET among == req[r].among
        shown == [s \in among |-> IF s = req[r].student THEN req[r].summary
                                  ELSE Recalculated(s, Assigned)]
    IN
    /\ req[r].kind \in {"dashboard", "detail"}
    /\ req[r].at = "ready" \/ (req[r].at = "asked" /\ among = {})
    /\ view' = [view EXCEPT ![r].shown = shown,
                            ![r].completion = CompletionRate(shown, among)]
    /\ req' = [req EXCEPT ![r] = [Free EXCEPT !.kind = req[r].kind, !.at = "shown",
                                              !.among = among]]
    /\ UNCHANGED <<course, learning, stats>>

-----------------------------------------------------------------------------
\* The answer has left; or the process stops, or the write lock cannot be had in time.
End(r) ==
    /\ req[r].at \notin {"free", "over"}
    /\ req' = [req EXCEPT ![r] = [Free EXCEPT !.at = "over"]]
    /\ view' = [view EXCEPT ![r] = NoView]
    /\ UNCHANGED <<course, learning, stats>>

Next ==
    \/ \E s \in Students : Enroll(s) \/ Drop(s) \/ StayAway(s) \/ Trigger(s)
    \/ \E problems \in SUBSET Problems : CreateAssignment(problems)
    \/ \E r \in Requests :
          \/ \E s \in Students, p \in Problems, kind \in {"solve", "try"} :
                Judged(r, s, p, kind) \/ LocalResult(r, s, p, kind)
          \/ \E s \in Students, p \in Problems : Checkpoint(r, s, p)
          \/ ReadCourses(r) \/ Refused(r) \/ Record(r) \/ Recalculate(r) \/ WriteStats(r)
          \/ Dashboard(r) \/ \E s \in Students : Detail(r, s)
          \/ ReadAssigned(r) \/ ReadProgress(r) \/ Show(r)
          \/ End(r)

Spec == Init /\ [][Next]_vars

-----------------------------------------------------------------------------
\* "Does not expose an old cache" (educator/router.py:123): the figures an educator is
\* shown count every attempt committed before the page was asked for and none that was not
\* committed before the answer, against a list of problems that was in force meanwhile,
\* although stored statistics go stale when assignments change, or when a repeated
\* solution writes what it had read before; and unless the list changed meanwhile the
\* completion rate is a percentage.
DashboardIsCurrent ==
    \A r \in Requests : req[r].at = "shown" =>
        /\ \A s \in req[r].among :
              LET it == view[r].shown[s]
                  then == view[r].base[s]
              IN /\ it.attempts \in Attempts(then) .. Attempts(progress[s])
                 /\ \E set \in view[r].inForce :
                       /\ it.assigned = Cardinality(set)
                       /\ it.solved \in Cardinality(Solved(then) \cap set)
                                          .. Cardinality(Solved(progress[s]) \cap set)
        /\ Cardinality(view[r].inForce) = 1 => view[r].completion <= 100

\* What credit may rest on: the trace, and where there is no judge the student's word.
Vouched == IF backend = "docker" THEN accepted ELSE accepted \cup reported

\* Where the server judges, nothing counts as solved and nothing is paid without the
\* accepted submission in the trace, wherever the handler stops between its two commits
\* (where it does not, a page's report of one will do, users/router.py:169-177); and a
\* student who got an answer to an accepted submission has the problem solved in their own
\* records, although repeated solutions are rolled back and the statistics may fail after it.
CreditFollowsTheResult ==
    /\ \A s \in Students, p \in Problems :
          progress[s][p].solved \/ <<s, p>> \in private \cup paid => <<s, p>> \in Vouched
    /\ \A r \in Requests :
          req[r].kind = "solve" /\ req[r].at = "answered"
              => <<req[r].student, req[r].problem>> \in private

\* Solving an assigned problem never makes a student look worse: the attempt it takes
\* must not cost more, by the thresholds for attempts, pass rate and stuck problems and by
\* the rounding, than the progress is worth.
RiskFallsOnSolving ==
    [][\A s \in Students, p \in Problems :
          p \in Assigned /\ ~progress[s][p].solved /\ progress'[s][p].solved
              => Recalculated(s, Assigned)'.score <= Recalculated(s, Assigned).score]_vars
=============================================================================
