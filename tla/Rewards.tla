------------------------------ MODULE Rewards ------------------------------
(***************************************************************************)
(* The account of ONE student: acorns, their ledger, and the progress rows *)
(* of the problems, one for private study and one per course that assigns  *)
(* the problem (backend/app/acorns, progress, the progress half of         *)
(* judge/router, users/router; enrolment and assignments in educator).     *)
(*                                                                         *)
(* Every request writes in one transaction.  What it read before its first *)
(* write it read outside of it: the user row and the private progress row  *)
(* stay in the ORM's identity map and are used as they were, the course    *)
(* rows are read under the write lock (the query for the first of them     *)
(* flushes the private row).  From the first write to the commit nobody    *)
(* else can write and nobody sees the writes, so one step stands for it.   *)
(***************************************************************************)
EXTENDS Integers, Sequences, FiniteSets

CONSTANTS
    MaxRequests, \* bound on the requests of the student
    Problem,
    Course,
    Private,     \* course_id "" : study outside of any course
    Listed,      \* [Course -> SUBSET Problem]: the CourseProblem rows, which only
                 \* create_course makes
    Assignment,  \* what an educator may assign: the problem_ids of an assignment
    Reward,      \* acorn_reward of a problem
    Cost,        \* acorn_cost_nickname
    NoKey,       \* idempotency_key NULL
    Body         \* what requests may ask for, see Bodies

Place == Course \cup {Private}
Request == 1..MaxRequests

\* POST /run, /submit; PUT /progress/{id}/local-result, /checkpoint; PATCH /nickname
Bodies ==
    [by : {"judge", "local"}, problem : Problem,
     mode : {"run", "submit"}, accepted : BOOLEAN]
        \cup [by : {"checkpoint"}, problem : Problem]
        \cup [by : {"nickname"}]

ASSUME MaxRequestsAssumption == MaxRequests \in Nat
ASSUME PlaceAssumption == Private \notin Course
ASSUME ListAssumption ==
    Listed \in [Course -> SUBSET Problem] /\ Assignment \subseteq SUBSET Problem \ {{}}
ASSUME AmountAssumption == Reward \in Nat \ {0} /\ Cost \in Nat \ {0}
ASSUME KeyAssumption == NoKey \notin Problem
ASSUME BodyAssumption == Body \subseteq Bodies

VARIABLES
    ledger,   \* acorn_transactions in the order of their commits
    balance,  \* users.acorn_balance
    earned,   \* users.total_acorns_earned
    rows,     \* user_problem_progress: [Problem -> [Place -> row]]
    enrolled, \* enrollments: [Course -> status]
    assigned, \* assignments: [Course -> union of their problem_ids]
    offered,  \* history: [Course -> problems the course assigned at some time since
              \* the student is on its record]
    pc,       \* [Request -> where the handler is]
    asked,    \* [Request -> what it was sent]
    user,     \* [Request -> the user row as the identity map has it]
    seen,     \* [Request -> the private row as the identity map has it]
    targets,  \* [Request -> course_ids_assigned]
    awarded   \* [Request -> awarded_acorns of the response]

teaching == <<enrolled, assigned, offered>>
database == <<ledger, balance, earned, rows, enrolled, assigned, offered>>
locals == <<asked, user, seen, targets, awarded>>
vars == <<ledger, balance, earned, rows, enrolled, assigned, offered,
          pc, asked, user, seen, targets, awarded>>

-----------------------------------------------------------------------------
Row == [exists : BOOLEAN, solved : BOOLEAN, attempts : Nat]
Absent == [exists |-> FALSE, solved |-> FALSE, attempts |-> 0]

Account == [fresh : BOOLEAN, balance : Nat, earned : Nat]
\* rollback() expires the row: it is read again when it is needed
Expired == [fresh |-> FALSE, balance |-> 0, earned |-> 0]
Loaded == [fresh |-> TRUE, balance |-> balance, earned |-> earned]

Init ==
    /\ ledger = <<>>
    /\ balance = 0
    /\ earned = 0
    /\ rows = [p \in Problem |-> [place \in Place |-> Absent]]
    /\ enrolled = [c \in Course |-> "none"]
    /\ assigned = [c \in Course |-> {}]
    /\ offered = [c \in Course |-> {}]
    /\ pc = [r \in Request |-> "idle"]
    /\ asked = [r \in Request |-> [by |-> "nickname"]]
    /\ user = [r \in Request |-> Expired]
    /\ seen = [r \in Request |-> Absent]
    /\ targets = [r \in Request |-> {}]
    /\ awarded = [r \in Request |-> 0]

Goto(r, label) == pc' = [pc EXCEPT ![r] = label]

-----------------------------------------------------------------------------
(* acorns.post                                                             *)

Keys == {ledger[i].key : i \in DOMAIN ledger}

\* The UNIQUE constraint on idempotency_key
KeyTaken(key) == key # NoKey /\ key \in Keys

\* The user row post() computes from
UserRow(r) == IF user[r].fresh THEN user[r] ELSE Loaded

\* Mutant of Post: the ledger row is written, the cached balance forgotten
PostLedgerOnly(r, amount, key) ==
    /\ ledger' = Append(ledger, [amount |-> amount, key |-> key,
                                 after |-> UserRow(r).balance + amount])
    /\ UNCHANGED <<balance, earned>>

\* A ledger row, and the new balance and total as absolute values
Post(r, amount, key) ==
    /\ ledger' = Append(ledger, [amount |-> amount, key |-> key,
                                 after |-> UserRow(r).balance + amount])
    /\ balance' = UserRow(r).balance + amount
    /\ earned' = IF amount > 0 THEN UserRow(r).earned + amount ELSE earned

-----------------------------------------------------------------------------
(* Reading: before the transaction                                         *)

\* The request arrives; get_current_user reads the user row
Arrive(r, body) ==
    /\ pc[r] = "idle"
    /\ \A earlier \in 1..(r - 1) : pc[earlier] # "idle"
    /\ asked' = [asked EXCEPT ![r] = body]
    /\ user' = [user EXCEPT ![r] = Loaded]
    /\ Goto(r, CASE body.by = "judge" -> "user"
                 [] body.by = "local" -> "local"
                 [] body.by = "checkpoint" -> "row"
                 [] body.by = "nickname" -> "spend")
    /\ UNCHANGED <<database, seen, targets, awarded>>

\* The verdict was recorded and committed: the user row expired, _execute
\* reads it again
LoadUser(r) ==
    /\ pc[r] = "user"
    /\ user' = [user EXCEPT ![r] = Loaded]
    /\ Goto(r, "courses")
    /\ UNCHANGED <<database, asked, seen, targets, awarded>>

ProblemOf(r) == asked[r].problem
PrivateRow(r) == rows[ProblemOf(r)][Private]

\* sync_local_result returns at once when the problem is solved
CheckLocal(r) ==
    /\ pc[r] = "local"
    /\ seen' = [seen EXCEPT ![r] = PrivateRow(r)]
    /\ Goto(r, IF PrivateRow(r).solved THEN "done" ELSE "courses")
    /\ UNCHANGED <<database, asked, user, targets, awarded>>

\* educator.assigned_problem_ids: the list of the course, or what its assignments
\* name, or every problem there is
AssignedIds(c) ==
    CASE Listed[c] # {} -> Listed[c]
      [] Listed[c] = {} /\ assigned[c] # {} -> assigned[c]
      [] OTHER -> Problem

\* course_ids_assigned reads the enrolments, then course by course what is
\* assigned. No course ever stops being is_active.
CoursesAttended == {c \in Course : enrolled[c] = "ACTIVE"}
CoursesAssigned(problem) == {c \in CoursesAttended : problem \in AssignedIds(c)}

\* Mutant of LoadEnrolments: the enrolments are not asked for
LoadEnrolmentsOfAll(r) ==
    /\ pc[r] = "courses"
    /\ targets' = [targets EXCEPT ![r] = Course]
    /\ Goto(r, "lists")
    /\ UNCHANGED <<database, asked, user, seen, awarded>>

LoadEnrolments(r) ==
    /\ pc[r] = "courses"
    /\ targets' = [targets EXCEPT ![r] = CoursesAttended]
    /\ Goto(r, "lists")
    /\ UNCHANGED <<database, asked, user, seen, awarded>>

LoadCourses(r) ==
    /\ pc[r] = "lists"
    /\ targets' = [targets EXCEPT ![r] = {c \in @ : ProblemOf(r) \in AssignedIds(c)}]
    /\ Goto(r, IF seen[r].exists THEN "record" ELSE "row")
    /\ UNCHANGED <<database, asked, user, seen, awarded>>

\* ensure: the private row, if there is one
ReadRow(r) ==
    /\ pc[r] = "row"
    /\ seen' = [seen EXCEPT ![r] = PrivateRow(r)]
    /\ Goto(r, IF asked[r].by = "checkpoint" THEN "save" ELSE "record")
    /\ UNCHANGED <<database, asked, user, targets, awarded>>

\* ensure: the row to be inserted exists by now; rollback, read it again
EnsureCollision(r) ==
    /\ pc[r] \in {"record", "save"}
    /\ ~seen[r].exists
    /\ PrivateRow(r).exists
    /\ user' = [user EXCEPT ![r] = Expired]
    /\ Goto(r, "row")
    /\ UNCHANGED <<database, asked, seen, targets, awarded>>

\* The INSERT or UPDATE of the private row goes through
Ensured(r) == seen[r].exists \/ ~PrivateRow(r).exists

-----------------------------------------------------------------------------
(* progress.record_judge_result                                            *)

Completes(r) == asked[r].accepted /\ asked[r].mode = "submit"

\* The rows after the attempt; the private attempt_count is the one read before
\* plus one, status is only written to become SOLVED
Attempted(r) ==
    [place \in Place |->
        LET old == rows[ProblemOf(r)][place]
        IN  IF place = Private
              THEN [exists |-> TRUE, solved |-> old.solved \/ Completes(r),
                    attempts |-> seen[r].attempts + 1]
            ELSE IF place \in targets[r]
              THEN [exists |-> TRUE, solved |-> old.solved \/ Completes(r),
                    attempts |-> old.attempts + 1]
            ELSE old]

\* Mutant of FirstSolve: a run that passes counts as a solution
FirstSolveByRun(r) == asked[r].accepted

\* first_solve_anywhere: a status read from the database is a plain string and
\* never "is" ProgressStatus.SOLVED, so no accepted submission counts as a repeat
FirstSolve(r) == Completes(r)

\* An attempt that earns nothing
RecordAttempt(r) ==
    /\ pc[r] = "record"
    /\ Ensured(r)
    /\ ~FirstSolve(r)
    /\ rows' = [rows EXCEPT ![ProblemOf(r)] = Attempted(r)]
    /\ Goto(r, "done")
    /\ UNCHANGED <<ledger, balance, earned, teaching, asked, user, seen, targets, awarded>>

\* The first solution: the rows and the award in one transaction
RecordSolution(r) ==
    /\ pc[r] = "record"
    /\ Ensured(r)
    /\ FirstSolve(r)
    /\ ~KeyTaken(ProblemOf(r))
    /\ Post(r, Reward, ProblemOf(r))
    /\ rows' = [rows EXCEPT ![ProblemOf(r)] = Attempted(r)]
    /\ awarded' = [awarded EXCEPT ![r] = Reward]
    /\ Goto(r, "done")
    /\ UNCHANGED <<teaching, asked, user, seen, targets>>

\* Mutant of AwardCollision: the award is reported although it was refused
AwardCollisionReported(r) ==
    /\ pc[r] = "record"
    /\ Ensured(r)
    /\ FirstSolve(r)
    /\ KeyTaken(ProblemOf(r))
    /\ awarded' = [awarded EXCEPT ![r] = Reward]
    /\ Goto(r, "done")
    /\ UNCHANGED <<database, asked, user, seen, targets>>

\* post() meets the UNIQUE constraint, as it does whenever a solved problem is
\* submitted again: its rollback takes the rows with it
AwardCollision(r) ==
    /\ pc[r] = "record"
    /\ Ensured(r)
    /\ FirstSolve(r)
    /\ KeyTaken(ProblemOf(r))
    /\ Goto(r, "done")
    /\ UNCHANGED <<database, locals>>

-----------------------------------------------------------------------------
(* The other requests                                                      *)

\* Mutant of SaveCheckpoint: the row is written with the status it was read with
SaveCheckpointOverwrites(r) ==
    /\ pc[r] = "save"
    /\ Ensured(r)
    /\ rows' = [rows EXCEPT ![ProblemOf(r)] =
                   [@ EXCEPT ![Private] = [seen[r] EXCEPT !.exists = TRUE]]]
    /\ Goto(r, "done")
    /\ UNCHANGED <<ledger, balance, earned, teaching, locals>>

\* save_checkpoint: a row everywhere, none of the columns modelled is written
SaveCheckpoint(r) ==
    /\ pc[r] = "save"
    /\ Ensured(r)
    /\ rows' = [rows EXCEPT ![ProblemOf(r)] =
                   [place \in Place |->
                       IF place \in CoursesAssigned(ProblemOf(r)) \cup {Private}
                       THEN [@[place] EXCEPT !.exists = TRUE] ELSE @[place]]]
    /\ Goto(r, "done")
    /\ UNCHANGED <<ledger, balance, earned, teaching, locals>>

\* Mutant of ChangeNickname: the balance is not looked at
ChangeNicknameUnchecked(r) ==
    /\ pc[r] = "spend"
    /\ Post(r, -Cost, NoKey)
    /\ Goto(r, "done")
    /\ UNCHANGED <<rows, teaching, locals>>

\* update_nickname: the cost and the new name in one transaction
ChangeNickname(r) ==
    /\ pc[r] = "spend"
    /\ UserRow(r).balance >= Cost
    /\ Post(r, -Cost, NoKey)
    /\ Goto(r, "done")
    /\ UNCHANGED <<rows, teaching, locals>>

\* InsufficientAcorns
RefuseNickname(r) ==
    /\ pc[r] = "spend"
    /\ UserRow(r).balance < Cost
    /\ Goto(r, "done")
    /\ UNCHANGED <<database, locals>>

\* The nickname is the student's own already: nothing is charged
KeepNickname(r) ==
    /\ pc[r] = "spend"
    /\ Goto(r, "done")
    /\ UNCHANGED <<database, locals>>

\* The write lock does not come in time, the nickname is taken at the commit,
\* or the process dies: nothing of the transaction remains
Fail(r) ==
    /\ pc[r] \notin {"idle", "done", "failed"}
    /\ Goto(r, "failed")
    /\ UNCHANGED <<database, locals>>

\* join_course, add_student: a second row is refused, dropped or not
Enroll(c) ==
    /\ enrolled[c] = "none"
    /\ enrolled' = [enrolled EXCEPT ![c] = "ACTIVE"]
    /\ offered' = [offered EXCEPT ![c] = AssignedIds(c)]
    /\ UNCHANGED <<ledger, balance, earned, rows, assigned, pc, locals>>

\* remove_student
Drop(c) ==
    /\ enrolled[c] = "ACTIVE"
    /\ enrolled' = [enrolled EXCEPT ![c] = "DROPPED"]
    /\ UNCHANGED <<ledger, balance, earned, rows, assigned, offered, pc, locals>>

\* create_assignment: the first one can take problems out of the course's list,
\* the others add to it
CreateAssignment(c, problems) ==
    /\ assigned' = [assigned EXCEPT ![c] = @ \cup problems]
    /\ offered' = [offered EXCEPT ![c] =
                      IF enrolled[c] = "none" THEN @ ELSE @ \cup AssignedIds(c)']
    /\ UNCHANGED <<ledger, balance, earned, rows, enrolled, pc, locals>>

Handle(r) ==
    \/ LoadUser(r) \/ CheckLocal(r) \/ LoadEnrolments(r) \/ LoadCourses(r) \/ ReadRow(r)
    \/ EnsureCollision(r) \/ RecordAttempt(r) \/ RecordSolution(r) \/ AwardCollision(r)
    \/ SaveCheckpoint(r) \/ ChangeNickname(r) \/ RefuseNickname(r)
    \/ KeepNickname(r)

Next ==
    \/ \E r \in Request : (\E body \in Body : Arrive(r, body)) \/ Handle(r) \/ Fail(r)
    \/ \E c \in Course :
          Enroll(c) \/ Drop(c) \/ \E problems \in Assignment : CreateAssignment(c, problems)

Spec == Init /\ [][Next]_vars

-----------------------------------------------------------------------------
Label == {"idle", "user", "local", "courses", "lists", "row", "record", "save", "spend",
          "done", "failed"}

\* The columns have their types; in particular acorn_balance, which requests
\* overwrite with values computed from old ones, never becomes negative.
TypeOK ==
    /\ ledger \in Seq([amount : Int, key : Problem \cup {NoKey}, after : Nat])
    /\ balance \in Nat
    /\ earned \in Nat
    /\ rows \in [Problem -> [Place -> Row]]
    /\ enrolled \in [Course -> {"none", "ACTIVE", "DROPPED"}]
    /\ assigned \in [Course -> SUBSET Problem]
    /\ offered \in [Course -> SUBSET Problem]
    /\ pc \in [Request -> Label]
    /\ asked \in [Request -> Bodies]
    /\ user \in [Request -> Account]
    /\ seen \in [Request -> Row]
    /\ targets \in [Request -> SUBSET Course]
    /\ awarded \in [Request -> Nat]

Solved(p) == \E place \in Place : rows[p][place].solved

\* The balance is the balance_after of the last ledger row: a ledger row and
\* the cached balance move in the same transaction (acorns.post).
AuditTrail == balance = IF ledger = <<>> THEN 0 ELSE ledger[Len(ledger)].after

\* A problem was paid for exactly when it is SOLVED, in private or in a course:
\* no award without a solution, no solution without an award, whatever raced
\* or failed (record_judge_result).
SolvedIffAwarded == \A p \in Problem : Solved(p) <=> p \in Keys

\* One award per problem, however many places it is solved in and however many
\* submissions raced (idempotency_key).
AwardedOnce ==
    \A i, j \in DOMAIN ledger : ledger[i].key = ledger[j].key /\ ledger[i].key # NoKey => i = j

\* At most one response tells the student of the award for a problem, and what
\* it tells is in the ledger (awarded_acorns of RunResponse).
AwardsReportedOnce ==
    \A r \in Request : awarded[r] # 0 =>
        /\ \E i \in DOMAIN ledger :
              ledger[i].key = ProblemOf(r) /\ ledger[i].amount = awarded[r]
        /\ \A s \in Request :
              awarded[s] # 0 /\ ProblemOf(s) = ProblemOf(r) => s = r

\* Progress in a course is of students on its record and of problems it assigned
\* at some time since they are: the enrolments and the assignments change while a
\* request holds what it read of them (course_ids_assigned).
NoForeignProgress ==
    \A p \in Problem, c \in Course :
        rows[p][c].exists => enrolled[c] # "none" /\ p \in offered[c]

\* SOLVED is final and the ledger is only appended to, whatever a request read
\* before (record_judge_result, save_checkpoint, post).
SolvedIsFinal ==
    [][/\ \A p \in Problem, place \in Place :
             rows[p][place].solved => rows'[p][place].solved
       /\ Len(ledger) <= Len(ledger')
       /\ \A i \in DOMAIN ledger : ledger'[i] = ledger[i]]_vars

-----------------------------------------------------------------------------
(* What comments promise and the code does not keep.                       *)

Total[n \in 0..Len(ledger)] == IF n = 0 THEN 0 ELSE Total[n - 1] + ledger[n].amount

\* users.acorn_balance is a cache of the ledger: the sum of its amounts.
BalanceIsLedger == balance = Total[Len(ledger)]

\* A submission that passed and was answered 200 has updated the private row
\* and the rows of all the courses that assign the problem.
SolutionReachesCourses ==
    \A r \in Request :
        pc[r] = "done" /\ asked[r].by \in {"judge", "local"} =>
            (Completes(r) => \A place \in targets[r] \cup {Private} :
                                rows[ProblemOf(r)][place].solved)
=============================================================================
