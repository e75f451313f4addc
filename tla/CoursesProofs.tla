---------------------------- MODULE CoursesProofs ----------------------------
(***************************************************************************)
(* Proofs about Courses for any number of students, problems and requests. *)
(*                                                                         *)
(* Credit.  The trace keeps its accepted submissions, so that what a       *)
(* request was judged to have solved stays vouched for while it works; and *)
(* a request is past its award only if the award is in the ledger.         *)
(*                                                                         *)
(* Sums.  Attempts and the completion rate are folds over finite sets.     *)
(* What is said of them is proved by induction over the subsets, in the    *)
(* form of a smallest counterexample: sums are monotone, grow by one with  *)
(* one of the summands, and are bounded by those.                          *)
(*                                                                         *)
(* Risk.  Solving a problem raises the progress rate, which rounding       *)
(* preserves, and its attempt crosses no threshold not crossed before.     *)
(*                                                                         *)
(* Pages.  The rows only grow, and every list that comes into force is     *)
(* noted, so that what was read of them stays between what there was at    *)
(* the question and what there is at the answer.                           *)
(***************************************************************************)
EXTENDS Courses, FiniteSetTheorems, WellFoundedInduction, TLAPS

\* The stages at which a request has the award behind it.
Past == {"rolledback", "reading", "ready", "answered"}

Request(S) == [kind : {"none", "solve", "try", "dashboard", "detail"},
               at : {"free", "judged", "counting", "asked", "shown", "over"} \cup Past,
               student : Students \cup {None}, problem : Problems \cup {None},
               counts : BOOLEAN, among : SUBSET Students, assigned : SUBSET Problems,
               summary : S, loaded : S]

\* The figures a request has in hand are whatever they are.
ReqType == \E S : req \in [Requests -> Request(S)]

\* A row that is not there has no attempts.
RowType == {row \in [exists : BOOLEAN, attempts : Nat, solved : BOOLEAN] :
               ~row.exists => row.attempts = 0}

CourseType ==
    /\ progress \in [Students -> [Problems -> RowType]]
    /\ enrolled \in [Students -> {"none", "ACTIVE", "DROPPED"}]
    /\ listed \subseteq Problems /\ assignments \subseteq SUBSET Problems

\* Whatever counts is vouched for, and who is paid has solved.
Credit ==
    /\ \A s \in Students, p \in Problems :
          progress[s][p].solved \/ <<s, p>> \in private \cup paid => <<s, p>> \in Vouched
    /\ paid \subseteq private

\* What a request in state q relies on, given what was accepted and solved.
RequestOk(q, acc, solved) ==
    /\ q.at = "asked" => q.kind \in {"dashboard", "detail"}
    /\ q.at \in {"judged", "counting", "rolledback"} => q.kind \in {"solve", "try"}
    /\ q.kind \in {"solve", "try"} /\ q.at \in Past \cup {"judged", "counting"} =>
          q.student \in Students /\ q.problem \in Problems
    /\ q.kind = "solve" /\ q.at \in Past \cup {"judged", "counting"} =>
          <<q.student, q.problem>> \in acc
    /\ q.kind = "solve" /\ q.at \in Past => <<q.student, q.problem>> \in solved
    /\ q.kind \in {"solve", "try"} /\ q.at = "reading" => q.among = {q.student}

\* What CreditFollowsTheResult needs to be inductive
IInv == /\ ReqType /\ CourseType /\ Credit
        /\ \A r \in Requests : RequestOk(req[r], Vouched, private)

-----------------------------------------------------------------------------
\* Problems of a course are problems.
LEMMA AssignedProblems ==
  CourseType => Assigned \subseteq Problems
BY DEF Assigned, CourseType

\* The request r, and no other, is now q, which may rely on what it relies on.
Moves(r, q) == /\ \E T : q \in Request(T)
               /\ req' = [req EXCEPT ![r] = q]
               /\ RequestOk(q, Vouched', private')

\* What was vouched for and solved stays so.
LEMMA Monotone == [Next]_vars => Vouched \subseteq Vouched' /\ private \subseteq private'
<1>1. [Next]_vars => /\ accepted \subseteq accepted' /\ reported \subseteq reported'
                     /\ private \subseteq private' /\ UNCHANGED backend
  BY ZenonT(60) DEF Next, vars, course, learning, Enroll, Drop, StayAway, Trigger, CreateAssignment,
        Judged, LocalResult, Checkpoint, ReadCourses, Refused, Record, Recalculate, WriteStats,
        Dashboard, Detail, Ask, ReadAssigned, ReadProgress, Show, End
<1> QED BY <1>1 DEF Vouched

\* The free slot is a request.
LEMMA FreeType == Free \in Request({None})
BY DEF Free, Request

\* Every step moves at most one request, to where it may be.
LEMMA RequestMoves ==
  ASSUME IInv, [Next]_vars
  PROVE  UNCHANGED req \/ \E r \in Requests : \E q : Moves(r, q)
<1>1. PICK S : req \in [Requests -> Request(S)]
  BY DEF IInv, ReqType
<1>2. Vouched \subseteq Vouched' /\ private \subseteq private'
  BY Monotone
<1>3. \A r \in Requests : req[r] \in Request(S) /\ RequestOk(req[r], Vouched, private)
  BY <1>1 DEF IInv
<1>4. ASSUME NEW r \in Requests,
             NEW s \in Students, NEW p \in Problems, NEW kind \in {"solve", "try"},
             Judged(r, s, p, kind) \/ LocalResult(r, s, p, kind)
      PROVE  \E q : Moves(r, q)
  <2> DEFINE q == [Free EXCEPT !.kind = kind, !.at = "judged", !.student = s, !.problem = p]
  <2>1. /\ q \in Request({None})
        /\ q.kind = kind /\ q.at = "judged" /\ q.student = s /\ q.problem = p
    BY FreeType DEF Request
  <2>2. req' = [req EXCEPT ![r] = q]
    BY <1>4, Zenon DEF Judged, LocalResult, Attempt
  <2>3. kind = "solve" => <<s, p>> \in Vouched'
    BY <1>4 DEF Judged, LocalResult, Vouched, course
  <2> HIDE DEF q
  <2>4. RequestOk(q, Vouched', private')
    BY <2>1, <2>3 DEF RequestOk, Past
  <2> QED
    BY <2>1, <2>2, <2>4 DEF Moves
<1>5. ASSUME NEW r \in Requests, ReadCourses(r)
      PROVE  \E q : Moves(r, q)
  <2> DEFINE b == enrolled[req[r].student] = "ACTIVE" /\ req[r].problem \in Assigned
             q == [req[r] EXCEPT !.at = "counting", !.counts = b]
  <2>1. b \in BOOLEAN
    OBVIOUS
  <2>2. req' = [req EXCEPT ![r].at = "counting", ![r].counts = b]
    BY <1>5, Zenon DEF ReadCourses
  <2>3. req' = [req EXCEPT ![r] = q]
    BY <2>2, Zenon
  <2> HIDE DEF b
  <2>4. /\ q \in Request(S) /\ q.at = "counting" /\ q.kind = req[r].kind
        /\ q.student = req[r].student /\ q.problem = req[r].problem
    BY <1>3, <2>1 DEF Request
  <2> HIDE DEF q
  <2>5. RequestOk(q, Vouched', private')
    BY <1>2, <1>3, <1>5, <2>4 DEF RequestOk, Past, ReadCourses
  <2> QED
    BY <2>3, <2>4, <2>5 DEF Moves
<1>6. ASSUME NEW r \in Requests, Refused(r) \/ Record(r)
      PROVE  \E q : Moves(r, q)
  <2>1. PICK at \in {"rolledback", "answered"} : Goto(r, at)
    BY <1>6 DEF Refused, Record
  <2> DEFINE q == [req[r] EXCEPT !.at = at]
  <2>2. req' = [req EXCEPT ![r] = q]
    BY <2>1 DEF Goto
  <2>3. /\ q \in Request(S) /\ q.at = at /\ q.kind = req[r].kind
        /\ q.student = req[r].student /\ q.problem = req[r].problem
    BY <1>3 DEF Request, Past
  <2>4. req[r].at = "counting"
    BY <1>6 DEF Refused, Record
  <2>5. req[r].kind = "solve" => <<req[r].student, req[r].problem>> \in private'
    <3>1. CASE Refused(r)
      BY <1>2, <3>1 DEF Refused, IInv, Credit
    <3>2. CASE Record(r)
      BY <3>2 DEF Record
    <3> QED
      BY <1>6, <3>1, <3>2
  <2> HIDE DEF q
  <2>6. RequestOk(q, Vouched', private')
    BY <1>2, <1>3, <2>3, <2>4, <2>5 DEF RequestOk, Past
  <2> QED
    BY <2>2, <2>3, <2>6 DEF Moves
<1>7. ASSUME NEW r \in Requests, Recalculate(r)
      PROVE  \E q : Moves(r, q)
  <2> DEFINE at == IF enrolled[req[r].student] = "ACTIVE" THEN "reading" ELSE "answered"
             among == {req[r].student}
             q == [req[r] EXCEPT !.at = at, !.among = among, !.assigned = Assigned]
  <2>1. at \in {"reading", "answered"} /\ among = {req[r].student}
    OBVIOUS
  <2>2. req' = [req EXCEPT ![r].at = at, ![r].among = among, ![r].assigned = Assigned]
    BY <1>7, Zenon DEF Recalculate
  <2>3. req' = [req EXCEPT ![r] = q]
    BY <2>2, Zenon
  <2> HIDE DEF at, among
  <2>4. /\ req[r].at = "rolledback" /\ req[r].kind \in {"solve", "try"}
        /\ req[r].student \in Students /\ Assigned \subseteq Problems
    BY <1>3, <1>7, AssignedProblems DEF Recalculate, IInv, RequestOk, Past
  <2>5. among \in SUBSET Students
    BY <2>1, <2>4
  <2>6. /\ q \in Request(S) /\ q.at = at /\ q.kind = req[r].kind /\ q.among = among
        /\ q.student = req[r].student /\ q.problem = req[r].problem
    BY <1>3, <2>1, <2>4, <2>5 DEF Request, Past
  <2> HIDE DEF q
  <2>7. RequestOk(q, Vouched', private')
    BY <1>2, <1>3, <2>1, <2>4, <2>6 DEF RequestOk, Past
  <2> QED
    BY <2>3, <2>6, <2>7 DEF Moves
<1>8. ASSUME NEW r \in Requests, WriteStats(r)
      PROVE  \E q : Moves(r, q)
  <2> DEFINE q == [Free EXCEPT !.kind = req[r].kind, !.at = "answered",
                               !.student = req[r].student, !.problem = req[r].problem]
  <2>1. /\ req[r].kind \in {"none", "solve", "try", "dashboard", "detail"}
        /\ req[r].student \in Students \cup {None} /\ req[r].problem \in Problems \cup {None}
    BY <1>3 DEF Request
  <2>2. /\ q \in Request({None}) /\ q.at = "answered" /\ q.kind = req[r].kind
        /\ q.student = req[r].student /\ q.problem = req[r].problem
    BY <2>1, FreeType DEF Request, Past
  <2>3. req' = [req EXCEPT ![r] = q]
    BY <1>8, Zenon DEF WriteStats
  <2> HIDE DEF q
  <2>4. RequestOk(q, Vouched', private')
    BY <1>2, <1>3, <1>8, <2>2 DEF RequestOk, Past, WriteStats
  <2> QED
    BY <2>2, <2>3, <2>4 DEF Moves
<1>9. ASSUME NEW r \in Requests, Dashboard(r) \/ \E s \in Students : Detail(r, s)
      PROVE  \E q : Moves(r, q)
  <2>1. PICK kind \in {"dashboard", "detail"}, among \in SUBSET Students : Ask(r, kind, among)
    BY <1>9 DEF Dashboard, Detail
  <2> DEFINE q == [Free EXCEPT !.kind = kind, !.at = "asked", !.among = among]
  <2>2. q \in Request({None}) /\ q.at = "asked" /\ q.kind = kind
    BY FreeType DEF Request
  <2>3. req' = [req EXCEPT ![r] = q]
    BY <2>1, Zenon DEF Ask
  <2> HIDE DEF q
  <2>4. RequestOk(q, Vouched', private')
    BY <2>2 DEF RequestOk, Past
  <2> QED
    BY <2>2, <2>3, <2>4 DEF Moves
<1>10. ASSUME NEW r \in Requests, ReadAssigned(r)
       PROVE  \E q : Moves(r, q)
  <2> DEFINE q == [req[r] EXCEPT !.at = "reading", !.assigned = Assigned]
  <2>1. req' = [req EXCEPT ![r].at = "reading", ![r].assigned = Assigned]
    BY <1>10, Zenon DEF ReadAssigned
  <2>2. req' = [req EXCEPT ![r] = q]
    BY <2>1, Zenon
  <2>3. Assigned \subseteq Problems
    BY AssignedProblems DEF IInv
  <2>4. q \in Request(S) /\ q.at = "reading" /\ q.kind = req[r].kind
    BY <1>3, <2>3 DEF Request, Past
  <2> HIDE DEF q
  <2>5. RequestOk(q, Vouched', private')
    BY <1>3, <1>10, <2>4 DEF RequestOk, Past, ReadAssigned
  <2> QED
    BY <2>2, <2>4, <2>5 DEF Moves
<1>11. ASSUME NEW r \in Requests, ReadProgress(r)
       PROVE  \E q : Moves(r, q)
  <2>1. PICK s \in req[r].among :
           req' = [req EXCEPT ![r].at = "ready", ![r].student = s,
                              ![r].summary = Recalculated(s, req[r].assigned),
                              ![r].loaded = stats[s]]
    BY <1>11, Zenon DEF ReadProgress
  <2> DEFINE sum == Recalculated(s, req[r].assigned)
             old == stats[s]
             q == [req[r] EXCEPT !.at = "ready", !.student = s, !.summary = sum, !.loaded = old]
             T == S \cup {sum, old}
  <2>2. req' = [req EXCEPT ![r] = q]
    BY <2>1, Zenon
  <2>3. sum \in T /\ old \in T /\ S \subseteq T
    OBVIOUS
  <2> HIDE DEF sum, old, T
  <2>4. s \in Students
    BY <1>3 DEF Request
  <2>5. /\ q \in Request(T) /\ q.at = "ready" /\ q.kind = req[r].kind
        /\ q.student = s /\ q.problem = req[r].problem
    BY <1>3, <2>3, <2>4 DEF Request, Past
  <2>6. req[r].at = "reading"
    BY <1>11 DEF ReadProgress
  <2>7. req[r].kind \in {"solve", "try"} => s = req[r].student
    BY <1>3, <2>6 DEF RequestOk
  <2> HIDE DEF q
  <2>8. RequestOk(q, Vouched', private')
    BY <1>2, <1>3, <2>4, <2>5, <2>6, <2>7 DEF RequestOk, Past
  <2> QED
    BY <2>2, <2>5, <2>8 DEF Moves
<1>12. ASSUME NEW r \in Requests, Show(r)
       PROVE  \E q : Moves(r, q)
  <2> DEFINE q == [Free EXCEPT !.kind = req[r].kind, !.at = "shown", !.among = req[r].among]
  <2>1. req[r].kind \in {"dashboard", "detail"} /\ req[r].among \in SUBSET Students
    BY <1>3, <1>12 DEF Show, Request
  <2>2. q \in Request({None}) /\ q.at = "shown" /\ q.kind = req[r].kind
    BY <2>1, FreeType DEF Request
  <2>3. req' = [req EXCEPT ![r] = q]
    BY <1>12, Zenon DEF Show
  <2> HIDE DEF q
  <2>4. RequestOk(q, Vouched', private')
    BY <2>1, <2>2 DEF RequestOk, Past
  <2> QED
    BY <2>2, <2>3, <2>4 DEF Moves
<1>13. ASSUME NEW r \in Requests, End(r)
       PROVE  \E q : Moves(r, q)
  <2> DEFINE q == [Free EXCEPT !.at = "over"]
  <2>1. q \in Request({None}) /\ q.at = "over"
    BY FreeType DEF Request
  <2>2. req' = [req EXCEPT ![r] = q]
    BY <1>13, Zenon DEF End
  <2> HIDE DEF q
  <2>3. RequestOk(q, Vouched', private')
    BY <2>1 DEF RequestOk, Past
  <2> QED
    BY <2>1, <2>2, <2>3 DEF Moves
<1>14. ASSUME NEW r \in Requests, NEW s \in Students, NEW p \in Problems, Checkpoint(r, s, p)
       PROVE  \E q : Moves(r, q)
  <2> DEFINE q == [req[r] EXCEPT !.at = "over"]
  <2>1. q \in Request(S) /\ q.at = "over"
    BY <1>3 DEF Request
  <2>2. req' = [req EXCEPT ![r] = q]
    BY <1>14, Zenon DEF Checkpoint, Goto
  <2> HIDE DEF q
  <2>3. RequestOk(q, Vouched', private')
    BY <2>1 DEF RequestOk, Past
  <2> QED
    BY <2>1, <2>2, <2>3 DEF Moves
<1>15. \/ UNCHANGED req
       \/ \E r \in Requests :
             \/ \E s \in Students, p \in Problems, kind \in {"solve", "try"} :
                   Judged(r, s, p, kind) \/ LocalResult(r, s, p, kind)
             \/ \E s \in Students, p \in Problems : Checkpoint(r, s, p)
             \/ ReadCourses(r) \/ Refused(r) \/ Record(r) \/ Recalculate(r) \/ WriteStats(r)
             \/ Dashboard(r) \/ \E s \in Students : Detail(r, s)
             \/ ReadAssigned(r) \/ ReadProgress(r) \/ Show(r)
             \/ End(r)
  BY Zenon DEF Next, vars, Enroll, Drop, StayAway, Trigger, CreateAssignment
<1> QED
  BY <1>4, <1>5, <1>6, <1>7, <1>8, <1>9, <1>10, <1>11, <1>12, <1>13, <1>14, <1>15, Zenon

\* Every step keeps every request where it may be.
LEMMA RequestStep ==
  ASSUME IInv, [Next]_vars
  PROVE  ReqType' /\ \A r \in Requests : RequestOk(req'[r], Vouched', private')
<1>1. PICK S : req \in [Requests -> Request(S)]
  BY DEF IInv, ReqType
<1>2. ASSUME NEW r \in Requests
      PROVE  RequestOk(req[r], Vouched', private')
  BY <1>2, Monotone DEF IInv, RequestOk
<1>3. CASE UNCHANGED req
  BY <1>1, <1>2, <1>3 DEF ReqType
<1>4. ASSUME NEW r \in Requests, NEW q, Moves(r, q)
      PROVE  ReqType' /\ \A i \in Requests : RequestOk(req'[i], Vouched', private')
  <2>1. PICK T : q \in Request(T)
    BY <1>4 DEF Moves
  <2>2. Request(S) \subseteq Request(S \cup T) /\ Request(T) \subseteq Request(S \cup T)
    BY DEF Request
  <2>3. req' \in [Requests -> Request(S \cup T)]
    BY <1>1, <1>4, <2>1, <2>2 DEF Moves
  <2>4. \A i \in Requests : RequestOk(req'[i], Vouched', private')
    BY <1>1, <1>2, <1>4 DEF Moves
  <2> QED
    BY <2>3, <2>4 DEF ReqType
<1> QED
  BY <1>3, <1>4, RequestMoves

\* What recording an attempt does to the progress of the student.
LEMMA RecordCounts ==
  ASSUME IInv, NEW r \in Requests, Record(r)
  PROVE  /\ progress' \in [Students -> [Problems -> RowType]]
         /\ \A s \in Students, p \in Problems : progress'[s][p].solved =>
               \/ progress[s][p].solved
               \/ req[r].kind = "solve" /\ s = req[r].student /\ p = req[r].problem
<1> DEFINE s == req[r].student
           p == req[r].problem
           solves == req[r].kind = "solve"
           row == Counted(progress[s][p], solves)
<1>1. progress \in [Students -> [Problems -> RowType]]
  BY DEF IInv, CourseType
<1>2. CASE UNCHANGED progress
  BY <1>1, <1>2
<1>3. CASE progress' = [progress EXCEPT ![s][p] = Counted(@, solves)]
  <2>1. s \in Students /\ p \in Problems
    BY DEF Record, IInv, RequestOk, Past
  <2>2. row \in RowType /\ (row.solved => progress[s][p].solved \/ solves)
    BY <1>1, <2>1 DEF Counted, RowType
  <2>3. progress' = [progress EXCEPT ![s][p] = row]
    BY <1>3, Zenon
  <2> HIDE DEF row
  <2>4. progress' \in [Students -> [Problems -> RowType]]
    BY <1>1, <2>1, <2>2, <2>3
  <2>5. \A t \in Students, o \in Problems :
           progress'[t][o] = IF t = s /\ o = p THEN row ELSE progress[t][o]
    BY <1>1, <2>1, <2>3
  <2> QED
    BY <2>2, <2>4, <2>5
<1> QED
  BY <1>2, <1>3, Zenon DEF Record

\* A checkpoint makes a row and leaves every count as it is.
LEMMA CheckpointRows ==
  ASSUME IInv, NEW r \in Requests, NEW s \in Students, NEW p \in Problems, Checkpoint(r, s, p)
  PROVE  /\ progress' \in [Students -> [Problems -> RowType]]
         /\ \A t \in Students, o \in Problems :
               /\ progress'[t][o].attempts = progress[t][o].attempts
               /\ progress'[t][o].solved = progress[t][o].solved
<1> DEFINE row == [progress[s][p] EXCEPT !.exists = TRUE]
<1>1. progress \in [Students -> [Problems -> RowType]]
  BY DEF IInv, CourseType
<1>2. CASE progress' = progress
  BY <1>1, <1>2
<1>3. CASE progress' = [progress EXCEPT ![s][p].exists = TRUE]
  <2>1. /\ row \in RowType /\ row.attempts = progress[s][p].attempts
        /\ row.solved = progress[s][p].solved
    <3> DEFINE old == progress[s][p]
    <3>1. old \in RowType
      BY <1>1
    <3> HIDE DEF old
    <3>2. /\ [old EXCEPT !.exists = TRUE] \in RowType
          /\ [old EXCEPT !.exists = TRUE].attempts = old.attempts
          /\ [old EXCEPT !.exists = TRUE].solved = old.solved
      BY <3>1 DEF RowType
    <3> QED
      BY <3>2 DEF old
  <2>2. progress' = [progress EXCEPT ![s][p] = row]
    BY <1>3, Zenon
  <2> HIDE DEF row
  <2>3. \A t \in Students, o \in Problems :
           progress'[t][o] = IF t = s /\ o = p THEN row ELSE progress[t][o]
    BY <1>1, <2>2
  <2>4. progress' \in [Students -> [Problems -> RowType]]
    BY <1>1, <2>1, <2>2
  <2> QED
    BY <2>1, <2>3, <2>4
<1> QED
  BY <1>2, <1>3, Zenon DEF Checkpoint

\* Every step keeps the types of the course.
LEMMA CourseStep == IInv /\ [Next]_vars => CourseType'
<1> SUFFICES ASSUME IInv, [Next]_vars PROVE CourseType'
  OBVIOUS
<1>1. /\ progress \in [Students -> [Problems -> RowType]]
      /\ enrolled \in [Students -> {"none", "ACTIVE", "DROPPED"}]
      /\ listed \subseteq Problems /\ assignments \subseteq SUBSET Problems
  BY DEF IInv, CourseType
<1>2. CASE UNCHANGED <<course, progress>>
  BY <1>1, <1>2 DEF CourseType, course
<1>3. ASSUME NEW s \in Students, Enroll(s) \/ Drop(s)
      PROVE  CourseType'
  BY <1>1, <1>3 DEF CourseType, Enroll, Drop, learning
<1>4. ASSUME NEW problems \in SUBSET Problems, CreateAssignment(problems)
      PROVE  CourseType'
  BY <1>1, <1>4 DEF CourseType, CreateAssignment, learning
<1>5. ASSUME NEW r \in Requests, Record(r)
      PROVE  CourseType'
  <2>1. UNCHANGED <<enrolled, listed, assignments>>
    BY <1>5 DEF Record, course
  <2> QED
    BY <1>1, <1>5, <2>1, RecordCounts DEF CourseType
<1>6. ASSUME NEW r \in Requests, NEW s \in Students, NEW p \in Problems, Checkpoint(r, s, p)
      PROVE  CourseType'
  <2>1. UNCHANGED <<enrolled, listed, assignments>>
    BY <1>6 DEF Checkpoint, course
  <2> QED
    BY <1>1, <1>6, <2>1, CheckpointRows DEF CourseType
<1>7. \/ UNCHANGED <<course, progress>>
      \/ \E s \in Students : Enroll(s) \/ Drop(s)
      \/ \E problems \in SUBSET Problems : CreateAssignment(problems)
      \/ \E r \in Requests : Record(r)
      \/ \E r \in Requests : \E s \in Students, p \in Problems : Checkpoint(r, s, p)
  BY ZenonT(60) DEF Next, vars, learning, StayAway, Trigger, Judged, LocalResult, ReadCourses, Refused,
        Recalculate, WriteStats, Dashboard, Detail, Ask, ReadAssigned, ReadProgress, Show, End
<1> QED
  BY <1>2, <1>3, <1>4, <1>5, <1>6, <1>7

\* Every step keeps credit behind the result.
LEMMA CreditStep == IInv /\ [Next]_vars => Credit'
<1> SUFFICES ASSUME IInv, [Next]_vars PROVE Credit'
  OBVIOUS
<1>1. CASE UNCHANGED <<progress, private, paid>>
  BY <1>1, Monotone DEF IInv, Credit
<1>2. ASSUME NEW r \in Requests, Record(r)
      PROVE  Credit'
  <2> DEFINE mine == IF req[r].kind = "solve" THEN {<<req[r].student, req[r].problem>>} ELSE {}
  <2>1. private' = private \cup mine /\ paid' = paid \cup mine /\ Vouched' = Vouched
    BY <1>2, Zenon DEF Record, Vouched, course
  <2>2. req[r].kind = "solve" => <<req[r].student, req[r].problem>> \in Vouched
    BY <1>2 DEF Record, IInv, RequestOk
  <2>3. mine \subseteq Vouched
    BY <2>2
  <2>4. ASSUME NEW s \in Students, NEW p \in Problems, progress'[s][p].solved
        PROVE  <<s, p>> \in Vouched
    BY <1>2, <2>2, <2>4, RecordCounts DEF IInv, Credit
  <2> HIDE DEF mine
  <2> QED
    BY <2>1, <2>3, <2>4 DEF IInv, Credit
<1>3. ASSUME NEW r \in Requests, NEW s \in Students, NEW p \in Problems, Checkpoint(r, s, p)
      PROVE  Credit'
  <2>1. UNCHANGED <<private, paid>>
    BY <1>3 DEF Checkpoint
  <2> QED
    BY <1>3, <2>1, CheckpointRows, Monotone DEF IInv, Credit
<1>4. \/ UNCHANGED <<progress, private, paid>>
      \/ \E r \in Requests : Record(r)
      \/ \E r \in Requests : \E s \in Students, p \in Problems : Checkpoint(r, s, p)
  BY ZenonT(60) DEF Next, vars, course, learning, Enroll, Drop, StayAway, Trigger, CreateAssignment,
        Judged, LocalResult, ReadCourses, Refused, Recalculate, WriteStats, Dashboard, Detail, Ask,
        ReadAssigned, ReadProgress, Show, End
<1> QED
  BY <1>1, <1>2, <1>3, <1>4

\* The initial state has the invariant.
LEMMA InitInv == Init => IInv
<1> SUFFICES ASSUME Init PROVE IInv
  OBVIOUS
<1>1. ReqType
  <2>1. req \in [Requests -> Request({None})]
    BY FreeType DEF Init
  <2> QED
    BY <2>1 DEF ReqType
<1>2. CourseType
  <2> DEFINE Begun == [exists : {TRUE}, attempts : Earlier \ {0}, solved : BOOLEAN]
  <2>1. progress \in [Students -> [Problems -> Begun \cup {Untried}]]
    BY DEF Init
  <2>2. Begun \subseteq RowType /\ Untried \in RowType
    BY EarlierAssumption DEF RowType, Untried
  <2>3. progress \in [Students -> [Problems -> RowType]]
    BY <2>1, <2>2
  <2>4. listed \subseteq Problems /\ assignments = {}
    BY DEF Init
  <2>5. enrolled \in [Students -> {"none", "ACTIVE", "DROPPED"}]
    BY DEF Init
  <2> QED
    BY <2>3, <2>4, <2>5 DEF CourseType
<1>3. Credit
  BY DEF Init, Credit, Solved, Vouched
<1>4. ASSUME NEW r \in Requests
      PROVE  RequestOk(req[r], Vouched, private)
  BY DEF Init, Free, RequestOk, Past
<1> QED
  BY <1>1, <1>2, <1>3, <1>4 DEF IInv

\* The invariant holds of every reachable state.
LEMMA Invariance == Spec => []IInv
<1>1. IInv /\ [Next]_vars => IInv'
  BY RequestStep, CourseStep, CreditStep DEF IInv
<1> QED
  BY <1>1, InitInv, PTL DEF Spec

\* In every course, with any number of students and of requests that stop, fail and are
\* rolled back anywhere: where the server judges, nothing is solved or paid without its
\* accepted submission in the trace, and where it does not, not without a local result that
\* was one; and who got an answer to one has the problem solved.
THEOREM Credited == Spec => []CreditFollowsTheResult
<1>1. IInv => CreditFollowsTheResult
  BY DEF IInv, Credit, RequestOk, Past, CreditFollowsTheResult
<1> QED
  BY <1>1, Invariance, PTL

-----------------------------------------------------------------------------
(* Sums over finite sets                                                   *)

\* A set of naturals that is not empty has a smallest element.
LEMMA Smallest ==
  ASSUME NEW T, T \subseteq Nat, T # {}
  PROVE  \E x \in T : \A y \in T : x <= y
<1> DEFINE R == OpToRel(<, Nat)
<1>1. R = {pair \in Nat \X Nat : pair[1] < pair[2]}
  BY DEF OpToRel
<1>2. IsWellFoundedOn(R, Nat)
  BY NatLessThanWellFounded
<1> HIDE DEF R
<1>3. PICK x \in T : \A y \in T : <<y, x>> \notin R
  BY <1>2, WFMin
<1>4. ASSUME NEW y \in T, y < x PROVE FALSE
  <2>1. <<y, x>> \in Nat \X Nat /\ <<y, x>>[1] = y /\ <<y, x>>[2] = x
    OBVIOUS
  <2> QED BY <1>1, <1>3, <1>4, <2>1
<1> QED BY <1>3, <1>4

\* Induction over the subsets of a finite set, for the set of those that are good.
LEMMA Subsets ==
  ASSUME NEW S, IsFiniteSet(S), NEW Good,
         \A T \in SUBSET S : (\A x \in T : T \ {x} \in Good) => T \in Good
  PROVE  SUBSET S \subseteq Good
<1> SUFFICES ASSUME (SUBSET S) \ Good # {} PROVE FALSE
  OBVIOUS
<1> DEFINE Bad == (SUBSET S) \ Good
           Sizes == {Cardinality(T) : T \in Bad}
<1>1. \A T \in SUBSET S : IsFiniteSet(T) /\ Cardinality(T) \in Nat
  BY FS_Subset, FS_CardinalityType
<1>2. PICK n \in Sizes : \A m \in Sizes : n <= m
  <2>1. Sizes \subseteq Nat /\ Sizes # {}
    BY <1>1
  <2> HIDE DEF Sizes
  <2> QED BY <2>1, Smallest
<1>3. PICK T \in Bad : n = Cardinality(T)
  OBVIOUS
<1>4. PICK x \in T : T \ {x} \notin Good
  OBVIOUS
<1>5. Cardinality(T \ {x}) = n - 1 /\ n \in Nat
  BY <1>1, <1>3, <1>4, FS_RemoveElement
<1>6. T \ {x} \in Bad
  BY <1>3, <1>4
<1>7. Cardinality(T \ {x}) \in Sizes
  BY <1>6
<1> HIDE DEF Sizes, Bad
<1> QED BY <1>2, <1>5, <1>7

\* g has the sums of f over the subsets of S, in the order in which the fold takes them;
\* n is the sum over S
Chosen(T) == CHOOSE x \in T : TRUE
Body(f, g, T) == IF T = {} THEN 0 ELSE f[Chosen(T)] + g[T \ {Chosen(T)}]
Sums(g, f, S) == \A T \in SUBSET S : g[T] = Body(f, g, T)
IsSum(n, f, S) == \E g : Sums(g, f, S) /\ n = g[S]

\* There are such sums.
LEMMA SumsExist ==
  ASSUME NEW f, NEW S, IsFiniteSet(S)
  PROVE  \E g : g = [T \in SUBSET S |-> Body(f, g, T)]
<1> DEFINE Small(k) == {T \in SUBSET S : Cardinality(T) <= k}
           n == Cardinality(S)
           Good == {k \in Nat : \E g : \A T \in Small(k) : g[T] = Body(f, g, T)}
<1>1. \A T \in SUBSET S : IsFiniteSet(T) /\ Cardinality(T) \in Nat
  BY FS_Subset, FS_CardinalityType
<1>2. 0 \in Good
  <2> DEFINE g == [T \in SUBSET S |-> 0]
  <2>1. ASSUME NEW T \in Small(0) PROVE g[T] = Body(f, g, T)
    BY <1>1, <2>1, FS_EmptySet DEF Body
  <2> QED BY <2>1
<1>3. ASSUME NEW k \in Nat, k \in Good PROVE k + 1 \in Good
  <2>1. PICK g : \A T \in Small(k) : g[T] = Body(f, g, T)
    BY <1>3
  <2> DEFINE h == [T \in SUBSET S |-> Body(f, g, T)]
  <2>2. ASSUME NEW T \in Small(k + 1) PROVE h[T] = Body(f, h, T)
    <3>1. CASE T = {}
      BY <3>1 DEF Body
    <3>2. CASE T # {}
      <4> DEFINE x == Chosen(T)
      <4>1. x \in T
        BY <3>2 DEF Chosen
      <4>2. T \ {x} \in SUBSET S /\ Cardinality(T \ {x}) = Cardinality(T) - 1
        BY <1>1, <2>2, <4>1, FS_RemoveElement
      <4>3. T \ {x} \in Small(k)
        BY <1>1, <2>2, <4>2
      <4>4. h[T \ {x}] = g[T \ {x}]
        BY <2>1, <4>2, <4>3
      <4> QED BY <2>2, <3>2, <4>4 DEF Body
    <3> QED BY <3>1, <3>2
  <2> HIDE DEF h
  <2> QED BY <2>2
<1>4. n \in Nat
  BY FS_CardinalityType
<1>5. n \in Good
  <2> SUFFICES ASSUME Nat \ Good # {} PROVE FALSE
    BY <1>4
  <2>1. PICK k \in Nat \ Good : \A m \in Nat \ Good : k <= m
    BY Smallest
  <2> HIDE DEF Good
  <2>2. k # 0 /\ k - 1 \in Nat
    BY <1>2, <2>1
  <2>3. k - 1 \in Good
    BY <2>1, <2>2
  <2>4. (k - 1) + 1 \in Good
    BY <1>3, <2>2, <2>3
  <2> QED BY <2>1, <2>4
<1>6. PICK g : \A T \in Small(n) : g[T] = Body(f, g, T)
  BY <1>5
<1>7. \A T \in SUBSET S : Cardinality(T) <= n
  BY FS_Subset
<1> DEFINE h == [T \in SUBSET S |-> g[T]]
<1>8. \A T \in SUBSET S : g[T] = Body(f, g, T)
  BY <1>6, <1>7
<1>9. ASSUME NEW T \in SUBSET S PROVE h[T] = Body(f, h, T)
  <2>1. CASE T = {}
    BY <1>8, <2>1 DEF Body
  <2>2. CASE T # {}
    <3>1. T \ {Chosen(T)} \in SUBSET S
      OBVIOUS
    <3> QED BY <1>8, <2>2, <3>1 DEF Body
  <2> QED BY <2>1, <2>2
<1> HIDE DEF h
<1>10. h = [T \in SUBSET S |-> h[T]]
  BY DEF h
<1>11. h = [T \in SUBSET S |-> Body(f, h, T)]
  BY <1>9, <1>10
<1> QED BY <1>11

\* Attempts is the sum of the attempts.
LEMMA AttemptsAre ==
  ASSUME NEW rows
  PROVE  IsSum(Attempts(rows), [p \in Problems |-> rows[p].attempts], Problems)
<1> DEFINE f == [p \in Problems |-> rows[p].attempts]
           iter[T \in SUBSET Problems] ==
             IF T = {} THEN 0
             ELSE rows[CHOOSE x \in T : TRUE].attempts + iter[T \ {CHOOSE x \in T : TRUE}]
<1>1. PICK g : g = [T \in SUBSET Problems |-> Body(f, g, T)]
  BY FiniteAssumption, SumsExist
<1>2. \A T \in SUBSET Problems : T # {} => f[Chosen(T)] = rows[CHOOSE x \in T : TRUE].attempts
  BY DEF Chosen
<1> HIDE DEF f
<1>3. g = [T \in SUBSET Problems |->
             IF T = {} THEN 0
             ELSE rows[CHOOSE x \in T : TRUE].attempts + g[T \ {CHOOSE x \in T : TRUE}]]
  BY <1>1, <1>2 DEF Body, Chosen
<1>4. iter = [T \in SUBSET Problems |->
             IF T = {} THEN 0
             ELSE rows[CHOOSE x \in T : TRUE].attempts + iter[T \ {CHOOSE x \in T : TRUE}]]
  BY <1>3
<1>5. Attempts(rows) = iter[Problems]
  BY DEF Attempts, MapThenSumSet, MapThenFoldSet
<1> HIDE DEF iter
<1>6. Sums(iter, f, Problems)
  BY <1>2, <1>4 DEF Sums, Body, Chosen
<1> QED BY <1>5, <1>6 DEF IsSum, f

\* What counts as solved in all, in the sum of a page.
LEMMA SolvedAre ==
  ASSUME NEW among, IsFiniteSet(among), NEW shown
  PROVE  IsSum(MapThenSumSet(LAMBDA s : shown[s].solved, among),
               [s \in among |-> shown[s].solved], among)
<1> DEFINE f == [s \in among |-> shown[s].solved]
           iter[T \in SUBSET among] ==
             IF T = {} THEN 0
             ELSE shown[CHOOSE x \in T : TRUE].solved + iter[T \ {CHOOSE x \in T : TRUE}]
<1>1. PICK g : g = [T \in SUBSET among |-> Body(f, g, T)]
  BY SumsExist
<1>2. \A T \in SUBSET among : T # {} => f[Chosen(T)] = shown[CHOOSE x \in T : TRUE].solved
  BY DEF Chosen
<1> HIDE DEF f
<1>3. g = [T \in SUBSET among |->
             IF T = {} THEN 0
             ELSE shown[CHOOSE x \in T : TRUE].solved + g[T \ {CHOOSE x \in T : TRUE}]]
  BY <1>1, <1>2 DEF Body, Chosen
<1>4. iter = [T \in SUBSET among |->
             IF T = {} THEN 0
             ELSE shown[CHOOSE x \in T : TRUE].solved + iter[T \ {CHOOSE x \in T : TRUE}]]
  BY <1>3
<1>5. MapThenSumSet(LAMBDA s : shown[s].solved, among) = iter[among]
  BY DEF MapThenSumSet, MapThenFoldSet
<1> HIDE DEF iter
<1>6. Sums(iter, f, among)
  BY <1>2, <1>4 DEF Sums, Body, Chosen
<1> QED BY <1>5, <1>6 DEF IsSum, f

\* A sum of naturals is one.
LEMMA SumsAreNat ==
  ASSUME NEW S, IsFiniteSet(S), NEW f, \A x \in S : f[x] \in Nat, NEW g, Sums(g, f, S)
  PROVE  \A T \in SUBSET S : g[T] \in Nat
<1> DEFINE Good == {T \in SUBSET S : g[T] \in Nat}
<1>1. ASSUME NEW T \in SUBSET S, \A x \in T : T \ {x} \in Good PROVE T \in Good
  <2>1. T = {} \/ Chosen(T) \in T
    BY DEF Chosen
  <2>2. T # {} => f[Chosen(T)] \in Nat /\ g[T \ {Chosen(T)}] \in Nat
    BY <1>1, <2>1
  <2>3. g[T] = IF T = {} THEN 0 ELSE f[Chosen(T)] + g[T \ {Chosen(T)}]
    BY DEF Sums, Body
  <2>4. g[T] \in Nat
    BY <2>2, <2>3
  <2> QED BY <2>4
<1> HIDE DEF Good
<1>2. SUBSET S \subseteq Good
  BY <1>1, Subsets
<1> QED BY <1>2 DEF Good

\* Of two sums over a set, the one of the larger summands is larger.
LEMMA SumMonotone ==
  ASSUME NEW S, IsFiniteSet(S), NEW f, NEW h,
         \A x \in S : f[x] \in Nat /\ h[x] \in Nat /\ f[x] <= h[x],
         NEW n, NEW m, IsSum(n, f, S), IsSum(m, h, S)
  PROVE  n \in Nat /\ m \in Nat /\ n <= m
<1>1. PICK g : Sums(g, f, S) /\ n = g[S]
  BY DEF IsSum
<1>2. PICK k : Sums(k, h, S) /\ m = k[S]
  BY DEF IsSum
<1>3. \A T \in SUBSET S : g[T] \in Nat /\ k[T] \in Nat
  BY <1>1, <1>2, SumsAreNat
<1> DEFINE Good == {T \in SUBSET S : g[T] <= k[T]}
<1>4. ASSUME NEW T \in SUBSET S, \A x \in T : T \ {x} \in Good PROVE T \in Good
  <2> DEFINE x == Chosen(T)
             R == T \ {x}
  <2>1. T = {} \/ x \in T
    BY DEF Chosen
  <2>2. /\ g[T] = IF T = {} THEN 0 ELSE f[x] + g[R]
        /\ k[T] = IF T = {} THEN 0 ELSE h[x] + k[R]
    BY <1>1, <1>2 DEF Sums, Body
  <2>3. T # {} => /\ R \in SUBSET S /\ g[R] <= k[R] /\ f[x] <= h[x]
                  /\ f[x] \in Nat /\ h[x] \in Nat
    BY <1>4, <2>1
  <2> HIDE DEF x, R
  <2>4. g[T] <= k[T]
    BY <1>3, <2>2, <2>3
  <2> QED BY <2>4
<1> HIDE DEF Good
<1>5. SUBSET S \subseteq Good
  BY <1>4, Subsets
<1> QED BY <1>1, <1>2, <1>3, <1>5 DEF Good

\* If one of the summands grows by one, then the sum does not grow by more.
LEMMA SumNext ==
  ASSUME NEW S, IsFiniteSet(S), NEW f, NEW h, NEW p,
         \A x \in S : f[x] \in Nat /\ h[x] \in Nat /\ h[x] <= f[x] + (IF x = p THEN 1 ELSE 0),
         NEW n, NEW m, IsSum(n, f, S), IsSum(m, h, S)
  PROVE  n \in Nat /\ m \in Nat /\ m <= n + 1
<1>1. PICK g : Sums(g, f, S) /\ n = g[S]
  BY DEF IsSum
<1>2. PICK k : Sums(k, h, S) /\ m = k[S]
  BY DEF IsSum
<1>3. \A T \in SUBSET S : g[T] \in Nat /\ k[T] \in Nat
  BY <1>1, <1>2, SumsAreNat
<1> DEFINE Good == {T \in SUBSET S : k[T] <= g[T] + (IF p \in T THEN 1 ELSE 0)}
<1>4. ASSUME NEW T \in SUBSET S, \A x \in T : T \ {x} \in Good PROVE T \in Good
  <2> DEFINE x == Chosen(T)
             R == T \ {x}
             a == IF x = p THEN 1 ELSE 0
             b == IF p \in R THEN 1 ELSE 0
             c == IF p \in T THEN 1 ELSE 0
  <2>1. T = {} \/ x \in T
    BY DEF Chosen
  <2>2. /\ g[T] = IF T = {} THEN 0 ELSE f[x] + g[R]
        /\ k[T] = IF T = {} THEN 0 ELSE h[x] + k[R]
    BY <1>1, <1>2 DEF Sums, Body
  <2>3. T # {} => /\ R \in SUBSET S /\ k[R] <= g[R] + b /\ h[x] <= f[x] + a
                  /\ f[x] \in Nat /\ h[x] \in Nat
    BY <1>4, <2>1
  <2>4. a \in Nat /\ b \in Nat /\ c \in Nat /\ (T # {} => a + b <= c)
    BY <2>1
  <2> HIDE DEF x, R, a, b, c
  <2>5. k[T] <= g[T] + c
    BY <1>3, <2>2, <2>3, <2>4
  <2> QED BY <2>5 DEF c
<1> HIDE DEF Good
<1>5. SUBSET S \subseteq Good
  BY <1>4, Subsets
<1>6. k[S] <= g[S] + (IF p \in S THEN 1 ELSE 0)
  BY <1>5 DEF Good
<1> QED BY <1>1, <1>2, <1>3, <1>6

\* A sum of summands that are at most c.
LEMMA SumBounded ==
  ASSUME NEW S, IsFiniteSet(S), NEW f, NEW c \in Nat,
         \A x \in S : f[x] \in Nat /\ f[x] <= c, NEW n, IsSum(n, f, S)
  PROVE  n \in Nat /\ n <= Cardinality(S) * c
<1>1. PICK g : Sums(g, f, S) /\ n = g[S]
  BY DEF IsSum
<1>2. \A T \in SUBSET S : g[T] \in Nat
  BY <1>1, SumsAreNat
<1>3. \A T \in SUBSET S : IsFiniteSet(T) /\ Cardinality(T) \in Nat
  BY FS_Subset, FS_CardinalityType
<1> DEFINE Good == {T \in SUBSET S : g[T] <= Cardinality(T) * c}
<1>4. ASSUME NEW T \in SUBSET S, \A x \in T : T \ {x} \in Good PROVE T \in Good
  <2>1. CASE T = {}
    <3>1. g[T] = 0 /\ Cardinality(T) = 0
      BY <1>1, <2>1, FS_EmptySet DEF Sums, Body
    <3> QED BY <3>1
  <2>2. CASE T # {}
    <3> DEFINE x == Chosen(T)
               R == T \ {x}
               r == Cardinality(R)
    <3>1. x \in T
      BY <2>2 DEF Chosen
    <3>2. g[T] = f[x] + g[R]
      BY <1>1, <2>2 DEF Sums, Body
    <3>3. R \in SUBSET S /\ g[R] <= r * c /\ f[x] <= c /\ f[x] \in Nat /\ g[R] \in Nat /\ r \in Nat
      BY <1>2, <1>3, <1>4, <3>1
    <3>4. Cardinality(T) = r + 1
      BY <1>3, <3>1, <3>3, FS_RemoveElement
    <3> HIDE DEF x, R, r
    <3>5. (r + 1) * c = r * c + c /\ r * c \in Nat
      BY <3>3
    <3>6. g[T] <= (r + 1) * c
      BY <3>2, <3>3, <3>5
    <3> QED BY <3>4, <3>6
  <2> QED BY <2>1, <2>2
<1> HIDE DEF Good
<1>5. SUBSET S \subseteq Good
  BY <1>4, Subsets
<1> QED BY <1>1, <1>2, <1>5 DEF Good

-----------------------------------------------------------------------------
(* Rounding                                                                *)

\* Division with a remainder.
LEMMA Division ==
  ASSUME NEW n \in Nat, NEW d \in Nat \ {0}
  PROVE  /\ n \div d \in Nat /\ n % d \in 0..(d - 1)
         /\ n = d * (n \div d) + (n % d)
<1>1. n \in Int /\ d \in Int /\ d > 0
  OBVIOUS
<1>2. n = d * (n \div d) + (n % d)
  BY ONLY <1>1, SMTT(60)
<1>3. n \div d \in Nat
  OBVIOUS
<1>4. n % d \in 0..(d - 1)
  OBVIOUS
<1> QED BY <1>2, <1>3, <1>4

\* Of two multiples, the larger quotient is larger by the whole of d.
LEMMA Quotients ==
  ASSUME NEW d \in Nat \ {0}, NEW q \in Nat, NEW k \in Nat, q < k
  PROVE  d * q \in Nat /\ d * k \in Nat /\ d * q + d <= d * k
<1>1. k = q + 1 + (k - q - 1) /\ k - q - 1 \in Nat
  OBVIOUS
<1>2. d * (q + 1 + (k - q - 1)) = d * q + d + d * (k - q - 1)
  BY <1>1
<1>3. d * (k - q - 1) \in Nat /\ d * q \in Nat
  BY <1>1
<1> QED BY <1>1, <1>2, <1>3

\* What is rounded grows with what there is to round.
LEMMA RoundMonotone ==
  ASSUME NEW d \in Nat \ {0}, NEW n \in Nat, NEW m \in Nat, n <= m
  PROVE  Round(n, d) \in Nat /\ Round(m, d) \in Nat /\ Round(n, d) <= Round(m, d)
<1> DEFINE q == n \div d
           r == n % d
           k == m \div d
           s == m % d
           x == d * q
           y == d * k
<1>1. /\ q \in Nat /\ r \in 0..(d - 1) /\ n = x + r
      /\ k \in Nat /\ s \in 0..(d - 1) /\ m = y + s
  BY Division
<1>2. x \in Nat /\ y \in Nat
  BY <1>1
<1>3. (q < k => x + d <= y) /\ (k < q => y + d <= x) /\ (q = k => x = y)
  BY <1>1, Quotients
<1>4. /\ Round(n, d) = IF 2 * r < d \/ (2 * r = d /\ q % 2 = 0) THEN q ELSE q + 1
      /\ Round(m, d) = IF 2 * s < d \/ (2 * s = d /\ k % 2 = 0) THEN k ELSE k + 1
  BY DEF Round
<1> HIDE DEF q, r, k, s, x, y
<1>5. ~(k < q)
  BY <1>1, <1>2, <1>3
<1>6. CASE q < k
  BY <1>1, <1>4, <1>6
<1>7. CASE q = k
  <2>1. r <= s
    BY <1>1, <1>2, <1>3, <1>7
  <2> QED BY <1>1, <1>4, <1>7, <2>1
<1> QED BY <1>1, <1>5, <1>6, <1>7

\* A part of a whole is no more than a hundred per cent of it.
LEMMA RoundPercent ==
  ASSUME NEW d \in Nat \ {0}, NEW n \in Nat, n <= d
  PROVE  Round(100 * n, d) \in Nat /\ Round(100 * n, d) <= 100
<1>1. 100 * n \in Nat /\ 100 * d \in Nat /\ 100 * n <= 100 * d
  OBVIOUS
<1>2. Round(100 * d, d) = 100
  <2> DEFINE q == (100 * d) \div d
             r == (100 * d) % d
  <2>1. q \in Nat /\ r \in 0..(d - 1) /\ 100 * d = d * q + r
    BY <1>1, Division
  <2>2. Round(100 * d, d) = IF 2 * r < d \/ (2 * r = d /\ q % 2 = 0) THEN q ELSE q + 1
    BY DEF Round
  <2> HIDE DEF q, r
  <2>3. q = 100
    <3>1. CASE q < 100
      <4>1. d * q + d <= d * 100 /\ d * q \in Nat
        BY <2>1, <3>1, Quotients
      <4> QED BY <2>1, <4>1
    <3>2. CASE 100 < q
      <4>1. d * 100 + d <= d * q /\ d * q \in Nat
        BY <2>1, <3>2, Quotients
      <4> QED BY <2>1, <4>1
    <3> QED BY <2>1, <3>1, <3>2
  <2>4. r = 0
    BY <2>1, <2>3
  <2> QED BY <2>2, <2>3, <2>4
<1> QED BY <1>1, <1>2, RoundMonotone

-----------------------------------------------------------------------------
(* The risk of a student                                                   *)

Rows == [Problems -> RowType]

\* The numbers of attempts and of solved problems.
LEMMA Counts ==
  ASSUME NEW rows \in Rows
  PROVE  /\ Attempts(rows) \in Nat
         /\ \A A : IsFiniteSet(Solved(rows) \cap A) /\ Cardinality(Solved(rows) \cap A) \in Nat
<1>1. Attempts(rows) \in Nat
  <2> DEFINE f == [q \in Problems |-> rows[q].attempts]
             n == Attempts(rows)
  <2>1. IsSum(n, f, Problems)
    BY AttemptsAre
  <2>2. \A q \in Problems : f[q] \in Nat /\ f[q] <= f[q]
    BY DEF Rows, RowType
  <2> HIDE DEF f, n
  <2>3. n \in Nat
    BY <2>1, <2>2, FiniteAssumption, SumMonotone
  <2> QED BY <2>3 DEF n
<1>2. ASSUME NEW A PROVE IsFiniteSet(Solved(rows) \cap A) /\ Cardinality(Solved(rows) \cap A) \in Nat
  <2>1. Solved(rows) \cap A \in SUBSET Problems
    BY DEF Solved
  <2> QED BY <2>1, FiniteAssumption, FS_Subset, FS_CardinalityType
<1> QED BY <1>1, <1>2

\* One attempt more, and p solved with it.
Solves(rows, rows2, p) ==
    /\ ~rows[p].solved /\ rows2[p].solved
    /\ rows2[p].attempts = rows[p].attempts + 1
    /\ \A q \in Problems : q # p => rows2[q] = rows[q]

\* What solving a problem of the list A does to the figures.
LEMMA SolvingCounts ==
  ASSUME NEW rows \in Rows, NEW rows2 \in Rows, NEW A \in SUBSET Problems, NEW p \in A,
         Solves(rows, rows2, p)
  PROVE  /\ Attempts(rows2) <= Attempts(rows) + 1
         /\ Cardinality(Solved(rows2) \cap A) = Cardinality(Solved(rows) \cap A) + 1
         /\ Stuck(rows2) => Stuck(rows)
         /\ Started(rows2) # {} /\ Tried(rows2) # {}
<1>1. Attempts(rows2) <= Attempts(rows) + 1
  <2> DEFINE f == [q \in Problems |-> rows[q].attempts]
             h == [q \in Problems |-> rows2[q].attempts]
             n == Attempts(rows)
             m == Attempts(rows2)
  <2>1. IsSum(n, f, Problems) /\ IsSum(m, h, Problems)
    BY AttemptsAre
  <2>2. \A q \in Problems : /\ f[q] \in Nat /\ h[q] \in Nat
                            /\ h[q] <= f[q] + (IF q = p THEN 1 ELSE 0)
    BY DEF Rows, RowType, Solves
  <2> HIDE DEF f, h, n, m
  <2>3. m <= n + 1
    BY <2>1, <2>2, FiniteAssumption, SumNext
  <2> QED BY <2>3 DEF n, m
<1>2. Cardinality(Solved(rows2) \cap A) = Cardinality(Solved(rows) \cap A) + 1
  <2> DEFINE S == Solved(rows) \cap A
             T == Solved(rows2) \cap A
  <2>1. T = S \cup {p} /\ p \notin S
    BY DEF Solved, Solves
  <2>2. IsFiniteSet(S)
    BY Counts
  <2> HIDE DEF S, T
  <2>3. Cardinality(T) = Cardinality(S) + 1
    BY <2>1, <2>2, FS_AddElement
  <2> QED BY <2>3 DEF S, T
<1>3. Stuck(rows2) => Stuck(rows)
  BY DEF Stuck, Solves
<1>4. Started(rows2) # {} /\ Tried(rows2) # {}
  BY DEF Started, Tried, Solves, Rows, RowType
<1> QED BY <1>1, <1>2, <1>3, <1>4

\* The part of the score that the progress rate makes.
LEMMA RatePart ==
  ASSUME NEW rate \in Nat, NEW rate2 \in Nat, rate <= rate2
  PROVE  /\ Round(Most(0, 60 - rate), 2) \in Nat
         /\ Round(Most(0, 60 - rate2), 2) <= Round(Most(0, 60 - rate), 2)
         /\ Round(Most(0, 60 - rate2), 2) \in 0..30
<1> DEFINE x == Most(0, 60 - rate)
           y == Most(0, 60 - rate2)
<1>1. x \in Nat /\ y \in Nat /\ y <= x /\ x <= 60 /\ y <= 60 /\ 2 \in Nat \ {0} /\ 60 \in Nat
  BY DEF Most
<1>2. Round(60, 2) = 30
  BY DEF Round
<1> HIDE DEF x, y
<1>3. Round(x, 2) \in Nat /\ Round(y, 2) \in Nat /\ Round(y, 2) <= Round(x, 2)
  BY <1>1, RoundMonotone
<1>4. Round(y, 2) <= Round(60, 2)
  BY <1>1, RoundMonotone
<1> QED BY <1>2, <1>3, <1>4 DEF x, y

\* Solving a problem of the list does not add to the risk.
LEMMA SolvingHelps ==
  ASSUME NEW rows \in Rows, NEW rows2 \in Rows, NEW A \in SUBSET Problems, NEW p \in A,
         Solves(rows, rows2, p), NEW gone, NEW triggered
  PROVE  Summary(A, rows2, FALSE, triggered).score <= Summary(A, rows, gone, triggered).score
<1> DEFINE n == Cardinality(A)
           k == Cardinality(Solved(rows) \cap A)
           k2 == Cardinality(Solved(rows2) \cap A)
           a == Attempts(rows)
           a2 == Attempts(rows2)
           rate == ProgressRate(k, n)
           rate2 == ProgressRate(k2, n)
           old == Round(Most(0, 60 - rate), 2)
           new == Round(Most(0, 60 - rate2), 2)
           many == Points(a >= 5 /\ 5 * k < a, 20)
           many2 == Points(a2 >= 5 /\ 5 * k2 < a2, 20)
           stuck == Points(Stuck(rows), 15)
           stuck2 == Points(Stuck(rows2), 15)
           away == Points(gone \/ Tried(rows) = {}, 25)
           trigger == Points(triggered, 10)
<1>1. a \in Nat /\ a2 \in Nat /\ k \in Nat /\ k2 \in Nat
  BY Counts
<1>2. a2 <= a + 1 /\ k2 = k + 1 /\ (Stuck(rows2) => Stuck(rows))
      /\ Started(rows2) # {} /\ Tried(rows2) # {}
  BY SolvingCounts
<1>3. n \in Nat \ {0}
  <2>1. IsFiniteSet(A)
    BY FiniteAssumption, FS_Subset
  <2> QED BY <2>1, FS_CardinalityType, FS_EmptySet
<1>4. rate \in Nat /\ rate2 \in Nat /\ rate <= rate2
  <2>1. 100 * k \in Nat /\ 100 * k2 \in Nat /\ 100 * k <= 100 * k2
    BY <1>1, <1>2
  <2>2. rate = Round(100 * k, n) /\ rate2 = Round(100 * k2, n)
    BY <1>3 DEF ProgressRate
  <2> HIDE DEF rate, rate2, n, k, k2
  <2> QED BY <1>3, <2>1, <2>2, RoundMonotone
<1>5. old \in Nat /\ new \in 0..30 /\ new <= old
  <2> HIDE DEF rate, rate2
  <2> QED BY <1>4, RatePart
<1>6. many \in {0, 20} /\ many2 \in {0, 20} /\ many2 <= many
  <2>1. a2 >= 5 /\ 5 * k2 < a2 => a >= 5 /\ 5 * k < a
    BY <1>1, <1>2
  <2> HIDE DEF a, a2, k, k2
  <2> QED BY <2>1 DEF Points
<1>7. stuck \in {0, 15} /\ stuck2 \in {0, 15} /\ stuck2 <= stuck
  BY <1>2 DEF Points
<1>8. away \in {0, 25} /\ trigger \in {0, 10} /\ (Started(rows) = {} => away = 25)
  <2>1. Started(rows) = {} => Tried(rows) = {}
    BY DEF Started, Tried, Rows, RowType
  <2> QED BY <2>1 DEF Points
<1>9. Points(FALSE \/ Tried(rows2) = {}, 25) = 0
  BY <1>2 DEF Points
<1>10. Summary(A, rows, gone, triggered).score
         = Least(100, (IF Started(rows) = {} THEN 55 ELSE old + many + stuck) + away + trigger)
  BY DEF Summary, RiskScore
<1>11. Summary(A, rows2, FALSE, triggered).score
         = Least(100, new + many2 + stuck2 + 0 + trigger)
  BY <1>2, <1>9 DEF Summary, RiskScore
<1> HIDE DEF old, new, many, many2, stuck, stuck2, away, trigger
<1> DEFINE x == (IF Started(rows) = {} THEN 55 ELSE old + many + stuck) + away + trigger
           y == new + many2 + stuck2 + 0 + trigger
<1>12. x \in Nat /\ y \in Nat /\ y <= x
  <2>1. CASE Started(rows) = {}
    BY <1>5, <1>6, <1>7, <1>8, <2>1
  <2>2. CASE Started(rows) # {}
    BY <1>5, <1>6, <1>7, <1>8, <2>2
  <2> QED BY <2>1, <2>2
<1>13. Summary(A, rows, gone, triggered).score = Least(100, x)
       /\ Summary(A, rows2, FALSE, triggered).score = Least(100, y)
  BY <1>10, <1>11
<1> HIDE DEF x, y
<1>14. Least(100, y) <= Least(100, x)
  BY <1>12 DEF Least
<1> QED BY <1>13, <1>14

\* Only Record solves anything.
LEMMA OnlyRecord ==
  ASSUME IInv, [Next]_vars, NEW s \in Students, NEW p \in Problems,
         ~progress[s][p].solved, progress'[s][p].solved
  PROVE  \E r \in Requests : Record(r)
<1>1. \/ UNCHANGED progress
      \/ \E r \in Requests : Record(r)
      \/ \E r \in Requests : \E t \in Students, o \in Problems : Checkpoint(r, t, o)
  BY ZenonT(60) DEF Next, vars, course, learning, Enroll, Drop, StayAway, Trigger, CreateAssignment,
        Judged, LocalResult, ReadCourses, Refused, Recalculate, WriteStats, Dashboard, Detail, Ask,
        ReadAssigned, ReadProgress, Show, End
<1> QED BY <1>1, CheckpointRows

\* What an attempt adds to the rows of its student.
LEMMA RecordAdds ==
  ASSUME IInv, NEW r \in Requests, Record(r), progress' # progress
  PROVE  LET s == req[r].student
             p == req[r].problem
         IN /\ s \in Students /\ p \in Problems
            /\ progress' \in [Students -> [Problems -> RowType]]
            /\ \A t \in Students : t # s => progress'[t] = progress[t]
            /\ \A q \in Problems : q # p => progress'[s][q] = progress[s][q]
            /\ progress'[s][p] = Counted(progress[s][p], req[r].kind = "solve")
            /\ idle' = idle \ {s} /\ s \notin idle'
<1> DEFINE s == req[r].student
           p == req[r].problem
           row == Counted(progress[s][p], req[r].kind = "solve")
<1>1. s \in Students /\ p \in Problems
  BY DEF Record, IInv, RequestOk
<1>2. /\ progress' = [progress EXCEPT ![s][p] = Counted(@, req[r].kind = "solve")]
      /\ idle' = idle \ {s}
  BY Zenon DEF Record
<1>3. progress' = [progress EXCEPT ![s][p] = row]
  BY <1>2, Zenon
<1>4. progress \in [Students -> [Problems -> RowType]]
  BY DEF IInv, CourseType
<1>5. progress' \in [Students -> [Problems -> RowType]]
  BY RecordCounts
<1> HIDE DEF row
<1>6. /\ \A t \in Students : t # s => progress'[t] = progress[t]
      /\ \A q \in Problems : q # p => progress'[s][q] = progress[s][q]
      /\ progress'[s][p] = row
  BY <1>1, <1>3, <1>4
<1> QED BY <1>1, <1>2, <1>5, <1>6 DEF row

\* A step at which a problem of the list is solved.
LEMMA RiskStep ==
  ASSUME IInv, [Next]_vars, NEW s \in Students, NEW p \in Problems,
         p \in Assigned, ~progress[s][p].solved, progress'[s][p].solved
  PROVE  Recalculated(s, Assigned)'.score <= Recalculated(s, Assigned).score
<1>1. PICK r \in Requests : Record(r)
  BY OnlyRecord
<1> DEFINE rows == progress[s]
           rows2 == progress'[s]
           A == Assigned
           gone == s \in idle
           triggered == s \in troubled
<1>2. s = req[r].student /\ p = req[r].problem /\ req[r].kind = "solve"
  BY <1>1, RecordCounts
<1>3. progress' # progress
  OBVIOUS
<1>4. /\ progress' \in [Students -> [Problems -> RowType]]
      /\ \A q \in Problems : q # p => rows2[q] = rows[q]
      /\ rows2[p] = Counted(rows[p], req[r].kind = "solve")
      /\ s \notin idle'
  BY <1>1, <1>2, <1>3, RecordAdds
<1>5. progress \in [Students -> [Problems -> RowType]]
  BY DEF IInv, CourseType
<1>6. rows \in Rows /\ rows2 \in Rows
  BY <1>4, <1>5 DEF Rows
<1>7. Solves(rows, rows2, p)
  <2>1. rows2[p].attempts = rows[p].attempts + 1
    BY <1>4 DEF Counted
  <2> QED BY <1>4, <2>1 DEF Solves
<1>8. A \in SUBSET Problems /\ p \in A
  BY AssignedProblems DEF IInv
<1>9. UNCHANGED course /\ troubled' = troubled
  BY <1>1 DEF Record
<1>10. Assigned' = A
  BY <1>9 DEF Assigned, course
<1>11. Recalculated(s, Assigned)' = Summary(A, rows2, FALSE, triggered)
  <2>1. Recalculated(s, Assigned)' = Summary(Assigned', rows2, s \in idle', s \in troubled')
    BY DEF Recalculated
  <2>2. (s \in idle') = FALSE
    BY <1>4
  <2> QED BY <1>9, <1>10, <2>1, <2>2, Zenon
<1>12. Recalculated(s, Assigned) = Summary(A, rows, gone, triggered)
  BY DEF Recalculated
<1> HIDE DEF rows, rows2, A, gone, triggered
<1>13. Summary(A, rows2, FALSE, triggered).score <= Summary(A, rows, gone, triggered).score
  BY <1>6, <1>7, <1>8, SolvingHelps
<1> QED BY <1>11, <1>12, <1>13

\* Solving an assigned problem never makes a student look worse.
THEOREM RiskFalls == Spec => RiskFallsOnSolving
<1>1. IInv /\ [Next]_vars =>
        [\A s \in Students, p \in Problems :
            p \in Assigned /\ ~progress[s][p].solved /\ progress'[s][p].solved
               => Recalculated(s, Assigned)'.score <= Recalculated(s, Assigned).score]_vars
  BY RiskStep
<1> QED BY <1>1, Invariance, PTL DEF Spec, RiskFallsOnSolving

-----------------------------------------------------------------------------
(* The pages of the educator                                               *)

\* The rows of a student have grown.
Grown(rows, rows2) ==
    /\ rows \in Rows /\ rows2 \in Rows
    /\ \A p \in Problems : /\ rows[p].attempts <= rows2[p].attempts
                           /\ rows[p].solved => rows2[p].solved

\* The figures `it' lie between those of the rows `then' and of the rows `now', for a
\* list of problems that is one of `sets'.
Figures(it, then, now, sets) ==
    /\ it.attempts \in Attempts(then) .. Attempts(now)
    /\ \E set \in sets :
          /\ it.assigned = Cardinality(set)
          /\ it.solved \in Cardinality(Solved(then) \cap set)
                             .. Cardinality(Solved(now) \cap set)

\* A request for a page of the educator, from its question to its answer
Looks(q) ==
    \/ q.at \in {"asked", "shown"}
    \/ q.kind \in {"dashboard", "detail"} /\ q.at \in {"reading", "ready"}

\* What is kept of the question of a request q, and what q has found out so far
ViewOk(q, v, now, list) ==
    Looks(q) =>
      /\ \A s \in Students : Grown(v.base[s], now[s])
      /\ IsFiniteSet(v.inForce) /\ v.inForce \subseteq SUBSET Problems /\ list \in v.inForce
      /\ q.at = "reading" => q.assigned \in v.inForce
      /\ q.at = "ready" => /\ q.student \in Students
                           /\ Figures(q.summary, v.base[q.student], now[q.student], v.inForce)
      /\ q.at = "shown" => /\ \A s \in q.among : Figures(v.shown[s], v.base[s], now[s], v.inForce)
                           /\ Cardinality(v.inForce) = 1 => v.completion <= 100

IsView(v) == v = [base |-> v.base, inForce |-> v.inForce, shown |-> v.shown,
                  completion |-> v.completion]

\* What DashboardIsCurrent needs, on top of IInv, to be inductive
VInv == /\ view = [r \in Requests |-> view[r]]
        /\ \A r \in Requests : IsView(view[r])
        /\ \A r \in Requests : ViewOk(req[r], view[r], progress, Assigned)

\* The figures grow with the rows.
LEMMA Growing ==
  ASSUME NEW rows, NEW rows2, Grown(rows, rows2)
  PROVE  /\ Attempts(rows) \in Nat /\ Attempts(rows2) \in Nat
         /\ Attempts(rows) <= Attempts(rows2)
         /\ \A A : /\ Cardinality(Solved(rows) \cap A) \in Nat
                   /\ Cardinality(Solved(rows2) \cap A) \in Nat
                   /\ Cardinality(Solved(rows) \cap A) <= Cardinality(Solved(rows2) \cap A)
<1>1. rows \in Rows /\ rows2 \in Rows
  BY DEF Grown
<1>2. Attempts(rows) <= Attempts(rows2)
  <2> DEFINE f == [q \in Problems |-> rows[q].attempts]
             h == [q \in Problems |-> rows2[q].attempts]
             n == Attempts(rows)
             m == Attempts(rows2)
  <2>1. IsSum(n, f, Problems) /\ IsSum(m, h, Problems)
    BY AttemptsAre
  <2>2. \A q \in Problems : f[q] \in Nat /\ h[q] \in Nat /\ f[q] <= h[q]
    BY DEF Grown, Rows, RowType
  <2> HIDE DEF f, h, n, m
  <2>3. n <= m
    BY <2>1, <2>2, FiniteAssumption, SumMonotone
  <2> QED BY <2>3 DEF n, m
<1>3. ASSUME NEW A
      PROVE  Cardinality(Solved(rows) \cap A) <= Cardinality(Solved(rows2) \cap A)
  <2>1. Solved(rows) \cap A \in SUBSET (Solved(rows2) \cap A)
    BY DEF Solved, Grown
  <2>2. IsFiniteSet(Solved(rows2) \cap A)
    BY <1>1, Counts
  <2> QED BY <2>1, <2>2, FS_Subset
<1> QED BY <1>1, <1>2, <1>3, Counts

\* Growth is transitive, and it includes to stay the same.
LEMMA GrownLater ==
  /\ \A x \in Rows : Grown(x, x)
  /\ \A x, y, z : Grown(x, y) /\ Grown(y, z) => Grown(x, z)
<1>1. ASSUME NEW x, NEW y, NEW z, Grown(x, y), Grown(y, z) PROVE Grown(x, z)
  BY <1>1 DEF Grown, Rows, RowType
<1> QED BY <1>1 DEF Grown, Rows, RowType

\* What was computed from some rows stays between the bounds when the rows grow, and
\* when more lists have been in force.
LEMMA FiguresLater ==
  ASSUME NEW it, NEW then, NEW now, NEW sets, Figures(it, then, now, sets),
         NEW now2, Grown(now, now2), NEW sets2, sets \subseteq sets2, Grown(then, now)
  PROVE  Figures(it, then, now2, sets2)
<1>1. /\ Attempts(then) \in Nat /\ Attempts(now) \in Nat /\ Attempts(now2) \in Nat
      /\ Attempts(now) <= Attempts(now2)
  BY Growing
<1>2. it.attempts \in Attempts(then) .. Attempts(now2)
  BY <1>1 DEF Figures
<1>3. PICK set \in sets : /\ it.assigned = Cardinality(set)
                          /\ it.solved \in Cardinality(Solved(then) \cap set)
                                             .. Cardinality(Solved(now) \cap set)
  BY DEF Figures
<1>4. /\ Cardinality(Solved(then) \cap set) \in Nat /\ Cardinality(Solved(now) \cap set) \in Nat
      /\ Cardinality(Solved(now2) \cap set) \in Nat
      /\ Cardinality(Solved(now) \cap set) <= Cardinality(Solved(now2) \cap set)
  BY Growing
<1>5. it.solved \in Cardinality(Solved(then) \cap set) .. Cardinality(Solved(now2) \cap set)
  BY <1>3, <1>4
<1> QED BY <1>2, <1>3, <1>5 DEF Figures

\* What is computed now is between the bounds.
LEMMA FiguresNow ==
  ASSUME NEW then, NEW now, Grown(then, now), NEW sets, NEW A \in sets, NEW gone, NEW triggered
  PROVE  Figures(Summary(A, now, gone, triggered), then, now, sets)
<1> DEFINE it == Summary(A, now, gone, triggered)
<1>1. /\ it.attempts = Attempts(now) /\ it.assigned = Cardinality(A)
      /\ it.solved = Cardinality(Solved(now) \cap A)
  BY DEF Summary
<1>2. /\ Attempts(then) \in Nat /\ Attempts(now) \in Nat /\ Attempts(then) <= Attempts(now)
      /\ Cardinality(Solved(then) \cap A) \in Nat /\ Cardinality(Solved(now) \cap A) \in Nat
      /\ Cardinality(Solved(then) \cap A) <= Cardinality(Solved(now) \cap A)
  BY Growing
<1> HIDE DEF it
<1>3. /\ it.attempts \in Attempts(then) .. Attempts(now)
      /\ it.solved \in Cardinality(Solved(then) \cap A) .. Cardinality(Solved(now) \cap A)
  BY <1>1, <1>2
<1> QED BY <1>1, <1>3 DEF Figures, it

\* The completion rate of a page on which nobody solved more than there is.
LEMMA CompletionIs ==
  ASSUME NEW among \in SUBSET Students, NEW shown, Assigned \in SUBSET Problems,
         \A s \in among : shown[s].solved \in Nat /\ shown[s].solved <= Cardinality(Assigned)
  PROVE  CompletionRate(shown, among) <= 100
<1> DEFINE f == [s \in among |-> shown[s].solved]
           n == MapThenSumSet(LAMBDA s : shown[s].solved, among)
           c == Cardinality(Assigned)
           k == Cardinality(among)
           d == k * c
<1>1. IsFiniteSet(among) /\ k \in Nat /\ c \in Nat
  BY FiniteAssumption, FS_Subset, FS_CardinalityType
<1>2. IsSum(n, f, among)
  BY <1>1, SolvedAre
<1>3. \A s \in among : f[s] \in Nat /\ f[s] <= c
  OBVIOUS
<1>4. CompletionRate(shown, among) = IF d = 0 THEN 0 ELSE Round(100 * n, d)
  BY DEF CompletionRate
<1> HIDE DEF f, n, c
<1>5. n \in Nat /\ n <= d /\ d \in Nat
  BY <1>1, <1>2, <1>3, SumBounded
<1> HIDE DEF d
<1>6. d # 0 => Round(100 * n, d) <= 100
  BY <1>5, RoundPercent
<1> QED BY <1>4, <1>5, <1>6

\* A view is as good after the rows have grown and the list has changed, if the new list
\* was noted.
LEMMA ViewLater ==
  ASSUME NEW q, NEW v, NEW now, NEW list, ViewOk(q, v, now, list),
         NEW now2, \A s \in Students : Grown(now[s], now2[s]),
         Looks(q) => q.among \in SUBSET Students,
         NEW v2, NEW list2 \in SUBSET Problems, v2.base = v.base, v2.shown = v.shown,
         v2.completion = v.completion, v2.inForce = v.inForce \cup {list2}
  PROVE  ViewOk(q, v2, now2, list2)
<1> SUFFICES ASSUME Looks(q) PROVE ViewOk(q, v2, now2, list2)
  BY DEF ViewOk
<1>1. /\ \A s \in Students : Grown(v.base[s], now[s])
      /\ IsFiniteSet(v.inForce) /\ v.inForce \subseteq SUBSET Problems /\ list \in v.inForce
      /\ q.among \in SUBSET Students
  BY DEF ViewOk
<1>2. \A s \in Students : Grown(v2.base[s], now2[s])
  BY <1>1, GrownLater
<1>3. IsFiniteSet(v2.inForce) /\ v2.inForce \subseteq SUBSET Problems /\ list2 \in v2.inForce
  BY <1>1, FS_AddElement
<1>4. \A s \in Students : \A it : Figures(it, v.base[s], now[s], v.inForce)
                                    => Figures(it, v2.base[s], now2[s], v2.inForce)
  <2> DEFINE sets == v2.inForce
  <2>1. v.inForce \subseteq sets
    OBVIOUS
  <2> HIDE DEF sets
  <2>2. \A s \in Students : \A it : Figures(it, v.base[s], now[s], v.inForce)
                                      => Figures(it, v.base[s], now2[s], sets)
    BY <1>1, <2>1, FiguresLater
  <2> QED BY <2>2 DEF sets
<1>5. Cardinality(v2.inForce) = 1 => Cardinality(v.inForce) = 1
  <2> SUFFICES ASSUME Cardinality(v2.inForce) = 1 PROVE Cardinality(v.inForce) = 1
    OBVIOUS
  <2>1. PICK x : v2.inForce = {x}
    BY <1>3, FS_Singleton
  <2>2. v.inForce = {x}
    BY <1>1, <2>1
  <2> QED BY <2>2, FS_Singleton
<1>6. q.at = "reading" => q.assigned \in v2.inForce
  BY DEF ViewOk
<1>7. q.at = "ready" => /\ q.student \in Students
                        /\ Figures(q.summary, v2.base[q.student], now2[q.student], v2.inForce)
  BY <1>4 DEF ViewOk
<1>8. q.at = "shown" =>
        /\ \A s \in q.among : Figures(v2.shown[s], v2.base[s], now2[s], v2.inForce)
        /\ Cardinality(v2.inForce) = 1 => v2.completion <= 100
  BY <1>1, <1>4, <1>5 DEF ViewOk
<1> QED BY <1>2, <1>3, <1>6, <1>7, <1>8 DEF ViewOk

\* What the types say of the rows and the lists.
LEMMA NowOk ==
  ASSUME IInv
  PROVE  /\ \A s \in Students : progress[s] \in Rows
         /\ Assigned \in SUBSET Problems
         /\ \A r \in Requests : req[r].among \in SUBSET Students
<1>1. PICK S : req \in [Requests -> Request(S)]
  BY DEF IInv, ReqType
<1>2. \A r \in Requests : req[r].among \in SUBSET Students
  BY <1>1 DEF Request
<1> QED BY <1>2, AssignedProblems DEF IInv, CourseType, Rows

\* What does not touch the requests, the rows and the list leaves the views alone.
LEMMA NothingShown ==
  ASSUME VInv, UNCHANGED <<req, view, progress, listed, assignments>> PROVE VInv'
<1>1. Assigned' = Assigned
  BY DEF Assigned
<1> QED BY <1>1 DEF VInv

\* Only the request r goes on, to q, and its view may change to v.
LEMMA OneView ==
  ASSUME IInv, VInv, NEW r \in Requests, UNCHANGED <<progress, listed, assignments>>,
         NEW q, req' = [req EXCEPT ![r] = q], NEW v, IsView(v), view' = [view EXCEPT ![r] = v],
         ViewOk(q, v, progress, Assigned)
  PROVE  VInv'
<1>1. Assigned' = Assigned
  BY DEF Assigned
<1>2. PICK S : req \in [Requests -> Request(S)]
  BY DEF IInv, ReqType
<1>3. DOMAIN view = Requests /\ view' = [x \in Requests |-> view'[x]]
  BY DEF VInv
<1>4. \A x \in Requests : req'[x] = IF x = r THEN q ELSE req[x]
  BY <1>2
<1>5. \A x \in Requests : view'[x] = IF x = r THEN v ELSE view[x]
  BY <1>3
<1>6. ASSUME NEW x \in Requests
      PROVE  IsView(view'[x]) /\ ViewOk(req'[x], view'[x], progress, Assigned)
  BY <1>4, <1>5 DEF VInv
<1> QED BY <1>1, <1>3, <1>6 DEF VInv

\* Only the request r goes on, to q, and it is not one for a page, or has just found out
\* what q says.
LEMMA OneRequest ==
  ASSUME IInv, VInv, NEW r \in Requests, UNCHANGED <<progress, listed, assignments, view>>,
         NEW q, req' = [req EXCEPT ![r] = q], ViewOk(q, view[r], progress, Assigned)
  PROVE  VInv'
<1> DEFINE v == view[r]
<1>1. view = [x \in Requests |-> view[x]] /\ IsView(v)
  BY DEF VInv
<1>2. view' = [view EXCEPT ![r] = v]
  BY <1>1
<1> HIDE DEF v
<1>3. ViewOk(q, v, progress, Assigned)
  BY DEF v
<1> QED BY <1>1, <1>2, <1>3, OneView

\* The rows grow at a step that ends a request.
LEMMA GrowthViews ==
  ASSUME IInv, VInv, NEW r \in Requests, NEW at \in {"answered", "over"},
         \A s \in Students : Grown(progress[s], progress'[s]),
         UNCHANGED <<listed, assignments, view>>, req' = [req EXCEPT ![r].at = at]
  PROVE  VInv'
<1>3. Assigned' = Assigned
  BY DEF Assigned
<1>4. PICK S : req \in [Requests -> Request(S)]
  BY DEF IInv, ReqType
<1>5. \A x \in Requests : x # r => req'[x] = req[x]
  BY <1>4
<1>6. ~Looks(req'[r])
  BY <1>4 DEF Looks
<1>7. ASSUME NEW x \in Requests, x # r PROVE ViewOk(req[x], view[x], progress', Assigned)
  <2> SUFFICES ASSUME Looks(req[x]) PROVE ViewOk(req[x], view[x], progress', Assigned)
    BY DEF ViewOk
  <2>1. ViewOk(req[x], view[x], progress, Assigned)
    BY DEF VInv
  <2>2. view[x].inForce = view[x].inForce \cup {Assigned}
    BY <2>1 DEF ViewOk
  <2>3. Assigned \in SUBSET Problems /\ req[x].among \in SUBSET Students
    BY NowOk
  <2> QED BY <2>1, <2>2, <2>3, ViewLater
<1>8. \A x \in Requests : ViewOk(req'[x], view[x], progress', Assigned)
  BY <1>5, <1>6, <1>7 DEF ViewOk
<1> QED BY <1>3, <1>8 DEF VInv

\* An attempt is recorded: the rows of its student grow.
LEMMA RecordViews ==
  ASSUME IInv, VInv, NEW r \in Requests, Record(r) PROVE VInv'
<1>1. \A s \in Students : Grown(progress[s], progress'[s])
  <2>1. CASE progress' = progress
    BY <2>1, NowOk, GrownLater
  <2>2. CASE progress' # progress
    <3> DEFINE t == req[r].student
               p == req[r].problem
               solves == req[r].kind = "solve"
    <3>1. /\ t \in Students /\ p \in Problems
          /\ progress' \in [Students -> [Problems -> RowType]]
          /\ \A s \in Students : s # t => progress'[s] = progress[s]
          /\ \A q \in Problems : q # p => progress'[t][q] = progress[t][q]
          /\ progress'[t][p] = Counted(progress[t][p], solves)
      BY <2>2, RecordAdds
    <3>2. \A s \in Students : progress[s] \in Rows /\ progress'[s] \in Rows
      BY <3>1, NowOk DEF Rows
    <3> HIDE DEF t, p
    <3>3. /\ progress'[t][p].attempts = progress[t][p].attempts + 1
          /\ progress[t][p].solved => progress'[t][p].solved
      <4>1. progress'[t][p].attempts = progress[t][p].attempts + 1
        BY <3>1 DEF Counted
      <4>2. ASSUME progress[t][p].solved PROVE progress'[t][p].solved
        <5> DEFINE b == progress[t][p].solved \/ solves
        <5>1. progress'[t][p] = [exists |-> TRUE, attempts |-> progress[t][p].attempts + 1,
                                   solved |-> b]
          BY <3>1, Zenon DEF Counted
        <5>2. b = TRUE
          BY <4>2
        <5> HIDE DEF b
        <5>3. progress'[t][p].solved = b
          BY <5>1
        <5> QED BY <5>2, <5>3
      <4> QED BY <4>1, <4>2
    <3>4. Grown(progress[t], progress'[t])
      <4>1. ASSUME NEW q \in Problems
            PROVE  /\ progress[t][q].attempts <= progress'[t][q].attempts
                   /\ progress[t][q].solved => progress'[t][q].solved
        <5>1. progress[t][q].attempts \in Nat
          BY <3>1, <3>2 DEF Rows, RowType
        <5>2. CASE q = p
          BY <3>3, <5>1, <5>2
        <5>3. CASE q # p
          BY <3>1, <5>1, <5>3
        <5> QED BY <5>2, <5>3
      <4> QED BY <3>1, <3>2, <4>1 DEF Grown
    <3> QED BY <3>1, <3>2, <3>4, GrownLater
  <2> QED BY <2>1, <2>2
<1>2. UNCHANGED <<listed, assignments, view>> /\ req' = [req EXCEPT ![r].at = "answered"]
  BY DEF Record, course, Goto
<1> QED BY <1>1, <1>2, GrowthViews

\* A checkpoint makes a row: the counts stay.
LEMMA CheckpointViews ==
  ASSUME IInv, VInv, NEW r \in Requests, NEW s \in Students, NEW p \in Problems,
         Checkpoint(r, s, p)
  PROVE  VInv'
<1>1. ASSUME NEW t \in Students PROVE Grown(progress[t], progress'[t])
  <2>1. progress[t] \in Rows /\ progress'[t] \in Rows
    BY CheckpointRows, NowOk DEF Rows
  <2>2. \A o \in Problems : /\ progress'[t][o].attempts = progress[t][o].attempts
                             /\ progress'[t][o].solved = progress[t][o].solved
                             /\ progress[t][o].attempts \in Nat
    BY <2>1, CheckpointRows DEF Rows, RowType
  <2> QED BY <2>1, <2>2 DEF Grown
<1>2. UNCHANGED <<listed, assignments, view>> /\ req' = [req EXCEPT ![r].at = "over"]
  BY DEF Checkpoint, course, Goto
<1> QED BY <1>1, <1>2, GrowthViews

\* An assignment more: every page that was asked for notes the new list.
LEMMA AssignmentViews ==
  ASSUME IInv, VInv, NEW problems \in SUBSET Problems, CreateAssignment(problems) PROVE VInv'
<1>1. /\ UNCHANGED <<listed, req, progress>> /\ assignments' = assignments \cup {problems}
      /\ view' = [r \in Requests |->
                    IF view[r] = NoView THEN NoView
                    ELSE [view[r] EXCEPT !.inForce = @ \cup {Assigned'}]]
  BY DEF CreateAssignment, learning
<1> DEFINE list == Assigned'
<1>2. list \in SUBSET Problems
  BY <1>1 DEF Assigned, IInv, CourseType
<1>3. \A s \in Students : Grown(progress[s], progress[s])
  BY NowOk, GrownLater
<1>4. ASSUME NEW r \in Requests
      PROVE  IsView(view'[r]) /\ ViewOk(req[r], view'[r], progress, list)
  <2>1. IsView(view[r]) /\ ViewOk(req[r], view[r], progress, Assigned)
    BY DEF VInv
  <2>2. CASE view[r] = NoView
    <3>1. view'[r] = NoView /\ NoView.inForce = {}
      BY <1>1, <2>2 DEF NoView
    <3>2. ~Looks(req[r])
      BY <2>1, <2>2, <3>1 DEF ViewOk
    <3> QED BY <2>1, <2>2, <3>1, <3>2 DEF ViewOk
  <2>3. CASE view[r] # NoView
    <3>1. view'[r] = [view[r] EXCEPT !.inForce = @ \cup {list}]
      BY <1>1, <2>3
    <3> HIDE DEF list
    <3>2. view'[r] = [base |-> view[r].base, inForce |-> view[r].inForce \cup {list},
                      shown |-> view[r].shown, completion |-> view[r].completion]
      BY <2>1, <3>1 DEF IsView
    <3>3. /\ IsView(view'[r]) /\ view'[r].base = view[r].base /\ view'[r].shown = view[r].shown
          /\ view'[r].completion = view[r].completion
          /\ view'[r].inForce = view[r].inForce \cup {list}
      BY <3>2 DEF IsView
    <3>4. req[r].among \in SUBSET Students
      BY NowOk
    <3> DEFINE v2 == view'[r]
    <3> HIDE DEF v2
    <3>5. ViewOk(req[r], v2, progress, list)
      BY <1>2, <1>3, <2>1, <3>3, <3>4, ViewLater DEF v2
    <3> QED BY <3>3, <3>5 DEF v2
  <2> QED BY <2>2, <2>3
<1>5. view' = [r \in Requests |-> view'[r]]
  BY <1>1
<1> QED BY <1>1, <1>4, <1>5 DEF VInv

\* A page is asked for: it keeps the rows and the list there are.
LEMMA AskViews ==
  ASSUME IInv, VInv, NEW r \in Requests, NEW kind, NEW among, Ask(r, kind, among) PROVE VInv'
<1> DEFINE q == [Free EXCEPT !.kind = kind, !.at = "asked", !.among = among]
           v == [NoView EXCEPT !.base = progress, !.inForce = {Assigned}]
<1>1. /\ req' = [req EXCEPT ![r] = q] /\ view' = [view EXCEPT ![r] = v]
      /\ UNCHANGED <<progress, listed, assignments>>
  BY DEF Ask, course, learning
<1>2. q.at = "asked"
  BY DEF Free
<1>3. IsView(v) /\ v.base = progress /\ v.inForce = {Assigned}
  <2> DEFINE x == progress
             y == {Assigned}
  <2>1. v = [NoView EXCEPT !.base = x, !.inForce = y]
    OBVIOUS
  <2> HIDE DEF x, y, v
  <2>2. v = [base |-> x, inForce |-> y, shown |-> None, completion |-> 0]
    BY <2>1 DEF NoView
  <2>3. IsView(v) /\ v.base = x /\ v.inForce = y
    BY <2>2 DEF IsView
  <2> QED BY <2>3 DEF x, y
<1> HIDE DEF q, v
<1>4. \A s \in Students : Grown(v.base[s], progress[s])
  BY <1>3, NowOk, GrownLater
<1>5. IsFiniteSet({Assigned}) /\ {Assigned} \subseteq SUBSET Problems
  BY NowOk, FS_Singleton
<1>6. ViewOk(q, v, progress, Assigned)
  BY <1>2, <1>3, <1>4, <1>5 DEF ViewOk
<1> QED BY <1>1, <1>3, <1>6, OneView

\* The list of problems is read: it is in force.
LEMMA AssignedViews ==
  ASSUME IInv, VInv, NEW r \in Requests, ReadAssigned(r) PROVE VInv'
<1> DEFINE q == [req[r] EXCEPT !.at = "reading", !.assigned = Assigned]
<1>1. PICK S : req \in [Requests -> Request(S)]
  BY DEF IInv, ReqType
<1>2. req' = [req EXCEPT ![r].at = "reading", ![r].assigned = Assigned]
  BY Zenon DEF ReadAssigned
<1>3. /\ req' = [req EXCEPT ![r] = q]
      /\ UNCHANGED <<progress, listed, assignments, view>> /\ req[r].at = "asked"
  BY <1>2 DEF ReadAssigned, course, learning
<1>4. q.at = "reading" /\ q.assigned = Assigned
  BY <1>1 DEF Request
<1> HIDE DEF q
<1>5. ViewOk(req[r], view[r], progress, Assigned) /\ Looks(req[r])
  BY <1>3 DEF VInv, Looks
<1>6. ViewOk(q, view[r], progress, Assigned)
  BY <1>4, <1>5 DEF ViewOk
<1> QED BY <1>3, <1>6, OneRequest

\* The rows of a student are read: what is computed from them is between the bounds.
LEMMA ProgressViews ==
  ASSUME IInv, VInv, NEW r \in Requests, ReadProgress(r) PROVE VInv'
<1>1. PICK S : req \in [Requests -> Request(S)]
  BY DEF IInv, ReqType
<1>2. PICK s \in req[r].among :
           req' = [req EXCEPT ![r].at = "ready", ![r].student = s,
                              ![r].summary = Recalculated(s, req[r].assigned),
                              ![r].loaded = stats[s]]
  BY Zenon DEF ReadProgress
<1> DEFINE sum == Recalculated(s, req[r].assigned)
           q == [req[r] EXCEPT !.at = "ready", !.student = s, !.summary = sum,
                               !.loaded = stats[s]]
<1>3. /\ req' = [req EXCEPT ![r] = q]
      /\ UNCHANGED <<progress, listed, assignments, view>> /\ req[r].at = "reading"
  BY <1>2 DEF ReadProgress, course, learning
<1>4. s \in Students
  BY NowOk
<1>5. sum = Summary(req[r].assigned, progress[s], s \in idle, s \in troubled)
  BY DEF Recalculated
<1> HIDE DEF sum
<1>6. q.at = "ready" /\ q.student = s /\ q.summary = sum /\ q.kind = req[r].kind
  BY <1>1 DEF Request
<1> HIDE DEF q
<1>7. ASSUME Looks(q) PROVE ViewOk(q, view[r], progress, Assigned)
  <2>1. ViewOk(req[r], view[r], progress, Assigned) /\ Looks(req[r])
    BY <1>3, <1>6, <1>7 DEF VInv, Looks
  <2>2. req[r].assigned \in view[r].inForce /\ Grown(view[r].base[s], progress[s])
    BY <1>3, <1>4, <2>1 DEF ViewOk
  <2>3. Figures(sum, view[r].base[s], progress[s], view[r].inForce)
    BY <1>5, <2>2, FiguresNow
  <2> QED BY <1>4, <1>6, <2>1, <2>3 DEF ViewOk
<1>8. ViewOk(q, view[r], progress, Assigned)
  BY <1>7 DEF ViewOk
<1> QED BY <1>3, <1>8, OneRequest

\* A request that is no question for a page goes on to where it is none either.
LEMMA OtherViews ==
  ASSUME IInv, VInv, NEW r \in Requests, NEW q, req' = [req EXCEPT ![r] = q], ~Looks(q),
         UNCHANGED <<progress, listed, assignments, view>>
  PROVE  VInv'
<1>1. ViewOk(q, view[r], progress, Assigned)
  BY DEF ViewOk
<1> QED BY <1>1, OneRequest

\* The other handlers are not looking at anything.
LEMMA JudgedViews ==
  ASSUME IInv, VInv, NEW r \in Requests,
         \/ \E s \in Students, p \in Problems, kind \in {"solve", "try"} :
               Judged(r, s, p, kind) \/ LocalResult(r, s, p, kind)
         \/ ReadCourses(r) \/ Refused(r) \/ Recalculate(r) \/ WriteStats(r)
  PROVE  VInv'
<1>1. PICK S : req \in [Requests -> Request(S)]
  BY DEF IInv, ReqType
<1>2. UNCHANGED <<progress, listed, assignments, view>>
  BY Zenon DEF Judged, LocalResult, ReadCourses, Refused, Recalculate, WriteStats, course, learning
<1>3. ASSUME NEW at \in {"judged", "counting", "rolledback", "answered"},
             NEW q, q.at = at, req' = [req EXCEPT ![r] = q]
      PROVE  VInv'
  BY <1>2, <1>3, OtherViews DEF Looks
<1>4. CASE \E s \in Students, p \in Problems, kind \in {"solve", "try"} :
              Judged(r, s, p, kind) \/ LocalResult(r, s, p, kind)
  <2>1. PICK s, p, kind :
           req' = [req EXCEPT ![r] = [Free EXCEPT !.kind = kind, !.at = "judged",
                                                  !.student = s, !.problem = p]]
    BY <1>4 DEF Judged, LocalResult, Attempt
  <2> DEFINE q == [Free EXCEPT !.kind = kind, !.at = "judged", !.student = s, !.problem = p]
  <2>2. q.at = "judged" /\ req' = [req EXCEPT ![r] = q]
    BY <2>1 DEF Free
  <2> HIDE DEF q
  <2> QED BY <1>3, <2>2
<1>5. CASE ReadCourses(r)
  <2> DEFINE b == enrolled[req[r].student] = "ACTIVE" /\ req[r].problem \in Assigned
             q == [req[r] EXCEPT !.at = "counting", !.counts = b]
  <2>1. req' = [req EXCEPT ![r].at = "counting", ![r].counts = b]
    BY <1>5, Zenon DEF ReadCourses
  <2>2. req' = [req EXCEPT ![r] = q]
    BY <2>1, Zenon
  <2> HIDE DEF b
  <2>3. q.at = "counting"
    BY <1>1 DEF Request
  <2> HIDE DEF q
  <2> QED BY <1>3, <2>2, <2>3
<1>6. CASE Refused(r)
  <2> DEFINE q == [req[r] EXCEPT !.at = "rolledback"]
  <2>1. req' = [req EXCEPT ![r] = q] /\ q.at = "rolledback"
    BY <1>1, <1>6 DEF Refused, Goto, Request
  <2> HIDE DEF q
  <2> QED BY <1>3, <2>1
<1>7. CASE Recalculate(r)
  <2> DEFINE at == IF enrolled[req[r].student] = "ACTIVE" THEN "reading" ELSE "answered"
             q == [req[r] EXCEPT !.at = at, !.among = {req[r].student}, !.assigned = Assigned]
  <2>1. req' = [req EXCEPT ![r].at = at, ![r].among = {req[r].student}, ![r].assigned = Assigned]
    BY <1>7, Zenon DEF Recalculate
  <2>2. req' = [req EXCEPT ![r] = q]
    BY <2>1, Zenon
  <2>3. at \in {"reading", "answered"}
    OBVIOUS
  <2>4. req[r].kind \in {"solve", "try"}
    BY <1>7 DEF Recalculate, IInv, RequestOk
  <2> HIDE DEF at
  <2>5. q.at = at /\ q.kind = req[r].kind
    BY <1>1 DEF Request
  <2> HIDE DEF q
  <2>6. ~Looks(q)
    BY <2>3, <2>4, <2>5 DEF Looks
  <2> QED BY <1>2, <2>2, <2>6, OtherViews
<1>8. CASE WriteStats(r)
  <2> DEFINE q == [Free EXCEPT !.kind = req[r].kind, !.at = "answered",
                               !.student = req[r].student, !.problem = req[r].problem]
  <2>1. req' = [req EXCEPT ![r] = q] /\ q.at = "answered"
    BY <1>8, Zenon DEF WriteStats, Free
  <2> HIDE DEF q
  <2> QED BY <1>3, <2>1
<1> QED BY <1>4, <1>5, <1>6, <1>7, <1>8

\* A request that is over looks at nothing.
LEMMA EndViews ==
  ASSUME IInv, VInv, NEW r \in Requests, End(r) PROVE VInv'
<1> DEFINE q == [Free EXCEPT !.at = "over"]
           v == NoView
<1>1. /\ req' = [req EXCEPT ![r] = q] /\ view' = [view EXCEPT ![r] = v]
      /\ UNCHANGED <<progress, listed, assignments>>
  BY DEF End, course, learning
<1>2. q.at = "over"
  BY DEF Free
<1>3. IsView(v)
  BY DEF IsView, NoView
<1> HIDE DEF q, v
<1>4. ViewOk(q, v, progress, Assigned)
  BY <1>2 DEF ViewOk, Looks
<1> QED BY <1>1, <1>3, <1>4, OneView

\* The page is shown.
LEMMA ShowViews ==
  ASSUME IInv, VInv, NEW r \in Requests, Show(r) PROVE VInv'
<1> DEFINE among == req[r].among
           shown == [s \in among |-> IF s = req[r].student THEN req[r].summary
                                     ELSE Recalculated(s, Assigned)]
           rate == CompletionRate(shown, among)
           q == [Free EXCEPT !.kind = req[r].kind, !.at = "shown", !.among = among]
           v == [view[r] EXCEPT !.shown = shown, !.completion = rate]
<1>1. /\ req' = [req EXCEPT ![r] = q]
      /\ view' = [view EXCEPT ![r].shown = shown, ![r].completion = rate]
      /\ UNCHANGED <<progress, listed, assignments>>
      /\ req[r].kind \in {"dashboard", "detail"}
      /\ req[r].at = "ready" \/ (req[r].at = "asked" /\ among = {})
  BY Zenon DEF Show, course, learning
<1>2. view' = [view EXCEPT ![r] = v]
  BY <1>1, Zenon
<1>3. q.at = "shown" /\ q.among = among
  BY DEF Free
<1>4. /\ IsView(view[r]) /\ ViewOk(req[r], view[r], progress, Assigned) /\ Looks(req[r])
      /\ among \in SUBSET Students /\ Assigned \in SUBSET Problems
  BY <1>1, NowOk DEF VInv, Looks
<1> HIDE DEF shown, rate
<1>5. /\ v = [base |-> view[r].base, inForce |-> view[r].inForce, shown |-> shown,
              completion |-> rate]
  <2> DEFINE w == view[r]
  <2>1. IsView(w) /\ v = [w EXCEPT !.shown = shown, !.completion = rate]
    BY <1>4
  <2> HIDE DEF w, v, q
  <2>2. v = [base |-> w.base, inForce |-> w.inForce, shown |-> shown, completion |-> rate]
    BY <2>1 DEF IsView
  <2> QED BY <2>2 DEF w
<1>6. /\ IsView(v) /\ v.base = view[r].base /\ v.inForce = view[r].inForce /\ v.shown = shown
      /\ v.completion = rate
  BY <1>5 DEF IsView
<1> HIDE DEF q, v
<1>7. ASSUME NEW s \in among
      PROVE  Figures(shown[s], view[r].base[s], progress[s], view[r].inForce)
  <2>1. req[r].at = "ready" /\ Grown(view[r].base[s], progress[s]) /\ Assigned \in view[r].inForce
    BY <1>1, <1>4, <1>7 DEF ViewOk
  <2>2. CASE s = req[r].student
    <3>1. shown[s] = req[r].summary
      BY <2>2 DEF shown
    <3> QED BY <1>4, <2>1, <2>2, <3>1 DEF ViewOk
  <2>3. CASE s # req[r].student
    <3>1. shown[s] = Summary(Assigned, progress[s], s \in idle, s \in troubled)
      BY <2>3 DEF shown, Recalculated
    <3> QED BY <2>1, <3>1, FiguresNow
  <2> QED BY <2>2, <2>3
<1>8. ASSUME Cardinality(view[r].inForce) = 1 PROVE rate <= 100
  <2>1. IsFiniteSet(view[r].inForce) /\ Assigned \in view[r].inForce
    BY <1>4 DEF ViewOk
  <2>2. view[r].inForce = {Assigned}
    BY <1>8, <2>1, FS_Singleton
  <2>3. ASSUME NEW s \in among
        PROVE  shown[s].solved \in Nat /\ shown[s].solved <= Cardinality(Assigned)
    <3> DEFINE lo == Cardinality(Solved(view[r].base[s]) \cap Assigned)
               hi == Cardinality(Solved(progress[s]) \cap Assigned)
               all == Cardinality(Assigned)
               n == shown[s].solved
    <3>1. n \in lo .. hi
      BY <1>7, <2>2, <2>3 DEF Figures
    <3>2. Grown(view[r].base[s], progress[s])
      BY <1>4, <2>3 DEF ViewOk
    <3>3. lo \in Nat /\ hi \in Nat
      BY <3>2, Growing
    <3>4. Solved(progress[s]) \cap Assigned \in SUBSET Assigned /\ IsFiniteSet(Assigned)
      BY <1>4, FiniteAssumption, FS_Subset
    <3>5. hi <= all /\ all \in Nat
      BY <3>4, FS_Subset, FS_CardinalityType
    <3> HIDE DEF lo, hi, all, n
    <3>6. n \in Nat /\ n <= all
      BY <3>1, <3>3, <3>5
    <3> QED BY <3>6 DEF n, all
  <2> QED BY <1>4, <2>3, CompletionIs DEF rate
<1>9. ViewOk(q, v, progress, Assigned)
  BY <1>3, <1>4, <1>6, <1>7, <1>8 DEF ViewOk
<1> QED BY <1>1, <1>2, <1>6, <1>9, OneView

\* Every step keeps what is kept of the pages.
LEMMA ViewStep ==
  ASSUME IInv, VInv, [Next]_vars PROVE VInv'
<1>1. CASE UNCHANGED vars
  BY <1>1, NothingShown DEF vars, course, learning
<1>2. CASE \E s \in Students : Enroll(s) \/ Drop(s) \/ StayAway(s) \/ Trigger(s)
  <2>1. UNCHANGED <<req, view, progress, listed, assignments>>
    BY <1>2, Zenon DEF Enroll, Drop, StayAway, Trigger, course, learning
  <2> QED BY <2>1, NothingShown
<1>3. CASE \E problems \in SUBSET Problems : CreateAssignment(problems)
  BY <1>3, AssignmentViews
<1>4. ASSUME NEW r \in Requests,
             \/ \E s \in Students, p \in Problems, kind \in {"solve", "try"} :
                   Judged(r, s, p, kind) \/ LocalResult(r, s, p, kind)
             \/ \E s \in Students, p \in Problems : Checkpoint(r, s, p)
             \/ ReadCourses(r) \/ Refused(r) \/ Record(r) \/ Recalculate(r) \/ WriteStats(r)
             \/ Dashboard(r) \/ \E s \in Students : Detail(r, s)
             \/ ReadAssigned(r) \/ ReadProgress(r) \/ Show(r)
             \/ End(r)
      PROVE  VInv'
  <2>1. CASE Dashboard(r) \/ \E s \in Students : Detail(r, s)
    BY <2>1, AskViews DEF Dashboard, Detail
  <2> QED BY <1>4, <2>1, JudgedViews, RecordViews, CheckpointViews, AssignedViews,
         ProgressViews, ShowViews, EndViews
<1> QED BY <1>1, <1>2, <1>3, <1>4 DEF Next

\* The figures an educator is shown count what was committed before the question and
\* nothing that was not before the answer, for a list that was in force.
THEOREM Current == Spec => []DashboardIsCurrent
<1>1. Init => VInv
  <2> SUFFICES ASSUME Init PROVE VInv
    OBVIOUS
  <2>1. view = [r \in Requests |-> NoView] /\ \A r \in Requests : req[r] = Free
    BY DEF Init
  <2>2. IsView(NoView) /\ ~Looks(Free)
    BY DEF IsView, NoView, Looks, Free
  <2> QED BY <2>1, <2>2 DEF VInv, ViewOk
<1>2. IInv /\ VInv /\ [Next]_vars => VInv'
  BY ViewStep
<1>3. IInv /\ VInv => DashboardIsCurrent
  <2> SUFFICES ASSUME IInv, VInv, NEW r \in Requests, req[r].at = "shown"
               PROVE  /\ \A s \in req[r].among :
                            Figures(view[r].shown[s], view[r].base[s], progress[s],
                                    view[r].inForce)
                      /\ Cardinality(view[r].inForce) = 1 => view[r].completion <= 100
    BY DEF DashboardIsCurrent, Figures
  <2> QED BY DEF VInv, ViewOk, Looks
<1> QED BY <1>1, <1>2, <1>3, Invariance, PTL DEF Spec
=============================================================================
