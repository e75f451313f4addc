--------------------------- MODULE RewardsProofs ---------------------------
(***************************************************************************)
(* Proofs about Rewards for any number of requests, problems and courses   *)
(* and any amounts.                                                        *)
(*                                                                         *)
(* The argument: what a handler read outside its transaction may be old,   *)
(* but what the account properties need of it cannot be taken back: a      *)
(* solved row stays solved, an enrolment and what the course has offered   *)
(* since stay on record, the ledger only grows (Later).  HandlerOK says    *)
(* what each handler relies on; the UNIQUE key does the rest.              *)
(***************************************************************************)
EXTENDS Rewards, TLAPS

USE DEF Request

Entry == [amount : Int, key : Problem \cup {NoKey}, after : Nat]

DatabaseType ==
    /\ ledger \in Seq(Entry)
    /\ balance \in Nat
    /\ earned \in Nat
    /\ rows \in [Problem -> [Place -> Row]]
    /\ enrolled \in [Course -> {"none", "ACTIVE", "DROPPED"}]
    /\ assigned \in [Course -> SUBSET Problem]
    /\ offered \in [Course -> SUBSET Problem]

\* What a course assigns now is among what it assigned since the student is on
\* its record
OfferedNow == \A c \in Course : enrolled[c] # "none" => AssignedIds(c) \subseteq offered[c]

DatabaseInv ==
    /\ DatabaseType /\ AuditTrail /\ SolvedIffAwarded /\ AwardedOnce /\ NoForeignProgress
    /\ OfferedNow

LocalsOK ==
    /\ pc \in [Request -> Label]
    /\ asked \in [Request -> Bodies]
    /\ user \in [Request -> Account]
    /\ seen \in [Request -> Row]
    /\ targets \in [Request -> SUBSET Course]
    /\ awarded \in [Request -> Nat]

ForProblem(r) == asked[r].by \in {"judge", "local", "checkpoint"}

\* What a handler at its next step relies on
HandlerOK(r) ==
    /\ pc[r] = "idle" => seen[r] = Absent /\ targets[r] = {}
    /\ pc[r] \notin {"done", "failed"} => awarded[r] = 0
    /\ pc[r] \in {"user", "local", "courses", "lists", "record"} => asked[r].by \in {"judge", "local"}
    /\ pc[r] \in {"row", "save"} => ForProblem(r)
    /\ pc[r] = "row" => asked[r].by = "checkpoint" \/ asked[r].by \in {"judge", "local"}
    /\ seen[r].solved => ForProblem(r) /\ PrivateRow(r).solved
    /\ \A c \in targets[r] :
          /\ ForProblem(r) /\ enrolled[c] # "none"
          /\ pc[r] \in {"row", "record", "save"} => ProblemOf(r) \in offered[c]
    /\ awarded[r] # 0 =>
          /\ ForProblem(r)
          /\ \E i \in DOMAIN ledger :
                ledger[i].key = ProblemOf(r) /\ ledger[i].amount = awarded[r]

OneReport ==
    \A r, s \in Request :
        awarded[r] # 0 /\ awarded[s] # 0 /\ ProblemOf(s) = ProblemOf(r) => s = r

IInv == DatabaseInv /\ LocalsOK /\ (\A r \in Request : HandlerOK(r)) /\ OneReport

-----------------------------------------------------------------------------
(* What no step takes back.                                                *)

Later ==
    /\ Len(ledger) <= Len(ledger')
    /\ \A i \in DOMAIN ledger : i \in DOMAIN ledger' /\ ledger'[i] = ledger[i]
    /\ \A p \in Problem, place \in Place : rows[p][place].solved => rows'[p][place].solved
    /\ \A c \in Course : enrolled[c] # "none" => enrolled'[c] # "none"
    /\ \A c \in Course : enrolled[c] # "none" => offered[c] \subseteq offered'[c]

\* Only the local variables of q change
OnlyOf(q) ==
    \A r \in Request \ {q} :
        /\ pc'[r] = pc[r]
        /\ asked'[r] = asked[r]
        /\ seen'[r] = seen[r]
        /\ targets'[r] = targets[r]
        /\ awarded'[r] = awarded[r]

\* A body that names a problem names one of the student's problems.
LEMMA BodyType ==
  ASSUME LocalsOK, NEW r \in Request, ForProblem(r)
  PROVE  /\ ProblemOf(r) \in Problem
         /\ asked[r].by \in {"judge", "local"} =>
              asked[r].mode \in {"run", "submit"} /\ asked[r].accepted \in BOOLEAN
  BY DEF LocalsOK, ForProblem, ProblemOf, Bodies

\* What another handler relies on is still there after a step of q.
LEMMA OthersKeep ==
  ASSUME IInv, NEW q, Later, OnlyOf(q), NEW r \in Request, r # q
  PROVE  HandlerOK(r)'
<1>1. HandlerOK(r) /\ LocalsOK
  BY DEF IInv
<1>2. /\ pc'[r] = pc[r]
      /\ asked'[r] = asked[r]
      /\ seen'[r] = seen[r]
      /\ targets'[r] = targets[r]
      /\ awarded'[r] = awarded[r]
  BY DEF OnlyOf
<1>3. ForProblem(r)' = ForProblem(r) /\ ProblemOf(r)' = ProblemOf(r)
  BY <1>2 DEF ForProblem, ProblemOf
<1>4. ForProblem(r) => ProblemOf(r) \in Problem
  BY <1>1, BodyType
<1>5. ForProblem(r) /\ PrivateRow(r).solved => PrivateRow(r)'.solved
  BY <1>3, <1>4 DEF Later, PrivateRow, Place
<1>6. \A c \in targets[r] : c \in Course
  BY <1>1 DEF LocalsOK
<1>7. (\E i \in DOMAIN ledger : ledger[i].key = ProblemOf(r) /\ ledger[i].amount = awarded[r])
        => (\E i \in DOMAIN ledger' :
              ledger'[i].key = ProblemOf(r) /\ ledger'[i].amount = awarded[r])
  BY DEF Later
<1>8. \A c \in targets[r] :
         enrolled[c] # "none" => enrolled'[c] # "none" /\ offered[c] \subseteq offered'[c]
  BY <1>6 DEF Later
<1> QED BY <1>1, <1>2, <1>3, <1>5, <1>7, <1>8 DEF HandlerOK

\* A step that leaves the database and the reports alone.
GoodRead(q) ==
    UNCHANGED database /\ OnlyOf(q) /\ LocalsOK' /\ HandlerOK(q)' /\ UNCHANGED awarded
               /\ (awarded[q] # 0 => asked'[q] = asked[q])

\* Such a step keeps the invariant.
LEMMA ReadKeepsInv ==
  ASSUME IInv, NEW q \in Request, GoodRead(q)
  PROVE  IInv' /\ Later
<1>1. Later
  BY DEF GoodRead, database, Later, IInv, DatabaseInv, DatabaseType
<1>2. DatabaseInv'
  BY DEF GoodRead, database, IInv, DatabaseInv, DatabaseType, AuditTrail, SolvedIffAwarded,
         Solved, Keys, AwardedOnce, NoForeignProgress, OfferedNow, AssignedIds
<1>3. \A r \in Request : HandlerOK(r)'
  BY <1>1, OthersKeep DEF GoodRead
<1>4. OneReport'
  <2>1. \A r \in Request : awarded[r] # 0 => asked'[r] = asked[r]
    BY DEF GoodRead, OnlyOf
  <2> QED BY <2>1 DEF GoodRead, IInv, OneReport, ProblemOf
<1> QED BY <1>1, <1>2, <1>3, <1>4 DEF IInv, GoodRead

-----------------------------------------------------------------------------
(* The steps that only read.                                               *)

\* The parts of the invariant that concern one request.
LEMMA OfRequest ==
  ASSUME IInv, NEW q \in Request
  PROVE  /\ HandlerOK(q) /\ LocalsOK /\ DatabaseType
         /\ Loaded \in Account
         /\ Expired \in Account
         /\ ForProblem(q) => ProblemOf(q) \in Problem /\ PrivateRow(q) \in Row
<1>1. HandlerOK(q) /\ LocalsOK /\ DatabaseType
  BY DEF IInv, DatabaseInv
<1>2. Loaded \in Account /\ Expired \in Account
  BY <1>1 DEF DatabaseType, Loaded, Expired, Account
<1>3. ForProblem(q) => ProblemOf(q) \in Problem
  BY <1>1, BodyType
<1>4. ForProblem(q) => PrivateRow(q) \in Row
  BY <1>1, <1>3 DEF PrivateRow, DatabaseType, Place
<1> QED BY <1>1, <1>2, <1>3, <1>4

\* A request arrives.
LEMMA ArriveStep ==
  ASSUME IInv, NEW q \in Request, NEW body \in Body, Arrive(q, body)
  PROVE  GoodRead(q)
<1>0. /\ HandlerOK(q) /\ LocalsOK
      /\ Loaded \in Account /\ Expired \in Account
      /\ ForProblem(q) => ProblemOf(q) \in Problem /\ PrivateRow(q) \in Row
  BY OfRequest
<1>1. UNCHANGED database /\ UNCHANGED awarded /\ OnlyOf(q)
  BY <1>0 DEF Arrive, Goto, database, locals, OnlyOf, LocalsOK
<1>2. LocalsOK'
  BY <1>0, BodyAssumption DEF Arrive, Goto, LocalsOK, Label, locals, HandlerOK, ForProblem, Bodies, Absent
<1>3. HandlerOK(q)'
  BY <1>0, BodyAssumption DEF Arrive, Goto, HandlerOK, LocalsOK, database, locals, PrivateRow, ProblemOf,
     ForProblem, Bodies, Absent
<1>4. awarded[q] # 0 => asked'[q] = asked[q]
  BY <1>0 DEF Arrive, HandlerOK, locals
<1> QED BY <1>1, <1>2, <1>3, <1>4 DEF GoodRead

\* _execute reads the user row.
LEMMA LoadUserStep ==
  ASSUME IInv, NEW q \in Request, LoadUser(q)
  PROVE  GoodRead(q)
<1>0. /\ HandlerOK(q) /\ LocalsOK
      /\ Loaded \in Account /\ Expired \in Account
      /\ ForProblem(q) => ProblemOf(q) \in Problem /\ PrivateRow(q) \in Row
  BY OfRequest
<1>1. UNCHANGED database /\ UNCHANGED awarded /\ OnlyOf(q)
  BY <1>0 DEF LoadUser, Goto, database, locals, OnlyOf, LocalsOK
<1>2. LocalsOK'
  BY <1>0 DEF LoadUser, Goto, LocalsOK, Label, locals, HandlerOK, ForProblem
<1>3. HandlerOK(q)'
  BY <1>0 DEF LoadUser, Goto, HandlerOK, LocalsOK, database, locals, PrivateRow, ProblemOf,
     ForProblem
<1>4. awarded[q] # 0 => asked'[q] = asked[q]
  BY <1>0 DEF LoadUser, HandlerOK, locals
<1> QED BY <1>1, <1>2, <1>3, <1>4 DEF GoodRead

\* sync_local_result looks for a solution.
LEMMA CheckLocalStep ==
  ASSUME IInv, NEW q \in Request, CheckLocal(q)
  PROVE  GoodRead(q)
<1>0. /\ HandlerOK(q) /\ LocalsOK
      /\ Loaded \in Account /\ Expired \in Account
      /\ ForProblem(q) => ProblemOf(q) \in Problem /\ PrivateRow(q) \in Row
  BY OfRequest
<1>1. UNCHANGED database /\ UNCHANGED awarded /\ OnlyOf(q)
  BY <1>0 DEF CheckLocal, Goto, database, locals, OnlyOf, LocalsOK
<1>2. LocalsOK'
  BY <1>0 DEF CheckLocal, Goto, LocalsOK, Label, locals, HandlerOK, ForProblem
<1>3. HandlerOK(q)'
  BY <1>0 DEF CheckLocal, Goto, HandlerOK, LocalsOK, database, locals, PrivateRow, ProblemOf,
     ForProblem
<1>4. awarded[q] # 0 => asked'[q] = asked[q]
  BY <1>0 DEF CheckLocal, HandlerOK, locals
<1> QED BY <1>1, <1>2, <1>3, <1>4 DEF GoodRead

\* course_ids_assigned reads the enrolments.
LEMMA LoadEnrolmentsStep ==
  ASSUME IInv, NEW q \in Request, LoadEnrolments(q)
  PROVE  GoodRead(q)
<1>0. /\ HandlerOK(q) /\ LocalsOK
      /\ Loaded \in Account /\ Expired \in Account
      /\ ForProblem(q) => ProblemOf(q) \in Problem /\ PrivateRow(q) \in Row
  BY OfRequest
<1>a. /\ CoursesAttended \in SUBSET Course
      /\ \A c \in CoursesAttended : enrolled[c] # "none"
  BY DEF CoursesAttended
<1>1. UNCHANGED database /\ UNCHANGED awarded /\ OnlyOf(q)
  BY <1>0 DEF LoadEnrolments, Goto, database, locals, OnlyOf, LocalsOK
<1>2. LocalsOK'
  BY <1>0, <1>a DEF LoadEnrolments, Goto, LocalsOK, Label, locals, HandlerOK, ForProblem
<1>3. HandlerOK(q)'
  BY <1>0, <1>a DEF LoadEnrolments, Goto, HandlerOK, LocalsOK, database, locals, PrivateRow,
     ProblemOf, ForProblem
<1>4. awarded[q] # 0 => asked'[q] = asked[q]
  BY <1>0 DEF LoadEnrolments, HandlerOK, locals
<1> QED BY <1>1, <1>2, <1>3, <1>4 DEF GoodRead

\* course_ids_assigned reads what the courses assign.
LEMMA LoadCoursesStep ==
  ASSUME IInv, NEW q \in Request, LoadCourses(q)
  PROVE  GoodRead(q)
<1>0. /\ HandlerOK(q) /\ LocalsOK
      /\ Loaded \in Account /\ Expired \in Account
      /\ ForProblem(q) => ProblemOf(q) \in Problem /\ PrivateRow(q) \in Row
  BY OfRequest
<1> DEFINE listing == {c \in targets[q] : ProblemOf(q) \in AssignedIds(c)}
<1>a. /\ listing \in SUBSET Course
      /\ \A c \in listing :
            ForProblem(q) /\ enrolled[c] # "none" /\ ProblemOf(q) \in offered[c]
  BY <1>0 DEF HandlerOK, LocalsOK, IInv, DatabaseInv, OfferedNow
<1>b. targets' = [targets EXCEPT ![q] = listing]
  BY DEF LoadCourses
<1> HIDE DEF listing
<1>1. UNCHANGED database /\ UNCHANGED awarded /\ OnlyOf(q)
  BY <1>0 DEF LoadCourses, Goto, database, locals, OnlyOf, LocalsOK
<1>2. LocalsOK'
  BY <1>0, <1>a, <1>b DEF LoadCourses, Goto, LocalsOK, Label, locals, HandlerOK, ForProblem
<1>3. HandlerOK(q)'
  BY <1>0, <1>a, <1>b DEF LoadCourses, Goto, HandlerOK, LocalsOK, database, locals, PrivateRow,
     ProblemOf, ForProblem
<1>4. awarded[q] # 0 => asked'[q] = asked[q]
  BY <1>0 DEF LoadCourses, HandlerOK, locals
<1> QED BY <1>1, <1>2, <1>3, <1>4 DEF GoodRead

\* ensure looks for the private row.
LEMMA ReadRowStep ==
  ASSUME IInv, NEW q \in Request, ReadRow(q)
  PROVE  GoodRead(q)
<1>0. /\ HandlerOK(q) /\ LocalsOK
      /\ Loaded \in Account /\ Expired \in Account
      /\ ForProblem(q) => ProblemOf(q) \in Problem /\ PrivateRow(q) \in Row
  BY OfRequest
<1>1. UNCHANGED database /\ UNCHANGED awarded /\ OnlyOf(q)
  BY <1>0 DEF ReadRow, Goto, database, locals, OnlyOf, LocalsOK
<1>2. LocalsOK'
  BY <1>0 DEF ReadRow, Goto, LocalsOK, Label, locals, HandlerOK, ForProblem
<1>3. HandlerOK(q)'
  BY <1>0 DEF ReadRow, Goto, HandlerOK, LocalsOK, database, locals, PrivateRow, ProblemOf,
     ForProblem
<1>4. awarded[q] # 0 => asked'[q] = asked[q]
  BY <1>0 DEF ReadRow, HandlerOK, locals
<1> QED BY <1>1, <1>2, <1>3, <1>4 DEF GoodRead

\* ensure meets the UNIQUE constraint.
LEMMA EnsureCollisionStep ==
  ASSUME IInv, NEW q \in Request, EnsureCollision(q)
  PROVE  GoodRead(q)
<1>0. /\ HandlerOK(q) /\ LocalsOK
      /\ Loaded \in Account /\ Expired \in Account
      /\ ForProblem(q) => ProblemOf(q) \in Problem /\ PrivateRow(q) \in Row
  BY OfRequest
<1>1. UNCHANGED database /\ UNCHANGED awarded /\ OnlyOf(q)
  BY <1>0 DEF EnsureCollision, Goto, database, locals, OnlyOf, LocalsOK
<1>2. LocalsOK'
  BY <1>0 DEF EnsureCollision, Goto, LocalsOK, Label, locals, HandlerOK, ForProblem
<1>3. HandlerOK(q)'
  BY <1>0 DEF EnsureCollision, Goto, HandlerOK, LocalsOK, database, locals, PrivateRow, ProblemOf,
     ForProblem
<1>4. awarded[q] # 0 => asked'[q] = asked[q]
  BY <1>0 DEF EnsureCollision, HandlerOK, locals
<1> QED BY <1>1, <1>2, <1>3, <1>4 DEF GoodRead

\* post meets the UNIQUE constraint.
LEMMA AwardCollisionStep ==
  ASSUME IInv, NEW q \in Request, AwardCollision(q)
  PROVE  GoodRead(q)
<1>0. /\ HandlerOK(q) /\ LocalsOK
      /\ Loaded \in Account /\ Expired \in Account
      /\ ForProblem(q) => ProblemOf(q) \in Problem /\ PrivateRow(q) \in Row
  BY OfRequest
<1>1. UNCHANGED database /\ UNCHANGED awarded /\ OnlyOf(q)
  BY <1>0 DEF AwardCollision, Goto, database, locals, OnlyOf, LocalsOK
<1>2. LocalsOK'
  BY <1>0 DEF AwardCollision, Goto, LocalsOK, Label, locals, HandlerOK, ForProblem
<1>3. HandlerOK(q)'
  BY <1>0 DEF AwardCollision, Goto, HandlerOK, LocalsOK, database, locals, PrivateRow, ProblemOf,
     ForProblem
<1>4. awarded[q] # 0 => asked'[q] = asked[q]
  BY <1>0 DEF AwardCollision, HandlerOK, locals
<1> QED BY <1>1, <1>2, <1>3, <1>4 DEF GoodRead

\* Too few acorns.
LEMMA RefuseNicknameStep ==
  ASSUME IInv, NEW q \in Request, RefuseNickname(q)
  PROVE  GoodRead(q)
<1>0. /\ HandlerOK(q) /\ LocalsOK
      /\ Loaded \in Account /\ Expired \in Account
      /\ ForProblem(q) => ProblemOf(q) \in Problem /\ PrivateRow(q) \in Row
  BY OfRequest
<1>1. UNCHANGED database /\ UNCHANGED awarded /\ OnlyOf(q)
  BY <1>0 DEF RefuseNickname, Goto, database, locals, OnlyOf, LocalsOK
<1>2. LocalsOK'
  BY <1>0 DEF RefuseNickname, Goto, LocalsOK, Label, locals, HandlerOK, ForProblem
<1>3. HandlerOK(q)'
  BY <1>0 DEF RefuseNickname, Goto, HandlerOK, LocalsOK, database, locals, PrivateRow, ProblemOf,
     ForProblem
<1>4. awarded[q] # 0 => asked'[q] = asked[q]
  BY <1>0 DEF RefuseNickname, HandlerOK, locals
<1> QED BY <1>1, <1>2, <1>3, <1>4 DEF GoodRead

\* The student keeps the nickname.
LEMMA KeepNicknameStep ==
  ASSUME IInv, NEW q \in Request, KeepNickname(q)
  PROVE  GoodRead(q)
<1>0. /\ HandlerOK(q) /\ LocalsOK
      /\ Loaded \in Account /\ Expired \in Account
      /\ ForProblem(q) => ProblemOf(q) \in Problem /\ PrivateRow(q) \in Row
  BY OfRequest
<1>1. UNCHANGED database /\ UNCHANGED awarded /\ OnlyOf(q)
  BY <1>0 DEF KeepNickname, Goto, database, locals, OnlyOf, LocalsOK
<1>2. LocalsOK'
  BY <1>0 DEF KeepNickname, Goto, LocalsOK, Label, locals, HandlerOK, ForProblem
<1>3. HandlerOK(q)'
  BY <1>0 DEF KeepNickname, Goto, HandlerOK, LocalsOK, database, locals, PrivateRow, ProblemOf,
     ForProblem
<1>4. awarded[q] # 0 => asked'[q] = asked[q]
  BY <1>0 DEF KeepNickname, HandlerOK, locals
<1> QED BY <1>1, <1>2, <1>3, <1>4 DEF GoodRead

\* An exception or a crash.
LEMMA FailStep ==
  ASSUME IInv, NEW q \in Request, Fail(q)
  PROVE  GoodRead(q)
<1>0. /\ HandlerOK(q) /\ LocalsOK
      /\ Loaded \in Account /\ Expired \in Account
      /\ ForProblem(q) => ProblemOf(q) \in Problem /\ PrivateRow(q) \in Row
  BY OfRequest
<1>1. UNCHANGED database /\ UNCHANGED awarded /\ OnlyOf(q)
  BY <1>0 DEF Fail, Goto, database, locals, OnlyOf, LocalsOK
<1>2. LocalsOK'
  BY <1>0 DEF Fail, Goto, LocalsOK, Label, locals, HandlerOK, ForProblem
<1>3. HandlerOK(q)'
  BY <1>0 DEF Fail, Goto, HandlerOK, LocalsOK, database, locals, PrivateRow, ProblemOf,
     ForProblem
<1>4. awarded[q] # 0 => asked'[q] = asked[q]
  BY <1>0 DEF Fail, HandlerOK, locals
<1> QED BY <1>1, <1>2, <1>3, <1>4 DEF GoodRead

-----------------------------------------------------------------------------
(* The steps that write.                                                   *)

\* What post() does to the ledger and the balance.
LEMMA PostEffect ==
  ASSUME IInv, NEW q \in Request, NEW amount \in Int, NEW key \in Problem \cup {NoKey},
         UserRow(q).balance + amount \in Nat, Post(q, amount, key)
  PROVE  /\ ledger' \in Seq(Entry) /\ balance' \in Nat /\ earned' \in Nat
         /\ AuditTrail'
         /\ Keys' = Keys \cup {key}
         /\ ~KeyTaken(key) => AwardedOnce'
         /\ Len(ledger') = Len(ledger) + 1
         /\ \A i \in DOMAIN ledger : i \in DOMAIN ledger' /\ ledger'[i] = ledger[i]
         /\ Len(ledger') \in DOMAIN ledger'
         /\ ledger'[Len(ledger')].key = key
         /\ ledger'[Len(ledger')].amount = amount
<1> DEFINE entry == [amount |-> amount, key |-> key, after |-> UserRow(q).balance + amount]
<1>1. /\ ledger \in Seq(Entry) /\ balance \in Nat /\ earned \in Nat /\ AwardedOnce
      /\ user[q] \in Account
  BY DEF IInv, DatabaseInv, DatabaseType, LocalsOK
<1>2. entry \in Entry
  BY DEF Entry
<1>3. UserRow(q).earned \in Nat
  BY <1>1 DEF UserRow, Account, Loaded
<1>4. ledger' = Append(ledger, entry)
  BY DEF Post
<1>5. balance' = entry.after
  BY DEF Post
<1>6. entry.key = key /\ entry.amount = amount
  OBVIOUS
<1> HIDE DEF entry
<1>7. /\ ledger' \in Seq(Entry)
      /\ Len(ledger') = Len(ledger) + 1
      /\ DOMAIN ledger' = DOMAIN ledger \cup {Len(ledger) + 1}
      /\ \A i \in DOMAIN ledger : ledger'[i] = ledger[i]
      /\ ledger'[Len(ledger) + 1] = entry
      /\ Len(ledger) + 1 \notin DOMAIN ledger
      /\ Len(ledger) \in Nat
  BY <1>1, <1>2, <1>4
<1>8. AuditTrail'
  BY <1>5, <1>7 DEF AuditTrail
<1>9. Keys' = Keys \cup {key}
  BY <1>6, <1>7 DEF Keys
<1>10. ~KeyTaken(key) => AwardedOnce'
  BY <1>1, <1>6, <1>7 DEF AwardedOnce, KeyTaken, Keys
<1>11. balance' \in Nat
  BY <1>2, <1>5 DEF Entry
<1>12. earned' \in Nat
  <2>1. CASE amount > 0
    <3>1. earned' = UserRow(q).earned + amount
      BY <2>1 DEF Post
    <3> QED BY <2>1, <3>1, <1>3
  <2>2. CASE ~(amount > 0)
    BY <2>2, <1>1 DEF Post
  <2> QED BY <2>1, <2>2
<1> QED BY <1>6, <1>7, <1>8, <1>9, <1>10, <1>11, <1>12

\* The rows of the attempt: types, what is solved, where rows appear.
LEMMA AttemptedRows ==
  ASSUME IInv, NEW q \in Request, asked[q].by \in {"judge", "local"}
  PROVE  /\ Attempted(q) \in [Place -> Row]
         /\ \A place \in Place :
               rows[ProblemOf(q)][place].solved => Attempted(q)[place].solved
         /\ ~Completes(q) => \A place \in Place :
               Attempted(q)[place].solved => rows[ProblemOf(q)][place].solved
         /\ Completes(q) => Attempted(q)[Private].solved
         /\ \A c \in Course :
               Attempted(q)[c].exists =>
                  rows[ProblemOf(q)][c].exists \/ c \in targets[q]
<1>1. ForProblem(q) /\ ProblemOf(q) \in Problem /\ asked[q].accepted \in BOOLEAN /\ seen[q] \in Row
  BY OfRequest, BodyType DEF ForProblem, LocalsOK
<1>2. rows[ProblemOf(q)] \in [Place -> Row]
  BY <1>1 DEF IInv, DatabaseInv, DatabaseType
<1>3. Completes(q) \in BOOLEAN
  BY <1>1 DEF Completes
<1>4. \A place \in Place : Attempted(q)[place] \in Row
  BY <1>1, <1>2, <1>3 DEF Attempted, Row
<1>5. Attempted(q) \in [Place -> Row]
  BY <1>4 DEF Attempted
<1>6. Private \in Place /\ \A c \in Course : c \in Place /\ c # Private
  BY PlaceAssumption DEF Place
<1>7. \A place \in Place : Attempted(q)[place].solved
                              <=> \/ rows[ProblemOf(q)][place].solved
                                  \/ Completes(q) /\ place \in {Private} \cup targets[q]
  BY <1>2, <1>3 DEF Attempted, Row
<1>8. \A c \in Course : Attempted(q)[c].exists =>
                            rows[ProblemOf(q)][c].exists \/ c \in targets[q]
  BY <1>6 DEF Attempted
<1> QED BY <1>5, <1>6, <1>7, <1>8

\* An attempt that earns nothing: a solution was paid for before.
LEMMA RecordAttemptStep ==
  ASSUME IInv, NEW q \in Request, RecordAttempt(q)
  PROVE  IInv' /\ Later
<1>0. HandlerOK(q) /\ LocalsOK /\ DatabaseType /\ DatabaseInv /\ OneReport
  BY OfRequest DEF IInv
<1>a. asked[q].by \in {"judge", "local"} /\ ForProblem(q) /\ ProblemOf(q) \in Problem
  BY <1>0, OfRequest DEF RecordAttempt, HandlerOK, ForProblem
<1>b. PICK p \in Problem : p = ProblemOf(q)
  BY <1>a
<1>1. asked[q].by \in {"judge", "local"} /\ ForProblem(q) /\ p = ProblemOf(q)
  BY <1>a, <1>b
<1>2. /\ pc[q] = "record"
      /\ rows' = [rows EXCEPT ![p] = Attempted(q)]
      /\ UNCHANGED <<ledger, balance, earned, enrolled, assigned, offered,
                     asked, user, seen, targets, awarded>>
      /\ pc' = [pc EXCEPT ![q] = "done"]
  BY <1>b DEF RecordAttempt, Goto, teaching
<1>3. /\ rows' \in [Problem -> [Place -> Row]]
      /\ rows'[p] = Attempted(q)
      /\ \A o \in Problem \ {p} : rows'[o] = rows[o]
  BY <1>0, <1>1, <1>2, AttemptedRows DEF DatabaseType
<1>4. Later
  BY <1>0, <1>2, <1>3, AttemptedRows, <1>1 DEF Later, DatabaseType
<1>5. SolvedIffAwarded'
  <2>1. \A o \in Problem \ {p} : Solved(o)' <=> Solved(o)
    BY <1>3 DEF Solved
  <2>2. Solved(p)' <=> Solved(p)
    <3>1. CASE Completes(q)
      <4>1. PrivateRow(q).solved
        BY <3>1, <1>0 DEF RecordAttempt, FirstSolve, HandlerOK
      <4>2. Private \in Place
        BY DEF Place
      <4> QED BY <3>1, <4>1, <4>2, <1>1, <1>3, AttemptedRows DEF Solved, PrivateRow
    <3>2. CASE ~Completes(q)
      BY <3>2, <1>1, <1>3, AttemptedRows DEF Solved
    <3> QED BY <3>1, <3>2
  <2>3. Keys' = Keys
    BY <1>2 DEF Keys
  <2> QED BY <2>1, <2>2, <2>3, <1>0 DEF DatabaseInv, SolvedIffAwarded
<1>6. NoForeignProgress'
  BY <1>0, <1>1, <1>2, <1>3, AttemptedRows DEF DatabaseInv, NoForeignProgress, HandlerOK
<1>7. DatabaseInv'
  BY <1>0, <1>2, <1>3, <1>5, <1>6 DEF DatabaseInv, DatabaseType, AuditTrail, AwardedOnce,
     OfferedNow, AssignedIds
<1>8. LocalsOK'
  BY <1>0, <1>2 DEF LocalsOK, Label
<1>9. OnlyOf(q)
  BY <1>0, <1>2 DEF OnlyOf, LocalsOK
<1>10. HandlerOK(q)'
  <2>1. PrivateRow(q).solved => PrivateRow(q)'.solved
    BY <1>1, <1>2, <1>4 DEF Later, PrivateRow, ProblemOf, Place
  <2>2. ProblemOf(q)' = ProblemOf(q) /\ ForProblem(q)' = ForProblem(q)
    BY <1>2 DEF ProblemOf, ForProblem
  <2> QED BY <2>1, <2>2, <1>0, <1>1, <1>2 DEF HandlerOK, LocalsOK
<1>11. \A r \in Request : HandlerOK(r)'
  BY <1>4, <1>9, <1>10, OthersKeep
<1>12. OneReport'
  BY <1>0, <1>2 DEF OneReport, ProblemOf
<1> QED BY <1>4, <1>7, <1>8, <1>11, <1>12 DEF IInv

\* The balance a handler computes from is a number.
LEMMA UserRowType ==
  ASSUME IInv, NEW q \in Request
  PROVE  UserRow(q).balance \in Nat
  BY OfRequest DEF UserRow, LocalsOK, Account

\* The first solution: rows and award together, for a problem not paid yet.
LEMMA RecordSolutionStep ==
  ASSUME IInv, NEW q \in Request, RecordSolution(q)
  PROVE  IInv' /\ Later
<1>0. HandlerOK(q) /\ LocalsOK /\ DatabaseType /\ DatabaseInv /\ OneReport
  BY OfRequest DEF IInv
<1>a. asked[q].by \in {"judge", "local"} /\ ForProblem(q) /\ ProblemOf(q) \in Problem
  BY <1>0, OfRequest DEF RecordSolution, HandlerOK, ForProblem
<1>b. PICK p \in Problem : p = ProblemOf(q)
  BY <1>a
<1>1. asked[q].by \in {"judge", "local"} /\ ForProblem(q) /\ p = ProblemOf(q)
  BY <1>a, <1>b
<1>2. /\ pc[q] = "record"
      /\ Completes(q)
      /\ p \notin Keys
      /\ Post(q, Reward, p)
      /\ rows' = [rows EXCEPT ![p] = Attempted(q)]
      /\ awarded' = [awarded EXCEPT ![q] = Reward]
      /\ pc' = [pc EXCEPT ![q] = "done"]
      /\ UNCHANGED <<enrolled, assigned, offered, asked, user, seen, targets>>
  BY <1>b, KeyAssumption DEF RecordSolution, Goto, FirstSolve, KeyTaken, teaching
<1>3. /\ rows' \in [Problem -> [Place -> Row]]
      /\ rows'[p] = Attempted(q)
      /\ \A o \in Problem \ {p} : rows'[o] = rows[o]
  BY <1>0, <1>1, <1>2, AttemptedRows DEF DatabaseType
<1>4. /\ ledger' \in Seq(Entry) /\ balance' \in Nat /\ earned' \in Nat
      /\ AuditTrail'
      /\ Keys' = Keys \cup {p}
      /\ AwardedOnce'
      /\ Len(ledger') = Len(ledger) + 1
      /\ \A i \in DOMAIN ledger : i \in DOMAIN ledger' /\ ledger'[i] = ledger[i]
      /\ Len(ledger') \in DOMAIN ledger'
      /\ ledger'[Len(ledger')].key = p
      /\ ledger'[Len(ledger')].amount = Reward
  <2>1. UserRow(q).balance + Reward \in Nat /\ Reward \in Int /\ ~KeyTaken(p)
    BY <1>2, UserRowType, AmountAssumption DEF KeyTaken
  <2> QED BY <1>2, <2>1, PostEffect
<1>5. Later
  <2>1. Len(ledger) <= Len(ledger')
    BY <1>4, <1>0 DEF DatabaseType
  <2> QED BY <2>1, <1>0, <1>1, <1>2, <1>3, <1>4, AttemptedRows DEF Later, DatabaseType
<1>6. SolvedIffAwarded'
  <2>1. \A o \in Problem \ {p} : Solved(o)' <=> Solved(o)
    BY <1>3 DEF Solved
  <2>2. Solved(p)'
    BY <1>1, <1>2, <1>3, AttemptedRows DEF Solved, Place
  <2> QED BY <2>1, <2>2, <1>0, <1>4 DEF DatabaseInv, SolvedIffAwarded
<1>7. NoForeignProgress'
  BY <1>0, <1>1, <1>2, <1>3, AttemptedRows DEF DatabaseInv, NoForeignProgress, HandlerOK
<1>8. DatabaseInv'
  BY <1>0, <1>2, <1>3, <1>4, <1>6, <1>7 DEF DatabaseInv, DatabaseType, OfferedNow, AssignedIds
<1>9. LocalsOK'
  BY <1>0, <1>2, AmountAssumption DEF LocalsOK, Label
<1>10. OnlyOf(q)
  BY <1>0, <1>2 DEF OnlyOf, LocalsOK
<1>11. HandlerOK(q)'
  <2>1. PrivateRow(q).solved => PrivateRow(q)'.solved
    BY <1>1, <1>2, <1>5 DEF Later, PrivateRow, ProblemOf, Place
  <2>2. ProblemOf(q)' = ProblemOf(q) /\ ForProblem(q)' = ForProblem(q)
    BY <1>2 DEF ProblemOf, ForProblem
  <2>3. awarded'[q] = Reward
    BY <1>0, <1>2 DEF LocalsOK
  <2> QED BY <2>1, <2>2, <2>3, <1>0, <1>1, <1>2, <1>4 DEF HandlerOK, LocalsOK
<1>12. \A r \in Request : HandlerOK(r)'
  BY <1>5, <1>10, <1>11, OthersKeep
<1>13. OneReport'
  <2>1. \A s \in Request : awarded[s] # 0 => ProblemOf(s) \in Keys
    BY DEF IInv, HandlerOK, Keys
  <2>2. \A s \in Request : s # q /\ awarded'[s] # 0 => awarded[s] # 0 /\ ProblemOf(s) # ProblemOf(q)
    BY <2>1, <1>1, <1>2, <1>10 DEF OnlyOf
  <2> QED BY <2>2, <1>0, <1>2 DEF OneReport, ProblemOf
<1> QED BY <1>5, <1>8, <1>9, <1>12, <1>13 DEF IInv

\* save_checkpoint makes rows but writes none of the columns modelled.
LEMMA SaveCheckpointStep ==
  ASSUME IInv, NEW q \in Request, SaveCheckpoint(q)
  PROVE  IInv' /\ Later
<1>0. HandlerOK(q) /\ LocalsOK /\ DatabaseType /\ DatabaseInv /\ OneReport
  BY OfRequest DEF IInv
<1>a. ForProblem(q) /\ ProblemOf(q) \in Problem
  BY <1>0, OfRequest DEF SaveCheckpoint, HandlerOK
<1>b. PICK p \in Problem : p = ProblemOf(q)
  BY <1>a
<1> DEFINE ensured == [place \in Place |->
               IF place \in CoursesAssigned(p) \cup {Private}
               THEN [rows[p][place] EXCEPT !.exists = TRUE] ELSE rows[p][place]]
<1>1. PICK after \in [Place -> Row] :
         /\ rows' = [rows EXCEPT ![p] = after]
         /\ \A place \in Place : after[place].solved = rows[p][place].solved
         /\ \A c \in Course : after[c].exists => rows[p][c].exists \/ c \in CoursesAssigned(p)
  <2>1. rows[p] \in [Place -> Row]
    BY <1>0 DEF DatabaseType
  <2>2. \A place \in Place :
           /\ ensured[place] \in Row
           /\ ensured[place].solved = rows[p][place].solved
           /\ ensured[place].exists =>
                 rows[p][place].exists \/ place \in CoursesAssigned(p) \cup {Private}
    BY <2>1 DEF Row
  <2>3. ensured \in [Place -> Row]
    BY <2>2
  <2>4. rows' = [rows EXCEPT ![p] = ensured]
    BY <1>b DEF SaveCheckpoint
  <2>5. \A c \in Course : c \in Place /\ c # Private
    BY PlaceAssumption DEF Place
  <2> QED BY <2>2, <2>3, <2>4, <2>5
<1>2. /\ pc' = [pc EXCEPT ![q] = "done"]
      /\ UNCHANGED <<ledger, balance, earned, enrolled, assigned, offered,
                     asked, user, seen, targets, awarded>>
  BY DEF SaveCheckpoint, Goto, locals, teaching
<1>3. /\ rows' \in [Problem -> [Place -> Row]]
      /\ \A o \in Problem, place \in Place : rows'[o][place].solved = rows[o][place].solved
      /\ \A o \in Problem, c \in Course :
            rows'[o][c].exists => rows[o][c].exists \/ (o = p /\ c \in CoursesAssigned(p))
  BY <1>0, <1>1 DEF DatabaseType
<1>4. Later
  BY <1>0, <1>2, <1>3 DEF Later, DatabaseType
<1>5. SolvedIffAwarded'
  <2>1. \A o \in Problem : Solved(o)' <=> Solved(o)
    BY <1>3 DEF Solved
  <2>2. Keys' = Keys
    BY <1>2 DEF Keys
  <2> QED BY <2>1, <2>2, <1>0 DEF DatabaseInv, SolvedIffAwarded
<1>6. NoForeignProgress'
  BY <1>0, <1>2, <1>3 DEF DatabaseInv, NoForeignProgress, CoursesAssigned, CoursesAttended,
     OfferedNow
<1>7. DatabaseInv'
  BY <1>0, <1>2, <1>3, <1>5, <1>6 DEF DatabaseInv, DatabaseType, AuditTrail, AwardedOnce,
     OfferedNow, AssignedIds
<1>8. LocalsOK'
  BY <1>0, <1>2 DEF LocalsOK, Label
<1>9. OnlyOf(q)
  BY <1>0, <1>2 DEF OnlyOf, LocalsOK
<1>10. HandlerOK(q)'
  <2>1. PrivateRow(q).solved => PrivateRow(q)'.solved
    BY <1>a, <1>2, <1>3 DEF PrivateRow, ProblemOf, Place
  <2>2. ProblemOf(q)' = ProblemOf(q) /\ ForProblem(q)' = ForProblem(q)
    BY <1>2 DEF ProblemOf, ForProblem
  <2> QED BY <2>1, <2>2, <1>0, <1>a, <1>2 DEF HandlerOK, LocalsOK
<1>11. \A r \in Request : HandlerOK(r)'
  BY <1>4, <1>9, <1>10, OthersKeep
<1>12. OneReport'
  BY <1>0, <1>2 DEF OneReport, ProblemOf
<1> QED BY <1>4, <1>7, <1>8, <1>11, <1>12 DEF IInv

\* update_nickname pays out of a balance that covers the cost.
LEMMA ChangeNicknameStep ==
  ASSUME IInv, NEW q \in Request, ChangeNickname(q)
  PROVE  IInv' /\ Later
<1>0. HandlerOK(q) /\ LocalsOK /\ DatabaseType /\ DatabaseInv /\ OneReport
  BY OfRequest DEF IInv
<1>1. /\ UserRow(q).balance >= Cost
      /\ Post(q, -Cost, NoKey)
      /\ pc' = [pc EXCEPT ![q] = "done"]
      /\ UNCHANGED <<rows, enrolled, assigned, offered, asked, user, seen, targets, awarded>>
  BY DEF ChangeNickname, Goto, locals, teaching
<1>2. /\ ledger' \in Seq(Entry) /\ balance' \in Nat /\ earned' \in Nat
      /\ AuditTrail'
      /\ Keys' = Keys \cup {NoKey}
      /\ AwardedOnce'
      /\ Len(ledger') = Len(ledger) + 1
      /\ \A i \in DOMAIN ledger : i \in DOMAIN ledger' /\ ledger'[i] = ledger[i]
  <2>1. UserRow(q).balance + (-Cost) \in Nat /\ -Cost \in Int /\ ~KeyTaken(NoKey)
    BY <1>1, UserRowType, AmountAssumption DEF KeyTaken
  <2> QED BY <1>1, <2>1, PostEffect
<1>3. Later
  <2>1. Len(ledger) <= Len(ledger')
    BY <1>2, <1>0 DEF DatabaseType
  <2> QED BY <2>1, <1>1, <1>2 DEF Later
<1>4. SolvedIffAwarded'
  BY <1>0, <1>1, <1>2, KeyAssumption DEF DatabaseInv, SolvedIffAwarded, Solved
<1>5. DatabaseInv'
  BY <1>0, <1>1, <1>2, <1>4 DEF DatabaseInv, DatabaseType, NoForeignProgress, OfferedNow,
     AssignedIds
<1>6. LocalsOK'
  BY <1>0, <1>1 DEF LocalsOK, Label
<1>7. OnlyOf(q)
  BY <1>0, <1>1 DEF OnlyOf, LocalsOK
<1>8. HandlerOK(q)'
  <2>1. PrivateRow(q)' = PrivateRow(q) /\ ProblemOf(q)' = ProblemOf(q) /\ ForProblem(q)' = ForProblem(q)
    BY <1>1 DEF PrivateRow, ProblemOf, ForProblem
  <2> QED BY <2>1, <1>0, <1>1, <1>2 DEF HandlerOK, LocalsOK
<1>9. \A r \in Request : HandlerOK(r)'
  BY <1>3, <1>7, <1>8, OthersKeep
<1>10. OneReport'
  BY <1>0, <1>1 DEF OneReport, ProblemOf
<1> QED BY <1>3, <1>5, <1>6, <1>9, <1>10 DEF IInv

\* Enrolment, its end and new assignments keep the row of the enrolment and what
\* the course has offered.
LEMMA TeachingStep ==
  ASSUME IInv, NEW c \in Course,
         Enroll(c) \/ Drop(c) \/ \E problems \in Assignment : CreateAssignment(c, problems)
  PROVE  IInv' /\ Later
<1>0. DatabaseType /\ DatabaseInv /\ LocalsOK /\ OneReport
  BY DEF IInv, DatabaseInv
<1>1. /\ enrolled' \in [Course -> {"none", "ACTIVE", "DROPPED"}]
      /\ \A d \in Course : enrolled[d] # "none" => enrolled'[d] # "none"
      /\ UNCHANGED <<ledger, balance, earned, rows, pc, asked, user, seen, targets, awarded>>
  BY <1>0 DEF Enroll, Drop, CreateAssignment, locals, DatabaseType
<1>2. ASSUME NEW d \in Course PROVE AssignedIds(d) \subseteq Problem
  BY <1>0, ListAssumption DEF AssignedIds, DatabaseType
<1>3. /\ assigned' \in [Course -> SUBSET Problem]
      /\ offered' \in [Course -> SUBSET Problem]
      /\ \A d \in Course : enrolled[d] # "none" => offered[d] \subseteq offered'[d]
      /\ OfferedNow'
  <2>1. CASE Enroll(c)
    <3>1. \A d \in Course : AssignedIds(d)' = AssignedIds(d)
      BY <2>1 DEF Enroll, AssignedIds
    <3>2. /\ offered' = [offered EXCEPT ![c] = AssignedIds(c)]
          /\ enrolled' = [enrolled EXCEPT ![c] = "ACTIVE"]
          /\ enrolled[c] = "none" /\ assigned' = assigned
      BY <2>1 DEF Enroll
    <3> QED BY <3>1, <3>2, <1>0, <1>2 DEF DatabaseType, DatabaseInv, OfferedNow
  <2>2. CASE Drop(c)
    BY <2>2, <1>0 DEF Drop, AssignedIds, DatabaseType, DatabaseInv, OfferedNow
  <2>3. ASSUME NEW problems \in Assignment, CreateAssignment(c, problems)
        PROVE  <1>3!1 /\ <1>3!2 /\ <1>3!3 /\ <1>3!4
    <3>1. assigned' \in [Course -> SUBSET Problem]
      BY <2>3, <1>0, ListAssumption DEF CreateAssignment, DatabaseType
    <3>2. AssignedIds(c)' \subseteq Problem
      BY <3>1, ListAssumption DEF AssignedIds
    <3>3. \A d \in Course \ {c} : AssignedIds(d)' = AssignedIds(d)
      BY <2>3, <1>0 DEF CreateAssignment, AssignedIds, DatabaseType
    <3>4. /\ offered' = [offered EXCEPT ![c] =
                            IF enrolled[c] = "none" THEN @ ELSE @ \cup AssignedIds(c)']
          /\ enrolled' = enrolled
      BY <2>3 DEF CreateAssignment
    <3> QED BY <3>1, <3>2, <3>3, <3>4, <1>0 DEF DatabaseType, DatabaseInv, OfferedNow
  <2> QED BY <2>1, <2>2, <2>3
<1>4. Later
  BY <1>0, <1>1, <1>3 DEF Later, DatabaseType
<1>5. NoForeignProgress'
  BY <1>0, <1>1, <1>3 DEF DatabaseInv, NoForeignProgress
<1>6. DatabaseInv'
  BY <1>0, <1>1, <1>3, <1>5 DEF DatabaseInv, DatabaseType, AuditTrail, SolvedIffAwarded,
     Solved, Keys, AwardedOnce
<1>7. LocalsOK' /\ OneReport'
  BY <1>0, <1>1 DEF LocalsOK, OneReport, ProblemOf
<1>8. ASSUME NEW r \in Request PROVE HandlerOK(r)'
  <2>1. r # 0 /\ OnlyOf(0)
    BY <1>1, MaxRequestsAssumption DEF OnlyOf
  <2> QED BY <2>1, <1>4, OthersKeep
<1> QED BY <1>4, <1>6, <1>7, <1>8 DEF IInv

-----------------------------------------------------------------------------
(* Init, Next and the theorems.                                            *)

\* The initial state satisfies the invariant.
LEMMA InitInv == ASSUME Init PROVE IInv
<1>1. DatabaseInv
  BY DEF Init, DatabaseInv, DatabaseType, AuditTrail, SolvedIffAwarded, Solved, Keys,
         AwardedOnce, NoForeignProgress, OfferedNow, Row, Absent, Place
<1>2. LocalsOK
  BY DEF Init, LocalsOK, Label, Bodies, Account, Expired, Row, Absent
<1>3. \A r \in Request : HandlerOK(r)
  BY DEF Init, HandlerOK, Absent
<1>4. OneReport
  BY DEF Init, OneReport
<1> QED BY <1>1, <1>2, <1>3, <1>4 DEF IInv

\* Every step keeps the invariant and takes nothing back.
LEMMA NextInv ==
  ASSUME IInv, [Next]_vars
  PROVE  IInv' /\ Later
<1>1. ASSUME NEW q \in Request, NEW body \in Body, Arrive(q, body) PROVE IInv' /\ Later
  BY <1>1, ArriveStep, ReadKeepsInv
<1>2. ASSUME NEW q \in Request, Handle(q) PROVE IInv' /\ Later
  BY <1>2, ReadKeepsInv, LoadUserStep, CheckLocalStep, LoadEnrolmentsStep,
     LoadCoursesStep, ReadRowStep,
     EnsureCollisionStep, AwardCollisionStep, RefuseNicknameStep, KeepNicknameStep, RecordAttemptStep,
     RecordSolutionStep, SaveCheckpointStep, ChangeNicknameStep DEF Handle
<1>3. ASSUME NEW q \in Request, Fail(q) PROVE IInv' /\ Later
  BY <1>3, FailStep, ReadKeepsInv
<1>4. CASE UNCHANGED vars
  BY <1>4 DEF vars, IInv, DatabaseInv, DatabaseType, AuditTrail, SolvedIffAwarded, Solved, Keys,
     AwardedOnce, NoForeignProgress, OfferedNow, AssignedIds, LocalsOK, HandlerOK, OneReport, ProblemOf, PrivateRow,
     ForProblem, Later
<1> QED BY <1>1, <1>2, <1>3, <1>4, TeachingStep DEF Next

\* The invariant holds in every reachable state.
THEOREM Invariance == Spec => []IInv
<1>1. Init => IInv
  BY InitInv
<1>2. IInv /\ [Next]_vars => IInv'
  BY NextInv
<1> QED BY <1>1, <1>2, PTL DEF Spec

\* The columns have their types and the balance is never negative.
THEOREM TypeCorrect == Spec => []TypeOK
<1>1. IInv => TypeOK
  BY DEF IInv, DatabaseInv, DatabaseType, Entry, LocalsOK, TypeOK
<1> QED BY <1>1, Invariance, PTL

\* The balance is the balance_after of the last ledger row (acorns.post).
THEOREM Audited == Spec => []AuditTrail
<1>1. IInv => AuditTrail
  BY DEF IInv, DatabaseInv
<1> QED BY <1>1, Invariance, PTL

\* A problem is paid for exactly when it is solved (record_judge_result).
THEOREM PaidWhenSolved == Spec => []SolvedIffAwarded
<1>1. IInv => SolvedIffAwarded
  BY DEF IInv, DatabaseInv
<1> QED BY <1>1, Invariance, PTL

\* A problem is paid for once (idempotency_key).
THEOREM PaidOnce == Spec => []AwardedOnce
<1>1. IInv => AwardedOnce
  BY DEF IInv, DatabaseInv
<1> QED BY <1>1, Invariance, PTL

\* An award is reported once, and what is reported was paid (awarded_acorns).
THEOREM ReportedOnce == Spec => []AwardsReportedOnce
<1>1. IInv => AwardsReportedOnce
  BY DEF IInv, HandlerOK, OneReport, AwardsReportedOnce
<1> QED BY <1>1, Invariance, PTL

\* Progress in a course is of students on its record, and of problems it assigned
\* while they were (course_ids_assigned, create_assignment).
THEOREM Enrolled == Spec => []NoForeignProgress
<1>1. IInv => NoForeignProgress
  BY DEF IInv, DatabaseInv
<1> QED BY <1>1, Invariance, PTL

\* SOLVED is final and the ledger only grows.
THEOREM Final == Spec => SolvedIsFinal
<1>1. IInv /\ [Next]_vars =>
        [/\ \A p \in Problem, place \in Place :
               rows[p][place].solved => rows'[p][place].solved
         /\ Len(ledger) <= Len(ledger')
         /\ \A i \in DOMAIN ledger : ledger'[i] = ledger[i]]_vars
  BY NextInv DEF Later
<1> QED BY <1>1, Invariance, PTL DEF Spec, SolvedIsFinal
=============================================================================
