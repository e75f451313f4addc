----------------------------- MODULE JudgeProofs -----------------------------
(***************************************************************************)
(* Proofs about Judge and ProblemGenerator for any number of tests, any    *)
(* limits and any number of retries, with Docker failing anywhere.         *)
(*                                                                         *)
(* The argument: what the harness printed is what its children did         *)
(* (InsideInv), and stays so, because nothing moves in a container that    *)
(* has printed; the host knows why it is where it is (HostInv).  The       *)
(* answer is then the verdict on what was done.                            *)
(***************************************************************************)
EXTENDS ProblemGenerator, FiniteSetTheorems, TLAPS

Did == {seen[i] : i \in DOMAIN seen}
Late == ~(faulted = {} /\ (Roomy(job) \/ clock < Deadline(job)))

JudgeType ==
    /\ job \in Job
    /\ host \in {"idle", "compile", "launch", "wait", "kill", "logs", "remove", "conclude",
                 "answered"}
    /\ box \in {"none", "created", "running", "exited"}
    /\ clock \in Nat
    /\ harness \in {"boot", "check", "cases", "hung", "exited"}
    /\ results \in Seq(Ending)
    /\ seen \in Seq(Outcome)
    /\ printed \in {"nothing", "results", "timeout", "runtime", "garbage"}
    /\ outcome \in Status \cup {"none"}
    /\ answer \in [status : Status \cup {"none"}, passed : Nat, failed : SUBSET Nat]

\* The function was found, if it had to be, and every case has its result.
Collected == seen = IF job.check = "function_call" THEN <<"good">> \o results ELSE results

\* The children so far, and the time that they and the start of the harness may have taken.
Begun == harness # "boot"
Paced == faulted = {} /\ Roomy(job) =>
            clock <= (IF Begun THEN Startup ELSE 0) + TimeLimit * Len(seen)

\* What the harness has printed, or has not, says what its children did.
InsideInv ==
    /\ Paced
    /\ Len(seen) <= Children(job)
    /\ harness = "cases" => Len(results) <= Tests(job)
    /\ harness = "hung" => "hang" \in faulted
    /\ printed # "nothing" => box \in {"exited", "none"}
    /\ harness \in {"boot", "check"} => seen = << >> /\ results = << >>
    /\ harness = "check" => job.check = "function_call"
    /\ harness = "cases" => Collected
    /\ printed = "results" => Collected /\ Len(results) = Tests(job)
    /\ printed = "timeout" => "timeout" \in Did
    /\ printed = "runtime" => job.check = "function_call" /\ seen = <<"died">>
    /\ printed = "garbage" => "odd" \in Did \/ ~Whole(job)

\* Why the host is where it is, and where the container is then.
HostInv ==
    /\ host \in {"idle", "compile", "launch"} =>
          box = "none" /\ printed = "nothing" /\ outcome = "none"
    /\ host \in {"wait", "logs"} /\ box = "exited" => printed # "nothing" \/ "harness" \in faulted
    /\ host = "wait" => box \in {"running", "exited"}
    /\ host = "logs" => box = "exited"
    /\ host = "kill" => Late /\ box \in {"running", "exited"}
    /\ host = "conclude" => box = "none" \/ "remove" \in faulted

\* What a status of the sandbox, or of the answer, rests on.
Because(status) ==
    /\ status \in {"OK", "ACCEPTED", "WRONG_ANSWER"} => printed = "results"
    /\ status = "TIME_LIMIT" => "timeout" \in Did \/ Late
    /\ status = "RUNTIME_ERROR" => printed = "runtime"
    /\ status = "INTERNAL_ERROR" =>
          faulted \cap {"launch", "harness"} # {} \/ "odd" \in Did \/ ~Whole(job)
    /\ status = "EXCEPTION" => Late

\* The verdict on results that were printed.
Score ==
    answer = IF job.mode = "capture"
             THEN [status |-> "OK", passed |-> Cardinality(Good), failed |-> Failed]
             ELSE IF Cardinality(Good) = Tests(job)
             THEN [status |-> "ACCEPTED", passed |-> Cardinality(Good), failed |-> {}]
             ELSE [status |-> "WRONG_ANSWER", passed |-> Cardinality(Good),
                   failed |-> IF job.mode = "submit" THEN Failed ELSE {}]

AnswerInv ==
    /\ host \in {"remove", "conclude"} => outcome # "none" /\ outcome \notin {"ACCEPTED", "WRONG_ANSWER"}
    /\ host \in {"remove", "conclude"} => Because(outcome)
    /\ host = "answered" =>
          /\ answer.status # "none" /\ Because(answer.status)
          /\ answer.status \in Scored => Score
          /\ ContainersAreRemoved

CallInv == JudgeType /\ InsideInv /\ HostInv /\ AnswerInv

GeneratorInv ==
    /\ stage \in {"idle", "ask", "validate", "capture", "reported"}
    /\ attempt \in Nat /\ attempt <= MaxRetries + 1
    /\ template \in Templates
    /\ stage = "capture" =>
          /\ job = CaptureJob(template, attempt)
          /\ ~template.repeats /\ host # "idle"
    /\ stage # "reported" => report = Refused
    /\ stage = "reported" => report = Refused \/
          /\ report = [valid |-> TRUE, expected |-> Expected]
          /\ job = CaptureJob(template, attempt)
          /\ ~template.repeats
          /\ host = "answered" /\ Passes

IInv == CallInv /\ GeneratorInv

-----------------------------------------------------------------------------
(* The container.                                                          *)

\* The limit of a job is a time, and a job has a number of tests.
LEMMA JobNumbers == \A j \in Job : Tests(j) \in Nat /\ Deadline(j) \in Nat /\ Children(j) \in Nat
<1>1. \A j \in Job : Tests(j) \in Nat
  BY TestAssumption DEF Tests, Job
<1>2. \A n \in Nat : TimeLimit * Most(n, 1) + Overhead \in Nat
  BY TimeAssumption DEF Most
<1> QED
  BY <1>1, <1>2, TimeAssumption DEF Deadline, Least, Children

\* A multiple of more is more.
LEMMA Multiples ==
  ASSUME NEW a \in Nat, NEW b \in Nat, a <= b
  PROVE  TimeLimit * a \in Nat /\ TimeLimit * a <= TimeLimit * b
<1>1. TimeLimit \in Nat
  BY TimeAssumption
<1>2. PICK k \in Nat : b = a + k
  <2>1. b - a \in Nat /\ b = a + (b - a)
    OBVIOUS
  <2> QED
    BY <2>1
<1>3. TimeLimit * a \in Nat /\ TimeLimit * k \in Nat
  BY <1>1
<1>4. TimeLimit * b = TimeLimit * a + TimeLimit * k
  BY <1>1, <1>2
<1> QED
  BY <1>3, <1>4

\* On a machine that works, a Deadline with room for everybody is not reached.
LEMMA DeadlineIsLate ==
  ASSUME JudgeType, InsideInv, ~Late
  PROVE  clock < Deadline(job)
<1>1. /\ Children(job) \in Nat /\ Deadline(job) \in Nat /\ clock \in Nat
      /\ Len(seen) \in Nat /\ Startup \in Nat
  BY JobNumbers, TimeAssumption DEF JudgeType
<1>2. CASE ~(clock < Deadline(job))
  <2>1. faulted = {} /\ Roomy(job)
    BY <1>2 DEF Late
  <2>2. clock <= (IF Begun THEN Startup ELSE 0) + TimeLimit * Len(seen)
    BY <2>1 DEF InsideInv, Paced
  <2>3. TimeLimit * Len(seen) \in Nat /\ TimeLimit * Len(seen) <= TimeLimit * Children(job)
    BY <1>1, Multiples DEF InsideInv
  <2>4. TimeLimit * Children(job) \in Nat
    BY <1>1, Multiples
  <2>5. Startup + TimeLimit * Children(job) < Deadline(job)
    BY <2>1 DEF Roomy
  <2> QED
    BY <1>1, <2>2, <2>3, <2>4, <2>5
<1> QED
  BY <1>2

\* There is room for the child that starts.
LEMMA RoomForOne ==
  ASSUME JudgeType, InsideInv,
         harness = "check" \/ (harness = "cases" /\ Len(results) < Tests(job))
  PROVE  Len(seen) + 1 <= Children(job) /\ Len(seen) \in Nat
<1>1. Tests(job) \in Nat /\ results \in Seq(Ending) /\ seen \in Seq(Outcome)
  BY JobNumbers DEF JudgeType
<1>2. CASE harness = "check"
  <2>1. seen = << >> /\ job.check = "function_call"
    BY <1>2 DEF InsideInv
  <2> QED
    BY <1>1, <2>1 DEF Children
<1>3. CASE harness = "cases" /\ Len(results) < Tests(job)
  <2>1. Collected
    BY <1>3 DEF InsideInv
  <2>2. "good" \in Ending
    BY DEF Ending
  <2>3. Len(<<"good">> \o results) = 1 + Len(results)
    BY <1>1, <2>2
  <2> QED
    BY <1>1, <1>3, <2>1, <2>3 DEF Children, Collected
<1> QED
  BY <1>2, <1>3

\* A child more, and the time it may take.
LEMMA ChildPaced ==
  ASSUME JudgeType, InsideInv, NEW d \in Nat, d <= TimeLimit, Spend(d), NEW o \in Outcome,
         seen' = Append(seen, o), UNCHANGED <<job, faulted>>, Begun, Begun',
         Len(seen) + 1 <= Children(job)
  PROVE  Paced' /\ Len(seen') <= Children(job')
<1>1. seen \in Seq(Outcome) /\ clock \in Nat /\ TimeLimit \in Nat /\ Startup \in Nat
  BY TimeAssumption DEF JudgeType
<1>2. Len(seen') = Len(seen) + 1 /\ Len(seen) \in Nat
  BY <1>1
<1>3. TimeLimit * Len(seen') = TimeLimit * Len(seen) + TimeLimit /\ TimeLimit * Len(seen) \in Nat
  BY <1>1, <1>2
<1>4. ASSUME faulted' = {}, Roomy(job)'
      PROVE  clock' <= Startup + TimeLimit * Len(seen')
  <2>1. faulted = {} /\ Roomy(job)
    BY <1>4 DEF Roomy, Deadline, Children, Tests
  <2>2. clock <= Startup + TimeLimit * Len(seen)
    BY <2>1 DEF InsideInv, Paced
  <2>3. clock' = clock + d
    BY DEF Spend
  <2> QED
    BY <1>1, <1>3, <2>2, <2>3
<1> QED
  BY <1>2, <1>4 DEF Paced

\* One more outcome is one more outcome.
LEMMA SeenGrows ==
  ASSUME JudgeType, NEW o \in Outcome, seen' = Append(seen, o)
  PROVE  seen' \in Seq(Outcome) /\ Did' = Did \cup {o}
<1>1. seen \in Seq(Outcome)
  BY DEF JudgeType
<1>2. /\ DOMAIN seen' = DOMAIN seen \cup {Len(seen) + 1}
      /\ \A i \in DOMAIN seen : seen'[i] = seen[i]
      /\ seen'[Len(seen) + 1] = o
  BY <1>1
<1> QED
  BY <1>1, <1>2 DEF Did

\* What a step in the container does for the host: it may end, and it loses nothing.
Onward ==
    /\ box = "running" /\ box' \in {"running", "exited"}
    /\ UNCHANGED call
    /\ Did \subseteq Did' /\ faulted \subseteq faulted'
    /\ clock' \in Nat /\ clock' >= clock
    /\ box' = "exited" => printed' # "nothing" \/ "harness" \in faulted'

\* What a status rests on, in the state a step leads to.
BecauseNext(status) ==
    /\ status \in {"OK", "ACCEPTED", "WRONG_ANSWER"} => printed' = "results"
    /\ status = "TIME_LIMIT" => "timeout" \in Did' \/ Late'
    /\ status = "RUNTIME_ERROR" => printed' = "runtime"
    /\ status = "INTERNAL_ERROR" =>
          faulted' \cap {"launch", "harness"} # {} \/ "odd" \in Did' \/ ~Whole(job')
    /\ status = "EXCEPTION" => Late'

\* A call that is late stays late.
LEMMA LateStays ==
  ASSUME JudgeType, UNCHANGED job, clock' \in Nat, clock' >= clock, faulted \subseteq faulted'
  PROVE  Late => Late'
<1>1. clock \in Nat /\ Deadline(job) \in Nat
  BY JobNumbers DEF JudgeType
<1>2. Deadline(job)' = Deadline(job) /\ Roomy(job)' = Roomy(job)
  BY DEF Deadline, Tests, Roomy, Children
<1> QED
  BY <1>1, <1>2 DEF Late

\* Such a step does not disturb what the host knows.
LEMMA OnwardKeeps ==
  ASSUME CallInv, Onward
  PROVE  HostInv' /\ AnswerInv'
<1>1. printed = "nothing"
  BY DEF CallInv, InsideInv, Onward
<1>2. Late => Late'
  BY LateStays DEF CallInv, Onward, call
<1>3. HostInv'
  BY <1>2 DEF CallInv, HostInv, Onward, call
<1>4. \A status : Because(status) => BecauseNext(status)
  BY <1>1, <1>2 DEF Because, BecauseNext, Onward, call
<1>5. UNCHANGED <<job, host, outcome, answer>>
  BY DEF Onward, call
<1>6. host = "answered" => answer.status \notin Scored /\ faulted' \cap {"start", "remove"} # {}
  BY <1>1 DEF CallInv, AnswerInv, Because, Scored, ContainersAreRemoved, Answered, Onward
<1>7. host \in {"remove", "conclude"} => BecauseNext(outcome)
  BY <1>4 DEF CallInv, AnswerInv
<1>8. host = "answered" => BecauseNext(answer.status)
  BY <1>4 DEF CallInv, AnswerInv
<1>9. host' \in {"remove", "conclude"} => Because(outcome)'
  BY <1>5, <1>7 DEF Because, BecauseNext
<1>10. host' = "answered" => Because(answer.status)'
  BY <1>5, <1>8 DEF Because, BecauseNext
<1> QED
  BY <1>3, <1>5, <1>6, <1>9, <1>10 DEF CallInv, AnswerInv, ContainersAreRemoved

\* A child that ends late costs no more than the time left.
LEMMA SpendTypes ==
  ASSUME JudgeType, NEW d \in Nat, Spend(d)
  PROVE  clock' \in Nat /\ clock' >= clock
  BY DEF JudgeType, Spend

\* The children's times are times.
LEMMA DurationsAreTimes == Durations \subseteq Nat /\ TimeLimit \in Nat
  BY TimeAssumption

\* A child that times out is on record, and the harness says so.
LEMMA ChildTimesOutKeeps ==
  ASSUME CallInv, ChildTimesOut, UNCHANGED <<call, faulted>>, box = "running", Begun,
         Len(seen) + 1 <= Children(job)
  PROVE  JudgeType' /\ InsideInv' /\ Onward
<1>1. clock' \in Nat /\ clock' >= clock
  BY SpendTypes, DurationsAreTimes DEF ChildTimesOut, CallInv
<1>2. seen' \in Seq(Outcome) /\ Did' = Did \cup {"timeout"}
  BY SeenGrows DEF ChildTimesOut, CallInv, Outcome
<1>3. printed' = "timeout" /\ box' = "exited" /\ harness' = "exited" /\ results' = results
  BY DEF ChildTimesOut, PrintLine
<1>4. JudgeType'
  BY <1>1, <1>2, <1>3 DEF CallInv, JudgeType, call
<1>5. Paced' /\ Len(seen') <= Children(job')
  <2>1. "timeout" \in Outcome /\ Begun' /\ job' = job
    BY <1>3 DEF Outcome, Begun, call
  <2> QED
    BY <2>1, ChildPaced, DurationsAreTimes DEF ChildTimesOut, CallInv
<1>6. InsideInv'
  BY <1>2, <1>3, <1>5 DEF InsideInv
<1> QED
  BY <1>1, <1>2, <1>3, <1>4, <1>6 DEF Onward

\* Nothing is printed by a harness whose container runs.
LEMMA NothingPrinted ==
  ASSUME CallInv, box = "running"
  PROVE  printed = "nothing"
  BY DEF CallInv, InsideInv

\* The harness starts with nothing on record.
LEMMA BootKeeps ==
  ASSUME CallInv, Boot
  PROVE  JudgeType' /\ InsideInv' /\ Onward
<1>0. PICK d \in 0 .. Startup : Spend(d)
  BY DEF Boot
<1>1. clock' \in Nat /\ clock' >= clock /\ clock' = clock + d
  BY <1>0, SpendTypes, TimeAssumption DEF CallInv, Spend
<1>2. box = "running" /\ harness = "boot" /\ printed = "nothing"
  BY NothingPrinted DEF Boot
<1>3. UNCHANGED <<call, box, results, printed, seen, faulted>>
  BY DEF Boot, history
<1>4. harness' = IF job.check = "function_call" THEN "check" ELSE "cases"
  BY DEF Boot
<1>5. JudgeType'
  BY <1>1, <1>3, <1>4 DEF CallInv, JudgeType, call
<1>6. seen = << >> /\ results = << >> /\ Tests(job) \in Nat /\ Children(job) \in Nat
  BY <1>2, JobNumbers DEF CallInv, InsideInv, JudgeType
<1>7. Paced'
  <2>1. TimeLimit * Len(seen) = 0 /\ Startup \in Nat /\ clock \in Nat
    BY <1>6, TimeAssumption DEF CallInv, JudgeType
  <2>2. Roomy(job)' = Roomy(job) /\ seen' = seen /\ Begun'
    BY <1>3, <1>4 DEF Roomy, Deadline, Children, Tests, call, Begun
  <2>3. faulted = {} /\ Roomy(job) => clock <= 0
    BY <1>2, <2>1 DEF CallInv, InsideInv, Paced, Begun
  <2> QED
    BY <1>0, <1>1, <1>3, <2>1, <2>2, <2>3 DEF Paced
<1>8. InsideInv'
  <2>1. job' = job /\ Children(job') = Children(job) /\ Tests(job') = Tests(job)
    BY <1>3 DEF call
  <2>2. Len(seen') <= Children(job') /\ Len(results') <= Tests(job')
    BY <1>3, <1>6, <2>1
  <2> QED
    BY <1>2, <1>3, <1>4, <1>6, <1>7, <2>1, <2>2 DEF InsideInv, Collected
<1>9. Did' = Did
  BY <1>3 DEF Did
<1> QED
  BY <1>1, <1>2, <1>3, <1>5, <1>8, <1>9 DEF Onward

\* A harness that lacks what it needs says so in a traceback.
LEMMA HarnessRaisesKeeps ==
  ASSUME CallInv, HarnessRaises
  PROVE  JudgeType' /\ InsideInv' /\ Onward
<1>1. /\ box = "running" /\ printed' = "garbage" /\ box' = "exited" /\ harness' = "exited"
      /\ UNCHANGED <<job, host, outcome, answer, clock, results, seen, faulted>>
  BY DEF HarnessRaises, PrintLine, call, history
<1>2. JudgeType'
  BY <1>1 DEF CallInv, JudgeType
<1>3. ~Whole(job) /\ Begun
  <2>1. CASE harness = "check" /\ ~job.named
    BY <2>1 DEF CallInv, InsideInv, Whole, Begun
  <2>2. CASE harness = "cases" /\ job.gap = Len(results) + 1
    <3>1. Len(results) \in Nat
      BY DEF CallInv, JudgeType
    <3> QED
      BY <2>2, <3>1 DEF Whole, Begun
  <2> QED
    BY <2>1, <2>2 DEF HarnessRaises, Lacking
<1>4. Paced'
  <2>1. Roomy(job)' = Roomy(job) /\ Begun'
    BY <1>1 DEF Roomy, Deadline, Children, Tests, Begun
  <2> QED
    BY <1>1, <1>3, <2>1 DEF CallInv, InsideInv, Paced
<1>5. ~Whole(job') /\ Len(seen') <= Children(job')
  BY <1>1, <1>3 DEF CallInv, InsideInv
<1>6. InsideInv'
  BY <1>1, <1>4, <1>5 DEF InsideInv
<1>7. Did' = Did /\ clock' \in Nat /\ clock' >= clock
  BY <1>1 DEF Did, CallInv, JudgeType
<1> QED
  BY <1>1, <1>2, <1>6, <1>7 DEF Onward, call

\* The child that looks for the function is the first on record; if it finds none, the last.
LEMMA CheckFunctionKeeps ==
  ASSUME CallInv, CheckFunction
  PROVE  JudgeType' /\ InsideInv' /\ Onward
<1>1. box = "running" /\ harness = "check" /\ printed = "nothing" /\ UNCHANGED <<call, faulted>>
  BY NothingPrinted DEF CheckFunction
<1>0. Len(seen) + 1 <= Children(job) /\ Len(seen) \in Nat /\ Begun
  <2>1. seen = << >> /\ job.check = "function_call" /\ Tests(job) \in Nat
    BY <1>1, JobNumbers DEF CallInv, InsideInv, JudgeType
  <2>2. Children(job) = Tests(job) + 1 /\ Len(seen) = 0
    BY <2>1 DEF Children
  <2> QED
    BY <1>1, <2>1, <2>2 DEF Begun
<1>2. CASE ChildTimesOut
  BY <1>0, <1>1, <1>2, ChildTimesOutKeeps
<1>3. CASE ~ChildTimesOut
  <2>1. PICK d \in Durations \ {TimeLimit} : Spend(d)
    BY <1>3 DEF CheckFunction
  <2>2. PICK o \in {"good", "died", "odd"} :
          /\ seen' = Append(seen, o)
          /\ CASE o = "good" -> harness' = "cases" /\ UNCHANGED <<printed, box>>
               [] o = "died" -> PrintLine("runtime")
               [] o = "odd" -> PrintLine("garbage")
    BY <1>3 DEF CheckFunction
  <2>3. UNCHANGED results
    BY <1>3 DEF CheckFunction
  <2>4. clock' \in Nat /\ clock' >= clock
    BY <2>1, SpendTypes, DurationsAreTimes DEF CallInv
  <2>5. seen' \in Seq(Outcome) /\ Did' = Did \cup {o}
    BY <2>2, SeenGrows DEF CallInv, Outcome, Ending
  <2>6. seen = << >> /\ results = << >> /\ job.check = "function_call"
    BY <1>1 DEF CallInv, InsideInv
  <2>7. seen' = <<o>> /\ results' = << >>
    BY <2>2, <2>3, <2>6
  <2>8. job' = job /\ host' = host /\ outcome' = outcome /\ answer' = answer
    BY <1>1 DEF call
  <2>9. CASE o = "good"
    <3>1. harness' = "cases" /\ printed' = "nothing" /\ box' = "running"
      BY <1>1, <2>2, <2>9
    <3>2. JudgeType'
      BY <1>1, <2>3, <2>4, <2>5, <2>8, <3>1 DEF CallInv, JudgeType
    <3>3. Collected'
      BY <2>6, <2>7, <2>8, <2>9 DEF Collected
    <3>5. Paced' /\ Len(seen') <= Children(job')
      <4>1. Begun' /\ o \in Outcome /\ d \in Nat /\ d <= TimeLimit
        BY <2>1, <3>1, TimeAssumption DEF Begun, Outcome, Ending
      <4> QED
        BY <1>0, <1>1, <2>1, <2>2, <2>8, <4>1, ChildPaced DEF CallInv
    <3>6. Len(results') <= Tests(job')
      BY <2>7, <2>8, JobNumbers DEF CallInv, JudgeType
    <3>4. InsideInv'
      BY <3>1, <3>3, <3>5, <3>6 DEF InsideInv
    <3> QED
      BY <1>1, <2>4, <2>5, <3>1, <3>2, <3>4 DEF Onward
  <2>10. CASE o # "good"
    <3>1. /\ harness' = "exited" /\ box' = "exited"
          /\ printed' = IF o = "died" THEN "runtime" ELSE "garbage"
      BY <2>2, <2>10 DEF PrintLine
    <3>2. JudgeType'
      BY <1>1, <2>3, <2>4, <2>5, <2>8, <3>1 DEF CallInv, JudgeType
    <3>4. Paced' /\ Len(seen') <= Children(job')
      <4>1. Begun' /\ o \in Outcome /\ d \in Nat /\ d <= TimeLimit
        BY <2>1, <3>1, TimeAssumption DEF Begun, Outcome, Ending
      <4> QED
        BY <1>0, <1>1, <2>1, <2>2, <2>8, <4>1, ChildPaced DEF CallInv
    <3>3. InsideInv'
      BY <2>2, <2>5, <2>6, <2>7, <2>8, <2>10, <3>1, <3>4 DEF InsideInv
    <3> QED
      BY <1>1, <2>4, <2>5, <3>1, <3>2, <3>3 DEF Onward
  <2> QED
    BY <2>9, <2>10
<1> QED
  BY <1>2, <1>3

\* One more case, one more result; or the end of the harness, with its reason on record.
LEMMA RunCaseKeeps ==
  ASSUME CallInv, RunCase
  PROVE  JudgeType' /\ InsideInv' /\ Onward
<1>1. box = "running" /\ harness = "cases" /\ printed = "nothing" /\ UNCHANGED <<call, faulted>>
  BY NothingPrinted DEF RunCase
<1>0. /\ Len(seen) + 1 <= Children(job) /\ Len(seen) \in Nat /\ Begun
      /\ Len(results) < Tests(job)
  <2>1. Len(results) < Tests(job)
    BY DEF RunCase
  <2> QED
    BY <1>1, <2>1, RoomForOne DEF CallInv, Begun
<1>2. CASE ChildTimesOut
  BY <1>0, <1>1, <1>2, ChildTimesOutKeeps
<1>3. CASE ~ChildTimesOut
  <2>1. PICK d \in Durations \ {TimeLimit} : Spend(d)
    BY <1>3 DEF RunCase
  <2>2. PICK o \in CaseEnding :
          /\ seen' = Append(seen, o)
          /\ IF Survives(o)
             THEN /\ results' = Append(results, o)
                  /\ UNCHANGED <<harness, printed, box>>
             ELSE PrintLine("garbage") /\ UNCHANGED results
    BY <1>3 DEF RunCase
  <2>3. o \in Ending
    BY <2>2 DEF CaseEnding
  <2>4. clock' \in Nat /\ clock' >= clock
    BY <2>1, SpendTypes, DurationsAreTimes DEF CallInv
  <2>5. seen' \in Seq(Outcome) /\ Did' = Did \cup {o}
    BY <2>2, <2>3, SeenGrows DEF CallInv, Outcome
  <2>6. Collected /\ results \in Seq(Ending)
    BY <1>1 DEF CallInv, InsideInv, JudgeType
  <2>8. job' = job /\ host' = host /\ outcome' = outcome /\ answer' = answer
    BY <1>1 DEF call
  <2>9. CASE Survives(o)
    <3>1. harness' = "cases" /\ printed' = "nothing" /\ box' = "running"
      BY <1>1, <2>2, <2>9
    <3>2. results' = Append(results, o) /\ results' \in Seq(Ending)
      BY <2>2, <2>3, <2>6, <2>9
    <3>3. JudgeType'
      BY <1>1, <2>4, <2>5, <2>8, <3>1, <3>2 DEF CallInv, JudgeType
    <3>4. Append(<<"good">> \o results, o) = <<"good">> \o Append(results, o)
      BY <2>3, <2>6 DEF Ending
    <3>5. Collected'
      BY <2>2, <2>6, <2>8, <3>2, <3>4 DEF Collected
    <3>7. Paced' /\ Len(seen') <= Children(job')
      <4>1. Begun' /\ o \in Outcome /\ d \in Nat /\ d <= TimeLimit
        BY <2>1, <2>3, <3>1, TimeAssumption DEF Begun, Outcome
      <4> QED
        BY <1>0, <1>1, <2>1, <2>2, <2>8, <4>1, ChildPaced DEF CallInv
    <3>8. Len(results') <= Tests(job')
      <4>1. Len(results') = Len(results) + 1 /\ Len(results) \in Nat /\ Tests(job) \in Nat
        BY <2>6, <3>2, JobNumbers DEF CallInv, JudgeType
      <4> QED
        BY <1>0, <2>8, <4>1
    <3>6. InsideInv'
      BY <3>1, <3>5, <3>7, <3>8 DEF InsideInv
    <3> QED
      BY <1>1, <2>4, <2>5, <3>1, <3>3, <3>6 DEF Onward
  <2>10. CASE ~Survives(o)
    <3>1. /\ harness' = "exited" /\ box' = "exited" /\ printed' = "garbage"
          /\ results' = results /\ o = "odd"
      BY <2>2, <2>10 DEF PrintLine, Survives
    <3>2. JudgeType'
      BY <1>1, <2>4, <2>5, <2>8, <3>1 DEF CallInv, JudgeType
    <3>4. Paced' /\ Len(seen') <= Children(job')
      <4>1. Begun' /\ o \in Outcome /\ d \in Nat /\ d <= TimeLimit
        BY <2>1, <2>3, <3>1, TimeAssumption DEF Begun, Outcome
      <4> QED
        BY <1>0, <1>1, <2>1, <2>2, <2>8, <4>1, ChildPaced DEF CallInv
    <3>3. InsideInv'
      BY <2>5, <3>1, <3>4 DEF InsideInv
    <3> QED
      BY <1>1, <2>4, <2>5, <3>1, <3>2, <3>3 DEF Onward
  <2> QED
    BY <2>9, <2>10
<1> QED
  BY <1>2, <1>3

\* Results are printed once every case has one.
LEMMA ReportKeeps ==
  ASSUME CallInv, Report
  PROVE  JudgeType' /\ InsideInv' /\ Onward
<1>1. box = "running" /\ harness = "cases" /\ Len(results) = Tests(job) /\ Collected
  BY DEF Report, CallInv, InsideInv
<1>2. printed' = "results" /\ box' = "exited" /\ harness' = "exited"
  BY DEF Report, PrintLine
<1>3. UNCHANGED <<job, host, outcome, answer, clock, results, seen, faulted>>
  BY DEF Report, call, history
<1>4. Collected' /\ Len(results') = Tests(job')
  BY <1>1, <1>3 DEF Collected
<1>5. JudgeType'
  BY <1>2, <1>3 DEF CallInv, JudgeType
<1>6. InsideInv'
  <2>1. Roomy(job)' = Roomy(job) /\ Begun /\ Begun'
    BY <1>1, <1>2, <1>3 DEF Roomy, Deadline, Children, Tests, Begun
  <2>2. Paced' /\ Len(seen') <= Children(job')
    BY <1>3, <2>1 DEF CallInv, InsideInv, Paced
  <2> QED
    BY <1>2, <1>4, <1>3, <2>2 DEF InsideInv
<1>7. Did' = Did /\ clock' \in Nat /\ clock' >= clock
  BY <1>3 DEF Did, CallInv, JudgeType
<1> QED
  BY <1>1, <1>2, <1>3, <1>5, <1>6, <1>7 DEF Onward, call

\* The steps of a container in which nothing is done.
LEMMA OverrunKeeps ==
  ASSUME CallInv, Overrun
  PROVE  JudgeType' /\ InsideInv' /\ Onward
<1>1. Deadline(job) \in Nat /\ clock \in Nat
  BY JobNumbers DEF CallInv, JudgeType
<1>2. box = "running" /\ clock' = Deadline(job) /\ clock < Deadline(job)
  BY DEF Overrun
<1>3. UNCHANGED <<job, host, outcome, answer, box, harness, results, printed, seen, faulted>>
  BY DEF Overrun, call, history
<1>4. JudgeType'
  BY <1>1, <1>2, <1>3 DEF CallInv, JudgeType
<1>5. Collected' = Collected /\ Did' = Did
  BY <1>3 DEF Collected, Did
<1>6. ~(faulted = {} /\ Roomy(job))
  <2> SUFFICES ASSUME faulted = {}, Roomy(job) PROVE FALSE
    OBVIOUS
  <2>1. harness # "hung"
    BY DEF CallInv, InsideInv
  <2>2. PICK d \in Pending : clock + d > Deadline(job)
    BY <2>1 DEF Overrun
  <2>3. /\ Startup \in Nat /\ Children(job) \in Nat /\ TimeLimit \in Nat
        /\ Startup + TimeLimit * Children(job) < Deadline(job)
        /\ TimeLimit * Children(job) \in Nat
    BY JobNumbers, Multiples, TimeAssumption DEF Roomy, CallInv, JudgeType
  <2>4. clock <= (IF Begun THEN Startup ELSE 0) + TimeLimit * Len(seen)
    BY DEF CallInv, InsideInv, Paced
  <2>5. CASE harness = "boot"
    <3>1. Len(seen) = 0 /\ d \in 0 .. Startup
      BY <2>2, <2>5 DEF CallInv, InsideInv, Pending
    <3>2. TimeLimit * Len(seen) = 0 /\ ~Begun
      BY <2>3, <2>5, <3>1 DEF Begun
    <3> QED
      BY <1>1, <2>2, <2>3, <2>4, <3>1, <3>2
  <2>6. CASE harness # "boot"
    <3>1. /\ harness = "check" \/ (harness = "cases" /\ Len(results) < Tests(job))
          /\ d \in Durations
      BY <2>2, <2>6 DEF Pending
    <3>2. d \in Nat /\ d <= TimeLimit
      BY <3>1, TimeAssumption
    <3>3. Len(seen) + 1 <= Children(job) /\ Len(seen) \in Nat
      BY <3>1, RoomForOne DEF CallInv
    <3>4. TimeLimit * (Len(seen) + 1) <= TimeLimit * Children(job)
      BY <2>3, <3>3, Multiples
    <3>5. TimeLimit * (Len(seen) + 1) = TimeLimit * Len(seen) + TimeLimit
      BY <2>3, <3>3
    <3>6. TimeLimit * Len(seen) \in Nat
      BY <2>3, <3>3
    <3> QED
      BY <1>1, <2>2, <2>3, <2>4, <2>6, <3>2, <3>4, <3>5, <3>6 DEF Begun
  <2> QED
    BY <2>5, <2>6
<1>7. Paced'
  <2>1. Roomy(job)' = Roomy(job)
    BY <1>3 DEF Roomy, Deadline, Children, Tests
  <2> QED
    BY <1>3, <1>6, <2>1 DEF Paced
<1>8. InsideInv'
  BY <1>3, <1>5, <1>7 DEF CallInv, InsideInv
<1> QED
  BY <1>1, <1>2, <1>3, <1>4, <1>5, <1>8 DEF Onward, call

\* A harness that dies leaves its container with a fault on record.
LEMMA HarnessDiesKeeps ==
  ASSUME CallInv, HarnessDies
  PROVE  JudgeType' /\ InsideInv' /\ Onward
<1>1. /\ box = "running" /\ printed = "nothing"
      /\ box' = "exited" /\ harness' = "exited" /\ faulted' = faulted \cup {"harness"}
      /\ UNCHANGED <<job, host, outcome, answer, clock, results, printed, seen>>
  BY NothingPrinted DEF HarnessDies, call
<1>2. JudgeType'
  BY <1>1 DEF CallInv, JudgeType
<1>3. InsideInv'
  <2>1. Paced' /\ Len(seen') <= Children(job')
    BY <1>1 DEF CallInv, InsideInv, Paced
  <2> QED
    BY <1>1, <2>1 DEF InsideInv
<1>4. Did' = Did /\ clock' \in Nat /\ clock' >= clock
  BY <1>1 DEF Did, CallInv, JudgeType
<1> QED
  BY <1>1, <1>2, <1>3, <1>4 DEF Onward, call

\* A harness that hangs prints nothing.
LEMMA HarnessHangsKeeps ==
  ASSUME CallInv, HarnessHangs
  PROVE  JudgeType' /\ InsideInv' /\ Onward
<1>1. /\ box = "running" /\ printed = "nothing"
      /\ harness' = "hung" /\ faulted' = faulted \cup {"hang"}
      /\ UNCHANGED <<job, host, outcome, answer, box, clock, results, printed, seen>>
  BY NothingPrinted DEF HarnessHangs, call
<1>2. JudgeType'
  BY <1>1 DEF CallInv, JudgeType
<1>3. InsideInv'
  <2>1. Paced' /\ Len(seen') <= Children(job')
    BY <1>1 DEF CallInv, InsideInv, Paced
  <2> QED
    BY <1>1, <2>1 DEF InsideInv
<1>4. Did' = Did /\ clock' \in Nat /\ clock' >= clock
  BY <1>1 DEF Did, CallInv, JudgeType
<1> QED
  BY <1>1, <1>2, <1>3, <1>4 DEF Onward, call

\* Whatever happens in the container, the host knows what it knew.
LEMMA InsideKeeps ==
  ASSUME CallInv, Inside
  PROVE  CallInv' /\ box = "running" /\ UNCHANGED call
<1>1. JudgeType' /\ InsideInv' /\ Onward
  BY BootKeeps, HarnessRaisesKeeps, CheckFunctionKeeps, RunCaseKeeps, ReportKeeps, OverrunKeeps, HarnessDiesKeeps,
     HarnessHangsKeeps DEF Inside
<1>2. HostInv' /\ AnswerInv'
  BY <1>1, OnwardKeeps
<1> QED
  BY <1>1, <1>2 DEF CallInv, Onward

-----------------------------------------------------------------------------
(* The host.                                                               *)

\* What is on record about the container stays true while the host works.
LEMMA RecordStays ==
  ASSUME CallInv, UNCHANGED <<job, inside, seen>>, faulted \subseteq faulted',
         box' = box \/ box' \in {"exited", "none"} \/ printed = "nothing"
  PROVE  InsideInv' /\ (Late => Late') /\ \A status : Because(status) => BecauseNext(status)
<1>1. UNCHANGED <<job, clock, harness, results, printed, seen>>
  BY DEF inside
<1>2. Collected' = Collected /\ Did' = Did
  BY <1>1 DEF Collected, Did
<1>3. InsideInv'
  <2>1. Paced'
    <3>1. Roomy(job)' = Roomy(job) /\ Begun' = Begun
      BY <1>1 DEF Roomy, Deadline, Children, Tests, Begun
    <3> QED
      BY <1>1, <3>1 DEF CallInv, InsideInv, Paced
  <2> QED
    BY <1>1, <1>2, <2>1 DEF CallInv, InsideInv
<1>4. clock' \in Nat /\ clock' >= clock
  BY <1>1 DEF CallInv, JudgeType
<1>5. Late => Late'
  BY <1>1, <1>4, LateStays DEF CallInv
<1>6. \A status : Because(status) => BecauseNext(status)
  BY <1>1, <1>2, <1>5 DEF Because, BecauseNext
<1> QED
  BY <1>3, <1>5, <1>6

\* The host puts a status down, with the reason for it.
LEMMA StatusPut ==
  ASSUME BecauseNext(outcome'), outcome' \in Status \ {"ACCEPTED", "WRONG_ANSWER"},
         host' \in {"remove", "conclude"}
  PROVE  AnswerInv'
<1>1. Because(outcome)'
  BY DEF Because, BecauseNext
<1>2. outcome' # "none"
  BY DEF Status
<1> QED
  BY <1>1, <1>2 DEF AnswerInv

\* The call is answered, with the reason for the answer.
LEMMA AnswerPut ==
  ASSUME BecauseNext(answer'.status), answer'.status \in Status, host' = "answered",
         answer'.status \in Scored => Score', ContainersAreRemoved'
  PROVE  AnswerInv' /\ HostInv'
<1>1. Because(answer.status)'
  BY DEF Because, BecauseNext
<1>2. answer'.status # "none"
  BY DEF Status
<1>3. AnswerInv'
  BY <1>1, <1>2 DEF AnswerInv
<1>4. HostInv'
  BY DEF HostInv
<1> QED
  BY <1>3, <1>4

\* A failure is an answer without a score.
LEMMA FailureTypes ==
  ASSUME NEW status \in Status
  PROVE  /\ Failure(status) \in [status : Status \cup {"none"}, passed : Nat, failed : SUBSET Nat]
         /\ Failure(status).status = status
  BY DEF Failure

\* A program that does not compile never meets Docker.
LEMMA CompileKeeps ==
  ASSUME CallInv, Compile
  PROVE  CallInv'
<1>1. /\ host = "compile" /\ UNCHANGED <<job, box, inside, seen, outcome>>
      /\ faulted \subseteq faulted' /\ box = "none" /\ printed = "nothing" /\ outcome = "none"
  BY DEF Compile, Goto, Answer, history, CallInv, HostInv
<1>2. InsideInv' /\ \A status : Because(status) => BecauseNext(status)
  BY <1>1, RecordStays
<1>3. CASE Goto("launch")
  <2>1. host' = "launch" /\ answer' = answer
    BY <1>3 DEF Goto
  <2>2. JudgeType'
    BY <1>1, <2>1 DEF CallInv, JudgeType, inside
  <2>3. HostInv' /\ AnswerInv'
    BY <1>1, <2>1 DEF HostInv, AnswerInv, inside
  <2> QED
    BY <1>2, <2>2, <2>3 DEF CallInv
<1>4. CASE Answer(Failure("SYNTAX_ERROR"))
  <2>1. host' = "answered" /\ answer' = Failure("SYNTAX_ERROR")
    BY <1>4 DEF Answer
  <2>2. "SYNTAX_ERROR" \in Status /\ "SYNTAX_ERROR" \notin Scored
    BY DEF Status, Scored
  <2>3. JudgeType'
    BY <1>1, <2>1, <2>2, FailureTypes DEF CallInv, JudgeType, inside
  <2>4. BecauseNext("SYNTAX_ERROR")
    BY DEF BecauseNext
  <2>5. ContainersAreRemoved'
    BY <1>1 DEF ContainersAreRemoved
  <2>6. answer'.status = "SYNTAX_ERROR"
    BY <2>1, <2>2, FailureTypes
  <2>7. HostInv' /\ AnswerInv'
    BY <2>1, <2>2, <2>4, <2>5, <2>6, AnswerPut
  <2> QED
    BY <1>2, <2>3, <2>7 DEF CallInv
<1>5. CASE Answer(Failure("EXCEPTION")) /\ faulted' = faulted \cup {"compile"}
  <2>1. host' = "answered" /\ answer' = Failure("EXCEPTION") /\ "compile" \in faulted'
    BY <1>5 DEF Answer
  <2>2. "EXCEPTION" \in Status /\ "EXCEPTION" \notin Scored
    BY DEF Status, Scored
  <2>3. JudgeType'
    BY <1>1, <2>1, <2>2, FailureTypes DEF CallInv, JudgeType, inside
  <2>4. BecauseNext("EXCEPTION")
    BY <2>1 DEF BecauseNext, Late
  <2>5. ContainersAreRemoved'
    BY <1>1 DEF ContainersAreRemoved
  <2>6. answer'.status = "EXCEPTION"
    BY <2>1, <2>2, FailureTypes
  <2>7. HostInv' /\ AnswerInv'
    BY <2>1, <2>2, <2>4, <2>5, <2>6, AnswerPut
  <2> QED
    BY <1>2, <2>3, <2>7 DEF CallInv
<1> QED
  BY <1>3, <1>4, <1>5 DEF Compile

\* If Docker cannot start the container, or does not say so, that is on record.
LEMMA LaunchKeeps ==
  ASSUME CallInv, Launch
  PROVE  CallInv'
<1>1. /\ host = "launch" /\ UNCHANGED <<job, inside, seen>>
      /\ box = "none" /\ printed = "nothing" /\ outcome = "none" /\ faulted \subseteq faulted'
      /\ outcome' = "none"
  BY DEF Launch, Goto, Answer, Fault, history, CallInv, HostInv
<1>2. InsideInv'
  BY <1>1, RecordStays
<1>3. CASE Goto("wait") /\ box' = "running"
  <2>1. host' = "wait" /\ answer' = answer
    BY <1>3 DEF Goto
  <2>2. JudgeType'
    BY <1>1, <1>3, <2>1 DEF CallInv, JudgeType, inside
  <2>3. HostInv' /\ AnswerInv'
    BY <1>1, <1>3, <2>1 DEF HostInv, AnswerInv
  <2> QED
    BY <1>2, <2>2, <2>3 DEF CallInv
<1>4. CASE Fault("launch") /\ Answer(Failure("INTERNAL_ERROR")) /\ box' \in {"none", "created"}
  <2>1. host' = "answered" /\ answer' = Failure("INTERNAL_ERROR") /\ "launch" \in faulted'
    BY <1>4 DEF Answer, Fault
  <2>2. "INTERNAL_ERROR" \in Status /\ "INTERNAL_ERROR" \notin Scored
    BY DEF Status, Scored
  <2>3. JudgeType'
    BY <1>1, <1>4, <2>1, <2>2, FailureTypes DEF CallInv, JudgeType, inside
  <2>4. BecauseNext("INTERNAL_ERROR")
    BY <2>1 DEF BecauseNext
  <2>5. ContainersAreRemoved'
    BY <1>4, <2>1 DEF ContainersAreRemoved
  <2>6. answer'.status = "INTERNAL_ERROR"
    BY <2>1, <2>2, FailureTypes
  <2>7. HostInv' /\ AnswerInv'
    BY <2>1, <2>2, <2>4, <2>5, <2>6, AnswerPut
  <2> QED
    BY <1>2, <2>3, <2>7 DEF CallInv
<1>5. CASE /\ Fault("start") /\ Answer(Failure("EXCEPTION"))
           /\ box' \in {"none", "created", "running"}
  <2>1. host' = "answered" /\ answer' = Failure("EXCEPTION") /\ "start" \in faulted'
    BY <1>5 DEF Answer, Fault
  <2>2. "EXCEPTION" \in Status /\ "EXCEPTION" \notin Scored
    BY DEF Status, Scored
  <2>3. JudgeType'
    BY <1>1, <1>5, <2>1, <2>2, FailureTypes DEF CallInv, JudgeType, inside
  <2>4. BecauseNext("EXCEPTION")
    BY <2>1 DEF BecauseNext, Late
  <2>5. ContainersAreRemoved'
    BY <2>1 DEF ContainersAreRemoved
  <2>6. answer'.status = "EXCEPTION"
    BY <2>1, <2>2, FailureTypes
  <2>7. HostInv' /\ AnswerInv'
    BY <2>1, <2>2, <2>4, <2>5, <2>6, AnswerPut
  <2> QED
    BY <1>2, <2>3, <2>7 DEF CallInv
<1> QED
  BY <1>3, <1>4, <1>5 DEF Launch

\* A container that ended has printed, or its harness died.
LEMMA ExitedKeeps ==
  ASSUME CallInv, Exited
  PROVE  CallInv'
<1>1. /\ host = "wait" /\ box = "exited" /\ host' = "logs"
      /\ UNCHANGED <<job, answer, outcome, box, inside, seen, faulted>>
  BY DEF Exited, Goto, history
<1>2. InsideInv'
  BY <1>1, RecordStays
<1>3. JudgeType'
  BY <1>1 DEF CallInv, JudgeType, inside
<1>4. HostInv' /\ AnswerInv'
  BY <1>1 DEF CallInv, HostInv, AnswerInv, inside
<1> QED
  BY <1>2, <1>3, <1>4 DEF CallInv

\* The host stops waiting only when it is late.
LEMMA WaitExpiresKeeps ==
  ASSUME CallInv, WaitExpires
  PROVE  CallInv'
<1>1. /\ host = "wait" /\ host' = "kill" /\ faulted \subseteq faulted'
      /\ UNCHANGED <<job, answer, outcome, box, inside, seen>>
  BY DEF WaitExpires, Goto, Fault, history
<1>2. clock = Deadline(job) \/ faulted' # {}
  BY DEF WaitExpires, Fault
<1>3. InsideInv' /\ (Late => Late')
  BY <1>1, RecordStays
<1>4. clock = Deadline(job) => Late
  BY DeadlineIsLate, JobNumbers DEF CallInv, JudgeType
<1>5. Late'
  BY <1>2, <1>3, <1>4 DEF Late
<1>6. JudgeType'
  BY <1>1 DEF CallInv, JudgeType, inside
<1>7. HostInv' /\ AnswerInv'
  BY <1>1, <1>5 DEF CallInv, HostInv, AnswerInv
<1> QED
  BY <1>3, <1>6, <1>7 DEF CallInv

\* A wait that fails is on record, and the container is not forgotten.
LEMMA WaitFailsKeeps ==
  ASSUME CallInv, WaitFails
  PROVE  CallInv'
<1>1. /\ host = "wait" /\ host' = "remove" /\ outcome' = "EXCEPTION" /\ "wait" \in faulted'
      /\ faulted \subseteq faulted' /\ UNCHANGED <<job, answer, box, inside, seen>>
  BY DEF WaitFails, Goto, Fault
<1>2. InsideInv'
  BY <1>1, RecordStays
<1>3. JudgeType'
  BY <1>1 DEF CallInv, JudgeType, inside, Status
<1>4. BecauseNext("EXCEPTION")
  BY <1>1 DEF BecauseNext, Late
<1>5. AnswerInv'
  BY <1>1, <1>4, StatusPut DEF Status
<1>6. HostInv'
  BY <1>1 DEF HostInv
<1> QED
  BY <1>2, <1>3, <1>5, <1>6 DEF CallInv

\* A container is killed for being late.
LEMMA KillKeeps ==
  ASSUME CallInv, Kill
  PROVE  CallInv'
<1>1. /\ host = "kill" /\ host' = "remove" /\ box' = "exited" /\ outcome' = "TIME_LIMIT"
      /\ UNCHANGED <<job, answer, inside, seen, faulted>>
  BY DEF Kill, Goto, history
<1>2. InsideInv' /\ (Late => Late')
  BY <1>1, RecordStays
<1>3. JudgeType'
  BY <1>1 DEF CallInv, JudgeType, inside, Status
<1>4. BecauseNext("TIME_LIMIT")
  BY <1>1, <1>2 DEF CallInv, HostInv, BecauseNext
<1>5. AnswerInv'
  BY <1>1, <1>4, StatusPut DEF Status
<1>6. HostInv'
  BY <1>1 DEF HostInv
<1> QED
  BY <1>2, <1>3, <1>5, <1>6 DEF CallInv

\* If the kill fails, that is an exception of a late call.
LEMMA KillFailsKeeps ==
  ASSUME CallInv, KillFails
  PROVE  CallInv'
<1>1. /\ host = "kill" /\ host' = "remove" /\ outcome' = "EXCEPTION" /\ faulted \subseteq faulted'
      /\ box' \in {box, "exited"} /\ UNCHANGED <<job, answer, inside, seen>>
  BY DEF KillFails, Goto, Fault, history
<1>2. InsideInv' /\ (Late => Late')
  BY <1>1, RecordStays
<1>3. JudgeType'
  BY <1>1 DEF CallInv, JudgeType, inside, Status
<1>4. BecauseNext("EXCEPTION")
  BY <1>1, <1>2 DEF CallInv, HostInv, BecauseNext
<1>5. AnswerInv'
  BY <1>1, <1>4, StatusPut DEF Status
<1>6. HostInv'
  BY <1>1 DEF HostInv
<1> QED
  BY <1>2, <1>3, <1>5, <1>6 DEF CallInv

\* The status is what the last line says, whose reason is on record.
LEMMA ReadLogsKeeps ==
  ASSUME CallInv, ReadLogs
  PROVE  CallInv'
<1>1. /\ host = "logs" /\ host' = "remove" /\ faulted \subseteq faulted' /\ box = "exited"
      /\ UNCHANGED <<job, answer, box, inside, seen>>
  BY DEF ReadLogs, Goto, Fault, history, CallInv, HostInv
<1>2. InsideInv' /\ \A status : Because(status) => BecauseNext(status)
  BY <1>1, RecordStays
<1>3. printed \in {"nothing", "results", "timeout", "runtime", "garbage"}
  BY DEF CallInv, JudgeType
<1>4. outcome' \in {"OK", "TIME_LIMIT", "RUNTIME_ERROR", "INTERNAL_ERROR", "EXCEPTION"}
  BY <1>3 DEF ReadLogs, Translate
<1>5. BecauseNext(outcome')
  <2>1. CASE outcome' = Translate(printed) /\ UNCHANGED history
    <3>1. printed = "nothing" => "harness" \in faulted
      BY <1>1 DEF CallInv, HostInv
    <3>2. Because(Translate(printed))
      BY <1>3, <3>1 DEF CallInv, InsideInv, Because, Translate
    <3> QED
      BY <1>2, <2>1, <3>2
  <2>2. CASE Fault("logs") /\ outcome' = "EXCEPTION"
    <3>1. "logs" \in faulted'
      BY <2>2 DEF Fault
    <3> QED
      BY <2>2, <3>1 DEF BecauseNext, Late
  <2> QED
    BY <2>1, <2>2 DEF ReadLogs
<1>6. JudgeType'
  BY <1>1, <1>4 DEF CallInv, JudgeType, inside, Status
<1>7. AnswerInv'
  BY <1>1, <1>4, <1>5, StatusPut DEF Status
<1>8. HostInv'
  BY <1>1 DEF HostInv
<1> QED
  BY <1>2, <1>6, <1>7, <1>8 DEF CallInv

\* The container goes, or Docker is on record for keeping it.
LEMMA RemoveKeeps ==
  ASSUME CallInv, Remove
  PROVE  CallInv'
<1>1. /\ host = "remove" /\ host' = "conclude" /\ faulted \subseteq faulted'
      /\ box' \in {box, "none"}
      /\ UNCHANGED <<job, answer, inside, seen>>
  BY DEF Remove, Goto, Fault, history
<1>2. InsideInv' /\ \A status : Because(status) => BecauseNext(status)
  BY <1>1, RecordStays
<1>3. \/ box' = "none" /\ outcome' = outcome
      \/ "remove" \in faulted' /\ outcome' = "EXCEPTION"
  BY DEF Remove, Fault
<1>4. /\ outcome \in Status \ {"ACCEPTED", "WRONG_ANSWER"}
      /\ Because(outcome)
  BY <1>1 DEF CallInv, JudgeType, AnswerInv
<1>5. outcome' \in Status \ {"ACCEPTED", "WRONG_ANSWER"}
  BY <1>3, <1>4 DEF Status
<1>6. BecauseNext(outcome')
  <2>1. CASE outcome' = outcome
    BY <1>2, <1>4, <2>1
  <2>2. CASE "remove" \in faulted' /\ outcome' = "EXCEPTION"
    BY <2>2 DEF BecauseNext, Late
  <2> QED
    BY <1>3, <2>1, <2>2
<1>7. JudgeType'
  BY <1>1, <1>5 DEF CallInv, JudgeType, inside
<1>8. AnswerInv'
  BY <1>1, <1>5, <1>6, StatusPut
<1>9. HostInv'
  BY <1>1, <1>3 DEF HostInv
<1> QED
  BY <1>2, <1>7, <1>8, <1>9 DEF CallInv

\* The cases of a run are finitely many.
LEMMA GoodCounts ==
  ASSUME JudgeType
  PROVE  /\ IsFiniteSet(DOMAIN results) /\ Cardinality(DOMAIN results) = Len(results)
         /\ Cardinality(Good) \in Nat /\ Good \in SUBSET Nat /\ Failed \in SUBSET Nat
         /\ Cardinality(Good) = Len(results) => Good = DOMAIN results
<1>1. DOMAIN results = 1 .. Len(results) /\ Len(results) \in Nat
  BY DEF JudgeType
<1>2. IsFiniteSet(1 .. Len(results)) /\ Cardinality(1 .. Len(results)) = Len(results)
  <2>1. 1 \in Int /\ Len(results) \in Int /\ (1 > Len(results) => Len(results) = 0)
    BY <1>1
  <2>2. /\ IsFiniteSet(1 .. Len(results))
        /\ Cardinality(1 .. Len(results)) = IF 1 > Len(results) THEN 0 ELSE Len(results) - 1 + 1
    BY <2>1, FS_Interval, Zenon
  <2> QED
    BY <1>1, <2>1, <2>2
<1>3. Good \subseteq DOMAIN results /\ Failed \subseteq DOMAIN results
  BY DEF Good, Failed
<1>4. /\ IsFiniteSet(Good)
      /\ Cardinality(Good) = Cardinality(DOMAIN results) => Good = DOMAIN results
  BY <1>1, <1>2, <1>3, FS_Subset
<1>5. Cardinality(Good) \in Nat
  BY <1>4, FS_CardinalityType
<1> QED
  BY <1>1, <1>2, <1>3, <1>4, <1>5

\* The answer is the status, or the score of what was printed.
LEMMA ConcludeKeeps ==
  ASSUME CallInv, Conclude
  PROVE  CallInv'
<1>1. /\ host = "conclude" /\ host' = "answered" /\ answer' = Verdict
      /\ UNCHANGED <<job, outcome, box, inside, seen, faulted>>
  BY DEF Conclude, Answer, history
<1>2. InsideInv' /\ \A status : Because(status) => BecauseNext(status)
  BY <1>1, RecordStays
<1>3. outcome \in Status \ {"ACCEPTED", "WRONG_ANSWER"} /\ Because(outcome)
  BY <1>1 DEF CallInv, JudgeType, AnswerInv
<1>4. ContainersAreRemoved'
  BY <1>1 DEF CallInv, HostInv, ContainersAreRemoved
<1>5. CASE outcome # "OK"
  <2>1. answer' = Failure(outcome)
    BY <1>1, <1>5 DEF Verdict
  <2>2. answer'.status = outcome /\ outcome \notin Scored
    BY <1>3, <1>5, <2>1, FailureTypes DEF Scored
  <2>3. JudgeType'
    BY <1>1, <1>3, <2>1, FailureTypes DEF CallInv, JudgeType, inside
  <2>4. HostInv' /\ AnswerInv'
    BY <1>1, <1>2, <1>3, <1>4, <2>2, AnswerPut
  <2> QED
    BY <1>2, <2>3, <2>4 DEF CallInv
<1>6. CASE outcome = "OK"
  <2>1. Good' = Good /\ Failed' = Failed
    BY <1>1 DEF Good, Failed, inside
  <2>2. Score'
    BY <1>1, <1>6, <2>1 DEF Score, Verdict
  <2>3. Cardinality(Good) \in Nat /\ Failed \in SUBSET Nat
    BY GoodCounts DEF CallInv
  <2>4. answer' \in [status : Scored, passed : Nat, failed : SUBSET Nat]
    BY <1>1, <1>6, <2>3 DEF Verdict, Scored
  <2>5. answer'.status \in Scored
    BY <2>4
  <2>6. JudgeType'
    BY <1>1, <2>4 DEF CallInv, JudgeType, inside, Status, Scored
  <2>7. BecauseNext(answer'.status)
    BY <1>1, <1>3, <1>6, <2>5 DEF Because, BecauseNext, Scored, inside
  <2>8. HostInv' /\ AnswerInv'
    BY <1>1, <1>4, <2>2, <2>5, <2>7, AnswerPut DEF Status, Scored
  <2> QED
    BY <1>2, <2>6, <2>8 DEF CallInv
<1> QED
  BY <1>5, <1>6

\* The host's steps leave the job alone and end with the answer.
LEMMA HostKeeps ==
  ASSUME CallInv, Host
  PROVE  CallInv' /\ host \notin {"idle", "answered"} /\ host' # "idle" /\ UNCHANGED job
<1>1. CallInv'
  BY CompileKeeps, LaunchKeeps, ExitedKeeps, WaitExpiresKeeps, WaitFailsKeeps, KillKeeps, KillFailsKeeps,
     ReadLogsKeeps, RemoveKeeps, ConcludeKeeps DEF Host
<1>2. host \notin {"idle", "answered"}
  BY DEF Host, Compile, Launch, Exited, WaitExpires, WaitFails, Kill, KillFails, ReadLogs, Remove, Conclude
<1>3. host' # "idle" /\ UNCHANGED job
  BY DEF Host, Compile, Launch, Exited, WaitExpires, WaitFails, Kill, KillFails, ReadLogs, Remove, Conclude,
     Goto, Answer
<1> QED
  BY <1>1, <1>2, <1>3

\* A new call starts from nothing.
LEMMA ReceiveKeeps ==
  ASSUME NEW j \in Job, Receive(j)
  PROVE  CallInv' /\ host' = "compile" /\ job' = j
<1>1. /\ job' = j /\ host' = "compile" /\ box' = "none" /\ clock' = 0 /\ harness' = "boot"
      /\ results' = << >> /\ printed' = "nothing" /\ outcome' = "none" /\ answer' = NoAnswer
      /\ seen' = << >>
  BY DEF Receive
<1>2. NoAnswer \in [status : Status \cup {"none"}, passed : Nat, failed : SUBSET Nat]
  BY DEF NoAnswer
<1>3. JudgeType'
  BY <1>1, <1>2 DEF JudgeType
<1>4. Paced' /\ Len(seen') <= Children(job')
  <2>1. Children(j) \in Nat /\ TimeLimit * 0 = 0
    BY JobNumbers, TimeAssumption
  <2> QED
    BY <1>1, <2>1 DEF Paced, Begun
<1>5. InsideInv' /\ HostInv' /\ AnswerInv'
  BY <1>1, <1>4 DEF InsideInv, HostInv, AnswerInv
<1> QED
  BY <1>1, <1>3, <1>5 DEF CallInv

-----------------------------------------------------------------------------
(* The generator.                                                          *)

\* At first there is nothing to explain.
LEMMA InitInv == Init => IInv
<1> SUFFICES ASSUME Init PROVE IInv
  OBVIOUS
<1>1. Idle \in Job
  BY DEF Idle, Job, AnyJob, Whole, Mode, CheckType
<1>2. NoAnswer \in [status : Status \cup {"none"}, passed : Nat, failed : SUBSET Nat]
  BY DEF NoAnswer
<1>3. JudgeType
  BY <1>1, <1>2 DEF Init, JudgeInit, JudgeType
<1>4. InsideInv /\ HostInv /\ AnswerInv
  <2>1. Children(job) \in Nat /\ TimeLimit * 0 = 0
    BY <1>1, JobNumbers, TimeAssumption DEF Init, JudgeInit
  <2>2. Paced /\ Len(seen) <= Children(job)
    BY <2>1 DEF Init, JudgeInit, Paced, Begun
  <2> QED
    BY <2>2 DEF Init, JudgeInit, InsideInv, HostInv, AnswerInv
<1>5. NoTemplate \in Templates
  BY TestAssumption DEF NoTemplate, Templates, CheckType
<1>6. GeneratorInv
  BY <1>5, RetryAssumption DEF Init, GeneratorInit, GeneratorInv
<1> QED
  BY <1>3, <1>4, <1>6 DEF IInv, CallInv

\* Nothing moves in the judge once a problem is reported: what printed has ended.
LEMMA PassedIsOver ==
  ASSUME CallInv, host = "answered", Passes
  PROVE  printed = "results" /\ box # "running"
<1>1. Because("OK")
  BY DEF CallInv, AnswerInv, Passes
<1>2. printed = "results"
  BY <1>1 DEF Because
<1> QED
  BY <1>2 DEF CallInv, InsideInv

\* While the judge works nothing is reported that its answer could still change.
LEMMA WorkKeeps ==
  ASSUME IInv, Work, UNCHANGED generator
  PROVE  IInv'
<1>1. /\ CallInv' /\ UNCHANGED job
      /\ \/ box = "running" /\ UNCHANGED host
         \/ host \notin {"idle", "answered"} /\ host' # "idle"
  BY InsideKeeps, HostKeeps DEF Work, IInv, call
<1>2. UNCHANGED <<stage, attempt, template, report>>
  BY DEF generator
<1>3. ~(host = "answered" /\ Passes)
  BY <1>1, PassedIsOver, HostKeeps DEF IInv, Work, Inside, Host, Compile, Launch, Exited,
     WaitExpires, WaitFails, Kill, KillFails, ReadLogs, Remove, Conclude, Boot, HarnessRaises, CheckFunction, RunCase,
     Report, Overrun, HarnessDies, HarnessHangs
<1>4. stage = "reported" => report = Refused
  BY <1>3 DEF IInv, GeneratorInv
<1>5. GeneratorInv'
  BY <1>1, <1>2, <1>4 DEF IInv, GeneratorInv
<1> QED
  BY <1>1, <1>5 DEF IInv

\* To refuse is to ask once more, or to give up.
LEMMA AgainKeeps ==
  ASSUME IInv, Again, UNCHANGED vars, template' \in Templates
  PROVE  IInv'
<1>1. CallInv'
  BY DEF IInv, CallInv, JudgeType, InsideInv, HostInv, AnswerInv, Because, Score, Collected, Did, Paced, Begun,
     Late, ContainersAreRemoved, Answered, Good, Failed, vars, call, inside, history
<1>2. /\ report' = Refused /\ stage' \in {"ask", "reported"}
      /\ attempt' \in Nat /\ attempt' <= MaxRetries + 1
  BY RetryAssumption DEF Again, IInv, GeneratorInv
<1>3. GeneratorInv'
  BY <1>2 DEF GeneratorInv
<1> QED
  BY <1>1, <1>3 DEF IInv

\* The judge is not disturbed by the generator.
LEMMA StutterKeeps ==
  ASSUME CallInv, UNCHANGED vars
  PROVE  CallInv'
  BY DEF CallInv, JudgeType, InsideInv, HostInv, AnswerInv, Because, Score, Collected, Did, Paced, Begun,
     Late, ContainersAreRemoved, Answered, Good, Failed, vars, call, inside, history

\* The steps of the generator: it reports what it captured, or nothing.
LEMMA GenerationKeeps ==
  ASSUME IInv, Generation
  PROVE  IInv'
<1>1. CASE Generate
  <2>1. CallInv'
    BY <1>1, StutterKeeps DEF Generate, IInv
  <2>2. GeneratorInv'
    BY <1>1, RetryAssumption DEF Generate, IInv, GeneratorInv
  <2> QED
    BY <2>1, <2>2 DEF IInv
<1>2. CASE Ask
  <2>1. CASE Again /\ UNCHANGED template
    BY <1>2, <2>1, AgainKeeps DEF Ask, IInv, GeneratorInv
  <2>2. CASE template' \in Templates /\ stage' = "validate" /\ UNCHANGED <<attempt, report>>
    <3>1. CallInv'
      BY <1>2, StutterKeeps DEF Ask, IInv
    <3>2. GeneratorInv'
      BY <1>2, <2>2 DEF Ask, IInv, GeneratorInv
    <3> QED
      BY <3>1, <3>2 DEF IInv
  <2> QED
    BY <1>2, <2>1, <2>2 DEF Ask
<1>3. CASE RefuseRepeats
  BY <1>3, AgainKeeps DEF RefuseRepeats, IInv, GeneratorInv
<1>4. CASE Capture
  <2> DEFINE j == CaptureJob(template, attempt)
  <2>1. j \in Job
    BY TestAssumption DEF IInv, GeneratorInv, Templates, CaptureJob, Job, AnyJob, Mode
  <2>2. Receive(j)
    BY <1>4 DEF Capture
  <2>3. CallInv' /\ host' = "compile" /\ job' = j
    BY <2>1, <2>2, ReceiveKeeps
  <2>4. GeneratorInv'
    BY <1>4, <2>3 DEF Capture, IInv, GeneratorInv
  <2> QED
    BY <2>3, <2>4 DEF IInv
<1>5. CASE Validate
  <2>1. UNCHANGED <<vars, template>> /\ host = "answered" /\ stage = "capture"
    BY <1>5 DEF Validate
  <2>2. CASE stage' = "reported" /\ report' = Refused /\ UNCHANGED attempt
    <3>1. CallInv'
      BY <2>1, StutterKeeps DEF IInv
    <3>2. GeneratorInv'
      BY <2>1, <2>2 DEF IInv, GeneratorInv
    <3> QED
      BY <3>1, <3>2 DEF IInv
  <2>3. CASE Again
    BY <2>1, <2>3, AgainKeeps DEF IInv, GeneratorInv
  <2>4. CASE /\ Passes /\ stage' = "reported"
             /\ report' = [valid |-> TRUE, expected |-> Expected] /\ UNCHANGED attempt
    <3>1. CallInv'
      BY <2>1, StutterKeeps DEF IInv
    <3>2. UNCHANGED <<job, host, answer, results>>
      BY <2>1 DEF vars, call, inside
    <3>3. Expected' = Expected /\ Passes'
      BY <2>4, <3>2 DEF Expected, Passes
    <3>4. GeneratorInv'
      BY <2>1, <2>4, <3>2, <3>3 DEF IInv, GeneratorInv
    <3> QED
      BY <3>1, <3>4 DEF IInv
  <2> QED
    BY <1>5, <2>2, <2>3, <2>4 DEF Validate
<1> QED
  BY <1>1, <1>2, <1>3, <1>4, <1>5 DEF Generation

\* A student's run starts from nothing too.
LEMMA JudgedKeeps ==
  ASSUME IInv, Judged
  PROVE  IInv'
<1>1. PICK m \in Mode \ {"capture"}, c \in CheckType :
        Receive([Idle EXCEPT !.mode = m, !.check = c])
  BY DEF Judged
<1> DEFINE j == [Idle EXCEPT !.mode = m, !.check = c]
<1>2. j \in Job
  BY DEF Job, AnyJob, Idle, Whole
<1>3. CallInv'
  BY <1>1, <1>2, ReceiveKeeps
<1>4. GeneratorInv'
  BY DEF Judged, generator, IInv, GeneratorInv
<1> QED
  BY <1>3, <1>4 DEF IInv

\* The inductive invariant is kept by every step.
LEMMA Invariance == IInv /\ [Next]_allVars => IInv'
<1> SUFFICES ASSUME IInv, [Next]_allVars PROVE IInv'
  OBVIOUS
<1>1. CASE Work /\ UNCHANGED generator
  BY <1>1, WorkKeeps
<1>2. CASE Judged
  BY <1>2, JudgedKeeps
<1>3. CASE Generation
  BY <1>3, GenerationKeeps
<1>4. CASE UNCHANGED allVars
  <2>1. CallInv'
    BY <1>4, StutterKeeps DEF IInv, allVars
  <2>2. UNCHANGED <<stage, attempt, template, report, job, host, answer, results>>
    BY <1>4 DEF allVars, generator, vars, call, inside
  <2>3. Expected' = Expected /\ (Passes <=> Passes')
    BY <2>2 DEF Expected, Passes
  <2>4. GeneratorInv'
    BY <2>2, <2>3 DEF IInv, GeneratorInv
  <2> QED
    BY <2>1, <2>4 DEF IInv
<1> QED
  BY <1>1, <1>2, <1>3, <1>4 DEF Next

-----------------------------------------------------------------------------
(* The theorems.                                                           *)

\* What was done in a run that printed its results: each test once, to its end.
LEMMA PrintedIsDone ==
  ASSUME CallInv, printed = "results"
  PROVE  /\ Cases = results /\ Len(Cases) = Tests(job)
         /\ "timeout" \notin Did
<1>1. Collected /\ Len(results) = Tests(job) /\ results \in Seq(Ending)
  BY DEF CallInv, InsideInv, JudgeType
<1>2. "timeout" \notin Ending /\ "good" \in Ending
  BY DEF Ending
<1>3. seen \in Seq(Ending)
  BY <1>1, <1>2 DEF Collected
<1>4. "timeout" \notin Did
  BY <1>2, <1>3 DEF Did
<1>5. job.check = "function_call" => Tail(seen) = results
  <2>1. Tail(<<"good">> \o results) = results
    BY <1>1, <1>2
  <2> QED
    BY <1>1, <2>1 DEF Collected
<1>6. Cases = results
  BY <1>1, <1>5 DEF Cases, Collected
<1> QED
  BY <1>1, <1>4, <1>6

\* From what was printed to the score.
LEMMA EarnedFollows == IInv => VerdictIsEarned
<1> SUFFICES ASSUME CallInv, Answered, answer.status \in Scored PROVE VerdictIsEarned
  BY DEF IInv, VerdictIsEarned
<1>1. Because(answer.status) /\ Score
  BY DEF CallInv, AnswerInv, Answered
<1>2. printed = "results"
  BY <1>1 DEF Because, Scored
<1>3. Cases = results /\ Len(Cases) = Tests(job) /\ "timeout" \notin Did
  BY <1>2, PrintedIsDone
<1>4. /\ Cardinality(DOMAIN results) = Len(results)
      /\ Cardinality(Good) = Len(results) => Good = DOMAIN results
  BY GoodCounts DEF CallInv
<1>5. Good = {i \in DOMAIN Cases : Cases[i] = "good"}
  BY <1>3 DEF Good
<1>6. /\ answer.passed = Cardinality(Good)
      /\ answer.status = "ACCEPTED" => Good = DOMAIN Cases
      /\ answer.status = "WRONG_ANSWER" => Good # DOMAIN Cases
      /\ job.mode = "submit" => answer.failed = DOMAIN Cases \ Good
  BY <1>1, <1>3, <1>4 DEF Score, Failed
<1> QED
  BY <1>3, <1>5, <1>6 DEF VerdictIsEarned, Did

\* From the reason for a status to the blame.
LEMMA BlameFollows == IInv => BlameIsFair
<1> SUFFICES ASSUME CallInv, Answered PROVE BlameIsFair
  BY DEF IInv, BlameIsFair
<1>1. Because(answer.status) /\ InsideInv
  BY DEF CallInv, AnswerInv, Answered
<1>2. answer.status \in Status
  BY DEF CallInv, JudgeType, AnswerInv, Answered, Status
<1>3. answer.status = "RUNTIME_ERROR" => seen = <<"died">> /\ job.check = "function_call"
  BY <1>1 DEF Because, InsideInv
<1>4. seen = <<"died">> => "died" \in Did
  BY DEF Did
<1>5. ~Late /\ Whole(job) /\ Did \subseteq {"good", "bad"} => answer.status \in Scored \cup {"SYNTAX_ERROR"}
  BY <1>1, <1>2, <1>3, <1>4 DEF Because, Status, Scored, Late
<1>6. ~Whole(job) => job.mode = "capture"
  BY DEF CallInv, JudgeType, Job
<1> QED
  BY <1>1, <1>3, <1>5, <1>6 DEF BlameIsFair, Because, Did, Late

\* From a capture that passed to the generated problem.
LEMMA GeneratedFollows == IInv => GeneratedProblemsRan
<1> SUFFICES ASSUME IInv, stage = "reported" PROVE GeneratedProblemsRan
  BY DEF GeneratedProblemsRan
<1>1. attempt <= MaxRetries + 1
  BY DEF IInv, GeneratorInv
<1>2. CASE report = Refused
  BY <1>1, <1>2 DEF GeneratedProblemsRan, Refused
<1>3. CASE report # Refused
  <2>1. /\ report.expected = Expected /\ ~template.repeats
        /\ job = CaptureJob(template, attempt)
        /\ host = "answered" /\ Passes
    BY <1>3 DEF IInv, GeneratorInv
  <2>2. printed = "results"
    BY <2>1, PassedIsOver DEF IInv
  <2>3. Cases = results /\ Len(Cases) = Tests(job) /\ results \in Seq(Ending)
    BY <2>2, PrintedIsDone DEF IInv, CallInv, JudgeType
  <2>4. Tests(job) = Public + Hidden /\ job.program = attempt /\ job.check = template.check
    BY <2>1 DEF Tests, CaptureJob
  <2>5. Failed = {}
    BY <2>1 DEF Passes, IInv, CallInv, AnswerInv, Scored, Score
  <2>6. \A i \in DOMAIN results : results[i] = "good"
    BY <2>5 DEF Failed, Good
  <2>7. DOMAIN Expected = DOMAIN results /\ \A i \in DOMAIN results : Expected[i] = <<attempt, i>>
    BY <2>4 DEF Expected
  <2>8. Len(Expected) = Len(results)
    <3>1. DOMAIN results = 1 .. Len(results) /\ Len(results) \in Nat
      BY <2>3
    <3>2. Expected = [i \in 1 .. Len(results) |-> <<job.program, i>>]
      BY <3>1 DEF Expected
    <3> QED
      BY <3>1, <3>2
  <2> QED
    BY <1>1, <2>1, <2>3, <2>4, <2>6, <2>7, <2>8 DEF GeneratedProblemsRan
<1> QED
  BY <1>2, <1>3

\* The invariant says it of every answer.
LEMMA RemovedFollows == IInv => ContainersAreRemoved
  BY DEF IInv, CallInv, AnswerInv, ContainersAreRemoved, Answered

\* The inductive invariant holds.
LEMMA Invariant == Spec => []IInv
  BY InitInv, Invariance, PTL DEF Spec

\* A score is a score of every test, each run to its end, for any number of tests.
THEOREM Earned == Spec => []VerdictIsEarned
  BY Invariant, EarnedFollows, PTL

\* Nobody is blamed for what Docker did, however it fails.
THEOREM Fair == Spec => []BlameIsFair
  BY Invariant, BlameFollows, PTL

\* No container outlives its call, unless Docker refuses to remove it or loses the answer
\* to its start.
THEOREM Removed == Spec => []ContainersAreRemoved
  BY Invariant, RemovedFollows, PTL

\* A generated problem ran through the judge, for any number of retries.
THEOREM Generated == Spec => []GeneratedProblemsRan
  BY Invariant, GeneratedFollows, PTL
=============================================================================
