-------------------------------- MODULE Judge --------------------------------
(***************************************************************************)
(* One call of the judge service (judge/judge_service.py): the host starts *)
(* a container, a harness in it (judge/harness/*.py) runs the program in   *)
(* one child process per test, and the host turns what the harness printed *)
(* into a verdict.  Host and container run concurrently and share nothing  *)
(* but the end of the container and its output; the host stops waiting     *)
(* after Deadline.  Calls are independent of each other: each has its own  *)
(* container.                                                              *)
(*                                                                         *)
(* mode "capture" is capture_reference_outputs: the same way through the   *)
(* container with harnesses that record outputs and compare nothing.       *)
(***************************************************************************)
EXTENDS Naturals, Sequences, FiniteSets

CONSTANTS
    Public, Hidden, \* how many test cases the problem has of each kind
    TimeLimit,      \* time_limit_sec, for one child process
    Overhead,       \* CONTAINER_TIMEOUT_OVERHEAD_SEC
    Cap,            \* CONTAINER_TIMEOUT_CAP_SEC
    Startup,        \* the time the harness may need before its first child
    Durations,      \* the times a child process may take
    Faults          \* whether Docker may fail

ASSUME TestAssumption == Public \in Nat /\ Hidden \in Nat
ASSUME TimeAssumption ==
    /\ {TimeLimit, Overhead, Cap, Startup} \subseteq Nat
    /\ Durations \subseteq 0 .. TimeLimit
ASSUME FaultAssumption == Faults \in BOOLEAN

VARIABLES
    job,      \* the call: its mode, the problem and the program
    host,     \* where run_judge stands
    box,      \* the container
    clock,    \* seconds since the container was started
    harness,  \* where the harness stands
    results,  \* what the harness has collected, a sequence of outcomes
    printed,  \* the last line of the container's output
    outcome,  \* the status _run_in_sandbox works from
    answer,   \* what the caller gets
    seen,     \* history: the outcomes of all children, timeouts included
    faulted   \* history: what failed: a call of Docker, the host's own compile(), the
              \* harness if it died ("harness") or hung ("hang")

call == <<job, host, outcome, answer>>
inside == <<clock, harness, results, printed>>
history == <<seen, faulted>>
vars == <<call, box, inside, history>>

-----------------------------------------------------------------------------
Mode == {"run", "submit", "capture"}
CheckType == {"function_call", "stdout_match"}

\* A problem to be judged is complete.  A template to be captured may name no function,
\* or lack the input or stdin of a test: gap is the first such test, 0 if there is none.
AnyJob == [mode : Mode, check : CheckType, program : Nat, named : BOOLEAN, gap : Nat]
Whole(j) == j.gap = 0 /\ (j.check = "function_call" => j.named)
Job == {j \in AnyJob : j.mode # "capture" => Whole(j)}

\* What becomes of a child process that ends in time: "good" (the expected value, or
\* any value while capturing), "bad" (another value), "died" (an exit status that is
\* not 0, nothing readable on stdout) or "odd" (an output the harness does not expect:
\* JSON that is no object, bytes that are no text).
Ending == {"good", "bad", "died", "odd"}
Outcome == Ending \cup {"timeout"}
Status == {"OK", "ACCEPTED", "WRONG_ANSWER", "SYNTAX_ERROR", "RUNTIME_ERROR",
           "TIME_LIMIT", "INTERNAL_ERROR", "EXCEPTION"}
Scored == {"OK", "ACCEPTED", "WRONG_ANSWER"}

Tests(j) == IF j.mode = "run" THEN Public ELSE Public + Hidden
Least(a, b) == IF a < b THEN a ELSE b
Most(a, b) == IF a < b THEN b ELSE a
Deadline(j) == Least(Cap, TimeLimit * Most(Tests(j), 1) + Overhead)

\* The children of a run, and whether the Deadline has room for all of their limits.
Children(j) == Tests(j) + (IF j.check = "function_call" THEN 1 ELSE 0)
Roomy(j) == Startup + TimeLimit * Children(j) < Deadline(j)

-----------------------------------------------------------------------------
\* The harness.  Time passes while a child runs; the host's Deadline cuts it off.
Spend(d) == clock + d <= Deadline(job) /\ clock' = clock + d

\* The harness prints its one line and exits.
PrintLine(line) ==
    /\ printed' = line
    /\ box' = "exited"
    /\ harness' = "exited"

\* MUTANT: a test that times out is skipped instead of ending the run.
ChildTimesOutSkipped ==
    /\ Spend(TimeLimit)
    /\ seen' = Append(seen, "timeout")
    /\ PrintLine("results")
    /\ UNCHANGED results

\* subprocess.run gives up on the child and kills it.
ChildTimesOut ==
    /\ Spend(TimeLimit)
    /\ seen' = Append(seen, "timeout")
    /\ PrintLine("timeout")
    /\ UNCHANGED results

\* Only the child of stdout_match is read under `except Exception`; elsewhere an odd
\* output raises in the harness, whose traceback is the last line of the output.
Survives(o) == o # "odd" \/ (job.check = "stdout_match" /\ job.mode # "capture")

Boot ==
    /\ box = "running" /\ harness = "boot"
    /\ \E d \in 0 .. Startup : Spend(d)
    /\ harness' = IF job.check = "function_call" THEN "check" ELSE "cases"
    /\ UNCHANGED <<call, box, results, printed, history>>

\* What a capture harness hands to the next child may not be there: the harness raises
\* before there is a child.
Lacking ==
    \/ harness = "check" /\ ~job.named
    \/ harness = "cases" /\ job.gap = Len(results) + 1

HarnessRaises ==
    /\ box = "running" /\ Lacking
    /\ PrintLine("garbage")
    /\ UNCHANGED <<call, clock, results, history>>

\* function_call first asks a child whether the function is there at all.
CheckFunction ==
    /\ box = "running" /\ harness = "check" /\ ~Lacking
    /\ \/ TimeLimit \in Durations /\ ChildTimesOut
       \/ /\ \E d \in Durations \ {TimeLimit} : Spend(d)
          /\ \E o \in {"good", "died", "odd"} :
                /\ seen' = Append(seen, o)
                /\ CASE o = "good" -> harness' = "cases" /\ UNCHANGED <<printed, box>>
                     [] o = "died" -> PrintLine("runtime")
                     [] o = "odd" -> PrintLine("garbage")
          /\ UNCHANGED results
    /\ UNCHANGED <<call, faulted>>

CaseEnding == IF job.mode = "capture" THEN Ending \ {"bad"} ELSE Ending

\* One test case; a case that times out ends the whole run.
RunCase ==
    /\ box = "running" /\ harness = "cases" /\ Len(results) < Tests(job) /\ ~Lacking
    /\ \/ TimeLimit \in Durations /\ ChildTimesOut
       \/ /\ \E d \in Durations \ {TimeLimit} : Spend(d)
          /\ \E o \in CaseEnding :
                /\ seen' = Append(seen, o)
                /\ IF Survives(o)
                   THEN /\ results' = Append(results, o)
                        /\ UNCHANGED <<harness, printed, box>>
                   ELSE PrintLine("garbage") /\ UNCHANGED results
    /\ UNCHANGED <<call, faulted>>

Report ==
    /\ box = "running" /\ harness = "cases" /\ Len(results) = Tests(job)
    /\ PrintLine("results")
    /\ UNCHANGED <<call, clock, results, history>>

\* What the harness is waiting for may take.
Pending ==
    {d \in 0 .. Startup : harness = "boot"}
    \cup {d \in Durations : \/ harness = "check"
                            \/ harness = "cases" /\ Len(results) < Tests(job)}

\* The Deadline passes before the harness or its child has come to its end.
Overrun ==
    /\ box = "running" /\ clock < Deadline(job) /\ ~Lacking
    /\ harness = "hung" \/ \E d \in Pending : clock + d > Deadline(job)
    /\ clock' = Deadline(job)
    /\ UNCHANGED <<call, box, harness, results, printed, history>>

\* The harness is killed, for the memory the container used, say.
HarnessDies ==
    /\ Faults
    /\ box = "running"
    /\ box' = "exited" /\ harness' = "exited" /\ faulted' = faulted \cup {"harness"}
    /\ UNCHANGED <<call, clock, results, printed, seen>>

\* The harness stops for whatever reason: what the limit of the container is there for.
HarnessHangs ==
    /\ Faults
    /\ box = "running" /\ harness # "hung"
    /\ harness' = "hung" /\ faulted' = faulted \cup {"hang"}
    /\ UNCHANGED <<call, box, clock, results, printed, seen>>

Inside == Boot \/ HarnessRaises \/ CheckFunction \/ RunCase \/ Report \/ Overrun
          \/ HarnessDies \/ HarnessHangs
-----------------------------------------------------------------------------
\* The host.
NoAnswer == [status |-> "none", passed |-> 0, failed |-> {}]
Failure(status) == [status |-> status, passed |-> 0, failed |-> {}]

Goto(h) == host' = h /\ UNCHANGED <<job, answer>>
Answer(a) == host' = "answered" /\ answer' = a /\ UNCHANGED <<job, outcome>>
Fault(c) == Faults /\ faulted' = faulted \cup {c} /\ UNCHANGED seen

\* A call comes in, with nothing left of an earlier one.
Receive(j) ==
    /\ job' = j
    /\ host' = "compile"
    /\ box' = "none" /\ clock' = 0 /\ harness' = "boot"
    /\ results' = << >> /\ printed' = "nothing" /\ outcome' = "none"
    /\ answer' = NoAnswer
    /\ seen' = << >> /\ faulted' = {}

\* Only a SyntaxError is caught: text that cannot be source at all (a null byte, half a
\* surrogate pair) makes compile() raise something else, which leaves run_judge.
Compile ==
    /\ host = "compile"
    /\ \/ Goto("launch") /\ UNCHANGED <<outcome, history>>
       \/ Answer(Failure("SYNTAX_ERROR")) /\ UNCHANGED history
       \/ /\ Answer(Failure("EXCEPTION"))
          /\ faulted' = faulted \cup {"compile"} /\ UNCHANGED seen
    /\ UNCHANGED <<box, inside>>

\* docker.from_env() and containers.run.  A container that was created but could not
\* be started stays behind.  A connection that breaks or times out is no DockerException:
\* it leaves run_judge, and whatever the daemon did of the request stays, a container
\* that runs included.
Launch ==
    /\ host = "launch"
    /\ \/ /\ Goto("wait")
          /\ box' = "running"
          /\ UNCHANGED <<outcome, history>>
       \/ /\ Fault("launch")
          /\ Answer(Failure("INTERNAL_ERROR"))
          /\ box' \in {"none", "created"}
       \/ /\ Fault("start")
          /\ Answer(Failure("EXCEPTION"))
          /\ box' \in {"none", "created", "running"}
    /\ UNCHANGED inside

Exited ==
    /\ host = "wait" /\ box = "exited"
    /\ Goto("logs")
    /\ UNCHANGED <<outcome, box, inside, history>>

\* The answer to container.wait may be late or lost although the container has ended.
WaitExpiresNever == \* MUTANT: container.wait without a timeout
    /\ host = "wait"
    /\ Fault("wait")
    /\ Goto("kill")
    /\ UNCHANGED <<outcome, box, inside>>

WaitExpires ==
    /\ host = "wait"
    /\ \/ clock = Deadline(job) /\ UNCHANGED history
       \/ Fault("wait")
    /\ Goto("kill")
    /\ UNCHANGED <<outcome, box, inside>>

\* Any other error of the wait is not caught; the container is removed all the same.
WaitFails ==
    /\ host = "wait"
    /\ Fault("wait")
    /\ outcome' = "EXCEPTION"
    /\ Goto("remove")
    /\ UNCHANGED <<box, inside>>

Kill ==
    /\ host = "kill" /\ box = "running"
    /\ box' = "exited"
    /\ outcome' = "TIME_LIMIT"
    /\ Goto("remove")
    /\ UNCHANGED <<inside, history>>

\* MUTANT: the container is only removed if nothing was raised.
KillFailsUnremoved ==
    /\ host = "kill"
    /\ \/ box = "exited" /\ UNCHANGED history
       \/ Fault("kill")
    /\ outcome' = "EXCEPTION"
    /\ Goto("conclude")
    /\ UNCHANGED <<box, inside>>

\* Docker refuses to kill a container that has ended meanwhile; where the call fails
\* otherwise, the container may be dead or not.
KillFails ==
    /\ host = "kill"
    /\ \/ box = "exited" /\ UNCHANGED <<box, history>>
       \/ Fault("kill") /\ box' \in {box, "exited"}
    /\ outcome' = "EXCEPTION"
    /\ Goto("remove")
    /\ UNCHANGED inside

\* MUTANT: a container without output counts as an error of the program.
TranslateBlames(line) ==
    CASE line = "results" -> "OK"
      [] line = "timeout" -> "TIME_LIMIT"
      [] line \in {"runtime", "nothing"} -> "RUNTIME_ERROR"
      [] line = "garbage" -> "INTERNAL_ERROR"

\* HOST_OUTCOME_STATUSES and the translation of the harness's own words.
Translate(line) ==
    CASE line = "results" -> "OK"
      [] line = "timeout" -> "TIME_LIMIT"
      [] line = "runtime" -> "RUNTIME_ERROR"
      [] line \in {"nothing", "garbage"} -> "INTERNAL_ERROR"

ReadLogs ==
    /\ host = "logs"
    /\ \/ outcome' = Translate(printed) /\ UNCHANGED history
       \/ Fault("logs") /\ outcome' = "EXCEPTION"
    /\ Goto("remove")
    /\ UNCHANGED <<box, inside>>

\* The `finally` of _run_container.
Remove ==
    /\ host = "remove"
    /\ \/ box' = "none" /\ UNCHANGED <<outcome, history>>
       \/ Fault("remove") /\ outcome' = "EXCEPTION" /\ box' \in {box, "none"}
    /\ Goto("conclude")
    /\ UNCHANGED inside

Good == {i \in DOMAIN results : results[i] = "good"}
Failed == DOMAIN results \ Good

Verdict ==
    IF outcome # "OK" THEN Failure(outcome)
    ELSE IF job.mode = "capture" THEN [status |-> "OK", passed |-> Cardinality(Good), failed |-> Failed]
    ELSE IF Cardinality(Good) = Tests(job)
         THEN [status |-> "ACCEPTED", passed |-> Cardinality(Good), failed |-> {}]
    ELSE [status |-> "WRONG_ANSWER", passed |-> Cardinality(Good),
          failed |-> IF job.mode = "submit" THEN Failed ELSE {}]

Conclude ==
    /\ host = "conclude"
    /\ Answer(Verdict)
    /\ UNCHANGED <<box, inside, history>>

Host == Compile \/ Launch \/ Exited \/ WaitExpires \/ WaitFails \/ Kill \/ KillFails
        \/ ReadLogs \/ Remove \/ Conclude
-----------------------------------------------------------------------------
Idle == [mode |-> "run", check |-> "stdout_match", program |-> 0, named |-> TRUE, gap |-> 0]

JudgeInit ==
    /\ job = Idle /\ host = "idle" /\ box = "none" /\ clock = 0 /\ harness = "boot"
    /\ results = << >> /\ printed = "nothing" /\ outcome = "none" /\ answer = NoAnswer
    /\ seen = << >> /\ faulted = {}

Work == Inside \/ Host
-----------------------------------------------------------------------------
\* The outcomes of the test cases, without the child that looks for the function.
Cases == IF job.check = "function_call" THEN Tail(seen) ELSE seen
Answered == host = "answered"

\* A score is a score of every test of the mode, hidden ones included, each run to its
\* end: ACCEPTED means that all gave the expected value, and a refused submission names
\* exactly the ones that did not.
VerdictIsEarned ==
    Answered /\ answer.status \in Scored =>
        LET good == {i \in DOMAIN Cases : Cases[i] = "good"} IN
        /\ Len(Cases) = Tests(job) /\ "timeout" \notin {seen[i] : i \in DOMAIN seen}
        /\ answer.passed = Cardinality(good)
        /\ answer.status = "ACCEPTED" => good = DOMAIN Cases
        /\ answer.status = "WRONG_ANSWER" => good # DOMAIN Cases
        /\ job.mode = "submit" => answer.failed = DOMAIN Cases \ good

\* The student is blamed for what the program did and Docker for the rest.  A program
\* whose children all end in time, on a machine that works, is scored, if the Deadline
\* has room for the limits of all its children or was not reached: TIME_LIMIT then is
\* the mark of a child that used up its own limit, as judge_service.py:25-28 says.  (It
\* says so of every problem, but CONTAINER_TIMEOUT_CAP_SEC, and the child that looks
\* for the function, leave some without the room.)  RUNTIME_ERROR comes from a program
\* that did not even define its function; INTERNAL_ERROR, which the monitor does not
\* count against the student, from a fault, an output that no harness can read, or, in a
\* capture, a template that lacks what the harness needs.
BlameIsFair ==
    Answered =>
        LET did == {seen[i] : i \in DOMAIN seen}
            onTime == faulted = {} /\ (Roomy(job) \/ clock < Deadline(job))
        IN
        /\ answer.status = "TIME_LIMIT" => "timeout" \in did \/ ~onTime
        /\ answer.status = "RUNTIME_ERROR" => job.check = "function_call" /\ seen = <<"died">>
        /\ answer.status = "INTERNAL_ERROR" =>
              \/ faulted \cap {"launch", "harness"} # {}
              \/ "odd" \in did
              \/ job.mode = "capture" /\ ~Whole(job)
        /\ answer.status = "EXCEPTION" => ~onTime
        /\ onTime /\ Whole(job) /\ did \subseteq {"good", "bad"} =>
              answer.status \in Scored \cup {"SYNTAX_ERROR"}

\* Whatever happens to the wait, the kill or the output, no container goes on running
\* once the caller has its answer.  Only a Docker that fails to remove it may keep one,
\* or one that starts it and whose answer to the start is lost: run_judge then knows no
\* container to remove.
ContainersAreRemoved ==
    Answered => \/ box = "none"
                \/ box = "created" /\ "launch" \in faulted
                \/ faulted \cap {"start", "remove"} # {}

=============================================================================
