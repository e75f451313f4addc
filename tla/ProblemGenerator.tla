---------------------------- MODULE ProblemGenerator ----------------------------
(***************************************************************************)
(* The callers of Judge: a student's run or submission, and POST           *)
(* /generate-problem (service.py), which asks a language model for a       *)
(* template, has the judge run its reference solution and asks again with  *)
(* the reason of the refusal, at most MaxRetries times                     *)
(* (problem_generator_agent.py, judge_validator.py).                       *)
(*                                                                         *)
(* A template is the number of the attempt that made it.  An expected      *)
(* value is the pair of the program whose run printed it and the position  *)
(* of its test case in that run.                                           *)
(***************************************************************************)
EXTENDS Judge

CONSTANT MaxRetries \* MAX_RETRIES

ASSUME RetryAssumption == MaxRetries \in Nat

VARIABLES
    stage,    \* where generate() stands
    attempt,  \* 1 for the first call of the model
    template, \* what the model answered last
    report    \* the ValidationReport

generator == <<stage, attempt, template, report>>
allVars == <<vars, generator>>

\* ProblemTemplate asks for neither a function_name nor the input of a test case.
Templates == [check : CheckType, repeats : BOOLEAN, named : BOOLEAN, gap : 0 .. Public + Hidden]
NoTemplate == [check |-> "stdout_match", repeats |-> FALSE, named |-> TRUE, gap |-> 0]

\* The job that template t, the answer to call a of the model, makes.
CaptureJob(t, a) ==
    [mode |-> "capture", check |-> t.check, program |-> a, named |-> t.named, gap |-> t.gap]
Refused == [valid |-> FALSE, expected |-> << >>]

GeneratorInit ==
    /\ stage = "idle" /\ attempt = 0
    /\ template = NoTemplate /\ report = Refused

\* A student runs or submits; the route hands the job over and waits.
Judged ==
    /\ host = "idle" /\ stage = "idle"
    /\ \E m \in Mode \ {"capture"}, c \in CheckType :
          Receive([Idle EXCEPT !.mode = m, !.check = c])
    /\ UNCHANGED generator

Generate ==
    /\ host = "idle" /\ stage = "idle"
    /\ stage' = "ask" /\ attempt' = 1
    /\ UNCHANGED <<vars, template, report>>

\* Refuse the template and ask again, or report the refusal.
Again ==
    /\ report' = Refused
    /\ IF attempt <= MaxRetries
       THEN stage' = "ask" /\ attempt' = attempt + 1
       ELSE stage' = "reported" /\ UNCHANGED attempt

\* The model answers with a template, or fails, or its answer does not fit the schema.
Ask ==
    /\ stage = "ask"
    /\ \/ /\ template' \in Templates
          /\ stage' = "validate"
          /\ UNCHANGED <<attempt, report>>
       \/ Again /\ UNCHANGED template
    /\ UNCHANGED vars

\* Two test cases of one category are refused before anything is run.
RefuseRepeats ==
    /\ stage = "validate" /\ template.repeats
    /\ Again
    /\ UNCHANGED <<vars, template>>

Capture ==
    /\ stage = "validate" /\ ~template.repeats
    /\ Receive(CaptureJob(template, attempt))
    /\ stage' = "capture"
    /\ UNCHANGED <<attempt, template, report>>

\* _build_problem_json pairs inputs and outputs by position.
Expected == [i \in DOMAIN results |-> <<job.program, i>>]

\* MUTANT: cases in which the reference solution failed are accepted.
PassesPartly == answer.status = "OK"
\* The capture came to its end and the reference solution failed in no case.
Passes == answer.status = "OK" /\ answer.failed = {}

\* An exception of the judge leaves generate() altogether; the route catches it.
Validate ==
    /\ stage = "capture" /\ host = "answered"
    /\ CASE answer.status = "EXCEPTION" ->
              stage' = "reported" /\ report' = Refused /\ UNCHANGED attempt
         [] Passes ->
              /\ stage' = "reported"
              /\ report' = [valid |-> TRUE, expected |-> Expected]
              /\ UNCHANGED attempt
         [] OTHER -> Again
    /\ UNCHANGED <<vars, template>>

Generation == Generate \/ Ask \/ RefuseRepeats \/ Capture \/ Validate

Init == JudgeInit /\ GeneratorInit
Next ==
    \/ Work /\ UNCHANGED generator
    \/ Judged
    \/ Generation

\* The host and the generator go on, and inside the container either something happens or
\* time passes.  No fault is ever sure to happen: nothing may depend on one.
Fairness ==
    /\ WF_allVars(Host /\ faulted' = faulted /\ UNCHANGED generator)
    /\ WF_allVars(Inside /\ faulted' = faulted /\ UNCHANGED generator)
    /\ WF_allVars(Generation)

Spec == Init /\ [][Next]_allVars
FairSpec == Spec /\ Fairness
-----------------------------------------------------------------------------
\* A generated problem carries one expected value per test case, each printed by a run of
\* the last template's own reference solution that ended well; the values of an earlier,
\* refused template never get in, and the model is asked no more often than agreed.
GeneratedProblemsRan ==
    stage = "reported" =>
        /\ attempt <= MaxRetries + 1
        /\ report.valid =>
              /\ Len(report.expected) = Public + Hidden
              /\ \A i \in DOMAIN report.expected :
                    report.expected[i] = <<attempt, i>> /\ Cases[i] = "good"
              /\ ~template.repeats /\ job.check = template.check

\* Every call is answered, whether the program stops, loops or hangs, Docker loses the
\* connection or the model never finds a problem: the caller is not left waiting.
CallsAreAnswered ==
    /\ host = "compile" ~> host = "answered"
    /\ stage = "ask" ~> stage = "reported"
=============================================================================
