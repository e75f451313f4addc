---------------------------- MODULE TutorPipeline ----------------------------
(***************************************************************************)
(* What the agent service (agent/src/tutor_agent) may answer to one call.  *)
(* The language model is free: each of the agents (state, guided action,   *)
(* evaluation, tutor message) may return anything its schema allows or     *)
(* fail, which includes hanging until llm_runtime cancels the call.  What  *)
(* is kept of a result is what the adapter and the panel tell apart.       *)
(***************************************************************************)
CONSTANTS
    Calls,  \* the requests for the tutor's words, each used once
    NoCall

ASSUME CallAssumption == NoCall \notin Calls

-----------------------------------------------------------------------------
\* The words on their way to the student: whose they are, of which call, and whether they
\* come with a question.  A canned sentence is the same text in every call, whatever
\* question it is recorded with, and "local" words are made up by the browser.
Text == [by : {"agent", "canned", "local", "none"},
         call : Calls \cup {NoCall}, asks : BOOLEAN]

WordsOf(by, c, asks) == [by |-> by, call |-> c, asks |-> asks]
Canned == WordsOf("canned", NoCall, FALSE)
Local == WordsOf("local", NoCall, FALSE)
\* No words: a decision to WAIT, an empty field of the panel.
Silence == WordsOf("none", NoCall, FALSE)

SameWords(t, u) == t.by = u.by /\ (t.by = "agent" => t.call = u.call)

Question(t) == IF t.asks THEN t.call ELSE NoCall

-----------------------------------------------------------------------------
\* A run of the pipeline that raised somewhere, at any of its stages.
Broken == [intervene |-> FALSE, action |-> "broken", payload |-> FALSE,
           message |-> FALSE, asks |-> FALSE]

\* state_agent.assess with skip_gate: a paste is checked without asking the model.
Assessments(paste) == IF paste THEN {TRUE} ELSE BOOLEAN

\* guided_action_agent.plan: the action, and whether its payload has a message.
Plans == [action : {"no_op", "send_message"}, payload : BOOLEAN]

\* tutor_message_agent: whether the message has text, and whether it has a question.
Messages == [message : BOOLEAN, asks : BOOLEAN]

Finished(intervene, plan, written) ==
    [intervene |-> intervene, action |-> plan.action, payload |-> plan.payload,
     message |-> written.message, asks |-> written.asks]

NoPlan == [action |-> "none", payload |-> FALSE]
NoMessage == [message |-> FALSE, asks |-> FALSE]

WrittenFor(plan) == IF plan.action = "no_op" THEN {NoMessage} ELSE Messages

\* TutorPipeline.run: who does not intervene plans nothing, who plans nothing is not
\* written for.
Runs(paste) ==
    {Broken}
        \cup {Finished(FALSE, NoPlan, NoMessage) : i \in Assessments(paste) \ {TRUE}}
        \cup UNION {{Finished(TRUE, p, w) : w \in WrittenFor(p)} : p \in Plans}

\* TutorPipeline.respond_to_student: the evaluation only steers what is written.
Replies ==
    {Broken} \cup {Finished(TRUE, [action |-> "reply", payload |-> FALSE], w) : w \in Messages}

\* Whether a result has words, or at least a question, that were meant for the student.
MeantToBeSaid(r) == r.intervene /\ (r.message \/ r.payload \/ r.asks)

-----------------------------------------------------------------------------
\* MUTANT: with nothing to say, what the agents think of the student is said instead.
ToAgentDecisionTalkative(c, r) ==
    IF r = Broken \/ ~r.intervene \/ r.action = "no_op" THEN Silence
    ELSE WordsOf("agent", c, r.asks)

\* to_agent_decision, and WAIT when the pipeline raised: the words are the message, or
\* else the one in the action's payload, or else there are none.
ToAgentDecision(c, r) ==
    IF r = Broken \/ ~r.intervene \/ r.action = "no_op" THEN Silence
    ELSE IF r.message \/ r.payload THEN WordsOf("agent", c, r.asks)
    ELSE Silence

\* TutorAgentAdapter.respond: never silent, and the question is kept though the message
\* that should contain it is empty.
ToAgentReply(c, r) ==
    CASE r # Broken /\ r.message -> WordsOf("agent", c, r.asks)
      [] r # Broken /\ ~r.message /\ r.asks -> WordsOf("canned", c, TRUE)
      [] OTHER -> Canned
=============================================================================
