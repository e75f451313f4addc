-------------------------------- MODULE Tutor --------------------------------
(***************************************************************************)
(* The tutor between the agent service and the student: the four requests  *)
(* that make the backend ask the agent (backend/app/agent/router.py, the   *)
(* run of a program, the background task of a heartbeat), the log of       *)
(* interventions, the polling of that log (frontend/src/useCodingTrace.ts) *)
(* and the chat panel (frontend/src/AiTutorPanel.tsx).                     *)
(*                                                                         *)
(* One student, one session.  The log holds the session's interventions    *)
(* only, numbered by position; the other events take seqs in between and   *)
(* change nothing here, as long as no poll has more of them to report than *)
(* get_events returns at once (500).  The sentence that tells the student  *)
(* that an answer is expected is layout and left out.                      *)
(***************************************************************************)
EXTENDS TutorPipeline, Naturals, Sequences

CONSTANTS
    Earlier,  \* the call answered before the page was loaded, or NoCall
    MaxPolls  \* polls the browser may have in flight

ASSUME EarlierAssumption == Earlier \in Calls \cup {NoCall} /\ Calls \subseteq Nat
ASSUME PollAssumption == MaxPolls \in Nat

VARIABLES
    call,   \* the requests
    log,    \* the stored AGENT_INTERVENTION events, a sequence of texts
    poll,   \* the browser's side of polling: lastSeen, primed
    polls,  \* the polls in flight, by number
    panel,  \* the state of the panel
    thread, \* the tutor's bubbles in the chat, each with the call it answers
    last,   \* the text of the newest bubble
    seen    \* history of polling: the baseline, and the newest row handed to the panel

chat == <<thread, last>>
vars == <<call, log, poll, polls, panel, chat, seen>>

-----------------------------------------------------------------------------
Kind == {"none", "trigger", "run", "sos", "chat"}
\* trigger: the background task of a heartbeat; run: POST /run and /submit;
\* sos: POST /agent/decide; chat: POST /agent/respond.
Stage == {"unused", "sent", "thinking", "recording", "replying", "failed", "done"}

Idle == [kind |-> "none", at |-> "unused", facing |-> NoCall, asked |-> NoCall,
         meant |-> FALSE, says |-> Silence]

PollIds == 1 .. MaxPolls
NoPoll == [at |-> "none", since |-> 0, upto |-> 0, latest |-> 0]

Most(a, b) == IF a < b THEN b ELSE a

\* The newest question of the log, unless something without a question came after it.
LastTutorQuestion == IF log = <<>> THEN NoCall ELSE Question(log[Len(log)])

\* What the student has in front of them: the question in the tutor's last bubble.  A
\* canned sentence has none to read.
QuestionOnScreen == IF last.by = "agent" THEN Question(last) ELSE NoCall

Begin(c, kind, facing) ==
    call' = [call EXCEPT ![c] = [Idle EXCEPT !.kind = kind, !.at = "sent", !.facing = facing]]

Goto(c, at) == call' = [call EXCEPT ![c].at = at]

\* The handler is over and what it had in hand is gone.
Finish(c) ==
    call' = [call EXCEPT ![c] = [Idle EXCEPT !.kind = call[c].kind, !.at = "done",
                                             !.meant = call[c].meant]]

-----------------------------------------------------------------------------
\* The panel.  shouldOfferHelp is failed; a run's decision or else a local sentence is
\* the tutorHint.

\* The effect that opens and closes the offer whenever the panel has changed.
Settled(p) ==
    CASE p.pending # Silence -> p
      [] p.pending = Silence /\ p.failed /\ p.offer = "idle" -> [p EXCEPT !.offer = "asking"]
      [] p.pending = Silence /\ ~p.failed /\ p.offer # "idle" -> [p EXCEPT !.offer = "idle"]
      [] OTHER -> p

Bubble(c, t) ==
    /\ thread' = thread \cup {[to |-> c, text |-> t]}
    /\ last' = t

\* MUTANT: the panel goes on sending after an answer got lost.
FailingReplyKeepsSending(c) ==
    /\ Bubble(c, Local)
    /\ UNCHANGED panel

\* submitDraft, with an answer, or with none.
ReplyArrives(c, t) ==
    /\ Bubble(c, t)
    /\ panel' = [panel EXCEPT !.sending = NoCall, !.immediate = t]

ReplyFails(c) ==
    /\ Bubble(c, Local)
    /\ panel' = [panel EXCEPT !.sending = NoCall]

\* confirmSos: WAIT and failure fall back on the tutorHint.
HelpArrives(c, t) ==
    /\ Bubble(c, IF t = Silence THEN panel.hint ELSE t)
    /\ panel' = Settled([panel EXCEPT !.sos = NoCall, !.pending = Silence,
                                      !.offer = "dismissed",
                                      !.immediate = IF t = Silence THEN @ ELSE t])

\* The end of execute: the verdict, and the decision that came with it.
RunArrives(c, failed, t) ==
    /\ panel' = Settled([panel EXCEPT !.run = NoCall, !.failed = failed,
                                      !.hint = IF t = Silence THEN Local ELSE t])
    /\ UNCHANGED chat

\* The effect on a new intervention: skipped if it was shown a moment ago, else offered.
Notice(seq, t) ==
    panel' = CASE panel.noticed = seq -> panel
               [] panel.noticed # seq /\ SameWords(panel.immediate, t) ->
                    [panel EXCEPT !.noticed = seq, !.immediate = Silence]
               [] OTHER -> [panel EXCEPT !.noticed = seq, !.pending = t, !.offer = "asking"]

Accept ==
    /\ panel.offer = "asking"
    /\ Bubble(NoCall, IF panel.pending = Silence THEN panel.hint ELSE panel.pending)
    /\ panel' = Settled([panel EXCEPT !.pending = Silence, !.offer = "dismissed"])
    /\ UNCHANGED <<call, log, poll, polls, seen>>

Decline ==
    /\ panel.offer = "asking"
    /\ panel' = Settled([panel EXCEPT !.pending = Silence, !.offer = "dismissed"])
    /\ UNCHANGED <<call, log, poll, polls, chat, seen>>

-----------------------------------------------------------------------------
\* The requests.  Calls are used in order, which ones there are makes no difference.
Fresh(c) == call[c].at = "unused" /\ \A d \in Calls : call[d].at = "unused" => c <= d

Trigger(c) ==
    /\ Fresh(c)
    /\ Begin(c, "trigger", NoCall)
    /\ UNCHANGED <<log, poll, polls, panel, chat, seen>>

Run(c) ==
    /\ Fresh(c) /\ panel.run = NoCall
    /\ Begin(c, "run", NoCall)
    /\ panel' = Settled([panel EXCEPT !.run = c, !.failed = FALSE, !.hint = Local])
    /\ UNCHANGED <<log, poll, polls, chat, seen>>

Sos(c) ==
    /\ Fresh(c) /\ panel.sos = NoCall
    /\ Begin(c, "sos", NoCall)
    /\ panel' = [panel EXCEPT !.sos = c]
    /\ UNCHANGED <<log, poll, polls, chat, seen>>

Submit(c) ==
    /\ Fresh(c) /\ panel.sending = NoCall
    /\ Begin(c, "chat", QuestionOnScreen)
    /\ panel' = Settled([panel EXCEPT !.sending = c, !.pending = Silence,
                                      !.offer = "dismissed"])
    /\ UNCHANGED <<log, poll, polls, chat, seen>>

-----------------------------------------------------------------------------
\* The backend.
ReadContext(c) ==
    /\ call[c].at = "sent"
    /\ call' = [call EXCEPT
          ![c].at = "thinking",
          ![c].asked = IF call[c].kind = "chat" THEN LastTutorQuestion ELSE NoCall]
    /\ UNCHANGED <<log, poll, polls, panel, chat, seen>>

\* A verdict the monitor saw no trigger in.
NoTrigger(c) ==
    /\ call[c].kind = "run" /\ call[c].at = "sent"
    /\ Goto(c, "replying")
    /\ UNCHANGED <<log, poll, polls, panel, chat, seen>>

\* What the agent's result says; WAIT is not recorded, a reply always has words.
Says(c, r) == IF call[c].kind = "chat" THEN ToAgentReply(c, r) ELSE ToAgentDecision(c, r)

Answered(c, r) ==
    LET t == Says(c, r) IN
    IF t = Silence /\ call[c].kind = "trigger" THEN Finish(c)
    ELSE call' = [call EXCEPT ![c].at = IF t = Silence THEN "replying" ELSE "recording",
                              ![c].meant = MeantToBeSaid(r), ![c].says = t]

AgentAnswers(c) ==
    /\ call[c].at = "thinking"
    /\ IF call[c].kind = "chat"
       THEN \E r \in Replies : Answered(c, r)
       ELSE \E paste \in BOOLEAN : \E r \in Runs(paste) : Answered(c, r)
    /\ UNCHANGED <<log, poll, polls, panel, chat, seen>>

\* The HTTP client falls back by itself: connection refused, read timeout, a status that
\* is no success, a body it cannot read.  Whatever the service still does is lost.
ClientGivesUp(c) ==
    /\ call[c].at = "thinking"
    /\ Answered(c, Broken)
    /\ UNCHANGED <<log, poll, polls, panel, chat, seen>>

\* MUTANT: only what the tutor says of its own accord is recorded.
RecordOwnAccord(c) ==
    /\ call[c].at = "recording"
    /\ IF call[c].kind = "trigger" THEN Finish(c) ELSE Goto(c, "replying")
    /\ log' = IF call[c].kind \in {"sos", "chat"} THEN log ELSE Append(log, call[c].says)
    /\ UNCHANGED <<poll, polls, panel, chat, seen>>

Record(c) ==
    /\ call[c].at = "recording"
    /\ log' = Append(log, call[c].says)
    /\ IF call[c].kind = "trigger" THEN Finish(c) ELSE Goto(c, "replying")
    /\ UNCHANGED <<poll, polls, panel, chat, seen>>

\* A query that fails.  The background task and the run swallow it (a run still returns
\* the decision it could not record), the two routes of the tutor answer 500.
StoreFails(c) ==
    /\ call[c].at \in {"sent", "recording"}
    /\ \/ call[c].kind = "trigger" /\ Finish(c)
       \/ call[c].kind = "run" /\ Goto(c, "replying")
       \/ call[c].kind \in {"sos", "chat"} /\ Goto(c, "failed")
    /\ UNCHANGED <<log, poll, polls, panel, chat, seen>>

Reply(c) ==
    /\ call[c].at = "replying"
    /\ \/ call[c].kind = "run" /\ \E failed \in BOOLEAN : RunArrives(c, failed, call[c].says)
       \/ call[c].kind = "sos" /\ HelpArrives(c, call[c].says)
       \/ call[c].kind = "chat" /\ ReplyArrives(c, call[c].says)
    /\ Finish(c)
    /\ UNCHANGED <<log, poll, polls, seen>>

\* The answer is an error, or does not arrive.
Lost(c) ==
    /\ call[c].at \in {"replying", "failed"}
    /\ \/ call[c].kind = "run" /\ RunArrives(c, TRUE, Silence)
       \/ call[c].kind = "sos" /\ HelpArrives(c, Silence)
       \/ call[c].kind = "chat" /\ ReplyFails(c)
    /\ Finish(c)
    /\ UNCHANGED <<log, poll, polls, seen>>

-----------------------------------------------------------------------------
\* Polling.  A timer starts the polls, whether earlier ones are back or not.
Poll(i) ==
    /\ polls[i].at = "none"
    /\ \A j \in PollIds : polls[j].at = "none" => i <= j
    /\ polls' = [polls EXCEPT ![i] = [NoPoll EXCEPT !.at = "sent", !.since = poll.lastSeen]]
    /\ UNCHANGED <<call, log, poll, panel, chat, seen>>

\* get_events reads the session's last seq first ...
PollSession(i) ==
    /\ polls[i].at = "sent"
    /\ polls' = [polls EXCEPT ![i].at = "opened", ![i].upto = Len(log)]
    /\ UNCHANGED <<call, log, poll, panel, chat, seen>>

\* MUTANT: ... or last.
PollRowsFirst(i) ==
    /\ polls[i].at = "opened"
    /\ polls' = [polls EXCEPT
          ![i].at = "answered", ![i].upto = Len(log),
          ![i].latest = IF polls[i].upto > polls[i].since THEN polls[i].upto ELSE 0]
    /\ UNCHANGED <<call, log, poll, panel, chat, seen>>

\* ... and the rows after `since` afterwards; the browser takes the last of them.
PollRows(i) ==
    /\ polls[i].at = "opened"
    /\ polls' = [polls EXCEPT
          ![i].at = "answered",
          ![i].latest = IF Len(log) > polls[i].since THEN Len(log) ELSE 0]
    /\ UNCHANGED <<call, log, poll, panel, chat, seen>>

PollArrives(i) ==
    /\ polls[i].at = "answered"
    /\ LET p == polls[i] IN
       /\ IF poll.primed /\ p.latest > 0
          THEN Notice(p.latest, log[p.latest])
          ELSE UNCHANGED panel
       /\ seen' = IF ~poll.primed THEN [seen EXCEPT !.baseline = p.upto]
                  ELSE [seen EXCEPT !.newest = Most(@, p.latest)]
       /\ poll' = [primed |-> TRUE, lastSeen |-> Most(poll.lastSeen, p.upto)]
    /\ polls' = [polls EXCEPT ![i] = NoPoll]
    /\ UNCHANGED <<call, log, chat>>

PollLost(i) ==
    /\ polls[i].at # "none"
    /\ polls' = [polls EXCEPT ![i] = NoPoll]
    /\ UNCHANGED <<call, log, poll, panel, chat, seen>>

-----------------------------------------------------------------------------
\* The page of a session is loaded, for the first time, or again after the tutor has
\* asked something.
Init ==
    /\ log = IF Earlier = NoCall THEN <<>> ELSE <<WordsOf("agent", Earlier, TRUE)>>
    /\ call = [c \in Calls |->
          IF c = Earlier THEN [Idle EXCEPT !.kind = "trigger", !.at = "done", !.meant = TRUE]
          ELSE Idle]
    /\ poll = [primed |-> FALSE, lastSeen |-> 0]
    /\ polls = [i \in PollIds |-> NoPoll]
    /\ panel = [offer |-> "idle", pending |-> Silence, immediate |-> Silence, noticed |-> 0,
                sending |-> NoCall, sos |-> NoCall, run |-> NoCall,
                failed |-> FALSE, hint |-> Local]
    /\ thread = {}
    /\ last = Silence
    /\ seen = [baseline |-> 0, newest |-> 0]

Student ==
    \/ \E c \in Calls : Run(c) \/ Sos(c) \/ Submit(c)
    \/ Accept
    \/ Decline

Backend ==
    \E c \in Calls :
        \/ Trigger(c) \/ ReadContext(c) \/ NoTrigger(c)
        \/ AgentAnswers(c) \/ ClientGivesUp(c)
        \/ Record(c) \/ StoreFails(c) \/ Reply(c) \/ Lost(c)

Polling ==
    \E i \in PollIds :
        Poll(i) \/ PollSession(i) \/ PollRows(i) \/ PollArrives(i) \/ PollLost(i)

Next == Student \/ Backend \/ Polling

Spec == Init /\ [][Next]_vars

\* A handler that has begun goes on, the HTTP client's timeout ends the wait for the
\* agent, which may never answer, and the browser learns that an answer is lost.
\* Nothing is assumed of the student, of polling and of the agent.
Progress(c) ==
    \/ ReadContext(c) \/ ClientGivesUp(c) \/ Record(c) \/ StoreFails(c)
    \/ Reply(c) \/ Lost(c)

FairSpec == Spec /\ \A c \in Calls : WF_vars(Progress(c))

-----------------------------------------------------------------------------
\* The shape of the state.
TypeOK ==
    /\ call \in [Calls -> [kind : Kind, at : Stage, facing : Calls \cup {NoCall},
                           asked : Calls \cup {NoCall}, meant : BOOLEAN, says : Text]]
    /\ log \in Seq(Text)
    /\ poll \in [primed : BOOLEAN, lastSeen : 0 .. Len(log)]
    /\ polls \in [PollIds -> [at : {"none", "sent", "opened", "answered"},
                              since : 0 .. Len(log), upto : 0 .. Len(log),
                              latest : 0 .. Len(log)]]
    /\ panel \in [offer : {"idle", "asking", "dismissed"}, pending : Text,
                   immediate : Text, noticed : 0 .. Len(log),
                   sending : Calls \cup {NoCall}, sos : Calls \cup {NoCall},
                   run : Calls \cup {NoCall}, failed : BOOLEAN, hint : Text]
    /\ thread \subseteq [to : Calls \cup {NoCall}, text : Text]
    /\ last \in Text
    /\ seen \in [baseline : 0 .. Len(log), newest : 0 .. Len(log)]

Said == {b.text : b \in thread}
Logged == {log[i] : i \in DOMAIN log}

\* Whatever the student reads or is offered, and whatever is on record, was meant to be
\* said: it comes from a run of the pipeline that decided to intervene and has words for
\* the student.  Failures, timeouts and decisions to WAIT never surface as an
\* intervention, by none of the three ways to the panel (answer, poll, hint of a run).
OnlyWhatWasMeantIsSaid ==
    \A t \in Said \cup Logged \cup {panel.pending, panel.hint} :
        t.call # NoCall => call[t.call].meant

\* What the tutor has said in answer to an SOS or a message is on record by then, so that
\* the next context contains it (a run may return a decision it could not record).
TheTutorRemembers ==
    \A t \in Said :
        t.call # NoCall /\ call[t.call].kind \in {"sos", "chat"} => t \in Logged

\* A message of the student is always answered, by the tutor or by a sentence that says
\* it could not, and the input is open again, whatever the agent does.
ChatsAreAnswered ==
    panel.sending # NoCall
        ~> /\ panel.sending = NoCall
           /\ \A c \in Calls : call[c].kind = "chat" => \E b \in thread : b.to = c

\* No intervention slips past the panel: of all rows that polling has moved beyond since
\* its baseline the panel has been handed the last one or a newer one, although rows are
\* recorded while polls are answered and polls overlap, fail and arrive in any order.
NothingSlipsPast ==
    poll.lastSeen <= Most(seen.baseline, seen.newest)

\* backend/app/agent/context.py:62 says of older questions that a later intervention has
\* covered them, and so "they are not what the student is answering now": a student who
\* answers a question on the screen is not judged against another one.
AnswersMeetTheirQuestion ==
    \A c \in Calls :
        /\ call[c].at \in {"thinking", "recording", "replying"}
        /\ call[c].kind = "chat"
        /\ NoCall \notin {call[c].facing, call[c].asked}
        => call[c].asked = call[c].facing
=============================================================================
