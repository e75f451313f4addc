----------------------------- MODULE TutorProofs -----------------------------
(***************************************************************************)
(* Proofs about Tutor for any number of requests and of polls in flight.   *)
(*                                                                         *)
(* The argument about words: once a call is meant to speak it stays so and *)
(* keeps its kind, and the log only grows (Grows), so words that were fit  *)
(* to be shown stay fit (Kept); it is left to see where new words come     *)
(* from.  The argument about polls: what an answer reports as newest it    *)
(* also delivers, unless the browser knew it when it asked (PollInv).      *)
(***************************************************************************)
EXTENDS Tutor, TLAPS

\* The stages before the agent has spoken.
Before == {"unused", "sent", "thinking"}

\* Fit to be shown: meant to be said and, in answer to the student, on record.
Kept(t) ==
    t.call # NoCall =>
        /\ call[t.call].meant
        /\ call[t.call].kind \in {"sos", "chat"} => t \in Logged

CallInv ==
    \A c \in Calls :
        /\ call[c].at \in Before => ~call[c].meant /\ call[c].says = Silence
        /\ call[c].says.call \in {NoCall, c}
        /\ call[c].says.call # NoCall => call[c].meant
        /\ call[c].at = "replying" => Kept(call[c].says)

\* The words in front of the student, and those on record.
Texts == Said \cup Logged \cup {panel.pending, panel.hint}

TextInv == \A t \in Texts : Kept(t)

PollInv ==
    /\ ~poll.primed => poll.lastSeen = 0
    /\ \A i \in PollIds :
          /\ polls[i].since <= poll.lastSeen
          /\ polls[i].at = "answered" =>
                polls[i].upto <= polls[i].latest \/ polls[i].upto <= poll.lastSeen
    /\ NothingSlipsPast

IInv == TypeOK /\ CallInv /\ TextInv /\ PollInv

\* What no step takes back.
Grows ==
    /\ \A c \in Calls : call[c].meant => call'[c].meant /\ call'[c].kind = call[c].kind
    /\ Logged \subseteq Logged'

-----------------------------------------------------------------------------
(* Types.                                                                  *)

CallType == [kind : Kind, at : Stage, facing : Calls \cup {NoCall},
             asked : Calls \cup {NoCall}, meant : BOOLEAN, says : Text]

PanelType(n) == [offer : {"idle", "asking", "dismissed"}, pending : Text,
                 immediate : Text, noticed : 0 .. n,
                 sending : Calls \cup {NoCall}, sos : Calls \cup {NoCall},
                 run : Calls \cup {NoCall}, failed : BOOLEAN, hint : Text]

PollType(n) == [at : {"none", "sent", "opened", "answered"},
                since : 0 .. n, upto : 0 .. n, latest : 0 .. n]

SeenType(n) == [baseline : 0 .. n, newest : 0 .. n]

\* TypeOK by its parts.
Typed ==
  /\ call \in [Calls -> CallType]
  /\ log \in Seq(Text)
  /\ poll \in [primed : BOOLEAN, lastSeen : 0 .. Len(log)]
  /\ polls \in [PollIds -> PollType(Len(log))]
  /\ panel \in PanelType(Len(log))
  /\ thread \subseteq [to : Calls \cup {NoCall}, text : Text]
  /\ last \in Text
  /\ seen \in SeenType(Len(log))

\* The types before a step, and after it, are those of the parts.
LEMMA TypeParts == (TypeOK <=> Typed) /\ (TypeOK' <=> Typed')
BY DEF TypeOK, Typed, CallType, PanelType, PollType, SeenType

\* The words of the decisions and replies are words, of the call they are made for.
LEMMA Words ==
  /\ Canned \in Text /\ Local \in Text /\ Silence \in Text
  /\ Canned.call = NoCall /\ Local.call = NoCall /\ Silence.call = NoCall
  /\ \A t \in Text : t.call \in Calls \cup {NoCall} /\ Question(t) \in Calls \cup {NoCall}
BY DEF Canned, Local, Silence, WordsOf, Text, Question

Actions == {"broken", "none", "no_op", "send_message", "reply"}
Result == [intervene : BOOLEAN, action : Actions, payload : BOOLEAN,
           message : BOOLEAN, asks : BOOLEAN]

\* Every result of the pipeline has the fields the adapter reads, and a reply that did
\* not break always intervenes.
LEMMA Results ==
  /\ Broken \in Result
  /\ \A paste \in BOOLEAN : Runs(paste) \subseteq Result
  /\ \A r \in Replies : r \in Result /\ (r # Broken => r.intervene)
<1>1. Broken \in Result
  BY DEF Broken, Result, Actions
<1>2. ASSUME NEW i \in BOOLEAN, NEW p \in [action : Actions, payload : BOOLEAN],
             NEW w \in [message : BOOLEAN, asks : BOOLEAN]
      PROVE  Finished(i, p, w) \in Result /\ Finished(i, p, w).intervene = i
  BY DEF Finished, Result
<1>3. /\ NoPlan \in [action : Actions, payload : BOOLEAN]
      /\ NoMessage \in [message : BOOLEAN, asks : BOOLEAN]
      /\ Plans \subseteq [action : Actions, payload : BOOLEAN]
      /\ Messages = [message : BOOLEAN, asks : BOOLEAN]
  BY DEF NoPlan, NoMessage, Plans, Messages, Actions
<1>4. ASSUME NEW paste \in BOOLEAN, NEW r \in Runs(paste)
      PROVE  r \in Result
  <2>1. CASE r \in {Broken}
    BY <1>1, <2>1
  <2>2. CASE r \in {Finished(FALSE, NoPlan, NoMessage) : i \in Assessments(paste) \ {TRUE}}
    BY <1>2, <1>3, <2>2, Zenon
  <2>3. CASE r \in UNION {{Finished(TRUE, p, w) : w \in WrittenFor(p)} : p \in Plans}
    <3>1. PICK p \in Plans : r \in {Finished(TRUE, p, w) : w \in WrittenFor(p)}
      BY <2>3, Zenon
    <3>2. PICK w \in WrittenFor(p) : r = Finished(TRUE, p, w)
      BY <3>1, Zenon
    <3>3. w \in {NoMessage} \/ w \in Messages
      BY Zenon DEF WrittenFor
    <3>4. w \in [message : BOOLEAN, asks : BOOLEAN] /\ p \in [action : Actions, payload : BOOLEAN]
      BY <1>3, <3>3
    <3> QED
      BY <1>2, <3>2, <3>4, Zenon
  <2> QED
    BY <2>1, <2>2, <2>3, Zenon DEF Runs
<1>5. ASSUME NEW r \in Replies
      PROVE  r \in Result /\ (r # Broken => r.intervene)
  <2>1. r = Broken \/ \E w \in Messages :
                         r = Finished(TRUE, [action |-> "reply", payload |-> FALSE], w)
    BY DEF Replies
  <2>2. [action |-> "reply", payload |-> FALSE] \in [action : Actions, payload : BOOLEAN]
    BY DEF Actions
  <2>3. CASE r = Broken
    BY <1>1, <2>3
  <2>4. ASSUME NEW w \in Messages,
               r = Finished(TRUE, [action |-> "reply", payload |-> FALSE], w)
        PROVE  r \in Result /\ r.intervene
    BY <1>2, <1>3, <2>2, <2>4, Zenon
  <2> QED
    BY <2>1, <2>3, <2>4
<1> QED
  BY <1>1, <1>4, <1>5

\* What the adapter makes of a result: words of this call, and only if they were meant.
LEMMA Adapter ==
  ASSUME NEW c \in Calls, NEW r \in Result
  PROVE  /\ ToAgentDecision(c, r) \in Text /\ ToAgentReply(c, r) \in Text
         /\ ToAgentDecision(c, r).call \in {NoCall, c}
         /\ ToAgentReply(c, r).call \in {NoCall, c}
         /\ ToAgentDecision(c, r).call # NoCall => MeantToBeSaid(r)
         /\ ToAgentReply(c, r).call # NoCall => r # Broken /\ (r.message \/ r.asks)
         /\ MeantToBeSaid(r) \in BOOLEAN
BY Words DEF Result, ToAgentDecision, ToAgentReply, WordsOf, Text, MeantToBeSaid

\* The effect keeps the panel's type, the offer's words and the hint.
LEMMA SettledPanel ==
  ASSUME NEW n \in Nat, NEW p \in PanelType(n)
  PROVE  /\ Settled(p) \in PanelType(n)
         /\ Settled(p).pending = p.pending
         /\ Settled(p).hint = p.hint
BY DEF PanelType, Settled

\* The call of a handler, and no other, is now r.
Becomes(c, r) == r \in CallType /\ call' = [call EXCEPT ![c] = r]

\* What the steps of a handler do to its call.
LEMMA CallSteps ==
  ASSUME TypeOK, NEW c \in Calls
  PROVE
    /\ \A k \in Kind, q \in Calls \cup {NoCall} : Begin(c, k, q) =>
          \E r : Becomes(c, r) /\ r.at = "sent" /\ ~r.meant /\ r.says = Silence
    /\ \A at \in Stage : Goto(c, at) =>
          \E r : /\ Becomes(c, r) /\ r.at = at /\ r.kind = call[c].kind
                 /\ r.meant = call[c].meant /\ r.says = call[c].says
    /\ Finish(c) =>
          \E r : /\ Becomes(c, r) /\ r.at = "done" /\ r.kind = call[c].kind
                 /\ r.meant = call[c].meant /\ r.says = Silence
    /\ ReadContext(c) =>
          \E r : /\ Becomes(c, r) /\ r.at = "thinking" /\ r.kind = call[c].kind
                 /\ r.meant = call[c].meant /\ r.says = call[c].says
    /\ \A res \in Result : Answered(c, res) =>
          \/ Finish(c)
          \/ \E r : /\ Becomes(c, r) /\ r.at \in {"recording", "replying"}
                    /\ r.at = "replying" => Says(c, res) = Silence
                    /\ r.kind = call[c].kind
                    /\ r.meant = MeantToBeSaid(res) /\ r.says = Says(c, res)
<1> USE Words, TypeParts DEF Typed
<1>1. Idle \in CallType /\ call[c] \in CallType
  BY DEF Idle, CallType, Kind, Stage
<1>2. ASSUME NEW k \in Kind, NEW q \in Calls \cup {NoCall}, Begin(c, k, q)
      PROVE  \E r : Becomes(c, r) /\ r.at = "sent" /\ ~r.meant /\ r.says = Silence
  <2> DEFINE r == [Idle EXCEPT !.kind = k, !.at = "sent", !.facing = q]
  <2>1. r \in CallType /\ r.at = "sent" /\ ~r.meant /\ r.says = Silence
    BY DEF Idle, CallType, Kind, Stage
  <2>2. call' = [call EXCEPT ![c] = r]
    BY <1>2 DEF Begin
  <2> HIDE DEF r
  <2> QED
    BY <2>1, <2>2 DEF Becomes
<1>3. ASSUME NEW at \in Stage, Goto(c, at)
      PROVE  \E r : /\ Becomes(c, r) /\ r.at = at /\ r.kind = call[c].kind
                    /\ r.meant = call[c].meant /\ r.says = call[c].says
  <2> DEFINE r == [call[c] EXCEPT !.at = at]
  <2>1. /\ r \in CallType /\ r.at = at /\ r.kind = call[c].kind
        /\ r.meant = call[c].meant /\ r.says = call[c].says
    BY <1>1 DEF CallType
  <2>2. call' = [call EXCEPT ![c] = r]
    BY <1>3 DEF Goto
  <2> HIDE DEF r
  <2> QED
    BY <2>1, <2>2 DEF Becomes
<1>4. ASSUME Finish(c)
      PROVE  \E r : /\ Becomes(c, r) /\ r.at = "done" /\ r.kind = call[c].kind
                    /\ r.meant = call[c].meant /\ r.says = Silence
  <2> DEFINE r == [Idle EXCEPT !.kind = call[c].kind, !.at = "done", !.meant = call[c].meant]
  <2>1. call[c].kind \in Kind /\ call[c].meant \in BOOLEAN
    BY <1>1 DEF CallType
  <2>2. /\ r \in CallType /\ r.at = "done" /\ r.kind = call[c].kind
        /\ r.meant = call[c].meant /\ r.says = Silence
    BY <2>1 DEF Idle, CallType, Stage
  <2>3. call' = [call EXCEPT ![c] = r]
    BY <1>4 DEF Finish
  <2> HIDE DEF r
  <2> QED
    BY <2>2, <2>3 DEF Becomes
<1>5. ASSUME ReadContext(c)
      PROVE  \E r : /\ Becomes(c, r) /\ r.at = "thinking" /\ r.kind = call[c].kind
                    /\ r.meant = call[c].meant /\ r.says = call[c].says
  <2> DEFINE q == IF call[c].kind = "chat" THEN LastTutorQuestion ELSE NoCall
             r == [call[c] EXCEPT !.at = "thinking", !.asked = q]
  <2>1. LastTutorQuestion \in Calls \cup {NoCall}
    BY DEF LastTutorQuestion
  <2>2. q \in Calls \cup {NoCall}
    BY <2>1
  <2>3. call' = [call EXCEPT ![c].at = "thinking", ![c].asked = q]
    BY <1>5 DEF ReadContext
  <2> HIDE DEF q
  <2>4. /\ r \in CallType /\ r.at = "thinking" /\ r.kind = call[c].kind
        /\ r.meant = call[c].meant /\ r.says = call[c].says
    BY <1>1, <2>2 DEF CallType, Stage
  <2>5. call' = [call EXCEPT ![c] = r]
    BY <2>3, Zenon
  <2> HIDE DEF r
  <2> QED
    BY <2>4, <2>5 DEF Becomes
<1>6. ASSUME NEW res \in Result, Answered(c, res), ~Finish(c)
      PROVE  \E r : /\ Becomes(c, r) /\ r.at \in {"recording", "replying"}
                    /\ r.at = "replying" => Says(c, res) = Silence
                    /\ r.kind = call[c].kind
                    /\ r.meant = MeantToBeSaid(res) /\ r.says = Says(c, res)
  <2> DEFINE at == IF Says(c, res) = Silence THEN "replying" ELSE "recording"
             meant == MeantToBeSaid(res)
             t == Says(c, res)
             r == [call[c] EXCEPT !.at = at, !.meant = meant, !.says = t]
  <2>1. t \in Text /\ meant \in BOOLEAN
    BY Adapter DEF Says
  <2>2. at \in {"recording", "replying"} /\ (at = "replying" => t = Silence)
    OBVIOUS
  <2>3. call' = [call EXCEPT ![c].at = at, ![c].meant = meant, ![c].says = t]
    BY <1>6, Zenon DEF Answered
  <2> HIDE DEF at, meant, t
  <2>4. /\ r \in CallType /\ r.at = at /\ r.kind = call[c].kind
        /\ r.meant = meant /\ r.says = t
    BY <1>1, <2>1, <2>2 DEF CallType, Stage
  <2>5. call' = [call EXCEPT ![c] = r]
    BY <2>3, Zenon
  <2> HIDE DEF r
  <2>6. t = Says(c, res) /\ meant = MeantToBeSaid(res)
    BY Zenon DEF t, meant
  <2> QED
    BY <2>2, <2>4, <2>5, <2>6 DEF Becomes
<1> QED
  BY <1>2, <1>3, <1>4, <1>5, <1>6, Zenon

\* What a handler does to its own call keeps the types.
LEMMA CallTypes ==
  ASSUME TypeOK, NEW c \in Calls
  PROVE  /\ \A k \in Kind, q \in Calls \cup {NoCall} :
               Begin(c, k, q) => call' \in [Calls -> CallType]
         /\ \A at \in Stage : Goto(c, at) => call' \in [Calls -> CallType]
         /\ Finish(c) => call' \in [Calls -> CallType]
         /\ ReadContext(c) => call' \in [Calls -> CallType]
         /\ \A r \in Result : Answered(c, r) => call' \in [Calls -> CallType]
<1>1. \A r : Becomes(c, r) => call' \in [Calls -> CallType]
  BY TypeParts DEF Becomes, Typed
<1> QED
  BY <1>1, CallSteps, Zenon

\* A new row of the log leaves the positions known so far positions.
LEMMA LongerLog ==
  ASSUME TypeOK, NEW t \in Text, log' = Append(log, t),
         UNCHANGED <<poll, polls, panel, seen>>
  PROVE  /\ log' \in Seq(Text) /\ Len(log') = Len(log) + 1
         /\ poll' \in [primed : BOOLEAN, lastSeen : 0 .. Len(log')]
         /\ polls' \in [PollIds -> PollType(Len(log'))]
         /\ panel' \in PanelType(Len(log'))
         /\ seen' \in SeenType(Len(log'))
<1> USE TypeParts DEF Typed
<1>1. log' \in Seq(Text) /\ Len(log') = Len(log) + 1 /\ Len(log) \in Nat
  OBVIOUS
<1>2. 0 .. Len(log) \subseteq 0 .. Len(log')
  BY <1>1
<1> QED
  BY <1>1, <1>2 DEF PollType, PanelType, SeenType

\* A bubble is a bubble.
LEMMA BubbleTypes ==
  ASSUME TypeOK, NEW c \in Calls \cup {NoCall}, NEW t \in Text, Bubble(c, t)
  PROVE  thread' \subseteq [to : Calls \cup {NoCall}, text : Text] /\ last' \in Text
BY TypeParts DEF Bubble, Typed

\* An answer that arrives, or is known to be lost, keeps the panel and the chat in shape.
LEMMA PanelTypes ==
  ASSUME TypeOK, NEW c \in Calls, NEW t \in Text, NEW failed \in BOOLEAN
  PROVE  /\ ReplyArrives(c, t) \/ ReplyFails(c) \/ HelpArrives(c, t)
                \/ RunArrives(c, failed, t) =>
             /\ panel' \in PanelType(Len(log))
             /\ thread' \subseteq [to : Calls \cup {NoCall}, text : Text]
             /\ last' \in Text
<1> USE TypeParts, Words DEF Typed
<1>1. Len(log) \in Nat
  OBVIOUS
<1>2. CASE ReplyArrives(c, t)
  BY <1>2, BubbleTypes DEF ReplyArrives, PanelType
<1>3. CASE ReplyFails(c)
  BY <1>3, BubbleTypes DEF ReplyFails, PanelType
<1>4. CASE HelpArrives(c, t)
  <2> DEFINE p == [panel EXCEPT !.sos = NoCall, !.pending = Silence,
                                !.offer = "dismissed",
                                !.immediate = IF t = Silence THEN @ ELSE t]
  <2>1. p \in PanelType(Len(log)) /\ panel.hint \in Text
    BY DEF PanelType
  <2>2. panel' = Settled(p) /\ Bubble(c, IF t = Silence THEN panel.hint ELSE t)
    BY <1>4, Zenon DEF HelpArrives
  <2> HIDE DEF p
  <2> QED
    BY <1>1, <2>1, <2>2, SettledPanel, BubbleTypes
<1>5. CASE RunArrives(c, failed, t)
  <2> DEFINE p == [panel EXCEPT !.run = NoCall, !.failed = failed,
                                !.hint = IF t = Silence THEN Local ELSE t]
  <2>1. p \in PanelType(Len(log))
    BY DEF PanelType
  <2>2. panel' = Settled(p) /\ UNCHANGED <<thread, last>>
    BY <1>5, Zenon DEF RunArrives, chat
  <2> HIDE DEF p
  <2> QED
    BY <1>1, <2>1, <2>2, SettledPanel
<1> QED
  BY <1>2, <1>3, <1>4, <1>5

\* Offering an intervention keeps the panel in shape.
LEMMA NoticeTypes ==
  ASSUME TypeOK, NEW q \in 0 .. Len(log), NEW t \in Text, Notice(q, t)
  PROVE  panel' \in PanelType(Len(log))
BY Words, TypeParts DEF Notice, PanelType, Typed

\* The poll i, and no other, is now r.
Turns(i, r) == r \in PollType(Len(log)) /\ polls' = [polls EXCEPT ![i] = r]

\* What the steps of a poll do to it.
LEMMA PollSteps ==
  ASSUME TypeOK, NEW i \in PollIds
  PROVE
    /\ Poll(i) => \E r : Turns(i, r) /\ r.at = "sent" /\ r.since = poll.lastSeen
    /\ PollSession(i) =>
          \E r : Turns(i, r) /\ r.at = "opened" /\ r.since = polls[i].since /\ r.upto = Len(log)
    /\ PollRows(i) =>
          \E r : /\ Turns(i, r) /\ r.at = "answered" /\ r.since = polls[i].since
                 /\ r.upto = polls[i].upto
                 /\ r.latest = IF Len(log) > polls[i].since THEN Len(log) ELSE 0
    /\ PollArrives(i) \/ PollLost(i) =>
          \E r : Turns(i, r) /\ r.at = "none" /\ r.since = 0
<1> USE TypeParts DEF Typed
<1>1. Len(log) \in Nat /\ polls[i] \in PollType(Len(log)) /\ poll.lastSeen \in 0 .. Len(log)
  OBVIOUS
<1>2. NoPoll \in PollType(Len(log)) /\ NoPoll.at = "none" /\ NoPoll.since = 0
  BY <1>1 DEF NoPoll, PollType
<1>3. ASSUME Poll(i)
      PROVE  \E r : Turns(i, r) /\ r.at = "sent" /\ r.since = poll.lastSeen
  <2> DEFINE since == poll.lastSeen
             r == [NoPoll EXCEPT !.at = "sent", !.since = since]
  <2>1. polls' = [polls EXCEPT ![i] = r]
    BY <1>3 DEF Poll
  <2>2. since \in 0 .. Len(log) /\ since = poll.lastSeen
    BY <1>1
  <2> HIDE DEF since
  <2>3. r \in PollType(Len(log)) /\ r.at = "sent" /\ r.since = since
    BY <1>2, <2>2 DEF PollType
  <2> HIDE DEF r
  <2> QED
    BY <2>1, <2>2, <2>3 DEF Turns
<1>4. ASSUME PollSession(i)
      PROVE  \E r : /\ Turns(i, r) /\ r.at = "opened" /\ r.since = polls[i].since
                    /\ r.upto = Len(log)
  <2> DEFINE n == Len(log)
             r == [polls[i] EXCEPT !.at = "opened", !.upto = n]
  <2>1. polls' = [polls EXCEPT ![i].at = "opened", ![i].upto = n]
    BY <1>4 DEF PollSession
  <2>2. n \in 0 .. Len(log) /\ n = Len(log)
    BY <1>1
  <2> HIDE DEF n
  <2>3. /\ r \in PollType(Len(log)) /\ r.at = "opened" /\ r.since = polls[i].since
        /\ r.upto = n
    BY <1>1, <2>2 DEF PollType
  <2>4. polls' = [polls EXCEPT ![i] = r]
    BY <2>1, Zenon
  <2> HIDE DEF r
  <2> QED
    BY <2>2, <2>3, <2>4 DEF Turns
<1>5. ASSUME PollRows(i)
      PROVE  \E r : /\ Turns(i, r) /\ r.at = "answered" /\ r.since = polls[i].since
                    /\ r.upto = polls[i].upto
                    /\ r.latest = IF Len(log) > polls[i].since THEN Len(log) ELSE 0
  <2> DEFINE n == IF Len(log) > polls[i].since THEN Len(log) ELSE 0
             r == [polls[i] EXCEPT !.at = "answered", !.latest = n]
  <2>1. polls' = [polls EXCEPT ![i].at = "answered", ![i].latest = n]
    BY <1>5 DEF PollRows
  <2>2. n \in 0 .. Len(log) /\ n = IF Len(log) > polls[i].since THEN Len(log) ELSE 0
    BY <1>1
  <2> HIDE DEF n
  <2>3. /\ r \in PollType(Len(log)) /\ r.at = "answered" /\ r.since = polls[i].since
        /\ r.upto = polls[i].upto /\ r.latest = n
    BY <1>1, <2>2 DEF PollType
  <2>4. polls' = [polls EXCEPT ![i] = r]
    BY <2>1, Zenon
  <2> HIDE DEF r
  <2> QED
    BY <2>2, <2>3, <2>4 DEF Turns
<1>6. ASSUME PollArrives(i) \/ PollLost(i)
      PROVE  \E r : Turns(i, r) /\ r.at = "none" /\ r.since = 0
  BY <1>2, <1>6, Zenon DEF PollArrives, PollLost, Turns
<1> QED
  BY <1>3, <1>4, <1>5, <1>6, Zenon

\* The initial state has its types.
LEMMA TypeInit == Init => TypeOK
<1> SUFFICES ASSUME Init PROVE TypeOK
  OBVIOUS
<1> USE Words
<1>1. log \in Seq(Text) /\ Len(log) \in Nat
  <2>1. CASE Earlier = NoCall
    BY <2>1 DEF Init
  <2>2. CASE Earlier # NoCall
    <3>1. WordsOf("agent", Earlier, TRUE) \in Text
      BY EarlierAssumption, <2>2 DEF WordsOf, Text
    <3>2. log = <<WordsOf("agent", Earlier, TRUE)>>
      BY <2>2 DEF Init
    <3>3. \A t \in Text : <<t>> \in Seq(Text) /\ Len(<<t>>) = 1
      OBVIOUS
    <3> QED
      BY <3>1, <3>2, <3>3
  <2> QED
    BY <2>1, <2>2
<1>2. call \in [Calls -> CallType]
  <2>1. Idle \in CallType
    BY DEF Idle, CallType, Kind, Stage
  <2>2. [Idle EXCEPT !.kind = "trigger", !.at = "done", !.meant = TRUE] \in CallType
    BY <2>1 DEF CallType, Kind, Stage
  <2> QED
    BY <2>1, <2>2, Zenon DEF Init
<1>3. /\ poll \in [primed : BOOLEAN, lastSeen : 0 .. Len(log)]
      /\ polls \in [PollIds -> PollType(Len(log))]
      /\ seen \in SeenType(Len(log))
  BY <1>1 DEF Init, NoPoll, PollType, SeenType
<1>4. panel \in PanelType(Len(log))
  BY <1>1 DEF Init, PanelType
<1> QED
  BY <1>1, <1>2, <1>3, <1>4, TypeParts DEF Init, Typed

\* Every step keeps the types.
LEMMA TypeStep == TypeOK /\ [Next]_vars => TypeOK'
<1> SUFFICES ASSUME TypeOK, [Next]_vars PROVE TypeOK'
  OBVIOUS
<1> USE TypeParts, Words DEF Typed
<1>0. Len(log) \in Nat
  OBVIOUS
<1>1. ASSUME call' \in [Calls -> CallType],
             UNCHANGED <<log, poll, polls, panel, chat, seen>>
      PROVE  TypeOK'
  BY <1>1 DEF chat
<1>2. ASSUME call' \in [Calls -> CallType], panel' \in PanelType(Len(log)),
             thread' \subseteq [to : Calls \cup {NoCall}, text : Text], last' \in Text,
             UNCHANGED <<log, poll, polls, seen>>
      PROVE  TypeOK'
  BY <1>2
<1>3. ASSUME polls' \in [PollIds -> PollType(Len(log))],
             UNCHANGED <<call, log, poll, panel, chat, seen>>
      PROVE  TypeOK'
  BY <1>3 DEF chat
<1>4. ASSUME NEW c \in Calls, Trigger(c) PROVE TypeOK'
  BY <1>1, <1>4, CallTypes DEF Trigger, Kind
<1>5. ASSUME NEW c \in Calls, Run(c) PROVE TypeOK'
  <2> DEFINE p == [panel EXCEPT !.run = c, !.failed = FALSE, !.hint = Local]
  <2>1. call' \in [Calls -> CallType]
    BY <1>5, CallTypes DEF Run, Kind
  <2>2. p \in PanelType(Len(log))
    BY DEF PanelType
  <2>3. panel' = Settled(p) /\ UNCHANGED <<log, poll, polls, thread, last, seen>>
    BY <1>5, Zenon DEF Run, chat
  <2> HIDE DEF p
  <2> QED
    BY <1>0, <1>2, <2>1, <2>2, <2>3, SettledPanel
<1>6. ASSUME NEW c \in Calls, Sos(c) PROVE TypeOK'
  <2>1. call' \in [Calls -> CallType]
    BY <1>6, CallTypes DEF Sos, Kind
  <2>2. panel' \in PanelType(Len(log))
    BY <1>6 DEF Sos, PanelType
  <2> QED
    BY <1>2, <1>6, <2>1, <2>2 DEF Sos, chat
<1>7. ASSUME NEW c \in Calls, Submit(c) PROVE TypeOK'
  <2> DEFINE p == [panel EXCEPT !.sending = c, !.pending = Silence, !.offer = "dismissed"]
  <2>1. call' \in [Calls -> CallType]
    BY <1>7, CallTypes DEF Submit, Kind, QuestionOnScreen
  <2>2. p \in PanelType(Len(log))
    BY DEF PanelType
  <2>3. panel' = Settled(p) /\ UNCHANGED <<log, poll, polls, thread, last, seen>>
    BY <1>7, Zenon DEF Submit, chat
  <2> HIDE DEF p
  <2> QED
    BY <1>0, <1>2, <2>1, <2>2, <2>3, SettledPanel
<1>8. ASSUME Accept \/ Decline PROVE TypeOK'
  <2> DEFINE p == [panel EXCEPT !.pending = Silence, !.offer = "dismissed"]
  <2>1. p \in PanelType(Len(log)) /\ panel.hint \in Text /\ panel.pending \in Text
    BY DEF PanelType
  <2>2. panel' = Settled(p) /\ UNCHANGED <<call, log, poll, polls, seen>>
    BY <1>8, Zenon DEF Accept, Decline
  <2>3. thread' \subseteq [to : Calls \cup {NoCall}, text : Text] /\ last' \in Text
    <3>1. CASE Accept
      BY <2>1, <3>1, BubbleTypes DEF Accept
    <3>2. CASE Decline
      BY <3>2 DEF Decline, chat
    <3> QED
      BY <1>8, <3>1, <3>2
  <2> HIDE DEF p
  <2> QED
    BY <1>0, <1>2, <2>1, <2>2, <2>3, SettledPanel
<1>9. ASSUME NEW c \in Calls, ReadContext(c) PROVE TypeOK'
  BY <1>1, <1>9, CallTypes DEF ReadContext
<1>10. ASSUME NEW c \in Calls, NoTrigger(c) PROVE TypeOK'
  BY <1>1, <1>10, CallTypes DEF NoTrigger, Stage
<1>11. ASSUME NEW c \in Calls, AgentAnswers(c) \/ ClientGivesUp(c) PROVE TypeOK'
  <2>1. PICK r \in Result : Answered(c, r)
    BY <1>11, Results, Zenon DEF AgentAnswers, ClientGivesUp
  <2> QED
    BY <1>1, <1>11, <2>1, CallTypes DEF AgentAnswers, ClientGivesUp
<1>12. ASSUME NEW c \in Calls, Record(c) PROVE TypeOK'
  <2>1. call' \in [Calls -> CallType]
    BY <1>12, CallTypes DEF Record, Stage
  <2>2. call[c].says \in Text
    BY DEF CallType
  <2>3. log' = Append(log, call[c].says) /\ UNCHANGED <<poll, polls, panel, thread, last, seen>>
    BY <1>12 DEF Record, chat
  <2> QED
    BY <2>1, <2>2, <2>3, LongerLog
<1>13. ASSUME NEW c \in Calls, StoreFails(c) PROVE TypeOK'
  BY <1>1, <1>13, CallTypes DEF StoreFails, Stage
<1>14. ASSUME NEW c \in Calls, Reply(c) \/ Lost(c) PROVE TypeOK'
  <2>1. call' \in [Calls -> CallType] /\ UNCHANGED <<log, poll, polls, seen>>
    BY <1>14, CallTypes DEF Reply, Lost
  <2>2. call[c].says \in Text
    BY DEF CallType
  <2>3. \E t \in Text, failed \in BOOLEAN :
           ReplyArrives(c, t) \/ ReplyFails(c) \/ HelpArrives(c, t) \/ RunArrives(c, failed, t)
    BY <1>14, <2>2, Zenon DEF Reply, Lost
  <2> QED
    BY <1>2, <2>1, <2>3, PanelTypes
<1>15. ASSUME NEW i \in PollIds,
              Poll(i) \/ PollSession(i) \/ PollRows(i) \/ PollLost(i)
       PROVE  TypeOK'
  <2>1. polls' \in [PollIds -> PollType(Len(log))]
    <3>1. \A r : Turns(i, r) => polls' \in [PollIds -> PollType(Len(log))]
      BY DEF Turns
    <3> QED
      BY <1>15, <3>1, PollSteps, Zenon
  <2> QED
    BY <1>3, <1>15, <2>1 DEF Poll, PollSession, PollRows, PollLost
<1>16. ASSUME NEW i \in PollIds, PollArrives(i) PROVE TypeOK'
  <2>1. polls[i] \in PollType(Len(log))
    OBVIOUS
  <2>2. panel' \in PanelType(Len(log))
    <3>1. CASE poll.primed /\ polls[i].latest > 0
      <4>1. polls[i].latest \in 1 .. Len(log)
        BY <1>0, <2>1, <3>1 DEF PollType
      <4>2. log[polls[i].latest] \in Text
        BY <4>1
      <4>3. Notice(polls[i].latest, log[polls[i].latest])
        BY <1>16, <3>1, Zenon DEF PollArrives
      <4> QED
        BY <1>0, <4>1, <4>2, <4>3, NoticeTypes
    <3>2. CASE ~(poll.primed /\ polls[i].latest > 0)
      BY <1>16, <3>2 DEF PollArrives
    <3> QED
      BY <3>1, <3>2
  <2>3. seen' \in SeenType(Len(log))
    BY <1>0, <1>16, <2>1 DEF PollArrives, SeenType, PollType, Most
  <2>4. poll' \in [primed : BOOLEAN, lastSeen : 0 .. Len(log)]
    BY <1>0, <1>16, <2>1 DEF PollArrives, PollType, Most
  <2>5. polls' \in [PollIds -> PollType(Len(log))]
    BY <1>0, <1>16 DEF PollArrives, PollType, NoPoll
  <2> QED
    BY <1>16, <2>2, <2>3, <2>4, <2>5 DEF PollArrives, chat
<1>17. CASE UNCHANGED vars
  BY <1>17 DEF vars, chat
<1> QED
  BY <1>4, <1>5, <1>6, <1>7, <1>8, <1>9, <1>10, <1>11, <1>12, <1>13, <1>14, <1>15, <1>16,
     <1>17, Zenon DEF Next, Student, Backend, Polling

-----------------------------------------------------------------------------
(* Polling.                                                                *)

\* Len(log) never falls, and lastSeen never does.
LEMMA SeenGrows ==
  TypeOK /\ [Next]_vars => poll'.lastSeen >= poll.lastSeen
<1> SUFFICES ASSUME TypeOK, [Next]_vars PROVE poll'.lastSeen >= poll.lastSeen
  OBVIOUS
<1> USE TypeParts DEF Typed
<1>1. poll.lastSeen \in Nat
  OBVIOUS
<1>2. CASE UNCHANGED poll
  BY <1>1, <1>2
<1>3. ASSUME NEW i \in PollIds, PollArrives(i)
      PROVE  poll'.lastSeen >= poll.lastSeen
  BY <1>1, <1>3 DEF PollArrives, Most, PollType
<1>4. UNCHANGED poll \/ \E i \in PollIds : PollArrives(i)
  BY Zenon DEF Next, Student, Backend, Polling, vars, Trigger, Run, Sos, Submit, Accept, Decline,
        ReadContext, NoTrigger, AgentAnswers, ClientGivesUp, Record, StoreFails, Reply, Lost,
        Poll, PollSession, PollRows, PollLost
<1> QED
  BY <1>2, <1>3, <1>4

\* Either a step is of a poll, or it leaves polling alone.
LEMMA OtherSteps ==
  [Next]_vars => \/ UNCHANGED <<poll, polls, seen>>
                 \/ \E i \in PollIds : Poll(i) \/ PollSession(i) \/ PollRows(i)
                                          \/ PollArrives(i) \/ PollLost(i)
BY Zenon DEF Next, Student, Backend, Polling, vars, Trigger, Run, Sos, Submit, Accept, Decline,
      ReadContext, NoTrigger, AgentAnswers, ClientGivesUp, Record, StoreFails, Reply, Lost

\* PollInv holds at first.
LEMMA PollInit == Init => PollInv
BY DEF Init, PollInv, NothingSlipsPast, NoPoll, Most

\* Every step keeps PollInv: an answer's rows are read after its `upto`, so what lies
\* between was delivered, or was known when the poll was sent.
LEMMA PollStep == TypeOK /\ PollInv /\ [Next]_vars => PollInv'
<1> SUFFICES ASSUME TypeOK, PollInv, [Next]_vars PROVE PollInv'
  OBVIOUS
<1> USE TypeParts DEF Typed
<1>1. /\ Len(log) \in Nat /\ poll.lastSeen \in Nat /\ poll'.lastSeen \in Nat
      /\ poll'.lastSeen >= poll.lastSeen /\ poll.primed \in BOOLEAN
      /\ \A i \in PollIds : polls[i] \in PollType(Len(log))
      /\ seen \in SeenType(Len(log))
  BY TypeStep, SeenGrows
<1> DEFINE Fine(p, known) ==
             /\ p.since <= known
             /\ p.at = "answered" => p.upto <= p.latest \/ p.upto <= known
<1>2. ASSUME NEW p \in PollType(Len(log)), Fine(p, poll.lastSeen)
      PROVE  Fine(p, poll'.lastSeen)
  BY <1>1, <1>2 DEF PollType
<1>3. \A i \in PollIds : Fine(polls[i], poll.lastSeen)
  BY DEF PollInv
<1>4. ASSUME NEW i \in PollIds, NEW r, Turns(i, r), Fine(r, poll'.lastSeen)
      PROVE  \A j \in PollIds : Fine(polls'[j], poll'.lastSeen)
  <2> SUFFICES ASSUME NEW j \in PollIds PROVE Fine(polls'[j], poll'.lastSeen)
    OBVIOUS
  <2>1. Fine(polls[j], poll'.lastSeen)
    BY <1>1, <1>2, <1>3
  <2>2. polls'[j] = IF j = i THEN r ELSE polls[j]
    BY <1>4 DEF Turns
  <2> QED
    BY <1>4, <2>1, <2>2, Zenon
<1>5. CASE UNCHANGED <<poll, polls, seen>>
  BY <1>5 DEF PollInv, NothingSlipsPast
<1>6. ASSUME NEW i \in PollIds,
             Poll(i) \/ PollSession(i) \/ PollRows(i) \/ PollLost(i)
      PROVE  PollInv'
  <2>1. UNCHANGED <<poll, seen>>
    BY <1>6 DEF Poll, PollSession, PollRows, PollLost
  <2>2. \E r : Turns(i, r) /\ Fine(r, poll.lastSeen)
    <3>1. Fine(polls[i], poll.lastSeen) /\ polls[i] \in PollType(Len(log))
      BY <1>1, <1>3
    <3>2. CASE Poll(i)
      <4>1. PICK r : Turns(i, r) /\ r.at = "sent" /\ r.since = poll.lastSeen
        BY <3>2, PollSteps, Zenon
      <4> QED
        BY <1>1, <4>1
    <3>3. CASE PollSession(i)
      <4>1. PICK r : /\ Turns(i, r) /\ r.at = "opened" /\ r.since = polls[i].since
                     /\ r.upto = Len(log)
        BY <3>3, PollSteps, Zenon
      <4> QED
        BY <1>1, <3>1, <4>1
    <3>4. CASE PollRows(i)
      <4>1. PICK r : /\ Turns(i, r) /\ r.at = "answered" /\ r.since = polls[i].since
                     /\ r.upto = polls[i].upto
                     /\ r.latest = IF Len(log) > polls[i].since THEN Len(log) ELSE 0
        BY <3>4, PollSteps, Zenon
      <4>2. polls[i].upto \in 0 .. Len(log) /\ polls[i].since \in 0 .. Len(log)
        BY <3>1 DEF PollType
      <4> QED
        BY <1>1, <3>1, <4>1, <4>2
    <3>5. CASE PollLost(i)
      <4>1. PICK r : Turns(i, r) /\ r.at = "none" /\ r.since = 0
        BY <3>5, PollSteps, Zenon
      <4> QED
        BY <1>1, <4>1
    <3> QED
      BY <1>6, <3>2, <3>3, <3>4, <3>5
  <2>3. \A j \in PollIds : Fine(polls'[j], poll'.lastSeen)
    BY <1>4, <2>1, <2>2
  <2> QED
    BY <2>1, <2>3 DEF PollInv, NothingSlipsPast
<1>7. ASSUME NEW i \in PollIds, PollArrives(i)
      PROVE  PollInv'
  <2> DEFINE p == polls[i]
  <2>1. /\ p.upto \in Nat /\ p.latest \in Nat
        /\ p.upto <= p.latest \/ p.upto <= poll.lastSeen
    BY <1>1, <1>3, <1>7 DEF PollArrives, PollType
  <2>2. poll' = [primed |-> TRUE, lastSeen |-> Most(poll.lastSeen, p.upto)]
    BY <1>7, Zenon DEF PollArrives
  <2>3. seen' = IF ~poll.primed THEN [seen EXCEPT !.baseline = p.upto]
                ELSE [seen EXCEPT !.newest = Most(@, p.latest)]
    BY <1>7, Zenon DEF PollArrives
  <2>4. PICK r : Turns(i, r) /\ r.at = "none" /\ r.since = 0
    BY <1>7, PollSteps, Zenon
  <2>5. \A j \in PollIds : Fine(polls'[j], poll'.lastSeen)
    BY <1>1, <1>4, <2>4
  <2> HIDE DEF p
  <2>6. NothingSlipsPast'
    <3>1. seen.baseline \in Nat /\ seen.newest \in Nat
      BY <1>1 DEF SeenType
    <3>2. CASE poll.primed
      <4>1. seen'.baseline = seen.baseline /\ seen'.newest = Most(seen.newest, p.latest)
        BY <1>1, <2>3, <3>2 DEF SeenType
      <4>2. poll.lastSeen <= Most(seen.baseline, seen.newest)
        BY DEF PollInv, NothingSlipsPast
      <4> QED
        BY <1>1, <2>1, <2>2, <3>1, <4>1, <4>2 DEF NothingSlipsPast, Most
    <3>3. CASE ~poll.primed
      <4>1. seen'.baseline = p.upto /\ seen'.newest = seen.newest
        BY <1>1, <2>3, <3>3 DEF SeenType
      <4>2. poll.lastSeen = 0
        BY <3>3 DEF PollInv
      <4> QED
        BY <2>1, <2>2, <3>1, <4>1, <4>2 DEF NothingSlipsPast, Most
    <3> QED
      BY <3>2, <3>3
  <2> QED
    BY <2>2, <2>5, <2>6 DEF PollInv
<1> QED
  BY <1>5, <1>6, <1>7, OtherSteps, Zenon

-----------------------------------------------------------------------------
(* Words.                                                                  *)

\* Kept, after the step.
KeptNext(t) ==
    t.call # NoCall =>
        /\ call'[t.call].meant
        /\ call'[t.call].kind \in {"sos", "chat"} => t \in Logged'

\* A call c that becomes r keeps what it was meant for, and has words only of its own,
\* meant to be said, and on record before they are on their way to the student.
Sound(c, r) ==
    /\ Becomes(c, r)
    /\ call[c].meant => r.meant /\ r.kind = call[c].kind
    /\ r.at \in Before => ~r.meant /\ r.says = Silence
    /\ r.says.call \in {NoCall, c}
    /\ r.says.call # NoCall => r.meant
    /\ r.at = "replying" => \/ r.says.call = NoCall
                            \/ r.kind \notin {"sos", "chat"}
                            \/ r.says \in Logged'

\* What is recorded is on record, and so is what was.
LEMMA RecordLogs ==
  ASSUME TypeOK, NEW c \in Calls, Record(c)
  PROVE  Logged' = Logged \cup {call[c].says}
<1>1. log \in Seq(Text) /\ call[c].says \in Text
  BY TypeParts DEF Typed, CallType
<1>2. log' = Append(log, call[c].says)
  BY DEF Record
<1>3. /\ DOMAIN log' = DOMAIN log \cup {Len(log) + 1}
      /\ \A i \in DOMAIN log : log'[i] = log[i]
      /\ log'[Len(log) + 1] = call[c].says
  BY <1>1, <1>2
<1> QED
  BY <1>3 DEF Logged

\* The log is changed by Record alone.
LEMMA LogGrows ==
  ASSUME TypeOK, [Next]_vars
  PROVE  UNCHANGED log \/ \E c \in Calls : Record(c) /\ Logged' = Logged \cup {call[c].says}
<1>1. UNCHANGED log \/ \E c \in Calls : Record(c)
  BY Zenon DEF Next, Student, Backend, Polling, vars, Trigger, Run, Sos, Submit, Accept, Decline,
        ReadContext, NoTrigger, AgentAnswers, ClientGivesUp, StoreFails, Reply, Lost,
        Poll, PollSession, PollRows, PollArrives, PollLost
<1> QED
  BY <1>1, RecordLogs

\* Every step changes at most one call, and soundly.
LEMMA CallMoves ==
  ASSUME TypeOK, CallInv, [Next]_vars
  PROVE  UNCHANGED call \/ \E c \in Calls, r \in CallType : Sound(c, r)
<1> USE Words
<1>1. ASSUME NEW c \in Calls, Trigger(c) \/ Run(c) \/ Sos(c) \/ Submit(c)
      PROVE  \E r \in CallType : Sound(c, r)
  <2>1. QuestionOnScreen \in Calls \cup {NoCall}
    BY TypeParts DEF Typed, QuestionOnScreen
  <2>2. \E k \in Kind, q \in Calls \cup {NoCall} : Begin(c, k, q)
    BY <1>1, <2>1 DEF Trigger, Run, Sos, Submit, Kind
  <2>3. PICK r : Becomes(c, r) /\ r.at = "sent" /\ ~r.meant /\ r.says = Silence
    BY <2>2, CallSteps, Zenon
  <2>4. ~call[c].meant
    BY <1>1 DEF Trigger, Run, Sos, Submit, Fresh, CallInv, Before
  <2> QED
    BY <2>3, <2>4 DEF Sound, Becomes, Before
<1>2. ASSUME NEW c \in Calls, ReadContext(c)
      PROVE  \E r \in CallType : Sound(c, r)
  <2>1. PICK r : /\ Becomes(c, r) /\ r.at = "thinking" /\ r.kind = call[c].kind
                 /\ r.meant = call[c].meant /\ r.says = call[c].says
    BY <1>2, CallSteps, Zenon
  <2>2. ~call[c].meant /\ call[c].says = Silence
    BY <1>2 DEF ReadContext, CallInv, Before
  <2> QED
    BY <2>1, <2>2 DEF Sound, Becomes, Before
<1>3. ASSUME NEW c \in Calls, Finish(c)
      PROVE  \E r \in CallType : Sound(c, r)
  <2>1. PICK r : /\ Becomes(c, r) /\ r.at = "done" /\ r.kind = call[c].kind
                 /\ r.meant = call[c].meant /\ r.says = Silence
    BY <1>3, CallSteps, Zenon
  <2> QED
    BY <2>1 DEF Sound, Becomes, Before
<1>4. ASSUME NEW c \in Calls, NEW at \in Stage \ Before, Goto(c, at),
             at = "replying" => \/ call[c].says.call = NoCall
                                \/ call[c].kind \notin {"sos", "chat"}
                                \/ call[c].says \in Logged'
      PROVE  \E r \in CallType : Sound(c, r)
  <2>1. PICK r : /\ Becomes(c, r) /\ r.at = at /\ r.kind = call[c].kind
                 /\ r.meant = call[c].meant /\ r.says = call[c].says
    BY <1>4, CallSteps, Zenon
  <2>2. call[c].says.call \in {NoCall, c} /\ (call[c].says.call # NoCall => call[c].meant)
    BY DEF CallInv
  <2> QED
    BY <1>4, <2>1, <2>2 DEF Sound, Becomes
<1>5. ASSUME NEW c \in Calls, NoTrigger(c)
      PROVE  \E r \in CallType : Sound(c, r)
  <2>1. call[c].says = Silence
    BY <1>5 DEF NoTrigger, CallInv, Before
  <2> QED
    BY <1>4, <1>5, <2>1 DEF NoTrigger, Stage, Before
<1>6. ASSUME NEW c \in Calls, AgentAnswers(c) \/ ClientGivesUp(c)
      PROVE  \E r \in CallType : Sound(c, r)
  <2>1. \E res \in Result :
            Answered(c, res) /\ (call[c].kind = "chat" /\ res # Broken => res.intervene)
    BY <1>6, Results, Zenon DEF AgentAnswers, ClientGivesUp
  <2>2. PICK res \in Result :
            Answered(c, res) /\ (call[c].kind = "chat" /\ res # Broken => res.intervene)
    BY <2>1
  <2>3. CASE Finish(c)
    BY <1>3, <2>3
  <2>4. CASE ~Finish(c)
    <3>1. PICK r : /\ Becomes(c, r) /\ r.at \in {"recording", "replying"}
                   /\ r.at = "replying" => Says(c, res) = Silence
                   /\ r.kind = call[c].kind
                   /\ r.meant = MeantToBeSaid(res) /\ r.says = Says(c, res)
      BY <2>2, <2>4, CallSteps, Zenon
    <3>2. /\ Says(c, res).call \in {NoCall, c}
          /\ Says(c, res).call # NoCall => MeantToBeSaid(res)
      BY <2>2, Adapter DEF Says, MeantToBeSaid
    <3>3. ~call[c].meant
      BY <1>6 DEF AgentAnswers, ClientGivesUp, CallInv, Before
    <3> QED
      BY <3>1, <3>2, <3>3 DEF Sound, Becomes, Before
  <2> QED
    BY <2>3, <2>4
<1>7. ASSUME NEW c \in Calls, Record(c)
      PROVE  \E r \in CallType : Sound(c, r)
  <2>1. CASE Finish(c)
    BY <1>3, <2>1
  <2>2. CASE Goto(c, "replying")
    BY <1>4, <1>7, <2>2, RecordLogs DEF Stage, Before
  <2> QED
    BY <1>7, <2>1, <2>2 DEF Record
<1>8. ASSUME NEW c \in Calls, StoreFails(c)
      PROVE  \E r \in CallType : Sound(c, r)
  BY <1>3, <1>4, <1>8 DEF StoreFails, Stage, Before
<1>9. ASSUME NEW c \in Calls, Reply(c) \/ Lost(c)
      PROVE  \E r \in CallType : Sound(c, r)
  BY <1>3, <1>9 DEF Reply, Lost
<1>10. \/ UNCHANGED call
       \/ \E c \in Calls :
             \/ Trigger(c) \/ Run(c) \/ Sos(c) \/ Submit(c) \/ ReadContext(c) \/ NoTrigger(c)
             \/ AgentAnswers(c) \/ ClientGivesUp(c)
             \/ Record(c) \/ StoreFails(c) \/ Reply(c) \/ Lost(c)
  BY Zenon DEF Next, Student, Backend, Polling, vars, Accept, Decline,
        Poll, PollSession, PollRows, PollArrives, PollLost
<1> QED
  BY <1>1, <1>2, <1>5, <1>6, <1>7, <1>8, <1>9, <1>10, Zenon

\* What is meant to be said stays so, and what is on record stays there.
LEMMA GrowStep ==
  ASSUME TypeOK, CallInv, [Next]_vars
  PROVE  Grows
<1>1. Logged \subseteq Logged'
  BY LogGrows DEF Logged
<1>2. \A c \in Calls : call[c].meant => call'[c].meant /\ call'[c].kind = call[c].kind
  <2>1. CASE UNCHANGED call
    BY <2>1
  <2>2. ASSUME NEW c \in Calls, NEW r \in CallType, Sound(c, r)
        PROVE  \A d \in Calls : call[d].meant => call'[d].meant /\ call'[d].kind = call[d].kind
    BY <2>2, TypeParts DEF Sound, Becomes, Typed
  <2> QED
    BY <2>1, <2>2, CallMoves
<1> QED
  BY <1>1, <1>2 DEF Grows

\* Words that may be shown may be shown from then on.
LEMMA KeptStays ==
  ASSUME Grows
  PROVE  \A t \in Text : Kept(t) => KeptNext(t)
BY Words DEF Grows, Kept, KeptNext

\* Every step keeps CallInv.
LEMMA CallStep == TypeOK /\ CallInv /\ [Next]_vars => CallInv'
<1> SUFFICES ASSUME TypeOK, CallInv, [Next]_vars PROVE CallInv'
  OBVIOUS
<1> DEFINE Good(d) == /\ call'[d].at \in Before => ~call'[d].meant /\ call'[d].says = Silence
                      /\ call'[d].says.call \in {NoCall, d}
                      /\ call'[d].says.call # NoCall => call'[d].meant
                      /\ call'[d].at = "replying" => KeptNext(call'[d].says)
<1>1. Grows /\ call \in [Calls -> CallType]
  BY GrowStep, TypeParts DEF Typed
<1>2. ASSUME NEW d \in Calls, call'[d] = call[d]
      PROVE  Good(d)
  <2>1. call[d].says \in Text
    BY <1>1 DEF CallType
  <2>2. call[d].at = "replying" => KeptNext(call[d].says)
    BY <1>1, <2>1, KeptStays DEF CallInv
  <2> QED
    BY <1>2, <2>2 DEF CallInv
<1>3. ASSUME NEW c \in Calls, NEW r \in CallType, Sound(c, r)
      PROVE  Good(c)
  <2>1. call'[c] = r
    BY <1>1, <1>3 DEF Sound, Becomes
  <2> QED
    BY <1>3, <2>1 DEF Sound, KeptNext
<1>4. ASSUME NEW d \in Calls
      PROVE  Good(d)
  <2>1. CASE UNCHANGED call
    BY <1>2, <2>1
  <2>2. ASSUME NEW c \in Calls, NEW r \in CallType, Sound(c, r)
        PROVE  Good(d)
    <3>1. c = d \/ call'[d] = call[d]
      BY <1>1, <2>2 DEF Sound, Becomes
    <3> QED
      BY <1>2, <1>3, <2>2, <3>1
  <2> QED
    BY <2>1, <2>2, CallMoves
<1> QED
  BY <1>4 DEF CallInv, Kept, KeptNext

\* A bubble adds its words to what is said.
LEMMA BubbleWords ==
  ASSUME NEW c, NEW t, Bubble(c, t)
  PROVE  Said' = Said \cup {t}
<1>1. thread' = thread \cup {[to |-> c, text |-> t]} /\ [to |-> c, text |-> t].text = t
  BY DEF Bubble
<1> QED
  BY <1>1 DEF Said

\* Where the words in front of the student, and on record, come from.
LEMMA NewWords ==
  ASSUME TypeOK, [Next]_vars
  PROVE  \A t \in Texts' : \/ t \in Texts
                           \/ t.call = NoCall
                           \/ \E c \in Calls : call[c].at = "replying" /\ t = call[c].says
                           \/ \E c \in Calls : Record(c) /\ t = call[c].says
<1> USE Words
<1>1. Len(log) \in Nat /\ panel \in PanelType(Len(log)) /\ log \in Seq(Text)
  BY TypeParts DEF Typed
<1> DEFINE Old(t) == t \in Texts \/ t.call = NoCall
           New(t) == \/ Old(t)
                     \/ \E c \in Calls : call[c].at = "replying" /\ t = call[c].says
                     \/ \E c \in Calls : Record(c) /\ t = call[c].says
<1>2. Old(panel.pending) /\ Old(panel.hint) /\ Old(Silence) /\ Old(Local)
  BY DEF Texts
<1>3. ASSUME Said' = Said, Logged' = Logged, New(panel'.pending), New(panel'.hint)
      PROVE  \A t \in Texts' : New(t)
  BY <1>3, Zenon DEF Texts
<1>4. ASSUME NEW u, New(u), Said' = Said \cup {u}, Logged' = Logged,
             New(panel'.pending), New(panel'.hint)
      PROVE  \A t \in Texts' : New(t)
  BY <1>4, Zenon DEF Texts
<1>5. CASE UNCHANGED <<log, panel, chat>>
  <2>1. Said' = Said /\ Logged' = Logged /\ panel'.pending = panel.pending
        /\ panel'.hint = panel.hint
    BY <1>5 DEF chat, Said, Logged
  <2> QED
    BY <1>2, <1>3, <2>1
<1>6. ASSUME NEW c \in Calls, Run(c) \/ Sos(c) \/ Submit(c)
      PROVE  \A t \in Texts' : New(t)
  <2>1. Said' = Said /\ Logged' = Logged
    BY <1>6 DEF Run, Sos, Submit, chat, Said, Logged
  <2>2. Old(panel'.pending) /\ Old(panel'.hint)
    <3>1. CASE Run(c)
      <4> DEFINE p == [panel EXCEPT !.run = c, !.failed = FALSE, !.hint = Local]
      <4>1. p \in PanelType(Len(log)) /\ p.pending = panel.pending /\ p.hint = Local
        BY <1>1 DEF PanelType
      <4>2. panel' = Settled(p)
        BY <3>1, Zenon DEF Run
      <4> HIDE DEF p
      <4> QED
        BY <1>1, <1>2, <4>1, <4>2, SettledPanel
    <3>2. CASE Sos(c)
      BY <1>1, <1>2, <3>2 DEF Sos, PanelType
    <3>3. CASE Submit(c)
      <4> DEFINE p == [panel EXCEPT !.sending = c, !.pending = Silence, !.offer = "dismissed"]
      <4>1. p \in PanelType(Len(log)) /\ p.pending = Silence /\ p.hint = panel.hint
        BY <1>1 DEF PanelType
      <4>2. panel' = Settled(p)
        BY <3>3, Zenon DEF Submit
      <4> HIDE DEF p
      <4> QED
        BY <1>1, <1>2, <4>1, <4>2, SettledPanel
    <3> QED
      BY <1>6, <3>1, <3>2, <3>3
  <2> QED
    BY <1>3, <2>1, <2>2
<1>7. ASSUME Accept \/ Decline
      PROVE  \A t \in Texts' : New(t)
  <2> DEFINE p == [panel EXCEPT !.pending = Silence, !.offer = "dismissed"]
  <2>1. p \in PanelType(Len(log)) /\ p.pending = Silence /\ p.hint = panel.hint
    BY <1>1 DEF PanelType
  <2>2. panel' = Settled(p) /\ UNCHANGED log
    BY <1>7, Zenon DEF Accept, Decline
  <2> HIDE DEF p
  <2>3. Old(panel'.pending) /\ Old(panel'.hint) /\ Logged' = Logged
    BY <1>1, <1>2, <2>1, <2>2, SettledPanel DEF Logged
  <2>4. CASE Accept
    <3> DEFINE u == IF panel.pending = Silence THEN panel.hint ELSE panel.pending
    <3>1. Old(u)
      BY <1>2
    <3>2. Said' = Said \cup {u}
      BY <2>4, BubbleWords DEF Accept
    <3> QED
      BY <1>4, <2>3, <3>1, <3>2
  <2>5. CASE Decline
    <3>1. Said' = Said
      BY <2>5 DEF Decline, chat, Said
    <3> QED
      BY <1>3, <2>3, <3>1
  <2> QED
    BY <1>7, <2>4, <2>5
<1>8. ASSUME NEW c \in Calls, Record(c)
      PROVE  \A t \in Texts' : New(t)
  <2>1. Said' = Said /\ UNCHANGED panel
    BY <1>8 DEF Record, chat, Said
  <2> QED
    BY <1>8, <2>1, RecordLogs DEF Texts
<1>9. ASSUME NEW c \in Calls, NEW u \in Text, New(u), UNCHANGED log,
             NEW failed \in BOOLEAN,
             ReplyArrives(c, u) \/ ReplyFails(c) \/ HelpArrives(c, u) \/ RunArrives(c, failed, u)
      PROVE  \A t \in Texts' : New(t)
  <2>1. Logged' = Logged
    BY <1>9 DEF Logged
  <2>2. CASE ReplyArrives(c, u)
    <3>1. panel'.pending = panel.pending /\ panel'.hint = panel.hint
      BY <1>1, <2>2 DEF ReplyArrives, PanelType
    <3>2. Said' = Said \cup {u}
      BY <2>2, BubbleWords DEF ReplyArrives
    <3> QED
      BY <1>2, <1>4, <1>9, <2>1, <3>1, <3>2
  <2>3. CASE ReplyFails(c)
    <3>1. panel'.pending = panel.pending /\ panel'.hint = panel.hint
      BY <1>1, <2>3 DEF ReplyFails, PanelType
    <3>2. Said' = Said \cup {Local}
      BY <2>3, BubbleWords DEF ReplyFails
    <3> QED
      BY <1>2, <1>4, <2>1, <3>1, <3>2
  <2>4. CASE HelpArrives(c, u)
    <3> DEFINE p == [panel EXCEPT !.sos = NoCall, !.pending = Silence,
                                  !.offer = "dismissed",
                                  !.immediate = IF u = Silence THEN @ ELSE u]
               w == IF u = Silence THEN panel.hint ELSE u
    <3>1. p \in PanelType(Len(log)) /\ p.pending = Silence /\ p.hint = panel.hint
      BY <1>1, <1>9 DEF PanelType
    <3>2. panel' = Settled(p) /\ Bubble(c, w)
      BY <2>4, Zenon DEF HelpArrives
    <3>3. New(w)
      BY <1>2, <1>9
    <3> HIDE DEF p, w
    <3>4. Said' = Said \cup {w}
      BY <3>2, BubbleWords
    <3>5. Old(panel'.pending) /\ Old(panel'.hint)
      BY <1>1, <1>2, <3>1, <3>2, SettledPanel
    <3> QED
      BY <1>4, <2>1, <3>3, <3>4, <3>5
  <2>5. CASE RunArrives(c, failed, u)
    <3> DEFINE w == IF u = Silence THEN Local ELSE u
               p == [panel EXCEPT !.run = NoCall, !.failed = failed, !.hint = w]
    <3>1. w \in Text /\ New(w)
      BY <1>2, <1>9
    <3>2. panel' = Settled(p) /\ UNCHANGED chat
      BY <2>5, Zenon DEF RunArrives
    <3> HIDE DEF w
    <3>3. p \in PanelType(Len(log)) /\ p.pending = panel.pending /\ p.hint = w
      BY <1>1, <3>1 DEF PanelType
    <3> HIDE DEF p
    <3>4. panel'.pending = panel.pending /\ panel'.hint = w
      BY <1>1, <3>2, <3>3, SettledPanel
    <3>5. Said' = Said
      BY <3>2 DEF chat, Said
    <3> QED
      BY <1>2, <1>3, <2>1, <3>1, <3>4, <3>5
  <2> QED
    BY <1>9, <2>2, <2>3, <2>4, <2>5
<1>10. ASSUME NEW c \in Calls, Reply(c) \/ Lost(c)
       PROVE  \A t \in Texts' : New(t)
  <2>1. call[c].says \in Text
    BY TypeParts DEF Typed, CallType
  <2>2. CASE Reply(c)
    <3>1. New(call[c].says) /\ UNCHANGED log
      BY <2>2 DEF Reply
    <3>2. \E failed \in BOOLEAN : \/ ReplyArrives(c, call[c].says) \/ HelpArrives(c, call[c].says)
                                  \/ RunArrives(c, failed, call[c].says)
      BY <2>2, Zenon DEF Reply
    <3> QED
      BY <1>9, <2>1, <3>1, <3>2
  <2>3. CASE Lost(c)
    <3>1. New(Silence) /\ UNCHANGED log /\ Silence \in Text
      BY <1>2, <2>3 DEF Lost
    <3>2. ReplyFails(c) \/ HelpArrives(c, Silence) \/ RunArrives(c, TRUE, Silence)
      BY <2>3, Zenon DEF Lost
    <3> QED
      BY <1>9, <3>1, <3>2
  <2> QED
    BY <1>10, <2>2, <2>3
<1>11. ASSUME NEW i \in PollIds, PollArrives(i)
       PROVE  \A t \in Texts' : New(t)
  <2>1. Said' = Said /\ Logged' = Logged
    BY <1>11 DEF PollArrives, chat, Said, Logged
  <2>2. Old(panel'.pending) /\ panel'.hint = panel.hint
    <3>1. CASE UNCHANGED panel
      BY <1>2, <3>1
    <3>2. CASE Notice(polls[i].latest, log[polls[i].latest]) /\ polls[i].latest > 0
      <4>1. polls[i] \in PollType(Len(log))
        BY TypeParts DEF Typed
      <4>2. polls[i].latest \in DOMAIN log
        BY <1>1, <3>2, <4>1 DEF PollType
      <4>3. log[polls[i].latest] \in Texts
        BY <4>2 DEF Texts, Logged
      <4> QED
        BY <1>1, <1>2, <3>2, <4>3 DEF Notice, PanelType
    <3> QED
      BY <1>11, <3>1, <3>2, Zenon DEF PollArrives
  <2> QED
    BY <1>2, <1>3, <2>1, <2>2
<1>12. \/ UNCHANGED <<log, panel, chat>>
       \/ \E c \in Calls : Run(c) \/ Sos(c) \/ Submit(c) \/ Record(c) \/ Reply(c) \/ Lost(c)
       \/ Accept \/ Decline
       \/ \E i \in PollIds : PollArrives(i)
  BY Zenon DEF Next, Student, Backend, Polling, vars, Trigger, ReadContext, NoTrigger,
        AgentAnswers, ClientGivesUp, StoreFails, Poll, PollSession, PollRows, PollLost
<1>13. \A t \in Texts' : New(t)
  BY <1>5, <1>6, <1>7, <1>8, <1>10, <1>11, <1>12, Zenon
<1> QED
  BY <1>13, Zenon

\* Every step keeps TextInv: new words are fit to be shown by CallInv.
LEMMA TextStep == TypeOK /\ CallInv /\ TextInv /\ [Next]_vars => TextInv'
<1> SUFFICES ASSUME TypeOK, CallInv, TextInv, [Next]_vars PROVE TextInv'
  OBVIOUS
<1>1. Grows /\ call \in [Calls -> CallType]
  BY GrowStep, TypeParts DEF Typed
<1>2. Texts \subseteq Text
  BY TypeParts DEF Texts, Said, Logged, Typed, PanelType
<1>3. ASSUME NEW t \in Texts'
      PROVE  KeptNext(t)
  <2>1. CASE t \in Texts
    BY <1>1, <1>2, <2>1, KeptStays DEF TextInv
  <2>2. CASE t.call = NoCall
    BY <2>2 DEF KeptNext
  <2>3. ASSUME NEW c \in Calls, call[c].at = "replying", t = call[c].says
        PROVE  KeptNext(t)
    <3>1. Kept(t) /\ t \in Text
      BY <1>1, <2>3 DEF CallInv, CallType
    <3> QED
      BY <1>1, <3>1, KeptStays
  <2>4. ASSUME NEW c \in Calls, Record(c), t = call[c].says
        PROVE  KeptNext(t)
    <3>1. t \in Logged'
      BY <2>4, RecordLogs
    <3>2. t.call \in {NoCall, c} /\ (t.call # NoCall => call[c].meant)
      BY <2>4 DEF CallInv
    <3> QED
      BY <1>1, <3>1, <3>2 DEF KeptNext, Grows
  <2> QED
    BY <2>1, <2>2, <2>3, <2>4, NewWords
<1> QED
  BY <1>3 DEF TextInv, Kept, KeptNext

\* The initial state has the invariant.
LEMMA InitInv == Init => IInv
<1> SUFFICES ASSUME Init PROVE IInv
  OBVIOUS
<1> USE Words
<1>1. TypeOK /\ PollInv
  BY TypeInit, PollInit
<1>2. \A c \in Calls :
        /\ c = Earlier => call[c].meant /\ call[c].kind = "trigger" /\ call[c].at = "done"
        /\ c # Earlier => ~call[c].meant /\ call[c].at = "unused"
        /\ call[c].says = Silence
  BY DEF Init, Idle
<1>3. CallInv
  BY <1>2 DEF CallInv, Before
<1>4. Said = {} /\ panel.pending = Silence /\ panel.hint = Local
  BY DEF Init, Said
<1>5. \A t \in Logged : t.call = Earlier /\ Earlier \in Calls
  <2>1. CASE Earlier = NoCall
    BY <2>1 DEF Init, Logged
  <2>2. CASE Earlier # NoCall
    <3>1. log = <<WordsOf("agent", Earlier, TRUE)>>
      BY <2>2 DEF Init
    <3>2. \A t : LET row == <<t>> IN {row[i] : i \in DOMAIN row} = {t}
      OBVIOUS
    <3>3. Logged = {WordsOf("agent", Earlier, TRUE)}
      BY <3>1, <3>2, Zenon DEF Logged
    <3> QED
      BY <2>2, <3>3, EarlierAssumption DEF WordsOf
  <2> QED
    BY <2>1, <2>2
<1>6. TextInv
  BY <1>2, <1>4, <1>5 DEF TextInv, Texts, Kept
<1> QED
  BY <1>1, <1>3, <1>6 DEF IInv

\* Every step keeps the invariant.
LEMMA StepInv == IInv /\ [Next]_vars => IInv'
BY TypeStep, CallStep, TextStep, PollStep DEF IInv

\* The invariant holds of every reachable state.
LEMMA Invariant == Spec => []IInv
BY InitInv, StepInv, PTL DEF Spec

-----------------------------------------------------------------------------
(* The theorems.                                                           *)

\* The state keeps its shape: no poll and no panel ever points past the log, and every
\* text belongs to a call.
THEOREM TypeCorrect == Spec => []TypeOK
<1>1. IInv => TypeOK
  BY DEF IInv
<1> QED
  BY <1>1, Invariant, PTL

\* However many requests and polls there are, and in whatever order they are answered,
\* the student is shown, and the log holds, only what a run of the pipeline meant to say.
THEOREM OnlyMeant == Spec => []OnlyWhatWasMeantIsSaid
<1>1. IInv => OnlyWhatWasMeantIsSaid
  BY DEF IInv, TextInv, Texts, Kept, OnlyWhatWasMeantIsSaid
<1> QED
  BY <1>1, Invariant, PTL

\* Whatever the tutor has said in answer to the student is on record by then, in every
\* interleaving of the handlers and with any of them failing.
THEOREM Remembered == Spec => []TheTutorRemembers
<1>1. IInv => TheTutorRemembers
  BY DEF IInv, TextInv, Texts, Kept, TheTutorRemembers
<1> QED
  BY <1>1, Invariant, PTL

\* With any number of polls in flight, lost and out of order, polling has handed the
\* panel the newest of the rows it has moved beyond.
THEOREM NothingMissed == Spec => []NothingSlipsPast
<1>1. IInv => NothingSlipsPast
  BY DEF IInv, PollInv
<1> QED
  BY <1>1, Invariant, PTL
=============================================================================
