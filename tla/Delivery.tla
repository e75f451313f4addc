------------------------------ MODULE Delivery ------------------------------
(***************************************************************************)
(* How the browser delivers what it records to the trace store: the queue, *)
(* the one sender, the lazy session, the beacon of a hidden page and a     *)
(* click on Run (frontend/src/useCodingTrace.ts, traceClient.ts, execute   *)
(* in App.tsx).                                                            *)
(*                                                                         *)
(* JavaScript runs one callback at a time: a step is one callback from its *)
(* start to its last synchronous statement, the promise continuations it   *)
(* resolves included.  Between the steps of one operation, at every await  *)
(* of the network or a timer, anything else may run.                       *)
(*                                                                         *)
(* One student, who stays logged in.  Events are numbers in the order in   *)
(* which they were recorded; the store drops those it has (TraceStore).  A *)
(* request whose page is gone is still answered by the server, to nobody.  *)
(***************************************************************************)
EXTENDS Integers, Sequences, FiniteSets

CONSTANTS
    Problem,
    NoSession,
    NoProblem,
    MaxBatch,    \* MAX_EVENTS_PER_BATCH
    FlushSize,   \* FLUSH_BATCH_SIZE
    MaxRetries,  \* the length of RETRY_DELAYS_MS
    MaxRecorded, \* bound on the events recorded
    MaxMoves,    \* bound on switching problems, leaving and hiding the page
    MaxBlips     \* bound on the failures of requests for sessions

ASSUME ProblemAssumption == Problem # {} /\ NoProblem \notin Problem
ASSUME SessionAssumption == NoSession \notin [problem : Problem, n : Nat]
ASSUME LimitAssumption == {MaxBatch, FlushSize} \subseteq Nat \ {0} /\ MaxRetries \in Nat
ASSUME BoundAssumption == {MaxRecorded, MaxMoves, MaxBlips} \subseteq Nat

VARIABLES
    problem,  \* problemIdRef
    sid,      \* sessionIdRef
    queue,    \* queueRef
    pending,  \* pendingCodeRef: the problem whose edit waits for its timer, or NoProblem
    sender,   \* the send() at work, see Idle
    tasks,    \* the session tasks at work
    inFlight, \* inFlightSessionRef: the number of a task, or NoTask
    resuming, \* the calls of resume() at work
    run,      \* the execute() at work, see NoRun
    saved,    \* localStorage: [Problem -> session]
    store,    \* the sessions on the server: [session -> its events]
    air,      \* posts of events that nobody waits for and that may still arrive
    unclaimed, \* the same of requests for a session: how many of each problem
    recorded, \* for each event the problem it was recorded for
    dropped,  \* events given up on purpose
    adrift,   \* events that were ever in the air
    rolledBack, \* events the server answered with 201 and did not store
    orphans,  \* sessions on the server whose number nobody was told
    crossed,  \* the student changed the problem while a request was under way
    moves, blips

page == <<problem, sid, queue, pending, sender, tasks, inFlight, resuming, run>>
network == <<saved, store, air, unclaimed>>
history == <<recorded, dropped, adrift, rolledBack, orphans, crossed>>
given == <<dropped, adrift, rolledBack, orphans>>
budget == <<moves, blips>>
vars == <<page, network, history, budget>>

-----------------------------------------------------------------------------
Session == [problem : Problem, n : Nat]
EventId == 1..MaxRecorded
NoTask == 0
Ids(q) == {q[i] : i \in DOMAIN q}

\* What there is of send() and execute() when they are not at work
Idle == [at |-> "idle", batch |-> <<>>, to |-> NoSession, task |-> NoTask, retries |-> 0,
         since |-> 0]
NoRun == [at |-> "idle", problem |-> NoProblem, task |-> NoTask, upto |-> 0, whole |-> FALSE]

Init ==
    /\ problem \in Problem
    /\ sid = NoSession
    /\ queue = <<>>
    /\ pending = NoProblem
    /\ sender = Idle
    /\ tasks = {}
    /\ inFlight = NoTask
    /\ resuming = {}
    /\ run = NoRun
    /\ saved = [p \in Problem |-> NoSession]
    /\ store = <<>>
    /\ air = {}
    /\ unclaimed = [p \in Problem |-> 0]
    /\ recorded = <<>>
    /\ dropped = {}
    /\ adrift = {}
    /\ rolledBack = {}
    /\ orphans = {}
    /\ crossed = FALSE
    /\ moves = 0
    /\ blips = 0

-----------------------------------------------------------------------------
(* The synchronous parts                                                   *)

\* There is room for what the student does next, and for what he did already
Room ==
    Len(recorded) + (IF pending # NoProblem THEN 1 ELSE 0)
        + (IF run.at \in {"session", "flush"} THEN 1 ELSE 0) < MaxRecorded

\* drainPendingEdit: the queue after it
Drained == IF pending # NoProblem THEN Append(queue, Len(recorded) + 1) ELSE queue
DrainedHistory == IF pending # NoProblem THEN Append(recorded, pending) ELSE recorded

\* splice(0, MAX_EVENTS_PER_BATCH)
FirstBatch(q) == SubSeq(q, 1, IF Len(q) < MaxBatch THEN Len(q) ELSE MaxBatch)
Rest(q) == SubSeq(q, MaxBatch + 1, Len(q))

\* Mutants of PutBack: behind what was recorded since; not at all
PutBackLast(batch) == queue \o batch
PutBackNever(batch) == queue

\* unshift
PutBack(batch) == batch \o queue

\* ensureSession has to create a task; Awaited is the one its caller waits for
NewTask == CHOOSE n \in 1..(Cardinality(tasks) + 1) : \A t \in tasks : t.n # n

\* Mutant of Awaited: every caller makes a task of its own
AwaitedOwn == NewTask
Awaited == IF inFlight # NoTask THEN inFlight ELSE NewTask

EnsureSession ==
    /\ inFlight' = Awaited
    /\ tasks' = IF \E t \in tasks : t.n = Awaited THEN tasks
                ELSE tasks \cup {[n |-> Awaited, problem |-> problem, saved |-> saved[problem],
                                  at |-> IF saved[problem] = NoSession THEN "create" ELSE "get"]}

\* What the session s has when a request to it sets off
Has(s) == IF s \in DOMAIN store THEN Len(store[s]) ELSE 0

\* The sender as send() leaves it when it is called with the queue q, and the queue
Sends(snd, q) == snd.at = "idle" /\ q # <<>>
Sending(snd, q, to) ==
    IF ~Sends(snd, q) THEN snd
    ELSE IF to = NoSession
      THEN [Idle EXCEPT !.at = "session", !.batch = FirstBatch(q), !.task = Awaited]
    ELSE [Idle EXCEPT !.at = "post", !.batch = FirstBatch(q), !.to = to, !.since = Has(to)]
Unsent(snd, q) == IF Sends(snd, q) THEN Rest(q) ELSE q

\* send() when the session is s
Send(snd, q, s) ==
    /\ sender' = Sending(snd, q, s)
    /\ queue' = Unsent(snd, q)

\* What was enqueued is sent at once if it is much
Enqueue(snd, q, s) ==
    IF Len(q) >= FlushSize THEN Send(snd, q, s) ELSE sender' = snd /\ queue' = q

\* A send that begins with this step calls ensureSession
EnsureIfSent ==
    IF sender'.at = "session" /\ sender.at # "session" THEN EnsureSession
    ELSE UNCHANGED <<tasks, inFlight>>

-----------------------------------------------------------------------------
(* Recording                                                               *)

\* recordEdit: the debounce timer starts, or starts again
Edit ==
    /\ Room
    /\ pending' = problem
    /\ UNCHANGED <<problem, sid, queue, sender, tasks, inFlight, resuming, run,
                   network, history, budget>>

\* The debounce timer fires
Debounce ==
    /\ pending # NoProblem
    /\ pending' = NoProblem
    /\ recorded' = DrainedHistory
    /\ Enqueue(sender, Drained, sid)
    /\ EnsureIfSent
    /\ UNCHANGED <<problem, sid, resuming, run, network, given, crossed, budget>>

RecordEvent ==
    /\ Room
    /\ recorded' = Append(recorded, problem)
    /\ Enqueue(sender, Append(queue, Len(recorded) + 1), sid)
    /\ EnsureIfSent
    /\ UNCHANGED <<problem, sid, pending, resuming, run, network, given, crossed,
                   budget>>

\* The periodic flush
Interval ==
    /\ Sends(sender, queue)
    /\ Send(sender, queue, sid)
    /\ EnsureIfSent
    /\ UNCHANGED <<problem, sid, pending, resuming, run, network, history, budget>>

-----------------------------------------------------------------------------
(* execute: ensureSession, flush, recordEvent, runJudge                    *)

\* recordEvent(RUN) of the click x and runJudge after the events q
Judge(x, snd, q, past, s, whole) ==
    /\ recorded' = Append(past, x.problem)
    /\ Enqueue(snd, Append(q, Len(past) + 1), s)
    /\ run' = [x EXCEPT !.at = "judge", !.task = NoTask, !.whole = whole]

\* flush of the click x with the session s: waits for its own send, if there is one;
\* then the judge.  `upto' and `whole' keep what was there and if one batch holds it.
Flush(x, snd, s) ==
    /\ pending' = NoProblem
    /\ IF Sends(snd, Drained)
         THEN /\ Send(snd, Drained, s)
              /\ recorded' = DrainedHistory
              /\ run' = [x EXCEPT !.at = "flush", !.task = NoTask,
                                  !.upto = Len(DrainedHistory),
                                  !.whole = Len(Drained) <= MaxBatch]
       ELSE Judge(x, snd, Drained, DrainedHistory, s, FALSE)

\* The click on Run or Submit
Clicked == [NoRun EXCEPT !.problem = problem]
Click ==
    /\ run.at = "idle"
    /\ Room
    /\ \/ /\ sid # NoSession
          /\ Flush(Clicked, sender, sid)
          /\ UNCHANGED <<tasks, inFlight>>
       \/ /\ sid = NoSession
          /\ EnsureSession
          /\ run' = [Clicked EXCEPT !.at = "session", !.task = Awaited]
          /\ UNCHANGED <<queue, pending, sender, recorded>>
    /\ UNCHANGED <<problem, sid, resuming, network, given, crossed, budget>>

FlushTimeout ==
    /\ run.at = "flush"
    /\ Judge(run, sender, queue, recorded, sid, FALSE)
    /\ EnsureIfSent
    /\ UNCHANGED <<problem, sid, pending, resuming, network, given, crossed, budget>>

JudgeAnswers ==
    /\ run.at = "judge"
    /\ run' = NoRun
    /\ UNCHANGED <<problem, sid, queue, pending, sender, tasks, inFlight, resuming,
                   network, history, budget>>

-----------------------------------------------------------------------------
(* Sessions: the task of ensureSession, and resume                         *)

\* The task t has the session s: it is adopted, and whoever awaits t goes on
Resolve(t, s) ==
    LET snd == IF sender.task = t.n
                 THEN [sender EXCEPT !.at = "post", !.to = s, !.task = NoTask, !.since = Has(s)]
               ELSE sender
    IN  /\ tasks' = tasks \ {t}
        /\ inFlight' = NoTask
        /\ sid' = s
        /\ IF run.task = t.n THEN Flush(run, snd, s)
           ELSE sender' = snd /\ UNCHANGED <<queue, pending, recorded, run>>
        /\ UNCHANGED <<problem, resuming, air, unclaimed, given, crossed, budget>>

GetSession(t) ==
    /\ t.at = "get"
    /\ Resolve(t, t.saved)
    /\ UNCHANGED <<saved, store>>

\* Whatever the reason, no answer means no session: it is forgotten
GetSessionFails(t) ==
    /\ t.at = "get"
    /\ blips < MaxBlips
    /\ blips' = blips + 1
    /\ saved' = [saved EXCEPT ![t.problem] = NoSession]
    /\ tasks' = (tasks \ {t}) \cup {[t EXCEPT !.at = "create"]}
    /\ UNCHANGED <<problem, sid, queue, pending, sender, inFlight, resuming, run, store, air,
                   unclaimed, history, moves>>

NewSession(p) == [problem |-> p, n |-> Cardinality({s \in DOMAIN store : s.problem = p}) + 1]
WithSession(new) == [s \in DOMAIN store \cup {new} |-> IF s = new THEN <<>> ELSE store[s]]

CreateSession(t) ==
    /\ t.at = "create"
    /\ LET new == NewSession(t.problem)
       IN  /\ store' = WithSession(new)
           /\ saved' = [saved EXCEPT ![t.problem] = new]
           /\ Resolve(t, new)

\* The server creates a session for a caller that does not wait any more
CreateOrphan(p) ==
    /\ unclaimed[p] > 0
    /\ unclaimed' = [unclaimed EXCEPT ![p] = @ - 1]
    /\ store' = WithSession(NewSession(p))
    /\ orphans' = orphans \cup {NewSession(p)}
    /\ UNCHANGED <<page, saved, air, recorded, dropped, adrift, rolledBack, crossed, budget>>

\* The task throws at those who await it; the request may have reached the server
CreateFails(t) ==
    /\ t.at = "create"
    /\ blips < MaxBlips
    /\ blips' = blips + 1
    /\ tasks' = tasks \ {t}
    /\ inFlight' = NoTask
    /\ queue' = IF sender.task = t.n THEN PutBack(sender.batch) ELSE queue
    /\ sender' = IF sender.task = t.n THEN Idle ELSE sender
    /\ run' = IF run.task = t.n THEN NoRun ELSE run
    /\ unclaimed' = [unclaimed EXCEPT ![t.problem] = @ + 1]
    /\ UNCHANGED <<problem, sid, pending, resuming, saved, store, air, history, moves>>

\* resume, called for the problem p when the page shows it
ResumeCalls(p) ==
    IF saved[p] = NoSession THEN {} ELSE {[problem |-> p, session |-> saved[p]]}

\* resume: the session is alive, and adopted if the problem is still the same
Resumed(x) ==
    /\ resuming' = resuming \ {x}
    /\ sid' = IF problem = x.problem THEN x.session ELSE sid
    /\ UNCHANGED <<problem, queue, pending, sender, tasks, inFlight, run, network, history,
                   budget>>
ResumeFails(x) ==
    /\ blips < MaxBlips
    /\ blips' = blips + 1
    /\ resuming' = resuming \ {x}
    /\ saved' = [saved EXCEPT ![x.problem] = NoSession]
    /\ UNCHANGED <<problem, sid, queue, pending, sender, tasks, inFlight, run, store, air,
                   unclaimed, history, moves>>

-----------------------------------------------------------------------------
(* postEvents and its retries                                              *)

\* What is not known of a batch, in its order
Fresh(batch, known) ==
    LET fresh[i \in 0..Len(batch)] ==
          IF i = 0 THEN <<>>
          ELSE IF batch[i] \in known THEN fresh[i - 1]
          ELSE Append(fresh[i - 1], batch[i])
    IN  fresh[Len(batch)]

\* POST /events arrives, and what the session has when the server looks is not stored
\* again
Arrived(s, batch) == [store EXCEPT ![s] = @ \o Fresh(batch, Ids(@))]

\* send() is over, with the queue q; a flush that waited for it goes on
Finish(q, whole) ==
    /\ IF run.at = "flush" THEN Judge(run, Idle, q, recorded, sid, whole)
       ELSE sender' = Idle /\ queue' = q /\ UNCHANGED <<recorded, run>>
    /\ EnsureIfSent

\* Mutant of PostOk: the answer is not waited for
PostOkUnawaited ==
    /\ sender.at = "post"
    /\ air' = air \cup {[to |-> sender.to, batch |-> sender.batch]}
    /\ Finish(queue, run.whole)
    /\ UNCHANGED <<problem, sid, pending, resuming, saved, store, unclaimed, given, crossed,
                   budget>>

PostOk ==
    /\ sender.at = "post"
    /\ store' = Arrived(sender.to, sender.batch)
    /\ Finish(queue, run.whole)
    /\ UNCHANGED <<problem, sid, pending, resuming, saved, air, unclaimed, given, crossed,
                   budget>>

\* Part of the batch was stored by another request after the server had looked for it:
\* the whole batch is rolled back, and the answer is the same
Raced == \E i \in DOMAIN store[sender.to] :
            i > sender.since /\ store[sender.to][i] \in Ids(sender.batch)
PostCollides ==
    /\ sender.at = "post"
    /\ Raced
    /\ rolledBack' = rolledBack \cup (Ids(sender.batch) \ Ids(store[sender.to]))
    /\ Finish(queue, run.whole)
    /\ UNCHANGED <<problem, sid, pending, resuming, network, dropped, adrift, orphans, crossed,
                   budget>>

\* No answer, or an error of the server: the request is lost or still on its way
PostFails ==
    /\ sender.at = "post"
    /\ \/ UNCHANGED <<air, adrift>>
       \/ /\ air' = air \cup {[to |-> sender.to, batch |-> sender.batch]}
          /\ adrift' = adrift \cup Ids(sender.batch)
    /\ UNCHANGED <<problem, sid, pending, resuming, saved, store, unclaimed, dropped, rolledBack,
                   orphans, crossed, budget>>

\* Mutant of CanRetry: once too often
CanRetryOnceMore == sender.retries <= MaxRetries
CanRetry == sender.retries < MaxRetries

Wait ==
    /\ CanRetry
    /\ PostFails
    /\ sender' = [sender EXCEPT !.at = "wait", !.retries = @ + 1, !.since = 0]
    /\ UNCHANGED <<queue, tasks, inFlight, run, recorded>>

Retry ==
    /\ sender.at = "wait"
    /\ sender' = [sender EXCEPT !.at = "post", !.since = Has(sender.to)]
    /\ UNCHANGED <<problem, sid, queue, pending, tasks, inFlight, resuming, run, network,
                   history, budget>>

\* Mutant of GiveUp: sendingRef is not reset
GiveUpSending ==
    /\ ~CanRetry
    /\ PostFails
    /\ queue' = PutBack(sender.batch)
    /\ sender' = [sender EXCEPT !.at = "given up"]
    /\ UNCHANGED <<tasks, inFlight, run, recorded>>

GiveUp ==
    /\ ~CanRetry
    /\ PostFails
    /\ Finish(PutBack(sender.batch), FALSE)

Deliver(x) ==
    /\ air' = air \ {x}
    /\ store' = Arrived(x.to, x.batch)
    /\ UNCHANGED <<page, saved, unclaimed, history, budget>>

\* It gets lost, or is rolled back as in PostCollides
Lose(x) ==
    /\ air' = air \ {x}
    /\ UNCHANGED <<page, saved, store, unclaimed, history, budget>>

-----------------------------------------------------------------------------
(* Moves of the student                                                    *)

Move == moves < MaxMoves /\ moves' = moves + 1

\* Mutant of Switch: an edit that waits for its timer stays
SwitchKeepsEdit(p) ==
    /\ Move
    /\ p # problem
    /\ problem' = p
    /\ sid' = NoSession
    /\ inFlight' = NoTask
    /\ queue' = <<>>
    /\ resuming' = resuming \cup ResumeCalls(p)
    /\ dropped' = dropped \cup Ids(queue)
    /\ crossed' = (crossed \/ sender # Idle \/ run.at \in {"session", "flush"})
    /\ UNCHANGED <<pending, sender, tasks, run, network, recorded, adrift, rolledBack, orphans,
                   blips>>

\* Another problem: session and queue are dropped, what is at work goes on
Switch(p) ==
    /\ Move
    /\ p # problem
    /\ problem' = p
    /\ sid' = NoSession
    /\ inFlight' = NoTask
    /\ queue' = <<>>
    /\ pending' = NoProblem
    /\ resuming' = resuming \cup ResumeCalls(p)
    /\ dropped' = dropped \cup Ids(queue)
    /\ crossed' = (crossed \/ sender # Idle \/ run.at \in {"session", "flush"})
    /\ UNCHANGED <<sender, tasks, run, network, recorded, adrift, rolledBack, orphans, blips>>

\* The page is loaded anew: nothing survives but localStorage, and the requests that
\* were sent may arrive
Creating(p) == {t \in tasks : t.at = "create" /\ t.problem = p}
Leave(p) ==
    /\ Move
    /\ problem' = p
    /\ sid' = NoSession
    /\ queue' = <<>>
    /\ pending' = NoProblem
    /\ sender' = Idle
    /\ tasks' = {}
    /\ inFlight' = NoTask
    /\ resuming' = ResumeCalls(p)
    /\ run' = NoRun
    /\ air' = air \cup (IF sender.at = "post" THEN {[to |-> sender.to, batch |-> sender.batch]}
                        ELSE {})
    /\ adrift' = adrift \cup (IF sender.at = "post" THEN Ids(sender.batch) ELSE {})
    /\ unclaimed' = [x \in Problem |-> unclaimed[x] + Cardinality(Creating(x))]
    /\ dropped' = dropped \cup Ids(PutBack(sender.batch))
    /\ UNCHANGED <<saved, store, recorded, rolledBack, orphans, crossed, blips>>

\* The page is hidden: the first batch goes off unattended, the queue is cleared
Hide ==
    /\ Move
    /\ sid # NoSession
    /\ Drained # <<>>
    /\ pending' = NoProblem
    /\ queue' = <<>>
    /\ recorded' = DrainedHistory
    /\ air' = air \cup {[to |-> sid, batch |-> FirstBatch(Drained)]}
    /\ adrift' = adrift \cup Ids(FirstBatch(Drained))
    /\ dropped' = dropped \cup Ids(Rest(Drained))
    /\ UNCHANGED <<problem, sid, sender, tasks, inFlight, resuming, run, saved, store, unclaimed,
                   rolledBack, orphans, crossed, blips>>

-----------------------------------------------------------------------------
SessionStep ==
    \/ \E t \in tasks : GetSession(t) \/ GetSessionFails(t) \/ CreateSession(t) \/ CreateFails(t)
    \/ \E x \in resuming : Resumed(x) \/ ResumeFails(x)

Next ==
    \/ Edit \/ Debounce \/ RecordEvent \/ Interval
    \/ Click \/ FlushTimeout \/ JudgeAnswers
    \/ SessionStep
    \/ \E p \in Problem : CreateOrphan(p)
    \/ PostOk \/ PostCollides \/ Wait \/ Retry \/ GiveUp
    \/ \E x \in air : Deliver(x) \/ Lose(x)
    \/ \E p \in Problem : Switch(p) \/ Leave(p)
    \/ Hide

Spec == Init /\ [][Next]_vars

\* Timers fire, requests for a session are answered, and not every post fails
FairSpec ==
    /\ Spec
    /\ WF_vars(Debounce) /\ WF_vars(Interval) /\ WF_vars(Retry) /\ WF_vars(SessionStep)
    /\ WF_vars(Wait \/ GiveUp \/ PostOk \/ PostCollides) /\ SF_vars(PostOk)

-----------------------------------------------------------------------------
Stored == UNION {Ids(store[s]) : s \in DOMAIN store}
Request == [to : DOMAIN store, batch : Seq(EventId)]

\* The refs of the hook and what it has at work; a batch holds no more than the
\* server accepts and is posted no more than MaxRetries times again (send).
TypeOK ==
    /\ problem \in Problem
    /\ sid \in DOMAIN store \cup {NoSession}
    /\ queue \in Seq(EventId)
    /\ pending \in Problem \cup {NoProblem}
    /\ sender.at \in {"idle", "session", "post", "wait"}
    /\ Len(sender.batch) <= MaxBatch
    /\ sender.retries \in 0..MaxRetries
    /\ run.at \in {"idle", "session", "flush", "judge"}
    /\ inFlight \in {t.n : t \in tasks} \cup {NoTask}
    /\ saved \in [Problem -> DOMAIN store \cup {NoSession}]
    /\ air \subseteq Request
    /\ unclaimed \in [Problem -> Nat]
    /\ \A s \in DOMAIN store : s \in Session /\ store[s] \in Seq(EventId)

\* Of the events whose delivery was awaited, those recorded first are stored
\* first, through all retries and failures (splice, unshift and sendingRef).
OrderIsKept ==
    \A s \in DOMAIN store : \A i, j \in DOMAIN store[s] :
        i < j /\ store[s][i] > store[s][j] => {store[s][i], store[s][j]} \cap adrift # {}

\* What was recorded is stored, or the hook still has it, or it was given up when the
\* student moved, or it went off unattended; nothing gets lost between queue, batch and
\* retry (send).  The exception is a batch of which the server stores a part for a request
\* that nobody waits for any more, while it looks at the rest: it is answered as if it had
\* been stored (ingest_events).  Without such requests there is no exception.
NothingIsForgotten ==
    /\ \A n \in DOMAIN recorded :
          n \in Stored \cup Ids(queue) \cup Ids(sender.batch) \cup dropped \cup adrift \cup rolledBack
    /\ adrift = {} => rolledBack = {}

\* Events reach sessions of the problem they belong to, unless the student changed
\* it while a request was under way (the effect on problemId).
ProblemsAreApart ==
    ~crossed => \A s \in DOMAIN store : \A n \in Ids(store[s]) : recorded[n] = s.problem

\* However many callers ensureSession has, a problem gets one session that the page
\* knows, and another one only when a request for one failed (inFlightSessionRef).  A
\* session that was created for a page that is gone, or whose answer got lost, never
\* gets an event (create_session commits whoever waits).
SessionsAreShared ==
    ~crossed => /\ \A p \in Problem :
                      Cardinality({s \in DOMAIN store \ orphans : s.problem = p}) <= 1 + blips
                /\ \A s \in orphans : store[s] = <<>>

\* The judge is asked after everything typed or recorded before the click was
\* settled, if the flush could and did send it (flush, execute).
Settled == Stored \cup dropped \cup adrift \cup rolledBack
EditsPrecedeResults ==
    run.at = "judge" /\ run.whole => 1..run.upto \subseteq Settled

\* Every event is eventually stored, unless it was given up, sent unattended or rolled
\* back with a batch that collided with an unattended one.
EventsAreSettled ==
    \A n \in EventId : n \in DOMAIN recorded ~> n \in Settled

-----------------------------------------------------------------------------
(* What comments promise and the code does not keep.                       *)

\* The events of one problem must not get mixed into the session of another.
EventsStayWithTheirProblem ==
    \A s \in DOMAIN store : \A n \in Ids(store[s]) : recorded[n] = s.problem
=============================================================================
