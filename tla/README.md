# TLA+ models of the CodeTrace / TUTORY coding tutor

This directory holds TLA+ modules that model the tutor's backend and what feeds it, the TLC
configurations that check them on small instances and TLAPS proofs for instances of any
size. `PROJECT.json` maps every definition to the source lines it stands for, and lists the
runs, the theorems, the mutated definitions that each property must reject, and the hazards
of the code.

    tlc -workers 2 -config Rewards.cfg MCRewards      # model-check
    tlapm RewardsProofs.tla                           # check the proofs

## 1. The system

A student solves programming problems in the browser. Every edit, run and idle minute is
recorded as an event of a *session*; a rule engine (the *monitor*) looks at the recorded
process and decides when an LLM tutor should ask a question. Passing submissions are paid in
*acorns*, which can be spent; educators see progress per course.

| component | state | operations | hard part |
|---|---|---|---|
| **Trace store** `backend/app/sessions`, `trace/service.py` | session row (`status`, `last_event_seq`, `last_code_version`), `events`, `code_snapshots` | create and finish a session, ingest a batch of events, store a snapshot, append results and interventions, page through rows | overlapping requests, repeated delivery, rollbacks, crashes |
| **Judge route** `judge/router.py` | none of its own | `/run`, `/submit`: snapshot, judge, TEST_RESULT, progress, award, evaluation, statistics: up to five transactions in one request | a long wait for the judge between reading and writing; a failure between two commits |
| **Acorns** `acorns/service.py` | `users.acorn_balance`, `total_acorns_earned`, `acorn_transactions` | `post` | read-modify-write, idempotency keys, a rollback inside a helper |
| **Progress** `progress/service.py`, `users/router.py` | `user_problem_progress`, one private row and one per course | `ensure`, `save_checkpoint`, `record_judge_result`, local result, nickname | rows read before the write lock; racing first solutions |
| **Courses** `educator` | courses, enrolments, assignments, statistics | enrol, drop, assign, recalculate, dashboard, student page | students who leave and assignments that change while a submission runs; statistics written from stale rows; swallowed failures |
| **Features and monitor** `trace/features.py`, `trace/monitor.py` | none: functions of the rows | `extract_features`, the rules R0 to R9, the cooldown, `evaluate_and_record` | the order of the rules; errors between results; evaluations that overlap |
| **Heartbeats, background tutor** `trace/router.py` | none | evaluate, maybe start a background task; hand out interventions to polls | overlaps with runs and with other heartbeats; rows recorded while a poll is answered |
| **Tutor** `backend/app/agent`, `agent/src/tutor_agent`, `AiTutorPanel.tsx` | the interventions of a session; the panel's offer, bubbles and flags; a pipeline of LLM agents without state | `decide`, `respond`, trigger after a run or a heartbeat, polling, offer, accept, decline | fallbacks, two timeouts of different length, answers to a question that was replaced, three ways to the same panel |
| **Delivery by the browser** `frontend/src/useCodingTrace.ts`, `traceClient.ts`, `App.tsx` | event queue, session promise, flags in refs | record, flush, retry, beacon, switch problems, poll | every `await` lets something else happen; unloading pages |
| **Judge service** `judge/` | a container per call | compile, run a harness in a container, map its output to a verdict | two limits, output that is no answer, Docker failing at any step |
| **Problem generator** `agents/problem_generator_agent.py`, `tools/judge_validator.py` | the attempt at work | ask the model, capture the reference solution's output, refuse and ask again | what an earlier attempt leaves behind; judge failures between attempts |
| **Timeline, diff** `trace/timeline.py`, `trace/diff.py` | none | pure functions | empty and equal inputs |
| Accounts, problems, pages | `users`; read-only files; display state | single statements | not modelled, see section 8 |

**How they interact.** The browser sends batches of events (`POST /events`), heartbeats, runs
and submissions, and polls for interventions. Handlers are synchronous functions in the
thread pool of *one* uvicorn worker, each with its own SQLAlchemy session on one SQLite file
(WAL, `busy_timeout` 5 s). Three facts about that set-up shape all the models:

* a `SELECT` before the first `INSERT`/`UPDATE` of a request runs outside any transaction and
  sees the last commit (the driver opens a transaction at the first DML statement);
* the first DML statement takes the single write lock, held until commit or rollback;
* the ORM keeps a row it has loaded, stale or not, until the next commit or rollback.

So every "read, decide, write" whose read comes before the first write is a race, and
everything between first write and commit is atomic for the others.

## 2. What makes each component correct

* **Trace store.** `seq` is 1..n without gaps; a client event is stored at most once however it
  is delivered; snapshot versions form a chain; a row names the code it is about; an answer
  tells the sender the truth; a poller with `since_seq` misses nothing; a batch is visible as
  a whole or not at all; handlers do not wait for ever. In one sentence: it implements an
  append-only log (`EventLog`).
* **Acorns and progress.** Balance and ledger move together; one award per problem, reported at
  most once, and exactly for solved problems; SOLVED is final; courses see only their
  students, and of them only problems they assigned since.
* **Monitor.** The rules interrupt when, and only when, their comments say so: cooldown, no nudge
  without news, never a student who is improving, streaks not made of the judge's own failures;
  requests for help are heard; an idle student is not forgotten.
* **Delivery.** Every event recorded while the page lives reaches the session of its problem, in
  order, or was given up for a reason, or was rolled back with a batch that collided on the
  server (section 6); one session per problem; edits arrive before the judge is asked about them.
* **Tutor.** Nothing is shown or recorded that no run of the pipeline meant to say; what the tutor
  answered is on record by the time it is read; polling skips no intervention; whoever writes to
  the tutor gets an answer; an answer is judged against the question the student saw (it is not:
  section 6).
* **Judge service.** A score is a score of every test, each run to its end; a status blames the
  student only for what the program did; no container outlives its call; every call is answered.
* **Problem generator.** A generated problem carries, test by test, the output of its own
  reference solution.
* **Courses.** A page of the educator is as new as its request; where the server judges, nothing
  is solved or paid without an accepted submission in the trace; solving a problem never makes a student look worse.

## 3. Modules

| module | models | composed of |
|---|---|---|
| `EventLog` | abstract: what readers of a trace rely on | |
| `TraceStore` | the trace store: sessions, events, snapshots, the trace half of `/run` | instantiates `EventLog` |
| `TraceStoreProofs` | theorems about it | `TraceStore`, TLAPS |
| `TraceAnswersProofs` | theorems about answers and batches; the refinement of `EventLog` | `TraceStoreProofs` |
| `Rewards` | acorns, progress, enrolment, the progress half of `/run` | |
| `RewardsProofs` | theorems about it | `Rewards`, TLAPS |
| `ProcessFeatures` | the features and the rules, as functions of a log and a list of snapshots | |
| `Monitor` | the monitor at work: overlapping evaluations | extends `ProcessFeatures` |
| `MonitorProofs` | theorems about it | `Monitor`, TLAPS |
| `Delivery` | the browser's queue, sender, lazy session, flush and beacon; the store as it sees it | |
| `DeliveryProofs` | theorems about it | `Delivery`, TLAPS |
| `TutorPipeline` | what the agent service may answer to one call | |
| `Tutor` | the requests for the tutor's words, the log of interventions, polling, the panel | extends `TutorPipeline` |
| `TutorProofs` | theorems about it | `Tutor`, TLAPS |
| `Judge` | one call of the judge: host, container, harness | |
| `ProblemGenerator` | the callers of the judge: students and the generation of problems | extends `Judge` |
| `JudgeProofs` | theorems about both | `ProblemGenerator`, TLAPS |
| `Courses` | one course: enrolment, assignments, progress, statistics, the educator's pages | |
| `CoursesProofs` | theorems about it | `Courses`, TLAPS |
| `MC*` | instances for TLC | |

### TraceStore

One session, any number of requests that arrive in order and interleave statement by
statement. `db` is the committed image (rows and counters), `lock` the request inside a write
transaction, `work` the image only that request sees. A handler's program counter `pc[r]` and
locals (`asked`, `todo`, `cached`, `seen`, `answer`) are those variables of the Python function
that live across a statement. The correspondence:

| code | actions |
|---|---|
| `post_events` / `ingest_events` | `PostEvents` (`require_session` loads the session row), `Filter` (`_existing_client_event_ids`, dedupe in the batch), per event `IngestActivity` or `ReadSnapshot` + `IngestSnapshot`, `RefuseSnapshot` (422), `CommitBatch`; on `IntegrityError` `IngestCollision` + `Requery` |
| `_execute` | `Execute`, `PickVersion` / `RefuseVersion` / `ReadLatest`, `KeepCode` / `SaveCode` (commits), `Judge` / `JudgeUnavailable`, `RecordResult` / `RefuseResult` |
| `finish_session` | `FinishSession` / `FinishAgain`, `EndSession` |
| `record_agent_intervention` | `RecordIntervention` |
| get_db, SQLite, the process | `Rollback` in `Fail`, `LockTimeout`, `Crash` |

A client event is a model value that determines its type and payload (the browser makes the
id with the event); `Batch` is the set of bodies that may be posted. `cached` is the ORM's old
`session.last_code_version`, which events carry, and against which `RecordResult` compares.

### Rewards

One student. `ledger`, `balance`, `earned`, `rows`, `enrolled` and `assigned` are the tables; `user[r]` and
`seen[r]` are the user row and the private progress row as the identity map of request `r` has
them. Everything a request writes is one step, because the first write takes the lock; what it
*computed from* was read in earlier steps. `AwardCollision` is `post` meeting its `UNIQUE` key:
its `rollback()` takes the progress rows of the same transaction with it. `FirstSolve` is always
true for an accepted submission: `row.status is not ProgressStatus.SOLVED` compares a plain
string column by identity. `Fail` stands for whatever ends a request before its commit, the lock
timeout and a crash included: nothing of it remains.

What a course assigns is `AssignedIds(c)`: its own list (`Listed`, which no code changes after the course
is created), or what its assignments name (`CreateAssignment` adds one at any time), or, with neither,
every problem. A request reads its student's enrolments (`LoadEnrolments`) and then the lists of those courses
(`LoadCourses`), two reads between which both may change; the lists of several courses are one read here and
one query each in the code. `course.is_active`, tested in the same place (`educator/service.py:369`), is
cleared by no code. So a course may lose a problem whose rows exist: `offered` is the history of
what it assigned since the student joined, which `NoForeignProgress` speaks of.

### ProcessFeatures and Monitor

`ProcessFeatures` restates `extract_features` on a sequence of rows. A list of rows in the code is a
set of positions here (`Results`, `Scored`, `Observed`): the last of it is its largest position,
the streak at its end the set of positions from which on all keys are equal (`TrailingRun`).
`_classify` is a record of rules, `[when, status, trigger]`, and the order in which they are asked
(`Chain`); the first that holds decides. `_cooldown` is `Remaining`, and `Decision` has the bypass
for requests for help. `Monitor` lets requests of two kinds run these functions on rows
they read earlier with the time at which they *began*: a run stores code, waits for the judge,
records its result and evaluates; a heartbeat evaluates at once. `RecordTrigger` appends the
AGENT_TRIGGER row with what the evaluation was based on (`basis`, `rule`: history that the
properties talk about and no guard reads). The student edits and asks for help at any time. A
heartbeat takes the time and reads the events in one step; in the code (`trace/router.py:159-162`) a tick or
a row of another request may come between the two, which a run, whose time is older than its rows
by a whole judgement, shows anyhow.

### Delivery

JavaScript runs one callback at a time, so a step is one callback up to its next `await`, with the
promise continuations it resolves; between the steps everything else may happen. The refs of the
hook are variables of their own (`problem`, `sid`, `queue`, `pending`, `inFlight`); what an
`async` function keeps across an `await` is a record: `sender` (send), `run` (execute with its
flush), a member of `tasks` (the function inside ensureSession) or of `resuming` (resume).

| code | actions |
|---|---|
| `recordEdit`, its timer, `recordEvent`, `setInterval` | `Edit`, `Debounce`, `RecordEvent`, `Interval` |
| `send` | begins in any step that calls it (`Send`), then `PostOk`, `PostCollides`, `Wait`, `Retry`, `GiveUp`; `Finish` is its `finally` |
| `ensureSession` | `EnsureSession` in the caller's step, then `GetSession`, `GetSessionFails`, `CreateSession`, `CreateFails` |
| `create_session` on the server for a page that is gone, or one whose answer is lost | `CreateOrphan` |
| `resume` | `ResumeCalls` in the step that shows a problem, then `Resumed`, `ResumeFails` |
| `execute`, `flush` | `Click`, `FlushTimeout`, `JudgeAnswers` |
| problem effect, `onHidden`, a reload | `Switch`, `Hide`, `Leave` |
| the network | `Deliver`, `Lose` of requests in `air` that nobody waits for |

An event is the number under which it was recorded. `recorded` (its problem), `dropped`, `adrift`,
`rolledBack`, `orphans` and `crossed` are history that no guard reads. The server keeps per session
what arrived first, which is what `TraceStore` promises (`StoredAtMostOnce`). Two requests with events in
common may overlap there: if one commits between the filter and the insert of the other
(`sender.since` is what the session had when the post was sent), the other is rolled back as a whole and
answered 201 all the same (`trace/service.py:221-226`), upon which the page forgets the batch
(`PostCollides`). Only a request nobody waits for (in `air`) can be the one in between, because the page
posts one batch at a time.

`POST /sessions` is committed whoever waits: a page that leaves, or a request whose answer is lost,
adds to `unclaimed`, and `CreateOrphan` may turn that into a session at any time, or never. Such sessions are
`orphans`: the page knows sessions only by the numbers it was told, so that none of them gets an event.

What the properties leave out, because the code does: an event that was ever in a request nobody
waited for may arrive late (`adrift`); the fresh events of a batch that collided are stored nowhere (`rolledBack`); and
`EditsPrecedeResults` speaks only of a flush that could send everything in one batch of its own. When a
send is already under way `flush` returns at once (`useCodingTrace.ts:258`), and the edits then reach the
store after the judge's result, against the comment at `App.tsx:278-281`.

### TutorPipeline and Tutor

The language model is free: `Runs` and `Replies` are the results that `TutorPipeline.run` and
`respond_to_student` can come to when each agent returns anything its schema allows, or raises, or
is cancelled by `llm_runtime`. `ToAgentDecision` and `ToAgentReply` are the adapter: which of them
become words, which become WAIT or the canned sentence (which keeps the question of the message it
replaces, `backend_adapter.py:604-609`). `Tutor` has the requests (`call[c]`, of the
four kinds `trigger`, `run`, `sos`, `chat`), the interventions of the session (`log`), the browser's
polling (`poll`, `polls`) and the panel.

| code | actions |
|---|---|
| heartbeat's background task, `_execute`, `decide`, `respond_to_student` | `Trigger`, `Run`, `Sos`, `Submit` begin; `ReadContext`, `NoTrigger`, `AgentAnswers`, `ClientGivesUp`, `Record`, `StoreFails`, `Reply`, `Lost` |
| `HttpAgentClient` | `AgentAnswers`, or `ClientGivesUp` for each of its own fallbacks |
| `GET /events` and the interval of `useCodingTrace` | `Poll`, `PollSession` (last_event_seq), `PollRows`, `PollArrives`, `PollLost` |
| `AiTutorPanel`: `submitDraft`, `confirmSos`, the two effects, accept, decline | `ReplyArrives`, `ReplyFails`, `HelpArrives`, `RunArrives`, `Notice`, `Settled`, `Accept`, `Decline` |

A text is who said it, in which call, and whether it asks something. `facing` is the question on the
student's screen when a message is sent, `asked` the one the backend looks up. `meant` and `seen`
are history.

Seen while modelling, and true of the model: an intervention may be offered twice when the poll
overtakes the reply that contains it (`AiTutorPanel.tsx:88` remembers only what was shown before);
a slow first poll lets a second one with `since=0` replay old rows (`useCodingTrace.ts:133`);
polls that come back in another order put an older offer in place of a newer one; of a batch of
rows only the last is offered; a poll is answered with at most 500 rows, which no run reaches, so that
`PollRows` has no limit (`trace/router.py:221`; the poller would move on to `latest` past the rest); offers
the student declines stay in the log as said; the message
in an action's payload bypasses the agent that writes messages (`backend_adapter.py:421`).

### Judge and ProblemGenerator

`host` is where `run_judge` stands (compile, launch, wait, kill, logs, remove, conclude), `box`
the container, `harness` the program in it. The two sides run concurrently and share nothing but the end
of the container and its output; `clock` is the time the container has had. `Deadline` is
`_container_timeout`, capped. A child process ends as `Ending`, or times out after `TimeLimit`;
what the harness prints is one of five lines (`printed`), and `Translate` with `Verdict` is the host's
reading of it. Each call of Docker may fail (`Fault`), the harness may die or hang. Of a start it may be only the
answer that is lost: `requests`' own exceptions are no `DockerException`, leave `run_judge`
(`judge_service.py:293-315`) and leave the container where it is, running; `ContainersAreRemoved` is about the
calls that were told of
their container. `job` also says what the tests of a capture lack: a template without `input`, `stdin` or
`function_name` makes the harness raise (`HarnessRaises`), without a fault of Docker or the program. `compile()` may
raise something other than a SyntaxError, which leaves `run_judge` too (`EXCEPTION`).

| code | actions |
|---|---|
| `run_function_call.py`, `run_stdout_match.py`, `run_capture_*.py` | `Boot`, `CheckFunction`, `RunCase`, `HarnessRaises`, `Report`; `Overrun`, `HarnessDies`, `HarnessHangs` are the world's |
| `run_judge_for_problem`, `capture_reference_outputs`, `_run_in_sandbox`, `_run_container` | `Compile`, `Launch`, `Exited` / `WaitExpires` / `WaitFails`, `Kill` / `KillFails`, `ReadLogs`, `Remove`, `Conclude` |
| `generate()`, `judge_validator` | `Generate`, `Ask`, `RefuseRepeats`, `Capture`, `Validate` |

Seen while modelling: `judge_service.py:25-28` and `253-259` say that the limit of a container is a net for a harness
that hangs, and that slow programs are cut off by their own limit. The limit of a container is capped (30 s),
so that eight tests of four seconds each give `TIME_LIMIT` although no child exceeded its own, and a problem checked by
function call starts one child more than the formula counts. `BlameIsFair` says what the comment says
of every job whose deadline has room for the limits of all its children (`Roomy`), and excuses only the others. No run shows
the contradiction as a counterexample; it is arithmetic on two constants.

### Courses

One course, any number of students. A transaction is one step from its first write to its commit;
what a handler reads before that is a step of its own (`ReadCourses`, `ReadAssigned`,
`ReadProgress`), and rows loaded then are written back column by column where the new value differs
from the *loaded* one (`Written`), as the ORM does. `Judged` is the commit of the result,
`Record` the second commit with progress, award and statistics, `Refused` the repeated solution
whose award key collides and rolls the transaction back; the statistics are then recalculated and committed
without a lock (`Recalculate`, `ReadProgress`, `WriteStats`). `Dashboard` and `Detail` recalculate too, and show.
`Summary` restates `recalculate_stats` with its rounding (Python's, to even), thresholds and status; a row
may exist with no attempts (`Checkpoint`), which makes a student one who has started.

`backend` is the judge the server was started with. With `docker` a page's own verdict (`LocalResult`,
`users/router.py:162-193`) is refused; with `none`, where every `/submit` is answered 503, it is taken, and marks the problem
solved and pays with no row in the trace. `reported` is the history of those, and `CreditFollowsTheResult`
asks for the accepted submission with the first and for either with the second. (The comment at `judge/router.py:97`
that this is the only place that pays is true of the first only.)

Seen while modelling: the completion rate can exceed 100 % when assignments change between the two
reads of a dashboard (`educator/router.py:357`), which is why `DashboardIsCurrent` bounds it only if the list
stayed the same; a flush of the statistics that fails is swallowed, but leaves a session whose next commit
raises, against the comment at `judge/router.py:111`; a GET takes the write lock and never commits what
it wrote.

## 4. Runs

Passing runs (all properties hold, every action and disjunct fires):

| run | shows | bounds |
|---|---|---|
| `trace_store` | eight properties of the store, that it implements `EventLog`, and that every request ends | 3 requests; 3 snapshot events (one without code), 1 other; batches that repeat an id, share one, or are refused; 3 texts |
| `rewards` | the account under races of submissions, runs, checkpoints, local results, nicknames, enrolling, dropping and the first assignment of the course | 3 requests with 7 bodies; 2 problems, 1 course without a list of its own, which assigns both until it is given an assignment of the second; award = 2 nicknames |
| `monitor` | every trigger was one its evaluation was entitled to; requests for help and idle students get theirs | a run and a heartbeat at a time; a clock that ticks once; 3 rows that are no triggers, triggers bounded only by clock and cooldown; small edits, runs that bring a large one along, requests for help and correct answers to activities, verdicts of all five kinds; fairness |
| `delivery` | order, accounting, separation of problems, one session each, and that everything is settled | 2 problems; 2 events, batches of up to 2, sent at once from 2; 1 retry; 1 move (switch, reload or hide), 1 failed request for a session; fairness |
| `tutor` | only what was meant is said, the tutor remembers, polling skips nothing, chats are answered | 3 calls, the first answered before the page was loaded, the others of any kind; 1 poll in flight at a time, any number of them; failures anywhere; fairness |
| `judge` | verdicts are earned, blame is fair, containers are removed, generated problems ran, calls are answered | 1 public and 1 hidden test; a limit of 2 s, an overhead of 4, a cap of 6, a start of 1, so that of a submission (a deadline of 8, cut to 6) the function check has no room for its third child and everything else has; tests of captures that lack something; Docker failing anywhere, before or after it took effect; 2 retries; fairness |
| `courses` | the dashboard is current, credit follows the result, solving lowers the risk | 1 student, 2 problems with 0 or 3 attempts before, listed or by 1 assignment; a server with a judge or without; 2 requests (submissions, local results, checkpoints, pages) |

Why these bounds: each race the models contain is between two requests; the third is there to
observe or to come in between (a collision, a lock timeout while another commits, a second award
after a lost one). In `monitor` every rule that triggers was seen to fire (R0, R2, R5, R5b, R6, R7, R7b, R7c, R7d),
three triggers in one behaviour and rows whose times are out of order are reachable, and
thresholds are 1 or 2 so that each is missed and met within the bounds. In `delivery` the one move can come between any
two steps, so that a beacon or a request left behind meets the post that is tried again and collides with it; the failures of
posts are not bounded. With two events there is no second batch behind a full one; that, and a course with a list
of its own in `rewards`, only the proofs cover.
In `tutor` the second and third call can be a question and its answer with the old question in between;
overlapping polls are in the proof. In `courses` a third attempt that fails meets the thresholds for
stuck problems (4) and for many attempts (5) from the 3 there are; students do not share rows, so
the second student a dashboard reads, under the lock, is the one case the instance
does not have. Symmetry is used in `courses` only (slots of requests, problems: no definition
tells them apart); elsewhere ids, texts and problems play different parts in the instances.

Deadlock is checked in the monitor's and the tutor's runs. In `Delivery` it is not, because the student stops
after a bounded number of events; in `TraceStore`, `Rewards`, `Judge` and `Courses` it is not, because
the requests are finite in number and the system stops when all are answered; that they *are* answered is
`EveryRequestEnds` and `CallsAreAnswered`.

Runs that end in a counterexample are disagreements between the code and what it says of itself;
`PROJECT.json` quotes both sides (section 6).

## 5. Fairness

* `TraceStore!FairSpec`: weak fairness of `Handle(r)`, a thread of the pool that can take its next
  step eventually does. A thread waiting for the write lock cannot; it needs the holder to
  commit. Nothing is assumed about timeouts or crashes happening. `EveryRequestEnds` is what is left to show.
* `Monitor!FairSpec`: heartbeats keep coming (the browser's `setInterval`) and each ends; not *every*
  attempt of a heartbeat to decide or to record its trigger fails for ever (strong fairness,
  because requests may fail, and the next heartbeat tries again). Of runs and of the student
  nothing is assumed: a run may stay in the judge for ever. The fairness of `Decide` is
  written out with its guard `WillTrigger`, which is its `ENABLED`.
* `Delivery!FairSpec`: timers fire and requests are answered or fail (weak fairness of `Debounce`,
  `Interval`, `Retry`, `SessionStep` and the outcome of a post, a collision included), and a server that is asked again
  and again is not down for ever (strong fairness of `PostOk`). Requests for a session fail a
  bounded number of times. The student need do nothing, and `Deliver` is not fair: a request nobody
  waits for may stay in the air.
* `Tutor!FairSpec`: weak fairness of `Progress(c)`: a handler that has begun goes on, the HTTP
  client's timeout ends its wait for the agent, and the browser learns that an answer is lost. That the
  agent answers is not assumed, nor anything of the student and of polling.
* `ProblemGenerator!FairSpec`: the host goes on, the generator goes on (the language model has a
  timeout of its own), and in the container something happens or time passes. Each is restricted to steps without a
  fault, so that no call is answered *because* something failed.

## 6. What the code does not keep

| run | what is said | what happens |
|---|---|---|
| `balance_is_ledger` | the balance is a cache of the ledger (`models.py:89`) | two requests that overlap lose an update of the balance |
| `solution_reaches_courses` | a result updates the private row and those of all courses (`progress/service.py:132`) | resubmitting a solved problem collides with the award's key and rolls the course row back |
| `events_stay_with_problem` | events of one problem must not get into the session of another (`useCodingTrace.ts:161`) | a session requested before the student switched is adopted afterwards and takes the new problem's events |
| `backstop_reports_all` | a batch that collides is reported as duplicates, all of it (`trace/service.py:222`) | the events that were fresh are rolled back with it and are in neither list of an answer that is 201, upon which the page forgets them |
| `answers_meet_their_question` | older questions are not what the student is answering (`agent/context.py:62`) | an intervention recorded, but not yet shown, replaces the question on the screen, and the answer is evaluated against it |

Met on the way, without a run: two requests with the same text both store it as new
(`trace/service.py:105`); two overlapping finishes write two SESSION_END rows
(`sessions/service.py:68`); two overlapping heartbeats both nudge in one idle spell (`trace/monitor.py:317`). Section 3
has those of the delivery (a flush during a send), the tutor, the judge (the cap, a container whose start was
not answered) and the courses.

## 7. Proofs

Proved by TLAPS for every value of the constants that satisfies the named assumptions of the
modules (event ids and texts are any sets; `Reward` and `Cost` any positive numbers; any number of requests).

**`TraceStoreProofs`.** The invariant is `IInv == DatabaseInv /\ LocalsOK /\ \A r : HandlerOK(r)`.
`DatabaseInv` says of both images, `db` and `work`, that they are `Sound` (the four promises of a
single image together), and that `work` *grows out of* `db` (`Grows`: rows are kept, new ones have
larger numbers). The four promises are not inductive one by one: that a new event names an
existing version needs the chain of versions, that a snapshot gets an existing parent needs that
what the handler read (`seen`) is still stored, and that a commit keeps the promises needs them of the
image only the lock holder sees. `HandlerOK(r)` is what the next step of `r` relies on: the
snapshot read is stored, the cached counter is not ahead, the batch is what was asked. Every
action is shown to be a `GoodStep`: it moves one handler, leaves the others what they rely on
(because the database only grows), and has an `Effect` that keeps `DatabaseInv`. `AddEventSound`
and `AddSnapshotSound` carry the arithmetic. From `Invariance` follow `TypeCorrect`, `Gapless`,
`Idempotent`, `Chain`, `Replayable`, `Judged`, and the action property `Polling`.

**`TraceAnswersProofs`.** `BatchInv == IInv /\ \A r : BatchOK(r)`. While a request works on its batch every
id of it is stored by this request, known to be a duplicate, or still to be stored (`Accounted`); what it
stored is the difference between `work` and `db`, which nobody else can change while it has the lock.
The delicate case is an id repeated in one batch: its first occurrence is not a repetition
(`FirstIsFresh`), so that the others are duplicates of something that will be stored with them.
It gives `TrueAnswers`. A step changes `db` at a commit only, and then by all of a batch or by one row of the
server's (`WhatShows`): `Atomic` says so of batches, and `Refinement` that each such commit is a step of
`EventLog` and every other step a stutter. `EventLog` has no fairness, so this is the whole of
`ImplementsLog`.

**`RewardsProofs`.** `IInv == DatabaseInv /\ LocalsOK /\ (\A r : HandlerOK(r)) /\ OneReport`. The point is
which stale reads are harmless: a private row that was SOLVED still is, courses a request
targets were once joined and assigned the problem since, a reported award is in the ledger. `Later` says what no step takes
back, `OthersKeep` concludes that other handlers are not disturbed. `AuditTrail` survives lost updates
because balance and ledger row are written from the same number, and `SolvedIffAwarded` because
the one step that sets SOLVED also appends the key. From it follow `TypeCorrect`, `Audited`, `PaidWhenSolved`,
`PaidOnce`, `ReportedOnce`, `Enrolled` and the action property `Final`.

**`TutorProofs`.** `IInv == TypeOK /\ CallInv /\ TextInv /\ PollInv`, for any number of requests and
of polls in flight. `CallInv` says what each handler holds at each stage (words only after the agent
answered, and then its own call's or nobody's), `TextInv` that every text anywhere (log, panel,
bubbles) belongs to a call that meant it, `PollInv` that a poll's `upto` was read before its rows, so
`latest` is `upto` or newer whenever there is anything after `since`. The last is what makes
overlapping polls harmless: whichever arrives, `lastSeen` moves no further than to what was handed
over. From it follow `TypeCorrect`, `OnlyMeant`, `Remembered` and `NothingMissed`; the run has one poll at a
time, the theorem any number.

**`JudgeProofs`.** `IInv == CallInv /\ GeneratorInv`, for any number of tests, limits, retries, and with
Docker failing anywhere. `InsideInv`: what was printed says what the children did (`Collected`: the results
are their outcomes, all of them); `HostInv`: why the host is where it is; `AnswerInv`: each
status has its reason (`Because`) and a score is `Score`. The reasons survive because a container that
printed has ended (`Onward`, `PassedIsOver`) and lateness is never taken back (`LateStays`). A call with room
for the limits of its
children (`Roomy`) reaches its deadline only with one that is over its limit, or a harness at fault: the clock
is never ahead of a start
and a limit for each child begun (`Paced`; `Multiples` is the arithmetic). From
it follow `Earned`, `Fair`, `Removed` and, with `GeneratorInv`, `Generated`.

**`DeliveryProofs`.** For any problems, batch sizes, thresholds, retries and bounds. Order and accounting are
not inductive by themselves: that a batch is stored *behind* what its session has needs that everything
stored is older than everything still on the page. So the batch of the sender and the queue behind it are taken as
one list, `Line`: it is ascending (`splice`, `unshift` and a failed batch put back leave it as it is; a new event has the
highest number), it is above every stored event, and with what is stored, dropped or adrift it holds all that was recorded
(`Books`). `OrderKept` and `NothingForgotten` are parts of it. Events of a request that may arrive unattended
(a beacon, a post
whose failure only the browser saw, a page left with a post under way) are `adrift`, those of a batch that
collided with one of these `rolledBack`, and both are about the others: what a
collision rolls back was not stored before it, and leaves the line with its batch.
`ProblemsApart` and `SessionsShared` are about the time until a problem is changed with a request under way (`crossed`).
Until then everything on the page is about one problem (`Clean`, `WorkApart`), there is at most one task for its session, and
send or execute awaits it (`OneTask`); a session that was created is remembered until a request for one
fails, which `FewSessions` counts (of the sessions that are no `orphans`, which nothing on the page names):
this bookkeeping is what makes "one, and one more per failure" inductive.
`EditsFirst` follows from `FlushOK`: a flush that could send everything waits for a batch with all there was before the
click. The conjuncts are operators of the values they speak of, not of the variables, because one callback
passes through several of these states (`flush` ends, its send is finished, the judge is asked, another send begins): each
lemma is about one operation, and a step composes them.

**`CoursesProofs`.** `IInv == ReqType /\ CourseType /\ Credit /\ RequestOk`: a handler that has not
counted yet has its accepted submission stored, or where nobody judges reported (`Vouched`, `RequestOk`),
since these only grow (`Monotone`). From
it follows `Credited`, for any finite sets of students and problems and any requests.
`RiskFalls` is arithmetic about `Summary`: with one more problem solved of the same list the progress rate does not fall, nor
does it when rounded to even (`RoundMonotone`), so its part of the score does not grow (`RatePart`); the one
attempt more cannot
bring about "many attempts, few of them successful" (5 attempts for each problem solved) or "stuck" if it was not so
before (`SumNext`, `SolvingCounts`); and who had not started had the higher score of those (`SolvingHelps`).
Only `Record` changes the progress (`OnlyRecord`).
`Current` needs `VInv`: from the question to the answer the rows have only grown and every list that came into force is
noted, so figures computed from one read of the rows and one of the list stay between
the rows at the question and those at the answer, whatever is written in between, and however often (`Figures`, `ViewOk`).

**`MonitorProofs`.** `IInv == LogOK /\ SnapsOK /\ PlaceOK /\ DecidedOK /\ RecordedOK`. That a trigger was earned
cannot be read off the log in which it ends up, because rows came in between; it is `Justified` for the
rows its evaluation had read, and rows are only appended (`JustifiedStays`). So `DecidedOK` says it of
every request about to record, `RecordedOK` of every trigger recorded. That a decision is justified
(`DecisionIs`) is a fact about the rules and their order: the rule that decides holds and none before it
does (`ClassifyIs`); an improvement makes R3 hold, which leaves R1s and R2 (`ScoresAre`); equal scores and errors
that are counted stand next to each other, up to judge failures (`TrailingRunIs`). It holds for any
thresholds above 0, any number of requests and any times. `Cooled` needs `CooldownSeconds > 0` (30 by default): without
a cooldown the clock of a request that began early is allowed to be behind the last trigger's. `Earned` is
`TriggersAreEarned` with its three parts; `TypeCorrect` bounds what is left of the cooldown.

**Induction over data.** What recursion and folds compute is proved without the induction theorems, whose operator
parameter the provers cannot instantiate, by a smallest counterexample: a non-empty set of naturals has a
smallest element, from the
well-foundedness of `<`. So "the first" and "the last" event of the monitor, the batch without what is stored
already (`Fresh`, a recursive function), and sums over a finite set (`Subsets`: the number of elements is the measure).

**Assumptions.** Those named in the modules: sentinels that are no values (`NoneAssumption`, `ProblemAssumption`,
`SessionAssumption`), limits that are naturals, positive where the code's are; students and problems of a course are finite
in number (`FiniteAssumption`: its sums run over rows of tables); for `Cooled` a positive cooldown, as part of the theorem.

**Only model-checked.** Every safety property of a passing run, invariant, action property or refinement, is a theorem.
Liveness under fairness is out of the prover's reach and stays with TLC (`EveryRequestEnds`,
`HintsAreHeard`, `IdleStudentIsNudged`, `EventsAreSettled`, `ChatsAreAnswered`, `CallsAreAnswered`). The five
runs that end in a counterexample refute what a comment says and have nothing to prove.

## 8. Not modelled

* Pages, styles and display state of the web client: rendering.
* LLM prompts and replies: the outcome can only be any reply or a failure. The rule gate of the state
  agent, which the adapter always skips (`skip_gate`); the acorns an SOS costs; the sentence
  that says an answer is expected.
* The comparison of values in the judge's harnesses (a Boolean), the sandbox's limits on memory and processes
  (they surface as `HarnessDies` or as a child that `died`).
* The timeline and the code diff: pure functions for display, whose results no other part reads.
* Accounts and tokens, problem files: single statements or constants, no protocol.
* Rows of other sessions and students: no statement modelled here reads or writes across them.
* `POST /results` and `award_trace_completion`, which nothing calls.
* Logging out and in, and with it 401: the queue is dropped as in `Switch`. Other refusals (4xx):
  the server refuses only batches this client does not build; one that it refused
  would be put back and block what is behind it (`useCodingTrace.ts:275`).
* Evidence strings, wording, logging, HTTP formatting.
* Of courses: the weak concept, order, search and paging of lists, code visibility, counts per
  assignment (read only); who owns a course; deleting one.

## 9. Plan

1. **Composition** (`RunProtocol`): one `/run` across trace store, rewards and courses. `Courses` has the two
   commits and the crash between them, for one student; what is left is the stale user row of `Rewards` in the
   same request.
2. **Algorithms** (`TraceAlgorithms`): timeline and `diff` against reference definitions over all short logs.
3. **Delivery**: logging out, 401 and refused batches.
4. **Larger instances**: a second student in `courses`, a second poll in `tutor`, longer clocks in `monitor`.
5. **Proofs**: the safety parts that the liveness properties rest on (a request that is not answered has a step it can
   take, or waits for one that has); what new modules of 1 to 3 promise.
