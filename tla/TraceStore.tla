----------------------------- MODULE TraceStore -----------------------------
(***************************************************************************)
(* The trace of ONE coding session as the backend stores it: the event     *)
(* rows, the code snapshots and the two counters of the session row, and   *)
(* the HTTP requests that write them (backend/app/sessions, trace/service, *)
(* the trace half of judge/router).                                        *)
(*                                                                         *)
(* Handlers are synchronous functions run in a thread pool by one uvicorn  *)
(* worker, each with its own SQLAlchemy session on one SQLite database in  *)
(* WAL mode.  SELECTs before the first DML of a request run outside any    *)
(* transaction and see the last commit; the first DML takes the single     *)
(* write lock, which is held until commit or rollback.  So `db' is what    *)
(* everybody reads, `lock' names the request inside a write transaction    *)
(* and `work' is the image that only this request sees.                    *)
(***************************************************************************)
EXTENDS Integers, Sequences, FiniteSets

CONSTANTS
    MaxRequests, \* bound on the requests that reach the server
    ClientEvent, \* client_event_ids; an id determines type and payload
    Snapshot,    \* the client events of type CODE_SNAPSHOT
    Code,        \* program texts
    Template,    \* the problem's code_template
    CodeOf,      \* [Snapshot -> Code \cup {NoCode}]: payload["code"]
    NoCode,      \* a CODE_SNAPSHOT whose payload has no code string
    NoId,        \* client_event_id of a row the server writes itself
    Batch,       \* the bodies POST /events may carry
    RunBody      \* the bodies POST /run and /submit may carry

Pick(version) == [by |-> "version", version |-> version]
SendCode(code) == [by |-> "code", code |-> code]
UseLatest == [by |-> "latest"]
SendBatch(batch) == [by |-> "batch", batch |-> batch]

ASSUME SnapshotAssumption == Snapshot \subseteq ClientEvent
ASSUME CodeAssumption ==
    /\ Template \in Code
    /\ NoCode \notin Code
    /\ CodeOf \in [Snapshot -> Code \cup {NoCode}]
ASSUME NamesAssumption == NoId \notin ClientEvent
ASSUME MaxRequestsAssumption == MaxRequests \in Nat
ASSUME BatchAssumption == Batch \subseteq Seq(ClientEvent)
ASSUME RunBodyAssumption ==
    \A b \in RunBody :
        \/ b = UseLatest
        \/ \E c \in Code : b = SendCode(c)
        \/ b = Pick(b.version) /\ b.version \in Nat

\* Requests are numbered in the order in which they arrive
Request == 1..MaxRequests
Free == 0 \* nobody holds the write lock

VARIABLES
    db,     \* the committed image: event rows, snapshots and the session row
    work,   \* the image inside the open write transaction (db when there is none)
    lock,   \* the request holding the write lock, or Free
    pc,     \* [Request -> where the handler is]
    asked,  \* [Request -> the batch or run body it came with]
    todo,   \* [Request -> positions of the batch still to be stored]
    cached, \* [Request -> session.last_code_version as its ORM row has it]
    seen,   \* [Request -> the snapshot it read last, or wrote]
    answer  \* [Request -> what the response says]

database == <<db, work, lock>>
locals == <<asked, todo, cached, seen, answer>>
vars == <<db, work, lock, pc, asked, todo, cached, seen, answer>>

-----------------------------------------------------------------------------
(* Images of the database and the statements that change them.             *)

ServerType == {"SESSION_START", "SESSION_END", "TEST_RESULT", "AGENT_INTERVENTION"}
ClientType == {"CODE_SNAPSHOT", "ACTIVITY"}

EventRow == [seq : Nat, type : ServerType \cup ClientType,
             id : ClientEvent \cup {NoId}, version : Nat]
SnapshotRow == [version : Nat, code : Code, parent : Nat]
Image == [events : SUBSET EventRow, snaps : SUBSET SnapshotRow,
          lastSeq : Nat, lastVersion : Nat, finished : BOOLEAN]

Ids(image) == {e.id : e \in image.events} \ {NoId}

\* store.latest_snapshot
Latest(image) == CHOOSE s \in image.snaps : \A t \in image.snaps : t.version <= s.version

\* append_event: allocate the next seq and insert the row
AddEvent(image, type, id, version) ==
    [events |-> image.events \cup {[seq |-> image.lastSeq + 1, type |-> type,
                                    id |-> id, version |-> version]},
     snaps |-> image.snaps,
     lastSeq |-> image.lastSeq + 1,
     lastVersion |-> image.lastVersion,
     finished |-> image.finished]

\* The snapshot create_snapshot inserts when the text differs from the latest
NewRow(image, code, parent) ==
    [version |-> image.lastVersion + 1, code |-> code, parent |-> parent]

\* create_snapshot, the part after the byte-identity test
AddSnapshot(image, code, parent) ==
    [events |-> image.events,
     snaps |-> image.snaps \cup {NewRow(image, code, parent)},
     lastSeq |-> image.lastSeq,
     lastVersion |-> image.lastVersion + 1,
     finished |-> image.finished]

\* create_session: one transaction writes the row, SESSION_START and snapshot 1
NewSession ==
    AddSnapshot(
        AddEvent([events |-> {}, snaps |-> {}, lastSeq |-> 0, lastVersion |-> 0,
                  finished |-> FALSE],
                 "SESSION_START", NoId, 0),
        Template, 0)

-----------------------------------------------------------------------------
(* The handlers.                                                           *)

Silent == [reply |-> "none", accepted |-> {}, duplicates |-> {}]

Init ==
    /\ db = NewSession
    /\ work = NewSession
    /\ lock = Free
    /\ pc = [r \in Request |-> "idle"]
    /\ asked = [r \in Request |-> UseLatest]
    /\ todo = [r \in Request |-> {}]
    /\ cached = [r \in Request |-> 0]
    /\ seen = [r \in Request |-> Latest(NewSession)]
    /\ answer = [r \in Request |-> Silent]

View(r) == IF lock = r THEN work ELSE db

Goto(r, label) == pc' = [pc EXCEPT ![r] = label]

\* Mutant of Write: every statement commits on its own
WriteAutocommit(r, image) ==
    /\ lock \in {r, Free}
    /\ lock' = r
    /\ work' = image
    /\ db' = image

\* A statement of a transaction that stays open
Write(r, image) ==
    /\ lock \in {r, Free}
    /\ lock' = r
    /\ work' = image
    /\ UNCHANGED db

\* Mutant of WriteAndCommit: the write lock is not awaited
WriteAndCommitUnlocked(image) ==
    /\ db' = image
    /\ UNCHANGED <<work, lock>>

\* A transaction opened and committed with no read of other rows in between
WriteAndCommit(image) ==
    /\ lock = Free
    /\ db' = image
    /\ work' = image
    /\ UNCHANGED lock

\* Mutants of Rollback: the counter was advanced outside the transaction, and
\* the connection goes back to the pool with its transaction open
RollbackKeepsCounter(r) ==
    /\ lock' = IF lock = r THEN Free ELSE lock
    /\ db' = IF lock = r THEN [db EXCEPT !.lastSeq = work.lastSeq] ELSE db
    /\ work' = IF lock = r THEN db' ELSE work
RollbackKeepsLock(r) == UNCHANGED database

\* What r wrote in an open transaction disappears
Rollback(r) ==
    /\ lock' = IF lock = r THEN Free ELSE lock
    /\ work' = IF lock = r THEN db ELSE work
    /\ UNCHANGED db

\* The response is sent
Answer(r, reply) ==
    /\ Goto(r, "done")
    /\ answer' = [answer EXCEPT ![r].reply = reply]

\* An exception leaves the handler; get_db closes the session, uncommitted
Fail(r) ==
    /\ Rollback(r)
    /\ Answer(r, "error")
    /\ UNCHANGED <<asked, todo, cached, seen>>

-----------------------------------------------------------------------------
(* POST /sessions/{id}/events: post_events, ingest_events                  *)

\* require_session reads the row; the ORM keeps last_code_version from here on
PostEvents(r, batch) ==
    /\ pc[r] = "idle"
    /\ Goto(r, "filter")
    /\ asked' = [asked EXCEPT ![r] = SendBatch(batch)]
    /\ cached' = [cached EXCEPT ![r] = db.lastVersion]
    /\ UNCHANGED <<database, todo, seen, answer>>

BatchOf(r) == asked[r].batch

\* The positions of a batch whose id is stored already or came earlier in it
Repeats(batch, known) ==
    {i \in DOMAIN batch : batch[i] \in known \/ \E j \in 1..(i - 1) : batch[j] = batch[i]}

Filter(r) ==
    /\ pc[r] = "filter"
    /\ LET dups == Repeats(BatchOf(r), Ids(db))
           fresh == DOMAIN BatchOf(r) \ dups
       IN  /\ todo' = [todo EXCEPT ![r] = fresh]
           /\ answer' = [answer EXCEPT ![r] =
                            [reply |-> IF fresh = {} THEN "ok" ELSE "none",
                             accepted |-> {},
                             duplicates |-> {BatchOf(r)[i] : i \in dups}]]
           /\ Goto(r, IF fresh = {} THEN "done" ELSE "items")
    /\ UNCHANGED <<database, asked, cached, seen>>

\* The loop over the fresh elements is at position i
IsNext(r, i) == i \in todo[r] /\ \A j \in todo[r] : i <= j
Item(r, i) == BatchOf(r)[i]

\* Its next statement is the insertion of an event row
Inserting(r, i) ==
    \/ pc[r] = "items" /\ Item(r, i) \notin Snapshot
    \/ pc[r] = "snapshot"

\* Mutant of Collides: the constraint is missing
CollidesNever(r, i) == FALSE

\* The UNIQUE(session_id, client_event_id) constraint, checked at the flush
Collides(r, i) == Item(r, i) \in Ids(View(r))

Stored(r, i) ==
    /\ todo' = [todo EXCEPT ![r] = @ \ {i}]
    /\ answer' = [answer EXCEPT ![r].accepted = @ \cup {Item(r, i)}]
    /\ Goto(r, "items")
    /\ UNCHANGED <<asked, cached, seen>>

\* Any other event carries the session's cached last_code_version
IngestActivity(r, i) ==
    /\ pc[r] = "items"
    /\ Item(r, i) \notin Snapshot
    /\ ~Collides(r, i)
    /\ Write(r, AddEvent(View(r), "ACTIVITY", Item(r, i), cached[r]))
    /\ Stored(r, i)

\* create_snapshot looks at the latest snapshot: outside the write lock when
\* nothing of the batch was written yet, inside it otherwise
ReadSnapshot(r, i) ==
    /\ pc[r] = "items"
    /\ Item(r, i) \in Snapshot
    /\ CodeOf[Item(r, i)] # NoCode
    /\ seen' = [seen EXCEPT ![r] = Latest(View(r))]
    /\ Goto(r, "snapshot")
    /\ UNCHANGED <<database, asked, todo, cached, answer>>

\* MissingSnapshotCode: the whole batch is refused
RefuseSnapshot(r, i) ==
    /\ pc[r] = "items"
    /\ Item(r, i) \in Snapshot
    /\ CodeOf[Item(r, i)] = NoCode
    /\ Fail(r)

\* Mutants: the next version is computed from the snapshot that was read, and
\* the event carries the counter instead of the version of the snapshot
WithSnapshotReadModifyWrite(image, code, read) ==
    IF read.code = code THEN image
    ELSE AddSnapshot([image EXCEPT !.lastVersion = read.version], code, read.version)
VersionOfCounter(image, code, read) == image.lastVersion

\* create_snapshot after its read: the image with the snapshot, and its version
WithSnapshot(image, code, read) ==
    IF read.code = code THEN image ELSE AddSnapshot(image, code, read.version)
VersionOf(image, code, read) ==
    IF read.code = code THEN read.version ELSE image.lastVersion + 1

IngestSnapshot(r, i) ==
    /\ pc[r] = "snapshot"
    /\ ~Collides(r, i)
    /\ LET code == CodeOf[Item(r, i)]
       IN  Write(r, AddEvent(WithSnapshot(View(r), code, seen[r]), "CODE_SNAPSHOT",
                             Item(r, i), VersionOf(View(r), code, seen[r])))
    /\ Stored(r, i)

\* IntegrityError: the rows of the batch are rolled back
IngestCollision(r, i) ==
    /\ Inserting(r, i)
    /\ lock \in {r, Free}
    /\ Collides(r, i)
    /\ Rollback(r)
    /\ todo' = [todo EXCEPT ![r] = {}]
    /\ Goto(r, "requery")
    /\ UNCHANGED <<asked, cached, seen, answer>>

BatchIds(r) == {BatchOf(r)[i] : i \in DOMAIN BatchOf(r)}

\* Mutant of Requery: the rows that were rolled back are reported as accepted
RequeryKeepsAccepted(r) ==
    /\ pc[r] = "requery"
    /\ answer' = [answer EXCEPT ![r] =
                     [reply |-> "backstop", accepted |-> @.accepted,
                      duplicates |-> @.duplicates \cup (BatchIds(r) \cap Ids(db))]]
    /\ Goto(r, "done")
    /\ UNCHANGED <<database, asked, todo, cached, seen>>

\* Nothing was accepted; duplicates are those known before and those stored now
Requery(r) ==
    /\ pc[r] = "requery"
    /\ answer' = [answer EXCEPT ![r] =
                     [reply |-> "backstop", accepted |-> {},
                      duplicates |-> @.duplicates \cup (BatchIds(r) \cap Ids(db))]]
    /\ Goto(r, "done")
    /\ UNCHANGED <<database, asked, todo, cached, seen>>

CommitBatch(r) ==
    /\ pc[r] = "items"
    /\ todo[r] = {}
    /\ lock = r
    /\ db' = work
    /\ lock' = Free
    /\ Answer(r, "ok")
    /\ UNCHANGED <<work, asked, todo, cached, seen>>

-----------------------------------------------------------------------------
(* POST /sessions/{id}/run and /submit: the trace half of _execute         *)

Execute(r, body) ==
    /\ pc[r] = "idle"
    /\ asked' = [asked EXCEPT ![r] = body]
    /\ cached' = [cached EXCEPT ![r] = db.lastVersion]
    /\ Goto(r, IF body.by = "version" THEN "pick" ELSE "latest")
    /\ UNCHANGED <<database, todo, seen, answer>>

\* latest_snapshot, by create_snapshot or for a body with neither field
ReadLatest(r) ==
    /\ pc[r] = "latest"
    /\ seen' = [seen EXCEPT ![r] = Latest(db)]
    /\ Goto(r, IF asked[r].by = "code" THEN "save" ELSE "judge")
    /\ UNCHANGED <<database, asked, todo, cached, answer>>

\* The snapshot of the version asked for
PickVersion(r) ==
    /\ pc[r] = "pick"
    /\ asked[r].version <= cached[r]
    /\ \E s \in db.snaps :
          /\ s.version = asked[r].version
          /\ seen' = [seen EXCEPT ![r] = s]
    /\ Goto(r, "judge")
    /\ UNCHANGED <<database, asked, todo, cached, answer>>

\* InvalidCodeVersion above the cached counter, SnapshotNotFound below 1
RefuseVersion(r) ==
    /\ pc[r] = "pick"
    /\ \/ asked[r].version > cached[r]
       \/ \A s \in db.snaps : s.version # asked[r].version
    /\ Fail(r)

\* create_snapshot finds the text unchanged; the session row is refreshed
KeepCode(r) ==
    /\ pc[r] = "save"
    /\ seen[r].code = asked[r].code
    /\ cached' = [cached EXCEPT ![r] = db.lastVersion]
    /\ Goto(r, "judge")
    /\ UNCHANGED <<database, asked, todo, seen, answer>>

\* Mutant of SaveCode: the judge is given the snapshot read before the write
SaveCodeKeepsSeen(r) ==
    /\ pc[r] = "save"
    /\ seen[r].code # asked[r].code
    /\ WriteAndCommit(AddSnapshot(db, asked[r].code, seen[r].version))
    /\ cached' = [cached EXCEPT ![r] = db'.lastVersion]
    /\ Goto(r, "judge")
    /\ UNCHANGED <<asked, todo, seen, answer>>

\* create_snapshot writes, the handler commits and refreshes the session row
SaveCode(r) ==
    /\ pc[r] = "save"
    /\ seen[r].code # asked[r].code
    /\ WriteAndCommit(AddSnapshot(db, asked[r].code, seen[r].version))
    /\ seen' = [seen EXCEPT ![r] = NewRow(db, asked[r].code, seen[r].version)]
    /\ cached' = [cached EXCEPT ![r] = db'.lastVersion]
    /\ Goto(r, "judge")
    /\ UNCHANGED <<asked, todo, answer>>

\* The judge works for seconds on the code seen, or is not there (503)
Judge(r) ==
    /\ pc[r] = "judge"
    /\ Goto(r, "record")
    /\ UNCHANGED <<database, locals>>
JudgeUnavailable(r) == pc[r] = "judge" /\ Fail(r)

\* record_judge_result, and its InvalidCodeVersion
RecordResult(r) ==
    /\ pc[r] = "record"
    /\ seen[r].version <= cached[r]
    /\ WriteAndCommit(AddEvent(db, "TEST_RESULT", NoId, seen[r].version))
    /\ Answer(r, "ok")
    /\ UNCHANGED <<asked, todo, cached, seen>>
RefuseResult(r) ==
    /\ pc[r] = "record"
    /\ seen[r].version > cached[r]
    /\ Fail(r)

-----------------------------------------------------------------------------
(* POST /sessions/{id}/finish, and the interventions of the tutor          *)

\* finish_session reads the status
FinishSession(r) ==
    /\ pc[r] = "idle"
    /\ ~db.finished
    /\ cached' = [cached EXCEPT ![r] = db.lastVersion]
    /\ Goto(r, "finish")
    /\ UNCHANGED <<database, asked, todo, seen, answer>>
FinishAgain(r) ==
    /\ pc[r] = "idle"
    /\ db.finished
    /\ Answer(r, "ok")
    /\ UNCHANGED <<database, asked, todo, cached, seen>>

Finished(image) == [image EXCEPT !.finished = TRUE]

\* Mutant of EndSession: the row is appended, the status not updated
EndSessionKeepsStatus(r) ==
    /\ pc[r] = "finish"
    /\ WriteAndCommit(AddEvent(db, "SESSION_END", NoId, cached[r]))
    /\ Answer(r, "ok")
    /\ UNCHANGED <<asked, todo, cached, seen>>

EndSession(r) ==
    /\ pc[r] = "finish"
    /\ WriteAndCommit(Finished(AddEvent(db, "SESSION_END", NoId, cached[r])))
    /\ Answer(r, "ok")
    /\ UNCHANGED <<asked, todo, cached, seen>>

\* record_agent_intervention, one transaction with nothing read before it
RecordIntervention(r) ==
    /\ pc[r] = "idle"
    /\ WriteAndCommit(AddEvent(db, "AGENT_INTERVENTION", NoId, 0))
    /\ Answer(r, "ok")
    /\ UNCHANGED <<asked, todo, cached, seen>>

-----------------------------------------------------------------------------
(* Failures.                                                               *)

\* The next statement of r needs the write lock
NeedsLock(r) ==
    \/ \E i \in todo[r] : IsNext(r, i) /\ Inserting(r, i)
    \/ pc[r] = "save" /\ seen[r].code # asked[r].code
    \/ pc[r] = "record" /\ seen[r].version <= cached[r]
    \/ pc[r] = "finish"

\* busy_timeout: a handler that waits for the lock gives up (500)
LockTimeout(r) ==
    /\ NeedsLock(r)
    /\ lock \notin {r, Free}
    /\ Fail(r)

Running(r) == pc[r] \notin {"idle", "done"}

\* The process dies: every handler is gone, the open transaction with it
Crash ==
    /\ \E r \in Request : Running(r)
    /\ pc' = [r \in Request |-> IF Running(r) THEN "done" ELSE pc[r]]
    /\ answer' = [r \in Request |->
                     IF Running(r) THEN [answer[r] EXCEPT !.reply = "lost"] ELSE answer[r]]
    /\ lock' = Free
    /\ work' = db
    /\ UNCHANGED <<db, asked, todo, cached, seen>>

-----------------------------------------------------------------------------
Arrive(r) ==
    /\ \A earlier \in 1..(r - 1) : pc[earlier] # "idle"
    /\ \/ \E batch \in Batch : PostEvents(r, batch)
       \/ \E body \in RunBody : Execute(r, body)
       \/ FinishSession(r)
       \/ FinishAgain(r)
       \/ RecordIntervention(r)

Ingest(r) ==
    \/ Filter(r) \/ Requery(r) \/ CommitBatch(r)
    \/ \E i \in todo[r] :
          /\ IsNext(r, i)
          /\ \/ IngestActivity(r, i) \/ ReadSnapshot(r, i) \/ RefuseSnapshot(r, i)
             \/ IngestSnapshot(r, i) \/ IngestCollision(r, i)

RunSteps(r) ==
    \/ ReadLatest(r) \/ PickVersion(r) \/ RefuseVersion(r) \/ KeepCode(r) \/ SaveCode(r)
    \/ Judge(r) \/ JudgeUnavailable(r) \/ RecordResult(r) \/ RefuseResult(r)

Handle(r) == Ingest(r) \/ RunSteps(r) \/ EndSession(r)

Next ==
    \/ \E r \in Request : Arrive(r) \/ Handle(r) \/ LockTimeout(r)
    \/ Crash

Spec == Init /\ [][Next]_vars

\* A thread of the pool that can run its handler eventually does
FairSpec == Spec /\ \A r \in Request : WF_vars(Handle(r))

-----------------------------------------------------------------------------
(* Types.                                                                  *)

Label == {"idle", "filter", "items", "snapshot", "requery", "latest", "save",
          "pick", "judge", "record", "finish", "done"}
Reply == {"none", "ok", "backstop", "error", "lost"}
Body == RunBody \cup {UseLatest} \cup {SendBatch(batch) : batch \in Batch}

\* Every image the database goes through holds rows of the declared tables,
\* and every handler is at a known point with local variables of its kind.
TypeOK ==
    /\ db \in Image
    /\ work \in Image
    /\ lock \in Request \cup {Free}
    /\ pc \in [Request -> Label]
    /\ asked \in [Request -> Body]
    /\ todo \in [Request -> SUBSET Nat]
    /\ cached \in [Request -> Nat]
    /\ seen \in [Request -> SnapshotRow]
    /\ answer \in [Request -> [reply : Reply, accepted : SUBSET ClientEvent,
                               duplicates : SUBSET ClientEvent]]

-----------------------------------------------------------------------------
(* What the stored trace promises.                                         *)

GaplessSeqs(image) ==
    /\ {e.seq : e \in image.events} = 1..image.lastSeq
    /\ \A e, f \in image.events : e.seq = f.seq => e = f

OnceEach(image) ==
    \A e, f \in image.events : e.id = f.id /\ e.id # NoId => e = f

VersionChain(image) ==
    /\ {s.version : s \in image.snaps} = 1..image.lastVersion
    /\ \A s, t \in image.snaps : s.version = t.version => s = t
    /\ \A s \in image.snaps : s.version > 1 => s.parent \in 1..(s.version - 1)

CodeAsSent(image) ==
    /\ \A e \in image.events :
          e.type = "CODE_SNAPSHOT" =>
              \E s \in image.snaps : s.version = e.version /\ s.code = CodeOf[e.id]
    /\ \A e \in image.events : e.version \in 0..image.lastVersion

\* seq numbers are 1..last_event_seq, each used by one row, whatever requests
\* raced, failed or were cut off by a crash (store.allocate_event_seqs).
SeqsAreGapless == GaplessSeqs(db)

\* However often a client event is sent, in one batch, in a retry or by two
\* requests at once, at most one row carries its id (ingest_events).
StoredAtMostOnce == OnceEach(db)

\* Snapshot versions are 1..last_code_version, and every snapshot after the
\* template has an earlier one as its parent (create_snapshot).
SnapshotsFormAChain == VersionChain(db)

\* Process replay: the version a CODE_SNAPSHOT row names holds the very text
\* the client sent with that event, and no row names a version that does not
\* exist (_ingest_code_snapshot).
EventsNameTheirCode == CodeAsSent(db)

\* An ordinary 201 accounts for the whole batch, and all of it is stored.  A 201
\* of the IntegrityError branch reports as duplicate only what is stored or was
\* sent twice in the batch itself, and nothing as accepted that was rolled back
\* (ingest_events, post_events).  It does not account for the whole batch: that is
\* BackstopReportsAll, below.
AnswersAreTrue ==
    \A r \in Request :
        LET reported == answer[r].accepted \cup answer[r].duplicates
        IN  asked[r].by = "batch" =>
                /\ answer[r].reply = "ok" =>
                      reported = BatchIds(r) /\ reported \subseteq Ids(db)
                /\ answer[r].reply = "backstop" =>
                      reported \subseteq Ids(db) \cup
                          {BatchOf(r)[i] : i \in Repeats(BatchOf(r), {})}

\* A TEST_RESULT row is about the code that was sent with the run: the version
\* the judge was given is stored and holds that text (_execute).
JudgedCodeIsStored ==
    \A r \in Request :
        pc[r] \in {"judge", "record"} =>
            /\ seen[r] \in db.snaps
            /\ asked[r].by = "code" => seen[r].code = asked[r].code

\* A reader that polls with since_seq never misses a row: rows committed
\* later have larger seqs than everything committed before, and nothing that
\* was committed changes or goes away (events_since, get_events).
PollingMissesNothing ==
    [][/\ db.events \subseteq db'.events
       /\ db.snaps \subseteq db'.snaps
       /\ db.finished => db'.finished
       /\ \A e \in db'.events \ db.events : e.seq > db.lastSeq]_db

\* A batch becomes visible as a whole or not at all: the client ids that
\* appear in one step are those one request then reports as accepted, and they
\* are everything of its batch that it does not report as duplicate.
BatchesAreAtomic ==
    [][LET new == Ids(db') \ Ids(db)
       IN  new # {} => \E r \in Request :
                          /\ answer'[r].reply = "ok"
                          /\ new = answer'[r].accepted
                          /\ BatchIds(r) \ new \subseteq answer'[r].duplicates]_db

\* Every request that reached the server is answered or lost in a crash; no
\* handler waits for the write lock for ever.
EveryRequestEnds == []<>(\A r \in Request : pc[r] \in {"idle", "done"})

-----------------------------------------------------------------------------
(* The abstract view: rows in seq order, with what a reader tells apart.   *)

Log == [i \in 1..db.lastSeq |->
           LET row == CHOOSE e \in db.events : e.seq = i
           IN  [type |-> row.type, id |-> row.id]]

ReaderLog == INSTANCE EventLog WITH
                log <- Log, closed <- db.finished, Id <- ClientEvent,
                ServerEvent <- ServerType, ClientKind <- ClientType

\* The store implements an append-only log of events, each client event once.
ImplementsLog == ReaderLog!Spec

-----------------------------------------------------------------------------
(* What a comment promises and the code does not keep.                     *)

\* After a collision the whole batch is reported as duplicates, so that its sender may
\* forget all of it (the IntegrityError branch of ingest_events).
BackstopReportsAll ==
    \A r \in Request : answer[r].reply = "backstop" => answer[r].duplicates = BatchIds(r)
=============================================================================
