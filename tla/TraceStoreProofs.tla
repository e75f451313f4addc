-------------------------- MODULE TraceStoreProofs --------------------------
(***************************************************************************)
(* Proofs about TraceStore for any number of requests, any set of client   *)
(* events, codes, batches and run bodies.                                  *)
(*                                                                         *)
(* The argument: both images, the committed one and the one inside the     *)
(* open write transaction, are Sound; a statement is only ever executed by *)
(* the holder of the lock on an image that was Sound before it; commit     *)
(* copies one Sound image over the other.  The statements need facts about *)
(* what their handler read earlier, which HandlerOK collects.              *)
(***************************************************************************)
EXTENDS TraceStore, TLAPS

USE DEF Request, Free

Sound(image) ==
    /\ GaplessSeqs(image)
    /\ OnceEach(image)
    /\ VersionChain(image)
    /\ CodeAsSent(image)
    /\ image.lastVersion >= 1

-----------------------------------------------------------------------------
(* The statements on an image.                                             *)

\* append_event keeps the columns of the tables.
LEMMA AddEventType ==
  ASSUME NEW image \in Image, NEW type \in ServerType \cup ClientType,
         NEW id \in ClientEvent \cup {NoId}, NEW version \in Nat
  PROVE  AddEvent(image, type, id, version) \in Image
<1> DEFINE row == [seq |-> image.lastSeq + 1, type |-> type, id |-> id, version |-> version]
<1>1. row \in EventRow
  BY DEF Image, EventRow
<1>2. image.events \cup {row} \in SUBSET EventRow
  BY <1>1 DEF Image
<1> HIDE DEF row
<1> QED BY <1>2 DEF AddEvent, Image, row

\* create_snapshot keeps the columns of the tables.
LEMMA AddSnapshotType ==
  ASSUME NEW image \in Image, NEW code \in Code, NEW parent \in Nat
  PROVE  AddSnapshot(image, code, parent) \in Image
<1> DEFINE row == NewRow(image, code, parent)
<1>1. row \in SnapshotRow
  BY DEF Image, SnapshotRow, NewRow
<1>2. image.snaps \cup {row} \in SUBSET SnapshotRow
  BY <1>1 DEF Image
<1> HIDE DEF row
<1> QED BY <1>2 DEF AddSnapshot, Image, row

\* append_event on a sound image: a new seq, an id not stored yet, a version
\* that exists and, for a CODE_SNAPSHOT, holds the code of the event.
LEMMA AddEventSound ==
  ASSUME NEW image \in Image, Sound(image),
         NEW type \in ServerType \cup ClientType,
         NEW id \in ClientEvent \cup {NoId}, id \notin Ids(image),
         NEW version \in 0..image.lastVersion,
         type = "CODE_SNAPSHOT" =>
             \E s \in image.snaps : s.version = version /\ s.code = CodeOf[id]
  PROVE  Sound(AddEvent(image, type, id, version))
<1> DEFINE new == AddEvent(image, type, id, version)
           row == [seq |-> image.lastSeq + 1, type |-> type, id |-> id, version |-> version]
<1>1. /\ new.events = image.events \cup {row}
      /\ new.lastSeq = image.lastSeq + 1
      /\ new.snaps = image.snaps
      /\ new.lastVersion = image.lastVersion
  BY DEF AddEvent, Image
<1>2. image.lastSeq \in Nat /\ \A e \in image.events : e.seq \in 1..image.lastSeq
  BY DEF Sound, GaplessSeqs, Image
<1>3. GaplessSeqs(new)
  <2>1. {e.seq : e \in new.events} = {e.seq : e \in image.events} \cup {image.lastSeq + 1}
    <3>1. row.seq = image.lastSeq + 1
      OBVIOUS
    <3> HIDE DEF row, new
    <3> QED BY <3>1, <1>1
  <2>2. {e.seq : e \in image.events} = 1..image.lastSeq
    BY DEF Sound, GaplessSeqs
  <2>3. 1..new.lastSeq = (1..image.lastSeq) \cup {image.lastSeq + 1}
    BY <1>1, <1>2
  <2>4. ASSUME NEW e \in new.events, NEW f \in new.events, e.seq = f.seq PROVE e = f
    BY <2>4, <1>1, <1>2 DEF Sound, GaplessSeqs
  <2> QED BY <2>1, <2>2, <2>3, <2>4 DEF GaplessSeqs
<1>4. OnceEach(new)
  <2> SUFFICES ASSUME NEW e \in new.events, NEW f \in new.events, e.id = f.id, e.id # NoId
               PROVE  e = f
    BY DEF OnceEach
  <2>1. \A g \in image.events : g.id # NoId => g.id # id
    BY DEF Ids
  <2> QED BY <2>1, <1>1 DEF Sound, OnceEach
<1>5. VersionChain(new)
  BY <1>1 DEF Sound, VersionChain
<1>6. CodeAsSent(new)
  BY <1>1 DEF Sound, CodeAsSent
<1> QED BY <1>1, <1>3, <1>4, <1>5, <1>6 DEF Sound

\* create_snapshot on a sound image: the next version, with an existing parent.
LEMMA AddSnapshotSound ==
  ASSUME NEW image \in Image, Sound(image), NEW code \in Code,
         NEW parent \in 1..image.lastVersion
  PROVE  Sound(AddSnapshot(image, code, parent))
<1> DEFINE new == AddSnapshot(image, code, parent)
           row == [version |-> image.lastVersion + 1, code |-> code, parent |-> parent]
<1>1. /\ new.snaps = image.snaps \cup {row}
      /\ new.lastVersion = image.lastVersion + 1
      /\ new.events = image.events
      /\ new.lastSeq = image.lastSeq
  BY DEF AddSnapshot, NewRow, Image
<1>2. image.lastVersion \in Nat /\ \A s \in image.snaps : s.version \in 1..image.lastVersion
  BY DEF Sound, VersionChain, Image
<1>3. VersionChain(new)
  <2>1. {s.version : s \in new.snaps} = {s.version : s \in image.snaps} \cup {row.version}
    <3> HIDE DEF row, new
    <3> QED BY <1>1
  <2>2. {s.version : s \in image.snaps} = 1..image.lastVersion
    BY DEF Sound, VersionChain
  <2>3. 1..new.lastVersion = (1..image.lastVersion) \cup {row.version}
    BY <1>1, <1>2
  <2>4. ASSUME NEW s \in new.snaps, NEW t \in new.snaps, s.version = t.version PROVE s = t
    BY <2>4, <1>1, <1>2 DEF Sound, VersionChain
  <2>5. \A s \in new.snaps : s.version > 1 => s.parent \in 1..(s.version - 1)
    BY <1>1, <1>2 DEF Sound, VersionChain
  <2> QED BY <2>1, <2>2, <2>3, <2>4, <2>5 DEF VersionChain
<1>4. CodeAsSent(new)
  BY <1>1, <1>2 DEF Sound, CodeAsSent
<1> QED BY <1>1, <1>2, <1>3, <1>4 DEF Sound, GaplessSeqs, OnceEach

\* latest_snapshot returns a stored snapshot: there is always the template's.
LEMMA LatestStored ==
  ASSUME NEW image \in Image, Sound(image)
  PROVE  Latest(image) \in image.snaps
<1>1. PICK s \in image.snaps : s.version = image.lastVersion
  BY DEF Sound, VersionChain, Image
<1>2. \A t \in image.snaps : t.version <= s.version
  BY <1>1 DEF Sound, VersionChain, Image
<1> QED BY <1>1, <1>2 DEF Latest

\* A stored snapshot is a row whose version can be a parent.
LEMMA StoredSnapshot ==
  ASSUME NEW image \in Image, Sound(image), NEW s \in image.snaps
  PROVE  /\ s \in [version : Nat, code : Code, parent : Nat]
         /\ s.version \in 1..image.lastVersion
  BY DEF Sound, VersionChain, Image, SnapshotRow

\* A new session is sound: SESSION_START is seq 1, the template version 1.
LEMMA NewSessionSound == NewSession \in Image /\ Sound(NewSession)
<1> DEFINE start == [seq |-> 1, type |-> "SESSION_START", id |-> NoId, version |-> 0]
           first == [version |-> 1, code |-> Template, parent |-> 0]
<1>1. NewSession = [events |-> {start}, snaps |-> {first}, lastSeq |-> 1,
                    lastVersion |-> 1, finished |-> FALSE]
  <2>1. {} \cup {start} = {start} /\ {} \cup {first} = {first} /\ 0 + 1 = 1
    OBVIOUS
  <2> QED BY <2>1 DEF NewSession, AddEvent, AddSnapshot, NewRow
<1>2. NewSession \in Image
  BY <1>1, CodeAssumption DEF Image, EventRow, SnapshotRow, ServerType
<1>3. GaplessSeqs(NewSession) /\ OnceEach(NewSession)
  BY <1>1 DEF GaplessSeqs, OnceEach
<1>4. VersionChain(NewSession) /\ CodeAsSent(NewSession)
  BY <1>1 DEF VersionChain, CodeAsSent
<1> QED BY <1>1, <1>2, <1>3, <1>4 DEF Sound

-----------------------------------------------------------------------------
(* What a step of one request does to the database.                        *)

\* image is a later image than before
Grows(before, image) ==
    /\ before.events \subseteq image.events
    /\ before.snaps \subseteq image.snaps
    /\ before.lastSeq <= image.lastSeq
    /\ before.lastVersion <= image.lastVersion
    /\ before.finished => image.finished
    /\ \A e \in image.events \ before.events : e.seq > before.lastSeq

ImageOK(image) == image \in Image /\ Sound(image)

\* The two images are sound, and the transaction adds to the committed image
DatabaseInv ==
    /\ ImageOK(db)
    /\ ImageOK(work)
    /\ lock \in Request \cup {Free}
    /\ Grows(db, work)
    /\ lock = Free => work = db

Commit(q) == lock = q /\ db' = work /\ lock' = Free /\ UNCHANGED work

\* The ways in which a handler step touches the database
Effect(q) ==
    \/ UNCHANGED database
    \/ Rollback(q)
    \/ \E image : ImageOK(image) /\ Grows(View(q), image) /\ Write(q, image)
    \/ \E image : ImageOK(image) /\ Grows(db, image) /\ WriteAndCommit(image)
    \/ Commit(q)

\* A later image of a later image is a later image.
LEMMA GrowsTransitive ==
  ASSUME NEW a \in Image, NEW b \in Image, NEW c \in Image, Grows(a, b), Grows(b, c)
  PROVE  Grows(a, c)
<1>1. \A e \in c.events \ a.events : e.seq > a.lastSeq
  <2> SUFFICES ASSUME NEW e \in c.events, e \notin a.events
               PROVE  e.seq > a.lastSeq
    OBVIOUS
  <2>1. e.seq \in Nat /\ a.lastSeq \in Nat /\ b.lastSeq \in Nat
    BY DEF Image, EventRow
  <2> QED BY <2>1 DEF Grows
<1>2. a.lastSeq <= c.lastSeq /\ a.lastVersion <= c.lastVersion
  BY DEF Grows, Image
<1> QED BY <1>1, <1>2 DEF Grows

\* An image is a later image of itself.
LEMMA GrowsReflexive ==
  ASSUME NEW a \in Image PROVE Grows(a, a)
  BY DEF Grows, Image

\* Appending an event makes a later image.
LEMMA AddEventGrows ==
  ASSUME NEW image \in Image, NEW type, NEW id, NEW version
  PROVE  Grows(image, AddEvent(image, type, id, version))
  BY DEF Grows, AddEvent, Image

\* Inserting a snapshot makes a later image.
LEMMA AddSnapshotGrows ==
  ASSUME NEW image \in Image, NEW code, NEW parent
  PROVE  Grows(image, AddSnapshot(image, code, parent))
  BY DEF Grows, AddSnapshot, Image

\* A handler step keeps both images sound, never takes back anything that is
\* committed, and never takes back what another request sees.
LEMMA EffectKeepsDatabase ==
  ASSUME DatabaseInv, NEW q \in Request, Effect(q)
  PROVE  /\ DatabaseInv'
         /\ Grows(db, db')
         /\ \A r \in Request \ {q} : Grows(View(r), View(r)')
<1> USE DEF DatabaseInv, ImageOK
<1>0. q \in Int /\ q # Free /\ Grows(db, db) /\ Grows(work, work)
  BY GrowsReflexive, MaxRequestsAssumption
<1>1. CASE UNCHANGED database
  BY <1>0, <1>1 DEF database, View, Sound, GaplessSeqs, OnceEach, VersionChain, CodeAsSent, Grows
<1>2. CASE Rollback(q)
  BY <1>0, <1>2 DEF Rollback, View
<1>3. ASSUME NEW image, ImageOK(image), Grows(View(q), image), Write(q, image)
      PROVE  DatabaseInv' /\ Grows(db, db') /\ \A r \in Request \ {q} : Grows(View(r), View(r)')
  <2>1. Grows(db, image)
    BY <1>3, GrowsTransitive DEF View
  <2> QED BY <1>0, <1>3, <2>1 DEF Write, View
<1>4. ASSUME NEW image, ImageOK(image), Grows(db, image), WriteAndCommit(image)
      PROVE  DatabaseInv' /\ Grows(db, db') /\ \A r \in Request \ {q} : Grows(View(r), View(r)')
  <2>1. Grows(image, image)
    BY <1>4, GrowsReflexive
  <2> QED BY <1>0, <1>4, <2>1 DEF WriteAndCommit, View
<1>5. CASE Commit(q)
  BY <1>0, <1>5 DEF Commit, View
<1> QED BY <1>1, <1>2, <1>3, <1>4, <1>5 DEF Effect

-----------------------------------------------------------------------------
(* The inductive invariant.                                                *)

LocalsOK ==
    /\ pc \in [Request -> Label]
    /\ asked \in [Request -> Body]
    /\ todo \in [Request -> SUBSET Nat]
    /\ cached \in [Request -> Nat]
    /\ seen \in [Request -> SnapshotRow]
    /\ answer \in [Request -> [reply : Reply, accepted : SUBSET ClientEvent,
                               duplicates : SUBSET ClientEvent]]

\* What a handler that is at its next statement may rely on
HandlerOK(r) ==
    /\ cached[r] <= db.lastVersion
    /\ pc[r] \in {"filter", "items", "snapshot", "requery"} =>
          \E batch \in Batch : asked[r] = SendBatch(batch)
    /\ pc[r] \in {"items", "snapshot"} => todo[r] \subseteq DOMAIN BatchOf(r)
    /\ pc[r] = "snapshot" =>
          /\ seen[r] \in View(r).snaps
          /\ \A i \in todo[r] :
                IsNext(r, i) => Item(r, i) \in Snapshot /\ CodeOf[Item(r, i)] # NoCode
    /\ pc[r] \in {"latest", "save"} => asked[r] \in RunBody
    /\ pc[r] = "save" => asked[r].by = "code"
    /\ pc[r] = "pick" => asked[r].by = "version"
    /\ pc[r] \in {"save", "judge", "record"} => seen[r] \in db.snaps
    /\ pc[r] \in {"judge", "record"} /\ asked[r].by = "code" => seen[r].code = asked[r].code

IInv == DatabaseInv /\ LocalsOK /\ \A r \in Request : HandlerOK(r)

\* A step of the handler of q
OthersWait(q) ==
    \A r \in Request \ {q} :
        /\ pc'[r] = pc[r]
        /\ asked'[r] = asked[r]
        /\ todo'[r] = todo[r]
        /\ cached'[r] = cached[r]
        /\ seen'[r] = seen[r]

GoodStep(q) == Effect(q) /\ OthersWait(q) /\ LocalsOK' /\ HandlerOK(q)'

\* Such a step keeps the invariant: what the others rely on is not taken back.
LEMMA GoodStepKeepsInv ==
  ASSUME IInv, NEW q \in Request, GoodStep(q)
  PROVE  IInv' /\ Grows(db, db')
<1>1. /\ DatabaseInv'
      /\ Grows(db, db')
      /\ \A r \in Request \ {q} : Grows(View(r), View(r)')
  BY EffectKeepsDatabase DEF IInv, GoodStep
<1>2. ASSUME NEW r \in Request \ {q} PROVE HandlerOK(r)'
  <2>1. HandlerOK(r)
    BY DEF IInv
  <2>2. /\ pc'[r] = pc[r]
        /\ asked'[r] = asked[r]
        /\ todo'[r] = todo[r]
        /\ cached'[r] = cached[r]
        /\ seen'[r] = seen[r]
    BY DEF GoodStep, OthersWait
  <2>3. db.snaps \subseteq db'.snaps /\ View(r).snaps \subseteq View(r)'.snaps
    BY <1>1 DEF Grows
  <2>4. cached'[r] <= db'.lastVersion
    BY <1>1, <2>1, <2>2 DEF Grows, HandlerOK, IInv, LocalsOK, DatabaseInv, ImageOK, Image
  <2>5. \A i : IsNext(r, i)' = IsNext(r, i) /\ Item(r, i)' = Item(r, i)
    BY <2>2 DEF IsNext, Item, BatchOf
  <2>6. BatchOf(r)' = BatchOf(r)
    BY <2>2 DEF BatchOf
  <2> HIDE DEF View
  <2> QED BY <2>1, <2>2, <2>3, <2>4, <2>5, <2>6 DEF HandlerOK
<1>3. HandlerOK(q)' /\ LocalsOK'
  BY DEF GoodStep
<1> QED BY <1>1, <1>2, <1>3 DEF IInv

-----------------------------------------------------------------------------
(* Handler steps that leave the database alone.                            *)

\* What the invariant says of one request, without quantifiers.
LEMMA OfRequest ==
  ASSUME IInv, NEW q \in Request
  PROVE  /\ HandlerOK(q) /\ LocalsOK /\ DatabaseInv
         /\ pc[q] \in Label
         /\ cached[q] \in Nat
         /\ seen[q] \in SnapshotRow
         /\ db.lastVersion \in Nat
         /\ work.lastVersion \in Nat
         /\ ImageOK(View(q))
         /\ Grows(db, View(q))
  BY GrowsReflexive DEF IInv, LocalsOK, DatabaseInv, ImageOK, Image, View

\* Entering post_events.
LEMMA PostEventsStep ==
  ASSUME IInv, NEW q \in Request, NEW batch \in Batch, PostEvents(q, batch)
  PROVE  GoodStep(q)
<1>0. HandlerOK(q) /\ LocalsOK
  BY OfRequest
<1>1. Effect(q)
  BY DEF PostEvents, Effect
<1>2. OthersWait(q)
  BY <1>0 DEF PostEvents, Goto, Answer, OthersWait, LocalsOK
<1>3. LocalsOK'
  BY <1>0, OfRequest DEF PostEvents, Goto, Answer, LocalsOK, Label, Reply, Body, SendBatch
<1>4. HandlerOK(q)'
  BY <1>0, OfRequest DEF PostEvents, Goto, Answer, HandlerOK, LocalsOK, database, View, SendBatch
<1> QED BY <1>1, <1>2, <1>3, <1>4 DEF GoodStep

\* Entering run or submit.
LEMMA ExecuteStep ==
  ASSUME IInv, NEW q \in Request, NEW body \in RunBody, Execute(q, body)
  PROVE  GoodStep(q)
<1>0. HandlerOK(q) /\ LocalsOK
  BY OfRequest
<1>1. Effect(q)
  BY DEF Execute, Effect
<1>2. OthersWait(q)
  BY <1>0 DEF Execute, Goto, Answer, OthersWait, LocalsOK
<1>3. LocalsOK'
  BY <1>0, OfRequest DEF Execute, Goto, Answer, LocalsOK, Label, Reply, Body
<1>4. HandlerOK(q)'
  BY <1>0, OfRequest DEF Execute, Goto, Answer, HandlerOK, LocalsOK, database, View
<1> QED BY <1>1, <1>2, <1>3, <1>4 DEF GoodStep

\* Entering finish_session.
LEMMA FinishSessionStep ==
  ASSUME IInv, NEW q \in Request, FinishSession(q)
  PROVE  GoodStep(q)
<1>0. HandlerOK(q) /\ LocalsOK
  BY OfRequest
<1>1. Effect(q)
  BY DEF FinishSession, Effect
<1>2. OthersWait(q)
  BY <1>0 DEF FinishSession, Goto, Answer, OthersWait, LocalsOK
<1>3. LocalsOK'
  BY <1>0, OfRequest DEF FinishSession, Goto, Answer, LocalsOK, Label, Reply, Body
<1>4. HandlerOK(q)'
  BY <1>0, OfRequest DEF FinishSession, Goto, Answer, HandlerOK, LocalsOK, database, View
<1> QED BY <1>1, <1>2, <1>3, <1>4 DEF GoodStep

\* finish_session of a finished session.
LEMMA FinishAgainStep ==
  ASSUME IInv, NEW q \in Request, FinishAgain(q)
  PROVE  GoodStep(q)
<1>0. HandlerOK(q) /\ LocalsOK
  BY OfRequest
<1>1. Effect(q)
  BY DEF FinishAgain, Effect
<1>2. OthersWait(q)
  BY <1>0 DEF FinishAgain, Goto, Answer, OthersWait, LocalsOK
<1>3. LocalsOK'
  BY <1>0, OfRequest DEF FinishAgain, Goto, Answer, LocalsOK, Label, Reply, Body
<1>4. HandlerOK(q)'
  BY <1>0, OfRequest DEF FinishAgain, Goto, Answer, HandlerOK, LocalsOK, database, View
<1> QED BY <1>1, <1>2, <1>3, <1>4 DEF GoodStep

\* The verdict arrives.
LEMMA JudgeStep ==
  ASSUME IInv, NEW q \in Request, Judge(q)
  PROVE  GoodStep(q)
<1>0. HandlerOK(q) /\ LocalsOK
  BY OfRequest
<1>1. Effect(q)
  BY DEF Judge, Effect
<1>2. OthersWait(q)
  BY <1>0 DEF Judge, Goto, Answer, OthersWait, LocalsOK, locals
<1>3. LocalsOK'
  BY <1>0, OfRequest DEF Judge, Goto, Answer, LocalsOK, Label, Reply, Body, locals
<1>4. HandlerOK(q)'
  BY <1>0, OfRequest DEF Judge, Goto, Answer, HandlerOK, LocalsOK, database, View, locals
<1> QED BY <1>1, <1>2, <1>3, <1>4 DEF GoodStep

\* create_snapshot finds the text unchanged.
LEMMA KeepCodeStep ==
  ASSUME IInv, NEW q \in Request, KeepCode(q)
  PROVE  GoodStep(q)
<1>0. HandlerOK(q) /\ LocalsOK
  BY OfRequest
<1>1. Effect(q)
  BY DEF KeepCode, Effect
<1>2. OthersWait(q)
  BY <1>0 DEF KeepCode, Goto, Answer, OthersWait, LocalsOK
<1>3. LocalsOK'
  BY <1>0, OfRequest DEF KeepCode, Goto, Answer, LocalsOK, Label, Reply, Body
<1>4. HandlerOK(q)'
  BY <1>0, OfRequest DEF KeepCode, Goto, Answer, HandlerOK, LocalsOK, database, View
<1> QED BY <1>1, <1>2, <1>3, <1>4 DEF GoodStep

\* latest_snapshot.
LEMMA ReadLatestStep ==
  ASSUME IInv, NEW q \in Request, ReadLatest(q)
  PROVE  GoodStep(q)
<1>0. HandlerOK(q) /\ LocalsOK
  BY OfRequest
<1>a. Latest(db) \in db.snaps /\ Latest(db) \in SnapshotRow
  BY OfRequest, LatestStored DEF DatabaseInv, ImageOK, Image
<1>1. Effect(q)
  BY DEF ReadLatest, Effect
<1>2. OthersWait(q)
  BY <1>0 DEF ReadLatest, Goto, Answer, OthersWait, LocalsOK
<1>3. LocalsOK'
  BY <1>0, OfRequest, <1>a DEF ReadLatest, Goto, Answer, LocalsOK, Label, Reply, Body
<1>4. HandlerOK(q)'
  BY <1>0, OfRequest, <1>a DEF ReadLatest, Goto, Answer, HandlerOK, LocalsOK, database, View
<1> QED BY <1>1, <1>2, <1>3, <1>4 DEF GoodStep

\* The snapshot asked for.
LEMMA PickVersionStep ==
  ASSUME IInv, NEW q \in Request, PickVersion(q)
  PROVE  GoodStep(q)
<1>0. HandlerOK(q) /\ LocalsOK
  BY OfRequest
<1>a. \E s \in db.snaps : s \in SnapshotRow /\ seen' = [seen EXCEPT ![q] = s]
  BY OfRequest DEF PickVersion, DatabaseInv, ImageOK, Image
<1>1. Effect(q)
  BY DEF PickVersion, Effect
<1>2. OthersWait(q)
  BY <1>0 DEF PickVersion, Goto, Answer, OthersWait, LocalsOK
<1>3. LocalsOK'
  BY <1>0, OfRequest, <1>a DEF PickVersion, Goto, Answer, LocalsOK, Label, Reply, Body
<1>4. HandlerOK(q)'
  BY <1>0, OfRequest, <1>a DEF PickVersion, Goto, Answer, HandlerOK, LocalsOK, database, View
<1> QED BY <1>1, <1>2, <1>3, <1>4 DEF GoodStep

\* The elements of the batch of a request are client events.
LEMMA BatchOfType ==
  ASSUME IInv, NEW q \in Request, pc[q] \in {"filter", "items", "snapshot", "requery"}
  PROVE  /\ DOMAIN BatchOf(q) \subseteq Nat
         /\ \A i \in DOMAIN BatchOf(q) : BatchOf(q)[i] \in ClientEvent
<1>1. PICK batch \in Batch : asked[q] = SendBatch(batch)
  BY OfRequest DEF HandlerOK
<1>2. BatchOf(q) = batch
  BY <1>1 DEF BatchOf, SendBatch
<1>3. batch \in Seq(ClientEvent)
  BY BatchAssumption
<1> QED BY <1>2, <1>3

\* Known and repeated ids are set aside.
LEMMA FilterStep ==
  ASSUME IInv, NEW q \in Request, Filter(q)
  PROVE  GoodStep(q)
<1>0. HandlerOK(q) /\ LocalsOK
  BY OfRequest
<1> DEFINE dups == Repeats(BatchOf(q), Ids(db))
           fresh == DOMAIN BatchOf(q) \ dups
           out == [reply |-> IF fresh = {} THEN "ok" ELSE "none", accepted |-> {},
                   duplicates |-> {BatchOf(q)[i] : i \in dups}]
<1>a. /\ pc[q] = "filter"
      /\ todo' = [todo EXCEPT ![q] = fresh]
      /\ answer' = [answer EXCEPT ![q] = out]
      /\ pc' = [pc EXCEPT ![q] = IF fresh = {} THEN "done" ELSE "items"]
      /\ UNCHANGED <<database, asked, cached, seen>>
  BY DEF Filter, Goto
<1>b. fresh \in SUBSET Nat /\ fresh \subseteq DOMAIN BatchOf(q)
  BY <1>a, BatchOfType
<1>c. out \in [reply : Reply, accepted : SUBSET ClientEvent, duplicates : SUBSET ClientEvent]
  <2>1. {BatchOf(q)[i] : i \in dups} \subseteq ClientEvent
    BY <1>a, BatchOfType DEF Repeats
  <2> HIDE DEF dups, fresh
  <2> QED BY <2>1 DEF Reply
<1>d. BatchOf(q)' = BatchOf(q)
  BY <1>a DEF BatchOf
<1> HIDE DEF dups, fresh, out
<1>1. Effect(q)
  BY <1>a DEF Effect
<1>2. OthersWait(q)
  BY <1>0, <1>a DEF OthersWait, LocalsOK
<1>3. LocalsOK'
  BY <1>0, <1>a, <1>b, <1>c DEF LocalsOK, Label
<1>4. HandlerOK(q)'
  BY <1>0, <1>a, <1>b, <1>d DEF HandlerOK, LocalsOK, database
<1> QED BY <1>1, <1>2, <1>3, <1>4 DEF GoodStep

\* The answer after an IntegrityError.
LEMMA RequeryStep ==
  ASSUME IInv, NEW q \in Request, Requery(q)
  PROVE  GoodStep(q)
<1>0. HandlerOK(q) /\ LocalsOK
  BY OfRequest
<1> DEFINE dups == answer[q].duplicates \cup (BatchIds(q) \cap Ids(db))
<1>a. answer' = [answer EXCEPT ![q] = [reply |-> "backstop", accepted |-> {},
                                       duplicates |-> dups]]
  BY DEF Requery
<1>b. dups \subseteq ClientEvent
  <2>1. BatchIds(q) \subseteq ClientEvent
    BY BatchOfType DEF BatchIds, Requery
  <2>2. answer[q].duplicates \subseteq ClientEvent
    BY <1>0 DEF LocalsOK
  <2> QED BY <2>1, <2>2
<1> HIDE DEF dups
<1>1. Effect(q)
  BY DEF Requery, Effect
<1>2. OthersWait(q)
  BY <1>0 DEF Requery, Goto, OthersWait, LocalsOK
<1>3. LocalsOK'
  BY <1>0, <1>a, <1>b DEF Requery, Goto, LocalsOK, Label, Reply
<1>4. HandlerOK(q)'
  BY <1>0 DEF Requery, Goto, HandlerOK, LocalsOK, database, View
<1> QED BY <1>1, <1>2, <1>3, <1>4 DEF GoodStep

\* create_snapshot reads the latest snapshot.
LEMMA ReadSnapshotStep ==
  ASSUME IInv, NEW q \in Request, NEW i \in todo[q], IsNext(q, i), ReadSnapshot(q, i)
  PROVE  GoodStep(q)
<1>0. HandlerOK(q) /\ LocalsOK
  BY OfRequest
<1>a. Latest(View(q)) \in View(q).snaps /\ Latest(View(q)) \in SnapshotRow
  BY OfRequest, LatestStored DEF DatabaseInv, ImageOK, Image
<1>b. \A j \in todo[q] : IsNext(q, j) => j = i
  BY <1>0 DEF IsNext, LocalsOK
<1>c. /\ todo'[q] = todo[q] /\ BatchOf(q)' = BatchOf(q) /\ View(q)' = View(q)
      /\ \A j : IsNext(q, j)' = IsNext(q, j) /\ Item(q, j)' = Item(q, j)
  BY DEF ReadSnapshot, IsNext, Item, BatchOf, View, database
<1>1. Effect(q)
  BY DEF ReadSnapshot, Effect
<1>2. OthersWait(q)
  BY <1>0 DEF ReadSnapshot, Goto, Answer, OthersWait, LocalsOK
<1>3. LocalsOK'
  BY <1>0, OfRequest, <1>a, <1>b DEF ReadSnapshot, Goto, Answer, LocalsOK, Label, Reply, Body
<1>4. HandlerOK(q)'
  BY <1>0, <1>a, <1>b, <1>c DEF ReadSnapshot, Goto, HandlerOK, LocalsOK, database
<1> QED BY <1>1, <1>2, <1>3, <1>4 DEF GoodStep

-----------------------------------------------------------------------------
(* Handler steps that undo a transaction.                                  *)

\* An exception leaves a handler, wherever it is.
LEMMA FailStep ==
  ASSUME IInv, NEW q \in Request, Fail(q)
  PROVE  GoodStep(q)
<1>0. HandlerOK(q) /\ LocalsOK
  BY OfRequest
<1>1. Effect(q)
  BY DEF Fail, Effect
<1>2. OthersWait(q)
  BY <1>0 DEF Fail, Answer, Goto, OthersWait, LocalsOK
<1>3. LocalsOK'
  BY <1>0 DEF Fail, Answer, Goto, LocalsOK, Label, Reply
<1>4. HandlerOK(q)'
  BY <1>0 DEF Fail, Rollback, Answer, Goto, HandlerOK, LocalsOK
<1> QED BY <1>1, <1>2, <1>3, <1>4 DEF GoodStep

\* A row of the batch meets the UNIQUE constraint.
LEMMA IngestCollisionStep ==
  ASSUME IInv, NEW q \in Request, NEW i \in todo[q], IngestCollision(q, i)
  PROVE  GoodStep(q)
<1>0. HandlerOK(q) /\ LocalsOK
  BY OfRequest
<1>1. Effect(q)
  BY DEF IngestCollision, Effect
<1>2. OthersWait(q)
  BY <1>0 DEF IngestCollision, Goto, OthersWait, LocalsOK
<1>3. LocalsOK'
  BY <1>0 DEF IngestCollision, Goto, LocalsOK, Label
<1>4. HandlerOK(q)'
  BY <1>0 DEF IngestCollision, Inserting, Rollback, Goto, HandlerOK, LocalsOK
<1> QED BY <1>1, <1>2, <1>3, <1>4 DEF GoodStep

-----------------------------------------------------------------------------
(* Handler steps that write.                                               *)

\* A row of the batch was inserted; the handler goes on with the others.
LEMMA StoredStep ==
  ASSUME IInv, NEW q \in Request, NEW i \in todo[q],
         pc[q] \in {"items", "snapshot"}, Stored(q, i), db' = db
  PROVE  OthersWait(q) /\ LocalsOK' /\ HandlerOK(q)'
<1>0. HandlerOK(q) /\ LocalsOK
  BY OfRequest
<1>a. Item(q, i) \in ClientEvent
  BY <1>0, BatchOfType DEF Item, HandlerOK
<1>b. BatchOf(q)' = BatchOf(q)
  BY DEF Stored, BatchOf
<1>2. OthersWait(q)
  BY <1>0 DEF Stored, Goto, OthersWait, LocalsOK
<1>3. LocalsOK'
  BY <1>0, <1>a DEF Stored, Goto, LocalsOK, Label
<1>4. HandlerOK(q)'
  BY <1>0, <1>b DEF Stored, Goto, HandlerOK, LocalsOK
<1> QED BY <1>2, <1>3, <1>4

\* An event other than a snapshot is appended with a version that exists.
LEMMA IngestActivityStep ==
  ASSUME IInv, NEW q \in Request, NEW i \in todo[q], IsNext(q, i), IngestActivity(q, i)
  PROVE  GoodStep(q)
<1> DEFINE image == AddEvent(View(q), "ACTIVITY", Item(q, i), cached[q])
<1>1. Item(q, i) \in ClientEvent
  BY OfRequest, BatchOfType DEF Item, HandlerOK, IngestActivity
<1>2. cached[q] \in 0..View(q).lastVersion
  BY OfRequest DEF HandlerOK, Grows, ImageOK, Image
<1>3. ImageOK(image)
  BY <1>1, <1>2, OfRequest, AddEventType, AddEventSound
     DEF ImageOK, Collides, IngestActivity, ServerType, ClientType
<1>4. Grows(View(q), image)
  BY OfRequest, AddEventGrows DEF ImageOK
<1>5. Write(q, image) /\ db' = db
  BY DEF IngestActivity, Write
<1>6. Effect(q)
  <2> HIDE DEF image
  <2> QED BY <1>3, <1>4, <1>5 DEF Effect
<1> QED BY <1>5, <1>6, StoredStep DEF GoodStep, IngestActivity

\* A CODE_SNAPSHOT is appended with the version that holds its code.
LEMMA IngestSnapshotStep ==
  ASSUME IInv, NEW q \in Request, NEW i \in todo[q], IsNext(q, i), IngestSnapshot(q, i)
  PROVE  GoodStep(q)
<1> DEFINE code == CodeOf[Item(q, i)]
           before == View(q)
           held == WithSnapshot(before, code, seen[q])
           version == VersionOf(before, code, seen[q])
           image == AddEvent(held, "CODE_SNAPSHOT", Item(q, i), version)
<1>1. /\ Item(q, i) \in ClientEvent
      /\ Item(q, i) \in Snapshot
      /\ code \in Code
      /\ seen[q] \in before.snaps
  BY OfRequest, BatchOfType, CodeAssumption DEF Item, HandlerOK, IngestSnapshot
<1>2. ImageOK(before)
  BY OfRequest
<1>3. /\ seen[q].version \in 1..before.lastVersion
      /\ seen[q].version \in Nat
      /\ before.lastVersion \in Nat
  BY <1>1, <1>2, StoredSnapshot DEF ImageOK, Image
<1> HIDE DEF code, before
<1>4. /\ ImageOK(held)
      /\ Grows(before, held)
      /\ Ids(held) = Ids(before)
      /\ version \in 0..held.lastVersion
      /\ \E s \in held.snaps : s.version = version /\ s.code = code
  <2>1. CASE seen[q].code = code
    <3>1. held = before /\ version = seen[q].version
      BY <2>1 DEF WithSnapshot, VersionOf
    <3> QED BY <3>1, <2>1, <1>1, <1>2, <1>3, GrowsReflexive DEF ImageOK
  <2>2. CASE seen[q].code # code
    <3>1. /\ held = AddSnapshot(before, code, seen[q].version)
          /\ version = before.lastVersion + 1
      BY <2>2 DEF WithSnapshot, VersionOf
    <3>2. ImageOK(held) /\ Grows(before, held)
      BY <3>1, <1>1, <1>2, <1>3, AddSnapshotType, AddSnapshotSound, AddSnapshotGrows DEF ImageOK
    <3>3. /\ held.events = before.events
          /\ held.lastVersion = before.lastVersion + 1
          /\ NewRow(before, code, seen[q].version) \in held.snaps
      BY <3>1 DEF AddSnapshot
    <3>4. \E s \in held.snaps : s.version = version /\ s.code = code
      BY <3>1, <3>3 DEF NewRow
    <3> QED BY <3>1, <3>2, <3>3, <3>4, <1>3 DEF Ids
  <2> QED BY <2>1, <2>2
<1> HIDE DEF held, version
<1>5. Item(q, i) \notin Ids(held)
  BY <1>4 DEF IngestSnapshot, Collides, before
<1>6. version \in Nat
  BY <1>4 DEF ImageOK, Image
<1>7. ImageOK(image)
  BY <1>1, <1>4, <1>5, <1>6, AddEventType, AddEventSound
     DEF ImageOK, ServerType, ClientType, code
<1>8. Grows(before, image)
  BY <1>2, <1>4, <1>7, AddEventGrows, GrowsTransitive DEF ImageOK
<1>9. Write(q, image) /\ db' = db
  BY DEF IngestSnapshot, Write, held, version, before, code
<1>10. Effect(q)
  <2> HIDE DEF image
  <2> QED BY <1>7, <1>8, <1>9 DEF Effect, before
<1> QED BY <1>9, <1>10, StoredStep DEF GoodStep, IngestSnapshot

\* ingest_events commits the batch.
LEMMA CommitBatchStep ==
  ASSUME IInv, NEW q \in Request, CommitBatch(q)
  PROVE  GoodStep(q)
<1>0. HandlerOK(q) /\ LocalsOK /\ DatabaseInv
  BY OfRequest
<1>1. Effect(q)
  BY DEF CommitBatch, Commit, Effect
<1>2. OthersWait(q)
  BY <1>0 DEF CommitBatch, Answer, Goto, OthersWait, LocalsOK
<1>3. LocalsOK'
  BY <1>0 DEF CommitBatch, Answer, Goto, LocalsOK, Label, Reply
<1>4. cached'[q] <= db'.lastVersion
  BY <1>0, OfRequest DEF CommitBatch, HandlerOK, DatabaseInv, Grows
<1>5. HandlerOK(q)'
  BY <1>0, <1>4 DEF CommitBatch, Answer, Goto, HandlerOK, LocalsOK
<1> QED BY <1>1, <1>2, <1>3, <1>5 DEF GoodStep

\* A request that appends one row, commits and answers.
LEMMA AppendStep ==
  ASSUME IInv, NEW q \in Request, NEW image, ImageOK(image), Grows(db, image),
         WriteAndCommit(image), Answer(q, "ok"), UNCHANGED <<asked, todo, cached, seen>>
  PROVE  GoodStep(q)
<1>0. HandlerOK(q) /\ LocalsOK
  BY OfRequest
<1>1. Effect(q)
  BY DEF Effect
<1>2. OthersWait(q)
  BY <1>0 DEF Answer, Goto, OthersWait, LocalsOK
<1>3. LocalsOK'
  BY <1>0 DEF Answer, Goto, LocalsOK, Label, Reply
<1>4. cached'[q] <= db'.lastVersion
  BY <1>0, OfRequest DEF HandlerOK, Grows, WriteAndCommit, ImageOK, Image
<1>5. HandlerOK(q)'
  BY <1>0, <1>4 DEF Answer, Goto, HandlerOK, LocalsOK
<1> QED BY <1>1, <1>2, <1>3, <1>5 DEF GoodStep

\* A row the server writes itself is fine with any version that exists.
LEMMA ServerRow ==
  ASSUME IInv, NEW type \in ServerType, NEW version \in 0..db.lastVersion
  PROVE  /\ ImageOK(AddEvent(db, type, NoId, version))
         /\ Grows(db, AddEvent(db, type, NoId, version))
<1>1. NoId \notin Ids(db) /\ ImageOK(db) /\ version \in Nat /\ type # "CODE_SNAPSHOT"
  BY DEF Ids, IInv, DatabaseInv, ServerType
<1> QED BY <1>1, AddEventType, AddEventSound, AddEventGrows DEF ImageOK

\* record_judge_result.
LEMMA RecordResultStep ==
  ASSUME IInv, NEW q \in Request, RecordResult(q)
  PROVE  GoodStep(q)
<1>1. seen[q].version \in 0..db.lastVersion
  BY OfRequest, StoredSnapshot DEF RecordResult, HandlerOK, DatabaseInv, ImageOK
<1> QED BY <1>1, ServerRow, AppendStep DEF RecordResult, ServerType

\* record_agent_intervention.
LEMMA RecordInterventionStep ==
  ASSUME IInv, NEW q \in Request, RecordIntervention(q)
  PROVE  GoodStep(q)
<1>1. 0 \in 0..db.lastVersion
  BY OfRequest
<1> QED BY <1>1, ServerRow, AppendStep DEF RecordIntervention, ServerType

\* finish_session.
LEMMA EndSessionStep ==
  ASSUME IInv, NEW q \in Request, EndSession(q)
  PROVE  GoodStep(q)
<1> DEFINE image == AddEvent(db, "SESSION_END", NoId, cached[q])
<1>1. cached[q] \in 0..db.lastVersion
  BY OfRequest DEF HandlerOK
<1>2. ImageOK(image) /\ Grows(db, image)
  BY <1>1, ServerRow DEF ServerType
<1>3. WriteAndCommit(Finished(image)) /\ Answer(q, "ok") /\ UNCHANGED <<asked, todo, cached, seen>>
  BY DEF EndSession
<1> HIDE DEF image
<1>4. ImageOK(Finished(image)) /\ Grows(db, Finished(image))
  <2>1. /\ Finished(image) \in Image
        /\ Finished(image).finished = TRUE
        /\ Finished(image).events = image.events
        /\ Finished(image).snaps = image.snaps
        /\ Finished(image).lastSeq = image.lastSeq
        /\ Finished(image).lastVersion = image.lastVersion
    BY <1>2 DEF Finished, ImageOK, Image
  <2> QED BY <1>2, <2>1 DEF ImageOK, Sound, GaplessSeqs, OnceEach, VersionChain, CodeAsSent, Grows
<1> QED BY <1>3, <1>4, AppendStep

\* create_snapshot of a run writes and commits.
LEMMA SaveCodeStep ==
  ASSUME IInv, NEW q \in Request, SaveCode(q)
  PROVE  GoodStep(q)
<1> DEFINE code == asked[q].code
           parent == seen[q].version
           image == AddSnapshot(db, code, parent)
           row == NewRow(db, code, parent)
<1>0. HandlerOK(q) /\ LocalsOK /\ ImageOK(db) /\ db.lastVersion \in Nat
  BY OfRequest DEF DatabaseInv
<1>1. /\ pc[q] = "save"
      /\ WriteAndCommit(image)
      /\ seen' = [seen EXCEPT ![q] = row]
      /\ cached' = [cached EXCEPT ![q] = db'.lastVersion]
      /\ pc' = [pc EXCEPT ![q] = "judge"]
      /\ UNCHANGED <<asked, todo, answer>>
  BY DEF SaveCode, Goto
<1>2. code \in Code
  BY <1>0, <1>1, RunBodyAssumption DEF HandlerOK, UseLatest, SendCode, Pick
<1>3. parent \in 1..db.lastVersion /\ parent \in Nat
  BY <1>0, <1>1, StoredSnapshot DEF HandlerOK, ImageOK
<1>4. ImageOK(image) /\ Grows(db, image)
  BY <1>0, <1>2, <1>3, AddSnapshotType, AddSnapshotSound, AddSnapshotGrows DEF ImageOK
<1>5. row \in SnapshotRow /\ row \in image.snaps /\ row.code = code /\ image.lastVersion \in Nat
  BY <1>0, <1>2, <1>3, <1>4 DEF AddSnapshot, NewRow, SnapshotRow, ImageOK, Image
<1> HIDE DEF image, row
<1>6. Effect(q)
  BY <1>1, <1>4 DEF Effect
<1>7. OthersWait(q)
  BY <1>0, <1>1 DEF OthersWait, LocalsOK
<1>8. LocalsOK'
  BY <1>0, <1>1, <1>5 DEF LocalsOK, Label, WriteAndCommit
<1>9. HandlerOK(q)'
  BY <1>0, <1>1, <1>5 DEF HandlerOK, LocalsOK, WriteAndCommit
<1> QED BY <1>6, <1>7, <1>8, <1>9 DEF GoodStep

-----------------------------------------------------------------------------
(* Init, Next and the theorems.                                            *)

\* The initial state satisfies the invariant.
LEMMA InitInv == ASSUME Init PROVE IInv
<1>1. ImageOK(NewSession) /\ Latest(NewSession) \in SnapshotRow
  BY NewSessionSound, LatestStored DEF ImageOK, Image
<1>2. DatabaseInv
  BY <1>1, GrowsReflexive DEF Init, DatabaseInv, ImageOK
<1>3. LocalsOK
  BY <1>1 DEF Init, LocalsOK, Label, Body, Reply, Silent
<1>4. \A r \in Request : HandlerOK(r)
  BY <1>1 DEF Init, HandlerOK, ImageOK, Image
<1> QED BY <1>2, <1>3, <1>4 DEF IInv

\* A crash keeps the invariant: the open transaction is gone, and so is
\* every handler that relied on what it had read.
LEMMA CrashKeepsInv ==
  ASSUME IInv, Crash
  PROVE  IInv' /\ db' = db
<1>0. LocalsOK /\ DatabaseInv /\ \A r \in Request : HandlerOK(r)
  BY DEF IInv
<1>1. DatabaseInv'
  <2>1. db' = db /\ work' = db /\ lock' = Free
    BY DEF Crash
  <2> QED BY <1>0, <2>1, GrowsReflexive DEF DatabaseInv, ImageOK
<1>2. LocalsOK'
  BY <1>0 DEF Crash, LocalsOK, Running, Label, Reply
<1>3. ASSUME NEW r \in Request PROVE HandlerOK(r)'
  BY <1>0 DEF Crash, Running, HandlerOK, LocalsOK
<1> QED BY <1>1, <1>2, <1>3 DEF IInv, Crash

\* A step of the handler of q, the arrival of its request and its failure included
StepOf(q) == Arrive(q) \/ Handle(q) \/ LockTimeout(q)

\* Every step of a handler is one of the good ones.
LEMMA StepIsGood ==
  ASSUME IInv, NEW q \in Request, StepOf(q)
  PROVE  GoodStep(q)
<1>1. CASE Arrive(q)
  BY <1>1, PostEventsStep, ExecuteStep, FinishSessionStep, FinishAgainStep,
     RecordInterventionStep DEF Arrive
<1>2. CASE Ingest(q)
  BY <1>2, FilterStep, RequeryStep, CommitBatchStep, IngestActivityStep, ReadSnapshotStep,
     IngestSnapshotStep, IngestCollisionStep, FailStep DEF Ingest, RefuseSnapshot
<1>3. CASE RunSteps(q)
  BY <1>3, ReadLatestStep, PickVersionStep, KeepCodeStep, SaveCodeStep, JudgeStep,
     RecordResultStep, FailStep DEF RunSteps, RefuseVersion, JudgeUnavailable, RefuseResult
<1>4. CASE LockTimeout(q)
  BY <1>4, FailStep DEF LockTimeout
<1> QED BY <1>1, <1>2, <1>3, <1>4, EndSessionStep DEF StepOf, Handle

\* Every step keeps the invariant, and what is committed is only added to.
LEMMA NextInv ==
  ASSUME IInv, [Next]_vars
  PROVE  IInv' /\ Grows(db, db')
<1>1. ASSUME NEW q \in Request, StepOf(q) PROVE IInv' /\ Grows(db, db')
  BY <1>1, StepIsGood, GoodStepKeepsInv
<1>2. CASE Crash
  BY <1>2, CrashKeepsInv, GrowsReflexive DEF IInv, DatabaseInv, ImageOK
<1>3. CASE UNCHANGED vars
  BY <1>3, GrowsReflexive
     DEF vars, IInv, DatabaseInv, ImageOK, Sound, GaplessSeqs, OnceEach, VersionChain,
         CodeAsSent, Grows, LocalsOK, HandlerOK, View, IsNext, Item, BatchOf
<1> QED BY <1>1, <1>2, <1>3 DEF Next, StepOf

\* The invariant holds in every reachable state.
THEOREM Invariance == Spec => []IInv
<1>1. Init => IInv
  BY InitInv
<1>2. IInv /\ [Next]_vars => IInv'
  BY NextInv
<1> QED BY <1>1, <1>2, PTL DEF Spec

\* Rows and local variables have their types, whatever the requests do.
THEOREM TypeCorrect == Spec => []TypeOK
<1>1. IInv => TypeOK
  BY DEF IInv, DatabaseInv, ImageOK, LocalsOK, TypeOK
<1> QED BY <1>1, Invariance, PTL

\* seqs are 1..last_event_seq, one row each (store.allocate_event_seqs).
THEOREM Gapless == Spec => []SeqsAreGapless
<1>1. IInv => SeqsAreGapless
  BY DEF IInv, DatabaseInv, ImageOK, Sound, SeqsAreGapless
<1> QED BY <1>1, Invariance, PTL

\* A client event is stored at most once (ingest_events).
THEOREM Idempotent == Spec => []StoredAtMostOnce
<1>1. IInv => StoredAtMostOnce
  BY DEF IInv, DatabaseInv, ImageOK, Sound, StoredAtMostOnce
<1> QED BY <1>1, Invariance, PTL

\* Versions are 1..last_code_version, each with an earlier parent
\* (create_snapshot).
THEOREM Chain == Spec => []SnapshotsFormAChain
<1>1. IInv => SnapshotsFormAChain
  BY DEF IInv, DatabaseInv, ImageOK, Sound, SnapshotsFormAChain
<1> QED BY <1>1, Invariance, PTL

\* The version of a CODE_SNAPSHOT row holds the code that was sent with it
\* (_ingest_code_snapshot).
THEOREM Replayable == Spec => []EventsNameTheirCode
<1>1. IInv => EventsNameTheirCode
  BY DEF IInv, DatabaseInv, ImageOK, Sound, EventsNameTheirCode
<1> QED BY <1>1, Invariance, PTL

\* The judge is given the code that was sent, and it is stored (_execute).
THEOREM Judged == Spec => []JudgedCodeIsStored
<1>1. IInv => JudgedCodeIsStored
  BY DEF IInv, HandlerOK, JudgedCodeIsStored
<1> QED BY <1>1, Invariance, PTL

\* A reader that polls with since_seq misses nothing (events_since).
THEOREM Polling == Spec => PollingMissesNothing
<1>1. IInv /\ [Next]_vars =>
        [/\ db.events \subseteq db'.events
         /\ db.snaps \subseteq db'.snaps
         /\ db.finished => db'.finished
         /\ \A e \in db'.events \ db.events : e.seq > db.lastSeq]_db
  BY NextInv DEF Grows
<1> QED BY <1>1, Invariance, PTL DEF Spec, PollingMissesNothing
=============================================================================
