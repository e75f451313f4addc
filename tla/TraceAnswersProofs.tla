------------------------- MODULE TraceAnswersProofs -------------------------
(***************************************************************************)
(* What POST /events tells its caller, and what a reader of the trace can  *)
(* see between two polls: AnswersAreTrue, BatchesAreAtomic and the         *)
(* refinement of EventLog, for any number of requests.                     *)
(*                                                                         *)
(* The argument: while a request works on its batch, every id of the batch *)
(* is in exactly one of three places, stored by this request, known to be  *)
(* a duplicate, or still to be stored (BatchOK).  What it stored is the    *)
(* difference between the image of its transaction and the committed one,  *)
(* which nobody else can change meanwhile.                                 *)
(***************************************************************************)
EXTENDS TraceStoreProofs, WellFoundedInduction

USE DEF Request, Free

-----------------------------------------------------------------------------
(* The invariant of a batch.                                               *)

Said(r) == answer[r].accepted \cup answer[r].duplicates
Left(r) == {Item(r, i) : i \in todo[r]}
Repeated(batch) == {batch[i] : i \in Repeats(batch, {})}
AtItems(r) == pc[r] \in {"items", "snapshot"}
OffBatch == {"idle", "latest", "save", "pick", "judge", "record", "finish"}

\* What AnswersAreTrue says of one request
Told(r) ==
    asked[r].by = "batch" =>
        /\ answer[r].reply = "ok" => Said(r) = BatchIds(r) /\ Said(r) \subseteq Ids(db)
        /\ answer[r].reply = "backstop" =>
              Said(r) \subseteq Ids(db) \cup Repeated(BatchOf(r))

\* Every id of the batch is stored, a duplicate, or still to be stored
Accounted(r) ==
    /\ answer[r].accepted = IF lock = r THEN Ids(work) \ Ids(db) ELSE {}
    /\ BatchIds(r) = Said(r) \cup Left(r)
    /\ answer[r].duplicates \subseteq Ids(db) \cup Repeated(BatchOf(r))
    /\ answer[r].duplicates \subseteq Ids(db) \cup answer[r].accepted \cup Left(r)

\* An open transaction is one of post_events, and holds rows of the client
Client(e) == e.type \in ClientType /\ e.id \in ClientEvent
OnlyBatches(r) ==
    lock = r =>
        /\ AtItems(r)
        /\ work.finished = db.finished
        /\ \A e \in work.events \ db.events : Client(e)

BatchOK(r) ==
    /\ pc[r] # "done" => answer[r].reply = "none"
    /\ pc[r] \in OffBatch => asked[r].by # "batch"
    /\ OnlyBatches(r)
    /\ AtItems(r) => Accounted(r)
    /\ pc[r] = "requery" => answer[r].duplicates \subseteq Ids(db) \cup Repeated(BatchOf(r))
    /\ pc[r] = "done" => Told(r)

BatchInv == IInv /\ \A r \in Request : BatchOK(r)

-----------------------------------------------------------------------------
(* Facts about batches and rows.                                           *)

\* A set of naturals that is not empty has a smallest element.
LEMMA Smallest ==
  ASSUME NEW T, T \subseteq Nat, T # {}
  PROVE  \E x \in T : \A y \in T : x <= y
<1> DEFINE R == OpToRel(<, Nat)
<1>1. R = {pair \in Nat \X Nat : pair[1] < pair[2]}
  BY DEF OpToRel
<1>2. IsWellFoundedOn(R, Nat)
  BY NatLessThanWellFounded
<1> HIDE DEF R
<1>3. PICK x \in T : \A y \in T : <<y, x>> \notin R
  BY <1>2, WFMin
<1>4. ASSUME NEW y \in T, y < x PROVE FALSE
  <2>1. <<y, x>> \in Nat \X Nat /\ <<y, x>>[1] = y /\ <<y, x>>[2] = x
    OBVIOUS
  <2> QED BY <1>1, <1>3, <1>4, <2>1
<1> QED BY <1>3, <1>4

\* The first element of a batch with some id is not a repetition, so that every
\* repeated id is known or is also among the fresh ones.
LEMMA FirstIsFresh ==
  ASSUME NEW batch \in Seq(ClientEvent), NEW known, NEW i \in DOMAIN batch
  PROVE  \/ batch[i] \in known
         \/ \E j \in DOMAIN batch \ Repeats(batch, known) : batch[j] = batch[i]
<1> SUFFICES ASSUME batch[i] \notin known
             PROVE  \E j \in DOMAIN batch \ Repeats(batch, known) : batch[j] = batch[i]
  OBVIOUS
<1>0. DOMAIN batch = 1..Len(batch) /\ Len(batch) \in Nat
  OBVIOUS
<1> DEFINE Same == {j \in DOMAIN batch : batch[j] = batch[i]}
<1>1. PICK first \in Same : \A j \in Same : first <= j
  <2>1. Same \subseteq Nat /\ Same # {}
    BY <1>0
  <2> HIDE DEF Same
  <2> QED BY <2>1, Smallest
<1>2. first \notin Repeats(batch, known)
  <2> SUFFICES ASSUME NEW j \in 1..(first - 1), batch[j] = batch[first]
               PROVE  FALSE
    BY DEF Repeats
  <2>1. j \in Same /\ first \in Nat /\ j < first
    BY <1>0, <1>1
  <2> QED BY <1>0, <1>1, <2>1
<1> QED BY <1>1, <1>2

\* The ids of an image with one more row.
LEMMA IdsOfAdded ==
  ASSUME NEW image \in Image, NEW type \in ServerType \cup ClientType,
         NEW id \in ClientEvent \cup {NoId}, NEW version
  PROVE  /\ Ids(AddEvent(image, type, id, version)) = Ids(image) \cup ({id} \ {NoId})
         /\ \A e \in AddEvent(image, type, id, version).events \ image.events :
               e.type = type /\ e.id = id
         /\ AddEvent(image, type, id, version).finished = image.finished
<1> DEFINE row == [seq |-> image.lastSeq + 1, type |-> type, id |-> id, version |-> version]
<1>1. AddEvent(image, type, id, version).events = image.events \cup {row}
  BY DEF AddEvent
<1>2. row.type = type /\ row.id = id
  OBVIOUS
<1>3. AddEvent(image, type, id, version).finished = image.finished
  BY DEF AddEvent
<1> HIDE DEF row
<1>4. Ids(AddEvent(image, type, id, version)) = Ids(image) \cup ({id} \ {NoId})
  BY <1>1, <1>2 DEF Ids
<1> QED BY <1>1, <1>2, <1>3, <1>4

\* A later image has all the ids of an earlier one.
LEMMA IdsGrow ==
  ASSUME NEW before, NEW image, Grows(before, image)
  PROVE  Ids(before) \subseteq Ids(image)
  BY DEF Ids, Grows


-----------------------------------------------------------------------------
(* The requests that wait.                                                 *)

\* Nobody but q says anything in a step of q
OthersSilent(q) == \A r \in Request \ {q} : answer'[r] = answer[r]

\* The transaction of r and what it is compared with: left alone by a step of
\* another request, which at most adds committed rows when r has none open.
LEMMA OthersTransaction ==
  ASSUME IInv, NEW q \in Request, NEW r \in Request \ {q}, Effect(q), OnlyBatches(r)
  PROVE  /\ lock = r => UNCHANGED database
         /\ lock' = r <=> lock = r
<1>0. q # r /\ r # Free /\ lock \in Request \cup {Free}
  <2>1. r # Free /\ q # r
    BY MaxRequestsAssumption
  <2>2. lock \in Request \cup {Free}
    BY DEF IInv, DatabaseInv
  <2> QED BY <2>1, <2>2
<1>1. CASE UNCHANGED database
  BY <1>1 DEF database
<1>2. CASE Rollback(q)
  BY <1>0, <1>2 DEF Rollback, database, IInv, DatabaseInv
<1>3. CASE \E image : ImageOK(image) /\ Grows(View(q), image) /\ Write(q, image)
  BY <1>0, <1>3 DEF Write
<1>4. CASE \E image : ImageOK(image) /\ Grows(db, image) /\ WriteAndCommit(image)
  BY <1>0, <1>4 DEF WriteAndCommit
<1>5. CASE Commit(q)
  BY <1>0, <1>5 DEF Commit
<1> QED BY <1>1, <1>2, <1>3, <1>4, <1>5 DEF Effect

\* What a request that waits has said and has left is still so.
LEMMA OthersKeep ==
  ASSUME BatchInv, NEW q \in Request, GoodStep(q), OthersSilent(q), NEW r \in Request \ {q}
  PROVE  BatchOK(r)'
<1>1. /\ pc'[r] = pc[r]
      /\ asked'[r] = asked[r]
      /\ todo'[r] = todo[r]
      /\ answer'[r] = answer[r]
  BY DEF GoodStep, OthersWait, OthersSilent
<1>2. /\ BatchOf(r)' = BatchOf(r)
      /\ BatchIds(r)' = BatchIds(r)
      /\ Left(r)' = Left(r)
      /\ Said(r)' = Said(r)
  BY <1>1 DEF BatchOf, BatchIds, Left, Item, Said
<1>3. Ids(db) \subseteq Ids(db')
  BY GoodStepKeepsInv, IdsGrow DEF BatchInv
<1>4. BatchOK(r) /\ IInv
  BY DEF BatchInv
<1>5. (lock = r => UNCHANGED database) /\ (lock' = r <=> lock = r)
  BY <1>4, OthersTransaction DEF GoodStep, BatchOK
<1>6. OnlyBatches(r)'
  BY <1>1, <1>4, <1>5 DEF OnlyBatches, AtItems, BatchOK, database, Client
<1>7. AtItems(r) => Accounted(r)'
  <2>1. lock = r => Ids(work)' = Ids(work) /\ Ids(db)' = Ids(db)
    BY <1>5 DEF database
  <2>2. Ids(db)' = Ids(db')
    OBVIOUS
  <2> QED BY <1>1, <1>2, <1>3, <1>4, <1>5, <2>1, <2>2 DEF Accounted, BatchOK
<1>8. Told(r) => Told(r)'
  BY <1>1, <1>2, <1>3 DEF Told
<1> QED BY <1>1, <1>2, <1>3, <1>4, <1>6, <1>7, <1>8 DEF BatchOK, AtItems

-----------------------------------------------------------------------------
(* The request that moves, away from its batch.                            *)

\* A handler that is not at its rows goes on, or answers with nothing to account for.
LEMMA GoesOn ==
  ASSUME BatchInv, NEW q \in Request, lock' # q,
         pc'[q] \in OffBatch \cup {"filter"}, answer'[q] = answer[q], pc[q] # "done",
         pc'[q] \in OffBatch => asked'[q].by # "batch"
  PROVE  BatchOK(q)'
<1>1. BatchOK(q)
  BY DEF BatchInv
<1> QED BY <1>1 DEF BatchOK, OnlyBatches, AtItems, OffBatch

\* A request that does not have a batch is answered, or has failed.
LEMMA Ends ==
  ASSUME NEW q \in Request, lock' # q, pc'[q] = "done",
         asked'[q].by # "batch" \/ answer'[q].reply \in {"error", "lost"}
  PROVE  BatchOK(q)'
  BY DEF BatchOK, OnlyBatches, AtItems, OffBatch, Told

\* What the invariant says of the request that moves, without quantifiers.
LEMMA OfMover ==
  ASSUME BatchInv, NEW q \in Request
  PROVE  /\ IInv /\ BatchOK(q) /\ HandlerOK(q) /\ LocalsOK /\ DatabaseInv
         /\ ~AtItems(q) => lock # q
         /\ q # Free
<1>1. IInv /\ BatchOK(q)
  BY DEF BatchInv
<1>2. q # Free
  BY MaxRequestsAssumption
<1> QED BY <1>1, <1>2, OfRequest DEF BatchOK, OnlyBatches

\* The requests arrive.
LEMMA ArriveKeeps ==
  ASSUME BatchInv, NEW q \in Request, Arrive(q)
  PROVE  OthersSilent(q) /\ BatchOK(q)'
<1>0. BatchOK(q) /\ LocalsOK /\ lock # q /\ q # Free /\ pc[q] = "idle"
  BY OfMover DEF Arrive, PostEvents, Execute, FinishSession, FinishAgain, RecordIntervention, AtItems
<1>1. ASSUME NEW batch \in Batch, PostEvents(q, batch) PROVE OthersSilent(q) /\ BatchOK(q)'
  BY <1>0, <1>1, GoesOn DEF PostEvents, Goto, LocalsOK, OthersSilent, OffBatch, database
<1>2. ASSUME NEW body \in RunBody, Execute(q, body) PROVE OthersSilent(q) /\ BatchOK(q)'
  <2>1. body.by # "batch"
    BY RunBodyAssumption DEF UseLatest, SendCode, Pick
  <2> QED BY <1>0, <1>2, <2>1, GoesOn DEF Execute, Goto, LocalsOK, OthersSilent, OffBatch, database
<1>3. CASE FinishSession(q)
  BY <1>0, <1>3, GoesOn DEF FinishSession, Goto, LocalsOK, OthersSilent, OffBatch, database, BatchOK
<1>4. CASE FinishAgain(q)
  BY <1>0, <1>4, Ends DEF FinishAgain, Answer, Goto, LocalsOK, OthersSilent, OffBatch, database, BatchOK
<1>5. CASE RecordIntervention(q)
  BY <1>0, <1>5, Ends DEF RecordIntervention, WriteAndCommit, Answer, Goto, LocalsOK,
     OthersSilent, OffBatch, BatchOK
<1> QED BY <1>1, <1>2, <1>3, <1>4, <1>5 DEF Arrive

\* An exception leaves a handler.
LEMMA FailKeeps ==
  ASSUME BatchInv, NEW q \in Request, Fail(q)
  PROVE  OthersSilent(q) /\ BatchOK(q)'
<1>1. LocalsOK /\ q # Free
  BY OfMover
<1>2. lock' # q /\ pc'[q] = "done" /\ answer'[q].reply = "error" /\ OthersSilent(q)
  BY <1>1 DEF Fail, Rollback, Answer, Goto, LocalsOK, OthersSilent
<1> QED BY <1>2, Ends

\* The handlers of a run and of finish_session.
LEMMA RunKeeps ==
  ASSUME BatchInv, NEW q \in Request, RunSteps(q) \/ EndSession(q)
  PROVE  OthersSilent(q) /\ BatchOK(q)'
<1>0. CASE RefuseVersion(q) \/ JudgeUnavailable(q) \/ RefuseResult(q)
  BY <1>0, FailKeeps DEF RefuseVersion, JudgeUnavailable, RefuseResult
<1>1. ASSUME pc[q] \in OffBatch PROVE /\ BatchOK(q) /\ LocalsOK /\ lock # q /\ q # Free
                                     /\ asked[q].by # "batch"
  BY <1>1, OfMover DEF AtItems, BatchOK, OffBatch
<1>2. CASE ReadLatest(q)
  BY <1>1, <1>2, GoesOn DEF ReadLatest, Goto, LocalsOK, OthersSilent, OffBatch, database
<1>3. CASE PickVersion(q)
  BY <1>1, <1>3, GoesOn DEF PickVersion, Goto, LocalsOK, OthersSilent, OffBatch, database
<1>4. CASE KeepCode(q)
  BY <1>1, <1>4, GoesOn DEF KeepCode, Goto, LocalsOK, OthersSilent, OffBatch, database
<1>5. CASE SaveCode(q)
  BY <1>1, <1>5, GoesOn DEF SaveCode, WriteAndCommit, Goto, LocalsOK, OthersSilent, OffBatch
<1>6. CASE Judge(q)
  BY <1>1, <1>6, GoesOn DEF Judge, Goto, LocalsOK, OthersSilent, OffBatch, database, locals
<1>7. CASE RecordResult(q)
  BY <1>1, <1>7, Ends DEF RecordResult, WriteAndCommit, Answer, Goto, LocalsOK, OthersSilent, OffBatch
<1>8. CASE EndSession(q)
  BY <1>1, <1>8, Ends DEF EndSession, WriteAndCommit, Answer, Goto, LocalsOK, OthersSilent, OffBatch
<1> QED BY <1>0, <1>2, <1>3, <1>4, <1>5, <1>6, <1>7, <1>8 DEF RunSteps

-----------------------------------------------------------------------------
(* The request that moves, along its batch.                                *)

\* The batch of a request is a sequence of client events.
LEMMA BatchOfIsSeq ==
  ASSUME IInv, NEW q \in Request, pc[q] \in {"filter", "items", "snapshot", "requery"}
  PROVE  BatchOf(q) \in Seq(ClientEvent)
<1>1. PICK batch \in Batch : asked[q] = SendBatch(batch)
  BY OfRequest DEF HandlerOK
<1> QED BY <1>1, BatchAssumption DEF BatchOf, SendBatch

\* Known and repeated ids are duplicates, the others are left to be stored.
LEMMA FilterKeeps ==
  ASSUME BatchInv, NEW q \in Request, Filter(q)
  PROVE  OthersSilent(q) /\ BatchOK(q)'
<1> DEFINE batch == BatchOf(q)
           dups == Repeats(batch, Ids(db))
           fresh == DOMAIN batch \ dups
           said == {batch[i] : i \in dups}
           left == {batch[i] : i \in fresh}
           out == [reply |-> IF fresh = {} THEN "ok" ELSE "none", accepted |-> {},
                   duplicates |-> said]
<1>1. /\ pc[q] = "filter"
      /\ todo' = [todo EXCEPT ![q] = fresh]
      /\ answer' = [answer EXCEPT ![q] = out]
      /\ pc' = [pc EXCEPT ![q] = IF fresh = {} THEN "done" ELSE "items"]
      /\ UNCHANGED <<database, asked, cached, seen>>
  BY DEF Filter, Goto
<1>2. BatchOK(q) /\ LocalsOK /\ IInv /\ lock # q
  BY <1>1, OfMover DEF AtItems
<1>3. batch \in Seq(ClientEvent)
  BY <1>1, <1>2, BatchOfIsSeq
<1>4. BatchIds(q) = said \cup left
  BY DEF BatchIds, Repeats
<1>5. said \subseteq Ids(db) \cup left
  BY <1>3, FirstIsFresh DEF Repeats
<1>6. said \subseteq Ids(db) \cup Repeated(batch)
  BY DEF Repeated, Repeats
<1>7. BatchOf(q)' = batch /\ BatchIds(q)' = BatchIds(q) /\ Ids(db)' = Ids(db) /\ lock' # q
  BY <1>1, <1>2 DEF BatchOf, BatchIds, database
<1>8. todo'[q] = fresh /\ answer'[q] = out
  BY <1>1, <1>2 DEF LocalsOK
<1>9. Left(q)' = left
  BY <1>7, <1>8 DEF Left, Item
<1>10. fresh = {} => left = {}
  OBVIOUS
<1>11. out.accepted = {} /\ out.duplicates = said
       /\ (fresh = {} => out.reply = "ok") /\ (fresh # {} => out.reply = "none")
  OBVIOUS
<1> HIDE DEF out, said, left, fresh, dups, batch
<1>12. Said(q)' = said
  BY <1>8, <1>11 DEF Said
<1>13. CASE fresh = {}
  <2>1. Told(q)'
    BY <1>4, <1>5, <1>7, <1>8, <1>10, <1>11, <1>12, <1>13 DEF Told
  <2> QED BY <1>1, <1>2, <1>7, <1>13, <2>1 DEF BatchOK, OnlyBatches, AtItems, OffBatch, LocalsOK,
           OthersSilent
<1>14. CASE fresh # {}
  <2>1. Accounted(q)'
    BY <1>4, <1>5, <1>6, <1>7, <1>8, <1>9, <1>11, <1>12 DEF Accounted
  <2> QED BY <1>1, <1>2, <1>7, <1>8, <1>11, <1>14, <2>1
          DEF BatchOK, OnlyBatches, AtItems, OffBatch, LocalsOK, OthersSilent
<1> QED BY <1>13, <1>14

\* Reading a snapshot changes nothing that is accounted for.
LEMMA ReadSnapshotKeeps ==
  ASSUME BatchInv, NEW q \in Request, NEW i \in todo[q], ReadSnapshot(q, i)
  PROVE  OthersSilent(q) /\ BatchOK(q)'
<1>1. /\ pc[q] = "items" /\ pc' = [pc EXCEPT ![q] = "snapshot"]
      /\ UNCHANGED <<database, asked, todo, cached, answer>>
  BY DEF ReadSnapshot, Goto
<1>2. BatchOK(q) /\ LocalsOK
  BY OfMover
<1>3. Accounted(q) /\ OnlyBatches(q)
  BY <1>1, <1>2 DEF BatchOK, AtItems
<1>4. Accounted(q)'
  BY <1>1, <1>3 DEF Accounted, Said, Left, BatchIds, BatchOf, Item, database, Ids
<1>5. OnlyBatches(q)'
  BY <1>1, <1>2, <1>3 DEF OnlyBatches, AtItems, database, LocalsOK, Client
<1> QED BY <1>1, <1>2, <1>4, <1>5 DEF BatchOK, AtItems, OffBatch, LocalsOK, OthersSilent

\* The rows of a batch roll back, and only what was known before is a duplicate.
LEMMA IngestCollisionKeeps ==
  ASSUME BatchInv, NEW q \in Request, NEW i \in todo[q], IngestCollision(q, i)
  PROVE  OthersSilent(q) /\ BatchOK(q)'
<1>1. BatchOK(q) /\ LocalsOK /\ q # Free
  BY OfMover
<1>2. AtItems(q)
  BY DEF IngestCollision, Inserting, AtItems
<1>3. /\ pc' = [pc EXCEPT ![q] = "requery"] /\ lock' # q
      /\ UNCHANGED <<db, asked, cached, seen, answer>>
  BY <1>1 DEF IngestCollision, Rollback, Goto
<1>4. answer[q].duplicates \subseteq Ids(db) \cup Repeated(BatchOf(q))
  BY <1>1, <1>2 DEF BatchOK, Accounted
<1>5. BatchOf(q)' = BatchOf(q) /\ Ids(db)' = Ids(db)
  BY <1>3 DEF BatchOf
<1> QED BY <1>1, <1>2, <1>3, <1>4, <1>5 DEF BatchOK, AtItems, OnlyBatches, OffBatch, LocalsOK,
        OthersSilent

\* The answer after the rollback.
LEMMA RequeryKeeps ==
  ASSUME BatchInv, NEW q \in Request, Requery(q)
  PROVE  OthersSilent(q) /\ BatchOK(q)'
<1> DEFINE dups == answer[q].duplicates \cup (BatchIds(q) \cap Ids(db))
<1>1. /\ answer' = [answer EXCEPT ![q] = [reply |-> "backstop", accepted |-> {},
                                          duplicates |-> dups]]
      /\ pc[q] = "requery" /\ pc' = [pc EXCEPT ![q] = "done"]
      /\ UNCHANGED <<database, asked, todo, cached, seen>>
  BY DEF Requery, Goto
<1>2. BatchOK(q) /\ LocalsOK /\ lock # q
  BY <1>1, OfMover DEF AtItems
<1>3. dups \subseteq Ids(db) \cup Repeated(BatchOf(q))
  BY <1>1, <1>2 DEF BatchOK
<1>4. BatchOf(q)' = BatchOf(q) /\ Ids(db)' = Ids(db) /\ lock' # q
  BY <1>1, <1>2 DEF BatchOf, database
<1> HIDE DEF dups
<1>5. answer'[q] = [reply |-> "backstop", accepted |-> {}, duplicates |-> dups]
  BY <1>1, <1>2 DEF LocalsOK
<1>6. Said(q)' = dups /\ answer'[q].reply = "backstop"
  BY <1>5 DEF Said
<1>7. Told(q)'
  BY <1>3, <1>4, <1>6 DEF Told
<1> QED BY <1>1, <1>2, <1>4, <1>7 DEF BatchOK, AtItems, OnlyBatches, OffBatch, LocalsOK, OthersSilent

\* A row of the batch is inserted into the transaction: its id moves from what
\* is left to what is accepted.
LEMMA InsertKeeps ==
  ASSUME BatchInv, NEW q \in Request, NEW i \in todo[q], AtItems(q), Stored(q, i),
         NEW image, Write(q, image), GoodStep(q), ~Collides(q, i),
         image.finished = View(q).finished,
         Ids(image) = Ids(View(q)) \cup {Item(q, i)},
         \A e \in image.events \ View(q).events : Client(e)
  PROVE  OthersSilent(q) /\ BatchOK(q)'
<1> DEFINE id == Item(q, i)
<1>1. BatchOK(q) /\ LocalsOK /\ DatabaseInv /\ Accounted(q) /\ OnlyBatches(q) /\ IInv
  BY OfMover DEF BatchOK
<1>2. /\ todo' = [todo EXCEPT ![q] = @ \ {i}]
      /\ answer' = [answer EXCEPT ![q].accepted = @ \cup {id}]
      /\ pc' = [pc EXCEPT ![q] = "items"]
      /\ UNCHANGED <<asked, cached, seen>>
  BY DEF Stored, Goto
<1>3. lock' = q /\ work' = image /\ db' = db
  BY DEF Write
<1>4. /\ answer'[q].accepted = answer[q].accepted \cup {id}
      /\ answer'[q].duplicates = answer[q].duplicates
      /\ answer'[q].reply = answer[q].reply
      /\ todo'[q] = todo[q] \ {i}
      /\ OthersSilent(q)
  BY <1>1, <1>2 DEF LocalsOK, OthersSilent
<1>5. BatchOf(q)' = BatchOf(q) /\ BatchIds(q)' = BatchIds(q) /\ Ids(db)' = Ids(db)
      /\ Ids(work)' = Ids(image)
  BY <1>2, <1>3 DEF BatchOf, BatchIds
<1>6. id \notin Ids(View(q))
  BY DEF Collides
<1>7. Left(q) = Left(q)' \cup {id}
  <2>1. \A j : Item(q, j)' = Item(q, j)
    BY <1>5 DEF Item
  <2> QED BY <1>4, <2>1 DEF Left
<1>8. Ids(db) \subseteq Ids(View(q))
  BY <1>1, OfRequest, IdsGrow
<1> HIDE DEF id
<1>9. answer'[q].accepted = Ids(work)' \ Ids(db)'
  <2>1. CASE lock = q
    <3>1. View(q) = work
      BY <2>1 DEF View
    <3> QED BY <1>1, <1>4, <1>5, <1>6, <1>8, <2>1, <3>1 DEF Accounted, id
  <2>2. CASE lock # q
    <3>1. View(q) = db
      BY <2>2 DEF View
    <3> QED BY <1>1, <1>4, <1>5, <1>6, <2>2, <3>1 DEF Accounted, id
  <2> QED BY <2>1, <2>2
<1>10. Accounted(q)'
  <2>1. Said(q)' = Said(q) \cup {id}
    BY <1>4 DEF Said
  <2>2. answer'[q].accepted = IF lock' = q THEN Ids(work)' \ Ids(db)' ELSE {}
    BY <1>3, <1>9
  <2>3. BatchIds(q)' = Said(q)' \cup Left(q)'
    BY <1>1, <1>5, <1>7, <2>1 DEF Accounted
  <2>4. /\ answer'[q].duplicates \subseteq Ids(db)' \cup Repeated(BatchOf(q)')
        /\ answer'[q].duplicates \subseteq Ids(db)' \cup answer'[q].accepted \cup Left(q)'
    BY <1>1, <1>4, <1>5, <1>7 DEF Accounted
  <2> QED BY <2>2, <2>3, <2>4 DEF Accounted
<1>11. OnlyBatches(q)'
  <2>1. CASE lock = q
    BY <1>1, <1>2, <1>3, <2>1 DEF OnlyBatches, AtItems, View, LocalsOK, Client
  <2>2. CASE lock # q
    BY <1>1, <1>2, <1>3, <2>2 DEF OnlyBatches, AtItems, View, LocalsOK, Client
  <2> QED BY <2>1, <2>2
<1>12. pc'[q] = "items" /\ pc[q] # "done"
  BY <1>1, <1>2 DEF LocalsOK, AtItems
<1> QED BY <1>1, <1>4, <1>10, <1>11, <1>12 DEF BatchOK, AtItems, OffBatch

\* An event other than a snapshot is inserted.
LEMMA IngestActivityKeeps ==
  ASSUME BatchInv, NEW q \in Request, NEW i \in todo[q], IsNext(q, i), IngestActivity(q, i)
  PROVE  OthersSilent(q) /\ BatchOK(q)'
<1> DEFINE before == View(q)
           image == AddEvent(before, "ACTIVITY", Item(q, i), cached[q])
<1>1. IInv /\ before \in Image /\ AtItems(q) /\ pc[q] = "items" /\ HandlerOK(q)
  BY OfMover, OfRequest DEF IngestActivity, AtItems, ImageOK
<1>2. Item(q, i) \in ClientEvent /\ "ACTIVITY" \in ClientType
  BY <1>1, BatchOfType DEF Item, HandlerOK, ClientType
<1>3. Write(q, image) /\ ~Collides(q, i) /\ Stored(q, i)
  BY DEF IngestActivity
<1>4. GoodStep(q)
  BY <1>1, IngestActivityStep
<1> HIDE DEF before
<1>5. /\ Ids(image) = Ids(before) \cup {Item(q, i)}
      /\ \A e \in image.events \ before.events : Client(e)
      /\ image.finished = before.finished
  BY <1>1, <1>2, NamesAssumption, IdsOfAdded DEF Client
<1> HIDE DEF image
<1> QED BY <1>1, <1>3, <1>4, <1>5, InsertKeeps DEF before

\* A CODE_SNAPSHOT is inserted, with its snapshot if the text is new.
LEMMA IngestSnapshotKeeps ==
  ASSUME BatchInv, NEW q \in Request, NEW i \in todo[q], IsNext(q, i), IngestSnapshot(q, i)
  PROVE  OthersSilent(q) /\ BatchOK(q)'
<1> DEFINE before == View(q)
           code == CodeOf[Item(q, i)]
           held == WithSnapshot(before, code, seen[q])
           version == VersionOf(before, code, seen[q])
           image == AddEvent(held, "CODE_SNAPSHOT", Item(q, i), version)
<1>1. IInv /\ ImageOK(before) /\ AtItems(q) /\ pc[q] = "snapshot" /\ HandlerOK(q)
  BY OfMover, OfRequest DEF IngestSnapshot, AtItems
<1>2. Item(q, i) \in ClientEvent /\ "CODE_SNAPSHOT" \in ClientType /\ code \in Code
      /\ seen[q] \in before.snaps
  BY <1>1, BatchOfType, CodeAssumption DEF Item, HandlerOK, ClientType
<1>3. Write(q, image) /\ ~Collides(q, i) /\ Stored(q, i)
  BY DEF IngestSnapshot
<1>4. GoodStep(q)
  BY <1>1, IngestSnapshotStep
<1> HIDE DEF before, code
<1>5. held \in Image /\ held.events = before.events /\ held.finished = before.finished
  <2>1. seen[q].version \in Nat
    BY <1>1, <1>2, StoredSnapshot DEF ImageOK
  <2>2. CASE seen[q].code = code
    BY <1>1, <2>2 DEF WithSnapshot, ImageOK
  <2>3. CASE seen[q].code # code
    <3>1. held = AddSnapshot(before, code, seen[q].version)
      BY <2>3 DEF WithSnapshot
    <3>2. held \in Image
      BY <1>1, <1>2, <2>1, <3>1, AddSnapshotType DEF ImageOK
    <3> QED BY <3>1, <3>2 DEF AddSnapshot
  <2> QED BY <2>2, <2>3
<1> HIDE DEF held, version
<1>6. /\ Ids(image) = Ids(held) \cup {Item(q, i)}
      /\ \A e \in image.events \ held.events : Client(e)
      /\ image.finished = held.finished
  BY <1>2, <1>5, NamesAssumption, IdsOfAdded DEF Client
<1>7. Ids(held) = Ids(before)
  BY <1>5 DEF Ids
<1> HIDE DEF image
<1> QED BY <1>1, <1>3, <1>4, <1>5, <1>6, <1>7, InsertKeeps DEF before

\* The batch is committed and answered: nothing is left to be stored.
LEMMA CommitBatchKeeps ==
  ASSUME BatchInv, NEW q \in Request, CommitBatch(q)
  PROVE  /\ OthersSilent(q) /\ BatchOK(q)'
         /\ answer'[q].reply = "ok"
         /\ answer'[q].accepted = Ids(db') \ Ids(db)
         /\ BatchIds(q)' = Said(q)'
<1>1. BatchOK(q) /\ LocalsOK /\ q # Free /\ AtItems(q) /\ DatabaseInv
  BY OfMover DEF CommitBatch, AtItems
<1>2. Accounted(q) /\ todo[q] = {} /\ lock = q
  BY <1>1 DEF BatchOK, CommitBatch
<1>3. /\ lock' = Free /\ db' = work
      /\ pc' = [pc EXCEPT ![q] = "done"]
      /\ answer' = [answer EXCEPT ![q].reply = "ok"]
      /\ UNCHANGED <<work, asked, todo, cached, seen>>
  BY DEF CommitBatch, Answer, Goto
<1>4. /\ answer'[q].accepted = answer[q].accepted
      /\ answer'[q].duplicates = answer[q].duplicates
      /\ answer'[q].reply = "ok"
      /\ pc'[q] = "done"
      /\ OthersSilent(q)
  BY <1>1, <1>3 DEF LocalsOK, OthersSilent
<1>5. Left(q) = {}
  BY <1>2 DEF Left
<1>6. /\ BatchIds(q)' = BatchIds(q) /\ Said(q)' = Said(q) /\ Ids(db)' = Ids(work) /\ lock' # q
  BY <1>1, <1>3, <1>4 DEF BatchIds, BatchOf, Said
<1>7. Ids(db) \subseteq Ids(work)
  BY <1>1, IdsGrow DEF DatabaseInv
<1>8. Said(q) = BatchIds(q) /\ Said(q) \subseteq Ids(work)
  BY <1>2, <1>5, <1>7 DEF Accounted, Said
<1>9. Told(q)'
  BY <1>4, <1>6, <1>8 DEF Told
<1>10. Ids(db)' = Ids(db')
  OBVIOUS
<1> QED BY <1>2, <1>4, <1>6, <1>8, <1>9, <1>10 DEF BatchOK, AtItems, OnlyBatches, OffBatch, Accounted

-----------------------------------------------------------------------------
(* Every step.                                                             *)

\* A step of a handler keeps what is accounted for.
LEMMA MoverKeeps ==
  ASSUME BatchInv, NEW q \in Request, StepOf(q)
  PROVE  OthersSilent(q) /\ BatchOK(q)'
<1>1. CASE Arrive(q)
  BY <1>1, ArriveKeeps
<1>2. CASE Ingest(q)
  BY <1>2, FilterKeeps, RequeryKeeps, CommitBatchKeeps, IngestActivityKeeps, ReadSnapshotKeeps,
     IngestSnapshotKeeps, IngestCollisionKeeps, FailKeeps DEF Ingest, RefuseSnapshot
<1>3. CASE LockTimeout(q)
  BY <1>3, FailKeeps DEF LockTimeout
<1> QED BY <1>1, <1>2, <1>3, RunKeeps DEF StepOf, Handle

\* A crash leaves requests without an answer, and no transaction.
LEMMA CrashKeeps ==
  ASSUME BatchInv, Crash, NEW r \in Request
  PROVE  BatchOK(r)'
<1>1. BatchOK(r) /\ LocalsOK /\ r # Free
  BY OfMover
<1>2. lock' # r /\ db' = db /\ UNCHANGED <<asked, todo, cached, seen>>
  BY <1>1 DEF Crash
<1>3. CASE Running(r)
  <2>1. pc'[r] = "done" /\ answer'[r].reply = "lost"
    BY <1>1, <1>3 DEF Crash, LocalsOK
  <2> QED BY <1>2, <2>1, Ends
<1>4. CASE ~Running(r)
  <2>1. pc'[r] = pc[r] /\ answer'[r] = answer[r] /\ pc[r] \in {"idle", "done"}
    BY <1>1, <1>4 DEF Crash, Running, LocalsOK
  <2>2. BatchOf(r)' = BatchOf(r) /\ Ids(db)' = Ids(db) /\ Said(r)' = Said(r)
        /\ BatchIds(r)' = BatchIds(r)
    BY <1>2, <2>1 DEF BatchOf, Said, BatchIds
  <2> QED BY <1>1, <1>2, <2>1, <2>2 DEF BatchOK, OnlyBatches, AtItems, OffBatch, Told
<1> QED BY <1>3, <1>4

\* Nothing is stored or in work at the start.
LEMMA InitBatch == ASSUME Init PROVE BatchInv
<1>1. IInv
  BY InitInv
<1>2. ASSUME NEW r \in Request PROVE BatchOK(r)
  <2>1. r # Free /\ lock = Free /\ pc[r] = "idle" /\ asked[r] = UseLatest /\ answer[r] = Silent
    BY MaxRequestsAssumption DEF Init
  <2> QED BY <2>1 DEF BatchOK, OnlyBatches, AtItems, OffBatch, UseLatest, Silent
<1> QED BY <1>1, <1>2 DEF BatchInv

\* The invariant is inductive.
LEMMA NextBatch == ASSUME BatchInv, [Next]_vars PROVE BatchInv'
<1>0. IInv
  BY DEF BatchInv
<1>1. IInv'
  BY <1>0, NextInv
<1>2. ASSUME NEW q \in Request, StepOf(q), NEW r \in Request PROVE BatchOK(r)'
  <2>1. GoodStep(q)
    BY <1>0, <1>2, StepIsGood
  <2>2. OthersSilent(q) /\ BatchOK(q)'
    BY <1>2, MoverKeeps
  <2> QED BY <2>1, <2>2, OthersKeep
<1>3. ASSUME UNCHANGED vars, NEW r \in Request PROVE BatchOK(r)'
  <2>1. BatchOK(r)
    BY DEF BatchInv
  <2> QED BY <1>3, <2>1 DEF BatchOK, OnlyBatches, AtItems, Accounted, Told, Said, Left, Item,
           BatchIds, BatchOf, Ids, vars, Client
<1> QED BY <1>1, <1>2, <1>3, CrashKeeps DEF BatchInv, Next, StepOf

\* The invariant holds in every reachable state.
THEOREM Accounting == Spec => []BatchInv
<1>1. Init => BatchInv
  BY InitBatch
<1>2. BatchInv /\ [Next]_vars => BatchInv'
  BY NextBatch
<1> QED BY <1>1, <1>2, PTL DEF Spec

\* What a 201 reports as stored or known is stored, after a collision too
\* (ingest_events).
THEOREM TrueAnswers == Spec => []AnswersAreTrue
<1>1. BatchInv => AnswersAreTrue
  <2> SUFFICES ASSUME BatchInv, NEW r \in Request PROVE Told(r)
    BY DEF AnswersAreTrue, Told, Said, Repeated
  <2>1. BatchOK(r)
    BY DEF BatchInv
  <2> QED BY <2>1 DEF BatchOK, Told
<1> QED BY <1>1, Accounting, PTL

-----------------------------------------------------------------------------
(* What becomes visible in one step.                                       *)

Row(seq, type, id, version) == [seq |-> seq, type |-> type, id |-> id, version |-> version]

\* A row the server writes itself is committed, SESSION_END with the status
ServerRowShows(type, version) ==
    /\ db'.events = db.events \cup {Row(db.lastSeq + 1, type, NoId, version)}
    /\ db'.lastSeq = db.lastSeq + 1
    /\ db'.finished = (db.finished \/ type = "SESSION_END")

\* Readers of the events see no difference
NothingShows ==
    /\ db'.events = db.events
    /\ db'.lastSeq = db.lastSeq
    /\ db'.finished = db.finished

Later == ServerType \ {"SESSION_START"}

\* Readers see a whole batch, one row of the server, or nothing.
LEMMA WhatShows ==
  ASSUME BatchInv, NEW q \in Request, StepOf(q)
  PROVE  \/ CommitBatch(q)
         \/ NothingShows
         \/ \E type \in Later, version \in Nat : ServerRowShows(type, version)
<1>0. LocalsOK /\ db \in Image
  BY OfMover DEF DatabaseInv, ImageOK
<1>1. ASSUME NEW type \in Later, NEW version \in Nat, type # "SESSION_END",
             WriteAndCommit(AddEvent(db, type, NoId, version))
      PROVE  ServerRowShows(type, version)
  BY <1>0, <1>1 DEF WriteAndCommit, AddEvent, ServerRowShows, Row, Image
<1>2. CASE Arrive(q)
  BY <1>1, <1>2 DEF Arrive, PostEvents, Execute, FinishSession, FinishAgain,
     RecordIntervention, NothingShows, database, ServerType, Later
<1>3. CASE Fail(q)
  BY <1>3 DEF Fail, Rollback, NothingShows
<1>4. CASE Ingest(q)
  BY <1>3, <1>4 DEF Ingest, Filter, Requery, IngestActivity, IngestSnapshot, IngestCollision,
     ReadSnapshot, RefuseSnapshot, Rollback, Write, NothingShows, database
<1>5. CASE RecordResult(q)
  <2>1. seen[q].version \in Nat
    BY <1>0 DEF LocalsOK, SnapshotRow
  <2> QED BY <1>1, <1>5, <2>1 DEF RecordResult, ServerType, Later
<1>6. CASE SaveCode(q)
  BY <1>6 DEF SaveCode, WriteAndCommit, AddSnapshot, NothingShows
<1>7. CASE RunSteps(q)
  BY <1>3, <1>5, <1>6, <1>7 DEF RunSteps, ReadLatest, PickVersion, RefuseVersion, KeepCode,
     Judge, JudgeUnavailable, RefuseResult, NothingShows, database
<1>8. CASE EndSession(q)
  <2> DEFINE image == AddEvent(db, "SESSION_END", NoId, cached[q])
  <2>1. db' = [image EXCEPT !.finished = TRUE]
    BY <1>8 DEF EndSession, WriteAndCommit, Finished
  <2>2. /\ image = [events |-> db.events \cup {Row(db.lastSeq + 1, "SESSION_END", NoId, cached[q])},
                    snaps |-> db.snaps, lastSeq |-> db.lastSeq + 1,
                    lastVersion |-> db.lastVersion, finished |-> db.finished]
    BY DEF AddEvent, Row
  <2> HIDE DEF image
  <2>3. ServerRowShows("SESSION_END", cached[q])
    BY <2>1, <2>2 DEF ServerRowShows
  <2>4. cached[q] \in Nat /\ "SESSION_END" \in Later
    BY <1>0 DEF LocalsOK, ServerType, Later
  <2> QED BY <2>3, <2>4
<1>9. CASE LockTimeout(q)
  BY <1>3, <1>9 DEF LockTimeout
<1> QED BY <1>2, <1>4, <1>7, <1>8, <1>9 DEF StepOf, Handle

\* A batch becomes visible as a whole or not at all (ingest_events, get_db).
THEOREM Atomic == Spec => BatchesAreAtomic
<1> DEFINE Whole ==
       LET new == Ids(db') \ Ids(db)
       IN  new # {} => \E r \in Request :
                          /\ answer'[r].reply = "ok"
                          /\ new = answer'[r].accepted
                          /\ BatchIds(r) \ new \subseteq answer'[r].duplicates
<1>1. ASSUME BatchInv, NEW q \in Request, StepOf(q) PROVE Whole
  <2>1. CASE CommitBatch(q)
    <3>1. BatchIds(q)' = BatchIds(q)
      BY <2>1 DEF CommitBatch, BatchIds, BatchOf
    <3> QED BY <1>1, <2>1, <3>1, CommitBatchKeeps DEF Said
  <2>2. CASE NothingShows
    BY <2>2 DEF NothingShows, Ids
  <2>3. CASE \E type \in Later, version \in Nat : ServerRowShows(type, version)
    <3>1. PICK type \in Later, version \in Nat : ServerRowShows(type, version)
      BY <2>3
    <3> DEFINE row == Row(db.lastSeq + 1, type, NoId, version)
    <3>2. row.id = NoId /\ db'.events = db.events \cup {row}
      BY <3>1 DEF ServerRowShows, Row
    <3> HIDE DEF row
    <3> QED BY <3>2 DEF Ids
  <2> QED BY <1>1, <2>1, <2>2, <2>3, WhatShows
<1>2. BatchInv /\ [Next]_vars => [Whole]_db
  BY <1>1 DEF Next, StepOf, Crash, vars
<1> QED BY <1>2, Accounting, PTL DEF Spec, BatchesAreAtomic

-----------------------------------------------------------------------------
(* The refinement of EventLog.                                             *)

Entry(e) == [type |-> e.type, id |-> e.id]

\* Log, of any image
Entries(image) ==
    [i \in 1..image.lastSeq |->
        LET row == CHOOSE e \in image.events : e.seq = i
        IN  [type |-> row.type, id |-> row.id]]

\* The log is a sequence with one entry for every row, at its seq.
LEMMA EntriesOfImage ==
  ASSUME NEW image, ImageOK(image)
  PROVE  /\ Len(Entries(image)) = image.lastSeq
         /\ DOMAIN Entries(image) = 1..image.lastSeq
         /\ \A e \in image.events : e.seq \in 1..image.lastSeq /\ Entries(image)[e.seq] = Entry(e)
         /\ \A i \in 1..image.lastSeq : \E e \in image.events : e.seq = i /\ Entries(image)[i] = Entry(e)
<1> DEFINE n == image.lastSeq
           log == Entries(image)
           S == [type : ServerType \cup ClientType, id : ClientEvent \cup {NoId}]
<1>1. n \in Nat /\ image.events \subseteq EventRow
  BY DEF ImageOK, Image
<1>2. {e.seq : e \in image.events} = 1..n /\ \A e, f \in image.events : e.seq = f.seq => e = f
  BY DEF ImageOK, Sound, GaplessSeqs
<1>3. DOMAIN log = 1..n
  BY DEF Entries
<1>4. ASSUME NEW e \in image.events
      PROVE  e.seq \in 1..n /\ log[e.seq] = Entry(e)
  <2>1. e.seq \in 1..n
    BY <1>2
  <2>2. (CHOOSE f \in image.events : f.seq = e.seq) = e
    BY <1>2
  <2> QED BY <2>1, <2>2 DEF Entries, Entry
<1>5. ASSUME NEW i \in 1..n
      PROVE  \E e \in image.events : e.seq = i /\ log[i] = Entry(e)
  <2>1. PICK e \in image.events : e.seq = i
    BY <1>2
  <2> QED BY <1>4, <2>1
<1>6. log \in [1..n -> S]
  <2>1. ASSUME NEW i \in 1..n PROVE log[i] \in S
    <3>1. PICK e \in image.events : e.seq = i /\ log[i] = Entry(e)
      BY <1>5
    <3>2. e.type \in ServerType \cup ClientType /\ e.id \in ClientEvent \cup {NoId}
      BY <1>1 DEF EventRow
    <3> HIDE DEF log
    <3> QED BY <3>1, <3>2 DEF Entry
  <2>2. log = [i \in 1..n |-> log[i]]
    BY DEF Entries
  <2> HIDE DEF log, n, S
  <2> QED BY <2>1, <2>2
<1> HIDE DEF log, S, n
<1>7. log \in Seq(S)
  BY <1>1, <1>6
<1>8. Len(log) = n
  BY <1>1, <1>3, <1>7
<1> QED BY <1>3, <1>4, <1>5, <1>8 DEF log, n

\* The ids in the log are those of the stored rows.
LEMMA LoggedIdsOfImage ==
  ASSUME NEW image, ImageOK(image)
  PROVE  ReaderLog!LoggedIds(Entries(image)) = Ids(image)
<1>1. ReaderLog!LoggedIds(Entries(image)) =
         {Entries(image)[i].id : i \in 1..image.lastSeq} \ {NoId}
  BY EntriesOfImage DEF ReaderLog!LoggedIds
<1>2. \A e : Entry(e).id = e.id
  BY DEF Entry
<1> QED BY <1>1, <1>2, EntriesOfImage DEF Ids

\* More rows make a longer log that begins with the old one.
LEMMA EntriesExtend ==
  ASSUME NEW before, NEW image, ImageOK(before), ImageOK(image), Grows(before, image)
  PROVE  \A i \in 1..Len(Entries(before)) : Entries(image)[i] = Entries(before)[i]
<1> SUFFICES ASSUME NEW i \in 1..before.lastSeq
             PROVE  Entries(image)[i] = Entries(before)[i]
  BY EntriesOfImage
<1>1. PICK e \in before.events : e.seq = i /\ Entries(before)[i] = Entry(e)
  BY EntriesOfImage
<1>2. e \in image.events
  BY DEF Grows
<1> QED BY <1>1, <1>2, EntriesOfImage

\* A row of the server is a step AppendServerEvent of the log.
LEMMA ServerRowRefines ==
  ASSUME BatchInv, BatchInv', Grows(db, db'), NEW type \in Later, NEW version \in Nat,
         ServerRowShows(type, version)
  PROVE  ReaderLog!AppendServerEvent
<1> DEFINE row == Row(db.lastSeq + 1, type, NoId, version)
<1>1. ImageOK(db) /\ ImageOK(db') /\ db.lastSeq \in Nat
  BY DEF BatchInv, IInv, DatabaseInv, ImageOK, Image
<1>2. /\ Log = Entries(db) /\ Log' = Entries(db')
      /\ Len(Entries(db)) = db.lastSeq
      /\ Len(Entries(db')) = db'.lastSeq
      /\ db'.lastSeq = db.lastSeq + 1
  BY <1>1, EntriesOfImage DEF Log, Entries, ServerRowShows
<1>3. \A i \in 1..Len(Entries(db)) : Entries(db')[i] = Entries(db)[i]
  BY <1>1, EntriesExtend
<1>4. row \in db'.events /\ row.seq = db.lastSeq + 1 /\ Entry(row) = [type |-> type, id |-> NoId]
  BY DEF ServerRowShows, Row, Entry
<1> HIDE DEF row
<1>5. Entries(db')[db.lastSeq + 1] = [type |-> type, id |-> NoId]
  BY <1>1, <1>4, EntriesOfImage
<1>6. db'.finished = (db.finished \/ type = "SESSION_END")
  BY DEF ServerRowShows
<1>7. ReaderLog!Extends
  BY <1>1, <1>2, <1>3 DEF ReaderLog!Extends
<1>8. Log'[Len(Log')] = [type |-> type, id |-> NoId]
  BY <1>2, <1>5
<1>9. [type |-> type, id |-> NoId] \in [type : ServerType \ {"SESSION_START"}, id : {NoId}]
  BY DEF Later
<1>10. Len(Log') = Len(Log) + 1
  BY <1>2
<1>11. db'.finished = (db.finished \/ Log'[Len(Log')].type = "SESSION_END")
  BY <1>6, <1>8
<1> QED BY <1>7, <1>8, <1>9, <1>10, <1>11 DEF ReaderLog!AppendServerEvent

\* A commit is a step AppendBatch of the log, or readers see no difference.
LEMMA CommitRefines ==
  ASSUME BatchInv, BatchInv', Grows(db, db'), NEW q \in Request, CommitBatch(q)
  PROVE  ReaderLog!AppendBatch \/ NothingShows
<1>0. /\ IInv /\ OnlyBatches(q) /\ db' = work /\ lock = q
  BY OfMover DEF CommitBatch, BatchOK
<1>1. /\ ImageOK(db) /\ ImageOK(db')
      /\ db'.finished = db.finished
      /\ \A e \in db'.events \ db.events : Client(e)
  BY <1>0 DEF OnlyBatches, IInv, DatabaseInv
<1>2. db.lastSeq \in Nat /\ db'.lastSeq \in Nat /\ db.lastSeq <= db'.lastSeq
  BY <1>1 DEF ImageOK, Image, Grows
<1>3. /\ Log = Entries(db) /\ Log' = Entries(db')
      /\ Len(Entries(db)) = db.lastSeq
      /\ Len(Entries(db')) = db'.lastSeq
  BY <1>1, EntriesOfImage DEF Log, Entries
<1>4. CASE db'.lastSeq = db.lastSeq
  <2>1. \A e \in db'.events : e.seq \in 1..db'.lastSeq
    BY <1>1, EntriesOfImage
  <2>2. db'.events = db.events
    BY <1>2, <1>4, <2>1 DEF Grows
  <2> QED BY <1>1, <1>4, <2>2 DEF NothingShows
<1>5. CASE db'.lastSeq # db.lastSeq
  <2>1. ReaderLog!Extends
    BY <1>1, <1>2, <1>3, <1>5, EntriesExtend DEF ReaderLog!Extends
  <2>2. ASSUME NEW i \in (db.lastSeq + 1)..db'.lastSeq
        PROVE  \E e \in db'.events \ db.events : e.seq = i /\ Log'[i] = Entry(e)
    <3>1. i \in 1..db'.lastSeq /\ i \notin 1..db.lastSeq
      BY <1>2
    <3>2. PICK e \in db'.events : e.seq = i /\ Entries(db')[i] = Entry(e)
      BY <1>1, <3>1, EntriesOfImage
    <3>3. e \notin db.events
      BY <1>1, <3>1, <3>2, EntriesOfImage
    <3> QED BY <1>3, <3>2, <3>3
  <2>3. ASSUME NEW i \in (db.lastSeq + 1)..db'.lastSeq
        PROVE  /\ Log'[i] \in [type : ClientType, id : ClientEvent]
               /\ Log'[i].id \notin Ids(db)
               /\ \A j \in (db.lastSeq + 1)..db'.lastSeq : Log'[i].id = Log'[j].id => i = j
    <3>1. PICK e \in db'.events \ db.events : e.seq = i /\ Log'[i] = Entry(e)
      BY <2>2
    <3>2. Client(e) /\ e.id # NoId
      BY <1>1, <3>1, NamesAssumption DEF Client
    <3>3. Entry(e) \in [type : ClientType, id : ClientEvent] /\ Log'[i].id = e.id
      BY <3>1, <3>2 DEF Entry, Client
    <3>4. \A f \in db'.events : f.id = e.id => f = e
      BY <1>1, <3>1, <3>2 DEF ImageOK, Sound, OnceEach
    <3>5. e.id \notin Ids(db)
      BY <3>1, <3>4 DEF Ids, Grows
    <3>6. ASSUME NEW j \in (db.lastSeq + 1)..db'.lastSeq, Log'[i].id = Log'[j].id
          PROVE  i = j
      <4>1. PICK f \in db'.events : f.seq = j /\ Log'[j] = Entry(f)
        BY <2>2
      <4>2. f.id = e.id
        BY <3>3, <3>6, <4>1 DEF Entry
      <4> QED BY <3>1, <3>4, <4>1, <4>2
    <3> QED BY <3>1, <3>3, <3>5, <3>6
  <2>4. ReaderLog!LoggedIds(Log) = Ids(db)
    BY <1>1, <1>3, LoggedIdsOfImage
  <2>5. ReaderLog!Added = (db.lastSeq + 1)..db'.lastSeq
    BY <1>3 DEF ReaderLog!Added
  <2> QED BY <1>1, <2>1, <2>3, <2>4, <2>5 DEF ReaderLog!AppendBatch
<1> QED BY <1>4, <1>5

\* When nothing shows, the log is the same.
LEMMA NothingShowsStutters ==
  ASSUME NothingShows \/ db' = db
  PROVE  UNCHANGED <<Log, db.finished>>
  BY DEF NothingShows, Log

\* A new session shows SESSION_START and nothing else.
LEMMA InitRefines == ASSUME Init PROVE ReaderLog!Init
<1> DEFINE start == Row(1, "SESSION_START", NoId, 0)
<1>1. /\ db.events = {start} /\ db.lastSeq = 1 /\ db.finished = FALSE /\ ImageOK(db)
  <2>1. {} \cup {start} = {start} /\ 0 + 1 = 1
    OBVIOUS
  <2> QED BY <2>1, NewSessionSound DEF Init, NewSession, AddEvent, AddSnapshot, ImageOK, Row
<1>2. start.seq = 1 /\ Entry(start) = [type |-> "SESSION_START", id |-> NoId]
  BY DEF Row, Entry
<1> HIDE DEF start
<1>3. DOMAIN Entries(db) = 1..1 /\ Entries(db)[1] = [type |-> "SESSION_START", id |-> NoId]
  <2>1. DOMAIN Entries(db) = 1..db.lastSeq
    BY <1>1, EntriesOfImage
  <2>2. start \in db.events
    BY <1>1
  <2>3. Entries(db)[start.seq] = Entry(start)
    BY <1>1, <2>2, EntriesOfImage
  <2> QED BY <1>1, <1>2, <2>1, <2>3
<1>4. Entries(db) = [i \in 1..1 |-> [type |-> "SESSION_START", id |-> NoId]]
  BY <1>3 DEF Entries
<1>5. <<[type |-> "SESSION_START", id |-> NoId]>> = [i \in 1..1 |-> [type |-> "SESSION_START", id |-> NoId]]
  OBVIOUS
<1>6. Log = Entries(db)
  BY DEF Log, Entries
<1> QED BY <1>1, <1>4, <1>5, <1>6 DEF ReaderLog!Init

\* The store implements the append-only log: every step appends one batch or
\* one row of the server, or shows nothing (store.append_event, events_since).
THEOREM Refinement == Spec => ImplementsLog
<1>1. Init => ReaderLog!Init
  BY InitRefines
<1>2. ASSUME BatchInv, [Next]_vars
      PROVE  [ReaderLog!Next]_<<Log, db.finished>>
  <2>1. BatchInv' /\ Grows(db, db')
    BY <1>2, NextBatch, NextInv DEF BatchInv
  <2>2. ASSUME NEW q \in Request, StepOf(q)
        PROVE  [ReaderLog!Next]_<<Log, db.finished>>
    <3>1. CASE CommitBatch(q)
      BY <1>2, <2>1, <3>1, CommitRefines, NothingShowsStutters DEF ReaderLog!Next
    <3>2. CASE NothingShows
      BY <3>2, NothingShowsStutters
    <3>3. CASE \E type \in Later, version \in Nat : ServerRowShows(type, version)
      BY <1>2, <2>1, <3>3, ServerRowRefines DEF ReaderLog!Next
    <3> QED BY <1>2, <2>2, <3>1, <3>2, <3>3, WhatShows
  <2>3. CASE Crash \/ UNCHANGED vars
    BY <2>3, NothingShowsStutters DEF Crash, vars
  <2> QED BY <1>2, <2>2, <2>3 DEF Next, StepOf
<1> QED BY <1>1, <1>2, Accounting, PTL DEF Spec, ImplementsLog, ReaderLog!Spec
=============================================================================
