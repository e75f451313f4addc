--------------------------- MODULE DeliveryProofs ---------------------------
(***************************************************************************)
(* What the delivery of events keeps, for any problems, limits and bounds. *)
(*                                                                         *)
(* The argument.  Put the batch the sender has before the queue: this Line *)
(* is what the page will send, in its order.  It is ascending at all times *)
(* (splice and unshift leave it as it is, a new event has the highest      *)
(* number), and an event that is stored and awaited is below all of it, so *)
(* a batch that arrives goes to the end of what its session has: Books.    *)
(*                                                                         *)
(* While the student has not changed the problem with a request under way, *)
(* everything on the page is about the one problem it shows, there is at   *)
(* most one task for its session, and somebody awaits it: Together.        *)
(*                                                                         *)
(* The page knows all sessions but the orphans, which stay empty: Claimed  *)
(* is the store without them.  An event leaves the books when dropped or   *)
(* rolled back (Out), and a batch is rolled back only when part of it is   *)
(* adrift already: RollbacksOK.                                            *)
(*                                                                         *)
(* A flush waits for a batch that holds all there was before the click     *)
(* (FlushOK), so the judge is asked when that batch is settled.            *)
(*                                                                         *)
(* The conjuncts are operators of the values they are about, which makes   *)
(* the lemmas on one operation usable in the states in the midst of a      *)
(* step, as flush and judge pass through them.                             *)
(***************************************************************************)
EXTENDS Delivery, FiniteSetTheorems, SequenceTheorems, WellFoundedInduction, TLAPS

\* The events of l are in the order in which they were recorded
Ascending(l) == \A i, j \in DOMAIN l : i < j => l[i] < l[j]

\* What the page holds in the order in which it will be sent: the batch, then the queue
Line(snd, q) == snd.batch \o q

\* execute() waits for its session or for its flush, and will record a run
Waits(r) == r.at \in {"session", "flush"}

\* There is room left for the edit and the run that were begun
BoundOK(past, pend, r) ==
    /\ past \in Seq(Problem)
    /\ pend \in Problem \cup {NoProblem}
    /\ Len(past) + (IF pend # NoProblem THEN 1 ELSE 0) + (IF Waits(r) THEN 1 ELSE 0)
          <= MaxRecorded

SenderType(S) ==
    [at : {"idle", "session", "post", "wait"}, batch : Seq(Nat), to : S, task : Nat,
     retries : 0..MaxRetries, since : Nat]

\* send() waits for a task, or posts to a session that exists, or has nothing at hand
SenderOK(snd, known) ==
    /\ snd \in SenderType(known \cup {NoSession})
    /\ snd.at = "idle" => snd = Idle
    /\ snd.at = "session" <=> snd.task # NoTask
    /\ snd.at \in {"post", "wait"} => snd.to \in known
    /\ Len(snd.batch) <= MaxBatch

RunType ==
    [at : {"idle", "session", "flush", "judge"}, problem : Problem \cup {NoProblem}, task : Nat,
     upto : Nat, whole : BOOLEAN]

\* A flush that waits, waits for a batch that is being posted
RunOK(r, snd) ==
    /\ r \in RunType
    /\ r.at = "session" <=> r.task # NoTask
    /\ Waits(r) => r.problem \in Problem
    /\ r.at = "flush" => snd.at \in {"post", "wait"}

TaskType(known) ==
    [n : Nat \ {0}, problem : Problem, saved : known \cup {NoSession}, at : {"get", "create"}]

\* A task that asks for a session asks for one of its problem
TasksOK(ts, inf, known) ==
    /\ IsFiniteSet(ts)
    /\ ts \subseteq TaskType(known)
    /\ \A t \in ts : t.at = "get" => t.saved \in known /\ t.saved.problem = t.problem
    /\ inf \in {t.n : t \in ts} \cup {NoTask}

Of(known, p) == {s \in known : s.problem = p}

\* Sessions are numbered, so that a new one is new
NumbersOK(known) ==
    /\ known \subseteq Session
    /\ IsFiniteSet(known)
    /\ \A x \in known : x.n <= Cardinality(Of(known, x.problem))

\* Each session that is remembered is remembered for its problem
SessionsOK(known, sv, rs, s) ==
    /\ known \subseteq Session
    /\ IsFiniteSet(known)
    /\ sv \in [Problem -> known \cup {NoSession}]
    /\ \A p \in Problem : sv[p] # NoSession => sv[p].problem = p
    /\ \A x \in rs : x.problem \in Problem /\ x.session \in Of(known, x.problem)
    /\ s \in known \cup {NoSession}

All(st) == UNION {Ids(st[s]) : s \in DOMAIN st}

\* No event is forgotten, and the stored ones are in order and before those of l; one of l
\* that is stored all the same went off unattended
EventsOK(l, past, st, dr, ad) ==
    /\ l \in Seq(DOMAIN past)
    /\ Ascending(l)
    /\ \A s \in DOMAIN st : st[s] \in Seq(DOMAIN past)
    /\ DOMAIN past \subseteq Ids(l) \cup All(st) \cup dr \cup ad
    /\ All(st) \cap Ids(l) \subseteq ad
    /\ \A s \in DOMAIN st : \A m \in Ids(st[s]), n \in Ids(l) : m > n => {m, n} \cap ad # {}
    /\ \A s \in DOMAIN st : \A i, j \in DOMAIN st[s] :
          i < j /\ st[s][i] > st[s][j] => {st[s][i], st[s][j]} \cap ad # {}

\* The events on the page, on the server and in the air
Books(l, past, st, dr, ad, a) ==
    /\ past \in Seq(Problem)
    /\ EventsOK(l, past, st, dr, ad)
    /\ \A x \in a : /\ x.to \in DOMAIN st /\ x = [to |-> x.to, batch |-> x.batch]
                    /\ x.batch \in Seq(DOMAIN past) /\ Ascending(x.batch)
                    /\ Ids(x.batch) \subseteq ad

\* What was there before the click is settled, or in the batch the flush waits for
FlushOK(r, snd, gone) ==
    /\ r.whole /\ r.at = "flush" => 1..r.upto \subseteq gone \cup Ids(snd.batch)
    /\ r.whole /\ r.at = "judge" => 1..r.upto \subseteq gone

\* Every event is about the problem p, or about that of its session
Clean(l, past, st, a, p) ==
    /\ \A n \in Ids(l) : past[n] = p
    /\ \A s \in DOMAIN st : \A n \in Ids(st[s]) : past[n] = s.problem
    /\ \A x \in a : \A n \in Ids(x.batch) : past[n] = x.to.problem

\* What is at work on the page is at work for the problem p
WorkApart(pend, snd, r, s, p) ==
    /\ pend \in {p, NoProblem}
    /\ s # NoSession => s.problem = p
    /\ snd.at \in {"post", "wait"} => snd.to.problem = p
    /\ Waits(r) => r.problem = p

\* There is at most one task, and somebody waits for it
OneTask(ts, inf, snd, r, sv, p) ==
    /\ \A t, u \in ts : t = u
    /\ \A t \in ts : /\ t.n = inf /\ t.problem = p
                     /\ t.n \in {snd.task, r.task}
                     /\ t.at = "create" => sv[p] = NoSession

\* A session that was created is remembered until a request fails
FewSessions(known, sv, b) ==
    \A p \in Problem : Cardinality(Of(known, p)) <= b + (IF sv[p] = NoSession THEN 0 ELSE 1)

\* The sessions on the server whose number somebody was told
Claimed == [s \in DOMAIN store \ orphans |-> store[s]]

\* The events of which neither the page nor the server has anything any more
Out == dropped \cup rolledBack

\* Nobody gets to know a session that is an orphan, so that it stays empty
OrphansOK ==
    /\ NumbersOK(DOMAIN store)
    /\ orphans \subseteq DOMAIN store
    /\ \A s \in orphans : store[s] = <<>>
    /\ unclaimed \in [Problem -> Nat]

\* A batch is rolled back only because of a request that nobody waits for
RollbacksOK == adrift = {} => rolledBack = {}

Gone == All(Claimed) \cup Out \cup adrift

\* While the student stays with a problem, or changes it with nothing under way
Together ==
    /\ Clean(Line(sender, queue), recorded, Claimed, air, problem)
    /\ WorkApart(pending, sender, run, sid, problem)
    /\ OneTask(tasks, inFlight, sender, run, saved, problem)
    /\ FewSessions(DOMAIN Claimed, saved, blips)

IInv ==
    /\ problem \in Problem /\ blips \in Nat
    /\ queue \in Seq(Nat)
    /\ BoundOK(recorded, pending, run)
    /\ SenderOK(sender, DOMAIN Claimed)
    /\ RunOK(run, sender)
    /\ TasksOK(tasks, inFlight, DOMAIN Claimed)
    /\ SessionsOK(DOMAIN Claimed, saved, resuming, sid)
    /\ Books(Line(sender, queue), recorded, Claimed, Out, adrift, air)
    /\ FlushOK(run, sender, Gone)
    /\ ~crossed => Together
    /\ OrphansOK
    /\ RollbacksOK

-----------------------------------------------------------------------------
(* Sequences of events, and what the store adds of a batch                 *)

\* A set of naturals that is not empty has a smallest element.
LEMMA Smallest ==
  ASSUME NEW T, T \subseteq Nat, T # {}
  PROVE  \E x \in T : \A y \in T : x <= y
<1> DEFINE R == OpToRel(<, Nat)
<1>1. R = {pair \in Nat \X Nat : pair[1] < pair[2]}
  BY DEF OpToRel
<1>2. IsWellFoundedOn(R, Nat)
  BY NatLessThanWellFounded
<1> HIDE DEF R
<1>3. PICK x \in T : \A y \in T : <<y, x>> \notin R
  BY <1>2, WFMin
<1>4. ASSUME NEW y \in T, y < x PROVE FALSE
  <2>1. <<y, x>> \in Nat \X Nat /\ <<y, x>>[1] = y /\ <<y, x>>[2] = x
    OBVIOUS
  <2> QED BY <1>1, <1>3, <1>4, <2>1
<1> QED BY <1>3, <1>4

\* Induction over the naturals up to a bound, for the set of those that are good.
LEMMA UpTo ==
  ASSUME NEW n \in Nat, NEW Good, 0 \in Good,
         \A i \in 0..n : i # 0 /\ i - 1 \in Good => i \in Good
  PROVE  0..n \subseteq Good
<1> SUFFICES ASSUME (0..n) \ Good # {} PROVE FALSE
  OBVIOUS
<1>1. (0..n) \ Good \subseteq Nat
  OBVIOUS
<1>2. PICK x \in (0..n) \ Good : \A y \in (0..n) \ Good : x <= y
  BY <1>1, Smallest
<1>3. x # 0 /\ x - 1 \in 0..n
  BY <1>2
<1> QED BY <1>2, <1>3

\* One step of the recursion of Fresh
Step(batch, known, done, i) ==
    IF i = 0 THEN <<>> ELSE IF batch[i] \in known THEN done[i - 1] ELSE Append(done[i - 1], batch[i])

\* The function that Fresh defines by recursion exists.
LEMMA FreshExists ==
  ASSUME NEW batch, NEW known, NEW n \in Nat
  PROVE  \E f : f = [i \in 0..n |-> Step(batch, known, f, i)]
<1> DEFINE Good == {k \in 0..n : \E f : f = [i \in 0..k |-> Step(batch, known, f, i)]}
<1>1. 0 \in Good
  <2> DEFINE f == [i \in 0..0 |-> <<>>]
  <2>1. f = [i \in 0..0 |-> Step(batch, known, f, i)]
    BY DEF Step
  <2> QED BY <2>1
<1>2. ASSUME NEW k \in 0..n, k # 0, k - 1 \in Good PROVE k \in Good
  <2>1. PICK f : f = [i \in 0..(k - 1) |-> Step(batch, known, f, i)]
    BY <1>2
  <2> DEFINE g == [i \in 0..k |-> IF i = k THEN Step(batch, known, f, k) ELSE f[i]]
  <2>2. ASSUME NEW i \in 0..k PROVE g[i] = Step(batch, known, g, i)
    <3>1. i # 0 => g[i - 1] = f[i - 1]
      OBVIOUS
    <3>2. Step(batch, known, g, i) = Step(batch, known, f, i)
      BY <3>1 DEF Step
    <3>3. i # k => i \in 0..(k - 1)
      OBVIOUS
    <3>4. g[i] = IF i = k THEN Step(batch, known, f, k) ELSE f[i]
      OBVIOUS
    <3>5. i # k => f[i] = Step(batch, known, f, i)
      BY <2>1, <3>3
    <3> QED BY <3>2, <3>4, <3>5
  <2>3. g = [i \in 0..k |-> g[i]]
    OBVIOUS
  <2> HIDE DEF g
  <2>4. g = [i \in 0..k |-> Step(batch, known, g, i)]
    BY <2>2, <2>3
  <2> QED BY <2>4
<1> HIDE DEF Good
<1>3. 0..n \subseteq Good
  BY <1>1, <1>2, UpTo
<1> QED BY <1>3 DEF Good

\* What the function of Fresh is at each position.
LEMMA FreshIs ==
  ASSUME NEW S, NEW batch \in Seq(S), NEW known
  PROVE  \E f : /\ \A i \in 0..Len(batch) : f[i] = Step(batch, known, f, i)
                /\ Fresh(batch, known) = f[Len(batch)]
<1> DEFINE fresh[i \in 0..Len(batch)] ==
              IF i = 0 THEN <<>>
              ELSE IF batch[i] \in known THEN fresh[i - 1]
              ELSE Append(fresh[i - 1], batch[i])
<1>1. \E f : f = [i \in 0..Len(batch) |->
                    IF i = 0 THEN <<>>
                    ELSE IF batch[i] \in known THEN f[i - 1]
                    ELSE Append(f[i - 1], batch[i])]
  <2>1. Len(batch) \in Nat
    OBVIOUS
  <2>2. PICK f : f = [i \in 0..Len(batch) |-> Step(batch, known, f, i)]
    BY <2>1, FreshExists
  <2> QED BY <2>2 DEF Step
<1>2. fresh = [i \in 0..Len(batch) |->
                    IF i = 0 THEN <<>>
                    ELSE IF batch[i] \in known THEN fresh[i - 1]
                    ELSE Append(fresh[i - 1], batch[i])]
  BY <1>1
<1>3. Fresh(batch, known) = fresh[Len(batch)]
  BY DEF Fresh
<1> HIDE DEF fresh
<1>4. \A i \in 0..Len(batch) : fresh[i] = Step(batch, known, fresh, i)
  BY <1>2 DEF Step
<1> QED BY <1>3, <1>4

\* What Fresh leaves: the elements that are not known, in their order.
LEMMA FreshKeeps ==
  ASSUME NEW S \in SUBSET Int, NEW batch \in Seq(S), NEW known
  PROVE  /\ Fresh(batch, known) \in Seq(S)
         /\ Ids(Fresh(batch, known)) = Ids(batch) \ known
         /\ Ascending(batch) => Ascending(Fresh(batch, known))
<1>1. PICK f : /\ \A i \in 0..Len(batch) : f[i] = Step(batch, known, f, i)
               /\ Fresh(batch, known) = f[Len(batch)]
  BY FreshIs
<1> DEFINE n == Len(batch)
           Before(i) == {batch[j] : j \in 1..i}
           Right(i) == /\ f[i] \in Seq(S)
                       /\ Ids(f[i]) = Before(i) \ known
                       /\ Ascending(batch) => Ascending(f[i])
           Good == {i \in 0..n : Right(i)}
<1>2. n \in Nat /\ DOMAIN batch = 1..n /\ \A i \in 1..n : batch[i] \in S
  OBVIOUS
<1>3. 0 \in Good
  <2>1. f[0] = <<>>
    BY <1>1, <1>2 DEF Step
  <2>2. f[0] \in Seq(S) /\ DOMAIN f[0] = {} /\ Before(0) = {}
    BY <2>1
  <2>3. Right(0)
    BY <2>2 DEF Ids, Ascending
  <2> HIDE DEF Right
  <2> QED BY <1>2, <2>3
<1>4. ASSUME NEW i \in 0..n, i # 0, i - 1 \in Good PROVE i \in Good
  <2>1. Right(i - 1)
    BY <1>4
  <2>2. f[i] = IF batch[i] \in known THEN f[i - 1] ELSE Append(f[i - 1], batch[i])
    BY <1>1, <1>4 DEF Step
  <2>3. Before(i) = Before(i - 1) \cup {batch[i]} /\ i \in 1..n /\ batch[i] \in S
    BY <1>2, <1>4
  <2>4. CASE batch[i] \in known
    BY <2>1, <2>2, <2>3, <2>4
  <2>5. CASE batch[i] \notin known
    <3> DEFINE old == f[i - 1]
               new == Append(old, batch[i])
    <3>1. /\ new \in Seq(S) /\ Len(old) \in Nat /\ DOMAIN old = 1..Len(old)
          /\ DOMAIN new = 1..(Len(old) + 1)
          /\ \A j \in 1..Len(old) : new[j] = old[j]
          /\ new[Len(old) + 1] = batch[i]
      BY <2>1, <2>3, AppendProperties
    <3>2. old \in Seq(S) /\ Ids(old) = Before(i - 1) \ known
      BY <2>1
    <3>3. f[i] = new
      BY <2>2, <2>5
    <3> HIDE DEF old, new, Before
    <3>4. Ids(new) = Ids(old) \cup {batch[i]}
      BY <3>1 DEF Ids
    <3>5. ASSUME Ascending(batch) PROVE Ascending(new)
      <4>1. \A j \in 1..Len(old) : old[j] \in Before(i - 1) /\ old[j] \in S
        BY <3>1, <3>2 DEF Ids
      <4>2. \A x \in Before(i - 1) : x < batch[i]
        BY <1>2, <1>4, <3>5 DEF Ascending, Before
      <4>3. Ascending(old)
        BY <2>1, <3>5 DEF old
      <4>4. \A j \in 1..Len(old) : old[j] < batch[i]
        BY <4>1, <4>2
      <4> QED BY <3>1, <4>3, <4>4 DEF Ascending
    <3>6. Ids(new) = Before(i) \ known
      BY <2>3, <2>5, <3>2, <3>4
    <3> QED BY <3>1, <3>3, <3>5, <3>6
  <2> QED BY <2>4, <2>5
<1> HIDE DEF Good, Right
<1>5. 0..n \subseteq Good
  BY <1>2, <1>3, <1>4, UpTo
<1>6. Right(n) /\ Before(n) = Ids(batch)
  BY <1>2, <1>5 DEF Good, Ids
<1> QED BY <1>1, <1>6 DEF Right

\* The elements of a sequence to which one is appended.
LEMMA IdsOfAppended ==
  ASSUME NEW S, NEW l \in Seq(S), NEW e
  PROVE  Ids(Append(l, e)) = Ids(l) \cup {e}
<1> DEFINE m == Append(l, e)
<1>1. Len(l) \in Nat /\ DOMAIN l = 1..Len(l) /\ l \in Seq(S \cup {e})
  OBVIOUS
<1>2. /\ DOMAIN m = 1..(Len(l) + 1) /\ m[Len(l) + 1] = e
      /\ \A i \in 1..Len(l) : m[i] = l[i]
  BY <1>1, AppendProperties
<1> HIDE DEF m
<1> QED BY <1>1, <1>2 DEF Ids

\* The elements of two sequences put together.
LEMMA IdsOfBoth ==
  ASSUME NEW S, NEW a \in Seq(S), NEW b \in Seq(S)
  PROVE  Ids(a \o b) = Ids(a) \cup Ids(b)
<1> DEFINE l == a \o b
<1>1. /\ Len(a) \in Nat /\ DOMAIN a = 1..Len(a) /\ Len(b) \in Nat /\ DOMAIN b = 1..Len(b)
      /\ DOMAIN l = 1..(Len(a) + Len(b))
      /\ \A i \in 1..(Len(a) + Len(b)) : l[i] = IF i <= Len(a) THEN a[i] ELSE b[i - Len(a)]
  BY ConcatProperties
<1> HIDE DEF l
<1>2. \A j \in DOMAIN b : Len(a) + j \in DOMAIN l /\ l[Len(a) + j] = b[j]
  BY <1>1
<1>3. \A i \in DOMAIN l : i <= Len(a) \/ i - Len(a) \in DOMAIN b
  BY <1>1
<1>4. Ids(a) \cup Ids(b) \subseteq Ids(l)
  BY <1>1, <1>2 DEF Ids
<1>5. Ids(l) \subseteq Ids(a) \cup Ids(b)
  BY <1>1, <1>3 DEF Ids
<1> QED BY <1>4, <1>5 DEF l

\* Both parts of an ascending sequence are, and the second one is above the first.
LEMMA AscendingParts ==
  ASSUME NEW S \in SUBSET Int, NEW a \in Seq(S), NEW b \in Seq(S), Ascending(a \o b)
  PROVE  /\ Ascending(a) /\ Ascending(b)
         /\ \A m \in Ids(a), n \in Ids(b) : m < n
<1> DEFINE l == a \o b
<1>1. /\ Len(a) \in Nat /\ DOMAIN a = 1..Len(a) /\ Len(b) \in Nat /\ DOMAIN b = 1..Len(b)
      /\ DOMAIN l = 1..(Len(a) + Len(b))
      /\ \A i \in 1..(Len(a) + Len(b)) : l[i] = IF i <= Len(a) THEN a[i] ELSE b[i - Len(a)]
  BY ConcatProperties
<1>2. Ascending(l)
  OBVIOUS
<1> HIDE DEF l
<1>3. \A i \in DOMAIN a : i \in DOMAIN l /\ l[i] = a[i]
  BY <1>1
<1>4. \A j \in DOMAIN b : Len(a) + j \in DOMAIN l /\ l[Len(a) + j] = b[j]
  BY <1>1
<1>5. Ascending(a)
  BY <1>2, <1>3 DEF Ascending
<1>6. Ascending(b)
  <2> SUFFICES ASSUME NEW i \in DOMAIN b, NEW j \in DOMAIN b, i < j PROVE b[i] < b[j]
    BY DEF Ascending
  <2>1. Len(a) + i < Len(a) + j
    BY <1>1
  <2> QED BY <1>2, <1>4, <2>1 DEF Ascending
<1>7. ASSUME NEW i \in DOMAIN a, NEW j \in DOMAIN b PROVE a[i] < b[j]
  <2>1. i < Len(a) + j
    BY <1>1
  <2> QED BY <1>2, <1>3, <1>4, <2>1 DEF Ascending
<1> QED BY <1>5, <1>6, <1>7 DEF Ids

\* The next event goes to the end of an ascending sequence of events.
LEMMA AscendingAppended ==
  ASSUME NEW n \in Nat, NEW l \in Seq(1..n), Ascending(l)
  PROVE  Append(l, n + 1) \in Seq(1..(n + 1)) /\ Ascending(Append(l, n + 1))
<1> DEFINE m == Append(l, n + 1)
<1>1. Len(l) \in Nat /\ DOMAIN l = 1..Len(l) /\ l \in Seq(1..(n + 1))
      /\ \A i \in 1..Len(l) : l[i] \in 1..n
  OBVIOUS
<1>2. /\ DOMAIN m = 1..(Len(l) + 1) /\ m[Len(l) + 1] = n + 1
      /\ \A i \in 1..Len(l) : m[i] = l[i]
      /\ m \in Seq(1..(n + 1))
  BY <1>1, AppendProperties
<1> HIDE DEF m
<1>3. Ascending(m)
  <2> SUFFICES ASSUME NEW i \in DOMAIN m, NEW j \in DOMAIN m, i < j PROVE m[i] < m[j]
    BY DEF Ascending
  <2>1. i \in 1..Len(l) /\ m[i] = l[i] /\ l[i] \in 1..n
    BY <1>1, <1>2
  <2>2. CASE j = Len(l) + 1
    BY <1>2, <2>1, <2>2
  <2>3. CASE j \in 1..Len(l)
    BY <1>1, <1>2, <2>1, <2>3 DEF Ascending
  <2> QED BY <1>1, <1>2, <2>2, <2>3
<1> QED BY <1>2, <1>3 DEF m

\* splice takes the first of a queue and leaves the others.
LEMMA SplitOff ==
  ASSUME NEW S, NEW q \in Seq(S)
  PROVE  /\ FirstBatch(q) \in Seq(S) /\ Rest(q) \in Seq(S)
         /\ Len(FirstBatch(q)) <= MaxBatch
         /\ FirstBatch(q) \o Rest(q) = q
         /\ Len(q) <= MaxBatch => FirstBatch(q) = q
<1> DEFINE k == IF Len(q) < MaxBatch THEN Len(q) ELSE MaxBatch
           a == SubSeq(q, 1, k)
           b == SubSeq(q, MaxBatch + 1, Len(q))
           l == a \o b
<1>0. MaxBatch \in Nat \ {0} /\ Len(q) \in Nat /\ k \in Nat /\ k <= Len(q) /\ k <= MaxBatch
      /\ DOMAIN q = 1..Len(q) /\ q = [i \in 1..Len(q) |-> q[i]] /\ \A i \in 1..Len(q) : q[i] \in S
  BY LimitAssumption
<1>1. FirstBatch(q) = a /\ Rest(q) = b
  BY DEF FirstBatch, Rest
<1>2. a \in Seq(S) /\ Len(a) = k /\ \A i \in 1..k : a[i] = q[i]
  <2>1. \A i \in 1..k : q[i] \in S
    BY <1>0
  <2> HIDE DEF k
  <2> QED BY <1>0, <2>1, SubSeqProperties
<1>3. /\ b \in Seq(S)
      /\ Len(b) = Len(q) - k
      /\ \A i \in 1..(Len(q) - k) : b[i] = q[k + i]
  <2>1. \A i \in (MaxBatch + 1)..Len(q) : q[i] \in S
    BY <1>0
  <2>2. b \in Seq(S)
    BY <1>0, <2>1, SubSeqProperties
  <2>3. Len(b) = IF MaxBatch + 1 <= Len(q) THEN Len(q) - MaxBatch ELSE 0
    BY <1>0, <2>1, SubSeqProperties
  <2>4. Len(b) = Len(q) - k
    BY <1>0, <2>3
  <2>5. ASSUME NEW i \in 1..(Len(q) - k) PROVE b[i] = q[k + i]
    <3>1. k = MaxBatch /\ MaxBatch + 1 <= Len(q) /\ i \in 1..(Len(q) - (MaxBatch + 1) + 1)
      BY <1>0
    <3>2. b[i] = q[MaxBatch + 1 + i - 1]
      BY <1>0, <3>1, SubSeqProperties
    <3> QED BY <1>0, <3>1, <3>2
  <2> QED BY <2>2, <2>4, <2>5
<1> HIDE DEF a, b, k
<1>4. /\ l \in Seq(S) /\ Len(l) = k + (Len(q) - k)
      /\ \A i \in 1..(k + (Len(q) - k)) : l[i] = IF i <= k THEN a[i] ELSE b[i - k]
  BY <1>2, <1>3, ConcatProperties
<1> HIDE DEF l
<1>5. Len(l) = Len(q)
  BY <1>0, <1>4
<1>6. ASSUME NEW i \in 1..Len(q) PROVE l[i] = q[i]
  <2>1. l[i] = IF i <= k THEN a[i] ELSE b[i - k]
    BY <1>0, <1>4
  <2>2. i > k => i - k \in 1..(Len(q) - k) /\ k + (i - k) = i
    BY <1>0
  <2> QED BY <1>0, <1>2, <1>3, <2>1, <2>2
<1>7. l = q
  BY <1>4, <1>5, <1>6
<1>8. ASSUME Len(q) <= MaxBatch PROVE a = q
  <2>1. k = Len(q)
    BY <1>0, <1>8 DEF k
  <2> QED BY <1>0, <1>2, <2>1
<1> QED BY <1>0, <1>1, <1>2, <1>3, <1>7, <1>8 DEF l

-----------------------------------------------------------------------------
(* Events on the page and in the Claimed                                     *)

\* Appending to the queue appends to the line.
LEMMA LineAppended ==
  ASSUME NEW S, NEW a \in Seq(S), NEW b \in Seq(S), NEW e \in S
  PROVE  a \o Append(b, e) = Append(a \o b, e)
<1>1. <<e>> \in Seq(S) /\ a \o b \in Seq(S)
  OBVIOUS
<1>2. Append(b, e) = b \o <<e>> /\ Append(a \o b, e) = (a \o b) \o <<e>>
  BY <1>1, AppendIsConcat
<1> QED BY <1>1, <1>2, ConcatAssociative

\* recordEvent: one more event, at the end of what the page holds.
LEMMA Recording ==
  ASSUME NEW l, NEW past \in Seq(Problem), NEW st, NEW dr, NEW ad, NEW p \in Problem,
         EventsOK(l, past, st, dr, ad)
  PROVE  EventsOK(Append(l, Len(past) + 1), Append(past, p), st, dr, ad)
<1> DEFINE n == Len(past)
           l2 == Append(l, n + 1)
           past2 == Append(past, p)
<1>1. n \in Nat /\ DOMAIN past = 1..n /\ DOMAIN past2 = 1..(n + 1)
  BY AppendProperties
<1>2. l \in Seq(1..n) /\ Ascending(l)
  BY <1>1 DEF EventsOK
<1>3. l2 \in Seq(1..(n + 1)) /\ Ascending(l2)
  BY <1>1, <1>2, AscendingAppended
<1>4. Ids(l2) = Ids(l) \cup {n + 1}
  BY <1>2, IdsOfAppended
<1>5. \A s \in DOMAIN st : st[s] \in Seq(1..n) /\ st[s] \in Seq(1..(n + 1))
  BY <1>1 DEF EventsOK
<1>6. \A s \in DOMAIN st : \A m \in Ids(st[s]) : m \in 1..n
  BY <1>5 DEF Ids
<1> HIDE DEF l2, past2, n
<1>7. \A s \in DOMAIN st : \A m \in Ids(st[s]), k \in Ids(l2) : m > k => {m, k} \cap ad # {}
  <2> SUFFICES ASSUME NEW s \in DOMAIN st, NEW m \in Ids(st[s]), NEW k \in Ids(l2), m > k
               PROVE  {m, k} \cap ad # {}
    OBVIOUS
  <2>1. k \in Ids(l)
    BY <1>1, <1>4, <1>6
  <2> QED BY <2>1 DEF EventsOK
<1>8. DOMAIN past2 \subseteq Ids(l2) \cup All(st) \cup dr \cup ad
  <2>1. DOMAIN past \subseteq Ids(l) \cup All(st) \cup dr \cup ad
    BY DEF EventsOK
  <2> QED BY <1>1, <1>4, <2>1
<1>10. All(st) \cap Ids(l2) \subseteq ad
  <2>1. All(st) \subseteq 1..n
    BY <1>6 DEF All
  <2> QED BY <1>1, <1>4, <2>1 DEF EventsOK
<1>9. EventsOK(l2, past2, st, dr, ad)
  BY <1>1, <1>3, <1>5, <1>7, <1>8, <1>10 DEF EventsOK
<1> QED BY <1>9 DEF l2, past2, n

\* What the page holds shrinks: the events it loses must be gone, and more may be adrift.
LEMMA Holding ==
  ASSUME NEW l, NEW past, NEW st, NEW dr, NEW ad, EventsOK(l, past, st, dr, ad),
         NEW l2 \in Seq(DOMAIN past), Ascending(l2), Ids(l2) \subseteq Ids(l),
         NEW dr2, NEW ad2, dr \subseteq dr2, ad \subseteq ad2,
         Ids(l) \subseteq Ids(l2) \cup dr2 \cup ad2
  PROVE  EventsOK(l2, past, st, dr2, ad2)
<1>1. DOMAIN past \subseteq Ids(l2) \cup All(st) \cup dr2 \cup ad2
  BY DEF EventsOK
<1>2. \A s \in DOMAIN st : \A m \in Ids(st[s]), n \in Ids(l2) : m > n => {m, n} \cap ad2 # {}
  BY DEF EventsOK
<1>3. \A s \in DOMAIN st : \A i, j \in DOMAIN st[s] :
          i < j /\ st[s][i] > st[s][j] => {st[s][i], st[s][j]} \cap ad2 # {}
  BY DEF EventsOK
<1>4. \A s \in DOMAIN st : st[s] \in Seq(DOMAIN past)
  BY DEF EventsOK
<1>5. All(st) \cap Ids(l2) \subseteq ad2
  BY DEF EventsOK
<1> QED BY <1>1, <1>2, <1>3, <1>4, <1>5 DEF EventsOK

\* A batch arrives at the session x, and `rest' is left on the page: the batch was the
\* head of what the page had, or it is adrift.
Arrives(l, past, st, ad, x, batch, rest, st2) ==
    /\ x \in DOMAIN st
    /\ batch \in Seq(DOMAIN past) /\ Ascending(batch)
    /\ rest \in Seq(DOMAIN past) /\ Ascending(rest)
    /\ Ids(rest) \subseteq Ids(l) /\ Ids(l) \subseteq Ids(batch) \cup Ids(rest)
    /\ \/ Ids(batch) \subseteq Ids(l) /\ \A m \in Ids(batch), n \in Ids(rest) : m < n
       \/ Ids(batch) \subseteq ad
    /\ DOMAIN st2 = DOMAIN st
    /\ st2[x] = st[x] \o Fresh(batch, Ids(st[x]))
    /\ \A s \in DOMAIN st \ {x} : st2[s] = st[s]

\* What arrives is stored in order, and nothing is forgotten.
LEMMA Arriving ==
  ASSUME NEW past, NEW st, NEW dr, NEW ad, NEW l, NEW x, NEW batch, NEW rest, NEW st2,
         past \in Seq(Problem), EventsOK(l, past, st, dr, ad),
         Arrives(l, past, st, ad, x, batch, rest, st2)
  PROVE  EventsOK(rest, past, st2, dr, ad) /\ All(st2) = All(st) \cup Ids(batch)
<1> DEFINE N == DOMAIN past
           old == st[x]
           new == Fresh(batch, Ids(old))
           line == old \o new
<1>a. x \in DOMAIN st /\ st[x] \in Seq(N)
  BY DEF Arrives, EventsOK
<1>b. batch \in Seq(N) /\ Ascending(batch) /\ rest \in Seq(N) /\ Ascending(rest)
  BY DEF Arrives
<1>c. Ids(rest) \subseteq Ids(l) /\ Ids(l) \subseteq Ids(batch) \cup Ids(rest)
  BY DEF Arrives
<1>d. \/ Ids(batch) \subseteq Ids(l) /\ \A m \in Ids(batch), n \in Ids(rest) : m < n
      \/ Ids(batch) \subseteq ad
  BY DEF Arrives
<1>e. DOMAIN st2 = DOMAIN st /\ st2[x] = line /\ \A s \in DOMAIN st \ {x} : st2[s] = st[s]
  BY DEF Arrives
<1>1. N \subseteq Int /\ old \in Seq(N)
  BY <1>a
<1>2. new \in Seq(N) /\ Ids(new) = Ids(batch) \ Ids(old) /\ Ascending(new)
  BY <1>1, <1>b, FreshKeeps
<1>3. /\ Len(old) \in Nat /\ DOMAIN old = 1..Len(old) /\ Len(new) \in Nat /\ DOMAIN new = 1..Len(new)
      /\ line \in Seq(N)
      /\ DOMAIN line = 1..(Len(old) + Len(new))
      /\ \A i \in 1..(Len(old) + Len(new)) : line[i] = IF i <= Len(old) THEN old[i] ELSE new[i - Len(old)]
  <2> HIDE DEF old, new
  <2>1. old \in Seq(N) /\ new \in Seq(N)
    BY <1>1, <1>2
  <2> QED BY <2>1, ConcatProperties
<1>4. Ids(line) = Ids(old) \cup Ids(batch)
  BY <1>1, <1>2, IdsOfBoth
<1>5. DOMAIN st2 = DOMAIN st /\ st2[x] = line /\ \A s \in DOMAIN st \ {x} : st2[s] = st[s]
  BY <1>e
<1>6. Ids(old) \subseteq N /\ Ids(batch) \subseteq N /\ Ids(rest) \subseteq N
  <2>1. \A i \in DOMAIN old : old[i] \in N
    BY <1>1
  <2>2. (\A i \in DOMAIN batch : batch[i] \in N) /\ \A i \in DOMAIN rest : rest[i] \in N
    BY <1>b
  <2> QED BY <2>1, <2>2 DEF Ids
<1>7. \A m \in Ids(old), n \in Ids(l) : m > n => {m, n} \cap ad # {}
  BY <1>a DEF EventsOK
<1>8. \A i, j \in DOMAIN old : i < j /\ old[i] > old[j] => {old[i], old[j]} \cap ad # {}
  BY <1>a DEF EventsOK
<1>9. All(st2) = All(st) \cup Ids(batch)
  <2> HIDE DEF line, old
  <2>1. \A s \in DOMAIN st2 : Ids(st2[s]) \subseteq All(st) \cup Ids(batch)
    BY <1>4, <1>5 DEF All, old
  <2>2. \A s \in DOMAIN st : Ids(st[s]) \subseteq Ids(st2[s])
    BY <1>4, <1>5 DEF old
  <2>3. Ids(batch) \subseteq Ids(st2[x])
    BY <1>a, <1>4, <1>5
  <2>4. All(st2) \subseteq All(st) \cup Ids(batch)
    BY <2>1 DEF All
  <2>5. All(st) \subseteq All(st2)
    BY <1>5, <2>2 DEF All
  <2>6. Ids(batch) \subseteq All(st2)
    BY <1>a, <1>5, <2>3 DEF All
  <2> QED BY <2>4, <2>5, <2>6
<1> HIDE DEF line, new, old
<1>10. \A s \in DOMAIN st2 : st2[s] \in Seq(N)
  BY <1>3, <1>5 DEF EventsOK
<1>11. N \subseteq Ids(rest) \cup All(st2) \cup dr \cup ad
  BY <1>9, <1>c DEF EventsOK
<1>12. \A s \in DOMAIN st2 : \A m \in Ids(st2[s]), n \in Ids(rest) : m > n => {m, n} \cap ad # {}
  <2> SUFFICES ASSUME NEW s \in DOMAIN st2, NEW m \in Ids(st2[s]), NEW n \in Ids(rest), m > n
               PROVE  {m, n} \cap ad # {}
    OBVIOUS
  <2>1. CASE m \in Ids(st[s])
    BY <1>5, <1>c, <2>1 DEF EventsOK
  <2>2. CASE m \notin Ids(st[s])
    <3>1. m \in Ids(batch)
      BY <1>4, <1>5, <2>2 DEF old
    <3>2. ~ (m < n)
      BY <1>1, <1>6, <3>1
    <3> QED BY <1>d, <3>1, <3>2
  <2> QED BY <2>1, <2>2
<1>13. \A i, j \in DOMAIN line : i < j /\ line[i] > line[j] => {line[i], line[j]} \cap ad # {}
  <2> SUFFICES ASSUME NEW i \in DOMAIN line, NEW j \in DOMAIN line, i < j, line[i] > line[j]
               PROVE  {line[i], line[j]} \cap ad # {}
    OBVIOUS
  <2>1. CASE j <= Len(old)
    BY <1>3, <1>8, <2>1
  <2>2. CASE i <= Len(old) /\ j > Len(old)
    <3>1. line[i] \in Ids(old) /\ j - Len(old) \in DOMAIN new /\ line[j] = new[j - Len(old)]
      BY <1>3, <2>2 DEF Ids
    <3>2. line[j] \in Ids(batch)
      BY <1>2, <3>1 DEF Ids
    <3> QED BY <1>7, <1>c, <1>d, <3>1, <3>2
  <2>3. CASE i > Len(old) /\ j > Len(old)
    <3>1. /\ i - Len(old) \in DOMAIN new /\ line[i] = new[i - Len(old)]
          /\ j - Len(old) \in DOMAIN new /\ line[j] = new[j - Len(old)]
          /\ i - Len(old) < j - Len(old)
      <4> DEFINE n == Len(old)
                 k == Len(new)
      <4>1. n \in Nat /\ k \in Nat /\ i \in 1..(n + k) /\ j \in 1..(n + k) /\ i > n /\ j > n
        BY <1>3, <2>3
      <4>0. DOMAIN new = 1..k /\ \A m \in 1..(n + k) : line[m] = IF m <= n THEN old[m] ELSE new[m - n]
        BY <1>3
      <4> HIDE DEF n, k
      <4>2. line[i] = new[i - n] /\ line[j] = new[j - n]
        <5>1. ~(i <= n) /\ ~(j <= n)
          BY <4>1
        <5> QED BY <4>0, <4>1, <5>1
      <4>3. i - n \in 1..k /\ j - n \in 1..k /\ i - n < j - n
        BY <4>1
      <4> QED BY <4>0, <4>2, <4>3 DEF n
    <3>2. line[i] < line[j]
      BY <1>2, <3>1 DEF Ascending
    <3>3. line[i] \in Int /\ line[j] \in Int
      BY <1>1, <1>3
    <3> QED BY <3>2, <3>3
  <2> QED BY <1>3, <2>1, <2>2, <2>3
<1>14. \A s \in DOMAIN st2 : \A i, j \in DOMAIN st2[s] :
          i < j /\ st2[s][i] > st2[s][j] => {st2[s][i], st2[s][j]} \cap ad # {}
  <2> SUFFICES ASSUME NEW s \in DOMAIN st2
               PROVE  \A i, j \in DOMAIN st2[s] :
                        i < j /\ st2[s][i] > st2[s][j] => {st2[s][i], st2[s][j]} \cap ad # {}
    OBVIOUS
  <2>1. CASE s = x
    BY <1>5, <1>13, <2>1
  <2>2. CASE s # x
    BY <1>5, <2>2 DEF EventsOK
  <2> QED BY <2>1, <2>2
<1>16. All(st2) \cap Ids(rest) \subseteq ad
  <2>1. All(st) \cap Ids(rest) \subseteq ad
    BY <1>c DEF EventsOK
  <2>2. Ids(batch) \cap Ids(rest) \subseteq ad
    <3> SUFFICES ASSUME NEW m \in Ids(batch), m \in Ids(rest) PROVE m \in ad
      OBVIOUS
    <3>1. ~ (m < m)
      BY <1>1, <1>6
    <3> QED BY <1>d, <3>1
  <2> QED BY <1>9, <2>1, <2>2
<1>15. EventsOK(rest, past, st2, dr, ad)
  BY <1>b, <1>5, <1>10, <1>11, <1>12, <1>14, <1>16 DEF EventsOK
<1> QED BY <1>9, <1>15

\* A new session has no events.
LEMMA Opening ==
  ASSUME NEW l, NEW past, NEW st, NEW dr, NEW ad, EventsOK(l, past, st, dr, ad),
         NEW new, new \notin DOMAIN st,
         NEW st2, DOMAIN st2 = DOMAIN st \cup {new}, st2[new] = <<>>, \A s \in DOMAIN st : st2[s] = st[s]
  PROVE  EventsOK(l, past, st2, dr, ad) /\ All(st2) = All(st)
<1>1. /\ DOMAIN st2 = DOMAIN st \cup {new} /\ st2[new] = <<>>
      /\ \A s \in DOMAIN st : st2[s] = st[s]
  OBVIOUS
<1>2. Ids(st2[new]) = {} /\ DOMAIN st2[new] = {} /\ st2[new] \in Seq(DOMAIN past)
  BY <1>1 DEF Ids
<1>3. All(st2) = All(st)
  BY <1>1, <1>2 DEF All
<1>4. \A s \in DOMAIN st2 : st2[s] \in Seq(DOMAIN past)
  BY <1>1, <1>2 DEF EventsOK
<1>5. \A s \in DOMAIN st2 : \A m \in Ids(st2[s]), n \in Ids(l) : m > n => {m, n} \cap ad # {}
  BY <1>1, <1>2 DEF EventsOK
<1>6. \A s \in DOMAIN st2 : \A i, j \in DOMAIN st2[s] :
          i < j /\ st2[s][i] > st2[s][j] => {st2[s][i], st2[s][j]} \cap ad # {}
  BY <1>1, <1>2 DEF EventsOK
<1>8. All(st2) \cap Ids(l) \subseteq ad
  BY <1>3 DEF EventsOK
<1>7. EventsOK(l, past, st2, dr, ad)
  BY <1>3, <1>4, <1>5, <1>6, <1>8 DEF EventsOK
<1> QED BY <1>3, <1>7

\* recordEvent, for all that is known of events.
LEMMA BooksRecord ==
  ASSUME NEW l, NEW past, NEW st, NEW dr, NEW ad, NEW a, NEW P \in Problem,
         Books(l, past, st, dr, ad, a)
  PROVE  /\ Books(Append(l, Len(past) + 1), Append(past, P), st, dr, ad, a)
         /\ Len(Append(past, P)) = Len(past) + 1
         /\ Clean(l, past, st, a, P)
              => Clean(Append(l, Len(past) + 1), Append(past, P), st, a, P)
<1> DEFINE n == Len(past)
           l2 == Append(l, n + 1)
           past2 == Append(past, P)
<1>1. /\ past \in Seq(Problem) /\ past2 \in Seq(Problem)
      /\ n \in Nat /\ Len(past2) = n + 1 /\ DOMAIN past = 1..n /\ DOMAIN past2 = 1..(n + 1)
      /\ (\A i \in 1..n : past2[i] = past[i]) /\ past2[n + 1] = P
  BY AppendProperties DEF Books
<1>2. EventsOK(l2, past2, st, dr, ad)
  BY <1>1, Recording DEF Books
<1>3. l \in Seq(1..n) /\ \A s \in DOMAIN st : st[s] \in Seq(1..n)
  BY <1>1 DEF Books, EventsOK
<1>4. Ids(l) \subseteq 1..n /\ \A s \in DOMAIN st : Ids(st[s]) \subseteq 1..n
  BY <1>3 DEF Ids
<1>5. Ids(l2) = Ids(l) \cup {n + 1}
  BY <1>3, IdsOfAppended
<1>6. \A x \in a : Ids(x.batch) \subseteq 1..n /\ x.batch \in Seq(1..(n + 1))
  BY <1>1 DEF Books, Ids
<1> HIDE DEF l2, past2, n
<1>7. Books(l2, past2, st, dr, ad, a)
  BY <1>1, <1>2, <1>6 DEF Books
<1>8. ASSUME Clean(l, past, st, a, P) PROVE Clean(l2, past2, st, a, P)
  <2>1. \A m \in Ids(l2) : past2[m] = P
    BY <1>1, <1>4, <1>5, <1>8 DEF Clean
  <2>2. \A s \in DOMAIN st : \A m \in Ids(st[s]) : past2[m] = s.problem
    BY <1>1, <1>4, <1>8 DEF Clean
  <2>3. \A x \in a : \A m \in Ids(x.batch) : past2[m] = x.to.problem
    BY <1>1, <1>6, <1>8 DEF Clean
  <2> QED BY <2>1, <2>2, <2>3 DEF Clean
<1> QED BY <1>1, <1>7, <1>8 DEF l2, past2, n

\* The part that is left when the page gives something away.
LEMMA BooksHold ==
  ASSUME NEW l, NEW past, NEW st, NEW dr, NEW ad, NEW a, Books(l, past, st, dr, ad, a),
         NEW l2 \in Seq(DOMAIN past), Ascending(l2), Ids(l2) \subseteq Ids(l),
         NEW dr2, NEW ad2, dr \subseteq dr2, ad \subseteq ad2,
         Ids(l) \subseteq Ids(l2) \cup dr2 \cup ad2
  PROVE  /\ Books(l2, past, st, dr2, ad2, a)
         /\ \A p : Clean(l, past, st, a, p) => Clean(l2, past, st, a, p)
<1>1. EventsOK(l2, past, st, dr2, ad2)
  BY Holding DEF Books
<1>2. Books(l2, past, st, dr2, ad2, a)
  BY <1>1 DEF Books
<1> QED BY <1>2 DEF Clean

\* A request sets off that nobody waits for.
LEMMA BooksSend ==
  ASSUME NEW l, NEW past, NEW st, NEW dr, NEW ad, NEW a, Books(l, past, st, dr, ad, a),
         NEW s \in DOMAIN st, NEW batch \in Seq(DOMAIN past), Ascending(batch),
         Ids(batch) \subseteq Ids(l),
         NEW x, x = [to |-> s, batch |-> batch]
  PROVE  /\ Books(l, past, st, dr, ad \cup Ids(batch), a \cup {x})
         /\ \A p : Clean(l, past, st, a, p) /\ s.problem = p => Clean(l, past, st, a \cup {x}, p)
<1> DEFINE a2 == a \cup {x}
           ad2 == ad \cup Ids(batch)
<1>1. l \in Seq(DOMAIN past) /\ Ascending(l) /\ Ids(l) \subseteq Ids(l) \cup dr \cup ad2
      /\ past \in Seq(Problem)
  BY DEF Books, EventsOK
<1>2. EventsOK(l, past, st, dr, ad2)
  BY <1>1, Holding DEF Books
<1>3. x.to = s /\ x.batch = batch /\ x = [to |-> x.to, batch |-> x.batch]
  OBVIOUS
<1>4. Books(l, past, st, dr, ad2, a2)
  BY <1>2, <1>3 DEF Books
<1>5. ASSUME NEW p, Clean(l, past, st, a, p), s.problem = p PROVE Clean(l, past, st, a2, p)
  BY <1>3, <1>5 DEF Clean
<1> QED BY <1>4, <1>5

\* Other requests than those that were lost.
LEMMA BooksLose ==
  ASSUME NEW l, NEW past, NEW st, NEW dr, NEW ad, NEW a, Books(l, past, st, dr, ad, a),
         NEW a2, a2 \subseteq a
  PROVE  /\ Books(l, past, st, dr, ad, a2)
         /\ \A p : Clean(l, past, st, a, p) => Clean(l, past, st, a2, p)
  BY DEF Books, Clean

\* POST /events arrives: the batch the sender waits for, or one from the air.
LEMMA BooksArrive ==
  ASSUME NEW past, NEW st, NEW dr, NEW ad, NEW l, NEW a, NEW x, NEW batch, NEW rest, NEW st2,
         Books(l, past, st, dr, ad, a),
         Arrives(l, past, st, ad, x, batch, rest, st2)
  PROVE  /\ Books(rest, past, st2, dr, ad, a)
         /\ All(st2) = All(st) \cup Ids(batch)
         /\ \A p : Clean(l, past, st, a, p) /\ (\A n \in Ids(batch) : past[n] = x.problem)
                     => Clean(rest, past, st2, a, p)
<1> DEFINE new == Fresh(batch, Ids(st[x]))
<1>1. past \in Seq(Problem) /\ EventsOK(l, past, st, dr, ad)
  BY DEF Books
<1>2. EventsOK(rest, past, st2, dr, ad) /\ All(st2) = All(st) \cup Ids(batch)
  BY <1>1, Arriving
<1> USE DEF Arrives
<1>3. DOMAIN st2 = DOMAIN st /\ st2[x] = st[x] \o new /\ \A s \in DOMAIN st \ {x} : st2[s] = st[s]
  OBVIOUS
<1>4. st[x] \in Seq(DOMAIN past) /\ DOMAIN past \in SUBSET Int
  BY <1>1 DEF EventsOK
<1>5. new \in Seq(DOMAIN past) /\ Ids(new) \subseteq Ids(batch)
  BY <1>4, FreshKeeps
<1> HIDE DEF new
<1>6. Ids(st2[x]) \subseteq Ids(st[x]) \cup Ids(batch)
  BY <1>3, <1>4, <1>5, IdsOfBoth
<1>7. Books(rest, past, st2, dr, ad, a)
  BY <1>1, <1>2, <1>3 DEF Books
<1>8. ASSUME NEW p, Clean(l, past, st, a, p), \A n \in Ids(batch) : past[n] = x.problem
      PROVE  Clean(rest, past, st2, a, p)
  <2>1. \A s \in DOMAIN st2 : \A n \in Ids(st2[s]) : past[n] = s.problem
    BY <1>3, <1>6, <1>8 DEF Clean
  <2> QED BY <1>8, <2>1 DEF Clean
<1> QED BY <1>2, <1>3, <1>7, <1>8

\* A batch is rolled back: what is not stored of it is given up.
LEMMA BooksCollide ==
  ASSUME NEW past, NEW st, NEW dr, NEW ad, NEW l, NEW a, NEW x \in DOMAIN st, NEW batch, NEW rest,
         Books(l, past, st, dr, ad, a),
         rest \in Seq(DOMAIN past), Ascending(rest), Ids(l) = Ids(batch) \cup Ids(rest)
  PROVE  /\ Books(rest, past, st, dr \cup (Ids(batch) \ Ids(st[x])), ad, a)
         /\ \A p : Clean(l, past, st, a, p) => Clean(rest, past, st, a, p)
<1> DEFINE dr2 == dr \cup (Ids(batch) \ Ids(st[x]))
<1>1. Ids(batch) \cap Ids(st[x]) \subseteq ad
  <2>1. Ids(st[x]) \subseteq All(st) /\ All(st) \cap Ids(l) \subseteq ad
    BY DEF All, Books, EventsOK
  <2> QED BY <2>1
<1>2. Ids(l) \subseteq Ids(rest) \cup dr2 \cup ad /\ dr \subseteq dr2 /\ Ids(rest) \subseteq Ids(l)
  BY <1>1
<1> HIDE DEF dr2
<1>3. /\ Books(rest, past, st, dr2, ad, a)
      /\ \A p : Clean(l, past, st, a, p) => Clean(rest, past, st, a, p)
  BY <1>2, BooksHold
<1> QED BY <1>3 DEF dr2

\* A session is created.
LEMMA BooksOpen ==
  ASSUME NEW l, NEW past, NEW st, NEW dr, NEW ad, NEW a, Books(l, past, st, dr, ad, a),
         NEW new, new \notin DOMAIN st,
         NEW st2, DOMAIN st2 = DOMAIN st \cup {new}, st2[new] = <<>>, \A s \in DOMAIN st : st2[s] = st[s]
  PROVE  /\ Books(l, past, st2, dr, ad, a)
         /\ DOMAIN st2 = DOMAIN st \cup {new} /\ All(st2) = All(st)
         /\ \A p : Clean(l, past, st, a, p) => Clean(l, past, st2, a, p)
<1>1. EventsOK(l, past, st2, dr, ad) /\ All(st2) = All(st)
  BY Opening DEF Books
<1>2. /\ DOMAIN st2 = DOMAIN st \cup {new} /\ st2[new] = <<>>
      /\ \A s \in DOMAIN st : st2[s] = st[s]
  OBVIOUS
<1>3. Ids(st2[new]) = {}
  BY <1>2 DEF Ids
<1>4. Books(l, past, st2, dr, ad, a)
  BY <1>1, <1>2 DEF Books
<1>5. \A p : Clean(l, past, st, a, p) => Clean(l, past, st2, a, p)
  BY <1>2, <1>3 DEF Clean
<1> QED BY <1>1, <1>2, <1>4, <1>5

-----------------------------------------------------------------------------
(* Tasks.                                                                  *)

\* There is a number for one more task.
LEMMA NewTaskIs ==
  ASSUME NEW known, TasksOK(tasks, inFlight, known)
  PROVE  /\ NewTask \in Nat \ {0} /\ \A t \in tasks : t.n # NewTask
         /\ Awaited \in Nat \ {0}
<1> DEFINE N == Cardinality(tasks) + 1
           Names == {t.n : t \in tasks}
<1>1. IsFiniteSet(tasks) /\ Cardinality(tasks) \in Nat
  BY FS_CardinalityType DEF TasksOK
<1>2. IsFiniteSet(Names) /\ Cardinality(Names) <= Cardinality(tasks)
  <2> DEFINE f == [t \in tasks |-> t.n]
  <2>1. f \in Surjection(tasks, Names)
    BY DEF Surjection
  <2> HIDE DEF f, Names
  <2> QED BY <1>1, <2>1, FS_Surjection
<1>3. ~(1..N \subseteq Names)
  <2> SUFFICES ASSUME 1..N \subseteq Names PROVE FALSE
    OBVIOUS
  <2> HIDE DEF Names
  <2>1. IsFiniteSet(1..N) /\ Cardinality(1..N) = N
    BY <1>1, FS_Interval
  <2>2. Cardinality(1..N) <= Cardinality(Names) /\ Cardinality(Names) \in Nat
    BY <1>2, FS_Subset, FS_CardinalityType
  <2> QED BY <1>1, <1>2, <2>1, <2>2
<1>4. \E n \in 1..N : \A t \in tasks : t.n # n
  BY <1>3
<1>5. NewTask \in 1..N /\ \A t \in tasks : t.n # NewTask
  BY <1>4 DEF NewTask
<1>6. NewTask \in Nat \ {0}
  BY <1>1, <1>5
<1>7. inFlight # NoTask => inFlight \in Nat \ {0}
  BY DEF TasksOK, TaskType
<1> QED BY <1>5, <1>6, <1>7 DEF Awaited

-----------------------------------------------------------------------------
(* The synchronous parts                                                   *)

\* A sender that is not at work has no batch.
LEMMA IdleIs ==
  ASSUME NEW known, NEW snd, SenderOK(snd, known)
  PROVE  /\ snd.batch \in Seq(Nat) /\ snd.task \in Nat
         /\ snd.at = "idle" => snd = Idle /\ snd.batch = <<>>
  BY DEF SenderOK, SenderType, Idle

\* What send() makes of the sender: nothing, or one that waits for its session or posts.
Sent(snd, snd2, s) ==
    \/ snd2 = snd
    \/ snd.at = "idle" /\ snd2.at = "session" /\ s = NoSession /\ snd2.task = Awaited
    \/ snd.at = "idle" /\ snd2.at = "post" /\ s # NoSession /\ snd2.to = s

\* The sender that is not at work is as it should be.
LEMMA IdleOK ==
  ASSUME NEW known
  PROVE  SenderOK(Idle, known)
<1>1. <<>> \in Seq(Nat) /\ Len(<<>>) = 0 /\ MaxBatch \in Nat \ {0} /\ MaxRetries \in Nat
  BY LimitAssumption
<1>2. Idle \in SenderType(known \cup {NoSession})
  BY <1>1 DEF Idle, SenderType, NoTask
<1> QED BY <1>1, <1>2 DEF SenderOK, Idle

\* The store holds sequences of events
StoreOK == \A s \in DOMAIN store : store[s] \in Seq(Nat)

\* What a session has is a number.
LEMMA HasIs ==
  ASSUME StoreOK, NEW s PROVE Has(s) \in Nat
  BY DEF StoreOK, Has

\* send() moves events from the queue to its batch and leaves the line as it is.
LEMMA SendKeeps ==
  ASSUME StoreOK, NEW known, TasksOK(tasks, inFlight, known), NEW snd, SenderOK(snd, known),
         NEW q \in Seq(Nat), NEW s \in known \cup {NoSession}, Send(snd, q, s)
  PROVE  /\ SenderOK(sender', known) /\ queue' \in Seq(Nat)
         /\ Line(sender', queue') = Line(snd, q) /\ Sent(snd, sender', s)
         /\ Sends(snd, q) => sender'.batch = FirstBatch(q) /\ sender'.at \in {"session", "post"}
<1>1. CASE ~Sends(snd, q)
  <2>1. sender' = snd /\ queue' = q
    BY <1>1 DEF Send, Sending, Unsent
  <2> QED BY <1>1, <2>1 DEF Sent
<1>2. CASE Sends(snd, q)
  <2> DEFINE b == FirstBatch(q)
  <2>1. snd = Idle /\ snd.at = "idle" /\ snd.batch = <<>> /\ Line(snd, q) = q
    <3>1. snd = Idle /\ snd.at = "idle" /\ snd.batch = <<>>
      BY <1>2, IdleIs DEF Sends
    <3> QED BY <3>1, ConcatEmptySeq DEF Line
  <2>2. b \in Seq(Nat) /\ Rest(q) \in Seq(Nat) /\ Len(b) <= MaxBatch /\ b \o Rest(q) = q
    BY SplitOff
  <2>3. queue' = Rest(q) /\ sender' = Sending(snd, q, s)
    BY <1>2 DEF Send, Unsent
  <2>4. Awaited \in Nat \ {0} /\ MaxRetries \in Nat /\ 0 \in 0..MaxRetries
    BY NewTaskIs, LimitAssumption
  <2> HIDE DEF b
  <2>5. CASE s = NoSession
    <3>1. sender' = [at |-> "session", batch |-> b, to |-> NoSession, task |-> Awaited, retries |-> 0,
                     since |-> 0]
      BY <1>2, <2>3, <2>5 DEF Sending, Idle, b
    <3>2. /\ sender'.at = "session" /\ sender'.batch = b /\ sender'.task = Awaited
          /\ sender' \in SenderType(known \cup {NoSession})
      BY <2>2, <2>4, <3>1 DEF SenderType
    <3>3. SenderOK(sender', known)
      BY <2>2, <2>4, <3>2 DEF SenderOK, NoTask
    <3> QED BY <2>1, <2>2, <2>3, <2>5, <3>2, <3>3 DEF Line, Sent, b
  <2>6. CASE s # NoSession
    <3>0. Has(s) \in Nat
      BY HasIs
    <3>1. sender' = [at |-> "post", batch |-> b, to |-> s, task |-> NoTask, retries |-> 0,
                     since |-> Has(s)]
      BY <1>2, <2>3, <2>6 DEF Sending, Idle, b
    <3>2. /\ sender'.at = "post" /\ sender'.batch = b /\ sender'.task = NoTask /\ sender'.to = s
          /\ sender' \in SenderType(known \cup {NoSession})
      BY <2>2, <2>4, <3>0, <3>1 DEF SenderType, NoTask
    <3>3. SenderOK(sender', known)
      BY <2>2, <2>4, <2>6, <3>2 DEF SenderOK, NoTask
    <3> QED BY <2>1, <2>2, <2>3, <2>6, <3>2, <3>3 DEF Line, Sent, b
  <2> QED BY <2>5, <2>6
<1> QED BY <1>1, <1>2

\* enqueue() may call send(): the line is as it was with the queue q.
LEMMA Enqueuing ==
  ASSUME StoreOK, NEW known, TasksOK(tasks, inFlight, known), NEW snd, SenderOK(snd, known),
         NEW q \in Seq(Nat), NEW s \in known \cup {NoSession}, Enqueue(snd, q, s)
  PROVE  /\ SenderOK(sender', known) /\ queue' \in Seq(Nat)
         /\ Line(sender', queue') = Line(snd, q) /\ Sent(snd, sender', s)
<1>1. CASE Send(snd, q, s)
  BY <1>1, SendKeeps
<1>2. CASE sender' = snd /\ queue' = q
  BY <1>2 DEF Sent
<1> QED BY <1>1, <1>2 DEF Enqueue

\* drainPendingEdit.
LEMMA Draining ==
  ASSUME NEW st, NEW dr, NEW ad, NEW a, NEW b \in Seq(Nat), queue \in Seq(Nat),
         pending \in Problem \cup {NoProblem},
         Books(b \o queue, recorded, st, dr, ad, a)
  PROVE  /\ Drained \in Seq(Nat) /\ DrainedHistory \in Seq(Problem)
         /\ Books(b \o Drained, DrainedHistory, st, dr, ad, a)
         /\ Len(DrainedHistory) = Len(recorded) + (IF pending # NoProblem THEN 1 ELSE 0)
         /\ \A p : Clean(b \o queue, recorded, st, a, p) /\ pending \in {p, NoProblem}
                     => Clean(b \o Drained, DrainedHistory, st, a, p)
<1>0. recorded \in Seq(Problem) /\ Len(recorded) \in Nat
  BY DEF Books
<1>1. CASE pending = NoProblem
  BY <1>0, <1>1 DEF Drained, DrainedHistory
<1>2. CASE pending # NoProblem
  <2>1. pending \in Problem
    BY <1>2
  <2>2. Drained = Append(queue, Len(recorded) + 1) /\ DrainedHistory = Append(recorded, pending)
    BY <1>2 DEF Drained, DrainedHistory
  <2>3. Drained \in Seq(Nat)
    BY <1>0, <2>2
  <2>4. b \o Drained = Append(b \o queue, Len(recorded) + 1)
    BY <1>0, <2>2, LineAppended
  <2>5. DrainedHistory \in Seq(Problem)
    BY <1>0, <2>1, <2>2
  <2>6. /\ Books(b \o Drained, DrainedHistory, st, dr, ad, a)
        /\ Len(DrainedHistory) = Len(recorded) + 1
        /\ Clean(b \o queue, recorded, st, a, pending)
             => Clean(b \o Drained, DrainedHistory, st, a, pending)
    <3> DEFINE l == b \o queue
               l2 == Append(l, Len(recorded) + 1)
               past2 == Append(recorded, pending)
    <3>1. Books(l, recorded, st, dr, ad, a)
      OBVIOUS
    <3> HIDE DEF l
    <3>2. /\ Books(l2, past2, st, dr, ad, a) /\ Len(past2) = Len(recorded) + 1
          /\ Clean(l, recorded, st, a, pending) => Clean(l2, past2, st, a, pending)
      BY <2>1, <3>1, BooksRecord
    <3> HIDE DEF l2, past2
    <3>3. b \o Drained = l2 /\ DrainedHistory = past2
      BY <2>2, <2>4 DEF l, l2, past2
    <3> QED BY <3>2, <3>3 DEF l
  <2> QED BY <1>2, <2>3, <2>5, <2>6
<1> QED BY <1>1, <1>2

\* recordEvent and what it sends.
LEMMA Noting ==
  ASSUME StoreOK, NEW known, TasksOK(tasks, inFlight, known), NEW snd, SenderOK(snd, known),
         NEW st, NEW dr, NEW ad, NEW a, NEW q \in Seq(Nat), NEW past, NEW P \in Problem,
         Books(Line(snd, q), past, st, dr, ad, a), NEW s \in known \cup {NoSession},
         recorded' = Append(past, P), Enqueue(snd, Append(q, Len(past) + 1), s)
  PROVE  /\ SenderOK(sender', known) /\ queue' \in Seq(Nat) /\ Sent(snd, sender', s)
         /\ Books(Line(sender', queue'), recorded', st, dr, ad, a)
         /\ Len(recorded') = Len(past) + 1
         /\ Clean(Line(snd, q), past, st, a, P)
              => Clean(Line(sender', queue'), recorded', st, a, P)
<1> DEFINE q2 == Append(q, Len(past) + 1)
<1>1. Len(past) \in Nat /\ q2 \in Seq(Nat) /\ snd.batch \in Seq(Nat)
  BY IdleIs DEF Books
<1>2. Line(snd, q2) = Append(Line(snd, q), Len(past) + 1)
  <2> DEFINE b == snd.batch
             n == Len(past) + 1
  <2>1. n \in Nat /\ b \in Seq(Nat)
    BY <1>1
  <2> HIDE DEF b, n
  <2>2. b \o Append(q, n) = Append(b \o q, n)
    BY <2>1, LineAppended
  <2> QED BY <2>2 DEF Line, b, n
<1> HIDE DEF q2
<1>3. /\ SenderOK(sender', known) /\ queue' \in Seq(Nat)
      /\ Line(sender', queue') = Line(snd, q2) /\ Sent(snd, sender', s)
  BY <1>1, Enqueuing DEF q2
<1>4. /\ Books(Line(snd, q2), recorded', st, dr, ad, a)
      /\ Len(recorded') = Len(past) + 1
      /\ Clean(Line(snd, q), past, st, a, P) => Clean(Line(snd, q2), recorded', st, a, P)
  BY <1>2, BooksRecord
<1> QED BY <1>3, <1>4

\* The click x asks the judge.
LEMMA Judging ==
  ASSUME NEW snd, NEW q, NEW past, NEW x \in RunType, NEW whole \in BOOLEAN, NEW s,
         Judge(x, snd, q, past, s, whole)
  PROVE  /\ recorded' = Append(past, x.problem) /\ Enqueue(snd, Append(q, Len(past) + 1), s)
         /\ RunOK(run', sender')
         /\ run'.at = "judge" /\ run'.task = NoTask /\ run'.upto = x.upto /\ run'.whole = whole
<1>1. run' = [x EXCEPT !.at = "judge", !.task = NoTask, !.whole = whole]
  BY DEF Judge
<1>2. /\ run' \in RunType
      /\ run'.at = "judge" /\ run'.task = NoTask /\ run'.upto = x.upto /\ run'.whole = whole
  BY <1>1 DEF RunType, NoTask
<1>3. RunOK(run', sender')
  BY <1>2 DEF RunOK, Waits
<1> QED BY <1>2, <1>3 DEF Judge

\* The click x flushes in the session s.
LEMMA Flushing ==
  ASSUME StoreOK, NEW known, TasksOK(tasks, inFlight, known), NEW snd, SenderOK(snd, known),
         NEW st, NEW dr, NEW ad, NEW a, queue \in Seq(Nat), pending \in Problem \cup {NoProblem},
         NEW x \in RunType, x.problem \in Problem,
         Books(Line(snd, queue), recorded, st, dr, ad, a),
         Len(recorded) + (IF pending # NoProblem THEN 1 ELSE 0) + 1 <= MaxRecorded,
         NEW s \in known, s # NoSession, Flush(x, snd, s)
  PROVE  /\ SenderOK(sender', known) /\ queue' \in Seq(Nat) /\ Sent(snd, sender', s)
         /\ Books(Line(sender', queue'), recorded', st, dr, ad, a)
         /\ \A p : (Clean(Line(snd, queue), recorded, st, a, p)
                     /\ pending \in {p, NoProblem} /\ x.problem = p)
                   => (/\ Clean(Line(sender', queue'), recorded', st, a, p)
                       /\ Waits(run') => run'.problem = p)
         /\ pending' = NoProblem /\ BoundOK(recorded', pending', run')
         /\ RunOK(run', sender') /\ run'.task = NoTask
         /\ FlushOK(run', sender', All(st) \cup dr \cup ad)
<1>1. /\ Drained \in Seq(Nat) /\ DrainedHistory \in Seq(Problem)
      /\ Books(Line(snd, Drained), DrainedHistory, st, dr, ad, a)
      /\ Len(DrainedHistory) = Len(recorded) + (IF pending # NoProblem THEN 1 ELSE 0)
      /\ \A p : Clean(Line(snd, queue), recorded, st, a, p) /\ pending \in {p, NoProblem}
                  => Clean(Line(snd, Drained), DrainedHistory, st, a, p)
  <2>1. snd.batch \in Seq(Nat)
    BY IdleIs
  <2> QED BY <2>1, Draining DEF Line
<1>2. pending' = NoProblem /\ Len(DrainedHistory) \in Nat /\ Len(recorded) \in Nat
      /\ Len(DrainedHistory) + 1 <= MaxRecorded
  BY <1>1 DEF Flush, Books
<1>3. CASE Sends(snd, Drained)
  <2>1. /\ Send(snd, Drained, s) /\ recorded' = DrainedHistory
        /\ run' = [x EXCEPT !.at = "flush", !.task = NoTask, !.upto = Len(DrainedHistory),
                            !.whole = Len(Drained) <= MaxBatch]
    BY <1>3 DEF Flush
  <2>2. /\ SenderOK(sender', known) /\ queue' \in Seq(Nat)
        /\ Line(sender', queue') = Line(snd, Drained) /\ Sent(snd, sender', s)
        /\ sender'.batch = FirstBatch(Drained) /\ sender'.at \in {"session", "post"}
    BY <1>1, <1>3, <2>1, SendKeeps
  <2>3. sender'.at = "post"
    BY <1>3, <2>2 DEF Sent, Sends
  <2>4. /\ run' \in RunType /\ run'.at = "flush" /\ run'.task = NoTask
        /\ run'.upto = Len(DrainedHistory) /\ run'.problem = x.problem
        /\ run'.whole <=> Len(Drained) <= MaxBatch
    <3> DEFINE n == Len(DrainedHistory)
               w == Len(Drained) <= MaxBatch
    <3>1. n \in Nat /\ w \in BOOLEAN
      BY <1>2
    <3>2. run' = [x EXCEPT !.at = "flush", !.task = NoTask, !.upto = n, !.whole = w]
      BY <2>1
    <3> HIDE DEF n, w
    <3>3. /\ run' \in RunType /\ run'.at = "flush" /\ run'.task = NoTask
          /\ run'.upto = n /\ run'.problem = x.problem
      BY <3>1, <3>2 DEF RunType, NoTask
    <3>4. run'.whole = w
      BY <3>2, Zenon DEF RunType
    <3> QED BY <3>3, <3>4 DEF n, w
  <2>5. RunOK(run', sender')
    BY <2>3, <2>4 DEF RunOK, Waits, NoTask
  <2>6. BoundOK(recorded', pending', run')
    BY <1>1, <1>2, <2>1, <2>4 DEF BoundOK, Waits
  <2>7. FlushOK(run', sender', All(st) \cup dr \cup ad)
    <3>1. ASSUME run'.whole
          PROVE  1..run'.upto \subseteq (All(st) \cup dr \cup ad) \cup Ids(sender'.batch)
      <4>1. sender'.batch = Drained
        BY <1>1, <2>2, <2>4, <3>1, SplitOff
      <4>2. Line(snd, Drained) = Drained
        <5>1. snd.batch = <<>>
          BY <1>3, IdleIs DEF Sends
        <5> QED BY <1>1, <5>1, ConcatEmptySeq DEF Line
      <4>3. DOMAIN DrainedHistory = 1..run'.upto
        BY <1>1, <2>4
      <4> QED BY <1>1, <4>1, <4>2, <4>3 DEF Books, EventsOK
    <3> QED BY <2>4, <3>1 DEF FlushOK
  <2>8. Books(Line(sender', queue'), recorded', st, dr, ad, a)
    BY <1>1, <2>1, <2>2
  <2>9. ASSUME NEW p, Clean(Line(snd, queue), recorded, st, a, p),
               pending \in {p, NoProblem}, x.problem = p
        PROVE  /\ Clean(Line(sender', queue'), recorded', st, a, p)
               /\ Waits(run') => run'.problem = p
    BY <1>1, <2>1, <2>2, <2>4, <2>9
  <2> QED BY <1>2, <2>2, <2>4, <2>5, <2>6, <2>7, <2>8, <2>9
<1>4. CASE ~Sends(snd, Drained)
  <2>1. Judge(x, snd, Drained, DrainedHistory, s, FALSE)
    BY <1>4 DEF Flush
  <2>2. /\ SenderOK(sender', known) /\ queue' \in Seq(Nat) /\ Sent(snd, sender', s)
        /\ Books(Line(sender', queue'), recorded', st, dr, ad, a)
        /\ Len(recorded') = Len(DrainedHistory) + 1
        /\ Clean(Line(snd, Drained), DrainedHistory, st, a, x.problem)
              => Clean(Line(sender', queue'), recorded', st, a, x.problem)
        /\ RunOK(run', sender')
        /\ run'.at = "judge" /\ run'.task = NoTask /\ run'.whole = FALSE
    <3> DEFINE w == FALSE
    <3>1. w \in BOOLEAN /\ Judge(x, snd, Drained, DrainedHistory, s, w) /\ s \in known \cup {NoSession}
      BY <2>1
    <3> HIDE DEF w
    <3>2. /\ recorded' = Append(DrainedHistory, x.problem)
          /\ Enqueue(snd, Append(Drained, Len(DrainedHistory) + 1), s)
          /\ RunOK(run', sender')
          /\ run'.at = "judge" /\ run'.task = NoTask /\ run'.whole = w
      BY <3>1, Judging
    <3>3. /\ SenderOK(sender', known) /\ queue' \in Seq(Nat) /\ Sent(snd, sender', s)
          /\ Books(Line(sender', queue'), recorded', st, dr, ad, a)
          /\ Len(recorded') = Len(DrainedHistory) + 1
          /\ Clean(Line(snd, Drained), DrainedHistory, st, a, x.problem)
                => Clean(Line(sender', queue'), recorded', st, a, x.problem)
      BY <1>1, <3>1, <3>2, Noting
    <3> QED BY <3>2, <3>3 DEF w
  <2>3. BoundOK(recorded', pending', run')
    BY <1>2, <2>2 DEF BoundOK, Waits, Books
  <2>4. FlushOK(run', sender', All(st) \cup dr \cup ad)
    BY <2>2 DEF FlushOK
  <2>5. ASSUME NEW p, Clean(Line(snd, queue), recorded, st, a, p),
               pending \in {p, NoProblem}, x.problem = p
        PROVE  /\ Clean(Line(sender', queue'), recorded', st, a, p)
               /\ Waits(run') => run'.problem = p
    BY <1>1, <2>2, <2>5 DEF Waits
  <2> QED BY <1>2, <2>2, <2>3, <2>4, <2>5
<1> QED BY <1>3, <1>4

\* send() is over, with the queue q; the events the flush waited for are settled if it
\* says so.
LEMMA Finishing ==
  ASSUME StoreOK, NEW known, TasksOK(tasks, inFlight, known), sid \in known \cup {NoSession},
         NEW st, NEW dr, NEW ad, NEW a, NEW q \in Seq(Nat), NEW whole \in BOOLEAN,
         RunOK(run, sender), BoundOK(recorded, pending, run), sender.at # "idle",
         Books(q, recorded, st, dr, ad, a),
         whole /\ run.at = "flush" => 1..run.upto \subseteq All(st) \cup dr \cup ad,
         run.whole /\ run.at = "judge" => 1..run.upto \subseteq All(st) \cup dr \cup ad,
         Finish(q, whole), pending' = pending
  PROVE  /\ SenderOK(sender', known) /\ queue' \in Seq(Nat) /\ Sent(Idle, sender', sid)
         /\ Books(Line(sender', queue'), recorded', st, dr, ad, a)
         /\ \A p : (Clean(q, recorded, st, a, p) /\ (Waits(run) => run.problem = p))
                   => (/\ Clean(Line(sender', queue'), recorded', st, a, p)
                       /\ Waits(run') => run'.problem = p)
         /\ BoundOK(recorded', pending', run')
         /\ RunOK(run', sender') /\ run'.task = run.task
         /\ FlushOK(run', sender', All(st) \cup dr \cup ad)
<1>1. SenderOK(Idle, known) /\ Line(Idle, q) = q
  BY IdleOK, ConcatEmptySeq DEF Line, Idle
<1>2. CASE run.at = "flush"
  <2>1. Judge(run, Idle, q, recorded, sid, whole)
    BY <1>2 DEF Finish
  <2>2. run \in RunType /\ run.problem \in Problem /\ run.task = NoTask
    BY <1>2 DEF RunOK, Waits
  <2>3. /\ SenderOK(sender', known) /\ queue' \in Seq(Nat) /\ Sent(Idle, sender', sid)
        /\ Books(Line(sender', queue'), recorded', st, dr, ad, a)
        /\ Len(recorded') = Len(recorded) + 1
        /\ Clean(q, recorded, st, a, run.problem)
              => Clean(Line(sender', queue'), recorded', st, a, run.problem)
        /\ RunOK(run', sender')
        /\ run'.at = "judge" /\ run'.task = NoTask /\ run'.upto = run.upto /\ run'.whole = whole
    <3>1. Books(Line(Idle, q), recorded, st, dr, ad, a)
      BY <1>1
    <3>2. /\ recorded' = Append(recorded, run.problem)
          /\ Enqueue(Idle, Append(q, Len(recorded) + 1), sid)
          /\ RunOK(run', sender')
          /\ run'.at = "judge" /\ run'.task = NoTask /\ run'.upto = run.upto /\ run'.whole = whole
      BY <2>1, <2>2, Judging
    <3>3. /\ SenderOK(sender', known) /\ queue' \in Seq(Nat) /\ Sent(Idle, sender', sid)
          /\ Books(Line(sender', queue'), recorded', st, dr, ad, a)
          /\ Len(recorded') = Len(recorded) + 1
          /\ Clean(Line(Idle, q), recorded, st, a, run.problem)
              => Clean(Line(sender', queue'), recorded', st, a, run.problem)
      BY <1>1, <2>2, <3>1, <3>2, Noting
    <3> QED BY <1>1, <3>2, <3>3
  <2>4. BoundOK(recorded', pending', run')
    <3>1. Len(recorded) \in Nat /\ recorded' \in Seq(Problem)
      BY <2>3 DEF Books
    <3> QED BY <1>2, <2>3, <3>1 DEF BoundOK, Waits
  <2>5. FlushOK(run', sender', All(st) \cup dr \cup ad)
    BY <1>2, <2>3 DEF FlushOK
  <2>6. ASSUME NEW p, Clean(q, recorded, st, a, p), Waits(run) => run.problem = p
        PROVE  /\ Clean(Line(sender', queue'), recorded', st, a, p)
               /\ Waits(run') => run'.problem = p
    BY <1>2, <2>3, <2>6 DEF Waits
  <2> QED BY <2>2, <2>3, <2>4, <2>5, <2>6
<1>3. CASE run.at # "flush"
  <2>1. sender' = Idle /\ queue' = q /\ recorded' = recorded /\ run' = run
    BY <1>3 DEF Finish
  <2>2. RunOK(run', sender')
    BY <1>3, <2>1 DEF RunOK
  <2>3. FlushOK(run', sender', All(st) \cup dr \cup ad)
    BY <1>3, <2>1 DEF FlushOK
  <2> QED BY <1>1, <2>1, <2>2, <2>3 DEF Sent
<1> QED BY <1>2, <1>3

\* ensureSession, when a send that begins needs it: the waiters of the tasks stay.
LEMMA Ensured ==
  ASSUME problem \in Problem, NEW known, TasksOK(tasks, inFlight, known),
         NEW rs, NEW s, SessionsOK(known, saved, rs, s), EnsureSession
  PROVE  /\ TasksOK(tasks', inFlight', known)
         /\ \A snd2, r2 :
              (OneTask(tasks, inFlight, sender, run, saved, problem)
                /\ Awaited \in {snd2.task, r2.task})
              => OneTask(tasks', inFlight', snd2, r2, saved, problem)
<1>1. Awaited \in Nat \ {0} /\ NewTask \in Nat \ {0}
  BY NewTaskIs
<1>2. inFlight' = Awaited
  BY DEF EnsureSession
<1>3. CASE \E t \in tasks : t.n = Awaited
  <2>1. tasks' = tasks
    BY <1>3 DEF EnsureSession
  <2>2. TasksOK(tasks', inFlight', known)
    BY <1>2, <1>3, <2>1 DEF TasksOK
  <2>3. ASSUME NEW snd2, NEW r2, OneTask(tasks, inFlight, sender, run, saved, problem),
               Awaited \in {snd2.task, r2.task}
        PROVE  OneTask(tasks', inFlight', snd2, r2, saved, problem)
    BY <1>2, <1>3, <2>1, <2>3 DEF OneTask
  <2> QED BY <2>2, <2>3
<1>4. CASE ~\E t \in tasks : t.n = Awaited
  <2> DEFINE t == [n |-> Awaited, problem |-> problem, saved |-> saved[problem],
                   at |-> IF saved[problem] = NoSession THEN "create" ELSE "get"]
  <2>1. tasks' = tasks \cup {t}
    BY <1>4 DEF EnsureSession
  <2>2. saved[problem] \in known \cup {NoSession}
        /\ (saved[problem] # NoSession => saved[problem].problem = problem)
    BY DEF SessionsOK
  <2>3. /\ t.n = Awaited /\ t.problem = problem /\ t.saved = saved[problem]
        /\ t.at = "create" <=> saved[problem] = NoSession
        /\ t \in TaskType(known)
    BY <1>1, <2>2 DEF TaskType
  <2> HIDE DEF t
  <2>4. TasksOK(tasks', inFlight', known)
    <3>1. IsFiniteSet(tasks')
      BY <2>1, FS_AddElement DEF TasksOK
    <3>2. \A u \in tasks' : u.at = "get" => u.saved \in known /\ u.saved.problem = u.problem
      BY <2>1, <2>2, <2>3 DEF TasksOK, TaskType
    <3>3. tasks' \subseteq TaskType(known) /\ inFlight' \in {u.n : u \in tasks'}
      BY <1>2, <2>1, <2>3 DEF TasksOK
    <3> QED BY <3>1, <3>2, <3>3 DEF TasksOK
  <2>5. ASSUME NEW snd2, NEW r2, OneTask(tasks, inFlight, sender, run, saved, problem),
               Awaited \in {snd2.task, r2.task}
        PROVE  OneTask(tasks', inFlight', snd2, r2, saved, problem)
    <3>1. tasks = {}
      <4>1. \A u \in tasks : u.n = inFlight /\ u.n # 0
        BY <2>5 DEF OneTask, TasksOK, TaskType
      <4>2. \A u \in tasks : inFlight = Awaited
        BY <4>1 DEF Awaited, NoTask
      <4> QED BY <1>4, <4>1, <4>2
    <3>2. tasks' = {t}
      BY <2>1, <3>1
    <3> QED BY <1>2, <2>3, <2>5, <3>2 DEF OneTask
  <2> QED BY <2>4, <2>5
<1> QED BY <1>3, <1>4

\* ensureSession, if the step began a send: whoever waited for a task still does.
LEMMA EnsuredIfSent ==
  ASSUME problem \in Problem, NEW known, TasksOK(tasks, inFlight, known), SenderOK(sender, known),
         NEW rs, NEW s, SessionsOK(known, saved, rs, s), EnsureIfSent,
         NEW snd, NEW s2, Sent(snd, sender', s2), snd.at = "idle" \/ snd = sender,
         sender.at # "session" \/ snd = sender
  PROVE  /\ TasksOK(tasks', inFlight', known)
         /\ \A r2 : (OneTask(tasks, inFlight, sender, run, saved, problem) /\ r2.task = run.task)
                    => OneTask(tasks', inFlight', sender', r2, saved, problem)
<1>1. CASE sender'.at = "session" /\ sender.at # "session"
  <2>1. EnsureSession
    BY <1>1 DEF EnsureIfSent
  <2>2. sender'.task = Awaited
    BY <1>1 DEF Sent, Idle
  <2> QED BY <2>1, <2>2, Ensured
<1>2. CASE ~(sender'.at = "session" /\ sender.at # "session")
  <2>1. tasks' = tasks /\ inFlight' = inFlight
    BY <1>2 DEF EnsureIfSent
  <2>2. sender.task # NoTask => sender' = sender
    BY DEF SenderOK, Sent, Idle
  <2>3. ASSUME NEW r2, OneTask(tasks, inFlight, sender, run, saved, problem), r2.task = run.task
        PROVE  OneTask(tasks', inFlight', sender', r2, saved, problem)
    <3>1. \A t \in tasks : t.n # NoTask
      BY DEF TasksOK, TaskType, NoTask
    <3> QED BY <2>1, <2>2, <2>3, <3>1 DEF OneTask
  <2> QED BY <2>1, <2>3
<1> QED BY <1>1, <1>2

-----------------------------------------------------------------------------
(* The steps keep the invariant                                            *)

\* Every session has a sequence of events, an orphan an empty one.
LEMMA StoreIs ==
  ASSUME IInv PROVE StoreOK
<1> SUFFICES ASSUME NEW s \in DOMAIN store PROVE store[s] \in Seq(Nat)
  BY DEF StoreOK
<1>1. CASE s \in orphans
  <2>1. store[s] = <<>>
    BY <1>1 DEF IInv, OrphansOK
  <2> QED BY <2>1
<1>2. CASE s \notin orphans
  <2>1. s \in DOMAIN Claimed /\ Claimed[s] = store[s] /\ recorded \in Seq(Problem)
    BY <1>2 DEF Claimed, IInv, BoundOK
  <2>2. store[s] \in Seq(DOMAIN recorded)
    BY <2>1 DEF IInv, Books, EventsOK
  <2>3. DOMAIN recorded \subseteq Nat
    BY <2>1
  <2> QED BY <2>2, <2>3
<1> QED BY <1>1, <1>2

\* A step that leaves the server alone leaves what is known of it.
LEMMA ServerSame ==
  ASSUME IInv, UNCHANGED <<store, unclaimed, orphans, dropped, rolledBack>>
  PROVE  /\ Claimed' = Claimed /\ Out' = Out /\ OrphansOK'
         /\ adrift \subseteq adrift' => RollbacksOK'
<1>1. Claimed' = Claimed /\ Out' = Out
  BY DEF Claimed, Out
<1>2. OrphansOK'
  BY DEF IInv, OrphansOK
<1>3. adrift \subseteq adrift' => RollbacksOK'
  BY DEF IInv, RollbacksOK
<1> QED BY <1>1, <1>2, <1>3

\* What send() leaves alone: the flush that waits and where things go.
LEMMA Staying ==
  ASSUME NEW snd, NEW snd2, NEW r, NEW gone, NEW s, Sent(snd, snd2, s),
         RunOK(r, snd), FlushOK(r, snd, gone)
  PROVE  /\ RunOK(r, snd2) /\ FlushOK(r, snd2, gone)
         /\ \A pend, pend2, p : (WorkApart(pend, snd, r, s, p) /\ pend2 \in {p, NoProblem})
                                => WorkApart(pend2, snd2, r, s, p)
<1>1. r.at = "flush" => snd2 = snd
  BY DEF Sent, RunOK
<1>2. RunOK(r, snd2) /\ FlushOK(r, snd2, gone)
  BY <1>1 DEF RunOK, FlushOK
<1>3. ASSUME NEW pend, NEW pend2, NEW p, WorkApart(pend, snd, r, s, p), pend2 \in {p, NoProblem}
      PROVE  WorkApart(pend2, snd2, r, s, p)
  BY <1>3 DEF WorkApart, Sent
<1> QED BY <1>2, <1>3

\* What Room says of the bound, in the terms of BoundOK.
LEMMA RoomIs ==
  ASSUME Room, recorded \in Seq(Problem)
  PROVE  /\ Len(recorded) \in Nat /\ MaxRecorded \in Nat
         /\ Len(recorded) + (IF pending # NoProblem THEN 1 ELSE 0)
              + (IF Waits(run) THEN 1 ELSE 0) + 1 <= MaxRecorded
<1> DEFINE a == IF pending # NoProblem THEN 1 ELSE 0
           b == IF Waits(run) THEN 1 ELSE 0
<1>1. Len(recorded) \in Nat /\ MaxRecorded \in Nat /\ a \in Nat /\ b \in Nat
  BY BoundAssumption
<1>2. Len(recorded) + a + b < MaxRecorded
  BY DEF Room, Waits
<1> HIDE DEF a, b
<1>3. Len(recorded) + a + b + 1 <= MaxRecorded
  BY <1>1, <1>2
<1> QED BY <1>1, <1>3 DEF a, b

\* recordEdit keeps the invariant: it only restarts the timer.
LEMMA EditStep ==
  ASSUME IInv, Edit PROVE IInv'
<1>s. Claimed' = Claimed /\ Out' = Out /\ OrphansOK' /\ RollbacksOK' /\ StoreOK
  BY ServerSame, StoreIs DEF Edit, network, history, given
<1> USE <1>s
<1>1. BoundOK(recorded', pending', run')
  <2>1. recorded \in Seq(Problem) /\ recorded' = recorded /\ run' = run /\ pending' \in Problem
    BY DEF IInv, Edit, BoundOK, history
  <2> DEFINE b == IF Waits(run) THEN 1 ELSE 0
  <2>2. Len(recorded) \in Nat /\ MaxRecorded \in Nat /\ b \in Nat
        /\ Len(recorded) + (IF pending # NoProblem THEN 1 ELSE 0) + b + 1 <= MaxRecorded
    BY <2>1, RoomIs DEF Edit
  <2> HIDE DEF b
  <2>3. Len(recorded) + (IF pending' # NoProblem THEN 1 ELSE 0) + b <= MaxRecorded
    BY <2>2
  <2> QED BY <2>1, <2>3 DEF BoundOK, b
<1>2. ~crossed' => Together'
  BY DEF IInv, Edit, Together, WorkApart, history, network, budget
<1> QED BY <1>1, <1>2 DEF IInv, Edit, history, network, budget, Gone

\* The judge's answer keeps the invariant.
LEMMA JudgeAnswersStep ==
  ASSUME IInv, JudgeAnswers PROVE IInv'
<1>s. Claimed' = Claimed /\ Out' = Out /\ OrphansOK' /\ RollbacksOK' /\ StoreOK
  BY ServerSame, StoreIs DEF JudgeAnswers, network, history, given
<1> USE <1>s
<1>0. NoRun \in RunType /\ NoRun.at = "idle" /\ NoRun.task = NoTask
  BY DEF NoRun, RunType, NoTask
<1>1. BoundOK(recorded', pending', run')
  BY <1>0 DEF IInv, JudgeAnswers, BoundOK, Waits, history
<1>2. RunOK(run', sender') /\ FlushOK(run', sender', Gone')
  BY <1>0 DEF IInv, JudgeAnswers, RunOK, FlushOK, Waits
<1>3. ~crossed' => Together'
  <2> SUFFICES ASSUME ~crossed, Together PROVE Together'
    BY DEF IInv, JudgeAnswers, history
  <2>1. WorkApart(pending', sender', run', sid', problem')
    BY <1>0 DEF JudgeAnswers, Together, WorkApart, Waits
  <2>2. OneTask(tasks', inFlight', sender', run', saved', problem')
    <3>1. run.task = run'.task
      BY <1>0 DEF IInv, RunOK, JudgeAnswers
    <3> QED BY <3>1 DEF JudgeAnswers, Together, OneTask, network
  <2> QED BY <2>1, <2>2 DEF JudgeAnswers, Together, network, history, budget
<1> QED BY <1>1, <1>2, <1>3 DEF IInv, JudgeAnswers, history, network, budget

\* The debounce timer keeps the invariant: the edit goes to the end of the line.
LEMMA DebounceStep ==
  ASSUME IInv, Debounce PROVE IInv'
<1>s. Claimed' = Claimed /\ Out' = Out /\ OrphansOK' /\ RollbacksOK' /\ StoreOK
  BY ServerSame, StoreIs DEF Debounce, network, history, given
<1> USE <1>s
<1>1. /\ sender.batch \in Seq(Nat)
      /\ pending \in Problem \cup {NoProblem}
      /\ sid \in DOMAIN Claimed \cup {NoSession}
      /\ Books(sender.batch \o queue, recorded, Claimed, Out, adrift, air)
  BY IdleIs DEF IInv, BoundOK, SessionsOK, Line
<1>2. /\ Drained \in Seq(Nat) /\ DrainedHistory \in Seq(Problem)
      /\ Books(Line(sender, Drained), DrainedHistory, Claimed, Out, adrift, air)
      /\ Len(DrainedHistory) = Len(recorded) + (IF pending # NoProblem THEN 1 ELSE 0)
      /\ \A p : (Clean(Line(sender, queue), recorded, Claimed, air, p) /\ pending \in {p, NoProblem})
                     => Clean(Line(sender, Drained), DrainedHistory, Claimed, air, p)
  BY <1>1, Draining DEF IInv, Line
<1>3. /\ SenderOK(sender', DOMAIN Claimed) /\ queue' \in Seq(Nat)
      /\ Line(sender', queue') = Line(sender, Drained) /\ Sent(sender, sender', sid)
  BY <1>1, <1>2, Enqueuing DEF IInv, Debounce
<1>4. /\ RunOK(run, sender') /\ FlushOK(run, sender', Gone)
      /\ \A pend, pend2, p : (WorkApart(pend, sender, run, sid, p) /\ pend2 \in {p, NoProblem})
                                => WorkApart(pend2, sender', run, sid, p)
  BY <1>3, Staying DEF IInv
<1>5. /\ TasksOK(tasks', inFlight', DOMAIN Claimed)
      /\ \A r2 : (OneTask(tasks, inFlight, sender, run, saved, problem) /\ r2.task = run.task)
                    => OneTask(tasks', inFlight', sender', r2, saved, problem)
  BY <1>3, EnsuredIfSent DEF IInv, Debounce
<1>6. BoundOK(recorded', pending', run')
  BY <1>2 DEF IInv, Debounce, BoundOK
<1>7. ~crossed' => Together'
  BY <1>2, <1>3, <1>4, <1>5 DEF IInv, Debounce, Together, WorkApart, network, budget
<1> QED BY <1>2, <1>3, <1>4, <1>5, <1>6, <1>7 DEF IInv, Debounce, network, given, budget, Gone

\* recordEvent keeps the invariant: the event goes to the end of the line.
LEMMA RecordEventStep ==
  ASSUME IInv, RecordEvent PROVE IInv'
<1>s. Claimed' = Claimed /\ Out' = Out /\ OrphansOK' /\ RollbacksOK' /\ StoreOK
  BY ServerSame, StoreIs DEF RecordEvent, network, history, given
<1> USE <1>s
<1>1. sid \in DOMAIN Claimed \cup {NoSession}
  BY DEF IInv, SessionsOK
<1>2. /\ SenderOK(sender', DOMAIN Claimed) /\ queue' \in Seq(Nat) /\ Sent(sender, sender', sid)
      /\ Books(Line(sender', queue'), recorded', Claimed, Out, adrift, air)
      /\ Len(recorded') = Len(recorded) + 1
      /\ Clean(Line(sender, queue), recorded, Claimed, air, problem)
              => Clean(Line(sender', queue'), recorded', Claimed, air, problem)
  BY <1>1, Noting DEF IInv, RecordEvent
<1>4. /\ RunOK(run, sender') /\ FlushOK(run, sender', Gone)
      /\ \A pend, pend2, p : (WorkApart(pend, sender, run, sid, p) /\ pend2 \in {p, NoProblem})
                                => WorkApart(pend2, sender', run, sid, p)
  BY <1>2, Staying DEF IInv
<1>5. /\ TasksOK(tasks', inFlight', DOMAIN Claimed)
      /\ \A r2 : (OneTask(tasks, inFlight, sender, run, saved, problem) /\ r2.task = run.task)
                    => OneTask(tasks', inFlight', sender', r2, saved, problem)
  BY <1>2, EnsuredIfSent DEF IInv, RecordEvent
<1>6. BoundOK(recorded', pending', run')
  <2>1. recorded' \in Seq(Problem) /\ Len(recorded) \in Nat
    BY <1>2 DEF Books, IInv
  <2>2. recorded \in Seq(Problem) /\ run' = run /\ pending' = pending
        /\ pending \in Problem \cup {NoProblem}
    BY DEF IInv, RecordEvent, BoundOK
  <2> DEFINE a == IF pending # NoProblem THEN 1 ELSE 0
             b == IF Waits(run) THEN 1 ELSE 0
  <2>3. a \in Nat /\ b \in Nat /\ MaxRecorded \in Nat /\ Len(recorded) + a + b + 1 <= MaxRecorded
    BY <2>2, RoomIs DEF RecordEvent
  <2> HIDE DEF a, b
  <2>4. Len(recorded') + a + b <= MaxRecorded
    BY <1>2, <2>1, <2>3
  <2> QED BY <2>1, <2>2, <2>4 DEF BoundOK, a, b
<1>7. ~crossed' => Together'
  BY <1>2, <1>4, <1>5 DEF IInv, RecordEvent, Together, WorkApart, network, budget
<1> QED BY <1>2, <1>4, <1>5, <1>6, <1>7 DEF IInv, RecordEvent, network, given, budget, Gone

\* The periodic flush keeps the invariant: the line stays as it is.
LEMMA IntervalStep ==
  ASSUME IInv, Interval PROVE IInv'
<1>s. Claimed' = Claimed /\ Out' = Out /\ OrphansOK' /\ RollbacksOK' /\ StoreOK
  BY ServerSame, StoreIs DEF Interval, network, history, given
<1> USE <1>s
<1>1. sid \in DOMAIN Claimed \cup {NoSession}
  BY DEF IInv, SessionsOK
<1>2. /\ SenderOK(sender', DOMAIN Claimed) /\ queue' \in Seq(Nat)
      /\ Line(sender', queue') = Line(sender, queue) /\ Sent(sender, sender', sid)
  BY <1>1, SendKeeps DEF IInv, Interval
<1>4. /\ RunOK(run, sender') /\ FlushOK(run, sender', Gone)
      /\ \A pend, pend2, p : (WorkApart(pend, sender, run, sid, p) /\ pend2 \in {p, NoProblem})
                                => WorkApart(pend2, sender', run, sid, p)
  BY <1>2, Staying DEF IInv
<1>5. /\ TasksOK(tasks', inFlight', DOMAIN Claimed)
      /\ \A r2 : (OneTask(tasks, inFlight, sender, run, saved, problem) /\ r2.task = run.task)
                    => OneTask(tasks', inFlight', sender', r2, saved, problem)
  BY <1>2, EnsuredIfSent DEF IInv, Interval
<1>7. ~crossed' => Together'
  BY <1>2, <1>4, <1>5 DEF IInv, Interval, Together, WorkApart, network, budget, history
<1> QED BY <1>2, <1>4, <1>5, <1>7 DEF IInv, Interval, network, budget, history, Gone

\* A flush that gives up waiting keeps the invariant: it does not claim to be whole.
LEMMA FlushTimeoutStep ==
  ASSUME IInv, FlushTimeout PROVE IInv'
<1>s. Claimed' = Claimed /\ Out' = Out /\ OrphansOK' /\ RollbacksOK' /\ StoreOK
  BY ServerSame, StoreIs DEF FlushTimeout, network, history, given
<1> USE <1>s
<1>1. sid \in DOMAIN Claimed \cup {NoSession} /\ run \in RunType /\ run.problem \in Problem
      /\ run.task = NoTask /\ Len(recorded) \in Nat
  BY DEF IInv, SessionsOK, RunOK, Waits, FlushTimeout, Books
<1>2. /\ recorded' = Append(recorded, run.problem)
      /\ Enqueue(sender, Append(queue, Len(recorded) + 1), sid)
      /\ RunOK(run', sender')
      /\ run'.at = "judge" /\ run'.task = NoTask /\ ~run'.whole
  <2> DEFINE w == FALSE
  <2>1. Judge(run, sender, queue, recorded, sid, w) /\ w \in BOOLEAN
    BY DEF FlushTimeout
  <2> HIDE DEF w
  <2>2. /\ recorded' = Append(recorded, run.problem)
        /\ Enqueue(sender, Append(queue, Len(recorded) + 1), sid)
        /\ RunOK(run', sender')
        /\ run'.at = "judge" /\ run'.task = NoTask /\ run'.whole = w
    BY <1>1, <2>1, Judging
  <2> QED BY <2>2 DEF w
<1>3. /\ SenderOK(sender', DOMAIN Claimed) /\ queue' \in Seq(Nat) /\ Sent(sender, sender', sid)
      /\ Books(Line(sender', queue'), recorded', Claimed, Out, adrift, air)
      /\ Len(recorded') = Len(recorded) + 1
      /\ Clean(Line(sender, queue), recorded, Claimed, air, run.problem)
              => Clean(Line(sender', queue'), recorded', Claimed, air, run.problem)
  BY <1>1, <1>2, Noting DEF IInv
<1>4. FlushOK(run', sender', Gone)
  BY <1>2 DEF FlushOK
<1>5. /\ TasksOK(tasks', inFlight', DOMAIN Claimed)
      /\ \A r2 : (OneTask(tasks, inFlight, sender, run, saved, problem) /\ r2.task = run.task)
                    => OneTask(tasks', inFlight', sender', r2, saved, problem)
  BY <1>3, EnsuredIfSent DEF IInv, FlushTimeout
<1>6. BoundOK(recorded', pending', run')
  <2>1. recorded' \in Seq(Problem)
    BY <1>3 DEF Books
  <2> QED BY <1>1, <1>2, <1>3, <2>1 DEF IInv, FlushTimeout, BoundOK, Waits
<1>7. ~crossed' => Together'
  <2> SUFFICES ASSUME ~crossed, Together PROVE Together'
    BY DEF IInv, FlushTimeout
  <2>1. run.problem = problem
    BY DEF Together, WorkApart, FlushTimeout, Waits
  <2>2. WorkApart(pending', sender', run', sid', problem')
    BY <1>2, <1>3 DEF FlushTimeout, Together, WorkApart, Waits, Sent
  <2> QED BY <1>1, <1>2, <1>3, <1>5, <2>1, <2>2 DEF Together, FlushTimeout, network, budget
<1> QED BY <1>2, <1>3, <1>4, <1>5, <1>6, <1>7 DEF IInv, FlushTimeout, network, given, budget, Gone

\* A retry keeps the invariant: the same batch is posted again.
LEMMA RetryStep ==
  ASSUME IInv, Retry PROVE IInv'
<1>s. Claimed' = Claimed /\ Out' = Out /\ OrphansOK' /\ RollbacksOK' /\ StoreOK
  BY ServerSame, StoreIs DEF Retry, network, history, given
<1> USE <1>s
<1>0. Has(sender.to) \in Nat
  BY HasIs
<1>1. /\ sender' = [sender EXCEPT !.at = "post", !.since = Has(sender.to)] /\ sender.at = "wait"
      /\ sender \in SenderType(DOMAIN Claimed \cup {NoSession})
  BY DEF Retry, IInv, SenderOK
<1>2. /\ sender'.at = "post" /\ sender'.batch = sender.batch /\ sender'.to = sender.to
      /\ sender'.task = sender.task /\ sender' \in SenderType(DOMAIN Claimed \cup {NoSession})
  BY <1>0, <1>1 DEF SenderType
<1>3. SenderOK(sender', DOMAIN Claimed)
  BY <1>1, <1>2 DEF IInv, SenderOK
<1>4. RunOK(run, sender') /\ FlushOK(run, sender', Gone)
  BY <1>2 DEF IInv, RunOK, FlushOK
<1>5. ~crossed' => Together'
  BY <1>1, <1>2 DEF IInv, Retry, Together, WorkApart, OneTask, Line, network, history, budget
<1> QED BY <1>2, <1>3, <1>4, <1>5 DEF IInv, Retry, Line, Gone, network, history, budget

\* A request that is lost keeps the invariant: its events are adrift already.
LEMMA LoseStep ==
  ASSUME IInv, NEW x \in air, Lose(x) PROVE IInv'
<1>s. Claimed' = Claimed /\ Out' = Out /\ OrphansOK' /\ RollbacksOK' /\ StoreOK
  BY ServerSame, StoreIs DEF Lose, network, history, given
<1> USE <1>s
<1>1. /\ Books(Line(sender, queue), recorded, Claimed, Out, adrift, air')
      /\ \A p : Clean(Line(sender, queue), recorded, Claimed, air, p)
                  => Clean(Line(sender, queue), recorded, Claimed, air', p)
  <2>1. air' \subseteq air
    BY DEF Lose
  <2> QED BY <2>1, BooksLose DEF IInv
<1>2. ~crossed' => Together'
  BY <1>1 DEF IInv, Lose, Together, page, history, budget
<1> QED BY <1>1, <1>2 DEF IInv, Lose, page, history, budget, Gone

\* A batch is stored in a session somebody knows.
LEMMA Storing ==
  ASSUME IInv, NEW s \in DOMAIN Claimed, NEW batch, store' = Arrived(s, batch),
         UNCHANGED <<unclaimed, orphans>>
  PROVE  /\ DOMAIN Claimed' = DOMAIN Claimed
         /\ Claimed'[s] = Claimed[s] \o Fresh(batch, Ids(Claimed[s]))
         /\ \A x \in DOMAIN Claimed \ {s} : Claimed'[x] = Claimed[x]
         /\ OrphansOK'
<1>1. /\ DOMAIN Claimed = DOMAIN store \ orphans /\ DOMAIN Claimed' = DOMAIN store' \ orphans
      /\ \A x \in DOMAIN Claimed : Claimed[x] = store[x]
      /\ \A x \in DOMAIN Claimed' : Claimed'[x] = store'[x]
  BY DEF Claimed
<1>2. /\ DOMAIN store' = DOMAIN store
      /\ store'[s] = store[s] \o Fresh(batch, Ids(store[s]))
      /\ \A x \in DOMAIN store \ {s} : store'[x] = store[x]
  BY <1>1 DEF Arrived
<1>3. OrphansOK'
  BY <1>1, <1>2 DEF IInv, OrphansOK
<1> QED BY <1>1, <1>2, <1>3

\* A request that arrives late keeps the invariant: its events are adrift already.
LEMMA DeliverStep ==
  ASSUME IInv, NEW x \in air, Deliver(x) PROVE IInv'
<1> DEFINE l == Line(sender, queue)
<1>1. /\ x.to \in DOMAIN Claimed /\ x.batch \in Seq(DOMAIN recorded) /\ Ascending(x.batch)
      /\ Ids(x.batch) \subseteq adrift
  BY DEF IInv, Books
<1>2. /\ DOMAIN Claimed' = DOMAIN Claimed
      /\ Claimed'[x.to] = Claimed[x.to] \o Fresh(x.batch, Ids(Claimed[x.to]))
      /\ \A s \in DOMAIN Claimed \ {x.to} : Claimed'[s] = Claimed[s]
      /\ OrphansOK'
  BY <1>1, Storing DEF Deliver, history
<1>9. RollbacksOK' /\ Out' = Out
  BY DEF IInv, RollbacksOK, Deliver, history, Out
<1>3. l \in Seq(DOMAIN recorded) /\ Ascending(l)
  BY DEF IInv, Books, EventsOK
<1> HIDE DEF l
<1>4. Arrives(l, recorded, Claimed, adrift, x.to, x.batch, l, Claimed')
  BY <1>1, <1>2, <1>3 DEF Arrives
<1>5. /\ Books(l, recorded, Claimed', Out, adrift, air)
      /\ All(Claimed') = All(Claimed) \cup Ids(x.batch)
      /\ \A p : (Clean(l, recorded, Claimed, air, p) /\ (\A n \in Ids(x.batch) : recorded[n] = x.to.problem))
                  => Clean(l, recorded, Claimed', air, p)
  BY <1>4, BooksArrive DEF IInv, l
<1>6. /\ Books(l, recorded, Claimed', Out, adrift, air')
      /\ \A p : Clean(l, recorded, Claimed', air, p) => Clean(l, recorded, Claimed', air', p)
  <2>1. air' \subseteq air
    BY DEF Deliver
  <2> QED BY <1>5, <2>1, BooksLose
<1>7. FlushOK(run, sender, Gone')
  BY <1>5, <1>9 DEF IInv, FlushOK, Gone, Deliver, history
<1>8. ~crossed' => Together'
  <2> SUFFICES ASSUME ~crossed, Together PROVE Together'
    BY DEF IInv, Deliver, history
  <2>1. Clean(l, recorded, Claimed', air', problem)
    BY <1>5, <1>6 DEF Together, Clean, l
  <2> QED BY <1>2, <2>1 DEF Together, Deliver, page, history, budget, l
<1> QED BY <1>2, <1>6, <1>7, <1>8, <1>9 DEF IInv, Deliver, page, history, budget, l

\* resume() that finds its session keeps the invariant: it adopts it for its problem only.
LEMMA ResumedStep ==
  ASSUME IInv, NEW x \in resuming, Resumed(x) PROVE IInv'
<1>s. Claimed' = Claimed /\ Out' = Out /\ OrphansOK' /\ RollbacksOK' /\ StoreOK
  BY ServerSame, StoreIs DEF Resumed, network, history, given
<1> USE <1>s
<1>1. x.session \in DOMAIN Claimed /\ x.session.problem = x.problem
  BY DEF IInv, SessionsOK, Of
<1>2. /\ resuming' \subseteq resuming
      /\ sid' = IF problem = x.problem THEN x.session ELSE sid
  BY DEF Resumed
<1>3. SessionsOK(DOMAIN Claimed, saved, resuming', sid')
  BY <1>1, <1>2 DEF IInv, SessionsOK
<1>4. ~crossed' => Together'
  BY <1>1, <1>2 DEF IInv, Resumed, Together, WorkApart, network, history, budget
<1> QED BY <1>3, <1>4 DEF IInv, Resumed, network, history, budget, Gone

\* A session that is not there any more is forgotten.
LEMMA Forgetting ==
  ASSUME NEW known, NEW sv, NEW rs, NEW s, SessionsOK(known, sv, rs, s), NEW p \in Problem,
         NEW sv2, sv2 = [sv EXCEPT ![p] = NoSession]
  PROVE  /\ SessionsOK(known, sv2, rs, s)
         /\ \A b \in Nat : FewSessions(known, sv, b) => FewSessions(known, sv2, b + 1)
<1>1. /\ sv2 \in [Problem -> known \cup {NoSession}] /\ sv2[p] = NoSession
      /\ \A q \in Problem \ {p} : sv2[q] = sv[q]
  BY DEF SessionsOK
<1>2. SessionsOK(known, sv2, rs, s)
  BY <1>1 DEF SessionsOK
<1>3. ASSUME NEW b \in Nat, FewSessions(known, sv, b) PROVE FewSessions(known, sv2, b + 1)
  <2> SUFFICES ASSUME NEW q \in Problem
               PROVE  Cardinality(Of(known, q)) <= b + 1 + (IF sv2[q] = NoSession THEN 0 ELSE 1)
    BY DEF FewSessions
  <2>1. Of(known, q) \in SUBSET known
    BY DEF Of
  <2>2. Cardinality(Of(known, q)) \in Nat
    BY <2>1, FS_Subset, FS_CardinalityType DEF SessionsOK
  <2>3. Cardinality(Of(known, q)) <= b + (IF sv[q] = NoSession THEN 0 ELSE 1)
    BY <1>3 DEF FewSessions
  <2>4. CASE q = p
    BY <1>1, <2>2, <2>3, <2>4
  <2>5. CASE q # p
    BY <1>1, <2>2, <2>3, <2>5
  <2> QED BY <2>4, <2>5
<1> QED BY <1>2, <1>3

\* resume() that fails keeps the invariant: the failure pays for the next session.
LEMMA ResumeFailsStep ==
  ASSUME IInv, NEW x \in resuming, ResumeFails(x) PROVE IInv'
<1>s. Claimed' = Claimed /\ Out' = Out /\ OrphansOK' /\ RollbacksOK' /\ StoreOK
  BY ServerSame, StoreIs DEF ResumeFails, network, history, given
<1> USE <1>s
<1>1. x.problem \in Problem /\ saved' = [saved EXCEPT ![x.problem] = NoSession]
      /\ blips \in Nat /\ blips' = blips + 1
  BY DEF IInv, SessionsOK, ResumeFails
<1>2. /\ SessionsOK(DOMAIN Claimed, saved', resuming, sid)
      /\ FewSessions(DOMAIN Claimed, saved, blips) => FewSessions(DOMAIN Claimed, saved', blips')
  BY <1>1, Forgetting DEF IInv
<1>3. SessionsOK(DOMAIN Claimed, saved', resuming', sid)
  BY <1>2 DEF SessionsOK, ResumeFails
<1>4. saved[problem] = NoSession => saved'[problem] = NoSession
  BY <1>1 DEF IInv, SessionsOK
<1>5. ~crossed' => Together'
  BY <1>2, <1>4 DEF IInv, ResumeFails, Together, OneTask, history
<1> QED BY <1>1, <1>3, <1>5 DEF IInv, ResumeFails, history, Gone

\* A session that is not there keeps the invariant: the failure pays for the next one.
LEMMA GetSessionFailsStep ==
  ASSUME IInv, NEW t \in tasks, GetSessionFails(t) PROVE IInv'
<1>s. Claimed' = Claimed /\ Out' = Out /\ OrphansOK' /\ RollbacksOK' /\ StoreOK
  BY ServerSame, StoreIs DEF GetSessionFails, network, history, given
<1> USE <1>s
<1> DEFINE t2 == [t EXCEPT !.at = "create"]
<1>1. t \in TaskType(DOMAIN Claimed) /\ t.problem \in Problem /\ blips \in Nat /\ blips' = blips + 1
      /\ saved' = [saved EXCEPT ![t.problem] = NoSession] /\ tasks' = (tasks \ {t}) \cup {t2}
  BY DEF IInv, TasksOK, TaskType, GetSessionFails
<1>2. /\ SessionsOK(DOMAIN Claimed, saved', resuming, sid)
      /\ FewSessions(DOMAIN Claimed, saved, blips) => FewSessions(DOMAIN Claimed, saved', blips')
  BY <1>1, Forgetting DEF IInv
<1>3. /\ t2 \in TaskType(DOMAIN Claimed) /\ t2.n = t.n /\ t2.problem = t.problem
      /\ t2.at = "create"
  BY <1>1 DEF TaskType
<1>4. saved'[t.problem] = NoSession
  BY <1>1 DEF IInv, SessionsOK
<1> HIDE DEF t2
<1>5. TasksOK(tasks', inFlight, DOMAIN Claimed)
  <2>1. IsFiniteSet(tasks')
    BY <1>1, FS_AddElement, FS_RemoveElement DEF IInv, TasksOK
  <2>2. {u.n : u \in tasks} \subseteq {u.n : u \in tasks'}
    BY <1>1, <1>3
  <2>3. tasks' \subseteq TaskType(DOMAIN Claimed)
    BY <1>1, <1>3 DEF IInv, TasksOK
  <2>4. \A u \in tasks' : u.at = "get" => u.saved \in DOMAIN Claimed /\ u.saved.problem = u.problem
    BY <1>1, <1>3 DEF IInv, TasksOK
  <2> QED BY <2>1, <2>2, <2>3, <2>4 DEF IInv, TasksOK
<1>6. ~crossed' => Together'
  <2> SUFFICES ASSUME ~crossed, Together PROVE Together'
    BY DEF IInv, GetSessionFails, history
  <2>1. OneTask(tasks, inFlight, sender, run, saved, problem)
    BY DEF Together
  <2>2. tasks' = {t2} /\ t.problem = problem
    BY <1>1, <2>1 DEF OneTask
  <2>3. OneTask(tasks', inFlight, sender, run, saved', problem)
    BY <1>3, <1>4, <2>1, <2>2 DEF OneTask
  <2> QED BY <1>2, <2>3 DEF Together, GetSessionFails, history
<1> QED BY <1>1, <1>2, <1>5, <1>6 DEF IInv, GetSessionFails, history, Gone

\* A session that cannot be created keeps the invariant: the batch goes back to the head.
LEMMA CreateFailsStep ==
  ASSUME IInv, NEW t \in tasks, CreateFails(t) PROVE IInv'
<1>s. Claimed' = Claimed /\ Out' = Out
  BY DEF CreateFails, Claimed, Out, history
<1>o. OrphansOK' /\ RollbacksOK'
  <2>1. /\ t.problem \in Problem /\ unclaimed \in [Problem -> Nat]
        /\ unclaimed' = [unclaimed EXCEPT ![t.problem] = @ + 1]
    BY DEF IInv, TasksOK, TaskType, OrphansOK, CreateFails
  <2>2. unclaimed' \in [Problem -> Nat]
    BY <2>1
  <2> QED BY <2>2 DEF IInv, OrphansOK, RollbacksOK, CreateFails, history
<1> USE <1>s
<1>1. t.n # NoTask /\ t.n \in Nat /\ blips \in Nat /\ blips' = blips + 1 /\ tasks' = tasks \ {t}
      /\ inFlight' = NoTask
  BY DEF IInv, TasksOK, TaskType, CreateFails, NoTask
<1>2. TasksOK(tasks', inFlight', DOMAIN Claimed)
  <2>1. IsFiniteSet(tasks')
    BY <1>1, FS_RemoveElement DEF IInv, TasksOK
  <2> QED BY <1>1, <2>1 DEF IInv, TasksOK
<1>3. /\ SenderOK(sender', DOMAIN Claimed) /\ queue' \in Seq(Nat)
      /\ Line(sender', queue') = Line(sender, queue)
      /\ sender' = sender \/ (sender' = Idle /\ sender.at = "session")
  <2>1. CASE sender.task = t.n
    <3>1. sender' = Idle /\ queue' = sender.batch \o queue /\ sender.at = "session"
      BY <1>1, <2>1 DEF CreateFails, PutBack, IInv, SenderOK
    <3>2. sender.batch \in Seq(Nat) /\ queue \in Seq(Nat)
      BY IdleIs DEF IInv
    <3>3. queue' \in Seq(Nat)
      BY <3>1, <3>2, ConcatProperties
    <3>4. Line(sender', queue') = queue'
      BY <3>1, <3>3, ConcatEmptySeq DEF Line, Idle
    <3> QED BY <3>1, <3>3, <3>4, IdleOK DEF Line
  <2>2. CASE sender.task # t.n
    <3>1. sender' = sender /\ queue' = queue
      BY <2>2 DEF CreateFails
    <3>2. SenderOK(sender, DOMAIN Claimed) /\ queue \in Seq(Nat)
      BY DEF IInv
    <3> QED BY <3>1, <3>2
  <2> QED BY <2>1, <2>2
<1>4. run' = run \/ (run' = NoRun /\ run.at = "session")
  BY <1>1 DEF CreateFails, IInv, RunOK
<1>5. NoRun \in RunType /\ NoRun.at = "idle" /\ NoRun.task = NoTask
  BY DEF NoRun, RunType, NoTask
<1>6. RunOK(run', sender') /\ FlushOK(run', sender', Gone)
  <2>1. RunOK(run, sender') /\ FlushOK(run, sender', Gone)
    BY <1>3 DEF IInv, RunOK, FlushOK
  <2> QED BY <1>4, <1>5, <2>1 DEF RunOK, FlushOK, Waits
<1>7. BoundOK(recorded', pending', run')
  <2>1. recorded' = recorded /\ pending' = pending /\ Len(recorded) \in Nat
    BY DEF CreateFails, history, IInv, BoundOK
  <2> DEFINE a == IF pending # NoProblem THEN 1 ELSE 0
             b == IF Waits(run) THEN 1 ELSE 0
             c == IF Waits(run') THEN 1 ELSE 0
  <2>2. a \in Nat /\ b \in Nat /\ c \in Nat /\ c <= b /\ MaxRecorded \in Nat
    BY <1>4, <1>5, BoundAssumption DEF Waits
  <2>3. Len(recorded) + a + b <= MaxRecorded
    BY DEF IInv, BoundOK
  <2> HIDE DEF a, b, c
  <2>4. Len(recorded) + a + c <= MaxRecorded
    BY <2>1, <2>2, <2>3
  <2> QED BY <2>1, <2>4 DEF IInv, BoundOK, a, c
<1>8. ~crossed' => Together'
  <2> SUFFICES ASSUME ~crossed, Together PROVE Together'
    BY DEF IInv, CreateFails, history
  <2>1. tasks' = {}
    BY <1>1 DEF Together, OneTask
  <2>2. OneTask(tasks', inFlight', sender', run', saved, problem)
    BY <2>1 DEF OneTask
  <2>3. WorkApart(pending, sender', run', sid, problem)
    BY <1>3, <1>4, <1>5 DEF Together, WorkApart, Waits, Idle
  <2>4. FewSessions(DOMAIN Claimed, saved, blips')
    <3> SUFFICES ASSUME NEW p \in Problem
                 PROVE  Cardinality(Of(DOMAIN Claimed, p))
                          <= blips + 1 + (IF saved[p] = NoSession THEN 0 ELSE 1)
      BY <1>1 DEF FewSessions
    <3>1. Of(DOMAIN Claimed, p) \in SUBSET DOMAIN Claimed
      BY DEF Of
    <3>2. Cardinality(Of(DOMAIN Claimed, p)) \in Nat
      BY <3>1, FS_Subset, FS_CardinalityType DEF IInv, SessionsOK
    <3>3. Cardinality(Of(DOMAIN Claimed, p)) <= blips + (IF saved[p] = NoSession THEN 0 ELSE 1)
      BY DEF Together, FewSessions
    <3> QED BY <1>1, <3>2, <3>3
  <2> QED BY <1>3, <2>2, <2>3, <2>4 DEF Together, CreateFails, network, history
<1> QED BY <1>o, <1>1, <1>2, <1>3, <1>6, <1>7, <1>8 DEF IInv, CreateFails, history, Gone

\* The two parts of what the page holds.
LEMMA PartsOf ==
  ASSUME NEW D \in SUBSET Nat, NEW a \in Seq(Nat), NEW b \in Seq(Nat),
         a \o b \in Seq(D), Ascending(a \o b)
  PROVE  /\ a \in Seq(D) /\ b \in Seq(D) /\ Ascending(a) /\ Ascending(b)
         /\ Ids(a \o b) = Ids(a) \cup Ids(b)
         /\ \A m \in Ids(a), n \in Ids(b) : m < n
<1> DEFINE l == a \o b
<1>1. /\ Len(a) \in Nat /\ Len(b) \in Nat /\ DOMAIN l = 1..(Len(a) + Len(b))
      /\ \A i \in 1..(Len(a) + Len(b)) : l[i] = IF i <= Len(a) THEN a[i] ELSE b[i - Len(a)]
  BY ConcatProperties
<1>2. \A i \in DOMAIN l : l[i] \in D
  OBVIOUS
<1> HIDE DEF l
<1>3. ASSUME NEW i \in 1..Len(a) PROVE a[i] \in D
  <2>1. i \in DOMAIN l /\ l[i] = a[i]
    BY <1>1
  <2> QED BY <1>2, <2>1
<1>4. ASSUME NEW i \in 1..Len(b) PROVE b[i] \in D
  <2>1. Len(a) + i \in DOMAIN l /\ l[Len(a) + i] = b[i]
    BY <1>1
  <2> QED BY <1>2, <2>1
<1>5. a \in Seq(D) /\ b \in Seq(D)
  BY <1>3, <1>4
<1>6. Ids(a \o b) = Ids(a) \cup Ids(b)
  BY IdsOfBoth
<1>7. Nat \in SUBSET Int
  OBVIOUS
<1> QED BY <1>5, <1>6, <1>7, AscendingParts

\* The same, for a line of which the books are kept.
LEMMA BooksParts ==
  ASSUME NEW a \in Seq(Nat), NEW b \in Seq(Nat), NEW past, NEW st, NEW dr, NEW ad, NEW air2,
         Books(a \o b, past, st, dr, ad, air2)
  PROVE  /\ a \in Seq(DOMAIN past) /\ b \in Seq(DOMAIN past) /\ Ascending(a) /\ Ascending(b)
         /\ Ids(a \o b) = Ids(a) \cup Ids(b)
         /\ \A m \in Ids(a), n \in Ids(b) : m < n
<1>1. a \o b \in Seq(DOMAIN past) /\ Ascending(a \o b) /\ past \in Seq(Problem)
  BY DEF Books, EventsOK
<1>2. DOMAIN past \in SUBSET Nat
  BY <1>1
<1> QED BY <1>1, <1>2, PartsOf

\* What a flush waits for stays settled when more is.
LEMMA FlushMore ==
  ASSUME NEW r, NEW snd, NEW snd2, NEW g, NEW g2, FlushOK(r, snd, g), g \subseteq g2,
         snd2.batch = snd.batch
  PROVE  FlushOK(r, snd2, g2)
  BY DEF FlushOK

\* A post fails: the events are on the page still, and perhaps in the air as well.
LEMMA PostFailing ==
  ASSUME IInv, PostFails
  PROVE  /\ sender.at = "post" /\ adrift \subseteq adrift'
         /\ Books(Line(sender, queue), recorded, Claimed, Out, adrift', air')
         /\ \A p : (Clean(Line(sender, queue), recorded, Claimed, air, p) /\ sender.to.problem = p)
                   => Clean(Line(sender, queue), recorded, Claimed, air', p)
<1>1. /\ sender.at = "post" /\ sender.to \in DOMAIN Claimed
      /\ Books(Line(sender, queue), recorded, Claimed, Out, adrift, air)
      /\ sender.batch \in Seq(Nat) /\ queue \in Seq(Nat)
  BY IdleIs DEF IInv, PostFails, SenderOK
<1>2. /\ sender.batch \in Seq(DOMAIN recorded) /\ Ascending(sender.batch)
      /\ Ids(sender.batch) \subseteq Ids(Line(sender, queue))
  BY <1>1, BooksParts DEF Line
<1>3. CASE air' = air /\ adrift' = adrift
  BY <1>1, <1>3
<1>4. CASE /\ air' = air \cup {[to |-> sender.to, batch |-> sender.batch]}
           /\ adrift' = adrift \cup Ids(sender.batch)
  <2> DEFINE x == [to |-> sender.to, batch |-> sender.batch]
             l == Line(sender, queue)
  <2>1. x = [to |-> sender.to, batch |-> sender.batch] /\ air' = air \cup {x}
    BY <1>4
  <2> HIDE DEF x, l
  <2>2. Books(l, recorded, Claimed, Out, adrift, air) /\ Ids(sender.batch) \subseteq Ids(l)
    BY <1>1, <1>2 DEF l
  <2>3. /\ Books(l, recorded, Claimed, Out, adrift \cup Ids(sender.batch), air \cup {x})
        /\ \A p : (Clean(l, recorded, Claimed, air, p) /\ sender.to.problem = p)
                   => Clean(l, recorded, Claimed, air \cup {x}, p)
    BY <1>1, <1>2, <2>1, <2>2, BooksSend
  <2> QED BY <1>1, <1>4, <2>1, <2>3 DEF l
<1> QED BY <1>3, <1>4 DEF PostFails

\* A post that fails and will be repeated keeps the invariant.
LEMMA WaitStep ==
  ASSUME IInv, Wait PROVE IInv'
<1>s. Claimed' = Claimed /\ Out' = Out /\ OrphansOK' /\ RollbacksOK' /\ StoreOK
  BY ServerSame, StoreIs DEF Wait, PostFails, network, history, given
<1> USE <1>s
<1>1. /\ sender.at = "post" /\ adrift \subseteq adrift'
      /\ Books(Line(sender, queue), recorded, Claimed, Out, adrift', air')
      /\ \A p : (Clean(Line(sender, queue), recorded, Claimed, air, p) /\ sender.to.problem = p)
                   => Clean(Line(sender, queue), recorded, Claimed, air', p)
  BY PostFailing DEF Wait
<1>2. /\ sender' = [sender EXCEPT !.at = "wait", !.retries = @ + 1, !.since = 0]
      /\ sender \in SenderType(DOMAIN Claimed \cup {NoSession})
      /\ sender.retries \in 0..MaxRetries /\ sender.retries < MaxRetries /\ MaxRetries \in Nat
  BY LimitAssumption DEF Wait, IInv, SenderOK, SenderType, CanRetry
<1>3. /\ sender'.at = "wait" /\ sender'.batch = sender.batch /\ sender'.to = sender.to
      /\ sender'.task = sender.task /\ sender' \in SenderType(DOMAIN Claimed \cup {NoSession})
  <2> DEFINE n == sender.retries + 1
  <2>1. n \in 0..MaxRetries /\ sender' = [sender EXCEPT !.at = "wait", !.retries = n, !.since = 0]
    BY <1>2
  <2>2. 0 \in Nat /\ n \in Nat
    BY <1>2 DEF n
  <2> HIDE DEF n
  <2> QED BY <1>2, <2>1, <2>2 DEF SenderType
<1>4. SenderOK(sender', DOMAIN Claimed)
  BY <1>1, <1>3 DEF IInv, SenderOK
<1>5. RunOK(run, sender')
  BY <1>3 DEF IInv, RunOK
<1>6. FlushOK(run, sender', Gone')
  <2>1. Gone \subseteq Gone'
    BY <1>1 DEF Gone, Wait, PostFails
  <2> QED BY <1>3, <2>1, FlushMore DEF IInv
<1>7. ~crossed' => Together'
  BY <1>1, <1>3 DEF IInv, Wait, PostFails, Together, WorkApart, OneTask, Line, budget
<1> QED BY <1>1, <1>3, <1>4, <1>5, <1>6, <1>7 DEF IInv, Wait, PostFails, Line, budget

\* What is left to see when send() is over.
LEMMA Finished ==
  ASSUME IInv, NEW q \in Seq(Nat), NEW whole \in BOOLEAN, sender.at = "post", Finish(q, whole),
         DOMAIN Claimed' = DOMAIN Claimed, OrphansOK', RollbacksOK',
         Books(q, recorded, Claimed', Out', adrift', air'),
         Together => Clean(q, recorded, Claimed', air', problem),
         whole /\ run.at = "flush" => 1..run.upto \subseteq Gone',
         Gone \subseteq Gone',
         UNCHANGED <<problem, sid, pending, resuming, saved, crossed, budget>>
  PROVE  IInv'
<1>1. /\ RunOK(run, sender) /\ BoundOK(recorded, pending, run)
      /\ TasksOK(tasks, inFlight, DOMAIN Claimed) /\ sid \in DOMAIN Claimed \cup {NoSession}
      /\ Gone' = All(Claimed') \cup Out' \cup adrift'
      /\ sender.at # "idle" /\ pending' = pending
  BY DEF IInv, SessionsOK, Gone
<1>2. run.whole /\ run.at = "judge" => 1..run.upto \subseteq All(Claimed') \cup Out' \cup adrift'
  BY <1>1 DEF IInv, FlushOK
<1>3. whole /\ run.at = "flush" => 1..run.upto \subseteq All(Claimed') \cup Out' \cup adrift'
  BY <1>1
<1>4. /\ SenderOK(sender', DOMAIN Claimed) /\ queue' \in Seq(Nat) /\ Sent(Idle, sender', sid)
      /\ Books(Line(sender', queue'), recorded', Claimed', Out', adrift', air')
      /\ \A p : (Clean(q, recorded, Claimed', air', p) /\ (Waits(run) => run.problem = p))
                   => (/\ Clean(Line(sender', queue'), recorded', Claimed', air', p)
                       /\ Waits(run') => run'.problem = p)
      /\ BoundOK(recorded', pending', run')
      /\ RunOK(run', sender') /\ run'.task = run.task
      /\ FlushOK(run', sender', All(Claimed') \cup Out' \cup adrift')
  BY <1>1, <1>2, <1>3, StoreIs, Finishing
<1>5. /\ TasksOK(tasks', inFlight', DOMAIN Claimed)
      /\ \A r2 : (OneTask(tasks, inFlight, sender, run, saved, problem) /\ r2.task = run.task)
                    => OneTask(tasks', inFlight', sender', r2, saved, problem)
  <2>1. Idle.at = "idle" /\ EnsureIfSent
    BY DEF Idle, Finish
  <2> QED BY <1>4, <2>1, EnsuredIfSent DEF IInv
<1>6. ~crossed' => Together'
  <2> SUFFICES ASSUME ~crossed, Together PROVE Together'
    BY DEF IInv
  <2>1. /\ WorkApart(pending, sender, run, sid, problem)
        /\ OneTask(tasks, inFlight, sender, run, saved, problem)
        /\ FewSessions(DOMAIN Claimed, saved, blips)
    BY DEF Together
  <2>2. /\ Clean(Line(sender', queue'), recorded', Claimed', air', problem)
        /\ Waits(run') => run'.problem = problem
    BY <1>4, <2>1 DEF WorkApart
  <2>3. WorkApart(pending, sender', run', sid, problem)
    BY <1>4, <2>1, <2>2 DEF WorkApart, Sent, Idle
  <2> QED BY <1>4, <1>5, <2>1, <2>2, <2>3 DEF Together, budget
<1> QED BY <1>1, <1>4, <1>5, <1>6 DEF IInv, budget

\* A post that is given up keeps the invariant: the batch goes back to the head.
LEMMA GiveUpStep ==
  ASSUME IInv, GiveUp PROVE IInv'
<1> DEFINE l == Line(sender, queue)
           w == FALSE
<1>1. /\ sender.at = "post" /\ adrift \subseteq adrift'
      /\ Books(l, recorded, Claimed, Out, adrift', air')
      /\ \A p : (Clean(l, recorded, Claimed, air, p) /\ sender.to.problem = p)
                   => Clean(l, recorded, Claimed, air', p)
  BY PostFailing DEF GiveUp
<1>2. l \in Seq(Nat) /\ Finish(l, w) /\ w \in BOOLEAN /\ ~w
  <2>1. sender.batch \in Seq(Nat) /\ queue \in Seq(Nat)
    BY IdleIs DEF IInv
  <2>2. l \in Seq(Nat)
    BY <2>1, ConcatProperties DEF Line
  <2> QED BY <2>2 DEF GiveUp, PutBack, Line
<1>s. /\ Claimed' = Claimed /\ Out' = Out /\ OrphansOK' /\ RollbacksOK'
      /\ UNCHANGED <<problem, sid, pending, resuming, saved, crossed, budget>>
  BY <1>1, ServerSame DEF GiveUp, PostFails
<1>3. Gone \subseteq Gone'
  BY <1>1, <1>s DEF Gone
<1>4. Together => Clean(l, recorded, Claimed, air', problem)
  BY <1>1 DEF Together, WorkApart
<1> HIDE DEF l, w
<1> QED BY <1>1, <1>2, <1>3, <1>4, <1>s, Finished

\* A post that is answered keeps the invariant: the batch follows what was stored.
LEMMA PostOkStep ==
  ASSUME IInv, PostOk PROVE IInv'
<1>1. /\ sender.at = "post" /\ sender.to \in DOMAIN Claimed
      /\ Books(Line(sender, queue), recorded, Claimed, Out, adrift, air)
      /\ sender.batch \in Seq(Nat) /\ queue \in Seq(Nat) /\ run.whole \in BOOLEAN
  BY IdleIs DEF IInv, PostOk, SenderOK, RunOK, RunType
<1>2. /\ sender.batch \in Seq(DOMAIN recorded) /\ Ascending(sender.batch)
      /\ queue \in Seq(DOMAIN recorded) /\ Ascending(queue)
      /\ Ids(Line(sender, queue)) = Ids(sender.batch) \cup Ids(queue)
      /\ \A m \in Ids(sender.batch), n \in Ids(queue) : m < n
  BY <1>1, BooksParts DEF Line
<1>3. /\ DOMAIN Claimed' = DOMAIN Claimed
      /\ Claimed'[sender.to] = Claimed[sender.to] \o Fresh(sender.batch, Ids(Claimed[sender.to]))
      /\ \A s \in DOMAIN Claimed \ {sender.to} : Claimed'[s] = Claimed[s]
      /\ OrphansOK'
  BY <1>1, Storing DEF PostOk, given
<1>10. RollbacksOK' /\ Out' = Out
  BY DEF IInv, RollbacksOK, PostOk, given, Out
<1>4. Arrives(Line(sender, queue), recorded, Claimed, adrift, sender.to, sender.batch, queue, Claimed')
  BY <1>1, <1>2, <1>3 DEF Arrives
<1>5. /\ Books(queue, recorded, Claimed', Out, adrift, air)
      /\ All(Claimed') = All(Claimed) \cup Ids(sender.batch)
      /\ \A p : (Clean(Line(sender, queue), recorded, Claimed, air, p)
                  /\ (\A n \in Ids(sender.batch) : recorded[n] = sender.to.problem))
                  => Clean(queue, recorded, Claimed', air, p)
  BY <1>1, <1>4, BooksArrive
<1>6. /\ air' = air /\ Out' = Out /\ adrift' = adrift
      /\ UNCHANGED <<problem, sid, pending, resuming, saved, crossed, budget>>
      /\ Finish(queue, run.whole)
  BY <1>10 DEF PostOk, given
<1>7. Together => Clean(queue, recorded, Claimed', air, problem)
  <2> SUFFICES ASSUME Together PROVE Clean(queue, recorded, Claimed', air, problem)
    OBVIOUS
  <2>1. sender.to.problem = problem
    BY <1>1 DEF Together, WorkApart
  <2>2. \A n \in Ids(sender.batch) : recorded[n] = sender.to.problem
    BY <1>2, <2>1 DEF Together, Clean
  <2> QED BY <1>5, <2>2 DEF Together
<1>8. Gone' = Gone \cup Ids(sender.batch)
  BY <1>5, <1>6 DEF Gone
<1>9. run.whole /\ run.at = "flush" => 1..run.upto \subseteq Gone'
  BY <1>8 DEF IInv, FlushOK
<1> QED BY <1>1, <1>3, <1>5, <1>6, <1>7, <1>8, <1>9, <1>10, Finished

\* A batch that is rolled back keeps the invariant: part of it is adrift, and nobody has
\* the rest any more.
LEMMA PostCollidesStep ==
  ASSUME IInv, PostCollides PROVE IInv'
<1> DEFINE lost == Ids(sender.batch) \ Ids(Claimed[sender.to])
<1>1. /\ sender.at = "post" /\ sender.to \in DOMAIN Claimed
      /\ Books(Line(sender, queue), recorded, Claimed, Out, adrift, air)
      /\ sender.batch \in Seq(Nat) /\ queue \in Seq(Nat) /\ run.whole \in BOOLEAN
  BY IdleIs DEF IInv, PostCollides, SenderOK, RunOK, RunType
<1>2. /\ queue \in Seq(DOMAIN recorded) /\ Ascending(queue)
      /\ Ids(Line(sender, queue)) = Ids(sender.batch) \cup Ids(queue)
  BY <1>1, BooksParts DEF Line
<1>3. Claimed[sender.to] = store[sender.to]
  BY <1>1 DEF Claimed
<1>4. /\ Claimed' = Claimed /\ Out' = Out \cup lost /\ air' = air /\ adrift' = adrift
      /\ UNCHANGED <<problem, sid, pending, resuming, saved, crossed, budget>>
      /\ Finish(queue, run.whole)
  BY <1>3 DEF PostCollides, Claimed, Out, network
<1>5. /\ Books(queue, recorded, Claimed', Out', adrift', air')
      /\ \A p : Clean(Line(sender, queue), recorded, Claimed, air, p)
                  => Clean(queue, recorded, Claimed', air', p)
  <2> DEFINE l == Line(sender, queue)
  <2>1. Books(l, recorded, Claimed, Out, adrift, air) /\ Ids(l) = Ids(sender.batch) \cup Ids(queue)
    BY <1>1, <1>2
  <2> HIDE DEF l
  <2>2. /\ Books(queue, recorded, Claimed, Out \cup lost, adrift, air)
        /\ \A p : Clean(l, recorded, Claimed, air, p) => Clean(queue, recorded, Claimed, air, p)
    BY <1>1, <1>2, <2>1, BooksCollide
  <2> QED BY <1>4, <2>2 DEF l
<1>6. OrphansOK'
  BY DEF IInv, OrphansOK, PostCollides, network
<1>7. RollbacksOK'
  <2>1. \E n \in Ids(sender.batch) : n \in Ids(Claimed[sender.to])
    BY <1>3 DEF PostCollides, Raced, Ids
  <2>2. \E n \in Ids(Line(sender, queue)) : n \in All(Claimed)
    BY <1>1, <1>2, <2>1 DEF All
  <2>3. adrift # {}
    BY <1>1, <2>2 DEF Books, EventsOK
  <2> QED BY <1>4, <2>3 DEF RollbacksOK
<1>8. Gone' = Gone \cup lost
  BY <1>4 DEF Gone
<1>9. run.whole /\ run.at = "flush" => 1..run.upto \subseteq Gone'
  <2>1. Ids(sender.batch) \subseteq Gone'
    <3>1. Ids(Claimed[sender.to]) \subseteq Gone
      BY <1>1 DEF Gone, All
    <3> QED BY <1>8, <3>1
  <2> QED BY <1>8, <2>1 DEF IInv, FlushOK
<1>10. Together => Clean(queue, recorded, Claimed', air', problem)
  BY <1>5 DEF Together
<1> HIDE DEF lost
<1> QED BY <1>1, <1>4, <1>5, <1>6, <1>7, <1>8, <1>9, <1>10, Finished

\* The click on Run keeps the invariant, with a session at hand and without.
LEMMA ClickStep ==
  ASSUME IInv, Click PROVE IInv'
<1>s. Claimed' = Claimed /\ Out' = Out /\ OrphansOK' /\ RollbacksOK' /\ StoreOK
  BY ServerSame, StoreIs DEF Click, network, history, given
<1> USE <1>s
<1> DEFINE a == IF pending # NoProblem THEN 1 ELSE 0
<1>1. /\ run.at = "idle" /\ ~Waits(run) /\ run.task = NoTask
      /\ recorded \in Seq(Problem) /\ pending \in Problem \cup {NoProblem}
      /\ Len(recorded) \in Nat /\ MaxRecorded \in Nat /\ a \in Nat
      /\ Len(recorded) + a + 1 <= MaxRecorded
  <2>1. run.at = "idle" /\ recorded \in Seq(Problem) /\ pending \in Problem \cup {NoProblem} /\ Room
    BY DEF Click, IInv, BoundOK
  <2>2. ~Waits(run) /\ run.task = NoTask
    BY <2>1 DEF Waits, IInv, RunOK
  <2>3. a \in Nat /\ Len(recorded) \in Nat /\ MaxRecorded \in Nat /\ Len(recorded) + a + 0 + 1 <= MaxRecorded
    BY <2>1, <2>2, RoomIs
  <2> HIDE DEF a
  <2> QED BY <2>1, <2>2, <2>3
<1>2. /\ Clicked \in RunType /\ Clicked.problem = problem /\ problem \in Problem
  BY DEF Clicked, NoRun, RunType, NoTask, IInv
<1>3. /\ UNCHANGED <<problem, sid, resuming, network, adrift, crossed, budget>>
      /\ Gone' = Gone
  BY DEF Click, network, Gone, given
<1>4. CASE /\ sid # NoSession /\ Flush(Clicked, sender, sid) /\ UNCHANGED <<tasks, inFlight>>
  <2>1. sid \in DOMAIN Claimed /\ queue \in Seq(Nat)
    BY <1>4 DEF IInv, SessionsOK
  <2>2. /\ SenderOK(sender', DOMAIN Claimed) /\ queue' \in Seq(Nat) /\ Sent(sender, sender', sid)
        /\ Books(Line(sender', queue'), recorded', Claimed, Out, adrift, air)
        /\ \A p : (Clean(Line(sender, queue), recorded, Claimed, air, p)
                     /\ pending \in {p, NoProblem} /\ Clicked.problem = p)
                   => (/\ Clean(Line(sender', queue'), recorded', Claimed, air, p)
                       /\ Waits(run') => run'.problem = p)
        /\ pending' = NoProblem /\ BoundOK(recorded', pending', run')
        /\ RunOK(run', sender') /\ run'.task = NoTask
        /\ FlushOK(run', sender', All(Claimed) \cup Out \cup adrift)
    <3> DEFINE known == DOMAIN Claimed
               click == Clicked
    <3>1. /\ TasksOK(tasks, inFlight, known) /\ SenderOK(sender, known)
          /\ Books(Line(sender, queue), recorded, Claimed, Out, adrift, air)
          /\ Flush(click, sender, sid) /\ click \in RunType /\ click.problem \in Problem
          /\ sid \in known /\ sid # NoSession /\ queue \in Seq(Nat)
          /\ pending \in Problem \cup {NoProblem}
      BY <1>1, <1>2, <1>4, <2>1 DEF IInv
    <3>2. Len(recorded) + (IF pending # NoProblem THEN 1 ELSE 0) + 1 <= MaxRecorded
      BY <1>1
    <3> HIDE DEF known, click
    <3>3. /\ SenderOK(sender', known) /\ queue' \in Seq(Nat) /\ Sent(sender, sender', sid)
          /\ Books(Line(sender', queue'), recorded', Claimed, Out, adrift, air)
          /\ \A p : (Clean(Line(sender, queue), recorded, Claimed, air, p)
                       /\ pending \in {p, NoProblem} /\ click.problem = p)
                     => (/\ Clean(Line(sender', queue'), recorded', Claimed, air, p)
                         /\ Waits(run') => run'.problem = p)
          /\ pending' = NoProblem /\ BoundOK(recorded', pending', run')
          /\ RunOK(run', sender') /\ run'.task = NoTask
          /\ FlushOK(run', sender', All(Claimed) \cup Out \cup adrift)
      BY <3>1, <3>2, Flushing
    <3> QED BY <3>3 DEF known, click
  <2>3. ~crossed' => Together'
    <3> SUFFICES ASSUME ~crossed, Together PROVE Together'
      BY <1>3 DEF IInv
    <3>1. pending \in {problem, NoProblem}
      BY DEF Together, WorkApart
    <3>2. /\ Clean(Line(sender', queue'), recorded', Claimed, air, problem)
          /\ Waits(run') => run'.problem = problem
      BY <1>2, <2>2, <3>1 DEF Together
    <3>3. WorkApart(pending', sender', run', sid, problem)
      BY <2>2, <3>2 DEF Together, WorkApart, Sent
    <3>4. OneTask(tasks, inFlight, sender', run', saved, problem)
      <4>1. sender'.task = sender.task \/ (sender.at = "idle" /\ sender.task = NoTask)
        BY <2>2 DEF Sent, IInv, SenderOK, Idle
      <4>2. \A t \in tasks : t.n # NoTask
        BY DEF IInv, TasksOK, TaskType, NoTask
      <4> QED BY <1>1, <4>1, <4>2 DEF Together, OneTask
    <3> QED BY <1>3, <1>4, <3>2, <3>3, <3>4 DEF Together, network, budget
  <2> QED BY <1>3, <1>4, <2>2, <2>3 DEF IInv, network, budget, Gone
<1>5. CASE /\ sid = NoSession /\ EnsureSession
           /\ run' = [Clicked EXCEPT !.at = "session", !.task = Awaited]
           /\ UNCHANGED <<queue, pending, sender, recorded>>
  <2>1. Awaited \in Nat \ {0}
    BY NewTaskIs DEF IInv
  <2>2. /\ run' \in RunType /\ run'.at = "session" /\ run'.task = Awaited /\ run'.problem = problem
    BY <1>2, <1>5, <2>1 DEF RunType
  <2>3. RunOK(run', sender) /\ FlushOK(run', sender, Gone)
    BY <1>2, <2>1, <2>2 DEF RunOK, FlushOK, NoTask
  <2>4. BoundOK(recorded, pending, run')
    <3>1. Waits(run')
      BY <2>2 DEF Waits
    <3> QED BY <1>1, <3>1 DEF BoundOK
  <2>5. /\ TasksOK(tasks', inFlight', DOMAIN Claimed)
        /\ \A snd2, r2 :
              (OneTask(tasks, inFlight, sender, run, saved, problem)
                /\ Awaited \in {snd2.task, r2.task})
              => OneTask(tasks', inFlight', snd2, r2, saved, problem)
    BY <1>5, Ensured DEF IInv
  <2>6. ~crossed' => Together'
    <3> SUFFICES ASSUME ~crossed, Together PROVE Together'
      BY <1>3 DEF IInv
    <3>1. OneTask(tasks', inFlight', sender, run', saved, problem)
      BY <2>2, <2>5 DEF Together
    <3>2. WorkApart(pending, sender, run', sid, problem)
      BY <2>2 DEF Together, WorkApart
    <3> QED BY <1>3, <1>5, <3>1, <3>2 DEF Together, network, budget
  <2> QED BY <1>3, <1>5, <2>3, <2>4, <2>5, <2>6 DEF IInv, network, budget
<1> QED BY <1>4, <1>5 DEF Click

\* A session that is created leaves what was said of the others.
LEMMA KnowMore ==
  ASSUME NEW known, NEW known2, known \subseteq known2
  PROVE  /\ \A snd : SenderOK(snd, known) => SenderOK(snd, known2)
         /\ \A ts, inf : TasksOK(ts, inf, known) => TasksOK(ts, inf, known2)
<1>1. SenderType(known \cup {NoSession}) \subseteq SenderType(known2 \cup {NoSession})
  BY DEF SenderType
<1>2. TaskType(known) \subseteq TaskType(known2)
  BY DEF TaskType
<1> QED BY <1>1, <1>2 DEF SenderOK, TasksOK

\* The task t has the session s, which may be new.
LEMMA Resolving ==
  ASSUME IInv, NEW t \in tasks, NEW s, Resolve(t, s), s \in DOMAIN Claimed', s.problem = t.problem,
         s # NoSession, DOMAIN Claimed \subseteq DOMAIN Claimed', All(Claimed') = All(Claimed),
         Books(Line(sender, queue), recorded, Claimed', Out, adrift, air),
         \A p : Clean(Line(sender, queue), recorded, Claimed, air, p)
                  => Clean(Line(sender, queue), recorded, Claimed', air, p),
         SessionsOK(DOMAIN Claimed', saved', resuming, sid),
         ~crossed => FewSessions(DOMAIN Claimed', saved', blips), OrphansOK'
  PROVE  IInv'
<1> DEFINE known == DOMAIN Claimed'
           snd == IF sender.task = t.n THEN [sender EXCEPT !.at = "post", !.to = s, !.task = NoTask,
                                                              !.since = Has(s)]
                  ELSE sender
<1>0. StoreOK /\ Has(s) \in Nat
  BY StoreIs, HasIs
<1>1. /\ SenderOK(sender, known) /\ TasksOK(tasks, inFlight, known)
      /\ queue \in Seq(Nat) /\ pending \in Problem \cup {NoProblem} /\ recorded \in Seq(Problem)
  BY KnowMore DEF IInv, BoundOK
<1>2. t.n # NoTask /\ tasks' = tasks \ {t} /\ inFlight' = NoTask /\ sid' = s
      /\ UNCHANGED <<problem, resuming, air, adrift, crossed, budget>>
  BY DEF IInv, TasksOK, TaskType, Resolve, NoTask, given
<1>5. Out' = Out /\ Gone' = Gone /\ RollbacksOK'
  BY DEF IInv, Resolve, given, Out, Gone, RollbacksOK
<1>3. TasksOK(tasks', inFlight', known)
  <2>1. IsFiniteSet(tasks')
    BY <1>1, <1>2, FS_RemoveElement DEF TasksOK
  <2> QED BY <1>1, <1>2, <2>1 DEF TasksOK
<1>4. SessionsOK(known, saved', resuming, s)
  BY DEF SessionsOK
<1>6. /\ SenderOK(snd, known) /\ snd.batch = sender.batch
      /\ snd = sender \/ (sender.at = "session" /\ snd.at = "post" /\ snd.to = s)
  <2>1. CASE sender.task = t.n
    <3>1. /\ snd = [sender EXCEPT !.at = "post", !.to = s, !.task = NoTask, !.since = Has(s)]
          /\ sender.at = "session"
      BY <1>1, <1>2, <2>1 DEF SenderOK
    <3>2. /\ snd \in SenderType(known \cup {NoSession}) /\ snd.at = "post" /\ snd.to = s
          /\ snd.task = NoTask /\ snd.batch = sender.batch
      BY <1>0, <1>1, <3>1 DEF SenderOK, SenderType, NoTask
    <3> HIDE DEF snd
    <3> QED BY <1>1, <3>1, <3>2 DEF SenderOK
  <2>2. CASE sender.task # t.n
    BY <1>1, <2>2
  <2> QED BY <2>1, <2>2
<1>7. \/ run.task = t.n /\ Flush(run, snd, s)
      \/ run.task # t.n /\ sender' = snd /\ UNCHANGED <<queue, pending, recorded, run>>
  BY DEF Resolve
<1> HIDE DEF snd, known
<1>8. Line(snd, queue) = Line(sender, queue)
  BY <1>6 DEF Line
<1>9. ~crossed => tasks' = {}
  BY <1>2 DEF IInv, Together, OneTask
<1>10. CASE run.task = t.n /\ Flush(run, snd, s)
  <2>1. /\ run \in RunType /\ run.at = "session" /\ run.problem \in Problem
        /\ Len(recorded) + (IF pending # NoProblem THEN 1 ELSE 0) + 1 <= MaxRecorded
    <3>1. run \in RunType /\ run.at = "session" /\ run.problem \in Problem /\ Waits(run)
      BY <1>2, <1>10 DEF IInv, RunOK, Waits
    <3> QED BY <3>1 DEF IInv, BoundOK
  <2>2. Books(Line(snd, queue), recorded, Claimed', Out, adrift, air) /\ s \in known
    BY <1>8 DEF known
  <2>3. /\ SenderOK(sender', known) /\ queue' \in Seq(Nat) /\ Sent(snd, sender', s)
        /\ Books(Line(sender', queue'), recorded', Claimed', Out, adrift, air)
        /\ \A p : (Clean(Line(snd, queue), recorded, Claimed', air, p)
                     /\ pending \in {p, NoProblem} /\ run.problem = p)
                   => (/\ Clean(Line(sender', queue'), recorded', Claimed', air, p)
                       /\ Waits(run') => run'.problem = p)
        /\ pending' = NoProblem /\ BoundOK(recorded', pending', run')
        /\ RunOK(run', sender') /\ run'.task = NoTask
        /\ FlushOK(run', sender', All(Claimed') \cup Out \cup adrift)
    BY <1>0, <1>1, <1>6, <1>10, <2>1, <2>2, Flushing
  <2>4. ~crossed' => Together'
    <3> SUFFICES ASSUME ~crossed, Together PROVE Together'
      BY <1>2 DEF IInv
    <3>1. /\ pending \in {problem, NoProblem} /\ run.problem = problem /\ s.problem = problem
          /\ Clean(Line(snd, queue), recorded, Claimed', air, problem)
      BY <1>8, <2>1 DEF Together, WorkApart, OneTask, Waits
    <3>2. /\ Clean(Line(sender', queue'), recorded', Claimed', air, problem)
          /\ Waits(run') => run'.problem = problem
      BY <2>3, <3>1
    <3>3. WorkApart(pending', sender', run', s, problem)
      BY <1>6, <2>3, <3>1, <3>2 DEF Together, WorkApart, Sent
    <3>4. OneTask(tasks', inFlight', sender', run', saved', problem)
      BY <1>9 DEF OneTask
    <3> QED BY <1>2, <3>2, <3>3, <3>4 DEF Together, budget
  <2> QED BY <1>2, <1>3, <1>4, <1>5, <2>3, <2>4 DEF IInv, Gone, budget, known
<1>11. CASE run.task # t.n /\ sender' = snd /\ UNCHANGED <<queue, pending, recorded, run>>
  <2>1. RunOK(run, snd) /\ FlushOK(run, snd, Gone)
    BY <1>6 DEF IInv, RunOK, FlushOK
  <2>2. ~crossed' => Together'
    <3> SUFFICES ASSUME ~crossed, Together PROVE Together'
      BY <1>2 DEF IInv
    <3>1. s.problem = problem
      BY DEF Together, OneTask
    <3>2. WorkApart(pending, snd, run, s, problem)
      BY <1>6, <3>1 DEF Together, WorkApart
    <3>3. OneTask(tasks', inFlight', sender', run', saved', problem)
      BY <1>9 DEF OneTask
    <3> QED BY <1>2, <1>8, <1>11, <3>2, <3>3 DEF Together, budget
  <2> QED BY <1>2, <1>3, <1>4, <1>6, <1>8, <1>5, <1>11, <2>1, <2>2 DEF IInv, budget, known
<1> QED BY <1>7, <1>10, <1>11

\* NoSession is no session.
LEMMA NoSessionIs ==
  NoSession \notin Session
  BY SessionAssumption DEF Session

\* A session that is alive is adopted, and the invariant kept.
LEMMA GetSessionStep ==
  ASSUME IInv, NEW t \in tasks, GetSession(t) PROVE IInv'
<1>1. /\ t.saved \in DOMAIN Claimed /\ t.saved.problem = t.problem /\ Resolve(t, t.saved)
      /\ saved' = saved /\ Claimed' = Claimed /\ OrphansOK'
  BY ServerSame DEF IInv, TasksOK, GetSession, Resolve, given
<1>2. t.saved # NoSession
  BY <1>1, NoSessionIs DEF IInv, SessionsOK
<1>3. /\ Books(Line(sender, queue), recorded, Claimed, Out, adrift, air)
      /\ SessionsOK(DOMAIN Claimed, saved, resuming, sid)
      /\ ~crossed => FewSessions(DOMAIN Claimed, saved, blips)
  BY DEF IInv, Together
<1> QED BY <1>1, <1>2, <1>3, Resolving

\* A session that is created is a new one, and counted.
LEMMA Numbering ==
  ASSUME NumbersOK(DOMAIN store), NEW p \in Problem, NEW new, new = NewSession(p)
  PROVE  /\ new \notin DOMAIN store /\ new \in Session /\ new.problem = p
         /\ NumbersOK(DOMAIN store \cup {new})
<1> DEFINE known == DOMAIN store
           known2 == known \cup {new}
           c == Cardinality(Of(known, p))
<1>1. /\ known \subseteq Session /\ IsFiniteSet(known)
      /\ \A q : IsFiniteSet(Of(known, q)) /\ Cardinality(Of(known, q)) \in Nat
  <2>1. \A q : Of(known, q) \in SUBSET known
    BY DEF Of
  <2>2. known \subseteq Session /\ IsFiniteSet(known)
    BY DEF NumbersOK
  <2> HIDE DEF known
  <2> QED BY <2>1, <2>2, FS_Subset, FS_CardinalityType
<1>2. new = [problem |-> p, n |-> c + 1]
  BY DEF NewSession, Of
<1>3. new \in Session /\ new.problem = p /\ new.n = c + 1 /\ c \in Nat
  BY <1>1, <1>2 DEF Session
<1>4. new \notin known
  BY <1>3 DEF NumbersOK
<1>5. Of(known2, p) = Of(known, p) \cup {new} /\ \A q : q # p => Of(known2, q) = Of(known, q)
  BY <1>3 DEF Of
<1>6. Cardinality(Of(known2, p)) = c + 1
  <2>1. new \notin Of(known, p)
    BY <1>4 DEF Of
  <2> HIDE DEF known, known2
  <2> QED BY <1>1, <1>5, <2>1, FS_AddElement DEF c
<1>7. NumbersOK(known2)
  <2>1. IsFiniteSet(known2)
    BY <1>1, FS_AddElement
  <2>2. ASSUME NEW x \in known2 PROVE x.n <= Cardinality(Of(known2, x.problem))
    <3>1. CASE x = new
      BY <1>3, <1>6, <3>1
    <3>2. CASE x \in known /\ x.problem = p
      <4>1. x.n <= c /\ x.n \in Nat
        BY <1>1, <3>2 DEF NumbersOK, Session
      <4> QED BY <1>3, <1>6, <3>2, <4>1
    <3>3. CASE x \in known /\ x.problem # p
      BY <1>5, <3>3 DEF NumbersOK
    <3> QED BY <3>1, <3>2, <3>3
  <2>3. known2 \subseteq Session
    BY <1>1, <1>3
  <2> HIDE DEF known2
  <2> QED BY <2>1, <2>2, <2>3 DEF NumbersOK
<1> QED BY <1>3, <1>4, <1>7

\* A session that somebody gets to know is remembered, and one more of its problem.
LEMMA Opened ==
  ASSUME NEW known, NEW sv, NEW rs, NEW s, SessionsOK(known, sv, rs, s),
         NEW p \in Problem, NEW new \in Session, new \notin known, new.problem = p,
         NEW sv2, sv2 = [sv EXCEPT ![p] = new]
  PROVE  /\ SessionsOK(known \cup {new}, sv2, rs, s)
         /\ \A b \in Nat : (FewSessions(known, sv, b) /\ sv[p] = NoSession)
                             => FewSessions(known \cup {new}, sv2, b)
<1> DEFINE known2 == known \cup {new}
           c == Cardinality(Of(known, p))
<1>1. /\ known \subseteq Session /\ IsFiniteSet(known)
      /\ \A q : IsFiniteSet(Of(known, q)) /\ Cardinality(Of(known, q)) \in Nat
  <2>1. \A q : Of(known, q) \in SUBSET known
    BY DEF Of
  <2>2. known \subseteq Session /\ IsFiniteSet(known)
    BY DEF SessionsOK
  <2> QED BY <2>1, <2>2, FS_Subset, FS_CardinalityType
<1>3. c \in Nat
  BY <1>1
<1>5. Of(known2, p) = Of(known, p) \cup {new} /\ \A q : q # p => Of(known2, q) = Of(known, q)
  BY DEF Of
<1>6. Cardinality(Of(known2, p)) = c + 1
  <2>1. new \notin Of(known, p)
    BY DEF Of
  <2> HIDE DEF known2
  <2> QED BY <1>1, <1>5, <2>1, FS_AddElement DEF c
<1>7. new # NoSession
  BY NoSessionIs
<1>8. /\ sv2 \in [Problem -> known2 \cup {NoSession}] /\ sv2[p] = new
      /\ \A q \in Problem : q # p => sv2[q] = sv[q]
  BY DEF SessionsOK
<1>9. SessionsOK(known2, sv2, rs, s)
  <2>1. IsFiniteSet(known2) /\ known2 \subseteq Session
    BY <1>1, FS_AddElement
  <2>4. \A q \in Problem : sv2[q] # NoSession => sv2[q].problem = q
    BY <1>8 DEF SessionsOK
  <2>5. \A x \in rs : x.problem \in Problem /\ x.session \in Of(known2, x.problem)
    BY DEF SessionsOK, Of
  <2>6. s \in known2 \cup {NoSession}
    BY DEF SessionsOK
  <2> HIDE DEF known2
  <2> QED BY <1>8, <2>1, <2>4, <2>5, <2>6 DEF SessionsOK
<1>10. ASSUME NEW b \in Nat, FewSessions(known, sv, b), sv[p] = NoSession
       PROVE  FewSessions(known2, sv2, b)
  <2> SUFFICES ASSUME NEW q \in Problem
               PROVE  Cardinality(Of(known2, q)) <= b + (IF sv2[q] = NoSession THEN 0 ELSE 1)
    BY DEF FewSessions
  <2>1. Cardinality(Of(known, q)) <= b + (IF sv[q] = NoSession THEN 0 ELSE 1)
    BY <1>10 DEF FewSessions
  <2>2. CASE q = p
    <3>1. c <= b
      BY <1>3, <1>10, <2>1, <2>2
    <3> HIDE DEF c
    <3>2. c + 1 <= b + 1
      BY <1>3, <3>1
    <3> QED BY <1>6, <1>7, <1>8, <2>2, <3>2
  <2>3. CASE q # p
    BY <1>5, <1>8, <2>1, <2>3
  <2> QED BY <2>2, <2>3
<1> QED BY <1>9, <1>10

\* A session that is created is adopted, and the invariant kept.
LEMMA CreateSessionStep ==
  ASSUME IInv, NEW t \in tasks, CreateSession(t) PROVE IInv'
<1> DEFINE new == NewSession(t.problem)
<1>1. /\ t.at = "create" /\ t.problem \in Problem /\ blips \in Nat
      /\ store' = WithSession(new) /\ saved' = [saved EXCEPT ![t.problem] = new]
      /\ Resolve(t, new) /\ orphans' = orphans /\ unclaimed' = unclaimed
  BY DEF IInv, TasksOK, TaskType, CreateSession, Resolve, given
<1>2. /\ new = NewSession(t.problem) /\ SessionsOK(DOMAIN Claimed, saved, resuming, sid)
      /\ NumbersOK(DOMAIN store) /\ orphans \subseteq DOMAIN store
  BY DEF IInv, OrphansOK
<1> HIDE DEF new
<1>3. /\ new \notin DOMAIN store /\ new \in Session /\ new.problem = t.problem
      /\ NumbersOK(DOMAIN store \cup {new})
  BY <1>1, <1>2, Numbering
<1>4. /\ new \notin DOMAIN Claimed
      /\ DOMAIN Claimed' = DOMAIN Claimed \cup {new} /\ Claimed'[new] = <<>>
      /\ \A s \in DOMAIN Claimed : Claimed'[s] = Claimed[s]
  BY <1>1, <1>2, <1>3 DEF Claimed, WithSession
<1>8. /\ SessionsOK(DOMAIN Claimed', saved', resuming, sid)
      /\ \A b \in Nat : (FewSessions(DOMAIN Claimed, saved, b) /\ saved[t.problem] = NoSession)
                             => FewSessions(DOMAIN Claimed', saved', b)
  <2> DEFINE known == DOMAIN Claimed
  <2>1. SessionsOK(known, saved, resuming, sid) /\ new \notin known
    BY <1>2, <1>4
  <2> HIDE DEF known
  <2>2. /\ SessionsOK(known \cup {new}, saved', resuming, sid)
        /\ \A b \in Nat : (FewSessions(known, saved, b) /\ saved[t.problem] = NoSession)
                             => FewSessions(known \cup {new}, saved', b)
    BY <1>1, <1>3, <2>1, Opened
  <2> QED BY <1>4, <2>2 DEF known
<1>9. OrphansOK'
  <2>1. DOMAIN store' = DOMAIN store \cup {new} /\ \A s \in DOMAIN store : store'[s] = store[s]
    BY <1>1, <1>3 DEF WithSession
  <2> QED BY <1>1, <1>3, <2>1 DEF IInv, OrphansOK
<1>5. /\ Books(Line(sender, queue), recorded, Claimed', Out, adrift, air)
      /\ All(Claimed') = All(Claimed)
      /\ \A p : Clean(Line(sender, queue), recorded, Claimed, air, p)
                  => Clean(Line(sender, queue), recorded, Claimed', air, p)
  BY <1>4, BooksOpen DEF IInv
<1>6. ~crossed => FewSessions(DOMAIN Claimed', saved', blips)
  <2> SUFFICES ASSUME Together PROVE FewSessions(DOMAIN Claimed', saved', blips)
    BY DEF IInv
  <2>1. saved[t.problem] = NoSession /\ FewSessions(DOMAIN Claimed, saved, blips)
    BY <1>1 DEF Together, OneTask
  <2> QED BY <1>1, <1>8, <2>1
<1>7. new # NoSession
  BY <1>3, NoSessionIs
<1> QED BY <1>1, <1>3, <1>4, <1>5, <1>6, <1>7, <1>8, <1>9, Resolving

\* A session nobody is told of keeps the invariant: it is empty, and stays it.
LEMMA CreateOrphanStep ==
  ASSUME IInv, NEW p \in Problem, CreateOrphan(p) PROVE IInv'
<1> DEFINE new == NewSession(p)
<1>1. /\ new = NewSession(p) /\ store' = WithSession(new) /\ orphans' = orphans \cup {new}
      /\ unclaimed' = [unclaimed EXCEPT ![p] = @ - 1] /\ unclaimed[p] > 0
      /\ NumbersOK(DOMAIN store) /\ orphans \subseteq DOMAIN store
  BY DEF CreateOrphan, IInv, OrphansOK
<1> HIDE DEF new
<1>2. new \notin DOMAIN store /\ NumbersOK(DOMAIN store \cup {new})
  BY <1>1, Numbering
<1>3. /\ DOMAIN store' = DOMAIN store \cup {new} /\ store'[new] = <<>>
      /\ \A s \in DOMAIN store : store'[s] = store[s]
  BY <1>1, <1>2 DEF WithSession
<1>4. Claimed' = Claimed
  <2>1. DOMAIN store' \ orphans' = DOMAIN store \ orphans
    BY <1>1, <1>2, <1>3
  <2> QED BY <1>3, <2>1 DEF Claimed
<1>5. OrphansOK'
  <2>1. unclaimed' \in [Problem -> Nat]
    BY <1>1 DEF IInv, OrphansOK
  <2> QED BY <1>1, <1>2, <1>3, <2>1 DEF IInv, OrphansOK
<1>6. RollbacksOK' /\ Out' = Out
  BY DEF IInv, RollbacksOK, Out, CreateOrphan
<1>7. ~crossed' => Together'
  BY <1>4 DEF IInv, Together, CreateOrphan, page, budget
<1> QED BY <1>4, <1>5, <1>6, <1>7 DEF IInv, CreateOrphan, page, budget, Gone

\* Another problem: the queue is dropped, and what is under way marks the change as crossed.
LEMMA SwitchStep ==
  ASSUME IInv, NEW p \in Problem, Switch(p) PROVE IInv'
<1>1. /\ sender.batch \in Seq(Nat) /\ queue \in Seq(Nat)
      /\ Books(Line(sender, queue), recorded, Claimed, Out, adrift, air)
  BY IdleIs DEF IInv
<1>2. /\ sender.batch \in Seq(DOMAIN recorded) /\ Ascending(sender.batch)
      /\ Ids(Line(sender, queue)) = Ids(sender.batch) \cup Ids(queue)
  BY <1>1, BooksParts DEF Line
<1>s. Claimed' = Claimed /\ Out' = Out \cup Ids(queue) /\ OrphansOK' /\ RollbacksOK'
  BY DEF Switch, network, Claimed, Out, IInv, OrphansOK, RollbacksOK
<1> USE <1>s
<1>3. /\ problem' = p /\ sid' = NoSession /\ inFlight' = NoTask /\ queue' = <<>>
      /\ pending' = NoProblem
      /\ resuming' = resuming \cup ResumeCalls(p)
      /\ UNCHANGED <<sender, tasks, run, network, recorded, adrift, blips>>
      /\ (crossed' <=> crossed \/ sender # Idle \/ Waits(run))
  BY DEF Switch, Waits
<1>4. Line(sender', queue') = sender.batch /\ queue' \in Seq(Nat)
  BY <1>1, <1>3, ConcatEmptySeq DEF Line
<1>5. /\ Books(sender.batch, recorded, Claimed, Out', adrift, air)
      /\ \A x : Clean(Line(sender, queue), recorded, Claimed, air, x)
                  => Clean(sender.batch, recorded, Claimed, air, x)
  <2> DEFINE l == Line(sender, queue)
  <2>1. /\ Books(l, recorded, Claimed, Out, adrift, air) /\ Ids(sender.batch) \subseteq Ids(l)
        /\ Ids(l) \subseteq Ids(sender.batch) \cup Out' \cup adrift
        /\ Out \subseteq Out' /\ adrift \subseteq adrift
    BY <1>1, <1>2, <1>3
  <2> HIDE DEF l
  <2>2. /\ Books(sender.batch, recorded, Claimed, Out', adrift, air)
        /\ \A x : Clean(l, recorded, Claimed, air, x) => Clean(sender.batch, recorded, Claimed, air, x)
    BY <1>2, <2>1, BooksHold
  <2> QED BY <2>2 DEF l
<1>6. BoundOK(recorded', pending', run')
  <2>1. Len(recorded) \in Nat
    BY DEF IInv, BoundOK
  <2> DEFINE a == IF pending # NoProblem THEN 1 ELSE 0
             b == IF Waits(run) THEN 1 ELSE 0
  <2>2. a \in Nat /\ b \in Nat /\ Len(recorded) + a + b <= MaxRecorded /\ MaxRecorded \in Nat
    BY BoundAssumption DEF IInv, BoundOK
  <2> HIDE DEF a, b
  <2>3. Len(recorded) + 0 + b <= MaxRecorded
    BY <2>1, <2>2
  <2> QED BY <1>3, <2>3 DEF IInv, BoundOK, b
<1>7. SessionsOK(DOMAIN Claimed', saved', resuming', sid')
  <2>1. \A x \in ResumeCalls(p) : x.problem \in Problem /\ x.session \in Of(DOMAIN Claimed, x.problem)
    BY DEF IInv, SessionsOK, ResumeCalls, Of
  <2> QED BY <1>3, <2>1 DEF IInv, SessionsOK, network
<1>8. FlushOK(run, sender, Gone')
  <2>1. Gone \subseteq Gone'
    BY <1>3 DEF Gone, network
  <2> QED BY <2>1, FlushMore DEF IInv
<1>9. TasksOK(tasks', inFlight', DOMAIN Claimed')
  BY <1>3 DEF IInv, TasksOK, network
<1>10. ~crossed' => Together'
  <2> SUFFICES ASSUME Together, sender = Idle, ~Waits(run) PROVE Together'
    BY <1>3 DEF IInv
  <2>1. sender.task = NoTask /\ sender.at = "idle" /\ run.task = NoTask /\ Ids(sender.batch) = {}
    BY DEF Idle, IInv, RunOK, Waits, Ids
  <2>2. tasks = {}
    BY <2>1 DEF Together, OneTask, IInv, TasksOK, TaskType, NoTask
  <2>3. OneTask(tasks', inFlight', sender', run', saved', problem')
    BY <1>3, <2>2 DEF OneTask
  <2>4. WorkApart(pending', sender', run', sid', problem')
    BY <1>3, <2>1 DEF WorkApart
  <2>5. Clean(Line(sender', queue'), recorded', Claimed', air', problem')
    BY <1>3, <1>4, <2>1 DEF Together, Clean, network
  <2> QED BY <1>3, <2>3, <2>4, <2>5 DEF Together, network
<1> QED BY <1>3, <1>4, <1>5, <1>6, <1>7, <1>8, <1>9, <1>10 DEF IInv, network

\* Leaving the page: everything it held is dropped, and what was posted may arrive.
LEMMA LeaveStep ==
  ASSUME IInv, NEW p \in Problem, Leave(p) PROVE IInv'
<1> DEFINE l == Line(sender, queue)
<1>1. /\ sender.batch \in Seq(Nat) /\ queue \in Seq(Nat)
      /\ Books(l, recorded, Claimed, Out, adrift, air)
  BY IdleIs DEF IInv
<1>2. /\ sender.batch \in Seq(DOMAIN recorded) /\ Ascending(sender.batch)
      /\ Ids(sender.batch) \subseteq Ids(l)
  BY <1>1, BooksParts DEF Line
<1>3. /\ problem' = p /\ sid' = NoSession /\ inFlight' = NoTask /\ queue' = <<>>
      /\ pending' = NoProblem /\ sender' = Idle /\ tasks' = {} /\ run' = NoRun
      /\ resuming' = ResumeCalls(p)
      /\ UNCHANGED <<saved, recorded, crossed, blips>>
  BY DEF Leave
<1>s. Claimed' = Claimed /\ Out' = Out \cup Ids(l) /\ RollbacksOK'
  BY DEF Leave, PutBack, Line, Claimed, Out, IInv, RollbacksOK
<1>o. OrphansOK'
  <2>1. ASSUME NEW x \in Problem PROVE Cardinality(Creating(x)) \in Nat
    <3>1. Creating(x) \in SUBSET tasks /\ IsFiniteSet(tasks)
      BY DEF Creating, IInv, TasksOK
    <3> QED BY <3>1, FS_Subset, FS_CardinalityType
  <2>2. unclaimed \in [Problem -> Nat]
    BY DEF IInv, OrphansOK
  <2>3. unclaimed' \in [Problem -> Nat]
    BY <2>1, <2>2 DEF Leave
  <2> QED BY <2>3 DEF Leave, IInv, OrphansOK
<1> USE <1>s
<1> HIDE DEF l
<1>4. /\ Books(l, recorded, Claimed, Out, adrift', air') /\ adrift \subseteq adrift'
      /\ \A x : (Clean(l, recorded, Claimed, air, x) /\ (sender.at = "post" => sender.to.problem = x))
                  => Clean(l, recorded, Claimed, air', x)
  <2>1. CASE sender.at = "post"
    <3> DEFINE x == [to |-> sender.to, batch |-> sender.batch]
    <3>1. /\ x = [to |-> sender.to, batch |-> sender.batch] /\ air' = air \cup {x}
          /\ adrift' = adrift \cup Ids(sender.batch) /\ sender.to \in DOMAIN Claimed
      BY <2>1 DEF Leave, IInv, SenderOK
    <3> HIDE DEF x
    <3>2. /\ Books(l, recorded, Claimed, Out, adrift \cup Ids(sender.batch), air \cup {x})
          /\ \A y : (Clean(l, recorded, Claimed, air, y) /\ sender.to.problem = y)
                   => Clean(l, recorded, Claimed, air \cup {x}, y)
      BY <1>1, <1>2, <3>1, BooksSend
    <3> QED BY <2>1, <3>1, <3>2
  <2>2. CASE sender.at # "post"
    <3>1. air' = air /\ adrift' = adrift
      BY <2>2 DEF Leave
    <3> QED BY <1>1, <3>1
  <2> QED BY <2>1, <2>2
<1>5. Line(sender', queue') = <<>> /\ Ids(<<>>) = {} /\ <<>> \in Seq(Nat) /\ <<>> \in Seq(DOMAIN recorded)
      /\ Ascending(<<>>)
  BY <1>3, ConcatEmptySeq DEF Line, Idle, Ids, Ascending
<1>6. /\ Books(<<>>, recorded, Claimed, Out', adrift', air')
      /\ \A x : Clean(l, recorded, Claimed, air', x) => Clean(<<>>, recorded, Claimed, air', x)
  <2>1. /\ Out \subseteq Out' /\ adrift' \subseteq adrift'
        /\ Ids(<<>>) \subseteq Ids(l) /\ Ids(l) \subseteq Ids(<<>>) \cup Out' \cup adrift'
    BY <1>3, <1>5
  <2> DEFINE none == <<>>
  <2>2. /\ Books(l, recorded, Claimed, Out, adrift', air')
        /\ none \in Seq(DOMAIN recorded) /\ Ascending(none) /\ Ids(none) \subseteq Ids(l)
        /\ Ids(l) \subseteq Ids(none) \cup Out' \cup adrift'
    BY <1>4, <1>5, <2>1
  <2> HIDE DEF none
  <2>3. /\ Books(none, recorded, Claimed, Out', adrift', air')
        /\ \A x : Clean(l, recorded, Claimed, air', x) => Clean(none, recorded, Claimed, air', x)
    BY <2>1, <2>2, BooksHold
  <2> QED BY <2>3 DEF none
<1>7. NoRun \in RunType /\ NoRun.at = "idle" /\ NoRun.task = NoTask /\ ~Waits(NoRun)
  BY DEF NoRun, RunType, NoTask, Waits
<1>8. BoundOK(recorded', pending', run')
  <2>1. Len(recorded) \in Nat /\ MaxRecorded \in Nat
    BY BoundAssumption DEF IInv, BoundOK
  <2> DEFINE a == IF pending # NoProblem THEN 1 ELSE 0
             b == IF Waits(run) THEN 1 ELSE 0
  <2>2. a \in Nat /\ b \in Nat /\ Len(recorded) + a + b <= MaxRecorded
    BY DEF IInv, BoundOK
  <2> HIDE DEF a, b
  <2>3. Len(recorded) + 0 + 0 <= MaxRecorded
    BY <2>1, <2>2
  <2> QED BY <1>3, <1>7, <2>3 DEF IInv, BoundOK
<1>9. SessionsOK(DOMAIN Claimed', saved', resuming', sid')
  <2>1. \A x \in ResumeCalls(p) : x.problem \in Problem /\ x.session \in Of(DOMAIN Claimed, x.problem)
    BY DEF IInv, SessionsOK, ResumeCalls, Of
  <2> QED BY <1>3, <2>1 DEF IInv, SessionsOK
<1>10. RunOK(run', sender') /\ FlushOK(run', sender', Gone') /\ SenderOK(sender', DOMAIN Claimed')
  BY <1>3, <1>7, IdleOK DEF RunOK, FlushOK
<1>11. TasksOK(tasks', inFlight', DOMAIN Claimed')
  BY <1>3, FS_EmptySet DEF TasksOK
<1>12. ~crossed' => Together'
  <2> SUFFICES ASSUME Together PROVE Together'
    BY <1>3 DEF IInv
  <2>1. Clean(<<>>, recorded, Claimed, air', problem)
    BY <1>4, <1>6 DEF Together, WorkApart, l
  <2>2. Clean(<<>>, recorded, Claimed, air', p)
    BY <1>5, <2>1 DEF Clean
  <2>3. OneTask(tasks', inFlight', sender', run', saved', problem')
    BY <1>3 DEF OneTask
  <2>4. WorkApart(pending', sender', run', sid', problem')
    BY <1>3, <1>7 DEF WorkApart, Idle
  <2> QED BY <1>3, <1>5, <2>2, <2>3, <2>4 DEF Together
<1> QED BY <1>o, <1>3, <1>5, <1>6, <1>8, <1>9, <1>10, <1>11, <1>12 DEF IInv

\* Hiding the page: the first batch is adrift, the others are dropped.
LEMMA HideStep ==
  ASSUME IInv, Hide PROVE IInv'
<1> DEFINE a == FirstBatch(Drained)
           b == Rest(Drained)
           l == Line(sender, Drained)
<1>1. /\ sender.batch \in Seq(Nat) /\ queue \in Seq(Nat)
      /\ pending \in Problem \cup {NoProblem}
      /\ Books(sender.batch \o queue, recorded, Claimed, Out, adrift, air)
      /\ sid \in DOMAIN Claimed
  BY IdleIs DEF IInv, BoundOK, Line, SessionsOK, Hide
<1>2. /\ Drained \in Seq(Nat) /\ DrainedHistory \in Seq(Problem)
      /\ Books(l, DrainedHistory, Claimed, Out, adrift, air)
      /\ Len(DrainedHistory) = Len(recorded) + (IF pending # NoProblem THEN 1 ELSE 0)
      /\ \A p : (Clean(Line(sender, queue), recorded, Claimed, air, p) /\ pending \in {p, NoProblem})
                     => Clean(l, DrainedHistory, Claimed, air, p)
  BY <1>1, Draining DEF Line
<1>3. a \in Seq(Nat) /\ b \in Seq(Nat) /\ Drained = a \o b
  BY <1>2, SplitOff
<1>4. /\ sender.batch \in Seq(DOMAIN DrainedHistory) /\ Ascending(sender.batch)
      /\ Drained \in Seq(DOMAIN DrainedHistory) /\ Ascending(Drained)
      /\ Ids(l) = Ids(sender.batch) \cup Ids(Drained)
  BY <1>1, <1>2, BooksParts DEF Line
<1> HIDE DEF a, b, l
<1>5. /\ a \in Seq(DOMAIN DrainedHistory) /\ Ascending(a)
      /\ Ids(Drained) = Ids(a) \cup Ids(b)
  <2>1. DOMAIN DrainedHistory \in SUBSET Nat
    BY <1>2
  <2>2. a \o b \in Seq(DOMAIN DrainedHistory) /\ Ascending(a \o b)
    BY <1>3, <1>4
  <2> QED BY <1>3, <2>1, <2>2, PartsOf
<1>6. /\ pending' = NoProblem /\ queue' = <<>> /\ recorded' = DrainedHistory
      /\ air' = air \cup {[to |-> sid, batch |-> a]} /\ adrift' = adrift \cup Ids(a)
      /\ UNCHANGED <<problem, sid, sender, tasks, inFlight, resuming, run, saved,
                     crossed, blips>>
  BY DEF Hide, a
<1>s. Claimed' = Claimed /\ Out' = Out \cup Ids(b) /\ OrphansOK' /\ RollbacksOK'
  BY DEF Hide, b, Claimed, Out, IInv, OrphansOK, RollbacksOK
<1> USE <1>s
<1>7. /\ Books(l, DrainedHistory, Claimed, Out, adrift', air')
      /\ \A p : (Clean(l, DrainedHistory, Claimed, air, p) /\ sid.problem = p)
                   => Clean(l, DrainedHistory, Claimed, air', p)
  <2> DEFINE x == [to |-> sid, batch |-> a]
  <2>1. x = [to |-> sid, batch |-> a] /\ air' = air \cup {x} /\ Ids(a) \subseteq Ids(l)
    BY <1>4, <1>5, <1>6
  <2> HIDE DEF x
  <2>2. /\ Books(l, DrainedHistory, Claimed, Out, adrift \cup Ids(a), air \cup {x})
        /\ \A y : (Clean(l, DrainedHistory, Claimed, air, y) /\ sid.problem = y)
                 => Clean(l, DrainedHistory, Claimed, air \cup {x}, y)
    BY <1>1, <1>2, <1>5, <2>1, BooksSend
  <2> QED BY <1>6, <2>1, <2>2
<1>8. /\ Books(sender.batch, DrainedHistory, Claimed, Out', adrift', air')
      /\ \A p : Clean(l, DrainedHistory, Claimed, air', p)
                  => Clean(sender.batch, DrainedHistory, Claimed, air', p)
  <2>1. /\ Out \subseteq Out' /\ adrift' \subseteq adrift'
        /\ Ids(sender.batch) \subseteq Ids(l)
        /\ Ids(l) \subseteq Ids(sender.batch) \cup Out' \cup adrift'
    BY <1>4, <1>5, <1>6
  <2> QED BY <1>4, <1>7, <2>1, BooksHold
<1>9. Line(sender', queue') = sender.batch /\ queue' \in Seq(Nat)
  BY <1>1, <1>6, ConcatEmptySeq DEF Line
<1>10. BoundOK(recorded', pending', run')
  <2>0. BoundOK(recorded, pending, run) /\ recorded \in Seq(Problem)
    BY DEF IInv, BoundOK
  <2> DEFINE c == IF pending # NoProblem THEN 1 ELSE 0
             d == IF Waits(run) THEN 1 ELSE 0
  <2>1. c \in Nat /\ d \in Nat /\ Len(recorded) \in Nat /\ Len(recorded) + c + d <= MaxRecorded
    <3>1. Len(recorded) \in Nat /\ c \in Nat /\ d \in Nat
      BY <2>0
    <3>2. Len(recorded) + c + d <= MaxRecorded
      BY <2>0 DEF BoundOK
    <3> QED BY <3>1, <3>2
  <2>3. Len(DrainedHistory) = Len(recorded) + c /\ MaxRecorded \in Nat
    BY <1>2, BoundAssumption
  <2> HIDE DEF c, d
  <2>2. Len(DrainedHistory) + 0 + d <= MaxRecorded
    BY <2>1, <2>3
  <2> QED BY <1>2, <1>6, <2>2 DEF BoundOK, d
<1>11. FlushOK(run, sender, Gone')
  <2>1. Gone \subseteq Gone'
    BY <1>6 DEF Gone
  <2> QED BY <2>1, FlushMore DEF IInv
<1>12. ~crossed' => Together'
  <2> SUFFICES ASSUME Together PROVE Together'
    BY <1>6 DEF IInv
  <2>1. pending \in {problem, NoProblem} /\ sid.problem = problem
    BY <1>1, NoSessionIs DEF Together, WorkApart, IInv, SessionsOK
  <2>2. Clean(sender.batch, DrainedHistory, Claimed, air', problem)
    BY <1>2, <1>7, <1>8, <2>1 DEF Together
  <2>3. WorkApart(pending', sender', run', sid', problem')
    BY <1>6 DEF Together, WorkApart
  <2> QED BY <1>6, <1>9, <2>2, <2>3 DEF Together
<1> QED BY <1>6, <1>8, <1>9, <1>10, <1>11, <1>12 DEF IInv

\* The initial state satisfies the invariant.
LEMMA InitOK ==
  ASSUME Init PROVE IInv
<1>1. /\ recorded = <<>> /\ queue = <<>> /\ store = <<>> /\ pending = NoProblem /\ problem \in Problem
      /\ sender = Idle /\ run = NoRun /\ tasks = {} /\ inFlight = NoTask /\ resuming = {}
      /\ air = {} /\ orphans = {} /\ Out = {} /\ rolledBack = {} /\ adrift = {} /\ sid = NoSession /\ blips = 0
      /\ saved = [p \in Problem |-> NoSession]
      /\ unclaimed = [p \in Problem |-> 0]
  BY DEF Init, Out
<1>2. DOMAIN store = {} /\ DOMAIN Claimed = {} /\ DOMAIN recorded = {} /\ Len(recorded) = 0 /\ recorded \in Seq(Problem)
      /\ queue \in Seq(Nat)
  BY <1>1 DEF Claimed
<1>3. NoRun \in RunType /\ NoRun.at = "idle" /\ NoRun.task = NoTask /\ ~Waits(NoRun)
  BY DEF NoRun, RunType, NoTask, Waits
<1>4. BoundOK(recorded, pending, run)
  BY <1>1, <1>2, <1>3, BoundAssumption DEF BoundOK
<1>5. SenderOK(sender, DOMAIN Claimed)
  BY <1>1, IdleOK
<1>6. RunOK(run, sender) /\ FlushOK(run, sender, Gone)
  BY <1>1, <1>3 DEF RunOK, FlushOK
<1>7. TasksOK(tasks, inFlight, DOMAIN Claimed)
  BY <1>1, FS_EmptySet DEF TasksOK
<1>8. SessionsOK(DOMAIN Claimed, saved, resuming, sid)
  BY <1>1, <1>2, FS_EmptySet DEF SessionsOK
<1>9. Line(sender, queue) = <<>> /\ <<>> \in Seq(DOMAIN recorded) /\ Ascending(<<>>) /\ Ids(<<>>) = {}
  BY <1>1, ConcatEmptySeq DEF Line, Idle, Ascending, Ids
<1>10. Books(Line(sender, queue), recorded, Claimed, Out, adrift, air)
  BY <1>1, <1>2, <1>9 DEF Books, EventsOK
<1>11. Together
  <2>1. Clean(Line(sender, queue), recorded, Claimed, air, problem)
    BY <1>1, <1>2, <1>9 DEF Clean
  <2>2. WorkApart(pending, sender, run, sid, problem)
    BY <1>1, <1>3 DEF WorkApart, Idle
  <2>3. OneTask(tasks, inFlight, sender, run, saved, problem)
    BY <1>1 DEF OneTask
  <2>4. FewSessions(DOMAIN Claimed, saved, blips)
    <3>1. \A p : Of(DOMAIN Claimed, p) = {}
      BY <1>2 DEF Of
    <3>2. \A p \in Problem : saved[p] = NoSession /\ blips = 0
      BY <1>1
    <3> QED BY <3>1, <3>2, FS_EmptySet DEF FewSessions
  <2> QED BY <2>1, <2>2, <2>3, <2>4 DEF Together
<1>12. OrphansOK /\ RollbacksOK
  <2>1. NumbersOK(DOMAIN store)
    BY <1>2, FS_EmptySet DEF NumbersOK
  <2> QED BY <1>1, <2>1 DEF OrphansOK, RollbacksOK
<1> QED BY <1>1, <1>2, <1>4, <1>5, <1>6, <1>7, <1>8, <1>10, <1>11, <1>12 DEF IInv

\* Every step keeps the invariant.
LEMMA StepOK ==
  ASSUME IInv, [Next]_vars PROVE IInv'
<1>1. CASE UNCHANGED vars
  <2>1. Claimed' = Claimed /\ Out' = Out /\ OrphansOK' /\ RollbacksOK'
    BY <1>1, ServerSame DEF vars, page, network, history, budget
  <2> QED BY <1>1, <2>1 DEF vars, page, network, history, budget, IInv, Together, Gone
<1>2. ASSUME NEW t \in tasks,
             GetSession(t) \/ GetSessionFails(t) \/ CreateSession(t) \/ CreateFails(t)
      PROVE  IInv'
  BY <1>2, GetSessionStep, GetSessionFailsStep, CreateSessionStep, CreateFailsStep
<1>3. ASSUME NEW x \in resuming, Resumed(x) \/ ResumeFails(x) PROVE IInv'
  BY <1>3, ResumedStep, ResumeFailsStep
<1>4. ASSUME NEW x \in air, Deliver(x) \/ Lose(x) PROVE IInv'
  BY <1>4, DeliverStep, LoseStep
<1>5. ASSUME NEW p \in Problem, Switch(p) \/ Leave(p) PROVE IInv'
  BY <1>5, SwitchStep, LeaveStep
<1>9. ASSUME NEW p \in Problem, CreateOrphan(p) PROVE IInv'
  BY <1>9, CreateOrphanStep
<1>6. CASE Edit \/ Debounce \/ RecordEvent \/ Interval
  BY <1>6, EditStep, DebounceStep, RecordEventStep, IntervalStep
<1>7. CASE Click \/ FlushTimeout \/ JudgeAnswers
  BY <1>7, ClickStep, FlushTimeoutStep, JudgeAnswersStep
<1>8. CASE PostOk \/ PostCollides \/ Wait \/ Retry \/ GiveUp \/ Hide
  BY <1>8, PostOkStep, PostCollidesStep, WaitStep, RetryStep, GiveUpStep, HideStep
<1> QED BY <1>1, <1>2, <1>3, <1>4, <1>5, <1>6, <1>7, <1>8, <1>9 DEF Next, SessionStep

\* The invariant from which the theorems below follow: what the page holds is in order
\* and above what is stored, and nothing is mixed or lost on the way to the store.
THEOREM Invariance == Spec => []IInv
<1>1. Init => IInv
  BY InitOK
<1>2. IInv /\ [Next]_vars => IInv'
  BY StepOK
<1> QED BY <1>1, <1>2, PTL DEF Spec

-----------------------------------------------------------------------------
(* What follows from the invariant                                         *)

\* A sequence over a set is one over a larger set.
LEMMA Wider ==
  ASSUME NEW S, NEW T, S \subseteq T, NEW l \in Seq(S)
  PROVE  l \in Seq(T)
<1>1. l = [i \in 1..Len(l) |-> l[i]] /\ Len(l) \in Nat /\ \A i \in 1..Len(l) : l[i] \in T
  OBVIOUS
<1> QED BY <1>1

\* What IInv says of the events, in terms of the batch and the queue.
LEMMA EventsAre ==
  ASSUME IInv
  PROVE  /\ DOMAIN recorded \subseteq EventId
         /\ queue \in Seq(DOMAIN recorded) /\ sender.batch \in Seq(DOMAIN recorded)
         /\ Ids(Line(sender, queue)) = Ids(sender.batch) \cup Ids(queue)
         /\ \A s \in DOMAIN Claimed : Claimed[s] \in Seq(DOMAIN recorded)
         /\ \A x \in air : /\ x.to \in DOMAIN Claimed /\ x = [to |-> x.to, batch |-> x.batch]
                           /\ x.batch \in Seq(DOMAIN recorded)
<1>1. /\ sender.batch \in Seq(Nat) /\ queue \in Seq(Nat)
      /\ Books(sender.batch \o queue, recorded, Claimed, Out, adrift, air)
  BY IdleIs DEF IInv, Line
<1>2. /\ queue \in Seq(DOMAIN recorded) /\ sender.batch \in Seq(DOMAIN recorded)
      /\ Ids(Line(sender, queue)) = Ids(sender.batch) \cup Ids(queue)
  BY <1>1, BooksParts DEF Line
<1>3. DOMAIN recorded \subseteq EventId
  <2>1. BoundOK(recorded, pending, run) /\ recorded \in Seq(Problem) /\ MaxRecorded \in Nat
    BY BoundAssumption DEF IInv, BoundOK
  <2> DEFINE a == IF pending # NoProblem THEN 1 ELSE 0
             b == IF Waits(run) THEN 1 ELSE 0
  <2>2. Len(recorded) \in Nat /\ a \in Nat /\ b \in Nat
    BY <2>1
  <2>3. Len(recorded) + a + b <= MaxRecorded
    BY <2>1 DEF BoundOK
  <2> HIDE DEF a, b
  <2>4. Len(recorded) <= MaxRecorded
    BY <2>1, <2>2, <2>3
  <2> QED BY <2>1, <2>4 DEF EventId
<1> QED BY <1>1, <1>2, <1>3 DEF Books, EventsOK

\* What is known of the sessions is what is known of all of them: the others are empty.
LEMMA ClaimedIs ==
  ASSUME IInv
  PROVE  /\ DOMAIN Claimed = DOMAIN store \ orphans
         /\ \A s \in DOMAIN Claimed : Claimed[s] = store[s]
         /\ \A s \in orphans : store[s] = <<>>
         /\ All(Claimed) = Stored
<1>1. /\ DOMAIN Claimed = DOMAIN store \ orphans
      /\ \A s \in DOMAIN Claimed : Claimed[s] = store[s]
      /\ \A s \in orphans : store[s] = <<>>
  BY DEF Claimed, IInv, OrphansOK
<1>2. \A s \in orphans : Ids(store[s]) = {}
  BY <1>1 DEF Ids
<1> QED BY <1>1, <1>2 DEF All, Stored

\* The refs of the hook have their types, and a batch holds no more than the server
\* accepts and is posted again no more than MaxRetries times (send), for any limits.
THEOREM TypeCorrect == Spec => []TypeOK
<1>1. IInv => TypeOK
  <2> SUFFICES ASSUME IInv PROVE TypeOK
    OBVIOUS
  <2>1. queue \in Seq(EventId)
    BY EventsAre, Wider
  <2>2. ASSUME NEW s \in DOMAIN store PROVE s \in Session /\ store[s] \in Seq(EventId)
    <3>1. s \in Session
      BY DEF IInv, OrphansOK, NumbersOK
    <3>2. CASE s \in orphans
      <4>1. store[s] = <<>> /\ <<>> \in Seq(EventId)
        BY <3>2, ClaimedIs
      <4> QED BY <3>1, <4>1
    <3>3. CASE s \notin orphans
      BY <3>1, <3>3, ClaimedIs, EventsAre, Wider
    <3> QED BY <3>2, <3>3
  <2>3. air \subseteq Request
    <3> SUFFICES ASSUME NEW x \in air PROVE x \in Request
      OBVIOUS
    <3>1. x.to \in DOMAIN store /\ x = [to |-> x.to, batch |-> x.batch] /\ x.batch \in Seq(EventId)
      BY ClaimedIs, EventsAre, Wider
    <3> QED BY <3>1 DEF Request
  <2>4. /\ sender.at \in {"idle", "session", "post", "wait"} /\ Len(sender.batch) <= MaxBatch
        /\ sender.retries \in 0..MaxRetries
    BY DEF IInv, SenderOK, SenderType
  <2>5. run.at \in {"idle", "session", "flush", "judge"}
    BY DEF IInv, RunOK, RunType
  <2>6. problem \in Problem /\ pending \in Problem \cup {NoProblem}
    BY DEF IInv, BoundOK
  <2>7. inFlight \in {t.n : t \in tasks} \cup {NoTask}
    BY DEF IInv, TasksOK
  <2>8. sid \in DOMAIN store \cup {NoSession} /\ saved \in [Problem -> DOMAIN store \cup {NoSession}]
    BY ClaimedIs DEF IInv, SessionsOK
  <2>9. unclaimed \in [Problem -> Nat]
    BY DEF IInv, OrphansOK
  <2> QED BY <2>1, <2>2, <2>3, <2>4, <2>5, <2>6, <2>7, <2>8, <2>9 DEF TypeOK
<1> QED BY <1>1, Invariance, PTL

\* Of the events whose delivery was awaited, those recorded first are stored first in
\* their session, whatever is retried, put back or lost.
THEOREM OrderKept == Spec => []OrderIsKept
<1>1. IInv => OrderIsKept
  <2> SUFFICES ASSUME IInv, NEW s \in DOMAIN store, NEW i \in DOMAIN store[s],
                      NEW j \in DOMAIN store[s], i < j /\ store[s][i] > store[s][j]
               PROVE  {store[s][i], store[s][j]} \cap adrift # {}
    BY DEF OrderIsKept
  <2>1. s \in DOMAIN Claimed /\ Claimed[s] = store[s]
    BY ClaimedIs
  <2> QED BY <2>1 DEF IInv, Books, EventsOK
<1> QED BY <1>1, Invariance, PTL

\* An event that was recorded is stored, or the page holds it, or it was dropped, sent
\* unattended or rolled back, the last only beside a request that was sent unattended:
\* none gets lost between queue, batch and retry.
THEOREM NothingForgotten == Spec => []NothingIsForgotten
<1>1. IInv => NothingIsForgotten
  <2> SUFFICES ASSUME IInv, NEW n \in DOMAIN recorded
               PROVE  n \in Stored \cup Ids(queue) \cup Ids(sender.batch) \cup dropped
                              \cup adrift \cup rolledBack
    BY DEF NothingIsForgotten, IInv, RollbacksOK
  <2>1. DOMAIN recorded \subseteq Ids(Line(sender, queue)) \cup All(Claimed) \cup Out \cup adrift
    BY DEF IInv, Books, EventsOK
  <2> QED BY <2>1, ClaimedIs, EventsAre DEF Out
<1> QED BY <1>1, Invariance, PTL

\* Unless the student changed the problem while a request was under way, every stored
\* event was recorded for the problem of its session.
THEOREM ProblemsApart == Spec => []ProblemsAreApart
<1>1. IInv => ProblemsAreApart
  <2> SUFFICES ASSUME IInv, ~crossed, NEW s \in DOMAIN store, NEW n \in Ids(store[s])
               PROVE  recorded[n] = s.problem
    BY DEF ProblemsAreApart
  <2>1. s \in DOMAIN Claimed /\ Claimed[s] = store[s]
    BY ClaimedIs DEF Ids
  <2> QED BY <2>1 DEF IInv, Together, Clean
<1> QED BY <1>1, Invariance, PTL

\* ensureSession shares the session that is being created: a problem has more than one
\* only by as many as requests for one failed, and those it does not know of stay empty.
THEOREM SessionsShared == Spec => []SessionsAreShared
<1>1. IInv => SessionsAreShared
  <2> SUFFICES ASSUME IInv, ~crossed, NEW p \in Problem
               PROVE  Cardinality({s \in DOMAIN store \ orphans : s.problem = p}) <= 1 + blips
    BY ClaimedIs DEF SessionsAreShared
  <2> DEFINE known == DOMAIN Claimed
             c == Cardinality(Of(known, p))
  <2>1. blips \in Nat /\ c <= blips + (IF saved[p] = NoSession THEN 0 ELSE 1)
    BY DEF IInv, Together, FewSessions
  <2>2. IsFiniteSet(known)
    BY DEF IInv, SessionsOK
  <2>3. Of(known, p) \subseteq known /\ Of(known, p) = {s \in DOMAIN store \ orphans : s.problem = p}
    BY ClaimedIs DEF Of
  <2> HIDE DEF known
  <2>4. c \in Nat
    BY <2>2, <2>3, FS_Subset, FS_CardinalityType
  <2> HIDE DEF c
  <2>5. c <= 1 + blips
    BY <2>1, <2>4
  <2> QED BY <2>3, <2>5 DEF c
<1> QED BY <1>1, Invariance, PTL

\* When the judge is asked after a flush that could and did send everything, all that
\* was recorded before the click is stored, dropped, adrift or rolled back.
THEOREM EditsFirst == Spec => []EditsPrecedeResults
<1>1. IInv => EditsPrecedeResults
  <2> SUFFICES ASSUME IInv, run.at = "judge", run.whole PROVE 1..run.upto \subseteq Settled
    BY DEF EditsPrecedeResults
  <2>1. 1..run.upto \subseteq Gone
    BY DEF IInv, FlushOK
  <2> QED BY <2>1, ClaimedIs DEF Gone, Out, Settled
<1> QED BY <1>1, Invariance, PTL
=============================================================================
