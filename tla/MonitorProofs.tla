---------------------------- MODULE MonitorProofs ----------------------------
(***************************************************************************)
(* Proofs about Monitor for any number of requests, any thresholds and any *)
(* inputs of students and judge.                                           *)
(*                                                                         *)
(* What a request decides is right for the rows it has read (DecisionIs,   *)
(* by the rules and their order); rows are only appended, so it stays      *)
(* right while other requests write (JustifiedStays), until it is recorded *)
(* together with the number of rows it is based on.  The invariant says so *)
(* of every request that is about to record and of every trigger that is   *)
(* recorded; the properties follow from the second half.                   *)
(***************************************************************************)
EXTENDS Monitor, FiniteSetTheorems, SequenceTheorems, WellFoundedInduction, TLAPS

\* seconds_between is the difference, or 0 when the clock of the row is ahead.
LEMMA ElapsedIs ==
  ASSUME NEW from \in Int, NEW to \in Int
  PROVE  Elapsed(from, to) = IF to >= from THEN to - from ELSE 0
<1> DEFINE d == to - from
<1>1. d \in Int /\ Elapsed(from, to) = Max({0, d})
  BY DEF Elapsed
<1>2. Max({0, d}) = IF d >= 0 THEN d ELSE 0
  BY <1>1 DEF Max
<1> QED BY <1>1, <1>2

-----------------------------------------------------------------------------
(* Smallest and largest elements of sets of numbers.                       *)

\* A set of naturals that is not empty has a smallest element.
LEMMA Smallest ==
  ASSUME NEW T, T \subseteq Nat, T # {}
  PROVE  \E x \in T : \A y \in T : x <= y
<1> DEFINE R == OpToRel(<, Nat)
<1>1. R = {pair \in Nat \X Nat : pair[1] < pair[2]}
  BY DEF OpToRel
<1>2. IsWellFoundedOn(R, Nat)
  BY NatLessThanWellFounded
<1> HIDE DEF R
<1>3. PICK x \in T : \A y \in T : <<y, x>> \notin R
  BY <1>2, WFMin
<1>4. ASSUME NEW y \in T, y < x PROVE FALSE
  <2>1. <<y, x>> \in Nat \X Nat /\ <<y, x>>[1] = y /\ <<y, x>>[2] = x
    OBVIOUS
  <2> QED BY <1>1, <1>3, <1>4, <2>1
<1> QED BY <1>3, <1>4

\* A set of naturals with a bound has a largest element.
LEMMA Largest ==
  ASSUME NEW n \in Nat, NEW T, T \subseteq 0..n, T # {}
  PROVE  \E x \in T : \A y \in T : x >= y
<1> DEFINE U == {n - x : x \in T}
<1>0. \A x \in T : n - x \in Nat /\ n - x \in U
  OBVIOUS
<1>1. U \subseteq Nat /\ U # {}
  BY <1>0
<1>2. PICK u \in U : \A v \in U : u <= v
  <2> HIDE DEF U
  <2> QED BY <1>1, Smallest
<1>3. PICK x \in T : u = n - x
  OBVIOUS
<1>4. ASSUME NEW y \in T PROVE x >= y
  <2>1. u <= n - y
    BY <1>0, <1>2
  <2> QED BY <1>3, <2>1
<1> QED BY <1>4

\* Max of such a set.
LEMMA MaxIsLargest ==
  ASSUME NEW n \in Nat, NEW T, T \subseteq 0..n, T # {}
  PROVE  Max(T) \in T /\ \A y \in T : Max(T) >= y
  BY Largest DEF Max

\* Min of a set of naturals.
LEMMA MinIsSmallest ==
  ASSUME NEW T, T \subseteq Nat, T # {}
  PROVE  Min(T) \in T /\ \A y \in T : Min(T) <= y
  BY Smallest DEF Min

-----------------------------------------------------------------------------
(* Sequences of rows.                                                      *)

IsSeq(s) == s \in Seq({s[i] : i \in DOMAIN s})

\* A sequence has a length, and its positions are numbered up to it.
LEMMA SeqShape ==
  ASSUME NEW s, IsSeq(s)
  PROVE  Len(s) \in Nat /\ DOMAIN s = 1..Len(s)
  BY DEF IsSeq

\* Whatever is in Seq(S) is a sequence of its own elements.
LEMMA SeqOf ==
  ASSUME NEW S, NEW s \in Seq(S)
  PROVE  IsSeq(s)
<1> DEFINE T == {s[i] : i \in DOMAIN s}
<1>1. Len(s) \in Nat /\ DOMAIN s = 1..Len(s) /\ s = [i \in 1..Len(s) |-> s[i]]
  OBVIOUS
<1>2. \A i \in 1..Len(s) : s[i] \in T
  BY <1>1
<1> HIDE DEF T
<1>3. s \in [1..Len(s) -> T]
  BY <1>1, <1>2
<1>4. s \in Seq(T)
  BY <1>1, <1>3
<1> QED BY <1>4 DEF IsSeq, T

\* One more row.
LEMMA Appended ==
  ASSUME NEW s, IsSeq(s), NEW e
  PROVE  /\ IsSeq(Append(s, e))
         /\ Len(Append(s, e)) = Len(s) + 1
         /\ \A i \in 1..Len(s) : Append(s, e)[i] = s[i]
         /\ Append(s, e)[Len(s) + 1] = e
<1> DEFINE S == {s[i] : i \in DOMAIN s} \cup {e}
<1>1. s \in Seq(S)
  <2>1. {s[i] : i \in DOMAIN s} \subseteq S
    OBVIOUS
  <2> HIDE DEF S
  <2> QED BY <2>1, SeqMonotonic DEF IsSeq
<1>2. e \in S
  OBVIOUS
<1> HIDE DEF S
<1>3. Append(s, e) \in Seq(S)
  BY <1>1, <1>2, AppendProperties
<1>4. IsSeq(Append(s, e))
  BY <1>3, SeqOf
<1> QED BY <1>1, <1>2, <1>4, AppendProperties

\* The first n rows.
LEMMA FirstRows ==
  ASSUME NEW s, IsSeq(s), NEW n \in 0..Len(s)
  PROVE  /\ IsSeq(SubSeq(s, 1, n))
         /\ Len(SubSeq(s, 1, n)) = n
         /\ \A i \in 1..n : SubSeq(s, 1, n)[i] = s[i]
<1> DEFINE S == {s[i] : i \in DOMAIN s}
<1>1. Len(s) \in Nat /\ DOMAIN s = 1..Len(s)
  BY SeqShape
<1>2. \A i \in 1..n : s[i] \in S
  BY <1>1
<1>3. n \in Int /\ 1 \in Int
  BY <1>1
<1> HIDE DEF S
<1>4. /\ SubSeq(s, 1, n) \in Seq(S)
      /\ Len(SubSeq(s, 1, n)) = IF 1 <= n THEN n - 1 + 1 ELSE 0
      /\ \A i \in 1..(n - 1 + 1) : SubSeq(s, 1, n)[i] = s[1 + i - 1]
  BY <1>2, <1>3, SubSeqProperties
<1>5. IsSeq(SubSeq(s, 1, n))
  BY <1>4, SeqOf
<1>6. n - 1 + 1 = n /\ \A i \in 1..n : 1 + i - 1 = i
  BY <1>1
<1> QED BY <1>1, <1>4, <1>5, <1>6

\* LastSeq is 0 or the seq of the last row of these types.
LEMMA LastSeqIs ==
  ASSUME NEW s, IsSeq(s), NEW types
  PROVE  /\ LastSeq(s, types) \in 0..Len(s)
         /\ LastSeq(s, types) # 0 => s[LastSeq(s, types)].type \in types
         /\ \A i \in 1..Len(s) : s[i].type \in types => i <= LastSeq(s, types)
<1> DEFINE T == {0} \cup {i \in DOMAIN s : s[i].type \in types}
<1>1. Len(s) \in Nat /\ DOMAIN s = 1..Len(s)
  BY SeqShape
<1>2. T \subseteq 0..Len(s) /\ T # {}
  BY <1>1
<1>3. LastSeq(s, types) = Max(T)
  BY DEF LastSeq
<1>4. \A i \in T : i = 0 \/ s[i].type \in types
  OBVIOUS
<1>5. \A i \in 1..Len(s) : s[i].type \in types => i \in T
  BY <1>1
<1> HIDE DEF T
<1>6. Max(T) \in T /\ \A y \in T : Max(T) >= y
  BY <1>1, <1>2, MaxIsLargest
<1> QED BY <1>1, <1>2, <1>3, <1>4, <1>5, <1>6

\* _cooldown: what is left of it never exceeds it, and when nothing is left the
\* last trigger is that long ago or a result came after it.
LEMMA RemainingIs ==
  ASSUME NEW s, IsSeq(s), \A i \in 1..Len(s) : s[i].at \in Nat, NEW t \in Nat
  PROVE  /\ Remaining(s, t) \in 0..CooldownSeconds
         /\ CooldownSeconds > 0 /\ ~(Remaining(s, t) > 0) =>
               \A i \in 1..Len(s) :
                  /\ s[i].type = "AGENT_TRIGGER"
                  /\ \A k \in (i + 1)..Len(s) : s[k].type \notin {"TEST_RESULT", "AGENT_TRIGGER"}
                  => t - s[i].at >= CooldownSeconds
<1> DEFINE trigger == LastSeq(s, {"AGENT_TRIGGER"})
           result == LastSeq(s, {"TEST_RESULT"})
<1>1. CooldownSeconds \in Nat /\ Len(s) \in Nat
  BY ConfigAssumption, SeqShape
<1>2. /\ trigger \in 0..Len(s)
      /\ \A i \in 1..Len(s) : s[i].type = "AGENT_TRIGGER" => i <= trigger
      /\ trigger # 0 => s[trigger].type = "AGENT_TRIGGER"
  BY LastSeqIs
<1>3. /\ result \in 0..Len(s)
      /\ result # 0 => s[result].type = "TEST_RESULT"
  BY LastSeqIs
<1>4. Remaining(s, t) = IF trigger = 0 \/ result > trigger THEN 0
                        ELSE Max({0, CooldownSeconds - Elapsed(s[trigger].at, t)})
  BY DEF Remaining
<1> HIDE DEF trigger, result
<1>5. CASE trigger = 0 \/ result > trigger
  <2>1. Remaining(s, t) = 0
    BY <1>4, <1>5
  <2>2. ASSUME NEW i \in 1..Len(s), s[i].type = "AGENT_TRIGGER",
               \A k \in (i + 1)..Len(s) : s[k].type \notin {"TEST_RESULT", "AGENT_TRIGGER"}
        PROVE  FALSE
    <3>1. i <= trigger /\ trigger # 0 /\ result > trigger /\ result # 0
      BY <1>1, <1>2, <1>3, <1>5, <2>2
    <3>2. result \in (i + 1)..Len(s)
      BY <1>1, <1>2, <1>3, <3>1
    <3> QED BY <1>3, <2>2, <3>1, <3>2
  <2> QED BY <1>1, <2>1, <2>2
<1>6. CASE ~(trigger = 0 \/ result > trigger)
  <2> DEFINE e == Elapsed(s[trigger].at, t)
             left == CooldownSeconds - e
  <2>1. s[trigger].at \in Nat
    BY <1>1, <1>2, <1>6
  <2>2. e = (IF t >= s[trigger].at THEN t - s[trigger].at ELSE 0) /\ e \in Nat
    BY <2>1, ElapsedIs
  <2>3. Remaining(s, t) = Max({0, left}) /\ left \in Int
    BY <1>1, <1>4, <1>6, <2>2
  <2> HIDE DEF left
  <2>4. Max({0, left}) = IF left >= 0 THEN left ELSE 0
    BY <2>3 DEF Max
  <2>5. ASSUME NEW i \in 1..Len(s), s[i].type = "AGENT_TRIGGER", CooldownSeconds > 0,
               ~(Remaining(s, t) > 0),
               \A k \in (i + 1)..Len(s) : s[k].type \notin {"TEST_RESULT", "AGENT_TRIGGER"}
        PROVE  t - s[i].at >= CooldownSeconds
    <3>1. i = trigger
      BY <1>1, <1>2, <1>6, <2>5
    <3>2. e >= CooldownSeconds
      BY <1>1, <2>2, <2>3, <2>4, <2>5 DEF left
    <3> QED BY <1>1, <2>1, <2>2, <2>5, <3>1, <3>2
  <2>6. Remaining(s, t) \in 0..CooldownSeconds
    BY <1>1, <2>2, <2>3, <2>4 DEF left
  <2> QED BY <2>5, <2>6
<1> QED BY <1>5, <1>6

-----------------------------------------------------------------------------
(* Decisions.                                                              *)

\* The features that compare with the last trigger, and those about scores.
LEMMA FeaturesIs ==
  ASSUME NEW rows, NEW history, NEW t, NEW started
  PROVE  LET f == Features(rows, history, t, started)
         IN  /\ f.hint = LastSeq(rows, {"HINT_REQUEST"})
             /\ f.trigger = LastSeq(rows, {"AGENT_TRIGGER"})
             /\ f.editsSinceTrigger = CountAfter(rows, {"CODE_SNAPSHOT"}, f.trigger)
             /\ f.activitySinceTrigger = CountAfter(rows, ActivityType, f.trigger)
  BY Zenon DEF Features

\* The keys of the two trailing runs, and the scores better than the one before
Signs(rows) == [i \in Scored(rows) |-> Signature(rows[i])]
Failing(rows) == [i \in Observed(rows) |-> rows[i].status \in ErrorStatus]
Better(rows) == {k \in Scored(rows) : /\ \E m \in Scored(rows) : m < k
                                      /\ rows[k].passed > rows[Before(Scored(rows), k)].passed}

\* The feature of equal scores.
LEMMA SameResultIs ==
  ASSUME NEW rows, NEW history, NEW t, NEW started
  PROVE  Features(rows, history, t, started).sameResult = Cardinality(TrailingRun(Signs(rows)))
  BY Zenon DEF Features, Signs

\* The feature of errors.
LEMMA ErrorsIs ==
  ASSUME NEW rows, NEW history, NEW t, NEW started
  PROVE  Features(rows, history, t, started).errors =
            IF LastOf(rows, Observed(rows)).status \in ErrorStatus
              THEN Cardinality(TrailingRun(Failing(rows)))
            ELSE 0
  BY Zenon DEF Features, Failing

\* The feature of improvement.
LEMMA ImprovedIs ==
  ASSUME NEW rows, NEW history, NEW t, NEW started
  PROVE  Features(rows, history, t, started).improved <=>
            \E i \in Better(rows) : Cardinality({k \in Scored(rows) : k > i}) <= 1
  BY Zenon DEF Features, Better

\* The rule that decides applies, and none before it does.
LEMMA ClassifyIs ==
  ASSUME NEW f
  PROVE  \E i \in 1..13 : /\ Classify(f) = Chain[i] /\ Rules(f)[Chain[i]].when
                          /\ \A m \in 1..13 : Rules(f)[Chain[m]].when => i <= m
<1> DEFINE T == {i \in DOMAIN Chain : Rules(f)[Chain[i]].when}
<1>1. DOMAIN Chain = 1..13
  BY DEF Chain
<1>2. Chain[13] = "R9"
  BY DEF Chain
<1>3. Rules(f)["R9"].when = TRUE
  BY Zenon DEF Rules, Says
<1>4. 13 \in T
  BY <1>1, <1>2, <1>3
<1>5. T \subseteq Nat /\ T # {}
  BY <1>1, <1>4
<1>6. Min(T) \in T /\ \A m \in T : Min(T) <= m
  <2> HIDE DEF T
  <2> QED BY <1>5, MinIsSmallest
<1>7. Classify(f) = Chain[Min(T)]
  BY DEF Classify
<1> QED BY <1>1, <1>6, <1>7

\* Something counted after seq is there.
LEMMA CountedIsThere ==
  ASSUME NEW rows, IsSeq(rows), NEW types, NEW seq, CountAfter(rows, types, seq) >= 1
  PROVE  \E k \in 1..Len(rows) : k > seq /\ rows[k].type \in types
<1> DEFINE T == {i \in DOMAIN rows : i > seq /\ rows[i].type \in types}
<1>1. CountAfter(rows, types, seq) = Cardinality(T)
  BY DEF CountAfter
<1>2. T # {}
  BY <1>1, FS_EmptySet
<1> QED BY <1>2, SeqShape

\* A trailing run is what its set of positions has from some position on.
LEMMA TrailingRunIs ==
  ASSUME NEW n \in Nat, NEW keys, DOMAIN keys \subseteq 1..n, TrailingRun(keys) # {}
  PROVE  \E i \in TrailingRun(keys) : TrailingRun(keys) = {m \in DOMAIN keys : m >= i}
<1> DEFINE run == TrailingRun(keys)
<1>1. run = {i \in DOMAIN keys : \A j \in DOMAIN keys : j >= i => keys[j] = keys[Max(DOMAIN keys)]}
  BY DEF TrailingRun
<1>2. run \subseteq Nat
  <2>1. run \subseteq DOMAIN keys
    BY <1>1
  <2> QED BY <2>1
<1> HIDE DEF run
<1>3. PICK i \in run : \A m \in run : i <= m
  BY <1>2, Smallest DEF run
<1>4. ASSUME NEW m \in DOMAIN keys, m >= i PROVE m \in run
  <2>1. \A j \in DOMAIN keys : j >= m => j >= i
    BY <1>1, <1>3, <1>4
  <2> QED BY <1>1, <1>4, <2>1
<1>5. run = {m \in DOMAIN keys : m >= i}
  BY <1>1, <1>3, <1>4
<1> QED BY <1>3, <1>5 DEF run

\* All its keys are that of the last position.
LEMMA TrailingKeys ==
  ASSUME NEW keys, NEW m \in TrailingRun(keys), \A i \in DOMAIN keys : i \in Int
  PROVE  m \in DOMAIN keys /\ keys[m] = keys[Max(DOMAIN keys)]
  BY DEF TrailingRun

-----------------------------------------------------------------------------
(* Scores and failures among the first n rows.                             *)

IsScore(row) == row.type = "TEST_RESULT" /\ row.status \in ScoredStatus
IsObserved(row) == row.type = "TEST_RESULT" /\ row.status \notin SystemStatus

LastScore(rows, i, n) == i \in 1..n /\ IsScore(rows[i]) /\ \A m \in (i + 1)..n : ~IsScore(rows[m])

\* The last score is better than the one before
Improves(rows, n) ==
    \E k \in 1..n : \E i \in 1..(k - 1) :
        LastScore(rows, k, n) /\ LastScore(rows, i, k - 1) /\ rows[k].passed > rows[i].passed

\* Enough equal scores with no other between them, or enough errors with no
\* score between them, at the end of the rows
Fails(rows, n) ==
    \E i \in 1..n :
        LET seen == {m \in 1..n : m >= i /\ IsObserved(rows[m])}
            scored == {m \in 1..n : m >= i /\ IsScore(rows[m])}
        IN  \/ /\ Cardinality(scored) >= SameResultThreshold
               /\ \A m, k \in scored : Signature(rows[m]) = Signature(rows[k])
            \/ Cardinality(seen) >= ConsecutiveErrorThreshold /\ scored = {}

\* What _classify knows of scores: an improvement passes the progress guard, and
\* the rules of repeated failure have their runs.
LEMMA ScoresAre ==
  ASSUME NEW rows, IsSeq(rows), NEW history, NEW t, NEW f, f = Features(rows, history, t, 0)
  PROVE  /\ Improves(rows, Len(rows)) => f.improved
         /\ f.sameResult >= SameResultThreshold => Fails(rows, Len(rows))
         /\ f.errors >= ConsecutiveErrorThreshold => Fails(rows, Len(rows))
<1> DEFINE n == Len(rows)
           S == Scored(rows)
           O == Observed(rows)
           signs == Signs(rows)
           failing == Failing(rows)
           better == Better(rows)
<1>1. n \in Nat /\ DOMAIN rows = 1..n
  BY SeqShape
<1>2. /\ S = {m \in 1..n : IsScore(rows[m])}
      /\ O = {m \in 1..n : IsObserved(rows[m])}
  BY <1>1 DEF Scored, Observed, Results, IsScore, IsObserved
<1>3. /\ signs = [i \in S |-> Signature(rows[i])]
      /\ failing = [i \in O |-> rows[i].status \in ErrorStatus]
      /\ better = {k \in S : (\E m \in S : m < k) /\ rows[k].passed > rows[Before(S, k)].passed}
  BY Zenon DEF Signs, Failing, Better
<1>4. f.sameResult = Cardinality(TrailingRun(signs))
  BY SameResultIs
<1>5. f.errors = IF LastOf(rows, O).status \in ErrorStatus THEN Cardinality(TrailingRun(failing)) ELSE 0
  BY ErrorsIs
<1>6. f.improved <=> \E i \in better : Cardinality({k \in S : k > i}) <= 1
  BY ImprovedIs
<1> HIDE DEF n, S, O, signs, failing, better
<1>8. ASSUME Improves(rows, n) PROVE f.improved
  <2>1. PICK k \in 1..n : \E i \in 1..(k - 1) :
           LastScore(rows, k, n) /\ LastScore(rows, i, k - 1) /\ rows[k].passed > rows[i].passed
    BY <1>8 DEF Improves
  <2>2. PICK i \in 1..(k - 1) :
           LastScore(rows, k, n) /\ LastScore(rows, i, k - 1) /\ rows[k].passed > rows[i].passed
    BY <2>1
  <2>3. i \in S /\ k \in S /\ i < k
    BY <1>1, <1>2, <2>2 DEF LastScore
  <2> DEFINE earlier == {m \in S : m < k}
  <2>4. earlier \subseteq 0..n /\ i \in earlier
    BY <1>1, <1>2, <2>3
  <2>5. \A m \in earlier : m <= i
    BY <1>1, <1>2, <2>2 DEF LastScore
  <2>6. Max(earlier) = i
    <3>1. i \in Nat /\ \A m \in earlier : m \in Nat
      BY <1>1, <2>4
    <3> HIDE DEF earlier
    <3>2. Max(earlier) \in earlier /\ \A m \in earlier : Max(earlier) >= m
      BY <1>1, <2>4, MaxIsLargest
    <3>3. Max(earlier) <= i /\ Max(earlier) >= i /\ Max(earlier) \in Nat
      BY <2>4, <2>5, <3>1, <3>2
    <3> QED BY <3>1, <3>3
  <2>7. Before(S, k) = i
    BY <2>6 DEF Before
  <2>8. k \in better
    BY <1>3, <2>2, <2>3, <2>7
  <2>9. {m \in S : m > k} = {}
    BY <1>1, <1>2, <2>2 DEF LastScore
  <2>10. Cardinality({m \in S : m > k}) <= 1
    BY <2>9, FS_EmptySet
  <2> QED BY <1>6, <2>8, <2>10
<1>7. /\ DOMAIN signs = S /\ DOMAIN failing = O
      /\ S \subseteq 1..n /\ O \subseteq 1..n /\ S \subseteq 0..n /\ O \subseteq 0..n
      /\ \A m \in S : m \in Int
      /\ \A m \in O : m \in Int
  BY <1>3, <1>1, <1>2
<1>9. ASSUME f.sameResult >= SameResultThreshold PROVE Fails(rows, n)
  <2> DEFINE run == TrailingRun(signs)
  <2>1. Cardinality(run) >= SameResultThreshold /\ SameResultThreshold \in Nat \ {0}
    BY <1>4, <1>9, ConfigAssumption
  <2>2. run # {}
    <3> HIDE DEF run
    <3> QED BY <2>1, FS_EmptySet
  <2>3. PICK i \in run : run = {m \in S : m >= i}
    BY <1>1, <1>7, <2>2, TrailingRunIs
  <2>4. \A m \in run : m \in S /\ signs[m] = signs[Max(S)]
    BY <1>7, TrailingKeys
  <2> HIDE DEF run
  <2>5. {m \in 1..n : m >= i /\ IsScore(rows[m])} = run
    BY <1>2, <2>3
  <2>6. \A m, k \in run : Signature(rows[m]) = Signature(rows[k])
    BY <1>3, <2>4
  <2>7. i \in 1..n
    BY <1>7, <2>3, <2>4
  <2> QED BY <2>1, <2>5, <2>6, <2>7 DEF Fails
<1>10. ASSUME f.errors >= ConsecutiveErrorThreshold PROVE Fails(rows, n)
  <2> DEFINE run == TrailingRun(failing)
  <2>1. /\ LastOf(rows, O).status \in ErrorStatus
        /\ Cardinality(run) >= ConsecutiveErrorThreshold
        /\ ConsecutiveErrorThreshold \in Nat \ {0}
    BY <1>5, <1>10, ConfigAssumption
  <2>2. run # {}
    <3> HIDE DEF run
    <3> QED BY <2>1, FS_EmptySet
  <2>3. PICK i \in run : run = {m \in O : m >= i}
    BY <1>1, <1>7, <2>2, TrailingRunIs
  <2>4. \A m \in run : m \in O /\ failing[m] = failing[Max(O)]
    BY <1>7, TrailingKeys
  <2> HIDE DEF run
  <2>5. O # {}
    BY <2>1 DEF LastOf, NoResult, ErrorStatus
  <2>6. Max(O) \in O /\ rows[Max(O)].status \in ErrorStatus
    BY <1>1, <1>7, <2>1, <2>5, MaxIsLargest DEF LastOf
  <2>7. \A m \in run : rows[m].status \in ErrorStatus
    BY <1>3, <2>4, <2>6
  <2>8. {m \in 1..n : m >= i /\ IsObserved(rows[m])} = run
    BY <1>2, <2>3
  <2>9. {m \in 1..n : m >= i /\ IsScore(rows[m])} = {}
    BY <2>7, <2>8 DEF IsScore, IsObserved, ScoredStatus, SystemStatus, ErrorStatus
  <2>10. i \in 1..n
    BY <1>7, <2>3, <2>4
  <2> QED BY <2>1, <2>8, <2>9, <2>10 DEF Fails
<1> QED BY <1>8, <1>9, <1>10 DEF n

\* The rules that look at edits or at idleness, and the request for help
NewsRule == {"R0", "R7b", "R7c", "R7d"}

\* What each rule sets off.
LEMMA RuleTriggers ==
  ASSUME NEW f
  PROVE  /\ \A name \in {"R1s", "R3", "R4", "R8", "R9"} : Rules(f)[name].trigger = NoTrigger
         /\ \A name \in {"R2", "R7b"} : Rules(f)[name].trigger = "UNDERSTANDING_UNCERTAIN"
         /\ \A name \in {"R5", "R5b", "R6"} : Rules(f)[name].trigger = "REPEATED_FAILURE"
         /\ \A name \in {"R7", "R7c", "R7d"} : Rules(f)[name].trigger = "NO_PROGRESS"
<1>1. /\ Rules(f)["R1s"].trigger = NoTrigger
      /\ Rules(f)["R3"].trigger = NoTrigger
      /\ Rules(f)["R4"].trigger = NoTrigger
      /\ Rules(f)["R8"].trigger = NoTrigger
      /\ Rules(f)["R9"].trigger = NoTrigger
  BY Zenon DEF Rules, Says
<1>2. /\ Rules(f)["R2"].trigger = "UNDERSTANDING_UNCERTAIN"
      /\ Rules(f)["R7b"].trigger = "UNDERSTANDING_UNCERTAIN"
  BY Zenon DEF Rules, Says
<1>3. /\ Rules(f)["R5"].trigger = "REPEATED_FAILURE"
      /\ Rules(f)["R5b"].trigger = "REPEATED_FAILURE"
      /\ Rules(f)["R6"].trigger = "REPEATED_FAILURE"
  BY Zenon DEF Rules, Says
<1>4. /\ Rules(f)["R7"].trigger = "NO_PROGRESS"
      /\ Rules(f)["R7c"].trigger = "NO_PROGRESS"
      /\ Rules(f)["R7d"].trigger = "NO_PROGRESS"
  BY Zenon DEF Rules, Says
<1> QED BY <1>1, <1>2, <1>3, <1>4, Zenon

\* decide: nothing is left of the cooldown unless the student asked, the rules of
\* NewsRule want something the student did after the last trigger, an improvement
\* stops all rules but that of the large change, and a failure is a repeated one.
LEMMA DecisionIs ==
  ASSUME NEW rows, IsSeq(rows), NEW history, NEW t, NEW d, d = Decision(rows, history, t, 0)
  PROVE  /\ d.trigger \notin {"HELP_REQUESTED", NoTrigger} => ~(Remaining(rows, t) > 0)
         /\ d.rule \in NewsRule =>
               \E k \in 1..Len(rows) :
                  k > LastSeq(rows, {"AGENT_TRIGGER"}) /\ rows[k].type \in ActivityType
         /\ d.trigger \notin {"HELP_REQUESTED", "UNDERSTANDING_UNCERTAIN", NoTrigger} =>
               ~Improves(rows, Len(rows))
         /\ d.trigger = "REPEATED_FAILURE" => Fails(rows, Len(rows))
<1> DEFINE f == Features(rows, history, t, 0)
           trigger == LastSeq(rows, {"AGENT_TRIGGER"})
           News == \E k \in 1..Len(rows) : k > trigger /\ rows[k].type \in ActivityType
<1>1. /\ f.hint = LastSeq(rows, {"HINT_REQUEST"})
      /\ f.trigger = trigger
      /\ f.editsSinceTrigger = CountAfter(rows, {"CODE_SNAPSHOT"}, trigger)
      /\ f.activitySinceTrigger = CountAfter(rows, ActivityType, trigger)
  BY FeaturesIs
<1>2. trigger \in 0..Len(rows) /\ Len(rows) \in Nat
  BY LastSeqIs, SeqShape
<1>6. /\ Improves(rows, Len(rows)) => f.improved
      /\ f.sameResult >= SameResultThreshold => Fails(rows, Len(rows))
      /\ f.errors >= ConsecutiveErrorThreshold => Fails(rows, Len(rows))
  <2> HIDE DEF f
  <2> QED BY ScoresAre DEF f
<1> HIDE DEF f, trigger
<1>3. f.editsSinceTrigger >= 1 \/ f.activitySinceTrigger >= 1 => News
  BY <1>1, CountedIsThere DEF ActivityType
<1>4. CASE HintPending(f)
  <2>1. d.rule = "R0" /\ d.trigger = "HELP_REQUESTED"
    BY <1>4, Zenon DEF Decision, f
  <2> DEFINE hint == LastSeq(rows, {"HINT_REQUEST"})
  <2>2. hint \in 0..Len(rows) /\ (hint # 0 => rows[hint].type = "HINT_REQUEST")
    BY LastSeqIs
  <2>3. hint > trigger
    BY <1>1, <1>4 DEF HintPending
  <2> HIDE DEF hint
  <2>4. hint \in 1..Len(rows) /\ rows[hint].type \in ActivityType
    BY <1>2, <2>2, <2>3 DEF ActivityType
  <2> QED BY <2>1, <2>3, <2>4 DEF trigger
<1>5. CASE ~HintPending(f)
  <2> DEFINE name == Classify(f)
  <2>1. PICK i \in 1..13 : /\ name = Chain[i] /\ Rules(f)[name].when
                           /\ \A m \in 1..13 : Rules(f)[Chain[m]].when => i <= m
    BY ClassifyIs
  <2>2. name # "R0"
    BY <2>1 DEF Chain
  <2> HIDE DEF name
  <2>3. /\ d.rule = name
        /\ d.trigger = IF Remaining(rows, t) > 0 THEN NoTrigger ELSE Rules(f)[name].trigger
    BY <1>5, <2>2, Zenon DEF Decision, f, name
  <2>4. ASSUME name = "R7b" PROVE News
    <3>1. Rules(f)["R7b"].when <=> /\ f.unverified
                                  /\ f.sinceEdit >= PasteSettleSeconds
                                  /\ f.editsSinceTrigger >= 1
      BY Zenon DEF Rules, Says
    <3> QED BY <1>3, <2>1, <2>4, <3>1
  <2>5. ASSUME name = "R7c" PROVE News
    <3>1. Rules(f)["R7c"].when <=> /\ f.sameRegion >= EditChurnThreshold
                                  /\ f.sinceEdit >= IdleEditSeconds
                                  /\ f.editsSinceResult >= 1
                                  /\ f.editsSinceTrigger >= 1
      BY Zenon DEF Rules, Says
    <3> QED BY <1>3, <2>1, <2>5, <3>1
  <2>6. ASSUME name = "R7d" PROVE News
    <3>1. Rules(f)["R7d"].when <=> /\ IdleNoActivitySeconds > 0
                                  /\ f.sinceActivity >= IdleNoActivitySeconds
                                  /\ f.activitySinceTrigger >= 1
      BY Zenon DEF Rules, Says
    <3> QED BY <1>3, <2>1, <2>6, <3>1
  <2>7. d.rule \in NewsRule => News
    BY <2>2, <2>3, <2>4, <2>5, <2>6 DEF NewsRule, trigger
  <2>8. Improves(rows, Len(rows)) => name \in {"R1s", "R2", "R3"}
    <3>1. Rules(f)["R3"].when <=> f.delta > 0 \/ f.improved
      BY Zenon DEF Rules, Says
    <3>2. Improves(rows, Len(rows)) => Rules(f)[Chain[3]].when
      BY <1>6, <3>1 DEF Chain
    <3>3. Improves(rows, Len(rows)) => i \in 1..3
      BY <2>1, <3>2
    <3> QED BY <2>1, <3>3 DEF Chain
  <2>9. d.trigger \notin {"UNDERSTANDING_UNCERTAIN", NoTrigger} => ~Improves(rows, Len(rows))
    BY <2>3, <2>8, RuleTriggers
  <2>10. name \in {"R5", "R5b", "R6"} => Fails(rows, Len(rows))
    <3>1. /\ Rules(f)["R5"].when <=> /\ f.sameResult >= SameResultThreshold
                                     /\ f.sameRegion >= SameRegionThreshold
          /\ Rules(f)["R5b"].when <=> f.sameResult >= SameResultThreshold /\ f.editsInStreak = 0
          /\ Rules(f)["R6"].when <=> f.errors >= ConsecutiveErrorThreshold
      BY Zenon DEF Rules, Says
    <3> QED BY <1>6, <2>1, <3>1
  <2>11. d.trigger = "REPEATED_FAILURE" => name \in {"R5", "R5b", "R6"}
    <3>1. name \in {"R1s", "R2", "R3", "R4", "R5", "R5b", "R6", "R7", "R7b", "R7c", "R7d", "R8", "R9"}
      BY <2>1 DEF Chain
    <3> QED BY <2>3, <3>1, RuleTriggers DEF NoTrigger
  <2>12. d.trigger \notin {"HELP_REQUESTED", NoTrigger} => ~(Remaining(rows, t) > 0)
    BY <2>3
  <2> QED BY <2>7, <2>9, <2>10, <2>11, <2>12 DEF trigger
<1> QED BY <1>4, <1>5

-----------------------------------------------------------------------------
(* The inductive invariant.                                                *)

\* A trigger's basis is made of earlier rows
LogOK ==
    /\ IsSeq(log)
    /\ \A i \in 1..Len(log) : log[i].at \in 0..now
    /\ \A j \in 1..Len(log) : log[j].type = "AGENT_TRIGGER" => log[j].basis \in 0..(j - 1)

SnapsOK ==
    /\ IsSeq(snaps)
    /\ Len(snaps) >= 1
    /\ \A v \in 1..Len(snaps) : snaps[v].region \in Region

PlaceOK ==
    /\ now \in 0..MaxNow
    /\ pc \in [Slot -> Label]
    /\ start \in [Slot -> 0..now]
    /\ version \in [Slot -> 1..Len(snaps)]
    /\ upto \in [Slot -> 0..Len(log)]
    /\ DOMAIN decision = Slot

NoneIn(rows, from, to, types) == \A k \in (from + 1)..to : rows[k].type \notin types

\* The last trigger among the first n rows is a cooldown before t, unless a
\* result followed it
Rested(rows, n, t) ==
    \A i \in 1..n :
        /\ rows[i].type = "AGENT_TRIGGER"
        /\ NoneIn(rows, i, n, {"TEST_RESULT", "AGENT_TRIGGER"})
        => t - rows[i].at >= CooldownSeconds

\* The student did something after every trigger among the first n rows
HasNews(rows, n) ==
    \A i \in 1..n : rows[i].type = "AGENT_TRIGGER" => ~NoneIn(rows, i, n, ActivityType)

\* What a request decided is right for the n rows it read
Justified(rows, trigger, rule, n, t) ==
    /\ CooldownSeconds > 0 /\ trigger # "HELP_REQUESTED" => Rested(rows, n, t)
    /\ rule \in NewsRule => HasNews(rows, n)
    /\ trigger \notin {"HELP_REQUESTED", "UNDERSTANDING_UNCERTAIN"} => ~Improves(rows, n)
    /\ trigger = "REPEATED_FAILURE" => Fails(rows, n)

DecidedOK ==
    \A s \in Slot : pc[s] = "record" =>
        Justified(log, decision[s].trigger, decision[s].rule, upto[s], start[s])

RecordedOK ==
    \A j \in 1..Len(log) : log[j].type = "AGENT_TRIGGER" =>
        Justified(log, log[j].trigger, log[j].rule, log[j].basis, log[j].at)

IInv == LogOK /\ SnapsOK /\ PlaceOK /\ DecidedOK /\ RecordedOK

\* What is right for the first n rows of a log stays so when rows are added.
LEMMA JustifiedStays ==
  ASSUME NEW rows, NEW later, NEW n \in Nat, \A i \in 1..n : later[i] = rows[i],
         NEW trigger, NEW rule, NEW t, Justified(rows, trigger, rule, n, t)
  PROVE  Justified(later, trigger, rule, n, t)
<1>1. \A i \in 1..n : \A types : NoneIn(later, i, n, types) <=> NoneIn(rows, i, n, types)
  BY DEF NoneIn
<1>2. Improves(later, n) => Improves(rows, n)
  <2> SUFFICES ASSUME NEW k \in 1..n, NEW i \in 1..(k - 1),
                      LastScore(later, k, n), LastScore(later, i, k - 1),
                      later[k].passed > later[i].passed
               PROVE  Improves(rows, n)
    BY DEF Improves
  <2>1. i \in 1..n /\ later[k] = rows[k] /\ later[i] = rows[i]
    OBVIOUS
  <2>2. LastScore(rows, k, n) /\ LastScore(rows, i, k - 1)
    BY <2>1 DEF LastScore
  <2> QED BY <2>1, <2>2 DEF Improves
<1>3. Fails(rows, n) => Fails(later, n)
  <2> SUFFICES ASSUME Fails(rows, n) PROVE Fails(later, n)
    OBVIOUS
  <2>1. ASSUME NEW i \in 1..n
        PROVE  /\ {m \in 1..n : m >= i /\ IsObserved(later[m])} =
                     {m \in 1..n : m >= i /\ IsObserved(rows[m])}
               /\ {m \in 1..n : m >= i /\ IsScore(later[m])} =
                     {m \in 1..n : m >= i /\ IsScore(rows[m])}
    OBVIOUS
  <2>2. \A m \in 1..n : Signature(later[m]) = Signature(rows[m])
    OBVIOUS
  <2> QED BY <2>1, <2>2 DEF Fails
<1> QED BY <1>1, <1>2, <1>3 DEF Justified, Rested, HasNews

\* What a request decides is right for the rows it read.
LEMMA JudgementIs ==
  ASSUME LogOK, PlaceOK, NEW s \in Slot, NEW d, d = Judgement(s), d.trigger # NoTrigger
  PROVE  Justified(log, d.trigger, d.rule, upto[s], start[s])
<1> DEFINE n == upto[s]
           rows == SubSeq(log, 1, n)
           t == start[s]
<1>1. n \in 0..Len(log) /\ Len(log) \in Nat /\ n \in Nat /\ t \in Nat /\ IsSeq(log)
  BY SeqShape DEF LogOK, PlaceOK
<1>2. IsSeq(rows) /\ Len(rows) = n /\ \A i \in 1..n : rows[i] = log[i]
  BY <1>1, FirstRows
<1>3. d = Decision(rows, snaps, t, 0)
  BY DEF Judgement
<1> HIDE DEF rows, n, t
<1>4. ASSUME CooldownSeconds > 0, d.trigger # "HELP_REQUESTED" PROVE Rested(rows, n, t)
  <2>1. ~(Remaining(rows, t) > 0)
    BY <1>2, <1>3, <1>4, DecisionIs
  <2>2. \A i \in 1..Len(rows) : rows[i].at \in Nat
    BY <1>1, <1>2 DEF LogOK
  <2> QED BY <1>1, <1>2, <1>4, <2>1, <2>2, RemainingIs DEF Rested, NoneIn
<1>5. ASSUME d.rule \in NewsRule PROVE HasNews(rows, n)
  <2>1. PICK k \in 1..n : k > LastSeq(rows, {"AGENT_TRIGGER"}) /\ rows[k].type \in ActivityType
    BY <1>2, <1>3, <1>5, DecisionIs
  <2>2. /\ LastSeq(rows, {"AGENT_TRIGGER"}) \in 0..n
        /\ \A i \in 1..n : rows[i].type = "AGENT_TRIGGER" => i <= LastSeq(rows, {"AGENT_TRIGGER"})
    BY <1>2, LastSeqIs
  <2>3. ASSUME NEW i \in 1..n, rows[i].type = "AGENT_TRIGGER" PROVE k \in (i + 1)..n
    BY <1>1, <2>1, <2>2, <2>3
  <2> QED BY <2>1, <2>3 DEF HasNews, NoneIn
<1>7. /\ d.trigger \notin {"HELP_REQUESTED", "UNDERSTANDING_UNCERTAIN"} => ~Improves(rows, n)
      /\ d.trigger = "REPEATED_FAILURE" => Fails(rows, n)
  BY <1>2, <1>3, DecisionIs
<1>6. Justified(rows, d.trigger, d.rule, n, t)
  BY <1>4, <1>5, <1>7 DEF Justified
<1> QED BY <1>1, <1>2, <1>6, JustifiedStays DEF n, t

\* A row is appended: it bears the time of a clock that has come, and a trigger
\* is right for the rows it is based on.
LEMMA AppendKeeps ==
  ASSUME LogOK, RecordedOK, now \in Nat, NEW row, row.at \in 0..now,
         log' = Append(log, row), now' = now,
         row.type = "AGENT_TRIGGER" =>
            /\ row.basis \in 0..Len(log)
            /\ Justified(log, row.trigger, row.rule, row.basis, row.at)
  PROVE  /\ LogOK' /\ RecordedOK' /\ Len(log') = Len(log) + 1
         /\ \A i \in 1..Len(log) : log'[i] = log[i]
<1>1. IsSeq(log) /\ Len(log) \in Nat
  BY SeqShape DEF LogOK
<1>2. /\ IsSeq(log') /\ Len(log') = Len(log) + 1
      /\ \A i \in 1..Len(log) : log'[i] = log[i]
      /\ log'[Len(log) + 1] = row
  BY <1>1, Appended
<1>3. \A j \in 1..Len(log') : j = Len(log) + 1 \/ j \in 1..Len(log)
  BY <1>1, <1>2
<1>4. LogOK'
  BY <1>1, <1>2, <1>3 DEF LogOK
<1>5. ASSUME NEW j \in 1..Len(log'), log'[j].type = "AGENT_TRIGGER"
      PROVE  Justified(log', log'[j].trigger, log'[j].rule, log'[j].basis, log'[j].at)
  <2>1. CASE j \in 1..Len(log)
    <3>1. /\ Justified(log, log[j].trigger, log[j].rule, log[j].basis, log[j].at)
          /\ log[j].basis \in 0..(j - 1)
          /\ log'[j] = log[j]
      BY <1>2, <1>5, <2>1 DEF RecordedOK, LogOK
    <3>2. log[j].basis \in Nat /\ \A i \in 1..log[j].basis : log'[i] = log[i]
      BY <1>1, <1>2, <2>1, <3>1
    <3>3. Justified(log', log[j].trigger, log[j].rule, log[j].basis, log[j].at)
      BY <3>1, <3>2, JustifiedStays
    <3> QED BY <3>1, <3>3
  <2>2. CASE j = Len(log) + 1
    <3>1. log'[j] = row /\ row.basis \in 0..Len(log)
      BY <1>2, <1>5, <2>2
    <3>2. row.basis \in Nat /\ \A i \in 1..row.basis : log'[i] = log[i]
      BY <1>1, <1>2, <3>1
    <3>3. Justified(log', row.trigger, row.rule, row.basis, row.at)
      BY <1>5, <3>1, <3>2, JustifiedStays
    <3> QED BY <3>1, <3>3
  <2> QED BY <1>3, <2>1, <2>2
<1> QED BY <1>2, <1>4, <1>5 DEF RecordedOK

\* What is decided stays right as long as the requests that record it keep it.
LEMMA DecidedStays ==
  ASSUME LogOK, \A i \in 1..Len(log) : log'[i] = log[i],
         \A s \in Slot : pc'[s] = "record" =>
            /\ upto'[s] \in 0..Len(log)
            /\ Justified(log, decision'[s].trigger, decision'[s].rule, upto'[s], start'[s])
  PROVE  DecidedOK'
<1> SUFFICES ASSUME NEW s \in Slot, pc'[s] = "record"
             PROVE  Justified(log', decision'[s].trigger, decision'[s].rule, upto'[s], start'[s])
  BY DEF DecidedOK
<1>1. upto'[s] \in Nat /\ \A i \in 1..upto'[s] : log'[i] = log[i]
  BY SeqShape DEF LogOK
<1> QED BY <1>1, JustifiedStays

\* The history of snapshots grows by one of the changes of the code.
LEMMA SnapsGrow ==
  ASSUME SnapsOK, NEW edit \in Edit \cup LateEdit, snaps' = Append(snaps, Snapshot(edit))
  PROVE  SnapsOK' /\ Len(snaps') = Len(snaps) + 1
<1>1. IsSeq(snaps) /\ Len(snaps) \in Nat
  BY SeqShape DEF SnapsOK
<1>2. Snapshot(edit).region \in Region
  BY DEF Snapshot, Region
<1>3. /\ IsSeq(snaps') /\ Len(snaps') = Len(snaps) + 1
      /\ \A i \in 1..Len(snaps) : snaps'[i] = snaps[i]
      /\ snaps'[Len(snaps) + 1] = Snapshot(edit)
  BY <1>1, Appended
<1>4. \A v \in 1..Len(snaps') : v = Len(snaps) + 1 \/ v \in 1..Len(snaps)
  BY <1>1, <1>3
<1> QED BY <1>1, <1>2, <1>3, <1>4 DEF SnapsOK

\* The parts of the invariant, and the numbers in it.
LEMMA OfInv ==
  ASSUME IInv
  PROVE  /\ LogOK /\ SnapsOK /\ PlaceOK /\ DecidedOK /\ RecordedOK
         /\ now \in Nat /\ Len(log) \in Nat /\ Len(snaps) \in Nat
  BY SeqShape, BoundAssumption DEF IInv, LogOK, SnapsOK, PlaceOK

\* A request that ends keeps the rest.
LEMMA EndsKeeps ==
  ASSUME IInv, NEW s \in Slot, Ends(s), now' = now, snaps' = snaps,
         LogOK', RecordedOK', Len(log') >= Len(log), Len(log') \in Nat,
         \A i \in 1..Len(log) : log'[i] = log[i]
  PROVE  IInv'
<1>1. LogOK /\ SnapsOK /\ PlaceOK /\ DecidedOK /\ now \in Nat /\ Len(log) \in Nat
      /\ Len(snaps) \in Nat
  BY OfInv
<1>2. PlaceOK'
  BY <1>1 DEF PlaceOK, Ends, Goto, Label, SnapsOK
<1>3. \A r \in Slot : pc'[r] = "record" =>
         pc[r] = "record" /\ upto'[r] = upto[r] /\ start'[r] = start[r] /\ decision'[r] = decision[r]
  BY <1>1 DEF Ends, Goto, PlaceOK
<1>4. DecidedOK'
  BY <1>1, <1>3, DecidedStays DEF DecidedOK, PlaceOK
<1>5. SnapsOK'
  BY <1>1 DEF SnapsOK
<1> QED BY <1>2, <1>4, <1>5 DEF IInv

\* The student sends an event, with a snapshot or not.
LEMMA StudentKeeps ==
  ASSUME IInv, NEW row, log' = Append(log, row), row.at = now, row.type # "AGENT_TRIGGER",
         SnapsOK', Len(snaps') \in Nat, Len(snaps') >= Len(snaps),
         UNCHANGED <<now, pc, start, version, upto, decision>>
  PROVE  IInv'
<1>1. LogOK /\ SnapsOK /\ PlaceOK /\ DecidedOK /\ RecordedOK /\ now \in Nat /\ Len(log) \in Nat
      /\ Len(snaps) \in Nat
  BY OfInv
<1>2. /\ LogOK' /\ RecordedOK' /\ Len(log') = Len(log) + 1
      /\ \A i \in 1..Len(log) : log'[i] = log[i]
  BY <1>1, AppendKeeps
<1>3. PlaceOK'
  BY <1>1, <1>2 DEF PlaceOK
<1>4. DecidedOK'
  BY <1>1, <1>2, DecidedStays DEF DecidedOK, PlaceOK
<1> QED BY <1>2, <1>3, <1>4 DEF IInv

\* POST /events.
LEMMA EventsKeep ==
  ASSUME IInv,
         (\E edit \in Edit : ChangeCode(edit)) \/ (\E input \in Input : SendEvent(input))
  PROVE  IInv'
<1>1. SnapsOK /\ Len(snaps) \in Nat
  BY OfInv
<1>2. ASSUME NEW edit \in Edit, ChangeCode(edit) PROVE IInv'
  <2>1. SnapsOK' /\ Len(snaps') = Len(snaps) + 1
    BY <1>1, <1>2, SnapsGrow DEF ChangeCode
  <2> DEFINE row == [type |-> "CODE_SNAPSHOT", at |-> now]
  <2>2. row.at = now /\ row.type # "AGENT_TRIGGER"
    OBVIOUS
  <2>3. log' = Append(log, row) /\ UNCHANGED <<now, pc, start, version, upto, decision>>
    BY <1>2 DEF ChangeCode
  <2> HIDE DEF row
  <2> QED BY <1>1, <2>1, <2>2, <2>3, StudentKeeps
<1>3. ASSUME NEW input \in Input, SendEvent(input) PROVE IInv'
  <2> DEFINE row == [type |-> input.type, at |-> now, correct |-> input.correct]
  <2>1. row.at = now /\ row.type # "AGENT_TRIGGER"
    BY InputAssumption DEF StudentType, ActivityType
  <2>2. log' = Append(log, row) /\ UNCHANGED <<snaps, now, pc, start, version, upto, decision>>
    BY <1>3 DEF SendEvent
  <2>3. SnapsOK'
    BY <1>1, <2>2 DEF SnapsOK
  <2> HIDE DEF row
  <2> QED BY <1>1, <2>1, <2>2, <2>3, StudentKeeps
<1> QED BY <1>2, <1>3

\* A request takes a step that writes no row: what it is about to record, if
\* anything, is right.
LEMMA MovesKeeps ==
  ASSUME IInv, NEW s \in Slot, UNCHANGED <<log, now>>, SnapsOK', PlaceOK',
         \A r \in Slot \ {s} : /\ pc'[r] = pc[r] /\ upto'[r] = upto[r]
                               /\ start'[r] = start[r] /\ decision'[r] = decision[r],
         pc'[s] = "record" =>
             Justified(log, decision'[s].trigger, decision'[s].rule, upto'[s], start'[s])
  PROVE  IInv'
<1>1. LogOK /\ DecidedOK /\ RecordedOK
  BY OfInv
<1>2. LogOK' /\ RecordedOK'
  BY <1>1 DEF LogOK, RecordedOK
<1>3. DecidedOK'
  BY <1>1, DecidedStays DEF DecidedOK, PlaceOK
<1> QED BY <1>2, <1>3 DEF IInv

\* A run begins, and a heartbeat.
LEMMA BeginKeeps ==
  ASSUME IInv, NEW s \in Slot, StartRun(s) \/ Heartbeat(s)
  PROVE  IInv'
<1>0. SnapsOK /\ PlaceOK /\ now \in Nat /\ Len(log) \in Nat /\ Len(snaps) \in Nat
  BY OfInv
<1>1. CASE StartRun(s)
  <2>1. SnapsOK' /\ Len(snaps') >= Len(snaps) /\ Len(snaps') \in Nat
    <3>1. CASE snaps' = snaps
      BY <1>0, <3>1 DEF SnapsOK
    <3>2. CASE \E edit \in LateEdit : snaps' = Append(snaps, Snapshot(edit))
      BY <1>0, <3>2, SnapsGrow
    <3> QED BY <1>1, <3>1, <3>2 DEF StartRun
  <2>2. PlaceOK'
    BY <1>0, <1>1, <2>1 DEF StartRun, Goto, PlaceOK, Label, SnapsOK
  <2> QED BY <1>0, <1>1, <2>1, <2>2, MovesKeeps DEF StartRun, Goto, PlaceOK
<1>2. CASE Heartbeat(s)
  <2>1. PlaceOK' /\ SnapsOK'
    BY <1>0, <1>2 DEF Heartbeat, Goto, PlaceOK, Label, SnapsOK, trace
  <2> QED BY <1>0, <1>2, <2>1, MovesKeeps DEF Heartbeat, Goto, PlaceOK, trace
<1> QED BY <1>1, <1>2

\* An evaluation reads, and decides.
LEMMA EvaluateKeeps ==
  ASSUME IInv, NEW s \in Slot, ReadEvents(s) \/ Decide(s) \/ DecideNothing(s)
  PROVE  IInv'
<1>0. /\ LogOK /\ SnapsOK /\ PlaceOK /\ RecordedOK
      /\ now \in Nat /\ Len(log) \in Nat /\ Len(snaps) \in Nat
  BY OfInv
<1>1. CASE ReadEvents(s)
  <2>1. PlaceOK' /\ SnapsOK'
    BY <1>0, <1>1 DEF ReadEvents, Goto, PlaceOK, Label, SnapsOK, trace
  <2> QED BY <1>0, <1>1, <2>1, MovesKeeps DEF ReadEvents, Goto, PlaceOK, trace
<1>2. CASE Decide(s)
  <2>1. /\ Judgement(s).trigger # NoTrigger
        /\ decision' = [decision EXCEPT ![s] = Judgement(s)]
        /\ pc' = [pc EXCEPT ![s] = "record"]
        /\ UNCHANGED <<log, snaps, now, start, version, upto>>
    BY <1>2 DEF Decide, Goto, trace
  <2>2. PlaceOK' /\ SnapsOK'
    BY <1>0, <2>1 DEF PlaceOK, Label, SnapsOK
  <2>3. decision'[s] = Judgement(s)
    BY <1>0, <2>1 DEF PlaceOK
  <2>4. Justified(log, Judgement(s).trigger, Judgement(s).rule, upto[s], start[s])
    BY <1>0, <2>1, JudgementIs
  <2>5. \A r \in Slot \ {s} : pc'[r] = pc[r] /\ decision'[r] = decision[r]
    BY <1>0, <2>1 DEF PlaceOK
  <2> QED BY <2>1, <2>2, <2>3, <2>4, <2>5, MovesKeeps
<1>3. CASE DecideNothing(s)
  BY <1>0, <1>3, EndsKeeps DEF DecideNothing, trace, LogOK, RecordedOK
<1> QED BY <1>1, <1>2, <1>3

\* A request fails, wherever it is.
LEMMA FailKeeps ==
  ASSUME IInv, NEW s \in Slot, Fail(s)
  PROVE  IInv'
<1>0. LogOK /\ RecordedOK /\ Len(log) \in Nat
  BY OfInv
<1> QED BY <1>0, EndsKeeps DEF Fail, trace, LogOK, RecordedOK

\* The result of a run is recorded with the time at which the run began.
LEMMA RecordResultKeeps ==
  ASSUME IInv, NEW s \in Slot, NEW verdict \in Verdict, RecordResult(s, verdict)
  PROVE  IInv'
<1>0. /\ LogOK /\ SnapsOK /\ PlaceOK /\ DecidedOK /\ RecordedOK
      /\ now \in Nat /\ Len(log) \in Nat /\ Len(snaps) \in Nat
  BY OfInv
<1> DEFINE row == [type |-> "TEST_RESULT", at |-> start[s], version |-> version[s],
                   status |-> verdict.status, passed |-> verdict.passed,
                   total |-> verdict.total]
<1>1. row.at \in 0..now /\ row.type # "AGENT_TRIGGER"
  BY <1>0 DEF PlaceOK
<1>2. /\ log' = Append(log, row)
      /\ pc' = [pc EXCEPT ![s] = "evaluate"]
      /\ UNCHANGED <<snaps, now, start, version, upto, decision>>
  BY DEF RecordResult, Goto
<1> HIDE DEF row
<1>3. /\ LogOK' /\ RecordedOK' /\ Len(log') = Len(log) + 1
      /\ \A i \in 1..Len(log) : log'[i] = log[i]
  BY <1>0, <1>1, <1>2, AppendKeeps
<1>4. PlaceOK' /\ SnapsOK'
  BY <1>0, <1>2, <1>3 DEF PlaceOK, Label, SnapsOK
<1>5. \A r \in Slot : pc'[r] = "record" => pc[r] = "record"
  BY <1>0, <1>2 DEF PlaceOK
<1>6. DecidedOK'
  BY <1>0, <1>2, <1>3, <1>5, DecidedStays DEF DecidedOK, PlaceOK
<1> QED BY <1>3, <1>4, <1>6 DEF IInv

\* A trigger is recorded with the time at which its request began.
LEMMA RecordTriggerKeeps ==
  ASSUME IInv, NEW s \in Slot, RecordTrigger(s)
  PROVE  IInv'
<1>0. /\ LogOK /\ SnapsOK /\ PlaceOK /\ DecidedOK /\ RecordedOK
      /\ now \in Nat /\ Len(log) \in Nat /\ Len(snaps) \in Nat
  BY OfInv
<1> DEFINE row == [type |-> "AGENT_TRIGGER", at |-> start[s],
                   trigger |-> decision[s].trigger, rule |-> decision[s].rule,
                   basis |-> upto[s]]
<1>1. /\ row.at = start[s] /\ row.basis = upto[s]
      /\ row.trigger = decision[s].trigger /\ row.rule = decision[s].rule
  OBVIOUS
<1>2. log' = Append(log, row) /\ Ends(s) /\ UNCHANGED <<snaps, now>> /\ pc[s] = "record"
  BY DEF RecordTrigger
<1> HIDE DEF row
<1>3. row.at \in 0..now /\ row.basis \in 0..Len(log)
  BY <1>0, <1>1 DEF PlaceOK
<1>4. Justified(log, row.trigger, row.rule, row.basis, row.at)
  BY <1>0, <1>1, <1>2 DEF DecidedOK
<1>5. /\ LogOK' /\ RecordedOK' /\ Len(log') = Len(log) + 1
      /\ \A i \in 1..Len(log) : log'[i] = log[i]
  BY <1>0, <1>2, <1>3, <1>4, AppendKeeps
<1> QED BY <1>0, <1>2, <1>5, EndsKeeps

\* The clock goes on.
LEMMA TickKeeps == ASSUME IInv, Tick PROVE IInv'
<1>0. /\ LogOK /\ SnapsOK /\ PlaceOK /\ DecidedOK /\ RecordedOK
      /\ now \in Nat /\ Len(log) \in Nat /\ Len(snaps) \in Nat /\ MaxNow \in Nat
  BY OfInv, BoundAssumption
<1>1. /\ now < MaxNow /\ now' = now + 1
      /\ UNCHANGED <<log, snaps, pc, start, version, upto, decision>>
  BY DEF Tick, trace
<1>2. 0..now \subseteq 0..now'
  BY <1>0, <1>1
<1>3. LogOK'
  BY <1>0, <1>1, <1>2 DEF LogOK
<1>4. PlaceOK'
  BY <1>0, <1>1, <1>2 DEF PlaceOK
<1> QED BY <1>0, <1>1, <1>3, <1>4 DEF SnapsOK, DecidedOK, RecordedOK, IInv

\* A session begins with one row and one snapshot.
LEMMA InitInv == ASSUME Init PROVE IInv
<1> DEFINE row == [type |-> "SESSION_START", at |-> 0]
           first == [region |-> "OTHER", large |-> FALSE, at |-> 0]
<1>1. log = <<row>> /\ snaps = <<first>> /\ now = 0
  BY DEF Init
<1>2. row.at = 0 /\ row.type # "AGENT_TRIGGER" /\ first.region \in Region
  BY DEF Region
<1> HIDE DEF row, first
<1>3. IsSeq(log) /\ Len(log) = 1 /\ log[1] = row
  <2>1. log \in Seq({row})
    BY <1>1
  <2> QED BY <1>1, <2>1, SeqOf
<1>4. IsSeq(snaps) /\ Len(snaps) = 1 /\ snaps[1] = first
  <2>1. snaps \in Seq({first})
    BY <1>1
  <2> QED BY <1>1, <2>1, SeqOf
<1>5. LogOK /\ SnapsOK /\ RecordedOK
  BY <1>1, <1>2, <1>3, <1>4 DEF LogOK, SnapsOK, RecordedOK
<1>6. PlaceOK /\ DecidedOK
  BY <1>1, <1>3, <1>4, BoundAssumption DEF Init, PlaceOK, DecidedOK, Label
<1> QED BY <1>5, <1>6 DEF IInv

\* The invariant is inductive.
LEMMA NextInv == ASSUME IInv, [Next]_vars PROVE IInv'
<1>1. CASE UNCHANGED vars
  BY <1>1 DEF vars, IInv, LogOK, SnapsOK, PlaceOK, DecidedOK, RecordedOK
<1> QED BY <1>1, EventsKeep, BeginKeeps, EvaluateKeeps, RecordResultKeeps, RecordTriggerKeeps,
        FailKeeps, TickKeeps DEF Next, Handle

-----------------------------------------------------------------------------
(* The theorems.                                                           *)

\* The invariant holds in every reachable state.
THEOREM Invariance == Spec => []IInv
<1>1. Init => IInv
  BY InitInv
<1>2. IInv /\ [Next]_vars => IInv'
  BY NextInv
<1> QED BY <1>1, <1>2, PTL DEF Spec

\* Requests are where they can be, and nobody is told to wait longer than the
\* cooldown, whichever request wrote the last trigger (seconds_between).
THEOREM TypeCorrect == Spec => []TypeOK
<1>1. IInv => TypeOK
  <2> SUFFICES ASSUME IInv PROVE TypeOK
    OBVIOUS
  <2>1. /\ LogOK /\ SnapsOK /\ PlaceOK
        /\ now \in Nat /\ Len(log) \in Nat /\ Len(snaps) \in Nat
    BY OfInv
  <2>2. DOMAIN log = 1..Len(log) /\ DOMAIN snaps = 1..Len(snaps)
    BY <2>1, SeqShape DEF LogOK, SnapsOK
  <2>3. ASSUME NEW s \in Slot
        PROVE  Remaining(SubSeq(log, 1, upto[s]), start[s]) \in 0..CooldownSeconds
    <3> DEFINE rows == SubSeq(log, 1, upto[s])
    <3>1. upto[s] \in 0..Len(log) /\ start[s] \in Nat
      BY <2>1 DEF PlaceOK
    <3>2. IsSeq(rows) /\ Len(rows) = upto[s] /\ \A i \in 1..upto[s] : rows[i] = log[i]
      BY <2>1, <3>1, FirstRows DEF LogOK
    <3> HIDE DEF rows
    <3>3. \A i \in 1..Len(rows) : rows[i].at \in Nat
      BY <2>1, <3>1, <3>2 DEF LogOK
    <3> QED BY <3>1, <3>2, <3>3, RemainingIs DEF rows
  <2> QED BY <2>1, <2>2, <2>3 DEF TypeOK, LogOK, SnapsOK, PlaceOK
<1> QED BY <1>1, Invariance, PTL

\* Unless the student asked, a trigger comes a full cooldown after the last one
\* its evaluation knew of, or after a result, when there is a cooldown (_cooldown).
THEOREM Cooled ==
  ASSUME CooldownSeconds > 0
  PROVE  Spec => []CooldownHolds
<1>1. IInv => CooldownHolds
  <2> SUFFICES ASSUME IInv, NEW j \in Triggers, NEW i \in Triggers,
                      ~Asked(j), i \in Basis(j),
                      NoneOf({k \in Basis(j) : k > i}, {"TEST_RESULT", "AGENT_TRIGGER"})
               PROVE  log[j].at - log[i].at >= CooldownSeconds
    BY DEF CooldownHolds
  <2>1. LogOK /\ RecordedOK /\ DOMAIN log = 1..Len(log)
    BY OfInv, SeqShape DEF LogOK
  <2>2. Rested(log, log[j].basis, log[j].at)
    BY <2>1 DEF RecordedOK, Justified, Triggers, Asked
  <2>3. log[j].basis \in Nat /\ i \in Nat
    BY <2>1 DEF LogOK, Triggers
  <2>4. NoneIn(log, i, log[j].basis, {"TEST_RESULT", "AGENT_TRIGGER"})
    BY <2>3 DEF NoneIn, NoneOf, Basis
  <2> QED BY <2>2, <2>4 DEF Rested, Basis, Triggers
<1> QED BY <1>1, Invariance, PTL

\* The rules that look at edits or at idleness, and R0, do not act twice on the
\* same thing the student did (edits_ and activity_since_last_trigger).
LEMMA NotNagged == IInv => QuietWithoutNews
<1> SUFFICES ASSUME IInv, NEW j \in Triggers, NEW i \in Triggers,
                    log[j].rule \in NewsRule, i \in Basis(j)
             PROVE  ~NoneOf({k \in Basis(j) : k > i}, ActivityType)
  BY DEF QuietWithoutNews, NewsRule
<1>1. LogOK /\ RecordedOK /\ DOMAIN log = 1..Len(log)
  BY OfInv, SeqShape DEF LogOK
<1>2. HasNews(log, log[j].basis)
  BY <1>1 DEF RecordedOK, Justified, Triggers
<1>3. log[j].basis \in Nat /\ i \in Nat
  BY <1>1 DEF LogOK, Triggers
<1>4. ~NoneIn(log, i, log[j].basis, ActivityType)
  BY <1>2 DEF HasNews, Basis, Triggers
<1> QED BY <1>3, <1>4 DEF NoneIn, NoneOf, Basis

\* The progress guard stands in front of every rule but that of the large change.
LEMMA NotInterrupted == IInv => ImprovingIsLeftAlone
<1> SUFFICES ASSUME IInv, NEW j \in Triggers, NEW k \in Basis(j), NEW i \in 1..(k - 1),
                    LastScored(k, Basis(j)), LastScored(i, 1..(k - 1)),
                    log[k].passed > log[i].passed,
                    log[j].trigger \notin {"HELP_REQUESTED", "UNDERSTANDING_UNCERTAIN"}
             PROVE  FALSE
  BY DEF ImprovingIsLeftAlone
<1> DEFINE n == log[j].basis
<1>1. LogOK /\ RecordedOK /\ DOMAIN log = 1..Len(log)
  BY OfInv, SeqShape DEF LogOK
<1>2. n \in Nat /\ k \in 1..n
  BY <1>1 DEF LogOK, Triggers, Basis
<1>3. ~Improves(log, n)
  BY <1>1 DEF RecordedOK, Justified, Triggers
<1>4. \A m \in 1..n : IsScored(m) <=> IsScore(log[m])
  BY DEF IsScored, IsScore
<1>5. LastScore(log, k, n)
  BY <1>2, <1>4 DEF LastScored, LastScore, Basis
<1>6. LastScore(log, i, k - 1)
  BY <1>2, <1>4 DEF LastScored, LastScore
<1> QED BY <1>2, <1>3, <1>5, <1>6 DEF Improves

\* The rules of repeated failure have enough results of the student behind them.
LEMMA Failed == IInv => FailuresAreReal
<1> SUFFICES ASSUME IInv, NEW j \in Triggers, log[j].trigger = "REPEATED_FAILURE"
             PROVE  \E i \in Basis(j) :
                       LET rows == ObservedIn(i, log[j].basis)
                           scored == {m \in rows : IsScored(m)}
                       IN  \/ /\ Cardinality(scored) >= SameResultThreshold
                              /\ \A m, k \in scored : Signature(log[m]) = Signature(log[k])
                           \/ Cardinality(rows) >= ConsecutiveErrorThreshold /\ scored = {}
  BY DEF FailuresAreReal
<1> DEFINE n == log[j].basis
<1>1. LogOK /\ RecordedOK /\ DOMAIN log = 1..Len(log)
  BY OfInv, SeqShape DEF LogOK
<1>2. n \in Nat
  BY <1>1 DEF LogOK, Triggers
<1>3. Fails(log, n)
  BY <1>1 DEF RecordedOK, Justified, Triggers
<1>4. ASSUME NEW i \in 1..n
      PROVE  /\ {m \in 1..n : m >= i /\ IsObserved(log[m])} = ObservedIn(i, n)
             /\ {m \in 1..n : m >= i /\ IsScore(log[m])} = {m \in ObservedIn(i, n) : IsScored(m)}
  BY <1>2 DEF ObservedIn, IsObserved, IsScore, IsScored, ScoredStatus, SystemStatus
<1> QED BY <1>3, <1>4 DEF Fails, Basis

\* Every trigger is earned by the rows its evaluation had read: by something the
\* student did since the last one, never by a score that improves and never by
\* breakdowns of the judge (_classify and decide).
THEOREM Earned == Spec => []TriggersAreEarned
<1>1. IInv => TriggersAreEarned
  BY NotNagged, NotInterrupted, Failed DEF TriggersAreEarned
<1> QED BY <1>1, Invariance, PTL
=============================================================================
