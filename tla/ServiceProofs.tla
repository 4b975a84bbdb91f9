---------------------------- MODULE ServiceProofs ----------------------------
(***************************************************************************)
(* Submission for any number of clients, keys, jobs and executions, and    *)
(* any number of writers and readers of a log; the intake of sources and   *)
(* the guarded fetch; requests on their way through limits and rights.     *)
(***************************************************************************)
EXTENDS Submission, Intake, Access, FiniteSetTheorems, SequenceTheorems, WellFoundedInduction, TLAPS

-----------------------------------------------------------------------------
(* Numbers *)

\* A finite set of numbers has a greatest one: a smallest set without would
\* have one when any of its elements is taken away.
LEMMA GreatestExists ==
  ASSUME NEW S, IsFiniteSet(S), S \subseteq Int, S # {}
  PROVE  \E m \in S : \A n \in S : n <= m
<1> DEFINE T == {U \in SUBSET S : U # {} /\ \A m \in U : \E n \in U : ~ (n <= m)}
<1> SUFFICES ASSUME S \in T PROVE FALSE
  OBVIOUS
<1>1. T \subseteq FiniteSubsetsOf(S) /\ T # {}
  BY FS_Subset DEF FiniteSubsetsOf
<1>2. PICK U \in T : \A V \in T : ~ (<<V, U>> \in StrictSubsetOrdering(S))
  <2> HIDE DEF T
  <2> QED BY <1>1, FS_StrictSubsetOrderingWellFounded, WFMin
<1>3. PICK x \in U : TRUE
  OBVIOUS
<1>4. U \ {x} \notin T
  <2>1. U \ {x} \in SUBSET S /\ U \ {x} \subseteq U /\ U \ {x} # U /\ U \in SUBSET S
    BY <1>3
  <2>2. <<U \ {x}, U>> \in StrictSubsetOrdering(S)
    BY <2>1 DEF StrictSubsetOrdering
  <2> HIDE DEF T
  <2> QED BY <1>2, <2>2
<1>5. CASE U \ {x} = {}
  BY <1>3, <1>5
<1>6. CASE U \ {x} # {}
  <2>1. PICK m \in U \ {x} : \A n \in U \ {x} : n <= m
    BY <1>4, <1>6
  <2>2. m \in Int /\ x \in Int /\ U \subseteq Int
    OBVIOUS
  <2>3. CASE x <= m
    BY <2>1, <2>2, <2>3
  <2>4. CASE ~ (x <= m)
    <3>1. \A n \in U : n <= x
      BY <2>1, <2>2, <2>4
    <3> QED BY <1>3, <3>1
  <2> QED BY <2>3, <2>4
<1> QED BY <1>5, <1>6

\* A set of natural numbers has a smallest one, if it has one at all.
LEMMA SmallestExists ==
  ASSUME NEW S, S \subseteq Nat, S # {}
  PROVE  \E m \in S : \A n \in S : m <= n
<1>1. PICK k \in S : TRUE
  OBVIOUS
<1> DEFINE T == {n \in 0 .. k : k - n \in S}
<1>2. IsFiniteSet(T) /\ T \subseteq Int /\ T # {}
  <2>1. IsFiniteSet(0 .. k)
    BY <1>1, FS_Interval
  <2>2. T \subseteq 0 .. k /\ 0 \in T
    BY <1>1
  <2>3. IsFiniteSet(T)
    <3> HIDE DEF T
    <3> QED BY <2>1, <2>2, FS_Subset
  <2> QED BY <2>2, <2>3
<1>3. PICK g \in T : \A n \in T : n <= g
  <2> HIDE DEF T
  <2> QED BY <1>2, GreatestExists
<1>4. k - g \in S /\ g \in 0 .. k
  OBVIOUS
<1>5. \A n \in S : k - g <= n
  <2> SUFFICES ASSUME NEW n \in S PROVE k - g <= n
    OBVIOUS
  <2>1. CASE n > k
    BY <1>1, <1>4, <2>1
  <2>2. CASE ~ (n > k)
    <3>1. k - n \in T
      <4>1. k - (k - n) = n /\ k - n \in 0 .. k
        BY <1>1, <2>2
      <4> QED BY <4>1
    <3>2. k - n <= g
      BY <1>3, <3>1
    <3> QED BY <1>1, <1>4, <3>2
  <2> QED BY <2>1, <2>2
<1> QED BY <1>4, <1>5

\* The running total of a sequence of numbers.
LEMMA SumToSteps ==
  ASSUME NEW s \in Seq(Nat)
  PROVE  /\ SumTo(s, 0) = 0
         /\ \A n \in 1 .. Len(s) : SumTo(s, n) = SumTo(s, n - 1) + s[n]
         /\ \A n \in 0 .. Len(s) : SumTo(s, n) \in Nat
<1> DEFINE L == Len(s)
           Totals(g, n) == /\ g \in [0 .. n -> Nat] /\ g[0] = 0
                           /\ \A i \in 1 .. n : g[i] = g[i - 1] + s[i]
           Bad == {n \in 0 .. L : ~ \E g : Totals(g, n)}
<1>1. L \in Nat /\ \A i \in 1 .. L : s[i] \in Nat
  OBVIOUS
<1>2. Bad = {}
  <2> SUFFICES ASSUME Bad # {} PROVE FALSE
    OBVIOUS
  <2>1. PICK m \in Bad : \A n \in Bad : m <= n
    <3>1. Bad \subseteq Nat
      BY <1>1
    <3> HIDE DEF Bad
    <3> QED BY <3>1, SmallestExists
  <2>2. CASE m = 0
    <3>1. Totals([i \in 0 .. 0 |-> 0], 0)
      OBVIOUS
    <3> QED BY <2>1, <2>2, <3>1
  <2>3. CASE m # 0
    <3>1. m \in 1 .. L /\ m - 1 \in 0 .. L /\ m - 1 \notin Bad
      <4>1. m \in 0 .. L
        BY <2>1
      <4>2. m \in 1 .. L /\ m - 1 \in 0 .. L /\ ~ (m <= m - 1)
        BY <1>1, <2>3, <4>1
      <4> HIDE DEF Bad
      <4> QED BY <2>1, <4>2
    <3>2. PICK g : Totals(g, m - 1)
      BY <3>1
    <3> DEFINE h == [i \in 0 .. m |-> IF i = m THEN g[m - 1] + s[m] ELSE g[i]]
    <3>3. g[m - 1] + s[m] \in Nat
      BY <1>1, <3>1, <3>2
    <3>4. h \in [0 .. m -> Nat] /\ h[0] = 0
      <4>1. \A i \in 0 .. m : i # m => g[i] \in Nat
        BY <3>1, <3>2
      <4>2. 0 \in 0 .. m /\ 0 # m /\ g[0] = 0
        BY <3>1, <3>2
      <4> QED BY <3>3, <4>1, <4>2
    <3>5. \A i \in 1 .. m : h[i] = h[i - 1] + s[i]
      <4> SUFFICES ASSUME NEW i \in 1 .. m PROVE h[i] = h[i - 1] + s[i]
        OBVIOUS
      <4>1. CASE i = m
        BY <3>1, <4>1
      <4>2. CASE i # m
        <5>1. i \in 1 .. m - 1 /\ i - 1 \in 0 .. m /\ i - 1 # m /\ i \in 0 .. m
          BY <3>1, <4>2
        <5> QED BY <3>2, <4>2, <5>1
      <4> QED BY <4>1, <4>2
    <3>6. Totals(h, m)
      BY <3>4, <3>5
    <3> HIDE DEF h, Totals
    <3> QED BY <2>1, <3>6
  <2> QED BY <2>2, <2>3
<1>3. PICK g : Totals(g, L)
  <2>1. L \in 0 .. L
    BY <1>1
  <2> QED BY <1>2, <2>1
<1> DEFINE sum == CHOOSE f : f = [i \in 0 .. L |-> IF i = 0 THEN 0 ELSE f[i - 1] + s[i]]
<1>4. g = [i \in 0 .. L |-> IF i = 0 THEN 0 ELSE g[i - 1] + s[i]]
  BY <1>3
<1>5. sum = [i \in 0 .. L |-> IF i = 0 THEN 0 ELSE sum[i - 1] + s[i]]
  <2>1. \E f : f = [i \in 0 .. L |-> IF i = 0 THEN 0 ELSE f[i - 1] + s[i]]
    BY <1>4
  <2> QED BY <2>1
<1>6. \A n : SumTo(s, n) = sum[n]
  BY DEF SumTo
<1> HIDE DEF sum
<1>7. sum[0] = 0 /\ \A n \in 1 .. L : sum[n] = sum[n - 1] + s[n]
  <2>1. \A n \in 1 .. L : n \in 0 .. L /\ n # 0
    BY <1>1
  <2>2. 0 \in 0 .. L
    BY <1>1
  <2>3. \A n \in 0 .. L : sum[n] = IF n = 0 THEN 0 ELSE sum[n - 1] + s[n]
    BY <1>5
  <2> QED BY <2>1, <2>2, <2>3
<1> DEFINE Odd == {n \in 0 .. L : sum[n] \notin Nat}
<1>8. Odd = {}
  <2> SUFFICES ASSUME Odd # {} PROVE FALSE
    OBVIOUS
  <2>1. PICK m \in Odd : \A n \in Odd : m <= n
    <3>1. Odd \subseteq Nat
      BY <1>1
    <3> HIDE DEF Odd
    <3> QED BY <3>1, SmallestExists
  <2>2. m # 0
    BY <1>7, <2>1
  <2>3. m \in 1 .. L /\ m - 1 \in 0 .. L /\ m - 1 \notin Odd
    BY <1>1, <2>1, <2>2
  <2>4. sum[m - 1] \in Nat /\ s[m] \in Nat /\ sum[m] = sum[m - 1] + s[m]
    BY <1>1, <1>7, <2>3
  <2> QED BY <2>1, <2>4
<1> QED BY <1>6, <1>7, <1>8

-----------------------------------------------------------------------------
(* Submission *)

Submitted == [project : DOMAIN SourcesOf, key : Keys \cup {NoKey}]
RowStates == {"queued", "running", "succeeded", "failed"}
WorkPhases == {"running", "stored", "marked", "over"}

SubmitTypeOK ==
  /\ client \in [Clients -> [phase : {"idle"}]
                             \cup [phase : {"create"}, project : DOMAIN SourcesOf,
                                   key : Keys \cup {NoKey}]]
  /\ jobs \in Seq(Submitted) /\ row \in Seq(RowStates) /\ work \in Seq(Seq(WorkPhases))
  /\ Len(row) = Len(jobs) /\ Len(work) = Len(jobs) /\ marks \subseteq DOMAIN jobs

\* The key column is unique where it is set.
KeysUnique ==
  \A i, j \in DOMAIN jobs : jobs[i].key = jobs[j].key /\ jobs[i].key # NoKey => i = j

\* Who was answered was answered with a job of that key.
AnswersTrue ==
  \A a \in answers : a[1] # NoKey => a[2] \in DOMAIN jobs /\ jobs[a[2]].key = a[1]

\* A stored source has taken its spans.
SpansTaken == \A r \in saved : <<r[3]>> \in spans

SubmitInv == SubmitTypeOK /\ KeysUnique /\ AnswersTrue /\ SpansTaken /\ StoredOnce

\* At the start nobody has submitted.
THEOREM SubmitInvInit == SubmitInit => SubmitInv
BY DEF SubmitInit, SubmitInv, SubmitTypeOK, KeysUnique, AnswersTrue, SpansTaken, StoredOnce, NoClient

\* One lemma per action: a key is looked up, ...
LEMMA LookKeeps ==
  ASSUME SubmitInv, NEW c \in Clients, NEW p \in DOMAIN SourcesOf, NEW k \in Keys \cup {NoKey},
         Look(c, p, k)
  PROVE  SubmitInv'
<1>1. SubmitTypeOK'
  <2>1. SubmitTypeOK /\ UNCHANGED <<jobs, row, work, marks>>
    BY DEF SubmitInv, Look
  <2>2. PICK made : made = [phase |-> "create", project |-> p, key |-> k]
    OBVIOUS
  <2>3. made \in [phase : {"create"}, project : DOMAIN SourcesOf, key : Keys \cup {NoKey}]
    BY <2>2
  <2>4. client' = client \/ client' = [client EXCEPT ![c] = made]
    BY <2>2 DEF Look
  <2>5. client' \in [Clients -> [phase : {"idle"}]
                             \cup [phase : {"create"}, project : DOMAIN SourcesOf,
                                   key : Keys \cup {NoKey}]]
    BY <2>1, <2>3, <2>4 DEF SubmitTypeOK
  <2> QED BY <2>1, <2>5 DEF SubmitTypeOK
<1>2. KeysUnique' /\ SpansTaken' /\ StoredOnce'
  BY DEF SubmitInv, KeysUnique, SpansTaken, StoredOnce, Look
<1>3. AnswersTrue'
  <2>1. CASE k # NoKey /\ Holders(k) # {}
    <3>1. (CHOOSE j \in Holders(k) : TRUE) \in Holders(k)
      BY <2>1
    <3> QED BY <2>1, <3>1 DEF SubmitInv, AnswersTrue, Look, Holders
  <2>2. CASE ~ (k # NoKey /\ Holders(k) # {})
    BY <2>2 DEF SubmitInv, AnswersTrue, Look
  <2> QED BY <2>1, <2>2
<1> QED BY <1>1, <1>2, <1>3 DEF SubmitInv

\* ... a job is created, ...
LEMMA CreateKeeps ==
  ASSUME SubmitInv, NEW c \in Clients, Create(c)
  PROVE  SubmitInv'
<1> DEFINE new == [project |-> client[c].project, key |-> client[c].key]
<1>1. client[c] \in [phase : {"create"}, project : DOMAIN SourcesOf, key : Keys \cup {NoKey}]
  BY DEF SubmitInv, SubmitTypeOK, Create
<1>2. CASE ~ KeyFree(client[c].key)
  BY <1>1, <1>2 DEF SubmitInv, SubmitTypeOK, KeysUnique, AnswersTrue, SpansTaken, StoredOnce, Create,
                    NoClient
<1>3. CASE KeyFree(client[c].key)
  <2>1. /\ jobs' = Append(jobs, new) /\ new \in Submitted
        /\ row' = Append(row, "queued") /\ work' = Append(work, <<>>) /\ marks' = marks
        /\ answers' = answers \cup {<<new.key, Len(jobs) + 1>>}
        /\ UNCHANGED <<saved, spans>> /\ client' = [client EXCEPT ![c] = NoClient]
    BY <1>1, <1>3 DEF Create, Submitted
  <2>2. SubmitTypeOK'
    <3>1. jobs' \in Seq(Submitted) /\ Len(jobs') = Len(jobs) + 1 /\ marks' \subseteq DOMAIN jobs'
      BY <2>1 DEF SubmitInv, SubmitTypeOK
    <3>2. row' \in Seq(RowStates) /\ Len(row') = Len(jobs) + 1
      BY <2>1 DEF SubmitInv, SubmitTypeOK, RowStates
    <3>3. work' \in Seq(Seq(WorkPhases)) /\ Len(work') = Len(jobs) + 1
      <4>1. <<>> \in Seq(WorkPhases) /\ work \in Seq(Seq(WorkPhases)) /\ Len(work) = Len(jobs)
        BY DEF SubmitInv, SubmitTypeOK
      <4> QED BY <2>1, <4>1
    <3> QED BY <2>1, <3>1, <3>2, <3>3 DEF SubmitInv, SubmitTypeOK, NoClient
  <2>3. \A i \in DOMAIN jobs : i \in DOMAIN jobs' /\ jobs'[i] = jobs[i]
    BY <2>1 DEF SubmitInv, SubmitTypeOK
  <2>4. DOMAIN jobs' = DOMAIN jobs \cup {Len(jobs) + 1} /\ jobs'[Len(jobs) + 1] = new
    BY <2>1 DEF SubmitInv, SubmitTypeOK
  <2>5. \A i \in DOMAIN jobs : jobs[i].key = new.key => new.key = NoKey
    BY <1>3 DEF KeyFree, Holders
  <2> HIDE DEF new
  <2>6. KeysUnique'
    BY <2>3, <2>4, <2>5 DEF SubmitInv, KeysUnique
  <2>7. AnswersTrue'
    BY <2>1, <2>3, <2>4 DEF SubmitInv, AnswersTrue
  <2>8. SpansTaken' /\ StoredOnce'
    BY <2>1 DEF SubmitInv, SpansTaken, StoredOnce
  <2> QED BY <2>2, <2>6, <2>7, <2>8 DEF SubmitInv
<1> QED BY <1>2, <1>3

\* A result is stored whole, under spans nobody has taken, by one execution.
LEMMA ResultKeeps ==
  ASSUME SpansTaken, StoredOnce, NEW j, NEW t, Persists(j), spans' = spans \cup SpanKeys(j),
         saved' = saved \cup {<<j, t, s>> : s \in SourcesOf[jobs[j].project]}
  PROVE  SpansTaken' /\ StoredOnce'
<1> DEFINE project == SourcesOf[jobs[j].project]
<1>1. ASSUME NEW r \in saved', r \notin saved PROVE r[3] \in project /\ r = <<j, t, r[3]>>
  <2>1. PICK s \in project : r = <<j, t, s>>
    BY <1>1
  <2> QED BY <2>1
<1>2. \A s \in project : <<s>> \in spans' /\ <<s>> \notin spans
  BY DEF Persists, SpanKeys
<1> HIDE DEF project
<1>3. SpansTaken'
  BY <1>1, <1>2 DEF SpansTaken
<1>4. ASSUME NEW r \in saved', NEW s \in saved', r[3] = s[3] PROVE r = s
  BY <1>1, <1>2, <1>4 DEF SpansTaken, StoredOnce
<1> QED BY <1>3, <1>4 DEF StoredOnce

\* An execution moves on, ...
LEMMA MovesKeeps ==
  ASSUME SubmitTypeOK, NEW j \in DOMAIN jobs, NEW t, NEW from, NEW to \in WorkPhases, Moves(j, t, from, to)
  PROVE  work' \in Seq(Seq(WorkPhases)) /\ Len(work') = Len(work)
<1> DEFINE here == [work[j] EXCEPT ![t] = to]
<1>1. work \in Seq(Seq(WorkPhases)) /\ j \in 1 .. Len(work)
  BY DEF SubmitTypeOK
<1>2. work[j] \in Seq(WorkPhases) /\ t \in 1 .. Len(work[j]) /\ work' = [work EXCEPT ![j] = here]
  BY <1>1 DEF Moves
<1>3. here \in Seq(WorkPhases)
  BY <1>2, ExceptSeq
<1> HIDE DEF here
<1> QED BY <1>1, <1>2, <1>3, ExceptSeq

\* ... or another one begins.
LEMMA BeginsKeeps ==
  ASSUME SubmitTypeOK, NEW j \in DOMAIN jobs, NEW at \in WorkPhases,
         work' = [work EXCEPT ![j] = Append(work[j], at)]
  PROVE  work' \in Seq(Seq(WorkPhases)) /\ Len(work') = Len(work)
<1>1. work \in Seq(Seq(WorkPhases)) /\ j \in 1 .. Len(work)
  BY DEF SubmitTypeOK
<1>2. Append(work[j], at) \in Seq(WorkPhases)
  BY <1>1
<1> QED BY <1>1, <1>2, ExceptSeq

\* A row changes its state, or not.
LEMMA RowChanges ==
  ASSUME SubmitTypeOK, NEW j \in DOMAIN jobs,
         row' = row \/ \E to \in RowStates : row' = [row EXCEPT ![j] = to]
  PROVE  row' \in Seq(RowStates) /\ Len(row') = Len(row)
<1>1. row \in Seq(RowStates) /\ j \in 1 .. Len(row)
  BY DEF SubmitTypeOK
<1>2. CASE row' = row
  BY <1>1, <1>2
<1>3. CASE \E to \in RowStates : row' = [row EXCEPT ![j] = to]
  <2>1. PICK to \in RowStates : row' = [row EXCEPT ![j] = to]
    BY <1>3
  <2> HIDE DEF RowStates
  <2> QED BY <1>1, <2>1, ExceptSeq
<1> QED BY <1>2, <1>3

\* What an execution leaves of the invariant when it stores no result.
LEMMA StoringNothing ==
  ASSUME SubmitInv, NEW j \in DOMAIN jobs, UNCHANGED <<client, answers, jobs, saved, spans>>,
         marks' \in {marks, marks \cup {j}},
         row' = row \/ \E to \in RowStates : row' = [row EXCEPT ![j] = to],
         work' \in Seq(Seq(WorkPhases)) /\ Len(work') = Len(work)
  PROVE  SubmitInv'
<1>1. row' \in Seq(RowStates) /\ Len(row') = Len(row)
  BY RowChanges DEF SubmitInv
<1>2. SubmitTypeOK'
  BY <1>1 DEF SubmitInv, SubmitTypeOK
<1> QED BY <1>2 DEF SubmitInv, KeysUnique, AnswersTrue, SpansTaken, StoredOnce

\* One that stores its result, ...
LEMMA StoringOne ==
  ASSUME SubmitInv, NEW j \in DOMAIN jobs, NEW t, Persists(j), UNCHANGED <<client, answers, jobs>>,
         saved' = saved \cup Rows(j, t), spans' = spans \cup SpanKeys(j),
         marks' \in {marks, marks \cup {j}},
         row' = row \/ \E to \in RowStates : row' = [row EXCEPT ![j] = to],
         work' \in Seq(Seq(WorkPhases)) /\ Len(work') = Len(work)
  PROVE  SubmitInv'
<1>1. row' \in Seq(RowStates) /\ Len(row') = Len(row)
  BY RowChanges DEF SubmitInv
<1>2. SubmitTypeOK'
  BY <1>1 DEF SubmitInv, SubmitTypeOK
<1>3. SpansTaken' /\ StoredOnce'
  BY ResultKeeps DEF SubmitInv, Rows
<1> QED BY <1>2, <1>3 DEF SubmitInv, KeysUnique, AnswersTrue

\* ... so a worker's steps keep the invariant, ...
LEMMA WorkerKeeps ==
  ASSUME SubmitInv, NEW j \in DOMAIN jobs, NEW t,
          \/ CommitStage(j, t) \/ StageConflicts(j, t) \/ MarkStage(j, t)
          \/ FinishJob(j, t) \/ WorkerDies(j, t)
  PROVE  SubmitInv'
<1>1. SubmitTypeOK /\ {"running", "stored", "marked", "over"} \subseteq WorkPhases
  BY DEF SubmitInv, WorkPhases
<1>2. CASE CommitStage(j, t)
  <2>1. work' \in Seq(Seq(WorkPhases)) /\ Len(work') = Len(work)
    BY <1>1, <1>2, MovesKeeps DEF CommitStage
  <2> QED BY <1>2, <2>1, StoringOne DEF CommitStage
<1>3. CASE StageConflicts(j, t)
  <2>1. work' \in Seq(Seq(WorkPhases)) /\ Len(work') = Len(work)
    BY <1>1, <1>3, MovesKeeps DEF StageConflicts
  <2> QED BY <1>3, <2>1, StoringNothing DEF StageConflicts, RowStates
<1>4. CASE MarkStage(j, t)
  <2>1. work' \in Seq(Seq(WorkPhases)) /\ Len(work') = Len(work)
    BY <1>1, <1>4, MovesKeeps DEF MarkStage
  <2> QED BY <1>4, <2>1, StoringNothing DEF MarkStage, RowStates
<1>5. CASE FinishJob(j, t)
  <2>1. work' \in Seq(Seq(WorkPhases)) /\ Len(work') = Len(work)
    BY <1>1, <1>5, MovesKeeps DEF FinishJob
  <2> QED BY <1>5, <2>1, StoringNothing DEF FinishJob, RowStates
<1>6. CASE WorkerDies(j, t)
  <2>1. work' \in Seq(Seq(WorkPhases)) /\ Len(work') = Len(work)
    BY <1>1, <1>6, MovesKeeps DEF WorkerDies
  <2> QED BY <1>6, <2>1, StoringNothing DEF WorkerDies
<1> QED BY <1>2, <1>3, <1>4, <1>5, <1>6

\* ... and so do claims, runs in process and resumes.
LEMMA StartsKeep ==
  ASSUME SubmitInv, NEW j \in DOMAIN jobs, Claim(j) \/ RunInProcess(j) \/ resume_job(j)
  PROVE  SubmitInv'
<1>1. SubmitTypeOK /\ {"running", "stored", "marked", "over"} \subseteq WorkPhases
  BY DEF SubmitInv, WorkPhases
<1>2. work \in Seq(Seq(WorkPhases)) /\ Len(work) = Len(work)
  BY <1>1 DEF SubmitTypeOK
<1>3. CASE Claim(j)
  <2>1. PICK at \in WorkPhases : work' = [work EXCEPT ![j] = Append(work[j], at)]
    BY <1>1, <1>3 DEF Claim
  <2>2. work' \in Seq(Seq(WorkPhases)) /\ Len(work') = Len(work)
    BY <1>1, <2>1, BeginsKeeps
  <2> QED BY <1>3, <2>2, StoringNothing DEF Claim, RowStates
<1>4. CASE RunInProcess(j) /\ UNCHANGED work
  BY <1>2, <1>4, StoringNothing, StoringOne DEF RunInProcess, RowStates
<1>5. CASE RunInProcess(j) /\ work' = [work EXCEPT ![j] = Append(@, "over")]
  <2>1. work' \in Seq(Seq(WorkPhases)) /\ Len(work') = Len(work)
    BY <1>1, <1>5, BeginsKeeps
  <2> QED BY <1>5, <2>1, StoringNothing, StoringOne DEF RunInProcess, RowStates
<1>6. CASE resume_job(j)
  BY <1>2, <1>6, StoringNothing DEF resume_job, RowStates
<1>7. RunInProcess(j) => UNCHANGED work \/ work' = [work EXCEPT ![j] = Append(@, "over")]
  BY DEF RunInProcess
<1> QED BY <1>3, <1>4, <1>5, <1>6, <1>7

\* Every step of submission and execution keeps the invariant.
THEOREM SubmitInvStep == SubmitInv /\ [SubmitNext]_submitVars => SubmitInv'
<1> SUFFICES ASSUME SubmitInv, [SubmitNext]_submitVars PROVE SubmitInv' OBVIOUS
<1>1. CASE UNCHANGED submitVars
  BY <1>1 DEF submitVars, SubmitInv, SubmitTypeOK, KeysUnique, AnswersTrue, SpansTaken, StoredOnce
<1>2. CASE SubmitNext
  BY <1>2, LookKeeps, CreateKeeps, WorkerKeeps, StartsKeep DEF SubmitNext
<1> QED BY <1>1, <1>2

\* Whatever number of clients look up, count and insert at the same time, those
\* who are answered for one key are answered with one job.
THEOREM KeysGiveOneJob == SubmitSpec => []OneJobPerKey
<1>1. SubmitInv => OneJobPerKey
  BY DEF SubmitInv, KeysUnique, AnswersTrue, OneJobPerKey
<1> QED BY SubmitInvInit, SubmitInvStep, <1>1, PTL DEF SubmitSpec

\* However often jobs are claimed, lost, resumed or run in process, and however
\* many jobs there are of one project, the result of a source is stored once.
THEOREM ResultsAreStoredOnce == SubmitSpec => []StoredOnce
<1>1. SubmitInv => StoredOnce
  BY DEF SubmitInv
<1> QED BY SubmitInvInit, SubmitInvStep, <1>1, PTL DEF SubmitSpec

-----------------------------------------------------------------------------
(* The event log *)

Event == [at : Nat \ {0}, id : Nat \ {0}]

LogTypeOK ==
  /\ entries \subseteq Event /\ IsFiniteSet(entries)
  /\ logger \in [LogWriters -> [at : Nat]]
  /\ walk \in [phase : {"idle"}]
              \cup [phase : {"reading", "done"}, cursor : Nat, got : SUBSET Event,
                    twice : BOOLEAN, known : SUBSET Event]

\* Another event of the same number.
Tied(e) == \E f \in entries \ {e} : f.at = e.at

\* What the reader has is behind its cursor; what it has not is ahead, or tied.
WalkOK ==
  walk.phase # "idle" =>
    /\ ~ walk.twice /\ walk.known \subseteq entries
    /\ \A e \in walk.got : e.at <= walk.cursor
    /\ \A e \in walk.known \ walk.got :
         (walk.phase = "reading" /\ walk.cursor < e.at) \/ Tied(e)

LogInv == LogTypeOK /\ WalkOK

\* The greatest number of some events.
LEMMA HighestOf ==
  ASSUME NEW page \in SUBSET Event, IsFiniteSet(page), page # {}
  PROVE  /\ Highest(page) \in Nat \ {0}
         /\ \A e \in page : e.at <= Highest(page)
         /\ \E e \in page : e.at = Highest(page)
<1> DEFINE A == {e.at : e \in page}
<1>1. IsFiniteSet(A) /\ A \subseteq Int /\ A # {}
  <2>1. [e \in page |-> e.at] \in Surjection(page, A)
    BY DEF Surjection
  <2>2. IsFiniteSet(A)
    BY <2>1, FS_Surjection
  <2> QED BY <2>2 DEF Event
<1>2. \E n \in A : \A e \in page : e.at <= n
  <2>1. \A e \in page : e.at \in A
    OBVIOUS
  <2> HIDE DEF A
  <2>2. \E n \in A : \A x \in A : x <= n
    BY <1>1, GreatestExists
  <2> QED BY <2>1, <2>2
<1>3. Highest(page) \in A /\ \A e \in page : e.at <= Highest(page)
  BY <1>2 DEF Highest
<1> QED BY <1>3 DEF Event

\* At the start the log is empty.
THEOREM LogInvInit == LogInit => LogInv
BY FS_EmptySet DEF LogInit, LogInv, LogTypeOK, WalkOK, NoLogger, NoWalk

\* A writer reads the last number ...
LEMMA NumberKeeps ==
  ASSUME LogInv, NEW w \in LogWriters, Number(w)
  PROVE  LogInv'
<1>1. NextSequence \in Nat
  <2>1. CASE entries = {}
    BY <2>1 DEF NextSequence
  <2>2. CASE entries # {}
    <3>1. Highest(entries) \in Nat
      BY <2>2, HighestOf DEF LogInv, LogTypeOK
    <3> QED BY <2>2, <3>1 DEF NextSequence, Highest
  <2> QED BY <2>1, <2>2
<1> QED BY <1>1 DEF LogInv, LogTypeOK, WalkOK, Number, Tied

\* ... and writes its entry.
LEMMA LogKeeps ==
  ASSUME LogInv, NEW w \in LogWriters, Log(w)
  PROVE  LogInv'
<1> DEFINE event == [at |-> logger[w].at, id |-> Cardinality(entries) + 1]
<1>1. event \in Event
  BY FS_CardinalityType DEF LogInv, LogTypeOK, Log, Event
<1>2. entries' = entries \cup {event} /\ walk' = walk
  BY DEF Log
<1> HIDE DEF event
<1>3. entries' \subseteq Event /\ IsFiniteSet(entries')
  BY <1>1, <1>2, FS_AddElement DEF LogInv, LogTypeOK
<1>4. LogTypeOK'
  BY <1>2, <1>3 DEF LogInv, LogTypeOK, Log, NoLogger
<1>5. \A e : Tied(e) => Tied(e)'
  BY <1>2 DEF Tied
<1>6. WalkOK'
  BY <1>2, <1>5 DEF LogInv, WalkOK
<1> QED BY <1>4, <1>6 DEF LogInv

\* A reader starts ...
LEMMA StartKeeps ==
  ASSUME LogInv, StartWalk
  PROVE  LogInv'
BY DEF LogInv, LogTypeOK, WalkOK, StartWalk, Event, Tied

\* A page is the first rows after the cursor, and all of them when they are few.
LEMMA PageFacts ==
  ASSUME LogInv, NEW cursor \in Nat, NEW page \in Pages(cursor)
  PROVE  /\ page \subseteq After(cursor) /\ After(cursor) \subseteq entries /\ IsFiniteSet(page)
         /\ \A e \in page, f \in After(cursor) \ page : e.at <= f.at
         /\ page = {} => After(cursor) = {}
         /\ Cardinality(After(cursor)) <= PageSize => page = After(cursor)
<1> DEFINE rows == After(cursor)
<1>1. rows \subseteq entries /\ IsFiniteSet(rows) /\ Cardinality(rows) \in Nat
  BY FS_Subset, FS_CardinalityType DEF LogInv, LogTypeOK, After
<1>2. /\ page \subseteq rows /\ \A e \in page, f \in rows \ page : e.at <= f.at
      /\ Cardinality(page) = IF Cardinality(rows) < PageSize THEN Cardinality(rows) ELSE PageSize
  BY DEF Pages
<1> HIDE DEF rows
<1>3. IsFiniteSet(page) /\ (Cardinality(rows) = Cardinality(page) => page = rows)
  BY <1>1, <1>2, FS_Subset
<1>4. page = {} => rows = {}
  BY <1>1, <1>2, FS_EmptySet, SubmissionAssumption
<1>5. Cardinality(rows) <= PageSize => page = rows
  BY <1>1, <1>2, <1>3, SubmissionAssumption
<1> QED BY <1>1, <1>2, <1>3, <1>4, <1>5 DEF rows

\* ... and reads page after page.
LEMMA ReadKeeps ==
  ASSUME LogInv, ReadPage
  PROVE  LogInv'
<1>1. PICK page \in Pages(walk.cursor) :
       walk' = [phase |-> IF Cardinality(After(walk.cursor)) > PageSize THEN "reading" ELSE "done",
                cursor |-> IF page = {} THEN walk.cursor ELSE Highest(page),
                got |-> walk.got \cup page, twice |-> walk.twice \/ page \cap walk.got # {},
                known |-> walk.known]
  BY DEF ReadPage
<1>2. /\ walk.phase = "reading" /\ walk.cursor \in Nat /\ walk.got \subseteq Event
      /\ walk.twice \in BOOLEAN /\ walk.known \subseteq Event /\ entries \subseteq Event
      /\ UNCHANGED <<entries, logger>>
  BY DEF ReadPage, LogInv, LogTypeOK
<1>3. /\ page \subseteq After(walk.cursor) /\ After(walk.cursor) \subseteq entries /\ IsFiniteSet(page)
      /\ \A e \in page, f \in After(walk.cursor) \ page : e.at <= f.at
      /\ page = {} => After(walk.cursor) = {}
      /\ Cardinality(After(walk.cursor)) <= PageSize => page = After(walk.cursor)
  BY <1>2, PageFacts
<1>4. \A e \in entries : walk.cursor < e.at <=> e \in After(walk.cursor)
  BY <1>2 DEF After, Event
<1> DEFINE next == IF page = {} THEN walk.cursor ELSE Highest(page)
<1>5. /\ next \in Nat /\ walk.cursor <= next
      /\ \A e \in page : e.at <= next
      /\ page # {} => \E e \in page : e.at = next
  BY <1>2, <1>3, <1>4, HighestOf DEF Event
<1>6. walk'.cursor = next /\ walk'.got = walk.got \cup page /\ walk'.known = walk.known
      /\ walk'.phase \in {"reading", "done"} /\ walk'.twice = (walk.twice \/ page \cap walk.got # {})
      /\ (walk'.phase = "done" <=> ~ (Cardinality(After(walk.cursor)) > PageSize))
  BY <1>1
<1> HIDE DEF next
<1>7. LogTypeOK'
  BY <1>1, <1>2, <1>3, <1>5, <1>6 DEF LogInv, LogTypeOK, next
<1>8. ~ walk'.twice
  BY <1>2, <1>3, <1>4, <1>6 DEF LogInv, WalkOK, Event
<1>9. \A e \in walk'.got : e.at <= walk'.cursor
  BY <1>2, <1>5, <1>6 DEF LogInv, WalkOK, Event
<1>10. ASSUME NEW e \in walk'.known \ walk'.got
       PROVE  (walk'.phase = "reading" /\ walk'.cursor < e.at) \/ Tied(e)'
  <2>1. e \in entries /\ e \in Event /\ e \notin page /\ (e \in After(walk.cursor) \/ Tied(e))
    BY <1>2, <1>4, <1>6 DEF LogInv, WalkOK
  <2>2. Tied(e)' <=> Tied(e)
    BY <1>2 DEF Tied
  <2>3. CASE e \in After(walk.cursor)
    <3>1. walk'.phase = "reading" /\ page # {}
      BY <1>3, <1>6, <2>1, <2>3, FS_CardinalityType, FS_Subset, SubmissionAssumption
         DEF LogInv, LogTypeOK
    <3>2. PICK f \in page : f.at = next
      BY <1>5, <3>1
    <3>3. next <= e.at /\ (e.at = next => Tied(e))
      BY <1>3, <2>1, <2>3, <3>2 DEF Tied
    <3> QED BY <1>5, <1>6, <2>1, <2>2, <3>1, <3>3 DEF Event
  <2> QED BY <2>1, <2>2, <2>3
<1>11. walk'.known \subseteq entries'
  BY <1>2, <1>6 DEF LogInv, WalkOK
<1> QED BY <1>7, <1>8, <1>9, <1>10, <1>11 DEF LogInv, WalkOK

\* Every step of writers and readers keeps the invariant.
THEOREM LogInvStep == LogInv /\ [LogNext]_logVars => LogInv'
<1> SUFFICES ASSUME LogInv, [LogNext]_logVars PROVE LogInv' OBVIOUS
<1>1. CASE UNCHANGED logVars
  BY <1>1 DEF logVars, LogInv, LogTypeOK, WalkOK, Tied
<1>2. CASE LogNext
  BY <1>2, NumberKeeps, LogKeeps, StartKeeps, ReadKeeps DEF LogNext
<1> QED BY <1>1, <1>2

\* However many writers number their rows at the same time, and whatever is
\* appended while the pages are read, a reader gets no event twice, and misses
\* one that was there when it began only when another has its number.
THEOREM WalksMissOnlyTies == LogSpec => []WalkMissesOnlyTies
<1>1. LogInv => WalkMissesOnlyTies
  BY DEF LogInv, WalkOK, WalkMissesOnlyTies, Tied
<1> QED BY LogInvInit, LogInvStep, <1>1, PTL DEF LogSpec


-----------------------------------------------------------------------------
(* Intake *)

ArchiveMember == [path : {"plain", "absolute", "parent"}, kind : {"file", "dir", "archive"},
                  size : Nat, packed : Nat]

\* What passes the archive check is safe as a whole: its first member with a
\* problem would have been reported, and the last total is that of all.
LEMMA CheckedIsSafe ==
  ASSUME NEW f \in Files, validate_zip_archive(f) = "none"
  PROVE  Safe(f)
<1> DEFINE ms == f.members
           L == Len(ms)
           bad == {i \in DOMAIN ms : MemberProblem(ms, i) # "none"}
<1>1. /\ ms \in Seq(ArchiveMember)
      /\ MaxFile \in Nat /\ MaxMembers \in Nat /\ MaxRatio \in Nat
  BY IntakeAssumption DEF ArchiveMember
<1>2. L \in Nat /\ DOMAIN ms = 1 .. L
  BY <1>1
<1>3. f.sound /\ L <= MaxMembers
  BY <1>1, <1>2 DEF validate_zip_archive
<1>4. bad = {}
  <2> SUFFICES ASSUME bad # {} PROVE FALSE
    OBVIOUS
  <2>1. PICK m \in bad : \A n \in bad : m <= n
    <3>1. bad \subseteq Nat
      BY <1>2
    <3> HIDE DEF bad
    <3> QED BY <3>1, SmallestExists
  <2> DEFINE c == CHOOSE i \in bad : \A j \in bad : i <= j
  <2>2. c \in bad
    <3> HIDE DEF bad
    <3> QED BY <2>1
  <2>3. validate_zip_archive(f) = MemberProblem(ms, c)
    BY <1>1, <1>2, <1>3 DEF validate_zip_archive
  <2> HIDE DEF c
  <2> QED BY <2>2, <2>3
<1>7. Sizes(ms) \in Seq(Nat) /\ Len(Sizes(ms)) = L
  <2>1. \A i \in 1 .. L : ms[i].size \in Nat
    <3>1. \A i \in 1 .. L : ms[i] \in ArchiveMember
      BY <1>1
    <3> QED BY <3>1 DEF ArchiveMember
  <2>2. Sizes(ms) \in [1 .. L -> Nat]
    BY <1>2, <2>1 DEF Sizes
  <2> QED BY <1>2, <2>2
<1>5. ASSUME NEW i \in 1 .. L
      PROVE  /\ ms[i].path = "plain" /\ (ms[i].kind = "archive" => AllowNested)
             /\ ms[i].packed > 0 => ms[i].size <= MaxRatio * ms[i].packed
             /\ Unpacked(ms, i) <= MaxFile
  <2>1. /\ ms[i].path \in {"plain", "absolute", "parent"} /\ ms[i].size \in Nat
        /\ ms[i].packed \in Nat /\ MaxRatio * ms[i].packed \in Nat
    <3>1. ms[i] \in ArchiveMember
      BY <1>1
    <3>2. ms[i].path \in {"plain", "absolute", "parent"} /\ ms[i].size \in Nat /\ ms[i].packed \in Nat
      BY <3>1 DEF ArchiveMember
    <3>3. \A x, y \in Nat : x * y \in Nat
      OBVIOUS
    <3> QED BY <1>1, <3>2, <3>3
  <2>2. MemberProblem(ms, i) = "none"
    BY <1>2, <1>4
  <2>3. ms[i].path = "plain" /\ (ms[i].kind = "archive" => AllowNested)
    BY <2>1, <2>2 DEF MemberProblem
  <2>4. /\ ~ (ms[i].packed > 0 /\ ms[i].size > MaxRatio * ms[i].packed)
        /\ ~ (Unpacked(ms, i) > MaxFile)
    <3>1. MemberProblem(ms, i) =
            IF ms[i].packed > 0 /\ ms[i].size > MaxRatio * ms[i].packed THEN "ratio"
            ELSE IF Unpacked(ms, i) > MaxFile THEN "total" ELSE "none"
      BY <2>3 DEF MemberProblem
    <3> QED BY <2>2, <3>1
  <2>5. Unpacked(ms, i) \in Nat
    <3>1. PICK z \in Seq(Nat) : z = Sizes(ms)
      BY <1>7
    <3>2. i \in 0 .. Len(z)
      BY <1>2, <1>7, <3>1
    <3>3. SumTo(z, i) \in Nat
      BY <3>2, SumToSteps
    <3> QED BY <3>1, <3>3 DEF Unpacked
  <2>6. Unpacked(ms, i) <= MaxFile
    BY <1>1, <2>4, <2>5
  <2>7. ms[i].packed > 0 => ms[i].size <= MaxRatio * ms[i].packed
    <3>1. PICK bound \in Nat : bound = MaxRatio * ms[i].packed
      BY <2>1
    <3> QED BY <2>1, <2>4, <3>1
  <2> QED BY <2>3, <2>6, <2>7
<1>6. SumTo(Sizes(ms), L) <= MaxFile
  <2>2. CASE L = 0
    BY <1>1, <1>7, <2>2, SumToSteps
  <2>3. CASE L # 0
    <3>1. L \in 1 .. L
      BY <1>2, <2>3
    <3> QED BY <1>5, <3>1 DEF Unpacked
  <2> QED BY <2>2, <2>3
<1> QED BY <1>2, <1>3, <1>5, <1>6 DEF Safe

\* How far a call is and what that means for its file: a copy is in quarantine
\* before the file is stored, the file is stored before it is checked, and what
\* is committed was checked.
Calls == {"copy", "write", "store", "verify", "commit"}

CallOK(c) ==
  \/ c = NoIntake
  \/ /\ c.phase \in Calls
     /\ c = [phase |-> c.phase, file |-> c.file, project |-> c.project, from |-> c.from]
     /\ c.file \in Files /\ c.file.size \in 1 .. MaxFile /\ c.from # "url with secret"
     /\ c.phase \in {"store", "verify", "commit", "write"} => c.file \in Touched
     /\ c.phase \in {"verify", "commit"} => c.file \in artifacts
     /\ c.phase = "commit" /\ MediaType(c.file) = "zip" => validate_zip_archive(c.file) = "none"

IntakeTypeOK ==
  /\ DOMAIN intake = Uploaders /\ intake = [u \in Uploaders |-> intake[u]]
  /\ quarantine = [torn |-> quarantine.torn, whole |-> quarantine.whole]
  /\ IsFiniteSet(documents)

CallsOK == \A u \in Uploaders : CallOK(intake[u])

\* Row handles are numbered.
Numbered ==
  /\ \A doc \in documents : doc.id \in 1 .. Cardinality(documents)
  /\ \A doc, other \in documents : doc.id = other.id => doc = other

RowOK(doc) ==
  /\ doc.file \in artifacts /\ doc.file \in Touched
  /\ doc.file.size \in 1 .. MaxFile /\ doc.project \in KnownProjects
  /\ doc.media = "zip" => Safe(doc.file)
  /\ doc.from # "url with secret"

RowsOK == audit = {doc.id : doc \in documents} /\ \A doc \in documents : RowOK(doc)

IntakeInv == IntakeTypeOK /\ CallsOK /\ Numbered /\ RowsOK

\* At the start nothing has been taken in.
THEOREM IntakeInvInit == IntakeInit => IntakeInv
<1> SUFFICES ASSUME IntakeInit PROVE IntakeInv
  OBVIOUS
<1>1. IntakeTypeOK
  BY FS_EmptySet DEF IntakeInit, IntakeTypeOK
<1>2. CallsOK
  BY DEF IntakeInit, CallsOK, CallOK
<1>3. Numbered /\ RowsOK
  BY DEF IntakeInit, Numbered, RowsOK
<1> QED BY <1>1, <1>2, <1>3 DEF IntakeInv

\* Files are never taken out of the store or of quarantine.
Grows == Touched \subseteq Touched' /\ artifacts \subseteq artifacts'

\* Rows that are not touched stay as they should be.
LEMMA RowsKeep ==
  ASSUME IntakeInv, Grows, UNCHANGED <<documents, audit>>
  PROVE  Numbered' /\ RowsOK' /\ IsFiniteSet(documents')
<1>1. Numbered' /\ IsFiniteSet(documents')
  BY DEF IntakeInv, Numbered, IntakeTypeOK
<1>2. \A doc : RowOK(doc) => RowOK(doc)'
  BY DEF RowOK, Grows
<1>3. RowsOK'
  BY <1>2 DEF IntakeInv, RowsOK
<1> QED BY <1>1, <1>3

\* The other calls are as before when one moves on.
LEMMA CallsKeep ==
  ASSUME IntakeInv, Grows, NEW u \in Uploaders, NEW c, intake' = [intake EXCEPT ![u] = c],
         CallOK(c)'
  PROVE  CallsOK' /\ DOMAIN intake' = Uploaders /\ intake' = [v \in Uploaders |-> intake'[v]]
<1>1. \A d : CallOK(d) => CallOK(d)'
  BY DEF CallOK, Grows
<1>2. DOMAIN intake' = Uploaders /\ intake' = [v \in Uploaders |-> intake'[v]]
  BY DEF IntakeInv, IntakeTypeOK
<1>3. ASSUME NEW v \in Uploaders PROVE CallOK(intake[v])' 
  <2>1. CASE v = u
    <3>1. intake'[v] = c
      BY <2>1 DEF IntakeInv, IntakeTypeOK
    <3> QED BY <3>1
  <2>2. CASE v # u
    <3>1. intake'[v] = intake[v]
      BY <2>2 DEF IntakeInv, IntakeTypeOK
    <3>2. CallOK(intake[v])
      BY DEF IntakeInv, CallsOK
    <3>3. PICK d : d = intake[v]
      OBVIOUS
    <3> QED BY <1>1, <3>1, <3>2, <3>3
  <2> QED BY <2>1, <2>2
<1> QED BY <1>2, <1>3 DEF CallsOK

At(c, phase) == [phase |-> phase, file |-> c.file, project |-> c.project, from |-> c.from]

\* A call moves from one step to the next.
LEMMA CallMoves ==
  ASSUME IntakeInv, NEW u \in Uploaders, intake[u].phase \in Calls, NEW phase, Goto(u, phase)
  PROVE  /\ intake' = [intake EXCEPT ![u] = At(intake[u], phase)]
         /\ intake[u] = At(intake[u], intake[u].phase)
         /\ intake[u].file \in Files /\ intake[u].file.size \in 1 .. MaxFile
         /\ intake[u].from # "url with secret"
<1>1. CallOK(intake[u]) /\ intake[u] # NoIntake
  BY DEF IntakeInv, CallsOK, NoIntake, Calls
<1>2. intake[u] = At(intake[u], intake[u].phase)
  BY <1>1 DEF CallOK, At
<1>3. PICK c : c = intake[u]
  OBVIOUS
<1>4. [c EXCEPT !.phase = phase] = At(c, phase)
  BY <1>2, <1>3 DEF At
<1>5. intake' = [intake EXCEPT ![u] = [c EXCEPT !.phase = phase]]
  BY <1>3 DEF Goto
<1> QED BY <1>1, <1>2, <1>3, <1>4, <1>5 DEF CallOK

\* What is known of the file of a call that has come so far.
LEMMA CallReached ==
  ASSUME IntakeInv, NEW u \in Uploaders, intake[u].phase \in Calls
  PROVE  /\ intake[u].phase \in {"store", "verify", "commit"} => intake[u].file \in Touched
         /\ intake[u].phase \in {"verify", "commit"} => intake[u].file \in artifacts
         /\ intake[u].phase = "commit" /\ MediaType(intake[u].file) = "zip"
              => validate_zip_archive(intake[u].file) = "none"
<1>1. CallOK(intake[u]) /\ intake[u] # NoIntake
  BY DEF IntakeInv, CallsOK, NoIntake, Calls
<1>2. PICK c : c = intake[u]
  OBVIOUS
<1> QED BY <1>1, <1>2 DEF CallOK

\* The last three steps of a move: rows stay, the call is right.
LEMMA MoveKeeps ==
  ASSUME IntakeInv, Grows, UNCHANGED <<documents, audit>>,
         quarantine' = [torn |-> quarantine'.torn, whole |-> quarantine'.whole],
         NEW u \in Uploaders, NEW c, intake' = [intake EXCEPT ![u] = c], CallOK(c)'
  PROVE  IntakeInv'
BY RowsKeep, CallsKeep DEF IntakeInv, IntakeTypeOK

\* One lemma per action: an upload is received, ...
LEMMA ReceiveKeeps ==
  ASSUME IntakeInv, NEW u \in Uploaders, Receive(u)
  PROVE  IntakeInv'
<1>1. UNCHANGED <<quarantine, artifacts, documents, audit, outages>>
  BY DEF Receive
<1>2. PICK f \in Files, p \in Projects, locator \in Locators :
        /\ f.size \in 1 .. MaxFile
        /\ intake' = [intake EXCEPT ![u] =
             [phase |-> "copy", file |-> f, project |-> p, from |-> redact_locator(locator)]]
  BY DEF Receive
<1>3. redact_locator(locator) # "url with secret"
  BY DEF redact_locator
<1>4. PICK c : c = [phase |-> "copy", file |-> f, project |-> p, from |-> redact_locator(locator)]
  OBVIOUS
<1>5. CallOK(c)'
  BY <1>2, <1>3, <1>4 DEF CallOK, Calls
<1>6. Grows
  BY <1>1 DEF Grows, Touched
<1>7. quarantine' = [torn |-> quarantine'.torn, whole |-> quarantine'.whole]
  BY <1>1 DEF IntakeInv, IntakeTypeOK
<1> QED BY <1>1, <1>2, <1>4, <1>5, <1>6, <1>7, MoveKeeps

\* ... its copy is opened ...
LEMMA OpenCopyKeeps ==
  ASSUME IntakeInv, NEW u \in Uploaders, OpenCopy(u)
  PROVE  IntakeInv'
<1>1. UNCHANGED <<artifacts, documents, audit, outages>> /\ intake[u].phase = "copy"
  BY DEF OpenCopy
<1>2. PICK f, q : f = intake[u].file /\ q = quarantine
  OBVIOUS
<1>3. \/ quarantine' = [q EXCEPT !.torn = q.torn \cup {f}] /\ Goto(u, "write")
      \/ f \in Touched /\ Goto(u, "store") /\ quarantine' = q
  BY <1>2 DEF OpenCopy
<1>4. q = [torn |-> q.torn, whole |-> q.whole]
  BY <1>2 DEF IntakeInv, IntakeTypeOK
<1>5. \/ quarantine' = [torn |-> q.torn \cup {f}, whole |-> q.whole] /\ Goto(u, "write")
      \/ f \in Touched /\ Goto(u, "store") /\ quarantine' = q
  BY <1>3, <1>4
<1>6. Grows /\ f \in Touched' /\ quarantine' = [torn |-> quarantine'.torn, whole |-> quarantine'.whole]
  BY <1>1, <1>2, <1>4, <1>5 DEF Grows, Touched
<1>7. ASSUME NEW phase \in {"write", "store"}, Goto(u, phase) PROVE IntakeInv'
  <2>1. PICK c : c = At(intake[u], phase)
    OBVIOUS
  <2>2. /\ intake' = [intake EXCEPT ![u] = c] /\ f \in Files /\ f.size \in 1 .. MaxFile
        /\ c.from # "url with secret" /\ c.file = f /\ c.phase = phase
        /\ c = [phase |-> c.phase, file |-> c.file, project |-> c.project, from |-> c.from]
    BY <1>1, <1>2, <1>7, <2>1, CallMoves DEF Calls, At
  <2>3. CallOK(c)'
    BY <1>6, <2>2 DEF CallOK, Calls
  <2> QED BY <1>1, <1>6, <2>2, <2>3, MoveKeeps
<1> QED BY <1>5, <1>7

\* ... and written, ...
LEMMA WriteCopyKeeps ==
  ASSUME IntakeInv, NEW u \in Uploaders, WriteCopy(u)
  PROVE  IntakeInv'
<1>1. UNCHANGED <<artifacts, documents, audit, outages>> /\ intake[u].phase = "write" /\ Goto(u, "store")
      /\ quarantine' = [torn |-> quarantine.torn \ {intake[u].file},
                        whole |-> quarantine.whole \cup {intake[u].file}]
  BY DEF WriteCopy
<1>2. Grows /\ intake[u].file \in Touched' /\ quarantine' = [torn |-> quarantine'.torn, whole |-> quarantine'.whole]
  BY <1>1 DEF Grows, Touched
<1>3. PICK c : c = At(intake[u], "store")
  OBVIOUS
<1>4. /\ intake' = [intake EXCEPT ![u] = c] /\ c.file \in Files /\ c.file.size \in 1 .. MaxFile
      /\ c.from # "url with secret" /\ c.file = intake[u].file /\ c.phase = "store"
      /\ c = [phase |-> c.phase, file |-> c.file, project |-> c.project, from |-> c.from]
  BY <1>1, <1>3, CallMoves DEF Calls, At
<1>5. CallOK(c)'
  BY <1>2, <1>4 DEF CallOK, Calls
<1> QED BY <1>1, <1>2, <1>4, <1>5, MoveKeeps

\* ... the artifact is stored, ...
LEMMA StoreArtifactKeeps ==
  ASSUME IntakeInv, NEW u \in Uploaders, StoreArtifact(u)
  PROVE  IntakeInv'
<1>1. UNCHANGED <<quarantine, documents, audit, outages>> /\ intake[u].phase = "store" /\ Goto(u, "verify")
      /\ artifacts' = artifacts \cup {intake[u].file}
  BY DEF StoreArtifact
<1>6. intake[u].file \in Touched
  BY <1>1, CallReached DEF Calls
<1>7. Touched' = Touched /\ quarantine' = [torn |-> quarantine'.torn, whole |-> quarantine'.whole]
  BY <1>1 DEF Touched, IntakeInv, IntakeTypeOK
<1>2. Grows /\ quarantine' = [torn |-> quarantine'.torn, whole |-> quarantine'.whole]
      /\ intake[u].file \in Touched' /\ intake[u].file \in artifacts'
  BY <1>1, <1>6, <1>7 DEF Grows
<1>3. PICK c : c = At(intake[u], "verify")
  OBVIOUS
<1>4. /\ intake' = [intake EXCEPT ![u] = c] /\ c.file \in Files /\ c.file.size \in 1 .. MaxFile
      /\ c.from # "url with secret" /\ c.file = intake[u].file /\ c.phase = "verify"
      /\ c = [phase |-> c.phase, file |-> c.file, project |-> c.project, from |-> c.from]
  BY <1>1, <1>3, CallMoves DEF Calls, At
<1>5. CallOK(c)'
  BY <1>2, <1>4 DEF CallOK, Calls
<1> QED BY <1>1, <1>2, <1>4, <1>5, MoveKeeps

\* ... the archive is looked into, ...
LEMMA VerifyArchiveKeeps ==
  ASSUME IntakeInv, NEW u \in Uploaders, VerifyArchive(u)
  PROVE  IntakeInv'
<1>1. UNCHANGED <<quarantine, artifacts, documents, audit, outages>> /\ intake[u].phase = "verify"
  BY DEF VerifyArchive
<1>2. Grows /\ quarantine' = [torn |-> quarantine'.torn, whole |-> quarantine'.whole]
  BY <1>1 DEF Grows, Touched, IntakeInv, IntakeTypeOK
<1>6. intake[u].file \in Touched /\ intake[u].file \in artifacts
  BY <1>1, CallReached DEF Calls
<1>7. Touched' = Touched
  BY <1>1 DEF Touched
<1>3. intake[u].file \in Touched' /\ intake[u].file \in artifacts'
  BY <1>1, <1>6, <1>7
<1>4. CASE Refuse(u)
  <2>1. intake' = [intake EXCEPT ![u] = NoIntake] /\ CallOK(NoIntake)'
    BY <1>4 DEF Refuse, CallOK
  <2> QED BY <1>1, <1>2, <2>1, MoveKeeps
<1>5. CASE /\ Goto(u, "commit")
           /\ ~ (MediaType(intake[u].file) = "zip" /\ validate_zip_archive(intake[u].file) # "none")
  <2>1. PICK c : c = At(intake[u], "commit")
    OBVIOUS
  <2>2. /\ intake' = [intake EXCEPT ![u] = c] /\ c.file \in Files /\ c.file.size \in 1 .. MaxFile
        /\ c.from # "url with secret" /\ c.file = intake[u].file /\ c.phase = "commit"
        /\ c = [phase |-> c.phase, file |-> c.file, project |-> c.project, from |-> c.from]
    BY <1>1, <1>5, <2>1, CallMoves DEF Calls, At
  <2>3. CallOK(c)'
    BY <1>3, <1>5, <2>2 DEF CallOK, Calls
  <2> QED BY <1>1, <1>2, <2>2, <2>3, MoveKeeps
<1> QED BY <1>4, <1>5 DEF VerifyArchive

\* ... the row is committed, ...
LEMMA CommitSourceKeeps ==
  ASSUME IntakeInv, NEW u \in Uploaders, CommitSource(u)
  PROVE  IntakeInv'
<1> DEFINE f == intake[u].file
           n == Cardinality(documents)
           fresh == [id |-> n + 1, file |-> f, project |-> intake[u].project,
                     media |-> MediaType(f), from |-> intake[u].from,
                     flagged |-> f.injects /\ MediaType(f) \in TextTypes,
                     content |-> MediaType(f) \in TextTypes]
<1>1. /\ UNCHANGED <<quarantine, artifacts, outages>> /\ intake[u].phase = "commit"
      /\ intake' = [intake EXCEPT ![u] = NoIntake]
  BY DEF CommitSource, Refuse
<1>2. CallOK(NoIntake)' /\ Touched' = Touched
  BY <1>1 DEF CallOK, Touched
<1>3. Grows /\ quarantine' = [torn |-> quarantine'.torn, whole |-> quarantine'.whole]
  BY <1>1, <1>2 DEF Grows, IntakeInv, IntakeTypeOK
<1>4. /\ f \in Touched /\ f \in artifacts /\ (MediaType(f) = "zip" => validate_zip_archive(f) = "none")
      /\ f \in Files /\ f.size \in 1 .. MaxFile /\ intake[u].from # "url with secret"
  <2>1. CallOK(intake[u]) /\ intake[u] # NoIntake
    BY <1>1 DEF IntakeInv, CallsOK, NoIntake
  <2>2. PICK c : c = intake[u]
    OBVIOUS
  <2> QED BY <1>1, <2>1, <2>2 DEF CallOK, Calls
<1>5. PICK doc : doc = fresh
  OBVIOUS
<1>6. /\ doc.id = n + 1 /\ doc.file = f /\ doc.media = MediaType(f) /\ doc.from = intake[u].from
      /\ doc.project = intake[u].project
  BY <1>5
<1>7. \/ UNCHANGED <<documents, audit>>
      \/ /\ doc.project \in KnownProjects
         /\ documents' = documents \cup {doc} /\ audit' = audit \cup {doc.id}
  BY <1>5 DEF CommitSource
<1> HIDE DEF fresh
<1>8. CASE UNCHANGED <<documents, audit>>
  BY <1>1, <1>2, <1>3, <1>8, MoveKeeps
<1>9. CASE /\ doc.project \in KnownProjects
           /\ documents' = documents \cup {doc} /\ audit' = audit \cup {doc.id}
  <2>1. IsFiniteSet(documents) /\ n \in Nat
    BY FS_CardinalityType DEF IntakeInv, IntakeTypeOK
  <2>2. \A r \in documents : r.id \in 1 .. n
    BY DEF IntakeInv, Numbered
  <2>3. doc \notin documents
    BY <1>6, <2>1, <2>2
  <2>4. IsFiniteSet(documents') /\ Cardinality(documents') = n + 1
    BY <1>9, <2>1, <2>3, FS_AddElement
  <2>5. Numbered'
    <3>1. \A r \in documents' : r.id \in 1 .. n + 1
      BY <1>6, <1>9, <2>1, <2>2
    <3>2. \A r, other \in documents' : r.id = other.id => r = other
      BY <1>6, <1>9, <2>1, <2>2 DEF IntakeInv, Numbered
    <3> QED BY <2>4, <3>1, <3>2 DEF Numbered
  <2>6. RowOK(doc)'
    BY <1>1, <1>2, <1>4, <1>6, <1>9, CheckedIsSafe DEF RowOK
  <2>7. \A r : RowOK(r) => RowOK(r)'
    BY <1>3 DEF RowOK, Grows
  <2>8. RowsOK'
    <3>1. audit' = {r.id : r \in documents'}
      BY <1>9 DEF IntakeInv, RowsOK
    <3>2. \A r \in documents' : RowOK(r)'
      <4> SUFFICES ASSUME NEW r \in documents' PROVE RowOK(r)'
        OBVIOUS
      <4> QED BY <1>9, <2>6, <2>7 DEF IntakeInv, RowsOK
    <3> QED BY <3>1, <3>2 DEF RowsOK
  <2>9. CallsOK' /\ DOMAIN intake' = Uploaders /\ intake' = [v \in Uploaders |-> intake'[v]]
    BY <1>1, <1>2, <1>3, CallsKeep
  <2> QED BY <1>3, <2>4, <2>5, <2>8, <2>9 DEF IntakeInv, IntakeTypeOK
<1> QED BY <1>7, <1>8, <1>9

\* ... or the process ends.
LEMMA OutageKeeps ==
  ASSUME IntakeInv, Outage
  PROVE  IntakeInv'
<1>1. intake' = [u \in Uploaders |-> NoIntake] /\ UNCHANGED <<quarantine, artifacts, documents, audit>>
  BY DEF Outage
<1>2. Grows /\ quarantine' = [torn |-> quarantine'.torn, whole |-> quarantine'.whole]
  BY <1>1 DEF Grows, Touched, IntakeInv, IntakeTypeOK
<1>3. CallsOK' /\ DOMAIN intake' = Uploaders /\ intake' = [v \in Uploaders |-> intake'[v]]
  BY <1>1 DEF CallsOK, CallOK
<1> QED BY <1>1, <1>2, <1>3, RowsKeep DEF IntakeInv, IntakeTypeOK

\* Every step of the intake keeps the invariant.
THEOREM IntakeInvStep == IntakeInv /\ [IntakeNext]_intakeVars => IntakeInv'
<1> SUFFICES ASSUME IntakeInv, [IntakeNext]_intakeVars PROVE IntakeInv'
  OBVIOUS
<1>1. CASE IntakeNext
  BY <1>1, ReceiveKeeps, OpenCopyKeeps, WriteCopyKeeps, StoreArtifactKeeps, VerifyArchiveKeeps,
     CommitSourceKeeps, OutageKeeps DEF IntakeNext
<1>2. CASE UNCHANGED intakeVars
  <2>1. UNCHANGED <<intake, quarantine, artifacts, documents, audit>>
    BY <1>2 DEF intakeVars
  <2>2. Grows /\ Touched' = Touched
    BY <2>1 DEF Grows, Touched
  <2>3. CallsOK'
    BY <2>1, <2>2 DEF IntakeInv, CallsOK, CallOK
  <2> QED BY <2>1, <2>2, <2>3, RowsKeep DEF IntakeInv, IntakeTypeOK
<1> QED BY <1>1, <1>2

\* A fetch has sent one request for every hop it has made, and the next goes
\* to a URL that passed the policy.
Sendings == [to : Sites, login : BOOLEAN]

Confined(sent) ==
  /\ sent \in Seq(Sendings) /\ Len(sent) <= MaxRedirects + 1
  /\ \A i \in DOMAIN sent : _validate_url(sent[i].to) /\ (sent[i].login => i = 1)

VisitInv ==
  \/ visit = [phase |-> "none", sent |-> <<>>]
  \/ \E phase \in {"request", "answer", "refused", "fetched"}, sent \in Seq(Sendings),
        at \in Sites, hop \in Nat :
       /\ visit = [phase |-> phase, sent |-> sent, at |-> at, hop |-> hop] /\ Confined(sent)
       /\ phase = "request" => Len(sent) = hop /\ _validate_url(at)
       /\ phase = "answer" => Len(sent) = hop + 1 /\ hop <= MaxRedirects /\ _validate_url(at)

\* Without a request nothing leaves the sites.
LEMMA NothingSent == Confined(<<>>)
<1>1. <<>> \in Seq(Sendings) /\ Len(<<>>) = 0 /\ DOMAIN <<>> = {}
  OBVIOUS
<1> QED BY <1>1, IntakeAssumption DEF Confined

\* At the start nothing has been asked for.
LEMMA VisitInvInit == VisitInit => VisitInv
BY DEF VisitInit, VisitInv

\* A request goes out only after its address was checked.
LEMMA SendKeeps ==
  ASSUME VisitInv, SendRequest
  PROVE  VisitInv'
<1>1. PICK sent \in Seq(Sendings), at \in Sites, hop \in Nat :
        /\ visit = [phase |-> "request", sent |-> sent, at |-> at, hop |-> hop] /\ Confined(sent)
        /\ Len(sent) = hop /\ _validate_url(at)
  BY DEF VisitInv, SendRequest
<1>2. CASE hop <= MaxRedirects
  <2>1. PICK r : r = [to |-> at, login |-> CarriesLogin(hop)]
    OBVIOUS
  <2>2. PICK more : more = Append(sent, r)
    OBVIOUS
  <2>3. visit' = [phase |-> "answer", sent |-> more, at |-> at, hop |-> hop]
    BY <1>1, <1>2, <2>1, <2>2 DEF SendRequest
  <2>4. r \in Sendings /\ r.to = at /\ (r.login <=> hop = 0)
    BY <2>1 DEF Sendings, CarriesLogin
  <2>5. /\ more \in Seq(Sendings) /\ Len(more) = hop + 1 /\ DOMAIN more = 1 .. hop + 1
        /\ \A i \in 1 .. hop : more[i] = sent[i]
        /\ more[hop + 1] = r
    BY <1>1, <2>2, <2>4
  <2>6. \A i \in DOMAIN more : _validate_url(more[i].to) /\ (more[i].login => i = 1)
    <3> SUFFICES ASSUME NEW i \in 1 .. hop + 1
                 PROVE  _validate_url(more[i].to) /\ (more[i].login => i = 1)
      BY <2>5
    <3>1. CASE i = hop + 1
      BY <1>1, <2>4, <2>5, <3>1
    <3>2. CASE i \in 1 .. hop
      <4>1. i \in DOMAIN sent /\ more[i] = sent[i]
        BY <1>1, <2>5, <3>2
      <4> QED BY <1>1, <4>1 DEF Confined
    <3> QED BY <3>1, <3>2
  <2>7. Confined(more)
    BY <1>2, <2>5, <2>6, IntakeAssumption DEF Confined
  <2> QED BY <1>1, <1>2, <2>3, <2>5, <2>7 DEF VisitInv
<1>3. CASE ~ (hop <= MaxRedirects)
  <2>1. visit' = [phase |-> "refused", sent |-> sent, at |-> at, hop |-> hop]
    BY <1>1, <1>3 DEF SendRequest
  <2> QED BY <1>1, <2>1 DEF VisitInv
<1> QED BY <1>2, <1>3

\* An answer sends no request.
LEMMA AnswerKeeps ==
  ASSUME VisitInv, Redirected \/ Refused \/ Fetched
  PROVE  VisitInv'
<1>4. visit.phase = "answer"
  BY DEF Redirected, Refused, Fetched
<1>1. PICK sent \in Seq(Sendings), at \in Sites, hop \in Nat :
        /\ visit = [phase |-> "answer", sent |-> sent, at |-> at, hop |-> hop] /\ Confined(sent)
        /\ Len(sent) = hop + 1 /\ _validate_url(at)
  BY <1>4 DEF VisitInv
<1>2. CASE Redirected
  <2>1. visit' = [phase |-> "request", sent |-> sent, at |-> at, hop |-> hop + 1]
    BY <1>1, <1>2 DEF Redirected, NextUrl
  <2> QED BY <1>1, <2>1 DEF VisitInv
<1>3. CASE Refused \/ Fetched
  <2>1. PICK phase \in {"refused", "fetched"} :
          visit' = [phase |-> phase, sent |-> sent, at |-> at, hop |-> hop]
    BY <1>1, <1>3 DEF Refused, Fetched
  <2> QED BY <1>1, <2>1 DEF VisitInv
<1> QED BY <1>2, <1>3

\* Every step of the fetch keeps the invariant.
LEMMA VisitInvStep == VisitInv /\ [VisitNext]_visit => VisitInv'
<1> SUFFICES ASSUME VisitInv, [VisitNext]_visit PROVE VisitInv'
  OBVIOUS
<1>1. ASSUME NEW site \in Sites, StartFetch(site) PROVE VisitInv'
  <2>1. PICK phase \in {"request", "refused"} :
          /\ visit' = [phase |-> phase, sent |-> <<>>, at |-> site, hop |-> 0]
          /\ phase = "request" => _validate_url(site)
    BY <1>1 DEF StartFetch
  <2>2. <<>> \in Seq(Sendings) /\ Len(<<>>) = 0
    OBVIOUS
  <2> QED BY <2>1, <2>2, NothingSent DEF VisitInv
<1>2. CASE UNCHANGED visit
  BY <1>2 DEF VisitInv
<1> QED BY <1>1, <1>2, SendKeeps, AnswerKeeps DEF VisitNext

\* Whatever is uploaded, by however many at the same time and with whatever
\* crashes, and wherever a server redirects a fetch: source rows are backed by
\* files that passed their checks, and requests go to URLs that passed theirs.
THEOREM SourcesStayGuarded == IntakeSpec /\ VisitSpec => []SourcesAreGuarded
<1>1. IntakeInv => RowsAreBacked
  BY DEF IntakeInv, Numbered, RowsOK, RowOK, RowsAreBacked
<1>2. VisitInv => FetchIsConfined
  <2> SUFFICES ASSUME VisitInv PROVE FetchIsConfined
    OBVIOUS
  <2>1. Confined(visit.sent)
    BY NothingSent DEF VisitInv
  <2> QED BY <2>1 DEF Confined, FetchIsConfined
<1> QED BY IntakeInvInit, IntakeInvStep, VisitInvInit, VisitInvStep, <1>1, <1>2, PTL
       DEF IntakeSpec, VisitSpec, SourcesAreGuarded

-----------------------------------------------------------------------------
(* Access *)

\* What a request looks like once it has begun.
Phases == {"queued", "refusing", "length", "body", "oversized", "scope", "access", "tool",
           "act", "insert", "done"}

Begun == [phase : Phases, at : Nat, passed : BOOLEAN, read : Nat, left : Seq(Nat)]

Identities == {_identity(r) : r \in Requests}

AccessTypeOK ==
  /\ clock \in Nat /\ queue \in Seq(Requests) /\ acted \subseteq Requests
  /\ owners = [p \in DOMAIN InitialOwners |-> owners[p]]
  /\ buckets \in [Identities -> Seq(Nat)]
  /\ request \in [Requests -> Begun \cup {NoRequest}]
  /\ replies \in [Requests -> Seq(Nat)]

\* Those the limiter let pass, by identity.
Passed(k) ==
  {q \in Requests : request[q].phase # "new" /\ request[q].passed /\ _identity(q) = k}

\* Those who wait came in the order of their times.
QueueOK ==
  \A i \in DOMAIN queue :
    /\ request[queue[i]].phase # "new" /\ request[queue[i]].at <= clock
    /\ \A j \in DOMAIN queue : i <= j => request[queue[i]].at <= request[queue[j]].at

\* A time is out of the window of everyone who waits or is still to come.
Over(time) ==
  /\ time + RateWindow <= clock
  /\ \A i \in DOMAIN queue : time + RateWindow <= request[queue[i]].at

\* Each request that passed and still counts has a time of its own in the bucket.
Counted(k, bucket, D, slot) ==
  /\ D \subseteq Passed(k) /\ slot \in [D -> DOMAIN bucket]
  /\ \A q \in D : bucket[slot[q]] = request[q].at
  /\ \A q, p \in D : slot[q] = slot[p] => q = p
  /\ \A q \in Passed(k) \ D : Over(request[q].at)

HasCount(k, bucket) ==
  \E D \in SUBSET Requests : \E slot \in [D -> DOMAIN bucket] : Counted(k, bucket, D, slot)

Window(k, t) == {q \in Passed(k) : request[q].at \in t .. t + RateWindow - 1}

RateInv ==
  /\ QueueOK
  /\ \A r \in Requests : request[r].phase = "queued" => ~ request[r].passed
  /\ \A k \in Identities :
       /\ HasCount(k, buckets[k])
       /\ \A t \in Nat : IsFiniteSet(Window(k, t)) /\ Cardinality(Window(k, t)) <= RateCap

\* What a request has behind it in a phase.
HasToken(r) == ApiToken # NoToken => r.token = ApiToken
SmallBody(r) == BodyCap > 0 /\ RouteOf(r).reads => SumTo(r.chunks, Len(r.chunks)) <= BodyCap
MayAct(r) ==
  /\ authorize(r) # Nobody /\ SmallBody(r)
  /\ RouteOf(r).guard = "project" => SeesAll(authorize(r)) \/ owners[r.project] = authorize(r)

\* The body has been read up to some piece, and what was read is within the cap.
BodyOK(r) ==
  /\ \E n \in 0 .. Len(r.chunks) : /\ request[r].read = SumTo(r.chunks, n)
                                   /\ request[r].left = SubSeq(r.chunks, n + 1, Len(r.chunks))
  /\ BodyCap > 0 => request[r].read <= BodyCap

RequestOK(r) ==
  /\ request[r].phase # "new" => BodyOK(r)
  /\ request[r].phase = "tool" => r.server = "mcp"
  /\ request[r].phase \in {"scope", "access"} => SmallBody(r)
  /\ request[r].phase = "access" => authorize(r) # Nobody
  /\ request[r].phase \in {"tool", "act", "insert"} => HasToken(r)
  /\ request[r].phase \in {"act", "insert"} => (r.server = "rest" => MayAct(r))

\* Whose project it is that a successful creation made.
Codes(r) == {replies[r][i] : i \in DOMAIN replies[r]}

CreatedOK ==
  /\ \A r \in Requests : 201 \in Codes(r) => owners[r.project] # Nobody
  /\ \A r, q \in Requests : 201 \in Codes(r) /\ 201 \in Codes(q) /\ r.project = q.project => r = q

RightsInv ==
  /\ \A r \in Requests : RequestOK(r)
  /\ \A r \in acted : HasToken(r) /\ (r.server = "rest" => MayAct(r))
  /\ CreatedOK

AccessInv == AccessTypeOK /\ RateInv /\ RightsInv

\* Those who have begun keep their time ...
SameTimes ==
  \A s \in Requests : request[s].phase # "new" =>
    request'[s].phase # "new" /\ request'[s].at = request[s].at

\* ... and whether they passed.
SamePasses ==
  \A s \in Requests :
    /\ request[s].phase # "new" => request'[s].passed = request[s].passed
    /\ request[s].phase = "new" /\ request'[s].phase # "new" => ~ request'[s].passed

\* One request moves on.
LEMMA MoveTimes ==
  ASSUME AccessTypeOK, NEW r \in Requests, NEW q \in Begun, request' = [request EXCEPT ![r] = q],
         IF request[r].phase = "new" THEN ~ q.passed
         ELSE q.at = request[r].at /\ q.passed = request[r].passed
  PROVE  /\ SameTimes /\ SamePasses /\ request'[r] = q /\ \A s \in Requests \ {r} : request'[s] = request[s]
         /\ request' \in [Requests -> Begun \cup {NoRequest}]
<1>1. request \in [Requests -> Begun \cup {NoRequest}] /\ q.phase # "new"
  BY DEF AccessTypeOK, Begun, Phases
<1>2. request'[r] = q /\ \A s \in Requests \ {r} : request'[s] = request[s]
  BY <1>1
<1>3. SameTimes /\ SamePasses
  BY <1>1, <1>2 DEF SameTimes, SamePasses
<1> QED BY <1>1, <1>2, <1>3

\* Then the same requests have passed, with the same times, ...
LEMMA SamePassed ==
  ASSUME SameTimes, SamePasses, NEW k
  PROVE  /\ Passed(k)' = Passed(k)
         /\ \A s \in Passed(k) : request'[s].at = request[s].at
<1>1. \A s \in Requests : (request'[s].phase # "new" /\ request'[s].passed)
                            <=> (request[s].phase # "new" /\ request[s].passed)
  BY DEF SameTimes, SamePasses
<1> QED BY <1>1 DEF Passed, SameTimes

\* ... and every window holds the same ones.
LEMMA SameWindow ==
  ASSUME SameTimes, SamePasses, NEW k, NEW t \in Nat
  PROVE  Window(k, t)' = Window(k, t)
<1>1. Passed(k)' = Passed(k) /\ \A s \in Passed(k) : request'[s].at = request[s].at
  BY SamePassed
<1> QED BY <1>1 DEF Window

\* The queue stays in order, and who is over stays over, when one leaves its
\* head or comes to its end.
LEMMA QueueKept ==
  ASSUME AccessTypeOK, QueueOK, SameTimes, clock' \in Nat, clock <= clock',
         \/ queue' = queue
         \/ queue # <<>> /\ queue' = Tail(queue)
         \/ \E r \in Requests : /\ queue' = Append(queue, r)
                                /\ request'[r].phase # "new" /\ request'[r].at = clock
  PROVE  QueueOK' /\ \A time \in Nat : Over(time) => Over(time)'
<1>1. /\ queue \in Seq(Requests) /\ clock \in Nat
      /\ \A s \in Requests : request[s].phase # "new" => request[s].at \in Nat
  BY DEF AccessTypeOK, Begun, NoRequest
<1>2. PICK L \in Nat : L = Len(queue) /\ DOMAIN queue = 1 .. L
  BY <1>1
<1>3. \A i \in 1 .. L : /\ queue[i] \in Requests /\ request'[queue[i]].phase # "new"
                        /\ request'[queue[i]].at = request[queue[i]].at /\ request[queue[i]].at \in Nat
                        /\ request[queue[i]].at <= clock
  BY <1>1, <1>2 DEF QueueOK, SameTimes
<1>4. \A i, j \in 1 .. L : i <= j => request[queue[i]].at <= request[queue[j]].at
  BY <1>2 DEF QueueOK
<1>5. ASSUME NEW d \in {0, 1}, d <= L, DOMAIN queue' = 1 .. L - d,
             \A i \in 1 .. L - d : queue'[i] = queue[i + d]
      PROVE  QueueOK' /\ \A time \in Nat : Over(time) => Over(time)'
  <2>1. ASSUME NEW i \in 1 .. L - d
        PROVE  /\ i + d \in 1 .. L /\ queue'[i] = queue[i + d] /\ request'[queue'[i]].phase # "new"
               /\ request'[queue'[i]].at = request[queue[i + d]].at
               /\ request'[queue'[i]].at \in Nat /\ request'[queue'[i]].at <= clock'
    <3>1. i + d \in 1 .. L /\ queue'[i] = queue[i + d]
      BY <1>5
    <3>2. PICK j \in 1 .. L : j = i + d
      BY <3>1
    <3>3. /\ request'[queue[j]].phase # "new" /\ request'[queue[j]].at = request[queue[j]].at
          /\ request[queue[j]].at \in Nat /\ request[queue[j]].at <= clock
      BY <1>3
    <3>4. PICK at \in Nat : at = request[queue[j]].at
      BY <3>3
    <3>5. at <= clock'
      BY <1>1, <3>3, <3>4
    <3>6. queue'[i] = queue[j] /\ queue[i + d] = queue[j]
      BY <3>1, <3>2
    <3> QED BY <3>1, <3>3, <3>4, <3>5, <3>6
  <2>2. ASSUME NEW i \in 1 .. L - d, NEW j \in 1 .. L - d, i <= j
        PROVE  request'[queue'[i]].at <= request'[queue'[j]].at
    <3>1. i + d \in 1 .. L /\ j + d \in 1 .. L /\ i + d <= j + d
      BY <1>5, <2>1, <2>2
    <3>2. request[queue[i + d]].at <= request[queue[j + d]].at
      BY <1>4, <3>1
    <3> QED BY <2>1, <3>2
  <2>3. QueueOK'
    BY <1>5, <2>1, <2>2 DEF QueueOK
  <2>4. ASSUME NEW time \in Nat, Over(time) PROVE Over(time)'
    <3>1. PICK late \in Nat : late = time + RateWindow
      BY AccessAssumption
    <3>2. late <= clock /\ \A i \in 1 .. L : late <= request[queue[i]].at
      BY <1>2, <2>4, <3>1 DEF Over
    <3>3. \A i \in 1 .. L - d : late <= request'[queue'[i]].at
      BY <2>1, <3>2
    <3> QED BY <1>1, <1>5, <3>1, <3>2, <3>3 DEF Over
  <2> QED BY <2>3, <2>4
<1>6. CASE queue' = queue \/ (queue # <<>> /\ queue' = Tail(queue))
  <2>1. CASE queue' = queue
    BY <1>2, <1>5, <2>1
  <2>2. CASE queue # <<>> /\ queue' = Tail(queue)
    <3>1. 1 <= L /\ DOMAIN queue' = 1 .. L - 1 /\ \A i \in 1 .. L - 1 : queue'[i] = queue[i + 1]
      BY <1>1, <1>2, <2>2
    <3> QED BY <1>5, <3>1
  <2> QED BY <1>6, <2>1, <2>2
<1>7. ASSUME NEW r \in Requests, queue' = Append(queue, r),
             request'[r].phase # "new" /\ request'[r].at = clock
      PROVE  QueueOK' /\ \A time \in Nat : Over(time) => Over(time)'
  <2>1. DOMAIN queue' = 1 .. L + 1 /\ queue'[L + 1] = r /\ \A i \in 1 .. L : queue'[i] = queue[i]
    BY <1>1, <1>2, <1>7
  <2>2. \A i \in 1 .. L + 1 : i \in 1 .. L \/ i = L + 1
    BY <1>2
  <2>3. \A i \in 1 .. L + 1 : /\ request'[queue'[i]].phase # "new" /\ request'[queue'[i]].at <= clock
                              /\ request'[queue'[i]].at \in Nat
    <3> SUFFICES ASSUME NEW i \in 1 .. L + 1
                 PROVE  /\ request'[queue'[i]].phase # "new" /\ request'[queue'[i]].at <= clock
                        /\ request'[queue'[i]].at \in Nat
      OBVIOUS
    <3>1. CASE i = L + 1
      BY <1>1, <1>7, <2>1, <3>1
    <3>2. CASE i \in 1 .. L
      BY <1>3, <2>1, <3>2
    <3> QED BY <2>2, <3>1, <3>2
  <2>4. \A i, j \in 1 .. L + 1 : i <= j => request'[queue'[i]].at <= request'[queue'[j]].at
    <3> SUFFICES ASSUME NEW i \in 1 .. L + 1, NEW j \in 1 .. L + 1, i <= j
                 PROVE  request'[queue'[i]].at <= request'[queue'[j]].at
      OBVIOUS
    <3>1. CASE j = L + 1
      BY <1>7, <2>1, <2>3, <3>1
    <3>2. CASE j \in 1 .. L
      <4>1. i \in 1 .. L
        BY <1>2, <3>2
      <4> QED BY <1>3, <1>4, <2>1, <3>2, <4>1
    <3> QED BY <2>2, <3>1, <3>2
  <2>5. QueueOK'
    <3>1. ASSUME NEW i \in 1 .. L + 1 PROVE request'[queue'[i]].at <= clock'
      BY <1>1, <2>3
    <3> QED BY <2>1, <2>3, <2>4, <3>1 DEF QueueOK
  <2>6. \A time \in Nat : Over(time) => Over(time)'
    <3> SUFFICES ASSUME NEW time \in Nat, Over(time) PROVE Over(time)'
      OBVIOUS
    <3>1. time + RateWindow <= clock /\ \A i \in 1 .. L : time + RateWindow <= request[queue[i]].at
      BY <1>2 DEF Over
    <3>2. time + RateWindow \in Nat
      BY AccessAssumption
    <3>3. \A i \in 1 .. L + 1 : time + RateWindow <= request'[queue'[i]].at
      BY <1>3, <1>7, <2>1, <2>2, <3>1
    <3> QED BY <1>1, <2>1, <3>1, <3>2, <3>3 DEF Over
  <2> QED BY <2>5, <2>6
<1> QED BY <1>6, <1>7

\* What is counted in a bucket stays counted when time and queue go on.
LEMMA CountKept ==
  ASSUME AccessTypeOK, SameTimes, \A time \in Nat : Over(time) => Over(time)',
         NEW k, Passed(k)' = Passed(k), NEW bucket, NEW D, NEW slot, Counted(k, bucket, D, slot)
  PROVE  Counted(k, bucket, D, slot)'
<1>1. \A s \in Passed(k) : request'[s].at = request[s].at /\ request[s].at \in Nat
  BY DEF Passed, SameTimes, AccessTypeOK, Begun, NoRequest
<1>2. ASSUME NEW q \in Passed(k) \ D PROVE Over(request[q].at)'
  <2>1. PICK time \in Nat : time = request[q].at /\ time = request'[q].at
    BY <1>1
  <2>2. Over(time)'
    BY <2>1 DEF Counted
  <2> QED BY <2>1, <2>2 DEF Over
<1> QED BY <1>1, <1>2 DEF Counted

QueueMoves ==
  \/ queue' = queue
  \/ queue # <<>> /\ queue' = Tail(queue)
  \/ \E r \in Requests : /\ queue' = Append(queue, r)
                         /\ request'[r].phase # "new" /\ request'[r].at = clock

\* The limiter's books stay right when nobody passes.
LEMMA RateKept ==
  ASSUME AccessTypeOK, RateInv, SameTimes, SamePasses, clock' \in Nat, clock <= clock',
         \A s \in Requests : request'[s].phase = "queued" => ~ request'[s].passed,
         \A k \in Identities : HasCount(k, buckets'[k]),
         QueueMoves
  PROVE  RateInv'
<1>1. QueueOK' /\ \A time \in Nat : Over(time) => Over(time)'
  BY QueueKept DEF RateInv, QueueMoves
<1>2. \A k \in Identities : \A t \in Nat : Window(k, t)' = Window(k, t)
  BY SameWindow
<1>3. ASSUME NEW k \in Identities PROVE HasCount(k, buckets[k])'
  <2>1. PICK bucket : bucket = buckets'[k]
    OBVIOUS
  <2>2. PICK D \in SUBSET Requests : \E slot \in [D -> DOMAIN bucket] : Counted(k, bucket, D, slot)
    BY <2>1 DEF HasCount
  <2>3. PICK slot \in [D -> DOMAIN bucket] : Counted(k, bucket, D, slot)
    BY <2>2
  <2>4. Counted(k, bucket, D, slot)'
    BY <1>1, <2>3, SamePassed, CountKept
  <2>5. Counted(k, buckets[k], D, slot)'
    BY <2>1, <2>4 DEF Counted
  <2> QED BY <2>1, <2>3, <2>5 DEF HasCount
<1>4. \A k \in Identities : \A t \in Nat :
        IsFiniteSet(Window(k, t)') /\ Cardinality(Window(k, t)') <= RateCap
  BY <1>2 DEF RateInv
<1> QED BY <1>1, <1>3, <1>4 DEF RateInv

\* The limiter drops times that are out of the window, and only from the front.
LEMMA StaleTimes ==
  ASSUME NEW times \in Seq(Nat), NEW now \in Nat
  PROVE  /\ Stale(times, now) \in 0 .. Len(times)
         /\ \A i \in 1 .. Stale(times, now) : now - times[i] >= RateWindow
         /\ Recent(times, now) \in Seq(Nat)
         /\ Len(Recent(times, now)) = Len(times) - Stale(times, now)
         /\ \A i \in 1 .. Len(times) - Stale(times, now) :
              Recent(times, now)[i] = times[i + Stale(times, now)]
<1> DEFINE S == {n \in 0 .. Len(times) : \A i \in 1 .. n : now - times[i] >= RateWindow}
           L == Len(times)
<1>1. L \in Nat /\ \A i \in 1 .. L : times[i] \in Nat
  OBVIOUS
<1>2. 0 \in S /\ S \subseteq 0 .. L /\ S \subseteq Int /\ IsFiniteSet(S)
  <2>1. 0 \in 0 .. L /\ \A i \in 1 .. 0 : FALSE
    BY <1>1
  <2>2. S \subseteq 0 .. L /\ IsFiniteSet(0 .. L)
    BY <1>1, FS_Interval
  <2> QED BY <1>1, <2>1, <2>2, FS_Subset
<1>3. PICK m \in S : \A n \in S : n <= m
  <2> HIDE DEF S
  <2> QED BY <1>2, GreatestExists
<1>4. Stale(times, now) \in S
  <2>1. \A n \in S : m >= n
    BY <1>1, <1>2, <1>3
  <2>2. Stale(times, now) = Max(S)
    BY DEF Stale
  <2> HIDE DEF S
  <2> QED BY <1>3, <2>1, <2>2 DEF Max
<1>5. PICK n \in 0 .. L : n = Stale(times, now) /\ \A i \in 1 .. n : now - times[i] >= RateWindow
  BY <1>4
<1>6. \A i \in n + 1 .. L : times[i] \in Nat
  BY <1>1, <1>5
<1>7. /\ SubSeq(times, n + 1, L) \in Seq(Nat)
      /\ Len(SubSeq(times, n + 1, L)) = IF n + 1 <= L THEN L - (n + 1) + 1 ELSE 0
      /\ \A i \in 1 .. L - (n + 1) + 1 : SubSeq(times, n + 1, L)[i] = times[n + 1 + i - 1]
  <2>1. PICK lo \in Int, hi \in Int : lo = n + 1 /\ hi = L
    BY <1>1, <1>5
  <2>2. \A i \in lo .. hi : times[i] \in Nat
    BY <1>6, <2>1
  <2>3. /\ SubSeq(times, lo, hi) \in Seq(Nat)
        /\ Len(SubSeq(times, lo, hi)) = IF lo <= hi THEN hi - lo + 1 ELSE 0
        /\ \A i \in 1 .. hi - lo + 1 : SubSeq(times, lo, hi)[i] = times[lo + i - 1]
    BY <2>2, SubSeqProperties
  <2> QED BY <2>1, <2>3
<1>8. Recent(times, now) = SubSeq(times, n + 1, L)
  <2>1. 1 + n = n + 1
    BY <1>5
  <2> QED BY <1>5, <2>1 DEF Recent
<1>9. /\ (IF n + 1 <= L THEN L - (n + 1) + 1 ELSE 0) = L - n
      /\ \A i \in 1 .. L - n : i \in 1 .. L - (n + 1) + 1 /\ n + 1 + i - 1 = i + n
  <2>1. L \in Nat /\ n \in Nat /\ n <= L
    BY <1>1, <1>5
  <2>2. L - (n + 1) + 1 = L - n /\ (n + 1 <= L \/ L - n = 0)
    BY <2>1
  <2>3. ASSUME NEW i \in 1 .. L - n PROVE n + 1 + i - 1 = i + n
    BY <2>1, <2>3
  <2> HIDE DEF L
  <2> QED BY <2>1, <2>2, <2>3
<1> QED BY <1>1, <1>5, <1>7, <1>8, <1>9

\* Who is first in the queue, and what is known of the others.
LEMMA FirstWaits ==
  ASSUME AccessTypeOK, QueueOK, queue # <<>>, NEW r, r = Head(queue)
  PROVE  /\ r \in Requests /\ request[r] \in Begun /\ request[r].at \in Nat
         /\ \A time \in Nat : time + RateWindow <= request[r].at => Over(time)
         /\ \A time \in Nat : Over(time) => time + RateWindow <= request[r].at
<1>1. /\ queue \in Seq(Requests) /\ clock \in Nat
      /\ \A s \in Requests : request[s].phase # "new" => request[s] \in Begun
  BY DEF AccessTypeOK, NoRequest
<1>2. /\ 1 \in DOMAIN queue /\ r = queue[1] /\ r \in Requests
      /\ \A i \in DOMAIN queue : 1 <= i /\ queue[i] \in Requests
  BY <1>1
<1>3. request[r] \in Begun /\ request[r].at <= clock
      /\ \A i \in DOMAIN queue : request[queue[i]] \in Begun /\ request[r].at <= request[queue[i]].at
  BY <1>1, <1>2 DEF QueueOK
<1>4. request[r].at \in Nat /\ \A i \in DOMAIN queue : request[queue[i]].at \in Nat
  BY <1>3 DEF Begun
<1>5. ASSUME NEW time \in Nat, time + RateWindow <= request[r].at PROVE Over(time)
  <2>1. PICK late \in Nat : late = time + RateWindow
    BY AccessAssumption
  <2>2. late <= clock /\ \A i \in DOMAIN queue : late <= request[queue[i]].at
    BY <1>1, <1>3, <1>4, <1>5, <2>1
  <2> QED BY <2>1, <2>2 DEF Over
<1>6. ASSUME NEW time \in Nat, Over(time) PROVE time + RateWindow <= request[r].at
  BY <1>2, <1>6 DEF Over
<1> QED BY <1>2, <1>3, <1>4, <1>5, <1>6

\* Dropping stale times from a bucket drops requests that are over, and the others
\* keep a time of their own.
LEMMA Trimmed ==
  ASSUME AccessTypeOK, QueueOK, queue # <<>>, NEW r, r = Head(queue),
         NEW k, NEW bucket \in Seq(Nat), NEW times, times = Recent(bucket, request[r].at),
         HasCount(k, bucket)
  PROVE  times \in Seq(Nat) /\ HasCount(k, times)
<1>14. PICK D \in SUBSET Requests : \E slot \in [D -> DOMAIN bucket] : Counted(k, bucket, D, slot)
  BY DEF HasCount
<1>15. PICK slot \in [D -> DOMAIN bucket] : Counted(k, bucket, D, slot)
  BY <1>14
<1>1. r \in Requests /\ request[r].at \in Nat
  BY FirstWaits
<1>2. PICK now \in Nat : now = request[r].at
  BY <1>1
<1>3. PICK n \in 0 .. Len(bucket) : n = Stale(bucket, now)
  BY StaleTimes
<1>4. /\ \A i \in 1 .. n : now - bucket[i] >= RateWindow
      /\ times \in Seq(Nat) /\ Len(times) = Len(bucket) - n
      /\ \A i \in 1 .. Len(bucket) - n : times[i] = bucket[i + n]
  BY <1>2, <1>3, StaleTimes
<1>5. /\ D \subseteq Passed(k) /\ slot \in [D -> 1 .. Len(bucket)]
      /\ \A q \in D : bucket[slot[q]] = request[q].at
      /\ \A q, p \in D : slot[q] = slot[p] => q = p
      /\ \A q \in Passed(k) \ D : Over(request[q].at)
  BY <1>15 DEF Counted
<1>6. Len(bucket) \in Nat /\ n \in Nat /\ DOMAIN times = 1 .. Len(bucket) - n
  BY <1>3, <1>4
<1> DEFINE E == {q \in D : n < slot[q]}
           s == [q \in E |-> slot[q] - n]
<1>7. \A q \in D : slot[q] \in 1 .. Len(bucket)
  BY <1>5
<1>8. s \in [E -> DOMAIN times]
  <2>1. \A q \in E : slot[q] - n \in 1 .. Len(bucket) - n
    BY <1>6, <1>7
  <2> QED BY <1>6, <2>1
<1>9. \A q \in E : times[s[q]] = request[q].at
  <2> SUFFICES ASSUME NEW q \in E PROVE times[s[q]] = request[q].at
    OBVIOUS
  <2>1. PICK i \in 1 .. Len(bucket) - n : i = slot[q] - n /\ s[q] = i
    BY <1>6, <1>8
  <2>2. i + n = slot[q]
    BY <1>6, <1>7, <2>1
  <2> QED BY <1>4, <1>5, <2>1, <2>2
<1>10. \A q, p \in E : s[q] = s[p] => q = p
  BY <1>5, <1>6, <1>7
<1>11. ASSUME NEW q \in Passed(k) \ E PROVE Over(request[q].at)
  <2>1. CASE q \notin D
    BY <1>5, <2>1
  <2>2. CASE q \in D
    <3>1. slot[q] \in 1 .. n
      BY <1>6, <1>7, <2>2
    <3>2. PICK time \in Nat : time = bucket[slot[q]]
      BY <1>7, <2>2
    <3>3. now - time >= RateWindow
      BY <1>4, <3>1, <3>2
    <3>4. time + RateWindow <= now
      BY <3>3, AccessAssumption
    <3>5. Over(time)
      BY <1>2, <3>4, FirstWaits
    <3> QED BY <1>5, <2>2, <3>2, <3>5
  <2> QED BY <2>1, <2>2
<1>12. E \subseteq D /\ E \subseteq Passed(k)
  BY <1>5
<1> HIDE DEF E, s
<1>13. Counted(k, times, E, s)
  BY <1>8, <1>9, <1>10, <1>11, <1>12 DEF Counted
<1>16. E \in SUBSET Requests
  BY <1>12 DEF Passed
<1> QED BY <1>4, <1>8, <1>13, <1>16 DEF HasCount

\* The lock is passed on with a refusal to come: only the stale times go.
LEMMA RefusedCount ==
  ASSUME AccessTypeOK, RateInv, queue # <<>>, NEW r, r = Head(queue), NEW times,
         times = Recent(buckets[_identity(r)], request[r].at),
         buckets' = [buckets EXCEPT ![_identity(r)] = times]
  PROVE  \A k \in Identities : HasCount(k, buckets'[k])
<1>1. r \in Requests /\ _identity(r) \in Identities /\ buckets \in [Identities -> Seq(Nat)]
  BY FirstWaits DEF RateInv, Identities, AccessTypeOK
<1>2. PICK me \in Identities : me = _identity(r)
  BY <1>1
<1>3. buckets'[me] = times /\ \A k \in Identities \ {me} : buckets'[k] = buckets[k]
  BY <1>1, <1>2
<1>4. PICK bucket \in Seq(Nat) : bucket = buckets[me]
  BY <1>1
<1>5. QueueOK /\ times = Recent(bucket, request[r].at) /\ HasCount(me, bucket)
  BY <1>2, <1>4 DEF RateInv
<1>6. HasCount(me, times)
  BY <1>5, Trimmed
<1> QED BY <1>3, <1>6 DEF RateInv

\* Someone passes: it counts, and no window it is in has more than the cap, since
\* all of those in it still have a time of their own in the bucket.
LEMMA PassesKeepRate ==
  ASSUME AccessTypeOK, RateInv, queue # <<>>, NEW r, r = Head(queue), request[r].phase = "queued",
         NEW times, times = Recent(buckets[_identity(r)], request[r].at), allow(times),
         buckets' = [buckets EXCEPT ![_identity(r)] = Append(times, request[r].at)],
         NEW q \in Begun, q.phase = "length", q.passed, q.at = request[r].at,
         request' = [request EXCEPT ![r] = q], queue' = Tail(queue), UNCHANGED clock
  PROVE  RateInv'
<1>1. /\ r \in Requests /\ request[r] \in Begun /\ QueueOK /\ ~ request[r].passed
      /\ buckets \in [Identities -> Seq(Nat)] /\ request \in [Requests -> Begun \cup {NoRequest}]
      /\ clock \in Nat /\ _identity(r) \in Identities
  BY FirstWaits DEF RateInv, AccessTypeOK, Identities
<1>2. PICK a \in Nat : a = request[r].at
  BY <1>1, FirstWaits DEF RateInv
<1>3. PICK me \in Identities : me = _identity(r)
  BY <1>1
<1>4. request'[r] = q /\ \A s \in Requests \ {r} : request'[s] = request[s]
  BY <1>1
<1>5. SameTimes /\ \A s \in Requests : request'[s].phase = "queued" => ~ request'[s].passed
  BY <1>1, <1>4 DEF SameTimes, RateInv, Begun, Phases
<1>6. QueueOK' /\ \A time \in Nat : Over(time) => Over(time)'
  BY <1>1, <1>5, QueueKept
<1>7. /\ Passed(me)' = Passed(me) \cup {r} /\ r \notin Passed(me)
      /\ \A k \in Identities \ {me} : Passed(k)' = Passed(k)
  BY <1>1, <1>3, <1>4 DEF Passed
<1>8. /\ \A s \in Passed(me) : request'[s].at = request[s].at /\ request[s].at \in Nat
      /\ request'[r].at = a
  BY <1>1, <1>2, <1>4, <1>7 DEF Passed, Begun, NoRequest
<1>9. ASSUME NEW k \in Identities \ {me}
      PROVE  HasCount(k, buckets[k])' /\ \A t \in Nat : Window(k, t)' = Window(k, t)
  <2>1. PICK bucket : bucket = buckets[k] /\ bucket = buckets'[k]
    BY <1>1, <1>3, <1>9
  <2>2. PICK D \in SUBSET Requests : \E slot \in [D -> DOMAIN bucket] : Counted(k, bucket, D, slot)
    BY <2>1 DEF RateInv, HasCount
  <2>3. PICK slot \in [D -> DOMAIN bucket] : Counted(k, bucket, D, slot)
    BY <2>2
  <2>4. Counted(k, bucket, D, slot)'
    BY <1>5, <1>6, <1>7, <2>3, CountKept
  <2>8. Counted(k, buckets[k], D, slot)'
    BY <2>1, <2>4 DEF Counted
  <2>5. HasCount(k, buckets[k])'
    BY <2>1, <2>3, <2>8 DEF HasCount
  <2>6. \A s \in Passed(k) : request'[s].at = request[s].at
    BY <1>5 DEF SameTimes, Passed
  <2>7. \A t \in Nat : Window(k, t)' = Window(k, t)
    BY <1>7, <2>6 DEF Window
  <2> QED BY <2>5, <2>7
<1>10. times \in Seq(Nat) /\ HasCount(me, times)
  <2>1. PICK bucket \in Seq(Nat) : bucket = buckets[me]
    BY <1>1
  <2>2. QueueOK /\ times = Recent(bucket, request[r].at) /\ HasCount(me, bucket)
    BY <1>3, <2>1 DEF RateInv
  <2> QED BY <2>2, Trimmed
<1>11. PICK D \in SUBSET Requests : \E slot \in [D -> DOMAIN times] : Counted(me, times, D, slot)
  BY <1>10 DEF HasCount
<1>12. PICK slot \in [D -> DOMAIN times] : Counted(me, times, D, slot)
  BY <1>11
<1>13. PICK L \in Nat : L = Len(times) /\ DOMAIN times = 1 .. L /\ L < RateCap
  BY <1>10 DEF allow
<1>14. /\ D \subseteq Passed(me) /\ r \notin D /\ \A s \in D : slot[s] \in 1 .. L
       /\ \A s \in D : times[slot[s]] = request[s].at
       /\ \A s, p \in D : slot[s] = slot[p] => s = p
       /\ \A s \in Passed(me) \ D : Over(request[s].at)
  BY <1>7, <1>12, <1>13 DEF Counted
<1>20. PICK more : more = Append(times, a)
  OBVIOUS
<1>15. /\ more = Append(times, a) /\ DOMAIN more = 1 .. L + 1 /\ more[L + 1] = a
       /\ \A i \in 1 .. L : more[i] = times[i]
  BY <1>10, <1>13, <1>20
<1>16. buckets'[me] = more
  BY <1>1, <1>2, <1>3, <1>15
<1>17. HasCount(me, buckets[me])'
  <2> DEFINE E == D \cup {r}
             s2 == [s \in E |-> IF s = r THEN L + 1 ELSE slot[s]]
  <2>1. \A i \in 1 .. L : i \in 1 .. L + 1 /\ i # L + 1
    BY <1>13
  <2>2. s2 \in [E -> 1 .. L + 1] /\ E \in SUBSET Requests
    BY <1>1, <1>13, <1>14, <2>1
  <2>3. \A s \in E : more[s2[s]] = request'[s].at
    BY <1>8, <1>14, <1>15
  <2>4. \A s, p \in E : s2[s] = s2[p] => s = p
    BY <1>14, <2>1
  <2>5. E \subseteq Passed(me)' /\ Passed(me)' \ E = Passed(me) \ D
    BY <1>7, <1>14
  <2>6. ASSUME NEW s \in Passed(me) \ D PROVE Over(request[s].at)'
    <3>1. PICK time \in Nat : time = request[s].at /\ time = request'[s].at
      BY <1>8
    <3>2. Over(time)'
      BY <1>6, <1>14, <3>1
    <3> QED BY <3>1, <3>2 DEF Over
  <2> HIDE DEF E, s2
  <2>7. PICK F, f : F = E /\ f = s2
    OBVIOUS
  <2>8. F \in SUBSET Requests /\ f \in [F -> DOMAIN more] /\ Counted(me, more, F, f)'
    BY <1>15, <2>2, <2>3, <2>4, <2>5, <2>6, <2>7 DEF Counted
  <2>9. f \in [F -> DOMAIN buckets'[me]] /\ Counted(me, buckets[me], F, f)'
    BY <1>16, <2>8 DEF Counted
  <2> QED BY <2>8, <2>9 DEF HasCount
<1>18. ASSUME NEW t \in Nat
       PROVE  IsFiniteSet(Window(me, t)') /\ Cardinality(Window(me, t)') <= RateCap
  <2>1. IsFiniteSet(Window(me, t)) /\ Cardinality(Window(me, t)) <= RateCap
    BY DEF RateInv
  <2>2. CASE a \notin t .. t + RateWindow - 1
    <3>1. Window(me, t)' = Window(me, t)
      BY <1>7, <1>8, <2>2 DEF Window
    <3> QED BY <2>1, <3>1
  <2>3. CASE a \in t .. t + RateWindow - 1
    <3>1. Window(me, t)' = Window(me, t) \cup {r}
      BY <1>7, <1>8, <2>3 DEF Window
    <3>2. Window(me, t) \subseteq D
      <4> SUFFICES ASSUME NEW s \in Window(me, t), s \notin D PROVE FALSE
        OBVIOUS
      <4>1. s \in Passed(me) /\ request[s].at \in t .. t + RateWindow - 1 /\ Over(request[s].at)
        BY <1>14 DEF Window
      <4>2. PICK time \in Nat : time = request[s].at
        BY <1>8, <4>1
      <4>3. time + RateWindow <= a
        BY <1>1, <1>2, <4>1, <4>2, FirstWaits
      <4> QED BY <2>3, <4>1, <4>2, <4>3, AccessAssumption
    <3>3. IsFiniteSet(1 .. L) /\ Cardinality(1 .. L) = L
      <4>1. /\ IsFiniteSet(1 .. L)
            /\ Cardinality(1 .. L) = IF 1 > L THEN 0 ELSE L - 1 + 1
        <5>1. PICK lo \in Int, hi \in Int : lo = 1 /\ hi = L
          BY <1>13
        <5>2. /\ IsFiniteSet(lo .. hi)
              /\ Cardinality(lo .. hi) = IF lo > hi THEN 0 ELSE hi - lo + 1
          BY FS_Interval
        <5> QED BY <5>1, <5>2
      <4>2. (IF 1 > L THEN 0 ELSE L - 1 + 1) = L
        BY <1>13
      <4> QED BY <4>1, <4>2
    <3>4. slot \in Injection(D, 1 .. L)
      BY <1>12, <1>13, <1>14 DEF Injection, IsInjective
    <3>5. IsFiniteSet(D) /\ Cardinality(D) <= L /\ Cardinality(D) \in Nat
      BY <3>3, <3>4, FS_Injection, FS_CardinalityType
    <3>6. Cardinality(Window(me, t)) <= L /\ Cardinality(Window(me, t)) \in Nat
      BY <1>13, <2>1, <3>2, <3>5, FS_Subset, FS_CardinalityType
    <3>7. /\ IsFiniteSet(Window(me, t) \cup {r})
          /\ Cardinality(Window(me, t) \cup {r}) <= Cardinality(Window(me, t)) + 1
      <4>1. PICK W : W = Window(me, t)
        OBVIOUS
      <4>2. IsFiniteSet(W) /\ Cardinality(W) \in Nat
        BY <2>1, <3>6, <4>1
      <4>3. /\ IsFiniteSet(W \cup {r})
            /\ Cardinality(W \cup {r}) = IF r \in W THEN Cardinality(W) ELSE Cardinality(W) + 1
        BY <4>2, FS_AddElement
      <4>4. (IF r \in W THEN Cardinality(W) ELSE Cardinality(W) + 1) <= Cardinality(W) + 1
        BY <4>2
      <4> QED BY <4>1, <4>3, <4>4
    <3>8. Cardinality(Window(me, t) \cup {r}) \in Nat
      BY <3>7, FS_CardinalityType
    <3> QED BY <1>13, <3>1, <3>6, <3>7, <3>8, AccessAssumption
  <2> QED BY <2>2, <2>3
<1>19. \A k \in Identities : /\ HasCount(k, buckets[k])'
                             /\ \A t \in Nat : /\ IsFiniteSet(Window(k, t)')
                                               /\ Cardinality(Window(k, t)') <= RateCap
  <2> TAKE k \in Identities
  <2>1. CASE k = me
    BY <1>17, <1>18, <2>1
  <2>2. CASE k # me
    BY <1>9, <2>2 DEF RateInv
  <2> QED BY <2>1, <2>2
<1> QED BY <1>5, <1>6, <1>19 DEF RateInv

\* A project that has an owner keeps it.
OwnersKeep == \A p \in DOMAIN InitialOwners : owners[p] # Nobody => owners'[p] = owners[p]

\* A right to act is not lost while projects keep their owners.
LEMMA MayActKept ==
  ASSUME OwnersKeep, NEW r \in Requests, MayAct(r)
  PROVE  MayAct(r)'
<1>1. r.project \in DOMAIN InitialOwners
  BY AccessAssumption
<1> QED BY <1>1 DEF OwnersKeep, MayAct

\* Rights and creations are kept when one request moves on.
LEMMA RightsKept ==
  ASSUME RightsInv, OwnersKeep, NEW r \in Requests, \A s \in Requests \ {r} : request'[s] = request[s],
         RequestOK(r)', CreatedOK', acted \subseteq Requests,
         \/ acted' = acted
         \/ acted' = acted \cup {r} /\ HasToken(r) /\ (r.server = "rest" => MayAct(r))
  PROVE  RightsInv'
<1>1. ASSUME NEW s \in Requests \ {r} PROVE RequestOK(s)'
  <2>1. RequestOK(s) /\ request'[s] = request[s]
    BY DEF RightsInv
  <2>2. MayAct(s) => MayAct(s)'
    BY MayActKept
  <2> QED BY <2>1, <2>2 DEF RequestOK, BodyOK
<1>2. ASSUME NEW s \in acted' PROVE HasToken(s) /\ (s.server = "rest" => MayAct(s)')
  <2>1. s \in Requests /\ HasToken(s) /\ (s.server = "rest" => MayAct(s))
    BY <1>2 DEF RightsInv
  <2> QED BY <2>1, MayActKept
<1>3. \A s \in acted' : HasToken(s)'
  BY <1>2 DEF HasToken
<1> QED BY <1>1, <1>2, <1>3 DEF RightsInv

\* A reply other than 201 creates nothing.
LEMMA CreatedKept ==
  ASSUME CreatedOK, OwnersKeep, NEW r \in Requests, replies \in [Requests -> Seq(Nat)],
         \/ replies' = replies
         \/ \E code \in Nat \ {201} : Reply(r, code)
  PROVE  CreatedOK' /\ replies' \in [Requests -> Seq(Nat)]
<1>3. \A s \in Requests : owners[s.project] # Nobody => owners'[s.project] # Nobody
  BY AccessAssumption DEF OwnersKeep
<1>4. ASSUME \A s \in Requests : 201 \in Codes(s)' => 201 \in Codes(s) PROVE CreatedOK'
  BY <1>3, <1>4 DEF CreatedOK
<1>1. CASE replies' = replies
  <2>1. \A s \in Requests : Codes(s)' = Codes(s)
    BY <1>1 DEF Codes
  <2> QED BY <1>1, <1>4, <2>1
<1>2. ASSUME NEW code \in Nat \ {201}, Reply(r, code)
      PROVE  CreatedOK' /\ replies' \in [Requests -> Seq(Nat)]
  <2>1. PICK old \in Seq(Nat) : old = replies[r]
    OBVIOUS
  <2>2. PICK new : new = Append(old, code)
    OBVIOUS
  <2>7. new \in Seq(Nat) /\ replies' = [replies EXCEPT ![r] = new]
    BY <1>2, <2>1, <2>2 DEF Reply
  <2>3. \A i \in DOMAIN new : (i \in DOMAIN old /\ new[i] = old[i]) \/ new[i] = code
    BY <2>2
  <2>4. replies' \in [Requests -> Seq(Nat)] /\ replies'[r] = new
        /\ \A s \in Requests \ {r} : replies'[s] = replies[s]
    BY <2>7
  <2>5. ASSUME NEW s \in Requests, 201 \in Codes(s)' PROVE 201 \in Codes(s)
    <3>1. PICK i \in DOMAIN replies'[s] : replies'[s][i] = 201
      BY <2>5 DEF Codes
    <3>2. CASE s = r
      BY <2>1, <2>3, <2>4, <3>1, <3>2 DEF Codes
    <3>3. CASE s # r
      BY <2>4, <3>1, <3>3 DEF Codes
    <3> QED BY <3>2, <3>3
  <2>6. CreatedOK'
    BY <1>4, <2>5
  <2> QED BY <2>4, <2>6
<1> QED BY <1>1, <1>2

\* What is left to show when one request moves on.
LEMMA MoveKeepsAccess ==
  ASSUME AccessInv, NEW r \in Requests, NEW q \in Begun, request' = [request EXCEPT ![r] = q],
         IF request[r].phase = "new" THEN ~ q.passed
         ELSE q.at = request[r].at /\ q.passed = request[r].passed,
         q.phase = "queued" => ~ q.passed, UNCHANGED <<clock, buckets>>,
         \/ queue' = queue
         \/ queue # <<>> /\ queue' = Tail(queue)
         \/ queue' = Append(queue, r) /\ q.at = clock,
         owners' = [p \in DOMAIN InitialOwners |-> owners'[p]], OwnersKeep,
         replies' \in [Requests -> Seq(Nat)], CreatedOK', RequestOK(r)',
         \/ acted' = acted
         \/ acted' = acted \cup {r} /\ HasToken(r) /\ (r.server = "rest" => MayAct(r))
  PROVE  AccessInv'
<1>1. /\ SameTimes /\ SamePasses /\ request'[r] = q /\ \A s \in Requests \ {r} : request'[s] = request[s]
      /\ request' \in [Requests -> Begun \cup {NoRequest}]
  BY MoveTimes DEF AccessInv
<1>2. AccessTypeOK'
  <2>2. queue \in Seq(Requests)
    BY DEF AccessInv, AccessTypeOK
  <2>1. queue' \in Seq(Requests)
    <3>1. queue # <<>> => Tail(queue) \in Seq(Requests)
      BY <2>2
    <3>2. Append(queue, r) \in Seq(Requests)
      BY <2>2
    <3> QED BY <2>2, <3>1, <3>2
  <2> QED BY <1>1, <2>1 DEF AccessInv, AccessTypeOK
<1>3. RateInv'
  <2>1. QueueMoves
    BY <1>1 DEF QueueMoves, Begun, Phases
  <2>2. clock' \in Nat /\ clock <= clock'
    BY DEF AccessInv, AccessTypeOK
  <2>3. \A s \in Requests : request'[s].phase = "queued" => ~ request'[s].passed
    BY <1>1 DEF AccessInv, RateInv
  <2>4. \A k \in Identities : HasCount(k, buckets'[k])
    BY DEF AccessInv, RateInv
  <2> QED BY <1>1, <2>1, <2>2, <2>3, <2>4, RateKept DEF AccessInv
<1>4. RightsInv'
  BY <1>1, RightsKept DEF AccessInv, AccessTypeOK
<1> QED BY <1>2, <1>3, <1>4 DEF AccessInv

\* What a request has to have behind it to enter a phase.
MayEnter(r, phase) ==
  /\ phase = "tool" => r.server = "mcp"
  /\ phase \in {"scope", "access"} => SmallBody(r)
  /\ phase = "access" => authorize(r) # Nobody
  /\ phase \in {"tool", "act", "insert"} => HasToken(r)
  /\ phase \in {"act", "insert"} => (r.server = "rest" => MayAct(r))

\* A request enters its next phase, with or without an answer.
LEMMA EnterKeeps ==
  ASSUME AccessInv, NEW r \in Requests, NEW phase \in Phases \ {"queued"}, request[r].phase # "new",
         Enter(r, phase), MayEnter(r, phase), UNCHANGED <<clock, buckets, owners>>,
         \/ queue' = queue
         \/ queue # <<>> /\ queue' = Tail(queue),
         \/ replies' = replies
         \/ \E code \in Nat \ {201} : Reply(r, code),
         \/ acted' = acted
         \/ acted' = acted \cup {r} /\ request[r].phase = "act"
  PROVE  AccessInv'
<1>1. request[r] \in Begun /\ RequestOK(r) /\ replies \in [Requests -> Seq(Nat)] /\ CreatedOK
      /\ owners = [p \in DOMAIN InitialOwners |-> owners[p]]
  BY DEF AccessInv, AccessTypeOK, RightsInv, NoRequest
<1>2. PICK old \in Begun : old = request[r]
  BY <1>1
<1>3. PICK q : q = [phase |-> phase, at |-> old.at, passed |-> old.passed, read |-> old.read,
                    left |-> old.left]
  OBVIOUS
<1>4. q \in Begun /\ q = [old EXCEPT !.phase = phase]
  BY <1>3 DEF Begun
<1>5. request' = [request EXCEPT ![r] = q]
  BY <1>2, <1>4 DEF Enter
<1>6. request'[r] = q
  BY <1>5 DEF AccessInv, AccessTypeOK
<1>7. RequestOK(r)'
  <2>1. BodyOK(r)'
    BY <1>1, <1>2, <1>3, <1>6 DEF RequestOK, BodyOK
  <2>2. MayAct(r) => MayAct(r)'
    BY DEF MayAct
  <2>3. request'[r].phase = phase
    BY <1>3, <1>6
  <2> QED BY <2>1, <2>2, <2>3 DEF RequestOK, MayEnter, HasToken, SmallBody
<1>8. OwnersKeep
  BY DEF OwnersKeep
<1>9. CreatedOK' /\ replies' \in [Requests -> Seq(Nat)]
  BY <1>1, <1>8, CreatedKept
<1>10. \/ acted' = acted
       \/ acted' = acted \cup {r} /\ HasToken(r) /\ (r.server = "rest" => MayAct(r))
  BY <1>1 DEF RequestOK
<1>11. owners' = [p \in DOMAIN InitialOwners |-> owners'[p]]
  BY <1>1
<1> QED BY <1>2, <1>3, <1>4, <1>5, <1>7, <1>8, <1>9, <1>10, <1>11, MoveKeepsAccess

\* The holder of the lock passes, or is to be refused.
LEMMA LimitKeeps ==
  ASSUME AccessInv, NEW r \in Requests, Limit(r)
  PROVE  AccessInv'
<1>1. /\ queue # <<>> /\ r = Head(queue) /\ request[r].phase = "queued"
      /\ UNCHANGED <<clock, replies, owners, acted>>
      /\ request[r] \in Begun /\ RequestOK(r) /\ request[r].at \in Nat
      /\ request \in [Requests -> Begun \cup {NoRequest}] /\ buckets \in [Identities -> Seq(Nat)]
      /\ queue \in Seq(Requests) /\ _identity(r) \in Identities
  BY DEF Limit, AccessInv, AccessTypeOK, RightsInv, NoRequest, Begun, Identities
<1>2. PICK k, times : k = _identity(r) /\ times = Recent(buckets[k], request[r].at)
  OBVIOUS
<1>3. PICK bucket \in Seq(Nat), now \in Nat : bucket = buckets[k] /\ now = request[r].at
  BY <1>1, <1>2
<1>4. times \in Seq(Nat)
  BY <1>2, <1>3, StaleTimes
<1>5. PICK old \in Begun : old = request[r]
  BY <1>1
<1>6. OwnersKeep /\ CreatedOK' /\ Tail(queue) \in Seq(Requests)
  <2>1. OwnersKeep
    BY <1>1 DEF OwnersKeep
  <2>2. CreatedOK /\ replies \in [Requests -> Seq(Nat)]
    BY DEF AccessInv, RightsInv, AccessTypeOK
  <2>3. CreatedOK'
    BY <1>1, <2>1, <2>2, CreatedKept
  <2>4. Tail(queue) \in Seq(Requests)
    BY <1>1
  <2> QED BY <2>1, <2>3, <2>4
<1>7. CASE /\ allow(times) /\ queue' = Tail(queue)
           /\ buckets' = [buckets EXCEPT ![k] = Append(times, request[r].at)]
           /\ request' = [request EXCEPT ![r].phase = "length", ![r].passed = TRUE]
  <2>0. PICK yes \in BOOLEAN : yes = TRUE
    OBVIOUS
  <2>1. PICK q : q = [phase |-> "length", at |-> old.at, passed |-> yes, read |-> old.read,
                      left |-> old.left]
    OBVIOUS
  <2>2. q \in Begun /\ q = [old EXCEPT !.phase = "length", !.passed = TRUE]
    <3>1. old.at \in Nat /\ old.read \in Nat /\ old.left \in Seq(Nat)
      BY DEF Begun
    <3>2. q \in Begun
      BY <2>1, <3>1 DEF Begun, Phases
    <3>3. PICK mid : mid = [old EXCEPT !.phase = "length"]
      OBVIOUS
    <3>4. mid = [phase |-> "length", at |-> old.at, passed |-> old.passed, read |-> old.read,
                 left |-> old.left]
      BY <3>3 DEF Begun
    <3>5. q = [mid EXCEPT !.passed = yes]
      BY <2>1, <3>4
    <3>7. q = [old EXCEPT !.phase = "length", !.passed = TRUE]
      BY <2>0, <3>3, <3>5
    <3> QED BY <3>2, <3>7
  <2>3. request' = [request EXCEPT ![r] = q]
    BY <1>5, <1>7, <2>2
  <2>4. request'[r] = q /\ \A s \in Requests \ {r} : request'[s] = request[s]
    BY <1>1, <2>3
  <2>5. RequestOK(r)'
    BY <1>1, <1>5, <2>1, <2>4 DEF RequestOK, BodyOK
  <2>6. RateInv'
    BY <1>1, <1>2, <1>5, <1>7, <2>0, <2>1, <2>2, <2>3, PassesKeepRate DEF AccessInv
  <2>7. RightsInv'
    BY <1>1, <1>6, <2>4, <2>5, RightsKept DEF AccessInv, AccessTypeOK
  <2>8. AccessTypeOK'
    <3>1. Append(times, now) \in Seq(Nat) /\ buckets' = [buckets EXCEPT ![k] = Append(times, now)]
      BY <1>3, <1>4, <1>7
    <3>2. buckets' \in [Identities -> Seq(Nat)]
      BY <1>1, <3>1
    <3>3. request' \in [Requests -> Begun \cup {NoRequest}]
      BY <1>1, <2>2, <2>3
    <3> QED BY <1>1, <1>6, <1>7, <3>2, <3>3 DEF AccessInv, AccessTypeOK
  <2> QED BY <2>6, <2>7, <2>8 DEF AccessInv
<1>8. CASE /\ UNCHANGED queue /\ buckets' = [buckets EXCEPT ![k] = times] /\ Enter(r, "refusing")
  <2>1. PICK q : q = [phase |-> "refusing", at |-> old.at, passed |-> old.passed, read |-> old.read,
                      left |-> old.left]
    OBVIOUS
  <2>2. q \in Begun /\ q = [old EXCEPT !.phase = "refusing"]
    <3>1. old.at \in Nat /\ old.passed \in BOOLEAN /\ old.read \in Nat /\ old.left \in Seq(Nat)
      BY DEF Begun
    <3>2. q \in Begun
      BY <2>1, <3>1 DEF Begun, Phases
    <3>3. q = [old EXCEPT !.phase = "refusing"]
      BY <2>1 DEF Begun
    <3> QED BY <3>2, <3>3
  <2>3. request' = [request EXCEPT ![r] = q]
    BY <1>5, <1>8, <2>2 DEF Enter
  <2>4. /\ SameTimes /\ SamePasses /\ request'[r] = q
        /\ \A s \in Requests \ {r} : request'[s] = request[s]
        /\ request' \in [Requests -> Begun \cup {NoRequest}]
    BY <1>1, <1>5, <2>1, <2>2, <2>3, MoveTimes DEF AccessInv
  <2>5. RequestOK(r)'
    BY <1>1, <1>5, <2>1, <2>4 DEF RequestOK, BodyOK
  <2>6. RateInv'
    <3>1. \A s \in Requests : request'[s].phase = "queued" => ~ request'[s].passed
      BY <2>1, <2>4 DEF AccessInv, RateInv
    <3>2. \A j \in Identities : HasCount(j, buckets'[j])
      BY <1>1, <1>2, <1>8, RefusedCount DEF AccessInv
    <3>3. QueueMoves /\ clock' \in Nat /\ clock <= clock'
      BY <1>1, <1>8 DEF QueueMoves, AccessInv, AccessTypeOK
    <3> QED BY <2>4, <3>1, <3>2, <3>3, RateKept DEF AccessInv
  <2>7. RightsInv'
    BY <1>1, <1>6, <2>4, <2>5, RightsKept DEF AccessInv, AccessTypeOK
  <2>8. AccessTypeOK'
    <3>1. buckets' \in [Identities -> Seq(Nat)]
      BY <1>1, <1>4, <1>8
    <3> QED BY <1>1, <1>8, <2>4, <3>1 DEF AccessInv, AccessTypeOK
  <2> QED BY <2>6, <2>7, <2>8 DEF AccessInv
<1> QED BY <1>2, <1>7, <1>8 DEF Limit

\* A request that begins has read nothing.
LEMMA BeginShape ==
  ASSUME AccessInv, NEW r \in Requests, request[r].phase = "new", NEW phase \in Phases,
         Begin(r, phase)
  PROVE  \E q \in Begun : /\ request' = [request EXCEPT ![r] = q] /\ request'[r] = q
                          /\ q.phase = phase /\ q.at = clock /\ ~ q.passed /\ BodyOK(r)'
<1>1. /\ r.chunks \in Seq(Nat) /\ clock \in Nat /\ BodyCap \in Nat
      /\ request \in [Requests -> Begun \cup {NoRequest}]
  BY AccessAssumption DEF AccessInv, AccessTypeOK
<1>2. PICK chunks \in Seq(Nat) : chunks = r.chunks
  BY <1>1
<1>3. PICK q : q = [phase |-> phase, at |-> clock, passed |-> FALSE, read |-> 0, left |-> chunks]
  OBVIOUS
<1>4. q \in Begun /\ request' = [request EXCEPT ![r] = q] /\ request'[r] = q
  BY <1>1, <1>2, <1>3 DEF Begun, Begin
<1>5. SumTo(chunks, 0) = 0 /\ SubSeq(chunks, 0 + 1, Len(chunks)) = chunks /\ 0 \in 0 .. Len(chunks)
  <2>1. SumTo(chunks, 0) = 0
    BY SumToSteps
  <2>2. SubSeq(chunks, 1, Len(chunks)) = chunks
    BY SubSeqFull
  <2>3. 0 + 1 = 1 /\ 0 \in 0 .. Len(chunks)
    OBVIOUS
  <2> QED BY <2>1, <2>2, <2>3
<1>6. BodyOK(r)'
  <2>1. request'[r].read = 0 /\ request'[r].left = chunks
    BY <1>3, <1>4
  <2> QED BY <1>1, <1>2, <1>5, <2>1 DEF BodyOK
<1> QED BY <1>3, <1>4, <1>6

\* A request arrives at REST ...
LEMMA ArriveKeeps ==
  ASSUME AccessInv, NEW r \in Requests, Arrive(r)
  PROVE  AccessInv'
<1>1. PICK phase \in {"length", "queued"} :
        /\ request[r].phase = "new" /\ Begin(r, phase)
        /\ queue' = queue \/ queue' = Append(queue, r)
        /\ UNCHANGED <<clock, buckets, replies, owners, acted>>
  BY DEF Arrive
<1>2. PICK q \in Begun : /\ request' = [request EXCEPT ![r] = q] /\ request'[r] = q
                         /\ q.phase = phase /\ q.at = clock /\ ~ q.passed /\ BodyOK(r)'
  BY <1>1, BeginShape DEF Phases
<1>3. RequestOK(r)'
  BY <1>1, <1>2 DEF RequestOK
<1>4. OwnersKeep /\ CreatedOK'
  BY <1>1 DEF OwnersKeep, AccessInv, RightsInv, CreatedOK, Codes
<1>5. owners' = [p \in DOMAIN InitialOwners |-> owners'[p]] /\ replies' \in [Requests -> Seq(Nat)]
  BY <1>1 DEF AccessInv, AccessTypeOK
<1> QED BY <1>1, <1>2, <1>3, <1>4, <1>5, MoveKeepsAccess

\* ... or at MCP.
LEMMA BearerKeeps ==
  ASSUME AccessInv, NEW r \in Requests, bearer_guard(r)
  PROVE  AccessInv'
<1>1. PICK phase \in {"tool", "done"} :
        /\ r.server = "mcp" /\ request[r].phase = "new" /\ Begin(r, phase)
        /\ phase = "tool" => HasToken(r)
        /\ replies' = replies \/ Reply(r, 401)
        /\ UNCHANGED <<clock, buckets, queue, owners, acted>>
  BY DEF bearer_guard, HasToken
<1>2. PICK q \in Begun : /\ request' = [request EXCEPT ![r] = q] /\ request'[r] = q
                         /\ q.phase = phase /\ q.at = clock /\ ~ q.passed /\ BodyOK(r)'
  BY <1>1, BeginShape DEF Phases
<1>3. RequestOK(r)'
  BY <1>1, <1>2 DEF RequestOK, HasToken
<1>4. OwnersKeep
  BY <1>1 DEF OwnersKeep
<1>5. CreatedOK' /\ replies' \in [Requests -> Seq(Nat)]
  <2>1. replies' = replies \/ \E code \in Nat \ {201} : Reply(r, code)
    <3>1. 401 \in Nat \ {201}
      OBVIOUS
    <3> QED BY <1>1, <3>1
  <2>2. CreatedOK /\ replies \in [Requests -> Seq(Nat)]
    BY DEF AccessInv, RightsInv, AccessTypeOK
  <2> QED BY <1>4, <2>1, <2>2, CreatedKept
<1>6. owners' = [p \in DOMAIN InitialOwners |-> owners'[p]]
  BY <1>1 DEF AccessInv, AccessTypeOK
<1> QED BY <1>1, <1>2, <1>3, <1>4, <1>5, <1>6, MoveKeepsAccess

\* No error ends with the status of a creation.
LEMMA ErrorCodes ==
  ASSUME NEW error
  PROVE  _err(error) \in Nat \ {201}
<1>1. _err(error) \in {404, 409, 403, 502, 429, 413, 422, 400}
  BY DEF _err
<1> QED BY <1>1

\* A request is refused: it is done, with an answer that creates nothing.
LEMMA DenyKeeps ==
  ASSUME AccessInv, NEW r \in Requests, NEW code \in Nat \ {201}, request[r].phase # "new",
         Deny(r, code), UNCHANGED <<clock, buckets, owners>>,
         \/ queue' = queue
         \/ queue # <<>> /\ queue' = Tail(queue),
         \/ acted' = acted
         \/ acted' = acted \cup {r} /\ request[r].phase = "act"
  PROVE  AccessInv'
<1>1. "done" \in Phases \ {"queued"} /\ MayEnter(r, "done")
  BY DEF Phases, MayEnter
<1>2. Enter(r, "done") /\ Reply(r, code)
  BY DEF Deny
<1> QED BY <1>1, <1>2, EnterKeeps

\* The lock is held by the one that is being refused.
HolderRefuses ==
  \A r \in Requests : request[r].phase = "refusing" => queue # <<>> /\ r = Head(queue)

\* The refusal is sent and the lock passed on.
LEMMA RefusalKeeps ==
  ASSUME AccessInv, HolderRefuses, NEW r \in Requests, _respond_429(r)
  PROVE  AccessInv'
<1>1. /\ request[r].phase = "refusing" /\ Deny(r, 429) /\ queue' = Tail(queue) /\ queue # <<>>
      /\ UNCHANGED <<clock, buckets, owners, acted>>
  BY DEF _respond_429, Deny, HolderRefuses
<1>2. 429 \in Nat \ {201}
  OBVIOUS
<1> QED BY <1>1, <1>2, DenyKeeps

\* The body: a route that reads none has a small one.
LEMMA LengthKeeps ==
  ASSUME AccessInv, NEW r \in Requests, CheckLength(r)
  PROVE  AccessInv'
<1>1. /\ request[r].phase = "length" /\ UNCHANGED <<clock, buckets, queue, owners, acted>>
      /\ replies' = replies \/ Reply(r, 413)
  BY DEF CheckLength
<1>2. PICK phase \in {"body", "scope"} :
        Enter(r, phase) /\ (phase = "scope" => ~ RouteOf(r).reads)
  BY DEF CheckLength
<1>3. phase \in Phases \ {"queued"} /\ MayEnter(r, phase)
  BY <1>2 DEF Phases, MayEnter, SmallBody
<1>4. replies' = replies \/ \E code \in Nat \ {201} : Reply(r, code)
  <2>1. 413 \in Nat \ {201}
    OBVIOUS
  <2> QED BY <1>1, <2>1
<1> QED BY <1>1, <1>2, <1>3, <1>4, EnterKeeps

\* The next piece is added up as it comes.
LEMMA ChunkAdded ==
  ASSUME NEW s \in Seq(Nat), NEW n \in 0 .. Len(s), NEW left, left = SubSeq(s, n + 1, Len(s)),
         left # <<>>
  PROVE  /\ left \in Seq(Nat) /\ Head(left) \in Nat /\ Tail(left) \in Seq(Nat)
         /\ \E m \in 0 .. Len(s) : /\ SumTo(s, n) + Head(left) = SumTo(s, m)
                                  /\ Tail(left) = SubSeq(s, m + 1, Len(s))
<1>1. PICK L \in Nat : L = Len(s)
  OBVIOUS
<1>2. n \in Nat /\ n <= L
  BY <1>1
<1>3. PICK m \in Nat : m = n + 1 /\ m - 1 = n
  BY <1>2
<1>4. \A i \in m .. L : s[i] \in Nat
  BY <1>1, <1>3
<1>5. m \in Int /\ L \in Int /\ left = SubSeq(s, m, L)
  BY <1>1, <1>3
<1>6. /\ left \in Seq(Nat)
      /\ Len(left) = IF m <= L THEN L - m + 1 ELSE 0
      /\ \A i \in 1 .. L - m + 1 : left[i] = s[m + i - 1]
  <2>1. /\ SubSeq(s, m, L) \in Seq(Nat)
        /\ Len(SubSeq(s, m, L)) = IF m <= L THEN L - m + 1 ELSE 0
        /\ \A i \in 1 .. L - m + 1 : SubSeq(s, m, L)[i] = s[m + i - 1]
    BY <1>4, <1>5, SubSeqProperties
  <2> QED BY <1>5, <2>1
<1>7. left \in Seq(Nat) /\ Head(left) \in Nat /\ Tail(left) \in Seq(Nat)
  <2>1. left \in Seq(Nat)
    BY <1>6
  <2> QED BY <2>1
<1>8. m <= L
  BY <1>6
<1>9. m \in 1 .. Len(s) /\ m \in 0 .. Len(s)
  BY <1>1, <1>2, <1>3, <1>8
<1>10. SumTo(s, m) = SumTo(s, n) + s[m]
  <2>1. SumTo(s, m) = SumTo(s, m - 1) + s[m]
    BY <1>9, SumToSteps
  <2> QED BY <1>3, <2>1
<1>11. Head(left) = s[m]
  <2>1. 1 \in 1 .. L - m + 1 /\ m + 1 - 1 = m
    BY <1>8
  <2>2. left[1] = s[m]
    BY <1>6, <2>1
  <2> QED BY <1>7, <2>2
<1>12. PICK tail \in Seq(Nat) : tail = Tail(left)
  BY <1>7
<1>13. Len(left) = L - m + 1
  BY <1>6, <1>8
<1>14. Len(tail) = L - m /\ \A i \in 1 .. L - m : tail[i] = left[i + 1]
  <2>1. /\ Len(Tail(left)) = Len(left) - 1
        /\ \A i \in 1 .. Len(Tail(left)) : Tail(left)[i] = left[i + 1]
    BY <1>7, HeadTailProperties
  <2>2. Len(left) - 1 = L - m
    BY <1>13
  <2> QED BY <1>12, <2>1, <2>2
<1>15. PICK k \in Int : k = m + 1
  OBVIOUS
<1>16. PICK rest : rest = SubSeq(s, k, L)
  OBVIOUS
<1>17. \A i \in k .. L : s[i] \in Nat
  BY <1>4, <1>15
<1>18. /\ rest \in Seq(Nat)
       /\ Len(rest) = IF k <= L THEN L - k + 1 ELSE 0
       /\ \A i \in 1 .. L - k + 1 : rest[i] = s[k + i - 1]
  BY <1>5, <1>16, <1>17, SubSeqProperties
<1>19. Len(rest) = L - m
  BY <1>8, <1>15, <1>18
<1>20. ASSUME NEW i \in 1 .. L - m PROVE tail[i] = rest[i]
  <2>1. i \in 1 .. L - k + 1 /\ k + i - 1 = m + i
    BY <1>15
  <2>2. i + 1 \in 1 .. L - m + 1 /\ m + (i + 1) - 1 = m + i
    BY <1>8
  <2>3. left[i + 1] = s[m + i]
    BY <1>6, <2>2
  <2>4. rest[i] = s[m + i]
    BY <1>18, <2>1
  <2> QED BY <1>14, <2>3, <2>4
<1>21. tail = rest
  <2>1. rest \in Seq(Nat)
    BY <1>18
  <2> QED BY <1>14, <1>19, <1>20, <2>1, SeqEqual
<1> QED BY <1>1, <1>7, <1>9, <1>10, <1>11, <1>12, <1>15, <1>16, <1>21

\* A piece is read: the count goes on, unless the piece goes over the cap.
LEMMA ReadChunkKeeps ==
  ASSUME AccessInv, NEW r \in Requests, ReadChunk(r)
  PROVE  AccessInv'
<1>1. /\ request[r].phase = "body" /\ request[r].left # <<>>
      /\ UNCHANGED <<clock, buckets, queue, replies, owners, acted>>
      /\ request[r] \in Begun /\ RequestOK(r) /\ BodyOK(r)
      /\ request \in [Requests -> Begun \cup {NoRequest}] /\ replies \in [Requests -> Seq(Nat)]
      /\ owners = [p \in DOMAIN InitialOwners |-> owners[p]] /\ CreatedOK
  BY DEF ReadChunk, AccessInv, AccessTypeOK, RightsInv, RequestOK, NoRequest
<1>2. CASE Enter(r, "oversized")
  <2>1. "oversized" \in Phases \ {"queued"} /\ MayEnter(r, "oversized")
    BY DEF Phases, MayEnter
  <2> QED BY <1>1, <1>2, <2>1, EnterKeeps
<1>3. CASE /\ BodyCap > 0 => ~ TooLarge(r)
           /\ request' = [request EXCEPT ![r].read = @ + Head(request[r].left), ![r].left = Tail(@)]
  <2>1. PICK s \in Seq(Nat) : s = r.chunks
    BY AccessAssumption
  <2>2. PICK n \in 0 .. Len(s) : /\ request[r].read = SumTo(s, n)
                                 /\ request[r].left = SubSeq(s, n + 1, Len(s))
    BY <1>1, <2>1 DEF BodyOK
  <2>3. PICK old \in Begun : old = request[r]
    BY <1>1
  <2>4. PICK left : left = old.left /\ left = SubSeq(s, n + 1, Len(s)) /\ left # <<>>
    BY <1>1, <2>2, <2>3
  <2>5. PICK more \in Nat, rest \in Seq(Nat), m \in 0 .. Len(s) :
          /\ more = Head(left) /\ rest = Tail(left)
          /\ old.read + more = SumTo(s, m) /\ rest = SubSeq(s, m + 1, Len(s))
    <3>1. PICK more \in Nat, rest \in Seq(Nat) : more = Head(left) /\ rest = Tail(left)
      BY <2>4, ChunkAdded
    <3>2. PICK m \in 0 .. Len(s) : /\ SumTo(s, n) + Head(left) = SumTo(s, m)
                                  /\ Tail(left) = SubSeq(s, m + 1, Len(s))
      BY <2>4, ChunkAdded
    <3>3. old.read = SumTo(s, n)
      BY <2>2, <2>3
    <3> QED BY <3>1, <3>2, <3>3
  <2>6. PICK q : q = [phase |-> old.phase, at |-> old.at, passed |-> old.passed,
                      read |-> old.read + more, left |-> rest]
    OBVIOUS
  <2>7. old.read \in Nat /\ old.read + more \in Nat /\ q \in Begun
    <3>1. old.read \in Nat
      BY DEF Begun
    <3>2. old.read + more \in Nat
      BY <3>1
    <3> QED BY <2>6, <3>1, <3>2 DEF Begun
  <2>8. q = [old EXCEPT !.read = old.read + more, !.left = rest]
    <3>1. PICK mid : mid = [old EXCEPT !.read = old.read + more]
      OBVIOUS
    <3>2. mid = [phase |-> old.phase, at |-> old.at, passed |-> old.passed,
                 read |-> old.read + more, left |-> old.left]
      BY <3>1 DEF Begun
    <3>3. q = [mid EXCEPT !.left = rest]
      BY <2>6, <3>2
    <3> QED BY <3>1, <3>3
  <2>9. request' = [request EXCEPT ![r] = q] /\ request'[r] = q
    BY <1>1, <1>3, <2>3, <2>4, <2>5, <2>8
  <2>10. BodyOK(r)'
    <3>1. request'[r].read = old.read + more /\ request'[r].left = rest
      BY <2>6, <2>9
    <3>3. TooLarge(r) <=> old.read + more > BodyCap
      BY <2>3, <2>4, <2>5 DEF TooLarge
    <3>4. BodyCap > 0 => ~ (old.read + more > BodyCap)
      BY <1>3, <3>3
    <3>2. BodyCap > 0 => request'[r].read <= BodyCap
      BY <2>7, <3>1, <3>4, AccessAssumption
    <3> QED BY <2>1, <2>5, <3>1, <3>2 DEF BodyOK
  <2>11. RequestOK(r)'
    BY <1>1, <2>3, <2>6, <2>9, <2>10 DEF RequestOK
  <2>12. OwnersKeep
    BY <1>1 DEF OwnersKeep
  <2>13. CreatedOK' /\ replies' \in [Requests -> Seq(Nat)]
    BY <1>1, <2>12, CreatedKept
  <2>14. /\ request[r].phase # "new" /\ q.at = request[r].at /\ q.passed = request[r].passed
         /\ q.phase # "queued"
    BY <1>1, <2>3, <2>6
  <2>15. owners' = [p \in DOMAIN InitialOwners |-> owners'[p]]
    BY <1>1
  <2> QED BY <1>1, <2>7, <2>9, <2>11, <2>12, <2>13, <2>14, <2>15, MoveKeepsAccess
<1> QED BY <1>2, <1>3 DEF ReadChunk

\* The body was read to its end: all of it is within the cap.
LEMMA BodyReadKeeps ==
  ASSUME AccessInv, NEW r \in Requests, BodyRead(r)
  PROVE  AccessInv'
<1>1. /\ request[r].phase = "body" /\ request[r].left = <<>> /\ Enter(r, "scope")
      /\ UNCHANGED <<clock, buckets, queue, replies, owners, acted>> /\ BodyOK(r)
  BY DEF BodyRead, AccessInv, RightsInv, RequestOK
<1>2. PICK s \in Seq(Nat) : s = r.chunks
  BY AccessAssumption
<1>3. PICK n \in 0 .. Len(s) : request[r].read = SumTo(s, n) /\ SubSeq(s, n + 1, Len(s)) = <<>>
  BY <1>1, <1>2 DEF BodyOK
<1>4. n = Len(s)
  <2> SUFFICES ASSUME n < Len(s) PROVE FALSE
    OBVIOUS
  <2>1. PICK lo \in Int, hi \in Int : lo = n + 1 /\ hi = Len(s)
    OBVIOUS
  <2>2. \A i \in lo .. hi : s[i] \in Nat
    BY <2>1
  <2>3. Len(SubSeq(s, lo, hi)) = IF lo <= hi THEN hi - lo + 1 ELSE 0
    BY <2>2, SubSeqProperties
  <2>4. SubSeq(s, lo, hi) = <<>>
    BY <1>3, <2>1
  <2>5. Len(SubSeq(s, lo, hi)) = 0
    BY <2>4
  <2> QED BY <2>1, <2>3, <2>5
<1>5. SmallBody(r)
  BY <1>1, <1>2, <1>3, <1>4 DEF BodyOK, SmallBody
<1>6. "scope" \in Phases \ {"queued"} /\ MayEnter(r, "scope")
  BY <1>5 DEF Phases, MayEnter
<1> QED BY <1>1, <1>6, EnterKeeps

\* A body over the cap is answered.
LEMMA OversizedKeeps ==
  ASSUME AccessInv, NEW r \in Requests, _respond_413(r)
  PROVE  AccessInv'
<1>1. /\ request[r].phase = "oversized" /\ Enter(r, "done") /\ (Reply(r, 413) \/ replies' = replies)
      /\ UNCHANGED <<clock, buckets, queue, owners, acted>>
  BY DEF _respond_413
<1>2. "done" \in Phases \ {"queued"} /\ MayEnter(r, "done")
  BY DEF Phases, MayEnter
<1>3. replies' = replies \/ \E code \in Nat \ {201} : Reply(r, code)
  <2>1. 413 \in Nat \ {201}
    OBVIOUS
  <2> QED BY <1>1, <2>1
<1> QED BY <1>1, <1>2, <1>3, EnterKeeps

\* The token and the scope are looked at.
LEMMA ScopeKeeps ==
  ASSUME AccessInv, NEW r \in Requests, require_scope(r)
  PROVE  AccessInv'
<1>1. /\ request[r].phase = "scope" /\ UNCHANGED <<clock, buckets, queue, owners, acted>>
      /\ SmallBody(r)
  BY DEF require_scope, AccessInv, RightsInv, RequestOK
<1>2. CASE Deny(r, 401) \/ Deny(r, 403)
  <2>1. PICK code \in Nat \ {201} : Deny(r, code)
    <3>1. 401 \in Nat \ {201} /\ 403 \in Nat \ {201}
      OBVIOUS
    <3> QED BY <1>2, <3>1
  <2> QED BY <1>1, <2>1, DenyKeeps
<1>3. CASE authorize(r) # Nobody /\ Enter(r, "access") /\ UNCHANGED replies
  <2>1. "access" \in Phases \ {"queued"} /\ MayEnter(r, "access")
    BY <1>1, <1>3 DEF Phases, MayEnter
  <2> QED BY <1>1, <1>3, <2>1, EnterKeeps
<1> QED BY <1>2, <1>3 DEF require_scope

\* The owner of the project is looked at.
LEMMA ProjectKeeps ==
  ASSUME AccessInv, NEW r \in Requests, require_project_access(r)
  PROVE  AccessInv'
<1>1. /\ request[r].phase = "access" /\ UNCHANGED <<clock, buckets, queue, owners, acted>>
      /\ SmallBody(r) /\ authorize(r) # Nobody
  BY DEF require_project_access, AccessInv, RightsInv, RequestOK
<1>2. CASE \E error : Deny(r, _err(error))
  <2>1. PICK error : Deny(r, _err(error))
    BY <1>2
  <2>2. _err(error) \in Nat \ {201}
    BY ErrorCodes
  <2> QED BY <1>1, <2>1, <2>2, DenyKeeps
<1>3. CASE /\ RouteOf(r).guard = "none" \/ SeesAll(authorize(r)) \/ owners[r.project] = authorize(r)
           /\ Enter(r, "act") /\ UNCHANGED replies
  <2>1. HasToken(r)
    BY <1>1 DEF HasToken, authorize
  <2>2. MayAct(r)
    BY <1>1, <1>3 DEF MayAct
  <2>3. "act" \in Phases \ {"queued"} /\ MayEnter(r, "act")
    BY <2>1, <2>2 DEF Phases, MayEnter
  <2> QED BY <1>1, <1>3, <2>3, EnterKeeps
<1> QED BY <1>2, <1>3 DEF require_project_access

\* The operation is called, ...
LEMMA ActKeeps ==
  ASSUME AccessInv, NEW r \in Requests, Act(r)
  PROVE  AccessInv'
<1>1. /\ request[r].phase = "act" /\ acted' = acted \cup {r}
      /\ UNCHANGED <<clock, buckets, queue, owners>> /\ Enter(r, "done")
  BY DEF Act
<1>2. PICK code \in {200} \cup {_err(error) : error \in Errors} : Reply(r, code)
  BY DEF Act
<1>3. code \in Nat \ {201}
  <2>1. CASE code = 200
    BY <2>1
  <2>2. CASE \E error \in Errors : code = _err(error)
    BY <2>2, ErrorCodes
  <2> QED BY <2>1, <2>2
<1>4. Deny(r, code)
  BY <1>1, <1>2 DEF Deny
<1> QED BY <1>1, <1>3, <1>4, DenyKeeps

\* ... or the tool.
LEMMA ToolKeeps ==
  ASSUME AccessInv, NEW r \in Requests, CallTool(r)
  PROVE  AccessInv'
<1>1. /\ request[r].phase = "tool" /\ UNCHANGED <<clock, buckets, queue, owners, acted>>
      /\ r.server = "mcp" /\ HasToken(r)
  BY DEF CallTool, AccessInv, RightsInv, RequestOK
<1>2. CASE Deny(r, 200)
  <2>1. 200 \in Nat \ {201}
    OBVIOUS
  <2> QED BY <1>1, <1>2, <2>1, DenyKeeps
<1>3. CASE Enter(r, "act") /\ UNCHANGED replies
  <2>1. "act" \in Phases \ {"queued"} /\ MayEnter(r, "act")
    BY <1>1 DEF Phases, MayEnter
  <2> QED BY <1>1, <1>3, <2>1, EnterKeeps
<1> QED BY <1>2, <1>3 DEF CallTool

\* ... or a slug is looked up.
LEMMA SlugKeeps ==
  ASSUME AccessInv, NEW r \in Requests, LookUpSlug(r)
  PROVE  AccessInv'
<1>1. /\ request[r].phase = "act" /\ UNCHANGED <<clock, buckets, queue, owners>>
      /\ acted' = acted \cup {r} /\ HasToken(r) /\ (r.server = "rest" => MayAct(r))
  BY DEF LookUpSlug, AccessInv, RightsInv, RequestOK
<1>2. CASE Deny(r, _err("AlreadyExistsError"))
  <2>1. PICK code \in Nat \ {201} : code = _err("AlreadyExistsError")
    BY ErrorCodes
  <2> QED BY <1>1, <1>2, <2>1, DenyKeeps
<1>3. CASE Enter(r, "insert") /\ UNCHANGED replies
  <2>1. "insert" \in Phases \ {"queued"} /\ MayEnter(r, "insert")
    BY <1>1 DEF Phases, MayEnter
  <2> QED BY <1>1, <1>3, <2>1, EnterKeeps
<1> QED BY <1>2, <1>3 DEF LookUpSlug

\* Of those who insert one slug the first succeeds: nobody else has.
LEMMA InsertKeeps ==
  ASSUME AccessInv, NEW r \in Requests, create_project(r)
  PROVE  AccessInv'
<1>1. /\ request[r].phase = "insert" /\ UNCHANGED <<clock, buckets, queue, acted>>
      /\ request[r] \in Begun /\ RequestOK(r) /\ CreatedOK
      /\ request \in [Requests -> Begun \cup {NoRequest}] /\ replies \in [Requests -> Seq(Nat)]
      /\ owners = [p \in DOMAIN InitialOwners |-> owners[p]]
      /\ r.project \in DOMAIN InitialOwners /\ r.owner # Nobody
      /\ r.server \in {"rest", "mcp"} /\ \A s \in Requests : s.project \in DOMAIN InitialOwners
  BY AccessAssumption DEF create_project, AccessInv, AccessTypeOK, RightsInv, NoRequest
<1>2. CASE Deny(r, _err("IntegrityError")) /\ UNCHANGED owners
  <2>1. PICK code \in Nat \ {201} : code = _err("IntegrityError")
    BY ErrorCodes
  <2> QED BY <1>1, <1>2, <2>1, DenyKeeps
<1>3. CASE /\ owners[r.project] = Nobody /\ Deny(r, 201)
           /\ owners' = [owners EXCEPT ![r.project] =
                           IF r.server = "mcp" THEN r.owner ELSE authorize(r)]
  <2>1. PICK owner : owner = IF r.server = "mcp" THEN r.owner ELSE authorize(r)
    OBVIOUS
  <2>2. owner # Nobody
    BY <1>1, <2>1 DEF RequestOK, MayAct
  <2>3. /\ owners' = [owners EXCEPT ![r.project] = owner] /\ DOMAIN owners = DOMAIN InitialOwners
        /\ owners'[r.project] = owner
        /\ \A p \in DOMAIN InitialOwners \ {r.project} : owners'[p] = owners[p]
    BY <1>1, <1>3, <2>1
  <2>4. OwnersKeep
    BY <1>3, <2>3 DEF OwnersKeep
  <2>5. owners' = [p \in DOMAIN InitialOwners |-> owners'[p]]
    BY <2>3
  <2>6. PICK old \in Begun : old = request[r]
    BY <1>1
  <2>7. PICK q : q = [phase |-> "done", at |-> old.at, passed |-> old.passed, read |-> old.read,
                      left |-> old.left]
    OBVIOUS
  <2>8. q \in Begun /\ q = [old EXCEPT !.phase = "done"]
    BY <2>7 DEF Begun, Phases
  <2>9. request' = [request EXCEPT ![r] = q] /\ request'[r] = q
    BY <1>1, <1>3, <2>6, <2>8 DEF Deny, Enter
  <2>10. RequestOK(r)'
    <3>1. BodyOK(r)'
      BY <1>1, <2>6, <2>7, <2>9 DEF RequestOK, BodyOK
    <3> QED BY <2>7, <2>9, <3>1 DEF RequestOK
  <2>11. PICK mine \in Seq(Nat) : mine = Append(replies[r], 201)
    <3>1. PICK sent \in Seq(Nat) : sent = replies[r]
      BY <1>1
    <3>2. Append(sent, 201) \in Seq(Nat)
      OBVIOUS
    <3> QED BY <3>1, <3>2
  <2>12. /\ replies' = [replies EXCEPT ![r] = mine] /\ replies' \in [Requests -> Seq(Nat)]
         /\ \A s \in Requests \ {r} : replies'[s] = replies[s]
    BY <1>1, <1>3, <2>11 DEF Deny, Reply
  <2>13. CreatedOK'
    <3>1. \A s \in Requests \ {r} : Codes(s)' = Codes(s)
      BY <2>12 DEF Codes
    <3>2. ASSUME NEW s \in Requests \ {r}, 201 \in Codes(s)'
          PROVE  s.project # r.project /\ owners'[s.project] # Nobody
      <4>1. owners[s.project] # Nobody
        BY <1>1, <3>1, <3>2 DEF CreatedOK
      <4> QED BY <1>3, <2>3, <4>1, AccessAssumption
    <3>3. \A s \in Requests : 201 \in Codes(s)' => owners'[s.project] # Nobody
      BY <2>2, <2>3, <3>2
    <3>4. ASSUME NEW s \in Requests, NEW p \in Requests, 201 \in Codes(s)', 201 \in Codes(p)',
                 s.project = p.project
          PROVE  s = p
      <4>1. CASE s = r \/ p = r
        BY <3>2, <3>4, <4>1
      <4>2. CASE s # r /\ p # r
        <5>1. 201 \in Codes(s) /\ 201 \in Codes(p)
          BY <3>1, <3>4, <4>2
        <5> QED BY <1>1, <3>4, <5>1 DEF CreatedOK
      <4> QED BY <4>1, <4>2
    <3> QED BY <3>3, <3>4 DEF CreatedOK
  <2>14. /\ request[r].phase # "new" /\ q.at = request[r].at /\ q.passed = request[r].passed
         /\ q.phase # "queued"
    BY <1>1, <2>6, <2>7
  <2> QED BY <1>1, <2>4, <2>5, <2>8, <2>9, <2>10, <2>12, <2>13, <2>14, MoveKeepsAccess
<1> QED BY <1>2, <1>3 DEF create_project

\* Time passes.
LEMMA PassKeeps ==
  ASSUME AccessInv, clock' \in Nat, clock <= clock',
         UNCHANGED <<buckets, queue, request, replies, owners, acted>>
  PROVE  AccessInv'
<1>1. SameTimes /\ SamePasses /\ QueueMoves /\ OwnersKeep
  BY DEF SameTimes, SamePasses, QueueMoves, OwnersKeep
<1>2. AccessTypeOK'
  BY DEF AccessInv, AccessTypeOK
<1>3. RateInv'
  <2>1. \A s \in Requests : request'[s].phase = "queued" => ~ request'[s].passed
    BY DEF AccessInv, RateInv
  <2>2. \A k \in Identities : HasCount(k, buckets'[k])
    BY DEF AccessInv, RateInv
  <2> QED BY <1>1, <2>1, <2>2, RateKept DEF AccessInv
<1>4. RightsInv'
  BY DEF AccessInv, RightsInv, RequestOK, BodyOK, MayAct, HasToken, CreatedOK, Codes
<1> QED BY <1>2, <1>3, <1>4 DEF AccessInv

\* Nobody comes to be refused but the first in the queue, and the queue moves past
\* it with its refusal only.
LEMMA HolderStays ==
  ASSUME AccessInv, HolderRefuses,
         \A s \in Requests : request'[s].phase = "refusing" => request[s].phase = "refusing",
         queue' = queue \/ \E r \in Requests : queue' = Append(queue, r)
  PROVE  HolderRefuses'
<1>1. queue \in Seq(Requests)
  BY DEF AccessInv, AccessTypeOK
<1>2. queue # <<>> => queue' # <<>> /\ Head(queue') = Head(queue)
  <2>1. CASE queue' = queue
    BY <2>1
  <2>2. ASSUME NEW r \in Requests, queue' = Append(queue, r), queue # <<>>
        PROVE  queue' # <<>> /\ Head(queue') = Head(queue)
    BY <1>1, <2>2
  <2> QED BY <2>1, <2>2
<1> QED BY <1>2 DEF HolderRefuses

\* In every step whoever is being refused holds the lock.
LEMMA HolderKeeps ==
  ASSUME AccessInv, HolderRefuses, [AccessNext]_accessVars
  PROVE  HolderRefuses'
<1>1. request \in [Requests -> Begun \cup {NoRequest}]
  BY DEF AccessInv, AccessTypeOK
<1>2. ASSUME NEW r \in Requests, NEW phase, phase # "refusing", queue' = queue,
             Enter(r, phase) \/ Begin(r, phase)
      PROVE  HolderRefuses'
  <2>1. \A s \in Requests : request'[s].phase = "refusing" => request[s].phase = "refusing"
    <3>1. CASE Enter(r, phase)
      <4>1. request[r] \in Begun \/ request[r] = NoRequest
        BY <1>1
      <4>2. request'[r].phase = phase /\ \A s \in Requests \ {r} : request'[s] = request[s]
        BY <1>1, <3>1, <4>1 DEF Enter, Begun, NoRequest
      <4> QED BY <1>2, <4>2
    <3>2. CASE Begin(r, phase)
      BY <1>1, <1>2, <3>2 DEF Begin
    <3> QED BY <1>2, <3>1, <3>2
  <2> QED BY <1>2, <2>1, HolderStays
<1>3. ASSUME NEW r \in Requests, Arrive(r) PROVE HolderRefuses'
  <2>1. \A s \in Requests : request'[s].phase = "refusing" => request[s].phase = "refusing"
    BY <1>1, <1>3 DEF Arrive, Begin
  <2>2. queue' = queue \/ queue' = Append(queue, r)
    BY <1>3 DEF Arrive
  <2> QED BY <2>1, <2>2, HolderStays
<1>4. ASSUME NEW r \in Requests, Limit(r) PROVE HolderRefuses'
  <2>1. /\ queue # <<>> /\ r = Head(queue) /\ request[r].phase = "queued"
        /\ \A s \in Requests : request[s].phase # "refusing"
    BY <1>4 DEF Limit, HolderRefuses
  <2>2. CASE request' = [request EXCEPT ![r].phase = "length", ![r].passed = TRUE]
    <3>1. \A s \in Requests : request'[s].phase # "refusing"
      BY <1>1, <2>1, <2>2
    <3> QED BY <3>1 DEF HolderRefuses
  <2>3. CASE Enter(r, "refusing") /\ UNCHANGED queue
    <3>1. \A s \in Requests : request'[s].phase = "refusing" => s = r
      BY <1>1, <2>1, <2>3 DEF Enter
    <3> QED BY <2>1, <2>3, <3>1 DEF HolderRefuses
  <2> QED BY <1>4, <2>2, <2>3 DEF Limit
<1>5. ASSUME NEW r \in Requests, _respond_429(r) PROVE HolderRefuses'
  <2>1. /\ request[r].phase = "refusing"
        /\ \A s \in Requests : request[s].phase = "refusing" => s = r
    BY <1>5 DEF _respond_429, HolderRefuses
  <2>2. \A s \in Requests : request'[s].phase # "refusing"
    BY <1>1, <1>5, <2>1 DEF _respond_429, Enter
  <2> QED BY <2>2 DEF HolderRefuses
<1>6. ASSUME NEW r \in Requests, ReadChunk(r) PROVE HolderRefuses'
  <2>1. queue' = queue
    BY <1>6 DEF ReadChunk
  <2>2. CASE Enter(r, "oversized")
    BY <1>2, <2>1, <2>2
  <2>3. CASE request' = [request EXCEPT ![r].read = @ + Head(request[r].left), ![r].left = Tail(@)]
    <3>1. request[r].phase = "body" /\ request[r] \in Begun
      BY <1>1, <1>6 DEF ReadChunk, NoRequest
    <3>2. \A s \in Requests : request'[s].phase = request[s].phase
      BY <1>1, <2>3, <3>1 DEF Begun
    <3> QED BY <2>1, <3>2, HolderStays
  <2> QED BY <1>6, <2>2, <2>3 DEF ReadChunk
<1>7. ASSUME NEW r \in Requests,
             \/ CheckLength(r) \/ _respond_413(r) \/ BodyRead(r) \/ require_scope(r)
             \/ require_project_access(r) \/ bearer_guard(r) \/ CallTool(r) \/ Act(r)
             \/ LookUpSlug(r) \/ create_project(r)
      PROVE  \E phase \in Phases \ {"refusing"} :
               queue' = queue /\ (Enter(r, phase) \/ Begin(r, phase))
  <2>1. {"body", "scope", "done", "access", "act", "tool", "insert"} \subseteq Phases \ {"refusing"}
    BY DEF Phases
  <2>2. CASE CheckLength(r)
    BY <2>1, <2>2 DEF CheckLength
  <2>3. CASE _respond_413(r)
    BY <2>1, <2>3 DEF _respond_413
  <2>4. CASE BodyRead(r)
    BY <2>1, <2>4 DEF BodyRead
  <2>5. CASE require_scope(r)
    BY <2>1, <2>5 DEF require_scope, Deny
  <2>6. CASE require_project_access(r)
    BY <2>1, <2>6 DEF require_project_access, Deny
  <2>7. CASE bearer_guard(r)
    BY <2>1, <2>7 DEF bearer_guard
  <2>8. CASE CallTool(r)
    BY <2>1, <2>8 DEF CallTool, Deny
  <2>9. CASE Act(r)
    BY <2>1, <2>9 DEF Act
  <2>10. CASE LookUpSlug(r)
    BY <2>1, <2>10 DEF LookUpSlug, Deny
  <2>11. CASE create_project(r)
    BY <2>1, <2>11 DEF create_project, Deny
  <2> QED BY <1>7, <2>2, <2>3, <2>4, <2>5, <2>6, <2>7, <2>8, <2>9, <2>10, <2>11
<1>8. ASSUME Pass \/ UNCHANGED accessVars PROVE HolderRefuses'
  BY <1>8 DEF Pass, accessVars, HolderRefuses
<1> QED BY <1>2, <1>3, <1>4, <1>5, <1>6, <1>7, <1>8 DEF AccessNext

\* At the start nobody has asked for anything.
THEOREM AccessInvInit == AccessInit => AccessInv /\ HolderRefuses
<1> SUFFICES ASSUME AccessInit PROVE AccessInv /\ HolderRefuses
  OBVIOUS
<1>1. /\ clock = 0 /\ queue = <<>> /\ acted = {} /\ owners = InitialOwners
      /\ buckets = [k \in Identities |-> <<>>] /\ request = [r \in Requests |-> NoRequest]
      /\ replies = [r \in Requests |-> <<>>]
  BY DEF AccessInit, Identities
<1>2. \A r \in Requests : request[r].phase = "new" /\ Codes(r) = {}
  BY <1>1 DEF NoRequest, Codes
<1>3. AccessTypeOK
  <2>1. owners = [p \in DOMAIN InitialOwners |-> owners[p]]
    BY <1>1, AccessAssumption
  <2>2. <<>> \in Seq(Nat) /\ <<>> \in Seq(Requests)
    OBVIOUS
  <2> QED BY <1>1, <2>1, <2>2 DEF AccessTypeOK
<1>4. ASSUME NEW k \in Identities
      PROVE  /\ HasCount(k, buckets[k])
             /\ \A t \in Nat : IsFiniteSet(Window(k, t)) /\ Cardinality(Window(k, t)) <= RateCap
  <2>1. Passed(k) = {} /\ \A t \in Nat : Window(k, t) = {}
    BY <1>2 DEF Passed, Window
  <2>2. PICK none : none = [q \in {} |-> 0]
    OBVIOUS
  <2>3. none \in [{} -> DOMAIN buckets[k]] /\ Counted(k, buckets[k], {}, none)
    BY <2>1, <2>2 DEF Counted
  <2>4. HasCount(k, buckets[k])
    BY <2>3 DEF HasCount
  <2>5. IsFiniteSet({}) /\ Cardinality({}) <= RateCap
    <3>1. IsFiniteSet({}) /\ Cardinality({}) = 0
      BY FS_EmptySet
    <3> QED BY <3>1, AccessAssumption
  <2> QED BY <2>1, <2>4, <2>5
<1>5. RateInv
  <2>1. QueueOK
    BY <1>1 DEF QueueOK
  <2> QED BY <1>2, <1>4, <2>1 DEF RateInv
<1>6. RightsInv
  BY <1>1, <1>2 DEF RightsInv, RequestOK, CreatedOK
<1> QED BY <1>2, <1>3, <1>5, <1>6 DEF AccessInv, HolderRefuses

\* Every step keeps limits and rights.
THEOREM AccessInvStep ==
  AccessInv /\ HolderRefuses /\ [AccessNext]_accessVars => AccessInv' /\ HolderRefuses'
<1> SUFFICES ASSUME AccessInv, HolderRefuses, [AccessNext]_accessVars
             PROVE  AccessInv' /\ HolderRefuses'
  OBVIOUS
<1>1. HolderRefuses'
  BY HolderKeeps
<1>2. ASSUME NEW r \in Requests,
             \/ Arrive(r) \/ Limit(r) \/ _respond_429(r) \/ CheckLength(r) \/ ReadChunk(r)
             \/ _respond_413(r) \/ BodyRead(r) \/ require_scope(r) \/ require_project_access(r)
             \/ bearer_guard(r) \/ CallTool(r) \/ Act(r) \/ LookUpSlug(r) \/ create_project(r)
      PROVE  AccessInv'
  BY <1>2, ArriveKeeps, LimitKeeps, RefusalKeeps, LengthKeeps, ReadChunkKeeps, OversizedKeeps,
     BodyReadKeeps, ScopeKeeps, ProjectKeeps, BearerKeeps, ToolKeeps, ActKeeps, SlugKeeps, InsertKeeps
<1>3. CASE Pass \/ UNCHANGED accessVars
  <2>1. clock \in Nat
    BY DEF AccessInv, AccessTypeOK
  <2>2. /\ clock' \in Nat /\ clock <= clock'
        /\ UNCHANGED <<buckets, queue, request, replies, owners, acted>>
    BY <1>3, <2>1 DEF Pass, accessVars
  <2>3. AccessInv'
    BY <2>2, PassKeeps
  <2> QED BY <1>1, <2>3
<1> QED BY <1>1, <1>2, <1>3 DEF AccessNext

\* All routes but four have the guard look at the project in the request.
LEMMA Guarded ==
  ASSUME NEW r \in Requests, r.server = "rest",
         r.route \notin {"create_project", "list_projects", "review_example", "list_all_jobs"}
  PROVE  RouteOf(r).guard = "project"
<1> DEFINE All == ProjectRoutes \cup JobRoutes \cup DatasetRoutes
<1>1. \E route \in All : route.name = r.route
  BY RoutesAssumption
<1>2. RouteOf(r) \in All /\ RouteOf(r).name = r.route
  BY <1>1 DEF RouteOf
<1>3. \A route \in ProjectRoutes :
        route.name \in {"create_project", "list_projects"} \/ route.guard = "project"
  BY DEF ProjectRoutes, Route
<1>4. \A route \in JobRoutes : route.name = "list_all_jobs" \/ route.guard = "project"
  BY DEF JobRoutes, Route
<1>5. \A route \in DatasetRoutes : route.guard = "project"
  BY DEF DatasetRoutes, Route
<1> QED BY <1>2, <1>3, <1>4, <1>5

\* Access for any set of requests, any caps and window, any token, scopes, admins
\* and owners: no identity gets more than its cap into a window, no operation is
\* called with a body over the cap or without the token, none but a review and the
\* list of all jobs on a project of someone else, and one of those who create a
\* project under one slug succeeds.
THEOREM RequestsStayWithinLimits == AccessSpec => []ActsWithinLimits
<1>1. AccessInv => ActsWithinLimits
  <2> SUFFICES ASSUME AccessInv PROVE ActsWithinLimits
    OBVIOUS
  <2>1. ASSUME NEW r \in Requests, request[r].phase # "new"
        PROVE  Cardinality({q \in Requests :
                 /\ request[q].phase # "new" /\ request[q].passed
                 /\ _identity(q) = _identity(r)
                 /\ request[q].at \in request[r].at..request[r].at + RateWindow - 1}) <= RateCap
    <3>1. request[r].at \in Nat /\ _identity(r) \in Identities
      BY <2>1 DEF AccessInv, AccessTypeOK, Begun, NoRequest, Identities
    <3>2. PICK t \in Nat, k \in Identities : t = request[r].at /\ k = _identity(r)
      BY <3>1
    <3>3. Cardinality(Window(k, t)) <= RateCap
      BY DEF AccessInv, RateInv
    <3>4. Window(k, t) = {q \in Requests :
                 /\ request[q].phase # "new" /\ request[q].passed
                 /\ _identity(q) = k /\ request[q].at \in t .. t + RateWindow - 1}
      BY DEF Window, Passed
    <3> QED BY <3>2, <3>3, <3>4
  <2>2. ASSUME NEW r \in acted
        PROVE  /\ ApiToken # NoToken => r.token = ApiToken
               /\ r.server = "rest" =>
                    /\ BodyCap > 0 /\ RouteOf(r).reads => SumTo(r.chunks, Len(r.chunks)) <= BodyCap
                    /\ r.route \notin {"review_example", "list_all_jobs"} => OnOwn(r)
    <3>1. HasToken(r) /\ (r.server = "rest" => MayAct(r))
      BY <2>2 DEF AccessInv, RightsInv
    <3>2. ASSUME r.server = "rest", r.route \notin {"review_example", "list_all_jobs"}
          PROVE  OnOwn(r)
      <4>1. r \in Requests
        BY DEF AccessInv, AccessTypeOK
      <4>2. CASE r.route \in {"create_project", "list_projects"}
        BY <4>2 DEF OnOwn, ActsOn
      <4>3. CASE r.route \notin {"create_project", "list_projects"}
        <5>1. ActsOn(r) = {r.project}
          BY <3>2, <4>3 DEF ActsOn
        <5>2. RouteOf(r).guard = "project"
          BY <3>2, <4>1, <4>3, Guarded
        <5> QED BY <3>1, <3>2, <5>1, <5>2 DEF OnOwn, MayAct
      <4> QED BY <4>2, <4>3
    <3> QED BY <3>1, <3>2 DEF HasToken, MayAct, SmallBody
  <2>3. ASSUME NEW r \in acted, NEW q \in acted, r.project = q.project, r # q
        PROVE  ~ (201 \in {replies[r][i] : i \in DOMAIN replies[r]}
                  /\ 201 \in {replies[q][i] : i \in DOMAIN replies[q]})
    BY <2>3 DEF AccessInv, AccessTypeOK, RightsInv, CreatedOK, Codes
  <2> QED BY <2>1, <2>2, <2>3 DEF ActsWithinLimits
<1> QED BY AccessInvInit, AccessInvStep, <1>1, PTL DEF AccessSpec
=============================================================================
