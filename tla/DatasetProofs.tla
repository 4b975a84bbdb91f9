--------------------------- MODULE DatasetProofs ---------------------------
(* Proofs about the making of a dataset: the leakage check names the groups  *)
(* that are in two splits and a growing corpus moves no source (Planning),   *)
(* what is uploaded was cleared (Licensing), a release verifies as it was    *)
(* built and exported rows carry a hash they can be checked by (Release);    *)
(* with a theory of finite sums, the planner's plan is exact (Planning) and   *)
(* what the chunker makes of a document is faithful to it (Chunking).         *)
EXTENDS Planning, Licensing, Release, Chunking, FiniteSetTheorems, WellFoundedInduction, TLAPS

-----------------------------------------------------------------------------
(* The splitter *)

\* A finite set of numbers has a smallest one: a smallest set without would
\* have one when any of its elements is taken away.
LEMMA SmallestExists ==
  ASSUME NEW S, IsFiniteSet(S), S \subseteq Int, S # {}
  PROVE  \E m \in S : \A n \in S : m <= n
<1> DEFINE T == {U \in SUBSET S : U # {} /\ \A m \in U : \E n \in U : ~ (m <= n)}
<1> SUFFICES ASSUME S \in T PROVE FALSE
  OBVIOUS
<1>1. T \subseteq FiniteSubsetsOf(S) /\ T # {}
  BY FS_Subset DEF FiniteSubsetsOf
<1>2. PICK U \in T : \A V \in T : ~ (<<V, U>> \in StrictSubsetOrdering(S))
  <2> HIDE DEF T
  <2> QED BY <1>1, FS_StrictSubsetOrderingWellFounded, WFMin
<1>3. PICK x \in U : TRUE
  OBVIOUS
<1>4. U \ {x} \notin T
  <2>1. U \ {x} \in SUBSET S /\ U \ {x} \subseteq U /\ U \ {x} # U /\ U \in SUBSET S
    BY <1>3
  <2>2. <<U \ {x}, U>> \in StrictSubsetOrdering(S)
    BY <2>1 DEF StrictSubsetOrdering
  <2> HIDE DEF T
  <2> QED BY <1>2, <2>2
<1>5. CASE U \ {x} = {}
  BY <1>3, <1>5
<1>6. CASE U \ {x} # {}
  <2>1. PICK m \in U \ {x} : \A n \in U \ {x} : m <= n
    BY <1>4, <1>6
  <2>2. m \in Int /\ x \in Int /\ U \subseteq Int
    OBVIOUS
  <2>3. CASE m <= x
    BY <2>1, <2>2, <2>3
  <2>4. CASE ~ (m <= x)
    <3>1. \A n \in U : x <= n
      BY <2>1, <2>2, <2>4
    <3> QED BY <1>3, <3>1
  <2> QED BY <2>3, <2>4
<1> QED BY <1>5, <1>6

\* The groups of a list of pairs <<group, split>> that are in two splits.
Torn(pairs) == {pairs[i][1] : i \in {n \in DOMAIN pairs : \E m \in DOMAIN pairs :
                  pairs[m][1] = pairs[n][1] /\ pairs[m][2] # pairs[n][2]}}

\* Holding every pair against the first one of its group finds the groups in
\* two splits, all of them and no other (check_split_integrity).
THEOREM IntegrityIsExact ==
  ASSUME NEW pairs, NEW k \in Nat, DOMAIN pairs = 1 .. k
  PROVE  /\ check_split_integrity(pairs).leaked = Torn(pairs)
         /\ check_split_integrity(pairs).ok = (Torn(pairs) = {})
<1> DEFINE at(g) == CHOOSE i \in DOMAIN pairs :
                      pairs[i][1] = g /\ \A j \in 1 .. i - 1 : pairs[j][1] # g
           first(g) == pairs[at(g)][2]
           leaked == {pairs[i][1] : i \in {n \in DOMAIN pairs : pairs[n][2] # first(pairs[n][1])}}
<1>1. \A n \in DOMAIN pairs : at(pairs[n][1]) \in DOMAIN pairs
                              /\ pairs[at(pairs[n][1])][1] = pairs[n][1]
  <2> SUFFICES ASSUME NEW n \in DOMAIN pairs
               PROVE  \E i \in DOMAIN pairs :
                        pairs[i][1] = pairs[n][1] /\ \A j \in 1 .. i - 1 : pairs[j][1] # pairs[n][1]
    OBVIOUS
  <2> DEFINE same == {i \in 1 .. k : pairs[i][1] = pairs[n][1]}
  <2>1. IsFiniteSet(same) /\ same \subseteq Int /\ same # {}
    <3>1. IsFiniteSet(1 .. k)
      BY FS_Interval
    <3>2. n \in same /\ same \subseteq 1 .. k /\ same \subseteq Int
      OBVIOUS
    <3> HIDE DEF same
    <3> QED BY <3>1, <3>2, FS_Subset
  <2>2. PICK m \in same : \A i \in same : m <= i
    <3> HIDE DEF same
    <3> QED BY <2>1, SmallestExists
  <2>3. \A j \in 1 .. m - 1 : pairs[j][1] # pairs[n][1]
    BY <2>2
  <2> QED BY <2>2, <2>3
<1>2. leaked \subseteq Torn(pairs)
  <2> SUFFICES ASSUME NEW n \in DOMAIN pairs, pairs[n][2] # first(pairs[n][1])
               PROVE  pairs[n][1] \in Torn(pairs)
    OBVIOUS
  <2>1. PICK m \in DOMAIN pairs : m = at(pairs[n][1])
    BY <1>1
  <2>2. pairs[m][1] = pairs[n][1] /\ pairs[m][2] # pairs[n][2]
    BY <1>1, <2>1
  <2> QED BY <2>2 DEF Torn
<1>3. Torn(pairs) \subseteq leaked
  <2> SUFFICES ASSUME NEW n \in DOMAIN pairs, NEW m \in DOMAIN pairs,
                      pairs[m][1] = pairs[n][1], pairs[m][2] # pairs[n][2]
               PROVE  pairs[n][1] \in leaked
    BY DEF Torn
  <2>1. pairs[n][2] # first(pairs[n][1]) \/ pairs[m][2] # first(pairs[m][1])
    <3> HIDE DEF first
    <3> QED OBVIOUS
  <2> HIDE DEF first
  <2> QED BY <2>1
<1>4. leaked = Torn(pairs)
  BY <1>2, <1>3
<1>5. /\ check_split_integrity(pairs).leaked = leaked
      /\ check_split_integrity(pairs).ok = (leaked = {})
  BY DEF check_split_integrity
<1> QED BY <1>4, <1>5

SplitTypeOK ==
  /\ \E k \in Nat : DOMAIN corpus = 1 .. k
  /\ Range(corpus) \subseteq Sources
  /\ corpus \in Seq(Sources)

\* Every assignment covers sources that are still there; the default one sends
\* them where the seeded hash sends their key.
AssignedOK ==
  /\ \A i \in DOMAIN splitOf : \E s \in Range(corpus) : s.id = i
  /\ how = "grouped_random" => \A s \in Placed : splitOf[s.id] = hash[key(s)]

SplitInv == SplitTypeOK /\ AssignedOK /\ LeakageIsNamed

\* What has an id in common with a source is that source.
LEMMA ChosenById ==
  ASSUME NEW ss \in SUBSET Sources, NEW s \in ss
  PROVE  (CHOOSE x \in ss : x.id = s.id) = s
BY SourcesAssumption

\* A strategy that looks at the key of a source only sends a group to one split.
LEMMA ByKeyLeaksNothing ==
  ASSUME NEW destination, \A s \in Placed : splitOf[s.id] = destination[key(s)]
  PROVE  Leaks = {}
BY DEF Leaks

\* What a sequence holds with one element more.
LEMMA RangeOfAppend ==
  ASSUME NEW S, NEW seq \in Seq(S), NEW e \in S
  PROVE  Range(Append(seq, e)) = Range(seq) \cup {e}
<1>1. Append(seq, e) \in Seq(S) /\ Len(Append(seq, e)) = Len(seq) + 1
  OBVIOUS
<1>2. /\ \A i \in 1 .. Len(seq) : Append(seq, e)[i] = seq[i]
      /\ Append(seq, e)[Len(seq) + 1] = e
  OBVIOUS
<1>3. DOMAIN seq = 1 .. Len(seq) /\ DOMAIN Append(seq, e) = 1 .. Len(seq) + 1 /\ Len(seq) \in Nat
  BY <1>1
<1>4. Range(seq) \cup {e} \subseteq Range(Append(seq, e))
  BY <1>2, <1>3 DEF Range
<1>5. Range(Append(seq, e)) \subseteq Range(seq) \cup {e}
  <2> SUFFICES ASSUME NEW i \in 1 .. Len(seq) + 1
               PROVE  Append(seq, e)[i] \in Range(seq) \cup {e}
    BY <1>3 DEF Range
  <2>1. CASE i = Len(seq) + 1
    BY <1>2, <2>1
  <2>2. CASE i # Len(seq) + 1
    BY <1>2, <1>3, <2>2 DEF Range
  <2> QED BY <2>1, <2>2
<1> QED BY <1>4, <1>5

\* At the start no source has been placed.
THEOREM SplitInvInit == SplitInit => SplitInv
<1> SUFFICES ASSUME SplitInit PROVE SplitInv
  OBVIOUS
<1>1. SplitTypeOK
  <2>1. corpus = <<>> /\ DOMAIN corpus = 1 .. 0 /\ Range(corpus) = {}
    BY DEF SplitInit, Range
  <2> QED BY <2>1 DEF SplitTypeOK
<1>2. AssignedOK /\ how = "none"
  BY DEF SplitInit, AssignedOK, Placed, Range
<1> QED BY <1>1, <1>2 DEF SplitInv, LeakageIsNamed

\* A source that is added is none of those that have a split.
LEMMA AddSourceKeeps ==
  ASSUME SplitInv, AddSource
  PROVE  SplitInv'
<1>1. PICK s \in Sources \ Range(corpus) : corpus' = Append(corpus, s)
  BY DEF AddSource
<1>2. UNCHANGED <<hash, splitOf, how, integrity>>
  BY DEF AddSource
<1>3. Range(corpus') = Range(corpus) \cup {s}
  BY <1>1, RangeOfAppend DEF SplitInv, SplitTypeOK
<1>4. SplitTypeOK'
  <2>1. corpus' \in Seq(Sources) /\ DOMAIN corpus' = 1 .. Len(corpus) + 1 /\ Len(corpus) + 1 \in Nat
    BY <1>1 DEF SplitInv, SplitTypeOK
  <2> QED BY <1>3, <2>1 DEF SplitInv, SplitTypeOK
<1>5. Placed' = Placed
  <2>1. s.id \notin DOMAIN splitOf
    BY SourcesAssumption DEF SplitInv, SplitTypeOK, AssignedOK
  <2> QED BY <1>2, <1>3, <2>1 DEF Placed
<1>6. Leaks' = Leaks
  BY <1>2, <1>5 DEF Leaks
<1>7. AssignedOK'
  BY <1>2, <1>3, <1>5 DEF AssignedOK, SplitInv
<1>8. LeakageIsNamed'
  BY <1>2, <1>6 DEF LeakageIsNamed, SplitInv
<1> QED BY <1>4, <1>7, <1>8 DEF SplitInv

\* Whatever the assignment says, the check names the groups it tears.
LEMMA CheckNamesLeaks ==
  ASSUME SplitInv, NEW strategy, NEW split, Assign(strategy, split),
         DOMAIN split = {s.id : s \in Range(corpus)}
  PROVE  /\ SplitTypeOK'
         /\ Placed' = Range(corpus) /\ DOMAIN splitOf' = {s.id : s \in Range(corpus)}
         /\ integrity'.leaked = Leaks' /\ integrity'.ok = (Leaks' = {})
<1>1. UNCHANGED <<corpus, hash>> /\ splitOf' = split
  BY DEF Assign
<1>2. SplitTypeOK'
  BY <1>1 DEF SplitTypeOK, SplitInv
<1>3. Placed' = Range(corpus) /\ DOMAIN splitOf' = {s.id : s \in Range(corpus)}
  BY <1>1 DEF Placed
<1>4. PICK k \in Nat : DOMAIN corpus = 1 .. k
  BY DEF SplitInv, SplitTypeOK
<1> DEFINE pairs == Placements(corpus, split)
<1>5. /\ DOMAIN pairs = 1 .. k
      /\ \A i \in 1 .. k : pairs[i][1] = key(corpus[i]) /\ pairs[i][2] = split[corpus[i].id]
  BY <1>4 DEF Placements
<1>6. Torn(pairs) = Leaks'
  <2>1. Range(corpus) = {corpus[i] : i \in 1 .. k}
    BY <1>4 DEF Range
  <2> DEFINE leaks == {key(s) : s \in {x \in Range(corpus) : \E y \in Range(corpus) :
                                       key(y) = key(x) /\ split[y.id] # split[x.id]}}
  <2>2. Leaks' = leaks
    BY <1>1, <1>3 DEF Leaks, key
  <2>3. Torn(pairs) \subseteq leaks
    <3> SUFFICES ASSUME NEW n \in 1 .. k, NEW m \in 1 .. k,
                        pairs[m][1] = pairs[n][1], pairs[m][2] # pairs[n][2]
                 PROVE  pairs[n][1] \in leaks
      BY <1>5 DEF Torn
    <3>1. corpus[n] \in Range(corpus) /\ corpus[m] \in Range(corpus)
      BY <2>1
    <3>2. key(corpus[m]) = key(corpus[n]) /\ split[corpus[m].id] # split[corpus[n].id]
      BY <1>5
    <3>3. key(corpus[n]) \in leaks
      BY <3>1, <3>2
    <3> QED BY <1>5, <3>3
  <2>4. leaks \subseteq Torn(pairs)
    <3> SUFFICES ASSUME NEW x \in Range(corpus), NEW y \in Range(corpus),
                        key(y) = key(x), split[y.id] # split[x.id]
                 PROVE  key(x) \in Torn(pairs)
      OBVIOUS
    <3>1. PICK n \in 1 .. k : corpus[n] = x
      BY <2>1
    <3>2. PICK m \in 1 .. k : corpus[m] = y
      BY <2>1
    <3>3. pairs[m][1] = pairs[n][1] /\ pairs[m][2] # pairs[n][2] /\ pairs[n][1] = key(x)
      BY <1>5, <3>1, <3>2
    <3> HIDE DEF pairs
    <3> QED BY <1>5, <3>3 DEF Torn
  <2> QED BY <2>2, <2>3, <2>4
<1>7. integrity' = check_split_integrity(pairs)
  BY DEF Assign
<1>8. integrity'.leaked = Torn(pairs) /\ integrity'.ok = (Torn(pairs) = {})
  <2> HIDE DEF pairs
  <2> QED BY <1>5, <1>7, IntegrityIsExact
<1> QED BY <1>2, <1>3, <1>6, <1>8

\* Every source gets its split (assign_splits).
LEMMA EverySourceIsPlaced ==
  ASSUME NEW seq, NEW bucket, NEW map, NEW held, NEW folds, NEW fold
  PROVE  LET ss == Range(seq)
             ids == {s.id : s \in ss}
         IN  /\ DOMAIN grouped_random(ss, bucket) = ids
             /\ DOMAIN manual(ss, map) = ids
             /\ DOMAIN time_based(seq) = ids
             /\ DOMAIN holdout(ss, held) = ids
             /\ DOMAIN kfold(ss, folds, fold) = ids
BY DEF grouped_random, manual, time_based, holdout, kfold

\* Three strategies look at the key only: the draw, the folds, and the
\* collection held out, which no source without a group is named like.
LEMMA DrawGoesByKey ==
  ASSUME NEW ss \in SUBSET Sources, NEW bucket, NEW s \in ss
  PROVE  grouped_random(ss, bucket)[s.id] = bucket[key(s)]
BY ChosenById DEF grouped_random

\* A fold places by the key alone ...
LEMMA FoldGoesByKey ==
  ASSUME NEW ss \in SUBSET Sources, NEW folds, NEW fold, NEW s \in ss
  PROVE  kfold(ss, folds, fold)[s.id] = CASE folds[key(s)] = fold -> "test"
           [] folds[key(s)] # fold /\ folds[key(s)] = (fold + 1) % Folds -> "validation"
           [] OTHER -> "train"
<1>1. (CHOOSE x \in ss : x.id = s.id) = s /\ s.id \in {x.id : x \in ss}
  BY ChosenById
<1> QED BY <1>1 DEF kfold

\* ... and so does the collection held out.
LEMMA HoldoutGoesByKey ==
  ASSUME NEW ss \in SUBSET Sources, HeldOut # NoGroup, NEW s \in ss
  PROVE  holdout(ss, HeldOut)[s.id] = IF key(s) = HeldOut THEN "test" ELSE "train"
<1>1. (CHOOSE x \in ss : x.id = s.id) = s /\ s.id \in {x.id : x \in ss}
  BY ChosenById
<1>2. key(s) = HeldOut <=> s.group = HeldOut
  BY SourcesAssumption DEF key
<1> QED BY <1>1, <1>2 DEF holdout

\* What an assignment leaves when the split of a source is that of its key.
LEMMA KeyedKeeps ==
  ASSUME SplitInv, NEW strategy, NEW split, Assign(strategy, split),
         DOMAIN split = {s.id : s \in Range(corpus)},
         NEW destination, \A s \in Range(corpus) : split[s.id] = destination[key(s)],
         strategy = "grouped_random" => destination = hash
  PROVE  SplitInv'
<1>1. /\ SplitTypeOK' /\ Placed' = Range(corpus) /\ DOMAIN splitOf' = {s.id : s \in Range(corpus)}
      /\ integrity'.leaked = Leaks' /\ integrity'.ok = (Leaks' = {})
  BY CheckNamesLeaks
<1>2. splitOf' = split /\ how' = strategy /\ corpus' = corpus /\ hash' = hash
  BY DEF Assign
<1>3. Leaks' = {}
  <2>1. \A x, y \in Placed' : key(x) = key(y) => splitOf'[x.id] = splitOf'[y.id]
    BY <1>1, <1>2
  <2> QED BY <2>1 DEF Leaks
<1>4. AssignedOK'
  BY <1>1, <1>2 DEF AssignedOK, key
<1>5. LeakageIsNamed'
  BY <1>1, <1>3 DEF LeakageIsNamed
<1> QED BY <1>1, <1>4, <1>5 DEF SplitInv

\* A manual map and the time line may tear a group; then it is named.
LEMMA OtherKeeps ==
  ASSUME SplitInv, NEW strategy \in {"manual", "time_based"}, NEW split, Assign(strategy, split),
         DOMAIN split = {s.id : s \in Range(corpus)}
  PROVE  SplitInv'
<1>1. /\ SplitTypeOK' /\ Placed' = Range(corpus) /\ DOMAIN splitOf' = {s.id : s \in Range(corpus)}
      /\ integrity'.leaked = Leaks' /\ integrity'.ok = (Leaks' = {})
  BY CheckNamesLeaks
<1>2. how' = strategy /\ corpus' = corpus
  BY DEF Assign
<1>3. AssignedOK'
  BY <1>1, <1>2 DEF AssignedOK
<1>4. LeakageIsNamed'
  BY <1>1, <1>2 DEF LeakageIsNamed
<1> QED BY <1>1, <1>3, <1>4 DEF SplitInv

\* Each strategy that goes by the key separates no group.
LEMMA DrawKeeps ==
  ASSUME SplitInv, NEW strategy, Assign(strategy, grouped_random(Range(corpus), hash))
  PROVE  SplitInv'
<1> DEFINE ss == Range(corpus)
<1>1. ss \in SUBSET Sources
  BY DEF SplitInv, SplitTypeOK
<1>2. DOMAIN grouped_random(ss, hash) = {s.id : s \in ss}
  BY EverySourceIsPlaced
<1>3. \A s \in ss : grouped_random(ss, hash)[s.id] = hash[key(s)]
  BY <1>1, DrawGoesByKey
<1> QED BY <1>2, <1>3, KeyedKeeps

LEMMA HoldoutKeeps ==
  ASSUME SplitInv, HeldOut # NoGroup, Assign("holdout", holdout(Range(corpus), HeldOut))
  PROVE  SplitInv'
<1> DEFINE ss == Range(corpus)
           destination == [k \in {key(s) : s \in ss} |-> IF k = HeldOut THEN "test" ELSE "train"]
<1>1. ss \in SUBSET Sources
  BY DEF SplitInv, SplitTypeOK
<1>2. DOMAIN holdout(ss, HeldOut) = {s.id : s \in ss}
  BY EverySourceIsPlaced
<1>3. \A s \in ss : holdout(ss, HeldOut)[s.id] = destination[key(s)]
  BY <1>1, HoldoutGoesByKey
<1> HIDE DEF destination
<1> QED BY <1>2, <1>3, KeyedKeeps

LEMMA FoldKeeps ==
  ASSUME SplitInv, NEW folds, NEW fold, Assign("kfold", kfold(Range(corpus), folds, fold))
  PROVE  SplitInv'
<1> DEFINE ss == Range(corpus)
           of(f) == CASE f = fold -> "test"
                      [] f # fold /\ f = (fold + 1) % Folds -> "validation"
                      [] OTHER -> "train"
           destination == [k \in {key(s) : s \in ss} |-> of(folds[k])]
<1>1. ss \in SUBSET Sources
  BY DEF SplitInv, SplitTypeOK
<1>2. DOMAIN kfold(ss, folds, fold) = {s.id : s \in ss}
  BY EverySourceIsPlaced
<1>3. \A s \in ss : kfold(ss, folds, fold)[s.id] = of(folds[key(s)])
  BY <1>1, FoldGoesByKey
<1>4. \A s \in ss : kfold(ss, folds, fold)[s.id] = destination[key(s)]
  <2> HIDE DEF of
  <2> QED BY <1>3
<1> HIDE DEF destination
<1> QED BY <1>2, <1>4, KeyedKeeps

\* A step of the splitter keeps the invariant.
THEOREM SplitInvStep == SplitInv /\ [SplitNext]_splitVars => SplitInv'
<1> SUFFICES ASSUME SplitInv, [SplitNext]_splitVars PROVE SplitInv'
  OBVIOUS
<1>1. CASE AddSource
  BY <1>1, AddSourceKeeps
<1>2. CASE AssignSplits
  <2> DEFINE ss == Range(corpus)
             drawn == grouped_random(ss, hash)
  <2>1. CASE Assign("grouped_random", drawn)
    BY <2>1, DrawKeeps
  <2>2. CASE \E m \in ManualMaps : Assign("manual", manual(ss, m))
    BY <2>2, EverySourceIsPlaced, OtherKeeps
  <2>3. CASE Assign("time_based", time_based(corpus))
    BY <2>3, EverySourceIsPlaced, OtherKeeps
  <2>4. CASE Assign("holdout", IF HeldOut = NoGroup THEN drawn ELSE holdout(ss, HeldOut))
    BY <2>4, DrawKeeps, HoldoutKeeps
  <2>5. CASE \E f \in _kfold_groups(ss), n \in 0 .. Folds - 1 : Assign("kfold", kfold(ss, f, n))
    BY <2>5, FoldKeeps
  <2> QED BY <1>2, <2>1, <2>2, <2>3, <2>4, <2>5 DEF AssignSplits
<1>3. CASE UNCHANGED splitVars
  <2>1. Range(corpus') = Range(corpus)
    BY <1>3 DEF splitVars
  <2>2. Placed' = Placed
    BY <1>3, <2>1 DEF splitVars, Placed
  <2>3. Leaks' = Leaks
    BY <1>3, <2>2 DEF splitVars, Leaks
  <2>4. SplitTypeOK' /\ AssignedOK'
    BY <1>3, <2>1, <2>2 DEF splitVars, SplitInv, SplitTypeOK, AssignedOK
  <2>5. LeakageIsNamed'
    BY <1>3, <2>3 DEF splitVars, SplitInv, LeakageIsNamed
  <2> QED BY <2>4, <2>5 DEF SplitInv
<1> QED BY <1>1, <1>2, <1>3 DEF SplitNext

\* For any sources, groups, maps and folds, and however often sources are added
\* and assigned again: the leakage check names the groups in two splits and no
\* other, and the default, the holdout and the folds tear none (assign_splits,
\* check_split_integrity).
THEOREM LeaksAreNamed == SplitSpec => []LeakageIsNamed
<1>1. SplitInv => LeakageIsNamed
  BY DEF SplitInv
<1> QED BY <1>1, SplitInvInit, SplitInvStep, PTL DEF SplitSpec

\* Under one seed a source keeps its split in a corpus of any size that grows.
THEOREM GrowthKeepsSplits == SplitSpec => GrowthMovesNobody
<1>1. SplitInv /\ [SplitNext]_splitVars =>
        [how = "grouped_random" /\ how' = "grouped_random" =>
           \A i \in DOMAIN splitOf : splitOf'[i] = splitOf[i]]_splitVars
  <2> SUFFICES ASSUME SplitInv, SplitNext, how = "grouped_random", how' = "grouped_random",
                      NEW i \in DOMAIN splitOf
               PROVE  splitOf'[i] = splitOf[i]
    OBVIOUS
  <2>1. CASE AddSource
    BY <2>1 DEF AddSource
  <2>2. CASE AssignSplits
    <3>1. splitOf' = grouped_random(Range(corpus), hash)
      BY <2>2 DEF AssignSplits, Assign
    <3>2. PICK s \in Range(corpus) : s.id = i
      BY DEF SplitInv, AssignedOK
    <3>3. splitOf[i] = hash[key(s)]
      BY <3>2 DEF SplitInv, AssignedOK, Placed
    <3>4. grouped_random(Range(corpus), hash)[i] = hash[key(s)]
      BY <3>2, DrawGoesByKey DEF SplitInv, SplitTypeOK
    <3> QED BY <3>1, <3>3, <3>4
  <2> QED BY <2>1, <2>2 DEF SplitNext
<1> QED BY <1>1, SplitInvInit, SplitInvStep, PTL DEF SplitSpec, GrowthMovesNobody

-----------------------------------------------------------------------------
(* Publication *)

SourcesOK == sources \in Seq(Documents) /\ ToSet(sources) \subseteq Documents

\* Each record is the report of a source that is still there.
Reported(records) == \A r \in records : \E s \in ToSet(sources) : r = inspect(s)
Approved(records) == \A r \in records : is_approved_for_public_release(r)

PubOK ==
  /\ pub.phase \in {"informed", "cleared"} => Reported(pub.records)
  /\ pub.phase = "cleared" => Approved(pub.records)

UploadsOK == \A u \in uploads : Reported(u.records) /\ Approved(u.records)

LicenceInv == SourcesOK /\ PubOK /\ UploadsOK

\* What the gate lets through is approved record by record (publication_gate).
LEMMA GateMeansApproved ==
  ASSUME NEW records, publication_gate(records).allowed
  PROVE  Approved(records)
<1>1. {r.id : r \in {x \in records : ~ is_approved_for_public_release(x)}} = {}
  BY DEF publication_gate
<1> QED BY <1>1 DEF Approved

\* What the report says is approved is cleared.
LEMMA ApprovedMeans ==
  ASSUME NEW s, is_approved_for_public_release(inspect(s))
  PROVE  Cleared(s)
<1>1. /\ inspect(s).license_status = license_status(s.licence)
      /\ inspect(s).privacy = classify_text(_source_content(s))
  BY DEF inspect
<1>2. license_status(s.licence) = "allowed"
  BY <1>1 DEF is_approved_for_public_release
<1>3. s.licence \notin _BLOCKED /\ (s.licence \in _ALLOWED \/ Mentions[s.licence] # {})
  BY <1>2 DEF license_status
<1>4. classify_text(_source_content(s)).classification # "high"
  BY <1>1 DEF is_approved_for_public_release
<1> QED BY <1>3, <1>4 DEF Cleared

\* At the start nothing has been cleared or uploaded.
THEOREM LicenceInvInit == LicenceInit => LicenceInv
<1> SUFFICES ASSUME LicenceInit PROVE LicenceInv
  OBVIOUS
<1>1. SourcesOK
  BY DEF LicenceInit, SourcesOK, ToSet
<1>2. PubOK /\ UploadsOK
  BY DEF LicenceInit, PubOK, UploadsOK, NoPub
<1> QED BY <1>1, <1>2 DEF LicenceInv

\* Documents come, attempts are made, uploads end: one lemma each.
LEMMA AddDocumentKeeps ==
  ASSUME LicenceInv, AddDocument
  PROVE  LicenceInv'
<1>1. PICK d \in Documents \ ToSet(sources) : sources' = Append(sources, d)
  BY DEF AddDocument
<1>2. UNCHANGED <<pub, uploads>>
  BY DEF AddDocument
<1>3. ToSet(sources') = ToSet(sources) \cup {d}
  <2>1. Range(Append(sources, d)) = Range(sources) \cup {d}
    BY RangeOfAppend DEF LicenceInv, SourcesOK
  <2> QED BY <1>1, <2>1 DEF ToSet, Range
<1>4. SourcesOK'
  BY <1>1, <1>3 DEF SourcesOK, LicenceInv
<1>5. \A records : Reported(records) => Reported(records)'
  BY <1>3 DEF Reported
<1>6. PubOK' /\ UploadsOK'
  BY <1>2, <1>5 DEF LicenceInv, PubOK, UploadsOK
<1> QED BY <1>4, <1>6 DEF LicenceInv

\* The rights are read of the sources listed at that moment.
LEMMA ReadRightsKeeps ==
  ASSUME LicenceInv, ReadRights
  PROVE  LicenceInv'
<1> DEFINE n == IF Len(sources) < ListLimit THEN Len(sources) ELSE ListLimit
<1>1. UNCHANGED <<sources, uploads>>
  BY DEF ReadRights
<1>2. PICK records : records = license_report(SubSeq(sources, 1, n))
  OBVIOUS
<1>3. pub' = [phase |-> "informed", dry |-> pub.dry, records |-> records]
  BY <1>2 DEF ReadRights
<1>4. Reported(records)
  <2>1. sources \in Seq(Documents) /\ Len(sources) \in Nat
    BY DEF LicenceInv, SourcesOK
  <2>2. n \in 0 .. Len(sources)
    BY <2>1, LicensingAssumption
  <2> HIDE DEF n
  <2>3. Len(SubSeq(sources, 1, n)) = n /\ \A i \in 1 .. n : SubSeq(sources, 1, n)[i] = sources[i]
    BY <2>1, <2>2
  <2> SUFFICES ASSUME NEW i \in 1 .. n
               PROVE  \E s \in ToSet(sources) : inspect(SubSeq(sources, 1, n)[i]) = inspect(s)
    BY <1>2, <2>3 DEF Reported, license_report
  <2>4. sources[i] \in ToSet(sources)
    BY <2>1, <2>2 DEF ToSet
  <2> QED BY <2>3, <2>4
<1>5. Reported(records)'
  BY <1>1, <1>4 DEF Reported
<1>6. PubOK'
  BY <1>3, <1>5 DEF PubOK
<1>7. SourcesOK' /\ UploadsOK'
  BY <1>1 DEF LicenceInv, SourcesOK, UploadsOK, Reported
<1> QED BY <1>6, <1>7 DEF LicenceInv

\* The gate decides on the report read before.
LEMMA ReadExamplesKeeps ==
  ASSUME LicenceInv, ReadExamples
  PROVE  LicenceInv'
<1>1. UNCHANGED <<sources, uploads>> /\ pub.phase = "informed"
  BY DEF ReadExamples
<1>2. PICK records : records = pub.records
  OBVIOUS
<1>3. \/ pub' = NoPub
      \/ /\ publication_gate(records).allowed
         /\ pub' = [phase |-> "cleared", records |-> records, included |-> accepted]
  BY <1>2 DEF ReadExamples
<1>4. Reported(records)'
  BY <1>1, <1>2 DEF LicenceInv, PubOK, Reported
<1>5. publication_gate(records).allowed => Approved(records)
  BY GateMeansApproved
<1>6. PubOK'
  BY <1>3, <1>4, <1>5 DEF PubOK, NoPub
<1>7. SourcesOK' /\ UploadsOK'
  BY <1>1 DEF LicenceInv, SourcesOK, UploadsOK, Reported
<1> QED BY <1>6, <1>7 DEF LicenceInv

LEMMA UploadKeeps ==
  ASSUME LicenceInv, Upload
  PROVE  LicenceInv'
<1>1. UNCHANGED sources /\ pub.phase = "cleared" /\ pub' = NoPub
  BY DEF Upload
<1>2. PICK answered \in BOOLEAN :
        uploads' = uploads \cup {[records |-> pub.records, included |-> pub.included,
                                  recorded |-> answered]}
  BY DEF Upload
<1>3. Reported(pub.records) /\ Approved(pub.records)
  BY <1>1 DEF LicenceInv, PubOK
<1>4. \A u \in uploads' : Reported(u.records) /\ Approved(u.records)
  BY <1>2, <1>3 DEF LicenceInv, UploadsOK
<1>5. UploadsOK'
  BY <1>1, <1>4 DEF UploadsOK, Reported
<1>6. SourcesOK' /\ PubOK'
  BY <1>1 DEF LicenceInv, SourcesOK, PubOK, NoPub
<1> QED BY <1>5, <1>6 DEF LicenceInv

LEMMA AttemptKeeps ==
  ASSUME LicenceInv, Attempt
  PROVE  LicenceInv'
<1>1. UNCHANGED <<sources, uploads>>
  BY DEF Attempt
<1>2. pub' = pub \/ \E dry \in BOOLEAN : pub' = [phase |-> "attempted", dry |-> dry]
  BY DEF Attempt
<1>3. PubOK'
  BY <1>1, <1>2 DEF LicenceInv, PubOK, Reported
<1> QED BY <1>1, <1>3 DEF LicenceInv, SourcesOK, UploadsOK, Reported

\* A publication given up, an acceptance and the clock disturb nothing.
LEMMA OtherLicenceKeeps ==
  ASSUME LicenceInv, AcceptExamples \/ Tick \/ Unavailable \/ PublishRefused \/ UNCHANGED licenceVars
  PROVE  LicenceInv'
<1>1. UNCHANGED <<sources, uploads>> /\ pub' \in {pub, NoPub}
  BY DEF AcceptExamples, Tick, Unavailable, PublishRefused, licenceVars
<1>2. PubOK'
  BY <1>1 DEF LicenceInv, PubOK, Reported, NoPub
<1> QED BY <1>1, <1>2 DEF LicenceInv, SourcesOK, UploadsOK, Reported

\* Every step of clearance and upload keeps the invariant.
THEOREM LicenceInvStep == LicenceInv /\ [LicenceNext]_licenceVars => LicenceInv'
BY AddDocumentKeeps, ReadRightsKeeps, ReadExamplesKeeps, UploadKeeps, AttemptKeeps, OtherLicenceKeeps
   DEF LicenceNext

\* For any sources, licences and texts, whatever is added or accepted between
\* the report, the gate and the upload: each source the report of an upload lists
\* has an allowed licence that is not blocked and no highly private kept text
\* (Workspace.publish_dataset).
THEOREM UploadsWereCleared == LicenceSpec => []UploadsAreCleared
<1>1. LicenceInv => UploadsAreCleared
  <2> SUFFICES ASSUME LicenceInv, NEW u \in uploads, NEW s \in ToSet(sources),
                      NEW r \in u.records, r.id = s.id
               PROVE  Cleared(s)
    BY DEF UploadsAreCleared
  <2>1. PICK t \in ToSet(sources) : r = inspect(t)
    BY DEF LicenceInv, UploadsOK, Reported
  <2>2. r.id = t.id
    BY <2>1 DEF inspect
  <2>3. t = s
    BY <2>2, LicensingAssumption DEF LicenceInv, SourcesOK
  <2>4. is_approved_for_public_release(inspect(s))
    BY <2>1, <2>3 DEF LicenceInv, UploadsOK, Approved
  <2> QED BY <2>4, ApprovedMeans
<1> QED BY <1>1, LicenceInvInit, LicenceInvStep, PTL DEF LicenceSpec

-----------------------------------------------------------------------------
(* Releases *)

IsManifest(m) == m = [schema |-> m.schema, files |-> m.files, root |-> m.root,
                      selfref |-> m.selfref]
IsArchive(a) ==
  /\ a = [entries |-> a.entries, manifest |-> a.manifest, readable |-> a.readable,
          detached |-> a.detached]
  /\ IsManifest(a.manifest)

\* A release as it is built: it verifies, and its root is that of its files.
Sealed(b) == run_verify_release(b) = "ok" /\ b.manifest.root = Root(b.entries)

ArchiveInv ==
  IF built = NoArchive THEN archive = NoArchive /\ verdict = None
  ELSE /\ Sealed(built) /\ IsArchive(archive)
       /\ archive.manifest.root \in {built.manifest.root, {}}
       /\ verdict # None => verdict = run_verify_release(archive)

\* An archive is not the absence of one.
LEMMA ArchiveIsThere ==
  ASSUME NEW a, IsArchive(a)
  PROVE  a # NoArchive
BY DEF IsArchive, NoArchive

\* A bundle with the required files verifies, carriage returns or not: what is
\* listed is taken of the data as it is written (build_release_bundle).
LEMMA BundleIsWhole ==
  ASSUME NEW splits, NEW meta, _REQUIRED \subseteq DOMAIN splits \cup DOMAIN meta
  PROVE  LET b == build_release_bundle(splits, meta) IN IsArchive(b) /\ Sealed(b)
<1> DEFINE given == [p \in DOMAIN splits \cup DOMAIN meta |->
                       IF p \in DOMAIN splits THEN splits[p] ELSE meta[p]]
           listed == [p \in DOMAIN given |-> Plain(given[p].body)]
           m == [schema |-> TRUE, files |-> listed, root |-> Root(listed), selfref |-> FALSE]
           e == [p \in DOMAIN given |-> Zipped(given[p])]
           b == build_release_bundle(splits, meta)
<1>1. b = [entries |-> e, manifest |-> m, readable |-> TRUE, detached |-> ZipDigest(e, m)]
  BY DEF build_release_bundle
<1>2. e = listed
  BY DEF Zipped
<1>3. DOMAIN listed = DOMAIN splits \cup DOMAIN meta /\ listed = [p \in DOMAIN listed |-> listed[p]]
  OBVIOUS
<1>4. PICK f : f = listed
  OBVIOUS
<1> HIDE DEF given, e, b
<1>5. m = [schema |-> TRUE, files |-> f, root |-> Root(f), selfref |-> FALSE]
      /\ b = [entries |-> f, manifest |-> m, readable |-> TRUE, detached |-> ZipDigest(f, m)]
  BY <1>1, <1>2, <1>4
<1>6. _REQUIRED \subseteq DOMAIN f /\ f = [p \in DOMAIN f |-> f[p]]
  BY <1>3, <1>4
<1> HIDE DEF listed
<1>7. PICK n : n = m
  OBVIOUS
<1> HIDE DEF m
<1>8. /\ n = [schema |-> TRUE, files |-> f, root |-> Root(f), selfref |-> FALSE]
      /\ b = [entries |-> f, manifest |-> n, readable |-> TRUE, detached |-> ZipDigest(f, n)]
  BY <1>5, <1>7
<1>9. IsArchive(b) /\ b.manifest.root = Root(b.entries)
  BY <1>8 DEF IsArchive, IsManifest
<1>10. b.detached # {} /\ DetachedHolds(b) /\ PerFileHolds(b)
  BY <1>8 DEF DetachedHolds, PerFileHolds, ZipDigest
<1>11. Root(f) # {}
  BY <1>6 DEF Root, _REQUIRED
<1>12. run_verify_release(b) = "ok"
  <2>1. DOMAIN b.manifest.files \subseteq DOMAIN b.entries /\ b.readable
        /\ b.manifest.schema /\ ~ b.manifest.selfref /\ b.manifest.root # {}
        /\ _REQUIRED \subseteq DOMAIN b.entries
    BY <1>6, <1>8, <1>11
  <2>2. b.manifest.root = Root([p \in DOMAIN b.manifest.files |-> b.entries[p]])
    BY <1>6, <1>8
  <2> QED BY <1>10, <2>1, <2>2 DEF run_verify_release
<1> QED BY <1>9, <1>12 DEF Sealed, b

\* An archive that verifies, and whose manifest states the root of the release,
\* has every file of the release (run_verify_release).
LEMMA VerifiedHasFiles ==
  ASSUME NEW a, NEW b, run_verify_release(a) = "ok", Sealed(b),
         a.manifest.root \in {b.manifest.root, {}}
  PROVE  \A p \in DOMAIN b.entries : p \in DOMAIN a.entries /\ a.entries[p] = b.entries[p]
<1>1. /\ PerFileHolds(a) /\ a.manifest.root # {}
      /\ a.manifest.root = Root([p \in DOMAIN a.manifest.files |-> a.entries[p]])
  BY DEF run_verify_release
<1>2. Root(b.entries) = Root([p \in DOMAIN a.manifest.files |-> a.entries[p]])
  BY <1>1 DEF Sealed
<1>3. SUFFICES ASSUME NEW p \in DOMAIN b.entries
               PROVE  p \in DOMAIN a.entries /\ a.entries[p] = b.entries[p]
  OBVIOUS
<1>4. <<p, b.entries[p]>> \in Root(b.entries)
  BY DEF Root
<1>5. PICK q \in DOMAIN a.manifest.files : <<p, b.entries[p]>> = <<q, a.entries[q]>>
  BY <1>2, <1>4 DEF Root
<1>6. q = p /\ a.entries[p] = b.entries[p]
  BY <1>5
<1> QED BY <1>1, <1>5, <1>6 DEF PerFileHolds

\* What is packed again is an archive with the same manifest.
LEMMA RepackedIsArchive ==
  ASSUME NEW a, IsArchive(a), NEW b \in Repacked(a)
  PROVE  IsArchive(b) /\ b.manifest = a.manifest
<1>1. CASE b = a
  BY <1>1
<1>2. CASE b = [a EXCEPT !.detached = ZipDigest(a.entries, a.manifest)]
  <2>1. b = [entries |-> a.entries, manifest |-> a.manifest, readable |-> a.readable,
             detached |-> ZipDigest(a.entries, a.manifest)]
    BY <1>2 DEF IsArchive
  <2> QED BY <2>1 DEF IsArchive
<1> QED BY <1>1, <1>2 DEF Repacked

\* What may be left of an archive a: its manifest states the old root or none.
LeftOf(a, b) == IsArchive(b) /\ b.manifest.root \in {a.manifest.root, {}}

LEMMA LeftByRepacking ==
  ASSUME NEW a, NEW c, LeftOf(a, c), NEW b \in Repacked(c)
  PROVE  LeftOf(a, b)
BY RepackedIsArchive DEF LeftOf

\* One field of an archive is changed: what is left of the archive.
LEMMA SetEntries ==
  ASSUME NEW a, IsArchive(a), NEW v
  PROVE  LeftOf(a, [a EXCEPT !.entries = v])
<1>1. [a EXCEPT !.entries = v] = [entries |-> v, manifest |-> a.manifest, readable |-> a.readable,
                                  detached |-> a.detached]
  BY DEF IsArchive
<1> QED BY <1>1 DEF IsArchive, LeftOf

LEMMA SetReadable ==
  ASSUME NEW a, IsArchive(a), NEW v
  PROVE  LeftOf(a, [a EXCEPT !.readable = v])
<1>1. [a EXCEPT !.readable = v] = [entries |-> a.entries, manifest |-> a.manifest, readable |-> v,
                                   detached |-> a.detached]
  BY DEF IsArchive
<1> QED BY <1>1 DEF IsArchive, LeftOf

LEMMA SetDetached ==
  ASSUME NEW a, IsArchive(a), NEW v
  PROVE  LeftOf(a, [a EXCEPT !.detached = v])
<1>1. [a EXCEPT !.detached = v] = [entries |-> a.entries, manifest |-> a.manifest,
                                   readable |-> a.readable, detached |-> v]
  BY DEF IsArchive
<1> QED BY <1>1 DEF IsArchive, LeftOf

LEMMA SetManifest ==
  ASSUME NEW a, IsArchive(a), NEW m, IsManifest(m), m.root \in {a.manifest.root, {}}
  PROVE  LeftOf(a, [a EXCEPT !.manifest = m])
<1>1. [a EXCEPT !.manifest = m] = [entries |-> a.entries, manifest |-> m, readable |-> a.readable,
                                   detached |-> a.detached]
  BY DEF IsArchive
<1> QED BY <1>1 DEF IsArchive, LeftOf

LEMMA SetInManifest ==
  ASSUME NEW m, IsManifest(m), NEW v
  PROVE  /\ IsManifest([m EXCEPT !.files = v]) /\ [m EXCEPT !.files = v].root = m.root
         /\ IsManifest([m EXCEPT !.schema = v]) /\ [m EXCEPT !.schema = v].root = m.root
         /\ IsManifest([m EXCEPT !.selfref = v]) /\ [m EXCEPT !.selfref = v].root = m.root
<1>1. [m EXCEPT !.files = v]
        = [schema |-> m.schema, files |-> v, root |-> m.root, selfref |-> m.selfref]
  BY DEF IsManifest
<1>2. [m EXCEPT !.schema = v]
        = [schema |-> v, files |-> m.files, root |-> m.root, selfref |-> m.selfref]
  BY DEF IsManifest
<1>3. [m EXCEPT !.selfref = v]
        = [schema |-> m.schema, files |-> m.files, root |-> m.root, selfref |-> v]
  BY DEF IsManifest
<1>4. IsManifest([m EXCEPT !.files = v]) /\ [m EXCEPT !.files = v].root = m.root
  BY <1>1 DEF IsManifest
<1>5. IsManifest([m EXCEPT !.schema = v]) /\ [m EXCEPT !.schema = v].root = m.root
  BY <1>2 DEF IsManifest
<1>6. IsManifest([m EXCEPT !.selfref = v]) /\ [m EXCEPT !.selfref = v].root = m.root
  BY <1>3 DEF IsManifest
<1> QED BY <1>4, <1>5, <1>6

\* Damage leaves the old root in the manifest, or none.
LEMMA DamageMeans ==
  ASSUME IsArchive(archive), Damage
  PROVE  LeftOf(archive, archive')
<1> DEFINE changed == Plain(<<>>)
           e == archive.entries
           m == archive.manifest
<1>1. IsManifest(m) /\ IsManifest(LostManifest) /\ LostManifest.root = {}
  BY DEF IsArchive, IsManifest, LostManifest
<1>2. ASSUME NEW v, archive' \in Repacked([archive EXCEPT !.entries = v])
      PROVE  LeftOf(archive, archive')
  BY <1>2, SetEntries, LeftByRepacking
<1>3. ASSUME NEW n, IsManifest(n), n.root \in {archive.manifest.root, {}},
             archive' \in Repacked([archive EXCEPT !.manifest = n])
      PROVE  LeftOf(archive, archive')
  BY <1>3, SetManifest, LeftByRepacking
<1>4. ASSUME NEW p, archive' \in Repacked([archive EXCEPT !.entries[p] = changed])
      PROVE  LeftOf(archive, archive')
  <2>1. [archive EXCEPT !.entries[p] = changed]
          = [archive EXCEPT !.entries = [archive.entries EXCEPT ![p] = changed]]
    OBVIOUS
  <2> QED BY <1>2, <1>4, <2>1
<1>5. ASSUME NEW p, archive' \in Repacked([archive EXCEPT !.manifest.files[p] = changed])
      PROVE  LeftOf(archive, archive')
  <2> DEFINE n == [archive.manifest EXCEPT !.files = [archive.manifest.files EXCEPT ![p] = changed]]
  <2>1. [archive EXCEPT !.manifest.files[p] = changed] = [archive EXCEPT !.manifest = n]
    OBVIOUS
  <2>2. IsManifest(n) /\ n.root = archive.manifest.root
    BY <1>1, SetInManifest
  <2> HIDE DEF n
  <2> QED BY <1>3, <1>5, <2>1, <2>2
<1>6. ASSUME archive' \in Repacked([archive EXCEPT !.manifest.schema = FALSE])
      PROVE  LeftOf(archive, archive')
  <2> DEFINE n == [archive.manifest EXCEPT !.schema = FALSE]
  <2>1. [archive EXCEPT !.manifest.schema = FALSE] = [archive EXCEPT !.manifest = n]
    OBVIOUS
  <2>2. IsManifest(n) /\ n.root = archive.manifest.root
    BY <1>1, SetInManifest
  <2> HIDE DEF n
  <2> QED BY <1>3, <1>6, <2>1, <2>2
<1>7. ASSUME archive' \in Repacked([archive EXCEPT !.manifest.selfref = TRUE])
      PROVE  LeftOf(archive, archive')
  <2> DEFINE n == [archive.manifest EXCEPT !.selfref = TRUE]
  <2>1. [archive EXCEPT !.manifest.selfref = TRUE] = [archive EXCEPT !.manifest = n]
    OBVIOUS
  <2>2. IsManifest(n) /\ n.root = archive.manifest.root
    BY <1>1, SetInManifest
  <2> HIDE DEF n
  <2> QED BY <1>3, <1>7, <2>1, <2>2
<1>8. ASSUME archive' \in Repacked([archive EXCEPT !.manifest = LostManifest])
      PROVE  LeftOf(archive, archive')
  BY <1>1, <1>3, <1>8
<1>9. ASSUME \/ archive' = [archive EXCEPT !.detached = {}]
             \/ archive' = [archive EXCEPT !.readable = FALSE]
      PROVE  LeftOf(archive, archive')
  BY <1>9, SetDetached, SetReadable
<1>10. \/ \E v : archive' \in Repacked([archive EXCEPT !.entries = v])
       \/ \E p : archive' \in Repacked([archive EXCEPT !.entries[p] = changed])
       \/ \E p : archive' \in Repacked([archive EXCEPT !.manifest.files[p] = changed])
       \/ archive' \in Repacked([archive EXCEPT !.manifest.schema = FALSE])
       \/ archive' \in Repacked([archive EXCEPT !.manifest.selfref = TRUE])
       \/ archive' \in Repacked([archive EXCEPT !.manifest = LostManifest])
       \/ archive' = [archive EXCEPT !.detached = {}]
       \/ archive' = [archive EXCEPT !.readable = FALSE]
  BY DEF Damage
<1> QED BY <1>2, <1>4, <1>5, <1>6, <1>7, <1>8, <1>9, <1>10

\* The examples there may be.
Examples == {_candidate_to_example(o.made, o.project, o.split, o.line) : o \in Offers}

\* An export is of examples that passed the gate together.
ExportOK(x) ==
  /\ x.examples \in Seq(Examples) /\ verify_provenance_before_export(x.examples)
  /\ x.artifact = export_format(x.examples, x.format)

ExportsInv == stored \in [Projects -> Seq(Examples)] /\ \A x \in exports : ExportOK(x)

ReleaseInv == ArchiveInv /\ ExportsInv

\* At the start there is no release.
THEOREM ReleaseInvInit == ReleaseInit => ReleaseInv
<1> SUFFICES ASSUME ReleaseInit PROVE ReleaseInv
  OBVIOUS
<1>1. ArchiveInv
  BY DEF ReleaseInit, ArchiveInv
<1>2. ExportsInv
  <2>1. <<>> \in Seq(Examples)
    OBVIOUS
  <2> QED BY <2>1 DEF ReleaseInit, ExportsInv
<1> QED BY <1>1, <1>2 DEF ReleaseInv

\* One lemma per action.
LEMMA AcceptExampleKeeps ==
  ASSUME ReleaseInv, AcceptExample
  PROVE  ReleaseInv'
<1>1. UNCHANGED <<exports, files, archive, built, verdict, recorded>>
  BY DEF AcceptExample
<1>2. PICK o \in Offers :
        stored' = [stored EXCEPT ![o.project] =
                     Append(@, _candidate_to_example(o.made, o.project, o.split, o.line))]
  BY DEF AcceptExample
<1>3. PICK ex \in Examples : ex = _candidate_to_example(o.made, o.project, o.split, o.line)
  BY DEF Examples
<1>4. o.project \in Projects
  BY ReleaseAssumption
<1>5. stored' = [stored EXCEPT ![o.project] = Append(stored[o.project], ex)]
  BY <1>2, <1>3
<1>6. stored' \in [Projects -> Seq(Examples)]
  <2>1. stored \in [Projects -> Seq(Examples)]
    BY DEF ReleaseInv, ExportsInv
  <2>2. Append(stored[o.project], ex) \in Seq(Examples)
    BY <1>4, <2>1
  <2> QED BY <1>5, <2>1, <2>2
<1> QED BY <1>1, <1>6 DEF ReleaseInv, ArchiveInv, ExportsInv

LEMMA ExportFormattedKeeps ==
  ASSUME ReleaseInv, ExportFormatted
  PROVE  ReleaseInv'
<1>1. UNCHANGED <<stored, archive, built, verdict, recorded>>
  BY DEF ExportFormatted
<1>2. PICK p \in Projects, format \in Formats :
        /\ verify_provenance_before_export(stored[p])
        /\ exports' = exports \cup
             {[project |-> p, name |-> <<Prefix[p], format>>, format |-> format,
               artifact |-> export_format(stored[p], format), examples |-> stored[p]]}
  BY DEF ExportFormatted
<1>3. stored[p] \in Seq(Examples)
  BY DEF ReleaseInv, ExportsInv
<1>4. ExportOK([project |-> p, name |-> <<Prefix[p], format>>, format |-> format,
                artifact |-> export_format(stored[p], format), examples |-> stored[p]])
  BY <1>2, <1>3 DEF ExportOK
<1>5. \A x \in exports' : ExportOK(x)
  BY <1>2, <1>4 DEF ReleaseInv, ExportsInv
<1> QED BY <1>1, <1>5 DEF ReleaseInv, ArchiveInv, ExportsInv

LEMMA BuildReleaseKeeps ==
  ASSUME ReleaseInv, BuildRelease
  PROVE  ReleaseInv'
<1>1. UNCHANGED <<stored, exports, files, verdict, recorded>> /\ archive = NoArchive /\ built' = archive'
  BY DEF BuildRelease
<1>2. PICK p \in Projects, crlf \in BOOLEAN :
        archive' = build_release_bundle(_split_bytes(stored[p]),
          [m \in Metadata |-> [body |-> <<m>>, crlf |-> crlf /\ m = "README.md"]])
  BY DEF BuildRelease
<1> DEFINE splits == _split_bytes(stored[p])
           meta == [m \in Metadata |-> [body |-> <<m>>, crlf |-> crlf /\ m = "README.md"]]
<1>3. _REQUIRED \subseteq DOMAIN splits \cup DOMAIN meta
  <2>1. "data/train.jsonl" \in DOMAIN splits
    <3>1. DOMAIN splits = {SplitPath[s] : s \in DOMAIN SplitPath}
      BY DEF _split_bytes
    <3>2. "train" \in DOMAIN SplitPath /\ SplitPath["train"] = "data/train.jsonl"
      BY DEF SplitPath
    <3> QED BY <3>1, <3>2
  <2>2. _REQUIRED \subseteq {"data/train.jsonl"} \cup Metadata
    BY DEF _REQUIRED, Metadata
  <2> QED BY <2>1, <2>2
<1>4. IsArchive(archive') /\ Sealed(archive')
  <2> HIDE DEF splits, meta
  <2> QED BY <1>2, <1>3, BundleIsWhole DEF splits, meta
<1>5. archive' # NoArchive
  BY <1>4, ArchiveIsThere
<1>6. verdict = None
  BY <1>1, ArchiveIsThere DEF ReleaseInv, ArchiveInv
<1>7. ArchiveInv'
  <2>1. built' # NoArchive /\ Sealed(built') /\ IsArchive(archive')
        /\ archive'.manifest.root \in {built'.manifest.root, {}} /\ verdict' = None
    BY <1>1, <1>4, <1>5, <1>6
  <2> QED BY <2>1 DEF ArchiveInv
<1> QED BY <1>1, <1>7 DEF ReleaseInv, ExportsInv

LEMMA DamageKeeps ==
  ASSUME ReleaseInv, Damage
  PROVE  ReleaseInv'
<1>1. UNCHANGED <<stored, exports, files, built, verdict, recorded>> /\ verdict = None
      /\ archive # NoArchive
  BY DEF Damage
<1>2. /\ built # NoArchive /\ Sealed(built) /\ IsArchive(archive)
      /\ archive.manifest.root \in {built.manifest.root, {}}
  BY <1>1 DEF ReleaseInv, ArchiveInv
<1>3. LeftOf(archive, archive')
  BY <1>2, DamageMeans
<1>4. ArchiveInv'
  <2>1. archive'.manifest.root \in {built.manifest.root, {}} /\ IsArchive(archive')
    BY <1>2, <1>3 DEF LeftOf
  <2> QED BY <1>1, <1>2, <2>1 DEF ArchiveInv
<1> QED BY <1>1, <1>4 DEF ReleaseInv, ExportsInv

LEMMA VerifyKeeps ==
  ASSUME ReleaseInv, Verify
  PROVE  ReleaseInv'
<1>1. /\ UNCHANGED <<stored, exports, files, archive, built, recorded>> /\ archive # NoArchive
      /\ verdict' = run_verify_release(archive)
  BY DEF Verify
<1>2. /\ built # NoArchive /\ Sealed(built) /\ IsArchive(archive)
      /\ archive.manifest.root \in {built.manifest.root, {}}
  BY <1>1 DEF ReleaseInv, ArchiveInv
<1>3. ArchiveInv'
  BY <1>1, <1>2 DEF ArchiveInv
<1> QED BY <1>1, <1>3 DEF ReleaseInv, ExportsInv

\* Every step of export, release, damage and verification keeps the invariant.
THEOREM ReleaseInvStep == ReleaseInv /\ [ReleaseNext]_releaseVars => ReleaseInv'
<1>1. ReleaseInv /\ UNCHANGED releaseVars => ReleaseInv'
  BY DEF releaseVars, ReleaseInv, ArchiveInv, ExportsInv
<1> QED BY <1>1, AcceptExampleKeeps, ExportFormattedKeeps, BuildReleaseKeeps, DamageKeeps, VerifyKeeps
        DEF ReleaseNext

\* For any examples and however often an archive is damaged and packed again:
\* it verifies as it was built, and one that verifies has every file of the
\* release (verify_release, build_release_bundle).
THEOREM ReleasesVerifyExactly == ReleaseSpec => []VerifyIsExact
<1>1. ReleaseInv => VerifyIsExact
  <2> SUFFICES ASSUME ReleaseInv PROVE VerifyIsExact
    OBVIOUS
  <2>1. CASE verdict = None
    BY <2>1 DEF VerifyIsExact, None
  <2>2. CASE verdict # None
    <3>1. /\ Sealed(built) /\ archive.manifest.root \in {built.manifest.root, {}}
          /\ verdict = run_verify_release(archive)
      BY <2>2 DEF ReleaseInv, ArchiveInv
    <3>2. archive = built => verdict = "ok"
      BY <3>1 DEF Sealed
    <3>3. verdict = "ok" => \A p \in DOMAIN built.entries :
            p \in DOMAIN archive.entries /\ archive.entries[p] = built.entries[p]
      BY <3>1, VerifiedHasFiles
    <3> QED BY <3>2, <3>3 DEF VerifyIsExact
  <2> QED BY <2>1, <2>2
<1> QED BY <1>1, ReleaseInvInit, ReleaseInvStep, PTL DEF ReleaseSpec

\* What a row of a format that keeps the whole conversation says is what the
\* gate hashes (row_openai_chat, recompute_content_hash).
LEMMA RowHashes ==
  ASSUME NEW ex \in Examples, ex.topology # "preference",
         NEW format \in {"jsonl", "openai_chat", "trl_sft", "huggingface_layout"}
  PROVE  Texts(ex, format) = recompute_content_hash(ex)
<1> DEFINE l == ex.lists
           all == Contents(l.system) \o Contents(l.prompt) \o Contents(l.chosen)
<1>1. Texts(ex, format) = all
  BY DEF Texts, Systems
<1>2. CASE ex.topology # "evaluation"
  BY <1>1, <1>2 DEF recompute_content_hash
<1>3. CASE ex.topology = "evaluation"
  <2>1. PICK o \in Offers : ex = _candidate_to_example(o.made, o.project, o.split, o.line)
    BY DEF Examples
  <2>2. o.made.topology = "evaluation"
    BY <1>3, <2>1 DEF _candidate_to_example
  <2>3. PICK q, a : q = o.made.messages[1] /\ a = o.made.messages[2]
    OBVIOUS
  <2>4. l.system = <<>> /\ l.prompt = <<q>> /\ l.chosen = <<a>>
    BY <2>1, <2>2, <2>3 DEF _candidate_to_example
  <2>5. Contents(<<>>) = <<>> /\ Contents(<<q>>) = <<q.content>> /\ Contents(<<a>>) = <<a.content>>
    <3>1. Contents(<<>>) = <<>>
      BY DEF Contents
    <3>2. \A z : Contents(<<z>>) = <<z.content>>
      BY DEF Contents
    <3> QED BY <3>1, <3>2
  <2>6. all = <<q.content, a.content>>
    <3>1. \A c, d : (<<>> \o <<c>>) \o <<d>> = <<c, d>>
      <4> SUFFICES ASSUME NEW c, NEW d PROVE (<<>> \o <<c>>) \o <<d>> = <<c, d>>
        OBVIOUS
      <4>1. <<>> \in Seq({c, d}) /\ <<c>> \in Seq({c, d}) /\ <<d>> \in Seq({c, d})
        OBVIOUS
      <4>2. <<>> \o <<c>> = <<c>>
        BY <4>1
      <4>3. <<c>> \o <<d>> = <<c, d>>
        <5> DEFINE both == <<c>> \o <<d>>
        <5>1. both \in Seq({c, d}) /\ Len(both) = 2
          BY <4>1
        <5>2. both[1] = c
          BY <4>1
        <5>3. both[2] = d
          BY <4>1
        <5> HIDE DEF both
        <5>4. both = <<c, d>>
          BY <5>1, <5>2, <5>3
        <5> QED BY <5>4 DEF both
      <4> QED BY <4>2, <4>3
    <3>2. all = (<<>> \o <<q.content>>) \o <<a.content>>
      BY <2>4, <2>5
    <3> QED BY <3>1, <3>2
  <2>7. recompute_content_hash(ex) = <<q.content, a.content>>
    BY <1>3, <2>4 DEF recompute_content_hash
  <2> QED BY <1>1, <2>6, <2>7
<1> QED BY <1>2, <1>3

\* For any candidates, formats and lineage: a row of such a format, of any
\* topology but preference, can be checked against the hash it carries.
THEOREM RowsCanBeChecked == ReleaseSpec => []RowsAreVerifiable
<1>1. ReleaseInv => RowsAreVerifiable
  <2> SUFFICES ASSUME ReleaseInv, NEW x \in exports, NEW i \in DOMAIN x.artifact,
                      x.format \in {"jsonl", "openai_chat", "trl_sft", "huggingface_layout"},
                      x.examples[i].topology # "preference"
               PROVE  x.artifact[i].texts = x.artifact[i].from.content_hash
    BY DEF RowsAreVerifiable
  <2>1. ExportOK(x)
    BY DEF ReleaseInv, ExportsInv
  <2>2. i \in DOMAIN x.examples /\ x.artifact[i] = example_row_for(x.examples[i], x.format)
    BY <2>1 DEF ExportOK, export_format
  <2>3. PICK ex \in Examples : ex = x.examples[i]
    BY <2>1, <2>2 DEF ExportOK
  <2>4. x.artifact[i].texts = Texts(ex, x.format) /\ x.artifact[i].from.content_hash = ex.content_hash
    BY <2>2, <2>3 DEF example_row_for, _provenance
  <2>5. recompute_content_hash(ex) = ex.content_hash
    BY <2>1, <2>2, <2>3 DEF ExportOK, verify_provenance_before_export
  <2>6. Texts(ex, x.format) = recompute_content_hash(ex)
    BY <2>3, RowHashes
  <2> QED BY <2>4, <2>5, <2>6
<1> QED BY <1>1, ReleaseInvInit, ReleaseInvStep, PTL DEF ReleaseSpec

-----------------------------------------------------------------------------
(* Sums *)

\* Induction over the subsets of a finite set, for a set of subsets: a smallest
\* subset that is not in it would lack what all smaller ones have.
LEMMA SubsetInduction ==
  ASSUME NEW S, IsFiniteSet(S), NEW G, {} \in G,
         \A T \in SUBSET S : T # {} /\ (\A x \in T : T \ {x} \in G) => T \in G
  PROVE  SUBSET S \subseteq G
<1> DEFINE Bad == {T \in SUBSET S : T \notin G}
<1> SUFFICES ASSUME Bad # {} PROVE FALSE
  OBVIOUS
<1>1. Bad \subseteq FiniteSubsetsOf(S)
  BY FS_Subset DEF FiniteSubsetsOf
<1>2. PICK U \in Bad : \A V \in Bad : ~ (<<V, U>> \in StrictSubsetOrdering(S))
  <2> HIDE DEF Bad
  <2> QED BY <1>1, FS_StrictSubsetOrderingWellFounded, WFMin
<1>3. ASSUME NEW x \in U PROVE U \ {x} \in G
  <2>1. U \ {x} \in SUBSET S /\ U \ {x} \subseteq U /\ U \ {x} # U /\ U \in SUBSET S
    OBVIOUS
  <2>2. <<U \ {x}, U>> \in StrictSubsetOrdering(S)
    BY <2>1 DEF StrictSubsetOrdering
  <2> QED BY <1>2, <2>1, <2>2
<1> QED BY <1>2, <1>3

\* g[T] is the sum of f over T, for every subset T of S.
Adds(g, f, S) ==
  /\ g \in [SUBSET S -> Nat] /\ g[{}] = 0
  /\ \A T \in SUBSET S : \A x \in T : g[T] = f[x] + g[T \ {x}]

Parts(f, T) == UNION {{x} \X (1 .. f[x]) : x \in T}

\* There is such a g: it counts the units of the numbers.
LEMMA AddsExists ==
  ASSUME NEW S, IsFiniteSet(S), NEW f, \A x \in S : f[x] \in Nat
  PROVE  \E g : Adds(g, f, S)
<1> DEFINE g == [T \in SUBSET S |-> Cardinality(Parts(f, T))]
<1>1. ASSUME NEW T \in SUBSET S, NEW x \in T
      PROVE  /\ Parts(f, T) = Parts(f, T \ {x}) \cup ({x} \X (1 .. f[x]))
             /\ Parts(f, T \ {x}) \cap ({x} \X (1 .. f[x])) = {}
  BY DEF Parts
<1>2. \A T \in SUBSET S : IsFiniteSet(Parts(f, T))
  <2> DEFINE G == {T \in SUBSET S : IsFiniteSet(Parts(f, T))}
  <2>1. {} \in G
    <3>1. Parts(f, {}) = {}
      BY DEF Parts
    <3> QED BY <3>1, FS_EmptySet
  <2>2. ASSUME NEW T \in SUBSET S, T # {}, \A x \in T : T \ {x} \in G PROVE T \in G
    <3>1. PICK x \in T : TRUE
      BY <2>2
    <3>2. IsFiniteSet({x}) /\ IsFiniteSet(1 .. f[x])
      <4>1. f[x] \in Int /\ 1 \in Int
        BY <3>1
      <4> QED BY <4>1, FS_Singleton, FS_Interval
    <3>3. IsFiniteSet({x} \X (1 .. f[x]))
      <4> HIDE DEF G
      <4> QED BY <3>2, FS_Product
    <3>4. IsFiniteSet(Parts(f, T \ {x}))
      BY <2>2, <3>1
    <3>5. IsFiniteSet(Parts(f, T \ {x}) \cup ({x} \X (1 .. f[x])))
      <4> HIDE DEF G
      <4> QED BY <3>3, <3>4, FS_Union
    <3> QED BY <1>1, <3>1, <3>5
  <2> HIDE DEF G
  <2>3. SUBSET S \subseteq G
    BY <2>1, <2>2, SubsetInduction
  <2> QED BY <2>3 DEF G
<1>3. ASSUME NEW T \in SUBSET S, NEW x \in T
      PROVE  Cardinality(Parts(f, T)) = f[x] + Cardinality(Parts(f, T \ {x}))
  <2>1. f[x] \in Nat /\ IsFiniteSet({x}) /\ Cardinality({x}) = 1
    BY FS_Singleton
  <2>2. IsFiniteSet(1 .. f[x]) /\ Cardinality(1 .. f[x]) = f[x]
    BY <2>1, FS_Interval
  <2>3. IsFiniteSet({x} \X (1 .. f[x])) /\ Cardinality({x} \X (1 .. f[x])) = 1 * f[x]
    BY <2>1, <2>2, FS_Product
  <2>4. IsFiniteSet(Parts(f, T \ {x})) /\ Cardinality(Parts(f, T \ {x})) \in Nat
    BY <1>2, FS_CardinalityType
  <2>5. Cardinality(Parts(f, T)) = Cardinality(Parts(f, T \ {x})) + Cardinality({x} \X (1 .. f[x]))
                                     - Cardinality({})
    BY <1>1, <2>3, <2>4, FS_Union
  <2> QED BY <2>1, <2>3, <2>4, <2>5, FS_EmptySet
<1>4. Parts(f, {}) = {}
  BY DEF Parts
<1>5. g \in [SUBSET S -> Nat] /\ g[{}] = 0
  BY <1>2, <1>4, FS_CardinalityType, FS_EmptySet
<1>6. Adds(g, f, S)
  BY <1>3, <1>5 DEF Adds
<1> QED BY <1>6

\* It is what the fold computes, whatever order it takes.
LEMMA SumAdds ==
  ASSUME NEW S, IsFiniteSet(S), NEW f, \A x \in S : f[x] \in Nat
  PROVE  \E g : Adds(g, f, S) /\ SumFunctionOnSet(f, S) = g[S]
<1>1. PICK g : Adds(g, f, S)
  BY AddsExists
<1> DEFINE Rec(h) == h = [T \in SUBSET S |->
               IF T = {} THEN 0 ELSE f[CHOOSE x \in T : TRUE] + h[T \ {CHOOSE x \in T : TRUE}]]
           h == CHOOSE k : Rec(k)
<1>2. Rec(g)
  <2>1. \A T \in SUBSET S : T # {} => (CHOOSE x \in T : TRUE) \in T
    OBVIOUS
  <2>2. \A T \in SUBSET S :
          g[T] = IF T = {} THEN 0 ELSE f[CHOOSE x \in T : TRUE] + g[T \ {CHOOSE x \in T : TRUE}]
    BY <1>1, <2>1 DEF Adds
  <2> QED BY <1>1, <2>2 DEF Adds
<1>3. Rec(h)
  <2> HIDE DEF Rec
  <2> QED BY <1>2
<1>4. SumFunctionOnSet(f, S) = h[S]
  BY DEF SumFunctionOnSet, FoldFunctionOnSet, MapThenFoldSet
<1> HIDE DEF h
<1> DEFINE G == {T \in SUBSET S : h[T] = g[T]}
<1>5. {} \in G
  BY <1>1, <1>3 DEF Adds
<1>6. ASSUME NEW T \in SUBSET S, T # {}, \A x \in T : T \ {x} \in G PROVE T \in G
  <2>1. PICK x \in T : x = CHOOSE y \in T : TRUE
    BY <1>6
  <2>2. h[T] = f[x] + h[T \ {x}]
    BY <1>3, <1>6, <2>1
  <2>3. g[T] = f[x] + g[T \ {x}] /\ h[T \ {x}] = g[T \ {x}]
    BY <1>1, <1>6 DEF Adds
  <2> QED BY <2>2, <2>3
<1>7. S \in G
  <2> HIDE DEF G
  <2> QED BY <1>5, <1>6, SubsetInduction
<1> QED BY <1>1, <1>4, <1>7

\* Sums are linear.
LEMMA AddsLinear ==
  ASSUME NEW S, IsFiniteSet(S), NEW a \in Nat, NEW b \in Nat,
         NEW w, NEW p, NEW q, NEW W, NEW P, NEW Q, Adds(W, w, S), Adds(P, p, S), Adds(Q, q, S),
         \A x \in S : w[x] \in Nat /\ p[x] \in Nat /\ q[x] \in Nat /\ a * w[x] = b * p[x] + q[x]
  PROVE  a * W[S] = b * P[S] + Q[S]
<1> DEFINE G == {T \in SUBSET S : a * W[T] = b * P[T] + Q[T]}
<1>1. {} \in G
  BY DEF Adds
<1>2. ASSUME NEW T \in SUBSET S, T # {}, \A x \in T : T \ {x} \in G PROVE T \in G
  <2>1. PICK x \in T : TRUE
    BY <1>2
  <2>2. PICK U \in SUBSET S : U = T \ {x}
    OBVIOUS
  <2>3. W[T] = w[x] + W[U] /\ P[T] = p[x] + P[U] /\ Q[T] = q[x] + Q[U]
    BY <2>2 DEF Adds
  <2>4. /\ w[x] \in Nat /\ p[x] \in Nat /\ q[x] \in Nat
        /\ W[U] \in Nat /\ P[U] \in Nat /\ Q[U] \in Nat
    BY DEF Adds
  <2>5. a * W[U] = b * P[U] + Q[U] /\ a * w[x] = b * p[x] + q[x]
    BY <1>2, <2>2
  <2>6. a * (w[x] + W[U]) = a * w[x] + a * W[U] /\ b * (p[x] + P[U]) = b * p[x] + b * P[U]
    BY <2>4
  <2>7. /\ a * w[x] \in Nat /\ a * W[U] \in Nat /\ b * p[x] \in Nat /\ b * P[U] \in Nat
    BY <2>4
  <2> HIDE DEF G
  <2>8. a * W[T] = b * P[T] + Q[T]
    BY <2>3, <2>4, <2>5, <2>6, <2>7
  <2> QED BY <2>8 DEF G
<1>3. S \in G
  <2> HIDE DEF G
  <2> QED BY <1>1, <1>2, SubsetInduction
<1> QED BY <1>3

\* Only what is positive counts in a sum.
LEMMA AddsPositive ==
  ASSUME NEW S, IsFiniteSet(S), NEW f, NEW g, Adds(g, f, S), \A x \in S : f[x] \in Nat
  PROVE  g[S] = g[{x \in S : f[x] > 0}]
<1> DEFINE P == {x \in S : f[x] > 0}
           G == {T \in SUBSET S : g[T] = g[T \cap P]}
<1>1. {} \in G
  <2>1. {} \cap P = {}
    OBVIOUS
  <2> QED BY <2>1
<1>2. ASSUME NEW T \in SUBSET S, T # {}, \A x \in T : T \ {x} \in G PROVE T \in G
  <2>1. PICK x \in T : TRUE
    BY <1>2
  <2>2. g[T] = f[x] + g[T \ {x}] /\ g[T \ {x}] = g[(T \ {x}) \cap P]
    BY <1>2 DEF Adds
  <2>3. g[(T \ {x}) \cap P] \in Nat
    BY DEF Adds
  <2>4. CASE x \in P
    <3>1. x \in T \cap P /\ (T \cap P) \ {x} = (T \ {x}) \cap P
      BY <2>4
    <3>2. g[T \cap P] = f[x] + g[(T \cap P) \ {x}]
      <4> HIDE DEF P
      <4> QED BY <3>1 DEF Adds
    <3> QED BY <2>2, <3>1, <3>2
  <2>5. CASE x \notin P
    <3>1. f[x] = 0 /\ T \cap P = (T \ {x}) \cap P
      BY <2>5
    <3>2. g[T] = g[T \cap P]
      <4>1. g[T \cap P] = g[(T \ {x}) \cap P]
        BY <3>1
      <4>2. PICK n \in Nat : n = g[(T \ {x}) \cap P]
        BY <2>3
      <4>3. g[T] = 0 + n
        BY <2>2, <3>1, <4>2
      <4> HIDE DEF P, G
      <4> QED BY <4>1, <4>2, <4>3
    <3> QED BY <3>2
  <2> QED BY <2>4, <2>5
<1>3. S \in G
  <2> HIDE DEF G
  <2> QED BY <1>1, <1>2, SubsetInduction
<1>4. S \cap P = P
  OBVIOUS
<1> QED BY <1>3, <1>4

\* The sum over a subset is the same in whichever set it is taken.
LEMMA AddsSub ==
  ASSUME NEW S, IsFiniteSet(S), NEW f, NEW g, Adds(g, f, S), NEW T \in SUBSET S,
         NEW k, NEW h, Adds(h, k, T), \A x \in T : f[x] = k[x]
  PROVE  h[T] = g[T]
<1> DEFINE G == {U \in SUBSET T : h[U] = g[U]}
<1>1. {} \in G
  BY DEF Adds
<1>2. ASSUME NEW U \in SUBSET T, U # {}, \A x \in U : U \ {x} \in G PROVE U \in G
  <2>1. PICK x \in U : TRUE
    BY <1>2
  <2>2. U \in SUBSET S /\ x \in T
    OBVIOUS
  <2>3. g[U] = f[x] + g[U \ {x}] /\ h[U] = k[x] + h[U \ {x}]
    BY <2>2 DEF Adds
  <2> QED BY <1>2, <2>2, <2>3
<1>3. IsFiniteSet(T)
  BY FS_Subset
<1>4. T \in G
  <2> HIDE DEF G
  <2> QED BY <1>1, <1>2, <1>3, SubsetInduction
<1> QED BY <1>4

\* A sum of zeros and ones counts the ones.
LEMMA AddsCount ==
  ASSUME NEW S, IsFiniteSet(S), NEW f, NEW g, Adds(g, f, S), \A x \in S : f[x] \in {0, 1}
  PROVE  g[S] = Cardinality({x \in S : f[x] = 1})
<1> DEFINE M(T) == {x \in T : f[x] = 1}
           G == {T \in SUBSET S : g[T] = Cardinality(M(T))}
<1>1. {} \in G
  <2>1. M({}) = {}
    OBVIOUS
  <2> QED BY <2>1, FS_EmptySet DEF Adds
<1>2. ASSUME NEW T \in SUBSET S, T # {}, \A x \in T : T \ {x} \in G PROVE T \in G
  <2>1. PICK x \in T : TRUE
    BY <1>2
  <2>2. g[T] = f[x] + g[T \ {x}] /\ g[T \ {x}] = Cardinality(M(T \ {x}))
    BY <1>2 DEF Adds
  <2>3. IsFiniteSet(M(T)) /\ Cardinality(M(T)) \in Nat
    BY FS_Subset, FS_CardinalityType
  <2>4. Cardinality(M(T) \ {x}) = IF x \in M(T) THEN Cardinality(M(T)) - 1 ELSE Cardinality(M(T))
    <3> HIDE DEF M
    <3> QED BY <2>3, FS_RemoveElement
  <2>5. M(T \ {x}) = M(T) \ {x}
    OBVIOUS
  <2>6. CASE f[x] = 1
    <3>1. x \in M(T)
      BY <2>6
    <3> HIDE DEF M
    <3>2. g[T] = 1 + (Cardinality(M(T)) - 1)
      BY <2>2, <2>4, <2>5, <2>6, <3>1
    <3> QED BY <2>3, <3>2
  <2>7. CASE f[x] = 0
    <3>1. x \notin M(T)
      BY <2>7
    <3> HIDE DEF M
    <3>2. g[T] = 0 + Cardinality(M(T))
      BY <2>2, <2>4, <2>5, <2>7, <3>1
    <3> QED BY <2>3, <3>2
  <2> QED BY <2>6, <2>7
<1>3. S \in G
  <2> HIDE DEF G
  <2> QED BY <1>1, <1>2, SubsetInduction
<1> QED BY <1>3

\* Numbers that are all below b add up to less than b for each of them.
LEMMA AddsBelow ==
  ASSUME NEW S, IsFiniteSet(S), NEW f, NEW g, Adds(g, f, S), NEW b \in Nat,
         \A x \in S : f[x] \in Nat /\ f[x] < b
  PROVE  g[S] + Cardinality(S) <= b * Cardinality(S)
<1> DEFINE G == {T \in SUBSET S : g[T] + Cardinality(T) <= b * Cardinality(T)}
<1>1. {} \in G
  BY FS_EmptySet DEF Adds
<1>2. ASSUME NEW T \in SUBSET S, T # {}, \A x \in T : T \ {x} \in G PROVE T \in G
  <2>1. PICK x \in T : TRUE
    BY <1>2
  <2>2. g[T] = f[x] + g[T \ {x}] /\ g[T \ {x}] \in Nat /\ f[x] \in Nat /\ f[x] + 1 <= b
    BY DEF Adds
  <2>3. IsFiniteSet(T)
    BY FS_Subset
  <2>4. /\ Cardinality(T) \in Nat /\ Cardinality(T \ {x}) \in Nat
        /\ Cardinality(T \ {x}) = Cardinality(T) - 1
    BY <2>3, FS_RemoveElement, FS_CardinalityType
  <2>5. PICK n \in Nat : n = Cardinality(T \ {x}) /\ Cardinality(T) = n + 1
    BY <2>4
  <2>6. g[T \ {x}] + n <= b * n
    BY <1>2, <2>5
  <2>7. b * (n + 1) = b * n + b /\ b * n \in Nat
    OBVIOUS
  <2>8. g[T] + (n + 1) <= b * (n + 1)
    BY <2>2, <2>6, <2>7
  <2> QED BY <2>5, <2>8
<1>3. S \in G
  <2> HIDE DEF G
  <2> QED BY <1>1, <1>2, SubsetInduction
<1> QED BY <1>3

\* The sum over two disjoint sets is the sum of the sums.
LEMMA AddsSplit ==
  ASSUME NEW S, IsFiniteSet(S), NEW f, NEW g, Adds(g, f, S), \A x \in S : f[x] \in Nat,
         NEW T \in SUBSET S, NEW U \in SUBSET S, T \cap U = {}
  PROVE  g[T \cup U] = g[T] + g[U]
<1> DEFINE G == {V \in SUBSET U : g[T \cup V] = g[T] + g[V]}
<1>1. {} \in G
  <2>1. T \cup {} = T /\ g[T] \in Nat /\ g[{}] = 0
    BY DEF Adds
  <2> QED BY <2>1
<1>2. ASSUME NEW V \in SUBSET U, V # {}, \A x \in V : V \ {x} \in G PROVE V \in G
  <2>1. PICK x \in V : TRUE
    BY <1>2
  <2>2. g[V] = f[x] + g[V \ {x}] /\ g[T \cup V] = f[x] + g[(T \cup V) \ {x}]
    BY DEF Adds
  <2>3. (T \cup V) \ {x} = T \cup (V \ {x})
    OBVIOUS
  <2>4. g[T \cup (V \ {x})] = g[T] + g[V \ {x}]
    BY <1>2
  <2>5. g[T] \in Nat /\ g[V \ {x}] \in Nat /\ f[x] \in Nat
    BY DEF Adds
  <2>6. PICK m \in Nat, n \in Nat, e \in Nat : m = g[T] /\ n = g[V \ {x}] /\ e = f[x]
    BY <2>5
  <2>7. g[T \cup V] = e + (m + n) /\ g[V] = e + n
    BY <2>2, <2>3, <2>4, <2>6
  <2>8. g[T \cup V] = g[T] + g[V]
    <3> HIDE DEF G
    <3> QED BY <2>6, <2>7
  <2> QED BY <2>8
<1>3. IsFiniteSet(U)
  BY FS_Subset
<1>4. U \in G
  <2> HIDE DEF G
  <2> QED BY <1>1, <1>2, <1>3, SubsetInduction
<1> QED BY <1>4

\* A box of finite sides is finite.
LEMMA BoxFinite ==
  ASSUME NEW A, NEW B, NEW C, IsFiniteSet(A), IsFiniteSet(B), IsFiniteSet(C)
  PROVE  IsFiniteSet(A \X B \X C)
<1>1. IsFiniteSet((A \X B) \X C)
  BY FS_Product
<1> DEFINE f == [p \in (A \X B) \X C |-> <<p[1][1], p[1][2], p[2]>>]
<1>2. f \in Surjection((A \X B) \X C, A \X B \X C)
  <2>1. f \in [(A \X B) \X C -> A \X B \X C]
    OBVIOUS
  <2>2. ASSUME NEW t \in A \X B \X C PROVE \E p \in (A \X B) \X C : f[p] = t
    <3>1. <<<<t[1], t[2]>>, t[3]>> \in (A \X B) \X C /\ f[<<<<t[1], t[2]>>, t[3]>>] = t
      OBVIOUS
    <3> QED BY <3>1
  <2> QED BY <2>1, <2>2 DEF Surjection
<1> QED BY <1>1, <1>2, FS_Surjection

\* The products over a box add up to the product of the sums over its sides.
LEMMA AddsBox ==
  ASSUME NEW A, NEW B, NEW C, IsFiniteSet(A), IsFiniteSet(B), IsFiniteSet(C),
         NEW a, NEW b, NEW c,
         \A x \in A : a[x] \in Nat, \A x \in B : b[x] \in Nat, \A x \in C : c[x] \in Nat,
         NEW F, NEW H, NEW K, Adds(F, a, A), Adds(H, b, B), Adds(K, c, C),
         NEW w, NEW g, Adds(g, w, A \X B \X C),
         \A x \in A, y \in B, z \in C : w[<<x, y, z>>] = a[x] * b[y] * c[z]
  PROVE  g[A \X B \X C] = F[A] * H[B] * K[C]
<1> DEFINE S == A \X B \X C
<1>1. IsFiniteSet(S) /\ \A s \in S : w[s] \in Nat
  BY BoxFinite
<1>2. /\ \A T \in SUBSET A : F[T] \in Nat
      /\ \A T \in SUBSET B : H[T] \in Nat
      /\ \A T \in SUBSET C : K[T] \in Nat
      /\ g \in [SUBSET S -> Nat] /\ g[{}] = 0
  BY DEF Adds
<1>3. ASSUME NEW x \in A, NEW y \in B
      PROVE  g[{x} \X {y} \X C] = a[x] * b[y] * K[C]
  <2> DEFINE G == {V \in SUBSET C : g[{x} \X {y} \X V] = a[x] * b[y] * K[V]}
  <2>1. {} \in G
    <3>1. {x} \X {y} \X {} = {}
      OBVIOUS
    <3>2. PICK m \in Nat : m = a[x] * b[y]
      OBVIOUS
    <3>3. K[{}] = 0 /\ m * 0 = 0
      BY DEF Adds
    <3>4. g[{x} \X {y} \X {}] = a[x] * b[y] * K[{}]
      <4> HIDE DEF G
      <4> QED BY <1>2, <3>1, <3>2, <3>3
    <3> QED BY <3>4
  <2>2. ASSUME NEW V \in SUBSET C, V # {}, \A z \in V : V \ {z} \in G PROVE V \in G
    <3>1. PICK z \in V : TRUE
      BY <2>2
    <3>2. /\ ({x} \X {y} \X V) \ {<<x, y, z>>} = {x} \X {y} \X (V \ {z})
          /\ <<x, y, z>> \in {x} \X {y} \X V /\ {x} \X {y} \X V \in SUBSET S
      OBVIOUS
    <3>3. g[{x} \X {y} \X V] = a[x] * b[y] * c[z] + g[{x} \X {y} \X (V \ {z})]
      <4> HIDE DEF G
      <4>1. g[{x} \X {y} \X V] = w[<<x, y, z>>] + g[({x} \X {y} \X V) \ {<<x, y, z>>}]
        BY <3>2 DEF Adds
      <4>2. w[<<x, y, z>>] = a[x] * b[y] * c[z]
        OBVIOUS
      <4>3. g[({x} \X {y} \X V) \ {<<x, y, z>>}] = g[{x} \X {y} \X (V \ {z})]
        BY <3>2
      <4> QED BY <4>1, <4>2, <4>3
    <3>4. g[{x} \X {y} \X (V \ {z})] = a[x] * b[y] * K[V \ {z}] /\ K[V] = c[z] + K[V \ {z}]
      BY <2>2 DEF Adds
    <3>5. PICK m \in Nat, k \in Nat, e \in Nat : m = a[x] * b[y] /\ k = K[V \ {z}] /\ e = c[z]
      BY <1>2
    <3>6. m * (e + k) = m * e + m * k
      OBVIOUS
    <3>7. g[{x} \X {y} \X V] = a[x] * b[y] * K[V]
      <4> HIDE DEF G
      <4> QED BY <3>3, <3>4, <3>5, <3>6
    <3> QED BY <3>7
  <2>3. C \in G
    <3> HIDE DEF G
    <3> QED BY <2>1, <2>2, SubsetInduction
  <2> QED BY <2>3
<1>4. ASSUME NEW x \in A PROVE g[{x} \X B \X C] = a[x] * H[B] * K[C]
  <2> DEFINE G == {V \in SUBSET B : g[{x} \X V \X C] = a[x] * H[V] * K[C]}
  <2>1. {} \in G
    <3>1. {x} \X {} \X C = {}
      OBVIOUS
    <3>2. H[{}] = 0 /\ a[x] * 0 = 0 /\ 0 * K[C] = 0
      BY <1>2 DEF Adds
    <3> QED BY <1>2, <3>1, <3>2
  <2>2. ASSUME NEW V \in SUBSET B, V # {}, \A y \in V : V \ {y} \in G PROVE V \in G
    <3>1. PICK y \in V : TRUE
      BY <2>2
    <3> DEFINE P == {x} \X (V \ {y}) \X C
               Q == {x} \X {y} \X C
    <3>2. P \cup Q = {x} \X V \X C /\ P \cap Q = {} /\ P \in SUBSET S /\ Q \in SUBSET S
      OBVIOUS
    <3>3. g[P \cup Q] = g[P] + g[Q]
      <4>1. Adds(g, w, S)
        OBVIOUS
      <4> HIDE DEF G, P, Q, S
      <4> QED BY <1>1, <3>2, <4>1, AddsSplit
    <3>4. g[P] = a[x] * H[V \ {y}] * K[C] /\ g[Q] = a[x] * b[y] * K[C] /\ H[V] = b[y] + H[V \ {y}]
      BY <1>3, <2>2 DEF Adds
    <3>5. PICK m \in Nat, k \in Nat, h \in Nat, e \in Nat :
                m = a[x] /\ k = K[C] /\ h = H[V \ {y}] /\ e = b[y]
      BY <1>2
    <3>6. m * h * k + m * e * k = m * (e + h) * k
      OBVIOUS
    <3>7. g[{x} \X V \X C] = a[x] * H[V] * K[C]
      <4> HIDE DEF G, P, Q
      <4> QED BY <3>2, <3>3, <3>4, <3>5, <3>6
    <3> QED BY <3>7
  <2>3. B \in G
    <3> HIDE DEF G
    <3> QED BY <2>1, <2>2, SubsetInduction
  <2> QED BY <2>3
<1> DEFINE G == {V \in SUBSET A : g[V \X B \X C] = F[V] * H[B] * K[C]}
<1>5. {} \in G
  <2>1. {} \X B \X C = {}
    OBVIOUS
  <2>2. F[{}] = 0 /\ 0 * H[B] = 0 /\ 0 * K[C] = 0
    BY <1>2 DEF Adds
  <2> QED BY <1>2, <2>1, <2>2
<1>6. ASSUME NEW V \in SUBSET A, V # {}, \A x \in V : V \ {x} \in G PROVE V \in G
  <2>1. PICK x \in V : TRUE
    BY <1>6
  <2> DEFINE P == (V \ {x}) \X B \X C
             Q == {x} \X B \X C
  <2>2. P \cup Q = V \X B \X C /\ P \cap Q = {} /\ P \in SUBSET S /\ Q \in SUBSET S
    OBVIOUS
  <2>3. g[P \cup Q] = g[P] + g[Q]
    <3>1. Adds(g, w, S)
      OBVIOUS
    <3> HIDE DEF G, P, Q, S
    <3> QED BY <1>1, <2>2, <3>1, AddsSplit
  <2>4. g[P] = F[V \ {x}] * H[B] * K[C] /\ g[Q] = a[x] * H[B] * K[C] /\ F[V] = a[x] + F[V \ {x}]
    BY <1>4, <1>6 DEF Adds
  <2>5. PICK m \in Nat, k \in Nat, h \in Nat, e \in Nat :
              m = H[B] /\ k = K[C] /\ h = F[V \ {x}] /\ e = a[x]
    BY <1>2
  <2>6. h * m * k + e * m * k = (e + h) * m * k
    OBVIOUS
  <2>7. g[V \X B \X C] = F[V] * H[B] * K[C]
    <3> HIDE DEF G, P, Q
    <3> QED BY <2>2, <2>3, <2>4, <2>5, <2>6
  <2> QED BY <2>7
<1>7. A \in G
  <2> HIDE DEF G
  <2> QED BY <1>5, <1>6, SubsetInduction
<1> QED BY <1>7

\* In a finite set in strict order, exactly k elements have fewer than k before
\* them, unless there are not as many.
LEMMA Ranks ==
  ASSUME NEW S, IsFiniteSet(S), NEW B, B \in [S -> SUBSET S],
         \A x \in S : x \notin B[x],
         \A x, y \in S : x # y => x \in B[y] \/ y \in B[x],
         \A x, y, z \in S : x \in B[y] /\ y \in B[z] => x \in B[z],
         NEW k \in 0 .. Cardinality(S)
  PROVE  Cardinality({x \in S : Cardinality(B[x]) < k}) = k
<1> DEFINE n == Cardinality(S)
           N == 0 .. n - 1
           r == [x \in S |-> Cardinality(B[x])]
<1>1. n \in Nat
  BY FS_CardinalityType
<1>2. ASSUME NEW x \in S PROVE IsFiniteSet(B[x]) /\ Cardinality(B[x]) \in Nat
  BY FS_Subset, FS_CardinalityType
<1>3. ASSUME NEW x \in S, NEW T \in SUBSET S, B[x] \subseteq T, \E y \in T : y \notin B[x]
      PROVE  Cardinality(B[x]) < Cardinality(T)
  <2>1. IsFiniteSet(T) /\ Cardinality(T) \in Nat
    BY FS_Subset, FS_CardinalityType
  <2>2. Cardinality(B[x]) <= Cardinality(T) /\ (Cardinality(T) = Cardinality(B[x]) => T = B[x])
    BY <1>3, <2>1, FS_Subset
  <2> QED BY <1>2, <1>3, <2>1, <2>2
<1>4. r \in [S -> N]
  <2>1. ASSUME NEW x \in S PROVE Cardinality(B[x]) \in N
    BY <1>1, <1>2, <1>3
  <2> QED BY <2>1
<1>5. \A x, y \in S : r[x] = r[y] => x = y
  <2>1. ASSUME NEW x \in S, NEW y \in S, x \in B[y] PROVE r[x] < r[y]
    <3>1. B[x] \subseteq B[y] /\ x \in B[y] /\ x \notin B[x] /\ B[y] \in SUBSET S
      BY <2>1
    <3> QED BY <1>3, <3>1
  <2>2. \A x \in S : r[x] \in Nat
    BY <1>2
  <2> HIDE DEF r
  <2> QED BY <2>1, <2>2
<1>6. r \in Injection(S, N)
  BY <1>4, <1>5 DEF Injection, IsInjective
<1>7. IsFiniteSet(N) /\ Cardinality(N) = n
  <2>1. /\ 0 \in Int /\ n - 1 \in Int /\ n - 1 - 0 + 1 = n
        /\ (n = 0 => 0 > n - 1) /\ (n # 0 => ~ (0 > n - 1))
    BY <1>1
  <2>2. IsFiniteSet(0 .. n - 1) /\ Cardinality(0 .. n - 1) = IF 0 > n - 1 THEN 0 ELSE n - 1 - 0 + 1
    <3> HIDE DEF n
    <3> QED BY <2>1, FS_Interval
  <2> QED BY <2>1, <2>2
<1>8. r \in Surjection(S, N)
  <2> HIDE DEF r, N
  <2> QED BY <1>6, <1>7, FS_Injection
<1> DEFINE M == {x \in S : r[x] < k}
           q == [x \in M |-> r[x]]
<1>9. k \in Nat /\ k <= n
  BY <1>1
<1>10. q \in Bijection(M, 0 .. k - 1)
  <2>1. \A x \in M : r[x] \in 0 .. k - 1
    BY <1>2
  <2>2. q \in [M -> 0 .. k - 1]
    <3> HIDE DEF r
    <3> QED BY <2>1
  <2>3. \A x, y \in M : q[x] = q[y] => x = y
    <3> HIDE DEF r
    <3> QED BY <1>5
  <2>4. ASSUME NEW i \in 0 .. k - 1 PROVE \E x \in M : q[x] = i
    <3>1. i \in N /\ i < k
      BY <1>1, <1>9
    <3> HIDE DEF r, N
    <3>2. PICK x \in S : r[x] = i
      BY <1>8, <3>1 DEF Surjection
    <3> QED BY <3>1, <3>2
  <2> HIDE DEF M, q
  <2> QED BY <2>2, <2>3, <2>4 DEF Bijection, Injection, IsInjective, Surjection
<1>11. IsFiniteSet(M) /\ Cardinality(M) \in Nat
  BY FS_Subset, FS_CardinalityType
<1>12. ExistsBijection(M, 0 .. k - 1)
  <2> HIDE DEF M, q
  <2> QED BY <1>10 DEF ExistsBijection
<1>13. Cardinality(0 .. k - 1) = Cardinality(M)
  <2> HIDE DEF M
  <2> QED BY <1>11, <1>12, FS_Bijection
<1>14. Cardinality(0 .. k - 1) = k
  BY <1>9, FS_Interval
<1> QED BY <1>13, <1>14

\* A positive factor does not change how two numbers compare.
LEMMA Cancels ==
  ASSUME NEW W \in Nat, W > 0, NEW a \in Int, NEW b \in Int, W * a <= W * b
  PROVE  a <= b
<1> SUFFICES ASSUME a > b PROVE FALSE
  OBVIOUS
<1>1. PICK m \in Nat : a = b + 1 + m
  <2>1. a - b - 1 \in Nat /\ a = b + 1 + (a - b - 1)
    OBVIOUS
  <2> QED BY <2>1
<1>2. W * a = W * b + W + W * m /\ W * b \in Int /\ W * m \in Nat
  BY <1>1
<1> QED BY <1>2

\* Largest remainders: of the shares b * w[x] / W of the elements of D, the
\* floors are given first, and what they leave goes to the first elements of an
\* order, before, that puts larger remainders first.
Apportioned(D, b, W, w, floor, rest, before, left, count) ==
  /\ IsFiniteSet(D) /\ D # {} /\ b \in Nat /\ W \in Nat /\ left \in Int
  /\ \A h : Adds(h, w, D) => h[D] = W
  /\ \A h : Adds(h, floor, D) => left = b - h[D]
  /\ \A x \in D : /\ w[x] \in Nat /\ w[x] > 0 /\ floor[x] \in Nat /\ rest[x] \in Nat
                   /\ b * w[x] = W * floor[x] + rest[x] /\ (W > 0 => rest[x] < W)
                   /\ count[x] = floor[x] + (IF Cardinality(before[x]) < left THEN 1 ELSE 0)
  /\ before \in [D -> SUBSET D] /\ \A x \in D : x \notin before[x]
  /\ \A x, y \in D : x # y => x \in before[y] \/ y \in before[x]
  /\ \A x, y, z \in D : x \in before[y] /\ y \in before[z] => x \in before[z]
  /\ \A x, y \in D : rest[y] > rest[x] => y \in before[x]

\* Then what is given adds up to b, and every share is missed by less than one.
LEMMA Apportions ==
  ASSUME NEW D, NEW b, NEW W, NEW w, NEW floor, NEW rest, NEW B, NEW left, NEW count,
         Apportioned(D, b, W, w, floor, rest, B, left, count)
  PROVE  /\ \A C : Adds(C, count, D) => C[D] = b
         /\ \A x \in D : /\ count[x] \in Nat
                         /\ count[x] * W > b * w[x] - W /\ count[x] * W < b * w[x] + W
<1> SUFFICES ASSUME
      IsFiniteSet(D), D # {}, b \in Nat, W \in Nat, left \in Int,
      \A h : Adds(h, w, D) => h[D] = W, \A h : Adds(h, floor, D) => left = b - h[D],
      \A x \in D : /\ w[x] \in Nat /\ w[x] > 0 /\ floor[x] \in Nat /\ rest[x] \in Nat
                   /\ b * w[x] = W * floor[x] + rest[x] /\ (W > 0 => rest[x] < W),
      \A x \in D : count[x] = floor[x] + (IF Cardinality(B[x]) < left THEN 1 ELSE 0),
      B \in [D -> SUBSET D], \A x \in D : x \notin B[x],
      \A x, y \in D : x # y => x \in B[y] \/ y \in B[x],
      \A x, y, z \in D : x \in B[y] /\ y \in B[z] => x \in B[z],
      \A x, y \in D : rest[y] > rest[x] => y \in B[x]
    PROVE
      /\ \A C : Adds(C, count, D) => C[D] = b
      /\ \A x \in D : /\ count[x] \in Nat
                      /\ count[x] * W > b * w[x] - W /\ count[x] * W < b * w[x] + W
  BY DEF Apportioned
<1>0. PICK F : Adds(F, floor, D) /\ left = b - F[D]
  BY AddsExists
<1> DEFINE P == {x \in D : rest[x] > 0}
           U == {x \in D : Cardinality(B[x]) < left}
<1>1. W > 0
  <2>1. PICK h : Adds(h, w, D)
    BY AddsExists
  <2>2. PICK x \in D : TRUE
    OBVIOUS
  <2>3. h[D] = w[x] + h[D \ {x}] /\ h[D \ {x}] \in Nat /\ h[D] = W
    BY <2>1 DEF Adds
  <2>4. w[x] \in Nat /\ w[x] > 0
    OBVIOUS
  <2> QED BY <2>3, <2>4
<1>2. PICK R : Adds(R, rest, D)
  BY AddsExists
<1>3. PICK V : Adds(V, w, D)
  BY AddsExists
<1>4. V[D] = W /\ F[D] \in Nat /\ R[D] \in Nat
  BY <1>0, <1>2, <1>3 DEF Adds
<1>5. b * W = W * F[D] + R[D]
  <2>1. b * V[D] = W * F[D] + R[D]
    <3>1. \A x \in D : /\ w[x] \in Nat /\ floor[x] \in Nat /\ rest[x] \in Nat
                       /\ b * w[x] = W * floor[x] + rest[x]
      OBVIOUS
    <3> QED BY <1>0, <1>2, <1>3, <3>1, AddsLinear
  <2> QED BY <1>4, <2>1
<1>6. R[D] = W * left
  <2>1. PICK f \in Nat : f = F[D]
    BY <1>4
  <2>2. W * left = W * b - W * f /\ W * b = b * W
    BY <1>0, <2>1
  <2> QED BY <1>4, <1>5, <2>1, <2>2
<1>7. IsFiniteSet(P) /\ P \in SUBSET D /\ Cardinality(P) \in Nat /\ Cardinality(P) <= Cardinality(D)
  <2>1. P \in SUBSET D
    OBVIOUS
  <2> HIDE DEF P
  <2> QED BY <2>1, FS_Subset, FS_CardinalityType
<1>8. R[D] + Cardinality(P) <= W * Cardinality(P)
  <2>1. R[D] = R[P]
    BY <1>2, AddsPositive
  <2>2. PICK h : Adds(h, rest, P)
    <3>1. \A x \in P : rest[x] \in Nat
      OBVIOUS
    <3> HIDE DEF P
    <3> QED BY <1>7, <3>1, AddsExists
  <2>3. h[P] = R[P]
    <3> HIDE DEF P
    <3> QED BY <1>2, <1>7, <2>2, AddsSub
  <2>4. h[P] + Cardinality(P) <= W * Cardinality(P)
    <3>1. \A x \in P : rest[x] \in Nat /\ rest[x] < W
      BY <1>1
    <3> HIDE DEF P
    <3> QED BY <1>7, <2>2, <3>1, AddsBelow
  <2> QED BY <2>1, <2>3, <2>4
<1>9. left \in Nat /\ left <= Cardinality(P) /\ left \in 0 .. Cardinality(D)
  <2>1. W * 0 <= W * left
    BY <1>4, <1>6
  <2>2. 0 <= left
    BY <1>1, <2>1, Cancels
  <2>3. W * left <= W * Cardinality(P)
    <3>1. PICK p \in Nat : p = Cardinality(P)
      BY <1>7
    <3> QED BY <1>4, <1>6, <1>8, <3>1
  <2>4. left <= Cardinality(P)
    <3>1. PICK p \in Nat : p = Cardinality(P)
      BY <1>7
    <3> QED BY <1>1, <2>3, <3>1, Cancels
  <2>5. Cardinality(D) \in Nat
    BY FS_CardinalityType
  <2> QED BY <1>7, <2>2, <2>4, <2>5
<1>10. Cardinality(U) = left
  <2>1. PICK k \in 0 .. Cardinality(D) : k = left
    BY <1>9
  <2>2. Cardinality({x \in D : Cardinality(B[x]) < k}) = k
    BY Ranks
  <2>3. U = {x \in D : Cardinality(B[x]) < k}
    BY <2>1
  <2> QED BY <2>1, <2>2, <2>3
<1>11. U \subseteq P
  <2> SUFFICES ASSUME NEW x \in U, x \notin P PROVE FALSE
    OBVIOUS
  <2>1. P \subseteq B[x] /\ B[x] \in SUBSET D
    OBVIOUS
  <2>2. IsFiniteSet(B[x]) /\ Cardinality(B[x]) \in Nat /\ Cardinality(P) <= Cardinality(B[x])
    <3> HIDE DEF P
    <3> QED BY <2>1, FS_Subset, FS_CardinalityType
  <2>3. Cardinality(B[x]) < left
    OBVIOUS
  <2> QED BY <1>7, <1>9, <2>2, <2>3
<1> DEFINE up == [x \in D |-> IF x \in U THEN 1 ELSE 0]
<1>12. \A x \in D : count[x] = floor[x] + up[x] /\ up[x] \in {0, 1} /\ (up[x] = 1 <=> x \in U)
  OBVIOUS
<1> HIDE DEF up
<1>13. ASSUME NEW C, Adds(C, count, D) PROVE C[D] = b
  <2>1. \A x \in D : up[x] \in Nat
    BY <1>12
  <2>2. PICK u : Adds(u, up, D)
    BY <2>1, AddsExists
  <2>3. u[D] = left
    <3>1. u[D] = Cardinality({x \in D : up[x] = 1})
      BY <1>12, <2>2, AddsCount
    <3>2. {x \in D : up[x] = 1} = U
      BY <1>12
    <3> QED BY <1>10, <3>1, <3>2
  <2>4. 1 * C[D] = 1 * F[D] + u[D]
    <3>1. \A x \in D : /\ count[x] \in Nat /\ floor[x] \in Nat /\ up[x] \in Nat
                       /\ 1 * count[x] = 1 * floor[x] + up[x]
      BY <1>12
    <3> QED BY <1>0, <1>13, <2>2, <3>1, AddsLinear
  <2>5. C[D] \in Nat
    BY <1>13 DEF Adds
  <2> QED BY <1>0, <1>4, <1>9, <2>3, <2>4, <2>5
<1>14. ASSUME NEW x \in D
       PROVE  /\ count[x] \in Nat
              /\ count[x] * W > b * w[x] - W /\ count[x] * W < b * w[x] + W
  <2>1. PICK f \in Nat, r \in Nat, s \in Nat, v \in Nat :
              f = floor[x] /\ r = rest[x] /\ s = up[x] /\ v = b * w[x]
    BY <1>12
  <2>2. v = W * f + r /\ r < W /\ count[x] = f + s /\ s \in {0, 1} /\ (s = 1 => r > 0)
    BY <1>1, <1>11, <1>12, <2>1
  <2>3. PICK q \in Nat : q = W * f
    BY <2>1
  <2>4. CASE s = 0
    <3>1. count[x] = f
      BY <2>2, <2>4
    <3>2. count[x] * W = q
      BY <2>3, <3>1
    <3> QED BY <1>1, <2>1, <2>2, <2>3, <3>1, <3>2
  <2>5. CASE s = 1
    <3>1. count[x] = f + 1
      BY <2>2, <2>5
    <3>2. count[x] * W = q + W
      <4>1. (f + 1) * W = W * f + W
        OBVIOUS
      <4> QED BY <2>3, <3>1, <4>1
    <3> QED BY <1>1, <2>1, <2>2, <2>3, <2>5, <3>1, <3>2
  <2> QED BY <2>2, <2>4, <2>5
<1> QED BY <1>13, <1>14

-----------------------------------------------------------------------------
(* The planner *)

\* What a whole division leaves.
LEMMA Divides ==
  ASSUME NEW n \in Nat, NEW d \in Nat, d > 0
  PROVE  /\ n \div d \in Nat /\ n % d \in Nat /\ n % d < d /\ n = d * (n \div d) + (n % d)
<1>1. n \div d \in Int /\ n % d \in Int /\ n % d < d /\ n % d >= 0
  OBVIOUS
<1>2. n = d * (n \div d) + (n % d)
  OBVIOUS
<1>3. PICK q \in Int, r \in Int : q = n \div d /\ r = n % d
  BY <1>1
<1>4. q >= 0
  <2> SUFFICES ASSUME q <= -1 PROVE FALSE
    BY <1>3
  <2>1. d * (q + 1) <= 0
    <3>1. PICK m \in Nat : m = -(q + 1)
      BY <1>3
    <3>2. d * m >= 0 /\ d * (q + 1) = -(d * m)
      BY <1>3, <3>1
    <3> QED BY <1>3, <3>1, <3>2
  <2>2. d * (q + 1) = d * q + d /\ d * q \in Int
    BY <1>3
  <2>3. n = d * q + r /\ r < d
    BY <1>1, <1>2, <1>3
  <2> QED BY <1>3, <2>1, <2>2, <2>3
<1> QED BY <1>1, <1>2, <1>3, <1>4

\* A composition's weights, by topology, family and difficulty.
LEMMA WeightsAreNumbers ==
  ASSUME NEW c \in Compositions
  PROVE  /\ _topology_weights(c) \in [1 .. 4 -> Nat]
         /\ \E n \in Nat : effective_proportions(c) \in [1 .. n -> Nat]
         /\ \E n \in Nat : difficulties(c) \in [1 .. n -> Nat]
<1> DEFINE Numbered(s) == \E k \in Nat : DOMAIN s = 1 .. k /\ \A i \in 1 .. k : s[i][2] \in Nat
<1>1. Numbered(c.topology) /\ Numbered(c.family) /\ Numbered(c.difficulty)
  BY CompositionsAssumption
<1>2. _topology_weights(c) \in [1 .. 4 -> Nat]
  <2>1. CASE c.topology = <<>>
    <3>1. <<6, 2, 1, 1>> \in [1 .. 4 -> Nat]
      OBVIOUS
    <3> QED BY <2>1, <3>1 DEF _topology_weights
  <2>2. CASE c.topology # <<>>
    <3> DEFINE mine(i) == {n \in DOMAIN c.topology : c.topology[n][1] = _TOPOLOGIES[i]}
               weight(i) == IF mine(i) = {} THEN 0 ELSE c.topology[CHOOSE n \in mine(i) : TRUE][2]
    <3>1. ASSUME NEW i \in 1 .. 4 PROVE weight(i) \in Nat
      <4>1. CASE mine(i) = {}
        BY <4>1
      <4>2. CASE mine(i) # {}
        <5>1. PICK n \in mine(i) : n = CHOOSE m \in mine(i) : TRUE
          BY <4>2
        <5>2. c.topology[n][2] \in Nat
          BY <1>1
        <5> QED BY <4>2, <5>1, <5>2
      <4> QED BY <4>1, <4>2
    <3>2. _topology_weights(c) = [i \in 1 .. 4 |-> weight(i)]
      BY <2>2 DEF _topology_weights
    <3> QED BY <3>1, <3>2
  <2> QED BY <2>1, <2>2
<1>3. ASSUME NEW given, NEW default, Numbered(given), Numbered(default)
      PROVE  \E n \in Nat : Weights(given, default) \in [1 .. n -> Nat]
  <2>1. PICK s : s = (IF given = <<>> THEN default ELSE given) /\ Numbered(s)
    BY <1>3
  <2>2. Weights(given, default) = [n \in DOMAIN s |-> s[n][2]]
    BY <2>1 DEF Weights
  <2>3. PICK k \in Nat : DOMAIN s = 1 .. k /\ \A i \in 1 .. k : s[i][2] \in Nat
    BY <2>1
  <2> QED BY <2>2, <2>3
<1>4. \E n \in Nat : effective_proportions(c) \in [1 .. n -> Nat]
  <2>1. Numbered(<<<<"factual_explanation", 1>>>>)
    OBVIOUS
  <2> HIDE DEF Numbered
  <2> QED BY <1>1, <1>3, <2>1 DEF effective_proportions
<1>5. \E n \in Nat : difficulties(c) \in [1 .. n -> Nat]
  <2>1. Numbered(<<<<"basic", 3>>, <<"intermediate", 5>>, <<"advanced", 2>>>>)
    <3>1. PICK s : s = <<<<"basic", 3>>, <<"intermediate", 5>>, <<"advanced", 2>>>>
      OBVIOUS
    <3>2. DOMAIN s = 1 .. 3 /\ s[1][2] = 3 /\ s[2][2] = 5 /\ s[3][2] = 2
      BY <3>1
    <3>3. \A i \in 1 .. 3 : s[i][2] \in Nat
      BY <3>2
    <3> QED BY <3>1, <3>2, <3>3
  <2> HIDE DEF Numbered
  <2> QED BY <1>1, <1>3, <2>1 DEF difficulties
<1> QED BY <1>2, <1>4, <1>5

\* The weights of the cells add up to the whole.
LEMMA WeightsAddUp ==
  ASSUME NEW c \in Compositions
  PROVE  /\ IsFiniteSet(Cells(c)) /\ Whole(c) \in Nat
         /\ \A x \in Cells(c) : /\ Weight(c, x) \in Nat /\ Weight(c, x) > 0
                                /\ x \in Nat \X Nat \X Nat
         /\ \A h : Adds(h, [x \in Cells(c) |-> Weight(c, x)], Cells(c)) => h[Cells(c)] = Whole(c)
<1>1. PICK a : a = _topology_weights(c)
  OBVIOUS
<1>2. PICK b : b = effective_proportions(c)
  OBVIOUS
<1>3. PICK d : d = difficulties(c)
  OBVIOUS
<1>4. PICK m \in Nat, n \in Nat : a \in [1 .. 4 -> Nat] /\ b \in [1 .. m -> Nat] /\ d \in [1 .. n -> Nat]
  BY <1>1, <1>2, <1>3, WeightsAreNumbers
<1> DEFINE A == 1 .. 4
           B == 1 .. m
           C == 1 .. n
           S == A \X B \X C
           w == [x \in S |-> Weight(c, x)]
           D == Cells(c)
<1>5. IsFiniteSet(A) /\ IsFiniteSet(B) /\ IsFiniteSet(C) /\ IsFiniteSet(S)
  <2>1. \A k \in Nat : IsFiniteSet(1 .. k)
    BY FS_Interval
  <2>2. IsFiniteSet(A) /\ IsFiniteSet(B) /\ IsFiniteSet(C)
    BY <2>1
  <2> HIDE DEF A, B, C
  <2> QED BY <2>2, BoxFinite
<1>6. /\ \A x \in S : w[x] = a[x[1]] * b[x[2]] * d[x[3]]
      /\ D = {x \in S : w[x] > 0}
  BY <1>1, <1>2, <1>3, <1>4 DEF Weight, Cells
<1>7. ASSUME NEW x \in S PROVE w[x] \in Nat
  <2>1. a[x[1]] \in Nat /\ b[x[2]] \in Nat /\ d[x[3]] \in Nat
    BY <1>4
  <2>2. a[x[1]] * b[x[2]] * d[x[3]] \in Nat
    BY <2>1
  <2> QED BY <1>6, <2>2
<1>8. PICK F : Adds(F, a, A) /\ SumFunctionOnSet(a, A) = F[A]
  <2> HIDE DEF A
  <2> QED BY <1>4, <1>5, SumAdds DEF A
<1>9. PICK H : Adds(H, b, B) /\ SumFunctionOnSet(b, B) = H[B]
  <2> HIDE DEF B
  <2> QED BY <1>4, <1>5, SumAdds DEF B
<1>10. PICK K : Adds(K, d, C) /\ SumFunctionOnSet(d, C) = K[C]
  <2> HIDE DEF C
  <2> QED BY <1>4, <1>5, SumAdds DEF C
<1>11. Whole(c) = F[A] * H[B] * K[C]
  <2>1. DOMAIN a = A /\ DOMAIN b = B /\ DOMAIN d = C
    BY <1>4
  <2> QED BY <1>1, <1>2, <1>3, <1>8, <1>9, <1>10, <2>1 DEF Whole, SumFunction
<1>12. PICK g : Adds(g, w, S)
  <2> HIDE DEF w, S
  <2> QED BY <1>5, <1>7, AddsExists
<1>13. g[S] = F[A] * H[B] * K[C]
  <2>1. \A x \in A, y \in B, z \in C : w[<<x, y, z>>] = a[x] * b[y] * d[z]
    <3>1. \A x \in A, y \in B, z \in C : <<x, y, z>> \in S
      OBVIOUS
    <3> HIDE DEF w
    <3> QED BY <1>6, <3>1
  <2>2. (\A x \in A : a[x] \in Nat) /\ (\A x \in B : b[x] \in Nat) /\ (\A x \in C : d[x] \in Nat)
    BY <1>4
  <2>3. Adds(g, w, A \X B \X C)
    BY <1>12
  <2>4. g[A \X B \X C] = F[A] * H[B] * K[C]
    <3> HIDE DEF A, B, C, w
    <3> QED BY <1>5, <1>8, <1>9, <1>10, <2>1, <2>2, <2>3, AddsBox
  <2> QED BY <2>4
<1>14. g[S] = g[D]
  <2> HIDE DEF w, S, D
  <2>1. g[S] = g[{x \in S : w[x] > 0}]
    BY <1>5, <1>7, <1>12, AddsPositive
  <2>2. {x \in S : w[x] > 0} = D
    BY <1>6
  <2> QED BY <2>1, <2>2
<1>15. IsFiniteSet(D) /\ D \in SUBSET S
  <2>1. D \in SUBSET S
    BY <1>6
  <2> HIDE DEF D, S
  <2> QED BY <1>5, <2>1, FS_Subset
<1>16. ASSUME NEW h, Adds(h, [x \in D |-> Weight(c, x)], D) PROVE h[D] = g[D]
  <2>1. \A x \in D : w[x] = [y \in D |-> Weight(c, y)][x]
    BY <1>15
  <2> HIDE DEF D, S, w
  <2> QED BY <1>5, <1>12, <1>15, <1>16, <2>1, AddsSub
<1>17. g[S] \in Nat
  BY <1>12 DEF Adds
<1>18. \A x \in D : Weight(c, x) \in Nat /\ Weight(c, x) > 0 /\ x \in Nat \X Nat \X Nat
  <2>1. \A x \in D : x \in S /\ w[x] \in Nat /\ w[x] > 0 /\ w[x] = Weight(c, x)
    BY <1>6, <1>7
  <2>2. \A x \in S : x \in Nat \X Nat \X Nat
    OBVIOUS
  <2> QED BY <2>1, <2>2
<1> HIDE DEF D, S, w
<1>19. \A h : Adds(h, [x \in D |-> Weight(c, x)], D) => h[D] = Whole(c)
  BY <1>11, <1>13, <1>14, <1>16
<1> QED BY <1>11, <1>13, <1>15, <1>17, <1>18, <1>19 DEF D

\* What the floor of a cell's share leaves, the floors, the cells that are served
\* before each, and what each is given.
Remains(o, x) == (BaseTotal(o) * Weight(o.composition, x)) % Whole(o.composition)

Floored(o) == [x \in Cells(o.composition) |->
                 (BaseTotal(o) * Weight(o.composition, x)) \div Whole(o.composition)]

Ahead(o) ==
  [x \in Cells(o.composition) |->
     {y \in Cells(o.composition) \ {x} :
        \/ Remains(o, y) > Remains(o, x)
        \/ Remains(o, y) = Remains(o, x) /\ Weight(o.composition, y) > Weight(o.composition, x)
        \/ /\ Remains(o, y) = Remains(o, x) /\ Weight(o.composition, y) = Weight(o.composition, x)
           /\ Earlier(y, x)}]

Counted(o) ==
  [x \in Cells(o.composition) |->
     Floored(o)[x] +
       IF Cardinality(Ahead(o)[x]) < BaseTotal(o) - SumFunction(Floored(o)) THEN 1 ELSE 0]

\* The plan keeps the cells that are given an example.
LEMMA PlanCounts ==
  ASSUME NEW o
  PROVE  plan(o) = [x \in {y \in Cells(o.composition) : Counted(o)[y] > 0} |-> Counted(o)[x]]
BY DEF plan, Counted, Ahead, Floored, Remains

\* With a cell to plan for there is a whole to divide by.
LEMMA WholeIsPositive ==
  ASSUME NEW c \in Compositions, Cells(c) # {}
  PROVE  Whole(c) \in Nat /\ Whole(c) > 0
<1> DEFINE D == Cells(c)
           w == [x \in D |-> Weight(c, x)]
<1>1. /\ IsFiniteSet(D) /\ \A x \in D : w[x] \in Nat /\ w[x] > 0
      /\ Whole(c) \in Nat /\ \A h : Adds(h, w, D) => h[D] = Whole(c)
  BY WeightsAddUp
<1> HIDE DEF w
<1>2. PICK x \in D : TRUE
  OBVIOUS
<1> HIDE DEF D
<1>3. PICK h : Adds(h, w, D)
  BY <1>1, AddsExists
<1>4. h[D] = w[x] + h[D \ {x}] /\ h[D \ {x}] \in Nat /\ h[D] = Whole(c)
  BY <1>1, <1>3 DEF Adds
<1>5. w[x] \in Nat /\ w[x] > 0
  BY <1>1
<1> QED BY <1>1, <1>4, <1>5

\* The order of the cells is strict and total.
LEMMA AheadIsOrder ==
  ASSUME NEW o, o.composition \in Compositions, BaseTotal(o) \in Nat
  PROVE  LET D == Cells(o.composition) IN
         /\ Ahead(o) \in [D -> SUBSET D]
         /\ \A x \in D : x \notin Ahead(o)[x]
         /\ \A x, y \in D : x # y => x \in Ahead(o)[y] \/ y \in Ahead(o)[x]
         /\ \A x, y, z \in D : x \in Ahead(o)[y] /\ y \in Ahead(o)[z] => x \in Ahead(o)[z]
         /\ \A x, y \in D : Remains(o, y) > Remains(o, x) => y \in Ahead(o)[x]
<1> DEFINE D == Cells(o.composition)
           W(x) == Weight(o.composition, x)
           R(x) == Remains(o, x)
           A == Ahead(o)
<1>1. \A x \in D : W(x) \in Nat /\ W(x) > 0 /\ x \in Nat \X Nat \X Nat /\ Whole(o.composition) \in Nat
  BY WeightsAddUp
<1>2. ASSUME NEW x \in D PROVE R(x) \in Int
  <2>1. PICK w \in Nat, n \in Nat, b \in Nat : w = W(x) /\ n = Whole(o.composition) /\ b = BaseTotal(o)
    BY <1>1
  <2>2. b * w \in Nat /\ n > 0
    BY <2>1, WholeIsPositive
  <2>3. (b * w) % n \in Int
    BY <2>1, <2>2, Divides
  <2> QED BY <2>1, <2>3 DEF Remains
<1>3. A \in [D -> SUBSET D]
  BY DEF Ahead
<1>4. \A x, y \in D : y \in A[x] <=> /\ y # x
                                     /\ \/ R(y) > R(x)
                                        \/ R(y) = R(x) /\ W(y) > W(x)
                                        \/ R(y) = R(x) /\ W(y) = W(x) /\ Earlier(y, x)
  BY DEF Ahead
<1>5. \A x \in D : x[1] \in Nat /\ x[2] \in Nat /\ x[3] \in Nat /\ x = <<x[1], x[2], x[3]>>
  BY <1>1
<1> HIDE DEF D, W, R, A
<1>6. \A x, y \in D : x # y => Earlier(x, y) \/ Earlier(y, x)
  BY <1>5 DEF Earlier
<1>7. \A x, y, z \in D : Earlier(x, y) /\ Earlier(y, z) => Earlier(x, z)
  BY <1>5 DEF Earlier
<1>8. \A x \in D : ~Earlier(x, x)
  BY <1>5 DEF Earlier
<1>9. \A x, y \in D : x # y => x \in A[y] \/ y \in A[x]
  BY <1>1, <1>2, <1>4, <1>6
<1>10. \A x, y, z \in D : x \in A[y] /\ y \in A[z] => x \in A[z]
  <2> SUFFICES ASSUME NEW x \in D, NEW y \in D, NEW z \in D, x \in A[y], y \in A[z] PROVE x \in A[z]
    OBVIOUS
  <2>1. PICK rx \in Int, ry \in Int, rz \in Int : rx = R(x) /\ ry = R(y) /\ rz = R(z)
    BY <1>2
  <2>2. PICK wx \in Nat, wy \in Nat, wz \in Nat : wx = W(x) /\ wy = W(y) /\ wz = W(z)
    BY <1>1
  <2>3. rx > ry \/ (rx = ry /\ wx > wy) \/ (rx = ry /\ wx = wy /\ Earlier(x, y))
    BY <1>4, <2>1, <2>2
  <2>4. ry > rz \/ (ry = rz /\ wy > wz) \/ (ry = rz /\ wy = wz /\ Earlier(y, z))
    BY <1>4, <2>1, <2>2
  <2>5. rx > rz \/ (rx = rz /\ wx > wz) \/ (rx = rz /\ wx = wz /\ Earlier(x, z))
    BY <1>7, <2>3, <2>4
  <2>6. x # z
    <3>1. ~Earlier(x, x)
      BY <1>8
    <3> QED BY <2>1, <2>2, <2>5, <3>1
  <2> QED BY <1>4, <2>1, <2>2, <2>5, <2>6
<1>11. \A x, y \in D : R(y) > R(x) => y \in A[x]
  BY <1>2, <1>4
<1>12. \A x \in D : x \notin A[x]
  BY <1>4
<1> QED BY <1>3, <1>9, <1>10, <1>11, <1>12 DEF D, R, A

\* The total, and each share missed by less than one.
Fits(o, p) ==
  LET c == o.composition
      share(x) == BaseTotal(o) * Weight(c, x)
      got(x) == IF x \in DOMAIN p THEN p[x] ELSE 0
  IN  /\ SumFunction(p) = IF Cells(c) = {} THEN 0 ELSE BaseTotal(o)
      /\ \A x \in Cells(c) : /\ got(x) * Whole(c) > share(x) - Whole(c)
                             /\ got(x) * Whole(c) < share(x) + Whole(c)

\* The planner's plan has the total asked for and misses no share by one.
LEMMA PlanFits ==
  ASSUME NEW o, o.composition \in Compositions, BaseTotal(o) \in Nat
  PROVE  Fits(o, plan(o))
<1> DEFINE c == o.composition
           D == Cells(c)
           W == Whole(c)
           b == BaseTotal(o)
           w == [x \in D |-> Weight(c, x)]
           floor == Floored(o)
           rest == [x \in D |-> Remains(o, x)]
           left == b - SumFunction(floor)
           B == Ahead(o)
           count == Counted(o)
           K == {x \in D : count[x] > 0}
<1>1. /\ IsFiniteSet(D) /\ W \in Nat
      /\ \A x \in D : w[x] \in Nat /\ w[x] > 0 /\ w[x] = Weight(c, x)
      /\ \A h : Adds(h, w, D) => h[D] = W
  BY WeightsAddUp
<1>2. plan(o) = [x \in K |-> count[x]]
  BY PlanCounts
<1>3. /\ DOMAIN floor = D
      /\ \A x \in D : floor[x] = (b * w[x]) \div W /\ rest[x] = (b * w[x]) % W
      /\ \A x \in D : count[x] = floor[x] + (IF Cardinality(B[x]) < left THEN 1 ELSE 0)
  BY DEF Floored, Remains, Counted
<1>4. /\ B \in [D -> SUBSET D]
      /\ \A x \in D : x \notin B[x]
      /\ \A x, y \in D : x # y => x \in B[y] \/ y \in B[x]
      /\ \A x, y, z \in D : x \in B[y] /\ y \in B[z] => x \in B[z]
      /\ \A x, y \in D : rest[y] > rest[x] => y \in B[x]
  BY AheadIsOrder
<1>5. CASE D = {}
  <2>1. SumFunction(plan(o)) = 0
    <3>1. DOMAIN plan(o) = {}
      BY <1>2, <1>5
    <3>2. PICK g : Adds(g, plan(o), {}) /\ SumFunctionOnSet(plan(o), {}) = g[{}]
      BY SumAdds, FS_EmptySet
    <3>3. g[{}] = 0
      BY <3>2 DEF Adds
    <3> QED BY <3>1, <3>2, <3>3 DEF SumFunction
  <2> QED BY <1>5, <2>1 DEF Fits
<1> HIDE DEF w, floor, rest, B, count
<1>6. CASE D # {}
  <2>1. W > 0
    BY <1>6, WholeIsPositive
  <2>2. \A x \in D : /\ floor[x] \in Nat /\ rest[x] \in Nat
                     /\ b * w[x] = W * floor[x] + rest[x] /\ rest[x] < W
    <3> SUFFICES ASSUME NEW x \in D
                 PROVE  /\ floor[x] \in Nat /\ rest[x] \in Nat
                        /\ b * w[x] = W * floor[x] + rest[x] /\ rest[x] < W
      OBVIOUS
    <3>1. PICK n \in Nat : n = b * w[x]
      BY <1>1
    <3> HIDE DEF D, W, b
    <3>2. floor[x] = n \div W /\ rest[x] = n % W /\ W \in Nat
      BY <1>1, <1>3, <3>1
    <3>3. n \div W \in Nat /\ n % W \in Nat /\ n % W < W /\ n = W * (n \div W) + (n % W)
      BY <2>1, <3>1, <3>2, Divides
    <3> QED BY <3>1, <3>2, <3>3
  <2>3. PICK F : Adds(F, floor, D) /\ SumFunctionOnSet(floor, D) = F[D]
    <3> HIDE DEF D, W, b
    <3> QED BY <1>1, <2>2, SumAdds
  <2>4. left = b - F[D] /\ left \in Int
    <3>1. SumFunction(floor) = F[D]
      BY <1>3, <2>3 DEF SumFunction
    <3>2. F[D] \in Nat
      BY <2>3 DEF Adds
    <3> QED BY <3>1, <3>2
  <2>5. /\ \A C : Adds(C, count, D) => C[D] = b
        /\ \A x \in D : /\ count[x] \in Nat
                        /\ count[x] * W > b * w[x] - W /\ count[x] * W < b * w[x] + W
    <3>1. b \in Nat
      OBVIOUS
    <3> HIDE DEF D, W, b, left
    <3>2. \A h : Adds(h, floor, D) => left = b - h[D]
      <4> SUFFICES ASSUME NEW h, Adds(h, floor, D) PROVE h[D] = F[D]
        BY <2>4
      <4>1. D \in SUBSET D /\ \A x \in D : floor[x] = floor[x]
        OBVIOUS
      <4> QED BY <1>1, <2>3, <4>1, AddsSub
    <3>3. Apportioned(D, b, W, w, floor, rest, B, left, count)
      BY <1>1, <1>3, <1>4, <1>6, <2>2, <2>4, <3>1, <3>2 DEF Apportioned
    <3> HIDE DEF c
    <3> QED BY <3>3, Apportions
  <2>6. SumFunction(plan(o)) = b
    <3>1. PICK C : Adds(C, count, D)
      <4> HIDE DEF D, W, b
      <4> QED BY <1>1, <2>5, AddsExists
    <3>2. C[D] = C[K]
      <4> HIDE DEF D, W, b
      <4>1. \A x \in D : count[x] \in Nat
        BY <2>5
      <4> QED BY <1>1, <3>1, <4>1, AddsPositive
    <3>3. K \in SUBSET D /\ IsFiniteSet(K) /\ \A x \in K : count[x] \in Nat
      <4>1. K \in SUBSET D
        OBVIOUS
      <4>2. \A x \in K : count[x] \in Nat
        <5> HIDE DEF D, W, b
        <5> QED BY <2>5
      <4> HIDE DEF K, D
      <4> QED BY <1>1, <4>1, <4>2, FS_Subset
    <3> DEFINE p == plan(o)
    <3>4. DOMAIN p = K /\ \A x \in K : p[x] = count[x]
      BY <1>2
    <3> HIDE DEF p, K, D, W, b, c
    <3>5. PICK g : Adds(g, p, K) /\ SumFunctionOnSet(p, K) = g[K]
      <4>1. \A x \in K : p[x] \in Nat
        BY <3>3, <3>4
      <4> QED BY <3>3, <4>1, SumAdds
    <3>6. g[K] = C[K]
      BY <1>1, <3>1, <3>3, <3>4, <3>5, AddsSub
    <3>7. SumFunction(p) = b
      BY <2>5, <3>1, <3>2, <3>4, <3>5, <3>6 DEF SumFunction
    <3> QED BY <3>7 DEF p
  <2>7. \A x \in D : (IF x \in DOMAIN plan(o) THEN plan(o)[x] ELSE 0) = count[x]
    <3> SUFFICES ASSUME NEW x \in D
                 PROVE  (IF x \in DOMAIN plan(o) THEN plan(o)[x] ELSE 0) = count[x]
      OBVIOUS
    <3>1. count[x] \in Nat
      <4> HIDE DEF D, W, b
      <4> QED BY <2>5
    <3>2. CASE count[x] > 0
      BY <1>2, <3>2
    <3>3. CASE ~(count[x] > 0)
      BY <1>2, <3>1, <3>3
    <3> QED BY <3>2, <3>3
  <2> QED
    <3>1. \A x \in D : /\ count[x] * W > b * Weight(c, x) - W
                       /\ count[x] * W < b * Weight(c, x) + W
      <4> HIDE DEF D, W, b
      <4> QED BY <1>1, <2>5
    <3>2. \A x \in D :
            LET got == IF x \in DOMAIN plan(o) THEN plan(o)[x] ELSE 0
            IN  got * W > b * Weight(c, x) - W /\ got * W < b * Weight(c, x) + W
      <4> HIDE DEF D, W, b
      <4> QED BY <2>7, <3>1
    <3> QED BY <1>6, <2>6, <3>2 DEF Fits
<1> QED BY <1>5, <1>6

\* Once made, the plan is that of the order.
PlanInv == planStep # "idle" => Fits(order, planned)

\* The planner's apportionment (plan, of pipeline/planner.py) is exact for every
\* composition, target and cap: it plans as many examples as were asked for,
\* unless no cell has a weight, and no cell is a whole example off its share.
THEOREM PlansAreExact == PlanSpec => []PlanIsExact
<1>1. PlanInit => PlanInv
  BY DEF PlanInit, PlanInv
<1>2. PlanInv /\ [PlanNext]_planVars => PlanInv'
  <2> SUFFICES ASSUME PlanInv, [PlanNext]_planVars PROVE PlanInv'
    OBVIOUS
  <2>1. CASE MakePlan
    <3>1. PICK q \in [composition : Compositions, chunks : Amounts, target : Amounts \cup {Unset},
                      cap : Amounts \cup {Unset}] : order' = q
      BY <2>1 DEF MakePlan
    <3>2. BaseTotal(q) \in Nat /\ q.composition \in Compositions
      BY <3>1, CompositionsAssumption DEF BaseTotal, Lower
    <3>3. planned' = plan(q)
      BY <2>1, <3>1 DEF MakePlan
    <3>4. Fits(q, plan(q))
      BY <3>2, PlanFits
    <3> QED BY <3>1, <3>3, <3>4 DEF PlanInv
  <2>2. CASE TopUp
    BY <2>2 DEF TopUp, PlanInv
  <2>3. CASE UNCHANGED planVars
    BY <2>3 DEF PlanInv, planVars
  <2> QED BY <2>1, <2>2, <2>3 DEF PlanNext
<1>3. PlanInv => PlanIsExact
  BY DEF PlanInv, Fits, PlanIsExact
<1> QED BY <1>1, <1>2, <1>3, PTL DEF PlanSpec

-----------------------------------------------------------------------------
(* The chunker *)

\* f[i] puts the first i of the sequences gs together.
Joins(f, gs, n) == f[0] = <<>> /\ \A i \in 1 .. n : f[i] = f[i - 1] \o gs[i]

\* There is one way to do that.
LEMMA JoinsOnce ==
  ASSUME NEW n \in Nat, NEW m \in Nat, m <= n, NEW f, NEW h, NEW gs, NEW hs,
         Joins(f, gs, m), Joins(h, hs, n), \A i \in 1 .. m : gs[i] = hs[i]
  PROVE  f[m] = h[m]
<1> DEFINE Odd == {i \in 0 .. m : f[i] # h[i]}
<1> SUFFICES ASSUME Odd # {} PROVE FALSE
  OBVIOUS
<1>1. PICK k \in Odd : \A i \in Odd : k <= i
  <2>1. IsFiniteSet(Odd) /\ Odd \subseteq Int
    <3>1. IsFiniteSet(0 .. m) /\ Odd \in SUBSET (0 .. m) /\ 0 .. m \subseteq Int
      BY FS_Interval
    <3> HIDE DEF Odd
    <3> QED BY <3>1, FS_Subset
  <2> HIDE DEF Odd
  <2> QED BY <2>1, SmallestExists
<1>2. k # 0
  BY <1>1 DEF Joins
<1>3. k \in 1 .. m /\ k \in 1 .. n /\ k - 1 \in 0 .. m /\ ~ (k <= k - 1)
  BY <1>1, <1>2
<1>4. f[k - 1] = h[k - 1]
  BY <1>1, <1>3
<1>5. f[k] = h[k]
  BY <1>3, <1>4 DEF Joins
<1> QED BY <1>1, <1>5

\* And it can be done.
LEMMA JoinsExist ==
  ASSUME NEW R, NEW gs \in Seq(Seq(R))
  PROVE  \E f : f \in [0 .. Len(gs) -> Seq(R)] /\ Joins(f, gs, Len(gs))
<1> DEFINE L == Len(gs)
           Good(n, f) == f \in [0 .. n -> Seq(R)] /\ Joins(f, gs, n)
           Bad == {n \in 0 .. L : ~ \E f : Good(n, f)}
<1>1. L \in Nat /\ \A i \in 1 .. L : gs[i] \in Seq(R)
  OBVIOUS
<1>2. Bad = {}
  <2> SUFFICES ASSUME Bad # {} PROVE FALSE
    OBVIOUS
  <2>1. PICK m \in Bad : \A n \in Bad : m <= n
    <3>1. IsFiniteSet(Bad) /\ Bad \subseteq Int
      <4>1. IsFiniteSet(0 .. L) /\ Bad \in SUBSET (0 .. L) /\ 0 .. L \subseteq Int
        BY <1>1, FS_Interval
      <4> HIDE DEF Bad
      <4> QED BY <4>1, FS_Subset
    <3> HIDE DEF Bad
    <3> QED BY <3>1, SmallestExists
  <2>2. CASE m = 0
    <3>1. Good(0, [i \in 0 .. 0 |-> <<>>])
      BY DEF Joins
    <3> QED BY <2>1, <2>2, <3>1
  <2>3. CASE m # 0
    <3>1. m \in 1 .. L /\ m - 1 \in 0 .. L /\ m - 1 \notin Bad
      <4>1. m \in 0 .. L
        BY <2>1
      <4>2. m \in 1 .. L /\ m - 1 \in 0 .. L /\ ~ (m <= m - 1)
        BY <1>1, <2>3, <4>1
      <4> HIDE DEF Bad
      <4> QED BY <2>1, <4>2
    <3>2. PICK f : Good(m - 1, f)
      BY <3>1
    <3> DEFINE h == [i \in 0 .. m |-> IF i = m THEN f[m - 1] \o gs[m] ELSE f[i]]
    <3>3. f[m - 1] \o gs[m] \in Seq(R)
      <4>1. f[m - 1] \in Seq(R) /\ gs[m] \in Seq(R)
        BY <1>1, <3>1, <3>2
      <4> HIDE DEF L
      <4> QED BY <4>1
    <3>4. h \in [0 .. m -> Seq(R)] /\ h[0] = <<>>
      <4>1. \A i \in 0 .. m : i # m => f[i] \in Seq(R)
        BY <3>1, <3>2
      <4>2. 0 \in 0 .. m /\ 0 # m /\ f[0] = <<>>
        BY <3>1, <3>2 DEF Joins
      <4> QED BY <3>3, <4>1, <4>2
    <3>5. \A i \in 1 .. m : h[i] = h[i - 1] \o gs[i]
      <4> SUFFICES ASSUME NEW i \in 1 .. m PROVE h[i] = h[i - 1] \o gs[i]
        OBVIOUS
      <4>1. CASE i = m
        <5>1. m - 1 \in 0 .. m /\ m - 1 # m /\ m \in 0 .. m
          BY <3>1
        <5> QED BY <4>1, <5>1
      <4>2. CASE i # m
        <5>1. i \in 1 .. m - 1 /\ i - 1 \in 0 .. m /\ i - 1 # m /\ i \in 0 .. m
          BY <3>1, <4>2
        <5>2. f[i] = f[i - 1] \o gs[i]
          BY <3>2, <5>1 DEF Joins
        <5> QED BY <4>2, <5>1, <5>2
      <4> QED BY <4>1, <4>2
    <3>6. Good(m, h)
      BY <3>4, <3>5 DEF Joins
    <3> HIDE DEF h, Good
    <3> QED BY <2>1, <3>6
  <2> QED BY <2>2, <2>3
<1> QED
  <2>1. L \in 0 .. L
    BY <1>1
  <2> QED BY <1>2, <2>1

\* Flattening is that.
LEMMA FlattenJoins ==
  ASSUME NEW R, NEW gs \in Seq(Seq(R)), NEW f, Joins(f, gs, Len(gs))
  PROVE  FlattenSeq(gs) = f[Len(gs)]
<1> DEFINE L == Len(gs)
<1>1. L \in Nat
  OBVIOUS
<1>2. CASE L = 0
  <2>1. gs = <<>>
    BY <1>2
  <2> QED BY <1>2, <2>1 DEF FlattenSeq, Joins
<1>3. CASE L # 0
  <2> DEFINE flatten == CHOOSE h : h = [i \in 1 .. L |-> IF i = 1 THEN gs[i] ELSE h[i - 1] \o gs[i]]
             g == [i \in 1 .. L |-> f[i]]
             h == [i \in 0 .. L |-> IF i = 0 THEN <<>> ELSE flatten[i]]
  <2>1. FlattenSeq(gs) = flatten[L]
    BY <1>3 DEF FlattenSeq
  <2>2. \A s \in Seq(R) : <<>> \o s = s
    OBVIOUS
  <2>3. \A i \in 1 .. L : gs[i] \in Seq(R)
    OBVIOUS
  <2>4. g = [i \in 1 .. L |-> IF i = 1 THEN gs[i] ELSE g[i - 1] \o gs[i]]
    <3> SUFFICES ASSUME NEW i \in 1 .. L PROVE f[i] = IF i = 1 THEN gs[i] ELSE g[i - 1] \o gs[i]
      BY Zenon
    <3>1. f[i] = f[i - 1] \o gs[i]
      BY DEF Joins
    <3>2. CASE i = 1
      <4>1. f[0] = <<>> /\ i - 1 = 0 /\ gs[1] \in Seq(R)
        BY <2>3, <3>2 DEF Joins
      <4>3. f[1] = <<>> \o gs[1]
        BY <3>1, <3>2, <4>1
      <4> HIDE DEF g, L
      <4>2. f[1] = gs[1]
        BY <2>2, <4>1, <4>3
      <4> QED BY <3>2, <4>2
    <3>3. CASE i # 1
      <4>1. i - 1 \in 1 .. L
        BY <1>1, <3>3
      <4> QED BY <3>1, <3>3, <4>1
    <3> QED BY <3>2, <3>3
  <2>5. flatten = [i \in 1 .. L |-> IF i = 1 THEN gs[i] ELSE flatten[i - 1] \o gs[i]]
    <3>1. \E k : k = [i \in 1 .. L |-> IF i = 1 THEN gs[i] ELSE k[i - 1] \o gs[i]]
      <4> HIDE DEF g
      <4> QED BY <2>4
    <3> QED BY <3>1
  <2> HIDE DEF flatten, g
  <2>6. Joins(h, gs, L)
    <3>1. h[0] = <<>>
      BY <1>1
    <3>2. ASSUME NEW i \in 1 .. L PROVE h[i] = h[i - 1] \o gs[i]
      <4>1. h[i] = flatten[i] /\ i - 1 \in 0 .. L
        BY <1>1
      <4>2. CASE i = 1
        <5>1. flatten[1] = gs[1] /\ h[i - 1] = <<>>
          BY <2>5, <3>1, <4>2
        <5> QED BY <2>2, <2>3, <4>1, <4>2, <5>1
      <4>3. CASE i # 1
        <5>1. i - 1 \in 1 .. L /\ h[i - 1] = flatten[i - 1]
          BY <1>1, <4>3
        <5> QED BY <2>5, <4>1, <4>3, <5>1
      <4> QED BY <4>2, <4>3
    <3> HIDE DEF h
    <3> QED BY <3>1, <3>2 DEF Joins
  <2>7. h[L] = flatten[L]
    BY <1>1, <1>3
  <2>8. f[L] = h[L]
    <3> HIDE DEF h
    <3> QED BY <1>1, <2>6, JoinsOnce
  <2> QED BY <2>1, <2>7, <2>8
<1> QED BY <1>2, <1>3

\* So one more sequence is put behind, and what comes out is made of what went in.
LEMMA FlattenMore ==
  ASSUME NEW R, NEW gs \in Seq(Seq(R)), NEW s \in Seq(R)
  PROVE  /\ FlattenSeq(gs) \in Seq(R)
         /\ FlattenSeq(Append(gs, s)) = FlattenSeq(gs) \o s
<1> DEFINE L == Len(gs)
           hs == Append(gs, s)
<1>1. L \in Nat /\ hs \in Seq(Seq(R)) /\ Len(hs) = L + 1 /\ hs[L + 1] = s
      /\ \A i \in 1 .. L : gs[i] = hs[i]
  OBVIOUS
<1>2. PICK f : f \in [0 .. L -> Seq(R)] /\ Joins(f, gs, L)
  BY JoinsExist, Zenon
<1>3. PICK h : Joins(h, hs, L + 1)
  <2> HIDE DEF hs, L
  <2>1. \E h : h \in [0 .. Len(hs) -> Seq(R)] /\ Joins(h, hs, Len(hs))
    BY <1>1, JoinsExist, Zenon
  <2>2. \E h : Joins(h, hs, Len(hs))
    BY <2>1, Zenon
  <2> QED BY <1>1, <2>2
<1>4. FlattenSeq(gs) = f[L]
  BY <1>2, FlattenJoins
<1>5. FlattenSeq(hs) = h[L + 1]
  BY <1>1, <1>3, FlattenJoins
<1>6. f[L] = h[L]
  <2>1. PICK m \in Nat, n \in Nat : m = L /\ n = L + 1 /\ m <= n
    BY <1>1
  <2>2. Joins(f, gs, m) /\ Joins(h, hs, n) /\ \A i \in 1 .. m : gs[i] = hs[i]
    BY <1>1, <1>2, <1>3, <2>1
  <2>3. f[m] = h[m]
    <3> HIDE DEF L, hs
    <3> QED BY <2>1, <2>2, JoinsOnce
  <2> QED BY <2>1, <2>3
<1>7. h[L + 1] = h[L] \o s
  <2>1. PICK k \in 1 .. L + 1 : k = L + 1 /\ k - 1 = L
    BY <1>1
  <2>2. h[k] = h[k - 1] \o hs[k]
    <3> HIDE DEF L, hs
    <3> QED BY <1>3 DEF Joins
  <2> HIDE DEF L, hs
  <2> QED BY <1>1, <2>1, <2>2
<1>8. f[L] \in Seq(R)
  BY <1>1, <1>2
<1> QED BY <1>4, <1>5, <1>6, <1>7, <1>8

\* A finite set of numbers has a greatest one.
LEMMA GreatestExists ==
  ASSUME NEW S, IsFiniteSet(S), S \subseteq Int, S # {}
  PROVE  \E m \in S : \A n \in S : m >= n
<1> DEFINE G == {T \in SUBSET S : T # {} => \E m \in T : \A n \in T : m >= n}
<1>1. {} \in G
  OBVIOUS
<1>2. ASSUME NEW T \in SUBSET S, T # {}, \A x \in T : T \ {x} \in G PROVE T \in G
  <2>1. PICK x \in T : TRUE
    BY <1>2
  <2>2. CASE T \ {x} = {}
    <3>1. \A n \in T : n = x
      BY <2>2
    <3> QED BY <2>1, <3>1
  <2>3. CASE T \ {x} # {}
    <3>1. PICK m \in T \ {x} : \A n \in T \ {x} : m >= n
      BY <1>2, <2>1, <2>3
    <3>2. x \in Int /\ m \in Int /\ \A n \in T : n \in Int
      BY <2>1
    <3>3. \A n \in T : n = x \/ m >= n
      BY <3>1
    <3>4. CASE m >= x
      <4>1. \A n \in T : m >= n
        BY <3>3, <3>4
      <4> QED BY <4>1
    <3>5. CASE ~ (m >= x)
      <4>1. \A n \in T : x >= n
        BY <3>2, <3>3, <3>5
      <4> QED BY <2>1, <4>1
    <3> QED BY <3>4, <3>5
  <2> QED BY <2>2, <2>3
<1>3. S \in G
  <2> HIDE DEF G
  <2> QED BY <1>1, <1>2, SubsetInduction
<1> QED BY <1>3

\* The words of some units are the sum of theirs.
LEMMA TokensAre ==
  ASSUME NEW R, \A u \in R : u.tokens \in Nat, NEW s \in Seq(R)
  PROVE  \E g : Adds(g, [i \in 1 .. Len(s) |-> s[i].tokens], 1 .. Len(s)) /\ Tokens(s) = g[1 .. Len(s)]
<1> DEFINE S == 1 .. Len(s)
           f == [i \in S |-> s[i].tokens]
<1>1. IsFiniteSet(S) /\ S \subseteq Int /\ \A x \in S : f[x] \in Nat
  <2>1. IsFiniteSet(S)
    BY FS_Interval
  <2> QED BY <2>1
<1>2. PICK g : Adds(g, f, S)
  <2> HIDE DEF f, S
  <2> QED BY <1>1, AddsExists
<1> DEFINE Rec(h) == h = [T \in SUBSET S |->
                            IF T = {} THEN 0 ELSE h[T \ {Max(T)}] + s[Max(T)].tokens]
<1>3. Tokens(s) = (CHOOSE h : Rec(h))[S]
  <2>1. Tokens(s) = (CHOOSE h : h = [T \in SUBSET DOMAIN s |->
                       IF T = {} THEN 0 ELSE h[T \ {Max(T)}] + s[Max(T)].tokens])[DOMAIN s]
    BY DEF Tokens, FoldLeft, MapThenFoldSet
  <2>2. DOMAIN s = S
    OBVIOUS
  <2> HIDE DEF S
  <2> QED BY <2>1, <2>2
<1>4. \A T \in SUBSET S : T # {} => Max(T) \in T
  <2> SUFFICES ASSUME NEW T \in SUBSET S, T # {} PROVE Max(T) \in T
    OBVIOUS
  <2>1. IsFiniteSet(T) /\ T \subseteq Int
    <3> HIDE DEF S
    <3> QED BY <1>1, FS_Subset
  <2>2. \E m \in T : \A n \in T : m >= n
    BY <2>1, GreatestExists
  <2> QED BY <2>2 DEF Max
<1> DEFINE h == CHOOSE k : Rec(k)
<1>5. Rec(g)
  <2>1. \A T \in SUBSET S : g[T] = IF T = {} THEN 0 ELSE g[T \ {Max(T)}] + s[Max(T)].tokens
    <3> SUFFICES ASSUME NEW T \in SUBSET S, T # {}
                 PROVE  g[T] = g[T \ {Max(T)}] + s[Max(T)].tokens
      BY <1>2 DEF Adds
    <3>1. PICK x \in T : x = Max(T)
      BY <1>4
    <3>2. g[T] = f[x] + g[T \ {x}] /\ g[T \ {x}] \in Nat /\ f[x] \in Nat /\ f[x] = s[x].tokens
      BY <1>1, <1>2 DEF Adds
    <3> QED BY <3>1, <3>2
  <2> QED BY <1>2, <2>1 DEF Adds
<1>6. Rec(h)
  <2> HIDE DEF Rec
  <2> QED BY <1>5
<1> HIDE DEF h
<1> DEFINE G == {T \in SUBSET S : h[T] = g[T]}
<1>7. {} \in G
  BY <1>2, <1>6 DEF Adds
<1>8. ASSUME NEW T \in SUBSET S, T # {}, \A x \in T : T \ {x} \in G PROVE T \in G
  <2>1. PICK x \in T : x = Max(T)
    BY <1>4, <1>8
  <2>2. h[T] = h[T \ {x}] + s[x].tokens /\ g[T] = g[T \ {x}] + s[x].tokens
    BY <1>5, <1>6, <1>8, <2>1
  <2>3. h[T \ {x}] = g[T \ {x}]
    BY <1>8
  <2> QED BY <2>2, <2>3
<1>9. S \in G
  <2> HIDE DEF G, S
  <2> QED BY <1>1, <1>7, <1>8, SubsetInduction
<1> QED BY <1>2, <1>3, <1>9 DEF h

\* One more unit adds its words.
LEMMA TokensMore ==
  ASSUME NEW R, \A u \in R : u.tokens \in Nat, NEW s \in Seq(R), NEW u \in R
  PROVE  /\ Tokens(<<>>) = 0 /\ Tokens(s) \in Nat
         /\ Tokens(Append(s, u)) = Tokens(s) + u.tokens
<1> DEFINE n == Len(s)
           t == Append(s, u)
           S == 1 .. n
           T == 1 .. n + 1
           f == [i \in S |-> s[i].tokens]
           e == [i \in T |-> t[i].tokens]
<1>1. /\ n \in Nat /\ t \in Seq(R) /\ Len(t) = n + 1 /\ t[n + 1] = u
      /\ \A i \in S : t[i] = s[i]
  OBVIOUS
<1>2. PICK g : Adds(g, f, S) /\ Tokens(s) = g[S]
  BY TokensAre
<1>3. PICK h : Adds(h, e, T) /\ Tokens(t) = h[T]
  <2>1. \E h : Adds(h, [i \in 1 .. Len(t) |-> t[i].tokens], 1 .. Len(t)) /\ Tokens(t) = h[1 .. Len(t)]
    <3> HIDE DEF t
    <3> QED BY <1>1, TokensAre
  <2> QED BY <1>1, <2>1
<1>4. Tokens(<<>>) = 0
  <2>1. <<>> \in Seq(R) /\ 1 .. Len(<<>>) = {}
    OBVIOUS
  <2>2. PICK k : Adds(k, [i \in 1 .. Len(<<>>) |-> <<>>[i].tokens], 1 .. Len(<<>>))
                 /\ Tokens(<<>>) = k[1 .. Len(<<>>)]
    BY <2>1, TokensAre
  <2> QED BY <2>1, <2>2 DEF Adds
<1>5. Tokens(s) \in Nat
  BY <1>2 DEF Adds
<1>6. T \ {n + 1} = S /\ S \in SUBSET T /\ n + 1 \in T /\ IsFiniteSet(T) /\ IsFiniteSet(S)
  <2>1. IsFiniteSet(T) /\ IsFiniteSet(S)
    BY <1>1, FS_Interval
  <2> QED BY <1>1, <2>1
<1>7. h[T] = u.tokens + h[S]
  <2>1. h[T] = e[n + 1] + h[T \ {n + 1}]
    <3> HIDE DEF e, T, n
    <3> QED BY <1>3, <1>6 DEF Adds
  <2>2. e[n + 1] = u.tokens
    BY <1>1, <1>6
  <2> QED BY <1>6, <2>1, <2>2
<1>8. g[S] = h[S]
  <2>1. \A i \in S : e[i] = f[i]
    BY <1>1, <1>6
  <2> HIDE DEF e, f, S, T
  <2> QED BY <1>2, <1>3, <1>6, <2>1, AddsSub
<1>9. u.tokens \in Nat /\ h[S] \in Nat
  BY <1>2, <1>8 DEF Adds
<1> QED BY <1>2, <1>3, <1>4, <1>5, <1>7, <1>8, <1>9

\* The units that have words, and what is asked of the units of one group.
Worded(g) == {u \in DOMAIN g : g[u].tokens > 0}
Sized(g) == /\ Tokens(g) > MaxTokens => Cardinality(Worded(g)) = 1
            /\ Tokens(g) = 0 => Worded(g) = {}
HeadedOnce(g) == \A u \in DOMAIN g : g[u].kind = "heading" => u = 1
TableLast(kept, g) ==
  \A u \in DOMAIN g : g[u].kind = "table" /\ "table" \in kept => u = Len(g)
Grouped(kept, g) == Sized(g) /\ HeadedOnce(g) /\ TableLast(kept, g)

\* Units are counted and their pages known.
Measured(units) ==
  /\ units \in Seq(Range(units))
  /\ \A u \in Range(units) : u.tokens \in Nat /\ u.pages \subseteq Nat \ {0} /\ IsFiniteSet(u.pages)

\* The state of the loop: what was read is in the groups and in the group in the
\* making, and the count of words is at least that of the latter.
LoopOK(c) ==
  /\ c \in [phase : {"units", "done"}, units : {c.units}, kept : {c.kept}, at : Nat,
            groups : Seq(Seq(Range(c.units))), cur : Seq(Range(c.units)), tokens : Nat,
            inList : BOOLEAN]
  /\ Measured(c.units) /\ c.at \in 1 .. Len(c.units) + 1
  /\ FlattenSeq(c.groups) \o c.cur = SubSeq(c.units, 1, c.at - 1)
  /\ \A i \in DOMAIN c.groups : Grouped(c.kept, c.groups[i])
  /\ Grouped(c.kept, c.cur) /\ c.tokens >= Tokens(c.cur)

\* Nothing that ends its group is in the group in the making.
Unended(c) == "table" \in c.kept => \A u \in DOMAIN c.cur : c.cur[u].kind # "table"

\* An empty group is in order.
LEMMA EmptyGrouped ==
  ASSUME NEW kept
  PROVE  Grouped(kept, <<>>) /\ Tokens(<<>>) = 0 /\ Worded(<<>>) = {}
<1>1. Tokens(<<>>) = 0
  <2>1. <<>> \in Seq({}) /\ 1 .. Len(<<>>) = {}
    OBVIOUS
  <2>2. PICK k : Adds(k, [i \in 1 .. Len(<<>>) |-> <<>>[i].tokens], 1 .. Len(<<>>))
                 /\ Tokens(<<>>) = k[1 .. Len(<<>>)]
    BY <2>1, TokensAre
  <2> QED BY <2>1, <2>2 DEF Adds
<1>2. DOMAIN <<>> = {}
  OBVIOUS
<1>3. Worded(<<>>) = {}
  BY <1>2 DEF Worded
<1>4. ~ (0 > MaxTokens)
  BY ChunkingAssumption
<1> QED BY <1>1, <1>2, <1>3, <1>4 DEF Grouped, Sized, HeadedOnce, TableLast

\* Closing the group in the making keeps the loop in order.
LEMMA FlushKeeps ==
  ASSUME NEW c, LoopOK(c)
  PROVE  /\ LoopOK(Flush(c)) /\ Unended(Flush(c))
         /\ Flush(c).cur = <<>> /\ Flush(c).tokens = 0
         /\ Flush(c).phase = c.phase /\ Flush(c).units = c.units
         /\ Flush(c).kept = c.kept /\ Flush(c).at = c.at
<1> DEFINE R == Range(c.units)
           groups == IF c.cur = <<>> THEN c.groups ELSE Append(c.groups, c.cur)
           d == [c EXCEPT !.groups = groups, !.cur = <<>>, !.tokens = 0, !.inList = FALSE]
<1>1. /\ c \in [phase : {"units", "done"}, units : {c.units}, kept : {c.kept}, at : Nat,
                groups : Seq(Seq(R)), cur : Seq(R), tokens : Nat, inList : BOOLEAN]
      /\ Measured(c.units) /\ c.at \in 1 .. Len(c.units) + 1
      /\ FlattenSeq(c.groups) \o c.cur = SubSeq(c.units, 1, c.at - 1)
      /\ \A i \in DOMAIN c.groups : Grouped(c.kept, c.groups[i])
      /\ Grouped(c.kept, c.cur)
  BY DEF LoopOK
<1>2. Flush(c) = d
  BY DEF Flush
<1>3. c.groups \in Seq(Seq(R)) /\ c.cur \in Seq(R) /\ c.at \in Nat /\ c.phase \in {"units", "done"}
  <2> HIDE DEF R
  <2> QED BY <1>1
<1> HIDE DEF R
<1>4. groups \in Seq(Seq(R)) /\ \A i \in DOMAIN groups : Grouped(c.kept, groups[i])
  <2>1. CASE c.cur = <<>>
    BY <1>1, <1>3, <2>1
  <2>2. CASE c.cur # <<>>
    <3>1. groups = Append(c.groups, c.cur)
      BY <2>2
    <3>2. \A i \in 1 .. Len(c.groups) : groups[i] = c.groups[i] /\ i \in DOMAIN c.groups
      BY <1>3, <3>1
    <3>3. DOMAIN groups = 1 .. Len(c.groups) + 1 /\ groups[Len(c.groups) + 1] = c.cur
      BY <1>3, <3>1
    <3>4. \A i \in 1 .. Len(c.groups) + 1 : i \in 1 .. Len(c.groups) \/ i = Len(c.groups) + 1
      BY <1>3
    <3>5. \A i \in DOMAIN groups : Grouped(c.kept, groups[i])
      <4> HIDE DEF groups
      <4> QED BY <1>1, <3>2, <3>3, <3>4
    <3>6. groups \in Seq(Seq(R))
      BY <1>3, <3>1
    <3> QED BY <3>5, <3>6
  <2> QED BY <2>1, <2>2
<1>5. FlattenSeq(groups) \o <<>> = SubSeq(c.units, 1, c.at - 1)
  <2>1. /\ FlattenSeq(c.groups) \in Seq(R)
        /\ FlattenSeq(Append(c.groups, c.cur)) = FlattenSeq(c.groups) \o c.cur
    BY <1>3, FlattenMore
  <2>2. FlattenSeq(groups) = FlattenSeq(c.groups) \o c.cur
    <3>1. CASE c.cur = <<>>
      <4>1. FlattenSeq(c.groups) \o <<>> = FlattenSeq(c.groups)
        BY <2>1
      <4> QED BY <3>1, <4>1
    <3>2. CASE c.cur # <<>>
      BY <2>1, <3>2
    <3> QED BY <3>1, <3>2
  <2>3. (FlattenSeq(c.groups) \o c.cur) \o <<>> = FlattenSeq(c.groups) \o c.cur
    <3>1. FlattenSeq(c.groups) \o c.cur \in Seq(R)
      BY <1>3, <2>1
    <3> QED BY <3>1
  <2> HIDE DEF groups
  <2> QED BY <1>1, <2>2, <2>3
<1> HIDE DEF groups
<1>6. d \in [phase : {"units", "done"}, units : {c.units}, kept : {c.kept}, at : Nat,
             groups : Seq(Seq(R)), cur : Seq(R), tokens : Nat, inList : BOOLEAN]
  <2>1. <<>> \in Seq(R)
    OBVIOUS
  <2> QED BY <1>1, <1>4, <2>1
<1>7. /\ d.phase = c.phase /\ d.units = c.units /\ d.kept = c.kept /\ d.at = c.at
      /\ d.groups = groups /\ d.cur = <<>> /\ d.tokens = 0
  BY <1>1
<1> HIDE DEF d
<1>8. LoopOK(d)
  <2>1. Grouped(d.kept, d.cur) /\ d.tokens >= Tokens(d.cur)
    BY <1>7, EmptyGrouped
  <2>2. \A i \in DOMAIN d.groups : Grouped(d.kept, d.groups[i])
    BY <1>4, <1>7
  <2>3. d \in [phase : {"units", "done"}, units : {d.units}, kept : {d.kept}, at : Nat,
               groups : Seq(Seq(Range(d.units))), cur : Seq(Range(d.units)), tokens : Nat,
               inList : BOOLEAN]
    BY <1>6, <1>7 DEF R
  <2> QED BY <1>1, <1>5, <1>7, <2>1, <2>2, <2>3 DEF LoopOK
<1>9. Unended(d)
  <2>1. DOMAIN <<>> = {}
    OBVIOUS
  <2> QED BY <1>7, <2>1 DEF Unended
<1> QED BY <1>2, <1>7, <1>8, <1>9

\* Counting more words than there are, or being in a list, is no harm.
LEMMA LeadKeeps ==
  ASSUME NEW c, LoopOK(c), NEW t \in Nat, t >= c.tokens, NEW b \in BOOLEAN
  PROVE  LET d == [c EXCEPT !.tokens = t, !.inList = b] IN
         /\ LoopOK(d) /\ (Unended(c) => Unended(d)) /\ d.cur = c.cur /\ d.tokens = t
         /\ d.phase = c.phase /\ d.units = c.units /\ d.kept = c.kept /\ d.at = c.at
<1> DEFINE d == [c EXCEPT !.tokens = t, !.inList = b]
<1>1. c \in [phase : {"units", "done"}, units : {c.units}, kept : {c.kept}, at : Nat,
             groups : Seq(Seq(Range(c.units))), cur : Seq(Range(c.units)), tokens : Nat,
             inList : BOOLEAN]
  BY DEF LoopOK
<1>2. /\ d.phase = c.phase /\ d.units = c.units /\ d.kept = c.kept /\ d.at = c.at
      /\ d.groups = c.groups /\ d.cur = c.cur /\ d.tokens = t
  BY <1>1
<1>3. d \in [phase : {"units", "done"}, units : {c.units}, kept : {c.kept}, at : Nat,
             groups : Seq(Seq(Range(c.units))), cur : Seq(Range(c.units)), tokens : Nat,
             inList : BOOLEAN]
  BY <1>1
<1> HIDE DEF d
<1>4. d.tokens >= Tokens(d.cur)
  <2>1. c.tokens \in Nat /\ c.tokens >= Tokens(c.cur) /\ Tokens(c.cur) \in Nat
    <3>1. \A u \in Range(c.units) : u.tokens \in Nat
      BY DEF LoopOK, Measured
    <3>2. Tokens(c.cur) \in Nat
      <4>1. CASE c.cur = <<>>
        BY <4>1, EmptyGrouped
      <4>2. CASE c.cur # <<>>
        <5>1. c.cur[1] \in Range(c.units) /\ c.cur \in Seq(Range(c.units))
          BY <1>1, <4>2
        <5> QED BY <3>1, <5>1, TokensMore
      <4> QED BY <4>1, <4>2
    <3> QED BY <1>1, <3>2 DEF LoopOK
  <2> QED BY <1>2, <2>1
<1>5. LoopOK(d)
  BY <1>2, <1>3, <1>4 DEF LoopOK
<1> QED BY <1>2, <1>5 DEF Unended, d

\* Being in a list or at another phase is no harm either.
LEMMA PhaseKeeps ==
  ASSUME NEW c, LoopOK(c), NEW b \in BOOLEAN, NEW p \in {"units", "done"}
  PROVE  /\ LET d == [c EXCEPT !.inList = b] IN
            /\ LoopOK(d) /\ (Unended(c) => Unended(d)) /\ d.cur = c.cur /\ d.tokens = c.tokens
            /\ d.phase = c.phase /\ d.units = c.units /\ d.kept = c.kept /\ d.at = c.at
         /\ LET d == [c EXCEPT !.phase = p] IN
            /\ LoopOK(d) /\ (Unended(c) => Unended(d)) /\ d.cur = c.cur /\ d.groups = c.groups
            /\ d.phase = p /\ d.units = c.units /\ d.kept = c.kept /\ d.at = c.at
<1> DEFINE l == [c EXCEPT !.inList = b]
           q == [c EXCEPT !.phase = p]
<1>1. c \in [phase : {"units", "done"}, units : {c.units}, kept : {c.kept}, at : Nat,
             groups : Seq(Seq(Range(c.units))), cur : Seq(Range(c.units)), tokens : Nat,
             inList : BOOLEAN]
  BY DEF LoopOK
<1>2. /\ l.phase = c.phase /\ l.units = c.units /\ l.kept = c.kept /\ l.at = c.at
      /\ l.groups = c.groups /\ l.cur = c.cur /\ l.tokens = c.tokens
  BY <1>1
<1>3. /\ q.phase = p /\ q.units = c.units /\ q.kept = c.kept /\ q.at = c.at
      /\ q.groups = c.groups /\ q.cur = c.cur /\ q.tokens = c.tokens
  BY <1>1
<1>4. l \in [phase : {"units", "done"}, units : {c.units}, kept : {c.kept}, at : Nat,
             groups : Seq(Seq(Range(c.units))), cur : Seq(Range(c.units)), tokens : Nat,
             inList : BOOLEAN]
  BY <1>1
<1>5. q \in [phase : {"units", "done"}, units : {c.units}, kept : {c.kept}, at : Nat,
             groups : Seq(Seq(Range(c.units))), cur : Seq(Range(c.units)), tokens : Nat,
             inList : BOOLEAN]
  BY <1>1
<1> HIDE DEF l, q
<1>6. LoopOK(l)
  BY <1>2, <1>4 DEF LoopOK
<1>7. LoopOK(q)
  BY <1>3, <1>5 DEF LoopOK
<1>8. Unended(c) => Unended(l) /\ Unended(q)
  BY <1>2, <1>3 DEF Unended
<1> QED BY <1>2, <1>3, <1>6, <1>7, <1>8 DEF l, q

\* A unit may join a group that it does not make too long, or that has no words.
LEMMA JoinsGroup ==
  ASSUME NEW R, \A u \in R : u.tokens \in Nat, NEW x \in Seq(R), NEW u \in R, NEW kept,
         Grouped(kept, x), "table" \in kept => \A i \in DOMAIN x : x[i].kind # "table",
         u.kind = "heading" => x = <<>>,
         Tokens(x) + u.tokens <= MaxTokens \/ Tokens(x) = 0
  PROVE  /\ Grouped(kept, Append(x, u)) /\ Tokens(Append(x, u)) = Tokens(x) + u.tokens
         /\ Tokens(x) \in Nat
<1> DEFINE y == Append(x, u)
           n == Len(x)
<1>1. /\ n \in Nat /\ DOMAIN x = 1 .. n /\ DOMAIN y = 1 .. n + 1 /\ Len(y) = n + 1 /\ y[n + 1] = u
      /\ \A i \in 1 .. n : y[i] = x[i]
  OBVIOUS
<1>2. Tokens(x) \in Nat /\ u.tokens \in Nat /\ Tokens(y) = Tokens(x) + u.tokens
  BY TokensMore
<1> HIDE DEF y, n
<1>3. \A i \in 1 .. n + 1 : i \in 1 .. n \/ i = n + 1
  BY <1>1
<1>4. n + 1 \in DOMAIN y /\ n + 1 \notin DOMAIN x /\ DOMAIN x \subseteq DOMAIN y
  BY <1>1
<1>5. Worded(y) = IF u.tokens > 0 THEN Worded(x) \cup {n + 1} ELSE Worded(x)
  <2>1. \A i \in DOMAIN y : i \in Worded(y) <=> (i \in Worded(x) \/ (i = n + 1 /\ u.tokens > 0))
    BY <1>1, <1>3, <1>4 DEF Worded
  <2>2. Worded(y) \subseteq DOMAIN y /\ Worded(x) \subseteq DOMAIN y
    BY <1>4 DEF Worded
  <2> QED BY <1>4, <2>1, <2>2
<1>6. Sized(y)
  <2>1. ASSUME Tokens(y) > MaxTokens PROVE Cardinality(Worded(y)) = 1
    <3>1. Tokens(x) = 0 /\ u.tokens > 0
      BY <1>2, <2>1, ChunkingAssumption
    <3>2. Worded(y) = {n + 1}
      BY <1>5, <3>1 DEF Grouped, Sized
    <3> QED BY <3>2, FS_Singleton
  <2>2. ASSUME Tokens(y) = 0 PROVE Worded(y) = {}
    <3>1. Tokens(x) = 0 /\ ~ (u.tokens > 0)
      BY <1>2, <2>2
    <3> QED BY <1>5, <3>1 DEF Grouped, Sized
  <2> QED BY <2>1, <2>2 DEF Sized
<1>7. HeadedOnce(y)
  <2> SUFFICES ASSUME NEW i \in DOMAIN y, y[i].kind = "heading" PROVE i = 1
    BY DEF HeadedOnce
  <2>1. CASE i \in 1 .. n
    BY <1>1, <2>1 DEF Grouped, HeadedOnce
  <2>2. CASE i = n + 1
    <3>1. x = <<>>
      BY <1>1, <2>2
    <3> QED BY <2>2, <3>1 DEF n
  <2> QED BY <1>1, <1>3, <2>1, <2>2
<1>8. TableLast(kept, y)
  BY <1>1, <1>3 DEF TableLast
<1> QED BY <1>2, <1>6, <1>7, <1>8 DEF Grouped, y

\* Taking the next unit into the group in the making keeps the loop in order.
LEMMA AddKeeps ==
  ASSUME NEW c, LoopOK(c), Unended(c), c.units = chunker.units, c.at = chunker.at,
         c.at <= Len(c.units), Unit.kind = "heading" => c.cur = <<>>,
         ~ Overflows(c, MaxTokens) \/ c.cur = <<>> \/ c.tokens = 0
  PROVE  /\ LoopOK(Add(c)) /\ Add(c).phase = c.phase
         /\ ~ (Unit.kind = "table" /\ "table" \in c.kept) => Unended(Add(c))
<1> DEFINE R == Range(c.units)
           x == c.cur
           y == Append(c.cur, Unit)
           t == c.tokens + Unit.tokens
           d == [c EXCEPT !.cur = y, !.tokens = t, !.at = c.at + 1]
<1>1. c \in [phase : {"units", "done"}, units : {c.units}, kept : {c.kept}, at : Nat,
             groups : Seq(Seq(R)), cur : Seq(R), tokens : Nat, inList : BOOLEAN]
  BY DEF LoopOK
<1>2. /\ Measured(c.units) /\ c.at \in 1 .. Len(c.units) /\ Grouped(c.kept, x)
      /\ FlattenSeq(c.groups) \o x = SubSeq(c.units, 1, c.at - 1)
      /\ \A i \in DOMAIN c.groups : Grouped(c.kept, c.groups[i])
      /\ c.tokens >= Tokens(x)
  BY DEF LoopOK
<1>3. Add(c) = d
  BY DEF Add
<1>4. Unit \in R /\ Unit = c.units[c.at] /\ c.units \in Seq(R) /\ \A u \in R : u.tokens \in Nat
  BY <1>2 DEF Unit, Measured, Range
<1>5. x \in Seq(R) /\ c.groups \in Seq(Seq(R)) /\ c.tokens \in Nat /\ c.at \in Nat
  <2> HIDE DEF R
  <2> QED BY <1>1
<1> HIDE DEF R
<1>6. Tokens(x) \in Nat
  <2>1. \A u \in R, s \in Seq(R) : Tokens(s) \in Nat
    BY <1>4, TokensMore
  <2> QED BY <1>4, <1>5, <2>1
<1>7. Tokens(x) + Unit.tokens <= MaxTokens \/ Tokens(x) = 0
  <2>1. CASE ~ Overflows(c, MaxTokens)
    <3>1. PICK m \in Nat, u \in Nat, k \in Nat, l \in Nat :
                m = MaxTokens /\ u = Unit.tokens /\ k = Tokens(x) /\ l = c.tokens
      BY <1>4, <1>5, <1>6, ChunkingAssumption
    <3>2. ~ (l + u > m) /\ l >= k
      BY <1>2, <2>1, <3>1 DEF Overflows
    <3> QED BY <3>1, <3>2
  <2>2. CASE c.cur = <<>>
    BY <2>2, EmptyGrouped
  <2>3. CASE c.tokens = 0
    BY <1>2, <1>6, <2>3
  <2> QED BY <2>1, <2>2, <2>3
<1>8. Grouped(c.kept, y) /\ Tokens(y) = Tokens(x) + Unit.tokens
  <2>1. "table" \in c.kept => \A i \in DOMAIN x : x[i].kind # "table"
    BY DEF Unended
  <2>2. Unit.kind = "heading" => x = <<>>
    OBVIOUS
  <2> HIDE DEF x
  <2> QED BY <1>2, <1>4, <1>5, <1>7, <2>1, <2>2, JoinsGroup DEF x
<1>9. FlattenSeq(c.groups) \o y = SubSeq(c.units, 1, c.at)
  <2>1. FlattenSeq(c.groups) \in Seq(R)
    BY <1>5, FlattenMore
  <2>2. FlattenSeq(c.groups) \o Append(x, Unit) = Append(FlattenSeq(c.groups) \o x, Unit)
    <3>1. PICK f \in Seq(R), e \in Seq(R), u \in R : f = FlattenSeq(c.groups) /\ e = x /\ u = Unit
      BY <1>4, <1>5, <2>1
    <3>2. f \o Append(e, u) = Append(f \o e, u)
      OBVIOUS
    <3> HIDE DEF x
    <3> QED BY <3>1, <3>2
  <2>3. SubSeq(c.units, 1, c.at) = Append(SubSeq(c.units, 1, c.at - 1), c.units[c.at])
    BY <1>2, <1>4
  <2> QED BY <1>2, <1>4, <2>2, <2>3
<1>10. y \in Seq(R) /\ t \in Nat /\ c.at + 1 \in Nat
  BY <1>4, <1>5
<1> HIDE DEF x, y, t
<1>11. /\ d.phase = c.phase /\ d.units = c.units /\ d.kept = c.kept /\ d.at = c.at + 1
       /\ d.groups = c.groups /\ d.cur = y /\ d.tokens = t
  BY <1>1
<1>12. d \in [phase : {"units", "done"}, units : {c.units}, kept : {c.kept}, at : Nat,
              groups : Seq(Seq(R)), cur : Seq(R), tokens : Nat, inList : BOOLEAN]
  BY <1>1, <1>10
<1> HIDE DEF d
<1>13. LoopOK(d)
  <2>1. d \in [phase : {"units", "done"}, units : {d.units}, kept : {d.kept}, at : Nat,
               groups : Seq(Seq(Range(d.units))), cur : Seq(Range(d.units)), tokens : Nat,
               inList : BOOLEAN]
    BY <1>11, <1>12 DEF R
  <2>2. d.at \in 1 .. Len(d.units) + 1 /\ d.at - 1 = c.at
    BY <1>2, <1>4, <1>11
  <2>3. d.tokens >= Tokens(d.cur)
    BY <1>2, <1>4, <1>5, <1>6, <1>8, <1>11 DEF t
  <2>4. FlattenSeq(d.groups) \o d.cur = SubSeq(d.units, 1, d.at - 1)
    BY <1>9, <1>11, <2>2
  <2>5. /\ Measured(d.units) /\ Grouped(d.kept, d.cur)
        /\ \A i \in DOMAIN d.groups : Grouped(d.kept, d.groups[i])
    BY <1>2, <1>8, <1>11
  <2> QED BY <2>1, <2>2, <2>3, <2>4, <2>5 DEF LoopOK
<1>14. ~ (Unit.kind = "table" /\ "table" \in c.kept) => Unended(d)
  <2> SUFFICES ASSUME ~ (Unit.kind = "table" /\ "table" \in c.kept), "table" \in c.kept,
                      NEW i \in DOMAIN y
               PROVE  y[i].kind # "table"
    BY <1>11 DEF Unended
  <2>1. CASE i = Len(x) + 1
    BY <1>4, <1>5, <2>1 DEF y, x
  <2>2. CASE i # Len(x) + 1
    <3>1. y = Append(x, Unit)
      BY DEF x, y
    <3>2. i \in DOMAIN x /\ y[i] = x[i]
      BY <1>4, <1>5, <2>2, <3>1
    <3> QED BY <3>2 DEF Unended, x
  <2> QED BY <2>1, <2>2
<1> QED BY <1>3, <1>11, <1>13, <1>14

\* Any document is read into units that are counted and located.
LEMMA UnitsMeasured ==
  ASSUME NEW doc \in Layouts
  PROVE  Measured(normalize_blocks(doc))
<1> DEFINE B == Range(doc.blocks)
           gs == [i \in DOMAIN doc.blocks |->
                    IF doc.blocks[i].tokens > 0 THEN <<doc.blocks[i]>> ELSE <<>>]
           blocks == IF doc.docling THEN FlattenSeq(gs) ELSE doc.blocks
           unit(i) == [id |-> i, kind |-> Kind(doc, blocks[i].type), tokens |-> blocks[i].tokens,
                       path |-> IF doc.docling THEN <<>> ELSE blocks[i].path,
                       pages |-> blocks[i].pages \ {0}, boxes |-> blocks[i].boxes,
                       refs |-> IF doc.docling THEN {i} ELSE {}]
           units == [i \in DOMAIN blocks |-> unit(i)]
<1>1. /\ doc.blocks \in Seq(B)
      /\ \A b \in B : b.tokens \in Nat /\ b.pages \subseteq Nat /\ IsFiniteSet(b.pages)
  BY LayoutsAssumption
<1>2. normalize_blocks(doc) = units
  BY DEF normalize_blocks, _extract_docling_blocks
<1> HIDE DEF B
<1>3. gs \in Seq(Seq(B))
  <2>1. PICK n \in Nat : DOMAIN doc.blocks = 1 .. n /\ \A i \in 1 .. n : doc.blocks[i] \in B
    BY <1>1
  <2>2. \A i \in 1 .. n : (IF doc.blocks[i].tokens > 0 THEN <<doc.blocks[i]>> ELSE <<>>) \in Seq(B)
    <3> SUFFICES ASSUME NEW i \in 1 .. n
                 PROVE (IF doc.blocks[i].tokens > 0 THEN <<doc.blocks[i]>> ELSE <<>>) \in Seq(B)
      OBVIOUS
    <3>1. PICK b \in B : b = doc.blocks[i]
      BY <2>1
    <3>2. <<b>> \in Seq(B) /\ <<>> \in Seq(B)
      OBVIOUS
    <3> QED BY <3>1, <3>2
  <2>3. gs \in [1 .. n -> Seq(B)]
    BY <2>1, <2>2
  <2> HIDE DEF gs
  <2> QED BY <2>3
<1> HIDE DEF gs
<1>4. blocks \in Seq(B)
  <2>1. <<>> \in Seq(B)
    OBVIOUS
  <2>2. FlattenSeq(gs) \in Seq(B)
    BY <1>3, <2>1, FlattenMore
  <2> QED BY <1>1, <2>2
<1> HIDE DEF blocks
<1>5. PICK n \in Nat : DOMAIN blocks = 1 .. n /\ \A i \in 1 .. n : blocks[i] \in B
  BY <1>4
<1>6. ASSUME NEW i \in 1 .. n
      PROVE  units[i].tokens \in Nat /\ units[i].pages \subseteq Nat \ {0} /\ IsFiniteSet(units[i].pages)
  <2>1. PICK b \in B : b = blocks[i]
    BY <1>5
  <2>2. units[i].tokens = b.tokens /\ units[i].pages = b.pages \ {0}
    BY <1>5, <2>1
  <2>3. b.tokens \in Nat /\ b.pages \subseteq Nat /\ IsFiniteSet(b.pages)
    BY <1>1
  <2>4. b.pages \ {0} \in SUBSET b.pages
    OBVIOUS
  <2>5. IsFiniteSet(b.pages \ {0})
    BY <2>3, <2>4, FS_Subset
  <2> HIDE DEF units
  <2> QED BY <2>2, <2>3, <2>5
<1>7. DOMAIN units = 1 .. n /\ units = [i \in 1 .. n |-> units[i]]
  BY <1>5
<1> HIDE DEF units
<1>8. units \in Seq(Range(units)) /\ Range(units) = {units[i] : i \in 1 .. n}
  <2>1. Range(units) = {units[i] : i \in 1 .. n}
    BY <1>7 DEF Range
  <2>2. units \in [1 .. n -> Range(units)]
    BY <1>7, <2>1
  <2> HIDE DEF Range
  <2> QED BY <2>1, <2>2
<1> QED BY <1>2, <1>6, <1>8 DEF Measured

\* The chunks made of groups.
Made(gs) ==
  [i \in DOMAIN gs |->
     [units |-> gs[i], reasons |-> BoundaryReasons(gs[i]), context |-> Context(gs, i),
      span |-> Span(gs[i], i), precision |-> with_derived_precision(Span(gs[i], i))]]

\* The inductive invariant: the loop is in order, and what was made is of all of its groups.
ChunkInv ==
  \/ chunker = NoDocument
  \/ /\ LoopOK(chunker) /\ Unended(chunker)
     /\ chunker.phase = "done" => /\ chunker.at = Len(chunker.units) + 1 /\ chunker.cur = <<>>
                                  /\ chunked = Made(chunker.groups)

\* Reading starts with nothing read.
LEMMA ReadKeeps ==
  ASSUME ReadDocument
  PROVE  ChunkInv'
<1>1. PICK doc \in Layouts, kept \in KeepChoices :
        chunker' = [phase |-> "units", units |-> normalize_blocks(doc), kept |-> kept, at |-> 1,
                    groups |-> <<>>, cur |-> <<>>, tokens |-> 0, inList |-> FALSE]
  BY DEF ReadDocument
<1>2. PICK us : us = normalize_blocks(doc) /\ Measured(us)
  BY UnitsMeasured
<1>3. PICK c : c = [phase |-> "units", units |-> us, kept |-> kept, at |-> 1,
                    groups |-> <<>>, cur |-> <<>>, tokens |-> 0, inList |-> FALSE]
  OBVIOUS
<1>4. c.phase = "units" /\ c.units = us /\ c.kept = kept /\ c.at = 1 /\ c.groups = <<>> /\ c.cur = <<>>
      /\ c.tokens = 0
  BY <1>3
<1>5. LoopOK(c)
  <2>1. c \in [phase : {"units", "done"}, units : {us}, kept : {kept}, at : Nat,
               groups : Seq(Seq(Range(us))), cur : Seq(Range(us)), tokens : Nat,
               inList : BOOLEAN]
    <3>1. <<>> \in Seq(Seq(Range(us))) /\ <<>> \in Seq(Range(us))
      OBVIOUS
    <3> QED BY <1>3, <3>1
  <2>2. us \in Seq(Range(us)) /\ Len(us) \in Nat
    BY <1>2 DEF Measured
  <2>3. FlattenSeq(<<>>) \o <<>> = SubSeq(us, 1, 0)
    <3>1. Len(<<>>) = 0 /\ <<>> \o <<>> = <<>>
      OBVIOUS
    <3>2. FlattenSeq(<<>>) = <<>>
      BY <3>1 DEF FlattenSeq
    <3>3. SubSeq(us, 1, 0) = <<>>
      BY <2>2
    <3> QED BY <3>1, <3>2, <3>3
  <2>4. Grouped(kept, <<>>) /\ 0 >= Tokens(<<>>)
    BY EmptyGrouped
  <2>5. c.at \in 1 .. Len(us) + 1 /\ c.at - 1 = 0 /\ DOMAIN <<>> = {}
    BY <1>4, <2>2
  <2> QED BY <1>2, <1>4, <2>1, <2>3, <2>4, <2>5 DEF LoopOK
<1>6. Unended(c) /\ c.phase # "done"
  <2>1. DOMAIN <<>> = {}
    OBVIOUS
  <2> QED BY <1>4, <2>1 DEF Unended
<1>7. chunker' = c
  BY <1>1, <1>2, <1>3
<1>8. LoopOK(chunker') /\ Unended(chunker') /\ chunker'.phase # "done"
  BY <1>5, <1>6, <1>7
<1> QED BY <1>8 DEF ChunkInv

\* One step of the loop, for each kind of unit.
LEMMA TakeKeeps ==
  ASSUME ChunkInv, TakeHeading \/ TakeTable \/ TakeListItem \/ TakeText
  PROVE  ChunkInv'
<1>1. PICK c : c = chunker
  OBVIOUS
<1>2. /\ c.phase = "units" /\ c.at <= Len(c.units)
  BY <1>1 DEF TakeHeading, TakeTable, TakeListItem, TakeText, Taking
<1>3. LoopOK(c) /\ Unended(c) /\ c.tokens \in Nat
  <2>1. LoopOK(c) /\ Unended(c)
    BY <1>1, <1>2 DEF ChunkInv, NoDocument
  <2> QED BY <2>1 DEF LoopOK
<1> DEFINE Fine(d) == /\ LoopOK(d) /\ Unended(d) /\ d.phase = c.phase
                      /\ d.units = c.units /\ d.kept = c.kept /\ d.at = c.at
<1>4. ASSUME NEW d, Fine(d), Unit.kind = "heading" => d.cur = <<>>,
             ~ Overflows(d, MaxTokens) \/ d.cur = <<>> \/ d.tokens = 0
      PROVE  /\ LoopOK(Add(d)) /\ Add(d).phase = "units"
             /\ ~ (Unit.kind = "table" /\ "table" \in c.kept) => Unended(Add(d))
  BY <1>1, <1>2, <1>4, AddKeeps
<1>5. ASSUME NEW d, Fine(d)
      PROVE  Fine(Flush(d)) /\ Flush(d).cur = <<>> /\ Flush(d).tokens = 0
  BY <1>5, FlushKeeps
<1>6. Fine(c)
  BY <1>3
<1> HIDE DEF Fine
<1>7. ASSUME LoopOK(chunker'), Unended(chunker'), chunker'.phase = "units" PROVE ChunkInv'
  BY <1>7 DEF ChunkInv
<1>8. ASSUME NEW d, LoopOK(d), d.phase = "units"
      PROVE  LoopOK(Flush(d)) /\ Unended(Flush(d)) /\ Flush(d).phase = "units"
  BY <1>8, FlushKeeps
<1>9. CASE TakeHeading
  <2>1. chunker' = Add(Flush(c)) /\ Unit.kind # "table"
    BY <1>1, <1>9, ChunkingAssumption DEF TakeHeading, Taking, Branch
  <2>2. Fine(Flush(c)) /\ Flush(c).cur = <<>>
    BY <1>5, <1>6
  <2>3. LoopOK(Add(Flush(c))) /\ Add(Flush(c)).phase = "units" /\ Unended(Add(Flush(c)))
    BY <1>4, <2>1, <2>2
  <2> QED BY <1>7, <2>1, <2>3
<1>10. CASE TakeTable
  <2>1. PICK d : /\ d = IF c.cur # <<>> /\ Overflows(c, MaxTokens) THEN Flush(c) ELSE c
                 /\ chunker' = Flush(Add(d))
    BY <1>1, <1>10 DEF TakeTable
  <2>2. Unit.kind # "heading"
    BY <1>10 DEF TakeTable, Taking, Branch
  <2>3. Fine(d) /\ (~ Overflows(d, MaxTokens) \/ d.cur = <<>>)
    BY <1>5, <1>6, <2>1
  <2>4. LoopOK(Add(d)) /\ Add(d).phase = "units"
    BY <1>4, <2>2, <2>3
  <2> QED BY <1>7, <1>8, <2>1, <2>4
<1>11. CASE TakeListItem
  <2> DEFINE led == IF c.inList THEN c
                    ELSE [c EXCEPT !.tokens = IF c.tokens > MinTokens THEN c.tokens ELSE MinTokens,
                                   !.inList = TRUE]
             d == IF Overflows(led, MaxTokens) THEN [Flush(led) EXCEPT !.inList = TRUE] ELSE led
  <2>1. chunker' = Add(d) /\ Unit.kind # "heading" /\ Unit.kind # "table"
    BY <1>1, <1>11, ChunkingAssumption DEF TakeListItem, Taking, Branch
  <2>2. Fine(led)
    <3>1. CASE c.inList
      BY <1>6, <3>1
    <3>2. CASE ~ c.inList
      <4>1. PICK t \in Nat : t = (IF c.tokens > MinTokens THEN c.tokens ELSE MinTokens) /\ t >= c.tokens
        BY <1>3, ChunkingAssumption
      <4>2. led = [c EXCEPT !.tokens = t, !.inList = TRUE]
        BY <3>2, <4>1
      <4> QED BY <1>3, <4>1, <4>2, LeadKeeps DEF Fine
    <3> QED BY <3>1, <3>2
  <2> HIDE DEF led
  <2>3. Fine(d) /\ (~ Overflows(d, MaxTokens) \/ d.cur = <<>>)
    <3>1. CASE ~ Overflows(led, MaxTokens)
      BY <2>2, <3>1
    <3>2. CASE Overflows(led, MaxTokens)
      <4>1. PICK e : e = Flush(led)
        OBVIOUS
      <4>2. Fine(e) /\ e.cur = <<>> /\ e.tokens = 0
        BY <1>5, <2>2, <4>1
      <4>3. d = [e EXCEPT !.inList = TRUE]
        BY <3>2, <4>1
      <4> HIDE DEF d
      <4>4. LoopOK(d) /\ Unended(d) /\ d.cur = e.cur /\ d.phase = e.phase /\ d.units = e.units
            /\ d.kept = e.kept /\ d.at = e.at
        BY <4>2, <4>3, PhaseKeeps DEF Fine
      <4> QED BY <4>2, <4>4 DEF Fine
    <3> QED BY <3>1, <3>2
  <2> HIDE DEF d
  <2>4. LoopOK(Add(d)) /\ Add(d).phase = "units" /\ Unended(Add(d))
    BY <1>4, <2>1, <2>3
  <2> QED BY <1>7, <2>1, <2>4
<1>12. CASE TakeText
  <2> DEFINE aimed == IF Overflows(c, TargetTokens) /\ c.tokens >= MinTokens THEN Flush(c) ELSE c
             over == Overflows(aimed, MaxTokens)
             alone == over /\ aimed.cur # <<>> /\ aimed.tokens = 0
             d == IF over /\ ~ alone THEN Flush(aimed) ELSE aimed
             added == Add(d)
  <2>1. chunker' = IF alone \/ added.tokens >= MaxTokens THEN Flush(added) ELSE added
    BY <1>1, <1>12 DEF TakeText
  <2>2. Unit.kind # "heading" /\ ~ (Unit.kind = "table" /\ "table" \in c.kept)
    BY <1>1, <1>12 DEF TakeText, Taking, Branch
  <2>3. Fine(aimed)
    BY <1>5, <1>6
  <2> HIDE DEF aimed
  <2>4. Fine(d) /\ (~ Overflows(d, MaxTokens) \/ d.cur = <<>> \/ d.tokens = 0)
    BY <1>5, <2>3
  <2> HIDE DEF d
  <2>5. LoopOK(added) /\ added.phase = "units" /\ Unended(added)
    BY <1>4, <2>2, <2>4
  <2>6. LoopOK(Flush(added)) /\ Unended(Flush(added)) /\ Flush(added).phase = "units"
    BY <1>8, <2>5
  <2> HIDE DEF added, alone
  <2> QED BY <1>7, <2>1, <2>5, <2>6
<1> QED BY <1>9, <1>10, <1>11, <1>12

\* chunk_document ends the last group and makes the chunks.
LEMMA EndKeeps ==
  ASSUME ChunkInv, chunk_document
  PROVE  ChunkInv'
<1>1. PICK c : c = chunker
  OBVIOUS
<1>2. c.phase = "units" /\ c.at > Len(c.units)
  BY <1>1 DEF chunk_document
<1>3. LoopOK(c)
  BY <1>1, <1>2 DEF ChunkInv, NoDocument
<1>4. c.at = Len(c.units) + 1
  <2>1. PICK n \in Nat, k \in Nat : n = Len(c.units) /\ k = c.at
    BY <1>3 DEF LoopOK, Measured
  <2>2. k > n /\ k \in 1 .. n + 1
    BY <1>2, <1>3, <2>1 DEF LoopOK
  <2> QED BY <2>1, <2>2
<1>5. PICK e : e = Flush(c)
  OBVIOUS
<1>6. LoopOK(e) /\ Unended(e) /\ e.cur = <<>> /\ e.units = c.units /\ e.at = c.at
  BY <1>3, <1>5, FlushKeeps
<1>7. PICK d : d = [e EXCEPT !.phase = "done"]
  OBVIOUS
<1>8. LoopOK(d) /\ Unended(d) /\ d.cur = <<>> /\ d.units = c.units /\ d.at = c.at
  BY <1>6, <1>7, PhaseKeeps
<1>9. chunker' = d
  BY <1>1, <1>5, <1>7 DEF chunk_document
<1>10. chunked' = Made(d.groups)
  <2>1. chunked' = Made(chunker'.groups)
    BY DEF chunk_document, Made
  <2> QED BY <1>9, <2>1
<1>11. d.at = Len(d.units) + 1
  BY <1>4, <1>8
<1> QED BY <1>8, <1>9, <1>10, <1>11 DEF ChunkInv, Made

\* The pages of some located units are finitely many.
LEMMA PagesFinite ==
  ASSUME NEW R, \A u \in R : u.pages \subseteq Nat \ {0} /\ IsFiniteSet(u.pages), NEW g \in Seq(R)
  PROVE  LET on == UNION {g[u].pages : u \in DOMAIN g} IN
         IsFiniteSet(on) /\ on \subseteq Nat \ {0}
<1> DEFINE S == DOMAIN g
           P == {g[u].pages : u \in S}
           f == [u \in S |-> g[u].pages]
<1>1. IsFiniteSet(S) /\ \A u \in S : g[u] \in R
  <2>1. S = 1 .. Len(g) /\ Len(g) \in Nat /\ Len(g) \in Int /\ 1 \in Int
    OBVIOUS
  <2>2. IsFiniteSet(1 .. Len(g))
    BY <2>1, FS_Interval
  <2> QED BY <2>1, <2>2
<1>2. f \in Surjection(S, P)
  BY DEF Surjection
<1>3. IsFiniteSet(P)
  <2> HIDE DEF S, P, f
  <2> QED BY <1>1, <1>2, FS_Surjection
<1>4. \A T \in P : IsFiniteSet(T) /\ T \subseteq Nat \ {0}
  BY <1>1
<1>5. IsFiniteSet(UNION P)
  <2> HIDE DEF P
  <2> QED BY <1>3, <1>4, FS_UNION
<1>6. UNION P \subseteq Nat \ {0}
  BY <1>4
<1> QED BY <1>5, <1>6

\* A span claims the page, or the first and the last page, its units are on.
LEMMA SpanTells ==
  ASSUME NEW R, \A u \in R : u.pages \subseteq Nat \ {0} /\ IsFiniteSet(u.pages), NEW g \in Seq(R),
         NEW i
  PROVE  LET s  == Span(g, i)
             p  == with_derived_precision(s)
             on == UNION {g[u].pages : u \in DOMAIN g}
         IN  /\ p \in {"exact_page", "exact_bbox"} => on = {s.page}
             /\ p = "page_range" => {s.first, s.last} \subseteq on
             /\ on \subseteq s.first .. s.last
<1> DEFINE on == UNION {g[u].pages : u \in DOMAIN g}
           s == Span(g, i)
           p == with_derived_precision(s)
<1>1. IsFiniteSet(on) /\ on \subseteq Nat \ {0}
  BY PagesFinite
<1>2. _merge_locations(g).pages = on
  BY DEF _merge_locations
<1> HIDE DEF on
<1>3. /\ s.first = (IF on = {} THEN 0 ELSE FirstPage(on))
      /\ s.last = (IF on = {} THEN 0 ELSE LastPage(on))
      /\ s.page = (IF Cardinality(on) = 1 THEN FirstPage(on) ELSE 0)
  BY <1>2 DEF Span
<1>4. /\ p \in {"exact_page", "exact_bbox"} => s.page # 0
      /\ p = "page_range" => s.page = 0 /\ s.first # 0
  BY DEF with_derived_precision
<1> HIDE DEF s, p
<1>5. CASE on = {}
  <2>1. Cardinality(on) = 0
    BY <1>5, FS_EmptySet
  <2>2. s.first = 0 /\ s.page = 0
    BY <1>3, <1>5, <2>1
  <2> QED BY <1>4, <1>5, <2>2 DEF on, s, p
<1>6. CASE on # {}
  <2>1. on \subseteq Int
    BY <1>1
  <2>2. PICK a : a = FirstPage(on) /\ a \in on /\ \A n \in on : a <= n
    <3>1. \E m \in on : \A n \in on : m <= n
      BY <1>1, <1>6, <2>1, SmallestExists
    <3> QED BY <3>1 DEF FirstPage
  <2>3. PICK z : z = LastPage(on) /\ z \in on /\ \A n \in on : n <= z
    <3>1. PICK m \in on : \A n \in on : m >= n
      BY <1>1, <1>6, <2>1, GreatestExists
    <3>2. \A n \in on : n <= m
      BY <2>1, <3>1
    <3> QED BY <3>2 DEF LastPage
  <2>4. s.first = a /\ s.last = z
    BY <1>3, <1>6, <2>2, <2>3
  <2>5. on \subseteq a .. z
    BY <2>1, <2>2, <2>3
  <2>6. ASSUME Cardinality(on) = 1 PROVE on = {s.page}
    <3>1. PICK x : on = {x}
      BY <1>1, <2>6, FS_Singleton
    <3>2. s.page = a
      BY <1>3, <2>2, <2>6
    <3> QED BY <2>2, <3>1, <3>2
  <2>7. s.page # 0 => Cardinality(on) = 1
    BY <1>3
  <2> QED BY <1>4, <2>2, <2>3, <2>4, <2>5, <2>6, <2>7 DEF on, s, p
<1> QED BY <1>5, <1>6

\* What the loop keeps is what is asked of the chunks.
LEMMA ChunksTell ==
  ASSUME ChunkInv
  PROVE  ChunksAreFaithful
<1> SUFFICES ASSUME chunker.phase = "done" PROVE ChunksAreFaithful
  BY DEF ChunksAreFaithful
<1>1. PICK gs, us, R : gs = chunker.groups /\ us = chunker.units /\ R = Range(us)
  OBVIOUS
<1>2. /\ LoopOK(chunker) /\ chunker.at = Len(us) + 1 /\ chunker.cur = <<>> /\ chunked = Made(gs)
  BY <1>1 DEF ChunkInv, NoDocument
<1>3. /\ gs \in Seq(Seq(R)) /\ us \in Seq(R)
      /\ \A u \in R : u.tokens \in Nat /\ u.pages \subseteq Nat \ {0} /\ IsFiniteSet(u.pages)
      /\ FlattenSeq(gs) \o <<>> = SubSeq(us, 1, chunker.at - 1)
      /\ \A i \in DOMAIN gs : Grouped(chunker.kept, gs[i])
  BY <1>1, <1>2 DEF LoopOK, Measured
<1>4. DOMAIN chunked = DOMAIN gs /\ \A i \in DOMAIN gs :
        /\ chunked[i].units = gs[i] /\ chunked[i].reasons = BoundaryReasons(gs[i])
        /\ chunked[i].span = Span(gs[i], i)
        /\ chunked[i].precision = with_derived_precision(Span(gs[i], i))
  BY <1>2 DEF Made
<1>5. FlattenSeq([i \in DOMAIN chunked |-> chunked[i].units]) = us
  <2>1. gs = [i \in DOMAIN gs |-> gs[i]]
    BY <1>3
  <2>2. [i \in DOMAIN chunked |-> chunked[i].units] = gs
    BY <1>4, <2>1
  <2>3. <<>> \in Seq(R)
    OBVIOUS
  <2>4. FlattenSeq(gs) \in Seq(R)
    BY <1>3, <2>3, FlattenMore
  <2>5. FlattenSeq(gs) \o <<>> = FlattenSeq(gs)
    BY <2>4
  <2>6. Len(us) \in Nat /\ chunker.at - 1 = Len(us)
    BY <1>2, <1>3
  <2>7. SubSeq(us, 1, Len(us)) = us
    BY <1>3
  <2> QED BY <1>3, <2>2, <2>5, <2>6, <2>7
<1>6. ASSUME NEW i \in DOMAIN chunked
      PROVE  LET c == chunked[i]
                 on == UNION {c.units[u].pages : u \in DOMAIN c.units}
             IN  /\ Tokens(c.units) > MaxTokens =>
                      /\ "hard_max_tokens" \in c.reasons
                      /\ Cardinality({u \in DOMAIN c.units : c.units[u].tokens > 0}) = 1
                 /\ \A u \in DOMAIN c.units :
                      /\ c.units[u].kind = "heading" => u = 1
                      /\ c.units[u].kind = "table" /\ "table" \in chunker.kept => u = Len(c.units)
                 /\ c.precision \in {"exact_page", "exact_bbox"} => on = {c.span.page}
                 /\ c.precision = "page_range" => {c.span.first, c.span.last} \subseteq on
                 /\ on \subseteq c.span.first..c.span.last
  <2> DEFINE c == chunked[i]
  <2>1. PICK g, sp : g = gs[i] /\ sp = Span(g, i)
    OBVIOUS
  <2>2. /\ c.units = g /\ c.reasons = BoundaryReasons(g) /\ c.span = sp
        /\ c.precision = with_derived_precision(sp)
    BY <1>4, <2>1
  <2>3. g \in Seq(R) /\ Grouped(chunker.kept, g)
    BY <1>3, <1>4, <2>1
  <2>4. PICK on : /\ on = UNION {g[u].pages : u \in DOMAIN g}
                  /\ with_derived_precision(sp) \in {"exact_page", "exact_bbox"} => on = {sp.page}
                  /\ with_derived_precision(sp) = "page_range" => {sp.first, sp.last} \subseteq on
                  /\ on \subseteq sp.first .. sp.last
    <3>1. PICK on : on = UNION {g[u].pages : u \in DOMAIN g}
      OBVIOUS
    <3>2. LET s  == Span(g, i)
              p  == with_derived_precision(s)
              o  == UNION {g[u].pages : u \in DOMAIN g}
          IN  /\ p \in {"exact_page", "exact_bbox"} => o = {s.page}
              /\ p = "page_range" => {s.first, s.last} \subseteq o
              /\ o \subseteq s.first .. s.last
      BY <1>3, <2>3, SpanTells
    <3> QED BY <2>1, <3>1, <3>2, Zenon
  <2>5. Tokens(g) > MaxTokens =>
          /\ "hard_max_tokens" \in BoundaryReasons(g)
          /\ Cardinality({u \in DOMAIN g : g[u].tokens > 0}) = 1
    BY <2>3 DEF BoundaryReasons, Grouped, Sized, Worded
  <2>6. \A u \in DOMAIN g : /\ g[u].kind = "heading" => u = 1
                            /\ g[u].kind = "table" /\ "table" \in chunker.kept => u = Len(g)
    BY <2>3 DEF Grouped, HeadedOnce, TableLast
  <2>7. /\ on = UNION {c.units[u].pages : u \in DOMAIN c.units}
        /\ c.precision \in {"exact_page", "exact_bbox"} => on = {c.span.page}
        /\ c.precision = "page_range" => {c.span.first, c.span.last} \subseteq on
        /\ on \subseteq c.span.first .. c.span.last
    <3>1. c.span.page = sp.page /\ c.span.first = sp.first /\ c.span.last = sp.last
      BY <2>2
    <3>2. on = UNION {c.units[u].pages : u \in DOMAIN c.units}
      BY <2>2, <2>4
    <3>3. with_derived_precision(sp) = c.precision
      BY <2>2
    <3> HIDE DEF c
    <3> QED BY <2>4, <3>1, <3>2, <3>3
  <2>8. Tokens(c.units) > MaxTokens =>
          /\ "hard_max_tokens" \in c.reasons
          /\ Cardinality({u \in DOMAIN c.units : c.units[u].tokens > 0}) = 1
    BY <2>2, <2>5
  <2>9. \A u \in DOMAIN c.units :
          /\ c.units[u].kind = "heading" => u = 1
          /\ c.units[u].kind = "table" /\ "table" \in chunker.kept => u = Len(c.units)
    BY <2>2, <2>6
  <2> HIDE DEF c
  <2> QED BY <2>7, <2>8, <2>9, Zenon DEF c
<1> QED BY <1>1, <1>5, <1>6 DEF ChunksAreFaithful

\* In every run, for any documents and sizes: every unit is in one chunk in its
\* order, a chunk over the hard limit is a single unit and says so, headings and
\* tables bound their chunks, and spans claim only the pages their units are on.
THEOREM ChunksStayFaithful == ChunkSpec => []ChunksAreFaithful
<1>1. ChunkInit => ChunkInv
  BY DEF ChunkInit, ChunkInv
<1>2. ChunkInv /\ [ChunkNext]_chunkVars => ChunkInv'
  <2> SUFFICES ASSUME ChunkInv, [ChunkNext]_chunkVars PROVE ChunkInv'
    OBVIOUS
  <2>1. CASE UNCHANGED chunkVars
    <3>1. chunker' = chunker /\ chunked' = chunked
      BY <2>1 DEF chunkVars
    <3> QED BY <3>1 DEF ChunkInv
  <2>2. CASE ReadDocument
    BY <2>2, ReadKeeps
  <2>3. CASE TakeHeading \/ TakeTable \/ TakeListItem \/ TakeText
    BY <2>3, TakeKeeps
  <2>4. CASE chunk_document
    BY <2>4, EndKeeps
  <2> QED BY <2>1, <2>2, <2>3, <2>4 DEF ChunkNext
<1>3. ChunkInv => ChunksAreFaithful
  BY ChunksTell
<1> QED BY <1>1, <1>2, <1>3, PTL DEF ChunkSpec
=============================================================================
