------------------------------ MODULE Planning ------------------------------
(***************************************************************************)
(* What is generated and where it goes: the planner (pipeline/planner.py)  *)
(* apportions a number of examples to the cells topology x family x        *)
(* difficulty and tops the plan up after validation; the splitter          *)
(* (pipeline/split.py) sends every source, with its group, to train,       *)
(* validation or test, checks the result for leakage and decides whether   *)
(* the split set may be released.  Weights are whole numbers, so shares    *)
(* are exact fractions.                                                    *)
(***************************************************************************)
EXTENDS Integers, Sequences, FiniteSets, Functions

CONSTANTS Compositions,  \* [topology, family, difficulty]: sequences of <<name, weight>>
          Amounts,       \* chunk counts, targets, caps and validated counts
          Unset,         \* a target or a cap that is not given
          Sources,       \* sources: [id, group, time]; group NoGroup for none
          BucketMaps,    \* what the seeded hash may say: key -> split
          ManualMaps,    \* manual assignments: id or group -> split
          HeldOut,       \* the collection the holdout strategy holds out
          Folds,         \* number of folds
          TrainShare, ValidationShare  \* of the time line, in percent

ASSUME PlanningAssumption ==
  /\ Unset \notin Amounts /\ Folds \in Nat \ {0}
  /\ TrainShare \in 0 .. 100 /\ ValidationShare \in 0 .. 100 - TrainShare

\* Proportions are not negative, and no negative amount is asked for.
ASSUME CompositionsAssumption ==
  /\ Amounts \subseteq Nat
  /\ \A c \in Compositions : \A s \in {c.topology, c.family, c.difficulty} :
       Len(s) \in Nat /\ DOMAIN s = 1 .. Len(s) /\ \A i \in DOMAIN s : s[i][2] \in Nat

NoGroup == ""

\* An id is a handle the system made: no two sources share one, and the
\* collection held out is not named like a source that has no group.
ASSUME SourcesAssumption ==
  /\ \A s, t \in Sources : s.id = t.id => s = t
  /\ \A s \in Sources : s.group = NoGroup => s.id # HeldOut

VARIABLES order,     \* what the planner is asked
          planned,   \* cell -> examples planned
          topUp,     \* the top-up plan
          planStep,
          corpus,    \* sources so far, in the order they were added
          hash,      \* the bucket of each key under the seed
          splitOf,   \* source id -> split
          how,       \* strategy of the last assignment
          integrity  \* verdict of the leakage check

planVars == <<order, planned, topUp, planStep>>
splitVars == <<corpus, hash, splitOf, how, integrity>>

Lower(a, b) == IF a < b THEN a ELSE b

-----------------------------------------------------------------------------
(* The planner *)

_TOPOLOGIES == <<"sft", "preference", "kto", "evaluation">>

\* Explicit proportions, of the known topologies only, or the default.
_topology_weights(c) ==
  IF c.topology = <<>> THEN <<6, 2, 1, 1>>
  ELSE [i \in 1 .. 4 |->
          LET mine == {n \in DOMAIN c.topology : c.topology[n][1] = _TOPOLOGIES[i]}
          IN  IF mine = {} THEN 0 ELSE c.topology[CHOOSE n \in mine : TRUE][2]]

Weights(given, default) == [n \in DOMAIN (IF given = <<>> THEN default ELSE given) |->
                              (IF given = <<>> THEN default ELSE given)[n][2]]
effective_proportions(c) == Weights(c.family, <<<<"factual_explanation", 1>>>>)
difficulties(c) == Weights(c.difficulty, <<<<"basic", 3>>, <<"intermediate", 5>>, <<"advanced", 2>>>>)

\* A cell is the position of its topology, family and difficulty.
Weight(c, x) == _topology_weights(c)[x[1]] * effective_proportions(c)[x[2]] * difficulties(c)[x[3]]
Whole(c) == SumFunction(_topology_weights(c)) * SumFunction(effective_proportions(c))
              * SumFunction(difficulties(c))
Cells(c) == {x \in (1 .. 4) \X (DOMAIN effective_proportions(c)) \X (DOMAIN difficulties(c)) :
               Weight(c, x) > 0}

\* The cap binds a target; without a target there is one example per chunk.
BaseTotal(o) ==
  IF o.target = Unset THEN o.chunks
  ELSE IF o.cap = Unset THEN o.target ELSE Lower(o.target, o.cap)

Earlier(x, y) == \/ x[1] < y[1]
                 \/ x[1] = y[1] /\ x[2] < y[2]
                 \/ x[1] = y[1] /\ x[2] = y[2] /\ x[3] < y[3]

\* Mutant: every cell is rounded by itself.
planIndependently(o) ==
  LET c == o.composition
      n == [x \in Cells(c) |-> (2 * BaseTotal(o) * Weight(c, x) + Whole(c)) \div (2 * Whole(c))]
  IN  [x \in {y \in Cells(c) : n[y] > 0} |-> n[x]]

\* Largest remainders: every cell gets the floor of its share, the units left
\* go to the largest remainders, then the larger weights, then the earlier
\* cells.  Cells with nothing are left out of the plan.
plan(o) ==
  LET c == o.composition
      exact(x) == BaseTotal(o) * Weight(c, x)
      floor(x) == exact(x) \div Whole(c)
      rest(x) == exact(x) % Whole(c)
      leftover == BaseTotal(o) - SumFunction([x \in Cells(c) |-> floor(x)])
      before(x) == {y \in Cells(c) \ {x} :
                      \/ rest(y) > rest(x)
                      \/ rest(y) = rest(x) /\ Weight(c, y) > Weight(c, x)
                      \/ rest(y) = rest(x) /\ Weight(c, y) = Weight(c, x) /\ Earlier(y, x)}
      count(x) == floor(x) + IF Cardinality(before(x)) < leftover THEN 1 ELSE 0
  IN  [x \in {y \in Cells(c) : count(y) > 0} |-> count(x)]

\* Halves go to the even neighbour.
Round(n, d) ==
  LET q == n \div d
      r == 2 * (n % d)
  IN  IF r > d \/ (r = d /\ q % 2 = 1) THEN q + 1 ELSE q

NoTopUp == [shortfall |-> 0, additional |-> 0, capped |-> FALSE, specs |-> <<>>]

Room(p, cap, shortfall) ==
  IF cap = Unset THEN shortfall
  ELSE LET left == cap - SumFunction(p)
       IN  Lower(shortfall, IF left < 0 THEN 0 ELSE left)

\* The shortfall, as far as the cap leaves room, shared out by rounding.
top_up_plan(p, target, validated, cap) ==
  LET shortfall == IF target > validated THEN target - validated ELSE 0
      additional == Room(p, cap, shortfall)
      weight == IF SumFunction(p) = 0 THEN 1 ELSE SumFunction(p)
      share == [x \in DOMAIN p |-> Round(additional * p[x], weight)]
  IN  CASE shortfall = 0 -> NoTopUp
        [] shortfall > 0 /\ additional = 0 ->
             [NoTopUp EXCEPT !.shortfall = shortfall, !.capped = TRUE]
        [] OTHER -> [shortfall |-> shortfall, additional |-> SumFunction(share),
                     capped |-> additional < shortfall,
                     specs |-> [x \in {y \in DOMAIN p : share[y] > 0} |-> share[x]]]

-----------------------------------------------------------------------------
(* The splitter *)

Splits == <<"train", "validation", "test">>
Strategies == {"grouped_random", "time_based", "holdout", "manual", "kfold"}
SplitNames == {Splits[i] : i \in 1 .. 3}
key(s) == IF s.group = NoGroup THEN s.id ELSE s.group
_collect_groups(ss) == {key(s) : s \in ss}

\* Mutant: the draw depends on how many groups there are.
grouped_randomBySize(ss, bucket) ==
  [i \in {s.id : s \in ss} |->
     IF Cardinality(_collect_groups(ss)) > 1 THEN bucket[key(CHOOSE s \in ss : s.id = i)] ELSE "train"]

grouped_random(ss, bucket) ==
  [i \in {s.id : s \in ss} |-> bucket[key(CHOOSE s \in ss : s.id = i)]]

\* An entry for the id counts before one for the group; anything that is no
\* split falls back to the group, then to train.
manual(ss, map) ==
  [i \in {s.id : s \in ss} |->
     LET s == CHOOSE x \in ss : x.id = i
         entry(k) == IF k \in DOMAIN map THEN map[k] ELSE ""
         first == IF entry(s.id) # "" THEN entry(s.id) ELSE entry(s.group)
     IN  IF first \in SplitNames THEN first
         ELSE IF s.group # NoGroup /\ entry(s.group) \in SplitNames THEN entry(s.group)
         ELSE "train"]

\* By acquisition time; sources of the same time keep their order.
time_based(seq) ==
  LET ss == Range(seq)
      at(s) == CHOOSE n \in DOMAIN seq : seq[n] = s
      before(s) == {x \in ss : x.time < s.time \/ (x.time = s.time /\ at(x) < at(s))}
      passed(s) == 100 * Cardinality(before(s))
      total == Cardinality(ss)
  IN  [i \in {s.id : s \in ss} |->
         LET s == CHOOSE x \in ss : x.id = i
         IN  CASE passed(s) < TrainShare * total -> "train"
               [] passed(s) >= (TrainShare + ValidationShare) * total -> "test"
               [] OTHER -> "validation"]

holdout(ss, held) ==
  [i \in {s.id : s \in ss} |->
     IF (CHOOSE s \in ss : s.id = i).group = held THEN "test" ELSE "train"]

\* Keys are dealt to the folds in turn, in a shuffled order.
_kfold_groups(ss) ==
  LET keys == _collect_groups(ss)
  IN  {[k \in keys |-> (p[k] - 1) % Folds] :
         p \in {q \in [keys -> 1 .. Cardinality(keys)] : \A a, b \in keys : q[a] = q[b] => a = b}}

kfold(ss, folds, fold) ==
  [i \in {s.id : s \in ss} |->
     LET f == folds[key(CHOOSE s \in ss : s.id = i)]
     IN  CASE f = fold -> "test"
           [] f # fold /\ f = (fold + 1) % Folds -> "validation"
           [] OTHER -> "train"]

\* Mutant: only neighbouring sources are compared.
check_split_integrityAdjacent(pairs) ==
  LET leaked == {pairs[i][1] : i \in {n \in DOMAIN pairs :
                   n > 1 /\ pairs[n - 1][1] = pairs[n][1] /\ pairs[n - 1][2] # pairs[n][2]}}
  IN  [ok |-> leaked = {}, leaked |-> leaked,
       groups |-> Cardinality({pairs[i][1] : i \in DOMAIN pairs})]

\* Every pair is held against the first split seen for its group.
check_split_integrity(pairs) ==
  LET first(g) == pairs[CHOOSE i \in DOMAIN pairs :
                          pairs[i][1] = g /\ \A j \in 1 .. i - 1 : pairs[j][1] # g][2]
      leaked == {pairs[i][1] : i \in {n \in DOMAIN pairs : pairs[n][2] # first(pairs[n][1])}}
  IN  [ok |-> leaked = {}, leaked |-> leaked,
       groups |-> Cardinality({pairs[i][1] : i \in DOMAIN pairs})]

evaluate_split_release(train, validation, test, groups, allowance) ==
  CASE train = 0 -> [ok |-> FALSE, gate |-> "train_required"]
    [] train > 0 /\ validation = 0 /\ test = 0 /\ groups > 0 ->
         [ok |-> groups # 1 \/ allowance, gate |-> "small_corpus_policy"]
    [] OTHER -> [ok |-> TRUE, gate |-> "ok"]

plan_small_corpus_splits(groups) ==
  CASE groups <= 1 -> {"train"}
    [] groups = 2 -> {"train", "validation"}
    [] OTHER -> SplitNames

-----------------------------------------------------------------------------
(* Behaviour *)

NoOrder == [composition |-> <<>>, chunks |-> 0, target |-> Unset, cap |-> Unset]

PlanInit == order = NoOrder /\ planned = <<>> /\ topUp = NoTopUp /\ planStep = "idle"

MakePlan ==
  /\ planStep = "idle" /\ planStep' = "planned"
  /\ \E c \in Compositions, n \in Amounts, t \in Amounts \cup {Unset}, b \in Amounts \cup {Unset} :
        order' = [composition |-> c, chunks |-> n, target |-> t, cap |-> b]
  /\ planned' = plan(order')
  /\ UNCHANGED topUp

\* What passes validation is at most what was planned.
TopUp ==
  /\ planStep = "planned" /\ order.target # Unset /\ planStep' = "topped"
  /\ \E v \in {a \in Amounts : a <= SumFunction(planned)} :
        topUp' = top_up_plan(planned, order.target, v, order.cap)
  /\ UNCHANGED <<order, planned>>

PlanNext == MakePlan \/ TopUp

PlanSpec == PlanInit /\ [][PlanNext]_planVars

Placements(seq, split) == [i \in DOMAIN seq |-> <<key(seq[i]), split[seq[i].id]>>]
NoVerdict == check_split_integrity(<<>>)

SplitInit == /\ corpus = <<>> /\ hash \in BucketMaps /\ splitOf = <<>>
             /\ how = "none" /\ integrity = NoVerdict

AddSource ==
  /\ \E s \in Sources \ Range(corpus) : corpus' = Append(corpus, s)
  /\ UNCHANGED <<hash, splitOf, how, integrity>>

\* assign_splits under one strategy, then the leakage check.  The table of
\* groups the code also fills is read by nobody.  With no collection to hold
\* out, sources are drawn as by default.
Assign(strategy, split) ==
  /\ corpus # <<>>
  /\ splitOf' = split /\ how' = strategy
  /\ integrity' = check_split_integrity(Placements(corpus, split))
  /\ UNCHANGED <<corpus, hash>>

AssignSplits ==
  LET ss == Range(corpus)
      drawn == grouped_random(ss, hash)
  IN  \/ Assign("grouped_random", drawn)
      \/ \E m \in ManualMaps : Assign("manual", manual(ss, m))
      \/ Assign("time_based", time_based(corpus))
      \/ Assign("holdout", IF HeldOut = NoGroup THEN drawn ELSE holdout(ss, HeldOut))
      \/ \E f \in _kfold_groups(ss), n \in 0 .. Folds - 1 : Assign("kfold", kfold(ss, f, n))

SplitNext == AddSource \/ AssignSplits

SplitSpec == SplitInit /\ [][SplitNext]_splitVars

-----------------------------------------------------------------------------
(* Properties of the plan *)

\* The plan spends its total exactly whenever some cell has weight: the target, as
\* far as the cap allows, or without a target one example per chunk, whatever the
\* cap.  Every cell gets its exact share rounded up or down: a thin document is
\* never planned away (plan, the largest-remainder comment).
PlanIsExact ==
  planStep # "idle" =>
    LET c == order.composition
        share(x) == BaseTotal(order) * Weight(c, x)
        got(x) == IF x \in DOMAIN planned THEN planned[x] ELSE 0
    IN  /\ SumFunction(planned) = IF Cells(c) = {} THEN 0 ELSE BaseTotal(order)
        /\ \A x \in Cells(c) : /\ got(x) * Whole(c) > share(x) - Whole(c)
                               /\ got(x) * Whole(c) < share(x) + Whole(c)

-----------------------------------------------------------------------------
(* Properties of the splits *)

Placed == {s \in Range(corpus) : s.id \in DOMAIN splitOf}
Leaks == {key(s) : s \in {x \in Placed : \E y \in Placed :
                            key(y) = key(x) /\ splitOf[y.id] # splitOf[x.id]}}

\* The leakage check names exactly the groups that are in two splits, in
\* whatever order the sources come; and it finds none unless the strategy is
\* the chronological one or a manual map that names single sources.
LeakageIsNamed ==
  /\ how # "none" => integrity.leaked = Leaks /\ integrity.ok = (Leaks = {})
  /\ how \in {"grouped_random", "holdout", "kfold"} => Leaks = {}

\* A source added later moves no other source: under one seed a dataset made
\* again keeps its test sources out of training (assign_splits).
GrowthMovesNobody ==
  [][how = "grouped_random" /\ how' = "grouped_random" =>
       \A i \in DOMAIN splitOf : splitOf'[i] = splitOf[i]]_splitVars

=============================================================================
